------------------------ MODULE DiscoverySync_proofs ------------------------
(***************************************************************************)
(* Proofs about the map's discovery, for any number of queries, entities   *)
(* and requests, and any bounds on changes, gestures and losses.           *)
(***************************************************************************)
EXTENDS DiscoverySync, TLAPS

\* What a set of points, the database, a socket event and what was heard say of
\* one entity.
Slice(pts, e) == {p \in pts : p[1] = e}
Now(e) == IF place[e] = query THEN {<<e, ver[e]>>} ELSE {}
Agrees(m) == /\ m.at = query <=> place[m.e] = query
             /\ m.at = query => m.v = ver[m.e]
Heard(e) == IF Len(news[e]) = 2 THEN {news[e]} ELSE {}

\* Nothing more is to be told of an entity, and nothing was told late.
Settled(e) ==
    /\ e \notin tainted
    /\ \A r \in resolving : r.e # e
    /\ \A i \in 1..Len(wire) : wire[i].e # e

\* The fan-out's own types.
Message == [e : Entity, v : Version, at : Query \cup {NoQuery}]
Resolution == [e : Entity, pc : {"asked", "read"}, v : Version, at : Query \cup {NoQuery}]
VersionsUsed == \A e \in Entity : ver[e] <= changes
FanOutTypes ==
    /\ wire \in Seq(Message) /\ resolving \subseteq Resolution
    /\ \A r \in resolving : r.v <= changes

\* What was heard: nothing, that the entity left, or a point.
NewsTypes ==
    /\ news = [e \in Entity |-> news[e]]
    /\ \A e \in Entity : \/ news[e] = <<>> \/ news[e] = <<e>>
                         \/ \E v \in Version : news[e] = <<e, v>>

\* A resolution that is not stale says where the entity is, and the last event
\* of an entity says what the database says, unless another is to follow.
FanOutFollows ==
    /\ \A r \in resolving : r.pc = "read" /\ r.v = ver[r.e] => r.at = place[r.e]
    /\ \A i \in 1..Len(wire) :
          \/ wire[i].e \in tainted \/ \E r \in resolving : r.e = wire[i].e
          \/ Agrees(wire[i])
          \/ \E j \in 1..Len(wire) : j > i /\ wire[j].e = wire[i].e

\* One point per entity; a difference is between the two sets it is named for.
OnePoint(pts) == \A x, y \in pts : x[1] = y[1] => x = y
HandlerExact(h) ==
    /\ OnePoint(h.pts)
    /\ h.pc # "answered" => h.before = <<>>
    /\ h.before # <<>> => h.add = h.pts \ h.before[1] /\ h.drop = Keys(h.before[1] \ h.pts)
AnswersExact ==
    /\ \A s \in Slot : HandlerExact(handler[s])
    /\ OnePoint(cached)
    /\ BaselineIsExactUnlessDrifted

\* Of what is settled the map shows what there is, and so it will when the
\* answer that is waited for is taken.
MapFollows ==
    baseline = query /\ ~drifted /\ ~strayed =>
        \A e \in Entity : Settled(e) => Slice(shown, e) = Now(e)
AnswerFollows ==
    cur # NoSlot /\ lastKey = query =>
        \A e \in Entity : Settled(e) =>
            /\ news[e] # NoNews => Heard(e) = Now(e)
            /\ news[e] = NoNews /\ handler[cur].pc # "sent" => Slice(handler[cur].pts, e) = Now(e)
NewsShown == \A e \in Entity : news[e] # NoNews => Slice(shown, e) = Heard(e)

\* What the loading state waits for.
Waits ==
    /\ loading => cur # NoSlot \/ wants \/ retry \/ lastKey = query
    /\ loading /\ cur = NoSlot /\ lastKey = query => strayed
    /\ cur # NoSlot /\ lastKey # query => strayed

SyncInv ==
    /\ TypeOK /\ VersionsUsed /\ FanOutTypes /\ FanOutFollows /\ NewsTypes /\ AnswersExact
    /\ MapFollows /\ AnswerFollows /\ NewsShown /\ Waits

Handling == [pc : {"idle", "sent", "read", "stored", "answered"},
             q : Query \cup {NoQuery}, prev : Query \cup {NoQuery},
             pts : SUBSET Point, add : SUBSET Point, drop : SUBSET Entity,
             before : Snapshots]

-----------------------------------------------------------------------------
(* Sequences, points and handlers *)

\* The events on the wire when one is added and when the first is taken.
LEMMA AppendFacts ==
    ASSUME NEW S, NEW q \in Seq(S), NEW m \in S
    PROVE  /\ Append(q, m) \in Seq(S) /\ Len(Append(q, m)) = Len(q) + 1 /\ Len(q) \in Nat
           /\ \A i \in 1..Len(q) : Append(q, m)[i] = q[i]
           /\ Append(q, m)[Len(q) + 1] = m
OBVIOUS

LEMMA TailFacts ==
    ASSUME NEW S, NEW q \in Seq(S), q # <<>>
    PROVE  /\ Tail(q) \in Seq(S) /\ Len(Tail(q)) = Len(q) - 1 /\ Len(q) \in Nat \ {0}
           /\ \A i \in 1..Len(q) - 1 : Tail(q)[i] = q[i + 1]
           /\ Head(q) = q[1] /\ Head(q) \in S
OBVIOUS

\* What was heard of an entity, by its length.
LEMMA NewsLengths ==
    ASSUME NEW e, NEW v
    PROVE  /\ Len(<<e, v>>) = 2 /\ Len(<<e>>) = 1 /\ Len(<<>>) = 0
           /\ <<e, v>> # <<>> /\ <<e>> # <<>> /\ <<e, v>>[1] = e
OBVIOUS

\* The points of a query, entity by entity.
LEMMA PointsNow ==
    ASSUME TypeOK, NEW q \in Query \cup {NoQuery}
    PROVE  /\ PointsIn(q) \in SUBSET Point /\ OnePoint(PointsIn(q))
           /\ q = query => \A e \in Entity : Slice(PointsIn(q), e) = Now(e)
BY DEF TypeOK, PointsIn, Point, OnePoint, Slice, Now

\* A handler that has nothing to do.
LEMMA QuietHandler ==
    /\ Quiet \in Handling /\ HandlerExact(Quiet) /\ Quiet.pc = "idle"
    /\ Quiet.pts = {} /\ Quiet.before = <<>>
<1>1. <<>> \in Snapshots
    BY DEF Snapshots
<1> QED BY <1>1 DEF Quiet, Handling, HandlerExact, OnePoint

\* An abort leaves the other requests alone.
LEMMA AbortFacts ==
    ASSUME SoundConstants, TypeOK, AnswersExact, NEW h \in AfterAbort
    PROVE  /\ h \in [Slot -> Handling] /\ \A s \in Slot : HandlerExact(h[s])
           /\ \A s \in Slot : s # cur => h[s] = handler[s]
<1>1. handler \in [Slot -> Handling] /\ cur \in Slot \cup {NoSlot}
    BY DEF TypeOK, Handling
<1>2. CASE h = handler
    BY <1>1, <1>2 DEF AnswersExact
<1>3. CASE cur \in Slot /\ h = [handler EXCEPT ![cur] = Quiet]
    BY <1>1, <1>3, QuietHandler DEF AnswersExact
<1>4. CASE cur \in Slot /\ h = [handler EXCEPT ![cur].prev = NoQuery]
    <2>1. h = [handler EXCEPT ![cur] = [handler[cur] EXCEPT !.prev = NoQuery]]
        BY <1>4
    <2>2. [handler[cur] EXCEPT !.prev = NoQuery] \in Handling
        BY <1>1, <1>4 DEF Handling
    <2>3. HandlerExact([handler[cur] EXCEPT !.prev = NoQuery])
        BY <1>1, <1>4 DEF AnswersExact, HandlerExact, Handling
    <2> QED BY <1>1, <1>4, <2>1, <2>2, <2>3 DEF AnswersExact
<1> QED BY <1>1, <1>2, <1>3, <1>4 DEF AfterAbort

\* The map before it is asked for anything.
LEMMA InitSync == ASSUME SoundConstants PROVE Init => SyncInv
<1> SUFFICES ASSUME Init PROVE SyncInv
    OBVIOUS
<1>1. handler \in [Slot -> Handling] /\ \A s \in Slot : handler[s] = Quiet
    BY QuietHandler DEF Init
<1>2. snap \in [Query -> Snapshots]
    BY DEF Init, Snapshots
<1>3. ver \in [Entity -> Version] /\ changes \in Version /\ gestures \in 0..MaxGestures
      /\ losses \in 0..MaxLosses
    BY DEF Init, Version, SoundConstants
<1>4. TypeOK
    BY <1>1, <1>2, <1>3 DEF Init, TypeOK, Handling
<1>5. FanOutTypes /\ FanOutFollows
    <2>1. wire \in Seq(Message) /\ Len(wire) = 0
        BY DEF Init
    <2> QED BY <2>1 DEF Init, FanOutTypes, FanOutFollows
<1>6. NewsTypes /\ NewsShown
    BY DEF Init, NewsTypes, NewsShown, NoNews
<1>7. AnswersExact
    BY <1>1, QuietHandler DEF Init, AnswersExact, BaselineIsExactUnlessDrifted, OnePoint
<1>8. VersionsUsed
    BY DEF Init, VersionsUsed
<1> QED BY <1>4, <1>5, <1>6, <1>7, <1>8
        DEF Init, SyncInv, MapFollows, AnswerFollows, Waits, SoundConstants

-----------------------------------------------------------------------------
(* The fan-out *)

\* A change, and what is resolved and sent for it, leaves settled what is said
\* already.
FansOut == \/ \E e \in Entity, to \in Query \cup {NoQuery} : Change(e, to)
           \/ \E r \in resolving : ResolveReads(r) \/ ResolveEmits(r)
LEMMA FanOutStill ==
    FansOut => UNCHANGED <<gestures, losses, snap, handler, query, asking, points, news, strayed>>
BY DEF FansOut, Change, ResolveReads, ResolveEmits, counts

\* An entity moves or is edited.
LEMMA ChangeTells ==
    ASSUME SoundConstants, SyncInv, NEW e \in Entity, NEW to \in Query \cup {NoQuery},
           Change(e, to)
    PROVE  /\ FanOutTypes' /\ FanOutFollows' /\ tainted' = tainted /\ changes' \in Version
           /\ VersionsUsed'
           /\ place' \in [Entity -> Query \cup {NoQuery}] /\ ver' \in [Entity -> Version]
           /\ \A d \in Entity : Settled(d)' => Settled(d) /\ Now(d)' = Now(d)
<1> DEFINE v == changes + 1
           gone == [e |-> e, v |-> v, at |-> NoQuery]
           ask == [e |-> e, pc |-> "asked", v |-> 0, at |-> to]
<1>1. /\ place' = [place EXCEPT ![e] = to] /\ ver' = [ver EXCEPT ![e] = v]
      /\ changes' = v /\ changes < MaxChanges
      /\ wire' = IF place[e] = query /\ to # query THEN Append(wire, gone) ELSE wire
      /\ resolving' = IF to = query THEN resolving \cup {ask} ELSE resolving
      /\ UNCHANGED <<query, tainted>>
    BY DEF Change
<1>2. v \in Version /\ 0 \in Version /\ changes \in Nat
    BY <1>1 DEF SyncInv, TypeOK, Version, SoundConstants
<1>3. /\ place \in [Entity -> Query \cup {NoQuery}] /\ ver \in [Entity -> Version]
      /\ wire \in Seq(Message) /\ resolving \subseteq Resolution /\ query \in Query
    BY DEF SyncInv, TypeOK, FanOutTypes
<1>4. /\ gone \in Message /\ gone.e = e /\ gone.at = NoQuery /\ gone.v = v
      /\ to = query => ask \in Resolution
      /\ ask.e = e /\ ask.v = 0 /\ ask.pc = "asked"
    BY <1>2, <1>3 DEF Message, Resolution
<1> HIDE DEF gone, ask
<1>5. /\ place' \in [Entity -> Query \cup {NoQuery}] /\ ver' \in [Entity -> Version]
      /\ \A d \in Entity \ {e} : place'[d] = place[d] /\ ver'[d] = ver[d]
      /\ place'[e] = to /\ ver'[e] = v
    BY <1>1, <1>2, <1>3
<1>6. /\ Len(wire) \in Nat
      /\ \/ /\ wire' = wire
            /\ place[e] # query \/ to = query
         \/ /\ wire' \in Seq(Message) /\ Len(wire') = Len(wire) + 1
            /\ \A i \in 1..Len(wire) : wire'[i] = wire[i]
            /\ wire'[Len(wire) + 1] = gone /\ to # query /\ place[e] = query
    BY <1>1, <1>3, <1>4, AppendFacts
<1>7. FanOutTypes'
    BY <1>1, <1>2, <1>3, <1>4, <1>6 DEF SyncInv, FanOutTypes, Resolution, Version
<1>12. VersionsUsed'
    BY <1>1, <1>2, <1>5 DEF SyncInv, VersionsUsed, TypeOK, Version
<1>8. NoQuery # query
    BY <1>3 DEF SoundConstants
<1>9. \A d \in Entity : Settled(d)' => Settled(d) /\ Now(d)' = Now(d)
    <2> SUFFICES ASSUME NEW d \in Entity, Settled(d)' PROVE Settled(d) /\ Now(d)' = Now(d)
        OBVIOUS
    <2>1. Settled(d)
        BY <1>1, <1>6 DEF Settled
    <2>2. d = e => to # query /\ place[e] # query
        BY <1>1, <1>4, <1>6 DEF Settled
    <2> QED BY <1>1, <1>5, <2>1, <2>2 DEF Now
<1>10. \A r \in resolving' : r.pc = "read" /\ r.v = ver'[r.e] => r.at = place'[r.e]
    <2> SUFFICES ASSUME NEW r \in resolving', r.pc = "read", r.v = ver'[r.e]
                 PROVE  r.at = place'[r.e]
        OBVIOUS
    <2>1. r \in resolving /\ r.e \in Entity /\ r.v <= changes
        BY <1>1, <1>3, <1>4 DEF SyncInv, FanOutTypes, Resolution
    <2>2. r.e # e
        BY <1>2, <1>5, <2>1
    <2> QED BY <1>5, <2>1, <2>2 DEF SyncInv, FanOutFollows
<1>11. FanOutFollows'
    <2> SUFFICES ASSUME NEW i \in 1..Len(wire'), NEW m, m = wire'[i], m.e \notin tainted,
                        \A r \in resolving' : r.e # m.e,
                        \A j \in 1..Len(wire') : j > i => wire'[j].e # m.e
                 PROVE  Agrees(m)'
        BY <1>1, <1>10 DEF FanOutFollows, Agrees
    <2>1. CASE i \in 1..Len(wire)
        <3>1. m = wire[i] /\ m \in Message
            BY <1>3, <1>6, <2>1
        <3>2. /\ m.e \in Entity /\ \A r \in resolving : r.e # m.e
              /\ \A j \in 1..Len(wire) : j > i => wire[j].e # m.e
            BY <1>1, <1>6, <2>1, <3>1 DEF Message
        <3>3. Agrees(m)
            BY <1>1, <2>1, <3>1, <3>2 DEF SyncInv, FanOutFollows
        <3>4. m.e = e => to # query /\ place[e] # query
            BY <1>1, <1>4, <1>6, <2>1, <3>2
        <3> QED BY <1>1, <1>5, <3>2, <3>3, <3>4 DEF Agrees
    <2>2. CASE i \notin 1..Len(wire)
        <3>1. m = gone /\ to # query
            BY <1>6, <2>2
        <3> QED BY <1>1, <1>4, <1>5, <1>8, <3>1 DEF Agrees
    <2> QED BY <2>1, <2>2
<1> QED BY <1>1, <1>2, <1>5, <1>7, <1>9, <1>11, <1>12

\* A resolution reads where the entity is.
LEMMA ReadTells ==
    ASSUME SoundConstants, SyncInv, NEW r \in resolving, ResolveReads(r)
    PROVE  /\ FanOutTypes' /\ FanOutFollows' /\ UNCHANGED <<db, tainted, wire, query>>
           /\ \A d \in Entity : Settled(d)' => Settled(d) /\ Now(d)' = Now(d)
<1> DEFINE s == [e |-> r.e, pc |-> "read", v |-> ver[r.e], at |-> place[r.e]]
<1>1. /\ resolving' = (resolving \ {r}) \cup {s}
      /\ UNCHANGED <<db, place, ver, changes, tainted, wire, query>>
    BY DEF ResolveReads, db
<1>2. /\ r \in Resolution /\ r.e \in Entity
      /\ place \in [Entity -> Query \cup {NoQuery}] /\ ver \in [Entity -> Version]
    BY DEF SyncInv, TypeOK, FanOutTypes, Resolution
<1>3. s \in Resolution /\ s.e = r.e /\ s.v = ver[r.e] /\ s.at = place[r.e]
    BY <1>2 DEF Resolution
<1> HIDE DEF s
<1>4. ver[r.e] <= changes
    BY <1>2 DEF SyncInv, VersionsUsed
<1>5. FanOutTypes'
    BY <1>1, <1>2, <1>3, <1>4 DEF SyncInv, FanOutTypes, VersionsUsed
<1>6. \A e \in Entity : (\E q \in resolving : q.e = e) <=> \E q \in resolving' : q.e = e
    BY <1>1, <1>3
<1>7. FanOutFollows'
    <2>1. \A q \in resolving' : q.pc = "read" /\ q.v = ver'[q.e] => q.at = place'[q.e]
        BY <1>1, <1>3 DEF SyncInv, FanOutFollows
    <2>2. \A i \in 1..Len(wire) : wire[i].e \in Entity
        <3>1. \A i \in 1..Len(wire) : wire[i] \in Message
            BY DEF SyncInv, FanOutTypes
        <3> QED BY <3>1 DEF Message
    <2>3. \A i \in 1..Len(wire) :
             \/ wire[i].e \in tainted \/ \E q \in resolving' : q.e = wire[i].e
             \/ Agrees(wire[i])
             \/ \E j \in 1..Len(wire) : j > i /\ wire[j].e = wire[i].e
        BY <1>6, <2>2 DEF SyncInv, FanOutFollows
    <2> QED BY <1>1, <2>1, <2>3 DEF FanOutFollows, Agrees
<1> QED BY <1>1, <1>5, <1>6, <1>7 DEF Settled, Now

\* A resolution tells the subscriber what it has read.
LEMMA EmitTells ==
    ASSUME SoundConstants, SyncInv, NEW r \in resolving, ResolveEmits(r)
    PROVE  /\ FanOutTypes' /\ FanOutFollows' /\ UNCHANGED <<db, query>>
           /\ tainted' \subseteq Entity
           /\ \A d \in Entity : Settled(d)' => Settled(d) /\ Now(d)' = Now(d)
<1> DEFINE m == [e |-> r.e, v |-> r.v, at |-> r.at]
<1>1. /\ resolving' = resolving \ {r} /\ wire' = Append(wire, m) /\ r.pc = "read"
      /\ tainted' = IF r.v = ver[r.e] THEN tainted ELSE tainted \cup {r.e}
      /\ UNCHANGED <<db, place, ver, changes, query>>
    BY DEF ResolveEmits, db
<1>2. /\ r \in Resolution /\ r.e \in Entity /\ tainted \subseteq Entity
      /\ wire \in Seq(Message)
    BY DEF SyncInv, TypeOK, FanOutTypes, Resolution
<1>3. m \in Message /\ m.e = r.e /\ m.v = r.v /\ m.at = r.at
    BY <1>2 DEF Message, Resolution
<1> HIDE DEF m
<1>4. /\ wire' \in Seq(Message) /\ Len(wire') = Len(wire) + 1 /\ Len(wire) \in Nat
      /\ \A i \in 1..Len(wire) : wire'[i] = wire[i]
      /\ wire'[Len(wire) + 1] = m
    BY <1>1, <1>2, <1>3, AppendFacts
<1>5. FanOutTypes'
    BY <1>1, <1>4 DEF SyncInv, FanOutTypes
<1>6. \A d \in Entity : Settled(d)' => Settled(d) /\ Now(d)' = Now(d)
    <2> SUFFICES ASSUME NEW d \in Entity, Settled(d)' PROVE Settled(d) /\ Now(d)' = Now(d)
        OBVIOUS
    <2>1. d # r.e
        BY <1>3, <1>4 DEF Settled
    <2>2. Settled(d)
        BY <1>1, <1>4, <2>1 DEF Settled
    <2> QED BY <1>1, <2>2 DEF Now
<1>7. FanOutFollows'
    <2>1. \A q \in resolving' : q.pc = "read" /\ q.v = ver'[q.e] => q.at = place'[q.e]
        BY <1>1 DEF SyncInv, FanOutFollows
    <2> SUFFICES ASSUME NEW i \in 1..Len(wire'), NEW n, n = wire'[i], n.e \notin tainted',
                        \A q \in resolving' : q.e # n.e,
                        \A j \in 1..Len(wire') : j > i => wire'[j].e # n.e
                 PROVE  Agrees(n)'
        BY <2>1 DEF FanOutFollows, Agrees
    <2>2. CASE i \in 1..Len(wire)
        <3>1. n = wire[i] /\ n.e # r.e
            BY <1>3, <1>4, <2>2
        <3>2. /\ \A q \in resolving : q.e # n.e
              /\ \A j \in 1..Len(wire) : j > i => wire[j].e # n.e
              /\ n.e \notin tainted
            BY <1>1, <1>4, <2>2, <3>1
        <3>3. Agrees(n)
            BY <2>2, <3>1, <3>2 DEF SyncInv, FanOutFollows
        <3> QED BY <1>1, <3>3 DEF Agrees
    <2>3. CASE i \notin 1..Len(wire)
        <3>1. n = m /\ r.v = ver[r.e]
            BY <1>1, <1>3, <1>4, <2>3
        <3>2. r.at = place[r.e]
            BY <1>1, <3>1 DEF SyncInv, FanOutFollows
        <3> QED BY <1>1, <1>3, <3>1, <3>2 DEF Agrees
    <2> QED BY <2>2, <2>3
<1> QED BY <1>1, <1>2, <1>5, <1>6, <1>7

\* What the fan-out does keeps the invariant.
LEMMA FanOutKeeps ==
    ASSUME SoundConstants, SyncInv, FansOut
    PROVE  SyncInv'
<1>1. UNCHANGED <<gestures, losses, snap, handler, query, asking, points, news, strayed>>
    BY FanOutStill
<1>2. /\ FanOutTypes' /\ FanOutFollows' /\ changes' \in Version /\ tainted' \subseteq Entity
      /\ place' \in [Entity -> Query \cup {NoQuery}] /\ ver' \in [Entity -> Version]
      /\ VersionsUsed'
      /\ \A d \in Entity : Settled(d)' => Settled(d) /\ Now(d)' = Now(d)
    <2>1. CASE \E e \in Entity, to \in Query \cup {NoQuery} : Change(e, to)
        BY <2>1, ChangeTells DEF SyncInv, TypeOK
    <2>2. CASE \E r \in resolving : ResolveReads(r)
        BY <2>2, ReadTells DEF SyncInv, TypeOK, db, VersionsUsed
    <2>3. CASE \E r \in resolving : ResolveEmits(r)
        BY <2>3, EmitTells DEF SyncInv, TypeOK, db, VersionsUsed
    <2>4. \/ \E e \in Entity, to \in Query \cup {NoQuery} : Change(e, to)
          \/ \E r \in resolving : ResolveReads(r)
          \/ \E r \in resolving : ResolveEmits(r)
        BY DEF FansOut
    <2> QED BY <2>1, <2>2, <2>3, <2>4
<1>3. TypeOK'
    BY <1>1, <1>2 DEF SyncInv, TypeOK, asking, points
<1>4. NewsTypes' /\ AnswersExact' /\ NewsShown' /\ Waits'
    BY <1>1 DEF SyncInv, NewsTypes, AnswersExact, HandlerExact, BaselineIsExactUnlessDrifted,
        NewsShown, Heard, Waits, asking, points
<1>5. MapFollows'
    BY <1>1, <1>2 DEF SyncInv, MapFollows, points
<1>6. AnswerFollows'
    BY <1>1, <1>2 DEF SyncInv, AnswerFollows, Heard, asking
<1> QED BY <1>2, <1>3, <1>4, <1>5, <1>6 DEF SyncInv

-----------------------------------------------------------------------------
(* The server *)

\* What is not told to the subscriber leaves the fan-out as it is.
LEMMA FanOutStays ==
    ASSUME SyncInv, UNCHANGED <<db, resolving, wire, query, tainted>>
    PROVE  /\ VersionsUsed' /\ FanOutTypes' /\ FanOutFollows'
           /\ \A d \in Entity : Settled(d)' <=> Settled(d)
           /\ \A d \in Entity : Now(d)' = Now(d)
BY DEF SyncInv, VersionsUsed, FanOutTypes, FanOutFollows, Agrees, Settled, Now, db

\* A handler goes on, and what it found in the database is what there is.
LEMMA HandlerMoves ==
    ASSUME SoundConstants, SyncInv, NEW s \in Slot, NEW h \in Handling, HandlerExact(h),
           handler' = [handler EXCEPT ![s] = h], snap' \in [Query -> Snapshots],
           s = cur => h.q = query /\ h.pc # "idle",
           s = cur /\ h.pc # "sent" => \/ h.pts = PointsIn(query)
                                       \/ h.pts = handler[s].pts /\ handler[s].pc # "sent",
           UNCHANGED <<db, counts, resolving, wire, query, asking, points, news, tainted, strayed>>
    PROVE  SyncInv'
<1>1. handler \in [Slot -> Handling] /\ cur \in Slot \cup {NoSlot} /\ query \in Query
    BY DEF SyncInv, TypeOK, Handling
<1>2. /\ handler' \in [Slot -> Handling] /\ handler'[s] = h
      /\ \A t \in Slot \ {s} : handler'[t] = handler[t]
    BY <1>1
<1>3. TypeOK'
    BY <1>1, <1>2 DEF SyncInv, TypeOK, Handling, db, counts, asking, points
<1>4. AnswersExact'
    BY <1>2 DEF SyncInv, AnswersExact, HandlerExact, BaselineIsExactUnlessDrifted, asking, points
<1>5. NewsTypes' /\ NewsShown' /\ Waits'
    BY DEF SyncInv, NewsTypes, NewsShown, Heard, Waits, asking, points
<1>6. MapFollows'
    BY FanOutStays DEF SyncInv, MapFollows, points
<1>7. AnswerFollows'
    <2>1. TypeOK /\ AnswerFollows
        BY DEF SyncInv
    <2>2. \A e \in Entity : Slice(PointsIn(query), e) = Now(e)
        BY <1>1, <2>1, PointsNow
    <2> SUFFICES ASSUME cur \in Slot, lastKey = query, NEW e \in Entity, Settled(e)
                 PROVE  /\ news[e] # NoNews => Heard(e) = Now(e)
                        /\ news[e] = NoNews /\ handler'[cur].pc # "sent" =>
                              Slice(handler'[cur].pts, e) = Now(e)
        BY <1>1, FanOutStays DEF AnswerFollows, Heard, asking
    <2>3. cur # NoSlot
        BY DEF SoundConstants
    <2> QED BY <1>2, <2>1, <2>2, <2>3 DEF AnswerFollows
<1> QED BY <1>3, <1>4, <1>5, <1>6, <1>7, FanOutStays DEF SyncInv

\* The answer is computed.
LEMMA ComputeKeeps ==
    ASSUME SoundConstants, SyncInv, NEW s \in Slot, Compute(s)
    PROVE  SyncInv'
<1> DEFINE h == [handler[s] EXCEPT !.pc = "read", !.pts = PointsIn(handler[s].q)]
<1>1. /\ TypeOK /\ handler[s] \in Handling /\ HandlerExact(handler[s])
      /\ handler[s].pc = "sent" /\ (cur = s => handler[s].q = query)
      /\ handler \in [Slot -> Handling] /\ snap \in [Query -> Snapshots]
    BY DEF SyncInv, TypeOK, Handling, AnswersExact, Compute, SoundConstants
<1>2. PointsIn(handler[s].q) \in SUBSET Point /\ OnePoint(PointsIn(handler[s].q))
    BY <1>1, PointsNow DEF Handling
<1>3. h \in Handling /\ h.pc = "read" /\ h.pts = PointsIn(handler[s].q)
      /\ h.q = handler[s].q /\ h.before = handler[s].before
    BY <1>1, <1>2 DEF Handling
<1>4. HandlerExact(h)
    BY <1>1, <1>2, <1>3 DEF HandlerExact
<1>5. handler' = [handler EXCEPT ![s] = h] /\ snap' = snap
    BY <1>1 DEF Compute
<1>6. UNCHANGED <<db, counts, resolving, wire, query, asking, points, news, tainted, strayed>>
    BY DEF Compute
<1> HIDE DEF h
<1> QED BY <1>1, <1>3, <1>4, <1>5, <1>6, HandlerMoves

\* Its snapshot is stored.
LEMMA StoreKeeps ==
    ASSUME SoundConstants, SyncInv, NEW s \in Slot, StoreSnapshot(s)
    PROVE  SyncInv'
<1> DEFINE h == IF s = cur THEN [handler[s] EXCEPT !.pc = "stored"] ELSE Quiet
<1>1. /\ handler[s] \in Handling /\ HandlerExact(handler[s])
      /\ handler[s].pc = "read" /\ (cur = s => handler[s].q = query)
      /\ handler \in [Slot -> Handling] /\ snap \in [Query -> Snapshots]
    BY DEF SyncInv, TypeOK, Handling, AnswersExact, StoreSnapshot, SoundConstants
<1>2. /\ h \in Handling /\ HandlerExact(h)
      /\ s = cur => h.pc = "stored" /\ h.pts = handler[s].pts /\ h.q = handler[s].q
    BY <1>1, QuietHandler DEF Handling, HandlerExact
<1>3. handler' = [handler EXCEPT ![s] = h]
    BY <1>1 DEF StoreSnapshot
<1>4. <<handler[s].pts>> \in Snapshots
    BY <1>1 DEF Handling, Snapshots
<1>5. snap' \in [Query -> Snapshots]
    BY <1>1, <1>4 DEF StoreSnapshot
<1>6. UNCHANGED <<db, counts, resolving, wire, query, asking, points, news, tainted, strayed>>
    BY DEF StoreSnapshot
<1> HIDE DEF h
<1> QED BY <1>1, <1>2, <1>3, <1>5, <1>6, HandlerMoves

\* The answer is sent, as a difference where there is a snapshot to compare with.
LEMMA RespondKeeps ==
    ASSUME SoundConstants, SyncInv, NEW s \in Slot, Respond(s)
    PROVE  SyncInv'
<1> DEFINE found == IF handler[s].prev = NoQuery THEN <<>> ELSE snap[handler[s].prev]
           whole == [handler[s] EXCEPT !.pc = "answered"]
           part == [handler[s] EXCEPT !.pc = "answered", !.before = found,
                      !.add = handler[s].pts \ found[1], !.drop = Keys(found[1] \ handler[s].pts)]
<1>1. /\ handler[s] \in Handling /\ HandlerExact(handler[s])
      /\ handler[s].pc = "stored" /\ (cur = s => handler[s].q = query)
      /\ handler \in [Slot -> Handling] /\ snap \in [Query -> Snapshots]
    BY DEF SyncInv, TypeOK, Handling, AnswersExact, Respond, SoundConstants
<1>2. found \in Snapshots /\ (found # <<>> => found[1] \in SUBSET Point)
    BY <1>1 DEF Handling, Snapshots
<1>3. \/ handler' = [handler EXCEPT ![s] = whole]
      \/ found # <<>> /\ handler' = [handler EXCEPT ![s] = part]
    BY <1>1 DEF Respond
<1>4. UNCHANGED <<db, counts, snap, resolving, wire, query, asking, points, news, tainted, strayed>>
    BY DEF Respond
<1>5. CASE handler' = [handler EXCEPT ![s] = whole]
    <2>1. /\ whole \in Handling /\ whole.pc = "answered" /\ whole.q = handler[s].q
          /\ whole.pts = handler[s].pts /\ HandlerExact(whole)
        BY <1>1 DEF Handling, HandlerExact
    <2> HIDE DEF whole
    <2> QED BY <1>1, <1>4, <1>5, <2>1, HandlerMoves
<1>6. CASE found # <<>> /\ handler' = [handler EXCEPT ![s] = part]
    <2> DEFINE add == handler[s].pts \ found[1]
               drop == Keys(found[1] \ handler[s].pts)
    <2>1. add \in SUBSET Point /\ drop \in SUBSET Entity
        BY <1>1, <1>2, <1>6 DEF Handling, Keys, Point
    <2> HIDE DEF found
    <2>2. /\ part.pc = "answered" /\ part.q = handler[s].q /\ part.pts = handler[s].pts
          /\ part.before = found /\ part.add = add /\ part.drop = drop
        BY <1>1 DEF Handling
    <2>3. part \in Handling
        BY <1>1, <1>2, <2>1 DEF Handling
    <2>4. HandlerExact(part)
        BY <1>1, <2>2 DEF HandlerExact
    <2> HIDE DEF part
    <2> QED BY <1>1, <1>4, <1>6, <2>2, <2>3, <2>4, HandlerMoves
<1> QED BY <1>3, <1>5, <1>6

\* A snapshot is forgotten.
LEMMA SnapshotKeeps ==
    ASSUME SoundConstants, SyncInv, NEW q \in Query, SnapshotExpires(q)
    PROVE  SyncInv'
<1>1. /\ losses' = losses + 1 /\ losses < MaxLosses /\ snap' = [snap EXCEPT ![q] = <<>>]
      /\ UNCHANGED <<db, gestures, handler, resolving, wire, query, asking, points, news,
                     tainted, strayed>>
    BY DEF SnapshotExpires
<1>2. losses' \in 0..MaxLosses
    BY <1>1 DEF SyncInv, TypeOK, SoundConstants
<1>3. snap' \in [Query -> Snapshots]
    BY <1>1 DEF SyncInv, TypeOK, Snapshots
<1>4. TypeOK'
    BY <1>1, <1>2, <1>3 DEF SyncInv, TypeOK, db, asking, points
<1>5. /\ AnswersExact' /\ NewsTypes' /\ NewsShown' /\ Waits'
    BY <1>1 DEF SyncInv, AnswersExact, HandlerExact, BaselineIsExactUnlessDrifted, NewsTypes,
        NewsShown, Heard, Waits, asking, points
<1>6. MapFollows' /\ AnswerFollows'
    BY <1>1, FanOutStays DEF SyncInv, MapFollows, AnswerFollows, Heard, asking, points
<1> QED BY <1>1, <1>4, <1>5, <1>6, FanOutStays DEF SyncInv

-----------------------------------------------------------------------------
(* The client asks *)

\* The request of another query is dropped.
LEMMA DropFacts ==
    ASSUME SoundConstants, SyncInv, DropInFlight
    PROVE  /\ cur' = NoSlot /\ handler' \in [Slot -> Handling]
           /\ \A s \in Slot : HandlerExact(handler'[s])
           /\ IF cur = NoSlot THEN lastKey' = lastKey ELSE lastKey' = NoQuery
<1>1. handler \in [Slot -> Handling] /\ TypeOK /\ AnswersExact
    BY DEF SyncInv, TypeOK, Handling
<1>2. CASE cur = NoSlot
    BY <1>1, <1>2 DEF DropInFlight, AnswersExact
<1>3. CASE cur # NoSlot
    BY <1>1, <1>3, AbortFacts DEF DropInFlight
<1> QED BY <1>2, <1>3

\* The user goes elsewhere: whatever is under way is told of late.
LEMMA PanKeeps ==
    ASSUME SoundConstants, SyncInv, NEW q \in Query, Pan(q)
    PROVE  SyncInv'
<1>1. /\ gestures' = gestures + 1 /\ gestures < MaxGestures /\ query' = q /\ DropInFlight
      /\ wants' = TRUE /\ retry' = FALSE /\ strayed' = TRUE
      /\ tainted' = tainted \cup {r.e : r \in resolving} \cup {wire[i].e : i \in DOMAIN wire}
      /\ UNCHANGED <<db, losses, snap, resolving, wire, filter, loading, points, news>>
    BY DEF Pan
<1>2. /\ cur' = NoSlot /\ handler' \in [Slot -> Handling]
      /\ \A s \in Slot : HandlerExact(handler'[s])
      /\ lastKey' \in Query \cup {NoQuery}
    BY <1>1, DropFacts DEF SyncInv, TypeOK
<1>3. gestures' \in 0..MaxGestures
    BY <1>1 DEF SyncInv, TypeOK, SoundConstants
<1>4. /\ wire \in Seq(Message) /\ DOMAIN wire = 1..Len(wire) /\ resolving \subseteq Resolution
      /\ \A i \in 1..Len(wire) : wire[i] \in Message
    BY DEF SyncInv, FanOutTypes
<1>5. tainted' \subseteq Entity
    BY <1>1, <1>4 DEF SyncInv, TypeOK, Resolution, Message
<1>6. TypeOK'
    BY <1>1, <1>2, <1>3, <1>5 DEF SyncInv, TypeOK, Handling, db, points
<1>7. VersionsUsed' /\ FanOutTypes' /\ NewsTypes' /\ NewsShown'
    BY <1>1 DEF SyncInv, VersionsUsed, FanOutTypes, NewsTypes, NewsShown, Heard, db, points
<1>8. FanOutFollows'
    BY <1>1, <1>4 DEF SyncInv, FanOutFollows, db
<1>9. AnswersExact'
    BY <1>1, <1>2 DEF SyncInv, AnswersExact, BaselineIsExactUnlessDrifted, points
<1> QED BY <1>1, <1>2, <1>6, <1>7, <1>8, <1>9
        DEF SyncInv, MapFollows, AnswerFollows, Waits

\* The budget's timer.
LEMMA TickKeeps ==
    ASSUME SoundConstants, SyncInv, BudgetTick
    PROVE  SyncInv'
<1>1. /\ retry' = FALSE /\ wants' = TRUE /\ DropInFlight
      /\ UNCHANGED <<db, counts, snap, resolving, wire, query, filter, loading, points, news,
                     tainted, strayed>>
    BY DEF BudgetTick
<1>2. /\ cur' = NoSlot /\ handler' \in [Slot -> Handling]
      /\ \A s \in Slot : HandlerExact(handler'[s])
      /\ IF cur = NoSlot THEN lastKey' = lastKey ELSE lastKey' = NoQuery
    BY <1>1, DropFacts
<1>3. TypeOK'
    BY <1>1, <1>2 DEF SyncInv, TypeOK, Handling, db, counts, points
<1>4. NewsTypes' /\ NewsShown' /\ AnswersExact'
    BY <1>1, <1>2 DEF SyncInv, NewsTypes, NewsShown, Heard, AnswersExact,
        BaselineIsExactUnlessDrifted, points
<1>5. MapFollows' /\ AnswerFollows'
    BY <1>1, <1>2, FanOutStays DEF SyncInv, MapFollows, AnswerFollows, points
<1>6. NoQuery # query
    BY DEF SyncInv, TypeOK, SoundConstants
<1>7. Waits'
    BY <1>1, <1>2, <1>6 DEF SyncInv, Waits
<1> QED BY <1>1, <1>3, <1>4, <1>5, <1>7, FanOutStays DEF SyncInv

\* A request begins, with nothing heard yet.
LEMMA StartFacts ==
    ASSUME SoundConstants, SyncInv, NEW s \in Slot, NEW prev \in Query \cup {NoQuery},
           Start(s, prev)
    PROVE  /\ handler' \in [Slot -> Handling] /\ \A t \in Slot : HandlerExact(handler'[t])
           /\ handler'[s].pc = "sent" /\ handler'[s].q = query
           /\ cur' = s /\ lastKey' = query /\ filter' \in BOOLEAN /\ loading' = TRUE
           /\ news' = [e \in Entity |-> NoNews] /\ strayed' = strayed
<1>1. PICK h \in AfterAbort :
          handler' = [h EXCEPT ![s] = [Quiet EXCEPT !.pc = "sent", !.q = query, !.prev = prev]]
    BY DEF Start
<1>2. h \in [Slot -> Handling] /\ \A t \in Slot : HandlerExact(h[t])
    BY AbortFacts DEF SyncInv
<1> DEFINE asked == [Quiet EXCEPT !.pc = "sent", !.q = query, !.prev = prev]
<1>3. /\ asked \in Handling /\ asked.pc = "sent" /\ asked.q = query
      /\ asked.pts = {} /\ asked.before = <<>>
    <2>1. query \in Query
        BY DEF SyncInv, TypeOK
    <2>2. <<>> \in Snapshots
        BY DEF Snapshots
    <2> QED BY <2>1, <2>2 DEF Quiet, Handling
<1>4. HandlerExact(asked)
    BY <1>3 DEF HandlerExact, OnePoint
<1>5. handler' = [h EXCEPT ![s] = asked]
    BY <1>1
<1> HIDE DEF asked
<1>6. filter' \in BOOLEAN /\ cur' = s /\ lastKey' = query /\ loading' = TRUE
      /\ news' = [e \in Entity |-> NoNews] /\ strayed' = strayed
    BY DEF Start
<1> QED BY <1>2, <1>3, <1>4, <1>5, <1>6

LEMMA StartKeeps ==
    ASSUME SoundConstants, SyncInv, NEW s \in Slot, NEW prev \in Query \cup {NoQuery},
           Start(s, prev), wants' \in BOOLEAN, retry' \in BOOLEAN,
           gestures' \in 0..MaxGestures,
           UNCHANGED <<baseline, cached, drifted>> \/ (Forget /\ drifted' = FALSE),
           UNCHANGED <<shown, truth, db, losses, snap, resolving, wire, query, tainted>>
    PROVE  SyncInv'
<1>1. /\ handler' \in [Slot -> Handling] /\ \A t \in Slot : HandlerExact(handler'[t])
      /\ handler'[s].pc = "sent" /\ handler'[s].q = query
      /\ cur' = s /\ lastKey' = query /\ filter' \in BOOLEAN /\ loading' = TRUE
      /\ news' = [e \in Entity |-> NoNews] /\ strayed' = strayed
    BY StartFacts
<1>2. /\ \/ UNCHANGED <<baseline, cached, drifted>>
         \/ baseline' = NoQuery /\ cached' = {} /\ drifted' = FALSE
      /\ s # NoSlot /\ query # NoQuery /\ query \in Query
    BY DEF Forget, SyncInv, TypeOK, SoundConstants
<1>3. TypeOK'
    BY <1>1, <1>2 DEF SyncInv, TypeOK, Handling, db
<1>4. NewsTypes' /\ NewsShown'
    BY <1>1 DEF NewsTypes, NewsShown, NoNews
<1>5. AnswersExact'
    BY <1>1, <1>2 DEF SyncInv, AnswersExact, BaselineIsExactUnlessDrifted, OnePoint
<1>6. MapFollows'
    BY <1>1, <1>2, FanOutStays DEF SyncInv, MapFollows
<1>7. AnswerFollows'
    BY <1>1 DEF AnswerFollows
<1>8. Waits'
    BY <1>1, <1>2 DEF Waits
<1> QED BY <1>3, <1>4, <1>5, <1>6, <1>7, <1>8, FanOutStays DEF SyncInv

\* A query that is not asked empties the map.
LEMMA TooLargeKeeps ==
    ASSUME SoundConstants, SyncInv, TooLargeClears, wants' \in BOOLEAN,
           gestures' \in 0..MaxGestures,
           UNCHANGED <<db, losses, snap, resolving, wire, query, tainted>>
    PROVE  SyncInv'
<1>1. /\ cur' = NoSlot /\ lastKey' = NoQuery /\ handler' \in AfterAbort
      /\ baseline' = NoQuery /\ cached' = {} /\ shown' = {} /\ truth' = {} /\ drifted' = FALSE
      /\ news' = [e \in Entity |-> NoNews] /\ loading' = FALSE /\ strayed' = FALSE
      /\ UNCHANGED <<retry, filter>>
    BY DEF TooLargeClears, Forget
<1>2. handler' \in [Slot -> Handling] /\ \A t \in Slot : HandlerExact(handler'[t])
    BY <1>1, AbortFacts DEF SyncInv
<1>3. TypeOK'
    BY <1>1, <1>2 DEF SyncInv, TypeOK, Handling, db
<1>4. NewsTypes' /\ NewsShown'
    BY <1>1 DEF NewsTypes, NewsShown, NoNews
<1>5. AnswersExact'
    BY <1>1, <1>2 DEF AnswersExact, BaselineIsExactUnlessDrifted, OnePoint
<1>6. query # NoQuery
    BY DEF SyncInv, TypeOK, SoundConstants
<1>7. MapFollows' /\ AnswerFollows' /\ Waits'
    BY <1>1, <1>6 DEF MapFollows, AnswerFollows, Waits
<1> QED BY <1>3, <1>4, <1>5, <1>7, FanOutStays DEF SyncInv

\* The debounced fetch.
LEMMA FetchKeeps ==
    ASSUME SoundConstants, SyncInv, Fetch
    PROVE  SyncInv'
<1>1. /\ wants' = FALSE
      /\ TooLargeClears \/ SameAgain \/ OverBudget \/ \E s \in Slot : Ask(s)
      /\ UNCHANGED <<db, counts, snap, resolving, wire, query, tainted>>
    BY DEF Fetch
<1>2. UNCHANGED <<gestures, losses>> /\ gestures' \in 0..MaxGestures
    BY <1>1 DEF SyncInv, TypeOK, counts
<1>3. CASE TooLargeClears
    BY <1>1, <1>2, <1>3, TooLargeKeeps
<1>4. CASE SameAgain \/ OverBudget
    <2>1. /\ UNCHANGED <<handler, cur, lastKey, filter, points, news, strayed>>
          /\ \/ query = lastKey /\ UNCHANGED <<retry, loading>>
             \/ query # lastKey /\ retry' = TRUE /\ loading' = TRUE
        BY <1>4 DEF SameAgain, OverBudget
    <2>2. TypeOK'
        BY <1>1, <1>2, <2>1 DEF SyncInv, TypeOK, db, points
    <2>3. NewsTypes' /\ NewsShown' /\ AnswersExact'
        BY <2>1 DEF SyncInv, NewsTypes, NewsShown, Heard, AnswersExact, HandlerExact,
            BaselineIsExactUnlessDrifted, points
    <2>4. MapFollows' /\ AnswerFollows'
        BY <1>1, <2>1, FanOutStays DEF SyncInv, MapFollows, AnswerFollows, Heard, points
    <2>5. Waits'
        BY <1>1, <2>1 DEF SyncInv, Waits
    <2> QED BY <1>1, <2>2, <2>3, <2>4, <2>5, FanOutStays DEF SyncInv
<1>5. ASSUME NEW s \in Slot, Ask(s)
      PROVE  SyncInv'
    <2>1. baseline \in Query \cup {NoQuery} /\ retry' \in BOOLEAN
        BY <1>5 DEF Ask, SyncInv, TypeOK
    <2> QED BY <1>1, <1>2, <1>5, <2>1, StartKeeps DEF Ask
<1> QED BY <1>1, <1>3, <1>4, <1>5

\* refresh
LEMMA RefreshKeeps ==
    ASSUME SoundConstants, SyncInv, Refresh
    PROVE  SyncInv'
<1>1. /\ gestures' = gestures + 1 /\ gestures < MaxGestures
      /\ Forget /\ drifted' = FALSE
      /\ UNCHANGED <<db, losses, snap, resolving, wire, query, wants, tainted>>
    BY DEF Refresh
<1>2. gestures' \in 0..MaxGestures /\ wants' \in BOOLEAN
    BY <1>1 DEF SyncInv, TypeOK, SoundConstants
<1>3. CASE TooLargeClears
    BY <1>1, <1>2, <1>3, TooLargeKeeps
<1>4. CASE retry' = FALSE /\ (\E s \in Slot : Start(s, NoQuery)) /\ UNCHANGED <<shown, truth>>
    BY <1>1, <1>2, <1>4, StartKeeps
<1>5. CASE /\ retry' = TRUE /\ loading' = TRUE /\ lastKey' = NoQuery
           /\ news' = [e \in Entity |-> NoNews] /\ strayed' = TRUE
           /\ UNCHANGED <<handler, cur, filter, shown, truth>>
    <2>1. /\ baseline' = NoQuery /\ cached' = {} /\ query # NoQuery
        BY <1>1 DEF Forget, SyncInv, TypeOK, SoundConstants
    <2>2. TypeOK'
        BY <1>1, <1>2, <1>5, <2>1 DEF SyncInv, TypeOK, db
    <2>3. NewsTypes' /\ NewsShown'
        BY <1>5 DEF NewsTypes, NewsShown, NoNews
    <2>4. AnswersExact'
        BY <1>5, <2>1 DEF SyncInv, AnswersExact, HandlerExact, BaselineIsExactUnlessDrifted,
            OnePoint
    <2>5. MapFollows' /\ AnswerFollows' /\ Waits'
        BY <1>1, <1>5, <2>1 DEF MapFollows, AnswerFollows, Waits
    <2> QED BY <1>1, <2>2, <2>3, <2>4, <2>5, FanOutStays DEF SyncInv
<1> QED BY <1>3, <1>4, <1>5 DEF Refresh

-----------------------------------------------------------------------------
(* The client takes answers and events *)

\* A difference to what the client has gives the points the server has.
LEMMA ApplyFacts ==
    ASSUME NEW pts \in SUBSET Point, OnePoint(pts), NEW h \in Handling, HandlerExact(h)
    PROVE  /\ Apply(pts, h) \in SUBSET Point /\ OnePoint(Apply(pts, h))
           /\ h.before = <<>> \/ h.before = <<pts>> => Apply(pts, h) = h.pts
<1>1. h.pts \in SUBSET Point /\ h.add \in SUBSET Point /\ OnePoint(h.pts)
    BY DEF Handling, HandlerExact
<1>2. CASE h.before = <<>>
    BY <1>1, <1>2 DEF Apply
<1>3. CASE h.before # <<>>
    <2> DEFINE kept == {p \in pts : p[1] \notin h.drop \cup Keys(h.add)}
    <2>1. Apply(pts, h) = kept \cup h.add
        BY <1>3 DEF Apply
    <2>2. h.add = h.pts \ h.before[1] /\ h.drop = Keys(h.before[1] \ h.pts)
        BY <1>3 DEF HandlerExact
    <2>3. \A p \in kept : \A x \in h.add : p[1] # x[1]
        BY DEF Keys
    <2>4. OnePoint(kept \cup h.add)
        BY <1>1, <2>2, <2>3 DEF OnePoint
    <2>5. ASSUME h.before = <<pts>> PROVE kept \cup h.add = h.pts
        <3>1. h.add = h.pts \ pts /\ h.drop = Keys(pts \ h.pts)
            BY <2>2, <2>5
        <3>2. ASSUME NEW p \in kept PROVE p \in h.pts
            BY <3>1 DEF Keys
        <3>3. ASSUME NEW p \in h.pts, p \in pts PROVE p \in kept
            <4>1. p[1] \notin Keys(pts \ h.pts)
                BY <3>3 DEF OnePoint, Keys
            <4>2. p[1] \notin Keys(h.pts \ pts)
                BY <1>1, <3>3 DEF OnePoint, Keys
            <4> QED BY <3>1, <3>3, <4>1, <4>2
        <3> QED BY <3>1, <3>2, <3>3
    <2> QED BY <1>1, <1>3, <2>1, <2>4, <2>5
<1> QED BY <1>2, <1>3

\* What is shown is what was heard, and the answer for the rest.
LEMMA ReplayFacts ==
    ASSUME NewsTypes, NEW pts \in SUBSET Point, OnePoint(pts)
    PROVE  /\ Replay(pts) \in SUBSET Point /\ OnePoint(Replay(pts))
           /\ \A e \in Entity : Slice(Replay(pts), e) =
                 IF news[e] = NoNews THEN Slice(pts, e) ELSE Heard(e)
<1> DEFINE told == {news[e] : e \in {d \in Entity : Len(news[d]) = 2}}
           rest == {p \in pts : news[p[1]] = NoNews}
<1>1. Replay(pts) = rest \cup told
    BY DEF Replay
<1>2. \A e \in Entity : Len(news[e]) = 2 =>
          news[e] \in Point /\ news[e][1] = e /\ news[e] # NoNews
    <2> SUFFICES ASSUME NEW e \in Entity, Len(news[e]) = 2
                 PROVE  news[e] \in Point /\ news[e][1] = e /\ news[e] # NoNews
        OBVIOUS
    <2>1. \/ news[e] = <<>> \/ news[e] = <<e>> \/ \E v \in Version : news[e] = <<e, v>>
        BY DEF NewsTypes
    <2>2. PICK v \in Version : news[e] = <<e, v>>
        BY <2>1, NewsLengths
    <2> QED BY <2>2, NewsLengths DEF Point, NoNews
<1>3. \A p \in told : p \in Point /\ p[1] \in Entity /\ p = news[p[1]] /\ news[p[1]] # NoNews
                      /\ Len(news[p[1]]) = 2
    BY <1>2
<1>4. OnePoint(rest \cup told)
    BY <1>3 DEF OnePoint
<1>5. ASSUME NEW e \in Entity
      PROVE  Slice(rest \cup told, e) = IF news[e] = NoNews THEN Slice(pts, e) ELSE Heard(e)
    <2>1. CASE news[e] = NoNews
        BY <1>3, <2>1 DEF Slice
    <2>2. CASE news[e] # NoNews
        <3>1. Slice(rest, e) = {}
            BY <2>2 DEF Slice
        <3>2. Slice(told, e) = Heard(e)
            BY <1>2, <1>3 DEF Slice, Heard
        <3>3. Slice(rest \cup told, e) = Slice(rest, e) \cup Slice(told, e)
            BY DEF Slice
        <3> QED BY <2>2, <3>1, <3>2, <3>3
    <2> QED BY <2>1, <2>2
<1>6. rest \cup told \in SUBSET Point
    BY <1>3
<1> HIDE DEF rest, told
<1> QED BY <1>1, <1>4, <1>5, <1>6

\* The answer that is waited for is taken.
LEMMA CommitKeeps ==
    ASSUME SoundConstants, SyncInv, Commit
    PROVE  SyncInv'
<1> DEFINE h == handler[cur]
           pts == Apply(cached, h)
<1>1. /\ cur # NoSlot /\ h.pc = "answered"
      /\ baseline' = h.q /\ cached' = pts /\ shown' = Replay(pts) /\ truth' = h.pts
      /\ drifted' = (h.before # <<>> /\ (drifted \/ h.before # <<cached>>))
      /\ news' = [e \in Entity |-> NoNews] /\ loading' = FALSE /\ cur' = NoSlot
      /\ strayed' = (strayed /\ lastKey # query)
      /\ handler' = [handler EXCEPT ![cur] = Quiet]
      /\ UNCHANGED <<db, counts, snap, resolving, wire, query, wants, retry, lastKey, filter,
                     tainted>>
    BY DEF Commit, Baseline, NotLoading
<1>2. /\ cur \in Slot /\ handler \in [Slot -> Handling] /\ h \in Handling /\ HandlerExact(h)
      /\ cached \in SUBSET Point /\ OnePoint(cached) /\ h.q = query /\ query \in Query
      /\ \A s \in Slot : HandlerExact(handler[s])
    BY <1>1 DEF SyncInv, TypeOK, Handling, AnswersExact
<1>3. /\ pts \in SUBSET Point /\ OnePoint(pts)
      /\ h.before = <<>> \/ h.before = <<cached>> => pts = h.pts
    BY <1>2, ApplyFacts
<1>4. h.pts \in SUBSET Point
    BY <1>2 DEF Handling
<1> HIDE DEF h, pts
<1>5. /\ shown' \in SUBSET Point /\ OnePoint(shown')
      /\ \A e \in Entity : Slice(shown', e) =
            IF news[e] = NoNews THEN Slice(pts, e) ELSE Heard(e)
    BY <1>1, <1>3, ReplayFacts DEF SyncInv
<1>6. /\ handler' \in [Slot -> Handling] /\ \A s \in Slot : HandlerExact(handler'[s])
    BY <1>1, <1>2, QuietHandler
<1>7. ~drifted' => pts = h.pts
    BY <1>1, <1>3
<1>8. drifted' \in BOOLEAN /\ strayed' \in BOOLEAN
    BY <1>1
<1>9. TypeOK'
    BY <1>1, <1>2, <1>3, <1>4, <1>5, <1>6, <1>8 DEF SyncInv, TypeOK, Handling, OnePoint, db, counts
<1>10. NewsTypes' /\ NewsShown'
    BY <1>1 DEF NewsTypes, NewsShown, NoNews
<1>11. AnswersExact'
    BY <1>1, <1>3, <1>6, <1>7 DEF AnswersExact, BaselineIsExactUnlessDrifted
<1>12. AnswerFollows' /\ Waits'
    BY <1>1 DEF AnswerFollows, Waits
<1>13. MapFollows'
    <2> SUFFICES ASSUME ~drifted', ~strayed', NEW e \in Entity, Settled(e)
                 PROVE  Slice(shown', e) = Now(e)
        BY <1>1, FanOutStays DEF MapFollows
    <2>1. lastKey = query
        BY <1>1 DEF SyncInv, Waits
    <2>2. /\ news[e] # NoNews => Heard(e) = Now(e)
          /\ news[e] = NoNews => Slice(h.pts, e) = Now(e)
        BY <1>1, <2>1 DEF SyncInv, AnswerFollows, h
    <2> QED BY <1>5, <1>7, <2>2
<1> QED BY <1>1, <1>9, <1>10, <1>11, <1>12, <1>13, FanOutStays DEF SyncInv

\* A request fails: nothing is asked again, and nothing is loading.
LEMMA FailKeeps ==
    ASSUME SoundConstants, SyncInv, RequestFails
    PROVE  SyncInv'
<1>1. /\ losses' = losses + 1 /\ losses < MaxLosses
      /\ cur' = NoSlot /\ loading' = FALSE /\ handler' \in AfterAbort
      /\ UNCHANGED <<db, gestures, snap, resolving, wire, query, wants, retry, lastKey, filter,
                     points, news, tainted, strayed>>
    BY DEF RequestFails, NotLoading
<1>2. handler' \in [Slot -> Handling] /\ \A t \in Slot : HandlerExact(handler'[t])
    BY <1>1, AbortFacts DEF SyncInv
<1>3. losses' \in 0..MaxLosses
    BY <1>1 DEF SyncInv, TypeOK, SoundConstants
<1>4. TypeOK'
    BY <1>1, <1>2, <1>3 DEF SyncInv, TypeOK, Handling, db, points
<1>5. NewsTypes' /\ NewsShown' /\ AnswersExact'
    BY <1>1, <1>2 DEF SyncInv, NewsTypes, NewsShown, Heard, AnswersExact,
        BaselineIsExactUnlessDrifted, points
<1>6. MapFollows' /\ AnswerFollows' /\ Waits'
    BY <1>1, FanOutStays DEF SyncInv, MapFollows, AnswerFollows, Waits, points
<1> QED BY <1>1, <1>4, <1>5, <1>6, FanOutStays DEF SyncInv

\* The first event on the wire is heard.
LEMMA HearKeeps ==
    ASSUME SoundConstants, SyncInv, Hear
    PROVE  SyncInv'
<1> DEFINE m == Head(wire)
           p == <<m.e, m.v>>
           new == IF m.at = query THEN {p} ELSE {}
<1>1. /\ wire # <<>> /\ wire' = Tail(wire)
      /\ shown' = {x \in shown : x[1] # m.e} \cup new
      /\ news' = [news EXCEPT ![m.e] = IF m.at = query THEN p ELSE <<m.e>>]
      /\ UNCHANGED <<db, counts, server, query, asking, baseline, cached, truth, drifted, tainted,
                     strayed>>
    BY DEF Hear
<1>2. wire \in Seq(Message)
    BY DEF SyncInv, FanOutTypes
<1>3. /\ wire' \in Seq(Message) /\ Len(wire') = Len(wire) - 1 /\ Len(wire) \in Nat \ {0}
      /\ \A i \in 1..Len(wire) - 1 : wire'[i] = wire[i + 1]
      /\ m = wire[1] /\ m \in Message
    BY <1>1, <1>2, TailFacts
<1>4. m.e \in Entity /\ m.v \in Version /\ p \in Point /\ p[1] = m.e
    BY <1>3 DEF Message, Point
<1>5. FanOutTypes' /\ VersionsUsed'
    BY <1>1, <1>3 DEF SyncInv, FanOutTypes, VersionsUsed, server, db
<1>6. FanOutFollows'
    <2> SUFFICES ASSUME NEW i \in 1..Len(wire'), NEW n, n = wire'[i], n.e \notin tainted,
                        \A q \in resolving : q.e # n.e,
                        \A j \in 1..Len(wire') : j > i => wire'[j].e # n.e
                 PROVE  Agrees(n)
        BY <1>1 DEF SyncInv, FanOutFollows, Agrees, server, db
    <2>1. i + 1 \in 1..Len(wire) /\ n = wire[i + 1]
        BY <1>3
    <2>2. ASSUME NEW j \in 1..Len(wire), j > i + 1 PROVE wire[j].e # n.e
        <3>1. j - 1 \in 1..Len(wire') /\ j - 1 > i /\ wire'[j - 1] = wire[(j - 1) + 1]
            BY <1>3, <2>2
        <3>2. (j - 1) + 1 = j
            BY <1>3
        <3> QED BY <3>1, <3>2
    <2> QED BY <2>1, <2>2 DEF SyncInv, FanOutFollows
<1>7. \A d \in Entity : Now(d)' = Now(d)
    BY <1>1 DEF Now, db
<1>8. ASSUME NEW d \in Entity, Settled(d)'
      PROVE  Settled(d) \/ (d = m.e /\ new = Now(d))
    <2>1. /\ d \notin tainted /\ \A r \in resolving : r.e # d
          /\ \A i \in 1..Len(wire') : wire'[i].e # d
        BY <1>1, <1>8 DEF Settled, server
    <2>2. \A j \in 1..Len(wire) : j > 1 => wire[j].e # d
        <3> SUFFICES ASSUME NEW j \in 1..Len(wire), j > 1 PROVE wire[j].e # d
            OBVIOUS
        <3>1. j - 1 \in 1..Len(wire') /\ wire'[j - 1] = wire[(j - 1) + 1] /\ (j - 1) + 1 = j
            BY <1>3
        <3> QED BY <2>1, <3>1
    <2>3. CASE d # m.e
        <3>1. \A j \in 1..Len(wire) : wire[j].e # d
            BY <1>3, <2>2, <2>3
        <3> QED BY <2>1, <3>1 DEF Settled
    <2>4. CASE d = m.e
        <3>1. 1 \in 1..Len(wire)
            BY <1>3
        <3>2. Agrees(m)
            BY <1>3, <2>1, <2>2, <2>4, <3>1 DEF SyncInv, FanOutFollows
        <3> QED BY <2>4, <3>2 DEF Agrees, Now
    <2> QED BY <2>3, <2>4
<1>9. /\ DOMAIN news = Entity
      /\ \A e \in Entity : \/ news[e] = <<>> \/ news[e] = <<e>>
                           \/ \E v \in Version : news[e] = <<e, v>>
    BY DEF SyncInv, NewsTypes
<1>10. /\ news' = [e \in Entity |-> news'[e]]
       /\ news'[m.e] = IF m.at = query THEN p ELSE <<m.e>>
       /\ \A e \in Entity \ {m.e} : news'[e] = news[e]
    BY <1>1, <1>4, <1>9 DEF SyncInv, NewsTypes
<1>11. NewsTypes'
    BY <1>4, <1>9, <1>10 DEF NewsTypes
<1>12. ASSUME NEW e \in Entity, e = m.e
       PROVE  news'[e] # NoNews /\ Heard(e)' = new
    <2>1. CASE m.at = query
        <3>1. news'[e] = <<m.e, m.v>>
            BY <1>10, <1>12, <2>1
        <3>2. Len(news'[e]) = 2 /\ news'[e] # <<>>
            BY <3>1, NewsLengths
        <3> QED BY <2>1, <3>1, <3>2 DEF Heard, NoNews
    <2>2. CASE m.at # query
        <3>1. news'[e] = <<m.e>>
            BY <1>10, <1>12, <2>2
        <3>2. Len(news'[e]) = 1 /\ news'[e] # <<>>
            BY <3>1, NewsLengths
        <3> QED BY <2>2, <3>2 DEF Heard, NoNews
    <2> QED BY <2>1, <2>2
<1>13. \A e \in Entity \ {m.e} : Heard(e)' = Heard(e)
    BY <1>10 DEF Heard
<1> HIDE DEF m
<1>14. /\ Slice(shown', m.e) = new
       /\ \A e \in Entity \ {m.e} : Slice(shown', e) = Slice(shown, e)
    BY <1>1, <1>4 DEF Slice
<1>15. NewsShown'
    <2> SUFFICES ASSUME NEW e \in Entity, news'[e] # NoNews
                 PROVE  Slice(shown', e) = Heard(e)'
        BY DEF NewsShown
    <2>1. CASE e = m.e
        BY <1>12, <1>14, <2>1
    <2>2. CASE e # m.e
        BY <1>10, <1>13, <1>14, <2>2 DEF SyncInv, NewsShown
    <2> QED BY <2>1, <2>2
<1>16. TypeOK'
    <2>1. shown' \subseteq Point
        BY <1>1, <1>4 DEF SyncInv, TypeOK
    <2>2. \A x, y \in shown' : x[1] = y[1] => x = y
        BY <1>1, <1>4 DEF SyncInv, TypeOK
    <2> QED BY <1>1, <2>1, <2>2 DEF SyncInv, TypeOK, db, counts, server, asking
<1>17. AnswersExact' /\ Waits'
    BY <1>1 DEF SyncInv, AnswersExact, HandlerExact, BaselineIsExactUnlessDrifted, Waits, server,
        asking
<1>18. MapFollows'
    <2> SUFFICES ASSUME baseline = query, ~drifted, ~strayed, NEW e \in Entity, Settled(e)'
                 PROVE  Slice(shown', e) = Now(e)'
        BY <1>1 DEF MapFollows
    <2>1. Settled(e) \/ (e = m.e /\ new = Now(e))
        BY <1>8
    <2>2. Settled(e) => e # m.e
        BY <1>3 DEF Settled
    <2> QED BY <1>7, <1>14, <2>1, <2>2 DEF SyncInv, MapFollows
<1>19. AnswerFollows'
    <2> SUFFICES ASSUME cur # NoSlot, lastKey = query, NEW e \in Entity, Settled(e)'
                 PROVE  /\ news'[e] # NoNews => Heard(e)' = Now(e)'
                        /\ news'[e] = NoNews /\ handler[cur].pc # "sent" =>
                              Slice(handler[cur].pts, e) = Now(e)'
        BY <1>1 DEF AnswerFollows, asking, server
    <2>1. Settled(e) \/ (e = m.e /\ new = Now(e))
        BY <1>8
    <2>2. Settled(e) => e # m.e
        BY <1>3 DEF Settled
    <2> QED BY <1>7, <1>10, <1>12, <1>13, <2>1, <2>2 DEF SyncInv, AnswerFollows
<1> QED BY <1>5, <1>6, <1>11, <1>15, <1>16, <1>17, <1>18, <1>19 DEF SyncInv

-----------------------------------------------------------------------------
(* Every step *)

\* Every step keeps the invariant.
LEMMA NextSync ==
    ASSUME SoundConstants, SyncInv, [Next]_vars
    PROVE  SyncInv'
<1>1. CASE UNCHANGED vars
    <2>1. UNCHANGED <<db, counts, server, wire, query, asking, points, news, tainted, strayed>>
        BY <1>1 DEF vars
    <2>2. TypeOK'
        BY <2>1 DEF SyncInv, TypeOK, db, counts, server, asking, points
    <2>3. NewsTypes' /\ NewsShown' /\ AnswersExact' /\ Waits'
        BY <2>1 DEF SyncInv, NewsTypes, NewsShown, Heard, AnswersExact, HandlerExact,
            BaselineIsExactUnlessDrifted, Waits, server, asking, points
    <2>4. UNCHANGED <<resolving, handler>>
        BY <2>1 DEF server
    <2>5. MapFollows' /\ AnswerFollows'
        BY <2>1, <2>4, FanOutStays DEF SyncInv, MapFollows, AnswerFollows, Heard, asking, points
    <2> QED BY <2>1, <2>2, <2>3, <2>4, <2>5, FanOutStays DEF SyncInv
<1>2. CASE FansOut
    BY <1>2, FanOutKeeps
<1>3. CASE \E s \in Slot : Compute(s) \/ StoreSnapshot(s) \/ Respond(s)
    BY <1>3, ComputeKeeps, StoreKeeps, RespondKeeps
<1>4. CASE \E q \in Query : SnapshotExpires(q) \/ Pan(q)
    BY <1>4, SnapshotKeeps, PanKeeps
<1>5. CASE BudgetTick \/ Fetch \/ Refresh \/ Commit \/ RequestFails \/ Hear
    BY <1>5, TickKeeps, FetchKeeps, RefreshKeeps, CommitKeeps, FailKeeps, HearKeeps
<1> QED BY <1>1, <1>2, <1>3, <1>4, <1>5 DEF Next, FansOut, Rest

\* The invariant holds throughout.
LEMMA SyncHolds == ASSUME SoundConstants PROVE Spec => []SyncInv
<1>1. SyncInv /\ [Next]_vars => SyncInv'
    BY NextSync
<1> QED BY <1>1, InitSync, PTL DEF Spec

\* The map's state is well formed, with one point per entity, and the request that
\* is waited for is for the query the map shows.
THEOREM TypeCorrect == ASSUME SoundConstants PROVE Spec => []TypeOK
<1>1. SyncInv => TypeOK
    BY DEF SyncInv
<1> QED BY <1>1, SyncHolds, PTL

\* Along every sequence of full answers, differences, aborts and expired snapshots
\* what the client keeps for the next difference is the answer it took last,
\* except after a difference to a snapshot that it does not have.
THEOREM BaselineStaysExact == ASSUME SoundConstants PROVE Spec => []BaselineIsExactUnlessDrifted
<1>1. SyncInv => BaselineIsExactUnlessDrifted
    BY DEF SyncInv, AnswersExact
<1> QED BY <1>1, SyncHolds, PTL

\* However answers and socket events overtake each other, a map with nothing on
\* its way shows what the database has.
THEOREM QuietMapStaysRight == ASSUME SoundConstants PROVE Spec => []QuietMapIsRight
<1>1. SyncInv => QuietMapIsRight
    <2> SUFFICES ASSUME SyncInv, baseline = query, wire = <<>>, resolving = {},
                        ~drifted, ~strayed, NEW e \in Entity \ tainted
                 PROVE  {p \in shown : p[1] = e} = {p \in PointsIn(query) : p[1] = e}
        BY DEF QuietMapIsRight
    <2>1. Len(wire) = 0
        OBVIOUS
    <2>2. Slice(shown, e) = Now(e)
        BY <2>1 DEF SyncInv, MapFollows, Settled
    <2>3. Slice(PointsIn(query), e) = Now(e)
        <3>1. TypeOK /\ query \in Query \cup {NoQuery}
            BY DEF SyncInv, TypeOK
        <3> QED BY <3>1, PointsNow
    <2> QED BY <2>2, <2>3 DEF Slice
<1> QED BY <1>1, SyncHolds, PTL

\* The map does not go on loading when nothing is there to end it.
THEOREM LoadingStaysFounded == ASSUME SoundConstants PROVE Spec => []LoadingEnds
<1>1. SyncInv => LoadingEnds
    BY DEF SyncInv, Waits, LoadingEnds
<1> QED BY <1>1, SyncHolds, PTL

\* An answer is taken for the query that is shown, and takes nothing back of what
\* was heard since it was asked for.
THEOREM AnswersStayTimely == ASSUME SoundConstants PROVE Spec => AnswersAreTimely
<1> DEFINE Fits == cur # NoSlot /\ shown' # shown /\ cur' = NoSlot => baseline' \in {query', NoQuery}
           Survives == cur # NoSlot /\ cur' = NoSlot /\ baseline' = query =>
               \A e \in Entity : news[e] # NoNews =>
                  {p \in shown' : p[1] = e} = {p \in shown : p[1] = e}
<1>1. ASSUME SyncInv, [Next]_vars, cur # NoSlot, cur' = NoSlot
      PROVE  shown' = shown \/ baseline' = NoQuery \/ Commit
    <2>1. ASSUME NEW s \in Slot, Start(s, NoQuery) \/ Start(s, baseline) PROVE FALSE
        BY <1>1, <2>1 DEF Start, SoundConstants
    <2>2. CASE Fetch
        BY <2>1, <2>2 DEF Fetch, TooLargeClears, SameAgain, OverBudget, Ask, Forget, points
    <2>3. CASE Refresh
        BY <2>3 DEF Refresh, Forget
    <2> QED BY <1>1, <2>2, <2>3
            DEF Next, vars, Change, ResolveReads, ResolveEmits, Compute, StoreSnapshot, Respond,
                SnapshotExpires, Pan, BudgetTick, RequestFails, Hear, Rest, points, asking
<1>2. ASSUME SyncInv, Commit
      PROVE  /\ baseline' = query /\ query' = query
             /\ \A e \in Entity : news[e] # NoNews =>
                   {p \in shown' : p[1] = e} = {p \in shown : p[1] = e}
    <2> DEFINE h == handler[cur]
               pts == Apply(cached, h)
    <2>1. /\ cur # NoSlot /\ baseline' = h.q /\ query' = query /\ shown' = Replay(pts)
        BY <1>2 DEF Commit, Baseline
    <2>2. /\ h \in Handling /\ HandlerExact(h) /\ cached \in SUBSET Point /\ OnePoint(cached)
          /\ h.q = query
        BY <1>2, <2>1 DEF SyncInv, TypeOK, Handling, AnswersExact
    <2>3. pts \in SUBSET Point /\ OnePoint(pts)
        BY <2>2, ApplyFacts
    <2> HIDE DEF pts, h
    <2>4. \A e \in Entity : news[e] # NoNews => Slice(shown', e) = Slice(shown, e)
        BY <1>2, <2>1, <2>3, ReplayFacts DEF SyncInv, NewsShown
    <2> QED BY <2>1, <2>2, <2>4 DEF Slice
<1>3. query # NoQuery \/ ~SyncInv
    BY DEF SyncInv, TypeOK, SoundConstants
<1>4. SyncInv /\ [Next]_vars => Fits /\ Survives
    BY <1>1, <1>2, <1>3
<1>5. SyncInv /\ [Next]_vars => [Fits]_vars /\ [Survives]_vars
    BY <1>4
<1>6. Spec => [][Fits]_vars
    BY <1>5, SyncHolds, PTL DEF Spec
<1>8. Spec => AnswersFit
    BY <1>6 DEF AnswersFit
<1>9. Spec => NewsSurvives
    BY <1>5, SyncHolds, PTL DEF Spec, NewsSurvives
<1> QED BY <1>8, <1>9 DEF AnswersAreTimely
=============================================================================
