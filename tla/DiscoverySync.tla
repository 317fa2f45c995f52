--------------------------- MODULE DiscoverySync ---------------------------
(***************************************************************************)
(* The map's discovery: HTTP answers that are full or a difference to an   *)
(* earlier one, socket events that arrive meanwhile, and a user who pans,  *)
(* zooms and refreshes.  The server keeps one snapshot per viewer and      *)
(* query in Redis.  An answer that is aborted may still be worked on.      *)
(***************************************************************************)
EXTENDS Naturals, FiniteSets, Sequences

CONSTANTS
    Query, NoQuery,     \* viewport, zoom and filters: what is hashed
    TooLarge,           \* queries the client does not ask
    OtherFilter,        \* queries with other filters than the rest
    Entity,
    Slot, NoSlot,       \* requests under way at once, aborted ones included
    MaxChanges,         \* bound: changes of entities
    MaxGestures,        \* bound: pans, zooms, filters and refreshes
    MaxLosses           \* bound: snapshots expired and requests failed

\* What is assumed of the constants.
SoundConstants ==
    /\ NoQuery \notin Query /\ NoSlot \notin Slot
    /\ {MaxChanges, MaxGestures, MaxLosses} \subseteq Nat
    /\ TooLarge \subseteq Query /\ OtherFilter \subseteq Query

VARIABLES
    place, ver,     \* where an entity is, NoQuery for nowhere, and its version
    changes, gestures, losses,  \* counted for the bounds
    snap,           \* discovery:snap, per query
    handler,        \* handler[s]: a request at the server
    resolving,      \* resolutions for the subscriber under way
    wire,           \* socket events, in order
    query,          \* the client: what the map shows
    wants,          \* the debounce timer
    retry,          \* the budget timer
    cur,            \* abortRef: the request waited for
    lastKey, baseline, filter,  \* lastFetchKey, prevHashRef, the last...Refs
    cached,         \* cachedPointsRef
    news,           \* mutations heard since the request began
    shown,          \* the points of the slice
    loading,
    truth,          \* history: the points of the answer last taken
    drifted,        \* history: that answer was a difference to another snapshot
    tainted,        \* history: entities told of late
    strayed         \* history: panned, or lost news, since the last answer was asked

db == <<place, ver, changes>>
counts == <<gestures, losses>>
server == <<snap, handler, resolving>>
asking == <<wants, retry, cur, lastKey, filter, loading>>
points == <<baseline, cached, shown, truth, drifted>>
vars == <<db, counts, server, wire, query, asking, points, news, tainted, strayed>>

Version == 0..MaxChanges
Point == Entity \X Version
NoNews == <<>>
Snapshots == {<<>>} \cup {<<pts>> : pts \in SUBSET Point}    \* none, or one
Quiet == [pc |-> "idle", q |-> NoQuery, prev |-> NoQuery, pts |-> {},
          add |-> {}, drop |-> {}, before |-> <<>>]

TypeOK ==
    /\ place \in [Entity -> Query \cup {NoQuery}]
    /\ ver \in [Entity -> Version] /\ changes \in Version
    /\ gestures \in 0..MaxGestures /\ losses \in 0..MaxLosses
    /\ snap \in [Query -> Snapshots]
    /\ handler \in [Slot -> [pc : {"idle", "sent", "read", "stored", "answered"},
          q : Query \cup {NoQuery}, prev : Query \cup {NoQuery},
          pts : SUBSET Point, add : SUBSET Point, drop : SUBSET Entity,
          before : Snapshots]]
    /\ query \in Query /\ cur \in Slot \cup {NoSlot}
    /\ {lastKey, baseline} \subseteq Query \cup {NoQuery}
    /\ {wants, retry, filter, loading, drifted, strayed} \subseteq BOOLEAN
    /\ cached \subseteq Point /\ shown \subseteq Point /\ truth \subseteq Point
    /\ tainted \subseteq Entity
    /\ cur # NoSlot => handler[cur].pc # "idle" /\ handler[cur].q = query
    \* one point per entity
    /\ \A x, y \in shown : x[1] = y[1] => x = y

Init ==
    /\ place \in [Entity -> Query \cup {NoQuery}] /\ ver = [e \in Entity |-> 0] /\ changes = 0
    /\ gestures = 0 /\ losses = 0
    /\ snap = [q \in Query |-> <<>>] /\ handler = [s \in Slot |-> Quiet]
    /\ resolving = {} /\ wire = <<>>
    /\ query \in Query \ (TooLarge \cup OtherFilter)
    /\ wants = TRUE /\ retry = FALSE
    /\ cur = NoSlot /\ lastKey = NoQuery /\ baseline = NoQuery /\ filter = FALSE
    /\ cached = {} /\ news = [e \in Entity |-> NoNews] /\ shown = {}
    /\ loading = FALSE /\ truth = {} /\ drifted = FALSE
    /\ tainted = {} /\ strayed = FALSE

PointsIn(q) == {<<e, ver[e]>> : e \in {d \in Entity : place[d] = q}}
Keys(pts) == {p[1] : p \in pts}

-----------------------------------------------------------------------------
(* Entities and the fan-out to the subscriber, whose query is the client's *)

\* A move or an edit.  Who is left behind is told at once, who is arrived at
\* after a resolution.
Change(e, to) ==
    /\ changes < MaxChanges /\ changes' = changes + 1
    /\ place[e] # NoQuery \/ to # NoQuery
    /\ place' = [place EXCEPT ![e] = to]
    /\ ver' = [ver EXCEPT ![e] = changes + 1]
    /\ wire' = IF place[e] = query /\ to # query
               THEN Append(wire, [e |-> e, v |-> changes + 1, at |-> NoQuery]) ELSE wire
    /\ resolving' = IF to = query
                    THEN resolving \cup {[e |-> e, pc |-> "asked", v |-> 0, at |-> to]}
                    ELSE resolving
    /\ UNCHANGED <<counts, snap, handler, query, asking, points, news, tainted, strayed>>

ResolveReads(r) ==
    /\ r \in resolving /\ r.pc = "asked"
    /\ resolving' = (resolving \ {r}) \cup
          {[e |-> r.e, pc |-> "read", v |-> ver[r.e], at |-> place[r.e]]}
    /\ UNCHANGED <<db, counts, snap, handler, wire, query, asking, points, news, tainted, strayed>>

ResolveEmits(r) ==
    /\ r \in resolving /\ r.pc = "read"
    /\ resolving' = resolving \ {r}
    /\ wire' = Append(wire, [e |-> r.e, v |-> r.v, at |-> r.at])
    /\ tainted' = IF r.v = ver[r.e] THEN tainted ELSE tainted \cup {r.e}
    /\ UNCHANGED <<db, counts, snap, handler, query, asking, points, news, strayed>>

-----------------------------------------------------------------------------
(* The HTTP handler *)

Compute(s) ==
    /\ handler[s].pc = "sent"
    /\ handler' = [handler EXCEPT ![s].pc = "read", ![s].pts = PointsIn(handler[s].q)]
    /\ UNCHANGED <<db, counts, snap, resolving, wire, query, asking, points, news, tainted,
                   strayed>>

StoreSnapshot(s) ==
    /\ handler[s].pc = "read"
    /\ snap' = [snap EXCEPT ![handler[s].q] = <<handler[s].pts>>]
    /\ handler' = [handler EXCEPT ![s] = IF s = cur THEN [@ EXCEPT !.pc = "stored"]
                                        ELSE Quiet]
    /\ UNCHANGED <<db, counts, resolving, wire, query, asking, points, news, tainted, strayed>>

\* buildDiscoveryDiff, given up when too much would only be removed
Removed(before, now) == Keys(before) \ Keys(now)
TooMuch(before, now) == Cardinality(Removed(before, now)) * 5 > Cardinality(before) * 3

\* The snapshot is looked up under the previous hash after this one is stored,
\* its own hash included.
Respond(s) ==
    LET h == handler[s]
        found == IF h.prev = NoQuery THEN <<>> ELSE snap[h.prev]
        full == found = <<>> \/ TooMuch(found[1], h.pts) IN
    /\ h.pc = "stored"
    /\ handler' = [handler EXCEPT ![s] =
         IF full THEN [h EXCEPT !.pc = "answered"]
         ELSE [h EXCEPT !.pc = "answered", !.before = found,
                 !.add = h.pts \ found[1], !.drop = Keys(found[1] \ h.pts)]]
    /\ UNCHANGED <<db, counts, snap, resolving, wire, query, asking, points, news, tainted,
                   strayed>>

\* Redis forgets a snapshot.
SnapshotExpires(q) ==
    /\ losses < MaxLosses /\ losses' = losses + 1
    /\ snap[q] # <<>> /\ snap' = [snap EXCEPT ![q] = <<>>]
    /\ UNCHANGED <<db, gestures, handler, resolving, wire, query, asking, points, news, tainted,
                   strayed>>

-----------------------------------------------------------------------------
(* The client *)

\* An aborted request may never reach the server, or may be worked on until
\* its snapshot is stored.
AfterAbort ==
    IF cur = NoSlot THEN {handler}
    ELSE {[handler EXCEPT ![cur] = Quiet]} \cup
         (IF handler[cur].pc \in {"sent", "read"}
          THEN {[handler EXCEPT ![cur].prev = NoQuery]} ELSE {})

Forget == baseline' = NoQuery /\ cached' = {}

\* The effect of another query drops the request of the one before.  The
\* variant leaves that to the next fetch.
LeaveInFlight == UNCHANGED <<cur, lastKey, handler>>
DropInFlight ==
    IF cur = NoSlot THEN UNCHANGED <<cur, lastKey, handler>>
    ELSE cur' = NoSlot /\ lastKey' = NoQuery /\ handler' \in AfterAbort

Pan(q) ==
    /\ gestures < MaxGestures /\ gestures' = gestures + 1
    /\ q # query /\ query' = q
    /\ DropInFlight
    /\ wants' = TRUE /\ retry' = FALSE /\ strayed' = TRUE
    /\ tainted' = tainted \cup {r.e : r \in resolving} \cup {wire[i].e : i \in DOMAIN wire}
    /\ UNCHANGED <<db, losses, snap, resolving, wire, filter, loading, points, news>>

\* The budget's timer runs the effect again.
BudgetTick ==
    /\ retry /\ retry' = FALSE /\ wants' = TRUE
    /\ DropInFlight
    /\ UNCHANGED <<db, counts, snap, resolving, wire, query, filter, loading, points, news,
                   tainted, strayed>>

\* The rest of fetchNow, with what it is to be compared with.
Start(s, prev) ==
    /\ \E h \in AfterAbort :
          /\ h[s] = Quiet
          /\ handler' = [h EXCEPT ![s] = [Quiet EXCEPT !.pc = "sent", !.q = query,
                                                     !.prev = prev]]
    /\ cur' = s /\ lastKey' = query /\ filter' = (query \in OtherFilter)
    /\ loading' = TRUE /\ news' = [e \in Entity |-> NoNews]
    /\ UNCHANGED strayed

TooLargeClears ==
    /\ query \in TooLarge
    /\ cur' = NoSlot /\ lastKey' = NoQuery /\ handler' \in AfterAbort
    /\ Forget /\ shown' = {} /\ truth' = {} /\ drifted' = FALSE
    /\ news' = [e \in Entity |-> NoNews]
    /\ loading' = FALSE /\ strayed' = FALSE
    /\ UNCHANGED <<retry, filter>>

\* The debounced fetch.
SameAgain ==
    /\ query \notin TooLarge /\ query = lastKey
    /\ UNCHANGED <<handler, retry, cur, lastKey, filter, loading, points, news, strayed>>

OverBudget ==
    /\ query \notin TooLarge /\ query # lastKey
    /\ retry' = TRUE /\ loading' = TRUE
    /\ UNCHANGED <<handler, cur, lastKey, filter, points, news, strayed>>

Ask(s) ==
    /\ query \notin TooLarge /\ query # lastKey
    /\ IF filter # (query \in OtherFilter)
       THEN Start(s, NoQuery) /\ Forget /\ drifted' = FALSE
       ELSE Start(s, baseline) /\ UNCHANGED <<baseline, cached, drifted>>
    /\ UNCHANGED <<retry, shown, truth>>

Fetch ==
    /\ wants /\ wants' = FALSE
    /\ TooLargeClears \/ SameAgain \/ OverBudget \/ \E s \in Slot : Ask(s)
    /\ UNCHANGED <<db, counts, snap, resolving, wire, query, tainted>>

\* refresh, with the request it starts or the budget it waits for
Refresh ==
    /\ gestures < MaxGestures /\ gestures' = gestures + 1
    /\ Forget /\ drifted' = FALSE
    /\ \/ TooLargeClears
       \/ /\ query \notin TooLarge /\ retry' = FALSE
          /\ \E s \in Slot : Start(s, NoQuery)
          /\ UNCHANGED <<shown, truth>>
       \/ /\ query \notin TooLarge /\ retry' = TRUE
          /\ loading' = TRUE /\ lastKey' = NoQuery
          /\ news' = [e \in Entity |-> NoNews] /\ strayed' = TRUE
          /\ UNCHANGED <<handler, cur, filter, shown, truth>>
    /\ UNCHANGED <<db, losses, snap, resolving, wire, query, wants, tainted>>

Apply(pts, h) ==
    IF h.before = <<>> THEN h.pts
    ELSE {p \in pts : p[1] \notin h.drop \cup Keys(h.add)} \cup h.add

\* replayDiscoveryMutations.  The variant shows the answer as it is.
NoReplay(pts) == pts
Replay(pts) ==
    {p \in pts : news[p[1]] = NoNews}
        \cup {news[e] : e \in {d \in Entity : Len(news[d]) = 2}}

\* What the next difference applies to.  The variant keeps what is shown.
KeepShown(pts) == Replay(pts)
Baseline(pts) == pts

\* finally.  The variant leaves it to the next answer.
StillLoading == UNCHANGED loading
NotLoading == loading' = FALSE

Commit ==
    LET h == handler[cur] pts == Apply(cached, h) IN
    /\ cur # NoSlot /\ h.pc = "answered"
    /\ baseline' = h.q /\ cached' = Baseline(pts) /\ shown' = Replay(pts)
    /\ truth' = h.pts /\ drifted' = (h.before # <<>> /\ (drifted \/ h.before # <<cached>>))
    /\ news' = [e \in Entity |-> NoNews]
    /\ NotLoading /\ cur' = NoSlot
    /\ strayed' = (strayed /\ lastKey # query)
    /\ handler' = [handler EXCEPT ![cur] = Quiet]
    /\ UNCHANGED <<db, counts, snap, resolving, wire, query, wants, retry, lastKey, filter,
                   tainted>>

\* No network, a timeout or an error: the key stays, nothing is asked again.
RequestFails ==
    /\ losses < MaxLosses /\ losses' = losses + 1
    /\ cur # NoSlot /\ cur' = NoSlot /\ NotLoading /\ handler' \in AfterAbort
    /\ UNCHANGED <<db, gestures, snap, resolving, wire, query, wants, retry, lastKey, filter,
                   points, news, tainted, strayed>>

\* enter, update and leave; a point elsewhere is removed
Hear ==
    LET m == Head(wire) here == m.at = query p == <<m.e, m.v>> IN
    /\ wire # <<>> /\ wire' = Tail(wire)
    /\ shown' = {x \in shown : x[1] # m.e} \cup (IF here THEN {p} ELSE {})
    /\ news' = [news EXCEPT ![m.e] = IF here THEN p ELSE <<m.e>>]
    /\ UNCHANGED <<db, counts, server, query, asking, baseline, cached, truth, drifted, tainted,
                   strayed>>

\* The bound on gestures stops no real user.
Rest == gestures = MaxGestures /\ UNCHANGED vars

Next ==
    \/ \E e \in Entity, to \in Query \cup {NoQuery} : Change(e, to)
    \/ \E r \in resolving : ResolveReads(r) \/ ResolveEmits(r)
    \/ \E s \in Slot : Compute(s) \/ StoreSnapshot(s) \/ Respond(s)
    \/ \E q \in Query : SnapshotExpires(q) \/ Pan(q)
    \/ BudgetTick \/ Fetch \/ Refresh \/ Commit \/ RequestFails \/ Hear
    \/ Rest

Spec == Init /\ [][Next]_vars

-----------------------------------------------------------------------------
(* Properties *)

\* What the hook says of its cache: it is the snapshot of the hash kept with
\* it.  A query asked again is compared with the snapshot just stored for it.
BaselineIsExact == baseline # NoQuery => cached = truth

\* Otherwise it is, along every sequence of differences, full answers,
\* aborts and expired snapshots.
BaselineIsExactUnlessDrifted == baseline # NoQuery => drifted \/ cached = truth

\* An answer is taken only for the query the map shows at that moment.
AnswersFit == [][cur # NoSlot /\ shown' # shown /\ cur' = NoSlot => baseline' \in {query', NoQuery}]_vars

\* An answer never takes back what was heard since it was asked for: not a
\* newer version, not a removal.
NewsSurvives ==
    [][cur # NoSlot /\ cur' = NoSlot /\ baseline' = query =>
         \A e \in Entity : news[e] # NoNews =>
            {p \in shown' : p[1] = e} = {p \in shown : p[1] = e}]_vars

\* An answer is for what the map shows and is no older than what was heard.
AnswersAreTimely == AnswersFit /\ NewsSurvives

\* When nothing is on its way the map shows what is there, except for what
\* was told of late, and after a drift.
QuietMapIsRight ==
    cur = NoSlot /\ baseline = query /\ wire = <<>> /\ resolving = {}
        => drifted \/ strayed \/ \A e \in Entity \ tainted :
             {p \in shown : p[1] = e} = {p \in PointsIn(query) : p[1] = e}

\* The map says it is loading only while a request or a timer is there to end
\* that, unless the user came back to the query of before.
LoadingEnds == loading => cur # NoSlot \/ wants \/ retry \/ (strayed /\ lastKey = query)
=============================================================================
