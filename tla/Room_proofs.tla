---------------------------- MODULE Room_proofs ----------------------------
(***************************************************************************)
(* Proofs about one direct conversation and about the social graph, for    *)
(* any number of connections, users, handlers and requests.                *)
(***************************************************************************)
EXTENDS MCConversationRoom, FiniteSetTheorems, TLAPS

-----------------------------------------------------------------------------
(* The conversation *)

\* TypeOK without the bound on the messages.
Typed ==
    /\ up \subseteq Socket /\ room \subseteq Socket
    /\ join \in [Socket -> {"none", "admitted", "entered", "denied"}]
    /\ send \in [Socket -> {"none", "persist", "write"}]
    /\ status \in {"pending", "accepted"}
    /\ locked \in Socket \cup {NoSocket}
    /\ \A s \in Socket : send[s] = "write" <=> locked = s
    /\ messages \in Nat
    /\ blocks \subseteq User
    /\ evicted \in BOOLEAN

\* Only a standing block has emptied the room, and who is in it then is about
\* to be taken out.
EvictInv == (evicted => blocks # {}) /\ EvictedStayOut

\* The transaction that writes for the initiator of a request has counted no
\* message, and nobody else writes until it ends.
GateInv ==
    /\ \A s \in Mine : send[s] = "write" /\ status = "pending" => messages = 0
    /\ RequestSaysOneThing

RoomInv == Typed /\ EvictInv /\ GateInv

\* An empty conversation satisfies the invariant.
LEMMA InitRoom == Init => RoomInv
<1> SUFFICES ASSUME Init PROVE RoomInv
    OBVIOUS
<1>1. Typed
    BY SoundConstants DEF Init, Typed, Socket
<1>2. EvictInv
    BY DEF Init, EvictInv, EvictedStayOut
<1>3. GateInv
    BY DEF Init, GateInv, RequestSaysOneThing, Socket
<1> QED BY <1>1, <1>2, <1>3 DEF RoomInv

\* What happens to connections and to the room leaves the messages alone.
LEMMA ConnectionsKeep ==
    ASSUME RoomInv, NEW s \in Socket,
           \/ Connect(s) \/ Disconnect(s) \/ JoinCheck(s) \/ JoinEnter(s)
           \/ JoinRecheck(s) \/ JoinLeave(s) \/ Leave(s)
    PROVE  RoomInv'
<1>1. UNCHANGED <<send, status, locked, messages, blocks, evicted>>
    BY DEF Connect, Disconnect, JoinCheck, JoinEnter, JoinRecheck, JoinLeave, Leave, chat, blockade
<1>2. GateInv'
    BY <1>1 DEF RoomInv, GateInv, RequestSaysOneThing
<1>3. CASE Connect(s) \/ Disconnect(s) \/ Leave(s)
    BY <1>1, <1>2, <1>3 DEF Connect, Disconnect, Leave, RoomInv, Typed, EvictInv, EvictedStayOut
<1>4. CASE JoinCheck(s)
    BY <1>1, <1>2, <1>4 DEF JoinCheck, Authorized, RoomInv, Typed, EvictInv, EvictedStayOut
<1>5. CASE JoinEnter(s)
    BY <1>1, <1>2, <1>5 DEF JoinEnter, RoomInv, Typed, EvictInv, EvictedStayOut
<1>6. CASE JoinRecheck(s)
    BY <1>1, <1>2, <1>6 DEF JoinRecheck, Authorized, RoomInv, Typed, EvictInv, EvictedStayOut
<1>7. CASE JoinLeave(s)
    BY <1>1, <1>2, <1>7 DEF JoinLeave, RoomInv, Typed, EvictInv, EvictedStayOut
<1> QED BY <1>3, <1>4, <1>5, <1>6, <1>7

\* A block, its eviction and an unblock leave the messages alone too.
LEMMA BlocksKeep ==
    ASSUME RoomInv, NEW u \in User,
           \/ Block(u) \/ FindEvictions(u) \/ Evict(u) \/ BlockFails(u) \/ Unblock(u)
    PROVE  RoomInv'
<1>1. UNCHANGED <<up, join, send, status, locked, messages>>
    BY DEF Block, FindEvictions, Evict, BlockFails, Unblock, connection, chat
<1>2. GateInv'
    BY <1>1 DEF RoomInv, GateInv, RequestSaysOneThing
<1>3. CASE Block(u) \/ FindEvictions(u) \/ BlockFails(u)
    BY <1>1, <1>2, <1>3 DEF Block, FindEvictions, BlockFails, connection, RoomInv, Typed,
        EvictInv, EvictedStayOut
<1>4. CASE Evict(u)
    <2>1. UNION {SocketsOf(v) : v \in User} = Socket
        BY DEF SocketsOf, User, Socket
    <2>2. room' = {}
        BY <1>4, <2>1 DEF Evict, LeaveRoomForUsers, RoomInv, Typed
    <2>3. UNCHANGED blocks /\ evicted' = (blocks # {})
        BY <1>4 DEF Evict
    <2> QED BY <1>1, <1>2, <2>2, <2>3 DEF RoomInv, Typed, EvictInv, EvictedStayOut
<1>5. CASE Unblock(u)
    BY <1>1, <1>2, <1>5 DEF Unblock, connection, RoomInv, Typed, EvictInv, EvictedStayOut
<1> QED BY <1>3, <1>4, <1>5

\* Messages are written one at a time, under the gate.
LEMMA SendsKeep ==
    ASSUME RoomInv, NEW s \in Socket, SendCheck(s) \/ Gate(s) \/ Persist(s) \/ SendFails(s)
    PROVE  RoomInv'
<1>1. UNCHANGED <<up, room, join, blocks, evicted>>
    BY DEF SendCheck, Gate, Persist, SendFails, connection, blockade
<1>2. EvictInv'
    BY <1>1 DEF RoomInv, EvictInv, EvictedStayOut
<1>3. CASE SendCheck(s)
    <2>1. \A t \in Socket : send'[t] = "write" <=> send[t] = "write"
        BY <1>3 DEF SendCheck, RoomInv, Typed
    <2>2. Mine \subseteq Socket
        BY DEF Socket
    <2> QED BY <1>1, <1>2, <1>3, <2>1, <2>2
            DEF SendCheck, RoomInv, Typed, GateInv, RequestSaysOneThing
<1>4. CASE Gate(s)
    <2>1. CASE GateRefuses(s)
        BY <1>1, <1>2, <1>4, <2>1, SoundConstants
           DEF Gate, RoomInv, Typed, GateInv, RequestSaysOneThing, Socket
    <2>2. CASE ~GateRefuses(s)
        <3>1. send' = [send EXCEPT ![s] = "write"] /\ locked' = s /\ locked = NoSocket
            BY <1>4, <2>2 DEF Gate
        <3>2. \A t \in Socket : send[t] # "write"
            BY <3>1, SoundConstants DEF RoomInv, Typed
        <3>3. UNCHANGED <<status, messages>>
            BY <1>4 DEF Gate
        <3>4. GateInv'
            BY <2>2, <3>1, <3>2, <3>3
               DEF GateRefuses, RoomInv, Typed, GateInv, RequestSaysOneThing, Socket
        <3> QED BY <1>1, <1>2, <3>1, <3>2, <3>3, <3>4 DEF RoomInv, Typed
    <2> QED BY <2>1, <2>2
<1>5. CASE Persist(s)
    <2>1. locked = s /\ \A t \in Socket : send'[t] # "write"
        BY <1>5 DEF Persist, RoomInv, Typed
    <2>2. status' = "pending" => status = "pending" /\ s \in Mine
        BY <1>5 DEF Persist, Socket
    <2>3. messages' = messages + 1 /\ (status' = "pending" => messages = 0)
        BY <1>5, <2>2 DEF Persist, RoomInv, GateInv
    <2>4. GateInv'
        BY <2>1, <2>3 DEF RoomInv, Typed, GateInv, RequestSaysOneThing, Socket
    <2> QED BY <1>1, <1>2, <1>5, <2>1, <2>4, SoundConstants DEF Persist, RoomInv, Typed
<1>6. CASE SendFails(s)
    <2>1. UNCHANGED <<status, messages>> /\ send' = [send EXCEPT ![s] = "none"]
        BY <1>6 DEF SendFails
    <2>2. GateInv'
        BY <2>1 DEF RoomInv, Typed, GateInv, RequestSaysOneThing, Socket
    <2> QED BY <1>1, <1>2, <1>6, <2>1, <2>2, SoundConstants DEF SendFails, RoomInv, Typed
<1> QED BY <1>3, <1>4, <1>5, <1>6

\* Every step keeps the invariant.
LEMMA NextRoom ==
    ASSUME RoomInv, [Next]_vars
    PROVE  RoomInv'
<1>1. CASE WaveAccepts
    <2>1. UNCHANGED <<up, room, join, send, locked, messages, blocks, evicted>>
        BY <1>1 DEF WaveAccepts, connection, blockade
    <2> QED BY <1>1, <2>1 DEF WaveAccepts, RoomInv, Typed, EvictInv, EvictedStayOut, GateInv,
            RequestSaysOneThing
<1>2. CASE UNCHANGED vars
    BY <1>2 DEF vars, connection, chat, blockade, RoomInv, Typed, EvictInv, EvictedStayOut,
        GateInv, RequestSaysOneThing
<1> QED BY <1>1, <1>2, ConnectionsKeep, BlocksKeep, SendsKeep DEF Next

\* The invariant holds of every reachable state.
LEMMA Reachable == Spec => []RoomInv
BY InitRoom, NextRoom, PTL DEF Spec

\* A join authorized before a block does not stay in the room that the block
\* has emptied, whatever the order of the lookups, the adapter and the eviction.
THEOREM EvictionHolds == Spec => []EvictedStayOut
<1>1. RoomInv => EvictedStayOut
    BY DEF RoomInv, EvictInv
<1> QED BY <1>1, Reachable, PTL

\* The request gate lets one message through before a reply, from however many
\* connections it is tried at once.
THEOREM RequestsSayOneThing == Spec => []RequestSaysOneThing
<1>1. RoomInv => RequestSaysOneThing
    BY DEF RoomInv, GateInv
<1> QED BY <1>1, Reachable, PTL

\* The sends under way are counted with the messages: each may still store one.
Sending == {t \in Socket : send[t] # "none"}
BoundInv ==
    /\ room \subseteq up
    /\ blocking \in [User -> {"none", "graph", "evict"}]
    /\ messages + Cardinality(Sending) <= MaxMessages

LEMMA SendingFinite ==
    ASSUME IsFiniteSet(Socket)
    PROVE  IsFiniteSet(Sending) /\ Cardinality(Sending) \in Nat
<1>1. Sending \in SUBSET Socket
    BY DEF Sending
<1> QED BY <1>1, FS_Subset, FS_CardinalityType

\* Nobody sends at first.
LEMMA InitBound == Init => BoundInv
<1> SUFFICES ASSUME Init PROVE BoundInv
    OBVIOUS
<1>1. Sending = {}
    BY DEF Init, Sending
<1>2. Cardinality(Sending) = 0
    BY <1>1, FS_EmptySet
<1> QED BY <1>2, SoundConstants DEF Init, BoundInv

\* Every step keeps the bound.
LEMMA NextBound ==
    ASSUME IsFiniteSet(Socket), RoomInv, BoundInv, [Next]_vars
    PROVE  BoundInv'
<1>1. IsFiniteSet(Sending) /\ Cardinality(Sending) \in Nat /\ messages \in Nat
      /\ MaxMessages \in Nat
    BY SendingFinite, SoundConstants DEF RoomInv, Typed
<1>2. ASSUME NEW s \in Socket, SendCheck(s) PROVE BoundInv'
    <2>1. Sending' = Sending \cup {s} /\ s \notin Sending
        BY <1>2 DEF SendCheck, Sending, RoomInv, Typed
    <2>2. Cardinality(Sending') = Cardinality(Sending) + 1
        BY <1>1, <2>1, FS_AddElement
    <2>3. messages + Cardinality(Sending) < MaxMessages
        BY <1>2 DEF SendCheck, Sending
    <2>4. UNCHANGED <<messages, room, up, blocking>>
        BY <1>2 DEF SendCheck, connection, blockade
    <2>5. messages' + Cardinality(Sending') <= MaxMessages
        BY <1>1, <2>2, <2>3, <2>4
    <2> QED BY <2>4, <2>5 DEF BoundInv, Sending
<1>3. ASSUME NEW s \in Socket, UNCHANGED <<room, up, blocking>>, s \in Sending,
             Sending' = Sending \ {s}, messages' \in {messages, messages + 1}
      PROVE  BoundInv'
    <2>1. Cardinality(Sending') = Cardinality(Sending) - 1
        BY <1>1, <1>3, FS_RemoveElement
    <2>2. messages' + Cardinality(Sending') <= MaxMessages
        BY <1>1, <1>3, <2>1 DEF BoundInv
    <2> QED BY <1>3, <2>2 DEF BoundInv, Sending
<1>4. ASSUME UNCHANGED messages, Sending' = Sending, room' \subseteq up',
             blocking' \in [User -> {"none", "graph", "evict"}]
      PROVE  BoundInv'
    BY <1>4 DEF BoundInv, Sending
<1>5. ASSUME NEW s \in Socket, Gate(s) PROVE BoundInv'
    <2>1. UNCHANGED <<room, up, blocking, messages>> /\ send[s] = "persist"
        BY <1>5 DEF Gate, connection, blockade
    <2>2. CASE GateRefuses(s)
        <3>1. Sending' = Sending \ {s} /\ s \in Sending
            BY <1>5, <2>2 DEF Gate, Sending, RoomInv, Typed
        <3> QED BY <1>3, <2>1, <3>1
    <2>3. CASE ~GateRefuses(s)
        <3>1. Sending' = Sending
            BY <1>5, <2>3 DEF Gate, Sending, RoomInv, Typed
        <3> QED BY <1>4, <2>1, <3>1 DEF BoundInv
    <2> QED BY <2>2, <2>3
<1>6. ASSUME NEW s \in Socket, Persist(s) \/ SendFails(s) PROVE BoundInv'
    <2>1. UNCHANGED <<room, up, blocking>> /\ messages' \in {messages, messages + 1}
        BY <1>6 DEF Persist, SendFails, connection, blockade
    <2>2. Sending' = Sending \ {s} /\ s \in Sending
        BY <1>6 DEF Persist, SendFails, Sending, RoomInv, Typed
    <2> QED BY <1>3, <2>1, <2>2
<1>7. ASSUME UNCHANGED <<send, messages>>, room' \subseteq up',
             blocking' \in [User -> {"none", "graph", "evict"}]
      PROVE  BoundInv'
    BY <1>4, <1>7 DEF Sending
<1>8. ASSUME NEW s \in Socket,
             \/ Connect(s) \/ Disconnect(s) \/ JoinCheck(s) \/ JoinEnter(s)
             \/ JoinRecheck(s) \/ JoinLeave(s) \/ Leave(s)
      PROVE  BoundInv'
    <2>1. UNCHANGED <<send, messages, blocking>> /\ room' \subseteq up'
        BY <1>8 DEF Connect, Disconnect, JoinCheck, JoinEnter, JoinRecheck, JoinLeave, Leave,
            chat, blockade, BoundInv
    <2> QED BY <1>7, <2>1 DEF BoundInv
<1>9. ASSUME NEW u \in User,
             \/ Block(u) \/ FindEvictions(u) \/ Evict(u) \/ BlockFails(u) \/ Unblock(u)
      PROVE  BoundInv'
    <2>1. UNCHANGED <<send, messages, up>> /\ room' \subseteq room
        BY <1>9 DEF Block, FindEvictions, Evict, LeaveRoomForUsers, BlockFails, Unblock,
            connection, chat
    <2>2. blocking' \in [User -> {"none", "graph", "evict"}]
        BY <1>9 DEF Block, FindEvictions, Evict, BlockFails, Unblock, BoundInv
    <2> QED BY <1>7, <2>1, <2>2 DEF BoundInv
<1>10. CASE WaveAccepts \/ UNCHANGED vars
    <2>1. UNCHANGED <<send, messages, up, room, blocking>>
        BY <1>10 DEF WaveAccepts, vars, connection, chat, blockade
    <2> QED BY <1>7, <2>1 DEF BoundInv
<1> QED BY <1>2, <1>5, <1>6, <1>8, <1>9, <1>10 DEF Next

\* The invariants are the types, with the bound.
LEMMA RoomTypes == RoomInv /\ BoundInv /\ IsFiniteSet(Socket) => TypeOK
<1> SUFFICES ASSUME RoomInv, BoundInv, IsFiniteSet(Socket) PROVE TypeOK
    OBVIOUS
<1>1. messages \in 0..MaxMessages
    BY SendingFinite, SoundConstants DEF RoomInv, Typed, BoundInv
<1> QED BY <1>1 DEF TypeOK, RoomInv, Typed, BoundInv

-----------------------------------------------------------------------------
(* The social graph *)

Locals == [pc : {"idle", "follow", "known", "inbound", "insert", "accept",
                 "befriend", "decline", "cancel", "blocked", "follows",
                 "friendship", "commit"},
           actor : Person \cup {NoUser}, peer : Person \cup {NoUser},
           row : Graph!Row \cup {Graph!NoRow},
           edges : SUBSET (Person \X Person), pair : SUBSET SUBSET Person,
           late : BOOLEAN]

\* TypeOK without what says that nobody is related to themselves.
GraphTyped ==
    /\ follows \subseteq Person \X Person /\ friends \subseteq SUBSET Person
    /\ row \in [Graph!Row -> Graph!RowType] /\ req \in [Request -> Locals]

\* A handler that follows or asks knows two users; one that accepts has a row addressed
\* to its actor; and while it holds the row the question stands.
LocalOK(l) ==
    /\ l.pc \in {"follow", "known", "inbound", "insert"} =>
         l.actor \in Person /\ l.peer \in Person /\ l.actor # l.peer
    /\ l.pc \in {"accept", "befriend"} =>
         l.row \in Graph!Row /\ row[l.row].state # "unused" /\ row[l.row].to = l.actor
    /\ l.pc = "befriend" => row[l.row].state = "pending" /\ row[l.row].from = l.peer

HandlersKnown == \A p \in Request : LocalOK(req[p])

\* A question is held by one acceptance.
LocksExclude ==
    \A p, q \in Request : p # q /\ Graph!At(p, "befriend") /\ Graph!At(q, "befriend")
                          => req[p].row # req[q].row

\* A question that stands is one user's to another.
Standing(r) == row[r].state = "pending"
RowsKnown == \A r \in Graph!Row : Standing(r) =>
                 row[r].from \in Person /\ row[r].to \in Person /\ row[r].from # row[r].to

\* ... and stands once.
AskedOnce == \A r, s \in Graph!Row : r # s /\ Standing(r) /\ Standing(s) =>
                 row[r].from # row[s].from \/ row[r].to # row[s].to

ConsentInv == GraphTyped /\ HandlersKnown /\ LocksExclude /\ RowsKnown /\ AskedOnce

Asked == {<<row[r].from, row[r].to>> : r \in {s \in Graph!Row : row[s].state = "pending"}}

\* There is nothing at first.
LEMMA InitConsent == Graph!Init => ConsentInv
<1> SUFFICES ASSUME Graph!Init PROVE ConsentInv
    OBVIOUS
<1>1. Graph!Tidy \in Locals /\ Graph!Tidy.pc = "idle"
    BY DEF Graph!Tidy, Locals
<1>2. GraphTyped
    BY <1>1 DEF Graph!Init, GraphTyped, Graph!RowType
<1>3. HandlersKnown /\ LocksExclude
    BY <1>1 DEF Graph!Init, HandlersKnown, LocalOK, LocksExclude, Graph!At
<1>4. RowsKnown /\ AskedOnce
    BY DEF Graph!Init, RowsKnown, AskedOnce, Standing
<1> QED BY <1>2, <1>3, <1>4 DEF ConsentInv

\* A step that touches no row: its handler's locals become l, or stay.
LEMMA HandlerStep ==
    ASSUME ConsentInv, NEW p \in Request, NEW l \in Locals, req' = [req EXCEPT ![p] = l],
           LocalOK(l), l.pc = "befriend" => ~Graph!RowLocked(l.row),
           UNCHANGED row, follows' \subseteq Person \X Person, friends' \subseteq SUBSET Person
    PROVE  ConsentInv'
<1>1. /\ req' \in [Request -> Locals] /\ req'[p] = l
      /\ \A q \in Request \ {p} : req'[q] = req[q]
    BY DEF ConsentInv, GraphTyped
<1>2. GraphTyped'
    BY <1>1 DEF ConsentInv, GraphTyped
<1>3. HandlersKnown'
    BY <1>1 DEF ConsentInv, HandlersKnown, LocalOK
<1>4. LocksExclude'
    BY <1>1 DEF ConsentInv, LocksExclude, Graph!At, Graph!RowLocked
<1>5. RowsKnown' /\ AskedOnce'
    BY DEF ConsentInv, RowsKnown, AskedOnce, Standing
<1> QED BY <1>2, <1>3, <1>4, <1>5 DEF ConsentInv

\* A handler that answers has nothing left.
LEMMA AnswerStep ==
    ASSUME ConsentInv, NEW p \in Request, Graph!Answer(p),
           UNCHANGED row, follows' \subseteq Person \X Person, friends' \subseteq SUBSET Person
    PROVE  ConsentInv'
<1>1. Graph!Tidy \in Locals /\ Graph!Tidy.pc = "idle"
    BY DEF Graph!Tidy, Locals
<1>2. LocalOK(Graph!Tidy)
    BY <1>1 DEF LocalOK
<1> QED BY <1>1, <1>2, HandlerStep DEF Graph!Answer

\* A handler that answers with a write: what it leaves of the rows suits the
\* acceptances under way.
LEMMA RowStep ==
    ASSUME ConsentInv, NEW p \in Request, Graph!Answer(p),
           follows' \subseteq Person \X Person, friends' \subseteq SUBSET Person,
           row' \in [Graph!Row -> Graph!RowType],
           \A r \in Graph!Row : row[r].state # "unused" =>
               /\ row'[r].from = row[r].from /\ row'[r].to = row[r].to
               /\ row'[r].state # "unused",
           \A r \in Graph!Row, q \in Request \ {p} :
               Graph!At(q, "befriend") /\ req[q].row = r => row'[r].state = "pending",
           RowsKnown', AskedOnce'
    PROVE  ConsentInv'
<1>1. Graph!Tidy \in Locals /\ Graph!Tidy.pc = "idle"
    BY DEF Graph!Tidy, Locals
<1>2. /\ req' \in [Request -> Locals] /\ req'[p] = Graph!Tidy
      /\ \A q \in Request \ {p} : req'[q] = req[q]
    BY <1>1 DEF Graph!Answer, ConsentInv, GraphTyped
<1>3. GraphTyped'
    BY <1>2 DEF GraphTyped
<1>4. HandlersKnown'
    <2> SUFFICES ASSUME NEW q \in Request PROVE LocalOK(req[q])'
        BY DEF HandlersKnown
    <2>1. CASE q = p
        BY <1>1, <1>2, <2>1 DEF LocalOK
    <2>2. CASE q # p
        BY <1>2, <2>2 DEF ConsentInv, HandlersKnown, LocalOK, Graph!At
    <2> QED BY <2>1, <2>2
<1>5. LocksExclude'
    BY <1>1, <1>2 DEF ConsentInv, LocksExclude, Graph!At
<1> QED BY <1>3, <1>4, <1>5 DEF ConsentInv

\* Asking and answering begin, and the handlers read.
LEMMA BeginsOrReads ==
    ASSUME Graph!SoundConstants, ConsentInv, NEW p \in Request,
           \/ \E a \in Person : \E b \in Person \ {a} : Graph!Follow(p, a, b) \/ Graph!RequestFriend(p, a, b)
           \/ \E u \in Person, r \in Graph!Row : Graph!Accept(p, u, r) \/ Graph!Decline(p, u, r) \/ Graph!Cancel(p, u, r)
           \/ Graph!ReadFriendship(p) \/ Graph!ReadInbound(p) \/ Graph!AcceptLock(p)
    PROVE  ConsentInv' /\ UNCHANGED <<row, friends>>
<1>1. UNCHANGED <<row, friends, follows>>
    BY DEF Graph!Follow, Graph!RequestFriend, Graph!Accept, Graph!Decline, Graph!Cancel,
        Graph!Respond, Graph!ReadFriendship,
        Graph!ReadInbound, Graph!AcceptLock
<1>2. follows' \subseteq Person \X Person /\ friends' \subseteq SUBSET Person
    BY <1>1 DEF ConsentInv, GraphTyped
<1>3. LocalOK(req[p]) /\ req[p] \in Locals
    BY DEF ConsentInv, HandlersKnown, GraphTyped
<1>4. ASSUME NEW a \in Person, NEW b \in Person \ {a}, NEW pc \in {"follow", "known"},
             Graph!Start(p, a, b, pc)
      PROVE  ConsentInv'
    <2> DEFINE l == [Graph!Tidy EXCEPT !.pc = pc, !.actor = a, !.peer = b]
    <2>1. l \in Locals /\ l.pc = pc /\ l.actor = a /\ l.peer = b
        BY DEF Graph!Tidy, Locals
    <2>2. req' = [req EXCEPT ![p] = l]
        BY <1>4 DEF Graph!Start
    <2> HIDE DEF l
    <2>3. LocalOK(l)
        BY <2>1 DEF LocalOK
    <2> QED BY <1>1, <1>2, <2>1, <2>2, <2>3, HandlerStep
<1>5. ASSUME NEW u \in Person, NEW r \in Graph!Row, NEW pc \in {"accept", "decline", "cancel"},
             Graph!Respond(p, u, r, pc), pc = "accept" => row[r].state # "unused" /\ row[r].to = u
      PROVE  ConsentInv'
    <2> DEFINE l == [Graph!Tidy EXCEPT !.pc = pc, !.actor = u, !.row = r]
    <2>1. l \in Locals /\ l.pc = pc /\ l.actor = u /\ l.row = r
        BY DEF Graph!Tidy, Locals
    <2>2. req' = [req EXCEPT ![p] = l]
        BY <1>5 DEF Graph!Respond
    <2> HIDE DEF l
    <2>3. LocalOK(l)
        BY <1>5, <2>1 DEF LocalOK
    <2> QED BY <1>1, <1>2, <2>1, <2>2, <2>3, HandlerStep
<1>6. ASSUME NEW pc \in {"inbound", "insert"}, req[p].pc \in {"known", "inbound"}, Graph!Go(p, pc)
      PROVE  ConsentInv'
    <2> DEFINE l == [req[p] EXCEPT !.pc = pc]
    <2>1. l \in Locals /\ l.pc = pc /\ l.actor = req[p].actor /\ l.peer = req[p].peer
        BY <1>3 DEF Locals
    <2>2. req' = [req EXCEPT ![p] = l]
        BY <1>6 DEF Graph!Go, ConsentInv, GraphTyped
    <2> HIDE DEF l
    <2>3. LocalOK(l)
        BY <1>3, <1>6, <2>1 DEF LocalOK
    <2> QED BY <1>1, <1>2, <2>1, <2>2, <2>3, HandlerStep
<1>7. ASSUME Graph!At(p, "inbound"), NEW r \in Graph!Pending(req[p].peer, req[p].actor),
             req' = [req EXCEPT ![p].pc = "accept", ![p].row = r]
      PROVE  ConsentInv'
    <2> DEFINE l == [req[p] EXCEPT !.pc = "accept", !.row = r]
    <2>1. r \in Graph!Row /\ row[r].state = "pending" /\ row[r].to = req[p].actor
        BY DEF Graph!Pending
    <2>2. l \in Locals /\ l.pc = "accept" /\ l.actor = req[p].actor /\ l.row = r
        BY <1>3, <2>1 DEF Locals
    <2>3. req' = [req EXCEPT ![p] = l]
        BY <1>7 DEF ConsentInv, GraphTyped, Locals
    <2> HIDE DEF l
    <2>4. LocalOK(l)
        BY <2>1, <2>2 DEF LocalOK
    <2> QED BY <1>1, <1>2, <2>2, <2>3, <2>4, HandlerStep
<1>8. CASE Graph!AcceptLock(p)
    <2>1. CASE row[req[p].row].state = "pending"
        <3> DEFINE r == req[p].row
        <3> DEFINE l == [req[p] EXCEPT !.pc = "befriend", !.peer = row[r].from]
        <3>1. /\ req[p].pc = "accept" /\ ~Graph!RowLocked(r)
              /\ req' = [req EXCEPT ![p].pc = "befriend", ![p].peer = row[r].from]
            BY <1>8, <2>1 DEF Graph!AcceptLock, Graph!LockHolds, Graph!At
        <3>2. r \in Graph!Row /\ row[r].to = req[p].actor /\ row[r].from \in Person \cup {NoUser}
            BY <1>3, <3>1 DEF LocalOK, ConsentInv, GraphTyped, Graph!RowType
        <3>3. /\ l \in Locals /\ l.pc = "befriend" /\ l.actor = req[p].actor
              /\ l.row = r /\ l.peer = row[r].from
            BY <1>3, <3>2 DEF Locals
        <3>4. req' = [req EXCEPT ![p] = l]
            BY <3>1 DEF ConsentInv, GraphTyped, Locals
        <3> HIDE DEF l
        <3>5. LocalOK(l)
            BY <2>1, <3>2, <3>3 DEF LocalOK
        <3> QED BY <1>1, <1>2, <3>1, <3>3, <3>4, <3>5, HandlerStep
    <2>2. CASE row[req[p].row].state # "pending"
        BY <1>1, <1>2, <1>8, <2>2, AnswerStep DEF Graph!AcceptLock
    <2> QED BY <2>1, <2>2
<1>9. CASE Graph!ReadFriendship(p)
    BY <1>1, <1>2, <1>6, <1>9, AnswerStep DEF Graph!ReadFriendship, Graph!At
<1>10. CASE Graph!ReadInbound(p)
    BY <1>6, <1>7, <1>10 DEF Graph!ReadInbound, Graph!At
<1>11. CASE \E a \in Person : \E b \in Person \ {a} : Graph!Follow(p, a, b) \/ Graph!RequestFriend(p, a, b)
    BY <1>4, <1>11 DEF Graph!Follow, Graph!RequestFriend
<1>12. CASE \E u \in Person, r \in Graph!Row : Graph!Accept(p, u, r) \/ Graph!Decline(p, u, r) \/ Graph!Cancel(p, u, r)
    <2> PICK u \in Person, r \in Graph!Row : Graph!Accept(p, u, r) \/ Graph!Decline(p, u, r) \/ Graph!Cancel(p, u, r)
        BY <1>12
    <2>1. CASE Graph!Accept(p, u, r)
        BY <1>1, <1>5, <2>1 DEF Graph!Accept
    <2>2. CASE Graph!Decline(p, u, r)
        BY <1>1, <1>5, <2>2 DEF Graph!Decline
    <2>3. CASE Graph!Cancel(p, u, r)
        BY <1>1, <1>5, <2>3 DEF Graph!Cancel
    <2> QED BY <2>1, <2>2, <2>3
<1> QED BY <1>1, <1>8, <1>9, <1>10, <1>11, <1>12

\* What one statement takes away.
LEMMA PartingSteps ==
    ASSUME ConsentInv, NEW a \in Person, NEW b \in Person,
           Graph!Unfollow(a, b) \/ Graph!Unfriend(a, b) \/ Graph!Unblock(a, b)
    PROVE  ConsentInv' /\ UNCHANGED row /\ friends' \subseteq friends
<1>1. UNCHANGED <<row, req>> /\ follows' \subseteq follows /\ friends' \subseteq friends
    BY DEF Graph!Unfollow, Graph!Unfriend, Graph!Unblock
<1> QED BY <1>1 DEF ConsentInv, GraphTyped, HandlersKnown, LocalOK, LocksExclude, Graph!At,
    RowsKnown,
        AskedOnce, Standing

\* Following, and a block up to its commit: friendships stay or go, and no
\* question changes.
LEMMA GraphSteps ==
    ASSUME ConsentInv, NEW p \in Request,
           \/ \E a \in Person : \E b \in Person \ {a} :
                Graph!Block(p, a, b)
           \/ Graph!FollowInsert(p) \/ Graph!PurgeFollows(p) \/ Graph!PurgeFriendship(p) \/ Graph!Fail(p)
    PROVE  ConsentInv' /\ UNCHANGED row /\ friends' \subseteq friends
<1>1. LocalOK(req[p]) /\ req[p] \in Locals
    BY DEF ConsentInv, HandlersKnown, GraphTyped
<1>2. UNCHANGED row /\ friends' \subseteq friends
    BY DEF Graph!Block, Graph!FollowInsert, Graph!PurgeFollows, Graph!PurgeFriendship, Graph!Fail
<1>3. friends' \subseteq SUBSET Person
    BY <1>2 DEF ConsentInv, GraphTyped
<1>5. ASSUME NEW a \in Person, NEW b \in Person \ {a}, Graph!Block(p, a, b)
      PROVE  ConsentInv'
    <2> DEFINE l == [Graph!Tidy EXCEPT !.pc = "blocked", !.actor = a, !.peer = b]
    <2>1. l \in Locals /\ l.pc = "blocked"
        BY DEF Graph!Tidy, Locals
    <2>2. /\ req' = [q \in Request |->
                 IF q = p THEN l ELSE [req[q] EXCEPT !.late = @ \/ Graph!Between(q) = {a, b}]]
          /\ UNCHANGED follows
        BY <1>5 DEF Graph!Block
    <2> HIDE DEF l
    <2>3. \A q \in Request \ {p} :
            /\ req'[q].pc = req[q].pc /\ req'[q].actor = req[q].actor
            /\ req'[q].peer = req[q].peer /\ req'[q].row = req[q].row
        BY <2>2 DEF ConsentInv, GraphTyped, Locals
    <2>4. \A q \in Request \ {p} : req'[q] \in Locals
        <3> SUFFICES ASSUME NEW q \in Request \ {p}
                     PROVE  [req[q] EXCEPT !.late = @ \/ Graph!Between(q) = {a, b}] \in Locals
            BY <2>2
        <3> DEFINE late == req[q].late \/ Graph!Between(q) = {a, b}
        <3>1. late \in BOOLEAN /\ req[q] \in Locals
            BY DEF ConsentInv, GraphTyped, Locals
        <3> HIDE DEF late
        <3>2. [req[q] EXCEPT !.late = late] \in Locals
            BY <3>1 DEF Locals
        <3> QED BY <3>2 DEF late
    <2>5. req' \in [Request -> Locals] /\ req'[p] = l
        BY <2>1, <2>2, <2>4
    <2>6. HandlersKnown'
        BY <1>2, <2>1, <2>3, <2>5 DEF ConsentInv, HandlersKnown, LocalOK
    <2>7. LocksExclude'
        BY <2>1, <2>3, <2>5 DEF ConsentInv, LocksExclude, Graph!At
    <2> QED BY <1>2, <1>3, <2>2, <2>5, <2>6, <2>7 DEF ConsentInv, GraphTyped, RowsKnown,
        AskedOnce,
            Standing
<1>6. CASE Graph!FollowInsert(p)
    <2>1. req[p].actor \in Person /\ req[p].peer \in Person
        BY <1>1, <1>6 DEF Graph!FollowInsert, Graph!At, LocalOK
    <2>2. follows' \subseteq Person \X Person
        BY <1>6, <2>1 DEF Graph!FollowInsert, ConsentInv, GraphTyped
    <2> QED BY <1>2, <1>3, <1>6, <2>2, AnswerStep DEF Graph!FollowInsert
<1>7. CASE Graph!PurgeFollows(p)
    <2> DEFINE edges == follows \cap Graph!Both(req[p].actor, req[p].peer)
    <2> DEFINE l == [req[p] EXCEPT !.pc = "follows", !.edges = edges]
    <2>1. edges \in SUBSET (Person \X Person)
        BY DEF ConsentInv, GraphTyped
    <2>2. req' = [req EXCEPT ![p].pc = "follows", ![p].edges = edges] /\ UNCHANGED follows
        BY <1>7 DEF Graph!PurgeFollows
    <2> HIDE DEF edges
    <2>3. l \in Locals /\ l.pc = "follows" /\ req' = [req EXCEPT ![p] = l]
        BY <1>1, <2>1, <2>2 DEF Locals, ConsentInv, GraphTyped
    <2> HIDE DEF l
    <2>4. LocalOK(l) /\ follows' \subseteq Person \X Person
        BY <2>2, <2>3 DEF LocalOK, ConsentInv, GraphTyped
    <2> QED BY <1>2, <1>3, <2>3, <2>4, HandlerStep
<1>8. CASE Graph!PurgeFriendship(p)
    <2> DEFINE pair == friends \cap {Graph!Between(p)}
    <2> DEFINE l == [req[p] EXCEPT !.pc = "friendship", !.pair = pair]
    <2>1. pair \in SUBSET SUBSET Person
        BY DEF ConsentInv, GraphTyped
    <2>2. req' = [req EXCEPT ![p].pc = "friendship", ![p].pair = pair] /\ UNCHANGED follows
        BY <1>8 DEF Graph!PurgeFriendship
    <2> HIDE DEF pair
    <2>3. l \in Locals /\ l.pc = "friendship" /\ req' = [req EXCEPT ![p] = l]
        BY <1>1, <2>1, <2>2 DEF Locals, ConsentInv, GraphTyped
    <2> HIDE DEF l
    <2>4. LocalOK(l) /\ follows' \subseteq Person \X Person
        BY <2>2, <2>3 DEF LocalOK, ConsentInv, GraphTyped
    <2> QED BY <1>2, <1>3, <2>3, <2>4, HandlerStep
<1>9. CASE Graph!Fail(p)
    BY <1>2, <1>3, <1>9, AnswerStep DEF Graph!Fail, ConsentInv, GraphTyped
<1> QED BY <1>2, <1>5, <1>6, <1>7, <1>8, <1>9

\* A row that is withdrawn, declined or swept takes its question away.
LEMMA RowsEnd ==
    ASSUME ConsentInv, row' \in [Graph!Row -> Graph!RowType],
           \A r \in Graph!Row : /\ row'[r].from = row[r].from /\ row'[r].to = row[r].to
                                /\ row'[r].state = "pending" => row[r].state = "pending"
    PROVE  RowsKnown' /\ AskedOnce' /\ Asked' \subseteq Asked
<1>1. RowsKnown' /\ AskedOnce'
    BY DEF ConsentInv, RowsKnown, AskedOnce, Standing
<1>2. Asked' \subseteq Asked
    BY DEF Asked
<1> QED BY <1>1, <1>2

\* Declining, cancelling and the sweep of a block only take questions away.
LEMMA CloseEnds ==
    ASSUME ConsentInv, NEW p \in Request, Graph!Close(p) \/ Graph!PurgeCommit(p)
    PROVE  ConsentInv' /\ Asked' \subseteq Asked /\ friends' \subseteq friends
<1>1. /\ Graph!Answer(p) /\ friends' \subseteq friends /\ follows' \subseteq follows
    BY DEF Graph!Close, Graph!PurgeCommit
<1>2. /\ row' \in [Graph!Row -> Graph!RowType]
      /\ \A r \in Graph!Row : /\ row'[r].from = row[r].from /\ row'[r].to = row[r].to
                              /\ row'[r].state \in {row[r].state, "deleted", "declined", "cancelled"}
                              /\ row'[r] # row[r] => ~Graph!RowLocked(r)
    <2>1. CASE Graph!Close(p)
        <3> DEFINE r0 == req[p].row
        <3> DEFINE end == IF row[r0].state = "deleted" \/ Graph!At(p, "cancel")
                          THEN "deleted" ELSE "declined"
        <3>1. end \in {"deleted", "declined"} /\ ~Graph!RowLocked(r0)
            BY <2>1 DEF Graph!Close, Graph!LockHolds
        <3>2. row' = [row EXCEPT ![r0].state = end]
            BY <2>1 DEF Graph!Close
        <3> HIDE DEF end
        <3>3. row' = [r \in Graph!Row |-> IF r = r0 THEN [row[r] EXCEPT !.state = end] ELSE row[r]]
            BY <3>2 DEF ConsentInv, GraphTyped
        <3>4. \A r \in Graph!Row : /\ row[r] \in Graph!RowType /\ [row[r] EXCEPT !.state = end] \in Graph!RowType
                                   /\ [row[r] EXCEPT !.state = end].from = row[r].from
                                   /\ [row[r] EXCEPT !.state = end].to = row[r].to
                                   /\ [row[r] EXCEPT !.state = end].state = end
            BY <3>1 DEF ConsentInv, GraphTyped, Graph!RowType
        <3>5. row' \in [Graph!Row -> Graph!RowType]
            BY <3>3, <3>4
        <3> QED BY <3>1, <3>3, <3>4, <3>5
    <2>2. CASE Graph!PurgeCommit(p)
        BY <2>2 DEF Graph!PurgeCommit, ConsentInv, GraphTyped, Graph!RowType
    <2> QED BY <2>1, <2>2
<1>3. RowsKnown' /\ AskedOnce' /\ Asked' \subseteq Asked
    BY <1>2, RowsEnd
<1>4. \A r \in Graph!Row, q \in Request \ {p} :
          Graph!At(q, "befriend") /\ req[q].row = r => row'[r].state = "pending"
    BY <1>2 DEF Graph!RowLocked, Graph!At, ConsentInv, HandlersKnown, LocalOK
<1>5. \A r \in Graph!Row : row[r].state # "unused" => row'[r].state # "unused"
    BY <1>2
<1>6. follows' \subseteq Person \X Person /\ friends' \subseteq SUBSET Person
    BY <1>1 DEF ConsentInv, GraphTyped
<1> QED BY <1>1, <1>2, <1>3, <1>4, <1>5, <1>6, RowStep

-----------------------------------------------------------------------------
(* The two steps that do more than take away. *)

\* A request is inserted in an unused row, and only while none like it stands.
LEMMA InsertAsks ==
    ASSUME Graph!SoundConstants, ConsentInv, NEW p \in Request, Graph!RequestInsert(p)
    PROVE  /\ ConsentInv' /\ UNCHANGED friends
           /\ \/ UNCHANGED Asked
              \/ \E a \in Person : \E b \in Person \ {a} :
                   <<a, b>> \notin Asked /\ Asked' = Asked \cup {<<a, b>>}
<1> DEFINE a == req[p].actor
<1> DEFINE b == req[p].peer
<1>1. a \in Person /\ b \in Person /\ a # b
    BY DEF Graph!RequestInsert, Graph!At, ConsentInv, HandlersKnown, LocalOK
<1>2. Graph!Answer(p) /\ UNCHANGED <<follows, friends>>
    BY DEF Graph!RequestInsert
<1>3. follows' \subseteq Person \X Person /\ friends' \subseteq SUBSET Person
    BY <1>2 DEF ConsentInv, GraphTyped
<1>4. CASE ~Graph!MayAsk(a, b)
    <2>1. UNCHANGED row
        BY <1>4 DEF Graph!RequestInsert
    <2> QED BY <1>2, <1>3, <2>1, AnswerStep DEF Asked
<1>5. CASE Graph!MayAsk(a, b)
    <2>1. PICK r \in Graph!Row : /\ row[r].state = "unused"
                                 /\ row' = [row EXCEPT ![r] = [from |-> a, to |-> b, state |-> "pending"]]
        BY <1>5 DEF Graph!RequestInsert
    <2>2. /\ row' \in [Graph!Row -> Graph!RowType] /\ \A s \in Graph!Row \ {r} : row'[s] = row[s]
          /\ row'[r].from = a /\ row'[r].to = b /\ row'[r].state = "pending"
        BY <1>1, <2>1 DEF ConsentInv, GraphTyped, Graph!RowType
    <2>3. \A s \in Graph!Row : Standing(s) => row[s].from # a \/ row[s].to # b
        BY <1>5 DEF Graph!MayAsk, Graph!Pending, Standing
    <2>4. RowsKnown' /\ AskedOnce'
        BY <1>1, <2>2, <2>3 DEF ConsentInv, RowsKnown, AskedOnce, Standing
    <2>5. \A s \in Graph!Row, q \in Request \ {p} :
              Graph!At(q, "befriend") /\ req[q].row = s => row'[s].state = "pending"
        BY <2>1, <2>2 DEF Graph!At, ConsentInv, HandlersKnown, LocalOK
    <2>6. \A s \in Graph!Row : row[s].state # "unused" =>
              /\ row'[s].from = row[s].from /\ row'[s].to = row[s].to
              /\ row'[s].state # "unused"
        BY <2>1, <2>2
    <2>7. ConsentInv'
        BY <1>2, <1>3, <2>2, <2>4, <2>5, <2>6, RowStep
    <2>8. <<a, b>> \notin Asked
        BY <2>3 DEF Asked, Standing
    <2>9. Asked' = Asked \cup {<<a, b>>}
        BY <2>1, <2>2 DEF Asked
    <2> QED BY <1>1, <1>2, <2>7, <2>8, <2>9
<1> QED BY <1>4, <1>5

\* An acceptance deletes the question it holds and makes its two users friends.
LEMMA CommitAgrees ==
    ASSUME ConsentInv, NEW p \in Request, Graph!AcceptCommit(p)
    PROVE  /\ ConsentInv'
           /\ \E a \in Person : \E b \in Person \ {a} :
                /\ <<a, b>> \in Asked /\ Asked' = Asked \ {<<a, b>>}
                /\ friends' = friends \cup {{a, b}}
<1> DEFINE a == req[p].peer
<1> DEFINE b == req[p].actor
<1> DEFINE r == req[p].row
<1>1. r \in Graph!Row /\ row[r].state = "pending" /\ row[r].from = a /\ row[r].to = b
    BY DEF Graph!AcceptCommit, Graph!At, ConsentInv, HandlersKnown, LocalOK
<1>2. a \in Person /\ b \in Person /\ a # b
    BY <1>1 DEF ConsentInv, RowsKnown, Standing
<1>3. /\ Graph!Answer(p) /\ friends' = friends \cup {{a, b}} /\ follows' = follows \cup Graph!Both(a, b)
      /\ row' = [row EXCEPT ![r].state = "deleted"]
    BY DEF Graph!AcceptCommit
<1>4. follows' \subseteq Person \X Person /\ friends' \subseteq SUBSET Person
    BY <1>2, <1>3 DEF ConsentInv, GraphTyped, Graph!Both
<1>5. /\ row' \in [Graph!Row -> Graph!RowType] /\ \A s \in Graph!Row \ {r} : row'[s] = row[s]
      /\ row'[r].from = a /\ row'[r].to = b /\ row'[r].state = "deleted"
    BY <1>1, <1>3 DEF ConsentInv, GraphTyped, Graph!RowType
<1>6. RowsKnown' /\ AskedOnce'
    BY <1>1, <1>5, RowsEnd
<1>7. \A s \in Graph!Row, q \in Request \ {p} :
          Graph!At(q, "befriend") /\ req[q].row = s => row'[s].state = "pending"
    BY <1>5 DEF Graph!AcceptCommit, Graph!At, ConsentInv, LocksExclude, HandlersKnown, LocalOK
<1>8. ConsentInv'
    BY <1>1, <1>3, <1>4, <1>5, <1>6, <1>7, RowStep
<1>9. <<a, b>> \in Asked
    BY <1>1 DEF Asked
<1>10. \A s \in Graph!Row \ {r} : row[s].state = "pending" => <<row[s].from, row[s].to>> # <<a, b>>
    BY <1>1 DEF ConsentInv, AskedOnce, Standing
<1>11. Asked' = Asked \ {<<a, b>>}
    BY <1>1, <1>5, <1>10 DEF Asked
<1> QED BY <1>2, <1>3, <1>8, <1>9, <1>11

-----------------------------------------------------------------------------

\* Every step keeps the invariant and is a step of Consent or none.
LEMMA StepKeepsPromise ==
    ASSUME Graph!SoundConstants, ConsentInv, [Graph!Next]_Graph!vars
    PROVE  ConsentInv' /\ [Graph!Promise!Next]_<<Asked, friends>>
<1>1. ASSUME ConsentInv', Asked' \subseteq Asked, friends' \subseteq friends
      PROVE  ConsentInv' /\ [Graph!Promise!Next]_<<Asked, friends>>
    BY <1>1 DEF Graph!Promise!Next, Graph!Promise!End, Asked
<1>2. UNCHANGED row => UNCHANGED Asked
    BY DEF Asked
<1>3. ASSUME NEW p \in Request, Graph!RequestInsert(p)
      PROVE  ConsentInv' /\ [Graph!Promise!Next]_<<Asked, friends>>
    BY <1>3, InsertAsks DEF Graph!Promise!Next, Graph!Promise!Ask, Asked
<1>4. ASSUME NEW p \in Request, Graph!AcceptCommit(p)
      PROVE  ConsentInv' /\ [Graph!Promise!Next]_<<Asked, friends>>
    BY <1>4, CommitAgrees DEF Graph!Promise!Next, Graph!Promise!Agree, Asked
<1>5. ASSUME NEW p \in Request, Graph!Close(p) \/ Graph!PurgeCommit(p)
      PROVE  ConsentInv' /\ [Graph!Promise!Next]_<<Asked, friends>>
    BY <1>1, <1>5, CloseEnds
<1>6. CASE UNCHANGED Graph!vars
    BY <1>1, <1>2, <1>6 DEF Graph!vars, ConsentInv, GraphTyped, HandlersKnown, LocalOK,
        LocksExclude, Graph!At,
        RowsKnown, AskedOnce, Standing
<1>7. ASSUME NEW p \in Request,
             \/ \E a \in Person : \E b \in Person \ {a} : Graph!Follow(p, a, b) \/ Graph!RequestFriend(p, a, b)
             \/ \E u \in Person, r \in Graph!Row : Graph!Accept(p, u, r) \/ Graph!Decline(p, u, r) \/ Graph!Cancel(p, u, r)
             \/ Graph!ReadFriendship(p) \/ Graph!ReadInbound(p) \/ Graph!AcceptLock(p)
      PROVE  ConsentInv' /\ [Graph!Promise!Next]_<<Asked, friends>>
    BY <1>1, <1>2, <1>7, BeginsOrReads
<1>8. ASSUME NEW p \in Request,
             \/ \E a \in Person : \E b \in Person \ {a} : Graph!Block(p, a, b)
             \/ Graph!FollowInsert(p) \/ Graph!PurgeFollows(p) \/ Graph!PurgeFriendship(p) \/ Graph!Fail(p)
      PROVE  ConsentInv' /\ [Graph!Promise!Next]_<<Asked, friends>>
    BY <1>1, <1>2, <1>8, GraphSteps
<1>9. ASSUME NEW a \in Person, NEW b \in Person,
             Graph!Unfollow(a, b) \/ Graph!Unfriend(a, b) \/ Graph!Unblock(a, b)
      PROVE  ConsentInv' /\ [Graph!Promise!Next]_<<Asked, friends>>
    BY <1>1, <1>2, <1>9, PartingSteps
<1>10. CASE Graph!Next
    <2>1. ASSUME NEW p \in Request, NEW a \in Person, NEW b \in Person \ {a},
                 Graph!Follow(p, a, b) \/ Graph!RequestFriend(p, a, b) \/ Graph!Block(p, a, b)
          PROVE  ConsentInv' /\ [Graph!Promise!Next]_<<Asked, friends>>
        BY <1>7, <1>8, <2>1
    <2> QED BY <1>3, <1>4, <1>5, <1>7, <1>8, <1>9, <1>10, <2>1 DEF Graph!Next
<1> QED BY <1>6, <1>10

\* The friends service implements Consent: a friendship comes from a question
\* that stands when it is agreed to, and a question that was withdrawn,
\* declined, answered or swept by a block befriends nobody, however the
\* handlers of the two users overlap or fail.
THEOREM FriendshipsKeepConsent == ASSUME Graph!SoundConstants PROVE Graph!Spec => Graph!KeepsConsent
<1>1. Graph!Init => Graph!Promise!Init
    BY DEF Graph!Init, Graph!Promise!Init
<1>2. Graph!Spec => []ConsentInv
    BY InitConsent, StepKeepsPromise, PTL DEF Graph!Spec
<1>3. ConsentInv /\ [Graph!Next]_Graph!vars => [Graph!Promise!Next]_<<Asked, friends>>
    BY StepKeepsPromise
<1> QED BY <1>1, <1>2, <1>3, PTL DEF Graph!Spec, Graph!KeepsConsent, Graph!Promise!Spec, Asked

-----------------------------------------------------------------------------
(* What a block leaves *)

\* Handlers that block know two users, and what an open transaction has deleted
\* is follows and friendships.
Related ==
    /\ blocked \subseteq Graph!Edge /\ follows \subseteq Graph!Edge
    /\ friends \subseteq Graph!Pair /\ loose \subseteq Graph!Pair
    /\ \A p \in Request :
         /\ req[p].edges \subseteq Graph!Edge /\ req[p].pair \subseteq Graph!Pair
         /\ req[p].pc \in {"blocked", "follows", "friendship"} =>
              req[p].actor \in Person /\ req[p].peer \in Person /\ req[p].actor # req[p].peer

\* A handler that read the blocks before one of its pair is late.
LateKnown ==
    \A p \in Request : /\ req[p].pc \in {"follow", "known", "inbound", "insert"}
                       /\ Graph!IsBlocked(req[p].actor, req[p].peer)
                       => req[p].late

\* A purge of a and b that has read the follows and not committed.
Purging(p, a, b) == /\ req[p].pc \in {"follows", "friendship"}
                    /\ {req[p].actor, req[p].peer} = {a, b}

\* What is left from a to b is in the hands of such a purge.
Swept(a, b) ==
    /\ <<a, b>> \in follows =>
         \E p \in Request : Purging(p, a, b) /\ <<a, b>> \in req[p].edges
    /\ {a, b} \in friends =>
         \E p \in Request : /\ Purging(p, a, b)
                            /\ req[p].pc = "follows" \/ {a, b} \in req[p].pair
    /\ Graph!Pending(a, b) # {} => \E p \in Request : Purging(p, a, b)

BlocksSweep ==
    \A a, b \in Person : a # b /\ Graph!IsBlocked(a, b) => {a, b} \in loose \/ Swept(a, b)

ClearInv == Related /\ LateKnown /\ BlocksSweep

\* Two users make a pair.
LEMMA TwoArePair ==
    ASSUME NEW a \in Person, NEW b \in Person, a # b
    PROVE  {a, b} \in Graph!Pair
<1>1. IsFiniteSet({a}) /\ Cardinality({a}) = 1
    BY FS_Singleton
<1>2. Cardinality({a} \cup {b}) = 2
    BY <1>1, FS_AddElement
<1>3. Graph!Cardinality({a, b}) = Cardinality({a, b})
    BY DEF Graph!Cardinality, Cardinality
<1> QED BY <1>2, <1>3 DEF Graph!Pair

\* There is nothing at first.
LEMMA InitClear == Graph!Init => ClearInv
BY DEF Graph!Init, ClearInv, Related, LateKnown, BlocksSweep, Graph!IsBlocked, Graph!Both,
    Graph!Tidy, Graph!Edge, Graph!Pair

\* The purges under way still hold what they held while they go on and nothing
\* is added between their two users.
LEMMA SweptStays ==
    ASSUME NEW a \in Person, NEW b \in Person, Swept(a, b),
           \A q \in Request : Purging(q, a, b) =>
               /\ req'[q].pc = req[q].pc /\ req'[q].actor = req[q].actor
               /\ req'[q].peer = req[q].peer
               /\ req'[q].edges = req[q].edges /\ req'[q].pair = req[q].pair,
           <<a, b>> \in follows' => <<a, b>> \in follows,
           {a, b} \in friends' => {a, b} \in friends,
           Graph!Pending(a, b)' \subseteq Graph!Pending(a, b)
    PROVE  Swept(a, b)'
BY DEF Swept, Purging

\* A handler moves and no block is added: what it knows is enough for the types
\* and for who is late.
LEMMA HandlerKeeps ==
    ASSUME ClearInv, ConsentInv', NEW p \in Request,
           \A q \in Request \ {p} : req'[q] = req[q],
           blocked' \subseteq blocked, follows' \subseteq Graph!Edge, friends' \subseteq Graph!Pair,
           loose' \subseteq Graph!Pair,
           req'[p].edges \subseteq Graph!Edge, req'[p].pair \subseteq Graph!Pair,
           req'[p].pc \in {"blocked", "follows", "friendship"} =>
               /\ req'[p].actor \in Person /\ req'[p].peer \in Person
               /\ req'[p].actor # req'[p].peer,
           /\ req'[p].pc \in {"follow", "known", "inbound", "insert"}
           /\ blocked \cap Graph!Both(req'[p].actor, req'[p].peer) # {}
           => req'[p].late
    PROVE  Related' /\ LateKnown'
<1>1. blocked' \subseteq Graph!Edge
    BY DEF ClearInv, Related
<1>2. Related'
    BY <1>1 DEF ClearInv, Related
<1>3. LateKnown'
    <2> SUFFICES ASSUME NEW q \in Request,
                        req'[q].pc \in {"follow", "known", "inbound", "insert"},
                        Graph!IsBlocked(req[q].actor, req[q].peer)'
                 PROVE  req'[q].late
        BY DEF LateKnown
    <2>1. blocked \cap Graph!Both(req'[q].actor, req'[q].peer) # {}
        BY DEF Graph!IsBlocked, Graph!Both
    <2> QED BY <2>1 DEF ClearInv, LateKnown, Graph!IsBlocked
<1> QED BY <1>2, <1>3

\* A handler that was in no purge moves, no block is added and no pair becomes
\* settled: what it adds, it adds to a pair that is loose or not blocked.
LEMMA SweepKeeps ==
    ASSUME ClearInv, NEW p \in Request,
           \A q \in Request \ {p} : req'[q] = req[q],
           req[p].pc \notin {"follows", "friendship"},
           blocked' \subseteq blocked, loose \subseteq loose',
           \A a, b \in Person : a # b /\ Graph!IsBlocked(a, b) /\ {a, b} \notin loose' =>
               /\ <<a, b>> \in follows' => <<a, b>> \in follows
               /\ {a, b} \in friends' => {a, b} \in friends
               /\ \A r \in Graph!Row : /\ row'[r].from = a /\ row'[r].to = b
                                       /\ row'[r].state = "pending"
                                 => r \in Graph!Pending(a, b)
    PROVE  BlocksSweep'
<1> SUFFICES ASSUME NEW a \in Person, NEW b \in Person, a # b, Graph!IsBlocked(a, b)',
                    {a, b} \notin loose'
             PROVE  Swept(a, b)'
    BY DEF BlocksSweep
<1>1. Graph!IsBlocked(a, b) /\ {a, b} \notin loose
    BY DEF Graph!IsBlocked, Graph!Both
<1>2. Swept(a, b)
    BY <1>1 DEF ClearInv, BlocksSweep
<1>3. \A q \in Request : Purging(q, a, b) => req'[q] = req[q]
    BY DEF Purging
<1>4. Graph!Pending(a, b)' \subseteq Graph!Pending(a, b)
    BY <1>1 DEF Graph!Pending
<1> QED BY <1>1, <1>2, <1>3, <1>4, SweptStays

\* Asking and answering begin, and the handlers read.
LEMMA ReadsClear ==
    ASSUME ConsentInv, ConsentInv', ClearInv, NEW p \in Request,
           \/ \E a \in Person : \E b \in Person \ {a} : Graph!Follow(p, a, b) \/ Graph!RequestFriend(p, a, b)
           \/ \E u \in Person, r \in Graph!Row : Graph!Accept(p, u, r) \/ Graph!Decline(p, u, r) \/ Graph!Cancel(p, u, r)
           \/ Graph!ReadFriendship(p) \/ Graph!ReadInbound(p) \/ Graph!AcceptLock(p)
    PROVE  ClearInv'
<1>1. UNCHANGED <<blocked, follows, friends, row, loose>>
    BY DEF Graph!Follow, Graph!RequestFriend, Graph!Accept, Graph!Decline, Graph!Cancel,
        Graph!Respond, Graph!ReadFriendship,
        Graph!ReadInbound, Graph!AcceptLock
<1>2. req \in [Request -> Locals] /\ req[p] \in Locals
    BY DEF ConsentInv, GraphTyped
<1>3. /\ \A q \in Request \ {p} : req'[q] = req[q]
      /\ req[p].pc \in {"idle", "known", "inbound", "accept"}
    BY <1>2 DEF Graph!Follow, Graph!RequestFriend, Graph!Start, Graph!Accept, Graph!Decline,
        Graph!Cancel, Graph!Respond, Graph!ReadFriendship,
        Graph!ReadInbound, Graph!AcceptLock, Graph!Go, Graph!Answer, Graph!Idle, Graph!At
<1>4. /\ req'[p].edges \in {{}, req[p].edges} /\ req'[p].pair \in {{}, req[p].pair}
      /\ req'[p].pc \notin {"blocked", "follows", "friendship"}
    <2>1. CASE \E a \in Person : \E b \in Person \ {a} : Graph!Follow(p, a, b) \/ Graph!RequestFriend(p, a, b)
        <3> PICK a \in Person, b \in Person : Graph!Follow(p, a, b) \/ Graph!RequestFriend(p, a, b)
            BY <2>1
        <3> QED BY <1>2 DEF Graph!Follow, Graph!RequestFriend, Graph!Start, Graph!Tidy
    <2>2. CASE \E u \in Person, r \in Graph!Row :
                   Graph!Accept(p, u, r) \/ Graph!Decline(p, u, r) \/ Graph!Cancel(p, u, r)
        <3> PICK u \in Person, r \in Graph!Row : Graph!Accept(p, u, r) \/ Graph!Decline(p, u, r) \/ Graph!Cancel(p, u, r)
            BY <2>2
        <3> QED BY <1>2 DEF Graph!Accept, Graph!Decline, Graph!Cancel, Graph!Respond, Graph!Tidy
    <2>3. CASE Graph!ReadFriendship(p)
        BY <1>2, <2>3 DEF Graph!ReadFriendship, Graph!Go, Graph!Answer, Graph!Tidy, Locals
    <2>4. CASE Graph!ReadInbound(p)
        BY <1>2, <2>4 DEF Graph!ReadInbound, Graph!Go, Locals
    <2>5. CASE Graph!AcceptLock(p)
        BY <1>2, <2>5 DEF Graph!AcceptLock, Graph!Answer, Graph!Tidy, Locals
    <2> QED BY <2>1, <2>2, <2>3, <2>4, <2>5
<1>5. /\ req'[p].pc \in {"follow", "known", "inbound", "insert"}
      /\ blocked \cap Graph!Both(req'[p].actor, req'[p].peer) # {}
      => req'[p].late
    <2>1. CASE \E a \in Person : \E b \in Person \ {a} : Graph!Follow(p, a, b) \/ Graph!RequestFriend(p, a, b)
        <3> PICK a \in Person, b \in Person : Graph!Follow(p, a, b) \/ Graph!RequestFriend(p, a, b)
            BY <2>1
        <3>1. ~Graph!IsBlocked(a, b) /\ req'[p].actor = a /\ req'[p].peer = b
            BY <1>2 DEF Graph!Follow, Graph!RequestFriend, Graph!Start, Graph!Tidy
        <3> QED BY <3>1 DEF Graph!IsBlocked
    <2>2. CASE \E u \in Person, r \in Graph!Row :
                   Graph!Accept(p, u, r) \/ Graph!Decline(p, u, r) \/ Graph!Cancel(p, u, r)
        <3> PICK u \in Person, r \in Graph!Row : Graph!Accept(p, u, r) \/ Graph!Decline(p, u, r) \/ Graph!Cancel(p, u, r)
            BY <2>2
        <3>1. req'[p].pc \in {"accept", "decline", "cancel"}
            BY <1>2 DEF Graph!Accept, Graph!Decline, Graph!Cancel, Graph!Respond, Graph!Tidy
        <3> QED BY <3>1
    <2>3. CASE Graph!ReadFriendship(p) \/ Graph!ReadInbound(p) \/ Graph!AcceptLock(p)
        <3>1. req'[p].pc \in {"follow", "known", "inbound", "insert"} =>
                /\ req[p].pc \in {"known", "inbound"} /\ req'[p].late = req[p].late
                /\ req'[p].actor = req[p].actor /\ req'[p].peer = req[p].peer
            BY <1>2, <2>3 DEF Graph!ReadFriendship, Graph!ReadInbound, Graph!AcceptLock,
                Graph!Go, Graph!Answer, Graph!At, Graph!Tidy, Locals
        <3> QED BY <3>1 DEF ClearInv, LateKnown, Graph!IsBlocked
    <2> QED BY <2>1, <2>2, <2>3
<1>6. Related' /\ LateKnown'
    BY <1>1, <1>3, <1>4, <1>5, HandlerKeeps DEF ClearInv, Related
<1>7. BlocksSweep'
    BY <1>1, <1>3, SweepKeeps DEF Graph!Pending
<1> QED BY <1>6, <1>7 DEF ClearInv

\* The handlers that answer with a write.
LEMMA WritesClear ==
    ASSUME ConsentInv, ConsentInv', ClearInv, NEW p \in Request,
           Graph!FollowInsert(p) \/ Graph!RequestInsert(p) \/ Graph!AcceptCommit(p) \/ Graph!Close(p)
    PROVE  ClearInv'
<1> DEFINE a0 == req[p].actor
<1> DEFINE b0 == req[p].peer
<1>1. req \in [Request -> Locals] /\ req[p] \in Locals /\ row \in [Graph!Row -> Graph!RowType]
    BY DEF ConsentInv, GraphTyped
<1>2. /\ Graph!Answer(p) /\ UNCHANGED blocked
      /\ req[p].pc \in {"follow", "insert", "befriend", "decline", "cancel"}
    BY DEF Graph!FollowInsert, Graph!RequestInsert, Graph!AcceptCommit, Graph!Close, Graph!At
<1>3. /\ \A q \in Request \ {p} : req'[q] = req[q]
      /\ req'[p].edges = {} /\ req'[p].pair = {} /\ req'[p].pc = "idle"
    BY <1>1, <1>2 DEF Graph!Answer, Graph!Tidy
<1>4. req[p].pc \in {"follow", "insert", "befriend"} => a0 \in Person /\ b0 \in Person /\ a0 # b0
    BY DEF ConsentInv, HandlersKnown, LocalOK, RowsKnown, Standing
<1>5. req[p].pc \in {"follow", "insert", "befriend"} => {a0, b0} \in Graph!Pair
    BY <1>4, TwoArePair
<1>6. CASE Graph!Close(p)
    <2>1. UNCHANGED <<follows, friends, loose>>
        BY <1>6 DEF Graph!Close
    <2>2. Related' /\ LateKnown'
        BY <1>2, <1>3, <2>1, HandlerKeeps DEF ClearInv, Related
    <2>3. \A r \in Graph!Row : /\ row'[r].from = row[r].from /\ row'[r].to = row[r].to
                               /\ row'[r].state = "pending" => row[r].state = "pending"
        <3> DEFINE r0 == req[p].row
        <3> DEFINE end == IF row[r0].state = "deleted" \/ Graph!At(p, "cancel")
                          THEN "deleted" ELSE "declined"
        <3>1. row' = [row EXCEPT ![r0].state = end] /\ end # "pending"
            BY <1>6 DEF Graph!Close
        <3> HIDE DEF end
        <3> QED BY <1>1, <3>1 DEF Graph!RowType
    <2>4. BlocksSweep'
        BY <1>2, <1>3, <2>1, <2>3, SweepKeeps DEF Graph!Pending
    <2> QED BY <2>2, <2>4 DEF ClearInv
<1>7. CASE ~Graph!Close(p)
    <2>1. a0 \in Person /\ b0 \in Person /\ a0 # b0
        BY <1>7 DEF Graph!FollowInsert, Graph!RequestInsert, Graph!AcceptCommit, Graph!At,
            ConsentInv, HandlersKnown,
            LocalOK, RowsKnown, Standing
    <2>2. {a0, b0} \in Graph!Pair
        BY <2>1, TwoArePair
    <2>3. loose' \in {loose, loose \cup {{a0, b0}}}
        BY <1>7 DEF Graph!FollowInsert, Graph!RequestInsert, Graph!AcceptCommit, Graph!Mark
    <2>4. Graph!IsBlocked(a0, b0) => {a0, b0} \in loose' \/ UNCHANGED <<follows, friends, row>>
        <3>1. CASE Graph!FollowInsert(p)
            BY <3>1 DEF Graph!FollowInsert, Graph!Mark, Graph!At, ClearInv, LateKnown
        <3>2. CASE Graph!RequestInsert(p) /\ Graph!MayAsk(a0, b0)
            BY <3>2 DEF Graph!RequestInsert, Graph!Mark, Graph!At, ClearInv, LateKnown
        <3>3. CASE Graph!AcceptCommit(p)
            BY <3>3 DEF Graph!AcceptCommit, Graph!Mark, Graph!IsBlocked, Graph!Both
        <3>4. CASE Graph!RequestInsert(p) /\ ~Graph!MayAsk(a0, b0)
            BY <3>4 DEF Graph!RequestInsert
        <3> QED BY <1>7, <3>1, <3>2, <3>3, <3>4
    <2>5. follows' \subseteq follows \cup Graph!Both(a0, b0) /\ friends' \subseteq friends \cup {{a0, b0}}
        BY <1>7 DEF Graph!FollowInsert, Graph!RequestInsert, Graph!AcceptCommit, Graph!Both
    <2>6. Related' /\ LateKnown'
        <3>1. follows' \subseteq Graph!Edge /\ friends' \subseteq Graph!Pair /\ loose' \subseteq Graph!Pair
            <4>1. Graph!Both(a0, b0) \subseteq Graph!Edge
                BY <2>1 DEF Graph!Both, Graph!Edge
            <4> QED BY <2>2, <2>3, <2>5, <4>1 DEF ClearInv, Related
        <3> QED BY <1>2, <1>3, <3>1, HandlerKeeps
    <2>7. \A r \in Graph!Row : row'[r].state = "pending" =>
              row'[r] = row[r] \/ (row'[r].from = a0 /\ row'[r].to = b0)
        BY <1>1, <1>7 DEF Graph!FollowInsert, Graph!RequestInsert, Graph!AcceptCommit,
            Graph!RowType
    <2>8. ASSUME NEW a \in Person, NEW b \in Person, a # b, Graph!IsBlocked(a, b), {a, b} \notin loose'
          PROVE  /\ <<a, b>> \in follows' => <<a, b>> \in follows
                 /\ {a, b} \in friends' => {a, b} \in friends
                 /\ \A r \in Graph!Row : /\ row'[r].from = a /\ row'[r].to = b
                                         /\ row'[r].state = "pending"
                                   => r \in Graph!Pending(a, b)
        <3>1. CASE UNCHANGED <<follows, friends, row>>
            BY <3>1 DEF Graph!Pending
        <3>2. CASE {a, b} # {a0, b0}
            BY <2>5, <2>7, <3>2 DEF Graph!Both, Graph!Pending
        <3> QED BY <2>4, <2>8, <3>1, <3>2 DEF Graph!IsBlocked, Graph!Both
    <2>9. BlocksSweep'
        BY <1>2, <1>3, <2>3, <2>8, SweepKeeps
    <2> QED BY <2>6, <2>9 DEF ClearInv
<1> QED BY <1>6, <1>7

\* What one statement takes away.
LEMMA PartingsClear ==
    ASSUME ConsentInv, ClearInv, NEW a0 \in Person, NEW b0 \in Person,
           Graph!Unfollow(a0, b0) \/ Graph!Unfriend(a0, b0) \/ Graph!Unblock(a0, b0)
    PROVE  ClearInv'
<1>1. /\ UNCHANGED <<row, req, loose>>
      /\ follows' \subseteq follows /\ friends' \subseteq friends /\ blocked' \subseteq blocked
    BY DEF Graph!Unfollow, Graph!Unfriend, Graph!Unblock
<1>2. Related' /\ LateKnown'
    BY <1>1 DEF ClearInv, Related, LateKnown, Graph!IsBlocked, Graph!Both
<1>3. ASSUME NEW a \in Person, NEW b \in Person, a # b, Graph!IsBlocked(a, b)', {a, b} \notin loose'
      PROVE  Swept(a, b)'
    <2>1. Graph!IsBlocked(a, b) /\ {a, b} \notin loose
        BY <1>1, <1>3 DEF Graph!IsBlocked, Graph!Both
    <2>2. Swept(a, b) /\ Graph!Pending(a, b)' = Graph!Pending(a, b)
        BY <1>1, <1>3, <2>1 DEF ClearInv, BlocksSweep, Graph!Pending
    <2> QED BY <1>1, <2>2, SweptStays
<1> QED BY <1>2, <1>3 DEF ClearInv, BlocksSweep

\* A block leaves its pair loose until it has read the follows.
LEMMA BlockKeepsClear ==
    ASSUME ConsentInv, ClearInv, NEW p \in Request, NEW a0 \in Person, NEW b0 \in Person \ {a0},
           Graph!Block(p, a0, b0)
    PROVE  ClearInv'
<1>1. /\ blocked' = blocked \cup {<<a0, b0>>} /\ loose' = loose \cup {{a0, b0}}
      /\ UNCHANGED <<follows, friends, row>> /\ req[p].pc = "idle"
    BY DEF Graph!Block, Graph!RowInserted, Graph!InsertsRowAt, Graph!Idle
<1>2. /\ req'[p].pc = "blocked" /\ req'[p].actor = a0 /\ req'[p].peer = b0
      /\ req'[p].edges = {} /\ req'[p].pair = {}
    BY DEF Graph!Block, Graph!Tidy
<1>3. \A q \in Request \ {p} :
        /\ req'[q].pc = req[q].pc /\ req'[q].actor = req[q].actor /\ req'[q].peer = req[q].peer
        /\ req'[q].edges = req[q].edges /\ req'[q].pair = req[q].pair
        /\ req'[q].late = (req[q].late \/ {req[q].actor, req[q].peer} = {a0, b0})
    BY DEF Graph!Block, ConsentInv, GraphTyped, Locals, Graph!Between
<1>4. Related'
    <2>1. {a0, b0} \in Graph!Pair /\ <<a0, b0>> \in Graph!Edge
        BY TwoArePair DEF Graph!Edge
    <2> QED BY <1>1, <1>2, <1>3, <2>1 DEF ClearInv, Related
<1>5. LateKnown'
    <2> SUFFICES ASSUME NEW q \in Request,
                        req'[q].pc \in {"follow", "known", "inbound", "insert"},
                        Graph!IsBlocked(req[q].actor, req[q].peer)'
                 PROVE  req'[q].late
        BY DEF LateKnown
    <2>1. q # p /\ req[q].pc \in {"follow", "known", "inbound", "insert"}
        BY <1>2, <1>3
    <2>2. \/ Graph!IsBlocked(req[q].actor, req[q].peer)
          \/ {req[q].actor, req[q].peer} = {a0, b0}
        BY <1>1, <1>3, <2>1 DEF Graph!IsBlocked, Graph!Both
    <2> QED BY <1>3, <2>1, <2>2 DEF ClearInv, LateKnown
<1>6. ASSUME NEW a \in Person, NEW b \in Person, a # b, Graph!IsBlocked(a, b)', {a, b} \notin loose'
      PROVE  Swept(a, b)'
    <2>1. {a, b} # {a0, b0}
        BY <1>1, <1>6
    <2>2. Graph!IsBlocked(a, b) /\ {a, b} \notin loose
        BY <1>1, <1>6, <2>1 DEF Graph!IsBlocked, Graph!Both
    <2>3. Swept(a, b) /\ Graph!Pending(a, b)' = Graph!Pending(a, b)
        BY <1>1, <1>6, <2>2 DEF ClearInv, BlocksSweep, Graph!Pending
    <2>4. \A q \in Request : Purging(q, a, b) =>
              /\ req'[q].pc = req[q].pc /\ req'[q].actor = req[q].actor
              /\ req'[q].peer = req[q].peer
              /\ req'[q].edges = req[q].edges /\ req'[q].pair = req[q].pair
        BY <1>1, <1>3 DEF Purging
    <2> QED BY <1>1, <1>3, <2>3, <2>4, SweptStays
<1> QED BY <1>4, <1>5, <1>6 DEF ClearInv, BlocksSweep

\* Reading the follows settles the pair: what it deletes is all there is.
LEMMA PurgeFollowsClear ==
    ASSUME ConsentInv, ConsentInv', ClearInv, NEW p \in Request, Graph!PurgeFollows(p)
    PROVE  ClearInv'
<1> DEFINE a0 == req[p].actor
<1> DEFINE b0 == req[p].peer
<1>1. req \in [Request -> Locals] /\ req[p] \in Locals /\ req[p].pc = "blocked"
    BY DEF ConsentInv, GraphTyped, Graph!PurgeFollows, Graph!At
<1>2. a0 \in Person /\ b0 \in Person /\ a0 # b0
    BY <1>1 DEF ClearInv, Related
<1>3. /\ UNCHANGED <<blocked, follows, friends, row>>
      /\ loose' = loose \ {{a0, b0}}
      /\ \A q \in Request \ {p} : req'[q] = req[q]
    BY <1>1 DEF Graph!PurgeFollows, Graph!Between
<1>4. /\ req'[p].pc = "follows" /\ req'[p].actor = a0 /\ req'[p].peer = b0
      /\ req'[p].edges = follows \cap Graph!Both(a0, b0) /\ req'[p].pair = req[p].pair
    BY <1>1 DEF Graph!PurgeFollows, Locals
<1>5. Related' /\ LateKnown'
    BY <1>2, <1>3, <1>4, HandlerKeeps DEF ClearInv, Related
<1>6. ASSUME NEW a \in Person, NEW b \in Person, a # b, Graph!IsBlocked(a, b)', {a, b} \notin loose'
      PROVE  Swept(a, b)'
    <2>1. Graph!IsBlocked(a, b)
        BY <1>3, <1>6 DEF Graph!IsBlocked, Graph!Both
    <2>2. CASE {a, b} = {a0, b0}
        <3>1. Purging(p, a, b)'
            BY <1>4, <2>2 DEF Purging
        <3>2. <<a, b>> \in follows' => <<a, b>> \in req'[p].edges
            BY <1>3, <1>4, <2>2 DEF Graph!Both
        <3> QED BY <1>4, <3>1, <3>2 DEF Swept, Purging
    <2>3. CASE {a, b} # {a0, b0}
        <3>1. Swept(a, b) /\ Graph!Pending(a, b)' = Graph!Pending(a, b)
            BY <1>3, <1>6, <2>1, <2>3 DEF ClearInv, BlocksSweep, Graph!Pending
        <3>2. \A q \in Request : Purging(q, a, b) => req'[q] = req[q]
            BY <1>3, <2>3 DEF Purging
        <3> QED BY <1>3, <3>1, <3>2, SweptStays
    <2> QED BY <2>2, <2>3
<1> QED BY <1>5, <1>6 DEF ClearInv, BlocksSweep

\* The friendship is in its hands once it has been deleted.
LEMMA PurgeFriendshipClear ==
    ASSUME ConsentInv, ConsentInv', ClearInv, NEW p \in Request, Graph!PurgeFriendship(p)
    PROVE  ClearInv'
<1> DEFINE a0 == req[p].actor
<1> DEFINE b0 == req[p].peer
<1>1. req \in [Request -> Locals] /\ req[p] \in Locals /\ req[p].pc = "follows"
    BY DEF ConsentInv, GraphTyped, Graph!PurgeFriendship, Graph!At
<1>2. a0 \in Person /\ b0 \in Person /\ a0 # b0
    BY <1>1 DEF ClearInv, Related
<1>3. /\ UNCHANGED <<blocked, follows, friends, row, loose>>
      /\ \A q \in Request \ {p} : req'[q] = req[q]
    BY <1>1 DEF Graph!PurgeFriendship
<1>4. /\ req'[p].pc = "friendship" /\ req'[p].actor = a0 /\ req'[p].peer = b0
      /\ req'[p].edges = req[p].edges /\ req'[p].pair = friends \cap {{a0, b0}}
    BY <1>1 DEF Graph!PurgeFriendship, Graph!Between, Locals
<1>5. Related' /\ LateKnown'
    BY <1>2, <1>3, <1>4, HandlerKeeps DEF ClearInv, Related
<1>6. ASSUME NEW a \in Person, NEW b \in Person, a # b, Graph!IsBlocked(a, b)', {a, b} \notin loose'
      PROVE  Swept(a, b)'
    <2>1. Swept(a, b) /\ Graph!Pending(a, b)' = Graph!Pending(a, b)
        BY <1>3, <1>6 DEF ClearInv, BlocksSweep, Graph!IsBlocked, Graph!Both, Graph!Pending
    <2>2. CASE {a, b} = {a0, b0}
        <3>1. Purging(p, a, b)' /\ ({a, b} \in friends' => {a, b} \in req'[p].pair)
            BY <1>3, <1>4, <2>2 DEF Purging
        <3>2. \A q \in Request : Purging(q, a, b) => Purging(q, a, b)' /\ req'[q].edges = req[q].edges
            BY <1>3, <1>4 DEF Purging
        <3> QED BY <1>3, <2>1, <3>1, <3>2 DEF Swept
    <2>3. CASE {a, b} # {a0, b0}
        <3>1. \A q \in Request : Purging(q, a, b) => req'[q] = req[q]
            BY <1>3, <2>3 DEF Purging
        <3> QED BY <1>3, <2>1, <3>1, SweptStays
    <2> QED BY <2>2, <2>3
<1> QED BY <1>5, <1>6 DEF ClearInv, BlocksSweep

\* The commit takes away what its purge holds and every question of the pair.
LEMMA PurgeCommitClear ==
    ASSUME ConsentInv, ConsentInv', ClearInv, NEW p \in Request, Graph!PurgeCommit(p)
    PROVE  ClearInv'
<1> DEFINE a0 == req[p].actor
<1> DEFINE b0 == req[p].peer
<1>1. req \in [Request -> Locals] /\ req[p] \in Locals /\ req[p].pc = "friendship"
    BY DEF ConsentInv, GraphTyped, Graph!PurgeCommit, Graph!At
<1>2. /\ UNCHANGED <<blocked, loose>>
      /\ follows' = follows \ req[p].edges /\ friends' = friends \ req[p].pair
      /\ \A q \in Request \ {p} : req'[q] = req[q]
      /\ req'[p] = Graph!Tidy
    BY <1>1 DEF Graph!PurgeCommit, Graph!RowInserted, Graph!InsertsRowAt, Graph!Answer
<1>3. /\ \A r \in Graph!Row : /\ row'[r].from = row[r].from /\ row'[r].to = row[r].to
                              /\ row'[r].state = "pending" =>
                                   /\ row[r].state = "pending"
                                   /\ r \notin Graph!Pending(a0, b0) \cup Graph!Pending(b0, a0)
    BY DEF Graph!PurgeCommit, ConsentInv, GraphTyped, Graph!RowType
<1>4. Related' /\ LateKnown'
    BY <1>2, HandlerKeeps DEF ClearInv, Related, Graph!Tidy
<1>5. ASSUME NEW a \in Person, NEW b \in Person, a # b, Graph!IsBlocked(a, b)', {a, b} \notin loose'
      PROVE  Swept(a, b)'
    <2>1. Swept(a, b)
        BY <1>2, <1>5 DEF ClearInv, BlocksSweep, Graph!IsBlocked, Graph!Both
    <2>2. Graph!Pending(a, b)' \subseteq Graph!Pending(a, b)
        BY <1>3 DEF Graph!Pending
    <2>3. CASE {a, b} = {a0, b0}
        <3>1. Graph!Pending(a, b)' = {}
            BY <1>3, <2>3 DEF Graph!Pending
        <3>2. <<a, b>> \in follows' =>
                \E q \in Request : Purging(q, a, b)' /\ <<a, b>> \in req'[q].edges
            BY <1>2, <2>1 DEF Swept, Purging
        <3>3. {a, b} \in friends' =>
                \E q \in Request : /\ Purging(q, a, b)'
                                   /\ req'[q].pc = "follows" \/ {a, b} \in req'[q].pair
            BY <1>1, <1>2, <2>1 DEF Swept, Purging
        <3> QED BY <3>1, <3>2, <3>3 DEF Swept
    <2>4. CASE {a, b} # {a0, b0}
        <3>1. \A q \in Request : Purging(q, a, b) => req'[q] = req[q]
            BY <1>2, <2>4 DEF Purging
        <3> QED BY <1>2, <2>1, <2>2, <3>1, SweptStays
    <2> QED BY <2>3, <2>4
<1> QED BY <1>4, <1>5 DEF ClearInv, BlocksSweep

\* A purge that fails gives its pair back as it was, loose.
LEMMA FailClear ==
    ASSUME ConsentInv, ConsentInv', ClearInv, NEW p \in Request, Graph!Fail(p)
    PROVE  ClearInv'
<1>1. req \in [Request -> Locals] /\ req[p] \in Locals
    BY DEF ConsentInv, GraphTyped
<1>2. /\ UNCHANGED <<blocked, follows, friends, row>>
      /\ \A q \in Request \ {p} : req'[q] = req[q]
      /\ req'[p] = Graph!Tidy
    BY <1>1 DEF Graph!Fail, Graph!Answer
<1>3. loose' = IF req[p].pc \in {"follows", "friendship"}
               THEN loose \cup {{req[p].actor, req[p].peer}} ELSE loose
    BY DEF Graph!Fail, Graph!Between
<1>4. loose' \subseteq Graph!Pair
    BY <1>3, TwoArePair DEF ClearInv, Related
<1>5. Related' /\ LateKnown'
    BY <1>2, <1>4, HandlerKeeps DEF ClearInv, Related, Graph!Tidy
<1>6. ASSUME NEW a \in Person, NEW b \in Person, a # b, Graph!IsBlocked(a, b)', {a, b} \notin loose'
      PROVE  Swept(a, b)'
    <2>1. Swept(a, b) /\ Graph!Pending(a, b)' = Graph!Pending(a, b)
        BY <1>2, <1>3, <1>6 DEF ClearInv, BlocksSweep, Graph!IsBlocked, Graph!Both, Graph!Pending
    <2>2. \A q \in Request : Purging(q, a, b) => req'[q] = req[q]
        BY <1>2, <1>3, <1>6 DEF Purging
    <2> QED BY <1>2, <2>1, <2>2, SweptStays
<1> QED BY <1>5, <1>6 DEF ClearInv, BlocksSweep

\* Every step keeps it.
LEMMA NextClear ==
    ASSUME ConsentInv, ConsentInv', ClearInv, [Graph!Next]_Graph!vars
    PROVE  ClearInv'
<1>1. CASE UNCHANGED Graph!vars
    <2>1. Related' /\ LateKnown'
        BY <1>1 DEF Graph!vars, ClearInv, Related, LateKnown, Graph!IsBlocked
    <2>2. ASSUME NEW a \in Person, NEW b \in Person PROVE Swept(a, b)' = Swept(a, b)
        BY <1>1 DEF Graph!vars, Swept, Purging, Graph!Pending
    <2>3. BlocksSweep'
        BY <1>1, <2>2 DEF Graph!vars, ClearInv, BlocksSweep, Graph!IsBlocked
    <2> QED BY <2>1, <2>3 DEF ClearInv
<1>2. ASSUME NEW p \in Request, NEW a \in Person, NEW b \in Person \ {a},
             Graph!Follow(p, a, b) \/ Graph!RequestFriend(p, a, b) \/ Graph!Block(p, a, b)
      PROVE  ClearInv'
    BY <1>2, ReadsClear, BlockKeepsClear
<1>3. ASSUME NEW p \in Request, NEW u \in Person, NEW r \in Graph!Row,
             Graph!Accept(p, u, r) \/ Graph!Decline(p, u, r) \/ Graph!Cancel(p, u, r)
      PROVE  ClearInv'
    BY <1>3, ReadsClear
<1>4. ASSUME NEW p \in Request, Graph!ReadFriendship(p) \/ Graph!ReadInbound(p) \/ Graph!AcceptLock(p)
      PROVE  ClearInv'
    BY <1>4, ReadsClear
<1>5. ASSUME NEW p \in Request,
             Graph!FollowInsert(p) \/ Graph!RequestInsert(p) \/ Graph!AcceptCommit(p) \/ Graph!Close(p)
      PROVE  ClearInv'
    BY <1>5, WritesClear
<1>6. ASSUME NEW p \in Request,
             Graph!PurgeFollows(p) \/ Graph!PurgeFriendship(p) \/ Graph!PurgeCommit(p) \/ Graph!Fail(p)
      PROVE  ClearInv'
    BY <1>6, PurgeFollowsClear, PurgeFriendshipClear, PurgeCommitClear, FailClear
<1>7. ASSUME NEW a \in Person, NEW b \in Person \ {a},
             Graph!Unfollow(a, b) \/ Graph!Unfriend(a, b) \/ Graph!Unblock(a, b)
      PROVE  ClearInv'
    BY <1>7, PartingsClear
<1> QED BY <1>1, <1>2, <1>3, <1>4, <1>5, <1>6, <1>7 DEF Graph!Next

\* What is left between two users of whom one blocks the other is loose or
\* about to be swept.
LEMMA ClearImplies == ClearInv => Graph!BlockClears
<1> SUFFICES ASSUME ClearInv, NEW e \in blocked, {e[1], e[2]} \notin loose,
                    \A p \in Request : Graph!Between(p) = {e[1], e[2]}
                        => req[p].pc \notin {"blocked", "follows", "friendship"}
             PROVE  /\ follows \cap Graph!Both(e[1], e[2]) = {}
                    /\ {e[1], e[2]} \notin friends
                    /\ Graph!Pending(e[1], e[2]) \cup Graph!Pending(e[2], e[1]) = {}
    BY DEF Graph!BlockClears
<1>1. PICK a \in Person, b \in Person : e = <<a, b>> /\ a # b
    BY DEF ClearInv, Related, Graph!Edge
<1>2. Graph!IsBlocked(a, b) /\ Graph!IsBlocked(b, a) /\ {a, b} = {b, a}
    BY <1>1 DEF Graph!IsBlocked, Graph!Both
<1>3. Swept(a, b) /\ Swept(b, a)
    BY <1>1, <1>2 DEF ClearInv, BlocksSweep
<1>4. \A p \in Request : ~Purging(p, a, b) /\ ~Purging(p, b, a)
    BY <1>1, <1>2 DEF Purging, Graph!Between
<1> QED BY <1>1, <1>3, <1>4 DEF Swept, Graph!Both

\* The handlers' types, and one question from a user to another at a time.
LEMMA GraphTypes == ConsentInv /\ ClearInv => Graph!TypeOK
<1> SUFFICES ASSUME ConsentInv, ClearInv PROVE Graph!TypeOK
    OBVIOUS
<1>1. req \in [Request -> Graph!Handler]
    BY DEF ConsentInv, GraphTyped, Locals, Graph!Handler, ClearInv, Related
<1>2. \A r, s \in Graph!Row : r # s /\ row[r].state = "pending" => row[s] # row[r]
    BY DEF ConsentInv, AskedOnce, Standing
<1> QED BY <1>1, <1>2 DEF Graph!TypeOK, ClearInv, Related, ConsentInv, GraphTyped

-----------------------------------------------------------------------------
(* The run of both *)

\* A step of the run is a step of one of the two, and leaves the other alone.
LEMMA RunSteps ==
    [SumNext]_<<explored, graphVars, vars>>
    => [Next]_vars /\ [Graph!Next]_Graph!vars /\ explored' = explored
BY DEF SumNext, graphVars, Graph!vars

\* Every behaviour of the run is one of each.
LEMMA BothRun == SumSpec => Spec /\ Graph!Spec
<1>1. SumInit => Init /\ Graph!Init
    BY DEF SumInit
<1> QED BY <1>1, RunSteps, PTL DEF SumSpec, Spec, Graph!Spec

\* The invariants of the conversation and of the graph hold throughout.
LEMMA RunKeeps ==
    ASSUME IsFiniteSet(Socket)
    PROVE  SumSpec => [](RoomInv /\ BoundInv /\ ConsentInv /\ ClearInv)
<1> DEFINE Inv == RoomInv /\ BoundInv /\ ConsentInv /\ ClearInv
<1>1. Init /\ Graph!Init => Inv
    BY InitRoom, InitBound, InitConsent, InitClear
<1>2. Inv /\ [Next]_vars /\ [Graph!Next]_Graph!vars => Inv'
    BY GraphSound, NextRoom, NextBound, StepKeepsPromise, NextClear
<1> QED BY <1>1, <1>2, BothRun, PTL DEF Spec, Graph!Spec

\* Both components keep to their types: a connection that is down is in no room,
\* a send holds the conversation while it writes, two users have one question
\* standing from the one to the other.
THEOREM RunTyped == ASSUME IsFiniteSet(Socket) PROVE SumSpec => []TypesOK
<1>1. RoomInv /\ BoundInv /\ ConsentInv /\ ClearInv => TypesOK
    BY RoomTypes, GraphTypes DEF TypesOK
<1> QED BY <1>1, RunKeeps, PTL

\* A friendship comes from a question that stands when it is agreed to, and a
\* block that ran to its end leaves its pair no follow, no friendship and no
\* question, however many blocks, unblocks and answers of the two overlap, but
\* for what a handler that had read the blocks before writes after the purge.
THEOREM FriendsKeepConsent == SumSpec => FriendsConsent
<1>1. Graph!Init => ConsentInv /\ ClearInv
    BY InitConsent, InitClear
<1>2. ConsentInv /\ ClearInv /\ [Graph!Next]_Graph!vars => (ConsentInv /\ ClearInv)'
    BY GraphSound, StepKeepsPromise, NextClear
<1>3. Graph!Spec => [](explored = "graph" => Graph!BlockClears)
    BY <1>1, <1>2, ClearImplies, PTL DEF Graph!Spec
<1>4. Graph!Spec => Graph!KeepsConsent
    BY FriendshipsKeepConsent, GraphSound
<1> QED BY <1>3, <1>4, BothRun, PTL DEF FriendsConsent
=============================================================================
