--------------------------- MODULE ConversationRoom ---------------------------
(***************************************************************************)
(* One direct conversation on the server: the Socket.IO room its sockets   *)
(* join, the block that evicts them, and messages under the request gate,  *)
(* by which a conversation opened on a shared interest takes one message   *)
(* from its initiator until the other side replies.                        *)
(*                                                                         *)
(* Sockets of several API instances share the room through the adapter.    *)
(* A handler is split where it awaits.  Delivery resolves its recipients   *)
(* anew for every message and changes no state; it is left out.            *)
(***************************************************************************)
EXTENDS Naturals, FiniteSets

CONSTANTS
    Mine, Theirs,  \* connections of the initiator and of the other user
    NoSocket,
    MaxMessages    \* bound: stored messages

Socket == Mine \cup Theirs
User == {"initiator", "peer"}

\* What is assumed of the constants.
ASSUME SoundConstants ==
    Mine \cap Theirs = {} /\ NoSocket \notin Socket /\ MaxMessages \in Nat

VARIABLES
    up,       \* sockets connected
    room,     \* sockets in convo:<id>
    join,     \* join[s]: progress of conversation:join on s
    send,     \* send[s]: progress of chat:send on s
    status,   \* conversations.status
    locked,   \* the send whose transaction holds the conversation
    messages, \* messages stored in the conversation
    blocks,   \* users who block the other one
    blocking, \* blocking[u]: progress of u's block request
    evicted   \* history: the room was emptied since the pair is blocked

connection == <<up, room, join>>
chat == <<send, status, locked, messages>>
blockade == <<blocks, blocking, evicted>>
vars == <<connection, chat, blockade>>

\* A connection that is down is in no room, and the conversation is locked by
\* the one transaction that is about to write.
TypeOK ==
    /\ up \subseteq Socket
    /\ room \subseteq up
    /\ join \in [Socket -> {"none", "admitted", "entered", "denied"}]
    /\ send \in [Socket -> {"none", "persist", "write"}]
    /\ status \in {"pending", "accepted"}
    /\ locked \in Socket \cup {NoSocket}
    /\ \A s \in Socket : send[s] = "write" <=> locked = s
    /\ messages \in 0..MaxMessages
    /\ blocks \subseteq User
    /\ blocking \in [User -> {"none", "graph", "evict"}]
    /\ evicted \in BOOLEAN

\* A request opened by openForMessaging, or an accepted conversation.
Init ==
    /\ up = {} /\ room = {}
    /\ join = [s \in Socket |-> "none"]
    /\ send = [s \in Socket |-> "none"]
    /\ status \in {"pending", "accepted"}
    /\ locked = NoSocket /\ messages = 0
    /\ blocks = {} /\ blocking = [u \in User |-> "none"]
    /\ evicted = FALSE

\* Both users stay participants; a block by either one bars both.
Authorized == blocks = {}

-----------------------------------------------------------------------------
(* Connections and the room *)

Connect(s) ==
    /\ s \notin up /\ join[s] = "none" /\ send[s] = "none"
    /\ up' = up \cup {s}
    /\ UNCHANGED <<room, join, chat, blockade>>

\* The adapter forgets the socket; handlers already running go on.
Disconnect(s) ==
    /\ s \in up
    /\ up' = up \ {s}
    /\ room' = room \ {s}
    /\ UNCHANGED <<join, chat, blockade>>

\* A lookup that fails counts as denied, here and in JoinRecheck.
JoinCheck(s) ==
    /\ s \in up /\ join[s] = "none"
    /\ \/ Authorized /\ join' = [join EXCEPT ![s] = "admitted"]
       \/ join' = [join EXCEPT ![s] = "denied"]
    /\ UNCHANGED <<up, room, chat, blockade>>

\* The variant joins a socket that has gone down meanwhile.
EnterBlindly(s) ==
    /\ join[s] = "admitted"
    /\ room' = room \cup {s}
    /\ join' = [join EXCEPT ![s] = "entered"]
    /\ UNCHANGED <<up, chat, blockade>>
JoinEnter(s) ==
    /\ join[s] = "admitted"
    /\ room' = room \cup ({s} \cap up)
    /\ join' = [join EXCEPT ![s] = "entered"]
    /\ UNCHANGED <<up, chat, blockade>>

\* Membership is looked up again once the adapter has joined.  The variant
\* trusts the first lookup.
TrustFirstCheck(s) ==
    /\ join[s] = "entered"
    /\ join' = [join EXCEPT ![s] = "none"]
    /\ UNCHANGED <<up, room, chat, blockade>>
JoinRecheck(s) ==
    /\ join[s] = "entered"
    /\ \/ Authorized /\ join' = [join EXCEPT ![s] = "none"]
       \/ join' = [join EXCEPT ![s] = "denied"]
    /\ UNCHANGED <<up, room, chat, blockade>>

\* finally: a socket not admitted is taken out of the room.
JoinLeave(s) ==
    /\ join[s] = "denied"
    /\ join' = [join EXCEPT ![s] = "none"]
    /\ room' = room \ {s}
    /\ UNCHANGED <<up, chat, blockade>>

Leave(s) ==
    /\ s \in room
    /\ room' = room \ {s}
    /\ UNCHANGED <<up, join, chat, blockade>>

-----------------------------------------------------------------------------
(* Blocking *)

Block(u) ==
    /\ blocking[u] = "none"
    /\ blocks' = blocks \cup {u}
    /\ blocking' = [blocking EXCEPT ![u] = "graph"]
    /\ UNCHANGED <<evicted, connection, chat>>

\* After the groups and the social graph, the conversations to evict from are
\* looked up: only accepted ones.
FindEvictions(u) ==
    /\ blocking[u] = "graph"
    /\ blocking' = [blocking EXCEPT ![u] = IF status = "accepted"
                                           THEN "evict" ELSE "none"]
    /\ UNCHANGED <<blocks, evicted, connection, chat>>

\* The sockets in the room user:<id>.
SocketsOf(u) == IF u = "initiator" THEN Mine ELSE Theirs

\* Every socket of the users, on whatever instance, leaves the conversation.
LeaveRoomForUsers(U) == room' = room \ UNION {SocketsOf(u) : u \in U}

Evict(u) ==
    /\ blocking[u] = "evict"
    /\ LeaveRoomForUsers(User)
    /\ blocking' = [blocking EXCEPT ![u] = "none"]
    /\ evicted' = (blocks # {})
    /\ UNCHANGED <<blocks, up, join, chat>>

\* The request dies: the block is stored, the sockets are still in the room.
BlockFails(u) ==
    /\ blocking[u] # "none"
    /\ blocking' = [blocking EXCEPT ![u] = "none"]
    /\ UNCHANGED <<blocks, evicted, connection, chat>>

Unblock(u) ==
    /\ u \in blocks
    /\ blocks' = blocks \ {u}
    /\ evicted' = (evicted /\ blocks # {u})
    /\ UNCHANGED <<blocking, connection, chat>>

-----------------------------------------------------------------------------
(* Messages *)

\* chat:send asks only whether the socket is in the room.
SendCheck(s) ==
    /\ send[s] = "none" /\ s \in room
    /\ messages + Cardinality({t \in Socket : send[t] # "none"}) < MaxMessages
    /\ send' = [send EXCEPT ![s] = "persist"]
    /\ UNCHANGED <<status, locked, messages, connection, blockade>>

\* In a pending conversation the initiator has said something already.  The
\* variant compares with the wrong count.
GateRefusesLate(s) == status = "pending" /\ s \in Mine /\ messages > 1
GateRefuses(s) == status = "pending" /\ s \in Mine /\ messages > 0

\* SELECT ... FOR UPDATE OF c waits for other transactions of the conversation.
Gate(s) ==
    /\ send[s] = "persist" /\ locked = NoSocket
    /\ IF GateRefuses(s)
       THEN send' = [send EXCEPT ![s] = "none"] /\ UNCHANGED locked
       ELSE send' = [send EXCEPT ![s] = "write"] /\ locked' = s
    /\ UNCHANGED <<status, messages, connection, blockade>>

\* A reply to a pending request accepts it.
Persist(s) ==
    /\ send[s] = "write"
    /\ messages' = messages + 1
    /\ status' = IF s \in Theirs THEN "accepted" ELSE status
    /\ send' = [send EXCEPT ![s] = "none"]
    /\ locked' = NoSocket
    /\ UNCHANGED <<connection, blockade>>

\* The transaction rolls back, or the instance stops.
SendFails(s) ==
    /\ send[s] # "none"
    /\ send' = [send EXCEPT ![s] = "none"]
    /\ locked' = IF locked = s THEN NoSocket ELSE locked
    /\ UNCHANGED <<status, messages, connection, blockade>>

\* A pair of waves, or a match, accepts the conversation too.
WaveAccepts ==
    /\ status = "pending" /\ locked = NoSocket
    /\ status' = "accepted"
    /\ UNCHANGED <<send, locked, messages, connection, blockade>>

-----------------------------------------------------------------------------

Next ==
    \/ \E s \in Socket :
         \/ Connect(s) \/ Disconnect(s)
         \/ JoinCheck(s) \/ JoinEnter(s) \/ JoinRecheck(s) \/ JoinLeave(s)
         \/ Leave(s) \/ SendCheck(s) \/ Gate(s) \/ Persist(s) \/ SendFails(s)
    \/ \E u \in User : \/ Block(u) \/ FindEvictions(u) \/ Evict(u)
                       \/ BlockFails(u) \/ Unblock(u)
    \/ WaveAccepts

Spec == Init /\ [][Next]_vars

-----------------------------------------------------------------------------
(* Properties *)

\* Once a block has emptied the room nobody is back in it while the block
\* lasts, apart from a socket whose join is still being taken back: a join
\* that was authorized before the block does not slip in behind the eviction.
EvictedStayOut ==
    evicted => \A s \in room : join[s] \in {"entered", "denied"}

\* A message request stays one message, on however many connections and at
\* whatever moment its sender tries, until the other user replies.
RequestSaysOneThing == status = "pending" => messages <= 1

=============================================================================
