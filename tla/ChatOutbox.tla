------------------------------ MODULE ChatOutbox ------------------------------
(***************************************************************************)
(* Sending chat messages from the mobile app: the optimistic row, the send *)
(* that waits five seconds for its acknowledgement, the outbox drained on  *)
(* every reconnect, the retry a user taps, and the copy on disk.  Against  *)
(* it stands the server, which stores every send it receives as a new row. *)
(*                                                                         *)
(* One conversation, whose room the socket may join.  A send that the app  *)
(* has given up may still be on its way.                                   *)
(***************************************************************************)
EXTENDS Naturals, FiniteSets

CONSTANTS
    Message,    \* optimistic ids
    Slot,       \* bound: sends and drains that run at once
    NoMessage,
    MaxRows,    \* bound: rows the server stores
    MaxRetries  \* MAX_RETRIES, 3

\* What is assumed of the constants.
SoundConstants ==
    /\ NoMessage \notin Message /\ Message \cap 1..MaxRows = {}
    /\ MaxRows \in Nat /\ MaxRetries \in Nat \ {0}

VARIABLES
    composed,  \* messages the user has written
    list,      \* list[i]: entries with id i that the conversation shows
    box,       \* box.out: the outbox, box.retries: its counters, box.failed
    disk,      \* the persisted box, and the optimistic rows saved with it
    hydrated,  \* the box has been restored from the disk
    connected,
    owed,      \* a connect whose drain has not read the outbox yet
    slot,      \* slot[k]: a send waiting for its answer, or a drain
    late,      \* bound: one given-up send per message that may still arrive
    stored     \* stored[r]: the message the server's row r came from

client == <<composed, list, box, disk, hydrated>>
network == <<connected, owed, late, stored>>
vars == <<client, network, slot>>

Row == 1..MaxRows
Box == [out : SUBSET Message, retries : [Message -> 0..MaxRetries-1],
        failed : SUBSET Message]
Empty == [out |-> {}, retries |-> [m \in Message |-> 0], failed |-> {}]

\* net: "sent", "stored" (the ack is on its way), or "null" (the send failed
\* at once, was refused or timed out).  todo: what a drain has still to send.
Free == [kind |-> "free", m |-> NoMessage, net |-> "null", row |-> 0, todo |-> {}]

TypeOK ==
    /\ composed \subseteq Message
    /\ list \in [Message \cup Row -> Nat]
    /\ box \in Box /\ \A m \in Message : box.retries[m] > 0 => m \in box.out
    /\ disk \in [box : Box, rows : SUBSET Message]
    /\ hydrated \in BOOLEAN /\ connected \in BOOLEAN /\ owed \in BOOLEAN
    /\ slot \in [Slot -> [kind : {"free", "compose", "retry", "join",
                                  "drain"},
                          m : Message \cup {NoMessage},
                          net : {"sent", "stored", "null"},
                          row : Row \cup {0}, todo : SUBSET Message]]
    /\ late \subseteq Message
    /\ stored \in [Row -> Message \cup {NoMessage}]

Init ==
    /\ composed = {}
    /\ list = [i \in Message \cup Row |-> 0]
    /\ box = Empty
    /\ disk = [box |-> Empty, rows |-> {}]
    /\ hydrated = FALSE /\ connected = FALSE /\ owed = FALSE
    /\ slot = [k \in Slot |-> Free]
    /\ late = {}
    /\ stored = [r \in Row |-> NoMessage]

\* socketSendMessage: without a connection the answer is null at once.
Emit(k, kind, m, todo) ==
    slot' = [slot EXCEPT ![k] =
               [kind |-> kind, m |-> m, row |-> 0, todo |-> todo,
                net |-> IF connected THEN "sent" ELSE "null"]]

\* A send has been dealt with; a drain goes on to its next entry.
Finish(k) ==
    slot' = [slot EXCEPT ![k] = IF @.kind = "drain"
               THEN [Free EXCEPT !.kind = "drain", !.todo = slot[k].todo]
               ELSE Free]

-----------------------------------------------------------------------------
(* Reducers of chatSlice *)

\* messageQueued: an entry already there keeps its retries.
Queued(m) == [box EXCEPT !.out = @ \cup {m}]

\* outboxRetryIncremented for each of S: the last retry makes an entry failed.
\* The variant drops it.
Dropped(S) ==
    LET mine  == S \cap box.out
        spent == {m \in mine : box.retries[m] + 1 >= MaxRetries}
    IN [out |-> box.out \ spent, failed |-> box.failed,
        retries |-> [m \in Message |->
          IF m \in spent THEN 0
          ELSE IF m \in mine THEN box.retries[m] + 1 ELSE box.retries[m]]]
Retried(S) ==
    LET mine  == S \cap box.out
        spent == {m \in mine : box.retries[m] + 1 >= MaxRetries}
    IN [out |-> box.out \ spent, failed |-> box.failed \cup spent,
        retries |-> [m \in Message |->
          IF m \in spent THEN 0
          ELSE IF m \in mine THEN box.retries[m] + 1 ELSE box.retries[m]]]

\* messageConfirmed: the optimistic row becomes row r, or goes if r is shown
\* already.  The variant does not look.
ReplaceAlways(m, r) ==
    IF list[m] = 0 THEN list
    ELSE [list EXCEPT ![m] = @ - 1, ![r] = @ + 1]
Replace(m, r) ==
    IF list[m] = 0 THEN list
    ELSE [list EXCEPT ![m] = @ - 1, ![r] = IF @ > 0 THEN @ ELSE 1]

\* The variant forgets the counter of a confirmed entry.
SettledOut(m) == [box EXCEPT !.out = @ \ {m}, !.failed = @ \ {m}]
Settled(m) == [box EXCEPT !.out = @ \ {m}, !.failed = @ \ {m},
                          !.retries[m] = 0]

-----------------------------------------------------------------------------
(* The user *)

\* The send button waits for the answer, but a screen opened anew does not.
Compose(k, m) ==
    /\ slot[k].kind = "free" /\ m \notin composed
    /\ composed' = composed \cup {m}
    /\ list' = [list EXCEPT ![m] = @ + 1]
    /\ Emit(k, "compose", m, {})
    /\ UNCHANGED <<box, disk, hydrated, network>>

\* "Tap to retry" on a failed message.
Retry(k, m) ==
    /\ slot[k].kind = "free" /\ m \in box.failed /\ list[m] > 0
    /\ box' = [Queued(m) EXCEPT !.failed = @ \ {m}]
    /\ Emit(k, "retry", m, {})
    /\ UNCHANGED <<composed, list, disk, hydrated, network>>

-----------------------------------------------------------------------------
(* Sends and drains *)

\* The list learns of row r from chat:message or from a fetched page.
Receive(r) ==
    /\ stored[r] # NoMessage /\ list[r] = 0
    /\ list' = [list EXCEPT ![r] = 1]
    /\ UNCHANGED <<composed, box, disk, hydrated, network, slot>>

Ack(k) ==
    /\ slot[k].net = "stored" /\ connected
    /\ list' = Replace(slot[k].m, slot[k].row)
    /\ box' = Settled(slot[k].m)
    /\ Finish(k)
    /\ UNCHANGED <<composed, disk, hydrated, network>>

\* The answer was null.
GiveUp(k) ==
    /\ slot[k].net = "null" /\ slot[k].m # NoMessage
    /\ box' = IF slot[k].kind = "drain" THEN Retried({slot[k].m})
                                        ELSE Queued(slot[k].m)
    /\ Finish(k)
    /\ UNCHANGED <<composed, list, disk, hydrated, network>>

\* Five seconds are over; the send is lost or still on its way.
Timeout(k) ==
    /\ slot[k].net \in {"sent", "stored"}
    /\ slot' = [slot EXCEPT ![k].net = "null", ![k].row = 0]
    /\ \/ slot[k].net = "sent" /\ late' = late \cup {slot[k].m}
       \/ UNCHANGED late
    /\ UNCHANGED <<client, connected, owed, stored>>

\* A drain takes the outbox as it is now and joins the room first ...
DrainStart(k) ==
    /\ owed /\ slot[k].kind = "free"
    /\ owed' = FALSE
    /\ slot' = [slot EXCEPT ![k] = [Free EXCEPT !.kind = "join",
                                                !.todo = box.out]]
    /\ UNCHANGED <<client, connected, late, stored>>

\* ... and sends what it took, or counts a retry of it if the join is refused.
DrainJoined(k) ==
    /\ slot[k].kind = "join"
    /\ \/ slot' = [slot EXCEPT ![k].kind = "drain"] /\ UNCHANGED box
       \/ slot' = [slot EXCEPT ![k] = Free] /\ box' = Retried(slot[k].todo)
    /\ UNCHANGED <<composed, list, disk, hydrated, network>>

DrainNext(k) ==
    /\ slot[k].kind = "drain" /\ slot[k].m = NoMessage
    /\ \/ \E m \in slot[k].todo : Emit(k, "drain", m, slot[k].todo \ {m})
       \/ slot[k].todo = {} /\ slot' = [slot EXCEPT ![k] = Free]
    /\ UNCHANGED <<client, network>>

-----------------------------------------------------------------------------
(* Server and network *)

\* Nothing looks at clientMessageId: every send becomes a row.
NextRow(r, m) ==
    /\ stored[r] = NoMessage /\ \A q \in 1..r-1 : stored[q] # NoMessage
    /\ stored' = [stored EXCEPT ![r] = m]

Store(k) ==
    /\ slot[k].net = "sent"
    /\ \E r \in Row :
         /\ NextRow(r, slot[k].m)
         /\ slot' = [slot EXCEPT ![k].net = "stored", ![k].row = r]
    /\ UNCHANGED <<client, connected, owed, late>>

StoreLate(m) ==
    /\ m \in late
    /\ \E r \in Row : NextRow(r, m)
    /\ late' = late \ {m}
    /\ UNCHANGED <<client, connected, owed, slot>>

Refuse(k) ==
    /\ slot[k].net = "sent"
    /\ slot' = [slot EXCEPT ![k].net = "null"]
    /\ UNCHANGED <<client, network>>

Connect ==
    /\ ~connected
    /\ connected' = TRUE /\ owed' = TRUE
    /\ UNCHANGED <<client, late, stored, slot>>

Disconnect ==
    /\ connected
    /\ connected' = FALSE
    /\ UNCHANGED <<client, owed, late, stored, slot>>

-----------------------------------------------------------------------------
(* Persistence *)

\* The optimistic rows the outbox or the failed list still refers to.
CollectPending == {m \in box.out \cup box.failed : list[m] > 0}

\* The store subscriber writes 150 ms after the last change.
Save ==
    /\ hydrated
    /\ disk' = [box |-> box, rows |-> CollectPending]
    /\ UNCHANGED <<composed, list, box, hydrated, network, slot>>

\* The app is killed and started again.
Restart ==
    /\ box' = Empty /\ hydrated' = FALSE
    /\ list' = [i \in Message \cup Row |-> 0]
    /\ slot' = [k \in Slot |-> Free]
    /\ \E S \in SUBSET {slot[k].m : k \in {l \in Slot : slot[l].net = "sent"}} :
         late' = late \cup S
    /\ connected' = FALSE /\ owed' = FALSE
    /\ UNCHANGED <<composed, disk, stored>>

\* outboxHydrated: what was queued meanwhile stays.
Hydrate ==
    /\ ~hydrated
    /\ hydrated' = TRUE
    /\ box' = [out |-> box.out \cup disk.box.out,
               failed |-> box.failed \cup disk.box.failed,
               retries |-> [m \in Message |->
                 IF m \in box.out THEN box.retries[m] ELSE disk.box.retries[m]]]
    /\ list' = [i \in Message \cup Row |->
                 IF i \in disk.rows /\ list[i] = 0 THEN 1 ELSE list[i]]
    /\ UNCHANGED <<composed, disk, network, slot>>

-----------------------------------------------------------------------------

Next ==
    \/ \E k \in Slot : \/ \E m \in Message : Compose(k, m) \/ Retry(k, m)
                       \/ Ack(k) \/ GiveUp(k) \/ Timeout(k) \/ DrainStart(k)
                       \/ DrainJoined(k) \/ DrainNext(k) \/ Store(k) \/ Refuse(k)
    \/ \E r \in Row : Receive(r)
    \/ \E m \in Message : StoreLate(m)
    \/ Connect \/ Disconnect \/ Save \/ Restart \/ Hydrate

Spec == Init /\ [][Next]_vars

-----------------------------------------------------------------------------
(* Properties *)

\* A message is shown once, in whatever order its acknowledgement, its event
\* and a fetched page arrive, and whoever sent it last.
ShownOnce == \A i \in Message \cup Row : list[i] <= 1

\* An optimistic row never stays "sending" with nobody working on it: a send,
\* the outbox or the failed list has it.
PendingIsTracked ==
    \A m \in Message : list[m] > 0 =>
        m \in box.out \cup box.failed \/ \E k \in Slot : slot[k].m = m
=============================================================================
