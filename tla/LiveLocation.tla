----------------------------- MODULE LiveLocation -----------------------------
(***************************************************************************)
(* Live location in a direct conversation: the sessions of one sharer, the *)
(* handlers that start, update and stop them from any of the sharer's      *)
(* devices, and the sweep by which every API instance ends what has        *)
(* expired or gone quiet.                                                  *)
(*                                                                         *)
(* Each SQL statement is an action; deadlines are the time left and Tick   *)
(* lets time go on.  A request refused by a first check changes nothing    *)
(* and is left out.  The sharer stays a participant: nobody leaves a       *)
(* direct conversation.                                                    *)
(***************************************************************************)
EXTENDS Naturals, FiniteSets

CONSTANTS
    Session,    \* location sessions that can ever be started
    Request,    \* handlers in flight at once
    Instance,   \* API instances, each with a sweep timer
    NoSession,
    Duration,   \* lifetime of a timed share (15 or 60 minutes)
    Stale,      \* quiet time after which a share ends (90 seconds)
    Batch       \* sessions one sweep ends (200)

ASSUME NoSessionIsFresh == NoSession \notin Session
ASSUME ParametersArePositive == {Duration, Stale, Batch} \subseteq Nat \ {0}

VARIABLES
    row,       \* row[s]: the chat_location_sessions row
    blocked,   \* a user_blocks row joins the two participants
    req,       \* req[p]: locals of the handler p runs
    sweep      \* sweep[i]: the tick of instance i

vars == <<row, blocked, req, sweep>>

\* left: until ends_at; quiet: since last_updated_at.
Row == [state  : {"unused", "active", "ended"},
        timed  : BOOLEAN,
        left   : 0..Duration,
        quiet  : 0..Stale,
        reason : {"none", "stopped", "expired", "timeout"}]

\* due:  5 seconds have passed since the last_updated_at the handler read.
\* held: history, the pair was blocked when the position was written and has
\*       been ever since.
Handler == [pc      : {"idle", "endOld", "insert", "message", "check", "write",
                       "stop", "recipients", "emit"},
            session : Session \cup {NoSession},
            event   : {"none", "started", "update", "ended"},
            due     : BOOLEAN,
            held    : BOOLEAN,
            to      : SUBSET {"sharer", "peer"}]

Tidy == [pc |-> "idle", session |-> NoSession, event |-> "none",
         due |-> FALSE, held |-> FALSE, to |-> {}]

\* A handler past its first statement knows its session.
TypeOK ==
    /\ row \in [Session -> Row]
    /\ blocked \in BOOLEAN
    /\ req \in [Request -> Handler]
    /\ sweep \in [Instance -> [running : BOOLEAN, closed : SUBSET Session]]
    /\ \A p \in Request : req[p].pc \notin {"idle", "endOld", "insert"}
                          => req[p].session \in Session

Init ==
    /\ row = [s \in Session |-> [state |-> "unused", timed |-> FALSE,
                                 left |-> 0, quiet |-> 0, reason |-> "none"]]
    /\ blocked = FALSE
    /\ req = [p \in Request |-> Tidy]
    /\ sweep = [i \in Instance |-> [running |-> FALSE, closed |-> {}]]

Active(s) == row[s].state = "active"
Idle(p) == req[p].pc = "idle"
Unused == {s \in Session : row[s].state = "unused"}

End(S, reason) ==
    row' = [s \in Session |->
              IF s \in S THEN [row[s] EXCEPT !.state = "ended",
                                             !.reason = reason[s]]
              ELSE row[s]]

Answer(p) == req' = [req EXCEPT ![p] = Tidy]

-----------------------------------------------------------------------------
(* Starting *)

\* The last check before anything is written.  Bound: a session is left for
\* every start in flight.
Start(p) ==
    /\ Idle(p) /\ ~blocked
    /\ Cardinality(Unused) >
       Cardinality({q \in Request : req[q].pc \in {"endOld", "insert"}})
    /\ req' = [req EXCEPT ![p].pc = "endOld", ![p].event = "started"]
    /\ UNCHANGED <<row, blocked, sweep>>

EndOld(p) ==
    /\ req[p].pc = "endOld"
    /\ End({s \in Session : Active(s)}, [s \in Session |-> "stopped"])
    /\ req' = [req EXCEPT ![p].pc = "insert"]
    /\ UNCHANGED <<blocked, sweep>>

\* What start goes on with.  The variant reads the id past the returned row.
Unread(s) == NoSession
Inserted(s) == s

Insert(p) ==
    /\ req[p].pc = "insert"
    /\ \E s \in Unused, timed \in BOOLEAN :
         /\ row' = [row EXCEPT ![s] =
                      [state |-> "active", timed |-> timed,
                       left |-> IF timed THEN Duration ELSE 0,
                       quiet |-> 0, reason |-> "none"]]
         /\ req' = [req EXCEPT ![p].pc = "message",
                               ![p].session = Inserted(s),
                               ![p].held = blocked]
    /\ UNCHANGED <<blocked, sweep>>

\* The transaction that stores the chat message, or its refusal by the message
\* gate, which leaves the session active and unannounced.
Message(p) ==
    /\ req[p].pc = "message"
    /\ req' = [req EXCEPT ![p].pc = "recipients"] \/ Answer(p)
    /\ UNCHANGED <<row, blocked, sweep>>

-----------------------------------------------------------------------------
(* Updating and stopping, from any device that knows the session *)

UpdateRead(p, s) ==
    /\ Idle(p) /\ Active(s)
    /\ req' = [req EXCEPT ![p] = [Tidy EXCEPT !.pc = "check", !.session = s,
                                              !.event = "update",
                                              !.due = row[s].quiet > 0]]
    /\ UNCHANGED <<row, blocked, sweep>>

\* The block and the minimum interval are checked against what they are now
\* and against the row read before.
UpdateCheck(p) ==
    /\ req[p].pc = "check"
    /\ IF ~blocked /\ req[p].due
       THEN req' = [req EXCEPT ![p].pc = "write", ![p].due = FALSE]
       ELSE Answer(p)
    /\ UNCHANGED <<row, blocked, sweep>>

\* UPDATE ... WHERE status = 'active'.  The variant relies on the row read.
Trusts(s) == TRUE
Accepts(s) == Active(s)

\* Whether a row matched is not looked at: the position is announced anyway.
UpdateWrite(p) ==
    /\ req[p].pc = "write"
    /\ LET s == req[p].session IN
         row' = IF Accepts(s) THEN [row EXCEPT ![s].quiet = 0] ELSE row
    /\ req' = [req EXCEPT ![p].pc = "recipients", ![p].held = blocked]
    /\ UNCHANGED <<blocked, sweep>>

StopRead(p, s) ==
    /\ Idle(p) /\ Active(s)
    /\ req' = [req EXCEPT ![p] = [Tidy EXCEPT !.pc = "stop", !.session = s,
                                              !.event = "ended"]]
    /\ UNCHANGED <<row, blocked, sweep>>

StopWrite(p) ==
    /\ req[p].pc = "stop"
    /\ End({s \in {req[p].session} : Accepts(s)},
           [s \in Session |-> "stopped"])
    /\ req' = [req EXCEPT ![p].pc = "recipients"]
    /\ UNCHANGED <<blocked, sweep>>

-----------------------------------------------------------------------------
(* Announcing *)

\* Nobody is a recipient while either has blocked the other.  The variant
\* takes the participants as they stand in the conversation.
Participants == {"sharer", "peer"}
Recipients == IF blocked THEN {} ELSE Participants

FindRecipients(p) ==
    /\ req[p].pc = "recipients"
    /\ req' = [req EXCEPT ![p].pc = "emit", ![p].to = Recipients]
    /\ UNCHANGED <<row, blocked, sweep>>

Emit(p) ==
    /\ req[p].pc = "emit"
    /\ Answer(p)
    /\ UNCHANGED <<row, blocked, sweep>>

\* A statement fails or the process stops: nothing more is written or sent.
Fail(p) ==
    /\ ~Idle(p)
    /\ Answer(p)
    /\ UNCHANGED <<row, blocked, sweep>>

\* Either participant's requests to BlocksService.
Block ==
    /\ ~blocked
    /\ blocked' = TRUE
    /\ UNCHANGED <<row, req, sweep>>

Unblock ==
    /\ blocked
    /\ blocked' = FALSE
    /\ req' = [p \in Request |-> [req[p] EXCEPT !.held = FALSE]]
    /\ UNCHANGED <<row, sweep>>

-----------------------------------------------------------------------------
(* The sweep *)

Expired(s) == row[s].timed /\ row[s].left = 0
Over(s) == Active(s) /\ (Expired(s) \/ row[s].quiet = Stale)

\* One statement claims and ends at most Batch sessions.  It takes the oldest
\* first; here it may take any.
SweepEnd(i) ==
    /\ ~sweep[i].running
    /\ \E S \in SUBSET {s \in Session : Over(s)} :
         /\ S # {}
         /\ \/ S = {s \in Session : Over(s)} /\ Cardinality(S) <= Batch
            \/ Cardinality(S) = Batch
         /\ End(S, [s \in Session |-> IF Expired(s) THEN "expired"
                                                    ELSE "timeout"])
         /\ sweep' = [sweep EXCEPT ![i] = [running |-> TRUE, closed |-> S]]
    /\ UNCHANGED <<blocked, req>>

\* Recipients are looked up and the event sent for one session after the other.
SweepAnnounce(i) ==
    /\ sweep[i].running
    /\ \E s \in sweep[i].closed :
         sweep' = [sweep EXCEPT ![i] = [running |-> @.closed # {s},
                                        closed  |-> @.closed \ {s}]]
    /\ UNCHANGED <<row, blocked, req>>

\* An announcement throws: the others are not made, the next tick may run.
\* The variant resets the flag on success only.
SweepStuck(i) ==
    /\ sweep[i].running
    /\ sweep' = [sweep EXCEPT ![i].closed = {}]
    /\ UNCHANGED <<row, blocked, req>>
SweepFails(i) ==
    /\ sweep[i].running
    /\ sweep' = [sweep EXCEPT ![i] = [running |-> FALSE, closed |-> {}]]
    /\ UNCHANGED <<row, blocked, req>>

\* Time goes on for the active sessions and the handlers that have read one.
Tick ==
    /\ \E s \in Session : Active(s) /\ (row[s].left > 0 \/ row[s].quiet < Stale)
    /\ row' = [s \in Session |->
         IF Active(s)
         THEN [row[s] EXCEPT
                 !.left = IF row[s].left > 0 THEN row[s].left - 1 ELSE 0,
                 !.quiet = IF row[s].quiet < Stale THEN row[s].quiet + 1
                                                   ELSE Stale]
         ELSE row[s]]
    /\ req' = [p \in Request |->
                 [req[p] EXCEPT !.due = @ \/ req[p].pc = "check"]]
    /\ UNCHANGED <<blocked, sweep>>

-----------------------------------------------------------------------------

Handle(p) ==
    \/ Start(p) \/ EndOld(p) \/ Insert(p) \/ Message(p)
    \/ \E s \in Session : UpdateRead(p, s) \/ StopRead(p, s)
    \/ UpdateCheck(p) \/ UpdateWrite(p) \/ StopWrite(p)
    \/ FindRecipients(p) \/ Emit(p) \/ Fail(p)

Sweeping(i) == SweepEnd(i) \/ SweepAnnounce(i)

Next ==
    \/ \E p \in Request : Handle(p)
    \/ \E i \in Instance : Sweeping(i) \/ SweepFails(i)
    \/ Block \/ Unblock \/ Tick

Spec == Init /\ [][Next]_vars

\* Time passes and setInterval runs the sweep again and again.
FairSpec ==
    /\ Spec
    /\ WF_vars(Tick)
    /\ \A i \in Instance : WF_vars(Sweeping(i))

-----------------------------------------------------------------------------
(* Properties *)

\* A position written while either has blocked the other never reaches the
\* peer, whenever the block fell between the checks of the handler, unless the
\* block was lifted before the announcement.
BlockedSeeNothing ==
    \A p \in Request :
        req[p].pc = "emit" /\ req[p].event # "ended" /\ req[p].held
        => "peer" \notin req[p].to

\* An end is final: no late update, stop or sweep of another device or
\* instance revives an ended session, moves its position or changes the reason
\* it ended for.
EndIsFinal ==
    [][\A s \in Session : row[s].state = "ended" => row'[s] = row[s]]_vars

\* No share goes on unattended: a timed one ends, and one whose positions have
\* stopped ends or gets a new position, though announcements fail.
SharesEnd ==
    \A s \in Session :
        /\ []<>~(Active(s) /\ row[s].timed)
        /\ []<>~(Active(s) /\ row[s].quiet > 0)
=============================================================================
