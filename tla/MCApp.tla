------------------------------- MODULE MCApp --------------------------------
(***************************************************************************)
(* The app's outbox, its card of a person on the map, and one event, in    *)
(* one run.  They share no variable: "explored" says from the first state  *)
(* on whose behaviour it is.                                               *)
(***************************************************************************)
EXTENDS PinInteraction, TLC

CONSTANTS Message, NoMessage, Slot, MaxRows, MaxRetries,
          Guest, Request, Nobody, Capacity, OpenEnded, MaxFailures

VARIABLES explored,
          composed, list, box, disk, hydrated, connected, owed, slot, late, stored,
          phase, hosted, status, count, drift, confirmed, review, closed,
          blocked, gone, lapsed, req

Outbox == INSTANCE ChatOutbox

Attendance == INSTANCE EventAttendance
                  WITH User <- Guest, NoUser <- Nobody, late <- lapsed

ASSUME AppSound == Attendance!SoundConstants /\ Outbox!SoundConstants /\ SoundConstants

outboxVars == <<composed, list, box, disk, hydrated, connected, owed, slot, late, stored>>
eventVars == <<phase, hosted, status, count, drift, confirmed, review, closed,
               blocked, gone, lapsed, req>>

SumInit ==
    /\ explored \in {"outbox", "card", "event"}
    /\ Attendance!Init /\ Outbox!Init /\ Init

SumNext ==
    \/ /\ explored = "outbox" /\ Outbox!Next
       /\ UNCHANGED <<explored, eventVars, vars>>
    \/ /\ explored = "card" /\ Next
       /\ UNCHANGED <<explored, eventVars, outboxVars>>
    \/ /\ explored = "event" /\ Attendance!Next
       /\ UNCHANGED <<explored, outboxVars, vars>>

SumSpec == SumInit /\ [][SumNext]_<<explored, outboxVars, eventVars, vars>>

\* Slots are interchangeable, and people on the map, and guests: the same values
\* stand for the three; so are the handlers.
Symmetry == Permutations(Slot) \cup Permutations(Request)

\* The three components' type invariants.
TypesOK == /\ explored = "outbox" => Outbox!TypeOK
           /\ explored = "card" => TypeOK
           /\ explored = "event" => Attendance!TypeOK

\* A message is shown once, whatever order its answer and its row come in.
ShownOnce == explored = "outbox" => Outbox!ShownOnce

\* A row that is pending has a send, the outbox or the failed list behind it.
PendingIsTracked == explored = "outbox" => Outbox!PendingIsTracked

\* Seats, replies, reviews and the end of the event.
AttendanceIsFair ==
    /\ [](explored = "event" => Attendance!PlacesAreFair)
    /\ Attendance!EndIsRespected
    /\ Attendance!HiddenStays
=============================================================================
