-------------------------- MODULE EventAttendance --------------------------
(***************************************************************************)
(* One event, from its creation to its reviews: the guests' RSVPs under a  *)
(* capacity, the host's confirmations while it runs, its end by the clock  *)
(* or by the host, and the reviews of those who were there.                *)
(*                                                                         *)
(* Every write locks the event's row first.  A locking SELECT evaluates    *)
(* its expressions when it starts; only if the row was changed while it    *)
(* waited does the database evaluate them again.                           *)
(***************************************************************************)
EXTENDS Naturals, FiniteSets

CONSTANTS
    User, NoUser,   \* guests; the host is none of them
    Request,        \* handlers in flight at once
    Capacity,
    OpenEnded       \* whether ends_at is null until the host ends the event

\* What is assumed of the constants.
SoundConstants ==
    NoUser \notin User /\ Capacity \in Nat \ {0} /\ OpenEnded \in BOOLEAN

VARIABLES
    phase,       \* the clock against starts_at and ends_at
    hosted,      \* history: the host ended the event
    status,      \* status[u]: event_attendees
    count,       \* events.attendee_count
    drift,       \* history: a guest's account went since the last recount
    confirmed,   \* event_attendance_confirmations
    review,      \* review[u]: event_reviews
    closed,      \* reviews past editable_until
    blocked,     \* guests with a block between them and the host
    gone,        \* deleted accounts
    late,        \* history: guests whose RSVP read the clock before the end
                 \* and committed after it, the row unchanged in between
    req          \* req[p]: locals of the handler p runs

vars == <<phase, hosted, status, count, drift, confirmed, review, closed,
          blocked, gone, late, req>>

Reply == {"going", "maybe"}
Review == [state : {"none", "shown", "hidden"}, edited : BOOLEAN]
NoReview == [state |-> "none", edited |-> FALSE]

Handler == [pc : {"idle", "rsvp", "seats", "answer", "confirm", "confirming",
                  "review", "reviewing"},
            user : User \cup {NoUser},
            reply : Reply \cup {"none"},
            edit : BOOLEAN,
            ended : BOOLEAN,     \* is_ended as its statement evaluated it
            changed : BOOLEAN]   \* the row was updated while it waited

Tidy == [pc |-> "idle", user |-> NoUser, reply |-> "none", edit |-> FALSE,
         ended |-> FALSE, changed |-> FALSE]

TypeOK ==
    /\ phase \in {"before", "running", "ended"}
    /\ hosted \in BOOLEAN /\ drift \in BOOLEAN
    /\ status \in [User -> Reply \cup {"none"}]
    /\ count \in Nat
    /\ confirmed \subseteq User /\ closed \subseteq User /\ late \subseteq User
    /\ blocked \subseteq User /\ gone \subseteq User
    /\ review \in [User -> Review]
    /\ req \in [Request -> Handler]
    \* event_attendance_confirmations refers to event_attendees
    /\ \A u \in confirmed : status[u] # "none"

Init ==
    /\ phase = "before" /\ hosted = FALSE
    /\ status = [u \in User |-> "none"] /\ count = 0 /\ drift = FALSE
    /\ confirmed = {} /\ review = [u \in User |-> NoReview] /\ closed = {}
    /\ blocked = {} /\ gone = {} /\ late = {}
    /\ req = [p \in Request |-> Tidy]

Idle(p) == req[p].pc = "idle"
At(p, pc) == req[p].pc = pc
Become(p, h) == req' = [req EXCEPT ![p] = h]
Go(p, pc) == req' = [req EXCEPT ![p].pc = pc]
Going == {u \in User : status[u] = "going"}
Visible(u) == u \notin blocked \cup gone

Holds(p) == req[p].pc \in {"seats", "answer", "confirming", "reviewing"}

\* FOR UPDATE.  The variant does not wait.
LockIgnored == TRUE
LockFree == \A p \in Request : ~Holds(p)

\* Those waiting for the row find it changed.
Changed(h) == IF h.pc = "rsvp" THEN [h EXCEPT !.changed = TRUE] ELSE h

eventVars == <<phase, hosted>>
guestVars == <<status, count, drift, late>>
reviewVars == <<confirmed, review, closed>>
userVars == <<blocked, gone>>

-----------------------------------------------------------------------------
(* RSVP *)

Rsvp(p, u, r) ==
    /\ Idle(p) /\ Visible(u)
    /\ Become(p, [Tidy EXCEPT !.pc = "rsvp", !.user = u, !.reply = r,
                              !.ended = phase = "ended"])
    /\ UNCHANGED <<eventVars, guestVars, reviewVars, userVars>>

\* The variant goes by the first evaluation whatever happened to the row.
EndedAsRead(p) == req[p].ended
EndedNow(p) == IF req[p].changed THEN phase = "ended" ELSE req[p].ended

RsvpLock(p) ==
    /\ At(p, "rsvp") /\ LockFree
    /\ IF EndedNow(p) THEN Become(p, Tidy) ELSE Go(p, "seats")
    /\ UNCHANGED <<eventVars, guestVars, reviewVars, userVars>>

\* Only who is not going yet needs a seat.
RsvpSeats(p) ==
    /\ At(p, "seats")
    /\ IF /\ req[p].reply = "going" /\ status[req[p].user] # "going"
          /\ Cardinality(Going) >= Capacity
       THEN Become(p, Tidy) ELSE Go(p, "answer")
    /\ UNCHANGED <<eventVars, guestVars, reviewVars, userVars>>

\* The variant recounts only for those who come.
RecountsComing(r, n) == IF r = "going" THEN n ELSE count
Recount(r, n) == n

\* The upsert, the recount and the commit; a deleted user's row is refused.
RsvpCommit(p) ==
    LET u == req[p].user  r == req[p].reply IN
    /\ At(p, "answer")
    /\ IF u \in gone
       THEN Become(p, Tidy) /\ UNCHANGED guestVars
       ELSE /\ status' = [status EXCEPT ![u] = r]
            /\ count' = Recount(r, Cardinality({v \in User : status'[v] = "going"}))
            /\ drift' = FALSE
            /\ late' = IF phase = "ended" /\ ~req[p].changed
                       THEN late \cup {u} ELSE late
            /\ req' = [q \in Request |-> IF q = p THEN Tidy ELSE Changed(req[q])]
    /\ UNCHANGED <<eventVars, reviewVars, userVars>>

-----------------------------------------------------------------------------
(* Confirming attendance *)

Confirm(p, u) ==
    /\ Idle(p)
    /\ Become(p, [Tidy EXCEPT !.pc = "confirm", !.user = u])
    /\ UNCHANGED <<eventVars, guestVars, reviewVars, userVars>>

\* gate reads the times in a second statement, the lock in hand.
ConfirmGate(p) ==
    /\ At(p, "confirm") /\ LockFree
    /\ IF phase = "running" THEN Go(p, "confirming") ELSE Become(p, Tidy)
    /\ UNCHANGED <<eventVars, guestVars, reviewVars, userVars>>

Attends(u) == status[u] = "going" /\ phase = "running" /\ u \notin blocked

ConfirmCommit(p) ==
    LET u == req[p].user IN
    /\ At(p, "confirming")
    /\ confirmed' = IF Attends(u) THEN confirmed \cup {u} ELSE confirmed
    /\ Become(p, Tidy)
    /\ UNCHANGED <<eventVars, guestVars, review, closed, userVars>>

-----------------------------------------------------------------------------
(* Reviews *)

Save(p, u, edit) ==
    /\ Idle(p) /\ Visible(u)
    /\ Become(p, [Tidy EXCEPT !.pc = "review", !.user = u, !.edit = edit])
    /\ UNCHANGED <<eventVars, guestVars, reviewVars, userVars>>

\* The variant believes the RSVP.
EligibleUnseen(u) == phase = "ended" /\ status[u] = "going"
Eligible(u) == phase = "ended" /\ status[u] = "going" /\ u \in confirmed

SaveGate(p) ==
    /\ At(p, "review") /\ LockFree
    /\ IF Eligible(req[p].user) THEN Go(p, "reviewing") ELSE Become(p, Tidy)
    /\ UNCHANGED <<eventVars, guestVars, reviewVars, userVars>>

\* The variant looks at the window only.
EditableInTime(u) == review[u].state # "none" /\ u \notin closed
Editable(u) == review[u].state = "shown" /\ u \notin closed

SaveCommit(p) ==
    LET u == req[p].user IN
    /\ At(p, "reviewing")
    /\ review' = IF req[p].edit
                 THEN IF Editable(u) THEN [review EXCEPT ![u].edited = TRUE] ELSE review
                 ELSE IF review[u].state = "none" /\ u \notin gone
                      THEN [review EXCEPT ![u].state = "shown"] ELSE review
    /\ Become(p, Tidy)
    /\ UNCHANGED <<eventVars, guestVars, confirmed, closed, userVars>>

Hide(u) ==
    /\ LockFree /\ review[u].state # "none"
    /\ review' = [review EXCEPT ![u].state = "hidden"]
    /\ UNCHANGED <<eventVars, guestVars, confirmed, closed, userVars, req>>

\* Twenty-four hours after the review was written.
WindowCloses(u) ==
    /\ review[u].state # "none" /\ u \notin closed
    /\ closed' = closed \cup {u}
    /\ UNCHANGED <<eventVars, guestVars, confirmed, review, userVars, req>>

-----------------------------------------------------------------------------
(* The event's end, and what happens to its guests *)

\* starts_at and ends_at pass.
Clock ==
    \/ phase = "before" /\ phase' = "running"
    \/ phase = "running" /\ ~OpenEnded /\ phase' = "ended"
PhasePasses ==
    Clock /\ UNCHANGED <<hosted, guestVars, reviewVars, userVars, req>>

\* The host's end, in a transaction of the gate, the read and the update.
End ==
    /\ LockFree /\ phase = "running"
    /\ phase' = "ended" /\ hosted' = TRUE
    /\ req' = [q \in Request |-> Changed(req[q])]
    /\ UNCHANGED <<guestVars, reviewVars, userVars>>

Block(u) ==
    /\ u \notin blocked \cup gone
    /\ blocked' = blocked \cup {u}
    /\ UNCHANGED <<eventVars, guestVars, reviewVars, gone, req>>

Unblock(u) ==
    /\ u \in blocked
    /\ blocked' = blocked \ {u}
    /\ UNCHANGED <<eventVars, guestVars, reviewVars, gone, req>>

\* DELETE FROM users: the rows that refer to it go, attendee_count stays.
DeleteAccount(u) ==
    /\ u \notin gone
    /\ gone' = gone \cup {u} /\ blocked' = blocked \ {u}
    /\ status' = [status EXCEPT ![u] = "none"]
    /\ drift' = (drift \/ status[u] = "going")
    /\ confirmed' = confirmed \ {u} /\ closed' = closed \ {u}
    /\ review' = [review EXCEPT ![u] = NoReview]
    /\ UNCHANGED <<eventVars, count, late, req>>

\* A statement fails or the process stops: the transaction leaves nothing.
Fail(p) ==
    /\ ~Idle(p)
    /\ Become(p, Tidy)
    /\ UNCHANGED <<eventVars, guestVars, reviewVars, userVars>>

Next ==
    \/ \E p \in Request :
         \/ \E u \in User :
              \/ \E r \in Reply : Rsvp(p, u, r)
              \/ Confirm(p, u)
              \/ \E edit \in BOOLEAN : Save(p, u, edit)
         \/ RsvpLock(p) \/ RsvpSeats(p) \/ RsvpCommit(p)
         \/ ConfirmGate(p) \/ ConfirmCommit(p)
         \/ SaveGate(p) \/ SaveCommit(p) \/ Fail(p)
    \/ \E u \in User :
         Hide(u) \/ WindowCloses(u) \/ Block(u) \/ Unblock(u) \/ DeleteAccount(u)
    \/ PhasePasses \/ End

Spec == Init /\ [][Next]_vars

-----------------------------------------------------------------------------
(* Properties *)

\* However many answer at once, no more are going than there are seats.
SeatsAreCapped == Cardinality(Going) <= Capacity

\* The cached count is the number of those going, but for guests whose
\* accounts went since the last RSVP, whom it still counts.
CountIsRight ==
    /\ Cardinality(Going) <= count
    /\ ~drift => count = Cardinality(Going)

\* Who reviewed the event was confirmed by its host and counts as going, but
\* for a reply that had waited for the row since before the end.
ReviewersAttended ==
    \A u \in User : review[u].state # "none"
        => u \in confirmed /\ (status[u] = "going" \/ u \in late)

\* Places are fair: none is given twice, all are counted, and only those who
\* had one review.
PlacesAreFair == SeatsAreCapped /\ CountIsRight /\ ReviewersAttended

\* Once the host has ended the event no reply changes any more, not even one
\* that was already waiting for the row.
EndIsRespected ==
    [][hosted => \A u \in User \ gone' : status'[u] = status[u]]_vars

\* A hidden review stays as it is: its author can neither edit it nor write it
\* anew, whichever came first.
HiddenStays ==
    [][\A u \in User \ gone' : review[u].state = "hidden"
                                  => review'[u] = review[u]]_vars

=============================================================================
