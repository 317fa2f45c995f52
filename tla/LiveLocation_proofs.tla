------------------------- MODULE LiveLocation_proofs -------------------------
(***************************************************************************)
(* TLAPS proofs about LiveLocation, for any number of sessions, handlers   *)
(* and instances and any durations and batch size.                         *)
(***************************************************************************)
EXTENDS LiveLocation, TLAPS

USE NoSessionIsFresh

-----------------------------------------------------------------------------
(* Type correctness *)

StateTypes ==
    /\ row \in [Session -> Row]
    /\ blocked \in BOOLEAN
    /\ req \in [Request -> Handler]
    /\ sweep \in [Instance -> [running : BOOLEAN, closed : SUBSET Session]]

SessionKnown ==
    \A p \in Request : req[p].pc \notin {"idle", "endOld", "insert"}
                       => req[p].session \in Session

\* What the assumption says of each parameter.
LEMMA Positive == Duration \in Nat \ {0} /\ Stale \in Nat \ {0}
BY ParametersArePositive

\* The local state of an idle handler is well-typed.
LEMMA TidyType == Tidy \in Handler
BY DEF Tidy, Handler

\* Nothing is shared at first.
LEMMA InitTypeOK == Init => TypeOK
<1> SUFFICES ASSUME Init PROVE TypeOK
    OBVIOUS
<1>1. row \in [Session -> Row]
    <2>1. [state |-> "unused", timed |-> FALSE, left |-> 0, quiet |-> 0,
           reason |-> "none"] \in Row
        BY Positive DEF Row
    <2> QED BY <2>1 DEF Init
<1>2. req \in [Request -> Handler]
    BY TidyType DEF Init
<1>3. \A p \in Request : req[p].pc = "idle"
    BY DEF Init, Tidy
<1> QED BY <1>1, <1>2, <1>3 DEF Init, TypeOK

\* A row that is given a new state and reason of their sets is a row.
LEMMA EndedType ==
    ASSUME NEW h \in Row, NEW r \in {"stopped", "expired", "timeout"}
    PROVE  [h EXCEPT !.state = "ended", !.reason = r] \in Row
BY DEF Row

\* Ending sessions keeps the rows well-typed.
LEMMA EndType ==
    ASSUME row \in [Session -> Row], NEW S,
           NEW r \in [Session -> {"stopped", "expired", "timeout"}],
           End(S, r)
    PROVE  row' \in [Session -> Row]
<1>1. \A s \in Session :
        [row[s] EXCEPT !.state = "ended", !.reason = r[s]] \in Row
    BY EndedType
<1> QED BY <1>1 DEF End

\* Every step keeps the sets the variables range over.
LEMMA NextStateTypes == TypeOK /\ [Next]_vars => StateTypes'
<1> SUFFICES ASSUME TypeOK, [Next]_vars
             PROVE  StateTypes'
    OBVIOUS
<1> USE DEF TypeOK, StateTypes
<1>h. \A p \in Request : req[p] \in Handler
    OBVIOUS
<1>s. \A s \in Session : row[s] \in Row
    OBVIOUS
<1>r. ASSUME NEW p \in Request, NEW h \in Handler, req' = [req EXCEPT ![p] = h]
      PROVE  req' \in [Request -> Handler]
    BY <1>r
<1>a. ASSUME NEW p \in Request, Answer(p)
      PROVE  req' \in [Request -> Handler]
    BY <1>a, TidyType DEF Answer
<1>1. ASSUME NEW p \in Request,
             Start(p) \/ Message(p) \/ UpdateCheck(p) \/ FindRecipients(p)
             \/ Emit(p) \/ Fail(p)
      PROVE  StateTypes'
    <2>1. req' \in [Request -> Handler]
        <3>1. CASE Start(p)
            <4>1. [req[p] EXCEPT !.pc = "endOld", !.event = "started"]
                    \in Handler
                BY <1>h DEF Handler
            <4> QED BY <3>1, <4>1, <1>r DEF Start
        <3>2. CASE Message(p)
            <4>1. [req[p] EXCEPT !.pc = "recipients"] \in Handler
                BY <1>h DEF Handler
            <4> QED BY <3>2, <4>1, <1>a, <1>r DEF Message
        <3>3. CASE UpdateCheck(p)
            <4>1. [req[p] EXCEPT !.pc = "write", !.due = FALSE] \in Handler
                BY <1>h DEF Handler
            <4> QED BY <3>3, <4>1, <1>a, <1>r DEF UpdateCheck
        <3>4. CASE FindRecipients(p)
            <4>1. Recipients \in SUBSET {"sharer", "peer"}
                BY DEF Recipients, Participants
            <4>2. [req[p] EXCEPT !.pc = "emit", !.to = Recipients] \in Handler
                BY <1>h, <4>1 DEF Handler
            <4> QED BY <3>4, <4>2, <1>r DEF FindRecipients
        <3>5. CASE Emit(p) \/ Fail(p)
            BY <3>5, <1>a DEF Emit, Fail
        <3> QED BY <1>1, <3>1, <3>2, <3>3, <3>4, <3>5
    <2> QED BY <1>1, <2>1
            DEF Start, Message, UpdateCheck, FindRecipients, Emit, Fail
<1>2. ASSUME NEW p \in Request, EndOld(p)
      PROVE  StateTypes'
    <2>1. row' \in [Session -> Row]
        <3>1. [s \in Session |-> "stopped"]
                \in [Session -> {"stopped", "expired", "timeout"}]
            OBVIOUS
        <3> QED BY <1>2, <3>1, EndType DEF EndOld
    <2>2. [req[p] EXCEPT !.pc = "insert"] \in Handler
        BY <1>h DEF Handler
    <2>3. req' \in [Request -> Handler]
        BY <1>2, <2>2, <1>r DEF EndOld
    <2> QED BY <1>2, <2>1, <2>3 DEF EndOld
<1>3. ASSUME NEW p \in Request, Insert(p)
      PROVE  StateTypes'
    <2>1. PICK s \in Session, timed \in BOOLEAN :
            /\ row' = [row EXCEPT ![s] =
                         [state |-> "active", timed |-> timed,
                          left |-> IF timed THEN Duration ELSE 0,
                          quiet |-> 0, reason |-> "none"]]
            /\ req' = [req EXCEPT ![p].pc = "message",
                                  ![p].session = Inserted(s),
                                  ![p].held = blocked]
        BY <1>3 DEF Insert, Unused
    <2>2. [state |-> "active", timed |-> timed,
           left |-> IF timed THEN Duration ELSE 0,
           quiet |-> 0, reason |-> "none"] \in Row
        BY Positive DEF Row
    <2>3. [req[p] EXCEPT !.pc = "message", !.session = Inserted(s),
                         !.held = blocked] \in Handler
        BY <1>h DEF Handler, Inserted
    <2>4. req' \in [Request -> Handler]
        BY <2>1, <2>3, <1>r
    <2> QED BY <1>3, <2>1, <2>2, <2>4 DEF Insert
<1>4. ASSUME NEW p \in Request, NEW s \in Session,
             UpdateRead(p, s) \/ StopRead(p, s)
      PROVE  StateTypes'
    <2>1. CASE UpdateRead(p, s)
        <3>1. \A d \in BOOLEAN :
                [Tidy EXCEPT !.pc = "check", !.session = s, !.event = "update",
                             !.due = d] \in Handler
            BY DEF Tidy, Handler
        <3>2. (row[s].quiet > 0) \in BOOLEAN
            OBVIOUS
        <3>3. [Tidy EXCEPT !.pc = "check", !.session = s, !.event = "update",
                           !.due = row[s].quiet > 0] \in Handler
            BY <3>1, <3>2
        <3> QED BY <2>1, <3>3, <1>r DEF UpdateRead
    <2>2. CASE StopRead(p, s)
        <3>1. [Tidy EXCEPT !.pc = "stop", !.session = s, !.event = "ended"]
                \in Handler
            BY DEF Tidy, Handler
        <3> QED BY <2>2, <3>1, <1>r DEF StopRead
    <2> QED BY <1>4, <2>1, <2>2
<1>5. ASSUME NEW p \in Request, UpdateWrite(p)
      PROVE  StateTypes'
    <2>1. row' \in [Session -> Row]
        <3>1. \A s \in Session : [row[s] EXCEPT !.quiet = 0] \in Row
            BY Positive DEF Row
        <3> QED BY <1>5, <3>1 DEF UpdateWrite
    <2>2. [req[p] EXCEPT !.pc = "recipients", !.held = blocked] \in Handler
        BY <1>h DEF Handler
    <2>3. req' \in [Request -> Handler]
        BY <1>5, <2>2, <1>r DEF UpdateWrite
    <2> QED BY <1>5, <2>1, <2>3 DEF UpdateWrite
<1>6. ASSUME NEW p \in Request, StopWrite(p)
      PROVE  StateTypes'
    <2>1. row' \in [Session -> Row]
        <3>1. [s \in Session |-> "stopped"]
                \in [Session -> {"stopped", "expired", "timeout"}]
            OBVIOUS
        <3> QED BY <1>6, <3>1, EndType DEF StopWrite
    <2>2. [req[p] EXCEPT !.pc = "recipients"] \in Handler
        BY <1>h DEF Handler
    <2>3. req' \in [Request -> Handler]
        BY <1>6, <2>2, <1>r DEF StopWrite
    <2> QED BY <1>6, <2>1, <2>3 DEF StopWrite
<1>7. ASSUME NEW i \in Instance, SweepEnd(i)
      PROVE  StateTypes'
    <2>1. PICK S \in SUBSET Session :
            /\ End(S, [s \in Session |-> IF Expired(s) THEN "expired"
                                                       ELSE "timeout"])
            /\ sweep' = [sweep EXCEPT ![i] = [running |-> TRUE, closed |-> S]]
        BY <1>7 DEF SweepEnd
    <2>2. [s \in Session |-> IF Expired(s) THEN "expired" ELSE "timeout"]
            \in [Session -> {"stopped", "expired", "timeout"}]
        OBVIOUS
    <2>3. row' \in [Session -> Row]
        BY <2>1, <2>2, EndType
    <2> QED BY <1>7, <2>1, <2>3 DEF SweepEnd
<1>8. ASSUME NEW i \in Instance, SweepAnnounce(i) \/ SweepFails(i)
      PROVE  StateTypes'
    <2>1. CASE SweepAnnounce(i)
        <3>1. PICK s \in Session :
                sweep' = [sweep EXCEPT ![i] =
                            [running |-> sweep[i].closed # {s},
                             closed  |-> sweep[i].closed \ {s}]]
            BY <2>1 DEF SweepAnnounce
        <3>2. [running |-> sweep[i].closed # {s},
               closed  |-> sweep[i].closed \ {s}]
                \in [running : BOOLEAN, closed : SUBSET Session]
            OBVIOUS
        <3> QED BY <2>1, <3>1, <3>2 DEF SweepAnnounce
    <2>2. CASE SweepFails(i)
        BY <2>2 DEF SweepFails
    <2> QED BY <1>8, <2>1, <2>2
<1>9. CASE Block
    BY <1>9 DEF Block
<1>10. CASE Unblock
    <2>1. \A p \in Request : [req[p] EXCEPT !.held = FALSE] \in Handler
        BY <1>h DEF Handler
    <2> QED BY <1>10, <2>1 DEF Unblock
<1>11. CASE Tick
    <2>1. ASSUME NEW s \in Session
          PROVE  [row[s] EXCEPT
                    !.left = IF row[s].left > 0 THEN row[s].left - 1 ELSE 0,
                    !.quiet = IF row[s].quiet < Stale THEN row[s].quiet + 1
                                                      ELSE Stale] \in Row
        <3>1. /\ row[s].left \in 0..Duration
              /\ row[s].quiet \in 0..Stale
            BY <1>s DEF Row
        <3>2. /\ (IF row[s].left > 0 THEN row[s].left - 1 ELSE 0)
                    \in 0..Duration
              /\ (IF row[s].quiet < Stale THEN row[s].quiet + 1 ELSE Stale)
                    \in 0..Stale
            BY <3>1, Positive
        <3> QED BY <1>s, <3>2 DEF Row
    <2>2. \A p \in Request :
            [req[p] EXCEPT !.due = req[p].due \/ req[p].pc = "check"] \in Handler
        BY <1>h DEF Handler
    <2>3. row' \in [Session -> Row]
        BY <1>11, <2>1, <1>s DEF Tick
    <2>4. req' \in [Request -> Handler]
        BY <1>11, <2>2 DEF Tick
    <2> QED BY <1>11, <2>3, <2>4 DEF Tick
<1>12. CASE UNCHANGED vars
    BY <1>12 DEF vars
<1> QED
    BY <1>1, <1>2, <1>3, <1>4, <1>5, <1>6, <1>7, <1>8, <1>9, <1>10, <1>11,
       <1>12 DEF Next, Handle, Sweeping

\* A handler past its first statement knows its session: it was read with the
\* row or returned by the insert.
LEMMA NextSessionKnown == TypeOK /\ [Next]_vars => SessionKnown'
<1> SUFFICES ASSUME TypeOK, [Next]_vars, NEW q \in Request
             PROVE  req'[q].pc \notin {"idle", "endOld", "insert"}
                    => req'[q].session \in Session
    BY DEF SessionKnown
<1> USE DEF TypeOK
<1>h. \A p \in Request : req[p] \in Handler
    OBVIOUS
<1>1. ASSUME NEW p \in Request,
             Start(p) \/ EndOld(p) \/ Answer(p)
      PROVE  req'[p].pc \in {"idle", "endOld", "insert"}
             /\ (q # p => req'[q] = req[q])
    BY <1>1, <1>h DEF Start, EndOld, Answer, Tidy, Handler
<1>2. ASSUME NEW p \in Request, NEW s \in Session,
             UpdateRead(p, s) \/ StopRead(p, s)
      PROVE  req'[p].session = s /\ (q # p => req'[q] = req[q])
    <2>1. PICK d \in {row[s].quiet > 0} :
            \/ req' = [req EXCEPT ![p] =
                         [Tidy EXCEPT !.pc = "check", !.session = s,
                                      !.event = "update", !.due = d]]
            \/ req' = [req EXCEPT ![p] =
                         [Tidy EXCEPT !.pc = "stop", !.session = s,
                                      !.event = "ended"]]
        BY <1>2 DEF UpdateRead, StopRead
    <2> QED BY <2>1 DEF Tidy
<1>3. ASSUME NEW p \in Request, Insert(p)
      PROVE  req'[p].session \in Session /\ (q # p => req'[q] = req[q])
    BY <1>3, <1>h DEF Insert, Inserted, Unused, Handler
<1>4. ASSUME NEW p \in Request,
             Message(p) \/ UpdateCheck(p) \/ UpdateWrite(p) \/ StopWrite(p)
             \/ FindRecipients(p)
      PROVE  \/ Answer(p)
             \/ /\ req'[p].session = req[p].session
                /\ req[p].pc \notin {"idle", "endOld", "insert"}
                /\ q # p => req'[q] = req[q]
    BY <1>4, <1>h DEF Message, UpdateCheck, UpdateWrite, StopWrite,
       FindRecipients, Handler
<1>5. ASSUME NEW p \in Request, Emit(p) \/ Fail(p)
      PROVE  Answer(p)
    BY <1>5 DEF Emit, Fail
<1>6. ASSUME NEW p \in Request, Handle(p)
      PROVE  req'[q].pc \notin {"idle", "endOld", "insert"}
             => req'[q].session \in Session
    BY <1>6, <1>1, <1>2, <1>3, <1>4, <1>5 DEF Handle
<1>7. CASE Unblock \/ Tick
    <2>1. req'[q].pc = req[q].pc /\ req'[q].session = req[q].session
        <3>1. CASE Unblock
            BY <3>1, <1>h DEF Unblock, Handler
        <3>2. CASE Tick
            <4>1. \A d : LET h == [req[q] EXCEPT !.due = d] IN
                         h.pc = req[q].pc /\ h.session = req[q].session
                BY <1>h DEF Handler
            <4> QED BY <3>2, <4>1 DEF Tick
        <3> QED BY <1>7, <3>1, <3>2
    <2> QED BY <2>1
<1>8. CASE \/ \E i \in Instance : Sweeping(i) \/ SweepFails(i)
           \/ Block \/ UNCHANGED vars
    BY <1>8 DEF Sweeping, SweepEnd, SweepAnnounce, SweepFails, Block, vars
<1> QED BY <1>6, <1>7, <1>8 DEF Next

\* In every state each variable has its type, and a handler past its first
\* statement (service methods start, update and stop) names a session.
THEOREM TypeCorrect == Spec => []TypeOK
<1>1. TypeOK /\ [Next]_vars => TypeOK'
    BY NextStateTypes, NextSessionKnown DEF StateTypes, SessionKnown, TypeOK
<1> QED BY InitTypeOK, <1>1, PTL DEF Spec

-----------------------------------------------------------------------------
(* An end is final *)

\* What a step may not do to an ended session's row.
EndKept == \A s \in Session : row[s].state = "ended" => row'[s] = row[s]

\* Ending active sessions leaves the ended ones as they are.
LEMMA EndKeeps ==
    ASSUME NEW S, NEW r, End({s \in S : Active(s)}, r)
    PROVE  EndKept
BY DEF End, EndKept, Active

\* Every statement that writes a row selects active or unused rows.
LEMMA StepKeepsEnded == TypeOK /\ [Next]_vars => EndKept
<1> SUFFICES ASSUME TypeOK, [Next]_vars
             PROVE  EndKept
    OBVIOUS
<1>1. ASSUME NEW p \in Request, EndOld(p) \/ StopWrite(p)
      PROVE  EndKept
    BY <1>1, EndKeeps DEF EndOld, StopWrite, Accepts
<1>2. ASSUME NEW p \in Request, Insert(p)
      PROVE  EndKept
    BY <1>2 DEF Insert, Unused, EndKept, TypeOK
<1>3. ASSUME NEW p \in Request, UpdateWrite(p)
      PROVE  EndKept
    BY <1>3 DEF UpdateWrite, Accepts, Active, EndKept, TypeOK
<1>4. ASSUME NEW i \in Instance, SweepEnd(i)
      PROVE  EndKept
    <2>1. PICK S, r : End(S, r) /\ \A s \in S : Active(s)
        BY <1>4 DEF SweepEnd, Over
    <2> QED BY <2>1 DEF End, EndKept, Active
<1>5. CASE Tick
    BY <1>5 DEF Tick, EndKept, Active
<1>6. CASE row' = row
    BY <1>6 DEF EndKept
<1> QED
    BY <1>1, <1>2, <1>3, <1>4, <1>5, <1>6
    DEF Next, Handle, Sweeping, Start, Message, UpdateRead, StopRead,
        UpdateCheck, FindRecipients, Emit, Fail, SweepAnnounce, SweepFails,
        Block, Unblock, vars

\* No late update, stop or sweep, of whatever device or instance, revives an
\* ended session, moves its position or rewrites the reason it ended for.
THEOREM EndsAreFinal == Spec => EndIsFinal
<1>1. TypeOK /\ [Next]_vars
      => [\A s \in Session : row[s].state = "ended" => row'[s] = row[s]]_vars
    BY StepKeepsEnded DEF EndKept
<1> QED BY <1>1, TypeCorrect, PTL DEF Spec, EndIsFinal

-----------------------------------------------------------------------------
(* The blocked see nothing *)

\* The history of a handler is what its name says.
HeldMeansBlocked == \A p \in Request : req[p].held => blocked

\* The property and what it needs of the steps before the announcement.
BlockInv == HeldMeansBlocked /\ BlockedSeeNothing

\* No handler has written anything at first.
LEMMA InitBlockInv == Init => BlockInv
BY DEF Init, BlockInv, HeldMeansBlocked, BlockedSeeNothing, Tidy

\* A position written under a block meets the block again when its recipients
\* are looked up, unless the block was lifted in between.
LEMMA NextBlockInv == TypeOK /\ BlockInv /\ [Next]_vars => BlockInv'
<1> SUFFICES ASSUME TypeOK, BlockInv, [Next]_vars
             PROVE  BlockInv'
    OBVIOUS
<1> DEFINE Good(h, b) == /\ h.held => b
                         /\ h.pc = "emit" /\ h.event # "ended" /\ h.held
                            => "peer" \notin h.to
<1>g. \A p \in Request : Good(req[p], blocked)
    BY DEF BlockInv, HeldMeansBlocked, BlockedSeeNothing
<1>h. \A p \in Request : req[p] \in Handler
    BY DEF TypeOK
<1>f. req \in [Request -> Handler]
    BY DEF TypeOK
<1> SUFFICES ASSUME NEW q \in Request
             PROVE  Good(req'[q], blocked')
    BY DEF BlockInv, HeldMeansBlocked, BlockedSeeNothing
<1>1. ASSUME NEW p \in Request, Answer(p), blocked' = blocked
      PROVE  Good(req'[q], blocked')
    BY <1>1, <1>g, <1>f DEF Answer, Tidy
<1>2. ASSUME NEW p \in Request, Start(p) \/ EndOld(p) \/ Insert(p)
      PROVE  Good(req'[q], blocked')
    <2>1. CASE Start(p)
        BY <2>1, <1>g, <1>f, <1>h DEF Start, Handler
    <2>2. CASE EndOld(p)
        BY <2>2, <1>g, <1>f, <1>h DEF EndOld, Handler
    <2>3. CASE Insert(p)
        <3>1. PICK s \in Session :
                req' = [req EXCEPT ![p] =
                          [req[p] EXCEPT !.pc = "message",
                                         !.session = Inserted(s),
                                         !.held = blocked]]
            BY <2>3 DEF Insert, Unused
        <3>2. blocked' = blocked
            BY <2>3 DEF Insert
        <3> QED BY <3>1, <3>2, <1>g, <1>f, <1>h DEF Handler
    <2> QED BY <1>2, <2>1, <2>2, <2>3
<1>3. ASSUME NEW p \in Request, Message(p) \/ UpdateCheck(p)
      PROVE  Good(req'[q], blocked')
    BY <1>1, <1>3, <1>g, <1>f, <1>h DEF Message, UpdateCheck, Handler
<1>4. ASSUME NEW p \in Request, UpdateWrite(p) \/ StopWrite(p)
      PROVE  Good(req'[q], blocked')
    BY <1>4, <1>g, <1>f, <1>h DEF UpdateWrite, StopWrite, Handler
<1>5. ASSUME NEW p \in Request, NEW s \in Session,
             UpdateRead(p, s) \/ StopRead(p, s)
      PROVE  Good(req'[q], blocked')
    <2>1. PICK h : /\ req' = [req EXCEPT ![p] = h]
                   /\ h.pc # "emit" /\ ~h.held
        <3>1. CASE UpdateRead(p, s)
            <4> DEFINE h == [Tidy EXCEPT !.pc = "check", !.session = s,
                                         !.event = "update",
                                         !.due = row[s].quiet > 0]
            <4>1. h.pc # "emit" /\ ~h.held
                BY DEF Tidy
            <4>2. req' = [req EXCEPT ![p] = h]
                BY <3>1 DEF UpdateRead
            <4> HIDE DEF h
            <4> QED BY <4>1, <4>2
        <3>2. CASE StopRead(p, s)
            <4> DEFINE h == [Tidy EXCEPT !.pc = "stop", !.session = s,
                                         !.event = "ended"]
            <4>1. h.pc # "emit" /\ ~h.held
                BY DEF Tidy
            <4>2. req' = [req EXCEPT ![p] = h]
                BY <3>2 DEF StopRead
            <4> HIDE DEF h
            <4> QED BY <4>1, <4>2
        <3> QED BY <1>5, <3>1, <3>2
    <2>2. blocked' = blocked
        BY <1>5 DEF UpdateRead, StopRead
    <2> QED BY <2>1, <2>2, <1>g, <1>f
<1>6. ASSUME NEW p \in Request, FindRecipients(p)
      PROVE  Good(req'[q], blocked')
    BY <1>6, <1>g, <1>f, <1>h DEF FindRecipients, Recipients, Handler
<1>7. ASSUME NEW p \in Request, Emit(p) \/ Fail(p)
      PROVE  Good(req'[q], blocked')
    BY <1>7, <1>1 DEF Emit, Fail
<1>8. CASE Block
    BY <1>8, <1>g DEF Block
<1>9. CASE Unblock \/ Tick
    <2>1. CASE Unblock
        BY <2>1, <1>g, <1>h DEF Unblock, Handler
    <2>2. CASE Tick
        <3>1. \A d : LET h == [req[q] EXCEPT !.due = d] IN
                     /\ h.pc = req[q].pc /\ h.event = req[q].event
                     /\ h.held = req[q].held /\ h.to = req[q].to
            BY <1>h DEF Handler
        <3>2. blocked' = blocked
            BY <2>2 DEF Tick
        <3>3. PICK d : req'[q] = [req[q] EXCEPT !.due = d]
            BY <2>2 DEF Tick
        <3>4. /\ req'[q].pc = req[q].pc /\ req'[q].event = req[q].event
              /\ req'[q].held = req[q].held /\ req'[q].to = req[q].to
            BY <3>1, <3>3
        <3> QED BY <3>2, <3>4, <1>g
    <2> QED BY <1>9, <2>1, <2>2
<1>10. CASE UNCHANGED <<req, blocked>>
    BY <1>10, <1>g
<1> QED
    BY <1>2, <1>3, <1>4, <1>5, <1>6, <1>7, <1>8, <1>9, <1>10
    DEF Next, Handle, Sweeping, SweepEnd, SweepAnnounce, SweepFails, vars

\* A position written while one participant has blocked the other reaches
\* nobody (getEmitRecipientIds), whenever the block fell.
THEOREM BlockedStayBlind == Spec => []BlockedSeeNothing
<1>1. BlockInv => BlockedSeeNothing
    BY DEF BlockInv
<1> QED BY InitBlockInv, NextBlockInv, TypeCorrect, <1>1, PTL DEF Spec
=============================================================================
