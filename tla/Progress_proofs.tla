-------------------------- MODULE Progress_proofs --------------------------
(***************************************************************************)
(* Proofs about the offers on one listing, the app's session and the sweep *)
(* of expired listings, for any number of buyers, handlers, calls, tokens, *)
(* restarts, workers and versions.                                         *)
(***************************************************************************)
EXTENDS MCProgress, WellFoundedInduction, TLAPS

-----------------------------------------------------------------------------
(* The offers *)

Handler == [pc : {"idle", "make", "counter", "lock", "sell", "sweep", "commit"},
            buyer : Buyer \cup {NoBuyer}, by : {"buyer", "seller"},
            verdict : {"accepted", "declined"}, others : SUBSET Buyer]

\* The listing begins with no offer.
LEMMA InitTypeOK == Init => TypeOK
BY DEF Init, TypeOK, Idle, Status, Offer

\* The records an action assigns have their types.
LEMMA IdleHandler == Idle \in Handler /\ Idle.pc = "idle" /\ Idle.others = {}
BY DEF Idle, Handler

\* Opening an offer keeps the types.
LEMMA OpenTypes ==
    ASSUME TypeOK, NEW b \in Buyer, NEW actor \in {"buyer", "seller"}, Open(b, actor)
    PROVE  offer' \in [Buyer -> Offer] /\ late' \subseteq Buyer
BY DEF TypeOK, Open, Offer

\* What the end of a transaction does to the handlers has its type.
LEMMA ReleaseTypes ==
    ASSUME SoundConstants, TypeOK, NEW p \in Request, Release(p)
    PROVE  /\ req' \in [Request -> Handler]
           /\ \A q \in Request : req'[q].pc # "idle" => req'[q].buyer \in Buyer
           /\ selling' \in Request \cup {NoRequest}
           /\ selling' # NoRequest => req'[selling'].pc \in {"sweep", "commit"}
BY IdleHandler DEF TypeOK, Release, Handler, SoundConstants

\* An idle handler begins, with its locals in r.
LEMMA BeginTypes ==
    ASSUME SoundConstants, TypeOK, NEW p \in Request, req[p].pc = "idle",
           NEW r \in Handler, r.pc # "idle" => r.buyer \in Buyer,
           req' = [req EXCEPT ![p] = r], UNCHANGED <<status, offer, selling, winners, late>>
    PROVE  TypeOK'
<1>1. \A q \in Request : req'[q] = (IF q = p THEN r ELSE req[q])
    BY DEF TypeOK
<1>2. selling # NoRequest => selling \in Request /\ selling # p
    BY DEF TypeOK
<1>3. req' \in [Request -> Handler]
    BY DEF TypeOK, Handler
<1> QED BY <1>1, <1>2, <1>3 DEF TypeOK, Handler

\* Every step keeps the types.
LEMMA NextTypeOK ==
    ASSUME SoundConstants, TypeOK, [Next]_vars
    PROVE  TypeOK'
<1> USE DEF Handler
<1>1. ASSUME NEW p \in Request, NEW b \in Buyer, MakeCheck(p, b) \/ CounterCheck(p, b)
      PROVE  TypeOK'
    <2> DEFINE r(pc) == [Idle EXCEPT !.pc = pc, !.buyer = b]
    <2>1. \A pc \in {"make", "counter"} : r(pc) \in Handler /\ r(pc).buyer \in Buyer
        BY DEF Idle
    <2>2. CASE MakeCheck(p, b)
        BY <2>1, <2>2, BeginTypes DEF MakeCheck
    <2>3. CASE CounterCheck(p, b)
        BY <2>1, <2>3, BeginTypes DEF CounterCheck
    <2> QED BY <1>1, <2>2, <2>3
<1>2. ASSUME NEW p \in Request, NEW b \in Buyer, NEW by \in {"buyer", "seller"},
             NEW v \in {"accepted", "declined"}, RespondRead(p, b, by, v)
      PROVE  TypeOK'
    <2> DEFINE r == [Idle EXCEPT !.pc = "lock", !.buyer = b, !.by = by, !.verdict = v]
    <2>1. r \in Handler /\ r.buyer \in Buyer
        BY DEF Idle
    <2> QED BY <1>2, <2>1, BeginTypes DEF RespondRead
<1>3. ASSUME NEW p \in Request, MakeWrite(p) \/ CounterWrite(p)
      PROVE  TypeOK'
    <2>1. req[p].buyer \in Buyer
        BY <1>3 DEF MakeWrite, CounterWrite, TypeOK
    <2>2. offer' \in [Buyer -> Offer] /\ late' \subseteq Buyer
        BY <1>3, <2>1, OpenTypes DEF MakeWrite, CounterWrite
    <2> QED BY <1>3, <2>2, IdleHandler DEF MakeWrite, CounterWrite, TypeOK
<1>4. ASSUME NEW p \in Request, RespondLock(p)
      PROVE  TypeOK'
    BY <1>4, IdleHandler DEF RespondLock, TypeOK
<1>5. ASSUME NEW p \in Request, SellListing(p) \/ SeeOthers(p)
      PROVE  TypeOK'
    BY <1>5 DEF SellListing, SeeOthers, TypeOK
<1>6. ASSUME NEW p \in Request, Commit(p)
      PROVE  TypeOK'
    <2>1. req[p].buyer \in Buyer /\ req[p].verdict \in {"accepted", "declined"}
        BY <1>6 DEF Commit, TypeOK
    <2>2. offer' \in [Buyer -> Offer]
        BY <1>6, <2>1 DEF Commit, TypeOK, Offer
    <2>3. status' \in Status /\ winners' \subseteq Buyer /\ late' \subseteq Buyer
        BY <1>6, <2>1 DEF Commit, TypeOK, Status
    <2> QED BY <1>6, <2>2, <2>3, ReleaseTypes DEF Commit, TypeOK
<1>7. ASSUME NEW p \in Request, DeadlockAbort(p) \/ Crash(p)
      PROVE  TypeOK'
    BY <1>7, ReleaseTypes DEF DeadlockAbort, Crash, TypeOK
<1>8. ASSUME NEW b \in Buyer, Withdraw(b)
      PROVE  TypeOK'
    BY <1>8 DEF Withdraw, TypeOK, Offer
<1>9. ASSUME NEW s \in Status, UpdateStatus(s)
      PROVE  TypeOK'
    BY <1>9 DEF UpdateStatus, TypeOK
<1>10. CASE UNCHANGED vars
    BY <1>10 DEF vars, TypeOK
<1> QED BY <1>1, <1>2, <1>3, <1>4, <1>5, <1>6, <1>7, <1>8, <1>9, <1>10 DEF Next, Finish

\* Every reachable state of a listing and its offers has its type.
THEOREM TypeCorrect == ASSUME SoundConstants PROVE Spec => []TypeOK
<1>1. TypeOK /\ [Next]_vars => TypeOK'
    BY NextTypeOK
<1> QED BY <1>1, InitTypeOK, PTL DEF Spec

-----------------------------------------------------------------------------
(* Rival acceptances.  What a transaction has locked stays as it found it,   *)
(* and an offer that is pending while an acceptance holds the listing is     *)
(* either swept by it or has been opened after its look.                     *)

Holding(p) == req[p].pc \in {"sell", "sweep", "commit"}
Accepting(p) == req[p].pc = "commit" /\ req[p].verdict = "accepted"

\* A row is locked by one response.
LocksExclude ==
    \A p, q \in Request : Holding(p) /\ Holding(q) /\ p # q => req[p].buyer # req[q].buyer

\* A locked offer stays what its response found it to be.
LockedStands ==
    \A p \in Request : Holding(p) =>
        /\ offer[req[p].buyer].state = "pending"
        /\ MayAnswer(req[p].buyer, req[p].by)

\* The listing is sold by one response at a time, and only by acceptances.
SellerHolds ==
    \A p \in Request :
        /\ req[p].pc = "sweep" \/ Accepting(p) => selling = p
        /\ req[p].pc \in {"sell", "sweep"} => req[p].verdict = "accepted"

\* An acceptance about to commit declines every other offer that is pending,
\* but for those opened since it looked.
SweptOrLate ==
    \A p \in Request : Accepting(p) =>
        \A b \in Buyer \ {req[p].buyer} :
            offer[b].state = "pending" => b \in req[p].others \/ b \in late

\* After an acceptance only late offers are pending.
PendingIsLate ==
    winners # {} => \A b \in Buyer : offer[b].state = "pending" => b \in late

OfferInv ==
    /\ LocksExclude /\ LockedStands /\ SellerHolds
    /\ SweptOrLate /\ PendingIsLate /\ RivalAcceptsExclude

\* Nothing is locked or sold at first.
LEMMA InitOfferInv == Init => OfferInv
BY DEF Init, OfferInv, LocksExclude, LockedStands, SellerHolds, SweptOrLate, PendingIsLate,
       RivalAcceptsExclude, Holding, Accepting, Idle

\* A handler that ends takes nothing from the others, and opens nothing.
LEMMA EndsQuietly ==
    ASSUME SoundConstants, TypeOK, OfferInv, NEW p \in Request, Release(p),
           UNCHANGED <<offer, winners, late>>
    PROVE  OfferInv'
<1>1. \A q \in Request : req'[q] = (IF q = p THEN Idle ELSE req[q])
    BY DEF Release, TypeOK
<1>2. ~Holding(p)' /\ ~Accepting(p)' /\ req'[p].pc \notin {"sell", "sweep"}
    BY <1>1 DEF Holding, Accepting, Idle
<1>3. \A q \in Request \ {p} : /\ Holding(q)' = Holding(q) /\ Accepting(q)' = Accepting(q)
                               /\ req'[q] = req[q] /\ (selling = q => selling' = q)
    BY <1>1 DEF Holding, Accepting, Release
<1> QED BY <1>2, <1>3 DEF OfferInv, LocksExclude, LockedStands, MayAnswer, SellerHolds,
        SweptOrLate, PendingIsLate, RivalAcceptsExclude

\* A handler outside its transaction begins, or opens an offer nobody locks.
LEMMA OpensLate ==
    ASSUME SoundConstants, TypeOK, OfferInv, NEW p \in Request,
           ~Holding(p), MakeWrite(p) \/ CounterWrite(p)
    PROVE  OfferInv'
<1> DEFINE b == req[p].buyer
<1>1. b \in Buyer /\ OfferFree(b)
    BY DEF MakeWrite, CounterWrite, TypeOK
<1>2. \A q \in Request : req'[q] = (IF q = p THEN Idle ELSE req[q])
    BY DEF MakeWrite, CounterWrite, TypeOK
<1>3. /\ \A d \in Buyer \ {b} : offer'[d] = offer[d]
      /\ late' = (IF winners # {} \/ \E q \in Request : req[q].pc = "commit"
                  THEN late \cup {b} ELSE late)
      /\ UNCHANGED <<selling, winners>>
    BY DEF MakeWrite, CounterWrite, Open, TypeOK
<1>4. ASSUME NEW q \in Request, Holding(q)'
      PROVE  /\ q # p /\ Holding(q) /\ req'[q] = req[q]
             /\ req[q].buyer # b /\ req[q].buyer \in Buyer
    <2>1. q # p /\ req'[q] = req[q] /\ Holding(q)
        BY <1>2, <1>4 DEF Holding, Idle
    <2>2. Locks(q) = {req[q].buyer}
        BY <2>1 DEF Holding, Locks
    <2> QED BY <1>1, <2>1, <2>2 DEF OfferFree, Holding, TypeOK
<1>5. \A q \in Request : Accepting(q)' => Holding(q)' /\ Accepting(q) /\ b \in late'
    BY <1>2, <1>3 DEF Accepting, Holding, Idle
<1>6. LocksExclude' /\ LockedStands'
    BY <1>3, <1>4 DEF OfferInv, LocksExclude, LockedStands, MayAnswer
<1>7. SellerHolds'
    BY <1>2, <1>3 DEF OfferInv, SellerHolds, Accepting, Idle
<1>8. SweptOrLate'
    BY <1>3, <1>4, <1>5 DEF OfferInv, SweptOrLate
<1>9. PendingIsLate' /\ RivalAcceptsExclude'
    BY <1>3 DEF OfferInv, PendingIsLate, RivalAcceptsExclude
<1> QED BY <1>6, <1>7, <1>8, <1>9 DEF OfferInv

\* A handler that locks nothing before its step and nothing after it.
LEMMA Begins ==
    ASSUME SoundConstants, TypeOK, OfferInv, NEW p \in Request, ~Holding(p), NEW r,
           r.pc \notin {"sell", "sweep", "commit"}, req' = [req EXCEPT ![p] = r],
           UNCHANGED <<offer, selling, winners, late>>
    PROVE  OfferInv'
<1>1. \A q \in Request : req'[q] = (IF q = p THEN r ELSE req[q])
    BY DEF TypeOK
<1>2. ~Holding(p)' /\ ~Accepting(p)' /\ req'[p].pc \notin {"sell", "sweep"}
    BY <1>1 DEF Holding, Accepting
<1>3. \A q \in Request \ {p} : /\ Holding(q)' = Holding(q) /\ Accepting(q)' = Accepting(q)
                               /\ req'[q] = req[q]
    BY <1>1 DEF Holding, Accepting
<1> QED BY <1>2, <1>3 DEF OfferInv, LocksExclude, LockedStands, MayAnswer, SellerHolds,
        SweptOrLate, PendingIsLate, RivalAcceptsExclude

\* A response moves on inside its transaction, or takes the lock it found free.
LEMMA MovesOn ==
    ASSUME SoundConstants, TypeOK, OfferInv, NEW p \in Request, NEW pc,
           NEW others, req' = [req EXCEPT ![p] = [@ EXCEPT !.pc = pc, !.others = others]],
           UNCHANGED <<offer, winners, late>>,
           Holding(p) \/ OfferFree(req[p].buyer),
           offer[req[p].buyer].state = "pending", MayAnswer(req[p].buyer, req[p].by),
           pc \in {"sweep", "commit"} /\ req[p].verdict = "accepted" => selling' = p,
           pc \in {"sell", "sweep"} => req[p].verdict = "accepted",
           \A q \in Request \ {p} : selling = q => selling' = q,
           pc = "commit" /\ req[p].verdict = "accepted" =>
               \A b \in Buyer \ {req[p].buyer} : offer[b].state = "pending" => b \in others
    PROVE  OfferInv'
<1>1. \A q \in Request \ {p} : req'[q] = req[q]
    BY DEF TypeOK
<1>2. /\ req'[p].pc = pc /\ req'[p].buyer = req[p].buyer /\ req'[p].by = req[p].by
      /\ req'[p].verdict = req[p].verdict /\ req'[p].others = others
    BY DEF TypeOK
<1>3. \A q \in Request \ {p} : Holding(q)' = Holding(q) /\ Accepting(q)' = Accepting(q)
    BY <1>1 DEF Holding, Accepting
<1>4. \A q \in Request \ {p} : Holding(q) => req[q].buyer # req[p].buyer
    <2> SUFFICES ASSUME NEW q \in Request \ {p}, Holding(q)
                 PROVE  req[q].buyer # req[p].buyer
        OBVIOUS
    <2>1. Locks(q) = {req[q].buyer}
        BY DEF Holding, Locks
    <2>2. CASE Holding(p)
        BY <2>2 DEF OfferInv, LocksExclude
    <2>3. CASE OfferFree(req[p].buyer)
        BY <2>1, <2>3 DEF OfferFree
    <2> QED BY <2>2, <2>3
<1>5. LocksExclude'
    BY <1>1, <1>2, <1>3, <1>4 DEF OfferInv, LocksExclude
<1>6. LockedStands'
    BY <1>1, <1>2, <1>3 DEF OfferInv, LockedStands, MayAnswer
<1>7. SellerHolds'
    BY <1>1, <1>2, <1>3 DEF OfferInv, SellerHolds, Accepting
<1>8. SweptOrLate'
    BY <1>1, <1>2, <1>3 DEF OfferInv, SweptOrLate, Accepting
<1>9. PendingIsLate' /\ RivalAcceptsExclude'
    BY DEF OfferInv, PendingIsLate, RivalAcceptsExclude
<1> QED BY <1>5, <1>6, <1>7, <1>8, <1>9 DEF OfferInv

\* A response locks an offer that is pending and that it may answer, or ends.
LEMMA TakesLock ==
    ASSUME SoundConstants, TypeOK, OfferInv, NEW p \in Request, RespondLock(p)
    PROVE  OfferInv'
<1> DEFINE found == offer[req[p].buyer].state = "pending" /\ MayAnswer(req[p].buyer, req[p].by)
<1> DEFINE pc == IF req[p].verdict = "accepted" THEN "sell" ELSE "commit"
<1>1. CASE found
    <2>1. req' = [req EXCEPT ![p] = [@ EXCEPT !.pc = pc]]
        BY <1>1 DEF RespondLock
    <2>2. req' = [req EXCEPT ![p] = [@ EXCEPT !.pc = pc, !.others = req[p].others]]
        BY <2>1 DEF TypeOK
    <2>3. OfferFree(req[p].buyer) /\ UNCHANGED <<offer, selling, winners, late>>
        BY DEF RespondLock
    <2>4. /\ pc \in {"sweep", "commit"} => req[p].verdict # "accepted"
          /\ pc \in {"sell", "sweep"} => req[p].verdict = "accepted"
        OBVIOUS
    <2> HIDE DEF pc
    <2> QED BY <1>1, <2>2, <2>3, <2>4, MovesOn
<1>2. CASE ~found
    <2>1. req' = [req EXCEPT ![p] = Idle] /\ ~Holding(p)
        BY <1>2 DEF RespondLock, Holding
    <2> QED BY <2>1, Begins, IdleHandler DEF RespondLock
<1> QED BY <1>1, <1>2

\* An acceptance takes the listing, then sees the other pending offers.
LEMMA SellsOrSweeps ==
    ASSUME SoundConstants, TypeOK, OfferInv, NEW p \in Request, SellListing(p) \/ SeeOthers(p)
    PROVE  OfferInv'
<1>1. Holding(p) /\ req[p].verdict = "accepted"
    BY DEF SellListing, SeeOthers, Holding, OfferInv, SellerHolds
<1>2. offer[req[p].buyer].state = "pending" /\ MayAnswer(req[p].buyer, req[p].by)
    BY <1>1 DEF OfferInv, LockedStands
<1>3. CASE SellListing(p)
    <2>1. req' = [req EXCEPT ![p] = [@ EXCEPT !.pc = "sweep", !.others = req[p].others]]
        BY <1>3 DEF SellListing, TypeOK
    <2>2. selling' = p /\ UNCHANGED <<offer, winners, late>>
        BY <1>3 DEF SellListing
    <2>3. \A q \in Request \ {p} : selling = q => selling' = q
        BY <1>3 DEF SellListing, SoundConstants
    <2> QED BY <1>1, <1>2, <2>1, <2>2, <2>3, MovesOn
<1>4. CASE SeeOthers(p)
    <2> DEFINE seen == {b \in Buyer \ {req[p].buyer} : offer[b].state = "pending"}
    <2>1. req' = [req EXCEPT ![p] = [@ EXCEPT !.pc = "commit", !.others = seen]]
        BY <1>4 DEF SeeOthers, TypeOK
    <2>2. selling = p
        BY <1>4 DEF SeeOthers, OfferInv, SellerHolds
    <2>3. UNCHANGED <<offer, selling, winners, late>>
        BY <1>4 DEF SeeOthers
    <2>4. \A b \in Buyer \ {req[p].buyer} : offer[b].state = "pending" => b \in seen
        OBVIOUS
    <2> HIDE DEF seen
    <2> QED BY <1>1, <1>2, <2>1, <2>2, <2>3, <2>4, MovesOn
<1> QED BY <1>3, <1>4

\* The commit decides the offer it holds, which was pending until then, and
\* leaves pending only what it did not sweep.
LEMMA CommitDecides ==
    ASSUME SoundConstants, TypeOK, OfferInv, NEW p \in Request, Commit(p)
    PROVE  OfferInv'
<1> DEFINE b == req[p].buyer
<1>1. Holding(p) /\ b \in Buyer /\ offer[b].state = "pending"
    BY DEF Commit, Holding, OfferInv, LockedStands, TypeOK
<1>2. \A q \in Request : req'[q] = (IF q = p THEN Idle ELSE req[q])
    BY DEF Commit, Release, TypeOK
<1>3. ~Holding(p)' /\ ~Accepting(p)' /\ req'[p].pc \notin {"sell", "sweep"}
    BY <1>2 DEF Holding, Accepting, Idle
<1>4. \A q \in Request \ {p} : /\ Holding(q)' = Holding(q) /\ Accepting(q)' = Accepting(q)
                               /\ req'[q] = req[q] /\ (selling = q => selling' = q)
    BY <1>2 DEF Holding, Accepting, Commit, Release
<1>5. \A d \in Buyer : offer'[d].state = "pending" =>
          d # b /\ d \notin req[p].others /\ offer[d].state = "pending"
    BY DEF Commit, TypeOK, Offer
<1>6. \A q \in Request \ {p} : Holding(q) => offer'[req[q].buyer] = offer[req[q].buyer]
    <2> SUFFICES ASSUME NEW q \in Request \ {p}, Holding(q)
                 PROVE  offer'[req[q].buyer] = offer[req[q].buyer]
        OBVIOUS
    <2>1. Locks(q) = {req[q].buyer} /\ req[q].buyer \in Buyer
        BY DEF Holding, Locks, TypeOK
    <2>2. req[q].buyer \notin req[p].others
        BY <2>1 DEF Commit, OthersFree
    <2>3. req[q].buyer # b
        BY <1>1 DEF OfferInv, LocksExclude
    <2> QED BY <2>1, <2>2, <2>3 DEF Commit
<1>7. LocksExclude'
    BY <1>3, <1>4 DEF OfferInv, LocksExclude
<1>8. LockedStands'
    BY <1>3, <1>4, <1>6 DEF OfferInv, LockedStands, MayAnswer
<1>9. SellerHolds'
    BY <1>3, <1>4 DEF OfferInv, SellerHolds
<1>10. SweptOrLate'
    BY <1>3, <1>4, <1>5 DEF OfferInv, SweptOrLate, Commit
<1>11. CASE req[p].verdict = "accepted"
    <2>1. winners' = winners \cup {b} /\ late' = late /\ Accepting(p)
        BY <1>11 DEF Commit, Accepting
    <2>2. PendingIsLate'
        BY <1>5, <2>1 DEF OfferInv, SweptOrLate, PendingIsLate
    <2>3. winners # {} => b \in late
        BY <1>1 DEF OfferInv, PendingIsLate
    <2>4. RivalAcceptsExclude'
        BY <2>1, <2>3 DEF OfferInv, RivalAcceptsExclude
    <2> QED BY <1>7, <1>8, <1>9, <1>10, <2>2, <2>4 DEF OfferInv
<1>12. CASE req[p].verdict # "accepted"
    <2>1. UNCHANGED <<winners, late>>
        BY <1>12 DEF Commit
    <2>2. PendingIsLate' /\ RivalAcceptsExclude'
        BY <1>5, <2>1 DEF OfferInv, PendingIsLate, RivalAcceptsExclude
    <2> QED BY <1>7, <1>8, <1>9, <1>10, <2>2 DEF OfferInv
<1> QED BY <1>11, <1>12

\* Only an offer nobody has locked is withdrawn.
LEMMA WithdrawsFree ==
    ASSUME SoundConstants, TypeOK, OfferInv, NEW b \in Buyer, Withdraw(b)
    PROVE  OfferInv'
<1>1. \A d \in Buyer : offer'[d].state = "pending" => offer[d].state = "pending"
    BY DEF Withdraw, TypeOK, Offer
<1>2. \A d \in Buyer \ {b} : offer'[d] = offer[d]
    BY DEF Withdraw, TypeOK
<1>3. \A q \in Request : Holding(q) => req[q].buyer \in Buyer \ {b}
    <2> SUFFICES ASSUME NEW q \in Request, Holding(q)
                 PROVE  req[q].buyer \in Buyer \ {b}
        OBVIOUS
    <2>1. Locks(q) = {req[q].buyer} /\ req[q].buyer \in Buyer
        BY DEF Holding, Locks, TypeOK
    <2> QED BY <2>1 DEF Withdraw, OfferFree
<1>4. UNCHANGED <<req, selling, winners, late>>
    BY DEF Withdraw
<1>5. LockedStands'
    BY <1>2, <1>3, <1>4 DEF OfferInv, LockedStands, MayAnswer, Holding
<1>6. LocksExclude' /\ SellerHolds'
    BY <1>4 DEF OfferInv, LocksExclude, SellerHolds, Holding, Accepting
<1>7. SweptOrLate' /\ PendingIsLate' /\ RivalAcceptsExclude'
    BY <1>1, <1>4 DEF OfferInv, SweptOrLate, PendingIsLate, RivalAcceptsExclude, Accepting
<1> QED BY <1>5, <1>6, <1>7 DEF OfferInv

\* Relisting forgets the sales; no acceptance holds the listing then.
LEMMA RelistsUnsold ==
    ASSUME SoundConstants, TypeOK, OfferInv, NEW s \in Status, UpdateStatus(s)
    PROVE  OfferInv'
<1>1. \A q \in Request : ~Accepting(q)
    BY DEF UpdateStatus, OfferInv, SellerHolds, SoundConstants
<1>2. UNCHANGED <<offer, req, selling>>
    BY DEF UpdateStatus
<1>3. LocksExclude' /\ LockedStands' /\ SellerHolds'
    BY <1>2 DEF OfferInv, LocksExclude, LockedStands, MayAnswer, SellerHolds, Holding, Accepting
<1>4. SweptOrLate'
    BY <1>1, <1>2 DEF SweptOrLate, Accepting
<1>5. PendingIsLate' /\ RivalAcceptsExclude'
    BY <1>2 DEF UpdateStatus, OfferInv, PendingIsLate, RivalAcceptsExclude
<1> QED BY <1>3, <1>4, <1>5 DEF OfferInv

\* Every step of a handler, a buyer or the seller keeps the invariant.
LEMMA NextOfferInv ==
    ASSUME SoundConstants, TypeOK, OfferInv, [Next]_vars
    PROVE  OfferInv'
<1>1. ASSUME NEW p \in Request, NEW b \in Buyer, MakeCheck(p, b)
      PROVE  OfferInv'
    <2> DEFINE r == [Idle EXCEPT !.pc = "make", !.buyer = b]
    <2>1. r.pc = "make" /\ ~Holding(p)
        BY <1>1 DEF MakeCheck, Idle, Holding
    <2> QED BY <1>1, <2>1, Begins DEF MakeCheck
<1>2. ASSUME NEW p \in Request, NEW b \in Buyer, CounterCheck(p, b)
      PROVE  OfferInv'
    <2> DEFINE r == [Idle EXCEPT !.pc = "counter", !.buyer = b]
    <2>1. r.pc = "counter" /\ ~Holding(p)
        BY <1>2 DEF CounterCheck, Idle, Holding
    <2> QED BY <1>2, <2>1, Begins DEF CounterCheck
<1>3. ASSUME NEW p \in Request, NEW b \in Buyer, NEW by \in {"buyer", "seller"},
             NEW v \in {"accepted", "declined"}, RespondRead(p, b, by, v)
      PROVE  OfferInv'
    <2> DEFINE r == [Idle EXCEPT !.pc = "lock", !.buyer = b, !.by = by, !.verdict = v]
    <2>1. r.pc = "lock" /\ ~Holding(p)
        BY <1>3 DEF RespondRead, Idle, Holding
    <2> QED BY <1>3, <2>1, Begins DEF RespondRead
<1>4. ASSUME NEW p \in Request, MakeWrite(p) \/ CounterWrite(p)
      PROVE  OfferInv'
    BY <1>4, OpensLate DEF MakeWrite, CounterWrite, Holding
<1>5. ASSUME NEW p \in Request, RespondLock(p)
      PROVE  OfferInv'
    BY <1>5, TakesLock
<1>6. ASSUME NEW p \in Request, SellListing(p) \/ SeeOthers(p)
      PROVE  OfferInv'
    BY <1>6, SellsOrSweeps
<1>7. ASSUME NEW p \in Request, Commit(p)
      PROVE  OfferInv'
    BY <1>7, CommitDecides
<1>8. ASSUME NEW p \in Request, DeadlockAbort(p) \/ Crash(p)
      PROVE  OfferInv'
    BY <1>8, EndsQuietly DEF DeadlockAbort, Crash
<1>9. ASSUME NEW b \in Buyer, Withdraw(b)
      PROVE  OfferInv'
    BY <1>9, WithdrawsFree
<1>10. ASSUME NEW s \in Status, UpdateStatus(s)
      PROVE  OfferInv'
    BY <1>10, RelistsUnsold
<1>11. CASE UNCHANGED vars
    BY <1>11 DEF vars, OfferInv, LocksExclude, LockedStands, MayAnswer, SellerHolds,
        SweptOrLate, PendingIsLate, RivalAcceptsExclude, Holding, Accepting
<1> QED BY <1>1, <1>2, <1>3, <1>4, <1>5, <1>6, <1>7, <1>8, <1>9, <1>10, <1>11 DEF Next, Finish

\* The invariant holds of every reachable state.
LEMMA Reachable == ASSUME SoundConstants PROVE Spec => [](TypeOK /\ OfferInv)
<1>1. (TypeOK /\ OfferInv) /\ [Next]_vars => (TypeOK /\ OfferInv)'
    BY NextTypeOK, NextOfferInv
<1> QED BY <1>1, InitTypeOK, InitOfferInv, PTL DEF Spec

\* respondToOffer sells one listing to two buyers only through an offer that
\* was opened after an acceptance had looked for the pending ones.
THEOREM RivalsExclude == ASSUME SoundConstants PROVE Spec => []RivalAcceptsExclude
<1>1. OfferInv => RivalAcceptsExclude
    BY DEF OfferInv
<1> QED BY <1>1, Reachable, PTL

\* What a buyer's answer applies to when it commits is still the seller's
\* counter: the lock keeps the buyer's own reopening of the offer away.
THEOREM BuyersTakeCounters == ASSUME SoundConstants PROVE Spec => BuyerAcceptsOnlyCounter
<1> DEFINE Takes ==
        \A p \in Request :
            req[p].pc = "commit" /\ req[p].by = "buyer" /\ req'[p].pc = "idle" /\ offer' # offer
            => offer[req[p].buyer].actor = "seller"
<1>1. OfferInv => Takes
    BY DEF OfferInv, LockedStands, MayAnswer, Holding
<1>2. OfferInv => [Takes]_vars
    BY <1>1
<1>3. Spec => [][Takes]_vars
    BY <1>2, Reachable, PTL
<1> QED BY <1>3 DEF BuyerAcceptsOnlyCounter

-----------------------------------------------------------------------------
(* The app's session *)

\* Nothing names a token the server has not issued.
Issued(t) == sess[t].state # "none"
TokensIssued ==
    /\ \A t \in {cache, keychain} \cap Session!Token : Issued(t)
    /\ \A t \in lateTokens : Issued(t)
    /\ \A c \in Call : flight[c].pc \in {"sent", "answered"} =>
          flight[c].token \in Session!Token /\ Issued(flight[c].token)
    /\ leaving.pc = "posted" => leaving.token \in Session!Token

\* One refresh is under way, and the call that started it waits for it.
OneFlight ==
    /\ inFlight # NoCall => flight[inFlight].pc # "none"
    /\ \A c \in Call : flight[c].pc # "none" =>
          inFlight = c /\ call[c].pc = "waiting" /\ call[c].on = c

\* While a session is restored nobody is signed in and nothing else is called; a
\* sign-out is of somebody.
Screens ==
    /\ boot # NoCall => user = 0 /\ \A c \in Call \ {boot} : call[c].pc = "idle"
    /\ leaving.pc # "no" => user # 0

\* A token that was rotated is presented again after a loss only: the token of
\* the refresh that has not been answered, those stored, those in late requests.
UsedIsDoubtful ==
    /\ \A t \in {cache, keychain} \cap Session!Token : sess[t].state = "used" =>
          t \in doubtful \/ \E c \in Call : flight[c].pc = "answered" /\ flight[c].token = t
    /\ \A c \in Call : /\ flight[c].pc = "sent"
                       /\ sess[flight[c].token].state = "used"
                       => flight[c].token \in doubtful
    /\ lateTokens \subseteq doubtful
    /\ \A c \in Call : flight[c].pc = "answered" /\ flight[c].answer # Session!None =>
          /\ sess[flight[c].answer].state \in {"live", "revoked"}
          /\ flight[c].answer \notin lateTokens
    /\ Session!ReuseOnlyAfterLoss

\* A refresh for whom the screens show is for the token in the store.
FlownForUser ==
    /\ \A c \in Call : flight[c].pc # "none" /\ ~flight[c].old => user # 0 \/ boot # NoCall
    /\ \A c \in Call : flight[c].pc \in {"sent", "answered"} /\ ~flight[c].old =>
          cache \in {flight[c].token, Session!None}
    /\ \A c \in Call : flight[c].pc = "answered" /\ flight[c].answer = Session!None =>
          sess[flight[c].token].state # "live"
    /\ Session!OnlyDeadTokensGo

\* After a sign-out what is under way was asked before it, and what a restart
\* restores finds nothing.
QuitIsQuiet ==
    /\ signedOut /\ ~straddled =>
          /\ user = 0
          /\ \A c \in Call : flight[c].pc # "none" => flight[c].old
          /\ boot # NoCall => call[boot].pc = "reading" /\ ~call[boot].retried
    /\ Session!SignOutClears

SessionInv ==
    /\ Session!TypeOK /\ TokensIssued /\ OneFlight /\ Screens
    /\ UsedIsDoubtful /\ FlownForUser /\ QuitIsQuiet

\* A set of numbers that has one has a least one.
LEMMA LeastNumber ==
    ASSUME NEW S, S \subseteq Nat, S # {}
    PROVE  \E n \in S : \A m \in S : n <= m
<1> DEFINE Before == {p \in Nat \X Nat : p[1] < p[2]}
<1>1. IsWellFoundedOn(Before, Nat)
    BY NatLessThanWellFounded DEF OpToRel
<1>2. PICK n \in S : \A m \in S : <<m, n>> \notin Before
    BY <1>1, WFMin
<1>3. \A m \in S : ~(m < n)
    BY <1>2
<1> QED BY <1>3

\* Tokens are numbers apart from the two marks of the cache.
LEMMA TokenNumbers ==
    ASSUME Session!SoundConstants
    PROVE  /\ Session!Token \subseteq 0..MaxTokens /\ 0..MaxTokens = Session!Token \cup {Session!None}
           /\ 0..Session!Unknown = Session!Token \cup {Session!None, Session!Unknown}
           /\ Session!None \notin Session!Token /\ Session!Unknown \notin Session!Token /\ Session!None # Session!Unknown
           /\ Session!Token \subseteq Nat /\ 0 \in 0..MaxTokens
BY DEF Session!SoundConstants, Session!Token, Session!None, Session!Unknown

\* The server names its next token: one it has not issued.
LEMMA NewTokenIsFresh ==
    ASSUME Session!SoundConstants, Session!Fresh # {}
    PROVE  Session!NewToken \in Session!Token /\ ~Issued(Session!NewToken)
<1>1. Session!Fresh \subseteq Nat
    BY TokenNumbers DEF Session!Fresh
<1>2. Session!NewToken \in Session!Fresh
    BY <1>1, LeastNumber DEF Session!NewToken
<1> QED BY <1>2 DEF Session!Fresh, Issued

\* A rotation uses up the token it is given and issues another, or revokes the
\* sign-in; what has been used or revoked stays so.
LEMMA RotateFacts ==
    ASSUME Session!SoundConstants, Session!TypeOK, NEW t \in Session!Token, Issued(t), Session!Rotate(t)
    PROVE  /\ sess' \in [Session!Token -> Session!Session]
           /\ \A s \in Session!Token : Issued(s) => Issued(s)'
           /\ \A s \in Session!Token : sess'[s].state = "used" =>
                 sess[s].state = "used" \/ (s = t /\ sess[t].state = "live")
           /\ \A s \in Session!Token : sess[s].state \in {"used", "revoked"} =>
                 sess'[s].state = sess[s].state
           /\ sess'[t].state # "live"
           /\ sess[t].state = "live" =>
                 /\ Session!NewToken \in Session!Token /\ ~Issued(Session!NewToken) /\ Session!NewToken # t
                 /\ sess'[Session!NewToken].state = "live"
           /\ reused' \subseteq Session!Token
           /\ \A s \in reused' : s \in reused \/ (s = t /\ sess[t].state = "used")
<1>1. sess \in [Session!Token -> Session!Session] /\ reused \subseteq Session!Token /\ sess[t].login \in 0..MaxTokens
    BY DEF Session!TypeOK, Session!Session
<1>2. CASE sess[t].state = "live"
    <2>1. Session!NewToken \in Session!Token /\ ~Issued(Session!NewToken)
        BY <1>2, NewTokenIsFresh DEF Session!Rotate
    <2>2. /\ sess' = [sess EXCEPT ![t].state = "used",
                       ![Session!NewToken] = [state |-> "live", login |-> sess[t].login]]
          /\ reused' = reused
        BY <1>2 DEF Session!Rotate
    <2> DEFINE n == Session!NewToken
    <2>3. n \in Session!Token /\ ~Issued(n) /\ n # t
        BY <1>2, <2>1 DEF Issued
    <2>4. /\ sess' = [sess EXCEPT ![t].state = "used",
                       ![n] = [state |-> "live", login |-> sess[t].login]]
        BY <2>2
    <2> HIDE DEF n
    <2>5. [state |-> "live", login |-> sess[t].login] \in Session!Session
        BY <1>1 DEF Session!Session
    <2>6. /\ sess'[n] = [state |-> "live", login |-> sess[t].login]
          /\ sess'[t] = [sess[t] EXCEPT !.state = "used"]
          /\ \A s \in Session!Token \ {t, n} : sess'[s] = sess[s]
          /\ DOMAIN sess' = Session!Token
        BY <1>1, <2>3, <2>4
    <2>7. [sess[t] EXCEPT !.state = "used"] \in Session!Session /\ sess'[t].state = "used"
        BY <1>1, <2>6 DEF Session!Session
    <2>8. sess' \in [Session!Token -> Session!Session]
        BY <1>1, <2>4, <2>5, <2>7
    <2> QED BY <1>1, <1>2, <2>2, <2>3, <2>6, <2>7, <2>8 DEF Issued, n
<1>3. CASE sess[t].state # "live"
    <2>1. /\ sess' = [s \in Session!Token |->
                       IF sess[s].login = sess[t].login /\ sess[s].state = "live"
                       THEN [sess[s] EXCEPT !.state = "revoked"] ELSE sess[s]]
          /\ reused' = IF sess[t].state = "used" THEN reused \cup {t} ELSE reused
        BY <1>3 DEF Session!Rotate
    <2>2. sess' \in [Session!Token -> Session!Session]
        BY <1>1, <2>1 DEF Session!Session
    <2>3. \A s \in Session!Token : \/ sess'[s] = sess[s]
                                   \/ sess[s].state = "live" /\ sess'[s].state = "revoked"
        BY <1>1, <2>1 DEF Session!Session
    <2> QED BY <1>1, <1>3, <2>1, <2>2, <2>3 DEF Issued
<1> QED BY <1>2, <1>3

\* Nothing is stored and nothing under way at first.
LEMMA InitSession == ASSUME Session!SoundConstants PROVE Session!Init => SessionInv
<1> SUFFICES ASSUME Session!Init PROVE SessionInv
    OBVIOUS
<1>1. Session!TypeOK
    <2>1. Session!Quiet \in Session!Api /\ Session!Grounded \in Session!Flight
        BY TokenNumbers DEF Session!Quiet, Session!Grounded, Session!Api, Session!Flight,
            Session!None
    <2>2. Session!Stay \in [pc : {"no", "posted", "closing"}, token : 0..MaxTokens]
        BY TokenNumbers DEF Session!Stay, Session!None
    <2>3. [t \in Session!Token |-> [state |-> "none", login |-> 0]] \in [Session!Token -> Session!Session]
        BY TokenNumbers DEF Session!Session
    <2>4. 0 \in 0..MaxRestarts
        BY DEF Session!SoundConstants
    <2>5. \A c \in Call : call[c].pc = "idle"
        BY DEF Session!Init, Session!Quiet
    <2> QED BY TokenNumbers, <2>1, <2>2, <2>3, <2>4, <2>5 DEF Session!Init, Session!TypeOK,
        Session!None
<1>2. \A c \in Call : flight[c].pc = "none" /\ call[c].pc = "idle"
    BY DEF Session!Init, Session!Quiet, Session!Grounded
<1>3. TokensIssued /\ OneFlight /\ Screens
    BY <1>2, TokenNumbers DEF Session!Init, TokensIssued, OneFlight, Screens, Session!Stay
<1>4. UsedIsDoubtful /\ FlownForUser /\ QuitIsQuiet
    BY <1>2, TokenNumbers DEF Session!Init, UsedIsDoubtful, Session!ReuseOnlyAfterLoss,
        FlownForUser, Session!OnlyDeadTokensGo, QuitIsQuiet,
       Session!SignOutClears
<1> QED BY <1>1, <1>3, <1>4 DEF SessionInv

-----------------------------------------------------------------------------
(* Calls *)

\* A call that waits for no refresh moves on or ends, and may throw the tokens
\* away; the one that restores the session may end that as well.
LEMMA CallMoves ==
    ASSUME Session!SoundConstants, SessionInv, NEW c \in Call, NEW l \in Session!Api,
           call' = [call EXCEPT ![c] = l], call[c].pc # "waiting", l.pc # "waiting",
           UNCHANGED <<sess, expired, lateTokens, reused, flight, inFlight, leaving, restarts,
                       signedOut, straddled, doubtful, wronged>>,
           UNCHANGED <<cache, keychain>> \/ (cache' = Session!None /\ keychain' = Session!None),
           \/ UNCHANGED <<boot, user>> /\ boot \in {NoCall, c}
           \/ boot = c /\ boot' = NoCall /\ user' \in 0..MaxTokens,
           signedOut /\ ~straddled /\ boot = c => boot' = NoCall /\ user' = user
    PROVE  SessionInv'
<1>1. /\ call' \in [Call -> Session!Api] /\ call'[c] = l
      /\ \A d \in Call \ {c} : call'[d] = call[d]
    BY DEF SessionInv, Session!TypeOK
<1>2. \A d \in Call : flight[d].pc # "none" => d # c
    BY DEF SessionInv, OneFlight
<1>3. /\ c # NoCall
      /\ boot = c => user = 0 /\ leaving.pc = "no" /\ \A d \in Call : flight[d].pc = "none"
    BY <1>2 DEF SessionInv, Screens, OneFlight, Session!SoundConstants
<1>4. boot' \in Call \cup {NoCall} /\ user' \in 0..MaxTokens
    BY DEF SessionInv, Session!TypeOK
<1>5. cache' \in 0..Session!Unknown /\ keychain' \in 0..MaxTokens
    BY TokenNumbers DEF SessionInv, Session!TypeOK
<1>6. Session!TypeOK'
    BY <1>1, <1>4, <1>5 DEF SessionInv, Session!TypeOK
<1>7. TokensIssued'
    BY TokenNumbers DEF SessionInv, TokensIssued, Issued
<1>8. OneFlight' /\ Screens'
    BY <1>1, <1>2, <1>3 DEF SessionInv, OneFlight, Screens
<1>9. UsedIsDoubtful'
    BY TokenNumbers DEF SessionInv, UsedIsDoubtful, Session!ReuseOnlyAfterLoss
<1>10. FlownForUser'
    BY <1>3 DEF SessionInv, FlownForUser, Session!OnlyDeadTokensGo
<1>11. QuitIsQuiet'
    BY <1>1 DEF SessionInv, QuitIsQuiet, Session!SignOutClears
<1> QED BY <1>6, <1>7, <1>8, <1>9, <1>10, <1>11 DEF SessionInv

\* The calls' own steps.
LEMMA CallsKeep ==
    ASSUME Session!SoundConstants, SessionInv, NEW c \in Call,
           Session!Issue(c) \/ Session!Attach(c) \/ Session!Answer(c) \/ Session!CallFails(c) \/ Session!RefusedAgain(c)
    PROVE  SessionInv'
<1>1. c # NoCall /\ call[c] \in Session!Api /\ call \in [Call -> Session!Api]
    BY DEF Session!SoundConstants, SessionInv, Session!TypeOK
<1>2. UNCHANGED <<sess, expired, lateTokens, reused, flight, inFlight, leaving, restarts,
                  signedOut, straddled, doubtful, wronged>>
    BY DEF Session!Issue, Session!Attach, Session!Answer, Session!CallFails,
        Session!RefusedAgain, Session!server, Session!screens, Session!histories
<1>3. Session!Quiet \in Session!Api /\ Session!Quiet.pc = "idle"
    BY TokenNumbers DEF Session!Quiet, Session!Api, Session!None
<1>4. boot # NoCall /\ boot # c => user = 0 /\ call[c].pc = "idle"
    BY DEF SessionInv, Screens
<1>5. UNCHANGED <<cache, keychain>> \/ (cache' = Session!None /\ keychain' = Session!None)
    BY DEF Session!Issue, Session!Attach, Session!Answer, Session!CallFails,
        Session!RefusedAgain, Session!store, Session!Clear
<1>6. CASE Session!Issue(c)
    <2> DEFINE l == [Session!Quiet EXCEPT !.pc = "reading"]
    <2>1. l \in Session!Api /\ l.pc = "reading"
        BY <1>3 DEF Session!Quiet, Session!Api
    <2>2. call' = [call EXCEPT ![c] = l] /\ call[c].pc = "idle" /\ UNCHANGED <<boot, user>>
        BY <1>6 DEF Session!Issue, Session!screens
    <2>3. boot = NoCall
        BY <1>6 DEF Session!Issue, SessionInv, Screens
    <2> HIDE DEF l
    <2> QED BY <1>1, <1>2, <1>5, <2>1, <2>2, <2>3, CallMoves
<1>7. CASE Session!Attach(c)
    <2>1. CASE boot = c /\ cache = Session!None /\ ~call[c].retried
        <3>1. call' = [call EXCEPT ![c] = Session!Quiet] /\ boot' = NoCall /\ UNCHANGED user
            BY <1>7, <2>1 DEF Session!Attach
        <3>2. call[c].pc # "waiting" /\ user' \in 0..MaxTokens
            BY <1>7, <3>1 DEF Session!Attach, SessionInv, Session!TypeOK
        <3> QED BY <1>2, <1>3, <1>5, <2>1, <3>1, <3>2, CallMoves
    <2>2. CASE ~(boot = c /\ cache = Session!None /\ ~call[c].retried)
        <3> DEFINE l == [call[c] EXCEPT !.pc = "sent", !.token = cache]
        <3>1. /\ call' = [call EXCEPT ![c].pc = "sent", ![c].token = cache]
              /\ UNCHANGED <<boot, user>> /\ call[c].pc = "reading" /\ cache # Session!Unknown
            BY <1>7, <2>2 DEF Session!Attach
        <3>2. cache \in 0..MaxTokens
            BY <3>1, TokenNumbers DEF SessionInv, Session!TypeOK
        <3>3. l \in Session!Api /\ l.pc = "sent" /\ call' = [call EXCEPT ![c] = l]
            BY <1>1, <3>1, <3>2 DEF Session!Api
        <3>4. boot \in {NoCall, c}
            BY <1>4, <3>1
        <3>5. ~(signedOut /\ ~straddled /\ boot = c)
            BY <1>1, <2>2, <3>1 DEF SessionInv, QuitIsQuiet, Session!SignOutClears
        <3> HIDE DEF l
        <3> QED BY <1>2, <1>5, <3>1, <3>3, <3>4, <3>5, CallMoves
    <2> QED BY <2>1, <2>2
<1>8. CASE Session!Answer(c) \/ Session!CallFails(c) \/ Session!RefusedAgain(c)
    <2>1. /\ call' = [call EXCEPT ![c] = Session!Quiet] /\ call[c].pc = "sent"
          /\ boot # c => UNCHANGED <<boot, user>>
          /\ boot = c => boot' = NoCall /\ user' \in {0, Session!SignedInTo(call[c].token)}
        BY <1>8 DEF Session!Answer, Session!CallFails, Session!RefusedAgain, Session!Done
    <2>2. {0, Session!SignedInTo(call[c].token)} \subseteq 0..MaxTokens
        BY <1>1, TokenNumbers DEF Session!SignedInTo, SessionInv, Session!TypeOK,
            Session!Session, Session!Api
    <2>3. boot \in {NoCall, c}
        BY <1>4, <2>1
    <2>4. ~(signedOut /\ ~straddled /\ boot = c)
        BY <1>1, <2>1 DEF SessionInv, QuitIsQuiet
    <2> QED BY <1>2, <1>3, <1>5, <2>1, <2>2, <2>3, <2>4, CallMoves
<1> QED BY <1>6, <1>7, <1>8

\* A refused call joins the refresh under way or starts the only one.
LEMMA RefusedKeeps ==
    ASSUME Session!SoundConstants, SessionInv, NEW c \in Call, Session!Refused(c)
    PROVE  SessionInv'
<1>1. UNCHANGED <<Session!server, Session!store, Session!screens, Session!histories>> /\ call[c].pc = "sent"
    BY DEF Session!Refused
<1>2. /\ c # NoCall /\ flight \in [Call -> Session!Flight] /\ call \in [Call -> Session!Api]
      /\ inFlight \in Call \cup {NoCall}
    BY DEF Session!SoundConstants, SessionInv, Session!TypeOK
<1> DEFINE on == IF Session!Joins THEN inFlight ELSE c
<1> DEFINE l == [pc |-> "waiting", token |-> Session!None, retried |-> TRUE, on |-> on]
<1>3. on \in Call /\ l \in Session!Api /\ l.pc = "waiting" /\ l.on = on
    BY <1>2, TokenNumbers DEF Session!Joins, Session!Api
<1>4. call' = [call EXCEPT ![c] = l]
    BY DEF Session!Refused
<1>5. call' \in [Call -> Session!Api] /\ call'[c] = l /\ \A d \in Call \ {c} : call'[d] = call[d]
    BY <1>2, <1>3, <1>4
<1> HIDE DEF l, on
<1>6. boot # NoCall => boot = c
    BY <1>1 DEF SessionInv, Screens
<1>7. \A d \in Call : flight[d].pc # "none" => d # c
    BY <1>1 DEF SessionInv, OneFlight
<1>8. ~(signedOut /\ ~straddled /\ boot # NoCall)
    BY <1>1, <1>6 DEF SessionInv, QuitIsQuiet
<1>9. CASE Session!Joins
    <2>1. UNCHANGED <<flight, inFlight>> /\ on = inFlight
        BY <1>9 DEF Session!Refused, on
    <2>2. flight[on].pc # "none"
        BY <1>9, <2>1 DEF Session!Joins, SessionInv, OneFlight
    <2>3. Session!TypeOK'
        BY <1>1, <1>3, <1>5, <2>1, <2>2
           DEF SessionInv, Session!TypeOK, Session!server, Session!store, Session!screens,
               Session!histories
    <2>4. TokensIssued' /\ OneFlight' /\ Screens'
        BY <1>1, <1>5, <1>6, <1>7, <2>1
           DEF SessionInv, TokensIssued, OneFlight, Screens, Issued, Session!server,
               Session!store, Session!screens, Session!histories
    <2>5. UsedIsDoubtful' /\ FlownForUser'
        BY <1>1, <2>1 DEF SessionInv, UsedIsDoubtful, Session!ReuseOnlyAfterLoss, FlownForUser,
            Session!OnlyDeadTokensGo, Session!server, Session!store, Session!screens,
            Session!histories
    <2>6. QuitIsQuiet'
        BY <1>1, <1>8, <2>1 DEF SessionInv, QuitIsQuiet, Session!SignOutClears,
            Session!server, Session!store, Session!screens, Session!histories
    <2> QED BY <2>3, <2>4, <2>5, <2>6 DEF SessionInv
<1>10. CASE ~Session!Joins
    <2> DEFINE old == user = 0 /\ boot = NoCall
    <2> DEFINE f == [flight[c] EXCEPT !.pc = "reading", !.old = old]
    <2>1. /\ flight' = [flight EXCEPT ![c].pc = "reading", ![c].old = old]
          /\ inFlight' = c /\ on = c /\ inFlight = NoCall
        BY <1>10 DEF Session!Refused, Session!Joins, on
    <2>2. old \in BOOLEAN
        OBVIOUS
    <2>3. old => user = 0 /\ boot = NoCall
        OBVIOUS
    <2>4. ~old => user # 0 \/ boot # NoCall
        OBVIOUS
    <2> HIDE DEF old
    <2>5. flight[c] \in Session!Flight
        BY <1>2
    <2>6. f \in Session!Flight
        <3>1. [flight[c] EXCEPT !.pc = "reading"] \in Session!Flight
            BY <2>5 DEF Session!Flight
        <3> DEFINE g == [flight[c] EXCEPT !.pc = "reading"]
        <3>2. [g EXCEPT !.old = old] \in Session!Flight
            BY <2>2, <3>1, Zenon DEF Session!Flight
        <3> QED BY <2>5, <3>2 DEF Session!Flight
    <2>7. f.pc = "reading" /\ (f.old <=> old)
        BY <2>2, <2>5 DEF Session!Flight
    <2>8. flight' = [flight EXCEPT ![c] = f]
        BY <1>2, <2>1, <2>5 DEF Session!Flight
    <2> HIDE DEF f
    <2>9. /\ flight' \in [Call -> Session!Flight] /\ flight'[c] = f
          /\ \A d \in Call \ {c} : flight'[d] = flight[d]
        BY <1>2, <2>6, <2>8
    <2>10. \A d \in Call : flight[d].pc = "none"
        BY <1>2, <2>1 DEF SessionInv, OneFlight, Session!SoundConstants
    <2>11. Session!TypeOK'
        BY <1>1, <1>3, <1>5, <2>1, <2>7, <2>9
           DEF SessionInv, Session!TypeOK, Session!server, Session!store, Session!screens,
               Session!histories
    <2>12. TokensIssued' /\ OneFlight' /\ Screens'
        BY <1>1, <1>3, <1>5, <1>6, <2>1, <2>7, <2>9, <2>10
           DEF SessionInv, TokensIssued, OneFlight, Screens, Issued, Session!server,
               Session!store, Session!screens, Session!histories
    <2>13. UsedIsDoubtful' /\ FlownForUser'
        BY <1>1, <2>4, <2>7, <2>9, <2>10 DEF SessionInv, UsedIsDoubtful,
            Session!ReuseOnlyAfterLoss, FlownForUser,
            Session!OnlyDeadTokensGo, Session!server, Session!store, Session!screens, Session!histories
    <2>14. QuitIsQuiet'
        BY <1>1, <1>8, <2>4, <2>7, <2>9, <2>10 DEF SessionInv, QuitIsQuiet, Session!SignOutClears,
            Session!server, Session!store, Session!screens, Session!histories
    <2> QED BY <2>11, <2>12, <2>13, <2>14 DEF SessionInv
<1> QED BY <1>9, <1>10

-----------------------------------------------------------------------------
(* The refresh *)

\* When a refresh ends nobody waits, and none is under way.
LEMMA LandFacts ==
    ASSUME Session!SoundConstants, SessionInv, NEW c \in Call, flight[c].pc # "none",
           NEW next \in {"idle", "reading"}, Session!Land(c, next)
    PROVE  /\ flight' \in [Call -> Session!Flight] /\ \A d \in Call : flight'[d].pc = "none"
           /\ inFlight' = NoCall
           /\ call' \in [Call -> Session!Api] /\ \A d \in Call : call'[d].pc # "waiting"
           /\ \A d \in Call : call[d].pc = "idle" => call'[d].pc = "idle"
           /\ boot' \in {boot, NoCall}
           /\ signedOut /\ ~straddled => boot' = NoCall
<1>1. flight \in [Call -> Session!Flight] /\ call \in [Call -> Session!Api]
    BY DEF SessionInv, Session!TypeOK
<1>2. inFlight = c /\ call[c].pc = "waiting" /\ \A d \in Call \ {c} : flight[d].pc = "none"
    BY DEF SessionInv, OneFlight
<1>3. \A d \in Call : call[d].pc = "waiting" => call[d].on = c
    BY <1>2 DEF SessionInv, Session!TypeOK
<1>4. Session!Grounded \in Session!Flight /\ Session!Grounded.pc = "none" /\ Session!Quiet \in Session!Api /\ Session!Quiet.pc = "idle"
    BY TokenNumbers DEF Session!Grounded, Session!Quiet, Session!Flight, Session!Api, Session!None
<1>5. /\ flight' \in [Call -> Session!Flight] /\ \A d \in Call : flight'[d].pc = "none"
      /\ inFlight' = NoCall
    BY <1>1, <1>2, <1>4 DEF Session!Land, Session!Landed
<1>6. call' = [d \in Call |->
                  IF call[d].pc # "waiting" THEN call[d]
                  ELSE IF next = "idle" THEN Session!Quiet
                  ELSE [call[d] EXCEPT !.pc = next, !.on = NoCall]]
    BY <1>3 DEF Session!Land
<1>7. \A d \in Call : /\ [call[d] EXCEPT !.pc = next, !.on = NoCall] \in Session!Api
                      /\ [call[d] EXCEPT !.pc = next, !.on = NoCall].pc = next
    BY <1>1 DEF Session!Api
<1>8. /\ call' \in [Call -> Session!Api] /\ \A d \in Call : call'[d].pc # "waiting"
      /\ \A d \in Call : call[d].pc = "idle" => call'[d].pc = "idle"
    BY <1>1, <1>4, <1>6, <1>7
<1>9. boot' \in {boot, NoCall}
    BY DEF Session!Land
<1>10. signedOut /\ ~straddled => boot = NoCall
    BY <1>2 DEF SessionInv, Screens, QuitIsQuiet
<1> QED BY <1>5, <1>8, <1>9, <1>10

\* A refresh that ends leaves in the store what it may, and nobody waiting.
LEMMA LandKeeps ==
    ASSUME Session!SoundConstants, SessionInv, NEW c \in Call, flight[c].pc # "none",
           NEW next \in {"idle", "reading"}, Session!Land(c, next),
           UNCHANGED <<sess, expired, reused, user, leaving, restarts, signedOut>>,
           cache' \in Session!Token \cup {Session!None, Session!Unknown}, keychain' \in Session!Token \cup {Session!None},
           \A t \in {cache', keychain'} \cap Session!Token : Issued(t),
           lateTokens' \subseteq Session!Token, \A t \in lateTokens' : Issued(t), lateTokens' \subseteq doubtful',
           doubtful \subseteq doubtful', doubtful' \subseteq Session!Token,
           \A t \in {cache', keychain'} \cap Session!Token : sess[t].state = "used" => t \in doubtful',
           wronged' = {}, straddled' \in BOOLEAN, straddled => straddled',
           signedOut /\ ~straddled' => cache' \in {Session!None, Session!Unknown} /\ keychain' = Session!None
    PROVE  SessionInv'
<1>1. /\ flight' \in [Call -> Session!Flight] /\ \A d \in Call : flight'[d].pc = "none"
      /\ inFlight' = NoCall
      /\ call' \in [Call -> Session!Api] /\ \A d \in Call : call'[d].pc # "waiting"
      /\ \A d \in Call : call[d].pc = "idle" => call'[d].pc = "idle"
      /\ boot' \in {boot, NoCall}
      /\ signedOut /\ ~straddled => boot' = NoCall
    BY LandFacts
<1>2. cache' \in 0..Session!Unknown /\ keychain' \in 0..MaxTokens
    BY TokenNumbers
<1>3. Session!TypeOK'
    BY <1>1, <1>2 DEF SessionInv, Session!TypeOK
<1>4. TokensIssued'
    BY <1>1 DEF SessionInv, TokensIssued, Issued
<1>5. OneFlight'
    BY <1>1 DEF OneFlight
<1>6. Screens'
    BY <1>1 DEF SessionInv, Screens
<1>7. UsedIsDoubtful'
    BY <1>1 DEF SessionInv, UsedIsDoubtful, Session!ReuseOnlyAfterLoss
<1>8. FlownForUser'
    BY <1>1 DEF FlownForUser, Session!OnlyDeadTokensGo
<1>9. QuitIsQuiet'
    BY <1>1 DEF SessionInv, QuitIsQuiet, Session!SignOutClears
<1> QED BY <1>3, <1>4, <1>5, <1>6, <1>7, <1>8, <1>9 DEF SessionInv

\* A refresh ends in one of four ways.
LEMMA FlightsLand ==
    ASSUME Session!SoundConstants, SessionInv, NEW c \in Call,
           \/ Session!FlightRead(c) /\ cache = Session!None
           \/ \E saved \in BOOLEAN : Session!FlightStores(c, saved)
           \/ Session!FlightRefused(c) \/ Session!FlightLost(c)
    PROVE  SessionInv'
<1>1. /\ flight[c].pc # "none" /\ flight[c] \in Session!Flight
      /\ flight[c].pc \in {"sent", "answered"} => flight[c].token \in Session!Token /\ Issued(flight[c].token)
    BY DEF Session!FlightRead, Session!FlightStores, Session!FlightRefused, Session!FlightLost,
        SessionInv, Session!TypeOK, TokensIssued
<1>2. \A d \in Call : flight[d].pc # "none" => d = c
    BY <1>1 DEF SessionInv, OneFlight
<1>3. cache \in Session!Token \cup {Session!None, Session!Unknown} /\ keychain \in Session!Token \cup {Session!None}
    BY TokenNumbers DEF SessionInv, Session!TypeOK
<1>4. /\ lateTokens \subseteq Session!Token /\ \A t \in lateTokens : Issued(t) /\ t \in doubtful
      /\ doubtful \subseteq Session!Token /\ wronged = {} /\ straddled \in BOOLEAN
    BY DEF SessionInv, Session!TypeOK, TokensIssued, UsedIsDoubtful, FlownForUser,
        Session!OnlyDeadTokensGo
<1>5. \A t \in {cache, keychain} \cap Session!Token : Issued(t)
    BY DEF SessionInv, TokensIssued
<1>6. signedOut /\ ~straddled => cache \in {Session!None, Session!Unknown} /\ keychain = Session!None /\ flight[c].old
    BY <1>1 DEF SessionInv, QuitIsQuiet, Session!SignOutClears
<1>7. Session!None \notin Session!Token /\ Session!Unknown \notin Session!Token
    BY TokenNumbers
<1>8. UNCHANGED <<sess, expired, reused, user, leaving, restarts, signedOut>>
    <2>1. CASE Session!FlightRead(c) /\ cache = Session!None
        BY <2>1 DEF Session!FlightRead, Session!server
    <2>2. CASE \E saved \in BOOLEAN : Session!FlightStores(c, saved)
        BY <2>2 DEF Session!FlightStores, Session!server
    <2>3. CASE Session!FlightRefused(c) \/ Session!FlightLost(c)
        BY <2>3 DEF Session!FlightRefused, Session!FlightLost, Session!server
    <2> QED BY <2>1, <2>2, <2>3
<1>9. CASE (Session!FlightRead(c) /\ cache = Session!None) \/ Session!FlightRefused(c)
    <2>1. /\ Session!ThrowAway(c) /\ UNCHANGED <<lateTokens, straddled, doubtful>>
        BY <1>9 DEF Session!FlightRead, Session!FlightRefused, Session!server
    <2>2. Session!Land(c, "idle") /\ cache' = Session!None /\ keychain' = Session!None
        BY <2>1 DEF Session!ThrowAway, Session!Clear
    <2>3. cache \notin Session!Token \/ flight[c].old \/ sess[cache].state # "live"
        <3>1. CASE Session!FlightRead(c) /\ cache = Session!None
            BY <1>7, <3>1
        <3>2. CASE Session!FlightRefused(c)
            BY <1>7, <3>2 DEF Session!FlightRefused, SessionInv, FlownForUser
        <3> QED BY <1>9, <3>1, <3>2
    <2>4. wronged' = {}
        BY <1>4, <2>1, <2>3 DEF Session!ThrowAway
    <2> QED BY <1>1, <1>4, <1>7, <1>8, <2>1, <2>2, <2>4, LandKeeps
<1>10. ASSUME NEW saved \in BOOLEAN, Session!FlightStores(c, saved)
       PROVE  SessionInv'
    <2> DEFINE a == flight[c].answer
    <2> DEFINE next == IF saved THEN "reading" ELSE "idle"
    <2>1. a \in Session!Token /\ sess[a].state \in {"live", "revoked"}
        BY <1>1, <1>10, TokenNumbers DEF Session!FlightStores, Session!Flight, SessionInv,
            UsedIsDoubtful
    <2>2. /\ Session!Land(c, next) /\ cache' = a
          /\ keychain' = (IF saved THEN a ELSE keychain)
          /\ doubtful' = (IF saved THEN doubtful ELSE doubtful \cup ({keychain} \ {Session!None}))
          /\ straddled' = (straddled \/ flight[c].old) /\ UNCHANGED <<lateTokens, wronged>>
        BY <1>10 DEF Session!FlightStores, Session!Store, Session!server
    <2>3. next \in {"idle", "reading"}
        OBVIOUS
    <2> HIDE DEF next
    <2>4. \A t \in {cache', keychain'} \cap Session!Token :
              Issued(t) /\ (sess[t].state = "used" => t \in doubtful')
        BY <1>3, <1>5, <1>7, <2>1, <2>2 DEF Issued
    <2>5. keychain' \in Session!Token \cup {Session!None} /\ doubtful' \subseteq Session!Token /\ doubtful \subseteq doubtful'
        BY <1>3, <1>4, <2>1, <2>2
    <2>6. straddled' \in BOOLEAN /\ (straddled => straddled') /\ (signedOut => straddled')
        BY <1>1, <1>4, <1>6, <2>2 DEF Session!Flight
    <2> QED BY <1>1, <1>4, <1>8, <2>1, <2>2, <2>3, <2>4, <2>5, <2>6, LandKeeps
<1>11. CASE Session!FlightLost(c)
    <2>1. /\ Session!Land(c, "idle") /\ UNCHANGED <<cache, keychain, wronged, straddled>>
          /\ lateTokens' = (IF flight[c].pc = "sent" THEN lateTokens \cup {flight[c].token} ELSE lateTokens)
          /\ doubtful' = doubtful \cup {flight[c].token}
          /\ flight[c].pc \in {"sent", "answered"}
        BY <1>11 DEF Session!FlightLost, Session!Transient, Session!store
    <2>2. \A t \in {cache, keychain} \cap Session!Token : sess[t].state = "used" => t \in doubtful'
        BY <1>2, <2>1 DEF SessionInv, UsedIsDoubtful
    <2>3. /\ lateTokens' \subseteq Session!Token /\ lateTokens' \subseteq doubtful' /\ \A t \in lateTokens' : Issued(t)
          /\ doubtful \subseteq doubtful' /\ doubtful' \subseteq Session!Token
        BY <1>1, <1>4, <2>1
    <2> QED BY <1>1, <1>3, <1>4, <1>5, <1>6, <1>8, <2>1, <2>2, <2>3, LandKeeps
<1> QED BY <1>9, <1>10, <1>11

\* A refresh reads the token of the store; nobody has presented it and is not
\* waited for, but after a loss.
LEMMA FlightReads ==
    ASSUME Session!SoundConstants, SessionInv, NEW c \in Call, Session!FlightRead(c), cache # Session!None
    PROVE  SessionInv'
<1>1. /\ flight[c].pc = "reading" /\ flight[c] \in Session!Flight /\ flight \in [Call -> Session!Flight]
      /\ UNCHANGED <<call, inFlight, boot, cache, keychain, wronged, sess, expired, lateTokens, reused,
                     user, leaving, restarts, signedOut, straddled, doubtful>>
    BY DEF Session!FlightRead, Session!server, Session!store, SessionInv, Session!TypeOK
<1>2. cache \in Session!Token
    BY TokenNumbers DEF Session!FlightRead, SessionInv, Session!TypeOK
<1> DEFINE f == [flight[c] EXCEPT !.pc = "sent", !.token = cache]
<1>3. /\ f \in Session!Flight /\ f.pc = "sent" /\ f.token = cache /\ f.old = flight[c].old
      /\ f.answer = flight[c].answer
    BY <1>1, <1>2, TokenNumbers DEF Session!Flight
<1>4. flight' = [flight EXCEPT ![c] = f]
    BY <1>1 DEF Session!FlightRead
<1> HIDE DEF f
<1>5. /\ flight' \in [Call -> Session!Flight] /\ flight'[c] = f
      /\ \A d \in Call \ {c} : flight'[d] = flight[d]
    BY <1>1, <1>3, <1>4
<1>6. \A d \in Call \ {c} : flight[d].pc = "none"
    BY <1>1 DEF SessionInv, OneFlight
<1>7. Issued(cache)
    BY <1>2 DEF SessionInv, TokensIssued
<1>8. sess[cache].state = "used" => cache \in doubtful
    BY <1>1, <1>2, <1>6 DEF SessionInv, UsedIsDoubtful
<1>9. Session!TypeOK'
    BY <1>1, <1>3, <1>5 DEF SessionInv, Session!TypeOK
<1>10. TokensIssued' /\ OneFlight' /\ Screens'
    BY <1>1, <1>2, <1>3, <1>5, <1>6, <1>7 DEF SessionInv, TokensIssued, OneFlight, Screens, Issued
<1>11. UsedIsDoubtful'
    BY <1>1, <1>2, <1>3, <1>5, <1>6, <1>8 DEF SessionInv, UsedIsDoubtful,
        Session!ReuseOnlyAfterLoss
<1>12. FlownForUser'
    BY <1>1, <1>3, <1>5, <1>6 DEF SessionInv, FlownForUser, Session!OnlyDeadTokensGo
<1>13. QuitIsQuiet'
    BY <1>1, <1>3, <1>5, <1>6 DEF SessionInv, QuitIsQuiet, Session!SignOutClears
<1> QED BY <1>9, <1>10, <1>11, <1>12, <1>13 DEF SessionInv

\* The server answers a refresh.
LEMMA FlightServes ==
    ASSUME Session!SoundConstants, SessionInv, NEW c \in Call, Session!FlightServe(c)
    PROVE  SessionInv'
<1> DEFINE t == flight[c].token
<1>1. /\ flight[c].pc = "sent" /\ flight[c] \in Session!Flight /\ flight \in [Call -> Session!Flight]
      /\ UNCHANGED <<call, inFlight, boot, cache, keychain, wronged, expired, lateTokens,
                     user, leaving, restarts, signedOut, straddled, doubtful>>
      /\ Session!Rotate(t)
    BY DEF Session!FlightServe, Session!store, Session!screens, Session!histories, SessionInv,
        Session!TypeOK
<1>2. t \in Session!Token /\ Issued(t)
    BY <1>1 DEF SessionInv, TokensIssued
<1>3. /\ sess' \in [Session!Token -> Session!Session]
      /\ \A s \in Session!Token : Issued(s) => Issued(s)'
      /\ \A s \in Session!Token : sess'[s].state = "used" =>
            sess[s].state = "used" \/ (s = t /\ sess[t].state = "live")
      /\ \A s \in Session!Token : sess[s].state \in {"used", "revoked"} =>
            sess'[s].state = sess[s].state
      /\ sess'[t].state # "live"
      /\ sess[t].state = "live" =>
            /\ Session!NewToken \in Session!Token /\ ~Issued(Session!NewToken) /\ Session!NewToken # t
            /\ sess'[Session!NewToken].state = "live"
      /\ reused' \subseteq Session!Token
      /\ \A s \in reused' : s \in reused \/ (s = t /\ sess[t].state = "used")
    BY <1>1, <1>2, RotateFacts DEF SessionInv
<1> DEFINE a == IF sess[t].state = "live" THEN Session!NewToken ELSE Session!None
<1> DEFINE f == [flight[c] EXCEPT !.pc = "answered", !.answer = a]
<1>4. /\ a \in Session!Token \cup {Session!None}
      /\ a # Session!None => a \in Session!Token /\ ~Issued(a) /\ a # t /\ sess'[a].state = "live"
    BY <1>3, TokenNumbers
<1>5. flight' = [flight EXCEPT ![c].pc = "answered", ![c].answer = a]
    BY DEF Session!FlightServe
<1> HIDE DEF a
<1>6. /\ f \in Session!Flight /\ f.pc = "answered" /\ f.token = t /\ f.old = flight[c].old
      /\ f.answer = a
    BY <1>1, <1>4, TokenNumbers DEF Session!Flight
<1>7. flight' = [flight EXCEPT ![c] = f]
    BY <1>1, <1>5 DEF Session!Flight
<1> HIDE DEF f
<1>8. /\ flight' \in [Call -> Session!Flight] /\ flight'[c] = f
      /\ \A d \in Call \ {c} : flight'[d] = flight[d]
    BY <1>1, <1>6, <1>7
<1>9. \A d \in Call \ {c} : flight[d].pc = "none"
    BY <1>1 DEF SessionInv, OneFlight
<1>10. Session!TypeOK'
    BY <1>1, <1>3, <1>6, <1>8 DEF SessionInv, Session!TypeOK
<1>11. TokensIssued'
    BY <1>1, <1>2, <1>3, <1>6, <1>8, <1>9 DEF SessionInv, Session!TypeOK, TokensIssued
<1>12. OneFlight' /\ Screens'
    BY <1>1, <1>6, <1>8, <1>9 DEF SessionInv, OneFlight, Screens
<1>13. UsedIsDoubtful'
    <2>1. sess[t].state = "used" => t \in doubtful
        BY <1>1 DEF SessionInv, UsedIsDoubtful
    <2>2. Session!ReuseOnlyAfterLoss'
        BY <1>1, <1>3, <2>1 DEF SessionInv, UsedIsDoubtful, Session!ReuseOnlyAfterLoss
    <2>3. ASSUME NEW s \in {cache, keychain} \cap Session!Token, sess'[s].state = "used"
          PROVE  s \in doubtful \/ \E d \in Call : flight'[d].pc = "answered" /\ flight'[d].token = s
        <3>1. CASE s = t
            BY <1>6, <1>8, <3>1
        <3>2. CASE s # t
            <4>1. sess[s].state = "used"
                BY <1>3, <2>3, <3>2
            <4>2. s \in doubtful
                BY <1>1, <1>9, <4>1 DEF SessionInv, UsedIsDoubtful
            <4> QED BY <4>2
        <3> QED BY <3>1, <3>2
    <2>4. a # Session!None => a \notin lateTokens
        BY <1>4 DEF SessionInv, TokensIssued
    <2> QED BY <1>1, <1>4, <1>6, <1>8, <1>9, <2>2, <2>3, <2>4 DEF SessionInv, UsedIsDoubtful
<1>14. FlownForUser'
    BY <1>1, <1>3, <1>6, <1>8, <1>9 DEF SessionInv, FlownForUser, Session!OnlyDeadTokensGo
<1>15. QuitIsQuiet'
    BY <1>1, <1>6, <1>8, <1>9 DEF SessionInv, QuitIsQuiet, Session!SignOutClears
<1> QED BY <1>10, <1>11, <1>12, <1>13, <1>14, <1>15 DEF SessionInv

-----------------------------------------------------------------------------
(* The Session!server, the keychain, the Session!screens *)

\* A token past its lifetime, and the answer to a request nobody waits for.
LEMMA ServerKeeps ==
    ASSUME Session!SoundConstants, SessionInv, NEW t \in Session!Token, Session!Expire(t) \/ Session!ServeLate(t)
    PROVE  SessionInv'
<1>1. UNCHANGED <<cache, keychain, call, flight, inFlight, user, boot, leaving, restarts,
                  signedOut, straddled, doubtful, wronged>>
    BY DEF Session!Expire, Session!ServeLate, Session!store, Session!calls, Session!screens,
        Session!histories
<1>2. CASE Session!Expire(t)
    <2>1. UNCHANGED <<sess, lateTokens, reused>> /\ expired' \subseteq Session!Token
        BY <1>2 DEF Session!Expire, SessionInv, Session!TypeOK
    <2>2. Session!TypeOK' /\ TokensIssued' /\ OneFlight' /\ Screens'
        BY <1>1, <2>1 DEF SessionInv, Session!TypeOK, TokensIssued, Issued, OneFlight, Screens
    <2> QED BY <1>1, <2>1, <2>2 DEF SessionInv, UsedIsDoubtful, Session!ReuseOnlyAfterLoss,
        FlownForUser,
            Session!OnlyDeadTokensGo, QuitIsQuiet, Session!SignOutClears
<1>3. CASE Session!ServeLate(t)
    <2>1. /\ t \in lateTokens /\ Session!Rotate(t) /\ lateTokens' = lateTokens \ {t} /\ UNCHANGED expired
          /\ Issued(t) /\ t \in doubtful
        BY <1>3 DEF Session!ServeLate, SessionInv, TokensIssued, UsedIsDoubtful
    <2>2. /\ sess' \in [Session!Token -> Session!Session]
          /\ \A s \in Session!Token : Issued(s) => Issued(s)'
          /\ \A s \in Session!Token : sess'[s].state = "used" =>
                sess[s].state = "used" \/ (s = t /\ sess[t].state = "live")
          /\ \A s \in Session!Token : sess[s].state \in {"used", "revoked"} =>
                sess'[s].state = sess[s].state
          /\ reused' \subseteq Session!Token
          /\ \A s \in reused' : s \in reused \/ (s = t /\ sess[t].state = "used")
        BY <2>1, RotateFacts DEF SessionInv
    <2>3. Session!TypeOK'
        BY <1>1, <2>1, <2>2 DEF SessionInv, Session!TypeOK
    <2>4. TokensIssued'
        BY <1>1, <2>1, <2>2 DEF SessionInv, Session!TypeOK, TokensIssued
    <2>5. OneFlight' /\ Screens'
        BY <1>1 DEF SessionInv, OneFlight, Screens
    <2>6. ASSUME NEW c \in Call, flight[c].pc = "answered", flight[c].answer # Session!None
          PROVE  sess'[flight[c].answer].state \in {"live", "revoked"}
        <3> DEFINE a == flight[c].answer
        <3>1. a \in Session!Token /\ sess[a].state \in {"live", "revoked"} /\ a # t
            BY <2>1, <2>6, TokenNumbers DEF SessionInv, Session!TypeOK, Session!Flight,
                UsedIsDoubtful
        <3>2. sess'[a].state # "used" /\ sess'[a].state # "none"
            BY <2>2, <3>1 DEF Issued
        <3>3. sess'[a] \in Session!Session
            BY <2>2, <3>1
        <3> QED BY <3>2, <3>3 DEF Session!Session
    <2>7. UsedIsDoubtful'
        BY <1>1, <2>1, <2>2, <2>6 DEF SessionInv, UsedIsDoubtful, Session!ReuseOnlyAfterLoss,
            TokensIssued
    <2>8. FlownForUser'
        <3>1. ASSUME NEW c \in Call, flight[c].pc = "answered", flight[c].answer = Session!None
              PROVE  sess'[flight[c].token].state # "live"
            <4>1. /\ flight[c].token \in Session!Token /\ sess[flight[c].token] \in Session!Session
                  /\ sess[flight[c].token].state \notin {"none", "live"}
                BY <3>1 DEF SessionInv, Session!TypeOK, TokensIssued, Issued, FlownForUser
            <4> QED BY <2>2, <4>1 DEF Session!Session
        <3> QED BY <1>1, <3>1 DEF SessionInv, FlownForUser, Session!OnlyDeadTokensGo
    <2>9. QuitIsQuiet'
        BY <1>1 DEF SessionInv, QuitIsQuiet, Session!SignOutClears
    <2> QED BY <2>3, <2>4, <2>5, <2>7, <2>8, <2>9 DEF SessionInv
<1> QED BY <1>2, <1>3

\* The first read of a process.
LEMMA LoadKeeps ==
    ASSUME Session!SoundConstants, SessionInv, Session!Load
    PROVE  SessionInv'
<1>1. /\ UNCHANGED <<sess, expired, lateTokens, reused, keychain, call, flight, inFlight, user, boot,
                     leaving, restarts, signedOut, straddled, doubtful, wronged>>
      /\ cache = Session!Unknown /\ cache' \in {keychain, Session!None}
    BY DEF Session!Load, Session!server, Session!calls, Session!screens, Session!histories
<1>2. cache' \in 0..Session!Unknown
    BY <1>1, TokenNumbers DEF SessionInv, Session!TypeOK
<1>3. Session!TypeOK'
    BY <1>1, <1>2 DEF SessionInv, Session!TypeOK
<1>4. TokensIssued' /\ OneFlight' /\ Screens'
    BY <1>1, TokenNumbers DEF SessionInv, TokensIssued, Issued, OneFlight, Screens
<1>5. UsedIsDoubtful'
    BY <1>1, TokenNumbers DEF SessionInv, UsedIsDoubtful, Session!ReuseOnlyAfterLoss
<1>6. FlownForUser'
    BY <1>1, TokenNumbers DEF SessionInv, FlownForUser, Session!OnlyDeadTokensGo, TokensIssued
<1>7. QuitIsQuiet'
    BY <1>1 DEF SessionInv, QuitIsQuiet, Session!SignOutClears
<1> QED BY <1>3, <1>4, <1>5, <1>6, <1>7 DEF SessionInv

\* A sign-in stores the token it is given; the refreshes under way are of an
\* earlier one and old.
LEMMA LoginKeeps ==
    ASSUME Session!SoundConstants, SessionInv, NEW saved \in BOOLEAN, Session!Login(saved)
    PROVE  SessionInv'
<1> DEFINE n == Session!NewToken
<1>1. /\ UNCHANGED <<expired, lateTokens, reused, call, flight, inFlight, boot, leaving, restarts,
                     wronged>>
      /\ user = 0 /\ boot = NoCall /\ leaving = Session!Stay
      /\ cache' = n /\ keychain' = (IF saved THEN n ELSE keychain)
      /\ doubtful' = (IF saved THEN doubtful ELSE doubtful \cup ({keychain} \ {Session!None}))
      /\ user' = (IF saved THEN n ELSE 0) /\ signedOut' = FALSE /\ straddled' = FALSE
    BY DEF Session!Login, Session!Store, Session!calls
<1>2. n \in Session!Token /\ ~Issued(n)
    BY NewTokenIsFresh DEF Session!Login
<1>3. sess' = [sess EXCEPT ![n] = [state |-> "live", login |-> n]]
    BY DEF Session!Login
<1> HIDE DEF n
<1>4. [state |-> "live", login |-> n] \in Session!Session
    BY <1>2, TokenNumbers DEF Session!Session
<1>5. /\ sess' \in [Session!Token -> Session!Session] /\ sess'[n].state = "live"
      /\ \A s \in Session!Token \ {n} : sess'[s] = sess[s]
      /\ sess \in [Session!Token -> Session!Session]
    BY <1>2, <1>3, <1>4 DEF SessionInv, Session!TypeOK
<1>6. \A s \in Session!Token : Issued(s) => s # n /\ sess'[s] = sess[s]
    BY <1>2, <1>5
<1>7. /\ cache' \in 0..Session!Unknown /\ keychain' \in 0..MaxTokens /\ user' \in 0..MaxTokens
      /\ doubtful' \subseteq Session!Token
    BY <1>1, <1>2, TokenNumbers DEF SessionInv, Session!TypeOK
<1>8. Session!TypeOK'
    BY <1>1, <1>5, <1>7 DEF SessionInv, Session!TypeOK
<1>9. TokensIssued'
    BY <1>1, <1>2, <1>5, <1>6 DEF SessionInv, Session!TypeOK, TokensIssued, Issued
<1>10. OneFlight' /\ Screens'
    BY <1>1 DEF SessionInv, OneFlight, Screens, Session!Stay
<1>11. \A c \in Call : flight[c].pc # "none" => flight[c].old
    BY <1>1 DEF SessionInv, FlownForUser
<1>12. UsedIsDoubtful'
    <2>1. \A s \in {cache', keychain'} \cap Session!Token : sess'[s].state = "used" => s \in doubtful'
        BY <1>1, <1>2, <1>5, TokenNumbers
    <2>2. \A c \in Call : flight[c].pc = "sent" => sess'[flight[c].token] = sess[flight[c].token]
        BY <1>6 DEF SessionInv, TokensIssued
    <2>3. \A c \in Call : flight[c].pc = "answered" /\ flight[c].answer # Session!None =>
              sess'[flight[c].answer] = sess[flight[c].answer]
        BY <1>6, TokenNumbers DEF SessionInv, UsedIsDoubtful, Issued, Session!TypeOK,
            Session!Flight
    <2> QED BY <1>1, <2>1, <2>2, <2>3 DEF SessionInv, UsedIsDoubtful, Session!ReuseOnlyAfterLoss
<1>13. FlownForUser'
    <2>1. \A c \in Call : flight[c].pc = "answered" => sess'[flight[c].token] = sess[flight[c].token]
        BY <1>6 DEF SessionInv, TokensIssued
    <2> QED BY <1>1, <1>11, <2>1 DEF SessionInv, FlownForUser, Session!OnlyDeadTokensGo
<1>14. QuitIsQuiet'
    BY <1>1 DEF QuitIsQuiet, Session!SignOutClears
<1> QED BY <1>8, <1>9, <1>10, <1>12, <1>13, <1>14 DEF SessionInv

\* A sign-out reads its token, posts it, and clears the store.
LEMMA LogoutKeeps ==
    ASSUME Session!SoundConstants, SessionInv, Session!LogoutRead \/ Session!LogoutPost \/ Session!LogoutClear
    PROVE  SessionInv'
<1>1. CASE Session!LogoutRead
    <2>1. /\ UNCHANGED <<sess, expired, lateTokens, reused, cache, keychain, call, flight, inFlight, user,
                         boot, restarts, signedOut, straddled, doubtful, wronged>>
          /\ user # 0 /\ cache # Session!Unknown
          /\ leaving' = [pc |-> IF cache = Session!None THEN "closing" ELSE "posted", token |-> cache]
        BY <1>1 DEF Session!LogoutRead, Session!server, Session!store, Session!calls,
            Session!histories
    <2>2. cache \in 0..MaxTokens
        BY <2>1, TokenNumbers DEF SessionInv, Session!TypeOK
    <2>3. leaving' \in [pc : {"no", "posted", "closing"}, token : 0..MaxTokens]
        BY <2>1, <2>2
    <2>4. Session!TypeOK'
        BY <2>1, <2>3 DEF SessionInv, Session!TypeOK
    <2>5. TokensIssued' /\ OneFlight' /\ Screens'
        BY <2>1, <2>2, TokenNumbers DEF SessionInv, TokensIssued, Issued, OneFlight, Screens
    <2> QED BY <2>1, <2>4, <2>5 DEF SessionInv, UsedIsDoubtful, Session!ReuseOnlyAfterLoss,
        FlownForUser,
            Session!OnlyDeadTokensGo, QuitIsQuiet, Session!SignOutClears
<1>2. CASE Session!LogoutPost
    <2> DEFINE t == leaving.token
    <2>1. /\ UNCHANGED <<expired, lateTokens, reused, cache, keychain, call, flight, inFlight, user,
                         boot, restarts, signedOut, straddled, doubtful, wronged>>
          /\ leaving.pc = "posted" /\ leaving' = [leaving EXCEPT !.pc = "closing"]
          /\ sess' \in {sess, [sess EXCEPT ![t].state = IF @ = "live" THEN "revoked" ELSE @]}
        BY <1>2 DEF Session!LogoutPost, Session!store, Session!calls, Session!histories
    <2>2. t \in Session!Token /\ sess \in [Session!Token -> Session!Session]
        BY <2>1 DEF SessionInv, TokensIssued, Session!TypeOK
    <2>3. /\ sess' \in [Session!Token -> Session!Session]
          /\ \A s \in Session!Token : \/ sess'[s] = sess[s]
                                      \/ sess[s].state = "live" /\ sess'[s].state = "revoked"
        BY <2>1, <2>2 DEF Session!Session
    <2>4. /\ leaving' \in [pc : {"no", "posted", "closing"}, token : 0..MaxTokens]
          /\ leaving'.pc = "closing"
        BY <2>1 DEF SessionInv, Session!TypeOK
    <2>5. Session!TypeOK'
        BY <2>1, <2>3, <2>4 DEF SessionInv, Session!TypeOK
    <2>6. TokensIssued' /\ OneFlight' /\ Screens'
        BY <2>1, <2>3, <2>4 DEF SessionInv, Session!TypeOK, TokensIssued, Issued, OneFlight,
            Screens
    <2>7. UsedIsDoubtful'
        <3>1. \A c \in Call : flight[c].pc = "answered" /\ flight[c].answer # Session!None =>
                  flight[c].answer \in Session!Token
            BY TokenNumbers DEF SessionInv, Session!TypeOK, Session!Flight
        <3> QED BY <2>1, <2>3, <3>1
                DEF SessionInv, UsedIsDoubtful, Session!ReuseOnlyAfterLoss, TokensIssued
    <2>8. FlownForUser'
        BY <2>1, <2>3 DEF SessionInv, FlownForUser, Session!OnlyDeadTokensGo, TokensIssued
    <2> QED BY <2>1, <2>5, <2>6, <2>7, <2>8 DEF SessionInv, QuitIsQuiet, Session!SignOutClears
<1>3. CASE Session!LogoutClear
    <2>1. /\ UNCHANGED <<sess, expired, lateTokens, reused, call, inFlight, boot, restarts, doubtful,
                         wronged>>
          /\ leaving.pc = "closing" /\ leaving' = Session!Stay /\ user' = 0
          /\ cache' = Session!None /\ keychain' = Session!None /\ signedOut' = TRUE /\ straddled' = FALSE
          /\ flight' = [c \in Call |-> IF flight[c].pc = "none" THEN flight[c]
                                       ELSE [flight[c] EXCEPT !.old = TRUE]]
        BY <1>3 DEF Session!LogoutClear, Session!Clear, Session!server
    <2>2. boot = NoCall
        BY <2>1 DEF SessionInv, Screens
    <2>3. flight \in [Call -> Session!Flight]
        BY DEF SessionInv, Session!TypeOK
    <2>4. /\ flight' \in [Call -> Session!Flight]
          /\ \A c \in Call : /\ flight'[c].pc = flight[c].pc /\ flight'[c].token = flight[c].token
                             /\ flight'[c].answer = flight[c].answer
                             /\ flight[c].pc # "none" => flight'[c].old
        BY <2>1, <2>3 DEF Session!Flight
    <2>5. /\ cache' \in 0..Session!Unknown /\ keychain' \in 0..MaxTokens /\ user' \in 0..MaxTokens
          /\ leaving' \in [pc : {"no", "posted", "closing"}, token : 0..MaxTokens]
          /\ leaving'.pc = "no"
        BY <2>1, TokenNumbers DEF Session!Stay, Session!None
    <2>6. Session!TypeOK'
        BY <2>1, <2>4, <2>5 DEF SessionInv, Session!TypeOK
    <2>7. TokensIssued' /\ OneFlight' /\ Screens'
        <3>1. TokensIssued'
            BY <2>1, <2>4, <2>5, TokenNumbers DEF SessionInv, TokensIssued, Issued
        <3>2. OneFlight'
            <4>1. inFlight # NoCall => inFlight \in Call
                BY DEF SessionInv, Session!TypeOK
            <4> QED BY <2>1, <2>4, <4>1 DEF SessionInv, OneFlight
        <3>3. Screens'
            BY <2>1, <2>2, <2>5 DEF Screens
        <3> QED BY <3>1, <3>2, <3>3
    <2>8. UsedIsDoubtful'
        BY <2>1, <2>4, TokenNumbers DEF SessionInv, UsedIsDoubtful, Session!ReuseOnlyAfterLoss
    <2>9. FlownForUser'
        BY <2>1, <2>4 DEF SessionInv, FlownForUser, Session!OnlyDeadTokensGo
    <2>10. QuitIsQuiet'
        BY <2>1, <2>2, <2>4 DEF QuitIsQuiet, Session!SignOutClears
    <2> QED BY <2>6, <2>7, <2>8, <2>9, <2>10 DEF SessionInv
<1> QED BY <1>1, <1>2, <1>3

\* The app is killed: what was on its way arrives late, and is doubtful.
LEMMA RestartKeeps ==
    ASSUME Session!SoundConstants, SessionInv, NEW c \in Call, Session!Restart(c)
    PROVE  SessionInv'
<1>1. /\ UNCHANGED <<sess, expired, reused, keychain, signedOut, straddled, wronged>>
      /\ restarts' = restarts + 1 /\ restarts < MaxRestarts
      /\ cache' = Session!Unknown /\ inFlight' = NoCall /\ user' = 0 /\ boot' = c /\ leaving' = Session!Stay
      /\ call' = [d \in Call |-> IF d = c THEN [Session!Quiet EXCEPT !.pc = "reading"] ELSE Session!Quiet]
      /\ flight' = [d \in Call |-> Session!Grounded]
    BY DEF Session!Restart
<1>2. /\ lateTokens' = lateTokens \cup {flight[d].token : d \in {e \in Call : flight[e].pc = "sent"}}
      /\ doubtful' = doubtful \cup {flight[d].token :
                       d \in {e \in Call : flight[e].pc \in {"sent", "answered"}}}
    BY DEF Session!Restart
<1>3. restarts' \in 0..MaxRestarts
    BY <1>1 DEF SessionInv, Session!TypeOK, Session!SoundConstants
<1>4. /\ call' \in [Call -> Session!Api] /\ flight' \in [Call -> Session!Flight]
      /\ \A d \in Call : flight'[d].pc = "none" /\ call'[d].pc # "waiting"
      /\ \A d \in Call \ {c} : call'[d].pc = "idle"
      /\ call'[c].pc = "reading" /\ ~call'[c].retried
    BY <1>1, TokenNumbers DEF Session!Quiet, Session!Grounded, Session!Api, Session!Flight,
        Session!None
<1>5. /\ cache' \in 0..Session!Unknown /\ user' \in 0..MaxTokens
      /\ leaving' \in [pc : {"no", "posted", "closing"}, token : 0..MaxTokens]
      /\ leaving'.pc = "no"
    BY <1>1, TokenNumbers DEF Session!Stay, Session!None
<1>6. /\ lateTokens' \subseteq Session!Token /\ doubtful' \subseteq Session!Token /\ lateTokens' \subseteq doubtful'
      /\ \A t \in lateTokens' : Issued(t)
    BY <1>2 DEF SessionInv, Session!TypeOK, TokensIssued, UsedIsDoubtful
<1>7. Session!TypeOK'
    BY <1>1, <1>3, <1>4, <1>5, <1>6 DEF SessionInv, Session!TypeOK
<1>8. TokensIssued' /\ OneFlight' /\ Screens'
    BY <1>1, <1>4, <1>5, <1>6, TokenNumbers DEF SessionInv, TokensIssued, Issued, OneFlight,
        Screens
<1>9. keychain \in Session!Token /\ sess[keychain].state = "used" => keychain \in doubtful'
    BY <1>2 DEF SessionInv, UsedIsDoubtful
<1>10. UsedIsDoubtful'
    BY <1>1, <1>2, <1>4, <1>6, <1>9, TokenNumbers DEF SessionInv, UsedIsDoubtful,
        Session!ReuseOnlyAfterLoss
<1>11. FlownForUser'
    BY <1>1, <1>4 DEF SessionInv, FlownForUser, Session!OnlyDeadTokensGo
<1>12. QuitIsQuiet'
    BY <1>1, <1>4 DEF SessionInv, QuitIsQuiet, Session!SignOutClears
<1> QED BY <1>7, <1>8, <1>10, <1>11, <1>12 DEF SessionInv

\* Every step keeps the invariant.
LEMMA NextSession ==
    ASSUME Session!SoundConstants, SessionInv, [Session!Next]_Session!vars
    PROVE  SessionInv'
<1>1. CASE UNCHANGED Session!vars
    <2>1. UNCHANGED <<sess, expired, lateTokens, reused, cache, keychain, call, flight, inFlight, user,
                      boot, leaving, restarts, signedOut, straddled, doubtful, wronged>>
        BY <1>1 DEF Session!vars, Session!server, Session!store, Session!calls, Session!screens,
            Session!histories
    <2>2. Session!TypeOK' /\ TokensIssued' /\ OneFlight' /\ Screens'
        BY <2>1 DEF SessionInv, Session!TypeOK, TokensIssued, Issued, OneFlight, Screens
    <2> QED BY <2>1, <2>2 DEF SessionInv, UsedIsDoubtful, Session!ReuseOnlyAfterLoss,
        FlownForUser,
            Session!OnlyDeadTokensGo, QuitIsQuiet, Session!SignOutClears
<1>2. ASSUME NEW c \in Call, Session!FlightRead(c) PROVE SessionInv'
    BY <1>2, FlightReads, FlightsLand
<1>3. ASSUME NEW c \in Call,
             Session!Issue(c) \/ Session!Attach(c) \/ Session!Answer(c) \/ Session!CallFails(c) \/ Session!RefusedAgain(c) \/ Session!Refused(c)
      PROVE  SessionInv'
    BY <1>3, CallsKeep, RefusedKeeps
<1>4. ASSUME NEW c \in Call,
             \/ Session!FlightServe(c) \/ Session!FlightRefused(c) \/ Session!FlightLost(c) \/ Session!Restart(c)
             \/ \E saved \in BOOLEAN : Session!FlightStores(c, saved)
      PROVE  SessionInv'
    BY <1>4, FlightServes, FlightsLand, RestartKeeps
<1>5. CASE Session!LoginRejected
    BY <1>1, <1>5 DEF Session!LoginRejected
<1>6. CASE Session!Next
    BY <1>2, <1>3, <1>4, <1>5, <1>6, ServerKeeps, LoadKeeps, LoginKeeps, LogoutKeeps
        DEF Session!Next
<1> QED BY <1>1, <1>6

\* The parts of the invariant that say what it is for.
LEMMA SessionKeepsTokens == SessionInv => Session!TokensAreKept
BY DEF SessionInv, UsedIsDoubtful, FlownForUser, QuitIsQuiet, Session!TokensAreKept

-----------------------------------------------------------------------------
(* The sweep of expired listings *)

\* Whose sweep has taken the lock and not lost it since has it still.
Inside(w) == sweep[w].pc \in {"recheck", "publish", "mark", "release"}
LockHeld == \A w \in Worker : Inside(w) /\ w \notin lapsed => lock[sweep[w].v] = w

\* Whoever is about to mark an expiry holds its lock, whoever is about to publish
\* it found no marker, and what is published is marked or about to be, but for
\* the versions in unmarked.
MarksHeld == \A w \in Worker : Expiry!At(w, "mark") /\ sweep[w].v \notin unmarked => w \notin lapsed
PublishesNew ==
    \A w \in Worker : Expiry!At(w, "publish") /\ w \notin lapsed /\ sweep[w].v \notin unmarked
                      => sweep[w].v \notin done
SentIsMarked ==
    \A v \in Expiry!Version : sent[v] > 0 /\ v \notin unmarked =>
        v \in done \/ \E w \in Worker : Expiry!At(w, "mark") /\ sweep[w].v = v

SweepInv == Expiry!TypeOK /\ LockHeld /\ MarksHeld /\ PublishesNew /\ SentIsMarked /\ Expiry!PublishedOnce

\* Nothing is expired at first.
LEMMA InitSweep == ASSUME Expiry!SoundConstants PROVE Expiry!Init => SweepInv
<1> SUFFICES ASSUME Expiry!Init PROVE SweepInv
    OBVIOUS
<1>1. Expiry!TypeOK
    <2>1. 1 \in Expiry!Version /\ 0 \in 0..MaxFailures
        BY DEF Expiry!SoundConstants, Expiry!Version
    <2> QED BY <2>1 DEF Expiry!Init, Expiry!TypeOK, Expiry!Place, Expiry!Rest
<1>2. \A w \in Worker : sweep[w].pc = "idle"
    BY DEF Expiry!Init, Expiry!Rest
<1> QED BY <1>1, <1>2 DEF Expiry!Init, SweepInv, LockHeld, MarksHeld, PublishesNew, SentIsMarked,
        Expiry!PublishedOnce, Inside, Expiry!At, Expiry!Version

\* A sweep goes to another place and the lock, the marker and what was published
\* stay, or it is the one that may change them.
LEMMA PlaceTypes ==
    ASSUME Expiry!TypeOK, NEW w \in Worker, NEW pc \in Expiry!Place, Expiry!Go(w, pc)
    PROVE  /\ sweep' \in [Worker -> [pc : Expiry!Place, v : Expiry!Version]]
           /\ sweep'[w].pc = pc /\ sweep'[w].v = sweep[w].v
           /\ \A x \in Worker \ {w} : sweep'[x] = sweep[x]
BY DEF Expiry!TypeOK, Expiry!Go

\* The listing's clock, and its seller.
LEMMA ListingKeeps ==
    ASSUME Expiry!SoundConstants, SweepInv, Expiry!Clock \/ Expiry!Bump
    PROVE  SweepInv'
<1>1. UNCHANGED <<lock, done, sweep, sent, lapsed, unmarked, failures>>
    BY DEF Expiry!Clock, Expiry!Bump, Expiry!history
<1>2. Expiry!TypeOK'
    <2>1. version' \in Expiry!Version /\ lapsedAt' \in BOOLEAN
        <3>1. CASE Expiry!Clock
            BY <3>1 DEF Expiry!Clock, SweepInv, Expiry!TypeOK
        <3>2. CASE Expiry!Bump
            <4>1. version \in 1..MaxVersion /\ version < MaxVersion /\ MaxVersion \in Nat
                BY <3>2 DEF Expiry!Bump, SweepInv, Expiry!TypeOK, Expiry!Version,
                    Expiry!SoundConstants
            <4>2. version + 1 \in 1..MaxVersion
                BY <4>1
            <4> QED BY <3>2, <4>2 DEF Expiry!Bump, Expiry!Version
        <3> QED BY <3>1, <3>2
    <2> QED BY <1>1, <2>1 DEF SweepInv, Expiry!TypeOK
<1> QED BY <1>1, <1>2 DEF SweepInv, LockHeld, MarksHeld, PublishesNew, SentIsMarked,
        Expiry!PublishedOnce, Inside, Expiry!At

\* A sweep begins with another version, and with no lapse.
LEMMA StartKeeps ==
    ASSUME SweepInv, NEW w \in Worker, Expiry!Start(w)
    PROVE  SweepInv'
<1>1. /\ UNCHANGED <<version, lapsedAt, lock, done, sent, unmarked, failures>>
      /\ lapsed' = lapsed \ {w} /\ sweep[w].pc = "idle"
    BY DEF Expiry!Start, Expiry!listing, Expiry!At
<1>2. /\ sweep' \in [Worker -> [pc : Expiry!Place, v : Expiry!Version]] /\ sweep'[w].pc = "check"
      /\ \A x \in Worker \ {w} : sweep'[x] = sweep[x]
    BY DEF Expiry!Start, SweepInv, Expiry!TypeOK, Expiry!Place
<1>3. Expiry!TypeOK'
    BY <1>1, <1>2 DEF SweepInv, Expiry!TypeOK
<1> QED BY <1>1, <1>2, <1>3 DEF SweepInv, LockHeld, MarksHeld, PublishesNew, SentIsMarked,
        Expiry!PublishedOnce, Inside, Expiry!At

\* What one sweep does short of publishing leaves the invariant to its lock.
LEMMA SectionKeeps ==
    ASSUME Expiry!SoundConstants, SweepInv, NEW w \in Worker, Expiry!Check(w) \/ Expiry!Take(w) \/ Expiry!CheckAgain(w)
    PROVE  SweepInv'
<1>1. UNCHANGED <<version, lapsedAt, done, sent, lapsed, unmarked, failures>>
    BY DEF Expiry!Check, Expiry!Take, Expiry!CheckAgain, Expiry!listing, Expiry!history
<1>2. sweep[w].v \in Expiry!Version /\ lock \in [Expiry!Version -> Worker \cup {NoWorker}]
    BY DEF SweepInv, Expiry!TypeOK
<1>3. PICK pc \in {"idle", "take", "recheck", "publish", "release"} :
         /\ Expiry!Go(w, pc)
         /\ pc = "recheck" => lock' = [lock EXCEPT ![sweep[w].v] = w] /\ lock[sweep[w].v] = NoWorker
         /\ pc # "recheck" => UNCHANGED lock
         /\ pc \in {"publish", "release"} => sweep[w].pc = "recheck"
         /\ pc = "publish" => sweep[w].v \notin done
    BY DEF Expiry!Check, Expiry!Take, Expiry!CheckAgain, Expiry!Recheck, Expiry!At
<1>4. /\ sweep' \in [Worker -> [pc : Expiry!Place, v : Expiry!Version]]
      /\ sweep'[w].pc = pc /\ sweep'[w].v = sweep[w].v
      /\ \A x \in Worker \ {w} : sweep'[x] = sweep[x]
    BY <1>3, PlaceTypes DEF SweepInv, Expiry!Place
<1>5. lock' \in [Expiry!Version -> Worker \cup {NoWorker}]
    BY <1>2, <1>3
<1>6. Expiry!TypeOK'
    BY <1>1, <1>4, <1>5 DEF SweepInv, Expiry!TypeOK
<1>7. sweep[w].pc # "mark"
    BY DEF Expiry!Check, Expiry!Take, Expiry!CheckAgain, Expiry!At
<1>8. LockHeld'
    <2>1. CASE pc = "recheck"
        <3>1. \A x \in Worker \ {w} : Inside(x) /\ x \notin lapsed => sweep[x].v # sweep[w].v
            BY <1>3, <2>1 DEF SweepInv, LockHeld, Expiry!SoundConstants
        <3>2. lock'[sweep[w].v] = w
            BY <1>2, <1>3, <2>1
        <3>3. \A x \in Worker \ {w} :
                  Inside(x) /\ x \notin lapsed => lock'[sweep[x].v] = lock[sweep[x].v]
            BY <1>2, <1>3, <2>1, <3>1 DEF SweepInv, Expiry!TypeOK
        <3> QED BY <1>1, <1>4, <3>2, <3>3 DEF SweepInv, LockHeld, Inside
    <2>2. CASE pc # "recheck"
        BY <1>1, <1>3, <1>4, <2>2 DEF SweepInv, LockHeld, Inside
    <2> QED BY <2>1, <2>2
<1>9. MarksHeld' /\ PublishesNew'
    BY <1>1, <1>3, <1>4 DEF SweepInv, MarksHeld, PublishesNew, Expiry!At
<1>10. SentIsMarked' /\ Expiry!PublishedOnce'
    BY <1>1, <1>4, <1>7 DEF SweepInv, SentIsMarked, Expiry!PublishedOnce, Expiry!At
<1> QED BY <1>6, <1>8, <1>9, <1>10 DEF SweepInv

\* A publication is the first of its version, or is counted among the unmarked.
LEMMA PublishKeeps ==
    ASSUME SweepInv, NEW w \in Worker, Expiry!Publish(w)
    PROVE  SweepInv'
<1> DEFINE v == sweep[w].v
<1>1. /\ UNCHANGED <<version, lapsedAt, lock, done, lapsed, failures>>
      /\ unmarked' = (IF w \in lapsed THEN unmarked \cup {v} ELSE unmarked)
      /\ sweep[w].pc = "publish" /\ v \in Expiry!Version
    BY DEF Expiry!Publish, Expiry!listing, Expiry!At, SweepInv, Expiry!TypeOK
<1>2. /\ sweep' \in [Worker -> [pc : Expiry!Place, v : Expiry!Version]]
      /\ sweep'[w].pc = "mark" /\ sweep'[w].v = v
      /\ \A x \in Worker \ {w} : sweep'[x] = sweep[x]
    BY PlaceTypes DEF Expiry!Publish, SweepInv, Expiry!Place
<1>3. /\ sent' \in [Expiry!Version -> Nat] /\ sent'[v] = (IF sent[v] > 1 THEN sent[v] ELSE sent[v] + 1)
      /\ \A u \in Expiry!Version \ {v} : sent'[u] = sent[u]
    BY <1>1 DEF Expiry!Publish, SweepInv, Expiry!TypeOK
<1>4. Expiry!TypeOK'
    BY <1>1, <1>2, <1>3 DEF SweepInv, Expiry!TypeOK
<1>5. LockHeld' /\ MarksHeld' /\ PublishesNew'
    BY <1>1, <1>2 DEF SweepInv, LockHeld, MarksHeld, PublishesNew, Inside, Expiry!At
<1>6. SentIsMarked'
    <2> SUFFICES ASSUME NEW u \in Expiry!Version, sent'[u] > 0, u \notin unmarked'
                 PROVE  u \in done' \/ \E x \in Worker : Expiry!At(x, "mark")' /\ sweep'[x].v = u
        BY DEF SentIsMarked
    <2>1. CASE u = v
        BY <1>2, <2>1 DEF Expiry!At
    <2>2. CASE u # v
        BY <1>1, <1>2, <1>3, <2>2 DEF SweepInv, SentIsMarked, Expiry!At
    <2> QED BY <2>1, <2>2
<1>7. Expiry!PublishedOnce'
    <2>1. w \notin lapsed /\ v \notin unmarked => sent[v] = 0
        <3> SUFFICES ASSUME w \notin lapsed, v \notin unmarked, sent[v] > 0
                     PROVE  FALSE
            BY <1>1 DEF SweepInv, Expiry!TypeOK
        <3>1. v \notin done
            BY <1>1 DEF SweepInv, PublishesNew, Expiry!At
        <3>2. PICK x \in Worker : Expiry!At(x, "mark") /\ sweep[x].v = v
            BY <1>1, <3>1 DEF SweepInv, SentIsMarked
        <3>3. x \notin lapsed
            BY <3>2 DEF SweepInv, MarksHeld
        <3>4. lock[v] = x /\ lock[v] = w
            BY <1>1, <3>2, <3>3 DEF SweepInv, LockHeld, Inside, Expiry!At
        <3> QED BY <1>1, <3>2, <3>4 DEF Expiry!At
    <2> QED BY <1>1, <1>3, <2>1 DEF SweepInv, Expiry!PublishedOnce
<1> QED BY <1>4, <1>5, <1>6, <1>7 DEF SweepInv

\* The marker is set by the one who holds the lock: nobody publishes beside it.
LEMMA MarkKeeps ==
    ASSUME SweepInv, NEW w \in Worker, Expiry!Mark(w)
    PROVE  SweepInv'
<1> DEFINE v == sweep[w].v
<1>1. /\ UNCHANGED <<version, lapsedAt, lock, sent, lapsed, unmarked, failures>>
      /\ done' = done \cup {v} /\ sweep[w].pc = "mark" /\ v \in Expiry!Version
    BY DEF Expiry!Mark, Expiry!listing, Expiry!history, Expiry!At, SweepInv, Expiry!TypeOK
<1>2. /\ sweep' \in [Worker -> [pc : Expiry!Place, v : Expiry!Version]]
      /\ sweep'[w].pc = "release" /\ sweep'[w].v = v
      /\ \A x \in Worker \ {w} : sweep'[x] = sweep[x]
    BY PlaceTypes DEF Expiry!Mark, SweepInv, Expiry!Place
<1>3. Expiry!TypeOK'
    BY <1>1, <1>2 DEF SweepInv, Expiry!TypeOK
<1>4. LockHeld' /\ MarksHeld' /\ SentIsMarked' /\ Expiry!PublishedOnce'
    BY <1>1, <1>2 DEF SweepInv, LockHeld, MarksHeld, SentIsMarked, Expiry!PublishedOnce, Inside,
        Expiry!At
<1>5. PublishesNew'
    <2> SUFFICES ASSUME NEW x \in Worker \ {w}, Expiry!At(x, "publish"), x \notin lapsed,
                        sweep[x].v \notin unmarked, sweep[x].v = v
                 PROVE  FALSE
        BY <1>1, <1>2 DEF SweepInv, PublishesNew, Expiry!At
    <2>1. w \notin lapsed
        BY <1>1 DEF SweepInv, MarksHeld, Expiry!At
    <2> QED BY <1>1, <2>1 DEF SweepInv, LockHeld, Inside, Expiry!At
<1> QED BY <1>3, <1>4, <1>5 DEF SweepInv

\* A release takes away its own lock only.
LEMMA ReleaseKeeps ==
    ASSUME SweepInv, NEW w \in Worker, Expiry!Release(w)
    PROVE  SweepInv'
<1> DEFINE v == sweep[w].v
<1>1. /\ UNCHANGED <<version, lapsedAt, done, sent, lapsed, unmarked, failures>>
      /\ sweep[w].pc = "release" /\ v \in Expiry!Version
      /\ lock \in [Expiry!Version -> Worker \cup {NoWorker}]
    BY DEF Expiry!Release, Expiry!listing, Expiry!history, Expiry!At, SweepInv, Expiry!TypeOK
<1>2. /\ sweep' \in [Worker -> [pc : Expiry!Place, v : Expiry!Version]]
      /\ sweep'[w].pc = "idle" /\ sweep'[w].v = v
      /\ \A x \in Worker \ {w} : sweep'[x] = sweep[x]
    BY PlaceTypes DEF Expiry!Release, SweepInv, Expiry!Place
<1>3. /\ lock' \in [Expiry!Version -> Worker \cup {NoWorker}]
      /\ \A u \in Expiry!Version : lock[u] # w => lock'[u] = lock[u]
    BY <1>1 DEF Expiry!Release, Expiry!Released
<1>4. Expiry!TypeOK'
    BY <1>1, <1>2, <1>3 DEF SweepInv, Expiry!TypeOK
<1>5. LockHeld'
    BY <1>1, <1>2, <1>3 DEF SweepInv, LockHeld, Inside, Expiry!TypeOK
<1>6. MarksHeld' /\ PublishesNew' /\ SentIsMarked' /\ Expiry!PublishedOnce'
    BY <1>1, <1>2 DEF SweepInv, MarksHeld, PublishesNew, SentIsMarked, Expiry!PublishedOnce,
        Expiry!At
<1> QED BY <1>4, <1>5, <1>6 DEF SweepInv

\* A command that fails, or an instance that stops, leaves an expiry that was
\* published and not marked among the unmarked.
LEMMA FailureKeeps ==
    ASSUME Expiry!SoundConstants, SweepInv, NEW w \in Worker, Expiry!CommandFails(w) \/ Expiry!Stop(w)
    PROVE  SweepInv'
<1> DEFINE v == sweep[w].v
<1>1. /\ UNCHANGED <<version, lapsedAt, lock, done, sent, lapsed>>
      /\ unmarked' = (IF sweep[w].pc = "mark" THEN unmarked \cup {v} ELSE unmarked)
      /\ v \in Expiry!Version
    BY DEF Expiry!CommandFails, Expiry!Stop, Expiry!listing, Expiry!At, SweepInv, Expiry!TypeOK
<1>2. PICK pc \in {"idle", "release"} : Expiry!Go(w, pc) /\ (pc = "release" => Inside(w))
    BY DEF Expiry!CommandFails, Expiry!Stop, Inside
<1>3. /\ sweep' \in [Worker -> [pc : Expiry!Place, v : Expiry!Version]]
      /\ sweep'[w].pc = pc /\ sweep'[w].v = v
      /\ \A x \in Worker \ {w} : sweep'[x] = sweep[x]
    BY <1>2, PlaceTypes DEF SweepInv, Expiry!Place
<1>4. failures' \in 0..MaxFailures
    BY DEF Expiry!CommandFails, Expiry!Stop, Expiry!Faulty, SweepInv, Expiry!TypeOK,
        Expiry!SoundConstants
<1>5. Expiry!TypeOK'
    BY <1>1, <1>3, <1>4 DEF SweepInv, Expiry!TypeOK
<1>6. LockHeld' /\ MarksHeld' /\ PublishesNew' /\ Expiry!PublishedOnce'
    BY <1>1, <1>2, <1>3 DEF SweepInv, LockHeld, MarksHeld, PublishesNew, Expiry!PublishedOnce,
        Inside, Expiry!At
<1>7. SentIsMarked'
    BY <1>1, <1>3 DEF SweepInv, SentIsMarked, Expiry!At
<1> QED BY <1>5, <1>6, <1>7 DEF SweepInv

\* Whose lock expires under it has lapsed, and what it has published is unmarked.
LEMMA LapseKeeps ==
    ASSUME Expiry!SoundConstants, SweepInv, NEW v \in Expiry!Version, Expiry!LockExpires(v)
    PROVE  SweepInv'
<1> DEFINE w == lock[v]
<1>1. w \in Worker
    BY DEF Expiry!LockExpires, Expiry!Lapses, SweepInv, Expiry!TypeOK
<1>2. /\ UNCHANGED <<version, lapsedAt, done, sweep, sent, failures>>
      /\ lapsed' = IF Expiry!At(w, "idle") \/ sweep[w].v # v THEN lapsed ELSE lapsed \cup {w}
      /\ unmarked' = IF Expiry!At(w, "mark") /\ sweep[w].v = v THEN unmarked \cup {v} ELSE unmarked
      /\ lock' = [lock EXCEPT ![v] = NoWorker]
    BY DEF Expiry!LockExpires, Expiry!listing
<1>3. /\ lock' \in [Expiry!Version -> Worker \cup {NoWorker}]
      /\ \A u \in Expiry!Version \ {v} : lock'[u] = lock[u]
    BY <1>2 DEF SweepInv, Expiry!TypeOK
<1>4. Expiry!TypeOK'
    BY <1>1, <1>2, <1>3 DEF SweepInv, Expiry!TypeOK
<1>5. LockHeld'
    BY <1>1, <1>2, <1>3 DEF SweepInv, LockHeld, Inside, Expiry!At, Expiry!TypeOK
<1>6. MarksHeld' /\ PublishesNew' /\ SentIsMarked' /\ Expiry!PublishedOnce'
    BY <1>1, <1>2 DEF SweepInv, MarksHeld, PublishesNew, SentIsMarked, Expiry!PublishedOnce,
        Expiry!At
<1> QED BY <1>4, <1>5, <1>6 DEF SweepInv

\* Every step keeps the invariant.
LEMMA NextSweep ==
    ASSUME Expiry!SoundConstants, SweepInv, [Expiry!Next]_Expiry!vars
    PROVE  SweepInv'
<1>1. CASE UNCHANGED Expiry!vars
    BY <1>1 DEF Expiry!vars, SweepInv, Expiry!TypeOK, LockHeld, MarksHeld, PublishesNew,
        SentIsMarked,
        Expiry!PublishedOnce, Inside, Expiry!At
<1>2. ASSUME NEW w \in Worker, Expiry!Goes(w) PROVE SweepInv'
    BY <1>2, StartKeeps, SectionKeeps, PublishKeeps, MarkKeeps, ReleaseKeeps DEF Expiry!Goes
<1> QED BY <1>1, <1>2, ListingKeeps, FailureKeeps, LapseKeeps DEF Expiry!Next

\* Two who publish one expiry and have not lapsed would both hold its lock.
LEMMA SweepSingle == SweepInv => Expiry!ExpiryIsSingle
<1> SUFFICES ASSUME SweepInv PROVE Expiry!OneAtATime
    BY DEF SweepInv, Expiry!ExpiryIsSingle
<1> QED BY DEF SweepInv, LockHeld, Expiry!OneAtATime, Inside, Expiry!At

-----------------------------------------------------------------------------
(* The run of the three *)

\* A step of the run is a step of one of the three, and leaves the others alone.
LEMMA ProgressSteps ==
    [SumNext]_<<explored, sessionVars, expiryVars, vars>>
    => /\ [Next]_vars /\ [Session!Next]_Session!vars /\ [Expiry!Next]_Expiry!vars
       /\ explored' = explored
BY DEF SumNext, sessionVars, expiryVars, vars, Session!vars, Session!server, Session!store,
       Session!calls, Session!screens, Session!histories, Expiry!vars, Expiry!history

\* The invariants of the three hold throughout.
LEMMA ProgressKeeps ==
    SumSpec => [](TypeOK /\ OfferInv /\ SessionInv /\ SweepInv)
<1> DEFINE Inv == TypeOK /\ OfferInv /\ SessionInv /\ SweepInv
<1>1. SumInit => Inv
    BY ProgressSound, InitTypeOK, InitOfferInv, InitSession, InitSweep DEF SumInit
<1>2. Inv /\ [SumNext]_<<explored, sessionVars, expiryVars, vars>> => Inv'
    BY ProgressSound, ProgressSteps, NextTypeOK, NextOfferInv, NextSession, NextSweep
<1> QED BY <1>1, <1>2, PTL DEF SumSpec

\* The three keep to their types: a call that waits waits for a refresh under
\* way, and the acceptance that holds the listing is one that is deciding.
THEOREM ProgressTyped == SumSpec => []TypesOK
<1>1. TypeOK /\ OfferInv /\ SessionInv /\ SweepInv => TypesOK
    BY DEF TypesOK, SessionInv, SweepInv
<1> QED BY <1>1, ProgressKeeps, PTL

\* However calls, sign-outs, lost answers and restarts of the app overlap, the
\* server sees a rotated token again only if the answer of its rotation was not
\* awaited or not saved, a refusal throws away no usable token, and a sign-out
\* leaves none behind.
THEOREM TokensStayKept == SumSpec => []TokensAreKept
<1>1. SessionInv => TokensAreKept
    BY SessionKeepsTokens DEF TokensAreKept
<1> QED BY <1>1, ProgressKeeps, PTL

\* However many workers sweep and however their locks lapse, no two of them publish
\* one expiry at once, and it is published again only if whoever published it
\* before failed, or had lost the lock, before it was marked.
THEOREM ExpiryStaysSingle == SumSpec => []ExpiryIsSingle
<1>1. SweepInv => ExpiryIsSingle
    BY SweepSingle DEF ExpiryIsSingle
<1> QED BY <1>1, ProgressKeeps, PTL
=============================================================================
