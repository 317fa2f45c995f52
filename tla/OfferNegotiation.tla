--------------------------- MODULE OfferNegotiation ---------------------------
(***************************************************************************)
(* Offers on one marketplace listing: buyers make and withdraw offers, the *)
(* seller counters, either side accepts or declines, and the seller edits  *)
(* the listing's status.  makeOffer and counterOffer read in one statement *)
(* and write in another; respondToOffer is a transaction that locks the    *)
(* offer but reads the listing unlocked.  Blocks, visibility and deletion  *)
(* only refuse a request before it writes and are left out.                *)
(***************************************************************************)
EXTENDS Naturals, FiniteSets

CONSTANTS Buyer, Request, NoBuyer, NoRequest

\* What is assumed of the constants.
SoundConstants == NoBuyer \notin Buyer /\ NoRequest \notin Request

Status == {"active", "withdrawn", "sold"}
Offer == [state : {"none", "pending", "accepted", "declined", "withdrawn"},
          actor : {"buyer", "seller"}]

VARIABLES
    status,   \* listings.status, committed
    offer,    \* offer[b]: the trade_offers row of b, committed
    req,      \* req[p]: locals of the handler p runs
    selling,  \* the response holding the listings row
    winners,  \* history: buyers accepted since the seller last relisted
    late      \* history: offers opened since an acceptance swept the pending ones

vars == <<status, offer, req, selling, winners, late>>

\* others: the pending offers an acceptance has seen and will decline.
Idle == [pc |-> "idle", buyer |-> NoBuyer, by |-> "seller",
         verdict |-> "declined", others |-> {}]

TypeOK ==
    /\ status \in Status
    /\ offer \in [Buyer -> Offer]
    /\ req \in [Request ->
         [pc : {"idle", "make", "counter", "lock", "sell", "sweep", "commit"},
          buyer : Buyer \cup {NoBuyer}, by : {"buyer", "seller"},
          verdict : {"accepted", "declined"}, others : SUBSET Buyer]]
    /\ \A p \in Request : req[p].pc # "idle" => req[p].buyer \in Buyer
    /\ selling \in Request \cup {NoRequest}
    /\ selling # NoRequest => req[selling].pc \in {"sweep", "commit"}
    /\ winners \subseteq Buyer /\ late \subseteq Buyer

Init ==
    /\ status = "active"
    /\ offer = [b \in Buyer |-> [state |-> "none", actor |-> "buyer"]]
    /\ req = [p \in Request |-> Idle]
    /\ selling = NoRequest
    /\ winners = {} /\ late = {}

Responding(p) == req[p].pc \in {"lock", "sell", "sweep", "commit"}
\* The offer p has locked FOR UPDATE.  The variant reads without locking.
LocksNothing(p) == {}
Locks(p) == IF req[p].pc \in {"sell", "sweep", "commit"}
            THEN {req[p].buyer} ELSE {}
OfferFree(b) == \A p \in Request : b \notin Locks(p)

Open(b, actor) ==
    /\ offer' = [offer EXCEPT ![b] = [state |-> "pending", actor |-> actor]]
    /\ late' = IF winners # {} \/ \E p \in Request : req[p].pc = "commit"
               THEN late \cup {b} ELSE late

-----------------------------------------------------------------------------
(* Making, countering and withdrawing *)

MakeCheck(p, b) ==
    /\ req[p].pc = "idle" /\ status = "active"
    /\ req' = [req EXCEPT ![p] = [Idle EXCEPT !.pc = "make", !.buyer = b]]
    /\ UNCHANGED <<status, offer, selling, winners, late>>

\* The upsert reopens the buyer's offer whatever it has become since.
MakeWrite(p) ==
    /\ req[p].pc = "make" /\ OfferFree(req[p].buyer)
    /\ Open(req[p].buyer, "buyer")
    /\ req' = [req EXCEPT ![p] = Idle]
    /\ UNCHANGED <<status, selling, winners>>

CounterCheck(p, b) ==
    /\ req[p].pc = "idle" /\ status = "active" /\ offer[b].state = "pending"
    /\ req' = [req EXCEPT ![p] = [Idle EXCEPT !.pc = "counter", !.buyer = b]]
    /\ UNCHANGED <<status, offer, selling, winners, late>>

CounterWrite(p) ==
    /\ req[p].pc = "counter" /\ OfferFree(req[p].buyer)
    /\ Open(req[p].buyer, "seller")
    /\ req' = [req EXCEPT ![p] = Idle]
    /\ UNCHANGED <<status, selling, winners>>

\* Offers are never deleted, so what withdrawOffer reads first stays true.
Withdraw(b) ==
    /\ offer[b].state # "none" /\ OfferFree(b)
    /\ offer' = [offer EXCEPT ![b].state = "withdrawn"]
    /\ UNCHANGED <<status, req, selling, winners, late>>

\* The seller may set any status at any time; relisting starts a new sale.
UpdateStatus(s) ==
    /\ selling = NoRequest /\ s # status
    /\ status' = s
    /\ winners' = IF s = "active" THEN {} ELSE winners
    /\ late' = IF s = "active" THEN {} ELSE late
    /\ UNCHANGED <<offer, req, selling>>

-----------------------------------------------------------------------------
(* Responding: one transaction *)

\* A buyer may answer only the seller's counter.
MayAnswer(b, by) == by = "seller" \/ offer[b].actor = "seller"

\* SELECT ... FOR UPDATE OF o: the join reads listings in the snapshot of the
\* statement, which may then wait for the offer row and reads that one fresh.
\* A response that finds the listing not active is refused and changes nothing.
RespondRead(p, b, by, verdict) ==
    /\ req[p].pc = "idle" /\ offer[b].state # "none" /\ status = "active"
    /\ req' = [req EXCEPT ![p] =
         [Idle EXCEPT !.pc = "lock", !.buyer = b, !.by = by,
                      !.verdict = verdict]]
    /\ UNCHANGED <<status, offer, selling, winners, late>>

\* The offer is locked, checked and updated, or the request is refused.
RespondLock(p) ==
    /\ req[p].pc = "lock" /\ OfferFree(req[p].buyer)
    /\ req' = [req EXCEPT ![p] =
         IF offer[@.buyer].state = "pending" /\ MayAnswer(@.buyer, @.by)
         THEN [@ EXCEPT !.pc = IF req[p].verdict = "accepted"
                               THEN "sell" ELSE "commit"]
         ELSE Idle]
    /\ UNCHANGED <<status, offer, selling, winners, late>>

\* UPDATE listings SET status = 'sold', whatever the status is by now.
SellListing(p) ==
    /\ req[p].pc = "sell" /\ selling = NoRequest
    /\ selling' = p
    /\ req' = [req EXCEPT ![p].pc = "sweep"]
    /\ UNCHANGED <<status, offer, winners, late>>

\* The UPDATE that declines the others sees those pending when it starts ...
SeeOthers(p) ==
    /\ req[p].pc = "sweep"
    /\ req' = [req EXCEPT ![p].pc = "commit",
         ![p].others = {b \in Buyer \ {req[p].buyer} :
                          offer[b].state = "pending"}]
    /\ UNCHANGED <<status, offer, selling, winners, late>>

\* ... and waits for each row somebody else has locked.  The variant skips it.
OthersSkipped(p) == TRUE
OthersFree(p) ==
    \A q \in Request \ {p} : Locks(q) \cap req[p].others = {}

\* COMMIT or ROLLBACK.  The variant leaves the listings row locked.
ReleaseOffer(p) == req' = [req EXCEPT ![p] = Idle] /\ UNCHANGED selling
Release(p) ==
    /\ req' = [req EXCEPT ![p] = Idle]
    /\ selling' = IF selling = p THEN NoRequest ELSE selling

Commit(p) ==
    /\ req[p].pc = "commit" /\ OthersFree(p)
    /\ offer' = [b \in Buyer |->
         IF b = req[p].buyer THEN [offer[b] EXCEPT !.state = req[p].verdict]
         ELSE IF b \in req[p].others /\ offer[b].state = "pending"
              THEN [offer[b] EXCEPT !.state = "declined"] ELSE offer[b]]
    /\ IF req[p].verdict = "accepted"
       THEN status' = "sold" /\ winners' = winners \cup {req[p].buyer}
       ELSE UNCHANGED <<status, winners>>
    /\ Release(p)
    /\ UNCHANGED late

WaitsFor(p, q) ==
    \/ req[p].pc = "sell" /\ selling = q
    \/ req[p].pc = "commit" /\ Locks(q) \cap req[p].others # {}

\* PostgreSQL aborts one of two transactions that wait for each other; the
\* service rolls back and rethrows.
DeadlockAbort(p) ==
    /\ \E q \in Request \ {p} : WaitsFor(p, q) /\ WaitsFor(q, p)
    /\ Release(p)
    /\ UNCHANGED <<status, offer, winners, late>>

\* The handler dies; its transaction, if any, rolls back.
Crash(p) ==
    /\ req[p].pc # "idle"
    /\ Release(p)
    /\ UNCHANGED <<status, offer, winners, late>>

-----------------------------------------------------------------------------

Finish(p) == \/ MakeWrite(p) \/ CounterWrite(p) \/ RespondLock(p)
             \/ SellListing(p) \/ SeeOthers(p) \/ Commit(p) \/ DeadlockAbort(p)

Next ==
    \/ \E p \in Request, b \in Buyer :
         \/ MakeCheck(p, b) \/ CounterCheck(p, b)
         \/ \E by \in {"buyer", "seller"}, v \in {"accepted", "declined"} :
              RespondRead(p, b, by, v)
    \/ \E p \in Request : Finish(p) \/ Crash(p)
    \/ \E b \in Buyer : Withdraw(b)
    \/ \E s \in Status : UpdateStatus(s)

Spec == Init /\ [][Next]_vars

\* A handler keeps running; a row lock is granted to its waiters in turn.
Fairness == \A p \in Request : SF_vars(Finish(p))

-----------------------------------------------------------------------------
(* Properties *)

\* A buyer's acceptance applies to a counter-offer of the seller: nothing the
\* buyer does meanwhile turns it into acceptance of the buyer's own amount.
BuyerAcceptsOnlyCounter ==
    [][\A p \in Request :
         req[p].pc = "commit" /\ req[p].by = "buyer" /\ req'[p].pc = "idle"
         /\ offer' # offer
         => offer[req[p].buyer].actor = "seller"]_vars

\* Acceptances of different buyers exclude each other: both win one listing
\* only if an offer was opened after an acceptance swept the pending ones.
RivalAcceptsExclude ==
    \A b1, b2 \in winners : b1 = b2 \/ {b1, b2} \cap late # {}

\* No response waits forever, not even two acceptances that need each other's
\* rows.
ResponsesFinish == \A p \in Request : []<>~Responding(p)

\* A listing is sold to one buyer at a time.
OneBuyerPerSale == \A b1, b2 \in winners : b1 = b2
=============================================================================
