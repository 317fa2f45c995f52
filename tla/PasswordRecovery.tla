--------------------------- MODULE PasswordRecovery ---------------------------
(***************************************************************************)
(* Forgotten-password recovery of one account: the request limiter, the    *)
(* single challenge row, the guesses against it, and the mail outbox that  *)
(* several API instances share through claim leases.                       *)
(*                                                                         *)
(* Deadlines are kept as the time left until they pass; Tick lets time go  *)
(* on.  A row of another account shares nothing with these, so one account *)
(* is enough; an account without a password only uses up its allowance.    *)
(***************************************************************************)
EXTENDS Naturals, FiniteSets

CONSTANTS
    Worker,        \* API instances polling the outbox
    Guesser,       \* concurrent POST /auth/password/reset requests
    MaxChallenges, \* bound: codes ever generated
    Limit, Window, Cooldown,    \* request limiter (5, 1 hour, 60 seconds)
    MaxGuesses, TTL,            \* failed guesses, code lifetime (5, 15 minutes)
    MaxClaims, Lease, Retry,    \* outbox (3, 60 seconds, 30 seconds)
    Batch                       \* claims per poll (5)

\* What is assumed of the constants.
SoundConstants ==
    {MaxChallenges, Limit, Window, Cooldown, MaxGuesses, TTL, MaxClaims,
     Lease, Retry, Batch} \subseteq Nat \ {0}

VARIABLES
    limit,     \* the password_reset_rate_limits row; window = 0: over or none
    pending,   \* requests allowed whose challenge is not stored yet
    lastId,    \* the last challenge id drawn
    challenge, \* the password_reset_requests row; id = 0: none
    open,      \* guesses whose transaction holds the row
    worker,    \* worker[w]: locals of deliverPending in instance w
    log        \* history: per challenge what guesses and the provider did

vars == <<limit, pending, lastId, challenge, open, worker, log>>

Ids == 1..MaxChallenges
None == [id |-> 0, ttl |-> 0, guesses |-> 0, cipher |-> FALSE, claims |-> 0,
         wait |-> 0, claim |-> 0, lease |-> 0]
Resting == [pc |-> "idle", id |-> 0, claim |-> 0, lease |-> 0, left |-> 0]

TypeOK ==
    /\ limit \in [count : 0..Limit, window : 0..Window, cooldown : 0..Cooldown]
    /\ pending \in 0..MaxChallenges
    /\ lastId \in 0..MaxChallenges
    /\ challenge \in [id : 0..MaxChallenges, ttl : 0..TTL,
                      guesses : 0..MaxGuesses, cipher : BOOLEAN,
                      claims : 0..MaxClaims, wait : 0..Retry,
                      claim : 0..MaxClaims, lease : 0..Lease]
    /\ open \subseteq Guesser
    /\ worker \in [Worker -> [pc : {"idle", "claim", "send", "ack", "release"},
                              id : 0..MaxChallenges, claim : 0..MaxClaims,
                              lease : 0..Lease, left : 0..Batch]]
    /\ log \in [wrong : [Ids -> Nat], used : [Ids -> Nat],
                mailed : SUBSET Ids, accepted : SUBSET Ids]

Init ==
    /\ limit = [count |-> 0, window |-> 0, cooldown |-> 0]
    /\ pending = 0 /\ lastId = 0 /\ challenge = None /\ open = {}
    /\ worker = [w \in Worker |-> Resting]
    /\ log = [wrong |-> [c \in Ids |-> 0], used |-> [c \in Ids |-> 0],
              mailed |-> {}, accepted |-> {}]

-----------------------------------------------------------------------------
(* Requesting a code *)

\* One upsert: an elapsed window restarts the count whatever the cooldown, a
\* running one needs the cooldown over and count below the limit.  A request
\* over the limit is answered the same and changes nothing.
Allow ==
    /\ lastId + pending < MaxChallenges
    /\ \/ limit.window = 0
          /\ limit' = [count |-> 1, window |-> Window, cooldown |-> Cooldown]
       \/ limit.window > 0 /\ limit.cooldown = 0 /\ limit.count < Limit
          /\ limit' = [limit EXCEPT !.count = @ + 1, !.cooldown = Cooldown]
    /\ pending' = pending + 1
    /\ UNCHANGED <<lastId, challenge, open, worker, log>>

\* A statement on the challenge row waits while a guess holds it.  The variant
\* is a guess that reads the row without FOR UPDATE.
NeverHeld == FALSE
RowHeld == open # {}

\* The second statement of request replaces the challenge, and with it the
\* guesses, the claim and the retries of the previous one.
StoreChallenge ==
    /\ pending > 0 /\ ~RowHeld
    /\ pending' = pending - 1
    /\ lastId' = lastId + 1
    /\ challenge' = [None EXCEPT !.id = lastId + 1, !.ttl = TTL,
                                 !.cipher = TRUE]
    /\ UNCHANGED <<limit, open, worker, log>>

\* The request dies between its statements: the allowance is spent for nothing.
LoseRequest ==
    /\ pending > 0
    /\ pending' = pending - 1
    /\ UNCHANGED <<limit, lastId, challenge, open, worker, log>>

-----------------------------------------------------------------------------
(* Guessing; the users and challenge rows stay locked from lock to commit *)

GuessLock(g) ==
    /\ g \notin open /\ ~RowHeld
    /\ challenge.id # 0 /\ challenge.ttl > 0 /\ challenge.guesses < MaxGuesses
    /\ open' = open \cup {g}
    /\ UNCHANGED <<limit, pending, lastId, challenge, worker, log>>

\* The code of the stored challenge, read from a mail: the challenge is used
\* up.  The session side of the transaction is AuthSession's.
GuessRight(g) ==
    /\ g \in open /\ challenge.id \in log.mailed
    /\ open' = open \ {g}
    /\ challenge' = None
    /\ log' = [log EXCEPT !.used[challenge.id] = @ + 1]
    /\ UNCHANGED <<limit, pending, lastId, worker>>

\* Any other code, the one of an earlier challenge included.
GuessWrong(g) ==
    /\ g \in open /\ challenge.id # 0
    /\ open' = open \ {g}
    /\ challenge' = [challenge EXCEPT !.guesses = @ + 1]
    /\ log' = [log EXCEPT !.wrong[challenge.id] = @ + 1]
    /\ UNCHANGED <<limit, pending, lastId, worker>>

\* The transaction rolls back, and nobody learns whether the code was right.
GuessLost(g) ==
    /\ g \in open
    /\ open' = open \ {g}
    /\ UNCHANGED <<limit, pending, lastId, challenge, worker, log>>

-----------------------------------------------------------------------------
(* Outbox *)

\* A poll starts with the deletion of an expired challenge.  The variant polls
\* without it.
PollWithoutPurge(w) ==
    /\ worker[w].pc = "idle"
    /\ worker' = [worker EXCEPT ![w] = [Resting EXCEPT !.pc = "claim",
                                                       !.left = Batch]]
    /\ UNCHANGED <<limit, pending, lastId, challenge, open, log>>
Poll(w) ==
    /\ worker[w].pc = "idle"
    /\ worker' = [worker EXCEPT ![w] = [Resting EXCEPT !.pc = "claim",
                                                       !.left = Batch]]
    /\ IF challenge.id # 0 /\ challenge.ttl = 0
       THEN ~RowHeld /\ challenge' = None
       ELSE UNCHANGED challenge
    /\ UNCHANGED <<limit, pending, lastId, open, log>>

\* Due, not exhausted, under no running lease, not locked (SKIP LOCKED).  The
\* variant forgets the lease.
DeliverableUnleased ==
    /\ challenge.cipher /\ challenge.claims < MaxClaims /\ challenge.ttl > 0
    /\ challenge.wait = 0 /\ ~RowHeld
Deliverable ==
    /\ challenge.cipher /\ challenge.claims < MaxClaims /\ challenge.ttl > 0
    /\ challenge.wait = 0 /\ challenge.lease = 0
    /\ ~RowHeld

\* A claim is identified by its number among the challenge's claims.
Claim(w) ==
    /\ worker[w].pc = "claim"
    /\ \/ /\ worker[w].left > 0 /\ Deliverable
          /\ challenge' = [challenge EXCEPT !.claims = @ + 1,
                             !.claim = challenge.claims + 1, !.lease = Lease]
          /\ worker' = [worker EXCEPT
               ![w] = [pc |-> "send", id |-> challenge.id, lease |-> Lease,
                       claim |-> challenge.claims + 1, left |-> @.left - 1]]
       \/ /\ worker[w].left = 0 \/ ~Deliverable
          /\ worker' = [worker EXCEPT ![w] = Resting]
          /\ UNCHANGED challenge
    /\ UNCHANGED <<limit, pending, lastId, open, log>>

\* The provider accepts the mail, or the call fails; a call that times out may
\* still have sent it.
Send(w) ==
    /\ worker[w].pc = "send"
    /\ \/ /\ worker' = [worker EXCEPT ![w].pc = "ack"]
          /\ log' = [log EXCEPT !.mailed = @ \cup {worker[w].id},
                                !.accepted = @ \cup {worker[w].id}]
       \/ /\ worker' = [worker EXCEPT ![w].pc = "release"]
          /\ \E sent \in {{}, {worker[w].id}} :
               log' = [log EXCEPT !.mailed = @ \cup sent]
    /\ UNCHANGED <<limit, pending, lastId, challenge, open>>

\* WHERE id = ... AND delivery_claim = ...; the variant drops the id.
HoldsSomeClaim(w) == challenge.claim = worker[w].claim
HoldsClaim(w) == /\ challenge.id = worker[w].id
                 /\ challenge.claim = worker[w].claim

NextClaim(w) == worker' = [worker EXCEPT
    ![w] = [Resting EXCEPT !.pc = "claim", !.left = worker[w].left]]

Ack(w) ==
    /\ worker[w].pc = "ack" /\ ~RowHeld
    /\ challenge' = IF HoldsClaim(w)
                    THEN [challenge EXCEPT !.cipher = FALSE, !.claim = 0,
                                           !.lease = 0]
                    ELSE challenge
    /\ NextClaim(w)
    /\ UNCHANGED <<limit, pending, lastId, open, log>>

\* The UPDATE after an accepted mail fails and lands in the same catch.
AckFails(w) ==
    /\ worker[w].pc = "ack"
    /\ worker' = [worker EXCEPT ![w].pc = "release"]
    /\ UNCHANGED <<limit, pending, lastId, challenge, open, log>>

Release(w) ==
    /\ worker[w].pc = "release" /\ ~RowHeld
    /\ challenge' = IF HoldsClaim(w)
                    THEN [challenge EXCEPT
                            !.claim = 0, !.lease = 0, !.wait = Retry,
                            !.cipher = @ /\ challenge.claims < MaxClaims]
                    ELSE challenge
    /\ NextClaim(w)
    /\ UNCHANGED <<limit, pending, lastId, open, log>>

\* The instance stops, or a database error ends the poll: the claim stays.
WorkerStops(w) ==
    /\ worker[w].pc # "idle"
    /\ worker' = [worker EXCEPT ![w] = Resting]
    /\ UNCHANGED <<limit, pending, lastId, challenge, open, log>>

-----------------------------------------------------------------------------

Less(n) == IF n = 0 THEN 0 ELSE n - 1

Tick ==
    /\ limit' = [limit EXCEPT !.window = Less(@), !.cooldown = Less(@)]
    /\ challenge' = [challenge EXCEPT !.ttl = Less(@), !.wait = Less(@),
                                      !.lease = Less(@)]
    /\ worker' = [w \in Worker |-> [worker[w] EXCEPT !.lease = Less(@)]]
    /\ UNCHANGED <<pending, lastId, open, log>>

Guessing(g) == GuessRight(g) \/ GuessWrong(g) \/ GuessLost(g)
Delivering(w) == Poll(w) \/ Claim(w) \/ Send(w) \/ Ack(w) \/ Release(w)

Next ==
    \/ Allow \/ StoreChallenge \/ LoseRequest \/ Tick
    \/ \E g \in Guesser : GuessLock(g) \/ Guessing(g)
    \/ \E w \in Worker : Delivering(w) \/ AckFails(w) \/ WorkerStops(w)

Spec == Init /\ [][Next]_vars

\* Time passes, transactions end, and setInterval keeps every instance polling.
Fairness ==
    /\ WF_vars(Tick)
    /\ \A g \in Guesser : WF_vars(Guessing(g))
    /\ \A w \in Worker : WF_vars(Delivering(w))

-----------------------------------------------------------------------------
(* Properties *)

\* Concurrent guesses do not add up to more than the permitted failures, and a
\* code resets the password once.
GuessesBounded ==
    \A c \in Ids : log.wrong[c] <= MaxGuesses /\ log.used[c] <= 1

\* Two instances work on the mail of one challenge only when the lease of one
\* of them has run out.
OneSenderInLease ==
    \A w1, w2 \in Worker :
        /\ worker[w1].lease > 0 /\ worker[w2].lease > 0
        /\ worker[w1].id = worker[w2].id
        => w1 = w2

\* The stored code stops being mailed only because the provider accepted that
\* very code or its claims are spent: an instance still working for an earlier
\* challenge cannot silence a newer one.
PayloadLostOnlyWhenDone ==
    challenge.id # 0 /\ ~challenge.cipher
    => challenge.id \in log.accepted \/ challenge.claims = MaxClaims

\* The outbox is leased: one sender for as long as the lease lasts, and a late
\* one ends neither the next one's lease nor a newer code.
MailIsLeased == OneSenderInLease /\ PayloadLostOnlyWhenDone

\* No encrypted code stays in the database forever, whatever crashes.
PayloadCleared ==
    \A c \in Ids : []<>~(challenge.id = c /\ challenge.cipher)
=============================================================================
