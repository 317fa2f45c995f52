--------------------------- MODULE Accounts_proofs ---------------------------
(***************************************************************************)
(* Proofs about the sessions and about the recovery of a password, for any *)
(* number of users, tokens, requests, instances, guesses and codes.        *)
(***************************************************************************)
EXTENDS MCAccounts, TLAPS

-----------------------------------------------------------------------------
(* The recovery of a password *)

\* No more codes are generated than there are requests allowed, and the row
\* holds one of them or nothing.
CodesKnown == /\ lastId + pending <= MaxChallenges /\ challenge.id <= lastId
              /\ challenge.id = 0 => ~challenge.cipher

\* One guess at a time holds the row, of a challenge that permits a failure.
OneGuess == /\ \A g, h \in open : g = h
            /\ open # {} => challenge.id # 0 /\ challenge.guesses < MaxGuesses

\* The row counts the wrong guesses of its challenge, which has not been used;
\* codes that are still to come have neither.
GuessesCounted ==
    /\ \A c \in Recovery!Ids : c > lastId => log.wrong[c] = 0 /\ log.used[c] = 0
    /\ challenge.id # 0 => /\ log.wrong[challenge.id] = challenge.guesses
                           /\ log.used[challenge.id] = 0

\* An instance works for a code that was stored; when the provider has taken
\* the mail, it took that code.
WorkersKnown ==
    \A w \in Worker :
        /\ worker[w].id <= lastId
        /\ worker[w].pc \in {"send", "ack", "release"} => worker[w].id # 0
        /\ worker[w].lease > 0 => worker[w].id # 0
        /\ worker[w].pc = "ack" => worker[w].id \in log.accepted

\* While its lease runs, an instance that works for the stored code has the
\* row's claim, and the row's lease runs as long.
LeasesKnown ==
    \A w \in Worker :
        worker[w].lease > 0 /\ worker[w].id = challenge.id
        => worker[w].claim = challenge.claim /\ worker[w].lease <= challenge.lease

\* A claim of a challenge is one instance's.
ClaimsKnown ==
    /\ \A w \in Worker : worker[w].id # 0 /\ worker[w].id = challenge.id
                          => worker[w].claim <= challenge.claims
    /\ \A v, w \in Worker : v # w /\ worker[v].id # 0 /\ worker[v].id = worker[w].id
                             => worker[v].claim # worker[w].claim

RecoveryInv ==
    /\ Recovery!TypeOK /\ CodesKnown /\ OneGuess /\ GuessesCounted /\ Recovery!GuessesBounded
    /\ WorkersKnown /\ LeasesKnown /\ ClaimsKnown /\ Recovery!OneSenderInLease /\ Recovery!PayloadLostOnlyWhenDone

\* The types of the rows and of a worker's locals, for the steps that build one.
Challenges == [id : 0..MaxChallenges, ttl : 0..TTL, guesses : 0..MaxGuesses,
               cipher : BOOLEAN, claims : 0..MaxClaims, wait : 0..Retry,
               claim : 0..MaxClaims, lease : 0..Lease]
Work == [pc : {"idle", "claim", "send", "ack", "release"}, id : 0..MaxChallenges,
         claim : 0..MaxClaims, lease : 0..Lease, left : 0..Batch]
Logs == [wrong : [Recovery!Ids -> Nat], used : [Recovery!Ids -> Nat], mailed : SUBSET Recovery!Ids,
         accepted : SUBSET Recovery!Ids]

\* The constants are positive numbers.
LEMMA Positive ==
    ASSUME Recovery!SoundConstants
    PROVE  /\ MaxChallenges \in Nat \ {0} /\ Limit \in Nat \ {0} /\ Window \in Nat \ {0}
           /\ Cooldown \in Nat \ {0} /\ MaxGuesses \in Nat \ {0} /\ TTL \in Nat \ {0}
           /\ MaxClaims \in Nat \ {0} /\ Lease \in Nat \ {0} /\ Retry \in Nat \ {0}
           /\ Batch \in Nat \ {0}
BY DEF Recovery!SoundConstants

\* An empty row and an idle worker.
LEMMA Empties ==
    ASSUME Recovery!SoundConstants
    PROVE  /\ Recovery!None \in Challenges /\ Recovery!None.id = 0 /\ ~Recovery!None.cipher /\ Recovery!None.guesses = 0
           /\ Recovery!Resting \in Work /\ Recovery!Resting.pc = "idle" /\ Recovery!Resting.lease = 0 /\ Recovery!Resting.id = 0
BY Positive DEF Recovery!None, Recovery!Resting, Challenges, Work

\* Nothing is stored at first.
LEMMA InitRecovery == ASSUME Recovery!SoundConstants, Recovery!Init PROVE RecoveryInv
<1>1. Recovery!TypeOK
    BY Positive, Empties DEF Recovery!Init, Recovery!TypeOK, Recovery!Ids, Challenges, Work
<1>a. \A c \in Recovery!Ids : log.wrong[c] = 0 /\ log.used[c] = 0
    BY DEF Recovery!Init
<1>b. lastId = 0 /\ pending = 0 /\ challenge.id = 0 /\ ~challenge.cipher /\ open = {}
    BY Empties DEF Recovery!Init
<1>2. CodesKnown /\ OneGuess /\ GuessesCounted /\ Recovery!GuessesBounded
    BY <1>a, <1>b, Positive DEF CodesKnown, OneGuess, GuessesCounted, Recovery!GuessesBounded
<1>3. WorkersKnown /\ LeasesKnown /\ ClaimsKnown /\ Recovery!OneSenderInLease /\ Recovery!PayloadLostOnlyWhenDone
    BY Positive, Empties DEF Recovery!Init, WorkersKnown, LeasesKnown, ClaimsKnown,
        Recovery!OneSenderInLease,
        Recovery!PayloadLostOnlyWhenDone
<1> QED BY <1>1, <1>2, <1>3 DEF RecoveryInv

\* A request is allowed, or lost: the row and those who work on it are not
\* concerned.
LEMMA RequestStep ==
    ASSUME Recovery!SoundConstants, RecoveryInv, Recovery!Allow \/ Recovery!LoseRequest
    PROVE  RecoveryInv'
<1>1. UNCHANGED <<lastId, challenge, open, worker, log>>
    BY DEF Recovery!Allow, Recovery!LoseRequest
<1>2. lastId + pending' <= MaxChallenges /\ pending' \in 0..MaxChallenges
    BY Positive DEF Recovery!Allow, Recovery!LoseRequest, RecoveryInv, Recovery!TypeOK, CodesKnown
<1>3. limit' \in [count : 0..Limit, window : 0..Window, cooldown : 0..Cooldown]
    <2>1. CASE Recovery!LoseRequest
        BY <2>1 DEF Recovery!LoseRequest, RecoveryInv, Recovery!TypeOK
    <2>2. CASE Recovery!Allow
        <3>1. limit \in [count : 0..Limit, window : 0..Window, cooldown : 0..Cooldown]
            BY DEF RecoveryInv, Recovery!TypeOK
        <3>2. CASE limit' = [count |-> 1, window |-> Window, cooldown |-> Cooldown]
            BY <3>2, Positive
        <3>3. CASE limit.count < Limit /\ limit' = [limit EXCEPT !.count = @ + 1, !.cooldown = Cooldown]
            <4>1. limit.count + 1 \in 0..Limit /\ Cooldown \in 0..Cooldown
                BY <3>1, <3>3, Positive
            <4> QED BY <3>1, <3>3, <4>1
        <3> QED BY <2>2, <3>2, <3>3 DEF Recovery!Allow
    <2> QED BY <2>1, <2>2
<1>4. Recovery!TypeOK' /\ CodesKnown'
    BY <1>1, <1>2, <1>3 DEF RecoveryInv, Recovery!TypeOK, CodesKnown
<1>5. OneGuess' /\ GuessesCounted' /\ Recovery!GuessesBounded'
    BY <1>1 DEF RecoveryInv, OneGuess, GuessesCounted, Recovery!GuessesBounded
<1>6. WorkersKnown' /\ LeasesKnown' /\ ClaimsKnown' /\ Recovery!OneSenderInLease' /\ Recovery!PayloadLostOnlyWhenDone'
    BY <1>1 DEF RecoveryInv, WorkersKnown, LeasesKnown, ClaimsKnown, Recovery!OneSenderInLease,
        Recovery!PayloadLostOnlyWhenDone
<1> QED BY <1>4, <1>5, <1>6 DEF RecoveryInv

\* A new challenge has an id nobody has guessed at or worked for.
LEMMA StoreStep ==
    ASSUME Recovery!SoundConstants, RecoveryInv, Recovery!StoreChallenge
    PROVE  RecoveryInv'
<1> DEFINE c == [Recovery!None EXCEPT !.id = lastId + 1, !.ttl = TTL, !.cipher = TRUE]
<1>1. /\ pending > 0 /\ open = {} /\ pending' = pending - 1 /\ lastId' = lastId + 1
      /\ challenge' = c /\ UNCHANGED <<limit, open, worker, log>>
    BY DEF Recovery!StoreChallenge, Recovery!RowHeld
<1>2. lastId + 1 <= MaxChallenges /\ lastId \in Nat /\ pending \in Nat
    BY <1>1, Positive DEF RecoveryInv, Recovery!TypeOK, CodesKnown
<1>3. c \in Challenges /\ c.id = lastId + 1 /\ c.guesses = 0 /\ c.cipher
    <2>1. lastId + 1 \in 0..MaxChallenges /\ TTL \in 0..TTL
        BY <1>2, Positive
    <2> QED BY <2>1, Empties DEF Recovery!None, Challenges
<1> HIDE DEF c
<1>4. Recovery!TypeOK' /\ CodesKnown'
    BY <1>1, <1>2, <1>3, Positive DEF RecoveryInv, Recovery!TypeOK, CodesKnown, Challenges
<1>5. OneGuess' /\ GuessesCounted' /\ Recovery!GuessesBounded'
    BY <1>1, <1>2, <1>3, Positive DEF RecoveryInv, OneGuess, GuessesCounted,
        Recovery!GuessesBounded, Recovery!Ids
<1>6. \A w \in Worker : worker[w].id <= lastId /\ worker[w].id \in Nat
    BY Positive DEF RecoveryInv, WorkersKnown, Recovery!TypeOK
<1>7. WorkersKnown' /\ LeasesKnown' /\ ClaimsKnown' /\ Recovery!OneSenderInLease' /\ Recovery!PayloadLostOnlyWhenDone'
    BY <1>1, <1>2, <1>3, <1>6 DEF RecoveryInv, WorkersKnown, LeasesKnown, ClaimsKnown,
        Recovery!OneSenderInLease,
        Recovery!PayloadLostOnlyWhenDone
<1> QED BY <1>4, <1>5, <1>7 DEF RecoveryInv

\* A guess takes the row, or gives it back unused.
LEMMA HoldStep ==
    ASSUME Recovery!SoundConstants, RecoveryInv, NEW g \in Guesser, Recovery!GuessLock(g) \/ Recovery!GuessLost(g)
    PROVE  RecoveryInv'
<1>1. UNCHANGED <<limit, pending, lastId, challenge, worker, log>>
    BY DEF Recovery!GuessLock, Recovery!GuessLost
<1>2. OneGuess' /\ open' \subseteq Guesser
    BY DEF Recovery!GuessLock, Recovery!GuessLost, Recovery!RowHeld, RecoveryInv, OneGuess,
        Recovery!TypeOK
<1>3. Recovery!TypeOK' /\ CodesKnown'
    BY <1>1, <1>2 DEF RecoveryInv, Recovery!TypeOK, CodesKnown
<1>5. GuessesCounted' /\ Recovery!GuessesBounded'
    BY <1>1 DEF RecoveryInv, GuessesCounted, Recovery!GuessesBounded
<1>6. WorkersKnown' /\ LeasesKnown' /\ ClaimsKnown' /\ Recovery!OneSenderInLease' /\ Recovery!PayloadLostOnlyWhenDone'
    BY <1>1 DEF RecoveryInv, WorkersKnown, LeasesKnown, ClaimsKnown, Recovery!OneSenderInLease,
        Recovery!PayloadLostOnlyWhenDone
<1> QED BY <1>2, <1>3, <1>5, <1>6 DEF RecoveryInv

\* A right guess uses up a challenge that was not used; the row is empty then.
LEMMA RightStep ==
    ASSUME Recovery!SoundConstants, RecoveryInv, NEW g \in Guesser, Recovery!GuessRight(g)
    PROVE  RecoveryInv'
<1> DEFINE i == challenge.id
<1>1. /\ g \in open /\ open' = open \ {g} /\ challenge' = Recovery!None
      /\ log' = [log EXCEPT !.used[i] = log.used[i] + 1]
      /\ UNCHANGED <<limit, pending, lastId, worker>>
    BY DEF Recovery!GuessRight
<1>a. challenge.id # 0 /\ open' = {}
    BY <1>1 DEF RecoveryInv, OneGuess
<1>b. challenge.id \in 0..MaxChallenges
    BY DEF RecoveryInv, Recovery!TypeOK
<1>2. i \in Recovery!Ids /\ log.used[i] = 0 /\ open' = {}
    BY <1>a, <1>b, Positive DEF RecoveryInv, GuessesCounted, Recovery!Ids
<1> HIDE DEF i
<1>3. /\ log'.wrong = log.wrong /\ log'.mailed = log.mailed /\ log'.accepted = log.accepted
      /\ log'.used = [log.used EXCEPT ![i] = 1]
    BY <1>1, <1>2 DEF RecoveryInv, Recovery!TypeOK
<1>4. log' \in [wrong : [Recovery!Ids -> Nat], used : [Recovery!Ids -> Nat],
                mailed : SUBSET Recovery!Ids, accepted : SUBSET Recovery!Ids]
    BY <1>1, <1>2, <1>3 DEF RecoveryInv, Recovery!TypeOK
<1>c. lastId \in 0..MaxChallenges /\ open' \subseteq Guesser
    BY <1>1 DEF RecoveryInv, Recovery!TypeOK
<1>5. Recovery!TypeOK' /\ CodesKnown'
    <2>1. Recovery!TypeOK'
        BY <1>1, <1>4, <1>c, Empties DEF RecoveryInv, Recovery!TypeOK, Challenges
    <2>2. CodesKnown'
        <3>1. challenge'.id = 0 /\ ~challenge'.cipher
            BY <1>1, Empties
        <3>2. 0 <= lastId' /\ lastId' + pending' <= MaxChallenges
            BY <1>1, <1>c, Positive DEF RecoveryInv, CodesKnown
        <3> QED BY <3>1, <3>2 DEF CodesKnown
    <2> QED BY <2>1, <2>2
<1>6. OneGuess' /\ Recovery!GuessesBounded'
    BY <1>1, <1>2, <1>3 DEF RecoveryInv, OneGuess, Recovery!GuessesBounded, Recovery!TypeOK
<1>7. GuessesCounted'
    <2>1. i <= lastId
        BY DEF RecoveryInv, CodesKnown, i
    <2>2. \A c \in Recovery!Ids : c > lastId => c # i
        BY <1>2, <1>c, <2>1, Positive DEF Recovery!Ids
    <2>3. \A c \in Recovery!Ids : c # i => log'.used[c] = log.used[c] /\ log'.wrong[c] = log.wrong[c]
        BY <1>3 DEF RecoveryInv, Recovery!TypeOK
    <2> QED BY <1>1, <2>2, <2>3, Empties DEF RecoveryInv, GuessesCounted
<1>8. WorkersKnown' /\ LeasesKnown' /\ ClaimsKnown' /\ Recovery!OneSenderInLease' /\ Recovery!PayloadLostOnlyWhenDone'
    BY <1>1, <1>3, Empties DEF RecoveryInv, WorkersKnown, LeasesKnown, ClaimsKnown,
        Recovery!OneSenderInLease,
        Recovery!PayloadLostOnlyWhenDone
<1> QED BY <1>5, <1>6, <1>7, <1>8 DEF RecoveryInv

\* A wrong one adds to the failures the row permits, in the row and in history.
LEMMA WrongStep ==
    ASSUME Recovery!SoundConstants, RecoveryInv, NEW g \in Guesser, Recovery!GuessWrong(g)
    PROVE  RecoveryInv'
<1> DEFINE i == challenge.id
<1> DEFINE c == [challenge EXCEPT !.guesses = challenge.guesses + 1]
<1>1. /\ g \in open /\ open' = open \ {g} /\ challenge' = c
      /\ log' = [log EXCEPT !.wrong[i] = log.wrong[i] + 1]
      /\ UNCHANGED <<limit, pending, lastId, worker>>
    BY DEF Recovery!GuessWrong
<1>a. challenge.id # 0 /\ open' = {} /\ challenge.guesses < MaxGuesses
    BY <1>1 DEF RecoveryInv, OneGuess
<1>b. challenge.id \in 0..MaxChallenges /\ challenge.guesses \in 0..MaxGuesses
    BY DEF RecoveryInv, Recovery!TypeOK
<1>2. /\ i \in Recovery!Ids /\ log.wrong[i] = challenge.guesses /\ open' = {}
      /\ challenge.guesses < MaxGuesses /\ challenge.guesses \in Nat
    BY <1>a, <1>b, Positive DEF RecoveryInv, GuessesCounted, Recovery!Ids
<1>3. /\ c \in Challenges /\ c.id = i /\ c.guesses = challenge.guesses + 1
      /\ c.cipher = challenge.cipher /\ c.claim = challenge.claim /\ c.lease = challenge.lease
      /\ c.claims = challenge.claims
    BY <1>2, Positive DEF RecoveryInv, Recovery!TypeOK, Challenges
<1> HIDE DEF c
<1>4. /\ log'.used = log.used /\ log'.mailed = log.mailed /\ log'.accepted = log.accepted
      /\ log'.wrong = [log.wrong EXCEPT ![i] = log.wrong[i] + 1]
    BY <1>1, <1>2 DEF RecoveryInv, Recovery!TypeOK
<1>5. log' \in [wrong : [Recovery!Ids -> Nat], used : [Recovery!Ids -> Nat],
                mailed : SUBSET Recovery!Ids, accepted : SUBSET Recovery!Ids]
    BY <1>1, <1>2, <1>4 DEF RecoveryInv, Recovery!TypeOK
<1>6. Recovery!TypeOK' /\ CodesKnown'
    BY <1>1, <1>3, <1>5, Positive DEF RecoveryInv, Recovery!TypeOK, CodesKnown, Challenges
<1>7. OneGuess' /\ Recovery!GuessesBounded'
    BY <1>1, <1>2, <1>4, Positive DEF RecoveryInv, OneGuess, Recovery!GuessesBounded,
        Recovery!TypeOK
<1>8. GuessesCounted'
    <2>1. i <= lastId /\ lastId \in Nat
        BY Positive DEF RecoveryInv, CodesKnown, Recovery!TypeOK
    <2>2. \A k \in Recovery!Ids : k > lastId => k # i
        BY <1>2, <2>1, Positive DEF Recovery!Ids
    <2>3. \A k \in Recovery!Ids : log'.used[k] = log.used[k] /\ (k # i => log'.wrong[k] = log.wrong[k])
        BY <1>4 DEF RecoveryInv, Recovery!TypeOK
    <2>4. log'.wrong[i] = challenge.guesses + 1
        BY <1>2, <1>4 DEF RecoveryInv, Recovery!TypeOK
    <2> QED BY <1>1, <1>2, <1>3, <2>2, <2>3, <2>4 DEF RecoveryInv, GuessesCounted
<1>9. WorkersKnown' /\ LeasesKnown' /\ ClaimsKnown' /\ Recovery!OneSenderInLease' /\ Recovery!PayloadLostOnlyWhenDone'
    BY <1>1, <1>3, <1>4, Empties DEF RecoveryInv, WorkersKnown, LeasesKnown, ClaimsKnown,
        Recovery!OneSenderInLease,
        Recovery!PayloadLostOnlyWhenDone
<1> QED BY <1>6, <1>7, <1>8, <1>9 DEF RecoveryInv

\* Where only an instance's locals and the claim in the row change: the codes
\* and the guesses at them are as they were.
LEMMA GuessesKept ==
    ASSUME Recovery!SoundConstants, RecoveryInv, UNCHANGED <<lastId, pending, open>>,
           challenge'.id = challenge.id, challenge'.guesses = challenge.guesses,
           challenge'.cipher => challenge.cipher,
           log'.wrong = log.wrong, log'.used = log.used
    PROVE  CodesKnown' /\ OneGuess' /\ GuessesCounted' /\ Recovery!GuessesBounded'
BY DEF RecoveryInv, CodesKnown, OneGuess, GuessesCounted, Recovery!GuessesBounded

\* An instance that goes on, with the lease it has or none: the row keeps its
\* claim, or ends the claim of this very instance.
LEMMA WorkerStep ==
    ASSUME Recovery!SoundConstants, RecoveryInv, NEW w \in Worker, NEW r \in Work,
           worker' = [worker EXCEPT ![w] = r],
           \/ r.id = worker[w].id /\ r.claim = worker[w].claim /\ r.lease = worker[w].lease
           \/ r.id = 0 /\ r.lease = 0,
           r.pc \in {"send", "ack", "release"} => r.id # 0,
           r.pc = "ack" => r.id \in log'.accepted,
           log.accepted \subseteq log'.accepted,
           log' \in Logs, log'.wrong = log.wrong, log'.used = log.used,
           challenge' \in Challenges, challenge'.id = challenge.id,
           challenge'.guesses = challenge.guesses,
           challenge'.cipher => challenge.cipher,
           challenge'.claims = challenge.claims,
           \/ challenge'.claim = challenge.claim /\ challenge'.lease = challenge.lease
           \/ /\ r.lease = 0 /\ challenge.id = worker[w].id /\ worker[w].id # 0
              /\ challenge.claim = worker[w].claim,
           Recovery!PayloadLostOnlyWhenDone',
           UNCHANGED <<limit, pending, lastId, open>>
    PROVE  RecoveryInv'
<1>1. /\ worker' \in [Worker -> Work] /\ worker'[w] = r
      /\ \A q \in Worker \ {w} : worker'[q] = worker[q]
    BY DEF RecoveryInv, Recovery!TypeOK, Work
<1>3. Recovery!TypeOK'
    BY <1>1 DEF RecoveryInv, Recovery!TypeOK, Work, Challenges, Logs
<1>4. CodesKnown' /\ OneGuess' /\ GuessesCounted' /\ Recovery!GuessesBounded'
    BY GuessesKept
<1>5. WorkersKnown'
    <2> SUFFICES ASSUME NEW q \in Worker
                 PROVE  /\ worker'[q].id <= lastId'
                        /\ worker'[q].pc \in {"send", "ack", "release"} => worker'[q].id # 0
                        /\ worker'[q].lease > 0 => worker'[q].id # 0
                        /\ worker'[q].pc = "ack" => worker'[q].id \in log'.accepted
        BY DEF WorkersKnown
    <2>1. lastId \in Nat /\ lastId' = lastId
        BY Positive DEF RecoveryInv, Recovery!TypeOK
    <2>2. CASE q = w
        BY <1>1, <2>1, <2>2 DEF RecoveryInv, WorkersKnown
    <2>3. CASE q # w
        BY <1>1, <2>1, <2>3 DEF RecoveryInv, WorkersKnown
    <2> QED BY <2>2, <2>3
<1>6. Recovery!OneSenderInLease'
    <2>1. \A q \in Worker : worker'[q].lease > 0 => /\ worker'[q].lease = worker[q].lease
                                                    /\ worker'[q].id = worker[q].id
        BY <1>1
    <2> QED BY <2>1 DEF RecoveryInv, Recovery!OneSenderInLease
<1>7. LeasesKnown'
    <2>1. \A q \in Worker : worker'[q].lease > 0 => /\ worker'[q].lease = worker[q].lease
                                                    /\ worker'[q].id = worker[q].id
                                                    /\ worker'[q].claim = worker[q].claim
        BY <1>1
    <2>2. CASE challenge'.claim = challenge.claim /\ challenge'.lease = challenge.lease
        BY <2>1, <2>2 DEF RecoveryInv, LeasesKnown
    <2>3. CASE /\ r.lease = 0 /\ challenge.id = worker[w].id /\ worker[w].id # 0
               /\ challenge.claim = worker[w].claim
        <3>1. \A q \in Worker \ {w} : worker[q].lease > 0 => worker[q].id # challenge.id
            BY <2>3 DEF RecoveryInv, LeasesKnown, ClaimsKnown
        <3>2. ~(r.lease > 0)
            BY <2>3
        <3> QED BY <1>1, <2>1, <3>1, <3>2 DEF LeasesKnown
    <2> QED BY <2>2, <2>3
<1>8. ClaimsKnown'
    <2>1. \A q \in Worker : worker'[q].id # 0 => /\ worker'[q].id = worker[q].id
                                                /\ worker'[q].claim = worker[q].claim
        BY <1>1
    <2> QED BY <2>1 DEF RecoveryInv, ClaimsKnown
<1> QED BY <1>3, <1>4, <1>5, <1>6, <1>7, <1>8 DEF RecoveryInv

\* The instance does not touch the row.
LEMMA GoesOn ==
    ASSUME Recovery!SoundConstants, RecoveryInv, NEW w \in Worker, NEW r \in Work,
           worker' = [worker EXCEPT ![w] = r],
           \/ r.id = worker[w].id /\ r.claim = worker[w].claim /\ r.lease = worker[w].lease
           \/ r.id = 0 /\ r.lease = 0,
           r.pc \in {"send", "ack", "release"} => r.id # 0,
           r.pc = "ack" => r.id \in log'.accepted,
           log.accepted \subseteq log'.accepted,
           log' \in Logs, log'.wrong = log.wrong, log'.used = log.used,
           UNCHANGED <<limit, pending, lastId, challenge, open>>
    PROVE  RecoveryInv'
<1>1. challenge' \in Challenges
    BY DEF RecoveryInv, Recovery!TypeOK, Challenges
<1>2. /\ challenge'.id = challenge.id /\ challenge'.guesses = challenge.guesses
      /\ challenge'.claims = challenge.claims /\ challenge'.claim = challenge.claim
      /\ challenge'.lease = challenge.lease
    OBVIOUS
<1>3. challenge'.cipher => challenge.cipher
    OBVIOUS
<1>4. Recovery!PayloadLostOnlyWhenDone'
    <2>1. challenge' = challenge /\ log.accepted \subseteq log'.accepted
        OBVIOUS
    <2> QED BY <2>1 DEF RecoveryInv, Recovery!PayloadLostOnlyWhenDone
<1> QED BY <1>1, <1>2, <1>3, <1>4, WorkerStep

\* A worker that stops, fails to acknowledge, or hears from the provider.
LEMMA SendStep ==
    ASSUME Recovery!SoundConstants, RecoveryInv, NEW w \in Worker,
           Recovery!Send(w) \/ Recovery!AckFails(w) \/ Recovery!WorkerStops(w)
    PROVE  RecoveryInv'
<1>1. /\ worker[w] \in Work /\ worker \in [Worker -> Work] /\ challenge \in Challenges
      /\ log \in Logs
    BY DEF RecoveryInv, Recovery!TypeOK, Work, Challenges, Logs
<1>2. UNCHANGED <<limit, pending, lastId, challenge, open>>
    BY DEF Recovery!Send, Recovery!AckFails, Recovery!WorkerStops
<1>4. CASE Recovery!WorkerStops(w)
    <2>1. worker' = [worker EXCEPT ![w] = Recovery!Resting] /\ log' = log
        BY <1>4 DEF Recovery!WorkerStops
    <2> QED BY <1>1, <1>2, <2>1, Empties, GoesOn
<1>5. CASE Recovery!AckFails(w)
    <2> DEFINE r == [worker[w] EXCEPT !.pc = "release"]
    <2>1. worker' = [worker EXCEPT ![w] = r] /\ log' = log /\ worker[w].pc = "ack"
        BY <1>1, <1>5 DEF Recovery!AckFails
    <2>3. r \in Work /\ r.pc = "release" /\ r.id = worker[w].id /\ r.claim = worker[w].claim /\ r.lease = worker[w].lease
        BY <1>1 DEF Work
    <2>4. r.id # 0
        BY <2>1, <2>3 DEF RecoveryInv, WorkersKnown
    <2> HIDE DEF r
    <2> QED BY <1>1, <1>2, <2>1, <2>3, <2>4, GoesOn
<1>6. CASE Recovery!Send(w)
    <2> DEFINE i == worker[w].id
    <2>1. i \in Recovery!Ids
        <3>1. i # 0
            BY <1>6 DEF Recovery!Send, RecoveryInv, WorkersKnown
        <3>2. i \in 0..MaxChallenges
            BY <1>1 DEF Work
        <3> QED BY <3>1, <3>2, Positive DEF Recovery!Ids
    <2>2. ASSUME NEW pc \in {"ack", "release"}, NEW sent \in SUBSET {i}, NEW took \in SUBSET {i},
                 worker' = [worker EXCEPT ![w].pc = pc],
                 log' = [log EXCEPT !.mailed = log.mailed \cup sent,
                                    !.accepted = log.accepted \cup took],
                 pc = "ack" => took = {i}
          PROVE  RecoveryInv'
        <3> DEFINE r == [worker[w] EXCEPT !.pc = pc]
        <3>1. worker' = [worker EXCEPT ![w] = r]
            BY <1>1, <2>2
        <3>2. r \in Work /\ r.pc = pc /\ r.id = i /\ r.claim = worker[w].claim /\ r.lease = worker[w].lease
            BY <1>1 DEF Work
        <3>3. /\ log'.mailed = log.mailed \cup sent /\ log'.accepted = log.accepted \cup took
              /\ log'.wrong = log.wrong /\ log'.used = log.used /\ log' \in Logs
            BY <1>1, <2>1, <2>2 DEF Logs
        <3>5. r.pc = "ack" => r.id \in log'.accepted
            BY <2>2, <3>2, <3>3
        <3>6. r.id # 0
            BY <2>1, <3>2 DEF Recovery!Ids
        <3> HIDE DEF r, i
        <3> QED BY <1>1, <1>2, <3>1, <3>2, <3>3, <3>5, <3>6, GoesOn DEF i
    <2>3. CASE /\ worker' = [worker EXCEPT ![w].pc = "ack"]
               /\ log' = [log EXCEPT !.mailed = @ \cup {i}, !.accepted = @ \cup {i}]
        BY <2>2, <2>3
    <2>4. ASSUME NEW sent \in {{}, {i}}, worker' = [worker EXCEPT ![w].pc = "release"],
                 log' = [log EXCEPT !.mailed = @ \cup sent]
          PROVE  RecoveryInv'
        <3>1. log' = [log EXCEPT !.mailed = log.mailed \cup sent, !.accepted = log.accepted \cup {}]
            BY <1>1, <2>4 DEF Logs
        <3>2. sent \in SUBSET {i} /\ {} \in SUBSET {i} /\ "release" \in {"ack", "release"}
            OBVIOUS
        <3> HIDE DEF i
        <3>3. "release" # "ack"
            OBVIOUS
        <3> QED BY <2>2, <2>4, <3>1, <3>2, <3>3
    <2> QED BY <1>6, <2>3, <2>4 DEF Recovery!Send
<1> QED BY <1>4, <1>5, <1>6

\* An instance that acknowledges a mail, or gives its claim back: the row it
\* changes is the one it has claimed.
LEMMA EndClaimStep ==
    ASSUME Recovery!SoundConstants, RecoveryInv, NEW w \in Worker, Recovery!Ack(w) \/ Recovery!Release(w)
    PROVE  RecoveryInv'
<1> DEFINE r == [Recovery!Resting EXCEPT !.pc = "claim", !.left = worker[w].left]
<1>1. /\ worker[w] \in Work /\ worker \in [Worker -> Work] /\ challenge \in Challenges
      /\ log \in Logs
    BY DEF RecoveryInv, Recovery!TypeOK, Work, Challenges, Logs
<1>2. /\ UNCHANGED <<limit, pending, lastId, open, log>>
      /\ worker' = [worker EXCEPT ![w] = r] /\ worker[w].pc \in {"ack", "release"}
    BY DEF Recovery!Ack, Recovery!Release, Recovery!NextClaim
<1>3. r \in Work /\ r.id = 0 /\ r.lease = 0 /\ r.pc = "claim"
    BY <1>1, Empties DEF Work, Recovery!Resting
<1> HIDE DEF r
<1>5. CASE challenge' = challenge
    BY <1>1, <1>2, <1>3, <1>5, GoesOn
<1>6. ASSUME Recovery!HoldsClaim(w)
      PROVE  challenge.id = worker[w].id
    BY <1>6 DEF Recovery!HoldsClaim
<1>7. CASE Recovery!Ack(w) /\ Recovery!HoldsClaim(w)
    <2>1. /\ challenge' = [challenge EXCEPT !.cipher = FALSE, !.claim = 0, !.lease = 0]
          /\ worker[w].pc = "ack"
        BY <1>7 DEF Recovery!Ack
    <2>a. 0 \in 0..MaxClaims /\ 0 \in 0..Lease
        BY Positive
    <2>b. challenge' \in Challenges
        BY <1>1, <2>1, <2>a, Zenon DEF Challenges
    <2>2. /\ challenge' \in Challenges /\ challenge'.id = challenge.id
          /\ challenge'.guesses = challenge.guesses /\ challenge'.claims = challenge.claims
        BY <1>1, <2>1, <2>b DEF Challenges
    <2>3. ~challenge'.cipher
        BY <1>1, <2>1 DEF Challenges
    <2>4. challenge.id \in log.accepted /\ challenge.id # 0
        BY <1>6, <1>7, <2>1 DEF RecoveryInv, WorkersKnown
    <2>5. Recovery!PayloadLostOnlyWhenDone'
        BY <1>2, <2>2, <2>4 DEF Recovery!PayloadLostOnlyWhenDone
    <2> QED
        BY <1>1, <1>2, <1>3, <1>6, <1>7, <2>2, <2>3, <2>4, <2>5, WorkerStep
            DEF Recovery!HoldsClaim
<1>8. CASE Recovery!Release(w) /\ Recovery!HoldsClaim(w)
    <2> DEFINE kept == challenge.cipher /\ challenge.claims < MaxClaims
    <2>1. challenge' = [challenge EXCEPT !.claim = 0, !.lease = 0, !.wait = Retry, !.cipher = kept]
        BY <1>8 DEF Recovery!Release
    <2>2. kept \in BOOLEAN
        OBVIOUS
    <2>3. /\ challenge' \in Challenges /\ challenge'.id = challenge.id
          /\ challenge'.guesses = challenge.guesses /\ challenge'.claims = challenge.claims
          /\ challenge'.cipher = kept
        <3>1. 0 \in 0..MaxClaims /\ 0 \in 0..Lease /\ Retry \in 0..Retry
            BY Positive
        <3> HIDE DEF kept
        <3>2. challenge' \in Challenges
            BY <1>1, <2>1, <2>2, <3>1, Zenon DEF Challenges
        <3> QED BY <1>1, <2>1, <2>2, <3>2 DEF Challenges
    <2>4. challenge'.cipher => challenge.cipher
        BY <2>3
    <2>5. challenge.id # 0
        BY <1>2, <1>6, <1>8 DEF RecoveryInv, WorkersKnown
    <2>6. ~challenge'.cipher => challenge.id \in log.accepted \/ challenge.claims = MaxClaims
        <3>1. challenge.claims \in 0..MaxClaims
            BY <1>1 DEF Challenges
        <3>2. CASE challenge.cipher
            <4>1. ~challenge'.cipher => ~(challenge.claims < MaxClaims)
                BY <2>3, <3>2
            <4> QED BY <3>1, <4>1, Positive
        <3>3. CASE ~challenge.cipher
            BY <2>5, <3>3 DEF RecoveryInv, Recovery!PayloadLostOnlyWhenDone
        <3> QED BY <3>2, <3>3
    <2>7. Recovery!PayloadLostOnlyWhenDone'
        BY <1>2, <2>3, <2>6 DEF Recovery!PayloadLostOnlyWhenDone
    <2> HIDE DEF kept
    <2> QED
        BY <1>1, <1>2, <1>3, <1>6, <1>8, <2>3, <2>4, <2>5, <2>7, WorkerStep
            DEF Recovery!HoldsClaim
<1> QED BY <1>5, <1>7, <1>8 DEF Recovery!Ack, Recovery!Release

\* An expired challenge is deleted when the poll starts.
LEMMA PollStep ==
    ASSUME Recovery!SoundConstants, RecoveryInv, NEW w \in Worker, Recovery!Poll(w)
    PROVE  RecoveryInv'
<1> DEFINE r == [Recovery!Resting EXCEPT !.pc = "claim", !.left = Batch]
<1>1. /\ worker \in [Worker -> Work] /\ log \in Logs /\ log' = log
      /\ UNCHANGED <<limit, pending, lastId, open>> /\ worker' = [worker EXCEPT ![w] = r]
    BY DEF RecoveryInv, Recovery!TypeOK, Work, Logs, Recovery!Poll
<1>2. r \in Work /\ r.id = 0 /\ r.lease = 0 /\ r.pc = "claim"
    <2>1. Batch \in 0..Batch
        BY Positive
    <2> QED BY <2>1, Empties DEF Work
<1> HIDE DEF r
<1>3. CASE challenge' = challenge
    BY <1>1, <1>2, <1>3, GoesOn
<1>4. CASE open = {} /\ challenge' = Recovery!None
    <2>1. /\ worker' \in [Worker -> Work] /\ worker'[w] = r
          /\ \A q \in Worker \ {w} : worker'[q] = worker[q]
        BY <1>1, <1>2
    <2>2. Recovery!TypeOK'
        BY <1>1, <1>4, <2>1, Empties DEF RecoveryInv, Recovery!TypeOK, Work, Challenges
    <2>3. challenge'.id = 0 /\ ~challenge'.cipher /\ lastId' = lastId /\ lastId \in Nat
        BY <1>1, <1>4, Empties, Positive DEF RecoveryInv, Recovery!TypeOK
    <2>4. CodesKnown' /\ OneGuess' /\ GuessesCounted' /\ Recovery!GuessesBounded'
        BY <1>1, <1>4, <2>3 DEF RecoveryInv, CodesKnown, OneGuess, GuessesCounted,
            Recovery!GuessesBounded
    <2>5. \A q \in Worker : worker'[q].id # 0 \/ worker'[q].lease > 0 => worker'[q] = worker[q]
        BY <1>2, <2>1
    <2>6. WorkersKnown' /\ LeasesKnown' /\ ClaimsKnown' /\ Recovery!OneSenderInLease' /\ Recovery!PayloadLostOnlyWhenDone'
        <3>1. WorkersKnown'
            BY <1>1, <1>2, <2>1, <2>3 DEF RecoveryInv, WorkersKnown
        <3>2. LeasesKnown' /\ Recovery!PayloadLostOnlyWhenDone'
            BY <2>3, <2>5 DEF RecoveryInv, LeasesKnown, Recovery!PayloadLostOnlyWhenDone,
                WorkersKnown
        <3>3. ClaimsKnown' /\ Recovery!OneSenderInLease'
            BY <2>3, <2>5 DEF RecoveryInv, ClaimsKnown, Recovery!OneSenderInLease
        <3> QED BY <3>1, <3>2, <3>3
    <2> QED BY <2>2, <2>4, <2>6 DEF RecoveryInv
<1> QED BY <1>3, <1>4 DEF Recovery!Poll, Recovery!RowHeld

\* A claim is taken when the lease has run out: nobody else is in its lease.
LEMMA ClaimStep ==
    ASSUME Recovery!SoundConstants, RecoveryInv, NEW w \in Worker, Recovery!Claim(w)
    PROVE  RecoveryInv'
<1>1. /\ worker \in [Worker -> Work] /\ challenge \in Challenges /\ log \in Logs
      /\ worker[w] \in Work /\ log' = log /\ UNCHANGED <<limit, pending, lastId, open>>
    BY DEF RecoveryInv, Recovery!TypeOK, Work, Challenges, Logs, Recovery!Claim
<1>2. CASE worker' = [worker EXCEPT ![w] = Recovery!Resting] /\ challenge' = challenge
    BY <1>1, <1>2, Empties, GoesOn
<1> DEFINE n == challenge.claims + 1
           r == [pc |-> "send", id |-> challenge.id, lease |-> Lease, claim |-> n,
                 left |-> worker[w].left - 1]
<1>3. CASE /\ worker[w].left > 0 /\ Recovery!Deliverable
           /\ challenge' = [challenge EXCEPT !.claims = n, !.claim = n, !.lease = Lease]
           /\ worker' = [worker EXCEPT ![w] = r]
    <2>1. challenge.cipher /\ challenge.claims < MaxClaims /\ challenge.lease = 0 /\ challenge.id # 0
        BY <1>3 DEF Recovery!Deliverable, RecoveryInv, CodesKnown
    <2>2. /\ challenge.id \in 0..MaxChallenges /\ n \in 0..MaxClaims /\ Lease \in 0..Lease
          /\ worker[w].left - 1 \in 0..Batch
        BY <1>1, <1>3, <2>1, Positive DEF Challenges, Work
    <2>3. /\ r \in Work /\ r.pc = "send" /\ r.id = challenge.id /\ r.lease = Lease /\ r.claim = n
        BY <2>2 DEF Work
    <2>4. n \in Nat /\ n = challenge.claims + 1 /\ challenge.claims \in Nat
        BY <1>1 DEF Challenges
    <2> HIDE DEF r, n
    <2>5. /\ challenge' \in Challenges /\ challenge'.id = challenge.id
          /\ challenge'.guesses = challenge.guesses /\ challenge'.claims = n
          /\ challenge'.claim = n /\ challenge'.lease = Lease
        BY <1>1, <1>3, <2>2 DEF Challenges
    <2>6. challenge'.cipher
        BY <1>1, <1>3, <2>1 DEF Challenges
    <2>7. /\ worker' \in [Worker -> Work] /\ worker'[w] = r
          /\ \A q \in Worker \ {w} : worker'[q] = worker[q]
        BY <1>1, <1>3, <2>3
    <2>8. Recovery!TypeOK'
        BY <1>1, <2>5, <2>7 DEF RecoveryInv, Recovery!TypeOK, Work, Challenges
    <2>9. CodesKnown' /\ OneGuess' /\ GuessesCounted' /\ Recovery!GuessesBounded'
        BY <1>1, <2>1, <2>5, GuessesKept
    <2>10. \A q \in Worker \ {w} : worker[q].id = challenge.id
                                   => ~(worker[q].lease > 0) /\ worker[q].claim < n
        <3> SUFFICES ASSUME NEW q \in Worker \ {w}, worker[q].id = challenge.id
                     PROVE  ~(worker[q].lease > 0) /\ worker[q].claim < n
            OBVIOUS
        <3>1. worker[q].lease \in Nat /\ worker[q].claim \in Nat
            BY <1>1, Positive DEF Work
        <3>2. worker[q].lease > 0 => worker[q].lease <= challenge.lease
            BY DEF RecoveryInv, LeasesKnown
        <3>3. worker[q].claim <= challenge.claims
            BY <2>1 DEF RecoveryInv, ClaimsKnown
        <3> QED BY <2>1, <2>4, <3>1, <3>2, <3>3
    <2>11. WorkersKnown'
        <3>1. challenge.id <= lastId
            BY DEF RecoveryInv, CodesKnown
        <3> QED BY <1>1, <2>1, <2>3, <2>7, <3>1 DEF RecoveryInv, WorkersKnown
    <2>12. LeasesKnown'
        <3>1. Lease <= Lease
            BY Positive
        <3> QED BY <2>3, <2>5, <2>7, <2>10, <3>1 DEF LeasesKnown
    <2>13. ClaimsKnown'
        <3>1. \A q \in Worker \ {w} : worker[q].id = challenge.id => worker[q].claim # n /\ worker[q].claim <= n
            BY <1>1, <2>4, <2>10 DEF Work
        <3>2. n <= n
            BY <2>4
        <3> QED BY <2>3, <2>5, <2>7, <3>1, <3>2 DEF RecoveryInv, ClaimsKnown
    <2>14. Recovery!OneSenderInLease'
        BY <2>3, <2>7, <2>10 DEF RecoveryInv, Recovery!OneSenderInLease
    <2>15. Recovery!PayloadLostOnlyWhenDone'
        BY <2>6 DEF Recovery!PayloadLostOnlyWhenDone
    <2> QED BY <2>8, <2>9, <2>11, <2>12, <2>13, <2>14, <2>15 DEF RecoveryInv
<1> QED BY <1>2, <1>3 DEF Recovery!Claim

\* A deadline comes nearer, or stays past.
LEMMA Lessens ==
    ASSUME NEW n \in Nat
    PROVE  Recovery!Less(n) \in Nat /\ Recovery!Less(n) <= n /\ (Recovery!Less(n) > 0 => n > 0 /\ Recovery!Less(n) = n - 1)
BY DEF Recovery!Less

\* As time passes a worker's lease ends no later than the row's.
LEMMA TickStep ==
    ASSUME Recovery!SoundConstants, RecoveryInv, Recovery!Tick
    PROVE  RecoveryInv'
<1>1. /\ worker \in [Worker -> Work] /\ challenge \in Challenges
      /\ limit \in [count : 0..Limit, window : 0..Window, cooldown : 0..Cooldown]
    BY DEF RecoveryInv, Recovery!TypeOK, Work, Challenges
<1>2. /\ challenge.ttl \in 0..TTL /\ challenge.wait \in 0..Retry /\ challenge.lease \in 0..Lease
      /\ limit.window \in 0..Window /\ limit.cooldown \in 0..Cooldown
    BY <1>1 DEF Challenges
<1> DEFINE a == Recovery!Less(challenge.ttl)
           b == Recovery!Less(challenge.wait)
           l == Recovery!Less(challenge.lease)
           x == Recovery!Less(limit.window)
           y == Recovery!Less(limit.cooldown)
<1>3. a \in 0..TTL /\ b \in 0..Retry /\ l \in 0..Lease /\ x \in 0..Window /\ y \in 0..Cooldown
    BY <1>2, Positive DEF Recovery!Less
<1>4. /\ challenge' = [challenge EXCEPT !.ttl = a, !.wait = b, !.lease = l]
      /\ limit' = [limit EXCEPT !.window = x, !.cooldown = y]
      /\ worker' = [w \in Worker |-> [worker[w] EXCEPT !.lease = Recovery!Less(worker[w].lease)]]
      /\ UNCHANGED <<pending, lastId, open, log>>
    BY DEF Recovery!Tick
<1>5. l = Recovery!Less(challenge.lease)
    OBVIOUS
<1> HIDE DEF a, b, l, x, y
<1>6. /\ challenge' \in Challenges /\ challenge'.id = challenge.id
      /\ challenge'.guesses = challenge.guesses /\ challenge'.claims = challenge.claims
      /\ challenge'.claim = challenge.claim /\ challenge'.lease = l
    BY <1>1, <1>3, <1>4 DEF Challenges
<1>7. challenge'.cipher = challenge.cipher
    BY <1>1, <1>4 DEF Challenges
<1>8. limit' \in [count : 0..Limit, window : 0..Window, cooldown : 0..Cooldown]
    BY <1>1, <1>3, <1>4
<1>9. ASSUME NEW w \in Worker
      PROVE  /\ worker'[w] \in Work /\ worker'[w].id = worker[w].id
             /\ worker'[w].pc = worker[w].pc /\ worker'[w].claim = worker[w].claim
             /\ worker'[w].lease = Recovery!Less(worker[w].lease)
    <2> DEFINE k == Recovery!Less(worker[w].lease)
    <2>1. worker[w] \in Work /\ worker[w].lease \in 0..Lease
        BY <1>1 DEF Work
    <2>2. k \in 0..Lease
        BY <2>1, Positive DEF Recovery!Less
    <2>3. worker'[w] = [worker[w] EXCEPT !.lease = k]
        BY <1>4
    <2> HIDE DEF k
    <2>4. worker'[w] \in Work /\ worker'[w].id = worker[w].id /\ worker'[w].lease = k
             /\ worker'[w].pc = worker[w].pc /\ worker'[w].claim = worker[w].claim
        BY <2>1, <2>2, <2>3 DEF Work
    <2> QED BY <2>4 DEF k
<1>10. worker' \in [Worker -> Work]
    BY <1>4, <1>9
<1>11. Recovery!TypeOK'
    BY <1>4, <1>6, <1>8, <1>10 DEF RecoveryInv, Recovery!TypeOK, Work, Challenges
<1>12. CodesKnown' /\ OneGuess' /\ GuessesCounted' /\ Recovery!GuessesBounded'
    BY <1>4, <1>6, <1>7, GuessesKept
<1>13. \A w \in Worker : worker'[w].lease > 0 =>
           worker[w].lease > 0 /\ worker'[w].lease = worker[w].lease - 1
    BY <1>1, <1>9, Lessens, Positive DEF Work
<1>14. WorkersKnown'
    BY <1>4, <1>9, <1>13 DEF RecoveryInv, WorkersKnown
<1>15. LeasesKnown'
    <2> SUFFICES ASSUME NEW w \in Worker, worker'[w].lease > 0, worker'[w].id = challenge'.id
                 PROVE  worker'[w].claim = challenge'.claim /\ worker'[w].lease <= challenge'.lease
        BY DEF LeasesKnown
    <2>1. worker[w].lease > 0 /\ worker[w].id = challenge.id
        BY <1>6, <1>9, <1>13
    <2>2. worker[w].claim = challenge.claim /\ worker[w].lease <= challenge.lease
        BY <2>1 DEF RecoveryInv, LeasesKnown
    <2>3. worker[w].lease \in Nat /\ challenge.lease \in Nat
        BY <1>1, <1>2, Positive DEF Work
    <2>4. worker'[w].lease <= l
        BY <1>5, <1>9, <2>1, <2>2, <2>3 DEF Recovery!Less
    <2> QED BY <1>6, <1>9, <2>2, <2>4
<1>16. ClaimsKnown' /\ Recovery!OneSenderInLease'
    BY <1>6, <1>9, <1>13 DEF RecoveryInv, ClaimsKnown, Recovery!OneSenderInLease
<1>17. Recovery!PayloadLostOnlyWhenDone'
    BY <1>4, <1>6, <1>7 DEF RecoveryInv, Recovery!PayloadLostOnlyWhenDone
<1> QED BY <1>11, <1>12, <1>14, <1>15, <1>16, <1>17 DEF RecoveryInv

\* Every step keeps the invariant.
LEMMA NextRecovery ==
    ASSUME Recovery!SoundConstants, RecoveryInv, [Recovery!Next]_Recovery!vars
    PROVE  RecoveryInv'
<1>1. CASE UNCHANGED Recovery!vars
    <2>1. Recovery!TypeOK' /\ CodesKnown' /\ OneGuess' /\ GuessesCounted' /\ Recovery!GuessesBounded'
        BY <1>1 DEF Recovery!vars, RecoveryInv, Recovery!TypeOK, CodesKnown, OneGuess,
            GuessesCounted, Recovery!GuessesBounded
    <2>2. WorkersKnown' /\ LeasesKnown' /\ ClaimsKnown' /\ Recovery!OneSenderInLease' /\ Recovery!PayloadLostOnlyWhenDone'
        BY <1>1 DEF Recovery!vars, RecoveryInv, WorkersKnown, LeasesKnown, ClaimsKnown,
            Recovery!OneSenderInLease,
            Recovery!PayloadLostOnlyWhenDone
    <2> QED BY <2>1, <2>2 DEF RecoveryInv
<1>2. CASE Recovery!Allow \/ Recovery!StoreChallenge \/ Recovery!LoseRequest \/ Recovery!Tick
    BY <1>2, RequestStep, StoreStep, TickStep
<1>3. ASSUME NEW g \in Guesser, Recovery!GuessLock(g) \/ Recovery!Guessing(g)
      PROVE  RecoveryInv'
    BY <1>3, HoldStep, RightStep, WrongStep DEF Recovery!Guessing
<1>4. ASSUME NEW w \in Worker, Recovery!Delivering(w) \/ Recovery!AckFails(w) \/ Recovery!WorkerStops(w)
      PROVE  RecoveryInv'
    BY <1>4, PollStep, ClaimStep, SendStep, EndClaimStep DEF Recovery!Delivering
<1> QED BY <1>1, <1>2, <1>3, <1>4 DEF Recovery!Next

-----------------------------------------------------------------------------
(* Sessions *)

USE NullsAreFresh

-----------------------------------------------------------------------------
(* Type correctness *)

\* The initial state is well-typed: no account, no token, no handler.
LEMMA InitTypeOK == Init => TypeOK
BY DEF Init, TypeOK, StateTypes, NothingMissing, UnusedRow, Fresh, TokenRow,
       Handler, PC, Issued

\* The local state of an idle handler is well-typed.
LEMMA FreshType == Fresh \in Handler
BY DEF Fresh, Handler, PC

\* The local state Start gives a handler is well-typed.
LEMMA StartType ==
    ASSUME NEW pc \in PC, NEW u \in User, NEW v \in Nat
    PROVE  [Fresh EXCEPT !.pc = pc, !.user = u, !.ver = v] \in Handler
BY FreshType DEF Handler

\* So is the one an answer leaves.
LEMMA AnswerType ==
    ASSUME NEW c \in Token \cup {NoToken},
           NEW r \in {"refused", "ok", "none"}
    PROVE  [Fresh EXCEPT !.result = r, !.claim = c] \in Handler
BY FreshType DEF Handler

\* What a refresh keeps of its claim is well-typed.
LEMMA StoredType ==
    ASSUME NEW pc \in PC, NEW t \in Token, NEW c \in Token \cup {NoToken},
           tok[t] \in TokenRow
    PROVE  Stored(pc, t, c) \in Handler
BY FreshType DEF Stored, Handler, TokenRow

\* Every step keeps the sets the variables range over.
LEMMA NextStateTypes == TypeOK /\ [Next]_vars => StateTypes'
<1> SUFFICES ASSUME StateTypes, NothingMissing, [Next]_vars
             PROVE  StateTypes'
    BY DEF TypeOK
<1> USE DEF StateTypes
<1>h. \A p \in Request : req[p] \in Handler
    OBVIOUS
<1>t. \A t \in Token : tok[t] \in TokenRow
    OBVIOUS
<1>r. ASSUME NEW p \in Request, NEW h \in Handler,
             req' = [req EXCEPT ![p] = h]
      PROVE  req' \in [Request -> Handler]
    BY <1>r
<1>a. ASSUME NEW p \in Request, NEW r \in {"refused", "ok", "none"},
             Answer(p, r)
      PROVE  req' \in [Request -> Handler]
    <2> DEFINE c == IF r = "refused" THEN req[p].claim ELSE NoToken
    <2>1. c \in Token \cup {NoToken}
        BY <1>h DEF Handler
    <2>2. [Fresh EXCEPT !.result = r, !.claim = c] \in Handler
        BY <2>1, AnswerType
    <2>3. req' = [req EXCEPT ![p] = [Fresh EXCEPT !.result = r, !.claim = c]]
        BY <1>a DEF Answer
    <2> QED BY <1>r, <2>2, <2>3
<1>b. ASSUME NEW p \in Request, NEW u \in User, NEW pc \in PC,
             Start(p, pc, u)
      PROVE  req' \in [Request -> Handler]
    <2>1. [Fresh EXCEPT !.pc = pc, !.user = u, !.ver = version[u]] \in Handler
        BY StartType
    <2> QED BY <1>b, <1>r, <2>1 DEF Start
<1>v. ASSUME NEW S, Revoke(S)
      PROVE  tok' \in [Token -> TokenRow]
    <2>1. \A t \in Token : [tok[t] EXCEPT !.state = "revoked"] \in TokenRow
        BY <1>t DEF TokenRow
    <2> QED BY <1>v, <2>1 DEF Revoke
<1>p. ASSUME NEW p \in Request, NEW pc \in PC
      PROVE  [req[p] EXCEPT !.pc = pc] \in Handler
    BY <1>h DEF Handler
<1>1. ASSUME NEW p \in Request, NEW u \in User,
             Register(p, u) \/ Login(p, u) \/ GoogleFind(p, u)
             \/ ResetLock(p, u)
      PROVE  StateTypes'
    <2>1. req' \in [Request -> Handler]
        BY <1>1, <1>b DEF Register, Login, GoogleFind, ResetLock, PC
    <2> QED BY <1>1, <2>1 DEF Register, Login, GoogleFind, ResetLock
<1>2. ASSUME NEW p \in Request, NEW t \in Token, RefreshClaim(p, t)
      PROVE  StateTypes'
    <2>1. /\ Stored("load", t, t) \in Handler
          /\ Stored("load", t, NoToken) \in Handler
          /\ Stored("revokeFamily", t, NoToken) \in Handler
        BY <1>t, StoredType DEF PC
    <2>2. req' \in [Request -> Handler]
        BY <1>2, <1>r, <2>1 DEF RefreshClaim
    <2> QED BY <1>2, <1>v, <2>2 DEF RefreshClaim
<1>3. ASSUME NEW p \in Request, GoogleLink(p) \/ GoogleReread(p)
      PROVE  StateTypes'
    <2>1. CASE GoogleLink(p)
        BY <2>1, <1>r, <1>p DEF GoogleLink, PC
    <2>2. CASE GoogleReread(p)
        <3>1. version[req[p].user] \in Nat
            BY <2>2 DEF GoogleReread, NothingMissing
        <3>2. [req[p] EXCEPT !.pc = "issue", !.ver = version[req[p].user]]
                \in Handler
            BY <3>1, <1>h DEF Handler, PC
        <3> QED BY <2>2, <1>r, <3>2 DEF GoogleReread
    <2> QED BY <1>3, <2>1, <2>2
<1>4. ASSUME NEW p \in Request, GoogleCreate(p)
      PROVE  StateTypes'
    <2>1. version[req[p].user] \in Nat
        BY <1>4 DEF GoogleCreate, NothingMissing
    <2>2. [req[p] EXCEPT !.pc = "issue", !.ver = version[req[p].user]]
            \in Handler
        BY <2>1, <1>h DEF Handler, PC
    <2>3. req' \in [Request -> Handler]
        BY <1>4, <1>r, <2>2, <1>a DEF GoogleCreate
    <2> QED BY <1>4, <2>3 DEF GoogleCreate
<1>5. ASSUME NEW p \in Request, IssueTokens(p)
      PROVE  StateTypes'
    <2>1. req' \in [Request -> Handler]
        BY <1>5, <1>a DEF IssueTokens
    <2>2. tok' \in [Token -> TokenRow]
        <3>1. ASSUME NEW t \in Token
              PROVE  [state |-> "live", user |-> req[p].user,
                      ver |-> version[req[p].user],
                      family |-> IF req[p].family = NoToken
                                 THEN t ELSE req[p].family,
                      expired |-> FALSE] \in TokenRow
            BY <1>5, <1>h DEF IssueTokens, TokenRow, Handler, NothingMissing
        <3> QED BY <1>5, <3>1 DEF IssueTokens
    <2> QED BY <1>5, <2>1, <2>2 DEF IssueTokens
<1>6. ASSUME NEW p \in Request, RevokeFamily(p)
      PROVE  StateTypes'
    <2>1. req' \in [Request -> Handler]
        BY <1>6, <1>a DEF RevokeFamily
    <2> QED BY <1>6, <1>v, <2>1 DEF RevokeFamily
<1>7. ASSUME NEW p \in Request, RefreshLoad(p)
      PROVE  StateTypes'
    <2>1. req' \in [Request -> Handler]
        BY <1>7, <1>p, <1>r, <1>a DEF RefreshLoad, PC
    <2> QED BY <1>7, <2>1 DEF RefreshLoad
<1>8. ASSUME NEW p \in Request, ResetRefuse(p) \/ Crash(p)
      PROVE  StateTypes'
    BY <1>8, <1>a DEF ResetRefuse, Crash
<1>9. ASSUME NEW p \in Request, ResetWrite(p)
      PROVE  StateTypes'
    <2>1. ASSUME NEW S \in SUBSET Token
          PROVE  [req[p] EXCEPT !.pc = "resetCommit", !.rows = S] \in Handler
        BY <1>h DEF Handler, PC
    <2>2. {t \in Token : Live(t) /\ tok[t].user = req[p].user}
            \in SUBSET Token
        OBVIOUS
    <2> QED BY <1>9, <1>r, <2>1, <2>2 DEF ResetWrite
<1>10. ASSUME NEW p \in Request, ResetCommit(p)
       PROVE  StateTypes'
    <2>1. version' \in [User -> Nat]
        BY <1>10 DEF ResetCommit, NothingMissing
    <2> QED BY <1>10, <1>a, <1>v, <2>1 DEF ResetCommit
<1>11. ASSUME NEW t \in Token, Logout(t) \/ Expire(t)
       PROVE  StateTypes'
    <2>1. CASE Logout(t)
        BY <2>1, <1>v DEF Logout
    <2>2. CASE Expire(t)
        <3>1. [tok[t] EXCEPT !.expired = TRUE] \in TokenRow
            BY <1>t DEF TokenRow
        <3> QED BY <2>2, <3>1 DEF Expire
    <2> QED BY <1>11, <2>1, <2>2
<1>12. CASE UNCHANGED vars
    BY <1>12 DEF vars
<1> QED
    BY <1>1, <1>2, <1>3, <1>4, <1>5, <1>6, <1>7, <1>8, <1>9, <1>10, <1>11,
       <1>12 DEF Next, Begin, Waiting, Running

-----------------------------------------------------------------------------
(* What the building blocks of the actions do, field by field *)

\* A request that starts has only the user and version it read.
LEMMA StartEffect ==
    ASSUME TypeOK, NEW p \in Request, NEW pc \in PC, NEW u \in User,
           Start(p, pc, u)
    PROVE  /\ req'[p].pc = pc /\ req'[p].user = u /\ req'[p].ver = version[u]
           /\ req'[p].family = NoToken /\ req'[p].claim = NoToken
           /\ req'[p].rows = {} /\ req'[p].result = "none"
           /\ \A q \in Request \ {p} : req'[q] = req[q]
BY DEF Start, Fresh, TypeOK, StateTypes

\* A request that answers forgets everything, but for the claim of a refused
\* one.
LEMMA AnswerEffect ==
    ASSUME TypeOK, NEW p \in Request, NEW r, Answer(p, r)
    PROVE  /\ req'[p].pc = "idle" /\ req'[p].user = NoUser
           /\ req'[p].rows = {} /\ req'[p].result = r
           /\ \A q \in Request \ {p} : req'[q] = req[q]
BY DEF Answer, Fresh, TypeOK, StateTypes

\* A request that claimed keeps the columns, or nothing.
LEMMA StoredEffect ==
    ASSUME TypeOK, NEW p \in Request, NEW pc, NEW t \in Token, NEW c,
           req' = [req EXCEPT ![p] = Stored(pc, t, c)]
    PROVE  /\ req'[p].pc = pc /\ req'[p].claim = c
           /\ req'[p].rows = {} /\ req'[p].result = "none"
           /\ Shape = "rows" => /\ req'[p].user = tok[t].user
                                /\ req'[p].ver = tok[t].ver
                                /\ req'[p].family = tok[t].family
           /\ Shape # "rows" => /\ req'[p].user = NoUser
                                /\ req'[p].family = NoToken
           /\ \A q \in Request \ {p} : req'[q] = req[q]
BY DEF Stored, Fresh, TypeOK, StateTypes

\* Revoking changes the state of the rows of S and nothing else.
LEMMA RevokeEffect ==
    ASSUME TypeOK, NEW S, Revoke(S), NEW t \in Token
    PROVE  /\ tok'[t].user = tok[t].user /\ tok'[t].family = tok[t].family
           /\ tok'[t].ver = tok[t].ver /\ tok'[t].expired = tok[t].expired
           /\ t \in S /\ Live(t) => tok'[t].state = "revoked"
           /\ ~(t \in S /\ Live(t)) => tok'[t].state = tok[t].state
BY DEF Revoke, TypeOK, StateTypes, TokenRow

-----------------------------------------------------------------------------

\* Every step keeps issued rows and running handlers complete.
LEMMA NextNothingMissing == TypeOK /\ [Next]_vars => NothingMissing'
<1> SUFFICES ASSUME TypeOK, [Next]_vars
             PROVE  NothingMissing'
    OBVIOUS
<1>n. NothingMissing
    BY DEF TypeOK
<1>a. ASSUME NEW p \in Request, NEW r, Answer(p, r)
      PROVE  \A q \in Request :
               /\ req'[q].pc \notin {"idle", "load"} => req'[q].user \in User
               /\ req'[q].pc = "revokeFamily" => req'[q].family \in Token
    BY <1>a, <1>n, AnswerEffect DEF NothingMissing
<1>v. ASSUME NEW S, Revoke(S)
      PROVE  \A t \in Token :
               Issued(t)' => tok'[t].user \in User /\ tok'[t].family \in Token
    BY <1>v, <1>n, RevokeEffect DEF NothingMissing, Issued, Live
<1>1. ASSUME NEW p \in Request, NEW u \in User,
             Register(p, u) \/ Login(p, u) \/ GoogleFind(p, u)
             \/ ResetLock(p, u)
      PROVE  NothingMissing'
    <2>1. PICK pc \in PC \ {"revokeFamily"} : Start(p, pc, u)
        BY <1>1 DEF Register, Login, GoogleFind, ResetLock, PC
    <2>2. UNCHANGED tok
        BY <1>1 DEF Register, Login, GoogleFind, ResetLock
    <2> QED BY <2>1, <2>2, <1>n, StartEffect DEF NothingMissing, Issued
<1>2. ASSUME NEW p \in Request, NEW t \in Token, RefreshClaim(p, t)
      PROVE  NothingMissing'
    <2>1. PICK pc \in {"load", "revokeFamily"}, c \in Token \cup {NoToken} :
            /\ req' = [req EXCEPT ![p] = Stored(pc, t, c)]
            /\ pc = "revokeFamily" => Shape = "rows"
        BY <1>2 DEF RefreshClaim
    <2>2. tok[t].user \in User /\ tok[t].family \in Token
        BY <1>2, <1>n DEF RefreshClaim, NothingMissing
    <2>3. \A q \in Request :
            /\ req'[q].pc \notin {"idle", "load"} => req'[q].user \in User
            /\ req'[q].pc = "revokeFamily" => req'[q].family \in Token
        <3>1. /\ req'[p].pc = pc
              /\ Shape = "rows" => /\ req'[p].user = tok[t].user
                                   /\ req'[p].family = tok[t].family
              /\ req'[p].rows = {}
              /\ \A q \in Request \ {p} : req'[q] = req[q]
            BY <2>1 DEF Stored, Fresh, TypeOK, StateTypes
        <3> QED BY <2>1, <2>2, <3>1, <1>n DEF NothingMissing
    <2>4. Revoke({t}) \/ UNCHANGED tok
        BY <1>2 DEF RefreshClaim
    <2> QED BY <2>3, <2>4, <1>v, <1>n DEF NothingMissing, Issued
<1>3. ASSUME NEW p \in Request,
             GoogleLink(p) \/ GoogleReread(p) \/ ResetWrite(p)
      PROVE  NothingMissing'
    <2>1. req[p].user \in User
        BY <1>3, <1>n
           DEF GoogleLink, GoogleReread, ResetWrite, NothingMissing
    <2>2. /\ \A q \in Request \ {p} : req'[q] = req[q]
          /\ req'[p].user = req[p].user
          /\ req'[p].pc \in {"googleReread", "issue", "resetCommit"}
        <3> USE DEF TypeOK, StateTypes, Handler
        <3>1. CASE GoogleLink(p)
            BY <3>1 DEF GoogleLink
        <3>2. CASE GoogleReread(p)
            BY <3>2 DEF GoogleReread
        <3>3. CASE ResetWrite(p)
            BY <3>3 DEF ResetWrite
        <3> QED BY <1>3, <3>1, <3>2, <3>3
    <2>3. UNCHANGED tok
        BY <1>3 DEF GoogleLink, GoogleReread, ResetWrite
    <2> QED BY <2>1, <2>2, <2>3, <1>n DEF NothingMissing, Issued
<1>4. ASSUME NEW p \in Request, GoogleCreate(p)
      PROVE  NothingMissing'
    <2>1. CASE Answer(p, "refused")
        BY <1>4, <2>1, <1>a, <1>n DEF GoogleCreate, NothingMissing, Issued
    <2>2. CASE req' = [req EXCEPT ![p].pc = "issue",
                                  ![p].ver = version[req[p].user]]
        <3>1. req[p].user \in User
            BY <1>4, <1>n DEF GoogleCreate, NothingMissing
        <3>2. /\ \A q \in Request \ {p} : req'[q] = req[q]
              /\ req'[p].user = req[p].user /\ req'[p].pc = "issue"
            BY <2>2 DEF TypeOK, StateTypes, Handler
        <3> QED BY <1>4, <3>1, <3>2, <1>n
                DEF GoogleCreate, NothingMissing, Issued
    <2> QED BY <1>4, <2>1, <2>2 DEF GoogleCreate
<1>5. ASSUME NEW p \in Request, IssueTokens(p)
      PROVE  NothingMissing'
    <2>1. \A t \in Token : Issued(t)' =>
            tok'[t].user \in User /\ tok'[t].family \in Token
        <3>1. CASE UNCHANGED tok
            BY <3>1, <1>n DEF NothingMissing, Issued
        <3>2. ASSUME NEW t \in Token,
                     tok' = [tok EXCEPT ![t] =
                       [state |-> "live", user |-> req[p].user,
                        ver |-> version[req[p].user],
                        family |-> IF req[p].family = NoToken
                                   THEN t ELSE req[p].family,
                        expired |-> FALSE]]
              PROVE  \A s \in Token : Issued(s)' =>
                       tok'[s].user \in User /\ tok'[s].family \in Token
            <4>1. req[p].user \in User /\ req[p].family \in Token \cup {NoToken}
                BY <1>5, <1>n
                   DEF IssueTokens, NothingMissing, TypeOK, StateTypes, Handler
            <4>2. tok'[t].user \in User /\ tok'[t].family \in Token
                BY <3>2, <4>1 DEF TypeOK, StateTypes
            <4>3. \A s \in Token \ {t} : tok'[s] = tok[s]
                BY <3>2 DEF TypeOK, StateTypes
            <4> QED BY <4>2, <4>3, <1>n DEF NothingMissing, Issued
        <3> QED BY <1>5, <3>1, <3>2 DEF IssueTokens
    <2> QED BY <1>5, <2>1, <1>a DEF IssueTokens, NothingMissing
<1>6. ASSUME NEW p \in Request, RevokeFamily(p)
      PROVE  NothingMissing'
    <2> QED BY <1>6, <1>a, <1>v DEF RevokeFamily, NothingMissing
<1>7. ASSUME NEW p \in Request, RefreshLoad(p)
      PROVE  NothingMissing'
    <2>1. CASE Answer(p, "refused")
        BY <1>7, <2>1, <1>a, <1>n DEF RefreshLoad, NothingMissing, Issued
    <2>2. CASE req' = [req EXCEPT ![p].pc = "issue"] /\ req[p].user # NoUser
        <3>1. req[p].user \in User
            BY <2>2 DEF TypeOK, StateTypes, Handler
        <3>2. /\ \A q \in Request \ {p} : req'[q] = req[q]
              /\ req'[p].user = req[p].user /\ req'[p].pc = "issue"
            BY <2>2 DEF TypeOK, StateTypes, Handler
        <3> QED BY <1>7, <3>1, <3>2, <1>n
                DEF RefreshLoad, NothingMissing, Issued
    <2> QED BY <1>7, <2>1, <2>2 DEF RefreshLoad
<1>8. ASSUME NEW p \in Request, ResetRefuse(p) \/ Crash(p)
      PROVE  NothingMissing'
    BY <1>8, <1>a, <1>n DEF ResetRefuse, Crash, NothingMissing, Issued
<1>9. ASSUME NEW p \in Request, ResetCommit(p)
      PROVE  NothingMissing'
    <2> QED BY <1>9, <1>a, <1>v DEF ResetCommit, NothingMissing
<1>10. ASSUME NEW t \in Token, Logout(t) \/ Expire(t)
       PROVE  NothingMissing'
    <2>1. CASE Logout(t)
        BY <2>1, <1>v, <1>n DEF Logout, NothingMissing
    <2>2. CASE Expire(t)
        <3>1. /\ \A s \in Token \ {t} : tok'[s] = tok[s]
              /\ tok'[t].user = tok[t].user /\ tok'[t].family = tok[t].family
            BY <2>2 DEF Expire, TypeOK, StateTypes, TokenRow
        <3>2. Issued(t)
            BY <2>2 DEF Expire
        <3> QED BY <2>2, <3>1, <3>2, <1>n DEF Expire, NothingMissing, Issued
    <2> QED BY <1>10, <2>1, <2>2
<1>11. CASE UNCHANGED vars
    BY <1>11, <1>n DEF vars, NothingMissing, Issued
<1> QED
    BY <1>1, <1>2, <1>3, <1>4, <1>5, <1>6, <1>7, <1>8, <1>9, <1>10, <1>11
       DEF Next, Begin, Waiting, Running

\* Type correctness of the session machine.
THEOREM TypeCorrect == Spec => []TypeOK
<1>1. TypeOK /\ [Next]_vars => TypeOK'
    BY NextStateTypes, NextNothingMissing DEF TypeOK
<1> QED BY InitTypeOK, <1>1, PTL DEF Spec

-----------------------------------------------------------------------------
(* No session outlives a password reset *)

\* A reset between its FOR UPDATE and its commit holds the users row.
ResetHoldsLock ==
    \A p \in Request : req[p].pc \in {"resetWrite", "resetCommit"}
                       => userLock[req[p].user] = p

\* No token of the user can appear after the reset revoked those it saw.
ResetSeesAll ==
    \A p \in Request : req[p].pc = "resetCommit" =>
        \A t \in Token : Live(t) /\ tok[t].user = req[p].user
                         => t \in req[p].rows

StaleInv == NoStaleSession /\ ResetHoldsLock /\ ResetSeesAll

\* Before any token is issued or reset started, there is nothing to outlive.
LEMMA InitStaleInv == Init => StaleInv
BY DEF Init, StaleInv, NoStaleSession, ResetHoldsLock, ResetSeesAll,
       UnusedRow, Fresh, Live

\* A step that leaves the tokens, versions and locks alone and does not enter
\* or leave the reset for any request but one that was or becomes idle there.
LEMMA QuietStale ==
    ASSUME TypeOK, StaleInv, NEW p \in Request,
           \A q \in Request \ {p} : req'[q] = req[q],
           req'[p].pc \notin {"resetWrite", "resetCommit"},
           UNCHANGED <<tok, version, userLock>>
    PROVE  StaleInv'
BY DEF StaleInv, NoStaleSession, ResetHoldsLock, ResetSeesAll, Live

\* Revoking more tokens never hurts.
LEMMA RevokeStale ==
    ASSUME TypeOK, StaleInv, NEW p \in Request, NEW S, Revoke(S),
           \A q \in Request \ {p} : req'[q] = req[q],
           req'[p] = req[p] \/ req'[p].pc \notin {"resetWrite", "resetCommit"},
           UNCHANGED <<version, userLock>>
    PROVE  StaleInv'
<1>1. \A t \in Token : /\ Live(t)' => Live(t)
                        /\ tok'[t].user = tok[t].user
                        /\ tok'[t].ver = tok[t].ver
    BY RevokeEffect DEF Live
<1> QED BY <1>1 DEF StaleInv, NoStaleSession, ResetHoldsLock, ResetSeesAll

\* The three facts survive every step: a token is inserted only while the
\* user's row is unlocked and under the committed version, and a commit
\* revokes every live token of the user in the step that moves the version.
LEMMA NextStaleInv == TypeOK /\ StaleInv /\ [Next]_vars => StaleInv'
<1> SUFFICES ASSUME TypeOK, StaleInv, [Next]_vars
             PROVE  StaleInv'
    OBVIOUS
<1>1. ASSUME NEW p \in Request, NEW u \in User,
             Register(p, u) \/ Login(p, u) \/ GoogleFind(p, u)
      PROVE  StaleInv'
    <2>1. PICK pc \in {"issue", "googleCreate", "googleLink"} : Start(p, pc, u)
        BY <1>1 DEF Register, Login, GoogleFind
    <2>2. UNCHANGED <<tok, version, userLock>>
        BY <1>1 DEF Register, Login, GoogleFind
    <2>3. /\ req'[p].pc = pc
          /\ \A q \in Request \ {p} : req'[q] = req[q]
        BY <2>1, StartEffect DEF PC
    <2> QED BY <2>2, <2>3, QuietStale
<1>2. ASSUME NEW p \in Request, NEW u \in User, ResetLock(p, u)
      PROVE  StaleInv'
    <2>1. /\ req'[p].pc = "resetWrite" /\ req'[p].user = u
          /\ \A q \in Request \ {p} : req'[q] = req[q]
        BY <1>2, StartEffect DEF ResetLock, PC
    <2>2. UNCHANGED <<tok, version>>
        BY <1>2 DEF ResetLock
    <2>3. ResetHoldsLock'
        <3>1. ASSUME NEW q \in Request \ {p},
                     req[q].pc \in {"resetWrite", "resetCommit"}
              PROVE  userLock'[req[q].user] = q
            BY <1>2, <3>1 DEF ResetLock, StaleInv, ResetHoldsLock, TypeOK,
                              StateTypes
        <3>2. userLock'[u] = p
            BY <1>2 DEF ResetLock, TypeOK, StateTypes
        <3> QED BY <2>1, <3>1, <3>2 DEF ResetHoldsLock
    <2> QED BY <2>1, <2>2, <2>3
            DEF StaleInv, NoStaleSession, ResetSeesAll, Live
<1>3. ASSUME NEW p \in Request, NEW t \in Token, RefreshClaim(p, t)
      PROVE  StaleInv'
    <2>1. /\ req'[p].pc \in {"load", "revokeFamily"}
          /\ \A q \in Request \ {p} : req'[q] = req[q]
        <3>1. PICK pc \in {"load", "revokeFamily"}, c \in Token \cup {NoToken} :
                req' = [req EXCEPT ![p] = Stored(pc, t, c)]
            BY <1>3 DEF RefreshClaim
        <3> QED BY <3>1 DEF Stored, Fresh, TypeOK, StateTypes
    <2>2. Revoke({t}) \/ UNCHANGED tok
        BY <1>3 DEF RefreshClaim
    <2>3. UNCHANGED <<version, userLock>>
        BY <1>3 DEF RefreshClaim
    <2> QED BY <2>1, <2>2, <2>3, QuietStale, RevokeStale
<1>4. ASSUME NEW p \in Request,
             GoogleLink(p) \/ GoogleReread(p) \/ GoogleCreate(p)
             \/ RefreshLoad(p)
      PROVE  StaleInv'
    <2>1. /\ req'[p].pc \in {"googleReread", "issue", "idle"}
          /\ \A q \in Request \ {p} : req'[q] = req[q]
        <3> USE DEF TypeOK, StateTypes, Handler
        <3>1. CASE GoogleLink(p)
            BY <3>1 DEF GoogleLink
        <3>2. CASE GoogleReread(p)
            BY <3>2 DEF GoogleReread
        <3>3. CASE GoogleCreate(p)
            BY <3>3, AnswerEffect DEF GoogleCreate
        <3>4. CASE RefreshLoad(p)
            BY <3>4, AnswerEffect DEF RefreshLoad
        <3> QED BY <1>4, <3>1, <3>2, <3>3, <3>4
    <2>2. UNCHANGED <<tok, version, userLock>>
        BY <1>4 DEF GoogleLink, GoogleReread, GoogleCreate, RefreshLoad
    <2> QED BY <2>1, <2>2, QuietStale
<1>5. ASSUME NEW p \in Request, IssueTokens(p)
      PROVE  StaleInv'
    <2> DEFINE u == req[p].user
    <2>1. /\ req'[p].pc = "idle"
          /\ \A q \in Request \ {p} : req'[q] = req[q]
        BY <1>5, AnswerEffect DEF IssueTokens
    <2>2. UNCHANGED <<version, userLock>> /\ userLock[u] = NoRequest
        BY <1>5 DEF IssueTokens, UserLocked
    <2>3. CASE UNCHANGED tok
        BY <2>1, <2>2, <2>3, QuietStale
    <2>4. ASSUME NEW t \in Token,
                 tok' = [tok EXCEPT ![t] =
                   [state |-> "live", user |-> u, ver |-> version[u],
                    family |-> IF req[p].family = NoToken
                               THEN t ELSE req[p].family,
                    expired |-> FALSE]]
          PROVE  StaleInv'
        <3>1. tok'[t].user = u /\ tok'[t].ver = version[u]
            BY <2>4 DEF TypeOK, StateTypes
        <3>2. \A s \in Token \ {t} : tok'[s] = tok[s]
            BY <2>4 DEF TypeOK, StateTypes
        <3>3. NoStaleSession'
            BY <2>2, <3>1, <3>2 DEF StaleInv, NoStaleSession, Live
        <3>4. ResetHoldsLock'
            BY <2>1, <2>2 DEF StaleInv, ResetHoldsLock
        <3>5. ResetSeesAll'
            <4>1. ASSUME NEW q \in Request, req'[q].pc = "resetCommit"
                  PROVE  req[q].user # u /\ req'[q] = req[q]
                BY <2>1, <2>2, <4>1 DEF StaleInv, ResetHoldsLock
            <4> QED BY <3>1, <3>2, <4>1 DEF StaleInv, ResetSeesAll, Live
        <3> QED BY <3>3, <3>4, <3>5 DEF StaleInv
    <2> QED BY <1>5, <2>3, <2>4 DEF IssueTokens
<1>6. ASSUME NEW p \in Request, RevokeFamily(p)
      PROVE  StaleInv'
    <2>1. /\ req'[p].pc = "idle"
          /\ \A q \in Request \ {p} : req'[q] = req[q]
        BY <1>6, AnswerEffect DEF RevokeFamily
    <2> QED BY <1>6, <2>1, RevokeStale DEF RevokeFamily
<1>7. ASSUME NEW p \in Request, ResetRefuse(p) \/ Crash(p)
      PROVE  StaleInv'
    <2>1. /\ req'[p].pc = "idle"
          /\ \A q \in Request \ {p} : req'[q] = req[q]
        BY <1>7, AnswerEffect DEF ResetRefuse, Crash
    <2>2. UNCHANGED <<tok, version>>
        BY <1>7 DEF ResetRefuse, Crash
    <2>3. \A q \in Request \ {p} :
            req[q].pc \in {"resetWrite", "resetCommit"}
            => userLock'[req[q].user] = q
        <3>1. ASSUME NEW q \in Request \ {p},
                     req[q].pc \in {"resetWrite", "resetCommit"}
              PROVE  userLock'[req[q].user] = q
            <4>1. req[q].user \in User /\ userLock[req[q].user] = q
                BY <3>1 DEF StaleInv, ResetHoldsLock, TypeOK, NothingMissing
            <4>2. CASE Crash(p)
                BY <4>1, <4>2 DEF Crash
            <4>3. CASE ResetRefuse(p)
                BY <4>1, <4>3 DEF ResetRefuse, StaleInv, ResetHoldsLock,
                                  TypeOK, StateTypes
            <4> QED BY <1>7, <4>2, <4>3
        <3> QED BY <3>1
    <2> QED BY <2>1, <2>2, <2>3
            DEF StaleInv, NoStaleSession, ResetHoldsLock, ResetSeesAll, Live
<1>8. ASSUME NEW p \in Request, ResetWrite(p)
      PROVE  StaleInv'
    <2>1. /\ req'[p].pc = "resetCommit" /\ req'[p].user = req[p].user
          /\ req'[p].rows =
                {t \in Token : Live(t) /\ tok[t].user = req[p].user}
          /\ \A q \in Request \ {p} : req'[q] = req[q]
        BY <1>8 DEF ResetWrite, TypeOK, StateTypes, Handler
    <2>2. UNCHANGED <<tok, version, userLock>> /\ req[p].pc = "resetWrite"
        BY <1>8 DEF ResetWrite
    <2> QED BY <2>1, <2>2
            DEF StaleInv, NoStaleSession, ResetHoldsLock, ResetSeesAll, Live
<1>9. ASSUME NEW p \in Request, ResetCommit(p)
      PROVE  StaleInv'
    <2> DEFINE u == req[p].user
    <2>1. /\ req'[p].pc = "idle"
          /\ \A q \in Request \ {p} : req'[q] = req[q]
        BY <1>9, AnswerEffect DEF ResetCommit
    <2>2. u \in User /\ userLock[u] = p
        BY <1>9 DEF ResetCommit, StaleInv, ResetHoldsLock, TypeOK,
                    NothingMissing
    <2>3. \A v \in User \ {u} : version'[v] = version[v]
                               /\ userLock'[v] = userLock[v]
        BY <1>9 DEF ResetCommit, TypeOK, StateTypes
    <2>4. \A t \in Token : /\ Live(t)' => Live(t) /\ t \notin req[p].rows
                            /\ tok'[t].user = tok[t].user
                            /\ tok'[t].ver = tok[t].ver
        BY <1>9, RevokeEffect DEF ResetCommit, Live
    <2>5. NoStaleSession'
        <3>1. ASSUME NEW t \in Token, Live(t)'
              PROVE  tok[t].user \in User \ {u}
            BY <1>9, <2>4, <3>1 DEF ResetCommit, StaleInv, ResetSeesAll,
                                    TypeOK, NothingMissing, Live, Issued
        <3> QED BY <2>3, <2>4, <3>1 DEF StaleInv, NoStaleSession
    <2>6. ResetHoldsLock'
        <3>1. ASSUME NEW q \in Request \ {p},
                     req[q].pc \in {"resetWrite", "resetCommit"}
              PROVE  userLock'[req[q].user] = q
            BY <2>2, <2>3, <3>1 DEF StaleInv, ResetHoldsLock, TypeOK,
                                    NothingMissing
        <3> QED BY <2>1, <3>1 DEF ResetHoldsLock
    <2>7. ResetSeesAll'
        BY <2>1, <2>4 DEF StaleInv, ResetSeesAll
    <2> QED BY <2>5, <2>6, <2>7 DEF StaleInv
<1>10. ASSUME NEW t \in Token, Logout(t) \/ Expire(t)
       PROVE  StaleInv'
    <2>1. UNCHANGED <<version, userLock, req>>
        BY <1>10 DEF Logout, Expire
    <2>2. \A s \in Token : /\ Live(s)' => Live(s)
                            /\ tok'[s].user = tok[s].user
                            /\ tok'[s].ver = tok[s].ver
        <3>1. CASE Logout(t)
            BY <3>1, RevokeEffect DEF Logout, Live
        <3>2. CASE Expire(t)
            BY <3>2 DEF Expire, Live, TypeOK, StateTypes, TokenRow
        <3> QED BY <1>10, <3>1, <3>2
    <2> QED BY <2>1, <2>2
            DEF StaleInv, NoStaleSession, ResetHoldsLock, ResetSeesAll
<1>11. CASE UNCHANGED vars
    BY <1>11 DEF vars, StaleInv, NoStaleSession, ResetHoldsLock, ResetSeesAll,
                 Live
<1> QED
    BY <1>1, <1>2, <1>3, <1>4, <1>5, <1>6, <1>7, <1>8, <1>9, <1>10, <1>11
       DEF Next, Begin, Waiting, Running

\* No session outlives a password reset: a usable refresh token always carries
\* its user's current auth_version, for any number of concurrent requests.
THEOREM StaleSessionsDie == Spec => []NoStaleSession
<1>1. StaleInv => NoStaleSession
    BY DEF StaleInv
<1> QED BY InitStaleInv, NextStaleInv, TypeCorrect, <1>1, PTL DEF Spec

-----------------------------------------------------------------------------
(* A family is one chain *)

\* A family is named by a token that was issued, and only a refresh has one.
FamiliesKnown ==
    /\ \A t \in Token : Issued(t) => Issued(tok[t].family)
    /\ \A p \in Request :
         /\ req[p].family \in Token => Issued(req[p].family)
         /\ req[p].pc \in {"googleLink", "googleReread", "googleCreate"}
            => req[p].family = NoToken

ChainInv == OneLivePerFamily /\ FamiliesKnown

\* Before any token is issued, no family is known.
LEMMA InitChainInv == Init => ChainInv
BY DEF Init, ChainInv, OneLivePerFamily, FamiliesKnown, Rotating, UnusedRow,
       Fresh, Live, Issued

\* The step adds no usable token, and p rotates afterwards only a family it
\* rotated before.
LEMMA QuietChain ==
    ASSUME TypeOK, ChainInv, NEW p \in Request,
           \A q \in Request \ {p} : req'[q] = req[q],
           \A t \in Token : /\ Live(t)' => Live(t)
                            /\ Issued(t)' <=> Issued(t)
                            /\ tok'[t].family = tok[t].family,
           \A f \in Token : Rotating(p, f)' => Rotating(p, f),
           req'[p].family \in {req[p].family, NoToken},
           req'[p].pc \in {"googleLink", "googleReread", "googleCreate"}
             => req'[p].family = NoToken
    PROVE  ChainInv'
<1>1. \A q \in Request, f \in Token : Rotating(q, f)' => Rotating(q, f)
    BY DEF Rotating
<1>2. OneLivePerFamily'
    BY <1>1 DEF ChainInv, OneLivePerFamily
<1>3. FamiliesKnown'
    <2>1. ASSUME NEW t \in Token, Issued(t)'
          PROVE  Issued(tok[t].family)'
        BY <2>1 DEF ChainInv, FamiliesKnown, TypeOK, NothingMissing
    <2>2. ASSUME NEW q \in Request
          PROVE  /\ req'[q].family \in Token => Issued(req[q].family)'
                 /\ req'[q].pc \in {"googleLink", "googleReread",
                                    "googleCreate"}
                    => req'[q].family = NoToken
        BY DEF ChainInv, FamiliesKnown
    <2> QED BY <2>1, <2>2 DEF FamiliesKnown
<1> QED BY <1>2, <1>3 DEF ChainInv

\* How the rows relevant to a chain look after a revocation.
LEMMA RevokeChain ==
    ASSUME TypeOK, NEW S, Revoke(S), NEW t \in Token
    PROVE  /\ Live(t)' <=> Live(t) /\ t \notin S
           /\ Issued(t)' <=> Issued(t)
           /\ tok'[t].family = tok[t].family
BY RevokeEffect DEF Live, Issued

\* A claim ends the family's usable token in the step that makes the request
\* its only rotation; an insertion ends the rotation in the step that adds the
\* usable token; a new family is named by a token no row belongs to yet.
LEMMA NextChainInv == TypeOK /\ ChainInv /\ [Next]_vars => ChainInv'
<1> SUFFICES ASSUME TypeOK, ChainInv, [Next]_vars
             PROVE  ChainInv'
    OBVIOUS
<1>u. ASSUME UNCHANGED tok
      PROVE  \A t \in Token : /\ Live(t)' => Live(t)
                              /\ Issued(t)' <=> Issued(t)
                              /\ tok'[t].family = tok[t].family
    BY <1>u DEF Live, Issued
<1>a. ASSUME NEW p \in Request, NEW r, Answer(p, r)
      PROVE  /\ req'[p].pc = "idle" /\ req'[p].family = NoToken
             /\ \A q \in Request \ {p} : req'[q] = req[q]
             /\ \A f \in Token : ~Rotating(p, f)'
    BY <1>a DEF Answer, Fresh, Rotating, TypeOK, StateTypes
<1>1. ASSUME NEW p \in Request, NEW u \in User,
             Register(p, u) \/ Login(p, u) \/ GoogleFind(p, u)
             \/ ResetLock(p, u)
      PROVE  ChainInv'
    <2>1. PICK pc \in PC : Start(p, pc, u)
        BY <1>1 DEF Register, Login, GoogleFind, ResetLock, PC
    <2>2. UNCHANGED tok
        BY <1>1 DEF Register, Login, GoogleFind, ResetLock
    <2>3. /\ req'[p].family = NoToken
          /\ \A q \in Request \ {p} : req'[q] = req[q]
        BY <2>1, StartEffect
    <2>4. \A f \in Token : ~Rotating(p, f)'
        BY <2>3 DEF Rotating
    <2> QED BY <2>2, <2>3, <2>4, <1>u, QuietChain
<1>2. ASSUME NEW p \in Request, NEW t \in Token, RefreshClaim(p, t)
      PROVE  ChainInv'
    <2> DEFINE g == tok[t].family
    <2>1. g \in Token /\ Issued(g) /\ Issued(t)
        BY <1>2 DEF RefreshClaim, TypeOK, NothingMissing, ChainInv,
                    FamiliesKnown
    <2>2. CASE /\ Claimable(t)
               /\ Revoke({t})
               /\ req' = [req EXCEPT ![p] = Stored("load", t, t)]
        <3>1. /\ req'[p].pc = "load"
              /\ req'[p].family \in {g, NoToken}
              /\ \A q \in Request \ {p} : req'[q] = req[q]
            BY <2>2 DEF Stored, Fresh, TypeOK, StateTypes
        <3>2. \A s \in Token : /\ Live(s)' <=> Live(s) /\ s # t
                               /\ Issued(s)' <=> Issued(s)
                               /\ tok'[s].family = tok[s].family
            BY <2>2, RevokeChain
        <3>3. \A f \in Token : /\ Rotating(p, f)' => f = g
                               /\ \A q \in Request \ {p} :
                                    Rotating(q, f)' <=> Rotating(q, f)
            BY <3>1 DEF Rotating
        <3>4. Live(t)
            BY <2>2 DEF Claimable
        <3>5. OneLivePerFamily'
            <4>1. ASSUME NEW f \in Token
                  PROVE  /\ \A t1, t2 \in Token :
                              Live(t1)' /\ Live(t2)' /\ tok'[t1].family = f
                              /\ tok'[t2].family = f => t1 = t2
                         /\ \A p1, p2 \in Request :
                              Rotating(p1, f)' /\ Rotating(p2, f)' => p1 = p2
                         /\ \A s \in Token, q \in Request :
                              ~(Live(s)' /\ tok'[s].family = f
                                /\ Rotating(q, f)')
                BY <2>1, <3>2, <3>3, <3>4 DEF ChainInv, OneLivePerFamily
            <4> QED BY <4>1 DEF OneLivePerFamily
        <3>6. FamiliesKnown'
            <4>1. ASSUME NEW s \in Token, Issued(s)'
                  PROVE  Issued(tok[s].family)'
                BY <3>2, <4>1
                   DEF ChainInv, FamiliesKnown, TypeOK, NothingMissing
            <4>2. ASSUME NEW q \in Request
                  PROVE  /\ req'[q].family \in Token
                            => Issued(req[q].family)'
                         /\ req'[q].pc \in {"googleLink", "googleReread",
                                            "googleCreate"}
                            => req'[q].family = NoToken
                BY <2>1, <3>1, <3>2 DEF ChainInv, FamiliesKnown
            <4> QED BY <4>1, <4>2 DEF FamiliesKnown
        <3> QED BY <3>5, <3>6 DEF ChainInv
    <2>3. CASE UNCHANGED tok
        <3>1. PICK pc \in {"load", "revokeFamily"} :
                /\ pc = "load" => Shape # "rows"
                /\ req' = [req EXCEPT ![p] = Stored(pc, t, NoToken)]
            <4>1. \/ ~Claimable(t)
                  \/ Revoke({t}) /\ Live(t)
                BY <1>2 DEF RefreshClaim, Claimable
            <4>2. ~(Revoke({t}) /\ Live(t))
                BY <2>3, RevokeChain DEF Live
            <4> QED BY <1>2, <4>1, <4>2 DEF RefreshClaim, Claimable
        <3>2. /\ req'[p].pc = pc
              /\ req'[p].family \in {g, NoToken}
              /\ pc = "load" => req'[p].family = NoToken
              /\ \A q \in Request \ {p} : req'[q] = req[q]
            BY <3>1 DEF Stored, Fresh, TypeOK, StateTypes
        <3>3. \A f \in Token : ~Rotating(p, f)'
            BY <3>1, <3>2 DEF Rotating
        <3>4. OneLivePerFamily'
            BY <2>3, <3>2, <3>3
               DEF ChainInv, OneLivePerFamily, Rotating, Live
        <3>5. FamiliesKnown'
            BY <2>1, <2>3, <3>1, <3>2 DEF ChainInv, FamiliesKnown, Issued
        <3> QED BY <3>4, <3>5 DEF ChainInv
    <2> QED BY <1>2, <2>2, <2>3 DEF RefreshClaim
<1>3. ASSUME NEW p \in Request,
             GoogleLink(p) \/ GoogleReread(p) \/ GoogleCreate(p)
             \/ RefreshLoad(p) \/ ResetWrite(p)
      PROVE  ChainInv'
    <2> USE DEF TypeOK, StateTypes, Handler
    <2>1. /\ req'[p].family \in {req[p].family, NoToken}
          /\ \A q \in Request \ {p} : req'[q] = req[q]
          /\ req'[p].pc \in {"googleReread", "idle", "resetCommit"}
             \/ (req'[p].pc = "issue" /\ req[p].pc = "load")
             \/ (req'[p].pc = "issue" /\ req'[p].family = NoToken)
          /\ req'[p].pc = "googleReread" => req'[p].family = NoToken
        <3>1. CASE GoogleLink(p)
            BY <3>1 DEF GoogleLink, ChainInv, FamiliesKnown
        <3>2. CASE GoogleReread(p)
            BY <3>2 DEF GoogleReread, ChainInv, FamiliesKnown
        <3>3. CASE GoogleCreate(p)
            BY <3>3, <1>a DEF GoogleCreate, ChainInv, FamiliesKnown
        <3>4. CASE RefreshLoad(p)
            BY <3>4, <1>a DEF RefreshLoad
        <3>5. CASE ResetWrite(p)
            BY <3>5 DEF ResetWrite
        <3> QED BY <1>3, <3>1, <3>2, <3>3, <3>4, <3>5
    <2>2. UNCHANGED tok
        BY <1>3
           DEF GoogleLink, GoogleReread, GoogleCreate, RefreshLoad, ResetWrite
    <2>3. \A f \in Token : Rotating(p, f)' => Rotating(p, f)
        BY <2>1 DEF Rotating
    <2> QED BY <2>1, <2>2, <2>3, <1>u, QuietChain
<1>4. ASSUME NEW p \in Request, IssueTokens(p)
      PROVE  ChainInv'
    <2>1. /\ req'[p].family = NoToken /\ req'[p].pc = "idle"
          /\ \A q \in Request \ {p} : req'[q] = req[q]
          /\ \A f \in Token : ~Rotating(p, f)'
        BY <1>4, <1>a DEF IssueTokens
    <2>2. CASE UNCHANGED tok
        BY <2>1, <2>2, <1>u, QuietChain
    <2>3. ASSUME NEW t \in Token, ~Issued(t),
                 tok' = [tok EXCEPT ![t] =
                   [state |-> "live", user |-> req[p].user,
                    ver |-> version[req[p].user],
                    family |-> IF req[p].family = NoToken
                               THEN t ELSE req[p].family,
                    expired |-> FALSE]]
          PROVE  ChainInv'
        <3> DEFINE g == IF req[p].family = NoToken THEN t ELSE req[p].family
        <3>1. /\ tok'[t].family = g /\ tok'[t].state = "live"
              /\ \A s \in Token \ {t} : tok'[s] = tok[s]
            BY <2>3 DEF TypeOK, StateTypes
        <3>2. g \in Token /\ (g = t \/ Issued(g))
            BY DEF TypeOK, StateTypes, Handler, ChainInv, FamiliesKnown
        <3>3. \A s \in Token \ {t} : Live(s) => tok[s].family # g
            <4>1. CASE req[p].family = NoToken
                BY <2>3, <4>1 DEF ChainInv, FamiliesKnown, Live, Issued
            <4>2. CASE req[p].family # NoToken
                <5>1. Rotating(p, g)
                    BY <1>4, <4>2 DEF IssueTokens, Rotating
                <5> QED BY <3>2, <5>1 DEF ChainInv, OneLivePerFamily
            <4> QED BY <4>1, <4>2
        <3>4. \A q \in Request \ {p} : ~Rotating(q, g)
            <4>1. CASE req[p].family = NoToken
                BY <2>3, <4>1 DEF ChainInv, FamiliesKnown, Rotating
            <4>2. CASE req[p].family # NoToken
                <5>1. Rotating(p, g)
                    BY <1>4, <4>2 DEF IssueTokens, Rotating
                <5> QED BY <3>2, <5>1 DEF ChainInv, OneLivePerFamily
            <4> QED BY <4>1, <4>2
        <3>5. OneLivePerFamily'
            <4>1. \A f \in Token, q \in Request : Rotating(q, f)' =>
                    q # p /\ Rotating(q, f) /\ f # g
                BY <2>1, <3>4 DEF Rotating
            <4>2. \A s \in Token \ {t} : /\ Live(s)' <=> Live(s)
                                        /\ tok'[s].family = tok[s].family
                BY <3>1 DEF Live
            <4>3. ASSUME NEW f \in Token
                  PROVE  /\ \A t1, t2 \in Token :
                              Live(t1)' /\ Live(t2)' /\ tok'[t1].family = f
                              /\ tok'[t2].family = f => t1 = t2
                         /\ \A p1, p2 \in Request :
                              Rotating(p1, f)' /\ Rotating(p2, f)' => p1 = p2
                         /\ \A s \in Token, q \in Request :
                              ~(Live(s)' /\ tok'[s].family = f
                                /\ Rotating(q, f)')
                BY <3>1, <3>3, <4>1, <4>2 DEF ChainInv, OneLivePerFamily
            <4> QED BY <4>3 DEF OneLivePerFamily
        <3>6. FamiliesKnown'
            <4>1. \A s \in Token : Issued(s) => Issued(s)'
                BY <3>1 DEF Issued
            <4>2. Issued(t)'
                BY <3>1 DEF Issued
            <4>3. ASSUME NEW s \in Token, Issued(s)'
                  PROVE  Issued(tok[s].family)'
                <5>1. CASE s = t
                    BY <3>1, <3>2, <4>1, <4>2, <5>1
                <5>2. CASE s # t
                    <6>1. Issued(s) /\ tok'[s].family = tok[s].family
                        BY <3>1, <4>3, <5>2 DEF Issued
                    <6> QED BY <4>1, <6>1
                            DEF ChainInv, FamiliesKnown, TypeOK, NothingMissing
                <5> QED BY <5>1, <5>2
            <4>4. ASSUME NEW q \in Request
                  PROVE  /\ req'[q].family \in Token
                            => Issued(req[q].family)'
                         /\ req'[q].pc \in {"googleLink", "googleReread",
                                            "googleCreate"}
                            => req'[q].family = NoToken
                BY <2>1, <4>1 DEF ChainInv, FamiliesKnown
            <4> QED BY <4>3, <4>4 DEF FamiliesKnown
        <3> QED BY <3>5, <3>6 DEF ChainInv
    <2> QED BY <1>4, <2>2, <2>3 DEF IssueTokens
<1>5. ASSUME NEW p \in Request,
             RevokeFamily(p) \/ ResetCommit(p) \/ ResetRefuse(p) \/ Crash(p)
      PROVE  ChainInv'
    <2>1. /\ req'[p].family = NoToken /\ req'[p].pc = "idle"
          /\ \A q \in Request \ {p} : req'[q] = req[q]
          /\ \A f \in Token : ~Rotating(p, f)'
        BY <1>5, <1>a DEF RevokeFamily, ResetCommit, ResetRefuse, Crash
    <2>2. \A t \in Token : /\ Live(t)' => Live(t)
                           /\ Issued(t)' <=> Issued(t)
                           /\ tok'[t].family = tok[t].family
        BY <1>5, <1>u, RevokeChain
           DEF RevokeFamily, ResetCommit, ResetRefuse, Crash
    <2> QED BY <2>1, <2>2, QuietChain
<1>6. ASSUME NEW t \in Token, Logout(t) \/ Expire(t)
      PROVE  ChainInv'
    <2>1. UNCHANGED req
        BY <1>6 DEF Logout, Expire
    <2>2. \A s \in Token : /\ Live(s)' => Live(s)
                           /\ Issued(s)' <=> Issued(s)
                           /\ tok'[s].family = tok[s].family
        <3>1. CASE Logout(t)
            BY <3>1, RevokeChain DEF Logout
        <3>2. CASE Expire(t)
            BY <3>2 DEF Expire, Live, Issued, TypeOK, StateTypes, TokenRow
        <3> QED BY <1>6, <3>1, <3>2
    <2>3. OneLivePerFamily'
        BY <2>1, <2>2 DEF ChainInv, OneLivePerFamily, Rotating
    <2>4. ASSUME NEW s \in Token, Issued(s)'
          PROVE  Issued(tok[s].family)'
        BY <2>2, <2>4 DEF ChainInv, FamiliesKnown, TypeOK, NothingMissing
    <2> QED BY <2>1, <2>2, <2>3, <2>4 DEF ChainInv, FamiliesKnown
<1>7. CASE UNCHANGED vars
    BY <1>7 DEF vars, ChainInv, OneLivePerFamily, FamiliesKnown, Rotating,
                Live, Issued
<1> QED
    BY <1>1, <1>2, <1>3, <1>4, <1>5, <1>6, <1>7
       DEF Next, Begin, Waiting, Running

\* A token family never has two usable tokens, nor a usable one beside a
\* refresh about to add another, however many refreshes race.
THEOREM ChainsNeverFork == Spec => []OneLivePerFamily
<1>1. ChainInv => OneLivePerFamily
    BY DEF ChainInv
<1> QED BY InitChainInv, NextChainInv, TypeCorrect, <1>1, PTL DEF Spec
-----------------------------------------------------------------------------
(* A refresh that consumed a usable token is served *)

\* No token was issued under a version that is still to come.
NoneAhead == \A t \in Token : Issued(t) => tok[t].ver <= version[tok[t].user]

\* Only a refresh has consumed a token, and it goes on with that row's user and
\* version; one that was refused was overtaken by a reset.
ClaimOK(p) ==
    req[p].claim # NoToken =>
        /\ Issued(req[p].claim) /\ req[p].pc \in {"load", "issue", "idle"}
        /\ req[p].pc \in {"load", "issue"} =>
             /\ req[p].user = tok[req[p].claim].user
             /\ req[p].ver = tok[req[p].claim].ver
        /\ req[p].result = "refused" =>
             tok[req[p].claim].ver < version[tok[req[p].claim].user]

\* A request that runs has not answered.
RunsUnanswered == \A p \in Request : req[p].pc # "idle" => req[p].result = "none"

ServedInv == NoneAhead /\ RunsUnanswered /\ \A p \in Request : ClaimOK(p)

\* Nobody has consumed anything at first.
LEMMA InitServed == Init => ServedInv
BY DEF Init, ServedInv, NoneAhead, RunsUnanswered, ClaimOK, UnusedRow, Fresh, Issued

\* Issued rows keep their user and version, versions only grow: who has not
\* moved knows what it knew.
LEMMA ServedStep ==
    ASSUME TypeOK, ServedInv, version' \in [User -> Nat],
           \A t \in Token : Issued(t) => /\ tok'[t].state # "unused"
                                         /\ tok'[t].user = tok[t].user
                                         /\ tok'[t].ver = tok[t].ver,
           \A t \in Token : tok'[t].state # "unused" /\ ~Issued(t)
                            => tok'[t].ver <= version'[tok'[t].user],
           \A u \in User : version[u] <= version'[u],
           NEW p \in Request \cup {NoRequest},
           \A q \in Request \ {p} : req'[q] = req[q],
           p \in Request => ClaimOK(p)' /\ (req'[p].pc # "idle" => req'[p].result = "none")
    PROVE  ServedInv'
<1>1. \A t \in Token : Issued(t) => /\ tok[t].user \in User /\ tok[t].ver \in Nat
                                    /\ version[tok[t].user] \in Nat
                                    /\ version'[tok[t].user] \in Nat
    BY DEF TypeOK, NothingMissing, StateTypes, TokenRow
<1>2. NoneAhead'
    <2> SUFFICES ASSUME NEW t \in Token, tok'[t].state # "unused"
                 PROVE  tok'[t].ver <= version'[tok'[t].user]
        BY DEF NoneAhead, Issued
    <2>1. CASE Issued(t)
        BY <1>1, <2>1 DEF ServedInv, NoneAhead
    <2> QED BY <2>1
<1>3. RunsUnanswered'
    BY DEF ServedInv, RunsUnanswered
<1>4. ASSUME NEW q \in Request \ {p}
      PROVE  ClaimOK(q)'
    <2> SUFFICES ASSUME req[q].claim # NoToken
                 PROVE  /\ tok'[req[q].claim].state # "unused"
                        /\ req[q].pc \in {"load", "issue", "idle"}
                        /\ req[q].pc \in {"load", "issue"} =>
                             /\ req[q].user = tok'[req[q].claim].user
                             /\ req[q].ver = tok'[req[q].claim].ver
                        /\ req[q].result = "refused" =>
                             tok'[req[q].claim].ver < version'[tok'[req[q].claim].user]
        BY DEF ClaimOK, Issued
    <2> DEFINE c == req[q].claim
    <2>1. c \in Token
        BY DEF TypeOK, StateTypes, Handler
    <2>2. ClaimOK(q)
        BY DEF ServedInv
    <2>3. Issued(c)
        BY <2>2 DEF ClaimOK
    <2>4. tok'[c].user = tok[c].user /\ tok'[c].ver = tok[c].ver /\ tok'[c].state # "unused"
        BY <2>1, <2>3
    <2>5. tok[c].user \in User /\ version[tok[c].user] <= version'[tok[c].user]
        BY <1>1, <2>1, <2>3
    <2> QED BY <1>1, <2>1, <2>2, <2>3, <2>4, <2>5 DEF ClaimOK
<1>5. ASSUME NEW q \in Request PROVE ClaimOK(q)'
    BY <1>4
<1> QED BY <1>2, <1>3, <1>5 DEF ServedInv

\* The tokens and the versions are left alone.
LEMMA QuietServed ==
    ASSUME TypeOK, ServedInv, NEW p \in Request, UNCHANGED <<tok, version>>,
           \A q \in Request \ {p} : req'[q] = req[q],
           ClaimOK(p)', req'[p].pc # "idle" => req'[p].result = "none"
    PROVE  ServedInv'
<1>1. /\ version' \in [User -> Nat] /\ \A u \in User : version[u] <= version'[u]
    BY DEF TypeOK, StateTypes
<1>2. \A t \in Token : tok'[t] = tok[t]
    OBVIOUS
<1> QED BY <1>1, <1>2, ServedStep DEF Issued

\* Tokens are revoked, no row's user or version is touched.
LEMMA RevokeServed ==
    ASSUME TypeOK, ServedInv, NEW S, Revoke(S), UNCHANGED version,
           NEW p \in Request \cup {NoRequest},
           \A q \in Request \ {p} : req'[q] = req[q],
           p \in Request => ClaimOK(p)' /\ (req'[p].pc # "idle" => req'[p].result = "none")
    PROVE  ServedInv'
<1>1. /\ version' \in [User -> Nat] /\ \A u \in User : version[u] <= version'[u]
    BY DEF TypeOK, StateTypes
<1>2. \A t \in Token : /\ tok'[t].user = tok[t].user /\ tok'[t].ver = tok[t].ver
                       /\ (tok'[t].state # "unused" <=> Issued(t))
    BY RevokeEffect DEF Issued, Live
<1> QED BY <1>1, <1>2, ServedStep

\* With the rows of UPDATE ... RETURNING, as auth.service.ts reads them, every
\* step keeps it: the version a refusal is decided by is the stored row's.
LEMMA NextServed ==
    ASSUME Shape = "rows", TypeOK, ServedInv, [Next]_vars
    PROVE  ServedInv'
<1>1. ASSUME NEW p \in Request, NEW u \in User,
             Register(p, u) \/ Login(p, u) \/ GoogleFind(p, u) \/ ResetLock(p, u)
      PROVE  ServedInv'
    <2>1. PICK pc \in {"issue", "googleCreate", "googleLink", "resetWrite"} : Start(p, pc, u)
        BY <1>1 DEF Register, Login, GoogleFind, ResetLock
    <2>2. UNCHANGED <<tok, version>>
        BY <1>1 DEF Register, Login, GoogleFind, ResetLock
    <2>3. req'[p].claim = NoToken /\ req'[p].result = "none"
          /\ \A q \in Request \ {p} : req'[q] = req[q]
        BY <2>1, StartEffect DEF PC
    <2> QED BY <2>2, <2>3, QuietServed DEF ClaimOK
<1>2. ASSUME NEW p \in Request, NEW t \in Token, RefreshClaim(p, t)
      PROVE  ServedInv'
    <2>1. Issued(t) /\ UNCHANGED version
        BY <1>2 DEF RefreshClaim
    <2>2. CASE Revoke({t}) /\ req' = [req EXCEPT ![p] = Stored("load", t, t)]
        <3>1. /\ req'[p].pc = "load" /\ req'[p].claim = t /\ req'[p].result = "none"
              /\ req'[p].user = tok[t].user /\ req'[p].ver = tok[t].ver
              /\ \A q \in Request \ {p} : req'[q] = req[q]
            BY <2>2 DEF Stored, Fresh, TypeOK, StateTypes
        <3>2. tok'[t].user = tok[t].user /\ tok'[t].ver = tok[t].ver /\ tok'[t].state # "unused"
            BY <2>1, <2>2, RevokeEffect DEF Issued, Live
        <3>3. ClaimOK(p)'
            BY <3>1, <3>2 DEF ClaimOK, Issued
        <3> QED BY <2>1, <2>2, <3>1, <3>3, RevokeServed
    <2>3. CASE req' = [req EXCEPT ![p] = Stored("revokeFamily", t, NoToken)] /\ UNCHANGED tok
        <3>1. /\ req'[p].claim = NoToken /\ req'[p].result = "none"
              /\ \A q \in Request \ {p} : req'[q] = req[q]
            BY <2>3 DEF Stored, Fresh, TypeOK, StateTypes
        <3> QED BY <2>1, <2>3, <3>1, QuietServed DEF ClaimOK
    <2> QED BY <1>2, <2>2, <2>3 DEF RefreshClaim
<1>a. ASSUME NEW p \in Request, NEW r, Answer(p, r)
      PROVE  /\ req'[p].pc = "idle" /\ req'[p].result = r
             /\ req'[p].claim = IF r = "refused" THEN req[p].claim ELSE NoToken
             /\ \A q \in Request \ {p} : req'[q] = req[q]
    BY <1>a DEF Answer, Fresh, TypeOK, StateTypes
<1>3. ASSUME NEW p \in Request, NEW r \in {"refused", "ok", "none"}, Answer(p, r),
             r = "refused" => req[p].claim = NoToken, UNCHANGED <<tok, version>>
      PROVE  ServedInv'
    <2>1. req'[p].claim = NoToken /\ req'[p].pc = "idle"
          /\ \A q \in Request \ {p} : req'[q] = req[q]
        BY <1>3, <1>a
    <2> QED BY <1>3, <2>1, QuietServed DEF ClaimOK
<1>4. ASSUME NEW p \in Request, req[p].pc \in {"load", "issue"}, Answer(p, "refused"),
             UNCHANGED <<tok, version>>,
             req[p].claim # NoToken => version[req[p].user] # req[p].ver
      PROVE  ServedInv'
    <2>1. /\ req'[p].pc = "idle" /\ req'[p].claim = req[p].claim
          /\ \A q \in Request \ {p} : req'[q] = req[q]
        BY <1>4, <1>a
    <2>2. ASSUME req[p].claim # NoToken
          PROVE  /\ Issued(req[p].claim)
                 /\ tok[req[p].claim].ver < version[tok[req[p].claim].user]
        <3>1. ClaimOK(p) /\ req[p].claim \in Token
            BY <2>2 DEF ServedInv, TypeOK, StateTypes, Handler
        <3>2. /\ Issued(req[p].claim)
              /\ tok[req[p].claim].ver # version[tok[req[p].claim].user]
            BY <1>4, <2>2, <3>1 DEF ClaimOK
        <3>3. tok[req[p].claim].ver <= version[tok[req[p].claim].user]
            BY <3>1, <3>2 DEF ServedInv, NoneAhead
        <3>4. tok[req[p].claim].ver \in Nat /\ version[tok[req[p].claim].user] \in Nat
            BY <3>1, <3>2 DEF TypeOK, NothingMissing, StateTypes, TokenRow
        <3> QED BY <3>2, <3>3, <3>4
    <2>3. ClaimOK(p)'
        BY <1>4, <2>1, <2>2 DEF ClaimOK, Issued
    <2> QED BY <1>4, <2>1, <2>3, QuietServed
<1>5. ASSUME NEW p \in Request, GoogleLink(p) \/ GoogleReread(p) \/ GoogleCreate(p)
      PROVE  ServedInv'
    <2>1. req[p].claim = NoToken /\ req[p].result = "none"
        BY <1>5 DEF GoogleLink, GoogleReread, GoogleCreate, ServedInv, ClaimOK, RunsUnanswered
    <2>2. UNCHANGED <<tok, version>>
        BY <1>5 DEF GoogleLink, GoogleReread, GoogleCreate
    <2>3. CASE Answer(p, "refused")
        BY <1>3, <2>1, <2>2, <2>3
    <2>4. CASE \/ req' = [req EXCEPT ![p].pc = "googleReread"]
               \/ req' = [req EXCEPT ![p].pc = "issue", ![p].ver = version[req[p].user]]
        <3>1. /\ req'[p].claim = NoToken /\ req'[p].result = "none"
              /\ \A q \in Request \ {p} : req'[q] = req[q]
            BY <2>1, <2>4 DEF TypeOK, StateTypes, Handler
        <3> QED BY <2>2, <3>1, QuietServed DEF ClaimOK
    <2> QED BY <1>5, <2>3, <2>4 DEF GoogleLink, GoogleReread, GoogleCreate
<1>6. ASSUME NEW p \in Request, IssueTokens(p)
      PROVE  ServedInv'
    <2>1. req[p].pc = "issue" /\ UNCHANGED version
        BY <1>6 DEF IssueTokens
    <2>2. CASE version[req[p].user] # req[p].ver /\ Answer(p, "refused") /\ UNCHANGED tok
        BY <1>4, <2>1, <2>2
    <2>3. ASSUME NEW t \in Token, ~Issued(t), NEW f, NEW u, u = req[p].user,
                 tok' = [tok EXCEPT ![t] = [state |-> "live", user |-> u, ver |-> version[u],
                                            family |-> f, expired |-> FALSE]],
                 Answer(p, "ok")
          PROVE  ServedInv'
        <3>1. /\ \A s \in Token \ {t} : tok'[s] = tok[s]
              /\ tok'[t].user = u /\ tok'[t].ver = version[u]
            BY <2>3 DEF TypeOK, StateTypes
        <3>2. u \in User /\ version[u] \in Nat /\ version \in [User -> Nat]
            BY <2>1, <2>3 DEF TypeOK, NothingMissing, StateTypes
        <3>3. /\ req'[p].claim = NoToken /\ req'[p].pc = "idle"
              /\ \A q \in Request \ {p} : req'[q] = req[q]
            BY <2>3, <1>a
        <3>4. ClaimOK(p)'
            BY <3>3 DEF ClaimOK
        <3>5. \A v \in User : version[v] <= version'[v]
            BY <2>1, <3>2
        <3>6. \A s \in Token : tok'[s].state # "unused" /\ ~Issued(s)
                               => tok'[s].ver <= version'[tok'[s].user]
            BY <2>1, <3>1, <3>2 DEF Issued
        <3>7. \A s \in Token : Issued(s) => tok'[s] = tok[s]
            BY <2>3, <3>1
        <3> QED BY <2>1, <3>2, <3>3, <3>4, <3>5, <3>6, <3>7, ServedStep DEF Issued
    <2> QED BY <1>6, <2>2, <2>3 DEF IssueTokens
<1>7. ASSUME NEW p \in Request, RefreshLoad(p)
      PROVE  ServedInv'
    <2>1. req[p].pc = "load" /\ UNCHANGED <<tok, version>>
        BY <1>7 DEF RefreshLoad
    <2>2. CASE req' = [req EXCEPT ![p].pc = "issue"]
        <3>1. /\ req'[p].claim = req[p].claim /\ req'[p].user = req[p].user
              /\ req'[p].ver = req[p].ver /\ req'[p].result = req[p].result
              /\ req'[p].pc = "issue" /\ \A q \in Request \ {p} : req'[q] = req[q]
            BY <2>2 DEF TypeOK, StateTypes, Handler
        <3>2. ClaimOK(p)' /\ req'[p].result = "none"
            BY <2>1, <3>1 DEF ServedInv, RunsUnanswered, ClaimOK, Issued
        <3> QED BY <2>1, <3>1, <3>2, QuietServed
    <2>3. CASE Answer(p, "refused") /\ ~(req[p].user # NoUser /\ version[req[p].user] = req[p].ver)
        <3>1. req[p].user \in User \/ req[p].claim = NoToken
            <4>1. ClaimOK(p) /\ req[p].claim \in Token \cup {NoToken}
                BY DEF ServedInv, TypeOK, StateTypes, Handler
            <4> QED BY <2>1, <4>1 DEF ClaimOK, TypeOK, NothingMissing
        <3> QED BY <1>4, <2>1, <2>3, <3>1
    <2> QED BY <1>7, <2>2, <2>3 DEF RefreshLoad
<1>8. ASSUME NEW p \in Request, RevokeFamily(p)
      PROVE  ServedInv'
    <2>1. req[p].claim = NoToken /\ Answer(p, "refused") /\ UNCHANGED version
        BY <1>8 DEF RevokeFamily, ServedInv, ClaimOK
    <2>2. PICK S \in SUBSET Token : Revoke(S)
        BY <1>8 DEF RevokeFamily
    <2>3. req'[p].claim = NoToken /\ req'[p].pc = "idle" /\ \A q \in Request \ {p} : req'[q] = req[q]
        BY <2>1, <1>a
    <2>4. ClaimOK(p)'
        BY <2>3 DEF ClaimOK
    <2> QED BY <2>1, <2>2, <2>3, <2>4, RevokeServed
<1>9. ASSUME NEW p \in Request, ResetRefuse(p) \/ Crash(p)
      PROVE  ServedInv'
    <2>1. ResetRefuse(p) => req[p].claim = NoToken
        BY DEF ResetRefuse, ServedInv, ClaimOK
    <2> QED BY <1>3, <1>9, <2>1 DEF ResetRefuse, Crash
<1>10. ASSUME NEW p \in Request, ResetWrite(p)
       PROVE  ServedInv'
    <2>1. req[p].claim = NoToken /\ req[p].result = "none" /\ UNCHANGED <<tok, version>>
        BY <1>10 DEF ResetWrite, ServedInv, ClaimOK, RunsUnanswered
    <2>2. /\ req'[p].claim = NoToken /\ req'[p].result = "none"
          /\ \A q \in Request \ {p} : req'[q] = req[q]
        BY <1>10, <2>1 DEF ResetWrite, TypeOK, StateTypes, Handler
    <2> QED BY <2>1, <2>2, QuietServed DEF ClaimOK
<1>11. ASSUME NEW p \in Request, ResetCommit(p)
       PROVE  ServedInv'
    <2>1. /\ Revoke(req[p].rows) /\ Answer(p, "ok") /\ req[p].user \in User
          /\ version' = [version EXCEPT ![req[p].user] = version[req[p].user] + 1]
        BY <1>11 DEF ResetCommit, TypeOK, NothingMissing
    <2>2. /\ version' \in [User -> Nat] /\ \A u \in User : version[u] <= version'[u]
        BY <2>1 DEF TypeOK, StateTypes
    <2>3. \A t \in Token : /\ tok'[t].user = tok[t].user /\ tok'[t].ver = tok[t].ver
                           /\ (tok'[t].state # "unused" <=> Issued(t))
        BY <2>1, RevokeEffect DEF Issued, Live
    <2>4. req'[p].claim = NoToken /\ req'[p].pc = "idle" /\ \A q \in Request \ {p} : req'[q] = req[q]
        BY <2>1, <1>a
    <2>5. ClaimOK(p)'
        BY <2>4 DEF ClaimOK
    <2> QED BY <2>2, <2>3, <2>4, <2>5, ServedStep
<1>12. ASSUME NEW t \in Token, Logout(t) \/ Expire(t)
       PROVE  ServedInv'
    <2>1. UNCHANGED <<req, version>>
        BY <1>12 DEF Logout, Expire
    <2>a. NoRequest \notin Request /\ \A q \in Request \ {NoRequest} : req'[q] = req[q]
        BY <2>1
    <2>2. CASE Logout(t)
        BY <2>1, <2>2, <2>a, RevokeServed DEF Logout
    <2>3. CASE Expire(t)
        <3>1. \A s \in Token : /\ tok'[s].user = tok[s].user /\ tok'[s].ver = tok[s].ver
                               /\ (tok'[s].state # "unused" <=> Issued(s))
            BY <2>3 DEF Expire, Issued, TypeOK, StateTypes, TokenRow
        <3>2. /\ version' \in [User -> Nat] /\ \A u \in User : version[u] <= version'[u]
            BY <2>1 DEF TypeOK, StateTypes
        <3> QED BY <2>1, <2>a, <3>1, <3>2, ServedStep
    <2> QED BY <1>12, <2>2, <2>3
<1>13. CASE UNCHANGED vars
    BY <1>13 DEF vars, ServedInv, NoneAhead, RunsUnanswered, ClaimOK, Issued
<1> QED
    BY <1>1, <1>2, <1>5, <1>6, <1>7, <1>8, <1>9, <1>10, <1>11, <1>12, <1>13
       DEF Next, Begin, Waiting, Running

\* A refresh that consumed a usable token is refused only when a reset changed
\* the account's credentials after that token was issued.  It holds for rows:
\* under the other shape of a result the claim loses what it claimed.
THEOREM ClaimsAreServed ==
    ASSUME Shape = "rows" PROVE Spec => []ClaimedRefreshIsServed
<1>1. TypeOK /\ ServedInv => ClaimedRefreshIsServed
    <2> SUFFICES ASSUME TypeOK, ServedInv, NEW p \in Request,
                        req[p].result = "refused", req[p].claim # NoToken
                 PROVE  tok[req[p].claim].ver # version[tok[req[p].claim].user]
        BY DEF ClaimedRefreshIsServed
    <2>1. ClaimOK(p) /\ req[p].claim \in Token
        BY DEF ServedInv, TypeOK, StateTypes, Handler
    <2>2. tok[req[p].claim].ver \in Nat /\ version[tok[req[p].claim].user] \in Nat
        BY <2>1 DEF ClaimOK, TypeOK, NothingMissing, StateTypes, TokenRow
    <2> QED BY <2>1, <2>2 DEF ClaimOK
<1>2. TypeOK /\ ServedInv /\ [Next]_vars => ServedInv'
    BY NextServed
<1> QED BY InitServed, <1>1, <1>2, TypeCorrect, PTL DEF Spec

-----------------------------------------------------------------------------
(* The run of both *)

\* A step of the run is a step of each, or leaves it alone.
LEMMA AccountSteps ==
    [SumNext]_<<explored, vars, recoveryVars>>
    => [Next]_vars /\ [Recovery!Next]_Recovery!vars /\ explored' = explored
BY DEF SumNext, recoveryVars, Recovery!vars

\* Every behaviour of the run is one of each.
LEMMA BothRun ==
    SumSpec => Spec /\ Recovery!Init /\ [][Recovery!Next]_Recovery!vars
<1>1. SumInit => Init /\ Recovery!Init
    BY DEF SumInit
<1>2. SumSpec => SumInit /\ [][SumNext]_<<explored, vars, recoveryVars>>
    BY PTL DEF SumSpec
<1> QED BY <1>1, <1>2, AccountSteps, PTL DEF Spec

\* The recovery's invariant holds throughout, from the assumption on the
\* constants alone.
LEMMA RecoveryKept == SumSpec => []RecoveryInv
<1>1. Recovery!Init => RecoveryInv
    BY InitRecovery, RecoverySound
<1>2. RecoveryInv /\ [Recovery!Next]_Recovery!vars => RecoveryInv'
    BY NextRecovery, RecoverySound
<1> QED BY <1>1, <1>2, BothRun, PTL

\* Both components keep to their types.
THEOREM AccountsTyped == SumSpec => []TypesOK
<1>1. RecoveryInv /\ TypeOK => TypesOK
    BY DEF RecoveryInv, TypesOK
<1> QED BY <1>1, RecoveryKept, BothRun, TypeCorrect, PTL

\* However many guesses are in flight, their failures do not add up to more
\* than the limit, and a code resets a password once: a guess has the row to
\* itself from its read to its commit.
THEOREM GuessesStayBounded == SumSpec => []GuessesBounded
<1>1. RecoveryInv => GuessesBounded
    BY DEF RecoveryInv, GuessesBounded
<1> QED BY <1>1, RecoveryKept, PTL

\* However many instances poll, one at a time mails a challenge within a lease,
\* and a late one neither silences a newer code nor ends another's claim.
THEOREM MailStaysLeased == SumSpec => []MailIsLeased
<1>1. RecoveryInv => MailIsLeased
    BY DEF RecoveryInv, MailIsLeased, Recovery!MailIsLeased
<1> QED BY <1>1, RecoveryKept, PTL
=============================================================================
