------------------------------ MODULE XpLedger ------------------------------
(***************************************************************************)
(* Experience points: the ledger of awards and the wallet it funds, the    *)
(* gifts that spend the wallet, and the challenges and achievements that   *)
(* pay into it.                                                            *)
(*                                                                         *)
(* An award is recorded by one statement and credited by another, outside  *)
(* any transaction.  A gift's transaction locks the sender's wallet.       *)
(***************************************************************************)
EXTENDS Integers, FiniteSets

CONSTANTS
    User, NoUser,
    Request,          \* requests and detached tasks running at once
    Price,            \* what the catalog's gifts cost
    Worth,            \* Worth[kind]: XP an award of that kind is worth
    Cap,              \* daily cap of gift.received
    Target,           \* progress that completes the day's challenge
    Achievement,      \* 1: level 2 is reached, 2: a first match
    Earner,           \* users who match, play and unlock
    MaxGifts, MaxDay, \* bounds: gifts sent, days
    MaxFailures       \* bound: tasks cut off by a failure

\* The dedupe keys: the match of the pair, a gift, a day's challenge, and an
\* achievement.
Kind == {"match", "gift", "challenge", "achievement"}
Day == 1..MaxDay
DedupeKey == {<<"match", 0>>} \cup ({"gift"} \X (1..MaxGifts))
         \cup ({"challenge"} \X Day) \cup ({"achievement"} \X Achievement)
NoKey == <<"none", 0>>

\* What is assumed of the constants.
SoundConstants ==
    /\ NoUser \notin User /\ Earner \subseteq User /\ Achievement \subseteq {1, 2}
    /\ Price \subseteq Nat \ {0} /\ Worth \in [Kind -> Nat \ {0}]
    /\ Cap \in Nat /\ Target \in Nat \ {0}
    /\ MaxGifts \in Nat /\ MaxDay \in Nat \ {0} /\ MaxFailures \in Nat

VARIABLES
    day,
    event,      \* event[u][k]: xp_events rows of u under the key k
    today,      \* today[u]: gift.received rows of u created today
    rushed,     \* history: those of them checked against the cap while another
                \* one was past its check and not recorded yet
    total, spendable,   \* the columns of user_gamification
    announced,  \* announced[u]: the highest level u was told of
    spent,      \* spent[u]: cost of the gifts rows u has sent
    gifts,      \* number of gifts rows
    progress,   \* progress[u][d]: challenge_progress
    done,       \* <<u, key>>: challenges completed, achievements unlocked
    cut,        \* history: <<u, key>> a failure cut off, and at which step
    req         \* req[p]: locals of the task p runs

vars == <<day, event, today, rushed, total, spendable, announced, spent, gifts,
          progress, done, cut, req>>

Task == [pc : {"idle", "lock", "paid", "cap", "insert", "before", "credit",
               "bump", "stamp", "have", "level", "count", "unlock"},
         user : User \cup {NoUser}, peer : User \cup {NoUser},
         cost : Price \cup {0}, balance : Nat, key : DedupeKey \cup {NoKey},
         level : Nat, alone : BOOLEAN, day : Day \cup {0}, todo : SUBSET Achievement]

Tidy == [pc |-> "idle", user |-> NoUser, peer |-> NoUser, cost |-> 0, balance |-> 0,
         key |-> NoKey, level |-> 0, alone |-> TRUE, day |-> 0, todo |-> {}]

TypeOK ==
    /\ day \in Day
    /\ event \in [User -> [DedupeKey -> Nat]]
    /\ today \in [User -> Nat] /\ rushed \in [User -> Nat]
    /\ total \in [User -> Nat] /\ spendable \in [User -> Nat]
    /\ announced \in [User -> Nat] /\ spent \in [User -> Nat]
    /\ gifts \in 0..MaxGifts
    /\ progress \in [User -> [Day -> Nat]]
    /\ done \subseteq User \X DedupeKey
    /\ cut \subseteq User \X DedupeKey \X {"unpaid", "uncredited"}
    /\ req \in [Request -> Task]

Init ==
    /\ day = 1 /\ gifts = 0 /\ done = {} /\ cut = {}
    /\ event = [u \in User |-> [k \in DedupeKey |-> 0]]
    /\ today = [u \in User |-> 0] /\ rushed = [u \in User |-> 0]
    /\ spent = [u \in User |-> 0]
    /\ total = [u \in User |-> 0] /\ spendable = [u \in User |-> 0]
    /\ announced = [u \in User |-> 1]
    /\ progress = [u \in User |-> [d \in Day |-> 0]]
    /\ req = [p \in Request |-> Tidy]

Idle(p) == req[p].pc = "idle"
At(p, pc) == req[p].pc = pc
Become(p, t) == req' = [req EXCEPT ![p] = t]

walletVars == <<total, spendable, announced>>
ledgerVars == <<event, today, rushed>>
goalVars == <<progress, done>>

\* levelForXp: level l begins at 50 (l - 1)^2.
LevelOf(xp) == CHOOSE l \in 1..(xp + 1) : /\ 50 * (l - 1) * (l - 1) <= xp
                                          /\ xp < 50 * l * l

WalletHeld(u) == \E p \in Request : At(p, "paid") /\ req[p].user = u

-----------------------------------------------------------------------------
(* Gifts *)

\* Refusals (oneself, a block, an unknown gift or recipient) change nothing.
Send(p, s, r, cost) ==
    /\ Idle(p) /\ s # r
    /\ gifts + Cardinality({q \in Request : At(q, "lock") \/ At(q, "paid")}) < MaxGifts
    /\ Become(p, [Tidy EXCEPT !.pc = "lock", !.user = s, !.peer = r, !.cost = cost])
    /\ UNCHANGED <<day, ledgerVars, walletVars, spent, gifts, goalVars, cut>>

\* SELECT ... FOR UPDATE.  The variant reads without the lock.
ReadFree(u) == TRUE
WalletFree(u) == ~WalletHeld(u)

GiftLock(p) ==
    LET s == req[p].user IN
    /\ At(p, "lock") /\ WalletFree(s)
    /\ IF spendable[s] < req[p].cost THEN Become(p, Tidy)
       ELSE req' = [req EXCEPT ![p].pc = "paid", ![p].balance = spendable[s]]
    /\ UNCHANGED <<day, ledgerVars, walletVars, spent, gifts, goalVars, cut>>

\* The debit, the gifts row and the commit; spendable_xp >= 0 is a constraint
\* of the table.  The recipient's reward follows.
GiftCommit(p) ==
    LET s == req[p].user  c == req[p].cost IN
    /\ At(p, "paid")
    /\ IF c <= spendable[s]
       THEN /\ spendable' = [spendable EXCEPT ![s] = @ - c]
            /\ spent' = [spent EXCEPT ![s] = @ + c]
            /\ gifts' = gifts + 1
            /\ Become(p, [Tidy EXCEPT !.pc = "cap", !.user = req[p].peer,
                                      !.key = <<"gift", gifts + 1>>])
       ELSE Become(p, Tidy) /\ UNCHANGED <<spendable, spent, gifts>>
    /\ UNCHANGED <<day, ledgerVars, total, announced, goalVars, cut>>

-----------------------------------------------------------------------------
(* Awards *)

\* A match rewards each of the two under the key of their conversation.
Match(p, u) ==
    /\ Idle(p)
    /\ Become(p, [Tidy EXCEPT !.pc = "insert", !.user = u, !.key = <<"match", 0>>])
    /\ UNCHANGED <<day, ledgerVars, walletVars, spent, gifts, goalVars, cut>>

\* The variant awards whatever today's count.
UncappedBy(u) == TRUE
BelowCap(u) == today[u] < Cap

CapCheck(p) ==
    /\ At(p, "cap")
    /\ IF BelowCap(req[p].user)
       THEN req' = [req EXCEPT ![p].pc = "insert", ![p].alone =
                      \A q \in Request : ~(At(q, "insert") /\ req[q].key[1] = "gift"
                                            /\ req[q].user = req[p].user)]
       ELSE Become(p, Tidy)
    /\ UNCHANGED <<day, ledgerVars, walletVars, spent, gifts, goalVars, cut>>

\* What a task does after an award: an achievement's goes on with the rest.
After(t) == IF t.todo = {} THEN Tidy
            ELSE [Tidy EXCEPT !.pc = "unlock", !.user = t.user, !.todo = t.todo]

\* ON CONFLICT (user_id, dedupe_key) DO NOTHING.  The variant inserts again.
InsertAgain(u, k) == FALSE
Recorded(u, k) == event[u][k] > 0

Insert(p) ==
    LET u == req[p].user  k == req[p].key IN
    /\ At(p, "insert")
    /\ IF Recorded(u, k)
       THEN Become(p, After(req[p])) /\ UNCHANGED ledgerVars
       ELSE /\ event' = [event EXCEPT ![u][k] = @ + 1]
            /\ today' = [today EXCEPT ![u] = IF k[1] = "gift" THEN @ + 1 ELSE @]
            /\ rushed' = [rushed EXCEPT ![u] = IF req[p].alone THEN @ ELSE @ + 1]
            /\ req' = [req EXCEPT ![p].pc = "before", ![p].alone = TRUE]
    /\ UNCHANGED <<day, walletVars, spent, gifts, goalVars, cut>>

ReadLevel(p) ==
    /\ At(p, "before")
    /\ req' = [req EXCEPT ![p].pc = "credit", ![p].balance = total[req[p].user],
                          ![p].level = LevelOf(total[req[p].user])]
    /\ UNCHANGED <<day, ledgerVars, walletVars, spent, gifts, goalVars, cut>>

\* The upsert adds to what is there.  The variants add to what was read, and
\* read the previous level after the upsert.
AddedToRead(p) == req[p].balance + Worth[req[p].key[1]]
Added(p) == total[req[p].user] + Worth[req[p].key[1]]

PreviousLate(p) == LevelOf(Added(p))
Previous(p) == req[p].level

Credit(p) ==
    LET u == req[p].user IN
    /\ At(p, "credit") /\ ~WalletHeld(u)
    /\ total' = [total EXCEPT ![u] = Added(p)]
    /\ spendable' = [spendable EXCEPT ![u] = @ + Worth[req[p].key[1]]]
    /\ announced' = [announced EXCEPT ![u] =
                       IF LevelOf(Added(p)) > Previous(p)
                       THEN IF @ > LevelOf(Added(p)) THEN @ ELSE LevelOf(Added(p))
                       ELSE @]
    /\ Become(p, After(req[p]))
    /\ UNCHANGED <<day, ledgerVars, spent, gifts, goalVars, cut>>

-----------------------------------------------------------------------------
(* The day's challenge *)

Increment(p, u) ==
    /\ Idle(p)
    /\ Become(p, [Tidy EXCEPT !.pc = "bump", !.user = u, !.day = day])
    /\ UNCHANGED <<day, ledgerVars, walletVars, spent, gifts, goalVars, cut>>

\* The variant's reward is keyed by the challenge alone.
KeyOfChallenge(d) == <<"challenge", 1>>
ChallengeKey(d) == <<"challenge", d>>

\* Progress past the target is not told apart from one more.
Bump(p) ==
    LET u == req[p].user  d == req[p].day IN
    /\ At(p, "bump")
    /\ progress' = [progress EXCEPT ![u][d] = IF @ > Target THEN @ ELSE @ + 1]
    /\ IF <<u, <<"challenge", d>>>> \in done \/ progress'[u][d] < Target
       THEN Become(p, Tidy)
       ELSE req' = [req EXCEPT ![p].pc = "stamp"]
    /\ UNCHANGED <<day, ledgerVars, walletVars, spent, gifts, done, cut>>

\* UPDATE ... WHERE completed_at IS NULL RETURNING: the driver answers with a
\* pair, whose length is never 0, so that every crossing goes on to the award.
Stamp(p) ==
    LET u == req[p].user  d == req[p].day IN
    /\ At(p, "stamp")
    /\ done' = done \cup {<<u, <<"challenge", d>>>>}
    /\ req' = [req EXCEPT ![p].pc = "insert", ![p].key = ChallengeKey(d)]
    /\ UNCHANGED <<day, ledgerVars, walletVars, spent, gifts, progress, cut>>

-----------------------------------------------------------------------------
(* Achievements *)

Evaluate(p, u) ==
    /\ Idle(p)
    /\ Become(p, [Tidy EXCEPT !.pc = "level", !.user = u,
                    !.todo = {a \in Achievement : <<u, <<"achievement", a>>>> \notin done}])
    /\ UNCHANGED <<day, ledgerVars, walletVars, spent, gifts, goalVars, cut>>

EvaluateLevel(p) ==
    /\ At(p, "level")
    /\ req' = [req EXCEPT ![p].pc = "count", ![p].todo =
                 IF LevelOf(total[req[p].user]) >= 2 THEN @ ELSE @ \ {1}]
    /\ UNCHANGED <<day, ledgerVars, walletVars, spent, gifts, goalVars, cut>>

EvaluateCount(p) ==
    LET left == IF event[req[p].user][<<"match", 0>>] > 0 THEN req[p].todo
                ELSE req[p].todo \ {2} IN
    /\ At(p, "count")
    /\ Become(p, IF left = {} THEN Tidy
                 ELSE [Tidy EXCEPT !.pc = "unlock", !.user = req[p].user, !.todo = left])
    /\ UNCHANGED <<day, ledgerVars, walletVars, spent, gifts, goalVars, cut>>

\* INSERT ... ON CONFLICT DO NOTHING, in the catalog's order; the reward of an
\* inserted row follows.
Unlock(p) ==
    LET u == req[p].user
        a == CHOOSE b \in req[p].todo : \A c \in req[p].todo : b <= c
        rest == [req[p] EXCEPT !.todo = @ \ {a}] IN
    /\ At(p, "unlock")
    /\ IF <<u, <<"achievement", a>>>> \in done THEN Become(p, After(rest))
       ELSE Become(p, [rest EXCEPT !.pc = "insert", !.key = <<"achievement", a>>])
    /\ done' = done \cup {<<u, <<"achievement", a>>>>}
    /\ UNCHANGED <<day, ledgerVars, walletVars, spent, gifts, progress, cut>>

-----------------------------------------------------------------------------

\* A statement fails or the process stops: what the task had left to do is
\* never taken up again.
Fail(p) ==
    /\ ~Idle(p) /\ Cardinality(cut) < MaxFailures
    /\ cut' = cut \cup
         (IF At(p, "before") \/ At(p, "credit")
          THEN {<<req[p].user, req[p].key, "uncredited">>}
          ELSE IF At(p, "insert") /\ ~Recorded(req[p].user, req[p].key)
               THEN {<<req[p].user, req[p].key, "unpaid">>} ELSE {})
    /\ Become(p, Tidy)
    /\ UNCHANGED <<day, ledgerVars, walletVars, spent, gifts, goalVars>>

Midnight ==
    /\ day < MaxDay
    /\ day' = day + 1
    /\ today' = [u \in User |-> 0] /\ rushed' = today'
    /\ UNCHANGED <<event, walletVars, spent, gifts, goalVars, cut, req>>

Next ==
    \/ \E p \in Request :
         \/ \E u \in Earner : Match(p, u) \/ Increment(p, u) \/ Evaluate(p, u)
         \/ \E s \in User, r \in User, c \in Price : Send(p, s, r, c)
         \/ GiftLock(p) \/ GiftCommit(p) \/ CapCheck(p) \/ Insert(p)
         \/ ReadLevel(p) \/ Credit(p) \/ Bump(p) \/ Stamp(p)
         \/ EvaluateLevel(p) \/ EvaluateCount(p) \/ Unlock(p) \/ Fail(p)
    \/ Midnight

Spec == Init /\ [][Next]_vars

-----------------------------------------------------------------------------
(* Properties *)

\* Rows of the ledger that have not reached the wallet: a task is about to
\* credit them, or never will.
Uncredited(u) ==
    {k \in DedupeKey : \/ <<u, k, "uncredited">> \in cut
                 \/ \E p \in Request : /\ At(p, "before") \/ At(p, "credit")
                                       /\ req[p].user = u /\ req[p].key = k}

\* The wallet agrees with the ledger: what was awarded and not cut off is in
\* total_xp, and spendable_xp is that less the gifts sent, whatever overlaps.
LedgerBalances ==
    \A u \in User :
        LET paid == {k \in DedupeKey : event[u][k] > 0} \ Uncredited(u)
            Of(kind) == Cardinality({k \in paid : k[1] = kind})
        IN
        /\ total[u] = Worth["match"] * Of("match") + Worth["gift"] * Of("gift")
                       + Worth["challenge"] * Of("challenge")
                       + Worth["achievement"] * Of("achievement")
        /\ spendable[u] = total[u] - spent[u]

\* A match, a gift, a day's challenge and an achievement pay a user once,
\* although every crossing of the target believes to be the first.
PaidOnce == \A u \in User, k \in DedupeKey : event[u][k] <= 1

\* The balance a gift is checked against, and its sender is told the rest of,
\* is the wallet's until the debit commits.
BalanceIsCurrent ==
    \A p \in Request : At(p, "paid") => req[p].balance = spendable[req[p].user]

\* A completed challenge or an unlocked achievement is paid, about to be paid,
\* or was cut off by a failure.
RewardsFollow ==
    \A e \in done :
        \/ event[e[1]][e[2]] > 0
        \/ <<e[1], e[2], "unpaid">> \in cut
        \/ \E p \in Request : /\ At(p, "insert")
                              /\ req[p].user = e[1] /\ req[p].key = e[2]

\* The cap of a day is exceeded by the awards whose checks overlapped, and by
\* no other.
CapHolds == \A u \in User : today[u] <= Cap + rushed[u]

\* No level is reached without its user being told, although the previous
\* level is read long before the credit.
LevelsAreTold == \A u \in User : LevelOf(total[u]) <= announced[u]

\* The books balance, whatever overlaps or is cut off: wallet and ledger agree,
\* nothing is paid twice or beyond the cap or from a balance that is gone, and
\* what was earned is paid and told.
BooksBalance ==
    /\ LedgerBalances
    /\ PaidOnce
    /\ BalanceIsCurrent
    /\ RewardsFollow
    /\ CapHolds
    /\ LevelsAreTold
=============================================================================
