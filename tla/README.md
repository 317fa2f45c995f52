# NEXUS: TLA+ models, model checking and proofs

NEXUS is a location-based social application: a NestJS backend on PostgreSQL, Redis and
Socket.IO (`src/apps/backend`), a React Native app (`src/apps/mobile`), an administration
site (`src/apps/admin`), a small web client (`src/web`) and shared types
(`src/packages/shared`). This directory models the parts of it whose correctness depends on
how handlers, transactions, sockets and clients interleave. Every action is translated from
the code; `PROJECT.json` names the lines of each definition.

`tlc -config X.cfg M` checks a run of `PROJECT.json`; `tlapm X_proofs.tla` checks the proofs
about the modules of a run (section 5).

## 1. Inventory

B stands for `apps/backend/src`, A for `apps/mobile/src`. The last column names the module.

| Component | State | Operations | Hard behaviour | Correct when | Module |
|---|---|---|---|---|---|
| Sessions, `B/modules/auth/auth.service.ts` | `users.auth_version`, `refresh_tokens` | register, login, Google sign-in, refresh, logout, reset's revocation | handlers are unrelated SQL statements racing the reset's transaction and each other | no session survives a reset; a rotation chain never forks; a refresh that consumed a token is served | AuthSession |
| Password recovery, `password-reset.service.ts` | limiter row, challenge row, outbox lease | request, guess, deliver | parallel guesses, several instances on one outbox, crashes between claim and acknowledgement | guesses bounded, code single-use, one sender per lease, payload erased | PasswordRecovery |
| Mobile session, `A/api/client.ts`, `tokenStore.ts`, `features/auth` | token pair in memory and keychain, the shared refresh | API call, refresh, sign-in, sign-out, restore | parallel 401s, lost answers, sign-out and kills in between | a rotated token is presented once, a good one is not thrown away, sign-out clears, calls end | MobileSession |
| Friends, follows, blocks, `B/modules/friends`, `blocks.service.ts` | `friend_requests`, `friendships`, `follows`, `user_blocks` | follow, request, accept, decline, cancel, unfriend, block | crossed requests, a block racing an acceptance | a friendship comes from a question that stands; a block leaves nothing | SocialGraph, Consent |
| Groups, `group-conversations.service.ts` | members and their roles | create, remove, leave, block, account deletion | succession of the owner, retried creation | one owner, no blocked pair, who left stays out | GroupMembership |
| Waves, `B/modules/interactions` | `waves`, `conversations`, Redis lock and result | wave | retries, lock expiry, crossed waves, insert race | match on both sides, a replayed answer is a stored one | WaveExchange |
| Dating, `dating.service.ts` | `dating_likes`, `dating_passes`, `dating_matches` | like, pass | overlapping transactions of the two sides, second thoughts | a mutual pair is matched, nobody else is, a like or a pass | DatingMatch |
| Chat rooms and blocks, `B/realtime/realtime.gateway.ts`, `chat.service.ts`, `blocks.service.ts` | adapter rooms, `conversations`, `messages` | connect, join, leave, send, block, unblock | awaits inside handlers; several sockets of one user | the evicted stay out, a request stays one message | ConversationRoom |
| Chat outbox, `A/features/chat`, `realtime/useSocket.ts` | message list, outbox, failed list, AsyncStorage | compose, acknowledge, drain, retry, save, hydrate | late answers, reconnects, kills | shown once, tracked until settled | ChatOutbox |
| Live location, `location-share.service.ts` and its sweep | `chat_location_sessions`, the `running` flag | start, update, stop, sweep | update against end and block, failing announcements | an end is final, the blocked see nothing, every share ends | LiveLocation |
| Verification, `id-verification.service.ts`, `verification.service.ts` | submissions, columns of `users` | submit, decide, confirm e-mail and phone | two administrators, late codes | a decision stands, the status is the latest submission's, no rung is lost | TrustLadder |
| Events, `B/modules/events` | attendees and count, confirmations, reviews | RSVP, confirm, review, hide, end | capacity, the clock and the host against waiting statements | seats capped and counted, reviewers were there, an end ends | EventAttendance |
| Gifts, gamification, challenges, achievements | wallet, `xp_events`, gifts, progress | send, award, increment, evaluate | record and credit apart, overlapping checks, cut-off tasks | ledger and wallet agree, paid once | XpLedger |
| Offers, `B/modules/listings/listings.service.ts` | `listings.status`, `trade_offers` | make, counter, respond, withdraw, edit status | stale reads, lock order of two acceptances | one sale, a buyer accepts the seller's amount only, nobody waits forever | OfferNegotiation |
| Expiry sweeps, `listings-expiry.service.ts`, `events-discovery-lifecycle.service.ts` | Redis lock and marker | minute sweep on every instance | lock outlived, instance stopped | published by one at a time, once, and at all | ExpirySweep |
| Pin sheet, `A/features/map` | reducer state, its request | taps, buttons, answers, socket events | answers and events of the pin before | shows and offers what the server has | PinInteraction |
| Map points, `A/features/discovery`, `B/modules/discovery`, `B/realtime/discovery-*` | snapshot per viewer and query, client cache, slice | query, difference, mutation, pan, refresh | aborts, out-of-order answers and events | baseline exact, news survives, quiet map is right | DiscoverySync |
| Presence, place queries, feed, stories, users, notifications, analytics, subscriptions, user interface | rows and queries | reads and single-statement writes | little | - | none (reasons in `PROJECT.json` and section 6) |

How they interact. The app calls REST handlers with a JWT and refreshes it through Sessions
(MobileSession is the client, AuthSession the server); Password recovery commits into Sessions'
tables in one transaction; a wave or a match opens the conversation that Chat rooms serve and
pays into the ledger; a block writes `user_blocks`, ends follows, friendships and questions, takes
the blocker out of groups, stops likes and live locations, and evicts sockets from rooms through
the Socket.IO Redis adapter. The outbox is the client of `chat:send`, the pin sheet the client of
waves, dating and blocks. Several API instances share PostgreSQL and Redis, and timers (mail
outbox, sweeps, expiry) run in each of them. A component sees the others through the rows it reads:
each module models the writes of others to those rows as actions of its own (`Block`, `DeleteAccount`,
`PeerLikes`), which may come between any two of its steps.

## 2. Modules

Common conventions. One action is one SQL statement, one Redis command or the part of a
handler between two awaits. PostgreSQL runs at READ COMMITTED: a statement sees what is
committed when it starts; a statement that needs a locked row waits, which is a guard. A
transaction's writes become visible in its commit action, and what it has locked meanwhile is
a function of the handlers' program counters. Every handler is a record of its locals
(`req[p]`, `worker[w]`, `slot[k]`) with a program counter; `Crash`, `Abort`, `Fail`, `...Lost` and
`...Fails` are the error paths. Variables marked *history* are read by properties only and by
no guard. A definition followed by "the variant ..." in its comment has a mutated form next to
it, used by no action, that a plausible slip in the code would produce.

### Accounts

**AuthSession** models `AuthService` and the session side of `PasswordResetService.reset`.
`tok[t]` is the row of a refresh token (state, user, family, version, expired), `version` is
`users.auth_version`, `userLock` the reset's `SELECT ... FOR UPDATE`, `req[p].rows` the token
rows its uncommitted `UPDATE` holds. The version a sign-in compares in `IssueTokens` is the one
its first statement read, as in the code. A family is named by its first token. The constant
`Shape` says what `db.query` returns for `UPDATE ... RETURNING`, which is TypeORM's and not the
repository's code: `"rows"` is what `refresh` reads and its unit tests mock, `"tuple"` is what
the locked version returns and other services of the repository unwrap. The theorems of the sessions
hold for both, except `ClaimsAreServed`, which needs `"rows"`.

**PasswordRecovery** models one account's limiter row, challenge row and mail outbox. Deadlines
are the time left and `Tick` lets time pass for all of them together. `worker[w]` is
`deliverPending` in instance w (its `delivering` flag makes it one call per instance),
`open` the guess whose transaction holds the row. A claim is named by its number among the
challenge's claims, as the random UUID names it in the code. `log` is history.

**MobileSession** models the app's side: `cache` and `keychain` are `tokenStore` (`Unknown` is a
process that has not read yet), `call[c]` an API call, `flight[c]` the refresh it started and
`inFlight` the one the others join. The server is AuthSession's with a request in one step:
`sess[t]` is a token's row. A request the client gave up may be served later (`late`). History
tells which tokens' rotation was never awaited or not saved, and which refreshes straddled a
sign-out: those are the losses the properties excuse. A restart drops everything but the keychain.

### People

**SocialGraph** models `FriendsService` and the graph's part of `BlocksService.block`. `row` are the
`friend_requests` with their partial unique index, `req[p].edges` and `pair` what an uncommitted
transaction has deleted. `loose` is history: pairs in which a handler that read the blocks before
the purge wrote after it, which the code permits. It implements **Consent**, the abstract
specification of a friendship: questions that stand, agreement to one of them, and endings. The
refinement mapping reads the standing questions from the pending rows (`Promise ==
INSTANCE Consent WITH asked <- ...`), and `KeepsConsent` is `Promise!Spec`: every statement and
commit is a step of Consent or a stutter.

**GroupMembership** models creation under a client request id (lookup, eligibility, pairs, insert),
removal and leaving with the succession (by join date, by id), the block that takes the blocker out
of shared groups, and account deletion. Users are numbers because the succession orders them.

**DatingMatch** models a like as one transaction (insert, which waits for the same row; the look for
the other side; the commit), announced before it commits, and a pass as two statements. `crossed`
and `mixed` record the overlaps the code does not exclude.

**TrustLadder** models submission and decision of an identity check, with the administrator's
idempotent retry, and the e-mail and phone rungs. `Shape` is the driver's result shape again: the
rungs read no result, and a decision reads `updated[0]`, which in the tuple is the array of rows and
true also when it is empty. That nobody descends is proved for both shapes; what a decision says is
checked and proved for `"rows"`, which the unit tests mock (section 3 says what the tuple does to it).

**XpLedger** models the award as the code runs it: a cap check, the insert of the `xp_events` row
under its dedupe key, the read of the level, the credit, the counters. `cut` names the awards a
failure cut off and where. Gifts debit in a transaction that locks the wallet and set off tasks.

### Content

**EventAttendance** models one event: RSVP with lock, seats and recount; confirmation; reviews and
their edit window; the host's hiding and end, the clock, blocks and account deletions. A locking
SELECT that waits is evaluated again only if the row was updated meanwhile (`changed`), which
decides what an answer that waited across the end sees.

**OfferNegotiation** models one listing. `respondToOffer` is a transaction of five steps: the
join that reads the listing in the statement's snapshot, the lock on the offer (whose columns
are read again after waiting), the update of the listing, the start of the update that declines
the others (which fixes the rows it will touch), its end with the commit. PostgreSQL's deadlock
detector is `DeadlockAbort`.

**ExpirySweep** models the sweep of one listing's expiry by overlapping workers: marker, lock with
its lifetime, second look at the marker, publication, marking, release by token. The events' sweep
runs the same protocol.

**WaveExchange** models two users, the idempotency lock and result under every context, and the
wave transaction. Rows age through the cooldown and the 14-day window; rows too old for any
statement may be dropped together, so that the bound on rows does not end the run.

### Chat, location and the map

**ConversationRoom** models a direct conversation: `room` is the adapter's room, `join[s]` and
`send[s]` the handlers in flight on socket s, `blocking[u]` a block request between its
statements. The eviction of the two users' sockets is one step. Delivery looks its recipients up
anew for each message and changes no state; it is left out.

**ChatOutbox** models the app's store for one conversation against a server that stores every
send. `list` counts the entries the conversation shows under an id (optimistic or stored),
`slot[k]` is a running send or drain. A send whose five seconds are over may still arrive
(`late`). An acknowledgement is accepted on a later connection too, which the real socket does
not do; this only adds behaviours to the passing runs.

**LiveLocation** models one sharer in one direct conversation. `row[s]` is the row of a session,
with the time left until `ends_at` and the quiet time since `last_updated_at`; `req[p]` is a start,
an update or a stop from any of the sharer's devices, `sweep[i]` the timer of instance i with the
sessions it has ended and not yet announced. An update reads the row, then checks the block and
the interval, then writes and announces, all by separate statements. `held` is history: the pair
was blocked at the write and has been since. The statement that ends at most `Batch` sessions
takes the oldest first in the code and any here, which adds behaviours. The lookup of an ended
session's recipients and its event are one step, as nothing depends on when the lookup ran.

**PinInteraction** models the machine of the selected pin: `at` its state, `c` its context, `inv` the
one request of a state, `heard` the pin the socket listeners were made for (they follow the pin
after a render), `stray` the requests of states that were left, which the server may serve all the
same, and `wire` the socket events under way. Lost answers are refused ones.

**DiscoverySync** models the client's hook and slice against the query's snapshot: `snap` is the
snapshot in Redis, `handler[s]` a request at the server, `baseline` and `cached` what the client
applies differences to, `news` the mutations heard since the request began, `wire` the socket events
in order. A resolution of a mutation runs beside others, as the publisher starts them.

**MC modules.** `MCLiveLocation` and `MCDiscoverySync` add symmetry sets. `MCAccounts`,
`MCConversationRoom`, `MCSocial`, `MCApp` and `MCProgress` explore several components in one run:
the variable `explored` says from the first state on whose behaviour it is, the others keep
their first state, and a property of a component is stated for its behaviours. Symmetry is used by
runs without a temporal property other than safety.

## 3. Runs

Eight passing runs check forty properties; a property that joins several named parts has a mutant
for each of them. Distinct states are TLC's:

| Run | Instance | States | Properties |
|---|---|---|---|
| accounts | sessions: 1 user, 3 tokens, 2 requests, 1 reset; recovery: 2 instances, 2 guesses, 2 challenges | 383 k | NoStaleSession, OneLivePerFamily, ClaimedRefreshIsServed, GuessesBounded, MailIsLeased, AccountsSettle |
| wave | 1 context, 3 waves, 2 commands | 372 k | MatchIsMutual, ReplayIsDurable, CommandsFinish |
| room | 2 messages, 2 sockets of the initiator, 1 of the other user; graph: 2 people, 2 handlers, 2 requests' rows | 2.1 M | EvictedStayOut, RequestSaysOneThing, FriendsConsent |
| location | 2 handlers, 2 sessions, 1 instance, batch of 1 | 626 k | BlockedSeeNothing, EndIsFinal, SharesEnd |
| social | dating: 2 people, 4 calls, 1 failure; groups: 3 members, 1 group; ladder: 2 users, 2 submissions; ledger: 2 users, 2 tasks, 2 gifts, 2 days, 1 failure; 2 handlers each | 1.1 M | LikesAreKept, GroupsAreKept, LadderStands, BooksBalance |
| app | outbox: 1 message, 2 sends or drains, 2 stored rows; sheet: 2 pins, 1 stray request; event: 2 guests, 1 seat, 2 handlers | 1.3 M | ShownOnce, PendingIsTracked, SheetIsRight, AttendanceIsFair |
| progress | session: 2 calls, 2 token pairs, 1 restart; sweeps: 2 workers, 2 versions, 1 failure; offers: 2 buyers, 2 handlers | 237 k | TokensAreKept, ExpiryIsSingle, RivalAcceptsExclude, BuyerAcceptsOnlyCounter, AllEnd |
| map | 2 plain queries, one filtered, one too large; 1 entity, 2 requests, 1 change, 3 gestures, 1 loss | 2.3 M | BaselineIsExactUnlessDrifted, QuietMapIsRight, LoadingEnds, AnswersAreTimely |

Each of them checks the type invariants too (TypeOK or TypesOK). What they show, by hazard:

- *Accounts*: a session cannot outlive a reset that it raced; parallel refreshes do not fork a chain;
  parallel guesses do not add up; a slow mail worker can neither end its successor's lease nor silence
  a newer code; nobody waits forever for the reset's locks, no encrypted code stays in the database.
- *People*: a friendship comes from a question that stands, whatever overlaps; a block that ran leaves
  nothing but what a handler past its check writes; succession never yields two owners or none;
  decisions of two administrators agree; matches are of mutual likes, and every mutual pair is matched
  unless the two likes overlapped; wallet and ledger agree except where a failure cut an award off.
- *Content*: the seat limit holds under concurrent answers and the count is right; no answer changes
  after the host's end; a hidden review stays; rival acceptances exclude each other except for an
  offer opened after the sweep; an expiry is published by one sweep at a time, once, and eventually.
- *App*: a message is shown once and none is left sending with nobody on it; late answers and events do
  not reach another pin's sheet; a rotated token is presented again only after a loss.
- *Map*: an answer is taken only for what the map shows, takes back no news, and a quiet map is right,
  except after the drift that `diff_baseline` shows.

Why the bounds are enough. Each hazard needs two or three handlers and a fixed number of rows:
a forked chain needs two refreshes and a third token; a stale session one sign-in, one reset and
an older token; the mail outbox two instances and a replaced challenge, with two claims, two
failures and deadlines long enough to be outlived (small limits stand for 5 guesses, 60 s, 15 min
and 1 h, and keep their order); two acceptances of rival offers two buyers; a lost match two
commands; an eviction race one socket against one block, a request that says two things two
sockets of its initiator; a friendship out of a dead question one question, its answer and its
withdrawal, with a second row for asking anew; a succession three members; two contradicting
decisions one submission, a stale status a second one; a like that is lost two calls, and second
thoughts two more; an oversold seat two guests; a double award two tasks, and a cap's rollover two
days; an end racing a late update one session and two handlers, with a second session for the batch;
a lost or doubled message the original send, a drain and a retry of the same message; a late answer
two pins; an order of answers two requests, one aborted. A user, an account or a conversation shares
no row with another one of its kind, so one is enough. Bounds are the constants named `Max...`, the
sizes of the sets, and the guards `TokensLeft` and `WavesLeft` (commented *bound*), which start a
handler only if it can finish. No run turns deadlock checking off.

Runs that end in a violation state what a document or comment of the repository says; each is a
finding of `PROJECT.json`.

| Run | Property | What the code does |
|---|---|---|
| auth_tuple | ClaimedRefreshIsServed | under the driver's real result shape a refresh consumes its token and answers 401 |
| offer_double_sale | OneBuyerPerSale | an acceptance that read the listing before another's commit sells it again |
| diff_baseline | BaselineIsExact | a query asked again is compared with the snapshot just stored for it, and the client applies that difference to another one |
| dating_lost_match | MutualIsMatched | two likes at once do not see each other, and nobody looks again |

Some behaviours are modelled and known to be possible but have no run of their own:

- a refresh between its claim and its insert adds a live token to a family revoked for reuse;
- a retry of a wave after the lock's 8 seconds stores a second wave;
- `chat:send` asks only whether the socket is in the room, and a pending conversation is never evicted,
  so that a message sent after a block is stored;
- the recovery limiter's rollover lets a request through inside the cooldown;
- a message is not in the outbox until its send has failed, so that a kill before then loses it; the
  server ignores `clientMessageId`, so that a send that arrives after its timeout is stored beside
  its retry (`StoreLate`);
- two starts of live location at once leave two active sessions, since no index forbids it;
- on the map, panning away and back within the debounce keeps the query key while the subscription
  missed events; a refresh of a query over the budget drops what was heard for the request under way,
  and leaves `loading` on if the user then pans back; a failed request keeps `lastFetchKey`. `strayed`
  marks these behaviours, and the properties exclude them by it;
- with the driver's tuple (`Shape = "tuple"` in TrustLadder) a decision that matches no pending
  submission, a second administrator's, a retry or one about a user who submitted nothing, still
  writes the user's status and level and tells them: TLC finds `StatusIsLatest` and `DecisionsAgree`
  violated within three states. The cause is the one `auth_tuple` shows;
- an award recorded and not credited stays so, since the retry is deduplicated (`cut`).

## 4. Fairness

Fairness is stated by the runs with a liveness property (accounts, wave, location, progress); the
safety properties are the same under it. Handlers are promise chains that Node runs to their end, so
a step that stays enabled is taken (WF). PostgreSQL queues the waiters of a row lock, so a step whose
lock is free again and again is not passed over for ever (SF for the waiting steps in AuthSession,
OfferNegotiation and WaveExchange). In PasswordRecovery `Tick` is fair because time passes,
`Delivering` because `setInterval` polls every five seconds in every instance, and a guess
because its transaction ends. In LiveLocation `Tick` and `Sweeping` are fair for the same reasons
(`setInterval` runs the sweep in every instance); a failing announcement, which ends the tick
early, is not. In ExpirySweep the sweeps and the lock's lifetime are fair (`LockExpires`). In
MobileSession the app's continuations are fair and every request has a timeout, so that a call or a
refresh gets an answer or fails (`Attach(c) \/ CallFails(c)`). Crashes, restarts, expiry of rows,
failures and everything a user decides are never fair.


## 5. Proofs

Every safety property that a passing run checks, each type invariant included, is a theorem for
all values of the constants. Eight modules hold the theorems. Each EXTENDS what its run checks, the
component itself or the MC module that puts several components into one run, so that a theorem
names the run's own specification (`Spec`, or `SumSpec` where components share a run) and its own
property. In the latter case a component's lemmas are stated through its instance
(`Ledger!TypeOK`), a lemma says that a step of the run is a step of one component and leaves the
others alone (`SocialSteps`, `AppSteps`, ...), and the theorems follow component by component.

They assume the components' `SoundConstants` (in AuthSession and LiveLocation `NullsAreFresh`,
`MaxVersionIsNat`, `ShapeIsKnown`, `NoSessionIsFresh`, `ParametersArePositive`): null values are
not members of their sets, bounds are naturals, the identifiers of messages and of rows differ
(ChatOutbox), the null user of GroupMembership is no handler, the two users of WaveExchange are two.
A passing run evaluates each of them. Three theorems have one more hypothesis. `RunTyped` has that
the sockets are finite in number, since it bounds what they send together. `ClaimsAreServed` and
`LadderStaysUp` have that `UPDATE ... RETURNING` answers with its rows (`Shape = "rows"`). The code
is written and unit-tested for that shape, and the locked driver does not give it: these two say
that the protocol is right once the result is unwrapped; the run `auth_tuple` shows, and section 3
says of the ladder, what happens until then. Every other theorem holds for both shapes; `RungsStayUp` is
the half of `LadderStaysUp` that does.

The argument is the same everywhere: an inductive invariant that names what the handlers under way
know of the rows, one lemma per action or group of actions, and PTL at the end. TLC has checked the
invariants on the runs' instances before. Where the code takes a first or a last one (the heir of a
group, the latest submission, the next token, the level of an amount), that there is one is proved
by a smallest counterexample, from the well-foundedness of the naturals. Where it counts, that what
it counts is finite is part of the invariant (`GiftsFit`, `EventInv`), as sets change by one member
a step.

| Module | Theorems | The invariant, and why the property needs it |
|---|---|---|
| Accounts_proofs, sessions | `TypeCorrect`, `StaleSessionsDie` (`NoStaleSession`), `ChainsNeverFork` (`OneLivePerFamily`), `ClaimsAreServed` (`ClaimedRefreshIsServed`) | `StaleInv`: a running reset holds its user's lock and its list has every live token (the list is read in one statement and the version raised in another). `ChainInv`: the family of a rotating handler was issued, so that a new login's family is nobody else's. `ServedInv`: who consumed a token goes on with its user and version, and no token is of a version still to come |
| Accounts_proofs, recovery | `GuessesStayBounded` (`GuessesBounded`), `MailStaysLeased` (`MailIsLeased`); with the sessions `AccountsTyped` (`TypesOK`) | `RecoveryInv`: one guess holds the row and the row counts the wrong ones of its challenge (`OneGuess`, `GuessesCounted`); an instance whose lease runs has the row's claim, the row's lease runs as long, and no two claims are equal (`LeasesKnown`, `ClaimsKnown`), so that a successor starts after the predecessor's lease and not before |
| Room_proofs, room | `EvictionHolds` (`EvictedStayOut`), `RequestsSayOneThing` (`RequestSaysOneThing`); with the graph `RunTyped` (`TypesOK`) | `EvictInv`: a room counts as emptied only under a standing block, so that the second lookup refuses; `GateInv`: whoever writes for the initiator of a request has counted none under the lock; `BoundInv`: the sends under way are counted with the messages |
| Room_proofs, graph | `FriendshipsKeepConsent` (`Graph!Spec => Graph!KeepsConsent`), `FriendsKeepConsent` (`FriendsConsent`: the refinement and `BlockClears`) | `ConsentInv`: an acceptance holds its row alone, the row is a standing question to its actor, and a question stands once; every action maps to Ask, Agree, End of Consent or a stutter. `ClearInv`: whatever is left of a blocked pair is in the hands of a purge under way that has read it, or of a handler that read the blocks before |
| LiveLocation_proofs | `TypeCorrect`, `EndsAreFinal` (`EndIsFinal`), `BlockedStayBlind` (`BlockedSeeNothing`) | an end is final because every write selects active rows, whatever was read before; `BlockInv`: a handler that wrote under a block still runs under it, so that its lookup finds nobody |
| Social_proofs, dating | `TypeCorrect`, `MatchesWereMutual`, `NoticesComeTrue`, `OnlyCrossedLikesAreLost`, `LastWordCounts`, and `SocialLikesKept` (`LikesAreKept`), their conjunction | `MatchInv`: a like found was there, a notice stands for a like that is kept; `CrossInv`: a transaction that missed the other's like overlapped it; `WordInv`: overlaps are known to both calls |
| Social_proofs, groups | `GroupsStayKept` (`GroupsAreKept`) | `GroupInv`: what a handler has read of a group under its lock is the group's still, and the heir it chose is the one there is (`GroupHandlersKnow`); no two hold or make one group (`LocksApart`, `MakersApart`); a group that a blocked pair shares is on the list of the block under way (`BlocksLeave`) |
| Social_proofs, ladder | `RungsStayUp` (`Ladder!LadderNeverDescends`), `LadderStaysUp` (`LadderStands`) | `LadderInv`: a pending submission is its user's last (`PendingIsLast`), so that a decision is about what the user's status shows; a decision is told by one handler, which holds it (`TellsAlone`, `ToldWhenDecided`) |
| Social_proofs, ledger | `LedgerBalanced` (`BooksBalance`); with the other three `SocialTyped` (`TypesOK`) | `LedgerInv`: no two tasks pay from one wallet, credit one award or hold the cap's row (`TasksApart`), the level read is one announced, the balance read is the wallet's, and what a failure cut off is what the rewards and totals lack (`CutKnown`) |
| App_proofs, sheet | `TypeCorrect`, `SheetStaysRight` (`SheetIsRight`) | `SheetInv`: the context is what the server last said of the pin, the answer under way belongs to the pin and layer it was asked for, the state has exactly one request, and events are noted before they are applied |
| App_proofs, outbox | `MessagesShownOnce` (`ShownOnce`), `PendingStaysTracked` (`PendingIsTracked`) | `OutboxInv`: what a drain has taken is kept still or shown no more (`Taken`), and the disk holds of a row what it holds of its entry (`Saved`), so that a restart finds both or neither |
| App_proofs, event | `AttendanceStaysFair` (`AttendanceIsFair`); with the other two `AppTyped` (`TypesOK`) | `EventInv`: one handler holds the event (`OneHolds`), and the seat it found free, the reviews it found missing and the host it found willing are so until it commits (`HandlersFair`) |
| Progress_proofs, offers | `TypeCorrect`, `RivalsExclude` (`RivalAcceptsExclude`), `BuyersTakeCounters` (`BuyerAcceptsOnlyCounter`) | `OfferInv`: a locked offer stays pending and answerable (`LockedStands`), by one response (`LocksExclude`); one acceptance holds the listing (`SellerHolds`); what is pending then is swept or opened late (`SweptOrLate`), and what is pending after a sale was opened late (`PendingIsLate`) |
| Progress_proofs, session | `TokensStayKept` (`TokensAreKept`) | `SessionInv`: one refresh is under way and its call waits for it (`OneFlight`); a rotated token is in the store only beside the answer that replaces it, or after a loss (`UsedIsDoubtful`); a refresh of the present user is for the token in the store (`FlownForUser`); after a sign-out whatever is under way is older (`QuitIsQuiet`) |
| Progress_proofs, sweep | `ExpiryStaysSingle` (`ExpiryIsSingle`); with the other two `ProgressTyped` (`TypesOK`) | `SweepInv`: a sweep that has not outlived its lock has it still, has found no marker, and what was published is marked or about to be |
| WaveExchange_proofs | `TypeCorrect` (`TypeOK`), `MatchesAreMutual` (`MatchIsMutual`), `ReplaysAreDurable` (`ReplayIsDurable`) | `LocalsKnown`: the wave a transaction answers is a stored one of the other user, and it has written the conversation exactly if it answers one; `RowsKnown`: an unused row says nothing, so that no local and no cache entry points at the row a commit fills |
| DiscoverySync_proofs | `TypeCorrect` (`TypeOK`), `BaselineStaysExact` (`BaselineIsExactUnlessDrifted`), `QuietMapStaysRight` (`QuietMapIsRight`), `LoadingStaysFounded` (`LoadingEnds`), `AnswersStayTimely` (`AnswersAreTimely`) | `SyncInv`: an entity of which nothing more is to be told is shown as the database has it, and the answer waited for, corrected by what was heard meanwhile, will show it so (`MapFollows`, `AnswerFollows`); its last event agrees with the database (`FanOutFollows`); what was heard is shown (`NewsShown`); loading waits for a request or for a change of the query (`Waits`) |

Only model-checked: the liveness properties (`AccountsSettle`, `CommandsFinish`, `SharesEnd`,
`AllEnd`), since liveness under fairness and ENABLED are out of the prover's reach. No definition
here is recursive, so that nothing depends on induction over data.

## 6. Not modelled

- Rendering, wording, logging, metrics, encryption, password hashing, geography, ranking and search;
  access tokens, which are stateless; pushes, events and rewards sent as side effects, except where
  a property names them.
- Presence (keys with a lifetime of two minutes; its hazard is listed), place queries, feed,
  trending, stories, profiles, notifications, alerts, geofences, analytics, subscriptions, social
  import, runtime configuration, the administration site and the web client: reads, single-statement
  writes or calls to external providers, with no step that another one could come between.
- Offers: creating, editing, deleting and searching listings. Mobile session: deleting the account.
- Waves: the inbox and the events sent. Rooms: event rooms and the location handlers of the gateway.
- Chat outbox: unread counters, previews, paging, logout.
- Verification: images and their clean-up; the code's sending and counting in Redis.
- Events: polls, rooms and creation. Gifts: the catalogue and the inbox.
- Pin sheet: a peer's mode and openness to dating, `USER_BLOCKED`, `PEER_MODE_CHANGED`.
- Map points: the subscription is taken to follow the query at once, and the hook to be enabled.
- Deletion of an account is modelled where it writes rows a property is about (GroupMembership,
  EventAttendance); elsewhere the queries that filter deleted users make it a refusal.

## 7. What is left

1. Compositions on shared rows: AuthSession with PasswordRecovery on one reset transaction, and
   AuthSession with MobileSession over a network that loses answers.
2. Presence: heartbeat, disconnect and the last socket of a user; event rooms and their access.
3. Proofs: liveness beyond TLC's instances, and the safety of what item 1 and 2 would add.
4. Abstract specifications, with their refinement, for the sale of a listing and for a mail that
   is sent at most a bounded number of times.
