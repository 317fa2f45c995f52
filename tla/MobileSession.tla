--------------------------- MODULE MobileSession ---------------------------
(***************************************************************************)
(* The mobile app's session: API calls that meet an expired access token   *)
(* share one refresh, its answer is stored in memory and in the keychain,  *)
(* and sign-in, sign-out, lost answers and restarts of the app cut across. *)
(*                                                                         *)
(* The server's side is AuthSession's, one step per request.  A refresh    *)
(* token and the access token issued with it have one name.                *)
(***************************************************************************)
EXTENDS Naturals

CONSTANTS
    Call, NoCall,   \* API calls under way at once
    MaxTokens,      \* bound: token pairs the server issues
    MaxRestarts     \* bound: times the app is killed and started again

Token == 1..MaxTokens
None == 0                  \* nothing stored
Unknown == MaxTokens + 1   \* the cache of a process that has not read yet

\* What is assumed of the constants.
SoundConstants == NoCall \notin Call /\ MaxTokens \in Nat \ {0} /\ MaxRestarts \in Nat

VARIABLES
    sess,       \* sess[t]: the row of t, and the sign-in it descends from
    expired,    \* access tokens past their lifetime
    late,       \* refresh tokens in requests whose client no longer waits
    cache, keychain,   \* tokenStore
    call,       \* call[c]: an API call
    flight,     \* flight[c]: the refresh that c started
    inFlight,   \* refreshInFlight, named by the call that started it
    user,       \* the sign-in the screens show, 0 none
    boot,       \* the call that restores the session at the start, if any
    leaving,    \* the sign-out under way and the token it revokes
    restarts,   \* times the app was killed
    signedOut,  \* history: signed out, and not in again
    straddled,  \* history: a refresh of calls made before the sign-out ended after it
    doubtful,   \* history: tokens whose rotation was not awaited or not saved
    reused,     \* history: rotated tokens the server was presented again
    wronged     \* history: usable tokens a refused refresh threw away

server == <<sess, expired, late, reused>>
store == <<cache, keychain>>
calls == <<call, flight, inFlight>>
screens == <<user, boot, leaving, restarts, signedOut>>
histories == <<straddled, doubtful, wronged>>
vars == <<server, store, calls, screens, histories>>

Session == [state : {"none", "live", "used", "revoked"}, login : 0..MaxTokens]
Api == [pc : {"idle", "reading", "sent", "waiting"}, token : 0..MaxTokens,
        retried : BOOLEAN, on : Call \cup {NoCall}]
Flight == [pc : {"none", "reading", "sent", "answered"}, token : 0..MaxTokens,
           answer : 0..MaxTokens, old : BOOLEAN]

Quiet == [pc |-> "idle", token |-> None, retried |-> FALSE, on |-> NoCall]
Grounded == [pc |-> "none", token |-> None, answer |-> None, old |-> FALSE]
Stay == [pc |-> "no", token |-> None]

TypeOK ==
    /\ sess \in [Token -> Session]
    /\ expired \subseteq Token /\ late \subseteq Token
    /\ cache \in 0..Unknown /\ keychain \in 0..MaxTokens
    /\ call \in [Call -> Api] /\ flight \in [Call -> Flight]
    /\ inFlight \in Call \cup {NoCall}
    /\ user \in 0..MaxTokens /\ boot \in Call \cup {NoCall}
    /\ leaving \in [pc : {"no", "posted", "closing"}, token : 0..MaxTokens]
    /\ restarts \in 0..MaxRestarts /\ signedOut \in BOOLEAN /\ straddled \in BOOLEAN
    /\ doubtful \subseteq Token /\ reused \subseteq Token /\ wronged \subseteq Token
    \* who waits, waits for a refresh under way
    /\ \A c \in Call : call[c].pc = "waiting" =>
          call[c].on \in Call /\ flight[call[c].on].pc # "none"

Init ==
    /\ sess = [t \in Token |-> [state |-> "none", login |-> 0]]
    /\ expired = {} /\ late = {} /\ cache = None /\ keychain = None
    /\ call = [c \in Call |-> Quiet] /\ flight = [c \in Call |-> Grounded]
    /\ inFlight = NoCall /\ user = 0 /\ boot = NoCall /\ leaving = Stay
    /\ restarts = 0 /\ signedOut = FALSE /\ straddled = FALSE
    /\ doubtful = {} /\ reused = {} /\ wronged = {}

Fresh == {t \in Token : sess[t].state = "none"}
NewToken == CHOOSE t \in Fresh : \A s \in Fresh : t <= s
SignedInTo(t) == IF t = None THEN 0 ELSE sess[t].login

-----------------------------------------------------------------------------
(* The server *)

\* Rotation, or the revocation of the family of a token that is not live.
Rotate(t) ==
    IF sess[t].state = "live"
    THEN /\ Fresh # {}
         /\ sess' = [sess EXCEPT ![t].state = "used",
                       ![NewToken] = [state |-> "live", login |-> sess[t].login]]
         /\ UNCHANGED reused
    ELSE /\ sess' = [s \in Token |->
                       IF sess[s].login = sess[t].login /\ sess[s].state = "live"
                       THEN [sess[s] EXCEPT !.state = "revoked"] ELSE sess[s]]
         /\ reused' = IF sess[t].state = "used" THEN reused \cup {t} ELSE reused

\* An access token lives for minutes, a retry for seconds.
Expire(t) ==
    /\ sess[t].state # "none" /\ t \notin expired
    /\ \A c \in Call : ~call[c].retried
    /\ expired' = expired \cup {t}
    /\ UNCHANGED <<sess, late, reused, store, calls, screens, histories>>

\* A refresh arrives that its client has given up.
ServeLate(t) ==
    /\ t \in late /\ Rotate(t)
    /\ late' = late \ {t}
    /\ UNCHANGED <<expired, store, calls, screens, histories>>

-----------------------------------------------------------------------------
(* tokenStore *)

\* The first read of a process; if the keychain fails it finds nothing.
Load ==
    /\ cache = Unknown
    /\ cache' \in {keychain, None}
    /\ UNCHANGED <<server, keychain, calls, screens, histories>>

\* set: the cache at once, the keychain unless saving fails.
Store(t, saved) ==
    /\ cache' = t
    /\ keychain' = IF saved THEN t ELSE keychain
    /\ doubtful' = IF saved THEN doubtful ELSE doubtful \cup ({keychain} \ {None})

\* clear.  The variant forgets the cache.
KeychainOnly == keychain' = None /\ UNCHANGED cache
Clear == cache' = None /\ keychain' = None

-----------------------------------------------------------------------------
(* API calls *)

Issue(c) ==
    /\ user # 0 /\ call[c].pc = "idle" /\ flight[c].pc = "none"
    /\ call' = [call EXCEPT ![c] = [Quiet EXCEPT !.pc = "reading"]]
    /\ UNCHANGED <<server, store, flight, inFlight, screens, histories>>

\* The request interceptor; restoreSession asks nothing without a token.
Attach(c) ==
    /\ call[c].pc = "reading" /\ cache # Unknown
    /\ IF boot = c /\ cache = None /\ ~call[c].retried
       THEN call' = [call EXCEPT ![c] = Quiet] /\ boot' = NoCall
       ELSE /\ call' = [call EXCEPT ![c].pc = "sent", ![c].token = cache]
            /\ UNCHANGED boot
    /\ UNCHANGED <<server, store, flight, inFlight, user, leaving, restarts,
                   signedOut, histories>>

Accepted(c) == call[c].token # None /\ call[c].token \notin expired

\* A call ends; the one that restores the session ends that as well.
Done(c, login) ==
    /\ call' = [call EXCEPT ![c] = Quiet]
    /\ IF boot = c THEN boot' = NoCall /\ user' = login ELSE UNCHANGED <<boot, user>>

Answer(c) ==
    /\ call[c].pc = "sent" /\ Accepted(c)
    /\ Done(c, SignedInTo(call[c].token))
    /\ UNCHANGED <<server, store, flight, inFlight, leaving, restarts, signedOut,
                   histories>>

\* A timeout, no network, or an error that is not 401.
CallFails(c) ==
    /\ call[c].pc = "sent"
    /\ Done(c, 0)
    /\ UNCHANGED <<server, store, flight, inFlight, leaving, restarts, signedOut,
                   histories>>

\* A second 401 is final; restoreSession clears the store for it.
RefusedAgain(c) ==
    /\ call[c].pc = "sent" /\ ~Accepted(c) /\ call[c].retried
    /\ Done(c, 0)
    /\ IF boot = c THEN Clear ELSE UNCHANGED store
    /\ UNCHANGED <<server, flight, inFlight, leaving, restarts, signedOut, histories>>

\* refreshOnce joins the refresh under way or starts one.  The variant always
\* starts its own.
NeverJoins == FALSE
Joins == inFlight # NoCall

Refused(c) ==
    /\ call[c].pc = "sent" /\ ~Accepted(c) /\ ~call[c].retried
    /\ call' = [call EXCEPT ![c] = [pc |-> "waiting", token |-> None, retried |-> TRUE,
                                    on |-> IF Joins THEN inFlight ELSE c]]
    /\ IF Joins THEN UNCHANGED <<flight, inFlight>>
       ELSE /\ flight' = [flight EXCEPT ![c].pc = "reading",
                                        ![c].old = user = 0 /\ boot = NoCall]
            /\ inFlight' = c
    /\ UNCHANGED <<server, store, screens, histories>>

-----------------------------------------------------------------------------
(* The refresh *)

\* finally.  The variant leaves the promise behind when nothing was stored.
KeptUnlessStored(c, next) == IF next = "reading" THEN NoCall ELSE inFlight
Landed(c, next) == IF inFlight = c THEN NoCall ELSE inFlight

\* All who wait for the refresh go on: to the retry, or to their end.
Land(c, next) ==
    /\ flight' = [flight EXCEPT ![c] = Grounded]
    /\ inFlight' = Landed(c, next)
    /\ call' = [d \in Call |->
                  IF call[d].pc # "waiting" \/ call[d].on # c THEN call[d]
                  ELSE IF next = "idle" THEN Quiet
                  ELSE [call[d] EXCEPT !.pc = next, !.on = NoCall]]
    /\ boot' = IF next = "idle" /\ boot # NoCall /\ call[boot].on = c THEN NoCall ELSE boot

\* A refusal: each of them clears the store.  Nobody listens to the event that
\* is emitted then, so that the screens stay.
ThrowAway(c) ==
    /\ Land(c, "idle") /\ Clear
    /\ wronged' = IF cache \in Fresh \/ cache \notin Token \/ flight[c].old
                     \/ sess[cache].state # "live"
                  THEN wronged ELSE wronged \cup {cache}

FlightRead(c) ==
    /\ flight[c].pc = "reading" /\ cache # Unknown
    /\ IF cache = None THEN ThrowAway(c)
       ELSE /\ flight' = [flight EXCEPT ![c].pc = "sent", ![c].token = cache]
            /\ UNCHANGED <<call, inFlight, boot, store, wronged>>
    /\ UNCHANGED <<server, user, leaving, restarts, signedOut, straddled, doubtful>>

FlightServe(c) ==
    LET t == flight[c].token IN
    /\ flight[c].pc = "sent" /\ Rotate(t)
    /\ flight' = [flight EXCEPT ![c].pc = "answered",
                    ![c].answer = IF sess[t].state = "live" THEN NewToken ELSE None]
    /\ UNCHANGED <<expired, late, store, call, inFlight, screens, histories>>

\* If saving fails the calls end as if the network had failed.
FlightStores(c, saved) ==
    /\ flight[c].pc = "answered" /\ flight[c].answer # None
    /\ Store(flight[c].answer, saved)
    /\ Land(c, IF saved THEN "reading" ELSE "idle")
    /\ straddled' = (straddled \/ flight[c].old)
    /\ UNCHANGED <<server, user, leaving, restarts, signedOut, wronged>>

FlightRefused(c) ==
    /\ flight[c].pc = "answered" /\ flight[c].answer = None
    /\ ThrowAway(c)
    /\ UNCHANGED <<server, user, leaving, restarts, signedOut, straddled, doubtful>>

\* A timeout, no network or a 5xx keep the tokens.  The variant takes any
\* failure for a refusal.
TakenForRefusal(c) == ThrowAway(c)
Transient(c) == Land(c, "idle") /\ UNCHANGED <<store, wronged>>

FlightLost(c) ==
    /\ flight[c].pc \in {"sent", "answered"}
    /\ Transient(c)
    /\ late' = IF flight[c].pc = "sent" THEN late \cup {flight[c].token} ELSE late
    /\ doubtful' = doubtful \cup {flight[c].token}
    /\ UNCHANGED <<sess, expired, reused, user, leaving, restarts, signedOut, straddled>>

-----------------------------------------------------------------------------
(* Sign-in, sign-out, restart *)

\* If saving fails the screens report a failed sign-in, the cache has it.
Login(saved) ==
    /\ user = 0 /\ boot = NoCall /\ leaving = Stay /\ Fresh # {}
    /\ sess' = [sess EXCEPT ![NewToken] = [state |-> "live", login |-> NewToken]]
    /\ Store(NewToken, saved)
    /\ user' = IF saved THEN NewToken ELSE 0
    /\ signedOut' = FALSE /\ straddled' = FALSE
    /\ UNCHANGED <<expired, late, reused, calls, boot, leaving, restarts, wronged>>

\* A wrong password, or no network.
LoginRejected ==
    /\ user = 0 /\ boot = NoCall /\ leaving = Stay
    /\ UNCHANGED vars

LogoutRead ==
    /\ user # 0 /\ leaving = Stay /\ cache # Unknown
    /\ leaving' = [pc |-> IF cache = None THEN "closing" ELSE "posted", token |-> cache]
    /\ UNCHANGED <<server, store, calls, user, boot, restarts, signedOut, histories>>

\* POST /auth/logout: it revokes the token if it arrives, and is best-effort.
LogoutPost ==
    /\ leaving.pc = "posted"
    /\ sess' \in {sess, [sess EXCEPT ![leaving.token].state =
                           IF @ = "live" THEN "revoked" ELSE @]}
    /\ leaving' = [leaving EXCEPT !.pc = "closing"]
    /\ UNCHANGED <<expired, late, reused, store, calls, user, boot, restarts,
                   signedOut, histories>>

LogoutClear ==
    /\ leaving.pc = "closing"
    /\ Clear /\ user' = 0 /\ leaving' = Stay
    /\ signedOut' = TRUE /\ straddled' = FALSE
    /\ flight' = [c \in Call |-> IF flight[c].pc = "none" THEN flight[c]
                                 ELSE [flight[c] EXCEPT !.old = TRUE]]
    /\ UNCHANGED <<server, call, inFlight, boot, restarts, doubtful, wronged>>

\* The app is killed and started: requests on their way arrive unawaited.
Restart(c) ==
    /\ restarts < MaxRestarts /\ restarts' = restarts + 1
    /\ cache' = Unknown /\ inFlight' = NoCall
    /\ call' = [d \in Call |-> IF d = c THEN [Quiet EXCEPT !.pc = "reading"] ELSE Quiet]
    /\ flight' = [d \in Call |-> Grounded]
    /\ late' = late \cup {flight[d].token : d \in {e \in Call : flight[e].pc = "sent"}}
    /\ doubtful' = doubtful \cup {flight[d].token :
                     d \in {e \in Call : flight[e].pc \in {"sent", "answered"}}}
    /\ user' = 0 /\ boot' = c /\ leaving' = Stay
    /\ UNCHANGED <<sess, expired, reused, keychain, signedOut, straddled, wronged>>

Next ==
    \/ \E t \in Token : Expire(t) \/ ServeLate(t)
    \/ \E c \in Call :
         \/ Issue(c) \/ Attach(c) \/ Answer(c) \/ CallFails(c)
         \/ RefusedAgain(c) \/ Refused(c)
         \/ FlightRead(c) \/ FlightServe(c) \/ FlightRefused(c) \/ FlightLost(c)
         \/ \E saved \in BOOLEAN : FlightStores(c, saved)
         \/ Restart(c)
    \/ \E saved \in BOOLEAN : Login(saved)
    \/ LoginRejected \/ Load \/ LogoutRead \/ LogoutPost \/ LogoutClear

\* The app runs its continuations, and every request has a timeout.
Fairness ==
    /\ WF_vars(Load)
    /\ \A c \in Call : /\ WF_vars(Attach(c) \/ CallFails(c))
                       /\ WF_vars(FlightRead(c) \/ FlightLost(c))

Spec == Init /\ [][Next]_vars /\ Fairness

-----------------------------------------------------------------------------
(* Properties *)

\* However calls overlap, the server sees a rotated token again only if an
\* answer of its rotation was not awaited, or could not be saved.
ReuseOnlyAfterLoss == reused \subseteq doubtful

\* A failed refresh costs the session only what the server no longer accepts,
\* unless its calls were made before the user signed out.
OnlyDeadTokensGo == wronged = {}

\* Signing out leaves no token behind, not for the next start either, unless
\* a refresh for calls made before is answered after.
SignOutClears ==
    signedOut /\ ~straddled => keychain = None /\ cache \in {None, Unknown}

\* The pair of tokens is presented once, is not thrown away while it is good,
\* and does not outlive the sign-out.
TokensAreKept == ReuseOnlyAfterLoss /\ OnlyDeadTokensGo /\ SignOutClears

\* No call waits forever for a refresh: not behind one that failed, not behind
\* one that was never reset.
CallsEnd == \A c \in Call : []<>(call[c].pc = "idle")
=============================================================================
