----------------------------- MODULE MCProgress -----------------------------
(***************************************************************************)
(* What must come to an end, in one run: the app's calls under a single    *)
(* refresh, the sweep of expired listings, and offers that hold rows.      *)
(* They share no variable: "explored" says from the first state on whose   *)
(* behaviour it is.  No fair action is enabled in the first state of the   *)
(* components that are not explored.                                       *)
(***************************************************************************)
EXTENDS OfferNegotiation, TLC

CONSTANTS Call, NoCall, MaxTokens, MaxRestarts,
          Worker, NoWorker, MaxVersion, MaxFailures

VARIABLES explored,
          sess, expired, lateTokens, cache, keychain, call, flight, inFlight, user, boot,
          leaving, restarts, signedOut, straddled, doubtful, reused, wronged,
          version, lapsedAt, lock, done, sweep, sent, lapsed, unmarked, failures

Session == INSTANCE MobileSession WITH late <- lateTokens
Expiry == INSTANCE ExpirySweep WITH expired <- lapsedAt

ASSUME ProgressSound == Session!SoundConstants /\ Expiry!SoundConstants /\ SoundConstants

sessionVars == <<sess, expired, lateTokens, cache, keychain, call, flight, inFlight, user,
                 boot, leaving, restarts, signedOut, straddled, doubtful, reused,
                 wronged>>
expiryVars == <<version, lapsedAt, lock, done, sweep, sent, lapsed, unmarked, failures>>

SumInit ==
    /\ explored \in {"session", "expiry", "offers"}
    /\ Session!Init /\ Expiry!Init /\ Init

SumNext ==
    \/ /\ explored = "session" /\ Session!Next
       /\ UNCHANGED <<explored, expiryVars, vars>>
    \/ /\ explored = "expiry" /\ Expiry!Next
       /\ UNCHANGED <<explored, sessionVars, vars>>
    \/ /\ explored = "offers" /\ Next
       /\ UNCHANGED <<explored, sessionVars, expiryVars>>

SumSpec ==
    /\ SumInit /\ [][SumNext]_<<explored, sessionVars, expiryVars, vars>>
    /\ Session!Fairness /\ Expiry!Fairness /\ Fairness

\* The three components' type invariants.
TypesOK == /\ explored = "session" => Session!TypeOK
           /\ explored = "expiry" => Expiry!TypeOK
           /\ explored = "offers" => TypeOK

\* The app's tokens are presented once, kept while the server takes them, and
\* gone when the user has signed out.
TokensAreKept == explored = "session" => Session!TokensAreKept

\* One worker at a time publishes an expiry, and once.
ExpiryIsSingle == explored = "expiry" => Expiry!ExpiryIsSingle

\* What has begun ends: every call is answered, every expiry published, every
\* response to an offer done with its rows.
AllEnd == Session!CallsEnd /\ Expiry!ExpiryIsPublished /\ ResponsesFinish
=============================================================================
