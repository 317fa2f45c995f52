----------------------------- MODULE MCAccounts -----------------------------
(***************************************************************************)
(* Sessions, and the recovery of a password, in one run.  They share no    *)
(* variable: "explored" says from the first state on whose behaviour it    *)
(* is.  No fair action of the sessions is enabled in their first state;    *)
(* the recovery's fairness is stated for its own behaviours.               *)
(***************************************************************************)
EXTENDS AuthSession, TLC

CONSTANTS Worker, Guesser, MaxChallenges, Limit, Window, Cooldown, MaxGuesses, TTL,
          MaxClaims, Lease, Retry, Batch

VARIABLES explored, limit, pending, lastId, challenge, open, worker, log

Recovery == INSTANCE PasswordRecovery

ASSUME RecoverySound == Recovery!SoundConstants

recoveryVars == <<limit, pending, lastId, challenge, open, worker, log>>

SumInit == explored \in {"sessions", "recovery"} /\ Init /\ Recovery!Init

SumNext ==
    \/ /\ explored = "sessions" /\ Next
       /\ UNCHANGED <<explored, recoveryVars>>
    \/ /\ explored = "recovery" /\ Recovery!Next
       /\ UNCHANGED <<explored, vars>>

Recovering(A) == explored = "recovery" /\ A

SumSpec ==
    /\ SumInit /\ [][SumNext]_<<explored, vars, recoveryVars>>
    /\ Fairness
    /\ WF_recoveryVars(Recovering(Recovery!Tick))
    /\ \A g \in Guesser : WF_recoveryVars(Recovering(Recovery!Guessing(g)))
    /\ \A w \in Worker : WF_recoveryVars(Recovering(Recovery!Delivering(w)))

\* The two components' type invariants.
TypesOK == /\ explored = "sessions" => TypeOK
           /\ explored = "recovery" => Recovery!TypeOK

\* Guesses do not add up to more than the permitted failures.
GuessesBounded == explored = "recovery" => Recovery!GuessesBounded

\* One instance at a time mails a challenge, within a lease, and the stored
\* code stops being mailed when it was accepted or its claims are spent.
MailIsLeased == explored = "recovery" => Recovery!MailIsLeased

\* What has begun ends: no request of the sessions waits forever for a lock,
\* and no encrypted code stays in the database forever.
AccountsSettle == RequestsFinish /\ Recovery!PayloadCleared
=============================================================================
