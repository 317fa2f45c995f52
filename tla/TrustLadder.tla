----------------------------- MODULE TrustLadder -----------------------------
(***************************************************************************)
(* The verification ladder of a user: e-mail and phone by one-time codes,  *)
(* identity by a submission that an administrator decides.  All three      *)
(* write the same users row.                                               *)
(*                                                                         *)
(* A transaction is one action: its second statement is on a row nobody    *)
(* reads before the commit.  Whether a presented code is accepted depends  *)
(* on Redis, Twilio and development switches and is a choice.              *)
(***************************************************************************)
EXTENDS Naturals, FiniteSets

CONSTANTS
    User, Phone,
    Request,         \* handlers in flight at once
    NoUser, NoPhone,
    MaxSubmissions,  \* bound: submissions stored
    Shape            \* what the driver returns for UPDATE ... RETURNING

\* What is assumed of the constants.
SoundConstants ==
    /\ NoUser \notin User /\ NoPhone \notin Phone
    /\ Shape \in {"rows", "tuple"}
    /\ MaxSubmissions \in Nat

\* Submissions are numbered in the order of created_at.
Submission == 1..MaxSubmissions
NoSubmission == 0

VARIABLES
    user,   \* user[u]: the columns of users the ladder reads and writes
    sub,    \* sub[s]: the user_id_verifications row
    told,   \* told[s]: decisions of s pushed to its user
    req     \* req[p]: locals of the handler p runs

vars == <<user, sub, told, req>>

Decision == {"verified", "rejected"}
Account == [level : {"none", "email", "phone", "id"},
            status : {"none", "pending"} \cup Decision,
            email : BOOLEAN,
            phone : Phone \cup {NoPhone}]
Row == [owner : User \cup {NoUser}, state : {"unused", "pending"} \cup Decision]

Handler == [pc : {"idle", "upload", "told", "reread", "answer", "email", "phone"},
            user : User \cup {NoUser},
            phone : Phone \cup {NoPhone},
            decision : Decision \cup {"none"},
            sub : Submission \cup {NoSubmission}]

Tidy == [pc |-> "idle", user |-> NoUser, phone |-> NoPhone,
         decision |-> "none", sub |-> NoSubmission]

TypeOK ==
    /\ user \in [User -> Account]
    /\ sub \in [Submission -> Row]
    /\ told \in [Submission -> 0..2]
    /\ req \in [Request -> Handler]
    /\ \A p \in Request : req[p].pc # "idle" => req[p].user \in User
    /\ \A s \in Submission : sub[s].state # "unused" <=> sub[s].owner \in User

Init ==
    /\ user = [u \in User |-> [level |-> "none", status |-> "none",
                               email |-> FALSE, phone |-> NoPhone]]
    /\ sub = [s \in Submission |-> [owner |-> NoUser, state |-> "unused"]]
    /\ told = [s \in Submission |-> 0]
    /\ req = [p \in Request |-> Tidy]

Idle(p) == req[p].pc = "idle"
Become(p, h) == req' = [req EXCEPT ![p] = h]
Answer(p) == Become(p, Tidy)

Of(u) == {s \in Submission : sub[s].owner = u}
Pending(u) == {s \in Of(u) : sub[s].state = "pending"}

\* ORDER BY created_at DESC LIMIT 1.
Latest(S) == IF S = {} THEN NoSubmission
             ELSE CHOOSE s \in S : \A t \in S : t <= s

-----------------------------------------------------------------------------
(* E-mail and phone *)

\* Each check keeps a higher level.  The variant writes its own rung.
Lower(u, rung) == rung
Rung(u, rung) ==
    IF \/ user[u].level = "id"
       \/ user[u].level = "phone" /\ rung = "email"
    THEN user[u].level ELSE rung

CheckEmail(p, u) ==
    /\ Idle(p) /\ ~user[u].email
    /\ Become(p, [Tidy EXCEPT !.pc = "email", !.user = u])
    /\ UNCHANGED <<user, sub, told>>

EmailWrite(p) ==
    /\ req[p].pc = "email"
    /\ LET u == req[p].user IN
         user' = [user EXCEPT ![u].email = TRUE, ![u].level = Rung(u, "email")]
    /\ Answer(p)
    /\ UNCHANGED <<sub, told>>

CheckPhone(p, u, n) ==
    /\ Idle(p)
    /\ Become(p, [Tidy EXCEPT !.pc = "phone", !.user = u, !.phone = n])
    /\ UNCHANGED <<user, sub, told>>

\* The unique index turns a number somebody else holds into a conflict.
PhoneWrite(p) ==
    /\ req[p].pc = "phone"
    /\ LET u == req[p].user IN
         IF \E v \in User \ {u} : user[v].phone = req[p].phone
         THEN UNCHANGED user
         ELSE user' = [user EXCEPT ![u].phone = req[p].phone,
                                   ![u].level = Rung(u, "phone")]
    /\ Answer(p)
    /\ UNCHANGED <<sub, told>>

-----------------------------------------------------------------------------
(* Submitting *)

Eligible(u) == user[u].status \notin {"pending", "verified"}

Submit(p, u) ==
    /\ Idle(p) /\ Eligible(u)
    /\ Become(p, [Tidy EXCEPT !.pc = "upload", !.user = u])
    /\ UNCHANGED <<user, sub, told>>

\* After uploads and analysis, which take seconds, the row is inserted: one
\* pending row per user is all the unique index asks for.  The variant
\* believes the first check and has no index.
StoreUnchecked(p, s) == TRUE
MayStore(p, s) == Pending(req[p].user) = {}

SubmitStore(p) ==
    /\ req[p].pc = "upload"
    /\ LET u == req[p].user  free == {s \in Submission : sub[s].owner = NoUser} IN
       \E s \in free :
         /\ \A t \in free : s <= t
         /\ IF MayStore(p, s)
            THEN /\ sub' = [sub EXCEPT ![s] = [owner |-> u, state |-> "pending"]]
                 /\ user' = [user EXCEPT ![u].status = "pending"]
            ELSE UNCHANGED <<sub, user>>
    /\ Answer(p)
    /\ UNCHANGED told

-----------------------------------------------------------------------------
(* Deciding *)

\* The conditional UPDATE and, if it seems to have matched, the user's row.
\* In the driver's tuple shape updated[0] is an array, also when no row matched.
Matched(u) == Shape = "tuple" \/ Pending(u) # {}

Promote(u, d) ==
    user' = [user EXCEPT ![u].status = d,
                         ![u].level = IF d = "verified" THEN "id" ELSE @]

Decide(p, u, d) ==
    /\ Idle(p)
    /\ LET s == Latest(Pending(u)) IN
       IF Matched(u)
       THEN /\ sub' = [t \in Submission |->
                         IF t = s THEN [sub[t] EXCEPT !.state = d] ELSE sub[t]]
            /\ Promote(u, d)
            /\ Become(p, [Tidy EXCEPT !.pc = "told", !.user = u,
                                      !.decision = d, !.sub = s])
       ELSE /\ Of(u) # {}
            /\ Become(p, [Tidy EXCEPT !.pc = "reread", !.user = u,
                                      !.decision = d])
            /\ UNCHANGED <<user, sub>>
    /\ UNCHANGED told

Notify(p) ==
    /\ req[p].pc = "told"
    /\ told' = [s \in Submission |-> IF s = req[p].sub THEN told[s] + 1
                                                       ELSE told[s]]
    /\ req' = [req EXCEPT ![p].pc = "answer"]
    /\ UNCHANGED <<user, sub>>

\* A retry of a decision that has been taken is answered with it and tells
\* nobody.  The variant goes through the notification again.
RetryTells == "told"
RetryAnswers == "answer"

Reread(p) ==
    /\ req[p].pc = "reread"
    /\ LET s == Latest(Of(req[p].user)) IN
       IF sub[s].state = req[p].decision
       THEN req' = [req EXCEPT ![p].pc = RetryAnswers, ![p].sub = s]
       ELSE Answer(p)
    /\ UNCHANGED <<user, sub, told>>

\* The administrator has the answer "decided so".
Return(p) ==
    /\ req[p].pc = "answer"
    /\ Answer(p)
    /\ UNCHANGED <<user, sub, told>>

\* An upload, a statement or a push fails, or the process stops.
Fail(p) ==
    /\ ~Idle(p)
    /\ Answer(p)
    /\ UNCHANGED <<user, sub, told>>

-----------------------------------------------------------------------------

Next ==
    \E p \in Request :
       \/ \E u \in User :
            \/ CheckEmail(p, u) \/ Submit(p, u)
            \/ \E n \in Phone : CheckPhone(p, u, n)
            \/ \E d \in Decision : Decide(p, u, d)
       \/ EmailWrite(p) \/ PhoneWrite(p) \/ SubmitStore(p)
       \/ Notify(p) \/ Reread(p) \/ Return(p) \/ Fail(p)

Spec == Init /\ [][Next]_vars

-----------------------------------------------------------------------------
(* Properties *)

Rank(l) == CASE l = "none" -> 0 [] l = "email" -> 1 [] l = "phone" -> 2
             [] l = "id" -> 4

\* Nobody loses a rung: a late e-mail or phone check, a rejection or a new
\* submission leaves a higher level of another handler as it is.
LadderNeverDescends ==
    [][\A u \in User : Rank(user'[u].level) >= Rank(user[u].level)]_vars

\* The status on the user is the one of the latest submission, whichever
\* uploads and decisions overlapped, and a rung has what it stands for.
StatusIsLatest ==
    \A u \in User :
        LET s == Latest(Of(u)) IN
        /\ user[u].status = IF s = NoSubmission THEN "none" ELSE sub[s].state
        /\ user[u].level = "id" => \E t \in Of(u) : sub[t].state = "verified"
        /\ user[u].level = "phone" => user[u].phone \in Phone
        /\ user[u].level = "email" => user[u].email

\* Two administrators, or one retrying, never contradict each other: who was
\* told a decision was taken finds it on the submission, pushed at most once.
DecisionsAgree ==
    /\ \A p \in Request : req[p].pc = "answer"
         => /\ req[p].sub \in Submission
            /\ sub[req[p].sub].state = req[p].decision
    /\ \A s \in Submission : told[s] <= 1

\* What is shown of a user's verification is what was decided.
DecisionsStand == StatusIsLatest /\ DecisionsAgree

=============================================================================
