----------------------------- MODULE AuthSession -----------------------------
(***************************************************************************)
(* Sessions of the NEXUS API: registration, password and Google sign-in,   *)
(* refresh-token rotation with family revocation, logout, and the          *)
(* transaction by which a password reset ends every session of a user.     *)
(*                                                                         *)
(* Each handler runs as separate SQL statements; one action here is one    *)
(* statement, atomic under READ COMMITTED.  A statement that needs a row   *)
(* another transaction has locked waits, which is a guard.  Only the reset *)
(* keeps locks between statements: userLock (SELECT ... FOR UPDATE) and    *)
(* the refresh-token rows it has updated but not committed.                *)
(***************************************************************************)
EXTENDS Naturals, FiniteSets

CONSTANTS
    User,        \* e-mail identities
    Token,       \* refresh tokens that can ever be issued
    Request,     \* handler invocations that can be in flight at once
    NoUser, NoToken, NoRequest,
    MaxVersion,  \* bound: password resets per user
    Shape        \* what db.query returns for UPDATE ... RETURNING

ASSUME NullsAreFresh ==
    /\ NoUser \notin User
    /\ NoToken \notin Token
    /\ NoRequest \notin Request
ASSUME MaxVersionIsNat == MaxVersion \in Nat
\* "rows": the returned rows, as auth.service.ts reads them.
\* "tuple": << rows, affected >>, as events.service.ts reads them.
ASSUME ShapeIsKnown == Shape \in {"rows", "tuple"}

VARIABLES
    account,   \* account[u]: "none", or which credential the users row has
    version,   \* version[u]: users.auth_version
    tok,       \* tok[t]: the refresh_tokens row of t
    userLock,  \* userLock[u]: the reset holding the users row FOR UPDATE
    req        \* req[p]: local variables of the handler p runs

vars == <<account, version, tok, userLock, req>>

-----------------------------------------------------------------------------
(* Shape of the state *)

PC == {"idle", "googleLink", "googleReread", "googleCreate", "issue",
       "load", "revokeFamily", "resetWrite", "resetCommit"}

TokenRow == [state   : {"unused", "live", "revoked"},
             user    : User \cup {NoUser},
             family  : Token \cup {NoToken},
             ver     : Nat,
             expired : BOOLEAN]

\* claim: the token whose single use this request consumed.
\* rows:  the token rows an uncommitted reset has updated.
Handler == [pc     : PC,
            user   : User \cup {NoUser},
            ver    : Nat,
            family : Token \cup {NoToken},
            claim  : Token \cup {NoToken},
            rows   : SUBSET Token,
            result : {"none", "ok", "refused"}]

UnusedRow == [state |-> "unused", user |-> NoUser, family |-> NoToken,
              ver |-> 0, expired |-> FALSE]

Fresh == [pc |-> "idle", user |-> NoUser, ver |-> 0, family |-> NoToken,
          claim |-> NoToken, rows |-> {}, result |-> "none"]

Live(t) == tok[t].state = "live"
Issued(t) == tok[t].state # "unused"
Idle(p) == req[p].pc = "idle"

StateTypes ==
    /\ account \in [User -> {"none", "password", "google"}]
    /\ version \in [User -> Nat]
    /\ tok \in [Token -> TokenRow]
    /\ userLock \in [User -> Request \cup {NoRequest}]
    /\ req \in [Request -> Handler]

\* user_id and family are NOT NULL, and a handler that has not yet read or
\* been given a user touches no row of one.
NothingMissing ==
    /\ \A t \in Token :
         Issued(t) => tok[t].user \in User /\ tok[t].family \in Token
    /\ \A p \in Request :
         /\ req[p].pc \notin {"idle", "load"} => req[p].user \in User
         /\ req[p].pc = "revokeFamily" => req[p].family \in Token

TypeOK == StateTypes /\ NothingMissing

\* Rows a reset has updated are locked until it commits.
RowLocked(t) == \E p \in Request : t \in req[p].rows

\* FOR SHARE, or an UPDATE, on the users row has to wait.  The variant is an
\* INSERT ... SELECT without FOR SHARE.
NeverLocked(u) == FALSE
UserLocked(u) == userLock[u] # NoRequest

\* Bound: a request starts only if a token is left for every request that
\* may still issue one, so that running out of tokens blocks nobody.
TokensLeft ==
    Cardinality({t \in Token : ~Issued(t)}) >
    Cardinality({p \in Request : req[p].pc \in
        {"googleLink", "googleReread", "googleCreate", "issue", "load"}})

Init ==
    /\ account = [u \in User |-> "none"]
    /\ version = [u \in User |-> 0]
    /\ tok = [t \in Token |-> UnusedRow]
    /\ userLock = [u \in User |-> NoRequest]
    /\ req = [p \in Request |-> Fresh]

\* A handler starts for user u, with the auth_version its first SELECT read.
Start(p, pc, u) ==
    req' = [req EXCEPT ![p] = [Fresh EXCEPT !.pc = pc, !.user = u,
                                            !.ver = version[u]]]

\* The handler of p answers.  Only what the client learns is kept, and what a
\* refused request had consumed.
Answer(p, r) ==
    req' = [req EXCEPT ![p] =
              [Fresh EXCEPT !.result = r,
                            !.claim = IF r = "refused" THEN req[p].claim
                                                       ELSE NoToken]]

\* UPDATE refresh_tokens SET revoked_at = NOW() WHERE ... revoked_at IS NULL.
Revoke(S) ==
    tok' = [t \in Token |-> IF t \in S /\ Live(t)
                            THEN [tok[t] EXCEPT !.state = "revoked"]
                            ELSE tok[t]]

-----------------------------------------------------------------------------
(* Sign-in *)

\* An address already taken is refused with 409 and changes nothing.
Register(p, u) ==
    /\ Idle(p) /\ TokensLeft
    /\ account[u] = "none"
    /\ account' = [account EXCEPT ![u] = "password"]
    /\ Start(p, "issue", u)
    /\ UNCHANGED <<version, tok, userLock>>

\* The current password was sent; a wrong one is refused and changes nothing.
\* The version is read here and used after bcrypt.compare, in IssueTokens.
Login(p, u) ==
    /\ Idle(p) /\ TokensLeft
    /\ account[u] = "password"
    /\ Start(p, "issue", u)
    /\ UNCHANGED <<account, version, tok, userLock>>

GoogleFind(p, u) ==
    /\ Idle(p) /\ TokensLeft
    /\ Start(p, IF account[u] = "none" THEN "googleCreate" ELSE "googleLink", u)
    /\ UNCHANGED <<account, version, tok, userLock>>

\* The UPDATE of the users row waits for a reset that has it locked.
GoogleLink(p) ==
    /\ req[p].pc = "googleLink"
    /\ ~UserLocked(req[p].user)
    /\ req' = [req EXCEPT ![p].pc = "googleReread"]
    /\ UNCHANGED <<account, version, tok, userLock>>

GoogleReread(p) ==
    /\ req[p].pc = "googleReread"
    /\ req' = [req EXCEPT ![p].pc = "issue",
                          ![p].ver = version[req[p].user]]
    /\ UNCHANGED <<account, version, tok, userLock>>

GoogleCreate(p) ==
    /\ req[p].pc = "googleCreate"
    /\ LET u == req[p].user IN
         \/ /\ account[u] = "none"
            /\ account' = [account EXCEPT ![u] = "google"]
            /\ req' = [req EXCEPT ![p].pc = "issue", ![p].ver = version[u]]
         \/ \* someone registered the address since GoogleFind
            /\ account[u] # "none"
            /\ Answer(p, "refused")
            /\ UNCHANGED account
    /\ UNCHANGED <<version, tok, userLock>>

\* INSERT ... SELECT ... WHERE auth_version = $5 FOR SHARE: waits for a reset
\* holding the users row and then compares with the committed version.  A
\* request without a family starts one, named here by its first token.
IssueTokens(p) ==
    /\ req[p].pc = "issue"
    /\ LET u == req[p].user IN
         /\ ~UserLocked(u)
         /\ \/ /\ version[u] = req[p].ver
               /\ \E t \in Token :
                    /\ ~Issued(t)
                    /\ tok' = [tok EXCEPT ![t] =
                         [state |-> "live", user |-> u, ver |-> version[u],
                          family |-> IF req[p].family = NoToken
                                     THEN t ELSE req[p].family,
                          expired |-> FALSE]]
               /\ Answer(p, "ok")
            \/ /\ version[u] # req[p].ver
               /\ Answer(p, "refused")
               /\ UNCHANGED tok
    /\ UNCHANGED <<account, version, userLock>>

-----------------------------------------------------------------------------
(* Refresh, reuse detection, logout *)

\* The variant forgets revoked_at IS NULL.
ClaimableAgain(t) == ~tok[t].expired
Claimable(t) == Live(t) /\ ~tok[t].expired

\* What refresh knows after its claim of t: the row's columns, or, under the
\* "tuple" shape, none of them, because claimed[0] is then the array of rows.
\* The variants forget to return the columns, or auth_version.
StoredBlank(pc, t, claimed) == [Fresh EXCEPT !.pc = pc, !.claim = claimed]
StoredUnversioned(pc, t, claimed) ==
    [Fresh EXCEPT !.pc = pc, !.claim = claimed, !.user = tok[t].user,
                  !.family = tok[t].family]
Stored(pc, t, claimed) ==
    IF Shape = "rows"
    THEN [Fresh EXCEPT !.pc = pc, !.claim = claimed, !.user = tok[t].user,
                       !.ver = tok[t].ver, !.family = tok[t].family]
    ELSE [Fresh EXCEPT !.pc = pc, !.claim = claimed]

\* UPDATE ... SET revoked_at = NOW() WHERE <claimable> RETURNING.  Under the
\* "tuple" shape claimed[0] is truthy whether or not a row was claimed, so
\* the branch that detects reuse is not taken.
RefreshClaim(p, t) ==
    /\ Idle(p) /\ Issued(t) /\ ~RowLocked(t)
    /\ \/ /\ Claimable(t) /\ TokensLeft
          /\ Revoke({t})
          /\ req' = [req EXCEPT ![p] = Stored("load", t, t)]
       \/ /\ ~Claimable(t)
          /\ req' = [req EXCEPT ![p] =
               Stored(IF Shape = "rows" THEN "revokeFamily" ELSE "load",
                      t, NoToken)]
          /\ UNCHANGED tok
    /\ UNCHANGED <<account, version, userLock>>

\* The row's user must still have the version the token was issued under.
RefreshLoad(p) ==
    /\ req[p].pc = "load"
    /\ IF req[p].user # NoUser /\ version[req[p].user] = req[p].ver
       THEN req' = [req EXCEPT ![p].pc = "issue"]
       ELSE Answer(p, "refused")
    /\ UNCHANGED <<account, version, tok, userLock>>

\* A dead token was presented: every live token of its family is revoked.
RevokeFamily(p) ==
    /\ req[p].pc = "revokeFamily"
    /\ LET family == {t \in Token : tok[t].family = req[p].family}
       IN /\ \A t \in family : Live(t) => ~RowLocked(t)
          /\ Revoke(family)
    /\ Answer(p, "refused")
    /\ UNCHANGED <<account, version, userLock>>

\* Logging out with a dead token changes nothing.
Logout(t) ==
    /\ Live(t) /\ ~RowLocked(t)
    /\ Revoke({t})
    /\ UNCHANGED <<account, version, userLock, req>>

\* expires_at passes.
Expire(t) ==
    /\ Issued(t) /\ ~tok[t].expired
    /\ tok' = [tok EXCEPT ![t].expired = TRUE]
    /\ UNCHANGED <<account, version, userLock, req>>

-----------------------------------------------------------------------------
(* Password reset, as far as it touches sessions; whether the code is right *)
(* is PasswordRecovery's subject and a free choice here.                    *)

ResetLock(p, u) ==
    /\ Idle(p)
    /\ account[u] = "password"
    /\ userLock[u] = NoRequest
    /\ version[u] < MaxVersion
    /\ userLock' = [userLock EXCEPT ![u] = p]
    /\ Start(p, "resetWrite", u)
    /\ UNCHANGED <<account, version, tok>>

\* No usable challenge or a wrong code: the transaction commits without
\* touching the user.  The variant returns without ending the transaction.
ResetForgotten(p) ==
    /\ req[p].pc = "resetWrite"
    /\ Answer(p, "refused")
    /\ UNCHANGED <<account, version, tok, userLock>>
ResetRefuse(p) ==
    /\ req[p].pc = "resetWrite"
    /\ userLock' = [userLock EXCEPT ![req[p].user] = NoRequest]
    /\ Answer(p, "refused")
    /\ UNCHANGED <<account, version, tok>>

\* UPDATE users and UPDATE refresh_tokens, seen by nobody before the commit.
\* The second updates the rows live when it runs.
ResetWrite(p) ==
    /\ req[p].pc = "resetWrite"
    /\ req' = [req EXCEPT
                 ![p].pc = "resetCommit",
                 ![p].rows = {t \in Token : Live(t)
                                            /\ tok[t].user = req[p].user}]
    /\ UNCHANGED <<account, version, tok, userLock>>

ResetCommit(p) ==
    /\ req[p].pc = "resetCommit"
    /\ version' = [version EXCEPT ![req[p].user] = @ + 1]
    /\ Revoke(req[p].rows)
    /\ userLock' = [userLock EXCEPT ![req[p].user] = NoRequest]
    /\ Answer(p, "ok")
    /\ UNCHANGED <<account>>

\* The process stops or the connection fails between two statements: an open
\* transaction rolls back, statements already committed stay.
Crash(p) ==
    /\ ~Idle(p)
    /\ userLock' = [u \in User |-> IF userLock[u] = p THEN NoRequest
                                                      ELSE userLock[u]]
    /\ Answer(p, "none")
    /\ UNCHANGED <<account, version, tok>>

-----------------------------------------------------------------------------

Begin(p) ==
    \/ \E u \in User : \/ Register(p, u) \/ Login(p, u)
                       \/ GoogleFind(p, u) \/ ResetLock(p, u)
    \/ \E t \in Token : RefreshClaim(p, t)

\* Steps that may have to wait for a row lock.
Waiting(p) == GoogleLink(p) \/ IssueTokens(p) \/ RevokeFamily(p)

Running(p) ==
    \/ GoogleReread(p) \/ GoogleCreate(p) \/ RefreshLoad(p)
    \/ ResetRefuse(p) \/ ResetWrite(p) \/ ResetCommit(p)

Next ==
    \/ \E p \in Request : Begin(p) \/ Waiting(p) \/ Running(p) \/ Crash(p)
    \/ \E t \in Token : Logout(t) \/ Expire(t)

Spec == Init /\ [][Next]_vars

\* A handler keeps running; PostgreSQL queues the waiters of a row lock, so a
\* step that can take its lock again and again is not passed over forever.
Fairness == \A p \in Request : WF_vars(Running(p)) /\ SF_vars(Waiting(p))

-----------------------------------------------------------------------------
(* Properties *)

\* No session outlives a password reset: a usable refresh token was always
\* issued under its user's current auth_version, however a sign-in or refresh
\* already in flight is interleaved with the reset's transaction.
NoStaleSession ==
    \A t \in Token : Live(t) => tok[t].ver = version[tok[t].user]

\* p has consumed a token of the family and may still insert its successor.
Rotating(p, f) == req[p].pc \in {"load", "issue"} /\ req[p].family = f

\* A family is one chain: it never has two usable tokens, nor a usable token
\* beside a refresh about to add another.  Two refreshes racing with one token
\* cannot fork the session.
OneLivePerFamily ==
    \A f \in Token :
        /\ \A t1, t2 \in Token :
             Live(t1) /\ Live(t2) /\ tok[t1].family = f /\ tok[t2].family = f
             => t1 = t2
        /\ \A p1, p2 \in Request : Rotating(p1, f) /\ Rotating(p2, f)
                                   => p1 = p2
        /\ \A t \in Token, p \in Request :
             ~(Live(t) /\ tok[t].family = f /\ Rotating(p, f))

\* A refresh that consumed a usable token is refused only if the account's
\* credentials changed since the token was issued.
ClaimedRefreshIsServed ==
    \A p \in Request :
        req[p].result = "refused" /\ req[p].claim # NoToken
        => tok[req[p].claim].ver # version[tok[req[p].claim].user]

\* Every request is answered: no handler waits for a row lock forever.
RequestsFinish == \A p \in Request : []<>Idle(p)
=============================================================================
