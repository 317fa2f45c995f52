--------------------------- MODULE GroupMembership ---------------------------
(***************************************************************************)
(* Group conversations: creation under a client request id, leaving and    *)
(* removal with the succession of the owner, and the block that takes the  *)
(* blocker out of every group shared with the blocked user.                *)
(*                                                                         *)
(* Every transaction that changes members locks the conversation row       *)
(* first; the member rows it locks as well add no exclusion.               *)
(***************************************************************************)
EXTENDS Naturals, FiniteSets

CONSTANTS
    User,          \* numbered as their ids order
    Request,       \* handlers in flight at once
    Creator,       \* bound: who creates groups
    Key,           \* clientRequestId values
    Quarrel,       \* bound: who blocks whom
    Leaver         \* bound: whose account, once in a group, is deleted

Nobody == 0

\* What is assumed of the constants.
SoundConstants ==
    /\ User \subseteq Nat \ {0} /\ Nobody \notin Request
    /\ Creator \cup Leaver \subseteq User
    /\ \A e \in Quarrel : e \in User \X User /\ e[1] # e[2]

\* (created_by, creation_key) is unique: it names the group.
Group == Creator \X Key
Pair == {e \in SUBSET User : Cardinality(e) = 2}

VARIABLES
    friends,   \* friendships, as pairs
    blocked,   \* user_blocks
    role,      \* role[g][u]: conversation_members, "left" once left_at is set
    made,      \* conversations rows, committed
    gone,      \* deleted accounts
    orphaned,  \* history: groups whose owner's account was deleted
    loose,     \* history: pairs for which a block has not completed, or that a
               \* creation past its check has put into one group since
    req        \* req[p]: locals of the handler p runs

vars == <<friends, blocked, role, made, gone, orphaned, loose, req>>

Role == {"none", "owner", "member", "left"}
Handler == [pc : {"idle", "lookup", "eligible", "pairs", "insert", "members",
                  "lock", "read", "succession", "leave", "blocked", "shared",
                  "leaving", "onBlock"},
            actor : User \cup {Nobody}, peer : User \cup {Nobody},
            groups : SUBSET Group, invited : SUBSET User,
            role : Role, heir : User \cup {Nobody},
            late : BOOLEAN]   \* history: a pair it invites was blocked meanwhile

Tidy == [pc |-> "idle", actor |-> Nobody, peer |-> Nobody, groups |-> {},
         invited |-> {}, role |-> "none", heir |-> Nobody, late |-> FALSE]

TypeOK ==
    /\ friends \subseteq Pair
    /\ blocked \subseteq User \X User
    /\ role \in [Group -> [User -> Role]]
    /\ made \subseteq Group /\ gone \subseteq User /\ orphaned \subseteq made
    /\ loose \subseteq Pair
    /\ req \in [Request -> Handler]
    /\ \A g \in Group : (\E u \in User : role[g][u] # "none") => g \in made

Init ==
    /\ friends = Pair /\ blocked = {}
    /\ role = [g \in Group |-> [u \in User |-> "none"]]
    /\ made = {} /\ gone = {} /\ orphaned = {} /\ loose = {}
    /\ req = [p \in Request |-> Tidy]

Idle(p) == req[p].pc = "idle"
At(p, pc) == req[p].pc = pc
Go(p, pc) == req' = [req EXCEPT ![p].pc = pc]
Answer(p) == req' = [req EXCEPT ![p] = Tidy]

Active(g) == {u \in User : role[g][u] \in {"owner", "member"}}
Owners(g) == {u \in User : role[g][u] = "owner"}
Blocks(S) == blocked \cap (S \X S) # {}
Shared(a, b) == {g \in made : {a, b} \subseteq Active(g)}

\* FOR UPDATE on the conversation.  The variant locks nothing.
Unlocked(p, g) == TRUE
Free(p, g) ==
    \A q \in Request \ {p} :
        ~(g \in req[q].groups /\ req[q].pc \in {"read", "succession", "leave", "leaving"})

-----------------------------------------------------------------------------
(* Creating *)

\* Two members at least besides the creator.
Create(p, g, S) ==
    /\ Idle(p)
    /\ g[1] \notin gone \cup S /\ Cardinality(S) >= 2
    /\ req' = [req EXCEPT ![p] = [Tidy EXCEPT !.pc = "lookup", !.actor = g[1],
                                              !.groups = {g}, !.invited = S]]
    /\ UNCHANGED <<friends, blocked, role, made, gone, orphaned, loose>>

Its(p) == CHOOSE g \in req[p].groups : TRUE
Invited(p) == req[p].invited \cup {req[p].actor}

\* A group under this key answers the request, or refuses it when its active
\* members are not the ones asked for.  Both end the handler.
Lookup(p) ==
    /\ At(p, "lookup") /\ Free(p, Its(p))
    /\ IF Its(p) \in made THEN Answer(p) ELSE Go(p, "eligible")
    /\ UNCHANGED <<friends, blocked, role, made, gone, orphaned, loose>>

CheckInvitees(p) ==
    /\ At(p, "eligible")
    /\ IF \A u \in req[p].invited : /\ u \notin gone
                                    /\ {req[p].actor, u} \in friends
                                    /\ ~Blocks({req[p].actor, u})
       THEN Go(p, "pairs") ELSE Answer(p)
    /\ UNCHANGED <<friends, blocked, role, made, gone, orphaned, loose>>

\* Nor may two of the invited have blocked each other.  The variant asks only
\* about the creator.
PairsUnchecked(p) == TRUE
PairsApart(p) == ~Blocks(Invited(p))

CheckPairs(p) ==
    /\ At(p, "pairs")
    /\ IF PairsApart(p) THEN Go(p, "insert") ELSE Answer(p)
    /\ UNCHANGED <<friends, blocked, role, made, gone, orphaned, loose>>

\* ON CONFLICT DO NOTHING waits for another transaction's uncommitted row and
\* finds it, or inserts.
\* The variant takes no notice of the conflict.
NoConflict(p) == FALSE
Conflict(p) == Its(p) \in made

InsertGroup(p) ==
    /\ At(p, "insert")
    /\ \A q \in Request : At(q, "members") => Its(q) # Its(p)
    /\ Go(p, IF Conflict(p) THEN "lookup" ELSE "members")
    /\ UNCHANGED <<friends, blocked, role, made, gone, orphaned, loose>>

CreateCommit(p) ==
    /\ At(p, "members")
    /\ made' = made \cup {Its(p)}
    /\ role' = [role EXCEPT ![Its(p)] =
                  [u \in User |-> IF u = req[p].actor THEN "owner"
                                  ELSE IF u \in req[p].invited THEN "member"
                                  ELSE "none"]]
    /\ loose' = IF req[p].late
                THEN loose \cup {e \in Pair : e \subseteq Invited(p) /\ Blocks(e)}
                ELSE loose
    /\ Answer(p)
    /\ UNCHANGED <<friends, blocked, gone, orphaned>>

-----------------------------------------------------------------------------
(* Leaving and removing *)

RemoveMember(p, a, g, u) ==
    /\ Idle(p) /\ g \in made /\ a \notin gone
    /\ req' = [req EXCEPT ![p] = [Tidy EXCEPT !.pc = "lock", !.actor = a,
                                              !.peer = u, !.groups = {g}]]
    /\ UNCHANGED <<friends, blocked, role, made, gone, orphaned, loose>>

LockGroup(p) ==
    /\ At(p, "lock") /\ Free(p, Its(p))
    /\ Go(p, "read")
    /\ UNCHANGED <<friends, blocked, role, made, gone, orphaned, loose>>

\* Anybody leaves; only the owner removes another, and nobody the owner.
MayRemove(a, u, g) ==
    /\ {a, u} \subseteq Active(g)
    /\ a = u \/ (role[g][a] = "owner" /\ role[g][u] # "owner")

ReadMembers(p) ==
    LET g == Its(p)  u == req[p].peer IN
    /\ At(p, "read")
    /\ IF MayRemove(req[p].actor, u, g)
       THEN req' = [req EXCEPT ![p].pc = IF role[g][u] = "owner" THEN "succession"
                                                                 ELSE "leave",
                               ![p].role = role[g][u]]
       ELSE Answer(p)
    /\ UNCHANGED <<friends, blocked, role, made, gone, orphaned, loose>>

\* The next owner: an owner if there is one, else the earliest member; all
\* joined at the creation, so the smallest id.
Heir(g, u) ==
    LET rest == Active(g) \ {u}
        first == IF rest \cap Owners(g) # {} THEN rest \cap Owners(g) ELSE rest IN
    IF first = {} THEN Nobody ELSE CHOOSE v \in first : \A w \in first : v <= w

ChooseHeir(p) ==
    /\ At(p, "succession")
    /\ req' = [req EXCEPT ![p].pc = "leave", ![p].heir = Heir(Its(p), req[p].peer)]
    /\ UNCHANGED <<friends, blocked, role, made, gone, orphaned, loose>>

After(r, u, heir) ==
    [v \in User |-> IF v = u /\ r[v] \in {"owner", "member"} THEN "left"
                    ELSE IF v = heir /\ r[v] = "member" THEN "owner"
                    ELSE r[v]]

LeaveCommit(p) ==
    /\ At(p, "leave")
    /\ role' = [role EXCEPT ![Its(p)] = After(@, req[p].peer, req[p].heir)]
    /\ Answer(p)
    /\ UNCHANGED <<friends, blocked, made, gone, orphaned, loose>>

-----------------------------------------------------------------------------
(* Blocking *)

Block(p, a, b) ==
    /\ Idle(p) /\ {a, b} \cap gone = {}
    /\ blocked' = blocked \cup {<<a, b>>}
    /\ loose' = loose \cup {{a, b}}
    /\ req' = [q \in Request |->
                 IF q = p THEN [Tidy EXCEPT !.pc = "blocked", !.actor = a, !.peer = b]
                 ELSE [req[q] EXCEPT !.late = @ \/ {a, b} \subseteq Invited(q)]]
    /\ UNCHANGED <<friends, role, made, gone, orphaned>>

\* The statement sees the groups committed when it starts, then waits for
\* their locks; a row changed meanwhile is read again.
ReadShared(p) ==
    /\ At(p, "blocked")
    /\ req' = [req EXCEPT ![p].pc = "shared",
                          ![p].groups = Shared(req[p].actor, req[p].peer)]
    /\ loose' = loose \ {{req[p].actor, req[p].peer}}
    /\ UNCHANGED <<friends, blocked, role, made, gone, orphaned>>

LockShared(p) ==
    /\ At(p, "shared")
    /\ \A g \in req[p].groups : Free(p, g)
    /\ req' = [req EXCEPT ![p].pc = "leaving",
                          ![p].groups = @ \cap Shared(req[p].actor, req[p].peer)]
    /\ UNCHANGED <<friends, blocked, role, made, gone, orphaned, loose>>

LeaveShared(p) ==
    LET a == req[p].actor IN
    /\ At(p, "leaving")
    /\ role' = [g \in Group |->
                  IF g \in req[p].groups
                  THEN After(role[g], a,
                             IF role[g][a] = "owner" THEN Heir(g, a) ELSE Nobody)
                  ELSE role[g]]
    /\ req' = [req EXCEPT ![p].pc = "onBlock", ![p].groups = {}]
    /\ UNCHANGED <<friends, blocked, made, gone, orphaned, loose>>

OnBlock(p) ==
    /\ At(p, "onBlock")
    /\ friends' = friends \ {{req[p].actor, req[p].peer}}
    /\ Answer(p)
    /\ UNCHANGED <<blocked, role, made, gone, orphaned, loose>>

Unblock(a, b) ==
    /\ <<a, b>> \in blocked
    /\ blocked' = blocked \ {<<a, b>>}
    /\ UNCHANGED <<friends, role, made, gone, orphaned, loose, req>>

\* Deleting the account deletes the user's member rows by cascade: no one
\* inherits.  Handlers that name the user have ended: a later statement of
\* theirs would fail on the foreign key.
DeleteAccount(u) ==
    /\ \E g \in made : role[g][u] # "none"
    /\ gone' = gone \cup {u}
    /\ \A g \in made : Free(Nobody, g)
    /\ \A p \in Request : u \notin {req[p].actor, req[p].peer} \cup req[p].invited
    /\ role' = [g \in Group |-> [role[g] EXCEPT ![u] = "none"]]
    /\ orphaned' = orphaned \cup {g \in made : role[g][u] = "owner"}
    /\ friends' = {e \in friends : u \notin e}
    /\ blocked' = {e \in blocked : u \notin {e[1], e[2]}}
    /\ UNCHANGED <<made, loose, req>>

\* A statement fails or the process stops: an open transaction leaves nothing.
Fail(p) ==
    /\ ~Idle(p)
    /\ Answer(p)
    /\ loose' = IF req[p].pc \in {"shared", "leaving"}
                THEN loose \cup {{req[p].actor, req[p].peer}} ELSE loose
    /\ UNCHANGED <<friends, blocked, role, made, gone, orphaned>>

-----------------------------------------------------------------------------

Next ==
    \/ \E p \in Request :
         \/ \E g \in Group : \/ \E S \in SUBSET User : Create(p, g, S)
                             \/ \E a, u \in User : RemoveMember(p, a, g, u)
         \/ \E e \in Quarrel : Block(p, e[1], e[2])
         \/ Lookup(p) \/ CheckInvitees(p) \/ CheckPairs(p) \/ InsertGroup(p)
         \/ CreateCommit(p) \/ LockGroup(p) \/ ReadMembers(p) \/ ChooseHeir(p)
         \/ LeaveCommit(p) \/ ReadShared(p) \/ LockShared(p) \/ LeaveShared(p)
         \/ OnBlock(p) \/ Fail(p)
    \/ \E u \in Leaver : DeleteAccount(u)
    \/ \E e \in Quarrel : Unblock(e[1], e[2])

Spec == Init /\ [][Next]_vars

-----------------------------------------------------------------------------
(* Properties *)

\* Leaving, being removed and blocking never leave a group with two owners,
\* nor one that has members and no owner, unless an owner's account was
\* deleted.
OneOwner ==
    \A g \in made :
        /\ Cardinality(Owners(g)) <= 1
        /\ Active(g) # {} /\ g \notin orphaned => Owners(g) # {}

\* A block that has gone through the groups leaves the two in none together,
\* but for a group whose creation had passed its check before.
BlockedNotTogether ==
    \A e \in blocked :
        /\ {e[1], e[2]} \notin loose
        /\ \A p \in Request : {req[p].actor, req[p].peer} = {e[1], e[2]}
             => req[p].pc \notin {"blocked", "shared", "leaving"}
        => Shared(e[1], e[2]) = {}

\* A group is well kept: it has its owner and no blocked pair.
GroupsAreKept == OneOwner /\ BlockedNotTogether

\* Nobody comes back: no later step, retry of a creation, unblocking or
\* failure makes an active member of somebody who left.
LeftStayOut ==
    [][\A g \in made, u \in User :
         role[g][u] = "left" => role'[g][u] \in {"left", "none"}]_vars

=============================================================================
