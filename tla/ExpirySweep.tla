---------------------------- MODULE ExpirySweep ----------------------------
(***************************************************************************)
(* The sweep that tells realtime subscribers of an expired listing: every  *)
(* API instance runs it each minute, a lock in Redis keeps two of them     *)
(* from publishing one expiry at once, a marker from publishing it twice.  *)
(* A sweep that takes long overlaps the next one of its own instance.      *)
(*                                                                         *)
(* The sweep of past events is the same with the event for the version.    *)
(***************************************************************************)
EXTENDS Naturals, FiniteSets

CONSTANTS
    Worker, NoWorker,   \* sweeps under way at once, on any instance
    MaxVersion,         \* bound: times the listing expires
    MaxFailures         \* bound: Redis errors and instances stopped

Version == 1..MaxVersion

\* What is assumed of the constants.
SoundConstants ==
    NoWorker \notin Worker /\ MaxVersion \in Nat \ {0} /\ MaxFailures \in Nat

VARIABLES
    version,    \* which expires_at the listing has
    expired,    \* whether it has passed
    lock,       \* lock[v]: whose token the lock holds
    done,       \* versions with a marker
    sweep,      \* sweep[w]: where w is with a version
    sent,       \* sent[v]: publications of v
    lapsed,     \* history: sweeps whose lock expired while they held it
    unmarked,   \* history: versions published and not marked, or after a lapse
    failures

vars == <<version, expired, lock, done, sweep, sent, lapsed, unmarked, failures>>

Place == {"idle", "check", "take", "recheck", "publish", "mark", "release"}
Rest == [pc |-> "idle", v |-> 1]

TypeOK ==
    /\ version \in Version /\ expired \in BOOLEAN
    /\ lock \in [Version -> Worker \cup {NoWorker}]
    /\ done \subseteq Version
    /\ sweep \in [Worker -> [pc : Place, v : Version]]
    /\ sent \in [Version -> Nat]
    /\ lapsed \subseteq Worker /\ unmarked \subseteq Version
    /\ failures \in 0..MaxFailures

Init ==
    /\ version = 1 /\ expired = FALSE
    /\ lock = [v \in Version |-> NoWorker] /\ done = {}
    /\ sweep = [w \in Worker |-> Rest]
    /\ sent = [v \in Version |-> 0]
    /\ lapsed = {} /\ unmarked = {} /\ failures = 0

At(w, pc) == sweep[w].pc = pc
Go(w, pc) == sweep' = [sweep EXCEPT ![w].pc = pc]
Faulty == failures < MaxFailures /\ failures' = failures + 1

listing == <<version, expired>>
history == <<sent, lapsed, unmarked, failures>>

-----------------------------------------------------------------------------

Clock ==
    /\ ~expired /\ expired' = TRUE
    /\ UNCHANGED <<version, lock, done, sweep, history>>

\* The seller bumps the listing: expires_at is later, and a new version.
Bump ==
    /\ expired /\ version < MaxVersion
    /\ version' = version + 1 /\ expired' = FALSE
    /\ UNCHANGED <<lock, done, sweep, history>>

\* The sweep's SELECT finds the expired listing.
Start(w) ==
    /\ At(w, "idle") /\ expired
    /\ sweep' = [sweep EXCEPT ![w] = [pc |-> "check", v |-> version]]
    /\ lapsed' = lapsed \ {w}
    /\ UNCHANGED <<listing, lock, done, sent, unmarked, failures>>

Check(w) ==
    /\ At(w, "check")
    /\ Go(w, IF sweep[w].v \in done THEN "idle" ELSE "take")
    /\ UNCHANGED <<listing, lock, done, history>>

\* SET ... EX ... NX
Take(w) ==
    LET v == sweep[w].v IN
    /\ At(w, "take")
    /\ IF lock[v] = NoWorker
       THEN lock' = [lock EXCEPT ![v] = w] /\ Go(w, "recheck")
       ELSE UNCHANGED lock /\ Go(w, "idle")
    /\ UNCHANGED <<listing, done, history>>

\* Another sweep may have been there between the check and the lock.  The
\* variant goes on without asking.
Forget(w) == "publish"
Recheck(w) == IF sweep[w].v \in done THEN "release" ELSE "publish"

CheckAgain(w) ==
    /\ At(w, "recheck") /\ Go(w, Recheck(w))
    /\ UNCHANGED <<listing, lock, done, history>>

\* The mutation goes out on the bus.
Publish(w) ==
    LET v == sweep[w].v IN
    /\ At(w, "publish")
    /\ sent' = [sent EXCEPT ![v] = IF @ > 1 THEN @ ELSE @ + 1]
    /\ unmarked' = IF w \in lapsed THEN unmarked \cup {v} ELSE unmarked
    /\ Go(w, "mark")
    /\ UNCHANGED <<listing, lock, done, lapsed, failures>>

Mark(w) ==
    /\ At(w, "mark")
    /\ done' = done \cup {sweep[w].v}
    /\ Go(w, "release")
    /\ UNCHANGED <<listing, lock, history>>

\* The script deletes the lock only if it still holds the sweep's token.  The
\* variant deletes it.
Deleted(w) == [lock EXCEPT ![sweep[w].v] = NoWorker]
Released(w) == [lock EXCEPT ![sweep[w].v] = IF @ = w THEN NoWorker ELSE @]

Release(w) ==
    /\ At(w, "release")
    /\ lock' = Released(w)
    /\ Go(w, "idle")
    /\ UNCHANGED <<listing, done, history>>

\* A publication, a marker or a release fails; the sweep goes on.
CommandFails(w) ==
    /\ sweep[w].pc \in {"recheck", "publish", "mark", "release"} /\ Faulty
    /\ Go(w, IF At(w, "release") THEN "idle" ELSE "release")
    /\ unmarked' = IF At(w, "mark") THEN unmarked \cup {sweep[w].v} ELSE unmarked
    /\ UNCHANGED <<listing, lock, done, sent, lapsed>>

\* The instance stops; its timer starts again with it.
Stop(w) ==
    /\ ~At(w, "idle") /\ Faulty
    /\ Go(w, "idle")
    /\ unmarked' = IF At(w, "mark") THEN unmarked \cup {sweep[w].v} ELSE unmarked
    /\ UNCHANGED <<listing, lock, done, sent, lapsed>>

\* The variant sets the lock without EX.
NoExpiry(v) == FALSE
Lapses(v) == lock[v] # NoWorker

LockExpires(v) ==
    /\ Lapses(v)
    /\ lock' = [lock EXCEPT ![v] = NoWorker]
    /\ LET w == lock[v] IN
         /\ lapsed' = IF At(w, "idle") \/ sweep[w].v # v THEN lapsed ELSE lapsed \cup {w}
         /\ unmarked' = IF At(w, "mark") /\ sweep[w].v = v THEN unmarked \cup {v} ELSE unmarked
    /\ UNCHANGED <<listing, done, sweep, sent, failures>>

Goes(w) == \/ Start(w) \/ Check(w) \/ Take(w) \/ CheckAgain(w) \/ Publish(w)
           \/ Mark(w) \/ Release(w)

Next ==
    \/ Clock \/ Bump
    \/ \E w \in Worker : Goes(w) \/ CommandFails(w) \/ Stop(w)
    \/ \E v \in Version : LockExpires(v)

\* The interval comes round, a sweep goes on, and the lock has a lifetime.
Fairness ==
    /\ \A w \in Worker : WF_vars(Goes(w))
    /\ \A v \in Version : WF_vars(LockExpires(v))

Spec == Init /\ [][Next]_vars /\ Fairness

-----------------------------------------------------------------------------
(* Properties *)

\* Two sweeps work on one expiry at once only if the lock of one of them
\* expired under it: nobody loses a lock to another's release.
OneAtATime ==
    \A w, x \in Worker :
        w # x /\ At(w, "publish") /\ At(x, "publish") /\ sweep[w].v = sweep[x].v
            => w \in lapsed \/ x \in lapsed

\* An expiry is published again only if its publication was not marked, or
\* was made after the lock had expired.
PublishedOnce == \A v \in Version : sent[v] > 1 => v \in unmarked

\* An expiry is one sweep's at a time and is published once.
ExpiryIsSingle == OneAtATime /\ PublishedOnce

\* An expiry is published, whatever sweep stops holding the lock, unless the
\* listing is bumped first.
ExpiryIsPublished ==
    \A v \in Version : []<>(version = v /\ expired => sent[v] > 0)
=============================================================================
