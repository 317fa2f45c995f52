------------------------ MODULE WaveExchange_proofs ------------------------
(***************************************************************************)
(* Proofs about the waves of two users, for any number of commands in      *)
(* flight, contexts and rows.                                              *)
(***************************************************************************)
EXTENDS WaveExchange, TLAPS

\* The two users are each other's other user.
LEMMA Others ==
    ASSUME NEW u \in User
    PROVE  Other(u) \in User /\ Other(u) # u /\ Other(Other(u)) = u
<1>1. PICK a, b \in User : a # b /\ User = {a, b}
    BY SoundConstants
<1>2. \A x \in User : Other(x) \in User /\ Other(x) # x
    BY <1>1 DEF Other
<1> QED BY <1>1, <1>2

\* What a command's locals say of the rows.  The wave it answers is a stored
\* one of the other user; it writes the conversation of the pair exactly when
\* it answers a wave; the wave it is about to cache is a stored one of its own.
LocalsOf(r) ==
    /\ r.pc # "idle" => r.from \in User /\ r.context \in Context
    /\ r.write # "none" => r.pc \in {"link", "commit"}
    /\ r.pc \in {"idle", "lock", "recent", "reciprocal"} => r.back = NoWave
    /\ r.pc \in {"open", "insertConvo", "link"} => r.back # NoWave
    /\ r.pc = "link" => r.write # "none"
    /\ r.pc = "commit" => (r.back # NoWave <=> r.write # "none")
    /\ r.back # NoWave => row[r.back].from = Other(r.from) /\ row[r.back].age # "unused"
    /\ r.pc = "cache" => r.wave # NoWave /\ row[r.wave].from = r.from

LocalsKnown == \A p \in Request : LocalsOf(req[p])

\* A row nobody has stored says nothing.
RowsKnown == \A w \in Wave : row[w].age = "unused" => row[w] = Unused

CacheKnown == cache \in [Key -> Wave \cup {NoWave}] /\ ReplayIsDurable

WaveInv == TypeOK /\ LocalsKnown /\ RowsKnown /\ MatchIsMutual /\ ReplayIsDurable

\* Nothing is stored at first.
LEMMA InitWave == Init => WaveInv
<1> SUFFICES ASSUME Init PROVE WaveInv
    OBVIOUS
<1>1. TypeOK
    BY SoundConstants DEF Init, TypeOK, Row, Command, PC, Unused, Idle, Key
<1>2. LocalsKnown
    BY DEF Init, LocalsKnown, LocalsOf, Idle
<1>3. RowsKnown /\ MatchIsMutual /\ ReplayIsDurable
    BY DEF Init, RowsKnown, MatchIsMutual, ReplayIsDurable, Unused
<1> QED BY <1>1, <1>2, <1>3 DEF WaveInv

\* A statement that stores no row: only the locals of its command change, and
\* perhaps who holds the conversation.
LEMMA LocalStep ==
    ASSUME WaveInv, NEW p \in Request, req' \in [Request -> Command], LocalsOf(req'[p]),
           \A q \in Request \ {p} : req'[q] = req[q],
           UNCHANGED <<row, convo>>, CacheKnown', lock' \in [Key -> BOOLEAN],
           held' \in Request \cup {NoRequest},
           held' = p <=> req'[p].write \in {"accepts", "inserts"},
           \A q \in Request \ {p} : held' = q <=> held = q
    PROVE  WaveInv'
<1>1. TypeOK'
    BY DEF WaveInv, TypeOK, CacheKnown
<1>2. LocalsKnown'
    BY DEF WaveInv, LocalsKnown, LocalsOf
<1>3. RowsKnown' /\ MatchIsMutual' /\ ReplayIsDurable'
    BY DEF WaveInv, RowsKnown, MatchIsMutual, CacheKnown, Sent
<1> QED BY <1>1, <1>2, <1>3 DEF WaveInv

\* A command that moves to another statement keeps its other locals.
LEMMA Moves ==
    ASSUME WaveInv, NEW p \in Request, NEW pc \in PC, Step(p, pc),
           LocalsOf([req[p] EXCEPT !.pc = pc]), UNCHANGED <<row, convo, cache, held>>,
           lock' \in [Key -> BOOLEAN]
    PROVE  WaveInv'
<1>1. req' = [req EXCEPT ![p] = [req[p] EXCEPT !.pc = pc]]
    BY DEF Step, WaveInv, TypeOK, Command
<1>2. req' \in [Request -> Command] /\ req'[p].write = req[p].write
    BY <1>1 DEF WaveInv, TypeOK, Command
<1>3. req'[p] = [req[p] EXCEPT !.pc = pc] /\ \A q \in Request \ {p} : req'[q] = req[q]
    BY <1>1 DEF WaveInv, TypeOK
<1>4. /\ held' \in Request \cup {NoRequest}
      /\ held' = p <=> req'[p].write \in {"accepts", "inserts"}
    BY <1>2 DEF WaveInv, TypeOK
<1>5. CacheKnown'
    BY DEF WaveInv, TypeOK, CacheKnown, ReplayIsDurable
<1> QED BY <1>2, <1>3, <1>4, <1>5, LocalStep

\* A command that ends, or goes to its finally block, holds nothing.
LEMMA Ends ==
    ASSUME WaveInv, NEW p \in Request, req[p].pc # "idle",
           req' = [req EXCEPT ![p] = Idle] \/ Leave(p),
           EndHold(p) \/ (UNCHANGED held /\ req[p].pc \notin {"link", "commit"}),
           UNCHANGED <<row, convo>>, CacheKnown', lock' \in [Key -> BOOLEAN]
    PROVE  WaveInv'
<1> DEFINE left == [Idle EXCEPT !.pc = "unlock", !.from = req[p].from, !.context = req[p].context]
<1>1. req' = [req EXCEPT ![p] = Idle] \/ req' = [req EXCEPT ![p] = left]
    BY DEF Leave
<1>2. Idle \in Command /\ left \in Command
    BY DEF Idle, Command, PC, WaveInv, TypeOK
<1>3. req[p].from \in User /\ req[p].context \in Context
    BY DEF WaveInv, LocalsKnown, LocalsOf
<1>4. /\ left.pc = "unlock" /\ left.from = req[p].from /\ left.context = req[p].context
      /\ left.back = NoWave /\ left.write = "none"
    BY DEF Idle
<1>5. LocalsOf(Idle) /\ LocalsOf(left)
    <2>1. LocalsOf(Idle)
        BY DEF LocalsOf, Idle
    <2> HIDE DEF left
    <2>2. LocalsOf(left)
        BY <1>3, <1>4 DEF LocalsOf
    <2> QED BY <2>1, <2>2
<1> HIDE DEF left
<1>6. /\ req'[p] \in {Idle, left} /\ req' \in [Request -> Command]
      /\ \A q \in Request \ {p} : req'[q] = req[q]
    BY <1>1, <1>2 DEF WaveInv, TypeOK
<1>7. req'[p].write = "none" /\ LocalsOf(req'[p])
    BY <1>4, <1>5, <1>6 DEF Idle
<1>8. /\ held' \in Request \cup {NoRequest} /\ held' # p
      /\ \A q \in Request \ {p} : held' = q <=> held = q
    <2>1. CASE EndHold(p)
        BY <2>1, SoundConstants DEF EndHold, WaveInv, TypeOK
    <2>2. CASE UNCHANGED held /\ req[p].pc \notin {"link", "commit"}
        BY <2>2 DEF WaveInv, TypeOK, LocalsKnown, LocalsOf
    <2> QED BY <2>1, <2>2
<1> QED BY <1>6, <1>7, <1>8, LocalStep

\* A cache that loses an entry, or none, is as sound as it was.
LEMMA CacheKept == ASSUME WaveInv, UNCHANGED <<row, cache>> PROVE CacheKnown'
BY DEF WaveInv, TypeOK, CacheKnown, ReplayIsDurable

\* The commands outside a transaction.
LEMMA KeysKeep ==
    ASSUME WaveInv, NEW p \in Request,
           \/ \E u \in User, c \in Context : Receive(p, u, c)
           \/ TakeLock(p) \/ StopWaiting(p) \/ CacheResult(p) \/ CacheFails(p) \/ Unlock(p)
    PROVE  WaveInv'
<1>1. ASSUME NEW u \in User, NEW c \in Context, Receive(p, u, c)
      PROVE  WaveInv'
    <2> DEFINE r == [Idle EXCEPT !.pc = "lock", !.from = u, !.context = c]
    <2>1. r \in Command
        BY DEF Idle, Command, PC
    <2>2. r.pc = "lock" /\ r.from = u /\ r.context = c /\ r.back = NoWave /\ r.write = "none"
        BY DEF Idle
    <2>3. req' = [req EXCEPT ![p] = r] /\ UNCHANGED <<row, convo, held, cache, lock>>
        BY <1>1 DEF Receive
    <2> HIDE DEF r
    <2>4. /\ req' \in [Request -> Command] /\ req'[p] = r
          /\ \A q \in Request \ {p} : req'[q] = req[q]
        BY <2>1, <2>3 DEF WaveInv, TypeOK
    <2>5. LocalsOf(r)
        BY <2>2 DEF LocalsOf
    <2>6. req[p].write = "none"
        BY <1>1 DEF Receive, WaveInv, LocalsKnown, LocalsOf
    <2>7. /\ held' \in Request \cup {NoRequest} /\ lock' \in [Key -> BOOLEAN]
          /\ held' = p <=> r.write \in {"accepts", "inserts"}
        BY <2>2, <2>3, <2>6 DEF WaveInv, TypeOK
    <2> QED BY <2>3, <2>4, <2>5, <2>7, CacheKept, LocalStep
<1>2. CASE TakeLock(p)
    <2> DEFINE pc == IF lock[KeyOf(p)] THEN "wait" ELSE "recent"
    <2>1. pc \in PC /\ Step(p, pc) /\ UNCHANGED <<row, convo, held, cache>>
        BY <1>2 DEF TakeLock, PC
    <2>2. lock' \in [Key -> BOOLEAN]
        BY <1>2 DEF TakeLock, WaveInv, TypeOK
    <2>3. LocalsOf([req[p] EXCEPT !.pc = pc])
        BY <1>2 DEF TakeLock, WaveInv, LocalsKnown, LocalsOf, TypeOK, Command
    <2> QED BY <2>1, <2>2, <2>3, Moves
<1>3. CASE StopWaiting(p)
    BY <1>3, Ends, CacheKept DEF StopWaiting, WaveInv, TypeOK
<1>4. CASE CacheResult(p)
    <2>1. /\ req[p].wave \in Wave /\ row[req[p].wave].from = req[p].from
          /\ req[p].from \in User /\ req[p].context \in Context
        BY <1>4 DEF CacheResult, WaveInv, LocalsKnown, LocalsOf, TypeOK, Command
    <2>2. KeyOf(p) \in Key /\ KeyOf(p)[1] = req[p].from
        BY <2>1 DEF KeyOf, Key
    <2>3. cache' = [cache EXCEPT ![KeyOf(p)] = req[p].wave] /\ UNCHANGED row
        BY <1>4 DEF CacheResult
    <2>4. cache' \in [Key -> Wave \cup {NoWave}]
        BY <2>1, <2>3 DEF WaveInv, TypeOK
    <2>5. \A k \in Key : cache'[k] = IF k = KeyOf(p) THEN req[p].wave ELSE cache[k]
        BY <2>3 DEF WaveInv, TypeOK
    <2>6. CacheKnown'
        BY <2>1, <2>2, <2>3, <2>4, <2>5 DEF WaveInv, CacheKnown, ReplayIsDurable
    <2> QED BY <1>4, <2>6, Ends DEF CacheResult, WaveInv, TypeOK
<1>5. CASE CacheFails(p)
    BY <1>5, Ends, CacheKept DEF CacheFails, WaveInv, TypeOK
<1>6. CASE Unlock(p)
    <2>1. lock' \in [Key -> BOOLEAN]
        BY <1>6 DEF Unlock, WaveInv, TypeOK
    <2> QED BY <1>6, <2>1, Ends, CacheKept DEF Unlock
<1> QED BY <1>1, <1>2, <1>3, <1>4, <1>5, <1>6

\* The statements that look, and the one that links the answered wave.
LEMMA LooksKeep ==
    ASSUME WaveInv, NEW p \in Request, CheckRecent(p) \/ FindReciprocal(p) \/ LinkReciprocal(p)
    PROVE  WaveInv'
<1>1. lock' \in [Key -> BOOLEAN] /\ UNCHANGED <<row, convo, held, cache>>
    BY DEF CheckRecent, FindReciprocal, LinkReciprocal, WaveInv, TypeOK
<1>2. LocalsOf(req[p]) /\ req[p] \in Command
    BY DEF WaveInv, LocalsKnown, TypeOK
<1>3. CASE CheckRecent(p)
    <2> DEFINE pc == IF \E w \in Sent(req[p].from) : row[w].age = "day"
                     THEN "unlock" ELSE "reciprocal"
    <2>1. pc \in {"unlock", "reciprocal"} /\ Step(p, pc) /\ req[p].pc = "recent"
        BY <1>3 DEF CheckRecent
    <2> HIDE DEF pc
    <2>2. LocalsOf([req[p] EXCEPT !.pc = pc])
        BY <1>2, <2>1 DEF LocalsOf, Command
    <2> QED BY <1>1, <2>1, <2>2, Moves DEF PC
<1>4. CASE LinkReciprocal(p)
    <2>1. LocalsOf([req[p] EXCEPT !.pc = "commit"])
        BY <1>2, <1>4 DEF LinkReciprocal, LocalsOf, Command
    <2> QED BY <1>1, <1>4, <2>1, Moves DEF LinkReciprocal, PC
<1>5. CASE FindReciprocal(p) /\ Step(p, "commit")
    <2>1. LocalsOf([req[p] EXCEPT !.pc = "commit"])
        BY <1>2, <1>5 DEF FindReciprocal, LocalsOf, Command
    <2> QED BY <1>1, <1>5, <2>1, Moves DEF PC
<1>6. ASSUME FindReciprocal(p), NEW w \in Answerable(req[p].from),
             req' = [req EXCEPT ![p].pc = "open", ![p].back = w]
      PROVE  WaveInv'
    <2>1. /\ req[p].pc = "reciprocal" /\ w \in Wave /\ row[w].from = Other(req[p].from)
          /\ row[w].age # "unused" /\ w # NoWave
        BY <1>6, SoundConstants DEF FindReciprocal, Answerable, Sent, Wave, NoWave
    <2>2. req' = [req EXCEPT ![p] = [req[p] EXCEPT !.pc = "open", !.back = w]]
        BY <1>2, <1>6 DEF Command, WaveInv, TypeOK
    <2>3. [req[p] EXCEPT !.pc = "open", !.back = w] \in Command
        BY <1>2, <2>1 DEF Command, PC
    <2>4. /\ req' \in [Request -> Command]
          /\ req'[p] = [req[p] EXCEPT !.pc = "open", !.back = w]
          /\ \A q \in Request \ {p} : req'[q] = req[q]
        BY <2>2, <2>3 DEF WaveInv, TypeOK
    <2>5. /\ req'[p].pc = "open" /\ req'[p].back = w /\ req'[p].from = req[p].from
          /\ req'[p].context = req[p].context /\ req'[p].write = req[p].write
        BY <1>2, <2>4 DEF Command
    <2>6. LocalsOf(req'[p])
        BY <1>2, <2>1, <2>5 DEF LocalsOf
    <2>7. /\ held' \in Request \cup {NoRequest}
          /\ held' = p <=> req'[p].write \in {"accepts", "inserts"}
        BY <1>1, <2>5 DEF WaveInv, TypeOK
    <2> QED BY <1>1, <2>4, <2>6, <2>7, CacheKept, LocalStep
<1> QED BY <1>3, <1>4, <1>5, <1>6 DEF FindReciprocal

\* The transaction takes the conversation of the pair, or finds it accepted.
LEMMA ConvoKeeps ==
    ASSUME WaveInv, NEW p \in Request, FindConvo(p) \/ InsertConvo(p)
    PROVE  WaveInv'
<1>1. lock' \in [Key -> BOOLEAN] /\ UNCHANGED <<row, convo, cache>>
    BY DEF FindConvo, InsertConvo, WaveInv, TypeOK
<1>2. LocalsOf(req[p]) /\ req[p] \in Command
    BY DEF WaveInv, LocalsKnown, TypeOK
<1>3. ASSUME NEW write \in {"found", "accepts", "inserts"},
             req[p].pc \in {"open", "insertConvo"},
             req' = [req EXCEPT ![p].pc = "link", ![p].write = write],
             IF write = "found" THEN UNCHANGED held ELSE held = NoRequest /\ held' = p
      PROVE  WaveInv'
    <2> DEFINE r == [req[p] EXCEPT !.pc = "link", !.write = write]
    <2>1. r \in Command /\ req' = [req EXCEPT ![p] = r]
        BY <1>2, <1>3 DEF Command, PC, WaveInv, TypeOK
    <2>2. /\ r.pc = "link" /\ r.write = write /\ r.back = req[p].back
          /\ r.from = req[p].from /\ r.context = req[p].context
        BY <1>2 DEF Command
    <2> HIDE DEF r
    <2>3. /\ req' \in [Request -> Command] /\ req'[p] = r
          /\ \A q \in Request \ {p} : req'[q] = req[q]
        BY <2>1 DEF WaveInv, TypeOK
    <2>4. LocalsOf(r)
        BY <1>2, <1>3, <2>2 DEF LocalsOf
    <2>5. req[p].write = "none"
        BY <1>2, <1>3 DEF LocalsOf
    <2>6. /\ held' \in Request \cup {NoRequest}
          /\ held' = p <=> write \in {"accepts", "inserts"}
          /\ \A q \in Request \ {p} : held' = q <=> held = q
        BY <1>3, <2>5, SoundConstants DEF WaveInv, TypeOK
    <2> QED BY <1>1, <2>2, <2>3, <2>4, <2>6, CacheKept, LocalStep
<1>4. CASE FindConvo(p) /\ convo = "none"
    <2>1. Step(p, "insertConvo") /\ UNCHANGED held /\ req[p].pc = "open"
        BY <1>4 DEF FindConvo
    <2>2. LocalsOf([req[p] EXCEPT !.pc = "insertConvo"])
        BY <1>2, <2>1 DEF LocalsOf, Command
    <2> QED BY <1>1, <2>1, <2>2, Moves DEF PC
<1>5. CASE FindConvo(p) /\ convo = "accepted"
    BY <1>3, <1>5 DEF FindConvo
<1>6. CASE FindConvo(p) /\ convo = "pending"
    BY <1>3, <1>6 DEF FindConvo
<1>7. CASE InsertConvo(p) /\ convo = "none"
    BY <1>3, <1>7 DEF InsertConvo
<1>8. CASE InsertConvo(p) /\ convo # "none"
    BY <1>1, <1>8, Ends, CacheKept DEF InsertConvo
<1> QED BY <1>4, <1>5, <1>6, <1>7, <1>8 DEF WaveInv, TypeOK

\* The commit stores a wave in an unused row.  A command that has written the
\* conversation marks both waves, and the pair may chat from then on.
LEMMA CommitKeeps ==
    ASSUME WaveInv, NEW p \in Request, Commit(p)
    PROVE  WaveInv'
<1> DEFINE u == req[p].from
<1> DEFINE opens == req[p].write # "none"
<1> DEFINE b == req[p].back
<1>1. LocalsOf(req[p]) /\ req[p] \in Command /\ req[p].pc = "commit"
    BY DEF WaveInv, LocalsKnown, TypeOK, Commit
<1>2. u \in User /\ req[p].context \in Context /\ (b # NoWave <=> opens)
    BY <1>1 DEF LocalsOf
<1>3. PICK w \in Wave :
         /\ row[w].age = "unused"
         /\ row' = [v \in Wave |->
              IF v = w THEN [age |-> "day", from |-> u, opened |-> opens]
              ELSE IF v = b THEN [row[v] EXCEPT !.opened = TRUE] ELSE row[v]]
         /\ req' = [req EXCEPT ![p] = [Idle EXCEPT !.pc = "cache", !.wave = w,
                      !.from = req[p].from, !.context = req[p].context]]
    BY DEF Commit
<1>4. /\ convo' = (IF opens THEN "accepted" ELSE convo) /\ EndHold(p)
      /\ UNCHANGED <<cache, lock>>
    BY DEF Commit
<1>5. w # NoWave /\ row[w].from = NoUser /\ ~row[w].opened
    BY <1>3, SoundConstants DEF Wave, NoWave, WaveInv, RowsKnown, Unused
<1>6. b # NoWave => b \in Wave /\ b # w /\ row[b].from = Other(u)
    BY <1>1, <1>3 DEF LocalsOf, Command
<1>7. /\ row' \in [Wave -> Row]
      /\ row'[w].from = u /\ row'[w].age = "day" /\ row'[w].opened = opens
      /\ \A v \in Wave \ {w} : row'[v].from = row[v].from /\ row'[v].age = row[v].age
    BY <1>2, <1>3 DEF WaveInv, TypeOK, Row
<1>8. /\ \A v \in Wave \ {w, b} : row'[v] = row[v]
      /\ b # NoWave => row'[b].opened
    BY <1>3, <1>6 DEF WaveInv, TypeOK, Row
<1> DEFINE r == [Idle EXCEPT !.pc = "cache", !.wave = w, !.from = req[p].from,
                             !.context = req[p].context]
<1>9. /\ r \in Command /\ r.pc = "cache" /\ r.wave = w /\ r.from = u
      /\ r.context = req[p].context /\ r.back = NoWave /\ r.write = "none"
    BY <1>1 DEF Idle, Command, PC
<1>10. req' = [req EXCEPT ![p] = r]
    BY <1>3
<1> HIDE DEF r
<1>11. /\ req' \in [Request -> Command] /\ req'[p] = r
       /\ \A q \in Request \ {p} : req'[q] = req[q]
    BY <1>9, <1>10 DEF WaveInv, TypeOK
<1>12. TypeOK'
    <2>1. convo' \in {"none", "pending", "accepted"}
        BY <1>4 DEF WaveInv, TypeOK
    <2>2. /\ held' \in Request \cup {NoRequest} /\ held' # p
          /\ \A q \in Request \ {p} : held' = q <=> held = q
        BY <1>4, SoundConstants DEF EndHold, WaveInv, TypeOK
    <2>3. \A q \in Request : held' = q <=> req'[q].write \in {"accepts", "inserts"}
        BY <1>9, <1>11, <2>2 DEF WaveInv, TypeOK
    <2> QED BY <1>4, <1>7, <1>11, <2>1, <2>2, <2>3 DEF WaveInv, TypeOK
<1>13. ASSUME NEW q \in Request
       PROVE  LocalsOf(req[q])'
    <2>1. CASE q = p
        BY <1>2, <1>7, <1>9, <1>11, <1>5, <2>1 DEF LocalsOf
    <2>2. CASE q # p
        <3>1. LocalsOf(req[q]) /\ req[q] \in Command /\ req'[q] = req[q]
            BY <1>11, <2>2 DEF WaveInv, LocalsKnown, TypeOK
        <3>2. req[q].back # NoWave => req[q].back \in Wave \ {w}
            BY <1>3, <3>1 DEF LocalsOf, Command
        <3>3. req[q].pc = "cache" => req[q].wave \in Wave \ {w}
            BY <1>5, <3>1, SoundConstants DEF LocalsOf, Command
        <3> QED BY <1>7, <3>1, <3>2, <3>3 DEF LocalsOf
    <2> QED BY <2>1, <2>2
<1>14. RowsKnown'
    <2> SUFFICES ASSUME NEW v \in Wave, row'[v].age = "unused" PROVE row'[v] = Unused
        BY DEF RowsKnown
    <2>1. v # w /\ row[v].age = "unused"
        BY <1>7
    <2>2. v # b
        BY <1>1, <1>6, <2>1 DEF LocalsOf, Wave, NoWave
    <2> QED BY <1>8, <2>1, <2>2 DEF WaveInv, RowsKnown
<1>15. MatchIsMutual'
    <2> SUFFICES ASSUME NEW v \in Wave, row'[v].opened
                 PROVE  convo' = "accepted" /\ \E x \in Wave :
                            row'[x].from = Other(row'[v].from) /\ row'[x].opened
        BY DEF MatchIsMutual, Sent
    <2>1. CASE v = w
        BY <1>2, <1>4, <1>6, <1>7, <1>8, <2>1
    <2>2. CASE v = b /\ v # w
        <3>1. opens /\ row'[w].opened /\ row'[w].from = u
            <4>1. b # NoWave
                BY <2>2 DEF Wave, NoWave
            <4> QED BY <1>2, <1>7, <4>1
        <3>2. row'[v].from = Other(u)
            BY <1>2, <1>6, <1>7, <2>2, <3>1
        <3> QED BY <1>2, <1>4, <3>1, <3>2, Others
    <2>3. CASE v \notin {w, b}
        <3>1. row[v].opened /\ row'[v] = row[v]
            BY <1>8, <2>3
        <3>2. PICK x \in Wave : row[x].from = Other(row[v].from) /\ row[x].opened
            BY <3>1 DEF WaveInv, MatchIsMutual, Sent
        <3>3. convo' = "accepted"
            BY <1>4, <3>1 DEF WaveInv, MatchIsMutual
        <3>4. x # w /\ row'[x].from = row[x].from /\ row'[x].opened
            BY <1>5, <1>7, <1>8, <3>2 DEF Wave, NoWave
        <3> QED BY <3>1, <3>2, <3>3, <3>4
    <2> QED BY <2>1, <2>2, <2>3
<1>16. ReplayIsDurable'
    <2> SUFFICES ASSUME NEW k \in Key, cache[k] # NoWave
                 PROVE  row'[cache[k]].from = k[1]
        BY <1>4 DEF ReplayIsDurable
    <2>1. cache[k] \in Wave /\ row[cache[k]].from = k[1] /\ k[1] \in User
        BY DEF WaveInv, TypeOK, ReplayIsDurable, Key
    <2>2. cache[k] # w
        BY <1>5, <2>1, SoundConstants
    <2> QED BY <1>7, <2>1, <2>2
<1> QED BY <1>12, <1>13, <1>14, <1>15, <1>16 DEF WaveInv, LocalsKnown

\* Time passes for keys and rows; the pair's messages accept the conversation.
LEMMA TimeKeeps ==
    ASSUME WaveInv,
           \/ \E k \in Key : LockExpires(k) \/ CacheExpires(k)
           \/ \E w \in Wave : Age(w)
           \/ OpenForMessaging \/ ReplyAccepts
    PROVE  WaveInv'
<1>1. ASSUME NEW k \in Key, LockExpires(k) \/ CacheExpires(k)
      PROVE  WaveInv'
    <2>1. UNCHANGED <<row, convo, held, req>> /\ lock' \in [Key -> BOOLEAN]
        BY <1>1 DEF LockExpires, CacheExpires, WaveInv, TypeOK
    <2>2. CacheKnown'
        BY <1>1 DEF LockExpires, CacheExpires, WaveInv, TypeOK, CacheKnown, ReplayIsDurable
    <2>3. LocalsKnown' /\ RowsKnown' /\ MatchIsMutual'
        BY <2>1 DEF WaveInv, LocalsKnown, LocalsOf, RowsKnown, MatchIsMutual, Sent
    <2> QED BY <2>1, <2>2, <2>3 DEF WaveInv, TypeOK, CacheKnown
<1>2. ASSUME NEW w \in Wave, Age(w)
      PROVE  WaveInv'
    <2>1. UNCHANGED <<convo, held, cache, lock, req>> /\ row' \in [Wave -> Row]
        BY <1>2 DEF Age, WaveInv, TypeOK, Row
    <2>2. \A v \in Wave : /\ row'[v].from = row[v].from /\ row'[v].opened = row[v].opened
                          /\ row'[v].age = "unused" <=> row[v].age = "unused"
                          /\ v # w => row'[v] = row[v]
        BY <1>2 DEF Age, WaveInv, TypeOK, Row
    <2>3. ASSUME NEW q \in Request PROVE LocalsOf(req[q])'
        <3>1. LocalsOf(req[q]) /\ req[q] \in Command
            BY DEF WaveInv, LocalsKnown, TypeOK
        <3> QED BY <2>1, <2>2, <3>1 DEF LocalsOf, Command
    <2>4. RowsKnown'
        BY <1>2, <2>2 DEF Age, WaveInv, RowsKnown
    <2>5. MatchIsMutual' /\ ReplayIsDurable'
        BY <2>1, <2>2 DEF WaveInv, TypeOK, MatchIsMutual, ReplayIsDurable, Sent
    <2> QED BY <2>1, <2>3, <2>4, <2>5 DEF WaveInv, TypeOK, LocalsKnown
<1>3. CASE OpenForMessaging \/ ReplyAccepts
    <2>1. UNCHANGED <<row, held, cache, lock, req>>
        BY <1>3 DEF OpenForMessaging, ReplyAccepts
    <2>2. /\ convo' \in {"none", "pending", "accepted"}
          /\ convo = "accepted" => convo' = "accepted"
        BY <1>3 DEF OpenForMessaging, ReplyAccepts
    <2> QED BY <2>1, <2>2 DEF WaveInv, TypeOK, LocalsKnown, LocalsOf, RowsKnown, MatchIsMutual,
            ReplayIsDurable, Sent
<1> QED BY <1>1, <1>2, <1>3

\* Rows no statement sees any more are dropped while nothing refers to them.
LEMMA ForgetKeeps == ASSUME WaveInv, Forget PROVE WaveInv'
<1>1. /\ \A q \in Request : req[q].pc = "idle"
      /\ \A k \in Key : cache[k] = NoWave
      /\ row' = [w \in Wave |-> Unused] /\ UNCHANGED <<convo, held, cache, lock, req>>
    BY DEF Forget
<1>2. row' \in [Wave -> Row]
    BY <1>1 DEF Unused, Row
<1>3. \A q \in Request : req[q].back = NoWave
    BY <1>1 DEF WaveInv, LocalsKnown, LocalsOf
<1>4. LocalsKnown'
    BY <1>1, <1>3 DEF WaveInv, LocalsKnown, LocalsOf
<1>5. \A w \in Wave : row'[w] = Unused /\ ~row'[w].opened
    BY <1>1 DEF Unused
<1>6. RowsKnown' /\ MatchIsMutual'
    BY <1>5 DEF RowsKnown, MatchIsMutual
<1>7. ReplayIsDurable'
    BY <1>1 DEF ReplayIsDurable
<1> QED BY <1>1, <1>2, <1>4, <1>6, <1>7 DEF WaveInv, TypeOK

\* Every step keeps the invariant.
LEMMA NextWave == ASSUME WaveInv, [Next]_vars PROVE WaveInv'
<1>1. ASSUME NEW p \in Request, Abort(p) \/ Crash(p)
      PROVE  WaveInv'
    <2>1. lock' \in [Key -> BOOLEAN] /\ UNCHANGED <<row, convo, cache>> /\ EndHold(p)
        BY <1>1 DEF Abort, Crash, WaveInv, TypeOK
    <2> QED BY <1>1, <2>1, Ends, CacheKept DEF Abort, Crash
<1>2. CASE UNCHANGED vars
    BY <1>2 DEF vars, WaveInv, TypeOK, LocalsKnown, LocalsOf, RowsKnown, MatchIsMutual,
        ReplayIsDurable, Sent
<1> QED BY <1>1, <1>2, KeysKeep, LooksKeep, ConvoKeeps, CommitKeeps, TimeKeeps, ForgetKeeps
        DEF Next, Handle, Transaction

\* The invariant holds of every reachable state.
LEMMA Reachable == Spec => []WaveInv
BY InitWave, NextWave, PTL DEF Spec

\* Every reachable state of the pair's waves has its type, and a transaction
\* holds the conversation exactly while it has written it.
THEOREM TypeCorrect == Spec => []TypeOK
<1>1. WaveInv => TypeOK
    BY DEF WaveInv
<1> QED BY <1>1, Reachable, PTL

\* A match is stored for both users or for neither, whatever fails, repeats or
\* expires between the statements of the commands in flight.
THEOREM MatchesAreMutual == Spec => []MatchIsMutual
<1>1. WaveInv => MatchIsMutual
    BY DEF WaveInv
<1> QED BY <1>1, Reachable, PTL

\* What the idempotency cache replays is a wave its asker has stored.
THEOREM ReplaysAreDurable == Spec => []ReplayIsDurable
<1>1. WaveInv => ReplayIsDurable
    BY DEF WaveInv
<1> QED BY <1>1, Reachable, PTL
=============================================================================
