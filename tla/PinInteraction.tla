--------------------------- MODULE PinInteraction ---------------------------
(***************************************************************************)
(* The map's selected pin: the state machine behind the sheet of a person, *)
(* the one request a state may have under way, and the socket events that  *)
(* change it.  A tap on another pin is accepted in every state; a state    *)
(* that is left drops its request, which the server may serve all the      *)
(* same.  detailSheet branches at once and is not a state here.            *)
(***************************************************************************)
EXTENDS Naturals, FiniteSets

CONSTANTS
    Pin, NoPin,
    Friend,     \* those who may be messaged without a mutual wave
    MaxStray    \* bound: requests of states that were left, at once

\* What is assumed of the constants.
SoundConstants == NoPin \notin Pin /\ Friend \subseteq Pin /\ MaxStray \in Nat

VARIABLES
    layer,      \* the map's layer
    at,         \* the state of the machine
    pin, mode,  \* context.pinId and context.viewerMode
    c,          \* the rest of the context
    inv,        \* the request of the present state
    heard,      \* the pin the socket listeners were made for
    stray,      \* requests of states that were left, on their way
    waved, wavers, liked, likers, matched,  \* the server, about the viewer
    wire,       \* socket events on their way
    answered    \* history: what succeeded for this selection

machine == <<at, pin, mode, c, inv, answered>>
server == <<waved, wavers, liked, likers, matched>>
vars == <<layer, machine, heard, stray, server, wire>>

Layer == {"social", "dating"}
Social == {"social.viewing", "wavePending", "waveSent", "mutualWave", "social.messaging"}
Dating == {"dating.viewing", "likePending", "liked", "matched", "passed",
           "dating.messaging"}
Kind == {"load", "wave", "like", "pass", "block"}
Context == [wave : BOOLEAN, mutual : BOOLEAN, can : BOOLEAN,
            like : BOOLEAN, match : BOOLEAN, passed : BOOLEAN]
Invocation == [kind : Kind \cup {"none"}, pin : Pin \cup {NoPin},
               got : {"none", "ok", "mutual", "failed"}, can : BOOLEAN]

Cleared == [wave |-> FALSE, mutual |-> FALSE, can |-> FALSE,
            like |-> FALSE, match |-> FALSE, passed |-> FALSE]
NoCall == [kind |-> "none", pin |-> NoPin, got |-> "none", can |-> FALSE]
Calling(kind, p) == [kind |-> kind, pin |-> p, got |-> "none", can |-> FALSE]

TypeOK ==
    /\ layer \in Layer /\ mode \in Layer
    /\ at \in {"idle", "loadingPin", "preview", "fullProfile", "blocking", "error"}
              \cup Social \cup Dating
    /\ pin \in Pin \cup {NoPin} /\ heard \in Pin \cup {NoPin}
    /\ c \in Context /\ inv \in Invocation
    /\ stray \subseteq Kind \X Pin
    /\ waved \subseteq Pin /\ wavers \subseteq Pin /\ liked \subseteq Pin
    /\ likers \subseteq Pin /\ matched \subseteq Pin
    /\ wire \subseteq {"wave:mutual", "match_created"} \X Pin
    /\ answered \subseteq {"wave", "like"}
    /\ pin = NoPin <=> at = "idle"
    /\ inv.kind # "none" <=>
          at \in {"loadingPin", "wavePending", "likePending", "passed", "blocking"}

Init ==
    /\ layer = "social" /\ mode = "social" /\ at = "idle" /\ pin = NoPin
    /\ c = Cleared /\ inv = NoCall /\ heard = NoPin /\ stray = {}
    /\ waved = {} /\ wavers = {} /\ liked = {} /\ likers = {} /\ matched = {}
    /\ wire = {} /\ answered = {}

-----------------------------------------------------------------------------
(* Root events *)

\* Leaving a state stops its request here, not on the server.
Abandon ==
    /\ stray' = IF inv.kind \in {"wave", "like", "pass"} /\ inv.got = "none"
                THEN stray \cup {<<inv.kind, inv.pin>>} ELSE stray
    /\ Cardinality(stray') <= MaxStray

\* resetToIdle
ToIdle ==
    /\ at' = "idle" /\ pin' = NoPin /\ c' = Cleared /\ inv' = NoCall
    /\ answered' = {}
    /\ UNCHANGED mode

\* What is known of the pin before goes.
Forget == Cleared

\* assignPin, loadingPin
PIN_TAP(p) ==
    /\ Abandon
    /\ at' = "loadingPin" /\ pin' = p /\ mode' = layer
    /\ c' = Forget /\ inv' = Calling("load", p) /\ answered' = {}
    /\ UNCHANGED <<layer, heard, server, wire>>

\* The layer is switched, and the effect tells the machine.  In the variant
\* the sheet stays open.
SheetStays == UNCHANGED <<machine, stray>>
ResetForLayer == Abandon /\ ToIdle

LAYER_CHANGED(l) ==
    /\ l # layer /\ layer' = l
    /\ ResetForLayer
    /\ UNCHANGED <<heard, server, wire>>

DISMISS ==
    /\ at # "idle"
    /\ Abandon /\ ToIdle
    /\ UNCHANGED <<layer, heard, server, wire>>

-----------------------------------------------------------------------------
(* The sheet.  Its buttons are those of the pin that is rendered. *)

canWave == mode = "social" /\ ~c.wave
canLike == mode = "dating" /\ ~c.like /\ ~c.passed
canMessageSocial == c.mutual \/ c.can
canMessageDating == c.match

Goes(from, to) ==
    /\ at \in from /\ heard = pin
    /\ at' = to /\ inv' = NoCall
    /\ UNCHANGED <<layer, pin, mode, c, answered, heard, stray, server, wire>>

Asks(from, to, kind) ==
    /\ at \in from /\ heard = pin
    /\ at' = to /\ inv' = Calling(kind, pin)
    /\ UNCHANGED <<layer, pin, mode, answered, heard, stray, server, wire>>

\* detailSheet and its branch
Sheet == IF mode = "dating" THEN "dating.viewing" ELSE "social.viewing"
OPEN_DETAIL == Goes({"preview"}, Sheet)
BACK == Goes({"fullProfile"}, Sheet)

OPEN_FULL ==
    Goes({"social.viewing", "waveSent", "mutualWave", "dating.viewing", "liked",
          "matched"}, "fullProfile")

\* QUICK_WAVE, SEND_WAVE; QUICK_LIKE, SEND_LIKE
SEND_WAVE ==
    /\ canWave
    /\ Asks({"preview", "social.viewing", "fullProfile"}, "wavePending", "wave")
    /\ UNCHANGED c
SEND_LIKE ==
    /\ canLike
    /\ Asks({"preview", "dating.viewing", "fullProfile"}, "likePending", "like")
    /\ UNCHANGED c

\* passed: its entry sets the flag before the request is answered.
PASS ==
    /\ at = "dating.viewing" \/ mode = "dating"
    /\ Asks({"dating.viewing", "fullProfile"}, "passed", "pass")
    /\ c' = [c EXCEPT !.passed = TRUE]

\* In the variant the profile asks for no match.
AnyDating == mode = "dating"
MatchFromProfile == canMessageDating

MESSAGE ==
    \/ /\ canMessageDating
       /\ Goes({"dating.viewing", "liked"}, "dating.messaging")
    \/ Goes({"matched"}, "dating.messaging")
    \/ MatchFromProfile /\ Goes({"fullProfile"}, "dating.messaging")
    \/ /\ ~canMessageDating /\ canMessageSocial
       /\ Goes({"fullProfile"}, "social.messaging")
    \/ /\ canMessageSocial
       /\ Goes({"social.viewing", "waveSent"}, "social.messaging")
    \/ Goes({"mutualWave"}, "social.messaging")

BLOCK ==
    /\ Asks({"fullProfile", "social.viewing", "waveSent", "mutualWave",
             "dating.viewing", "liked", "matched"}, "blocking", "block")
    /\ UNCHANGED c

RETRY == Asks({"error"}, "loadingPin", "load") /\ UNCHANGED c

-----------------------------------------------------------------------------
(* Answers *)

\* The variant forgets that the wave was sent.
NotNoted == FALSE
setWaveSent == TRUE

\* onDone and onError of the present state's request.
Arrives ==
    /\ inv.got # "none"
    /\ LET failed == inv.got = "failed" mutual == inv.got = "mutual" IN
       CASE inv.kind = "load" ->
              /\ at' = IF failed THEN "error" ELSE "preview"
              /\ c' = IF failed THEN c
                      ELSE [Cleared EXCEPT !.mutual = mutual, !.can = inv.can]
              /\ UNCHANGED answered
         [] inv.kind = "wave" ->
              /\ at' = IF failed THEN "social.viewing"
                       ELSE IF mutual THEN "mutualWave" ELSE "waveSent"
              /\ c' = IF failed THEN c
                      ELSE [c EXCEPT !.wave = setWaveSent, !.mutual = @ \/ mutual,
                                     !.can = @ \/ mutual]
              /\ answered' = IF failed THEN answered ELSE answered \cup {"wave"}
         [] inv.kind = "like" ->
              /\ at' = IF failed THEN "dating.viewing"
                       ELSE IF mutual THEN "matched" ELSE "liked"
              /\ c' = IF failed THEN c
                      ELSE [c EXCEPT !.like = TRUE, !.match = @ \/ mutual]
              /\ answered' = IF failed THEN answered ELSE answered \cup {"like"}
         [] inv.kind = "pass" /\ failed -> at' = "dating.viewing" /\ UNCHANGED <<c, answered>>
         [] inv.kind = "block" /\ failed -> at' = Sheet /\ UNCHANGED <<c, answered>>
         [] OTHER -> at' = "idle" /\ c' = Cleared /\ answered' = {}
    /\ pin' = IF at' = "idle" THEN NoPin ELSE pin
    /\ inv' = NoCall
    /\ UNCHANGED <<layer, mode, heard, stray, server, wire>>

\* The listeners are made again for the pin on the screen.
Rendered ==
    /\ heard # pin /\ heard' = pin
    /\ UNCHANGED <<layer, machine, stray, server, wire>>

\* wave:mutual and dating:match_created, if they are about the pin heard of and
\* the machine waits for them.  The variant asks only the listener.
AnyState(s) == at # "idle"
InState(s) == at = s

Awaited(e) ==
    /\ e[2] = heard
    /\ \/ e[1] = "wave:mutual" /\ InState("waveSent")
       \/ e[1] = "match_created" /\ InState("liked")

Hear(e) ==
    /\ e \in wire /\ wire' = wire \ {e}
    /\ IF ~Awaited(e) THEN UNCHANGED <<at, c, inv>>
       ELSE /\ inv' = NoCall
            /\ IF e[1] = "wave:mutual"
               THEN at' = "mutualWave" /\ c' = [c EXCEPT !.mutual = TRUE, !.can = TRUE]
               ELSE at' = "matched" /\ c' = [c EXCEPT !.match = TRUE]
    /\ UNCHANGED <<layer, pin, mode, answered, heard, stray, server>>

-----------------------------------------------------------------------------
(* The server, one step per request, and the peers *)

\* A block is refused nothing; a like that stands is a conflict.
Effect(kind, p) ==
    /\ waved' = IF kind = "wave" THEN waved \cup {p} ELSE waved
    /\ liked' = CASE kind = "like" -> liked \cup {p}
                  [] kind = "pass" -> liked \ {p}
                  [] OTHER -> liked
    /\ matched' = IF kind = "like" /\ p \in likers THEN matched \cup {p} ELSE matched
    /\ wire' = wire \cup (IF kind = "like" /\ p \in likers /\ p \notin liked
                          THEN {<<"match_created", p>>} ELSE {})
    /\ UNCHANGED <<wavers, likers>>

Outcome(kind, p) ==
    CASE kind = "like" /\ p \in liked -> "failed"
      [] kind = "like" /\ p \in likers -> "mutual"
      [] kind = "wave" /\ p \in wavers -> "mutual"
      [] kind = "load" /\ p \in waved \cap wavers -> "mutual"
      [] OTHER -> "ok"

Serve ==
    /\ inv.kind # "none" /\ inv.got = "none"
    /\ Effect(inv.kind, inv.pin)
    /\ inv' = [inv EXCEPT !.got = Outcome(inv.kind, inv.pin),
                          !.can = inv.pin \in Friend \cup (waved \cap wavers)]
    /\ UNCHANGED <<layer, at, pin, mode, c, answered, heard, stray>>

\* Refused, or lost on the way there or back.
Lose ==
    /\ inv.kind # "none"
    /\ Abandon /\ inv' = [inv EXCEPT !.got = "failed"]
    /\ UNCHANGED <<layer, at, pin, mode, c, answered, heard, server, wire>>

ServeStray(s) ==
    /\ s \in stray /\ stray' = stray \ {s}
    /\ Effect(s[1], s[2])
    /\ UNCHANGED <<layer, machine, heard>>

PeerWaves(p) ==
    /\ p \notin wavers /\ wavers' = wavers \cup {p}
    /\ wire' = IF p \in waved THEN wire \cup {<<"wave:mutual", p>>} ELSE wire
    /\ UNCHANGED <<layer, machine, heard, stray, waved, liked, likers, matched>>

PeerLikes(p) ==
    /\ p \notin likers /\ likers' = likers \cup {p}
    /\ IF p \in liked
       THEN matched' = matched \cup {p} /\ wire' = wire \cup {<<"match_created", p>>}
       ELSE UNCHANGED <<matched, wire>>
    /\ UNCHANGED <<layer, machine, heard, stray, waved, wavers, liked>>

Next ==
    \/ \E p \in Pin : PIN_TAP(p) \/ PeerWaves(p) \/ PeerLikes(p)
    \/ \E l \in Layer : LAYER_CHANGED(l)
    \/ DISMISS \/ OPEN_DETAIL \/ BACK \/ OPEN_FULL \/ SEND_WAVE \/ SEND_LIKE
    \/ PASS \/ MESSAGE \/ BLOCK \/ RETRY
    \/ Arrives \/ Rendered \/ Serve \/ Lose
    \/ \E e \in wire : Hear(e)
    \/ \E s \in stray : ServeStray(s)

Spec == Init /\ [][Next]_vars

-----------------------------------------------------------------------------
(* Properties *)

\* What the sheet says of the person is so on the server, whatever answers
\* and events of other pins come late.
ShownIsServer ==
    /\ c.wave => pin \in waved
    /\ c.mutual => pin \in waved \cap wavers
    /\ c.match => pin \in matched

\* A dating conversation opens only with a match, a social one only with a
\* mutual wave or a friend.
MessageNeedsMatch ==
    /\ at = "dating.messaging" => pin \in matched
    /\ at = "social.messaging" => pin \in Friend \cup (waved \cap wavers)

\* An open sheet acts for the layer the map shows: no like from the people
\* layer, no wave from dating.
LayersStayApart ==
    /\ pin # NoPin => mode = layer
    /\ at \in Dating => layer = "dating"
    /\ at \in Social \ {"social.messaging"} => layer = "social"

\* Along no path is a wave or a like that succeeded asked for again.
AskedOnce ==
    [][\A kind \in {"wave", "like"} :
         inv'.kind = kind /\ inv.kind # kind => kind \notin answered]_vars

\* The sheet is right about the person, about the layer and about what it lets
\* the user do, and asks for nothing twice.
SheetIsRight ==
    /\ [](ShownIsServer /\ MessageNeedsMatch /\ LayersStayApart)
    /\ AskedOnce
=============================================================================
