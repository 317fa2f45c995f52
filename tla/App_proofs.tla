----------------------------- MODULE App_proofs -----------------------------
(***************************************************************************)
(* Proofs about the sheet of a person on the map, the app's outbox and one *)
(* event, for any number of pins, messages, sends, guests and handlers.    *)
(***************************************************************************)
EXTENDS MCApp, FiniteSetTheorems, TLAPS

-----------------------------------------------------------------------------
(* The sheet of a person *)

\* A request that the machine waits for is about the selected pin.
CallKnown == inv.kind # "none" => inv.pin = pin

LEMMA InitTypeOK == Init => TypeOK /\ CallKnown
BY DEF Init, TypeOK, CallKnown, Layer, Cleared, Context, NoCall, Invocation, Kind

\* The records an action assigns have their types.
LEMMA RecordTypes ==
    /\ Cleared \in Context
    /\ NoCall \in Invocation /\ NoCall.kind = "none"
    /\ \A kind \in Kind, p \in Pin :
          /\ Calling(kind, p) \in Invocation
          /\ Calling(kind, p).kind = kind /\ Calling(kind, p).pin = p
BY DEF Cleared, Context, NoCall, Invocation, Calling

LEMMA AnswerTypes ==
    ASSUME NEW i \in Invocation, NEW got \in {"ok", "mutual", "failed"}, NEW b \in BOOLEAN
    PROVE  LET j == [i EXCEPT !.got = got, !.can = b] IN
           j \in Invocation /\ j.kind = i.kind /\ j.pin = i.pin
BY DEF Invocation

\* What an answer writes into the context has its type.
LEMMA ContextTypes ==
    ASSUME NEW d \in Context, NEW b1 \in BOOLEAN, NEW b2 \in BOOLEAN
    PROVE  /\ [d EXCEPT !.mutual = b1, !.can = b2] \in Context
           /\ [d EXCEPT !.wave = TRUE, !.mutual = @ \/ b1, !.can = @ \/ b2] \in Context
           /\ [d EXCEPT !.like = TRUE, !.match = @ \/ b1] \in Context
BY DEF Context

\* A request keeps its pin when its state is left.
LEMMA AbandonTypes ==
    ASSUME TypeOK, CallKnown, Abandon
    PROVE  stray' \subseteq Kind \X Pin
<1>1. CASE inv.kind \in {"wave", "like", "pass"} /\ inv.got = "none"
    <2>1. inv.kind \in Kind /\ inv.pin \in Pin
        BY <1>1 DEF TypeOK, CallKnown, Kind
    <2> QED BY <1>1, <2>1 DEF TypeOK, Abandon
<1>2. CASE ~(inv.kind \in {"wave", "like", "pass"} /\ inv.got = "none")
    BY <1>2 DEF TypeOK, Abandon
<1> QED BY <1>1, <1>2

\* What a request does on the server has its type.
LEMMA EffectTypes ==
    ASSUME TypeOK, NEW kind \in Kind, NEW p \in Pin, Effect(kind, p)
    PROVE  /\ waved' \subseteq Pin /\ wavers' \subseteq Pin /\ liked' \subseteq Pin
           /\ likers' \subseteq Pin /\ matched' \subseteq Pin
           /\ wire' \subseteq {"wave:mutual", "match_created"} \X Pin
BY DEF TypeOK, Effect, Kind

\* The sheet's buttons.
Button == OPEN_DETAIL \/ BACK \/ OPEN_FULL \/ MESSAGE
Asking == SEND_WAVE \/ SEND_LIKE \/ PASS \/ BLOCK \/ RETRY

LEMMA ButtonGoes ==
    ASSUME TypeOK, CallKnown, Button
    PROVE  /\ at \in {"preview", "fullProfile"} \cup Social \cup Dating
           /\ at' \in {"fullProfile", "social.viewing", "dating.viewing",
                       "social.messaging", "dating.messaging"}
           /\ heard = pin /\ inv' = NoCall
           /\ UNCHANGED <<layer, pin, mode, c, answered, heard, stray, server, wire>>
BY DEF Button, OPEN_DETAIL, BACK, OPEN_FULL, MESSAGE, Goes, Sheet, Social, Dating

LEMMA AskingAsks ==
    ASSUME TypeOK, CallKnown, Asking
    PROVE  /\ at # "idle"
           /\ heard = pin
           /\ \/ at' = "wavePending" /\ inv' = Calling("wave", pin)
              \/ at' = "likePending" /\ inv' = Calling("like", pin)
              \/ at' = "passed" /\ inv' = Calling("pass", pin)
              \/ at' = "blocking" /\ inv' = Calling("block", pin)
              \/ at' = "loadingPin" /\ inv' = Calling("load", pin)
           /\ c' \in Context /\ c'.wave = c.wave /\ c'.like = c.like
           /\ c'.mutual = c.mutual /\ c'.can = c.can /\ c'.match = c.match
           /\ UNCHANGED <<layer, pin, mode, answered, heard, stray, server, wire>>
BY DEF Asking, SEND_WAVE, SEND_LIKE, PASS, BLOCK, RETRY, Asks, TypeOK, Context

\* A step of the machine alone keeps the types if what it assigns has them.
LEMMA MachineTypes ==
    ASSUME TypeOK, CallKnown,
           layer' \in Layer, mode' \in Layer, pin' \in Pin \cup {NoPin},
           at' \in {"idle", "loadingPin", "preview", "fullProfile", "blocking", "error"}
                     \cup Social \cup Dating,
           c' \in Context, inv' \in Invocation, answered' \subseteq {"wave", "like"},
           stray' \subseteq Kind \X Pin, wire' \subseteq wire,
           pin' = NoPin <=> at' = "idle",
           inv'.kind # "none" <=>
              at' \in {"loadingPin", "wavePending", "likePending", "passed", "blocking"},
           inv'.kind # "none" => inv'.pin = pin',
           UNCHANGED <<heard, waved, wavers, liked, likers, matched>>
    PROVE  TypeOK' /\ CallKnown'
BY DEF TypeOK, CallKnown

LEMMA NextTypeOK ==
    ASSUME SoundConstants, TypeOK, CallKnown, [Next]_vars
    PROVE  TypeOK' /\ CallKnown'
<1> USE DEF machine, server
<1> DEFINE Pending == {"loadingPin", "wavePending", "likePending", "passed", "blocking"}
<1>1. ASSUME NEW p \in Pin, PIN_TAP(p)
      PROVE  TypeOK' /\ CallKnown'
    <2>1. stray' \subseteq Kind \X Pin
        BY <1>1, AbandonTypes DEF PIN_TAP
    <2>2. "load" \in Kind /\ p # NoPin /\ layer \in Layer
        BY DEF Kind, SoundConstants, TypeOK
    <2>3. /\ at' = "loadingPin" /\ pin' = p /\ mode' = layer
          /\ c' = Cleared /\ inv' = Calling("load", p) /\ answered' = {}
          /\ UNCHANGED <<layer, heard, waved, wavers, liked, likers, matched, wire>>
        BY <1>1 DEF PIN_TAP, Forget
    <2> QED BY <2>1, <2>2, <2>3, RecordTypes, MachineTypes
<1>2. ASSUME \/ \E l \in Layer : LAYER_CHANGED(l)
             \/ DISMISS
      PROVE  TypeOK' /\ CallKnown'
    <2>1. stray' \subseteq Kind \X Pin
        BY <1>2, AbandonTypes DEF LAYER_CHANGED, DISMISS, ResetForLayer
    <2>2. /\ at' = "idle" /\ pin' = NoPin /\ c' = Cleared /\ inv' = NoCall
          /\ answered' = {} /\ mode' = mode
          /\ UNCHANGED <<heard, waved, wavers, liked, likers, matched, wire>>
        BY <1>2 DEF LAYER_CHANGED, DISMISS, ResetForLayer, ToIdle
    <2>3. layer' \in Layer /\ mode' \in Layer
        BY <1>2, <2>2 DEF LAYER_CHANGED, DISMISS, TypeOK
    <2> QED BY <2>1, <2>2, <2>3, RecordTypes, MachineTypes
<1>3. CASE Button
    <2>1. /\ at' # "idle" /\ at' \notin Pending /\ at # "idle"
          /\ at' \in {"fullProfile"} \cup Social \cup Dating
        BY <1>3, ButtonGoes DEF Social, Dating
    <2>2. layer \in Layer /\ mode \in Layer /\ pin \in Pin /\ c \in Context
          /\ answered \subseteq {"wave", "like"} /\ stray \subseteq Kind \X Pin
        BY <2>1 DEF TypeOK
    <2>3. pin # NoPin
        BY <2>2 DEF SoundConstants
    <2>4. inv' = NoCall
          /\ UNCHANGED <<layer, pin, mode, c, answered, heard, stray, server, wire>>
        BY <1>3, ButtonGoes
    <2> QED BY <2>1, <2>2, <2>3, <2>4, RecordTypes, MachineTypes
<1>4. CASE Asking
    <2>1. /\ at' # "idle" /\ at' \in Pending
          /\ at' \in {"loadingPin", "blocking"} \cup Social \cup Dating
        BY <1>4, AskingAsks DEF Social, Dating
    <2>2. layer \in Layer /\ mode \in Layer /\ pin \in Pin
          /\ answered \subseteq {"wave", "like"} /\ stray \subseteq Kind \X Pin
        BY <1>4, AskingAsks DEF TypeOK
    <2>3. pin # NoPin
        BY <2>2 DEF SoundConstants
    <2>4. c' \in Context
          /\ UNCHANGED <<layer, pin, mode, answered, heard, stray, server, wire>>
        BY <1>4, AskingAsks
    <2>5. inv' \in Invocation /\ inv'.kind # "none" /\ inv'.pin = pin
        BY <1>4, <2>2, AskingAsks, RecordTypes DEF Kind
    <2> QED BY <2>1, <2>2, <2>3, <2>4, <2>5, MachineTypes
<1>5. CASE Arrives
    <2>1. c' \in Context
        <3>1. c \in Context /\ inv.can \in BOOLEAN
            BY DEF TypeOK, Invocation
        <3>2. (inv.got = "mutual") \in BOOLEAN
            OBVIOUS
        <3>3. CASE inv.kind = "load"
            <4>1. c' \in {c, [Cleared EXCEPT !.mutual = (inv.got = "mutual"), !.can = inv.can]}
                BY <1>5, <3>3 DEF Arrives
            <4>2. [Cleared EXCEPT !.mutual = (inv.got = "mutual"), !.can = inv.can] \in Context
                BY <3>1, <3>2, ContextTypes, RecordTypes
            <4> QED BY <3>1, <4>1, <4>2
        <3>4. CASE inv.kind = "wave"
            BY <1>5, <3>1, <3>2, <3>4, ContextTypes DEF Arrives, setWaveSent
        <3>5. CASE inv.kind = "like"
            BY <1>5, <3>1, <3>2, <3>5, ContextTypes DEF Arrives
        <3>6. CASE inv.kind \notin {"load", "wave", "like"}
            BY <1>5, <3>1, <3>6, RecordTypes DEF Arrives
        <3> QED BY <3>3, <3>4, <3>5, <3>6
    <2>2. answered' \subseteq {"wave", "like"}
        <3>1. answered \subseteq {"wave", "like"}
            BY DEF TypeOK
        <3>2. answered' \in {answered, answered \cup {"wave"}, answered \cup {"like"}, {}}
            BY <1>5 DEF Arrives
        <3> QED BY <3>1, <3>2
    <2>3. at' \in {"idle", "preview", "error", "social.viewing", "waveSent", "mutualWave",
                   "dating.viewing", "liked", "matched"}
        BY <1>5 DEF Arrives, Sheet
    <2>4. at' \in {"idle", "preview", "error"} \cup Social \cup Dating /\ at' \notin Pending
        BY <2>3 DEF Social, Dating
    <2>5. pin' = NoPin <=> at' = "idle"
        <3>1. at' # "idle" => inv.kind # "none"
            BY <1>5 DEF Arrives
        <3>2. at' # "idle" => pin # NoPin
            BY <3>1 DEF TypeOK
        <3> QED BY <1>5, <3>2 DEF Arrives
    <2>6. inv' = NoCall /\ pin' \in {pin, NoPin}
          /\ UNCHANGED <<layer, mode, heard, stray, server, wire>>
        BY <1>5 DEF Arrives
    <2>7. layer \in Layer /\ mode \in Layer /\ pin \in Pin \cup {NoPin}
          /\ stray \subseteq Kind \X Pin
        BY DEF TypeOK
    <2> QED BY <2>1, <2>2, <2>4, <2>5, <2>6, <2>7, RecordTypes, MachineTypes
<1>6. CASE Rendered
    BY <1>6 DEF Rendered, TypeOK, CallKnown
<1>7. CASE Serve
    <2>1. inv.kind \in Kind /\ inv.pin \in Pin
        BY <1>7 DEF Serve, TypeOK, CallKnown, Invocation
    <2>2. inv' \in Invocation /\ inv'.kind = inv.kind /\ inv'.pin = inv.pin
        <3>1. Outcome(inv.kind, inv.pin) \in {"ok", "mutual", "failed"}
            BY DEF Outcome
        <3>2. inv \in Invocation
            BY DEF TypeOK
        <3>3. (inv.pin \in Friend \cup (waved \cap wavers)) \in BOOLEAN
            OBVIOUS
        <3> QED BY <1>7, <3>1, <3>2, <3>3, AnswerTypes DEF Serve
    <2>3. UNCHANGED <<layer, at, pin, mode, c, answered, heard, stray>>
        BY <1>7 DEF Serve
    <2> QED BY <1>7, <2>1, <2>2, <2>3, EffectTypes DEF Serve, TypeOK, CallKnown
<1>8. CASE Lose
    <2>1. stray' \subseteq Kind \X Pin
        BY <1>8, AbandonTypes DEF Lose
    <2>2. inv' \in Invocation /\ inv'.kind = inv.kind /\ inv'.pin = inv.pin
        BY <1>8 DEF Lose, TypeOK, Invocation
    <2> QED BY <1>8, <2>1, <2>2 DEF Lose, TypeOK, CallKnown
<1>9. ASSUME NEW e \in wire, Hear(e)
      PROVE  TypeOK' /\ CallKnown'
    <2>1. /\ layer' = layer /\ pin' = pin /\ mode' = mode /\ answered' = answered
          /\ heard' = heard /\ stray' = stray /\ wire' \subseteq wire
          /\ UNCHANGED <<waved, wavers, liked, likers, matched>>
        BY <1>9 DEF Hear
    <2>2. CASE ~Awaited(e)
        <3>1. UNCHANGED <<at, c, inv>>
            BY <1>9, <2>2 DEF Hear
        <3> QED BY <2>1, <3>1 DEF TypeOK, CallKnown
    <2>3. CASE Awaited(e)
        <3>1. at \in {"waveSent", "liked"} /\ at' \in {"mutualWave", "matched"} /\ inv' = NoCall
            BY <1>9, <2>3 DEF Hear, Awaited, InState
        <3>2. c' \in Context
            BY <1>9, <2>3 DEF Hear, TypeOK, Context
        <3>3. at' # "idle" /\ at' \notin Pending /\ at' \in Social \cup Dating
            BY <3>1 DEF Social, Dating
        <3>4. layer \in Layer /\ mode \in Layer /\ pin \in Pin
              /\ answered \subseteq {"wave", "like"} /\ stray \subseteq Kind \X Pin
            BY <3>1 DEF TypeOK
        <3>5. pin # NoPin
            BY <3>4 DEF SoundConstants
        <3> QED BY <2>1, <3>1, <3>2, <3>3, <3>4, <3>5, RecordTypes, MachineTypes
    <2> QED BY <2>2, <2>3
<1>10. ASSUME NEW s \in stray, ServeStray(s)
       PROVE  TypeOK' /\ CallKnown'
    <2>1. s[1] \in Kind /\ s[2] \in Pin
        BY <1>10 DEF TypeOK
    <2> QED BY <1>10, <2>1, EffectTypes DEF ServeStray, TypeOK, CallKnown
<1>11. ASSUME NEW p \in Pin, PeerWaves(p) \/ PeerLikes(p)
       PROVE  TypeOK' /\ CallKnown'
    <2>1. /\ UNCHANGED <<layer, at, pin, mode, c, inv, answered, heard, stray, waved, liked>>
          /\ wavers' \in {wavers, wavers \cup {p}} /\ likers' \in {likers, likers \cup {p}}
          /\ matched' \in {matched, matched \cup {p}}
          /\ wire' \in {wire, wire \cup {<<"wave:mutual", p>>},
                        wire \cup {<<"match_created", p>>}}
        BY <1>11 DEF PeerWaves, PeerLikes
    <2>2. wire' \subseteq {"wave:mutual", "match_created"} \X Pin
        BY <2>1 DEF TypeOK
    <2> QED BY <2>1, <2>2 DEF TypeOK, CallKnown
<1>12. CASE UNCHANGED vars
    BY <1>12 DEF vars, TypeOK, CallKnown
<1> QED BY <1>1, <1>2, <1>3, <1>4, <1>5, <1>6, <1>7, <1>8, <1>9, <1>10, <1>11, <1>12
        DEF Next, Button, Asking

\* Every reachable state of the sheet has its type.
THEOREM TypeCorrect == ASSUME SoundConstants PROVE Spec => [](TypeOK /\ CallKnown)
<1>1. TypeOK /\ CallKnown /\ [Next]_vars => TypeOK' /\ CallKnown'
    BY NextTypeOK
<1> QED BY <1>1, InitTypeOK, PTL DEF Spec

-----------------------------------------------------------------------------
(* The sheet is right.  Its properties say what is on the screen; the        *)
(* invariant adds what is still on its way there.                            *)

\* Who may be messaged from the people layer.
MayMessage(p) == p \in Friend \cup (waved \cap wavers)

\* What the context lets the user do is so on the server, a state says no more
\* than the context, and matches are of the dating layer.
ContextIsTrue ==
    /\ c.can => MayMessage(pin)
    /\ at = "mutualWave" => c.mutual
    /\ at = "matched" => c.match
    /\ c.match => mode = "dating"

\* An answer on its way to the machine is so.
AnswerIsTrue ==
    /\ inv.can => MayMessage(pin)
    /\ inv.kind = "wave" /\ inv.got \in {"ok", "mutual"} => pin \in waved
    /\ inv.kind \in {"load", "wave"} /\ inv.got = "mutual" => pin \in waved \cap wavers
    /\ inv.kind = "like" /\ inv.got = "mutual" => pin \in matched

\* The request is the one of the state.
StateOf(kind) ==
    CASE kind = "load" -> "loadingPin" [] kind = "wave" -> "wavePending"
      [] kind = "like" -> "likePending" [] kind = "pass" -> "passed"
      [] kind = "block" -> "blocking" [] OTHER -> at
RequestOfState == at = StateOf(inv.kind)

\* So is an event on its way to the listeners.
EventsAreTrue ==
    \A p \in Pin : /\ <<"wave:mutual", p>> \in wire => p \in waved \cap wavers
                   /\ <<"match_created", p>> \in wire => p \in matched

\* Once a button was pressed, the listeners are the selected pin's.
ListensToPin == at \notin {"idle", "loadingPin", "preview", "error"} => heard = pin

\* What was answered is noted in the context, and forgotten with it.
AnswersNoted ==
    /\ "wave" \in answered => c.wave
    /\ "like" \in answered => c.like
    /\ at \in {"loadingPin", "error"} => answered = {}

SheetInv ==
    /\ ShownIsServer /\ MessageNeedsMatch /\ LayersStayApart
    /\ ContextIsTrue /\ AnswerIsTrue /\ RequestOfState
    /\ EventsAreTrue /\ ListensToPin /\ AnswersNoted

LEMMA InitSheetInv == Init => SheetInv
BY DEF Init, SheetInv, ShownIsServer, MessageNeedsMatch, LayersStayApart, ContextIsTrue,
       AnswerIsTrue, RequestOfState, StateOf, EventsAreTrue, ListensToPin, AnswersNoted,
       Cleared, NoCall, Social, Dating

\* What a request does leaves the waves and the matches of before, and tells
\* of matches only.
LEMMA EffectIsTrue ==
    ASSUME EventsAreTrue, NEW kind, NEW p \in Pin, Effect(kind, p)
    PROVE  /\ waved \subseteq waved' /\ wavers \subseteq wavers'
           /\ matched \subseteq matched'
           /\ kind = "wave" => p \in waved'
           /\ kind = "like" /\ p \in likers => p \in matched'
           /\ EventsAreTrue'
<1>1. /\ waved \subseteq waved' /\ wavers' = wavers /\ matched \subseteq matched'
      /\ kind = "wave" => p \in waved'
      /\ kind = "like" /\ p \in likers => p \in matched'
    BY DEF Effect
<1>2. \A e \in wire' : e \in wire \/ (e = <<"match_created", p>> /\ p \in matched')
    BY <1>1 DEF Effect
<1> QED BY <1>1, <1>2 DEF EventsAreTrue

\* The sheet stays right while the server and the wire grow under it.
LEMMA ServerMoves ==
    ASSUME SheetInv, EventsAreTrue',
           waved \subseteq waved', wavers \subseteq wavers', matched \subseteq matched',
           UNCHANGED <<layer, at, pin, mode, c, inv, heard, answered>>
    PROVE  SheetInv'
BY DEF SheetInv, ShownIsServer, MessageNeedsMatch, LayersStayApart, ContextIsTrue, MayMessage,
       AnswerIsTrue, RequestOfState, StateOf, ListensToPin, AnswersNoted

\* Nothing is shown of a pin that was just tapped, nor when none is selected.
LEMMA NothingShown ==
    ASSUME SheetInv, c' = Cleared, answered' = {},
           \/ at' = "idle" /\ inv' = NoCall /\ pin' = NoPin
           \/ at' = "loadingPin" /\ inv' = Calling("load", pin') /\ mode' = layer',
           UNCHANGED <<heard, waved, wavers, matched, wire>>
    PROVE  SheetInv'
<1>1. ShownIsServer' /\ ContextIsTrue' /\ AnswersNoted'
    BY DEF ShownIsServer, ContextIsTrue, AnswersNoted, Cleared
<1>2. AnswerIsTrue' /\ RequestOfState'
    BY DEF AnswerIsTrue, RequestOfState, StateOf, NoCall, Calling
<1>3. MessageNeedsMatch' /\ LayersStayApart' /\ ListensToPin'
    BY DEF MessageNeedsMatch, LayersStayApart, ListensToPin, Social, Dating
<1>4. EventsAreTrue'
    BY DEF SheetInv, EventsAreTrue
<1> QED BY <1>1, <1>2, <1>3, <1>4 DEF SheetInv

\* A button leads to a state that the context and the layer allow.
LEMMA ButtonKeepsSheet == ASSUME TypeOK, CallKnown, SheetInv, Button PROVE SheetInv'
<1>1. /\ at \in {"preview", "fullProfile"} \cup Social \cup Dating
      /\ heard = pin /\ inv' = NoCall
      /\ UNCHANGED <<layer, pin, mode, c, answered, heard, stray, server, wire>>
    BY ButtonGoes
<1>2. at' \notin {"idle", "loadingPin", "preview", "error", "mutualWave", "matched"}
    BY ButtonGoes
<1>3. pin # NoPin /\ mode = layer
    BY <1>1 DEF TypeOK, SheetInv, LayersStayApart, Social, Dating
<1>4. MessageNeedsMatch' /\ LayersStayApart'
    BY <1>1, <1>3 DEF Button, OPEN_DETAIL, BACK, OPEN_FULL, MESSAGE, Goes, Sheet, server,
       canMessageDating, canMessageSocial, MatchFromProfile, Social, Dating, SheetInv,
       ShownIsServer, ContextIsTrue, MayMessage, MessageNeedsMatch, LayersStayApart, TypeOK, Layer
<1>5. ShownIsServer' /\ ContextIsTrue' /\ EventsAreTrue' /\ AnswersNoted' /\ ListensToPin'
    BY <1>1, <1>2 DEF server, SheetInv, ShownIsServer, ContextIsTrue, MayMessage, EventsAreTrue,
       AnswersNoted, ListensToPin
<1>6. AnswerIsTrue' /\ RequestOfState'
    BY <1>1 DEF AnswerIsTrue, RequestOfState, StateOf, NoCall
<1> QED BY <1>4, <1>5, <1>6 DEF SheetInv

\* A request is made from the sheet of the right layer.
LEMMA AskingKeepsSheet == ASSUME TypeOK, CallKnown, SheetInv, Asking PROVE SheetInv'
<1>1. /\ at # "idle" /\ heard = pin
      /\ c'.wave = c.wave /\ c'.like = c.like /\ c'.mutual = c.mutual
      /\ c'.can = c.can /\ c'.match = c.match
      /\ UNCHANGED <<layer, pin, mode, answered, heard, stray, server, wire>>
    BY AskingAsks
<1>2. pin # NoPin /\ mode = layer
    BY <1>1 DEF TypeOK, SheetInv, LayersStayApart
<1>3. LayersStayApart' /\ MessageNeedsMatch'
    BY <1>1, <1>2 DEF Asking, SEND_WAVE, SEND_LIKE, PASS, BLOCK, RETRY, Asks, canWave, canLike,
       SheetInv, LayersStayApart, MessageNeedsMatch, Social, Dating
<1>4. AnswerIsTrue' /\ RequestOfState'
    BY AskingAsks DEF AnswerIsTrue, RequestOfState, StateOf, Calling
<1>5. at' = "loadingPin" => at = "error"
    BY DEF Asking, SEND_WAVE, SEND_LIKE, PASS, BLOCK, RETRY, Asks
<1>6. ShownIsServer' /\ ContextIsTrue' /\ EventsAreTrue' /\ AnswersNoted' /\ ListensToPin'
    <2>1. at' \notin {"idle", "preview", "error", "mutualWave", "matched"}
        BY AskingAsks
    <2> QED BY <1>1, <1>5, <2>1 DEF server, SheetInv, ShownIsServer, ContextIsTrue, MayMessage,
            EventsAreTrue, AnswersNoted, ListensToPin
<1> QED BY <1>3, <1>4, <1>6 DEF SheetInv

\* An answer is for the pin and the layer on the screen, since its state is.
LEMMA ArrivesKeepsSheet ==
    ASSUME SoundConstants, TypeOK, CallKnown, SheetInv, Arrives PROVE SheetInv'
<1>1. inv' = NoCall /\ pin' = (IF at' = "idle" THEN NoPin ELSE pin)
      /\ UNCHANGED <<layer, mode, heard, stray, server, wire>>
    BY DEF Arrives
<1>2. AnswerIsTrue' /\ RequestOfState' /\ EventsAreTrue'
    BY <1>1 DEF AnswerIsTrue, RequestOfState, StateOf, NoCall, EventsAreTrue, SheetInv, server
<1> DEFINE Rest == /\ ShownIsServer' /\ MessageNeedsMatch' /\ LayersStayApart'
                   /\ ContextIsTrue' /\ ListensToPin' /\ AnswersNoted'
<1> USE DEF server, ShownIsServer, MessageNeedsMatch, LayersStayApart, ContextIsTrue,
            MayMessage, ListensToPin, AnswersNoted, Social, Dating
<1>3. CASE at' = "idle"
    <2>1. c' = Cleared /\ answered' = {}
        BY <1>3 DEF Arrives, Sheet
    <2> QED BY <1>1, <1>2, <1>3, <2>1 DEF Cleared, SheetInv
<1>4. CASE at' # "idle"
    <2>1. pin' = pin /\ inv.kind # "none" /\ at = StateOf(inv.kind)
        BY <1>1, <1>4 DEF Arrives, SheetInv, RequestOfState
    <2>2. pin # NoPin /\ mode = layer /\ layer \in Layer
        BY <2>1 DEF TypeOK, SheetInv
    <2>3. /\ at = "wavePending" => layer = "social"
          /\ at \in {"likePending", "passed"} => layer = "dating"
        BY DEF SheetInv
    <2>4. CASE inv.kind = "load"
        <3>1. at = "loadingPin" /\ answered = {}
            BY <2>1, <2>4 DEF StateOf, SheetInv
        <3>2. CASE inv.got = "failed"
            <4>1. at' = "error" /\ c' = c /\ answered' = answered
                BY <2>4, <3>2 DEF Arrives
            <4> QED BY <1>1, <1>2, <2>1, <3>1, <4>1 DEF SheetInv
        <3>3. CASE inv.got # "failed"
            <4>1. at' = "preview" /\ answered' = answered
                  /\ c' = [Cleared EXCEPT !.mutual = (inv.got = "mutual"), !.can = inv.can]
                BY <2>4, <3>3 DEF Arrives
            <4>2. ~c'.wave /\ ~c'.like /\ ~c'.match
                  /\ c'.mutual = (inv.got = "mutual") /\ c'.can = inv.can
                BY <4>1 DEF Cleared
            <4>3. (c'.mutual => pin \in waved \cap wavers) /\ (c'.can => MayMessage(pin))
                BY <4>2, <2>4 DEF SheetInv, AnswerIsTrue
            <4> QED BY <1>1, <1>2, <2>1, <2>2, <3>1, <4>1, <4>2, <4>3 DEF SheetInv
        <3> QED BY <3>2, <3>3
    <2>5. CASE inv.kind = "wave"
        <3>1. at = "wavePending" /\ heard = pin /\ layer = "social"
            BY <2>1, <2>3, <2>5 DEF StateOf, SheetInv
        <3>2. CASE inv.got = "failed"
            <4>1. at' = "social.viewing" /\ c' = c /\ answered' = answered
                BY <2>5, <3>2 DEF Arrives
            <4> QED BY <1>1, <1>2, <2>1, <2>2, <3>1, <4>1 DEF SheetInv
        <3>3. CASE inv.got # "failed"
            <4>1. /\ at' = (IF inv.got = "mutual" THEN "mutualWave" ELSE "waveSent")
                  /\ answered' = answered \cup {"wave"}
                  /\ c' = [c EXCEPT !.wave = TRUE, !.mutual = @ \/ inv.got = "mutual",
                                    !.can = @ \/ inv.got = "mutual"]
                BY <2>5, <3>3 DEF Arrives, setWaveSent
            <4>2. c \in Context /\ inv.got \in {"ok", "mutual"}
                BY <3>3 DEF TypeOK, Invocation, Arrives
            <4>3. /\ c'.wave /\ c'.like = c.like /\ c'.match = c.match
                  /\ c'.mutual = (c.mutual \/ inv.got = "mutual")
                  /\ c'.can = (c.can \/ inv.got = "mutual")
                BY <4>1, <4>2 DEF Context
            <4>4. pin \in waved /\ (inv.got = "mutual" => pin \in waved \cap wavers)
                BY <4>2, <2>5 DEF SheetInv, AnswerIsTrue
            <4>5. (c'.mutual => pin \in waved \cap wavers) /\ (c'.can => MayMessage(pin))
                BY <4>3, <4>4 DEF SheetInv
            <4>6. ~(c'.match) \/ (pin \in matched /\ mode = "dating")
                BY <4>3 DEF SheetInv
            <4> QED BY <1>1, <1>2, <2>1, <2>2, <3>1, <4>1, <4>3, <4>4, <4>5, <4>6 DEF SheetInv
        <3> QED BY <3>2, <3>3
    <2>6. CASE inv.kind = "like"
        <3>1. at = "likePending" /\ heard = pin /\ layer = "dating"
            BY <2>1, <2>3, <2>6 DEF StateOf, SheetInv
        <3>2. CASE inv.got = "failed"
            <4>1. at' = "dating.viewing" /\ c' = c /\ answered' = answered
                BY <2>6, <3>2 DEF Arrives
            <4> QED BY <1>1, <1>2, <2>1, <2>2, <3>1, <4>1 DEF SheetInv
        <3>3. CASE inv.got # "failed"
            <4>1. /\ at' = (IF inv.got = "mutual" THEN "matched" ELSE "liked")
                  /\ answered' = answered \cup {"like"}
                  /\ c' = [c EXCEPT !.like = TRUE, !.match = @ \/ inv.got = "mutual"]
                BY <2>6, <3>3 DEF Arrives
            <4>2. c \in Context
                BY DEF TypeOK
            <4>3. /\ c'.like /\ c'.wave = c.wave /\ c'.mutual = c.mutual /\ c'.can = c.can
                  /\ c'.match = (c.match \/ inv.got = "mutual")
                BY <4>1, <4>2 DEF Context
            <4>4. c'.match => pin \in matched
                BY <4>3, <2>6 DEF SheetInv, AnswerIsTrue
            <4> QED BY <1>1, <1>2, <2>1, <2>2, <3>1, <4>1, <4>3, <4>4 DEF SheetInv
        <3> QED BY <3>2, <3>3
    <2>7. CASE inv.kind \notin {"load", "wave", "like"}
        <3>1. c' = c /\ answered' = answered
              /\ \/ at = "passed" /\ at' = "dating.viewing"
                 \/ at = "blocking" /\ at' = Sheet
            BY <1>4, <2>1, <2>7 DEF Arrives, StateOf
        <3>2. heard = pin /\ at' \in {"dating.viewing", "social.viewing"}
            BY <3>1 DEF SheetInv, Sheet
        <3>3. at' = "dating.viewing" => layer = "dating"
            BY <3>1, <2>2, <2>3 DEF Sheet
        <3>4. at' = "social.viewing" => layer = "social"
            BY <3>1, <2>2 DEF Sheet, Layer
        <3> QED BY <1>1, <1>2, <2>1, <2>2, <3>1, <3>2, <3>3, <3>4 DEF SheetInv
    <2> QED BY <2>4, <2>5, <2>6, <2>7
<1> QED BY <1>3, <1>4

\* An event moves the sheet only in the state that waits for it, whose
\* listeners are the pin's.
LEMMA HearKeepsSheet ==
    ASSUME TypeOK, CallKnown, SheetInv, NEW e \in wire, Hear(e) PROVE SheetInv'
<1>1. /\ UNCHANGED <<layer, pin, mode, answered, heard, stray, server>>
      /\ wire' \subseteq wire
    BY DEF Hear
<1>2. EventsAreTrue'
    BY <1>1 DEF SheetInv, EventsAreTrue, server
<1>3. CASE ~Awaited(e)
    <2>1. UNCHANGED <<at, c, inv>>
        BY <1>3 DEF Hear
    <2> QED BY <1>1, <1>2, <2>1, ServerMoves DEF server
<1>4. CASE Awaited(e)
    <2>1. pin = heard /\ e[2] = pin /\ pin \in Pin /\ inv' = NoCall
        BY <1>4 DEF Awaited, InState, SheetInv, ListensToPin, TypeOK, Hear
    <2>2. AnswerIsTrue' /\ RequestOfState'
        BY <2>1 DEF AnswerIsTrue, RequestOfState, StateOf, NoCall
    <2>3. c \in Context /\ e = <<e[1], e[2]>>
        BY DEF TypeOK
    <2>4. mode = layer /\ (at = "waveSent" => layer = "social")
          /\ (at = "liked" => layer = "dating")
        BY <1>4 DEF SheetInv, LayersStayApart, TypeOK, Social, Dating, Awaited, InState
    <2>5. CASE e[1] = "wave:mutual"
        <3>1. at = "waveSent" /\ at' = "mutualWave"
              /\ c' = [c EXCEPT !.mutual = TRUE, !.can = TRUE]
            BY <1>4, <2>5 DEF Hear, Awaited, InState
        <3>2. /\ c'.mutual /\ c'.can /\ c'.wave = c.wave /\ c'.like = c.like
              /\ c'.match = c.match
            BY <3>1, <2>3 DEF Context
        <3>3. pin \in waved \cap wavers
            BY <2>1, <2>3, <2>5 DEF SheetInv, EventsAreTrue
        <3> QED BY <1>1, <1>2, <2>1, <2>2, <2>4, <3>1, <3>2, <3>3
                DEF server, SheetInv, ShownIsServer, MessageNeedsMatch, LayersStayApart,
                    ContextIsTrue, MayMessage, ListensToPin, AnswersNoted, Social, Dating
    <2>6. CASE e[1] # "wave:mutual"
        <3>1. at = "liked" /\ at' = "matched" /\ c' = [c EXCEPT !.match = TRUE]
              /\ e[1] = "match_created"
            BY <1>4, <2>6 DEF Hear, Awaited, InState
        <3>2. /\ c'.match /\ c'.wave = c.wave /\ c'.like = c.like
              /\ c'.mutual = c.mutual /\ c'.can = c.can
            BY <3>1, <2>3 DEF Context
        <3>3. pin \in matched
            BY <2>1, <2>3, <3>1 DEF SheetInv, EventsAreTrue
        <3> QED BY <1>1, <1>2, <2>1, <2>2, <2>4, <3>1, <3>2, <3>3
                DEF server, SheetInv, ShownIsServer, MessageNeedsMatch, LayersStayApart,
                    ContextIsTrue, MayMessage, ListensToPin, AnswersNoted, Social, Dating
    <2> QED BY <2>5, <2>6
<1> QED BY <1>3, <1>4

\* The server answers what is so after the request.
LEMMA ServeKeepsSheet ==
    ASSUME TypeOK, CallKnown, SheetInv, Serve PROVE SheetInv'
<1>1. inv.kind \in Kind /\ inv.pin = pin /\ pin \in Pin
    BY DEF Serve, TypeOK, CallKnown, Invocation
<1>2. /\ waved \subseteq waved' /\ wavers \subseteq wavers' /\ matched \subseteq matched'
      /\ inv.kind = "wave" => pin \in waved'
      /\ inv.kind = "like" /\ pin \in likers => pin \in matched'
      /\ EventsAreTrue'
    BY <1>1, EffectIsTrue DEF Serve, SheetInv
<1>3. UNCHANGED <<layer, at, pin, mode, c, answered, heard, stray>>
    BY DEF Serve
<1>4. /\ inv'.kind = inv.kind /\ inv'.got = Outcome(inv.kind, pin)
      /\ inv'.can = (pin \in Friend \cup (waved \cap wavers))
    BY <1>1 DEF Serve, TypeOK, Invocation
<1>5. AnswerIsTrue'
    BY <1>1, <1>2, <1>3, <1>4 DEF AnswerIsTrue, MayMessage, Outcome
<1>6. RequestOfState'
    BY <1>3, <1>4 DEF SheetInv, RequestOfState, StateOf
<1> QED BY <1>2, <1>3, <1>5, <1>6
        DEF SheetInv, ShownIsServer, MessageNeedsMatch, LayersStayApart, ContextIsTrue,
            MayMessage, ListensToPin, AnswersNoted

LEMMA NextSheetInv ==
    ASSUME SoundConstants, TypeOK, CallKnown, SheetInv, [Next]_vars
    PROVE  SheetInv'
<1>1. ASSUME NEW p \in Pin, PIN_TAP(p)
      PROVE  SheetInv'
    BY <1>1, NothingShown DEF PIN_TAP, Forget, server
<1>2. ASSUME (\E l \in Layer : LAYER_CHANGED(l)) \/ DISMISS
      PROVE  SheetInv'
    BY <1>2, NothingShown DEF LAYER_CHANGED, DISMISS, ResetForLayer, ToIdle, server
<1>3. CASE Button
    BY <1>3, ButtonKeepsSheet
<1>4. CASE Asking
    BY <1>4, AskingKeepsSheet
<1>5. CASE Arrives
    BY <1>5, ArrivesKeepsSheet
<1>6. CASE Rendered
    BY <1>6 DEF Rendered, machine, server, SheetInv, ShownIsServer, MessageNeedsMatch,
       LayersStayApart, ContextIsTrue, MayMessage, AnswerIsTrue, RequestOfState, StateOf,
       EventsAreTrue, ListensToPin, AnswersNoted
<1>7. CASE Serve
    BY <1>7, ServeKeepsSheet
<1>8. CASE Lose
    <2>1. inv'.kind = inv.kind /\ inv'.got = "failed" /\ inv'.can = inv.can
        BY <1>8 DEF Lose, TypeOK, Invocation
    <2> QED BY <1>8, <2>1
            DEF Lose, server, SheetInv, ShownIsServer, MessageNeedsMatch, LayersStayApart,
                ContextIsTrue, MayMessage, AnswerIsTrue, RequestOfState, StateOf,
                EventsAreTrue, ListensToPin, AnswersNoted
<1>9. ASSUME NEW e \in wire, Hear(e)
      PROVE  SheetInv'
    BY <1>9, HearKeepsSheet
<1>10. ASSUME NEW s \in stray, ServeStray(s)
       PROVE  SheetInv'
    <2>1. s[2] \in Pin
        BY <1>10 DEF TypeOK
    <2> QED BY <1>10, <2>1, EffectIsTrue, ServerMoves DEF ServeStray, machine, SheetInv
<1>11. ASSUME NEW p \in Pin, PeerWaves(p) \/ PeerLikes(p)
       PROVE  SheetInv'
    <2>1. /\ UNCHANGED <<layer, at, pin, mode, c, inv, heard, answered>>
          /\ waved' = waved /\ wavers \subseteq wavers' /\ matched \subseteq matched'
        BY <1>11 DEF PeerWaves, PeerLikes, machine
    <2>2. \A e \in wire' : \/ e \in wire
                           \/ e = <<"wave:mutual", p>> /\ p \in waved' \cap wavers'
                           \/ e = <<"match_created", p>> /\ p \in matched'
        BY <1>11 DEF PeerWaves, PeerLikes
    <2>3. EventsAreTrue'
        BY <2>1, <2>2 DEF SheetInv, EventsAreTrue
    <2> QED BY <2>1, <2>3, ServerMoves
<1>12. CASE UNCHANGED vars
    BY <1>12, ServerMoves DEF vars, machine, server, SheetInv, EventsAreTrue
<1> QED BY <1>1, <1>2, <1>3, <1>4, <1>5, <1>6, <1>7, <1>8, <1>9, <1>10, <1>11, <1>12
        DEF Next, Button, Asking

\* A button of the layer is what asks for a wave or a like, and it is not
\* there once the answer is noted.
LEMMA StepAsksOnce ==
    ASSUME TypeOK, CallKnown, SheetInv, [Next]_vars,
           NEW kind \in {"wave", "like"}, inv'.kind = kind, inv.kind # kind
    PROVE  kind \notin answered
<1>1. SEND_WAVE \/ SEND_LIKE => kind \notin answered
    BY DEF SEND_WAVE, SEND_LIKE, canWave, canLike, Asks, Calling, SheetInv, AnswersNoted
<1>2. SEND_WAVE \/ SEND_LIKE
    <2>1. /\ \A p \in Pin : ~PIN_TAP(p) /\ ~PeerWaves(p) /\ ~PeerLikes(p)
          /\ \A l \in Layer : ~LAYER_CHANGED(l)
          /\ ~DISMISS /\ ~Arrives /\ ~Rendered /\ ~(UNCHANGED vars)
        BY DEF PIN_TAP, PeerWaves, PeerLikes, LAYER_CHANGED, ResetForLayer, ToIdle, DISMISS,
           Arrives, Rendered, NoCall, Calling, machine, vars
    <2>2. ~Button
        BY ButtonGoes DEF NoCall
    <2>3. ~PASS /\ ~BLOCK /\ ~RETRY
        BY DEF PASS, BLOCK, RETRY, Asks, Calling
    <2>4. ~Serve /\ ~Lose
        BY DEF Serve, Lose, TypeOK, Invocation
    <2>5. \A e \in wire : ~Hear(e)
        BY DEF Hear, NoCall
    <2>6. \A s \in stray : ~ServeStray(s)
        BY DEF ServeStray, machine
    <2> QED BY <2>1, <2>2, <2>3, <2>4, <2>5, <2>6 DEF Next, Button
<1> QED BY <1>1, <1>2

\* Whatever is tapped, answered, heard or lost in whatever order, the sheet
\* shows what the server has, offers what it allows, acts for the layer of the
\* map and asks for nothing twice.
THEOREM SheetStaysRight == ASSUME SoundConstants PROVE Spec => SheetIsRight
<1>1. SheetInv => ShownIsServer /\ MessageNeedsMatch /\ LayersStayApart
    BY DEF SheetInv
<1>2. TypeOK /\ CallKnown /\ SheetInv /\ [Next]_vars => SheetInv'
    BY NextSheetInv
<1>3. TypeOK /\ CallKnown /\ SheetInv /\ [Next]_vars =>
        [\A kind \in {"wave", "like"} :
            inv'.kind = kind /\ inv.kind # kind => kind \notin answered]_vars
    BY StepAsksOnce
<1> QED BY <1>1, <1>2, <1>3, TypeCorrect, InitSheetInv, PTL DEF Spec, SheetIsRight, AskedOnce

-----------------------------------------------------------------------------
(* The outbox *)

Sending == [kind : {"free", "compose", "retry", "join", "drain"},
            m : Message \cup {NoMessage}, net : {"sent", "stored", "null"},
            row : Outbox!Row \cup {0}, todo : SUBSET Message]
Counted(b) == \A m \in Message : b.retries[m] > 0 => m \in b.out
Kept(b) == b.out \cup b.failed

\* What a send waits for is known, and a drain that has not begun sends nothing.
Known(s) == /\ s.net # "null" => s.m \in Message
            /\ s.net = "stored" => s.row \in Outbox!Row
            /\ s.kind \in {"free", "join"} => s.m = NoMessage
Sends == \A k \in Slot : Known(slot[k])

\* Nothing is sent, kept, saved or shown that the user has not written.
Written ==
    /\ \A k \in Slot : slot[k].m \in composed \cup {NoMessage} /\ slot[k].todo \subseteq composed
    /\ Kept(box) \subseteq composed /\ Kept(disk.box) \subseteq composed
    /\ \A m \in Message : list[m] > 0 => m \in composed

\* What the disk holds of a row it holds of its entry.
Saved == Counted(disk.box) /\ disk.rows \subseteq Kept(disk.box)

\* What a drain has taken is kept still, or is no optimistic row any more.
Taken ==
    \A k \in Slot :
        /\ \A m \in slot[k].todo : list[m] = 0 \/ m \in Kept(box)
        /\ slot[k].kind = "drain" /\ slot[k].m \in Message =>
              list[slot[k].m] = 0 \/ slot[k].m \in Kept(box)

OutboxInv == Outbox!TypeOK /\ Sends /\ Written /\ Saved /\ Taken /\ Outbox!ShownOnce /\ Outbox!PendingIsTracked

\* What is put into a slot.
LEMMA SlotFacts ==
    ASSUME Outbox!TypeOK, NEW k \in Slot, NEW s \in Sending
    PROVE  LET new == [slot EXCEPT ![k] = s] IN
           /\ new \in [Slot -> Sending] /\ new[k] = s
           /\ \A j \in Slot \ {k} : new[j] = slot[j]
BY DEF Outbox!TypeOK, Sending

LEMMA FreeSlot ==
    /\ Outbox!Free \in Sending /\ Outbox!Free.m = NoMessage /\ Outbox!Free.todo = {} /\ Outbox!Free.kind = "free"
    /\ Outbox!Free.net = "null" /\ Known(Outbox!Free)
BY DEF Outbox!Free, Sending, Known

\* The reducers.
LEMMA QueuedFacts ==
    ASSUME Outbox!TypeOK, NEW m \in Message
    PROVE  /\ Outbox!Queued(m) \in Outbox!Box /\ Counted(Outbox!Queued(m))
           /\ Outbox!Queued(m).out = box.out \cup {m} /\ Outbox!Queued(m).failed = box.failed
           /\ Outbox!Queued(m).retries = box.retries
BY DEF Outbox!TypeOK, Outbox!Box, Outbox!Queued, Counted

LEMMA RetriedFacts ==
    ASSUME Outbox!SoundConstants, Outbox!TypeOK, NEW S \in SUBSET Message
    PROVE  Outbox!Retried(S) \in Outbox!Box /\ Counted(Outbox!Retried(S)) /\ Kept(Outbox!Retried(S)) = Kept(box)
<1> DEFINE mine == S \cap box.out
           spent == {m \in mine : box.retries[m] + 1 >= MaxRetries}
           counts == [m \in Message |->
              IF m \in spent THEN 0
              ELSE IF m \in mine THEN box.retries[m] + 1 ELSE box.retries[m]]
<1>1. /\ Outbox!Retried(S) = [out |-> box.out \ spent, failed |-> box.failed \cup spent,
                       retries |-> counts]
      /\ box.out \in SUBSET Message /\ box.failed \in SUBSET Message
      /\ box.retries \in [Message -> 0..MaxRetries-1]
      /\ \A m \in Message : box.retries[m] > 0 => m \in box.out
    BY DEF Outbox!Retried, Outbox!TypeOK, Outbox!Box
<1>2. counts \in [Message -> 0..MaxRetries-1]
    <2> SUFFICES ASSUME NEW m \in Message PROVE counts[m] \in 0..MaxRetries-1
        OBVIOUS
    <2>1. box.retries[m] \in 0..MaxRetries-1 /\ MaxRetries \in Nat \ {0}
        BY <1>1 DEF Outbox!SoundConstants
    <2> QED BY <2>1
<1>3. \A m \in Message : counts[m] > 0 => m \in box.out \ spent
    BY <1>1
<1>4. spent \subseteq box.out
    OBVIOUS
<1> HIDE DEF spent, counts
<1>5. Outbox!Retried(S) \in Outbox!Box
    BY <1>1, <1>2, <1>4 DEF Outbox!Box
<1> QED BY <1>1, <1>3, <1>4, <1>5 DEF Counted, Kept

LEMMA SettledFacts ==
    ASSUME Outbox!SoundConstants, Outbox!TypeOK, NEW m \in Message
    PROVE  Outbox!Settled(m) \in Outbox!Box /\ Counted(Outbox!Settled(m)) /\ Kept(Outbox!Settled(m)) = Kept(box) \ {m}
<1>0. box = [out |-> box.out, failed |-> box.failed, retries |-> box.retries]
    BY DEF Outbox!TypeOK, Outbox!Box
<1>1. Outbox!Settled(m) = [out |-> box.out \ {m}, failed |-> box.failed \ {m},
                    retries |-> [box.retries EXCEPT ![m] = 0]]
    <2>1. Outbox!Settled(m) = [box EXCEPT !.out = box.out \ {m}, !.failed = box.failed \ {m},
                                   !.retries = [box.retries EXCEPT ![m] = 0]]
        BY <1>0 DEF Outbox!Settled
    <2> QED BY <1>0, <2>1
<1>2. /\ box.out \in SUBSET Message /\ box.failed \in SUBSET Message
      /\ box.retries \in [Message -> 0..MaxRetries-1]
      /\ \A n \in Message : box.retries[n] > 0 => n \in box.out
    BY DEF Outbox!TypeOK, Outbox!Box
<1>3. [box.retries EXCEPT ![m] = 0] \in [Message -> 0..MaxRetries-1]
    <2>1. 0 \in 0..MaxRetries-1
        BY DEF Outbox!SoundConstants
    <2> QED BY <1>2, <2>1
<1> QED BY <1>1, <1>2, <1>3 DEF Outbox!Box, Counted, Kept

\* An optimistic row becomes the server's, or goes.
LEMMA ReplaceFacts ==
    ASSUME Outbox!SoundConstants, Outbox!TypeOK, Outbox!ShownOnce, NEW m \in Message, NEW r \in Outbox!Row
    PROVE  LET new == Outbox!Replace(m, r) IN
           /\ new \in [Message \cup Outbox!Row -> Nat] /\ \A i \in Message \cup Outbox!Row : new[i] <= 1
           /\ new[m] = 0 /\ \A n \in Message \ {m} : new[n] = list[n]
<1>1. m # r /\ r \notin Message /\ list \in [Message \cup Outbox!Row -> Nat]
    BY DEF Outbox!SoundConstants, Outbox!TypeOK, Outbox!Row
<1>2. list[m] = 0 \/ list[m] = 1
    BY <1>1 DEF Outbox!ShownOnce
<1>3. CASE list[m] = 0
    BY <1>1, <1>3 DEF Outbox!Replace, Outbox!ShownOnce
<1>4. CASE list[m] = 1
    <2>1. Outbox!Replace(m, r) = [list EXCEPT ![m] = 0, ![r] = IF list[r] > 0 THEN list[r] ELSE 1]
        BY <1>1, <1>4 DEF Outbox!Replace
    <2> QED BY <1>1, <2>1 DEF Outbox!ShownOnce
<1> QED BY <1>2, <1>3, <1>4

\* The app when it is installed.
LEMMA InitOutbox == ASSUME Outbox!SoundConstants PROVE Outbox!Init => OutboxInv
<1> SUFFICES ASSUME Outbox!Init PROVE OutboxInv
    OBVIOUS
<1>1. Outbox!Empty \in Outbox!Box /\ Counted(Outbox!Empty) /\ Kept(Outbox!Empty) = {}
    <2>1. 0 \in 0..MaxRetries-1
        BY DEF Outbox!SoundConstants
    <2> QED BY <2>1 DEF Outbox!Empty, Outbox!Box, Counted, Kept
<1>2. \A k \in Slot : slot[k] = Outbox!Free
    BY DEF Outbox!Init
<1>3. Outbox!TypeOK
    <2>1. slot \in [Slot -> Sending] /\ disk \in [box : Outbox!Box, rows : SUBSET Message]
        BY <1>1, FreeSlot DEF Outbox!Init
    <2> QED BY <1>1, <2>1 DEF Outbox!Init, Outbox!TypeOK, Sending, Counted
<1>4. disk.box = Outbox!Empty /\ disk.rows = {} /\ box = Outbox!Empty
    BY DEF Outbox!Init
<1> QED BY <1>1, <1>2, <1>3, <1>4, FreeSlot
        DEF Outbox!Init, OutboxInv, Sends, Written, Saved, Taken, Outbox!ShownOnce,
            Outbox!PendingIsTracked

\* A step of one slot: what was kept is kept, or its row is confirmed.
LEMMA SlotMoves ==
    ASSUME Outbox!SoundConstants, OutboxInv, NEW k \in Slot, NEW s \in Sending, Known(s),
           slot' = [slot EXCEPT ![k] = s],
           composed \subseteq composed', composed' \subseteq Message,
           s.m \in composed' \cup {NoMessage}, s.todo \subseteq composed',
           box' \in Outbox!Box, Counted(box'), Kept(box') \subseteq composed',
           list' \in [Message \cup Outbox!Row -> Nat], \A i \in Message \cup Outbox!Row : list'[i] <= 1,
           \A m \in Kept(box) : m \in Kept(box') \/ list'[m] = 0,
           \A m \in Message : list'[m] > 0 =>
               list[m] > 0 \/ (m \in composed' \ composed /\ s.m = m),
           slot[k].m \in Message =>
               s.m = slot[k].m \/ slot[k].m \in Kept(box') \/ list'[slot[k].m] = 0,
           s.kind = "drain" /\ s.m # NoMessage => list'[s.m] = 0 \/ s.m \in Kept(box'),
           \A m \in s.todo : list'[m] = 0 \/ m \in Kept(box'),
           UNCHANGED <<disk, hydrated>>, connected' \in BOOLEAN, owed' \in BOOLEAN,
           late' \subseteq Message, stored' \in [Outbox!Row -> Message \cup {NoMessage}]
    PROVE  OutboxInv'
<1>1. /\ slot' \in [Slot -> Sending] /\ slot'[k] = s
      /\ \A j \in Slot \ {k} : slot'[j] = slot[j]
    BY SlotFacts DEF OutboxInv
<1>2. Outbox!TypeOK'
    BY <1>1 DEF OutboxInv, Outbox!TypeOK, Sending, Counted
<1>3. Sends'
    BY <1>1 DEF OutboxInv, Sends, Known
<1>4. Written'
    <2>1. \A j \in Slot : slot'[j].m \in composed' \cup {NoMessage} /\ slot'[j].todo \subseteq composed'
        BY <1>1 DEF OutboxInv, Written
    <2>2. \A m \in Message : list'[m] > 0 => m \in composed'
        BY DEF OutboxInv, Written
    <2> QED BY <2>1, <2>2 DEF OutboxInv, Written
<1>5. Saved' /\ Outbox!ShownOnce'
    BY DEF OutboxInv, Saved, Outbox!ShownOnce, Counted
<1>6. \A m \in Message : m \in composed /\ (list[m] = 0 \/ m \in Kept(box)) =>
          list'[m] = 0 \/ m \in Kept(box')
    <2> SUFFICES ASSUME NEW m \in Message, m \in composed, list[m] = 0 \/ m \in Kept(box),
                        list'[m] # 0
                 PROVE  m \in Kept(box')
        OBVIOUS
    <2>1. list'[m] > 0
        OBVIOUS
    <2>2. m \in Kept(box)
        BY <2>1
    <2> QED BY <2>2
<1>7. Taken'
    <2> SUFFICES ASSUME NEW j \in Slot
                 PROVE  /\ \A m \in slot'[j].todo : list'[m] = 0 \/ m \in Kept(box')
                        /\ slot'[j].kind = "drain" /\ slot'[j].m \in Message =>
                              list'[slot'[j].m] = 0 \/ slot'[j].m \in Kept(box')
        BY DEF Taken
    <2>1. CASE j = k
        BY <1>1, <2>1 DEF Outbox!SoundConstants
    <2>2. CASE j # k
        <3>1. slot'[j] = slot[j] /\ slot[j].todo \subseteq Message
            BY <1>1, <2>2 DEF OutboxInv, Outbox!TypeOK
        <3>2. slot[j].todo \subseteq composed /\ slot[j].m \in composed \cup {NoMessage}
            BY DEF OutboxInv, Written
        <3> QED BY <1>6, <3>1, <3>2 DEF OutboxInv, Taken, Outbox!SoundConstants
    <2> QED BY <2>1, <2>2
<1>8. Outbox!PendingIsTracked'
    <2> SUFFICES ASSUME NEW m \in Message, list'[m] > 0, m \notin Kept(box')
                 PROVE  \E j \in Slot : slot'[j].m = m
        BY DEF Outbox!PendingIsTracked, Kept
    <2>1. CASE m \in composed' \ composed /\ s.m = m
        BY <1>1, <2>1
    <2>2. CASE list[m] > 0
        <3>1. m \notin Kept(box)
            OBVIOUS
        <3>2. PICK j \in Slot : slot[j].m = m
            BY <2>2, <3>1 DEF OutboxInv, Outbox!PendingIsTracked, Kept
        <3> QED BY <1>1, <3>2
    <2> QED BY <2>1, <2>2
<1> QED BY <1>2, <1>3, <1>4, <1>5, <1>7, <1>8 DEF OutboxInv

\* What a slot holds, and what the invariant says of it.
LEMMA SlotKnown ==
    ASSUME OutboxInv, NEW k \in Slot
    PROVE  /\ Outbox!TypeOK /\ slot[k] \in Sending /\ Known(slot[k])
           /\ slot[k].m \in composed \cup {NoMessage} /\ slot[k].todo \subseteq composed
           /\ slot[k].todo \subseteq Message /\ slot[k].m \in Message \cup {NoMessage}
           /\ \A m \in slot[k].todo : list[m] = 0 \/ m \in Kept(box)
           /\ slot[k].kind = "drain" /\ slot[k].m \in Message =>
                 list[slot[k].m] = 0 \/ slot[k].m \in Kept(box)
BY DEF OutboxInv, Outbox!TypeOK, Sending, Sends, Written, Taken

\* What an action of a slot leaves alone.
LEMMA Standing ==
    ASSUME OutboxInv
    PROVE  /\ composed \subseteq Message /\ box \in Outbox!Box /\ Counted(box)
           /\ Kept(box) \subseteq composed /\ Kept(box) \subseteq Message
           /\ list \in [Message \cup Outbox!Row -> Nat] /\ \A i \in Message \cup Outbox!Row : list[i] <= 1
           /\ \A m \in Message : list[m] > 0 => m \in composed
           /\ connected \in BOOLEAN /\ owed \in BOOLEAN /\ late \subseteq Message
           /\ stored \in [Outbox!Row -> Message \cup {NoMessage}]
BY DEF OutboxInv, Outbox!TypeOK, Written, Outbox!ShownOnce, Counted, Kept, Outbox!Box

\* The user writes a message.
LEMMA ComposeKeeps ==
    ASSUME Outbox!SoundConstants, OutboxInv, NEW k \in Slot, NEW m \in Message, Outbox!Compose(k, m)
    PROVE  OutboxInv'
<1> DEFINE s == [kind |-> "compose", m |-> m, row |-> 0, todo |-> {},
                 net |-> IF connected THEN "sent" ELSE "null"]
<1>1. /\ slot[k].kind = "free" /\ m \notin composed /\ composed' = composed \cup {m}
      /\ list' = [list EXCEPT ![m] = list[m] + 1] /\ slot' = [slot EXCEPT ![k] = s]
      /\ UNCHANGED <<box, disk, hydrated, connected, owed, late, stored>>
    <2>1. list' = [list EXCEPT ![m] = list[m] + 1]
        BY Standing DEF Outbox!Compose
    <2> QED BY <2>1 DEF Outbox!Compose, Outbox!Emit, Outbox!network
<1>2. /\ s \in Sending /\ Known(s) /\ s.m = m /\ s.todo = {} /\ s.kind = "compose"
    BY DEF Sending, Known
<1> HIDE DEF s
<1>3. list[m] = 0 /\ slot[k].m = NoMessage
    BY <1>1, Standing, SlotKnown DEF Known
<1>4. /\ list' \in [Message \cup Outbox!Row -> Nat] /\ \A i \in Message \cup Outbox!Row : list'[i] <= 1
      /\ \A n \in Message \ {m} : list'[n] = list[n]
    BY <1>1, <1>3, Standing
<1>5. /\ slot[k].m \notin Message /\ composed' \subseteq Message
      /\ \A n \in Kept(box) : n \in Kept(box') \/ list'[n] = 0
      /\ \A n \in Message : list'[n] > 0 => list[n] > 0 \/ (n \in composed' \ composed /\ s.m = n)
      /\ \A n \in s.todo : list'[n] = 0 \/ n \in Kept(box')
    BY <1>1, <1>2, <1>3, <1>4, Standing DEF Outbox!SoundConstants
<1> QED BY <1>1, <1>2, <1>4, <1>5, Standing, SlotMoves

\* The user retries a failed message.
LEMMA RetryKeeps ==
    ASSUME Outbox!SoundConstants, OutboxInv, NEW k \in Slot, NEW m \in Message, Outbox!Retry(k, m)
    PROVE  OutboxInv'
<1> DEFINE s == [kind |-> "retry", m |-> m, row |-> 0, todo |-> {},
                 net |-> IF connected THEN "sent" ELSE "null"]
<1>1. /\ slot[k].kind = "free" /\ m \in box.failed
      /\ box' = [Outbox!Queued(m) EXCEPT !.failed = @ \ {m}] /\ slot' = [slot EXCEPT ![k] = s]
      /\ UNCHANGED <<composed, list, disk, hydrated, connected, owed, late, stored>>
    BY DEF Outbox!Retry, Outbox!Emit, Outbox!network
<1>2. /\ s \in Sending /\ Known(s) /\ s.m = m /\ s.todo = {} /\ s.kind = "retry"
    BY DEF Sending, Known
<1> HIDE DEF s
<1>3. box' \in Outbox!Box /\ Counted(box') /\ Kept(box') = Kept(box)
    BY <1>1, SlotKnown, QueuedFacts DEF Outbox!Box, Counted, Kept
<1>4. slot[k].m \notin Message /\ m \in composed
    BY <1>1, Standing, SlotKnown DEF Known, Kept, Outbox!SoundConstants
<1>5. /\ Kept(box') \subseteq composed /\ \A n \in Kept(box) : n \in Kept(box') \/ list'[n] = 0
      /\ \A n \in Message : list'[n] > 0 => list[n] > 0
      /\ \A n \in s.todo : list'[n] = 0 \/ n \in Kept(box')
    BY <1>1, <1>2, <1>3, Standing
<1> QED BY <1>1, <1>2, <1>3, <1>4, <1>5, Standing, SlotMoves

\* What is left in a slot when its send has been dealt with.
LEMMA FinishFacts ==
    ASSUME Outbox!SoundConstants, OutboxInv, NEW k \in Slot, slot[k].net # "null" \/ slot[k].m # NoMessage,
           Outbox!Finish(k)
    PROVE  \E s \in Sending :
               /\ Known(s) /\ slot' = [slot EXCEPT ![k] = s] /\ s.m = NoMessage
               /\ s.todo \subseteq slot[k].todo
<1> DEFINE more == [Outbox!Free EXCEPT !.kind = "drain", !.todo = slot[k].todo]
<1>1. CASE slot[k].kind = "drain"
    <2>1. slot' = [slot EXCEPT ![k] = more]
        BY <1>1, SlotKnown DEF Outbox!Finish, OutboxInv, Outbox!TypeOK
    <2>2. more \in Sending /\ Known(more) /\ more.m = NoMessage /\ more.todo = slot[k].todo
        BY SlotKnown DEF Outbox!Free, Sending, Known
    <2> HIDE DEF more
    <2> QED BY <2>1, <2>2
<1>2. CASE slot[k].kind # "drain"
    <2>1. slot' = [slot EXCEPT ![k] = Outbox!Free]
        BY <1>2, SlotKnown DEF Outbox!Finish, OutboxInv, Outbox!TypeOK
    <2> QED BY <2>1, FreeSlot
<1> QED BY <1>1, <1>2

\* The answer that was waited for: the row is the server's now.
LEMMA AckKeeps ==
    ASSUME Outbox!SoundConstants, OutboxInv, NEW k \in Slot, Outbox!Ack(k)
    PROVE  OutboxInv'
<1> DEFINE m == slot[k].m
<1>1. /\ slot[k].net = "stored" /\ list' = Outbox!Replace(m, slot[k].row) /\ box' = Outbox!Settled(m)
      /\ Outbox!Finish(k)
      /\ UNCHANGED <<composed, disk, hydrated, connected, owed, late, stored>>
    BY DEF Outbox!Ack, Outbox!network
<1>2. /\ m \in Message /\ slot[k].row \in Outbox!Row /\ Outbox!TypeOK /\ Outbox!ShownOnce
      /\ slot[k].todo \subseteq composed /\ slot[k].todo \subseteq Message
      /\ \A n \in slot[k].todo : list[n] = 0 \/ n \in Kept(box)
    BY <1>1, SlotKnown DEF Known, OutboxInv
<1>3. PICK s \in Sending : /\ Known(s) /\ slot' = [slot EXCEPT ![k] = s] /\ s.m = NoMessage
                           /\ s.todo \subseteq slot[k].todo
    BY <1>1, FinishFacts
<1>4. box' \in Outbox!Box /\ Counted(box') /\ Kept(box') = Kept(box) \ {m}
    BY <1>1, <1>2, SettledFacts
<1>5. /\ list' \in [Message \cup Outbox!Row -> Nat] /\ \A i \in Message \cup Outbox!Row : list'[i] <= 1
      /\ list'[m] = 0 /\ \A n \in Message \ {m} : list'[n] = list[n]
    BY <1>1, <1>2, ReplaceFacts
<1>6. \A n \in s.todo : list'[n] = 0 \/ n \in Kept(box')
    BY <1>2, <1>3, <1>4, <1>5
<1>7. /\ \A n \in Kept(box) : n \in Kept(box') \/ list'[n] = 0
      /\ \A n \in Message : list'[n] > 0 => list[n] > 0
      /\ Kept(box') \subseteq composed
    BY <1>4, <1>5, Standing
<1> HIDE DEF m
<1> QED BY <1>1, <1>2, <1>3, <1>4, <1>5, <1>6, <1>7, Standing, SlotMoves DEF m

\* A send failed or was not answered in time: its entry is queued, or retried.
LEMMA GiveUpKeeps ==
    ASSUME Outbox!SoundConstants, OutboxInv, NEW k \in Slot, Outbox!GiveUp(k)
    PROVE  OutboxInv'
<1> DEFINE m == slot[k].m
<1>1. /\ slot[k].net = "null" /\ m # NoMessage
      /\ box' = IF slot[k].kind = "drain" THEN Outbox!Retried({m}) ELSE Outbox!Queued(m)
      /\ Outbox!Finish(k)
      /\ UNCHANGED <<composed, list, disk, hydrated, connected, owed, late, stored>>
    BY DEF Outbox!GiveUp, Outbox!network
<1>2. /\ m \in Message /\ m \in composed /\ Outbox!TypeOK
      /\ slot[k].todo \subseteq composed /\ slot[k].todo \subseteq Message
      /\ \A n \in slot[k].todo : list[n] = 0 \/ n \in Kept(box)
      /\ slot[k].kind = "drain" => list[m] = 0 \/ m \in Kept(box)
    BY <1>1, SlotKnown
<1>3. PICK s \in Sending : /\ Known(s) /\ slot' = [slot EXCEPT ![k] = s] /\ s.m = NoMessage
                           /\ s.todo \subseteq slot[k].todo
    BY <1>1, FinishFacts
<1>4. /\ box' \in Outbox!Box /\ Counted(box')
      /\ Kept(box') = IF slot[k].kind = "drain" THEN Kept(box) ELSE Kept(box) \cup {m}
    <2>1. CASE slot[k].kind = "drain"
        BY <1>1, <1>2, <2>1, RetriedFacts
    <2>2. CASE slot[k].kind # "drain"
        BY <1>1, <1>2, <2>2, QueuedFacts DEF Kept
    <2> QED BY <2>1, <2>2
<1>5. /\ m \in Kept(box') \/ list[m] = 0
      /\ \A n \in s.todo : list[n] = 0 \/ n \in Kept(box')
      /\ Kept(box) \subseteq Kept(box') /\ Kept(box') \subseteq composed
    BY <1>2, <1>3, <1>4, Standing
<1> HIDE DEF m
<1> QED BY <1>1, <1>2, <1>3, <1>4, <1>5, Standing, SlotMoves DEF m

\* A drain begins, joins the room, takes its next entry or ends.
LEMMA DrainKeeps ==
    ASSUME Outbox!SoundConstants, OutboxInv, NEW k \in Slot,
           Outbox!DrainStart(k) \/ Outbox!DrainJoined(k) \/ Outbox!DrainNext(k)
    PROVE  OutboxInv'
<1>1. CASE Outbox!DrainStart(k)
    <2> DEFINE s == [Outbox!Free EXCEPT !.kind = "join", !.todo = box.out]
    <2>1. /\ slot[k].kind = "free" /\ slot' = [slot EXCEPT ![k] = s] /\ owed' = FALSE
          /\ UNCHANGED <<Outbox!client, connected, late, stored>>
        BY <1>1 DEF Outbox!DrainStart
    <2>2. s \in Sending /\ Known(s) /\ s.m = NoMessage /\ s.kind = "join" /\ s.todo = box.out
        BY Standing DEF Outbox!Free, Sending, Known, Outbox!Box
    <2> HIDE DEF s
    <2>3. slot[k].m = NoMessage /\ box.out \subseteq Kept(box) /\ owed' \in BOOLEAN
        BY <2>1, SlotKnown DEF Known, Kept
    <2> QED BY <2>1, <2>2, <2>3, Standing, SlotMoves DEF Outbox!client, Outbox!SoundConstants
<1>2. CASE Outbox!DrainJoined(k)
    <2>1. /\ slot[k].kind = "join" /\ slot[k].m = NoMessage /\ slot[k] \in Sending
          /\ slot[k].todo \subseteq composed /\ slot[k].todo \subseteq Message
          /\ \A n \in slot[k].todo : list[n] = 0 \/ n \in Kept(box)
          /\ UNCHANGED <<composed, list, disk, hydrated, connected, owed, late, stored>>
          /\ Known(slot[k])
        BY <1>2, SlotKnown DEF Outbox!DrainJoined, Outbox!network, Known
    <2>2. CASE slot' = [slot EXCEPT ![k].kind = "drain"] /\ box' = box
        <3> DEFINE s == [slot[k] EXCEPT !.kind = "drain"]
        <3>1. slot' = [slot EXCEPT ![k] = s]
            BY <2>2
        <3>2. s \in Sending /\ Known(s) /\ s.m = NoMessage /\ s.todo = slot[k].todo
            BY <2>1 DEF Sending, Known
        <3> HIDE DEF s
        <3> QED BY <2>1, <2>2, <3>1, <3>2, Standing, SlotMoves
    <2>3. CASE slot' = [slot EXCEPT ![k] = Outbox!Free] /\ box' = Outbox!Retried(slot[k].todo)
        <3>1. box' \in Outbox!Box /\ Counted(box') /\ Kept(box') = Kept(box)
            BY <2>1, <2>3, SlotKnown, RetriedFacts
        <3> QED BY <2>1, <2>3, <3>1, FreeSlot, Standing, SlotMoves
    <2> QED BY <1>2, <2>2, <2>3 DEF Outbox!DrainJoined
<1>3. CASE Outbox!DrainNext(k)
    <2>1. /\ slot[k].kind = "drain" /\ slot[k].m = NoMessage
          /\ slot[k].todo \subseteq composed /\ slot[k].todo \subseteq Message
          /\ \A n \in slot[k].todo : list[n] = 0 \/ n \in Kept(box)
          /\ UNCHANGED <<composed, list, box, disk, hydrated, connected, owed, late, stored>>
        BY <1>3, SlotKnown DEF Outbox!DrainNext, Outbox!client, Outbox!network
    <2>2. CASE slot' = [slot EXCEPT ![k] = Outbox!Free]
        BY <2>1, <2>2, FreeSlot, Standing, SlotMoves
    <2>3. ASSUME NEW m \in slot[k].todo, Outbox!Emit(k, "drain", m, slot[k].todo \ {m})
          PROVE  OutboxInv'
        <3> DEFINE s == [kind |-> "drain", m |-> m, row |-> 0, todo |-> slot[k].todo \ {m},
                         net |-> IF connected THEN "sent" ELSE "null"]
        <3>1. slot' = [slot EXCEPT ![k] = s]
            BY <2>3 DEF Outbox!Emit
        <3>2. s \in Sending /\ Known(s) /\ s.m = m /\ s.todo = slot[k].todo \ {m}
            BY <2>1 DEF Sending, Known
        <3> HIDE DEF s
        <3> QED BY <2>1, <3>1, <3>2, Standing, SlotMoves DEF Outbox!SoundConstants
    <2> QED BY <1>3, <2>2, <2>3 DEF Outbox!DrainNext
<1> QED BY <1>1, <1>2, <1>3

\* The send on its way: stored, refused, or given up while it is.
LEMMA NetKeeps ==
    ASSUME Outbox!SoundConstants, OutboxInv, NEW k \in Slot, Outbox!Timeout(k) \/ Outbox!Store(k) \/ Outbox!Refuse(k)
    PROVE  OutboxInv'
<1> DEFINE was == slot[k]
<1>1. PICK net \in {"stored", "null"}, row \in Outbox!Row \cup {0} :
          /\ slot' = [slot EXCEPT ![k] = [was EXCEPT !.net = net, !.row = row]]
          /\ net = "stored" => row \in Outbox!Row
          /\ was.net \in {"sent", "stored"}
    <2>1. CASE Outbox!Timeout(k)
        <3>1. slot' = [slot EXCEPT ![k] = [was EXCEPT !.net = "null", !.row = 0]]
            BY <2>1, SlotKnown DEF Outbox!Timeout, OutboxInv, Outbox!TypeOK
        <3>2. was.net \in {"sent", "stored"}
            BY <2>1 DEF Outbox!Timeout
        <3> HIDE DEF was
        <3> QED BY <3>1, <3>2
    <2>2. CASE Outbox!Store(k)
        <3>1. PICK r \in Outbox!Row : slot' = [slot EXCEPT ![k].net = "stored", ![k].row = r]
            BY <2>2 DEF Outbox!Store
        <3>2. slot' = [slot EXCEPT ![k] = [was EXCEPT !.net = "stored", !.row = r]]
            BY <3>1, SlotKnown DEF OutboxInv, Outbox!TypeOK
        <3>3. was.net \in {"sent", "stored"}
            BY <2>2 DEF Outbox!Store
        <3> HIDE DEF was
        <3> QED BY <3>2, <3>3
    <2>3. CASE Outbox!Refuse(k)
        <3>1. slot' = [slot EXCEPT ![k] = [was EXCEPT !.net = "null", !.row = was.row]]
            BY <2>3, SlotKnown DEF Outbox!Refuse, Sending
        <3> QED BY <2>3, <3>1, SlotKnown DEF Outbox!Refuse, Sending
    <2> QED BY <2>1, <2>2, <2>3
<1> DEFINE s == [was EXCEPT !.net = net, !.row = row]
<1>2. /\ was \in Sending /\ Known(was) /\ was.m \in Message /\ was.m \in composed \cup {NoMessage}
      /\ was.todo \subseteq composed
      /\ \A m \in was.todo : list[m] = 0 \/ m \in Kept(box)
      /\ was.kind = "drain" => list[was.m] = 0 \/ was.m \in Kept(box)
    BY <1>1, SlotKnown DEF Known
<1>3. /\ s \in Sending /\ s.net = net /\ s.row = row /\ s.m = was.m /\ s.kind = was.kind
      /\ s.todo = was.todo
    BY <1>1, <1>2 DEF Sending
<1>4. Known(s)
    BY <1>1, <1>2, <1>3 DEF Known
<1>5. slot' = [slot EXCEPT ![k] = s]
    BY <1>1
<1>6. /\ UNCHANGED <<Outbox!client, connected, owed>> /\ late' \subseteq Message
      /\ stored' \in [Outbox!Row -> Message \cup {NoMessage}]
    BY <1>2, Standing DEF Outbox!Timeout, Outbox!Store, Outbox!Refuse, Outbox!NextRow,
        Outbox!network
<1> HIDE DEF s, was
<1> QED BY <1>2, <1>3, <1>4, <1>5, <1>6, Standing, SlotMoves DEF Outbox!client, was

\* The list hears of a row, the network delivers late, connects or breaks.
LEMMA NewsKeeps ==
    ASSUME Outbox!SoundConstants, OutboxInv,
           (\E r \in Outbox!Row : Outbox!Receive(r)) \/ (\E m \in Message : Outbox!StoreLate(m)) \/ Outbox!Connect \/ Outbox!Disconnect
    PROVE  OutboxInv'
<1>1. /\ UNCHANGED <<composed, box, disk, hydrated, slot>>
      /\ connected' \in BOOLEAN /\ owed' \in BOOLEAN /\ late' \subseteq Message
      /\ stored' \in [Outbox!Row -> Message \cup {NoMessage}]
      /\ list' \in [Message \cup Outbox!Row -> Nat] /\ \A i \in Message \cup Outbox!Row : list'[i] <= 1
      /\ \A m \in Message : list'[m] = list[m]
    <2>1. CASE \E r \in Outbox!Row : Outbox!Receive(r)
        <3>1. PICK r \in Outbox!Row : list' = [list EXCEPT ![r] = 1]
            BY <2>1 DEF Outbox!Receive
        <3>2. r \notin Message
            BY DEF Outbox!SoundConstants, Outbox!Row
        <3> QED BY <2>1, <3>1, <3>2, Standing DEF Outbox!Receive, Outbox!network
    <2>2. CASE \E m \in Message : Outbox!StoreLate(m)
        BY <2>2, Standing DEF Outbox!StoreLate, Outbox!NextRow, Outbox!client
    <2>3. CASE Outbox!Connect \/ Outbox!Disconnect
        BY <2>3, Standing DEF Outbox!Connect, Outbox!Disconnect, Outbox!client
    <2> QED BY <2>1, <2>2, <2>3
<1>2. Outbox!TypeOK'
    BY <1>1 DEF OutboxInv, Outbox!TypeOK
<1>3. /\ \A k \in Slot : slot[k].todo \subseteq Message
      /\ Sends' /\ Written' /\ Saved' /\ Outbox!ShownOnce' /\ Outbox!PendingIsTracked'
    BY <1>1 DEF OutboxInv, Outbox!TypeOK, Sends, Known, Written, Saved, Counted, Outbox!ShownOnce,
        Outbox!PendingIsTracked
<1>4. Taken'
    BY <1>1, <1>3 DEF OutboxInv, Taken
<1> QED BY <1>2, <1>3, <1>4 DEF OutboxInv

\* The outbox is saved with the rows it refers to.
LEMMA SaveKeeps ==
    ASSUME Outbox!SoundConstants, OutboxInv, Outbox!Save
    PROVE  OutboxInv'
<1>1. /\ disk' = [box |-> box, rows |-> Outbox!CollectPending]
      /\ UNCHANGED <<composed, list, box, hydrated, Outbox!network, slot>>
    BY DEF Outbox!Save
<1>2. Outbox!CollectPending \subseteq Kept(box) /\ Outbox!CollectPending \subseteq Message
    BY Standing DEF Outbox!CollectPending, Kept
<1>3. disk' \in [box : Outbox!Box, rows : SUBSET Message] /\ disk'.box = box
      /\ disk'.rows = Outbox!CollectPending
    BY <1>1, <1>2, Standing
<1>4. Outbox!TypeOK'
    BY <1>1, <1>3 DEF OutboxInv, Outbox!TypeOK, Outbox!network
<1>5. Sends' /\ Taken' /\ Outbox!ShownOnce' /\ Outbox!PendingIsTracked'
    BY <1>1 DEF OutboxInv, Sends, Known, Taken, Outbox!ShownOnce, Outbox!PendingIsTracked
<1>6. Saved'
    BY <1>2, <1>3, Standing DEF Saved, Counted
<1>7. Written'
    BY <1>1, <1>3, Standing DEF OutboxInv, Written
<1> QED BY <1>4, <1>5, <1>6, <1>7 DEF OutboxInv

\* The app is killed and started again: sends on their way may still arrive.
LEMMA RestartKeeps ==
    ASSUME Outbox!SoundConstants, OutboxInv, Outbox!Restart
    PROVE  OutboxInv'
<1>1. /\ box' = Outbox!Empty /\ hydrated' = FALSE /\ list' = [i \in Message \cup Outbox!Row |-> 0]
      /\ slot' = [k \in Slot |-> Outbox!Free] /\ connected' = FALSE /\ owed' = FALSE
      /\ UNCHANGED <<composed, disk, stored>>
    BY DEF Outbox!Restart
<1>2. late' \subseteq Message
    <2>1. {slot[k].m : k \in {l \in Slot : slot[l].net = "sent"}} \subseteq Message
        BY SlotKnown DEF Known
    <2> QED BY <2>1, Standing DEF Outbox!Restart
<1>3. Outbox!Empty \in Outbox!Box /\ Counted(Outbox!Empty) /\ Kept(Outbox!Empty) = {}
    <2>1. 0 \in 0..MaxRetries-1
        BY DEF Outbox!SoundConstants
    <2> QED BY <2>1 DEF Outbox!Empty, Outbox!Box, Counted, Kept
<1>4. Outbox!TypeOK'
    <2>1. slot' \in [Slot -> Sending]
        BY <1>1, FreeSlot
    <2> QED BY <1>1, <1>2, <1>3, <2>1 DEF OutboxInv, Outbox!TypeOK, Sending, Counted
<1> QED BY <1>1, <1>3, <1>4, FreeSlot
        DEF OutboxInv, Sends, Known, Written, Saved, Counted, Taken, Outbox!ShownOnce,
            Outbox!PendingIsTracked

\* What was saved is restored, under what has been written meanwhile.
LEMMA HydrateKeeps ==
    ASSUME Outbox!SoundConstants, OutboxInv, Outbox!Hydrate
    PROVE  OutboxInv'
<1> DEFINE old == disk.box
<1>1. /\ hydrated' = TRUE
      /\ box' = [out |-> box.out \cup old.out, failed |-> box.failed \cup old.failed,
                 retries |-> [m \in Message |->
                    IF m \in box.out THEN box.retries[m] ELSE old.retries[m]]]
      /\ list' = [i \in Message \cup Outbox!Row |->
                    IF i \in disk.rows /\ list[i] = 0 THEN 1 ELSE list[i]]
      /\ UNCHANGED <<composed, disk, Outbox!network, slot>>
    BY DEF Outbox!Hydrate
<1>2. /\ box \in Outbox!Box /\ old \in Outbox!Box /\ Counted(box) /\ Counted(old)
      /\ disk.rows \subseteq Kept(old) /\ Kept(old) \subseteq composed
    BY Standing DEF OutboxInv, Outbox!TypeOK, Saved, Written
<1> HIDE DEF old
<1>3. /\ box' \in Outbox!Box /\ Counted(box') /\ Kept(box') = Kept(box) \cup Kept(old)
    BY <1>1, <1>2 DEF Outbox!Box, Counted, Kept
<1>4. /\ list' \in [Message \cup Outbox!Row -> Nat] /\ \A i \in Message \cup Outbox!Row : list'[i] <= 1
      /\ \A m \in Message : list'[m] = list[m] \/ m \in Kept(old)
    BY <1>1, <1>2, Standing
<1>5. Outbox!TypeOK'
    BY <1>1, <1>3, <1>4 DEF OutboxInv, Outbox!TypeOK, Counted, Outbox!network
<1>6. Sends' /\ Saved' /\ Outbox!ShownOnce'
    BY <1>1, <1>4 DEF OutboxInv, Sends, Known, Saved, Counted, Outbox!ShownOnce
<1>7. Written'
    BY <1>1, <1>2, <1>3, <1>4, Standing DEF OutboxInv, Written
<1>8. Taken'
    <2>1. \A k \in Slot : slot[k].todo \subseteq Message
        BY SlotKnown
    <2> QED BY <1>1, <1>3, <1>4, <2>1 DEF OutboxInv, Taken
<1>9. Outbox!PendingIsTracked'
    <2>1. \A m \in Message : list'[m] > 0 =>
              m \in Kept(box') \/ \E k \in Slot : slot[k].m = m
        BY <1>3, <1>4 DEF OutboxInv, Outbox!PendingIsTracked, Kept
    <2> QED BY <1>1, <2>1 DEF Outbox!PendingIsTracked, Kept
<1> QED BY <1>5, <1>6, <1>7, <1>8, <1>9 DEF OutboxInv

\* Every step keeps the invariant.
LEMMA NextOutbox ==
    ASSUME Outbox!SoundConstants, OutboxInv, [Outbox!Next]_Outbox!vars
    PROVE  OutboxInv'
<1>1. CASE UNCHANGED Outbox!vars
    BY <1>1 DEF OutboxInv, Outbox!TypeOK, Sends, Known, Written, Saved, Counted, Taken,
        Outbox!ShownOnce,
        Outbox!PendingIsTracked, Outbox!vars, Outbox!client, Outbox!network
<1>2. CASE \E k \in Slot, m \in Message : Outbox!Compose(k, m) \/ Outbox!Retry(k, m)
    BY <1>2, ComposeKeeps, RetryKeeps
<1>3. CASE \E k \in Slot : \/ Outbox!Ack(k) \/ Outbox!GiveUp(k) \/ Outbox!Timeout(k) \/ Outbox!DrainStart(k)
                           \/ Outbox!DrainJoined(k) \/ Outbox!DrainNext(k) \/ Outbox!Store(k) \/ Outbox!Refuse(k)
    BY <1>3, AckKeeps, GiveUpKeeps, DrainKeeps, NetKeeps
<1>4. CASE (\E r \in Outbox!Row : Outbox!Receive(r)) \/ (\E m \in Message : Outbox!StoreLate(m)) \/ Outbox!Connect \/ Outbox!Disconnect
    BY <1>4, NewsKeeps
<1>5. CASE Outbox!Save \/ Outbox!Restart \/ Outbox!Hydrate
    BY <1>5, SaveKeeps, RestartKeeps, HydrateKeeps
<1> QED BY <1>1, <1>2, <1>3, <1>4, <1>5 DEF Outbox!Next

-----------------------------------------------------------------------------
(* The event *)

\* Nobody has reviewed the event, and who has held a place at it.
Unreviewed == \A u \in Guest : review[u].state = "none"
Attended(u) == u \in confirmed /\ (status[u] = "going" \/ u \in lapsed)

\* What a handler that has the lock has found out holds still: there is a seat for
\* whom it answers, nobody has reviewed if it was told to look again, and the host
\* has not ended the event; who it will write a review for attended.
HandlerFair(h) ==
    /\ h.pc # "idle" => h.user \in Guest
    /\ h.pc \in {"rsvp", "seats", "answer"} => h.reply \in Attendance!Reply
    /\ h.pc = "answer" /\ h.reply = "going" /\ status[h.user] # "going"
          => Attendance!Cardinality(Attendance!Going) < Capacity
    /\ h.pc \in {"seats", "answer"} => ~hosted /\ (h.changed => Unreviewed)
    /\ hosted /\ h.pc = "rsvp" => h.changed \/ h.ended
    /\ h.pc = "reviewing" => phase = "ended" /\ (h.user \in gone \/ Attended(h.user))
HandlersFair == \A p \in Request : HandlerFair(req[p])
OneHolds == \A p, q \in Request : Attendance!Holds(p) /\ Attendance!Holds(q) => p = q

\* The host's end is an end, and reviews come after one.
EndsFirst == /\ hosted => phase = "ended"
             /\ Unreviewed \/ phase = "ended"

EventInv ==
    /\ Attendance!TypeOK /\ IsFiniteSet(Attendance!Going) /\ HandlersFair /\ OneHolds /\ EndsFirst
    /\ Attendance!SeatsAreCapped /\ Attendance!CountIsRight /\ Attendance!ReviewersAttended

\* The instance counts as the library does.
LEMMA CountsAlike == \A S : Attendance!Cardinality(S) = Cardinality(S)
BY DEF Attendance!Cardinality, Cardinality

\* The number of those going.
LEMMA GoingCounted ==
    ASSUME IsFiniteSet(Attendance!Going)
    PROVE  Attendance!Cardinality(Attendance!Going) \in Nat
BY FS_CardinalityType, CountsAlike

\* One guest's reply changes the number by one at most.
LEMMA ReplyCounts ==
    ASSUME Attendance!TypeOK, IsFiniteSet(Attendance!Going), NEW u \in Guest, NEW r \in Attendance!Reply \cup {"none"},
           status' = [status EXCEPT ![u] = r]
    PROVE  /\ IsFiniteSet(Attendance!Going') /\ Attendance!Cardinality(Attendance!Going') \in Nat /\ Attendance!Cardinality(Attendance!Going) \in Nat
           /\ r = "going" => Attendance!Cardinality(Attendance!Going') =
                 IF status[u] = "going" THEN Attendance!Cardinality(Attendance!Going) ELSE Attendance!Cardinality(Attendance!Going) + 1
           /\ r # "going" => Attendance!Cardinality(Attendance!Going') =
                 IF status[u] = "going" THEN Attendance!Cardinality(Attendance!Going) - 1 ELSE Attendance!Cardinality(Attendance!Going)
<1>1. Attendance!Going' = IF r = "going" THEN Attendance!Going \cup {u} ELSE Attendance!Going \ {u}
    BY DEF Attendance!TypeOK, Attendance!Going
<1>2. status[u] = "going" <=> u \in Attendance!Going
    BY DEF Attendance!Going
<1> QED BY <1>1, <1>2, FS_AddElement, FS_RemoveElement, FS_CardinalityType, CountsAlike, Zenon

\* The event when it is created.
LEMMA InitEvent == ASSUME Attendance!SoundConstants PROVE Attendance!Init => EventInv
<1> SUFFICES ASSUME Attendance!Init PROVE EventInv
    OBVIOUS
<1>1. Attendance!Going = {}
    BY DEF Attendance!Init, Attendance!Going
<1>2. Attendance!Cardinality(Attendance!Going) = 0 /\ IsFiniteSet(Attendance!Going)
    BY <1>1, FS_EmptySet, CountsAlike
<1>3. Attendance!Tidy \in Attendance!Handler /\ Attendance!Tidy.pc = "idle"
    BY DEF Attendance!Tidy, Attendance!Handler
<1>4. Attendance!NoReview \in Attendance!Review /\ Attendance!NoReview.state = "none"
    BY DEF Attendance!NoReview, Attendance!Review
<1>5. Attendance!TypeOK
    BY <1>3, <1>4 DEF Attendance!Init, Attendance!TypeOK
<1>6. HandlersFair /\ OneHolds
    BY <1>3 DEF Attendance!Init, HandlersFair, HandlerFair, OneHolds, Attendance!Holds
<1>7. EndsFirst /\ Attendance!ReviewersAttended
    BY <1>4 DEF Attendance!Init, EndsFirst, Unreviewed, Attendance!ReviewersAttended
<1>8. Attendance!SeatsAreCapped /\ Attendance!CountIsRight
    BY <1>2 DEF Attendance!Init, Attendance!SeatsAreCapped, Attendance!CountIsRight,
        Attendance!SoundConstants
<1> QED BY <1>2, <1>5, <1>6, <1>7, <1>8 DEF EventInv

\* A handler goes on, and nothing but its locals changes.
LEMMA HandlerMoves ==
    ASSUME EventInv, NEW p \in Request, NEW h \in Attendance!Handler, HandlerFair(h),
           req' = [req EXCEPT ![p] = h],
           h.pc \in {"seats", "answer", "confirming", "reviewing"} => Attendance!Holds(p) \/ Attendance!LockFree,
           UNCHANGED <<Attendance!eventVars, Attendance!guestVars, Attendance!reviewVars, Attendance!userVars>>
    PROVE  EventInv'
<1>1. /\ req' \in [Request -> Attendance!Handler] /\ req'[p] = h
      /\ \A q \in Request \ {p} : req'[q] = req[q]
    BY DEF EventInv, Attendance!TypeOK
<1>2. UNCHANGED <<phase, hosted, status, count, drift, lapsed, confirmed, review, closed, blocked,
                  gone, Attendance!Going>>
    BY DEF Attendance!eventVars, Attendance!guestVars, Attendance!reviewVars,
        Attendance!userVars, Attendance!Going
<1>3. Attendance!TypeOK'
    BY <1>1, <1>2 DEF EventInv, Attendance!TypeOK
<1>4. HandlersFair'
    BY <1>1, <1>2 DEF EventInv, HandlersFair, HandlerFair, Unreviewed, Attended
<1>5. OneHolds'
    BY <1>1 DEF EventInv, OneHolds, Attendance!Holds, Attendance!LockFree
<1>6. EndsFirst' /\ Attendance!SeatsAreCapped' /\ Attendance!CountIsRight' /\ Attendance!ReviewersAttended'
    BY <1>2 DEF EventInv, EndsFirst, Unreviewed, Attendance!SeatsAreCapped,
        Attendance!CountIsRight, Attendance!ReviewersAttended
<1> QED BY <1>2, <1>3, <1>4, <1>5, <1>6 DEF EventInv

\* What a handler holds.
LEMMA HandlerKnown ==
    ASSUME EventInv, NEW p \in Request
    PROVE  /\ Attendance!TypeOK /\ req[p] \in Attendance!Handler /\ HandlerFair(req[p])
           /\ req[p].pc \in {"idle", "rsvp", "seats", "answer", "confirm", "confirming",
                             "review", "reviewing"}
           /\ \A h \in Attendance!Handler : [req EXCEPT ![p] = h][p] = h
BY DEF EventInv, Attendance!TypeOK, HandlersFair, Attendance!Handler

LEMMA TidyHandler ==
    /\ Attendance!Tidy \in Attendance!Handler /\ Attendance!Tidy.pc = "idle" /\ HandlerFair(Attendance!Tidy)
BY DEF Attendance!Tidy, Attendance!Handler, HandlerFair

\* A handler at another place is a handler.
LEMMA GoneOn ==
    ASSUME Attendance!TypeOK, NEW p \in Request, NEW pc \in {"seats", "answer", "confirming", "reviewing"},
           Attendance!Go(p, pc)
    PROVE  \E h \in Attendance!Handler :
               /\ req' = [req EXCEPT ![p] = h] /\ h.pc = pc /\ h.user = req[p].user
               /\ h.reply = req[p].reply /\ (h.changed <=> req[p].changed)
               /\ (h.ended <=> req[p].ended) /\ (h.edit <=> req[p].edit)
<1> DEFINE h == [req[p] EXCEPT !.pc = pc]
<1>1. req \in [Request -> Attendance!Handler] /\ req[p] \in Attendance!Handler
    BY DEF Attendance!TypeOK
<1>2. req' = [req EXCEPT ![p] = h]
    BY <1>1 DEF Attendance!Go
<1>3. h \in Attendance!Handler
    BY <1>1, Zenon DEF Attendance!Handler
<1>4. /\ h.pc = pc /\ h.user = req[p].user /\ h.reply = req[p].reply
      /\ (h.changed <=> req[p].changed) /\ (h.ended <=> req[p].ended) /\ (h.edit <=> req[p].edit)
    BY <1>1 DEF Attendance!Handler
<1> HIDE DEF h
<1> QED BY <1>2, <1>3, <1>4

\* A request begins.
LEMMA BeginKeeps ==
    ASSUME Attendance!SoundConstants, EventInv, NEW p \in Request, NEW u \in Guest,
           \/ \E r \in Attendance!Reply : Attendance!Rsvp(p, u, r)
           \/ Attendance!Confirm(p, u)
           \/ \E edit \in BOOLEAN : Attendance!Save(p, u, edit)
    PROVE  EventInv'
<1>1. UNCHANGED <<Attendance!eventVars, Attendance!guestVars, Attendance!reviewVars, Attendance!userVars>>
    BY DEF Attendance!Rsvp, Attendance!Confirm, Attendance!Save
<1>2. CASE \E r \in Attendance!Reply : Attendance!Rsvp(p, u, r)
    <2>1. PICK r \in Attendance!Reply : Attendance!Rsvp(p, u, r)
        BY <1>2
    <2> DEFINE h == [Attendance!Tidy EXCEPT !.pc = "rsvp", !.user = u, !.reply = r, !.ended = phase = "ended"]
    <2>3. req' = [req EXCEPT ![p] = h]
        BY <2>1 DEF Attendance!Rsvp, Attendance!Become
    <2>4. (phase = "ended") \in BOOLEAN /\ u \in Guest \cup {Nobody} /\ r \in Attendance!Reply \cup {"none"}
        OBVIOUS
    <2>5. h \in Attendance!Handler
        BY <2>4, TidyHandler, Zenon DEF Attendance!Handler
    <2>6. h.pc = "rsvp" /\ h.user = u /\ h.reply = r /\ (h.ended <=> phase = "ended")
        BY TidyHandler DEF Attendance!Handler
    <2>7. HandlerFair(h)
        BY <2>6 DEF EventInv, EndsFirst, HandlerFair
    <2> HIDE DEF h
    <2> QED BY <1>1, <2>3, <2>5, <2>6, <2>7, HandlerMoves
<1>3. CASE Attendance!Confirm(p, u)
    <2> DEFINE h == [Attendance!Tidy EXCEPT !.pc = "confirm", !.user = u]
    <2>1. req' = [req EXCEPT ![p] = h]
        BY <1>3 DEF Attendance!Confirm, Attendance!Become
    <2>3. h \in Attendance!Handler
        BY TidyHandler, Zenon DEF Attendance!Handler
    <2>4. h.pc = "confirm" /\ h.user = u
        BY TidyHandler DEF Attendance!Handler
    <2> HIDE DEF h
    <2> QED BY <1>1, <2>1, <2>3, <2>4, HandlerMoves DEF HandlerFair
<1>4. CASE \E edit \in BOOLEAN : Attendance!Save(p, u, edit)
    <2>1. PICK edit \in BOOLEAN : Attendance!Save(p, u, edit)
        BY <1>4
    <2> DEFINE h == [Attendance!Tidy EXCEPT !.pc = "review", !.user = u, !.edit = edit]
    <2>2. req' = [req EXCEPT ![p] = h]
        BY <2>1 DEF Attendance!Save, Attendance!Become
    <2>4. h \in Attendance!Handler
        BY TidyHandler, Zenon DEF Attendance!Handler
    <2>5. h.pc = "review" /\ h.user = u
        BY TidyHandler DEF Attendance!Handler
    <2> HIDE DEF h
    <2> QED BY <1>1, <2>2, <2>4, <2>5, HandlerMoves DEF HandlerFair
<1> QED BY <1>2, <1>3, <1>4

\* A handler is let in, finds a seat, or gives up.
LEMMA GateKeeps ==
    ASSUME Attendance!SoundConstants, EventInv, NEW p \in Request,
           Attendance!RsvpLock(p) \/ Attendance!RsvpSeats(p) \/ Attendance!ConfirmGate(p) \/ Attendance!SaveGate(p) \/ Attendance!Fail(p)
    PROVE  EventInv'
<1>1. UNCHANGED <<Attendance!eventVars, Attendance!guestVars, Attendance!reviewVars, Attendance!userVars>>
    BY DEF Attendance!RsvpLock, Attendance!RsvpSeats, Attendance!ConfirmGate,
        Attendance!SaveGate, Attendance!Fail
<1>2. CASE Attendance!Become(p, Attendance!Tidy)
    BY <1>1, <1>2, TidyHandler, HandlerMoves DEF Attendance!Become
<1>3. CASE Attendance!RsvpLock(p) /\ Attendance!Go(p, "seats")
    <2>1. PICK h \in Attendance!Handler : req' = [req EXCEPT ![p] = h] /\ h.pc = "seats"
                               /\ h.user = req[p].user /\ h.reply = req[p].reply
                               /\ (h.changed <=> req[p].changed)
        BY <1>3, HandlerKnown, GoneOn
    <2>2. Attendance!LockFree /\ req[p].pc = "rsvp"
        BY <1>3 DEF Attendance!RsvpLock, Attendance!At
    <2>3. CASE Attendance!Become(p, Attendance!Tidy)
        BY <1>2, <2>3
    <2>4. CASE ~Attendance!EndedNow(p)
        <3>1. ~hosted /\ (req[p].changed => Unreviewed)
            BY <2>2, <2>4, HandlerKnown DEF Attendance!EndedNow, EventInv, EndsFirst, HandlerFair
        <3>2. HandlerFair(h)
            BY <2>1, <2>2, <3>1, HandlerKnown DEF HandlerFair
        <3> QED BY <1>1, <2>1, <2>2, <3>2, HandlerMoves
    <2> QED BY <1>3, <2>3, <2>4 DEF Attendance!RsvpLock
<1>4. CASE Attendance!RsvpSeats(p) /\ Attendance!Go(p, "answer")
    <2>1. PICK h \in Attendance!Handler : req' = [req EXCEPT ![p] = h] /\ h.pc = "answer"
                               /\ h.user = req[p].user /\ h.reply = req[p].reply
                               /\ (h.changed <=> req[p].changed)
        BY <1>4, HandlerKnown, GoneOn
    <2>2. req[p].pc = "seats" /\ Attendance!Holds(p)
        BY <1>4 DEF Attendance!RsvpSeats, Attendance!At, Attendance!Holds
    <2>3. CASE Attendance!Become(p, Attendance!Tidy)
        BY <1>2, <2>3
    <2>4. CASE ~(/\ req[p].reply = "going" /\ status[req[p].user] # "going"
                 /\ Attendance!Cardinality(Attendance!Going) >= Capacity)
        <3>1. Attendance!Cardinality(Attendance!Going) \in Nat /\ Capacity \in Nat
            BY GoingCounted DEF EventInv, Attendance!SoundConstants
        <3>2. HandlerFair(h)
            BY <2>1, <2>2, <2>4, <3>1, HandlerKnown DEF HandlerFair
        <3> QED BY <1>1, <2>1, <2>2, <3>2, HandlerMoves
    <2> QED BY <1>4, <2>3, <2>4 DEF Attendance!RsvpSeats
<1>5. CASE Attendance!ConfirmGate(p) /\ Attendance!Go(p, "confirming")
    <2>1. PICK h \in Attendance!Handler : req' = [req EXCEPT ![p] = h] /\ h.pc = "confirming"
                               /\ h.user = req[p].user
        BY <1>5, HandlerKnown, GoneOn
    <2>2. Attendance!LockFree /\ req[p].pc = "confirm"
        BY <1>5 DEF Attendance!ConfirmGate, Attendance!At
    <2>3. HandlerFair(h)
        BY <2>1, <2>2, HandlerKnown DEF HandlerFair
    <2> QED BY <1>1, <2>1, <2>2, <2>3, HandlerMoves
<1>6. CASE Attendance!SaveGate(p) /\ Attendance!Go(p, "reviewing")
    <2>1. PICK h \in Attendance!Handler : req' = [req EXCEPT ![p] = h] /\ h.pc = "reviewing"
                               /\ h.user = req[p].user
        BY <1>6, HandlerKnown, GoneOn
    <2>2. Attendance!LockFree /\ req[p].pc = "review"
        BY <1>6 DEF Attendance!SaveGate, Attendance!At
    <2>3. CASE Attendance!Become(p, Attendance!Tidy)
        BY <1>2, <2>3
    <2>4. CASE Attendance!Eligible(req[p].user)
        <3>1. HandlerFair(h)
            BY <2>1, <2>2, <2>4, HandlerKnown DEF HandlerFair, Attendance!Eligible, Attended
        <3> QED BY <1>1, <2>1, <2>2, <3>1, HandlerMoves
    <2> QED BY <1>6, <2>3, <2>4 DEF Attendance!SaveGate
<1>7. \/ Attendance!Become(p, Attendance!Tidy) \/ (Attendance!RsvpLock(p) /\ Attendance!Go(p, "seats")) \/ (Attendance!RsvpSeats(p) /\ Attendance!Go(p, "answer"))
      \/ (Attendance!ConfirmGate(p) /\ Attendance!Go(p, "confirming")) \/ (Attendance!SaveGate(p) /\ Attendance!Go(p, "reviewing"))
    BY DEF Attendance!RsvpLock, Attendance!RsvpSeats, Attendance!ConfirmGate,
        Attendance!SaveGate, Attendance!Fail
<1> QED BY <1>2, <1>3, <1>4, <1>5, <1>6, <1>7

\* A reply is committed, and those who wait for the row are told to look again.
LEMMA ReplyKeeps ==
    ASSUME Attendance!SoundConstants, EventInv, NEW p \in Request, Attendance!RsvpCommit(p)
    PROVE  EventInv'
<1> DEFINE u == req[p].user
           r == req[p].reply
<1>1. /\ req[p].pc = "answer" /\ Attendance!Holds(p) /\ u \in Guest /\ r \in Attendance!Reply
      /\ ~hosted /\ (req[p].changed => Unreviewed)
      /\ r = "going" /\ status[u] # "going" => Attendance!Cardinality(Attendance!Going) < Capacity
    BY HandlerKnown DEF Attendance!RsvpCommit, Attendance!At, Attendance!Holds, HandlerFair
<1>2. CASE u \in gone
    <2>1. Attendance!Become(p, Attendance!Tidy) /\ UNCHANGED <<Attendance!eventVars, Attendance!guestVars, Attendance!reviewVars, Attendance!userVars>>
        BY <1>2 DEF Attendance!RsvpCommit
    <2> QED BY <2>1, TidyHandler, HandlerMoves DEF Attendance!Become
<1>3. CASE u \notin gone
    <2>1. /\ status' = [status EXCEPT ![u] = r] /\ count' = Attendance!Cardinality(Attendance!Going')
          /\ drift' = FALSE
          /\ lapsed' = IF phase = "ended" /\ ~req[p].changed THEN lapsed \cup {u} ELSE lapsed
          /\ req' = [q \in Request |-> IF q = p THEN Attendance!Tidy ELSE Attendance!Changed(req[q])]
          /\ UNCHANGED <<phase, hosted, confirmed, review, closed, blocked, gone>>
        BY <1>3 DEF Attendance!RsvpCommit, Attendance!Recount, Attendance!Going,
            Attendance!eventVars, Attendance!reviewVars, Attendance!userVars
    <2> HIDE DEF u, r
    <2>2. \A q \in Request : Attendance!Changed(req[q]) \in Attendance!Handler
        <3> SUFFICES ASSUME NEW q \in Request PROVE Attendance!Changed(req[q]) \in Attendance!Handler
            OBVIOUS
        <3>1. req[q] \in Attendance!Handler
            BY HandlerKnown
        <3>2. [req[q] EXCEPT !.changed = TRUE] \in Attendance!Handler
            BY <3>1, Zenon DEF Attendance!Handler
        <3> QED BY <3>1, <3>2 DEF Attendance!Changed
    <2>3. \A q \in Request : /\ Attendance!Changed(req[q]).pc = req[q].pc
                             /\ Attendance!Changed(req[q]).user = req[q].user
                             /\ Attendance!Changed(req[q]).reply = req[q].reply
                             /\ Attendance!Changed(req[q]).changed <=> req[q].changed \/ req[q].pc = "rsvp"
                             /\ Attendance!Changed(req[q]).ended <=> req[q].ended
        BY HandlerKnown DEF Attendance!Changed, Attendance!Handler
    <2>4. /\ req' \in [Request -> Attendance!Handler] /\ req'[p] = Attendance!Tidy
          /\ \A q \in Request \ {p} : req'[q] = Attendance!Changed(req[q])
        BY <2>1, <2>2, TidyHandler
    <2>5. \A q \in Request \ {p} : req[q].pc \notin {"seats", "answer", "confirming", "reviewing"}
        BY <1>1 DEF EventInv, OneHolds, Attendance!Holds
    <2>6. /\ IsFiniteSet(Attendance!Going') /\ Attendance!Cardinality(Attendance!Going') \in Nat
          /\ r = "going" => Attendance!Cardinality(Attendance!Going') =
                IF status[u] = "going" THEN Attendance!Cardinality(Attendance!Going) ELSE Attendance!Cardinality(Attendance!Going) + 1
          /\ r # "going" => Attendance!Cardinality(Attendance!Going') =
                IF status[u] = "going" THEN Attendance!Cardinality(Attendance!Going) - 1 ELSE Attendance!Cardinality(Attendance!Going)
          /\ Attendance!Cardinality(Attendance!Going) \in Nat
        BY <1>1, <2>1, HandlerKnown, ReplyCounts DEF EventInv
    <2>7. /\ status' \in [Guest -> Attendance!Reply \cup {"none"}] /\ status'[u] = r
          /\ \A v \in Guest \ {u} : status'[v] = status[v]
        BY <1>1, <2>1 DEF EventInv, Attendance!TypeOK
    <2>8. Attendance!TypeOK'
        BY <1>1, <2>1, <2>4, <2>6, <2>7 DEF EventInv, Attendance!TypeOK, Attendance!Reply
    <2>9. HandlersFair' /\ OneHolds'
        <3>1. \A q \in Request : \/ req'[q].pc = "idle"
                                 \/ /\ req'[q].pc \in {"rsvp", "confirm", "review"}
                                    /\ req'[q].user \in Guest
                                    /\ req'[q].pc = "rsvp" => req'[q].reply \in Attendance!Reply
            BY <2>3, <2>4, <2>5, TidyHandler, HandlerKnown DEF HandlerFair
        <3> QED BY <1>1, <2>1, <3>1 DEF HandlersFair, HandlerFair, OneHolds, Attendance!Holds
    <2>10. Attendance!SeatsAreCapped' /\ Attendance!CountIsRight'
        BY <1>1, <2>1, <2>6 DEF EventInv, Attendance!SeatsAreCapped, Attendance!CountIsRight,
            Attendance!SoundConstants
    <2>11. EndsFirst'
        BY <2>1 DEF EventInv, EndsFirst, Unreviewed
    <2>12. Attendance!ReviewersAttended'
        <3> SUFFICES ASSUME NEW v \in Guest, review[v].state # "none"
                     PROVE  v \in confirmed /\ (status'[v] = "going" \/ v \in lapsed')
            BY <2>1 DEF Attendance!ReviewersAttended
        <3>1. v \in confirmed /\ (status[v] = "going" \/ v \in lapsed)
            BY DEF EventInv, Attendance!ReviewersAttended
        <3>2. phase = "ended" /\ ~req[p].changed
            BY <1>1 DEF EventInv, EndsFirst, Unreviewed
        <3> QED BY <2>1, <2>7, <3>1, <3>2
    <2> QED BY <2>6, <2>8, <2>9, <2>10, <2>11, <2>12 DEF EventInv
<1> QED BY <1>2, <1>3

\* The host confirms a guest.
LEMMA ConfirmKeeps ==
    ASSUME Attendance!SoundConstants, EventInv, NEW p \in Request, Attendance!ConfirmCommit(p)
    PROVE  EventInv'
<1> DEFINE u == req[p].user
<1>1. /\ u \in Guest /\ req' = [req EXCEPT ![p] = Attendance!Tidy]
      /\ confirmed' = IF Attendance!Attends(u) THEN confirmed \cup {u} ELSE confirmed
      /\ UNCHANGED <<phase, hosted, status, count, drift, lapsed, review, closed, blocked, gone,
                     Attendance!Going>>
    BY HandlerKnown DEF Attendance!ConfirmCommit, Attendance!At, HandlerFair, Attendance!Become,
        Attendance!eventVars, Attendance!guestVars, Attendance!userVars, Attendance!Going
<1> HIDE DEF u
<1>2. /\ req' \in [Request -> Attendance!Handler] /\ req'[p] = Attendance!Tidy
      /\ \A q \in Request \ {p} : req'[q] = req[q]
    BY <1>1, TidyHandler DEF EventInv, Attendance!TypeOK
<1>3. confirmed \subseteq confirmed' /\ \A v \in confirmed' : v \in confirmed \/ status[v] = "going"
    BY <1>1 DEF Attendance!Attends
<1>4. Attendance!TypeOK'
    BY <1>1, <1>2, <1>3 DEF EventInv, Attendance!TypeOK
<1>5. HandlersFair' /\ OneHolds'
    BY <1>1, <1>2, <1>3, TidyHandler
    DEF EventInv, HandlersFair, HandlerFair, Unreviewed, Attended, OneHolds, Attendance!Holds
<1>6. EndsFirst' /\ Attendance!SeatsAreCapped' /\ Attendance!CountIsRight' /\ Attendance!ReviewersAttended'
    BY <1>1, <1>3
    DEF EventInv, EndsFirst, Unreviewed, Attendance!SeatsAreCapped, Attendance!CountIsRight,
        Attendance!ReviewersAttended
<1> QED BY <1>1, <1>4, <1>5, <1>6 DEF EventInv

\* One guest's review becomes another one, as only a guest's who attended may, and
\* the handler that wrote it is done.
LEMMA ReviewKeeps ==
    ASSUME EventInv, NEW u \in Guest, NEW r \in Attendance!Review,
           review' = [review EXCEPT ![u] = r],
           r.state # "none" => phase = "ended" /\ Attended(u),
           \A p \in Request : req[p].pc \notin {"seats", "answer"},
           \/ req' = req
           \/ \E p \in Request : req' = [req EXCEPT ![p] = Attendance!Tidy],
           UNCHANGED <<Attendance!eventVars, Attendance!guestVars, confirmed, closed, Attendance!userVars>>
    PROVE  EventInv'
<1>1. /\ review' \in [Guest -> Attendance!Review] /\ review'[u] = r
      /\ \A v \in Guest \ {u} : review'[v] = review[v]
    BY DEF EventInv, Attendance!TypeOK
<1>2. /\ req' \in [Request -> Attendance!Handler]
      /\ \A q \in Request : req'[q] = req[q] \/ req'[q] = Attendance!Tidy
    BY TidyHandler DEF EventInv, Attendance!TypeOK
<1>3. UNCHANGED <<phase, hosted, status, count, drift, lapsed, confirmed, closed, blocked, gone, Attendance!Going>>
    BY DEF Attendance!eventVars, Attendance!guestVars, Attendance!userVars, Attendance!Going
<1>4. Attendance!TypeOK'
    BY <1>1, <1>2, <1>3 DEF EventInv, Attendance!TypeOK
<1>5. HandlersFair' /\ OneHolds'
    BY <1>2, <1>3, TidyHandler
    DEF EventInv, HandlersFair, HandlerFair, Attended, OneHolds, Attendance!Holds
<1>6. EndsFirst' /\ Attendance!SeatsAreCapped' /\ Attendance!CountIsRight'
    BY <1>1, <1>3 DEF EventInv, EndsFirst, Unreviewed, Attendance!SeatsAreCapped,
        Attendance!CountIsRight
<1>7. Attendance!ReviewersAttended'
    BY <1>1, <1>3 DEF EventInv, Attendance!ReviewersAttended, Attended
<1> QED BY <1>3, <1>4, <1>5, <1>6, <1>7 DEF EventInv

\* A reviewer of an ended event attended it.
LEMMA ReviewerAttended ==
    ASSUME EventInv, NEW u \in Guest, review[u].state # "none"
    PROVE  phase = "ended" /\ Attended(u)
BY DEF EventInv, EndsFirst, Unreviewed, Attendance!ReviewersAttended, Attended

\* A review is written or edited.
LEMMA ReviewSaved ==
    ASSUME Attendance!SoundConstants, EventInv, NEW p \in Request, Attendance!SaveCommit(p)
    PROVE  EventInv'
<1> DEFINE u == req[p].user
<1>1. /\ req[p].pc = "reviewing" /\ Attendance!Holds(p) /\ u \in Guest
      /\ u \in gone \/ (phase = "ended" /\ Attended(u))
      /\ review[u] \in Attendance!Review
    BY HandlerKnown DEF Attendance!SaveCommit, Attendance!At, Attendance!Holds, HandlerFair,
        EventInv, Attendance!TypeOK
<1>2. \A q \in Request : req[q].pc \notin {"seats", "answer"}
    BY <1>1 DEF EventInv, OneHolds, Attendance!Holds
<1>3. /\ req' = [req EXCEPT ![p] = Attendance!Tidy]
      /\ UNCHANGED <<Attendance!eventVars, Attendance!guestVars, confirmed, closed, Attendance!userVars>>
      /\ review' = IF req[p].edit
                   THEN IF Attendance!Editable(u) THEN [review EXCEPT ![u].edited = TRUE] ELSE review
                   ELSE IF review[u].state = "none" /\ u \notin gone
                        THEN [review EXCEPT ![u].state = "shown"] ELSE review
    BY DEF Attendance!SaveCommit, Attendance!Become
<1> HIDE DEF u
<1>4. review \in [Guest -> Attendance!Review] /\ review[u] \in Attendance!Review
    BY <1>1 DEF EventInv, Attendance!TypeOK
<1>5. CASE review' = review
    <2>1. review' = [review EXCEPT ![u] = review[u]]
        BY <1>4, <1>5
    <2>2. review[u].state # "none" => phase = "ended" /\ Attended(u)
        BY <1>1, ReviewerAttended
    <2> QED BY <1>1, <1>2, <1>3, <1>4, <2>1, <2>2, ReviewKeeps
<1>6. CASE Attendance!Editable(u) /\ review' = [review EXCEPT ![u].edited = TRUE]
    <2> DEFINE r == [review[u] EXCEPT !.edited = TRUE]
    <2>1. r \in Attendance!Review
        BY <1>4, Zenon DEF Attendance!Review
    <2>2. review' = [review EXCEPT ![u] = r]
        BY <1>4, <1>6
    <2>3. phase = "ended" /\ Attended(u)
        BY <1>1, <1>6, ReviewerAttended DEF Attendance!Editable
    <2> HIDE DEF r
    <2> QED BY <1>1, <1>2, <1>3, <2>1, <2>2, <2>3, ReviewKeeps
<1>7. CASE u \notin gone /\ review' = [review EXCEPT ![u].state = "shown"]
    <2> DEFINE r == [review[u] EXCEPT !.state = "shown"]
    <2>1. r \in Attendance!Review
        BY <1>4, Zenon DEF Attendance!Review
    <2>2. review' = [review EXCEPT ![u] = r]
        BY <1>4, <1>7
    <2> HIDE DEF r
    <2> QED BY <1>1, <1>2, <1>3, <1>7, <2>1, <2>2, ReviewKeeps
<1> QED BY <1>3, <1>5, <1>6, <1>7

\* Moderation hides a review.
LEMMA HideKeeps ==
    ASSUME Attendance!SoundConstants, EventInv, NEW u \in Guest, Attendance!Hide(u)
    PROVE  EventInv'
<1> DEFINE r == [review[u] EXCEPT !.state = "hidden"]
<1>1. review \in [Guest -> Attendance!Review] /\ review[u] \in Attendance!Review
    BY DEF EventInv, Attendance!TypeOK
<1>2. r \in Attendance!Review
    BY <1>1, Zenon DEF Attendance!Review
<1>3. review' = [review EXCEPT ![u] = r]
    BY <1>1 DEF Attendance!Hide
<1>4. phase = "ended" /\ Attended(u)
    BY ReviewerAttended DEF Attendance!Hide
<1>5. /\ \A p \in Request : req[p].pc \notin {"seats", "answer"}
      /\ UNCHANGED <<Attendance!eventVars, Attendance!guestVars, confirmed, closed, Attendance!userVars, req>>
    BY DEF Attendance!Hide, Attendance!LockFree, Attendance!Holds
<1> HIDE DEF r
<1> QED BY <1>2, <1>3, <1>4, <1>5, ReviewKeeps

\* The clock passes an edit window or starts_at or ends_at, the host ends the event,
\* and a block comes or goes.
LEMMA ClockKeeps ==
    ASSUME Attendance!SoundConstants, EventInv,
           \/ Attendance!PhasePasses
           \/ \E u \in Guest : Attendance!WindowCloses(u) \/ Attendance!Block(u) \/ Attendance!Unblock(u)
    PROVE  EventInv'
<1>1. /\ phase' \in {"before", "running", "ended"} /\ (phase = "ended" => phase' = "ended")
      /\ UNCHANGED <<hosted, status, count, drift, lapsed, confirmed, review, gone, req, Attendance!Going>>
      /\ closed' \subseteq Guest /\ blocked' \subseteq Guest
    <2>1. CASE Attendance!PhasePasses
        BY <2>1 DEF Attendance!PhasePasses, Attendance!Clock, Attendance!guestVars,
            Attendance!reviewVars, Attendance!userVars, Attendance!Going, EventInv,
            Attendance!TypeOK
    <2>2. CASE \E u \in Guest : Attendance!WindowCloses(u) \/ Attendance!Block(u) \/ Attendance!Unblock(u)
        BY <2>2 DEF Attendance!WindowCloses, Attendance!Block, Attendance!Unblock,
            Attendance!eventVars, Attendance!guestVars, Attendance!reviewVars,
            Attendance!userVars, Attendance!Going,
                    EventInv, Attendance!TypeOK
    <2> QED BY <2>1, <2>2
<1>2. Attendance!TypeOK'
    BY <1>1 DEF EventInv, Attendance!TypeOK
<1>3. HandlersFair' /\ OneHolds'
    BY <1>1 DEF EventInv, HandlersFair, HandlerFair, Unreviewed, Attended, OneHolds,
        Attendance!Holds
<1>4. EndsFirst' /\ Attendance!SeatsAreCapped' /\ Attendance!CountIsRight' /\ Attendance!ReviewersAttended'
    BY <1>1 DEF EventInv, EndsFirst, Unreviewed, Attendance!SeatsAreCapped,
        Attendance!CountIsRight, Attendance!ReviewersAttended
<1> QED BY <1>1, <1>2, <1>3, <1>4 DEF EventInv

\* Telling a handler that the row was changed leaves it a handler.
LEMMA ToldHandler ==
    ASSUME EventInv, NEW q \in Request
    PROVE  /\ Attendance!Changed(req[q]) \in Attendance!Handler
           /\ Attendance!Changed(req[q]).pc = req[q].pc /\ Attendance!Changed(req[q]).user = req[q].user
           /\ Attendance!Changed(req[q]).reply = req[q].reply
           /\ Attendance!Changed(req[q]).changed <=> req[q].changed \/ req[q].pc = "rsvp"
           /\ Attendance!Changed(req[q]).ended <=> req[q].ended
<1>1. req[q] \in Attendance!Handler
    BY HandlerKnown
<1>2. [req[q] EXCEPT !.changed = TRUE] \in Attendance!Handler
    BY <1>1, Zenon DEF Attendance!Handler
<1>3. Attendance!Changed(req[q]) \in Attendance!Handler
    BY <1>1, <1>2 DEF Attendance!Changed
<1> QED BY <1>1, <1>3 DEF Attendance!Changed, Attendance!Handler

LEMMA EndKeeps ==
    ASSUME Attendance!SoundConstants, EventInv, Attendance!End
    PROVE  EventInv'
<1>1. /\ phase = "running" /\ phase' = "ended" /\ hosted' /\ hosted' \in BOOLEAN
      /\ UNCHANGED <<status, count, drift, lapsed, confirmed, review, closed, blocked, gone, Attendance!Going>>
      /\ \A q \in Request : req[q].pc \notin {"seats", "answer", "confirming", "reviewing"}
      /\ req' = [q \in Request |-> Attendance!Changed(req[q])]
    BY DEF Attendance!End, Attendance!guestVars, Attendance!reviewVars, Attendance!userVars,
        Attendance!Going, Attendance!LockFree, Attendance!Holds
<1>2. req' \in [Request -> Attendance!Handler]
    BY <1>1, ToldHandler
<1>3. Attendance!TypeOK'
    BY <1>1, <1>2 DEF EventInv, Attendance!TypeOK
<1>4. HandlersFair' /\ OneHolds'
    <2>1. \A q \in Request : /\ req'[q].pc \in {"idle", "rsvp", "confirm", "review"}
                             /\ req'[q].pc # "idle" => req'[q].user \in Guest
                             /\ req'[q].pc = "rsvp" => req'[q].reply \in Attendance!Reply /\ req'[q].changed
        BY <1>1, ToldHandler, HandlerKnown DEF HandlerFair
    <2> QED BY <2>1 DEF HandlersFair, HandlerFair, OneHolds, Attendance!Holds
<1>5. EndsFirst' /\ Attendance!SeatsAreCapped' /\ Attendance!CountIsRight' /\ Attendance!ReviewersAttended'
    BY <1>1 DEF EventInv, EndsFirst, Unreviewed, Attendance!SeatsAreCapped,
        Attendance!CountIsRight, Attendance!ReviewersAttended
<1> QED BY <1>1, <1>3, <1>4, <1>5 DEF EventInv

\* An account goes, with all that refers to it but the cached count.
LEMMA DeleteKeeps ==
    ASSUME Attendance!SoundConstants, EventInv, NEW u \in Guest, Attendance!DeleteAccount(u)
    PROVE  EventInv'
<1>1. /\ u \notin gone /\ gone' = gone \cup {u} /\ blocked' = blocked \ {u}
      /\ status' = [status EXCEPT ![u] = "none"]
      /\ drift' = (drift \/ status[u] = "going")
      /\ confirmed' = confirmed \ {u} /\ closed' = closed \ {u}
      /\ review' = [review EXCEPT ![u] = Attendance!NoReview]
      /\ UNCHANGED <<phase, hosted, count, lapsed, req>>
    BY DEF Attendance!DeleteAccount, Attendance!eventVars
<1>2. Attendance!NoReview \in Attendance!Review /\ Attendance!NoReview.state = "none"
    BY DEF Attendance!NoReview, Attendance!Review
<1>3. /\ status' \in [Guest -> Attendance!Reply \cup {"none"}] /\ status'[u] = "none"
      /\ review' \in [Guest -> Attendance!Review] /\ review'[u].state = "none"
      /\ \A v \in Guest \ {u} : status'[v] = status[v] /\ review'[v] = review[v]
    BY <1>1, <1>2 DEF EventInv, Attendance!TypeOK
<1>4. /\ IsFiniteSet(Attendance!Going') /\ Attendance!Cardinality(Attendance!Going') \in Nat /\ Attendance!Cardinality(Attendance!Going) \in Nat
      /\ Attendance!Cardinality(Attendance!Going') =
            IF status[u] = "going" THEN Attendance!Cardinality(Attendance!Going) - 1 ELSE Attendance!Cardinality(Attendance!Going)
    <2>1. Attendance!TypeOK /\ IsFiniteSet(Attendance!Going) /\ "none" \in Attendance!Reply \cup {"none"} /\ "none" # "going"
        BY DEF EventInv
    <2> HIDE DEF Attendance!TypeOK, Attendance!Going
    <2> QED BY <1>1, <2>1, ReplyCounts
<1>5. Attendance!TypeOK'
    BY <1>1, <1>3 DEF EventInv, Attendance!TypeOK
<1>6. HandlersFair'
    <2> SUFFICES ASSUME NEW q \in Request PROVE HandlerFair(req[q])'
        BY <1>1 DEF HandlersFair
    <2>1. HandlerFair(req[q])
        BY HandlerKnown
    <2>2. Unreviewed => Unreviewed'
        BY <1>3 DEF Unreviewed
    <2>3. Attendance!Cardinality(Attendance!Going') <= Attendance!Cardinality(Attendance!Going) /\ Capacity \in Nat
        BY <1>4 DEF Attendance!SoundConstants
    <2>4. \A v \in Guest \ {u} : Attended(v) => Attended(v)'
        BY <1>1, <1>3 DEF Attended
    <2>5. req[q].pc = "answer" /\ req[q].reply = "going" /\ status'[req[q].user] # "going"
             => Attendance!Cardinality(Attendance!Going') < Capacity
        <3> SUFFICES ASSUME req[q].pc = "answer", req[q].reply = "going",
                            status'[req[q].user] # "going"
                     PROVE  Attendance!Cardinality(Attendance!Going') < Capacity
            OBVIOUS
        <3>1. req[q].user \in Guest
            BY <2>1 DEF HandlerFair
        <3>2. CASE status[req[q].user] # "going"
            BY <1>4, <2>1, <2>3, <3>2 DEF HandlerFair
        <3>3. CASE status[req[q].user] = "going"
            <4>1. req[q].user = u
                BY <1>3, <3>1, <3>3
            <4> QED BY <1>4, <3>3, <4>1 DEF EventInv, Attendance!SeatsAreCapped,
                Attendance!SoundConstants
        <3> QED BY <3>2, <3>3
    <2> QED BY <1>1, <2>1, <2>2, <2>4, <2>5 DEF HandlerFair
<1>7. OneHolds'
    BY <1>1 DEF EventInv, OneHolds, Attendance!Holds
<1>8. EndsFirst' /\ Attendance!ReviewersAttended'
    BY <1>1, <1>3 DEF EventInv, EndsFirst, Unreviewed, Attendance!ReviewersAttended
<1>9. Attendance!SeatsAreCapped' /\ Attendance!CountIsRight'
    <2>1. /\ Capacity \in Nat /\ count \in Nat /\ Attendance!Cardinality(Attendance!Going) <= Capacity
          /\ Attendance!Cardinality(Attendance!Going) <= count /\ (~drift => count = Attendance!Cardinality(Attendance!Going))
        BY DEF EventInv, Attendance!TypeOK, Attendance!SeatsAreCapped, Attendance!CountIsRight,
            Attendance!SoundConstants
    <2>2. ~drift' => ~drift /\ status[u] # "going"
        BY <1>1
    <2> QED BY <1>1, <1>4, <2>1, <2>2 DEF Attendance!SeatsAreCapped, Attendance!CountIsRight
<1> QED BY <1>4, <1>5, <1>6, <1>7, <1>8, <1>9 DEF EventInv

LEMMA NextEvent ==
    ASSUME Attendance!SoundConstants, EventInv, [Attendance!Next]_Attendance!vars
    PROVE  EventInv'
<1>1. CASE \E p \in Request, u \in Guest :
               \/ \E r \in Attendance!Reply : Attendance!Rsvp(p, u, r)
               \/ Attendance!Confirm(p, u)
               \/ \E edit \in BOOLEAN : Attendance!Save(p, u, edit)
    BY <1>1, BeginKeeps
<1>2. CASE \E p \in Request : Attendance!RsvpLock(p) \/ Attendance!RsvpSeats(p) \/ Attendance!ConfirmGate(p) \/ Attendance!SaveGate(p) \/ Attendance!Fail(p)
    BY <1>2, GateKeeps
<1>3. CASE \E p \in Request : Attendance!RsvpCommit(p)
    BY <1>3, ReplyKeeps
<1>4. CASE \E p \in Request : Attendance!ConfirmCommit(p)
    BY <1>4, ConfirmKeeps
<1>5. CASE \E p \in Request : Attendance!SaveCommit(p)
    BY <1>5, ReviewSaved
<1>6. CASE \E u \in Guest : Attendance!Hide(u)
    BY <1>6, HideKeeps
<1>7. CASE Attendance!PhasePasses \/ \E u \in Guest : Attendance!WindowCloses(u) \/ Attendance!Block(u) \/ Attendance!Unblock(u)
    BY <1>7, ClockKeeps
<1>8. CASE Attendance!End
    BY <1>8, EndKeeps
<1>9. CASE \E u \in Guest : Attendance!DeleteAccount(u)
    BY <1>9, DeleteKeeps
<1>10. CASE UNCHANGED Attendance!vars
    BY <1>10
    DEF Attendance!vars, EventInv, Attendance!TypeOK, Attendance!Going, HandlersFair,
        HandlerFair, OneHolds, Attendance!Holds, EndsFirst, Unreviewed,
        Attended, Attendance!SeatsAreCapped, Attendance!CountIsRight, Attendance!ReviewersAttended
<1> QED BY <1>1, <1>2, <1>3, <1>4, <1>5, <1>6, <1>7, <1>8, <1>9, <1>10 DEF Attendance!Next

\* Only a commit of a reply and the end of an account change what a guest answered,
\* and no handler is left between its lock and its commit when the host ends the event.
LEMMA RepliesStop ==
    ASSUME EventInv, [Attendance!Next]_Attendance!vars, hosted, NEW u \in Guest, u \notin gone'
    PROVE  status'[u] = status[u]
<1>1. CASE UNCHANGED status
    BY <1>1
<1>2. CASE \E p \in Request : Attendance!RsvpCommit(p)
    BY <1>2, HandlerKnown DEF Attendance!RsvpCommit, Attendance!At, HandlerFair
<1>3. CASE \E v \in Guest : Attendance!DeleteAccount(v)
    BY <1>3 DEF Attendance!DeleteAccount, EventInv, Attendance!TypeOK
<1> QED BY <1>1, <1>2, <1>3
    DEF Attendance!Next, Attendance!vars, Attendance!Rsvp, Attendance!Confirm, Attendance!Save,
        Attendance!RsvpLock, Attendance!RsvpSeats, Attendance!ConfirmGate,
        Attendance!ConfirmCommit, Attendance!SaveGate,
        Attendance!SaveCommit, Attendance!Fail, Attendance!Hide, Attendance!WindowCloses, Attendance!Block, Attendance!Unblock, Attendance!PhasePasses, Attendance!End, Attendance!guestVars

\* Only a save, another hiding and the end of an account touch a review.
LEMMA HiddenKept ==
    ASSUME EventInv, [Attendance!Next]_Attendance!vars, NEW u \in Guest, u \notin gone', review[u].state = "hidden"
    PROVE  review'[u] = review[u]
<1>1. review \in [Guest -> Attendance!Review] /\ review[u] \in Attendance!Review
    BY DEF EventInv, Attendance!TypeOK
<1>2. CASE UNCHANGED review
    BY <1>2
<1>3. CASE \E p \in Request : Attendance!SaveCommit(p)
    BY <1>1, <1>3, HandlerKnown DEF Attendance!SaveCommit, Attendance!Editable
<1>4. CASE \E v \in Guest : Attendance!Hide(v)
    <2>1. PICK v \in Guest : review' = [review EXCEPT ![v].state = "hidden"]
        BY <1>4 DEF Attendance!Hide
    <2>2. [review[u] EXCEPT !.state = "hidden"] = review[u]
        BY <1>1, Zenon DEF Attendance!Review
    <2> QED BY <1>1, <2>1, <2>2
<1>5. CASE \E v \in Guest : Attendance!DeleteAccount(v)
    BY <1>1, <1>5 DEF Attendance!DeleteAccount
<1> QED BY <1>2, <1>3, <1>4, <1>5
    DEF Attendance!Next, Attendance!vars, Attendance!Rsvp, Attendance!Confirm, Attendance!Save,
        Attendance!RsvpLock, Attendance!RsvpSeats, Attendance!RsvpCommit, Attendance!ConfirmGate,
        Attendance!ConfirmCommit,
        Attendance!SaveGate, Attendance!Fail, Attendance!WindowCloses, Attendance!Block, Attendance!Unblock, Attendance!PhasePasses, Attendance!End, Attendance!reviewVars

-----------------------------------------------------------------------------
(* The run of the three *)

\* A step of the run is a step of one of the three, and leaves the others alone.
LEMMA AppSteps ==
    [SumNext]_<<explored, outboxVars, eventVars, vars>>
    => /\ [Next]_vars /\ [Outbox!Next]_Outbox!vars /\ [Attendance!Next]_Attendance!vars
       /\ explored' = explored
BY DEF SumNext, outboxVars, eventVars, Outbox!vars, Outbox!client, Outbox!network, Attendance!vars

\* The invariants of the three hold throughout.
LEMMA AppKeeps ==
    SumSpec => [](TypeOK /\ CallKnown /\ OutboxInv /\ EventInv)
<1> DEFINE Inv == TypeOK /\ CallKnown /\ OutboxInv /\ EventInv
<1>1. SumInit => Inv
    BY AppSound, InitTypeOK, InitOutbox, InitEvent DEF SumInit
<1>2. Inv /\ [SumNext]_<<explored, outboxVars, eventVars, vars>> => Inv'
    BY AppSound, AppSteps, NextTypeOK, NextOutbox, NextEvent
<1> QED BY <1>1, <1>2, PTL DEF SumSpec

\* The three keep to their types: what is retried is in the outbox, a request of
\* the sheet is that of its state, and who is confirmed has replied.
THEOREM AppTyped == SumSpec => []TypesOK
<1>1. TypeOK /\ CallKnown /\ OutboxInv /\ EventInv => TypesOK
    BY DEF TypesOK, OutboxInv, EventInv
<1> QED BY <1>1, AppKeeps, PTL

\* However answers, rows of the conversation, restarts and drains of the outbox
\* overlap, a message is on the screen once.
THEOREM MessagesShownOnce == SumSpec => []ShownOnce
<1>1. OutboxInv => ShownOnce
    BY DEF OutboxInv, ShownOnce
<1> QED BY <1>1, AppKeeps, PTL

\* A row that is pending has a send on its way, or the outbox or the list of those
\* that failed has its message: none spins for ever.
THEOREM PendingStaysTracked == SumSpec => []PendingIsTracked
<1>1. OutboxInv => PendingIsTracked
    BY DEF OutboxInv, PendingIsTracked
<1> QED BY <1>1, AppKeeps, PTL

\* However many guests reply, confirm and review at once, and whoever blocks, leaves
\* or is deleted meanwhile: no more are going than there are seats, the cached count
\* counts them, only who attended reviews, no reply changes once the host has ended
\* the event, and a hidden review stays as it is.
THEOREM AttendanceStaysFair == SumSpec => AttendanceIsFair
<1>1. EventInv => (explored = "event" => Attendance!PlacesAreFair)
    BY DEF EventInv, Attendance!PlacesAreFair
<1>2. EventInv /\ [Attendance!Next]_Attendance!vars
        => [hosted => \A u \in Guest \ gone' : status'[u] = status[u]]_Attendance!vars
    BY RepliesStop
<1>3. EventInv /\ [Attendance!Next]_Attendance!vars
        => [\A u \in Guest \ gone' : review[u].state = "hidden"
                                      => review'[u] = review[u]]_Attendance!vars
    BY HiddenKept
<1>4. SumSpec => [][Attendance!Next]_Attendance!vars
    BY AppSteps, PTL DEF SumSpec
<1>5. SumSpec => [](explored = "event" => Attendance!PlacesAreFair)
    BY <1>1, AppKeeps, PTL
<1>6. SumSpec => Attendance!EndIsRespected
    BY <1>2, <1>4, AppKeeps, PTL DEF Attendance!EndIsRespected
<1>7. SumSpec => Attendance!HiddenStays
    BY <1>3, <1>4, AppKeeps, PTL DEF Attendance!HiddenStays
<1> QED BY <1>5, <1>6, <1>7 DEF AttendanceIsFair
=============================================================================
