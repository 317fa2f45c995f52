------------------------------- MODULE Consent -------------------------------
(***************************************************************************)
(* What the friends service promises of a friendship, and nothing of how:  *)
(* one asks, the other agrees while the question stands, and either side   *)
(* may end it.  A withdrawn or declined question can never become a        *)
(* friendship.                                                             *)
(***************************************************************************)
CONSTANT User

VARIABLES
    asked,    \* the <<asker, asked>> questions that stand
    friends   \* the pairs {a, b} that are friends

Init == asked = {} /\ friends = {}

Ask(a, b) ==
    /\ <<a, b>> \notin asked
    /\ asked' = asked \cup {<<a, b>>}
    /\ UNCHANGED friends

\* Agreeing answers one question and makes one friendship, together.
Agree(a, b) ==
    /\ <<a, b>> \in asked
    /\ asked' = asked \ {<<a, b>>}
    /\ friends' = friends \cup {{a, b}}

\* Withdrawing, declining, parting and blocking only take away.
End ==
    /\ asked' \subseteq asked
    /\ friends' \subseteq friends

Next ==
    \/ End
    \/ \E a \in User : \E b \in User \ {a} : Ask(a, b) \/ Agree(a, b)

Spec == Init /\ [][Next]_<<asked, friends>>
=============================================================================
