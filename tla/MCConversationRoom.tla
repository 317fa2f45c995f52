------------------------- MODULE MCConversationRoom --------------------------
(***************************************************************************)
(* A direct conversation, and the social graph, in one run.  They share no *)
(* variable: "explored" says from the first state on whose behaviour it    *)
(* is.                                                                     *)
(***************************************************************************)
EXTENDS ConversationRoom, TLC

CONSTANTS Person, NoUser, Request, MaxRows

VARIABLES explored, blocked, follows, friends, row, loose, req

Graph == INSTANCE SocialGraph WITH User <- Person

ASSUME GraphSound == Graph!SoundConstants

graphVars == <<blocked, follows, friends, row, loose, req>>

SumInit ==
    /\ explored \in {"room", "graph"} /\ Init /\ Graph!Init
    /\ explored = "graph" => status = "pending"

SumNext ==
    \/ /\ explored = "room" /\ Next
       /\ UNCHANGED <<explored, graphVars>>
    \/ /\ explored = "graph" /\ Graph!Next
       /\ UNCHANGED <<explored, vars>>

SumSpec == SumInit /\ [][SumNext]_<<explored, graphVars, vars>>

\* The connections of one user are interchangeable, and the handlers.
Symmetry == Permutations(Mine) \cup Permutations(Theirs) \cup Permutations(Request)

\* The two components' type invariants.
TypesOK == /\ explored = "room" => TypeOK
           /\ explored = "graph" => Graph!TypeOK

\* A friendship comes from a question that stands when it is agreed to, and a
\* block that ran to its end leaves the pair nothing that was there before.
FriendsConsent ==
    /\ Graph!KeepsConsent
    /\ [](explored = "graph" => Graph!BlockClears)
=============================================================================
