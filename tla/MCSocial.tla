------------------------------ MODULE MCSocial ------------------------------
(***************************************************************************)
(* Dating, the group conversations, the verification ladder and the ledger *)
(* of experience points in one run.  They share no variable: "explored"    *)
(* says from the first state on whose behaviour it is.                     *)
(***************************************************************************)
EXTENDS DatingMatch, TLC

CONSTANTS Member, Creator, Key, Quarrel, Leaver,
          Phone, NoPhone, MaxSubmissions, Shape,
          Price, Cap, Target, Achievement, Earner, MaxGifts, MaxDay

VARIABLES explored,
          gFriends, gBlocked, role, made, gone, orphaned, gLoose, gReq,
          user, sub, vTold, vReq,
          day, event, today, rushed, total, spendable, announced, spent, gifts,
          progress, done, cut, xReq

Worths == [match |-> 50, gift |-> 10, challenge |-> 30, achievement |-> 25]

Ledger == INSTANCE XpLedger
              WITH Worth <- Worths, req <- xReq

Groups == INSTANCE GroupMembership
              WITH User <- Member, friends <- gFriends, blocked <- gBlocked,
                   loose <- gLoose, req <- gReq

Ladder == INSTANCE TrustLadder WITH told <- vTold, req <- vReq

\* What is assumed of the constants of the four.
ASSUME SocialSound == /\ Ledger!SoundConstants
                      /\ Groups!SoundConstants
                      /\ Ladder!SoundConstants /\ SoundConstants

groupVars == <<gFriends, gBlocked, role, made, gone, orphaned, gLoose, gReq>>
ladderVars == <<user, sub, vTold, vReq>>
ledgerVars == <<day, event, today, rushed, total, spendable, announced, spent, gifts,
                progress, done, cut, xReq>>

SumInit ==
    /\ explored \in {"groups", "ladder", "dating", "ledger"}
    /\ Ledger!Init
    /\ Groups!Init /\ Ladder!Init /\ Init

SumNext ==
    \/ /\ explored = "groups" /\ Groups!Next
       /\ UNCHANGED <<explored, ledgerVars, ladderVars, vars>>
    \/ /\ explored = "ladder" /\ Ladder!Next
       /\ UNCHANGED <<explored, ledgerVars, groupVars, vars>>
    \/ /\ explored = "dating" /\ Next
       /\ UNCHANGED <<explored, ledgerVars, groupVars, ladderVars>>
    \/ /\ explored = "ledger" /\ Ledger!Next
       /\ UNCHANGED <<explored, groupVars, ladderVars, vars>>

SumSpec ==
    SumInit /\ [][SumNext]_<<explored, ledgerVars, groupVars, ladderVars, vars>>

\* The handlers are interchangeable.
Symmetry == Permutations(Request)
Quarrels == {<<1, 2>>, <<2, 3>>}

\* The four components' type invariants.
TypesOK == /\ explored = "groups" => Groups!TypeOK
           /\ explored = "ladder" => Ladder!TypeOK
           /\ explored = "dating" => TypeOK
           /\ explored = "ledger" => Ledger!TypeOK

\* A group has its owner and no blocked pair, and who left it does not come
\* back.
GroupsAreKept ==
    /\ [](explored = "groups" => Groups!GroupsAreKept)
    /\ Groups!LeftStayOut

\* What was decided of a verification stands, and no rung is taken back.
LadderStands ==
    /\ [](explored = "ladder" => Ladder!DecisionsStand)
    /\ Ladder!LadderNeverDescends

\* Wallet and ledger agree, whatever overlaps or is cut off.
BooksBalance == explored = "ledger" => Ledger!BooksBalance
=============================================================================
