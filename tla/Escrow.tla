------------------------------- MODULE Escrow -------------------------------
(***************************************************************************)
(* What a claim link promises, without rents, clocks or accounts.  A maker *)
(* seals a prize in a box.  Until it lapses, the box can be redeemed for   *)
(* anybody, who gets the prize of a box of coins, or all the chips of a    *)
(* box of chips.  At any time it may be reclaimed.  Whatever it holds      *)
(* besides the prize goes to its maker, and nothing stays behind.          *)
(***************************************************************************)
EXTENDS Integers

CONSTANTS Boxes, Users

VARIABLES
    box,        \* the sealed boxes: their makers, kinds and prizes
    lapsed,     \* those that can no longer be redeemed
    coins,      \* the coins and chips at the place of each box
    chips,
    purse,      \* the coins and chips of each user
    wallet

vars == <<box, lapsed, coins, chips, purse, wallet>>

sealed == DOMAIN box

Covered(b) == box[b].prize <= IF box[b].ofCoins THEN coins[b] ELSE chips[b]

Init ==
    /\ sealed = {} /\ lapsed = {}
    /\ coins = [b \in Boxes |-> 0]
    /\ chips = [b \in Boxes |-> 0]

(* The boxes other than b are left alone. *)
OthersUnchanged(b) ==
    \A c \in Boxes \ {b} :
        /\ c \in sealed => box'[c] = box[c]
        /\ coins'[c] = coins[c]
        /\ chips'[c] = chips[c]

(* What b gains comes out of the pocket of u, who has it. *)
PaidBy(u, b) ==
    /\ coins[b] <= coins'[b] /\ chips[b] <= chips'[b]
    /\ purse' = [purse EXCEPT ![u] = @ - (coins'[b] - coins[b])]
    /\ wallet' = [wallet EXCEPT ![u] = @ - (chips'[b] - chips[b])]
    /\ purse'[u] >= 0 /\ wallet'[u] >= 0

Seal(b, m) ==
    /\ b \notin sealed
    /\ sealed' = sealed \cup {b}
    /\ box'[b].maker = m
    /\ Covered(b)'
    /\ PaidBy(m, b)
    /\ lapsed' = lapsed
    /\ OthersUnchanged(b)

(* Coins may come at any time, chips to a sealed box of chips.             *)
Gift(b, u) ==
    /\ sealed' = sealed
    /\ b \in sealed => box'[b] = box[b]
    /\ PaidBy(u, b)
    /\ \/ chips'[b] = chips[b]
       \/ b \in sealed /\ ~box[b].ofCoins
    /\ lapsed' = lapsed
    /\ OthersUnchanged(b)

(* Time passes for all boxes at once. *)
Lapse ==
    /\ lapsed \subseteq lapsed' /\ lapsed' \subseteq sealed
    /\ UNCHANGED <<box, coins, chips, purse, wallet>>

(* The end of b: u gets x coins and y chips, its maker all the others.     *)
Emptied(b, u, x, y) ==
    LET m == box[b].maker
        Share(v, part, all) ==
            (IF v = u THEN part ELSE 0) + (IF v = m THEN all - part ELSE 0)
    IN  /\ sealed' = sealed \ {b} /\ lapsed' = lapsed \ {b}
        /\ coins'[b] = 0 /\ chips'[b] = 0
        /\ purse' = [v \in Users |-> purse[v] + Share(v, x, coins[b])]
        /\ wallet' = [v \in Users |-> wallet[v] + Share(v, y, chips[b])]
        /\ OthersUnchanged(b)

Redeem(b, u) ==
    /\ b \in sealed \ lapsed
    /\ Covered(b)
    /\ IF box[b].ofCoins THEN Emptied(b, u, box[b].prize, 0)
                         ELSE Emptied(b, u, 0, chips[b])

Reclaim(b) ==
    /\ b \in sealed
    /\ Emptied(b, box[b].maker, 0, 0)

Next ==
    \/ Lapse
    \/ \E b \in Boxes :
        \/ Reclaim(b)
        \/ \E u \in Users : Seal(b, u) \/ Gift(b, u) \/ Redeem(b, u)

Spec == Init /\ [][Next]_vars
=============================================================================
