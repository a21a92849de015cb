----------------------------- MODULE LinkEscrow -----------------------------
(***************************************************************************)
(* The six claim link instructions implement the promise of module Escrow: *)
(* a link is a box at its PDA, whose coins are the lamports of the PDA and *)
(* the rent of its vault, and whose chips are the tokens of the vault.     *)
(***************************************************************************)
EXTENDS ClaimLinks

Late == {k \in inUse : clock > link[k].expiry}

E == INSTANCE Escrow WITH
        Boxes  <- Keys,
        Users  <- LinkUsers,
        box    <- [k \in inUse |-> [maker |-> link[k].sender,
                                    ofCoins |-> link[k].isSol,
                                    prize |-> link[k].amount]],
        lapsed <- Late,
        coins  <- [k \in Keys |->
                      lamports[k] + (IF k \in inUse /\ ~link[k].isSol THEN VaultRent ELSE 0)],
        chips  <- vaults,
        purse  <- sol,
        wallet <- tokens

(* Every behaviour of the instructions, of donations and of the clock is,  *)
(* seen through the mapping, one of an escrow: a link keeps its terms and  *)
(* its holdings until it is settled, pays its prize once, in time, to one  *)
(* recipient, and everything else, rents and donations included, to its    *)
(* sender; nobody else's balance moves.                                    *)
ImplementsEscrow == E!Spec
=============================================================================
