-------------------------------- MODULE Pool --------------------------------
(***************************************************************************)
(* A constant-product pool for one pair of mints: init_pool,               *)
(* add_liquidity, remove_liquidity and swap.  The reserves are not stored: *)
(* they are the balances of the pool's two vaults, which anyone may also   *)
(* send tokens to; the share count is the supply of the LP mint, which its *)
(* holders may also burn.                                                  *)
(***************************************************************************)
EXTENDS AmmMath

CONSTANTS
    PoolUsers,
    PoolAmounts, \* the amounts instructions are called with
    Minima,     \* the slippage limits they are called with
    Fees,       \* the fees init_pool is called with
    FundsA,     \* tokens each user starts with
    FundsB

ASSUME PoolAssumption ==
    /\ PoolAmounts \subseteq 0 .. U64 /\ Minima \subseteq 0 .. U64 /\ Fees \subseteq Nat
    /\ FundsA \in [PoolUsers -> Nat] /\ FundsB \in [PoolUsers -> Nat]

VARIABLES
    exists,     \* the pool's accounts exist
    feeBps,
    ra, rb,     \* balances of the vaults
    lpSupply,
    a, b, lp,   \* balances of the users
    origin      \* how the pool got its first shares (history)

poolVars == <<exists, feeBps, ra, rb, lpSupply, a, b, lp, origin>>

PoolInit ==
    /\ exists = FALSE /\ feeBps = 0
    /\ ra = 0 /\ rb = 0 /\ lpSupply = 0
    /\ a = FundsA /\ b = FundsB /\ lp = [u \in PoolUsers |-> 0]
    /\ origin = "empty"

-----------------------------------------------------------------------------
(* The instructions.                                                       *)

InitPool(fee) ==
    /\ ~exists
    /\ fee <= MAX_FEE_BPS
    /\ exists' = TRUE /\ feeBps' = fee
    /\ UNCHANGED <<ra, rb, lpSupply, a, b, lp, origin>>

(* The first deposit finds the vaults empty and sets the price, or finds   *)
(* donations in both of them and follows their ratio.                      *)
Origin == IF ra = 0 /\ rb = 0 THEN "priced" ELSE "donated"

AddLiquidity(u, wantA, wantB, minLp) ==
    LET q == quote_add(ra, rb, lpSupply, wantA, wantB)
    IN  /\ exists
        /\ AddAccepts(ra, rb, lpSupply, wantA, wantB)
        /\ q.lp >= minLp
        /\ a[u] >= q.a /\ b[u] >= q.b
        /\ lpSupply + q.lp <= U64
        /\ a' = [a EXCEPT ![u] = @ - q.a]
        /\ b' = [b EXCEPT ![u] = @ - q.b]
        /\ ra' = ra + q.a /\ rb' = rb + q.b
        /\ lp' = [lp EXCEPT ![u] = @ + q.lp]
        /\ lpSupply' = lpSupply + q.lp
        /\ origin' = IF origin = "empty" THEN Origin ELSE origin
        /\ UNCHANGED <<exists, feeBps>>

(* The token program burns from a balance and from the supply, and checks  *)
(* both.                                                                   *)
Burnable(u, amount) == lp[u] >= amount /\ lpSupply >= amount

RemoveLiquidity(u, lpAmount, minA, minB) ==
    LET outA == quote_remove(ra, lpSupply, lpAmount)
        outB == quote_remove(rb, lpSupply, lpAmount)
    IN  /\ exists
        /\ lpAmount > 0
        /\ outA >= minA /\ outB >= minB
        /\ Burnable(u, lpAmount)
        /\ outA <= ra /\ outB <= rb
        /\ lp' = [lp EXCEPT ![u] = @ - lpAmount]
        /\ lpSupply' = lpSupply - lpAmount
        /\ ra' = ra - outA /\ rb' = rb - outB
        /\ a' = [a EXCEPT ![u] = @ + outA]
        /\ b' = [b EXCEPT ![u] = @ + outB]
        /\ UNCHANGED <<exists, feeBps, origin>>

SwapAToB(u, amountIn, minOut) ==
    LET out == swap_output(ra, rb, amountIn, feeBps)
    IN  /\ exists
        /\ SwapAccepts(ra, rb, amountIn, feeBps)
        /\ out > 0 /\ out >= minOut
        /\ a[u] >= amountIn
        /\ a' = [a EXCEPT ![u] = @ - amountIn]
        /\ b' = [b EXCEPT ![u] = @ + out]
        /\ ra' = ra + amountIn /\ rb' = rb - out
        /\ UNCHANGED <<exists, feeBps, lpSupply, lp, origin>>

SwapBToA(u, amountIn, minOut) ==
    LET out == swap_output(rb, ra, amountIn, feeBps)
    IN  /\ exists
        /\ SwapAccepts(rb, ra, amountIn, feeBps)
        /\ out > 0 /\ out >= minOut
        /\ b[u] >= amountIn
        /\ b' = [b EXCEPT ![u] = @ - amountIn]
        /\ a' = [a EXCEPT ![u] = @ + out]
        /\ rb' = rb + amountIn /\ ra' = ra - out
        /\ UNCHANGED <<exists, feeBps, lpSupply, lp, origin>>

-----------------------------------------------------------------------------
(* The token program, for anyone: transfers to a vault, and burning one's  *)
(* own LP tokens.                                                          *)

DonateA(u, amount) ==
    /\ exists /\ amount > 0 /\ a[u] >= amount
    /\ a' = [a EXCEPT ![u] = @ - amount] /\ ra' = ra + amount
    /\ UNCHANGED <<exists, feeBps, rb, lpSupply, b, lp, origin>>

DonateB(u, amount) ==
    /\ exists /\ amount > 0 /\ b[u] >= amount
    /\ b' = [b EXCEPT ![u] = @ - amount] /\ rb' = rb + amount
    /\ UNCHANGED <<exists, feeBps, ra, lpSupply, a, lp, origin>>

BurnLp(u, amount) ==
    /\ exists /\ amount > 0 /\ Burnable(u, amount)
    /\ lp' = [lp EXCEPT ![u] = @ - amount] /\ lpSupply' = lpSupply - amount
    /\ UNCHANGED <<exists, feeBps, ra, rb, a, b, origin>>

PoolNext ==
    \/ \E fee \in Fees : InitPool(fee)
    \/ \E u \in PoolUsers, x \in PoolAmounts :
        \/ \E y \in PoolAmounts, m \in Minima : AddLiquidity(u, x, y, m)
        \/ \E m, n \in Minima : RemoveLiquidity(u, x, m, n)
        \/ \E m \in Minima : SwapAToB(u, x, m) \/ SwapBToA(u, x, m)
        \/ DonateA(u, x) \/ DonateB(u, x) \/ BurnLp(u, x)

PoolSpec == PoolInit /\ [][PoolNext]_poolVars

-----------------------------------------------------------------------------
(* Properties.                                                             *)

(* Types: no reserve or balance is ever negative. *)
PoolTypeOK ==
    /\ exists \in BOOLEAN /\ origin \in {"empty", "priced", "donated"}
    /\ feeBps \in 0 .. MAX_FEE_BPS
    /\ ra \in Nat /\ rb \in Nat /\ lpSupply \in 0 .. U64
    /\ a \in [PoolUsers -> Nat] /\ b \in [PoolUsers -> Nat] /\ lp \in [PoolUsers -> Nat]

(* Once funded a pool is never emptied, not even of one token: the locked  *)
(* shares keep a part of both reserves, whoever withdraws, swaps or burns. *)
NeverDrained == origin # "empty" => ra > 0 /\ rb > 0

(* Shares are backed: in a pool whose first deposit set the price, the     *)
(* square of the shares never exceeds the product of the reserves.  The    *)
(* first deposit relies on isqrt rounding down, everything after it on     *)
(* rounding in the pool's favour.                                          *)
SharesBacked ==
    origin = "priced" => TotalShares(lpSupply) * TotalShares(lpSupply) <= ra * rb

(* What a share is worth never drops: the product of the reserves per      *)
(* square of the shares.  Swaps keep the product from shrinking, deposits  *)
(* and withdrawals round in the pool's favour.                             *)
ShareValueNeverDrops ==
    [][ra > 0 /\ rb > 0 =>
          ra' * rb' * TotalShares(lpSupply) * TotalShares(lpSupply)
              >= ra * rb * TotalShares(lpSupply)' * TotalShares(lpSupply)']_poolVars

(* Withdrawing right after a deposit returns at most what it took. *)
DepositNeverProfits ==
    \A x, y \in PoolAmounts :
        LET q == quote_add(ra, rb, lpSupply, x, y)
        IN  AddAccepts(ra, rb, lpSupply, x, y) =>
              /\ quote_remove(ra + q.a, lpSupply + q.lp, q.lp) <= q.a
              /\ quote_remove(rb + q.b, lpSupply + q.lp, q.lp) <= q.b

(* Swapping back what a swap returned gives at most what went in. *)
SwapNeverProfits ==
    \A x \in PoolAmounts :
        SwapAccepts(ra, rb, x, feeBps) =>
            LET out == swap_output(ra, rb, x, feeBps)
            IN  SwapAccepts(rb - out, ra + x, out, feeBps) =>
                  swap_output(rb - out, ra + x, out, feeBps) <= x

(* No round trip pays, in any state of the pool: neither a deposit and its *)
(* withdrawal, nor a swap there and back (quote_add, quote_remove,         *)
(* swap_output).                                                           *)
RoundTripsNeverProfit == DepositNeverProfits /\ SwapNeverProfits

=============================================================================
