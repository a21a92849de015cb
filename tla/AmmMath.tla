------------------------------ MODULE AmmMath ------------------------------
(***************************************************************************)
(* The pool arithmetic of math.rs.  Amounts are u64, intermediate products *)
(* u128; every operation is checked, so what does not fit rejects the      *)
(* instruction.  The faulty variants stand before the definitions they     *)
(* replace in the checks of PROJECT.json.                                  *)
(***************************************************************************)
EXTENDS Integers

CONSTANTS
    U64,                \* the largest u64 and the largest u128
    U128,
    FEE_DENOMINATOR,
    MAX_FEE_BPS,
    MINIMUM_LIQUIDITY

ASSUME AmmAssumption ==
    /\ U64 \in Nat /\ U128 \in Nat /\ U64 <= U128
    /\ FEE_DENOMINATOR \in Nat \ {0}
    /\ MAX_FEE_BPS \in Nat /\ MAX_FEE_BPS < FEE_DENOMINATOR
    /\ MINIMUM_LIQUIDITY \in Nat \ {0}

Least(a, b) == IF a <= b THEN a ELSE b

-----------------------------------------------------------------------------
(* The integer square root: Newton's iteration from above, with z the best *)
(* bound so far, until the next candidate is no better.                    *)

Newton(n, z) == (n \div z + z) \div 2

Babylon(n) ==
    LET loop[z \in Nat \ {0}] ==
            IF Newton(n, z) < z THEN loop[Newton(n, z)] ELSE z
    IN  loop

isqrtShort(n) ==
    IF n < 4 THEN (IF n = 0 THEN 0 ELSE 1) ELSE n \div 2 + 1

(* From 4 on the first round, from z = n to n / 2 + 1, is always taken. *)
isqrt(n) ==
    IF n < 4 THEN (IF n = 0 THEN 0 ELSE 1) ELSE Babylon(n)[n \div 2 + 1]

-----------------------------------------------------------------------------
(* Swaps.                                                                  *)

InWithFee(amountIn, feeBps) == amountIn * (FEE_DENOMINATOR - feeBps)

swapRoundedUp(reserveIn, reserveOut, amountIn, feeBps) ==
    (InWithFee(amountIn, feeBps) * reserveOut)
        \div (reserveIn * FEE_DENOMINATOR + InWithFee(amountIn, feeBps)) + 1

(* The output of a swap, rounded down in the pool's favour. *)
swap_output(reserveIn, reserveOut, amountIn, feeBps) ==
    (InWithFee(amountIn, feeBps) * reserveOut)
        \div (reserveIn * FEE_DENOMINATOR + InWithFee(amountIn, feeBps))

SwapAccepts(reserveIn, reserveOut, amountIn, feeBps) ==
    /\ amountIn > 0
    /\ reserveIn > 0 /\ reserveOut > 0
    /\ feeBps <= FEE_DENOMINATOR
    /\ InWithFee(amountIn, feeBps) * reserveOut <= U128
    /\ reserveIn * FEE_DENOMINATOR + InWithFee(amountIn, feeBps) <= U128
    /\ swap_output(reserveIn, reserveOut, amountIn, feeBps) <= U64

-----------------------------------------------------------------------------
(* Deposits and withdrawals.                                               *)

(* The locked shares count towards the total. *)
TotalShares(lpSupply) == lpSupply + MINIMUM_LIQUIDITY

(* The amounts a deposit into a funded pool takes: as much as fits within  *)
(* both wishes in the pool's ratio.                                        *)
TakenA(ra, rb, wantA, wantB) ==
    IF (wantA * rb) \div ra <= wantB THEN wantA ELSE (wantB * ra) \div rb
TakenB(ra, rb, wantA, wantB) ==
    IF (wantA * rb) \div ra <= wantB THEN (wantA * rb) \div ra ELSE wantB

SharesByA(ra, rb, lpSupply, a, b) == (a * TotalShares(lpSupply)) \div ra + 1

(* The shares a deposit of a and b earns: the smaller of the two parts. *)
SharesFor(ra, rb, lpSupply, a, b) ==
    Least((a * TotalShares(lpSupply)) \div ra, (b * TotalShares(lpSupply)) \div rb)

(* quote_add: the amounts taken and the LP tokens minted.  The first       *)
(* deposit sets the price, and its first shares are locked for ever.       *)
quote_add(ra, rb, lpSupply, wantA, wantB) ==
    IF ra = 0 /\ rb = 0
    THEN [a |-> wantA, b |-> wantB, lp |-> isqrt(wantA * wantB) - MINIMUM_LIQUIDITY]
    ELSE LET a == TakenA(ra, rb, wantA, wantB)
             b == TakenB(ra, rb, wantA, wantB)
         IN  [a |-> a, b |-> b, lp |-> SharesFor(ra, rb, lpSupply, a, b)]

AddAccepts(ra, rb, lpSupply, wantA, wantB) ==
    /\ wantA > 0 /\ wantB > 0
    /\ \/ ra = 0 /\ rb = 0
       \/ /\ ra > 0 /\ rb > 0
          /\ LET q == quote_add(ra, rb, lpSupply, wantA, wantB)
             IN  /\ q.a > 0 /\ q.b > 0
                 /\ q.a * TotalShares(lpSupply) <= U128
                 /\ q.b * TotalShares(lpSupply) <= U128
    /\ quote_add(ra, rb, lpSupply, wantA, wantB).lp \in 1 .. U64

quote_removeRoundedUp(reserve, lpSupply, lpAmount) ==
    (lpAmount * reserve + TotalShares(lpSupply) - 1) \div TotalShares(lpSupply)

(* quote_remove: the matching share of one reserve, rounded down. *)
quote_remove(reserve, lpSupply, lpAmount) ==
    (lpAmount * reserve) \div TotalShares(lpSupply)
=============================================================================
