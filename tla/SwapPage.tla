------------------------------ MODULE SwapPage ------------------------------
(***************************************************************************)
(* The page Swap: a live quote against the reserves last fetched, the      *)
(* limits that keep the button closed, and one transaction that wraps SOL, *)
(* swaps and unwraps.                                                      *)
(***************************************************************************)
EXTENDS PageKit

SWAP_RESERVE == 5000000

Percent(n) == (n * FEE_DENOMINATOR) \div 100
WARN_IMPACT == Percent(5)
BLOCK_IMPACT == Percent(15)

SwapPool == derivePoolAddresses(Usd, Wsol)

SwapEmpty ==
    [from |-> Sol, to |-> Usd, amount |-> Empty, slippage |-> Percent(1), acknowledged |-> FALSE]

(* usePools: the balances of the vaults. *)
usePools(L) == [a |-> At(L.tokens, SwapPool.vaultA), b |-> At(L.tokens, SwapPool.vaultB)]

priceImpact(reserveIn, reserveOut, amountIn, amountOut) ==
    LET spot == (amountIn * reserveOut) \div reserveIn
    IN  IF spot = 0 THEN 0 ELSE (Monus(spot, amountOut) * FEE_DENOMINATOR) \div spot

minAmountOut(expected, slippage) == (expected * (FEE_DENOMINATOR - slippage)) \div FEE_DENOMINATOR

NoQuote == [out |-> 0, min |-> 0, impact |-> 0]

quoteSwap(pools, from, amount, slippage) ==
    LET aToB == SwapPool.mintA = MintOf(from)
        reserveIn == IF aToB THEN pools.a ELSE pools.b
        reserveOut == IF aToB THEN pools.b ELSE pools.a
        out == swap_output(reserveIn, reserveOut, amount, PoolFee)
    IN  IF amount <= 0 \/ reserveIn = 0 \/ reserveOut = 0 \/ out = 0 THEN NoQuote
        ELSE [out |-> out, min |-> minAmountOut(out, slippage),
              impact |-> priceImpact(reserveIn, reserveOut, amount, out)]

(* Picking the other side's token swaps the sides; every change of what is *)
(* traded takes back the OK to its price impact.                           *)
pickFrom(form, asset) ==
    [form EXCEPT !.from = asset, !.to = IF asset = @ THEN form.from ELSE @, !.acknowledged = FALSE]
flip(form) ==
    [form EXCEPT !.from = form.to, !.to = form.from, !.amount = Empty, !.acknowledged = FALSE]

SwapMax(form, assets) == IF form.from = Sol THEN Monus(assets[Sol], SWAP_RESERVE) ELSE assets[form.from]

(* What a click or a key changes; the box that accepts the impact is only  *)
(* there for one that is large but not too large.                          *)
SwapEdits(form, amounts, slippages, pools) ==
    LET impact == quoteSwap(pools, form.from, form.amount, form.slippage).impact IN
    {pickFrom(form, a) : a \in Assets} \cup {flip(form)}
    \cup {[form EXCEPT !.amount = n, !.acknowledged = FALSE] : n \in amounts}
    \cup {[form EXCEPT !.slippage = n] : n \in slippages}
    \cup (IF impact >= WARN_IMPACT /\ impact < BLOCK_IMPACT
          THEN {[form EXCEPT !.acknowledged = TRUE]} ELSE {})

(* The blockers of the button, in order; then the quote it was pressed on. *)
SwapPressed(form, assets, pools) ==
    LET quote == quoteSwap(pools, form.from, form.amount, form.slippage)
        error == FirstOf(<<
            <<form.amount = Empty, "enter an amount">>,
            <<form.amount <= 0, "amount">>,
            <<form.amount > assets[form.from], "not enough">>,
            <<form.from = Sol /\ form.amount + SWAP_RESERVE > assets[Sol], "keep SOL">>,
            <<form.from # Sol /\ assets[Sol] < SWAP_RESERVE, "need SOL">>,
            <<quote = NoQuote, "too small">>,
            <<quote.impact >= BLOCK_IMPACT, "impact">>,
            <<quote.impact >= WARN_IMPACT /\ ~form.acknowledged, "confirm impact">> >>)
    IN  IF error # "" THEN Sorry(error)
        ELSE GoOn([kind |-> "swap", from |-> form.from, to |-> form.to, amount |-> form.amount,
                   min |-> quote.min])

buildSwapInstructions(t, me) ==
    LET mintIn == MintOf(t.from)
        mintOut == MintOf(t.to)
        ataIn == findAssociatedTokenAddress(me, mintIn)
        ataOut == findAssociatedTokenAddress(me, mintOut)
        aToB == SwapPool.mintA = mintIn
    IN  <<createAssociatedTokenAccountIdempotent(me, me, mintIn),
          createAssociatedTokenAccountIdempotent(me, me, mintOut)>>
        \o When(t.from = Sol, Wrapping(me, ataIn, t.amount))
        \o <<swapInstruction(me, SwapPool, IF aToB THEN ataIn ELSE ataOut,
                             IF aToB THEN ataOut ELSE ataIn, t.amount, t.min, aToB)>>
        \o When(Sol \in {t.from, t.to},
                <<closeTokenAccount(IF t.from = Sol THEN ataIn ELSE ataOut, me, me)>>)

(* What the quote promised: no more than the amount was paid, and at least *)
(* the minimum came back.                                                  *)
SwapKept(before, after, t, me) ==
    LET opened == IF hasTokenAccount(before, me, Usd) THEN 0 ELSE TokenRent
        Charge(asset) == IF asset = Sol THEN NetworkFee({me}) + opened ELSE 0
    IN  /\ Worth(after, me, t.from) >= Worth(before, me, t.from) - t.amount - Charge(t.from)
        /\ Worth(after, me, t.to) >= Worth(before, me, t.to) + t.min - Charge(t.to)
=============================================================================
