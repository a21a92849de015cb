------------------------------- MODULE PageKit -------------------------------
(***************************************************************************)
(* What the pages of the wallet share: the amounts a person types, the     *)
(* balances the wallet shows, and the answers of a page to a press of its  *)
(* button: an error, or what to do next.                                   *)
(***************************************************************************)
EXTENDS Ledger

CONSTANTS
    Whole       \* base units of one whole unit, by asset: 10^decimals

BASE_FEE == 5000

Sol == NoMint
Usd == "usd"
Assets == {Sol, Usd}

(* What a text field holds, as parseUnits reads it. *)
Empty == -2
Unreadable == -1

(* A button writes an amount as formatUnits does, with a comma after the   *)
(* thousands, and parseUnits takes no commas.                              *)
ReadBack(n, asset) == IF n \div Whole[asset] < 1000 THEN n ELSE Unreadable

(* A text is an address or it is not: <<>> stands for all that are not. *)
validAddress(to) == Len(to) = 1

(* useAssets: lamports, and every account of a token added up. *)
useAssets(L, owner) == [a \in Assets |-> Holding(L, owner, a)]

(* What an owner has of an asset, plain or wrapped. *)
MintOf(asset) == IF asset = Sol THEN Wsol ELSE asset
Worth(L, owner, asset) ==
    Holding(L, owner, asset)
    + (IF asset = Sol THEN At(L.lamports, findAssociatedTokenAddress(owner, Wsol)) ELSE 0)

(* Wrapping SOL is paying into the wrapped account and syncing it. *)
Wrapping(owner, account, amount) == <<systemTransfer(owner, account, amount), syncNative(account)>>

hasTokenAccount(L, owner, mint) == findAssociatedTokenAddress(owner, mint) \in DOMAIN L.tokens

(* What a button leads to: an error message, or the terms it goes on with. *)
Sorry(why) == [error |-> why, terms |-> <<>>]
GoOn(terms) == [error |-> "", terms |-> terms]

(* The first of the blockers that applies: <<condition, message>>. *)
FirstOf(blockers) ==
    LET hit == {i \in DOMAIN blockers : blockers[i][1]}
    IN  IF hit = {} THEN "" ELSE blockers[Min(hit)][2]
=============================================================================
