------------------------------ MODULE SendPage ------------------------------
(***************************************************************************)
(* The page Send: an asset, an address and an amount, checked against the  *)
(* balances shown and then against the network, reviewed, and sent.        *)
(***************************************************************************)
EXTENDS PageKit

SendEmpty == [asset |-> Sol, to |-> <<>>, amount |-> Empty]

SendMax(form, assets) ==
    IF form.asset = Sol THEN Monus(assets[Sol], BASE_FEE) ELSE assets[form.asset]

(* Review is pressed; `balance' is what the page goes on to work with. *)
SendPressed(form, assets, me) ==
    LET balance == assets[form.asset]
        error == FirstOf(<<
            <<~validAddress(form.to), "address">>,
            <<form.to = me, "own address">>,
            <<form.amount <= 0, "amount">>,
            <<form.amount > balance, "not enough">> >>)
    IN  IF error # "" THEN Sorry(error)
        ELSE GoOn([kind |-> "send", asset |-> form.asset, to |-> form.to, amount |-> form.amount,
                   balance |-> balance, fee |-> NetworkFee({me}), rent |-> 0])

(* What prepare asks the network before the review. *)
SendSolChecked(L, t) ==
    IF t.amount + t.fee > t.balance THEN Sorry("fee")
    ELSE IF At(L.lamports, t.to) = 0 /\ t.amount < MinSystem THEN Sorry("new account")
    ELSE GoOn(t)

SendTokenChecked(L, t, me) ==
    LET rent == IF hasTokenAccount(L, t.to, t.asset) THEN 0 ELSE TokenRent
    IN  IF At(L.lamports, me) < t.fee + rent THEN Sorry("fee") ELSE GoOn([t EXCEPT !.rent = rent])

SendChecked(L, t, me) == IF t.asset = Sol THEN SendSolChecked(L, t) ELSE SendTokenChecked(L, t, me)

(* "Total SOL out" of the review. *)
SendTotal(t) == (IF t.asset = Sol THEN t.amount ELSE 0) + t.fee + t.rent

(* The wallet kit builds the transfer: a token transfer opens the account  *)
(* of the recipient where there is none.                                   *)
SendInstructions(L, t, me) ==
    IF t.asset = Sol THEN <<systemTransfer(me, t.to, t.amount)>>
    ELSE When(~hasTokenAccount(L, t.to, t.asset),
              <<createAssociatedTokenAccountIdempotent(me, t.to, t.asset)>>)
         \o <<transferChecked(findAssociatedTokenAddress(me, t.asset), t.asset,
                              findAssociatedTokenAddress(t.to, t.asset), me, t.amount)>>

(* What the receipt says: this amount arrived, and it cost no more than    *)
(* the review showed.                                                      *)
SendKept(before, after, t, me) ==
    /\ Holding(after, t.to, t.asset) = Holding(before, t.to, t.asset) + t.amount
    /\ At(before.lamports, me) - At(after.lamports, me) <= SendTotal(t)
=============================================================================
