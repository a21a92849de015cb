------------------------------ MODULE Activity ------------------------------
(***************************************************************************)
(* The history of an account: what a transaction was for and what it moved, *)
(* worked out from its instructions and from the balances before and after. *)
(***************************************************************************)
EXTENDS PageKit

Trades == {"swap", "add_liquidity", "remove_liquidity"}
Outgoing == {"create_sol_link", "create_token_link", "create_timelock", "announce"}
Incoming == {"claim_sol_link", "claim_token_link", "refund_sol_link", "refund_token_link",
             "withdraw_timelock", "cancel_timelock"}

(* The first instruction of wallet_program tells what for, or else the last *)
(* one of Metaplex Core.                                                   *)
classifyProgramCall(ixs) ==
    LET ours == SelectSeq(ixs, LAMBDA ix : ix.program = "wallet" /\ ix.op \in Trades \cup Outgoing \cup Incoming)
        core == SelectSeq(ixs, LAMBDA ix : ix.program = "core")
    IN  IF ours # <<>> THEN Head(ours).op
        ELSE IF core # <<>> THEN "nft " \o Last(core).op ELSE ""

Delta(before, after, owner, mint) == Holding(after, owner, mint) - Holding(before, owner, mint)

(* The mints whose tokens moved, in the order of the accounts. *)
tokenDeltas(before, after, owner) ==
    SelectSeq(MintOrder, LAMBDA m : Delta(before, after, owner, m) # 0)

Opened(before, after, owner) ==
    {m \in {Usd, Wsol} : hasTokenAccount(after, owner, m) /\ ~hasTokenAccount(before, owner, m)}

FeePaid(tx, owner) == IF tx.payer = owner THEN NetworkFee({tx.payer} \cup tx.signed) ELSE 0

(* The SOL of a swap, without the fee and the deposits of new accounts.    *)
solLegWithRent(before, after, tx, owner) ==
    Delta(before, after, owner, NoMint) + FeePaid(tx, owner)
solLeg(before, after, tx, owner) ==
    Delta(before, after, owner, NoMint) + FeePaid(tx, owner)
    + Cardinality(Opened(before, after, owner)) * TokenRent

(* The amount of anything but a swap: of the first token, or of SOL.       *)
Net(before, after, owner) ==
    LET moved == tokenDeltas(before, after, owner)
    IN  Delta(before, after, owner, IF moved = <<>> THEN NoMint ELSE Head(moved))

KindOf(what, net, tx, owner) ==
    CASE what \in Trades -> "swap"
      [] what \in Incoming -> "received"
      [] what \in Outgoing -> "sent"
      [] what = "nft transfer" -> IF tx.payer = owner THEN "sent" ELSE "received"
      [] OTHER -> IF net > 0 THEN "received" ELSE IF net < 0 THEN "sent" ELSE "other"

(* One line of the history, of a transaction that succeeded. *)
getHistory(before, after, tx, owner) ==
    LET what == classifyProgramCall(tx.ixs)
        net == Net(before, after, owner)
    IN  [label |-> what, kind |-> KindOf(what, net, tx, owner), amount |-> net,
         legs |-> [a \in Assets |-> IF a = Sol THEN solLeg(before, after, tx, owner)
                                    ELSE Delta(before, after, owner, a)]]

-----------------------------------------------------------------------------
(* What the line of a transaction of mine must say.                        *)

SwapTold(item, t) ==
    /\ item.kind = "swap"
    /\ item.legs[t.from] = -t.amount
    /\ item.legs[t.to] >= t.min

PaymentTold(item, t) ==
    /\ item.kind = "sent"
    /\ IF t.asset = Sol THEN item.amount <= -t.amount ELSE item.amount = -t.amount

GivesBack(t) == t.kind \in {"withdraw", "cancel lock", "cancel link"}

ItemTells(item, t, me) ==
    CASE t.kind = "swap" -> SwapTold(item, t)
      [] t.kind \in {"send", "lock", "link", "stealth pay"} -> PaymentTold(item, t)
      [] t.kind \in {"mint", "gift"} -> item.kind = "sent"
      [] GivesBack(t) -> item.kind = "received"
      [] t.kind = "claim" -> t.to = me => item.kind = "received" /\ item.amount = t.link.amount
      [] t.kind = "sweep" -> t.dest = me => item.kind = "received"
=============================================================================
