----------------------------- MODULE StealthPage -----------------------------
(***************************************************************************)
(* The page Stealth: paying a one-time address made for the recipient,     *)
(* finding the payments made to this wallet in the public feed, and        *)
(* emptying a one-time address, which pays for that itself.                *)
(***************************************************************************)
EXTENDS PageKit, StealthKeys

CONSTANTS FeedLimit     \* how much of the feed is ever downloaded: pages times their size

ASSUME FeedAssumption == FeedLimit \in Nat

FEE_MARGIN_LAMPORTS == 20000
SWEEP_FEE_LAMPORTS == 5000

publicKeyToAddress(p) == Key(ToString(p))

ASSUME AddressAssumption ==
    \A p, q \in Points : publicKeyToAddress(p) = publicKeyToAddress(q) => p = q

PointAt == [a \in {publicKeyToAddress(p) : p \in Points} |->
               CHOOSE p \in Points : publicKeyToAddress(p) = a]
addressToPublicKey(a) == PointAt[a]
isPoint(a) == a \in DOMAIN PointAt

StealthEmpty == [meta |-> [spendPub |-> 0, scanPub |-> 0], asset |-> Sol, amount |-> Empty, dest |-> <<>>]

PayPressed(form, assets, r) ==
    LET error == FirstOf(<<
            <<~decodeMetaAddress(form.meta), "stealth address">>,
            <<form.amount <= 0, "amount">>,
            <<form.amount > assets[form.asset], "not enough">> >>)
    IN  IF error # "" THEN Sorry(error)
        ELSE GoOn([kind |-> "stealth pay", asset |-> form.asset, amount |-> form.amount,
                   meta |-> form.meta, sol |-> assets[Sol], random |-> r])

(* After the rents are known; the balances are those of the press.         *)
PayBlockers(t) ==
    << <<t.asset = Sol /\ t.amount < MinSystem, "too small">>,
       <<t.asset = Sol /\ t.amount + 20000 > t.sol, "keep SOL">>,
       <<t.asset # Sol /\ t.sol < 2 * TokenRent + FEE_MARGIN_LAMPORTS + 20000, "need SOL">>,
       <<Degenerate(t.meta, t.random), "degenerate">> >>
PayChecked(t) ==
    LET error == FirstOf(PayBlockers(t)) IN IF error # "" THEN Sorry(error) ELSE GoOn(t)

stealthAddressOf(t) == publicKeyToAddress(createStealthPayment(t.meta, t.random).stealthPub)

planStealthPayment(t, me) ==
    LET pay == createStealthPayment(t.meta, t.random)
        stealth == publicKeyToAddress(pay.stealthPub)
    IN  (IF t.asset = Sol THEN <<systemTransfer(me, stealth, t.amount)>>
         ELSE <<systemTransfer(me, stealth, TokenRent + FEE_MARGIN_LAMPORTS),
                createAssociatedTokenAccountIdempotent(me, stealth, t.asset),
                transferChecked(findAssociatedTokenAddress(me, t.asset), t.asset,
                    findAssociatedTokenAddress(stealth, t.asset), me, t.amount)>>)
        \o <<announceInstruction(me, publicKeyToAddress(pay.ephemeral), stealth, pay.viewTag)>>

(* "Sent privately": the one-time address has the amount.                  *)
PayKept(before, after, t) ==
    LET stealth == stealthAddressOf(t) IN
    /\ Holding(after, stealth, t.asset) >= Holding(before, stealth, t.asset) + t.amount
    /\ \E i \in DOMAIN after.feed : after.feed[i].stealth = stealth

-----------------------------------------------------------------------------
(* Finding: the feed, and what its announcements hold for these keys.      *)

(* Anybody can announce anything: what is not a pair of points is skipped. *)
readItem(item) ==
    [ephemeral |-> addressToPublicKey(item.ephemeral),
     stealthPub |-> addressToPublicKey(item.stealth), viewTag |-> item.view_tag]

findMyPayments(keys, items) ==
    UNION {{[address |-> items[i].stealth, scalar |-> s] : s \in scanAnnouncement(keys, readItem(items[i]))} :
              i \in {j \in DOMAIN items : isPoint(items[j].ephemeral) /\ isPoint(items[j].stealth)}}

scanFeed(L, keys) == findMyPayments(keys, SubSeq(L.feed, 1, Earlier(FeedLimit, Len(L.feed))))

tokensOf(L, owner) == {m \in {Usd, Wsol} : At(L.tokens, findAssociatedTokenAddress(owner, m)) > 0}

(* Only payments with something left are shown. *)
withFunds(L, keys) ==
    {p \in scanFeed(L, keys) : At(L.lamports, p.address) > 0 \/ tokensOf(L, p.address) # {}}

SweepOffers(payments, dest) ==
    {[kind |-> "sweep", payment |-> p, dest |-> dest] : p \in payments}

SweepPressed(t) ==
    IF ~validAddress(t.dest) THEN Sorry("address")
    ELSE IF t.dest = t.payment.address THEN Sorry("the payment itself")
    ELSE GoOn(t)

-----------------------------------------------------------------------------
(* Emptying a one-time address.                                            *)

SweepCost(L, t) ==
    SWEEP_FEE_LAMPORTS
    + TokenRent * Cardinality({m \in tokensOf(L, t.payment.address) : ~hasTokenAccount(L, t.dest, m)})

solOut(L, t) == At(L.lamports, t.payment.address) - SweepCost(L, t)

(* planSweep, from the balances read just before.                          *)
SweepChecked(L, t) ==
    LET out == solOut(L, t)
        error == FirstOf(<<
            <<out < 0, "not enough SOL">>,
            <<out = 0 /\ tokensOf(L, t.payment.address) = {}, "nothing">>,
            <<out > 0 /\ At(L.lamports, t.dest) + out < MinSystem, "too small">> >>)
    IN  IF error # "" THEN Sorry(error) ELSE GoOn(t)

sweepToken(from, dest, mint, amount) ==
    LET token == findAssociatedTokenAddress(from, mint)
        to == findAssociatedTokenAddress(dest, mint)
    IN  <<createAssociatedTokenAccountIdempotent(from, dest, mint),
          transferChecked(token, mint, to, from, amount), closeTokenAccount(token, dest, from)>>

planSweep(L, t) ==
    LET from == t.payment.address
        out == solOut(L, t)
        Sweep(mint) == When(mint \in tokensOf(L, from),
                            sweepToken(from, t.dest, mint,
                                       At(L.tokens, findAssociatedTokenAddress(from, mint))))
    IN  Sweep(Usd) \o Sweep(Wsol) \o When(out > 0, <<systemTransfer(from, t.dest, out)>>)

(* Signed with the scalar: whose public key is the only signer's address.  *)
buildScalarSignedTransaction(L, t) ==
    [payer |-> t.payment.address,
     signed |-> {publicKeyToAddress(publicKeyFromScalar(t.payment.scalar))}, ixs |-> planSweep(L, t)]

(* "Withdrawn": everything has moved, and the fee is all that is gone.     *)
SweepKept(before, after, t) ==
    LET from == t.payment.address
        token == findAssociatedTokenAddress(from, Usd)
        opened == IF tokensOf(before, from) = {} \/ hasTokenAccount(before, t.dest, Usd) THEN 0 ELSE TokenRent
    IN  /\ At(after.lamports, from) = 0 /\ token \notin DOMAIN after.tokens
        /\ At(after.lamports, t.dest) = At(before.lamports, t.dest) + At(before.lamports, from)
              + At(before.lamports, token) - opened - NetworkFee({from})
        /\ Holding(after, t.dest, Usd) = Holding(before, t.dest, Usd) + At(before.tokens, token)
=============================================================================
