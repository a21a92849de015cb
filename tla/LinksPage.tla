------------------------------ MODULE LinksPage ------------------------------
(***************************************************************************)
(* The page Links: a form that puts an asset behind a secret, shown once,  *)
(* and the open links of this wallet, which it can cancel without it.      *)
(***************************************************************************)
EXTENDS PageKit

LINK_RESERVE == 5000000

LinkEmpty == [asset |-> Sol, amount |-> Empty, expiry |-> 1]

LinkMax(form, assets) ==
    IF form.asset = Sol THEN Monus(assets[Sol], LINK_RESERVE) ELSE assets[form.asset]

LinkPressed(form, assets) ==
    LET error == FirstOf(<<
            <<form.amount <= 0, "amount">>,
            <<form.amount > assets[form.asset], "not enough">> >>)
    IN  IF error # "" THEN Sorry(error)
        ELSE GoOn([kind |-> "link", asset |-> form.asset, amount |-> form.amount, sol |-> assets[Sol],
                   expiry |-> form.expiry, secret |-> ""])

(* After the rent is known; the balances are those of the press, the clock *)
(* and the secret are new.                                                 *)
LinkChecked(t, clock, secret) ==
    LET error == FirstOf(<<
            <<t.asset = Sol /\ t.amount < MinSystem, "too small">>,
            <<t.asset = Sol /\ t.amount + LINK_RESERVE > t.sol, "keep SOL">>,
            <<t.asset # Sol /\ t.sol < LINK_RESERVE, "need SOL">> >>)
    IN  IF error # "" THEN Sorry(error)
        ELSE GoOn([t EXCEPT !.expiry = clock + @, !.secret = secret])

(* generateLinkSecret: the public key is all the chain ever learns.        *)
claimKeyOf(secret) == Key("key of " \o secret)

buildCreateLinkInstructions(t, me) ==
    LET key == claimKeyOf(t.secret)
        a == deriveClaimAddresses(key, t.asset)
    IN  IF t.asset = Sol THEN <<createSolLinkInstruction(me, key, a.claim, t.amount, t.expiry)>>
        ELSE <<createTokenLinkInstruction(me, key, t.asset, a,
                   findAssociatedTokenAddress(me, t.asset), t.amount, t.expiry)>>

(* "Your link is ready to hand over": the secret shown opens a link with   *)
(* the amount in it.                                                       *)
LinkKept(before, after, t, me) ==
    LET a == deriveClaimAddresses(claimKeyOf(t.secret), t.asset) IN
    /\ a.claim \in DOMAIN after.links
    /\ LET link == after.links[a.claim]
       IN  link.amount = t.amount /\ link.mint = t.asset /\ link.sender = me /\ link.expiry = t.expiry
    /\ IF t.asset = Sol THEN after.lamports[a.claim] = LinkRent + t.amount
       ELSE after.tokens[a.vault] = t.amount

-----------------------------------------------------------------------------
(* The open links.                                                         *)

fetchLink(L, claimKey) ==
    LET claim == findClaimAddress(claimKey)
    IN  IF claim \in DOMAIN L.links THEN <<L.links[claim]>> ELSE <<>>

fetchMyLinks(L, me) == {l \in {L.links[a] : a \in DOMAIN L.links} : l.sender = me}

(* A row is on offer whether the link has expired or not. *)
CancelLinkOffers(links) == {[kind |-> "cancel link", link |-> l] : l \in links}

buildCancelWithoutAccount(link) ==
    IF link.mint = NoMint THEN <<refundSolLinkInstruction(link.sender, findClaimAddress(link.claimKey))>>
    ELSE <<refundTokenLinkInstruction(link.sender, deriveClaimAddresses(link.claimKey, link.mint),
               link.mint, findAssociatedTokenAddress(link.sender, link.mint))>>

buildCancelInstructions(link) ==
    IF link.mint = NoMint THEN <<refundSolLinkInstruction(link.sender, findClaimAddress(link.claimKey))>>
    ELSE <<createAssociatedTokenAccountIdempotent(link.sender, link.sender, link.mint),
           refundTokenLinkInstruction(link.sender, deriveClaimAddresses(link.claimKey, link.mint),
               link.mint, findAssociatedTokenAddress(link.sender, link.mint))>>

(* "The funds return to your wallet", the deposits with them. *)
CancelLinkKept(before, after, t, me) ==
    LET deposits == LinkRent + (IF t.link.mint = NoMint THEN 0 ELSE TokenRent)
        opened == IF t.link.mint = NoMint \/ hasTokenAccount(before, me, t.link.mint) THEN 0 ELSE TokenRent
        Back(asset) == (IF asset = t.link.mint THEN t.link.amount ELSE 0)
                       + (IF asset = Sol THEN deposits - opened - NetworkFee({me}) ELSE 0)
    IN  \A asset \in Assets : Worth(after, me, asset) = Worth(before, me, asset) + Back(asset)
=============================================================================
