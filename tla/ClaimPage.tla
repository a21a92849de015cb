------------------------------ MODULE ClaimPage ------------------------------
(***************************************************************************)
(* The public page Claim, opened with the secret of a link, and the fee    *)
(* relayer of the server, which pays for claims and for nothing else.      *)
(***************************************************************************)
EXTENDS LinksPage

relayer == Key("relayer")

ClaimEmpty == [to |-> <<>>]

(* timeLeft: the link is over for the page from its last second on. *)
Expired(link, clock) == link.expiry - clock <= 0

ClaimPressed(form, links, secret, clock) ==
    LET error == FirstOf(<<
            <<links = <<>>, "nothing to claim">>,
            <<links # <<>> /\ Expired(Head(links), clock), "expired">>,
            <<~validAddress(form.to), "address">> >>)
    IN  IF error # "" THEN Sorry(error)
        ELSE GoOn([kind |-> "claim", link |-> Head(links), secret |-> secret, to |-> form.to])

(* The link's secret signs; the relayer pays, and opens the recipient's    *)
(* token account if there is none.                                         *)
buildClaimInstructions(t) ==
    LET key == claimKeyOf(t.secret)
        a == deriveClaimAddresses(key, t.link.mint)
        token == findAssociatedTokenAddress(t.to, t.link.mint)
    IN  IF t.link.mint = NoMint
        THEN <<claimSolLinkInstruction(key, a.claim, t.link.sender, t.to)>>
        ELSE <<createAssociatedTokenAccountIdempotent(relayer, t.to, t.link.mint),
               claimTokenLinkInstruction(key, a, t.link.sender, t.link.mint, token)>>

buildRelayableTransaction(t) ==
    [payer |-> relayer, signed |-> {claimKeyOf(t.secret)}, ixs |-> buildClaimInstructions(t)]

(* "Claimed": the whole amount is with the recipient.                      *)
ClaimKept(before, after, t) ==
    Holding(after, t.to, t.link.mint) = Holding(before, t.to, t.link.mint) + t.link.amount

-----------------------------------------------------------------------------
(* checkRelayTransaction.                                                  *)

MAX_INSTRUCTIONS == 2
MAX_TRANSACTION_BYTES == 1232
MIN_RELAYER_LAMPORTS == 5000000

IsClaim(ix) == ix.program = "wallet" /\ ix.op \in {"claim_sol_link", "claim_token_link"}
OpensAccount(ix) == ix.program = "ata" /\ ix.op = "create_idempotent"

(* The relayer is no account of a claim, and only the payer of an opening. *)
RelayerAside(ix) ==
    \A name \in DOMAIN ix.accounts :
        ix.accounts[name] = relayer => OpensAccount(ix) /\ name = "payer"

checkSomeClaim(tx) ==
    /\ tx.payer = relayer
    /\ UNION {tx.ixs[i].signers : i \in DOMAIN tx.ixs} \subseteq {relayer} \cup tx.signed
    /\ \E i \in DOMAIN tx.ixs : IsClaim(tx.ixs[i])

(* Whoever else signs takes up a signature and an address of a transaction *)
(* at least, and nothing but its size bounds how many there are.           *)
SIGNER_BYTES == 96
MaxSignatures == MAX_TRANSACTION_BYTES \div SIGNER_BYTES

checkRelayTransaction(tx) ==
    /\ Cardinality({tx.payer} \cup tx.signed) <= MaxSignatures
    /\ tx.payer = relayer
    /\ UNION {tx.ixs[i].signers : i \in DOMAIN tx.ixs} \subseteq {relayer} \cup tx.signed
    /\ Len(tx.ixs) \in 1 .. MAX_INSTRUCTIONS
    /\ \A i \in DOMAIN tx.ixs : (IsClaim(tx.ixs[i]) \/ OpensAccount(tx.ixs[i])) /\ RelayerAside(tx.ixs[i])
    /\ Cardinality({i \in DOMAIN tx.ixs : IsClaim(tx.ixs[i])}) = 1
    /\ Cardinality({i \in DOMAIN tx.ixs : OpensAccount(tx.ixs[i])}) <= 1

(* POST /relay, up to the broadcast: the balance is read once, before. *)
relayRefusal(L, tx) ==
    FirstOf(<< <<~checkRelayTransaction(tx), "policy">>,
               <<At(L.lamports, relayer) < MIN_RELAYER_LAMPORTS, "out of funds">> >>)
=============================================================================
