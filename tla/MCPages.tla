------------------------------ MODULE MCPages ------------------------------
(* Small worlds for the pages: this wallet, Bob, Carol and the relayer. *)
EXTENDS Pages

bob == Key("bob")
carol == Key("carol")
new == Key("new")

MCWhole == [a \in {Sol, Usd} |-> IF a = Sol THEN 1000000000 ELSE 1]

(* A group of order 2 * 101, and hashes without collisions on it. *)
MCSharedHash == [p \in Points |-> (7 * p * p + 5 * p + 1) % Order]
MCViewTag == [p \in Points |-> p % 5]
MCKeys == stealthKeysFromSeeds(3, 4)
BobKeys == stealthKeysFromSeeds(5, 9)

UsdOf(owner) == findAssociatedTokenAddress(owner, Usd)
WsolOf(owner) == findAssociatedTokenAddress(owner, Wsol)

(* Lamports and dollars, to begin with. *)
Begin(mine, dollars) ==
    NewLedger((me :> mine) @@ (bob :> 30000000) @@ (relayer :> 6000000) @@ (UsdOf(me) :> TokenRent)
                  @@ (UsdOf(bob) :> TokenRent),
              (UsdOf(me) :> dollars) @@ (UsdOf(bob) :> 900))
After(L, txs) == FoldLeft(Ran, [L EXCEPT !.now = 10], txs)
By(who, ixs) == [payer |-> who, signed |-> {who}, ixs |-> ixs]

(* -- Send: Bob's other device has no account for dollars yet. *)
SendWorlds == {[Begin(lamports, 1500) EXCEPT !.lamports = Set(@, carol, 1000000)] :
                   lamports \in {3000000, 1400000}}
SendForms ==
    {[asset |-> Sol, to |-> new, amount |-> n] : n \in {2995000, 2500000, 100000}}
    \cup {[asset |-> Sol, to |-> me, amount |-> 1]}
    \cup {[asset |-> Usd, to |-> carol, amount |-> n] : n \in {1500, 1501, Unreadable}}

(* -- Swap: a pool of 4000 and 4000. *)
SwapBegin(L) ==
    [L EXCEPT !.lamports = (SwapPool.vaultA :> TokenRent) @@ (SwapPool.vaultB :> TokenRent + 4000) @@ @,
              !.tokens = (SwapPool.vaultA :> 4000) @@ (SwapPool.vaultB :> 4000) @@ @]
SwapWorld == SwapBegin(Begin(5000300, 900))
SwapWorlds ==
    {SwapBegin(Begin(4999999, 900)),
     SwapBegin([Begin(5000300, 900) EXCEPT !.tokens = Without(@, UsdOf(me)),
                                           !.lamports = Without(@, UsdOf(me))]),
     SwapBegin([Begin(5000300, 900) EXCEPT !.tokens = Set(@, WsolOf(me), 500),
                                           !.lamports = Set(@, WsolOf(me), TokenRent + 500)])}
SwapForms == [amounts |-> {100, 300, 800}, slippages |-> {1, 5}]
Trade(who, from, n) ==
    By(who, buildSwapInstructions(
                [from |-> from, to |-> IF from = Sol THEN Usd ELSE Sol, amount |-> n, min |-> 0], who))

(* -- Locks: one for me, one by me and one that cannot be taken back. *)
LockTerms(asset, to, amount, seed, start, end, cancellable) ==
    [asset |-> asset, to |-> to, amount |-> amount, seed |-> seed, cancellable |-> cancellable,
     schedule |-> [start |-> start, cliff |-> start, end |-> end]]
Lock(who, terms) == By(who, buildCreateLockInstructions(terms, who))
LockWorld ==
    After(Begin(20000000, 900),
          <<Lock(bob, LockTerms(Sol, me, 100, "l1", 8, 12, TRUE)),
            Lock(me, LockTerms(Usd, bob, 100, "l2", 9, 12, TRUE))>>)
PoorLockWorld ==
    After(Begin(9000000, 900),
          <<Lock(bob, LockTerms(Usd, me, 100, "l1", 8, 11, FALSE)),
            Lock(me, LockTerms(Sol, bob, 100, "l2", 9, 12, TRUE))>>)
LockForm(asset, amount, mode, unlock, cliff) ==
    [asset |-> asset, to |-> carol, amount |-> amount, mode |-> mode, unlock |-> unlock,
     duration |-> 4, cliff |-> cliff, cancellable |-> TRUE]
LockForms ==
    {LockForm(Sol, 100, "vest", Empty, 1), LockForm(Usd, 800, "date", 15, 0),
     LockForm(Usd, 100, "date", 11, 0)}

(* -- Links: a link of mine in each asset, about to expire. *)
LinkTerms(asset, amount, secret) ==
    [asset |-> asset, amount |-> amount, secret |-> secret, expiry |-> 11]
Link(who, terms) == By(who, buildCreateLinkInstructions(terms, who))
LinkWorlds == {After(Begin(lamports, 900), <<Link(me, LinkTerms(Usd, 50, "s0"))>>) :
                   lamports \in {12000000, 7000000}}
LinkForms ==
    {[asset |-> Sol, amount |-> n, expiry |-> 1] : n \in {700000, 100000, 6000000}}
    \cup {[asset |-> Usd, amount |-> 850, expiry |-> 2]}
ClaimBy(L, to) ==
    {buildRelayableTransaction([link |-> l, secret |-> "s0", to |-> to]) :
        l \in {L.links[a] : a \in {findClaimAddress(claimKeyOf("s0"))} \cap DOMAIN L.links}}

(* -- Claim: a link of Bob's. *)
ClaimWorlds == {After(Begin(1000000, 900), <<Link(bob, t)>>) :
                    t \in {LinkTerms(Usd, 50, "s0"), LinkTerms(Sol, 700000, "s0")}}
ClaimForms == {[to |-> to] : to \in {me, new}}

(* -- Stealth: Bob has paid me twice. *)
PayTerms(asset, amount, keys, r) ==
    [asset |-> asset, amount |-> amount, meta |-> metaOf(keys), random |-> r]
PayTo(who, terms) == By(who, planStealthPayment(terms, who))
StealthWorlds ==
    {After(Begin(6000000, 900), <<PayTo(bob, PayTerms(Usd, 50, MCKeys, 6)), PayTo(bob, t)>>) :
        t \in {PayTerms(Sol, MinSystem, MCKeys, 7), PayTerms(Usd, 10, BobKeys, 8)}}
StealthForm(asset, amount, keys, dest) ==
    [meta |-> metaOf(keys), asset |-> asset, amount |-> amount, dest |-> dest]
StealthForms ==
    {StealthForm(Usd, 20, MCKeys, <<>>), StealthForm(Sol, 700000, BobKeys, carol),
     StealthForm(Sol, 100000, MCKeys, new)}

(* -- NFTs: one to send, and one to mint. *)
MCNft == Key("n1")
MintWorlds == {Begin(lamports, 0) : lamports \in {3000000, 2000000}}
MintForms ==
    {[picture |-> TRUE, name |-> 32], [picture |-> TRUE, name |-> 33], [picture |-> FALSE, name |-> 5]}
NftWorlds == {[Begin(lamports, 0) EXCEPT !.nfts = (MCNft :> me)] : lamports \in {1000000, 655000}}
NftForms == {[to |-> to] : to \in {me, bob, <<>>}}

From(world, ahead, press, event) ==
    [chain |-> world, skew |-> ahead, left |-> [press |-> press, event |-> event]]
MCStarts ==
    [send |-> {From(w, 0, 3, 2) : w \in SendWorlds},
     swap |-> {From(w, 0, 1, 2) : w \in SwapWorlds} \cup {From(SwapWorld, 0, 2, 1)},
     locks |-> {From(LockWorld, -1, 2, 1), From(LockWorld, 1, 1, 2),
                From(PoorLockWorld, 1, 2, 1), From(PoorLockWorld, -1, 1, 2)},
     links |-> {From(w, 0, 2, 1) : w \in LinkWorlds} \cup {From(w, 0, 1, 2) : w \in LinkWorlds},
     claim |-> {From(w, 0, 2, 2) : w \in ClaimWorlds},
     stealth |-> {From(w, 0, 2, 1) : w \in StealthWorlds} \cup {From(w, 0, 1, 2) : w \in StealthWorlds},
     mint |-> {From(w, 0, 3, 2) : w \in MintWorlds},
     nft |-> {From(w, 0, 4, 2) : w \in NftWorlds}]
MCForms ==
    [send |-> SendForms, swap |-> SwapForms, locks |-> LockForms, links |-> LinkForms,
     claim |-> ClaimForms, stealth |-> StealthForms, mint |-> MintForms, nft |-> NftForms]
MCSecrets == <<"s1", "s2", "s3", "s4">>

(* This wallet on another device, and the others. *)
Spent(n) == By(me, <<systemTransfer(me, bob, n)>>)
CloseDollars(L) ==
    By(me, <<transferChecked(UsdOf(me), Usd, UsdOf(bob), me, At(L.tokens, UsdOf(me))),
             closeTokenAccount(UsdOf(me), me, me)>>)
MCElsewhere(L, p) ==
    CASE p = "send" -> {Spent(600000), By(bob, <<createAssociatedTokenAccountIdempotent(bob, carol, Usd)>>)}
      [] p = "swap" -> {Trade(bob, Usd, 300), Trade(bob, Sol, 200)}
      [] p = "locks" ->
            {CloseDollars(L)}
            \cup {By(bob, buildCancelLockInstructions(k)) : k \in fetchTimelocks(L, "sender", bob)}
            \cup {By(bob, buildWithdrawInstructions(k)) : k \in fetchTimelocks(L, "recipient", bob)}
      [] p = "links" -> {CloseDollars(L), Spent(2000000)} \cup ClaimBy(L, carol)
      [] p = "claim" ->
            ClaimBy(L, carol)
            \cup {[tx EXCEPT !.signed = @ \cup {bob, new}] : tx \in ClaimBy(L, carol)}
            \cup {By(bob, buildCancelInstructions(k)) : k \in fetchMyLinks(L, bob)}
            \cup {[tx EXCEPT !.ixs = <<extra>> \o @] :
                      tx \in ClaimBy(L, carol),
                      extra \in {systemTransfer(relayer, bob, 2000000),
                                createAssociatedTokenAccountIdempotent(relayer, new, Usd)}}
      [] p = "stealth" ->
            {PayTo(bob, PayTerms(Usd, 10, MCKeys, 5)), Spent(2000000),
             By(bob, <<announceInstruction(bob, bob, publicKeyToAddress(MCKeys.spendPub), 0)>>)}
      [] p = "mint" -> {Spent(600000)}
      [] p = "nft" -> {Spent(350000), By(me, buildSend([nft |-> MCNft, to |-> bob], me))}
=============================================================================
