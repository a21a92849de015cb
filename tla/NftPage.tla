------------------------------- MODULE NftPage -------------------------------
(***************************************************************************)
(* Minting an NFT from a picture, and the page of one NFT, which sends it. *)
(***************************************************************************)
EXTENDS PageKit

CONSTANTS ASSET_BYTES       \* what the page expects an NFT to take up

NAME_MAX == 32
MIN_SOL == 10000

MintEmpty == [picture |-> FALSE, name |-> 0]

(* A name counts by its bytes. *)
MintPressed(form) ==
    IF form.picture /\ form.name \in 1 .. NAME_MAX
    THEN GoOn([kind |-> "mint", nft |-> <<>>, name |-> form.name, cost |-> Rent(ASSET_BYTES) + BASE_FEE])
    ELSE Sorry("name")

(* The rent and the balance are read; then the picture is uploaded and a   *)
(* fresh key made for the NFT.                                             *)
MintChecked(L, t, me, fresh) ==
    IF At(L.lamports, me) < t.cost THEN Sorry("need SOL") ELSE GoOn([t EXCEPT !.nft = Key(fresh)])

buildMint(t, me) == <<createAssetInstruction(t.nft, me, t.name)>>

(* "Minted": the NFT is the wallet's, at about the cost shown or less.     *)
MintKept(before, after, t, me) ==
    /\ OwnerOf(after, t.nft) = me
    /\ At(before.lamports, me) - At(after.lamports, me) <= t.cost

-----------------------------------------------------------------------------
(* The page of one NFT.                                                    *)

fetchNfts(L, owner) == {n \in DOMAIN L.nfts : L.nfts[n] = owner}

GiftEmpty == [to |-> <<>>]

GiftPressed(form, nft, me) ==
    LET error == FirstOf(<< <<~validAddress(form.to), "address">>, <<form.to = me, "own address">> >>)
    IN  IF error # "" THEN Sorry(error) ELSE GoOn([kind |-> "gift", nft |-> nft, to |-> form.to])

GiftChecked(L, t, me) == IF At(L.lamports, me) < MIN_SOL THEN Sorry("need SOL") ELSE GoOn(t)

buildSend(t, me) == <<transferAssetInstruction(t.nft, me, t.to)>>

(* "Sent": it is the recipient's. *)
GiftKept(after, t) == OwnerOf(after, t.nft) = t.to
=============================================================================
