---------------------------- MODULE Instructions ----------------------------
(***************************************************************************)
(* The instructions the client package builds: which program is called,    *)
(* with which accounts, who must sign, and the arguments.  An address is a *)
(* sequence of names: a key, a program address after its seeds, a token    *)
(* account after its owner and mint.  Byte layouts and the order of the    *)
(* accounts are left out: accounts have the names of the IDL.              *)
(***************************************************************************)
EXTENDS Integers, Sequences, FiniteSets

NoMint == "none"    \* null: native SOL
Wsol == "wsol"      \* WSOL_MINT

Instruction(program, op, accounts, signers, args) ==
    [program |-> program, op |-> op, accounts |-> accounts, signers |-> signers, args |-> args]

-----------------------------------------------------------------------------
(* Addresses.                                                              *)

Key(name) == <<name>>
findAssociatedTokenAddress(owner, mint) == owner \o <<mint>>
findClaimAddress(claimKey) == <<"claim">> \o claimKey
findTimelockAddress(sender, recipient, seed) == <<"timelock">> \o sender \o recipient \o <<seed>>

deriveClaimAddresses(claimKey, mint) ==
    LET claim == findClaimAddress(claimKey)
    IN  [claim |-> claim, vault |-> findAssociatedTokenAddress(claim, mint)]

deriveTimelockAddresses(sender, recipient, seed, mint) ==
    LET timelock == findTimelockAddress(sender, recipient, seed)
    IN  [timelock |-> timelock, vault |-> findAssociatedTokenAddress(timelock, mint)]

(* The mints of the model in the order of their bytes. *)
MintOrder == <<"usd", Wsol>>
Before(x, y) == \E i, j \in 1 .. Len(MintOrder) : i < j /\ MintOrder[i] = x /\ MintOrder[j] = y

sortMints(x, y) == IF Before(x, y) THEN <<x, y>> ELSE <<y, x>>

derivePoolAddresses(x, y) ==
    LET mints == sortMints(x, y)
        pool == <<"pool">> \o mints
    IN  [pool |-> pool, mintA |-> mints[1], mintB |-> mints[2], lpMint |-> <<"lp">> \o pool,
         vaultA |-> findAssociatedTokenAddress(pool, mints[1]),
         vaultB |-> findAssociatedTokenAddress(pool, mints[2])]

-----------------------------------------------------------------------------
(* The System, Token and Associated Token programs.                        *)

createAssociatedTokenAccountIdempotent(payer, owner, mint) ==
    Instruction("ata", "create_idempotent",
        [payer |-> payer, ata |-> findAssociatedTokenAddress(owner, mint), owner |-> owner,
         mint |-> Key(mint)], {payer}, <<>>)

systemTransfer(from, to, lamports) ==
    Instruction("system", "transfer", [from |-> from, to |-> to], {from}, [lamports |-> lamports])

transferChecked(source, mint, destination, authority, amount) ==
    Instruction("token", "transfer_checked",
        [source |-> source, mint |-> Key(mint), destination |-> destination, authority |-> authority],
        {authority}, [amount |-> amount])

syncNative(account) == Instruction("token", "sync_native", [account |-> account], {}, <<>>)

closeTokenAccount(account, destination, owner) ==
    Instruction("token", "close", [account |-> account, destination |-> destination, owner |-> owner],
        {owner}, <<>>)

-----------------------------------------------------------------------------
(* The instructions of wallet_program, built from the IDL, which says who  *)
(* signs.                                                                  *)

IdlSigners(op) ==
    CASE op \in {"create_sol_link", "create_token_link", "refund_sol_link", "refund_token_link",
                 "create_timelock", "cancel_timelock"} -> {"sender"}
      [] op \in {"claim_sol_link", "claim_token_link"} -> {"claim_key"}
      [] op = "withdraw_timelock" -> {"recipient"}
      [] op \in {"swap", "add_liquidity", "remove_liquidity"} -> {"user"}
      [] op \in {"announce", "init_pool"} -> {"payer"}

build(op, accounts, args) ==
    Instruction("wallet", op, accounts, {accounts[name] : name \in IdlSigners(op)}, args)

SwapAccounts(user, pool, userA, userB) ==
    [user |-> user, pool |-> pool.pool, mint_a |-> Key(pool.mintA), mint_b |-> Key(pool.mintB),
     vault_a |-> pool.vaultA, vault_b |-> pool.vaultB, user_a |-> userA, user_b |-> userB]

swapInstructionAtAnyPrice(user, pool, userA, userB, amountIn, minAmountOut, aToB) ==
    build("swap", SwapAccounts(user, pool, userA, userB),
        [amount_in |-> amountIn, min_amount_out |-> 0, a_to_b |-> aToB])

swapInstruction(user, pool, userA, userB, amountIn, minAmountOut, aToB) ==
    build("swap", SwapAccounts(user, pool, userA, userB),
        [amount_in |-> amountIn, min_amount_out |-> minAmountOut, a_to_b |-> aToB])

createSolLinkInstruction(sender, claimKey, claim, amount, expiry) ==
    build("create_sol_link", [sender |-> sender, claim_key |-> claimKey, claim |-> claim],
        [amount |-> amount, expiry |-> expiry])

claimSolLinkInstruction(claimKey, claim, sender, recipient) ==
    build("claim_sol_link",
        [claim_key |-> claimKey, claim |-> claim, sender |-> sender, recipient |-> recipient], <<>>)

refundSolLinkInstruction(sender, claim) ==
    build("refund_sol_link", [sender |-> sender, claim |-> claim], <<>>)

createTokenLinkInstruction(sender, claimKey, mint, a, senderToken, amount, expiry) ==
    build("create_token_link",
        [sender |-> sender, claim_key |-> claimKey, mint |-> Key(mint), claim |-> a.claim,
         vault |-> a.vault, sender_token |-> senderToken], [amount |-> amount, expiry |-> expiry])

claimTokenLinkInstruction(claimKey, a, sender, mint, recipientToken) ==
    build("claim_token_link",
        [claim_key |-> claimKey, claim |-> a.claim, sender |-> sender, mint |-> Key(mint),
         vault |-> a.vault, recipient_token |-> recipientToken], <<>>)

refundTokenLinkInstruction(sender, a, mint, senderToken) ==
    build("refund_token_link",
        [sender |-> sender, claim |-> a.claim, mint |-> Key(mint), vault |-> a.vault,
         sender_token |-> senderToken], <<>>)

createTimelockInstruction(sender, recipient, mint, a, senderToken, terms) ==
    build("create_timelock",
        [sender |-> sender, recipient |-> recipient, mint |-> Key(mint), timelock |-> a.timelock,
         vault |-> a.vault, sender_token |-> senderToken], terms)

withdrawTimelockInstruction(recipient, a, sender, mint, recipientToken) ==
    build("withdraw_timelock",
        [recipient |-> recipient, timelock |-> a.timelock, sender |-> sender, mint |-> Key(mint),
         vault |-> a.vault, recipient_token |-> recipientToken], <<>>)

cancelTimelockInstruction(sender, a, mint, senderToken) ==
    build("cancel_timelock",
        [sender |-> sender, timelock |-> a.timelock, mint |-> Key(mint), vault |-> a.vault,
         sender_token |-> senderToken], <<>>)

announceInstruction(payer, ephemeral, stealth, viewTag) ==
    build("announce", [payer |-> payer],
        [ephemeral |-> ephemeral, stealth |-> stealth, view_tag |-> viewTag])

-----------------------------------------------------------------------------
(* Metaplex Core: the address of a new NFT signs once, the payer owns it.  *)

createAssetInstruction(asset, payer, name) ==
    Instruction("core", "create", [asset |-> asset, payer |-> payer], {asset, payer}, [name |-> name])

transferAssetInstruction(asset, payer, newOwner) ==
    Instruction("core", "transfer", [asset |-> asset, payer |-> payer, new_owner |-> newOwner],
        {payer}, <<>>)
=============================================================================
