------------------------------- MODULE Ledger -------------------------------
(***************************************************************************)
(* The chain as the wallet meets it: accounts with lamports, associated    *)
(* token accounts, the claim links and timelocks of wallet_program, a pool *)
(* and NFTs; instructions with the preconditions of the programs that run  *)
(* them; and transactions, which run their instructions all or not at all. *)
(* ClaimLinks, Timelock and Pool model the instructions of wallet_program  *)
(* in full; here they are what a page of the wallet can tell from outside. *)
(***************************************************************************)
EXTENDS Instructions, AmmMath, Vesting, SequencesExt

CONSTANTS LamportsPerByte, PoolFee

ASSUME LedgerAssumption == LamportsPerByte \in Nat \ {0} /\ PoolFee \in 0 .. MAX_FEE_BPS

Rent(bytes) == (128 + bytes) * LamportsPerByte
MinSystem == Rent(0)
TokenRent == Rent(165)
LinkRent == Rent(121)
LockRent == Rent(154)

(* The network charges for every signature. *)
SignatureFee == 5000
NetworkFee(signers) == Cardinality(signers) * SignatureFee

At(f, a) == IF a \in DOMAIN f THEN f[a] ELSE 0
Set(f, a, v) == [x \in DOMAIN f \cup {a} |-> IF x = a THEN v ELSE f[x]]
Without(f, a) == [x \in DOMAIN f \ {a} |-> f[x]]
OwnerOf(L, nft) == IF nft \in DOMAIN L.nfts THEN L.nfts[nft] ELSE <<>>

(* ok and why tell how the transaction under way fares. *)
NewLedger(lamports, tokens) ==
    [lamports |-> lamports, tokens |-> tokens, links |-> <<>>, locks |-> <<>>,
     nfts |-> <<>>, feed |-> <<>>, now |-> 0, ok |-> TRUE, why |-> ""]

LedgerFields == {"lamports", "tokens", "links", "locks", "nfts", "feed", "now", "ok", "why"}
IsLedger(L) ==
    /\ DOMAIN L = LedgerFields
    /\ L.ok \in BOOLEAN /\ (L.ok <=> L.why = "")
    /\ L.feed \in Seq(Range(L.feed))

(* An address that a program derives is no key's, and what programs keep   *)
(* lies at such; nobody owes lamports.                                     *)
Derived(address) == Len(address) > 1
Funded(L) ==
    /\ \A a \in DOMAIN L.lamports : L.lamports[a] \in Nat
    /\ \A a \in DOMAIN L.tokens \cup DOMAIN L.links \cup DOMAIN L.locks : Derived(a)

Refuse(L, why) == [L EXCEPT !.ok = FALSE, !.why = why]

-----------------------------------------------------------------------------
(* What the programs do to accounts, step by step.                         *)

Native(account) == Last(account) = Wsol

Moved(f, from, to, n) ==
    LET less == Set(f, from, At(f, from) - n) IN Set(less, to, At(less, to) + n)

Pay(L, from, to, n) ==
    IF n \notin 0 .. At(L.lamports, from) THEN Refuse(L, "funds")
    ELSE [L EXCEPT !.lamports = Moved(@, from, to, n)]

OpenToken(L, payer, account) ==
    LET paid == Pay(L, payer, account, TokenRent)
    IN  IF paid.ok THEN [paid EXCEPT !.tokens = Set(@, account, 0)] ELSE paid

MoveTokens(L, from, to, n) ==
    IF ~({from, to} \subseteq DOMAIN L.tokens) THEN Refuse(L, "no account")
    ELSE IF \/ n \notin 0 .. L.tokens[from]
            \/ Native(from) /\ n \notin 0 .. At(L.lamports, from)
         THEN Refuse(L, "funds")
    ELSE [L EXCEPT !.tokens = Moved(@, from, to, n),
                   !.lamports = IF Native(from) THEN Moved(@, from, to, n) ELSE @]

CloseToken(L, account, to) ==
    IF account \notin DOMAIN L.tokens THEN Refuse(L, "no account")
    ELSE IF ~Native(account) /\ L.tokens[account] > 0 THEN Refuse(L, "not empty")
    ELSE [L EXCEPT !.lamports = Moved(@, account, to, At(@, account)),
                   !.tokens = Without(@, account)]

(* A step is a record [do, ...]; after a refused step none is run. *)
Do(L, s) ==
    CASE ~L.ok -> L
      [] s.do = "pay" /\ L.ok -> Pay(L, s.from, s.to, s.n)
      [] s.do = "open" /\ L.ok -> OpenToken(L, s.from, s.to)
      [] s.do = "move" /\ L.ok -> MoveTokens(L, s.from, s.to, s.n)
      [] s.do = "close" /\ L.ok -> CloseToken(L, s.from, s.to)
      [] s.do = "sync" /\ L.ok -> [L EXCEPT !.tokens[s.to] = L.lamports[s.to] - TokenRent]
      [] s.do = "link" /\ L.ok -> [L EXCEPT !.links = Set(@, s.to, s.as)]
      [] s.do = "lock" /\ L.ok -> [L EXCEPT !.locks = Set(@, s.to, s.as)]
      [] s.do = "nft" /\ L.ok -> [L EXCEPT !.nfts = Set(@, s.to, s.as)]
      [] s.do = "wipe" /\ L.ok ->
            [L EXCEPT !.lamports = Moved(@, s.from, s.to, At(L.lamports, s.from)),
                      !.links = Without(@, s.from), !.locks = Without(@, s.from)]
      [] s.do = "emit" /\ L.ok -> [L EXCEPT !.feed = Append(@, s.as)]
      [] s.do = "refuse" /\ L.ok -> Refuse(L, s.why)

Step(do, from, to, n) == [do |-> do, from |-> from, to |-> to, n |-> n]
Store(do, at, value) == [do |-> do, to |-> at, as |-> value]
Fail(why) == <<[do |-> "refuse", why |-> why]>>
When(condition, steps) == IF condition THEN steps ELSE <<>>

-----------------------------------------------------------------------------
(* The steps of each instruction, in the order its program takes them.     *)

SystemSteps(L, ix) ==
    LET a == ix.accounts IN
    CASE ix.op = "transfer" -> <<Step("pay", a.from, a.to, ix.args.lamports)>>
      [] ix.op = "create_idempotent" /\ Derived(a.ata) ->
            When(a.ata \notin DOMAIN L.tokens, <<Step("open", a.payer, a.ata, 0)>>)
      [] ix.op = "transfer_checked" -> <<Step("move", a.source, a.destination, ix.args.amount)>>
      [] ix.op = "sync_native" -> <<Step("sync", a.account, a.account, 0)>>
      [] ix.op = "close" -> <<Step("close", a.account, a.destination, 0)>>
      [] OTHER -> Fail("program")

(* An NFT is one account: its owner, its name and the link to the rest.    *)
NftBytes(name) == 167 + name

NftSteps(L, ix) ==
    LET a == ix.accounts IN
    CASE ix.op = "create" ->
            IF a.asset \in DOMAIN L.nfts THEN Fail("program")
            ELSE <<Step("pay", a.payer, a.asset, Rent(NftBytes(ix.args.name))), Store("nft", a.asset, a.payer)>>
      [] ix.op = "transfer" ->
            IF OwnerOf(L, a.asset) # a.payer THEN Fail("program")
            ELSE <<Store("nft", a.asset, a.new_owner)>>
      [] OTHER -> Fail("program")

CreateLinkSteps(L, ix) ==
    LET a == ix.accounts
        sol == ix.op = "create_sol_link"
        mint == IF sol THEN NoMint ELSE a.mint[1]
        link == [sender |-> a.sender, claimKey |-> a.claim_key, mint |-> mint,
                 amount |-> ix.args.amount, expiry |-> ix.args.expiry]
    IN  IF \/ a.claim \in DOMAIN L.links
           \/ ~Derived(a.claim)
           \/ ~sol /\ ~Derived(a.vault)
           \/ ix.args.expiry <= L.now
           \/ ix.args.amount < (IF sol THEN MinSystem ELSE 1)
        THEN Fail("program")
        ELSE <<Step("pay", a.sender, a.claim, LinkRent), Store("link", a.claim, link)>>
             \o (IF sol THEN <<Step("pay", a.sender, a.claim, ix.args.amount)>>
                 ELSE <<Step("open", a.sender, a.vault, 0),
                        Step("move", a.sender_token, a.vault, ix.args.amount)>>)

SettleLinkSteps(L, ix) ==
    LET a == ix.accounts
        claims == ix.op \in {"claim_sol_link", "claim_token_link"}
        sol == ix.op \in {"claim_sol_link", "refund_sol_link"}
        wipe == <<Step("wipe", a.claim, a.sender, 0)>>
    IN  IF a.claim \notin DOMAIN L.links THEN Fail("program")
        ELSE LET link == L.links[a.claim] IN
             IF \/ link.sender # a.sender
                \/ (link.mint = NoMint) # sol
                \/ claims /\ (L.now > link.expiry \/ link.claimKey # a.claim_key)
             THEN Fail("program")
             ELSE IF sol THEN When(claims, <<Step("pay", a.claim, a.recipient, link.amount)>>) \o wipe
             ELSE <<Step("move", a.vault, IF claims THEN a.recipient_token ELSE a.sender_token,
                         At(L.tokens, a.vault)),
                    Step("close", a.vault, a.sender, 0)>> \o wipe

SwapSteps(L, ix) ==
    LET a == ix.accounts
        atob == ix.args.a_to_b
        vaultIn == IF atob THEN a.vault_a ELSE a.vault_b
        vaultOut == IF atob THEN a.vault_b ELSE a.vault_a
        out == swap_output(At(L.tokens, vaultIn), At(L.tokens, vaultOut), ix.args.amount_in, PoolFee)
    IN  IF \/ ~SwapAccepts(At(L.tokens, vaultIn), At(L.tokens, vaultOut), ix.args.amount_in, PoolFee)
           \/ out = 0 \/ out < ix.args.min_amount_out
        THEN Fail("slippage")
        ELSE <<Step("move", IF atob THEN a.user_a ELSE a.user_b, vaultIn, ix.args.amount_in),
               Step("move", vaultOut, IF atob THEN a.user_b ELSE a.user_a, out)>>

CreateLockSteps(L, ix) ==
    LET a == ix.accounts
        t == ix.args
        lock == [sender |-> a.sender, recipient |-> a.recipient, mint |-> a.mint[1], seed |-> t.seed,
                 total |-> t.amount, withdrawn |-> 0, start |-> t.start, cliff |-> t.cliff,
                 end |-> t.end, cancellable |-> t.cancellable]
    IN  IF \/ a.timelock \in DOMAIN L.locks
           \/ ~Derived(a.timelock) \/ ~Derived(a.vault)
           \/ t.amount = 0
           \/ ~(t.start <= t.cliff /\ t.cliff <= t.end /\ t.end > L.now)
        THEN Fail("program")
        ELSE <<Step("pay", a.sender, a.timelock, LockRent), Step("open", a.sender, a.vault, 0),
               Step("move", a.sender_token, a.vault, t.amount), Store("lock", a.timelock, lock)>>

LockVested(lock, at) == VestedAmount(lock.total, lock.start, lock.cliff, lock.end, at)

WithdrawSteps(L, ix) ==
    LET a == ix.accounts IN
    IF a.timelock \notin DOMAIN L.locks THEN Fail("program")
    ELSE LET lock == L.locks[a.timelock]
             claimable == Monus(LockVested(lock, L.now), lock.withdrawn)
             over == LockVested(lock, L.now) >= lock.total
         IN  IF claimable = 0 THEN Fail("program")
             ELSE <<Step("move", a.vault, a.recipient_token,
                         IF over THEN At(L.tokens, a.vault) ELSE claimable)>>
                  \o (IF over
                      THEN <<Step("close", a.vault, a.sender, 0), Step("wipe", a.timelock, a.sender, 0)>>
                      ELSE <<Store("lock", a.timelock, [lock EXCEPT !.withdrawn = @ + claimable])>>)

CancelSteps(L, ix) ==
    LET a == ix.accounts IN
    IF a.timelock \notin DOMAIN L.locks THEN Fail("program")
    ELSE LET lock == L.locks[a.timelock]
             vested == LockVested(lock, L.now)
             owed == Monus(vested, lock.withdrawn)
             frozen == [lock EXCEPT !.total = vested, !.start = Earlier(@, L.now),
                                    !.cliff = Earlier(@, L.now), !.end = L.now, !.cancellable = FALSE]
         IN  IF ~lock.cancellable THEN Fail("program")
             ELSE <<Step("move", a.vault, a.sender_token, Monus(At(L.tokens, a.vault), owed))>>
                  \o (IF owed = 0
                      THEN <<Step("close", a.vault, a.sender, 0), Step("wipe", a.timelock, a.sender, 0)>>
                      ELSE <<Store("lock", a.timelock, frozen)>>)

WalletSteps(L, ix) ==
    CASE ix.op \in {"create_sol_link", "create_token_link"} -> CreateLinkSteps(L, ix)
      [] ix.op \in {"claim_sol_link", "claim_token_link", "refund_sol_link", "refund_token_link"} ->
            SettleLinkSteps(L, ix)
      [] ix.op = "swap" -> SwapSteps(L, ix)
      [] ix.op = "create_timelock" -> CreateLockSteps(L, ix)
      [] ix.op = "withdraw_timelock" -> WithdrawSteps(L, ix)
      [] ix.op = "cancel_timelock" -> CancelSteps(L, ix)
      [] ix.op = "announce" -> <<Store("emit", <<>>, ix.args)>>
      [] OTHER -> Fail("program")

Steps(L, ix) ==
    IF ix.program = "core" THEN NftSteps(L, ix)
    ELSE IF ix.program \in {"system", "token", "ata"} THEN SystemSteps(L, ix)
    ELSE WalletSteps(L, ix)

(* The ledger after one thing after another. *)
Through(op(_, _), L, list) ==
    LET ran[n \in 0 .. Len(list)] == IF n = 0 THEN L ELSE op(ran[n - 1], list[n])
    IN  ran[Len(list)]

Run(L, steps) == Through(Do, L, steps)

(* Whose signature the program asks for. *)
SignerNames(ix) ==
    IF ix.program = "core" THEN {"payer"} \cup (IF ix.op = "create" THEN {"asset"} ELSE {})
    ELSE CASE ix.op = "transfer" -> {"from"}
           [] ix.op = "create_idempotent" -> {"payer"}
           [] ix.op = "transfer_checked" -> {"authority"}
           [] ix.op = "close" -> {"owner"}
           [] ix.op = "sync_native" -> {}
           [] OTHER -> IdlSigners(ix.op)
Unsigned(ix) == \E name \in SignerNames(ix) : ix.accounts[name] \notin ix.signers

Execute(L, ix) ==
    IF ~L.ok THEN L
    ELSE IF Unsigned(ix) THEN Refuse(L, "signature")
    ELSE Run(L, Steps(L, ix))

-----------------------------------------------------------------------------
(* Transactions: a payer, those who have signed and a list of instructions.*)

IsTransaction(tx) == tx.ixs \in Seq(Range(tx.ixs)) /\ IsFiniteSet(tx.signed)

Charged(L, payer, signed) ==
    LET fee == NetworkFee({payer} \cup signed)
    IN  IF At(L.lamports, payer) < fee THEN Refuse(L, "funds")
        ELSE [L EXCEPT !.lamports[payer] = @ - fee]

(* An account that only holds lamports must hold none or the minimum. *)
Dust(L, account) == At(L.lamports, account) \in 1 .. MinSystem - 1

ExecuteAll(L, ixs) == Through(Execute, L, ixs)

(* The fee is paid first; all that needs to be signed must be; and nobody  *)
(* may be left with dust.                                                  *)
Transaction(L, payer, signed, ixs) ==
    LET ran == ExecuteAll(Charged(L, payer, signed), ixs)
        needed == UNION {ixs[i].signers : i \in DOMAIN ixs}
        touched == {a \in DOMAIN ran.lamports : Len(a) = 1 /\ At(L.lamports, a) # ran.lamports[a]}
    IN  IF ~(needed \subseteq {payer} \cup signed) THEN Refuse(L, "signature")
        ELSE IF ~ran.ok THEN ran
        ELSE IF Dust(ran, payer) THEN Refuse(ran, "payer dust")
        ELSE IF \E a \in touched : Dust(ran, a) THEN Refuse(ran, "dust")
        ELSE ran

(* What an account is worth to its owner, in one asset. *)
Holding(L, owner, mint) ==
    IF mint = NoMint THEN At(L.lamports, owner)
    ELSE At(L.tokens, findAssociatedTokenAddress(owner, mint))
=============================================================================
