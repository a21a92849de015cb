-------------------------------- MODULE Pages --------------------------------
(***************************************************************************)
(* The pages of the wallet at work: a form and a list of rows, filled from *)
(* balances and lists fetched before; a press of a button, checked against *)
(* what the page shows and then against the network; a transaction built,  *)
(* submitted and waited for; and meanwhile the chain moving on.            *)
(***************************************************************************)
EXTENDS SendPage, SwapPage, LocksPage, ClaimPage, StealthPage, NftPage, Activity

CONSTANTS
    PageNames,              \* the pages looked at, one per behaviour
    Starts,                 \* [page -> what to start from: a ledger, a clock, a budget of
                            \* presses and one of faults, moves of others and ticks]
    Forms,                  \* [page -> what may be typed and picked]
    Elsewhere(_, _),        \* (ledger, page): transactions of others
    Keys, Secret, Nft,      \* this wallet's stealth keys; the secret and the NFT of the URL
    Secrets                 \* what the random generator yields, in order

AllPages == {"send", "swap", "locks", "links", "claim", "stealth", "mint", "nft"}

ASSUME PagesAssumption ==
    /\ PageNames \subseteq AllPages
    /\ \A p \in PageNames : \A start \in Starts[p] :
          IsLedger(start.chain) /\ start.chain.ok /\ Funded(start.chain)

ASSUME KeysAssumption ==
    /\ Keys.spend \in Nat /\ Keys.scan \in Nat
    /\ Keys = stealthKeysFromSeeds(Keys.spend, Keys.scan)

VARIABLES
    page,
    skew,       \* the clock of the browser against the clock of the chain
    chain,
    cache,      \* what the queries last answered
    form,
    job,        \* the handler at work for the form and for a row
    notice,     \* what is shown for them
    sent,       \* the transactions broadcast
    left        \* how many presses and events may still happen

vars == <<page, skew, chain, cache, form, job, notice, sent, left>>

me == Key("me")
Slots == {"form", "row"}
clock == chain.now + skew
Fresh == Secrets[Len(sent) + 1]

-----------------------------------------------------------------------------
(* What differs from page to page.                                         *)

ListOf(L) ==
    CASE page = "swap" -> usePools(L)
      [] page = "locks" -> [recipient |-> fetchTimelocks(L, "recipient", me),
                            sender |-> fetchTimelocks(L, "sender", me)]
      [] page = "links" -> fetchMyLinks(L, me)
      [] page = "claim" -> fetchLink(L, claimKeyOf(Secret))
      [] page = "stealth" -> withFunds(L, Keys)
      [] page = "nft" -> fetchNfts(L, me)
      [] OTHER -> {}

Seen(L) == [assets |-> useAssets(L, me), list |-> ListOf(L)]

EmptyForm(p) ==
    CASE p = "send" -> SendEmpty
      [] p = "swap" -> SwapEmpty
      [] p = "locks" -> LockEmpty
      [] p = "links" -> LinkEmpty
      [] p = "claim" -> ClaimEmpty
      [] p = "stealth" -> StealthEmpty
      [] p = "mint" -> MintEmpty
      [] p = "nft" -> GiftEmpty

Edits ==
    IF page = "swap" THEN SwapEdits(form, Forms["swap"].amounts, Forms["swap"].slippages, cache.list)
    ELSE Forms[page]

HasMax == page \in {"send", "swap", "locks", "links"}
MaxOf ==
    CASE page = "send" -> SendMax(form, cache.assets)
      [] page = "swap" -> SwapMax(form, cache.assets)
      [] page = "locks" -> LockMax(form, cache.assets)
      [] page = "links" -> LinkMax(form, cache.assets)
MaxAsset == IF page = "swap" THEN form.from ELSE form.asset
MaxText == ReadBack(MaxOf, MaxAsset)
WithMax ==
    IF page = "swap" THEN [form EXCEPT !.amount = MaxText, !.acknowledged = FALSE]
    ELSE [form EXCEPT !.amount = MaxText]

FormPressed ==
    CASE page = "send" -> SendPressed(form, cache.assets, me)
      [] page = "swap" -> SwapPressed(form, cache.assets, cache.list)
      [] page = "locks" -> LockPressed(form, cache.assets, clock, Fresh)
      [] page = "links" -> LinkPressed(form, cache.assets)
      [] page = "claim" -> ClaimPressed(form, cache.list, Secret, clock)
      [] page = "stealth" -> PayPressed(form, cache.assets, (1 + Len(sent)) % Order)
      [] page = "mint" -> MintPressed(form)
      [] page = "nft" -> GiftPressed(form, Nft, me)

(* The buttons of the rows that can be pressed. *)
Destination == IF form.dest = <<>> THEN me ELSE form.dest
OffersOf(list) ==
    CASE page = "locks" -> WithdrawOffers(list.recipient, clock, chain.now) \cup CancelLockOffers(list.sender, clock)
      [] page = "links" -> CancelLinkOffers(list)
      [] page = "stealth" -> SweepOffers(list, Destination)
      [] OTHER -> {}

RowPressed(t) == IF t.kind = "sweep" THEN SweepPressed(t) ELSE GoOn(t)

Checked(L, t) ==
    CASE t.kind = "send" -> SendChecked(L, t, me)
      [] t.kind = "link" -> LinkChecked(t, clock, Fresh)
      [] t.kind = "stealth pay" -> PayChecked(t)
      [] t.kind = "sweep" -> SweepChecked(L, t)
      [] t.kind = "mint" -> MintChecked(L, t, me, Fresh)
      [] t.kind = "gift" -> GiftChecked(L, t, me)
      [] OTHER -> GoOn(t)

(* sendInstructions: this account pays and signs. *)
Mine(ixs) == [payer |-> me, signed |-> {me}, ixs |-> ixs]

Built(L, t) ==
    CASE t.kind = "send" -> Mine(SendInstructions(L, t, me))
      [] t.kind = "swap" -> Mine(buildSwapInstructions(t, me))
      [] t.kind = "lock" -> Mine(buildCreateLockInstructions(t, me))
      [] t.kind = "withdraw" -> Mine(buildWithdrawInstructions(t.lock))
      [] t.kind = "cancel lock" -> Mine(buildCancelLockInstructions(t.lock))
      [] t.kind = "link" -> Mine(buildCreateLinkInstructions(t, me))
      [] t.kind = "cancel link" -> Mine(buildCancelInstructions(t.link))
      [] t.kind = "claim" -> buildRelayableTransaction(t)
      [] t.kind = "stealth pay" -> Mine(planStealthPayment(t, me))
      [] t.kind = "sweep" -> buildScalarSignedTransaction(L, t)
      [] t.kind = "mint" -> [Mine(buildMint(t, me)) EXCEPT !.signed = @ \cup {t.nft}]
      [] t.kind = "gift" -> Mine(buildSend(t, me))

Kept(before, after, t) ==
    CASE t.kind = "send" -> SendKept(before, after, t, me)
      [] t.kind = "swap" -> SwapKept(before, after, t, me)
      [] t.kind = "lock" -> LockKept(before, after, t, me)
      [] t.kind = "withdraw" -> WithdrawKept(before, after, t, me)
      [] t.kind = "cancel lock" -> CancelLockKept(before, after, t, me)
      [] t.kind = "link" -> LinkKept(before, after, t, me)
      [] t.kind = "cancel link" -> CancelLinkKept(before, after, t, me)
      [] t.kind = "claim" -> ClaimKept(before, after, t)
      [] t.kind = "stealth pay" -> PayKept(before, after, t)
      [] t.kind = "sweep" -> SweepKept(before, after, t)
      [] t.kind = "mint" -> MintKept(before, after, t, me)
      [] t.kind = "gift" -> GiftKept(after, t)

-----------------------------------------------------------------------------
(* What the network does with a transaction.                               *)

Ran(L, tx) == Transaction(L, tx.payer, tx.signed, tx.ixs)

(* The refusal of a submission: by the relayer's rules if it is to sign, or *)
(* by the simulation before the broadcast.                                 *)
Relayed(tx) == relayer \in {tx.payer} \cup tx.signed
Refusal(L, tx) ==
    LET relayed == IF Relayed(tx) THEN relayRefusal(L, tx) ELSE "" IN
    IF relayed # "" THEN relayed ELSE Ran(L, tx).why

(* A transaction that fails on the chain still pays its fee. *)
OnlyCharged(L, tx) ==
    LET charged == Charged(L, tx.payer, tx.signed) IN IF charged.ok THEN charged ELSE L

Idle == [step |-> "idle", terms |-> <<>>, tx |-> <<>>, fresh |-> FALSE, at |-> 0]
Working(s) == job[s].step \in {"checking", "sending", "confirming"}

Nothing == [kind |-> "none", why |-> "", fresh |-> FALSE, at |-> 0]
Told(kind, why, j) == [kind |-> kind, why |-> why, fresh |-> j.fresh, at |-> j.at]

(* Some pages show a review before they send. *)
Reviewed(t) == t.kind \in {"send", "gift"}

(* finally: the button is given back; a review that was confirmed stays.   *)
Answered(j) ==
    IF j.step # "checking" /\ Reviewed(j.terms)
    THEN [Idle EXCEPT !.step = "review", !.terms = j.terms] ELSE Idle

(* A chain that has moved makes what a handler knows old; only a lock is   *)
(* meant to stand the passing of time.                                     *)
Outdated(j) == [j EXCEPT !.fresh = FALSE]
Aged(j) == IF j.step # "idle" /\ j.terms.kind = "lock" THEN j ELSE Outdated(j)

ChainBecomes(L) ==
    /\ chain' = L
    /\ job' = [s \in Slots |-> Outdated(job[s])]

Spend(what) == left[what] > 0 /\ left' = [left EXCEPT ![what] = @ - 1]

-----------------------------------------------------------------------------
(* The page.                                                               *)

PagesInit ==
    /\ page \in PageNames
    /\ \E start \in Starts[page] : chain = start.chain /\ skew = start.skew /\ left = start.left
    /\ cache = Seen(chain)
    /\ form = EmptyForm(page)
    /\ job = [s \in Slots |-> Idle]
    /\ notice = [s \in Slots |-> Nothing]
    /\ sent = <<>>

(* The form is there unless a review or a receipt is in its place, or the  *)
(* NFT of the page is not listed.  The bounds: nothing is typed while a    *)
(* handler works, which has read it (but the review of an NFT, which reads *)
(* the address again, has its field open while it checks); and the longer  *)
(* forms are filled in once, until they are cleared.                       *)
PageShown == notice["form"].kind # "done" /\ (page = "nft" => Nft \in cache.list)
Cleared(f) == IF page \in {"locks", "links", "stealth"} THEN [f EXCEPT !.amount = Empty] ELSE f
FormShown == job["form"].step = "idle" /\ PageShown /\ left.press > 0

Fill ==
    /\ \/ FormShown
       \/ page = "nft" /\ PageShown /\ job["form"].step = "checking"
    /\ page \in {"locks", "links", "stealth"} => form = Cleared(form)
    /\ form' \in Edits
    /\ UNCHANGED <<page, skew, chain, cache, job, notice, sent, left>>

UseMax ==
    /\ FormShown /\ HasMax
    /\ form' = WithMax
    /\ UNCHANGED <<page, skew, chain, cache, job, notice, sent, left>>

Start(s, answer) ==
    LET fresh == cache = Seen(chain) IN
    /\ Spend("press")
    /\ IF answer.error # ""
       THEN /\ notice' = [notice EXCEPT ![s] = [Nothing EXCEPT !.kind = "refused", !.why = answer.error]]
            /\ UNCHANGED job
       ELSE /\ notice' = [notice EXCEPT ![s] = Nothing]
            /\ job' = [job EXCEPT ![s] = [Idle EXCEPT !.step = "checking", !.terms = answer.terms,
                                                      !.fresh = fresh]]
    /\ UNCHANGED <<page, skew, chain, cache, form, sent>>

PressForm == FormShown /\ Start("form", FormPressed)

(* A link whose cancellation has been confirmed has a busy row until it    *)
(* leaves the list.                                                        *)
StaysBusy(t) == t.kind = "cancel link" /\ \E i \in DOMAIN sent : sent[i].seen /\ sent[i].terms = t

PressRow(t) == job["row"].step = "idle" /\ ~StaysBusy(t) /\ Start("row", RowPressed(t))

(* The awaited reads of the network; then the transaction is built, or a   *)
(* review is shown.                                                        *)
Check(s) ==
    /\ job[s].step = "checking"
    /\ LET answer == Checked(chain, job[s].terms)
           next == [job[s] EXCEPT !.terms = answer.terms]
       IN  IF answer.error # ""
           THEN /\ notice' = [notice EXCEPT ![s] = Told("refused", answer.error, job[s])]
                /\ job' = [job EXCEPT ![s] = Answered(@)]
           ELSE /\ job' = [job EXCEPT ![s] =
                       IF Reviewed(answer.terms) THEN [next EXCEPT !.step = "review"]
                       ELSE [next EXCEPT !.step = "sending", !.tx = Built(chain, answer.terms)]]
                /\ UNCHANGED notice
    /\ UNCHANGED <<page, skew, chain, cache, form, sent, left>>

(* An NFT goes to the address the field holds now, if it is one. *)
Reread(t) == IF t.kind = "gift" THEN [t EXCEPT !.to = form.to] ELSE t
ReviewShown == job["form"].step = "review" /\ PageShown

Confirm ==
    /\ ReviewShown
    /\ Spend("press")
    /\ LET t == Reread(job["form"].terms) IN
       IF validAddress(t.to)
       THEN /\ job' = [job EXCEPT !["form"].step = "sending", !["form"].terms = t, !["form"].tx = Built(chain, t)]
            /\ notice' = [notice EXCEPT !["form"] = Nothing]
       ELSE /\ notice' = [notice EXCEPT !["form"] = Told("refused", "address", job["form"])]
            /\ UNCHANGED job
    /\ UNCHANGED <<page, skew, chain, cache, form, sent>>

Back ==
    /\ ReviewShown
    /\ job' = [job EXCEPT !["form"] = Idle]
    /\ UNCHANGED <<page, skew, chain, cache, form, notice, sent, left>>

Broadcast(s) ==
    sent' = Append(sent, [terms |-> job[s].terms, tx |-> job[s].tx, status |-> "pending",
                           kept |-> FALSE, told |-> TRUE, seen |-> FALSE])

Submit(s) ==
    /\ job[s].step = "sending"
    /\ LET why == Refusal(chain, job[s].tx) IN
       IF why # ""
       THEN /\ notice' = [notice EXCEPT ![s] = Told("rejected", why, job[s])]
            /\ job' = [job EXCEPT ![s] = Answered(@)]
            /\ UNCHANGED sent
       ELSE /\ Broadcast(s)
            /\ job' = [job EXCEPT ![s].step = "confirming", ![s].at = Len(sent) + 1]
            /\ UNCHANGED notice
    /\ UNCHANGED <<page, skew, chain, cache, form, left>>

(* The answer to a submission is lost: the transaction is on its way.      *)
AnswerLost(s) ==
    /\ job[s].step = "sending" /\ Refusal(chain, job[s].tx) = ""
    /\ Spend("event")
    /\ Broadcast(s)
    /\ notice' = [notice EXCEPT ![s] = Told("unsure", "offline", job[s])]
    /\ job' = [job EXCEPT ![s] = Answered(@)]
    /\ UNCHANGED <<page, skew, chain, cache, form>>

(* Any call may fail; what it throws ends the handler, and is shown, except *)
(* by the review of an NFT.                                                *)
CallFails(s) ==
    /\ Working(s)
    /\ Spend("event")
    /\ notice' = IF job[s].step = "checking" /\ job[s].terms.kind = "gift" THEN notice
                 ELSE [notice EXCEPT ![s] = Told("unsure", "offline", job[s])]
    /\ job' = [job EXCEPT ![s] = Answered(@)]
    /\ UNCHANGED <<page, skew, chain, cache, form, sent>>

(* confirmSignature: a status with an error, a status without one, or a    *)
(* minute without any.                                                     *)
StatusOfAny(i) == IF sent[i].status = "failed" THEN "ok" ELSE sent[i].status
StatusOf(i) == sent[i].status

Polled(s) ==
    /\ job[s].step = "confirming"
    /\ LET j == job[s] IN
       \/ /\ StatusOf(j.at) = "ok"
          /\ notice' = [notice EXCEPT ![s] = Told("done", "", j)]
          /\ job' = [job EXCEPT ![s] = Idle]
          /\ form' = IF s = "form" THEN Cleared(form) ELSE form
          /\ sent' = [sent EXCEPT ![j.at].seen = TRUE]
       \/ /\ StatusOf(j.at) = "failed"
          /\ notice' = [notice EXCEPT ![s] = Told("failed", "", j)]
          /\ job' = [job EXCEPT ![s] = Answered(@)]
          /\ UNCHANGED <<form, sent>>
       \/ /\ StatusOf(j.at) \in {"pending", "dropped"}
          /\ notice' = [notice EXCEPT ![s] = Told("unsure", "may still go through", j)]
          /\ job' = [job EXCEPT ![s] = Answered(@)]
          /\ UNCHANGED <<form, sent>>
    /\ UNCHANGED <<page, skew, chain, cache, left>>

GoesOn(s) == Check(s) \/ Submit(s) \/ Polled(s)

(* "Send another" and the like, on a receipt; a claim or an NFT has none.  *)
Reset ==
    /\ notice["form"].kind = "done" /\ page \notin {"claim", "nft"}
    /\ notice' = [notice EXCEPT !["form"] = Nothing]
    /\ form' = CASE page = "send" -> [form EXCEPT !.to = <<>>, !.amount = Empty]
                 [] page = "swap" -> [form EXCEPT !.amount = Empty, !.acknowledged = FALSE]
                 [] page = "mint" -> MintEmpty
                 [] OTHER -> form
    /\ UNCHANGED <<page, skew, chain, cache, job, sent, left>>

Refetch ==
    /\ left.press > 0
    /\ \/ cache' = [cache EXCEPT !.assets = useAssets(chain, me)]
       \/ cache' = [cache EXCEPT !.list = ListOf(chain)]
    /\ cache' # cache
    /\ UNCHANGED <<page, skew, chain, form, job, notice, sent, left>>

-----------------------------------------------------------------------------
(* The chain.                                                              *)

(* How the history of this wallet lists a transaction that succeeded.  An  *)
(* account for wrapped SOL that is closed by a swap blurs its line.        *)
Listed(before, after, one) ==
    \/ one.terms.kind = "swap" /\ hasTokenAccount(before, me, Wsol)
    \/ ItemTells(getHistory(before, after, one.tx, me), one.terms, me)

Land(i) ==
    /\ sent[i].status = "pending"
    /\ LET after == Ran(chain, sent[i].tx) IN
       IF after.ok
       THEN /\ ChainBecomes(after)
            /\ sent' = [sent EXCEPT ![i].status = "ok", ![i].kept = Kept(chain, after, sent[i].terms),
                                    ![i].told = Listed(chain, after, sent[i])]
       ELSE /\ ChainBecomes(OnlyCharged(chain, sent[i].tx))
            /\ sent' = [sent EXCEPT ![i].status = "failed"]
    /\ UNCHANGED <<page, skew, cache, form, notice, left>>

Drop(i) ==
    /\ sent[i].status = "pending"
    /\ Spend("event")
    /\ sent' = [sent EXCEPT ![i].status = "dropped"]
    /\ UNCHANGED <<page, skew, chain, cache, form, job, notice>>

SomebodyElse ==
    /\ Spend("event")
    /\ \E tx \in Elsewhere(chain, page) :
          /\ IsTransaction(tx) /\ Refusal(chain, tx) = ""
          /\ ChainBecomes(Ran(chain, tx))
    /\ UNCHANGED <<page, skew, cache, form, notice, sent>>

Tick ==
    /\ Spend("event")
    /\ chain' = [chain EXCEPT !.now = @ + 1]
    /\ job' = [s \in Slots |-> Aged(job[s])]
    /\ UNCHANGED <<page, skew, cache, form, notice, sent>>

PagesNext ==
    \/ Fill \/ UseMax \/ PressForm \/ Confirm \/ Back \/ Reset \/ Refetch
    \/ \E t \in OffersOf(cache.list) : PressRow(t)
    \/ \E s \in Slots : GoesOn(s) \/ AnswerLost(s) \/ CallFails(s)
    \/ \E i \in DOMAIN sent : Land(i) \/ Drop(i)
    \/ SomebodyElse \/ Tick

PagesSpec == PagesInit /\ [][PagesNext]_vars

-----------------------------------------------------------------------------
(* Properties.                                                             *)

(* A receipt is only shown for a transaction that is on the chain, and a   *)
(* failure only for one that has failed there for good, though the network *)
(* may confirm late or never (confirmSignature in rpc.ts).                 *)
ReceiptsAreReal ==
    \A s \in Slots :
        /\ notice[s].kind \in {"done", "failed"} => notice[s].at \in DOMAIN sent
        /\ notice[s].kind = "done" => sent[notice[s].at].status = "ok"
        /\ notice[s].kind = "failed" => sent[notice[s].at].status = "failed"

(* What a receipt is shown for did what the page promised: the amount      *)
(* arrived, the minimum came back, the secret opens a link, the lock is    *)
(* the one on the form, though prices, accounts and links change between   *)
(* the press and the block (the handlers that wait for a confirmation).    *)
PromisesKept ==
    \A s \in Slots : notice[s].kind = "done" => sent[notice[s].at].kept

(* What a page lets through on fresh data the network takes too: its own   *)
(* checks, reserves and margins are enough for the deposits, the fees and  *)
(* the clock.  But the SOL left over may be too little for an account to   *)
(* have, and the buttons of rows do not ask for SOL for the fee            *)
(* (SOL_RESERVE and MIN_LEAD_SECONDS, prepare in Send.tsx, planSweep).     *)
FreshFormsGoThrough ==
    \A s \in Slots :
        notice[s].kind = "rejected" /\ notice[s].fresh =>
            \/ notice[s].why \in {"payer dust", "out of funds"}
            \/ s = "row" /\ (notice[s].why = "funds" \/ skew > 0)

(* Whatever the lists would show, every one of their buttons would work    *)
(* now: an open link of mine, expired or with its secret lost, and a lock  *)
(* of mine can be taken back, and a lock for me taken out, with nothing    *)
(* but what the page fetches, and what comes back is all that is due.      *)
(* Unless there is no SOL for the fee and the account                      *)
(* (buildCancelInstructions, buildWithdrawInstructions).                   *)
RowsAreGood ==
    \A t \in {o \in OffersOf(ListOf(chain)) : o.kind # "sweep"} :
        LET after == Ran(chain, Built(chain, t)) IN
        IF after.ok THEN Kept(chain, after, t)
        ELSE after.why \in {"funds", "payer dust"} \/ skew > 0

(* No transaction of mine leaves a wrapped SOL account of mine behind      *)
(* (closeTokenAccount at the end of swaps and locks of SOL).               *)
MovesSol(t) ==
    CASE t.kind = "swap" -> TRUE
      [] t.kind = "lock" -> t.asset = Sol
      [] t.kind \in {"withdraw", "cancel lock"} -> t.lock.mint = Wsol
      [] OTHER -> FALSE
NothingLeftWrapped ==
    [][\A i \in DOMAIN sent :
          sent[i].status = "pending" /\ sent'[i].status = "ok" /\ MovesSol(sent[i].terms)
          => ~hasTokenAccount(chain', me, Wsol)]_vars

(* The relayer pays for claims and nothing else: whatever it is handed, no *)
(* step takes more from it than the fee of as many signatures as there is  *)
(* room for and the deposit of one token account; and what the wallet      *)
(* sends never costs it more than two signatures and that deposit          *)
(* (checkRelayTransaction, buildRelayableTransaction).                     *)
RelayerPays == At(chain.lamports, relayer) - At(chain'.lamports, relayer)
RelayerOnlyPays ==
    [][/\ RelayerPays <= MaxSignatures * SignatureFee + TokenRent
       /\ sent' # sent => RelayerPays <= 2 * SignatureFee + TokenRent]_vars

(* Every payment made to this wallet's stealth address is found, as long   *)
(* as the feed is not longer than what is downloaded, and whatever is      *)
(* found comes with the key of the address it lies at, although anybody    *)
(* can put anything into the feed                                          *)
(* (createStealthPayment against scanAnnouncement).                        *)
PaidBy(i) == sent[i].terms.kind = "stealth pay" /\ sent[i].status = "ok"
Found == {p.address : p \in scanFeed(chain, Keys)}
PaymentsFound ==
    /\ Len(chain.feed) <= FeedLimit =>
          \A i \in DOMAIN sent :
              PaidBy(i) /\ sent[i].terms.meta = metaOf(Keys) => stealthAddressOf(sent[i].terms) \in Found
    /\ \A p \in scanFeed(chain, Keys) :
          p.address = publicKeyToAddress(publicKeyFromScalar(p.scalar))

(* The history names what a transaction of mine was for and what it moved: *)
(* a swap has the amount paid and what came back, free of fees and         *)
(* deposits, and everything else goes the way its money went               *)
(* (getHistory in rpc.ts, classifyProgramCall).                            *)
ActivityTells == \A i \in DOMAIN sent : sent[i].told

(* "Use max" fills in an amount that the page can read.                    *)
MaxReadsBack == HasMax => MaxText # Unreadable

(* A payment the page has just made can be withdrawn by its recipient to an *)
(* address that is new, as the page advises.                               *)
FreshAddressServes ==
    \A i \in DOMAIN sent :
        sent[i].terms.kind = "stealth pay" /\ sent[i].status = "ok" =>
            \A p \in {q \in scanFeed(chain, Keys) : q.address = stealthAddressOf(sent[i].terms)} :
                SweepChecked(chain, [kind |-> "sweep", payment |-> p, dest |-> Key("fresh")]).error = ""

(* README.md:248: "each relayed claim about 0.00001 SOL", which is the fee  *)
(* of two signatures.  One of a token for somebody who has no account for  *)
(* it also costs the relayer the deposit of that account.                  *)
ClaimsAreCheap == [][sent' # sent => RelayerPays <= 2 * SignatureFee]_vars
=============================================================================
