----------------------------- MODULE ClaimLinks -----------------------------
(***************************************************************************)
(* Claim links: the six instructions that escrow SOL or tokens behind a    *)
(* throwaway key, pay them out to whoever the holder of that key names, or *)
(* return them to the sender.                                              *)
(*                                                                         *)
(* A link is named by its claim key, the seed of its PDA.  The lamports of *)
(* the PDA are its rent, the escrowed SOL of a SOL link, and whatever      *)
(* anyone transferred to that address, before the link existed too.  The   *)
(* tokens of a token link sit in its vault.  One mint stands for all:      *)
(* has_one = mint ties each instruction to the mint of the link.           *)
(***************************************************************************)
EXTENDS Integers

CONSTANTS
    LinkUsers,  \* wallet owners: senders, recipients and donors
    Keys,       \* claim keys
    LinkAmounts, \* the amounts instructions are called with
    LinkTimes,  \* instants the clock and the expiries take
    LinkGenesis, \* the clock when the model starts
    ClaimRent,  \* rent of a ClaimLink account
    VaultRent,  \* rent of a vault token account
    MinSol,     \* Rent::minimum_balance(0), the rent of an empty account
    SolFunds,   \* lamports and tokens each user starts with
    TokenFunds

ASSUME AmountsOfLinks == LinkAmounts \subseteq Nat
ASSUME TimesOfLinks == LinkTimes \subseteq Int /\ LinkGenesis \in LinkTimes
ASSUME LinkRents ==
    /\ ClaimRent \in Nat /\ VaultRent \in Nat /\ MinSol \in Nat \ {0}
    /\ MinSol <= ClaimRent
ASSUME LinkFunds == SolFunds \in [LinkUsers -> Nat] /\ TokenFunds \in [LinkUsers -> Nat]

VARIABLES
    clock,      \* Clock::get()?.unix_timestamp
    link,       \* the ClaimLink accounts: a function on the keys in use
    lamports,   \* balance of each link's PDA
    vaults,     \* token balance of each link's vault (0 when there is none)
    sol,        \* lamports and tokens of each user
    tokens,
    past        \* where the assets of each link came from and went, since
                \* it was last created

linkVars == <<clock, link, lamports, vaults, sol, tokens, past>>

inUse == DOMAIN link

Link == [sender : LinkUsers, isSol : BOOLEAN, amount : Nat, expiry : Int]

Outcomes == {"none", "open", "claimed", "refunded"}

Flow == [in : Nat, gift : Nat, paid : Nat, back : Nat]
NoFlow == [in |-> 0, gift |-> 0, paid |-> 0, back |-> 0]

(* in: paid in by the sender; gift: by donors; paid: to the recipient of a *)
(* claim; back: to the sender.                                             *)
LinkHistory == [outcome : Outcomes, amount : Nat, isSol : BOOLEAN,
                lamports : Flow, tokens : Flow]
NoLinkHistory == [outcome |-> "none", amount |-> 0, isSol |-> FALSE,
                  lamports |-> NoFlow, tokens |-> NoFlow]

LinksInit ==
    /\ clock = LinkGenesis
    /\ link = [k \in {} |-> 0]
    /\ lamports = [k \in Keys |-> 0]
    /\ vaults = [k \in Keys |-> 0]
    /\ sol = SolFunds
    /\ tokens = TokenFunds
    /\ past = [k \in Keys |-> NoLinkHistory]

-----------------------------------------------------------------------------
(* Constraints and amounts.  Faulty variants stand before the definition   *)
(* they replace in the checks of PROJECT.json.                             *)

LinkVacantAnyway(k) == TRUE

(* The `init' constraint: the account must not exist yet. *)
LinkVacant(k) == k \notin inUse

KindAny(k, isSol) == TRUE

(* constraint = claim.is_sol(), or its negation: LinkTypeMismatch. *)
Kind(k, isSol) == link[k].isSol = isSol

InTimeAlways(k) == TRUE

(* A claim at the second of the expiry is the last one: ClaimExpired after. *)
InTime(k) == clock <= link[k].expiry

(* `init' takes from the payer what the address lacks to be rent-exempt. *)
RentDue(k) == IF ClaimRent > lamports[k] THEN ClaimRent - lamports[k] ELSE 0

EscrowNet(k, amount) == amount - RentDue(k)

(* What create_sol_link transfers to the PDA on top of the rent. *)
Escrow(k, amount) == amount

SolPayoutAll(k) == lamports[k]

(* What claim_sol_link pays; the rest of the balance closes to the sender. *)
SolPayout(k) == link[k].amount

-----------------------------------------------------------------------------
(* Creation.                                                               *)

Opened(k, sender, isSol, amount, expiry, solIn, tokensIn) ==
    /\ link' = [j \in inUse \cup {k} |->
                   IF j = k THEN [sender |-> sender, isSol |-> isSol,
                                  amount |-> amount, expiry |-> expiry]
                   ELSE link[j]]
    /\ past' = [past EXCEPT ![k] =
                   [outcome |-> "open", amount |-> amount, isSol |-> isSol,
                    lamports |-> [NoFlow EXCEPT !.in = solIn,
                                                !.gift = lamports[k]],
                    tokens |-> [NoFlow EXCEPT !.in = tokensIn]]]

CreateSolLink(sender, k, amount, expiry) ==
    LET cost == RentDue(k) + Escrow(k, amount)
    IN  /\ LinkVacant(k)
        /\ expiry > clock
        /\ amount >= MinSol
        /\ sol[sender] >= cost
        /\ sol' = [sol EXCEPT ![sender] = @ - cost]
        /\ lamports' = [lamports EXCEPT ![k] = @ + cost]
        /\ Opened(k, sender, TRUE, amount, expiry, cost, 0)
        /\ UNCHANGED <<clock, vaults, tokens>>

(* The rent of the vault is paid to the vault account, and flows back when *)
(* it closes; it counts as the link's lamports in the history.             *)
CreateTokenLink(sender, k, amount, expiry) ==
    LET cost == RentDue(k) + VaultRent
    IN  /\ LinkVacant(k)
        /\ amount > 0
        /\ expiry > clock
        /\ sol[sender] >= cost /\ tokens[sender] >= amount
        /\ sol' = [sol EXCEPT ![sender] = @ - cost]
        /\ lamports' = [lamports EXCEPT ![k] = @ + RentDue(k)]
        /\ tokens' = [tokens EXCEPT ![sender] = @ - amount]
        /\ vaults' = [vaults EXCEPT ![k] = @ + amount]
        /\ Opened(k, sender, FALSE, amount, expiry, cost, amount)
        /\ UNCHANGED clock

-----------------------------------------------------------------------------
(* Settlement.                                                             *)

Outflow(flow, paid, back) == [flow EXCEPT !.paid = @ + paid, !.back = @ + back]

(* close = sender: the account's remaining lamports go to the sender.      *)
Closed(k, outcome, solPaid, solBack, tokensPaid, tokensBack) ==
    /\ link' = [j \in inUse \ {k} |-> link[j]]
    /\ lamports' = [lamports EXCEPT ![k] = 0]
    /\ past' = [past EXCEPT ![k] =
                   [past[k] EXCEPT
                       !.outcome = outcome,
                       !.lamports = Outflow(@, solPaid, solBack),
                       !.tokens = Outflow(@, tokensPaid, tokensBack)]]
    /\ UNCHANGED clock

(* Credits two users, who may be one and the same. *)
Credit(balance, u, x, v, y) ==
    [w \in LinkUsers |-> balance[w] + (IF w = u THEN x ELSE 0)
                                    + (IF w = v THEN y ELSE 0)]

ClaimSolLink(k, recipient) ==
    LET rest == lamports[k] - SolPayout(k)
    IN  /\ k \in inUse /\ Kind(k, TRUE)
        /\ InTime(k)
        /\ rest >= 0
        /\ sol' = Credit(sol, recipient, SolPayout(k), link[k].sender, rest)
        /\ Closed(k, "claimed", SolPayout(k), rest, 0, 0)
        /\ UNCHANGED <<vaults, tokens>>

RefundSolLink(k) ==
    /\ k \in inUse /\ Kind(k, TRUE)
    /\ sol' = [sol EXCEPT ![link[k].sender] = @ + lamports[k]]
    /\ Closed(k, "refunded", 0, lamports[k], 0, 0)
    /\ UNCHANGED <<vaults, tokens>>

(* The whole vault is paid out, so that donations cannot keep it open; the *)
(* rent of both accounts returns to the sender.                            *)
ClaimTokenLink(k, recipient) ==
    LET rent == lamports[k] + VaultRent
    IN  /\ k \in inUse /\ Kind(k, FALSE)
        /\ InTime(k)
        /\ tokens' = [tokens EXCEPT ![recipient] = @ + vaults[k]]
        /\ vaults' = [vaults EXCEPT ![k] = 0]
        /\ sol' = [sol EXCEPT ![link[k].sender] = @ + rent]
        /\ Closed(k, "claimed", 0, rent, vaults[k], 0)

RefundTokenLink(k) ==
    LET rent == lamports[k] + VaultRent
    IN  /\ k \in inUse /\ Kind(k, FALSE)
        /\ tokens' = [tokens EXCEPT ![link[k].sender] = @ + vaults[k]]
        /\ vaults' = [vaults EXCEPT ![k] = 0]
        /\ sol' = [sol EXCEPT ![link[k].sender] = @ + rent]
        /\ Closed(k, "refunded", 0, rent, 0, vaults[k])

-----------------------------------------------------------------------------
(* Anyone may send lamports to the PDA's address, at any time (an address  *)
(* must then hold the rent of an empty account), and tokens to the vault   *)
(* of an open token link.                                                  *)

DonateLamports(u, k, amount) ==
    /\ amount > 0 /\ sol[u] >= amount
    /\ lamports[k] + amount >= MinSol
    /\ sol' = [sol EXCEPT ![u] = @ - amount]
    /\ lamports' = [lamports EXCEPT ![k] = @ + amount]
    /\ past' = [past EXCEPT ![k].lamports.gift = @ + amount]
    /\ UNCHANGED <<clock, link, vaults, tokens>>

DonateTokens(u, k, amount) ==
    /\ k \in inUse /\ ~link[k].isSol
    /\ amount > 0 /\ tokens[u] >= amount
    /\ tokens' = [tokens EXCEPT ![u] = @ - amount]
    /\ vaults' = [vaults EXCEPT ![k] = @ + amount]
    /\ past' = [past EXCEPT ![k].tokens.gift = @ + amount]
    /\ UNCHANGED <<clock, link, lamports, sol>>

LinksTick ==
    /\ clock' \in {t \in LinkTimes : t > clock}
    /\ UNCHANGED <<link, lamports, vaults, sol, tokens, past>>

LinksNext ==
    \/ LinksTick
    \/ \E k \in Keys :
        \/ \E u \in LinkUsers, amount \in LinkAmounts, t \in LinkTimes :
              CreateSolLink(u, k, amount, t) \/ CreateTokenLink(u, k, amount, t)
        \/ \E u \in LinkUsers : ClaimSolLink(k, u) \/ ClaimTokenLink(k, u)
        \/ RefundSolLink(k) \/ RefundTokenLink(k)
        \/ \E u \in LinkUsers, amount \in LinkAmounts :
              DonateLamports(u, k, amount) \/ DonateTokens(u, k, amount)

LinksSpec == LinksInit /\ [][LinksNext]_linkVars

-----------------------------------------------------------------------------
(* Properties.                                                             *)

(* Types: no balance and no flow is ever negative. *)
LinksTypeOK ==
    /\ clock \in LinkTimes
    /\ inUse \subseteq Keys /\ link \in [inUse -> Link]
    /\ lamports \in [Keys -> Nat] /\ vaults \in [Keys -> Nat]
    /\ sol \in [LinkUsers -> Nat] /\ tokens \in [LinkUsers -> Nat]
    /\ past \in [Keys -> LinkHistory]

(* An open link can always be claimed and cancelled: its PDA holds the     *)
(* rent and, for SOL, the promised amount; its vault at least the promised *)
(* tokens.  Nothing done before, between or after can eat into either.     *)
NeverOverdrawn ==
    \A k \in inUse :
        IF link[k].isSol THEN lamports[k] >= ClaimRent + link[k].amount
        ELSE lamports[k] >= ClaimRent /\ vaults[k] >= link[k].amount

(* Nothing is stranded: a vault without a link is empty, and of each link  *)
(* every lamport and token that came in went out or is still held.         *)
NothingStranded ==
    \A k \in Keys :
        LET l == past[k].lamports
            t == past[k].tokens
            deposit == IF k \in inUse /\ ~link[k].isSol THEN VaultRent ELSE 0
        IN  /\ k \notin inUse => vaults[k] = 0
            /\ l.in + l.gift = l.paid + l.back + lamports[k] + deposit
            /\ t.in + t.gift = t.paid + t.back + vaults[k]

(* The final account of a link.  Claimed: the recipient got the promised   *)
(* SOL exactly, or all the tokens with their donations; the sender got     *)
(* back the rent of the accounts and the lamports donated.  Refunded: the  *)
(* sender got everything, nobody else anything.                            *)
Settled ==
    \A k \in Keys \ inUse :
        LET h == past[k]
            rent == h.lamports.in - (IF h.isSol THEN h.amount ELSE 0)
        IN  /\ h.outcome # "open"
            /\ h.outcome = "claimed" =>
                  /\ h.lamports.paid = (IF h.isSol THEN h.amount ELSE 0)
                  /\ h.tokens.paid = h.tokens.in + h.tokens.gift
                  /\ h.lamports.back >= rent
            /\ h.outcome = "refunded" =>
                  /\ h.lamports.paid = 0 /\ h.tokens.paid = 0
                  /\ h.lamports.back >= h.lamports.in
                  /\ h.tokens.back = h.tokens.in + h.tokens.gift

(* From the moment a link's expiry has passed, nobody but its sender gets  *)
(* anything out of it.                                                     *)
LateLinksGoHome ==
    [][\A k \in inUse :
          clock > link[k].expiry =>
              /\ past'[k].lamports.paid = 0
              /\ past'[k].tokens.paid = 0]_linkVars

(* Until it is settled a link keeps its terms and its holdings: they never *)
(* shrink, and no second creation replaces them.                           *)
HeldUntilSettled ==
    [][\A k \in inUse :
          \/ past'[k].outcome \in {"claimed", "refunded"} /\ k \notin inUse'
          \/ /\ k \in inUse' /\ link'[k] = link[k]
             /\ lamports'[k] >= lamports[k] /\ vaults'[k] >= vaults[k]]_linkVars
=============================================================================
