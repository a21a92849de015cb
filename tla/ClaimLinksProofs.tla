-------------------------- MODULE ClaimLinksProofs --------------------------
(***************************************************************************)
(* The invariants and action properties of ClaimLinks, proved for any set  *)
(* of users, keys, amounts and instants and any rents.                     *)
(*                                                                         *)
(* Settled speaks of closed links and is only inductive together with what *)
(* an open link must satisfy for its settlement to come out right; Safe(k) *)
(* holds both for one key.                                                 *)
(***************************************************************************)
EXTENDS LinkEscrow, TLAPS

Nothing(flow) == flow.paid = 0 /\ flow.back = 0

(* Every lamport and token that came in went out or is still held. *)
Balanced(k) ==
    LET l == past[k].lamports
        t == past[k].tokens
        deposit == IF k \in inUse /\ ~link[k].isSol THEN VaultRent ELSE 0
    IN  /\ l.in + l.gift = l.paid + l.back + lamports[k] + deposit
        /\ t.in + t.gift = t.paid + t.back + vaults[k]

(* An open link: its history is that of its account, nothing has left it,  *)
(* and it holds what it promises.                                          *)
SafeOpen(k) ==
    /\ past[k].outcome = "open"
    /\ past[k].amount = link[k].amount
    /\ past[k].isSol = link[k].isSol
    /\ Nothing(past[k].lamports) /\ Nothing(past[k].tokens)
    /\ lamports[k] >= ClaimRent
    /\ link[k].isSol => lamports[k] >= ClaimRent + link[k].amount /\ vaults[k] = 0
    /\ ~link[k].isSol => vaults[k] >= link[k].amount

(* A closed one: the final account of Settled. *)
SafeClosed(k) ==
    LET h == past[k]
        promised == IF h.isSol THEN h.amount ELSE 0
    IN  /\ h.outcome # "open"
        /\ vaults[k] = 0
        /\ h.outcome = "claimed" =>
              /\ h.lamports.paid = promised
              /\ h.tokens.paid = h.tokens.in + h.tokens.gift
              /\ h.lamports.back >= h.lamports.in - promised
        /\ h.outcome = "refunded" =>
              /\ h.lamports.paid = 0 /\ h.tokens.paid = 0
              /\ h.lamports.back >= h.lamports.in
              /\ h.tokens.back = h.tokens.in + h.tokens.gift

Safe(k) ==
    /\ Balanced(k)
    /\ IF k \in inUse THEN SafeOpen(k) ELSE SafeClosed(k)

Inv == LinksTypeOK /\ \A k \in Keys : Safe(k)

(* A step on one key does not touch the others. *)
Same(k) ==
    /\ k \in inUse' <=> k \in inUse
    /\ k \in inUse => link'[k] = link[k]
    /\ lamports'[k] = lamports[k] /\ vaults'[k] = vaults[k]
    /\ past'[k] = past[k]

Only(k) == \A j \in Keys \ {k} : Same(j)

-----------------------------------------------------------------------------
(* Facts about states of the right type.                                   *)

LEMMA Components ==
    ASSUME LinksTypeOK, NEW k \in Keys
    PROVE  /\ lamports[k] \in Nat /\ vaults[k] \in Nat
           /\ past[k] \in LinkHistory
           /\ past[k].lamports \in Flow /\ past[k].tokens \in Flow
           /\ past[k].amount \in Nat /\ past[k].isSol \in BOOLEAN
           /\ k \in inUse => link[k] \in Link /\ link[k].sender \in LinkUsers
                            /\ link[k].isSol \in BOOLEAN
                            /\ link[k].amount \in Nat /\ link[k].expiry \in Int
BY DEF LinksTypeOK, LinkHistory, Link

LEMMA FlowParts ==
    ASSUME NEW f \in Flow
    PROVE  f.in \in Nat /\ f.gift \in Nat /\ f.paid \in Nat /\ f.back \in Nat
BY DEF Flow

LEMMA OutflowParts ==
    ASSUME NEW f \in Flow, NEW paid \in Nat, NEW back \in Nat
    PROVE  /\ Outflow(f, paid, back) \in Flow
           /\ Outflow(f, paid, back).in = f.in
           /\ Outflow(f, paid, back).gift = f.gift
           /\ Outflow(f, paid, back).paid = f.paid + paid
           /\ Outflow(f, paid, back).back = f.back + back
<1>1. f.paid + paid \in Nat /\ f.back + back \in Nat
  BY FlowParts
<1> QED
  BY <1>1 DEF Outflow, Flow

LEMMA Rents == /\ ClaimRent \in Nat /\ VaultRent \in Nat /\ MinSol \in Nat \ {0}
BY LinkRents

(* What the address has and what `init' adds make the rent. *)
LEMMA RentCovers ==
    ASSUME LinksTypeOK, NEW k \in Keys
    PROVE  RentDue(k) \in Nat /\ lamports[k] + RentDue(k) >= ClaimRent
BY Components, Rents DEF RentDue

LEMMA CreditNat ==
    ASSUME NEW balance \in [LinkUsers -> Nat], NEW u, NEW v, NEW x \in Nat, NEW y \in Nat
    PROVE  Credit(balance, u, x, v, y) \in [LinkUsers -> Nat]
BY DEF Credit

LEMMA TypeInit == LinksInit => LinksTypeOK
<1> SUFFICES ASSUME LinksInit PROVE LinksTypeOK
  OBVIOUS
<1>1. NoLinkHistory \in LinkHistory
  BY DEF NoLinkHistory, NoFlow, LinkHistory, Flow, Outcomes
<1>2. inUse = {} /\ link \in [inUse -> Link]
  BY DEF LinksInit, inUse
<1> QED
  BY <1>1, <1>2, TimesOfLinks, LinkFunds DEF LinksInit, LinksTypeOK

(* A key that a step leaves alone stays safe. *)
LEMMA Untouched ==
    ASSUME NEW k \in Keys, Safe(k), Same(k)
    PROVE  Safe(k)'
<1>1. Balanced(k)'
  BY DEF Safe, Same, Balanced
<1>2. CASE k \in inUse
  BY <1>1, <1>2 DEF Safe, Same, SafeOpen
<1>3. CASE k \notin inUse
  BY <1>1, <1>3 DEF Safe, Same, SafeClosed
<1> QED
  BY <1>2, <1>3

-----------------------------------------------------------------------------
(* Creation.                                                               *)

LEMMA OpenedFacts ==
    ASSUME LinksTypeOK, NEW k \in Keys, k \notin inUse,
           NEW sender \in LinkUsers, NEW isSol \in BOOLEAN, NEW amount \in Nat,
           NEW expiry \in Int, NEW solIn \in Nat, NEW tokensIn \in Nat,
           Opened(k, sender, isSol, amount, expiry, solIn, tokensIn)
    PROVE  /\ k \in inUse' /\ inUse' \subseteq Keys
           /\ link' \in [inUse' -> Link] /\ past' \in [Keys -> LinkHistory]
           /\ link'[k].amount = amount /\ link'[k].isSol = isSol
           /\ past'[k].outcome = "open" /\ past'[k].amount = amount
           /\ past'[k].isSol = isSol
           /\ LET l == past'[k].lamports
                  f == past'[k].tokens
              IN  /\ l.in = solIn /\ l.gift = lamports[k] /\ l.paid = 0 /\ l.back = 0
                  /\ f.in = tokensIn /\ f.gift = 0 /\ f.paid = 0 /\ f.back = 0
           /\ \A j \in Keys \ {k} : /\ j \in inUse' <=> j \in inUse
                                    /\ j \in inUse => link'[j] = link[j]
                                    /\ past'[j] = past[j]
<1> DEFINE new == [sender |-> sender, isSol |-> isSol, amount |-> amount, expiry |-> expiry]
           sols == [NoFlow EXCEPT !.in = solIn, !.gift = lamports[k]]
           toks == [NoFlow EXCEPT !.in = tokensIn]
           h == [outcome |-> "open", amount |-> amount, isSol |-> isSol,
                 lamports |-> sols, tokens |-> toks]
<1>1. link' = [j \in inUse \cup {k} |-> IF j = k THEN new ELSE link[j]]
  BY DEF Opened
<1>2. past' = [past EXCEPT ![k] = h]
  BY DEF Opened
<1>3. /\ sols \in Flow /\ sols.in = solIn /\ sols.gift = lamports[k]
      /\ sols.paid = 0 /\ sols.back = 0
      /\ toks \in Flow /\ toks.in = tokensIn /\ toks.gift = 0
      /\ toks.paid = 0 /\ toks.back = 0
  BY Components DEF NoFlow, Flow
<1>4. new \in Link
  BY DEF Link
<1>5. h \in LinkHistory
  BY <1>3 DEF LinkHistory, Outcomes
<1>6. inUse' = inUse \cup {k} /\ inUse' \subseteq Keys
  BY <1>1 DEF LinksTypeOK, inUse
<1>7. link' \in [inUse' -> Link]
  BY <1>1, <1>4, <1>6 DEF LinksTypeOK
<1>8. past' \in [Keys -> LinkHistory] /\ past'[k] = h
  BY <1>2, <1>5 DEF LinksTypeOK
<1>9. link'[k] = new
  BY <1>1
<1>10. \A j \in Keys \ {k} : /\ j \in inUse' <=> j \in inUse
                             /\ j \in inUse => link'[j] = link[j]
                             /\ past'[j] = past[j]
  BY <1>1, <1>2, <1>6 DEF LinksTypeOK
<1>11. /\ k \in inUse'
       /\ new.amount = amount /\ new.isSol = isSol
       /\ h.outcome = "open" /\ h.amount = amount /\ h.isSol = isSol
       /\ h.lamports = sols /\ h.tokens = toks
  BY <1>6
<1> HIDE DEF new, sols, toks, h
<1> QED
  BY <1>3, <1>6, <1>7, <1>8, <1>9, <1>10, <1>11

(* A link whose accounts hold what was paid in is safe. *)
LEMMA OpenedSafe ==
    ASSUME LinksTypeOK, NEW k \in Keys, k \notin inUse,
           NEW sender \in LinkUsers, NEW isSol \in BOOLEAN, NEW amount \in Nat,
           NEW expiry \in Int, NEW solIn \in Nat, NEW tokensIn \in Nat,
           Opened(k, sender, isSol, amount, expiry, solIn, tokensIn),
           lamports'[k] + (IF isSol THEN 0 ELSE VaultRent) = lamports[k] + solIn,
           lamports'[k] \in Nat,
           lamports'[k] >= ClaimRent + (IF isSol THEN amount ELSE 0),
           vaults'[k] = tokensIn, tokensIn = IF isSol THEN 0 ELSE amount
    PROVE  Safe(k)'
<1>1. k \in inUse' /\ link'[k].amount = amount /\ link'[k].isSol = isSol
  <2>1. k \in inUse'
    BY OpenedFacts
  <2>2. link'[k].amount = amount
    BY OpenedFacts
  <2>3. link'[k].isSol = isSol
    BY OpenedFacts
  <2> QED
    BY <2>1, <2>2, <2>3
<1>2. /\ past'[k].outcome = "open" /\ past'[k].amount = amount
      /\ past'[k].isSol = isSol
      /\ past'[k].lamports.in = solIn /\ past'[k].lamports.gift = lamports[k]
      /\ past'[k].lamports.paid = 0 /\ past'[k].lamports.back = 0
      /\ past'[k].tokens.in = tokensIn /\ past'[k].tokens.gift = 0
      /\ past'[k].tokens.paid = 0 /\ past'[k].tokens.back = 0
  BY OpenedFacts
<1>3. Balanced(k)'
  BY <1>1, <1>2, Components, Rents DEF Balanced
<1>4. SafeOpen(k)'
  BY <1>1, <1>2, Rents DEF SafeOpen, Nothing
<1> QED
  BY <1>1, <1>3, <1>4 DEF Safe

LEMMA CreateSol ==
    ASSUME Inv, NEW k \in Keys, NEW u \in LinkUsers, NEW amount \in LinkAmounts, NEW t \in LinkTimes,
           CreateSolLink(u, k, amount, t)
    PROVE  LinksTypeOK' /\ Safe(k)' /\ Only(k)
<1> DEFINE cost == RentDue(k) + Escrow(k, amount)
<1>1. /\ LinksTypeOK /\ Safe(k) /\ k \notin inUse
      /\ amount \in Nat /\ t \in Int
  BY AmountsOfLinks, TimesOfLinks DEF Inv, CreateSolLink, LinkVacant
<1>2. /\ cost \in Nat /\ lamports[k] + cost >= ClaimRent + amount
      /\ lamports[k] \in Nat /\ vaults[k] = 0
  BY <1>1, RentCovers, Components, Rents DEF Escrow, Safe, SafeClosed
<1>3. /\ sol' = [sol EXCEPT ![u] = @ - cost] /\ sol[u] >= cost
      /\ lamports' = [lamports EXCEPT ![k] = @ + cost]
      /\ Opened(k, u, TRUE, amount, t, cost, 0)
      /\ UNCHANGED <<clock, vaults, tokens>>
  BY DEF CreateSolLink
<1> HIDE DEF cost
<1>4. LinksTypeOK'
  <2>1. sol' \in [LinkUsers -> Nat] /\ lamports' \in [Keys -> Nat]
    BY <1>1, <1>2, <1>3 DEF LinksTypeOK
  <2> QED
    BY <1>1, <1>2, <1>3, <2>1, OpenedFacts DEF LinksTypeOK
<1>5. lamports'[k] = lamports[k] + cost /\ vaults'[k] = 0
  BY <1>1, <1>2, <1>3 DEF LinksTypeOK
<1>6. Safe(k)'
  <2>1. /\ lamports'[k] + (IF TRUE THEN 0 ELSE VaultRent) = lamports[k] + cost
        /\ lamports'[k] \in Nat
        /\ lamports'[k] >= ClaimRent + (IF TRUE THEN amount ELSE 0)
        /\ vaults'[k] = 0 /\ 0 = IF TRUE THEN 0 ELSE amount
    BY <1>1, <1>2, <1>3, <1>5, Rents
  <2>2. TRUE \in BOOLEAN /\ 0 \in Nat
    BY <1>1
  <2> QED
    BY <1>1, <1>2, <1>3, <2>1, <2>2, OpenedSafe
<1>7. Only(k)
  <2>1. \A j \in Keys \ {k} : lamports'[j] = lamports[j] /\ vaults'[j] = vaults[j]
    BY <1>1, <1>3 DEF LinksTypeOK
  <2>2. TRUE \in BOOLEAN /\ 0 \in Nat
    BY <1>1
  <2>3. \A j \in Keys \ {k} : /\ j \in inUse' <=> j \in inUse
                              /\ j \in inUse => link'[j] = link[j]
                              /\ past'[j] = past[j]
    BY <1>1, <1>2, <1>3, <2>2, OpenedFacts
  <2> QED
    BY <2>1, <2>3 DEF Only, Same
<1> QED
  BY <1>4, <1>6, <1>7

LEMMA CreateToken ==
    ASSUME Inv, NEW k \in Keys, NEW u \in LinkUsers, NEW amount \in LinkAmounts, NEW t \in LinkTimes,
           CreateTokenLink(u, k, amount, t)
    PROVE  LinksTypeOK' /\ Safe(k)' /\ Only(k)
<1> DEFINE rent == RentDue(k)
           cost == RentDue(k) + VaultRent
<1>1. /\ LinksTypeOK /\ Safe(k) /\ k \notin inUse
      /\ amount \in Nat /\ t \in Int
  BY AmountsOfLinks, TimesOfLinks DEF Inv, CreateTokenLink, LinkVacant
<1>2. /\ rent \in Nat /\ cost \in Nat /\ cost = rent + VaultRent
      /\ lamports[k] + rent >= ClaimRent
      /\ lamports[k] \in Nat /\ vaults[k] = 0
  BY <1>1, RentCovers, Components, Rents DEF Safe, SafeClosed
<1>3. /\ sol' = [sol EXCEPT ![u] = @ - cost] /\ sol[u] >= cost
      /\ tokens' = [tokens EXCEPT ![u] = @ - amount] /\ tokens[u] >= amount
      /\ lamports' = [lamports EXCEPT ![k] = @ + rent]
      /\ vaults' = [vaults EXCEPT ![k] = @ + amount]
      /\ Opened(k, u, FALSE, amount, t, cost, amount)
      /\ clock' = clock
  BY DEF CreateTokenLink
<1> HIDE DEF rent, cost
<1>4. LinksTypeOK'
  <2>1. /\ sol' \in [LinkUsers -> Nat] /\ tokens' \in [LinkUsers -> Nat]
        /\ lamports' \in [Keys -> Nat] /\ vaults' \in [Keys -> Nat]
    BY <1>1, <1>2, <1>3 DEF LinksTypeOK
  <2> QED
    BY <1>1, <1>2, <1>3, <2>1, OpenedFacts DEF LinksTypeOK
<1>5. lamports'[k] = lamports[k] + rent /\ vaults'[k] = amount
  BY <1>1, <1>2, <1>3 DEF LinksTypeOK
<1>6. Safe(k)'
  <2>1. /\ lamports'[k] + (IF FALSE THEN 0 ELSE VaultRent) = lamports[k] + cost
        /\ lamports'[k] \in Nat
        /\ lamports'[k] >= ClaimRent + (IF FALSE THEN amount ELSE 0)
        /\ vaults'[k] = amount /\ amount = IF FALSE THEN 0 ELSE amount
    BY <1>1, <1>2, <1>3, <1>5, Rents
  <2>2. FALSE \in BOOLEAN /\ amount \in Nat
    BY <1>1
  <2> QED
    BY <1>1, <1>2, <1>3, <2>1, <2>2, OpenedSafe
<1>7. Only(k)
  <2>1. \A j \in Keys \ {k} : lamports'[j] = lamports[j] /\ vaults'[j] = vaults[j]
    BY <1>1, <1>3 DEF LinksTypeOK
  <2>2. FALSE \in BOOLEAN /\ amount \in Nat
    BY <1>1
  <2>3. \A j \in Keys \ {k} : /\ j \in inUse' <=> j \in inUse
                              /\ j \in inUse => link'[j] = link[j]
                              /\ past'[j] = past[j]
    BY <1>1, <1>2, <1>3, <2>2, OpenedFacts
  <2> QED
    BY <2>1, <2>3 DEF Only, Same
<1> QED
  BY <1>4, <1>6, <1>7

-----------------------------------------------------------------------------
(* Settlement.                                                             *)

LEMMA ClosedFacts ==
    ASSUME LinksTypeOK, NEW k \in Keys, k \in inUse, NEW outcome \in Outcomes,
           NEW solPaid \in Nat, NEW solBack \in Nat,
           NEW tokensPaid \in Nat, NEW tokensBack \in Nat,
           Closed(k, outcome, solPaid, solBack, tokensPaid, tokensBack)
    PROVE  /\ k \notin inUse' /\ inUse' \subseteq Keys
           /\ link' \in [inUse' -> Link] /\ past' \in [Keys -> LinkHistory]
           /\ lamports' \in [Keys -> Nat] /\ lamports'[k] = 0
           /\ clock' = clock
           /\ past'[k].outcome = outcome
           /\ past'[k].amount = past[k].amount
           /\ past'[k].isSol = past[k].isSol
           /\ past'[k].lamports.in = past[k].lamports.in
           /\ past'[k].lamports.gift = past[k].lamports.gift
           /\ past'[k].lamports.paid = past[k].lamports.paid + solPaid
           /\ past'[k].lamports.back = past[k].lamports.back + solBack
           /\ past'[k].tokens.in = past[k].tokens.in
           /\ past'[k].tokens.gift = past[k].tokens.gift
           /\ past'[k].tokens.paid = past[k].tokens.paid + tokensPaid
           /\ past'[k].tokens.back = past[k].tokens.back + tokensBack
           /\ \A j \in Keys \ {k} : /\ j \in inUse' <=> j \in inUse
                                    /\ j \in inUse => link'[j] = link[j]
                                    /\ lamports'[j] = lamports[j]
                                    /\ past'[j] = past[j]
<1> DEFINE l == past[k].lamports
           f == past[k].tokens
           sols == Outflow(l, solPaid, solBack)
           toks == Outflow(f, tokensPaid, tokensBack)
           h == [past[k] EXCEPT !.outcome = outcome, !.lamports = sols, !.tokens = toks]
<1>1. l \in Flow /\ f \in Flow /\ past[k] \in LinkHistory
  BY Components
<1>2. /\ sols \in Flow /\ sols.in = l.in /\ sols.gift = l.gift
      /\ sols.paid = l.paid + solPaid /\ sols.back = l.back + solBack
      /\ toks \in Flow /\ toks.in = f.in /\ toks.gift = f.gift
      /\ toks.paid = f.paid + tokensPaid /\ toks.back = f.back + tokensBack
  <2> HIDE DEF l, f
  <2> QED
    BY <1>1, OutflowParts
<1>3. /\ h \in LinkHistory /\ h.outcome = outcome
      /\ h.amount = past[k].amount /\ h.isSol = past[k].isSol
      /\ h.lamports = sols /\ h.tokens = toks
  BY <1>1, <1>2 DEF LinkHistory
<1>4. past' = [past EXCEPT ![k] = h]
  BY DEF Closed
<1>5. /\ link' = [j \in inUse \ {k} |-> link[j]]
      /\ lamports' = [lamports EXCEPT ![k] = 0] /\ clock' = clock
  BY DEF Closed
<1>6. inUse' = inUse \ {k}
  BY <1>5 DEF inUse
<1> HIDE DEF l, f, sols, toks, h
<1>7. /\ k \notin inUse' /\ inUse' \subseteq Keys /\ link' \in [inUse' -> Link]
      /\ lamports' \in [Keys -> Nat] /\ lamports'[k] = 0
  BY <1>5, <1>6 DEF LinksTypeOK
<1>8. past' \in [Keys -> LinkHistory] /\ past'[k] = h
  BY <1>3, <1>4 DEF LinksTypeOK
<1>9. \A j \in Keys \ {k} : /\ j \in inUse' <=> j \in inUse
                            /\ j \in inUse => link'[j] = link[j]
                            /\ lamports'[j] = lamports[j]
                            /\ past'[j] = past[j]
  BY <1>4, <1>5, <1>6 DEF LinksTypeOK
<1> QED
  BY <1>2, <1>3, <1>5, <1>7, <1>8, <1>9 DEF l, f

(* What a settlement has to hand out, and to whom. *)
LEMMA ClosedSafe ==
    ASSUME LinksTypeOK, NEW k \in Keys, k \in inUse, Safe(k),
           NEW outcome \in {"claimed", "refunded"},
           NEW solPaid \in Nat, NEW solBack \in Nat,
           NEW tokensPaid \in Nat, NEW tokensBack \in Nat,
           Closed(k, outcome, solPaid, solBack, tokensPaid, tokensBack),
           vaults'[k] = 0,
           solPaid + solBack = lamports[k] + (IF link[k].isSol THEN 0 ELSE VaultRent),
           tokensPaid + tokensBack = vaults[k],
           outcome = "claimed" =>
              /\ solPaid = IF link[k].isSol THEN link[k].amount ELSE 0
              /\ tokensBack = 0,
           outcome = "refunded" => solPaid = 0 /\ tokensPaid = 0
    PROVE  Safe(k)'
<1> DEFINE lin == past[k].lamports.in
           lgift == past[k].lamports.gift
           tin == past[k].tokens.in
           tgift == past[k].tokens.gift
           promised == IF link[k].isSol THEN link[k].amount ELSE 0
<1>1. /\ lin \in Nat /\ lgift \in Nat /\ tin \in Nat /\ tgift \in Nat
      /\ lamports[k] \in Nat /\ vaults[k] \in Nat /\ promised \in Nat
  BY Components, FlowParts
<1>2. outcome \in Outcomes
  BY DEF Outcomes
<1>3. /\ past[k].lamports.paid = 0 /\ past[k].lamports.back = 0
      /\ past[k].tokens.paid = 0 /\ past[k].tokens.back = 0
      /\ past[k].amount = link[k].amount /\ past[k].isSol = link[k].isSol
      /\ lin + lgift = lamports[k] + (IF link[k].isSol THEN 0 ELSE VaultRent)
      /\ tin + tgift = vaults[k]
  <2>1. Balanced(k) /\ SafeOpen(k)
    BY DEF Safe
  <2>2. /\ past[k].lamports.paid = 0 /\ past[k].lamports.back = 0
        /\ past[k].tokens.paid = 0 /\ past[k].tokens.back = 0
        /\ past[k].amount = link[k].amount /\ past[k].isSol = link[k].isSol
    BY <2>1 DEF SafeOpen, Nothing
  <2> QED
    BY <1>1, <2>1, <2>2, Rents DEF Balanced
<1>4. /\ k \notin inUse' /\ lamports'[k] = 0
      /\ past'[k].outcome = outcome
      /\ past'[k].amount = link[k].amount /\ past'[k].isSol = link[k].isSol
      /\ past'[k].lamports.in = lin /\ past'[k].lamports.gift = lgift
      /\ past'[k].tokens.in = tin /\ past'[k].tokens.gift = tgift
  BY <1>2, <1>3, ClosedFacts
<1>5. /\ past'[k].lamports.paid = solPaid /\ past'[k].lamports.back = solBack
      /\ past'[k].tokens.paid = tokensPaid /\ past'[k].tokens.back = tokensBack
  <2>1. /\ past'[k].lamports.paid = past[k].lamports.paid + solPaid
        /\ past'[k].lamports.back = past[k].lamports.back + solBack
        /\ past'[k].tokens.paid = past[k].tokens.paid + tokensPaid
        /\ past'[k].tokens.back = past[k].tokens.back + tokensBack
    BY <1>2, ClosedFacts
  <2> QED
    BY <1>3, <2>1
<1>6. /\ solPaid + solBack = lin + lgift /\ tokensPaid + tokensBack = tin + tgift
      /\ outcome = "claimed" => solPaid = promised /\ tokensBack = 0
  BY <1>3
<1>7. IF past'[k].isSol THEN promised = past'[k].amount ELSE promised = 0
  BY <1>4
<1> HIDE DEF lin, lgift, tin, tgift, promised
<1>8. Balanced(k)'
  BY <1>1, <1>4, <1>5, <1>6 DEF Balanced
<1>9. SafeClosed(k)'
  BY <1>1, <1>4, <1>5, <1>6, <1>7 DEF SafeClosed
<1> QED
  BY <1>4, <1>8, <1>9 DEF Safe

(* The other keys of a settlement, and its types. *)
LEMMA ClosedFrame ==
    ASSUME LinksTypeOK, NEW k \in Keys, k \in inUse, NEW outcome \in Outcomes,
           NEW solPaid \in Nat, NEW solBack \in Nat,
           NEW tokensPaid \in Nat, NEW tokensBack \in Nat,
           Closed(k, outcome, solPaid, solBack, tokensPaid, tokensBack),
           sol' \in [LinkUsers -> Nat], tokens' \in [LinkUsers -> Nat],
           vaults' \in [Keys -> Nat], \A j \in Keys \ {k} : vaults'[j] = vaults[j]
    PROVE  LinksTypeOK' /\ Only(k)
<1>1. /\ clock' = clock /\ inUse' \subseteq Keys /\ link' \in [inUse' -> Link]
      /\ lamports' \in [Keys -> Nat] /\ past' \in [Keys -> LinkHistory]
  BY ClosedFacts
<1>2. LinksTypeOK'
  BY <1>1 DEF LinksTypeOK
<1>3. \A j \in Keys \ {k} : /\ j \in inUse' <=> j \in inUse
                            /\ j \in inUse => link'[j] = link[j]
                            /\ lamports'[j] = lamports[j]
                            /\ past'[j] = past[j]
  BY ClosedFacts
<1> QED
  BY <1>2, <1>3 DEF Only, Same

LEMMA ClaimSol ==
    ASSUME Inv, NEW k \in Keys, NEW u \in LinkUsers, ClaimSolLink(k, u)
    PROVE  LinksTypeOK' /\ Safe(k)' /\ Only(k)
<1> DEFINE paid == SolPayout(k)
           rest == lamports[k] - SolPayout(k)
<1>1. /\ LinksTypeOK /\ Safe(k) /\ k \in inUse /\ link[k].isSol /\ link[k].sender \in LinkUsers
      /\ paid = link[k].amount /\ paid \in Nat /\ rest \in Nat
      /\ paid + rest = lamports[k] /\ lamports[k] \in Nat
  BY Components DEF Inv, ClaimSolLink, SolPayout, Kind
<1>2. /\ sol' = Credit(sol, u, paid, link[k].sender, rest)
      /\ Closed(k, "claimed", paid, rest, 0, 0)
      /\ UNCHANGED <<vaults, tokens>>
  BY DEF ClaimSolLink
<1> HIDE DEF paid, rest
<1>3. vaults[k] = 0
  BY <1>1 DEF Safe, SafeOpen
<1>4. sol' \in [LinkUsers -> Nat]
  BY <1>1, <1>2, CreditNat DEF LinksTypeOK
<1>5. "claimed" \in Outcomes /\ 0 \in Nat
  BY DEF Outcomes
<1>6. LinksTypeOK' /\ Only(k)
  <2>1. /\ tokens' \in [LinkUsers -> Nat] /\ vaults' \in [Keys -> Nat]
        /\ \A j \in Keys \ {k} : vaults'[j] = vaults[j]
    BY <1>1, <1>2 DEF LinksTypeOK
  <2> QED
    BY <1>1, <1>2, <1>4, <1>5, <2>1, ClosedFrame
<1>7. Safe(k)'
  <2>1. /\ vaults'[k] = 0 /\ 0 + 0 = vaults[k]
        /\ paid + rest = lamports[k] + (IF link[k].isSol THEN 0 ELSE VaultRent)
        /\ paid = IF link[k].isSol THEN link[k].amount ELSE 0
    BY <1>1, <1>2, <1>3
  <2> QED
    BY <1>1, <1>2, <1>5, <2>1, ClosedSafe
<1> QED
  BY <1>6, <1>7

LEMMA RefundSol ==
    ASSUME Inv, NEW k \in Keys, RefundSolLink(k)
    PROVE  LinksTypeOK' /\ Safe(k)' /\ Only(k)
<1>1. /\ LinksTypeOK /\ Safe(k) /\ k \in inUse /\ link[k].isSol /\ link[k].sender \in LinkUsers
      /\ lamports[k] \in Nat
  BY Components DEF Inv, RefundSolLink, Kind
<1>2. /\ sol' = [sol EXCEPT ![link[k].sender] = @ + lamports[k]]
      /\ Closed(k, "refunded", 0, lamports[k], 0, 0)
      /\ UNCHANGED <<vaults, tokens>>
  BY DEF RefundSolLink
<1>3. vaults[k] = 0
  BY <1>1 DEF Safe, SafeOpen
<1>4. sol' \in [LinkUsers -> Nat]
  BY <1>1, <1>2 DEF LinksTypeOK
<1>5. "refunded" \in Outcomes /\ 0 \in Nat
  BY DEF Outcomes
<1>6. LinksTypeOK' /\ Only(k)
  <2>1. /\ tokens' \in [LinkUsers -> Nat] /\ vaults' \in [Keys -> Nat]
        /\ \A j \in Keys \ {k} : vaults'[j] = vaults[j]
    BY <1>1, <1>2 DEF LinksTypeOK
  <2> QED
    BY <1>1, <1>2, <1>4, <1>5, <2>1, ClosedFrame
<1>7. Safe(k)'
  <2>1. /\ vaults'[k] = 0 /\ 0 + 0 = vaults[k]
        /\ 0 + lamports[k] = lamports[k] + (IF link[k].isSol THEN 0 ELSE VaultRent)
    BY <1>1, <1>2, <1>3
  <2> QED
    BY <1>1, <1>2, <1>5, <2>1, ClosedSafe
<1> QED
  BY <1>6, <1>7

LEMMA ClaimToken ==
    ASSUME Inv, NEW k \in Keys, NEW u \in LinkUsers, ClaimTokenLink(k, u)
    PROVE  LinksTypeOK' /\ Safe(k)' /\ Only(k)
<1> DEFINE rent == lamports[k] + VaultRent
<1>1. /\ LinksTypeOK /\ Safe(k) /\ k \in inUse /\ ~link[k].isSol /\ link[k].sender \in LinkUsers
      /\ lamports[k] \in Nat /\ vaults[k] \in Nat
      /\ rent \in Nat /\ rent = lamports[k] + VaultRent
  BY Components, Rents DEF Inv, ClaimTokenLink, Kind
<1>2. /\ tokens' = [tokens EXCEPT ![u] = @ + vaults[k]]
      /\ vaults' = [vaults EXCEPT ![k] = 0]
      /\ sol' = [sol EXCEPT ![link[k].sender] = @ + rent]
      /\ Closed(k, "claimed", 0, rent, vaults[k], 0)
  BY DEF ClaimTokenLink
<1> HIDE DEF rent
<1>3. "claimed" \in Outcomes /\ 0 \in Nat
  BY DEF Outcomes
<1>4. LinksTypeOK' /\ Only(k)
  <2>1. sol' \in [LinkUsers -> Nat] /\ tokens' \in [LinkUsers -> Nat]
    BY <1>1, <1>2 DEF LinksTypeOK
  <2>2. vaults' \in [Keys -> Nat] /\ \A j \in Keys \ {k} : vaults'[j] = vaults[j]
    BY <1>1, <1>2 DEF LinksTypeOK
  <2> QED
    BY <1>1, <1>2, <1>3, <2>1, <2>2, ClosedFrame
<1>5. Safe(k)'
  <2>1. /\ vaults'[k] = 0 /\ vaults[k] + 0 = vaults[k]
        /\ 0 + rent = lamports[k] + (IF link[k].isSol THEN 0 ELSE VaultRent)
        /\ 0 = IF link[k].isSol THEN link[k].amount ELSE 0
    BY <1>1, <1>2, Rents DEF LinksTypeOK
  <2> QED
    BY <1>1, <1>2, <1>3, <2>1, ClosedSafe
<1> QED
  BY <1>4, <1>5

LEMMA RefundToken ==
    ASSUME Inv, NEW k \in Keys, RefundTokenLink(k)
    PROVE  LinksTypeOK' /\ Safe(k)' /\ Only(k)
<1> DEFINE rent == lamports[k] + VaultRent
<1>1. /\ LinksTypeOK /\ Safe(k) /\ k \in inUse /\ ~link[k].isSol /\ link[k].sender \in LinkUsers
      /\ lamports[k] \in Nat /\ vaults[k] \in Nat
      /\ rent \in Nat /\ rent = lamports[k] + VaultRent
  BY Components, Rents DEF Inv, RefundTokenLink, Kind
<1>2. /\ tokens' = [tokens EXCEPT ![link[k].sender] = @ + vaults[k]]
      /\ vaults' = [vaults EXCEPT ![k] = 0]
      /\ sol' = [sol EXCEPT ![link[k].sender] = @ + rent]
      /\ Closed(k, "refunded", 0, rent, 0, vaults[k])
  BY DEF RefundTokenLink
<1> HIDE DEF rent
<1>3. "refunded" \in Outcomes /\ 0 \in Nat
  BY DEF Outcomes
<1>4. LinksTypeOK' /\ Only(k)
  <2>1. sol' \in [LinkUsers -> Nat] /\ tokens' \in [LinkUsers -> Nat]
    BY <1>1, <1>2 DEF LinksTypeOK
  <2>2. vaults' \in [Keys -> Nat] /\ \A j \in Keys \ {k} : vaults'[j] = vaults[j]
    BY <1>1, <1>2 DEF LinksTypeOK
  <2> QED
    BY <1>1, <1>2, <1>3, <2>1, <2>2, ClosedFrame
<1>5. Safe(k)'
  <2>1. /\ vaults'[k] = 0 /\ 0 + vaults[k] = vaults[k]
        /\ 0 + rent = lamports[k] + (IF link[k].isSol THEN 0 ELSE VaultRent)
    BY <1>1, <1>2, Rents DEF LinksTypeOK
  <2> QED
    BY <1>1, <1>2, <1>3, <2>1, ClosedSafe
<1> QED
  BY <1>4, <1>5

-----------------------------------------------------------------------------
(* Donations.                                                              *)

LEMMA GiveSol ==
    ASSUME Inv, NEW k \in Keys, NEW u \in LinkUsers, NEW amount \in LinkAmounts,
           DonateLamports(u, k, amount)
    PROVE  LinksTypeOK' /\ Safe(k)' /\ Only(k)
<1> DEFINE l == [past[k].lamports EXCEPT !.gift = @ + amount]
           h == [past[k] EXCEPT !.lamports = l]
<1>1. /\ LinksTypeOK /\ Safe(k) /\ amount \in Nat /\ lamports[k] \in Nat
      /\ past[k] \in LinkHistory /\ past[k].lamports \in Flow
      /\ past[k].tokens \in Flow
  BY AmountsOfLinks, Components DEF Inv
<1>2. /\ sol' = [sol EXCEPT ![u] = @ - amount] /\ sol[u] >= amount
      /\ lamports' = [lamports EXCEPT ![k] = @ + amount]
      /\ past' = [past EXCEPT ![k] = h]
      /\ UNCHANGED <<clock, link, vaults, tokens>>
  BY <1>1 DEF DonateLamports, LinksTypeOK
<1>3. /\ l \in Flow /\ l.in = past[k].lamports.in
      /\ l.gift = past[k].lamports.gift + amount
      /\ l.paid = past[k].lamports.paid /\ l.back = past[k].lamports.back
  BY <1>1 DEF Flow
<1>4. /\ h \in LinkHistory /\ h.lamports = l /\ h.tokens = past[k].tokens
      /\ h.outcome = past[k].outcome
      /\ h.amount = past[k].amount /\ h.isSol = past[k].isSol
  BY <1>1, <1>3 DEF LinkHistory
<1> HIDE DEF l, h
<1>5. inUse' = inUse
  BY <1>2 DEF inUse
<1>6. LinksTypeOK'
  BY <1>1, <1>2, <1>4, <1>5 DEF LinksTypeOK
<1>7. past'[k] = h /\ lamports'[k] = lamports[k] + amount
  BY <1>1, <1>2 DEF LinksTypeOK
<1>8. Balanced(k)'
  BY <1>1, <1>2, <1>3, <1>4, <1>5, <1>7, FlowParts, Components, Rents DEF Safe, Balanced
<1>9. Safe(k)'
  <2>1. CASE k \in inUse
    BY <1>1, <1>2, <1>3, <1>4, <1>5, <1>7, <1>8, <2>1, Components, Rents
       DEF Safe, SafeOpen, Nothing
  <2>2. CASE k \notin inUse
    BY <1>1, <1>2, <1>3, <1>4, <1>5, <1>7, <1>8, <2>2 DEF Safe, SafeClosed
  <2> QED
    BY <2>1, <2>2
<1>10. Only(k)
  BY <1>1, <1>2, <1>5 DEF Only, Same, LinksTypeOK
<1> QED
  BY <1>6, <1>9, <1>10

LEMMA GiveTokens ==
    ASSUME Inv, NEW k \in Keys, NEW u \in LinkUsers, NEW amount \in LinkAmounts,
           DonateTokens(u, k, amount)
    PROVE  LinksTypeOK' /\ Safe(k)' /\ Only(k)
<1> DEFINE f == [past[k].tokens EXCEPT !.gift = @ + amount]
           h == [past[k] EXCEPT !.tokens = f]
<1>1. /\ LinksTypeOK /\ Safe(k) /\ k \in inUse /\ ~link[k].isSol
      /\ amount \in Nat /\ vaults[k] \in Nat
      /\ past[k] \in LinkHistory /\ past[k].lamports \in Flow
      /\ past[k].tokens \in Flow
  BY AmountsOfLinks, Components DEF Inv, DonateTokens
<1>2. /\ tokens' = [tokens EXCEPT ![u] = @ - amount] /\ tokens[u] >= amount
      /\ vaults' = [vaults EXCEPT ![k] = @ + amount]
      /\ past' = [past EXCEPT ![k] = h]
      /\ UNCHANGED <<clock, link, lamports, sol>>
  BY <1>1 DEF DonateTokens, LinksTypeOK
<1>3. /\ f \in Flow /\ f.in = past[k].tokens.in
      /\ f.gift = past[k].tokens.gift + amount
      /\ f.paid = past[k].tokens.paid /\ f.back = past[k].tokens.back
  BY <1>1 DEF Flow
<1>4. /\ h \in LinkHistory /\ h.tokens = f /\ h.lamports = past[k].lamports
      /\ h.outcome = past[k].outcome
      /\ h.amount = past[k].amount /\ h.isSol = past[k].isSol
  BY <1>1, <1>3 DEF LinkHistory
<1> HIDE DEF f, h
<1>5. inUse' = inUse
  BY <1>2 DEF inUse
<1>6. LinksTypeOK'
  BY <1>1, <1>2, <1>4, <1>5 DEF LinksTypeOK
<1>7. past'[k] = h /\ vaults'[k] = vaults[k] + amount
  BY <1>1, <1>2 DEF LinksTypeOK
<1>8. Balanced(k)'
  BY <1>1, <1>2, <1>3, <1>4, <1>5, <1>7, FlowParts, Components, Rents DEF Safe, Balanced
<1>9. SafeOpen(k)'
  BY <1>1, <1>2, <1>3, <1>4, <1>5, <1>7, Components DEF Safe, SafeOpen, Nothing
<1>10. Only(k)
  BY <1>1, <1>2, <1>5 DEF Only, Same, LinksTypeOK
<1> QED
  BY <1>1, <1>5, <1>6, <1>8, <1>9, <1>10 DEF Safe

-----------------------------------------------------------------------------
(* The invariant.                                                          *)

LEMMA InvInit == LinksInit => Inv
<1> SUFFICES ASSUME LinksInit PROVE Inv
  OBVIOUS
<1>1. inUse = {}
  BY DEF LinksInit, inUse
<1>2. \A k \in Keys : past[k] = NoLinkHistory /\ lamports[k] = 0 /\ vaults[k] = 0
  BY DEF LinksInit
<1>3. \A k \in Keys : Safe(k)
  BY <1>1, <1>2 DEF Safe, Balanced, SafeClosed, NoLinkHistory, NoFlow
<1> QED
  BY <1>3, TypeInit DEF Inv

(* A step on one key preserves the invariant if it keeps that key safe. *)
LEMMA OneKey ==
    ASSUME Inv, NEW k \in Keys, LinksTypeOK' /\ Safe(k)' /\ Only(k)
    PROVE  Inv'
<1>1. \A j \in Keys \ {k} : Safe(j)'
  BY Untouched DEF Inv, Only
<1> QED
  BY <1>1 DEF Inv

LEMMA ClockStep ==
    ASSUME Inv, LinksTick \/ UNCHANGED linkVars
    PROVE  Inv'
<1>1. clock' \in LinkTimes /\ UNCHANGED <<link, lamports, vaults, sol, tokens, past>>
  BY DEF Inv, LinksTypeOK, LinksTick, linkVars
<1>2. inUse' = inUse
  BY <1>1 DEF inUse
<1>3. LinksTypeOK'
  BY <1>1, <1>2 DEF Inv, LinksTypeOK
<1>4. \A k \in Keys : Same(k)
  BY <1>1, <1>2 DEF Same
<1> QED
  BY <1>3, <1>4, Untouched DEF Inv

LEMMA InvNext == Inv /\ [LinksNext]_linkVars => Inv'
<1> SUFFICES ASSUME Inv, [LinksNext]_linkVars PROVE Inv'
  OBVIOUS
<1>1. CASE LinksTick \/ UNCHANGED linkVars
  BY <1>1, ClockStep
<1>2. ASSUME NEW k \in Keys, NEW u \in LinkUsers, NEW amount \in LinkAmounts, NEW t \in LinkTimes,
             CreateSolLink(u, k, amount, t) \/ CreateTokenLink(u, k, amount, t)
      PROVE  Inv'
  BY <1>2, CreateSol, CreateToken, OneKey
<1>3. ASSUME NEW k \in Keys, NEW u \in LinkUsers, ClaimSolLink(k, u) \/ ClaimTokenLink(k, u)
      PROVE  Inv'
  BY <1>3, ClaimSol, ClaimToken, OneKey
<1>4. ASSUME NEW k \in Keys, RefundSolLink(k) \/ RefundTokenLink(k)
      PROVE  Inv'
  BY <1>4, RefundSol, RefundToken, OneKey
<1>5. ASSUME NEW k \in Keys, NEW u \in LinkUsers, NEW amount \in LinkAmounts,
             DonateLamports(u, k, amount) \/ DonateTokens(u, k, amount)
      PROVE  Inv'
  BY <1>5, GiveSol, GiveTokens, OneKey
<1> QED
  BY <1>1, <1>2, <1>3, <1>4, <1>5 DEF LinksNext

(* The inductive invariant holds in every reachable state. *)
THEOREM Invariance == LinksSpec => []Inv
BY InvInit, InvNext, PTL DEF LinksSpec

(* Type correctness: no balance of a user, a link or a vault and no flow   *)
(* between them is ever negative.                                          *)
THEOREM TypeCorrect == LinksSpec => []LinksTypeOK
<1>1. Inv => LinksTypeOK
  BY DEF Inv
<1> QED
  BY <1>1, Invariance, PTL

(* An open link holds its rent and what it promises.                       *)
THEOREM Escrowed == LinksSpec => []NeverOverdrawn
<1>1. Inv => NeverOverdrawn
  <2> SUFFICES ASSUME Inv, NEW k \in inUse
               PROVE  IF link[k].isSol THEN lamports[k] >= ClaimRent + link[k].amount
                      ELSE lamports[k] >= ClaimRent /\ vaults[k] >= link[k].amount
    BY DEF NeverOverdrawn
  <2>1. k \in Keys /\ SafeOpen(k)
    BY DEF Inv, LinksTypeOK, Safe
  <2> QED
    BY <2>1 DEF SafeOpen
<1> QED
  BY <1>1, Invariance, PTL

(* Nothing is left behind in a vault, and every asset is accounted for.    *)
THEOREM Conserved == LinksSpec => []NothingStranded
<1>1. Inv => NothingStranded
  BY DEF Inv, Safe, SafeClosed, Balanced, NothingStranded
<1> QED
  BY <1>1, Invariance, PTL

(* The final account of a claimed and of a refunded link.                  *)
THEOREM FinalAccount == LinksSpec => []Settled
<1>1. ASSUME Inv PROVE Settled
  <2> SUFFICES ASSUME NEW k \in Keys, k \notin inUse
               PROVE  LET h == past[k]
                          rent == h.lamports.in - (IF h.isSol THEN h.amount ELSE 0)
                      IN  /\ h.outcome # "open"
                          /\ h.outcome = "claimed" =>
                                /\ h.lamports.paid = (IF h.isSol THEN h.amount ELSE 0)
                                /\ h.tokens.paid = h.tokens.in + h.tokens.gift
                                /\ h.lamports.back >= rent
                          /\ h.outcome = "refunded" =>
                                /\ h.lamports.paid = 0 /\ h.tokens.paid = 0
                                /\ h.lamports.back >= h.lamports.in
                                /\ h.tokens.back = h.tokens.in + h.tokens.gift
    BY DEF Settled
  <2>1. SafeClosed(k)
    BY <1>1 DEF Inv, Safe
  <2> QED
    BY <2>1 DEF SafeClosed
<1> QED
  BY <1>1, Invariance, PTL

-----------------------------------------------------------------------------
(* What a step may do to an open link.                                     *)

NothingPaid(k) == past'[k].lamports.paid = 0 /\ past'[k].tokens.paid = 0

Held(k) == /\ k \in inUse' /\ link'[k] = link[k]
           /\ lamports'[k] >= lamports[k] /\ vaults'[k] >= vaults[k]

Gone(k) == past'[k].outcome \in {"claimed", "refunded"} /\ k \notin inUse'

(* Steps elsewhere, and donations, leave it as it is. *)
LEMMA SameHeld ==
    ASSUME Inv, NEW k \in inUse, Same(k)
    PROVE  NothingPaid(k) /\ Held(k)
<1>1. k \in Keys /\ SafeOpen(k) /\ lamports[k] \in Nat /\ vaults[k] \in Nat
  BY Components DEF Inv, LinksTypeOK, Safe
<1> QED
  BY <1>1 DEF Same, SafeOpen, Nothing, NothingPaid, Held

LEMMA DonationHeld ==
    ASSUME Inv, NEW k \in inUse, NEW u \in LinkUsers, NEW amount \in LinkAmounts,
           DonateLamports(u, k, amount) \/ DonateTokens(u, k, amount)
    PROVE  NothingPaid(k) /\ Held(k)
<1>1. /\ k \in Keys /\ SafeOpen(k)' /\ SafeOpen(k)
      /\ lamports[k] \in Nat /\ vaults[k] \in Nat /\ amount \in Nat
      /\ inUse' = inUse /\ link' = link
  <2>1. inUse' = inUse /\ link' = link
    BY DEF DonateLamports, DonateTokens, inUse
  <2>2. k \in Keys /\ SafeOpen(k) /\ amount \in Nat
    BY AmountsOfLinks DEF Inv, LinksTypeOK, Safe
  <2>3. Safe(k)'
    BY <2>2, GiveSol, GiveTokens
  <2> QED
    BY <2>1, <2>2, <2>3, Components DEF Safe, Inv
<1>2. lamports'[k] >= lamports[k] /\ vaults'[k] >= vaults[k]
  BY <1>1 DEF DonateLamports, DonateTokens, Inv, LinksTypeOK
<1> QED
  BY <1>1, <1>2 DEF SafeOpen, Nothing, NothingPaid, Held

(* A settlement ends it; only a claim in time pays anyone but the sender.  *)
LEMMA SettlementEnds ==
    ASSUME Inv, NEW k \in inUse, NEW u \in LinkUsers,
           \/ ClaimSolLink(k, u) \/ ClaimTokenLink(k, u)
           \/ RefundSolLink(k) \/ RefundTokenLink(k)
    PROVE  Gone(k) /\ (clock > link[k].expiry => NothingPaid(k))
<1>1. /\ LinksTypeOK /\ k \in Keys /\ SafeOpen(k)
      /\ lamports[k] \in Nat /\ vaults[k] \in Nat /\ lamports[k] + VaultRent \in Nat
      /\ link[k].expiry \in Int /\ clock \in Int
      /\ past[k].lamports.paid = 0 /\ past[k].tokens.paid = 0
  BY Components, Rents, TimesOfLinks DEF Inv, LinksTypeOK, Safe, SafeOpen, Nothing
<1>2. "claimed" \in Outcomes /\ "refunded" \in Outcomes /\ 0 \in Nat
  BY DEF Outcomes
<1>3. CASE ClaimSolLink(k, u)
  <2>1. /\ SolPayout(k) \in Nat /\ lamports[k] - SolPayout(k) \in Nat
        /\ Closed(k, "claimed", SolPayout(k), lamports[k] - SolPayout(k), 0, 0)
        /\ clock <= link[k].expiry
    BY <1>1, <1>3, Components DEF ClaimSolLink, SolPayout, InTime
  <2>2. k \notin inUse' /\ past'[k].outcome = "claimed"
    BY <1>1, <1>2, <2>1, ClosedFacts
  <2> QED
    BY <1>1, <2>1, <2>2 DEF Gone
<1>4. CASE ClaimTokenLink(k, u)
  <2>1. /\ Closed(k, "claimed", 0, lamports[k] + VaultRent, vaults[k], 0)
        /\ clock <= link[k].expiry
    BY <1>4 DEF ClaimTokenLink, InTime
  <2>2. k \notin inUse' /\ past'[k].outcome = "claimed"
    BY <1>1, <1>2, <2>1, ClosedFacts
  <2> QED
    BY <1>1, <2>1, <2>2 DEF Gone
<1>5. CASE RefundSolLink(k)
  <2>1. Closed(k, "refunded", 0, lamports[k], 0, 0)
    BY <1>5 DEF RefundSolLink
  <2>2. /\ k \notin inUse' /\ past'[k].outcome = "refunded"
        /\ past'[k].lamports.paid = past[k].lamports.paid + 0
        /\ past'[k].tokens.paid = past[k].tokens.paid + 0
    BY <1>1, <1>2, <2>1, ClosedFacts
  <2> QED
    BY <1>1, <2>2 DEF Gone, NothingPaid
<1>6. CASE RefundTokenLink(k)
  <2>1. Closed(k, "refunded", 0, lamports[k] + VaultRent, 0, vaults[k])
    BY <1>6 DEF RefundTokenLink
  <2>2. /\ k \notin inUse' /\ past'[k].outcome = "refunded"
        /\ past'[k].lamports.paid = past[k].lamports.paid + 0
        /\ past'[k].tokens.paid = past[k].tokens.paid + 0
    BY <1>1, <1>2, <2>1, ClosedFacts
  <2> QED
    BY <1>1, <2>2 DEF Gone, NothingPaid
<1> QED
  BY <1>3, <1>4, <1>5, <1>6

LEMMA OpenStep ==
    ASSUME Inv, [LinksNext]_linkVars, NEW k \in inUse
    PROVE  /\ Gone(k) \/ Held(k)
           /\ clock > link[k].expiry => NothingPaid(k)
<1>1. k \in Keys
  BY DEF Inv, LinksTypeOK
<1>2. CASE LinksTick \/ UNCHANGED linkVars
  <2>1. inUse' = inUse
    BY <1>2 DEF LinksTick, linkVars, inUse
  <2>2. Same(k)
    BY <1>2, <2>1 DEF LinksTick, linkVars, Same
  <2> QED
    BY <2>2, SameHeld
<1>3. ASSUME NEW j \in Keys \ {k}, Only(j)
      PROVE  NothingPaid(k) /\ Held(k)
  BY <1>1, <1>3, SameHeld DEF Only
<1>4. ASSUME NEW j \in Keys, NEW u \in LinkUsers, NEW amount \in LinkAmounts, NEW t \in LinkTimes,
             CreateSolLink(u, j, amount, t) \/ CreateTokenLink(u, j, amount, t)
      PROVE  NothingPaid(k) /\ Held(k)
  <2>1. j # k
    BY <1>4 DEF CreateSolLink, CreateTokenLink, LinkVacant
  <2> QED
    BY <1>3, <1>4, <2>1, CreateSol, CreateToken
<1>5. ASSUME NEW j \in Keys, NEW u \in LinkUsers,
             \/ ClaimSolLink(j, u) \/ ClaimTokenLink(j, u)
             \/ RefundSolLink(j) \/ RefundTokenLink(j)
      PROVE  /\ Gone(k) \/ Held(k)
             /\ clock > link[k].expiry => NothingPaid(k)
  <2>1. CASE j = k
    BY <1>5, <2>1, SettlementEnds
  <2>2. CASE j # k
    BY <1>3, <1>5, <2>2, ClaimSol, ClaimToken, RefundSol, RefundToken
  <2> QED
    BY <2>1, <2>2
<1>6. ASSUME NEW j \in Keys, NEW u \in LinkUsers, NEW amount \in LinkAmounts,
             DonateLamports(u, j, amount) \/ DonateTokens(u, j, amount)
      PROVE  NothingPaid(k) /\ Held(k)
  <2>1. CASE j = k
    BY <1>6, <2>1, DonationHeld
  <2>2. CASE j # k
    BY <1>3, <1>6, <2>2, GiveSol, GiveTokens
  <2> QED
    BY <2>1, <2>2
<1>7. ASSUME NEW j \in Keys, RefundSolLink(j) \/ RefundTokenLink(j)
      PROVE  /\ Gone(k) \/ Held(k)
             /\ clock > link[k].expiry => NothingPaid(k)
  <2>1. PICK u \in LinkUsers : TRUE
    BY <1>1, Components DEF Inv
  <2> QED
    BY <1>5, <1>7
<1> QED
  BY <1>2, <1>4, <1>5, <1>6, <1>7 DEF LinksNext

(* After the expiry of a link only its sender gets anything out of it.     *)
THEOREM LateGoesHome == LinksSpec => LateLinksGoHome
<1>1. ASSUME Inv, [LinksNext]_linkVars
      PROVE  [\A k \in inUse : clock > link[k].expiry =>
                  /\ past'[k].lamports.paid = 0
                  /\ past'[k].tokens.paid = 0]_linkVars
  BY <1>1, OpenStep DEF NothingPaid
<1> QED
  BY <1>1, Invariance, PTL DEF LinksSpec, LateLinksGoHome

(* Until it is settled a link keeps its terms and its holdings.            *)
THEOREM KeptUntilSettled == LinksSpec => HeldUntilSettled
<1>1. ASSUME Inv, [LinksNext]_linkVars
      PROVE  [\A k \in inUse :
                 \/ past'[k].outcome \in {"claimed", "refunded"} /\ k \notin inUse'
                 \/ /\ k \in inUse' /\ link'[k] = link[k]
                    /\ lamports'[k] >= lamports[k] /\ vaults'[k] >= vaults[k]]_linkVars
  BY <1>1, OpenStep DEF Gone, Held
<1> QED
  BY <1>1, Invariance, PTL DEF LinksSpec, HeldUntilSettled

-----------------------------------------------------------------------------
(* The refinement: every step is a step of the escrow, or none.            *)

LEMMA EscrowStart == LinksInit => E!Init
<1> SUFFICES ASSUME LinksInit PROVE E!Init
  OBVIOUS
<1>1. inUse = {}
  BY DEF LinksInit, inUse
<1>2. Late = {}
  BY <1>1 DEF Late
<1> QED
  BY <1>1, <1>2 DEF LinksInit, E!Init, E!sealed

LEMMA OtherBoxes ==
    ASSUME Inv, NEW k \in Keys, Only(k)
    PROVE  E!OthersUnchanged(k)
<1>1. ASSUME NEW j \in Keys \ {k} PROVE Same(j)
  BY <1>1 DEF Only
<1>2. inUse \subseteq Keys
  BY DEF Inv, LinksTypeOK
<1> QED
  BY <1>1, <1>2 DEF E!OthersUnchanged, E!sealed, Same

(* Only time, and the end of a link, change which of them are late.        *)
LEMMA LateKept ==
    ASSUME Inv, LinksTypeOK', clock' = clock, NEW k \in Keys, Only(k)
    PROVE  /\ (k \in Late' <=> k \in Late) => Late' = Late
           /\ k \notin inUse' => Late' = Late \ {k}
<1>1. \A j \in Keys \ {k} : j \in Late' <=> j \in Late
  BY DEF Only, Same, Late
<1>2. Late \subseteq Keys /\ Late' \subseteq Keys
  BY DEF Inv, LinksTypeOK, Late
<1>3. k \notin inUse' => k \notin Late'
  BY DEF Late
<1> QED
  BY <1>1, <1>2, <1>3

LEMMA OpenChanges ==
    ASSUME Inv, LinksTypeOK', NEW k \in Keys, Only(k)
    PROVE  /\ k \in inUse' => inUse' = inUse \cup {k}
           /\ k \notin inUse' => inUse' = inUse \ {k}
BY DEF Inv, LinksTypeOK, Only, Same

Spends(u, x, y) ==
    /\ sol' = [sol EXCEPT ![u] = @ - x]
    /\ tokens' = [tokens EXCEPT ![u] = @ - y]

(* Creation seals the box, and its sender pays for all of it.              *)
LEMMA OpenedSeals ==
    ASSUME Inv, LinksTypeOK', NEW k \in Keys, k \notin inUse, Only(k), Safe(k)', clock' = clock,
           NEW u \in LinkUsers, NEW isSol \in BOOLEAN, NEW amount \in Nat,
           NEW t \in Int, clock < t, NEW x \in Nat, NEW y \in Nat,
           Opened(k, u, isSol, amount, t, x, y), Spends(u, x, y),
           lamports'[k] + (IF isSol THEN 0 ELSE VaultRent) = lamports[k] + x,
           vaults'[k] = vaults[k] + y
    PROVE  E!Seal(k, u)
<1>1. /\ k \in inUse' /\ link'[k].sender = u /\ link'[k].isSol = isSol
      /\ link'[k].amount = amount /\ link'[k].expiry = t
  BY DEF Opened, inUse
<1>2. inUse' = inUse \cup {k} /\ inUse \subseteq Keys
  BY <1>1, OpenChanges DEF Inv, LinksTypeOK
<1>3. Late' = Late
  <2>1. k \notin Late /\ k \notin Late'
    BY <1>1, TimesOfLinks DEF Late, Inv, LinksTypeOK
  <2> QED
    BY <2>1, LateKept
<1>4. /\ lamports[k] \in Nat /\ vaults[k] \in Nat
      /\ lamports'[k] \in Nat /\ vaults'[k] \in Nat /\ VaultRent \in Nat /\ ClaimRent \in Nat
      /\ sol'[u] \in Nat /\ tokens'[u] \in Nat
  BY Rents DEF Inv, LinksTypeOK
<1>5. /\ isSol => lamports'[k] >= ClaimRent + amount
      /\ ~isSol => vaults'[k] >= amount
  BY <1>1 DEF Safe, SafeOpen
<1>6. E!Covered(k)'
  BY <1>1, <1>4, <1>5 DEF E!Covered
<1>7. E!PaidBy(u, k)
  <2> DEFINE coins == lamports[k] + (IF k \in inUse /\ ~link[k].isSol THEN VaultRent ELSE 0)
             more == lamports'[k] + (IF k \in inUse' /\ ~link'[k].isSol THEN VaultRent ELSE 0)
  <2>1. coins = lamports[k] /\ more = lamports[k] + x
    BY <1>1, <1>4
  <2>2. coins <= more /\ more - coins = x /\ vaults[k] <= vaults'[k] /\ vaults'[k] - vaults[k] = y
    BY <1>4, <2>1
  <2> HIDE DEF coins, more
  <2>3. /\ sol' = [sol EXCEPT ![u] = @ - (more - coins)]
        /\ tokens' = [tokens EXCEPT ![u] = @ - (vaults'[k] - vaults[k])]
    BY <2>2 DEF Spends
  <2>4. sol'[u] >= 0 /\ tokens'[u] >= 0
    BY <1>4
  <2> QED
    BY <2>2, <2>3, <2>4 DEF E!PaidBy, coins, more
<1>8. E!OthersUnchanged(k)
  BY OtherBoxes
<1> QED
  BY <1>1, <1>2, <1>3, <1>6, <1>7, <1>8 DEF E!Seal, E!sealed

LEMMA CreateSeals ==
    ASSUME Inv, NEW k \in Keys, NEW u \in LinkUsers, NEW amount \in LinkAmounts, NEW t \in LinkTimes,
           CreateSolLink(u, k, amount, t) \/ CreateTokenLink(u, k, amount, t)
    PROVE  E!Seal(k, u)
<1>1. /\ LinksTypeOK' /\ Safe(k)' /\ Only(k)
      /\ LinksTypeOK /\ amount \in Nat /\ t \in Int /\ 0 \in Nat
      /\ lamports[k] \in Nat /\ vaults[k] \in Nat
      /\ RentDue(k) \in Nat /\ RentDue(k) + amount \in Nat /\ RentDue(k) + VaultRent \in Nat
  <2>1. LinksTypeOK' /\ Safe(k)' /\ Only(k)
    BY CreateSol, CreateToken
  <2> QED
    BY <2>1, AmountsOfLinks, TimesOfLinks, Components, RentCovers, Rents DEF Inv
<1>2. CASE CreateSolLink(u, k, amount, t)
  <2>1. /\ k \notin inUse /\ clock < t /\ clock' = clock
        /\ Opened(k, u, TRUE, amount, t, RentDue(k) + amount, 0)
        /\ sol' = [sol EXCEPT ![u] = @ - (RentDue(k) + amount)] /\ tokens' = tokens
        /\ lamports' = [lamports EXCEPT ![k] = @ + (RentDue(k) + amount)] /\ vaults' = vaults
    BY <1>1, <1>2, TimesOfLinks DEF CreateSolLink, LinkVacant, Escrow, LinksTypeOK
  <2>2. Spends(u, RentDue(k) + amount, 0)
    BY <1>1, <2>1 DEF Spends, LinksTypeOK
  <2>3. /\ lamports'[k] + (IF TRUE THEN 0 ELSE VaultRent) = lamports[k] + (RentDue(k) + amount)
        /\ vaults'[k] = vaults[k] + 0
    BY <1>1, <2>1 DEF LinksTypeOK
  <2> QED
    BY <1>1, <2>1, <2>2, <2>3, OpenedSeals
<1>3. CASE CreateTokenLink(u, k, amount, t)
  <2>1. /\ k \notin inUse /\ clock < t /\ clock' = clock
        /\ Opened(k, u, FALSE, amount, t, RentDue(k) + VaultRent, amount)
        /\ Spends(u, RentDue(k) + VaultRent, amount)
        /\ lamports' = [lamports EXCEPT ![k] = @ + RentDue(k)]
        /\ vaults' = [vaults EXCEPT ![k] = @ + amount]
    BY <1>1, <1>3, TimesOfLinks DEF CreateTokenLink, LinkVacant, Spends, LinksTypeOK
  <2>2. /\ lamports'[k] + (IF FALSE THEN 0 ELSE VaultRent) = lamports[k] + (RentDue(k) + VaultRent)
        /\ vaults'[k] = vaults[k] + amount
    BY <1>1, <2>1, Rents DEF LinksTypeOK
  <2> QED
    BY <1>1, <2>1, <2>2, OpenedSeals
<1> QED
  BY <1>2, <1>3

(* Donations are gifts.                                                    *)
LEMMA DonationGives ==
    ASSUME Inv, NEW k \in Keys, NEW u \in LinkUsers, NEW amount \in LinkAmounts,
           DonateLamports(u, k, amount) \/ DonateTokens(u, k, amount)
    PROVE  E!Gift(k, u)
<1>1. /\ LinksTypeOK /\ LinksTypeOK' /\ Only(k) /\ clock' = clock /\ link' = link /\ amount \in Nat
  <2>1. LinksTypeOK' /\ Only(k)
    BY GiveSol, GiveTokens
  <2> QED
    BY <2>1, AmountsOfLinks DEF Inv, DonateLamports, DonateTokens
<1>2. inUse' = inUse /\ Late' = Late
  BY <1>1 DEF inUse, Late
<1>3. E!OthersUnchanged(k)
  BY <1>1, OtherBoxes
<1> DEFINE rent == IF k \in inUse /\ ~link[k].isSol THEN VaultRent ELSE 0
<1>4. /\ lamports[k] \in Nat /\ vaults[k] \in Nat /\ sol'[u] \in Nat /\ tokens'[u] \in Nat
      /\ rent \in Nat
  BY <1>1, Rents DEF LinksTypeOK
<1>5. E!PaidBy(u, k)
  <2> DEFINE more == IF k \in inUse' /\ ~link'[k].isSol THEN VaultRent ELSE 0
  <2>1. more = rent
    BY <1>1, <1>2
  <2> HIDE DEF rent, more
  <2>2. /\ lamports[k] + rent <= lamports'[k] + more /\ vaults[k] <= vaults'[k]
        /\ sol' = [sol EXCEPT ![u] = @ - ((lamports'[k] + more) - (lamports[k] + rent))]
        /\ tokens' = [tokens EXCEPT ![u] = @ - (vaults'[k] - vaults[k])]
    <3>1. CASE DonateLamports(u, k, amount)
      <4>1. lamports'[k] = lamports[k] + amount /\ vaults' = vaults /\ tokens' = tokens
        BY <1>1, <3>1 DEF DonateLamports, LinksTypeOK
      <4>2. (lamports'[k] + more) - (lamports[k] + rent) = amount /\ vaults'[k] - vaults[k] = 0
        BY <1>1, <1>4, <2>1, <4>1
      <4>3. tokens' = [tokens EXCEPT ![u] = @ - 0]
        BY <1>1, <4>1 DEF LinksTypeOK
      <4>4. lamports[k] + rent <= lamports'[k] + more /\ vaults[k] <= vaults'[k]
        BY <1>1, <1>4, <2>1, <4>1
      <4> QED
        BY <3>1, <4>2, <4>3, <4>4 DEF DonateLamports
    <3>2. CASE DonateTokens(u, k, amount)
      <4>1. vaults'[k] = vaults[k] + amount /\ lamports' = lamports /\ sol' = sol
        BY <1>1, <3>2 DEF DonateTokens, LinksTypeOK
      <4>2. (lamports'[k] + more) - (lamports[k] + rent) = 0 /\ vaults'[k] - vaults[k] = amount
        BY <1>1, <1>4, <2>1, <4>1
      <4>3. sol' = [sol EXCEPT ![u] = @ - 0]
        BY <1>1, <4>1 DEF LinksTypeOK
      <4>4. lamports[k] + rent <= lamports'[k] + more /\ vaults[k] <= vaults'[k]
        BY <1>1, <1>4, <2>1, <4>1
      <4> QED
        BY <3>2, <4>2, <4>3, <4>4 DEF DonateTokens
    <3> QED
      BY <3>1, <3>2
  <2>3. sol'[u] >= 0 /\ tokens'[u] >= 0
    BY <1>4
  <2> QED
    BY <2>2, <2>3 DEF E!PaidBy, rent, more
<1>6. \/ vaults'[k] = vaults[k]
      \/ k \in inUse /\ ~link[k].isSol
  <2>1. CASE DonateLamports(u, k, amount)
    BY <2>1 DEF DonateLamports
  <2>2. CASE DonateTokens(u, k, amount)
    BY <2>2 DEF DonateTokens
  <2> QED
    BY <2>1, <2>2
<1> HIDE DEF rent
<1> QED
  BY <1>1, <1>2, <1>3, <1>5, <1>6 DEF E!Gift, E!sealed

Added(balance, u, x) == [balance EXCEPT ![u] = @ + x]

(* A credit of nothing, and a credit to one user only.                     *)
LEMMA CreditNothing ==
    ASSUME NEW balance \in [LinkUsers -> Nat], NEW u \in LinkUsers, NEW m \in LinkUsers, NEW x \in Nat
    PROVE  /\ Credit(balance, u, 0, m, 0) = balance
           /\ Credit(balance, u, x, m, 0) = Added(balance, u, x)
           /\ Credit(balance, u, 0, m, x) = Added(balance, m, x)
<1>1. ASSUME NEW w \in LinkUsers, NEW p \in Nat, NEW v \in LinkUsers
      PROVE  [balance EXCEPT ![v] = @ + p][w] = balance[w] + (IF w = v THEN p ELSE 0)
  OBVIOUS
<1>2. ASSUME NEW w \in LinkUsers
      PROVE  /\ Credit(balance, u, 0, m, 0)[w] = balance[w]
             /\ Credit(balance, u, x, m, 0)[w] = balance[w] + (IF w = u THEN x ELSE 0)
             /\ Credit(balance, u, 0, m, x)[w] = balance[w] + (IF w = m THEN x ELSE 0)
  BY DEF Credit
<1>3. /\ Credit(balance, u, 0, m, 0) \in [LinkUsers -> Nat]
      /\ Credit(balance, u, x, m, 0) \in [LinkUsers -> Nat]
      /\ Credit(balance, u, 0, m, x) \in [LinkUsers -> Nat]
  BY CreditNat
<1>4. /\ Added(balance, u, x) \in [LinkUsers -> Int] /\ Added(balance, m, x) \in [LinkUsers -> Int]
      /\ \A w \in LinkUsers : /\ Added(balance, u, x)[w] = balance[w] + (IF w = u THEN x ELSE 0)
                              /\ Added(balance, m, x)[w] = balance[w] + (IF w = m THEN x ELSE 0)
  BY <1>1 DEF Added
<1> QED
  BY <1>2, <1>3, <1>4

(* Settlements: whoever is named gets the prize, the sender the rest.      *)
LEMMA ClosedEmpties ==
    ASSUME Inv, LinksTypeOK', NEW k \in inUse, Only(k), clock' = clock, k \notin inUse',
           lamports'[k] = 0, vaults'[k] = 0,
           NEW u \in LinkUsers, NEW x \in Nat, NEW y \in Nat,
           LET coins == lamports[k] + (IF link[k].isSol THEN 0 ELSE VaultRent)
           IN  /\ sol' = Credit(sol, u, x, link[k].sender, coins - x)
               /\ tokens' = Credit(tokens, u, y, link[k].sender, vaults[k] - y)
    PROVE  E!Emptied(k, u, x, y)
<1>1. /\ k \in Keys /\ inUse' = inUse \ {k} /\ Late' = Late \ {k}
      /\ lamports[k] \in Nat /\ vaults[k] \in Nat /\ VaultRent \in Nat
      /\ sol \in [LinkUsers -> Nat] /\ tokens \in [LinkUsers -> Nat]
  BY OpenChanges, LateKept, Rents DEF Inv, LinksTypeOK
<1>2. E!OthersUnchanged(k)
  BY <1>1, OtherBoxes
<1> DEFINE coins == lamports[k] + (IF k \in inUse /\ ~link[k].isSol THEN VaultRent ELSE 0)
<1>3. coins = lamports[k] + (IF link[k].isSol THEN 0 ELSE VaultRent) /\ coins \in Nat
  BY <1>1
<1> HIDE DEF coins
<1>4. /\ sol' = [v \in LinkUsers |-> sol[v] + ((IF v = u THEN x ELSE 0)
                                            + (IF v = link[k].sender THEN coins - x ELSE 0))]
      /\ tokens' = [v \in LinkUsers |-> tokens[v] + ((IF v = u THEN y ELSE 0)
                                        + (IF v = link[k].sender THEN vaults[k] - y ELSE 0))]
  BY <1>1, <1>3 DEF Credit
<1> QED
  BY <1>1, <1>2, <1>3, <1>4 DEF E!Emptied, E!sealed, coins

LEMMA ClaimRedeems ==
    ASSUME Inv, NEW k \in Keys, NEW u \in LinkUsers, ClaimSolLink(k, u) \/ ClaimTokenLink(k, u)
    PROVE  E!Redeem(k, u)
<1>1. /\ LinksTypeOK /\ LinksTypeOK' /\ Only(k) /\ k \in inUse /\ clock' = clock /\ SafeOpen(k)
      /\ k \notin Late /\ lamports'[k] = 0 /\ k \notin inUse'
  <2>1. LinksTypeOK' /\ Only(k)
    BY ClaimSol, ClaimToken
  <2>2. k \in inUse /\ clock' = clock /\ lamports'[k] = 0 /\ k \notin inUse'
    BY DEF ClaimSolLink, ClaimTokenLink, Closed, inUse, Inv, LinksTypeOK
  <2>3. k \notin Late
    <3>1. clock <= link[k].expiry
      BY DEF ClaimSolLink, ClaimTokenLink, InTime
    <3>2. clock \in Int /\ link[k].expiry \in Int
      BY <2>2, TimesOfLinks, Components DEF Inv, LinksTypeOK
    <3> QED
      BY <3>1, <3>2 DEF Late
  <2> QED
    BY <2>1, <2>2, <2>3 DEF Inv, Safe
<1>2. /\ link[k].sender \in LinkUsers /\ link[k].amount \in Nat
      /\ lamports[k] \in Nat /\ vaults[k] \in Nat /\ ClaimRent \in Nat /\ VaultRent \in Nat
      /\ sol \in [LinkUsers -> Nat] /\ tokens \in [LinkUsers -> Nat]
  BY <1>1, Components, Rents DEF LinksTypeOK
<1>3. E!Covered(k)
  BY <1>1, <1>2 DEF E!Covered, SafeOpen
<1>4. CASE ClaimSolLink(k, u)
  <2>1. /\ link[k].isSol /\ vaults' = vaults /\ tokens' = tokens /\ vaults[k] = 0
        /\ sol' = Credit(sol, u, link[k].amount, link[k].sender, lamports[k] - link[k].amount)
    BY <1>1, <1>4 DEF ClaimSolLink, Kind, SolPayout, SafeOpen
  <2>2. tokens' = Credit(tokens, u, 0, link[k].sender, vaults[k] - 0)
    <3>1. vaults[k] - 0 = 0
      BY <2>1
    <3> QED
      BY <1>2, <2>1, <3>1, CreditNothing
  <2>3. lamports[k] + (IF link[k].isSol THEN 0 ELSE VaultRent) = lamports[k]
    BY <1>2, <2>1
  <2>4. E!Emptied(k, u, link[k].amount, 0)
    BY <1>1, <1>2, <2>1, <2>2, <2>3, ClosedEmpties
  <2> QED
    BY <1>1, <1>3, <2>1, <2>4 DEF E!Redeem, E!sealed
<1>5. CASE ClaimTokenLink(k, u)
  <2>1. /\ ~link[k].isSol /\ vaults'[k] = 0
        /\ sol' = [sol EXCEPT ![link[k].sender] = @ + (lamports[k] + VaultRent)]
        /\ tokens' = [tokens EXCEPT ![u] = @ + vaults[k]]
    BY <1>1, <1>5 DEF ClaimTokenLink, Kind, LinksTypeOK
  <2>2. /\ sol' = Credit(sol, u, 0, link[k].sender, (lamports[k] + VaultRent) - 0)
        /\ tokens' = Credit(tokens, u, vaults[k], link[k].sender, vaults[k] - vaults[k])
    <3>1. PICK p \in Nat : p = lamports[k] + VaultRent
      BY <1>2
    <3>2. vaults[k] - vaults[k] = 0 /\ (lamports[k] + VaultRent) - 0 = p
      BY <1>2, <3>1
    <3>3. Credit(sol, u, 0, link[k].sender, p) = Added(sol, link[k].sender, p)
      BY <1>2, CreditNothing
    <3>4. Credit(tokens, u, vaults[k], link[k].sender, 0) = Added(tokens, u, vaults[k])
      BY <1>2, CreditNothing
    <3>5. /\ sol' = Added(sol, link[k].sender, p)
          /\ tokens' = Added(tokens, u, vaults[k])
      BY <2>1, <3>1 DEF Added
    <3> QED
      BY <3>2, <3>3, <3>4, <3>5
  <2>3. lamports[k] + (IF link[k].isSol THEN 0 ELSE VaultRent) = lamports[k] + VaultRent
    BY <2>1
  <2>4. E!Emptied(k, u, 0, vaults[k])
    <3>1. PICK y \in Nat : y = vaults[k]
      BY <1>2
    <3>2. LET coins == lamports[k] + (IF link[k].isSol THEN 0 ELSE VaultRent)
          IN  /\ sol' = Credit(sol, u, 0, link[k].sender, coins - 0)
              /\ tokens' = Credit(tokens, u, y, link[k].sender, vaults[k] - y)
      BY <2>2, <2>3, <3>1
    <3>3. E!Emptied(k, u, 0, y)
      BY <1>1, <1>2, <2>1, <3>2, ClosedEmpties
    <3> QED
      BY <3>1, <3>3 DEF E!Emptied
  <2> QED
    BY <1>1, <1>3, <2>1, <2>4 DEF E!Redeem, E!sealed
<1> QED
  BY <1>4, <1>5

LEMMA RefundReclaims ==
    ASSUME Inv, NEW k \in Keys, RefundSolLink(k) \/ RefundTokenLink(k)
    PROVE  E!Reclaim(k)
<1>1. /\ LinksTypeOK /\ LinksTypeOK' /\ Only(k) /\ k \in inUse /\ clock' = clock /\ SafeOpen(k)
      /\ lamports'[k] = 0 /\ k \notin inUse'
  <2>1. LinksTypeOK' /\ Only(k)
    BY RefundSol, RefundToken
  <2>2. k \in inUse /\ clock' = clock /\ lamports'[k] = 0 /\ k \notin inUse'
    BY DEF RefundSolLink, RefundTokenLink, Closed, inUse, Inv, LinksTypeOK
  <2> QED
    BY <2>1, <2>2 DEF Inv, Safe
<1>2. /\ link[k].sender \in LinkUsers
      /\ lamports[k] \in Nat /\ vaults[k] \in Nat /\ VaultRent \in Nat
      /\ sol \in [LinkUsers -> Nat] /\ tokens \in [LinkUsers -> Nat]
  BY <1>1, Components, Rents DEF LinksTypeOK
<1> DEFINE m == link[k].sender
           coins == lamports[k] + (IF link[k].isSol THEN 0 ELSE VaultRent)
<1>3. /\ vaults'[k] = 0
      /\ sol' = Credit(sol, m, 0, m, coins - 0)
      /\ tokens' = Credit(tokens, m, 0, m, vaults[k] - 0)
  <2>1. CASE RefundSolLink(k)
    <3>1. /\ link[k].isSol /\ vaults' = vaults /\ tokens' = tokens /\ vaults[k] = 0
          /\ sol' = [sol EXCEPT ![m] = @ + lamports[k]]
      BY <1>1, <2>1 DEF RefundSolLink, Kind, SafeOpen
    <3>2. coins - 0 = lamports[k] /\ vaults[k] - 0 = 0 /\ vaults'[k] = 0
      BY <1>2, <3>1
    <3>3. Credit(sol, m, 0, m, lamports[k]) = Added(sol, m, lamports[k])
      BY <1>2, CreditNothing
    <3>4. Credit(tokens, m, 0, m, 0) = tokens
      BY <1>2, CreditNothing
    <3> HIDE DEF m, coins
    <3>5. sol' = Added(sol, m, lamports[k])
      BY <3>1 DEF Added
    <3> QED
      BY <3>1, <3>2, <3>3, <3>4, <3>5
  <2>2. CASE RefundTokenLink(k)
    <3>1. /\ ~link[k].isSol /\ vaults'[k] = 0
          /\ tokens' = [tokens EXCEPT ![m] = @ + vaults[k]]
          /\ sol' = [sol EXCEPT ![m] = @ + (lamports[k] + VaultRent)]
      BY <1>1, <2>2 DEF RefundTokenLink, Kind, LinksTypeOK
    <3>2. PICK p \in Nat : p = lamports[k] + VaultRent
      BY <1>2
    <3>3. coins - 0 = p /\ vaults[k] - 0 = vaults[k]
      BY <1>2, <3>1, <3>2
    <3>4. Credit(sol, m, 0, m, p) = Added(sol, m, p)
      BY <1>2, CreditNothing
    <3>5. Credit(tokens, m, 0, m, vaults[k]) = Added(tokens, m, vaults[k])
      BY <1>2, CreditNothing
    <3> HIDE DEF m, coins
    <3>6. sol' = Added(sol, m, p) /\ tokens' = Added(tokens, m, vaults[k])
      BY <3>1, <3>2 DEF Added
    <3> QED
      BY <3>1, <3>3, <3>4, <3>5, <3>6
  <2> QED
    BY <2>1, <2>2
<1>4. E!Emptied(k, m, 0, 0)
  BY <1>1, <1>2, <1>3, ClosedEmpties
<1> QED
  BY <1>1, <1>4 DEF E!Reclaim, E!sealed

LEMMA TickLapses == Inv /\ LinksTick => E!Lapse
<1> SUFFICES ASSUME Inv, LinksTick PROVE E!Lapse
  OBVIOUS
<1>1. /\ clock' > clock /\ clock \in Int /\ clock' \in Int
      /\ UNCHANGED <<link, lamports, vaults, sol, tokens>>
  BY TimesOfLinks DEF Inv, LinksTypeOK, LinksTick
<1>2. inUse' = inUse /\ \A k \in inUse : link[k].expiry \in Int
  BY <1>1 DEF inUse, Inv, LinksTypeOK, Link
<1>3. Late \subseteq Late' /\ Late' \subseteq inUse
  BY <1>1, <1>2 DEF Late
<1> QED
  BY <1>1, <1>2, <1>3 DEF E!Lapse, E!sealed

LEMMA EscrowStep == Inv /\ [LinksNext]_linkVars => [E!Next]_(E!vars)
<1> SUFFICES ASSUME Inv, [LinksNext]_linkVars PROVE [E!Next]_(E!vars)
  OBVIOUS
<1>1. CASE UNCHANGED linkVars
  BY <1>1 DEF linkVars, E!vars, Late, inUse
<1>2. CASE LinksTick
  BY <1>2, TickLapses DEF E!Next
<1>3. ASSUME NEW k \in Keys, NEW u \in LinkUsers, NEW amount \in LinkAmounts, NEW t \in LinkTimes,
             CreateSolLink(u, k, amount, t) \/ CreateTokenLink(u, k, amount, t)
      PROVE  E!Next
  BY <1>3, CreateSeals DEF E!Next
<1>4. ASSUME NEW k \in Keys, NEW u \in LinkUsers, ClaimSolLink(k, u) \/ ClaimTokenLink(k, u)
      PROVE  E!Next
  BY <1>4, ClaimRedeems DEF E!Next
<1>5. ASSUME NEW k \in Keys, RefundSolLink(k) \/ RefundTokenLink(k)
      PROVE  E!Next
  BY <1>5, RefundReclaims DEF E!Next
<1>6. ASSUME NEW k \in Keys, NEW u \in LinkUsers, NEW amount \in LinkAmounts,
             DonateLamports(u, k, amount) \/ DonateTokens(u, k, amount)
      PROVE  E!Next
  BY <1>6, DonationGives DEF E!Next
<1> QED
  BY <1>1, <1>2, <1>3, <1>4, <1>5, <1>6 DEF LinksNext

(* Claim links implement an escrow: a link keeps its terms and holdings    *)
(* until it ends, and when it ends the recipient of a claim in time gets   *)
(* the prize and the sender everything else.                               *)
THEOREM Implements == LinksSpec => ImplementsEscrow
<1>1. LinksInit => E!Init
  BY EscrowStart
<1>2. Inv /\ [LinksNext]_linkVars => [E!Next]_(E!vars)
  BY EscrowStep
<1> QED
  BY <1>1, <1>2, Invariance, PTL DEF LinksSpec, ImplementsEscrow, E!Spec
=============================================================================
