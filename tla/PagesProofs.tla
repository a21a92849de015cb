----------------------------- MODULE PagesProofs -----------------------------
(***************************************************************************)
(* What holds of the wallet's pages in every world: the ledger they act    *)
(* on, the forms, the transactions of others, the stealth keys and their   *)
(* hashes are all arbitrary.                                               *)
(***************************************************************************)
EXTENDS Pages, FiniteSetTheorems, WellFoundedInduction, SequenceTheorems, TLAPS

-----------------------------------------------------------------------------
(* Lists.                                                                  *)

IsList(s) == s \in Seq(Range(s))

LEMMA ListIs ==
    ASSUME NEW s, IsList(s)
    PROVE  /\ Len(s) \in Nat /\ DOMAIN s = 1 .. Len(s)
           /\ \A i \in 1 .. Len(s) : s[i] \in Range(s)
BY DEF IsList, Range

LEMMA ListIntro ==
    ASSUME NEW S, NEW s \in Seq(S)
    PROVE  IsList(s)
<1>1. Len(s) \in Nat /\ s \in [1 .. Len(s) -> S] OBVIOUS
<1>2. s \in [1 .. Len(s) -> Range(s)] BY <1>1 DEF Range
<1> QED BY <1>1, <1>2 DEF IsList

LEMMA ListAppend ==
    ASSUME NEW s, IsList(s), NEW e
    PROVE  /\ IsList(Append(s, e))
           /\ Len(Append(s, e)) = Len(s) + 1
           /\ Append(s, e)[Len(s) + 1] = e
           /\ \A i \in 1 .. Len(s) : Append(s, e)[i] = s[i]
<1>1. PICK S : S = Range(s) \cup {e} OBVIOUS
<1>2. s \in Seq(S) /\ e \in S BY <1>1 DEF IsList
<1>3. /\ Append(s, e) \in Seq(S) /\ Len(Append(s, e)) = Len(s) + 1 /\ Len(s) \in Nat
      /\ Append(s, e)[Len(s) + 1] = e
      /\ \A i \in 1 .. Len(s) : Append(s, e)[i] = s[i]
  BY <1>2
<1>4. IsList(Append(s, e)) BY <1>3, ListIntro
<1> QED BY <1>3, <1>4

LEMMA ListConcat ==
    ASSUME NEW s, IsList(s), NEW t, IsList(t)
    PROVE  /\ IsList(s \o t)
           /\ Len(s \o t) = Len(s) + Len(t)
           /\ \A i \in 1 .. Len(s) : (s \o t)[i] = s[i]
           /\ \A i \in 1 .. Len(t) : (s \o t)[Len(s) + i] = t[i]
<1>0. PICK S : S = Range(s) \cup Range(t) OBVIOUS
<1>1. s \in Seq(S) /\ t \in Seq(S) BY <1>0 DEF IsList
<1>2. s \o t \in Seq(S) BY <1>1
<1>3. Len(s) \in Nat /\ Len(t) \in Nat BY <1>1
<1>4. \A i \in 1 .. Len(s) + Len(t) : (s \o t)[i] = IF i <= Len(s) THEN s[i] ELSE t[i - Len(s)]
  BY <1>1
<1>5. \A i \in 1 .. Len(t) : (s \o t)[Len(s) + i] = t[i]
  <2> TAKE i \in 1 .. Len(t)
  <2>1. Len(s) + i \in 1 .. Len(s) + Len(t) /\ ~(Len(s) + i <= Len(s)) /\ Len(s) + i - Len(s) = i
    BY <1>3
  <2> QED BY <1>4, <2>1
<1>6. Len(s \o t) = Len(s) + Len(t) BY <1>1
<1>7. \A i \in 1 .. Len(s) : (s \o t)[i] = s[i]
  <2> TAKE i \in 1 .. Len(s)
  <2>1. i \in 1 .. Len(s) + Len(t) /\ i <= Len(s) BY <1>3
  <2> QED BY <1>4, <2>1
<1>8. IsList(s \o t) BY <1>2, ListIntro
<1> QED BY <1>5, <1>6, <1>7, <1>8

LEMMA Lists ==
    /\ IsList(<<>>) /\ Len(<<>>) = 0
    /\ \A x : IsList(<<x>>) /\ Len(<<x>>) = 1 /\ <<x>>[1] = x
    /\ \A x, y : IsList(<<x, y>>) /\ Len(<<x, y>>) = 2
    /\ \A x, y, z : IsList(<<x, y, z>>) /\ Len(<<x, y, z>>) = 3
    /\ \A x, y, z, w : IsList(<<x, y, z, w>>) /\ Len(<<x, y, z, w>>) = 4
<1>1. <<>> \in Seq({}) OBVIOUS
<1>2. \A x : <<x>> \in Seq({x}) OBVIOUS
<1>3. \A x, y : <<x, y>> \in Seq({x, y}) OBVIOUS
<1>4. \A x, y, z : <<x, y, z>> \in Seq({x, y, z}) OBVIOUS
<1>5. \A x, y, z, w : <<x, y, z, w>> \in Seq({x, y, z, w}) OBVIOUS
<1> QED BY <1>1, <1>2, <1>3, <1>4, <1>5, ListIntro

-----------------------------------------------------------------------------
(* The ledger: whatever instructions are run, refused or not, it keeps its *)
(* shape, and its feed only grows.                                         *)

Dos == {"pay", "open", "move", "close", "sync", "link", "lock", "nft", "wipe", "emit", "refuse"}
StepOK(s) == s.do \in Dos /\ (s.do = "refuse" => s.why # "")
AllOK(steps) == IsList(steps) /\ \A i \in 1 .. Len(steps) : StepOK(steps[i])

Grows(L, M) ==
    /\ IsLedger(M)
    /\ M.ok => L.ok
    /\ Len(L.feed) <= Len(M.feed)
    /\ \A i \in 1 .. Len(L.feed) : M.feed[i] = L.feed[i]

LEMMA FeedIsList ==
    ASSUME NEW L, IsLedger(L)
    PROVE  IsList(L.feed) /\ Len(L.feed) \in Nat /\ DOMAIN L.feed = 1 .. Len(L.feed)
<1>1. IsList(L.feed) BY DEF IsLedger, IsList
<1> QED BY <1>1, ListIs

LEMMA GrowsRefl ==
    ASSUME NEW L, IsLedger(L)
    PROVE  Grows(L, L)
BY FeedIsList DEF Grows

LEMMA GrowsTrans ==
    ASSUME NEW L, NEW M, NEW N, IsLedger(L), Grows(L, M), Grows(M, N)
    PROVE  Grows(L, N)
<1>1. IsLedger(M) /\ IsLedger(N) BY DEF Grows
<1>2. Len(L.feed) \in Nat /\ Len(M.feed) \in Nat /\ Len(N.feed) \in Nat BY <1>1, FeedIsList
<1> QED BY <1>1, <1>2 DEF Grows

LEMMA SameFeed ==
    ASSUME NEW L, NEW M, IsLedger(L), IsLedger(M), M.feed = L.feed, M.ok => L.ok
    PROVE  Grows(L, M)
BY FeedIsList DEF Grows

LEMMA FieldKept ==
    ASSUME NEW L, IsLedger(L), NEW f \in LedgerFields \ {"ok", "why", "feed"}, NEW x
    PROVE  /\ IsLedger([L EXCEPT ![f] = x]) /\ Grows(L, [L EXCEPT ![f] = x])
           /\ [L EXCEPT ![f] = x].ok = L.ok /\ [L EXCEPT ![f] = x].feed = L.feed
<1>1. PICK M : M = [L EXCEPT ![f] = x] OBVIOUS
<1>2. DOMAIN M = LedgerFields /\ M.ok = L.ok /\ M.why = L.why /\ M.feed = L.feed
  BY <1>1 DEF IsLedger, LedgerFields
<1>3. IsLedger(M) BY <1>2 DEF IsLedger
<1> QED BY <1>1, <1>2, <1>3, SameFeed

LEMMA RefuseKept ==
    ASSUME NEW L, IsLedger(L), NEW why, why # ""
    PROVE  /\ IsLedger(Refuse(L, why)) /\ Grows(L, Refuse(L, why))
           /\ Refuse(L, why).ok = FALSE /\ Refuse(L, why).feed = L.feed
<1>1. PICK M : M = Refuse(L, why) OBVIOUS
<1>2. DOMAIN M = LedgerFields /\ M.ok = FALSE /\ M.why = why /\ M.feed = L.feed
  BY <1>1 DEF IsLedger, LedgerFields, Refuse
<1>3. IsLedger(M) BY <1>2 DEF IsLedger
<1> QED BY <1>1, <1>2, <1>3, SameFeed

LEMMA PayKeeps ==
    ASSUME NEW L, IsLedger(L), NEW from, NEW to, NEW n
    PROVE  IsLedger(Pay(L, from, to, n)) /\ Grows(L, Pay(L, from, to, n))
<1>1. CASE n \notin 0 .. At(L.lamports, from)
  BY <1>1, RefuseKept DEF Pay
<1>2. CASE n \in 0 .. At(L.lamports, from)
  <2>1. PICK x : x = Moved(L.lamports, from, to, n) OBVIOUS
  <2>2. Pay(L, from, to, n) = [L EXCEPT !["lamports"] = x] BY <1>2, <2>1 DEF Pay
  <2>3. "lamports" \in LedgerFields \ {"ok", "why", "feed"} BY DEF LedgerFields
  <2>4. IsLedger([L EXCEPT !["lamports"] = x]) /\ Grows(L, [L EXCEPT !["lamports"] = x])
    BY <2>3, FieldKept
  <2> QED BY <2>2, <2>4
<1> QED BY <1>1, <1>2

LEMMA OpenKeeps ==
    ASSUME NEW L, IsLedger(L), NEW payer, NEW account
    PROVE  Grows(L, OpenToken(L, payer, account))
<1>1. PICK M : M = Pay(L, payer, account, TokenRent) OBVIOUS
<1>2. IsLedger(M) /\ Grows(L, M) BY <1>1, PayKeeps
<1>3. PICK x : x = Set(M.tokens, account, 0) OBVIOUS
<1>4. OpenToken(L, payer, account) = IF M.ok THEN [M EXCEPT !["tokens"] = x] ELSE M
  BY <1>1, <1>3 DEF OpenToken
<1>5. "tokens" \in LedgerFields \ {"ok", "why", "feed"} BY DEF LedgerFields
<1>6. Grows(M, [M EXCEPT !["tokens"] = x]) BY <1>2, <1>5, FieldKept
<1> QED BY <1>2, <1>4, <1>6, GrowsTrans

LEMMA TwoFieldsKept ==
    ASSUME NEW L, IsLedger(L), NEW x, NEW y
    PROVE  Grows(L, [L EXCEPT !.tokens = x, !.lamports = y]) /\ Grows(L, [L EXCEPT !.lamports = x, !.tokens = y])
<1>1. {"tokens", "lamports"} \subseteq LedgerFields \ {"ok", "why", "feed"} BY DEF LedgerFields
<1>2. PICK M, N : M = [L EXCEPT !["tokens"] = x] /\ N = [L EXCEPT !["lamports"] = x] OBVIOUS
<1>3. IsLedger(M) /\ Grows(L, M) /\ IsLedger(N) /\ Grows(L, N) BY <1>1, <1>2, FieldKept
<1>4. Grows(M, [M EXCEPT !["lamports"] = y]) /\ Grows(N, [N EXCEPT !["tokens"] = y]) BY <1>1, <1>3, FieldKept
<1>5. /\ [L EXCEPT !.tokens = x, !.lamports = y] = [M EXCEPT !["lamports"] = y]
      /\ [L EXCEPT !.lamports = x, !.tokens = y] = [N EXCEPT !["tokens"] = y]
  BY <1>2
<1> QED BY <1>3, <1>4, <1>5, GrowsTrans

LEMMA MoveKeeps ==
    ASSUME NEW L, IsLedger(L), NEW from, NEW to, NEW n
    PROVE  Grows(L, MoveTokens(L, from, to, n))
<1>1. Grows(L, Refuse(L, "no account")) /\ Grows(L, Refuse(L, "funds")) BY RefuseKept
<1>2. PICK x : x = Moved(L.tokens, from, to, n) OBVIOUS
<1>3. PICK y : y = IF Native(from) THEN Moved(L.lamports, from, to, n) ELSE L.lamports OBVIOUS
<1>4. Grows(L, [L EXCEPT !.tokens = x, !.lamports = y]) BY TwoFieldsKept
<1> QED BY <1>1, <1>2, <1>3, <1>4 DEF MoveTokens

LEMMA CloseKeeps ==
    ASSUME NEW L, IsLedger(L), NEW account, NEW to
    PROVE  Grows(L, CloseToken(L, account, to))
<1>1. Grows(L, Refuse(L, "no account")) /\ Grows(L, Refuse(L, "not empty")) BY RefuseKept
<1>2. PICK x : x = Moved(L.lamports, account, to, At(L.lamports, account)) OBVIOUS
<1>3. PICK y : y = Without(L.tokens, account) OBVIOUS
<1>4. Grows(L, [L EXCEPT !.lamports = x, !.tokens = y]) BY TwoFieldsKept
<1> QED BY <1>1, <1>2, <1>3, <1>4 DEF CloseToken

LEMMA WipeKeeps ==
    ASSUME NEW L, IsLedger(L), NEW x, NEW y, NEW z
    PROVE  Grows(L, [L EXCEPT !.lamports = x, !.links = y, !.locks = z])
<1>1. PICK M : M = [L EXCEPT !.lamports = x, !.links = y, !.locks = z] OBVIOUS
<1>2. DOMAIN M = LedgerFields /\ M.ok = L.ok /\ M.why = L.why /\ M.feed = L.feed
  BY <1>1 DEF IsLedger, LedgerFields
<1>3. IsLedger(M) BY <1>2 DEF IsLedger
<1> QED BY <1>1, <1>2, <1>3, SameFeed

LEMMA EmitKeeps ==
    ASSUME NEW L, IsLedger(L), NEW e
    PROVE  /\ Grows(L, [L EXCEPT !.feed = Append(@, e)])
           /\ [L EXCEPT !.feed = Append(@, e)].feed = Append(L.feed, e)
<1>1. PICK M : M = [L EXCEPT !.feed = Append(@, e)] OBVIOUS
<1>2. /\ DOMAIN M = LedgerFields /\ M.ok = L.ok /\ M.why = L.why
      /\ M.feed = Append(L.feed, e)
  BY <1>1 DEF IsLedger, LedgerFields
<1>3. IsList(L.feed) /\ Len(L.feed) \in Nat BY FeedIsList
<1>4. IsList(M.feed) /\ Len(M.feed) = Len(L.feed) + 1 /\ \A i \in 1 .. Len(L.feed) : M.feed[i] = L.feed[i]
  BY <1>2, <1>3, ListAppend
<1>5. IsLedger(M) BY <1>2, <1>4 DEF IsLedger, IsList
<1> QED BY <1>1, <1>2, <1>3, <1>4, <1>5 DEF Grows

LEMMA DoKeeps ==
    ASSUME NEW L, IsLedger(L), NEW s, StepOK(s)
    PROVE  Grows(L, Do(L, s))
<1>0. L.ok \in BOOLEAN BY DEF IsLedger
<1>1. CASE ~L.ok
  <2>1. Do(L, s) = L BY <1>1 DEF Do
  <2> QED BY <2>1, GrowsRefl
<1>2. CASE L.ok
  <2>0. {"tokens", "links", "locks", "nfts"} \subseteq LedgerFields \ {"ok", "why", "feed"} BY DEF LedgerFields
  <2>1. CASE s.do = "pay"
    <3>1. Do(L, s) = Pay(L, s.from, s.to, s.n) BY <1>2, <2>1 DEF Do
    <3> QED BY <3>1, PayKeeps
  <2>2. CASE s.do = "open"
    <3>1. Do(L, s) = OpenToken(L, s.from, s.to) BY <1>2, <2>2 DEF Do
    <3> QED BY <3>1, OpenKeeps
  <2>3. CASE s.do = "move"
    <3>1. Do(L, s) = MoveTokens(L, s.from, s.to, s.n) BY <1>2, <2>3 DEF Do
    <3> QED BY <3>1, MoveKeeps
  <2>4. CASE s.do = "close"
    <3>1. Do(L, s) = CloseToken(L, s.from, s.to) BY <1>2, <2>4 DEF Do
    <3> QED BY <3>1, CloseKeeps
  <2>5. CASE s.do = "sync"
    <3>1. PICK x : x = [L.tokens EXCEPT ![s.to] = L.lamports[s.to] - TokenRent] OBVIOUS
    <3>2. Do(L, s) = [L EXCEPT !["tokens"] = x] BY <1>2, <2>5, <3>1 DEF Do
    <3>3. Grows(L, [L EXCEPT !["tokens"] = x]) BY <2>0, FieldKept
    <3> QED BY <3>2, <3>3
  <2>6. CASE s.do = "link"
    <3>1. PICK x : x = Set(L.links, s.to, s.as) OBVIOUS
    <3>2. Do(L, s) = [L EXCEPT !["links"] = x] BY <1>2, <2>6, <3>1 DEF Do
    <3>3. Grows(L, [L EXCEPT !["links"] = x]) BY <2>0, FieldKept
    <3> QED BY <3>2, <3>3
  <2>7. CASE s.do = "lock"
    <3>1. PICK x : x = Set(L.locks, s.to, s.as) OBVIOUS
    <3>2. Do(L, s) = [L EXCEPT !["locks"] = x] BY <1>2, <2>7, <3>1 DEF Do
    <3>3. Grows(L, [L EXCEPT !["locks"] = x]) BY <2>0, FieldKept
    <3> QED BY <3>2, <3>3
  <2>8. CASE s.do = "nft"
    <3>1. PICK x : x = Set(L.nfts, s.to, s.as) OBVIOUS
    <3>2. Do(L, s) = [L EXCEPT !["nfts"] = x] BY <1>2, <2>8, <3>1 DEF Do
    <3>3. Grows(L, [L EXCEPT !["nfts"] = x]) BY <2>0, FieldKept
    <3> QED BY <3>2, <3>3
  <2>9. CASE s.do = "wipe"
    <3>1. PICK x : x = Moved(L.lamports, s.from, s.to, At(L.lamports, s.from)) OBVIOUS
    <3>2. PICK y : y = Without(L.links, s.from) OBVIOUS
    <3>3. PICK z : z = Without(L.locks, s.from) OBVIOUS
    <3>4. Do(L, s) = [L EXCEPT !.lamports = x, !.links = y, !.locks = z]
      BY <1>2, <2>9, <3>1, <3>2, <3>3 DEF Do
    <3>5. Grows(L, [L EXCEPT !.lamports = x, !.links = y, !.locks = z]) BY WipeKeeps
    <3> QED BY <3>4, <3>5
  <2>10. CASE s.do = "emit"
    <3>1. Do(L, s) = [L EXCEPT !.feed = Append(@, s.as)] BY <1>2, <2>10 DEF Do
    <3> QED BY <3>1, EmitKeeps
  <2>11. CASE s.do = "refuse"
    <3>1. Do(L, s) = Refuse(L, s.why) /\ s.why # "" BY <1>2, <2>11 DEF Do, StepOK
    <3> QED BY <3>1, RefuseKept
  <2> QED BY <2>1, <2>2, <2>3, <2>4, <2>5, <2>6, <2>7, <2>8, <2>9, <2>10, <2>11 DEF StepOK, Dos
<1> QED BY <1>0, <1>1, <1>2

-----------------------------------------------------------------------------
(* Running steps, and instructions, one after the other: Run and           *)
(* ExecuteAll are recursive functions, and here is what they satisfy.      *)

(* A set of numbers has a least element: induction, without an operator    *)
(* for a parameter.                                                        *)
LEMMA LeastNat ==
    ASSUME NEW S \in SUBSET Nat, S # {}
    PROVE  \E n \in S : \A m \in S : n <= m
  <1>1. PICK n \in S : \A m \in S : ~(<<m, n>> \in OpToRel(<, Nat))
    BY NatLessThanWellFounded, WFMin
  <1>2. \A m \in S : ~(m < n)
    <2> TAKE m \in S
    <2>1. ~(<<m, n>> \in OpToRel(<, Nat)) BY <1>1
    <2> QED BY <2>1 DEF OpToRel
  <1> QED BY <1>2

Runs(f, n, L, steps) == f = [i \in 0 .. n |-> IF i = 0 THEN L ELSE Do(f[i - 1], steps[i])]

LEMMA RunsFor ==
    ASSUME NEW L, NEW steps, NEW n \in Nat
    PROVE  \E f : Runs(f, n, L, steps)
<1> DEFINE S == {m \in Nat : ~\E f : Runs(f, m, L, steps)}
<1>1. SUFFICES ASSUME S # {} PROVE FALSE OBVIOUS
<1>2. PICK m \in S : \A k \in S : m <= k BY <1>1, LeastNat
<1>3. CASE m = 0
  <2>1. PICK f : f = [i \in 0 .. 0 |-> L] OBVIOUS
  <2>2. f = [i \in 0 .. 0 |-> IF i = 0 THEN L ELSE Do(f[i - 1], steps[i])] BY <2>1
  <2> QED BY <1>2, <1>3, <2>2 DEF Runs
<1>4. CASE m # 0
  <2>1. m - 1 \in Nat /\ m - 1 \notin S BY <1>2, <1>4
  <2>2. PICK g : Runs(g, m - 1, L, steps) BY <2>1
  <2>3. PICK f : f = [i \in 0 .. m |-> IF i = m THEN Do(g[m - 1], steps[m]) ELSE g[i]] OBVIOUS
  <2>4. \A i \in 0 .. m : f[i] = IF i = 0 THEN L ELSE Do(f[i - 1], steps[i])
    <3> TAKE i \in 0 .. m
    <3>0. m \in Nat BY <1>2
    <3>1. \A j \in 0 .. m - 1 : f[j] = g[j] BY <2>3, <3>0
    <3>2. \A j \in 0 .. m - 1 : g[j] = IF j = 0 THEN L ELSE Do(g[j - 1], steps[j])
      BY <2>2 DEF Runs
    <3>3. CASE i = m
      <4>1. f[m] = Do(g[m - 1], steps[m]) /\ m - 1 \in 0 .. m - 1 BY <1>4, <2>3, <3>0
      <4> QED BY <1>4, <3>1, <3>3, <4>1
    <3>4. CASE i # m
      <4>1. i \in 0 .. m - 1 BY <3>0, <3>4
      <4>2. i # 0 => i - 1 \in 0 .. m - 1 BY <3>0, <4>1
      <4> QED BY <3>1, <3>2, <4>1, <4>2
    <3> QED BY <3>3, <3>4
  <2>5. f = [i \in 0 .. m |-> IF i = 0 THEN L ELSE Do(f[i - 1], steps[i])] BY <2>3, <2>4
  <2> QED BY <1>2, <2>5 DEF Runs
<1> QED BY <1>3, <1>4

LEMMA RunIs ==
    ASSUME NEW L, NEW steps, Len(steps) \in Nat
    PROVE  \E f : /\ f[0] = L /\ Run(L, steps) = f[Len(steps)]
                  /\ \A i \in 1 .. Len(steps) : f[i] = Do(f[i - 1], steps[i])
<1>1. \E f : f = [n \in 0 .. Len(steps) |-> IF n = 0 THEN L ELSE Do(f[n - 1], steps[n])]
  <2>1. \E f : Runs(f, Len(steps), L, steps) BY RunsFor
  <2> QED BY <2>1 DEF Runs
<1>2. PICK f : f = CHOOSE g : g = [n \in 0 .. Len(steps) |-> IF n = 0 THEN L ELSE Do(g[n - 1], steps[n])]
  OBVIOUS
<1>3. f = [n \in 0 .. Len(steps) |-> IF n = 0 THEN L ELSE Do(f[n - 1], steps[n])] BY <1>1, <1>2
<1>4. Run(L, steps) = f[Len(steps)] BY <1>2 DEF Run, Through
<1> QED BY <1>3, <1>4

(* What steps that each keep the ledger do together. *)
LEMMA RunKeeps ==
    ASSUME NEW L, IsLedger(L), NEW steps, AllOK(steps)
    PROVE  Grows(L, Run(L, steps))
<1>1. Len(steps) \in Nat BY ListIs DEF AllOK
<1>2. PICK f : /\ f[0] = L /\ Run(L, steps) = f[Len(steps)]
               /\ \A i \in 1 .. Len(steps) : f[i] = Do(f[i - 1], steps[i])
  BY <1>1, RunIs
<1> DEFINE S == {m \in Nat : m <= Len(steps) /\ ~Grows(L, f[m])}
<1>3. S = {}
  <2>1. SUFFICES ASSUME S # {} PROVE FALSE OBVIOUS
  <2>2. PICK m \in S : \A k \in S : m <= k BY <2>1, LeastNat
  <2>3. m # 0 BY <1>2, <2>2, GrowsRefl
  <2>4. m - 1 \in Nat /\ m - 1 \notin S /\ m \in 1 .. Len(steps) BY <1>1, <2>2, <2>3
  <2>5. Grows(L, f[m - 1]) BY <1>1, <2>2, <2>4
  <2>6. f[m] = Do(f[m - 1], steps[m]) /\ StepOK(steps[m]) BY <1>2, <2>4 DEF AllOK
  <2>7. IsLedger(f[m - 1]) BY <2>5 DEF Grows
  <2>8. Grows(f[m - 1], f[m]) BY <2>6, <2>7, DoKeeps
  <2> QED BY <2>2, <2>5, <2>8, GrowsTrans
<1> QED BY <1>1, <1>2, <1>3

LEMMA AllOKEmpty == AllOK(<<>>)
BY Lists DEF AllOK

LEMMA AllOKOne ==
    ASSUME NEW a, StepOK(a)
    PROVE  AllOK(<<a>>)
BY Lists DEF AllOK

LEMMA AllOKTwo ==
    ASSUME NEW a, NEW b, StepOK(a), StepOK(b)
    PROVE  AllOK(<<a, b>>)
<1>1. \A i \in 1 .. 2 : i = 1 \/ i = 2 OBVIOUS
<1> QED BY <1>1, Lists DEF AllOK

LEMMA AllOKThree ==
    ASSUME NEW a, NEW b, NEW c, StepOK(a), StepOK(b), StepOK(c)
    PROVE  AllOK(<<a, b, c>>)
<1>1. \A i \in 1 .. 3 : i = 1 \/ i = 2 \/ i = 3 OBVIOUS
<1> QED BY <1>1, Lists DEF AllOK

LEMMA AllOKFour ==
    ASSUME NEW a, NEW b, NEW c, NEW d, StepOK(a), StepOK(b), StepOK(c), StepOK(d)
    PROVE  AllOK(<<a, b, c, d>>)
<1>1. \A i \in 1 .. 4 : i = 1 \/ i = 2 \/ i = 3 \/ i = 4 OBVIOUS
<1> QED BY <1>1, Lists DEF AllOK

LEMMA AllOKConcat ==
    ASSUME NEW s, NEW t, AllOK(s), AllOK(t)
    PROVE  AllOK(s \o t)
<1>1. IsList(s) /\ IsList(t) BY DEF AllOK
<1>2. Len(s) \in Nat /\ Len(t) \in Nat BY <1>1, ListIs
<1>3. IsList(s \o t) /\ Len(s \o t) = Len(s) + Len(t) BY <1>1, ListConcat
<1>4. \A i \in 1 .. Len(s) : (s \o t)[i] = s[i] BY <1>1, ListConcat
<1>5. \A i \in 1 .. Len(t) : (s \o t)[Len(s) + i] = t[i] BY <1>1, ListConcat
<1>6. \A i \in 1 .. Len(s) + Len(t) : StepOK((s \o t)[i])
  <2> TAKE i \in 1 .. Len(s) + Len(t)
  <2>1. CASE i <= Len(s) BY <1>2, <1>4, <2>1 DEF AllOK
  <2>2. CASE ~(i <= Len(s))
    <3>1. PICK j \in 1 .. Len(t) : i = Len(s) + j
      <4>1. i - Len(s) \in 1 .. Len(t) /\ i = Len(s) + (i - Len(s)) BY <1>2, <2>2
      <4> QED BY <4>1
    <3> QED BY <1>5, <3>1 DEF AllOK
  <2> QED BY <2>1, <2>2
<1> QED BY <1>3, <1>6 DEF AllOK

LEMMA StepMade ==
    ASSUME NEW do \in Dos \ {"refuse"}
    PROVE  /\ \A from, to, n : StepOK(Step(do, from, to, n))
           /\ \A to, value : StepOK(Store(do, to, value))
BY DEF StepOK, Step, Store, Dos

LEMMA FailMade ==
    ASSUME NEW why, why # ""
    PROVE  AllOK(Fail(why))
<1>1. PICK a : a = [do |-> "refuse", why |-> why] OBVIOUS
<1>2. StepOK(a) BY <1>1 DEF StepOK, Dos
<1>3. Fail(why) = <<a>> BY <1>1 DEF Fail
<1> QED BY <1>2, <1>3, AllOKOne

LEMMA WhenMade ==
    ASSUME NEW condition, NEW steps, AllOK(steps)
    PROVE  AllOK(When(condition, steps))
BY AllOKEmpty DEF When

(* Every instruction is a list of such steps, or refuses. *)
LEMMA SystemStepsOK ==
    ASSUME NEW L, NEW ix
    PROVE  AllOK(SystemSteps(L, ix))
<1> DEFINE a == ix.accounts
<1>1. AllOK(<<Step("pay", a.from, a.to, ix.args.lamports)>>)
  BY StepMade, AllOKOne DEF Dos
<1>2. AllOK(When(a.ata \notin DOMAIN L.tokens, <<Step("open", a.payer, a.ata, 0)>>))
  BY StepMade, AllOKOne, WhenMade DEF Dos
<1>3. AllOK(<<Step("move", a.source, a.destination, ix.args.amount)>>)
  BY StepMade, AllOKOne DEF Dos
<1>4. AllOK(<<Step("sync", a.account, a.account, 0)>>) BY StepMade, AllOKOne DEF Dos
<1>5. AllOK(<<Step("close", a.account, a.destination, 0)>>) BY StepMade, AllOKOne DEF Dos
<1>6. AllOK(Fail("program")) BY FailMade
<1> QED BY <1>1, <1>2, <1>3, <1>4, <1>5, <1>6 DEF SystemSteps

LEMMA NftStepsOK ==
    ASSUME NEW L, NEW ix
    PROVE  AllOK(NftSteps(L, ix))
<1> DEFINE a == ix.accounts
<1>1. AllOK(<<Step("pay", a.payer, a.asset, Rent(NftBytes(ix.args.name))), Store("nft", a.asset, a.payer)>>)
  BY StepMade, AllOKTwo DEF Dos
<1>2. AllOK(<<Store("nft", a.asset, a.new_owner)>>) BY StepMade, AllOKOne DEF Dos
<1>3. AllOK(Fail("program")) BY FailMade
<1> QED BY <1>1, <1>2, <1>3 DEF NftSteps

LEMMA CreateLinkStepsOK ==
    ASSUME NEW L, NEW ix
    PROVE  AllOK(CreateLinkSteps(L, ix))
<1> DEFINE a == ix.accounts
<1>1. PICK link : link = [sender |-> a.sender, claimKey |-> a.claim_key,
                          mint |-> IF ix.op = "create_sol_link" THEN NoMint ELSE a.mint[1],
                          amount |-> ix.args.amount, expiry |-> ix.args.expiry]
  OBVIOUS
<1>2. AllOK(<<Step("pay", a.sender, a.claim, LinkRent), Store("link", a.claim, link)>>)
  BY StepMade, AllOKTwo DEF Dos
<1>3. AllOK(<<Step("pay", a.sender, a.claim, ix.args.amount)>>) BY StepMade, AllOKOne DEF Dos
<1>4. AllOK(<<Step("open", a.sender, a.vault, 0), Step("move", a.sender_token, a.vault, ix.args.amount)>>)
  BY StepMade, AllOKTwo DEF Dos
<1>5. AllOK(<<Step("pay", a.sender, a.claim, LinkRent), Store("link", a.claim, link)>>
            \o (IF ix.op = "create_sol_link" THEN <<Step("pay", a.sender, a.claim, ix.args.amount)>>
                ELSE <<Step("open", a.sender, a.vault, 0),
                       Step("move", a.sender_token, a.vault, ix.args.amount)>>))
  BY <1>2, <1>3, <1>4, AllOKConcat
<1>6. AllOK(Fail("program")) BY FailMade
<1> QED BY <1>1, <1>5, <1>6 DEF CreateLinkSteps

LEMMA SettleLinkStepsOK ==
    ASSUME NEW L, NEW ix
    PROVE  AllOK(SettleLinkSteps(L, ix))
<1> DEFINE a == ix.accounts
           claims == ix.op \in {"claim_sol_link", "claim_token_link"}
           wipe == <<Step("wipe", a.claim, a.sender, 0)>>
           link == L.links[a.claim]
<1>1. AllOK(wipe) BY StepMade, AllOKOne DEF Dos
<1>2. AllOK(When(claims, <<Step("pay", a.claim, a.recipient, link.amount)>>))
  BY StepMade, AllOKOne, WhenMade DEF Dos
<1>3. PICK token : token = IF claims THEN a.recipient_token ELSE a.sender_token OBVIOUS
<1>4. AllOK(<<Step("move", a.vault, token, At(L.tokens, a.vault)), Step("close", a.vault, a.sender, 0)>>)
  BY StepMade, AllOKTwo DEF Dos
<1>5. AllOK(When(claims, <<Step("pay", a.claim, a.recipient, link.amount)>>) \o wipe)
  BY <1>1, <1>2, AllOKConcat
<1>6. AllOK(<<Step("move", a.vault, token, At(L.tokens, a.vault)), Step("close", a.vault, a.sender, 0)>> \o wipe)
  BY <1>1, <1>4, AllOKConcat
<1>7. AllOK(Fail("program")) BY FailMade
<1> QED BY <1>3, <1>5, <1>6, <1>7 DEF SettleLinkSteps

LEMMA SwapStepsOK ==
    ASSUME NEW L, NEW ix
    PROVE  AllOK(SwapSteps(L, ix))
<1>1. \A f, t, n, g, u, k : AllOK(<<Step("move", f, t, n), Step("move", g, u, k)>>)
  BY StepMade, AllOKTwo DEF Dos
<1>2. AllOK(Fail("slippage")) BY FailMade
<1> QED BY <1>1, <1>2 DEF SwapSteps

LEMMA CreateLockStepsOK ==
    ASSUME NEW L, NEW ix
    PROVE  AllOK(CreateLockSteps(L, ix))
<1> DEFINE a == ix.accounts
<1>1. \A lock : AllOK(<<Step("pay", a.sender, a.timelock, LockRent), Step("open", a.sender, a.vault, 0),
                        Step("move", a.sender_token, a.vault, ix.args.amount), Store("lock", a.timelock, lock)>>)
  BY StepMade, AllOKFour DEF Dos
<1>2. AllOK(Fail("program")) BY FailMade
<1> QED BY <1>1, <1>2 DEF CreateLockSteps

LEMMA EndingStepsOK ==
    ASSUME NEW first, StepOK(first), NEW over \in BOOLEAN, NEW vault, NEW at, NEW to, NEW lock
    PROVE  AllOK(<<first>> \o (IF over THEN <<Step("close", vault, to, 0), Step("wipe", at, to, 0)>>
                               ELSE <<Store("lock", at, lock)>>))
<1>1. AllOK(<<first>>) BY AllOKOne
<1>2. AllOK(<<Step("close", vault, to, 0), Step("wipe", at, to, 0)>>) BY StepMade, AllOKTwo DEF Dos
<1>3. AllOK(<<Store("lock", at, lock)>>) BY StepMade, AllOKOne DEF Dos
<1> QED BY <1>1, <1>2, <1>3, AllOKConcat

LEMMA WithdrawStepsOK ==
    ASSUME NEW L, NEW ix
    PROVE  AllOK(WithdrawSteps(L, ix))
<1> DEFINE a == ix.accounts
           lock == L.locks[a.timelock]
           claimable == Monus(LockVested(lock, L.now), lock.withdrawn)
           over == LockVested(lock, L.now) >= lock.total
<1>1. PICK first : first = Step("move", a.vault, a.recipient_token,
                                IF over THEN At(L.tokens, a.vault) ELSE claimable) OBVIOUS
<1>2. StepOK(first) BY <1>1, StepMade DEF Dos
<1>3. PICK less : less = [lock EXCEPT !.withdrawn = @ + claimable] OBVIOUS
<1>4. over \in BOOLEAN OBVIOUS
<1>5. AllOK(<<first>> \o (IF over THEN <<Step("close", a.vault, a.sender, 0), Step("wipe", a.timelock, a.sender, 0)>>
                          ELSE <<Store("lock", a.timelock, less)>>))
  BY <1>2, <1>4, EndingStepsOK
<1>6. AllOK(Fail("program")) BY FailMade
<1> QED BY <1>1, <1>3, <1>5, <1>6 DEF WithdrawSteps

LEMMA CancelStepsOK ==
    ASSUME NEW L, NEW ix
    PROVE  AllOK(CancelSteps(L, ix))
<1> DEFINE a == ix.accounts
           lock == L.locks[a.timelock]
           vested == LockVested(lock, L.now)
           owed == Monus(vested, lock.withdrawn)
<1>1. PICK first : first = Step("move", a.vault, a.sender_token, Monus(At(L.tokens, a.vault), owed)) OBVIOUS
<1>2. StepOK(first) BY <1>1, StepMade DEF Dos
<1>3. PICK frozen : frozen = [lock EXCEPT !.total = vested, !.start = Earlier(@, L.now),
                                          !.cliff = Earlier(@, L.now), !.end = L.now, !.cancellable = FALSE] OBVIOUS
<1>4. AllOK(<<first>> \o (IF owed = 0 THEN <<Step("close", a.vault, a.sender, 0), Step("wipe", a.timelock, a.sender, 0)>>
                          ELSE <<Store("lock", a.timelock, frozen)>>))
  BY <1>2, EndingStepsOK
<1>5. AllOK(Fail("program")) BY FailMade
<1> QED BY <1>1, <1>3, <1>4, <1>5 DEF CancelSteps

LEMMA AllStepsOK ==
    ASSUME NEW L, NEW ix
    PROVE  AllOK(Steps(L, ix))
<1>1. AllOK(<<Store("emit", <<>>, ix.args)>>) BY StepMade, AllOKOne DEF Dos
<1>2. AllOK(Fail("program")) BY FailMade
<1> QED
  BY <1>1, <1>2, SystemStepsOK, NftStepsOK, CreateLinkStepsOK, SettleLinkStepsOK, SwapStepsOK,
     CreateLockStepsOK, WithdrawStepsOK, CancelStepsOK
  DEF Steps, WalletSteps

LEMMA ExecuteKeeps ==
    ASSUME NEW L, IsLedger(L), NEW ix
    PROVE  Grows(L, Execute(L, ix))
BY AllStepsOK, RunKeeps, GrowsRefl, RefuseKept DEF Execute

Executes(f, n, L, ixs) == f = [i \in 0 .. n |-> IF i = 0 THEN L ELSE Execute(f[i - 1], ixs[i])]

LEMMA ExecutesFor ==
    ASSUME NEW L, NEW ixs, NEW n \in Nat
    PROVE  \E f : Executes(f, n, L, ixs)
<1> DEFINE S == {m \in Nat : ~\E f : Executes(f, m, L, ixs)}
<1>1. SUFFICES ASSUME S # {} PROVE FALSE OBVIOUS
<1>2. PICK m \in S : \A k \in S : m <= k BY <1>1, LeastNat
<1>3. CASE m = 0
  <2>1. PICK f : f = [i \in 0 .. 0 |-> L] OBVIOUS
  <2>2. f = [i \in 0 .. 0 |-> IF i = 0 THEN L ELSE Execute(f[i - 1], ixs[i])] BY <2>1
  <2> QED BY <1>2, <1>3, <2>2 DEF Executes
<1>4. CASE m # 0
  <2>1. m - 1 \in Nat /\ m - 1 \notin S BY <1>2, <1>4
  <2>2. PICK g : Executes(g, m - 1, L, ixs) BY <2>1
  <2>3. PICK f : f = [i \in 0 .. m |-> IF i = m THEN Execute(g[m - 1], ixs[m]) ELSE g[i]] OBVIOUS
  <2>4. \A i \in 0 .. m : f[i] = IF i = 0 THEN L ELSE Execute(f[i - 1], ixs[i])
    <3> TAKE i \in 0 .. m
    <3>0. m \in Nat BY <1>2
    <3>1. \A j \in 0 .. m - 1 : f[j] = g[j] BY <2>3, <3>0
    <3>2. \A j \in 0 .. m - 1 : g[j] = IF j = 0 THEN L ELSE Execute(g[j - 1], ixs[j])
      BY <2>2 DEF Executes
    <3>3. CASE i = m
      <4>1. f[m] = Execute(g[m - 1], ixs[m]) /\ m - 1 \in 0 .. m - 1 BY <1>4, <2>3, <3>0
      <4> QED BY <1>4, <3>1, <3>3, <4>1
    <3>4. CASE i # m
      <4>1. i \in 0 .. m - 1 BY <3>0, <3>4
      <4>2. i # 0 => i - 1 \in 0 .. m - 1 BY <3>0, <4>1
      <4> QED BY <3>1, <3>2, <4>1, <4>2
    <3> QED BY <3>3, <3>4
  <2>5. f = [i \in 0 .. m |-> IF i = 0 THEN L ELSE Execute(f[i - 1], ixs[i])] BY <2>3, <2>4
  <2> QED BY <1>2, <2>5 DEF Executes
<1> QED BY <1>3, <1>4

LEMMA ExecuteAllIs ==
    ASSUME NEW L, NEW ixs, Len(ixs) \in Nat
    PROVE  \E f : /\ f[0] = L /\ ExecuteAll(L, ixs) = f[Len(ixs)]
                  /\ \A i \in 1 .. Len(ixs) : f[i] = Execute(f[i - 1], ixs[i])
<1>1. \E f : f = [n \in 0 .. Len(ixs) |-> IF n = 0 THEN L ELSE Execute(f[n - 1], ixs[n])]
  <2>1. \E f : Executes(f, Len(ixs), L, ixs) BY ExecutesFor
  <2> QED BY <2>1 DEF Executes
<1>2. PICK f : f = CHOOSE g : g = [n \in 0 .. Len(ixs) |-> IF n = 0 THEN L ELSE Execute(g[n - 1], ixs[n])]
  OBVIOUS
<1>3. f = [n \in 0 .. Len(ixs) |-> IF n = 0 THEN L ELSE Execute(f[n - 1], ixs[n])] BY <1>1, <1>2
<1>4. ExecuteAll(L, ixs) = f[Len(ixs)] BY <1>2 DEF ExecuteAll, Through
<1> QED BY <1>3, <1>4

(* The ledger before and after the last instruction. *)
LEMMA ExecuteAllKeeps ==
    ASSUME NEW L, IsLedger(L), NEW ixs, IsList(ixs)
    PROVE  /\ Grows(L, ExecuteAll(L, ixs))
           /\ Len(ixs) > 0 => \E M : /\ IsLedger(M) /\ Grows(L, M)
                                     /\ ExecuteAll(L, ixs) = Execute(M, ixs[Len(ixs)])
<1>1. Len(ixs) \in Nat BY ListIs
<1>2. PICK f : /\ f[0] = L /\ ExecuteAll(L, ixs) = f[Len(ixs)]
               /\ \A i \in 1 .. Len(ixs) : f[i] = Execute(f[i - 1], ixs[i])
  BY <1>1, ExecuteAllIs
<1> DEFINE S == {m \in Nat : m <= Len(ixs) /\ ~Grows(L, f[m])}
<1>3. S = {}
  <2>1. SUFFICES ASSUME S # {} PROVE FALSE OBVIOUS
  <2>2. PICK m \in S : \A k \in S : m <= k BY <2>1, LeastNat
  <2>3. m # 0 BY <1>2, <2>2, GrowsRefl
  <2>4. m - 1 \in Nat /\ m - 1 \notin S /\ m \in 1 .. Len(ixs) BY <1>1, <2>2, <2>3
  <2>5. Grows(L, f[m - 1]) BY <1>1, <2>2, <2>4
  <2>6. f[m] = Execute(f[m - 1], ixs[m]) BY <1>2, <2>4
  <2>7. IsLedger(f[m - 1]) BY <2>5 DEF Grows
  <2>8. Grows(f[m - 1], f[m]) BY <2>6, <2>7, ExecuteKeeps
  <2> QED BY <2>2, <2>5, <2>8, GrowsTrans
<1>4. Grows(L, ExecuteAll(L, ixs)) BY <1>1, <1>2, <1>3
<1>5. ASSUME Len(ixs) > 0
      PROVE  \E M : IsLedger(M) /\ Grows(L, M) /\ ExecuteAll(L, ixs) = Execute(M, ixs[Len(ixs)])
  <2>1. Len(ixs) \in 1 .. Len(ixs) /\ Len(ixs) - 1 \in Nat /\ Len(ixs) - 1 <= Len(ixs) BY <1>1, <1>5
  <2>2. PICK M : M = f[Len(ixs) - 1] OBVIOUS
  <2>3. Grows(L, M) BY <1>3, <2>1, <2>2
  <2>4. ExecuteAll(L, ixs) = Execute(M, ixs[Len(ixs)]) BY <1>2, <2>1, <2>2
  <2> QED BY <2>3, <2>4 DEF Grows
<1> QED BY <1>4, <1>5

LEMMA ChargedKeeps ==
    ASSUME NEW L, IsLedger(L), NEW payer, NEW signed
    PROVE  IsLedger(Charged(L, payer, signed)) /\ Grows(L, Charged(L, payer, signed))
<1>1. IsLedger(Refuse(L, "funds")) /\ Grows(L, Refuse(L, "funds")) BY RefuseKept
<1>2. PICK fee : fee = NetworkFee({payer} \cup signed) OBVIOUS
<1>3. PICK x : x = [L.lamports EXCEPT ![payer] = @ - fee] OBVIOUS
<1>4. [L EXCEPT !.lamports[payer] = @ - fee] = [L EXCEPT !["lamports"] = x] BY <1>3
<1>5. "lamports" \in LedgerFields \ {"ok", "why", "feed"} BY DEF LedgerFields
<1>6. IsLedger([L EXCEPT !["lamports"] = x]) /\ Grows(L, [L EXCEPT !["lamports"] = x])
  BY <1>5, FieldKept
<1> QED BY <1>2, <1>1, <1>4, <1>6 DEF Charged

(* A transaction, whatever it holds, keeps the ledger; if it succeeds, it  *)
(* ends with what its last instruction makes of some ledger before it.     *)
LEMMA TransactionKeeps ==
    ASSUME NEW L, IsLedger(L), NEW payer, NEW signed, NEW ixs, IsList(ixs)
    PROVE  LET N == Transaction(L, payer, signed, ixs) IN
           /\ Grows(L, N)
           /\ N.ok /\ Len(ixs) > 0 =>
                \E M : IsLedger(M) /\ Grows(L, M) /\ N = Execute(M, ixs[Len(ixs)])
<1>1. PICK N : N = Transaction(L, payer, signed, ixs) OBVIOUS
<1>2. PICK P : P = Charged(L, payer, signed) OBVIOUS
<1>3. IsLedger(P) /\ Grows(L, P) BY <1>2, ChargedKeeps
<1>4. PICK R : R = ExecuteAll(P, ixs) OBVIOUS
<1>5. Grows(P, R) /\ IsLedger(R) BY <1>3, <1>4, ExecuteAllKeeps DEF Grows
<1>6. Grows(L, R) BY <1>3, <1>5, GrowsTrans
<1>7. N \in {Refuse(L, "signature"), R, Refuse(R, "payer dust"), Refuse(R, "dust")}
  BY <1>1, <1>2, <1>4 DEF Transaction
<1>8. Grows(L, Refuse(L, "signature")) /\ Refuse(L, "signature").ok = FALSE BY RefuseKept
<1>9. /\ Grows(R, Refuse(R, "payer dust")) /\ Refuse(R, "payer dust").ok = FALSE
      /\ Grows(R, Refuse(R, "dust")) /\ Refuse(R, "dust").ok = FALSE
  BY <1>5, RefuseKept
<1>10. Grows(L, Refuse(R, "payer dust")) /\ Grows(L, Refuse(R, "dust"))
  BY <1>6, <1>9, GrowsTrans
<1>11. Grows(L, N) BY <1>6, <1>7, <1>8, <1>10
<1>12. ASSUME N.ok, Len(ixs) > 0
       PROVE  \E M : IsLedger(M) /\ Grows(L, M) /\ N = Execute(M, ixs[Len(ixs)])
  <2>1. N = R BY <1>7, <1>8, <1>9, <1>12
  <2>2. PICK M : IsLedger(M) /\ Grows(P, M) /\ R = Execute(M, ixs[Len(ixs)])
    BY <1>3, <1>4, <1>12, ExecuteAllKeeps
  <2>3. Grows(L, M) BY <1>3, <2>2, GrowsTrans
  <2> QED BY <2>1, <2>2, <2>3
<1> QED BY <1>1, <1>11, <1>12

LEMMA RunOne ==
    ASSUME NEW L, NEW s
    PROVE  Run(L, <<s>>) = Do(L, s)
<1>1. PICK t : t = <<s>> OBVIOUS
<1>2. Len(t) \in Nat /\ Len(t) = 1 /\ t[1] = s BY <1>1, Lists
<1>3. PICK f : f[0] = L /\ Run(L, t) = f[Len(t)] /\ \A i \in 1 .. Len(t) : f[i] = Do(f[i - 1], t[i])
  BY <1>2, RunIs
<1>4. f[1] = Do(f[1 - 1], t[1]) BY <1>2, <1>3
<1>5. Run(L, t) = Do(L, s) BY <1>2, <1>3, <1>4
<1> QED BY <1>1, <1>5

(* Closing a token account leaves none there. *)
LEMMA ClosedIsGone ==
    ASSUME NEW M, IsLedger(M), NEW account, NEW to, NEW owner,
           NEW N, N = Execute(M, closeTokenAccount(account, to, owner)), N.ok
    PROVE  account \notin DOMAIN N.tokens
<1>1. PICK ix : ix = closeTokenAccount(account, to, owner) OBVIOUS
<1>2. /\ ix.program = "token" /\ ix.op = "close"
      /\ ix.accounts.account = account /\ ix.accounts.destination = to
  BY <1>1 DEF closeTokenAccount, Instruction
<1>3. Steps(M, ix) = <<Step("close", account, to, 0)>> BY <1>2 DEF Steps, SystemSteps
<1>4. M.ok \in BOOLEAN /\ N.ok /\ N = Execute(M, ix) BY <1>1 DEF IsLedger
<1>5. M.ok /\ N = Run(M, Steps(M, ix)) BY <1>4, RefuseKept DEF Execute
<1>6. PICK s : s = Step("close", account, to, 0) OBVIOUS
<1>7. N = Do(M, s) BY <1>3, <1>5, <1>6, RunOne
<1>8. s.do = "close" /\ s.from = account /\ s.to = to BY <1>6 DEF Step
<1>9. N = CloseToken(M, account, to) BY <1>5, <1>7, <1>8 DEF Do
<1>10. Refuse(M, "no account").ok = FALSE /\ Refuse(M, "not empty").ok = FALSE BY RefuseKept
<1>11. PICK x : x = Moved(M.lamports, account, to, At(M.lamports, account)) OBVIOUS
<1>12. N = [M EXCEPT !.lamports = x, !.tokens = Without(@, account)]
  BY <1>4, <1>9, <1>10, <1>11 DEF CloseToken
<1>13. N.tokens = Without(M.tokens, account) BY <1>12 DEF IsLedger, LedgerFields
<1> QED BY <1>13 DEF Without

(* An announcement goes into the feed. *)
IsAnnouncement(ix) == ix.program = "wallet" /\ ix.op = "announce"

LEMMA AnnouncedIsIn ==
    ASSUME NEW M, IsLedger(M), NEW ix, IsAnnouncement(ix),
           NEW N, N = Execute(M, ix), N.ok
    PROVE  \E i \in 1 .. Len(N.feed) : N.feed[i] = ix.args
<1>1. PICK item : item = ix.args OBVIOUS
<1>2. Steps(M, ix) = <<Store("emit", <<>>, item)>> BY <1>1 DEF Steps, WalletSteps, IsAnnouncement
<1>3. M.ok \in BOOLEAN /\ N.ok /\ N = Execute(M, ix) BY DEF IsLedger
<1>4. M.ok /\ N = Run(M, Steps(M, ix)) BY <1>3, RefuseKept DEF Execute
<1>5. PICK s : s = Store("emit", <<>>, item) OBVIOUS
<1>6. N = Do(M, s) BY <1>2, <1>4, <1>5, RunOne
<1>7. s.do = "emit" /\ s.as = item BY <1>5 DEF Store
<1>8. N = [M EXCEPT !.feed = Append(@, item)] BY <1>4, <1>6, <1>7 DEF Do
<1>9. N.feed = Append(M.feed, item) BY <1>8, EmitKeeps
<1>10. IsList(M.feed) /\ Len(M.feed) \in Nat BY FeedIsList
<1>11. Len(N.feed) = Len(M.feed) + 1 /\ N.feed[Len(M.feed) + 1] = item
  BY <1>9, <1>10, ListAppend
<1>12. Len(M.feed) + 1 \in 1 .. Len(N.feed) BY <1>10, <1>11
<1> QED BY <1>1, <1>11, <1>12

-----------------------------------------------------------------------------
(* Remainders.                                                             *)

LEMMA Division ==
    ASSUME NEW x \in Nat, NEW m \in Nat \ {0}
    PROVE  /\ x % m \in 0 .. m - 1
           /\ \E q \in Nat, s \in 0 .. m - 1 : x % m = s /\ x = q * m + s
  <1>1. x % m \in 0 .. m - 1 /\ x \div m \in Nat BY SMT
  <1>2. x % m = x - (x \div m) * m BY SMT
  <1>3. (x \div m) * m \in Nat BY <1>1, SMT
  <1>4. PICK q, s : q = x \div m /\ s = x % m OBVIOUS
  <1>5. s = x - q * m /\ q * m \in Nat /\ q \in Nat /\ s \in 0 .. m - 1 BY <1>1, <1>2, <1>3, <1>4
  <1>6. x = q * m + s BY <1>5
  <1> QED BY <1>4, <1>5, <1>6

(* Two multiples of m that differ do so by m at least. *)
LEMMA Apart ==
    ASSUME NEW m \in Nat, NEW p \in Nat, NEW q \in Nat, p < q
    PROVE  p * m \in Nat /\ q * m \in Nat /\ p * m + m <= q * m
  <1>1. q - p - 1 \in Nat OBVIOUS
  <1>2. PICK k \in Nat : k = q - p - 1 BY <1>1
  <1>3. q = p + k + 1 BY <1>2
  <1>4. k * m \in Nat /\ (p + k + 1) * m = p * m + k * m + m /\ p * m \in Nat BY SMT
  <1> QED BY <1>3, <1>4

LEMMA ModIs ==
    ASSUME NEW m \in Nat \ {0}, NEW q \in Nat, NEW s \in 0 .. m - 1
    PROVE  (q * m + s) % m = s
  <1>1. q * m \in Nat BY SMT
  <1> DEFINE x == q * m + s
  <1>2. x \in Nat BY <1>1
  <1>3. PICK p \in Nat, t \in 0 .. m - 1 : x % m = t /\ x = p * m + t BY <1>2, Division
  <1>4. p * m \in Nat BY SMT
  <1>5. q * m + s = p * m + t BY <1>3
  <1>6. CASE p < q
    <2>1. p * m + m <= q * m BY <1>6, Apart
    <2> QED BY <1>1, <1>3, <1>4, <1>5, <2>1
  <1>7. CASE q < p
    <2>1. q * m + m <= p * m BY <1>7, Apart
    <2> QED BY <1>1, <1>3, <1>4, <1>5, <2>1
  <1>8. CASE p = q
    <2>1. t = s BY <1>1, <1>3, <1>4, <1>5, <1>8
    <2> QED BY <1>3, <2>1
  <1> QED BY <1>6, <1>7, <1>8

LEMMA ModPlus ==
    ASSUME NEW x \in Nat, NEW k \in Nat, NEW m \in Nat \ {0}
    PROVE  (x + k * m) % m = x % m
  <1>1. PICK q \in Nat, s \in 0 .. m - 1 : x % m = s /\ x = q * m + s BY Division
  <1>2. x = q * m + s BY <1>1
  <1>3. x + k * m = (q + k) * m + s
    <2>1. (q + k) * m = q * m + k * m /\ q * m \in Nat /\ k * m \in Nat BY SMT
    <2> QED BY <1>2, <2>1
  <1>4. q + k \in Nat /\ s \in 0 .. m - 1 OBVIOUS
  <1>5. ((q + k) * m + s) % m = s BY <1>4, ModIs
  <1> QED BY <1>1, <1>3, <1>5

LEMMA ModSum ==
    ASSUME NEW x \in Nat, NEW y \in Nat, NEW m \in Nat \ {0}
    PROVE  ((x % m) + (y % m)) % m = (x + y) % m
  <1>1. PICK q \in Nat, s \in 0 .. m - 1 : x % m = s /\ x = q * m + s BY Division
  <1>2. PICK p \in Nat, t \in 0 .. m - 1 : y % m = t /\ y = p * m + t BY Division
  <1>3. s \in Nat /\ t \in Nat /\ x = q * m + s /\ y = p * m + t BY <1>1, <1>2
  <1>4. x + y = (s + t) + (q + p) * m
    <2>1. (q + p) * m = q * m + p * m /\ q * m \in Nat /\ p * m \in Nat BY SMT
    <2> QED BY <1>3, <2>1
  <1>5. s + t \in Nat /\ q + p \in Nat BY <1>3
  <1>6. ((s + t) + (q + p) * m) % m = (s + t) % m BY <1>5, ModPlus
  <1> QED BY <1>1, <1>2, <1>4, <1>6

LEMMA ModTimes ==
    ASSUME NEW x \in Nat, NEW y \in Nat, NEW m \in Nat \ {0}
    PROVE  (x * (y % m)) % m = (x * y) % m
  <1>1. PICK q \in Nat, t \in 0 .. m - 1 : y % m = t /\ y = q * m + t BY Division
  <1>2. y % m = t BY <1>1
  <1>3. t \in Nat /\ y = q * m + t BY <1>1
  <1>4. x * y = x * t + (x * q) * m
    <2>1. x * (q * m + t) = x * t + (x * q) * m BY <1>3, SMT
    <2> QED BY <1>3, <2>1
  <1>5. x * t \in Nat /\ x * q \in Nat BY <1>3, SMT
  <1>6. (x * t + (x * q) * m) % m = (x * t) % m BY <1>5, ModPlus
  <1> QED BY <1>2, <1>4, <1>6

LEMMA ModScale ==
    ASSUME NEW x \in Nat, NEW c \in Nat \ {0}, NEW m \in Nat \ {0}
    PROVE  (x * c) % (c * m) = c * (x % m)
  <1>1. PICK q \in Nat, s \in 0 .. m - 1 : x % m = s /\ x = q * m + s BY Division
  <1>2. x % m = s BY <1>1
  <1>3. s \in Nat /\ s < m /\ x = q * m + s BY <1>1
  <1>4. x * c = q * (c * m) + c * s
    <2>1. (q * m + s) * c = q * (c * m) + c * s BY <1>3, SMT
    <2> QED BY <1>3, <2>1
  <1>5. c * m \in Nat \ {0} /\ c * s \in 0 .. c * m - 1
    <2>1. s * c \in Nat /\ m * c \in Nat /\ s * c + c <= m * c BY <1>3, Apart
    <2>2. s * c = c * s /\ m * c = c * m BY <1>3, SMT
    <2> QED BY <2>1, <2>2
  <1>6. (q * (c * m) + c * s) % (c * m) = c * s BY <1>5, ModIs
  <1> QED BY <1>2, <1>4, <1>6

-----------------------------------------------------------------------------
(* The subgroup of G.                                                      *)

OfG(n) == multiply(G, n)

LEMMA OfGIs ==
    ASSUME NEW n \in Nat
    PROVE  OfG(n) = Cofactor * (n % Order) /\ OfG(n) \in Points /\ n % Order \in Scalars
  <1>1. Order \in Nat \ {0} /\ Cofactor \in Nat \ {0} BY StealthAssumption
  <1>2. OfG(n) = Cofactor * (n % Order) BY <1>1, ModScale DEF OfG, multiply, G
  <1>3. n % Order \in Nat /\ n % Order < Order /\ n % Order \in Scalars
    BY <1>1, Division DEF Scalars
  <1>4. (n % Order) * Cofactor \in Nat /\ Order * Cofactor \in Nat
        /\ (n % Order) * Cofactor + Cofactor <= Order * Cofactor
    BY <1>1, <1>3, Apart
  <1>5. Cofactor * (n % Order) = (n % Order) * Cofactor /\ Cofactor * Order = Order * Cofactor
    BY <1>1, <1>3, SMT
  <1> QED BY <1>1, <1>2, <1>3, <1>4, <1>5 DEF Points

(* Multiples and sums of multiples of G. *)
LEMMA OfGMultiple ==
    ASSUME NEW a \in Nat, NEW b \in Nat
    PROVE  multiply(OfG(a), b) = OfG(b * a)
  <1>1. Order \in Nat \ {0} /\ Cofactor \in Nat \ {0} BY StealthAssumption
  <1>2. a % Order \in Nat BY <1>1, Division
  <1>3. b * (a % Order) \in Nat /\ b * a \in Nat BY <1>2, SMT
  <1>4. b * (Cofactor * (a % Order)) = (b * (a % Order)) * Cofactor BY <1>1, <1>2, SMT
  <1>5. multiply(OfG(a), b) = ((b * (a % Order)) * Cofactor) % (Cofactor * Order)
    BY <1>4, OfGIs DEF multiply
  <1>6. multiply(OfG(a), b) = Cofactor * ((b * (a % Order)) % Order)
    BY <1>1, <1>3, <1>5, ModScale
  <1>7. (b * (a % Order)) % Order = (b * a) % Order BY <1>1, ModTimes
  <1> QED BY <1>3, <1>6, <1>7, OfGIs

LEMMA OfGSum ==
    ASSUME NEW a \in Nat, NEW b \in Nat
    PROVE  plus(OfG(a), OfG(b)) = OfG(a + b)
  <1>1. Order \in Nat \ {0} /\ Cofactor \in Nat \ {0} BY StealthAssumption
  <1>2. a % Order \in Nat /\ b % Order \in Nat BY <1>1, Division
  <1>3. PICK s \in Nat, t \in Nat : a % Order = s /\ b % Order = t BY <1>2
  <1>4. Cofactor * s + Cofactor * t = (s + t) * Cofactor /\ s + t \in Nat /\ a + b \in Nat
    BY <1>1, SMT
  <1>5. plus(OfG(a), OfG(b)) = ((s + t) * Cofactor) % (Cofactor * Order)
    BY <1>3, <1>4, OfGIs DEF plus
  <1>6. plus(OfG(a), OfG(b)) = Cofactor * ((s + t) % Order)
    BY <1>1, <1>4, <1>5, ModScale
  <1>7. (s + t) % Order = (a + b) % Order
    <2>1. ((a % Order) + (b % Order)) % Order = (a + b) % Order BY <1>1, ModSum
    <2> QED BY <1>3, <2>1
  <1> QED BY <1>4, <1>6, <1>7, OfGIs

LEMMA OfGReduced ==
    ASSUME NEW a \in Nat
    PROVE  OfG(a % Order) = OfG(a)
  <1>1. Order \in Nat \ {0} BY StealthAssumption
  <1>2. a % Order \in Nat /\ a % Order \in 0 .. Order - 1 /\ 0 * Order + (a % Order) = a % Order
    BY <1>1, Division
  <1>3. (a % Order) % Order = a % Order BY <1>1, <1>2, ModIs
  <1> QED BY <1>2, <1>3, OfGIs

(* Only the multiples of Order are of small order, and all are torsion     *)
(* free.                                                                   *)
LEMMA OfGSafe ==
    ASSUME NEW a \in Nat, a % Order # 0
    PROVE  isSafePublicKey(OfG(a)) /\ ~isSmallOrder(OfG(a))
  <1>1. Order \in Nat \ {0} /\ Cofactor \in Nat \ {0} BY StealthAssumption
  <1>2. a % Order \in 1 .. Order - 1 BY <1>1, Division
  <1>3. Cofactor * a \in Nat /\ Order * a \in Nat BY <1>1, SMT
  <1>4. (Cofactor * a) % Order # 0
    <2>1. (Cofactor * (a % Order)) % Order = (Cofactor * a) % Order BY <1>1, ModTimes
    <2> QED BY <1>2, <2>1, GroupAssumption
  <1>5. (Cofactor * a) % Order \in Nat BY <1>1, <1>3, Division
  <1>6. Cofactor * ((Cofactor * a) % Order) # 0 BY <1>1, <1>4, <1>5, SMT
  <1>7. multiply(OfG(a), Cofactor) # 0 BY <1>1, <1>3, <1>6, OfGMultiple, OfGIs
  <1>8. (Order * a) % Order = 0
    <2>1. Order * a = a * Order + 0 BY <1>1, <1>3, SMT
    <2>2. 0 \in 0 .. Order - 1 BY <1>1
    <2> QED BY <1>1, <2>1, <2>2, ModIs
  <1>9. multiply(OfG(a), Order) = 0 BY <1>1, <1>3, <1>8, OfGMultiple, OfGIs
  <1> QED BY <1>7, <1>9, OfGIs DEF isSafePublicKey, isSmallOrder, isTorsionFree

-----------------------------------------------------------------------------
(* Stealth payments.                                                       *)

LEMMA HashTypes ==
    ASSUME NEW p \in Points
    PROVE  SharedHash[p] \in Nat /\ SharedHash[p] \in Scalars
BY StealthAssumption DEF Scalars

(* The address that a wallet shares is accepted by those who would pay it, *)
(* and the two keys in it are those of its scalars (stealthKeysFromSeeds   *)
(* against decodeMetaAddress).                                             *)
THEOREM OwnAddressAccepted ==
    ASSUME NEW spend \in 1 .. Order - 1, NEW scan \in 1 .. Order - 1
    PROVE  decodeMetaAddress(metaOf(stealthKeysFromSeeds(spend, scan)))
<1>1. Order \in Nat \ {0} BY StealthAssumption
<1>2. /\ spend \in Nat /\ scan \in Nat
      /\ 0 * Order + spend = spend /\ 0 * Order + scan = scan
      /\ spend \in 0 .. Order - 1 /\ scan \in 0 .. Order - 1 /\ spend # 0 /\ scan # 0
  BY <1>1
<1>3. spend % Order = spend /\ scan % Order = scan BY <1>1, <1>2, ModIs
<1>4. isSafePublicKey(OfG(spend)) /\ isSafePublicKey(OfG(scan)) BY <1>2, <1>3, OfGSafe
<1> QED
  BY <1>3, <1>4 DEF decodeMetaAddress, metaOf, stealthKeysFromSeeds, publicKeyFromScalar, OfG

(* Whatever announcement the scan takes for a payment, made by anybody in  *)
(* any way: the scalar it returns is the private key of the announced      *)
(* address, so that a withdrawal signed with it is signed by its payer     *)
(* (scanAnnouncement, publicKeyFromScalar).                                *)
THEOREM FoundKeysOpen ==
    ASSUME NEW spend \in Nat, NEW scan \in Nat, NEW a, a.ephemeral \in Points,
           NEW s \in scanAnnouncement(stealthKeysFromSeeds(spend, scan), a)
    PROVE  publicKeyFromScalar(s) = a.stealthPub
<1> DEFINE keys == stealthKeysFromSeeds(spend, scan)
           shared == multiply(a.ephemeral, scan)
<1>1. Order \in Nat \ {0} /\ Cofactor \in Nat \ {0} /\ Cofactor * Order \in Nat \ {0}
  <2>1. Order \in Nat \ {0} /\ Cofactor \in Nat \ {0} BY StealthAssumption
  <2> QED BY <2>1, SMT
<1>2. shared \in Points
  <2>1. a.ephemeral \in Nat BY <1>1 DEF Points
  <2>2. scan * a.ephemeral \in Nat BY <2>1, SMT
  <2> QED BY <1>1, <2>2, Division DEF multiply, Points
<1>3. PICK h : h = SharedHash[shared] OBVIOUS
<1>4. h \in Nat BY <1>2, <1>3, HashTypes
<1>5. keys.spend = spend /\ keys.scan = scan /\ keys.spendPub = OfG(spend % Order)
  BY DEF stealthKeysFromSeeds, publicKeyFromScalar, OfG
<1>6. s = (spend + h) % Order /\ plus(OfG(spend % Order), OfG(h)) = a.stealthPub
  BY <1>3, <1>5 DEF scanAnnouncement, OfG
<1>7. spend + h \in Nat /\ (spend + h) % Order \in Nat
  <2>1. spend + h \in Nat BY <1>4
  <2> QED BY <1>1, <2>1, Division
<1>8. a.stealthPub = OfG(spend + h)
  BY <1>4, <1>6, OfGReduced, OfGSum
<1>9. publicKeyFromScalar(s) = OfG(s % Order) BY DEF publicKeyFromScalar, OfG
<1> QED
  BY <1>6, <1>7, <1>8, <1>9, OfGReduced

(* A payment made to the address of a wallet is found by that wallet, with *)
(* the key of the address it lies at, whatever the randomness and the      *)
(* hashes (createStealthPayment against scanAnnouncement).                 *)
THEOREM PaymentIsFound ==
    ASSUME NEW spend \in Nat, NEW scan \in Nat, NEW r \in 1 .. Order - 1,
           ~Degenerate(metaOf(stealthKeysFromSeeds(spend, scan)), r)
    PROVE  LET keys == stealthKeysFromSeeds(spend, scan)
               paid == createStealthPayment(metaOf(keys), r)
           IN  \E s \in Scalars :
                  /\ scanAnnouncement(keys, paid) = {s}
                  /\ publicKeyFromScalar(s) = paid.stealthPub
<1> DEFINE keys == stealthKeysFromSeeds(spend, scan)
           meta == metaOf(keys)
           paid == createStealthPayment(meta, r)
           hers == multiply(meta.scanPub, r)
           mine == multiply(paid.ephemeral, keys.scan)
<1>1. Order \in Nat \ {0} /\ r \in Nat /\ r \in 0 .. Order - 1 /\ r # 0 /\ 0 * Order + r = r
  BY StealthAssumption
<1>2. /\ keys.spend = spend /\ keys.scan = scan
      /\ keys.spendPub = OfG(spend % Order) /\ meta.spendPub = OfG(spend % Order)
      /\ meta.scanPub = OfG(scan % Order) /\ paid.ephemeral = OfG(r)
  BY DEF stealthKeysFromSeeds, metaOf, publicKeyFromScalar, createStealthPayment, OfG
<1>3. mine = hers
  <2>1. r * scan = scan * r /\ scan * r \in Nat BY <1>1, SMT
  <2>2. hers = OfG(r * scan) BY <1>1, <1>2, OfGReduced, OfGMultiple
  <2>3. mine = OfG(scan * r) BY <1>1, <1>2, OfGMultiple
  <2> QED BY <2>1, <2>2, <2>3
<1>4. hers \in Points
  <2>1. r * scan \in Nat BY <1>1, SMT
  <2>2. hers = OfG(r * scan) BY <1>1, <1>2, OfGReduced, OfGMultiple
  <2> QED BY <2>1, <2>2, OfGIs
<1>5. PICK h : h = SharedHash[hers] OBVIOUS
<1>6. h \in Nat /\ h # 0 BY <1>4, <1>5, HashTypes DEF Degenerate
<1>7. ~isSmallOrder(paid.ephemeral)
  <2>1. r % Order = r BY <1>1, ModIs
  <2> QED BY <1>1, <1>2, <2>1, OfGSafe
<1>8. paid.viewTag = ViewTag[mine] /\ plus(keys.spendPub, multiply(G, SharedHash[mine])) = paid.stealthPub
  BY <1>2, <1>3 DEF createStealthPayment
<1>9. PICK s : s = (spend + h) % Order OBVIOUS
<1>10. scanAnnouncement(keys, paid) = {s}
  BY <1>2, <1>3, <1>5, <1>6, <1>7, <1>8, <1>9 DEF scanAnnouncement
<1>11. s \in Scalars
  <2>1. spend + h \in Nat BY <1>6
  <2> QED BY <1>1, <1>9, <2>1, Division DEF Scalars
<1>12. paid.ephemeral \in Points BY <1>1, <1>2, OfGIs
<1>13. publicKeyFromScalar(s) = paid.stealthPub
  BY <1>10, <1>12, FoundKeysOpen
<1> QED
  BY <1>10, <1>11, <1>13

-----------------------------------------------------------------------------
(* The inductive invariant of the pages.  What a handler goes on with is   *)
(* one of the twelve things a page can do, to this wallet's own locks, or  *)
(* a trade with SOL on one side; once checked, a payment is not degenerate.*)

Kinds == {"send", "swap", "lock", "withdraw", "cancel lock", "link", "cancel link", "claim",
          "stealth pay", "sweep", "mint", "gift"}

TermsOK(t) ==
    /\ "kind" \in DOMAIN t /\ t.kind \in Kinds
    /\ t.kind = "swap" => Sol \in {t.from, t.to}
    /\ t.kind = "withdraw" => t.lock.recipient = me
    /\ t.kind = "cancel lock" => t.lock.sender = me
    /\ t.kind = "stealth pay" => t.random \in 0 .. Order - 1

ReadyOK(t) == TermsOK(t) /\ (t.kind = "stealth pay" => ~Degenerate(t.meta, t.random))

(* What is signed ends as it must: with the wrapped account closed, or     *)
(* with the announcement of the payment.                                   *)
ItemOf(t) ==
    LET made == createStealthPayment(t.meta, t.random)
    IN  [ephemeral |-> publicKeyToAddress(made.ephemeral), stealth |-> stealthAddressOf(t),
         view_tag |-> made.viewTag]
Unwrapping == closeTokenAccount(findAssociatedTokenAddress(me, Wsol), me, me)
Announcing(i) == announceInstruction(me, i.ephemeral, i.stealth, i.view_tag)

EndsWith(ixs, ix) == Len(ixs) > 0 /\ ixs[Len(ixs)] = ix
SignersOK(tx) == IsFiniteSet(tx.signed) /\ Cardinality({tx.payer} \cup tx.signed) \in 0 .. 2
TxOK(tx, t) ==
    /\ SignersOK(tx)
    /\ IsList(tx.ixs)
    /\ MovesSol(t) => EndsWith(tx.ixs, Unwrapping)
    /\ t.kind = "stealth pay" => EndsWith(tx.ixs, Announcing(ItemOf(t)))

JobOK(j, n) ==
    /\ DOMAIN j = {"step", "terms", "tx", "fresh", "at"}
    /\ j.step \in {"idle", "checking", "review", "sending", "confirming"}
    /\ j.step # "idle" => TermsOK(j.terms)
    /\ j.step = "review" => Reviewed(j.terms)
    /\ j.step = "sending" => ReadyOK(j.terms) /\ TxOK(j.tx, j.terms)
    /\ j.step = "confirming" => j.at \in 1 .. n
JobsOK(jobs, n) == DOMAIN jobs = Slots /\ \A s \in Slots : JobOK(jobs[s], n)

(* What a receipt says of a transaction is what became of it. *)
NoticeOK(x, list) ==
    /\ DOMAIN x = {"kind", "why", "fresh", "at"}
    /\ x.kind \in {"done", "failed"} => x.at \in 1 .. Len(list)
    /\ x.kind = "done" => list[x.at].status = "ok"
    /\ x.kind = "failed" => list[x.at].status = "failed"
NoticesOK(notices, list) == DOMAIN notices = Slots /\ \A s \in Slots : NoticeOK(notices[s], list)

(* A payment on the chain is announced in the feed. *)
SentOK(x, feed) ==
    /\ DOMAIN x = {"terms", "tx", "status", "kept", "told", "seen"}
    /\ x.status \in {"pending", "ok", "failed", "dropped"}
    /\ ReadyOK(x.terms) /\ TxOK(x.tx, x.terms)
    /\ x.terms.kind = "stealth pay" /\ x.status = "ok" =>
          \E i \in 1 .. Len(feed) : feed[i] = ItemOf(x.terms)
AllSentOK(list, feed) == IsList(list) /\ \A i \in 1 .. Len(list) : SentOK(list[i], feed)

FormOK(p, f) ==
    p = "swap" =>
        /\ DOMAIN f = {"from", "to", "amount", "slippage", "acknowledged"}
        /\ f.from \in Assets /\ f.to \in Assets /\ f.from # f.to

CacheOK(p, c) ==
    /\ DOMAIN c = {"assets", "list"}
    /\ p = "locks" =>
          /\ \A l \in c.list.recipient : l.recipient = me
          /\ \A l \in c.list.sender : l.sender = me

ChainOK(L) == IsLedger(L) /\ L.ok

PagesInv ==
    /\ page \in AllPages
    /\ ChainOK(chain)
    /\ CacheOK(page, cache)
    /\ FormOK(page, form)
    /\ JobsOK(job, Len(sent))
    /\ NoticesOK(notice, sent)
    /\ AllSentOK(sent, chain.feed)

-----------------------------------------------------------------------------
(* What the checks of a page let through.                                  *)

LEMMA Counts == \A n \in Nat : 1 + n \in Nat /\ 1 .. n \subseteq Nat
OBVIOUS

LEMMA ToFour == 4 \in Nat /\ 4 \in 1 .. 4 /\ \A i \in 1 .. 4 : i = 1 \/ i = 2 \/ i = 3 \/ i = 4
OBVIOUS

LEMMA FirstIs ==
    ASSUME NEW S \in SUBSET Nat, S # {}
    PROVE  Min(S) \in S
<1>1. \E x \in S : \A y \in S : x <= y BY LeastNat
<1> QED BY <1>1 DEF Min

(* No message, no blocker. *)
LEMMA NoBlocker ==
    ASSUME NEW b, Len(b) \in Nat, DOMAIN b = 1 .. Len(b),
           \A i \in 1 .. Len(b) : b[i][2] # "", FirstOf(b) = ""
    PROVE  \A i \in 1 .. Len(b) : ~b[i][1]
<1>1. PICK hit : hit = {i \in DOMAIN b : b[i][1]} OBVIOUS
<1>2. DOMAIN b = 1 .. Len(b) /\ Len(b) \in Nat OBVIOUS
<1>3. hit \in SUBSET Nat /\ hit \subseteq 1 .. Len(b)
  <2>1. hit \subseteq DOMAIN b BY <1>1, Zenon
  <2>2. hit \subseteq 1 .. Len(b) BY <1>2, <2>1, Zenon
  <2> QED BY <1>2, <2>2, Counts, Zenon
<1>4. CASE hit = {} BY <1>1, <1>2, <1>4
<1>5. CASE hit # {}
  <2>1. Min(hit) \in hit BY <1>3, <1>5, FirstIs
  <2>2. FirstOf(b) = b[Min(hit)][2] BY <1>1, <1>5 DEF FirstOf
  <2> QED BY <1>3, <2>1, <2>2
<1> QED BY <1>4, <1>5

LEMMA OrderTypes == Order \in Nat \ {0} /\ \A n \in Nat : n % Order \in 0 .. Order - 1
<1>1. Order \in Nat \ {0} BY StealthAssumption
<1> QED BY <1>1, Division

LEMMA SendTerms ==
    ASSUME NEW f, NEW assets, NEW who, SendPressed(f, assets, who).error = ""
    PROVE  TermsOK(SendPressed(f, assets, who).terms)
BY DEF SendPressed, Sorry, GoOn, TermsOK, Kinds

LEMMA SwapTerms ==
    ASSUME NEW f, NEW assets, NEW pools, FormOK("swap", f), SwapPressed(f, assets, pools).error = ""
    PROVE  TermsOK(SwapPressed(f, assets, pools).terms)
<1>1. Sol \in {f.from, f.to} BY DEF FormOK, Assets
<1> QED BY <1>1 DEF SwapPressed, Sorry, GoOn, TermsOK, Kinds

LEMMA LockTerms ==
    ASSUME NEW f, NEW assets, NEW at, NEW seed, LockPressed(f, assets, at, seed).error = ""
    PROVE  TermsOK(LockPressed(f, assets, at, seed).terms)
BY DEF LockPressed, Sorry, GoOn, TermsOK, Kinds

LEMMA LinkTerms ==
    ASSUME NEW f, NEW assets, LinkPressed(f, assets).error = ""
    PROVE  TermsOK(LinkPressed(f, assets).terms)
BY DEF LinkPressed, Sorry, GoOn, TermsOK, Kinds

LEMMA ClaimTerms ==
    ASSUME NEW f, NEW links, NEW secret, NEW at, ClaimPressed(f, links, secret, at).error = ""
    PROVE  TermsOK(ClaimPressed(f, links, secret, at).terms)
BY DEF ClaimPressed, Sorry, GoOn, TermsOK, Kinds

LEMMA PayTerms ==
    ASSUME NEW f, NEW assets, NEW r \in 0 .. Order - 1, PayPressed(f, assets, r).error = ""
    PROVE  TermsOK(PayPressed(f, assets, r).terms)
BY DEF PayPressed, Sorry, GoOn, TermsOK, Kinds

LEMMA MintTerms ==
    ASSUME NEW f, MintPressed(f).error = ""
    PROVE  TermsOK(MintPressed(f).terms)
BY DEF MintPressed, Sorry, GoOn, TermsOK, Kinds

LEMMA GiftTerms ==
    ASSUME NEW f, NEW nft, NEW who, GiftPressed(f, nft, who).error = ""
    PROVE  TermsOK(GiftPressed(f, nft, who).terms)
BY DEF GiftPressed, Sorry, GoOn, TermsOK, Kinds

(* A form that is accepted leads to terms that are good. *)
LEMMA FormTerms ==
    ASSUME PagesInv, FormPressed.error = ""
    PROVE  TermsOK(FormPressed.terms)
<1>1. PICK r : r = (1 + Len(sent)) % Order OBVIOUS
<1>2. r \in 0 .. Order - 1
  <2>1. IsList(sent) BY DEF PagesInv, AllSentOK
  <2>2. Len(sent) \in Nat BY <2>1, ListIs
  <2>3. 1 + Len(sent) \in Nat BY <2>2, Counts, Zenon
  <2> QED BY <1>1, <2>3, OrderTypes
<1>3. page \in AllPages /\ FormOK(page, form) BY DEF PagesInv
<1>4. CASE page = "send" BY <1>4, SendTerms DEF FormPressed
<1>5. CASE page = "swap" BY <1>3, <1>5, SwapTerms DEF FormPressed
<1>6. CASE page = "locks" BY <1>6, LockTerms DEF FormPressed
<1>7. CASE page = "links" BY <1>7, LinkTerms DEF FormPressed
<1>8. CASE page = "claim" BY <1>8, ClaimTerms DEF FormPressed
<1>9. CASE page = "stealth" BY <1>1, <1>2, <1>9, PayTerms DEF FormPressed
<1>10. CASE page = "mint" BY <1>10, MintTerms DEF FormPressed
<1>11. CASE page = "nft" BY <1>11, GiftTerms DEF FormPressed
<1> QED BY <1>3, <1>4, <1>5, <1>6, <1>7, <1>8, <1>9, <1>10, <1>11 DEF AllPages

(* So does a row. *)
LEMMA RowTerms ==
    ASSUME PagesInv, NEW t \in OffersOf(cache.list), RowPressed(t).error = ""
    PROVE  TermsOK(RowPressed(t).terms)
<1>1. page \in AllPages /\ CacheOK(page, cache) BY DEF PagesInv
<1>2. CASE page = "locks"
  <2>1. t \in WithdrawOffers(cache.list.recipient, clock, chain.now)
              \cup CancelLockOffers(cache.list.sender, clock)
    BY <1>2 DEF OffersOf
  <2>2. \/ \E l \in cache.list.recipient :
                t = [kind |-> "withdraw", lock |-> l, due |-> withdrawableAmount(l, chain.now)]
        \/ \E l \in cache.list.sender : t = [kind |-> "cancel lock", lock |-> l]
    BY <2>1 DEF WithdrawOffers, CancelLockOffers
  <2>3. ASSUME NEW l \in cache.list.recipient,
               t = [kind |-> "withdraw", lock |-> l, due |-> withdrawableAmount(l, chain.now)]
        PROVE  TermsOK(t) /\ t.kind # "sweep"
    <3>1. l.recipient = me BY <1>1, <1>2, <2>3 DEF CacheOK
    <3> QED BY <2>3, <3>1 DEF TermsOK, Kinds
  <2>4. ASSUME NEW l \in cache.list.sender, t = [kind |-> "cancel lock", lock |-> l]
        PROVE  TermsOK(t) /\ t.kind # "sweep"
    <3>1. l.sender = me BY <1>1, <1>2, <2>4 DEF CacheOK
    <3> QED BY <2>4, <3>1 DEF TermsOK, Kinds
  <2>5. TermsOK(t) /\ t.kind # "sweep" BY <2>2, <2>3, <2>4
  <2> QED BY <2>5 DEF RowPressed, GoOn
<1>3. CASE page = "links"
  <2>1. t \in CancelLinkOffers(cache.list) BY <1>3 DEF OffersOf
  <2>2. PICK l : t = [kind |-> "cancel link", link |-> l] BY <2>1 DEF CancelLinkOffers
  <2>3. TermsOK(t) /\ t.kind # "sweep" BY <2>2 DEF TermsOK, Kinds
  <2> QED BY <2>3 DEF RowPressed, GoOn
<1>4. CASE page = "stealth"
  <2>1. t \in SweepOffers(cache.list, Destination) BY <1>4 DEF OffersOf
  <2>2. PICK p : t = [kind |-> "sweep", payment |-> p, dest |-> Destination] BY <2>1 DEF SweepOffers
  <2>3. TermsOK(t) /\ t.kind = "sweep" BY <2>2 DEF TermsOK, Kinds
  <2> QED BY <2>3 DEF RowPressed, SweepPressed, Sorry, GoOn
<1>5. CASE page \notin {"locks", "links", "stealth"}
  <2>1. t \in {} BY <1>5 DEF OffersOf
  <2> QED BY <2>1
<1> QED BY <1>2, <1>3, <1>4, <1>5

-----------------------------------------------------------------------------
(* What the awaited checks let through, and what is built of it.           *)

LEMMA SameKind ==
    ASSUME NEW t, TermsOK(t), t.kind \notin {"swap", "withdraw", "cancel lock", "stealth pay"},
           NEW u, DOMAIN u = DOMAIN t, u.kind = t.kind
    PROVE  ReadyOK(u)
BY DEF TermsOK, ReadyOK

LEMMA PayBlockersAre ==
    ASSUME NEW t
    PROVE  /\ DOMAIN PayBlockers(t) = 1 .. 4 /\ Len(PayBlockers(t)) = 4
           /\ PayBlockers(t)[1][2] # "" /\ PayBlockers(t)[2][2] # ""
           /\ PayBlockers(t)[3][2] # "" /\ PayBlockers(t)[4][2] # ""
           /\ Degenerate(t.meta, t.random) => PayBlockers(t)[4][1]
BY DEF PayBlockers

LEMMA PayReady ==
    ASSUME NEW t, TermsOK(t), t.kind = "stealth pay", PayChecked(t).error = ""
    PROVE  ReadyOK(PayChecked(t).terms)
<1>1. PICK b : b = PayBlockers(t) OBVIOUS
<1>2. FirstOf(b) = "" /\ PayChecked(t).terms = t BY <1>1 DEF PayChecked, Sorry, GoOn
<1>3. DOMAIN b = 1 .. 4 /\ Len(b) = 4 BY <1>1, PayBlockersAre
<1>4. \A i \in 1 .. 4 : b[i][2] # "" BY <1>1, PayBlockersAre, ToFour, Zenon
<1>5. \A i \in 1 .. 4 : ~b[i][1] BY <1>2, <1>3, <1>4, NoBlocker, ToFour
<1>6. ~b[4][1] BY <1>5, ToFour
<1>7. ~Degenerate(t.meta, t.random) BY <1>1, <1>6, PayBlockersAre
<1> QED BY <1>2, <1>7 DEF ReadyOK

(* The terms that the checks return are the terms of the press, with what  *)
(* the network answered filled in.                                         *)
LEMMA CheckedTerms ==
    ASSUME NEW L, NEW t, TermsOK(t), Checked(L, t).error = ""
    PROVE  ReadyOK(Checked(L, t).terms)
<1>1. t.kind \in Kinds /\ (t.kind \notin {"swap", "withdraw", "cancel lock", "stealth pay"} => ReadyOK(t))
  BY SameKind DEF TermsOK
<1>2. CASE t.kind = "send"
  <2>1. Checked(L, t) = SendChecked(L, t, me) BY <1>2 DEF Checked
  <2>2. PICK u : u = [t EXCEPT !.rent = IF hasTokenAccount(L, t.to, t.asset) THEN 0 ELSE TokenRent]
    OBVIOUS
  <2>3. ReadyOK(u)
    <3>1. DOMAIN u = DOMAIN t /\ u.kind = t.kind BY <2>2 DEF TermsOK
    <3> QED BY <1>2, <3>1, SameKind
  <2>4. SendChecked(L, t, me).error = "" => SendChecked(L, t, me).terms \in {t, u}
    BY <2>2 DEF SendChecked, SendSolChecked, SendTokenChecked, Sorry, GoOn
  <2> QED BY <1>1, <1>2, <2>1, <2>3, <2>4
<1>3. CASE t.kind = "link"
  <2>1. Checked(L, t) = LinkChecked(t, clock, Fresh) BY <1>3 DEF Checked
  <2>2. PICK u : u = [t EXCEPT !.expiry = clock + @, !.secret = Fresh] OBVIOUS
  <2>3. ReadyOK(u)
    <3>1. DOMAIN u = DOMAIN t /\ u.kind = t.kind BY <2>2 DEF TermsOK
    <3> QED BY <1>3, <3>1, SameKind
  <2>4. LinkChecked(t, clock, Fresh).error = "" => LinkChecked(t, clock, Fresh).terms = u
    BY <2>2 DEF LinkChecked, Sorry, GoOn
  <2> QED BY <2>1, <2>3, <2>4
<1>4. CASE t.kind = "stealth pay"
  <2>1. Checked(L, t) = PayChecked(t) BY <1>4 DEF Checked
  <2> QED BY <1>4, <2>1, PayReady
<1>5. CASE t.kind = "sweep"
  <2>1. Checked(L, t) = SweepChecked(L, t) BY <1>5 DEF Checked
  <2>2. SweepChecked(L, t).error = "" => SweepChecked(L, t).terms = t
    BY DEF SweepChecked, Sorry, GoOn
  <2> QED BY <1>1, <1>5, <2>1, <2>2
<1>6. CASE t.kind = "mint"
  <2>1. Checked(L, t) = MintChecked(L, t, me, Fresh) BY <1>6 DEF Checked
  <2>2. PICK u : u = [t EXCEPT !.nft = Key(Fresh)] OBVIOUS
  <2>3. ReadyOK(u)
    <3>1. DOMAIN u = DOMAIN t /\ u.kind = t.kind BY <2>2 DEF TermsOK
    <3> QED BY <1>6, <3>1, SameKind
  <2>4. MintChecked(L, t, me, Fresh).error = "" => MintChecked(L, t, me, Fresh).terms = u
    BY <2>2 DEF MintChecked, Sorry, GoOn
  <2> QED BY <2>1, <2>3, <2>4
<1>7. CASE t.kind = "gift"
  <2>1. Checked(L, t) = GiftChecked(L, t, me) BY <1>7 DEF Checked
  <2>2. GiftChecked(L, t, me).error = "" => GiftChecked(L, t, me).terms = t
    BY DEF GiftChecked, Sorry, GoOn
  <2> QED BY <1>1, <1>7, <2>1, <2>2
<1>8. CASE t.kind \notin {"send", "link", "stealth pay", "sweep", "mint", "gift"}
  <2>1. Checked(L, t) = GoOn(t)
    <3>1. /\ t.kind # "send" /\ t.kind # "link" /\ t.kind # "stealth pay"
          /\ t.kind # "sweep" /\ t.kind # "mint" /\ t.kind # "gift"
      BY <1>8
    <3> QED BY <3>1 DEF Checked
  <2>2. GoOn(t).terms = t BY DEF GoOn
  <2>3. ReadyOK(t) BY <1>8 DEF ReadyOK
  <2> QED BY <2>1, <2>2, <2>3
<1> QED BY <1>2, <1>3, <1>4, <1>5, <1>6, <1>7, <1>8

LEMMA EndsOne ==
    ASSUME NEW x
    PROVE  IsList(<<x>>) /\ EndsWith(<<x>>, x)
BY Lists DEF EndsWith

LEMMA EndsConcat ==
    ASSUME NEW s, IsList(s), NEW t, IsList(t), NEW x, EndsWith(t, x)
    PROVE  IsList(s \o t) /\ EndsWith(s \o t, x)
<1>1. Len(s) \in Nat /\ Len(t) \in Nat BY ListIs
<1>2. IsList(s \o t) /\ Len(s \o t) = Len(s) + Len(t) BY ListConcat
<1>3. \A i \in 1 .. Len(t) : (s \o t)[Len(s) + i] = t[i] BY ListConcat
<1>4. Len(t) > 0 /\ t[Len(t)] = x BY DEF EndsWith
<1>5. Len(t) \in 1 .. Len(t) BY <1>1, <1>4
<1>6. (s \o t)[Len(s) + Len(t)] = x BY <1>3, <1>4, <1>5
<1>7. Len(s \o t) > 0 BY <1>1, <1>2, <1>4
<1> QED BY <1>2, <1>6, <1>7 DEF EndsWith

LEMMA WhenList ==
    ASSUME NEW condition, NEW s, IsList(s)
    PROVE  IsList(When(condition, s))
BY Lists DEF When

LEMMA SendBuilt ==
    ASSUME NEW L, NEW t
    PROVE  IsList(SendInstructions(L, t, me))
<1>1. PICK a, b, c : SendInstructions(L, t, me) \in {<<a>>, When(~hasTokenAccount(L, t.to, t.asset), <<b>>) \o <<c>>}
  BY DEF SendInstructions
<1>2. IsList(When(~hasTokenAccount(L, t.to, t.asset), <<b>>)) BY Lists, WhenList
<1> QED BY <1>1, <1>2, Lists, ListConcat

LEMMA SwapBuilt ==
    ASSUME NEW t, Sol \in {t.from, t.to}
    PROVE  /\ IsList(buildSwapInstructions(t, me))
           /\ EndsWith(buildSwapInstructions(t, me), Unwrapping)
<1> DEFINE mintIn == MintOf(t.from)
           mintOut == MintOf(t.to)
           ataIn == findAssociatedTokenAddress(me, mintIn)
           ataOut == findAssociatedTokenAddress(me, mintOut)
           aToB == SwapPool.mintA = mintIn
<1>1. PICK opening : opening = <<createAssociatedTokenAccountIdempotent(me, me, mintIn),
                                 createAssociatedTokenAccountIdempotent(me, me, mintOut)>>
  OBVIOUS
<1>2. PICK wrapping : wrapping = When(t.from = Sol, Wrapping(me, ataIn, t.amount)) OBVIOUS
<1>3. PICK swap : swap = <<swapInstruction(me, SwapPool, IF aToB THEN ataIn ELSE ataOut,
                               IF aToB THEN ataOut ELSE ataIn, t.amount, t.min, aToB)>>
  OBVIOUS
<1>4. PICK closing : closing = closeTokenAccount(IF t.from = Sol THEN ataIn ELSE ataOut, me, me) OBVIOUS
<1>5. closing = Unwrapping
  <2>1. (IF t.from = Sol THEN ataIn ELSE ataOut) = findAssociatedTokenAddress(me, Wsol) BY DEF MintOf
  <2> QED BY <1>4, <2>1 DEF Unwrapping
<1>6. When(Sol \in {t.from, t.to}, <<closing>>) = <<closing>> BY DEF When
<1>7. buildSwapInstructions(t, me) = opening \o wrapping \o swap \o <<closing>>
  BY <1>1, <1>2, <1>3, <1>4, <1>6 DEF buildSwapInstructions
<1>8. IsList(opening) /\ IsList(swap) BY <1>1, <1>3, Lists
<1>9. IsList(wrapping) BY <1>2, Lists, WhenList DEF Wrapping
<1>10. IsList(opening \o wrapping \o swap) BY <1>8, <1>9, ListConcat
<1> QED BY <1>5, <1>7, <1>10, EndsOne, EndsConcat

LEMMA LockBuilt ==
    ASSUME NEW t
    PROVE  /\ IsList(buildCreateLockInstructions(t, me))
           /\ t.asset = Sol => EndsWith(buildCreateLockInstructions(t, me), Unwrapping)
<1> DEFINE mint == MintOf(t.asset)
           token == findAssociatedTokenAddress(me, mint)
<1>1. PICK lock : lock = createTimelockInstruction(me, t.to, mint, deriveTimelockAddresses(me, t.to, t.seed, mint),
                    token, [seed |-> t.seed, amount |-> t.amount, start |-> t.schedule.start,
                            cliff |-> t.schedule.cliff, end |-> t.schedule.end,
                            cancellable |-> t.cancellable])
  OBVIOUS
<1>2. CASE t.asset # Sol
  <2>1. buildCreateLockInstructions(t, me) = <<lock>>
    BY <1>1, <1>2 DEF buildCreateLockInstructions
  <2> QED BY <1>2, <2>1, Lists
<1>3. CASE t.asset = Sol
  <2>1. PICK opening, closing : /\ opening = createAssociatedTokenAccountIdempotent(me, me, mint)
                                /\ closing = closeTokenAccount(token, me, me)
    OBVIOUS
  <2>2. buildCreateLockInstructions(t, me) = <<opening>> \o Wrapping(me, token, t.amount) \o <<lock, closing>>
    BY <1>1, <1>3, <2>1 DEF buildCreateLockInstructions
  <2>3. closing = Unwrapping BY <1>3, <2>1 DEF Unwrapping, MintOf
  <2>4. IsList(<<lock, closing>>) /\ EndsWith(<<lock, closing>>, closing) BY Lists DEF EndsWith
  <2>5. IsList(<<opening>>) /\ IsList(Wrapping(me, token, t.amount)) BY Lists DEF Wrapping
  <2>6. IsList(<<opening>> \o Wrapping(me, token, t.amount)) BY <2>5, ListConcat
  <2> QED BY <2>2, <2>3, <2>4, <2>6, EndsConcat
<1> QED BY <1>2, <1>3

(* The two buttons of a lock of mine end alike. *)
LEMMA RowBuilt ==
    ASSUME NEW a, NEW b, NEW mint, NEW token, token = findAssociatedTokenAddress(me, mint)
    PROVE  LET ixs == <<a, b>> \o When(mint = Wsol, <<closeTokenAccount(token, me, me)>>)
           IN  IsList(ixs) /\ (mint = Wsol => EndsWith(ixs, Unwrapping))
<1>1. PICK s : s = <<a, b>> OBVIOUS
<1>2. PICK c : c = closeTokenAccount(token, me, me) OBVIOUS
<1>3. IsList(s) /\ IsList(<<c>>) /\ IsList(When(mint = Wsol, <<c>>)) BY <1>1, Lists, WhenList
<1>4. IsList(s \o When(mint = Wsol, <<c>>)) BY <1>3, ListConcat
<1>5. ASSUME mint = Wsol
      PROVE  EndsWith(s \o When(mint = Wsol, <<c>>), Unwrapping)
  <2>1. c = Unwrapping BY <1>2, <1>5 DEF Unwrapping
  <2>2. When(mint = Wsol, <<c>>) = <<c>> BY <1>5 DEF When
  <2> QED BY <1>3, <2>1, <2>2, EndsOne, EndsConcat
<1> QED BY <1>1, <1>2, <1>4, <1>5

LEMMA WithdrawBuilt ==
    ASSUME NEW lock, lock.recipient = me
    PROVE  LET ixs == buildWithdrawInstructions(lock)
           IN  IsList(ixs) /\ (lock.mint = Wsol => EndsWith(ixs, Unwrapping))
<1>1. PICK token : token = findAssociatedTokenAddress(me, lock.mint) OBVIOUS
<1>2. PICK a, b : /\ a = createAssociatedTokenAccountIdempotent(me, me, lock.mint)
                  /\ b = withdrawTimelockInstruction(me,
                            deriveTimelockAddresses(lock.sender, me, lock.seed, lock.mint),
                            lock.sender, lock.mint, token)
  OBVIOUS
<1>3. buildWithdrawInstructions(lock)
        = <<a, b>> \o When(lock.mint = Wsol, <<closeTokenAccount(token, me, me)>>)
  BY <1>1, <1>2 DEF buildWithdrawInstructions
<1> QED BY <1>1, <1>3, RowBuilt

LEMMA CancelBuilt ==
    ASSUME NEW lock, lock.sender = me
    PROVE  LET ixs == buildCancelLockInstructions(lock)
           IN  IsList(ixs) /\ (lock.mint = Wsol => EndsWith(ixs, Unwrapping))
<1>1. PICK token : token = findAssociatedTokenAddress(me, lock.mint) OBVIOUS
<1>2. PICK a, b : /\ a = createAssociatedTokenAccountIdempotent(me, me, lock.mint)
                  /\ b = cancelTimelockInstruction(me,
                            deriveTimelockAddresses(me, lock.recipient, lock.seed, lock.mint),
                            lock.mint, token)
  OBVIOUS
<1>3. buildCancelLockInstructions(lock)
        = <<a, b>> \o When(lock.mint = Wsol, <<closeTokenAccount(token, me, me)>>)
  BY <1>1, <1>2 DEF buildCancelLockInstructions
<1> QED BY <1>1, <1>3, RowBuilt

LEMMA LinksBuilt ==
    ASSUME NEW t
    PROVE  /\ IsList(buildCreateLinkInstructions(t, me))
           /\ IsList(buildCancelInstructions(t.link))
           /\ IsList(buildClaimInstructions(t))
<1>1. \E a, b : buildCreateLinkInstructions(t, me) \in {<<a>>, <<b>>}
  BY DEF buildCreateLinkInstructions
<1>2. \E a, b, c : buildCancelInstructions(t.link) \in {<<a>>, <<b, c>>}
  BY DEF buildCancelInstructions
<1>3. \E a, b, c : buildClaimInstructions(t) \in {<<a>>, <<b, c>>}
  BY DEF buildClaimInstructions
<1> QED BY <1>1, <1>2, <1>3, Lists

LEMMA PayBuilt ==
    ASSUME NEW t
    PROVE  /\ IsList(planStealthPayment(t, me))
           /\ EndsWith(planStealthPayment(t, me), Announcing(ItemOf(t)))
<1>1. PICK made : made = createStealthPayment(t.meta, t.random) OBVIOUS
<1>2. PICK stealth : stealth = publicKeyToAddress(made.stealthPub) OBVIOUS
<1>3. PICK last : last = announceInstruction(me, publicKeyToAddress(made.ephemeral), stealth, made.viewTag)
  OBVIOUS
<1>4. last = Announcing(ItemOf(t))
  <2>1. PICK i : i = ItemOf(t) OBVIOUS
  <2>2. /\ i.ephemeral = publicKeyToAddress(made.ephemeral) /\ i.stealth = stealth
        /\ i.view_tag = made.viewTag
    BY <1>1, <1>2, <2>1 DEF ItemOf, stealthAddressOf
  <2> QED BY <1>3, <2>1, <2>2 DEF Announcing
<1>5. PICK before : before = IF t.asset = Sol THEN <<systemTransfer(me, stealth, t.amount)>>
         ELSE <<systemTransfer(me, stealth, TokenRent + FEE_MARGIN_LAMPORTS),
                createAssociatedTokenAccountIdempotent(me, stealth, t.asset),
                transferChecked(findAssociatedTokenAddress(me, t.asset), t.asset,
                    findAssociatedTokenAddress(stealth, t.asset), me, t.amount)>>
  OBVIOUS
<1>6. planStealthPayment(t, me) = before \o <<last>>
  BY <1>1, <1>2, <1>3, <1>5 DEF planStealthPayment
<1>7. IsList(before) BY <1>5, Lists
<1> QED BY <1>4, <1>6, <1>7, EndsOne, EndsConcat

LEMMA SweepBuilt ==
    ASSUME NEW L, NEW t
    PROVE  IsList(planSweep(L, t))
<1> DEFINE from == t.payment.address
           Tokens(mint) == sweepToken(from, t.dest, mint, At(L.tokens, findAssociatedTokenAddress(from, mint)))
           Sweep(mint) == When(mint \in tokensOf(L, from), Tokens(mint))
           Rest == When(solOut(L, t) > 0, <<systemTransfer(from, t.dest, solOut(L, t))>>)
<1>1. \A mint : IsList(Tokens(mint)) BY Lists DEF sweepToken
<1>2. IsList(Sweep(Usd)) /\ IsList(Sweep(Wsol)) /\ IsList(Rest) BY <1>1, Lists, WhenList
<1>3. planSweep(L, t) = Sweep(Usd) \o Sweep(Wsol) \o Rest BY DEF planSweep
<1> HIDE DEF Sweep, Rest
<1>4. IsList(Sweep(Usd) \o Sweep(Wsol)) BY <1>2, ListConcat
<1> QED BY <1>2, <1>3, <1>4, ListConcat

LEMMA NftBuilt ==
    ASSUME NEW t
    PROVE  IsList(buildMint(t, me)) /\ IsList(buildSend(t, me))
BY Lists DEF buildMint, buildSend

LEMMA MineIs ==
    ASSUME NEW ixs
    PROVE  Mine(ixs).ixs = ixs
BY DEF Mine

(* No transaction of the wallet has more than two signatures.              *)
LEMMA OneOrTwoSign ==
    ASSUME NEW a, NEW b
    PROVE  /\ IsFiniteSet({a}) /\ IsFiniteSet({a} \cup {b})
           /\ Cardinality({a}) \in 0 .. 2 /\ Cardinality({a} \cup {b}) \in 0 .. 2
<1>1. IsFiniteSet({a}) /\ Cardinality({a}) = 1 BY FS_Singleton
<1>2. /\ IsFiniteSet({a} \cup {b})
      /\ Cardinality({a} \cup {b}) = IF b \in {a} THEN Cardinality({a}) ELSE Cardinality({a}) + 1
  BY <1>1, FS_AddElement
<1> QED BY <1>1, <1>2

LEMMA BuiltSigners ==
    ASSUME NEW L, NEW t, TermsOK(t)
    PROVE  SignersOK(Built(L, t))
<1>1. t.kind \in Kinds BY DEF TermsOK
<1>2. PICK tx : tx = Built(L, t) OBVIOUS
<1>3. CASE t.kind \in Kinds \ {"claim", "sweep", "mint"}
  <2>1. \E ixs : tx = Mine(ixs)
    BY <1>2, <1>3 DEF Built, Kinds
  <2>2. tx.payer = me /\ tx.signed = {me} BY <2>1 DEF Mine
  <2>3. {tx.payer} \cup tx.signed = {me} BY <2>2
  <2> QED BY <1>2, <2>2, <2>3, OneOrTwoSign DEF SignersOK
<1>4. CASE t.kind = "claim"
  <2>1. PICK key : key = claimKeyOf(t.secret) OBVIOUS
  <2>2. tx = buildRelayableTransaction(t) BY <1>2, <1>4 DEF Built
  <2>3. tx.payer = relayer /\ tx.signed = {key} BY <2>1, <2>2 DEF buildRelayableTransaction
  <2> QED BY <1>2, <2>3, OneOrTwoSign DEF SignersOK
<1>5. CASE t.kind = "sweep"
  <2>1. PICK key : key = publicKeyToAddress(publicKeyFromScalar(t.payment.scalar)) OBVIOUS
  <2>2. tx = buildScalarSignedTransaction(L, t) BY <1>2, <1>5 DEF Built
  <2>3. tx.signed = {key} BY <2>1, <2>2 DEF buildScalarSignedTransaction
  <2> QED BY <1>2, <2>3, OneOrTwoSign DEF SignersOK
<1>6. CASE t.kind = "mint"
  <2>1. tx = [Mine(buildMint(t, me)) EXCEPT !.signed = @ \cup {t.nft}] BY <1>2, <1>6 DEF Built
  <2>2. tx.payer = me /\ tx.signed = {me} \cup {t.nft} BY <2>1 DEF Mine
  <2>3. PICK S : S = {me} \cup {t.nft} OBVIOUS
  <2>4. tx.signed = S /\ {tx.payer} \cup tx.signed = S BY <2>2, <2>3
  <2>5. IsFiniteSet(S) /\ Cardinality(S) \in 0 .. 2 BY <2>3, OneOrTwoSign
  <2> QED BY <1>2, <2>4, <2>5 DEF SignersOK
<1> QED BY <1>1, <1>3, <1>4, <1>5, <1>6

(* Whatever is signed for good terms is a list of instructions that ends   *)
(* as it must.                                                             *)
LEMMA BuiltOK ==
    ASSUME NEW L, NEW t, TermsOK(t)
    PROVE  TxOK(Built(L, t), t)
<1>1. t.kind \in Kinds BY DEF TermsOK
<1>2. PICK tx : tx = Built(L, t) OBVIOUS
<1>3. SignersOK(tx) BY <1>2, BuiltSigners
<1>4. CASE t.kind = "swap"
  <2>1. tx = Mine(buildSwapInstructions(t, me)) BY <1>2, <1>4 DEF Built
  <2>2. tx.ixs = buildSwapInstructions(t, me) BY <2>1, MineIs
  <2>3. Sol \in {t.from, t.to} BY <1>4 DEF TermsOK
  <2> QED BY <1>2, <1>3, <1>4, <2>2, <2>3, SwapBuilt DEF TxOK
<1>5. CASE t.kind = "lock"
  <2>1. tx = Mine(buildCreateLockInstructions(t, me)) BY <1>2, <1>5 DEF Built
  <2>2. tx.ixs = buildCreateLockInstructions(t, me) BY <2>1, MineIs
  <2>3. MovesSol(t) => t.asset = Sol BY <1>5 DEF MovesSol
  <2> QED BY <1>2, <1>3, <1>5, <2>2, <2>3, LockBuilt DEF TxOK
<1>6. CASE t.kind = "withdraw"
  <2>1. tx = Mine(buildWithdrawInstructions(t.lock)) BY <1>2, <1>6 DEF Built
  <2>2. tx.ixs = buildWithdrawInstructions(t.lock) BY <2>1, MineIs
  <2>3. MovesSol(t) => t.lock.mint = Wsol BY <1>6 DEF MovesSol
  <2>4. t.lock.recipient = me BY <1>6 DEF TermsOK
  <2> QED BY <1>2, <1>3, <1>6, <2>2, <2>3, <2>4, WithdrawBuilt DEF TxOK
<1>7. CASE t.kind = "cancel lock"
  <2>1. tx = Mine(buildCancelLockInstructions(t.lock)) BY <1>2, <1>7 DEF Built
  <2>2. tx.ixs = buildCancelLockInstructions(t.lock) BY <2>1, MineIs
  <2>3. MovesSol(t) => t.lock.mint = Wsol BY <1>7 DEF MovesSol
  <2>4. t.lock.sender = me BY <1>7 DEF TermsOK
  <2> QED BY <1>2, <1>3, <1>7, <2>2, <2>3, <2>4, CancelBuilt DEF TxOK
<1>8. CASE t.kind = "stealth pay"
  <2>1. tx = Mine(planStealthPayment(t, me)) BY <1>2, <1>8 DEF Built
  <2>2. tx.ixs = planStealthPayment(t, me) BY <2>1, MineIs
  <2>3. ~MovesSol(t) BY <1>8 DEF MovesSol
  <2> QED BY <1>2, <1>3, <1>8, <2>2, <2>3, PayBuilt DEF TxOK
<1>9. CASE t.kind \in Kinds \ {"swap", "lock", "withdraw", "cancel lock", "stealth pay"}
  <2>1. ~MovesSol(t) /\ t.kind # "stealth pay" BY <1>9 DEF MovesSol
  <2>2. IsList(tx.ixs)
    <3>1. CASE t.kind = "send"
      <4>1. tx = Mine(SendInstructions(L, t, me)) BY <1>2, <3>1 DEF Built
      <4> QED BY <4>1, MineIs, SendBuilt
    <3>2. CASE t.kind = "link"
      <4>1. tx = Mine(buildCreateLinkInstructions(t, me)) BY <1>2, <3>2 DEF Built
      <4> QED BY <4>1, MineIs, LinksBuilt
    <3>3. CASE t.kind = "cancel link"
      <4>1. tx = Mine(buildCancelInstructions(t.link)) BY <1>2, <3>3 DEF Built
      <4> QED BY <4>1, MineIs, LinksBuilt
    <3>4. CASE t.kind = "claim"
      <4>1. tx = buildRelayableTransaction(t) BY <1>2, <3>4 DEF Built
      <4>2. tx.ixs = buildClaimInstructions(t) BY <4>1 DEF buildRelayableTransaction
      <4> QED BY <4>2, LinksBuilt
    <3>5. CASE t.kind = "sweep"
      <4>1. tx = buildScalarSignedTransaction(L, t) BY <1>2, <3>5 DEF Built
      <4>2. tx.ixs = planSweep(L, t) BY <4>1 DEF buildScalarSignedTransaction
      <4> QED BY <4>2, SweepBuilt
    <3>6. CASE t.kind = "mint"
      <4>1. tx = [Mine(buildMint(t, me)) EXCEPT !.signed = @ \cup {t.nft}] BY <1>2, <3>6 DEF Built
      <4>2. tx.ixs = buildMint(t, me) BY <4>1 DEF Mine
      <4> QED BY <4>2, NftBuilt
    <3>7. CASE t.kind = "gift"
      <4>1. tx = Mine(buildSend(t, me)) BY <1>2, <3>7 DEF Built
      <4> QED BY <4>1, MineIs, NftBuilt
    <3> QED BY <1>9, <3>1, <3>2, <3>3, <3>4, <3>5, <3>6, <3>7 DEF Kinds
  <2> QED BY <1>2, <1>3, <2>1, <2>2 DEF TxOK
<1> QED BY <1>1, <1>4, <1>5, <1>6, <1>7, <1>8, <1>9

-----------------------------------------------------------------------------
(* The chain under a transaction.                                          *)

LEMMA RanKeeps ==
    ASSUME NEW L, ChainOK(L), NEW tx, IsList(tx.ixs)
    PROVE  Grows(L, Ran(L, tx)) /\ (Ran(L, tx).ok => ChainOK(Ran(L, tx)))
<1>1. Grows(L, Transaction(L, tx.payer, tx.signed, tx.ixs)) BY TransactionKeeps DEF ChainOK
<1> QED BY <1>1 DEF Ran, Grows, ChainOK

LEMMA OnlyChargedKeeps ==
    ASSUME NEW L, ChainOK(L), NEW tx
    PROVE  Grows(L, OnlyCharged(L, tx)) /\ ChainOK(OnlyCharged(L, tx))
<1>1. Grows(L, Charged(L, tx.payer, tx.signed)) BY ChargedKeeps DEF ChainOK
<1>2. Grows(L, L) BY GrowsRefl DEF ChainOK
<1> QED BY <1>1, <1>2 DEF OnlyCharged, Grows, ChainOK

(* What is not refused succeeds. *)
LEMMA NotRefused ==
    ASSUME NEW L, ChainOK(L), NEW tx, IsList(tx.ixs), Refusal(L, tx) = ""
    PROVE  ChainOK(Ran(L, tx)) /\ Grows(L, Ran(L, tx))
<1>1. PICK N : N = Ran(L, tx) OBVIOUS
<1>2. N.why = "" BY <1>1 DEF Refusal
<1>3. Grows(L, N) BY <1>1, RanKeeps
<1>4. IsLedger(N) /\ N.ok BY <1>2, <1>3 DEF Grows, IsLedger
<1> QED BY <1>1, <1>3, <1>4 DEF ChainOK

LEMMA SentGrows ==
    ASSUME NEW x, NEW L, ChainOK(L), NEW M, Grows(L, M), SentOK(x, L.feed)
    PROVE  SentOK(x, M.feed)
<1>1. Len(L.feed) \in Nat /\ Len(M.feed) \in Nat BY FeedIsList DEF ChainOK, Grows
<1>2. Len(L.feed) <= Len(M.feed) /\ \A i \in 1 .. Len(L.feed) : M.feed[i] = L.feed[i] BY DEF Grows
<1>3. ASSUME NEW i \in 1 .. Len(L.feed), L.feed[i] = ItemOf(x.terms)
      PROVE  \E k \in 1 .. Len(M.feed) : M.feed[k] = ItemOf(x.terms)
  <2>1. i \in 1 .. Len(M.feed) BY <1>1, <1>2
  <2> QED BY <1>2, <1>3, <2>1
<1> QED BY <1>3 DEF SentOK

LEMMA AllSentGrow ==
    ASSUME NEW list, NEW L, ChainOK(L), NEW M, Grows(L, M), AllSentOK(list, L.feed)
    PROVE  AllSentOK(list, M.feed)
BY SentGrows DEF AllSentOK

(* What a transaction that succeeds ends with has been executed. *)
LEMMA LastExecuted ==
    ASSUME NEW L, ChainOK(L), NEW tx, IsList(tx.ixs), NEW ix, EndsWith(tx.ixs, ix), Ran(L, tx).ok
    PROVE  \E M : IsLedger(M) /\ Ran(L, tx) = Execute(M, ix)
<1>1. PICK ixs : ixs = tx.ixs OBVIOUS
<1>2. IsList(ixs) /\ Len(ixs) > 0 /\ ixs[Len(ixs)] = ix /\ IsLedger(L)
  BY <1>1 DEF EndsWith, ChainOK
<1>3. PICK N : N = Transaction(L, tx.payer, tx.signed, ixs) OBVIOUS
<1>4. N = Ran(L, tx) /\ N.ok BY <1>1, <1>3 DEF Ran
<1>5. \E M : IsLedger(M) /\ Grows(L, M) /\ N = Execute(M, ixs[Len(ixs)])
  BY <1>2, <1>3, <1>4, TransactionKeeps
<1> QED BY <1>2, <1>4, <1>5

(* A payment that lands is announced. *)
IsPayment(t) == t.kind = "stealth pay"

LEMMA LandedAnnounced ==
    ASSUME NEW L, ChainOK(L), NEW x, SentOK(x, L.feed), IsPayment(x.terms),
           NEW N, N = Ran(L, x.tx), N.ok
    PROVE  \E i \in 1 .. Len(N.feed) : N.feed[i] = ItemOf(x.terms)
<1>1. PICK tx, item : tx = x.tx /\ item = ItemOf(x.terms) OBVIOUS
<1>2. IsList(tx.ixs) /\ EndsWith(tx.ixs, Announcing(item)) BY <1>1 DEF SentOK, TxOK, IsPayment
<1>3. N = Ran(L, tx) /\ Ran(L, tx).ok BY <1>1
<1>4. PICK ix : ix = Announcing(item) OBVIOUS
<1>5. PICK M : IsLedger(M) /\ N = Execute(M, ix) BY <1>2, <1>3, <1>4, LastExecuted
<1>6. item = [ephemeral |-> item.ephemeral, stealth |-> item.stealth, view_tag |-> item.view_tag]
  BY <1>1 DEF ItemOf
<1>7. IsAnnouncement(ix) /\ ix.args = item
  BY <1>4, <1>6 DEF Announcing, announceInstruction, build, Instruction, IsAnnouncement
<1>8. \E i \in 1 .. Len(N.feed) : N.feed[i] = ix.args BY <1>5, <1>7, AnnouncedIsIn
<1> QED BY <1>1, <1>7, <1>8

(* What moves SOL leaves no wrapped account behind when it lands. *)
LEMMA LandedUnwrapped ==
    ASSUME NEW L, ChainOK(L), NEW x, SentOK(x, L.feed), MovesSol(x.terms),
           NEW N, N = Ran(L, x.tx), N.ok
    PROVE  ~hasTokenAccount(N, me, Wsol)
<1>1. PICK tx : tx = x.tx OBVIOUS
<1>2. IsList(tx.ixs) /\ EndsWith(tx.ixs, Unwrapping) BY <1>1 DEF SentOK, TxOK
<1>3. N = Ran(L, tx) /\ Ran(L, tx).ok BY <1>1
<1>4. PICK M : IsLedger(M) /\ N = Execute(M, Unwrapping) BY <1>2, <1>3, LastExecuted
<1>5. PICK account : account = findAssociatedTokenAddress(me, Wsol) OBVIOUS
<1>6. N = Execute(M, closeTokenAccount(account, me, me)) BY <1>4, <1>5 DEF Unwrapping
<1>7. account \notin DOMAIN N.tokens BY <1>4, <1>6, ClosedIsGone
<1> QED BY <1>5, <1>7 DEF hasTokenAccount

-----------------------------------------------------------------------------
(* Handlers and notices.                                                   *)

LEMMA IdleOK ==
    ASSUME NEW n
    PROVE  JobOK(Idle, n)
BY DEF JobOK, Idle

LEMMA NothingOK ==
    ASSUME NEW list
    PROVE  NoticeOK(Nothing, list)
BY DEF NoticeOK, Nothing

LEMMA OutdatedOK ==
    ASSUME NEW j, NEW n, JobOK(j, n)
    PROVE  JobOK(Outdated(j), n) /\ JobOK(Aged(j), n)
<1>1. JobOK(Outdated(j), n) BY DEF JobOK, Outdated
<1> QED BY <1>1 DEF Aged

LEMMA AnsweredOK ==
    ASSUME NEW j, NEW n, JobOK(j, n), j.step # "idle"
    PROVE  JobOK(Answered(j), n)
<1>1. PICK k : k = [Idle EXCEPT !.step = "review", !.terms = j.terms] OBVIOUS
<1>2. DOMAIN k = {"step", "terms", "tx", "fresh", "at"} /\ k.step = "review" /\ k.terms = j.terms
  BY <1>1 DEF Idle
<1>3. ASSUME Reviewed(j.terms)
      PROVE  JobOK(k, n)
  BY <1>2, <1>3 DEF JobOK
<1> QED BY <1>1, <1>3, IdleOK DEF Answered

(* Where a handler is after a step of its own. *)
LEMMA JobGoesOn ==
    ASSUME NEW j, NEW n, JobOK(j, n), NEW k, DOMAIN k = DOMAIN j
    PROVE  /\ k.step = "checking" /\ TermsOK(k.terms) => JobOK(k, n)
           /\ k.step = "review" /\ TermsOK(k.terms) /\ Reviewed(k.terms) => JobOK(k, n)
           /\ k.step = "sending" /\ ReadyOK(k.terms) /\ TxOK(k.tx, k.terms) => JobOK(k, n)
           /\ k.step = "confirming" /\ TermsOK(k.terms) /\ k.at \in 1 .. n => JobOK(k, n)
BY DEF JobOK, ReadyOK

LEMMA JobSet ==
    ASSUME NEW jobs, NEW n, JobsOK(jobs, n), NEW s \in Slots, NEW k, JobOK(k, n)
    PROVE  JobsOK([jobs EXCEPT ![s] = k], n)
BY DEF JobsOK

LEMMA NoticeSet ==
    ASSUME NEW notices, NEW list, NoticesOK(notices, list), NEW s \in Slots, NEW x, NoticeOK(x, list)
    PROVE  NoticesOK([notices EXCEPT ![s] = x], list)
BY DEF NoticesOK

LEMMA ToldOK ==
    ASSUME NEW list, NEW kind, NEW why, NEW j,
           kind = "done" => j.at \in 1 .. Len(list) /\ list[j.at].status = "ok",
           kind = "failed" => j.at \in 1 .. Len(list) /\ list[j.at].status = "failed"
    PROVE  NoticeOK(Told(kind, why, j), list)
BY DEF NoticeOK, Told

LEMMA JobsIdle ==
    ASSUME NEW n
    PROVE  JobsOK([s \in Slots |-> Idle], n)
BY IdleOK DEF JobsOK

LEMMA JobsOutdated ==
    ASSUME NEW jobs, NEW n, JobsOK(jobs, n)
    PROVE  /\ JobsOK([s \in Slots |-> Outdated(jobs[s])], n)
           /\ JobsOK([s \in Slots |-> Aged(jobs[s])], n)
BY OutdatedOK DEF JobsOK

LEMMA MoreJobs ==
    ASSUME NEW jobs, NEW n \in Nat, JobsOK(jobs, n)
    PROVE  JobsOK(jobs, n + 1)
<1>1. \A i \in 1 .. n : i \in 1 .. n + 1 OBVIOUS
<1> QED BY <1>1 DEF JobsOK, JobOK

(* The list of what was broadcast grows, and its entries are settled once. *)
Follows(list, next) ==
    /\ IsList(next) /\ Len(list) <= Len(next)
    /\ \A i \in 1 .. Len(list) : list[i].status \in {"ok", "failed"} => next[i].status = list[i].status

LEMMA NoticesFollow ==
    ASSUME NEW notices, NEW list, IsList(list), NEW next, Follows(list, next), NoticesOK(notices, list)
    PROVE  NoticesOK(notices, next)
<1>1. Len(list) \in Nat /\ Len(next) \in Nat BY ListIs DEF Follows
<1>2. \A i \in 1 .. Len(list) : i \in 1 .. Len(next) BY <1>1 DEF Follows
<1>3. ASSUME NEW s \in Slots
      PROVE  NoticeOK(notices[s], next)
  <2>1. NoticeOK(notices[s], list) BY <1>3 DEF NoticesOK
  <2> QED BY <1>2, <2>1 DEF NoticeOK, Follows
<1> QED BY <1>3 DEF NoticesOK

(* One more, pending. *)
LEMMA ListWithOneMore ==
    ASSUME NEW list, NEW feed, AllSentOK(list, feed), NEW x, SentOK(x, feed)
    PROVE  /\ AllSentOK(Append(list, x), feed) /\ Follows(list, Append(list, x))
           /\ Len(Append(list, x)) = Len(list) + 1 /\ Len(list) \in Nat
<1>1. PICK next : next = Append(list, x) OBVIOUS
<1>2. IsList(list) BY DEF AllSentOK
<1>3. Len(list) \in Nat BY <1>2, ListIs
<1>4. /\ IsList(next) /\ Len(next) = Len(list) + 1 /\ next[Len(list) + 1] = x
      /\ \A i \in 1 .. Len(list) : next[i] = list[i]
  BY <1>1, <1>2, ListAppend
<1>5. \A i \in 1 .. Len(next) : i \in 1 .. Len(list) \/ i = Len(list) + 1 BY <1>3, <1>4
<1>6. AllSentOK(next, feed) BY <1>4, <1>5 DEF AllSentOK
<1>7. Len(list) <= Len(next) BY <1>3, <1>4
<1>8. Follows(list, next) BY <1>4, <1>7 DEF Follows
<1> QED BY <1>1, <1>3, <1>4, <1>6, <1>8

(* One of them changed, if it was not settled. *)
StatusGoesOn(x, y) == x.status = y.status \/ x.status \notin {"ok", "failed"}
OneSet(list, i, x, next) == next = [list EXCEPT ![i] = x]

LEMMA ListWithOneSet ==
    ASSUME NEW list, NEW feed, AllSentOK(list, feed), NEW i \in 1 .. Len(list), NEW x, SentOK(x, feed),
           StatusGoesOn(list[i], x), NEW next, OneSet(list, i, x, next)
    PROVE  /\ AllSentOK(next, feed) /\ Follows(list, next) /\ Len(next) = Len(list)
           /\ next[i] = x
<1>1. next = [list EXCEPT ![i] = x] BY DEF OneSet
<1>2. IsList(list) BY DEF AllSentOK
<1>3. Len(list) \in Nat /\ DOMAIN list = 1 .. Len(list) BY <1>2, ListIs
<1>4. IsList(next) /\ Len(next) = Len(list)
  <2>1. PICK S : S = Range(list) \cup {x} OBVIOUS
  <2>2. list \in Seq(S) /\ x \in S BY <1>2, <2>1 DEF IsList
  <2>3. next \in Seq(S) /\ Len(next) = Len(list) BY <1>1, <2>2
  <2> QED BY <2>3, ListIntro
<1>5. next[i] = x /\ \A k \in 1 .. Len(list) : k # i => next[k] = list[k] BY <1>1, <1>3
<1>6. AllSentOK(next, feed) BY <1>4, <1>5 DEF AllSentOK
<1>7. Len(list) <= Len(next) BY <1>3, <1>4
<1>8. Follows(list, next) BY <1>4, <1>5, <1>7 DEF Follows, StatusGoesOn
<1> QED BY <1>4, <1>5, <1>6, <1>8

-----------------------------------------------------------------------------
(* The invariant holds at the start, and every step keeps it.              *)

LEMMA SeenOK ==
    ASSUME NEW L
    PROVE  CacheOK(page, Seen(L))
<1>1. PICK c : c = Seen(L) OBVIOUS
<1>2. DOMAIN c = {"assets", "list"} /\ c.list = ListOf(L) BY <1>1 DEF Seen
<1>3. ASSUME page = "locks"
      PROVE  /\ \A l \in c.list.recipient : l.recipient = me
             /\ \A l \in c.list.sender : l.sender = me
  <2>1. c.list = [recipient |-> fetchTimelocks(L, "recipient", me), sender |-> fetchTimelocks(L, "sender", me)]
    BY <1>2, <1>3 DEF ListOf
  <2>2. /\ \A l \in fetchTimelocks(L, "recipient", me) : l.recipient = me
        /\ \A l \in fetchTimelocks(L, "sender", me) : l.sender = me
    BY DEF fetchTimelocks
  <2> QED BY <2>1, <2>2
<1> QED BY <1>1, <1>2, <1>3 DEF CacheOK

LEMMA SwapEmptyOK == FormOK("swap", SwapEmpty)
<1>1. PICK f : f = SwapEmpty OBVIOUS
<1>2. DOMAIN f = {"from", "to", "amount", "slippage", "acknowledged"} /\ f.from = Sol /\ f.to = Usd
  BY <1>1 DEF SwapEmpty
<1>3. Sol # Usd BY DEF Sol, Usd, NoMint
<1> QED BY <1>1, <1>2, <1>3 DEF FormOK, Assets

LEMMA PagesStart == PagesInit => PagesInv
<1> SUFFICES ASSUME PagesInit PROVE PagesInv OBVIOUS
<1>1. page \in PageNames /\ PageNames \subseteq AllPages BY PagesAssumption DEF PagesInit
<1>2. ChainOK(chain)
  <2>1. PICK start \in Starts[page] : chain = start.chain BY DEF PagesInit
  <2>2. IsLedger(start.chain) /\ start.chain.ok BY <1>1, <2>1, PagesAssumption
  <2> QED BY <2>1, <2>2 DEF ChainOK
<1>3. CacheOK(page, cache) BY SeenOK DEF PagesInit
<1>4. FormOK(page, form)
  <2>1. page = "swap" => form = SwapEmpty BY DEF PagesInit, EmptyForm
  <2> QED BY <2>1, SwapEmptyOK DEF FormOK
<1>5. sent = <<>> /\ IsList(sent) /\ Len(sent) = 0 BY Lists DEF PagesInit
<1>6. JobsOK(job, Len(sent)) BY JobsIdle DEF PagesInit
<1>7. NoticesOK(notice, sent) BY NothingOK DEF PagesInit, NoticesOK
<1>8. AllSentOK(sent, chain.feed)
  <2>1. 1 .. 0 = {} OBVIOUS
  <2> QED BY <1>5, <2>1 DEF AllSentOK
<1> QED BY <1>1, <1>2, <1>3, <1>4, <1>6, <1>7, <1>8 DEF PagesInv

LEMMA InvNext ==
    ASSUME page' \in AllPages, ChainOK(chain'), CacheOK(page', cache'), FormOK(page', form'),
           JobsOK(job', Len(sent')), NoticesOK(notice', sent'), AllSentOK(sent', chain'.feed)
    PROVE  PagesInv'
BY DEF PagesInv

(* The steps of the form, and of the queries. *)
LEMMA SwapEditsOK ==
    ASSUME NEW f, FormOK("swap", f), NEW amounts, NEW slippages, NEW pools,
           NEW g \in SwapEdits(f, amounts, slippages, pools)
    PROVE  FormOK("swap", g)
<1>1. /\ DOMAIN f = {"from", "to", "amount", "slippage", "acknowledged"}
      /\ f.from \in Assets /\ f.to \in Assets /\ f.from # f.to
  BY DEF FormOK
<1>2. \/ \E a \in Assets : g = pickFrom(f, a)
      \/ g = flip(f)
      \/ \E n \in amounts : g = [f EXCEPT !.amount = n, !.acknowledged = FALSE]
      \/ \E n \in slippages : g = [f EXCEPT !.slippage = n]
      \/ g = [f EXCEPT !.acknowledged = TRUE]
  BY DEF SwapEdits
<1>3. DOMAIN g = DOMAIN f BY <1>2 DEF pickFrom, flip
<1>4. g.from \in Assets /\ g.to \in Assets /\ g.from # g.to
  <2>1. ASSUME NEW a \in Assets, g = pickFrom(f, a)
        PROVE  g.from \in Assets /\ g.to \in Assets /\ g.from # g.to
    <3>1. g.from = a /\ g.to = IF a = f.to THEN f.from ELSE f.to BY <1>1, <2>1 DEF pickFrom
    <3> QED BY <1>1, <2>1, <3>1
  <2>2. CASE g = flip(f)
    <3>1. g.from = f.to /\ g.to = f.from BY <1>1, <2>2 DEF flip
    <3> QED BY <1>1, <3>1
  <2>3. ASSUME g.from = f.from, g.to = f.to
        PROVE  g.from \in Assets /\ g.to \in Assets /\ g.from # g.to
    BY <1>1, <2>3
  <2>4. ASSUME NEW n, g = [f EXCEPT !.amount = n, !.acknowledged = FALSE]
        PROVE  g.from = f.from /\ g.to = f.to
    BY <1>1, <2>4
  <2>5. ASSUME NEW n, g = [f EXCEPT !.slippage = n]
        PROVE  g.from = f.from /\ g.to = f.to
    BY <1>1, <2>5
  <2>6. ASSUME g = [f EXCEPT !.acknowledged = TRUE]
        PROVE  g.from = f.from /\ g.to = f.to
    BY <1>1, <2>6
  <2> QED BY <1>2, <2>1, <2>2, <2>3, <2>4, <2>5, <2>6
<1> QED BY <1>1, <1>3, <1>4 DEF FormOK

LEMMA FormStep ==
    ASSUME PagesInv, FormOK(page, form'),
           UNCHANGED <<page, chain, cache, job, notice, sent>>
    PROVE  PagesInv'
BY InvNext DEF PagesInv

LEMMA FillKeeps ==
    ASSUME PagesInv, Fill \/ UseMax
    PROVE  PagesInv'
<1>1. FormOK(page, form) BY DEF PagesInv
<1>2. CASE page # "swap"
  <2>1. FormOK(page, form') BY <1>2 DEF FormOK
  <2> QED BY <2>1, FormStep DEF Fill, UseMax
<1>3. CASE page = "swap"
  <2>1. CASE Fill
    <3>1. form' \in SwapEdits(form, Forms["swap"].amounts, Forms["swap"].slippages, cache.list)
      BY <1>3, <2>1 DEF Fill, Edits
    <3>2. PICK f, g, amounts, slippages, pools :
            /\ f = form /\ g = form' /\ amounts = Forms["swap"].amounts
            /\ slippages = Forms["swap"].slippages /\ pools = cache.list
      OBVIOUS
    <3>3. FormOK("swap", f) /\ g \in SwapEdits(f, amounts, slippages, pools) BY <1>1, <1>3, <3>1, <3>2
    <3>4. FormOK("swap", g) BY <3>3, SwapEditsOK
    <3>5. FormOK(page, form') BY <1>3, <3>2, <3>4
    <3> QED BY <2>1, <3>5, FormStep DEF Fill
  <2>2. CASE UseMax
    <3>1. form' = [form EXCEPT !.amount = MaxText, !.acknowledged = FALSE]
      BY <1>3, <2>2 DEF UseMax, WithMax
    <3>2. PICK f, g, n : f = form /\ g = form' /\ n = MaxText OBVIOUS
    <3>3. g = [f EXCEPT !.amount = n, !.acknowledged = FALSE] /\ FormOK("swap", f) BY <1>1, <1>3, <3>1, <3>2
    <3>4. FormOK("swap", g) BY <3>3 DEF FormOK
    <3>5. FormOK(page, form') BY <1>3, <3>2, <3>4
    <3> QED BY <2>2, <3>5, FormStep DEF UseMax
  <2> QED BY <2>1, <2>2
<1> QED BY <1>2, <1>3

LEMMA ResetKeeps ==
    ASSUME PagesInv, Reset
    PROVE  PagesInv'
<1>1. FormOK(page, form')
  <2>1. FormOK(page, form) BY DEF PagesInv
  <2>2. CASE page = "swap"
    <3>1. form' = [form EXCEPT !.amount = Empty, !.acknowledged = FALSE] BY <2>2 DEF Reset
    <3>2. PICK f, g, n : f = form /\ g = form' /\ n = Empty OBVIOUS
    <3>3. g = [f EXCEPT !.amount = n, !.acknowledged = FALSE] /\ FormOK("swap", f) BY <2>1, <2>2, <3>1, <3>2
    <3>4. FormOK("swap", g) BY <3>3 DEF FormOK
    <3> QED BY <2>2, <3>2, <3>4
  <2>3. CASE page # "swap" BY <2>3 DEF FormOK
  <2> QED BY <2>2, <2>3
<1>2. NoticesOK(notice', sent)
  <2>1. NoticesOK(notice, sent) BY DEF PagesInv
  <2>2. notice' = [notice EXCEPT !["form"] = Nothing] /\ "form" \in Slots BY DEF Reset, Slots
  <2> QED BY <2>1, <2>2, NothingOK, NoticeSet
<1> QED BY <1>1, <1>2, InvNext DEF PagesInv, Reset

LEMMA RefetchKeeps ==
    ASSUME PagesInv, Refetch
    PROVE  PagesInv'
<1>1. CacheOK(page, cache) BY DEF PagesInv
<1>2. CacheOK(page, Seen(chain)) BY SeenOK
<1>3. PICK assets : assets = useAssets(chain, me) OBVIOUS
<1>4. PICK list : list = ListOf(chain) OBVIOUS
<1>5. Seen(chain).list = list BY <1>4 DEF Seen
<1>6. PICK c, d : c = cache /\ d = cache' OBVIOUS
<1>7. d = [c EXCEPT !.assets = assets] \/ d = [c EXCEPT !.list = list] BY <1>3, <1>4, <1>6 DEF Refetch
<1>8. CASE d = [c EXCEPT !.assets = assets]
  <2>1. DOMAIN d = {"assets", "list"} /\ d.list = c.list BY <1>1, <1>6, <1>8 DEF CacheOK
  <2>2. CacheOK(page, d) BY <1>1, <1>6, <2>1 DEF CacheOK
  <2> QED BY <1>6, <2>2, InvNext DEF PagesInv, Refetch
<1>9. CASE d = [c EXCEPT !.list = list]
  <2>1. DOMAIN d = {"assets", "list"} /\ d.list = list BY <1>1, <1>6, <1>9 DEF CacheOK
  <2>2. CacheOK(page, d) BY <1>2, <1>5, <2>1 DEF CacheOK
  <2> QED BY <1>6, <2>2, InvNext DEF PagesInv, Refetch
<1> QED BY <1>7, <1>8, <1>9

(* The steps of the handlers that broadcast nothing. *)
LEMMA HandlerStep ==
    ASSUME PagesInv, JobsOK(job', Len(sent)), NoticesOK(notice', sent),
           UNCHANGED <<page, chain, cache, form, sent>>
    PROVE  PagesInv'
BY InvNext DEF PagesInv

LEMMA InvParts ==
    ASSUME PagesInv
    PROVE  /\ page \in AllPages /\ ChainOK(chain) /\ CacheOK(page, cache) /\ FormOK(page, form)
           /\ JobsOK(job, Len(sent)) /\ NoticesOK(notice, sent) /\ AllSentOK(sent, chain.feed)
           /\ \A s \in Slots : JobOK(job[s], Len(sent)) /\ NoticeOK(notice[s], sent)
           /\ Len(sent) \in Nat /\ IsList(sent) /\ DOMAIN sent = 1 .. Len(sent)
<1>1. IsList(sent) BY DEF PagesInv, AllSentOK
<1>2. Len(sent) \in Nat /\ DOMAIN sent = 1 .. Len(sent) BY <1>1, ListIs
<1> QED BY <1>1, <1>2 DEF PagesInv, JobsOK, NoticesOK

LEMMA BackKeeps ==
    ASSUME PagesInv, Back
    PROVE  PagesInv'
<1>1. job' = [job EXCEPT !["form"] = Idle] /\ "form" \in Slots BY DEF Back, Slots
<1>2. JobsOK(job', Len(sent)) BY <1>1, InvParts, IdleOK, JobSet
<1>3. NoticesOK(notice', sent) BY InvParts DEF Back
<1> QED BY <1>2, <1>3, HandlerStep DEF Back

LEMMA StartKeeps ==
    ASSUME PagesInv, NEW s \in Slots, NEW answer, answer.error = "" => TermsOK(answer.terms),
           Start(s, answer)
    PROVE  PagesInv'
<1>1. PICK fresh : fresh = (cache = Seen(chain)) OBVIOUS
<1>2. UNCHANGED <<page, chain, cache, form, sent>> BY DEF Start
<1>3. CASE answer.error # ""
  <2>1. PICK x : x = [Nothing EXCEPT !.kind = "refused", !.why = answer.error] OBVIOUS
  <2>2. notice' = [notice EXCEPT ![s] = x] /\ job' = job BY <1>3, <2>1 DEF Start
  <2>3. NoticeOK(x, sent) BY <2>1 DEF NoticeOK, Nothing
  <2>4. NoticesOK(notice', sent) BY <2>2, <2>3, InvParts, NoticeSet
  <2> QED BY <1>2, <2>2, <2>4, InvParts, HandlerStep
<1>4. CASE answer.error = ""
  <2>1. PICK k : k = [Idle EXCEPT !.step = "checking", !.terms = answer.terms, !.fresh = fresh] OBVIOUS
  <2>2. notice' = [notice EXCEPT ![s] = Nothing] /\ job' = [job EXCEPT ![s] = k]
    BY <1>1, <1>4, <2>1 DEF Start
  <2>3. TermsOK(answer.terms) BY <1>4
  <2>4. /\ DOMAIN k = {"step", "terms", "tx", "fresh", "at"} /\ k.step = "checking"
        /\ k.terms = answer.terms
    BY <2>1 DEF Idle
  <2>5. JobOK(k, Len(sent)) BY <2>3, <2>4 DEF JobOK
  <2>6. JobsOK(job', Len(sent)) BY <2>2, <2>5, InvParts, JobSet
  <2>7. NoticesOK(notice', sent) BY <2>2, InvParts, NothingOK, NoticeSet
  <2> QED BY <1>2, <2>6, <2>7, HandlerStep
<1> QED BY <1>3, <1>4

LEMMA PressKeeps ==
    ASSUME PagesInv,
           PressForm \/ \E t \in OffersOf(cache.list) : PressRow(t)
    PROVE  PagesInv'
<1>1. CASE PressForm
  <2>1. PICK answer : answer = FormPressed OBVIOUS
  <2>2. answer.error = "" => TermsOK(answer.terms) BY <2>1, FormTerms
  <2>3. Start("form", answer) BY <1>1, <2>1 DEF PressForm, Start
  <2> QED BY <2>2, <2>3, StartKeeps DEF Slots
<1>2. ASSUME NEW t \in OffersOf(cache.list), PressRow(t)
      PROVE  PagesInv'
  <2>1. PICK answer : answer = RowPressed(t) OBVIOUS
  <2>2. answer.error = "" => TermsOK(answer.terms) BY <2>1, RowTerms
  <2>3. Start("row", answer) BY <1>2, <2>1 DEF PressRow, Start
  <2> QED BY <2>2, <2>3, StartKeeps DEF Slots
<1> QED BY <1>1, <1>2

(* A handler that ends with a notice that claims nothing. *)
LEMMA GivesUp ==
    ASSUME PagesInv, NEW s \in Slots, job[s].step # "idle",
           NEW kind \in {"refused", "rejected", "unsure"}, NEW why
    PROVE  /\ JobsOK([job EXCEPT ![s] = Answered(@)], Len(sent))
           /\ NoticesOK([notice EXCEPT ![s] = Told(kind, why, job[s])], sent)
<1>1. JobOK(Answered(job[s]), Len(sent)) BY InvParts, AnsweredOK
<1>2. JobsOK([job EXCEPT ![s] = Answered(@)], Len(sent)) BY <1>1, InvParts, JobSet
<1>3. NoticeOK(Told(kind, why, job[s]), sent) BY ToldOK
<1> QED BY <1>2, <1>3, InvParts, NoticeSet

LEMMA CheckKeeps ==
    ASSUME PagesInv, NEW s \in Slots, Check(s)
    PROVE  PagesInv'
<1>1. PICK j, t : j = job[s] /\ t = j.terms OBVIOUS
<1>2. JobOK(j, Len(sent)) /\ j.step = "checking" BY <1>1, InvParts DEF Check
<1>3. TermsOK(t) BY <1>1, <1>2 DEF JobOK
<1>4. PICK answer : answer = Checked(chain, t) OBVIOUS
<1>5. UNCHANGED <<page, chain, cache, form, sent>> BY DEF Check
<1>6. CASE answer.error # ""
  <2>1. /\ notice' = [notice EXCEPT ![s] = Told("refused", answer.error, job[s])]
        /\ job' = [job EXCEPT ![s] = Answered(@)]
    BY <1>1, <1>4, <1>6 DEF Check
  <2>2. job[s].step # "idle" BY <1>1, <1>2
  <2> QED BY <1>5, <2>1, <2>2, GivesUp, HandlerStep
<1>7. CASE answer.error = ""
  <2>1. PICK u : u = answer.terms OBVIOUS
  <2>2. ReadyOK(u) BY <1>3, <1>4, <1>7, <2>1, CheckedTerms
  <2>3. TermsOK(u) /\ TxOK(Built(chain, u), u) BY <2>2, BuiltOK DEF ReadyOK
  <2>4. PICK next : next = [j EXCEPT !.terms = u] OBVIOUS
  <2>5. PICK tx : tx = Built(chain, u) OBVIOUS
  <2>6. PICK k : k = IF Reviewed(u) THEN [next EXCEPT !.step = "review"]
                     ELSE [next EXCEPT !.step = "sending", !.tx = tx]
    OBVIOUS
  <2>7. job' = [job EXCEPT ![s] = k] /\ notice' = notice
    BY <1>1, <1>4, <1>7, <2>1, <2>4, <2>5, <2>6 DEF Check
  <2>8. DOMAIN j = {"step", "terms", "tx", "fresh", "at"} BY <1>2 DEF JobOK
  <2>9. DOMAIN next = DOMAIN j /\ next.terms = u BY <2>4, <2>8
  <2>10. CASE Reviewed(u)
    <3>1. DOMAIN k = DOMAIN j /\ k.step = "review" /\ k.terms = u BY <2>6, <2>8, <2>9, <2>10
    <3>2. JobOK(k, Len(sent)) BY <1>2, <2>3, <2>10, <3>1, JobGoesOn
    <3> QED BY <1>5, <2>7, <3>2, InvParts, JobSet, HandlerStep
  <2>11. CASE ~Reviewed(u)
    <3>1. DOMAIN k = DOMAIN j /\ k.step = "sending" /\ k.terms = u /\ k.tx = tx
      BY <2>6, <2>8, <2>9, <2>11
    <3>2. ReadyOK(k.terms) /\ TxOK(k.tx, k.terms) BY <2>2, <2>3, <2>5, <3>1
    <3>3. JobOK(k, Len(sent)) BY <1>2, <3>1, <3>2, JobGoesOn
    <3> QED BY <1>5, <2>7, <3>3, InvParts, JobSet, HandlerStep
  <2> QED BY <2>10, <2>11
<1> QED BY <1>6, <1>7

LEMMA RereadOK ==
    ASSUME NEW t, TermsOK(t), Reviewed(t)
    PROVE  ReadyOK(Reread(t))
<1>1. PICK u : u = [t EXCEPT !.to = form.to] OBVIOUS
<1>2. DOMAIN u = DOMAIN t /\ u.kind = t.kind BY <1>1 DEF TermsOK
<1>3. t.kind \notin {"swap", "withdraw", "cancel lock", "stealth pay"} BY DEF Reviewed
<1>4. ReadyOK(u) /\ ReadyOK(t) BY <1>2, <1>3, SameKind
<1> QED BY <1>1, <1>4 DEF Reread

LEMMA ConfirmKeeps ==
    ASSUME PagesInv, Confirm
    PROVE  PagesInv'
<1>1. PICK s : s = "form" OBVIOUS
<1>2. s \in Slots BY <1>1 DEF Slots
<1>3. PICK j : j = job[s] OBVIOUS
<1>4. JobOK(j, Len(sent)) /\ j.step = "review" BY <1>1, <1>2, <1>3, InvParts DEF Confirm, ReviewShown
<1>5. TermsOK(j.terms) /\ Reviewed(j.terms) BY <1>4 DEF JobOK
<1>6. PICK t : t = Reread(j.terms) OBVIOUS
<1>7. ReadyOK(t) BY <1>5, <1>6, RereadOK
<1>8. UNCHANGED <<page, chain, cache, form, sent>> BY DEF Confirm
<1>9. CASE validAddress(t.to)
  <2>1. PICK tx : tx = Built(chain, t) OBVIOUS
  <2>2. TxOK(tx, t) BY <1>7, <2>1, BuiltOK DEF ReadyOK
  <2>3. /\ job' = [job EXCEPT ![s].step = "sending", ![s].terms = t, ![s].tx = tx]
        /\ notice' = [notice EXCEPT ![s] = Nothing]
    BY <1>1, <1>3, <1>6, <1>9, <2>1 DEF Confirm
  <2>4. PICK k : k = [j EXCEPT !.step = "sending", !.terms = t, !.tx = tx] OBVIOUS
  <2>5. job' = [job EXCEPT ![s] = k] BY <1>2, <1>3, <2>3, <2>4, InvParts DEF JobsOK
  <2>6. DOMAIN j = {"step", "terms", "tx", "fresh", "at"} BY <1>4 DEF JobOK
  <2>7. DOMAIN k = DOMAIN j /\ k.step = "sending" /\ k.terms = t /\ k.tx = tx BY <2>4, <2>6
  <2>8. ReadyOK(k.terms) /\ TxOK(k.tx, k.terms) BY <1>7, <2>2, <2>7
  <2>9. JobOK(k, Len(sent)) BY <1>4, <2>7, <2>8, JobGoesOn
  <2>10. JobsOK(job', Len(sent)) BY <1>2, <2>5, <2>9, InvParts, JobSet
  <2>11. NoticesOK(notice', sent) BY <1>2, <2>3, InvParts, NothingOK, NoticeSet
  <2> QED BY <1>8, <2>10, <2>11, HandlerStep
<1>10. CASE ~validAddress(t.to)
  <2>1. notice' = [notice EXCEPT ![s] = Told("refused", "address", job[s])] /\ job' = job
    BY <1>1, <1>3, <1>6, <1>10 DEF Confirm
  <2>2. job[s].step # "idle" BY <1>3, <1>4
  <2>3. NoticesOK(notice', sent) BY <1>2, <2>1, <2>2, GivesUp
  <2> QED BY <1>8, <2>1, <2>3, InvParts, HandlerStep
<1> QED BY <1>9, <1>10

LEMMA CallFailsKeeps ==
    ASSUME PagesInv, NEW s \in Slots, CallFails(s)
    PROVE  PagesInv'
<1>1. job[s].step # "idle" BY DEF CallFails, Working
<1>2. job' = [job EXCEPT ![s] = Answered(@)] BY DEF CallFails
<1>3. notice' = notice \/ notice' = [notice EXCEPT ![s] = Told("unsure", "offline", job[s])]
  BY DEF CallFails
<1>4. NoticesOK(notice', sent)
  <2>1. CASE notice' = notice
    <3>1. NoticesOK(notice, sent) BY InvParts
    <3> QED BY <2>1, <3>1
  <2>2. CASE notice' = [notice EXCEPT ![s] = Told("unsure", "offline", job[s])]
    BY <1>1, <2>2, GivesUp
  <2> QED BY <1>3, <2>1, <2>2
<1> QED BY <1>1, <1>2, <1>4, GivesUp, HandlerStep DEF CallFails

(* What a broadcast adds. *)
LEMMA BroadcastAdds ==
    ASSUME PagesInv, NEW s \in Slots, job[s].step = "sending", Broadcast(s)
    PROVE  /\ AllSentOK(sent', chain.feed) /\ Len(sent') = Len(sent) + 1
           /\ NoticesOK(notice, sent') /\ JobsOK(job, Len(sent'))
<1>1. PICK j : j = job[s] OBVIOUS
<1>2. JobOK(j, Len(sent)) /\ j.step = "sending" BY <1>1, InvParts
<1>3. ReadyOK(j.terms) /\ TxOK(j.tx, j.terms) BY <1>2 DEF JobOK
<1>4. PICK x : x = [terms |-> j.terms, tx |-> j.tx, status |-> "pending",
                    kept |-> FALSE, told |-> TRUE, seen |-> FALSE]
  OBVIOUS
<1>5. /\ DOMAIN x = {"terms", "tx", "status", "kept", "told", "seen"}
      /\ x.status = "pending" /\ x.terms = j.terms /\ x.tx = j.tx
  BY <1>4
<1>6. SentOK(x, chain.feed) BY <1>3, <1>5 DEF SentOK
<1>7. sent' = Append(sent, x) BY <1>1, <1>4 DEF Broadcast
<1>8. /\ AllSentOK(sent', chain.feed) /\ Follows(sent, sent')
      /\ Len(sent') = Len(sent) + 1 /\ Len(sent) \in Nat
  BY <1>6, <1>7, InvParts, ListWithOneMore
<1>9. NoticesOK(notice, sent') BY <1>8, InvParts, NoticesFollow
<1>10. JobsOK(job, Len(sent')) BY <1>8, InvParts, MoreJobs
<1> QED BY <1>8, <1>9, <1>10

LEMMA SubmitKeeps ==
    ASSUME PagesInv, NEW s \in Slots, Submit(s)
    PROVE  PagesInv'
<1>1. job[s].step = "sending" /\ UNCHANGED <<page, chain, cache, form>> BY DEF Submit
<1>2. PICK why : why = Refusal(chain, job[s].tx) OBVIOUS
<1>3. CASE why # ""
  <2>1. /\ notice' = [notice EXCEPT ![s] = Told("rejected", why, job[s])]
        /\ job' = [job EXCEPT ![s] = Answered(@)] /\ sent' = sent
    BY <1>2, <1>3 DEF Submit
  <2>2. job[s].step # "idle" BY <1>1
  <2> QED BY <1>1, <2>1, <2>2, GivesUp, HandlerStep
<1>4. CASE why = ""
  <2>1. /\ Broadcast(s) /\ notice' = notice
        /\ job' = [job EXCEPT ![s].step = "confirming", ![s].at = Len(sent) + 1]
    BY <1>2, <1>4 DEF Submit
  <2>2. /\ AllSentOK(sent', chain.feed) /\ Len(sent') = Len(sent) + 1
        /\ NoticesOK(notice, sent') /\ JobsOK(job, Len(sent'))
    BY <1>1, <2>1, BroadcastAdds
  <2>3. PICK n : n = Len(sent) + 1 OBVIOUS
  <2>4. n = Len(sent') /\ n \in 1 .. n
    <3>1. Len(sent) \in Nat BY InvParts
    <3>2. \A m \in Nat : m + 1 \in 1 .. m + 1 OBVIOUS
    <3> QED BY <2>2, <2>3, <3>1, <3>2
  <2>5. PICK j, k : j = job[s] /\ k = [j EXCEPT !.step = "confirming", !.at = n] OBVIOUS
  <2>6. JobOK(j, n) /\ j.step = "sending" BY <1>1, <2>2, <2>4, <2>5 DEF JobsOK
  <2>7. DOMAIN j = {"step", "terms", "tx", "fresh", "at"} /\ TermsOK(j.terms)
    BY <2>6 DEF JobOK, ReadyOK
  <2>8. DOMAIN k = DOMAIN j /\ k.step = "confirming" /\ k.terms = j.terms /\ k.at = n
    BY <2>5, <2>7
  <2>9. JobOK(k, n) BY <2>4, <2>6, <2>7, <2>8, JobGoesOn
  <2>10. job' = [job EXCEPT ![s] = k] BY <2>1, <2>3, <2>5, InvParts DEF JobsOK
  <2>11. JobsOK(job, n) BY <2>2, <2>4
  <2>12. JobsOK(job', n) BY <2>9, <2>10, <2>11, JobSet
  <2>13. JobsOK(job', Len(sent')) BY <2>4, <2>12
  <2> QED BY <1>1, <2>1, <2>2, <2>13, InvParts, InvNext
<1> QED BY <1>3, <1>4

LEMMA AnswerLostKeeps ==
    ASSUME PagesInv, NEW s \in Slots, AnswerLost(s)
    PROVE  PagesInv'
<1>1. job[s].step = "sending" /\ Broadcast(s) /\ UNCHANGED <<page, chain, cache, form>>
  BY DEF AnswerLost
<1>2. /\ AllSentOK(sent', chain.feed) /\ Len(sent') = Len(sent) + 1
      /\ NoticesOK(notice, sent') /\ JobsOK(job, Len(sent'))
  BY <1>1, BroadcastAdds
<1>3. notice' = [notice EXCEPT ![s] = Told("unsure", "offline", job[s])]
      /\ job' = [job EXCEPT ![s] = Answered(@)]
  BY DEF AnswerLost
<1>4. NoticeOK(Told("unsure", "offline", job[s]), sent') BY ToldOK
<1>5. NoticesOK(notice', sent') BY <1>2, <1>3, <1>4, NoticeSet
<1>6. PICK n, j : n = Len(sent') /\ j = job[s] OBVIOUS
<1>7. JobOK(j, n) /\ j.step # "idle" BY <1>1, <1>2, <1>6 DEF JobsOK
<1>8. JobOK(Answered(j), n) BY <1>7, AnsweredOK
<1>9. JobsOK(job, n) /\ job' = [job EXCEPT ![s] = Answered(j)] BY <1>2, <1>3, <1>6
<1>10. JobsOK(job', n) BY <1>8, <1>9, JobSet
<1> QED BY <1>1, <1>2, <1>5, <1>6, <1>10, InvParts, InvNext

LEMMA ClearedOK ==
    ASSUME PagesInv
    PROVE  FormOK(page, Cleared(form))
<1>1. FormOK(page, form) BY InvParts
<1>2. CASE page = "swap" BY <1>1, <1>2 DEF Cleared
<1>3. CASE page # "swap" BY <1>3 DEF FormOK
<1> QED BY <1>2, <1>3

SeenSet(list, i, next) == next = [list EXCEPT ![i].seen = TRUE]

LEMMA SentSeen ==
    ASSUME NEW list, NEW feed, AllSentOK(list, feed), NEW i \in 1 .. Len(list),
           NEW next, SeenSet(list, i, next)
    PROVE  /\ AllSentOK(next, feed) /\ Follows(list, next) /\ Len(next) = Len(list)
           /\ next[i].status = list[i].status
<1>1. PICK x : x = [list[i] EXCEPT !.seen = TRUE] OBVIOUS
<1>2. SentOK(list[i], feed) BY DEF AllSentOK
<1>3. DOMAIN x = DOMAIN list[i] /\ x.terms = list[i].terms /\ x.tx = list[i].tx
      /\ x.status = list[i].status
  BY <1>1, <1>2 DEF SentOK
<1>4. SentOK(x, feed) /\ StatusGoesOn(list[i], x) BY <1>2, <1>3 DEF SentOK, StatusGoesOn
<1>5. OneSet(list, i, x, next) BY <1>1 DEF SeenSet, OneSet
<1>6. /\ AllSentOK(next, feed) /\ Follows(list, next) /\ Len(next) = Len(list)
      /\ next[i] = x
  BY <1>4, <1>5, ListWithOneSet
<1> QED BY <1>3, <1>6

(* The receipt says what the status says. *)
LEMMA PolledKeeps ==
    ASSUME PagesInv, NEW s \in Slots, Polled(s)
    PROVE  PagesInv'
<1>1. PICK j, i : j = job[s] /\ i = j.at OBVIOUS
<1>2. JobOK(j, Len(sent)) /\ j.step = "confirming" BY <1>1, InvParts DEF Polled
<1>3. i \in 1 .. Len(sent) BY <1>1, <1>2 DEF JobOK
<1>4. UNCHANGED <<page, skew, chain, cache, left>> BY DEF Polled
<1>5. job[s].step # "idle" BY <1>1, <1>2
<1>6. ASSUME sent' = [sent EXCEPT ![i].seen = TRUE]
      PROVE  /\ AllSentOK(sent', chain.feed) /\ Follows(sent, sent') /\ Len(sent') = Len(sent)
             /\ sent'[i].status = sent[i].status
  <2>1. PICK list, next : list = sent /\ next = sent' OBVIOUS
  <2>2. AllSentOK(list, chain.feed) /\ i \in 1 .. Len(list) /\ SeenSet(list, i, next)
    BY <1>3, <1>6, <2>1, InvParts DEF SeenSet
  <2>3. /\ AllSentOK(next, chain.feed) /\ Follows(list, next) /\ Len(next) = Len(list)
        /\ next[i].status = list[i].status
    BY <2>2, SentSeen
  <2> QED BY <2>1, <2>3
<1>7. CASE sent[i].status = "ok" /\ job' = [job EXCEPT ![s] = Idle]
           /\ notice' = [notice EXCEPT ![s] = Told("done", "", j)]
           /\ form' = (IF s = "form" THEN Cleared(form) ELSE form)
           /\ sent' = [sent EXCEPT ![i].seen = TRUE]
  <2>1. /\ AllSentOK(sent', chain.feed) /\ Follows(sent, sent') /\ Len(sent') = Len(sent)
        /\ sent'[i].status = sent[i].status
    BY <1>7, <1>6
  <2>2. sent'[i].status = "ok" /\ i \in 1 .. Len(sent') BY <1>3, <1>7, <2>1
  <2>3. NoticeOK(Told("done", "", j), sent') BY <1>1, <2>2, ToldOK
  <2>4. NoticesOK(notice', sent') BY <1>7, <2>1, <2>3, InvParts, NoticesFollow, NoticeSet
  <2>5. JobsOK(job', Len(sent)) BY <1>7, InvParts, IdleOK, JobSet
  <2>6. FormOK(page, form') BY <1>7, InvParts, ClearedOK
  <2> QED BY <1>4, <2>1, <2>4, <2>5, <2>6, InvParts, InvNext
<1>8. CASE sent[i].status = "failed" /\ job' = [job EXCEPT ![s] = Answered(@)]
           /\ notice' = [notice EXCEPT ![s] = Told("failed", "", j)]
           /\ UNCHANGED <<form, sent>>
  <2>1. NoticeOK(Told("failed", "", j), sent) BY <1>1, <1>3, <1>8, ToldOK
  <2>2. NoticesOK(notice', sent) BY <1>8, <2>1, InvParts, NoticeSet
  <2>3. JobOK(Answered(job[s]), Len(sent)) BY <1>5, InvParts, AnsweredOK
  <2>4. JobsOK(job', Len(sent)) BY <1>8, <2>3, InvParts, JobSet
  <2> QED BY <1>4, <1>8, <2>2, <2>4, HandlerStep
<1>9. CASE job' = [job EXCEPT ![s] = Answered(@)]
           /\ notice' = [notice EXCEPT ![s] = Told("unsure", "may still go through", j)]
           /\ UNCHANGED <<form, sent>>
  BY <1>1, <1>4, <1>5, <1>9, GivesUp, HandlerStep
<1> QED BY <1>1, <1>7, <1>8, <1>9 DEF Polled, StatusOf

(* The steps of the chain. *)
LEMMA WorldMoves ==
    ASSUME PagesInv, ChainOK(chain'), Grows(chain, chain'),
           job' = [s \in Slots |-> Outdated(job[s])] \/ job' = [s \in Slots |-> Aged(job[s])],
           UNCHANGED <<page, cache, form, notice, sent>>
    PROVE  PagesInv'
<1>1. PICK L, M : L = chain /\ M = chain' OBVIOUS
<1>2. AllSentOK(sent, M.feed) BY <1>1, InvParts, AllSentGrow
<1>3. JobsOK(job', Len(sent)) BY InvParts, JobsOutdated
<1> QED BY <1>1, <1>2, <1>3, InvParts, InvNext

LEMMA TickKeeps ==
    ASSUME PagesInv, Tick
    PROVE  PagesInv'
<1>1. PICK L, n : L = chain /\ n = L.now + 1 OBVIOUS
<1>2. chain' = [L EXCEPT !["now"] = n] BY <1>1 DEF Tick
<1>3. ChainOK(L) /\ IsLedger(L) BY <1>1, InvParts DEF ChainOK
<1>4. "now" \in LedgerFields \ {"ok", "why", "feed"} BY DEF LedgerFields
<1>5. PICK M : M = [L EXCEPT !["now"] = n] OBVIOUS
<1>6. IsLedger(M) /\ Grows(L, M) /\ M.ok = L.ok BY <1>3, <1>4, <1>5, FieldKept
<1>7. ChainOK(M) BY <1>3, <1>6 DEF ChainOK
<1>8. ChainOK(chain') /\ Grows(chain, chain') BY <1>1, <1>2, <1>5, <1>6, <1>7
<1> QED BY <1>8, WorldMoves DEF Tick

LEMMA SomebodyElseKeeps ==
    ASSUME PagesInv, SomebodyElse
    PROVE  PagesInv'
<1>1. PICK tx \in Elsewhere(chain, page) :
          IsTransaction(tx) /\ Refusal(chain, tx) = "" /\ ChainBecomes(Ran(chain, tx))
  BY DEF SomebodyElse
<1>2. IsList(tx.ixs) BY <1>1 DEF IsTransaction, IsList
<1>3. ChainOK(Ran(chain, tx)) /\ Grows(chain, Ran(chain, tx)) BY <1>1, <1>2, InvParts, NotRefused
<1>4. ChainOK(chain') /\ Grows(chain, chain') BY <1>1, <1>3 DEF ChainBecomes
<1>5. job' = [s \in Slots |-> Outdated(job[s])] BY <1>1 DEF ChainBecomes
<1> QED BY <1>4, <1>5, WorldMoves DEF SomebodyElse

LEMMA DropKeeps ==
    ASSUME PagesInv, NEW i \in DOMAIN sent, Drop(i)
    PROVE  PagesInv'
<1>1. sent[i].status = "pending" /\ UNCHANGED <<page, chain, cache, form, job, notice>>
  BY DEF Drop
<1>2. PICK list, x : list = sent /\ x = [list[i] EXCEPT !.status = "dropped"] OBVIOUS
<1>3. i \in 1 .. Len(list) /\ AllSentOK(list, chain.feed) BY <1>2, InvParts
<1>4. SentOK(list[i], chain.feed) BY <1>3 DEF AllSentOK
<1>5. /\ DOMAIN x = DOMAIN list[i] /\ x.terms = list[i].terms /\ x.tx = list[i].tx
      /\ x.status = "dropped"
  BY <1>2, <1>4 DEF SentOK
<1>6. SentOK(x, chain.feed) BY <1>4, <1>5 DEF SentOK
<1>7. StatusGoesOn(list[i], x) BY <1>1, <1>2 DEF StatusGoesOn
<1>8. OneSet(list, i, x, sent') BY <1>2 DEF Drop, OneSet
<1>9. AllSentOK(sent', chain.feed) /\ Follows(list, sent') /\ Len(sent') = Len(list)
  BY <1>3, <1>6, <1>7, <1>8, ListWithOneSet
<1>10. NoticesOK(notice, sent') BY <1>2, <1>9, InvParts, NoticesFollow
<1>11. JobsOK(job, Len(sent')) BY <1>2, <1>9, InvParts
<1> QED BY <1>1, <1>9, <1>10, <1>11, InvParts, InvNext

LandedAs(list, i, kept, told, next) ==
    next = [list EXCEPT ![i].status = "ok", ![i].kept = kept, ![i].told = told]

LEMMA ListWithOneLanded ==
    ASSUME NEW L, ChainOK(L), NEW list, AllSentOK(list, L.feed), NEW i \in 1 .. Len(list),
           NEW tx, tx = list[i].tx, NEW M, M = Ran(L, tx), M.ok, StatusGoesOn(list[i], [status |-> "ok"]),
           NEW kept, NEW told, NEW next, LandedAs(list, i, kept, told, next)
    PROVE  AllSentOK(next, M.feed) /\ Follows(list, next) /\ Len(next) = Len(list)
<1>1. PICK y, x : y = list[i] /\ x = [y EXCEPT !.status = "ok", !.kept = kept, !.told = told] OBVIOUS
<1>2. SentOK(y, L.feed) BY <1>1 DEF AllSentOK
<1>3. DOMAIN x = DOMAIN y /\ x.terms = y.terms /\ x.tx = y.tx /\ x.status = "ok"
  BY <1>1, <1>2 DEF SentOK
<1>4. IsList(tx.ixs) BY <1>1, <1>2 DEF SentOK, TxOK
<1>5. Grows(L, M) BY <1>4, RanKeeps
<1>6. AllSentOK(list, M.feed) BY <1>5, AllSentGrow
<1>7. SentOK(y, M.feed) BY <1>1, <1>6 DEF AllSentOK
<1>8. IsPayment(y.terms) => \E k \in 1 .. Len(M.feed) : M.feed[k] = ItemOf(y.terms)
  BY <1>1, <1>2, LandedAnnounced
<1>9. SentOK(x, M.feed) BY <1>3, <1>7, <1>8 DEF SentOK, IsPayment
<1>10. StatusGoesOn(y, x) BY <1>1, <1>3 DEF StatusGoesOn
<1>11. OneSet(list, i, x, next) BY <1>1 DEF LandedAs, OneSet
<1> QED BY <1>1, <1>6, <1>9, <1>10, <1>11, ListWithOneSet

FailedAt(list, i, next) == next = [list EXCEPT ![i].status = "failed"]

LEMMA ListWithOneFailed ==
    ASSUME NEW list, NEW feed, AllSentOK(list, feed), NEW i \in 1 .. Len(list),
           StatusGoesOn(list[i], [status |-> "failed"]), NEW next, FailedAt(list, i, next)
    PROVE  AllSentOK(next, feed) /\ Follows(list, next) /\ Len(next) = Len(list)
<1>1. PICK y, x : y = list[i] /\ x = [y EXCEPT !.status = "failed"] OBVIOUS
<1>2. SentOK(y, feed) BY <1>1 DEF AllSentOK
<1>3. DOMAIN x = DOMAIN y /\ x.terms = y.terms /\ x.tx = y.tx /\ x.status = "failed"
  BY <1>1, <1>2 DEF SentOK
<1>4. SentOK(x, feed) BY <1>2, <1>3 DEF SentOK
<1>5. StatusGoesOn(y, x) BY <1>1, <1>3 DEF StatusGoesOn
<1>6. OneSet(list, i, x, next) BY <1>1 DEF FailedAt, OneSet
<1> QED BY <1>1, <1>4, <1>5, <1>6, ListWithOneSet

LEMMA LandKeeps ==
    ASSUME PagesInv, NEW i \in DOMAIN sent, Land(i)
    PROVE  PagesInv'
<1>1. PICK L, list, tx, M : L = chain /\ list = sent /\ tx = list[i].tx /\ M = Ran(L, tx) OBVIOUS
<1>2. ChainOK(L) /\ AllSentOK(list, L.feed) /\ i \in 1 .. Len(list) BY <1>1, InvParts
<1>3. /\ StatusGoesOn(list[i], [status |-> "ok"]) /\ StatusGoesOn(list[i], [status |-> "failed"])
      /\ UNCHANGED <<page, cache, form, notice>>
  BY <1>1 DEF Land, StatusGoesOn
<1>4. IsList(tx.ixs) BY <1>1, <1>2 DEF AllSentOK, SentOK, TxOK
<1>5. /\ job' = [s \in Slots |-> Outdated(job[s])]
      /\ ChainOK(chain') /\ AllSentOK(sent', chain'.feed) /\ Follows(list, sent')
      /\ Len(sent') = Len(list)
  <2>1. CASE M.ok
    <3>1. PICK kept, told, next : /\ kept = Kept(chain, M, sent[i].terms)
                                  /\ told = Listed(chain, M, sent[i]) /\ next = sent'
      OBVIOUS
    <3>2. chain' = M /\ LandedAs(list, i, kept, told, next)
          /\ job' = [s \in Slots |-> Outdated(job[s])]
      BY <1>1, <2>1, <3>1 DEF Land, LandedAs, ChainBecomes
    <3>3. AllSentOK(next, M.feed) /\ Follows(list, next) /\ Len(next) = Len(list)
      BY <1>1, <1>2, <1>3, <2>1, <3>2, ListWithOneLanded
    <3>4. ChainOK(M) BY <1>1, <1>2, <1>4, <2>1, RanKeeps
    <3> QED BY <3>1, <3>2, <3>3, <3>4
  <2>2. CASE ~M.ok
    <3>1. PICK N, next : N = OnlyCharged(L, tx) /\ next = sent' OBVIOUS
    <3>2. chain' = N /\ FailedAt(list, i, next) /\ job' = [s \in Slots |-> Outdated(job[s])]
      BY <1>1, <2>2, <3>1 DEF Land, FailedAt, ChainBecomes
    <3>3. ChainOK(N) /\ Grows(L, N) BY <1>2, <3>1, OnlyChargedKeeps
    <3>4. AllSentOK(list, N.feed) BY <1>2, <3>3, AllSentGrow
    <3>5. AllSentOK(next, N.feed) /\ Follows(list, next) /\ Len(next) = Len(list)
      BY <1>2, <1>3, <3>2, <3>4, ListWithOneFailed
    <3> QED BY <3>1, <3>2, <3>3, <3>5
  <2> QED BY <2>1, <2>2
<1>6. NoticesOK(notice', sent') BY <1>1, <1>3, <1>5, InvParts, NoticesFollow
<1>7. JobsOK(job', Len(sent')) BY <1>1, <1>5, InvParts, JobsOutdated
<1> QED BY <1>3, <1>5, <1>6, <1>7, InvParts, InvNext

LEMMA PagesStepKeeps ==
    ASSUME PagesInv, [PagesNext]_vars
    PROVE  PagesInv'
<1>1. CASE Fill BY <1>1, FillKeeps
<1>2. CASE UseMax BY <1>2, FillKeeps
<1>3. CASE PressForm BY <1>3, PressKeeps
<1>4. CASE Confirm BY <1>4, ConfirmKeeps
<1>5. CASE Back BY <1>5, BackKeeps
<1>6. CASE Reset BY <1>6, ResetKeeps
<1>7. CASE Refetch BY <1>7, RefetchKeeps
<1>8. ASSUME NEW t \in OffersOf(cache.list), PressRow(t) PROVE PagesInv' BY <1>8, PressKeeps
<1>9. ASSUME NEW s \in Slots, GoesOn(s) \/ AnswerLost(s) \/ CallFails(s) PROVE PagesInv'
  BY <1>9, CheckKeeps, SubmitKeeps, PolledKeeps, AnswerLostKeeps, CallFailsKeeps DEF GoesOn
<1>10. ASSUME NEW i \in DOMAIN sent, Land(i) \/ Drop(i) PROVE PagesInv'
  BY <1>10, LandKeeps, DropKeeps
<1>11. CASE SomebodyElse BY <1>11, SomebodyElseKeeps
<1>12. CASE Tick BY <1>12, TickKeeps
<1>13. CASE UNCHANGED vars BY <1>13, InvParts, InvNext DEF vars
<1> QED BY <1>1, <1>2, <1>3, <1>4, <1>5, <1>6, <1>7, <1>8, <1>9, <1>10, <1>11, <1>12, <1>13
        DEF PagesNext

(* PagesInv is inductive: whatever the browser and the network do, what a  *)
(* handler has signed matches the terms it works on, what is broadcast     *)
(* stays what was signed, and what is on the chain is in the feed          *)
(* (the handlers of the pages, sendInstructions in rpc.ts).                *)
THEOREM PagesInvariant == PagesSpec => []PagesInv
<1>1. PagesInit => PagesInv BY PagesStart
<1>2. PagesInv /\ [PagesNext]_vars => PagesInv' BY PagesStepKeeps
<1> QED BY <1>1, <1>2, PTL DEF PagesSpec

(* A receipt is only shown for a transaction that is on the chain, and a   *)
(* failure only for one that has failed there (confirmSignature in rpc.ts  *)
(* and the handlers that wait for it), in every behaviour of every page.   *)
THEOREM ReceiptsHold == PagesSpec => []ReceiptsAreReal
<1>1. PagesInv => ReceiptsAreReal
  <2> SUFFICES ASSUME PagesInv, NEW s \in Slots
               PROVE  /\ notice[s].kind \in {"done", "failed"} => notice[s].at \in DOMAIN sent
                      /\ notice[s].kind = "done" => sent[notice[s].at].status = "ok"
                      /\ notice[s].kind = "failed" => sent[notice[s].at].status = "failed"
    BY DEF ReceiptsAreReal
  <2>1. NoticeOK(notice[s], sent) /\ DOMAIN sent = 1 .. Len(sent) BY InvParts
  <2> QED BY <2>1 DEF NoticeOK
<1> QED BY <1>1, PagesInvariant, PTL

(* Only a landing makes a success of a pending transaction. *)
Succeeds(i) == sent[i].status = "pending" /\ sent'[i].status = "ok"

LEMMA OnlyLandingSucceeds ==
    ASSUME PagesInv, [PagesNext]_vars, NEW k \in DOMAIN sent, Succeeds(k)
    PROVE  Land(k)
<1>1. k \in 1 .. Len(sent) /\ Len(sent) \in Nat /\ IsList(sent) BY InvParts
<1>2. sent[k].status = "pending" /\ sent'[k].status = "ok" BY DEF Succeeds
<1>3. sent' # sent BY <1>2
<1>4. ASSUME NEW s \in Slots, Broadcast(s) PROVE FALSE
  <2>1. PICK x : sent' = Append(sent, x) BY <1>4 DEF Broadcast
  <2>2. PICK S : sent \in Seq(S) BY <1>1 DEF IsList
  <2>3. sent'[k] = sent[k] BY <1>1, <2>1, <2>2
  <2> QED BY <1>2, <2>3
<1>5. ASSUME NEW s \in Slots, GoesOn(s) \/ AnswerLost(s) \/ CallFails(s) PROVE FALSE
  <2>1. CASE Check(s) BY <1>3, <2>1 DEF Check
  <2>2. CASE Submit(s) BY <1>3, <1>4, <2>2 DEF Submit
  <2>3. CASE Polled(s)
    <3>1. sent' = [sent EXCEPT ![job[s].at].seen = TRUE] BY <1>3, <2>3 DEF Polled
    <3>2. SentOK(sent[k], chain.feed) BY <1>1, InvParts DEF AllSentOK
    <3>3. "status" \in DOMAIN sent[k] BY <3>2 DEF SentOK
    <3>4. sent'[k].status = sent[k].status BY <3>1, <3>3
    <3> QED BY <1>2, <3>4
  <2>4. CASE AnswerLost(s) BY <1>4, <2>4 DEF AnswerLost
  <2>5. CASE CallFails(s) BY <1>3, <2>5 DEF CallFails
  <2> QED BY <1>5, <2>1, <2>2, <2>3, <2>4, <2>5 DEF GoesOn
<1>6. ASSUME NEW i \in DOMAIN sent, Drop(i) PROVE FALSE
  <2>1. sent' = [sent EXCEPT ![i].status = "dropped"] BY <1>6 DEF Drop
  <2>2. "status" \in DOMAIN sent[k] BY <1>1, InvParts DEF AllSentOK, SentOK
  <2>3. sent'[k].status \in {sent[k].status, "dropped"} BY <2>1, <2>2
  <2> QED BY <1>2, <2>3
<1>7. ASSUME NEW i \in DOMAIN sent, Land(i), i # k PROVE FALSE
  <2>1. sent'[k] = sent[k] BY <1>7 DEF Land
  <2> QED BY <1>2, <2>1
<1>8. ASSUME NEW t \in OffersOf(cache.list), PressRow(t) PROVE FALSE
  BY <1>3, <1>8 DEF PressRow, Start
<1>9. ~(Fill \/ UseMax \/ Back \/ Reset \/ Refetch \/ Confirm \/ PressForm)
  BY <1>3 DEF Fill, UseMax, Back, Reset, Refetch, Confirm, PressForm, Start
<1>10. ~(SomebodyElse \/ Tick \/ UNCHANGED vars) BY <1>3 DEF SomebodyElse, Tick, vars
<1>11. \/ \E t \in OffersOf(cache.list) : PressRow(t)
       \/ \E s \in Slots : GoesOn(s) \/ AnswerLost(s) \/ CallFails(s)
       \/ \E i \in DOMAIN sent : Land(i) \/ Drop(i)
  BY <1>9, <1>10 DEF PagesNext
<1> QED BY <1>5, <1>6, <1>7, <1>8, <1>11

(* No transaction of this wallet leaves a wrapped SOL account of its own   *)
(* behind: each that moves SOL as a token ends with the account closed,    *)
(* and no transaction succeeds in part (buildSwapInstructions,             *)
(* buildCreateLockInstructions, buildWithdrawInstructions,                 *)
(* buildCancelLockInstructions).                                           *)
THEOREM PagesUnwrap == PagesSpec => NothingLeftWrapped
<1> DEFINE Unwrapped == \A i \in DOMAIN sent :
               sent[i].status = "pending" /\ sent'[i].status = "ok" /\ MovesSol(sent[i].terms)
               => ~hasTokenAccount(chain', me, Wsol)
<1>1. PagesInv /\ [PagesNext]_vars => Unwrapped
  <2> SUFFICES ASSUME PagesInv, [PagesNext]_vars, NEW i \in DOMAIN sent, Succeeds(i),
                      MovesSol(sent[i].terms)
               PROVE  ~hasTokenAccount(chain', me, Wsol)
    BY DEF Succeeds
  <2>1. Land(i) BY OnlyLandingSucceeds
  <2>2. PICK L, x, N : L = chain /\ x = sent[i] /\ N = Ran(L, x.tx) OBVIOUS
  <2>3. ChainOK(L) /\ SentOK(x, L.feed) BY <2>2, InvParts DEF AllSentOK
  <2>4. N.ok /\ chain' = N
    <3>1. CASE ~N.ok
      <4>1. sent' = [sent EXCEPT ![i].status = "failed"] BY <2>1, <2>2, <3>1 DEF Land
      <4>2. sent'[i].status = "failed" BY <2>2, <2>3, <4>1 DEF SentOK
      <4> QED BY <4>2 DEF Succeeds
    <3>2. CASE N.ok BY <2>1, <2>2, <3>2 DEF Land, ChainBecomes
    <3> QED BY <3>1, <3>2
  <2>5. ~hasTokenAccount(N, me, Wsol) BY <2>2, <2>3, <2>4, LandedUnwrapped
  <2> QED BY <2>4, <2>5
<1>2. PagesInv /\ [PagesNext]_vars => [Unwrapped]_vars BY <1>1
<1> HIDE DEF Unwrapped
<1>3. PagesSpec => [][Unwrapped]_vars BY <1>2, PagesInvariant, PTL DEF PagesSpec
<1> QED BY <1>3 DEF NothingLeftWrapped, Unwrapped

(* An address that is a point is read back as that point. *)
LEMMA AddressesRead ==
    /\ \A p \in Points : /\ isPoint(publicKeyToAddress(p))
                         /\ addressToPublicKey(publicKeyToAddress(p)) = p
    /\ \A a : isPoint(a) => /\ addressToPublicKey(a) \in Points
                            /\ publicKeyToAddress(addressToPublicKey(a)) = a
<1>1. ASSUME NEW a, isPoint(a)
      PROVE  addressToPublicKey(a) \in Points /\ publicKeyToAddress(addressToPublicKey(a)) = a
  <2>1. \E p \in Points : publicKeyToAddress(p) = a BY <1>1 DEF isPoint, PointAt
  <2>2. addressToPublicKey(a) = CHOOSE p \in Points : publicKeyToAddress(p) = a
    BY <1>1 DEF isPoint, addressToPublicKey, PointAt
  <2> QED BY <2>1, <2>2
<1>2. ASSUME NEW p \in Points
      PROVE  isPoint(publicKeyToAddress(p)) /\ addressToPublicKey(publicKeyToAddress(p)) = p
  <2>1. isPoint(publicKeyToAddress(p)) BY DEF isPoint, PointAt
  <2> QED BY <1>1, <2>1, AddressAssumption
<1> QED BY <1>1, <1>2

LEMMA OwnKeys ==
    ASSUME NEW r \in 0 .. Order - 1, ~Degenerate(metaOf(Keys), r),
           NEW paid, paid = createStealthPayment(metaOf(Keys), r)
    PROVE  paid.ephemeral \in Points /\ paid.stealthPub \in Points /\ scanAnnouncement(Keys, paid) # {}
<1>1. PICK spend \in Nat, scan \in Nat : Keys = stealthKeysFromSeeds(spend, scan) BY KeysAssumption
<1>2. r # 0 /\ Order \in Nat \ {0} BY StealthAssumption DEF Degenerate
<1>3. r \in 1 .. Order - 1 /\ r \in Nat BY <1>2
<1>4. PICK s \in Scalars : scanAnnouncement(Keys, paid) = {s} /\ publicKeyFromScalar(s) = paid.stealthPub
  BY <1>1, <1>3, PaymentIsFound
<1>5. paid.ephemeral = OfG(r) BY DEF createStealthPayment, OfG
<1>6. s % Order \in Nat BY <1>2, Division DEF Scalars
<1>7. paid.stealthPub = OfG(s % Order) BY <1>4 DEF publicKeyFromScalar, OfG
<1> QED BY <1>3, <1>4, <1>5, <1>6, <1>7, OfGIs

Downloaded(L, items) == items = SubSeq(L.feed, 1, Earlier(FeedLimit, Len(L.feed)))

LEMMA Beginning ==
    ASSUME NEW S, NEW s \in Seq(S), NEW n \in 0 .. Len(s)
    PROVE  DOMAIN SubSeq(s, 1, n) = 1 .. n /\ \A i \in 1 .. n : SubSeq(s, 1, n)[i] = s[i]
<1>1. n \in Nat /\ n - 1 + 1 = n /\ \A i \in 1 .. n : s[i] \in S BY LenProperties
<1>2. PICK t : t = SubSeq(s, 1, n) OBVIOUS
<1>3. t \in Seq(S) /\ Len(t) = n /\ \A i \in 1 .. n : t[i] = s[i]
  <2>1. t \in Seq(S) /\ Len(t) = IF 1 <= n THEN n - 1 + 1 ELSE 0
    BY <1>1, <1>2, SubSeqProperties
  <2>2. \A i \in 1 .. n - 1 + 1 : t[i] = s[1 + i - 1] BY <1>1, <1>2, SubSeqProperties
  <2>3. \A i \in 1 .. n : 1 + i - 1 = i OBVIOUS
  <2>4. n = 0 \/ 1 <= n BY <1>1
  <2> QED BY <1>1, <2>1, <2>2, <2>3, <2>4
<1>4. DOMAIN t = 1 .. n BY <1>3
<1> QED BY <1>2, <1>3, <1>4

LEMMA FeedDownloaded ==
    ASSUME NEW L, IsLedger(L), NEW items, Downloaded(L, items)
    PROVE  /\ DOMAIN items \subseteq 1 .. Len(L.feed)
           /\ \A i \in DOMAIN items : items[i] = L.feed[i]
           /\ Len(L.feed) <= FeedLimit => DOMAIN items = 1 .. Len(L.feed)
<1>1. PICK feed, n : feed = L.feed /\ n = Earlier(FeedLimit, Len(feed)) OBVIOUS
<1>2. Len(feed) \in Nat /\ IsList(feed) BY <1>1, FeedIsList
<1>3. n \in 0 .. Len(feed) /\ n \in Nat /\ (Len(feed) <= FeedLimit => n = Len(feed))
  BY <1>1, <1>2, FeedAssumption DEF Earlier
<1>4. PICK S : feed \in Seq(S) BY <1>2 DEF IsList
<1>5. items = SubSeq(feed, 1, n) BY <1>1 DEF Downloaded
<1>6. DOMAIN items = 1 .. n /\ \A i \in 1 .. n : items[i] = feed[i]
  BY <1>3, <1>4, <1>5, Beginning
<1>7. 1 .. n \subseteq 1 .. Len(feed) BY <1>2, <1>3
<1> QED BY <1>1, <1>3, <1>6, <1>7

(* What the wallet finds in the feed of a ledger. *)
FindsIn(L, t) ==
    \E p \in scanFeed(L, Keys) : p.address = stealthAddressOf(t)

LEMMA AnnouncedIsFound ==
    ASSUME NEW L, IsLedger(L), Len(L.feed) <= FeedLimit, NEW t, t.random \in 0 .. Order - 1,
           t.meta = metaOf(Keys), ~Degenerate(t.meta, t.random),
           NEW i \in 1 .. Len(L.feed), L.feed[i] = ItemOf(t)
    PROVE  FindsIn(L, t)
<1>1. PICK r, paid, items, item : /\ r = t.random /\ paid = createStealthPayment(metaOf(Keys), r)
                                  /\ Downloaded(L, items) /\ item = items[i]
  BY DEF Downloaded
<1>2. paid.ephemeral \in Points /\ paid.stealthPub \in Points /\ scanAnnouncement(Keys, paid) # {}
  BY <1>1, OwnKeys
<1>3. i \in DOMAIN items /\ item = ItemOf(t)
  <2>1. DOMAIN items = 1 .. Len(L.feed) /\ \A k \in DOMAIN items : items[k] = L.feed[k]
    BY <1>1, FeedDownloaded
  <2> QED BY <1>1, <2>1
<1>4. /\ item.ephemeral = publicKeyToAddress(paid.ephemeral) /\ item.view_tag = paid.viewTag
      /\ item.stealth = publicKeyToAddress(paid.stealthPub) /\ item.stealth = stealthAddressOf(t)
  <2>1. paid = createStealthPayment(t.meta, t.random) BY <1>1
  <2>2. stealthAddressOf(t) = publicKeyToAddress(paid.stealthPub) BY <2>1 DEF stealthAddressOf
  <2>3. ItemOf(t) = [ephemeral |-> publicKeyToAddress(paid.ephemeral),
                     stealth |-> stealthAddressOf(t), view_tag |-> paid.viewTag]
    BY <2>1 DEF ItemOf
  <2> QED BY <1>3, <2>2, <2>3
<1>5. /\ isPoint(item.ephemeral) /\ isPoint(item.stealth)
      /\ addressToPublicKey(item.ephemeral) = paid.ephemeral
      /\ addressToPublicKey(item.stealth) = paid.stealthPub
  BY <1>2, <1>4, AddressesRead
<1>6. readItem(item) = paid
  BY <1>1, <1>4, <1>5 DEF readItem, createStealthPayment
<1>7. PICK s : s \in scanAnnouncement(Keys, readItem(items[i])) BY <1>1, <1>2, <1>6
<1>8. PICK p : p = [address |-> items[i].stealth, scalar |-> s] OBVIOUS
<1>9. p \in findMyPayments(Keys, items)
  <2>1. isPoint(items[i].ephemeral) /\ isPoint(items[i].stealth) BY <1>1, <1>5
  <2>2. i \in {j \in DOMAIN items : isPoint(items[j].ephemeral) /\ isPoint(items[j].stealth)}
    BY <1>3, <2>1
  <2>3. p \in {[address |-> items[i].stealth, scalar |-> x] :
                   x \in scanAnnouncement(Keys, readItem(items[i]))}
    BY <1>7, <1>8
  <2> QED BY <2>2, <2>3, Zenon DEF findMyPayments
<1>10. p \in scanFeed(L, Keys) BY <1>1, <1>9 DEF scanFeed, Downloaded
<1>11. p.address = item.stealth BY <1>1, <1>8
<1> QED BY <1>4, <1>10, <1>11 DEF FindsIn

LEMMA FoundOpens ==
    ASSUME NEW L, NEW p \in scanFeed(L, Keys)
    PROVE  p.address = publicKeyToAddress(publicKeyFromScalar(p.scalar))
<1>1. PICK items : items = SubSeq(L.feed, 1, Earlier(FeedLimit, Len(L.feed))) OBVIOUS
<1>2. p \in findMyPayments(Keys, items) BY <1>1 DEF scanFeed
<1>3. PICK i \in DOMAIN items : /\ isPoint(items[i].ephemeral) /\ isPoint(items[i].stealth)
                                /\ p \in {[address |-> items[i].stealth, scalar |-> s] :
                                             s \in scanAnnouncement(Keys, readItem(items[i]))}
  BY <1>2 DEF findMyPayments
<1>4. PICK item, a, s : /\ item = items[i] /\ a = readItem(item) /\ s \in scanAnnouncement(Keys, a)
                        /\ p = [address |-> item.stealth, scalar |-> s]
  BY <1>3
<1>5. a.ephemeral \in Points /\ a.stealthPub = addressToPublicKey(item.stealth)
      /\ publicKeyToAddress(a.stealthPub) = item.stealth
  BY <1>3, <1>4, AddressesRead DEF readItem
<1>6. PICK spend \in Nat, scan \in Nat : Keys = stealthKeysFromSeeds(spend, scan) BY KeysAssumption
<1>7. publicKeyFromScalar(s) = a.stealthPub BY <1>4, <1>5, <1>6, FoundKeysOpen
<1> QED BY <1>4, <1>5, <1>7

(* Every payment to this wallet that succeeded is found by its scan, while *)
(* the feed is not longer than what is downloaded, and what is found comes *)
(* with the key of its address, though handlers overlap, payments by       *)
(* others and garbage are announced in between, and transactions fail      *)
(* (planStealthPayment, announceInstruction, findMyPayments).              *)
THEOREM PaymentsAreFound == PagesSpec => []PaymentsFound
<1>1. PagesInv => PaymentsFound
  <2> SUFFICES ASSUME PagesInv PROVE PaymentsFound OBVIOUS
  <2>1. ASSUME Len(chain.feed) <= FeedLimit, NEW i \in DOMAIN sent,
               PaidBy(i), sent[i].terms.meta = metaOf(Keys)
        PROVE  stealthAddressOf(sent[i].terms) \in Found
    <3>1. PICK L, t : L = chain /\ t = sent[i].terms OBVIOUS
    <3>2. SentOK(sent[i], L.feed) /\ IsLedger(L) BY <3>1, InvParts DEF AllSentOK, ChainOK
    <3>3. PICK k \in 1 .. Len(L.feed) : L.feed[k] = ItemOf(t) BY <2>1, <3>1, <3>2 DEF PaidBy, SentOK
    <3>4. t.random \in 0 .. Order - 1 /\ ~Degenerate(t.meta, t.random)
      BY <2>1, <3>1, <3>2 DEF PaidBy, SentOK, ReadyOK, TermsOK
    <3>5. FindsIn(L, t) BY <2>1, <3>1, <3>2, <3>3, <3>4, AnnouncedIsFound
    <3> QED BY <3>1, <3>5 DEF FindsIn, Found
  <2> QED BY <2>1, FoundOpens DEF PaymentsFound
<1> QED BY <1>1, PagesInvariant, PTL

-----------------------------------------------------------------------------
(* What the relayer may lose: its lamports, and the steps that take none   *)
(* of them.                                                                *)

Purse(L) == At(L.lamports, relayer)
Costs(L, M, n) == IsLedger(M) /\ Funded(M) /\ Purse(M) + n >= Purse(L)

LEMMA PurseIs ==
    ASSUME NEW L, Funded(L)
    PROVE  Purse(L) \in Nat /\ \A a : At(L.lamports, a) \in Nat
BY DEF Purse, Funded, At

LEMMA RelayerIsKey == ~Derived(relayer)
<1>1. relayer = <<"relayer">> BY DEF relayer, Key
<1>2. Len(relayer) = 1 BY <1>1, Lists
<1> QED BY <1>2 DEF Derived

LEMMA CostsTrans ==
    ASSUME NEW L, NEW M, NEW N, NEW m \in Nat, NEW n \in Nat,
           Funded(L), Costs(L, M, m), Costs(M, N, n)
    PROVE  Costs(L, N, m + n)
<1>1. Purse(L) \in Nat /\ Purse(M) \in Nat /\ Purse(N) \in Nat BY PurseIs DEF Costs
<1> QED BY <1>1 DEF Costs

LEMMA CostsNothing ==
    ASSUME NEW L, IsLedger(L), Funded(L)
    PROVE  Costs(L, L, 0)
<1>1. Purse(L) \in Nat BY PurseIs
<1> QED BY <1>1 DEF Costs

LEMMA CostsLess ==
    ASSUME NEW L, NEW M, NEW m \in Nat, NEW n \in Nat, m <= n, Funded(L), Costs(L, M, m)
    PROVE  Costs(L, M, n)
<1>1. Purse(L) \in Nat /\ Purse(M) \in Nat BY PurseIs DEF Costs
<1> QED BY <1>1 DEF Costs

Counted(f) == \A a \in DOMAIN f : f[a] \in Nat

LEMMA SetCounted ==
    ASSUME NEW f, Counted(f), NEW a, NEW v \in Nat
    PROVE  /\ Counted(Set(f, a, v)) /\ At(Set(f, a, v), a) = v
           /\ \A b : b # a => At(Set(f, a, v), b) = At(f, b)
BY DEF Counted, Set, At

LEMMA AtCounted ==
    ASSUME NEW f, Counted(f), NEW a
    PROVE  At(f, a) \in Nat
BY DEF Counted, At

LEMMA MovedCounted ==
    ASSUME NEW f, Counted(f), NEW from, NEW to, NEW n \in 0 .. At(f, from), NEW who
    PROVE  /\ Counted(Moved(f, from, to, n))
           /\ At(Moved(f, from, to, n), who) + n >= At(f, who)
           /\ from # who => At(Moved(f, from, to, n), who) >= At(f, who)
<1>1. At(f, from) \in Nat /\ At(f, who) \in Nat BY AtCounted
<1>2. PICK x \in Nat : x = At(f, from) - n BY <1>1
<1>3. PICK less : less = Set(f, from, x) OBVIOUS
<1>4. Counted(less) /\ At(less, from) = x /\ \A b : b # from => At(less, b) = At(f, b)
  BY <1>3, SetCounted
<1>5. At(less, to) \in Nat BY <1>4, AtCounted
<1>6. PICK y \in Nat : y = At(less, to) + n BY <1>5
<1>7. PICK g : g = Set(less, to, y) OBVIOUS
<1>8. Counted(g) /\ At(g, to) = y /\ \A b : b # to => At(g, b) = At(less, b)
  BY <1>4, <1>7, SetCounted
<1>9. Moved(f, from, to, n) = g BY <1>2, <1>3, <1>6, <1>7 DEF Moved
<1>10. At(g, who) + n >= At(f, who) /\ (from # who => At(g, who) >= At(f, who))
  <2>1. CASE who = to /\ who = from BY <1>1, <1>2, <1>4, <1>6, <1>8, <2>1
  <2>2. CASE who = to /\ who # from BY <1>1, <1>4, <1>6, <1>8, <2>2
  <2>3. CASE who # to /\ who = from BY <1>1, <1>2, <1>4, <1>8, <2>3
  <2>4. CASE who # to /\ who # from BY <1>1, <1>4, <1>8, <2>4
  <2> QED BY <2>1, <2>2, <2>3, <2>4
<1> QED BY <1>8, <1>9, <1>10

(* A ledger with other lamports, and the other accounts of programs. *)
LEMMA CostsIs ==
    ASSUME NEW L, IsLedger(L), Funded(L), NEW M, IsLedger(M), NEW n \in Nat,
           Counted(M.lamports), At(M.lamports, relayer) + n >= At(L.lamports, relayer),
           \A a \in DOMAIN M.tokens \cup DOMAIN M.links \cup DOMAIN M.locks : Derived(a)
    PROVE  Costs(L, M, n)
BY DEF Costs, Funded, Counted, Purse

LEMMA FundedIs ==
    ASSUME NEW L, Funded(L)
    PROVE  Counted(L.lamports) /\ \A a \in DOMAIN L.tokens \cup DOMAIN L.links \cup DOMAIN L.locks : Derived(a)
BY DEF Funded, Counted

(* Other accounts of programs, at addresses that are no key's. *)
LEMMA KeepingCosts ==
    ASSUME NEW L, IsLedger(L), Funded(L), NEW M, IsLedger(M), M.lamports = L.lamports,
           \A a \in DOMAIN M.tokens \cup DOMAIN M.links \cup DOMAIN M.locks : Derived(a)
    PROVE  Costs(L, M, 0)
<1>1. Counted(M.lamports) /\ At(M.lamports, relayer) \in Nat BY FundedIs, AtCounted
<1>2. At(M.lamports, relayer) + 0 >= At(L.lamports, relayer) BY <1>1
<1> QED BY <1>1, <1>2, CostsIs

LEMMA RefuseCosts ==
    ASSUME NEW L, IsLedger(L), Funded(L), NEW why, why # ""
    PROVE  Costs(L, Refuse(L, why), 0)
<1>1. PICK M : M = Refuse(L, why) OBVIOUS
<1>2. /\ M.lamports = L.lamports /\ M.tokens = L.tokens /\ M.links = L.links /\ M.locks = L.locks
  BY <1>1 DEF Refuse, IsLedger, LedgerFields
<1>3. IsLedger(M) BY <1>1, RefuseKept
<1>4. \A a \in DOMAIN M.tokens \cup DOMAIN M.links \cup DOMAIN M.locks : Derived(a)
  BY <1>2, FundedIs
<1> QED BY <1>1, <1>2, <1>3, <1>4, KeepingCosts

LEMMA PayCosts ==
    ASSUME NEW L, IsLedger(L), Funded(L), NEW from, NEW to, NEW n
    PROVE  /\ from # relayer => Costs(L, Pay(L, from, to, n), 0)
           /\ n \in Nat => Costs(L, Pay(L, from, to, n), n)
<1>1. Purse(L) \in Nat BY PurseIs
<1>2. CASE n \notin 0 .. At(L.lamports, from)
  <2>1. Costs(L, Refuse(L, "funds"), 0) BY RefuseCosts
  <2>2. n \in Nat => Costs(L, Refuse(L, "funds"), n) BY <2>1, CostsLess
  <2> QED BY <1>2, <2>1, <2>2 DEF Pay
<1>3. CASE n \in 0 .. At(L.lamports, from)
  <2>1. PICK x : x = Moved(L.lamports, from, to, n) OBVIOUS
  <2>2. PICK M : M = [L EXCEPT !.lamports = x] OBVIOUS
  <2>3. M = Pay(L, from, to, n) BY <1>3, <2>1, <2>2 DEF Pay
  <2>4. IsLedger(M) BY <2>3, PayKeeps
  <2>5. M.lamports = x /\ M.tokens = L.tokens /\ M.links = L.links /\ M.locks = L.locks
    BY <2>2 DEF IsLedger, LedgerFields
  <2>6. Counted(L.lamports) BY FundedIs
  <2>7. /\ Counted(x) /\ At(x, relayer) + n >= At(L.lamports, relayer)
        /\ from # relayer => At(x, relayer) >= At(L.lamports, relayer)
    BY <1>3, <2>1, <2>6, MovedCounted
  <2>8. At(L.lamports, from) \in Nat BY <2>6, AtCounted
  <2>9. n \in Nat BY <1>3, <2>8
  <2>10. \A a \in DOMAIN M.tokens \cup DOMAIN M.links \cup DOMAIN M.locks : Derived(a)
    BY <2>5, FundedIs
  <2>11. Costs(L, M, n) BY <2>4, <2>5, <2>7, <2>9, <2>10, CostsIs
  <2>12. ASSUME from # relayer PROVE Costs(L, M, 0)
    <3>1. At(x, relayer) \in Nat BY <2>7, AtCounted
    <3>2. At(M.lamports, relayer) + 0 >= At(L.lamports, relayer) BY <2>5, <2>7, <2>12, <3>1
    <3> QED BY <2>4, <2>5, <2>7, <2>10, <3>2, CostsIs
  <2> QED BY <2>3, <2>9, <2>11, <2>12
<1> QED BY <1>2, <1>3

LEMMA SetDomain ==
    ASSUME NEW f, NEW a, NEW v
    PROVE  DOMAIN Set(f, a, v) = DOMAIN f \cup {a}
BY DEF Set

LEMMA MovedDomain ==
    ASSUME NEW f, NEW from, NEW to, NEW n
    PROVE  {from, to} \subseteq DOMAIN f => DOMAIN Moved(f, from, to, n) = DOMAIN f
<1>1. PICK x : x = At(f, from) - n OBVIOUS
<1>2. PICK less : less = Set(f, from, x) OBVIOUS
<1>3. PICK y : y = At(less, to) + n OBVIOUS
<1>4. Moved(f, from, to, n) = Set(less, to, y) BY <1>1, <1>2, <1>3 DEF Moved
<1>5. DOMAIN less = DOMAIN f \cup {from} BY <1>2, SetDomain
<1>6. DOMAIN Set(less, to, y) = DOMAIN less \cup {to} BY SetDomain
<1> QED BY <1>4, <1>5, <1>6

LEMMA OpenCosts ==
    ASSUME NEW L, IsLedger(L), Funded(L), NEW from, NEW to, Derived(to)
    PROVE  /\ from # relayer => Costs(L, OpenToken(L, from, to), 0)
           /\ Costs(L, OpenToken(L, from, to), TokenRent)
<1>1. TokenRent \in Nat BY LedgerAssumption DEF TokenRent, Rent
<1>2. PICK M : M = Pay(L, from, to, TokenRent) OBVIOUS
<1>3. /\ from # relayer => Costs(L, M, 0)
      /\ Costs(L, M, TokenRent)
  BY <1>1, <1>2, PayCosts
<1>4. IsLedger(M) /\ Funded(M) BY <1>3 DEF Costs
<1>5. PICK x : x = Set(M.tokens, to, 0) OBVIOUS
<1>6. PICK N : N = [M EXCEPT !.tokens = x] OBVIOUS
<1>7. N.tokens = x /\ N.lamports = M.lamports /\ N.links = M.links /\ N.locks = M.locks
  BY <1>4, <1>6 DEF IsLedger, LedgerFields
<1>8. IsLedger(N)
  <2>1. N = [M EXCEPT !["tokens"] = x] /\ "tokens" \in LedgerFields \ {"ok", "why", "feed"} BY <1>6 DEF LedgerFields
  <2> QED BY <1>4, <2>1, FieldKept
<1>9. DOMAIN x = DOMAIN M.tokens \cup {to} BY <1>5, SetDomain
<1>10. \A a \in DOMAIN N.tokens \cup DOMAIN N.links \cup DOMAIN N.locks : Derived(a)
  BY <1>4, <1>7, <1>9, FundedIs
<1>11. Costs(M, N, 0) BY <1>4, <1>7, <1>8, <1>10, KeepingCosts
<1>12. /\ from # relayer => Costs(L, N, 0)
       /\ Costs(L, N, TokenRent)
  <2>1. 0 \in Nat /\ 0 + 0 = 0 /\ TokenRent + 0 = TokenRent BY <1>1
  <2> QED BY <1>1, <1>3, <1>11, <2>1, CostsTrans
<1>13. OpenToken(L, from, to) \in {M, N} BY <1>2, <1>5, <1>6 DEF OpenToken
<1> QED BY <1>3, <1>12, <1>13

LEMMA MoveCosts ==
    ASSUME NEW L, IsLedger(L), Funded(L), NEW from, NEW to, NEW n
    PROVE  Costs(L, MoveTokens(L, from, to, n), 0)
<1>1. Costs(L, Refuse(L, "no account"), 0) /\ Costs(L, Refuse(L, "funds"), 0) BY RefuseCosts
<1>2. PICK x : x = Moved(L.tokens, from, to, n) OBVIOUS
<1>3. PICK y : y = IF Native(from) THEN Moved(L.lamports, from, to, n) ELSE L.lamports OBVIOUS
<1>4. PICK M : M = [L EXCEPT !.tokens = x, !.lamports = y] OBVIOUS
<1>5. \/ MoveTokens(L, from, to, n) \in {Refuse(L, "no account"), Refuse(L, "funds")}
      \/ /\ MoveTokens(L, from, to, n) = M
         /\ {from, to} \subseteq DOMAIN L.tokens
         /\ Native(from) => n \in 0 .. At(L.lamports, from)
  BY <1>2, <1>3, <1>4 DEF MoveTokens
<1>6. ASSUME MoveTokens(L, from, to, n) = M, {from, to} \subseteq DOMAIN L.tokens,
             Native(from) => n \in 0 .. At(L.lamports, from)
      PROVE  Costs(L, M, 0)
  <2>1. M.lamports = y /\ M.tokens = x /\ M.links = L.links /\ M.locks = L.locks
    BY <1>4 DEF IsLedger, LedgerFields
  <2>2. IsLedger(M) BY <1>6, MoveKeeps DEF Grows
  <2>3. from # relayer BY <1>6, FundedIs, RelayerIsKey
  <2>4. Counted(L.lamports) /\ At(L.lamports, relayer) \in Nat BY FundedIs, AtCounted
  <2>5. Counted(y) /\ At(y, relayer) >= At(L.lamports, relayer)
    <3>1. CASE Native(from) BY <1>3, <1>6, <2>3, <2>4, <3>1, MovedCounted
    <3>2. CASE ~Native(from) BY <1>3, <2>4, <3>2
    <3> QED BY <3>1, <3>2
  <2>6. DOMAIN x = DOMAIN L.tokens
    <3>1. PICK f : f = L.tokens OBVIOUS
    <3>2. x = Moved(f, from, to, n) BY <1>2, <3>1
    <3>3. {from, to} \subseteq DOMAIN f => DOMAIN Moved(f, from, to, n) = DOMAIN f BY MovedDomain
    <3> QED BY <1>6, <3>1, <3>2, <3>3
  <2>7. \A a \in DOMAIN M.tokens \cup DOMAIN M.links \cup DOMAIN M.locks : Derived(a)
    BY <2>1, <2>6, FundedIs
  <2>8. At(y, relayer) \in Nat BY <2>5, AtCounted
  <2>9. At(M.lamports, relayer) + 0 >= At(L.lamports, relayer) BY <2>1, <2>4, <2>5, <2>8
  <2> QED BY <2>1, <2>2, <2>5, <2>7, <2>9, CostsIs
<1> QED BY <1>1, <1>5, <1>6

LEMMA AllMoved ==
    ASSUME NEW f, Counted(f), NEW from, NEW to, from # relayer
    PROVE  /\ Counted(Moved(f, from, to, At(f, from)))
           /\ At(Moved(f, from, to, At(f, from)), relayer) + 0 >= At(f, relayer)
<1>1. PICK n : n = At(f, from) OBVIOUS
<1>2. n \in Nat BY <1>1, AtCounted
<1>3. n \in 0 .. At(f, from) BY <1>1, <1>2
<1>4. Counted(Moved(f, from, to, n)) /\ At(Moved(f, from, to, n), relayer) >= At(f, relayer)
  BY <1>3, MovedCounted
<1>5. At(Moved(f, from, to, n), relayer) \in Nat /\ At(f, relayer) \in Nat BY <1>4, AtCounted
<1>6. At(Moved(f, from, to, n), relayer) + 0 >= At(f, relayer) BY <1>4, <1>5
<1> QED BY <1>1, <1>4, <1>6

LEMMA CloseCosts ==
    ASSUME NEW L, IsLedger(L), Funded(L), NEW account, NEW to
    PROVE  Costs(L, CloseToken(L, account, to), 0)
<1>1. Costs(L, Refuse(L, "no account"), 0) /\ Costs(L, Refuse(L, "not empty"), 0) BY RefuseCosts
<1>2. PICK x : x = Moved(L.lamports, account, to, At(L.lamports, account)) OBVIOUS
<1>3. PICK y : y = Without(L.tokens, account) OBVIOUS
<1>4. PICK M : M = [L EXCEPT !.lamports = x, !.tokens = y] OBVIOUS
<1>5. \/ CloseToken(L, account, to) \in {Refuse(L, "no account"), Refuse(L, "not empty")}
      \/ CloseToken(L, account, to) = M /\ account \in DOMAIN L.tokens
  BY <1>2, <1>3, <1>4 DEF CloseToken
<1>6. ASSUME CloseToken(L, account, to) = M, account \in DOMAIN L.tokens
      PROVE  Costs(L, M, 0)
  <2>1. M.lamports = x /\ M.tokens = y /\ M.links = L.links /\ M.locks = L.locks
    BY <1>4 DEF IsLedger, LedgerFields
  <2>2. IsLedger(M) BY <1>6, CloseKeeps DEF Grows
  <2>3. account # relayer BY <1>6, FundedIs, RelayerIsKey
  <2>4. Counted(L.lamports) BY FundedIs
  <2>5. Counted(x) /\ At(x, relayer) + 0 >= At(L.lamports, relayer) BY <1>2, <2>3, <2>4, AllMoved
  <2>6. DOMAIN y \subseteq DOMAIN L.tokens BY <1>3 DEF Without
  <2>7. \A a \in DOMAIN M.tokens \cup DOMAIN M.links \cup DOMAIN M.locks : Derived(a)
    BY <2>1, <2>6, FundedIs
  <2> QED BY <2>1, <2>2, <2>5, <2>7, CostsIs
<1> QED BY <1>1, <1>5, <1>6

(* A step that takes nothing from the relayer, and opens nothing at a key. *)
Aside(s) ==
    /\ s.do \in {"pay", "open", "wipe"} => s.from # relayer
    /\ s.do \in {"open", "link", "lock"} => Derived(s.to)
AllAside(steps) == IsList(steps) /\ \A i \in 1 .. Len(steps) : Aside(steps[i])

LEMMA StoreCosts ==
    ASSUME NEW L, IsLedger(L), Funded(L), NEW f \in {"tokens", "links", "locks", "nfts", "feed"}, NEW x,
           NEW M, IsLedger(M), M = [L EXCEPT ![f] = x],
           f \in {"tokens", "links", "locks"} => \A a \in DOMAIN x : Derived(a)
    PROVE  Costs(L, M, 0)
<1>1. f \in LedgerFields /\ f # "lamports" BY DEF LedgerFields
<1>2. /\ M[f] = x /\ M.lamports = L.lamports
      /\ \A g \in {"tokens", "links", "locks"} : g # f => M[g] = L[g]
  BY <1>1 DEF IsLedger, LedgerFields
<1>3. \A g \in {"tokens", "links", "locks"} : \A a \in DOMAIN L[g] : Derived(a) BY FundedIs
<1>4. \A g \in {"tokens", "links", "locks"} : \A a \in DOMAIN M[g] : Derived(a)
  BY <1>2, <1>3
<1>5. \A a \in DOMAIN M.tokens \cup DOMAIN M.links \cup DOMAIN M.locks : Derived(a) BY <1>4
<1> QED BY <1>2, <1>5, KeepingCosts

LEMMA WipeCosts ==
    ASSUME NEW L, IsLedger(L), Funded(L), NEW from, from # relayer, NEW to, NEW M,
           M = [L EXCEPT !.lamports = Moved(@, from, to, At(L.lamports, from)),
                         !.links = Without(@, from), !.locks = Without(@, from)],
           IsLedger(M)
    PROVE  Costs(L, M, 0)
<1>1. PICK x : x = Moved(L.lamports, from, to, At(L.lamports, from)) OBVIOUS
<1>2. PICK y, z : y = Without(L.links, from) /\ z = Without(L.locks, from) OBVIOUS
<1>3. M.lamports = x /\ M.links = y /\ M.locks = z /\ M.tokens = L.tokens
  BY <1>1, <1>2 DEF IsLedger, LedgerFields
<1>4. Counted(L.lamports) BY FundedIs
<1>5. Counted(x) /\ At(x, relayer) + 0 >= At(L.lamports, relayer) BY <1>1, <1>4, AllMoved
<1>6. DOMAIN y \subseteq DOMAIN L.links /\ DOMAIN z \subseteq DOMAIN L.locks BY <1>2 DEF Without
<1>7. \A a \in DOMAIN M.tokens \cup DOMAIN M.links \cup DOMAIN M.locks : Derived(a)
  BY <1>3, <1>6, FundedIs
<1> QED BY <1>3, <1>5, <1>7, CostsIs

LEMMA SetAtDerived ==
    ASSUME NEW f, \A a \in DOMAIN f : Derived(a), NEW to, Derived(to), NEW v
    PROVE  \A a \in DOMAIN Set(f, to, v) : Derived(a)
BY DEF Set

LEMMA DoCosts ==
    ASSUME NEW L, IsLedger(L), Funded(L), NEW s, StepOK(s), Aside(s)
    PROVE  Costs(L, Do(L, s), 0)
<1>0. L.ok \in BOOLEAN /\ IsLedger(Do(L, s)) BY DoKeeps DEF IsLedger, Grows
<1>1. CASE ~L.ok
  <2>1. Do(L, s) = L BY <1>1 DEF Do
  <2> QED BY <2>1, CostsNothing
<1>2. CASE L.ok
  <2>0. PICK M : M = Do(L, s) OBVIOUS
  <2>1. CASE s.do = "pay"
    <3>1. Do(L, s) = Pay(L, s.from, s.to, s.n) BY <1>2, <2>1 DEF Do
    <3> QED BY <2>1, <3>1, PayCosts DEF Aside
  <2>2. CASE s.do = "open"
    <3>1. Do(L, s) = OpenToken(L, s.from, s.to) BY <1>2, <2>2 DEF Do
    <3> QED BY <2>2, <3>1, OpenCosts DEF Aside
  <2>3. CASE s.do = "move"
    <3>1. Do(L, s) = MoveTokens(L, s.from, s.to, s.n) BY <1>2, <2>3 DEF Do
    <3> QED BY <3>1, MoveCosts
  <2>4. CASE s.do = "close"
    <3>1. Do(L, s) = CloseToken(L, s.from, s.to) BY <1>2, <2>4 DEF Do
    <3> QED BY <3>1, CloseCosts
  <2>5. CASE s.do = "sync"
    <3>1. PICK x : x = [L.tokens EXCEPT ![s.to] = L.lamports[s.to] - TokenRent] OBVIOUS
    <3>2. M = [L EXCEPT !["tokens"] = x] BY <1>2, <2>0, <2>5, <3>1 DEF Do
    <3>3. \A a \in DOMAIN x : Derived(a) BY <3>1, FundedIs
    <3> QED BY <1>0, <2>0, <3>2, <3>3, StoreCosts
  <2>6. CASE s.do = "link"
    <3>1. PICK x : x = Set(L.links, s.to, s.as) OBVIOUS
    <3>2. M = [L EXCEPT !["links"] = x] BY <1>2, <2>0, <2>6, <3>1 DEF Do
    <3>3. \A a \in DOMAIN x : Derived(a) BY <2>6, <3>1, FundedIs, SetAtDerived DEF Aside
    <3> QED BY <1>0, <2>0, <3>2, <3>3, StoreCosts
  <2>7. CASE s.do = "lock"
    <3>1. PICK x : x = Set(L.locks, s.to, s.as) OBVIOUS
    <3>2. M = [L EXCEPT !["locks"] = x] BY <1>2, <2>0, <2>7, <3>1 DEF Do
    <3>3. \A a \in DOMAIN x : Derived(a) BY <2>7, <3>1, FundedIs, SetAtDerived DEF Aside
    <3> QED BY <1>0, <2>0, <3>2, <3>3, StoreCosts
  <2>8. CASE s.do = "nft"
    <3>1. PICK x : x = Set(L.nfts, s.to, s.as) OBVIOUS
    <3>2. M = [L EXCEPT !["nfts"] = x] BY <1>2, <2>0, <2>8, <3>1 DEF Do
    <3> QED BY <1>0, <2>0, <3>2, StoreCosts
  <2>9. CASE s.do = "wipe"
    <3>1. M = [L EXCEPT !.lamports = Moved(@, s.from, s.to, At(L.lamports, s.from)),
                        !.links = Without(@, s.from), !.locks = Without(@, s.from)]
      BY <1>2, <2>0, <2>9 DEF Do
    <3>2. s.from # relayer BY <2>9 DEF Aside
    <3> QED BY <1>0, <2>0, <3>1, <3>2, WipeCosts
  <2>10. CASE s.do = "emit"
    <3>1. PICK x : x = Append(L.feed, s.as) OBVIOUS
    <3>2. M = [L EXCEPT !["feed"] = x] BY <1>2, <2>0, <2>10, <3>1 DEF Do
    <3> QED BY <1>0, <2>0, <3>2, StoreCosts
  <2>11. CASE s.do = "refuse"
    <3>1. Do(L, s) = Refuse(L, s.why) /\ s.why # "" BY <1>2, <2>11 DEF Do, StepOK
    <3> QED BY <3>1, RefuseCosts
  <2> QED BY <2>1, <2>2, <2>3, <2>4, <2>5, <2>6, <2>7, <2>8, <2>9, <2>10, <2>11 DEF StepOK, Dos
<1> QED BY <1>0, <1>1, <1>2

LEMMA RunCosts ==
    ASSUME NEW L, IsLedger(L), Funded(L), NEW steps, AllOK(steps), AllAside(steps)
    PROVE  Costs(L, Run(L, steps), 0)
<1>1. Len(steps) \in Nat BY ListIs DEF AllOK
<1>2. PICK f : /\ f[0] = L /\ Run(L, steps) = f[Len(steps)]
               /\ \A i \in 1 .. Len(steps) : f[i] = Do(f[i - 1], steps[i])
  BY ONLY <1>1, RunIs
<1> DEFINE S == {m \in Nat : m <= Len(steps) /\ ~Costs(L, f[m], 0)}
<1>3. S = {}
  <2>1. SUFFICES ASSUME S # {} PROVE FALSE OBVIOUS
  <2>2. PICK m \in S : \A k \in S : m <= k BY <2>1, LeastNat
  <2>3. m # 0 BY <1>2, <2>2, CostsNothing
  <2>4. m - 1 \in Nat /\ m - 1 \notin S /\ m \in 1 .. Len(steps) BY <1>1, <2>2, <2>3
  <2>5. Costs(L, f[m - 1], 0) BY <1>1, <2>2, <2>4
  <2>6. f[m] = Do(f[m - 1], steps[m]) /\ StepOK(steps[m]) /\ Aside(steps[m])
    BY <1>2, <2>4 DEF AllOK, AllAside
  <2>7. IsLedger(f[m - 1]) /\ Funded(f[m - 1]) BY <2>5 DEF Costs
  <2>8. Costs(f[m - 1], f[m], 0) BY <2>6, <2>7, DoCosts
  <2>9. 0 \in Nat /\ 0 + 0 = 0 OBVIOUS
  <2>10. Costs(L, f[m], 0) BY <2>5, <2>8, <2>9, CostsTrans
  <2> QED BY <2>2, <2>10
<1> QED BY <1>1, <1>2, <1>3

LEMMA AsideOne ==
    ASSUME NEW a, Aside(a)
    PROVE  AllAside(<<a>>)
BY Lists DEF AllAside

LEMMA AsideTwo ==
    ASSUME NEW a, NEW b, Aside(a), Aside(b)
    PROVE  AllAside(<<a, b>>)
<1>1. \A i \in 1 .. 2 : i = 1 \/ i = 2 OBVIOUS
<1> QED BY <1>1, Lists DEF AllAside

LEMMA AsideFour ==
    ASSUME NEW a, NEW b, NEW c, NEW d, Aside(a), Aside(b), Aside(c), Aside(d)
    PROVE  AllAside(<<a, b, c, d>>)
<1>1. \A i \in 1 .. 4 : i = 1 \/ i = 2 \/ i = 3 \/ i = 4 OBVIOUS
<1> QED BY <1>1, Lists DEF AllAside

LEMMA AsideConcat ==
    ASSUME NEW s, NEW t, AllAside(s), AllAside(t)
    PROVE  AllAside(s \o t)
<1>1. IsList(s) /\ IsList(t) BY DEF AllAside
<1>2. Len(s) \in Nat /\ Len(t) \in Nat BY <1>1, ListIs
<1>3. IsList(s \o t) /\ Len(s \o t) = Len(s) + Len(t) BY <1>1, ListConcat
<1>4. \A i \in 1 .. Len(s) : (s \o t)[i] = s[i] BY <1>1, ListConcat
<1>5. \A i \in 1 .. Len(t) : (s \o t)[Len(s) + i] = t[i] BY <1>1, ListConcat
<1>6. \A i \in 1 .. Len(s) + Len(t) : Aside((s \o t)[i])
  <2> TAKE i \in 1 .. Len(s) + Len(t)
  <2>1. CASE i <= Len(s) BY <1>2, <1>4, <2>1 DEF AllAside
  <2>2. CASE ~(i <= Len(s))
    <3>1. PICK j \in 1 .. Len(t) : i = Len(s) + j
      <4>1. i - Len(s) \in 1 .. Len(t) /\ i = Len(s) + (i - Len(s)) BY <1>2, <2>2
      <4> QED BY <4>1
    <3> QED BY <1>5, <3>1 DEF AllAside
  <2> QED BY <2>1, <2>2
<1> QED BY <1>3, <1>6 DEF AllAside

LEMMA AsideNone ==
    /\ AllAside(<<>>)
    /\ \A why : AllAside(Fail(why))
<1>1. AllAside(<<>>) BY Lists DEF AllAside
<1>2. ASSUME NEW why
      PROVE  AllAside(Fail(why))
  <2>1. PICK a : a = [do |-> "refuse", why |-> why] OBVIOUS
  <2>2. Aside(a) BY <2>1 DEF Aside
  <2>3. Fail(why) = <<a>> BY <2>1 DEF Fail
  <2> QED BY <2>2, <2>3, AsideOne
<1> QED BY <1>1, <1>2

LEMMA StepAside ==
    ASSUME NEW from, NEW to, NEW n
    PROVE  /\ from # relayer => Aside(Step("pay", from, to, n)) /\ Aside(Step("wipe", from, to, n))
           /\ from # relayer /\ Derived(to) => Aside(Step("open", from, to, n))
           /\ Aside(Step("move", from, to, n)) /\ Aside(Step("close", from, to, n))
           /\ Aside(Step("sync", from, to, n))
BY DEF Aside, Step

LEMMA StoreAside ==
    ASSUME NEW to, NEW x
    PROVE  /\ Derived(to) => Aside(Store("link", to, x)) /\ Aside(Store("lock", to, x))
           /\ Aside(Store("nft", to, x)) /\ Aside(Store("emit", to, x))
BY DEF Aside, Store

(* Whoever must sign an instruction is not the relayer. *)
SignedByOthers(ix) == \A name \in SignerNames(ix) : ix.accounts[name] # relayer

LEMMA SystemAside ==
    ASSUME NEW L, NEW ix, SignedByOthers(ix), ix.program \in {"system", "token", "ata"}
    PROVE  AllAside(SystemSteps(L, ix))
<1> DEFINE a == ix.accounts
<1>1. ix.op = "transfer" => AllAside(<<Step("pay", a.from, a.to, ix.args.lamports)>>)
  <2>1. ix.op = "transfer" => "from" \in SignerNames(ix) BY DEF SignerNames
  <2>2. ix.op = "transfer" => a.from # relayer BY <2>1 DEF SignedByOthers
  <2> QED BY <2>2, StepAside, AsideOne
<1>2. ix.op = "create_idempotent" /\ Derived(a.ata)
        => AllAside(When(a.ata \notin DOMAIN L.tokens, <<Step("open", a.payer, a.ata, 0)>>))
  <2>1. ix.op = "create_idempotent" => "payer" \in SignerNames(ix) BY DEF SignerNames
  <2>2. ix.op = "create_idempotent" => a.payer # relayer BY <2>1 DEF SignedByOthers
  <2>3. ix.op = "create_idempotent" /\ Derived(a.ata) => AllAside(<<Step("open", a.payer, a.ata, 0)>>)
    BY <2>2, StepAside, AsideOne
  <2> QED BY <2>3, AsideNone DEF When
<1>3. AllAside(<<Step("move", a.source, a.destination, ix.args.amount)>>) BY StepAside, AsideOne
<1>4. AllAside(<<Step("sync", a.account, a.account, 0)>>) BY StepAside, AsideOne
<1>5. AllAside(<<Step("close", a.account, a.destination, 0)>>) BY StepAside, AsideOne
<1>6. AllAside(Fail("program")) BY AsideNone
<1> QED BY <1>1, <1>2, <1>3, <1>4, <1>5, <1>6 DEF SystemSteps

LEMMA NftAside ==
    ASSUME NEW L, NEW ix, SignedByOthers(ix), ix.program = "core"
    PROVE  AllAside(NftSteps(L, ix))
<1> DEFINE a == ix.accounts
<1>1. "payer" \in SignerNames(ix) BY DEF SignerNames
<1>2. a.payer # relayer BY <1>1 DEF SignedByOthers
<1>3. AllAside(<<Step("pay", a.payer, a.asset, Rent(NftBytes(ix.args.name))), Store("nft", a.asset, a.payer)>>)
  BY <1>2, StepAside, StoreAside, AsideTwo
<1>4. AllAside(<<Store("nft", a.asset, a.new_owner)>>) BY StoreAside, AsideOne
<1>5. AllAside(Fail("program")) BY AsideNone
<1> QED BY <1>3, <1>4, <1>5 DEF NftSteps

LEMMA CreateLinkAside ==
    ASSUME NEW L, NEW ix, SignedByOthers(ix), ix.program \notin {"core", "system", "token", "ata"},
           ix.op \in {"create_sol_link", "create_token_link"}
    PROVE  AllAside(CreateLinkSteps(L, ix))
<1> DEFINE a == ix.accounts
<1>1. "sender" \in SignerNames(ix) BY DEF SignerNames, IdlSigners
<1>2. a.sender # relayer BY <1>1 DEF SignedByOthers
<1>3. PICK sol \in BOOLEAN : sol = (ix.op = "create_sol_link") OBVIOUS
<1>4. PICK link : link = [sender |-> a.sender, claimKey |-> a.claim_key,
                          mint |-> IF sol THEN NoMint ELSE a.mint[1],
                          amount |-> ix.args.amount, expiry |-> ix.args.expiry]
  OBVIOUS
<1>5. PICK first : first = <<Step("pay", a.sender, a.claim, LinkRent), Store("link", a.claim, link)>> OBVIOUS
<1>6. PICK rest : rest = IF sol THEN <<Step("pay", a.sender, a.claim, ix.args.amount)>>
                         ELSE <<Step("open", a.sender, a.vault, 0),
                                Step("move", a.sender_token, a.vault, ix.args.amount)>>
  OBVIOUS
<1>7. \/ CreateLinkSteps(L, ix) = Fail("program")
      \/ /\ CreateLinkSteps(L, ix) = first \o rest
         /\ Derived(a.claim) /\ (~sol => Derived(a.vault))
  BY <1>3, <1>4, <1>5, <1>6 DEF CreateLinkSteps
<1>8. ASSUME Derived(a.claim), ~sol => Derived(a.vault)
      PROVE  AllAside(first \o rest)
  <2>1. AllAside(first) BY <1>2, <1>5, <1>8, StepAside, StoreAside, AsideTwo
  <2>2. sol => AllAside(rest) BY <1>2, <1>6, StepAside, AsideOne
  <2>3. ~sol => AllAside(rest) BY <1>2, <1>6, <1>8, StepAside, AsideTwo
  <2> QED BY <2>1, <2>2, <2>3, AsideConcat
<1> QED BY <1>7, <1>8, AsideNone

(* A claim or a refund takes what it pays from the link and its vault. *)
LEMMA SettleLinkAside ==
    ASSUME NEW L, Funded(L), NEW ix
    PROVE  AllAside(SettleLinkSteps(L, ix))
<1> DEFINE a == ix.accounts
           claims == ix.op \in {"claim_sol_link", "claim_token_link"}
           wipe == <<Step("wipe", a.claim, a.sender, 0)>>
           link == L.links[a.claim]
<1>1. PICK token : token = IF claims THEN a.recipient_token ELSE a.sender_token OBVIOUS
<1>2. PICK pay, move : /\ pay = When(claims, <<Step("pay", a.claim, a.recipient, link.amount)>>)
                       /\ move = <<Step("move", a.vault, token, At(L.tokens, a.vault)),
                                   Step("close", a.vault, a.sender, 0)>>
  OBVIOUS
<1>3. \/ SettleLinkSteps(L, ix) = Fail("program")
      \/ a.claim \in DOMAIN L.links /\ SettleLinkSteps(L, ix) \in {pay \o wipe, move \o wipe}
  BY <1>1, <1>2 DEF SettleLinkSteps
<1>4. ASSUME a.claim \in DOMAIN L.links
      PROVE  AllAside(pay \o wipe) /\ AllAside(move \o wipe)
  <2>1. a.claim # relayer BY <1>4, FundedIs, RelayerIsKey
  <2>2. AllAside(wipe) BY <2>1, StepAside, AsideOne
  <2>3. AllAside(<<Step("pay", a.claim, a.recipient, link.amount)>>) BY <2>1, StepAside, AsideOne
  <2>4. AllAside(pay) BY <1>2, <2>3, AsideNone DEF When
  <2>5. AllAside(move) BY <1>2, StepAside, AsideTwo
  <2> QED BY <2>2, <2>4, <2>5, AsideConcat
<1> QED BY <1>3, <1>4, AsideNone

LEMMA SwapAside ==
    ASSUME NEW L, NEW ix
    PROVE  AllAside(SwapSteps(L, ix))
<1>1. \A f, t, n, g, u, k : AllAside(<<Step("move", f, t, n), Step("move", g, u, k)>>)
  BY StepAside, AsideTwo
<1> QED BY <1>1, AsideNone DEF SwapSteps

LEMMA CreateLockAside ==
    ASSUME NEW L, NEW ix, SignedByOthers(ix), ix.program \notin {"core", "system", "token", "ata"},
           ix.op = "create_timelock"
    PROVE  AllAside(CreateLockSteps(L, ix))
<1> DEFINE a == ix.accounts
<1>1. "sender" \in SignerNames(ix) BY DEF SignerNames, IdlSigners
<1>2. a.sender # relayer BY <1>1 DEF SignedByOthers
<1>3. \A lock : Derived(a.timelock) /\ Derived(a.vault) =>
        AllAside(<<Step("pay", a.sender, a.timelock, LockRent), Step("open", a.sender, a.vault, 0),
                   Step("move", a.sender_token, a.vault, ix.args.amount), Store("lock", a.timelock, lock)>>)
  BY <1>2, StepAside, StoreAside, AsideFour
<1> QED BY <1>3, AsideNone DEF CreateLockSteps

LEMMA EndingAside ==
    ASSUME NEW first, Aside(first), NEW over \in BOOLEAN, NEW vault, NEW at, Derived(at), NEW to, NEW lock
    PROVE  AllAside(<<first>> \o (IF over THEN <<Step("close", vault, to, 0), Step("wipe", at, to, 0)>>
                                  ELSE <<Store("lock", at, lock)>>))
<1>1. AllAside(<<first>>) BY AsideOne
<1>2. at # relayer BY RelayerIsKey
<1>3. AllAside(<<Step("close", vault, to, 0), Step("wipe", at, to, 0)>>) BY <1>2, StepAside, AsideTwo
<1>4. AllAside(<<Store("lock", at, lock)>>) BY StoreAside, AsideOne
<1> QED BY <1>1, <1>3, <1>4, AsideConcat

LEMMA WithdrawAside ==
    ASSUME NEW L, Funded(L), NEW ix
    PROVE  AllAside(WithdrawSteps(L, ix))
<1> DEFINE a == ix.accounts
           lock == L.locks[a.timelock]
           claimable == Monus(LockVested(lock, L.now), lock.withdrawn)
           over == LockVested(lock, L.now) >= lock.total
<1>1. PICK first : first = Step("move", a.vault, a.recipient_token,
                                IF over THEN At(L.tokens, a.vault) ELSE claimable) OBVIOUS
<1>2. Aside(first) BY <1>1, StepAside
<1>3. PICK less : less = [lock EXCEPT !.withdrawn = @ + claimable] OBVIOUS
<1>4. over \in BOOLEAN OBVIOUS
<1>5. PICK steps : steps = <<first>> \o (IF over THEN <<Step("close", a.vault, a.sender, 0), Step("wipe", a.timelock, a.sender, 0)>>
                          ELSE <<Store("lock", a.timelock, less)>>)
  OBVIOUS
<1>6. \/ WithdrawSteps(L, ix) = Fail("program")
      \/ WithdrawSteps(L, ix) = steps /\ a.timelock \in DOMAIN L.locks
  BY <1>1, <1>3, <1>5 DEF WithdrawSteps
<1>7. a.timelock \in DOMAIN L.locks => Derived(a.timelock) BY FundedIs
<1>8. Derived(a.timelock) => AllAside(steps) BY <1>2, <1>4, <1>5, EndingAside
<1> QED BY <1>6, <1>7, <1>8, AsideNone

LEMMA CancelAside ==
    ASSUME NEW L, Funded(L), NEW ix
    PROVE  AllAside(CancelSteps(L, ix))
<1> DEFINE a == ix.accounts
           lock == L.locks[a.timelock]
           vested == LockVested(lock, L.now)
           owed == Monus(vested, lock.withdrawn)
<1>1. PICK first : first = Step("move", a.vault, a.sender_token, Monus(At(L.tokens, a.vault), owed)) OBVIOUS
<1>2. Aside(first) BY <1>1, StepAside
<1>3. PICK frozen : frozen = [lock EXCEPT !.total = vested, !.start = Earlier(@, L.now),
                                          !.cliff = Earlier(@, L.now), !.end = L.now, !.cancellable = FALSE] OBVIOUS
<1>4. PICK over \in BOOLEAN : over = (owed = 0) OBVIOUS
<1>5. PICK steps : steps = <<first>> \o (IF over THEN <<Step("close", a.vault, a.sender, 0), Step("wipe", a.timelock, a.sender, 0)>>
                          ELSE <<Store("lock", a.timelock, frozen)>>)
  OBVIOUS
<1>6. \/ CancelSteps(L, ix) = Fail("program")
      \/ CancelSteps(L, ix) = steps /\ a.timelock \in DOMAIN L.locks
  BY <1>1, <1>3, <1>4, <1>5 DEF CancelSteps
<1>7. a.timelock \in DOMAIN L.locks => Derived(a.timelock) BY FundedIs
<1>8. Derived(a.timelock) => AllAside(steps) BY <1>2, <1>4, <1>5, EndingAside
<1> QED BY <1>6, <1>7, <1>8, AsideNone

LEMMA AllStepsAside ==
    ASSUME NEW L, Funded(L), NEW ix, SignedByOthers(ix)
    PROVE  AllAside(Steps(L, ix))
<1>1. AllAside(<<Store("emit", <<>>, ix.args)>>) BY StoreAside, AsideOne
<1>2. AllAside(Fail("program")) BY AsideNone
<1>3. CASE ix.program = "core"
  <2>1. Steps(L, ix) = NftSteps(L, ix) BY <1>3 DEF Steps
  <2> QED BY <1>3, <2>1, NftAside
<1>4. CASE ix.program \in {"system", "token", "ata"}
  <2>1. Steps(L, ix) = SystemSteps(L, ix) BY <1>4 DEF Steps
  <2> QED BY <1>4, <2>1, SystemAside
<1>5. CASE ix.program \notin {"core", "system", "token", "ata"}
  <2>1. ix.op \in {"create_sol_link", "create_token_link"} => AllAside(CreateLinkSteps(L, ix))
    BY <1>5, CreateLinkAside
  <2>2. ix.op = "create_timelock" => AllAside(CreateLockSteps(L, ix)) BY <1>5, CreateLockAside
  <2>3. /\ AllAside(SettleLinkSteps(L, ix)) /\ AllAside(SwapSteps(L, ix))
        /\ AllAside(WithdrawSteps(L, ix)) /\ AllAside(CancelSteps(L, ix))
    BY SettleLinkAside, SwapAside, WithdrawAside, CancelAside
  <2> QED BY <1>1, <1>2, <1>5, <2>1, <2>2, <2>3 DEF Steps, WalletSteps
<1> QED BY <1>3, <1>4, <1>5

-----------------------------------------------------------------------------
(* What an instruction and a list of them may take from the relayer.      *)

LEMMA ClaimSteps ==
    ASSUME NEW L, NEW ix, IsClaim(ix)
    PROVE  Steps(L, ix) = SettleLinkSteps(L, ix)
<1>1. ix.program = "wallet" BY DEF IsClaim
<1>2. Steps(L, ix) = WalletSteps(L, ix) BY <1>1 DEF Steps
<1>3. ix.op \in {"claim_sol_link", "claim_token_link"} BY DEF IsClaim
<1>4. WalletSteps(L, ix) = SettleLinkSteps(L, ix) BY <1>3 DEF WalletSteps
<1> QED BY <1>2, <1>4

LEMMA ExecuteAside ==
    ASSUME NEW L, IsLedger(L), Funded(L), NEW ix, relayer \notin ix.signers \/ IsClaim(ix)
    PROVE  Costs(L, Execute(L, ix), 0)
<1>0. AllOK(Steps(L, ix)) BY AllStepsOK
<1>1. CASE ~L.ok
  <2>1. Execute(L, ix) = L BY <1>1 DEF Execute
  <2> QED BY <2>1, CostsNothing
<1>2. CASE L.ok /\ Unsigned(ix)
  <2>1. Execute(L, ix) = Refuse(L, "signature") BY <1>2 DEF Execute
  <2>2. Costs(L, Refuse(L, "signature"), 0) BY RefuseCosts
  <2> QED BY <2>1, <2>2
<1>3. CASE L.ok /\ ~Unsigned(ix)
  <2>1. Execute(L, ix) = Run(L, Steps(L, ix)) BY <1>3 DEF Execute
  <2>2. CASE IsClaim(ix)
    <3>1. AllAside(Steps(L, ix)) BY <2>2, ClaimSteps, SettleLinkAside
    <3> QED BY <1>0, <2>1, <3>1, RunCosts
  <2>3. CASE relayer \notin ix.signers
    <3>1. SignedByOthers(ix) BY <1>3, <2>3 DEF Unsigned, SignedByOthers
    <3>2. AllAside(Steps(L, ix)) BY <3>1, AllStepsAside
    <3> QED BY <1>0, <2>1, <3>2, RunCosts
  <2> QED BY <2>2, <2>3
<1> QED BY <1>1, <1>2, <1>3 DEF IsLedger

(* To open an account takes its deposit, at most. *)
LEMMA OpeningCosts ==
    ASSUME NEW L, IsLedger(L), Funded(L), NEW ix, OpensAccount(ix)
    PROVE  Costs(L, Execute(L, ix), TokenRent)
<1>0. TokenRent \in Nat /\ 0 \in Nat /\ 0 <= TokenRent BY LedgerAssumption DEF TokenRent, Rent
<1>1. PICK ata, payer : ata = ix.accounts.ata /\ payer = ix.accounts.payer OBVIOUS
<1>2. PICK open : open = Step("open", payer, ata, 0) OBVIOUS
<1>3. ix.program = "ata" /\ ix.op = "create_idempotent" BY DEF OpensAccount
<1>4. Steps(L, ix) = SystemSteps(L, ix) BY <1>3 DEF Steps
<1>5. \/ Steps(L, ix) = Fail("program")
      \/ Steps(L, ix) = <<>>
      \/ Steps(L, ix) = <<open>> /\ Derived(ata)
  <2>1. CASE ~Derived(ata) BY <1>1, <1>3, <1>4, <2>1 DEF SystemSteps
  <2>2. CASE Derived(ata) BY <1>1, <1>2, <1>3, <1>4, <2>2 DEF SystemSteps, When
  <2> QED BY <2>1, <2>2
<1>6. Execute(L, ix) \in {L, Refuse(L, "signature"), Run(L, Steps(L, ix))} BY DEF Execute
<1>7. Execute(L, ix) # L /\ Execute(L, ix) # Refuse(L, "signature") => L.ok BY DEF Execute
<1>8. Costs(L, L, TokenRent) /\ Costs(L, Refuse(L, "signature"), TokenRent)
  <2>1. Costs(L, L, 0) /\ Costs(L, Refuse(L, "signature"), 0) BY CostsNothing, RefuseCosts
  <2> QED BY <1>0, <2>1, CostsLess
<1>9. ASSUME Steps(L, ix) = Fail("program") \/ Steps(L, ix) = <<>>
      PROVE  Costs(L, Run(L, Steps(L, ix)), TokenRent)
  <2>1. AllOK(Steps(L, ix)) /\ AllAside(Steps(L, ix)) BY <1>9, AllStepsOK, AsideNone
  <2>2. Costs(L, Run(L, Steps(L, ix)), 0) BY <2>1, RunCosts
  <2> QED BY <1>0, <2>2, CostsLess
<1>10. ASSUME Steps(L, ix) = <<open>>, Derived(ata), L.ok
       PROVE  Costs(L, Run(L, Steps(L, ix)), TokenRent)
  <2>1. Run(L, Steps(L, ix)) = Do(L, open) BY <1>10, RunOne
  <2>2. open.do = "open" /\ open.from = payer /\ open.to = ata BY <1>2 DEF Step
  <2>3. Do(L, open) = OpenToken(L, payer, ata) BY <1>10, <2>2 DEF Do
  <2> QED BY <1>10, <2>1, <2>3, OpenCosts
<1> QED BY <1>5, <1>6, <1>7, <1>8, <1>9, <1>10

LEMMA ExecuteAllAside ==
    ASSUME NEW L, IsLedger(L), Funded(L), NEW ixs, IsList(ixs),
           \A i \in 1 .. Len(ixs) : relayer \notin ixs[i].signers
    PROVE  Costs(L, ExecuteAll(L, ixs), 0)
<1>1. Len(ixs) \in Nat BY ListIs
<1>2. PICK f : /\ f[0] = L /\ ExecuteAll(L, ixs) = f[Len(ixs)]
               /\ \A i \in 1 .. Len(ixs) : f[i] = Execute(f[i - 1], ixs[i])
  BY ONLY <1>1, ExecuteAllIs
<1> DEFINE S == {m \in Nat : m <= Len(ixs) /\ ~Costs(L, f[m], 0)}
<1>3. S = {}
  <2>1. SUFFICES ASSUME S # {} PROVE FALSE OBVIOUS
  <2>2. PICK m \in S : \A k \in S : m <= k BY <2>1, LeastNat
  <2>3. m # 0 BY <1>2, <2>2, CostsNothing
  <2>4. m - 1 \in Nat /\ m - 1 \notin S /\ m \in 1 .. Len(ixs) BY <1>1, <2>2, <2>3
  <2>5. Costs(L, f[m - 1], 0) BY <1>1, <2>2, <2>4
  <2>6. f[m] = Execute(f[m - 1], ixs[m]) /\ relayer \notin ixs[m].signers BY <1>2, <2>4
  <2>7. IsLedger(f[m - 1]) /\ Funded(f[m - 1]) BY <2>5 DEF Costs
  <2>8. Costs(f[m - 1], f[m], 0) BY <2>6, <2>7, ExecuteAside
  <2>9. PICK M, N : M = f[m - 1] /\ N = f[m] OBVIOUS
  <2>10. Costs(L, M, 0) /\ Costs(M, N, 0) BY <2>5, <2>8, <2>9
  <2>11. Costs(L, N, 0 + 0) BY <2>10, CostsTrans
  <2> QED BY <2>2, <2>9, <2>11
<1> QED BY <1>1, <1>2, <1>3

(* What checkRelayTransaction lets the relayer sign. *)
Relayable(ixs) ==
    /\ Len(ixs) \in 1 .. 2
    /\ \A i \in 1 .. Len(ixs) : IsClaim(ixs[i]) \/ OpensAccount(ixs[i])
    /\ ~(Len(ixs) = 2 /\ OpensAccount(ixs[1]) /\ OpensAccount(ixs[2]))

LEMMA RelayableIs ==
    ASSUME NEW tx, IsList(tx.ixs), checkRelayTransaction(tx)
    PROVE  tx.payer = relayer /\ Relayable(tx.ixs)
<1>1. PICK ixs : ixs = tx.ixs OBVIOUS
<1>2. DOMAIN ixs = 1 .. Len(ixs) BY <1>1, ListIs
<1>3. /\ tx.payer = relayer /\ Len(ixs) \in 1 .. 2
      /\ \A i \in DOMAIN ixs : IsClaim(ixs[i]) \/ OpensAccount(ixs[i])
      /\ Cardinality({i \in DOMAIN ixs : OpensAccount(ixs[i])}) <= 1
  BY <1>1 DEF checkRelayTransaction, MAX_INSTRUCTIONS
<1>4. ASSUME Len(ixs) = 2, OpensAccount(ixs[1]), OpensAccount(ixs[2])
      PROVE  FALSE
  <2>1. {i \in DOMAIN ixs : OpensAccount(ixs[i])} = 1 .. 2 BY <1>2, <1>4
  <2>2. Cardinality(1 .. 2) = 2
    <3>1. 1 \in Int /\ 2 \in Int OBVIOUS
    <3>2. \A a, b \in Int : Cardinality(a .. b) = IF a > b THEN 0 ELSE b - a + 1 BY FS_Interval
    <3>3. Cardinality(1 .. 2) = IF 1 > 2 THEN 0 ELSE 2 - 1 + 1 BY <3>1, <3>2, Zenon
    <3> QED BY <3>3
  <2> QED BY <1>3, <2>1, <2>2
<1> QED BY <1>1, <1>2, <1>3, <1>4 DEF Relayable

LEMMA ExecuteAllRelayed ==
    ASSUME NEW L, IsLedger(L), Funded(L), NEW ixs, Relayable(ixs)
    PROVE  Costs(L, ExecuteAll(L, ixs), TokenRent)
<1>1. TokenRent \in Nat /\ 0 \in Nat /\ 0 <= TokenRent BY LedgerAssumption DEF TokenRent, Rent
<1>2. Len(ixs) = 1 \/ Len(ixs) = 2 BY DEF Relayable
<1>3. Len(ixs) \in Nat BY <1>2
<1>4. PICK f : /\ f[0] = L /\ ExecuteAll(L, ixs) = f[Len(ixs)]
               /\ \A i \in 1 .. Len(ixs) : f[i] = Execute(f[i - 1], ixs[i])
  BY ONLY <1>3, ExecuteAllIs
<1>5. PICK M : M = Execute(L, ixs[1]) OBVIOUS
<1>6. f[1] = M
  <2>1. 1 \in 1 .. Len(ixs) /\ 1 - 1 = 0 BY <1>2
  <2>2. f[1] = Execute(f[1 - 1], ixs[1]) BY <1>4, <2>1
  <2> QED BY <1>4, <1>5, <2>1, <2>2
<1>7. IsClaim(ixs[1]) \/ OpensAccount(ixs[1]) BY <1>2 DEF Relayable
<1>8. IsClaim(ixs[1]) => Costs(L, M, 0) BY <1>5, ExecuteAside
<1>9. OpensAccount(ixs[1]) => Costs(L, M, TokenRent) BY <1>5, OpeningCosts
<1>10. Costs(L, M, TokenRent) BY <1>1, <1>7, <1>8, <1>9, CostsLess
<1>11. CASE Len(ixs) = 1 BY <1>4, <1>6, <1>10, <1>11
<1>12. CASE Len(ixs) = 2
  <2>1. PICK N : N = Execute(M, ixs[2]) OBVIOUS
  <2>2. f[2] = N
    <3>1. 2 \in 1 .. Len(ixs) /\ 2 - 1 = 1 BY <1>12
    <3>2. f[2] = Execute(f[2 - 1], ixs[2]) BY <1>4, <3>1
    <3> QED BY <1>6, <2>1, <3>1, <3>2
  <2>3. IsLedger(M) /\ Funded(M) BY <1>10 DEF Costs
  <2>4. IsClaim(ixs[2]) \/ OpensAccount(ixs[2]) BY <1>12 DEF Relayable
  <2>5. IsClaim(ixs[2]) => Costs(M, N, 0) BY <2>1, <2>3, ExecuteAside
  <2>6. OpensAccount(ixs[2]) => Costs(M, N, TokenRent) BY <2>1, <2>3, OpeningCosts
  <2>7. IsClaim(ixs[1]) \/ IsClaim(ixs[2]) BY <1>7, <1>12, <2>4 DEF Relayable
  <2>8. 0 + TokenRent = TokenRent /\ TokenRent + 0 = TokenRent BY <1>1
  <2>9. CASE IsClaim(ixs[2])
    <3>1. Costs(L, N, TokenRent + 0) BY <1>1, <1>10, <2>5, <2>9, CostsTrans
    <3> QED BY <1>4, <1>12, <2>2, <2>8, <3>1
  <2>10. CASE ~IsClaim(ixs[2])
    <3>1. Costs(L, M, 0) /\ Costs(M, N, TokenRent) BY <1>8, <2>4, <2>6, <2>7, <2>10
    <3>2. Costs(L, N, 0 + TokenRent) BY <1>1, <3>1, CostsTrans
    <3> QED BY <1>4, <1>12, <2>2, <2>8, <3>2
  <2> QED BY <2>9, <2>10
<1> QED BY <1>2, <1>11, <1>12

(* The fee of a transaction. *)
Fee(tx) == NetworkFee({tx.payer} \cup tx.signed)

LEMMA FeeIs ==
    ASSUME NEW tx, IsFiniteSet(tx.signed)
    PROVE  /\ Fee(tx) \in Nat /\ Cardinality({tx.payer} \cup tx.signed) \in Nat
           /\ \A n \in Nat : Cardinality({tx.payer} \cup tx.signed) <= n => Fee(tx) <= n * SignatureFee
<1>1. PICK S : S = {tx.payer} \cup tx.signed OBVIOUS
<1>2. IsFiniteSet(S)
  <2>1. IsFiniteSet(tx.signed \cup {tx.payer}) BY FS_AddElement
  <2>2. S = tx.signed \cup {tx.payer} BY <1>1
  <2> QED BY <2>1, <2>2
<1>3. PICK c : c = Cardinality(S) OBVIOUS
<1>4. c \in Nat BY <1>2, <1>3, FS_CardinalityType
<1>5. Fee(tx) = c * SignatureFee BY <1>1, <1>3 DEF Fee, NetworkFee
<1>6. SignatureFee = 5000 BY DEF SignatureFee
<1>7. Fee(tx) \in Nat BY <1>4, <1>5, <1>6
<1>8. \A n \in Nat : c <= n => Fee(tx) <= n * SignatureFee
  <2> SUFFICES ASSUME NEW n \in Nat, c <= n PROVE Fee(tx) <= n * SignatureFee OBVIOUS
  <2>1. c * 5000 <= n * 5000 BY <1>4
  <2> QED BY <1>5, <1>6, <2>1
<1> QED BY <1>1, <1>3, <1>4, <1>7, <1>8

LEMMA ChargedCosts ==
    ASSUME NEW L, IsLedger(L), Funded(L), NEW tx, IsFiniteSet(tx.signed)
    PROVE  /\ tx.payer # relayer => Costs(L, Charged(L, tx.payer, tx.signed), 0)
           /\ Costs(L, Charged(L, tx.payer, tx.signed), Fee(tx))
<1>1. PICK payer, fee : payer = tx.payer /\ fee = Fee(tx) OBVIOUS
<1>2. Fee(tx) \in Nat BY FeeIs
<1>3. fee \in Nat /\ 0 \in Nat /\ 0 <= fee BY <1>1, <1>2
<1>4. PICK M : M = Charged(L, tx.payer, tx.signed) OBVIOUS
<1>5. IsLedger(M) BY <1>4, ChargedKeeps
<1>6. M = IF At(L.lamports, payer) < fee THEN Refuse(L, "funds")
          ELSE [L EXCEPT !.lamports[payer] = @ - fee]
  BY <1>1, <1>4 DEF Charged, Fee
<1>7. CASE At(L.lamports, payer) < fee
  <2>1. Costs(L, Refuse(L, "funds"), 0) BY RefuseCosts
  <2>2. M = Refuse(L, "funds") BY <1>6, <1>7
  <2>3. Costs(L, M, 0) BY <2>1, <2>2
  <2>4. Costs(L, M, fee) BY <1>3, <2>3, CostsLess
  <2> QED BY <1>1, <1>4, <2>3, <2>4
<1>8. CASE ~(At(L.lamports, payer) < fee)
  <2>1. PICK x : x = [L.lamports EXCEPT ![payer] = @ - fee] OBVIOUS
  <2>2. M = [L EXCEPT !.lamports = x] BY <1>6, <1>8, <2>1
  <2>3. M.lamports = x /\ M.tokens = L.tokens /\ M.links = L.links /\ M.locks = L.locks
    BY <2>2 DEF IsLedger, LedgerFields
  <2>4. PICK f : f = L.lamports OBVIOUS
  <2>5. Counted(f) BY <2>4, FundedIs
  <2>6. payer \in DOMAIN f => f[payer] \in Nat /\ f[payer] >= fee
    BY <1>3, <1>8, <2>4, <2>5 DEF At, Counted
  <2>7. DOMAIN x = DOMAIN f /\ \A a \in DOMAIN f : x[a] = IF a = payer THEN f[a] - fee ELSE f[a]
    BY <2>1, <2>4
  <2>8. Counted(x)
    <3>1. \A a \in DOMAIN f : x[a] \in Nat BY <1>3, <2>5, <2>6, <2>7 DEF Counted
    <3> QED BY <2>7, <3>1 DEF Counted
  <2>9. At(x, relayer) \in Nat /\ At(f, relayer) \in Nat BY <2>5, <2>8, AtCounted
  <2>10. \/ At(x, relayer) = At(f, relayer)
         \/ /\ payer = relayer
            /\ At(x, relayer) = At(f, relayer) - fee
    <3>1. CASE relayer \notin DOMAIN f
      <4>1. At(x, relayer) = 0 /\ At(f, relayer) = 0 BY <2>7, <3>1 DEF At
      <4> QED BY <4>1
    <3>2. CASE relayer \in DOMAIN f
      <4>1. At(x, relayer) = x[relayer] BY <2>7, <3>2 DEF At
      <4>2. At(f, relayer) = f[relayer] BY <3>2 DEF At
      <4>3. x[relayer] = IF relayer = payer THEN f[relayer] - fee ELSE f[relayer] BY <2>7, <3>2
      <4> QED BY <4>1, <4>2, <4>3
    <3> QED BY <3>1, <3>2
  <2>11. At(x, relayer) + fee >= At(f, relayer) BY <1>3, <2>9, <2>10
  <2>12. payer # relayer => At(x, relayer) + 0 >= At(f, relayer) BY <2>9, <2>10
  <2>13. \A a \in DOMAIN M.tokens \cup DOMAIN M.links \cup DOMAIN M.locks : Derived(a)
    BY <2>3, FundedIs
  <2>14. Counted(M.lamports) /\ At(M.lamports, relayer) + fee >= At(L.lamports, relayer)
    BY <2>3, <2>4, <2>8, <2>11
  <2>15. Costs(L, M, fee) BY <1>3, <1>5, <2>13, <2>14, CostsIs
  <2>16. ASSUME payer # relayer PROVE Costs(L, M, 0)
    <3>1. At(M.lamports, relayer) + 0 >= At(L.lamports, relayer) BY <2>3, <2>4, <2>12, <2>16
    <3> QED BY <1>3, <1>5, <2>13, <2>14, <3>1, CostsIs
  <2> QED BY <1>1, <1>4, <2>15, <2>16
<1> QED BY <1>7, <1>8

-----------------------------------------------------------------------------
(* Who spends what: a transaction that the relayer pays for or signs is    *)
(* one that checkRelayTransaction has let through.                         *)
RelayOK(tx) == Relayed(tx) => checkRelayTransaction(tx)
ClaimAllowance == 2 * SignatureFee + TokenRent
Allowance == MaxSignatures * SignatureFee + TokenRent

LEMMA AllowanceIs ==
    /\ SignatureFee \in Nat /\ MaxSignatures \in Nat /\ 2 <= MaxSignatures
    /\ TokenRent \in Nat /\ Allowance \in Nat /\ ClaimAllowance \in Nat
    /\ ClaimAllowance <= Allowance
<1>1. TokenRent \in Nat BY LedgerAssumption DEF TokenRent, Rent
<1>2. SignatureFee = 5000 BY DEF SignatureFee
<1>3. MaxSignatures = 1232 \div 96 BY DEF MaxSignatures, MAX_TRANSACTION_BYTES, SIGNER_BYTES
<1>4. MaxSignatures = 12 BY <1>3
<1> QED BY <1>1, <1>2, <1>4 DEF Allowance, ClaimAllowance

LEMMA RanCosts ==
    ASSUME NEW L, ChainOK(L), Funded(L), NEW tx, IsList(tx.ixs), IsFiniteSet(tx.signed),
           RelayOK(tx), Ran(L, tx).ok, NEW n \in Nat, Relayed(tx) => Fee(tx) + TokenRent <= n
    PROVE  Costs(L, Ran(L, tx), n)
<1>1. IsLedger(L) BY DEF ChainOK
<1>2. PICK payer, signed, ixs : payer = tx.payer /\ signed = tx.signed /\ ixs = tx.ixs OBVIOUS
<1>3. PICK C, R : C = Charged(L, payer, signed) /\ R = ExecuteAll(C, ixs) OBVIOUS
<1>4. PICK N : N = Ran(L, tx) OBVIOUS
<1>5. /\ N = R
      /\ UNION {ixs[i].signers : i \in DOMAIN ixs} \subseteq {payer} \cup signed
  <2>1. N = Transaction(L, payer, signed, ixs) BY <1>2, <1>4 DEF Ran
  <2>2. IsLedger(C) BY <1>1, <1>3, ChargedKeeps
  <2>3. IsLedger(R) BY <1>2, <1>3, <2>2, ExecuteAllKeeps DEF Grows
  <2>4. /\ Refuse(L, "signature").ok = FALSE
        /\ Refuse(R, "payer dust").ok = FALSE /\ Refuse(R, "dust").ok = FALSE
    BY <1>1, <2>3, RefuseKept
  <2> QED BY <1>3, <1>4, <2>1, <2>4 DEF Transaction
<1>6. /\ payer # relayer => Costs(L, C, 0)
      /\ Costs(L, C, Fee(tx))
  BY <1>1, <1>2, <1>3, ChargedCosts
<1>7. IsLedger(C) /\ Funded(C) BY <1>6 DEF Costs
<1>8. CASE ~Relayed(tx)
  <2>1. relayer \notin {payer} \cup signed BY <1>2, <1>8 DEF Relayed
  <2>2. DOMAIN ixs = 1 .. Len(ixs) BY <1>2, ListIs
  <2>3. \A i \in 1 .. Len(ixs) : relayer \notin ixs[i].signers
    <3> TAKE i \in 1 .. Len(ixs)
    <3>1. ixs[i].signers \subseteq {payer} \cup signed BY <1>5, <2>2
    <3> QED BY <2>1, <3>1
  <2>4. Costs(C, R, 0) BY <1>2, <1>3, <1>7, <2>3, ExecuteAllAside
  <2>5. Costs(L, C, 0) BY <1>6, <2>1
  <2>6. Costs(L, R, 0 + 0) BY <2>4, <2>5, CostsTrans
  <2>7. 0 + 0 \in Nat /\ 0 + 0 <= n OBVIOUS
  <2> QED BY <1>4, <1>5, <2>6, <2>7, CostsLess
<1>9. CASE Relayed(tx)
  <2>1. Relayable(ixs) BY <1>2, <1>9, RelayableIs DEF RelayOK
  <2>2. Costs(C, R, TokenRent) BY <1>3, <1>7, <2>1, ExecuteAllRelayed
  <2>3. PICK fee, rent : fee = Fee(tx) /\ rent = TokenRent OBVIOUS
  <2>4. Fee(tx) \in Nat /\ TokenRent \in Nat BY FeeIs, AllowanceIs
  <2>5. fee \in Nat /\ rent \in Nat /\ fee + rent \in Nat /\ fee + rent <= n
    BY <1>9, <2>3, <2>4
  <2>6. Costs(L, C, fee) /\ Costs(C, R, rent) BY <1>6, <2>2, <2>3
  <2>7. Costs(L, R, fee + rent) BY <2>5, <2>6, CostsTrans
  <2>8. Costs(L, R, n) BY <2>5, <2>7, CostsLess
  <2> QED BY <1>4, <1>5, <2>8
<1> QED BY <1>8, <1>9

LEMMA OnlyChargedCosts ==
    ASSUME NEW L, ChainOK(L), Funded(L), NEW tx, IsFiniteSet(tx.signed),
           NEW n \in Nat, Relayed(tx) => Fee(tx) <= n
    PROVE  Costs(L, OnlyCharged(L, tx), n)
<1>0. IsLedger(L) BY DEF ChainOK
<1>1. PICK C : C = Charged(L, tx.payer, tx.signed) OBVIOUS
<1>2. Costs(L, L, 0) /\ 0 \in Nat /\ 0 <= n BY <1>0, CostsNothing
<1>3. Costs(L, L, n) BY <1>2, CostsLess
<1>4. /\ tx.payer # relayer => Costs(L, C, 0)
      /\ Costs(L, C, Fee(tx)) /\ Fee(tx) \in Nat
  BY <1>0, <1>1, ChargedCosts, FeeIs
<1>5. Costs(L, C, n)
  <2>1. CASE tx.payer = relayer
    <3>1. Fee(tx) <= n BY <2>1 DEF Relayed
    <3> QED BY <1>4, <3>1, CostsLess
  <2>2. CASE tx.payer # relayer BY <1>2, <1>4, <2>2, CostsLess
  <2> QED BY <2>1, <2>2
<1> QED BY <1>1, <1>3, <1>5 DEF OnlyCharged

(* What is broadcast has passed the rules of the relayer if it needs it.   *)
LEMMA PairIs ==
    ASSUME NEW p, NEW q
    PROVE  DOMAIN <<p, q>> = 1 .. 2 /\ Len(<<p, q>>) = 2 /\ <<p, q>>[1] = p /\ <<p, q>>[2] = q
OBVIOUS

LEMMA BlockerIs ==
    ASSUME NEW blocks, NEW why
    PROVE  <<blocks, why>>[1] = blocks /\ <<blocks, why>>[2] = why
OBVIOUS

LEMMA OneOrTwo == 2 \in Nat /\ 1 \in 1 .. 2 /\ \A i \in 1 .. 2 : i = 1 \/ i = 2
OBVIOUS

LEMMA NeitherBlocks ==
    ASSUME NEW p, NEW q, p[2] # "", q[2] # "", NEW s, s = <<p, q>>, FirstOf(s) = ""
    PROVE  ~p[1]
<1>1. DOMAIN s = 1 .. 2 /\ Len(s) = 2 /\ s[1] = p /\ s[2] = q BY PairIs, Zenon
<1>2. \A i \in 1 .. 2 : s[i][2] # "" BY <1>1, OneOrTwo, Zenon
<1>3. 2 \in Nat /\ 1 \in 1 .. 2 BY OneOrTwo, Zenon
<1>4. \A i \in 1 .. Len(s) : ~s[i][1] BY ONLY <1>1, <1>2, <1>3, FirstOf(s) = "", NoBlocker
<1>5. ~s[1][1] BY <1>1, <1>3, <1>4, Zenon
<1> QED BY <1>1, <1>5, Zenon

LEMMA LetThrough ==
    ASSUME NEW L, NEW tx, Refusal(L, tx) = ""
    PROVE  RelayOK(tx)
<1>1. SUFFICES ASSUME Relayed(tx) PROVE checkRelayTransaction(tx) BY DEF RelayOK
<1>2. relayRefusal(L, tx) = "" BY <1>1 DEF Refusal
<1>3. PICK p, q : /\ p = <<~checkRelayTransaction(tx), "policy">>
                   /\ q = <<At(L.lamports, relayer) < MIN_RELAYER_LAMPORTS, "out of funds">>
  OBVIOUS
<1>4. FirstOf(<<p, q>>) = "" BY <1>2, <1>3, Zenon DEF relayRefusal
<1>5. p[2] = "policy" /\ q[2] = "out of funds" BY <1>3, BlockerIs, Zenon
<1>6. p[2] # "" /\ q[2] # "" BY <1>5
<1>7. ~p[1] BY <1>4, <1>6, NeitherBlocks
<1>8. ~checkRelayTransaction(tx) => p[1] BY <1>3, BlockerIs, Zenon
<1> QED BY <1>7, <1>8

TxsOK(list) == \A i \in 1 .. Len(list) : RelayOK(list[i].tx)
RelayInv == Funded(chain) /\ TxsOK(sent)

LEMMA TxsSet ==
    ASSUME NEW list, IsList(list), TxsOK(list), NEW i \in 1 .. Len(list), NEW x, x.tx = list[i].tx,
           NEW next, OneSet(list, i, x, next)
    PROVE  TxsOK(next)
<1>1. next = [list EXCEPT ![i] = x] BY DEF OneSet
<1>2. Len(list) \in Nat /\ DOMAIN list = 1 .. Len(list) BY ListIs
<1>3. Len(next) = Len(list)
  <2>1. PICK S : S = Range(list) \cup {x} OBVIOUS
  <2>2. list \in Seq(S) /\ x \in S BY <2>1 DEF IsList
  <2> QED BY <1>1, <2>2
<1>4. \A k \in 1 .. Len(list) : next[k] = IF k = i THEN x ELSE list[k] BY <1>1, <1>2
<1>5. \A k \in 1 .. Len(list) : next[k].tx = list[k].tx BY <1>4
<1> QED BY <1>3, <1>5 DEF TxsOK

LEMMA TxsMore ==
    ASSUME NEW list, IsList(list), TxsOK(list), NEW x, RelayOK(x.tx)
    PROVE  TxsOK(Append(list, x))
<1>1. PICK next : next = Append(list, x) OBVIOUS
<1>2. Len(list) \in Nat BY ListIs
<1>3. /\ Len(next) = Len(list) + 1 /\ next[Len(list) + 1] = x
      /\ \A i \in 1 .. Len(list) : next[i] = list[i]
  BY <1>1, ListAppend
<1>4. \A i \in 1 .. Len(next) : i \in 1 .. Len(list) \/ i = Len(list) + 1 BY <1>2, <1>3
<1>5. \A i \in 1 .. Len(next) : RelayOK(next[i].tx) BY <1>3, <1>4 DEF TxsOK
<1> QED BY <1>1, <1>5 DEF TxsOK

LEMMA BroadcastTxs ==
    ASSUME PagesInv, RelayInv, NEW s \in Slots, Refusal(chain, job[s].tx) = "", Broadcast(s)
    PROVE  TxsOK(sent')
<1>1. PICK x : x = [terms |-> job[s].terms, tx |-> job[s].tx, status |-> "pending",
                    kept |-> FALSE, told |-> TRUE, seen |-> FALSE]
  OBVIOUS
<1>2. sent' = Append(sent, x) BY <1>1 DEF Broadcast
<1>3. RelayOK(job[s].tx) BY LetThrough
<1>4. RelayOK(x.tx) BY <1>1, <1>3
<1>5. IsList(sent) /\ TxsOK(sent) BY InvParts DEF RelayInv
<1> QED BY <1>2, <1>4, <1>5, TxsMore

(* A transaction that has been broadcast stays what it is. *)
LEMMA StatusTxs ==
    ASSUME PagesInv, RelayInv, NEW i \in DOMAIN sent, NEW x, x.tx = sent[i].tx,
           sent' = [sent EXCEPT ![i] = x]
    PROVE  TxsOK(sent')
<1>1. PICK list, next : list = sent /\ next = sent' OBVIOUS
<1>2. IsList(list) /\ TxsOK(list) /\ i \in 1 .. Len(list) BY <1>1, InvParts DEF RelayInv
<1>3. x.tx = list[i].tx /\ OneSet(list, i, x, next) BY <1>1 DEF OneSet
<1>4. TxsOK(next) BY <1>2, <1>3, TxsSet
<1> QED BY <1>1, <1>4

LEMMA TxsKept ==
    ASSUME PagesInv, RelayInv, [PagesNext]_vars
    PROVE  TxsOK(sent')
<1>1. IsList(sent) /\ TxsOK(sent) /\ DOMAIN sent = 1 .. Len(sent) BY InvParts DEF RelayInv
<1>2. CASE sent' = sent BY <1>1, <1>2
<1>3. \A i \in DOMAIN sent : DOMAIN sent[i] = {"terms", "tx", "status", "kept", "told", "seen"}
  BY <1>1, InvParts DEF AllSentOK, SentOK
<1>4. ASSUME NEW s \in Slots, GoesOn(s) \/ AnswerLost(s) \/ CallFails(s), sent' # sent
      PROVE  TxsOK(sent')
  <2>1. CASE Check(s) BY <1>4, <2>1 DEF Check
  <2>2. CASE Submit(s) BY <1>4, <2>2, BroadcastTxs DEF Submit
  <2>3. CASE Polled(s)
    <3>1. PICK i : i = job[s].at OBVIOUS
    <3>2. sent' = [sent EXCEPT ![i].seen = TRUE] BY <1>4, <2>3, <3>1 DEF Polled
    <3>3. JobOK(job[s], Len(sent)) /\ job[s].step = "confirming" BY <2>3, InvParts DEF Polled
    <3>4. i \in DOMAIN sent BY <1>1, <3>1, <3>3 DEF JobOK
    <3>5. PICK x : x = [sent[i] EXCEPT !.seen = TRUE] OBVIOUS
    <3>6. x.tx = sent[i].tx /\ sent' = [sent EXCEPT ![i] = x] BY <1>3, <3>2, <3>4, <3>5
    <3> QED BY <3>4, <3>6, StatusTxs
  <2>4. CASE AnswerLost(s) BY <2>4, BroadcastTxs DEF AnswerLost
  <2>5. CASE CallFails(s) BY <1>4, <2>5 DEF CallFails
  <2> QED BY <1>4, <2>1, <2>2, <2>3, <2>4, <2>5 DEF GoesOn
<1>5. ASSUME NEW i \in DOMAIN sent, Land(i) \/ Drop(i)
      PROVE  TxsOK(sent')
  <2>1. PICK y : y = sent[i] OBVIOUS
  <2>2. DOMAIN y = {"terms", "tx", "status", "kept", "told", "seen"} BY <1>3, <2>1
  <2>3. PICK kept, told : /\ kept = Kept(chain, Ran(chain, y.tx), y.terms)
                          /\ told = Listed(chain, Ran(chain, y.tx), y)
    OBVIOUS
  <2>4. PICK u, v, w : /\ u = [y EXCEPT !.status = "dropped"] /\ v = [y EXCEPT !.status = "failed"]
                       /\ w = [y EXCEPT !.status = "ok", !.kept = kept, !.told = told]
    OBVIOUS
  <2>5. u.tx = y.tx /\ v.tx = y.tx /\ w.tx = y.tx BY <2>2, <2>4
  <2>6. \/ sent' = [sent EXCEPT ![i] = u] \/ sent' = [sent EXCEPT ![i] = v]
        \/ sent' = [sent EXCEPT ![i] = w]
    BY <1>5, <2>1, <2>3, <2>4 DEF Land, Drop
  <2> QED BY <2>1, <2>5, <2>6, StatusTxs
<1>6. ASSUME NEW t \in OffersOf(cache.list), PressRow(t) PROVE sent' = sent
  BY <1>6 DEF PressRow, Start
<1>7. Fill \/ UseMax \/ Back \/ Reset \/ Refetch \/ Confirm \/ PressForm => sent' = sent
  BY DEF Fill, UseMax, Back, Reset, Refetch, Confirm, PressForm, Start
<1>8. SomebodyElse \/ Tick \/ UNCHANGED vars => sent' = sent BY DEF SomebodyElse, Tick, vars
<1> QED BY <1>2, <1>4, <1>5, <1>6, <1>7, <1>8 DEF PagesNext

(* Only the network moves the chain.  What the wallet has sent has two     *)
(* signatures at most, and what the relayer is handed by others as many as *)
(* checkRelayTransaction finds room for.                                   *)
LEMMA LandCosts ==
    ASSUME PagesInv, RelayInv, NEW i \in DOMAIN sent, Land(i)
    PROVE  Costs(chain, chain', ClaimAllowance)
<1>1. PICK L, tx : L = chain /\ tx = sent[i].tx OBVIOUS
<1>2. ChainOK(L) /\ Funded(L) BY <1>1, InvParts DEF RelayInv
<1>3. RelayOK(tx) BY <1>1, InvParts DEF RelayInv, TxsOK
<1>4. SentOK(sent[i], chain.feed) BY InvParts DEF AllSentOK
<1>5. IsList(tx.ixs) /\ SignersOK(tx) BY <1>1, <1>4 DEF SentOK, TxOK
<1>6. IsFiniteSet(tx.signed) /\ Cardinality({tx.payer} \cup tx.signed) <= 2 BY <1>5 DEF SignersOK
<1>7. Fee(tx) \in Nat /\ Fee(tx) <= 2 * SignatureFee
  <2>1. 2 \in Nat OBVIOUS
  <2> QED BY <1>6, <2>1, FeeIs
<1>8. Fee(tx) <= ClaimAllowance /\ Fee(tx) + TokenRent <= ClaimAllowance
  BY <1>7, AllowanceIs DEF ClaimAllowance
<1>9. PICK M, N : M = Ran(L, tx) /\ N = OnlyCharged(L, tx) OBVIOUS
<1>10. M.ok => Costs(L, M, ClaimAllowance)
  BY <1>2, <1>3, <1>5, <1>6, <1>8, <1>9, AllowanceIs, RanCosts
<1>11. Costs(L, N, ClaimAllowance) BY <1>2, <1>6, <1>8, <1>9, AllowanceIs, OnlyChargedCosts
<1>12. \/ M.ok /\ chain' = M
       \/ chain' = N
  BY <1>1, <1>9 DEF Land, ChainBecomes
<1> QED BY <1>1, <1>10, <1>11, <1>12

LEMMA SomebodyElseCosts ==
    ASSUME PagesInv, RelayInv, SomebodyElse
    PROVE  Costs(chain, chain', Allowance)
<1>1. PICK L : L = chain OBVIOUS
<1>2. ChainOK(L) /\ Funded(L) BY <1>1, InvParts DEF RelayInv
<1>3. PICK tx : IsTransaction(tx) /\ Refusal(chain, tx) = "" /\ ChainBecomes(Ran(chain, tx))
  BY DEF SomebodyElse
<1>4. IsList(tx.ixs) /\ IsFiniteSet(tx.signed) BY <1>3 DEF IsTransaction, IsList
<1>5. RelayOK(tx) BY <1>3, LetThrough
<1>6. ChainOK(Ran(L, tx)) BY <1>1, <1>2, <1>3, <1>4, NotRefused
<1>7. Ran(L, tx).ok BY <1>6 DEF ChainOK
<1>8. ASSUME Relayed(tx)
      PROVE  Fee(tx) + TokenRent <= Allowance
  <2>1. Cardinality({tx.payer} \cup tx.signed) <= MaxSignatures
    BY <1>5, <1>8 DEF RelayOK, checkRelayTransaction
  <2>2. Fee(tx) \in Nat /\ Fee(tx) <= MaxSignatures * SignatureFee BY <1>4, <2>1, AllowanceIs, FeeIs
  <2>3. PICK most : most = MaxSignatures * SignatureFee OBVIOUS
  <2>4. most \in Nat BY <2>3, AllowanceIs
  <2>5. Allowance = most + TokenRent BY <2>3 DEF Allowance
  <2> QED BY <2>2, <2>3, <2>4, <2>5, AllowanceIs
<1>9. Costs(L, Ran(L, tx), Allowance) BY <1>2, <1>4, <1>5, <1>7, <1>8, AllowanceIs, RanCosts
<1> QED BY <1>1, <1>3, <1>9 DEF ChainBecomes

LEMMA TickCosts ==
    ASSUME PagesInv, RelayInv, Tick
    PROVE  Costs(chain, chain', 0)
<1>1. PICK L : L = chain OBVIOUS
<1>2. IsLedger(L) /\ Funded(L) BY <1>1, InvParts DEF RelayInv, ChainOK
<1>3. PICK n, M : n = L.now + 1 /\ M = [L EXCEPT !["now"] = n] OBVIOUS
<1>4. chain' = M BY <1>1, <1>3 DEF Tick
<1>5. "now" \in LedgerFields \ {"ok", "why", "feed"} BY DEF LedgerFields
<1>6. IsLedger(M) BY <1>2, <1>3, <1>5, FieldKept
<1>7. M.lamports = L.lamports /\ M.tokens = L.tokens /\ M.links = L.links /\ M.locks = L.locks
  BY <1>2, <1>3 DEF IsLedger, LedgerFields
<1>8. \A a \in DOMAIN M.tokens \cup DOMAIN M.links \cup DOMAIN M.locks : Derived(a)
  BY <1>2, <1>7, FundedIs
<1>9. Costs(L, M, 0) BY <1>2, <1>6, <1>7, <1>8, KeepingCosts
<1> QED BY <1>1, <1>4, <1>9

LEMMA ChainCosts ==
    ASSUME PagesInv, RelayInv, [PagesNext]_vars
    PROVE  /\ Costs(chain, chain', Allowance)
           /\ sent' # sent => Costs(chain, chain', ClaimAllowance)
<1>1. PICK L, M : L = chain /\ M = chain' OBVIOUS
<1>2. IsLedger(L) /\ Funded(L) BY <1>1, InvParts DEF RelayInv, ChainOK
<1>3. Costs(L, M, 0) => Costs(L, M, ClaimAllowance)
  <2>1. 0 \in Nat /\ 0 <= ClaimAllowance /\ ClaimAllowance \in Nat BY AllowanceIs
  <2> QED BY <1>2, <2>1, CostsLess
<1>4. Costs(L, M, ClaimAllowance) => Costs(L, M, Allowance) BY <1>2, AllowanceIs, CostsLess
<1>5. CASE M = L
  <2>1. Costs(L, M, 0) BY <1>2, <1>5, CostsNothing
  <2> QED BY <1>1, <1>3, <1>4, <2>1
<1>6. ASSUME NEW i \in DOMAIN sent, Land(i)
      PROVE  Costs(L, M, ClaimAllowance)
  BY <1>1, <1>6, LandCosts
<1>7. CASE SomebodyElse
  <2>1. sent' = sent BY <1>7 DEF SomebodyElse
  <2>2. Costs(L, M, Allowance) BY <1>1, <1>7, SomebodyElseCosts
  <2> QED BY <1>1, <2>1, <2>2
<1>8. CASE Tick
  <2>1. Costs(L, M, 0) BY <1>1, <1>8, TickCosts
  <2> QED BY <1>1, <1>3, <1>4, <2>1
<1>9. ASSUME NEW s \in Slots, GoesOn(s) \/ AnswerLost(s) \/ CallFails(s) PROVE M = L
  BY <1>1, <1>9 DEF GoesOn, Check, Submit, Polled, AnswerLost, CallFails
<1>10. ASSUME NEW i \in DOMAIN sent, Drop(i) PROVE M = L BY <1>1, <1>10 DEF Drop
<1>11. ASSUME NEW t \in OffersOf(cache.list), PressRow(t) PROVE M = L
  BY <1>1, <1>11 DEF PressRow, Start
<1>12. Fill \/ UseMax \/ Back \/ Reset \/ Refetch \/ Confirm \/ PressForm => M = L
  BY <1>1 DEF Fill, UseMax, Back, Reset, Refetch, Confirm, PressForm, Start
<1>13. UNCHANGED vars => M = L BY <1>1 DEF vars
<1>14. \/ M = L \/ SomebodyElse \/ Tick
       \/ \E i \in DOMAIN sent : Land(i)
  BY <1>9, <1>10, <1>11, <1>12, <1>13 DEF PagesNext
<1> QED BY <1>1, <1>4, <1>5, <1>6, <1>7, <1>8, <1>14

LEMMA RelayStart == PagesInit => RelayInv
<1> SUFFICES ASSUME PagesInit PROVE RelayInv OBVIOUS
<1>1. PICK start \in Starts[page] : chain = start.chain BY DEF PagesInit
<1>2. Funded(chain) BY <1>1, PagesAssumption DEF PagesInit
<1>3. sent = <<>> BY DEF PagesInit
<1>4. Len(sent) = 0 BY <1>3, Lists
<1> QED BY <1>2, <1>4 DEF RelayInv, TxsOK

LEMMA RelayStep ==
    ASSUME PagesInv, RelayInv, [PagesNext]_vars
    PROVE  RelayInv'
<1>1. Funded(chain') BY ChainCosts DEF Costs
<1>2. TxsOK(sent') BY TxsKept
<1> QED BY <1>1, <1>2 DEF RelayInv

(* The relayer pays for claims and nothing else: whatever forms are filled *)
(* in and whatever anybody hands to it, no step takes more from it than    *)
(* the signatures that there is room for and the deposit of one token      *)
(* account, and the wallet's own claims no more than two signatures and    *)
(* that deposit.  For what it signs are claims, which pay out of the link, *)
(* and one opening of an account at most, and what it does not sign cannot *)
(* take from it (checkRelayTransaction, buildRelayableTransaction).        *)
THEOREM RelayerPaysClaims == PagesSpec => RelayerOnlyPays
<1> DEFINE Paid == /\ RelayerPays <= MaxSignatures * SignatureFee + TokenRent
                   /\ sent' # sent => RelayerPays <= 2 * SignatureFee + TokenRent
<1>1. PagesInit => PagesInv /\ RelayInv BY PagesStart, RelayStart
<1>2. PagesInv /\ RelayInv /\ [PagesNext]_vars => PagesInv' /\ RelayInv'
  BY PagesStepKeeps, RelayStep
<1>3. PagesInv /\ RelayInv /\ [PagesNext]_vars => [Paid]_vars
  <2> SUFFICES ASSUME PagesInv, RelayInv, [PagesNext]_vars PROVE Paid OBVIOUS
  <2>1. PICK L, M : L = chain /\ M = chain' OBVIOUS
  <2>2. Funded(L) BY <2>1 DEF RelayInv
  <2>3. /\ Costs(L, M, Allowance)
        /\ sent' # sent => Costs(L, M, ClaimAllowance)
    BY <2>1, ChainCosts
  <2>4. ASSUME NEW n \in Nat, Costs(L, M, n) PROVE Purse(L) - Purse(M) <= n
    <3>1. Purse(L) \in Nat /\ Purse(M) \in Nat /\ Purse(M) + n >= Purse(L)
      BY <2>2, <2>4, PurseIs DEF Costs
    <3> QED BY <3>1
  <2>5. RelayerPays = Purse(L) - Purse(M) BY <2>1 DEF RelayerPays, Purse
  <2>6. RelayerPays <= Allowance BY <2>3, <2>4, <2>5, AllowanceIs
  <2>7. sent' # sent => RelayerPays <= ClaimAllowance BY <2>3, <2>4, <2>5, AllowanceIs
  <2> QED BY <2>6, <2>7 DEF Allowance, ClaimAllowance
<1> HIDE DEF Paid
<1>4. PagesSpec => [][Paid]_vars BY <1>1, <1>2, <1>3, PTL DEF PagesSpec
<1> QED BY <1>4 DEF RelayerOnlyPays, Paid
=============================================================================
