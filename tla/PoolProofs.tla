----------------------------- MODULE PoolProofs -----------------------------
(***************************************************************************)
(* The reserves of a pool and the value of its shares, proved for every    *)
(* word size, fee, locked minimum and set of amounts.                      *)
(*                                                                         *)
(* The arithmetic comes first: a floored quotient q of n by d satisfies    *)
(* q * d <= n, and that inequality of products is all the proofs use of    *)
(* the divisions in math.rs.  isqrt has an argument of its own.            *)
(***************************************************************************)
EXTENDS Pool, WellFoundedInduction, TLAPS

LEMMA Quotient ==
    ASSUME NEW n \in Nat, NEW d \in Nat \ {0}
    PROVE  n \div d \in Nat /\ (n \div d) * d <= n
BY SMT

LEMMA Product ==
    ASSUME NEW p \in Nat, NEW q \in Nat
    PROVE  p * q \in Nat
BY SMT

LEMMA ProductPositive ==
    ASSUME NEW p \in Nat \ {0}, NEW q \in Nat \ {0}
    PROVE  p * q \in Nat \ {0}
BY SMT

LEMMA ProductMonotone ==
    ASSUME NEW p \in Nat, NEW q \in Nat, NEW r \in Nat, NEW s \in Nat,
           p <= r, q <= s
    PROVE  p * q <= r * s
<1>1. p * q <= r * q
  BY SMT
<1>2. r * q <= r * s
  BY SMT
<1> QED
  BY <1>1, <1>2, Product

(* A factor can be cancelled. *)
LEMMA Cancel ==
    ASSUME NEW p \in Nat, NEW q \in Nat, NEW d \in Nat \ {0}, p * d <= q * d
    PROVE  p <= q
BY SMT

LEMMA CancelStrict ==
    ASSUME NEW p \in Nat, NEW q \in Nat, NEW d \in Nat \ {0}, p * d < q * d
    PROVE  p < q
BY SMT

-----------------------------------------------------------------------------
(* isqrt.  Newton's iteration never falls below the root, and above the    *)
(* root it descends; so the loop solves the same equation as the function  *)
(* that answers the root from anywhere above it.                           *)

(* A set of numbers has a least element: induction, without an operator    *)
(* for a parameter.                                                        *)
LEMMA LeastNat ==
    ASSUME NEW S \in SUBSET Nat, S # {}
    PROVE  \E n \in S : \A m \in S : n <= m
  <1>1. PICK n \in S : \A m \in S : ~(<<m, n>> \in OpToRel(<, Nat))
    BY NatLessThanWellFounded, WFMin
  <1>2. \A m \in S : ~(m < n)
    <2> TAKE m \in S
    <2>1. ~(<<m, n>> \in OpToRel(<, Nat)) BY <1>1
    <2> QED BY <2>1 DEF OpToRel
  <1> QED BY <1>2

(* The loop of isqrt(n) as an equation, and the root it should end at. *)
Solves(f, n) == f = [z \in Nat \ {0} |-> IF Newton(n, z) < z THEN f[Newton(n, z)] ELSE z]

LEMMA BabylonSolves ==
    ASSUME NEW n, NEW f, Solves(f, n)
    PROVE  Solves(Babylon(n), n)
<1>1. Babylon(n) = CHOOSE h : Solves(h, n)
  BY DEF Babylon, Solves
<1>2. Solves(CHOOSE h : Solves(h, n), n)
  OBVIOUS
<1> QED
  BY <1>1, <1>2

Root(n, s) == s \in Nat /\ s * s <= n /\ n < (s + 1) * (s + 1)

LEMMA RootExists ==
    ASSUME NEW n \in Nat
    PROVE  \E s : Root(n, s)
<1> DEFINE S == {m \in Nat : n < (m + 1) * (m + 1)}
<1>1. n \in S
  <2>1. (n + 1) * (n + 1) = n * n + n + n + 1 /\ n * n >= 0 BY SMT
  <2> QED BY <2>1
<1>2. PICK s \in S : \A m \in S : s <= m
  BY <1>1, LeastNat
<1>3. s * s <= n
  <2>1. CASE s = 0 BY <2>1
  <2>2. CASE s # 0
    <3>1. s - 1 \in Nat /\ s - 1 \notin S BY <1>2, <2>2
    <3> QED BY <3>1
  <2> QED BY <2>1, <2>2
<1> QED BY <1>2, <1>3 DEF Root

LEMMA NewtonPositive ==
    ASSUME NEW n \in Nat \ {0}, NEW z \in Nat \ {0}
    PROVE  Newton(n, z) \in Nat \ {0}
<1> DEFINE q == n \div z
<1>1. q \in Nat /\ q * z <= n /\ n < (q + 1) * z BY SMT
<1>2. q + z >= 2
  <2>1. CASE q = 0 
    <3>1. n < z BY <1>1, <2>1
    <3> QED BY <3>1, <2>1
  <2>2. CASE q # 0 BY <1>1, <2>2
  <2> QED BY <2>1, <2>2
<1> HIDE DEF q
<1>3. (q + z) \div 2 \in Nat \ {0} BY <1>1, <1>2
<1> QED BY <1>3 DEF Newton, q

LEMMA NewtonAbove ==
    ASSUME NEW n \in Nat \ {0}, NEW z \in Nat \ {0}, NEW s, Root(n, s)
    PROVE  /\ s <= Newton(n, z)
           /\ z <= s => z <= Newton(n, z)
           /\ z > s => Newton(n, z) < z
<1> DEFINE q == n \div z
<1>0. s \in Nat /\ s * s <= n /\ n < (s + 1) * (s + 1) BY DEF Root
<1>1. q \in Nat /\ q * z <= n /\ n < (q + 1) * z BY SMT
<1> HIDE DEF q
<1>2. /\ \A w \in Nat : w + w <= q + z => w <= (q + z) \div 2
      /\ \A w \in Nat : q + z < w + w => (q + z) \div 2 < w
  BY <1>1
<1>3. s + s <= q + z
  <2> SUFFICES ASSUME q + 1 <= s + s - z PROVE FALSE
    BY <1>0, <1>1
  <2>0. s + s - z \in Nat BY <1>0, <1>1
  <2>1. (q + 1) * z <= (s + s - z) * z BY <1>0, <1>1, <2>0, SMT
  <2>2. (s + s - z) * z = s * s - (s - z) * (s - z) BY <1>0, SMT
  <2>3. (s - z) * (s - z) >= 0 BY <1>0, SMT
  <2>4. s * s \in Nat /\ (s - z) * (s - z) \in Int /\ (q + 1) * z \in Nat BY <1>0, <1>1, SMT
  <2> QED BY <1>0, <1>1, <2>1, <2>2, <2>3, <2>4
<1>4. ASSUME z <= s PROVE z + z <= q + z
  <2> SUFFICES ASSUME q + 1 <= z PROVE FALSE
    BY <1>1
  <2>1. (q + 1) * z <= z * z /\ z * z <= s * s BY <1>0, <1>1, <1>4, SMT
  <2>2. s * s \in Nat /\ (q + 1) * z \in Nat /\ z * z \in Nat BY <1>0, <1>1, SMT
  <2> QED BY <1>0, <1>1, <2>1, <2>2
<1>5. ASSUME z > s PROVE q + z < z + z
  <2> SUFFICES ASSUME z <= q PROVE FALSE
    BY <1>1
  <2>1. (s + 1) * (s + 1) <= z * z /\ z * z <= q * z BY <1>0, <1>1, <1>5, SMT
  <2>2. (s + 1) * (s + 1) \in Nat /\ q * z \in Nat /\ z * z \in Nat BY <1>0, <1>1, SMT
  <2> QED BY <1>0, <1>1, <2>1, <2>2
<1> QED BY <1>0, <1>2, <1>3, <1>4, <1>5 DEF Newton, q

(* Newton's iteration, started above the root, ends at the root. *)
LEMMA BabylonRoot ==
    ASSUME NEW n \in Nat \ {0}, NEW s, Root(n, s), NEW z \in Nat \ {0}, s <= z
    PROVE  Babylon(n)[z] = s
<1> DEFINE g == [w \in Nat \ {0} |-> IF w > s THEN s ELSE w]
           P == Nat \ {0}
<1>0. s \in Nat /\ \A w \in P : /\ Newton(n, w) \in P /\ s <= Newton(n, w)
                                /\ w <= s => w <= Newton(n, w)
                                /\ w > s => Newton(n, w) < w
  BY NewtonPositive, NewtonAbove DEF Root
<1>1. Solves(g, n)
  <2> SUFFICES ASSUME NEW w \in P PROVE g[w] = IF Newton(n, w) < w THEN g[Newton(n, w)] ELSE w
    BY DEF Solves
  <2>1. g[w] = IF w > s THEN s ELSE w OBVIOUS
  <2>2. g[Newton(n, w)] = IF Newton(n, w) > s THEN s ELSE Newton(n, w) BY <1>0
  <2> QED BY <1>0, <2>1, <2>2
<1> DEFINE f == Babylon(n)
<1>2. Solves(f, n) BY <1>1, BabylonSolves
<1> HIDE DEF f, g
<1>3. \A w \in P : f[w] = IF Newton(n, w) < w THEN f[Newton(n, w)] ELSE w
  BY <1>2 DEF Solves
<1>4. \A w \in P : s <= w => f[w] = s
  <2> DEFINE S == {w \in P : s <= w /\ f[w] # s}
  <2> SUFFICES ASSUME S # {} PROVE FALSE
    OBVIOUS
  <2>1. PICK w \in S : \A v \in S : w <= v BY LeastNat
  <2>2. w \in P /\ w \in Nat /\ s <= w /\ f[w] # s BY <2>1
  <2>3. w > s BY <1>0, <1>3, <2>2
  <2>4. Newton(n, w) \in P /\ s <= Newton(n, w) /\ Newton(n, w) < w BY <1>0, <2>2, <2>3
  <2>5. Newton(n, w) \notin S BY <2>1, <2>2, <2>4
  <2>6. f[Newton(n, w)] = s BY <2>4, <2>5
  <2> QED BY <1>3, <2>2, <2>4, <2>6
<1> QED BY <1>4 DEF f

(* The square root is exact: the largest number whose square is at most n  *)
(* (the unit test isqrt_matches_floor_sqrt, math.rs:145, for every n).     *)
THEOREM IsqrtIsRoot ==
    ASSUME NEW n \in Nat
    PROVE  Root(n, isqrt(n))
<1>1. CASE n < 4
  BY <1>1 DEF isqrt, Root
<1>2. CASE n >= 4
  <2>1. PICK s : Root(n, s)
    BY RootExists
  <2> DEFINE q == n \div 2
  <2>2. q \in Nat /\ n <= q + q + 1
    OBVIOUS
  <2> HIDE DEF q
  <2>3. s <= q + 1
    <3> SUFFICES ASSUME q + 2 <= s PROVE FALSE
      BY <2>1, <2>2 DEF Root
    <3>1. (q + 2) * (q + 2) <= s * s
      BY <2>1, <2>2, ProductMonotone DEF Root
    <3>2. (q + 2) * (q + 2) = q * q + q + q + q + q + 4 /\ q * q \in Nat /\ s * s \in Nat
      BY <2>1, <2>2, SMT DEF Root
    <3> QED
      BY <2>1, <2>2, <3>1, <3>2 DEF Root
  <2>4. Babylon(n)[q + 1] = s
    BY <1>2, <2>1, <2>2, <2>3, BabylonRoot
  <2> QED
    BY <1>2, <2>1, <2>4 DEF isqrt, q
<1> QED
  BY <1>1, <1>2

-----------------------------------------------------------------------------
(* Swaps.                                                                  *)

(* What comes out is less than the reserve, and the product of the         *)
(* reserves does not shrink.                                               *)
LEMMA SwapFacts ==
    ASSUME NEW x \in Nat \ {0}, NEW y \in Nat \ {0}, NEW in \in Nat, NEW fee \in 0 .. MAX_FEE_BPS
    PROVE  LET out == swap_output(x, y, in, fee)
           IN  /\ out \in Nat /\ out < y /\ x * y <= (x + in) * (y - out)
               /\ out * x <= in * (y - out)
<1> DEFINE D == FEE_DENOMINATOR
           f == in * (D - fee)
           d == x * D + f
           out == swap_output(x, y, in, fee)
<1>1. /\ D \in Nat \ {0} /\ D - fee \in Nat \ {0} /\ D - fee <= D
  BY AmmAssumption
<1>2. f \in Nat /\ f <= in * D
  BY <1>1, ProductMonotone, Product
<1>3. x * D \in Nat \ {0} /\ d \in Nat \ {0} /\ f * y \in Nat
  BY <1>1, <1>2, Product, ProductPositive
<1>4. out = (f * y) \div d
  BY DEF swap_output, InWithFee
<1> HIDE DEF f, out
<1>5. out \in Nat /\ out * d <= f * y
  BY <1>3, <1>4, Quotient
<1> HIDE DEF D
<1>6. out < y
  <2>1. f * y < d * y
    BY <1>1, <1>2, <1>3, SMT
  <2>2. out * d < y * d
    BY <1>3, <1>5, <2>1, Product, SMT
  <2> QED
    BY <1>3, <1>5, <2>2, CancelStrict
<1>7. out * x <= in * (y - out)
  <2>1. y - out \in Nat
    BY <1>5, <1>6
  <2>2. out * (x * D) <= f * (y - out)
    BY <1>1, <1>2, <1>3, <1>5, <2>1, SMT
  <2>3. f * (y - out) <= (in * D) * (y - out)
    BY <1>1, <1>2, <2>1, ProductMonotone, Product
  <2>4. (out * x) * D <= (in * (y - out)) * D
    BY <1>1, <1>2, <1>5, <2>1, <2>2, <2>3, SMT
  <2> QED
    BY <1>1, <1>5, <2>1, <2>4, Cancel, Product
<1>8. x * y <= (x + in) * (y - out)
  BY <1>5, <1>6, <1>7, SMT
<1> QED
  BY <1>5, <1>6, <1>7, <1>8 DEF out

-----------------------------------------------------------------------------
(* Deposits and withdrawals.                                               *)

LEMMA TotalPositive ==
    ASSUME NEW supply \in Nat
    PROVE  TotalShares(supply) \in Nat \ {0} /\ TotalShares(supply) > supply
BY AmmAssumption DEF TotalShares

LEMMA TotalMonotone ==
    ASSUME NEW supply \in Nat, NEW less \in Nat, less <= supply
    PROVE  /\ TotalShares(supply) \in Nat /\ TotalShares(less) \in Nat
           /\ TotalShares(less) <= TotalShares(supply)
BY AmmAssumption DEF TotalShares

LEMMA DepositFacts ==
    ASSUME NEW x \in Nat \ {0}, NEW y \in Nat \ {0}, NEW supply \in Nat,
           NEW wantA \in Nat, NEW wantB \in Nat
    PROVE  LET q == quote_add(x, y, supply, wantA, wantB)
               T == TotalShares(supply)
           IN  /\ q.a \in Nat /\ q.b \in Nat /\ q.lp \in Nat
               /\ q.lp * x <= q.a * T /\ q.lp * y <= q.b * T
<1> DEFINE T == TotalShares(supply)
           ta == TakenA(x, y, wantA, wantB)
           tb == TakenB(x, y, wantA, wantB)
           sa == (ta * T) \div x
           sb == (tb * T) \div y
           s == SharesFor(x, y, supply, ta, tb)
           q == quote_add(x, y, supply, wantA, wantB)
<1>1. T \in Nat
  BY TotalPositive
<1>2. (wantA * y) \div x \in Nat /\ (wantB * x) \div y \in Nat
  BY Quotient, Product
<1>3. ta \in Nat /\ tb \in Nat
  BY <1>2 DEF TakenA, TakenB
<1>4. q.a = ta /\ q.b = tb /\ q.lp = s
  BY DEF quote_add
<1>5. s = sa \/ s = sb
  BY DEF SharesFor, Least
<1> HIDE DEF ta, tb, q, T
<1>6. sa \in Nat /\ sb \in Nat /\ sa * x <= ta * T /\ sb * y <= tb * T
  BY <1>1, <1>3, Quotient, Product
<1>7. s <= sa /\ s <= sb
  BY <1>6 DEF SharesFor, Least, T
<1> HIDE DEF sa, sb, s
<1>8. s \in Nat /\ s * x <= ta * T /\ s * y <= tb * T
  <2>1. s \in Nat
    BY <1>5, <1>6
  <2>2. s * x <= sa * x /\ s * y <= sb * y
    BY <1>6, <1>7, <2>1, ProductMonotone
  <2> QED
    BY <1>1, <1>3, <1>6, <2>1, <2>2, Product
<1> QED
  BY <1>3, <1>4, <1>8 DEF q, T

LEMMA RemoveFacts ==
    ASSUME NEW x \in Nat, NEW supply \in Nat, NEW l \in Nat, l <= supply
    PROVE  LET out == quote_remove(x, supply, l)
               T == TotalShares(supply)
           IN  /\ out \in Nat /\ out * T <= l * x /\ out <= x
               /\ x > 0 => out < x
<1> DEFINE T == TotalShares(supply)
           out == quote_remove(x, supply, l)
<1>1. T \in Nat \ {0} /\ l < T /\ l * x \in Nat
  BY TotalPositive, Product
<1>2. out = (l * x) \div T
  BY DEF quote_remove
<1> HIDE DEF T, out
<1>3. out \in Nat /\ out * T <= l * x
  BY <1>1, <1>2, Quotient
<1>4. out <= x
  <2>1. l * x <= T * x
    BY <1>1, ProductMonotone
  <2>2. out * T <= x * T
    BY <1>1, <1>3, <2>1, Product, SMT
  <2> QED
    BY <1>1, <1>3, <2>2, Cancel
<1>5. ASSUME x > 0 PROVE out < x
  <2>1. l * x < T * x
    BY <1>1, <1>5, SMT
  <2>2. out * T < x * T
    BY <1>1, <1>3, <2>1, Product, SMT
  <2> QED
    BY <1>1, <1>3, <2>2, CancelStrict
<1> QED
  BY <1>3, <1>4, <1>5 DEF T, out

(* If each reserve grows at least, or shrinks at most, in proportion to    *)
(* the shares, then their product does so to the square of the shares.     *)
LEMMA PerSquare ==
    ASSUME NEW x \in Nat, NEW y \in Nat, NEW T \in Nat,
           NEW v \in Nat, NEW w \in Nat, NEW U \in Nat,
           x * U <= v * T, y * U <= w * T
    PROVE  x * y * U * U <= v * w * T * T
<1>1. (x * U) * (y * U) <= (v * T) * (w * T)
  BY ProductMonotone, Product
<1>2. (x * U) * (y * U) = x * y * U * U /\ (v * T) * (w * T) = v * w * T * T
  BY SMT
<1> QED
  BY <1>1, <1>2

-----------------------------------------------------------------------------
(* The invariant: types and reserves.                                      *)

Inv == PoolTypeOK /\ NeverDrained

LEMMA AmountsNat == PoolAmounts \subseteq Nat
BY PoolAssumption, AmmAssumption

LEMMA InvInit == PoolInit => Inv
<1> SUFFICES ASSUME PoolInit PROVE Inv
  OBVIOUS
<1>1. 0 \in 0 .. MAX_FEE_BPS /\ 0 \in 0 .. U64
  BY AmmAssumption
<1>2. [u \in PoolUsers |-> 0] \in [PoolUsers -> Nat]
  OBVIOUS
<1>3. exists \in BOOLEAN
  BY DEF PoolInit
<1>4. PoolTypeOK
  BY <1>1, <1>2, <1>3, PoolAssumption DEF PoolInit, PoolTypeOK
<1>5. NeverDrained
  BY DEF PoolInit, NeverDrained
<1> QED
  BY <1>4, <1>5 DEF Inv

LEMMA AddStep ==
    ASSUME Inv, NEW u \in PoolUsers, NEW x \in PoolAmounts, NEW y \in PoolAmounts, NEW m \in Minima,
           AddLiquidity(u, x, y, m)
    PROVE  /\ Inv'
           /\ ra > 0 /\ rb > 0 =>
                 ra * rb * TotalShares(lpSupply)' * TotalShares(lpSupply)'
                     <= ra' * rb' * TotalShares(lpSupply) * TotalShares(lpSupply)
<1> DEFINE q == quote_add(ra, rb, lpSupply, x, y)
           T == TotalShares(lpSupply)
<1>1. /\ PoolTypeOK /\ x \in Nat /\ y \in Nat /\ ra \in Nat /\ rb \in Nat /\ lpSupply \in Nat
  BY AmountsNat, AmmAssumption DEF Inv, PoolTypeOK
<1>2. /\ AddAccepts(ra, rb, lpSupply, x, y)
      /\ a[u] >= q.a /\ b[u] >= q.b /\ lpSupply + q.lp <= U64
      /\ a' = [a EXCEPT ![u] = @ - q.a] /\ b' = [b EXCEPT ![u] = @ - q.b]
      /\ ra' = ra + q.a /\ rb' = rb + q.b
      /\ lp' = [lp EXCEPT ![u] = @ + q.lp] /\ lpSupply' = lpSupply + q.lp
      /\ origin' = IF origin = "empty" THEN Origin ELSE origin
      /\ UNCHANGED <<exists, feeBps>>
  BY DEF AddLiquidity
<1>3. q.lp \in Nat /\ x > 0 /\ y > 0
  BY <1>2, AmmAssumption DEF AddAccepts
<1>4. q.a \in Nat \ {0} /\ q.b \in Nat \ {0}
  <2>1. CASE ra = 0 /\ rb = 0
    BY <1>1, <1>3, <2>1 DEF quote_add
  <2>2. CASE ra > 0 /\ rb > 0
    <3>1. q.a > 0 /\ q.b > 0
      BY <1>1, <1>2, <2>2 DEF AddAccepts
    <3>2. q.a \in Nat /\ q.b \in Nat
      BY <1>1, <2>2, DepositFacts
    <3> QED
      BY <3>1, <3>2
  <2> QED
    BY <1>2, <2>1, <2>2 DEF AddAccepts
<1>5. ASSUME ra > 0, rb > 0 PROVE q.lp * ra <= q.a * T /\ q.lp * rb <= q.b * T
  BY <1>1, <1>5, DepositFacts
<1>6. T \in Nat /\ TotalShares(lpSupply)' = T + q.lp
  BY <1>1, <1>2, <1>3, TotalPositive, AmmAssumption DEF TotalShares
<1> HIDE DEF q, T
<1>7. PoolTypeOK'
  BY <1>1, <1>2, <1>3, <1>4, AmmAssumption DEF PoolTypeOK, Origin
<1>8. NeverDrained'
  BY <1>1, <1>2, <1>4 DEF NeverDrained
<1>9. ASSUME ra > 0, rb > 0
      PROVE  ra * rb * (T + q.lp) * (T + q.lp) <= ra' * rb' * T * T
  <2>1. /\ ra * (T + q.lp) = ra * T + q.lp * ra /\ (ra + q.a) * T = ra * T + q.a * T
        /\ rb * (T + q.lp) = rb * T + q.lp * rb /\ (rb + q.b) * T = rb * T + q.b * T
    BY <1>1, <1>3, <1>4, <1>6, SMT
  <2>2. ra * (T + q.lp) <= (ra + q.a) * T /\ rb * (T + q.lp) <= (rb + q.b) * T
    BY <1>1, <1>3, <1>4, <1>5, <1>6, <1>9, <2>1, Product
  <2> QED
    BY <1>1, <1>2, <1>3, <1>4, <1>6, <2>2, PerSquare
<1> QED
  BY <1>6, <1>7, <1>8, <1>9 DEF Inv, T

LEMMA RemoveStep ==
    ASSUME Inv, NEW u \in PoolUsers, NEW l \in PoolAmounts, NEW m \in Minima, NEW n \in Minima,
           RemoveLiquidity(u, l, m, n)
    PROVE  /\ Inv'
           /\ ra > 0 /\ rb > 0 =>
                 ra * rb * TotalShares(lpSupply)' * TotalShares(lpSupply)'
                     <= ra' * rb' * TotalShares(lpSupply) * TotalShares(lpSupply)
<1> DEFINE outA == quote_remove(ra, lpSupply, l)
           outB == quote_remove(rb, lpSupply, l)
           T == TotalShares(lpSupply)
<1>1. /\ PoolTypeOK /\ l \in Nat /\ ra \in Nat /\ rb \in Nat /\ lpSupply \in Nat
      /\ l <= lpSupply /\ lp[u] >= l
  BY AmountsNat, AmmAssumption DEF Inv, PoolTypeOK, RemoveLiquidity, Burnable
<1>2. /\ lp' = [lp EXCEPT ![u] = @ - l] /\ lpSupply' = lpSupply - l
      /\ ra' = ra - outA /\ rb' = rb - outB
      /\ a' = [a EXCEPT ![u] = @ + outA] /\ b' = [b EXCEPT ![u] = @ + outB]
      /\ UNCHANGED <<exists, feeBps, origin>>
  BY DEF RemoveLiquidity
<1>3. /\ outA \in Nat /\ outA * T <= l * ra /\ outA <= ra /\ (ra > 0 => outA < ra)
      /\ outB \in Nat /\ outB * T <= l * rb /\ outB <= rb /\ (rb > 0 => outB < rb)
  BY <1>1, RemoveFacts
<1>4. T \in Nat /\ T - l \in Nat /\ TotalShares(lpSupply)' = T - l
  BY <1>1, <1>2, TotalPositive, AmmAssumption DEF TotalShares
<1> HIDE DEF outA, outB, T
<1>5. PoolTypeOK'
  BY <1>1, <1>2, <1>3, AmmAssumption DEF PoolTypeOK
<1>6. NeverDrained'
  BY <1>1, <1>2, <1>3 DEF Inv, NeverDrained
<1>7. ra * rb * (T - l) * (T - l) <= ra' * rb' * T * T
  <2>1. ra - outA \in Nat /\ rb - outB \in Nat
    BY <1>1, <1>3
  <2>2. /\ ra * (T - l) = ra * T - l * ra /\ (ra - outA) * T = ra * T - outA * T
        /\ rb * (T - l) = rb * T - l * rb /\ (rb - outB) * T = rb * T - outB * T
    BY <1>1, <1>3, <1>4, SMT
  <2>3. ra * (T - l) <= (ra - outA) * T /\ rb * (T - l) <= (rb - outB) * T
    BY <1>1, <1>3, <1>4, <2>2, Product
  <2> QED
    BY <1>1, <1>2, <1>4, <2>1, <2>3, PerSquare
<1> QED
  BY <1>4, <1>5, <1>6, <1>7 DEF Inv, T

(* The product of the reserves never shrinks while the shares do not grow. *)
LEMMA ProductKept ==
    ASSUME NEW x \in Nat, NEW y \in Nat, NEW v \in Nat, NEW w \in Nat,
           NEW T \in Nat, NEW U \in Nat, x * y <= v * w, U <= T
    PROVE  x * y * U * U <= v * w * T * T
<1>1. x * y \in Nat /\ v * w \in Nat
  BY Product
<1>2. (x * y) * U <= (v * w) * T
  BY <1>1, ProductMonotone
<1>3. (x * y) * U \in Nat /\ (v * w) * T \in Nat
  BY <1>1, Product
<1> QED
  BY <1>2, <1>3, ProductMonotone

LEMMA SwapStep ==
    ASSUME Inv, NEW u \in PoolUsers, NEW in \in PoolAmounts, NEW m \in Minima,
           SwapAToB(u, in, m) \/ SwapBToA(u, in, m)
    PROVE  /\ Inv'
           /\ ra * rb * TotalShares(lpSupply)' * TotalShares(lpSupply)'
                     <= ra' * rb' * TotalShares(lpSupply) * TotalShares(lpSupply)
<1> DEFINE outB == swap_output(ra, rb, in, feeBps)
           outA == swap_output(rb, ra, in, feeBps)
           T == TotalShares(lpSupply)
<1>1. /\ PoolTypeOK /\ in \in Nat /\ ra \in Nat \ {0} /\ rb \in Nat \ {0} /\ lpSupply \in Nat
      /\ feeBps \in 0 .. MAX_FEE_BPS
  BY AmountsNat, AmmAssumption DEF Inv, PoolTypeOK, SwapAToB, SwapBToA, SwapAccepts
<1>2. /\ outB \in Nat /\ outB < rb /\ ra * rb <= (ra + in) * (rb - outB)
      /\ outA \in Nat /\ outA < ra /\ rb * ra <= (rb + in) * (ra - outA)
  BY <1>1, SwapFacts
<1>3. \/ /\ a[u] >= in
         /\ a' = [a EXCEPT ![u] = @ - in] /\ b' = [b EXCEPT ![u] = @ + outB]
         /\ ra' = ra + in /\ rb' = rb - outB
      \/ /\ b[u] >= in
         /\ b' = [b EXCEPT ![u] = @ - in] /\ a' = [a EXCEPT ![u] = @ + outA]
         /\ rb' = rb + in /\ ra' = ra - outA
  BY DEF SwapAToB, SwapBToA
<1>4. UNCHANGED <<exists, feeBps, lpSupply, lp, origin>>
  BY DEF SwapAToB, SwapBToA
<1>5. T \in Nat /\ TotalShares(lpSupply)' = T
  BY <1>1, <1>4, TotalPositive DEF TotalShares
<1> HIDE DEF outA, outB, T
<1>6. ra' \in Nat \ {0} /\ rb' \in Nat \ {0}
  BY <1>1, <1>2, <1>3
<1>7. PoolTypeOK'
  BY <1>1, <1>2, <1>3, <1>4, <1>6 DEF PoolTypeOK
<1>8. NeverDrained'
  BY <1>6 DEF NeverDrained
<1>9. ra * rb <= ra' * rb'
  <2>1. CASE ra' = ra + in /\ rb' = rb - outB
    BY <1>2, <2>1
  <2>2. CASE rb' = rb + in /\ ra' = ra - outA
    BY <1>1, <1>2, <1>6, <2>2, SMT
  <2> QED
    BY <1>3, <2>1, <2>2
<1>10. ra * rb * T * T <= ra' * rb' * T * T
  <2>1. ra \in Nat /\ rb \in Nat /\ ra' \in Nat /\ rb' \in Nat
    BY <1>1, <1>6
  <2>2. T <= T
    BY <1>5
  <2> QED
    BY <1>5, <1>9, <2>1, <2>2, ProductKept
<1> QED
  BY <1>5, <1>7, <1>8, <1>10 DEF Inv, T

(* Donations, burns, the creation of the pool, and stuttering. *)
LEMMA OtherStep ==
    ASSUME Inv,
           \/ \E fee \in Fees : InitPool(fee)
           \/ \E u \in PoolUsers, x \in PoolAmounts :
                 DonateA(u, x) \/ DonateB(u, x) \/ BurnLp(u, x)
           \/ UNCHANGED poolVars
    PROVE  /\ Inv'
           /\ ra * rb * TotalShares(lpSupply)' * TotalShares(lpSupply)'
                  <= ra' * rb' * TotalShares(lpSupply) * TotalShares(lpSupply)
<1>1. /\ PoolTypeOK /\ ra \in Nat /\ rb \in Nat /\ lpSupply \in Nat /\ lpSupply <= U64
  BY AmmAssumption DEF Inv, PoolTypeOK
<1> DEFINE Kept == /\ PoolTypeOK' /\ ra' \in Nat /\ rb' \in Nat /\ lpSupply' \in Nat
                   /\ ra <= ra' /\ rb <= rb' /\ lpSupply' <= lpSupply
                   /\ origin' = origin
<1>2. Kept
  <2>1. ASSUME NEW fee \in Fees, InitPool(fee)
        PROVE  Kept
    <3>1. fee \in 0 .. MAX_FEE_BPS
      BY <2>1, PoolAssumption, AmmAssumption DEF InitPool
    <3>2. feeBps' \in 0 .. MAX_FEE_BPS /\ exists' \in BOOLEAN
      BY <2>1, <3>1 DEF InitPool
    <3>3. UNCHANGED <<ra, rb, lpSupply, a, b, lp, origin>>
      BY <2>1 DEF InitPool
    <3> QED
      BY <1>1, <3>2, <3>3 DEF PoolTypeOK
  <2>2. ASSUME NEW u \in PoolUsers, NEW x \in PoolAmounts, DonateA(u, x)
        PROVE  Kept
    BY <1>1, <2>2, AmountsNat DEF PoolTypeOK, DonateA
  <2>3. ASSUME NEW u \in PoolUsers, NEW x \in PoolAmounts, DonateB(u, x)
        PROVE  Kept
    BY <1>1, <2>3, AmountsNat DEF PoolTypeOK, DonateB
  <2>4. ASSUME NEW u \in PoolUsers, NEW x \in PoolAmounts, BurnLp(u, x)
        PROVE  Kept
    BY <1>1, <2>4, AmountsNat, AmmAssumption DEF PoolTypeOK, BurnLp, Burnable
  <2>5. CASE UNCHANGED poolVars
    BY <1>1, <2>5 DEF PoolTypeOK, poolVars
  <2> QED
    BY <2>1, <2>2, <2>3, <2>4, <2>5
<1>3. NeverDrained'
  BY <1>1, <1>2 DEF Inv, NeverDrained
<1>4. ra * rb <= ra' * rb'
  BY <1>1, <1>2, ProductMonotone
<1>5. /\ TotalShares(lpSupply) \in Nat /\ TotalShares(lpSupply)' \in Nat
      /\ TotalShares(lpSupply)' <= TotalShares(lpSupply)
  <2>1. TotalShares(lpSupply)' = TotalShares(lpSupply')
    BY DEF TotalShares
  <2>2. lpSupply \in Nat /\ lpSupply' \in Nat /\ lpSupply' <= lpSupply
    BY <1>1, <1>2
  <2> QED
    BY <2>1, <2>2, TotalMonotone
<1>6. ra * rb * TotalShares(lpSupply)' * TotalShares(lpSupply)'
          <= ra' * rb' * TotalShares(lpSupply) * TotalShares(lpSupply)
  BY <1>1, <1>2, <1>4, <1>5, ProductKept
<1> QED
  BY <1>2, <1>3, <1>6 DEF Inv

LEMMA Step ==
    ASSUME Inv, [PoolNext]_poolVars
    PROVE  /\ Inv'
           /\ ra > 0 /\ rb > 0 =>
                 ra * rb * TotalShares(lpSupply)' * TotalShares(lpSupply)'
                     <= ra' * rb' * TotalShares(lpSupply) * TotalShares(lpSupply)
BY AddStep, RemoveStep, SwapStep, OtherStep DEF PoolNext

(* Types and reserves together are inductive. *)
THEOREM Invariance == PoolSpec => []Inv
<1>1. Inv /\ [PoolNext]_poolVars => Inv'
  BY Step
<1> QED
  BY InvInit, <1>1, PTL DEF PoolSpec

(* Type correctness: no reserve and no balance is ever negative, and the   *)
(* supply fits its word.                                                   *)
THEOREM TypeCorrect == PoolSpec => []PoolTypeOK
<1>1. Inv => PoolTypeOK
  BY DEF Inv
<1> QED
  BY <1>1, Invariance, PTL

(* A funded pool is never emptied of either token. *)
THEOREM StaysFunded == PoolSpec => []NeverDrained
<1>1. Inv => NeverDrained
  BY DEF Inv
<1> QED
  BY <1>1, Invariance, PTL

(* No instruction, donation or burn lowers the value of a share. *)
THEOREM ValueKept == PoolSpec => ShareValueNeverDrops
<1>1. ASSUME Inv, [PoolNext]_poolVars
      PROVE  [ra > 0 /\ rb > 0 =>
                  ra' * rb' * TotalShares(lpSupply) * TotalShares(lpSupply)
                      >= ra * rb * TotalShares(lpSupply)' * TotalShares(lpSupply)']_poolVars
  <2>1. ASSUME ra > 0, rb > 0
        PROVE  ra' * rb' * TotalShares(lpSupply) * TotalShares(lpSupply)
                   >= ra * rb * TotalShares(lpSupply)' * TotalShares(lpSupply)'
    BY <1>1, <2>1, Step
  <2> QED
    BY <2>1
<1> QED
  BY <1>1, Invariance, PTL DEF PoolSpec, ShareValueNeverDrops

-----------------------------------------------------------------------------
(* Shares are backed.  A pool that has had no deposit has no shares, so    *)
(* the first deposit of a priced pool makes isqrt(a * b) of them in all,   *)
(* the locked minimum included; afterwards the value of a share only rises.*)

Backed == (origin = "empty" => lpSupply = 0) /\ SharesBacked

LEMMA BackedInit == PoolInit => Backed
BY DEF PoolInit, Backed, SharesBacked

LEMMA FirstDeposit ==
    ASSUME Inv, Backed, NEW u \in PoolUsers, NEW x \in PoolAmounts, NEW y \in PoolAmounts, NEW m \in Minima,
           AddLiquidity(u, x, y, m), origin = "empty", origin' = "priced"
    PROVE  SharesBacked'
<1> DEFINE r == isqrt(x * y)
<1>1. ra = 0 /\ rb = 0 /\ lpSupply = 0
  BY DEF Backed, AddLiquidity, Origin
<1>2. quote_add(ra, rb, lpSupply, x, y) = [a |-> x, b |-> y, lp |-> r - MINIMUM_LIQUIDITY]
  BY <1>1 DEF quote_add
<1>3. ra' = ra + x /\ rb' = rb + y /\ lpSupply' = lpSupply + (r - MINIMUM_LIQUIDITY)
  BY <1>2 DEF AddLiquidity
<1>4. x \in Nat /\ y \in Nat /\ x * y \in Nat
  BY AmountsNat, Product
<1>5. r \in Nat /\ r * r <= x * y
  BY <1>4, IsqrtIsRoot DEF Root
<1> HIDE DEF r
<1>6. ra' = x /\ rb' = y /\ TotalShares(lpSupply)' = r
  BY <1>1, <1>3, <1>4, <1>5, AmmAssumption DEF TotalShares
<1> QED
  BY <1>5, <1>6 DEF SharesBacked

(* A value per share that does not fall keeps the shares backed. *)
LEMMA ValueBacks ==
    ASSUME NEW p \in Nat, NEW v \in Nat, NEW T \in Nat \ {0}, NEW U \in Nat,
           T * T <= p, p * U * U <= v * T * T
    PROVE  U * U <= v
<1> DEFINE t == T * T
           w == U * U
<1>1. t \in Nat \ {0} /\ w \in Nat
  BY ProductPositive, Product
<1>2. p * U * U = p * w /\ v * T * T = v * t
  BY SMT
<1>3. t * w <= p * w
  BY <1>1, ProductMonotone
<1> HIDE DEF t, w
<1>4. w * t = t * w /\ t * w \in Nat /\ p * w \in Nat /\ v * t \in Nat
  BY <1>1, SMT
<1>5. w * t <= v * t
  BY <1>2, <1>3, <1>4
<1> QED
  BY <1>1, <1>5, Cancel DEF w

LEMMA BackedStep ==
    ASSUME Inv, Backed, [PoolNext]_poolVars
    PROVE  Backed'
<1>1. /\ Inv' /\ lpSupply \in Nat /\ lpSupply' \in Nat
      /\ ra \in Nat /\ rb \in Nat /\ ra' \in Nat /\ rb' \in Nat
  BY Step, AmmAssumption DEF Inv, PoolTypeOK
<1>2. CASE origin' = origin
  <2>1. origin = "empty" => lpSupply' = 0
    <3> SUFFICES ASSUME origin = "empty", lpSupply = 0 PROVE lpSupply' = 0
      BY DEF Backed
    <3>1. ASSUME NEW u \in PoolUsers, NEW x \in PoolAmounts, NEW y \in PoolAmounts, NEW m \in Minima,
                 AddLiquidity(u, x, y, m)
          PROVE  FALSE
      BY <1>2, <3>1 DEF AddLiquidity, Origin
    <3>2. ASSUME NEW u \in PoolUsers, NEW l \in PoolAmounts, NEW m \in Minima, NEW n \in Minima,
                 RemoveLiquidity(u, l, m, n)
          PROVE  FALSE
      BY <3>2, AmountsNat DEF RemoveLiquidity, Burnable
    <3>3. ASSUME NEW u \in PoolUsers, NEW l \in PoolAmounts, BurnLp(u, l) PROVE FALSE
      BY <3>3, AmountsNat DEF BurnLp, Burnable
    <3> QED
      BY <3>1, <3>2, <3>3
      DEF PoolNext, poolVars, InitPool, SwapAToB, SwapBToA, DonateA, DonateB
  <2>2. ASSUME origin = "priced"
        PROVE  TotalShares(lpSupply)' * TotalShares(lpSupply)' <= ra' * rb'
    <3> DEFINE T == TotalShares(lpSupply)
    <3>1. ra > 0 /\ rb > 0
      BY <2>2 DEF Inv, NeverDrained
    <3>2. PICK U : U = TotalShares(lpSupply)'
      OBVIOUS
    <3>3. T \in Nat \ {0} /\ U \in Nat
      <4>1. TotalShares(lpSupply)' = TotalShares(lpSupply')
        BY DEF TotalShares
      <4>2. PICK supply \in Nat : supply = lpSupply'
        BY <1>1
      <4>3. TotalShares(lpSupply) \in Nat \ {0} /\ TotalShares(supply) \in Nat \ {0}
        BY <1>1, TotalPositive
      <4> QED
        BY <3>2, <4>1, <4>2, <4>3
    <3>4. T * T <= ra * rb
      BY <2>2 DEF Backed, SharesBacked
    <3>5. ra * rb * U * U <= ra' * rb' * T * T
      BY <3>1, <3>2, Step
    <3> HIDE DEF T
    <3>6. ra * rb \in Nat /\ ra' * rb' \in Nat
      BY <1>1, Product
    <3>7. U * U <= ra' * rb'
      BY ONLY <3>3, <3>4, <3>5, <3>6, ValueBacks
    <3> QED
      BY <3>2, <3>7
  <2> QED
    BY <1>2, <2>1, <2>2 DEF Backed, SharesBacked
<1>3. CASE origin' # origin
  <2>1. PICK u \in PoolUsers, x \in PoolAmounts, y \in PoolAmounts, m \in Minima : AddLiquidity(u, x, y, m)
    BY <1>3
    DEF PoolNext, poolVars, InitPool, RemoveLiquidity, SwapAToB, SwapBToA, DonateA, DonateB, BurnLp
  <2>2. origin = "empty" /\ origin' \in {"priced", "donated"}
    BY <1>3, <2>1 DEF AddLiquidity, Origin
  <2>3. origin' = "priced" => SharesBacked'
    BY <2>1, <2>2, FirstDeposit
  <2> QED
    BY <2>2, <2>3 DEF Backed, SharesBacked
<1> QED
  BY <1>2, <1>3

(* In a pool whose first deposit set the price the square of the shares    *)
(* never exceeds the product of the reserves.                              *)
THEOREM SharesStayBacked == PoolSpec => []SharesBacked
<1>1. Inv /\ Backed /\ [PoolNext]_poolVars => Backed'
  BY BackedStep
<1>2. Backed => SharesBacked
  BY DEF Backed
<1> QED
  BY BackedInit, Invariance, <1>1, <1>2, PTL DEF PoolSpec

-----------------------------------------------------------------------------
(* Round trips.                                                            *)

(* Withdrawing the shares of a deposit returns no more than it took. *)
LEMMA DepositRoundTrip ==
    ASSUME NEW x \in Nat, NEW supply \in Nat, NEW taken \in Nat, NEW l \in Nat,
           l * x <= taken * TotalShares(supply)
    PROVE  quote_remove(x + taken, supply + l, l) <= taken
<1> DEFINE T == TotalShares(supply)
           out == quote_remove(x + taken, supply + l, l)
<1>1. T \in Nat \ {0} /\ TotalShares(supply + l) = T + l
  BY AmmAssumption DEF TotalShares
<1>2. out \in Nat /\ out * (T + l) <= l * (x + taken)
  <2>1. x + taken \in Nat /\ supply + l \in Nat /\ l <= supply + l
    OBVIOUS
  <2> QED
    BY <1>1, <2>1, RemoveFacts
<1> HIDE DEF T, out
<1>3. /\ l * (x + taken) = l * x + l * taken /\ taken * (T + l) = taken * T + l * taken
      /\ l * x \in Nat /\ l * taken \in Nat /\ taken * T \in Nat /\ out * (T + l) \in Nat
  BY <1>1, <1>2, SMT
<1>4. out * (T + l) <= taken * (T + l)
  BY <1>2, <1>3 DEF T
<1>5. T + l \in Nat \ {0}
  BY <1>1
<1> QED
  BY <1>2, <1>4, <1>5, Cancel DEF out

LEMMA DepositSafe == PoolTypeOK => DepositNeverProfits
<1> SUFFICES ASSUME PoolTypeOK, NEW x \in PoolAmounts, NEW y \in PoolAmounts,
                    AddAccepts(ra, rb, lpSupply, x, y)
             PROVE  LET q == quote_add(ra, rb, lpSupply, x, y)
                    IN  /\ quote_remove(ra + q.a, lpSupply + q.lp, q.lp) <= q.a
                        /\ quote_remove(rb + q.b, lpSupply + q.lp, q.lp) <= q.b
  BY DEF DepositNeverProfits
<1> DEFINE q == quote_add(ra, rb, lpSupply, x, y)
           T == TotalShares(lpSupply)
<1>1. x \in Nat /\ y \in Nat /\ ra \in Nat /\ rb \in Nat /\ lpSupply \in Nat /\ T \in Nat
  BY AmountsNat, AmmAssumption DEF PoolTypeOK, TotalShares
<1>2. /\ q.a \in Nat /\ q.b \in Nat /\ q.lp \in Nat
      /\ q.lp * ra <= q.a * T /\ q.lp * rb <= q.b * T
  <2>1. CASE ra = 0 /\ rb = 0
    <3>1. q.a = x /\ q.b = y /\ q.lp \in Nat
      BY <2>1, AmmAssumption DEF quote_add, AddAccepts
    <3> HIDE DEF q, T
    <3>2. q.lp * ra = 0 /\ q.lp * rb = 0 /\ q.a * T \in Nat /\ q.b * T \in Nat
      BY <1>1, <2>1, <3>1, SMT
    <3> QED
      BY <1>1, <3>1, <3>2
  <2>2. CASE ra > 0 /\ rb > 0
    BY <1>1, <2>2, DepositFacts
  <2> QED
    BY <2>1, <2>2 DEF AddAccepts
<1> HIDE DEF q
<1> QED
  BY <1>1, <1>2, DepositRoundTrip DEF q, T

LEMMA SwapSafe == PoolTypeOK => SwapNeverProfits
<1> SUFFICES ASSUME PoolTypeOK, NEW x \in PoolAmounts, SwapAccepts(ra, rb, x, feeBps),
                    LET out == swap_output(ra, rb, x, feeBps)
                    IN  SwapAccepts(rb - out, ra + x, out, feeBps)
             PROVE  LET out == swap_output(ra, rb, x, feeBps)
                    IN  swap_output(rb - out, ra + x, out, feeBps) <= x
  BY DEF SwapNeverProfits
<1> DEFINE out == swap_output(ra, rb, x, feeBps)
           back == swap_output(rb - out, ra + x, out, feeBps)
<1>1. x \in Nat /\ ra \in Nat \ {0} /\ rb \in Nat \ {0} /\ feeBps \in 0 .. MAX_FEE_BPS
  BY AmountsNat DEF PoolTypeOK, SwapAccepts
<1>2. out \in Nat /\ out < rb /\ out * ra <= x * (rb - out)
  BY <1>1, SwapFacts
<1> HIDE DEF out, back
<1>3. rb - out \in Nat \ {0} /\ ra + x \in Nat \ {0}
  BY <1>1, <1>2
<1>4. back \in Nat /\ back < ra + x /\ back * (rb - out) <= out * (ra + x - back)
  <2>1. PICK v \in Nat \ {0}, w \in Nat \ {0} : v = rb - out /\ w = ra + x
    BY <1>3
  <2>2. LET o == swap_output(v, w, out, feeBps)
        IN  o \in Nat /\ o < w /\ o * v <= out * (w - o)
    BY <1>1, <1>2, SwapFacts
  <2>3. back = swap_output(v, w, out, feeBps)
    BY <2>1 DEF back
  <2> QED
    BY <1>1, <1>2, <2>1, <2>2, <2>3
<1>5. back <= x
  <2> SUFFICES ASSUME x < back PROVE FALSE
    BY <1>1, <1>4
  <2>1. PICK y \in Nat \ {0} : y = rb - out
    BY <1>3
  <2>2. x * y < back * y
    BY <1>1, <1>4, <2>1, SMT
  <2>3. out * (ra + x - back) <= out * ra
    BY <1>1, <1>2, <1>4, ProductMonotone
  <2>4. x * y \in Nat /\ back * y \in Nat /\ out * ra \in Nat /\ out * (ra + x - back) \in Nat
    <3>1. ra + x - back \in Nat
      BY <1>1, <1>4
    <3> QED
      BY <1>1, <1>2, <1>4, <2>1, <3>1, Product
  <2> QED
    BY <1>2, <1>4, <2>1, <2>2, <2>3, <2>4
<1> QED
  BY <1>5 DEF out, back

(* No deposit can be withdrawn at once for more than it took, and no swap  *)
(* can be swapped back for more than went in.                              *)
THEOREM NoProfitFromRoundTrips == PoolSpec => []RoundTripsNeverProfit
<1>1. PoolTypeOK => RoundTripsNeverProfit
  BY DepositSafe, SwapSafe DEF RoundTripsNeverProfit
<1> QED
  BY <1>1, TypeCorrect, PTL
=============================================================================
