--------------------------- MODULE ServicesProofs ---------------------------
(***************************************************************************)
(* The rate limiter, the price cache and the picture store of the server,  *)
(* for any number of callers, readers and uploads, any window, lifetime    *)
(* and cap.                                                                *)
(*                                                                         *)
(* The limiter keeps its window because what it keeps of a caller is the   *)
(* end of all it granted, and what it dropped has left the window          *)
(* (Remembered); so an allowed hit is a window away from the one MaxHits   *)
(* before.  A price is too old only after a failure because the cached     *)
(* price is the newest anybody was given (Newest).  Nothing is half served *)
(* because a description exists only behind a whole picture (InOrder), and *)
(* the cap holds without overlapping uploads because an upload is counted  *)
(* from the moment it is accepted, before it has stored anything (Roomy).  *)
(***************************************************************************)
EXTENDS RateLimiter, PriceCache, NftStore,
        FiniteSetTheorems, SequenceTheorems, WellFoundedInduction, TLAPS

(* A set of numbers has a least element: induction, without an operator    *)
(* for a parameter.                                                        *)
LEMMA LeastNat ==
    ASSUME NEW S \in SUBSET Nat, S # {}
    PROVE  \E n \in S : \A m \in S : n <= m
  <1>1. PICK n \in S : \A m \in S : ~(<<m, n>> \in OpToRel(<, Nat))
    BY NatLessThanWellFounded, WFMin
  <1>2. \A m \in S : ~(m < n)
    <2> TAKE m \in S
    <2>1. ~(<<m, n>> \in OpToRel(<, Nat)) BY <1>1
    <2> QED BY <2>1 DEF OpToRel
  <1> QED BY <1>2

-----------------------------------------------------------------------------
(* The rate limiter.                                                       *)

Sorted(times) == \A i, j \in 1 .. Len(times) : i <= j => times[i] <= times[j]

(* The first d of the times have left the window, the others have not.     *)
CutAt(times, d) ==
    /\ d \in 0 .. Len(times)
    /\ \A i \in 1 .. Len(times) : Live(times[i]) <=> i > d

Behind(times, d, n) == [i \in 1 .. n |-> times[d + i]]

LEMMA SortedIsCut ==
    ASSUME clock \in Nat, NEW times \in Seq(Nat), Sorted(times)
    PROVE  \E d : CutAt(times, d)
  <1> DEFINE S == {i \in 1 .. Len(times) : Live(times[i])}
  <1>1. Len(times) \in Nat /\ \A i \in 1 .. Len(times) : times[i] \in Nat OBVIOUS
  <1>2. CASE S = {}
    <2>1. CutAt(times, Len(times)) BY <1>1, <1>2 DEF CutAt
    <2> QED BY <2>1
  <1>3. CASE S # {}
    <2>1. S \in SUBSET Nat BY <1>1
    <2>2. PICK n \in S : \A m \in S : n <= m BY <1>3, <2>1, LeastNat
    <2>3. n \in 1 .. Len(times) /\ Live(times[n]) OBVIOUS
    <2>4. ASSUME NEW i \in 1 .. Len(times) PROVE Live(times[i]) <=> i > n - 1
      <3>1. ASSUME Live(times[i]) PROVE i > n - 1
        <4>1. n <= i BY <2>2, <3>1
        <4> QED BY <4>1, <2>3, <1>1
      <3>2. ASSUME i > n - 1 PROVE Live(times[i])
        <4>1. n <= i BY <3>2, <2>3, <1>1
        <4>2. times[n] <= times[i] BY <4>1, <2>3 DEF Sorted
        <4>3. times[n] \in Nat /\ times[i] \in Nat /\ clock - times[n] < Window
          BY <1>1, <2>3 DEF Live
        <4>4. Window \in Nat BY LimiterAssumption
        <4> QED BY <4>2, <4>3, <4>4 DEF Live
      <3> QED BY <3>1, <3>2
    <2>5. n - 1 \in 0 .. Len(times) BY <1>1, <2>3
    <2>6. CutAt(times, n - 1) BY <2>4, <2>5 DEF CutAt
    <2> QED BY <2>6
  <1> QED BY <1>2, <1>3

(* The filter of a list in order: what is behind the cut. *)
Filters(f, times) ==
    f = [n \in 0 .. Len(times) |->
            IF n = 0 THEN <<>>
            ELSE IF Live(times[n]) THEN Append(f[n - 1], times[n]) ELSE f[n - 1]]

LEMMA FilterIsTheRest ==
    ASSUME NEW times \in Seq(Nat), NEW d, CutAt(times, d)
    PROVE  OnlyLive(times) = Behind(times, d, Len(times) - d)
  <1> DEFINE L == Len(times)
             g == [n \in 0 .. L |-> IF n <= d THEN <<>> ELSE Behind(times, d, n - d)]
  <1>1. L \in Nat /\ d \in Nat /\ d <= L /\ \A i \in 1 .. L : times[i] \in Nat
    BY DEF CutAt
  <1>2. ASSUME NEW n \in 0 .. L
        PROVE  g[n] = IF n = 0 THEN <<>>
                      ELSE IF Live(times[n]) THEN Append(g[n - 1], times[n]) ELSE g[n - 1]
    <2>1. CASE n = 0 BY <1>1, <2>1
    <2>2. CASE n # 0 /\ n <= d
      <3>1. ~Live(times[n]) /\ g[n] = <<>> /\ g[n - 1] = <<>> BY <1>1, <2>2 DEF CutAt
      <3> QED BY <2>2, <3>1
    <2>3. CASE n > d
      <3>1. n # 0 /\ n \in 1 .. L /\ Live(times[n]) /\ g[n] = Behind(times, d, n - d)
        BY <1>1, <2>3 DEF CutAt
      <3>2. g[n - 1] = Behind(times, d, n - 1 - d)
        <4>1. CASE n - 1 <= d
          <5>1. n - 1 - d = 0 /\ g[n - 1] = <<>> BY <1>1, <2>3, <4>1
          <5> QED BY <5>1 DEF Behind
        <4>2. CASE ~(n - 1 <= d) BY <1>1, <3>1, <4>2
        <4> QED BY <4>1, <4>2
      <3>3. Append(Behind(times, d, n - 1 - d), times[n]) = Behind(times, d, n - d)
        <4> DEFINE k == n - 1 - d
        <4>1. k \in Nat /\ n - d = k + 1 /\ d + (k + 1) = n BY <1>1, <2>3
        <4>2. \A i \in 1 .. k + 1 : d + i \in 1 .. L BY <1>1, <3>1, <4>1
        <4>3. \A i \in 1 .. k + 1 : times[d + i] \in Nat BY <1>1, <4>2
        <4> HIDE DEF k
        <4>4. Behind(times, d, k) \in Seq(Nat) /\ Len(Behind(times, d, k)) = k
          BY <4>1, <4>3 DEF Behind
        <4>5. Behind(times, d, k + 1) \in Seq(Nat) /\ Len(Behind(times, d, k + 1)) = k + 1
          BY <4>1, <4>3 DEF Behind
        <4>6. \A i \in 1 .. k + 1 : Append(Behind(times, d, k), times[n])[i] = Behind(times, d, k + 1)[i]
          BY <4>1, <4>4 DEF Behind
        <4>7. times[n] \in Nat BY <1>1, <3>1
        <4>8. Append(Behind(times, d, k), times[n]) \in Seq(Nat)
              /\ Len(Append(Behind(times, d, k), times[n])) = k + 1
          BY <4>1, <4>4, <4>7
        <4>9. Append(Behind(times, d, k), times[n]) = Behind(times, d, k + 1)
          BY <4>5, <4>6, <4>8, SeqEqual
        <4> QED BY <4>1, <4>9 DEF k
      <3> QED BY <3>1, <3>2, <3>3
    <2> QED BY <1>1, <2>1, <2>2, <2>3
  <1>3. Filters(g, times) BY <1>2 DEF Filters
  <1> HIDE DEF g
  <1> DEFINE f == CHOOSE h : Filters(h, times)
  <1>4. Filters(f, times) BY <1>3
  <1>5. OnlyLive(times) = f[L] BY DEF OnlyLive, Filters
  <1> HIDE DEF f
  <1>6. \A n \in 0 .. L : f[n] = g[n]
    <2> DEFINE S == {n \in 0 .. L : f[n] # g[n]}
    <2> SUFFICES ASSUME S # {} PROVE FALSE OBVIOUS
    <2>0. S \in SUBSET Nat BY <1>1
    <2>1. PICK n \in S : \A m \in S : n <= m BY <2>0, LeastNat
    <2>2. n \in 0 .. L /\ f[n] # g[n] OBVIOUS
    <2>3. n # 0 BY <2>2, <1>3, <1>4, <1>1 DEF Filters
    <2>4. n - 1 \in 0 .. L /\ ~(n <= n - 1) BY <1>1, <2>2, <2>3
    <2>5. f[n - 1] = g[n - 1] BY <2>1, <2>4
    <2> QED BY <2>2, <2>3, <2>5, <1>3, <1>4 DEF Filters
  <1>7. f[L] = g[L] BY <1>1, <1>6
  <1>8. g[L] = Behind(times, d, L - d)
    <2>1. CASE L <= d
      <3>1. L - d = 0 /\ L \in 0 .. L BY <1>1, <2>1
      <3> QED BY <2>1, <3>1 DEF Behind, g
    <2>2. CASE ~(L <= d) BY <1>1, <2>2 DEF g
    <2> QED BY <2>1, <2>2
  <1> QED BY <1>5, <1>7, <1>8

(* What the map keeps of a caller is the end of all it was granted, and    *)
(* everything it has dropped or forgotten has left the window.             *)
Dropped(c) == Len(granted[c]) - Len(Known(c))

Remembered(c) ==
    /\ Dropped(c) >= 0
    /\ \A i \in 1 .. Len(Known(c)) : Known(c)[i] = granted[c][Dropped(c) + i]
    /\ \A i \in 1 .. Dropped(c) : ~Live(granted[c][i])

Spaced(c) ==
    \A i \in 1 .. Len(granted[c]) :
        i + MaxHits <= Len(granted[c]) => granted[c][i + MaxHits] - granted[c][i] >= Window

GrantedOk(c) ==
    /\ granted[c] \in Seq(Nat) /\ Known(c) \in Seq(Nat)
    /\ Sorted(granted[c])
    /\ \A i \in 1 .. Len(granted[c]) : granted[c][i] <= clock
    /\ Remembered(c)
    /\ Spaced(c)

LimiterInv ==
    /\ clock \in Nat
    /\ granted \in [Callers -> Seq(Nat)]
    /\ \A c \in Callers : GrantedOk(c)

(* The recent hits of a caller are the granted ones still in the window.   *)
LEMMA RecentFacts ==
    ASSUME clock \in Nat, NEW c \in Callers, GrantedOk(c)
    PROVE  LET r == Recent(c)
               d == Len(granted[c]) - Len(r)
           IN  /\ r \in Seq(Nat) /\ d \in Nat /\ Sorted(r)
               /\ \A i \in 1 .. Len(r) : r[i] = granted[c][d + i] /\ Live(r[i]) /\ r[i] <= clock
               /\ \A i \in 1 .. d : ~Live(granted[c][i])
  <1> DEFINE g == granted[c]
             h == Known(c)
             b == Dropped(c)
             r == Recent(c)
             d == Len(g) - Len(r)
  <1>1. /\ g \in Seq(Nat) /\ h \in Seq(Nat) /\ Sorted(g) /\ b = Len(g) - Len(h) /\ b >= 0
        /\ \A i \in 1 .. Len(g) : g[i] <= clock
        /\ \A i \in 1 .. Len(h) : h[i] = g[b + i]
        /\ \A i \in 1 .. b : ~Live(g[i])
        /\ r = OnlyLive(h)
    BY DEF GrantedOk, Remembered, Dropped, Recent
  <1> HIDE DEF g, h, b, r
  <1>2. Len(g) \in Nat /\ Len(h) \in Nat /\ b \in Nat BY <1>1
  <1>3. \A i \in 1 .. Len(h) : b + i \in 1 .. Len(g) BY <1>1, <1>2
  <1>4. Sorted(h)
    <2> SUFFICES ASSUME NEW i \in 1 .. Len(h), NEW j \in 1 .. Len(h), i <= j PROVE h[i] <= h[j]
      BY DEF Sorted
    <2>1. b + i \in 1 .. Len(g) /\ b + j \in 1 .. Len(g) /\ b + i <= b + j BY <1>2, <1>3
    <2> QED BY <1>1, <2>1 DEF Sorted
  <1>5. PICK k : CutAt(h, k) BY <1>1, <1>4, SortedIsCut
  <1>6. k \in 0 .. Len(h) /\ \A i \in 1 .. Len(h) : Live(h[i]) <=> i > k BY <1>5 DEF CutAt
  <1>7. r = [i \in 1 .. Len(h) - k |-> h[k + i]]
    BY <1>1, <1>5, FilterIsTheRest DEF Behind
  <1>8. Len(h) - k \in Nat /\ \A i \in 1 .. Len(h) - k : k + i \in 1 .. Len(h) /\ k + i > k
    BY <1>2, <1>6
  <1>9. \A i \in 1 .. Len(h) : h[i] \in Nat BY <1>1
  <1>10. r \in Seq(Nat) /\ Len(r) = Len(h) - k BY <1>7, <1>8, <1>9
  <1>11. d = b + k BY <1>1, <1>2, <1>6, <1>10
  <1>12. d \in Nat BY <1>2, <1>6, <1>11
  <1>13. ASSUME NEW i \in 1 .. Len(r) PROVE r[i] = g[d + i] /\ Live(r[i]) /\ r[i] <= clock
    <2>1. k + i \in 1 .. Len(h) /\ k + i > k /\ r[i] = h[k + i] BY <1>7, <1>8, <1>10
    <2>2. h[k + i] = g[b + (k + i)] /\ b + (k + i) \in 1 .. Len(g) BY <1>1, <1>3, <2>1
    <2>3. b + (k + i) = d + i BY <1>2, <1>6, <1>10, <1>11
    <2> QED BY <1>1, <1>6, <2>1, <2>2, <2>3
  <1>14. ASSUME NEW i \in 1 .. d PROVE ~Live(g[i])
    <2>1. CASE i <= b BY <1>1, <1>2, <2>1
    <2>2. CASE i > b
      <3>1. i - b \in 1 .. Len(h) /\ ~(i - b > k) /\ b + (i - b) = i BY <1>2, <1>6, <1>11, <2>2
      <3> QED BY <1>1, <1>6, <3>1
    <2> QED BY <2>1, <2>2, <1>12, <1>2
  <1>15. Sorted(r)
    <2> SUFFICES ASSUME NEW i \in 1 .. Len(r), NEW j \in 1 .. Len(r), i <= j PROVE r[i] <= r[j]
      BY DEF Sorted
    <2>1. k + i \in 1 .. Len(h) /\ k + j \in 1 .. Len(h) /\ k + i <= k + j BY <1>6, <1>8, <1>10
    <2>2. r[i] = h[k + i] /\ r[j] = h[k + j] BY <1>7, <1>10
    <2> QED BY <1>4, <2>1, <2>2 DEF Sorted
  <1> QED BY <1>10, <1>12, <1>13, <1>14, <1>15 DEF g, r

(* No more than MaxHits of them: that many apart is a window apart.        *)
LEMMA RecentFit ==
    ASSUME clock \in Nat, NEW c \in Callers, GrantedOk(c)
    PROVE  Len(Recent(c)) <= MaxHits
  <1> DEFINE r == Recent(c)
             d == Len(granted[c]) - Len(r)
  <1>1. /\ r \in Seq(Nat) /\ d \in Nat
        /\ \A i \in 1 .. Len(r) : r[i] = granted[c][d + i] /\ Live(r[i]) /\ r[i] <= clock
    BY RecentFacts
  <1>2. granted[c] \in Seq(Nat) /\ Spaced(c) BY DEF GrantedOk
  <1> HIDE DEF r
  <1>3. Len(r) \in Nat /\ Len(granted[c]) = d + Len(r) BY <1>1, <1>2
  <1> SUFFICES ASSUME Len(r) > MaxHits PROVE FALSE
    BY <1>3, LimiterAssumption DEF r
  <1> HIDE DEF d
  <1>4. MaxHits \in Nat /\ Window \in Nat /\ 1 \in 1 .. Len(r) /\ 1 + MaxHits \in 1 .. Len(r)
    BY <1>3, LimiterAssumption
  <1>5. r[1] = granted[c][d + 1] /\ r[1 + MaxHits] = granted[c][d + (1 + MaxHits)]
        /\ Live(r[1]) /\ r[1 + MaxHits] <= clock
    BY <1>1, <1>4
  <1>6. /\ d + 1 \in 1 .. Len(granted[c]) /\ (d + 1) + MaxHits <= Len(granted[c])
        /\ (d + 1) + MaxHits = d + (1 + MaxHits)
    BY <1>1, <1>3, <1>4
  <1>7. r[1 + MaxHits] - r[1] >= Window BY <1>2, <1>5, <1>6 DEF Spaced
  <1>8. r[1] \in Nat /\ r[1 + MaxHits] \in Nat BY <1>1, <1>4
  <1> QED BY <1>4, <1>5, <1>7, <1>8 DEF Live

LEMMA LimiterInitially == LimiterInit => LimiterInv
  <1> SUFFICES ASSUME LimiterInit PROVE LimiterInv OBVIOUS
  <1>1. clock \in Nat /\ granted \in [Callers -> Seq(Nat)] BY DEF LimiterInit
  <1>2. ASSUME NEW c \in Callers PROVE GrantedOk(c)
    <2>1. granted[c] = <<>> /\ Known(c) = <<>> BY DEF LimiterInit, Known
    <2> QED BY <2>1 DEF GrantedOk, Sorted, Remembered, Dropped, Spaced
  <1> QED BY <1>1, <1>2 DEF LimiterInv

(* A caller whose list the map keeps, or drops as all its times have left  *)
(* the window, is remembered as before.                                    *)
LEMMA KeptOrForgotten ==
    ASSUME clock \in Nat, NEW c \in Callers, GrantedOk(c), clock' = clock,
           granted'[c] = granted[c],
           \/ Known(c)' = Known(c)
           \/ Known(c)' = <<>> /\ \A i \in 1 .. Len(Known(c)) : ~Live(Known(c)[i])
           \/ Known(c)' = Recent(c)
    PROVE  GrantedOk(c)'
  <1> DEFINE g == granted[c]
             h == Known(c)
  <1>1. /\ g \in Seq(Nat) /\ h \in Seq(Nat) /\ Dropped(c) = Len(g) - Len(h) /\ Dropped(c) >= 0
        /\ \A i \in 1 .. Len(h) : h[i] = g[Dropped(c) + i]
        /\ \A i \in 1 .. Dropped(c) : ~Live(g[i])
    BY DEF GrantedOk, Remembered, Dropped
  <1>2. Len(g) \in Nat /\ Len(h) \in Nat /\ Dropped(c) \in Nat BY <1>1
  <1>3. \A at : Live(at)' <=> Live(at) BY DEF Live
  <1>4. Sorted(granted[c])' /\ Spaced(c)' /\ (\A i \in 1 .. Len(granted[c]) : granted[c][i] <= clock)'
    BY DEF GrantedOk, Sorted, Spaced
  <1>5. CASE Known(c)' = Known(c)
    BY <1>1, <1>3, <1>4, <1>5 DEF GrantedOk, Remembered, Dropped
  <1>6. CASE Known(c)' = <<>> /\ \A i \in 1 .. Len(Known(c)) : ~Live(Known(c)[i])
    <2>1. \A i \in 1 .. Len(g) : ~Live(g[i])
      <3> TAKE i \in 1 .. Len(g)
      <3>1. CASE i <= Dropped(c) BY <1>1, <1>2, <3>1
      <3>2. CASE i > Dropped(c)
        <4>0. PICK b, lg, lh : b = Dropped(c) /\ lg = Len(g) /\ lh = Len(h) OBVIOUS
        <4>1. i - Dropped(c) \in 1 .. Len(h) /\ Dropped(c) + (i - Dropped(c)) = i
          <5>1. b \in Nat /\ lg \in Nat /\ lh \in Nat /\ b = lg - lh /\ i \in 1 .. lg /\ i > b
            BY <1>1, <1>2, <3>2, <4>0
          <5>2. i - b \in 1 .. lh /\ b + (i - b) = i BY <5>1
          <5> QED BY <4>0, <5>2
        <4>2. h[i - Dropped(c)] = g[i] BY <1>1, <4>1
        <4> QED BY <1>6, <4>1, <4>2
      <3> QED BY <1>2, <3>1, <3>2
    <2>2. Dropped(c)' = Len(g) BY <1>2, <1>6 DEF Dropped
    <2>3. Remembered(c)' BY <1>2, <1>3, <1>6, <2>1, <2>2 DEF Remembered
    <2>4. Known(c)' \in Seq(Nat) /\ granted'[c] \in Seq(Nat) BY <1>1, <1>6
    <2> QED BY <1>4, <2>3, <2>4 DEF GrantedOk
  <1>7. CASE Known(c)' = Recent(c)
    <2> DEFINE r == Recent(c)
               d == Len(g) - Len(r)
    <2>1. /\ r \in Seq(Nat) /\ d \in Nat
          /\ \A i \in 1 .. Len(r) : r[i] = g[d + i]
          /\ \A i \in 1 .. d : ~Live(g[i])
      BY RecentFacts
    <2>2. Dropped(c)' = d BY <1>7 DEF Dropped
    <2>3. Remembered(c)' BY <1>3, <1>7, <2>1, <2>2 DEF Remembered
    <2>4. Known(c)' \in Seq(Nat) /\ granted'[c] \in Seq(Nat) BY <1>1, <1>7, <2>1
    <2> QED BY <1>4, <2>3, <2>4 DEF GrantedOk
  <1> QED BY <1>5, <1>6, <1>7

(* An allowed hit is at least a window away from the one MaxHits before.   *)
LEMMA AllowedHit ==
    ASSUME clock \in Nat, NEW c \in Callers, GrantedOk(c), ~Refused(c), clock' = clock,
           granted'[c] = Append(granted[c], clock),
           Known(c)' = Append(Recent(c), clock)
    PROVE  GrantedOk(c)'
  <1> DEFINE g == granted[c]
             r == Recent(c)
  <1>0. PICK n, m, d : n = Len(g) /\ m = Len(r) /\ d = n - m OBVIOUS
  <1>1. /\ r \in Seq(Nat) /\ d \in Nat
        /\ \A i \in 1 .. m : r[i] = g[d + i]
        /\ \A i \in 1 .. d : ~Live(g[i])
    BY <1>0, RecentFacts
  <1>2. /\ g \in Seq(Nat) /\ Sorted(g) /\ Spaced(c)
        /\ \A i \in 1 .. n : g[i] <= clock
    BY <1>0 DEF GrantedOk
  <1>3. n \in Nat /\ m \in Nat /\ d \in Nat /\ n = d + m BY <1>0, <1>1, <1>2
  <1>4. m < MaxHits BY <1>0, <1>3, LimiterAssumption DEF Refused
  <1>5. /\ granted'[c] \in Seq(Nat) /\ Len(granted'[c]) = n + 1
        /\ granted'[c][n + 1] = clock /\ \A i \in 1 .. n : granted'[c][i] = g[i]
    BY <1>0, <1>2
  <1>6. /\ Known(c)' \in Seq(Nat) /\ Len(Known(c)') = m + 1
        /\ Known(c)'[m + 1] = clock /\ \A i \in 1 .. m : Known(c)'[i] = r[i]
    BY <1>0, <1>1
  <1>7. /\ Dropped(c)' = Len(granted'[c]) - Len(Known(c)')
        /\ \A i : ~Live(g[i]) => ~(clock - g[i] < Window)
    BY DEF Dropped, Live
  <1>8. \A i \in 1 .. n + 1 : granted'[c][i] <= clock
    <2> TAKE i \in 1 .. n + 1
    <2>1. CASE i = n + 1 BY <1>5, <2>1
    <2>2. CASE i \in 1 .. n BY <1>2, <1>5, <2>2
    <2>3. i = n + 1 \/ i \in 1 .. n BY <1>3
    <2> QED BY <2>1, <2>2, <2>3
  <1>9. Sorted(granted[c])'
    <2> SUFFICES ASSUME NEW i \in 1 .. n + 1, NEW j \in 1 .. n + 1, i <= j
                 PROVE  granted'[c][i] <= granted'[c][j]
      BY <1>5 DEF Sorted
    <2>1. CASE j = n + 1 BY <1>5, <1>8, <2>1
    <2>2. CASE j \in 1 .. n
      <3>1. i \in 1 .. n BY <1>3, <2>2
      <3> QED BY <1>2, <1>5, <2>2, <3>1 DEF Sorted
    <2>3. j = n + 1 \/ j \in 1 .. n BY <1>3
    <2> QED BY <2>1, <2>2, <2>3
  <1>10. Dropped(c)' = d
    <2>1. Dropped(c)' = (n + 1) - (m + 1) BY <1>5, <1>6, <1>7
    <2> QED BY <1>3, <2>1
  <1>11. Remembered(c)'
    <2>1. ASSUME NEW i \in 1 .. m + 1 PROVE Known(c)'[i] = granted'[c][d + i]
      <3>1. CASE i = m + 1
        <4>1. d + i = n + 1 BY <1>3, <3>1
        <4> QED BY <1>5, <1>6, <3>1, <4>1
      <3>2. CASE i \in 1 .. m
        <4>1. d + i \in 1 .. n BY <1>3, <3>2, <1>1
        <4> QED BY <1>1, <1>5, <1>6, <3>2, <4>1
      <3>3. i = m + 1 \/ i \in 1 .. m BY <1>3
      <3> QED BY <3>1, <3>2, <3>3
    <2>2. ASSUME NEW i \in 1 .. d PROVE ~(clock' - granted'[c][i] < Window)
      <3>1. i \in 1 .. n BY <1>1, <1>3
      <3>2. granted'[c][i] = g[i] BY <1>5, <3>1
      <3>3. ~(clock - g[i] < Window) BY <1>1, <1>7
      <3> QED BY <3>2, <3>3
    <2>3. d >= 0 BY <1>1
    <2> QED BY <1>6, <1>10, <2>1, <2>2, <2>3 DEF Remembered, Live
  <1>12. Spaced(c)'
    <2> SUFFICES ASSUME NEW i \in 1 .. n + 1, i + MaxHits <= n + 1
                 PROVE  granted'[c][i + MaxHits] - granted'[c][i] >= Window
      BY <1>5 DEF Spaced
    <2>0. i = n + 1 \/ i \in 1 .. n BY <1>3
    <2>1. MaxHits \in Nat \ {0} BY LimiterAssumption
    <2>2. i \in 1 .. n BY <1>3, <2>1
    <2>3. CASE i + MaxHits <= n
      <3>1. i + MaxHits \in 1 .. n BY <1>3, <2>1, <2>2, <2>3
      <3>2. g[i + MaxHits] - g[i] >= Window BY <1>0, <1>2, <2>2, <2>3 DEF Spaced
      <3> QED BY <1>5, <2>2, <3>1, <3>2
    <2>4. CASE i + MaxHits = n + 1
      <3>1. i \in 1 .. d BY <1>1, <1>3, <1>4, <2>1, <2>2, <2>4
      <3>2. ~Live(g[i]) /\ granted'[c][i] = g[i] /\ g[i] \in Nat BY <1>1, <1>2, <1>5, <2>2, <3>1
      <3>3. granted'[c][i + MaxHits] = clock BY <1>5, <2>4
      <3>4. Window \in Nat BY LimiterAssumption
      <3> QED BY <3>2, <3>3, <3>4 DEF Live
    <2>5. i + MaxHits <= n \/ i + MaxHits = n + 1 BY <1>3, <2>1
    <2> QED BY <2>3, <2>4, <2>5
  <1> QED BY <1>5, <1>6, <1>8, <1>9, <1>11, <1>12 DEF GrantedOk

(* The map after a hit, caller by caller. *)
LEMMA Noted ==
    ASSUME NEW c \in Callers, NEW e \in Callers, NEW times, hits' = With(c, times)
    PROVE  Known(e)' = IF e = c THEN times ELSE Known(e)
BY DEF With, Known

LEMMA NotedAndCleaned ==
    ASSUME NEW c \in Callers, NEW e \in Callers, NEW times, hits' = Cleaned(With(c, times)),
           \E i \in 1 .. Len(times) : Live(times[i])
    PROVE  IF e = c THEN Known(e)' = times
           ELSE \/ Known(e)' = Known(e)
                \/ Known(e)' = <<>> /\ \A i \in 1 .. Len(Known(e)) : ~Live(Known(e)[i])
  <1> DEFINE map == With(c, times)
             kept == {x \in DOMAIN map : \E i \in 1 .. Len(map[x]) : Live(map[x][i])}
  <1>1. /\ DOMAIN map = DOMAIN hits \cup {c} /\ map[c] = times
        /\ \A x \in DOMAIN hits : x # c => map[x] = hits[x]
    BY DEF With
  <1>2. CASE hits' = map BY <1>1, <1>2 DEF Known
  <1>3. CASE hits' = [x \in kept |-> map[x]]
    <2>1. DOMAIN hits' = kept /\ \A x \in kept : hits'[x] = map[x] BY <1>3
    <2>2. c \in kept BY <1>1
    <2>3. CASE e = c BY <1>1, <2>1, <2>2, <2>3 DEF Known
    <2>4. CASE e # c /\ e \in kept
      <3>1. e \in DOMAIN hits /\ hits'[e] = hits[e] BY <1>1, <2>1, <2>4
      <3> QED BY <2>1, <2>4, <3>1 DEF Known
    <2>5. CASE e # c /\ e \notin kept
      <3>1. Known(e)' = <<>> BY <2>1, <2>5 DEF Known
      <3>2. CASE e \in DOMAIN hits
        <4>1. map[e] = hits[e] /\ \A i \in 1 .. Len(hits[e]) : ~Live(hits[e][i])
          BY <1>1, <2>5, <3>2
        <4> QED BY <2>5, <3>1, <3>2, <4>1 DEF Known
      <3>3. CASE e \notin DOMAIN hits BY <2>5, <3>1, <3>3 DEF Known
      <3> QED BY <3>2, <3>3
    <2> QED BY <2>3, <2>4, <2>5
  <1> QED BY <1>2, <1>3 DEF Cleaned

LEMMA LimiterStep == LimiterInv /\ [LimiterNext]_limiterVars => LimiterInv'
  <1> SUFFICES ASSUME LimiterInv, [LimiterNext]_limiterVars PROVE LimiterInv' OBVIOUS
  <1>1. clock \in Nat /\ granted \in [Callers -> Seq(Nat)] /\ \A c \in Callers : GrantedOk(c)
    BY DEF LimiterInv
  <1>2. ASSUME NEW c \in Callers, Hit(c), Refused(c) PROVE LimiterInv'
    <2>1. hits' = With(c, Recent(c)) /\ granted' = granted /\ clock' = clock BY <1>2 DEF Hit
    <2>2. ASSUME NEW e \in Callers PROVE GrantedOk(e)'
      <3>1. Known(e)' = IF e = c THEN Recent(c) ELSE Known(e) BY <2>1, Noted
      <3>2. Known(e)' = Known(e) \/ Known(e)' = Recent(e) BY <3>1
      <3> QED BY <1>1, <2>1, <3>2, KeptOrForgotten
    <2> QED BY <1>1, <2>1, <2>2 DEF LimiterInv
  <1>3. ASSUME NEW c \in Callers, Hit(c), ~Refused(c) PROVE LimiterInv'
    <2> DEFINE times == Append(Recent(c), clock)
    <2>1. /\ hits' = Cleaned(With(c, times)) /\ clock' = clock
          /\ granted' = [granted EXCEPT ![c] = Append(@, clock)]
      BY <1>3 DEF Hit
    <2>2. granted'[c] = Append(granted[c], clock) /\ \A e \in Callers : e # c => granted'[e] = granted[e]
      BY <1>1, <2>1
    <2>3. Recent(c) \in Seq(Nat) BY <1>1, RecentFacts
    <2>4. Len(times) \in 1 .. Len(times) /\ times[Len(times)] = clock BY <1>1, <2>3
    <2>5. Live(clock) BY <1>1, LimiterAssumption DEF Live
    <2>6. \E i \in 1 .. Len(times) : Live(times[i]) BY <2>4, <2>5
    <2> HIDE DEF times
    <2>7. ASSUME NEW e \in Callers
          PROVE  IF e = c THEN Known(e)' = times
                 ELSE \/ Known(e)' = Known(e)
                      \/ Known(e)' = <<>> /\ \A i \in 1 .. Len(Known(e)) : ~Live(Known(e)[i])
      BY <2>1, <2>6, NotedAndCleaned
    <2>8. GrantedOk(c)' BY <1>1, <1>3, <2>1, <2>2, <2>7, AllowedHit DEF times
    <2>9. ASSUME NEW e \in Callers, e # c PROVE GrantedOk(e)'
      BY <1>1, <2>1, <2>2, <2>7, <2>9, KeptOrForgotten
    <2>10. granted' \in [Callers -> Seq(Nat)] BY <1>1, <2>1
    <2> QED BY <1>1, <2>1, <2>8, <2>9, <2>10 DEF LimiterInv
  <1>4. ASSUME Pass PROVE LimiterInv'
    <2>1. clock' = clock + 1 /\ hits' = hits /\ granted' = granted BY <1>4 DEF Pass
    <2>2. ASSUME NEW c \in Callers PROVE GrantedOk(c)'
      <3>1. Known(c)' = Known(c) /\ Dropped(c)' = Dropped(c) BY <2>1 DEF Known, Dropped
      <3>2. GrantedOk(c) /\ granted[c] \in Seq(Nat) /\ Known(c) \in Seq(Nat) /\ Remembered(c)
        BY <1>1 DEF GrantedOk
      <3>3. \A i \in 1 .. Len(granted[c]) : granted[c][i] \in Nat /\ granted[c][i] <= clock
        BY <3>2 DEF GrantedOk
      <3>4. \A i \in 1 .. Len(granted[c]) : granted[c][i] <= clock' BY <1>1, <2>1, <3>3
      <3>5. Dropped(c) <= Len(granted[c]) /\ Dropped(c) \in Nat BY <3>2 DEF Dropped, Remembered
      <3>6. ASSUME NEW i \in 1 .. Dropped(c) PROVE ~(clock' - granted[c][i] < Window)
        <4>1. i \in 1 .. Len(granted[c]) BY <3>2, <3>5
        <4>2. ~(clock - granted[c][i] < Window) /\ granted[c][i] \in Nat
          BY <3>2, <3>3, <4>1 DEF Remembered, Live
        <4>3. Window \in Nat BY LimiterAssumption
        <4> QED BY <1>1, <2>1, <4>2, <4>3
      <3>7. Remembered(c)' BY <2>1, <3>1, <3>2, <3>6 DEF Remembered, Live
      <3> QED BY <2>1, <3>1, <3>2, <3>4, <3>7 DEF GrantedOk, Sorted, Spaced
    <2> QED BY <1>1, <2>1, <2>2 DEF LimiterInv
  <1>5. ASSUME UNCHANGED limiterVars PROVE LimiterInv'
    <2>1. clock' = clock /\ granted' = granted /\ hits' = hits BY <1>5 DEF limiterVars
    <2>2. ASSUME NEW c \in Callers PROVE GrantedOk(c)'
      <3>1. Known(c)' = Known(c) BY <2>1 DEF Known
      <3> QED BY <1>1, <2>1, <3>1, KeptOrForgotten
    <2> QED BY <1>1, <2>1, <2>2 DEF LimiterInv
  <1> QED BY <1>2, <1>3, <1>4, <1>5 DEF LimiterNext

(* The history of every caller, and what the limiter remembers of it.      *)
THEOREM LimiterInvariance == LimiterSpec => []LimiterInv
  BY LimiterInitially, LimiterStep, PTL DEF LimiterSpec

(* No window ever holds more than MaxHits allowed hits of one caller,      *)
(* whatever callers the map was cleaned of in between.                     *)
THEOREM WindowAlwaysHeld == LimiterSpec => []WindowHeld
  <1>1. LimiterInv => WindowHeld BY DEF LimiterInv, GrantedOk, Spaced, WindowHeld
  <1> QED BY <1>1, LimiterInvariance, PTL

(* A refused caller is told exactly how long to wait.                      *)
THEOREM WaitIsExact == LimiterSpec => []RetryAfterExact
  <1>1. ASSUME LimiterInv, NEW c \in Callers, Refused(c)
        PROVE  /\ RetryAfter(c) \in 1 .. Window
               /\ Cardinality({i \in 1 .. Len(Recent(c)) :
                      (clock + RetryAfter(c)) - Recent(c)[i] < Window}) < MaxHits
               /\ Cardinality({i \in 1 .. Len(Recent(c)) :
                      (clock + RetryAfter(c) - 1) - Recent(c)[i] < Window}) >= MaxHits
    <2> DEFINE r == Recent(c)
               n == Len(r)
               wait == RetryAfter(c)
               later == {i \in 1 .. n : (clock + wait) - r[i] < Window}
               before == {i \in 1 .. n : (clock + wait - 1) - r[i] < Window}
    <2>1. clock \in Nat /\ GrantedOk(c) BY <1>1 DEF LimiterInv
    <2>2. /\ r \in Seq(Nat) /\ Sorted(r)
          /\ \A i \in 1 .. n : Live(r[i]) /\ r[i] <= clock
      BY <2>1, RecentFacts
    <2>3. n \in Nat /\ n >= MaxHits /\ n <= MaxHits BY <1>1, <2>1, <2>2, RecentFit DEF Refused
    <2>4. MaxHits \in Nat \ {0} /\ Window \in Nat BY LimiterAssumption
    <2>5. n = MaxHits /\ 1 \in 1 .. n BY <2>3, <2>4
    <2>6. /\ \A i \in 1 .. n : r[i] \in Nat /\ r[1] <= r[i]
          /\ wait = Window - (clock - r[1])
      BY <2>2, <2>5 DEF Sorted, RetryAfter
    <2> HIDE DEF r, wait
    <2>7. r[1] \in Nat /\ r[1] <= clock /\ clock - r[1] < Window BY <2>2, <2>5, <2>6 DEF Live
    <2>8. wait \in 1 .. Window BY <2>1, <2>4, <2>6, <2>7
    <2>9. later \subseteq 2 .. n
      <3>1. ~((clock + wait) - r[1] < Window) BY <2>1, <2>4, <2>6, <2>7
      <3> QED BY <2>3, <3>1
    <2>10. before = 1 .. n
      <3>1. \A i \in 1 .. n : (clock + wait - 1) - r[i] < Window
        BY <2>1, <2>4, <2>6, <2>7
      <3> QED BY <3>1
    <2>11. IsFiniteSet(2 .. n) /\ Cardinality(2 .. n) = n - 1 /\ Cardinality(1 .. n) = n
      BY <2>3, <2>4, <2>5, FS_Interval
    <2>12. Cardinality(later) <= n - 1 /\ Cardinality(later) \in Nat
      BY <2>9, <2>11, FS_Subset, FS_CardinalityType
    <2>13. Cardinality(later) < MaxHits BY <2>3, <2>5, <2>12
    <2>14. Cardinality(before) >= MaxHits BY <2>3, <2>5, <2>10, <2>11
    <2> QED BY <2>8, <2>13, <2>14 DEF r, wait
  <1>2. LimiterInv => RetryAfterExact BY <1>1 DEF RetryAfterExact
  <1> QED BY <1>2, LimiterInvariance, PTL

-----------------------------------------------------------------------------
(* The price cache.                                                        *)

Instants == Nat \cup {Never}

(* The cached price is the newest that anybody was given. *)
Newest(at) == at # Never => cachedAt # Never /\ at <= cachedAt

PriceInv ==
    /\ time \in Nat
    /\ cachedAt \in Instants
    /\ cachedAt # Never => cachedAt <= time
    /\ answers \in [Readers -> [at : Instants, stale : BOOLEAN, given : BOOLEAN]]
    /\ \A q \in Readers : Newest(answers[q].at)

LEMMA GivenAnswer ==
    ASSUME NEW at \in Instants
    PROVE  Given(at) \in [at : Instants, stale : BOOLEAN, given : BOOLEAN] /\ Given(at).at = at
  <1>1. (at # Never /\ TooOld(at)) \in BOOLEAN OBVIOUS
  <1> QED BY <1>1 DEF Given

LEMMA PriceInitially == PriceInit => PriceInv
  BY DEF PriceInit, PriceInv, NoAnswer, Newest, Instants

(* What a request or the end of a fetch does to the answers. *)
LEMMA Answered ==
    ASSUME PriceInv, cachedAt' \in Instants,
           cachedAt' # Never => cachedAt' <= time,
           cachedAt # Never => cachedAt' # Never /\ cachedAt <= cachedAt',
           NEW S \in SUBSET Readers, time' = time,
           answers' = [r \in Readers |-> IF r \in S THEN Given(cachedAt') ELSE answers[r]]
    PROVE  PriceInv'
  <1>1. /\ time \in Nat /\ cachedAt \in Instants
        /\ answers \in [Readers -> [at : Instants, stale : BOOLEAN, given : BOOLEAN]]
        /\ \A q \in Readers : Newest(answers[q].at)
    BY DEF PriceInv
  <1>2. PICK at : at = cachedAt' OBVIOUS
  <1>3. /\ at \in Instants
        /\ Given(at) \in [at : Instants, stale : BOOLEAN, given : BOOLEAN] /\ Given(at).at = at
    BY <1>2, GivenAnswer
  <1>4. answers' = [r \in Readers |-> IF r \in S THEN Given(at) ELSE answers[r]] BY <1>2
  <1>5. answers' \in [Readers -> [at : Instants, stale : BOOLEAN, given : BOOLEAN]]
    BY <1>1, <1>3, <1>4
  <1>6. ASSUME NEW q \in Readers PROVE answers'[q].at # Never => at # Never /\ answers'[q].at <= at
    <2>1. CASE q \in S
      <3>1. answers'[q].at = at BY <1>3, <1>4, <2>1
      <3> QED BY <1>3, <3>1 DEF Instants
    <2>2. CASE q \notin S
      <3>1. answers'[q] = answers[q] BY <1>4, <2>2
      <3>2. answers[q].at \in Instants /\ Newest(answers[q].at) BY <1>1
      <3> QED BY <1>1, <1>2, <1>3, <3>1, <3>2 DEF Newest, Instants
    <2> QED BY <2>1, <2>2
  <1>7. \A q \in Readers : Newest(answers[q].at)' BY <1>2, <1>6 DEF Newest
  <1> QED BY <1>1, <1>2, <1>3, <1>5, <1>7 DEF PriceInv

LEMMA PriceStep ==
    ASSUME PriceInv, [PriceNext]_priceVars
    PROVE  /\ PriceInv'
           /\ \/ UNCHANGED answers
              \/ /\ cachedAt' # Never => time - cachedAt' < Ttl \/ lastFetch' = "failed"
                 /\ cachedAt' = Never => lastFetch' = "failed"
                 /\ cachedAt # Never => cachedAt' # Never /\ cachedAt <= cachedAt'
                 /\ \A r \in Readers : answers'[r] # answers[r] => answers'[r].at = cachedAt'
  <1>1. /\ time \in Nat /\ cachedAt \in Instants /\ Ttl \in Nat \ {0} /\ Never \notin Nat
        /\ cachedAt # Never => cachedAt <= time
        /\ answers \in [Readers -> [at : Instants, stale : BOOLEAN, given : BOOLEAN]]
    BY PriceAssumption DEF PriceInv
  <1>2. ASSUME NEW r \in Readers, Get(r), TooOld(cachedAt) PROVE PriceInv' /\ UNCHANGED answers
    BY <1>2 DEF Get, PriceInv, Newest
  <1>3. ASSUME NEW r \in Readers, Get(r), ~TooOld(cachedAt)
        PROVE  /\ PriceInv'
               /\ cachedAt' # Never /\ time - cachedAt' < Ttl /\ cachedAt <= cachedAt'
               /\ \A q \in Readers : answers'[q] # answers[q] => answers'[q].at = cachedAt'
    <2>1. cachedAt' = cachedAt /\ time' = time /\ answers' = [answers EXCEPT ![r] = Given(cachedAt)]
      BY <1>3 DEF Get
    <2>2. cachedAt # Never /\ cachedAt \in Nat /\ ~(time - cachedAt >= Ttl)
      BY <1>1, <1>3 DEF TooOld, Instants
    <2>3. time - cachedAt < Ttl BY <1>1, <2>2
    <2>4. answers' = [q \in Readers |-> IF q \in {r} THEN Given(cachedAt) ELSE answers[q]]
      BY <1>1, <2>1
    <2>5. Given(cachedAt).at = cachedAt BY <1>1, GivenAnswer
    <2>6. cachedAt <= cachedAt BY <2>2
    <2>7. answers' = [q \in Readers |-> IF q \in {r} THEN Given(cachedAt') ELSE answers[q]]
      BY <2>1, <2>4
    <2>8. PriceInv' BY <1>1, <2>1, <2>2, <2>6, <2>7, Answered
    <2> QED BY <2>1, <2>2, <2>3, <2>4, <2>5, <2>8
  <1>4. ASSUME Settle
        PROVE  /\ PriceInv'
               /\ cachedAt' # Never => time - cachedAt' < Ttl \/ lastFetch' = "failed"
               /\ cachedAt' = Never => lastFetch' = "failed"
               /\ cachedAt # Never => cachedAt' # Never /\ cachedAt <= cachedAt'
               /\ \A r \in Readers : answers'[r] # answers[r] => answers'[r].at = cachedAt'
    <2>1. /\ time' = time
          /\ \/ cachedAt' = time
             \/ cachedAt' = cachedAt /\ lastFetch' = "failed"
      BY <1>4 DEF Settle, CachedAfter
    <2>2. answers' = [r \in Readers |->
                        IF r \in awaiting \cap Readers THEN Given(cachedAt') ELSE answers[r]]
      BY <1>4 DEF Settle
    <2>3. PICK at : at = cachedAt' OBVIOUS
    <2>4. at \in Instants /\ (cachedAt # Never => at # Never /\ cachedAt <= at) /\ (at # Never => at <= time)
      BY <1>1, <2>1, <2>3 DEF Instants
    <2>5. at = time => time - at < Ttl /\ at # Never BY <1>1
    <2>6. \A r \in Readers : answers'[r] # answers[r] => answers'[r] = Given(at) BY <2>2, <2>3
    <2>7. Given(at).at = at BY <2>4, GivenAnswer
    <2>8. PriceInv' BY <1>1, <2>1, <2>2, <2>3, <2>4, Answered
    <2> QED BY <2>1, <2>3, <2>4, <2>5, <2>6, <2>7, <2>8
  <1>5. ASSUME Elapse PROVE PriceInv' /\ UNCHANGED answers
    <2>1. time' = time + 1 /\ cachedAt' = cachedAt /\ answers' = answers BY <1>5 DEF Elapse
    <2>2. time' \in Nat /\ (cachedAt # Never => cachedAt <= time + 1) BY <1>1, <2>1 DEF Instants
    <2> QED BY <2>1, <2>2 DEF PriceInv, Newest
  <1>6. ASSUME UNCHANGED priceVars PROVE PriceInv' /\ UNCHANGED answers
    BY <1>6 DEF priceVars, PriceInv, Newest
  <1> QED BY <1>2, <1>3, <1>4, <1>5, <1>6 DEF PriceNext

(* The cached price is never older than any that was given.                *)
THEOREM PriceInvariance == PriceSpec => []PriceInv
  <1>1. PriceInv /\ [PriceNext]_priceVars => PriceInv' BY PriceStep
  <1> QED BY PriceInitially, <1>1, PTL DEF PriceSpec

(* Whoever is given a price that is too old, or none, was so after a       *)
(* failed fetch; and no failure takes away a price given before.           *)
THEOREM OldPricesAfterFailures == PriceSpec => OldOnlyAfterFailure
  <1>1. ASSUME PriceInv, [PriceNext]_priceVars, NEW r \in Readers, answers'[r] # answers[r]
        PROVE  LET at == answers'[r].at IN
               /\ at = Never \/ time - at >= Ttl => lastFetch' = "failed"
               /\ \A q \in Readers : answers[q].at # Never => at # Never /\ at >= answers[q].at
    <2>1. PICK at : at = cachedAt' OBVIOUS
    <2>2. /\ at # Never => time - at < Ttl \/ lastFetch' = "failed"
          /\ at = Never => lastFetch' = "failed"
          /\ answers'[r].at = at
          /\ PriceInv'
      BY <1>1, <2>1, PriceStep
    <2>3. time \in Nat /\ at \in Instants /\ Ttl \in Nat BY <2>1, <2>2, <1>1, PriceAssumption DEF PriceInv
    <2>4. at = Never \/ time - at >= Ttl => lastFetch' = "failed"
      BY <2>2, <2>3 DEF Instants
    <2>5. ASSUME NEW q \in Readers, answers[q].at # Never PROVE at # Never /\ at >= answers[q].at
      <3>1. /\ cachedAt \in Instants /\ answers[q].at \in Instants
            /\ cachedAt # Never /\ answers[q].at <= cachedAt
        BY <1>1, <2>5 DEF PriceInv, Newest
      <3>2. at # Never /\ cachedAt <= at BY <1>1, <2>1, <3>1, PriceStep
      <3> QED BY <2>3, <2>5, <3>1, <3>2 DEF Instants
    <2> QED BY <2>2, <2>4, <2>5
  <1>2. PriceInv /\ [PriceNext]_priceVars
          => [\A r \in Readers : answers'[r] # answers[r] =>
                LET at == answers'[r].at IN
                /\ at = Never \/ time - at >= Ttl => lastFetch' = "failed"
                /\ \A q \in Readers : answers[q].at # Never => at # Never /\ at >= answers[q].at]_priceVars
    BY <1>1
  <1> QED BY <1>2, PriceInvariance, PTL DEF PriceSpec, OldOnlyAfterFailure

-----------------------------------------------------------------------------
(* The picture store.                                                      *)

FileState == {"none", "cut", "whole"}

StoreTypes ==
    /\ upload \in [Ids -> {"idle", "reading", "saving picture", "saving text", "over"}]
    /\ picture \in [Ids -> FileState]
    /\ description \in [Ids -> FileState]
    /\ linked \subseteq Ids
    /\ overlapped \in BOOLEAN

Described == {i \in Ids : description[i] # "none"}

(* The files of an upload follow its progress, and a link was given only   *)
(* for a description written to the end.                                   *)
InOrder(i) ==
    /\ upload[i] \in {"idle", "reading", "saving picture"} => description[i] = "none"
    /\ description[i] # "none" => picture[i] = "whole"
    /\ upload[i] = "saving text" => description[i] = "cut"
    /\ i \in linked => description[i] = "whole"

(* Stored NFTs and those still being uploaded fit together. *)
Roomy == ~overlapped => Cardinality(Described \cup Running) <= MaxStored

StoreInv == StoreTypes /\ (\A i \in Ids : InOrder(i)) /\ Roomy

LEMMA DescribedOrRunningFinite == IsFiniteSet(Described \cup Running)
  <1>1. Described \cup Running \in SUBSET Ids BY DEF Described, Running
  <1> QED BY <1>1, FS_Subset, StoreAssumption

(* Uploads that are under way or stored can only become fewer, except when *)
(* one is accepted.                                                        *)
LEMMA RoomyKept ==
    ASSUME Roomy, overlapped' = overlapped,
           (Described \cup Running)' \subseteq Described \cup Running
    PROVE  Roomy'
  <1>1. /\ IsFiniteSet((Described \cup Running)')
        /\ Cardinality((Described \cup Running)') <= Cardinality(Described \cup Running)
    BY DescribedOrRunningFinite, FS_Subset
  <1>2. Cardinality(Described \cup Running) \in Nat
    BY DescribedOrRunningFinite, FS_CardinalityType
  <1>3. Cardinality((Described \cup Running)') \in Nat
    BY <1>1, FS_CardinalityType
  <1> QED BY <1>1, <1>2, <1>3, StoreAssumption DEF Roomy

(* At the start nothing is stored and nobody uploads. *)
THEOREM StoreInitially == StoreInit => StoreInv
  <1> SUFFICES ASSUME StoreInit PROVE StoreInv OBVIOUS
  <1>1. StoreTypes BY DEF StoreInit, StoreTypes, FileState
  <1>2. \A i \in Ids : InOrder(i) BY DEF StoreInit, InOrder
  <1>3. Described \cup Running = {} BY DEF StoreInit, Described, Running
  <1>4. Roomy BY <1>3, FS_EmptySet, StoreAssumption DEF Roomy
  <1> QED BY <1>1, <1>2, <1>4 DEF StoreInv

(* Every step of an upload, and the stop of the server, keeps types, order *)
(* and room: accepting is the only step that takes room.                   *)
THEOREM StorePreserved == StoreInv /\ [StoreNext]_storeVars => StoreInv'
  <1> SUFFICES ASSUME StoreInv, [StoreNext]_storeVars PROVE StoreInv' OBVIOUS
  <1> USE DEF StoreInv
  <1>1. ASSUME NEW i \in Ids, Accept(i) PROVE StoreInv'
    <2>1. StoreTypes' BY <1>1 DEF StoreTypes, Accept, FileState
    <2>2. (\A j \in Ids : InOrder(j))' BY <1>1 DEF StoreTypes, InOrder, Accept
    <2>3. ASSUME ~overlapped' PROVE Cardinality((Described \cup Running)') <= MaxStored
      <3>1. Running = {} BY <1>1, <2>3 DEF Accept
      <3>2. Described' = Described BY <1>1 DEF Accept, Described
      <3>3. Running' \subseteq Running \cup {i} BY <1>1 DEF Accept, Running, StoreTypes
      <3>4. (Described \cup Running)' \in SUBSET (Described \cup {i}) BY <3>1, <3>2, <3>3
      <3>5. IsFiniteSet(Described)
        BY DescribedOrRunningFinite, <3>1
      <3>6. /\ IsFiniteSet(Described \cup {i})
            /\ Cardinality(Described \cup {i}) <= Cardinality(Described) + 1
            /\ Cardinality(Described) \in Nat
        <4>1. Cardinality(Described) \in Nat BY <3>5, FS_CardinalityType
        <4>2. /\ IsFiniteSet(Described \cup {i})
              /\ Cardinality(Described \cup {i}) =
                    IF i \in Described THEN Cardinality(Described)
                                      ELSE Cardinality(Described) + 1
          BY <3>5, FS_AddElement
        <4> QED BY <4>1, <4>2
      <3>7. Cardinality((Described \cup Running)') <= Cardinality(Described \cup {i})
        BY <3>4, <3>6, FS_Subset
      <3>8. Cardinality(Described \cup {i}) \in Nat BY <3>6, FS_CardinalityType
      <3>9. Cardinality((Described \cup Running)') \in Nat
        BY <3>4, <3>6, FS_Subset, FS_CardinalityType
      <3>10. Cardinality(Described) < MaxStored
        BY <1>1, <3>6, StoreAssumption DEF Accept, Full, Stored, Described
      <3> QED BY <3>6, <3>7, <3>8, <3>9, <3>10, StoreAssumption
    <2>4. Roomy' BY <2>3 DEF Roomy
    <2> QED BY <2>1, <2>2, <2>4
  <1>2. ASSUME NEW i \in Ids,
               \/ Reject(i) \/ StartSave(i) \/ PictureWritten(i)
               \/ StartDescription(i) \/ DescriptionWritten(i) \/ SaveFails(i)
        PROVE  StoreInv'
    <2> USE <1>2 DEF Reject, StartSave, PictureWritten, StartDescription,
                     DescriptionStarted, DescriptionWritten, SaveFails
    <2>1. StoreTypes' BY DEF StoreTypes, FileState
    <2>2. (\A j \in Ids : InOrder(j))' BY DEF StoreTypes, InOrder
    <2>3. (Described \cup Running)' \subseteq Described \cup Running
      BY DEF StoreTypes, Described, Running, InOrder
    <2>4. overlapped' = overlapped OBVIOUS
    <2> QED BY <2>1, <2>2, <2>3, <2>4, RoomyKept
  <1>3. ASSUME Stop PROVE StoreInv'
    <2>1. StoreTypes' BY <1>3 DEF StoreTypes, Stop, Running
    <2>2. (\A j \in Ids : InOrder(j))' BY <1>3 DEF StoreTypes, InOrder, Stop, Running
    <2>3. (Described \cup Running)' \subseteq Described \cup Running
      BY <1>3 DEF StoreTypes, Described, Running, Stop
    <2>4. overlapped' = overlapped BY <1>3 DEF Stop
    <2> QED BY <2>1, <2>2, <2>3, <2>4, RoomyKept
  <1>4. ASSUME UNCHANGED storeVars PROVE StoreInv'
    <2> USE <1>4 DEF storeVars
    <2>1. StoreTypes' BY DEF StoreTypes
    <2>2. (\A j \in Ids : InOrder(j))' BY DEF InOrder
    <2>3. (Described \cup Running)' = Described \cup Running BY DEF Described, Running
    <2> QED BY <2>1, <2>2, <2>3, RoomyKept
  <1> QED BY <1>1, <1>2, <1>3, <1>4 DEF StoreNext

(* The strengthened invariant holds in every behaviour. *)
THEOREM StoreInvariance == StoreSpec => []StoreInv
  BY StoreInitially, StorePreserved, PTL DEF StoreSpec

(* A link that was handed out works for ever, and no description is ever   *)
(* served without its whole picture (save in nft.store.ts).                *)
THEOREM HalfServedNever == StoreSpec => []NeverHalfServed
  <1>1. StoreInv => NeverHalfServed
    BY DEF StoreInv, StoreTypes, InOrder, NeverHalfServed, Info, Image
  <1> QED BY <1>1, StoreInvariance, PTL

(* Uploads that come one at a time never exceed MAX_STORED (the count at   *)
(* the start of the route).                                                *)
THEOREM CapHolds == StoreSpec => []CapUnlessCrowded
  <1>1. StoreInv => CapUnlessCrowded
    <2> SUFFICES ASSUME StoreInv, ~overlapped PROVE Stored <= MaxStored
      <3>1. Stored \in Nat
        BY DescribedOrRunningFinite, FS_Subset, FS_CardinalityType, StoreAssumption DEF Stored
      <3> QED BY <3>1, StoreAssumption DEF CapUnlessCrowded
    <2>1. Stored = Cardinality(Described) BY DEF Stored, Described
    <2>2. /\ Cardinality(Described) <= Cardinality(Described \cup Running)
          /\ IsFiniteSet(Described)
      BY DescribedOrRunningFinite, FS_Subset
    <2>3. Cardinality(Described) \in Nat /\ Cardinality(Described \cup Running) \in Nat
      BY <2>2, DescribedOrRunningFinite, FS_CardinalityType
    <2> QED BY <2>1, <2>2, <2>3, StoreAssumption DEF StoreInv, Roomy
  <1> QED BY <1>1, StoreInvariance, PTL
=============================================================================
