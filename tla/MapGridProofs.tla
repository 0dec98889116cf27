---------------------------- MODULE MapGridProofs ----------------------------
(* Theorems about what is worked out cell by cell on the map.                *)
(*                                                                           *)
(* The map a still window writes and is judged by, for any room, any stands  *)
(* and passers-by, any limits: the transform serves the exact distances, ink *)
(* is beside what is or stood, the search answers the best of what it looked *)
(* at, and no valley is settled from one stand.                              *)
(*                                                                           *)
(* The ways over the map, for any map, any books and lanes, any margins and  *)
(* prices: Dijkstra's is the cheapest there is, the pulled one goes between  *)
(* the same ends beside it, and no frontier is left out.                     *)
EXTENDS ScanMap, RoutePlan, FiniteSetTheorems, WellFoundedInduction, SequenceTheorems, TLAPS

(* A set of naturals has a least one.                                        *)
LEMMA LeastNatural ==
  ASSUME NEW T, T \subseteq Nat, T # {}
  PROVE  Min(T) \in T /\ \A y \in T : Min(T) <= y
<1> DEFINE R == OpToRel(<, Nat)
<1>1. IsWellFoundedOn(R, Nat)
  BY NatLessThanWellFounded
<1>2. ASSUME NEW x \in T, NEW y \in T, ~(<<y, x>> \in R) PROVE x <= y
  <2>1. x \in Nat /\ y \in Nat
    OBVIOUS
  <2>2. ~(y < x)
    BY <1>2, <2>1 DEF OpToRel
  <2> QED BY <2>1, <2>2
<1> HIDE DEF R
<1>3. \E x \in T : \A y \in T : ~(<<y, x>> \in R)
  BY <1>1, WFMin
<1>4. \E x \in T : \A y \in T : x <= y
  BY <1>2, <1>3
<1> QED BY <1>4 DEF Min

(* A value worked out once is the value.                                     *)
LEMMA ScanFixedIs == ASSUME NEW v PROVE ScanFixed(v) = v
BY DEF ScanFixed

(* What the constants are.                                                   *)
LEMMA ScanSizes ==
  /\ ScanSide \in Nat /\ ScanSide > 0 /\ ScanPerYaw \in Nat /\ ScanPerYaw > 0 /\ ScanTopK \in Nat /\ ScanTopK > 0
  /\ ScanSep \in Nat /\ ScanSep > 0 /\ ScanCellCm \in Nat /\ ScanVotes \in Nat /\ ScanMinFrames \in Nat
  /\ ScanPasses \in Nat /\ ScanRefine \in Nat /\ ScanWindows \in Nat /\ ScanKept \in Nat
BY ScanAssumption

(* What holds at the start and is carried from each to the next, holds of all. *)
LEMMA ScanCounts ==
  ASSUME NEW N \in Nat, NEW T, 0 \in T, \A n \in 1..N : n - 1 \in T => n \in T
  PROVE  \A n \in 0..N : n \in T
<1> DEFINE B == {n \in 0..N : n \notin T}
<1>1. SUFFICES ASSUME B # {} PROVE FALSE
  OBVIOUS
<1>2. B \subseteq Nat
  OBVIOUS
<1> DEFINE m == Min(B)
<1>3. m \in B /\ \A y \in B : m <= y
  BY <1>1, <1>2, LeastNatural
<1> HIDE DEF m
<1>4. m \in 1..N
  BY <1>3
<1>5. m - 1 \notin B
  BY <1>3, <1>4
<1> QED BY <1>3, <1>4, <1>5

(* A step taken over and over is a function.                                 *)
ScanGoes(N, a, g, h) == h[0] = a /\ \A n \in 1..N : h[n] = g[n][h[n - 1]]

(* There is a function that takes the steps one after the other.             *)
LEMMA ScanIterates ==
  ASSUME NEW N \in Nat, NEW S, NEW a \in S, NEW g \in [1..N -> [S -> S]]
  PROVE  \E h \in [0..N -> S] : ScanGoes(N, a, g, h)
<1> DEFINE goes(m, h) == ScanGoes(m, a, g, h)
           T == {m \in 0..N : \E h \in [0..m -> S] : goes(m, h)}
<1>1. 0 \in T
  <2>1. [n \in 0..0 |-> a] \in [0..0 -> S] /\ goes(0, [n \in 0..0 |-> a])
    BY DEF ScanGoes
  <2> HIDE DEF goes
  <2>2. \E h \in [0..0 -> S] : goes(0, h)
    BY <2>1, Zenon
  <2> QED BY <2>2
<1>2. ASSUME NEW m \in 1..N, m - 1 \in T PROVE m \in T
  <2>1. PICK h \in [0..(m - 1) -> S] : goes(m - 1, h)
    BY <1>2
  <2>6. h[0] = a /\ \A n \in 1..(m - 1) : h[n] = g[n][h[n - 1]]
    BY <2>1 DEF ScanGoes
  <2> DEFINE k == [n \in 0..m |-> IF n = m THEN g[m][h[m - 1]] ELSE h[n]]
  <2>2. g[m] \in [S -> S] /\ h[m - 1] \in S
    OBVIOUS
  <2>3. k \in [0..m -> S]
    BY <2>2
  <2>4. k[0] = a
    BY <2>6
  <2>5. ASSUME NEW n \in 1..m PROVE k[n] = g[n][k[n - 1]]
    <3>1. CASE n = m
      BY <3>1
    <3>2. CASE n # m
      BY <2>6, <3>2
    <3> QED BY <3>1, <3>2
  <2> HIDE DEF k
  <2>7. goes(m, k)
    BY <2>4, <2>5 DEF ScanGoes
  <2> QED BY <2>3, <2>7
<1>4. \A m \in 1..N : m - 1 \in T => m \in T
  BY <1>2
<1> HIDE DEF T
<1>3. N \in T
  <2>1. \A n \in 0..N : n \in T
    BY <1>1, <1>4, ScanCounts
  <2> QED BY <2>1
<1> QED BY <1>3 DEF T

ScanPar(f, v, x) == (x - v) * (x - v) + f[v]
ScanFinite(f, n) == {v \in 0..(n - 1) : f[v] # ScanInf}
ScanEnvs == Seq([v : Nat, z : [num : Int, den : Int]])
ScanLow(f, env, n) ==
  /\ env \in ScanEnvs
  /\ \A k \in DOMAIN env : env[k].v \in ScanFinite(f, n) /\ env[k].z.den > 0
  /\ \A k \in DOMAIN env : k > 1 => env[k - 1].v < env[k].v /\ env[k].z = ScanMeet(f, env[k].v, env[k - 1].v)
  /\ \A k \in DOMAIN env : k > 2 => env[k - 1].z.num * env[k].z.den < env[k].z.num * env[k - 1].z.den
  /\ \A u \in ScanFinite(f, n), x \in Int : \E k \in DOMAIN env : ScanPar(f, env[k].v, x) <= ScanPar(f, u, x)

(* What is multiplied by something positive keeps its order.                 *)
LEMMA ScanTimes ==
  ASSUME NEW a \in Int, NEW b \in Int, NEW c \in Int, c > 0
  PROVE  (a < b <=> a * c < b * c) /\ (a <= b <=> a * c <= b * c) /\ a * c \in Int /\ b * c \in Int
<1> DEFINE d == b - a
<1>1. d \in Int /\ b = a + d
  OBVIOUS
<1>2. b * c = a * c + d * c /\ d * c \in Int /\ a * c \in Int
  BY <1>1
<1>3. d > 0 => d * c > 0
  BY <1>1
<1>4. d < 0 => d * c < 0
  BY <1>1
<1>5. d = 0 => d * c = 0
  BY <1>1
<1> HIDE DEF d
<1> QED BY <1>1, <1>2, <1>3, <1>4, <1>5

(* Where two fractions lie the one before the other.                         *)
LEMMA ScanFractions ==
  ASSUME NEW a \in Int, NEW b \in Int, NEW c \in Int, NEW d \in Int, b > 0, d > 0, NEW x \in Int
  PROVE  /\ a * d <= c * b => x * d <= c \/ a <= x * b
         /\ a * d < c * b /\ c < x * d => a < x * b
<1>1. (x * d) * b = (x * b) * d /\ x * d \in Int /\ x * b \in Int /\ a * d \in Int /\ c * b \in Int
  OBVIOUS
<1> DEFINE xd == x * d
           xb == x * b
           ad == a * d
           cb == c * b
           m == xd * b
<1>2. m = xb * d /\ xd \in Int /\ xb \in Int /\ ad \in Int /\ cb \in Int /\ m \in Int
  BY <1>1
<1>3. (c < xd <=> cb < m) /\ (c <= xd <=> cb <= m)
  BY <1>2, ScanTimes
<1>4. (a < xb <=> ad < m) /\ (a <= xb <=> ad <= m)
  BY <1>2, ScanTimes
<1> HIDE DEF xd, xb, ad, cb, m
<1>5. ad <= cb => xd <= c \/ a <= xb
  BY <1>2, <1>3, <1>4
<1>6. ad < cb /\ c < xd => a < xb
  BY <1>2, <1>3, <1>4
<1> QED BY <1>5, <1>6 DEF xd, xb, ad, cb

(* Where the later parabola gets below the earlier.                          *)
LEMMA ScanMeets ==
  ASSUME NEW f, NEW q \in Int, NEW v \in Int, v < q, f[q] \in Int, f[v] \in Int, NEW x \in Int
  PROVE  LET m == ScanMeet(f, q, v)
         IN /\ m \in [num : Int, den : Int] /\ m.den > 0
            /\ ScanPar(f, q, x) \in Int /\ ScanPar(f, v, x) \in Int
            /\ ScanPar(f, q, x) <= ScanPar(f, v, x) <=> m.num <= x * m.den
            /\ ScanPar(f, v, x) <= ScanPar(f, q, x) <=> x * m.den <= m.num
<1> DEFINE a == f[q]
           b == f[v]
<1>1. a \in Int /\ b \in Int
  OBVIOUS
<1>2. ScanMeet(f, q, v) = [num |-> (a + q * q) - (b + v * v), den |-> 2 * (q - v)]
  BY DEF ScanMeet
<1>3. ScanPar(f, q, x) = (x - q) * (x - q) + a /\ ScanPar(f, v, x) = (x - v) * (x - v) + b
  BY DEF ScanPar
<1> HIDE DEF a, b
<1>4. (x - q) * (x - q) = (x * x + q * q) - 2 * (x * q) /\ (x - v) * (x - v) = (x * x + v * v) - 2 * (x * v)
      /\ x * (2 * (q - v)) = 2 * (x * q) - 2 * (x * v)
  OBVIOUS
<1> DEFINE xx == x * x
           qq == q * q
           vv == v * v
           xq == x * q
           xv == x * v
<1>5. xx \in Int /\ qq \in Int /\ vv \in Int /\ xq \in Int /\ xv \in Int
  OBVIOUS
<1>6. ScanPar(f, q, x) = ((xx + qq) - 2 * xq) + a /\ ScanPar(f, v, x) = ((xx + vv) - 2 * xv) + b
      /\ x * (2 * (q - v)) = 2 * xq - 2 * xv
  BY <1>3, <1>4
<1>7. ScanMeet(f, q, v).num = (a + qq) - (b + vv) /\ ScanMeet(f, q, v).den = 2 * (q - v)
      /\ ScanMeet(f, q, v) \in [num : Int, den : Int]
  <2>1. (a + q * q) - (b + v * v) \in Int /\ 2 * (q - v) \in Int
    BY <1>1
  <2> QED BY <1>2, <2>1
<1> HIDE DEF xx, qq, vv, xq, xv
<1>8. ScanPar(f, q, x) \in Int /\ ScanPar(f, v, x) \in Int
  BY <1>1, <1>5, <1>6
<1>9. ScanPar(f, q, x) <= ScanPar(f, v, x) <=> ScanMeet(f, q, v).num <= x * ScanMeet(f, q, v).den
  BY <1>1, <1>5, <1>6, <1>7
<1>10. ScanPar(f, v, x) <= ScanPar(f, q, x) <=> x * ScanMeet(f, q, v).den <= ScanMeet(f, q, v).num
  BY <1>1, <1>5, <1>6, <1>7
<1> QED BY <1>7, <1>8, <1>9, <1>10

(* Of some of the numbers up to one, the greatest.                           *)
LEMMA ScanGreatest ==
  ASSUME NEW N \in Nat, NEW S, S \subseteq 0..N, S # {}
  PROVE  Max(S) \in S /\ \A y \in S : y <= Max(S)
<1> DEFINE T == {N - y : y \in S}
<1>1. T \subseteq Nat /\ T # {}
  <2>1. \A y \in S : N - y \in Nat
    OBVIOUS
  <2>2. PICK y \in S : TRUE
    OBVIOUS
  <2>3. N - y \in T
    OBVIOUS
  <2> QED BY <2>1, <2>3
<1>2. Min(T) \in T /\ \A y \in T : Min(T) <= y
  BY <1>1, LeastNatural
<1>3. PICK m \in S : Min(T) = N - m
  BY <1>2
<1>4. ASSUME NEW y \in S PROVE y <= m
  <2>1. N - y \in T
    OBVIOUS
  <2>2. Min(T) <= N - y
    BY <1>2, <2>1
  <2>3. y \in 0..N /\ m \in 0..N
    OBVIOUS
  <2> HIDE DEF T
  <2> QED BY <1>3, <2>2, <2>3
<1> HIDE DEF T
<1> QED BY <1>4 DEF Max

ScanOver(f, env, q, k) ==
  k = 1 \/ ScanMeet(f, q, env[k].v).num * env[k].z.den > env[k].z.num * ScanMeet(f, q, env[k].v).den
ScanKeep(f, env, q) == Max({0} \cup {k \in DOMAIN env : ScanOver(f, env, q, k)})
ScanPut(f, env, q) ==
  [v |-> q, z |-> IF ScanKeep(f, env, q) = 0 THEN [num |-> 0, den |-> 1]
                  ELSE ScanMeet(f, q, env[ScanKeep(f, env, q)].v)]

(* An envelope grown by a parabola is what was kept of it and that one.      *)
LEMMA ScanGrownIs ==
  ASSUME NEW f, NEW env, NEW q
  PROVE  ScanGrown(f, env, q) = SubSeq(env, 1, ScanKeep(f, env, q)) \o <<ScanPut(f, env, q)>>
BY DEF ScanGrown, ScanKeep, ScanPut, ScanOver

(* One more sample: what it hides is dropped, and it is put last.            *)
LEMMA ScanGrows ==
  ASSUME NEW f \in ScanSamples, NEW q \in 0..(ScanSide - 1), f[q] # ScanInf, NEW env, ScanLow(f, env, q)
  PROVE  ScanLow(f, ScanGrown(f, env, q), q + 1)
<1> DEFINE K == Len(env)
           keep == ScanKeep(f, env, q)
           last == ScanPut(f, env, q)
           new == ScanGrown(f, env, q)
           V == [v : Nat, z : [num : Int, den : Int]]
<1>1. K \in Nat /\ DOMAIN env = 1..K /\ env \in Seq(V) /\ \A k \in 1..K : env[k] \in V
  <2>1. env \in Seq(V)
    BY DEF ScanLow, ScanEnvs
  <2> HIDE DEF V
  <2> QED BY <2>1
<1>2. \A u \in ScanFinite(f, q) : u \in Nat /\ u < q /\ f[u] \in Nat /\ f[u] # ScanInf
  BY ScanSizes DEF ScanFinite, ScanSamples
<1>3. q \in Nat /\ f[q] \in Nat
  BY ScanSizes DEF ScanSamples
<1>4. /\ keep \in 0..K /\ (K > 0 => keep > 0)
      /\ \A k \in 1..K : k > keep => ~ScanOver(f, env, q, k)
      /\ keep > 1 => ScanOver(f, env, q, keep)
  <2> DEFINE S == {0} \cup {k \in 1..K : ScanOver(f, env, q, k)}
  <2>1. S \subseteq 0..K /\ 0 \in S
    BY <1>1
  <2>2. keep = Max(S)
    BY <1>1 DEF ScanKeep
  <2> HIDE DEF keep
  <2>3. keep \in S /\ \A y \in S : y <= keep
    <3> HIDE DEF S, K
    <3>1. S # {}
      BY <2>1
    <3> QED BY <1>1, <2>1, <2>2, <3>1, ScanGreatest
  <2>4. K > 0 => 1 \in S
    BY <1>1 DEF ScanOver
  <2>5. \A y \in S : y \in 0..K
    BY <2>1
  <2>6. \A k \in 1..K : ScanOver(f, env, q, k) => k \in S
    OBVIOUS
  <2>7. keep > 1 => ScanOver(f, env, q, keep)
    BY <2>3
  <2> HIDE DEF S
  <2> QED BY <1>1, <2>3, <2>4, <2>5, <2>6, <2>7
<1>5. ASSUME NEW k \in 1..K
      PROVE  /\ env[k].v \in ScanFinite(f, q) /\ env[k].v \in Nat /\ env[k].v < q /\ f[env[k].v] \in Nat
             /\ env[k].z.den > 0 /\ env[k].z.den \in Int /\ env[k].z.num \in Int
  <2>1. env[k] \in V /\ env[k].v \in ScanFinite(f, q) /\ env[k].z.den > 0
    BY <1>1 DEF ScanLow
  <2> QED BY <1>2, <2>1
<1>6. last \in V /\ last.v = q /\ last.z.den > 0 /\ (keep > 0 => last.z = ScanMeet(f, q, env[keep].v))
  <2>1. CASE keep = 0
    <3>1. last = [v |-> q, z |-> [num |-> 0, den |-> 1]]
      BY <2>1 DEF ScanPut
    <3> HIDE DEF last, keep
    <3> QED BY <1>3, <2>1, <3>1
  <2>2. CASE keep # 0
    <3>1. last = [v |-> q, z |-> ScanMeet(f, q, env[keep].v)]
      BY <2>2 DEF ScanPut
    <3>2. keep \in 1..K
      BY <1>1, <1>4, <2>2
    <3> HIDE DEF last, keep
    <3>3. env[keep].v \in Int /\ env[keep].v < q /\ f[env[keep].v] \in Int /\ f[q] \in Int /\ q \in Int /\ 0 \in Int
      BY <1>3, <1>5, <3>2
    <3>4. ScanMeet(f, q, env[keep].v) \in [num : Int, den : Int] /\ ScanMeet(f, q, env[keep].v).den > 0
      BY <3>3, ScanMeets
    <3> QED BY <1>3, <3>1, <3>4
  <2> QED BY <2>1, <2>2
<1>7. /\ new \in Seq(V) /\ DOMAIN new = 1..(keep + 1) /\ new[keep + 1] = last
      /\ \A k \in 1..keep : new[k] = env[k]
  <2> DEFINE front == SubSeq(env, 1, keep)
  <2>1. new = front \o <<last>>
    BY ScanGrownIs
  <2> HIDE DEF keep, last, new, K
  <2>2. front \in Seq(V) /\ Len(front) = keep /\ \A k \in 1..keep : front[k] = env[k]
    BY <1>1, <1>4
  <2> HIDE DEF front
  <2>3. <<last>> \in Seq(V)
    BY <1>6
  <2> QED BY <1>4, <1>6, <2>1, <2>2, <2>3, SMTT(30)
<1> HIDE DEF new, keep, last, K
<1>8. keep + 1 \in Nat /\ \A k \in 1..(keep + 1) : k # keep + 1 => k \in 1..keep /\ k \in 1..K
  BY <1>1, <1>4
<1>9. \A u \in ScanFinite(f, q) : u \in ScanFinite(f, q + 1)
  BY <1>2, <1>3 DEF ScanFinite
<1>10. q \in ScanFinite(f, q + 1) /\ \A u \in ScanFinite(f, q + 1) : u = q \/ u \in ScanFinite(f, q)
  BY <1>3 DEF ScanFinite
<1>11. \A k \in 1..(keep + 1) : new[k].v \in ScanFinite(f, q + 1) /\ new[k].z.den > 0
  BY <1>5, <1>6, <1>7, <1>8, <1>9, <1>10
<1>12. ASSUME NEW k \in 1..(keep + 1), k > 1
       PROVE  /\ new[k - 1].v < new[k].v /\ new[k].z = ScanMeet(f, new[k].v, new[k - 1].v)
              /\ k > 2 => new[k - 1].z.num * new[k].z.den < new[k].z.num * new[k - 1].z.den
  <2>1. k - 1 \in 1..keep /\ new[k - 1] = env[k - 1] /\ k - 1 \in 1..K
    BY <1>4, <1>7, <1>8, <1>12, <1>1
  <2>2. CASE k = keep + 1
    <3>1. new[k] = last /\ k - 1 = keep /\ keep > 0
      <4>1. keep \in Int
        BY <1>4
      <4>2. k - 1 = keep /\ keep > 0
        BY <1>12, <2>2, <4>1
      <4> QED BY <1>7, <2>2, <4>2
    <3>2. k > 2 => ScanOver(f, env, q, keep) /\ keep # 1
      BY <1>4, <3>1
    <3>3. k > 2 => new[k].z.num * new[k - 1].z.den > new[k - 1].z.num * new[k].z.den
      BY <1>6, <2>1, <3>1, <3>2 DEF ScanOver
    <3>4. new[k].z.num * new[k - 1].z.den \in Int /\ new[k - 1].z.num * new[k].z.den \in Int
      <4>1. new[k].z.num \in Int /\ new[k].z.den \in Int
        BY <1>6, <3>1
      <4>2. new[k - 1].z.num \in Int /\ new[k - 1].z.den \in Int
        BY <1>5, <2>1
      <4> QED BY <4>1, <4>2
    <3>5. new[k - 1].v < new[k].v /\ new[k].z = ScanMeet(f, new[k].v, new[k - 1].v)
      BY <1>5, <1>6, <2>1, <3>1
    <3> QED BY <3>3, <3>4, <3>5
  <2>3. CASE k # keep + 1
    <3>1. new[k] = env[k] /\ k \in 1..K
      BY <1>7, <1>8, <2>3
    <3> QED BY <1>1, <1>12, <2>1, <3>1 DEF ScanLow
  <2> QED BY <2>2, <2>3
<1>13. ASSUME NEW u \in ScanFinite(f, q + 1), NEW x \in Int
       PROVE  \E j \in 1..(keep + 1) : ScanPar(f, new[j].v, x) <= ScanPar(f, u, x)
  <2>1. CASE u = q
    <3>1. keep + 1 \in 1..(keep + 1) /\ new[keep + 1].v = u
      BY <1>6, <1>7, <1>8, <1>4, <2>1
    <3>2. ScanPar(f, u, x) \in Int
      BY <1>3, <2>1 DEF ScanPar
    <3>3. ScanPar(f, new[keep + 1].v, x) <= ScanPar(f, u, x)
      BY <3>1, <3>2
    <3> QED BY <3>1, <3>3
  <2>2. CASE u \in ScanFinite(f, q)
    <3> DEFINE under(w) == \E j \in 1..(keep + 1) : ScanPar(f, new[j].v, x) <= ScanPar(f, w, x)
               T == {k \in 0..K : k > 0 => under(env[k].v)}
    <3>1. PICK m \in 1..K : ScanPar(f, env[m].v, x) <= ScanPar(f, u, x)
      BY <1>1, <2>2 DEF ScanLow
    <3>2. \A k \in 1..K : ScanPar(f, env[k].v, x) \in Int
      BY <1>5 DEF ScanPar
    <3>3. \A j \in 1..(keep + 1) : ScanPar(f, new[j].v, x) \in Int
      <4>1. ScanPar(f, q, x) \in Int
        BY <1>3 DEF ScanPar
      <4> QED BY <1>6, <1>7, <1>8, <3>2, <4>1
    <3>4. ScanPar(f, u, x) \in Int
      BY <1>2, <2>2 DEF ScanPar
    <3>5. ASSUME NEW k \in 1..K, k - 1 \in T PROVE k \in T
      <4>1. CASE k <= keep
        <5>1. k \in 1..(keep + 1) /\ new[k] = env[k]
          BY <1>4, <1>7, <4>1
        <5>2. ScanPar(f, new[k].v, x) <= ScanPar(f, env[k].v, x)
          BY <3>2, <5>1
        <5> QED BY <5>1, <5>2
      <4>2. CASE k > keep
        <5> DEFINE s == ScanMeet(f, q, env[k].v)
                   z == env[k].z
        <5>1. ~ScanOver(f, env, q, k) /\ k > 1 /\ k - 1 \in 1..K
          BY <1>1, <1>4, <4>2 DEF ScanOver
        <5>2. /\ s \in [num : Int, den : Int] /\ s.den > 0
              /\ s.num <= x * s.den => ScanPar(f, q, x) <= ScanPar(f, env[k].v, x)
          BY <1>3, <1>5, ScanMeets
        <5>3. z = ScanMeet(f, env[k].v, env[k - 1].v) /\ env[k - 1].v < env[k].v
          BY <1>1, <5>1 DEF ScanLow
        <5>4. x * z.den <= z.num => ScanPar(f, env[k - 1].v, x) <= ScanPar(f, env[k].v, x)
          <6>1. env[k].v \in Int /\ env[k - 1].v \in Int /\ f[env[k].v] \in Int /\ f[env[k - 1].v] \in Int
            BY <1>5, <5>1
          <6> HIDE DEF z
          <6> QED BY <5>3, <6>1, ScanMeets
        <5>5. z.num \in Int /\ z.den \in Int /\ z.den > 0
          BY <1>5
        <5>6. s.num * z.den <= z.num * s.den
          <6>1. ~(s.num * z.den > z.num * s.den)
            BY <5>1 DEF ScanOver
          <6> HIDE DEF s, z
          <6>2. s.num * z.den \in Int /\ z.num * s.den \in Int
            BY <5>2, <5>5
          <6> QED BY <6>1, <6>2
        <5> HIDE DEF s, z
        <5>7. s.num \in Int /\ s.den \in Int
          BY <5>2
        <5>8. x * z.den <= z.num \/ s.num <= x * s.den
          BY <5>2, <5>5, <5>6, <5>7, ScanFractions
        <5>9. CASE x * z.den <= z.num
          <6>1. ScanPar(f, env[k - 1].v, x) <= ScanPar(f, env[k].v, x)
            BY <5>4, <5>9
          <6>2. PICK j \in 1..(keep + 1) : ScanPar(f, new[j].v, x) <= ScanPar(f, env[k - 1].v, x)
            BY <3>5, <5>1
          <6>3. ScanPar(f, new[j].v, x) <= ScanPar(f, env[k].v, x)
            BY <3>2, <3>3, <5>1, <6>1, <6>2
          <6> QED BY <6>3
        <5>10. CASE s.num <= x * s.den
          <6>1. new[keep + 1].v = q /\ keep + 1 \in 1..(keep + 1)
            BY <1>4, <1>6, <1>7
          <6>2. ScanPar(f, new[keep + 1].v, x) <= ScanPar(f, env[k].v, x)
            BY <5>2, <5>10, <6>1
          <6> QED BY <6>1, <6>2
        <5> QED BY <5>8, <5>9, <5>10
      <4> QED BY <1>1, <1>4, <4>1, <4>2
    <3>6. 0 \in T
      BY <1>1
    <3>7. \A k \in 1..K : k - 1 \in T => k \in T
      BY <3>5
    <3> HIDE DEF T
    <3>8. \A k \in 0..K : k \in T
      BY <1>1, <3>6, <3>7, ScanCounts
    <3>9. under(env[m].v)
      <4>1. m \in T /\ m > 0
        BY <3>8, <1>1
      <4> QED BY <4>1 DEF T
    <3>10. PICK j \in 1..(keep + 1) : ScanPar(f, new[j].v, x) <= ScanPar(f, env[m].v, x)
      BY <3>9
    <3>11. ScanPar(f, new[j].v, x) <= ScanPar(f, u, x)
      BY <3>1, <3>2, <3>3, <3>4, <3>10
    <3> QED BY <3>11
  <2> QED BY <1>10, <2>1, <2>2
<1>14. ScanLow(f, new, q + 1)
  <2>1. new \in ScanEnvs
    BY <1>7 DEF ScanEnvs
  <2>2. \A k \in DOMAIN new : k > 1 => /\ new[k - 1].v < new[k].v /\ new[k].z = ScanMeet(f, new[k].v, new[k - 1].v)
                                       /\ k > 2 => new[k - 1].z.num * new[k].z.den < new[k].z.num * new[k - 1].z.den
    BY <1>7, <1>12
  <2>3. \A k \in DOMAIN new : k > 2 => k > 1
    BY <1>4, <1>7
  <2>4. \A k \in DOMAIN new : new[k].v \in ScanFinite(f, q + 1) /\ new[k].z.den > 0
    BY <1>7, <1>11
  <2>5. \A u \in ScanFinite(f, q + 1), x \in Int : \E j \in DOMAIN new : ScanPar(f, new[j].v, x) <= ScanPar(f, u, x)
    BY <1>7, <1>13
  <2> QED BY <2>1, <2>2, <2>3, <2>4, <2>5 DEF ScanLow
<1> QED BY <1>14 DEF new

ScanNextLow(f, n, env) ==
  IF f[n - 1] = ScanInf THEN env ELSE ScanGrown(f, env, n - 1)

(* The envelope of the samples so far, grown by the next, is theirs with it. *)
LEMMA ScanNextIsLow ==
  ASSUME NEW f \in ScanSamples, NEW n \in 1..ScanSide, NEW env, ScanLow(f, env, n - 1)
  PROVE  ScanLow(f, ScanNextLow(f, n, env), n)
<1>1. n - 1 \in 0..(ScanSide - 1) /\ (n - 1) + 1 = n /\ n \in Int
  BY ScanSizes
<1>2. CASE f[n - 1] = ScanInf
  <2>1. ScanFinite(f, n) = ScanFinite(f, n - 1)
    BY <1>1, <1>2 DEF ScanFinite
  <2> QED BY <1>2, <2>1 DEF ScanLow, ScanNextLow
<1>3. CASE f[n - 1] # ScanInf
  <2> DEFINE q == n - 1
  <2>1. q \in 0..(ScanSide - 1) /\ f[q] # ScanInf /\ ScanLow(f, env, q) /\ q + 1 = n
    BY <1>1, <1>3
  <2>2. ScanLow(f, ScanGrown(f, env, q), q + 1)
    <3> HIDE DEF q
    <3> QED BY <2>1, ScanGrows
  <2> QED BY <1>3, <2>1, <2>2 DEF ScanNextLow
<1> QED BY <1>2, <1>3

(* Of no samples the envelope is the empty one.                              *)
LEMMA ScanNoneLow == ASSUME NEW f PROVE ScanLow(f, <<>>, 0) /\ <<>> \in ScanEnvs
<1>1. <<>> \in ScanEnvs /\ DOMAIN <<>> = {}
  BY DEF ScanEnvs
<1>2. ScanFinite(f, 0) = {}
  BY DEF ScanFinite
<1> QED BY <1>1, <1>2 DEF ScanLow

(* The envelopes of some samples, one after the other.                       *)
LEMMA ScanEnvelopesAre ==
  ASSUME NEW f \in ScanSamples
  PROVE  \E h : h[0] = <<>> /\ \A n \in 1..ScanSide : h[n] = ScanNextLow(f, n, h[n - 1])
<1> DEFINE g == [n \in 1..ScanSide |-> [env \in ScanEnvs |->
                   IF ScanLow(f, env, n - 1) THEN ScanNextLow(f, n, env) ELSE <<>>]]
<1>1. <<>> \in ScanEnvs /\ ScanLow(f, <<>>, 0)
  BY ScanNoneLow
<1>2. ASSUME NEW n \in 1..ScanSide, NEW env \in ScanEnvs
      PROVE  (IF ScanLow(f, env, n - 1) THEN ScanNextLow(f, n, env) ELSE <<>>) \in ScanEnvs
  <2>1. ScanLow(f, env, n - 1) => ScanLow(f, ScanNextLow(f, n, env), n)
    BY ScanNextIsLow
  <2> QED BY <1>1, <2>1 DEF ScanLow
<1>3. g \in [1..ScanSide -> [ScanEnvs -> ScanEnvs]]
  BY <1>2
<1>4. \A n \in 1..ScanSide : \A env \in ScanEnvs : ScanLow(f, env, n - 1) => g[n][env] = ScanNextLow(f, n, env)
  OBVIOUS
<1> HIDE DEF g
<1>5. PICK h \in [0..ScanSide -> ScanEnvs] : h[0] = <<>> /\ \A n \in 1..ScanSide : h[n] = g[n][h[n - 1]]
  <2>1. ScanSide \in Nat
    BY ScanSizes
  <2>2. \E h \in [0..ScanSide -> ScanEnvs] : ScanGoes(ScanSide, <<>>, g, h)
    BY <1>1, <1>3, <2>1, ScanIterates
  <2> QED BY <2>2 DEF ScanGoes
<1> DEFINE T == {n \in 0..ScanSide : ScanLow(f, h[n], n)}
<1>6. 0 \in T
  BY <1>1, <1>5, ScanSizes
<1>7. ASSUME NEW n \in 1..ScanSide, n - 1 \in T PROVE n \in T /\ h[n] = ScanNextLow(f, n, h[n - 1])
  <2>1. n - 1 \in 0..ScanSide /\ h[n - 1] \in ScanEnvs /\ ScanLow(f, h[n - 1], n - 1)
    BY <1>5, <1>7
  <2>2. h[n] = ScanNextLow(f, n, h[n - 1])
    BY <1>4, <1>5, <2>1
  <2>3. ScanLow(f, h[n], n)
    BY <2>1, <2>2, ScanNextIsLow
  <2> QED BY <2>2, <2>3
<1>8. \A n \in 1..ScanSide : n - 1 \in T => n \in T
  BY <1>7
<1> HIDE DEF T
<1>9. \A n \in 0..ScanSide : n \in T
  BY <1>6, <1>8, ScanSizes, ScanCounts
<1>10. ASSUME NEW n \in 1..ScanSide PROVE h[n] = ScanNextLow(f, n, h[n - 1])
  <2>1. n - 1 \in T
    BY <1>9, ScanSizes
  <2> QED BY <1>7, <2>1
<1> QED BY <1>5, <1>10

(* The recursion of the envelope, as its definition says it.                 *)
LEMMA ScanEnvelopeIs ==
  ASSUME NEW f \in ScanSamples, NEW n \in 0..ScanSide
  PROVE  ScanEnvelope[<<f, n>>] = IF n = 0 THEN <<>> ELSE ScanNextLow(f, n, ScanEnvelope[<<f, n - 1>>])
<1> DEFINE D == ScanSamples \X (0..ScanSide)
           step(E, x) == IF x[2] = 0 THEN <<>> ELSE ScanNextLow(x[1], x[2], E[<<x[1], x[2] - 1>>])
           is(E) == E = [x \in D |-> LET g == x[1]
                                         m == x[2]
                                     IN IF m = 0 THEN <<>>
                                        ELSE IF g[m - 1] = ScanInf THEN E[<<g, m - 1>>]
                                        ELSE CHOOSE e \in {ScanGrown(g, env, m - 1) : env \in {E[<<g, m - 1>>]}} : TRUE]
           goes(g, h) == h[0] = <<>> /\ \A m \in 1..ScanSide : h[m] = ScanNextLow(g, m, h[m - 1])
           all(g) == CHOOSE h : goes(g, h)
           F == [x \in D |-> all(x[1])[x[2]]]
           E == CHOOSE G : is(G)
<1>1. ASSUME NEW G PROVE is(G) <=> G = [x \in D |-> step(G, x)]
  <2>1. ASSUME NEW g, NEW m, NEW e
        PROVE (CHOOSE k \in {ScanGrown(g, env, m - 1) : env \in {e}} : TRUE) = ScanGrown(g, e, m - 1)
    OBVIOUS
  <2>2. ASSUME NEW x \in D
        PROVE step(G, x) = LET g == x[1]
                               m == x[2]
                           IN IF m = 0 THEN <<>>
                              ELSE IF g[m - 1] = ScanInf THEN G[<<g, m - 1>>]
                              ELSE CHOOSE e \in {ScanGrown(g, env, m - 1) : env \in {G[<<g, m - 1>>]}} : TRUE
    BY <2>1 DEF ScanNextLow
  <2> HIDE DEF D, step
  <2> QED BY <2>2
<1>2. \A g \in ScanSamples : goes(g, all(g))
  <2>1. ASSUME NEW g \in ScanSamples PROVE \E h : goes(g, h)
    BY ScanEnvelopesAre
  <2> HIDE DEF goes
  <2> QED BY <2>1, Zenon
<1>3. ASSUME NEW x \in D PROVE F[x] = step(F, x)
  <2>1. x[1] \in ScanSamples /\ x[2] \in 0..ScanSide /\ F[x] = all(x[1])[x[2]]
    OBVIOUS
  <2> DEFINE h == all(x[1])
  <2>2. goes(x[1], h)
    BY <1>2, <2>1
  <2>3. CASE x[2] = 0
    BY <2>1, <2>2, <2>3
  <2>4. CASE x[2] # 0
    <3>1. x[2] \in 1..ScanSide /\ x[2] - 1 \in 0..ScanSide
      BY <2>1, <2>4, ScanSizes
    <3>2. <<x[1], x[2] - 1>> \in D
      BY <2>1, <3>1
    <3>3. F[<<x[1], x[2] - 1>>] = h[x[2] - 1]
      BY <3>2
    <3>4. h[x[2]] = ScanNextLow(x[1], x[2], h[x[2] - 1])
      BY <2>2, <3>1
    <3> HIDE DEF h, F
    <3> QED BY <2>1, <2>4, <3>3, <3>4 DEF h
  <2> QED BY <2>3, <2>4
<1>4. is(F)
  <2>1. F = [x \in D |-> F[x]]
    OBVIOUS
  <2> HIDE DEF F, D, is, step
  <2>2. F = [x \in D |-> step(F, x)]
    BY <1>3, <2>1
  <2> QED BY <1>1, <2>2
<1> HIDE DEF F
<1>5. is(E)
  <2> HIDE DEF is
  <2> QED BY <1>4, Zenon
<1>6. ScanEnvelope = E
  BY DEF ScanEnvelope
<1> HIDE DEF E
<1>7. E = [x \in D |-> step(E, x)]
  BY <1>1, <1>5
<1>8. <<f, n>> \in D
  OBVIOUS
<1>9. E[<<f, n>>] = step(E, <<f, n>>)
  <2> HIDE DEF D, step
  <2> QED BY <1>7, <1>8
<1> QED BY <1>6, <1>9

(* The whole of it is below every sample, and of samples only.               *)
LEMMA ScanEnvelopeLow ==
  ASSUME NEW f \in ScanSamples
  PROVE  ScanLow(f, ScanEnvelope[<<f, ScanSide>>], ScanSide)
<1> DEFINE T == {n \in 0..ScanSide : ScanLow(f, ScanEnvelope[<<f, n>>], n)}
<1>1. 0 \in T
  <2>1. 0 \in 0..ScanSide
    BY ScanSizes
  <2>2. ScanEnvelope[<<f, 0>>] = <<>>
    BY <2>1, ScanEnvelopeIs
  <2> QED BY <2>1, <2>2, ScanNoneLow
<1>2. ASSUME NEW n \in 1..ScanSide, n - 1 \in T PROVE n \in T
  <2>1. n # 0 /\ n \in 0..ScanSide
    OBVIOUS
  <2>2. ScanEnvelope[<<f, n>>] = ScanNextLow(f, n, ScanEnvelope[<<f, n - 1>>])
    BY <2>1, ScanEnvelopeIs
  <2>3. ScanLow(f, ScanEnvelope[<<f, n - 1>>], n - 1)
    BY <1>2
  <2>4. ScanLow(f, ScanEnvelope[<<f, n>>], n)
    BY <2>2, <2>3, ScanNextIsLow
  <2> QED BY <2>1, <2>4
<1>3. \A n \in 1..ScanSide : n - 1 \in T => n \in T
  BY <1>2
<1> HIDE DEF T
<1>4. ScanSide \in T
  <2>1. \A n \in 0..ScanSide : n \in T
    BY <1>1, <1>3, ScanSizes, ScanCounts
  <2> QED BY <2>1, ScanSizes
<1> QED BY <1>4 DEF T

ScanBefore(env, q, k) == env[k].z.num < q * env[k].z.den

(* The parabola read at a place is the lowest there.                         *)
LEMMA ScanReads ==
  ASSUME NEW f \in ScanSamples, NEW env, ScanLow(f, env, ScanSide), Len(env) > 0, NEW q \in Int
  PROVE  LET m == Max({k \in DOMAIN env : k = 1 \/ ScanBefore(env, q, k)})
         IN /\ m \in DOMAIN env
            /\ \A k \in DOMAIN env : ScanPar(f, env[m].v, q) <= ScanPar(f, env[k].v, q)
<1> DEFINE K == Len(env)
           S == {k \in DOMAIN env : k = 1 \/ ScanBefore(env, q, k)}
           m == Max(S)
           par(k) == ScanPar(f, env[k].v, q)
<1>1. K \in Nat /\ DOMAIN env = 1..K /\ K > 0
  <2>1. env \in ScanEnvs
    BY DEF ScanLow
  <2> QED BY <2>1 DEF ScanEnvs
<1>2. m \in S /\ \A k \in S : k <= m
  <2>1. S \subseteq 0..K /\ S # {}
    <3>1. 1 \in S
      BY <1>1
    <3>2. S \subseteq DOMAIN env
      OBVIOUS
    <3> HIDE DEF S
    <3>3. DOMAIN env \subseteq 0..K
      BY <1>1
    <3> QED BY <3>1, <3>2, <3>3
  <2> HIDE DEF S, K
  <2> QED BY <1>1, <2>1, ScanGreatest
<1>3. m \in 1..K /\ (m > 1 => ScanBefore(env, q, m)) /\ \A k \in 1..K : k > m => ~ScanBefore(env, q, k)
  <2> HIDE DEF m
  <2>1. m \in 1..K /\ (m > 1 => ScanBefore(env, q, m))
    BY <1>1, <1>2
  <2>2. ASSUME NEW k \in 1..K, k > m, ScanBefore(env, q, k) PROVE FALSE
    <3>1. k \in S
      BY <1>1, <2>2
    <3> QED BY <1>2, <2>1, <2>2, <3>1
  <2> QED BY <2>1, <2>2
<1> HIDE DEF m
<1>4. ASSUME NEW k \in 1..K
      PROVE  /\ env[k].v \in Int /\ f[env[k].v] \in Int /\ par(k) \in Int
             /\ env[k].z.num \in Int /\ env[k].z.den \in Int /\ env[k].z.den > 0
  <2>1. env[k] \in [v : Nat, z : [num : Int, den : Int]]
    <3> DEFINE V == [v : Nat, z : [num : Int, den : Int]]
    <3>1. env \in Seq(V)
      BY DEF ScanLow, ScanEnvs
    <3> HIDE DEF V
    <3>2. env[k] \in V
      BY <3>1
    <3> QED BY <3>2 DEF V
  <2>2. env[k].v \in 0..(ScanSide - 1)
    BY <1>1 DEF ScanLow, ScanFinite
  <2>3. f[env[k].v] \in Int /\ env[k].v \in Int
    BY <2>2, ScanSizes DEF ScanSamples
  <2>4. par(k) \in Int
    BY <2>3 DEF ScanPar
  <2> QED BY <1>1, <2>1, <2>3, <2>4 DEF ScanLow
<1> HIDE DEF par, K
<1>5. ASSUME NEW k \in 1..K, k > 1
      PROVE  /\ k - 1 \in 1..K
             /\ ScanBefore(env, q, k) => par(k) <= par(k - 1)
             /\ ~ScanBefore(env, q, k) => par(k - 1) <= par(k)
             /\ k > 2 /\ ScanBefore(env, q, k) => ScanBefore(env, q, k - 1)
  <2>1. k - 1 \in 1..K
    BY <1>1, <1>5
  <2>2. env[k - 1].v < env[k].v /\ env[k].z = ScanMeet(f, env[k].v, env[k - 1].v)
    BY <1>1, <1>5 DEF ScanLow
  <2>3. /\ par(k) <= par(k - 1) <=> env[k].z.num <= q * env[k].z.den
        /\ par(k - 1) <= par(k) <=> q * env[k].z.den <= env[k].z.num
    <3>1. env[k].v \in Int /\ env[k - 1].v \in Int /\ f[env[k].v] \in Int /\ f[env[k - 1].v] \in Int
      BY <1>4, <2>1
    <3> QED BY <2>2, <3>1, ScanMeets DEF par
  <2>4. q * env[k].z.den \in Int /\ env[k].z.num \in Int
    BY <1>4
  <2>5. k > 2 => env[k - 1].z.num * env[k].z.den < env[k].z.num * env[k - 1].z.den
    BY <1>1 DEF ScanLow
  <2>6. k > 2 /\ ScanBefore(env, q, k) => ScanBefore(env, q, k - 1)
    <3> DEFINE a == env[k - 1].z.num
               b == env[k - 1].z.den
               c == env[k].z.num
               d == env[k].z.den
    <3>1. a \in Int /\ b \in Int /\ c \in Int /\ d \in Int /\ b > 0 /\ d > 0
      BY <1>4, <2>1
    <3>2. (k > 2 => a * d < c * b) /\ (ScanBefore(env, q, k) <=> c < q * d) /\ (ScanBefore(env, q, k - 1) <=> a < q * b)
      BY <2>5 DEF ScanBefore
    <3> HIDE DEF a, b, c, d
    <3>3. a * d < c * b /\ c < q * d => a < q * b
      BY <3>1, ScanFractions
    <3> QED BY <3>2, <3>3
  <2> QED BY <2>1, <2>3, <2>4, <2>6, SMTT(30) DEF ScanBefore
<1>6. \A k \in 0..K : k >= m => par(m) <= par(k)
  <2> DEFINE T == {k \in 0..K : k >= m => par(m) <= par(k)}
  <2>1. 0 \in T
    BY <1>1, <1>3
  <2>2. ASSUME NEW k \in 1..K, k - 1 \in T PROVE k \in T
    <3>1. CASE k < m
      BY <1>1, <1>3, <3>1
    <3>2. CASE k = m
      BY <1>1, <1>3, <1>4, <3>2
    <3>3. CASE k > m
      <4>1. k > 1 /\ ~ScanBefore(env, q, k) /\ k - 1 >= m
        BY <1>1, <1>3, <3>3
      <4>2. par(k - 1) <= par(k) /\ k - 1 \in 1..K
        BY <1>5, <4>1
      <4>3. par(m) <= par(k - 1)
        BY <2>2, <4>1
      <4>4. par(m) <= par(k)
        BY <1>3, <1>4, <4>2, <4>3
      <4> QED BY <4>4
    <3> QED BY <1>1, <1>3, <3>1, <3>2, <3>3
  <2>3. \A k \in 1..K : k - 1 \in T => k \in T
    BY <2>2
  <2> HIDE DEF T
  <2>4. \A k \in 0..K : k \in T
    BY <1>1, <2>1, <2>3, ScanCounts
  <2> QED BY <2>4 DEF T
<1>7. \A n \in 0..(m - 1) : par(m) <= par(m - n)
  <2> DEFINE T == {n \in 0..(m - 1) : par(m) <= par(m - n) /\ (m - n > 1 => ScanBefore(env, q, m - n))}
  <2>1. 0 \in T
    <3>1. m - 0 = m /\ 0 \in 0..(m - 1) /\ par(m) \in Int
      BY <1>3, <1>4
    <3> QED BY <1>3, <3>1
  <2>2. ASSUME NEW n \in 1..(m - 1), n - 1 \in T PROVE n \in T
    <3> DEFINE k == m - (n - 1)
    <3>1. k \in 1..K /\ k > 1 /\ k - 1 = m - n /\ n \in 0..(m - 1)
      BY <1>1, <1>3
    <3>2. par(m) <= par(k) /\ ScanBefore(env, q, k)
      BY <2>2, <3>1
    <3> HIDE DEF k
    <3>3. par(k) <= par(k - 1) /\ k - 1 \in 1..K /\ (k > 2 => ScanBefore(env, q, k - 1))
      BY <1>5, <3>1, <3>2
    <3>4. par(m) <= par(k - 1)
      BY <1>3, <1>4, <3>1, <3>2, <3>3
    <3>5. m - n > 1 => k > 2
      BY <1>3, <3>1
    <3> QED BY <3>1, <3>3, <3>4, <3>5
  <2>3. \A n \in 1..(m - 1) : n - 1 \in T => n \in T
    BY <2>2
  <2> HIDE DEF T
  <2>4. \A n \in 0..(m - 1) : n \in T
    <3>1. m - 1 \in Nat
      BY <1>1, <1>3
    <3> QED BY <2>1, <2>3, <3>1, ScanCounts
  <2> QED BY <2>4 DEF T
<1>8. ASSUME NEW k \in 1..K PROVE par(m) <= par(k)
  <2>1. CASE k >= m
    BY <1>6, <2>1, <1>1
  <2>2. CASE k < m
    <3>1. m - k \in 0..(m - 1) /\ m - (m - k) = k
      BY <1>1, <1>3, <2>2
    <3> QED BY <1>7, <3>1
  <2> QED BY <1>1, <1>3, <2>1, <2>2
<1>9. m \in DOMAIN env /\ \A k \in DOMAIN env : par(m) <= par(k)
  BY <1>1, <1>3, <1>8
<1> QED BY <1>9 DEF m, par

(* The one-dimensional transform: the least of the parabolas, at each place. *)
LEMMA ScanDt1dIs ==
  ASSUME NEW f \in ScanSamples
  PROVE  LET d == ScanDt1d(f)
             F == ScanFinite(f, ScanSide)
         IN /\ d \in [0..(ScanSide - 1) -> Nat]
            /\ F = {} => d = f
            /\ F # {} => \A q \in 0..(ScanSide - 1) : /\ \E v \in F : d[q] = ScanPar(f, v, q)
                                                     /\ \A u \in F : d[q] <= ScanPar(f, u, q)
<1> DEFINE env == ScanEnvelope[<<f, ScanSide>>]
           F == ScanFinite(f, ScanSide)
           m(q) == Max({k \in DOMAIN env : k = 1 \/ ScanBefore(env, q, k)})
           r(q) == ScanPar(f, env[m(q)].v, q)
<1>1. ScanLow(f, env, ScanSide)
  BY ScanEnvelopeLow
<1>2. ScanDt1d(f) = IF env = <<>> THEN f ELSE [q \in 0..(ScanSide - 1) |-> r(q)]
  <2>1. ASSUME NEW e PROVE (CHOOSE d \in {e} : TRUE) = e
    OBVIOUS
  <2>2. ScanDt1d(f) = CHOOSE d \in {IF env = <<>> THEN f ELSE [q \in 0..(ScanSide - 1) |-> r(q)]} : TRUE
    BY ZenonT(40) DEF ScanDt1d, ScanPar, ScanBefore
  <2> QED BY <2>2
<1>3. Len(env) \in Nat /\ DOMAIN env = 1..Len(env) /\ (env = <<>> <=> Len(env) = 0)
  <2>1. env \in ScanEnvs
    BY <1>1 DEF ScanLow
  <2> HIDE DEF env
  <2> QED BY <2>1 DEF ScanEnvs
<1> HIDE DEF env
<1>4. \A u \in F : \A q \in Int : ScanPar(f, u, q) \in Nat /\ u \in 0..(ScanSide - 1)
  <2>1. ASSUME NEW u \in F, NEW q \in Int PROVE ScanPar(f, u, q) \in Nat /\ u \in 0..(ScanSide - 1)
    <3>1. u \in 0..(ScanSide - 1) /\ f[u] \in Nat
      BY ScanSizes DEF ScanFinite, ScanSamples
    <3>2. (q - u) * (q - u) \in Nat
      <4> DEFINE x == q - u
      <4>1. x \in Int
        BY <3>1
      <4> HIDE DEF x
      <4>2. x * x \in Nat
        BY <4>1
      <4> QED BY <4>2 DEF x
    <3> QED BY <3>1, <3>2 DEF ScanPar
  <2> QED BY <2>1
<1>5. CASE env = <<>>
  <2>1. F = {}
    <3>1. ASSUME NEW u \in F PROVE FALSE
      <4>1. \E k \in DOMAIN env : ScanPar(f, env[k].v, 0) <= ScanPar(f, u, 0)
        BY <1>1 DEF ScanLow
      <4> QED BY <1>3, <1>5, <4>1
    <3> QED BY <3>1
  <2> QED BY <1>2, <1>5, <2>1 DEF ScanSamples
<1>6. CASE env # <<>>
  <2>1. Len(env) > 0
    BY <1>3, <1>6
  <2>2. \A k \in DOMAIN env : env[k].v \in F
    BY <1>1 DEF ScanLow
  <2>3. F # {}
    BY <1>3, <2>1, <2>2
  <2>4. ASSUME NEW q \in Int PROVE r(q) \in Nat /\ (\E v \in F : r(q) = ScanPar(f, v, q)) /\ \A u \in F : r(q) <= ScanPar(f, u, q)
    <3>1. m(q) \in DOMAIN env /\ \A k \in DOMAIN env : r(q) <= ScanPar(f, env[k].v, q)
      BY <1>1, <2>1, ScanReads
    <3> HIDE DEF m
    <3>2. env[m(q)].v \in F
      BY <2>2, <3>1
    <3>3. r(q) \in Nat
      BY <1>4, <3>2
    <3>4. ASSUME NEW u \in F PROVE r(q) <= ScanPar(f, u, q)
      <4>1. PICK k \in DOMAIN env : ScanPar(f, env[k].v, q) <= ScanPar(f, u, q)
        BY <1>1 DEF ScanLow
      <4>2. r(q) <= ScanPar(f, env[k].v, q)
        BY <3>1
      <4>3. ScanPar(f, env[k].v, q) \in Nat /\ ScanPar(f, u, q) \in Nat
        BY <1>4, <2>2
      <4> HIDE DEF r
      <4> QED BY <3>3, <4>1, <4>2, <4>3
    <3> QED BY <3>2, <3>3, <3>4
  <2>5. ScanDt1d(f) = [q \in 0..(ScanSide - 1) |-> r(q)]
    BY <1>2, <1>6
  <2> HIDE DEF r, F
  <2>6. \A q \in 0..(ScanSide - 1) : q \in Int /\ ScanDt1d(f)[q] = r(q)
    BY <2>5, ScanSizes
  <2>7. ScanDt1d(f) \in [0..(ScanSide - 1) -> Nat]
    BY <2>4, <2>5, <2>6
  <2> QED BY <2>3, <2>4, <2>6, <2>7 DEF F
<1> QED BY <1>5, <1>6

(* The cells' numbers, row by row.                                           *)
LEMMA ScanRowsCols ==
  /\ \A c \in ScanCells : /\ c \in Nat /\ ScanRow(c) \in 0..(ScanSide - 1) /\ ScanCol(c) \in 0..(ScanSide - 1)
                          /\ ScanAt(ScanRow(c), ScanCol(c)) = c
  /\ \A i, j \in 0..(ScanSide - 1) : /\ ScanAt(i, j) \in ScanCells
                                     /\ ScanRow(ScanAt(i, j)) = i /\ ScanCol(ScanAt(i, j)) = j
<1> DEFINE N == ScanSide
<1>1. N \in Nat /\ N > 0
  BY ScanSizes
<1>2. ScanCells = 0..(N * N - 1) /\ N * N \in Nat
  BY <1>1 DEF ScanCells
<1>3. \A c : ScanRow(c) = c \div N /\ ScanCol(c) = c % N
  BY DEF ScanRow, ScanCol
<1>4. \A i, j : ScanAt(i, j) = i * N + j
  BY DEF ScanAt
<1> HIDE DEF N
<1>5. ASSUME NEW a \in Int, NEW b \in Int, a * N < b * N PROVE a < b
  <2>1. a < b <=> a * N < b * N
    BY <1>1, ScanTimes
  <2> QED BY <1>5, <2>1
<1>6. ASSUME NEW i \in Int, NEW j \in Int, NEW k \in Int, NEW l \in 0..(N - 1), j \in 0..(N - 1), i * N + j = k * N + l
      PROVE  i = k /\ j = l
  <2> DEFINE iN == i * N
             kN == k * N
  <2>1. iN \in Int /\ kN \in Int /\ (i + 1) * N = iN + N /\ (k + 1) * N = kN + N
    BY <1>1
  <2>2. iN < kN + N /\ kN < iN + N
    <3> HIDE DEF iN, kN
    <3> QED BY <1>1, <1>6, <2>1 DEF iN, kN
  <2>3. i < k + 1 /\ k < i + 1
    BY <1>5, <2>1, <2>2
  <2> QED BY <1>1, <1>6, <2>3
<1>7. ASSUME NEW c \in 0..(N * N - 1)
      PROVE  /\ c \in Nat /\ c \div N \in 0..(N - 1) /\ c % N \in 0..(N - 1) /\ (c \div N) * N + (c % N) = c
  <2> DEFINE d == c \div N
             r == c % N
  <2>1. c \in Nat
    BY <1>2
  <2>2. d \in Int /\ r \in 0..(N - 1) /\ c = N * d + r
    BY <1>1, <2>1
  <2> HIDE DEF d, r
  <2>3. c = d * N + r /\ d * N \in Int /\ c < N * N
    BY <1>1, <1>2, <2>1, <2>2
  <2>4. d * N < N * N
    BY <1>1, <1>2, <2>2, <2>3
  <2>5. d < N
    BY <1>1, <1>5, <2>2, <2>4
  <2>6. (-1) * N < (d + 1) * N - N
    <3>1. (d + 1) * N = d * N + N /\ (-1) * N = -N
      BY <1>1, <2>2
    <3> QED BY <1>1, <2>1, <2>2, <2>3, <3>1
  <2>7. -1 < d
    <3>1. (d + 1) * N - N = d * N
      BY <1>1, <2>2
    <3> QED BY <1>5, <2>2, <2>6, <3>1
  <2>8. d \in 0..(N - 1)
    BY <1>1, <2>2, <2>5, <2>7
  <2>9. c \in Nat /\ d \in 0..(N - 1) /\ r \in 0..(N - 1) /\ d * N + r = c
    BY <2>1, <2>2, <2>3, <2>8
  <2> QED BY <2>9 DEF d, r
<1>8. ASSUME NEW i \in 0..(N - 1), NEW j \in 0..(N - 1)
      PROVE  i * N + j \in 0..(N * N - 1) /\ (i * N + j) \div N = i /\ (i * N + j) % N = j
  <2> DEFINE c == i * N + j
  <2>1. i + 1 <= N /\ i \in Nat /\ i + 1 \in Int
    BY <1>1
  <2>2. (i + 1) * N <= N * N
    BY <1>1, <2>1, ScanTimes
  <2>3. (i + 1) * N = i * N + N /\ i * N \in Nat
    BY <1>1, <2>1
  <2>4. c \in 0..(N * N - 1)
    BY <1>1, <1>2, <2>2, <2>3
  <2>5. (c \div N) * N + (c % N) = c /\ c % N \in 0..(N - 1) /\ c \div N \in 0..(N - 1)
    <3> HIDE DEF c
    <3> QED BY <1>7, <2>4
  <2>6. c \div N = i /\ c % N = j
    <3> DEFINE d == c \div N
               r == c % N
    <3>1. i * N + j = d * N + r /\ d \in Int /\ r \in 0..(N - 1) /\ i \in Int /\ j \in Int
      BY <1>1, <2>5
    <3> HIDE DEF d, r
    <3>2. i = d /\ j = r
      BY <1>6, <3>1
    <3> QED BY <3>2 DEF d, r
  <2> QED BY <2>4, <2>6
<1>9. \A c \in ScanCells : /\ c \in Nat /\ ScanRow(c) \in 0..(N - 1) /\ ScanCol(c) \in 0..(N - 1)
                          /\ ScanAt(ScanRow(c), ScanCol(c)) = c
  BY <1>2, <1>3, <1>4, <1>7
<1>10. \A i, j \in 0..(N - 1) : /\ ScanAt(i, j) \in ScanCells
                                /\ ScanRow(ScanAt(i, j)) = i /\ ScanCol(ScanAt(i, j)) = j
  BY <1>2, <1>3, <1>4, <1>8
<1> QED BY <1>9, <1>10 DEF N

(* The squared distance of two cells, read off the table.                    *)
LEMMA ScanD2Is ==
  ASSUME NEW a \in ScanCells, NEW b \in ScanCells
  PROVE  /\ ScanD2[a][b] = (ScanRow(a) - ScanRow(b)) * (ScanRow(a) - ScanRow(b))
                             + (ScanCol(a) - ScanCol(b)) * (ScanCol(a) - ScanCol(b))
         /\ ScanD2[a][b] \in Int
<1>1. ScanD2[a][b] = (ScanRow(a) - ScanRow(b)) * (ScanRow(a) - ScanRow(b))
                       + (ScanCol(a) - ScanCol(b)) * (ScanCol(a) - ScanCol(b))
  BY ScanFixedIs DEF ScanD2
<1>2. ScanRow(a) \in Int /\ ScanRow(b) \in Int /\ ScanCol(a) \in Int /\ ScanCol(b) \in Int
  BY ScanRowsCols
<1> QED BY <1>1, <1>2

ScanRowOf(log, thr, i) == [j \in 0..(ScanSide - 1) |-> IF log[ScanAt(i, j)] > thr THEN 0 ELSE ScanInf]
ScanColOf(log, thr, j) == [i \in 0..(ScanSide - 1) |-> ScanDt1d(ScanRowOf(log, thr, i))[j]]

(* What the two passes leave in a cell, the tables put aside.                *)
LEMMA ScanRecomputeIs ==
  ASSUME NEW log, NEW thr
  PROVE  ScanRecompute(log, thr) =
           IF \A c \in ScanCells : log[c] <= thr THEN [c \in ScanCells |-> ScanCellCm * ScanSide]
           ELSE [c \in ScanCells |-> ScanCm[ScanDt1d(ScanColOf(log, thr, ScanCol(c)))[ScanRow(c)]]]
<1> DEFINE N == 0..(ScanSide - 1)
           rows == [i \in N |-> ScanDt1d(ScanRowOf(log, thr, i))]
           cols == [j \in N |-> ScanDt1d(ScanColOf(log, thr, j))]
<1>1. \A v : ScanFixed(v) = v
  BY ScanFixedIs
<1>2. ScanRecompute(log, thr) =
        IF \A c \in ScanCells : log[c] <= thr THEN [c \in ScanCells |-> ScanCellCm * ScanSide]
        ELSE [c \in ScanCells |-> ScanCm[ScanDt1d([i \in N |-> rows[i][ScanCol(c)]])[ScanRow(c)]]]
  <2>1. \A c \in ScanCells : ScanCol(c) \in N
    BY ScanRowsCols
  <2> DEFINE R == ScanFixed([i \in N |-> ScanDt1d(ScanFixed([j \in N |-> IF log[ScanAt(i, j)] > thr THEN 0 ELSE ScanInf]))])
             C == ScanFixed([j \in N |-> ScanDt1d(ScanFixed([i \in N |-> R[i][j]]))])
             E == [c \in ScanCells |-> ScanCm[C[ScanCol(c)][ScanRow(c)]]]
  <2>2. R = rows
    <3>1. \A i \in N : ScanFixed([j \in N |-> IF log[ScanAt(i, j)] > thr THEN 0 ELSE ScanInf]) = ScanRowOf(log, thr, i)
      BY <1>1 DEF ScanRowOf
    <3>2. R = [i \in N |-> ScanDt1d(ScanFixed([j \in N |-> IF log[ScanAt(i, j)] > thr THEN 0 ELSE ScanInf]))]
      BY <1>1
    <3> HIDE DEF N
    <3> QED BY <3>1, <3>2
  <2>3. C = [j \in N |-> ScanDt1d([i \in N |-> R[i][j]])]
    <3> HIDE DEF R, N
    <3> QED BY <1>1
  <2>4. ScanRecompute(log, thr) =
        IF \A c \in ScanCells : log[c] <= thr THEN [c \in ScanCells |-> ScanCellCm * ScanSide] ELSE ScanFixed(E)
    BY DEF ScanRecompute
  <2> HIDE DEF R, C, rows, N
  <2>5. ASSUME NEW c \in ScanCells PROVE E[c] = ScanCm[ScanDt1d([i \in N |-> rows[i][ScanCol(c)]])[ScanRow(c)]]
    <3>1. C[ScanCol(c)] = ScanDt1d([i \in N |-> rows[i][ScanCol(c)]])
      BY <2>1, <2>2, <2>3
    <3> QED BY <3>1
  <2>6. E = [c \in ScanCells |-> ScanCm[ScanDt1d([i \in N |-> rows[i][ScanCol(c)]])[ScanRow(c)]]]
    <3>1. E = [c \in ScanCells |-> E[c]]
      OBVIOUS
    <3> HIDE DEF E
    <3> QED BY <2>5, <3>1
  <2> HIDE DEF E
  <2> QED BY <1>1, <2>4, <2>6
<1>3. ASSUME NEW c \in ScanCells PROVE [i \in N |-> rows[i][ScanCol(c)]] = ScanColOf(log, thr, ScanCol(c))
  BY DEF ScanColOf
<1> HIDE DEF rows, N
<1> QED BY <1>2, <1>3

ScanSquare(x) == x * x

(* Squares are natural, and a lesser number's is less.                       *)
LEMMA ScanSquares ==
  ASSUME NEW x \in Int
  PROVE  /\ ScanSquare(x) \in Nat
         /\ \A n \in Nat : -n < x /\ x < n => ScanSquare(x) < ScanSquare(n)
<1>1. ScanSquare(x) \in Nat
  BY DEF ScanSquare
<1>2. ASSUME NEW n \in Nat, -n < x, x < n PROVE ScanSquare(x) < ScanSquare(n)
  <2> DEFINE a == IF x < 0 THEN -x ELSE x
  <2>1. a \in Nat /\ a < n /\ a * a = x * x
    BY <1>2
  <2> HIDE DEF a
  <2>2. n > 0 /\ a * n < n * n
    BY <2>1, ScanTimes
  <2>3. a * a <= a * n
    <3>1. CASE a = 0
      BY <3>1, <2>1
    <3>2. CASE a > 0
      <4>1. a * a < n * a
        BY <2>1, <3>2, ScanTimes
      <4> QED BY <2>1, <4>1
    <3> QED BY <2>1, <3>1, <3>2
  <2> QED BY <2>1, <2>2, <2>3 DEF ScanSquare
<1> QED BY <1>1, <1>2

(* Along a row: the square of the distance to its nearest wall.              *)
LEMMA ScanAlongRow ==
  ASSUME NEW log \in [ScanCells -> Int], NEW thr \in Int, NEW i \in 0..(ScanSide - 1)
  PROVE  LET N == 0..(ScanSide - 1)
             d == ScanDt1d(ScanRowOf(log, thr, i))
             W == {j \in N : log[ScanAt(i, j)] > thr}
         IN /\ d \in [N -> Nat]
            /\ W = {} => \A j \in N : d[j] = ScanInf
            /\ W # {} => \A j \in N : /\ \E w \in W : d[j] = ScanSquare(j - w)
                                     /\ \A u \in W : d[j] <= ScanSquare(j - u)
                                     /\ d[j] # ScanInf
<1> DEFINE N == 0..(ScanSide - 1)
           f == ScanRowOf(log, thr, i)
           d == ScanDt1d(f)
           W == {j \in N : log[ScanAt(i, j)] > thr}
<1>1. ScanInf \in Nat /\ ScanInf > 0 /\ ScanInf >= ScanSquare(ScanSide) /\ ScanSquare(ScanSide) \in Nat
  <2> DEFINE s == ScanSide * ScanSide
  <2>1. s \in Nat /\ s > 0
    BY ScanSizes
  <2>2. ScanInf = 2 * s /\ ScanSquare(ScanSide) = s
    <3>1. (2 * ScanSide) * ScanSide = 2 * s
      BY ScanSizes
    <3> QED BY <3>1 DEF ScanInf, ScanSquare
  <2> HIDE DEF s
  <2> QED BY <2>1, <2>2
<1>2. f = [j \in N |-> IF log[ScanAt(i, j)] > thr THEN 0 ELSE ScanInf] /\ f \in ScanSamples
  <2>1. f = [j \in N |-> IF log[ScanAt(i, j)] > thr THEN 0 ELSE ScanInf]
    BY DEF ScanRowOf
  <2> QED BY <1>1, <2>1 DEF ScanSamples
<1> HIDE DEF f
<1>3. ScanFinite(f, ScanSide) = W
  BY <1>1, <1>2 DEF ScanFinite
<1>4. /\ d \in [N -> Nat]
      /\ W = {} => d = f
      /\ W # {} => \A q \in N : /\ \E v \in W : d[q] = ScanPar(f, v, q)
                                /\ \A u \in W : d[q] <= ScanPar(f, u, q)
  BY <1>2, <1>3, ScanDt1dIs
<1>5. \A w \in W, j \in N : ScanPar(f, w, j) = ScanSquare(j - w) /\ ScanSquare(j - w) < ScanSquare(ScanSide)
  <2>1. ASSUME NEW w \in W, NEW j \in N PROVE ScanPar(f, w, j) = ScanSquare(j - w) /\ ScanSquare(j - w) < ScanSquare(ScanSide)
    <3>1. f[w] = 0 /\ w \in N
      BY <1>2
    <3>2. j - w \in Int /\ -ScanSide < j - w /\ j - w < ScanSide /\ ScanSide \in Nat
      BY <3>1, ScanSizes
    <3>3. ScanSquare(j - w) < ScanSquare(ScanSide) /\ ScanSquare(j - w) \in Nat
      BY <3>2, ScanSquares
    <3>4. (j - w) * (j - w) + 0 = (j - w) * (j - w)
      BY <3>2
    <3> QED BY <3>1, <3>3, <3>4 DEF ScanPar, ScanSquare
  <2> QED BY <2>1
<1>6. W = {} => \A j \in N : d[j] = ScanInf
  BY <1>2, <1>4
<1>7. ASSUME W # {}, NEW j \in N
      PROVE  /\ \E w \in W : d[j] = ScanSquare(j - w)
             /\ \A u \in W : d[j] <= ScanSquare(j - u)
             /\ d[j] # ScanInf
  <2> HIDE DEF d, W
  <2>1. PICK w \in W : d[j] = ScanPar(f, w, j)
    BY <1>4, <1>7
  <2>2. d[j] = ScanSquare(j - w) /\ d[j] < ScanSquare(ScanSide) /\ d[j] \in Nat
    BY <1>4, <1>5, <2>1
  <2>3. d[j] # ScanInf
    BY <1>1, <2>2
  <2> QED BY <1>4, <1>5, <1>7, <2>2, <2>3
<1>8. W # {} => \A j \in N : /\ \E w \in W : d[j] = ScanSquare(j - w)
                             /\ \A u \in W : d[j] <= ScanSquare(j - u)
                             /\ d[j] # ScanInf
  <2> HIDE DEF W, d, N
  <2> QED BY <1>7
<1> QED BY <1>4, <1>6, <1>8 DEF f

(* Then along a column: the square of the distance to the nearest of all.    *)
LEMMA ScanAlongBoth ==
  ASSUME NEW log \in [ScanCells -> Int], NEW thr \in Int, NEW c \in ScanCells, NEW w0 \in ScanCells, log[w0] > thr
  PROVE  LET r == ScanDt1d(ScanColOf(log, thr, ScanCol(c)))[ScanRow(c)]
             W == {w \in ScanCells : log[w] > thr}
         IN r \in Int /\ (\E w \in W : r = ScanD2[c][w]) /\ \A w \in W : r <= ScanD2[c][w]
<1> DEFINE N == 0..(ScanSide - 1)
           i == ScanRow(c)
           j == ScanCol(c)
           row(k) == ScanDt1d(ScanRowOf(log, thr, k))
           V(k) == {l \in N : log[ScanAt(k, l)] > thr}
           f == ScanColOf(log, thr, j)
           d == ScanDt1d(f)
           W == {w \in ScanCells : log[w] > thr}
           F == {k \in N : V(k) # {}}
<1>1. i \in N /\ j \in N /\ \A k \in N : k \in Int
  BY ScanRowsCols, ScanSizes
<1> HIDE DEF i, j
<1>2. ASSUME NEW k \in N
      PROVE  /\ row(k) \in [N -> Nat]
             /\ V(k) = {} => row(k)[j] = ScanInf
             /\ V(k) # {} => /\ \E l \in V(k) : row(k)[j] = ScanSquare(j - l)
                             /\ \A l \in V(k) : row(k)[j] <= ScanSquare(j - l)
                             /\ row(k)[j] # ScanInf
  <2>1. /\ row(k) \in [N -> Nat]
        /\ V(k) = {} => \A m \in N : row(k)[m] = ScanInf
        /\ V(k) # {} => \A m \in N : /\ \E l \in V(k) : row(k)[m] = ScanSquare(m - l)
                                    /\ \A l \in V(k) : row(k)[m] <= ScanSquare(m - l)
                                    /\ row(k)[m] # ScanInf
    BY ScanAlongRow
  <2> HIDE DEF row, V, N
  <2> QED BY <1>1, <2>1
<1>3. f = [k \in N |-> row(k)[j]]
  BY DEF ScanColOf
<1> HIDE DEF row, f
<1>4. f \in ScanSamples
  <2>1. \A k \in N : row(k)[j] \in Nat
    BY <1>1, <1>2
  <2> QED BY <1>3, <2>1 DEF ScanSamples
<1>5. ScanFinite(f, ScanSide) = F
  <2>1. \A k \in N : f[k] # ScanInf <=> V(k) # {}
    <3> HIDE DEF V
    <3> QED BY <1>2, <1>3
  <2> HIDE DEF V
  <2> QED BY <2>1 DEF ScanFinite
<1>6. /\ d \in [N -> Nat]
      /\ F # {} => /\ \E k \in F : d[i] = ScanPar(f, k, i)
                   /\ \A k \in F : d[i] <= ScanPar(f, k, i)
  <2> HIDE DEF F
  <2> QED BY <1>1, <1>4, <1>5, ScanDt1dIs
<1>7. ASSUME NEW w \in W
      PROVE  /\ ScanRow(w) \in F /\ ScanCol(w) \in V(ScanRow(w))
             /\ ScanD2[c][w] = ScanSquare(i - ScanRow(w)) + ScanSquare(j - ScanCol(w)) /\ ScanD2[c][w] \in Int
  <2>1. ScanRow(w) \in N /\ ScanCol(w) \in N /\ ScanAt(ScanRow(w), ScanCol(w)) = w
    BY ScanRowsCols
  <2>2. ScanCol(w) \in V(ScanRow(w))
    BY <2>1
  <2>3. ScanD2[c][w] = ScanSquare(i - ScanRow(w)) + ScanSquare(j - ScanCol(w)) /\ ScanD2[c][w] \in Int
    BY ScanD2Is DEF ScanSquare, i, j
  <2> QED BY <2>1, <2>2, <2>3
<1>8. F # {}
  <2>1. w0 \in W
    OBVIOUS
  <2> HIDE DEF F, W
  <2> QED BY <1>7, <2>1
<1>9. ASSUME NEW k \in F, NEW l \in V(k)
      PROVE  /\ ScanAt(k, l) \in W /\ ScanD2[c][ScanAt(k, l)] = ScanSquare(i - k) + ScanSquare(j - l)
  <2>1. k \in N /\ l \in N /\ log[ScanAt(k, l)] > thr
    OBVIOUS
  <2>2. ScanAt(k, l) \in ScanCells /\ ScanRow(ScanAt(k, l)) = k /\ ScanCol(ScanAt(k, l)) = l
    BY <2>1, ScanRowsCols
  <2>3. ScanAt(k, l) \in W
    BY <2>1, <2>2
  <2> HIDE DEF W
  <2> QED BY <1>7, <2>2, <2>3
<1>10. ASSUME NEW k \in F PROVE ScanPar(f, k, i) = ScanSquare(i - k) + row(k)[j] /\ ScanSquare(i - k) \in Nat /\ row(k)[j] \in Nat
  <2>1. k \in N
    OBVIOUS
  <2>2. f[k] = row(k)[j] /\ row(k)[j] \in Nat
    BY <1>1, <1>2, <1>3, <2>1
  <2>3. i - k \in Int
    BY <1>1, <2>1
  <2> QED BY <2>2, <2>3, ScanSquares DEF ScanPar, ScanSquare
<1>11. \E w \in W : d[i] = ScanD2[c][w]
  <2>1. PICK k \in F : d[i] = ScanPar(f, k, i)
    BY <1>6, <1>8
  <2>2. k \in N /\ V(k) # {}
    OBVIOUS
  <2>3. PICK l \in V(k) : row(k)[j] = ScanSquare(j - l)
    BY <1>2, <2>2
  <2> HIDE DEF F, V, W
  <2> QED BY <1>9, <1>10, <2>1, <2>3
<1>12. ASSUME NEW w \in W PROVE d[i] <= ScanD2[c][w]
  <2> DEFINE k == ScanRow(w)
             l == ScanCol(w)
  <2>1. k \in F /\ l \in V(k) /\ ScanD2[c][w] = ScanSquare(i - k) + ScanSquare(j - l) /\ ScanD2[c][w] \in Int
    BY <1>7
  <2> HIDE DEF k, l, W
  <2>2. k \in N /\ V(k) # {} /\ l \in N
    BY <2>1
  <2>3. row(k)[j] <= ScanSquare(j - l)
    BY <1>2, <2>1, <2>2
  <2>4. d[i] <= ScanSquare(i - k) + row(k)[j] /\ ScanSquare(i - k) \in Nat /\ row(k)[j] \in Nat
    BY <1>6, <1>8, <1>10, <2>1
  <2>5. ScanSquare(j - l) \in Nat
    BY <1>1, <2>2, ScanSquares
  <2>6. d[i] \in Nat
    BY <1>1, <1>6
  <2> QED BY <2>1, <2>3, <2>4, <2>5, <2>6
<1>13. d[i] \in Int
  BY <1>1, <1>6
<1> QED BY <1>11, <1>12, <1>13 DEF f, i, j

(* The transform is the distance, by its definition.                         *)
LEMMA ScanFieldExact ==
  ASSUME NEW log \in [ScanCells -> Int], NEW thr \in Int
  PROVE  ScanRecompute(log, thr) = ScanExact(log, thr)
<1> DEFINE W == {c \in ScanCells : log[c] > thr}
           r(c) == ScanDt1d(ScanColOf(log, thr, ScanCol(c)))[ScanRow(c)]
<1>1. (\A c \in ScanCells : log[c] <= thr) <=> W = {}
  OBVIOUS
<1>2. ScanExact(log, thr) =
        [c \in ScanCells |-> IF W = {} THEN ScanCellCm * ScanSide ELSE ScanCm[Min({ScanD2[c][w] : w \in W})]]
  BY ScanFixedIs DEF ScanExact
<1>3. ScanRecompute(log, thr) = IF W = {} THEN [c \in ScanCells |-> ScanCellCm * ScanSide]
                                ELSE [c \in ScanCells |-> ScanCm[r(c)]]
  <2> HIDE DEF W
  <2> QED BY <1>1, ScanRecomputeIs
<1>4. ASSUME W # {}, NEW c \in ScanCells PROVE r(c) = Min({ScanD2[c][w] : w \in W})
  <2>1. PICK w0 \in ScanCells : log[w0] > thr
    BY <1>4
  <2>2. r(c) \in Int /\ (\E w \in W : r(c) = ScanD2[c][w]) /\ \A w \in W : r(c) <= ScanD2[c][w]
    BY <2>1, ScanAlongBoth
  <2>3. \A w \in W : ScanD2[c][w] \in Int
    BY ScanD2Is
  <2> DEFINE S == {ScanD2[c][w] : w \in W}
             m == r(c)
  <2> HIDE DEF r
  <2>4. m \in S /\ m \in Int /\ (\A y \in S : m <= y) /\ \A y \in S : y \in Int
    BY <2>2, <2>3
  <2> HIDE DEF S, m
  <2>5. Min(S) = m
    <3> DEFINE n == Min(S)
    <3>1. n \in S /\ \A y \in S : n <= y
      BY <2>4 DEF Min
    <3> HIDE DEF n
    <3>2. n <= m /\ m <= n /\ n \in Int
      BY <2>4, <3>1
    <3>3. n = m
      BY <2>4, <3>2
    <3> QED BY <3>3 DEF n
  <2> QED BY <2>5 DEF S, m
<1> HIDE DEF W, r
<1> QED BY <1>2, <1>3, <1>4

(* -------------------------------------------------------- a beam's end     *)

ScanPoints == [i : Int, j : Int, err : Int]
ScanOn(i0, i1) == IF i1 >= i0 THEN i1 - i0 ELSE i0 - i1
ScanSign(i0, i1) == IF i0 < i1 THEN 1 ELSE -1
ScanStep(i0, j0, i1, j1, p) ==
  LET di == ScanOn(i0, i1)
      dj == ScanOn(j0, j1)
      e2 == 2 * p.err
  IN IF p.i = i1 /\ p.j = j1 THEN p
     ELSE [i |-> IF e2 > -dj THEN p.i + ScanSign(i0, i1) ELSE p.i,
           j |-> IF e2 < di THEN p.j + ScanSign(j0, j1) ELSE p.j,
           err |-> p.err - (IF e2 > -dj THEN dj ELSE 0) + (IF e2 < di THEN di ELSE 0)]
ScanWalks(i0, j0, i1, j1, w) ==
  /\ w[0] = [i |-> i0, j |-> j0, err |-> ScanOn(i0, i1) - ScanOn(j0, j1)]
  /\ \A n \in 1..(ScanOn(i0, i1) + ScanOn(j0, j1)) : w[n] = ScanStep(i0, j0, i1, j1, w[n - 1])
  /\ ScanWalk(i0, j0, i1, j1) = [n \in 1..(ScanOn(i0, i1) + ScanOn(j0, j1)) |-> ScanCell(w[n].i, w[n].j)]

(* A step of the walk moves by one at most in each direction, and moves      *)
(* until it is there.                                                        *)
LEMMA ScanStepIs ==
  ASSUME NEW i0 \in Int, NEW j0 \in Int, NEW i1 \in Int, NEW j1 \in Int, NEW p \in ScanPoints
  PROVE  /\ ScanStep(i0, j0, i1, j1, p) \in ScanPoints
         /\ p.i \in Int /\ p.j \in Int
         /\ p.i = i1 /\ p.j = j1 => ScanStep(i0, j0, i1, j1, p) = p
         /\ LET s == ScanStep(i0, j0, i1, j1, p)
            IN /\ s.i = p.i \/ s.i = p.i + ScanSign(i0, i1)
               /\ s.j = p.j \/ s.j = p.j + ScanSign(j0, j1)
               /\ ~(p.i = i1 /\ p.j = j1) /\ (i0 # i1 \/ j0 # j1) => s.i # p.i \/ s.j # p.j
<1>1. ScanOn(i0, i1) \in Nat /\ ScanOn(j0, j1) \in Nat /\ (i0 # i1 => ScanOn(i0, i1) > 0) /\ (j0 # j1 => ScanOn(j0, j1) > 0)
  BY DEF ScanOn
<1>2. ScanSign(i0, i1) \in {1, -1} /\ ScanSign(j0, j1) \in {1, -1}
  BY DEF ScanSign
<1> DEFINE di == ScanOn(i0, i1)
           dj == ScanOn(j0, j1)
           si == ScanSign(i0, i1)
           sj == ScanSign(j0, j1)
           ni == IF 2 * p.err > -dj THEN p.i + si ELSE p.i
           nj == IF 2 * p.err < di THEN p.j + sj ELSE p.j
           ne == p.err - (IF 2 * p.err > -dj THEN dj ELSE 0) + (IF 2 * p.err < di THEN di ELSE 0)
<1>3. ScanStep(i0, j0, i1, j1, p) = IF p.i = i1 /\ p.j = j1 THEN p ELSE [i |-> ni, j |-> nj, err |-> ne]
  BY DEF ScanStep
<1> HIDE DEF di, dj, si, sj
<1>4. p.i \in Int /\ p.j \in Int /\ p.err \in Int
  BY DEF ScanPoints
<1>5. di \in Nat /\ dj \in Nat /\ si \in {1, -1} /\ sj \in {1, -1} /\ (i0 # i1 => di > 0) /\ (j0 # j1 => dj > 0)
  BY <1>1, <1>2 DEF di, dj, si, sj
<1>6. ni \in Int /\ nj \in Int /\ ne \in Int
  BY <1>4, <1>5
<1>7. (ni = p.i \/ ni = p.i + si) /\ (nj = p.j \/ nj = p.j + sj)
  OBVIOUS
<1>8. (i0 # i1 \/ j0 # j1) => ni # p.i \/ nj # p.j
  BY <1>4, <1>5
<1> HIDE DEF ni, nj, ne
<1>9. CASE p.i = i1 /\ p.j = j1
  BY <1>3, <1>4, <1>9
<1>10. CASE ~(p.i = i1 /\ p.j = j1)
  <2>1. ScanStep(i0, j0, i1, j1, p) = [i |-> ni, j |-> nj, err |-> ne]
    BY <1>3, <1>10
  <2>2. [i |-> ni, j |-> nj, err |-> ne] \in ScanPoints
    BY <1>6 DEF ScanPoints
  <2> QED BY <1>4, <1>7, <1>8, <1>10, <2>1, <2>2 DEF si, sj
<1> QED BY <1>9, <1>10

(* There is a walk of every line.                                            *)
LEMMA ScanWalkIs ==
  ASSUME NEW i0 \in Int, NEW j0 \in Int, NEW i1 \in Int, NEW j1 \in Int
  PROVE  \E w : ScanWalks(i0, j0, i1, j1, w)
<1> DEFINE L == ScanOn(i0, i1) + ScanOn(j0, j1)
           a == [i |-> i0, j |-> j0, err |-> ScanOn(i0, i1) - ScanOn(j0, j1)]
           g == [n \in 1..L |-> [p \in ScanPoints |-> ScanStep(i0, j0, i1, j1, p)]]
           is(f) == f = [n \in 0..L |-> IF n = 0 THEN a ELSE ScanStep(i0, j0, i1, j1, f[n - 1])]
           k == CHOOSE f : is(f)
<1>1. ScanOn(i0, i1) \in Nat /\ ScanOn(j0, j1) \in Nat
  BY DEF ScanOn
<1>2. L \in Nat /\ a \in ScanPoints
  BY <1>1 DEF ScanPoints
<1> HIDE DEF L, a
<1>3. g \in [1..L -> [ScanPoints -> ScanPoints]]
  BY ScanStepIs
<1>4. \A n \in 1..L : \A p \in ScanPoints : g[n][p] = ScanStep(i0, j0, i1, j1, p)
  OBVIOUS
<1> HIDE DEF g
<1>5. PICK h \in [0..L -> ScanPoints] : ScanGoes(L, a, g, h)
  BY <1>2, <1>3, ScanIterates
<1>6. ASSUME NEW n \in 0..L PROVE h[n] = IF n = 0 THEN a ELSE ScanStep(i0, j0, i1, j1, h[n - 1])
  <2>1. CASE n = 0
    BY <1>5, <2>1 DEF ScanGoes
  <2>2. CASE n # 0
    <3>1. n \in 1..L /\ n - 1 \in 0..L
      BY <1>2, <2>2
    <3> QED BY <1>4, <1>5, <2>2, <3>1 DEF ScanGoes
  <2> QED BY <2>1, <2>2
<1>7. is(h)
  BY <1>6
<1>8. is(k)
  <2> HIDE DEF is
  <2> QED BY <1>7, Zenon
<1>9. ScanWalk(i0, j0, i1, j1) = [n \in 1..L |-> ScanCell(k[n].i, k[n].j)]
  BY DEF ScanWalk, ScanStep, ScanOn, ScanSign, L, a
<1> HIDE DEF k
<1>10. ScanWalks(i0, j0, i1, j1, k)
  <2>1. k[0] = a
    BY <1>2, <1>8
  <2>2. \A n \in 1..L : k[n] = ScanStep(i0, j0, i1, j1, k[n - 1])
    BY <1>2, <1>8
  <2> QED BY <1>9, <2>1, <2>2 DEF ScanWalks, L, a
<1> QED BY <1>10

ScanInner(p) == p.i \in 1..(ScanSide - 2) /\ p.j \in 1..(ScanSide - 2)

(* A line that goes far enough from inside the border meets the border.      *)
LEMMA ScanMeetsBorder ==
  ASSUME NEW i0 \in 1..(ScanSide - 2), NEW j0 \in 1..(ScanSide - 2), NEW i1 \in Int, NEW j1 \in Int,
         ScanOn(i0, i1) + ScanOn(j0, j1) >= 2 * ScanSide
  PROVE  \E n \in DOMAIN ScanWalk(i0, j0, i1, j1) : ScanWalk(i0, j0, i1, j1)[n] \in ScanBorder
<1> DEFINE di == ScanOn(i0, i1)
           dj == ScanOn(j0, j1)
           si == ScanSign(i0, i1)
           sj == ScanSign(j0, j1)
           L == di + dj
<1>0. ScanSide \in Nat /\ ScanSide > 0 /\ i0 \in Int /\ j0 \in Int
  BY ScanSizes
<1>1. di \in Nat /\ dj \in Nat /\ si \in {1, -1} /\ sj \in {1, -1} /\ i1 = i0 + si * di /\ j1 = j0 + sj * dj
  BY <1>0 DEF ScanOn, ScanSign
<1>2. PICK w : ScanWalks(i0, j0, i1, j1, w)
  BY <1>0, ScanWalkIs
<1>3. /\ w[0] = [i |-> i0, j |-> j0, err |-> di - dj] /\ \A n \in 1..L : w[n] = ScanStep(i0, j0, i1, j1, w[n - 1])
      /\ ScanWalk(i0, j0, i1, j1) = [n \in 1..L |-> ScanCell(w[n].i, w[n].j)]
  BY <1>2 DEF ScanWalks
<1>4. L >= 2 * ScanSide /\ (i0 # i1 \/ j0 # j1)
  BY <1>0, <1>1
<1> HIDE DEF di, dj, L
<1>5. L \in Nat /\ L = di + dj
  BY <1>1 DEF L
<1> DEFINE u(n) == si * (w[n].i - i0)
           v(n) == sj * (w[n].j - j0)
           end(n) == w[n].i = i1 /\ w[n].j = j1
           T == {n \in 0..L : w[n] \in ScanPoints /\ u(n) \in Nat /\ v(n) \in Nat /\ (u(n) + v(n) >= n \/ end(n))}
<1>6. 0 \in T /\ ScanInner(w[0])
  <2>1. w[0] \in ScanPoints /\ w[0].i = i0 /\ w[0].j = j0
    BY <1>0, <1>1, <1>3 DEF ScanPoints
  <2>2. u(0) = 0 /\ v(0) = 0
    BY <1>0, <1>1, <2>1
  <2> QED BY <1>5, <2>1, <2>2 DEF ScanInner
<1>7. ASSUME NEW n \in 1..L, n - 1 \in T
      PROVE  /\ n \in T /\ w[n].i - w[n - 1].i \in {-1, 0, 1} /\ w[n].j - w[n - 1].j \in {-1, 0, 1}
  <2> DEFINE p == w[n - 1]
             s == w[n]
  <2>1. p \in ScanPoints /\ u(n - 1) \in Nat /\ v(n - 1) \in Nat /\ (u(n - 1) + v(n - 1) >= n - 1 \/ end(n - 1))
    BY <1>7
  <2>2. s = ScanStep(i0, j0, i1, j1, p)
    BY <1>3
  <2>3. p.i \in Int /\ p.j \in Int /\ u(n - 1) = si * (p.i - i0) /\ v(n - 1) = sj * (p.j - j0) /\ (end(n - 1) <=> p.i = i1 /\ p.j = j1)
    BY <2>1 DEF ScanPoints
  <2>4. u(n) = si * (s.i - i0) /\ v(n) = sj * (s.j - j0) /\ (end(n) <=> s.i = i1 /\ s.j = j1)
    OBVIOUS
  <2> HIDE DEF u, v, end, p, s
  <2>5. /\ s \in ScanPoints
        /\ p.i = i1 /\ p.j = j1 => s = p
        /\ s.i = p.i \/ s.i = p.i + si
        /\ s.j = p.j \/ s.j = p.j + sj
        /\ ~(p.i = i1 /\ p.j = j1) => s.i # p.i \/ s.j # p.j
    BY <1>0, <1>4, <2>1, <2>2, ScanStepIs
  <2> HIDE DEF si, sj
  <2>6. s.i - p.i \in {-1, 0, 1} /\ s.j - p.j \in {-1, 0, 1}
    BY <1>1, <2>3, <2>5
  <2>7. u(n) = u(n - 1) \/ (s.i # p.i /\ u(n) = u(n - 1) + 1)
    BY <1>0, <1>1, <2>3, <2>4, <2>5
  <2>8. v(n) = v(n - 1) \/ (s.j # p.j /\ v(n) = v(n - 1) + 1)
    BY <1>0, <1>1, <2>3, <2>4, <2>5
  <2>9. u(n) + v(n) >= n \/ end(n)
    <3>1. CASE end(n - 1)
      BY <2>3, <2>4, <2>5, <3>1
    <3>2. CASE ~end(n - 1)
      <4>1. (s.i # p.i => u(n) = u(n - 1) + 1) /\ (s.j # p.j => v(n) = v(n - 1) + 1)
        BY <1>0, <1>1, <2>3, <2>4, <2>5
      <4>2. n \in Int /\ u(n - 1) + v(n - 1) >= n - 1
        BY <1>5, <2>1, <3>2
      <4> QED BY <2>1, <2>3, <2>5, <2>7, <2>8, <3>2, <4>1, <4>2
    <3> QED BY <3>1, <3>2
  <2>10. u(n) \in Nat /\ v(n) \in Nat
    BY <2>1, <2>7, <2>8
  <2>11. n \in 0..L
    BY <1>5
  <2> QED BY <2>5, <2>6, <2>9, <2>10, <2>11 DEF s, p
<1>8. \A n \in 1..L : n - 1 \in T => n \in T
  BY <1>7
<1> HIDE DEF T
<1>9. \A n \in 0..L : n \in T
  BY <1>5, <1>6, <1>8, ScanCounts
<1>10. ASSUME NEW n \in 1..L
       PROVE  w[n].i - w[n - 1].i \in {-1, 0, 1} /\ w[n].j - w[n - 1].j \in {-1, 0, 1} /\ n - 1 \in 0..L
  <2>1. n - 1 \in 0..L
    BY <1>5
  <2>2. n - 1 \in T
    BY <1>9, <2>1
  <2> QED BY <1>7, <2>1, <2>2
<1>11. \A n \in 0..L : w[n].i \in Int /\ w[n].j \in Int
  BY <1>9 DEF T, ScanPoints
<1>12. ~ScanInner(w[L])
  <2>1. L \in T
    BY <1>5, <1>9
  <2>2. w[L].i \in Int /\ w[L].j \in Int /\ u(L) \in Nat /\ v(L) \in Nat /\ (u(L) + v(L) >= L \/ end(L))
    BY <1>5, <1>11, <2>1 DEF T
  <2>3. u(L) = si * (w[L].i - i0) /\ v(L) = sj * (w[L].j - j0)
    OBVIOUS
  <2> HIDE DEF si, sj
  <2>4. u(L) >= ScanSide \/ v(L) >= ScanSide
    <3>1. CASE end(L)
      <4>1. u(L) = di /\ v(L) = dj
        <5>1. w[L].i = i0 + si * di /\ w[L].j = j0 + sj * dj
          BY <1>1, <3>1
        <5> QED BY <1>0, <1>1, <2>3, <5>1
      <4> HIDE DEF u, v, end
      <4> QED BY <1>0, <1>1, <1>4, <1>5, <4>1
    <3>2. CASE u(L) + v(L) >= L
      <4> HIDE DEF u, v, end
      <4> QED BY <1>0, <1>4, <1>5, <2>2, <3>2
    <3> QED BY <2>2, <3>1, <3>2
  <2>5. CASE u(L) >= ScanSide
    <3>1. ~(w[L].i \in 1..(ScanSide - 2))
      <4>1. si = 1 \/ si = -1
        BY <1>1
      <4> QED BY <1>0, <2>2, <2>3, <2>5, <4>1
    <3> QED BY <3>1 DEF ScanInner
  <2>6. CASE v(L) >= ScanSide
    <3>1. ~(w[L].j \in 1..(ScanSide - 2))
      <4>1. sj = 1 \/ sj = -1
        BY <1>1
      <4> QED BY <1>0, <2>2, <2>3, <2>6, <4>1
    <3> QED BY <3>1 DEF ScanInner
  <2> QED BY <2>4, <2>5, <2>6
<1> DEFINE B == {n \in 0..L : ~ScanInner(w[n])}
           m == Min(B)
<1>13. m \in B /\ \A y \in B : m <= y
  <2>1. L \in B
    BY <1>5, <1>12
  <2>2. B \subseteq Nat
    BY <1>5
  <2> HIDE DEF B
  <2> QED BY <2>1, <2>2, LeastNatural
<1> HIDE DEF m
<1>14. m \in 1..L /\ ~ScanInner(w[m]) /\ ScanInner(w[m - 1])
  <2>1. m \in 0..L /\ ~ScanInner(w[m])
    BY <1>13
  <2>2. m # 0
    BY <1>6, <2>1
  <2>3. m - 1 \in 0..L /\ m \in 1..L
    BY <1>5, <2>1, <2>2
  <2>4. m - 1 \notin B
    BY <1>13, <2>1
  <2> QED BY <2>1, <2>3, <2>4
<1>15. ScanCell(w[m].i, w[m].j) \in ScanBorder
  <2> DEFINE i == w[m].i
             j == w[m].j
             N == 0..(ScanSide - 1)
  <2>1. i \in N /\ j \in N
    <3>1. i \in Int /\ j \in Int /\ w[m - 1].i \in 1..(ScanSide - 2) /\ w[m - 1].j \in 1..(ScanSide - 2)
      BY <1>5, <1>11, <1>14 DEF ScanInner
    <3>2. i - w[m - 1].i \in {-1, 0, 1} /\ j - w[m - 1].j \in {-1, 0, 1}
      BY <1>10, <1>14
    <3> HIDE DEF i, j
    <3> QED BY <1>0, <3>1, <3>2
  <2>2. i \in {0, ScanSide - 1} \/ j \in {0, ScanSide - 1}
    <3>1. ~(i \in 1..(ScanSide - 2) /\ j \in 1..(ScanSide - 2))
      BY <1>14 DEF ScanInner
    <3> HIDE DEF i, j
    <3> QED BY <1>0, <2>1, <3>1
  <2> HIDE DEF i, j
  <2>3. ScanAt(i, j) \in ScanCells /\ ScanRow(ScanAt(i, j)) = i /\ ScanCol(ScanAt(i, j)) = j
    BY <2>1, ScanRowsCols
  <2>4. ScanCell(i, j) = ScanAt(i, j)
    BY <2>1 DEF ScanCell, ScanIn
  <2>5. ScanCell(i, j) \in ScanBorder
    BY <2>2, <2>3, <2>4 DEF ScanBorder
  <2> QED BY <2>5 DEF i, j
<1> QED BY <1>3, <1>14, <1>15

(* The sixteen directions.                                                   *)
LEMMA ScanDirIs ==
  ASSUME NEW d \in ScanDirs
  PROVE  LET v == ScanDir(d)
         IN /\ v.i \in Int /\ v.j \in Int
            /\ \/ v.i >= 2 \/ v.j >= 2 \/ v.i <= -2 \/ v.j <= -2
<1> DEFINE r == d % 4
           y == d \div 4
           b == CASE r = 0 -> [i |-> 0, j |-> 2] [] r = 1 -> [i |-> 1, j |-> 2]
                  [] r = 2 -> [i |-> 2, j |-> 2] [] OTHER -> [i |-> 2, j |-> 1]
<1>1. ScanDir(d) = ScanSpun(b, y)
  BY DEF ScanDir
<1>2. b \in {[i |-> 0, j |-> 2], [i |-> 1, j |-> 2], [i |-> 2, j |-> 2], [i |-> 2, j |-> 1]}
  OBVIOUS
<1> HIDE DEF b, y
<1>3. b.i \in Int /\ b.j \in Int /\ (b.i >= 2 \/ b.j >= 2)
  BY <1>2
<1>4. ScanSpun(b, y) \in {b, [i |-> b.j, j |-> -b.i], [i |-> -b.i, j |-> -b.j], [i |-> -b.j, j |-> b.i]}
  BY DEF ScanSpun
<1> QED BY <1>1, <1>3, <1>4

(* What a beam ends at is one of the things it stops at.                     *)
LEMMA ScanEndIs ==
  ASSUME NEW stops, ScanBorder \subseteq stops, NEW c \in ScanStands, NEW d \in ScanDirs
  PROVE  ScanEnd(stops, c, d) \in stops
<1> DEFINE i0 == ScanRow(c)
           j0 == ScanCol(c)
           v == ScanDir(d)
           i1 == i0 + ScanSide * v.i
           j1 == j0 + ScanSide * v.j
           way == ScanWalk(i0, j0, i1, j1)
           S == {n \in DOMAIN way : way[n] \in stops}
<1>1. c \in ScanCells /\ c \notin ScanBorder
  BY ScanAssumption
<1>2. i0 \in 1..(ScanSide - 2) /\ j0 \in 1..(ScanSide - 2)
  <2>1. i0 \in 0..(ScanSide - 1) /\ j0 \in 0..(ScanSide - 1)
    BY <1>1, ScanRowsCols
  <2>2. i0 \notin {0, ScanSide - 1} /\ j0 \notin {0, ScanSide - 1}
    BY <1>1 DEF ScanBorder
  <2> HIDE DEF i0, j0
  <2> QED BY <2>1, <2>2, ScanSizes
<1>3. ScanSights[c][d] = way
  <2>1. d \in ScanDirs
    OBVIOUS
  <2> QED BY <1>1, ScanFixedIs DEF ScanSights
<1>4. v.i \in Int /\ v.j \in Int /\ (v.i >= 2 \/ v.j >= 2 \/ v.i <= -2 \/ v.j <= -2)
  BY ScanDirIs
<1> HIDE DEF v, i0, j0
<1>5. i1 \in Int /\ j1 \in Int /\ ScanOn(i0, i1) + ScanOn(j0, j1) >= 2 * ScanSide
  <2> DEFINE a == ScanSide * v.i
             b == ScanSide * v.j
  <2>1. a \in Int /\ b \in Int /\ ScanSide \in Nat
    BY <1>4, ScanSizes
  <2>2. a >= 2 * ScanSide \/ b >= 2 * ScanSide \/ a <= -(2 * ScanSide) \/ b <= -(2 * ScanSide)
    <3>1. \A x \in Int : (x >= 2 => ScanSide * x >= 2 * ScanSide) /\ (x <= -2 => ScanSide * x <= -(2 * ScanSide))
      <4>1. ASSUME NEW x \in Int PROVE (2 <= x => 2 * ScanSide <= x * ScanSide) /\ (x <= -2 => x * ScanSide <= (-2) * ScanSide)
        BY ScanSizes, ScanTimes
      <4>2. \A x \in Int : x * ScanSide = ScanSide * x /\ (-2) * ScanSide = -(2 * ScanSide)
        BY ScanSizes
      <4> QED BY <4>1, <4>2
    <3> QED BY <1>4, <3>1
  <2> HIDE DEF a, b
  <2> QED BY <1>2, <2>1, <2>2 DEF ScanOn, a, b
<1>6. S # {}
  <2> HIDE DEF i1, j1
  <2> QED BY <1>2, <1>5, ScanMeetsBorder
<1>7. S \subseteq Nat
  <2>1. PICK w : ScanWalks(i0, j0, i1, j1, w)
    <3>1. i0 \in Int /\ j0 \in Int
      BY <1>2
    <3> HIDE DEF i1, j1, way
    <3> QED BY <1>5, <3>1, ScanWalkIs
  <2>2. DOMAIN way = 1..(ScanOn(i0, i1) + ScanOn(j0, j1))
    BY <2>1 DEF ScanWalks
  <2> HIDE DEF way
  <2> QED BY <2>2
<1> HIDE DEF way
<1>8. Min(S) \in S
  <2> HIDE DEF S
  <2> QED BY <1>6, <1>7, LeastNatural
<1>9. ScanEnd(stops, c, d) = way[Min(S)]
  BY <1>3 DEF ScanEnd
<1> QED BY <1>8, <1>9

(* A cell is beside itself, and beside is both ways.                         *)
LEMMA ScanNears ==
  ASSUME NEW a \in ScanCells
  PROVE  ScanNear(a, a) /\ \A b \in ScanCells : ScanNear(a, b) => ScanNear(b, a)
<1>1. \A x \in ScanCells : ScanRow(x) \in Int /\ ScanCol(x) \in Int
  BY ScanRowsCols
<1> QED BY <1>1 DEF ScanNear

(* The beams a window keeps end at a wall, or by somebody who stood.         *)
LEMMA ScanFinishIs ==
  ASSUME NEW room, ScanBorder \subseteq room, room \subseteq ScanCells, NEW c \in ScanStands, NEW legs \in Seq(SUBSET ScanLegs)
  PROVE  LET beams == ScanFinish(room, c, legs)
         IN /\ beams \in Seq(ScanCells \cup {ScanOff})
            /\ \A m \in DOMAIN beams :
                 beams[m] # ScanOff => /\ beams[m] \in ScanCells
                                       /\ \E w \in room \cup ScanStood(legs) : ScanNear(beams[m], w)
<1> DEFINE frame(m) == (m - 1) \div 16 + 1
           D == 1..(16 * Len(legs))
           end == [m \in D |-> ScanEnd(room \cup legs[frame(m)], c, (m - 1) % 16)]
           near == {m \in D : ScanD2[c][end[m]] <= ScanFar}
           voters(e) == {frame(m) : m \in {m \in near : end[m] = e}}
           voted == {e \in {end[m] : m \in near} : Cardinality(voters(e)) >= ScanVotes}
           kept == IF Len(legs) < ScanMinFrames THEN near ELSE {m \in near : \E e \in voted : ScanNear(e, end[m])}
           beams == [m \in D |-> IF m \in kept THEN end[m] ELSE ScanOff]
           F == DOMAIN legs
           times(l) == Cardinality({f \in F : l \in legs[f]})
<1>1. ScanFinish(room, c, legs) = beams
  <2>1. \A v : ScanFixed(v) = v
    BY ScanFixedIs
  <2>2. end = ScanFixed([m \in D |-> ScanEnd(room \cup legs[frame(m)], c, (m - 1) % 16)]) /\ DOMAIN end = D
    BY <2>1
  <2>3. near = ScanFixed({m \in DOMAIN end : ScanD2[c][end[m]] <= ScanFar})
    <3> HIDE DEF end
    <3> QED BY <2>1, <2>2
  <2>4. beams = ScanFixed([m \in DOMAIN end |-> IF m \in kept THEN end[m] ELSE ScanOff])
    <3> HIDE DEF end, kept, near
    <3> QED BY <2>1, <2>2
  <2> DEFINE E == ScanFixed([m \in D |-> ScanEnd(room \cup legs[frame(m)], c, (m - 1) % 16)])
             A == ScanFixed({m \in DOMAIN E : ScanD2[c][E[m]] <= ScanFar})
             O == {e \in {E[m] : m \in A} : Cardinality({frame(m) : m \in {m \in A : E[m] = e}}) >= ScanVotes}
             K == IF Len(legs) < ScanMinFrames THEN A ELSE {m \in A : \E e \in O : ScanNear(e, E[m])}
             B == ScanFixed([m \in DOMAIN E |-> IF m \in K THEN E[m] ELSE ScanOff])
  <2>5. ScanFinish(room, c, legs) = B
    BY DEF ScanFinish
  <2>6. E = end /\ A = near
    BY <2>2, <2>3
  <2>7. K = kept
    <3> HIDE DEF E, A, end, near
    <3> QED BY <2>6
  <2>8. B = beams
    <3> HIDE DEF E, K, kept, end
    <3> QED BY <2>1, <2>2, <2>6, <2>7
  <2> QED BY <2>5, <2>8
<1>2. Len(legs) \in Nat /\ F = 1..Len(legs) /\ \A f \in F : legs[f] \subseteq ScanLegs
  OBVIOUS
<1>3. ASSUME NEW m \in D PROVE frame(m) \in F /\ (m - 1) % 16 \in ScanDirs
  <2>1. m - 1 \in Nat /\ m - 1 < 16 * Len(legs)
    BY <1>2
  <2>2. (m - 1) \div 16 \in 0..(Len(legs) - 1)
    BY <1>2, <2>1
  <2> DEFINE L == Len(legs)
             q == (m - 1) \div 16
             d == (m - 1) % 16
  <2>3. L \in Nat /\ q \in 0..(L - 1) /\ d \in 0..15
    BY <1>2, <2>1, <2>2
  <2>4. frame(m) = q + 1
    OBVIOUS
  <2> HIDE DEF L, q, frame
  <2>5. q + 1 \in 1..L
    BY <2>3
  <2> QED BY <1>2, <2>3, <2>4, <2>5 DEF ScanDirs, L
<1>4. ASSUME NEW m \in D
      PROVE  end[m] \in room \cup legs[frame(m)] /\ end[m] \in ScanCells
  <2>1. frame(m) \in F /\ (m - 1) % 16 \in ScanDirs
    BY <1>3
  <2>2. legs[frame(m)] \subseteq ScanCells
    BY <1>2, <2>1, ScanAssumption
  <2>3. ScanEnd(room \cup legs[frame(m)], c, (m - 1) % 16) \in room \cup legs[frame(m)]
    <3> HIDE DEF frame
    <3> QED BY <2>1, ScanEndIs
  <2> HIDE DEF frame
  <2> QED BY <2>2, <2>3
<1> HIDE DEF end
<1>5. IsFiniteSet(F)
  <2> DEFINE L == Len(legs)
  <2>1. L \in Int /\ F = 1..L
    BY <1>2
  <2> HIDE DEF L, F
  <2>2. IsFiniteSet(1..L)
    BY <2>1, FS_Interval
  <2> QED BY <2>1, <2>2
<1>6. ASSUME NEW l PROVE times(l) \in Nat /\ IsFiniteSet({f \in F : l \in legs[f]})
  <2>1. {f \in F : l \in legs[f]} \in SUBSET F
    OBVIOUS
  <2>2. IsFiniteSet({f \in F : l \in legs[f]})
    BY <1>5, <2>1, FS_Subset
  <2> QED BY <2>2, FS_CardinalityType
<1>7. ASSUME NEW m \in kept PROVE m \in D /\ \E w \in room \cup ScanStood(legs) : ScanNear(end[m], w)
  <2>1. m \in near /\ m \in D
    OBVIOUS
  <2>2. CASE Len(legs) < ScanMinFrames
    <3>1. CASE end[m] \in room
      BY <1>4, <2>1, <3>1, ScanNears
    <3>2. CASE end[m] \in legs[frame(m)]
      <4>1. frame(m) \in F
        BY <1>3, <2>1
      <4>2. frame(m) \in {f \in F : end[m] \in legs[f]}
        BY <3>2, <4>1
      <4>3. times(end[m]) > 0
        <5> DEFINE S == {f \in F : end[m] \in legs[f]}
        <5>1. IsFiniteSet(S) /\ S # {}
          BY <1>6, <4>2
        <5> HIDE DEF S
        <5>2. Cardinality(S) # 0 /\ Cardinality(S) \in Nat
          BY <5>1, FS_EmptySet, FS_CardinalityType
        <5> QED BY <5>2 DEF S
      <4>4. end[m] \in ScanLegs
        BY <1>2, <3>2, <4>1
      <4>5. end[m] \in ScanStood(legs)
        BY <2>2, <4>3, <4>4 DEF ScanStood
      <4> QED BY <1>4, <2>1, <4>5, ScanNears
    <3> QED BY <1>4, <2>1, <3>1, <3>2
  <2>3. CASE ~(Len(legs) < ScanMinFrames)
    <3>1. PICK e \in voted : ScanNear(e, end[m])
      BY <2>3
    <3>2. PICK k \in near : e = end[k]
      OBVIOUS
    <3>3. k \in D /\ e \in ScanCells /\ end[m] \in ScanCells
      BY <1>4, <2>1, <3>2
    <3>4. ScanNear(end[m], e)
      BY <3>1, <3>3, ScanNears
    <3>5. CASE e \in room
      BY <3>4, <3>5
    <3>6. CASE e \notin room
      <4>1. voters(e) \in SUBSET {f \in F : e \in legs[f]}
        <5>1. ASSUME NEW n \in near, end[n] = e PROVE frame(n) \in F /\ e \in legs[frame(n)]
          <6>1. n \in D
            OBVIOUS
          <6> HIDE DEF near, frame
          <6> QED BY <1>3, <1>4, <3>6, <5>1, <6>1
        <5> HIDE DEF near, frame
        <5> QED BY <5>1
      <4>2. Cardinality(voters(e)) <= times(e) /\ Cardinality(voters(e)) \in Nat
        <5> DEFINE S == {f \in F : e \in legs[f]}
                   V == voters(e)
        <5>1. IsFiniteSet(S) /\ V \in SUBSET S
          BY <1>6, <4>1
        <5> HIDE DEF S, V
        <5>2. Cardinality(V) <= Cardinality(S) /\ IsFiniteSet(V)
          BY <5>1, FS_Subset
        <5>3. Cardinality(V) \in Nat
          BY <5>2, FS_CardinalityType
        <5> QED BY <5>2, <5>3 DEF S, V
      <4>3. Cardinality(voters(e)) >= ScanVotes
        OBVIOUS
      <4>4. times(e) >= ScanVotes
        <5> DEFINE a == Cardinality(voters(e))
                   b == times(e)
        <5>1. a \in Nat /\ b \in Nat /\ a <= b /\ a >= ScanVotes
          BY <1>6, <4>2, <4>3
        <5> HIDE DEF a, b
        <5>2. b >= ScanVotes
          BY <5>1, ScanSizes
        <5> QED BY <5>2 DEF b
      <4>5. e \in ScanLegs
        <5>1. frame(k) \in F /\ e \in legs[frame(k)]
          BY <1>3, <1>4, <3>2, <3>3, <3>6
        <5> HIDE DEF frame
        <5> QED BY <1>2, <5>1
      <4>6. e \in ScanStood(legs)
        BY <4>4, <4>5 DEF ScanStood
      <4> QED BY <3>4, <4>6
    <3> QED BY <2>1, <3>5, <3>6
  <2> QED BY <2>2, <2>3
<1>8. DOMAIN beams = D /\ \A m \in D : beams[m] = IF m \in kept THEN end[m] ELSE ScanOff
  <2> HIDE DEF kept
  <2> QED OBVIOUS
<1> HIDE DEF kept, beams
<1>9. \A m \in D : beams[m] \in ScanCells \cup {ScanOff}
  BY <1>4, <1>7, <1>8
<1>10. beams \in Seq(ScanCells \cup {ScanOff})
  <2>1. beams = [m \in 1..(16 * Len(legs)) |-> beams[m]]
    BY <1>8 DEF beams
  <2>2. 16 * Len(legs) \in Nat
    BY <1>2
  <2> QED BY <1>9, <2>1, <2>2
<1>11. ASSUME NEW m \in DOMAIN beams, beams[m] # ScanOff
       PROVE  beams[m] \in ScanCells /\ \E w \in room \cup ScanStood(legs) : ScanNear(beams[m], w)
  BY <1>4, <1>7, <1>8, <1>11
<1> QED BY <1>1, <1>10, <1>11

(* ------------------------------------------------------------ the ink      *)

ScanLogs == [ScanCells -> -ScanClampLog..ScanClampLog]

(* A bumped cell is held to the clamps, and is something only if it was or   *)
(* was hit.                                                                  *)
LEMMA ScanBumpIs ==
  ASSUME NEW v \in -ScanClampLog..ScanClampLog, NEW d \in Int
  PROVE  /\ ScanBump(v, d) \in -ScanClampLog..ScanClampLog
         /\ ScanBump(v, d) > 0 => v > 0 \/ d > 0
<1> DEFINE low == Min({ScanClampLog, v + d})
           high == Max({-ScanClampLog, low})
<1>1. ScanClampLog = 400
  BY DEF ScanClampLog
<1>2. low = IF v + d < 400 THEN v + d ELSE 400
  <2> DEFINE S == {400, v + d}
  <2>1. \E x \in S : \A y \in S : x <= y
    OBVIOUS
  <2>2. Min(S) \in S /\ \A y \in S : Min(S) <= y
    <3> HIDE DEF S
    <3> QED BY <2>1 DEF Min
  <2> DEFINE n == Min(S)
  <2>3. (n = 400 \/ n = v + d) /\ n <= 400 /\ n <= v + d
    BY <2>2
  <2> HIDE DEF n
  <2>4. n = IF v + d < 400 THEN v + d ELSE 400
    BY <2>3
  <2> QED BY <1>1, <2>4 DEF n
<1> HIDE DEF low
<1>3. low \in Int
  BY <1>2
<1>4. high = IF low > -400 THEN low ELSE -400
  <2> DEFINE S == {-400, low}
  <2>1. \E x \in S : \A y \in S : x >= y
    BY <1>3
  <2>2. Max(S) \in S /\ \A y \in S : Max(S) >= y
    <3> HIDE DEF S
    <3> QED BY <2>1 DEF Max
  <2> DEFINE n == Max(S)
  <2>3. (n = -400 \/ n = low) /\ n >= -400 /\ n >= low
    BY <2>2
  <2> HIDE DEF n
  <2>4. n = IF low > -400 THEN low ELSE -400
    BY <1>3, <2>3
  <2> QED BY <1>1, <2>4 DEF n
<1>5. ScanBump(v, d) = high
  BY DEF ScanBump, low
<1> HIDE DEF high
<1> QED BY <1>1, <1>2, <1>4, <1>5

(* A beam fills no cell but the one it ends in.                              *)
LEMMA ScanRayIs ==
  ASSUME NEW c, NEW e, NEW x
  PROVE  ScanRay(c, e, x) \in Int /\ (ScanRay(c, e, x) > 0 => x = e)
BY DEF ScanRay, ScanHit, ScanMiss

(* One pass keeps the log to its clamps, and fills only where a beam ends.   *)
LEMMA ScanPassIs ==
  ASSUME NEW log \in ScanLogs, NEW c, NEW beams \in Seq(ScanCells \cup {ScanOff})
  PROVE  /\ ScanPass(log, c, beams) \in ScanLogs
         /\ \A x \in ScanCells : ScanPass(log, c, beams)[x] > 0 =>
              log[x] > 0 \/ \E m \in DOMAIN beams : beams[m] # ScanOff /\ beams[m] = x
<1> DEFINE R == -ScanClampLog..ScanClampLog
           L == Len(beams)
           next(n, x, v) == IF beams[n] = ScanOff THEN v ELSE ScanBump(v, ScanRay(c, beams[n], x))
           is(x, f) == f = [n \in 0..L |-> IF n = 0 THEN log[x]
                                           ELSE IF beams[n] = ScanOff THEN f[n - 1]
                                           ELSE ScanBump(f[n - 1], ScanRay(c, beams[n], x))]
           k(x) == CHOOSE f : is(x, f)
           hit(x) == \E m \in DOMAIN beams : beams[m] # ScanOff /\ beams[m] = x
<1>1. L \in Nat /\ DOMAIN beams = 1..L
  OBVIOUS
<1>2. ScanPass(log, c, beams) = [x \in ScanCells |-> k(x)[L]]
  BY DEF ScanPass
<1> HIDE DEF L
<1>3. ASSUME NEW x \in ScanCells PROVE k(x)[L] \in R /\ (k(x)[L] > 0 => log[x] > 0 \/ hit(x))
  <2>1. log[x] \in R
    BY DEF ScanLogs
  <2>2. ASSUME NEW n \in 1..L, NEW v \in R PROVE next(n, x, v) \in R /\ (next(n, x, v) > 0 => v > 0 \/ hit(x))
    <3>1. CASE beams[n] = ScanOff
      BY <3>1
    <3>2. CASE beams[n] # ScanOff
      <4> DEFINE d == ScanRay(c, beams[n], x)
      <4>1. d \in Int /\ (d > 0 => x = beams[n])
        BY ScanRayIs
      <4> HIDE DEF d
      <4>2. ScanBump(v, d) \in R /\ (ScanBump(v, d) > 0 => v > 0 \/ d > 0)
        BY <4>1, ScanBumpIs
      <4>3. next(n, x, v) = ScanBump(v, d)
        BY <3>2 DEF d
      <4>4. x = beams[n] => hit(x)
        BY <1>1, <3>2
      <4> QED BY <4>1, <4>2, <4>3, <4>4
    <3> QED BY <3>1, <3>2
  <2> DEFINE g == [n \in 1..L |-> [v \in R |-> next(n, x, v)]]
             f == k(x)
             T == {n \in 0..L : f[n] \in R /\ (f[n] > 0 => log[x] > 0 \/ hit(x))}
  <2> HIDE DEF R, next, hit
  <2>3. g \in [1..L -> [R -> R]] /\ \A n \in 1..L : \A v \in R : g[n][v] = next(n, x, v)
    BY <2>2
  <2> HIDE DEF g
  <2>4. PICK h \in [0..L -> R] : ScanGoes(L, log[x], g, h)
    BY <1>1, <2>1, <2>3, ScanIterates
  <2>5. ASSUME NEW n \in 0..L PROVE h[n] = IF n = 0 THEN log[x] ELSE next(n, x, h[n - 1])
    <3>1. CASE n = 0
      BY <2>4, <3>1 DEF ScanGoes
    <3>2. CASE n # 0
      <4>1. n \in 1..L /\ n - 1 \in 0..L
        BY <1>1, <3>2
      <4> QED BY <2>3, <2>4, <3>2, <4>1 DEF ScanGoes
    <3> QED BY <3>1, <3>2
  <2>6. is(x, h)
    BY <2>5 DEF next
  <2>7. is(x, f)
    <3> HIDE DEF is
    <3> QED BY <2>6, Zenon
  <2> HIDE DEF f
  <2>8. f[0] = log[x] /\ \A n \in 1..L : f[n] = next(n, x, f[n - 1])
    BY <1>1, <2>7 DEF next
  <2>9. 0 \in T
    BY <1>1, <2>1, <2>8
  <2>10. \A n \in 1..L : n - 1 \in T => n \in T
    BY <2>2, <2>8
  <2> HIDE DEF T
  <2>11. \A n \in 0..L : n \in T
    BY <1>1, <2>9, <2>10, ScanCounts
  <2>12. L \in T
    BY <1>1, <2>11
  <2> QED BY <2>12 DEF T, f
<1> HIDE DEF k, hit, R
<1>4. ScanPass(log, c, beams) \in ScanLogs
  BY <1>2, <1>3 DEF ScanLogs, R
<1>5. \A x \in ScanCells : ScanPass(log, c, beams)[x] > 0 => log[x] > 0 \/ hit(x)
  BY <1>2, <1>3
<1> QED BY <1>4, <1>5 DEF hit

(* After all passes a cell is something only if it was or a beam ended there.*)
LEMMA ScanInkedIs ==
  ASSUME NEW log \in ScanLogs, NEW c, NEW beams \in Seq(ScanCells \cup {ScanOff})
  PROVE  /\ ScanInked(log, c, beams) \in ScanLogs
         /\ \A x \in ScanCells : ScanInked(log, c, beams)[x] > 0 =>
              log[x] > 0 \/ \E m \in DOMAIN beams : beams[m] # ScanOff /\ beams[m] = x
<1> DEFINE L == ScanPasses
           next(g) == ScanPass(g, c, beams)
           is(f) == f = [n \in 0..L |-> IF n = 0 THEN log ELSE CHOOSE g \in {ScanPass(h, c, beams) : h \in {f[n - 1]}} : TRUE]
           k == CHOOSE f : is(f)
           hit(x) == \E m \in DOMAIN beams : beams[m] # ScanOff /\ beams[m] = x
           only(g) == \A x \in ScanCells : g[x] > 0 => log[x] > 0 \/ hit(x)
<1>1. L \in Nat
  BY ScanSizes
<1>2. ScanInked(log, c, beams) = k[L]
  BY DEF ScanInked
<1>3. ASSUME NEW v PROVE (CHOOSE g \in {ScanPass(h, c, beams) : h \in {v}} : TRUE) = next(v)
  OBVIOUS
<1>4. \A f : is(f) <=> f = [n \in 0..L |-> IF n = 0 THEN log ELSE next(f[n - 1])]
  <2> HIDE DEF next
  <2> QED BY <1>3
<1>5. ASSUME NEW g \in ScanLogs PROVE next(g) \in ScanLogs /\ (only(g) => only(next(g)))
  BY ScanPassIs
<1> HIDE DEF is, next, only, hit
<1> DEFINE G == [n \in 1..L |-> [v \in ScanLogs |-> next(v)]]
           T == {n \in 0..L : k[n] \in ScanLogs /\ only(k[n])}
<1>6. G \in [1..L -> [ScanLogs -> ScanLogs]] /\ \A n \in 1..L : \A v \in ScanLogs : G[n][v] = next(v)
  BY <1>5
<1> HIDE DEF G
<1>7. PICK h \in [0..L -> ScanLogs] : ScanGoes(L, log, G, h)
  BY <1>1, <1>6, ScanIterates
<1>8. ASSUME NEW n \in 0..L PROVE h[n] = IF n = 0 THEN log ELSE next(h[n - 1])
  <2>1. CASE n = 0
    BY <1>7, <2>1 DEF ScanGoes
  <2>2. CASE n # 0
    <3>1. n \in 1..L /\ n - 1 \in 0..L
      BY <1>1, <2>2
    <3> QED BY <1>6, <1>7, <2>2, <3>1 DEF ScanGoes
  <2> QED BY <2>1, <2>2
<1>9. is(h)
  BY <1>4, <1>8
<1>10. is(k)
  BY <1>9, Zenon
<1> HIDE DEF k
<1>11. k[0] = log /\ \A n \in 1..L : k[n] = next(k[n - 1])
  <2>1. k = [n \in 0..L |-> IF n = 0 THEN log ELSE next(k[n - 1])]
    BY <1>4, <1>10, Zenon
  <2>2. \A n \in 0..L : k[n] = IF n = 0 THEN log ELSE next(k[n - 1])
    BY <2>1, Zenon
  <2> QED BY <1>1, <2>2
<1>12. 0 \in T
  BY <1>1, <1>11 DEF only
<1>13. \A n \in 1..L : n - 1 \in T => n \in T
  BY <1>5, <1>11
<1> HIDE DEF T
<1>14. \A n \in 0..L : n \in T
  BY <1>1, <1>12, <1>13, ScanCounts
<1>15. L \in T
  BY <1>1, <1>14
<1> QED BY <1>2, <1>15 DEF T, only, hit

(* The root of a square, in centimetres: there is one.                       *)
LEMMA ScanCmIs ==
  ASSUME NEW d \in 0..(2 * ScanSide * ScanSide)
  PROVE  ScanCm[d] \in Nat
<1> DEFINE x == ScanCellCm * ScanCellCm * d
           B == 2 * ScanCellCm * ScanSide
           root(t) == t * t <= x /\ x < (t + 1) * (t + 1)
           S == {t \in 0..B : t * t <= x}
           m == Max(S)
<1>1. ScanCm[d] = CHOOSE t \in 0..B : root(t)
  <2> DEFINE e(y) == CHOOSE t \in 0..B : t * t <= ScanCellCm * ScanCellCm * y /\ ScanCellCm * ScanCellCm * y < (t + 1) * (t + 1)
  <2>1. ScanCm = [y \in 0..(2 * ScanSide * ScanSide) |-> e(y)]
    BY ScanFixedIs DEF ScanCm
  <2>2. e(d) = CHOOSE t \in 0..B : root(t)
    OBVIOUS
  <2> HIDE DEF e
  <2> QED BY <2>1, <2>2
<1>2. B \in Nat /\ x \in Nat /\ x <= B * B /\ B * B \in Nat
  <2> DEFINE a == ScanCellCm
             n == ScanSide
             aa == a * a
             nn == n * n
  <2>1. a \in Nat /\ n \in Nat /\ aa \in Nat /\ nn \in Nat
    BY ScanSizes
  <2>2. d \in Nat /\ d <= 2 * nn
    <3>1. (2 * n) * n = 2 * nn
      BY <2>1
    <3> QED BY <2>1, <3>1
  <2> HIDE DEF aa, nn
  <2>3. aa * d <= aa * (2 * nn) /\ aa * d \in Nat /\ aa * (2 * nn) \in Nat
    <3>1. CASE aa = 0
      BY <2>1, <2>2, <3>1
    <3>2. CASE aa > 0
      <4>1. d * aa <= (2 * nn) * aa
        BY <2>1, <2>2, <3>2, ScanTimes
      <4> QED BY <2>1, <2>2, <4>1
    <3> QED BY <2>1, <3>1, <3>2
  <2>4. B * B = 4 * (aa * nn) /\ aa * (2 * nn) = 2 * (aa * nn) /\ aa * nn \in Nat
    <3>1. ((2 * a) * n) * ((2 * a) * n) = 4 * ((a * a) * (n * n))
      BY <2>1
    <3> QED BY <2>1, <3>1 DEF aa, nn
  <2>5. x = aa * d
    BY DEF aa
  <2> QED BY <2>1, <2>3, <2>4, <2>5
<1> HIDE DEF x, B
<1>3. m \in S /\ \A t \in S : t <= m
  <2>1. 0 \in S /\ S \subseteq 0..B
    BY <1>2
  <2>2. S # {}
    BY <2>1
  <2> HIDE DEF S
  <2> QED BY <1>2, <2>1, <2>2, ScanGreatest
<1> HIDE DEF m
<1>4. m \in 0..B /\ m * m <= x
  BY <1>3
<1>5. x < (m + 1) * (m + 1)
  <2>1. CASE m = B
    <3>1. (B + 1) * (B + 1) = B * B + (2 * B + 1)
      BY <1>2
    <3> QED BY <1>2, <2>1, <3>1
  <2>2. CASE m # B
    <3>1. m + 1 \in 0..B /\ m + 1 > m
      BY <1>2, <1>4, <2>2
    <3>2. ~((m + 1) * (m + 1) <= x)
      BY <1>3, <1>4, <3>1
    <3>3. (m + 1) * (m + 1) \in Int
      BY <3>1
    <3> QED BY <1>2, <3>2, <3>3
  <2> QED BY <2>1, <2>2
<1>6. (CHOOSE t \in 0..B : root(t)) \in 0..B
  <2>1. \E t \in 0..B : root(t)
    BY <1>4, <1>5
  <2> HIDE DEF root
  <2> QED BY <2>1
<1> HIDE DEF root
<1>7. \A t \in 0..B : t \in Nat
  BY <1>2
<1> QED BY <1>1, <1>6, <1>7

(* The exact distances are natural numbers.                                  *)
LEMMA ScanExactIs ==
  ASSUME NEW log \in [ScanCells -> Int], NEW thr \in Int
  PROVE  ScanExact(log, thr) \in [ScanCells -> Nat]
<1> DEFINE W == {c \in ScanCells : log[c] > thr}
<1>1. ScanExact(log, thr) =
        [c \in ScanCells |-> IF W = {} THEN ScanCellCm * ScanSide ELSE ScanCm[Min({ScanD2[c][w] : w \in W})]]
  BY ScanFixedIs DEF ScanExact
<1>2. ScanCellCm * ScanSide \in Nat
  BY ScanSizes
<1>3. ASSUME W # {}, NEW c \in ScanCells PROVE ScanCm[Min({ScanD2[c][w] : w \in W})] \in Nat
  <2> DEFINE S == {ScanD2[c][w] : w \in W}
  <2>1. ASSUME NEW w \in ScanCells PROVE ScanD2[c][w] \in 0..(2 * ScanSide * ScanSide)
    <3> DEFINE a == ScanRow(c) - ScanRow(w)
               b == ScanCol(c) - ScanCol(w)
    <3>1. ScanD2[c][w] = ScanSquare(a) + ScanSquare(b)
      BY ScanD2Is DEF ScanSquare
    <3>2. a \in Int /\ b \in Int /\ -ScanSide < a /\ a < ScanSide /\ -ScanSide < b /\ b < ScanSide
      <4>1. ScanRow(c) \in 0..(ScanSide - 1) /\ ScanRow(w) \in 0..(ScanSide - 1)
            /\ ScanCol(c) \in 0..(ScanSide - 1) /\ ScanCol(w) \in 0..(ScanSide - 1)
        BY ScanRowsCols
      <4> QED BY <4>1, ScanSizes
    <3> HIDE DEF a, b
    <3>3. ScanSquare(a) \in Nat /\ ScanSquare(b) \in Nat /\ ScanSquare(a) < ScanSquare(ScanSide)
          /\ ScanSquare(b) < ScanSquare(ScanSide)
      BY <3>2, ScanSizes, ScanSquares
    <3>4. 2 * ScanSide * ScanSide = 2 * ScanSquare(ScanSide) /\ ScanSquare(ScanSide) \in Nat
      <4>1. (2 * ScanSide) * ScanSide = 2 * (ScanSide * ScanSide) /\ ScanSide * ScanSide \in Nat
        BY ScanSizes
      <4> QED BY <4>1 DEF ScanSquare
    <3> QED BY <3>1, <3>3, <3>4
  <2>2. PICK w0 \in W : TRUE
    BY <1>3
  <2>3. S \subseteq 0..(2 * ScanSide * ScanSide) /\ S # {}
    BY <2>1, <2>2
  <2>4. S \subseteq Nat
    <3>1. \A y \in 0..(2 * ScanSide * ScanSide) : y \in Nat
      BY ScanSizes
    <3> HIDE DEF S
    <3> QED BY <2>3, <3>1
  <2> HIDE DEF S
  <2>5. Min(S) \in S
    BY <2>3, <2>4, LeastNatural
  <2>6. ScanCm[Min(S)] \in Nat
    <3>1. Min(S) \in 0..(2 * ScanSide * ScanSide)
      BY <2>3, <2>5
    <3> QED BY <3>1, ScanCmIs
  <2> QED BY <2>6 DEF S
<1> HIDE DEF W
<1> QED BY <1>1, <1>2, <1>3

(* A sum of natural numbers is one.                                          *)
LEMMA ScanSumIs ==
  ASSUME NEW f, \A k \in DOMAIN f : f[k] \in Nat
  PROVE  ScanSum(f) \in Nat
<1> DEFINE term(n) == IF n - 1 \in DOMAIN f THEN f[n - 1] ELSE 0
           is(s) == s = [n \in 0..16 |-> IF n = 0 THEN 0 ELSE s[n - 1] + term(n)]
           k == CHOOSE s : is(s)
           g == [n \in 1..16 |-> [v \in Nat |-> v + term(n)]]
           T == {n \in 0..16 : k[n] \in Nat}
<1>1. ScanSum(f) = k[16]
  BY DEF ScanSum
<1>2. \A n \in 1..16 : term(n) \in Nat
  OBVIOUS
<1> HIDE DEF term
<1>3. g \in [1..16 -> [Nat -> Nat]] /\ \A n \in 1..16 : \A v \in Nat : g[n][v] = v + term(n)
  BY <1>2
<1> HIDE DEF g
<1>4. PICK h \in [0..16 -> Nat] : ScanGoes(16, 0, g, h)
  <2>1. 16 \in Nat /\ 0 \in Nat
    OBVIOUS
  <2> QED BY <1>3, <2>1, ScanIterates
<1>5. ASSUME NEW n \in 0..16 PROVE h[n] = IF n = 0 THEN 0 ELSE h[n - 1] + term(n)
  <2>1. CASE n = 0
    BY <1>4, <2>1 DEF ScanGoes
  <2>2. CASE n # 0
    <3>1. n \in 1..16 /\ n - 1 \in 0..16
      BY <2>2
    <3> QED BY <1>3, <1>4, <2>2, <3>1 DEF ScanGoes
  <2> QED BY <2>1, <2>2
<1>6. is(h)
  BY <1>5
<1>7. is(k)
  <2> HIDE DEF is
  <2> QED BY <1>6, Zenon
<1> HIDE DEF k
<1>8. k[0] = 0 /\ \A n \in 1..16 : k[n] = k[n - 1] + term(n)
  BY <1>7
<1>9. 0 \in T
  BY <1>8
<1>10. \A n \in 1..16 : n - 1 \in T => n \in T
  BY <1>2, <1>8
<1> HIDE DEF T
<1>11. 16 \in T
  <2>1. \A n \in 0..16 : n \in T
    BY <1>9, <1>10, ScanCounts
  <2> QED BY <2>1
<1> QED BY <1>1, <1>11 DEF T

(* A place is a cell or off the map.                                         *)
LEMMA ScanCellIs ==
  ASSUME NEW i, NEW j
  PROVE  ScanCell(i, j) \in ScanCells \cup {ScanOff}
BY ScanRowsCols DEF ScanCell, ScanIn

(* A score has a natural sum and is of the pose that was asked for.          *)
LEMMA ScanScoreIs ==
  ASSUME NEW log, NEW field \in [ScanCells -> Nat], NEW p, NEW probe
  PROVE  /\ ScanScore(log, field, p, probe).sum \in Nat
         /\ ScanScore(log, field, p, probe).pose = p
<1> DEFINE beam == [k \in DOMAIN probe |-> ScanBeam(log, field, p, probe[k])]
           f == [k \in DOMAIN probe |-> beam[k].r]
<1>1. \A off : ScanBeam(log, field, p, off).r \in Nat
  <2>1. ASSUME NEW off PROVE ScanBeam(log, field, p, off).r \in Nat
    <3> DEFINE end == ScanReach(p, off)
               n == Min({field[end], ScanSearchCfg.clamp})
    <3>1. end \in ScanCells \cup {ScanOff}
      BY ScanCellIs DEF ScanReach
    <3>2. ScanSearchCfg.clamp = 15
      BY DEF ScanSearchCfg
    <3>3. end # ScanOff => n \in Nat
      <4>1. end # ScanOff => field[end] \in Nat
        BY <3>1
      <4> DEFINE S == {field[end], ScanSearchCfg.clamp}
      <4>2. end # ScanOff => S \subseteq Nat /\ S # {}
        BY <3>2, <4>1
      <4> HIDE DEF S
      <4>3. end # ScanOff => Min(S) \in S
        BY <4>2, LeastNatural
      <4> QED BY <4>2, <4>3 DEF S
    <3>4. ScanBeam(log, field, p, off).r \in {15, n} /\ (end = ScanOff => ScanBeam(log, field, p, off).r = 15)
      <4> HIDE DEF end
      <4>1. ScanBeam(log, field, p, off) =
              IF end = ScanOff THEN [r |-> 15, n |-> 0]
              ELSE IF ScanMiddle(p, off) # ScanOff /\ ~ScanNear(ScanMiddle(p, off), end)
                      /\ log[ScanMiddle(p, off)] > ScanSearchCfg.through
                   THEN [r |-> 15, n |-> 1]
              ELSE [r |-> n, n |-> 1]
        BY <3>2 DEF ScanBeam, end
      <4> HIDE DEF n
      <4> QED BY <4>1
    <3> QED BY <3>3, <3>4
  <2> QED BY <2>1
<1>2. \A k \in DOMAIN f : f[k] \in Nat
  BY <1>1
<1>3. ScanScore(log, field, p, probe) =
        [pose |-> p, sum |-> ScanSum(f), n |-> Cardinality({k \in DOMAIN probe : beam[k].n = 1})]
  <2>1. ScanFixed(beam) = beam
    BY ScanFixedIs
  <2> QED BY <2>1 DEF ScanScore
<1> HIDE DEF f, beam
<1>4. ScanSum(f) \in Nat
  BY <1>2, ScanSumIs
<1> QED BY <1>3, <1>4

(* What is ranked by distinct keys is all there, the smaller key first.      *)
LEMMA ScanOrders ==
  ASSUME NEW S, IsFiniteSet(S), NEW f \in [S -> Nat], \A x, y \in S : f[x] = f[y] => x = y
  PROVE  /\ Cardinality(S) \in Nat
         /\ DOMAIN ScanRanked(S, f) = 1..Cardinality(S)
         /\ \A n \in 1..Cardinality(S) : ScanRanked(S, f)[n] \in S
         /\ \A m, n \in 1..Cardinality(S) : m < n => f[ScanRanked(S, f)[m]] < f[ScanRanked(S, f)[n]]
         /\ \A x \in S : \E n \in 1..Cardinality(S) : ScanRanked(S, f)[n] = x
<1> DEFINE N == Cardinality(S)
           below(x) == {y \in S : f[y] < f[x]}
           rank(x) == Cardinality(below(x))
           o == ScanRanked(S, f)
           r == [x \in S |-> rank(x)]
<1>1. N \in Nat
  BY FS_CardinalityType
<1>2. \A x \in S : f[x] \in Nat
  OBVIOUS
<1>3. ASSUME NEW x \in S PROVE rank(x) \in 0..(N - 1) /\ IsFiniteSet(below(x))
  <2>1. below(x) \in SUBSET S /\ x \notin below(x)
    BY <1>2
  <2> HIDE DEF below
  <2>2. IsFiniteSet(below(x)) /\ rank(x) <= N /\ rank(x) # N
    BY <2>1, FS_Subset
  <2>3. rank(x) \in Nat
    BY <2>2, FS_CardinalityType
  <2> QED BY <1>1, <2>2, <2>3
<1>4. ASSUME NEW x \in S, NEW y \in S, f[x] < f[y] PROVE rank(x) < rank(y)
  <2>1. below(x) \in SUBSET below(y) /\ x \in below(y) /\ x \notin below(x)
    BY <1>2, <1>4
  <2>2. IsFiniteSet(below(y)) /\ rank(x) \in 0..(N - 1) /\ rank(y) \in 0..(N - 1)
    BY <1>3
  <2> HIDE DEF below
  <2>3. rank(x) <= rank(y) /\ (rank(x) = rank(y) => below(x) = below(y))
    BY <2>1, <2>2, FS_Subset
  <2> QED BY <1>1, <2>1, <2>2, <2>3
<1> HIDE DEF rank
<1>5. ASSUME NEW x \in S, NEW y \in S PROVE (rank(x) = rank(y) => x = y) /\ (rank(x) < rank(y) => f[x] < f[y])
  <2>1. f[x] < f[y] \/ f[y] < f[x] \/ f[x] = f[y]
    BY <1>2
  <2>2. rank(x) \in 0..(N - 1) /\ rank(y) \in 0..(N - 1)
    BY <1>3
  <2>3. rank(x) \in Int /\ rank(y) \in Int
    BY <2>2
  <2> QED BY <1>2, <1>4, <2>1, <2>3
<1>6. r \in Surjection(S, 0..(N - 1))
  <2> DEFINE T == 0..(N - 1)
  <2>1. r \in [S -> T]
    BY <1>3
  <2>2. \A x, y \in S : r[x] = r[y] => x = y
    BY <1>5
  <2>3. r \in Injection(S, T)
    BY <2>1, <2>2 DEF Injection, IsInjective
  <2>4. IsFiniteSet(T) /\ Cardinality(T) = N
    BY <1>1, FS_Interval
  <2> HIDE DEF T, r
  <2>5. r \in Surjection(S, T)
    BY <2>3, <2>4, FS_Injection
  <2> QED BY <2>5 DEF T
<1>7. ASSUME NEW n \in 1..N PROVE o[n] \in S /\ rank(o[n]) = n - 1
  <2>1. n - 1 \in 0..(N - 1)
    BY <1>1
  <2>2. \E x \in S : r[x] = n - 1
    BY <1>6, <2>1 DEF Surjection
  <2>3. \E x \in S : rank(x) = n - 1
    BY <2>2
  <2>4. o[n] = CHOOSE x \in S : rank(x) = n - 1
    BY DEF ScanRanked, rank
  <2> HIDE DEF o
  <2> QED BY <2>3, <2>4
<1> HIDE DEF r
<1>8. DOMAIN o = 1..N
  BY DEF ScanRanked
<1> HIDE DEF o
<1>9. ASSUME NEW m \in 1..N, NEW n \in 1..N, m < n PROVE f[o[m]] < f[o[n]]
  <2>1. rank(o[m]) < rank(o[n])
    BY <1>1, <1>7, <1>9
  <2> QED BY <1>5, <1>7, <2>1
<1>10. ASSUME NEW x \in S PROVE \E n \in 1..N : o[n] = x
  <2> DEFINE n == rank(x) + 1
  <2>0. rank(x) \in 0..(N - 1)
    BY <1>3
  <2>1. n \in 1..N /\ rank(x) = n - 1
    BY <1>1, <2>0
  <2> HIDE DEF n
  <2>2. o[n] = x
    BY <1>5, <1>7, <2>1
  <2> QED BY <2>1, <2>2
<1> QED BY <1>1, <1>7, <1>8, <1>9, <1>10 DEF o

(* Two digits compare as the first does, then as the second.                 *)
LEMMA ScanDigits ==
  ASSUME NEW M \in Nat, NEW a \in Nat, NEW b \in Nat, NEW x \in 0..(M - 1), NEW y \in 0..(M - 1)
  PROVE  /\ a * M + x \in Nat
         /\ a * M + x <= b * M + y => a <= b
         /\ a * M + x = b * M + y => a = b /\ x = y
<1>0. M > 0
  OBVIOUS
<1> DEFINE aM == a * M
           bM == b * M
<1>1. aM \in Nat /\ bM \in Nat /\ (b + 1) * M = bM + M /\ (a + 1) * M = aM + M
  OBVIOUS
<1>2. (b + 1 <= a => (b + 1) * M <= aM) /\ (a + 1 <= b => (a + 1) * M <= bM)
  BY <1>0, ScanTimes
<1> HIDE DEF aM, bM
<1>3. b + 1 <= a => bM + y < aM + x
  BY <1>1, <1>2
<1>4. a + 1 <= b => aM + x < bM + y
  BY <1>1, <1>2
<1>5. aM + x <= bM + y => a <= b
  BY <1>1, <1>3
<1>6. aM + x = bM + y => a = b
  BY <1>1, <1>3, <1>4
<1>7. aM + x = bM + y => x = y
  BY <1>1, <1>6 DEF aM, bM
<1> QED BY <1>1, <1>5, <1>6, <1>7 DEF aM, bM

(* Whatever is scored, and what its key says of it.                          *)
ScanPlaced(log, field, probe) == {ScanScore(log, field, ScanPose(c, y), probe) : c \in ScanCells, y \in 0..3}

(* A scored pose is of a cell and a quarter turn.                            *)
LEMMA ScanPlacedIs ==
  ASSUME NEW log, NEW field \in [ScanCells -> Nat], NEW probe, NEW x \in ScanPlaced(log, field, probe)
  PROVE  /\ x.sum \in Nat
         /\ \E c \in ScanCells, y \in 0..3 : /\ x.pose = ScanPose(c, y) /\ x = ScanScore(log, field, ScanPose(c, y), probe)
                                             /\ x.pose.i = ScanRow(c) /\ x.pose.j = ScanCol(c) /\ x.pose.yaw = y
                                             /\ ScanAt(x.pose.i, x.pose.j) = c
<1>1. PICK c \in ScanCells, y \in 0..3 : x = ScanScore(log, field, ScanPose(c, y), probe)
  BY DEF ScanPlaced
<1>2. x.sum \in Nat /\ x.pose = ScanPose(c, y)
  BY <1>1, ScanScoreIs
<1>3. x.pose.i = ScanRow(c) /\ x.pose.j = ScanCol(c) /\ x.pose.yaw = y
  BY <1>2 DEF ScanPose
<1> QED BY <1>1, <1>2, <1>3, ScanRowsCols

(* The keys order by the sum, and tell poses and turns apart.                *)
LEMMA ScanKeys ==
  ASSUME NEW log, NEW field \in [ScanCells -> Nat], NEW probe,
         NEW x \in ScanPlaced(log, field, probe), NEW y \in ScanPlaced(log, field, probe),
         NEW t \in 0..15, NEW u \in 0..15
  PROVE  /\ ScanKey(x, t) \in Nat
         /\ ScanKey(x, t) <= ScanKey(y, u) => x.sum <= y.sum
         /\ ScanKey(x, t) = ScanKey(y, u) => t = u /\ ScanAt(x.pose.i, x.pose.j) = ScanAt(y.pose.i, y.pose.j)
<1> DEFINE M == ScanSide * ScanSide
           a == x.sum * 16 + t
           b == y.sum * 16 + u
           c == ScanAt(x.pose.i, x.pose.j)
           d == ScanAt(y.pose.i, y.pose.j)
<1>1. M \in Nat /\ ScanCells = 0..(M - 1)
  BY ScanSizes DEF ScanCells
<1>2. c \in 0..(M - 1) /\ d \in 0..(M - 1) /\ x.sum \in Nat /\ y.sum \in Nat
  BY <1>1, ScanPlacedIs
<1>3. ScanKey(x, t) = (a * ScanSide) * ScanSide + c /\ ScanKey(y, u) = (b * ScanSide) * ScanSide + d
  BY DEF ScanKey
<1>4. /\ a \in Nat /\ b \in Nat
      /\ a <= b => x.sum <= y.sum
      /\ a = b => x.sum = y.sum /\ t = u
  <2>1. 16 \in Nat /\ t \in 0..(16 - 1) /\ u \in 0..(16 - 1)
    OBVIOUS
  <2> QED BY <1>2, <2>1, ScanDigits
<1> HIDE DEF a, b, c, d
<1>5. (a * ScanSide) * ScanSide = a * M /\ (b * ScanSide) * ScanSide = b * M
  BY <1>4, ScanSizes
<1> HIDE DEF M
<1>6. /\ a * M + c \in Nat
      /\ a * M + c <= b * M + d => a <= b
      /\ a * M + c = b * M + d => a = b /\ c = d
  BY <1>1, <1>2, <1>4, ScanDigits
<1> QED BY <1>3, <1>4, <1>5, <1>6 DEF c, d

(* There are as many scored poses as cells and quarter turns.                *)
LEMMA ScanPlacedFinite ==
  ASSUME NEW log, NEW field, NEW probe
  PROVE  IsFiniteSet(ScanPlaced(log, field, probe))
<1> DEFINE C == ScanCells \X (0..3)
           P == ScanPlaced(log, field, probe)
           g == [p \in C |-> ScanScore(log, field, ScanPose(p[1], p[2]), probe)]
<1>1. IsFiniteSet(ScanCells) /\ IsFiniteSet(0..3)
  <2> DEFINE M == ScanSide * ScanSide - 1
  <2>1. M \in Int
    BY ScanSizes
  <2>2. ScanCells = 0..M
    BY DEF ScanCells
  <2> HIDE DEF M
  <2>3. IsFiniteSet(0..M)
    BY <2>1, FS_Interval
  <2> DEFINE K == 3
  <2>5. K \in Int
    OBVIOUS
  <2> HIDE DEF K
  <2>6. IsFiniteSet(0..K)
    BY <2>5, FS_Interval
  <2>4. IsFiniteSet(0..3)
    BY <2>6 DEF K
  <2> QED BY <2>2, <2>3, <2>4
<1>2. IsFiniteSet(C)
  BY <1>1, FS_Product
<1>3. g \in [C -> P]
  <2>1. ASSUME NEW p \in C PROVE ScanScore(log, field, ScanPose(p[1], p[2]), probe) \in P
    <3>1. p[1] \in ScanCells /\ p[2] \in 0..3
      OBVIOUS
    <3> QED BY <3>1 DEF ScanPlaced
  <2> HIDE DEF P, C
  <2> QED BY <2>1
<1>4. ASSUME NEW x \in P PROVE \E p \in C : g[p] = x
  <2>1. PICK c \in ScanCells, y \in 0..3 : x = ScanScore(log, field, ScanPose(c, y), probe)
    BY DEF ScanPlaced
  <2>2. <<c, y>> \in C /\ g[<<c, y>>] = x
    BY <2>1
  <2> QED BY <2>2
<1> HIDE DEF C, P, g
<1>5. g \in Surjection(C, P)
  BY <1>3, <1>4 DEF Surjection
<1> QED BY <1>2, <1>5, FS_Surjection DEF P

(* A pose scored is its cell's and its yaw's.                                *)
LEMMA ScanPlacedSame ==
  ASSUME NEW log, NEW field \in [ScanCells -> Nat], NEW probe,
         NEW x \in ScanPlaced(log, field, probe), NEW y \in ScanPlaced(log, field, probe),
         ScanAt(x.pose.i, x.pose.j) = ScanAt(y.pose.i, y.pose.j), x.pose.yaw = y.pose.yaw
  PROVE  x = y
<1>1. PICK c \in ScanCells, u \in 0..3 : /\ x = ScanScore(log, field, ScanPose(c, u), probe)
                                         /\ x.pose.yaw = u /\ ScanAt(x.pose.i, x.pose.j) = c
  BY ScanPlacedIs
<1>2. PICK d \in ScanCells, v \in 0..3 : /\ y = ScanScore(log, field, ScanPose(d, v), probe)
                                         /\ y.pose.yaw = v /\ ScanAt(y.pose.i, y.pose.j) = d
  BY ScanPlacedIs
<1> QED BY <1>1, <1>2

(* What was scored among some cells is of one of them, free, and keeps       *)
(* enough beams.                                                             *)
LEMMA ScanScoredIs ==
  ASSUME NEW log, NEW field \in [ScanCells -> Nat], NEW probe, NEW cells, cells \subseteq ScanCells, NEW yaw \in 0..3,
         NEW x \in ScanScored(log, field, probe, cells, yaw)
  PROVE  /\ x \in ScanPlaced(log, field, probe) /\ x.pose.yaw = yaw /\ x.n >= ScanMinBeams /\ x.sum \in Nat
         /\ \E c \in cells : /\ ScanKnownFree(log, c) /\ x = ScanScore(log, field, ScanPose(c, yaw), probe)
                             /\ x.pose = ScanPose(c, yaw)
<1>1. PICK c \in cells : /\ ScanKnownFree(log, c) /\ x = ScanScore(log, field, ScanPose(c, yaw), probe)
                         /\ x.n >= ScanMinBeams
  BY DEF ScanScored
<1>2. x.sum \in Nat /\ x.pose = ScanPose(c, yaw)
  BY <1>1, ScanScoreIs
<1>3. x.pose.yaw = yaw
  BY <1>2 DEF ScanPose
<1>4. x \in ScanPlaced(log, field, probe)
  BY <1>1 DEF ScanPlaced
<1> QED BY <1>1, <1>2, <1>3, <1>4

(* The first of some is the least of them.                                   *)
LEMMA ScanFirstIs ==
  ASSUME NEW log, NEW field \in [ScanCells -> Nat], NEW probe, NEW S, S \subseteq ScanPlaced(log, field, probe), S # {}
  PROVE  ScanFirst(S) \in S /\ \A y \in S : /\ ScanKey(ScanFirst(S), 0) <= ScanKey(y, 0)
                                            /\ ScanFirst(S).sum <= y.sum
<1> DEFINE T == {ScanKey(x, 0) : x \in S}
<1>0. 0 \in 0..15
  OBVIOUS
<1>1. \A x \in S : ScanKey(x, 0) \in Nat
  BY <1>0, ScanKeys
<1>2. T \subseteq Nat /\ T # {}
  BY <1>1
<1>3. PICK m \in T : \A t \in T : m <= t
  <2> HIDE DEF T
  <2> QED BY <1>2, LeastNatural
<1>4. \E x \in S : \A y \in S : ScanKey(x, 0) <= ScanKey(y, 0)
  BY <1>3
<1>5. ScanFirst(S) \in S /\ \A y \in S : ScanKey(ScanFirst(S), 0) <= ScanKey(y, 0)
  BY <1>4 DEF ScanFirst
<1>6. ASSUME NEW y \in S PROVE ScanFirst(S).sum <= y.sum
  BY <1>0, <1>5, ScanKeys
<1> QED BY <1>5, <1>6

(* The first of a set is among those that are kept.                          *)
LEMMA ScanTopIs ==
  ASSUME NEW log, NEW field \in [ScanCells -> Nat], NEW probe, NEW S, S \subseteq ScanPlaced(log, field, probe), S # {}
  PROVE  ScanFirst(S) \in ScanTop(S)
<1> DEFINE first == ScanFirst(S)
           below == {y \in S : ScanKey(y, 0) < ScanKey(first, 0)}
<1>1. first \in S /\ \A y \in S : ScanKey(first, 0) <= ScanKey(y, 0)
  BY ScanFirstIs
<1>2. \A y \in S : ScanKey(y, 0) \in Nat
  <2>1. 0 \in 0..15
    OBVIOUS
  <2> QED BY <2>1, ScanKeys
<1> HIDE DEF first
<1>3. below = {}
  BY <1>1, <1>2
<1>4. Cardinality(below) = 0
  BY <1>3, FS_EmptySet
<1>5. Cardinality(below) < ScanPerYaw
  BY <1>4, ScanSizes
<1> HIDE DEF below
<1>6. first \in {x \in S : Cardinality({y \in S : ScanKey(y, 0) < ScanKey(x, 0)}) < ScanPerYaw}
  BY <1>1, <1>5 DEF below
<1> QED BY <1>6 DEF ScanTop, first

(* The bins' turns are the yaws', told apart.                                *)
LEMMA ScanTurns ==
  ASSUME NEW cores \in Nat \ {0}, NEW y \in 0..3, NEW z \in 0..3
  PROVE  ScanTurn(cores, y) \in 0..15 /\ (ScanTurn(cores, y) = ScanTurn(cores, z) => y = z)
<1>1. CASE cores = 1
  BY <1>1 DEF ScanTurn
<1>2. CASE cores = 2
  BY <1>2 DEF ScanTurn
<1>3. CASE cores = 3
  BY <1>3 DEF ScanTurn
<1>4. CASE cores >= 4
  <2>1. \A u \in 0..3 : u % cores = u /\ u \div cores = 0
    BY <1>4
  <2> QED BY <2>1 DEF ScanTurn
<1> QED BY <1>1, <1>2, <1>3, <1>4

(* What the bins hand in, and the order it is taken up in.                   *)
ScanFoundOf(log, field, probe) == UNION {ScanTop(ScanCoarse(log, field, probe, yaw)) : yaw \in 0..3}
ScanKeyOf(log, field, probe, cores) ==
  [x \in ScanFoundOf(log, field, probe) |-> ScanKey(x, ScanTurn(cores, x.pose.yaw))]
ScanOrderOf(log, field, probe, cores) ==
  ScanRanked(ScanFoundOf(log, field, probe), ScanKeyOf(log, field, probe, cores))

(* What the coarse grid of a yaw scores.                                     *)
LEMMA ScanCoarseIs ==
  ASSUME NEW log, NEW field \in [ScanCells -> Nat], NEW probe, NEW yaw \in 0..3
  PROVE  /\ ScanCoarse(log, field, probe, yaw) \subseteq ScanPlaced(log, field, probe)
         /\ \A x \in ScanCoarse(log, field, probe, yaw) :
              /\ x.pose.yaw = yaw /\ x.n >= ScanMinBeams
              /\ \E c \in ScanCells : /\ ScanKnownFree(log, c) /\ x = ScanScore(log, field, ScanPose(c, yaw), probe)
                                      /\ x.pose = ScanPose(c, yaw)
<1> DEFINE cells == {c \in ScanCells : ScanRow(c) % ScanStride = 0 /\ ScanCol(c) % ScanStride = 0}
<1>1. cells \subseteq ScanCells
  OBVIOUS
<1> HIDE DEF cells
<1>2. ScanCoarse(log, field, probe, yaw) = ScanScored(log, field, probe, cells, yaw)
  BY DEF ScanCoarse, cells
<1> QED BY <1>1, <1>2, ScanScoredIs

(* For each candidate of the coarse grid one was kept that fits as well.     *)
LEMMA ScanFoundIs ==
  ASSUME NEW log, NEW field \in [ScanCells -> Nat], NEW probe
  PROVE  /\ ScanFoundOf(log, field, probe) \subseteq ScanPlaced(log, field, probe)
         /\ IsFiniteSet(ScanFoundOf(log, field, probe))
         /\ \A x \in ScanFoundOf(log, field, probe) : \E yaw \in 0..3 : x \in ScanCoarse(log, field, probe, yaw)
         /\ \A yaw \in 0..3 : \A x \in ScanCoarse(log, field, probe, yaw) :
              \E y \in ScanFoundOf(log, field, probe) : y.sum <= x.sum
<1> DEFINE F == ScanFoundOf(log, field, probe)
           C(yaw) == ScanCoarse(log, field, probe, yaw)
<1>1. \A x \in F : \E yaw \in 0..3 : x \in C(yaw)
  BY DEF ScanFoundOf, ScanTop
<1>2. F \subseteq ScanPlaced(log, field, probe)
  BY <1>1, ScanCoarseIs
<1>3. IsFiniteSet(F)
  BY <1>2, ScanPlacedFinite, FS_Subset
<1>4. ASSUME NEW yaw \in 0..3, NEW x \in C(yaw) PROVE \E y \in F : y.sum <= x.sum
  <2>1. C(yaw) \subseteq ScanPlaced(log, field, probe) /\ C(yaw) # {}
    BY ScanCoarseIs
  <2> DEFINE y == ScanFirst(C(yaw))
  <2>2. y \in ScanTop(C(yaw)) /\ y.sum <= x.sum
    BY <2>1, ScanTopIs, ScanFirstIs
  <2> HIDE DEF y
  <2>3. y \in F
    BY <2>2 DEF ScanFoundOf
  <2> QED BY <2>2, <2>3
<1> QED BY <1>1, <1>2, <1>3, <1>4

(* The order of those kept begins with one that fits best.                   *)
LEMMA ScanOrderIs ==
  ASSUME NEW log, NEW field \in [ScanCells -> Nat], NEW probe, NEW cores \in Nat \ {0}
  PROVE  LET F == ScanFoundOf(log, field, probe)
             order == ScanOrderOf(log, field, probe, cores)
         IN /\ Cardinality(F) \in Nat
            /\ \A n \in 1..Cardinality(F) : order[n] \in F
            /\ F # {} => Cardinality(F) > 0 /\ \A x \in F : order[1].sum <= x.sum
<1> DEFINE F == ScanFoundOf(log, field, probe)
           key == ScanKeyOf(log, field, probe, cores)
           order == ScanOrderOf(log, field, probe, cores)
<1>1. IsFiniteSet(F) /\ F \subseteq ScanPlaced(log, field, probe)
  BY ScanFoundIs
<1>2. ASSUME NEW x \in F PROVE /\ x.pose.yaw \in 0..3 /\ ScanTurn(cores, x.pose.yaw) \in 0..15
                               /\ key[x] = ScanKey(x, ScanTurn(cores, x.pose.yaw)) /\ key[x] \in Nat
  <2>1. x.pose.yaw \in 0..3
    BY <1>1, ScanPlacedIs
  <2>2. ScanTurn(cores, x.pose.yaw) \in 0..15
    BY <2>1, ScanTurns
  <2>3. key[x] = ScanKey(x, ScanTurn(cores, x.pose.yaw))
    BY DEF ScanKeyOf
  <2> QED BY <1>1, <2>1, <2>2, <2>3, ScanKeys, SMTT(30)
<1>3. key \in [F -> Nat]
  <2>1. key = [x \in F |-> ScanKey(x, ScanTurn(cores, x.pose.yaw))]
    BY DEF ScanKeyOf
  <2> QED BY <1>2, <2>1
<1>4. ASSUME NEW x \in F, NEW y \in F, key[x] = key[y] PROVE x = y
  <2>1. /\ ScanTurn(cores, x.pose.yaw) = ScanTurn(cores, y.pose.yaw)
        /\ ScanAt(x.pose.i, x.pose.j) = ScanAt(y.pose.i, y.pose.j)
    BY <1>1, <1>2, <1>4, ScanKeys
  <2>2. x.pose.yaw = y.pose.yaw
    BY <1>2, <2>1, ScanTurns
  <2> QED BY <1>1, <2>1, <2>2, ScanPlacedSame
<1>5. ASSUME NEW x \in F, NEW y \in F, key[x] < key[y] PROVE x.sum <= y.sum
  <2>1. key[x] <= key[y]
    BY <1>2, <1>5
  <2> QED BY <1>1, <1>2, <2>1, ScanKeys
<1>6. order = ScanRanked(F, key)
  BY DEF ScanOrderOf
<1> HIDE DEF F, key, order
<1>7. /\ Cardinality(F) \in Nat
      /\ \A n \in 1..Cardinality(F) : order[n] \in F
      /\ \A m, n \in 1..Cardinality(F) : m < n => key[order[m]] < key[order[n]]
      /\ \A x \in F : \E n \in 1..Cardinality(F) : order[n] = x
  BY <1>1, <1>3, <1>4, <1>6, ScanOrders
<1>8. ASSUME NEW x \in F PROVE Cardinality(F) > 0 /\ order[1].sum <= x.sum
  <2>1. PICK n \in 1..Cardinality(F) : order[n] = x
    BY <1>7
  <2>2. Cardinality(F) > 0 /\ 1 \in 1..Cardinality(F)
    BY <1>7, <2>1
  <2>3. CASE n = 1
    <3>1. x.sum \in Nat
      BY <1>1, ScanPlacedIs
    <3> QED BY <2>1, <2>2, <2>3, <3>1
  <2>4. CASE n # 1
    <3>1. key[order[1]] < key[order[n]]
      BY <1>7, <2>2, <2>4
    <3>2. order[1] \in F
      BY <1>7, <2>2
    <3> QED BY <1>5, <2>1, <2>2, <3>1, <3>2
  <2> QED BY <2>3, <2>4
<1> QED BY <1>7, <1>8 DEF F, order

(* Joined to a list is what is apart from everything listed.                 *)
ScanJoins(P, l, x, j) ==
  /\ j \in Seq(P) /\ Len(l) \in Nat /\ Len(j) \in Nat /\ DOMAIN l = 1..Len(l) /\ DOMAIN j = 1..Len(j)
  /\ Len(j) = Len(l) \/ Len(j) = Len(l) + 1
  /\ \A n \in 1..Len(l) : j[n] = l[n]
  /\ Len(j) = Len(l) + 1 => j[Len(l) + 1] = x /\ \A n \in 1..Len(l) : ScanApart(l[n].pose, x.pose)
  /\ Len(l) = 0 => Len(j) = 1 /\ j[1] = x

(* A candidate joins a list that is apart, or is beside one listed.          *)
LEMMA ScanJoinedIs ==
  ASSUME NEW P, NEW l \in Seq(P), NEW x \in P
  PROVE  ScanJoins(P, l, x, ScanJoined(l, x))
<1> DEFINE j == ScanJoined(l, x)
<1>1. Len(l) \in Nat /\ DOMAIN l = 1..Len(l)
  OBVIOUS
<1>2. CASE \A n \in DOMAIN l : ScanApart(l[n].pose, x.pose)
  <2>1. j = Append(l, x)
    BY <1>2 DEF ScanJoined
  <2>2. /\ j \in Seq(P) /\ Len(j) = Len(l) + 1 /\ DOMAIN j = 1..(Len(l) + 1)
        /\ \A n \in 1..Len(l) : j[n] = l[n]
        /\ j[Len(l) + 1] = x
    BY <2>1
  <2>3. Len(l) = 0 => Len(j) = 1 /\ j[1] = x
    BY <2>2
  <2>4. Len(j) = Len(l) + 1 => j[Len(l) + 1] = x /\ \A n \in 1..Len(l) : ScanApart(l[n].pose, x.pose)
    BY <1>1, <1>2, <2>2
  <2>5. Len(j) \in Nat
    BY <1>1, <2>2
  <2>6. DOMAIN j = 1..Len(j) /\ (Len(j) = Len(l) \/ Len(j) = Len(l) + 1)
    BY <2>2
  <2> HIDE DEF j
  <2>9. ScanJoins(P, l, x, j)
    BY <1>1, <2>2, <2>3, <2>4, <2>5, <2>6, Zenon DEF ScanJoins
  <2> QED BY <2>9 DEF j
<1>3. CASE ~\A n \in DOMAIN l : ScanApart(l[n].pose, x.pose)
  <2>1. j = l
    BY <1>3 DEF ScanJoined
  <2>2. Len(l) # 0
    BY <1>1, <1>3
  <2> DEFINE m == Len(l)
  <2>5. m \in Nat
    BY <1>1
  <2> HIDE DEF m
  <2>6. m # m + 1
    BY <2>5
  <2>3. Len(j) = Len(l) /\ Len(j) # Len(l) + 1
    BY <2>1, <2>6, Zenon DEF m
  <2>4. j \in Seq(P) /\ DOMAIN j = 1..Len(j) /\ \A n \in 1..Len(l) : j[n] = l[n]
    BY <2>1
  <2> HIDE DEF j
  <2>9. ScanJoins(P, l, x, j)
    BY <1>1, <2>2, <2>3, <2>4, Zenon DEF ScanJoins
  <2> QED BY <2>9 DEF j
<1> QED BY <1>2, <1>3

(* The seeds begin with the best of what was kept.                           *)
LEMMA ScanSeedsIs ==
  ASSUME NEW log, NEW field \in [ScanCells -> Nat], NEW probe, NEW cores \in Nat \ {0}
  PROVE  LET F == ScanFoundOf(log, field, probe)
             seeds == ScanSeeds(log, field, probe, cores)
         IN /\ seeds \in Seq(F) /\ Len(seeds) \in 0..ScanTopK
            /\ F # {} => Len(seeds) > 0 /\ \A x \in F : seeds[1].sum <= x.sum
<1> DEFINE F == ScanFixed(UNION {ScanTop(ScanCoarse(log, field, probe, yaw)) : yaw \in 0..3})
           N == Cardinality(F)
           order == ScanFixed(ScanRanked(F, [x \in F |-> ScanKey(x, ScanTurn(cores, x.pose.yaw))]))
           next(n, l) == IF Len(l) < ScanTopK THEN ScanJoined(l, order[n]) ELSE l
           is(f) == f = [n \in 0..N |-> IF n = 0 THEN <<>>
                           ELSE CHOOSE list \in {IF Len(before) < ScanTopK THEN ScanJoined(before, order[n]) ELSE before :
                                                   before \in {f[n - 1]}} : TRUE]
           k == CHOOSE f : is(f)
           S == Seq(F)
           good(n, l) == /\ Len(l) \in 0..ScanTopK /\ (n = 0 => Len(l) = 0)
                         /\ n >= 1 => Len(l) > 0 /\ l[1] = order[1]
<1>0. F = ScanFoundOf(log, field, probe) /\ order = ScanOrderOf(log, field, probe, cores)
  <2>1. F = ScanFoundOf(log, field, probe)
    BY ScanFixedIs DEF ScanFoundOf
  <2> HIDE DEF F
  <2>2. order = ScanRanked(F, [x \in F |-> ScanKey(x, ScanTurn(cores, x.pose.yaw))])
    BY ScanFixedIs
  <2> QED BY <2>1, <2>2 DEF ScanOrderOf, ScanKeyOf
<1>1. /\ N \in Nat
      /\ \A n \in 1..N : order[n] \in F
      /\ F # {} => N > 0 /\ \A x \in F : order[1].sum <= x.sum
  <2> HIDE DEF F, order
  <2> QED BY <1>0, ScanOrderIs
<1>2. ScanSeeds(log, field, probe, cores) = k[N]
  BY DEF ScanSeeds
<1> HIDE DEF F, order
<1>3. ASSUME NEW n, NEW v
      PROVE (CHOOSE list \in {IF Len(before) < ScanTopK THEN ScanJoined(before, order[n]) ELSE before :
                                before \in {v}} : TRUE) = next(n, v)
  OBVIOUS
<1>4. \A f : is(f) <=> f = [n \in 0..N |-> IF n = 0 THEN <<>> ELSE next(n, f[n - 1])]
  <2> HIDE DEF next
  <2> QED BY <1>3
<1>5. ASSUME NEW n \in 1..N, NEW l \in S
      PROVE /\ next(n, l) \in S
            /\ good(n - 1, l) => good(n, next(n, l))
  <2> DEFINE j == ScanJoined(l, order[n])
  <2>1. /\ j \in Seq(F) /\ Len(l) \in Nat /\ Len(j) \in Nat
        /\ Len(j) = Len(l) \/ Len(j) = Len(l) + 1
        /\ \A m \in 1..Len(l) : j[m] = l[m]
        /\ Len(l) = 0 => Len(j) = 1 /\ j[1] = order[n]
    <3>1. l \in Seq(F) /\ order[n] \in F
      BY <1>1
    <3> HIDE DEF N, S, j
    <3>2. j = ScanJoined(l, order[n])
      BY DEF j
    <3>3. ScanJoins(F, l, order[n], j)
      BY <3>1, <3>2, ScanJoinedIs
    <3> QED BY <3>3 DEF ScanJoins
  <2> HIDE DEF j, N
  <2>4. Len(l) \in Nat
    BY <2>1
  <2>2. CASE Len(l) < ScanTopK
    <3>1. next(n, l) = j
      BY <2>2 DEF j
    <3>2. ASSUME good(n - 1, l) PROVE good(n, j)
      <4>1. Len(j) \in 0..ScanTopK
        BY <2>1, <2>2, ScanSizes
      <4>2. CASE n = 1
        <5>1. Len(l) = 0
          BY <3>2, <4>2
        <5>2. Len(j) = 1 /\ j[1] = order[1]
          BY <2>1, <4>2, <5>1
        <5> QED BY <4>1, <4>2, <5>2
      <4>3. CASE n # 1
        <5>1. n - 1 >= 1
          BY <4>3
        <5>2. Len(l) > 0 /\ l[1] = order[1]
          BY <3>2, <5>1
        <5>3. 1 \in 1..Len(l)
          BY <2>1, <5>2
        <5>4. j[1] = order[1] /\ Len(j) > 0
          BY <2>1, <5>2, <5>3
        <5> QED BY <4>1, <5>4
      <4> QED BY <4>2, <4>3
    <3> QED BY <2>1, <3>1, <3>2
  <2>3. CASE ~(Len(l) < ScanTopK)
    <3>1. next(n, l) = l
      BY <2>3
    <3>2. ASSUME good(n - 1, l) PROVE good(n, l)
      <4>1. n # 1
        BY <2>3, <3>2, ScanSizes
      <4>2. n - 1 >= 1 /\ n # 0
        BY <4>1
      <4> QED BY <3>2, <4>2
    <3> QED BY <3>1, <3>2
  <2> QED BY <2>2, <2>3
<1>6. <<>> \in S /\ good(0, <<>>)
  BY ScanSizes
<1> HIDE DEF is, next, good, S, N
<1> DEFINE G == [n \in 1..N |-> [v \in S |-> next(n, v)]]
           T == {n \in 0..N : k[n] \in S /\ good(n, k[n])}
<1>7. G \in [1..N -> [S -> S]] /\ \A n \in 1..N : \A v \in S : G[n][v] = next(n, v)
  BY <1>5
<1> HIDE DEF G
<1>8. PICK h \in [0..N -> S] : ScanGoes(N, <<>>, G, h)
  BY <1>1, <1>6, <1>7, ScanIterates
<1>9. ASSUME NEW n \in 0..N PROVE h[n] = IF n = 0 THEN <<>> ELSE next(n, h[n - 1])
  <2>1. CASE n = 0
    BY <1>8, <2>1 DEF ScanGoes
  <2>2. CASE n # 0
    <3>1. n \in 1..N /\ n - 1 \in 0..N
      BY <1>1, <2>2
    <3> QED BY <1>7, <1>8, <2>2, <3>1 DEF ScanGoes
  <2> QED BY <2>1, <2>2
<1>10. is(h)
  BY <1>4, <1>9
<1>11. is(k)
  BY <1>10, Zenon
<1> HIDE DEF k
<1>12. k[0] = <<>> /\ \A n \in 1..N : k[n] = next(n, k[n - 1])
  <2>1. k = [n \in 0..N |-> IF n = 0 THEN <<>> ELSE next(n, k[n - 1])]
    BY <1>4, <1>11, Zenon
  <2>2. \A n \in 0..N : k[n] = IF n = 0 THEN <<>> ELSE next(n, k[n - 1])
    BY <2>1, Zenon
  <2> QED BY <1>1, <2>2
<1>13. 0 \in T
  BY <1>1, <1>6, <1>12
<1>14. \A n \in 1..N : n - 1 \in T => n \in T
  BY <1>1, <1>5, <1>12
<1> HIDE DEF T
<1>15. \A n \in 0..N : n \in T
  BY <1>1, <1>13, <1>14, ScanCounts
<1>16. N \in T
  BY <1>1, <1>15
<1>17. k[N] \in Seq(F) /\ Len(k[N]) \in 0..ScanTopK /\ (N >= 1 => Len(k[N]) > 0 /\ k[N][1] = order[1])
  BY <1>16 DEF T, good, S
<1>18. F # {} => N >= 1 /\ \A x \in F : order[1].sum <= x.sum
  BY <1>1
<1> QED BY <1>0, <1>2, <1>17, <1>18

(* A seed is among the cells it is refined in.                               *)
LEMMA ScanRefinedIs ==
  ASSUME NEW log, NEW field \in [ScanCells -> Nat], NEW probe, NEW x \in ScanFoundOf(log, field, probe)
  PROVE  /\ ScanRefined(log, field, probe, x.pose) \in ScanPlaced(log, field, probe)
         /\ ScanRefined(log, field, probe, x.pose).sum <= x.sum
<1>1. PICK yaw \in 0..3 : x \in ScanCoarse(log, field, probe, yaw)
  BY ScanFoundIs
<1>2. PICK c \in ScanCells : /\ ScanKnownFree(log, c) /\ x = ScanScore(log, field, ScanPose(c, yaw), probe)
                             /\ x.pose = ScanPose(c, yaw)
  BY <1>1, ScanCoarseIs
<1>3. x.n >= ScanMinBeams
  BY <1>1, ScanCoarseIs
<1> DEFINE around == {e \in ScanCells : ScanRow(e) - x.pose.i \in -ScanRefine..ScanRefine
                                        /\ ScanCol(e) - x.pose.j \in -ScanRefine..ScanRefine}
           S == ScanScored(log, field, probe, around, yaw)
<1>4. x.pose.i = ScanRow(c) /\ x.pose.j = ScanCol(c) /\ x.pose.yaw = yaw
  BY <1>2 DEF ScanPose
<1>5. c \in around
  <2>1. ScanRow(c) - x.pose.i = 0 /\ ScanCol(c) - x.pose.j = 0
    BY <1>4, ScanRowsCols
  <2>2. 0 \in -ScanRefine..ScanRefine
    BY ScanSizes
  <2> QED BY <2>1, <2>2
<1>6. around \subseteq ScanCells
  OBVIOUS
<1>7. ScanRefined(log, field, probe, x.pose) = ScanFirst(S)
  BY <1>4 DEF ScanRefined
<1> HIDE DEF around
<1>8. x \in S
  BY <1>2, <1>3, <1>5 DEF ScanScored
<1>9. S \subseteq ScanPlaced(log, field, probe)
  BY <1>6, ScanScoredIs
<1> HIDE DEF S
<1>10. ScanFirst(S) \in S /\ ScanFirst(S).sum <= x.sum
  BY <1>8, <1>9, ScanFirstIs
<1> QED BY <1>7, <1>9, <1>10

(* The search is the answer to the seeds refined.                            *)
LEMMA ScanAskedAs ==
  ASSUME NEW log, NEW field, NEW probe, NEW cores
  PROVE  LET seeds == ScanSeeds(log, field, probe, cores)
         IN ScanAsked(log, field, probe, cores)
              = ScanAnswer(probe, [n \in DOMAIN seeds |-> ScanRefined(log, field, probe, seeds[n].pose)])
<1> DEFINE s == ScanSeeds(log, field, probe, cores)
           f == [n \in DOMAIN s |-> ScanRefined(log, field, probe, s[n].pose)]
           A == {[n \in DOMAIN seeds |-> ScanRefined(log, field, probe, seeds[n].pose)] : seeds \in {s}}
           B == {ScanAnswer(probe, refined) : refined \in A}
<1>1. A = {f}
  OBVIOUS
<1>2. ScanAsked(log, field, probe, cores) = CHOOSE r \in B : TRUE
  BY DEF ScanAsked
<1> HIDE DEF A, f
<1>3. B = {ScanAnswer(probe, f)}
  BY <1>1
<1> HIDE DEF B
<1>4. ScanAsked(log, field, probe, cores) = ScanAnswer(probe, f)
  BY <1>2, <1>3
<1> QED BY <1>4 DEF f

(* Apart is apart either way, and never from itself.                         *)
LEMMA ScanApartIs ==
  ASSUME NEW p, NEW q, p.i \in Int, p.j \in Int, q.i \in Int, q.j \in Int
  PROVE  /\ ScanApart(p, q) => ScanApart(q, p)
         /\ ~ScanApart(p, p)
<1> DEFINE a == p.i
           b == p.j
           c == q.i
           d == q.j
<1>1. (a - c) * (a - c) = (c - a) * (c - a) /\ (b - d) * (b - d) = (d - b) * (d - b)
  OBVIOUS
<1>2. ScanApart(p, q) => ScanApart(q, p)
  BY <1>1 DEF ScanApart
<1>3. a - a = 0 /\ b - b = 0
  OBVIOUS
<1>4. ~ScanApart(p, p)
  BY <1>3, ScanSizes DEF ScanApart
<1> QED BY <1>2, <1>4

(* Apart is both ways, and no pose is apart from itself.                     *)
LEMMA ScanPlacedApart ==
  ASSUME NEW log, NEW field \in [ScanCells -> Nat], NEW probe,
         NEW x \in ScanPlaced(log, field, probe), NEW y \in ScanPlaced(log, field, probe)
  PROVE  /\ ScanApart(x.pose, y.pose) => ScanApart(y.pose, x.pose)
         /\ ~ScanApart(x.pose, x.pose)
<1>1. x.pose.i \in Int /\ x.pose.j \in Int /\ y.pose.i \in Int /\ y.pose.j \in Int
  <2>1. \A z \in ScanPlaced(log, field, probe) : z.pose.i \in Int /\ z.pose.j \in Int
    BY ScanPlacedIs, ScanRowsCols
  <2> QED BY <2>1
<1> QED BY <1>1, ScanApartIs

(* The list the basins are taken from.                                       *)
ScanLists(Q, best, list, N) ==
  /\ list \in Seq(Q) /\ Len(list) \in 1..(N + 1) /\ list[1] = best
  /\ \A m, n \in 1..Len(list) : m < n => ScanApart(list[m].pose, list[n].pose)
ScanBasinsFrom(best, list) ==
  LET order == ScanRanked(DOMAIN list, [n \in DOMAIN list |-> list[n].sum * (ScanTopK + 2) + n])
  IN [n \in DOMAIN order |-> list[order[n]]]

(* The basins are ordered out of a list of what was joined.                  *)
LEMMA ScanListIs ==
  ASSUME NEW Q, NEW best \in Q, NEW refined \in Seq(Q)
  PROVE  \E list : ScanLists(Q, best, list, Len(refined)) /\ ScanBasins(best, refined) = ScanBasinsFrom(best, list)
<1> DEFINE N == Len(refined)
           next(n, l) == ScanJoined(l, refined[n])
           is(f) == f = [n \in 0..N |-> IF n = 0 THEN <<best>>
                           ELSE CHOOSE list \in {ScanJoined(before, refined[n]) : before \in {f[n - 1]}} : TRUE]
           k == CHOOSE f : is(f)
           S == Seq(Q)
           good(n, l) == ScanLists(Q, best, l, n)
<1>1. N \in Nat /\ \A n \in 1..N : refined[n] \in Q
  OBVIOUS
<1>2. ScanBasins(best, refined) = ScanBasinsFrom(best, ScanFixed(k[N]))
  BY DEF ScanBasins, ScanBasinsFrom
<1>3. ASSUME NEW n, NEW v
      PROVE (CHOOSE list \in {ScanJoined(before, refined[n]) : before \in {v}} : TRUE) = next(n, v)
  OBVIOUS
<1>4. \A f : is(f) <=> f = [n \in 0..N |-> IF n = 0 THEN <<best>> ELSE next(n, f[n - 1])]
  <2> HIDE DEF next
  <2> QED BY <1>3
<1>5. ASSUME NEW n \in 1..N, NEW l \in S
      PROVE next(n, l) \in S /\ (good(n - 1, l) => good(n, next(n, l)))
  <2> DEFINE j == next(n, l)
  <2>1. ScanJoins(Q, l, refined[n], j)
    BY <1>1, ScanJoinedIs
  <2> HIDE DEF next, j, N
  <2>2. j \in S
    BY <2>1 DEF ScanJoins
  <2>3. ASSUME good(n - 1, l) PROVE good(n, j)
    <3>1. /\ Len(l) \in Nat /\ Len(l) >= 1 /\ Len(l) <= n /\ l[1] = best
          /\ \A i, m \in 1..Len(l) : i < m => ScanApart(l[i].pose, l[m].pose)
      <4>1. Len(l) \in Nat
        BY <2>1 DEF ScanJoins
      <4>2. /\ Len(l) \in 1..((n - 1) + 1) /\ l[1] = best
            /\ \A i, m \in 1..Len(l) : i < m => ScanApart(l[i].pose, l[m].pose)
        BY <2>3 DEF ScanLists
      <4>3. n \in Int /\ Len(l) >= 1 /\ Len(l) <= n
        BY <4>1, <4>2
      <4> QED BY <4>1, <4>2, <4>3
    <3>2. /\ Len(j) = Len(l) \/ Len(j) = Len(l) + 1
          /\ \A m \in 1..Len(l) : j[m] = l[m]
      BY <2>1 DEF ScanJoins
    <3>3. Len(j) = Len(l) + 1 => j[Len(l) + 1] = refined[n]
                                 /\ \A m \in 1..Len(l) : ScanApart(l[m].pose, refined[n].pose)
      BY <2>1 DEF ScanJoins
    <3>4. Len(j) \in 1..(n + 1) /\ j[1] = best
      <4>1. 1 \in 1..Len(l)
        BY <3>1
      <4>2. j[1] = best
        BY <3>1, <3>2, <4>1
      <4> QED BY <3>1, <3>2, <4>2
    <3>5. ASSUME NEW i \in 1..Len(j), NEW m \in 1..Len(j), i < m PROVE ScanApart(j[i].pose, j[m].pose)
      <4>1. CASE m \in 1..Len(l)
        <5>1. i \in 1..Len(l)
          BY <3>1, <3>5, <4>1
        <5> QED BY <3>1, <3>2, <3>5, <4>1, <5>1
      <4>2. CASE m \notin 1..Len(l)
        <5>1. Len(j) = Len(l) + 1 /\ m = Len(l) + 1 /\ i \in 1..Len(l)
          BY <3>1, <3>2, <3>5, <4>2
        <5>2. j[m] = refined[n] /\ ScanApart(l[i].pose, refined[n].pose) /\ j[i] = l[i]
          BY <3>2, <3>3, <5>1
        <5> QED BY <5>2
      <4> QED BY <4>1, <4>2
    <3> QED BY <2>2, <3>4, <3>5 DEF ScanLists
  <2> QED BY <2>2, <2>3 DEF j
<1>6. <<best>> \in S /\ good(0, <<best>>)
  <2> DEFINE b == <<best>>
  <2>1. b \in Seq(Q) /\ Len(b) = 1 /\ b[1] = best
    OBVIOUS
  <2> HIDE DEF b
  <2>2. b \in S /\ good(0, b)
    BY <2>1 DEF ScanLists
  <2> QED BY <2>2 DEF b
<1> HIDE DEF is, next, good, S, N
<1> DEFINE G == [n \in 1..N |-> [v \in S |-> next(n, v)]]
           T == {n \in 0..N : k[n] \in S /\ good(n, k[n])}
<1>7. G \in [1..N -> [S -> S]] /\ \A n \in 1..N : \A v \in S : G[n][v] = next(n, v)
  BY <1>5
<1> HIDE DEF G
<1>8. PICK h \in [0..N -> S] : ScanGoes(N, <<best>>, G, h)
  BY <1>1, <1>6, <1>7, ScanIterates
<1>9. ASSUME NEW n \in 0..N PROVE h[n] = IF n = 0 THEN <<best>> ELSE next(n, h[n - 1])
  <2>1. CASE n = 0
    BY <1>8, <2>1 DEF ScanGoes
  <2>2. CASE n # 0
    <3>1. n \in 1..N /\ n - 1 \in 0..N
      BY <1>1, <2>2
    <3> QED BY <1>7, <1>8, <2>2, <3>1 DEF ScanGoes
  <2> QED BY <2>1, <2>2
<1>10. is(h)
  BY <1>4, <1>9
<1>11. is(k)
  BY <1>10, Zenon
<1> HIDE DEF k
<1>12. k[0] = <<best>> /\ \A n \in 1..N : k[n] = next(n, k[n - 1])
  <2>1. k = [n \in 0..N |-> IF n = 0 THEN <<best>> ELSE next(n, k[n - 1])]
    BY <1>4, <1>11, Zenon
  <2>2. \A n \in 0..N : k[n] = IF n = 0 THEN <<best>> ELSE next(n, k[n - 1])
    BY <2>1, Zenon
  <2> QED BY <1>1, <2>2
<1>13. 0 \in T
  <2>1. 0 \in 0..N
    BY <1>1
  <2> QED BY <1>6, <1>12, <2>1, Zenon
<1>14. \A n \in 1..N : n - 1 \in T => n \in T
  BY <1>1, <1>5, <1>12
<1> HIDE DEF T
<1>15. \A n \in 0..N : n \in T
  BY <1>1, <1>13, <1>14, ScanCounts
<1>16. N \in T
  BY <1>1, <1>15
<1>17. ScanLists(Q, best, k[N], N)
  BY <1>16 DEF T, good
<1> QED BY <1>2, <1>17, ScanFixedIs DEF N

ScanBasinsOf(Q, best, b) ==
  /\ 1 \in DOMAIN b /\ b[1] = best
  /\ \A n \in DOMAIN b : b[n] \in Q /\ n \in Nat /\ n >= 1
  /\ \A m, n \in DOMAIN b : m < n => ScanApart(b[m].pose, b[n].pose) /\ b[m].sum <= b[n].sum

(* The basins: the listed, the best first, in the order of their sums.       *)
LEMMA ScanBasinsIs ==
  ASSUME NEW log, NEW field \in [ScanCells -> Nat], NEW probe,
         NEW Q, Q \subseteq ScanPlaced(log, field, probe), NEW best \in Q, \A x \in Q : best.sum <= x.sum,
         NEW list, NEW N \in 0..ScanTopK, ScanLists(Q, best, list, N)
  PROVE  ScanBasinsOf(Q, best, ScanBasinsFrom(best, list))
<1> DEFINE L == Len(list)
           M == ScanTopK + 2
           D == DOMAIN list
           key == [n \in D |-> list[n].sum * M + n]
           o == ScanRanked(D, key)
           b == ScanBasinsFrom(best, list)
<1>1. /\ L \in Nat /\ L >= 1 /\ L <= N + 1 /\ D = 1..L /\ list[1] = best
      /\ \A n \in D : list[n] \in Q
      /\ \A m, n \in D : m < n => ScanApart(list[m].pose, list[n].pose)
  <2>1. list \in Seq(Q)
    BY DEF ScanLists
  <2>2. L \in Nat /\ D = 1..L /\ \A n \in 1..L : list[n] \in Q
    BY <2>1
  <2>3. L \in 1..(N + 1) /\ list[1] = best /\ \A m, n \in 1..L : m < n => ScanApart(list[m].pose, list[n].pose)
    BY DEF ScanLists
  <2> HIDE DEF L, D
  <2> QED BY <2>2, <2>3
<1>2. M \in Nat /\ \A n \in D : n \in 0..(M - 1)
  BY <1>1, ScanSizes
<1>3. \A n \in D : list[n].sum \in Nat
  BY <1>1, ScanPlacedIs
<1>4. IsFiniteSet(D) /\ Cardinality(D) = L
  <2> HIDE DEF L, D
  <2>1. L \in Int /\ 1 \in Int /\ ~(1 > L) /\ L - 1 + 1 = L
    BY <1>1
  <2>2. IsFiniteSet(1..L) /\ Cardinality(1..L) = L - 1 + 1
    BY <2>1, FS_Interval
  <2> QED BY <1>1, <2>1, <2>2
<1> HIDE DEF D, M
<1>5. ASSUME NEW m \in D, NEW n \in D
      PROVE /\ key[m] \in Nat
            /\ key[m] <= key[n] => list[m].sum <= list[n].sum
            /\ key[m] = key[n] => m = n
            /\ key[m] <= key[n] /\ list[m].sum = list[n].sum => m <= n
  <2> DEFINE a == list[m].sum
             c == list[n].sum
  <2>1. a \in Nat /\ c \in Nat /\ m \in 0..(M - 1) /\ n \in 0..(M - 1)
    BY <1>2, <1>3
  <2>2. key[m] = a * M + m /\ key[n] = c * M + n
    OBVIOUS
  <2> HIDE DEF key, a, c
  <2>3. /\ a * M + m \in Nat
        /\ a * M + m <= c * M + n => a <= c
        /\ a * M + m = c * M + n => a = c /\ m = n
    BY <1>2, <2>1, ScanDigits
  <2>4. a * M + m <= c * M + n /\ a = c => m <= n
    <3> DEFINE t == a * M
    <3>1. t \in Int /\ m \in Int /\ n \in Int
      BY <1>2, <2>1
    <3>2. a = c => c * M = t
      OBVIOUS
    <3> HIDE DEF t
    <3>3. t + m <= t + n => m <= n
      BY <3>1
    <3> QED BY <3>2, <3>3 DEF t
  <2> QED BY <2>2, <2>3, <2>4 DEF a, c
<1>6. key \in [D -> Nat] /\ \A m, n \in D : key[m] = key[n] => m = n
  <2>1. \A m \in D : key[m] \in Nat
    BY <1>5
  <2> QED BY <1>5, <2>1
<1>7. b = [n \in DOMAIN o |-> list[o[n]]]
  BY DEF ScanBasinsFrom, D, M
<1> HIDE DEF key, o, L, b
<1>8. /\ DOMAIN o = 1..L
      /\ \A n \in 1..L : o[n] \in D
      /\ \A m, n \in 1..L : m < n => key[o[m]] < key[o[n]]
      /\ \A x \in D : \E n \in 1..L : o[n] = x
  BY <1>4, <1>6, ScanOrders DEF o
<1>9. DOMAIN b = 1..L /\ \A n \in 1..L : b[n] = list[o[n]] /\ b[n] \in Q
  BY <1>1, <1>7, <1>8
<1>10. 1 \in 1..L /\ 1 \in D
  BY <1>1
<1>11. o[1] = 1
  <2>1. PICK n \in 1..L : o[n] = 1
    BY <1>8, <1>10
  <2>2. CASE n = 1
    BY <2>1, <2>2
  <2>3. CASE n # 1
    <3>1. o[1] \in D /\ key[o[1]] < key[1]
      BY <1>8, <1>10, <2>1, <2>3
    <3>2. key[o[1]] <= key[1] /\ list[1].sum \in Nat /\ list[o[1]].sum \in Nat
      BY <1>3, <1>5, <1>10, <3>1
    <3>3. list[o[1]].sum <= list[1].sum /\ list[1].sum <= list[o[1]].sum
      BY <1>1, <1>5, <1>10, <3>1, <3>2
    <3>4. list[o[1]].sum = list[1].sum
      BY <3>2, <3>3
    <3>5. o[1] <= 1
      BY <1>5, <1>10, <3>1, <3>2, <3>4
    <3> QED BY <1>1, <3>1, <3>5
  <2> QED BY <2>2, <2>3
<1>12. ASSUME NEW m \in 1..L, NEW n \in 1..L, m < n
       PROVE  ScanApart(b[m].pose, b[n].pose) /\ b[m].sum <= b[n].sum
  <2> DEFINE x == o[m]
             y == o[n]
  <2>1. x \in D /\ y \in D /\ key[x] < key[y] /\ b[m] = list[x] /\ b[n] = list[y]
    BY <1>8, <1>9, <1>12
  <2> HIDE DEF x, y
  <2>2. key[x] \in Nat /\ key[y] \in Nat
    BY <1>5, <2>1
  <2>3. key[x] <= key[y] /\ x # y
    BY <2>1, <2>2
  <2>4. list[x].sum <= list[y].sum
    BY <1>5, <2>1, <2>3
  <2>5. x < y \/ y < x
    BY <1>1, <2>1, <2>3
  <2>6. list[x] \in ScanPlaced(log, field, probe) /\ list[y] \in ScanPlaced(log, field, probe)
    BY <1>1, <2>1
  <2>7. ScanApart(list[x].pose, list[y].pose)
    BY <1>1, <2>1, <2>5, <2>6, ScanPlacedApart
  <2> QED BY <2>1, <2>4, <2>7
<1>13. b[1] = best
  BY <1>1, <1>9, <1>10, <1>11
<1>14. ScanBasinsOf(Q, best, b)
  BY <1>1, <1>9, <1>10, <1>12, <1>13 DEF ScanBasinsOf
<1> QED BY <1>14 DEF b

(* What an answer that found something says.                                 *)
ScanSays(P, r) ==
  /\ r.best \in P /\ 1 \in DOMAIN r.basins /\ r.basins[1] = r.best
  /\ \A n \in DOMAIN r.basins : r.basins[n] \in P /\ n \in Nat /\ n >= 1
  /\ \A m, n \in DOMAIN r.basins : m < n => /\ ScanApart(r.basins[m].pose, r.basins[n].pose)
                                            /\ r.basins[m].sum <= r.basins[n].sum
  /\ r.accepted => \A n \in DOMAIN r.basins \ {1} : 10 * r.best.sum <= ScanSearchCfg.unique * r.basins[n].sum

(* An answer that was found says what a search promises of its refined poses.*)
LEMMA ScanAnswerIs ==
  ASSUME NEW log, NEW field \in [ScanCells -> Nat], NEW probe,
         NEW refined \in Seq(ScanPlaced(log, field, probe)), Len(refined) <= ScanTopK,
         NEW r, r = ScanAnswer(probe, refined)
  PROVE  /\ r.found \in BOOLEAN
         /\ r.found => /\ ScanSays(ScanPlaced(log, field, probe), r)
                       /\ \A n \in DOMAIN refined : r.best.sum <= refined[n].sum
<1> DEFINE P == ScanPlaced(log, field, probe)
           D == DOMAIN refined
           Q == {refined[n] : n \in D}
           sums == {refined[n].sum : n \in D}
           least == Min(sums)
           where == {n \in D : refined[n].sum = least}
           best == refined[Min(where)]
           rivals == {refined[n].sum : n \in {n \in D : ScanApart(refined[n].pose, best.pose)}}
           basins == ScanBasins(best, refined)
           accepted == /\ best.sum <= ScanSearchCfg.max * ScanBeams(probe)
                       /\ best.n >= ScanMinBeams
                       /\ rivals # {} => 10 * best.sum <= ScanSearchCfg.unique * Min(rivals)
           short == ScanBeams(probe) < ScanMinBeams \/ refined = <<>>
<1>1. r = IF short THEN [found |-> FALSE]
          ELSE [found |-> TRUE, best |-> best, basins |-> basins, accepted |-> accepted]
  BY DEF ScanAnswer, ScanNone
<1>2. D = 1..Len(refined) /\ Len(refined) \in Nat /\ \A n \in D : refined[n] \in P
  OBVIOUS
<1>3. refined # <<>> => D # {}
  <2>1. refined # <<>> => Len(refined) # 0
    BY EmptySeq
  <2>2. Len(refined) # 0 => 1 \in 1..Len(refined)
    BY <1>2
  <2> QED BY <1>2, <2>1, <2>2
<1> HIDE DEF accepted, short, basins
<1>4. short => r.found = FALSE
  BY <1>1
<1>5. ~short => r.found = TRUE /\ r.best = best /\ r.basins = basins /\ r.accepted = accepted
  BY <1>1
<1>6. ASSUME ~short PROVE ScanSays(P, r) /\ \A n \in D : best.sum <= refined[n].sum
  <2>1. D # {}
    BY <1>3, <1>6 DEF short
  <2> HIDE DEF P, D
  <2>2. \A n \in D : refined[n].sum \in Nat
    BY <1>2, ScanPlacedIs DEF P
  <2>3. sums \subseteq Nat /\ sums # {}
    BY <2>1, <2>2
  <2> HIDE DEF sums
  <2>4. least \in sums /\ \A y \in sums : least <= y
    BY <2>3, LeastNatural
  <2> HIDE DEF least
  <2>5. where \subseteq Nat /\ where # {}
    BY <1>2, <2>4 DEF sums
  <2> DEFINE w == Min(where)
  <2>6. w \in where
    <3> HIDE DEF where
    <3> QED BY <2>5, LeastNatural
  <2>7. best = refined[w]
    OBVIOUS
  <2> HIDE DEF w
  <2>8. w \in D /\ refined[w].sum = least
    BY <2>6
  <2> HIDE DEF where, best
  <2>9. best \in P /\ best.sum = least /\ best \in Q
    BY <1>2, <2>7, <2>8
  <2>10. \A n \in D : best.sum <= refined[n].sum
    BY <2>4, <2>9 DEF sums
  <2>11. Q \subseteq P /\ \A x \in Q : best.sum <= x.sum
    BY <1>2, <2>10
  <2>12. refined \in Seq(Q)
    <3>1. \A n \in 1..Len(refined) : refined[n] \in Q
      BY <1>2
    <3> HIDE DEF Q
    <3> QED BY <1>2, <3>1
  <2>13. \A x \in Q : \E n \in D : x = refined[n]
    OBVIOUS
  <2> HIDE DEF Q
  <2>14. PICK list : ScanLists(Q, best, list, Len(refined)) /\ basins = ScanBasinsFrom(best, list)
    BY <2>9, <2>12, ScanListIs DEF basins
  <2>15. Len(refined) \in 0..ScanTopK
    BY <1>2, ScanSizes
  <2>16. ScanBasinsOf(Q, best, basins)
    BY <2>9, <2>11, <2>14, <2>15, ScanBasinsIs DEF P
  <2>17. /\ basins[1] = best /\ 1 \in DOMAIN basins
         /\ \A n \in DOMAIN basins : basins[n] \in Q /\ n \in Nat /\ n >= 1
         /\ \A m, n \in DOMAIN basins : m < n => ScanApart(basins[m].pose, basins[n].pose) /\ basins[m].sum <= basins[n].sum
    BY <2>16 DEF ScanBasinsOf
  <2>19. ASSUME accepted, NEW n \in DOMAIN basins \ {1} PROVE 10 * best.sum <= ScanSearchCfg.unique * basins[n].sum
    <3>1. 1 < n /\ basins[n] \in Q
      BY <2>17, <2>19
    <3>2. ScanApart(basins[1].pose, basins[n].pose)
      BY <2>17, <3>1
    <3>3. ScanApart(basins[n].pose, best.pose)
      BY <2>9, <2>11, <2>17, <3>1, <3>2, ScanPlacedApart DEF P
    <3>4. PICK m \in D : basins[n] = refined[m]
      BY <2>13, <3>1
    <3>5. basins[n].sum \in rivals
      BY <3>3, <3>4
    <3>6. rivals \subseteq Nat
      BY <2>2
    <3>7. 10 * best.sum <= ScanSearchCfg.unique * Min(rivals)
      BY <2>19, <3>5 DEF accepted
    <3> HIDE DEF rivals
    <3> DEFINE t == Min(rivals)
               u == basins[n].sum
    <3>8. t \in Nat /\ u \in Nat /\ t <= u
      BY <3>5, <3>6, LeastNatural
    <3>9. best.sum \in Nat
      BY <2>2, <2>7, <2>8
    <3>10. 10 * best.sum <= 6 * t
      BY <3>7 DEF ScanSearchCfg
    <3> HIDE DEF t
    <3>11. 10 * best.sum <= 6 * u
      BY <3>8, <3>9, <3>10
    <3> QED BY <3>11 DEF ScanSearchCfg
  <2>20. \A n \in DOMAIN basins : basins[n] \in P
    BY <2>11, <2>17
  <2> HIDE DEF accepted
  <2> QED BY <1>5, <1>6, <2>9, <2>10, <2>17, <2>19, <2>20 DEF ScanSays
<1>7. short \/ ~short
  OBVIOUS
<1> QED BY <1>4, <1>5, <1>6, <1>7

(* What the search answers fits as well as any candidate of the grid.        *)
LEMMA ScanAskedIs ==
  ASSUME NEW log, NEW field \in [ScanCells -> Nat], NEW probe, NEW cores \in Nat \ {0},
         NEW r, r = ScanAsked(log, field, probe, cores)
  PROVE  /\ r.found \in BOOLEAN
         /\ r.found => /\ ScanSays(ScanPlaced(log, field, probe), r)
                       /\ \A yaw \in 0..3 : \A x \in ScanCoarse(log, field, probe, yaw) : r.best.sum <= x.sum
<1> DEFINE F == ScanFoundOf(log, field, probe)
           P == ScanPlaced(log, field, probe)
           seeds == ScanSeeds(log, field, probe, cores)
           refined == [n \in DOMAIN seeds |-> ScanRefined(log, field, probe, seeds[n].pose)]
<1>1. r = ScanAnswer(probe, refined)
  BY ScanAskedAs
<1>2. /\ seeds \in Seq(F) /\ Len(seeds) \in 0..ScanTopK
      /\ F # {} => Len(seeds) > 0 /\ \A x \in F : seeds[1].sum <= x.sum
  BY ScanSeedsIs
<1> HIDE DEF seeds
<1>3. DOMAIN seeds = 1..Len(seeds) /\ Len(seeds) \in Nat /\ \A n \in 1..Len(seeds) : seeds[n] \in F
  BY <1>2
<1>4. \A n \in 1..Len(seeds) : refined[n] \in P /\ refined[n].sum <= seeds[n].sum
  BY <1>3, ScanRefinedIs
<1>5. DOMAIN refined = 1..Len(seeds)
  BY <1>3
<1>6. refined \in Seq(P) /\ Len(refined) = Len(seeds)
  <2>1. refined = [n \in 1..Len(seeds) |-> ScanRefined(log, field, probe, seeds[n].pose)]
    BY <1>3
  <2>2. \A n \in 1..Len(seeds) : ScanRefined(log, field, probe, seeds[n].pose) \in P
    BY <1>3, ScanRefinedIs
  <2> HIDE DEF P
  <2>3. refined \in [1..Len(seeds) -> P]
    BY <2>1, <2>2
  <2> HIDE DEF refined
  <2> QED BY <1>3, <1>5, <2>3, IsASeq, LenProperties
<1> HIDE DEF refined
<1>7. Len(refined) <= ScanTopK
  BY <1>2, <1>6, ScanSizes
<1>8. /\ r.found \in BOOLEAN
      /\ r.found => /\ ScanSays(P, r)
                    /\ \A n \in DOMAIN refined : r.best.sum <= refined[n].sum
  BY <1>1, <1>6, <1>7, ScanAnswerIs
<1>9. ASSUME r.found, NEW yaw \in 0..3, NEW x \in ScanCoarse(log, field, probe, yaw) PROVE r.best.sum <= x.sum
  <2>1. PICK y \in F : y.sum <= x.sum
    BY ScanFoundIs
  <2>2. 1 \in 1..Len(seeds) /\ seeds[1].sum <= y.sum /\ seeds[1] \in F
    BY <1>2, <1>3, <2>1
  <2>3. r.best.sum <= refined[1].sum /\ refined[1].sum <= seeds[1].sum /\ refined[1] \in P
    BY <1>4, <1>5, <1>8, <1>9, <2>2
  <2>4. r.best \in P
    BY <1>8, <1>9 DEF ScanSays
  <2>5. F \subseteq P /\ x \in P
    BY ScanFoundIs, ScanCoarseIs
  <2>6. \A z \in P : z.sum \in Nat
    BY ScanPlacedIs
  <2> DEFINE a == r.best.sum
             b == refined[1].sum
             c == seeds[1].sum
             d == y.sum
             e == x.sum
  <2>7. a \in Nat /\ b \in Nat /\ c \in Nat /\ d \in Nat /\ e \in Nat
    BY <2>1, <2>2, <2>3, <2>4, <2>5, <2>6
  <2> HIDE DEF a, b, c, d, e
  <2>8. a <= b /\ b <= c /\ c <= d /\ d <= e
    BY <2>1, <2>2, <2>3 DEF a, b, c, d, e
  <2>9. a <= e
    BY <2>7, <2>8
  <2> QED BY <2>9 DEF a, e
<1> QED BY <1>8, <1>9

(* An answer accepted is no rivalled one.                                    *)
LEMMA ScanUniqueIs ==
  ASSUME NEW log, NEW field \in [ScanCells -> Nat], NEW probe, NEW cores \in Nat \ {0}, NEW judge,
         NEW r, r = ScanAsked(log, field, probe, cores), r.found, r.accepted
  PROVE  ScanUniqueAt(log, judge, field, r.best.pose, probe, cores) # "rivalled"
<1> DEFINE P == ScanPlaced(log, field, probe)
           p == r.best.pose
           b == r.basins
           sums(near) == {b[n].sum : n \in {n \in DOMAIN b : near = ~ScanApart(b[n].pose, p)}}
           unjudged == ScanAgreement(log, judge, p, probe).n < ScanJudged \/ ~r.found
           alone == \A rival \in sums(FALSE) : 10 * Min(sums(TRUE)) <= ScanSearchCfg.unique * rival
<1>1. ScanUniqueAt(log, judge, field, p, probe, cores) =
        IF unjudged THEN "unknown" ELSE IF sums(TRUE) = {} THEN "unknown" ELSE IF alone THEN "unique" ELSE "rivalled"
  BY DEF ScanUniqueAt
<1>2. ScanSays(P, r)
  BY ScanAskedIs
<1>3. /\ r.best \in P /\ 1 \in DOMAIN b /\ b[1] = r.best /\ \A n \in DOMAIN b : b[n] \in P /\ n \in Nat /\ n >= 1
      /\ \A n \in DOMAIN b \ {1} : 10 * r.best.sum <= ScanSearchCfg.unique * b[n].sum
  <2> HIDE DEF P
  <2> QED BY <1>2 DEF ScanSays
<1>4. \A m, n \in DOMAIN b : m < n => ScanApart(b[m].pose, b[n].pose)
  BY <1>2 DEF ScanSays
<1>6. ASSUME NEW n \in DOMAIN b PROVE ScanApart(b[n].pose, p) <=> n # 1
  <2>1. n = 1 => ~ScanApart(b[n].pose, p)
    BY <1>3, ScanPlacedApart
  <2>2. n # 1 => 1 < n
    BY <1>3
  <2>3. n # 1 => ScanApart(b[1].pose, b[n].pose)
    BY <1>3, <1>4, <2>2
  <2> QED BY <1>3, <2>1, <2>3, ScanPlacedApart
<1> HIDE DEF unjudged, P
<1>7. sums(TRUE) = {r.best.sum}
  <2>1. \A n \in DOMAIN b : (TRUE = ~ScanApart(b[n].pose, p)) <=> n = 1
    BY <1>6
  <2> QED BY <1>3, <2>1
<1>8. \A rival \in sums(FALSE) : \E n \in DOMAIN b \ {1} : rival = b[n].sum
  <2>1. \A n \in DOMAIN b : (FALSE = ~ScanApart(b[n].pose, p)) => n # 1
    BY <1>6
  <2> QED BY <2>1
<1>9. Min(sums(TRUE)) = r.best.sum
  <2> HIDE DEF sums
  <2>1. r.best.sum \in Nat
    BY <1>3, ScanPlacedIs DEF P
  <2>2. sums(TRUE) \subseteq Nat /\ sums(TRUE) # {}
    BY <1>7, <2>1
  <2>3. Min(sums(TRUE)) \in sums(TRUE)
    BY <2>2, LeastNatural
  <2> QED BY <1>7, <2>3
<1> HIDE DEF sums
<1>10. alone
  BY <1>3, <1>8, <1>9
<1> HIDE DEF alone
<1> QED BY <1>1, <1>10

(* A pose as the odometry and the map have them.                             *)
ScanPlaces == [i : Int, j : Int, yaw : 0..3]

(* The stands' poses are poses of the map.                                   *)
LEMMA ScanPosesAre ==
  /\ \A p \in ScanPoses : p \in ScanPlaces
  /\ \A c \in ScanCells, y \in 0..3 : ScanPose(c, y) \in ScanPlaces
<1>1. \A c \in ScanCells : ScanRow(c) \in Int /\ ScanCol(c) \in Int
  BY ScanRowsCols
<1>2. ScanStands \subseteq ScanCells /\ ScanYaws \subseteq 0..3
  BY ScanAssumption
<1>3. \A p \in ScanPoses : p \in ScanPlaces
  BY <1>1, <1>2 DEF ScanPoses, ScanPlaces
<1>4. \A c \in ScanCells, y \in 0..3 : ScanPose(c, y) \in ScanPlaces
  BY <1>1 DEF ScanPose, ScanPlaces
<1> QED BY <1>3, <1>4

(* A pose carried is a pose, and one carried nowhere stays.                  *)
LEMMA ScanCarriedIs ==
  ASSUME NEW cand \in ScanPlaces, NEW then \in ScanPlaces, NEW now \in ScanPlaces
  PROVE  /\ ScanCarried(cand, then, now) \in ScanPlaces
         /\ ScanCarried(cand, now, now) = cand
<1> DEFINE turn(a) == (4 + cand.yaw - a.yaw) % 4
           v(a) == ScanSpun([i |-> now.i - a.i, j |-> now.j - a.j], turn(a))
<1>1. ASSUME NEW a \in ScanPlaces
      PROVE  /\ turn(a) \in 0..3
             /\ v(a).i \in Int /\ v(a).j \in Int
             /\ ScanCarried(cand, a, now) = [i |-> cand.i + v(a).i, j |-> cand.j + v(a).j, yaw |-> (now.yaw + turn(a)) % 4]
  <2>1. turn(a) \in 0..3
    BY DEF ScanPlaces
  <2>2. ScanCarried(cand, a, now) = [i |-> cand.i + v(a).i, j |-> cand.j + v(a).j, yaw |-> (now.yaw + turn(a)) % 4]
    BY DEF ScanCarried
  <2> DEFINE w == [i |-> now.i - a.i, j |-> now.j - a.j]
  <2>3. w.i \in Int /\ w.j \in Int
    BY DEF ScanPlaces
  <2> HIDE DEF w, turn
  <2>4. ScanSpun(w, turn(a)).i \in Int /\ ScanSpun(w, turn(a)).j \in Int
    BY <2>3 DEF ScanSpun
  <2> QED BY <2>1, <2>2, <2>4 DEF w
<1>2. v(now).i = 0 /\ v(now).j = 0
  <2> DEFINE w == [i |-> now.i - now.i, j |-> now.j - now.j]
  <2>1. w.i = 0 /\ w.j = 0
    BY DEF ScanPlaces
  <2> HIDE DEF w, turn
  <2>4. ASSUME NEW a \in Int, a = 0 PROVE -a = 0
    <3>1. -a <= 0 /\ -a >= 0
      BY <2>4
    <3>2. -a \in Int
      OBVIOUS
    <3> DEFINE b == -a
    <3> HIDE DEF b
    <3>3. b = 0
      BY <3>1, <3>2 DEF b
    <3> QED BY <3>3 DEF b
  <2>5. w.i \in Int /\ w.j \in Int
    BY <2>1
  <2>3. -w.i = 0 /\ -w.j = 0
    BY <2>1, <2>4, <2>5, Zenon
  <2>2. ScanSpun(w, turn(now)).i = 0 /\ ScanSpun(w, turn(now)).j = 0
    BY <2>1, <2>3 DEF ScanSpun
  <2> QED BY <2>2 DEF w
<1>3. (now.yaw + turn(now)) % 4 = cand.yaw
  BY DEF ScanPlaces
<1>4. ASSUME NEW a \in ScanPlaces PROVE (now.yaw + turn(a)) % 4 \in 0..3
  <2>1. turn(a) \in 0..3 /\ now.yaw \in 0..3
    BY <1>1 DEF ScanPlaces
  <2> HIDE DEF turn
  <2> QED BY <2>1
<1> HIDE DEF turn, v
<1>5. ScanCarried(cand, then, now) \in ScanPlaces
  BY <1>1, <1>4 DEF ScanPlaces
<1>6. ScanCarried(cand, now, now) = cand
  BY <1>1, <1>2, <1>3 DEF ScanPlaces
<1> QED BY <1>5, <1>6

(* A valley's direction is a number.                                         *)
LEMMA ScanValleyIs ==
  ASSUME NEW log, NEW field, NEW p, NEW probe
  PROVE  ScanValley(log, field, p, probe) \in Nat
<1> DEFINE own == ScanScore(log, field, p, probe)
           slid(k) == [p EXCEPT !.i = @ + ScanShift * ScanEight[k + 1].i, !.j = @ + ScanShift * ScanEight[k + 1].j]
           fits(k) ==
             /\ ScanIn(slid(k).i, slid(k).j)
             /\ ScanKnownFree(log, ScanAt(slid(k).i, slid(k).j))
             /\ LET s == ScanScore(log, field, slid(k), probe)
                IN /\ s.n >= ScanMinBeams
                   /\ 10 * s.sum <= 10 * own.sum + ScanMargin * ScanBeams(probe)
                   /\ s.sum <= ScanSearchCfg.max * ScanBeams(probe)
           S == {k \in 0..7 : fits(k)} \cup {ScanPinned}
<1>1. ScanValley(log, field, p, probe) = Min(S)
  BY DEF ScanValley
<1> HIDE DEF fits
<1>2. S \subseteq Nat /\ S # {}
  BY DEF ScanPinned
<1> HIDE DEF S
<1> QED BY <1>1, <1>2, LeastNatural

(* ------------------------------------------------------ the invariant      *)

(* The room, the grid, its field and what the valley test refused.           *)
ScanState(s) ==
  s = [room |-> s.room, log |-> s.log, field |-> s.field, thr |-> s.thr, dirty |-> s.dirty,
       inked |-> s.inked, stood |-> s.stood, valleys |-> s.valleys, last |-> s.last]
ScanValleys == [pose : ScanPlaces, then : ScanPlaces, along : Nat]
ScanHas(s) ==
  /\ s.room \subseteq ScanCells /\ ScanBorder \subseteq s.room
  /\ s.log \in ScanLogs /\ s.thr \in Int /\ s.dirty \in BOOLEAN
  /\ s.inked \in 0..ScanWindows /\ s.stood \subseteq ScanLegs
ScanFieldHas(s) == (~s.dirty /\ s.field # <<>>) => s.field = ScanExact(s.log, s.thr)
ScanInkHas(s) == \A c \in ScanCells : s.log[c] > 0 => \E w \in s.room \cup s.stood : ScanNear(c, w)
ScanValleysHave(s) ==
  /\ s.valleys \in Seq(ScanValleys) /\ Len(s.valleys) <= ScanKept
  /\ \A n \in DOMAIN s.valleys :
       s.valleys[n].along = ScanValley(s.log, ScanExact(s.log, ScanSearchCfg.wall), s.valleys[n].pose,
                                       ScanProbe(s.room, s.valleys[n].then))
ScanBase(s) == ScanState(s) /\ ScanHas(s) /\ ScanFieldHas(s) /\ ScanInkHas(s) /\ ScanValleysHave(s)

(* What was asked last was answered from the map as it is.                   *)
ScanSearchHas(s) ==
  s.last.kind = "search" =>
    /\ s.field = ScanExact(s.log, ScanSearchCfg.wall) /\ s.last.at \in ScanPlaces /\ s.last.cores \in ScanCores
    /\ s.last.r = ScanAsked(s.log, s.field, ScanProbe(s.room, s.last.at), s.last.cores)
ScanCheckHas(s) ==
  (s.last.kind = "check" /\ s.last.verdict = "confirmed") =>
    s.field = ScanExact(s.log, ScanSearchCfg.wall) /\ s.last.implied \in ScanPlaces /\ s.last.now \in ScanPlaces
ScanValleyHas(s) ==
  (s.last.kind = "valley" /\ s.last.along # ScanPinned /\ ~s.last.blocked) => \E p \in s.last.stands : p # s.last.now
ScanLast(s) == ScanSearchHas(s) /\ ScanCheckHas(s) /\ ScanValleyHas(s)
ScanInv == ScanBase(scan) /\ ScanLast(scan)

(* The log-odds are integers.                                                *)
LEMMA ScanLogsAre == ScanLogs \subseteq [ScanCells -> Int]
BY DEF ScanLogs, ScanClampLog

(* Asked something else, the rest stands.                                    *)
LEMMA ScanBaseLast ==
  ASSUME NEW s, NEW x, ScanBase(s), NEW t, t = [s EXCEPT !.last = x]
  PROVE  /\ ScanBase(t) /\ t.last = x /\ t.field = s.field /\ t.log = s.log /\ t.room = s.room /\ t.valleys = s.valleys
<1>1. ScanState(s)
  BY DEF ScanBase
<1>2. /\ t.last = x /\ t.field = s.field /\ t.log = s.log /\ t.room = s.room /\ t.valleys = s.valleys
      /\ t.thr = s.thr /\ t.dirty = s.dirty /\ t.inked = s.inked /\ t.stood = s.stood
      /\ ScanState(t)
  BY <1>1 DEF ScanState
<1>3. ScanHas(t)
  BY <1>2 DEF ScanBase, ScanHas
<1>4. ScanFieldHas(t)
  BY <1>2 DEF ScanBase, ScanFieldHas
<1>5. ScanInkHas(t)
  BY <1>2 DEF ScanBase, ScanInkHas
<1>6. ScanValleysHave(t)
  BY <1>2 DEF ScanBase, ScanValleysHave
<1> QED BY <1>2, <1>3, <1>4, <1>5, <1>6 DEF ScanBase

(* Whatever the grid serves is exact.                                        *)
LEMMA ScanServes ==
  ASSUME NEW s, ScanBase(s), NEW thr \in Int, NEW t, t = ScanServe(s, thr)
  PROVE  /\ ScanBase(t) /\ t.last = s.last /\ t.log = s.log /\ t.room = s.room /\ t.valleys = s.valleys
         /\ t.field = ScanExact(s.log, thr)
<1> DEFINE F == ScanServed(s, thr)
<1>1. ScanState(s) /\ t = [s EXCEPT !.field = F, !.thr = thr, !.dirty = FALSE]
  BY DEF ScanBase, ScanServe
<1>2. F = ScanExact(s.log, thr)
  <2>1. CASE ScanStale(s, thr)
    <3>1. s.log \in [ScanCells -> Int]
      BY ScanLogsAre DEF ScanBase, ScanHas
    <3>2. F = ScanRecompute(s.log, thr)
      BY <2>1 DEF ScanServed
    <3> QED BY <3>1, <3>2, ScanFieldExact
  <2>2. CASE ~ScanStale(s, thr)
    <3>1. ~s.dirty /\ s.field # <<>> /\ s.thr = thr
      BY <2>2 DEF ScanStale
    <3>2. F = s.field
      BY <2>2 DEF ScanServed
    <3> QED BY <3>1, <3>2 DEF ScanBase, ScanFieldHas
  <2> QED BY <2>1, <2>2
<1> HIDE DEF F
<1>3. /\ t.last = s.last /\ t.field = F /\ t.log = s.log /\ t.room = s.room /\ t.valleys = s.valleys
      /\ t.thr = thr /\ t.dirty = FALSE /\ t.inked = s.inked /\ t.stood = s.stood
      /\ ScanState(t)
  BY <1>1 DEF ScanState
<1>4. ScanHas(t)
  BY <1>3 DEF ScanBase, ScanHas
<1>5. ScanFieldHas(t)
  BY <1>2, <1>3 DEF ScanFieldHas
<1>6. ScanInkHas(t)
  BY <1>3 DEF ScanBase, ScanInkHas
<1>7. ScanValleysHave(t)
  BY <1>3 DEF ScanBase, ScanValleysHave
<1> QED BY <1>2, <1>3, <1>4, <1>5, <1>6, <1>7 DEF ScanBase

(* What follows from the invariant is what the runs check.                   *)
LEMMA ScanInvSays == ASSUME ScanInv PROVE ScanTypeOK /\ ScanTrue
<1>1. ScanTypeOK
  BY DEF ScanInv, ScanBase, ScanHas, ScanValleysHave, ScanTypeOK, ScanLogs
<1>2. ScanFieldTrue
  BY DEF ScanInv, ScanBase, ScanFieldHas, ScanFieldTrue
<1>3. ScanInkTrue
  BY DEF ScanInv, ScanBase, ScanInkHas, ScanInkTrue
<1>4. ScanValleyTrue
  BY DEF ScanInv, ScanLast, ScanValleyHas, ScanValleyTrue
<1>5. ScanSearchTrue
  <2> DEFINE r == scan.last.r
             probe == ScanProbe(scan.room, scan.last.at)
             P == ScanPlaced(scan.log, scan.field, probe)
             b == r.basins
  <2>1. SUFFICES ASSUME scan.last.kind = "search", r.found
                 PROVE  /\ \A yaw \in 0..3 : \A x \in ScanCoarse(scan.log, scan.field, probe, yaw) : r.best.sum <= x.sum
                        /\ b[1].pose = r.best.pose
                        /\ \A m, n \in DOMAIN b : m < n => ScanApart(b[m].pose, b[n].pose) /\ b[m].sum <= b[n].sum
                        /\ r.accepted => \A n \in DOMAIN b \ {1} : 10 * r.best.sum <= ScanSearchCfg.unique * b[n].sum
                        /\ r.accepted => ScanUniqueAt(scan.log, ScanExact(scan.log, ScanJudgeCfg.wall), scan.field, r.best.pose,
                                                      probe, scan.last.cores) # "rivalled"
    BY DEF ScanSearchTrue
  <2>2. /\ scan.field = ScanExact(scan.log, ScanSearchCfg.wall) /\ scan.last.cores \in ScanCores
        /\ r = ScanAsked(scan.log, scan.field, probe, scan.last.cores)
    BY <2>1 DEF ScanInv, ScanLast, ScanSearchHas
  <2>3. scan.last.cores \in Nat \ {0}
    BY <2>2, ScanAssumption
  <2>4. scan.field \in [ScanCells -> Nat]
    <3>1. scan.log \in [ScanCells -> Int] /\ ScanSearchCfg.wall \in Int
      BY ScanLogsAre DEF ScanInv, ScanBase, ScanHas, ScanSearchCfg
    <3> QED BY <2>2, <3>1, ScanExactIs
  <2> HIDE DEF r, probe, P, b
  <2>5. ScanSays(P, r) /\ \A yaw \in 0..3 : \A x \in ScanCoarse(scan.log, scan.field, probe, yaw) : r.best.sum <= x.sum
    BY <2>1, <2>2, <2>3, <2>4, ScanAskedIs DEF P
  <2>6. r.accepted => ScanUniqueAt(scan.log, ScanExact(scan.log, ScanJudgeCfg.wall), scan.field, r.best.pose,
                                   probe, scan.last.cores) # "rivalled"
    BY <2>1, <2>2, <2>3, <2>4, ScanUniqueIs
  <2>7. /\ b[1].pose = r.best.pose
        /\ \A m, n \in DOMAIN b : m < n => ScanApart(b[m].pose, b[n].pose) /\ b[m].sum <= b[n].sum
        /\ r.accepted => \A n \in DOMAIN b \ {1} : 10 * r.best.sum <= ScanSearchCfg.unique * b[n].sum
    BY <2>5 DEF ScanSays, b
  <2> QED BY <2>5, <2>6, <2>7
<1> QED BY <1>1, <1>2, <1>3, <1>4, <1>5 DEF ScanTrue

(* An empty map of any room keeps the invariant.                             *)
LEMMA ScanStarts == ScanInit => ScanInv
<1>1. SUFFICES ASSUME NEW r \in ScanRooms, scan = ScanBlank(r) PROVE ScanInv
  BY DEF ScanInit
<1>2. /\ scan.room = ScanBorder \cup r /\ scan.log = [c \in ScanCells |-> 0] /\ scan.field = <<>> /\ scan.thr = 0
      /\ scan.dirty = TRUE /\ scan.inked = 0 /\ scan.stood = {} /\ scan.valleys = <<>> /\ scan.last.kind = "none"
      /\ ScanState(scan)
  BY <1>1 DEF ScanBlank, ScanState
<1>3. r \subseteq ScanCells /\ ScanBorder \subseteq ScanCells
  BY ScanAssumption DEF ScanBorder
<1>4. ScanHas(scan)
  <2>1. scan.log \in ScanLogs
    BY <1>2 DEF ScanLogs, ScanClampLog
  <2>2. scan.room \subseteq ScanCells /\ ScanBorder \subseteq scan.room
    BY <1>2, <1>3
  <2>3. scan.thr \in Int /\ scan.inked \in 0..ScanWindows /\ scan.stood \subseteq ScanLegs
    BY <1>2, ScanSizes
  <2>4. scan.dirty \in BOOLEAN
    BY <1>2, Zenon
  <2> QED BY <2>1, <2>2, <2>3, <2>4, Zenon DEF ScanHas
<1>5. ScanFieldHas(scan) /\ ScanInkHas(scan)
  BY <1>2 DEF ScanFieldHas, ScanInkHas
<1>6. ScanValleysHave(scan)
  <2>1. scan.valleys \in Seq(ScanValleys) /\ Len(scan.valleys) = 0 /\ DOMAIN scan.valleys = {}
    BY <1>2
  <2> QED BY <2>1, ScanSizes DEF ScanValleysHave
<1>7. ScanLast(scan)
  BY <1>2 DEF ScanLast, ScanSearchHas, ScanCheckHas, ScanValleyHas
<1> QED BY <1>2, <1>4, <1>5, <1>6, <1>7 DEF ScanInv, ScanBase

(* A window inked keeps it.                                                  *)
LEMMA ScanInkSteps ==
  ASSUME ScanInv, NEW c \in ScanStands, NEW a \in ScanLegs, NEW b \in ScanLegs, NEW legs \in ScanWindowsOf(a, b), ScanInk(c, legs)
  PROVE  ScanInv'
<1> DEFINE beams == ScanFinish(scan.room, c, legs)
<1>1. legs \in Seq(SUBSET ScanLegs)
  <2>1. {} \in SUBSET ScanLegs /\ {a} \in SUBSET ScanLegs /\ {b} \in SUBSET ScanLegs
    OBVIOUS
  <2> DEFINE L == SUBSET ScanLegs
  <2>2. {} \in L /\ {a} \in L /\ {b} \in L
    BY <2>1
  <2> HIDE DEF L
  <2>3. \A x, y, z \in L : <<x, y, z>> \in Seq(L) /\ <<x>> \in Seq(L)
    OBVIOUS
  <2>4. legs \in Seq(L)
    BY <2>2, <2>3 DEF ScanWindowsOf
  <2> QED BY <2>4 DEF L
<1>2. /\ scan.inked < ScanWindows
      /\ scan' = [scan EXCEPT !.log = ScanInked(@, c, beams), !.dirty = TRUE, !.inked = @ + 1,
                              !.stood = @ \cup ScanStood(legs), !.valleys = <<>>, !.last = [kind |-> "none"]]
  BY DEF ScanInk
<1>3. ScanBase(scan)
  BY DEF ScanInv
<1>4. /\ scan'.room = scan.room /\ scan'.log = ScanInked(scan.log, c, beams) /\ scan'.field = scan.field
      /\ scan'.thr = scan.thr /\ scan'.dirty = TRUE /\ scan'.inked = scan.inked + 1
      /\ scan'.stood = scan.stood \cup ScanStood(legs) /\ scan'.valleys = <<>> /\ scan'.last = [kind |-> "none"]
      /\ ScanState(scan')
  <2> HIDE DEF beams
  <2>1. ScanState(scan)
    BY <1>3 DEF ScanBase
  <2> QED BY <1>2, <2>1 DEF ScanState
<1>5. /\ beams \in Seq(ScanCells \cup {ScanOff})
      /\ \A m \in DOMAIN beams : beams[m] # ScanOff => \E w \in scan.room \cup ScanStood(legs) : ScanNear(beams[m], w)
  <2>1. ScanBorder \subseteq scan.room /\ scan.room \subseteq ScanCells
    BY <1>3 DEF ScanBase, ScanHas
  <2> QED BY <1>1, <2>1, ScanFinishIs
<1> HIDE DEF beams
<1>6. /\ scan'.log \in ScanLogs
      /\ \A x \in ScanCells : scan'.log[x] > 0 =>
           scan.log[x] > 0 \/ \E m \in DOMAIN beams : beams[m] # ScanOff /\ beams[m] = x
  <2>1. scan.log \in ScanLogs
    BY <1>3 DEF ScanBase, ScanHas
  <2> QED BY <1>4, <1>5, <2>1, ScanInkedIs
<1>7. ScanHas(scan')
  <2>1. scan.inked + 1 \in 0..ScanWindows
    BY <1>2, <1>3, ScanSizes DEF ScanBase, ScanHas
  <2>2. ScanStood(legs) \subseteq ScanLegs
    BY DEF ScanStood
  <2> QED BY <1>3, <1>4, <1>6, <2>1, <2>2 DEF ScanBase, ScanHas
<1>8. ScanFieldHas(scan')
  BY <1>4 DEF ScanFieldHas
<1>9. ScanInkHas(scan')
  <2>1. ASSUME NEW x \in ScanCells, scan'.log[x] > 0 PROVE \E w \in scan'.room \cup scan'.stood : ScanNear(x, w)
    <3>1. CASE scan.log[x] > 0
      BY <1>3, <1>4, <3>1 DEF ScanBase, ScanInkHas
    <3>2. CASE \E m \in DOMAIN beams : beams[m] # ScanOff /\ beams[m] = x
      <4>1. \E w \in scan.room \cup ScanStood(legs) : ScanNear(x, w)
        BY <1>5, <3>2
      <4> QED BY <1>4, <4>1
    <3> QED BY <1>6, <2>1, <3>1, <3>2
  <2> QED BY <2>1 DEF ScanInkHas
<1>10. ScanValleysHave(scan')
  <2>1. scan'.valleys \in Seq(ScanValleys) /\ Len(scan'.valleys) = 0 /\ DOMAIN scan'.valleys = {}
    BY <1>4
  <2> QED BY <2>1, ScanSizes DEF ScanValleysHave
<1>11. ScanLast(scan')
  BY <1>4 DEF ScanLast, ScanSearchHas, ScanCheckHas, ScanValleyHas
<1> QED BY <1>4, <1>7, <1>8, <1>9, <1>10, <1>11 DEF ScanInv, ScanBase

(* A session loaded keeps it.                                                *)
LEMMA ScanReloadSteps == ASSUME ScanInv, ScanReload PROVE ScanInv'
<1>1. ScanBase(scan) /\ ScanState(scan)
  BY DEF ScanInv, ScanBase
<1>2. /\ scan'.room = scan.room /\ scan'.log = scan.log /\ scan'.field = <<>> /\ scan'.thr = 0 /\ scan'.dirty = TRUE
      /\ scan'.inked = scan.inked /\ scan'.stood = scan.stood /\ scan'.valleys = scan.valleys
      /\ scan'.last = [kind |-> "none"] /\ ScanState(scan')
  BY <1>1 DEF ScanReload, ScanState
<1>3. ScanHas(scan') /\ ScanFieldHas(scan')
  <2>1. scan'.thr \in Int
    BY <1>2
  <2>2. scan'.dirty \in BOOLEAN
    BY <1>2, Zenon
  <2>3. ScanHas(scan')
    BY <1>1, <1>2, <2>1, <2>2, Zenon DEF ScanBase, ScanHas
  <2> QED BY <1>2, <2>3, Zenon DEF ScanFieldHas
<1>4. ScanInkHas(scan')
  BY <1>1, <1>2 DEF ScanBase, ScanInkHas
<1>5. ScanValleysHave(scan')
  BY <1>1, <1>2 DEF ScanBase, ScanValleysHave
<1>6. ScanLast(scan')
  BY <1>2 DEF ScanLast, ScanSearchHas, ScanCheckHas, ScanValleyHas
<1> QED BY <1>2, <1>3, <1>4, <1>5, <1>6 DEF ScanInv, ScanBase

(* A candidate let go of keeps it.                                           *)
LEMMA ScanDropSteps == ASSUME ScanInv, ScanDrop PROVE ScanInv'
<1>1. ScanBase(scan) /\ scan' = [scan EXCEPT !.last = [kind |-> "none"]]
  BY DEF ScanInv, ScanDrop
<1>2. ScanBase(scan') /\ scan'.last = [kind |-> "none"]
  BY <1>1, ScanBaseLast
<1>3. ScanLast(scan')
  BY <1>2 DEF ScanLast, ScanSearchHas, ScanCheckHas, ScanValleyHas
<1> QED BY <1>2, <1>3 DEF ScanInv

(* A search keeps it.                                                        *)
LEMMA ScanSearchSteps ==
  ASSUME ScanInv, NEW p \in ScanPoses, NEW cores \in ScanCores, ScanSearch(p, cores)
  PROVE  ScanInv'
<1> DEFINE s == ScanServe(scan, ScanSearchCfg.wall)
           r == ScanAsked(s.log, s.field, ScanProbe(s.room, p), cores)
           x == [kind |-> "search", at |-> p, cores |-> cores, r |-> r]
<1>1. scan' = [s EXCEPT !.last = x]
  BY DEF ScanSearch
<1>2. ScanBase(scan) /\ ScanSearchCfg.wall \in Int
  BY DEF ScanInv, ScanSearchCfg
<1>3. x.kind = "search" /\ x.at = p /\ x.cores = cores /\ x.r = ScanAsked(s.log, s.field, ScanProbe(s.room, p), cores)
  OBVIOUS
<1> HIDE DEF s, x, r
<1>4. ScanBase(s) /\ s.field = ScanExact(scan.log, ScanSearchCfg.wall) /\ s.log = scan.log
  BY <1>2, ScanServes DEF s
<1>5. ScanBase(scan') /\ scan'.last = x /\ scan'.field = s.field /\ scan'.log = s.log /\ scan'.room = s.room
  BY <1>1, <1>4, ScanBaseLast
<1>6. ScanSearchHas(scan')
  BY <1>3, <1>4, <1>5, ScanPosesAre DEF ScanSearchHas
<1>7. ScanCheckHas(scan') /\ ScanValleyHas(scan')
  BY <1>3, <1>5 DEF ScanCheckHas, ScanValleyHas
<1> QED BY <1>5, <1>6, <1>7 DEF ScanInv, ScanLast

(* A candidate's check keeps it.                                             *)
LEMMA ScanCheckSteps ==
  ASSUME ScanInv, NEW n \in 1..ScanTopK, NEW now \in ScanPoses, ScanCheck(n, now)
  PROVE  ScanInv'
<1> DEFINE s == ScanServe(scan, ScanJudgeCfg.wall)
           cand == scan.last.r.basins[n].pose
           implied == ScanCarried(cand, scan.last.at, now)
           probe == ScanProbe(s.room, now)
           verdict == ScanVerdict(ScanAgreement(s.log, s.field, implied, probe))
           t == IF verdict = "confirmed" THEN ScanServe(s, ScanSearchCfg.wall) ELSE s
           unique == IF verdict # "confirmed" THEN "unasked"
                     ELSE ScanUniqueAt(s.log, s.field, t.field, implied, probe, scan.last.cores)
           x == [kind |-> "check", cand |-> cand, then |-> scan.last.at, now |-> now,
                 implied |-> implied, verdict |-> verdict, unique |-> unique]
<1>1. /\ scan.last.kind = "search" /\ scan.last.r.found /\ n \in DOMAIN scan.last.r.basins
      /\ scan' = [t EXCEPT !.last = x]
  BY SMTT(30) DEF ScanCheck
<1>2. ScanBase(scan) /\ ScanSearchCfg.wall \in Int /\ ScanJudgeCfg.wall \in Int
  BY DEF ScanInv, ScanSearchCfg, ScanJudgeCfg
<1>3. x.kind = "check" /\ x.implied = implied /\ x.now = now /\ x.verdict = verdict
  OBVIOUS
<1>4. implied \in ScanPlaces
  <2> DEFINE r == scan.last.r
             then == scan.last.at
             probed == ScanProbe(scan.room, then)
             P == ScanPlaced(scan.log, scan.field, probed)
  <2>1. /\ scan.field = ScanExact(scan.log, ScanSearchCfg.wall) /\ then \in ScanPlaces /\ scan.last.cores \in ScanCores
        /\ r = ScanAsked(scan.log, scan.field, probed, scan.last.cores)
    BY <1>1 DEF ScanInv, ScanLast, ScanSearchHas
  <2>2. scan.last.cores \in Nat \ {0}
    BY <2>1, ScanAssumption
  <2>3. scan.field \in [ScanCells -> Nat]
    <3>1. scan.log \in [ScanCells -> Int]
      BY <1>2, ScanLogsAre DEF ScanBase, ScanHas
    <3> QED BY <1>2, <2>1, <3>1, ScanExactIs
  <2>4. r.found /\ n \in DOMAIN r.basins
    BY <1>1
  <2> HIDE DEF P, probed, r
  <2>5. ScanSays(P, r)
    BY <2>1, <2>2, <2>3, <2>4, ScanAskedIs DEF P
  <2>6. r.basins[n] \in P
    BY <2>4, <2>5 DEF ScanSays
  <2>7. PICK c \in ScanCells, y \in 0..3 : r.basins[n].pose = ScanPose(c, y)
    BY <2>3, <2>6, ScanPlacedIs DEF P
  <2>8. cand \in ScanPlaces
    BY <2>7, ScanPosesAre DEF r
  <2>9. now \in ScanPlaces
    BY ScanPosesAre
  <2> HIDE DEF cand
  <2> QED BY <2>1, <2>8, <2>9, ScanCarriedIs
<1> HIDE DEF s, x, implied, verdict, unique, t
<1>5. ScanBase(s) /\ s.log = scan.log
  BY <1>2, ScanServes DEF s
<1>6. ScanBase(t) /\ (verdict = "confirmed" => t.field = ScanExact(t.log, ScanSearchCfg.wall))
  <2>1. CASE verdict = "confirmed"
    <3>1. t = ScanServe(s, ScanSearchCfg.wall)
      BY <2>1 DEF t
    <3> QED BY <1>2, <1>5, <3>1, ScanServes, SMTT(30)
  <2>2. CASE verdict # "confirmed"
    BY <1>5, <2>2 DEF t
  <2> QED BY <2>1, <2>2
<1>7. ScanBase(scan') /\ scan'.last = x /\ scan'.field = t.field /\ scan'.log = t.log
  BY <1>1, <1>6, ScanBaseLast
<1>8. ScanSearchHas(scan') /\ ScanValleyHas(scan')
  BY <1>3, <1>7 DEF ScanSearchHas, ScanValleyHas
<1>9. ScanCheckHas(scan')
  BY <1>3, <1>4, <1>6, <1>7, ScanPosesAre DEF ScanCheckHas
<1> QED BY <1>7, <1>8, <1>9 DEF ScanInv, ScanLast

(* The valley test keeps it: what is let through lay across one of another   *)
(* stand.                                                                    *)
LEMMA ScanValleySteps == ASSUME ScanInv, ScanValleyTest PROVE ScanInv'
<1> DEFINE now == scan.last.now
           pose == scan.last.implied
           k == ScanValley(scan.log, scan.field, pose, ScanProbe(scan.room, now))
           crossed == {n \in DOMAIN scan.valleys :
                         LET v == scan.valleys[n]
                         IN ScanCarried(v.pose, v.then, now) = pose /\ ScanCross(v.along, k)}
           one == [pose |-> pose, then |-> now, along |-> k]
           kept == Append(scan.valleys, one)
           V == IF k = ScanPinned THEN scan.valleys ELSE IF Len(kept) > ScanKept THEN Tail(kept) ELSE kept
           stands == {scan.valleys[n].then : n \in crossed}
           x == [kind |-> "valley", pose |-> pose, now |-> now, along |-> k, stands |-> stands,
                 blocked |-> k # ScanPinned /\ crossed = {}]
<1>1. /\ scan.last.kind = "check" /\ scan.last.verdict = "confirmed"
      /\ scan' = [scan EXCEPT !.valleys = V, !.last = x]
  BY DEF ScanValleyTest
<1>2. ScanBase(scan) /\ ScanState(scan)
  BY DEF ScanInv, ScanBase
<1>3. x.kind = "valley" /\ x.now = now /\ x.along = k /\ x.stands = stands /\ x.blocked = (k # ScanPinned /\ crossed = {})
  OBVIOUS
<1>4. scan.field = ScanExact(scan.log, ScanSearchCfg.wall) /\ pose \in ScanPlaces /\ now \in ScanPlaces
  BY <1>1 DEF ScanInv, ScanLast, ScanCheckHas
<1>5. k \in Nat
  BY ScanValleyIs
<1>6. k = ScanValley(scan.log, ScanExact(scan.log, ScanSearchCfg.wall), pose, ScanProbe(scan.room, now))
  BY <1>4
<1>7. one \in ScanValleys /\ one.pose = pose /\ one.then = now /\ one.along = k
  BY <1>4, <1>5 DEF ScanValleys
<1> HIDE DEF k, x, one
<1>8. /\ scan.valleys \in Seq(ScanValleys) /\ Len(scan.valleys) <= ScanKept
      /\ \A n \in DOMAIN scan.valleys :
           scan.valleys[n].along = ScanValley(scan.log, ScanExact(scan.log, ScanSearchCfg.wall), scan.valleys[n].pose,
                                              ScanProbe(scan.room, scan.valleys[n].then))
  BY <1>2 DEF ScanBase, ScanValleysHave
<1> DEFINE held(v) == v.along = ScanValley(scan.log, ScanExact(scan.log, ScanSearchCfg.wall), v.pose, ScanProbe(scan.room, v.then))
<1>9. V \in Seq(ScanValleys) /\ Len(V) <= ScanKept /\ \A n \in DOMAIN V : held(V[n])
  <2>1. held(one)
    BY <1>6, <1>7
  <2>2. \A n \in DOMAIN scan.valleys : held(scan.valleys[n])
    BY <1>8
  <2> HIDE DEF held
  <2> DEFINE u == scan.valleys
  <2>3. u \in Seq(ScanValleys) /\ Len(u) \in Nat /\ DOMAIN u = 1..Len(u)
    BY <1>8
  <2>4. /\ kept \in Seq(ScanValleys) /\ Len(kept) = Len(u) + 1 /\ DOMAIN kept = 1..(Len(u) + 1)
        /\ \A n \in 1..Len(u) : kept[n] = u[n]
        /\ kept[Len(u) + 1] = one
    BY <1>7, <2>3
  <2> HIDE DEF kept
  <2>5. \A n \in DOMAIN kept : held(kept[n])
    <3>1. ASSUME NEW n \in DOMAIN kept PROVE held(kept[n])
      <4>1. n \in 1..Len(u) \/ n = Len(u) + 1
        BY <2>3, <2>4
      <4> QED BY <2>1, <2>2, <2>3, <2>4, <4>1
    <3> QED BY <3>1
  <2>6. CASE k = ScanPinned
    BY <1>8, <2>2, <2>6
  <2>7. CASE k # ScanPinned /\ Len(kept) > ScanKept
    <3> DEFINE w == Tail(kept)
    <3>1. V = w
      BY <2>7
    <3>2. w \in Seq(ScanValleys) /\ Len(w) = Len(u) /\ DOMAIN w = 1..Len(u) /\ \A n \in 1..Len(u) : w[n] = kept[n + 1]
      <4>1. kept # <<>> /\ Len(kept) - 1 = Len(u)
        BY <2>3, <2>4
      <4>2. w \in Seq(ScanValleys) /\ Len(w) = Len(kept) - 1 /\ \A n \in 1..Len(w) : w[n] = kept[n + 1]
        BY <2>4, <4>1, HeadTailProperties
      <4> HIDE DEF w
      <4>3. DOMAIN w = 1..Len(w)
        BY <4>2
      <4> QED BY <4>1, <4>2, <4>3
    <3> HIDE DEF w
    <3>3. \A n \in DOMAIN w : held(w[n])
      <4>1. ASSUME NEW n \in 1..Len(u) PROVE n + 1 \in DOMAIN kept
        BY <2>3, <2>4
      <4> QED BY <2>5, <3>2, <4>1
    <3> QED BY <1>8, <3>1, <3>2, <3>3
  <2>8. CASE k # ScanPinned /\ ~(Len(kept) > ScanKept)
    <3>1. V = kept
      BY <2>8
    <3>2. Len(kept) <= ScanKept
      BY <2>3, <2>4, <2>8, ScanSizes
    <3> QED BY <2>4, <2>5, <3>1, <3>2
  <2> QED BY <2>6, <2>7, <2>8
<1> HIDE DEF V
<1>10. /\ scan'.room = scan.room /\ scan'.log = scan.log /\ scan'.field = scan.field /\ scan'.thr = scan.thr
       /\ scan'.dirty = scan.dirty /\ scan'.inked = scan.inked /\ scan'.stood = scan.stood /\ scan'.valleys = V
       /\ scan'.last = x /\ ScanState(scan')
  BY <1>1, <1>2 DEF ScanState
<1>11. ScanHas(scan') /\ ScanFieldHas(scan')
  BY <1>2, <1>10 DEF ScanBase, ScanHas, ScanFieldHas
<1>12. ScanInkHas(scan')
  BY <1>2, <1>10 DEF ScanBase, ScanInkHas
<1>13. ScanValleysHave(scan')
  BY <1>9, <1>10 DEF ScanValleysHave
<1>14. ASSUME k # ScanPinned, crossed # {} PROVE \E p \in stands : p # now
  <2>1. PICK n \in DOMAIN scan.valleys : /\ ScanCarried(scan.valleys[n].pose, scan.valleys[n].then, now) = pose
                                         /\ ScanCross(scan.valleys[n].along, k)
    BY <1>14
  <2> DEFINE v == scan.valleys[n]
  <2>2. v \in ScanValleys
    BY <1>8
  <2>3. v.pose \in ScanPlaces
    BY <2>2 DEF ScanValleys
  <2>4. v.then \in stands
    BY <2>1
  <2>5. ASSUME v.then = now PROVE FALSE
    <3>1. v.pose = pose
      BY <1>4, <2>1, <2>3, <2>5, ScanCarriedIs
    <3>2. v.along = k
      BY <1>6, <1>8, <2>5, <3>1
    <3>3. k - k = 0
      BY <1>5
    <3>4. ~ScanCross(k, k)
      BY <3>3 DEF ScanCross
    <3> QED BY <2>1, <3>2, <3>4
  <2> QED BY <2>4, <2>5
<1> HIDE DEF stands, crossed
<1>15. ScanValleyHas(scan')
  BY <1>3, <1>10, <1>14 DEF ScanValleyHas
<1>16. ScanSearchHas(scan') /\ ScanCheckHas(scan')
  BY <1>3, <1>10 DEF ScanSearchHas, ScanCheckHas
<1> QED BY <1>10, <1>11, <1>12, <1>13, <1>15, <1>16 DEF ScanInv, ScanBase, ScanLast

(* What the map says of a window, for any room, stands and passers-by        *)
(* (accumulator.rs, grid.rs, relocalize.rs): a field served is the exact     *)
(* distance, ink is beside what is or stood, the search's answer is the best *)
(* it looked at and its basins apart and in order, no valley is settled from *)
(* one stand.                                                                *)
THEOREM ScanHolds == ScanSpec => [](ScanTypeOK /\ ScanTrue)
<1>1. ScanInit => ScanInv
  BY ScanStarts
<1>2. ASSUME ScanInv, [ScanNext]_scan PROVE ScanInv'
  <2>1. CASE UNCHANGED scan
    BY <1>2, <2>1 DEF ScanInv
  <2>2. ASSUME NEW c \in ScanStands, NEW a \in ScanLegs, NEW b \in ScanLegs, NEW legs \in ScanWindowsOf(a, b), ScanInk(c, legs)
        PROVE  ScanInv'
    BY <1>2, <2>2, ScanInkSteps
  <2>3. CASE ScanReload
    BY <1>2, <2>3, ScanReloadSteps
  <2>4. CASE ScanDrop
    BY <1>2, <2>4, ScanDropSteps
  <2>5. ASSUME NEW p \in ScanPoses, NEW cores \in ScanCores, ScanSearch(p, cores) PROVE ScanInv'
    BY <1>2, <2>5, ScanSearchSteps
  <2>6. ASSUME NEW n \in 1..ScanTopK, NEW now \in ScanPoses, ScanCheck(n, now) PROVE ScanInv'
    BY <1>2, <2>6, ScanCheckSteps
  <2>7. CASE ScanValleyTest
    BY <1>2, <2>7, ScanValleySteps
  <2> QED BY <1>2, <2>1, <2>2, <2>3, <2>4, <2>5, <2>6, <2>7 DEF ScanNext
<1>3. ScanInv => ScanTypeOK /\ ScanTrue
  BY ScanInvSays
<1> QED BY <1>1, <1>2, <1>3, PTL DEF ScanSpec

------------------------------------------------------------------------------
(* The ways over the map.                                                   *)

(* What the constants are.                                                   *)
LEMMA RouteSizes ==
  /\ RouteRows \in Nat /\ RouteRows > 0 /\ RouteCols \in Nat /\ RouteCols > 0 /\ RouteCount \in Nat /\ RouteCount > 0
  /\ RouteFree \in Nat /\ RouteFree > 0 /\ RouteDear \in Nat /\ RouteDear > 0 /\ RouteCap \in Nat /\ RouteCap > 0
  /\ RouteInflate \in Nat /\ RouteTight \in Nat /\ RouteRim \in Nat /\ RouteRimTight \in Nat /\ RouteYield \in Nat
  /\ RouteHug \in Nat /\ RouteBand \in Nat /\ RouteMin \in Nat /\ RouteBack \in Nat /\ RouteWalksMax \in Nat
  /\ RouteVaried \subseteq RouteCells /\ RouteSpots \subseteq RouteCells
  /\ RouteFroms \subseteq RouteCells /\ RouteGoals \subseteq RouteCells
  /\ RoutePrice \in Nat /\ RoutePrice > 0
<1>1. /\ RouteRows \in Nat /\ RouteRows > 0 /\ RouteCols \in Nat /\ RouteCols > 0
      /\ RouteFree \in Nat /\ RouteFree > 0 /\ RouteDear \in Nat /\ RouteDear > 0 /\ RouteCap \in Nat /\ RouteCap > 0
  BY RouteAssumption
<1>2. /\ RouteInflate \in Nat /\ RouteTight \in Nat /\ RouteRim \in Nat /\ RouteRimTight \in Nat /\ RouteYield \in Nat
      /\ RouteHug \in Nat /\ RouteBand \in Nat /\ RouteMin \in Nat /\ RouteBack \in Nat /\ RouteWalksMax \in Nat
  BY RouteAssumption
<1>3. /\ RouteVaried \subseteq RouteCells /\ RouteSpots \subseteq RouteCells
      /\ RouteFroms \subseteq RouteCells /\ RouteGoals \subseteq RouteCells
  BY RouteAssumption
<1>4. RouteCount \in Nat /\ RouteCount > 0
  <2>1. 1 * RouteCols <= RouteRows * RouteCols /\ RouteRows * RouteCols \in Int
    BY <1>1, ScanTimes
  <2> QED BY <1>1, <2>1 DEF RouteCount
<1>5. RoutePrice \in Nat /\ RoutePrice > 0
  BY <1>1, <1>2 DEF RoutePrice
<1> QED BY <1>1, <1>2, <1>3, <1>4, <1>5

(* What is larger than all ways: twice as much as all cells cost.            *)
LEMMA RouteEndlessIs ==
  /\ RouteCount * RoutePrice \in Nat
  /\ RouteEndless = 2 * (RouteCount * RoutePrice) + 2 * RoutePrice /\ RouteEndless \in Nat
  /\ RouteEndless > RouteCount * RoutePrice + RoutePrice
<1> DEFINE x == RouteCount * RoutePrice
<1>1. x \in Nat /\ (RouteCount + 1) * RoutePrice = x + RoutePrice
  BY RouteSizes
<1>2. RouteEndless = 2 * ((RouteCount + 1) * RoutePrice)
  BY RouteSizes DEF RouteEndless
<1> HIDE DEF x
<1>3. RouteEndless = 2 * x + 2 * RoutePrice
  BY <1>1, <1>2, RouteSizes
<1>4. RouteEndless \in Nat /\ RouteEndless > x + RoutePrice
  BY <1>1, <1>3, RouteSizes
<1> QED BY <1>1, <1>3, <1>4 DEF x

(* There are as many cells as the rows and the columns make.                 *)
LEMMA RouteCellsFinite == RouteCells \subseteq Nat /\ IsFiniteSet(RouteCells) /\ Cardinality(RouteCells) = RouteCount
<1>1. IsFiniteSet(1..RouteCount) /\ Cardinality(1..RouteCount) = RouteCount
  <2>1. 1 <= RouteCount /\ 1 \in Int /\ RouteCount \in Int
    BY RouteSizes
  <2> QED BY <2>1, FS_Interval
<1> QED BY <1>1, RouteSizes DEF RouteCells

(* The cells' numbers, row by row.                                           *)
LEMMA RouteRowsCols ==
  /\ \A c \in RouteCells : /\ RouteRow(c) \in 0..(RouteRows - 1) /\ RouteCol(c) \in 0..(RouteCols - 1)
                           /\ RouteCols * RouteRow(c) + RouteCol(c) + 1 = c
  /\ \A i \in 0..(RouteRows - 1), j \in 0..(RouteCols - 1) :
       LET c == RouteCols * i + j + 1 IN c \in RouteCells /\ RouteRow(c) = i /\ RouteCol(c) = j
<1> DEFINE N == RouteCols
           M == RouteRows
<1>1. N \in Nat /\ N > 0 /\ M \in Nat /\ M > 0
  BY RouteSizes
<1>2. RouteCells = 1..(M * N) /\ M * N \in Nat
  BY RouteSizes DEF RouteCells, RouteCount
<1>3. \A c : RouteRow(c) = (c - 1) \div N /\ RouteCol(c) = (c - 1) % N
  BY DEF RouteRow, RouteCol
<1> HIDE DEF N, M
<1>5. ASSUME NEW a \in Int, NEW b \in Int, a * N < b * N PROVE a < b
  <2>1. a < b <=> a * N < b * N
    BY <1>1, ScanTimes
  <2> QED BY <1>5, <2>1
<1>6. ASSUME NEW i \in Int, NEW j \in Int, NEW k \in Int, NEW l \in 0..(N - 1), j \in 0..(N - 1), i * N + j = k * N + l
      PROVE  i = k /\ j = l
  <2> DEFINE iN == i * N
             kN == k * N
  <2>1. iN \in Int /\ kN \in Int /\ (i + 1) * N = iN + N /\ (k + 1) * N = kN + N
    BY <1>1
  <2>2. iN < kN + N /\ kN < iN + N
    <3> HIDE DEF iN, kN
    <3> QED BY <1>1, <1>6, <2>1 DEF iN, kN
  <2>3. i < k + 1 /\ k < i + 1
    BY <1>5, <2>1, <2>2
  <2> QED BY <1>1, <1>6, <2>3
<1>7. ASSUME NEW c \in 0..(M * N - 1)
      PROVE  /\ c \in Nat /\ c \div N \in 0..(M - 1) /\ c % N \in 0..(N - 1) /\ (c \div N) * N + (c % N) = c
  <2> DEFINE d == c \div N
             r == c % N
  <2>1. c \in Nat
    BY <1>2
  <2>2. d \in Int /\ r \in 0..(N - 1) /\ c = N * d + r
    BY <1>1, <2>1
  <2> HIDE DEF d, r
  <2>3. c = d * N + r /\ d * N \in Int /\ c < M * N
    BY <1>1, <1>2, <2>1, <2>2
  <2>4. d * N < M * N
    BY <1>1, <1>2, <2>2, <2>3
  <2>5. d < M
    BY <1>1, <1>5, <2>2, <2>4
  <2>6. (-1) * N < (d + 1) * N - N
    <3>1. (d + 1) * N = d * N + N /\ (-1) * N = -N
      BY <1>1, <2>2
    <3> QED BY <1>1, <2>1, <2>2, <2>3, <3>1
  <2>7. -1 < d
    <3>1. (d + 1) * N - N = d * N
      BY <1>1, <2>2
    <3> QED BY <1>5, <2>2, <2>6, <3>1
  <2>8. d \in 0..(M - 1)
    BY <1>1, <2>2, <2>5, <2>7
  <2>9. c \in Nat /\ d \in 0..(M - 1) /\ r \in 0..(N - 1) /\ d * N + r = c
    BY <2>1, <2>2, <2>3, <2>8
  <2> QED BY <2>9 DEF d, r
<1>8. ASSUME NEW i \in 0..(M - 1), NEW j \in 0..(N - 1)
      PROVE  i * N + j \in 0..(M * N - 1) /\ (i * N + j) \div N = i /\ (i * N + j) % N = j
  <2> DEFINE c == i * N + j
  <2>1. i + 1 <= M /\ i \in Nat /\ i + 1 \in Int
    BY <1>1
  <2>2. (i + 1) * N <= M * N
    BY <1>1, <2>1, ScanTimes
  <2>3. (i + 1) * N = i * N + N /\ i * N \in Nat
    BY <1>1, <2>1
  <2>4. c \in 0..(M * N - 1)
    BY <1>1, <1>2, <2>2, <2>3
  <2>5. (c \div N) * N + (c % N) = c /\ c % N \in 0..(N - 1) /\ c \div N \in 0..(M - 1)
    <3> HIDE DEF c
    <3> QED BY <1>7, <2>4
  <2>6. c \div N = i /\ c % N = j
    <3> DEFINE d == c \div N
               r == c % N
    <3>1. i * N + j = d * N + r /\ d \in Int /\ r \in 0..(N - 1) /\ i \in Int /\ j \in Int
      BY <1>1, <2>5
    <3> HIDE DEF d, r
    <3>2. i = d /\ j = r
      BY <1>6, <3>1
    <3> QED BY <3>2 DEF d, r
  <2> QED BY <2>4, <2>6
<1>9. ASSUME NEW c \in RouteCells
      PROVE  RouteRow(c) \in 0..(M - 1) /\ RouteCol(c) \in 0..(N - 1) /\ N * RouteRow(c) + RouteCol(c) + 1 = c
  <2> DEFINE x == c - 1
             d == x \div N
  <2>1. x \in 0..(M * N - 1) /\ c = x + 1 /\ c \in Int
    BY <1>2
  <2> HIDE DEF x
  <2>2. d \in 0..(M - 1) /\ x % N \in 0..(N - 1) /\ d * N + (x % N) = x
    BY <1>7, <2>1
  <2>3. d * N = N * d /\ N * d \in Int
    BY <1>1, <2>2
  <2>4. RouteRow(c) = d /\ RouteCol(c) = x % N
    BY <1>3 DEF x
  <2> HIDE DEF d
  <2> QED BY <1>1, <2>1, <2>2, <2>3, <2>4
<1>10. ASSUME NEW i \in 0..(M - 1), NEW j \in 0..(N - 1)
       PROVE  LET c == N * i + j + 1 IN c \in RouteCells /\ RouteRow(c) = i /\ RouteCol(c) = j
  <2> DEFINE x == i * N + j
             c == N * i + j + 1
  <2>1. x \in 0..(M * N - 1) /\ x \div N = i /\ x % N = j
    BY <1>8
  <2>2. N * i = i * N /\ i * N \in Int
    BY <1>1
  <2>3. c = x + 1
    BY <1>1, <2>2
  <2> HIDE DEF x, c
  <2>4. c - 1 = x /\ c \in 1..(M * N)
    BY <1>2, <2>1, <2>3
  <2>5. c \in RouteCells /\ RouteRow(c) = i /\ RouteCol(c) = j
    BY <1>2, <1>3, <2>1, <2>4
  <2> QED BY <2>5 DEF c
<1> QED BY <1>9, <1>10 DEF N, M

(* A cell's row and column are the grid's.                                   *)
LEMMA RouteCoords ==
  ASSUME NEW c \in RouteCells
  PROVE  RouteRow(c) \in Int /\ RouteCol(c) \in Int /\ RouteRow(c) >= 0 /\ RouteCol(c) >= 0
         /\ RouteRow(c) < RouteRows /\ RouteCol(c) < RouteCols
<1>1. RouteRow(c) \in 0..(RouteRows - 1) /\ RouteCol(c) \in 0..(RouteCols - 1)
  BY RouteRowsCols
<1> QED BY <1>1, RouteSizes

(* A product of a number with itself.                                        *)
LEMMA RouteSquare ==
  ASSUME NEW x \in Int
  PROVE  x * x \in Nat /\ (x * x = 0 <=> x = 0) /\ x * x >= x /\ x * x >= -x /\ (-x) * (-x) = x * x
OBVIOUS

(* Squared distances and steps are numbers, and the same there and back.     *)
LEMMA RouteD2Is ==
  ASSUME NEW a \in RouteCells, NEW b \in RouteCells
  PROVE  /\ RouteD2[a][b] = (RouteRow(a) - RouteRow(b)) * (RouteRow(a) - RouteRow(b))
                              + (RouteCol(a) - RouteCol(b)) * (RouteCol(a) - RouteCol(b))
         /\ RouteD2[a][b] \in Nat /\ RouteD2[a][b] = RouteD2[b][a]
         /\ (RouteD2[a][b] = 0 <=> a = b)
<1> DEFINE r == RouteRow(a) - RouteRow(b)
           s == RouteCol(a) - RouteCol(b)
<1>1. r \in Int /\ s \in Int /\ RouteRow(b) - RouteRow(a) = -r /\ RouteCol(b) - RouteCol(a) = -s
  BY RouteCoords
<1>2. RouteD2[a][b] = r * r + s * s
  BY DEF RouteD2
<1>3. RouteD2[b][a] = (-r) * (-r) + (-s) * (-s)
  BY <1>1 DEF RouteD2
<1>6. r = 0 /\ s = 0 <=> a = b
  BY RouteCoords, RouteRowsCols
<1> HIDE DEF r, s
<1>4. r * r \in Nat /\ s * s \in Nat /\ (-r) * (-r) = r * r /\ (-s) * (-s) = s * s
      /\ (r * r = 0 <=> r = 0) /\ (s * s = 0 <=> s = 0)
  BY <1>1, RouteSquare
<1>5. RouteD2[a][b] \in Nat /\ RouteD2[a][b] = RouteD2[b][a] /\ (RouteD2[a][b] = 0 <=> r = 0 /\ s = 0)
  BY <1>2, <1>3, <1>4
<1> QED BY <1>2, <1>5, <1>6 DEF r, s

(* What a distance along one axis is.                                        *)
LEMMA RouteAbsIs ==
  ASSUME NEW x \in Int
  PROVE  RouteAbs(x) \in Nat /\ RouteAbs(-x) = RouteAbs(x) /\ (RouteAbs(x) = 0 <=> x = 0)
         /\ (RouteAbs(x) = 1 <=> x \in {-1, 1})
BY DEF RouteAbs

(* The four cells round one: some of the next and the last in its row and    *)
(* column, each beside the other.                                            *)
LEMMA RouteAroundIs ==
  /\ RouteAround \in [RouteCells -> SUBSET RouteCells]
  /\ \A c, n \in RouteCells : n \in RouteAround[c] <=> c \in RouteAround[n]
  /\ \A c \in RouteCells : RouteAround[c] \subseteq {c - 1, c + 1, c - RouteCols, c + RouteCols}
  /\ \A c, n \in RouteCells : n \in RouteAround[c] => n # c /\ RouteD2[c][n] = 1
<1>1. RouteAround \in [RouteCells -> SUBSET RouteCells]
  BY DEF RouteAround
<1>2. ASSUME NEW c \in RouteCells, NEW n \in RouteCells
      PROVE  /\ RouteSteps[c][n] = RouteAbs(RouteRow(c) - RouteRow(n)) + RouteAbs(RouteCol(c) - RouteCol(n))
             /\ RouteSteps[c][n] = RouteSteps[n][c] /\ (n \in RouteAround[c] <=> RouteSteps[c][n] = 1)
  <2> DEFINE r == RouteRow(c) - RouteRow(n)
             s == RouteCol(c) - RouteCol(n)
  <2>1. r \in Int /\ s \in Int /\ RouteRow(n) - RouteRow(c) = -r /\ RouteCol(n) - RouteCol(c) = -s
    BY RouteCoords
  <2>2. RouteSteps[c][n] = RouteAbs(r) + RouteAbs(s)
    BY DEF RouteSteps
  <2>3. RouteSteps[n][c] = RouteAbs(-r) + RouteAbs(-s)
    BY <2>1 DEF RouteSteps
  <2>4. n \in RouteAround[c] <=> RouteSteps[c][n] = 1
    BY DEF RouteAround
  <2> HIDE DEF r, s
  <2>5. RouteAbs(-r) = RouteAbs(r) /\ RouteAbs(-s) = RouteAbs(s)
    BY <2>1, RouteAbsIs
  <2>6. RouteSteps[c][n] = RouteSteps[n][c]
    BY <2>2, <2>3, <2>5
  <2> QED BY <2>2, <2>4, <2>6 DEF r, s
<1>3. ASSUME NEW c \in RouteCells, NEW n \in RouteCells, n \in RouteAround[c]
      PROVE  n \in {c - 1, c + 1, c - RouteCols, c + RouteCols} /\ n # c /\ RouteD2[c][n] = 1
  <2> DEFINE r == RouteRow(c) - RouteRow(n)
             s == RouteCol(c) - RouteCol(n)
  <2>1. r \in Int /\ s \in Int /\ RouteAbs(r) + RouteAbs(s) = 1
    BY <1>2, <1>3, RouteCoords
  <2>2. RouteD2[c][n] = r * r + s * s
    BY RouteD2Is
  <2>3. RouteCols * RouteRow(c) + RouteCol(c) + 1 = c /\ RouteCols * RouteRow(n) + RouteCol(n) + 1 = n
    BY RouteRowsCols
  <2>4. RouteRow(n) = RouteRow(c) - r /\ RouteCol(n) = RouteCol(c) - s
    BY RouteCoords
  <2>5. RouteRow(c) \in Int /\ RouteCol(c) \in Int /\ RouteCols \in Int /\ RouteCols > 0
    BY RouteCoords, RouteSizes
  <2> HIDE DEF r, s
  <2>6. (r \in {-1, 1} /\ s = 0) \/ (r = 0 /\ s \in {-1, 1})
    BY <2>1, RouteAbsIs
  <2>7. RouteD2[c][n] = 1
    BY <2>2, <2>6
  <2> DEFINE x == RouteCols * RouteRow(c)
  <2>8. x \in Int /\ RouteCols * (RouteRow(c) - r) = x - RouteCols * r
    BY <2>1, <2>5
  <2>9. RouteCols * r \in {-RouteCols, 0, RouteCols} /\ (r = 1 => RouteCols * r = RouteCols)
          /\ (r = -1 => RouteCols * r = -RouteCols) /\ (r = 0 => RouteCols * r = 0)
    BY <2>5, <2>6
  <2> DEFINE y == RouteCols * r
  <2>10. c = x + RouteCol(c) + 1 /\ n = x - y + RouteCol(c) - s + 1 /\ y \in Int
    <3>1. n = (x - y) + (RouteCol(c) - s) + 1
      BY <2>3, <2>4, <2>8
    <3>2. y \in Int
      BY <2>5, <2>9
    <3> HIDE DEF x, y
    <3>3. c = x + RouteCol(c) + 1
      BY <2>3 DEF x
    <3> QED BY <2>1, <2>5, <2>8, <3>1, <3>2, <3>3
  <2> HIDE DEF x, y
  <2>11. n = c - y - s
    BY <2>1, <2>5, <2>8, <2>10
  <2>12. n \in {c - 1, c + 1, c - RouteCols, c + RouteCols} /\ n # c
    <3>1. c \in Int
      BY RouteCellsFinite
    <3>2. (y = 0 /\ s \in {-1, 1}) \/ (y \in {-RouteCols, RouteCols} /\ s = 0)
      BY <2>6, <2>9 DEF y
    <3> QED BY <2>5, <2>11, <3>1, <3>2
  <2> QED BY <2>7, <2>12
<1> QED BY <1>1, <1>2, <1>3

(* No more than four.                                                        *)
LEMMA RouteFour ==
  ASSUME NEW c \in RouteCells, NEW S \in SUBSET RouteAround[c]
  PROVE  IsFiniteSet(S) /\ Cardinality(S) \in Nat /\ Cardinality(S) <= 4
<1> DEFINE a == {c - 1}
           b == a \cup {c + 1}
           d == b \cup {c - RouteCols}
           e == d \cup {c + RouteCols}
<1>0. ASSUME NEW T, IsFiniteSet(T), NEW k \in Nat, Cardinality(T) <= k, NEW x
      PROVE  IsFiniteSet(T \cup {x}) /\ Cardinality(T \cup {x}) <= k + 1
  <2>1. Cardinality(T) \in Nat
    BY <1>0, FS_CardinalityType
  <2>2. IsFiniteSet(T \cup {x}) /\ Cardinality(T \cup {x}) = IF x \in T THEN Cardinality(T) ELSE Cardinality(T) + 1
    BY <1>0, FS_AddElement
  <2> QED BY <1>0, <2>1, <2>2
<1>1. IsFiniteSet(a) /\ Cardinality(a) <= 1
  <2>1. IsFiniteSet(a) /\ Cardinality(a) = 1
    BY FS_Singleton
  <2> QED BY <2>1
<1>2. IsFiniteSet(b) /\ Cardinality(b) <= 2
  <2> HIDE DEF a
  <2>1. 1 \in Nat /\ 1 + 1 = 2
    OBVIOUS
  <2> QED BY <1>0, <1>1, <2>1
<1>3. IsFiniteSet(d) /\ Cardinality(d) <= 3
  <2> HIDE DEF b
  <2>1. 2 \in Nat /\ 2 + 1 = 3
    OBVIOUS
  <2> QED BY <1>0, <1>2, <2>1
<1>4. IsFiniteSet(e) /\ Cardinality(e) <= 4
  <2> HIDE DEF d
  <2>1. 3 \in Nat /\ 3 + 1 = 4
    OBVIOUS
  <2> QED BY <1>0, <1>3, <2>1
<1>5. S \subseteq e
  BY RouteAroundIs
<1> HIDE DEF e
<1>6. IsFiniteSet(S) /\ Cardinality(S) <= Cardinality(e)
  BY <1>4, <1>5, FS_Subset
<1>7. Cardinality(S) \in Nat /\ Cardinality(e) \in Nat
  BY <1>4, <1>6, FS_CardinalityType
<1> QED BY <1>4, <1>6, <1>7

(* The eight cells round one.                                                *)
LEMMA RouteRoundIs ==
  /\ \A c \in RouteCells : RouteRound[c] \subseteq RouteCells
  /\ \A c, n \in RouteCells : n \in RouteRound[c] <=> RouteD2[c][n] \in {1, 2}
  /\ \A c, n \in RouteCells : n \in RouteRound[c] <=> c \in RouteRound[n]
<1>1. \A c \in RouteCells : RouteRound[c] \subseteq RouteCells
  BY DEF RouteRound
<1>2. \A c, n \in RouteCells : n \in RouteRound[c] <=> RouteD2[c][n] \in {1, 2}
  BY DEF RouteRound
<1>3. \A c, n \in RouteCells : n \in RouteRound[c] <=> c \in RouteRound[n]
  BY <1>2, RouteD2Is
<1> QED BY <1>1, <1>2, <1>3

(* The first of those for which something is least.                          *)
LEMMA RouteFirstLeast ==
  ASSUME NEW T, T \subseteq Nat, T # {}, NEW f, \A x \in T : f[x] \in Nat
  PROVE  \E c \in T : \A o \in T : f[c] < f[o] \/ (f[c] = f[o] /\ c <= o)
<1> DEFINE V == {f[x] : x \in T}
           m == Min(V)
           W == {x \in T : f[x] = m}
<1>1. V \subseteq Nat /\ V # {}
  OBVIOUS
<1>2. m \in V /\ \A y \in V : m <= y
  BY <1>1, LeastNatural
<1>3. \A x \in T : m <= f[x] /\ f[x] \in Nat
  BY <1>2
<1>4. W # {}
  BY <1>2
<1> HIDE DEF m
<1>5. W \subseteq Nat /\ W \subseteq T
  OBVIOUS
<1> DEFINE c == Min(W)
<1>6. c \in W /\ \A y \in W : c <= y
  BY <1>4, <1>5, LeastNatural
<1> HIDE DEF c
<1>7. m \in Nat
  BY <1>1, <1>2
<1>8. \A o \in T : f[c] < f[o] \/ (f[c] = f[o] /\ c <= o)
  BY <1>3, <1>6, <1>7
<1> QED BY <1>5, <1>6, <1>8

(* A whole part of a number.                                                 *)
LEMMA RouteDivides ==
  ASSUME NEW x \in Int, NEW d \in Nat, d > 0
  PROVE  /\ x \div d \in Int /\ d * (x \div d) \in Int
         /\ d * (x \div d) <= x /\ x < d * (x \div d) + d
         /\ \A k \in Int : (d * k <= x => k <= x \div d) /\ (x < d * k => x \div d < k)
<1> DEFINE q == x \div d
<1>1. q \in Int /\ x = d * q + (x % d) /\ x % d \in 0..(d - 1)
  OBVIOUS
<1> HIDE DEF q
<1>2. d * q \in Int /\ d * q <= x /\ x < d * q + d
  <2>1. d * q \in Int
    BY <1>1
  <2> DEFINE y == d * q
             r == x % d
  <2>2. y \in Int /\ x = y + r /\ r \in 0..(d - 1)
    BY <1>1, <2>1
  <2> HIDE DEF y, r
  <2>3. y <= x /\ x < y + d
    BY <2>2
  <2> QED BY <2>1, <2>3 DEF y
<1>3. ASSUME NEW k \in Int PROVE (d * k <= x => k <= q) /\ (x < d * k => q < k)
  <2>1. d * k = k * d /\ d * q = q * d /\ (q + 1) * d = q * d + d /\ k * d \in Int /\ q * d \in Int
    BY <1>1
  <2>2. (k < q + 1 <=> k * d < (q + 1) * d) /\ (q < k <=> q * d < k * d)
    BY <1>1, ScanTimes
  <2> DEFINE kd == k * d
             qd == q * d
  <2>3. kd \in Int /\ qd \in Int /\ qd <= x /\ x < qd + d /\ (k < q + 1 <=> kd < qd + d) /\ (q < k <=> qd < kd)
        /\ d * k = kd
    BY <1>2, <2>1, <2>2
  <2> HIDE DEF kd, qd
  <2> QED BY <1>1, <2>3
<1> QED BY <1>1, <1>2, <1>3 DEF q

(* A lane is of the grid's cells.                                            *)
LEMMA RouteLaneIs ==
  ASSUME NEW ask, ask.lanes \subseteq RouteCells
  PROVE  RouteLane(ask) \subseteq RouteCells
BY RouteAroundIs DEF RouteLane

(* A costmap has a price for every cell the body may be in, and for no other.*)
LEMMA RouteMapIs ==
  ASSUME NEW ask, NEW inflate, NEW rim
  PROVE  /\ RouteMap(ask, inflate, rim) \in [RouteCells -> Nat]
         /\ \A c \in RouteCells : /\ RouteMap(ask, inflate, rim)[c] < RoutePrice
                                  /\ RouteMap(ask, inflate, rim)[c] > 0 <=> RouteOpen(ask, c, inflate, rim)
<1> DEFINE open == {c \in RouteCells : RouteOpen(ask, c, inflate, rim)}
           shut == RouteCells \ open
           base(c) == IF ask.grid[c] = "free" \/ RouteIsLane(ask, c) THEN RouteFree ELSE RouteDear
           room(c) == {d \in 1..RouteBand : \E x \in shut : RouteSteps[c][x] = d}
           least(c) == CHOOSE d \in room(c) : \A o \in room(c) : d <= o
           hug(c) == IF room(c) = {} THEN 0
                     ELSE (2 * RouteHug * (RouteBand - least(c) + 1) + RouteBand) \div (2 * RouteBand)
           map == [c \in RouteCells |-> IF c \in open THEN base(c) + hug(c) ELSE 0]
<1>1. RouteMap(ask, inflate, rim) = map
  <2>1. \A m : (CHOOSE x \in {m} : TRUE) = m
    OBVIOUS
  <2>2. RouteMap(ask, inflate, rim) = CHOOSE x \in {map} : TRUE
    BY DEF RouteMap
  <2> HIDE DEF map
  <2> QED BY <2>1, <2>2
<1>2. \A c : base(c) \in {RouteFree, RouteDear}
  OBVIOUS
<1>3. ASSUME NEW c PROVE hug(c) \in Nat /\ hug(c) <= RouteHug
  <2>1. CASE room(c) = {}
    BY <2>1, RouteSizes
  <2>2. CASE room(c) # {}
    <3>1. room(c) \subseteq Nat /\ room(c) \subseteq 1..RouteBand
      BY RouteSizes
    <3> DEFINE l == least(c)
               H == RouteHug
               B == RouteBand
    <3>2. l \in room(c)
      <4> DEFINE R == room(c)
      <4>1. Min(R) \in R /\ \A y \in R : Min(R) <= y
        BY <2>2, <3>1, LeastNatural
      <4> HIDE DEF R
      <4>2. \E d \in R : \A o \in R : d <= o
        BY <4>1
      <4>3. (CHOOSE d \in R : \A o \in R : d <= o) \in R
        BY <4>2
      <4> QED BY <4>3 DEF R
    <3>3. l \in 1..B /\ H \in Nat /\ B \in Nat
      BY <3>1, <3>2, RouteSizes
    <3>4. hug(c) = (2 * H * (B - l + 1) + B) \div (2 * B)
      BY <2>2
    <3> HIDE DEF l, H, B, hug, room, least
    <3> DEFINE k == B - l + 1
               x == H * k
               y == H * B
    <3>5. k \in 1..B /\ B > 0
      BY <3>3
    <3>6. x \in Nat /\ y \in Nat /\ x <= y
      <4> HIDE DEF k
      <4>1. x \in Int /\ y \in Int /\ k * H = x /\ B * H = y
        BY <3>3, <3>5
      <4>2. x >= 0 /\ y >= 0
        BY <3>3, <3>5
      <4>3. CASE H = 0
        BY <3>3, <3>5, <4>1, <4>3
      <4>4. CASE H > 0
        <5>1. k <= B <=> k * H <= B * H
          BY <3>3, <3>5, <4>4, ScanTimes
        <5> QED BY <3>3, <3>5, <4>1, <4>2, <5>1
      <4> QED BY <3>3, <4>1, <4>2, <4>3, <4>4
    <3>7. 2 * H * (B - l + 1) = 2 * x
      <4> HIDE DEF k
      <4>1. 2 * H * k = 2 * x
        BY <3>3, <3>5
      <4> QED BY <4>1 DEF k
    <3>8. (2 * B) * (H + 1) = 2 * y + 2 * B /\ (2 * B) * 0 = 0
      BY <3>3
    <3> DEFINE z == 2 * x + B
               d == 2 * B
    <3>9. z \in Nat /\ d \in Nat /\ d > 0 /\ z < d * (H + 1) /\ d * 0 <= z
      <4> HIDE DEF x, y, k
      <4> QED BY <3>3, <3>5, <3>6, <3>8
    <3>10. hug(c) = z \div d
      BY <3>4, <3>7
    <3> HIDE DEF x, y, z, d
    <3>11. z \div d \in Int /\ 0 <= z \div d /\ z \div d < H + 1
      BY <3>3, <3>9, RouteDivides
    <3>12. hug(c) \in Nat /\ hug(c) <= H
      BY <3>3, <3>10, <3>11
    <3> QED BY <3>12 DEF H
  <2> QED BY <2>1, <2>2
<1> HIDE DEF base, hug, room, least
<1>4. ASSUME NEW c \in RouteCells
      PROVE  base(c) + hug(c) \in Nat /\ base(c) + hug(c) < RoutePrice /\ base(c) + hug(c) > 0
  <2>1. base(c) \in {RouteFree, RouteDear} /\ hug(c) \in Nat /\ hug(c) <= RouteHug
    BY <1>2, <1>3
  <2> QED BY <2>1, RouteSizes DEF RoutePrice
<1>5. ASSUME NEW c \in RouteCells
      PROVE  map[c] \in Nat /\ map[c] < RoutePrice /\ (map[c] > 0 <=> RouteOpen(ask, c, inflate, rim))
  <2>1. CASE c \in open
    <3>1. map[c] = base(c) + hug(c) /\ RouteOpen(ask, c, inflate, rim)
      BY <2>1
    <3> HIDE DEF map, open
    <3> QED BY <1>4, <3>1
  <2>2. CASE c \notin open
    <3>1. map[c] = 0 /\ ~RouteOpen(ask, c, inflate, rim)
      BY <2>2
    <3> HIDE DEF map, open
    <3> QED BY <3>1, RouteSizes
  <2> QED BY <2>1, <2>2
<1>6. map \in [RouteCells -> Nat]
  BY <1>5
<1> HIDE DEF map
<1> QED BY <1>1, <1>5, <1>6

(* The costmaps there are: no cell at what no cell costs.                    *)
RouteMaps == {map \in [RouteCells -> Nat] : \A c \in RouteCells : map[c] < RoutePrice}

(* One start at most, a cell the body may be in.                             *)
LEMMA RouteStartIs ==
  ASSUME NEW map \in RouteMaps, NEW from \in RouteCells, NEW reaches \in [1..2 -> Nat]
  PROVE  /\ \A c \in RouteStart(map, from, reaches) : c \in RouteCells /\ map[c] > 0
         /\ \A c \in RouteStart(map, from, reaches) : c = CHOOSE o \in RouteStart(map, from, reaches) : TRUE
<1> DEFINE near(k) == RouteStarts(map, from, reaches[k])
           some == {k \in DOMAIN reaches : near(k) # {}}
           k0 == CHOOSE k \in some : \A o \in some : k <= o
           c0 == CHOOSE c \in near(k0) : \A o \in near(k0) :
              \/ RouteD2[c][from] < RouteD2[o][from]
              \/ RouteD2[c][from] = RouteD2[o][from] /\ (c <= o)
<1>1. RouteStart(map, from, reaches) = IF some = {} THEN {} ELSE {c0}
  BY DEF RouteStart
<1>2. CASE some = {}
  BY <1>1, <1>2
<1>3. CASE some # {}
  <2>1. k0 \in some
    <3>1. some \subseteq Nat
      OBVIOUS
    <3> HIDE DEF some
    <3>2. Min(some) \in some /\ \A y \in some : Min(some) <= y
      BY <1>3, <3>1, LeastNatural
    <3>3. \E k \in some : \A o \in some : k <= o
      BY <3>2
    <3> QED BY <3>3
  <2>2. near(k0) # {} /\ near(k0) \subseteq RouteCells /\ \A c \in near(k0) : map[c] > 0
    BY <2>1 DEF RouteStarts
  <2> HIDE DEF k0, near, some
  <2> DEFINE T == near(k0)
             f == [c \in RouteCells |-> RouteD2[c][from]]
  <2>3. T \subseteq Nat /\ \A c \in T : f[c] \in Nat
    BY <2>2, RouteD2Is, RouteCellsFinite
  <2>4. \E c \in T : \A o \in T : f[c] < f[o] \/ (f[c] = f[o] /\ c <= o)
    <3> HIDE DEF f, T
    <3>1. T # {}
      BY <2>2 DEF T
    <3> QED BY <2>3, <3>1, RouteFirstLeast
  <2>5. \E c \in near(k0) : \A o \in near(k0) : RouteD2[c][from] < RouteD2[o][from]
              \/ (RouteD2[c][from] = RouteD2[o][from] /\ c <= o)
    <3>1. \A c \in T : f[c] = RouteD2[c][from]
      BY <2>2
    <3> HIDE DEF f
    <3>2. PICK c \in T : \A o \in T : f[c] < f[o] \/ (f[c] = f[o] /\ c <= o)
      BY <2>4
    <3>3. \A o \in T : RouteD2[c][from] < RouteD2[o][from] \/ (RouteD2[c][from] = RouteD2[o][from] /\ c <= o)
      BY <3>1, <3>2
    <3> HIDE DEF T
    <3>4. \E d \in T : \A o \in T : RouteD2[d][from] < RouteD2[o][from] \/ (RouteD2[d][from] = RouteD2[o][from] /\ d <= o)
      BY <3>3
    <3> QED BY <3>4 DEF T
  <2>6. c0 \in near(k0)
    BY <2>5, Zenon
  <2> HIDE DEF c0
  <2>7. RouteStart(map, from, reaches) = {c0}
    BY <1>1, <1>3
  <2> QED BY <2>2, <2>6, <2>7
<1> QED BY <1>2, <1>3

(* What a search holds: the heap, and each cell's cost and where it is told  *)
(* from.                                                                     *)
RouteStates == [heap : SUBSET (Nat \X RouteCells), cost : [RouteCells -> Nat], from : [RouteCells -> RouteCells]]

(* A cell is settled once it was taken off the heap at what it costs.        *)
RouteSettled(s) == {c \in RouteCells : s.cost[c] < RouteEndless /\ <<s.cost[c], c>> \notin s.heap}

(* What Dijkstra's search keeps: nothing on the heap is cheaper than what is *)
(* settled, what is settled has told its neighbours, and every cell with a   *)
(* price has it from a settled one.                                          *)
RouteSound(map, start, s) ==
  /\ s \in RouteStates /\ IsFiniteSet(s.heap)
  /\ \A e \in s.heap : s.cost[e[2]] <= e[1] /\ e[1] < RouteEndless
  /\ \A c \in RouteSettled(s), e \in s.heap : s.cost[c] <= e[1]
  /\ \A c \in RouteSettled(s) : \A n \in RouteAround[c] : map[n] > 0 => s.cost[n] <= s.cost[c] + map[n]
  /\ s.cost[start] = 0
  /\ \A c \in RouteCells : s.cost[c] = RouteEndless \/ s.cost[c] <= Cardinality(RouteSettled(s)) * RoutePrice
  /\ \A c \in RouteCells \ {start} : s.cost[c] < RouteEndless =>
       /\ s.from[c] \in RouteSettled(s) /\ c \in RouteAround[s.from[c]] /\ map[c] > 0
       /\ s.cost[c] = s.cost[s.from[c]] + map[c]

(* What is on top of a heap is as cheap as anything on it.                   *)
LEMMA RouteTopIs ==
  ASSUME NEW heap \in SUBSET (Nat \X RouteCells), heap # {}
  PROVE  RouteTop(heap) \in heap /\ \A o \in heap : RouteTop(heap)[1] <= o[1]
<1> DEFINE V == {e[1] : e \in heap}
           m == Min(V)
           W == {e[2] : e \in {o \in heap : o[1] = m}}
           k == Min(W)
<1>1. V \subseteq Nat /\ V # {}
  OBVIOUS
<1>2. m \in V /\ \A y \in V : m <= y
  BY <1>1, LeastNatural
<1>3. \A e \in heap : e[1] \in Nat /\ e[2] \in Nat /\ m <= e[1]
  BY <1>2, RouteCellsFinite
<1>4. m \in Nat
  BY <1>1, <1>2
<1>5. W # {}
  BY <1>2
<1> HIDE DEF m
<1>6. W \subseteq Nat
  BY <1>3
<1>7. k \in W /\ \A y \in W : k <= y
  BY <1>5, <1>6, LeastNatural
<1> HIDE DEF k
<1>8. PICK e \in heap : e[1] = m /\ e[2] = k
  BY <1>7
<1>9. \A o \in heap : e[1] < o[1] \/ (e[1] = o[1] /\ e[2] <= o[2])
  <2> SUFFICES ASSUME NEW o \in heap PROVE e[1] < o[1] \/ (e[1] = o[1] /\ e[2] <= o[2])
    OBVIOUS
  <2>1. CASE o[1] = m
    <3>1. o[2] \in W
      BY <2>1
    <3> QED BY <1>7, <1>8, <2>1, <3>1
  <2>2. CASE o[1] # m
    BY <1>3, <1>4, <1>8, <2>2
  <2> QED BY <2>1, <2>2
<1>10. RouteTop(heap) \in heap /\ \A o \in heap : RouteTop(heap)[1] < o[1] \/ (RouteTop(heap)[1] = o[1] /\ RouteTop(heap)[2] <= o[2])
  BY <1>9, Zenon DEF RouteTop
<1> QED BY <1>3, <1>10

(* The settled cells are no more than the grid's.                            *)
LEMMA RouteSettledFinite ==
  ASSUME NEW s
  PROVE  /\ IsFiniteSet(RouteSettled(s)) /\ RouteSettled(s) \subseteq RouteCells
         /\ Cardinality(RouteSettled(s)) \in Nat /\ Cardinality(RouteSettled(s)) <= RouteCount
<1>1. RouteSettled(s) \subseteq RouteCells
  BY DEF RouteSettled
<1>2. IsFiniteSet(RouteSettled(s)) /\ Cardinality(RouteSettled(s)) <= RouteCount
  BY <1>1, RouteCellsFinite, FS_Subset
<1> QED BY <1>1, <1>2, FS_CardinalityType

(* An old entry taken off the heap changes nothing else.                     *)
LEMMA RouteForgets ==
  ASSUME NEW map \in RouteMaps, NEW start \in RouteCells, NEW s, RouteSound(map, start, s),
         NEW e \in s.heap, e[1] > s.cost[e[2]]
  PROVE  LET t == [s EXCEPT !.heap = @ \ {e}]
         IN  /\ RouteSound(map, start, t) /\ RouteSettled(t) = RouteSettled(s)
             /\ Cardinality(t.heap) = Cardinality(s.heap) - 1
<1> DEFINE t == [s EXCEPT !.heap = @ \ {e}]
<1>1. s \in RouteStates
  BY DEF RouteSound
<1>2. t.heap = s.heap \ {e} /\ t.cost = s.cost /\ t.from = s.from /\ t \in RouteStates
  BY <1>1 DEF RouteStates
<1> HIDE DEF t
<1>3. \A c \in RouteCells : <<s.cost[c], c>> # e
  <2> SUFFICES ASSUME NEW c \in RouteCells, <<s.cost[c], c>> = e PROVE FALSE
    OBVIOUS
  <2>1. e[1] = s.cost[c] /\ e[2] = c /\ s.cost[c] \in Nat
    BY <1>1 DEF RouteStates
  <2> QED BY <2>1
<1>4. RouteSettled(t) = RouteSettled(s)
  BY <1>2, <1>3 DEF RouteSettled
<1>5. IsFiniteSet(s.heap)
  BY DEF RouteSound
<1>6. IsFiniteSet(t.heap) /\ Cardinality(t.heap) = Cardinality(s.heap) - 1
  BY <1>2, <1>5, FS_RemoveElement
<1>7. t.heap \subseteq s.heap
  BY <1>2
<1>8. RouteSound(map, start, t)
  BY <1>2, <1>4, <1>6, <1>7 DEF RouteSound
<1> QED BY <1>4, <1>6, <1>8 DEF t

(* The cheapest on the heap, told to its neighbours, is settled.             *)
LEMMA RouteRelaxes ==
  ASSUME NEW map \in RouteMaps, NEW start \in RouteCells, NEW s, RouteSound(map, start, s),
         NEW e \in s.heap, \A o \in s.heap : e[1] <= o[1], ~(e[1] > s.cost[e[2]])
  PROVE  LET t == RouteRelaxed(map, s, e)
         IN  /\ RouteSound(map, start, t) /\ RouteSettled(t) = RouteSettled(s) \cup {e[2]} /\ e[2] \notin RouteSettled(s)
             /\ Cardinality(t.heap) <= Cardinality(s.heap) + 3
<1> DEFINE t == RouteRelaxed(map, s, e)
           x == e[2]
           k == e[1]
           better == {n \in RouteAround[x] : map[n] > 0 /\ k + map[n] < s.cost[n]}
           old == RouteSettled(s)
<1>1. /\ s \in RouteStates /\ IsFiniteSet(s.heap)
      /\ \A o \in s.heap : s.cost[o[2]] <= o[1] /\ o[1] < RouteEndless
      /\ \A c \in old, o \in s.heap : s.cost[c] <= o[1]
      /\ \A c \in old : \A n \in RouteAround[c] : map[n] > 0 => s.cost[n] <= s.cost[c] + map[n]
      /\ s.cost[start] = 0
      /\ \A c \in RouteCells : s.cost[c] = RouteEndless \/ s.cost[c] <= Cardinality(old) * RoutePrice
      /\ \A c \in RouteCells \ {start} : s.cost[c] < RouteEndless =>
           /\ s.from[c] \in old /\ c \in RouteAround[s.from[c]] /\ map[c] > 0
           /\ s.cost[c] = s.cost[s.from[c]] + map[c]
  BY DEF RouteSound
<1>2. s.heap \in SUBSET (Nat \X RouteCells) /\ s.cost \in [RouteCells -> Nat] /\ s.from \in [RouteCells -> RouteCells]
  BY <1>1 DEF RouteStates
<1>3. x \in RouteCells /\ k \in Nat /\ e = <<k, x>> /\ k = s.cost[x] /\ k < RouteEndless
  <2>1. e \in Nat \X RouteCells
    BY <1>2
  <2>2. x \in RouteCells /\ k \in Nat /\ e = <<k, x>>
    BY <2>1
  <2>3. s.cost[x] \in Nat /\ s.cost[x] <= k /\ k < RouteEndless
    BY <1>1, <1>2, <2>2
  <2> QED BY <2>2, <2>3
<1>4. better \subseteq RouteAround[x] /\ better \subseteq RouteCells /\ x \notin better
      /\ \A n \in RouteAround[x] : n \in RouteCells /\ n # x
  BY <1>3, RouteAroundIs
<1>5. \A c \in RouteCells : s.cost[c] \in Nat /\ map[c] \in Nat /\ map[c] < RoutePrice
  BY <1>2 DEF RouteMaps
<1>6. /\ t.heap = (s.heap \ {e}) \cup {<<k + map[n], n>> : n \in better}
      /\ t.cost = [n \in RouteCells |-> IF n \in better THEN k + map[n] ELSE s.cost[n]]
      /\ t.from = [n \in RouteCells |-> IF n \in better THEN x ELSE s.from[n]]
      /\ DOMAIN t = {"heap", "cost", "from"}
      /\ t = [heap |-> t.heap, cost |-> t.cost, from |-> t.from]
  BY DEF RouteRelaxed
<1>7. \A n \in better : n \in RouteCells /\ map[n] > 0 /\ k + map[n] < s.cost[n] /\ k + map[n] \in Nat
  BY <1>3, <1>4, <1>5
<1>18. \A n \in RouteAround[x] : map[n] > 0 => n \in better \/ s.cost[n] <= k + map[n]
  BY <1>3, <1>4, <1>5
<1> HIDE DEF t, better
<1>8. t \in RouteStates
  <2>1. {<<k + map[n], n>> : n \in better} \subseteq Nat \X RouteCells
    BY <1>7
  <2>2. t.heap \in SUBSET (Nat \X RouteCells)
    BY <1>2, <1>6, <2>1
  <2>3. t.cost \in [RouteCells -> Nat] /\ t.from \in [RouteCells -> RouteCells]
    BY <1>2, <1>3, <1>6, <1>7
  <2> QED BY <1>6, <2>2, <2>3 DEF RouteStates
<1> HIDE DEF x, k, old
<1>9. \A c \in old : c \in RouteCells /\ c \notin better /\ s.cost[c] <= k /\ s.cost[c] < RouteEndless /\ c # x
  <2> SUFFICES ASSUME NEW c \in old PROVE c \in RouteCells /\ c \notin better /\ s.cost[c] <= k /\ s.cost[c] < RouteEndless /\ c # x
    OBVIOUS
  <2>1. c \in RouteCells /\ s.cost[c] < RouteEndless /\ <<s.cost[c], c>> \notin s.heap
    BY DEF old, RouteSettled
  <2>2. c # x
    BY <1>3, <2>1
  <2>3. s.cost[c] <= k
    BY <1>1 DEF k
  <2>4. c \notin better
    BY <1>3, <1>5, <1>7, <2>1, <2>3
  <2> QED BY <2>1, <2>2, <2>3, <2>4
<1>10. x \notin old
  BY <1>9
<1>11. /\ \A n \in better : t.cost[n] = k + map[n] /\ t.from[n] = x
       /\ \A n \in RouteCells \ better : t.cost[n] = s.cost[n] /\ t.from[n] = s.from[n]
  BY <1>6, <1>7
<1>12. \A n \in RouteCells : t.cost[n] <= s.cost[n] /\ t.cost[n] \in Nat
  BY <1>5, <1>7, <1>11
<1>13. RouteSettled(t) = old \cup {x}
  <2> SUFFICES ASSUME NEW c \in RouteCells
               PROVE  (t.cost[c] < RouteEndless /\ <<t.cost[c], c>> \notin t.heap) <=> (c \in old \/ c = x)
    BY <1>3, <1>9 DEF RouteSettled
  <2>1. CASE c \in better
    <3>1. <<t.cost[c], c>> \in t.heap
      BY <1>6, <1>11, <2>1
    <3> QED BY <1>4, <1>9, <2>1, <3>1
  <2>2. CASE c \notin better
    <3>1. t.cost[c] = s.cost[c]
      BY <1>11, <2>2
    <3>2. <<s.cost[c], c>> \in t.heap <=> <<s.cost[c], c>> \in s.heap /\ <<s.cost[c], c>> # e
      BY <1>6, <2>2
    <3>3. <<s.cost[c], c>> # e <=> c # x
      BY <1>3
    <3>4. c \in old <=> s.cost[c] < RouteEndless /\ <<s.cost[c], c>> \notin s.heap
      BY DEF old, RouteSettled
    <3> QED BY <1>3, <1>10, <3>1, <3>2, <3>3, <3>4
  <2> QED BY <2>1, <2>2
<1>14. IsFiniteSet(t.heap) /\ Cardinality(t.heap) <= Cardinality(s.heap) + 3
  <2> DEFINE new == {<<k + map[n], n>> : n \in better}
  <2>1. IsFiniteSet(better) /\ Cardinality(better) \in Nat /\ Cardinality(better) <= 4
    BY <1>3, <1>4, RouteFour
  <2>2. IsFiniteSet(new) /\ Cardinality(new) <= Cardinality(better)
    <3> DEFINE f == [n \in better |-> <<k + map[n], n>>]
    <3>1. f \in Surjection(better, new)
      BY DEF Surjection
    <3> HIDE DEF f, new
    <3> QED BY <2>1, <3>1, FS_Surjection
  <2> HIDE DEF new
  <2>3. IsFiniteSet(s.heap \ {e}) /\ Cardinality(s.heap \ {e}) = Cardinality(s.heap) - 1
    BY <1>1, FS_RemoveElement
  <2>4. t.heap = (s.heap \ {e}) \cup new
    BY <1>6 DEF new
  <2> DEFINE rest == s.heap \ {e}
  <2>5. IsFiniteSet(rest \cup new) /\ Cardinality(rest \cup new) = Cardinality(rest) + Cardinality(new) - Cardinality(rest \cap new)
    <3> HIDE DEF rest
    <3> QED BY <2>2, <2>3, FS_Union DEF rest
  <2>6. Cardinality(rest \cap new) \in Nat
    <3>1. IsFiniteSet(rest \cap new)
      BY <2>2, FS_Intersection
    <3> QED BY <3>1, FS_CardinalityType
  <2>7. Cardinality(rest) \in Nat /\ Cardinality(new) \in Nat /\ Cardinality(s.heap) \in Nat
    BY <1>1, <2>2, <2>3, FS_CardinalityType
  <2> QED BY <2>1, <2>2, <2>3, <2>4, <2>5, <2>6, <2>7
<1>15. \A o \in t.heap : t.cost[o[2]] <= o[1] /\ o[1] < RouteEndless /\ o[1] >= k
  <2> SUFFICES ASSUME NEW o \in t.heap PROVE t.cost[o[2]] <= o[1] /\ o[1] < RouteEndless /\ o[1] >= k
    OBVIOUS
  <2>1. CASE o \in s.heap
    <3>1. o[2] \in RouteCells /\ o[1] \in Nat
      BY <1>2, <2>1
    <3>2. s.cost[o[2]] <= o[1] /\ o[1] < RouteEndless /\ o[1] >= k
      BY <1>1, <1>3, <2>1, <3>1 DEF k
    <3> QED BY <1>5, <1>12, <3>1, <3>2
  <2>2. CASE o \notin s.heap
    <3>1. PICK n \in better : o = <<k + map[n], n>>
      BY <1>6, <2>2
    <3>2. o[1] = k + map[n] /\ o[2] = n /\ t.cost[n] = k + map[n] /\ k + map[n] \in Nat /\ map[n] \in Nat
      BY <1>5, <1>7, <1>11, <3>1
    <3>3. k + map[n] < s.cost[n] /\ s.cost[n] \in Nat
      BY <1>5, <1>7
    <3>4. s.cost[n] <= RouteEndless
      <4>1. Cardinality(old) * RoutePrice <= RouteCount * RoutePrice /\ Cardinality(old) * RoutePrice \in Int
        <5> DEFINE K == Cardinality(old)
        <5>1. K \in Nat /\ K <= RouteCount
          BY RouteSettledFinite DEF old
        <5> HIDE DEF K
        <5>2. K * RoutePrice <= RouteCount * RoutePrice /\ K * RoutePrice \in Int
          BY <5>1, RouteSizes, ScanTimes
        <5> QED BY <5>2 DEF K
      <4> QED BY <1>1, <1>5, <1>7, <4>1, RouteEndlessIs, RouteSizes
    <3> QED BY <1>3, <3>2, <3>3, <3>4, RouteEndlessIs
  <2> QED BY <2>1, <2>2
<1>16. Cardinality(RouteSettled(t)) = Cardinality(old) + 1 /\ Cardinality(old) \in Nat
  <2>1. IsFiniteSet(old) /\ Cardinality(old) \in Nat
    BY RouteSettledFinite DEF old
  <2> QED BY <1>10, <1>13, <2>1, FS_AddElement
<1>17. \A c \in RouteCells : t.cost[c] = RouteEndless \/ t.cost[c] <= Cardinality(RouteSettled(t)) * RoutePrice
  <2> SUFFICES ASSUME NEW c \in RouteCells PROVE t.cost[c] = RouteEndless \/ t.cost[c] <= Cardinality(RouteSettled(t)) * RoutePrice
    OBVIOUS
  <2> DEFINE K == Cardinality(old)
             kP == K * RoutePrice
  <2>1. (K + 1) * RoutePrice = kP + RoutePrice /\ kP \in Nat
    BY <1>16, RouteSizes
  <2>2. Cardinality(RouteSettled(t)) * RoutePrice = kP + RoutePrice
    BY <1>16, <2>1
  <2>3. \A n \in RouteCells : s.cost[n] = RouteEndless \/ s.cost[n] <= kP
    BY <1>1
  <2> HIDE DEF kP, K
  <2>4. CASE c \in better
    <3>1. t.cost[c] = k + map[c] /\ k <= kP /\ map[c] < RoutePrice /\ map[c] \in Nat
      BY <1>3, <1>5, <1>11, <2>3, <2>4
    <3> QED BY <1>3, <2>1, <2>2, <3>1, RouteSizes
  <2>5. CASE c \notin better
    BY <1>5, <1>11, <2>1, <2>2, <2>3, <2>5, RouteSizes
  <2> QED BY <2>4, <2>5
<1>19. \A c \in RouteSettled(t) : t.cost[c] = s.cost[c] /\ t.cost[c] <= k /\ c \in RouteCells
  BY <1>3, <1>4, <1>9, <1>11, <1>13
<1>20. \A c \in RouteSettled(t), o \in t.heap : t.cost[c] <= o[1]
  <2>1. \A o \in t.heap : o[1] \in Nat
    BY <1>8 DEF RouteStates
  <2>2. \A c \in RouteSettled(t) : t.cost[c] \in Nat
    BY <1>5, <1>19
  <2> QED BY <1>3, <1>15, <1>19, <2>1, <2>2
<1>21. ASSUME NEW c \in RouteSettled(t), NEW n \in RouteAround[c], map[n] > 0 PROVE t.cost[n] <= t.cost[c] + map[n]
  <2>1. n \in RouteCells
    BY <1>19, RouteAroundIs
  <2>2. CASE c \in old
    <3>1. s.cost[n] <= s.cost[c] + map[n]
      BY <1>1, <1>21, <2>2
    <3> QED BY <1>5, <1>12, <1>19, <2>1, <3>1
  <2>3. CASE c = x
    BY <1>3, <1>5, <1>11, <1>18, <1>19, <1>21, <2>1, <2>3
  <2> QED BY <1>13, <2>2, <2>3
<1>22. t.cost[start] = 0
  <2>1. start \notin better
    BY <1>1, <1>3, <1>5, <1>7
  <2> QED BY <1>1, <1>11, <2>1
<1>23. ASSUME NEW c \in RouteCells \ {start}, t.cost[c] < RouteEndless
       PROVE  /\ t.from[c] \in RouteSettled(t) /\ c \in RouteAround[t.from[c]] /\ map[c] > 0
              /\ t.cost[c] = t.cost[t.from[c]] + map[c]
  <2>1. CASE c \in better
    <3>1. t.from[c] = x /\ t.cost[c] = k + map[c] /\ map[c] > 0 /\ c \in RouteAround[x]
      BY <1>4, <1>7, <1>11, <2>1
    <3>2. x \in RouteSettled(t) /\ t.cost[x] = k
      BY <1>3, <1>13, <1>19
    <3> QED BY <3>1, <3>2
  <2>2. CASE c \notin better
    <3>1. t.from[c] = s.from[c] /\ t.cost[c] = s.cost[c]
      BY <1>11, <2>2
    <3>2. s.from[c] \in old /\ c \in RouteAround[s.from[c]] /\ map[c] > 0 /\ s.cost[c] = s.cost[s.from[c]] + map[c]
      BY <1>1, <1>23, <3>1
    <3>3. t.from[c] \in RouteSettled(t) /\ t.cost[s.from[c]] = s.cost[s.from[c]]
      BY <1>13, <1>19, <3>1, <3>2
    <3> QED BY <3>1, <3>2, <3>3
  <2> QED BY <2>1, <2>2
<1>24. RouteSound(map, start, t)
  BY <1>8, <1>14, <1>15, <1>17, <1>20, <1>21, <1>22, <1>23 DEF RouteSound
<1> QED BY <1>10, <1>13, <1>14, <1>24 DEF t, old, x

(* The search is over: nothing left, or what it was for is on top.           *)
RouteIdle(end, s) == s.heap = {} \/ RouteTop(s.heap)[2] = end

(* How much is left at most.                                                 *)
RouteLeft(s) == 4 * (RouteCount - Cardinality(RouteSettled(s))) + Cardinality(s.heap)

(* While anything is on the heap, pops are left.                             *)
LEMMA RouteLeftIs ==
  ASSUME NEW map, NEW start, NEW s, RouteSound(map, start, s)
  PROVE  RouteLeft(s) \in Nat /\ (RouteLeft(s) = 0 => s.heap = {}) /\ Cardinality(s.heap) \in Nat
<1>1. IsFiniteSet(s.heap)
  BY DEF RouteSound
<1>2. Cardinality(s.heap) \in Nat /\ (Cardinality(s.heap) = 0 => s.heap = {})
  BY <1>1, FS_CardinalityType, FS_EmptySet
<1>3. Cardinality(RouteSettled(s)) \in Nat /\ Cardinality(RouteSettled(s)) <= RouteCount
  BY RouteSettledFinite
<1> QED BY <1>2, <1>3, RouteSizes DEF RouteLeft

(* A turn of the search keeps what it keeps, and is one turn nearer its end. *)
LEMMA RoutePoppedIs ==
  ASSUME NEW map \in RouteMaps, NEW start \in RouteCells, NEW end, NEW s, RouteSound(map, start, s)
  PROVE  LET t == RoutePopped(map, end, s)
         IN  /\ RouteSound(map, start, t)
             /\ end \notin RouteSettled(s) => end \notin RouteSettled(t)
             /\ RouteIdle(end, s) => t = s
             /\ ~RouteIdle(end, s) => RouteLeft(t) <= RouteLeft(s) - 1
<1> DEFINE t == RoutePopped(map, end, s)
           e == RouteTop(s.heap)
           next(o) == IF o[2] = end THEN s
                      ELSE IF o[1] > s.cost[o[2]] THEN [s EXCEPT !.heap = @ \ {o}] ELSE RouteRelaxed(map, s, o)
<1>1. t = IF s.heap = {} THEN s ELSE next(e)
  <2>1. t = IF s.heap = {} THEN s ELSE CHOOSE v \in {next(o) : o \in {e}} : TRUE
    BY DEF RoutePopped
  <2> HIDE DEF next, e, t
  <2>2. {next(o) : o \in {e}} = {next(e)}
    OBVIOUS
  <2>3. (CHOOSE v \in {next(e)} : TRUE) = next(e)
    OBVIOUS
  <2> QED BY <2>1, <2>2, <2>3
<1> HIDE DEF t
<1>2. CASE RouteIdle(end, s)
  <2>1. t = s
    BY <1>1, <1>2 DEF RouteIdle
  <2> QED BY <1>2, <2>1 DEF t
<1>3. CASE ~RouteIdle(end, s)
  <2>1. s.heap # {} /\ e[2] # end
    BY <1>3 DEF RouteIdle
  <2>2. s \in RouteStates /\ s.heap \in SUBSET (Nat \X RouteCells)
    BY DEF RouteSound, RouteStates
  <2>3. e \in s.heap /\ \A o \in s.heap : e[1] <= o[1]
    BY <2>1, <2>2, RouteTopIs
  <2> HIDE DEF e
  <2>4. Cardinality(s.heap) \in Nat /\ Cardinality(RouteSettled(s)) \in Nat /\ Cardinality(RouteSettled(s)) <= RouteCount
    BY RouteLeftIs, RouteSettledFinite
  <2>5. CASE e[1] > s.cost[e[2]]
    <3>1. t = [s EXCEPT !.heap = @ \ {e}]
      BY <1>1, <2>1, <2>5
    <3>2. /\ RouteSound(map, start, t) /\ RouteSettled(t) = RouteSettled(s)
          /\ Cardinality(t.heap) = Cardinality(s.heap) - 1
      BY <2>3, <2>5, <3>1, RouteForgets
    <3>3. RouteLeft(t) <= RouteLeft(s) - 1
      BY <2>4, <3>2, RouteSizes DEF RouteLeft
    <3> QED BY <1>3, <3>2, <3>3 DEF t
  <2>6. CASE ~(e[1] > s.cost[e[2]])
    <3>1. t = RouteRelaxed(map, s, e)
      BY <1>1, <2>1, <2>6
    <3>2. /\ RouteSound(map, start, t) /\ RouteSettled(t) = RouteSettled(s) \cup {e[2]} /\ e[2] \notin RouteSettled(s)
          /\ Cardinality(t.heap) <= Cardinality(s.heap) + 3
      BY <2>3, <2>6, <3>1, RouteRelaxes
    <3>3. Cardinality(RouteSettled(t)) = Cardinality(RouteSettled(s)) + 1
      BY <3>2, RouteSettledFinite, FS_AddElement
    <3>4. Cardinality(t.heap) \in Nat /\ Cardinality(RouteSettled(t)) <= RouteCount
      BY <3>2, RouteLeftIs, RouteSettledFinite
    <3>5. RouteLeft(t) <= RouteLeft(s) - 1
      BY <2>4, <3>2, <3>3, <3>4, RouteSizes DEF RouteLeft
    <3> QED BY <1>3, <2>1, <3>2, <3>5 DEF t
  <2> QED BY <2>5, <2>6
<1> QED BY <1>2, <1>3

(* A search that has popped nothing.                                         *)
RouteAtFirst(start) ==
  [heap |-> {<<0, start>>},
   cost |-> [c \in RouteCells |-> IF c = start THEN 0 ELSE RouteEndless],
   from |-> [c \in RouteCells |-> c]]

(* The search starts sound, with all its pops left.                          *)
LEMMA RouteFirstIs ==
  ASSUME NEW map \in RouteMaps, NEW start \in RouteCells
  PROVE  LET s == RouteAtFirst(start)
         IN  RouteSound(map, start, s) /\ RouteSettled(s) = {} /\ RouteLeft(s) = 4 * RouteCount + 1
<1> DEFINE s == RouteAtFirst(start)
<1>1. /\ s.heap = {<<0, start>>} /\ s.cost = [c \in RouteCells |-> IF c = start THEN 0 ELSE RouteEndless]
      /\ s.from = [c \in RouteCells |-> c] /\ s \in RouteStates
  BY RouteEndlessIs DEF RouteAtFirst, RouteStates
<1> HIDE DEF s
<1>2. RouteSettled(s) = {}
  BY <1>1, RouteEndlessIs DEF RouteSettled
<1>3. IsFiniteSet(s.heap) /\ Cardinality(s.heap) = 1
  BY <1>1, FS_Singleton
<1>4. Cardinality(RouteSettled(s)) = 0
  BY <1>2, FS_EmptySet
<1>5. \A e \in s.heap : s.cost[e[2]] <= e[1] /\ e[1] < RouteEndless
  <2>1. 0 < RouteEndless
    BY RouteEndlessIs, RouteSizes
  <2> QED BY <1>1, <2>1
<1>6. s.cost[start] = 0
  BY <1>1
<1>7. \A c \in RouteCells \ {start} : s.cost[c] = RouteEndless
  BY <1>1
<1>8. \A c \in RouteCells : s.cost[c] = RouteEndless \/ s.cost[c] <= Cardinality(RouteSettled(s)) * RoutePrice
  BY <1>4, <1>6, <1>7, RouteSizes
<1>9. RouteSound(map, start, s)
  BY <1>1, <1>2, <1>3, <1>5, <1>6, <1>7, <1>8, RouteEndlessIs DEF RouteSound
<1>10. RouteLeft(s) = 4 * RouteCount + 1
  BY <1>3, <1>4, RouteSizes DEF RouteLeft
<1> QED BY <1>2, <1>9, <1>10 DEF s

(* The search ends, with what it keeps; what it was for is not gone beyond.  *)
LEMMA RouteSearchIs ==
  ASSUME NEW map \in RouteMaps, NEW start \in RouteCells, NEW end
  PROVE  LET s == RouteSearched(map, start, end)
         IN  RouteSound(map, start, s) /\ end \notin RouteSettled(s) /\ RouteIdle(end, s)
<1> DEFINE L == RoutePops
           a == RouteAtFirst(start)
           next(s) == RoutePopped(map, end, s)
           is(f) == f = [n \in 0..L |-> IF n = 0 THEN a ELSE CHOOSE t \in {RoutePopped(map, end, s) : s \in {f[n - 1]}} : TRUE]
           k == CHOOSE f : is(f)
           S == {s \in RouteStates : RouteSound(map, start, s)}
<1>1. L \in Nat /\ L = 4 * RouteCount + 1
  BY RouteSizes DEF RoutePops
<1>2. RouteSearched(map, start, end) = k[L]
  BY DEF RouteSearched, RouteAtFirst
<1>3. ASSUME NEW v PROVE (CHOOSE t \in {RoutePopped(map, end, s) : s \in {v}} : TRUE) = next(v)
  OBVIOUS
<1>4. \A f : is(f) <=> f = [n \in 0..L |-> IF n = 0 THEN a ELSE next(f[n - 1])]
  <2> HIDE DEF next
  <2> QED BY <1>3
<1>5. ASSUME NEW s \in S PROVE next(s) \in S
  <2>1. RouteSound(map, start, s)
    OBVIOUS
  <2>2. RouteSound(map, start, next(s))
    BY <2>1, RoutePoppedIs
  <2> QED BY <2>2 DEF RouteSound
<1>6. a \in S
  <2>1. RouteSound(map, start, a)
    BY RouteFirstIs
  <2> QED BY <2>1 DEF RouteSound
<1> HIDE DEF is, next, L
<1> DEFINE G == [n \in 1..L |-> [v \in S |-> next(v)]]
<1>7. G \in [1..L -> [S -> S]] /\ \A n \in 1..L : \A v \in S : G[n][v] = next(v)
  BY <1>5
<1> HIDE DEF G
<1>8. PICK h \in [0..L -> S] : ScanGoes(L, a, G, h)
  <2> HIDE DEF S, a
  <2> QED BY <1>1, <1>6, <1>7, ScanIterates
<1> HIDE DEF S, a
<1>9. ASSUME NEW n \in 0..L PROVE h[n] = IF n = 0 THEN a ELSE next(h[n - 1])
  <2>1. CASE n = 0
    BY <1>8, <2>1 DEF ScanGoes
  <2>2. CASE n # 0
    <3>1. n \in 1..L /\ n - 1 \in 0..L
      BY <1>1, <2>2
    <3> QED BY <1>7, <1>8, <2>2, <3>1 DEF ScanGoes
  <2> QED BY <2>1, <2>2
<1>10. is(h)
  BY <1>4, <1>9
<1>11. is(k)
  BY <1>10, Zenon
<1> HIDE DEF k
<1>12. k[0] = a /\ \A n \in 1..L : k[n] = next(k[n - 1])
  <2>1. k = [n \in 0..L |-> IF n = 0 THEN a ELSE next(k[n - 1])]
    BY <1>4, <1>11, Zenon
  <2> QED BY <1>1, <2>1
<1> DEFINE good(n) == /\ RouteSound(map, start, k[n]) /\ end \notin RouteSettled(k[n])
                      /\ RouteIdle(end, k[n]) \/ RouteLeft(k[n]) <= L - n
           T == {n \in 0..L : good(n)}
<1>13. 0 \in T
  <2>1. RouteSound(map, start, a) /\ RouteSettled(a) = {} /\ RouteLeft(a) = 4 * RouteCount + 1
    BY RouteFirstIs DEF a
  <2> QED BY <1>1, <1>12, <2>1
<1>14. ASSUME NEW n \in 1..L, n - 1 \in T PROVE n \in T
  <2> DEFINE s == k[n - 1]
             t == k[n]
  <2>1. RouteSound(map, start, s) /\ end \notin RouteSettled(s) /\ (RouteIdle(end, s) \/ RouteLeft(s) <= L - (n - 1))
    BY <1>14
  <2>2. t = RoutePopped(map, end, s)
    BY <1>12 DEF next
  <2> HIDE DEF s, t
  <2>3. /\ RouteSound(map, start, t) /\ end \notin RouteSettled(t) /\ (RouteIdle(end, s) => t = s)
        /\ (~RouteIdle(end, s) => RouteLeft(t) <= RouteLeft(s) - 1)
    BY <2>1, <2>2, RoutePoppedIs
  <2>4. RouteLeft(s) \in Nat /\ RouteLeft(t) \in Nat
    BY <2>1, <2>3, RouteLeftIs
  <2>5. RouteIdle(end, t) \/ RouteLeft(t) <= L - n
    BY <1>1, <2>1, <2>3, <2>4
  <2>6. good(n)
    BY <2>3, <2>5 DEF t
  <2> QED BY <2>6
<1>15. L \in T
  <2> HIDE DEF T
  <2>1. \A n \in 0..L : n \in T
    BY <1>1, <1>13, <1>14, ScanCounts
  <2> QED BY <1>1, <2>1
<1>16. RouteSound(map, start, k[L]) /\ end \notin RouteSettled(k[L])
  BY <1>15
<1>17. RouteIdle(end, k[L])
  <2>1. RouteLeft(k[L]) <= 0 => RouteIdle(end, k[L])
    BY <1>16, RouteLeftIs DEF RouteIdle
  <2> QED BY <1>1, <1>15, <2>1
<1> QED BY <1>2, <1>16, <1>17

(* No cell costs more than what is endless.                                  *)
LEMMA RouteCosts ==
  ASSUME NEW map, NEW start, NEW s, RouteSound(map, start, s), NEW c \in RouteCells
  PROVE  s.cost[c] \in Nat /\ s.cost[c] <= RouteEndless
         /\ (s.cost[c] < RouteEndless => s.cost[c] <= RouteCount * RoutePrice)
<1> DEFINE K == Cardinality(RouteSettled(s))
<1>1. K \in Nat /\ K <= RouteCount
  BY RouteSettledFinite
<1>2. s.cost[c] \in Nat /\ (s.cost[c] = RouteEndless \/ s.cost[c] <= K * RoutePrice)
  BY DEF RouteSound, RouteStates
<1> HIDE DEF K
<1>3. K * RoutePrice <= RouteCount * RoutePrice /\ K * RoutePrice \in Int
  BY <1>1, RouteSizes, ScanTimes
<1> QED BY <1>2, <1>3, RouteEndlessIs, RouteSizes

(* Of two searches from one start, what the one knows to cost less than      *)
(* anything the other still has to look at, the other knows too.             *)
LEMMA RouteKnows ==
  ASSUME NEW map \in RouteMaps, NEW start \in RouteCells, NEW f, RouteSound(map, start, f),
         NEW g, RouteSound(map, start, g), NEW k \in Nat, k <= RouteEndless, \A e \in g.heap : k <= e[1],
         NEW c \in RouteCells, f.cost[c] < k
  PROVE  g.cost[c] <= f.cost[c]
<1> DEFINE B == {x \in RouteCells : f.cost[x] < k /\ ~(g.cost[x] <= f.cost[x])}
           cost == f.cost
<1>1. SUFFICES ASSUME B # {} PROVE FALSE
  OBVIOUS
<1>2. \A x \in RouteCells : f.cost[x] \in Nat /\ g.cost[x] \in Nat /\ map[x] \in Nat
  BY RouteCosts DEF RouteMaps
<1>3. PICK x \in B : \A o \in B : cost[x] < cost[o] \/ (cost[x] = cost[o] /\ x <= o)
  <2>1. B \subseteq Nat /\ \A o \in B : cost[o] \in Nat
    BY <1>2, RouteCellsFinite
  <2> HIDE DEF B, cost
  <2> QED BY <1>1, <2>1, RouteFirstLeast
<1>4. x \in RouteCells /\ f.cost[x] < k /\ ~(g.cost[x] <= f.cost[x]) /\ x # start
  BY DEF RouteSound
<1> DEFINE p == f.from[x]
<1>5. p \in RouteSettled(f) /\ x \in RouteAround[p] /\ map[x] > 0 /\ f.cost[x] = f.cost[p] + map[x]
  BY <1>2, <1>4, RouteEndlessIs DEF RouteSound
<1> HIDE DEF p
<1>6. p \in RouteCells
  BY <1>5, RouteSettledFinite
<1>7. f.cost[p] < f.cost[x] /\ f.cost[p] < k
  BY <1>2, <1>4, <1>5, <1>6
<1>8. g.cost[p] <= f.cost[p]
  <2>1. p \notin B
    BY <1>2, <1>3, <1>4, <1>6, <1>7
  <2> QED BY <1>6, <1>7, <2>1
<1>9. p \in RouteSettled(g)
  <2>1. g.cost[p] < k /\ g.cost[p] < RouteEndless
    BY <1>2, <1>6, <1>7, <1>8, RouteEndlessIs
  <2>2. <<g.cost[p], p>> \notin g.heap
    BY <1>2, <1>6, <2>1
  <2> QED BY <1>6, <2>1, <2>2 DEF RouteSettled
<1>10. g.cost[x] <= g.cost[p] + map[x]
  BY <1>5, <1>9 DEF RouteSound
<1> QED BY <1>2, <1>4, <1>5, <1>6, <1>8, <1>10

(* A search for no cell leaves nothing on the heap.                          *)
LEMMA RouteFullIs ==
  ASSUME NEW map \in RouteMaps, NEW start \in RouteCells
  PROVE  RouteSound(map, start, RouteSearched(map, start, 0)) /\ RouteSearched(map, start, 0).heap = {}
<1> DEFINE s == RouteSearched(map, start, 0)
<1>1. RouteSound(map, start, s) /\ RouteIdle(0, s)
  BY RouteSearchIs
<1> HIDE DEF s
<1>2. s.heap \in SUBSET (Nat \X RouteCells)
  BY <1>1 DEF RouteSound, RouteStates
<1>3. s.heap # {} => RouteTop(s.heap)[2] \in RouteCells
  BY <1>2, RouteTopIs
<1>4. 0 \notin RouteCells
  BY RouteSizes DEF RouteCells
<1>5. s.heap = {}
  BY <1>1, <1>3, <1>4 DEF RouteIdle
<1> QED BY <1>1, <1>5 DEF s

(* A search for a cell says of it what the search of all cells says.         *)
LEMMA RouteAgrees ==
  ASSUME NEW map \in RouteMaps, NEW start \in RouteCells, NEW end \in RouteCells
  PROVE  RouteSearched(map, start, end).cost[end] = RouteSearched(map, start, 0).cost[end]
<1> DEFINE f == RouteSearched(map, start, 0)
           g == RouteSearched(map, start, end)
<1>1. RouteSound(map, start, f) /\ f.heap = {}
  BY RouteFullIs
<1>2. RouteSound(map, start, g) /\ end \notin RouteSettled(g) /\ RouteIdle(end, g)
  BY RouteSearchIs
<1> HIDE DEF f, g
<1>3. f.cost[end] \in Nat /\ g.cost[end] \in Nat /\ f.cost[end] <= RouteEndless /\ g.cost[end] <= RouteEndless
  BY <1>1, <1>2, RouteCosts
<1>4. f.cost[end] <= g.cost[end]
  <2>1. \A e \in f.heap : RouteEndless <= e[1]
    BY <1>1
  <2>2. RouteEndless \in Nat /\ RouteEndless <= RouteEndless
    BY RouteEndlessIs
  <2>3. g.cost[end] < RouteEndless => f.cost[end] <= g.cost[end]
    BY <1>1, <1>2, <2>1, <2>2, RouteKnows
  <2> QED BY <1>3, <2>2, <2>3
<1>5. g.cost[end] <= f.cost[end]
  <2>1. CASE g.heap = {}
    <3>1. \A e \in g.heap : RouteEndless <= e[1]
      BY <2>1
    <3>2. RouteEndless \in Nat /\ RouteEndless <= RouteEndless
      BY RouteEndlessIs
    <3>3. f.cost[end] < RouteEndless => g.cost[end] <= f.cost[end]
      BY <1>1, <1>2, <3>1, <3>2, RouteKnows
    <3> QED BY <1>3, <3>2, <3>3
  <2>2. CASE g.heap # {}
    <3> DEFINE e == RouteTop(g.heap)
               k == e[1]
    <3>1. g.heap \in SUBSET (Nat \X RouteCells)
      BY <1>2 DEF RouteSound, RouteStates
    <3>2. e \in g.heap /\ \A o \in g.heap : k <= o[1]
      BY <2>2, <3>1, RouteTopIs
    <3>3. e[2] = end
      BY <1>2, <2>2 DEF RouteIdle
    <3> HIDE DEF e
    <3>4. k \in Nat /\ g.cost[end] <= k /\ k < RouteEndless
      BY <1>2, <3>1, <3>2, <3>3 DEF RouteSound
    <3>5. <<g.cost[end], end>> \in g.heap
      BY <1>2, <1>3, <3>4, RouteEndlessIs DEF RouteSettled
    <3>6. k = g.cost[end]
      BY <1>3, <3>2, <3>4, <3>5
    <3>7. f.cost[end] < k => g.cost[end] <= f.cost[end]
      BY <1>1, <1>2, <3>2, <3>4, RouteEndlessIs, RouteKnows
    <3> QED BY <1>3, <3>4, <3>6, <3>7
  <2> QED BY <2>1, <2>2
<1>6. f.cost[end] = g.cost[end]
  BY <1>3, <1>4, <1>5
<1> QED BY <1>6 DEF f, g

(* What the search of all cells says is certified.                           *)
LEMMA RouteCertifies ==
  ASSUME NEW map \in RouteMaps, NEW start \in RouteCells
  PROVE  RouteCertified(map, start, RouteSearched(map, start, 0).cost)
<1> DEFINE s == RouteSearched(map, start, 0)
           cost == s.cost
<1>1. RouteSound(map, start, s) /\ s.heap = {}
  BY RouteFullIs
<1> HIDE DEF s
<1>2. \A x \in RouteCells : cost[x] \in Nat /\ cost[x] <= RouteEndless /\ map[x] \in Nat /\ map[x] < RoutePrice
      /\ (cost[x] < RouteEndless => cost[x] <= RouteCount * RoutePrice)
  BY <1>1, RouteCosts DEF RouteMaps
<1>3. cost[start] = 0
  BY <1>1 DEF RouteSound
<1>4. ASSUME NEW c \in RouteCells \ {start}
      PROVE cost[c] = IF map[c] = 0 \/ \A n \in RouteAround[c] : cost[n] = RouteEndless THEN RouteEndless
                 ELSE map[c] + (CHOOSE k \in {cost[n] : n \in RouteAround[c]} :
                                  \A n \in RouteAround[c] : k <= cost[n])
  <2> DEFINE p == s.from[c]
             N == RouteAround[c]
  <2>0. \A n \in N : n \in RouteCells /\ c \in RouteAround[n]
    BY RouteAroundIs
  <2>1. cost[c] < RouteEndless => p \in RouteCells /\ p \in N /\ map[c] > 0 /\ cost[c] = cost[p] + map[c] /\ cost[p] < RouteEndless
    <3> SUFFICES ASSUME cost[c] < RouteEndless
                 PROVE p \in RouteCells /\ p \in N /\ map[c] > 0 /\ cost[c] = cost[p] + map[c] /\ cost[p] < RouteEndless
      OBVIOUS
    <3>1. p \in RouteSettled(s) /\ c \in RouteAround[p] /\ map[c] > 0 /\ cost[c] = cost[p] + map[c]
      BY <1>1 DEF RouteSound
    <3>2. p \in RouteCells /\ cost[p] < RouteEndless
      BY <3>1 DEF RouteSettled
    <3> QED BY <3>1, <3>2, RouteAroundIs
  <2> HIDE DEF p
  <2>2. CASE map[c] = 0 \/ \A n \in N : cost[n] = RouteEndless
    <3>1. ~(cost[c] < RouteEndless)
      BY <1>2, <2>1, <2>2, RouteEndlessIs
    <3> QED BY <1>2, <2>2, <3>1, RouteEndlessIs
  <2>3. CASE ~(map[c] = 0 \/ \A n \in N : cost[n] = RouteEndless)
    <3> DEFINE V == {cost[n] : n \in N}
               k == CHOOSE v \in V : \A n \in N : v <= cost[n]
    <3>1. V \subseteq Nat /\ V # {}
      BY <1>2, <2>0, <2>3
    <3>2. Min(V) \in V /\ \A y \in V : Min(V) <= y
      <4> HIDE DEF V
      <4> QED BY <3>1, LeastNatural
    <3>3. \E v \in V : \A n \in N : v <= cost[n]
      BY <3>2
    <3>4. k \in V /\ \A n \in N : k <= cost[n]
      BY <3>3, Zenon
    <3> HIDE DEF k
    <3>5. PICK n \in N : k = cost[n]
      BY <3>4
    <3>6. PICK m \in N : cost[m] # RouteEndless
      BY <2>3
    <3>7. k < RouteEndless /\ k \in Nat /\ k <= RouteCount * RoutePrice /\ map[c] > 0 /\ n \in RouteCells
      BY <1>2, <2>0, <2>3, <3>4, <3>5, <3>6, RouteEndlessIs
    <3>8. n \in RouteSettled(s)
      BY <1>1, <3>5, <3>7 DEF RouteSettled
    <3>9. cost[c] <= k + map[c]
      BY <1>1, <2>0, <3>5, <3>7, <3>8 DEF RouteSound
    <3>10. cost[c] < RouteEndless
      BY <1>2, <3>7, <3>9, RouteEndlessIs, RouteSizes
    <3>11. cost[c] = cost[p] + map[c] /\ k <= cost[p] /\ cost[p] \in Nat
      BY <1>2, <2>1, <3>4, <3>10
    <3>12. cost[c] = map[c] + k
      BY <1>2, <3>7, <3>9, <3>11
    <3> QED BY <2>3, <3>12 DEF k
  <2> QED BY <2>2, <2>3
<1> QED BY <1>3, <1>4 DEF RouteCertified, s

(* A sum is what its terms add up to.                                        *)
LEMMA RouteSumIs ==
  ASSUME NEW n \in Nat, NEW f, \A i \in 1..n : f[i] \in Nat
  PROVE  \E h \in [0..n -> Nat] : h[0] = 0 /\ (\A i \in 1..n : h[i] = h[i - 1] + f[i]) /\ RouteSum(f, n) = h[n]
<1> DEFINE is(g) == g = [i \in 0..n |-> IF i = 0 THEN 0 ELSE g[i - 1] + f[i]]
           k == CHOOSE g : is(g)
           G == [i \in 1..n |-> [v \in Nat |-> v + f[i]]]
<1>1. RouteSum(f, n) = k[n]
  BY DEF RouteSum
<1>2. G \in [1..n -> [Nat -> Nat]] /\ \A i \in 1..n : \A v \in Nat : G[i][v] = v + f[i]
  OBVIOUS
<1> HIDE DEF G
<1>3. PICK h \in [0..n -> Nat] : ScanGoes(n, 0, G, h)
  BY <1>2, ScanIterates
<1>4. ASSUME NEW i \in 0..n PROVE h[i] = IF i = 0 THEN 0 ELSE h[i - 1] + f[i]
  <2>1. CASE i = 0
    BY <1>3, <2>1 DEF ScanGoes
  <2>2. CASE i # 0
    <3>1. i \in 1..n /\ i - 1 \in 0..n
      BY <2>2
    <3> QED BY <1>2, <1>3, <2>2, <3>1 DEF ScanGoes
  <2> QED BY <2>1, <2>2
<1>5. is(h)
  BY <1>4
<1>6. is(k)
  <2> HIDE DEF is
  <2> QED BY <1>5, Zenon
<1> HIDE DEF k
<1>7. k[0] = 0 /\ \A i \in 1..n : k[i] = k[i - 1] + f[i]
  BY <1>6
<1>8. \A i \in 0..n : k[i] \in Nat
  <2> DEFINE T == {i \in 0..n : k[i] \in Nat}
  <2>1. 0 \in T
    BY <1>7
  <2>2. \A i \in 1..n : i - 1 \in T => i \in T
    BY <1>7
  <2> HIDE DEF T
  <2>3. \A i \in 0..n : i \in T
    BY <2>1, <2>2, ScanCounts
  <2> QED BY <2>3 DEF T
<1>9. k \in [0..n -> Nat]
  BY <1>6, <1>8
<1> QED BY <1>1, <1>7, <1>9

(* The way back from a cell with a price leads to the start: each cell on it *)
(* is beside the one before, and costs so much more.                         *)
LEMMA RouteTraceIs ==
  ASSUME NEW map \in RouteMaps, NEW start \in RouteCells, NEW s, RouteSound(map, start, s),
         NEW c \in RouteCells, s.cost[c] < RouteEndless
  PROVE  LET p == RouteTrace(s.from, start, c)
         IN  /\ p \in Seq(RouteCells) /\ Len(p) <= RouteCount
             /\ \A k \in 1..Len(p) :
                  /\ p[k] \in RouteAround[IF k = 1 THEN start ELSE p[k - 1]] /\ map[p[k]] > 0
                  /\ s.cost[p[k]] = (IF k = 1 THEN 0 ELSE s.cost[p[k - 1]]) + map[p[k]]
             /\ IF p = <<>> THEN c = start ELSE p[Len(p)] = c
<1> DEFINE N == RouteCount
           is(f) == f = [n \in 0..N |-> IF n = 0 THEN c ELSE s.from[f[n - 1]]]
           b == CHOOSE f : is(f)
           far == CHOOSE n \in 0..N : b[n] = start /\ \A m \in 0..(n - 1) : b[m] # start
           p == [k \in 1..far |-> b[far - k]]
<1>1. RouteTrace(s.from, start, c) = p
  BY DEF RouteTrace
<1>2. N \in Nat
  BY RouteSizes
<1>3. s.from \in [RouteCells -> RouteCells]
  BY DEF RouteSound, RouteStates
<1> HIDE DEF N
<1> DEFINE G == [n \in 1..N |-> s.from]
<1>4. G \in [1..N -> [RouteCells -> RouteCells]] /\ \A n \in 1..N : G[n] = s.from
  BY <1>3
<1> HIDE DEF G
<1>5. PICK h \in [0..N -> RouteCells] : ScanGoes(N, c, G, h)
  BY <1>2, <1>4, ScanIterates
<1>6. ASSUME NEW n \in 0..N PROVE h[n] = IF n = 0 THEN c ELSE s.from[h[n - 1]]
  <2>1. CASE n = 0
    BY <1>5, <2>1 DEF ScanGoes
  <2>2. CASE n # 0
    <3>1. n \in 1..N /\ n - 1 \in 0..N
      BY <1>2, <2>2
    <3> QED BY <1>4, <1>5, <2>2, <3>1 DEF ScanGoes
  <2> QED BY <2>1, <2>2
<1>7. is(h)
  BY <1>6
<1>8. is(b)
  <2> HIDE DEF is
  <2> QED BY <1>7, Zenon
<1> HIDE DEF b
<1>9. b[0] = c /\ \A n \in 1..N : b[n] = s.from[b[n - 1]]
  BY <1>2, <1>8
<1>10. \A n \in 0..N : b[n] \in RouteCells
  <2> DEFINE T == {n \in 0..N : b[n] \in RouteCells}
  <2>1. 0 \in T
    BY <1>2, <1>9
  <2>2. \A n \in 1..N : n - 1 \in T => n \in T
    BY <1>2, <1>3, <1>9
  <2> HIDE DEF T
  <2>3. \A n \in 0..N : n \in T
    BY <1>2, <2>1, <2>2, ScanCounts
  <2> QED BY <2>3 DEF T
<1>11. \A x \in RouteCells : s.cost[x] \in Nat /\ map[x] \in Nat /\ s.cost[x] <= RouteEndless
  BY RouteCosts DEF RouteMaps
<1>12. ASSUME NEW x \in RouteCells \ {start}, s.cost[x] < RouteEndless
       PROVE  /\ s.from[x] \in RouteCells /\ x \in RouteAround[s.from[x]] /\ map[x] > 0
              /\ s.cost[x] = s.cost[s.from[x]] + map[x] /\ s.cost[s.from[x]] < s.cost[x] /\ s.cost[s.from[x]] < RouteEndless
  <2>1. s.from[x] \in RouteCells /\ x \in RouteAround[s.from[x]] /\ map[x] > 0 /\ s.cost[x] = s.cost[s.from[x]] + map[x]
    BY <1>3, <1>12 DEF RouteSound
  <2> QED BY <1>11, <1>12, <2>1, RouteEndlessIs
<1> DEFINE on(n) == \A m \in 0..(n - 1) : b[m] # start
<1>13. \A n \in 0..N : on(n) => s.cost[b[n]] < RouteEndless /\ \A m \in 0..(n - 1) : s.cost[b[n]] < s.cost[b[m]]
  <2> DEFINE good(n) == on(n) => s.cost[b[n]] < RouteEndless /\ \A m \in 0..(n - 1) : s.cost[b[n]] < s.cost[b[m]]
             T == {n \in 0..N : good(n)}
  <2>1. 0 \in T
    BY <1>2, <1>9
  <2>2. ASSUME NEW n \in 1..N, n - 1 \in T, on(n) PROVE s.cost[b[n]] < RouteEndless /\ \A m \in 0..(n - 1) : s.cost[b[n]] < s.cost[b[m]]
    <3> DEFINE l == n - 1
    <3>1. l \in 0..N /\ l \in 0..(n - 1) /\ n \in Nat /\ l \in Nat /\ n = l + 1
      BY <1>2
    <3> HIDE DEF l
    <3>2. on(l) /\ b[l] # start
      BY <2>2, <3>1
    <3>3. s.cost[b[l]] < RouteEndless /\ \A m \in 0..(l - 1) : s.cost[b[l]] < s.cost[b[m]]
      BY <2>2, <3>1, <3>2 DEF l
    <3>4. b[l] \in RouteCells /\ b[n] = s.from[b[l]] /\ b[n] \in RouteCells
      BY <1>9, <1>10, <3>1 DEF l
    <3>5. s.cost[b[n]] < s.cost[b[l]] /\ s.cost[b[n]] < RouteEndless
      BY <1>12, <3>2, <3>3, <3>4
    <3>6. ASSUME NEW m \in 0..(n - 1) PROVE s.cost[b[n]] < s.cost[b[m]]
      <4>1. m = l \/ m \in 0..(l - 1)
        BY <3>1
      <4>2. b[m] \in RouteCells
        BY <1>2, <1>10
      <4> QED BY <1>11, <3>3, <3>4, <3>5, <4>1, <4>2
    <3> QED BY <3>5, <3>6
  <2>3. \A n \in 1..N : n - 1 \in T => n \in T
    BY <2>2
  <2> HIDE DEF T
  <2>4. \A n \in 0..N : n \in T
    BY <1>2, <2>1, <2>3, ScanCounts
  <2> QED BY <2>4 DEF T
<1>14. \E n \in 0..N : b[n] = start
  <2> SUFFICES ASSUME \A n \in 0..N : b[n] # start PROVE FALSE
    OBVIOUS
  <2> DEFINE S == 0..N
             f == [n \in S |-> b[n]]
  <2>1. f \in [S -> RouteCells]
    BY <1>10
  <2>2. IsFiniteSet(S) /\ Cardinality(S) = N + 1
    BY <1>2, FS_Interval
  <2>3. Cardinality(RouteCells) < Cardinality(S)
    BY <1>2, <2>2, RouteCellsFinite DEF N
  <2> HIDE DEF f, S
  <2>4. \E m, n \in S : m # n /\ f[m] = f[n]
    BY <2>1, <2>2, <2>3, RouteCellsFinite, FS_PigeonHole
  <2>5. PICK m \in 0..N, n \in 0..N : m # n /\ b[m] = b[n]
    BY <2>4 DEF f, S
  <2>6. \A i \in 0..N : on(i)
    BY <1>2
  <2>7. s.cost[b[n]] \in Nat /\ s.cost[b[m]] \in Nat
    BY <1>10, <1>11
  <2>8. m < n \/ n < m
    BY <2>5
  <2>9. CASE m < n
    <3>1. m \in 0..(n - 1)
      BY <2>9
    <3> QED BY <1>13, <2>5, <2>6, <2>7, <3>1
  <2>10. CASE n < m
    <3>1. n \in 0..(m - 1)
      BY <2>10
    <3> QED BY <1>13, <2>5, <2>6, <2>7, <3>1
  <2> QED BY <2>8, <2>9, <2>10
<1>15. far \in 0..N /\ b[far] = start /\ on(far)
  <2> DEFINE V == {n \in 0..N : b[n] = start}
  <2>1. V \subseteq Nat /\ V # {}
    BY <1>14
  <2>2. Min(V) \in V /\ \A y \in V : Min(V) <= y
    <3> HIDE DEF V
    <3> QED BY <2>1, LeastNatural
  <2>3. Min(V) \in 0..N /\ b[Min(V)] = start /\ on(Min(V))
    <3> DEFINE v == Min(V)
    <3>1. v \in 0..N /\ b[v] = start /\ \A y \in V : v <= y
      BY <2>2
    <3> HIDE DEF v
    <3>2. ASSUME NEW m \in 0..(v - 1) PROVE b[m] # start
      <4>1. m \in 0..N /\ ~(v <= m)
        BY <1>2, <3>1
      <4> QED BY <3>1, <4>1
    <3> QED BY <3>1, <3>2 DEF v
  <2> HIDE DEF V
  <2> QED BY <2>3, Zenon
<1> HIDE DEF far
<1>16. far \in Nat /\ far <= N
  BY <1>2, <1>15
<1>17. p \in Seq(RouteCells) /\ Len(p) = far /\ \A k \in 1..far : p[k] = b[far - k]
  <2>1. \A k \in 1..far : far - k \in 0..N
    BY <1>2, <1>16
  <2>2. p \in [1..far -> RouteCells]
    BY <1>10, <2>1
  <2> QED BY <1>16, <2>2
<1> HIDE DEF p
<1>18. ASSUME NEW k \in 1..far
       PROVE  /\ p[k] \in RouteAround[IF k = 1 THEN start ELSE p[k - 1]] /\ map[p[k]] > 0
              /\ s.cost[p[k]] = (IF k = 1 THEN 0 ELSE s.cost[p[k - 1]]) + map[p[k]]
  <2> DEFINE n == far - k
             before == IF k = 1 THEN start ELSE p[k - 1]
  <2>1. n \in 0..N /\ n \in 0..(far - 1) /\ n + 1 \in 1..N /\ (n + 1) - 1 = n /\ n \in Nat
    BY <1>2, <1>16
  <2>2. p[k] = b[n]
    BY <1>17
  <2>3. before = b[n + 1]
    <3>1. CASE k = 1
      <4>1. n + 1 = far
        BY <1>16, <3>1
      <4> QED BY <1>15, <3>1, <4>1
    <3>2. CASE k # 1
      <4>1. k - 1 \in 1..far /\ far - (k - 1) = n + 1
        BY <1>16, <3>2
      <4> QED BY <1>17, <3>2, <4>1
    <3> QED BY <3>1, <3>2
  <2>4. b[n] # start
    BY <1>15, <2>1
  <2>5. s.cost[b[n]] < RouteEndless /\ b[n] \in RouteCells
    <3>1. on(n)
      BY <1>15, <2>1, <1>16
    <3> QED BY <1>10, <1>13, <2>1, <3>1
  <2>6. b[n + 1] = s.from[b[n]]
    BY <1>9, <2>1
  <2> HIDE DEF n, before
  <2>7. /\ b[n] \in RouteAround[before] /\ map[b[n]] > 0
        /\ s.cost[b[n]] = s.cost[before] + map[b[n]]
    BY <1>12, <2>3, <2>4, <2>5, <2>6
  <2>8. s.cost[before] = IF k = 1 THEN 0 ELSE s.cost[p[k - 1]]
    <3>1. s.cost[start] = 0
      BY DEF RouteSound
    <3> QED BY <3>1 DEF before
  <2> QED BY <2>2, <2>7, <2>8 DEF before
<1>19. IF p = <<>> THEN c = start ELSE p[Len(p)] = c
  <2>1. CASE far = 0
    <3>1. p = <<>>
      BY <1>17, <2>1
    <3> QED BY <1>9, <1>15, <2>1, <3>1
  <2>2. CASE far # 0
    <3>1. far \in 1..far /\ far - far = 0
      BY <1>16, <2>2
    <3>2. p # <<>>
      BY <1>17, <2>2
    <3> QED BY <1>9, <1>17, <3>1, <3>2
  <2> QED BY <2>1, <2>2
<1>20. Len(p) <= RouteCount
  BY <1>16, <1>17 DEF N
<1>21. \A k \in 1..Len(p) :
                  /\ p[k] \in RouteAround[IF k = 1 THEN start ELSE p[k - 1]] /\ map[p[k]] > 0
                  /\ s.cost[p[k]] = (IF k = 1 THEN 0 ELSE s.cost[p[k - 1]]) + map[p[k]]
  BY <1>17, <1>18
<1> QED BY <1>1, <1>17, <1>19, <1>20, <1>21

(* A way on which each cell costs so much more than the one before.          *)
RouteRises(map, cost, p) ==
  \A k \in 1..Len(p) : map[p[k]] > 0 /\ cost[p[k]] = (IF k = 1 THEN 0 ELSE cost[p[k - 1]]) + map[p[k]]

(* Along a way whose costs rise by its cells' prices, the last cost is the   *)
(* prices' sum, and no cell comes twice.                                     *)
LEMMA RouteRisesIs ==
  ASSUME NEW map \in RouteMaps, NEW cost, \A c \in RouteCells : cost[c] \in Nat,
         NEW p \in Seq(RouteCells), RouteRises(map, cost, p)
  PROVE  /\ RouteSum([k \in DOMAIN p |-> map[p[k]]], Len(p)) = IF p = <<>> THEN 0 ELSE cost[p[Len(p)]]
         /\ \A i, j \in 1..Len(p) : i < j => p[i] # p[j]
<1> DEFINE L == Len(p)
           f == [k \in DOMAIN p |-> map[p[k]]]
           price(k) == IF k = 0 THEN 0 ELSE cost[p[k]]
<1>1. L \in Nat /\ DOMAIN p = 1..L /\ \A k \in 1..L : p[k] \in RouteCells
  OBVIOUS
<1>2. \A k \in 1..L : f[k] = map[p[k]] /\ f[k] \in Nat /\ f[k] > 0 /\ cost[p[k]] \in Nat
  BY <1>1 DEF RouteMaps, RouteRises
<1>3. \A k \in 1..L : price(k) = price(k - 1) + f[k] /\ price(k) \in Nat
  <2> SUFFICES ASSUME NEW k \in 1..L PROVE price(k) = price(k - 1) + f[k] /\ price(k) \in Nat
    OBVIOUS
  <2>1. cost[p[k]] = (IF k = 1 THEN 0 ELSE cost[p[k - 1]]) + map[p[k]]
    BY DEF RouteRises
  <2>2. price(k) = cost[p[k]] /\ price(k - 1) = IF k = 1 THEN 0 ELSE cost[p[k - 1]]
    BY <1>1
  <2> HIDE DEF price, f
  <2>3. f[k] = map[p[k]] /\ cost[p[k]] \in Nat
    BY <1>2
  <2> QED BY <2>1, <2>2, <2>3
<1>4. price(0) = 0 /\ (\A k \in 1..L : price(k) = cost[p[k]])
  BY <1>1
<1> HIDE DEF f, price
<1>5. RouteSum(f, L) = price(L)
  <2>1. PICK h \in [0..L -> Nat] : h[0] = 0 /\ (\A i \in 1..L : h[i] = h[i - 1] + f[i]) /\ RouteSum(f, L) = h[L]
    BY <1>1, <1>2, RouteSumIs
  <2> DEFINE T == {k \in 0..L : h[k] = price(k)}
  <2>2. 0 \in T
    BY <1>1, <1>4, <2>1
  <2>3. \A k \in 1..L : k - 1 \in T => k \in T
    BY <1>1, <1>3, <2>1
  <2> HIDE DEF T
  <2>4. \A k \in 0..L : k \in T
    BY <1>1, <2>2, <2>3, ScanCounts
  <2>5. L \in T
    BY <1>1, <2>4
  <2> QED BY <2>1, <2>5 DEF T
<1>6. RouteSum(f, L) = IF p = <<>> THEN 0 ELSE cost[p[L]]
  <2>1. p = <<>> <=> L = 0
    BY <1>1
  <2> QED BY <1>1, <1>4, <1>5, <2>1
<1>7. \A j \in 0..L : \A i \in 0..(j - 1) : price(i) < price(j)
  <2> DEFINE T == {j \in 0..L : \A i \in 0..(j - 1) : price(i) < price(j)}
  <2>0. \A k \in 0..L : price(k) \in Nat
    BY <1>1, <1>3, <1>4
  <2>1. 0 \in T
    BY <1>1
  <2>2. ASSUME NEW j \in 1..L, j - 1 \in T PROVE j \in T
    <3>1. price(j - 1) < price(j)
      <4>1. price(j) = price(j - 1) + f[j] /\ f[j] \in Nat /\ f[j] > 0 /\ price(j - 1) \in Nat
        BY <1>1, <1>2, <1>3, <2>0
      <4> QED BY <4>1
    <3>2. ASSUME NEW i \in 0..(j - 1) PROVE price(i) < price(j)
      <4>1. i = j - 1 \/ i \in 0..((j - 1) - 1)
        BY <1>1
      <4>2. i \in 0..L /\ j - 1 \in 0..L /\ j \in 0..L
        BY <1>1
      <4>3. i \in 0..((j - 1) - 1) => price(i) < price(j - 1)
        BY <2>2
      <4> QED BY <2>0, <3>1, <4>1, <4>2, <4>3
    <3> QED BY <1>1, <3>2
  <2> HIDE DEF T
  <2>3. \A j \in 0..L : j \in T
    BY <1>1, <2>1, <2>2, ScanCounts
  <2> QED BY <2>3 DEF T
<1>8. ASSUME NEW i \in 1..L, NEW j \in 1..L, i < j PROVE p[i] # p[j]
  <2>1. price(i) < price(j) /\ price(i) = cost[p[i]] /\ price(j) = cost[p[j]] /\ cost[p[i]] \in Nat
    <3>1. i \in 0..(j - 1) /\ j \in 0..L
      BY <1>1, <1>8
    <3> QED BY <1>2, <1>4, <1>7, <3>1
  <2> QED BY <2>1
<1> QED BY <1>6, <1>8 DEF f

(* What RouteCheapest says of an answer.                                     *)
RouteBestOf(ask, map, found, raw) ==
  LET starts == RouteStart(map, ask.from, RouteReaches)
      ends == RouteStart(map, ask.to, RouteReaches)
  IN  \A start \in starts, end \in ends :
        LET cost == RouteSearched(map, start, 0).cost
        IN  /\ RouteCertified(map, start, cost)
            /\ ~found <=> (cost[end] = RouteEndless)
            /\ found =>
                 /\ RouteSum([k \in DOMAIN raw |-> map[raw[k]]], Len(raw)) = cost[end]
                 /\ \A k \in DOMAIN raw : raw[k] \in RouteAround[IF k = 1 THEN start ELSE raw[k - 1]]

(* A way over cells the body may be in, no cell twice, each beside the last. *)
RouteWayOf(map, p) ==
  /\ p \in Seq(RouteCells) /\ Len(p) <= RouteCount
  /\ \A k \in 1..Len(p) : map[p[k]] > 0
  /\ \A k \in 2..Len(p) : p[k] \in RouteAround[p[k - 1]]
  /\ \A i, j \in 1..Len(p) : i < j => p[i] # p[j]

(* Dijkstra's way is the cheapest there is, over cells the body may be in.   *)
LEMMA RouteRawIs ==
  ASSUME NEW ask, ask.from \in RouteCells, ask.to \in RouteCells, NEW map \in RouteMaps
  PROVE  LET r == RouteRaw(ask, map)
         IN  r.found \in BOOLEAN /\ RouteWayOf(map, r.raw) /\ RouteBestOf(ask, map, r.found, r.raw)
<1> DEFINE starts == RouteStart(map, ask.from, RouteReaches)
           ends == RouteStart(map, ask.to, RouteReaches)
           start == CHOOSE c \in starts : TRUE
           end == CHOOSE c \in ends : TRUE
           done == RouteSearched(map, start, end)
           r == RouteRaw(ask, map)
           none == [found |-> FALSE, raw |-> <<>>]
<1>1. RouteReaches \in [1..2 -> Nat]
  BY RouteAssumption DEF RouteReaches
<1>2. /\ \A c \in starts : c \in RouteCells /\ map[c] > 0 /\ c = start
      /\ \A c \in ends : c \in RouteCells /\ map[c] > 0 /\ c = end
  BY <1>1, RouteStartIs
<1>3. RouteWayOf(map, <<>>)
  BY RouteSizes DEF RouteWayOf
<1>4. CASE starts = {} \/ ends = {}
  <2>1. r = none
    BY <1>4 DEF RouteRaw
  <2>2. RouteBestOf(ask, map, FALSE, <<>>)
    BY <1>4 DEF RouteBestOf
  <2>3. r.found = FALSE /\ r.raw = <<>>
    BY <2>1
  <2> HIDE DEF r
  <2>4. r.found \in BOOLEAN /\ RouteWayOf(map, r.raw) /\ RouteBestOf(ask, map, r.found, r.raw)
    BY <1>3, <2>2, <2>3, Zenon
  <2> QED BY <2>4 DEF r
<1>5. CASE ~(starts = {} \/ ends = {})
  <2>1. r = IF done.cost[end] = RouteEndless THEN none ELSE [found |-> TRUE, raw |-> RouteTrace(done.from, start, end)]
    BY <1>5 DEF RouteRaw
  <2>2. start \in RouteCells /\ end \in RouteCells /\ \A c \in starts : c = start
    BY <1>2, <1>5
  <2>3. \A c \in ends : c = end
    BY <1>2
  <2> DEFINE full == RouteSearched(map, start, 0)
  <2> HIDE DEF start, end, r
  <2>4. RouteSound(map, start, done) /\ RouteSound(map, start, full)
    BY <2>2, RouteSearchIs
  <2>5. RouteCertified(map, start, full.cost) /\ done.cost[end] = full.cost[end]
    BY <2>2, RouteCertifies, RouteAgrees
  <2>6. done.cost[end] \in Nat /\ done.cost[end] <= RouteEndless
    BY <2>2, <2>4, RouteCosts
  <2> HIDE DEF done
  <2>7. CASE done.cost[end] = RouteEndless
    <3>1. r = none
      BY <2>1, <2>7
    <3>2. RouteBestOf(ask, map, FALSE, <<>>)
      BY <2>2, <2>3, <2>5, <2>7 DEF RouteBestOf
    <3>3. r.found = FALSE /\ r.raw = <<>>
      BY <3>1
    <3>4. r.found \in BOOLEAN /\ RouteWayOf(map, r.raw) /\ RouteBestOf(ask, map, r.found, r.raw)
      BY <1>3, <3>2, <3>3, Zenon
    <3> QED BY <3>4 DEF r
  <2>8. CASE done.cost[end] # RouteEndless
    <3> DEFINE p == RouteTrace(done.from, start, end)
    <3>1. r = [found |-> TRUE, raw |-> p]
      BY <2>1, <2>8
    <3>2. done.cost[end] < RouteEndless
      BY <2>6, <2>8, RouteEndlessIs
    <3>3. /\ p \in Seq(RouteCells) /\ Len(p) <= RouteCount
          /\ \A k \in 1..Len(p) :
               /\ p[k] \in RouteAround[IF k = 1 THEN start ELSE p[k - 1]] /\ map[p[k]] > 0
               /\ done.cost[p[k]] = (IF k = 1 THEN 0 ELSE done.cost[p[k - 1]]) + map[p[k]]
          /\ IF p = <<>> THEN end = start ELSE p[Len(p)] = end
      BY <2>2, <2>4, <3>2, RouteTraceIs
    <3> HIDE DEF p
    <3>4. RouteRises(map, done.cost, p) /\ \A c \in RouteCells : done.cost[c] \in Nat
      BY <2>2, <2>4, <3>3, RouteCosts DEF RouteRises
    <3>5. /\ RouteSum([k \in DOMAIN p |-> map[p[k]]], Len(p)) = IF p = <<>> THEN 0 ELSE done.cost[p[Len(p)]]
          /\ \A i, j \in 1..Len(p) : i < j => p[i] # p[j]
      BY <3>3, <3>4, RouteRisesIs
    <3>6. RouteSum([k \in DOMAIN p |-> map[p[k]]], Len(p)) = done.cost[end]
      <4>1. done.cost[start] = 0
        BY <2>4 DEF RouteSound
      <4> QED BY <3>3, <3>5, <4>1
    <3>7. RouteWayOf(map, p)
      <4>1. \A k \in 2..Len(p) : p[k] \in RouteAround[p[k - 1]]
        <5> SUFFICES ASSUME NEW k \in 2..Len(p) PROVE p[k] \in RouteAround[p[k - 1]]
          OBVIOUS
        <5>1. k \in 1..Len(p) /\ k # 1
          BY <3>3
        <5> QED BY <3>3, <5>1
      <4> QED BY <3>3, <3>5, <4>1 DEF RouteWayOf
    <3>8. \A k \in DOMAIN p : p[k] \in RouteAround[IF k = 1 THEN start ELSE p[k - 1]]
      BY <3>3
    <3>9. RouteBestOf(ask, map, TRUE, p)
      <4> SUFFICES ASSUME NEW a \in starts, NEW b \in ends
                   PROVE  LET cost == RouteSearched(map, a, 0).cost
                          IN  /\ RouteCertified(map, a, cost)
                              /\ ~TRUE <=> (cost[b] = RouteEndless)
                              /\ /\ RouteSum([k \in DOMAIN p |-> map[p[k]]], Len(p)) = cost[b]
                                 /\ \A k \in DOMAIN p : p[k] \in RouteAround[IF k = 1 THEN a ELSE p[k - 1]]
        BY DEF RouteBestOf
      <4>1. a = start /\ b = end
        BY <2>2, <2>3
      <4>2. full.cost[end] = done.cost[end]
        BY <2>5
      <4> HIDE DEF starts, ends
      <4> QED BY <2>5, <2>8, <3>6, <3>8, <4>1, <4>2
    <3>10. r.found = TRUE /\ r.raw = p
      BY <3>1
    <3>11. r.found \in BOOLEAN /\ RouteWayOf(map, r.raw) /\ RouteBestOf(ask, map, r.found, r.raw)
      BY <3>7, <3>9, <3>10, Zenon
    <3> QED BY <3>11 DEF r
  <2> QED BY <2>7, <2>8
<1> QED BY <1>4, <1>5

(* Products keep the order of their first factors.                           *)
LEMMA RouteTimes ==
  ASSUME NEW a \in Int, NEW b \in Int, NEW c \in Int, a <= b, c >= 0
  PROVE  a * c <= b * c /\ a * c \in Int /\ b * c \in Int /\ c * a <= c * b /\ c * a = a * c /\ c * b = b * c
<1>1. a * c \in Int /\ b * c \in Int /\ c * a = a * c /\ c * b = b * c
  OBVIOUS
<1>2. CASE c = 0
  BY <1>1, <1>2
<1>3. CASE c > 0
  BY <1>1, <1>3, ScanTimes
<1> QED BY <1>1, <1>2, <1>3

(* What a square is below, its root is.                                      *)
LEMMA RouteRootAbove ==
  ASSUME NEW m \in Nat, NEW r \in Int, r * r <= m * m
  PROVE  -m <= r /\ r <= m
<1>1. ASSUME NEW u \in Int, u > m PROVE u * u > m * m
  <2>1. m * u < u * u /\ m * m <= u * m /\ u * m = m * u /\ m * u \in Int /\ u * u \in Int /\ m * m \in Int
    BY <1>1, ScanTimes, RouteTimes
  <2> DEFINE uu == u * u
             mm == m * m
             mu == m * u
             um == u * m
  <2>2. mu < uu /\ mm <= um /\ um = mu /\ mu \in Int /\ uu \in Int /\ mm \in Int
    BY <2>1
  <2> HIDE DEF uu, mm, mu, um
  <2>3. uu > mm
    BY <2>2
  <2> QED BY <2>3 DEF uu, mm
<1>2. (-r) * (-r) = r * r /\ r * r \in Int /\ m * m \in Int
  OBVIOUS
<1>3. ~(r > m)
  BY <1>1, <1>2
<1>4. ~(-r > m)
  BY <1>1, <1>2
<1> QED BY <1>3, <1>4

(* The nearest whole number.                                                 *)
RouteNearest(x, n) == (2 * x + n) \div (2 * n)

(* Rounding to the nearest never crosses a whole.                            *)
LEMMA RouteNearestIs ==
  ASSUME NEW x \in Int, NEW n \in Nat, n > 0
  PROVE  LET q == RouteNearest(x, n)
         IN  /\ q \in Int
             /\ 2 * (n * q) <= 2 * x + n /\ 2 * x < 2 * (n * q) + n
             /\ \A k \in Int : (n * k <= x => k <= q) /\ (x <= n * k => q <= k)
<1> DEFINE q == RouteNearest(x, n)
           y == 2 * x + n
           d == 2 * n
<1>1. y \in Int /\ d \in Nat /\ d > 0 /\ q = y \div d
  BY DEF RouteNearest
<1> HIDE DEF q
<1>2. q \in Int /\ d * q \in Int /\ d * q <= y /\ y < d * q + d /\ \A k \in Int : (d * k <= y => k <= q) /\ (y < d * k => q < k)
  <2> HIDE DEF y, d
  <2> QED BY <1>1, RouteDivides
<1>3. \A k \in Int : d * k = 2 * (n * k) /\ n * k \in Int /\ d * (k + 1) = 2 * (n * k) + 2 * n
  OBVIOUS
<1>4. 2 * (n * q) <= 2 * x + n /\ 2 * x < 2 * (n * q) + n
  <2> DEFINE nq == n * q
  <2>1. nq \in Int /\ d * q = 2 * nq
    BY <1>2, <1>3
  <2> HIDE DEF nq
  <2>2. 2 * nq <= 2 * x + n /\ 2 * x < 2 * nq + n
    BY <1>2, <2>1
  <2> QED BY <2>2 DEF nq
<1>5. ASSUME NEW k \in Int PROVE (n * k <= x => k <= q) /\ (x <= n * k => q <= k)
  <2> DEFINE nk == n * k
  <2>1. nk \in Int /\ d * k = 2 * nk /\ d * (k + 1) = 2 * nk + 2 * n
    BY <1>3
  <2>2. (d * k <= y => k <= q) /\ (y < d * (k + 1) => q < k + 1)
    BY <1>2
  <2> HIDE DEF nk, q
  <2>3. (2 * nk <= y => k <= q) /\ (y < 2 * nk + 2 * n => q < k + 1)
    BY <2>1, <2>2
  <2>4. (nk <= x => k <= q) /\ (x <= nk => q <= k)
    BY <1>2, <2>1, <2>3
  <2> QED BY <2>4 DEF nk
<1> QED BY <1>2, <1>4, <1>5 DEF q

(* A point of a line lies between its ends.                                  *)
LEMMA RouteBetween ==
  ASSUME NEW u \in Int, NEW v \in Int, NEW n \in Nat, n > 0, NEW i \in 0..n
  PROVE  LET x == n * u + i * (v - u)
         IN  /\ x \in Int
             /\ \A k \in Int : (k <= u /\ k <= v => n * k <= x) /\ (u <= k /\ v <= k => x <= n * k)
             /\ i = n => x = n * v
<1> DEFINE x == n * u + i * (v - u)
           j == n - i
<1>1. j \in Int /\ j >= 0 /\ i \in Int /\ i >= 0 /\ n = j + i
  OBVIOUS
<1>2. x = j * u + i * v /\ j * u \in Int /\ i * v \in Int
  <2>1. i * (v - u) = i * v - i * u /\ (n - i) * u = n * u - i * u /\ n * u \in Int /\ i * u \in Int /\ i * v \in Int
    OBVIOUS
  <2> QED BY <2>1
<1>3. \A k \in Int : n * k = j * k + i * k /\ j * k \in Int /\ i * k \in Int
  <2>1. \A k \in Int : (n - i) * k = n * k - i * k /\ n * k \in Int /\ i * k \in Int
    OBVIOUS
  <2> QED BY <2>1
<1> HIDE DEF j, x
<1>4. ASSUME NEW k \in Int, k <= u, k <= v PROVE n * k <= x
  <2>1. j * k <= j * u /\ i * k <= i * v
    BY <1>1, <1>4, RouteTimes
  <2> DEFINE a == j * k
             b == i * k
             c == j * u
             d == i * v
  <2>2. a \in Int /\ b \in Int /\ c \in Int /\ d \in Int /\ a <= c /\ b <= d /\ n * k = a + b /\ x = c + d
    BY <1>2, <1>3, <2>1
  <2> HIDE DEF a, b, c, d
  <2> QED BY <2>2
<1>5. ASSUME NEW k \in Int, u <= k, v <= k PROVE x <= n * k
  <2>1. j * u <= j * k /\ i * v <= i * k
    BY <1>1, <1>5, RouteTimes
  <2> DEFINE a == j * k
             b == i * k
             c == j * u
             d == i * v
  <2>2. a \in Int /\ b \in Int /\ c \in Int /\ d \in Int /\ c <= a /\ d <= b /\ n * k = a + b /\ x = c + d
    BY <1>2, <1>3, <2>1
  <2> HIDE DEF a, b, c, d
  <2> QED BY <2>2
<1>6. ASSUME i = n PROVE x = n * v
  <2>1. j = 0 /\ j * u = 0
    BY <1>1, <1>6
  <2> QED BY <1>2, <1>6, <2>1
<1> QED BY <1>2, <1>4, <1>5, <1>6 DEF x

(* A point of a line from cell to cell lies in a cell.                       *)
LEMMA RoutePointIs ==
  ASSUME NEW a \in RouteCells, NEW b \in RouteCells, NEW n \in Nat, n > 0, NEW i \in 0..n
  PROVE  LET c == RouteCell(RouteAt(a, b, i, n), n)
         IN  /\ c \in RouteCells
             /\ RouteRow(c) = RouteNearest(n * RouteRow(a) + i * (RouteRow(b) - RouteRow(a)), n)
             /\ RouteCol(c) = RouteNearest(n * RouteCol(a) + i * (RouteCol(b) - RouteCol(a)), n)
             /\ i = n => c = b
<1> DEFINE x == n * RouteRow(a) + i * (RouteRow(b) - RouteRow(a))
           y == n * RouteCol(a) + i * (RouteCol(b) - RouteCol(a))
           c == RouteCell(RouteAt(a, b, i, n), n)
<1>1. c = RouteCols * RouteNearest(x, n) + RouteNearest(y, n) + 1
  BY DEF RouteCell, RouteAt, RouteNearest
<1> HIDE DEF c
<1>2. ASSUME NEW u \in Int, NEW v \in Int, NEW top \in Int, u >= 0, v >= 0, u < top, v < top
      PROVE  LET z == n * u + i * (v - u) IN RouteNearest(z, n) \in 0..(top - 1) /\ (i = n => RouteNearest(z, n) = v)
  <2> DEFINE z == n * u + i * (v - u)
  <2>1. z \in Int /\ n * 0 <= z /\ z <= n * (top - 1) /\ (i = n => z = n * v)
    <3>1. 0 \in Int /\ top - 1 \in Int /\ 0 <= u /\ 0 <= v /\ u <= top - 1 /\ v <= top - 1
      BY <1>2
    <3> HIDE DEF z
    <3> QED BY <1>2, <3>1, RouteBetween DEF z
  <2> HIDE DEF z
  <2>2. RouteNearest(z, n) \in Int /\ 0 <= RouteNearest(z, n) /\ RouteNearest(z, n) <= top - 1
    BY <1>2, <2>1, RouteNearestIs
  <2>3. i = n => v <= RouteNearest(z, n) /\ RouteNearest(z, n) <= v
    <3>1. n * v \in Int
      BY <1>2
    <3>2. i = n => n * v <= z /\ z <= n * v
      BY <2>1, <3>1
    <3> QED BY <1>2, <2>1, <3>2, RouteNearestIs
  <2> QED BY <1>2, <2>2, <2>3 DEF z
<1>3. RouteNearest(x, n) \in 0..(RouteRows - 1) /\ (i = n => RouteNearest(x, n) = RouteRow(b))
  <2> DEFINE u == RouteRow(a)
             v == RouteRow(b)
             top == RouteRows
  <2>1. u \in Int /\ v \in Int /\ top \in Int /\ u >= 0 /\ v >= 0 /\ u < top /\ v < top
    BY RouteCoords, RouteSizes
  <2> HIDE DEF u, v, top
  <2>2. LET z == n * u + i * (v - u) IN RouteNearest(z, n) \in 0..(top - 1) /\ (i = n => RouteNearest(z, n) = v)
    BY <1>2, <2>1
  <2> QED BY <2>2 DEF u, v, top
<1>4. RouteNearest(y, n) \in 0..(RouteCols - 1) /\ (i = n => RouteNearest(y, n) = RouteCol(b))
  <2> DEFINE u == RouteCol(a)
             v == RouteCol(b)
             top == RouteCols
  <2>1. u \in Int /\ v \in Int /\ top \in Int /\ u >= 0 /\ v >= 0 /\ u < top /\ v < top
    BY RouteCoords, RouteSizes
  <2> HIDE DEF u, v, top
  <2>2. LET z == n * u + i * (v - u) IN RouteNearest(z, n) \in 0..(top - 1) /\ (i = n => RouteNearest(z, n) = v)
    BY <1>2, <2>1
  <2> QED BY <2>2 DEF u, v, top
<1> HIDE DEF x, y
<1>5. c \in RouteCells /\ RouteRow(c) = RouteNearest(x, n) /\ RouteCol(c) = RouteNearest(y, n)
  BY <1>1, <1>3, <1>4, RouteRowsCols
<1>6. i = n => c = b
  BY <1>1, <1>3, <1>4, RouteRowsCols
<1> QED BY <1>5, <1>6 DEF c, x, y

(* Two points of a line, no farther from each other than a cell, lie in      *)
(* cells beside each other.                                                  *)
LEMMA RouteBeside ==
  ASSUME NEW u \in Int, NEW d \in Int, NEW n \in Nat, n > 0, NEW m \in Nat, m > 0, NEW k \in Int, NEW i \in Int,
         -n <= k * m - i * n, k * m - i * n <= n, -m <= d, d <= m
  PROVE  LET p == RouteNearest(n * u + k * d, n)
             q == RouteNearest(m * u + i * d, m)
         IN  p \in Int /\ q \in Int /\ p - q \in {-1, 0, 1}
<1> DEFINE x == n * u + k * d
           y == m * u + i * d
           p == RouteNearest(x, n)
           q == RouteNearest(y, m)
           xm == x * m
           yn == y * n
           nm == n * m
           w == k * m - i * n
<1>1. x \in Int /\ y \in Int /\ nm \in Int /\ xm \in Int /\ yn \in Int /\ w \in Int
  OBVIOUS
<1>2. xm - yn = w * d
  <2>1. (n * u + k * d) * m = (n * u) * m + (k * d) * m /\ (m * u + i * d) * n = (m * u) * n + (i * d) * n
    OBVIOUS
  <2>2. (n * u) * m = (m * u) * n /\ (k * d) * m = (k * m) * d /\ (i * d) * n = (i * n) * d
    OBVIOUS
  <2>3. (k * m - i * n) * d = (k * m) * d - (i * n) * d
    OBVIOUS
  <2> DEFINE A == (n * u) * m
             B == (k * d) * m
             C == (i * d) * n
  <2>4. A \in Int /\ B \in Int /\ C \in Int /\ xm = A + B /\ yn = A + C /\ w * d = B - C
    BY <2>1, <2>2, <2>3
  <2> HIDE DEF A, B, C, xm, yn, w
  <2> QED BY <2>4
<1>3. -nm <= w * d /\ w * d <= nm
  <2> HIDE DEF w
  <2>1. \A a \in Int, b \in Int : a >= 0 /\ b >= 0 /\ a <= n /\ b <= m => a * b <= nm
    <3> SUFFICES ASSUME NEW a \in Int, NEW b \in Int, a >= 0, b >= 0, a <= n, b <= m PROVE a * b <= nm
      OBVIOUS
    <3>1. a * b <= n * b /\ n * b <= n * m /\ a * b \in Int /\ n * b \in Int /\ n * m \in Int
      BY RouteTimes
    <3> QED BY <3>1
  <2>2. -n <= w /\ w <= n
    BY DEF w
  <2>3. (-w) * d = -(w * d) /\ w * (-d) = -(w * d) /\ (-w) * (-d) = w * d /\ w * d \in Int
    BY <1>1
  <2>4. CASE w >= 0 /\ d >= 0
    <3>1. w * d <= nm /\ w * d >= 0
      BY <1>1, <2>1, <2>2, <2>4
    <3> QED BY <1>1, <2>3, <3>1
  <2>5. CASE w >= 0 /\ ~(d >= 0)
    <3>1. -d >= 0 /\ -d <= m /\ -d \in Int
      BY <2>5
    <3>2. w * (-d) <= nm /\ w * (-d) >= 0
      BY <1>1, <2>1, <2>2, <2>5, <3>1
    <3> QED BY <1>1, <2>3, <3>2
  <2>6. CASE ~(w >= 0) /\ d >= 0
    <3>1. -w >= 0 /\ -w <= n /\ -w \in Int
      BY <1>1, <2>2, <2>6
    <3>2. (-w) * d <= nm /\ (-w) * d >= 0
      BY <1>1, <2>1, <2>2, <2>6, <3>1
    <3> QED BY <1>1, <2>3, <3>2
  <2>7. CASE ~(w >= 0) /\ ~(d >= 0)
    <3>1. -w >= 0 /\ -w <= n /\ -w \in Int /\ -d >= 0 /\ -d <= m /\ -d \in Int
      BY <1>1, <2>2, <2>7
    <3>2. (-w) * (-d) <= nm /\ (-w) * (-d) >= 0
      BY <1>1, <2>1, <2>2, <2>7, <3>1
    <3> QED BY <1>1, <2>3, <3>2
  <2> QED BY <2>4, <2>5, <2>6, <2>7
<1>4. /\ p \in Int /\ 2 * (n * p) <= 2 * x + n /\ 2 * x < 2 * (n * p) + n
      /\ q \in Int /\ 2 * (m * q) <= 2 * y + m /\ 2 * y < 2 * (m * q) + m
  <2> HIDE DEF x, y
  <2> QED BY <1>1, RouteNearestIs
<1> DEFINE np == nm * p
           nq == nm * q
<1>5. 2 * np <= 2 * xm + nm /\ 2 * xm < 2 * np + nm
  <2> HIDE DEF x, p
  <2> DEFINE z == n * p
  <2>1. z \in Int /\ 2 * z <= 2 * x + n /\ 2 * x < 2 * z + n
    BY <1>4
  <2>2. z * m = np
    BY <1>4
  <2> HIDE DEF z
  <2>3. (2 * z) * m <= (2 * x + n) * m /\ (2 * x) * m < (2 * z + n) * m
    BY <1>1, <2>1, ScanTimes
  <2>4. (2 * z) * m = 2 * (z * m) /\ (2 * x + n) * m = 2 * xm + nm /\ (2 * x) * m = 2 * xm /\ (2 * z + n) * m = 2 * (z * m) + nm
    BY <1>1, <2>1
  <2> QED BY <2>2, <2>3, <2>4
<1>6. 2 * nq <= 2 * yn + nm /\ 2 * yn < 2 * nq + nm
  <2> HIDE DEF y, q
  <2> DEFINE z == m * q
  <2>1. z \in Int /\ 2 * z <= 2 * y + m /\ 2 * y < 2 * z + m
    BY <1>4
  <2>2. z * n = nq
    BY <1>4
  <2> HIDE DEF z
  <2>3. (2 * z) * n <= (2 * y + m) * n /\ (2 * y) * n < (2 * z + m) * n
    BY <1>1, <2>1, ScanTimes
  <2>4. (2 * z) * n = 2 * (z * n) /\ (2 * y + m) * n = 2 * yn + nm /\ (2 * y) * n = 2 * yn /\ (2 * z + m) * n = 2 * (z * n) + nm
    BY <1>1, <2>1
  <2> QED BY <2>2, <2>3, <2>4
<1>7. nm > 0
  <2>1. 1 * m <= n * m /\ n * m \in Int
    BY ScanTimes
  <2> QED BY <2>1
<1> HIDE DEF x, y, p, q, xm, yn, nm, w
<1>8. np \in Int /\ nq \in Int
  BY <1>1, <1>4
<1> DEFINE wd == w * d
<1>9. wd \in Int /\ xm - yn = wd /\ -nm <= wd /\ wd <= nm
  BY <1>1, <1>2, <1>3
<1>10. np < nq + 2 * nm /\ nq < np + 2 * nm
  <2> HIDE DEF np, nq, wd
  <2> QED BY <1>1, <1>5, <1>6, <1>8, <1>9
<1>11. np = p * nm /\ nq = q * nm /\ (q + 2) * nm = nq + 2 * nm /\ (p + 2) * nm = np + 2 * nm
  BY <1>1, <1>4
<1>12. p < q + 2 /\ q < p + 2
  <2> HIDE DEF np, nq
  <2>1. (p < q + 2 <=> p * nm < (q + 2) * nm) /\ (q < p + 2 <=> q * nm < (p + 2) * nm)
    BY <1>1, <1>4, <1>7, ScanTimes
  <2> QED BY <1>10, <1>11, <2>1
<1>13. p \in Int /\ q \in Int /\ p - q \in {-1, 0, 1}
  BY <1>4, <1>12
<1> QED BY <1>13 DEF p, q, x, y

(* No two cells are farther apart than the grid is wide and high.            *)
LEMMA RouteD2Bound ==
  ASSUME NEW a \in RouteCells, NEW b \in RouteCells
  PROVE  RouteD2[a][b] <= (RouteRows + RouteCols) * (RouteRows + RouteCols)
<1> DEFINE r == RouteRow(a) - RouteRow(b)
           s == RouteCol(a) - RouteCol(b)
           R == RouteRows
           S == RouteCols
<1>1. r \in Int /\ s \in Int /\ -R <= r /\ r <= R /\ -S <= s /\ s <= S /\ R \in Nat /\ S \in Nat
  BY RouteCoords, RouteSizes
<1>2. RouteD2[a][b] = r * r + s * s
  BY RouteD2Is
<1> HIDE DEF r, s, R, S
<1>3. ASSUME NEW x \in Int, NEW m \in Nat, -m <= x, x <= m PROVE x * x <= m * m
  <2>1. CASE x >= 0
    <3>1. x * x <= m * x /\ m * x <= m * m /\ x * x \in Int /\ m * x \in Int /\ m * m \in Int
      BY <1>3, <2>1, RouteTimes
    <3> QED BY <3>1
  <2>2. CASE ~(x >= 0)
    <3> DEFINE y == -x
    <3>0. y \in Int /\ y >= 0 /\ y <= m /\ y * y = x * x
      BY <1>3, <2>2
    <3> HIDE DEF y
    <3>1. y * y <= m * y /\ m * y <= m * m /\ y * y \in Int /\ m * y \in Int /\ m * m \in Int
      BY <3>0, RouteTimes
    <3> QED BY <3>0, <3>1
  <2> QED BY <2>1, <2>2
<1>4. r * r <= R * R /\ s * s <= S * S /\ r * r \in Int /\ s * s \in Int
  BY <1>1, <1>3
<1>5. (R + S) * (R + S) = R * R + S * S + 2 * (R * S) /\ R * S \in Nat /\ R * R \in Nat /\ S * S \in Nat
  BY <1>1
<1>6. r * r + s * s <= (R + S) * (R + S)
  BY <1>4, <1>5
<1> QED BY <1>2, <1>6 DEF R, S

(* A line is sampled at least twice a cell.                                  *)
LEMMA RouteUpIs ==
  ASSUME NEW a \in RouteCells, NEW b \in RouteCells
  PROVE  LET m == RouteUp(4 * RouteD2[a][b])
         IN  m \in Nat /\ m > 0 /\ m * m >= 4 * RouteD2[a][b]
<1> DEFINE x == 4 * RouteD2[a][b]
           w == RouteRows + RouteCols
           V == {n \in Nat : n > 0 /\ n * n >= x}
           k == Min(V)
<1>1. w \in Nat /\ w > 0 /\ RouteD2[a][b] \in Nat /\ RouteD2[a][b] <= w * w /\ w * w \in Nat
  BY RouteD2Bound, RouteD2Is, RouteSizes
<1>2. 2 * w \in V
  <2>1. (2 * w) * (2 * w) = 4 * (w * w)
    BY <1>1
  <2> QED BY <1>1, <2>1
<1>3. k \in V /\ \A y \in V : k <= y
  BY <1>2, LeastNatural
<1>4. k = 1 \/ (k - 1) * (k - 1) < x
  <2> SUFFICES ASSUME k # 1 PROVE (k - 1) * (k - 1) < x
    OBVIOUS
  <2> DEFINE l == k - 1
  <2>1. l \in Nat /\ l > 0 /\ ~(k <= l)
    BY <1>3
  <2> HIDE DEF l, k
  <2>2. l \notin V
    BY <1>3, <2>1
  <2>3. l * l \in Nat /\ x \in Nat
    BY <1>1, <2>1
  <2>4. l * l < x
    BY <2>1, <2>2, <2>3
  <2> QED BY <2>4 DEF l
<1>5. k \in 1..(2 * w) /\ k * k >= x
  BY <1>1, <1>2, <1>3
<1> HIDE DEF k, V, x
<1>6. \E n \in 1..(2 * w) : n * n >= x /\ (n = 1 \/ (n - 1) * (n - 1) < x)
  BY <1>4, <1>5
<1>7. RouteUp(x) \in 1..(2 * w) /\ RouteUp(x) * RouteUp(x) >= x
  BY <1>6 DEF RouteUp
<1> QED BY <1>1, <1>7 DEF x

(* How many points a straight run is laid with.                              *)
RoutePoints(a, b) ==
  CHOOSE n \in 1..(RouteRows + RouteCols) :
    (2 * n - 1) * (2 * n - 1) <= 4 * RouteD2[a][b] /\ 4 * RouteD2[a][b] < (2 * n + 1) * (2 * n + 1)

(* A run between two cells has a point, and between two beside each other    *)
(* just one.                                                                 *)
LEMMA RoutePointsIs ==
  ASSUME NEW a \in RouteCells, NEW b \in RouteCells, a # b
  PROVE  /\ RoutePoints(a, b) \in Nat /\ RoutePoints(a, b) > 0
         /\ RouteD2[a][b] = 1 => RoutePoints(a, b) = 1
<1> DEFINE x == 4 * RouteD2[a][b]
           w == RouteRows + RouteCols
           V == {n \in Nat : x < (2 * n + 1) * (2 * n + 1)}
           k == Min(V)
           p == RoutePoints(a, b)
<1>1. w \in Nat /\ w > 0 /\ RouteD2[a][b] \in Nat /\ RouteD2[a][b] > 0 /\ RouteD2[a][b] <= w * w /\ w * w \in Nat
  BY RouteD2Bound, RouteD2Is, RouteSizes
<1>2. w \in V
  <2>1. (2 * w + 1) * (2 * w + 1) = 4 * (w * w) + 4 * w + 1
    BY <1>1
  <2> QED BY <1>1, <2>1
<1>3. k \in V /\ \A y \in V : k <= y
  BY <1>2, LeastNatural
<1>4. k # 0
  <2>1. (2 * 0 + 1) * (2 * 0 + 1) = 1
    OBVIOUS
  <2>2. 0 \notin V
    BY <1>1, <2>1
  <2> HIDE DEF k
  <2> QED BY <1>3, <2>2
<1>5. (2 * k - 1) * (2 * k - 1) <= x
  <2> DEFINE l == k - 1
  <2>1. l \in Nat /\ ~(k <= l) /\ 2 * l + 1 = 2 * k - 1
    BY <1>3, <1>4
  <2> HIDE DEF l, k
  <2>2. l \notin V
    BY <1>3, <2>1
  <2>3. (2 * l + 1) * (2 * l + 1) \in Int /\ x \in Nat
    BY <1>1, <2>1
  <2> QED BY <2>1, <2>2, <2>3
<1>6. k \in 1..w /\ x < (2 * k + 1) * (2 * k + 1)
  BY <1>1, <1>2, <1>3, <1>4
<1> HIDE DEF k, V, x
<1>7. p = CHOOSE n \in 1..w : (2 * n - 1) * (2 * n - 1) <= x /\ x < (2 * n + 1) * (2 * n + 1)
  BY DEF RoutePoints, x
<1>8. \E n \in 1..w : (2 * n - 1) * (2 * n - 1) <= x /\ x < (2 * n + 1) * (2 * n + 1)
  BY <1>5, <1>6
<1>9. p \in 1..w /\ (2 * p - 1) * (2 * p - 1) <= x
  BY <1>7, <1>8
<1> HIDE DEF p
<1>10. p \in Nat /\ p > 0
  BY <1>1, <1>9
<1>11. ASSUME RouteD2[a][b] = 1 PROVE p = 1
  <2> DEFINE q == 2 * p - 1
  <2>1. q \in Int /\ q >= 1 /\ q * q <= 4
    BY <1>9, <1>10, <1>11 DEF x
  <2> HIDE DEF q
  <2>2. -2 <= q /\ q <= 2
    <3>1. 2 * 2 = 4 /\ 2 \in Nat
      OBVIOUS
    <3> QED BY <2>1, <3>1, RouteRootAbove
  <2> QED BY <1>10, <2>2 DEF q
<1> QED BY <1>10, <1>11 DEF p

(* A run's points, the last of them the corner it goes to.                   *)
LEMMA RouteRunIs ==
  ASSUME NEW a \in RouteCells, NEW b \in RouteCells, a # b
  PROVE  LET n == RoutePoints(a, b)
         IN  /\ RouteRun(a, b) \in Seq(RouteCells) /\ Len(RouteRun(a, b)) = n /\ n \in Nat /\ n > 0
             /\ RouteRun(a, b)[n] = b
             /\ \A k \in 1..n : RouteRun(a, b)[k] = RouteCell(RouteAt(a, b, k, n), n)
<1> DEFINE n == RoutePoints(a, b)
           r == RouteRun(a, b)
<1>1. r = [k \in 1..n |-> RouteCell(RouteAt(a, b, k, n), n)]
  BY DEF RouteRun, RoutePoints
<1>2. n \in Nat /\ n > 0
  BY RoutePointsIs
<1> HIDE DEF n, r
<1>3. \A k \in 1..n : r[k] = RouteCell(RouteAt(a, b, k, n), n) /\ r[k] \in RouteCells /\ (k = n => r[k] = b)
  <2> SUFFICES ASSUME NEW k \in 1..n PROVE r[k] = RouteCell(RouteAt(a, b, k, n), n) /\ r[k] \in RouteCells /\ (k = n => r[k] = b)
    OBVIOUS
  <2>1. k \in 0..n
    BY <1>2
  <2>2. RouteCell(RouteAt(a, b, k, n), n) \in RouteCells /\ (k = n => RouteCell(RouteAt(a, b, k, n), n) = b)
    BY <1>2, <2>1, RoutePointIs
  <2> QED BY <1>1, <2>2
<1>4. r \in [1..n -> RouteCells]
  BY <1>1, <1>3
<1>5. r \in Seq(RouteCells) /\ Len(r) = n
  BY <1>2, <1>4
<1> QED BY <1>2, <1>3, <1>5 DEF n, r

(* A cell is one the body may be in, or beside one.                          *)
RouteBy(map, c) == \E o \in RouteCells : map[o] > 0 /\ (o = c \/ o \in RouteRound[c])

(* Where a line's samples are open, a point laid anew on it is in an open    *)
(* cell or beside one.                                                       *)
LEMMA RouteStraight ==
  ASSUME NEW map \in RouteMaps, NEW a \in RouteCells, NEW b \in RouteCells, a # b,
         RouteLine(map, a, b) # RouteEndless, NEW k \in 1..RoutePoints(a, b)
  PROVE  RouteBy(map, RouteRun(a, b)[k])
<1> DEFINE n == RoutePoints(a, b)
           m == RouteUp(4 * RouteD2[a][b])
           i == RouteNearest(k * m, n)
           price == [j \in 1..(m + 1) |-> map[RouteCell(RouteAt(a, b, j - 1, m), m)]]
<1>1. n \in Nat /\ n > 0 /\ m \in Nat /\ m > 0 /\ m * m >= 4 * RouteD2[a][b]
  BY RoutePointsIs, RouteUpIs
<1>2. RouteLine(map, a, b) = IF \E j \in DOMAIN price : price[j] = 0 THEN RouteEndless ELSE RouteSum(price, m + 1)
  BY DEF RouteLine
<1> HIDE DEF n, m
<1>0. k \in 1..n
  BY DEF n
<1>3. \A j \in 1..(m + 1) : map[RouteCell(RouteAt(a, b, j - 1, m), m)] # 0
  BY <1>2
<1> HIDE DEF i
<1>4. i \in 0..m /\ -n <= k * m - i * n /\ k * m - i * n <= n
  <2> DEFINE km == k * m
  <2>1. km \in Int /\ n * 0 <= km /\ km <= n * m
    <3>1. k * m <= n * m /\ 0 * m <= k * m /\ k * m \in Int
      BY <1>0, <1>1, RouteTimes
    <3> QED BY <1>1, <3>1
  <2>2. i = RouteNearest(km, n)
    BY DEF i
  <2> HIDE DEF km
  <2>3. i \in Int /\ 2 * (n * i) <= 2 * km + n /\ 2 * km < 2 * (n * i) + n /\ 0 <= i /\ i <= m
    <3>1. /\ i \in Int /\ 2 * (n * i) <= 2 * km + n /\ 2 * km < 2 * (n * i) + n
          /\ \A z \in Int : (n * z <= km => z <= i) /\ (km <= n * z => i <= z)
      BY <1>1, <2>1, <2>2, RouteNearestIs
    <3>2. 0 \in Int /\ m \in Int
      BY <1>1
    <3> QED BY <2>1, <3>1, <3>2
  <2> DEFINE ni == n * i
  <2>4. ni \in Int /\ i * n = ni
    BY <1>1, <2>3
  <2>5. -n <= km - ni /\ km - ni <= n
    <3> HIDE DEF ni
    <3>1. 2 * ni <= 2 * km + n /\ 2 * km < 2 * ni + n
      BY <2>3 DEF ni
    <3> QED BY <1>1, <2>1, <2>4, <3>1
  <2> QED BY <1>1, <2>3, <2>4, <2>5 DEF km
<1> DEFINE c == RouteCell(RouteAt(a, b, i, m), m)
           o == RouteRun(a, b)[k]
<1>5. c \in RouteCells /\ map[c] > 0
  <2>1. c \in RouteCells
    BY <1>1, <1>4, RoutePointIs
  <2>2. i + 1 \in 1..(m + 1) /\ (i + 1) - 1 = i
    BY <1>1, <1>4
  <2>3. map[RouteCell(RouteAt(a, b, (i + 1) - 1, m), m)] # 0
    BY <1>3, <2>2
  <2>4. map[c] # 0
    BY <2>2, <2>3
  <2> HIDE DEF c
  <2>5. map[c] \in Nat
    BY <2>1 DEF RouteMaps
  <2> QED BY <2>1, <2>4, <2>5
<1>6. o = RouteCell(RouteAt(a, b, k, n), n)
  BY <1>0, RouteRunIs DEF n
<1> DEFINE dr == RouteRow(b) - RouteRow(a)
           dc == RouteCol(b) - RouteCol(a)
<1>7. dr \in Int /\ dc \in Int /\ -m <= dr /\ dr <= m /\ -m <= dc /\ dc <= m
  <2>1. RouteD2[a][b] = RouteD2[b][a] /\ RouteD2[b][a] = dr * dr + dc * dc
    BY RouteD2Is
  <2>2. dr \in Int /\ dc \in Int
    BY RouteCoords
  <2> HIDE DEF dr, dc
  <2>3. dr * dr \in Nat /\ dc * dc \in Nat /\ m * m \in Nat
    BY <1>1, <2>2, RouteSquare
  <2>4. dr * dr <= m * m /\ dc * dc <= m * m
    BY <1>1, <2>1, <2>3
  <2> QED BY <1>1, <2>2, <2>4, RouteRootAbove
<1>8. o \in RouteCells /\ RouteRow(o) - RouteRow(c) \in {-1, 0, 1} /\ RouteCol(o) - RouteCol(c) \in {-1, 0, 1}
  <2>1. k \in 0..n
    BY <1>0, <1>1
  <2>2. o \in RouteCells /\ RouteRow(o) = RouteNearest(n * RouteRow(a) + k * dr, n) /\ RouteCol(o) = RouteNearest(n * RouteCol(a) + k * dc, n)
    BY <1>1, <1>6, <2>1, RoutePointIs
  <2>3. RouteRow(c) = RouteNearest(m * RouteRow(a) + i * dr, m) /\ RouteCol(c) = RouteNearest(m * RouteCol(a) + i * dc, m)
    BY <1>1, <1>4, RoutePointIs
  <2> HIDE DEF dr, dc, o, c
  <2>4. RouteRow(a) \in Int /\ RouteCol(a) \in Int /\ k \in Int /\ i \in Int
    BY <1>0, <1>4, RouteCoords
  <2>5. RouteNearest(n * RouteRow(a) + k * dr, n) - RouteNearest(m * RouteRow(a) + i * dr, m) \in {-1, 0, 1}
    BY <1>1, <1>4, <1>7, <2>4, RouteBeside
  <2>6. RouteNearest(n * RouteCol(a) + k * dc, n) - RouteNearest(m * RouteCol(a) + i * dc, m) \in {-1, 0, 1}
    BY <1>1, <1>4, <1>7, <2>4, RouteBeside
  <2> QED BY <2>2, <2>3, <2>5, <2>6
<1> HIDE DEF o, c
<1>9. RouteD2[o][c] \in {0, 1, 2}
  <2> DEFINE u == RouteRow(o) - RouteRow(c)
             v == RouteCol(o) - RouteCol(c)
  <2>1. RouteD2[o][c] = u * u + v * v /\ u \in {-1, 0, 1} /\ v \in {-1, 0, 1}
    BY <1>5, <1>8, RouteD2Is
  <2> HIDE DEF u, v
  <2>2. u * u \in {0, 1} /\ v * v \in {0, 1}
    BY <2>1
  <2> QED BY <2>1, <2>2
<1>10. c = o \/ c \in RouteRound[o]
  BY <1>5, <1>8, <1>9, RouteD2Is, RouteRoundIs
<1>11. RouteBy(map, o)
  BY <1>5, <1>10 DEF RouteBy
<1> QED BY <1>11 DEF o

(* The prices of a stretch of a way are less than what is endless, also      *)
(* twice over.                                                               *)
LEMMA RouteStretch ==
  ASSUME NEW map \in RouteMaps, NEW p, RouteWayOf(map, p), NEW i \in 1..Len(p), NEW j \in 1..Len(p), i < j
  PROVE  2 * RouteSum([k \in 1..(j - i) |-> map[p[i + k]]], j - i) + 1 < RouteEndless
<1> DEFINE n == j - i
           f == [k \in 1..n |-> map[p[i + k]]]
           P == RoutePrice
<1>1. p \in Seq(RouteCells) /\ Len(p) <= RouteCount /\ Len(p) \in Nat
  BY DEF RouteWayOf
<1>2. n \in Nat /\ n <= RouteCount
  BY <1>1, RouteSizes
<1>3. \A k \in 1..n : f[k] \in Nat /\ f[k] <= P
  <2> SUFFICES ASSUME NEW k \in 1..n PROVE f[k] \in Nat /\ f[k] <= P
    OBVIOUS
  <2>1. i + k \in 1..Len(p)
    BY <1>1
  <2>2. p[i + k] \in RouteCells
    BY <1>1, <2>1
  <2> QED BY <2>2, RouteSizes DEF RouteMaps
<1>4. P \in Nat /\ P > 0
  BY RouteSizes
<1> HIDE DEF f, n
<1>5. PICK h \in [0..n -> Nat] : h[0] = 0 /\ (\A k \in 1..n : h[k] = h[k - 1] + f[k]) /\ RouteSum(f, n) = h[n]
  BY <1>2, <1>3, RouteSumIs
<1> HIDE DEF P
<1> DEFINE T == {k \in 0..n : h[k] <= k * P}
<1>6. 0 \in T
  <2>1. 0 * P = 0
    BY <1>4
  <2> QED BY <1>2, <1>5, <2>1
<1>7. ASSUME NEW k \in 1..n, k - 1 \in T PROVE k \in T
  <2> DEFINE l == k - 1
             lP == l * P
  <2>1. l \in Nat /\ k = l + 1 /\ h[l] <= lP /\ h[l] \in Nat /\ h[k] = h[l] + f[k] /\ lP \in Nat
    BY <1>2, <1>4, <1>5, <1>7
  <2>2. (l + 1) * P = lP + P
    BY <1>4, <2>1
  <2>3. h[k] <= k * P
    <3> HIDE DEF l, lP
    <3>1. k * P = lP + P
      BY <2>1, <2>2
    <3> QED BY <1>3, <1>4, <2>1, <3>1
  <2> QED BY <1>2, <2>3
<1> HIDE DEF T
<1>8. \A k \in 0..n : k \in T
  BY <1>2, <1>6, <1>7, ScanCounts
<1>9. h[n] <= n * P /\ h[n] \in Nat
  BY <1>2, <1>8 DEF T
<1>10. n * P <= RouteCount * P /\ n * P \in Int /\ RouteCount * P \in Int
  BY <1>2, <1>4, RouteSizes, RouteTimes
<1>11. RouteEndless = 2 * (RouteCount * P) + 2 * P
  BY RouteEndlessIs DEF P
<1> DEFINE s == RouteSum(f, n)
<1>12. s \in Nat /\ s <= RouteCount * P
  BY <1>5, <1>9, <1>10
<1> HIDE DEF s
<1>13. 2 * s + 1 < RouteEndless
  <2> DEFINE c == RouteCount * P
  <2>1. c \in Int /\ s <= c /\ RouteEndless = 2 * c + 2 * P
    BY <1>10, <1>11, <1>12
  <2> HIDE DEF c
  <2> QED BY <1>4, <1>12, <2>1
<1> QED BY <1>13 DEF s, f, n

(* There is a next corner, ahead.                                            *)
LEMMA RouteCornerIs ==
  ASSUME NEW map, NEW drops, NEW p, Len(p) \in Nat, NEW i \in 1..(Len(p) - 1)
  PROVE  LET j == RouteCorner(map, drops, p, i)
         IN  j \in (i + 1)..Len(p) /\ (j = i + 1 \/ RouteMayPull(map, drops, p, i, j))
<1> DEFINE L == Len(p)
           may(k) == RouteMayPull(map, drops, p, i, k)
           V == {k \in (i + 1)..L : k = i + 1 \/ may(k)}
           m == Max(V)
<1> HIDE DEF may
<1>1. i + 1 \in V /\ V \subseteq 0..L
  OBVIOUS
<1>2. m \in V /\ \A y \in V : y <= m
  <2> HIDE DEF V
  <2>1. V # {}
    BY <1>1
  <2> QED BY <1>1, <2>1, ScanGreatest
<1>3. m \in (i + 1)..L /\ (m = i + 1 \/ may(m)) /\ \A k \in (m + 1)..L : ~may(k)
  <2>1. m \in (i + 1)..L /\ (m = i + 1 \/ may(m)) /\ \A y \in V : y <= m
    BY <1>2
  <2> HIDE DEF m
  <2>2. ASSUME NEW k \in (m + 1)..L, may(k) PROVE FALSE
    <3>1. k \in (i + 1)..L /\ ~(k <= m)
      BY <2>1
    <3>2. k \in V
      BY <2>2, <3>1
    <3> QED BY <2>1, <3>1, <3>2
  <2> QED BY <2>1, <2>2
<1> HIDE DEF m, V
<1> DEFINE c == CHOOSE j \in (i + 1)..L : (j = i + 1 \/ may(j)) /\ \A k \in (j + 1)..L : ~may(k)
<1>4. c \in (i + 1)..L /\ (c = i + 1 \/ may(c))
  <2>1. \E j \in (i + 1)..L : (j = i + 1 \/ may(j)) /\ \A k \in (j + 1)..L : ~may(k)
    BY <1>3
  <2> QED BY <2>1, Zenon
<1>5. RouteCorner(map, drops, p, i) = c
  BY DEF RouteCorner, may
<1> HIDE DEF c
<1> QED BY <1>4, <1>5 DEF may

(* From corner to corner the run is by open cells, and ends at the corner.   *)
LEMMA RouteLegIs ==
  ASSUME NEW map \in RouteMaps, NEW drops, NEW p, RouteWayOf(map, p), NEW i \in 1..(Len(p) - 1)
  PROVE  LET j == RouteCorner(map, drops, p, i)
             r == RouteRun(p[i], p[j])
         IN  /\ j \in (i + 1)..Len(p) /\ r \in Seq(RouteCells) /\ Len(r) > 0 /\ r[Len(r)] = p[j]
             /\ \A k \in 1..Len(r) : RouteBy(map, r[k])
<1> DEFINE j == RouteCorner(map, drops, p, i)
           a == p[i]
           b == p[j]
           r == RouteRun(a, b)
<1>1. p \in Seq(RouteCells) /\ Len(p) \in Nat
  BY DEF RouteWayOf
<1>2. j \in (i + 1)..Len(p) /\ (j = i + 1 \/ RouteMayPull(map, drops, p, i, j))
  BY <1>1, RouteCornerIs
<1> HIDE DEF j
<1>3. i \in 1..Len(p) /\ j \in 1..Len(p) /\ i < j
  BY <1>1, <1>2
<1>4. a \in RouteCells /\ b \in RouteCells /\ a # b /\ map[b] > 0
  BY <1>1, <1>3 DEF RouteWayOf
<1> HIDE DEF a, b
<1>5. /\ r \in Seq(RouteCells) /\ Len(r) = RoutePoints(a, b) /\ Len(r) > 0 /\ Len(r) \in Nat /\ r[Len(r)] = b
  BY <1>4, RouteRunIs
<1>6. ASSUME NEW k \in 1..Len(r) PROVE RouteBy(map, r[k])
  <2>1. CASE j = i + 1
    <3>1. b \in RouteAround[a]
      <4>1. j \in 2..Len(p) /\ j - 1 = i
        BY <1>1, <1>3, <2>1
      <4> QED BY <4>1 DEF RouteWayOf, a, b
    <3>2. RouteD2[a][b] = 1
      BY <1>4, <3>1, RouteAroundIs
    <3>3. Len(r) = 1
      BY <1>4, <1>5, <3>2, RoutePointsIs
    <3>4. k = Len(r)
      BY <3>3
    <3>5. r[k] = b
      BY <1>5, <3>4
    <3> QED BY <1>4, <3>5 DEF RouteBy
  <2>2. CASE RouteMayPull(map, drops, p, i, j)
    <3> DEFINE s == 2 * RouteSum([l \in 1..(j - i) |-> map[p[i + l]]], j - i) + 1
    <3>1. RouteLine(map, a, b) <= s
      BY <2>2 DEF RouteMayPull, a, b
    <3>2. s < RouteEndless
      BY <1>3, RouteStretch
    <3>3. RouteLine(map, a, b) # RouteEndless
      <4> SUFFICES ASSUME RouteLine(map, a, b) = RouteEndless PROVE FALSE
        OBVIOUS
      <4>1. s \in Int
        <5> DEFINE f == [l \in 1..(j - i) |-> map[p[i + l]]]
        <5>1. j - i \in Nat
          BY <1>1, <1>3
        <5>2. \A l \in 1..(j - i) : f[l] \in Nat
          <6> SUFFICES ASSUME NEW l \in 1..(j - i) PROVE f[l] \in Nat
            OBVIOUS
          <6>1. i + l \in 1..Len(p)
            BY <1>1, <1>3
          <6>2. p[i + l] \in RouteCells
            BY <1>1, <6>1
          <6> QED BY <6>2 DEF RouteMaps
        <5> HIDE DEF f
        <5>3. PICK n \in Nat : n = j - i
          BY <5>1
        <5>4. \A l \in 1..n : f[l] \in Nat
          BY <5>2, <5>3
        <5>5. \E h \in [0..n -> Nat] : h[0] = 0 /\ (\A l \in 1..n : h[l] = h[l - 1] + f[l]) /\ RouteSum(f, n) = h[n]
          BY <5>4, RouteSumIs
        <5>6. RouteSum(f, n) \in Nat
          BY <5>5
        <5>7. RouteSum(f, j - i) \in Nat
          BY <5>3, <5>6
        <5> QED BY <5>7 DEF f
      <4> HIDE DEF s
      <4> QED BY <3>1, <3>2, <4>1, RouteEndlessIs
    <3>4. k \in 1..RoutePoints(a, b)
      BY <1>5
    <3> QED BY <1>4, <3>3, <3>4, RouteStraight
  <2> QED BY <1>2, <2>1, <2>2
<1> QED BY <1>2, <1>5, <1>6 DEF j, a, b

(* The pulled way goes from where the other does to where it ends, by cells  *)
(* the body may be in.                                                       *)
LEMMA RoutePulledIs ==
  ASSUME NEW map \in RouteMaps, NEW drops, NEW p, RouteWayOf(map, p)
  PROVE  LET w == RoutePulled(map, drops, p)
         IN  /\ w \in Seq(RouteCells) /\ \A k \in 1..Len(w) : RouteBy(map, w[k])
             /\ p # <<>> => w # <<>> /\ w[1] = p[1] /\ w[Len(w)] = p[Len(p)]
<1> DEFINE L == Len(p)
           on(s) == LET j == RouteCorner(map, drops, p, s.at) IN [at |-> j, way |-> s.way \o RouteRun(p[s.at], p[j])]
           next(s) == IF s.at = L THEN s ELSE on(s)
           a == [at |-> 1, way |-> <<p[1]>>]
           is(f) == f = [n \in 0..L |-> IF n = 0 THEN a ELSE CHOOSE t \in {IF s.at = L THEN s ELSE on(s) : s \in {f[n - 1]}} : TRUE]
           k == CHOOSE f : is(f)
           S == {s \in [at : 1..L, way : Seq(RouteCells)] :
                  /\ s.way # <<>> /\ s.way[1] = p[1] /\ s.way[Len(s.way)] = p[s.at]
                  /\ \A n \in 1..Len(s.way) : RouteBy(map, s.way[n])}
<1>1. p \in Seq(RouteCells) /\ L \in Nat /\ \A n \in 1..L : p[n] \in RouteCells /\ map[p[n]] > 0 /\ RouteBy(map, p[n])
  <2>1. p \in Seq(RouteCells) /\ L \in Nat /\ \A n \in 1..L : p[n] \in RouteCells /\ map[p[n]] > 0
    BY DEF RouteWayOf
  <2> QED BY <2>1 DEF RouteBy
<1>2. CASE L < 3
  <2>1. RoutePulled(map, drops, p) = p
    BY <1>2 DEF RoutePulled
  <2> QED BY <1>1, <2>1
<1>3. CASE ~(L < 3)
  <2>1. RoutePulled(map, drops, p) = k[L].way
    BY <1>3 DEF RoutePulled
  <2>2. ASSUME NEW v PROVE (CHOOSE t \in {IF s.at = L THEN s ELSE on(s) : s \in {v}} : TRUE) = next(v)
    <3> HIDE DEF next, on, L
    <3>1. {IF s.at = L THEN s ELSE on(s) : s \in {v}} = {next(v)}
      BY DEF next
    <3> QED BY <3>1
  <2>3. \A f : is(f) <=> f = [n \in 0..L |-> IF n = 0 THEN a ELSE next(f[n - 1])]
    <3> HIDE DEF next, on, L
    <3> QED BY <2>2 DEF next
  <2>4. a \in S
    <3>1. p[1] \in RouteCells /\ RouteBy(map, p[1]) /\ 1 \in 1..L
      BY <1>1, <1>3
    <3>2. a \in [at : 1..L, way : Seq(RouteCells)]
      BY <3>1
    <3> QED BY <3>1, <3>2
  <2>5. ASSUME NEW s \in S PROVE next(s) \in S /\ (s.at = L => next(s).at = L) /\ (s.at # L => next(s).at > s.at)
    <3>1. CASE s.at = L
      BY <3>1
    <3>2. CASE s.at # L
      <4> DEFINE i == s.at
                 j == RouteCorner(map, drops, p, i)
                 r == RouteRun(p[i], p[j])
                 w == s.way \o r
                 u == s.way
      <4>1. i \in 1..(L - 1)
        BY <1>1, <3>2
      <4>2. /\ j \in (i + 1)..Len(p) /\ r \in Seq(RouteCells) /\ Len(r) > 0 /\ r[Len(r)] = p[j]
            /\ \A n \in 1..Len(r) : RouteBy(map, r[n])
        BY <4>1, RouteLegIs
      <4>3. u \in Seq(RouteCells) /\ u # <<>> /\ u[1] = p[1] /\ \A n \in 1..Len(u) : RouteBy(map, u[n])
        OBVIOUS
      <4>4. next(s) = [at |-> j, way |-> w]
        BY <3>2
      <4> HIDE DEF next, on, i, j, r, u
      <4>5. w = u \o r
        BY DEF u
      <4> HIDE DEF w
      <4>6. Len(u) \in Nat /\ Len(u) > 0 /\ Len(r) \in Nat
        BY <4>2, <4>3
      <4>7. w \in Seq(RouteCells) /\ Len(w) = Len(u) + Len(r)
            /\ \A n \in 1..Len(w) : w[n] = IF n <= Len(u) THEN u[n] ELSE r[n - Len(u)]
        BY <4>2, <4>3, <4>5
      <4>8. w # <<>> /\ w[1] = p[1] /\ w[Len(w)] = p[j]
        <5>1. 1 \in 1..Len(w) /\ 1 <= Len(u) /\ Len(w) \in 1..Len(w) /\ ~(Len(w) <= Len(u)) /\ Len(w) - Len(u) = Len(r)
          BY <4>2, <4>6, <4>7
        <5>2. w # <<>>
          BY <4>7, <5>1
        <5>3. w[1] = p[1]
          BY <4>3, <4>7, <5>1
        <5>4. w[Len(w)] = r[Len(r)]
          BY <4>7, <5>1
        <5> QED BY <4>2, <5>2, <5>3, <5>4
      <4>9. \A n \in 1..Len(w) : RouteBy(map, w[n])
        <5> SUFFICES ASSUME NEW n \in 1..Len(w) PROVE RouteBy(map, w[n])
          OBVIOUS
        <5>1. CASE n <= Len(u)
          BY <4>3, <4>6, <4>7, <5>1
        <5>2. CASE ~(n <= Len(u))
          <6>1. n - Len(u) \in 1..Len(r)
            BY <4>6, <4>7, <5>2
          <6> QED BY <4>2, <4>7, <5>2, <6>1
        <5> QED BY <5>1, <5>2
      <4>10. j \in 1..L /\ j > i
        BY <1>1, <4>1, <4>2
      <4>11. next(s) \in S
        BY <4>4, <4>7, <4>8, <4>9, <4>10
      <4> QED BY <3>2, <4>4, <4>10, <4>11 DEF i
    <3> QED BY <3>1, <3>2
  <2>13. \A s \in S : s.at \in 1..L
    OBVIOUS
  <2>14. \A s \in S : /\ s.way \in Seq(RouteCells) /\ s.way # <<>> /\ s.way[1] = p[1] /\ s.way[Len(s.way)] = p[s.at]
                      /\ \A n \in 1..Len(s.way) : RouteBy(map, s.way[n])
    OBVIOUS
  <2> HIDE DEF is, next, on, L, S, a
  <2> DEFINE G == [n \in 1..L |-> [v \in S |-> next(v)]]
  <2>6. G \in [1..L -> [S -> S]] /\ \A n \in 1..L : \A v \in S : G[n][v] = next(v)
    BY <2>5
  <2> HIDE DEF G
  <2>7. PICK h \in [0..L -> S] : ScanGoes(L, a, G, h)
    BY <1>1, <2>4, <2>6, ScanIterates
  <2>8. ASSUME NEW n \in 0..L PROVE h[n] = IF n = 0 THEN a ELSE next(h[n - 1])
    <3>1. CASE n = 0
      BY <2>7, <3>1 DEF ScanGoes
    <3>2. CASE n # 0
      <4>1. n \in 1..L /\ n - 1 \in 0..L
        BY <1>1, <3>2
      <4> QED BY <2>6, <2>7, <3>2, <4>1 DEF ScanGoes
    <3> QED BY <3>1, <3>2
  <2>9. is(h)
    BY <2>3, <2>8
  <2>10. is(k)
    BY <2>9, Zenon
  <2> HIDE DEF k
  <2>11. k[0] = a /\ \A n \in 1..L : k[n] = next(k[n - 1])
    <3>1. k = [n \in 0..L |-> IF n = 0 THEN a ELSE next(k[n - 1])]
      BY <2>3, <2>10, Zenon
    <3> HIDE DEF next, L, a
    <3>2. ASSUME NEW n \in 0..L PROVE k[n] = IF n = 0 THEN a ELSE next(k[n - 1])
      BY <3>1, Zenon
    <3>3. L \in Nat
      BY <1>1
    <3>4. 0 \in 0..L /\ \A n \in 1..L : n \in 0..L /\ n # 0
      BY <3>3
    <3>5. k[0] = a
      BY <3>2, <3>4, Zenon
    <3>6. ASSUME NEW n \in 1..L PROVE k[n] = next(k[n - 1])
      BY <3>2, <3>4, Zenon
    <3> QED BY <3>5, <3>6, Zenon
  <2>12. k[L] \in S /\ k[L].at = L
    <3> DEFINE T == {n \in 0..L : k[n] \in S /\ (k[n].at = L \/ k[n].at > n)}
    <3>1. 0 \in T
      BY <1>1, <2>4, <2>11, <2>13
    <3>2. ASSUME NEW n \in 1..L, n - 1 \in T PROVE n \in T
      <4> DEFINE s == k[n - 1]
                 t == k[n]
      <4>1. s \in S /\ (s.at = L \/ s.at > n - 1) /\ t = next(s)
        BY <2>11, <3>2
      <4> HIDE DEF s, t
      <4>2. t \in S /\ (s.at = L => t.at = L) /\ (s.at # L => t.at > s.at)
        BY <2>5, <4>1
      <4>3. s.at \in 1..L /\ t.at \in 1..L
        BY <2>13, <4>1, <4>2
      <4>4. t.at = L \/ t.at > n
        BY <1>1, <4>1, <4>2, <4>3
      <4> QED BY <4>2, <4>4 DEF t
    <3> HIDE DEF T
    <3>3. \A n \in 0..L : n \in T
      BY <1>1, <3>1, <3>2, ScanCounts
    <3>4. L \in T
      BY <1>1, <3>3
    <3> QED BY <1>1, <2>13, <3>4 DEF T
  <2>15. p # <<>> => k[L].way # <<>> /\ k[L].way[1] = p[1] /\ k[L].way[Len(k[L].way)] = p[L]
    BY <2>12, <2>14
  <2> QED BY <2>1, <2>12, <2>14, <2>15 DEF L
<1> QED BY <1>2, <1>3

(* One round of the flood, and a set it can add nothing to.                  *)
RouteSpread(among, g) == g \union {x \in among : RouteRound[x] \intersect g # {}}
RouteShut(among, g) == \A x \in among : RouteRound[x] \intersect g # {} => x \in g

(* A flood takes in what is round what it has, until nothing is: it is the   *)
(* least such set about its cell.                                            *)
LEMMA RouteFloodIs ==
  ASSUME NEW among \in SUBSET RouteCells, NEW c \in among
  PROVE  LET F == RouteFlood(c, among)
         IN  /\ F \in SUBSET among /\ c \in F /\ RouteShut(among, F)
             /\ \A S : c \in S /\ RouteShut(among, S) => F \subseteq S
<1> DEFINE N == RouteCount
           next(g) == RouteSpread(among, g)
           is(f) == f = [n \in 0..N |-> IF n = 0 THEN {c}
                           ELSE CHOOSE t \in {g \union {x \in among : RouteRound[x] \intersect g # {}} : g \in {f[n - 1]}} : TRUE]
           k == CHOOSE f : is(f)
           G == [n \in 1..N |-> [v \in SUBSET among |-> next(v)]]
<1>1. N \in Nat /\ N > 0
  BY RouteSizes
<1>2. RouteFlood(c, among) = k[N]
  BY DEF RouteFlood
<1>3. ASSUME NEW v PROVE (CHOOSE t \in {g \union {x \in among : RouteRound[x] \intersect g # {}} : g \in {v}} : TRUE) = next(v)
  <2>1. {g \union {x \in among : RouteRound[x] \intersect g # {}} : g \in {v}} = {next(v)}
    BY DEF RouteSpread
  <2> QED BY <2>1
<1>4. \A f : is(f) <=> f = [n \in 0..N |-> IF n = 0 THEN {c} ELSE next(f[n - 1])]
  <2> HIDE DEF next
  <2> QED BY <1>3
<1>5. \A v \in SUBSET among : next(v) \in SUBSET among /\ v \subseteq next(v)
  BY DEF RouteSpread
<1> HIDE DEF is, next, k, N
<1>6. G \in [1..N -> [SUBSET among -> SUBSET among]] /\ \A n \in 1..N : \A v \in SUBSET among : G[n][v] = next(v)
  BY <1>5
<1>7. {c} \in SUBSET among
  OBVIOUS
<1> HIDE DEF G
<1>8. PICK h \in [0..N -> SUBSET among] : ScanGoes(N, {c}, G, h)
  <2> DEFINE S == SUBSET among
             a == {c}
  <2>1. G \in [1..N -> [S -> S]] /\ a \in S
    BY <1>6, <1>7
  <2> HIDE DEF S, a
  <2>2. \E h \in [0..N -> S] : ScanGoes(N, a, G, h)
    BY <1>1, <2>1, ScanIterates
  <2> QED BY <2>2 DEF S, a
<1>9. ASSUME NEW n \in 0..N PROVE h[n] = IF n = 0 THEN {c} ELSE next(h[n - 1])
  <2>1. CASE n = 0
    BY <1>8, <2>1 DEF ScanGoes
  <2>2. CASE n # 0
    <3>1. n \in 1..N /\ n - 1 \in 0..N
      BY <1>1, <2>2
    <3> QED BY <1>6, <1>8, <2>2, <3>1 DEF ScanGoes
  <2> QED BY <2>1, <2>2
<1>10. is(h)
  BY <1>4, <1>9
<1>11. is(k)
  BY <1>10, Zenon DEF k
<1>12. k[0] = {c} /\ \A n \in 1..N : k[n] = next(k[n - 1])
  <2>1. k = [n \in 0..N |-> IF n = 0 THEN {c} ELSE next(k[n - 1])]
    BY <1>4, <1>11, Zenon
  <2>2. 0 \in 0..N /\ \A n \in 1..N : n \in 0..N /\ n # 0
    BY <1>1
  <2>3. k[0] = {c}
    BY <2>1, <2>2, Zenon
  <2>4. \A n \in 1..N : k[n] = next(k[n - 1])
    BY <2>1, <2>2, Zenon
  <2> QED BY <2>3, <2>4
<1>13. \A g \in SUBSET among : IsFiniteSet(g) /\ Cardinality(g) \in Nat /\ Cardinality(g) <= N
  <2> SUFFICES ASSUME NEW g \in SUBSET among PROVE IsFiniteSet(g) /\ Cardinality(g) \in Nat /\ Cardinality(g) <= N
    OBVIOUS
  <2>1. g \in SUBSET RouteCells
    OBVIOUS
  <2> QED BY <2>1, RouteCellsFinite, FS_Subset, FS_CardinalityType DEF N
<1>14. \A n \in 0..N : k[n] \in SUBSET among /\ c \in k[n] /\ (RouteShut(among, k[n]) \/ Cardinality(k[n]) > n)
  <2> DEFINE T == {n \in 0..N : k[n] \in SUBSET among /\ c \in k[n] /\ (RouteShut(among, k[n]) \/ Cardinality(k[n]) > n)}
  <2>1. 0 \in T
    <3>1. Cardinality({c}) = 1
      BY FS_Singleton
    <3>2. Cardinality(k[0]) > 0
      BY <1>12, <3>1
    <3>3. k[0] \in SUBSET among /\ c \in k[0]
      BY <1>7, <1>12
    <3> QED BY <1>1, <3>2, <3>3
  <2>2. ASSUME NEW n \in 1..N, n - 1 \in T PROVE n \in T
    <3> DEFINE g == k[n - 1]
               f == k[n]
    <3>1. g \in SUBSET among /\ c \in g /\ (RouteShut(among, g) \/ Cardinality(g) > n - 1) /\ f = next(g)
      BY <1>12, <2>2
    <3> HIDE DEF g, f
    <3>2. f \in SUBSET among /\ g \subseteq f /\ c \in f
      BY <1>5, <3>1
    <3>3. CASE RouteShut(among, g)
      <4>1. f = g
        BY <3>1, <3>3 DEF next, RouteSpread, RouteShut
      <4> QED BY <3>2, <3>3, <4>1 DEF f
    <3>4. CASE ~RouteShut(among, g)
      <4>1. f # g
        BY <3>1, <3>4 DEF next, RouteSpread, RouteShut
      <4>2. Cardinality(g) < Cardinality(f)
        <5>1. IsFiniteSet(f) /\ Cardinality(g) \in Nat /\ Cardinality(f) \in Nat
          BY <1>13, <3>1, <3>2
        <5>2. Cardinality(g) <= Cardinality(f) /\ (Cardinality(g) = Cardinality(f) => g = f)
          BY <3>2, <5>1, FS_Subset
        <5> QED BY <4>1, <5>1, <5>2
      <4>3. Cardinality(f) > n
        BY <1>13, <3>1, <3>2, <3>4, <4>2
      <4> QED BY <3>2, <4>3 DEF f
    <3> QED BY <3>3, <3>4
  <2> HIDE DEF T
  <2>3. \A n \in 0..N : n \in T
    BY <1>1, <2>1, <2>2, ScanCounts
  <2> QED BY <2>3 DEF T
<1>15. k[N] \in SUBSET among /\ c \in k[N] /\ RouteShut(among, k[N])
  BY <1>1, <1>13, <1>14
<1>16. ASSUME NEW S, c \in S, RouteShut(among, S) PROVE k[N] \subseteq S
  <2> DEFINE T == {n \in 0..N : k[n] \subseteq S}
  <2>1. 0 \in T
    BY <1>1, <1>12, <1>16
  <2>2. ASSUME NEW n \in 1..N, n - 1 \in T PROVE n \in T
    BY <1>12, <1>16, <2>2 DEF next, RouteSpread, RouteShut
  <2> HIDE DEF T
  <2>3. \A n \in 0..N : n \in T
    BY <1>1, <2>1, <2>2, ScanCounts
  <2> QED BY <1>1, <2>3 DEF T
<1> QED BY <1>2, <1>15, <1>16

(* A flood is that of any of its cells: two have all in common, or nothing.  *)
LEMMA RouteFloodsApart ==
  ASSUME NEW among \in SUBSET RouteCells, NEW c \in among, NEW d \in among,
         NEW x \in RouteFlood(c, among), x \in RouteFlood(d, among)
  PROVE  RouteFlood(c, among) = RouteFlood(d, among)
<1>1. ASSUME NEW y \in among, NEW z \in RouteFlood(y, among) PROVE RouteFlood(y, among) = RouteFlood(z, among)
  <2> DEFINE F == RouteFlood(y, among)
             E == RouteFlood(z, among)
             S == F \ E
  <2>1. F \in SUBSET among /\ y \in F /\ RouteShut(among, F) /\ \A B : y \in B /\ RouteShut(among, B) => F \subseteq B
    BY RouteFloodIs
  <2>2. z \in among
    BY <2>1
  <2>3. E \in SUBSET among /\ z \in E /\ RouteShut(among, E) /\ \A B : z \in B /\ RouteShut(among, B) => E \subseteq B
    BY <2>2, RouteFloodIs
  <2>4. z \in F
    OBVIOUS
  <2> HIDE DEF F, E
  <2>5. E \subseteq F
    BY <2>1, <2>3, <2>4
  <2>6. RouteShut(among, S)
    <3> SUFFICES ASSUME NEW v \in among, NEW w \in RouteRound[v], w \in S PROVE v \in S
      BY DEF RouteShut
    <3>1. v \in F
      BY <2>1 DEF RouteShut
    <3>2. v \in RouteRound[w] /\ w \in among
      BY <2>1, RouteRoundIs
    <3>3. v \notin E
      BY <2>3, <3>2 DEF RouteShut
    <3> QED BY <3>1, <3>3
  <2>7. y \notin S
    BY <2>1, <2>3, <2>4, <2>6
  <2>8. F \subseteq E
    BY <2>1, <2>3, <2>7
  <2> QED BY <2>5, <2>8 DEF F, E
<1> QED BY <1>1

(* Among more cells, a flood is no smaller.                                  *)
LEMMA RouteFloodsMore ==
  ASSUME NEW more \in SUBSET RouteCells, NEW among \in SUBSET more, NEW c \in among
  PROVE  RouteFlood(c, among) \subseteq RouteFlood(c, more)
<1>1. RouteShut(more, RouteFlood(c, more)) /\ c \in RouteFlood(c, more)
  BY RouteFloodIs
<1>2. RouteShut(among, RouteFlood(c, more))
  BY <1>1 DEF RouteShut
<1>3. among \in SUBSET RouteCells
  OBVIOUS
<1> QED BY <1>1, <1>2, <1>3, RouteFloodIs

(* Ratios compare by cross-multiplication, one after the other.              *)
LEMMA RouteCross ==
  ASSUME NEW a \in Nat, NEW b \in Nat, NEW c \in Nat, NEW u \in Nat, NEW v \in Nat, NEW w \in Nat, v > 0, u > 0, w > 0,
         a * v <= b * u, b * w <= c * v
  PROVE  /\ a * w \in Nat /\ c * u \in Nat /\ a * w <= c * u
         /\ a * v < b * u \/ b * w < c * v => a * w < c * u
<1> DEFINE av == a * v
           bu == b * u
           bw == b * w
           cv == c * v
           aw == a * w
           cu == c * u
<1>1. av \in Nat /\ bu \in Nat /\ bw \in Nat /\ cv \in Nat /\ aw \in Nat /\ cu \in Nat
  OBVIOUS
<1>2. av * w = aw * v /\ bu * w = bw * u /\ cv * u = cu * v
  OBVIOUS
<1>3. av <= bu /\ bw <= cv
  OBVIOUS
<1> HIDE DEF av, bu, bw, cv, aw, cu
<1>4. (av < bu <=> av * w < bu * w) /\ (av <= bu <=> av * w <= bu * w) /\ av * w \in Int /\ bu * w \in Int
  BY <1>1, ScanTimes
<1>5. (bw < cv <=> bw * u < cv * u) /\ (bw <= cv <=> bw * u <= cv * u) /\ bw * u \in Int /\ cv * u \in Int
  BY <1>1, ScanTimes
<1>6. (aw < cu <=> aw * v < cu * v) /\ (aw <= cu <=> aw * v <= cu * v) /\ aw * v \in Int /\ cu * v \in Int
  BY <1>1, ScanTimes
<1>7. aw <= cu /\ (av < bu \/ bw < cv => aw < cu)
  BY <1>2, <1>3, <1>4, <1>5, <1>6
<1> QED BY <1>1, <1>7 DEF av, bu, bw, cv, aw, cu

(* What the frontiers ranked hold.                                           *)
RouteFound(S) == \A f \in S : f.cost \in Nat /\ f.cells \in Nat /\ f.cells > 0 /\ f.target \in Nat

(* What a group is worth is at least one.                                    *)
LEMMA RouteWorthIs ==
  ASSUME NEW f, f.cells \in Nat, f.cells > 0
  PROVE  RouteWorth(f) \in Nat /\ RouteWorth(f) > 0
BY RouteSizes DEF RouteWorth

(* Better is an order, and of two frontiers at different cells one is.       *)
LEMMA RouteOrders ==
  ASSUME NEW S, RouteFound(S), NEW f \in S, NEW g \in S
  PROVE  /\ ~RouteBetter(f, f)
         /\ f.target # g.target => RouteBetter(f, g) \/ RouteBetter(g, f)
         /\ ~RouteBetter(g, f) => f.cost * RouteWorth(g) <= g.cost * RouteWorth(f)
         /\ \A h \in S : RouteBetter(f, g) /\ RouteBetter(g, h) => RouteBetter(f, h)
<1> DEFINE F == RouteWorth(f)
           G == RouteWorth(g)
<1>1. \A x \in S : x.cost \in Nat /\ x.target \in Nat /\ RouteWorth(x) \in Nat /\ RouteWorth(x) > 0
  BY RouteWorthIs DEF RouteFound
<1> HIDE DEF RouteFound
<1>2. f.cost * F \in Nat /\ f.cost * G \in Nat /\ g.cost * F \in Nat /\ f.target \in Nat /\ g.target \in Nat
  BY <1>1
<1>3. ~RouteBetter(f, f)
  BY <1>2 DEF RouteBetter
<1>4. f.target # g.target => RouteBetter(f, g) \/ RouteBetter(g, f)
  BY <1>2 DEF RouteBetter
<1>5. ~RouteBetter(g, f) => f.cost * G <= g.cost * F
  BY <1>2 DEF RouteBetter
<1>6. ASSUME NEW h \in S, RouteBetter(f, g), RouteBetter(g, h) PROVE RouteBetter(f, h)
  <2> DEFINE a == f.cost
             b == g.cost
             c == h.cost
             H == RouteWorth(h)
  <2>1. a \in Nat /\ b \in Nat /\ c \in Nat /\ F \in Nat /\ G \in Nat /\ H \in Nat /\ F > 0 /\ G > 0 /\ H > 0
    BY <1>1
  <2>2. /\ a * G < b * F \/ (a * G = b * F /\ f.target < g.target)
        /\ b * H < c * G \/ (b * H = c * G /\ g.target < h.target)
    BY <1>6 DEF RouteBetter
  <2>3. f.target \in Nat /\ g.target \in Nat /\ h.target \in Nat
    BY <1>1
  <2>4. (a * H < c * F \/ (a * H = c * F /\ f.target < h.target)) => RouteBetter(f, h)
    BY DEF RouteBetter
  <2> HIDE DEF a, b, c, F, G, H
  <2>5. a * G \in Nat /\ b * F \in Nat /\ b * H \in Nat /\ c * G \in Nat
    BY <2>1
  <2>6. a * G <= b * F /\ b * H <= c * G
    BY <2>2, <2>5
  <2>7. a * H \in Nat /\ c * F \in Nat /\ a * H <= c * F /\ (a * G < b * F \/ b * H < c * G => a * H < c * F)
    BY <2>1, <2>6, RouteCross
  <2>8. CASE a * G < b * F \/ b * H < c * G
    BY <2>4, <2>7, <2>8
  <2>9. CASE f.target < g.target /\ g.target < h.target
    <3>1. f.target < h.target
      BY <2>3, <2>9
    <3> QED BY <2>4, <2>7, <3>1
  <2> QED BY <2>2, <2>8, <2>9
<1> QED BY <1>3, <1>4, <1>5, <1>6

(* What is ranked is all there, none after one that is better.               *)
LEMMA RouteRankedIs ==
  ASSUME NEW S, IsFiniteSet(S), RouteFound(S), \A f, g \in S : f.target = g.target => f = g
  PROVE  /\ Cardinality(S) \in Nat /\ RouteRanked(S) \in [1..Cardinality(S) -> S]
         /\ \A n \in 2..Cardinality(S) :
              LET f == RouteRanked(S)[n - 1]
                  g == RouteRanked(S)[n]
              IN  f.cost * RouteWorth(g) <= g.cost * RouteWorth(f)
<1> DEFINE N == Cardinality(S)
           below(x) == {y \in S : RouteBetter(y, x)}
           rank(x) == Cardinality(below(x))
           o == RouteRanked(S)
           r == [x \in S |-> rank(x)]
<1>1. N \in Nat
  BY FS_CardinalityType
<1>2. /\ \A x \in S : ~RouteBetter(x, x)
      /\ \A x, y \in S : x # y => RouteBetter(x, y) \/ RouteBetter(y, x)
      /\ \A x, y, z \in S : RouteBetter(x, y) /\ RouteBetter(y, z) => RouteBetter(x, z)
      /\ \A x, y \in S : ~RouteBetter(y, x) => x.cost * RouteWorth(y) <= y.cost * RouteWorth(x)
  BY RouteOrders
<1>3. ASSUME NEW x \in S PROVE rank(x) \in 0..(N - 1) /\ IsFiniteSet(below(x))
  <2>1. below(x) \in SUBSET S /\ x \notin below(x)
    BY <1>2
  <2> HIDE DEF below
  <2>2. IsFiniteSet(below(x)) /\ rank(x) <= N /\ rank(x) # N
    BY <2>1, FS_Subset
  <2>3. rank(x) \in Nat
    BY <2>2, FS_CardinalityType
  <2> QED BY <1>1, <2>2, <2>3
<1>4. ASSUME NEW x \in S, NEW y \in S, RouteBetter(x, y) PROVE rank(x) < rank(y)
  <2>1. below(x) \in SUBSET below(y) /\ x \in below(y) /\ x \notin below(x)
    BY <1>2, <1>4
  <2>2. IsFiniteSet(below(y)) /\ rank(x) \in 0..(N - 1) /\ rank(y) \in 0..(N - 1)
    BY <1>3
  <2> HIDE DEF below
  <2>3. rank(x) <= rank(y) /\ (rank(x) = rank(y) => below(x) = below(y))
    BY <2>1, <2>2, FS_Subset
  <2> QED BY <1>1, <2>1, <2>2, <2>3
<1> HIDE DEF rank
<1>5. ASSUME NEW x \in S, NEW y \in S PROVE (rank(x) = rank(y) => x = y) /\ (rank(x) < rank(y) => ~RouteBetter(y, x))
  <2>2. rank(x) \in 0..(N - 1) /\ rank(y) \in 0..(N - 1)
    BY <1>3
  <2>3. rank(x) \in Int /\ rank(y) \in Int
    BY <2>2
  <2> QED BY <1>2, <1>4, <2>3
<1>6. r \in Surjection(S, 0..(N - 1))
  <2> DEFINE T == 0..(N - 1)
  <2>1. r \in [S -> T]
    BY <1>3
  <2>2. \A x, y \in S : r[x] = r[y] => x = y
    BY <1>5
  <2>3. r \in Injection(S, T)
    BY <2>1, <2>2 DEF Injection, IsInjective
  <2>4. IsFiniteSet(T) /\ Cardinality(T) = N
    BY <1>1, FS_Interval
  <2> HIDE DEF T, r
  <2>5. r \in Surjection(S, T)
    BY <2>3, <2>4, FS_Injection
  <2> QED BY <2>5 DEF T
<1>7. ASSUME NEW n \in 1..N PROVE o[n] \in S /\ rank(o[n]) = n - 1
  <2>1. n - 1 \in 0..(N - 1)
    BY <1>1
  <2>2. \E x \in S : r[x] = n - 1
    BY <1>6, <2>1 DEF Surjection
  <2>3. \E x \in S : rank(x) = n - 1
    BY <2>2
  <2>4. o[n] = CHOOSE x \in S : rank(x) = n - 1
    BY DEF RouteRanked, rank
  <2> HIDE DEF o
  <2> QED BY <2>3, <2>4
<1> HIDE DEF r
<1>8. o \in [1..N -> S]
  <2> DEFINE b(n) == CHOOSE f \in S : Cardinality({g \in S : RouteBetter(g, f)}) = n - 1
  <2>0. o = [n \in 1..N |-> b(n)]
    BY DEF RouteRanked
  <2> HIDE DEF b, o
  <2>1. o = [n \in 1..N |-> o[n]]
    BY <2>0
  <2> HIDE DEF o
  <2> QED BY <1>7, <2>1
<1> HIDE DEF o
<1>9. ASSUME NEW n \in 2..N PROVE ~RouteBetter(o[n], o[n - 1])
  <2>1. n \in 1..N /\ n - 1 \in 1..N
    BY <1>1
  <2>2. rank(o[n - 1]) < rank(o[n])
    BY <1>1, <1>7, <2>1
  <2> QED BY <1>5, <1>7, <2>1, <2>2
<1>10. ASSUME NEW n \in 2..N PROVE o[n - 1].cost * RouteWorth(o[n]) <= o[n].cost * RouteWorth(o[n - 1])
  <2>1. o[n] \in S /\ o[n - 1] \in S
    BY <1>1, <1>7
  <2> QED BY <1>2, <1>9, <2>1
<1> QED BY <1>1, <1>8, <1>10 DEF o

(* The frontier cells that are live, reachable or not.                       *)
RouteAlive(ask) == {c \in RouteCells : RouteLive(ask, c)}

(* What RouteNoneLeftOut asks of each on the list.                           *)
RouteFits(ask, map, f) ==
  /\ f.cells >= RouteMin /\ f.cells <= RouteLargest(ask)
  /\ RouteLive(ask, f.target) /\ f.target \notin {c \in RouteCells : \E b \in ask.blocked : RouteD2[b][c] <= RouteBlock}
  /\ \A j \in DOMAIN f.path : map[f.path[j]] > 0
  /\ f.path # <<>> => f.path[Len(f.path)] = f.target

(* No group of the map is larger than the largest.                           *)
LEMMA RouteLargestIs ==
  ASSUME NEW ask, NEW c \in RouteAlive(ask)
  PROVE  RouteLargest(ask) \in Nat /\ Cardinality(RouteFlood(c, RouteAlive(ask))) <= RouteLargest(ask)
<1> DEFINE live == RouteAlive(ask)
           size(g) == Cardinality(g)
           sizes == {size(g) : g \in RouteGroups(live)}
           n == CHOOSE n \in sizes \union {0} : \A m \in sizes : m <= n
<1>1. RouteLargest(ask) = n
  BY DEF RouteLargest, RouteAlive
<1>2. live \in SUBSET RouteCells
  BY DEF RouteAlive
<1> HIDE DEF live
<1>3. ASSUME NEW g \in RouteGroups(live) PROVE Cardinality(g) \in 0..RouteCount
  <2>1. PICK x \in live : g = RouteFlood(x, live)
    BY DEF RouteGroups
  <2>2. g \in SUBSET live
    BY <1>2, <2>1, RouteFloodIs
  <2>3. g \in SUBSET RouteCells
    BY <1>2, <2>2
  <2>4. IsFiniteSet(g) /\ Cardinality(g) <= RouteCount
    BY <2>3, RouteCellsFinite, FS_Subset
  <2>5. Cardinality(g) \in Nat
    BY <2>4, FS_CardinalityType
  <2> QED BY <2>4, <2>5, RouteSizes
<1> DEFINE S == sizes \union {0}
<1>4. S \subseteq 0..RouteCount /\ 0 \in S /\ sizes \subseteq S
  BY <1>3, RouteSizes
<1>5. RouteFlood(c, live) \in RouteGroups(live)
  BY DEF RouteGroups, live
<1>6. Cardinality(RouteFlood(c, live)) \in sizes
  BY <1>5
<1> HIDE DEF sizes
<1>7. Max(S) \in S /\ \A y \in S : y <= Max(S)
  <2> HIDE DEF S
  <2> QED BY <1>4, RouteSizes, ScanGreatest
<1>8. \E k \in S : \A m \in sizes : m <= k
  BY <1>4, <1>7
<1>9. n \in S /\ \A m \in sizes : m <= n
  BY <1>8
<1>10. S \subseteq Nat
  BY <1>4, RouteSizes
<1> HIDE DEF n, S
<1> QED BY <1>1, <1>6, <1>9, <1>10 DEF live

(* A group's frontier is at a cell of it that is not blocked, at the end of  *)
(* a way there.                                                              *)
LEMMA RouteFrontierIs ==
  ASSUME NEW ask, ask.blocked \subseteq RouteCells, NEW map \in RouteMaps, NEW start \in RouteCells,
         NEW s, s = RouteSearched(map, start, 0),
         NEW among, among = {c \in RouteCells : s.cost[c] < RouteEndless /\ RouteLive(ask, c)},
         NEW g \in RouteGroups(among), Cardinality(g) >= RouteMin, RouteFree4(ask, g) # {}
  PROVE  LET f == RouteFrontierOf(ask, s, start, g)
         IN  /\ RouteFits(ask, map, f) /\ f.target \in g
             /\ f.cost \in Nat /\ f.cells \in Nat /\ f.cells > 0 /\ f.target \in Nat
<1> DEFINE free == RouteFree4(ask, g)
           target == CHOOSE c \in free : \A o \in free : s.cost[c] <= s.cost[o]
           path == RouteTrace(s.from, start, target)
           f == RouteFrontierOf(ask, s, start, g)
<1>1. f.cells = Cardinality(g) /\ f.target = target /\ f.path = path /\ f.cost = s.cost[target]
  BY DEF RouteFrontierOf
<1> HIDE DEF f
<1>2. RouteSound(map, start, s)
  BY RouteFullIs
<1>3. among \in SUBSET RouteCells /\ among \in SUBSET RouteAlive(ask) /\ RouteAlive(ask) \in SUBSET RouteCells
  BY DEF RouteAlive
<1>4. PICK c \in among : g = RouteFlood(c, among)
  BY DEF RouteGroups
<1>5. g \in SUBSET among /\ c \in g
  BY <1>3, <1>4, RouteFloodIs
<1>6. free \in SUBSET g /\ \A x \in free : \A b \in ask.blocked : RouteD2[b][x] > RouteBlock
  BY DEF RouteFree4
<1>7. \A x \in RouteCells : s.cost[x] \in Nat
  BY <1>2, RouteCosts
<1>8. target \in free
  <2>1. free \subseteq Nat /\ free # {} /\ \A x \in free : s.cost[x] \in Nat
    BY <1>3, <1>5, <1>6, <1>7, RouteCellsFinite
  <2> DEFINE fun == s.cost
  <2> HIDE DEF free, fun
  <2>2. \E x \in free : \A o \in free : fun[x] < fun[o] \/ (fun[x] = fun[o] /\ x <= o)
    BY <2>1, RouteFirstLeast DEF fun
  <2>3. \E x \in free : \A o \in free : fun[x] <= fun[o]
    BY <2>1, <2>2 DEF fun
  <2> QED BY <2>3 DEF fun
<1> HIDE DEF free, target
<1>9. target \in g /\ target \in among /\ target \in RouteCells
  BY <1>3, <1>5, <1>6, <1>8
<1>10. s.cost[target] < RouteEndless /\ RouteLive(ask, target)
  BY <1>9
<1>11. target \notin {x \in RouteCells : \E b \in ask.blocked : RouteD2[b][x] <= RouteBlock}
  <2> SUFFICES ASSUME NEW b \in ask.blocked PROVE ~(RouteD2[b][target] <= RouteBlock)
    OBVIOUS
  <2>1. RouteD2[b][target] > RouteBlock
    BY <1>6, <1>8
  <2>2. RouteD2[b][target] \in Nat /\ RouteBlock \in Nat
    BY <1>9, RouteD2Is, RouteAssumption
  <2> QED BY <2>1, <2>2
<1>12. /\ path \in Seq(RouteCells) /\ \A k \in 1..Len(path) : map[path[k]] > 0
       /\ path # <<>> => path[Len(path)] = target
  BY <1>2, <1>9, <1>10, RouteTraceIs
<1>13. Cardinality(g) \in Nat /\ Cardinality(g) > 0 /\ Cardinality(g) <= RouteLargest(ask)
  <2> DEFINE m == RouteFlood(c, RouteAlive(ask))
  <2>1. c \in RouteAlive(ask)
    BY <1>3
  <2>2. g \subseteq m
    BY <1>3, <1>4, RouteFloodsMore
  <2>3. m \in SUBSET RouteAlive(ask)
    BY <1>3, <2>1, RouteFloodIs
  <2>4. Cardinality(m) <= RouteLargest(ask)
    BY <2>1, RouteLargestIs
  <2>5. m \in SUBSET RouteCells
    BY <1>3, <2>3
  <2> HIDE DEF m
  <2>6. IsFiniteSet(m)
    BY <2>5, RouteCellsFinite, FS_Subset
  <2>7. IsFiniteSet(g) /\ Cardinality(g) <= Cardinality(m)
    BY <2>2, <2>6, FS_Subset
  <2>8. Cardinality(g) \in Nat /\ Cardinality(m) \in Nat /\ Cardinality(g) # 0
    BY <1>5, <2>6, <2>7, FS_CardinalityType, FS_EmptySet
  <2>9. RouteLargest(ask) \in Nat
    BY <2>1, RouteLargestIs
  <2> QED BY <2>4, <2>7, <2>8, <2>9
<1>14. target \in Nat
  BY <1>9, RouteCellsFinite
<1>15. DOMAIN path = 1..Len(path)
  BY <1>12
<1> HIDE DEF path
<1>16. RouteFits(ask, map, f)
  BY <1>1, <1>10, <1>11, <1>12, <1>13, <1>15 DEF RouteFits
<1> QED BY <1>1, <1>7, <1>9, <1>13, <1>14, <1>16 DEF f
(* What the list says: the body of RouteNoneLeftOut.                         *)
RouteListSays(ask, map, list) ==
  /\ \A k \in DOMAIN list :
       /\ RouteFits(ask, map, list[k])
       /\ k > 1 => list[k - 1].cost * RouteWorth(list[k]) <= list[k].cost * RouteWorth(list[k - 1])
  /\ list = <<>> =>
       \A start \in RouteStart(map, ask.from, RouteReaches) :
         \A g \in RouteGroups({c \in RouteCells : RouteSearched(map, start, 0).cost[c] < RouteEndless /\ RouteLive(ask, c)}) :
           Cardinality(g) < RouteMin \/ RouteFree4(ask, g) = {}

(* The list leaves no frontier out, and puts none after a worse one.         *)
LEMMA RouteListIs ==
  ASSUME NEW ask, ask.from \in RouteCells, ask.blocked \subseteq RouteCells, NEW map \in RouteMaps
  PROVE  RouteListSays(ask, map, RouteList(ask, map))
<1> DEFINE starts == RouteStart(map, ask.from, RouteReaches)
           list == RouteList(ask, map)
<1>1. RouteReaches \in [1..2 -> Nat]
  BY RouteAssumption DEF RouteReaches
<1>2. /\ \A c \in starts : c \in RouteCells /\ map[c] > 0
      /\ \A c \in starts : c = CHOOSE o \in starts : TRUE
  BY <1>1, RouteStartIs
<1>3. CASE starts = {}
  <2>1. list = <<>>
    BY <1>3 DEF RouteList
  <2> QED BY <1>3, <2>1 DEF RouteListSays
<1>4. CASE starts # {}
  <2> DEFINE start == CHOOSE o \in starts : TRUE
             s == RouteSearched(map, start, 0)
             among == {c \in RouteCells : s.cost[c] < RouteEndless /\ RouteLive(ask, c)}
             groups == RouteGroups(among)
             big == {g \in groups : Cardinality(g) >= RouteMin /\ RouteFree4(ask, g) # {}}
             F == [g \in big |-> RouteFrontierOf(ask, s, start, g)]
             S == {F[g] : g \in big}
  <2>1. list = RouteRanked(S)
    BY <1>4 DEF RouteList
  <2>2. start \in starts /\ start \in RouteCells
    BY <1>2, <1>4
  <2> HIDE DEF start
  <2>3. among \in SUBSET RouteCells
    OBVIOUS
  <2>4. \A g \in big : /\ RouteFits(ask, map, F[g]) /\ F[g].target \in g
                       /\ F[g].cost \in Nat /\ F[g].cells \in Nat /\ F[g].cells > 0 /\ F[g].target \in Nat
    <3> SUFFICES ASSUME NEW g \in big
                 PROVE  LET f == RouteFrontierOf(ask, s, start, g)
                        IN  /\ RouteFits(ask, map, f) /\ f.target \in g
                            /\ f.cost \in Nat /\ f.cells \in Nat /\ f.cells > 0 /\ f.target \in Nat
      OBVIOUS
    <3>1. g \in RouteGroups(among) /\ Cardinality(g) >= RouteMin /\ RouteFree4(ask, g) # {}
      OBVIOUS
    <3> HIDE DEF big, groups, F
    <3> QED BY <2>2, <3>1, RouteFrontierIs
  <2>5. IsFiniteSet(big)
    <3>1. big \subseteq SUBSET RouteCells
      <4> SUFFICES ASSUME NEW g \in groups PROVE g \in SUBSET RouteCells
        OBVIOUS
      <4>1. PICK c \in among : g = RouteFlood(c, among)
        BY DEF RouteGroups
      <4> HIDE DEF among
      <4> QED BY <2>3, <4>1, RouteFloodIs
    <3>2. IsFiniteSet(SUBSET RouteCells)
      BY RouteCellsFinite, FS_SUBSET
    <3> HIDE DEF big
    <3> QED BY <3>1, <3>2, FS_Subset
  <2>6. \A g, h \in big : F[g].target = F[h].target => g = h
    <3> SUFFICES ASSUME NEW g \in big, NEW h \in big, F[g].target = F[h].target PROVE g = h
      OBVIOUS
    <3> DEFINE x == F[g].target
    <3>1. x \in g /\ x \in h
      BY <2>4
    <3>2. g \in RouteGroups(among) /\ h \in RouteGroups(among)
      OBVIOUS
    <3> HIDE DEF x, F, big, groups, among
    <3>3. PICK c \in among, d \in among : g = RouteFlood(c, among) /\ h = RouteFlood(d, among)
      BY <3>2 DEF RouteGroups
    <3> QED BY <2>3, <3>1, <3>3, RouteFloodsApart
  <2>7. IsFiniteSet(S) /\ RouteFound(S) /\ \A f, g \in S : f.target = g.target => f = g
    <3>1. F \in Surjection(big, S)
      <4>1. \A t \in S : \E g \in big : F[g] = t
        OBVIOUS
      <4>2. F = [g \in big |-> F[g]]
        OBVIOUS
      <4> HIDE DEF F, big
      <4>3. F \in [big -> S]
        BY <4>2
      <4> QED BY <4>1, <4>3 DEF Surjection
    <3> HIDE DEF F, big
    <3>2. IsFiniteSet(S)
      BY <2>5, <3>1, FS_Surjection
    <3>3. RouteFound(S)
      BY <2>4 DEF RouteFound
    <3> QED BY <2>6, <3>2, <3>3
  <2>8. \A f \in S : RouteFits(ask, map, f)
    <3> HIDE DEF F, big
    <3> QED BY <2>4
  <2>9. S = {} => big = {}
    OBVIOUS
  <2> HIDE DEF S, list
  <2>10. /\ Cardinality(S) \in Nat /\ list \in [1..Cardinality(S) -> S]
         /\ \A n \in 2..Cardinality(S) :
              list[n - 1].cost * RouteWorth(list[n]) <= list[n].cost * RouteWorth(list[n - 1])
    BY <2>1, <2>7, RouteRankedIs
  <2>11. \A k \in DOMAIN list :
          /\ RouteFits(ask, map, list[k])
          /\ k > 1 => list[k - 1].cost * RouteWorth(list[k]) <= list[k].cost * RouteWorth(list[k - 1])
    <3> SUFFICES ASSUME NEW k \in DOMAIN list
                 PROVE  /\ RouteFits(ask, map, list[k])
                        /\ k > 1 => list[k - 1].cost * RouteWorth(list[k]) <= list[k].cost * RouteWorth(list[k - 1])
      OBVIOUS
    <3>1. k \in 1..Cardinality(S) /\ list[k] \in S
      BY <2>10
    <3>2. k > 1 => k \in 2..Cardinality(S)
      BY <2>10, <3>1
    <3> QED BY <2>8, <2>10, <3>1, <3>2
  <2>12. list = <<>> => big = {}
    <3> SUFFICES ASSUME list = <<>> PROVE S = {}
      BY <2>9
    <3>1. 1..Cardinality(S) = {}
      BY <2>10
    <3>2. Cardinality(S) = 0
      BY <2>10, <3>1
    <3> QED BY <2>7, <3>2, FS_EmptySet
  <2>13. ASSUME list = <<>>, NEW t \in starts,
                NEW g \in RouteGroups({c \in RouteCells : RouteSearched(map, t, 0).cost[c] < RouteEndless /\ RouteLive(ask, c)})
         PROVE  Cardinality(g) < RouteMin \/ RouteFree4(ask, g) = {}
    <3>1. t = start
      BY <1>2 DEF start
    <3>2. g \in groups
      BY <2>13, <3>1
    <3>3. g \notin big
      BY <2>12, <2>13
    <3>4. ~(Cardinality(g) >= RouteMin) \/ RouteFree4(ask, g) = {}
      BY <3>2, <3>3
    <3>5. g \in SUBSET RouteCells
      <4>1. PICK c \in among : g = RouteFlood(c, among)
        BY <3>2 DEF RouteGroups
      <4> HIDE DEF among
      <4> QED BY <2>3, <4>1, RouteFloodIs
    <3>6. Cardinality(g) \in Nat
      BY <3>5, RouteCellsFinite, FS_Subset, FS_CardinalityType
    <3> QED BY <3>4, <3>6, RouteSizes
  <2> QED BY <2>11, <2>13 DEF RouteListSays, list
<1> QED BY <1>3, <1>4

(* What may be asked, and what a step may have done.                         *)
RouteAsks ==
  [grid : [RouteCells -> RouteKinds], things : SUBSET RouteThings, lanes : SUBSET RouteCells,
   from : RouteCells, to : RouteCells, blocked : SUBSET RouteCells]

RouteDids == {"asked", "planned", "squeezed", "kept", "none", "walked", "explored"}

(* The inductive invariant: what a stand, a walk or a look leaves is typed,  *)
(* finitely many things are booked, and what was last done is right.         *)
RouteTyped ==
  /\ route \in [ask : RouteAsks, did : RouteDids, map : [RouteCells -> Nat], raw : Seq(RouteCells),
                way : Seq(RouteCells), kept : RouteWay, list : {route.list}, walks : 0..RouteWalksMax]
  /\ IsFiniteSet(route.ask.things)
RouteInv == RouteTyped /\ RouteTrue

(* The invariant says what is to be shown.                                   *)
LEMMA RouteInvSays == ASSUME RouteInv PROVE RouteTypeOK /\ RouteTrue
BY DEF RouteInv, RouteTyped, RouteTypeOK, RouteDids

(* A costmap is one of the maps the search is proved for.                    *)
LEMMA RouteMapOf ==
  ASSUME NEW ask, NEW inflate, NEW rim
  PROVE  RouteMap(ask, inflate, rim) \in RouteMaps
BY RouteMapIs DEF RouteMaps

(* RouteClear, of any question and any costmap.                              *)
RouteClearOf(ask, map, rim) ==
  {c \in RouteCells :
     /\ map[c] > 0 /\ ask.grid[c] # "wall"
     /\ \A t \in ask.things :
          t.drop => RouteD2[t.at][c] > rim \/ (c \in RouteLane(ask) /\ RouteD2[t.at][c] > RouteYield)}

(* Where a costmap lets the body be is clear of walls and booked rims.       *)
LEMMA RouteClears ==
  ASSUME NEW ask \in RouteAsks, NEW inflate \in Nat, NEW rim \in Nat, NEW c \in RouteCells,
         RouteMap(ask, inflate, rim)[c] > 0
  PROVE  c \in RouteClearOf(ask, RouteMap(ask, inflate, rim), rim)
<1>1. RouteOpen(ask, c, inflate, rim)
  BY RouteMapIs
<1>2. ask.grid[c] # "wall"
  BY <1>1 DEF RouteOpen
<1>3. ASSUME NEW t \in ask.things, t.drop
      PROVE  RouteD2[t.at][c] > rim \/ (c \in RouteLane(ask) /\ RouteD2[t.at][c] > RouteYield)
  <2>1. t.at \in RouteCells
    BY RouteSizes DEF RouteAsks, RouteThings
  <2>2. RouteD2[t.at][c] \in Nat /\ RouteYield \in Nat
    BY <2>1, RouteD2Is, RouteSizes
  <2>3. CASE RouteIsLane(ask, c)
    <3>1. c \in RouteLane(ask) /\ ~(RouteD2[t.at][c] <= RouteYield)
      BY <1>3, <2>3 DEF RouteIsLane, RouteRimNear
    <3> QED BY <2>2, <3>1
  <2>4. CASE ~RouteIsLane(ask, c)
    <3>1. ~RouteKeeps(t, c, inflate, rim)
      BY <1>1, <2>4 DEF RouteOpen
    <3>2. ~(RouteD2[t.at][c] <= rim)
      BY <1>3, <3>1 DEF RouteKeeps
    <3> QED BY <2>2, <3>2
  <2> QED BY <2>3, <2>4
<1> QED BY <1>2, <1>3 DEF RouteClearOf

(* What is planned is Dijkstra's way on the costmap, when there is one.      *)
LEMMA RoutePlannedIs ==
  ASSUME NEW ask, NEW did, NEW inflate, NEW rim
  PROVE  LET map == RouteMap(ask, inflate, rim)
             r == RouteRaw(ask, map)
         IN  RoutePlanned(ask, did, inflate, rim)
               = IF r.found THEN {[did |-> did, map |-> map, raw |-> r.raw]} ELSE {}
<1> DEFINE map == RouteMap(ask, inflate, rim)
           plans(m) == LET found == RouteRaw(ask, m)
                       IN  IF found.found THEN {[did |-> did, map |-> m, raw |-> found.raw]} ELSE {}
<1>1. RoutePlanned(ask, did, inflate, rim) = UNION {plans(m) : m \in {map}}
  BY DEF RoutePlanned
<1>2. UNION {plans(m) : m \in {map}} = plans(map)
  <2> HIDE DEF plans, map
  <2> QED OBVIOUS
<1> QED BY <1>1, <1>2

(* What a plan on a costmap promises of the way it finds and of the pulled.  *)
RoutePromises(ask, map, rim, found, raw, way) ==
  /\ raw \in Seq(RouteCells) /\ way \in Seq(RouteCells) /\ map \in [RouteCells -> Nat]
  /\ RouteBestOf(ask, map, found, raw)
  /\ \A k \in DOMAIN raw : raw[k] \in RouteClearOf(ask, map, rim)
  /\ \A k \in DOMAIN way : RouteClearOf(ask, map, rim) \intersect (RouteRound[way[k]] \union {way[k]}) # {}
  /\ raw # <<>> => way # <<>> /\ way[1] = raw[1] /\ way[Len(way)] = raw[Len(raw)]

(* Whatever the costmap's margins, a plan on it keeps the promises.          *)
LEMMA RoutePlanIs ==
  ASSUME NEW ask \in RouteAsks, NEW inflate \in Nat, NEW rim \in Nat
  PROVE  LET map == RouteMap(ask, inflate, rim)
             r == RouteRaw(ask, map)
         IN  RoutePromises(ask, map, rim, r.found, r.raw, RoutePulled(map, RouteDrops(ask), r.raw))
<1> DEFINE map == RouteMap(ask, inflate, rim)
           r == RouteRaw(ask, map)
           raw == r.raw
           way == RoutePulled(map, RouteDrops(ask), raw)
           clear == RouteClearOf(ask, map, rim)
<1>1. map \in RouteMaps /\ map \in [RouteCells -> Nat]
  BY RouteMapOf, RouteMapIs
<1>2. ask.from \in RouteCells /\ ask.to \in RouteCells
  BY DEF RouteAsks
<1>3. \A c \in RouteCells : map[c] > 0 => c \in clear
  BY RouteClears
<1> HIDE DEF map, clear
<1>4. RouteWayOf(map, raw) /\ RouteBestOf(ask, map, r.found, raw)
  BY <1>1, <1>2, RouteRawIs
<1> HIDE DEF r, raw
<1>5. /\ way \in Seq(RouteCells) /\ \A k \in 1..Len(way) : RouteBy(map, way[k])
      /\ raw # <<>> => way # <<>> /\ way[1] = raw[1] /\ way[Len(way)] = raw[Len(raw)]
  BY <1>1, <1>4, RoutePulledIs
<1> HIDE DEF way
<1>6. raw \in Seq(RouteCells) /\ \A k \in 1..Len(raw) : raw[k] \in clear
  <2>1. raw \in Seq(RouteCells) /\ \A k \in 1..Len(raw) : map[raw[k]] > 0
    BY <1>4 DEF RouteWayOf
  <2>2. \A k \in 1..Len(raw) : raw[k] \in RouteCells
    BY <2>1
  <2> QED BY <1>3, <2>1, <2>2
<1>7. DOMAIN raw = 1..Len(raw) /\ DOMAIN way = 1..Len(way)
  BY <1>5, <1>6
<1>8. \A k \in 1..Len(way) : clear \intersect (RouteRound[way[k]] \union {way[k]}) # {}
  BY <1>3, <1>5 DEF RouteBy
<1> QED BY <1>1, <1>4, <1>5, <1>6, <1>7, <1>8 DEF RoutePromises, r, raw, way, map, clear

(* Nothing is promised before the first stand.                               *)
LEMMA RouteBegins == RouteInit => RouteInv
<1> SUFFICES ASSUME RouteInit PROVE RouteInv
  OBVIOUS
<1>1. PICK grid \in RouteGrids, from \in RouteFroms, to \in RouteGoals,
           things \in {{}} \union {{t} : t \in RouteThings}, lanes \in {{}} \union {{c} : c \in RouteSpots} :
             route = RouteAsked(grid, things, lanes, from, to)
  BY Zenon DEF RouteInit
<1>2. grid \in [RouteCells -> RouteKinds]
  <2>1. PICK v \in [RouteVaried -> RouteKinds] : grid = [c \in RouteCells |-> IF c \in RouteVaried THEN v[c] ELSE "free"]
    BY DEF RouteGrids
  <2> QED BY <2>1 DEF RouteKinds
<1>3. things \in SUBSET RouteThings /\ IsFiniteSet(things)
  BY FS_EmptySet, FS_Singleton
<1>4. lanes \in SUBSET RouteCells /\ from \in RouteCells /\ to \in RouteCells
  BY RouteSizes
<1> DEFINE ask == [grid |-> grid, things |-> things, lanes |-> lanes, from |-> from, to |-> to, blocked |-> {}]
<1>5. ask \in RouteAsks
  BY <1>2, <1>3, <1>4 DEF RouteAsks
<1>6. route = [ask |-> ask, did |-> "asked", map |-> [c \in RouteCells |-> 0], raw |-> <<>>, way |-> <<>>,
               kept |-> RouteNoWay, list |-> <<>>, walks |-> 0]
  BY <1>1 DEF RouteAsked
<1>7. IsFiniteSet(route.ask.things)
  BY <1>3, <1>6
<1> HIDE DEF ask
<1>8. RouteNoWay \in RouteWay
  BY DEF RouteNoWay, RouteWay
<1>9. RouteTyped
  BY <1>5, <1>6, <1>7, <1>8, RouteSizes DEF RouteTyped, RouteDids
<1>10. route.did = "asked"
  BY <1>6
<1> QED BY <1>9, <1>10 DEF RouteInv, RouteTrue, RouteCheapest, RouteOffRims, RouteWalkable, RouteNoneLeftOut

(* A plan made is cheapest, off the rims and walkable.                       *)
LEMMA RoutePlans ==
  ASSUME NEW r \in {"planned", "squeezed"}, route'.did = r,
         RoutePromises(route'.ask, route'.map, IF r = "planned" THEN RouteRim ELSE RouteRimTight, TRUE, route'.raw, route'.way)
  PROVE  RouteTrue'
<1> DEFINE rim == IF r = "planned" THEN RouteRim ELSE RouteRimTight
           ask == route'.ask
           map == route'.map
           raw == route'.raw
           way == route'.way
<1>1. /\ RouteBestOf(ask, map, TRUE, raw)
      /\ \A k \in DOMAIN raw : raw[k] \in RouteClearOf(ask, map, rim)
      /\ \A k \in DOMAIN way : RouteClearOf(ask, map, rim) \intersect (RouteRound[way[k]] \union {way[k]}) # {}
      /\ raw # <<>> => way # <<>> /\ way[1] = raw[1] /\ way[Len(way)] = raw[Len(raw)]
  BY DEF RoutePromises
<1>2. RouteCheapest'
  <2>1. route'.did # "none"
    OBVIOUS
  <2> QED BY <1>1, <2>1 DEF RouteCheapest, RouteBestOf
<1>3. RouteOffRims'
  <2>1. RouteClear(rim)' = RouteClearOf(ask, map, rim)
    BY DEF RouteClear, RouteClearOf
  <2> QED BY <1>1, <2>1 DEF RouteOffRims
<1>4. RouteWalkable'
  <2>1. route'.did # "kept"
    OBVIOUS
  <2> QED BY <1>1, <2>1 DEF RouteWalkable
<1>5. RouteNoneLeftOut'
  BY DEF RouteNoneLeftOut
<1> QED BY <1>2, <1>3, <1>4, <1>5 DEF RouteTrue

(* A stand plans anew: on the usual costmap, else on the tightest, else not. *)
LEMMA RouteReplanSteps == ASSUME RouteInv, RouteReplans PROVE RouteInv'
<1> DEFINE ask == route.ask
           usual == RouteMap(ask, RouteInflate, RouteRim)
           tight == RouteMap(ask, RouteTight, RouteRimTight)
           u == RouteRaw(ask, usual)
           t == RouteRaw(ask, tight)
           goes(did, map, raw) ==
             LET way == RoutePulled(map, RouteDrops(ask), raw)
             IN  route' = [route EXCEPT !.did = did, !.map = map, !.raw = raw, !.way = way,
                             !.kept = [way |-> way, books |-> Cardinality(ask.things), old |-> FALSE]]
<1>1. ask \in RouteAsks /\ IsFiniteSet(ask.things) /\ RouteTyped
  BY DEF RouteInv, RouteTyped
<1>2. /\ RoutePromises(ask, usual, RouteRim, u.found, u.raw, RoutePulled(usual, RouteDrops(ask), u.raw))
      /\ RoutePromises(ask, tight, RouteRimTight, t.found, t.raw, RoutePulled(tight, RouteDrops(ask), t.raw))
  BY <1>1, RouteSizes, RoutePlanIs
<1>3. /\ RoutePlanned(ask, "planned", RouteInflate, RouteRim)
           = IF u.found THEN {[did |-> "planned", map |-> usual, raw |-> u.raw]} ELSE {}
      /\ RoutePlanned(ask, "squeezed", RouteTight, RouteRimTight)
           = IF t.found THEN {[did |-> "squeezed", map |-> tight, raw |-> t.raw]} ELSE {}
  BY RoutePlannedIs
<1>4. \/ u.found /\ goes("planned", usual, u.raw)
      \/ t.found /\ goes("squeezed", tight, t.raw)
      \/ /\ ~t.found
         /\ route' = [route EXCEPT !.did = "none", !.map = tight, !.raw = <<>>, !.way = <<>>, !.kept = RouteNoWay]
  <2> DEFINE one == RoutePlanned(ask, "planned", RouteInflate, RouteRim)
             two == RoutePlanned(ask, "squeezed", RouteTight, RouteRimTight)
  <2>1. \/ \E plan \in IF one # {} THEN one ELSE two : goes(plan.did, plan.map, plan.raw)
        \/ /\ two = {}
           /\ route' = [route EXCEPT !.did = "none", !.map = tight, !.raw = <<>>, !.way = <<>>, !.kept = RouteNoWay]
    BY DEF RouteReplans, RouteTightest
  <2> HIDE DEF goes, usual, tight, u, t, one, two, ask
  <2>2. one = (IF u.found THEN {[did |-> "planned", map |-> usual, raw |-> u.raw]} ELSE {})
    BY <1>3 DEF one
  <2>3. two = (IF t.found THEN {[did |-> "squeezed", map |-> tight, raw |-> t.raw]} ELSE {})
    BY <1>3 DEF two
  <2>4. CASE \E plan \in IF one # {} THEN one ELSE two : goes(plan.did, plan.map, plan.raw)
    <3>1. PICK plan \in IF one # {} THEN one ELSE two : goes(plan.did, plan.map, plan.raw)
      BY <2>4
    <3>2. CASE u.found
      <4>1. plan = [did |-> "planned", map |-> usual, raw |-> u.raw]
        BY <2>2, <3>1, <3>2
      <4>2. plan.did = "planned" /\ plan.map = usual /\ plan.raw = u.raw
        BY <4>1
      <4> QED BY <3>1, <3>2, <4>2
    <3>3. CASE ~u.found
      <4>1. t.found /\ plan = [did |-> "squeezed", map |-> tight, raw |-> t.raw]
        BY <2>2, <2>3, <3>1, <3>3
      <4>2. plan.did = "squeezed" /\ plan.map = tight /\ plan.raw = t.raw
        BY <4>1
      <4> QED BY <3>1, <4>1, <4>2
    <3> QED BY <3>2, <3>3
  <2>5. CASE two = {} /\ route' = [route EXCEPT !.did = "none", !.map = tight, !.raw = <<>>, !.way = <<>>, !.kept = RouteNoWay]
    BY <2>3, <2>5
  <2> QED BY <2>1, <2>4, <2>5
<1>5. ASSUME NEW did \in {"planned", "squeezed"}, NEW map, NEW raw, goes(did, map, raw),
             RoutePromises(ask, map, IF did = "planned" THEN RouteRim ELSE RouteRimTight, TRUE, raw,
                           RoutePulled(map, RouteDrops(ask), raw))
      PROVE  RouteInv'
  <2> DEFINE way == RoutePulled(map, RouteDrops(ask), raw)
             kept == [way |-> way, books |-> Cardinality(ask.things), old |-> FALSE]
  <2>1. route' = [route EXCEPT !.did = did, !.map = map, !.raw = raw, !.way = way, !.kept = kept]
    BY <1>5
  <2>2. raw \in Seq(RouteCells) /\ way \in Seq(RouteCells) /\ map \in [RouteCells -> Nat]
    BY <1>5 DEF RoutePromises
  <2>3. Cardinality(ask.things) \in Nat
    BY <1>1, FS_CardinalityType
  <2> HIDE DEF way
  <2>4. kept \in RouteWay
    BY <2>2, <2>3 DEF RouteWay
  <2> HIDE DEF kept, ask, goes
  <2>5. /\ route'.did = did /\ route'.map = map /\ route'.raw = raw /\ route'.way = way /\ route'.kept = kept
        /\ route'.ask = ask
    BY <1>1, <2>1 DEF RouteTyped, ask
  <2>6. RouteTyped'
    BY <1>1, <2>1, <2>2, <2>4, <2>5 DEF RouteTyped, RouteDids, ask
  <2>7. RouteTrue'
    BY <1>5, <2>5, RoutePlans DEF way
  <2> QED BY <2>6, <2>7 DEF RouteInv
<1>6. CASE u.found /\ goes("planned", usual, u.raw)
  <2>1. RoutePromises(ask, usual, RouteRim, TRUE, u.raw, RoutePulled(usual, RouteDrops(ask), u.raw))
    <3>1. u.found = TRUE
      <4>1. u.found \in BOOLEAN
        BY <1>1, RouteRawIs, RouteMapOf DEF RouteAsks
      <4> HIDE DEF u
      <4> QED BY <1>6, <4>1
    <3> HIDE DEF u, ask, usual
    <3> QED BY <1>2, <3>1
  <2> HIDE DEF goes, u, usual, ask
  <2> QED BY <1>5, <1>6, <2>1
<1>7. CASE t.found /\ goes("squeezed", tight, t.raw)
  <2>1. RoutePromises(ask, tight, RouteRimTight, TRUE, t.raw, RoutePulled(tight, RouteDrops(ask), t.raw))
    <3>1. t.found = TRUE
      <4>1. t.found \in BOOLEAN
        BY <1>1, RouteRawIs, RouteMapOf DEF RouteAsks
      <4> HIDE DEF t
      <4> QED BY <1>7, <4>1
    <3> HIDE DEF t, ask, tight
    <3> QED BY <1>2, <3>1
  <2> HIDE DEF goes, t, tight, ask
  <2> QED BY <1>5, <1>7, <2>1
<1>8. CASE ~t.found /\ route' = [route EXCEPT !.did = "none", !.map = tight, !.raw = <<>>, !.way = <<>>, !.kept = RouteNoWay]
  <2>1. tight \in [RouteCells -> Nat]
    BY RouteMapIs
  <2>2. RouteBestOf(ask, tight, FALSE, t.raw)
    <3>1. RouteBestOf(ask, tight, t.found, t.raw)
      BY <1>2 DEF RoutePromises
    <3>2. t.found \in BOOLEAN
      BY <1>1, RouteRawIs, RouteMapOf DEF RouteAsks
    <3> HIDE DEF t, tight, ask
    <3>3. t.found = FALSE
      BY <1>8, <3>2
    <3> QED BY <3>1, <3>3
  <2> HIDE DEF goes, t, u, usual, tight, ask
  <2>3. RouteNoWay \in RouteWay
    BY DEF RouteNoWay, RouteWay
  <2>4. route'.did = "none" /\ route'.map = tight /\ route'.ask = ask
    BY <1>1, <1>8 DEF RouteTyped, ask
  <2>5. RouteTyped'
    <3> DEFINE none == <<>>
    <3>1. none \in Seq(RouteCells)
      OBVIOUS
    <3>2. route' = [route EXCEPT !.did = "none", !.map = tight, !.raw = none, !.way = none, !.kept = RouteNoWay]
      BY <1>8
    <3> HIDE DEF none
    <3>3. IsFiniteSet(route'.ask.things)
      BY <1>1, <2>4
    <3> QED BY <1>1, <2>1, <2>3, <3>1, <3>2, <3>3 DEF RouteTyped, RouteDids
  <2>6. RouteCheapest'
    BY <1>8, <2>2, <2>4 DEF RouteCheapest, RouteBestOf
  <2> QED BY <2>4, <2>5, <2>6 DEF RouteInv, RouteTrue, RouteOffRims, RouteWalkable, RouteNoneLeftOut
<1> QED BY <1>4, <1>6, <1>7, <1>8

(* What is left of a way in hand is of its cells.                            *)
LEMMA RouteTrims ==
  ASSUME RouteTyped
  PROVE  RouteTrimmed \in Seq(RouteCells)
<1> DEFINE way == route.kept.way
           c == route.ask.from
           k == RouteFrom(way, c)
<1>1. way \in Seq(RouteCells) /\ c \in RouteCells
  BY DEF RouteTyped, RouteWay, RouteAsks
<1>2. CASE way = <<>>
  <2>1. RouteTrimmed = <<>>
    BY <1>2 DEF RouteTrimmed
  <2> QED BY <2>1
<1>3. CASE way # <<>>
  <2>1. RouteTrimmed = SubSeq(way, k, Len(way))
    BY <1>3 DEF RouteTrimmed
  <2> DEFINE T == DOMAIN way
             f == [i \in T |-> RouteD2[way[i]][c]]
  <2> HIDE DEF way, c
  <2>2. T = 1..Len(way) /\ Len(way) \in Nat /\ Len(way) > 0
    BY <1>1, <1>3
  <2>3. \A i \in T : way[i] \in RouteCells
    BY <1>1
  <2>4. \A i \in T : f[i] \in Nat
    BY <1>1, <2>3, RouteD2Is
  <2>5. T \subseteq Nat /\ T # {}
    BY <2>2
  <2>6. \E i \in T : \A o \in T : f[i] < f[o] \/ (f[i] = f[o] /\ i <= o)
    <3> HIDE DEF T, f
    <3> QED BY <2>4, <2>5, RouteFirstLeast
  <2>7. \E i \in DOMAIN way : \A o \in DOMAIN way :
          RouteD2[way[i]][c] < RouteD2[way[o]][c] \/ (RouteD2[way[i]][c] = RouteD2[way[o]][c] /\ i <= o)
    BY <2>6
  <2>8. k \in DOMAIN way
    BY <2>7 DEF RouteFrom
  <2> HIDE DEF k
  <2>9. k \in 1..Len(way)
    BY <2>2, <2>8
  <2>10. SubSeq(way, k, Len(way)) \in Seq(RouteCells)
    <3> DEFINE m == Len(way)
    <3>1. k \in Int /\ m \in Int /\ \A i \in k..m : way[i] \in RouteCells
      BY <2>2, <2>3, <2>9
    <3> HIDE DEF m
    <3> QED BY <3>1, SubSeqProperties DEF m
  <2> QED BY <2>1, <2>10 DEF way
<1> QED BY <1>2, <1>3

(* A way is kept while its first metre is on passable cells.                 *)
LEMMA RouteKeepSteps == ASSUME RouteInv, RouteGood, RouteKeepsOn PROVE RouteInv'
<1> DEFINE usual == RouteMap(route.ask, RouteInflate, RouteRim)
           trimmed == RouteTrimmed
           kept == [route.kept EXCEPT !.way = trimmed]
<1>1. RouteTyped
  BY DEF RouteInv
<1>2. trimmed \in Seq(RouteCells) /\ usual \in [RouteCells -> Nat]
  BY <1>1, RouteTrims, RouteMapIs
<1>3. RoutePassable(usual, trimmed)
  BY DEF RouteGood, RouteUsual
<1>4. route' = [route EXCEPT !.did = "kept", !.map = usual, !.way = trimmed, !.kept = kept]
  BY <1>1 DEF RouteKeepsOn, RouteUsual, RouteTyped
<1>5. kept \in RouteWay
  BY <1>1, <1>2 DEF RouteTyped, RouteWay
<1> HIDE DEF usual, trimmed, kept
<1>6. route'.did = "kept" /\ route'.map = usual /\ route'.way = trimmed /\ route'.ask = route.ask
  BY <1>1, <1>4 DEF RouteTyped
<1>7. RouteTyped'
  <2>1. IsFiniteSet(route'.ask.things)
    BY <1>1, <1>6 DEF RouteTyped
  <2> QED BY <1>1, <1>2, <1>4, <1>5, <2>1 DEF RouteTyped, RouteDids
<1>8. RouteWalkable'
  BY <1>3, <1>6 DEF RouteWalkable
<1> QED BY <1>6, <1>7, <1>8 DEF RouteInv, RouteTrue, RouteCheapest, RouteOffRims, RouteNoneLeftOut

(* A walk, and what the map and the books learn on it, promise nothing yet.  *)
LEMMA RouteWalkSteps == ASSUME RouteInv, RouteWalks PROVE RouteInv'
<1> DEFINE ask == route.ask
<1>1. RouteTyped
  BY DEF RouteInv
<1>2. PICK to \in RouteFroms \union {route.way[k] : k \in DOMAIN route.way \cap {1, 2}} :
       LET went == [route EXCEPT !.did = "walked", !.ask.from = to, !.walks = @ + 1]
       IN  \/ route' = went
           \/ route' = [went EXCEPT !.kept.old = TRUE]
           \/ \E c \in RouteVaried : route' = [went EXCEPT !.ask.grid[c] = "wall"]
           \/ \E t \in RouteThings :
                route' = [went EXCEPT !.ask.things = IF t \in @ THEN @ \ {t} ELSE @ \union {t}]
  BY Zenon DEF RouteWalks
<1>3. to \in RouteCells
  <2>1. route.way \in Seq(RouteCells)
    BY <1>1 DEF RouteTyped
  <2>2. \A k \in DOMAIN route.way : route.way[k] \in RouteCells
    BY <2>1
  <2> QED BY <2>2, RouteSizes
<1> DEFINE going == [ask EXCEPT !.from = to]
           went == [route EXCEPT !.did = "walked", !.ask = going, !.walks = route.walks + 1]
           keeps == [route.kept EXCEPT !.old = TRUE]
           inked(c) == [going EXCEPT !.grid = [ask.grid EXCEPT ![c] = "wall"]]
           booked(t) == [going EXCEPT !.things = IF t \in ask.things THEN ask.things \ {t} ELSE ask.things \union {t}]
<1>4. ask \in RouteAsks /\ route.kept \in RouteWay /\ IsFiniteSet(ask.things) /\ route.walks \in Nat
      /\ route.walks < RouteWalksMax
  <2>1. route.walks < RouteWalksMax
    BY Zenon DEF RouteWalks
  <2> QED BY <1>1, <2>1, RouteSizes DEF RouteTyped
<1>5. went = [route EXCEPT !.did = "walked", !.ask.from = to, !.walks = @ + 1]
  BY <1>1 DEF RouteTyped, RouteAsks
<1>6. went.ask = going /\ went.kept = route.kept /\ going.grid = ask.grid /\ going.things = ask.things
  BY <1>1, <1>4 DEF RouteTyped, RouteAsks
<1>7. \/ route' = went
      \/ route' = [went EXCEPT !.kept.old = TRUE]
      \/ \E c \in RouteVaried : route' = [went EXCEPT !.ask.grid[c] = "wall"]
      \/ \E t \in RouteThings :
           route' = [went EXCEPT !.ask.things = IF t \in @ THEN @ \ {t} ELSE @ \union {t}]
  <2> DEFINE gone == [route EXCEPT !.did = "walked", !.ask.from = to, !.walks = @ + 1]
  <2>1. \/ route' = gone
        \/ route' = [gone EXCEPT !.kept.old = TRUE]
        \/ \E c \in RouteVaried : route' = [gone EXCEPT !.ask.grid[c] = "wall"]
        \/ \E t \in RouteThings :
             route' = [gone EXCEPT !.ask.things = IF t \in @ THEN @ \ {t} ELSE @ \union {t}]
    BY <1>2
  <2>2. gone = went
    BY <1>5
  <2> HIDE DEF gone, went
  <2> QED BY <2>1, <2>2
<1> DEFINE new(q, kept) == [route EXCEPT !.did = "walked", !.ask = q, !.kept = kept, !.walks = route.walks + 1]
<1>8. ASSUME NEW q \in RouteAsks, IsFiniteSet(q.things), NEW kept \in RouteWay, route' = new(q, kept) PROVE RouteInv'
  <2>1. route'.did = "walked" /\ route'.ask = q
    BY <1>1, <1>8 DEF RouteTyped
  <2>2. route.walks + 1 \in 0..RouteWalksMax
    BY <1>4, RouteSizes
  <2>3. IsFiniteSet(route'.ask.things)
    BY <1>8, <2>1
  <2>4. RouteTyped'
    BY <1>1, <1>8, <2>2, <2>3 DEF RouteTyped, RouteDids
  <2> QED BY <2>1, <2>4 DEF RouteInv, RouteTrue, RouteCheapest, RouteOffRims, RouteWalkable, RouteNoneLeftOut
<1>9. going \in RouteAsks /\ keeps \in RouteWay /\ IsFiniteSet(going.things)
  BY <1>3, <1>4, <1>6 DEF RouteAsks, RouteWay
<1>10. CASE route' = went
  <2>1. route' = new(going, route.kept)
    BY <1>1, <1>10 DEF RouteTyped
  <2> QED BY <1>4, <1>8, <1>9, <2>1
<1>11. CASE route' = [went EXCEPT !.kept.old = TRUE]
  <2>1. route' = new(going, keeps)
    BY <1>1, <1>11 DEF RouteTyped
  <2> HIDE DEF keeps, going, new
  <2> QED BY <1>8, <1>9, <2>1
<1>12. ASSUME NEW c \in RouteVaried, route' = [went EXCEPT !.ask.grid[c] = "wall"] PROVE RouteInv'
  <2>1. route' = [went EXCEPT !.ask = [went.ask EXCEPT !.grid = [went.ask.grid EXCEPT ![c] = "wall"]]]
    BY <1>12
  <2>2. route' = new(inked(c), route.kept)
    BY <1>1, <2>1 DEF RouteTyped, RouteAsks
  <2>3. inked(c) \in RouteAsks /\ inked(c).things = ask.things
    BY <1>4, <1>9, RouteSizes DEF RouteAsks, RouteKinds
  <2> DEFINE q == inked(c)
  <2> HIDE DEF new, inked
  <2> QED BY <1>4, <1>8, <2>2, <2>3
<1>13. ASSUME NEW t \in RouteThings, route' = [went EXCEPT !.ask.things = IF t \in @ THEN @ \ {t} ELSE @ \union {t}]
       PROVE  RouteInv'
  <2> DEFINE things == IF t \in ask.things THEN ask.things \ {t} ELSE ask.things \union {t}
  <2>1. route' = [went EXCEPT !.ask = [going EXCEPT !.things = things]]
    BY <1>6, <1>13
  <2>2. route' = new(booked(t), route.kept)
    BY <1>1, <2>1 DEF RouteTyped, RouteAsks
  <2>3. things \in SUBSET RouteThings /\ IsFiniteSet(things)
    <3>1. ask.things \in SUBSET RouteThings
      BY <1>4 DEF RouteAsks
    <3>2. IsFiniteSet(ask.things \ {t}) /\ IsFiniteSet(ask.things \union {t})
      BY <1>4, FS_RemoveElement, FS_AddElement
    <3> QED BY <3>1, <3>2
  <2> HIDE DEF things
  <2>4. [going EXCEPT !.things = things] \in RouteAsks /\ [going EXCEPT !.things = things].things = things
    BY <1>9, <2>3 DEF RouteAsks
  <2>5. booked(t) = [going EXCEPT !.things = things]
    BY DEF things
  <2> HIDE DEF new, booked, going
  <2> QED BY <1>4, <1>8, <2>2, <2>3, <2>4, <2>5
<1> QED BY <1>7, <1>10, <1>11, <1>12, <1>13

(* A look for frontiers lists them.                                          *)
LEMMA RouteLookSteps == ASSUME RouteInv, RouteExplores PROVE RouteInv'
<1>1. RouteTyped
  BY DEF RouteInv
<1>2. PICK inflate \in {RouteInflate, RouteTight}, block \in SUBSET RouteSpots :
       LET ask == [route.ask EXCEPT !.blocked = block]
           map == RouteMap(ask, inflate, RouteRim)
       IN  route' = [route EXCEPT !.did = "explored", !.ask = ask, !.map = map, !.list = RouteList(ask, map)]
  BY Zenon DEF RouteExplores
<1> DEFINE ask == [route.ask EXCEPT !.blocked = block]
           map == RouteMap(ask, inflate, RouteRim)
           list == RouteList(ask, map)
<1>3. ask \in RouteAsks /\ ask.things = route.ask.things
  BY <1>1, RouteSizes DEF RouteTyped, RouteAsks
<1>4. route' = [route EXCEPT !.did = "explored", !.ask = ask, !.map = map, !.list = list]
  BY <1>2
<1> HIDE DEF ask
<1>5. map \in RouteMaps /\ map \in [RouteCells -> Nat]
  BY RouteMapOf, RouteMapIs
<1> HIDE DEF map
<1>6. RouteListSays(ask, map, list)
  BY <1>3, <1>5, RouteListIs DEF RouteAsks
<1> HIDE DEF list
<1>7. route'.did = "explored" /\ route'.ask = ask /\ route'.map = map /\ route'.list = list
  BY <1>1, <1>4 DEF RouteTyped
<1>8. IsFiniteSet(route'.ask.things)
  BY <1>1, <1>3, <1>7 DEF RouteTyped
<1>9. RouteTyped'
  BY <1>1, <1>3, <1>4, <1>5, <1>7, <1>8 DEF RouteTyped, RouteDids
<1>10. RouteNoneLeftOut'
  <2>1. ASSUME NEW k \in DOMAIN list
        PROVE  LET f == list[k]
               IN  /\ f.cells >= RouteMin /\ f.cells <= RouteLargest(ask)
                   /\ RouteLive(ask, f.target)
                   /\ f.target \notin {c \in RouteCells : \E b \in ask.blocked : RouteD2[b][c] <= RouteBlock}
                   /\ \A j \in DOMAIN f.path : map[f.path[j]] > 0
                   /\ f.path # <<>> => f.path[Len(f.path)] = f.target
                   /\ k > 1 => list[k - 1].cost * RouteWorth(f) <= f.cost * RouteWorth(list[k - 1])
    BY <1>6 DEF RouteListSays, RouteFits
  <2>2. list = <<>> =>
          \A starts \in {RouteStart(map, ask.from, RouteReaches)} : \A start \in starts :
            LET cost == RouteSearched(map, start, 0).cost
                reached == {c \in RouteCells : cost[c] < RouteEndless}
            IN  \A g \in RouteGroups({c \in reached : RouteLive(ask, c)}) :
                  Cardinality(g) < RouteMin \/ RouteFree4(ask, g) = {}
    <3> SUFFICES ASSUME list = <<>>, NEW start \in RouteStart(map, ask.from, RouteReaches),
                        NEW g \in RouteGroups({c \in {c \in RouteCells : RouteSearched(map, start, 0).cost[c] < RouteEndless} : RouteLive(ask, c)})
                 PROVE  Cardinality(g) < RouteMin \/ RouteFree4(ask, g) = {}
      OBVIOUS
    <3> DEFINE cost == RouteSearched(map, start, 0).cost
               one == {c \in {c \in RouteCells : cost[c] < RouteEndless} : RouteLive(ask, c)}
               two == {c \in RouteCells : cost[c] < RouteEndless /\ RouteLive(ask, c)}
    <3>1. one = two
      OBVIOUS
    <3>2. \A h \in RouteGroups(two) : Cardinality(h) < RouteMin \/ RouteFree4(ask, h) = {}
      BY <1>6 DEF RouteListSays
    <3>3. g \in RouteGroups(one)
      OBVIOUS
    <3> HIDE DEF one, two
    <3> QED BY <3>1, <3>2, <3>3
  <2> QED BY <1>7, <2>1, <2>2 DEF RouteNoneLeftOut
<1> QED BY <1>7, <1>9, <1>10 DEF RouteInv, RouteTrue, RouteCheapest, RouteOffRims, RouteWalkable

(* The ways over the map are what is promised of them, whatever the map, the *)
(* books and the lanes: Dijkstra's is the cheapest and found wherever there  *)
(* is one, off walls and rims; the pulled goes between the same ends beside  *)
(* clear cells; a kept one starts on passable cells; and no frontier is left *)
(* out of the list, nor ranked behind a worse one.                           *)
THEOREM RouteHolds == RouteSpec => [](RouteTypeOK /\ RouteTrue)
<1>1. RouteInit => RouteInv
  BY RouteBegins
<1>2. RouteInv /\ [RouteNext]_route => RouteInv'
  <2> SUFFICES ASSUME RouteInv, [RouteNext]_route PROVE RouteInv'
    OBVIOUS
  <2>1. CASE RouteStands
    <3>1. CASE RouteGood
      BY <2>1, <3>1, RouteKeepSteps DEF RouteStands
    <3>2. CASE ~RouteGood
      BY <2>1, <3>2, RouteReplanSteps DEF RouteStands
    <3> QED BY <3>1, <3>2
  <2>2. CASE RouteWalks
    BY <2>2, RouteWalkSteps
  <2>3. CASE RouteExplores
    BY <2>3, RouteLookSteps
  <2>4. CASE UNCHANGED route
    <3>1. RouteTyped'
      BY <2>4 DEF RouteInv, RouteTyped
    <3>2. RouteCheapest'
      <4>1. /\ route.did = "none" => RouteBestOf(route.ask, route.map, FALSE, route.raw)
            /\ route.did \in {"planned", "squeezed"} => RouteBestOf(route.ask, route.map, TRUE, route.raw)
        BY DEF RouteInv, RouteTrue, RouteCheapest, RouteBestOf
      <4>2. /\ route'.did = "none" => RouteBestOf(route'.ask, route'.map, FALSE, route'.raw)
            /\ route'.did \in {"planned", "squeezed"} => RouteBestOf(route'.ask, route'.map, TRUE, route'.raw)
        BY <2>4, <4>1
      <4>3. CASE route'.did = "none"
        BY <4>2, <4>3 DEF RouteCheapest, RouteBestOf
      <4>4. CASE route'.did # "none"
        BY <4>2, <4>4 DEF RouteCheapest, RouteBestOf
      <4> QED BY <4>3, <4>4
    <3>3. RouteOffRims'
      <4>1. \A rim : RouteClear(rim)' = RouteClear(rim)
        BY <2>4 DEF RouteClear
      <4> QED BY <2>4, <4>1 DEF RouteInv, RouteTrue, RouteOffRims
    <3>4. RouteWalkable'
      BY <2>4 DEF RouteInv, RouteTrue, RouteWalkable
    <3>5. RouteNoneLeftOut'
      BY <2>4 DEF RouteInv, RouteTrue, RouteNoneLeftOut
    <3> QED BY <3>1, <3>2, <3>3, <3>4, <3>5 DEF RouteInv, RouteTrue
  <2> QED BY <2>1, <2>2, <2>3, <2>4 DEF RouteNext
<1>3. RouteInv => RouteTypeOK /\ RouteTrue
  BY RouteInvSays
<1> QED BY <1>1, <1>2, <1>3, PTL DEF RouteSpec
=============================================================================
