-------------------------- MODULE VideoTimingProofs --------------------------
(***************************************************************************)
(* Proofs about the time line of a video, for every voice, script, layout  *)
(* of scenes and constants of time: the film lasts as long as the voice,   *)
(* the scenes carry its words from end to end, the captions show every     *)
(* word in its order, and hook and titles keep to their scenes.            *)
(* What a sum, a filling of rows and a joining of runs compute is shown by *)
(* the least length at which it would not hold (LeastOf, UpTo).            *)
(***************************************************************************)
EXTENDS VideoTiming, WellFoundedInduction, TLAPS

-----------------------------------------------------------------------------
(* Induction by the least counterexample, and sums *)

LEMMA LessIsWellFounded == IsWellFoundedOn({p \in Nat \X Nat : p[1] < p[2]}, Nat)
BY NatLessThanWellFounded DEF OpToRel

LEMMA LeastOf ==
  ASSUME NEW T \in SUBSET Nat, T # {}
  PROVE  \E m \in T : \A k \in T : m <= k
<1>. DEFINE R == {p \in Nat \X Nat : p[1] < p[2]}
<1>1. \E x \in T : \A y \in T : ~ (<<y, x>> \in R)
  <2>. HIDE DEF R
  <2>1. IsWellFoundedOn(R, Nat)
    BY LessIsWellFounded DEF R
  <2>2. QED
    BY <2>1, WFMin
<1>2. PICK x \in T : \A y \in T : ~ (<<y, x>> \in R)
  BY <1>1
<1>3. ASSUME NEW y \in T PROVE x <= y
  <2>1. x \in Nat /\ y \in Nat /\ <<y, x>> \in Nat \X Nat /\ ~ (<<y, x>> \in R)
    BY <1>2
  <2>2. ~ (y < x)
    BY <2>1
  <2>3. QED
    BY <2>1, <2>2
<1>4. QED
  BY <1>3

LEMMA GreatestOf ==
  ASSUME NEW n \in Nat, NEW T \in SUBSET (0..n), T # {}
  PROVE  \E m \in T : \A k \in T : k <= m
<1>. DEFINE D == {n - k : k \in T}
<1>1. D \in SUBSET Nat /\ D # {}
  <2>1. \A k \in T : k \in 0..n /\ n - k \in Nat
    OBVIOUS
  <2>2. QED
    BY <2>1
<1>2. PICK d \in D : \A e \in D : d <= e
  BY <1>1, LeastOf
<1>3. PICK m \in T : d = n - m
  BY <1>2
<1>4. ASSUME NEW k \in T PROVE k <= m
  <2>1. n - m <= n - k
    BY <1>2, <1>3
  <2>2. QED
    BY <2>1
<1>5. QED
  BY <1>4

\* Induction up to n, over the set of what holds.
LEMMA UpTo ==
  ASSUME NEW n \in Nat, NEW T, 0 \in T,
         \A k \in 0..n : k < n /\ k \in T => k + 1 \in T
  PROVE  \A k \in 0..n : k \in T
<1>. DEFINE F == {k \in 0..n : k \notin T}
<1>1. SUFFICES ASSUME F # {} PROVE FALSE
  OBVIOUS
<1>2. PICK m \in F : \A k \in F : m <= k
  <2>1. F \in SUBSET Nat
    OBVIOUS
  <2>2. QED
    BY <2>1, <1>1, LeastOf
<1>3. m \in Nat /\ m # 0 /\ m - 1 \in 0..n /\ m - 1 < n /\ m - 1 + 1 = m /\ m \notin T
  BY <1>2
<1>4. m - 1 \in T
  BY <1>2, <1>3
<1>5. QED
  BY <1>3, <1>4

LEMMA Division ==
  ASSUME NEW a \in Int, NEW b \in Nat \ {0}
  PROVE  /\ a \div b \in Int
         /\ b * (a \div b) <= a /\ a < b * (a \div b) + b
OBVIOUS

LEMMA SumExists ==
  ASSUME NEW q \in Seq(Int)
  PROVE  \E s : /\ s = [i \in 0..Len(q) |-> IF i = 0 THEN 0 ELSE s[i - 1] + q[i]]
                /\ s \in [0..Len(q) -> Int]
<1>. DEFINE n == Len(q)
            Up(s, k) == s \in [0..k -> Int] /\ s[0] = 0 /\ \A i \in 1..k : s[i] = s[i - 1] + q[i]
            T == {k \in 0..n : \E s : Up(s, k)}
<1>0. n \in Nat /\ \A i \in 1..n : q[i] \in Int
  OBVIOUS
<1>1. 0 \in T
  <2>1. Up([i \in 0..0 |-> 0], 0)
    OBVIOUS
  <2>2. 0 \in 0..n
    BY <1>0
  <2>. HIDE DEF Up
  <2>3. QED
    BY <2>1, <2>2
<1>2. ASSUME NEW k \in 0..n, k < n, k \in T PROVE k + 1 \in T
  <2>1. PICK s : Up(s, k)
    BY <1>2
  <2>. DEFINE t == [i \in 0..(k + 1) |-> IF i = k + 1 THEN s[k] + q[k + 1] ELSE s[i]]
  <2>2. q[k + 1] \in Int /\ k \in Nat
    BY <1>0, <1>2
  <2>3. t \in [0..(k + 1) -> Int]
    BY <2>1, <2>2
  <2>4. t[0] = 0
    BY <2>1, <2>2
  <2>5. ASSUME NEW i \in 1..(k + 1) PROVE t[i] = t[i - 1] + q[i]
    <3>1. CASE i = k + 1
      BY <3>1, <2>2
    <3>2. CASE i # k + 1
      BY <3>2, <2>1, <2>2
    <3>3. QED
      BY <3>1, <3>2
  <2>6. Up(t, k + 1)
    BY <2>3, <2>4, <2>5
  <2>7. k + 1 \in 0..n
    BY <1>0, <1>2
  <2>. HIDE DEF t, Up
  <2>8. QED
    BY <2>6, <2>7
<1>3. n \in T
  <2>. HIDE DEF T
  <2>1. \A k \in 0..n : k \in T
    BY <1>0, <1>1, <1>2, UpTo
  <2>2. QED
    BY <2>1, <1>0
<1>4. PICK s : Up(s, n)
  BY <1>3
<1>5. s = [i \in 0..n |-> IF i = 0 THEN 0 ELSE s[i - 1] + q[i]]
  <2>1. \A i \in 0..n : s[i] = IF i = 0 THEN 0 ELSE s[i - 1] + q[i]
    BY <1>4, <1>0
  <2>2. s = [i \in 0..n |-> s[i]]
    BY <1>4
  <2>3. QED
    BY <2>1, <2>2
<1>6. QED
  BY <1>4, <1>5

LEMMA SumFacts ==
  ASSUME NEW q \in Seq(Int)
  PROVE  /\ SumTo(q, 0) = 0
         /\ \A i \in 1..Len(q) : SumTo(q, i) = SumTo(q, i - 1) + q[i]
         /\ \A i \in 0..Len(q) : SumTo(q, i) \in Int
<1>. DEFINE P(s) == s = [i \in 0..Len(q) |-> IF i = 0 THEN 0 ELSE s[i - 1] + q[i]]
            S == CHOOSE s : P(s)
<1>1. P(S)
  <2>1. \E s : P(s)
    BY SumExists
  <2>. HIDE DEF P
  <2>2. QED
    BY <2>1
<1>2. \A k : SumTo(q, k) = S[k]
  BY DEF SumTo
<1>0. Len(q) \in Nat /\ \A i \in 1..Len(q) : q[i] \in Int
  OBVIOUS
<1>. HIDE DEF S
<1>3. S[0] = 0 /\ \A i \in 1..Len(q) : S[i] = S[i - 1] + q[i]
  BY <1>1, <1>0
<1>. DEFINE T == {k \in 0..Len(q) : S[k] \in Int}
<1>4. 0 \in T
  BY <1>3, <1>0
<1>5. ASSUME NEW k \in 0..Len(q), k < Len(q), k \in T PROVE k + 1 \in T
  <2>1. k + 1 \in 1..Len(q) /\ (k + 1) - 1 = k
    BY <1>5, <1>0
  <2>2. S[k + 1] = S[k] + q[k + 1]
    BY <2>1, <1>3
  <2>3. QED
    BY <2>1, <2>2, <1>5, <1>0
<1>6. \A k \in 0..Len(q) : k \in T
  <2>. HIDE DEF T
  <2>1. QED
    BY <1>4, <1>5, <1>0, UpTo
<1>7. QED
  BY <1>2, <1>3, <1>6

-----------------------------------------------------------------------------
(* Division, rounding and sums that grow *)

LEMMA Product == ASSUME NEW b \in Nat, NEW x \in Int, NEW y \in Int, x <= y PROVE b * x <= b * y
OBVIOUS

LEMMA Cancel ==
  ASSUME NEW b \in Nat \ {0}, NEW x \in Int, NEW y \in Int
  PROVE  /\ b * x < b * y => x < y
         /\ b * x <= b * y => x <= y
<1>1. ASSUME y <= x PROVE b * y <= b * x
  BY <1>1, Product
<1>2. ASSUME y < x PROVE b * y < b * x
  <2>1. b * (y + 1) <= b * x
    BY <1>2, Product
  <2>2. b * (y + 1) = b * y + b
    OBVIOUS
  <2>3. b * y \in Int /\ b * x \in Int
    OBVIOUS
  <2>4. QED
    BY <2>1, <2>2, <2>3
<1>3. b * y \in Int /\ b * x \in Int
  OBVIOUS
<1>4. QED
  BY <1>1, <1>2, <1>3

LEMMA DivisionGrows ==
  ASSUME NEW a \in Int, NEW c \in Int, NEW b \in Nat \ {0}, a <= c
  PROVE  a \div b <= c \div b
<1>. DEFINE x == a \div b
            y == c \div b
<1>1. /\ x \in Int /\ y \in Int
      /\ b * x <= a /\ c < b * y + b
  BY Division
<1>. HIDE DEF x, y
<1>2. b * (y + 1) = b * y + b
  BY <1>1
<1>3. b * x < b * (y + 1)
  BY <1>1, <1>2
<1>4. x < y + 1
  BY <1>1, <1>3, Cancel
<1>5. x <= y
  BY <1>1, <1>4
<1>6. QED
  BY <1>5 DEF x, y

\* A part of the whole is a part of what is shared.
LEMMA PartOf ==
  ASSUME NEW d \in Nat, NEW p \in Nat, NEW s \in Nat \ {0}, p <= s
  PROVE  (d * p) \div s \in 0..d
<1>. DEFINE x == (d * p) \div s
<1>1. d * p \in Nat /\ d * p <= d * s /\ d * s = s * d
  BY Product
<1>2. x \in Int /\ s * x <= d * p /\ d * p < s * x + s
  BY <1>1, Division
<1>. HIDE DEF x
<1>3. x <= d
  BY <1>1, <1>2, Cancel
<1>4. s * 0 < s * (x + 1)
  <2>1. s * (x + 1) = s * x + s
    BY <1>2
  <2>2. QED
    BY <2>1, <1>1, <1>2
<1>5. 0 < x + 1
  BY <1>2, <1>4, Cancel
<1>6. x \in 0..d
  BY <1>2, <1>3, <1>5
<1>7. QED
  BY <1>6 DEF x

LEMMA RoundedFacts ==
  ASSUME NEW a \in Int, NEW b \in Nat \ {0}
  PROVE  /\ Rounded(a, b) \in Int
         /\ 2 * (b * Rounded(a, b)) <= 2 * a + b
         /\ 2 * a < 2 * (b * Rounded(a, b)) + b
<1>1. 2 * a + b \in Int /\ 2 * b \in Nat \ {0}
  OBVIOUS
<1>. DEFINE r == Rounded(a, b)
<1>2. r \in Int /\ (2 * b) * r <= 2 * a + b /\ 2 * a + b < (2 * b) * r + 2 * b
  BY <1>1, Division DEF Rounded
<1>. HIDE DEF r
<1>3. (2 * b) * r = 2 * (b * r) /\ b * r \in Int
  BY <1>2
<1>4. r \in Int /\ 2 * (b * r) <= 2 * a + b /\ 2 * a < 2 * (b * r) + b
  BY <1>2, <1>3
<1>5. QED
  BY <1>4 DEF r

LEMMA RoundedGrows ==
  ASSUME NEW a \in Int, NEW c \in Int, NEW b \in Nat \ {0}, a <= c
  PROVE  Rounded(a, b) <= Rounded(c, b)
<1>1. 2 * a + b \in Int /\ 2 * c + b \in Int /\ 2 * a + b <= 2 * c + b /\ 2 * b \in Nat \ {0}
  OBVIOUS
<1>2. QED
  BY <1>1, DivisionGrows DEF Rounded

LEMMA RoundedZero == ASSUME NEW b \in Nat \ {0} PROVE Rounded(0, b) = 0
<1>1. Rounded(0, b) \in Int /\ 2 * (b * Rounded(0, b)) <= b /\ 0 < 2 * (b * Rounded(0, b)) + b
  BY RoundedFacts
<1>. DEFINE r == Rounded(0, b)
<1>. HIDE DEF r
<1>2. r \in Int /\ b * r \in Int /\ 2 * (b * r) <= b /\ 0 < 2 * (b * r) + b
  BY <1>1 DEF r
<1>3. b * r < b * 1 /\ b * (0 - 1) < b * r
  BY <1>2
<1>4. r < 1 /\ 0 - 1 < r
  BY <1>2, <1>3, Cancel
<1>5. r = 0
  BY <1>2, <1>4
<1>6. QED
  BY <1>5 DEF r

\* What satisfies the equations of the sums is the sums.
LEMMA SumIs ==
  ASSUME NEW q \in Seq(Int), NEW g \in [0..Len(q) -> Int], g[0] = 0,
         \A i \in 1..Len(q) : g[i] = g[i - 1] + q[i]
  PROVE  \A k \in 0..Len(q) : SumTo(q, k) = g[k]
<1>. DEFINE T == {k \in 0..Len(q) : SumTo(q, k) = g[k]}
<1>0. Len(q) \in Nat
  OBVIOUS
<1>1. 0 \in T
  BY <1>0, SumFacts
<1>2. ASSUME NEW k \in 0..Len(q), k < Len(q), k \in T PROVE k + 1 \in T
  <2>1. k + 1 \in 1..Len(q) /\ (k + 1) - 1 = k
    BY <1>2, <1>0
  <2>2. SumTo(q, k + 1) = SumTo(q, k) + q[k + 1]
    BY <2>1, SumFacts
  <2>3. g[k + 1] = g[k] + q[k + 1]
    BY <2>1
  <2>4. QED
    BY <2>1, <2>2, <2>3, <1>2
<1>3. \A k \in 0..Len(q) : k \in T
  <2>. HIDE DEF T
  <2>1. QED
    BY <1>0, <1>1, <1>2, UpTo
<1>4. QED
  BY <1>3

LEMMA SumsGrow ==
  ASSUME NEW q \in Seq(Nat)
  PROVE  /\ \A k \in 0..Len(q) : SumTo(q, k) \in Nat
         /\ \A k \in 0..Len(q) : \A i \in 0..k : SumTo(q, i) <= SumTo(q, k)
<1>0. Len(q) \in Nat /\ q \in Seq(Int) /\ \A i \in 1..Len(q) : q[i] \in Nat
  OBVIOUS
<1>1. /\ SumTo(q, 0) = 0
      /\ \A i \in 1..Len(q) : SumTo(q, i) = SumTo(q, i - 1) + q[i]
      /\ \A i \in 0..Len(q) : SumTo(q, i) \in Int
  BY <1>0, SumFacts
<1>. DEFINE T == {k \in 0..Len(q) : \A i \in 0..k : SumTo(q, i) <= SumTo(q, k)}
<1>2. 0 \in T
  BY <1>0, <1>1
<1>3. ASSUME NEW k \in 0..Len(q), k < Len(q), k \in T PROVE k + 1 \in T
  <2>1. k + 1 \in 1..Len(q) /\ (k + 1) - 1 = k /\ k + 1 \in 0..Len(q)
    BY <1>3, <1>0
  <2>2. SumTo(q, k + 1) = SumTo(q, k) + q[k + 1]
    BY <2>1, <1>1
  <2>3. SumTo(q, k) \in Int /\ q[k + 1] \in Nat
    BY <1>0, <1>1, <1>3, <2>1
  <2>4. ASSUME NEW i \in 0..(k + 1) PROVE SumTo(q, i) <= SumTo(q, k + 1)
    <3>1. CASE i = k + 1
      BY <3>1, <2>2, <2>3
    <3>2. CASE i # k + 1
      <4>1. i \in 0..k /\ i \in 0..Len(q)
        BY <3>2, <1>3, <1>0
      <4>2. SumTo(q, i) <= SumTo(q, k) /\ SumTo(q, i) \in Int
        BY <4>1, <1>3, <1>1
      <4>3. QED
        BY <4>2, <2>2, <2>3
    <3>3. QED
      BY <3>1, <3>2
  <2>5. QED
    BY <2>1, <2>4
<1>4. \A k \in 0..Len(q) : k \in T
  <2>. HIDE DEF T
  <2>1. QED
    BY <1>0, <1>2, <1>3, UpTo
<1>5. ASSUME NEW k \in 0..Len(q) PROVE SumTo(q, k) \in Nat
  <2>1. SumTo(q, 0) <= SumTo(q, k) /\ SumTo(q, k) \in Int /\ SumTo(q, 0) = 0
    BY <1>1, <1>4
  <2>2. QED
    BY <2>1
<1>6. QED
  BY <1>4, <1>5

LEMMA SumIsPositive ==
  ASSUME NEW q \in Seq(Nat \ {0}), q # <<>>
  PROVE  Sum(q) \in Nat \ {0}
<1>0. Len(q) \in Nat \ {0} /\ q \in Seq(Nat) /\ q[1] \in Nat \ {0}
  OBVIOUS
<1>1. SumTo(q, 0) = 0 /\ SumTo(q, 1) = SumTo(q, 0) + q[1]
  <2>1. q \in Seq(Int) /\ 1 \in 1..Len(q) /\ 1 - 1 = 0
    BY <1>0
  <2>2. QED
    BY <2>1, SumFacts
<1>2. SumTo(q, 1) <= SumTo(q, Len(q)) /\ SumTo(q, Len(q)) \in Nat
  <2>1. Len(q) \in 0..Len(q) /\ 1 \in 0..Len(q)
    BY <1>0
  <2>2. QED
    BY <2>1, <1>0, SumsGrow
<1>3. QED
  BY <1>0, <1>1, <1>2 DEF Sum

-----------------------------------------------------------------------------
(* The words of a voice: given, or estimated *)

\* Words and spans come one after the other.
Ordered(q) ==
  \A k \in 1..Len(q) :
    /\ q[k].start \in Nat /\ q[k].end \in Nat
    /\ q[k].start <= q[k].end
    /\ k < Len(q) => q[k].end <= q[k + 1].start

LEMMA WiderSeq == ASSUME NEW S, NEW T, S \subseteq T PROVE Seq(S) \subseteq Seq(T)
<1>1. SUFFICES ASSUME NEW q \in Seq(S) PROVE q \in Seq(T)
  OBVIOUS
<1>2. Len(q) \in Nat /\ q \in [1..Len(q) -> S]
  OBVIOUS
<1>3. q \in [1..Len(q) -> T]
  BY <1>2
<1>4. QED
  BY <1>2, <1>3

LEMMA OrderedFar ==
  ASSUME NEW q, Len(q) \in Nat, Ordered(q)
  PROVE  \A j \in 1..Len(q) : \A i \in 1..Len(q) :
           i <= j => /\ q[i].start <= q[j].start /\ q[i].end <= q[j].end
                     /\ i < j => q[i].end <= q[j].start
<1>. DEFINE Far(i, j) == /\ q[i].start <= q[j].start /\ q[i].end <= q[j].end
                         /\ i < j => q[i].end <= q[j].start
            T == {j \in 0..Len(q) : \A i \in 1..j : Far(i, j)}
<1>1. 0 \in T
  OBVIOUS
<1>2. ASSUME NEW k \in 0..Len(q), k < Len(q), k \in T PROVE k + 1 \in T
  <2>1. k + 1 \in 1..Len(q) /\ k \in Nat
    BY <1>2
  <2>2. Far(k + 1, k + 1)
    BY <2>1 DEF Ordered
  <2>3. ASSUME NEW i \in 1..k PROVE Far(i, k + 1)
    <3>1. Far(i, k)
      BY <1>2, <2>3
    <3>2. k \in 1..Len(q) /\ i \in 1..Len(q) /\ i < k + 1
      BY <1>2, <2>3, <2>1
    <3>3. /\ q[k].end <= q[k + 1].start /\ q[k].start <= q[k].end
          /\ q[k + 1].start <= q[k + 1].end
          /\ {q[k].start, q[k].end, q[k + 1].start, q[k + 1].end, q[i].start, q[i].end} \subseteq Nat
      BY <3>2, <2>1, <1>2 DEF Ordered
    <3>4. QED
      BY <3>1, <3>2, <3>3
  <2>4. \A i \in 1..(k + 1) : i = k + 1 \/ i \in 1..k
    BY <2>1
  <2>5. k + 1 \in 0..Len(q)
    BY <2>1
  <2>. HIDE DEF Far
  <2>6. QED
    BY <2>2, <2>3, <2>4, <2>5
<1>3. \A j \in 0..Len(q) : j \in T
  <2>. HIDE DEF T
  <2>1. QED
    BY <1>1, <1>2, UpTo
<1>4. ASSUME NEW j \in 1..Len(q), NEW i \in 1..Len(q), i <= j PROVE Far(i, j)
  <2>1. j \in 0..Len(q) /\ i \in 1..j
    BY <1>4
  <2>. HIDE DEF Far
  <2>2. QED
    BY <2>1, <1>3
<1>5. QED
  BY <1>4

LEMMA SharedFacts ==
  ASSUME NEW weights \in Seq(Nat \ {0}), NEW start \in Nat, NEW end \in Nat, start <= end
  PROVE  /\ Shared(weights, start, end) \in Seq([start: start..end, end: start..end])
         /\ Len(Shared(weights, start, end)) = Len(weights)
         /\ Ordered(Shared(weights, start, end))
<1>. DEFINE n == Len(weights)
            d == end - start
            mark(k) == IF k = Len(weights) THEN end
                       ELSE start + ((end - start) * SumTo(weights, k)) \div Sum(weights)
            q == Shared(weights, start, end)
<1>0. n \in Nat /\ DOMAIN weights = 1..n /\ d \in Nat
  OBVIOUS
<1>5. weights \in Seq(Nat) /\ weights \in Seq(Int)
  OBVIOUS
<1>1. q = [k \in 1..n |-> [start |-> mark(k - 1), end |-> mark(k)]]
  BY <1>0 DEF Shared
<1>2. CASE n = 0
  <2>1. q = <<>> /\ Len(q) = 0
    BY <1>1, <1>2
  <2>2. QED
    BY <2>1, <1>2 DEF Ordered
<1>3. CASE n # 0
  <2>1. /\ Sum(weights) \in Nat \ {0}
        /\ \A k \in 0..n : SumTo(weights, k) \in Nat /\ SumTo(weights, k) <= Sum(weights)
        /\ \A k \in 0..n : \A i \in 0..k : SumTo(weights, i) <= SumTo(weights, k)
    <3>1. n \in 0..n
      BY <1>0
    <3>2. weights # <<>>
      BY <1>3
    <3>3. Sum(weights) \in Nat \ {0}
      BY <3>2, SumIsPositive
    <3>4. QED
      BY <3>1, <3>3, <1>0, <1>5, SumsGrow DEF Sum
  <2>2. ASSUME NEW k \in 0..n
        PROVE  /\ (d * SumTo(weights, k)) \div Sum(weights) \in 0..d
               /\ \A i \in 0..k : (d * SumTo(weights, i)) \div Sum(weights)
                                    <= (d * SumTo(weights, k)) \div Sum(weights)
    <3>. HIDE DEF d, n
    <3>1. SumTo(weights, k) \in Nat /\ SumTo(weights, k) <= Sum(weights) /\ Sum(weights) \in Nat \ {0}
      BY <2>1
    <3>2. (d * SumTo(weights, k)) \div Sum(weights) \in 0..d
      BY <3>1, <1>0, PartOf
    <3>3. ASSUME NEW i \in 0..k
          PROVE  (d * SumTo(weights, i)) \div Sum(weights) <= (d * SumTo(weights, k)) \div Sum(weights)
      <4>1. i \in 0..n /\ SumTo(weights, i) \in Nat /\ SumTo(weights, i) <= SumTo(weights, k)
        BY <2>1, <1>0
      <4>2. d * SumTo(weights, i) <= d * SumTo(weights, k)
        BY <4>1, <3>1, <1>0, Product
      <4>3. d * SumTo(weights, i) \in Int /\ d * SumTo(weights, k) \in Int
        BY <4>1, <3>1, <1>0
      <4>4. QED
        BY <4>2, <4>3, <3>1, DivisionGrows
    <3>4. QED
      BY <3>2, <3>3
  <2>3. ASSUME NEW k \in 0..n
        PROVE  mark(k) \in start..end /\ \A i \in 0..k : mark(i) <= mark(k)
    <3>1. \A i \in 0..n : mark(i) = end \/ mark(i) = start + (d * SumTo(weights, i)) \div Sum(weights)
      OBVIOUS
    <3>2. mark(n) = end
      OBVIOUS
    <3>. HIDE DEF mark
    <3>3. \A i \in 0..n : mark(i) \in start..end
      BY <3>1, <2>2
    <3>4. QED
      <4>1. CASE k = n
        BY <4>1, <3>2, <3>3, <1>0
      <4>2. CASE k # n
        <5>1. ASSUME NEW i \in 0..k PROVE i # n /\ i \in 0..n
          <6>. HIDE DEF n
          <6>1. k \in Int /\ k <= n /\ k # n /\ i <= k /\ i \in Nat
            BY <4>2, <1>0
          <6>2. QED
            BY <6>1, <1>0
        <5>2. \A i \in 0..k : mark(i) = start + (d * SumTo(weights, i)) \div Sum(weights)
          BY <5>1 DEF mark
        <5>3. k \in 0..k
          BY <1>0
        <5>4. QED
          BY <5>1, <5>2, <5>3, <2>2, <3>3
      <4>3. QED
        BY <4>1, <4>2
  <2>. HIDE DEF mark
  <2>4. \A k \in 1..n : /\ mark(k - 1) \in start..end /\ mark(k) \in start..end
                        /\ mark(k - 1) <= mark(k)
    <3>1. \A k \in 1..n : k - 1 \in 0..k /\ k \in 0..n /\ k - 1 \in 0..n
      BY <1>0
    <3>2. QED
      BY <3>1, <2>3
  <2>5. q \in [1..n -> [start: start..end, end: start..end]]
    BY <1>1, <2>4
  <2>6. q \in Seq([start: start..end, end: start..end]) /\ Len(q) = n
    <3>. DEFINE R == [start: start..end, end: start..end]
    <3>1. q \in [1..n -> R] /\ n \in Nat
      BY <2>5, <1>0
    <3>. HIDE DEF q, n, R
    <3>2. q \in Seq(R) /\ Len(q) = n
      BY <3>1
    <3>3. QED
      BY <3>2 DEF R
  <2>7. Ordered(q)
    <3>1. ASSUME NEW k \in 1..n
          PROVE  /\ q[k].start = mark(k - 1) /\ q[k].end = mark(k)
                 /\ k < n => q[k + 1].start = mark(k)
      <4>1. k < n => k + 1 \in 1..n /\ (k + 1) - 1 = k
        BY <1>0
      <4>2. QED
        BY <1>1, <4>1
    <3>2. start..end \subseteq Nat
      OBVIOUS
    <3>3. \A k \in 1..n : mark(k) \in Nat /\ mark(k - 1) \in Nat /\ mark(k - 1) <= mark(k)
      BY <2>4, <3>2
    <3>. HIDE DEF q
    <3>4. ASSUME NEW k \in 1..n
          PROVE  /\ q[k].start \in Nat /\ q[k].end \in Nat /\ q[k].start <= q[k].end
                 /\ k < n => q[k].end <= q[k + 1].start
      BY <3>1, <3>3
    <3>5. QED
      BY <3>4, <2>6 DEF Ordered
  <2>8. QED
    BY <2>6, <2>7
<1>4. QED
  BY <1>2, <1>3

Spoken == [spans: Seq(Span), length: 0..(Beats * Beat)]

LEMMA TimingBounds ==
  /\ {MaxWords, MaxScenes, Beats, Beat, FrameTicks, MaxChars, MaxLines} \subseteq Nat \ {0}
  /\ {TailTicks, Gap, Hold, TextFrames, CtaFrames, MinText, Exit, Margin} \subseteq Nat
  /\ WordLengths \subseteq Nat \ {0} /\ SceneLengths \subseteq Nat \ {0}
  /\ Transitions \subseteq Nat /\ Fades \subseteq Nat
  /\ Beats * Beat \in Nat
  /\ \A b \in 0..Beats : Beat * b \in 0..(Beats * Beat)
<1>1. Beat \in Nat /\ Beats \in Nat /\ Beats * Beat = Beat * Beats /\ Beat * 0 = 0
  BY TimingAssumption
<1>2. ASSUME NEW b \in 0..Beats PROVE Beat * b \in 0..(Beats * Beat)
  <2>1. Beat * b <= Beat * Beats /\ Beat * 0 <= Beat * b /\ Beat * b \in Int
    BY <1>1, Product
  <2>2. QED
    BY <2>1, <1>1
<1>3. Beats * Beat \in Nat
  BY <1>1
<1>4. QED
  BY <1>2, <1>3, TimingAssumption

LEMMA TimedFacts ==
  ASSUME NEW v \in Timed
  PROVE  v \in Spoken /\ Ordered(v.spans)
<1>. DEFINE marks(n) == {s \in [1..(2 * n) -> 0..Beats] : \A i \in 1..(2 * n - 1) : s[i] <= s[i + 1]}
            spans(s, n) == [k \in 1..n |-> [start |-> Beat * s[2 * k - 1], end |-> Beat * s[2 * k]]]
<1>1. \/ \E b \in 0..Beats : v = [spans |-> <<>>, length |-> Beat * b]
      \/ \E n \in 1..MaxWords : \E s \in marks(n) : v = [spans |-> spans(s, n), length |-> Beat * s[2 * n]]
  BY DEF Timed
<1>2. ASSUME NEW b \in 0..Beats, v = [spans |-> <<>>, length |-> Beat * b]
      PROVE  v \in Spoken /\ Ordered(v.spans)
  BY <1>2, TimingBounds DEF Spoken, Ordered
<1>3. ASSUME NEW n \in 1..MaxWords, NEW s \in marks(n),
             v = [spans |-> spans(s, n), length |-> Beat * s[2 * n]]
      PROVE  v \in Spoken /\ Ordered(v.spans)
  <2>0. n \in Nat /\ MaxWords \in Nat /\ n >= 1 /\ Beat \in Nat
    BY TimingBounds
  <2>1. ASSUME NEW k \in 1..n
        PROVE  /\ 2 * k - 1 \in 1..(2 * n) /\ 2 * k \in 1..(2 * n) /\ 2 * k - 1 + 1 = 2 * k
               /\ 2 * k - 1 \in 1..(2 * n - 1)
               /\ k < n => /\ 2 * k \in 1..(2 * n - 1) /\ 2 * (k + 1) - 1 = 2 * k + 1
                           /\ 2 * k + 1 \in 1..(2 * n) /\ k + 1 \in 1..n
    BY <2>0
  <2>2. ASSUME NEW k \in 1..n
        PROVE  /\ s[2 * k - 1] \in 0..Beats /\ s[2 * k] \in 0..Beats
               /\ s[2 * k - 1] <= s[2 * k]
               /\ k < n => s[2 * k] <= s[2 * (k + 1) - 1] /\ s[2 * (k + 1) - 1] \in 0..Beats
    BY <2>1
  <2>3. ASSUME NEW k \in 1..n
        PROVE  /\ Beat * s[2 * k - 1] \in 0..(Beats * Beat) /\ Beat * s[2 * k] \in 0..(Beats * Beat)
               /\ Beat * s[2 * k - 1] <= Beat * s[2 * k]
               /\ k < n => Beat * s[2 * k] <= Beat * s[2 * (k + 1) - 1]
    <3>1. Beats \in Nat
      BY TimingBounds
    <3>2. /\ s[2 * k - 1] \in 0..Beats /\ s[2 * k] \in 0..Beats
          /\ s[2 * k - 1] <= s[2 * k]
          /\ s[2 * k - 1] \in Int /\ s[2 * k] \in Int
      BY <2>2, <3>1
    <3>3. k < n => s[2 * k] <= s[2 * (k + 1) - 1] /\ s[2 * (k + 1) - 1] \in Int
      BY <2>2, <3>1
    <3>4. Beat * s[2 * k - 1] <= Beat * s[2 * k]
      BY <3>2, <2>0, Product
    <3>5. k < n => Beat * s[2 * k] <= Beat * s[2 * (k + 1) - 1]
      BY <3>2, <3>3, <2>0, Product
    <3>6. QED
      BY <3>2, <3>4, <3>5, TimingBounds
  <2>. DEFINE q == spans(s, n)
  <2>4. q \in [1..n -> Span]
    BY <2>3 DEF Span
  <2>5. q \in Seq(Span) /\ Len(q) = n
    <3>. HIDE DEF q
    <3>1. QED
      BY <2>4, <2>0
  <2>6. ASSUME NEW k \in 1..n
        PROVE  /\ q[k].start \in Nat /\ q[k].end \in Nat /\ q[k].start <= q[k].end
               /\ k < n => q[k].end <= q[k + 1].start
    <3>1. q[k].start = Beat * s[2 * k - 1] /\ q[k].end = Beat * s[2 * k]
      OBVIOUS
    <3>2. k < n => q[k + 1].start = Beat * s[2 * (k + 1) - 1]
      BY <2>1
    <3>3. 0..(Beats * Beat) \subseteq Nat
      BY TimingBounds
    <3>4. Beat * s[2 * k - 1] \in Nat /\ Beat * s[2 * k] \in Nat
      BY <2>3, <3>3
    <3>. HIDE DEF q
    <3>5. QED
      BY <3>1, <3>2, <3>4, <2>3
  <2>7. 2 * n \in 1..(2 * n)
    BY <2>0
  <2>8. Beat * s[2 * n] \in 0..(Beats * Beat)
    BY <2>7, TimingBounds
  <2>9. Ordered(q)
    <3>. HIDE DEF q
    <3>1. QED
      BY <2>5, <2>6 DEF Ordered
  <2>10. v.spans = q /\ v \in Spoken
    BY <1>3, <2>5, <2>8 DEF Spoken
  <2>11. QED
    BY <2>9, <2>10
<1>. HIDE DEF marks, spans
<1>4. QED
  BY <1>1, <1>2, <1>3

LEMMA SeqUpToFacts ==
  ASSUME NEW S, NEW n \in Nat, NEW q \in SeqUpTo(S, n)
  PROVE  q \in Seq(S) /\ Len(q) \in 0..n /\ DOMAIN q = 1..Len(q)
<1>1. PICK k \in 0..n : q \in [1..k -> S]
  BY DEF SeqUpTo
<1>2. QED
  BY <1>1

LEMMA EstimatedFacts ==
  ASSUME NEW v \in Estimated
  PROVE  v \in Spoken /\ Ordered(v.spans)
<1>1. PICK b \in 0..Beats, q \in SeqUpTo(WordLengths, MaxWords) \ {<<>>} :
        v = [spans |-> IF b = 0 THEN <<>> ELSE Shared(q, 0, Beat * b), length |-> Beat * b]
  BY DEF Estimated
<1>2. q \in Seq(WordLengths) /\ q \in Seq(Nat \ {0})
  <2>1. MaxWords \in Nat /\ WordLengths \subseteq Nat \ {0}
    BY TimingBounds
  <2>2. q \in Seq(WordLengths)
    BY <2>1, SeqUpToFacts
  <2>3. Seq(WordLengths) \subseteq Seq(Nat \ {0})
    BY <2>1, WiderSeq
  <2>4. QED
    BY <2>2, <2>3
<1>3. Beat * b \in 0..(Beats * Beat) /\ Beat * b \in Nat /\ Beats * Beat \in Nat
  BY TimingBounds
<1>4. v.length = Beat * b /\ v.spans = IF b = 0 THEN <<>> ELSE Shared(q, 0, Beat * b)
  BY <1>1
<1>5. <<>> \in Seq(Span) /\ Ordered(<<>>)
  BY DEF Ordered
<1>6. /\ Shared(q, 0, Beat * b) \in Seq([start: 0..(Beat * b), end: 0..(Beat * b)])
      /\ Ordered(Shared(q, 0, Beat * b))
  BY <1>2, <1>3, SharedFacts
<1>7. [start: 0..(Beat * b), end: 0..(Beat * b)] \subseteq Span
  BY <1>3 DEF Span
<1>8. Shared(q, 0, Beat * b) \in Seq(Span)
  <2>1. Seq([start: 0..(Beat * b), end: 0..(Beat * b)]) \subseteq Seq(Span)
    BY <1>7, WiderSeq
  <2>2. QED
    BY <1>6, <2>1
<1>9. v.spans \in Seq(Span) /\ Ordered(v.spans)
  BY <1>4, <1>5, <1>6, <1>8
<1>10. QED
  BY <1>1, <1>3, <1>4, <1>9 DEF Spoken

-----------------------------------------------------------------------------
(* The lengths of the scenes *)

LEMMA MaxIs == ASSUME NEW S \in SUBSET Int, NEW m \in S, \A y \in S : y <= m PROVE Max(S) = m
<1>1. \E x \in S : \A y \in S : x >= y
  OBVIOUS
<1>2. Max(S) \in S /\ \A y \in S : Max(S) >= y
  BY <1>1 DEF Max
<1>3. Max(S) \in Int /\ m \in Int /\ Max(S) >= m /\ Max(S) <= m
  BY <1>2
<1>4. QED
  BY <1>3

LEMMA MinIs == ASSUME NEW S \in SUBSET Int, NEW m \in S, \A y \in S : m <= y PROVE Min(S) = m
<1>1. \E x \in S : \A y \in S : x =< y
  OBVIOUS
<1>2. Min(S) \in S /\ \A y \in S : Min(S) =< y
  BY <1>1 DEF Min
<1>3. Min(S) \in Int /\ m \in Int /\ Min(S) <= m /\ Min(S) >= m
  BY <1>2
<1>4. QED
  BY <1>3

LEMMA MaxOfTwo == ASSUME NEW a \in Int, NEW b \in Int PROVE Max({a, b}) = IF a <= b THEN b ELSE a
<1>1. CASE a <= b
  BY <1>1, MaxIs
<1>2. CASE ~ (a <= b)
  BY <1>2, MaxIs
<1>3. QED
  BY <1>1, <1>2

LEMMA MinOfTwo == ASSUME NEW a \in Int, NEW b \in Int PROVE Min({a, b}) = IF a <= b THEN a ELSE b
<1>1. CASE a <= b
  BY <1>1, MinIs
<1>2. CASE ~ (a <= b)
  BY <1>2, MinIs
<1>3. QED
  BY <1>1, <1>2

\* fit_scene_durations: every length is rounded, so that the sum is off by half a tick each.
LEMMA FittedFacts ==
  ASSUME NEW asked \in Seq(Nat \ {0}), asked # <<>>, NEW total \in Nat
  PROVE  /\ Fitted(asked, total) \in Seq(Nat) /\ Len(Fitted(asked, total)) = Len(asked)
         /\ total > 0 => /\ 2 * Sum(Fitted(asked, total)) <= 2 * total + Len(asked)
                         /\ 2 * total <= 2 * Sum(Fitted(asked, total)) + Len(asked)
<1>. DEFINE n == Len(asked)
            S == Sum(asked)
            fit == Fitted(asked, total)
<1>0. n \in Nat \ {0} /\ DOMAIN asked = 1..n /\ \A i \in 1..n : asked[i] \in Nat \ {0}
  OBVIOUS
<1>1. S \in Nat \ {0}
  BY SumIsPositive
<1>2. CASE total = 0
  <2>1. fit = asked
    BY <1>2 DEF Fitted
  <2>2. asked \in Seq(Nat)
    BY WiderSeq
  <2>3. QED
    BY <1>2, <2>1, <2>2
<1>3. CASE total > 0
  <2>1. fit = [i \in 1..n |-> Rounded(asked[i] * total, S)]
    BY <1>3, <1>0 DEF Fitted
  <2>2. ASSUME NEW i \in 1..n PROVE Rounded(asked[i] * total, S) \in Nat
    <3>1. asked[i] * total \in Int /\ 0 <= asked[i] * total
      BY <1>0
    <3>. DEFINE c == asked[i] * total
    <3>. HIDE DEF c, S
    <3>2. c \in Int /\ 0 <= c /\ 0 \in Int
      BY <3>1 DEF c
    <3>3. Rounded(0, S) <= Rounded(c, S)
      BY <3>2, <1>1, RoundedGrows
    <3>4. Rounded(c, S) \in Int
      BY <3>2, <1>1, RoundedFacts
    <3>5. Rounded(0, S) = 0
      BY <1>1, RoundedZero
    <3>6. Rounded(c, S) \in Nat
      BY <3>3, <3>4, <3>5
    <3>7. QED
      BY <3>6 DEF c
  <2>3. fit \in [1..n -> Nat]
    BY <2>1, <2>2
  <2>4. fit \in Seq(Nat) /\ Len(fit) = n
    <3>. HIDE DEF fit, n
    <3>1. QED
      BY <2>3, <1>0
  <2>5. /\ \A k \in 0..n : SumTo(asked, k) \in Int /\ SumTo(fit, k) \in Int
        /\ SumTo(asked, 0) = 0 /\ SumTo(fit, 0) = 0
        /\ \A k \in 1..n : /\ SumTo(asked, k) = SumTo(asked, k - 1) + asked[k]
                           /\ SumTo(fit, k) = SumTo(fit, k - 1) + fit[k]
    <3>1. Seq(Nat \ {0}) \subseteq Seq(Int) /\ Seq(Nat) \subseteq Seq(Int)
      <4>1. Nat \ {0} \subseteq Int /\ Nat \subseteq Int
        OBVIOUS
      <4>2. QED
        BY <4>1, WiderSeq
    <3>2. asked \in Seq(Int) /\ fit \in Seq(Int)
      BY <3>1, <2>4
    <3>. HIDE DEF fit
    <3>3. QED
      BY <3>2, <2>4, SumFacts
  <2>6. ASSUME NEW i \in 1..n
        PROVE  /\ 2 * (S * fit[i]) <= 2 * (asked[i] * total) + S
               /\ 2 * (asked[i] * total) < 2 * (S * fit[i]) + S
    <3>1. asked[i] * total \in Int /\ fit[i] = Rounded(asked[i] * total, S)
      BY <1>0, <2>1
    <3>. HIDE DEF fit, S
    <3>2. QED
      BY <3>1, <1>1, RoundedFacts
  <2>. DEFINE Near(k) == /\ 2 * (S * SumTo(fit, k)) <= 2 * (total * SumTo(asked, k)) + k * S
                         /\ 2 * (total * SumTo(asked, k)) <= 2 * (S * SumTo(fit, k)) + k * S
              T == {k \in 0..n : Near(k)}
  <2>. HIDE DEF fit, S, n
  <2>7. 0 \in T
    <3>1. Near(0)
      BY <2>5, <1>1
    <3>2. QED
      BY <3>1, <1>0
  <2>8. ASSUME NEW k \in 0..n, k < n, k \in T PROVE k + 1 \in T
    <3>1. k + 1 \in 1..n /\ (k + 1) - 1 = k /\ k \in Nat /\ k + 1 \in 0..n
      BY <1>0, <2>8
    <3>. DEFINE a == asked[k + 1]
                f == fit[k + 1]
                A == SumTo(asked, k)
                F == SumTo(fit, k)
    <3>2. a \in Int /\ f \in Int /\ A \in Int /\ F \in Int
      BY <3>1, <1>0, <2>3, <2>5
    <3>3. SumTo(asked, k + 1) = A + a /\ SumTo(fit, k + 1) = F + f
      BY <3>1, <2>5
    <3>4. 2 * (S * f) <= 2 * (a * total) + S /\ 2 * (a * total) < 2 * (S * f) + S
      BY <3>1, <2>6
    <3>5. /\ 2 * (S * F) <= 2 * (total * A) + k * S
          /\ 2 * (total * A) <= 2 * (S * F) + k * S
      BY <2>8
    <3>. HIDE DEF a, f, A, F
    <3>6. /\ S * (F + f) = S * F + S * f /\ total * (A + a) = total * A + a * total
          /\ (k + 1) * S = k * S + S
          /\ {S * F, S * f, total * A, a * total, k * S} \subseteq Int
      BY <3>1, <3>2, <1>1
    <3>7. /\ 2 * (S * (F + f)) <= 2 * (total * (A + a)) + (k + 1) * S
          /\ 2 * (total * (A + a)) <= 2 * (S * (F + f)) + (k + 1) * S
      <4>. DEFINE SF == S * F
                  Sf == S * f
                  tA == total * A
                  ta == a * total
                  kS == k * S
      <4>1. /\ S * (F + f) = SF + Sf /\ total * (A + a) = tA + ta /\ (k + 1) * S = kS + S
            /\ SF \in Int /\ Sf \in Int /\ tA \in Int /\ ta \in Int /\ kS \in Int /\ S \in Int
        BY <3>6, <1>1
      <4>2. /\ 2 * Sf <= 2 * ta + S /\ 2 * ta < 2 * Sf + S
            /\ 2 * SF <= 2 * tA + kS /\ 2 * tA <= 2 * SF + kS
        BY <3>4, <3>5
      <4>. HIDE DEF SF, Sf, tA, ta, kS
      <4>3. /\ 2 * (SF + Sf) <= 2 * (tA + ta) + (kS + S)
            /\ 2 * (tA + ta) <= 2 * (SF + Sf) + (kS + S)
        BY <4>1, <4>2
      <4>4. QED
        BY <4>1, <4>3
    <3>8. Near(k + 1)
      BY <3>3, <3>7
    <3>. HIDE DEF Near
    <3>9. QED
      BY <3>1, <3>8
  <2>9. Near(n)
    <3>. HIDE DEF T
    <3>1. \A k \in 0..n : k \in T
      BY <2>7, <2>8, <1>0, UpTo
    <3>. USE DEF T
    <3>. HIDE DEF Near
    <3>2. n \in T
      BY <3>1, <1>0
    <3>3. QED
      BY <3>2
  <2>10. SumTo(asked, n) = S /\ SumTo(fit, n) = Sum(fit)
    BY <2>4 DEF S, n, Sum
  <2>. DEFINE F == Sum(fit)
  <2>11. F \in Int
    BY <2>5, <2>10, <1>0
  <2>12. 2 * (S * F) <= 2 * (total * S) + n * S /\ 2 * (total * S) <= 2 * (S * F) + n * S
    BY <2>9, <2>10
  <2>. HIDE DEF F
  <2>13. /\ S * (2 * F) = 2 * (S * F) /\ S * (2 * total + n) = 2 * (total * S) + n * S
         /\ S * (2 * total) = 2 * (total * S) /\ S * (2 * F + n) = 2 * (S * F) + n * S
    BY <2>11, <1>0, <1>1
  <2>14. S * (2 * F) <= S * (2 * total + n) /\ S * (2 * total) <= S * (2 * F + n)
    BY <2>12, <2>13
  <2>15. 2 * F <= 2 * total + n /\ 2 * total <= 2 * F + n
    BY <2>14, <2>11, <1>0, <1>1, Cancel
  <2>16. QED
    BY <2>4, <2>15 DEF F, fit, n
<1>4. QED
  BY <1>2, <1>3

-----------------------------------------------------------------------------
(* Scenes cut the words into runs *)

\* The part of q that comes after its first a elements, up to b.
Piece(q, a, b) == [k \in 1..(b - a) |-> q[a + k]]

LEMMA RunIs ==
  ASSUME NEW q, NEW a \in Nat, NEW b \in Nat, a <= b, Len(q) \in Nat, b <= Len(q)
  PROVE  SubSeq(q, a + 1, b) = Piece(q, a, b)
<1>1. SubSeq(q, a + 1, b) = [k \in 1..(1 + b - (a + 1)) |-> q[k + (a + 1) - 1]]
  OBVIOUS
<1>2. 1 + b - (a + 1) = b - a /\ \A k \in 1..(b - a) : k + (a + 1) - 1 = a + k
  OBVIOUS
<1>3. QED
  BY <1>1, <1>2 DEF Piece

\* Twice the middle of a word.
Mid(w) == w.start + w.end

\* The parts are q from end to end, each with the words whose middles fall into its scene.
Laid(q, lengths, parts) ==
  /\ parts \in [1..Len(lengths) -> Seq(Word)]
  /\ \E o \in [0..Len(lengths) -> 0..Len(q)] :
       /\ o[0] = 0 /\ o[Len(lengths)] = Len(q)
       /\ \A i \in 1..Len(lengths) :
            /\ o[i - 1] <= o[i] /\ parts[i] = Piece(q, o[i - 1], o[i])
            /\ \A k \in (o[i - 1] + 1)..o[i] :
                 /\ 2 * SumTo(lengths, i - 1) <= Mid(q[k])
                 /\ i < Len(lengths) => Mid(q[k]) < 2 * SumTo(lengths, i)

Falls(w, lengths) ==
  Min({i \in DOMAIN lengths : i = Len(lengths) \/ w.start + w.end < 2 * SumTo(lengths, i)})

\* A word falls into the first scene that ends after its middle, or into the last one;
\* a later word into no earlier scene.
LEMMA FallsFacts ==
  ASSUME NEW lengths \in Seq(Nat), lengths # <<>>, NEW w, Mid(w) \in Nat
  PROVE  /\ Falls(w, lengths) \in 1..Len(lengths)
         /\ 2 * SumTo(lengths, Falls(w, lengths) - 1) <= Mid(w)
         /\ Falls(w, lengths) < Len(lengths) => Mid(w) < 2 * SumTo(lengths, Falls(w, lengths))
         /\ \A i \in 1..Len(lengths) :
              i = Len(lengths) \/ Mid(w) < 2 * SumTo(lengths, i) => Falls(w, lengths) <= i
<1>. DEFINE n == Len(lengths)
            S == {i \in 1..n : i = n \/ Mid(w) < 2 * SumTo(lengths, i)}
<1>1. n \in Nat \ {0} /\ DOMAIN lengths = 1..n
  OBVIOUS
<1>2. S \in SUBSET Nat /\ n \in S
  BY <1>1
<1>3. PICK m \in S : \A i \in S : m <= i
  <2>. HIDE DEF S
  <2>1. QED
    BY <1>2, LeastOf
<1>4. Falls(w, lengths) = m
  <2>1. Falls(w, lengths) = Min(S)
    BY <1>1 DEF Falls, Mid
  <2>2. S \in SUBSET Int
    BY <1>2
  <2>. HIDE DEF S
  <2>3. QED
    BY <2>1, <2>2, <1>3, MinIs
<1>5. m \in 1..n
  BY <1>3
<1>9. m < n => Mid(w) < 2 * SumTo(lengths, m)
  BY <1>3, <1>5
<1>6. 2 * SumTo(lengths, m - 1) <= Mid(w)
  <2>1. m \in Nat /\ m - 1 \in 0..n /\ m - 1 # n
    <3>. HIDE DEF n, S
    <3>1. QED
      BY <1>1, <1>5
  <2>2. SumTo(lengths, m - 1) \in Nat
    BY <2>1, SumsGrow
  <2>3. CASE m = 1
    <3>1. Seq(Nat) \subseteq Seq(Int)
      <4>1. Nat \subseteq Int
        OBVIOUS
      <4>2. QED
        BY <4>1, WiderSeq
    <3>2. SumTo(lengths, 0) = 0
      BY <3>1, SumFacts
    <3>3. QED
      BY <3>2, <2>3
  <2>4. CASE m # 1
    <3>1. m - 1 \in 1..n /\ ~ (m <= m - 1)
      <4>. HIDE DEF n, S
      <4>1. QED
        BY <1>1, <1>5, <2>4
    <3>2. m - 1 \notin S
      BY <3>1, <1>3
    <3>3. ~ (Mid(w) < 2 * SumTo(lengths, m - 1))
      BY <3>1, <3>2, <2>1
    <3>4. QED
      BY <3>3, <2>2
  <2>5. QED
    BY <2>3, <2>4
<1>7. \A i \in 1..n : i = n \/ Mid(w) < 2 * SumTo(lengths, i) => m <= i
  BY <1>3
<1>8. QED
  BY <1>4, <1>5, <1>6, <1>7, <1>9

LEMMA SplitFacts ==
  ASSUME words \in Seq(Word), Ordered(words), NEW lengths \in Seq(Nat), lengths # <<>>
  PROVE  Laid(words, lengths, SplitWords(lengths))
<1>. DEFINE n == Len(lengths)
            N == Len(words)
            F(k) == Falls(words[k], lengths)
            parts == SplitWords(lengths)
<1>1. n \in Nat \ {0} /\ DOMAIN lengths = 1..n /\ N \in Nat /\ DOMAIN words = 1..N
  OBVIOUS
<1>2. ASSUME NEW k \in 1..N PROVE Mid(words[k]) \in Nat
  BY <1>2 DEF Ordered, Mid
<1>3. ASSUME NEW k \in 1..N
      PROVE  /\ F(k) \in 1..n
             /\ 2 * SumTo(lengths, F(k) - 1) <= Mid(words[k])
             /\ F(k) < n => Mid(words[k]) < 2 * SumTo(lengths, F(k))
             /\ \A i \in 1..n : i = n \/ Mid(words[k]) < 2 * SumTo(lengths, i) => F(k) <= i
  BY <1>2, <1>3, FallsFacts
<1>. HIDE DEF F
<1>4. ASSUME NEW k \in 1..N, NEW j \in 1..k PROVE j \in 1..N /\ F(j) <= F(k)
  <2>1. j \in 1..N /\ j <= k
    BY <1>1
  <2>2. words[j].start <= words[k].start /\ words[j].end <= words[k].end
    BY <2>1, <1>1, OrderedFar
  <2>3. /\ words[j].start \in Nat /\ words[j].end \in Nat
        /\ words[k].start \in Nat /\ words[k].end \in Nat
    BY <2>1, <1>1 DEF Ordered
  <2>4. Mid(words[j]) <= Mid(words[k])
    BY <2>2, <2>3 DEF Mid
  <2>5. F(k) \in 1..n /\ (F(k) < n => Mid(words[k]) < 2 * SumTo(lengths, F(k)))
    BY <1>3
  <2>6. CASE F(k) = n
    <3>1. F(j) <= F(k)
      BY <2>1, <2>5, <2>6, <1>3
    <3>2. QED
      BY <2>1, <3>1
  <2>7. CASE F(k) # n
    <3>1. Mid(words[k]) < 2 * SumTo(lengths, F(k))
      BY <2>5, <2>7, <1>1
    <3>2. SumTo(lengths, F(k)) \in Nat
      BY <2>5, <1>1, SumsGrow
    <3>3. Mid(words[j]) < 2 * SumTo(lengths, F(k))
      BY <3>1, <3>2, <2>1, <2>4, <1>2
    <3>4. F(j) <= F(k)
      BY <3>3, <2>1, <2>5, <1>3
    <3>5. QED
      BY <2>1, <3>4
  <2>8. QED
    BY <2>6, <2>7
<1>5. ASSUME NEW k \in 1..N PROVE SceneOf(k, lengths) = F(k)
  <2>. DEFINE S == {F(j) : j \in 1..k}
  <2>1. SceneOf(k, lengths) = Max(S)
    BY DEF SceneOf, F, Falls
  <2>2. k \in 1..k
    BY <1>1
  <2>3. F(k) \in S /\ \A y \in S : y <= F(k)
    BY <2>2, <1>4
  <2>4. S \in SUBSET Int
    BY <1>3, <1>4
  <2>. HIDE DEF S
  <2>5. QED
    BY <2>1, <2>3, <2>4, MaxIs
<1>. DEFINE C(i) == {0} \cup {k \in 1..N : F(k) <= i}
            o == [i \in 0..n |-> CHOOSE m \in C(i) : \A k \in C(i) : k <= m]
<1>6. ASSUME NEW i \in 0..n PROVE o[i] \in C(i) /\ \A k \in C(i) : k <= o[i]
  <2>1. C(i) \in SUBSET (0..N) /\ C(i) # {}
    BY <1>1
  <2>2. o[i] = CHOOSE m \in C(i) : \A k \in C(i) : k <= m
    OBVIOUS
  <2>. HIDE DEF C, o
  <2>3. \E m \in C(i) : \A k \in C(i) : k <= m
    BY <2>1, <1>1, GreatestOf
  <2>4. QED
    BY <2>2, <2>3
<1>7. o \in [0..n -> 0..N]
  <2>1. o = [i \in 0..n |-> o[i]]
    OBVIOUS
  <2>2. \A i \in 0..n : o[i] \in 0..N
    <3>1. \A i \in 0..n : C(i) \subseteq 0..N
      BY <1>1
    <3>. HIDE DEF o, C
    <3>2. QED
      BY <1>6, <3>1
  <2>. HIDE DEF o
  <2>3. QED
    BY <2>1, <2>2
<1>. HIDE DEF o
<1>8. o[0] = 0 /\ o[n] = N
  <2>1. 0 \in 0..n /\ n \in 0..n
    BY <1>1
  <2>2. \A k \in 1..N : ~ (F(k) <= 0) /\ F(k) <= n
    <3>1. \A k \in 1..N : F(k) \in 1..n
      BY <1>3
    <3>2. \A i \in 1..n : ~ (i <= 0) /\ i <= n
      BY <1>1
    <3>3. QED
      BY <3>1, <3>2
  <2>3. C(0) = {0}
    BY <2>2
  <2>4. N \in C(n) /\ C(n) \subseteq 0..N
    BY <2>2, <1>1
  <2>5. o[0] \in C(0) /\ o[n] \in C(n) /\ \A k \in C(n) : k <= o[n]
    BY <2>1, <1>6
  <2>. HIDE DEF C
  <2>6. o[0] = 0
    BY <2>3, <2>5
  <2>7. N <= o[n] /\ o[n] \in 0..N
    BY <2>4, <2>5
  <2>8. QED
    BY <2>6, <2>7, <1>1
<1>9. ASSUME NEW i \in 1..n
      PROVE  /\ i \in 0..n /\ i - 1 \in 0..n /\ o[i - 1] \in 0..N /\ o[i] \in 0..N
             /\ o[i - 1] <= o[i]
             /\ \A k \in 1..N : k \in (o[i - 1] + 1)..o[i] <=> F(k) = i
  <2>1. i \in 0..n /\ i - 1 \in 0..n /\ i \in Nat
    BY <1>1
  <2>2. o[i - 1] \in 0..N /\ o[i] \in 0..N
    BY <2>1, <1>7
  <2>3. /\ o[i - 1] \in C(i - 1) /\ \A k \in C(i - 1) : k <= o[i - 1]
        /\ o[i] \in C(i) /\ \A k \in C(i) : k <= o[i]
    BY <2>1, <1>6
  <2>4. C(i - 1) \subseteq C(i)
    <3>1. \A k \in 1..N : F(k) \in Int
      BY <1>3
    <3>2. QED
      BY <3>1, <2>1
  <2>5. o[i - 1] <= o[i]
    <3>. HIDE DEF C
    <3>1. QED
      BY <2>3, <2>4
  <2>6. ASSUME NEW k \in 1..N PROVE k \in (o[i - 1] + 1)..o[i] <=> F(k) = i
    <3>1. F(k) \in 1..n /\ k \in Nat /\ k >= 1
      BY <1>3
    <3>2. \A j \in 0..n : o[j] \in 0..N /\ (k <= o[j] <=> F(k) <= j)
      <4>1. ASSUME NEW j \in 0..n PROVE o[j] \in 0..N /\ (k <= o[j] <=> F(k) <= j)
        <5>1. o[j] \in 0..N /\ o[j] \in C(j) /\ \A x \in C(j) : x <= o[j]
          BY <1>6, <1>7
        <5>2. ASSUME F(k) <= j PROVE k <= o[j]
          <6>1. k \in C(j)
            BY <5>2
          <6>. HIDE DEF C
          <6>2. QED
            BY <6>1, <5>1
        <5>3. ASSUME k <= o[j] PROVE F(k) <= j
          <6>1. o[j] \in 1..N /\ k \in 1..o[j]
            BY <5>1, <5>3, <3>1
          <6>2. F(o[j]) <= j
            BY <6>1, <5>1
          <6>3. F(k) <= F(o[j]) /\ F(o[j]) \in 1..n
            BY <6>1, <1>3, <1>4
          <6>4. QED
            BY <6>2, <6>3, <3>1
        <5>4. QED
          BY <5>1, <5>2, <5>3
      <4>2. QED
        BY <4>1
    <3>3. /\ o[i] \in 0..N /\ (k <= o[i] <=> F(k) <= i)
          /\ o[i - 1] \in 0..N /\ (k <= o[i - 1] <=> F(k) <= i - 1)
      BY <2>1, <3>2
    <3>4. QED
      BY <3>1, <3>3, <2>1
  <2>7. QED
    BY <2>1, <2>2, <2>5, <2>6
<1>10. ASSUME NEW i \in 1..n
       PROVE  parts[i] = Piece(words, o[i - 1], o[i])
  <2>. DEFINE own == {k \in 1..N : F(k) = i}
              a == o[i - 1]
              b == o[i]
  <2>1. parts[i] = IF own = {} THEN <<>> ELSE SubSeq(words, Min(own), Max(own))
    <3>1. own = {k \in DOMAIN words : SceneOf(k, lengths) = i}
      BY <1>1, <1>5
    <3>. HIDE DEF own
    <3>2. QED
      BY <3>1, <1>1 DEF SplitWords
  <2>2. a \in Nat /\ b \in Nat /\ a <= b /\ b <= N
    BY <1>1, <1>9
  <2>3. own = (a + 1)..b
    <3>1. (a + 1)..b \subseteq 1..N
      BY <2>2, <1>1
    <3>2. \A k \in 1..N : k \in (a + 1)..b <=> F(k) = i
      BY <1>9
    <3>. HIDE DEF a, b
    <3>3. QED
      BY <3>1, <3>2
  <2>. HIDE DEF own, a, b, parts
  <2>4. CASE a = b
    <3>1. own = {}
      BY <2>2, <2>3, <2>4
    <3>2. Piece(words, a, b) = <<>>
      BY <2>2, <2>4 DEF Piece
    <3>3. QED
      BY <2>1, <3>1, <3>2 DEF a, b
  <2>5. CASE a # b
    <3>1. /\ own # {} /\ own \in SUBSET Int /\ a + 1 \in own /\ b \in own
          /\ \A k \in own : a + 1 <= k /\ k <= b
      <4>1. a + 1 \in (a + 1)..b /\ b \in (a + 1)..b
        BY <2>2, <2>5
      <4>2. (a + 1)..b \subseteq Int /\ \A k \in (a + 1)..b : a + 1 <= k /\ k <= b
        BY <2>2
      <4>3. QED
        BY <2>3, <4>1, <4>2
    <3>2. Min(own) = a + 1 /\ Max(own) = b
      BY <3>1, MinIs, MaxIs
    <3>3. SubSeq(words, a + 1, b) = Piece(words, a, b)
      BY <2>2, <1>1, RunIs
    <3>4. QED
      BY <2>1, <3>1, <3>2, <3>3 DEF a, b
  <2>6. QED
    BY <2>4, <2>5
<1>11. parts \in [1..n -> Seq(Word)]
  <2>1. parts = [i \in 1..n |-> parts[i]]
    BY <1>1 DEF SplitWords
  <2>2. ASSUME NEW i \in 1..n PROVE parts[i] \in Seq(Word)
    <3>. DEFINE a == o[i - 1]
                b == o[i]
    <3>1. parts[i] = [k \in 1..(b - a) |-> words[a + k]]
      BY <1>10 DEF Piece
    <3>2. a \in Nat /\ b \in Nat /\ a <= b /\ b <= N
      BY <1>1, <1>9
    <3>. HIDE DEF a, b, parts
    <3>3. b - a \in Nat /\ \A k \in 1..(b - a) : a + k \in 1..N
      BY <3>2, <1>1
    <3>4. \A k \in 1..N : words[k] \in Word
      OBVIOUS
    <3>5. parts[i] \in [1..(b - a) -> Word]
      BY <3>1, <3>3, <3>4
    <3>. DEFINE len == b - a
    <3>6. len \in Nat /\ parts[i] \in [1..len -> Word]
      BY <3>3, <3>5
    <3>. HIDE DEF len
    <3>7. QED
      BY <3>6
  <2>. HIDE DEF parts
  <2>3. QED
    BY <2>1, <2>2
<1>12. ASSUME NEW i \in 1..n, NEW k \in (o[i - 1] + 1)..o[i]
       PROVE  /\ 2 * SumTo(lengths, i - 1) <= Mid(words[k])
              /\ i < n => Mid(words[k]) < 2 * SumTo(lengths, i)
  <2>1. k \in 1..N
    BY <1>1, <1>9
  <2>2. F(k) = i
    BY <2>1, <1>9
  <2>3. QED
    BY <2>1, <2>2, <1>3
<1>13. QED
  <2>. HIDE DEF parts, F
  <2>1. \A i \in 1..n : /\ o[i - 1] <= o[i] /\ parts[i] = Piece(words, o[i - 1], o[i])
                         /\ \A k \in (o[i - 1] + 1)..o[i] :
                              /\ 2 * SumTo(lengths, i - 1) <= Mid(words[k])
                              /\ i < n => Mid(words[k]) < 2 * SumTo(lengths, i)
    BY <1>9, <1>10, <1>12
  <2>2. Laid(words, lengths, parts)
    BY <2>1, <1>7, <1>8, <1>11 DEF Laid
  <2>3. QED
    BY <2>2 DEF parts

-----------------------------------------------------------------------------
(* The inductive invariant: types, and the scenes that carry the words *)

\* The scenes carry the words from end to end, and last as long as the voice and its
\* tail but for half a tick each.
ScenesLaid ==
  /\ scenes.lengths \in Seq(Nat) /\ scenes.lengths # <<>>
  /\ Laid(words, scenes.lengths, scenes.parts)
  /\ voice.length > 0 =>
       /\ 2 * Sum(scenes.lengths) <= 2 * (voice.length + TailTicks) + Len(scenes.lengths)
       /\ 2 * (voice.length + TailTicks) <= 2 * Sum(scenes.lengths) + Len(scenes.lengths)

FilmCut ==
  /\ film.frames = SceneFrames
  /\ \E wanted \in Transitions : film.into = TransitionList(SceneFrames, wanted)

TimingInv ==
  /\ at \in {"script", "voice", "words", "scenes", "film"}
  /\ voice \in Spoken /\ Ordered(voice.spans)
  /\ words \in Seq(Word) /\ Len(words) <= MaxWords /\ Ordered(words)
  /\ IF at \in {"scenes", "film"} THEN ScenesLaid ELSE scenes = [lengths |-> <<>>, parts |-> <<>>]
  /\ IF at = "film" THEN FilmCut 
     ELSE film = [frames |-> <<>>, into |-> <<>>, hook |-> FALSE, cta |-> FALSE]

LEMMA TimingInitInv == ASSUME TimingInit PROVE TimingInv
<1>1. voice = [spans |-> <<>>, length |-> 0] /\ 0 \in 0..(Beats * Beat)
  BY TimingBounds DEF TimingInit
<1>2. voice \in Spoken /\ voice.spans = <<>>
  BY <1>1 DEF Spoken
<1>3. <<>> \in Seq(Word) /\ Len(<<>>) = 0 /\ Ordered(<<>>) /\ MaxWords \in Nat
  BY TimingBounds DEF Ordered
<1>4. QED
  BY <1>2, <1>3 DEF TimingInit, TimingInv

LEMMA SpeakInv == ASSUME TimingInv, Speak PROVE TimingInv'
<1>1. voice' \in Timed \/ voice' \in Estimated
  BY DEF Speak
<1>2. voice' \in Spoken /\ Ordered(voice'.spans)
  BY <1>1, TimedFacts, EstimatedFacts
<1>3. voice' \in Spoken /\ Ordered(voice.spans)'
  BY <1>2 DEF Ordered
<1>4. /\ at = "script" /\ at' = "voice" /\ words' = words /\ scenes' = scenes /\ film' = film
  BY DEF Speak
<1>5. Ordered(words)' /\ words' \in Seq(Word) /\ Len(words') <= MaxWords
  BY <1>4 DEF TimingInv, Ordered
<1>6. QED
  BY <1>3, <1>4, <1>5 DEF TimingInv, Word, Spoken, Span

\* words_to_subtitle_json: what is shown takes the times of what is spoken, in order.
LEMMA SubtitleInv == ASSUME TimingInv, Subtitle PROVE TimingInv'
<1>. DEFINE n == Len(voice.spans)
            spansOf(shown) == IF n = 0 THEN <<>>
                              ELSE IF Len(shown) = n THEN voice.spans
                              ELSE Shared(shown, voice.spans[1].start, voice.spans[n].end)
<1>1. PICK shown \in SeqUpTo(WordLengths, MaxWords) :
        words' = [k \in DOMAIN spansOf(shown) |->
                    [start |-> spansOf(shown)[k].start, end |-> spansOf(shown)[k].end, len |-> shown[k]]]
  BY DEF Subtitle
<1>2. /\ shown \in Seq(WordLengths) /\ shown \in Seq(Nat \ {0}) /\ Len(shown) \in 0..MaxWords
      /\ DOMAIN shown = 1..Len(shown)
  <2>1. MaxWords \in Nat /\ WordLengths \subseteq Nat \ {0}
    BY TimingBounds
  <2>2. shown \in Seq(WordLengths) /\ Len(shown) \in 0..MaxWords /\ DOMAIN shown = 1..Len(shown)
    BY <2>1, SeqUpToFacts
  <2>3. Seq(WordLengths) \subseteq Seq(Nat \ {0})
    BY <2>1, WiderSeq
  <2>4. QED
    BY <2>2, <2>3
<1>3. voice.spans \in Seq(Span) /\ Ordered(voice.spans) /\ n \in Nat
  BY DEF TimingInv, Spoken
<1>. DEFINE q == spansOf(shown)
            m == Len(q)
<1>4. q \in Seq(Span) /\ Ordered(q) /\ m \in Nat /\ DOMAIN q = 1..m /\ m <= Len(shown)
  <2>1. CASE n = 0
    <3>1. q = <<>>
      BY <2>1
    <3>2. <<>> \in Seq(Span) /\ Ordered(<<>>) /\ Len(<<>>) = 0 /\ DOMAIN <<>> = 1..0
      BY DEF Ordered
    <3>. HIDE DEF q
    <3>3. QED
      BY <3>1, <3>2, <1>2
  <2>2. CASE n # 0 /\ Len(shown) = n
    <3>1. q = voice.spans
      BY <2>2
    <3>. HIDE DEF q
    <3>2. QED
      BY <2>2, <3>1, <1>3
  <2>3. CASE n # 0 /\ Len(shown) # n
    <3>. DEFINE s == voice.spans[1].start
                e == voice.spans[n].end
    <3>1. q = Shared(shown, s, e)
      BY <2>3
    <3>2. voice.spans[1] \in Span /\ voice.spans[n] \in Span /\ n \in 1..n /\ 1 \in 1..n
      BY <2>3, <1>3
    <3>3. s \in 0..(Beats * Beat) /\ e \in 0..(Beats * Beat)
      BY <3>2 DEF Span
    <3>4. s <= e
      <4>1. /\ voice.spans[1].start <= voice.spans[n].start
            /\ voice.spans[n].start <= voice.spans[n].end
            /\ voice.spans[1].start \in Nat /\ voice.spans[n].start \in Nat /\ voice.spans[n].end \in Nat
        <5>1. voice.spans[1].start <= voice.spans[n].start
          <6>1. 1 <= n
            BY <3>2
          <6>2. QED
            BY <6>1, <3>2, <1>3, OrderedFar
        <5>2. QED
          BY <5>1, <3>2, <1>3 DEF Ordered
      <4>2. QED
        BY <4>1
    <3>5. s \in Nat /\ e \in Nat /\ s..e \subseteq 0..(Beats * Beat)
      <4>. DEFINE M == Beats * Beat
      <4>1. M \in Nat /\ s \in 0..M /\ e \in 0..M
        BY <3>3, TimingBounds
      <4>. HIDE DEF M, s, e
      <4>2. s \in Nat /\ e \in Nat /\ s..e \subseteq 0..M
        BY <4>1
      <4>3. QED
        BY <4>2 DEF M
    <3>. HIDE DEF s, e, q
    <3>6. q \in Seq([start: s..e, end: s..e]) /\ Len(q) = Len(shown) /\ Ordered(q)
      BY <3>1, <3>4, <3>5, <1>2, SharedFacts
    <3>7. Seq([start: s..e, end: s..e]) \subseteq Seq(Span)
      <4>1. [start: s..e, end: s..e] \subseteq Span
        BY <3>5 DEF Span
      <4>2. QED
        BY <4>1, WiderSeq
    <3>8. q \in Seq(Span) /\ m = Len(shown) /\ Ordered(q)
      BY <3>6, <3>7
    <3>9. m \in Nat /\ DOMAIN q = 1..m
      BY <3>8
    <3>10. QED
      BY <3>8, <3>9
  <2>4. QED
    BY <2>1, <2>2, <2>3
<1>5. words' = [k \in 1..m |-> [start |-> q[k].start, end |-> q[k].end, len |-> shown[k]]]
  BY <1>1, <1>4
<1>. HIDE DEF q, m
<1>6. ASSUME NEW k \in 1..m
      PROVE  q[k] \in Span /\ shown[k] \in WordLengths
  <2>1. k \in 1..Len(shown)
    BY <1>2, <1>4
  <2>2. QED
    BY <2>1, <1>2, <1>4
<1>7. words' \in [1..m -> Word]
  <2>1. \A k \in 1..m : [start |-> q[k].start, end |-> q[k].end, len |-> shown[k]] \in Word
    BY <1>6 DEF Word, Span
  <2>2. QED
    BY <2>1, <1>5
<1>8. words' \in Seq(Word) /\ Len(words') = m
  BY <1>4, <1>7
<1>9. Len(words') <= MaxWords
  BY <1>2, <1>4, <1>8, TimingBounds
<1>10. Ordered(words)'
  <2>1. \A k \in 1..m : words'[k].start = q[k].start /\ words'[k].end = q[k].end
    BY <1>5
  <2>2. \A k \in 1..m : k < m => k + 1 \in 1..m
    BY <1>4
  <2>3. \A k \in 1..m : /\ q[k].start \in Nat /\ q[k].end \in Nat /\ q[k].start <= q[k].end
                        /\ k < m => q[k].end <= q[k + 1].start
    BY <1>4 DEF Ordered, m
  <2>4. QED
    BY <2>1, <2>2, <2>3, <1>8 DEF Ordered
<1>11. at = "voice" /\ at' = "words" /\ voice' = voice /\ scenes' = scenes /\ film' = film
  BY DEF Subtitle
<1>12. Ordered(voice.spans)' /\ voice' \in Spoken
  BY <1>11 DEF TimingInv, Ordered
<1>13. QED
  BY <1>8, <1>9, <1>10, <1>11, <1>12 DEF TimingInv, Word, Spoken, Span

LEMMA LayScenesInv == ASSUME TimingInv, LayScenes PROVE TimingInv'
<1>. DEFINE total == IF voice.length > 0 THEN voice.length + TailTicks ELSE 0
<1>1. PICK asked \in SeqUpTo(SceneLengths, MaxScenes) \ {<<>>} :
        scenes' = [lengths |-> Fitted(asked, total), parts |-> SplitWords(Fitted(asked, total))]
  BY DEF LayScenes
<1>2. asked \in Seq(Nat \ {0}) /\ asked # <<>>
  <2>1. MaxScenes \in Nat /\ SceneLengths \subseteq Nat \ {0}
    BY TimingBounds
  <2>2. asked \in Seq(SceneLengths)
    BY <2>1, SeqUpToFacts
  <2>3. Seq(SceneLengths) \subseteq Seq(Nat \ {0})
    BY <2>1, WiderSeq
  <2>4. QED
    BY <2>2, <2>3
<1>3. voice.length \in Nat /\ TailTicks \in Nat /\ total \in Nat
  <2>1. voice.length \in 0..(Beats * Beat) /\ TailTicks \in Nat
    BY TimingBounds DEF TimingInv, Spoken
  <2>2. voice.length \in Nat
    BY <2>1, TimingBounds
  <2>3. QED
    BY <2>1, <2>2
<1>. DEFINE fit == Fitted(asked, total)
<1>. HIDE DEF total
<1>4. /\ fit \in Seq(Nat) /\ Len(fit) = Len(asked)
      /\ total > 0 => /\ 2 * Sum(fit) <= 2 * total + Len(asked)
                      /\ 2 * total <= 2 * Sum(fit) + Len(asked)
  BY <1>2, <1>3, FittedFacts
<1>5. fit # <<>> /\ DOMAIN fit = 1..Len(fit) /\ Len(fit) \in Nat
  <2>1. Len(asked) # 0
    BY <1>2
  <2>. HIDE DEF fit
  <2>2. QED
    BY <2>1, <1>4
<1>. HIDE DEF fit
<1>6. scenes'.lengths = fit /\ scenes'.parts = SplitWords(fit)
  BY <1>1 DEF fit
<1>7. Laid(words, fit, SplitWords(fit))
  BY <1>4, <1>5, SplitFacts DEF TimingInv
<1>8. at = "words" /\ at' = "scenes" /\ voice' = voice /\ words' = words /\ film' = film
  BY DEF LayScenes
<1>9. voice.length > 0 => total = voice.length + TailTicks /\ total > 0
  BY <1>3 DEF total
<1>10. ScenesLaid'
  <2>1. Laid(words', scenes'.lengths, scenes'.parts)
    BY <1>6, <1>7, <1>8
  <2>2. Laid(words, scenes.lengths, scenes.parts)'
    BY <2>1 DEF Laid, Piece, SumTo, Mid
  <2>3. voice'.length > 0 =>
          /\ 2 * Sum(scenes'.lengths) <= 2 * (voice'.length + TailTicks) + Len(scenes'.lengths)
          /\ 2 * (voice'.length + TailTicks) <= 2 * Sum(scenes'.lengths) + Len(scenes'.lengths)
    BY <1>4, <1>6, <1>8, <1>9
  <2>4. QED
    BY <1>4, <1>5, <1>6, <2>2, <2>3 DEF ScenesLaid
<1>11. Ordered(words)' /\ words' \in Seq(Word) /\ Len(words') <= MaxWords
       /\ Ordered(voice.spans)' /\ voice' \in Spoken
  BY <1>8 DEF TimingInv, Ordered
<1>12. QED
  BY <1>8, <1>10, <1>11 DEF TimingInv

LEMMA CutFilmInv == ASSUME TimingInv, CutFilm PROVE TimingInv'
<1>1. /\ at = "scenes" /\ at' = "film" /\ voice' = voice /\ words' = words /\ scenes' = scenes
  BY DEF CutFilm
<1>2. PICK wanted \in Transitions, hook \in BOOLEAN, cta \in BOOLEAN :
        film' = [frames |-> SceneFrames, into |-> TransitionList(SceneFrames, wanted),
                 hook |-> hook, cta |-> cta]
  BY DEF CutFilm
<1>3. SceneFrames' = SceneFrames
  BY <1>1 DEF SceneFrames
<1>4. FilmCut'
  BY <1>2, <1>3 DEF FilmCut
<1>5. ScenesLaid'
  <2>1. ScenesLaid
    BY <1>1 DEF TimingInv
  <2>2. QED
    BY <2>1, <1>1 DEF ScenesLaid
<1>6. Ordered(words)' /\ words' \in Seq(Word) /\ Len(words') <= MaxWords
      /\ Ordered(voice.spans)' /\ voice' \in Spoken
  BY <1>1 DEF TimingInv, Ordered
<1>7. QED
  BY <1>1, <1>4, <1>5, <1>6 DEF TimingInv

LEMMA TimingStep == ASSUME TimingInv, [TimingNext]_timingVars PROVE TimingInv'
<1>1. CASE UNCHANGED timingVars
  BY <1>1 DEF timingVars, TimingInv, ScenesLaid, FilmCut, SceneFrames, Ordered
<1>2. QED
  BY <1>1, SpeakInv, SubtitleInv, LayScenesInv, CutFilmInv DEF TimingNext

LEMMA TimingTypes == ASSUME TimingInv PROVE TimingTypeOK
<1>1. voice.spans \in Seq(Span) /\ voice.length \in 0..(Beats * Beat)
  BY DEF TimingInv, Spoken
<1>2. DOMAIN scenes.lengths = DOMAIN scenes.parts
  <2>1. CASE at \in {"scenes", "film"}
    <3>1. scenes.lengths \in Seq(Nat) /\ scenes.parts \in [1..Len(scenes.lengths) -> Seq(Word)]
      BY <2>1 DEF TimingInv, ScenesLaid, Laid
    <3>2. QED
      BY <3>1
  <2>2. CASE at \notin {"scenes", "film"}
    BY <2>2 DEF TimingInv
  <2>3. QED
    BY <2>1, <2>2
<1>3. DOMAIN film.frames = DOMAIN film.into
  <2>1. CASE at = "film"
    <3>1. PICK wanted \in Transitions : film.into = TransitionList(SceneFrames, wanted)
      BY <2>1 DEF TimingInv, FilmCut
    <3>2. DOMAIN TransitionList(SceneFrames, wanted) = DOMAIN SceneFrames
      BY DEF TransitionList
    <3>3. film.frames = SceneFrames
      BY <2>1 DEF TimingInv, FilmCut
    <3>4. QED
      BY <3>1, <3>2, <3>3
  <2>2. CASE at # "film"
    BY <2>2 DEF TimingInv
  <2>3. QED
    BY <2>1, <2>2
<1>4. QED
  BY <1>1, <1>2, <1>3 DEF TimingInv, TimingTypeOK

\* Along every run of asset_gen and the renderer the words are in their order, the scenes
\* carry them from end to end in runs that follow one another, and together last as long as
\* the voice and its tail but for half a tick a scene (asset_gen.py, timing.ts).
THEOREM TimingInvariant == TimingSpec => []TimingInv
BY TimingInitInv, TimingStep, PTL DEF TimingSpec

\* The type of the time line, for every voice, script, layout of scenes and constants
\* (asset_gen.py, timing.ts, captions.ts): words, scenes and frames stay in their bounds.
THEOREM TimingTypeCorrect == TimingSpec => []TimingTypeOK
<1>1. TimingInv => TimingTypeOK
  BY TimingTypes
<1>2. QED
  BY <1>1, TimingInvariant, PTL

-----------------------------------------------------------------------------
(* The frames of the film *)

LEMMA NatIsInt == Seq(Nat) \subseteq Seq(Int)
<1>1. Nat \subseteq Int
  OBVIOUS
<1>2. QED
  BY <1>1, WiderSeq

\* sceneFrames and sceneStarts: rounded on the time line, so that no rounding adds up.
LEMMA FramesFacts ==
  ASSUME NEW lengths \in Seq(Nat), NEW F \in Nat \ {0}, NEW frames,
         frames = [i \in DOMAIN lengths |-> Rounded(SumTo(lengths, i), F)
                                              - Rounded(SumTo(lengths, i - 1), F)]
  PROVE  /\ frames \in Seq(Nat) /\ Len(frames) = Len(lengths)
         /\ \A k \in 0..Len(lengths) : SumTo(frames, k) = Rounded(SumTo(lengths, k), F)
<1>. DEFINE n == Len(lengths)
            g == [k \in 0..n |-> Rounded(SumTo(lengths, k), F)]
<1>1. n \in Nat /\ DOMAIN lengths = 1..n
  OBVIOUS
<1>2. /\ SumTo(lengths, 0) = 0
      /\ \A k \in 0..n : SumTo(lengths, k) \in Nat
      /\ \A k \in 0..n : \A i \in 0..k : SumTo(lengths, i) <= SumTo(lengths, k)
  BY NatIsInt, SumFacts, SumsGrow
<1>. HIDE DEF n
<1>3. g \in [0..n -> Int]
  <2>1. \A k \in 0..n : Rounded(SumTo(lengths, k), F) \in Int
    <3>1. \A k \in 0..n : SumTo(lengths, k) \in Int
      BY <1>2
    <3>2. QED
      BY <3>1, RoundedFacts
  <2>2. QED
    BY <2>1
<1>4. ASSUME NEW i \in 1..n
      PROVE  /\ i \in 0..n /\ i - 1 \in 0..n
             /\ frames[i] = g[i] - g[i - 1]
             /\ g[i - 1] <= g[i]
  <2>1. i \in 0..n /\ i - 1 \in 0..n /\ i - 1 \in 0..i
    BY <1>1
  <2>2. frames[i] = g[i] - g[i - 1]
    BY <2>1, <1>1
  <2>3. /\ SumTo(lengths, i - 1) <= SumTo(lengths, i)
        /\ SumTo(lengths, i - 1) \in Int /\ SumTo(lengths, i) \in Int
    BY <2>1, <1>2
  <2>4. Rounded(SumTo(lengths, i - 1), F) <= Rounded(SumTo(lengths, i), F)
    BY <2>3, RoundedGrows
  <2>5. QED
    BY <2>1, <2>2, <2>4
<1>5. g[0] = 0
  <2>1. 0 \in 0..n
    BY <1>1
  <2>2. g[0] = Rounded(0, F)
    BY <2>1, <1>2
  <2>3. QED
    BY <2>2, RoundedZero
<1>6. \A k \in 0..n : g[k] = Rounded(SumTo(lengths, k), F)
  OBVIOUS
<1>. HIDE DEF g
<1>7. frames \in [1..n -> Nat]
  <2>1. ASSUME NEW i \in 1..n PROVE frames[i] \in Nat
    <3>. DEFINE x == g[i]
                y == g[i - 1]
                f == frames[i]
    <3>1. x \in Int /\ y \in Int /\ f = x - y /\ y <= x
      BY <1>3, <1>4
    <3>. HIDE DEF x, y, f
    <3>2. f \in Nat /\ x = y + f
      BY <3>1
    <3>3. QED
      BY <3>2 DEF x, y, f
  <2>2. frames = [i \in 1..n |-> frames[i]]
    BY <1>1
  <2>3. QED
    BY <2>1, <2>2
<1>8. frames \in Seq(Nat) /\ Len(frames) = n
  BY <1>1, <1>7
<1>9. \A k \in 0..n : SumTo(frames, k) = g[k]
  <2>1. ASSUME NEW i \in 1..n PROVE g[i] = g[i - 1] + frames[i]
    <3>. DEFINE x == g[i]
                y == g[i - 1]
                f == frames[i]
    <3>1. x \in Int /\ y \in Int /\ f = x - y /\ y <= x
      BY <1>3, <1>4
    <3>. HIDE DEF x, y, f
    <3>2. f \in Nat /\ x = y + f
      BY <3>1
    <3>3. QED
      BY <3>2 DEF x, y, f
  <2>2. frames \in Seq(Int)
    BY <1>8, NatIsInt
  <2>3. QED
    BY <2>1, <2>2, <1>3, <1>5, <1>8, SumIs
<1>10. QED
  BY <1>6, <1>8, <1>9 DEF n

LEMMA MinOfThree ==
  ASSUME NEW a \in Int, NEW b \in Int, NEW c \in Int
  PROVE  /\ Min({a, b, c}) \in {a, b, c} /\ Min({a, b, c}) \in Int
         /\ Min({a, b, c}) <= a /\ Min({a, b, c}) <= b /\ Min({a, b, c}) <= c
<1>1. \E x \in {a, b, c} : \A y \in {a, b, c} : x =< y
  <2>1. CASE a <= b /\ a <= c
    BY <2>1
  <2>2. CASE b <= a /\ b <= c
    BY <2>2
  <2>3. CASE c <= a /\ c <= b
    BY <2>3
  <2>4. QED
    BY <2>1, <2>2, <2>3
<1>2. Min({a, b, c}) \in {a, b, c} /\ \A y \in {a, b, c} : Min({a, b, c}) =< y
  BY <1>1 DEF Min
<1>3. QED
  BY <1>2

\* transitionList: none into the first scene, and none longer than its own scene.
LEMMA IntoFacts ==
  ASSUME NEW frames \in Seq(Nat), NEW wanted \in Int, NEW into,
         into = TransitionList(frames, wanted)
  PROVE  /\ into \in Seq(Nat) /\ Len(into) = Len(frames)
         /\ Len(frames) > 0 => into[1] = 0
         /\ \A i \in 1..Len(frames) : into[i] <= frames[i]
<1>. DEFINE n == Len(frames)
            m(i) == Min({wanted, frames[i] - 1, frames[i - 1] - 1})
<1>1. n \in Nat /\ DOMAIN frames = 1..n /\ \A i \in 1..n : frames[i] \in Nat
  OBVIOUS
<1>2. into = [i \in 1..n |-> IF i = 1 THEN 0 ELSE Max({0, m(i)})]
  BY <1>1 DEF TransitionList
<1>3. ASSUME NEW i \in 1..n
      PROVE  into[i] \in Nat /\ (i = 1 => into[i] = 0) /\ into[i] <= frames[i]
  <2>1. CASE i = 1
    BY <2>1, <1>1, <1>2
  <2>2. CASE i # 1
    <3>1. i - 1 \in 1..n
      BY <2>2, <1>1
    <3>2. frames[i] \in Nat /\ frames[i] - 1 \in Int /\ frames[i - 1] - 1 \in Int
      BY <3>1, <1>1
    <3>3. m(i) \in Int /\ m(i) <= frames[i] - 1
      BY <3>2, MinOfThree
    <3>4. into[i] = Max({0, m(i)})
      BY <2>2, <1>2
    <3>. HIDE DEF m
    <3>5. Max({0, m(i)}) = IF 0 <= m(i) THEN m(i) ELSE 0
      BY <3>3, MaxOfTwo
    <3>6. QED
      BY <2>2, <3>2, <3>3, <3>4, <3>5
  <2>3. QED
    BY <2>1, <2>2
<1>. HIDE DEF n, m
<1>4. into \in [1..n -> Nat]
  <2>1. into = [i \in 1..n |-> into[i]]
    BY <1>2
  <2>2. QED
    BY <2>1, <1>3
<1>5. into \in Seq(Nat) /\ Len(into) = n
  BY <1>1, <1>4
<1>6. n > 0 => into[1] = 0
  <2>1. n > 0 => 1 \in 1..n
    BY <1>1
  <2>2. QED
    BY <2>1, <1>3
<1>7. QED
  BY <1>3, <1>5, <1>6 DEF n

\* The sequences run on under the transitions, which cancels their overlap.
LEMMA OverlapCancels ==
  ASSUME NEW frames \in Seq(Nat), NEW into \in Seq(Nat), Len(into) = Len(frames), NEW all,
         Len(frames) > 0, into[1] = 0,
         all = [i \in 1..Len(frames) |->
                  frames[i] + IF i < Len(frames) THEN into[i + 1] ELSE 0]
  PROVE  Sum(all) - Sum(into) = Sum(frames)
<1>. DEFINE n == Len(frames)
            next(k) == IF k < n THEN k + 1 ELSE n
            g == [k \in 0..n |-> SumTo(frames, k) + SumTo(into, next(k))]
<1>1. n \in Nat \ {0} /\ \A i \in 1..n : frames[i] \in Nat /\ into[i] \in Nat
  OBVIOUS
<1>2. /\ frames \in Seq(Int) /\ into \in Seq(Int)
  BY NatIsInt
<1>3. /\ SumTo(frames, 0) = 0 /\ SumTo(into, 0) = 0
      /\ \A k \in 0..n : SumTo(frames, k) \in Int /\ SumTo(into, k) \in Int
      /\ \A k \in 1..n : /\ SumTo(frames, k) = SumTo(frames, k - 1) + frames[k]
                         /\ SumTo(into, k) = SumTo(into, k - 1) + into[k]
  BY <1>2, SumFacts
<1>. HIDE DEF n
<1>4. \A k \in 0..n : next(k) \in 0..n
  BY <1>1
<1>5. g \in [0..n -> Int]
  BY <1>3, <1>4
<1>6. g[0] = 0
  <2>1. 0 \in 0..n /\ 1 \in 1..n /\ 1 - 1 = 0 /\ next(0) = 1
    BY <1>1
  <2>2. SumTo(into, 1) = 0
    BY <2>1, <1>1, <1>3
  <2>3. QED
    BY <2>1, <2>2, <1>3
<1>7. all \in [1..n -> Int]
  <2>1. \A i \in 1..n : frames[i] + (IF i < n THEN into[i + 1] ELSE 0) \in Int
    <3>1. \A i \in 1..n : i < n => i + 1 \in 1..n
      BY <1>1
    <3>2. QED
      BY <3>1, <1>1
  <2>2. QED
    BY <2>1 DEF n
<1>8. all \in Seq(Int) /\ Len(all) = n
  BY <1>1, <1>7
<1>9. ASSUME NEW i \in 1..n PROVE g[i] = g[i - 1] + all[i]
  <2>1. i \in 0..n /\ i - 1 \in 0..n /\ i \in Nat
    BY <1>1
  <2>2. /\ g[i] = SumTo(frames, i) + SumTo(into, next(i))
        /\ g[i - 1] = SumTo(frames, i - 1) + SumTo(into, next(i - 1))
    BY <2>1
  <2>3. next(i - 1) = i
    BY <2>1, <1>1
  <2>4. all[i] = frames[i] + IF i < n THEN into[i + 1] ELSE 0
    BY DEF n
  <2>5. SumTo(frames, i) = SumTo(frames, i - 1) + frames[i]
    BY <1>3
  <2>6. SumTo(frames, i - 1) \in Int /\ SumTo(into, i) \in Int /\ frames[i] \in Int
    BY <2>1, <1>1, <1>3
  <2>7. CASE i < n
    <3>1. i + 1 \in 1..n /\ (i + 1) - 1 = i /\ next(i) = i + 1
      BY <2>1, <2>7, <1>1
    <3>2. SumTo(into, i + 1) = SumTo(into, (i + 1) - 1) + into[i + 1] /\ into[i + 1] \in Nat
      BY <3>1, <1>1, <1>3
    <3>. HIDE DEF g, next
    <3>3. QED
      BY <3>1, <3>2, <2>2, <2>3, <2>4, <2>5, <2>6, <2>7
  <2>8. CASE ~ (i < n)
    <3>1. next(i) = i
      BY <2>1, <2>8, <1>1
    <3>. HIDE DEF g, next
    <3>2. QED
      BY <3>1, <2>2, <2>3, <2>4, <2>5, <2>6, <2>8
  <2>9. QED
    BY <2>7, <2>8
<1>10. SumTo(all, n) = g[n]
  <2>1. n \in 0..n
    BY <1>1
  <2>. HIDE DEF g
  <2>2. QED
    BY <2>1, <1>5, <1>6, <1>8, <1>9, SumIs
<1>11. g[n] = SumTo(frames, n) + SumTo(into, n) /\ n \in 0..n
  BY <1>1
<1>12. Sum(all) = SumTo(all, n) /\ Sum(frames) = SumTo(frames, n) /\ Sum(into) = SumTo(into, n)
  BY <1>8 DEF Sum, n
<1>13. QED
  <2>. HIDE DEF g
  <2>1. QED
    BY <1>3, <1>10, <1>11, <1>12

-----------------------------------------------------------------------------
(* The film is as long as the voice *)

LEMMA FilmFacts ==
  ASSUME TimingInv, at = "film"
  PROVE  /\ Len(film.frames) \in Nat \ {0} /\ DOMAIN film.frames = 1..Len(film.frames)
         /\ film.frames \in Seq(Nat) /\ Len(scenes.lengths) = Len(film.frames)
         /\ \A k \in 0..Len(film.frames) :
              SumTo(film.frames, k) = Rounded(SumTo(scenes.lengths, k), FrameTicks)
         /\ film.into \in Seq(Nat) /\ Len(film.into) = Len(film.frames) /\ film.into[1] = 0
         /\ \A i \in 1..Len(film.frames) : film.into[i] <= film.frames[i]
<1>1. /\ ScenesLaid /\ FilmCut
  BY DEF TimingInv
<1>2. /\ scenes.lengths \in Seq(Nat) /\ scenes.lengths # <<>> /\ FrameTicks \in Nat \ {0}
      /\ film.frames = SceneFrames
  BY <1>1, TimingBounds DEF ScenesLaid, FilmCut
<1>3. Len(scenes.lengths) \in Nat \ {0}
  BY <1>2
<1>4. /\ film.frames \in Seq(Nat) /\ Len(film.frames) = Len(scenes.lengths)
      /\ \A k \in 0..Len(scenes.lengths) :
           SumTo(film.frames, k) = Rounded(SumTo(scenes.lengths, k), FrameTicks)
  BY <1>2, FramesFacts DEF SceneFrames
<1>5. PICK wanted \in Transitions : film.into = TransitionList(film.frames, wanted)
  BY <1>1 DEF FilmCut
<1>6. wanted \in Int
  BY TimingBounds
<1>7. /\ film.into \in Seq(Nat) /\ Len(film.into) = Len(film.frames)
      /\ Len(film.frames) > 0 => film.into[1] = 0
      /\ \A i \in 1..Len(film.frames) : film.into[i] <= film.frames[i]
  BY <1>4, <1>5, <1>6, IntoFacts
<1>8. DOMAIN film.frames = 1..Len(film.frames)
  BY <1>4
<1>9. QED
  BY <1>3, <1>4, <1>7, <1>8

LEMMA FilmIsAsLong == ASSUME TimingInv, at = "film" PROVE FilmLastsTheVoice
<1>. DEFINE n == Len(film.frames)
            frames == film.frames
            into == film.into
            all == [i \in DOMAIN film.frames |-> SequenceFrames(i)]
            T == voice.length + TailTicks
            F == FrameTicks
            L == Sum(scenes.lengths)
            R == Sum(film.frames)
<1>1. /\ n \in Nat \ {0} /\ DOMAIN frames = 1..n
      /\ frames \in Seq(Nat) /\ Len(scenes.lengths) = n
      /\ \A k \in 0..n : SumTo(frames, k) = Rounded(SumTo(scenes.lengths, k), F)
      /\ into \in Seq(Nat) /\ Len(into) = n /\ into[1] = 0
      /\ \A i \in 1..n : into[i] <= frames[i]
  BY FilmFacts
<1>2. all = [i \in 1..n |-> frames[i] + IF i < n THEN into[i + 1] ELSE 0]
  BY <1>1 DEF SequenceFrames
<1>3. Sum(all) - Sum(into) = Sum(frames)
  <2>1. n > 0
    BY <1>1
  <2>. HIDE DEF all, frames, into
  <2>2. QED
    BY <2>1, <1>1, <1>2, OverlapCancels DEF n, frames
<1>4. ASSUME NEW i \in DOMAIN all
      PROVE  film.into[i] + (SequenceFrames(i) - film.frames[i]) <= SequenceFrames(i)
  <2>. DEFINE x == SequenceFrames(i)
              f == frames[i]
              t == into[i]
  <2>1. i \in 1..n
    BY <1>1
  <2>2. f \in Nat /\ t \in Nat /\ t <= f
    <3>1. \A k \in 1..n : frames[k] \in Nat /\ into[k] \in Nat
      BY <1>1
    <3>2. QED
      BY <3>1, <2>1, <1>1, <1>4
  <2>3. x \in Int
    <3>1. i < n => into[i + 1] \in Nat
      <4>1. i < n => i + 1 \in 1..n
        BY <2>1, <1>1
      <4>2. \A k \in 1..n : into[k] \in Nat
        BY <1>1
      <4>3. QED
        BY <4>1, <4>2
    <3>2. x = f + IF i < n THEN into[i + 1] ELSE 0
      BY DEF SequenceFrames
    <3>. HIDE DEF x, f
    <3>3. QED
      BY <3>1, <3>2, <2>2
  <2>. HIDE DEF x, f, t
  <2>4. t + (x - f) <= x
    BY <2>2, <2>3
  <2>5. QED
    BY <2>4 DEF x, f, t
<1>5. ASSUME voice.length > 0
      PROVE  2 * (TotalFrames * F - T) \in (-(n + F))..(n + F)
  <2>1. /\ T \in Nat /\ F \in Nat \ {0} /\ F <= T
    <3>1. voice.length \in 0..(Beats * Beat) /\ Beats * Beat \in Nat
      BY TimingBounds DEF TimingInv, Spoken
    <3>2. voice.length \in Nat
      BY <3>1
    <3>3. FrameTicks \in Nat \ {0} /\ TailTicks \in Nat /\ FrameTicks <= TailTicks
      BY TimingBounds, TimingAssumption
    <3>4. QED
      BY <3>2, <3>3
  <2>2. /\ scenes.lengths \in Seq(Nat)
        /\ 2 * L <= 2 * T + n /\ 2 * T <= 2 * L + n
    BY <1>1, <1>5 DEF TimingInv, ScenesLaid
  <2>3. L \in Nat /\ R = Rounded(L, F)
    <3>1. n \in 0..n /\ Sum(scenes.lengths) = SumTo(scenes.lengths, n) /\ Sum(frames) = SumTo(frames, n)
      BY <1>1 DEF Sum
    <3>2. SumTo(scenes.lengths, n) \in Nat
      BY <3>1, <2>2, <1>1, SumsGrow
    <3>3. QED
      BY <3>1, <3>2, <1>1
  <2>. HIDE DEF n, T, F, L, R
  <2>4. R \in Int /\ 2 * (F * R) <= 2 * L + F /\ 2 * L < 2 * (F * R) + F
    BY <2>1, <2>3, RoundedFacts
  <2>. DEFINE FR == F * R
  <2>5. FR \in Int
    BY <2>1, <2>4
  <2>6. TotalFrames = IF 1 <= R THEN R ELSE 1
    BY <2>4, MaxOfTwo DEF TotalFrames, R
  <2>7. CASE 1 <= R
    <3>1. TotalFrames * F = FR
      BY <2>1, <2>4, <2>6, <2>7
    <3>2. 2 * FR <= 2 * L + F /\ 2 * L < 2 * FR + F
      BY <2>4
    <3>. HIDE DEF FR
    <3>3. 2 * (FR - T) <= n + F /\ -(n + F) <= 2 * (FR - T) /\ 2 * (FR - T) \in Int
      BY <3>2, <2>1, <2>2, <2>3, <2>5, <1>1
    <3>4. QED
      BY <3>1, <3>3, <2>1, <1>1
  <2>8. CASE ~ (1 <= R)
    <3>1. TotalFrames = 1
      BY <2>6, <2>8
    <3>2. FR <= 0
      BY <2>1, <2>4, <2>8
    <3>3. 2 * L < 2 * FR + F
      BY <2>4
    <3>. HIDE DEF FR
    <3>4. 2 * L < F
      BY <3>2, <3>3, <2>1, <2>3, <2>5
    <3>5. 2 * (F - T) <= n + F /\ -(n + F) <= 2 * (F - T) /\ 2 * (F - T) \in Int
      BY <3>4, <2>1, <2>2, <2>3, <1>1
    <3>6. 1 * F = F
      BY <2>1
    <3>7. QED
      BY <3>1, <3>5, <3>6, <2>1, <1>1
  <2>9. QED
    BY <2>7, <2>8
<1>6. QED
  <2>1. voice.length > 0 =>
          2 * (TotalFrames * FrameTicks - (voice.length + TailTicks))
            \in (-(Len(film.frames) + FrameTicks))..(Len(film.frames) + FrameTicks)
    BY <1>5
  <2>2. Sum(all) - Sum(film.into) = Sum(film.frames)
    BY <1>3
  <2>3. \A i \in DOMAIN all :
          film.into[i] + (SequenceFrames(i) - film.frames[i]) <= SequenceFrames(i)
    BY <1>4
  <2>4. QED
    BY <2>1, <2>2, <2>3 DEF FilmLastsTheVoice

-----------------------------------------------------------------------------
(* The hook, the titles and the texts of the scenes *)

LEMMA TotalFacts ==
  ASSUME TimingInv, at = "film"
  PROVE  /\ TotalFrames \in Nat /\ CtaStart \in Int
         /\ \A k \in 0..Len(film.frames) : SumTo(film.frames, k) \in Nat
         /\ \A k \in 0..Len(film.frames) : \A i \in 0..k : SumTo(film.frames, i) <= SumTo(film.frames, k)
         /\ \A k \in 1..Len(film.frames) :
              /\ SceneStart(k) = SumTo(film.frames, k - 1) /\ SceneStart(k) \in Nat
              /\ SumTo(film.frames, k) = SceneStart(k) + film.frames[k] /\ film.frames[k] \in Nat
<1>. DEFINE n == Len(film.frames)
<1>1. n \in Nat \ {0} /\ film.frames \in Seq(Nat) /\ film.frames \in Seq(Int)
  BY FilmFacts, NatIsInt
<1>2. /\ \A k \in 0..n : SumTo(film.frames, k) \in Nat
      /\ \A k \in 0..n : \A i \in 0..k : SumTo(film.frames, i) <= SumTo(film.frames, k)
      /\ \A k \in 1..n : SumTo(film.frames, k) = SumTo(film.frames, k - 1) + film.frames[k]
  BY <1>1, SumFacts, SumsGrow
<1>3. Sum(film.frames) \in Nat
  <2>1. n \in 0..n
    BY <1>1
  <2>2. QED
    BY <2>1, <1>2 DEF Sum
<1>4. TotalFrames \in Nat
  BY <1>3, MaxOfTwo DEF TotalFrames
<1>5. CtaStart \in Int
  <2>1. CtaFrames \in Nat
    BY TimingBounds
  <2>2. Min({TotalFrames, CtaFrames}) \in Int
    BY <2>1, <1>4, MinOfTwo
  <2>3. QED
    BY <2>2, <1>4 DEF CtaStart
<1>6. ASSUME NEW k \in 1..n
      PROVE  /\ SceneStart(k) = SumTo(film.frames, k - 1) /\ SceneStart(k) \in Nat
             /\ SumTo(film.frames, k) = SceneStart(k) + film.frames[k] /\ film.frames[k] \in Nat
  <2>1. k - 1 \in 0..n
    BY <1>1
  <2>2. film.frames[k] \in Nat
    BY <1>1
  <2>3. QED
    BY <2>1, <2>2, <1>2 DEF SceneStart
<1>7. QED
  BY <1>2, <1>4, <1>5, <1>6

\* The hook is over when the first scene is, and before the CTA card.
LEMMA HookFacts ==
  ASSUME TimingInv, at = "film", HookWindow # <<>>
  PROVE  \E a, b \in Int : /\ HookWindow = <<a, b>>
                           /\ b <= SumTo(film.frames, 1)
                           /\ film.cta => b <= CtaStart - Margin
<1>1. 1 \in 1..Len(film.frames) /\ 1 - 1 = 0 /\ 0 \in 0..Len(film.frames)
  BY FilmFacts
<1>2. film.frames[1] \in Nat /\ SumTo(film.frames, 1) = SumTo(film.frames, 0) + film.frames[1]
  BY <1>1, TotalFacts
<1>3. SumTo(film.frames, 0) = 0
  BY FilmFacts, NatIsInt, SumFacts
<1>. DEFINE c == IF film.cta THEN CtaStart - Margin ELSE TotalFrames
            end == Min({TextFrames, film.frames[1], c})
<1>4. Margin \in Nat /\ TextFrames \in Nat /\ MinText \in Nat /\ c \in Int
  BY TimingBounds, TotalFacts
<1>5. HookWindow = <<Margin - 1, end>>
  BY DEF HookWindow
<1>6. end \in Int /\ end <= film.frames[1] /\ end <= c
  <2>. DEFINE f == film.frames[1]
  <2>. HIDE DEF c, f
  <2>1. f \in Int /\ c \in Int /\ TextFrames \in Int
    BY <1>2, <1>4 DEF f
  <2>2. Min({TextFrames, f, c}) \in Int /\ Min({TextFrames, f, c}) <= f /\ Min({TextFrames, f, c}) <= c
    BY <2>1, MinOfThree
  <2>3. QED
    BY <2>2 DEF f
<1>7. film.cta => c = CtaStart - Margin
  OBVIOUS
<1>. HIDE DEF end, c
<1>8. end <= SumTo(film.frames, 1) /\ (film.cta => end <= CtaStart - Margin)
  BY <1>2, <1>3, <1>6, <1>7
<1>9. Margin - 1 \in Int
  BY <1>4
<1>10. QED
  BY <1>5, <1>6, <1>8, <1>9

\* A title is seen within its scene, and before the CTA card; the first scene has one
\* only when there is no hook.
LEMMA TitleFacts ==
  ASSUME TimingInv, at = "film", NEW i \in 1..Len(film.frames), TitleWindow(i) # <<>>
  PROVE  /\ i = 1 => HookWindow = <<>>
         /\ \E a, b \in Int : /\ TitleWindow(i) = <<a, b>>
                              /\ SumTo(film.frames, i - 1) <= a /\ b <= SumTo(film.frames, i)
                              /\ i > 1 => SumTo(film.frames, i - 1) + 2 <= a
                              /\ film.cta => b <= CtaStart - Margin
<1>. DEFINE s == SceneStart(i)
            start == IF i = 1 THEN Margin ELSE Max({2, Rounded(film.into[i], 2)})
            fits == Min({TextFrames, film.frames[i]})
            c == CtaStart - Margin - SceneStart(i)
            end == IF film.cta THEN Min({fits, c}) ELSE fits
<1>1. /\ s \in Nat /\ s = SumTo(film.frames, i - 1) /\ film.frames[i] \in Nat
      /\ SumTo(film.frames, i) = s + film.frames[i] /\ CtaStart \in Int
  BY TotalFacts
<1>2. Margin \in Nat /\ TextFrames \in Nat /\ MinText \in Nat
  BY TimingBounds
<1>3. /\ TitleWindow(i) = <<s + start, s + end>> /\ (i = 1 => HookWindow = <<>>)
  <2>. DEFINE seen == end - start >= MinText /\ (i > 1 \/ HookWindow = <<>>)
  <2>1. TitleWindow(i) = IF seen THEN <<s + start, s + end>> ELSE <<>>
    BY DEF TitleWindow
  <2>2. seen
    <3>. HIDE DEF seen
    <3>1. QED
      BY <2>1
  <2>3. i > 1 \/ HookWindow = <<>>
    BY <2>2
  <2>4. i = 1 => HookWindow = <<>>
    <3>. HIDE DEF seen, s, start, end
    <3>1. QED
      BY <2>3
  <2>. HIDE DEF seen, s, start, end
  <2>5. QED
    BY <2>1, <2>2, <2>4
<1>4. start \in Nat /\ (i > 1 => 2 <= start)
  <2>1. CASE i = 1
    BY <2>1, <1>2
  <2>2. CASE i # 1
    <3>1. film.into[i] \in Int
      <4>1. film.into \in Seq(Nat) /\ Len(film.into) = Len(film.frames)
        BY FilmFacts
      <4>2. QED
        BY <4>1
    <3>2. Rounded(film.into[i], 2) \in Int
      <4>1. 2 \in Nat \ {0}
        OBVIOUS
      <4>. DEFINE t == film.into[i]
      <4>. HIDE DEF t
      <4>2. t \in Int
        BY <3>1 DEF t
      <4>3. Rounded(t, 2) \in Int
        BY <4>1, <4>2, RoundedFacts
      <4>4. QED
        BY <4>3 DEF t
    <3>3. start = Max({2, Rounded(film.into[i], 2)})
      BY <2>2
    <3>. DEFINE r == Rounded(film.into[i], 2)
    <3>. HIDE DEF r, start
    <3>4. r \in Int /\ start = Max({2, r})
      BY <3>2, <3>3 DEF r
    <3>5. start = IF 2 <= r THEN r ELSE 2
      BY <3>4, MaxOfTwo
    <3>6. QED
      BY <3>4, <3>5
  <2>3. QED
    BY <2>1, <2>2
<1>5. fits \in Int /\ fits <= film.frames[i]
  BY <1>1, <1>2, MinOfTwo
<1>6. c \in Int /\ c = CtaStart - Margin - s
  BY <1>1, <1>2
<1>. HIDE DEF start, fits, c, s
<1>7. end \in Int /\ end <= film.frames[i] /\ (film.cta => end <= c)
  <2>1. CASE film.cta
    <3>1. end = IF fits <= c THEN fits ELSE c
      BY <2>1, <1>5, <1>6, MinOfTwo
    <3>. HIDE DEF end
    <3>2. QED
      BY <3>1, <1>1, <1>5, <1>6
  <2>2. CASE ~ film.cta
    BY <2>2, <1>5
  <2>3. QED
    BY <2>1, <2>2
<1>. HIDE DEF end
<1>8. /\ s + start \in Int /\ s + end \in Int
      /\ SumTo(film.frames, i - 1) <= s + start /\ s + end <= SumTo(film.frames, i)
      /\ i > 1 => SumTo(film.frames, i - 1) + 2 <= s + start
      /\ film.cta => s + end <= CtaStart - Margin
  BY <1>1, <1>2, <1>4, <1>6, <1>7
<1>9. QED
  BY <1>3, <1>8

\* The hook's own sequence cuts it a frame after its window.
LEMMA HookLeaves ==
  ASSUME TimingInv, at = "film", HookWindow # <<>>, NEW fade \in Fades
  PROVE  HookGone(fade) \in Int /\ HookGone(fade) <= HookWindow[2] + 1
<1>1. PICK a, b \in Int : HookWindow = <<a, b>>
  BY HookFacts
<1>2. HookWindow[2] \in Int /\ Exit \in Nat /\ fade \in Nat
  BY <1>1, TimingBounds
<1>. DEFINE w == HookWindow[2]
            x == w - Exit + fade
            y == w + 1
<1>3. x \in Int /\ y \in Int /\ HookGone(fade) = Min({x, y})
  BY <1>2 DEF HookGone
<1>. HIDE DEF x, y
<1>4. HookGone(fade) = IF x <= y THEN x ELSE y
  BY <1>3, MinOfTwo
<1>5. HookGone(fade) \in Int /\ HookGone(fade) <= y
  BY <1>3, <1>4
<1>6. QED
  BY <1>5 DEF y, w

\* A title leaves within `fade' frames, and at the end of the sequence of its scene, which
\* runs on under the transition into the next one.
LEMMA TitleLeaves ==
  ASSUME TimingInv, at = "film", NEW i \in 1..Len(film.frames), TitleWindow(i) # <<>>,
         NEW fade \in Fades
  PROVE  /\ TitleGone(i, fade) \in Int
         /\ TitleGone(i, fade) <= TitleWindow(i)[2] - Exit + fade
         /\ i < Len(film.frames) =>
              /\ TitleGone(i, fade) <= SceneStart(i + 1) + film.into[i + 1]
              /\ TitleGone(i, fade) <= SumTo(film.frames, i + 1)
<1>. DEFINE n == Len(film.frames)
            s == SceneStart(i)
            over == IF i < n THEN film.into[i + 1] ELSE 0
            x == TitleWindow(i)[2] - Exit + fade
            y == s + SequenceFrames(i)
<1>1. PICK a, b \in Int : TitleWindow(i) = <<a, b>>
  BY TitleFacts
<1>2. TitleWindow(i)[2] \in Int /\ Exit \in Nat /\ fade \in Nat
  BY <1>1, TimingBounds
<1>3. n \in Nat /\ s \in Nat /\ film.frames[i] \in Nat /\ SumTo(film.frames, i) = s + film.frames[i]
  BY FilmFacts, TotalFacts
<1>4. ASSUME i < n
      PROVE  /\ i + 1 \in 1..n /\ film.into[i + 1] \in Nat
             /\ SceneStart(i + 1) = s + film.frames[i]
             /\ SceneStart(i + 1) + film.into[i + 1] <= SumTo(film.frames, i + 1)
  <2>1. i + 1 \in 1..n /\ (i + 1) - 1 = i
    BY <1>3, <1>4
  <2>2. film.into[i + 1] \in Nat /\ film.into[i + 1] <= film.frames[i + 1]
    BY <2>1, FilmFacts
  <2>3. /\ SceneStart(i + 1) = SumTo(film.frames, i) /\ SceneStart(i + 1) \in Nat
        /\ SumTo(film.frames, i + 1) = SceneStart(i + 1) + film.frames[i + 1]
        /\ film.frames[i + 1] \in Nat
    BY <2>1, TotalFacts
  <2>4. QED
    BY <2>1, <2>2, <2>3, <1>3
<1>5. over \in Nat /\ SequenceFrames(i) = film.frames[i] + over
  <2>1. SequenceFrames(i) = film.frames[i] + over
    BY DEF SequenceFrames
  <2>2. over \in Nat
    BY <1>4
  <2>3. QED
    BY <2>1, <2>2
<1>6. i < n => over = film.into[i + 1]
  OBVIOUS
<1>. HIDE DEF over, s, n
<1>7. x \in Int /\ y \in Int /\ TitleGone(i, fade) = Min({x, y})
  BY <1>2, <1>3, <1>5 DEF TitleGone, s
<1>8. i < n => /\ y = SceneStart(i + 1) + film.into[i + 1]
               /\ y <= SumTo(film.frames, i + 1)
  BY <1>3, <1>4, <1>5, <1>6
<1>. HIDE DEF x, y
<1>9. TitleGone(i, fade) = IF x <= y THEN x ELSE y
  BY <1>7, MinOfTwo
<1>10. /\ TitleGone(i, fade) \in Int /\ TitleGone(i, fade) <= x /\ TitleGone(i, fade) <= y
  BY <1>7, <1>9
<1>11. i < n => /\ TitleGone(i, fade) <= SceneStart(i + 1) + film.into[i + 1]
                /\ TitleGone(i, fade) <= SumTo(film.frames, i + 1)
  <2>1. ASSUME i < n
        PROVE  /\ TitleGone(i, fade) <= SceneStart(i + 1) + film.into[i + 1]
               /\ TitleGone(i, fade) <= SumTo(film.frames, i + 1)
    <3>1. TitleGone(i, fade) <= SceneStart(i + 1) + film.into[i + 1]
      BY <2>1, <1>8, <1>10
    <3>. DEFINE g == TitleGone(i, fade)
                t == SumTo(film.frames, i + 1)
    <3>2. t \in Nat
      <4>1. i + 1 \in 0..n
        BY <2>1, <1>3
      <4>2. QED
        BY <4>1, TotalFacts DEF n
    <3>3. g \in Int /\ g <= y /\ y <= t
      BY <2>1, <1>8, <1>10
    <3>. HIDE DEF g, t
    <3>4. g <= t
      BY <3>2, <3>3, <1>7
    <3>5. QED
      BY <3>1, <3>4 DEF g, t
  <2>2. QED
    BY <2>1
<1>12. QED
  BY <1>10, <1>11 DEF x, n

\* The hook is gone before a title comes, and never seen with the CTA card.
LEMMA HookAlone ==
  ASSUME TimingInv, at = "film", HookWindow # <<>>, NEW fade \in Fades
  PROVE  /\ \A i \in 1..Len(film.frames) :
              TitleWindow(i) # <<>> => HookGone(fade) <= TitleWindow(i)[1]
         /\ film.cta => HookGone(fade) <= CtaStart - Margin + 1
<1>1. PICK a, b \in Int : /\ HookWindow = <<a, b>> /\ b <= SumTo(film.frames, 1)
                          /\ film.cta => b <= CtaStart - Margin
  BY HookFacts
<1>2. HookWindow[2] = b
  BY <1>1
<1>3. HookGone(fade) \in Int /\ HookGone(fade) <= b + 1
  BY <1>2, HookLeaves
<1>4. ASSUME NEW i \in 1..Len(film.frames), TitleWindow(i) # <<>>
      PROVE  HookGone(fade) <= TitleWindow(i)[1]
  <2>1. i # 1
    BY <1>4, TitleFacts
  <2>2. Len(film.frames) \in Nat
    BY FilmFacts
  <2>3. i > 1 /\ i - 1 \in 0..Len(film.frames) /\ 1 \in 0..(i - 1)
    BY <2>1, <2>2
  <2>4. PICK c, d \in Int : TitleWindow(i) = <<c, d>> /\ SumTo(film.frames, i - 1) + 2 <= c
    BY <1>4, <2>3, TitleFacts
  <2>5. TitleWindow(i)[1] = c
    BY <2>4
  <2>6. /\ SumTo(film.frames, 1) <= SumTo(film.frames, i - 1)
        /\ SumTo(film.frames, 1) \in Nat /\ SumTo(film.frames, i - 1) \in Nat
    <3>1. 1 \in 0..Len(film.frames)
      BY <2>2, <2>3
    <3>2. QED
      BY <2>3, <3>1, TotalFacts
  <2>7. QED
    BY <1>1, <1>3, <2>4, <2>5, <2>6
<1>5. CtaStart \in Int /\ Margin \in Nat
  BY TotalFacts, TimingBounds
<1>6. film.cta => HookGone(fade) <= CtaStart - Margin + 1
  BY <1>1, <1>3, <1>5
<1>7. QED
  BY <1>4, <1>6

\* A title that leaves is seen with the next one only under the transition, with none after.
LEMMA TitlesCross ==
  ASSUME TimingInv, at = "film", NEW i \in 1..Len(film.frames), NEW j \in 1..Len(film.frames),
         TitleWindow(i) # <<>>, TitleWindow(j) # <<>>, i < j, NEW fade \in Fades
  PROVE  /\ TitleGone(i, fade) - TitleWindow(j)[1] <= fade - Exit
         /\ TitleGone(i, fade) <= IF j = i + 1 THEN SceneStart(j) + film.into[j]
                                  ELSE TitleWindow(j)[1]
<1>. DEFINE n == Len(film.frames)
            S(k) == SumTo(film.frames, k)
<1>1. n \in Nat /\ i \in Nat /\ j \in Nat /\ Exit \in Nat /\ fade \in Nat
  <2>1. n \in Nat
    BY FilmFacts
  <2>2. i \in 1..n /\ j \in 1..n
    OBVIOUS
  <2>3. Exit \in Nat /\ fade \in Nat
    BY TimingBounds
  <2>. HIDE DEF n
  <2>4. QED
    BY <2>1, <2>2, <2>3
<1>2. PICK a, b \in Int : TitleWindow(i) = <<a, b>> /\ b <= S(i)
  BY TitleFacts
<1>3. PICK c, d \in Int : TitleWindow(j) = <<c, d>> /\ S(j - 1) <= c
  BY TitleFacts
<1>4. TitleWindow(i)[2] = b /\ TitleWindow(j)[1] = c
  BY <1>2, <1>3
<1>5. /\ TitleGone(i, fade) \in Int /\ TitleGone(i, fade) <= b - Exit + fade
      /\ TitleGone(i, fade) <= SceneStart(i + 1) + film.into[i + 1]
      /\ TitleGone(i, fade) <= S(i + 1)
  BY <1>1, <1>4, TitleLeaves
<1>6. /\ i \in 0..n /\ j - 1 \in 0..n /\ i \in 0..(j - 1) /\ i + 1 \in 0..n
      /\ j # i + 1 => i + 1 \in 0..(j - 1)
  BY <1>1
<1>7. /\ S(i) <= S(j - 1) /\ S(i) \in Nat /\ S(j - 1) \in Nat /\ S(i + 1) \in Nat
      /\ j # i + 1 => S(i + 1) <= S(j - 1)
  BY <1>6, TotalFacts
<1>. HIDE DEF S
<1>8. TitleGone(i, fade) - c <= fade - Exit
  BY <1>1, <1>2, <1>3, <1>5, <1>7
<1>9. j # i + 1 => TitleGone(i, fade) <= c
  BY <1>3, <1>5, <1>7
<1>10. j = i + 1 => TitleGone(i, fade) <= SceneStart(j) + film.into[j]
  BY <1>5
<1>11. QED
  BY <1>4, <1>8, <1>9, <1>10

LEMMA TextsWait == ASSUME TimingInv, at = "film" PROVE TextsTakeTurns
<1>. DEFINE n == Len(film.frames)
            texts == ({HookWindow} \cup {TitleWindow(i) : i \in DOMAIN film.frames}) \ {<<>>}
            S(k) == SumTo(film.frames, k)
            In(x, i, j) == \E a, b \in Int : /\ x = <<a, b>> /\ b <= S(j)
                                             /\ i > 0 => S(i - 1) <= a
                                             /\ film.cta => b <= CtaStart - Margin
<1>1. /\ n \in Nat \ {0} /\ DOMAIN film.frames = 1..n
      /\ \A k \in 0..n : S(k) \in Nat
      /\ \A k \in 0..n : \A i \in 0..k : S(i) <= S(k)
  BY FilmFacts, TotalFacts
<1>2. ASSUME NEW x \in texts
      PROVE  \/ x = HookWindow /\ HookWindow # <<>> /\ In(x, 0, 1)
             \/ \E i \in 1..n : x = TitleWindow(i) /\ (i = 1 => HookWindow = <<>>) /\ In(x, i, i)
  <2>1. CASE x = HookWindow
    <3>1. HookWindow # <<>>
      BY <2>1
    <3>2. In(x, 0, 1)
      BY <3>1, <2>1, HookFacts
    <3>3. QED
      BY <3>1, <3>2, <2>1
  <2>2. CASE x # HookWindow
    <3>1. PICK i \in 1..n : x = TitleWindow(i)
      BY <2>2, <1>1
    <3>2. TitleWindow(i) # <<>>
      BY <3>1
    <3>3. (i = 1 => HookWindow = <<>>) /\ In(x, i, i)
      BY <3>1, <3>2, TitleFacts
    <3>4. QED
      BY <3>1, <3>3
  <2>3. QED
    BY <2>1, <2>2
\* One after the other on the time line.
<1>3. ASSUME NEW x, NEW y, NEW i \in 0..n, NEW j \in 1..n, NEW k \in 0..n,
             In(x, i, k), In(y, j, j), k <= j - 1
      PROVE  x[2] <= y[1]
  <2>1. PICK a, b \in Int : x = <<a, b>> /\ b <= S(k)
    BY <1>3
  <2>2. PICK c, d \in Int : y = <<c, d>> /\ S(j - 1) <= c
    BY <1>3
  <2>3. j - 1 \in 0..n /\ k \in 0..(j - 1)
    BY <1>1, <1>3
  <2>. HIDE DEF S, n
  <2>4. S(k) <= S(j - 1) /\ S(k) \in Nat /\ S(j - 1) \in Nat
    BY <1>1, <2>3
  <2>5. x[2] = b /\ y[1] = c
    BY <2>1, <2>2
  <2>6. QED
    BY <2>1, <2>2, <2>4, <2>5
<1>4. ASSUME NEW x \in texts, NEW y \in texts, x # y
      PROVE  x[2] <= y[1] \/ y[2] <= x[1]
  <2>. HIDE DEF texts, In
  <2>0. 0 \in 0..n /\ 1 \in 0..n
    BY <1>1
  <2>1. CASE x = HookWindow /\ HookWindow # <<>> /\ In(x, 0, 1)
    <3>1. PICK j \in 1..n : y = TitleWindow(j) /\ (j = 1 => HookWindow = <<>>) /\ In(y, j, j)
      BY <2>1, <1>2, <1>4
    <3>2. 1 <= j - 1
      BY <3>1, <2>1, <1>1
    <3>3. QED
      BY <3>1, <3>2, <2>0, <2>1, <1>3
  <2>2. CASE y = HookWindow /\ HookWindow # <<>> /\ In(y, 0, 1)
    <3>1. PICK j \in 1..n : x = TitleWindow(j) /\ (j = 1 => HookWindow = <<>>) /\ In(x, j, j)
      BY <2>2, <1>2, <1>4
    <3>2. 1 <= j - 1
      BY <3>1, <2>2, <1>1
    <3>3. QED
      BY <3>1, <3>2, <2>0, <2>2, <1>3
  <2>3. CASE /\ \E i \in 1..n : x = TitleWindow(i) /\ In(x, i, i)
             /\ \E j \in 1..n : y = TitleWindow(j) /\ In(y, j, j)
    <3>1. PICK i \in 1..n : x = TitleWindow(i) /\ In(x, i, i)
      BY <2>3
    <3>2. PICK j \in 1..n : y = TitleWindow(j) /\ In(y, j, j)
      BY <2>3
    <3>3. i # j /\ i \in 0..n /\ j \in 0..n /\ i \in Nat /\ j \in Nat
      BY <3>1, <3>2, <1>1, <1>4
    <3>4. CASE i < j
      <4>1. i <= j - 1
        BY <3>3, <3>4
      <4>2. QED
        BY <4>1, <3>1, <3>2, <3>3, <1>3
    <3>5. CASE j < i
      <4>1. j <= i - 1
        BY <3>3, <3>5
      <4>2. QED
        BY <4>1, <3>1, <3>2, <3>3, <1>3
    <3>6. QED
      BY <3>3, <3>4, <3>5
  <2>4. QED
    BY <2>1, <2>2, <2>3, <1>2
<1>5. ASSUME film.cta, NEW x \in texts PROVE x[2] <= CtaStart - Margin
  <2>1. \E i, j \in 0..n : In(x, i, j)
    <3>1. 0 \in 0..n /\ 1 \in 0..n /\ \A i \in 1..n : i \in 0..n
      BY <1>1
    <3>. HIDE DEF In, texts, n
    <3>2. QED
      BY <3>1, <1>2
  <2>2. PICK a, b \in Int : x = <<a, b>> /\ b <= CtaStart - Margin
    BY <2>1, <1>5
  <2>3. QED
    BY <2>2
<1>6. ASSUME HookWindow # <<>>, NEW fade \in Fades
      PROVE  /\ \A i \in 1..n : TitleWindow(i) # <<>> => HookGone(fade) <= TitleWindow(i)[1]
             /\ film.cta => HookGone(fade) <= CtaStart - Margin + 1
  BY <1>6, HookAlone
<1>7. ASSUME NEW i \in 1..n, TitleWindow(i) # <<>>, NEW fade \in Fades, film.cta
      PROVE  TitleGone(i, fade) - (CtaStart - Margin) <= fade - Exit
  <2>1. PICK a, b \in Int : TitleWindow(i) = <<a, b>> /\ b <= CtaStart - Margin
    BY <1>7, TitleFacts
  <2>2. TitleWindow(i)[2] = b
    BY <2>1
  <2>3. TitleGone(i, fade) \in Int /\ TitleGone(i, fade) <= b - Exit + fade
    BY <2>2, <1>7, TitleLeaves
  <2>4. CtaStart \in Int /\ Margin \in Nat /\ Exit \in Nat /\ fade \in Nat
    BY TotalFacts, TimingBounds
  <2>5. QED
    BY <2>1, <2>3, <2>4
<1>8. ASSUME NEW i \in 1..n, NEW j \in 1..n, TitleWindow(i) # <<>>, TitleWindow(j) # <<>>,
             i < j, NEW fade \in Fades
      PROVE  /\ TitleGone(i, fade) - TitleWindow(j)[1] <= fade - Exit
             /\ TitleGone(i, fade) <= IF j = i + 1 THEN SceneStart(j) + film.into[j]
                                      ELSE TitleWindow(j)[1]
  BY <1>8, TitlesCross
<1>. DEFINE titles == {i \in DOMAIN film.frames : TitleWindow(i) # <<>>}
<1>9. \A i \in titles : i \in 1..n /\ TitleWindow(i) # <<>>
  BY <1>1
<1>10. HookWindow # <<>> => \A fade \in Fades :
         /\ \A i \in titles : HookGone(fade) <= TitleWindow(i)[1]
         /\ film.cta => HookGone(fade) <= CtaStart - Margin + 1
  <2>. HIDE DEF titles, n
  <2>1. QED
    BY <1>6, <1>9
<1>11. \A i \in titles, fade \in Fades :
         /\ \A j \in titles : i < j =>
              /\ TitleGone(i, fade) - TitleWindow(j)[1] <= fade - Exit
              /\ TitleGone(i, fade) <= IF j = i + 1 THEN SceneStart(j) + film.into[j]
                                       ELSE TitleWindow(j)[1]
         /\ film.cta => TitleGone(i, fade) - (CtaStart - Margin) <= fade - Exit
  <2>. HIDE DEF titles, n
  <2>1. QED
    BY <1>7, <1>8, <1>9
<1>12. /\ \A x, y \in texts : x # y => x[2] <= y[1] \/ y[2] <= x[1]
       /\ film.cta => \A x \in texts : x[2] <= CtaStart - Margin
  <2>. HIDE DEF texts
  <2>1. QED
    BY <1>4, <1>5
<1>13. QED
  BY <1>10, <1>11, <1>12 DEF TextsTakeTurns

-----------------------------------------------------------------------------
(* Scenes keep their words: the runs join into the whole *)

\* What satisfies the equations of the flattening is the flattening.
LEMMA FlattenIs ==
  ASSUME NEW s, Len(s) \in Nat \ {0}, NEW h,
         h = [i \in 1..Len(s) |-> IF i = 1 THEN s[i] ELSE h[i - 1] \o s[i]]
  PROVE  FlattenSeq(s) = h[Len(s)]
<1>. DEFINE n == Len(s)
            P(f) == f = [i \in 1..n |-> IF i = 1 THEN s[i] ELSE f[i - 1] \o s[i]]
            f == CHOOSE g : P(g)
<1>1. P(f)
  <2>1. P(h)
    OBVIOUS
  <2>. HIDE DEF P
  <2>2. QED
    BY <2>1
<1>2. FlattenSeq(s) = f[n]
  BY DEF FlattenSeq
<1>. HIDE DEF f
<1>. DEFINE T == {0} \cup {k \in 1..n : f[k] = h[k]}
<1>3. ASSUME NEW k \in 0..n, k < n, k \in T PROVE k + 1 \in T
  <2>1. k + 1 \in 1..n /\ (k + 1) - 1 = k
    BY <1>3
  <2>2. CASE k = 0
    <3>1. f[k + 1] = s[k + 1] /\ h[k + 1] = s[k + 1]
      BY <2>1, <2>2, <1>1
    <3>2. QED
      BY <2>1, <3>1
  <2>3. CASE k # 0
    <3>1. f[k] = h[k]
      BY <2>3, <1>3
    <3>2. k + 1 # 1
      BY <2>3, <1>3
    <3>3. f[k + 1] = f[k] \o s[k + 1]
      BY <2>1, <3>2, <1>1
    <3>4. h[k + 1] = h[k] \o s[k + 1]
      BY <2>1, <3>2
    <3>5. QED
      BY <2>1, <3>1, <3>3, <3>4
  <2>4. QED
    BY <2>2, <2>3
<1>4. n \in T
  <2>1. 0 \in T /\ n \in Nat
    OBVIOUS
  <2>. HIDE DEF T, n
  <2>2. \A k \in 0..n : k \in T
    BY <2>1, <1>3, UpTo
  <2>3. QED
    BY <2>1, <2>2
<1>5. f[n] = h[n]
  BY <1>4
<1>6. QED
  BY <1>2, <1>5

LEMMA RunsJoin ==
  ASSUME NEW q, Len(q) \in Nat, NEW a \in Nat, NEW b \in Nat, NEW c \in Nat, a <= b, b <= c
  PROVE  Piece(q, a, b) \o Piece(q, b, c) = Piece(q, a, c)
<1>. DEFINE S == {q[k] : k \in Nat}
            x == Piece(q, a, b)
            y == Piece(q, b, c)
            z == Piece(q, a, c)
<1>1. b - a \in Nat /\ c - b \in Nat /\ c - a \in Nat /\ (b - a) + (c - b) = c - a
  OBVIOUS
<1>2. /\ x \in [1..(b - a) -> S] /\ y \in [1..(c - b) -> S] /\ z \in [1..(c - a) -> S]
  BY DEF Piece
<1>3. /\ \A k \in 1..(b - a) : x[k] = q[a + k]
      /\ \A k \in 1..(c - b) : y[k] = q[b + k]
      /\ \A k \in 1..(c - a) : z[k] = q[a + k]
  BY DEF Piece
<1>. HIDE DEF x, y, z, S
<1>4. x \in Seq(S) /\ Len(x) = b - a /\ y \in Seq(S) /\ Len(y) = c - b
  <2>. DEFINE m == b - a
              p == c - b
  <2>1. m \in Nat /\ p \in Nat /\ x \in [1..m -> S] /\ y \in [1..p -> S]
    BY <1>1, <1>2
  <2>. HIDE DEF m, p
  <2>2. x \in Seq(S) /\ Len(x) = m /\ y \in Seq(S) /\ Len(y) = p
    BY <2>1
  <2>3. QED
    BY <2>2 DEF m, p
<1>5. x \o y \in Seq(S) /\ Len(x \o y) = c - a
  BY <1>1, <1>4
<1>6. x \o y \in [1..(c - a) -> S]
  <2>. DEFINE m == c - a
              xy == x \o y
  <2>1. xy \in Seq(S) /\ Len(xy) = m
    BY <1>5
  <2>. HIDE DEF m, xy
  <2>2. xy \in [1..m -> S]
    BY <2>1
  <2>3. QED
    BY <2>2 DEF m, xy
<1>7. ASSUME NEW k \in 1..(c - a) PROVE (x \o y)[k] = z[k]
  <2>1. CASE k <= b - a
    <3>1. k \in 1..(b - a)
      BY <2>1, <1>1
    <3>2. (x \o y)[k] = x[k]
      BY <3>1, <1>4
    <3>3. QED
      BY <3>1, <3>2, <1>3
  <2>2. CASE ~ (k <= b - a)
    <3>1. k - (b - a) \in 1..(c - b) /\ b + (k - (b - a)) = a + k
      BY <2>2, <1>1
    <3>2. (x \o y)[k] = y[k - (b - a)]
      BY <2>2, <3>1, <1>1, <1>4
    <3>3. QED
      BY <3>1, <3>2, <1>3
  <2>3. QED
    BY <2>1, <2>2
<1>8. x \o y = z
  <2>. DEFINE D == 1..(c - a)
              xy == x \o y
  <2>1. xy \in [D -> S] /\ z \in [D -> S] /\ \A k \in D : xy[k] = z[k]
    BY <1>2, <1>6, <1>7
  <2>. HIDE DEF D, xy
  <2>2. xy = z
    BY <2>1
  <2>3. QED
    BY <2>2 DEF xy
<1>9. QED
  BY <1>8 DEF x, y, z

LEMMA WholeRun == ASSUME NEW S, NEW q \in Seq(S) PROVE Piece(q, 0, Len(q)) = q
<1>1. Len(q) \in Nat /\ q = [k \in 1..Len(q) |-> q[k]] /\ Len(q) - 0 = Len(q)
      /\ \A k \in 1..Len(q) : 0 + k = k
  OBVIOUS
<1>2. QED
  BY <1>1 DEF Piece

LEMMA RunFacts ==
  ASSUME NEW S, NEW q \in Seq(S), NEW a \in Nat, NEW b \in Nat, a <= b, b <= Len(q)
  PROVE  /\ Piece(q, a, b) \in Seq(S) /\ Len(Piece(q, a, b)) = b - a
         /\ \A k \in 1..(b - a) : Piece(q, a, b)[k] = q[a + k] /\ a + k \in 1..Len(q)
<1>. DEFINE m == b - a
            x == Piece(q, a, b)
<1>1. m \in Nat /\ \A k \in 1..m : a + k \in 1..Len(q)
  OBVIOUS
<1>2. x = [k \in 1..m |-> q[a + k]]
  BY DEF Piece
<1>3. \A k \in 1..Len(q) : q[k] \in S
  OBVIOUS
<1>. HIDE DEF m, x
<1>4. x \in [1..m -> S]
  BY <1>1, <1>2, <1>3
<1>5. x \in Seq(S) /\ Len(x) = m
  BY <1>1, <1>4
<1>6. QED
  BY <1>1, <1>2, <1>5 DEF m, x

\* The words of the scenes, one scene after the other, are the words.
LEMMA PartsAreWhole ==
  ASSUME NEW q \in Seq(Word), NEW lengths \in Seq(Nat), lengths # <<>>, NEW parts,
         Laid(q, lengths, parts)
  PROVE  FlattenSeq(parts) = q
<1>. DEFINE n == Len(lengths)
            N == Len(q)
<1>1. n \in Nat \ {0} /\ N \in Nat
  OBVIOUS
<1>. HIDE DEF n, N
<1>2. /\ parts \in [1..n -> Seq(Word)]
      /\ \E o \in [0..n -> 0..N] :
           /\ o[0] = 0 /\ o[n] = N
           /\ \A i \in 1..n : o[i - 1] <= o[i] /\ parts[i] = Piece(q, o[i - 1], o[i])
  BY DEF Laid, n, N
<1>3. PICK o \in [0..n -> 0..N] :
           /\ o[0] = 0 /\ o[n] = N
           /\ \A i \in 1..n : o[i - 1] <= o[i] /\ parts[i] = Piece(q, o[i - 1], o[i])
  BY <1>2
<1>4. Len(parts) = n
  BY <1>1, <1>2
<1>. DEFINE h == [i \in 1..n |-> Piece(q, 0, o[i])]
<1>5. ASSUME NEW i \in 1..n
      PROVE  h[i] = IF i = 1 THEN parts[i] ELSE h[i - 1] \o parts[i]
  <2>1. i \in 0..n /\ i - 1 \in 0..n
    BY <1>1
  <2>2. o[i] \in 0..N /\ o[i - 1] \in 0..N /\ o[i - 1] <= o[i] /\ parts[i] = Piece(q, o[i - 1], o[i])
    BY <2>1, <1>3
  <2>3. CASE i = 1
    <3>1. o[i - 1] = 0
      BY <2>3, <1>3
    <3>2. QED
      BY <2>2, <2>3, <3>1
  <2>4. CASE i # 1
    <3>1. i - 1 \in 1..n
      BY <2>4, <1>1
    <3>2. h[i - 1] = Piece(q, 0, o[i - 1]) /\ h[i] = Piece(q, 0, o[i])
      BY <3>1
    <3>3. Len(q) \in Nat /\ 0 \in Nat /\ o[i - 1] \in Nat /\ o[i] \in Nat /\ 0 <= o[i - 1]
      BY <2>2, <1>1 DEF N
    <3>. HIDE DEF h
    <3>4. Piece(q, 0, o[i - 1]) \o Piece(q, o[i - 1], o[i]) = Piece(q, 0, o[i])
      BY <2>2, <3>3, RunsJoin
    <3>5. QED
      BY <2>2, <2>4, <3>2, <3>4
  <2>5. QED
    BY <2>3, <2>4
<1>6. h = [i \in 1..n |-> IF i = 1 THEN parts[i] ELSE h[i - 1] \o parts[i]]
  <2>1. h = [i \in 1..n |-> h[i]]
    OBVIOUS
  <2>. HIDE DEF h
  <2>2. QED
    BY <2>1, <1>5
<1>7. h[n] = q
  <2>1. h[n] = Piece(q, 0, N) /\ N = Len(q)
    BY <1>1, <1>3 DEF N
  <2>2. QED
    BY <2>1, WholeRun
<1>. HIDE DEF h
<1>8. FlattenSeq(parts) = h[n]
  BY <1>1, <1>4, <1>6, FlattenIs
<1>9. QED
  BY <1>7, <1>8

LEMMA ScenesKeepTheirWords == ASSUME TimingInv, at = "film" PROVE WordsOverTheirScenes
<1>. DEFINE n == Len(film.frames)
            lengths == scenes.lengths
            parts == scenes.parts
            F == FrameTicks
<1>1. /\ lengths \in Seq(Nat) /\ lengths # <<>> /\ Laid(words, lengths, parts)
      /\ words \in Seq(Word) /\ Ordered(words)
  BY DEF TimingInv, ScenesLaid
<1>2. /\ n \in Nat \ {0} /\ Len(lengths) = n /\ F \in Nat \ {0}
      /\ \A k \in 0..n : SumTo(film.frames, k) = Rounded(SumTo(lengths, k), F)
  BY FilmFacts, TimingBounds
<1>3. FlattenSeq(parts) = words
  BY <1>1, PartsAreWhole
<1>4. \A k \in 0..n : SumTo(lengths, k) \in Nat
  BY <1>1, <1>2, SumsGrow
<1>. HIDE DEF n, F, parts, lengths
<1>5. /\ parts \in [1..n -> Seq(Word)]
      /\ \E o \in [0..n -> 0..Len(words)] :
            \A i \in 1..n :
              /\ o[i - 1] <= o[i] /\ parts[i] = Piece(words, o[i - 1], o[i])
              /\ \A k \in (o[i - 1] + 1)..o[i] :
                   /\ 2 * SumTo(lengths, i - 1) <= Mid(words[k])
                   /\ i < n => Mid(words[k]) < 2 * SumTo(lengths, i)
  BY <1>1, <1>2 DEF Laid
<1>6. PICK o \in [0..n -> 0..Len(words)] :
            \A i \in 1..n :
              /\ o[i - 1] <= o[i] /\ parts[i] = Piece(words, o[i - 1], o[i])
              /\ \A k \in (o[i - 1] + 1)..o[i] :
                   /\ 2 * SumTo(lengths, i - 1) <= Mid(words[k])
                   /\ i < n => Mid(words[k]) < 2 * SumTo(lengths, i)
  BY <1>5
<1>7. ASSUME NEW k \in 0..n
      PROVE  /\ 2 * SumTo(film.frames, k) * F <= 2 * SumTo(lengths, k) + F
             /\ 2 * SumTo(lengths, k) < 2 * SumTo(film.frames, k) * F + F
             /\ SumTo(film.frames, k) \in Nat
  <2>. DEFINE r == SumTo(film.frames, k)
              l == SumTo(lengths, k)
  <2>1. r = Rounded(l, F) /\ l \in Int /\ r \in Nat
    BY <1>2, <1>4, TotalFacts DEF n
  <2>. HIDE DEF r, l
  <2>2. 2 * (F * r) <= 2 * l + F /\ 2 * l < 2 * (F * r) + F
    BY <2>1, <1>2, RoundedFacts
  <2>3. 2 * (F * r) = 2 * r * F
    BY <2>1, <1>2
  <2>4. 2 * r * F <= 2 * l + F /\ 2 * l < 2 * r * F + F /\ r \in Nat
    BY <2>1, <2>2, <2>3
  <2>5. QED
    BY <2>4 DEF r, l
<1>8. ASSUME NEW i \in 1..n, NEW k \in DOMAIN parts[i]
      PROVE  /\ 2 * SceneStart(i) * F <= (parts[i][k].start + parts[i][k].end) + F
             /\ i < n => parts[i][k].start + parts[i][k].end < 2 * SceneStart(i + 1) * F + F
  <2>. DEFINE a == o[i - 1]
              b == o[i]
              w == words[a + k]
              mid == Mid(w)
  <2>1. i \in 0..n /\ i - 1 \in 0..n /\ i \in Nat
    BY <1>2
  <2>2. a \in 0..Len(words) /\ b \in 0..Len(words) /\ a <= b /\ parts[i] = Piece(words, a, b)
    BY <2>1, <1>6
  <2>3. Len(words) \in Nat
    BY <1>1
  <2>4. k \in 1..(b - a) /\ parts[i][k] = w
    BY <2>2 DEF Piece
  <2>5. a + k \in (a + 1)..b /\ a + k \in 1..Len(words)
    <3>. HIDE DEF a, b
    <3>1. QED
      BY <2>2, <2>3, <2>4
  <2>6. mid = parts[i][k].start + parts[i][k].end /\ mid \in Nat
    <3>1. w.start \in Nat /\ w.end \in Nat
      BY <2>5, <1>1 DEF Ordered
    <3>2. QED
      BY <3>1, <2>4 DEF Mid
  <2>7. 2 * SumTo(lengths, i - 1) <= mid /\ (i < n => mid < 2 * SumTo(lengths, i))
    BY <2>5, <1>6
  <2>8. SceneStart(i) = SumTo(film.frames, i - 1) /\ SceneStart(i + 1) = SumTo(film.frames, i)
    <3>1. (i + 1) - 1 = i
      BY <2>1
    <3>2. QED
      BY <3>1 DEF SceneStart
  <2>9. SumTo(lengths, i - 1) \in Nat /\ SumTo(lengths, i) \in Nat
    BY <2>1, <1>4
  <2>. HIDE DEF a, b, w, mid
  <2>. DEFINE x == 2 * SumTo(film.frames, i - 1) * F
              y == 2 * SumTo(film.frames, i) * F
  <2>10. /\ x <= 2 * SumTo(lengths, i - 1) + F
         /\ 2 * SumTo(lengths, i) < y + F
         /\ x \in Int /\ y \in Int
    <3>1. /\ x <= 2 * SumTo(lengths, i - 1) + F /\ SumTo(film.frames, i - 1) \in Nat
          /\ 2 * SumTo(lengths, i) < y + F /\ SumTo(film.frames, i) \in Nat
      BY <2>1, <1>7
    <3>2. QED
      BY <3>1, <1>2
  <2>11. x = 2 * SceneStart(i) * F /\ y = 2 * SceneStart(i + 1) * F
    BY <2>8
  <2>. HIDE DEF x, y
  <2>12. x <= mid + F /\ (i < n => mid < y + F)
    BY <2>6, <2>7, <2>9, <2>10, <1>2
  <2>13. QED
    BY <2>6, <2>11, <2>12
<1>9. DOMAIN scenes.parts = 1..n
  BY <1>5 DEF parts
<1>10. \A i \in DOMAIN scenes.parts : \A k \in DOMAIN scenes.parts[i] :
         /\ 2 * SceneStart(i) * FrameTicks <= (scenes.parts[i][k].start + scenes.parts[i][k].end) + FrameTicks
         /\ i < Len(film.frames) => scenes.parts[i][k].start + scenes.parts[i][k].end
                                      < 2 * SceneStart(i + 1) * FrameTicks + FrameTicks
  BY <1>8, <1>9 DEF parts, n, F
<1>11. QED
  BY <1>3, <1>10 DEF WordsOverTheirScenes, parts

-----------------------------------------------------------------------------
(* Rows and pages: a filling exists and is what it is *)

LEMMA StepsGrow ==
  ASSUME NEW n \in Nat, NEW o \in [0..n -> Nat], \A i \in 1..n : o[i - 1] <= o[i]
  PROVE  \A j \in 0..n : \A i \in 0..j : o[i] <= o[j]
<1>. DEFINE T == {j \in 0..n : \A i \in 0..j : o[i] <= o[j]}
<1>1. 0 \in T
  OBVIOUS
<1>2. ASSUME NEW k \in 0..n, k < n, k \in T PROVE k + 1 \in T
  <2>1. k + 1 \in 1..n /\ (k + 1) - 1 = k /\ k + 1 \in 0..n
    BY <1>2
  <2>2. o[k] <= o[k + 1] /\ o[k] \in Nat /\ o[k + 1] \in Nat
    BY <2>1
  <2>3. ASSUME NEW i \in 0..(k + 1) PROVE o[i] <= o[k + 1]
    <3>1. i = k + 1 \/ i \in 0..k
      BY <1>2
    <3>2. CASE i \in 0..k
      <4>1. o[i] <= o[k] /\ o[i] \in Nat
        BY <3>2, <1>2
      <4>2. QED
        BY <4>1, <2>2
    <3>3. QED
      BY <3>1, <3>2, <2>2
  <2>4. QED
    BY <2>1, <2>3
<1>3. \A j \in 0..n : j \in T
  <2>. HIDE DEF T
  <2>1. QED
    BY <1>1, <1>2, UpTo
<1>4. QED
  BY <1>3

\* One step of the filling.
Refilled(q, k, rows) ==
  LET row == IF k = 1 THEN <<>> ELSE rows[Len(rows)]
  IN IF k > 1 /\ Joins(row, q[k])
     THEN [rows EXCEPT ![Len(rows)] = Append(row, q[k])]
     ELSE Append(rows, <<q[k]>>)

LEMMA FillingExists ==
  ASSUME NEW q, Len(q) \in Nat
  PROVE  \E r : r = [k \in 0..Len(q) |-> IF k = 0 THEN <<>> ELSE Refilled(q, k, r[k - 1])]
<1>. DEFINE n == Len(q)
            Up(r, m) == r = [k \in 0..m |-> IF k = 0 THEN <<>> ELSE Refilled(q, k, r[k - 1])]
            T == {m \in 0..n : \E r : Up(r, m)}
<1>1. 0 \in T
  <2>1. Up([k \in 0..0 |-> <<>>], 0)
    OBVIOUS
  <2>2. 0 \in 0..n
    OBVIOUS
  <2>. HIDE DEF Up
  <2>3. QED
    BY <2>1, <2>2
<1>2. ASSUME NEW m \in 0..n, m < n, m \in T PROVE m + 1 \in T
  <2>1. PICK r : Up(r, m)
    BY <1>2
  <2>. DEFINE s == [k \in 0..(m + 1) |-> IF k = m + 1 THEN Refilled(q, m + 1, r[m]) ELSE r[k]]
  <2>2. m \in Nat /\ m + 1 \in 0..n /\ (m + 1) - 1 = m /\ m + 1 # 0
    BY <1>2
  <2>3. ASSUME NEW k \in 0..(m + 1)
        PROVE  s[k] = IF k = 0 THEN <<>> ELSE Refilled(q, k, s[k - 1])
    <3>1. CASE k = m + 1
      <4>1. s[k] = Refilled(q, k, r[m])
        BY <3>1
      <4>2. k - 1 = m /\ m \in 0..(m + 1) /\ m # m + 1 /\ k # 0
        BY <3>1, <2>2
      <4>3. s[k - 1] = r[m]
        BY <4>2
      <4>. HIDE DEF s
      <4>4. QED
        BY <4>1, <4>2, <4>3
    <3>2. CASE k # m + 1
      <4>1. k \in 0..m /\ s[k] = r[k]
        BY <3>2, <2>2
      <4>2. k # 0 => k - 1 \in 0..(m + 1) /\ k - 1 # m + 1
        BY <4>1, <2>2
      <4>3. k # 0 => s[k - 1] = r[k - 1]
        BY <4>2
      <4>4. r[k] = IF k = 0 THEN <<>> ELSE Refilled(q, k, r[k - 1])
        BY <4>1, <2>1
      <4>. HIDE DEF s
      <4>5. QED
        BY <4>1, <4>3, <4>4
    <3>3. QED
      BY <3>1, <3>2
  <2>4. s = [k \in 0..(m + 1) |-> s[k]]
    OBVIOUS
  <2>. HIDE DEF s
  <2>5. Up(s, m + 1)
    BY <2>3, <2>4
  <2>. HIDE DEF Up
  <2>6. QED
    BY <2>2, <2>5
<1>3. n \in T
  <2>1. n \in Nat
    OBVIOUS
  <2>. HIDE DEF T, n
  <2>2. \A m \in 0..n : m \in T
    BY <2>1, <1>1, <1>2, UpTo
  <2>3. QED
    BY <2>1, <2>2
<1>4. QED
  BY <1>3

\* The groups of pageWords, built up one word at a time.
LEMMA FillingFacts ==
  ASSUME NEW q, Len(q) \in Nat
  PROVE  \E r : /\ r[0] = <<>>
                /\ \A k \in 1..Len(q) : r[k] = Refilled(q, k, r[k - 1])
                /\ Filled(q, Joins) = r[Len(q)]
<1>. DEFINE P(r) == r = [k \in 0..Len(q) |-> IF k = 0 THEN <<>> ELSE Refilled(q, k, r[k - 1])]
            R == CHOOSE r : P(r)
<1>1. P(R)
  <2>1. \E r : P(r)
    BY FillingExists
  <2>. HIDE DEF P
  <2>2. QED
    BY <2>1
<1>2. Filled(q, Joins) = R[Len(q)]
  BY DEF Filled, Refilled
<1>. HIDE DEF R
<1>3. R[0] = <<>> /\ \A k \in 1..Len(q) : R[k] = Refilled(q, k, R[k - 1])
  BY <1>1
<1>4. QED
  BY <1>2, <1>3

Fits(page) ==
  Len(page) > 1 => Width(page) <= MaxChars /\ Len(WrapWords(page)) <= MaxLines

\* The first k words in groups, one after the other, none empty, and each fits.
Grouped(rows, q, k) ==
  /\ rows \in Seq(Seq(Word))
  /\ \E o \in [0..Len(rows) -> 0..k] :
       /\ o[0] = 0 /\ o[Len(rows)] = k
       /\ \A i \in 1..Len(rows) : o[i - 1] < o[i] /\ rows[i] = Piece(q, o[i - 1], o[i])
  /\ \A i \in 1..Len(rows) : Fits(rows[i])

LEMMA RunGrows ==
  ASSUME NEW q \in Seq(Word), NEW a \in Nat, NEW k \in 1..Len(q), a <= k - 1
  PROVE  /\ Append(Piece(q, a, k - 1), q[k]) = Piece(q, a, k)
         /\ <<q[k]>> = Piece(q, k - 1, k)
         /\ Piece(q, a, k) \in Seq(Word)
<1>1. k \in Nat /\ k - 1 \in Nat /\ k - 1 <= k /\ k <= Len(q) /\ k - 1 <= Len(q) /\ a <= k
  OBVIOUS
<1>. DEFINE x == Piece(q, a, k - 1)
            z == Piece(q, a, k)
<1>2. /\ x \in Seq(Word) /\ Len(x) = (k - 1) - a
      /\ \A i \in 1..((k - 1) - a) : x[i] = q[a + i]
  <2>. DEFINE j == k - 1
  <2>1. j \in Nat /\ a <= j /\ j <= Len(q)
    BY <1>1
  <2>. HIDE DEF j
  <2>2. /\ Piece(q, a, j) \in Seq(Word) /\ Len(Piece(q, a, j)) = j - a
        /\ \A i \in 1..(j - a) : Piece(q, a, j)[i] = q[a + i]
    BY <2>1, RunFacts
  <2>3. QED
    BY <2>2 DEF j
<1>3. /\ z \in Seq(Word) /\ Len(z) = k - a
      /\ \A i \in 1..(k - a) : z[i] = q[a + i]
  BY <1>1, RunFacts
<1>4. q[k] \in Word
  OBVIOUS
<1>5. <<q[k]>> = Piece(q, k - 1, k)
  <2>1. k - (k - 1) = 1 /\ (k - 1) + 1 = k
    BY <1>1
  <2>2. Piece(q, k - 1, k) = [i \in 1..1 |-> q[(k - 1) + i]]
    BY <2>1 DEF Piece
  <2>3. Piece(q, k - 1, k) = [i \in 1..1 |-> q[k]]
    BY <2>1, <2>2
  <2>4. [i \in 1..1 |-> q[k]] = <<q[k]>>
    OBVIOUS
  <2>5. QED
    BY <2>3, <2>4
<1>. HIDE DEF x, z
<1>. DEFINE m == k - a
            y == Append(x, q[k])
<1>6. m \in Nat \ {0} /\ (k - 1) - a = m - 1 /\ a + m = k
  BY <1>1
<1>. HIDE DEF m
<1>7. Len(x) = m - 1 /\ Len(z) = m /\ z[m] = q[k] /\ \A i \in 1..(m - 1) : x[i] = z[i]
  BY <1>2, <1>3, <1>6 DEF m
<1>8. y \in Seq(Word) /\ Len(y) = m
  BY <1>2, <1>4, <1>6, <1>7
<1>9. ASSUME NEW i \in 1..m PROVE y[i] = z[i]
  <2>1. CASE i = m
    BY <2>1, <1>2, <1>4, <1>6, <1>7
  <2>2. CASE i # m
    <3>1. i \in 1..(m - 1)
      BY <2>2, <1>6
    <3>2. y[i] = x[i]
      BY <3>1, <1>2, <1>7
    <3>3. QED
      BY <3>1, <3>2, <1>7
  <2>3. QED
    BY <2>1, <2>2
<1>. HIDE DEF y
<1>10. y = z
  <2>. DEFINE D == 1..m
  <2>1. y \in [D -> Word] /\ z \in [D -> Word]
    BY <1>3, <1>7, <1>8
  <2>2. \A i \in D : y[i] = z[i]
    BY <1>9
  <2>. HIDE DEF D
  <2>3. QED
    BY <2>1, <2>2
<1>11. QED
  BY <1>3, <1>5, <1>10 DEF x, y, z

-----------------------------------------------------------------------------
(* A row or page grows word by word *)

\* A word that goes with the last group.
LEMMA GroupGrows ==
  ASSUME NEW q \in Seq(Word), NEW k \in 1..Len(q), k > 1, NEW rows,
         Grouped(rows, q, k - 1), Joins(rows[Len(rows)], q[k])
  PROVE  Grouped([rows EXCEPT ![Len(rows)] = Append(rows[Len(rows)], q[k])], q, k)
<1>. DEFINE m == Len(rows)
            row == Append(rows[m], q[k])
            s == [rows EXCEPT ![m] = row]
<1>1. rows \in Seq(Seq(Word)) /\ m \in Nat /\ k \in Nat /\ k - 1 \in Nat
  BY DEF Grouped
<1>2. PICK o \in [0..m -> 0..(k - 1)] :
       /\ o[0] = 0 /\ o[m] = k - 1
       /\ \A i \in 1..m : o[i - 1] < o[i] /\ rows[i] = Piece(q, o[i - 1], o[i])
  BY DEF Grouped
<1>3. m \in 1..m /\ m # 0
  <2>1. k - 1 # 0
    BY <1>1
  <2>2. m # 0
    BY <2>1, <1>2
  <2>3. QED
    BY <2>2, <1>1
<1>. HIDE DEF m
<1>4. m - 1 \in 0..m /\ m - 1 # m /\ o[m - 1] \in Nat /\ o[m - 1] <= k - 1
  BY <1>1, <1>2, <1>3
<1>. DEFINE a == o[m - 1]
<1>5. rows[m] = Piece(q, a, k - 1)
  BY <1>2, <1>3
<1>. HIDE DEF a
<1>6. a \in Nat /\ a <= k - 1 /\ a < k
  BY <1>1, <1>4 DEF a
<1>7. row = Piece(q, a, k) /\ row \in Seq(Word)
  BY <1>5, <1>6, RunGrows
<1>8. Fits(row)
  BY DEF Fits, Joins, m
<1>. HIDE DEF row
<1>9. /\ s \in Seq(Seq(Word)) /\ Len(s) = m /\ s[m] = row
      /\ \A i \in 1..m : i # m => s[i] = rows[i]
  BY <1>1, <1>3, <1>7 DEF m
<1>. HIDE DEF s
<1>. DEFINE p == [o EXCEPT ![m] = k]
<1>10. /\ p \in [0..m -> 0..k] /\ p[m] = k /\ p[0] = 0
       /\ \A i \in 0..m : i # m => p[i] = o[i]
  <2>1. 0..(k - 1) \subseteq 0..k /\ k \in 0..k /\ 0 \in 0..m
    BY <1>1
  <2>2. QED
    BY <2>1, <1>2, <1>3
<1>. HIDE DEF p
<1>11. ASSUME NEW i \in 1..m PROVE p[i - 1] < p[i] /\ s[i] = Piece(q, p[i - 1], p[i])
  <2>1. i - 1 \in 0..m /\ i - 1 # m /\ i \in 0..m
    BY <1>1
  <2>2. p[i - 1] = o[i - 1]
    BY <2>1, <1>10
  <2>3. CASE i = m
    BY <2>2, <2>3, <1>6, <1>7, <1>9, <1>10 DEF a
  <2>4. CASE i # m
    BY <2>1, <2>2, <2>4, <1>2, <1>9, <1>10
  <2>5. QED
    BY <2>3, <2>4
<1>12. \A i \in 1..m : Fits(s[i])
  <2>1. \A i \in 1..m : Fits(rows[i])
    BY DEF Grouped, m
  <2>2. QED
    BY <2>1, <1>8, <1>9
<1>13. Grouped(s, q, k)
  BY <1>9, <1>10, <1>11, <1>12 DEF Grouped
<1>14. QED
  BY <1>13 DEF s, row, m

\* A word that begins a group.
LEMMA GroupBegins ==
  ASSUME NEW q \in Seq(Word), NEW k \in 1..Len(q), NEW rows, Grouped(rows, q, k - 1)
  PROVE  Grouped(Append(rows, <<q[k]>>), q, k)
<1>. DEFINE m == Len(rows)
            s == Append(rows, <<q[k]>>)
<1>1. rows \in Seq(Seq(Word)) /\ m \in Nat /\ k \in Nat /\ k - 1 \in Nat /\ q[k] \in Word
  BY DEF Grouped
<1>2. PICK o \in [0..m -> 0..(k - 1)] :
       /\ o[0] = 0 /\ o[m] = k - 1
       /\ \A i \in 1..m : o[i - 1] < o[i] /\ rows[i] = Piece(q, o[i - 1], o[i])
  BY DEF Grouped
<1>3. <<q[k]>> = Piece(q, k - 1, k)
  BY <1>1, RunGrows
<1>4. /\ s \in Seq(Seq(Word)) /\ Len(s) = m + 1 /\ s[m + 1] = <<q[k]>>
      /\ \A i \in 1..m : s[i] = rows[i]
  <2>1. <<q[k]>> \in Seq(Word)
    BY <1>1
  <2>2. QED
    BY <2>1, <1>1
<1>5. \A i \in 1..m : Fits(rows[i])
  BY DEF Grouped
<1>. HIDE DEF m, s
<1>. DEFINE p == [i \in 0..(m + 1) |-> IF i = m + 1 THEN k ELSE o[i]]
<1>6. /\ p \in [0..(m + 1) -> 0..k] /\ p[m + 1] = k
      /\ \A i \in 0..m : p[i] = o[i]
  <2>1. 0..(k - 1) \subseteq 0..k /\ k \in 0..k
    BY <1>1
  <2>2. \A i \in 0..(m + 1) : i # m + 1 => i \in 0..m
    BY <1>1
  <2>3. \A i \in 0..m : i # m + 1 /\ i \in 0..(m + 1)
    BY <1>1
  <2>4. \A i \in 0..(m + 1) : i # m + 1 => o[i] \in 0..k
    BY <2>1, <2>2, <1>2
  <2>5. m + 1 \in 0..(m + 1)
    BY <1>1
  <2>6. QED
    BY <2>1, <2>3, <2>4, <2>5
<1>. HIDE DEF p
<1>7. ASSUME NEW i \in 1..(m + 1) PROVE p[i - 1] < p[i] /\ s[i] = Piece(q, p[i - 1], p[i])
  <2>1. CASE i = m + 1
    <3>1. i - 1 = m /\ m \in 0..m
      BY <2>1, <1>1
    <3>2. p[i - 1] = k - 1 /\ p[i] = k
      BY <3>1, <2>1, <1>2, <1>6
    <3>3. QED
      BY <3>2, <2>1, <1>1, <1>3, <1>4
  <2>2. CASE i # m + 1
    <3>1. i \in 1..m /\ i \in 0..m /\ i - 1 \in 0..m
      BY <2>2, <1>1
    <3>2. QED
      BY <3>1, <1>2, <1>4, <1>6
  <2>3. QED
    BY <2>1, <2>2
<1>8. p[0] = 0
  <2>1. 0 \in 0..m
    BY <1>1
  <2>2. QED
    BY <2>1, <1>2, <1>6
<1>9. \A i \in 1..(m + 1) : Fits(s[i])
  <2>1. Fits(<<q[k]>>)
    BY DEF Fits
  <2>2. \A i \in 1..(m + 1) : i = m + 1 \/ i \in 1..m
    BY <1>1
  <2>3. QED
    BY <2>1, <2>2, <1>4, <1>5
<1>10. Grouped(s, q, k)
  BY <1>4, <1>6, <1>7, <1>8, <1>9 DEF Grouped
<1>11. QED
  BY <1>10 DEF s

LEMMA FilledFacts == ASSUME NEW q \in Seq(Word) PROVE Grouped(Filled(q, Joins), q, Len(q))
<1>. DEFINE n == Len(q)
<1>1. n \in Nat
  OBVIOUS
<1>2. PICK r : /\ r[0] = <<>>
               /\ \A k \in 1..n : r[k] = Refilled(q, k, r[k - 1])
               /\ Filled(q, Joins) = r[n]
  BY <1>1, FillingFacts
<1>. DEFINE T == {k \in 0..n : Grouped(r[k], q, k)}
<1>3. 0 \in T
  <2>1. Grouped(<<>>, q, 0)
    <3>1. <<>> \in Seq(Seq(Word)) /\ Len(<<>>) = 0
      OBVIOUS
    <3>. DEFINE o == [i \in 0..0 |-> 0]
    <3>2. o \in [0..0 -> 0..0] /\ o[0] = 0
      OBVIOUS
    <3>3. \A i \in 1..0 : FALSE
      OBVIOUS
    <3>. HIDE DEF o
    <3>4. \E p \in [0..0 -> 0..0] : /\ p[0] = 0
                                    /\ \A i \in 1..0 : p[i - 1] < p[i] /\ <<>>[i] = Piece(q, p[i - 1], p[i])
      BY <3>2, <3>3
    <3>5. QED
      BY <3>1, <3>3, <3>4 DEF Grouped
  <2>2. QED
    BY <2>1, <1>1, <1>2
<1>4. ASSUME NEW j \in 0..n, j < n, j \in T PROVE j + 1 \in T
  <2>. DEFINE k == j + 1
              rows == r[j]
  <2>1. k \in 1..n /\ k - 1 = j /\ k \in 0..n
    BY <1>1, <1>4
  <2>2. Grouped(rows, q, k - 1)
    BY <2>1, <1>4
  <2>3. r[k] = Refilled(q, k, rows)
    BY <2>1, <1>2
  <2>. HIDE DEF k, rows
  <2>4. CASE k > 1 /\ Joins(rows[Len(rows)], q[k])
    <3>1. k # 1
      BY <2>4, <2>1
    <3>2. r[k] = [rows EXCEPT ![Len(rows)] = Append(rows[Len(rows)], q[k])]
      BY <2>3, <2>4, <3>1 DEF Refilled
    <3>3. Grouped(r[k], q, k)
      BY <2>1, <2>2, <2>4, <3>2, GroupGrows
    <3>4. QED
      BY <3>3, <2>1 DEF k
  <2>5. CASE ~ (k > 1 /\ Joins(rows[Len(rows)], q[k]))
    <3>1. r[k] = Append(rows, <<q[k]>>)
      <4>1. CASE k = 1
        BY <4>1, <2>3 DEF Refilled
      <4>2. CASE k # 1
        BY <4>2, <2>3, <2>5 DEF Refilled
      <4>3. QED
        BY <4>1, <4>2
    <3>2. Grouped(r[k], q, k)
      BY <2>1, <2>2, <3>1, GroupBegins
    <3>3. QED
      BY <3>2, <2>1 DEF k
  <2>6. QED
    BY <2>4, <2>5
<1>5. n \in T
  <2>. HIDE DEF T, n
  <2>1. \A k \in 0..n : k \in T
    BY <1>1, <1>3, <1>4, UpTo
  <2>2. QED
    BY <2>1, <1>1
<1>6. QED
  BY <1>2, <1>5

-----------------------------------------------------------------------------
(* The captions of one scene *)

CaptionPage == [words: Seq(Word), start: Nat, end: Nat]

\* A page from the a-th word on up to the b-th: seen from its first word, till its last
\* one has ended at least, and it fits.
PageOf(p, q, a, b) ==
  /\ a < b /\ p.words = Piece(q, a, b) /\ p.start = q[a + 1].start /\ q[b].end <= p.end
  /\ Fits(p.words)

\* Pages, one after the other, of the words from the a-th on up to the b-th.
Paged(pages, q, a, b) ==
  /\ pages \in Seq(CaptionPage)
  /\ \E o \in [0..Len(pages) -> a..b] :
       /\ o[0] = a /\ o[Len(pages)] = b
       /\ \A i \in 1..Len(pages) : PageOf(pages[i], q, o[i - 1], o[i])

LEMMA WordTimes ==
  ASSUME NEW q \in Seq(Word), Ordered(q)
  PROVE  \A k \in 1..Len(q) : /\ q[k].start \in Nat /\ q[k].end \in Nat /\ q[k].start <= q[k].end
                              /\ \A j \in 1..Len(q) : j < k => q[j].end <= q[k].start /\ q[j].end <= q[k].end
<1>1. Len(q) \in Nat
  OBVIOUS
<1>2. ASSUME NEW k \in 1..Len(q)
      PROVE q[k].start \in Nat /\ q[k].end \in Nat /\ q[k].start <= q[k].end
  BY DEF Ordered
<1>3. ASSUME NEW k \in 1..Len(q), NEW j \in 1..Len(q), j < k
      PROVE q[j].end <= q[k].start /\ q[j].end <= q[k].end
  <2>1. j <= k
    BY <1>1, <1>3
  <2>2. QED
    BY <2>1, <1>1, <1>3, OrderedFar
<1>4. QED
  BY <1>2, <1>3

\* pageWords: the pages of words that are spoken one after the other.
LEMMA PageWordsFacts ==
  ASSUME NEW q \in Seq(Word), Ordered(q)
  PROVE  Paged(PageWords(q), q, 0, Len(q))
<1>. DEFINE groups == Filled(q, Joins)
            n == Len(groups)
            N == Len(q)
            last(g) == Max({g[k].end : k \in DOMAIN g})
            pages == PageWords(q)
            end(i) == IF i < n THEN Max({last(groups[i]), groups[i + 1][1].start})
                      ELSE last(groups[i]) + Hold
<1>1. Grouped(groups, q, N)
  BY FilledFacts
<1>2. pages = [i \in DOMAIN groups |->
                 [words |-> groups[i], start |-> groups[i][1].start, end |-> end(i)]]
  BY DEF PageWords
<1>. HIDE DEF groups, pages
<1>3. groups \in Seq(Seq(Word)) /\ n \in Nat /\ DOMAIN groups = 1..n /\ N \in Nat /\ Hold \in Nat
  BY <1>1, TimingBounds DEF Grouped
<1>4. PICK o \in [0..n -> 0..N] :
       /\ o[0] = 0 /\ o[n] = N
       /\ \A i \in 1..n : o[i - 1] < o[i] /\ groups[i] = Piece(q, o[i - 1], o[i])
  BY <1>1 DEF Grouped
<1>. HIDE DEF n, N, end
<1>5. ASSUME NEW i \in 1..n
      PROVE  /\ groups[i] \in Seq(Word)
             /\ o[i - 1] \in Nat /\ o[i] \in 1..N /\ o[i - 1] + 1 \in 1..N
             /\ groups[i][1] = q[o[i - 1] + 1] /\ last(groups[i]) = q[o[i]].end
  <2>. DEFINE a == o[i - 1]
              b == o[i]
              g == groups[i]
  <2>1. i \in 0..n /\ i - 1 \in 0..n
    BY <1>3
  <2>2. a \in 0..N /\ b \in 0..N /\ a < b /\ g = Piece(q, a, b)
    BY <2>1, <1>4
  <2>3. g \in Seq(Word)
    BY <1>3
  <2>. HIDE DEF a, b, g
  <2>4. /\ a \in Nat /\ b \in 1..N /\ a + 1 \in 1..N /\ b \in Nat /\ b <= N
        /\ b - a \in 1..(b - a) /\ 1 \in 1..(b - a) /\ a + (b - a) = b
    BY <2>2, <1>3
  <2>5. /\ DOMAIN g = 1..(b - a) /\ \A k \in 1..(b - a) : g[k] = q[a + k]
    BY <2>2 DEF Piece
  <2>6. g[1] = q[a + 1] /\ g[b - a] = q[b]
    <3>. DEFINE m == b - a
    <3>1. m \in 1..m /\ 1 \in 1..m /\ a + m = b /\ \A k \in 1..m : g[k] = q[a + k]
      BY <2>4, <2>5
    <3>. HIDE DEF m
    <3>2. g[1] = q[a + 1] /\ g[m] = q[b]
      BY <3>1
    <3>3. QED
      BY <3>2 DEF m
  <2>7. last(g) = q[b].end
    <3>. DEFINE S == {g[k].end : k \in DOMAIN g}
                x == q[b].end
    <3>1. \A k \in 1..(b - a) : a + k \in 1..N /\ a + k <= b
      BY <2>2, <1>3
    <3>2. ASSUME NEW k \in 1..N, k <= b PROVE q[k].end \in Int /\ q[k].end <= x
      <4>1. CASE k = b
        <5>1. q[k].end \in Nat
          BY WordTimes DEF N
        <5>2. QED
          BY <5>1, <4>1
      <4>2. CASE k # b
        <5>1. k < b
          BY <3>2, <4>2, <2>4, <1>3
        <5>2. QED
          BY <5>1, <2>4, WordTimes DEF N
      <4>3. QED
        BY <4>1, <4>2
    <3>3. x \in S
      BY <2>4, <2>5, <2>6
    <3>4. \A y \in S : y \in Int /\ y <= x
      <4>1. ASSUME NEW k \in DOMAIN g PROVE g[k].end \in Int /\ g[k].end <= x
        <5>1. k \in 1..(b - a) /\ g[k] = q[a + k]
          BY <2>5
        <5>2. a + k \in 1..N /\ a + k <= b
          BY <5>1, <3>1
        <5>3. QED
          BY <5>1, <5>2, <3>2
      <4>2. QED
        BY <4>1
    <3>5. S \in SUBSET Int
      BY <3>4
    <3>6. last(g) = Max(S)
      OBVIOUS
    <3>. HIDE DEF S
    <3>7. Max(S) = x
      BY <3>3, <3>4, <3>5, MaxIs
    <3>8. QED
      BY <3>6, <3>7
  <2>8. QED
    BY <2>3, <2>4, <2>6, <2>7 DEF a, b, g
<1>. HIDE DEF last
<1>6. ASSUME NEW i \in 1..n
      PROVE  /\ end(i) \in Nat /\ q[o[i]].end <= end(i)
             /\ groups[i][1].start \in Nat
  <2>1. last(groups[i]) = q[o[i]].end /\ q[o[i]].end \in Nat
    <3>1. q[o[i]].end \in Nat
      BY <1>5, WordTimes DEF N
    <3>2. QED
      BY <3>1, <1>5
  <2>2. groups[i][1].start \in Nat
    BY <1>5, WordTimes DEF N
  <2>3. CASE i < n
    <3>1. i + 1 \in 1..n
      BY <2>3, <1>3
    <3>2. groups[i + 1][1].start \in Nat
      BY <3>1, <1>5, WordTimes DEF N
    <3>. DEFINE x == last(groups[i])
                y == groups[i + 1][1].start
    <3>3. end(i) = Max({x, y}) /\ x \in Nat /\ y \in Nat /\ x = q[o[i]].end
      BY <2>1, <2>3, <3>2 DEF end
    <3>. HIDE DEF x, y
    <3>4. Max({x, y}) = IF x <= y THEN y ELSE x
      BY <3>3, MaxOfTwo
    <3>5. end(i) \in Nat /\ x <= end(i)
      BY <3>3, <3>4
    <3>6. QED
      BY <3>3, <3>5, <2>2
  <2>4. CASE ~ (i < n)
    BY <2>1, <2>2, <2>4, <1>3 DEF end
  <2>5. QED
    BY <2>3, <2>4
<1>7. ASSUME NEW i \in 1..n
      PROVE  pages[i] \in CaptionPage /\ PageOf(pages[i], q, o[i - 1], o[i])
  <2>1. pages[i] = [words |-> groups[i], start |-> groups[i][1].start, end |-> end(i)]
    BY <1>2, <1>3
  <2>2. pages[i] \in CaptionPage
    BY <2>1, <1>5, <1>6 DEF CaptionPage
  <2>3. Fits(groups[i])
    BY <1>1 DEF Grouped, n
  <2>4. /\ pages[i].words = groups[i] /\ pages[i].start = groups[i][1].start /\ pages[i].end = end(i)
    BY <2>1
  <2>5. PageOf(pages[i], q, o[i - 1], o[i])
    BY <2>3, <2>4, <1>4, <1>5, <1>6 DEF PageOf
  <2>6. QED
    BY <2>2, <2>5
<1>8. pages \in Seq(CaptionPage) /\ Len(pages) = n
  <2>1. pages = [i \in 1..n |-> pages[i]]
    BY <1>2, <1>3
  <2>2. pages \in [1..n -> CaptionPage]
    BY <2>1, <1>7
  <2>3. QED
    BY <2>2, <1>3
<1>9. Paged(pages, q, 0, N)
  BY <1>4, <1>7, <1>8 DEF Paged
<1>10. QED
  BY <1>9 DEF pages, N

\* The pages of a part of the words are pages of the words.
LEMMA PagesOfPart ==
  ASSUME NEW q \in Seq(Word), Ordered(q), NEW a \in Nat, NEW b \in Nat, a <= b, b <= Len(q)
  PROVE  Paged(PageWords(Piece(q, a, b)), q, a, b)
<1>. DEFINE s == Piece(q, a, b)
            N == Len(q)
            pages == PageWords(s)
            n == Len(pages)
<1>1. N \in Nat
  OBVIOUS
<1>2. /\ s \in Seq(Word) /\ Len(s) = b - a
      /\ \A k \in 1..(b - a) : s[k] = q[a + k] /\ a + k \in 1..N
  BY RunFacts
<1>. HIDE DEF s
<1>3. Ordered(s)
  <2>1. ASSUME NEW k \in 1..Len(s)
        PROVE  /\ s[k].start \in Nat /\ s[k].end \in Nat /\ s[k].start <= s[k].end
               /\ k < Len(s) => s[k].end <= s[k + 1].start
    <3>1. k \in 1..(b - a) /\ s[k] = q[a + k] /\ a + k \in 1..N
      BY <1>2
    <3>2. k < Len(s) => s[k + 1] = q[a + (k + 1)] /\ a + (k + 1) \in 1..N /\ a + k < a + (k + 1)
      <4>1. k < Len(s) => k + 1 \in 1..(b - a) /\ a + k < a + (k + 1)
        BY <3>1, <1>2
      <4>2. QED
        BY <4>1, <1>2
    <3>3. QED
      BY <3>1, <3>2, WordTimes
  <2>2. QED
    BY <2>1 DEF Ordered
<1>4. Paged(pages, s, 0, Len(s))
  BY <1>2, <1>3, PageWordsFacts
<1>. HIDE DEF pages
<1>5. n \in Nat /\ pages \in Seq(CaptionPage)
  BY <1>4 DEF Paged
<1>6. PICK o \in [0..n -> 0..(b - a)] :
        /\ o[0] = 0 /\ o[n] = b - a
        /\ \A i \in 1..n : PageOf(pages[i], s, o[i - 1], o[i])
  BY <1>2, <1>4 DEF Paged
<1>. HIDE DEF n, N
<1>. DEFINE p == [i \in 0..n |-> a + o[i]]
<1>7. p \in [0..n -> a..b] /\ p[0] = a /\ p[n] = b
  <2>1. \A i \in 0..n : o[i] \in 0..(b - a)
    BY <1>6
  <2>2. \A x \in 0..(b - a) : a + x \in a..b
    OBVIOUS
  <2>3. 0 \in 0..n /\ n \in 0..n /\ a + 0 = a /\ a + (b - a) = b
    BY <1>5
  <2>4. QED
    BY <2>1, <2>2, <2>3, <1>6
<1>8. \A i \in 0..n : p[i] = a + o[i]
  OBVIOUS
<1>. HIDE DEF p
<1>9. ASSUME NEW i \in 1..n PROVE PageOf(pages[i], q, p[i - 1], p[i])
  <2>. DEFINE c == o[i - 1]
              d == o[i]
  <2>1. i \in 0..n /\ i - 1 \in 0..n
    BY <1>5
  <2>2. c \in 0..(b - a) /\ d \in 0..(b - a) /\ PageOf(pages[i], s, c, d)
    BY <2>1, <1>6
  <2>3. p[i - 1] = a + c /\ p[i] = a + d
    BY <2>1, <1>8
  <2>. HIDE DEF c, d
  <2>4. c < d /\ c + 1 \in 1..(b - a) /\ d \in 1..(b - a)
    BY <2>2 DEF PageOf
  <2>5. s[c + 1] = q[a + (c + 1)] /\ s[d] = q[a + d] /\ a + (c + 1) = (a + c) + 1
    BY <2>2, <2>4, <1>2
  <2>6. Piece(s, c, d) = Piece(q, a + c, a + d)
    <3>1. /\ d - c = (a + d) - (a + c)
          /\ \A k \in 1..(d - c) : c + k \in 1..(b - a) /\ a + (c + k) = (a + c) + k
      BY <2>2, <2>4
    <3>2. \A k \in 1..(d - c) : s[c + k] = q[(a + c) + k]
      BY <3>1, <1>2
    <3>3. QED
      BY <3>1, <3>2 DEF Piece
  <2>7. a + c < a + d
    BY <2>2, <2>4
  <2>8. PageOf(pages[i], q, a + c, a + d)
    BY <2>2, <2>5, <2>6, <2>7 DEF PageOf
  <2>9. QED
    BY <2>3, <2>8
<1>10. Paged(pages, q, a, b)
  BY <1>5, <1>7, <1>9 DEF Paged, n
<1>11. QED
  BY <1>10 DEF pages, s

LEMMA PagesJoin ==
  ASSUME NEW q, NEW a \in Nat, NEW b \in Nat, NEW c \in Nat, a <= b, b <= c,
         NEW x, NEW y, Paged(x, q, a, b), Paged(y, q, b, c)
  PROVE  Paged(x \o y, q, a, c)
<1>. DEFINE m == Len(x)
            n == Len(y)
            z == x \o y
<1>1. x \in Seq(CaptionPage) /\ y \in Seq(CaptionPage) /\ m \in Nat /\ n \in Nat
  BY DEF Paged
<1>2. PICK o \in [0..m -> a..b] :
        o[0] = a /\ o[m] = b /\ \A i \in 1..m : PageOf(x[i], q, o[i - 1], o[i])
  BY DEF Paged
<1>3. PICK p \in [0..n -> b..c] :
        p[0] = b /\ p[n] = c /\ \A i \in 1..n : PageOf(y[i], q, p[i - 1], p[i])
  BY DEF Paged
<1>4. /\ z \in Seq(CaptionPage) /\ Len(z) = m + n
      /\ \A i \in 1..m : z[i] = x[i]
      /\ \A i \in (m + 1)..(m + n) : z[i] = y[i - m]
  BY <1>1
<1>. HIDE DEF m, n, z
<1>. DEFINE r == [i \in 0..(m + n) |-> IF i <= m THEN o[i] ELSE p[i - m]]
<1>5. /\ \A i \in 0..m : r[i] = o[i]
      /\ \A i \in m..(m + n) : r[i] = p[i - m] /\ i - m \in 0..n
  <2>1. \A i \in 0..m : i \in 0..(m + n) /\ i <= m
    BY <1>1
  <2>2. \A i \in m..(m + n) : i \in 0..(m + n) /\ (i <= m => i = m) /\ i - m \in 0..n
    BY <1>1
  <2>3. o[m] = p[0] /\ m - m = 0
    BY <1>1, <1>2, <1>3
  <2>4. QED
    BY <2>1, <2>2, <2>3
<1>6. r \in [0..(m + n) -> a..c]
  <2>1. ASSUME NEW i \in 0..(m + n) PROVE (IF i <= m THEN o[i] ELSE p[i - m]) \in a..c
    <3>1. a..b \subseteq a..c /\ b..c \subseteq a..c
      OBVIOUS
    <3>2. CASE i <= m
      <4>1. i \in 0..m
        BY <3>2, <1>1
      <4>2. QED
        BY <3>1, <3>2, <4>1, <1>2
    <3>3. CASE ~ (i <= m)
      <4>1. i - m \in 0..n
        BY <3>3, <1>1
      <4>2. QED
        BY <3>1, <3>3, <4>1, <1>3
    <3>4. QED
      BY <3>2, <3>3
  <2>2. QED
    BY <2>1
<1>. HIDE DEF r
<1>7. r[0] = a /\ r[m + n] = c
  <2>1. 0 \in 0..m /\ m + n \in m..(m + n) /\ (m + n) - m = n
    BY <1>1
  <2>2. QED
    BY <2>1, <1>2, <1>3, <1>5
<1>8. ASSUME NEW i \in 1..(m + n) PROVE PageOf(z[i], q, r[i - 1], r[i])
  <2>1. CASE i <= m
    <3>1. i \in 1..m /\ i \in 0..m /\ i - 1 \in 0..m
      BY <2>1, <1>1
    <3>2. QED
      BY <3>1, <1>2, <1>4, <1>5
  <2>2. CASE ~ (i <= m)
    <3>1. /\ i \in (m + 1)..(m + n) /\ i \in m..(m + n) /\ i - 1 \in m..(m + n)
          /\ i - m \in 1..n /\ (i - 1) - m = (i - m) - 1
      BY <2>2, <1>1
    <3>. DEFINE j == i - m
    <3>2. z[i] = y[j] /\ r[i] = p[j] /\ r[i - 1] = p[j - 1]
      BY <3>1, <1>4, <1>5
    <3>3. j \in 1..n
      BY <3>1
    <3>. HIDE DEF j
    <3>4. QED
      BY <3>2, <3>3, <1>3
  <2>3. QED
    BY <2>1, <2>2
<1>9. Paged(z, q, a, c)
  BY <1>4, <1>6, <1>7, <1>8 DEF Paged
<1>10. QED
  BY <1>9 DEF z

-----------------------------------------------------------------------------
(* The captions of the film, and the theorem *)

\* The pages of all scenes are pages of the words.
LEMMA AllPages ==
  ASSUME NEW q \in Seq(Word), Ordered(q), NEW lengths \in Seq(Nat), lengths # <<>>, NEW parts,
         Laid(q, lengths, parts)
  PROVE  Paged(FlattenSeq([i \in DOMAIN parts |-> PageWords(parts[i])]), q, 0, Len(q))
<1>. DEFINE n == Len(lengths)
            N == Len(q)
            s == [i \in DOMAIN parts |-> PageWords(parts[i])]
            Up(h, k) == h = [i \in 1..k |-> IF i = 1 THEN s[i] ELSE h[i - 1] \o s[i]]
<1>1. n \in Nat \ {0} /\ N \in Nat
  OBVIOUS
<1>. HIDE DEF n, N
<1>2. /\ parts \in [1..n -> Seq(Word)]
      /\ \E o \in [0..n -> 0..N] :
           /\ o[0] = 0 /\ o[n] = N
           /\ \A i \in 1..n : o[i - 1] <= o[i] /\ parts[i] = Piece(q, o[i - 1], o[i])
  BY DEF Laid, n, N
<1>3. PICK o \in [0..n -> 0..N] :
           /\ o[0] = 0 /\ o[n] = N
           /\ \A i \in 1..n : o[i - 1] <= o[i] /\ parts[i] = Piece(q, o[i - 1], o[i])
  BY <1>2
<1>4. s = [i \in 1..n |-> PageWords(parts[i])]
  BY <1>2
<1>5. Len(s) = n
  BY <1>1, <1>4
<1>6. ASSUME NEW i \in 1..n
      PROVE  /\ o[i - 1] \in Nat /\ o[i] \in Nat /\ o[i - 1] <= o[i]
             /\ Paged(s[i], q, o[i - 1], o[i])
  <2>1. i \in 0..n /\ i - 1 \in 0..n
    BY <1>1
  <2>2. o[i - 1] \in 0..N /\ o[i] \in 0..N
    BY <2>1, <1>3
  <2>3. o[i - 1] \in Nat /\ o[i] \in Nat /\ o[i - 1] <= o[i] /\ o[i] <= Len(q)
    BY <2>2, <1>1, <1>3 DEF N
  <2>4. s[i] = PageWords(Piece(q, o[i - 1], o[i]))
    BY <1>3, <1>4
  <2>5. Paged(PageWords(Piece(q, o[i - 1], o[i])), q, o[i - 1], o[i])
    BY <2>3, PagesOfPart
  <2>6. QED
    BY <2>3, <2>4, <2>5
<1>. HIDE DEF s
<1>. DEFINE Good(h, k) == Up(h, k) /\ \A i \in 1..k : Paged(h[i], q, 0, o[i])
            T == {k \in 0..n : \E h : Good(h, k)}
<1>7. 0 \in T
  <2>1. Good(<<>>, 0)
    OBVIOUS
  <2>2. 0 \in 0..n
    BY <1>1
  <2>. HIDE DEF Good
  <2>3. QED
    BY <2>1, <2>2
<1>8. ASSUME NEW k \in 0..n, k < n, k \in T PROVE k + 1 \in T
  <2>1. PICK h : Good(h, k)
    BY <1>8
  <2>. DEFINE m == k + 1
              new == IF m = 1 THEN s[m] ELSE h[k] \o s[m]
              g == [i \in 1..m |-> IF i = m THEN new ELSE h[i]]
  <2>2. m \in 1..n /\ m \in 0..n /\ m - 1 = k /\ k \in Nat /\ (m # 1 => k \in 1..k /\ k \in 1..m)
    BY <1>1, <1>8
  <2>3. Paged(new, q, 0, o[m])
    <3>1. /\ o[k] \in Nat /\ o[m] \in Nat /\ o[k] <= o[m]
          /\ Paged(s[m], q, o[k], o[m])
      BY <2>2, <1>6
    <3>2. CASE m = 1
      <4>1. o[k] = 0
        BY <2>2, <3>2, <1>3
      <4>2. QED
        BY <3>1, <3>2, <4>1
    <3>3. CASE m # 1
      <4>1. Paged(h[k], q, 0, o[k])
        BY <2>1, <2>2, <3>3
      <4>2. 0 \in Nat /\ 0 <= o[k]
        BY <3>1
      <4>3. Paged(h[k] \o s[m], q, 0, o[m])
        BY <3>1, <4>1, <4>2, PagesJoin
      <4>4. QED
        BY <3>3, <4>3
    <3>4. QED
      BY <3>2, <3>3
  <2>4. /\ g[m] = new
        /\ \A i \in 1..k : g[i] = h[i] /\ i # m /\ i \in 1..m
        /\ \A i \in 1..m : i = m \/ i \in 1..k
    <3>1. m \in 1..m /\ \A i \in 1..k : i # m /\ i \in 1..m
      BY <2>2
    <3>2. \A i \in 1..m : i = m \/ i \in 1..k
      BY <2>2
    <3>. HIDE DEF new, m
    <3>3. QED
      BY <3>1, <3>2
  <2>5. ASSUME NEW i \in 1..m PROVE g[i] = IF i = 1 THEN s[i] ELSE g[i - 1] \o s[i]
    <3>1. CASE i = m
      <4>1. g[i] = IF i = 1 THEN s[i] ELSE h[k] \o s[i]
        BY <3>1, <2>4
      <4>2. i # 1 => g[i - 1] = h[k]
        <5>1. i - 1 = k /\ (i # 1 => k \in 1..k)
          BY <3>1, <2>2
        <5>. HIDE DEF g
        <5>2. QED
          BY <5>1, <2>4
      <4>. HIDE DEF g
      <4>3. QED
        BY <4>1, <4>2
    <3>2. CASE i # m
      <4>1. i \in 1..k /\ (i # 1 => i - 1 \in 1..k)
        BY <3>2, <2>2
      <4>2. h[i] = IF i = 1 THEN s[i] ELSE h[i - 1] \o s[i]
        BY <4>1, <2>1
      <4>. HIDE DEF g
      <4>3. g[i] = h[i] /\ (i # 1 => g[i - 1] = h[i - 1])
        BY <4>1, <2>4
      <4>4. QED
        BY <4>2, <4>3
    <3>3. QED
      BY <3>1, <3>2
  <2>6. g = [i \in 1..m |-> g[i]]
    OBVIOUS
  <2>. HIDE DEF g, new
  <2>7. Up(g, m)
    BY <2>5, <2>6
  <2>8. ASSUME NEW i \in 1..m PROVE Paged(g[i], q, 0, o[i])
    <3>1. CASE i = m
      BY <3>1, <2>3, <2>4
    <3>2. CASE i \in 1..k
      <4>1. Paged(h[i], q, 0, o[i])
        BY <3>2, <2>1
      <4>2. QED
        BY <3>2, <4>1, <2>4
    <3>3. QED
      BY <3>1, <3>2, <2>4
  <2>9. Good(g, m)
    BY <2>7, <2>8
  <2>. HIDE DEF Good
  <2>10. QED
    BY <2>2, <2>9
<1>9. n \in T
  <2>. HIDE DEF T
  <2>1. \A k \in 0..n : k \in T
    BY <1>1, <1>7, <1>8, UpTo
  <2>2. QED
    BY <2>1, <1>1
<1>10. PICK h : Good(h, n)
  <2>. HIDE DEF Good
  <2>1. QED
    BY <1>9
<1>11. h = [i \in 1..n |-> IF i = 1 THEN s[i] ELSE h[i - 1] \o s[i]] /\ Paged(h[n], q, 0, N)
  <2>1. n \in 1..n
    BY <1>1
  <2>2. Paged(h[n], q, 0, o[n])
    BY <2>1, <1>10
  <2>3. QED
    BY <2>2, <1>3, <1>10
<1>12. FlattenSeq(s) = h[n]
  BY <1>1, <1>5, <1>11, FlattenIs
<1>13. Paged(FlattenSeq(s), q, 0, N)
  BY <1>11, <1>12
<1>14. QED
  BY <1>13 DEF s, N

\* The captions: each word that takes time is seen while it is spoken, on one page that
\* holds it and fits.
LEMMA CaptionsFollow == ASSUME TimingInv, at = "film" PROVE WordsAreSeen
<1>. DEFINE all == FlattenSeq([i \in DOMAIN scenes.parts |-> PageWords(scenes.parts[i])])
            pages == Pages
            n == Len(all)
            N == Len(words)
<1>1. /\ words \in Seq(Word) /\ Ordered(words) /\ N \in Nat
      /\ Paged(all, words, 0, N)
  BY AllPages DEF TimingInv, ScenesLaid
<1>2. pages = [i \in DOMAIN all |->
                 IF i < Len(all) /\ all[i + 1].start < all[i].end
                 THEN [all[i] EXCEPT !.end = Max({all[i].start, all[i + 1].start})] ELSE all[i]]
  BY DEF Pages
<1>. HIDE DEF all, pages
<1>3. all \in Seq(CaptionPage) /\ n \in Nat /\ DOMAIN all = 1..n
  BY <1>1 DEF Paged
<1>4. PICK o \in [0..n -> 0..N] :
        /\ o[0] = 0 /\ o[n] = N
        /\ \A i \in 1..n : PageOf(all[i], words, o[i - 1], o[i])
  BY <1>1 DEF Paged
<1>5. pages = [i \in 1..n |->
                 IF i < n /\ all[i + 1].start < all[i].end
                 THEN [all[i] EXCEPT !.end = Max({all[i].start, all[i + 1].start})] ELSE all[i]]
  BY <1>2, <1>3
<1>6. ASSUME NEW i \in 1..n PROVE all[i] \in CaptionPage
  BY <1>3
<1>. HIDE DEF n, N
<1>7. ASSUME NEW i \in 1..n
      PROVE  /\ o[i - 1] \in Nat /\ o[i] \in Nat /\ o[i - 1] < o[i]
             /\ o[i - 1] + 1 \in 1..N /\ o[i] \in 1..N
             /\ all[i].words = Piece(words, o[i - 1], o[i]) /\ Fits(all[i].words)
             /\ all[i].start = words[o[i - 1] + 1].start /\ words[o[i]].end <= all[i].end
  <2>1. i \in 0..n /\ i - 1 \in 0..n
    BY <1>3
  <2>2. o[i] \in 0..N /\ o[i - 1] \in 0..N
    BY <2>1, <1>4
  <2>3. /\ o[i - 1] < o[i] /\ all[i].words = Piece(words, o[i - 1], o[i])
        /\ all[i].start = words[o[i - 1] + 1].start /\ words[o[i]].end <= all[i].end
        /\ Fits(all[i].words)
    BY <1>4 DEF PageOf
  <2>4. o[i - 1] \in Nat /\ o[i] \in Nat /\ o[i - 1] + 1 \in 1..N /\ o[i] \in 1..N
    BY <2>2, <2>3, <1>1
  <2>5. QED
    BY <2>3, <2>4
<1>8. \A j \in 0..n : \A i \in 0..j : o[i] <= o[j]
  <2>1. o \in [0..n -> Nat]
    BY <1>1, <1>4
  <2>2. \A i \in 1..n : o[i - 1] <= o[i]
    BY <1>7
  <2>3. QED
    BY <2>1, <2>2, <1>3, StepsGrow
<1>9. \A k \in 1..N : /\ words[k].start \in Nat /\ words[k].end \in Nat
                      /\ words[k].start <= words[k].end
                      /\ \A j \in 1..N : j < k => words[j].end <= words[k].start /\ words[j].end <= words[k].end
  BY <1>1, WordTimes DEF N
\* A page is seen till its last word has ended, and no longer than the next one begins.
<1>10. ASSUME NEW i \in 1..n
       PROVE  /\ pages[i].words = all[i].words /\ pages[i].start = all[i].start
              /\ pages[i].start \in Nat /\ pages[i].end \in Nat
              /\ words[o[i]].end <= pages[i].end
              /\ i < n => i + 1 \in 1..n /\ pages[i].end <= all[i + 1].start
  <2>1. all[i].start \in Nat /\ all[i].end \in Nat
    BY <1>6 DEF CaptionPage
  <2>2. words[o[i]].end <= all[i].end
    BY <1>7
  <2>3. CASE i < n
    <3>. DEFINE x == all[i].start
                y == all[i + 1].start
    <3>1. i + 1 \in 1..n /\ (i + 1) - 1 = i
      BY <2>3, <1>3
    <3>2. y = words[o[i] + 1].start /\ o[i] + 1 \in 1..N /\ o[i] < o[i] + 1
      BY <3>1, <1>7
    <3>3. words[o[i]].end <= y /\ y \in Nat
      BY <3>2, <1>7, <1>9
    <3>4. x <= words[o[i]].end /\ words[o[i]].end \in Nat
      <4>1. x = words[o[i - 1] + 1].start /\ o[i - 1] + 1 \in 1..N /\ o[i] \in 1..N
        BY <1>7
      <4>2. words[o[i - 1] + 1].start <= words[o[i - 1] + 1].end
            /\ words[o[i - 1] + 1].start \in Nat /\ words[o[i - 1] + 1].end \in Nat
            /\ words[o[i]].end \in Nat
        BY <4>1, <1>9
      <4>3. words[o[i - 1] + 1].end <= words[o[i]].end
        <5>1. o[i - 1] + 1 = o[i] \/ o[i - 1] + 1 < o[i]
          BY <1>7
        <5>2. CASE o[i - 1] + 1 = o[i]
          BY <5>2, <4>2
        <5>3. CASE o[i - 1] + 1 < o[i]
          BY <5>3, <4>1, <1>9
        <5>4. QED
          BY <5>1, <5>2, <5>3
      <4>4. QED
        BY <4>1, <4>2, <4>3
    <3>5. Max({x, y}) = y
      <4>. HIDE DEF x, y
      <4>1. x \in Int /\ y \in Int /\ x <= y
        BY <2>1, <3>3, <3>4 DEF x
      <4>2. QED
        BY <4>1, MaxOfTwo
    <3>6. CASE y < all[i].end
      <4>1. pages[i] = [all[i] EXCEPT !.end = y]
        BY <1>5, <2>3, <3>5, <3>6
      <4>2. pages[i].words = all[i].words /\ pages[i].start = all[i].start /\ pages[i].end = y
        BY <4>1, <1>6 DEF CaptionPage
      <4>3. QED
        BY <4>2, <2>1, <3>1, <3>3
    <3>7. CASE ~ (y < all[i].end)
      <4>1. pages[i] = all[i]
        BY <1>5, <3>7
      <4>2. QED
        BY <4>1, <2>1, <2>2, <3>1, <3>3, <3>7
    <3>8. QED
      BY <3>6, <3>7
  <2>4. CASE ~ (i < n)
    <3>1. pages[i] = all[i]
      BY <1>5, <2>4
    <3>2. QED
      BY <3>1, <2>1, <2>2, <2>4
  <2>5. QED
    BY <2>3, <2>4
<1>11. DOMAIN pages = 1..n
  BY <1>5
<1>. HIDE DEF pages
<1>12. ASSUME NEW k \in 1..N, NEW t \in words[k].start..(words[k].end - 1)
       PROVE  \E i \in DOMAIN pages :
                /\ {j \in DOMAIN pages : pages[j].start <= t /\ t < pages[j].end} = {i}
                /\ \E m \in DOMAIN pages[i].words : pages[i].words[m] = words[k]
  <2>. DEFINE over == {i \in 0..n : k <= o[i]}
  <2>1. k \in Nat /\ k >= 1 /\ k <= N /\ t \in Nat /\ words[k].start <= t /\ t < words[k].end
    <3>1. words[k].start \in Nat /\ words[k].end \in Nat
      BY <1>9
    <3>2. QED
      BY <3>1, <1>1
  <2>2. over \in SUBSET Nat /\ n \in over
    BY <2>1, <1>1, <1>3, <1>4
  <2>3. PICK i \in over : \A j \in over : i <= j
    <3>. HIDE DEF over
    <3>1. QED
      BY <2>2, LeastOf
  <2>4. i \in 1..n
    <3>1. i # 0
      BY <2>1, <1>4
    <3>2. QED
      BY <3>1, <1>3
  <2>5. k <= o[i]
    BY <2>3
  <2>6. o[i - 1] < k
    <3>1. i - 1 \in 0..n /\ ~ (i <= i - 1)
      BY <2>4, <1>3
    <3>2. ~ (k <= o[i - 1])
      BY <3>1, <2>3
    <3>3. o[i - 1] \in Nat
      BY <2>4, <1>7
    <3>4. QED
      BY <3>2, <3>3, <2>1
  <2>. HIDE DEF over
  <2>7. pages[i].start <= t
    <3>1. pages[i].start = words[o[i - 1] + 1].start /\ o[i - 1] + 1 \in 1..N /\ o[i - 1] \in Nat
      BY <2>4, <1>7, <1>10
    <3>2. CASE o[i - 1] + 1 = k
      BY <3>1, <3>2, <2>1
    <3>3. CASE o[i - 1] + 1 # k
      <4>. DEFINE a == o[i - 1] + 1
      <4>1. a \in 1..N /\ a < k /\ pages[i].start = words[a].start
        BY <3>1, <3>3, <2>1, <2>6
      <4>. HIDE DEF a
      <4>2. /\ words[a].start <= words[a].end /\ words[a].end <= words[k].start
            /\ words[a].start \in Nat /\ words[a].end \in Nat /\ words[k].start \in Nat
        BY <4>1, <1>9
      <4>3. QED
        BY <4>1, <4>2, <2>1
    <3>4. QED
      BY <3>2, <3>3
  <2>8. t < words[o[i]].end /\ words[o[i]].end \in Nat /\ o[i] \in 1..N
    <3>. DEFINE b == o[i]
    <3>1. b \in 1..N /\ k <= b
      BY <2>4, <2>5, <1>7
    <3>. HIDE DEF b
    <3>2. words[b].end \in Nat /\ words[k].end \in Nat
      BY <3>1, <1>9
    <3>3. CASE k = b
      BY <3>1, <3>2, <3>3, <2>1 DEF b
    <3>4. CASE k # b
      <4>1. k < b
        BY <3>1, <3>4, <2>1, <1>1
      <4>2. words[k].end <= words[b].end
        BY <3>1, <4>1, <1>9
      <4>3. QED
        BY <3>1, <3>2, <4>2, <2>1 DEF b
    <3>5. QED
      BY <3>3, <3>4
  <2>9. t < pages[i].end
    BY <2>1, <2>4, <2>8, <1>10
\* An earlier page has gone.
  <2>10. ASSUME NEW j \in 1..n, j < i PROVE ~ (t < pages[j].end)
    <3>1. /\ j \in Nat /\ i \in Nat /\ j < n /\ j + 1 \in 1..n /\ (j + 1) - 1 = j
          /\ j \in 0..(i - 1) /\ i - 1 \in 0..n
      BY <2>4, <2>10, <1>3
    <3>2. pages[j].end <= all[j + 1].start /\ pages[j].end \in Nat
      BY <3>1, <1>10
    <3>. DEFINE c == o[j] + 1
                a == o[i - 1] + 1
    <3>3. all[j + 1].start = words[c].start /\ c \in 1..N /\ pages[i].start = words[a].start /\ a \in 1..N
      BY <3>1, <2>4, <1>7, <1>10
    <3>4. c <= a
      <4>1. o[j] <= o[i - 1] /\ o[j] \in Nat /\ o[i - 1] \in Nat
        BY <3>1, <2>4, <1>7, <1>8
      <4>2. QED
        BY <4>1
    <3>. HIDE DEF c, a
    <3>5. words[c].start <= words[a].start /\ words[c].start \in Nat /\ words[a].start \in Nat
      <4>1. words[c].start \in Nat /\ words[a].start \in Nat /\ words[c].end \in Nat /\ words[c].start <= words[c].end
        BY <3>3, <1>9
      <4>2. CASE c = a
        BY <4>1, <4>2
      <4>3. CASE c # a
        <5>1. c < a
          BY <3>3, <3>4, <4>3, <1>1
        <5>2. words[c].end <= words[a].start
          BY <3>3, <5>1, <1>9
        <5>3. QED
          BY <4>1, <5>2
      <4>4. QED
        BY <4>2, <4>3
    <3>6. QED
      BY <3>2, <3>3, <3>5, <2>1, <2>7
\* A later page is still to come.
  <2>11. ASSUME NEW j \in 1..n, i < j PROVE ~ (pages[j].start <= t)
    <3>1. j - 1 \in 0..n /\ i \in 0..(j - 1)
      BY <2>4, <2>11, <1>3
    <3>. DEFINE c == o[j - 1] + 1
                b == o[i]
    <3>2. pages[j].start = words[c].start /\ c \in 1..N /\ o[j - 1] \in Nat
      BY <1>7, <1>10
    <3>3. b < c /\ b \in 1..N
      <4>1. o[i] <= o[j - 1] /\ o[i] \in Nat
        BY <3>1, <2>4, <1>7, <1>8
      <4>2. QED
        BY <4>1, <3>2, <2>8
    <3>. HIDE DEF b, c
    <3>4. words[b].end <= words[c].start /\ words[c].start \in Nat /\ words[b].end \in Nat
      BY <3>2, <3>3, <1>9
    <3>5. t < words[b].end
      BY <2>8 DEF b
    <3>6. QED
      BY <3>2, <3>4, <3>5, <2>1
  <2>12. {j \in DOMAIN pages : pages[j].start <= t /\ t < pages[j].end} = {i}
    <3>1. \A j \in 1..n : j = i \/ j < i \/ i < j
      BY <2>4, <1>3
    <3>2. \A j \in 1..n : pages[j].start <= t /\ t < pages[j].end => j = i
      BY <3>1, <2>10, <2>11
    <3>3. QED
      BY <3>2, <2>4, <2>7, <2>9, <1>11
  <2>13. \E m \in DOMAIN pages[i].words : pages[i].words[m] = words[k]
    <3>. DEFINE a == o[i - 1]
                b == o[i]
                m == k - a
    <3>1. pages[i].words = Piece(words, a, b) /\ a \in Nat /\ b \in Nat
      BY <2>4, <1>7, <1>10
    <3>2. m \in 1..(b - a) /\ a + m = k
      <4>1. a < k /\ k <= b
        BY <2>5, <2>6
      <4>. HIDE DEF a, b
      <4>2. QED
        BY <4>1, <3>1, <2>1
    <3>. HIDE DEF a, b, m
    <3>3. m \in DOMAIN Piece(words, a, b) /\ Piece(words, a, b)[m] = words[k]
      BY <3>2 DEF Piece
    <3>4. QED
      BY <3>1, <3>3
  <2>14. QED
    BY <2>4, <2>12, <2>13, <1>11
<1>13. ASSUME NEW i \in DOMAIN pages, Len(pages[i].words) > 1
       PROVE  Width(pages[i].words) <= MaxChars /\ Len(WrapWords(pages[i].words)) <= MaxLines
  <2>1. Fits(pages[i].words)
    BY <1>7, <1>10, <1>11
  <2>2. QED
    BY <2>1, <1>13 DEF Fits
<1>14. DOMAIN words = 1..N
  BY <1>1 DEF N
<1>15. QED
  BY <1>12, <1>13, <1>14 DEF WordsAreSeen, pages

\* The video follows the voice, for every voice and script: every word that takes time is on
\* the one caption page seen while it is spoken, and that page fits; no word is lost or shown
\* twice between the scenes, and each is in the scene that runs at its middle; the film is as
\* long as the voice and its tail within the roundings, and transitions take no time; texts
\* take turns, but for titles that leave under a transition or as the CTA card comes
\* (asset_gen.py, Reel.tsx, timing.ts, captions.ts).
THEOREM VideoFollows == TimingSpec => []VideoFollowsVoice
<1>1. TimingInv => VideoFollowsVoice
  BY CaptionsFollow, ScenesKeepTheirWords, FilmIsAsLong, TextsWait DEF VideoFollowsVoice
<1>2. QED
  BY <1>1, TimingInvariant, PTL

=============================================================================
