-------------------------- MODULE UsageLedgerProofs --------------------------
(***************************************************************************)
(* What UsageLedger keeps, for every recording, limit, drift, rate of      *)
(* samples and number of sessions.                                         *)
(*                                                                         *)
(* Rounding: Math.round is within half a millisecond of what it rounds,    *)
(* and leaves whole milliseconds alone (WholeNear, WholeShift).            *)
(*                                                                         *)
(* One settlement: the pieces of an overlapped stretch and what moves into *)
(* the new one are its money to half a millisecond, and exactly where it   *)
(* has no left piece (PiecesHold). Stretches lie apart, so one of them at  *)
(* most has a left piece (SlipOnce); with the rounding of the new stretch  *)
(* the row is off by a millisecond at most (KeptHolds), which RowHolds     *)
(* counts in `cuts`. Right pieces may go below zero, so RowHolds also      *)
(* bounds the row without them (Raised), which is what can be drawn on.    *)
(*                                                                         *)
(* One call: what its claim and the coverage come to (StepFacts), and that *)
(* an operation stays within what its claim says was billed (Payments).    *)
(*                                                                         *)
(* The audio: what the stretches hold within their lengths (Held) fits in  *)
(* the recording (HeldFits) and falls behind what is charged by the drift  *)
(* and a millisecond at most for each call metered (SettlePays, PaidStep). *)
(* Calls are counted by Spare, of which StepKinds says how it moves.       *)
(*                                                                         *)
(* What is free: a credit lets pass no more than the row holds, with the   *)
(* tolerance (SettleSpends), or than the claim says (StepFree), and a      *)
(* claim says no more than what was paid, with the tolerance               *)
(* (BilledBacked).                                                         *)
(***************************************************************************)
EXTENDS UsageLedger, SetSums, TLAPS

-----------------------------------------------------------------------------
(* The sums of the model                                                     *)

MsOf == [g \in Segment |-> g.ms]
InsideOf(lo, hi) == [g \in Segment |-> Inside(g, lo, hi)]
MovedOf(lo, hi) == [g \in Segment |-> Moved(g, lo, hi)]

LEMMA InsideIsInt ==
    ASSUME NEW lo \in Nat, NEW hi \in Nat
    PROVE  /\ MsOf \in [Segment -> Int]
           /\ InsideOf(lo, hi) \in [Segment -> Int] /\ MovedOf(lo, hi) \in [Segment -> Int]
           /\ \A g \in Segment : /\ Overlap(g, lo, hi) \in Nat
                                 /\ Inside(g, lo, hi) \in Int /\ Inside(g, lo, hi) <= g.ms
                                 /\ Inside(g, lo, hi) <= Overlap(g, lo, hi)
                                 /\ Moved(g, lo, hi) \in Int /\ Inside(g, lo, hi) <= Moved(g, lo, hi)
                                 /\ Moved(g, lo, hi) <= g.ms
                                 /\ Inside(g, lo, hi) < 0 => g.ms < 0
<1>1. ASSUME NEW g \in Segment
      PROVE  /\ Overlap(g, lo, hi) \in Nat
             /\ Inside(g, lo, hi) \in Int /\ Inside(g, lo, hi) <= g.ms
             /\ Inside(g, lo, hi) <= Overlap(g, lo, hi)
             /\ Moved(g, lo, hi) \in Int /\ Inside(g, lo, hi) <= Moved(g, lo, hi)
             /\ Moved(g, lo, hi) <= g.ms
             /\ Inside(g, lo, hi) < 0 => g.ms < 0
  <2>1. g.s \in Nat /\ g.e \in Nat /\ g.ms \in Int
    BY DEF Segment
  <2>2. Overlap(g, lo, hi) \in Nat
    BY <2>1 DEF Overlap, Most, Least
  <2>3. Inside(g, lo, hi) \in Int /\ Inside(g, lo, hi) <= g.ms /\ Inside(g, lo, hi) <= Overlap(g, lo, hi)
    BY <2>1, <2>2 DEF Inside, Least
  <2>4. Inside(g, lo, hi) < 0 => g.ms < 0
    BY <2>1, <2>2 DEF Inside, Least
  <2>5. Moved(g, lo, hi) \in {g.ms, Inside(g, lo, hi)}
    BY DEF Moved
  <2> QED BY <2>1, <2>2, <2>3, <2>4, <2>5
<1>2. \A g \in Segment : g.ms \in Int
  BY DEF Segment
<1> QED BY <1>1, <1>2 DEF MsOf, InsideOf, MovedOf

LEMMA TotalIs ==
    ASSUME NEW S \in SUBSET Segment, IsFiniteSet(S)
    PROVE  Total(S) = Net(MsOf, S)
<1> DEFINE F == [g \in S |-> g.ms]
           P(iter) == iter = [s \in SUBSET S |->
                                 IF s = {} THEN 0
                                 ELSE LET x == CHOOSE x \in s : TRUE IN x.ms + iter[s \ {x}]]
<1>1. F \in [S -> Int] /\ \A g \in S : F[g] = MsOf[g]
  <2>1. \A g \in S : g \in Segment /\ g.ms \in Int
    BY DEF Segment
  <2> QED BY <2>1 DEF MsOf
<1>2. \A s \in SUBSET S : s # {} => F[CHOOSE x \in s : TRUE] = (CHOOSE x \in s : TRUE).ms
  <2> TAKE s \in SUBSET S
  <2> DEFINE x == CHOOSE x \in s : TRUE
  <2> HAVE s # {}
  <2>1. x \in S
    OBVIOUS
  <2> HIDE DEF x
  <2>2. F[x] = x.ms
    BY <2>1
  <2> QED BY <2>2 DEF x
<1> HIDE DEF F
<1>3. \A iter : Sums(F, S, iter) <=> P(iter)
  BY <1>2, ZenonT(60) DEF Sums
<1>4. \E iter : P(iter)
  <2> HIDE DEF P
  <2> QED BY <1>1, <1>3, NetSumExists
<1>5. Total(S) = (CHOOSE iter : P(iter))[S]
  BY DEF Total, MapThenSumSet, MapThenFoldSet
<1> HIDE DEF P
<1>6. Sums(F, S, CHOOSE iter : P(iter))
  BY <1>3, <1>4
<1>7. Total(S) = Net(F, S)
  BY <1>1, <1>5, <1>6, SumIsNet
<1> QED BY <1>1, <1>7, NetSame

LEMMA OfferedIs ==
    ASSUME NEW S \in SUBSET Segment, IsFiniteSet(S), NEW lo \in Nat, NEW hi \in Nat
    PROVE  Offered(S, lo, hi) = Net(InsideOf(lo, hi), S)
<1> DEFINE F == [g \in S |-> Inside(g, lo, hi)]
           G == InsideOf(lo, hi)
           P(iter) == iter = [s \in SUBSET S |->
                                 IF s = {} THEN 0
                                 ELSE LET x == CHOOSE x \in s : TRUE
                                      IN  Inside(x, lo, hi) + iter[s \ {x}]]
<1>1. F \in [S -> Int] /\ \A g \in S : F[g] = G[g]
  <2>1. \A g \in S : g \in Segment /\ Inside(g, lo, hi) \in Int
    BY InsideIsInt
  <2> QED BY <2>1 DEF InsideOf
<1>2. \A s \in SUBSET S : s # {} =>
          F[CHOOSE x \in s : TRUE] = Inside(CHOOSE x \in s : TRUE, lo, hi)
  <2> TAKE s \in SUBSET S
  <2> DEFINE x == CHOOSE x \in s : TRUE
  <2> HAVE s # {}
  <2>1. x \in S
    OBVIOUS
  <2> HIDE DEF x
  <2>2. F[x] = Inside(x, lo, hi)
    BY <2>1
  <2> QED BY <2>2 DEF x
<1> HIDE DEF F, G
<1>3. \A iter : Sums(F, S, iter) <=> P(iter)
  BY <1>2, ZenonT(60) DEF Sums
<1>4. \E iter : P(iter)
  <2> HIDE DEF P
  <2> QED BY <1>1, <1>3, NetSumExists
<1>5. Offered(S, lo, hi) = (CHOOSE iter : P(iter))[S]
  BY DEF Offered, MapThenSumSet, MapThenFoldSet
<1> HIDE DEF P
<1>6. Sums(F, S, CHOOSE iter : P(iter))
  BY <1>3, <1>4
<1>7. Offered(S, lo, hi) = Net(F, S)
  BY <1>1, <1>5, <1>6, SumIsNet
<1> QED BY <1>1, <1>7, NetSame DEF G

LEMMA CarriedIs ==
    ASSUME NEW S \in SUBSET Segment, IsFiniteSet(S), NEW lo \in Nat, NEW hi \in Nat
    PROVE  Carried(S, lo, hi) = Net(MovedOf(lo, hi), S)
<1> DEFINE F == [g \in S |-> Moved(g, lo, hi)]
           G == MovedOf(lo, hi)
           P(iter) == iter = [s \in SUBSET S |->
                                 IF s = {} THEN 0
                                 ELSE LET x == CHOOSE x \in s : TRUE
                                      IN  Moved(x, lo, hi) + iter[s \ {x}]]
<1>1. F \in [S -> Int] /\ \A g \in S : F[g] = G[g]
  <2>1. \A g \in S : g \in Segment /\ Moved(g, lo, hi) \in Int
    BY InsideIsInt
  <2> QED BY <2>1 DEF MovedOf
<1>2. \A s \in SUBSET S : s # {} =>
          F[CHOOSE x \in s : TRUE] = Moved(CHOOSE x \in s : TRUE, lo, hi)
  <2> TAKE s \in SUBSET S
  <2> DEFINE x == CHOOSE x \in s : TRUE
  <2> HAVE s # {}
  <2>1. x \in S
    OBVIOUS
  <2> HIDE DEF x
  <2>2. F[x] = Moved(x, lo, hi)
    BY <2>1
  <2> QED BY <2>2 DEF x
<1> HIDE DEF F, G
<1>3. \A iter : Sums(F, S, iter) <=> P(iter)
  BY <1>2, ZenonT(60) DEF Sums
<1>4. \E iter : P(iter)
  <2> HIDE DEF P
  <2> QED BY <1>1, <1>3, NetSumExists
<1>5. Carried(S, lo, hi) = (CHOOSE iter : P(iter))[S]
  BY DEF Carried, MapThenSumSet, MapThenFoldSet
<1> HIDE DEF P
<1>6. Sums(F, S, CHOOSE iter : P(iter))
  BY <1>3, <1>4
<1>7. Carried(S, lo, hi) = Net(F, S)
  BY <1>1, <1>5, <1>6, SumIsNet
<1> QED BY <1>1, <1>7, NetSame DEF G

-----------------------------------------------------------------------------
(* Rounding                                                                  *)

LEMMA Quotient ==
    ASSUME NEW a \in Int, NEW b \in Nat \ {0}
    PROVE  a \div b \in Int /\ b * (a \div b) <= a /\ a < b * (a \div b) + b
OBVIOUS

LEMMA RoundedNear ==
    ASSUME NEW a \in Int, NEW b \in Nat \ {0}
    PROVE  /\ Rounded(a, b) \in Int
           /\ 2 * (b * Rounded(a, b)) <= 2 * a + b
           /\ 2 * a < 2 * (b * Rounded(a, b)) + b
<1> DEFINE c == 2 * a + b
           d == 2 * b
           r == c \div d
<1>1. c \in Int /\ d \in Nat \ {0}
  OBVIOUS
<1>2. r \in Int /\ d * r <= c /\ c < d * r + d
  <2> HIDE DEF c, d
  <2> QED BY <1>1, Quotient
<1>3. Rounded(a, b) = r
  BY DEF Rounded
<1> HIDE DEF r
<1>4. d * r = 2 * (b * r)
  BY <1>2
<1> QED BY <1>2, <1>3, <1>4

\* To whole milliseconds, off by at most half of one.
LEMMA WholeNear ==
    ASSUME NEW x \in Int
    PROVE  /\ Ms(x) \in Int /\ Whole(x) = SamplesPerMs * Ms(x) /\ Whole(x) \in Int
           /\ 2 * Whole(x) <= 2 * x + SamplesPerMs /\ 2 * x < 2 * Whole(x) + SamplesPerMs
           /\ x >= 0 => Ms(x) \in Nat /\ Whole(x) \in Nat
<1>1. SamplesPerMs \in Nat \ {0}
  BY LimitsAssumption
<1> DEFINE r == Ms(x)
           w == SamplesPerMs * r
<1>2. r \in Int /\ 2 * w <= 2 * x + SamplesPerMs /\ 2 * x < 2 * w + SamplesPerMs
  BY <1>1, RoundedNear DEF Ms
<1>3. Whole(x) = w
  BY DEF Whole, Samples
<1>4. w \in Int
  BY <1>1, <1>2
<1>5. x >= 0 => r >= 0
  <2> SUFFICES ASSUME x >= 0, r <= -1 PROVE FALSE
    BY <1>2
  <2>1. w <= -SamplesPerMs
    <3> HIDE DEF r
    <3> QED BY <1>1, <1>2
  <2> HIDE DEF w
  <2> QED BY <1>1, <1>2, <1>4, <2>1
<1>6. r >= 0 => w >= 0
  <2> HIDE DEF r
  <2> QED BY <1>1, <1>2
<1> HIDE DEF w
<1> QED BY <1>2, <1>3, <1>4, <1>5, <1>6 DEF w

\* What lies a whole number of milliseconds further is rounded as much further.
LEMMA WholeShift ==
    ASSUME NEW x \in Int, NEW n \in Int
    PROVE  /\ Samples(n) \in Int
           /\ Whole(Samples(n) + x) = Samples(n) + Whole(x)
           /\ Ms(Samples(n) + x) = n + Ms(x)
<1> DEFINE y == Samples(n) + x
           p == Ms(x)
           q == Ms(y)
           u == SamplesPerMs
<1>1. u \in Nat \ {0} /\ Samples(n) = u * n /\ Samples(n) \in Int /\ y \in Int
  BY LimitsAssumption DEF Samples
<1>2. /\ p \in Int /\ 2 * (u * p) <= 2 * x + u /\ 2 * x < 2 * (u * p) + u
      /\ q \in Int /\ 2 * (u * q) <= 2 * y + u /\ 2 * y < 2 * (u * q) + u
  BY <1>1, WholeNear
<1>3. Whole(x) = u * p /\ Whole(y) = u * q
  BY <1>1, WholeNear
<1>4. y = u * n + x
  BY <1>1
<1> HIDE DEF u, p, q, y
<1>5. q <= n + p
  <2> SUFFICES ASSUME q >= n + p + 1 PROVE FALSE
    BY <1>2
  <2>1. u * q >= u * (n + p + 1)
    BY <1>1, <1>2
  <2>2. u * (n + p + 1) = u * n + u * p + u
    BY <1>1, <1>2
  <2>3. u * q \in Int /\ u * n \in Int /\ u * p \in Int
    BY <1>1, <1>2
  <2> HIDE <1>3
  <2> QED BY <1>1, <1>2, <1>4, <2>1, <2>2, <2>3
<1>6. n + p <= q
  <2> SUFFICES ASSUME q + 1 <= n + p PROVE FALSE
    BY <1>2
  <2>1. u * (q + 1) <= u * (n + p)
    BY <1>1, <1>2
  <2>2. u * (n + p) = u * n + u * p /\ u * (q + 1) = u * q + u
    BY <1>1, <1>2
  <2>3. u * q \in Int /\ u * n \in Int /\ u * p \in Int
    BY <1>1, <1>2
  <2> QED BY <1>1, <1>2, <1>4, <2>1, <2>2, <2>3
<1>7. q = n + p
  BY <1>2, <1>5, <1>6
<1>8. u * q = u * n + u * p
  BY <1>1, <1>2, <1>7
<1> QED BY <1>1, <1>3, <1>7, <1>8 DEF y, p, q

LEMMA WholeOfWhole ==
    ASSUME NEW n \in Int
    PROVE  Samples(n) \in Int /\ Ms(Samples(n)) = n /\ Whole(Samples(n)) = Samples(n)
<1>1. Ms(0) = 0 /\ Whole(0) = 0
  <2> DEFINE r == Ms(0)
  <2>1. SamplesPerMs \in Nat \ {0}
    BY LimitsAssumption
  <2>2. /\ r \in Int /\ Whole(0) = SamplesPerMs * r /\ 2 * (SamplesPerMs * r) <= SamplesPerMs
        /\ 0 < 2 * (SamplesPerMs * r) + SamplesPerMs
    BY <2>1, WholeNear
  <2> HIDE DEF r
  <2>3. r < 1
    <3> SUFFICES ASSUME r >= 1 PROVE FALSE
      BY <2>2
    <3>1. SamplesPerMs * r >= SamplesPerMs
      BY <2>1, <2>2
    <3> QED BY <2>1, <2>2, <3>1
  <2>4. r > -1
    <3> SUFFICES ASSUME r <= -1 PROVE FALSE
      BY <2>2
    <3>1. SamplesPerMs * r <= -SamplesPerMs
      BY <2>1, <2>2
    <3> QED BY <2>1, <2>2, <3>1
  <2>5. r = 0
    BY <2>2, <2>3, <2>4
  <2> QED BY <2>1, <2>2, <2>5 DEF r
<1>2. Samples(n) + 0 = Samples(n) /\ Samples(n) \in Int
  BY WholeShift
<1> QED BY <1>1, <1>2, WholeShift

LEMMA WholeMore ==
    ASSUME NEW x \in Int, NEW y \in Int, x <= y
    PROVE  Ms(x) <= Ms(y) /\ Whole(x) <= Whole(y)
<1> DEFINE p == Ms(x)
           q == Ms(y)
           u == SamplesPerMs
<1>1. /\ u \in Nat \ {0} /\ Whole(x) = u * p /\ Whole(y) = u * q
      /\ p \in Int /\ 2 * (u * p) <= 2 * x + u /\ q \in Int /\ 2 * y < 2 * (u * q) + u
  BY LimitsAssumption, WholeNear
<1> HIDE DEF p, q, u
<1>2. p <= q
  <2> SUFFICES ASSUME q + 1 <= p PROVE FALSE
    BY <1>1
  <2>1. u * (q + 1) <= u * p /\ u * (q + 1) = u * q + u
    BY <1>1
  <2>2. u * q \in Int /\ u * p \in Int
    BY <1>1
  <2> QED BY <1>1, <2>1, <2>2
<1>3. u * p <= u * q
  BY <1>1, <1>2
<1> QED BY <1>1, <1>2, <1>3 DEF p, q

LEMMA Cancel ==
    ASSUME NEW k \in Nat \ {0}, NEW x \in Int, NEW y \in Int, k * x <= k * y
    PROVE  x <= y
<1> SUFFICES ASSUME y + 1 <= x PROVE FALSE
  OBVIOUS
<1>1. k * (y + 1) <= k * x /\ k * (y + 1) = k * y + k
  OBVIOUS
<1>2. k * y \in Int /\ k * x \in Int
  OBVIOUS
<1> QED BY <1>1, <1>2

\* How the rest of a stretch is split between the k samples left of it and the l right of it:
\* in whole milliseconds on the left, which gets its share to half of one.
Share(rest, k, l) == Samples(Rounded(rest * k, SamplesPerMs * (k + l)))

LEMMA ShareFacts ==
    ASSUME NEW rest \in Nat, NEW k \in Nat, NEW l \in Nat, k + l # 0
    PROVE  LET r == Share(rest, k, l)
           IN  /\ r \in Nat /\ (k = 0 => r = 0)
               /\ 2 * r <= 2 * rest + SamplesPerMs
               /\ l = 0 => 2 * rest <= 2 * r + SamplesPerMs
               /\ rest >= k + l => /\ 2 * k <= 2 * r + SamplesPerMs
                                   /\ 2 * l <= 2 * (rest - r) + SamplesPerMs
               /\ rest <= k + l => /\ 2 * r <= 2 * k + SamplesPerMs
                                   /\ 2 * (rest - r) <= 2 * l + SamplesPerMs
<1> DEFINE u == SamplesPerMs
           n == k + l
           a == rest * k
           b == u * n
           q == Rounded(a, b)
           r == Share(rest, k, l)
<1>1. u \in Nat \ {0} /\ n \in Nat \ {0} /\ a \in Nat /\ b \in Nat \ {0}
  BY LimitsAssumption
<1>2. q \in Int /\ 2 * (b * q) <= 2 * a + b /\ 2 * a < 2 * (b * q) + b
  <2> HIDE DEF a, b
  <2> QED BY <1>1, RoundedNear
<1>3. r = u * q
  BY DEF Share, Samples
<1>4. n = k + l /\ a = rest * k /\ b = u * n
  OBVIOUS
<1> HIDE DEF u, n, a, b, q, r
<1>5. q >= 0
  <2> SUFFICES ASSUME q <= -1 PROVE FALSE
    BY <1>2
  <2>1. b * q <= -b
    BY <1>1, <1>2
  <2> QED BY <1>1, <1>2, <2>1
<1>6. k = 0 => q = 0
  <2> SUFFICES ASSUME k = 0, q >= 1 PROVE FALSE
    BY <1>5, <1>2
  <2>1. b * q >= b
    BY <1>1, <1>2
  <2>2. a = 0
    BY <1>4
  <2> QED BY <1>1, <1>2, <2>1, <2>2
<1>7. r \in Nat /\ (k = 0 => r = 0)
  BY <1>1, <1>2, <1>3, <1>5, <1>6
<1>8. b * q = n * r
  BY <1>1, <1>2, <1>3, <1>4
<1>9. 2 * (n * r) <= 2 * (rest * k) + n * u /\ 2 * (rest * k) <= 2 * (n * r) + n * u
  BY <1>1, <1>2, <1>4, <1>8
<1>10. n * rest = rest * k + rest * l /\ n * rest \in Nat /\ rest * k \in Nat /\ rest * l \in Nat
       /\ n * k \in Nat /\ n * l \in Nat /\ n * u \in Nat /\ n * r \in Nat
  BY <1>1, <1>4, <1>7
<1>11. 2 * r <= 2 * rest + u
  <2>1. n * (2 * r) <= n * (2 * rest + u)
    <3>1. n * (2 * r) = 2 * (n * r) /\ n * (2 * rest + u) = 2 * (n * rest) + n * u
      BY <1>1, <1>7
    <3> QED BY <1>9, <1>10, <3>1
  <2> QED BY <1>1, <1>7, <2>1, Cancel
<1>12. l = 0 => 2 * rest <= 2 * r + u
  <2> HAVE l = 0
  <2>1. n * (2 * rest) <= n * (2 * r + u)
    <3>1. n * (2 * r + u) = 2 * (n * r) + n * u /\ n * (2 * rest) = 2 * (n * rest) /\ rest * l = 0
      BY <1>1, <1>7
    <3> QED BY <1>9, <1>10, <3>1
  <2> QED BY <1>1, <1>7, <2>1, Cancel
<1>13. ASSUME rest >= n
       PROVE  2 * k <= 2 * r + u /\ 2 * l <= 2 * (rest - r) + u
  <2>1. n * k <= rest * k /\ n * l <= rest * l
    BY <1>1, <1>13
  <2>2. n * (2 * k) <= n * (2 * r + u)
    <3>1. n * (2 * r + u) = 2 * (n * r) + n * u /\ n * (2 * k) = 2 * (n * k)
      BY <1>1, <1>7
    <3> QED BY <1>9, <1>10, <2>1, <3>1
  <2>3. n * (2 * l) <= n * (2 * (rest - r) + u)
    <3>1. /\ n * (2 * (rest - r) + u) = 2 * (n * rest) - 2 * (n * r) + n * u
          /\ n * (2 * l) = 2 * (n * l)
      BY <1>1, <1>7
    <3> QED BY <1>9, <1>10, <2>1, <3>1
  <2>4. 2 * k <= 2 * r + u
    BY <1>1, <1>7, <2>2, Cancel
  <2>5. 2 * l <= 2 * (rest - r) + u
    BY <1>1, <1>7, <2>3, Cancel
  <2> QED BY <2>4, <2>5
<1>14. ASSUME rest <= n
       PROVE  2 * r <= 2 * k + u /\ 2 * (rest - r) <= 2 * l + u
  <2>1. rest * k <= n * k /\ rest * l <= n * l
    BY <1>1, <1>14
  <2>2. n * (2 * r) <= n * (2 * k + u)
    <3>1. n * (2 * k + u) = 2 * (n * k) + n * u /\ n * (2 * r) = 2 * (n * r)
      BY <1>1, <1>7
    <3> QED BY <1>9, <1>10, <2>1, <3>1
  <2>3. n * (2 * (rest - r)) <= n * (2 * l + u)
    <3>1. /\ n * (2 * l + u) = 2 * (n * l) + n * u
          /\ n * (2 * (rest - r)) = 2 * (n * rest) - 2 * (n * r)
      BY <1>1, <1>7
    <3> QED BY <1>9, <1>10, <2>1, <3>1
  <2>4. 2 * r <= 2 * k + u
    BY <1>1, <1>7, <2>2, Cancel
  <2>5. 2 * (rest - r) <= 2 * l + u
    BY <1>1, <1>7, <2>3, Cancel
  <2> QED BY <2>4, <2>5
<1> QED BY <1>7, <1>11, <1>12, <1>13, <1>14 DEF r, u, n

-----------------------------------------------------------------------------
(* Where the stretches lie                                                   *)

Apart(g, h) == g.e <= h.s \/ h.e <= g.s

Laid(S) ==
    /\ S \in SUBSET Segment /\ IsFiniteSet(S)
    /\ \A g \in S : g.s < g.e
    /\ \A g, h \in S : g = h \/ Apart(g, h)

\* The rest of a stretch, and what is left of it on each side.
Rest(g, lo, hi) == g.ms - Inside(g, lo, hi)
LeftMs(g, lo, hi) ==
    IF LeftOf(g, lo) + RightOf(g, hi) = 0 THEN 0
    ELSE Share(Rest(g, lo, hi), LeftOf(g, lo), RightOf(g, hi))
LeftPiece(g, lo, hi) == [s |-> g.s, e |-> lo, ms |-> LeftMs(g, lo, hi), by |-> g.by]
RightPiece(g, lo, hi) ==
    [s |-> hi, e |-> g.e, ms |-> Rest(g, lo, hi) - LeftMs(g, lo, hi), by |-> g.by]

\* How a stretch lies to one that overlaps it.
LEMMA OverlapFacts ==
    ASSUME NEW g \in Segment, g.s < g.e, NEW lo \in Nat, NEW hi \in Nat, lo < hi
    PROVE  /\ g.s \in Nat /\ g.e \in Nat /\ g.ms \in Int /\ g.by \in {"l", "r"}
           /\ LeftOf(g, lo) = IF lo > g.s THEN lo - g.s ELSE 0
           /\ RightOf(g, hi) = IF g.e > hi THEN g.e - hi ELSE 0
           /\ LeftOf(g, lo) \in Nat /\ RightOf(g, hi) \in Nat
           /\ Rest(g, lo, hi) \in Nat /\ LeftMs(g, lo, hi) \in Nat
           /\ Overlap(g, lo, hi) = 0 => g.e <= lo \/ hi <= g.s
           /\ Overlap(g, lo, hi) > 0 =>
                 /\ g.s < hi /\ lo < g.e
                 /\ g.e - g.s = LeftOf(g, lo) + Overlap(g, lo, hi) + RightOf(g, hi)
<1>1. g.s \in Nat /\ g.e \in Nat /\ g.ms \in Int /\ g.by \in {"l", "r"}
  BY DEF Segment
<1>2. /\ LeftOf(g, lo) = IF lo > g.s THEN lo - g.s ELSE 0
      /\ RightOf(g, hi) = IF g.e > hi THEN g.e - hi ELSE 0
  BY <1>1 DEF LeftOf, RightOf, Most
<1>3. LeftOf(g, lo) \in Nat /\ RightOf(g, hi) \in Nat
  BY <1>1, <1>2
<1>4. Rest(g, lo, hi) \in Nat
  <2>1. Inside(g, lo, hi) \in Int /\ Inside(g, lo, hi) <= g.ms
    BY InsideIsInt
  <2> QED BY <1>1, <2>1 DEF Rest
<1>5. LeftMs(g, lo, hi) \in Nat
  <2> DEFINE k == LeftOf(g, lo)
             l == RightOf(g, hi)
             rest == Rest(g, lo, hi)
  <2>1. k + l # 0 => Share(rest, k, l) \in Nat
    <3> HIDE DEF k, l, rest
    <3> QED BY <1>3, <1>4, ShareFacts DEF k, l, rest
  <2> QED BY <2>1 DEF LeftMs
<1>6. Overlap(g, lo, hi) = 0 => g.e <= lo \/ hi <= g.s
  BY <1>1 DEF Overlap, Most, Least
<1>7. Overlap(g, lo, hi) > 0 => g.s < hi /\ lo < g.e
  BY <1>1 DEF Overlap, Most, Least
<1>8. Overlap(g, lo, hi) > 0 => g.e - g.s = LeftOf(g, lo) + Overlap(g, lo, hi) + RightOf(g, hi)
  BY <1>1, <1>2, <1>7 DEF Overlap, Most, Least
<1> QED BY <1>1, <1>2, <1>3, <1>4, <1>5, <1>6, <1>7, <1>8

\* What is left of a stretch that another overlaps lies in it and beside the other: one
\* piece on each side that it reaches beyond.
LEMMA PieceFacts ==
    ASSUME NEW g \in Segment, g.s < g.e, NEW lo \in Nat, NEW hi \in Nat, lo < hi,
           Overlap(g, lo, hi) > 0
    PROVE  /\ Laid(Pieces(g, lo, hi))
           /\ \A p \in Pieces(g, lo, hi) :
                 /\ g.s <= p.s /\ p.e <= g.e
                 /\ p.e <= lo \/ hi <= p.s
           /\ LeftPiece(g, lo, hi) \in Segment /\ RightPiece(g, lo, hi) \in Segment
           /\ \A F \in [Segment -> Int] :
                 Net(F, Pieces(g, lo, hi)) =
                    (IF LeftOf(g, lo) # 0 THEN F[LeftPiece(g, lo, hi)] ELSE 0)
                    + (IF RightOf(g, hi) # 0 THEN F[RightPiece(g, lo, hi)] ELSE 0)
<1> DEFINE left == LeftOf(g, lo)
           right == RightOf(g, hi)
           p == LeftPiece(g, lo, hi)
           q == RightPiece(g, lo, hi)
           P == Pieces(g, lo, hi)
<1>1. /\ g.s \in Nat /\ g.e \in Nat /\ g.by \in {"l", "r"} /\ g.s < hi /\ lo < g.e
      /\ Rest(g, lo, hi) \in Nat /\ LeftMs(g, lo, hi) \in Nat
      /\ left = IF lo > g.s THEN lo - g.s ELSE 0
      /\ right = IF g.e > hi THEN g.e - hi ELSE 0
  BY OverlapFacts
<1>2. P = {x \in {p, q} : x.s < x.e}
  BY DEF Pieces, LeftPiece, RightPiece, LeftMs, Rest, Share
<1>3. p \in Segment /\ q \in Segment /\ p.s = g.s /\ p.e = lo /\ q.s = hi /\ q.e = g.e
  BY <1>1 DEF Segment, LeftPiece, RightPiece
<1> HIDE DEF p, q, P, left, right
<1>4. P \in SUBSET Segment /\ IsFiniteSet(P)
  <2>1. IsFiniteSet({p, q}) /\ P \in SUBSET {p, q}
    <3>1. IsFiniteSet({p}) /\ {p} \cup {q} = {p, q}
      BY FS_Singleton
    <3>2. IsFiniteSet({p} \cup {q})
      BY <3>1, FS_AddElement
    <3> QED BY <1>2, <3>1, <3>2
  <2> QED BY <1>2, <1>3, <2>1, FS_Subset
<1>5. Laid(P)
  <2>1. \A x \in P : x.s < x.e /\ (x = p \/ x = q)
    BY <1>2
  <2>2. Apart(p, q) /\ Apart(q, p)
    BY <1>1, <1>3 DEF Apart
  <2> QED BY <1>4, <2>1, <2>2 DEF Laid
<1>6. \A x \in P : g.s <= x.s /\ x.e <= g.e /\ (x.e <= lo \/ hi <= x.s)
  <2> TAKE x \in P
  <2>1. x.s < x.e /\ (x = p \/ x = q)
    BY <1>2
  <2>2. CASE x = p
    BY <1>1, <1>3, <2>2
  <2>3. CASE x = q
    BY <1>1, <1>3, <2>3
  <2> QED BY <2>1, <2>2, <2>3
<1>7. ASSUME NEW F \in [Segment -> Int]
      PROVE  Net(F, P) = (IF left # 0 THEN F[p] ELSE 0) + (IF right # 0 THEN F[q] ELSE 0)
  <2>1. p \in P <=> left # 0
    BY <1>1, <1>2, <1>3
  <2>2. q \in P <=> right # 0
    BY <1>1, <1>2, <1>3
  <2>3. p # q
    BY <1>1, <1>3
  <2>4. /\ \A x \in P : Net(F, P) = F[x] + Net(F, P \ {x})
        /\ \A x \in P : \A y \in P \ {x} : Net(F, P \ {x}) = F[y] + Net(F, (P \ {x}) \ {y})
    <3>1. \A x \in P : IsFiniteSet(P \ {x}) /\ P \ {x} \in SUBSET Segment
      BY <1>4, FS_Subset
    <3> QED BY <1>4, <3>1, NetAdd
  <2>5. F[p] \in Int /\ F[q] \in Int
    BY <1>3
  <2>6. CASE left = 0 /\ right = 0
    <3>1. P = {}
      BY <1>2, <2>1, <2>2, <2>6
    <3> QED BY <2>6, <3>1, NetNone
  <2>7. CASE left # 0 /\ right = 0
    <3>1. P \ {p} = {} /\ p \in P
      BY <1>2, <2>1, <2>2, <2>7
    <3>2. Net(F, P) = F[p] + 0
      BY <2>4, <3>1, NetNone
    <3> QED BY <2>5, <2>7, <3>2
  <2>8. CASE left = 0 /\ right # 0
    <3>1. P \ {q} = {} /\ q \in P
      BY <1>2, <2>1, <2>2, <2>8
    <3>2. Net(F, P) = F[q] + 0
      BY <2>4, <3>1, NetNone
    <3> QED BY <2>5, <2>8, <3>2
  <2>9. CASE left # 0 /\ right # 0
    <3>1. (P \ {p}) \ {q} = {} /\ p \in P /\ q \in P \ {p}
      BY <1>2, <2>1, <2>2, <2>3, <2>9
    <3>2. Net(F, P \ {p}) = F[q] + Net(F, (P \ {p}) \ {q})
      BY <2>4, <3>1
    <3>3. Net(F, P) = F[p] + (F[q] + 0)
      BY <2>4, <3>1, <3>2, NetNone
    <3> QED BY <2>5, <2>9, <3>3
  <2> QED BY <2>6, <2>7, <2>8, <2>9
<1> QED BY <1>3, <1>5, <1>6, <1>7 DEF P, p, q, left, right

-----------------------------------------------------------------------------
(* The pieces of the stretches a new one overlaps                            *)

\* A stretch without the sign of its money; the money on it, no more than its length.
Raised == [g \in Segment |-> Most(0, g.ms)]
RaisedMoved(lo, hi) == [g \in Segment |-> Most(0, Moved(g, lo, hi))]
Held == [g \in Segment |-> Least(g.ms, g.e - g.s)]
Slip(lo) == [g \in Segment |-> IF g.s < lo THEN SamplesPerMs ELSE 0]
Minus(F) == [g \in Segment |-> -F[g]]

LEMMA FieldFacts ==
    ASSUME NEW lo \in Nat, NEW hi \in Nat
    PROVE  /\ Raised \in [Segment -> Nat] /\ RaisedMoved(lo, hi) \in [Segment -> Nat]
           /\ Held \in [Segment -> Int] /\ Slip(lo) \in [Segment -> Nat]
           /\ SamplesPerMs \in Nat \ {0}
           /\ \A g \in Segment :
                 /\ g.ms \in Int /\ g.s \in Nat /\ g.e \in Nat
                 /\ MsOf[g] = g.ms
                 /\ InsideOf(lo, hi)[g] = Inside(g, lo, hi)
                 /\ MovedOf(lo, hi)[g] = Moved(g, lo, hi)
                 /\ Raised[g] = (IF g.ms > 0 THEN g.ms ELSE 0)
                 /\ RaisedMoved(lo, hi)[g] =
                       (IF Moved(g, lo, hi) > 0 THEN Moved(g, lo, hi) ELSE 0)
                 /\ Held[g] = (IF g.ms < g.e - g.s THEN g.ms ELSE g.e - g.s)
                 /\ Slip(lo)[g] = (IF g.s < lo THEN SamplesPerMs ELSE 0)
<1>1. SamplesPerMs \in Nat \ {0}
  BY LimitsAssumption
<1>2. \A g \in Segment : g.ms \in Int /\ g.s \in Nat /\ g.e \in Nat /\ Moved(g, lo, hi) \in Int
  BY InsideIsInt DEF Segment
<1>3. Raised \in [Segment -> Nat] /\ RaisedMoved(lo, hi) \in [Segment -> Nat]
  BY <1>2 DEF Raised, RaisedMoved, Most
<1>4. Held \in [Segment -> Int] /\ Slip(lo) \in [Segment -> Nat]
  BY <1>1, <1>2 DEF Held, Slip, Least
<1>5. ASSUME NEW g \in Segment
      PROVE  /\ MsOf[g] = g.ms
             /\ InsideOf(lo, hi)[g] = Inside(g, lo, hi)
             /\ MovedOf(lo, hi)[g] = Moved(g, lo, hi)
             /\ Raised[g] = (IF g.ms > 0 THEN g.ms ELSE 0)
             /\ RaisedMoved(lo, hi)[g] = (IF Moved(g, lo, hi) > 0 THEN Moved(g, lo, hi) ELSE 0)
             /\ Held[g] = (IF g.ms < g.e - g.s THEN g.ms ELSE g.e - g.s)
             /\ Slip(lo)[g] = (IF g.s < lo THEN SamplesPerMs ELSE 0)
  BY <1>2 DEF MsOf, InsideOf, MovedOf, Raised, RaisedMoved, Held, Slip, Least, Most
<1> QED BY <1>1, <1>2, <1>3, <1>4, <1>5

\* The money of the pieces and what moves are the stretch's, to half a millisecond, and
\* exactly where nothing of it lies left of the new stretch: all of it; what it has above
\* zero; what it has within its length, of which what lies inside moves.
LEMMA PiecesHold ==
    ASSUME NEW g \in Segment, g.s < g.e, NEW lo \in Nat, NEW hi \in Nat, lo < hi,
           Overlap(g, lo, hi) > 0
    PROVE  LET P == Pieces(g, lo, hi)
           IN  /\ 2 * Net(MsOf, P) + 2 * Moved(g, lo, hi) <= 2 * g.ms + Slip(lo)[g]
               /\ 2 * g.ms <= 2 * Net(MsOf, P) + 2 * Moved(g, lo, hi) + Slip(lo)[g]
               /\ 2 * Net(Raised, P) + 2 * RaisedMoved(lo, hi)[g] <= 2 * Raised[g] + Slip(lo)[g]
               /\ 2 * Held[g] <= 2 * Net(Held, P) + 2 * Inside(g, lo, hi) + Slip(lo)[g]
<1> DEFINE k == LeftOf(g, lo)
           l == RightOf(g, hi)
           o == Overlap(g, lo, hi)
           i == Inside(g, lo, hi)
           m == Moved(g, lo, hi)
           rest == Rest(g, lo, hi)
           r == LeftMs(g, lo, hi)
           p == LeftPiece(g, lo, hi)
           q == RightPiece(g, lo, hi)
           P == Pieces(g, lo, hi)
           u == SamplesPerMs
           e == Slip(lo)[g]
           ms == g.ms
<1>1. /\ ms \in Int /\ k \in Nat /\ l \in Nat /\ o \in Nat /\ i \in Int /\ i <= o /\ m \in Int
      /\ rest \in Nat /\ r \in Nat /\ u \in Nat \ {0} /\ o > 0
      /\ g.e - g.s = k + o + l
      /\ k = IF lo > g.s THEN lo - g.s ELSE 0
      /\ l = IF g.e > hi THEN g.e - hi ELSE 0
      /\ g.s \in Nat /\ g.e \in Nat
  BY OverlapFacts, InsideIsInt, FieldFacts
<1>2. i = (IF ms < o THEN ms ELSE o) /\ rest = ms - i /\ m = (IF k + l = 0 THEN ms ELSE i)
  BY DEF Inside, Least, Rest, Moved, Swallowed
<1>3. e = (IF k # 0 THEN u ELSE 0)
  <2>1. g.s < lo <=> k # 0
    BY <1>1
  <2>2. e = (IF g.s < lo THEN u ELSE 0)
    BY FieldFacts
  <2> QED BY <2>1, <2>2
<1>4. r = (IF k + l = 0 THEN 0 ELSE Share(rest, k, l))
  BY DEF LeftMs
<1>5. k + l # 0 =>
          /\ k = 0 => r = 0
          /\ 2 * r <= 2 * rest + u
          /\ l = 0 => 2 * rest <= 2 * r + u
          /\ rest >= k + l => 2 * k <= 2 * r + u /\ 2 * l <= 2 * (rest - r) + u
          /\ rest <= k + l => 2 * r <= 2 * k + u /\ 2 * (rest - r) <= 2 * l + u
  <2> HIDE DEF k, l, rest, r
  <2> SUFFICES ASSUME k + l # 0
               PROVE  /\ k = 0 => r = 0
                      /\ 2 * r <= 2 * rest + u
                      /\ l = 0 => 2 * rest <= 2 * r + u
                      /\ rest >= k + l => 2 * k <= 2 * r + u /\ 2 * l <= 2 * (rest - r) + u
                      /\ rest <= k + l => 2 * r <= 2 * k + u /\ 2 * (rest - r) <= 2 * l + u
    OBVIOUS
  <2>1. r = Share(rest, k, l)
    BY <1>4
  <2> DEFINE t == Share(rest, k, l)
  <2>2. /\ k = 0 => t = 0
        /\ 2 * t <= 2 * rest + SamplesPerMs
        /\ l = 0 => 2 * rest <= 2 * t + SamplesPerMs
        /\ rest >= k + l => 2 * k <= 2 * t + SamplesPerMs /\ 2 * l <= 2 * (rest - t) + SamplesPerMs
        /\ rest <= k + l => 2 * t <= 2 * k + SamplesPerMs /\ 2 * (rest - t) <= 2 * l + SamplesPerMs
    <3>1. rest \in Nat /\ k \in Nat /\ l \in Nat /\ k + l # 0
      BY <1>1
    <3> HIDE <1>1, <1>2, <1>3, <1>4
    <3> QED BY <3>1, ShareFacts
  <2>3. t = r
    BY <2>1
  <2> HIDE DEF t
  <2> QED BY <2>2, <2>3
<1>6. /\ p \in Segment /\ q \in Segment
      /\ p.ms = r /\ q.ms = rest - r
      /\ k # 0 => p.e - p.s = k
      /\ l # 0 => q.e - q.s = l
  <2>1. p \in Segment /\ q \in Segment
    BY PieceFacts
  <2>2. p.s = g.s /\ p.e = lo /\ q.s = hi /\ q.e = g.e /\ p.ms = r /\ q.ms = rest - r
    BY DEF LeftPiece, RightPiece
  <2> HIDE DEF p, q
  <2> QED BY <1>1, <2>1, <2>2
<1>7. \A F \in [Segment -> Int] :
          Net(F, P) = (IF k # 0 THEN F[p] ELSE 0) + (IF l # 0 THEN F[q] ELSE 0)
  BY PieceFacts
<1>8. /\ MsOf[p] = r /\ MsOf[q] = rest - r
      /\ Raised[p] = r /\ Raised[q] = (IF rest - r > 0 THEN rest - r ELSE 0)
      /\ k # 0 => Held[p] = (IF r < k THEN r ELSE k)
      /\ l # 0 => Held[q] = (IF rest - r < l THEN rest - r ELSE l)
  <2>1. \A x \in {p, q} :
           /\ MsOf[x] = x.ms
           /\ Raised[x] = (IF x.ms > 0 THEN x.ms ELSE 0)
           /\ Held[x] = (IF x.ms < x.e - x.s THEN x.ms ELSE x.e - x.s)
    <3> HIDE DEF p, q
    <3>1. \A x \in Segment :
             /\ MsOf[x] = x.ms
             /\ Raised[x] = (IF x.ms > 0 THEN x.ms ELSE 0)
             /\ Held[x] = (IF x.ms < x.e - x.s THEN x.ms ELSE x.e - x.s)
      BY FieldFacts
    <3> QED BY <1>6, <3>1
  <2> HIDE DEF p, q
  <2> QED BY <1>1, <1>6, <2>1
<1>9. /\ Net(MsOf, P) = (IF k # 0 THEN r ELSE 0) + (IF l # 0 THEN rest - r ELSE 0)
      /\ Net(Raised, P) =
            (IF k # 0 THEN r ELSE 0) + (IF l # 0 /\ rest - r > 0 THEN rest - r ELSE 0)
      /\ Net(Held, P) = (IF k # 0 THEN (IF r < k THEN r ELSE k) ELSE 0)
                        + (IF l # 0 THEN (IF rest - r < l THEN rest - r ELSE l) ELSE 0)
  <2>1. MsOf \in [Segment -> Int] /\ Raised \in [Segment -> Int] /\ Held \in [Segment -> Int]
    <3>1. MsOf \in [Segment -> Int]
      BY InsideIsInt
    <3>2. Raised \in [Segment -> Nat] /\ Held \in [Segment -> Int]
      BY FieldFacts
    <3> QED BY <3>1, <3>2
  <2> HIDE DEF P, p, q, k, l, r, rest
  <2>2. Net(MsOf, P) = (IF k # 0 THEN MsOf[p] ELSE 0) + (IF l # 0 THEN MsOf[q] ELSE 0)
    BY <1>7, <2>1
  <2>3. Net(Raised, P) = (IF k # 0 THEN Raised[p] ELSE 0) + (IF l # 0 THEN Raised[q] ELSE 0)
    BY <1>7, <2>1
  <2>4. Net(Held, P) = (IF k # 0 THEN Held[p] ELSE 0) + (IF l # 0 THEN Held[q] ELSE 0)
    BY <1>7, <2>1
  <2> QED BY <1>1, <1>8, <2>2, <2>3, <2>4
<1>10. /\ Raised[g] = (IF ms > 0 THEN ms ELSE 0)
       /\ RaisedMoved(lo, hi)[g] = (IF m > 0 THEN m ELSE 0)
       /\ Held[g] = (IF ms < k + o + l THEN ms ELSE k + o + l)
  BY <1>1, FieldFacts
<1> DEFINE nm == Net(MsOf, P)
           nr == Net(Raised, P)
           nh == Net(Held, P)
           ra == Raised[g]
           rm == RaisedMoved(lo, hi)[g]
           he == Held[g]
<1> HIDE DEF k, l, o, i, m, rest, r, p, q, P, u, e, ms, nm, nr, nh, ra, rm, he
<1>11. /\ nm = (IF k # 0 THEN r ELSE 0) + (IF l # 0 THEN rest - r ELSE 0)
       /\ nr = (IF k # 0 THEN r ELSE 0) + (IF l # 0 /\ rest - r > 0 THEN rest - r ELSE 0)
       /\ nh = (IF k # 0 THEN (IF r < k THEN r ELSE k) ELSE 0)
               + (IF l # 0 THEN (IF rest - r < l THEN rest - r ELSE l) ELSE 0)
       /\ ra = (IF ms > 0 THEN ms ELSE 0) /\ rm = (IF m > 0 THEN m ELSE 0)
       /\ he = (IF ms < k + o + l THEN ms ELSE k + o + l)
  BY <1>9, <1>10 DEF nm, nr, nh, ra, rm, he
<1>12. 2 * nm + 2 * m <= 2 * ms + e /\ 2 * ms <= 2 * nm + 2 * m + e
  <2>1. CASE k = 0
    BY <1>1, <1>2, <1>3, <1>4, <1>5, <1>11, <2>1
  <2>2. CASE k # 0 /\ l = 0
    BY <1>1, <1>2, <1>3, <1>4, <1>5, <1>11, <2>2
  <2>3. CASE k # 0 /\ l # 0
    BY <1>1, <1>2, <1>3, <1>11, <2>3
  <2> QED BY <2>1, <2>2, <2>3
<1>13. 2 * nr + 2 * rm <= 2 * ra + e
  BY <1>1, <1>2, <1>3, <1>4, <1>5, <1>11
<1>14. 2 * he <= 2 * nh + 2 * i + e
  <2>1. CASE k = 0
    <3>1. e = 0 /\ nh = (IF l # 0 THEN (IF rest < l THEN rest ELSE l) ELSE 0)
      BY <1>1, <1>3, <1>5, <1>11, <2>1
    <3>2. he = (IF ms < o + l THEN ms ELSE o + l)
      BY <1>1, <1>11, <2>1
    <3>3. CASE ms < o
      <4>1. i = ms /\ rest = 0 /\ he = ms /\ nh = 0
        BY <1>1, <1>2, <3>1, <3>2, <3>3
      <4> QED BY <1>1, <3>1, <4>1
    <3>4. CASE ms >= o
      <4>1. i = o /\ rest = ms - o
        BY <1>1, <1>2, <3>4
      <4>2. nh = (IF rest < l THEN rest ELSE l)
        BY <1>1, <3>1, <4>1, <3>4
      <4> QED BY <1>1, <3>1, <3>2, <4>1, <4>2
    <3> QED BY <1>1, <3>3, <3>4
  <2>2. CASE k # 0 /\ l = 0
    <3>1. 2 * rest <= 2 * r + u /\ e = u /\ nh = (IF r < k THEN r ELSE k)
      BY <1>1, <1>3, <1>5, <1>11, <2>2
    <3> QED BY <1>1, <1>2, <1>11, <2>2, <3>1
  <2>3. CASE k # 0 /\ l # 0
    <3>1. /\ e = u /\ nh = (IF r < k THEN r ELSE k) + (IF rest - r < l THEN rest - r ELSE l)
          /\ rest >= k + l => 2 * k <= 2 * r + u /\ 2 * l <= 2 * (rest - r) + u
          /\ rest <= k + l => 2 * r <= 2 * k + u /\ 2 * (rest - r) <= 2 * l + u
      BY <1>1, <1>3, <1>5, <1>11, <2>3
    <3>2. CASE rest >= k + l
      <4>1. i = o /\ he = k + o + l
        BY <1>1, <1>2, <1>11, <2>3, <3>2
      <4>2. 2 * nh + u >= 2 * k + 2 * l
        BY <1>1, <3>1, <3>2
      <4> QED BY <1>1, <3>1, <4>1, <4>2
    <3>3. CASE rest <= k + l
      BY <1>1, <1>2, <1>11, <3>1, <3>3
    <3> QED BY <1>1, <3>2, <3>3
  <2> QED BY <1>1, <2>1, <2>2, <2>3
<1> QED BY <1>12, <1>13, <1>14 DEF nm, nr, nh, ra, rm, he, m, ms, e, i, P

Cuts(S, lo, hi) == UNION {Pieces(g, lo, hi) : g \in S}

LEMMA CutsLaid ==
    ASSUME NEW hit, Laid(hit), NEW lo \in Nat, NEW hi \in Nat, lo < hi,
           \A g \in hit : Overlap(g, lo, hi) > 0
    PROVE  /\ Laid(Cuts(hit, lo, hi))
           /\ \A p \in Cuts(hit, lo, hi) : p.e <= lo \/ hi <= p.s
           /\ \A p \in Cuts(hit, lo, hi) : \E g \in hit : g.s <= p.s /\ p.e <= g.e
<1> DEFINE C == Cuts(hit, lo, hi)
<1>1. \A g \in hit : g \in Segment /\ g.s < g.e /\ g.s \in Nat /\ g.e \in Nat
  BY DEF Laid, Segment
<1>2. ASSUME NEW g \in hit
      PROVE  /\ Laid(Pieces(g, lo, hi))
             /\ \A p \in Pieces(g, lo, hi) : g.s <= p.s /\ p.e <= g.e /\ (p.e <= lo \/ hi <= p.s)
  BY <1>1, PieceFacts
<1>3. C \in SUBSET Segment /\ \A p \in C : p.s < p.e
  BY <1>2 DEF Cuts, Laid
<1>4. IsFiniteSet(C)
  <2> DEFINE K == {Pieces(g, lo, hi) : g \in hit}
  <2>1. IsFiniteSet(K)
    <3> DEFINE f == [g \in hit |-> Pieces(g, lo, hi)]
    <3>1. f \in Surjection(hit, K)
      BY DEF Surjection
    <3> HIDE DEF f, K
    <3> QED BY <3>1, FS_Surjection DEF Laid
  <2>2. \A k \in K : IsFiniteSet(k)
    BY <1>2 DEF Laid
  <2>3. C = UNION K
    BY DEF Cuts
  <2> HIDE DEF K, C
  <2> QED BY <2>1, <2>2, <2>3, FS_UNION
<1>5. ASSUME NEW p \in C, NEW q \in C
      PROVE  p = q \/ Apart(p, q)
  <2>1. PICK g \in hit : p \in Pieces(g, lo, hi)
    BY DEF Cuts
  <2>2. PICK h \in hit : q \in Pieces(h, lo, hi)
    BY DEF Cuts
  <2>3. CASE g = h
    BY <1>2, <2>1, <2>2, <2>3 DEF Laid
  <2>4. CASE g # h
    <3>1. g.s <= p.s /\ p.e <= g.e /\ h.s <= q.s /\ q.e <= h.e
      BY <1>2, <2>1, <2>2
    <3>2. g.e <= h.s \/ h.e <= g.s
      BY <2>4 DEF Laid, Apart
    <3>3. p.s \in Nat /\ p.e \in Nat /\ q.s \in Nat /\ q.e \in Nat
      BY <1>3 DEF Segment
    <3> QED BY <1>1, <3>1, <3>2, <3>3 DEF Apart
  <2> QED BY <2>3, <2>4
<1>6. \A p \in C : (p.e <= lo \/ hi <= p.s) /\ \E g \in hit : g.s <= p.s /\ p.e <= g.e
  BY <1>2 DEF Cuts
<1> HIDE DEF C
<1>7. Laid(C)
  BY <1>3, <1>4, <1>5 DEF Laid
<1> QED BY <1>6, <1>7 DEF C

\* What holds for each stretch that is cut holds for all of them together.
LEMMA CutsNet ==
    ASSUME NEW hit, Laid(hit), NEW lo \in Nat, NEW hi \in Nat, lo < hi,
           \A g \in hit : Overlap(g, lo, hi) > 0,
           NEW F \in [Segment -> Int], NEW M \in [Segment -> Int], NEW E \in [Segment -> Int],
           \A g \in hit : 2 * Net(F, Pieces(g, lo, hi)) + 2 * M[g] <= 2 * F[g] + E[g]
    PROVE  2 * Net(F, Cuts(hit, lo, hi)) + 2 * Net(M, hit) <= 2 * Net(F, hit) + Net(E, hit)
<1> DEFINE OK(s) == 2 * Net(F, Cuts(s, lo, hi)) + 2 * Net(M, s) <= 2 * Net(F, s) + Net(E, s)
           T == {s \in SUBSET hit : OK(s)}
<1>1. \A g \in hit : g \in Segment /\ g.s < g.e /\ g.s \in Nat /\ g.e \in Nat
  BY DEF Laid, Segment
<1>2. ASSUME NEW s \in SUBSET hit
      PROVE  Laid(s) /\ IsFiniteSet(s) /\ s \in SUBSET Segment
  <2>1. IsFiniteSet(s)
    BY FS_Subset DEF Laid
  <2> QED BY <2>1 DEF Laid
<1>3. ASSUME NEW s \in SUBSET hit, \A x \in s : s \ {x} \in T
      PROVE  s \in T
  <2>1. CASE s = {}
    <3>1. Cuts(s, lo, hi) = {}
      BY <2>1 DEF Cuts
    <3>2. /\ Net(F, Cuts(s, lo, hi)) = 0 /\ Net(M, s) = 0 /\ Net(F, s) = 0 /\ Net(E, s) = 0
      BY <2>1, <3>1, NetNone
    <3> QED BY <3>2
  <2>2. CASE s # {}
    <3>1. PICK x \in s : TRUE
      BY <2>2
    <3> DEFINE r == s \ {x}
               C == Cuts(r, lo, hi)
               P == Pieces(x, lo, hi)
    <3>2. r \in SUBSET hit /\ x \in hit /\ x \notin r
      OBVIOUS
    <3>3. OK(r)
      BY <1>3
    <3>4. Cuts(s, lo, hi) = C \cup P
      BY DEF Cuts
    <3>5. 2 * Net(F, P) + 2 * M[x] <= 2 * F[x] + E[x]
      BY <3>2
    <3>6. /\ Net(F, s) = F[x] + Net(F, r) /\ Net(M, s) = M[x] + Net(M, r)
          /\ Net(E, s) = E[x] + Net(E, r)
      <4>1. IsFiniteSet(s) /\ s \in SUBSET Segment /\ x \in s
        BY <1>2
      <4> QED BY <4>1, NetAdd
    <3>7. F[x] \in Int /\ M[x] \in Int /\ E[x] \in Int
      BY <1>1, <3>2
    <3> HIDE DEF r, P
    <3>8. Laid(r) /\ Laid(C) /\ \A p \in C : \E g \in r : g.s <= p.s /\ p.e <= g.e
      BY <1>2, <3>2, CutsLaid
    <3>9. Laid(P) /\ (\A p \in P : x.s <= p.s /\ p.e <= x.e)
      BY <1>1, <3>2, PieceFacts DEF P
    <3>10. 2 * Net(F, C) + 2 * Net(M, r) <= 2 * Net(F, r) + Net(E, r)
      BY <3>3
    <3> HIDE DEF C
    <3>11. C \cap P = {}
      <4> SUFFICES ASSUME NEW p \in C, p \in P PROVE FALSE
        OBVIOUS
      <4>1. PICK g \in r : g.s <= p.s /\ p.e <= g.e
        BY <3>8
      <4>2. g \in hit /\ g # x
        BY <3>2, <4>1
      <4>3. g.e <= x.s \/ x.e <= g.s
        BY <3>2, <4>2 DEF Laid, Apart
      <4>4. p \in Segment /\ p.s < p.e /\ x.s <= p.s /\ p.e <= x.e
        BY <3>9 DEF Laid
      <4>5. p.s \in Nat /\ p.e \in Nat
        BY <4>4 DEF Segment
      <4> QED BY <1>1, <3>2, <4>1, <4>2, <4>3, <4>4, <4>5
    <3>12. Net(F, C \cup P) = Net(F, C) + Net(F, P)
      <4>1. C \in SUBSET Segment /\ P \in SUBSET Segment /\ IsFiniteSet(C) /\ IsFiniteSet(P)
        BY <3>8, <3>9 DEF Laid
      <4> QED BY <3>11, <4>1, NetUnion
    <3>13. /\ Net(F, C) \in Int /\ Net(F, P) \in Int /\ Net(F, r) \in Int /\ Net(M, r) \in Int
           /\ Net(E, r) \in Int
      BY <3>8, <3>9, NetAdd DEF Laid
    <3>14. OK(s)
      BY <3>4, <3>5, <3>6, <3>7, <3>10, <3>12, <3>13
    <3> HIDE DEF OK
    <3> QED BY <3>14
  <2> QED BY <2>1, <2>2
<1> HIDE DEF T
<1>4. hit \in T
  BY <1>2, <1>3, SetInduction
<1> QED BY <1>4 DEF T

\* At most one stretch of those reaches beyond the new one on the left.
LEMMA SlipOnce ==
    ASSUME NEW hit, Laid(hit), NEW lo \in Nat, NEW hi \in Nat, lo < hi,
           \A g \in hit : Overlap(g, lo, hi) > 0
    PROVE  Net(Slip(lo), hit) \in 0..SamplesPerMs
<1> DEFINE E == Slip(lo)
           none == [g \in Segment |-> 0]
<1>1. /\ E \in [Segment -> Nat] /\ E \in [Segment -> Int] /\ SamplesPerMs \in Nat
      /\ \A g \in Segment : E[g] = (IF g.s < lo THEN SamplesPerMs ELSE 0)
  BY FieldFacts
<1>2. hit \in SUBSET Segment /\ IsFiniteSet(hit)
  BY DEF Laid
<1>3. none \in [Segment -> Int] /\ none \in [Segment -> Nat]
  OBVIOUS
<1>4. ASSUME NEW S \in SUBSET hit, \A g \in S : E[g] = 0
      PROVE  Net(E, S) = 0
  <2> DEFINE T == {s \in SUBSET S : Net(E, s) = 0}
  <2>1. ASSUME NEW s \in SUBSET S, \A x \in s : s \ {x} \in T
        PROVE  s \in T
    <3>1. CASE s = {}
      BY <3>1, NetNone
    <3>2. CASE s # {}
      <4>1. PICK x \in s : TRUE
        BY <3>2
      <4>2. IsFiniteSet(s) /\ s \in SUBSET Segment /\ x \in s
        BY <1>2, <4>1, FS_Subset
      <4>3. Net(E, s) = E[x] + Net(E, s \ {x})
        BY <1>1, <4>2, NetAdd
      <4>4. E[x] = 0 /\ Net(E, s \ {x}) = 0
        BY <1>4, <2>1, <4>1
      <4>5. Net(E, s) = 0
        BY <4>3, <4>4
      <4> QED BY <4>5
    <3> QED BY <3>1, <3>2
  <2> HIDE DEF T
  <2>2. IsFiniteSet(S)
    BY <1>2, FS_Subset
  <2>3. S \in T
    BY <2>1, <2>2, SetInduction
  <2> QED BY <2>3 DEF T
<1> HIDE DEF E
<1>5. CASE \A g \in hit : g.s >= lo
  <2>1. \A g \in hit : E[g] = 0
    <3>1. \A g \in hit : g \in Segment /\ g.s \in Nat
      BY <1>2, FieldFacts
    <3> QED BY <1>1, <1>5, <3>1
  <2> QED BY <1>1, <1>4, <2>1 DEF E
<1>6. CASE \E g \in hit : g.s < lo
  <2>1. PICK x \in hit : x.s < lo
    BY <1>6
  <2>2. ASSUME NEW g \in hit \ {x}
        PROVE  E[g] = 0
    <3> SUFFICES ASSUME g.s < lo PROVE FALSE
      BY <1>1, <1>2
    <3>1. x \in Segment /\ g \in Segment /\ x.s < x.e /\ g.s < g.e /\ Apart(g, x)
      BY <2>1, <2>2 DEF Laid
    <3>2. x.s < hi /\ lo < x.e /\ g.s < hi /\ lo < g.e /\ x.s \in Nat /\ x.e \in Nat /\ g.s \in Nat /\ g.e \in Nat
      BY <2>1, <2>2, <3>1, OverlapFacts
    <3> QED BY <2>1, <3>1, <3>2 DEF Apart
  <2>3. Net(E, hit) = E[x] + Net(E, hit \ {x})
    BY <1>1, <1>2, <2>1, NetAdd
  <2>4. Net(E, hit \ {x}) = 0
    BY <1>4, <2>2
  <2>5. E[x] \in 0..SamplesPerMs
    BY <1>1, <1>2, <2>1
  <2>6. E[x] + 0 = E[x]
    BY <2>5
  <2> QED BY <2>3, <2>4, <2>5, <2>6 DEF E
<1>7. \A g \in hit : g.s \in Nat
  BY <1>2, FieldFacts
<1> QED BY <1>5, <1>6, <1>7

\* What is cut from the stretches, what moves to the new one, and what they held.
LEMMA CutsHold ==
    ASSUME NEW hit, Laid(hit), NEW lo \in Nat, NEW hi \in Nat, lo < hi,
           \A g \in hit : Overlap(g, lo, hi) > 0
    PROVE  LET C == Cuts(hit, lo, hi)
               moved == Carried(hit, lo, hi)
               up == Net(RaisedMoved(lo, hi), hit)
           IN  /\ 2 * Net(MsOf, C) + 2 * moved <= 2 * Net(MsOf, hit) + SamplesPerMs
               /\ 2 * Net(MsOf, hit) <= 2 * Net(MsOf, C) + 2 * moved + SamplesPerMs
               /\ 2 * Net(Raised, C) + 2 * up <= 2 * Net(Raised, hit) + SamplesPerMs
               /\ 2 * Net(Held, hit) <= 2 * Net(Held, C) + 2 * Offered(hit, lo, hi) + SamplesPerMs
               /\ moved \in Int /\ up \in Nat /\ moved <= up
               /\ Offered(hit, lo, hi) \in Int /\ Offered(hit, lo, hi) <= moved
<1> DEFINE C == Cuts(hit, lo, hi)
           M == MovedOf(lo, hi)
           I == InsideOf(lo, hi)
           R == RaisedMoved(lo, hi)
           E == Slip(lo)
           u == SamplesPerMs
           nMs == Minus(MsOf)
           nM == Minus(M)
           nH == Minus(Held)
           nI == Minus(I)
<1>1. /\ MsOf \in [Segment -> Int] /\ M \in [Segment -> Int] /\ I \in [Segment -> Int]
      /\ Raised \in [Segment -> Nat] /\ R \in [Segment -> Nat] /\ Held \in [Segment -> Int]
      /\ E \in [Segment -> Nat] /\ u \in Nat \ {0}
  BY InsideIsInt, FieldFacts
<1>2. /\ R \in [Segment -> Int] /\ E \in [Segment -> Int] /\ Raised \in [Segment -> Int]
  BY <1>1
<1>3. hit \in SUBSET Segment /\ IsFiniteSet(hit) /\ C \in SUBSET Segment /\ IsFiniteSet(C)
  BY CutsLaid DEF Laid
<1>4. \A g \in hit :
          /\ g \in Segment /\ g.s < g.e
          /\ MsOf[g] = g.ms /\ M[g] = Moved(g, lo, hi) /\ I[g] = Inside(g, lo, hi)
          /\ M[g] <= R[g] /\ I[g] <= M[g]
  <2> TAKE g \in hit
  <2>1. g \in Segment /\ g.s < g.e
    BY <1>3 DEF Laid
  <2>2. MsOf[g] = g.ms /\ M[g] = Moved(g, lo, hi) /\ I[g] = Inside(g, lo, hi)
    BY <2>1, FieldFacts
  <2>3. R[g] = (IF Moved(g, lo, hi) > 0 THEN Moved(g, lo, hi) ELSE 0)
    <3>1. Moved(g, lo, hi) \in Int /\ R[g] = Most(0, Moved(g, lo, hi))
      BY <2>1, InsideIsInt DEF RaisedMoved
    <3> HIDE DEF R
    <3> QED BY <3>1 DEF Most
  <2>4. Moved(g, lo, hi) \in Int /\ Inside(g, lo, hi) <= Moved(g, lo, hi)
    BY <2>1, InsideIsInt
  <2> QED BY <2>1, <2>2, <2>3, <2>4
<1>5. ASSUME NEW g \in hit
      PROVE  LET P == Pieces(g, lo, hi)
             IN  /\ 2 * Net(MsOf, P) + 2 * M[g] <= 2 * MsOf[g] + E[g]
                 /\ 2 * MsOf[g] <= 2 * Net(MsOf, P) + 2 * M[g] + E[g]
                 /\ 2 * Net(Raised, P) + 2 * R[g] <= 2 * Raised[g] + E[g]
                 /\ 2 * Held[g] <= 2 * Net(Held, P) + 2 * I[g] + E[g]
                 /\ Net(MsOf, P) \in Int /\ Net(Held, P) \in Int
                 /\ Net(nMs, P) = -Net(MsOf, P) /\ Net(nH, P) = -Net(Held, P)
  <2> DEFINE P == Pieces(g, lo, hi)
  <2>1. /\ 2 * Net(MsOf, P) + 2 * Moved(g, lo, hi) <= 2 * g.ms + E[g]
        /\ 2 * g.ms <= 2 * Net(MsOf, P) + 2 * Moved(g, lo, hi) + E[g]
        /\ 2 * Net(Raised, P) + 2 * R[g] <= 2 * Raised[g] + E[g]
        /\ 2 * Held[g] <= 2 * Net(Held, P) + 2 * Inside(g, lo, hi) + E[g]
    BY <1>4, PiecesHold
  <2>2. P \in SUBSET Segment /\ IsFiniteSet(P)
    BY <1>4, PieceFacts DEF Laid
  <2> HIDE DEF P
  <2>3. Net(MsOf, P) \in Int /\ Net(Held, P) \in Int
    BY <1>1, <2>2, NetAdd
  <2>4. Net(nMs, P) = -Net(MsOf, P) /\ Net(nH, P) = -Net(Held, P)
    BY <1>1, <2>2, NetMinus DEF Minus
  <2> HIDE DEF M, R, I, E, nMs, nH
  <2> QED BY <1>4, <2>1, <2>3, <2>4 DEF P
<1>6. /\ nMs \in [Segment -> Int] /\ nM \in [Segment -> Int] /\ nH \in [Segment -> Int]
      /\ nI \in [Segment -> Int]
      /\ \A g \in hit : /\ nMs[g] = -MsOf[g] /\ nM[g] = -M[g] /\ nH[g] = -Held[g] /\ nI[g] = -I[g]
                        /\ MsOf[g] \in Int /\ M[g] \in Int /\ Held[g] \in Int /\ I[g] \in Int
                        /\ E[g] \in Int
  <2> HIDE DEF M, I, E
  <2> QED BY <1>1, <1>2, <1>4 DEF Minus
<1>7. /\ Net(nMs, C) = -Net(MsOf, C) /\ Net(nMs, hit) = -Net(MsOf, hit)
      /\ Net(nM, hit) = -Net(M, hit) /\ Net(nI, hit) = -Net(I, hit)
      /\ Net(nH, C) = -Net(Held, C) /\ Net(nH, hit) = -Net(Held, hit)
  <2> HIDE DEF M, I, C
  <2> QED BY <1>1, <1>3, NetMinus DEF Minus
<1>8. Net(E, hit) \in 0..u
  BY SlipOnce
<1>9. Carried(hit, lo, hi) = Net(M, hit) /\ Offered(hit, lo, hi) = Net(I, hit)
  BY <1>3, CarriedIs, OfferedIs
<1> HIDE DEF M, I, R, E, u, nMs, nM, nH, nI
<1>10. 2 * Net(MsOf, C) + 2 * Net(M, hit) <= 2 * Net(MsOf, hit) + Net(E, hit)
  <2>1. \A g \in hit : 2 * Net(MsOf, Pieces(g, lo, hi)) + 2 * M[g] <= 2 * MsOf[g] + E[g]
    BY <1>5
  <2> QED BY <1>1, <1>2, <2>1, CutsNet
<1>11. 2 * Net(nMs, C) + 2 * Net(nM, hit) <= 2 * Net(nMs, hit) + Net(E, hit)
  <2>1. \A g \in hit : 2 * Net(nMs, Pieces(g, lo, hi)) + 2 * nM[g] <= 2 * nMs[g] + E[g]
    <3> TAKE g \in hit
    <3>1. /\ 2 * MsOf[g] <= 2 * Net(MsOf, Pieces(g, lo, hi)) + 2 * M[g] + E[g]
          /\ Net(nMs, Pieces(g, lo, hi)) = -Net(MsOf, Pieces(g, lo, hi))
          /\ Net(MsOf, Pieces(g, lo, hi)) \in Int
      BY <1>5
    <3> QED BY <1>6, <3>1
  <2> QED BY <1>2, <1>6, <2>1, CutsNet
<1>12. 2 * Net(Raised, C) + 2 * Net(R, hit) <= 2 * Net(Raised, hit) + Net(E, hit)
  <2>1. \A g \in hit : 2 * Net(Raised, Pieces(g, lo, hi)) + 2 * R[g] <= 2 * Raised[g] + E[g]
    BY <1>5
  <2> QED BY <1>2, <2>1, CutsNet
<1>13. 2 * Net(nH, C) + 2 * Net(nI, hit) <= 2 * Net(nH, hit) + Net(E, hit)
  <2>1. \A g \in hit : 2 * Net(nH, Pieces(g, lo, hi)) + 2 * nI[g] <= 2 * nH[g] + E[g]
    <3> TAKE g \in hit
    <3>1. /\ 2 * Held[g] <= 2 * Net(Held, Pieces(g, lo, hi)) + 2 * I[g] + E[g]
          /\ Net(nH, Pieces(g, lo, hi)) = -Net(Held, Pieces(g, lo, hi))
          /\ Net(Held, Pieces(g, lo, hi)) \in Int
      BY <1>5
    <3> QED BY <1>6, <3>1
  <2> QED BY <1>2, <1>6, <2>1, CutsNet
<1>14. /\ Net(M, hit) \in Int /\ Net(I, hit) \in Int /\ Net(R, hit) \in Nat
       /\ Net(M, hit) <= Net(R, hit) /\ Net(I, hit) <= Net(M, hit)
  <2>1. Net(M, hit) \in Int /\ Net(I, hit) \in Int
    BY <1>1, <1>3, NetAdd
  <2>2. Net(R, hit) \in Nat
    BY <1>1, <1>3, NetOfNat
  <2>3. Net(M, hit) <= Net(R, hit)
    BY <1>1, <1>2, <1>3, <1>4, NetMost
  <2>4. Net(I, hit) <= Net(M, hit)
    BY <1>1, <1>3, <1>4, NetMost
  <2> QED BY <2>1, <2>2, <2>3, <2>4
<1>15. /\ Net(MsOf, C) \in Int /\ Net(MsOf, hit) \in Int /\ Net(Raised, C) \in Int
       /\ Net(Raised, hit) \in Int /\ Net(Held, C) \in Int /\ Net(Held, hit) \in Int
  <2> HIDE DEF C
  <2> QED BY <1>1, <1>2, <1>3, NetAdd
<1> HIDE DEF C
<1>16. /\ 2 * Net(MsOf, C) + 2 * Net(M, hit) <= 2 * Net(MsOf, hit) + u
       /\ 2 * Net(MsOf, hit) <= 2 * Net(MsOf, C) + 2 * Net(M, hit) + u
       /\ 2 * Net(Raised, C) + 2 * Net(R, hit) <= 2 * Net(Raised, hit) + u
       /\ 2 * Net(Held, hit) <= 2 * Net(Held, C) + 2 * Net(I, hit) + u
  BY <1>1, <1>7, <1>8, <1>10, <1>11, <1>12, <1>13, <1>14, <1>15
<1> QED BY <1>9, <1>14, <1>16 DEF C, R, u

-----------------------------------------------------------------------------
(* The settlement                                                            *)

LEMMA Together ==
    ASSUME NEW A, Laid(A), NEW B, Laid(B), \A g \in A, h \in B : Apart(g, h)
    PROVE  /\ Laid(A \cup B)
           /\ \A F \in [Segment -> Int] : Net(F, A \cup B) = Net(F, A) + Net(F, B)
<1>1. \A g \in A \cup B : g \in Segment /\ g.s < g.e /\ g.s \in Nat /\ g.e \in Nat
  BY DEF Laid, Segment
<1>2. A \cap B = {}
  BY <1>1 DEF Apart
<1>3. /\ IsFiniteSet(A) /\ IsFiniteSet(B) /\ IsFiniteSet(A \cup B)
      /\ A \in SUBSET Segment /\ B \in SUBSET Segment
  BY FS_Union DEF Laid
<1>4. ASSUME NEW g \in A \cup B, NEW h \in A \cup B
      PROVE  g = h \/ Apart(g, h)
  BY DEF Laid, Apart
<1>5. A \cup B \in SUBSET Segment /\ \A g \in A \cup B : g.s < g.e
  BY <1>1
<1>6. Laid(A \cup B)
  BY <1>3, <1>4, <1>5 DEF Laid
<1>7. \A F \in [Segment -> Int] : Net(F, A \cup B) = Net(F, A) + Net(F, B)
  BY <1>2, <1>3, NetUnion
<1> QED BY <1>6, <1>7

LEMMA Alone ==
    ASSUME NEW g \in Segment, g.s < g.e
    PROVE  Laid({g}) /\ \A F \in [Segment -> Int] : Net(F, {g}) = F[g]
<1>1. IsFiniteSet({g}) /\ {g} \in SUBSET Segment /\ {g} \ {g} = {} /\ g \in {g}
  BY FS_Singleton
<1>2. ASSUME NEW F \in [Segment -> Int]
      PROVE  Net(F, {g}) = F[g]
  <2>1. Net(F, {g}) = F[g] + Net(F, {g} \ {g})
    BY <1>1, NetAdd
  <2>2. F[g] \in Int
    OBVIOUS
  <2> QED BY <1>1, <2>1, <2>2, NetNone
<1>3. Laid({g})
  BY <1>1 DEF Laid
<1> QED BY <1>2, <1>3

Beside(g, lo, hi) == g.e <= lo \/ hi <= g.s

\* The stretches a new one overlaps.
Hit(segs, lo, hi) == {g \in segs : Overlap(g, lo, hi) > 0}

\* The stretches beside the new one, whole and cut.
LEMMA KeptParts ==
    ASSUME NEW segs, Laid(segs), NEW lo \in Nat, NEW hi \in Nat, lo < hi, NEW hit,
           hit = Hit(segs, lo, hi)
    PROVE  /\ Laid(hit) /\ Laid(segs \ hit) /\ Laid(Cuts(hit, lo, hi))
           /\ \A g \in hit : Overlap(g, lo, hi) > 0
           /\ \A g \in segs \ hit, p \in Cuts(hit, lo, hi) : Apart(g, p)
           /\ \A g \in (segs \ hit) \cup Cuts(hit, lo, hi) : Beside(g, lo, hi)
           /\ \A p \in Cuts(hit, lo, hi) : \E g \in hit : g.s <= p.s /\ p.e <= g.e
<1> DEFINE C == Cuts(hit, lo, hi)
           out == segs \ hit
<1>1. hit = {g \in segs : Overlap(g, lo, hi) > 0}
  BY DEF Hit
<1>2. \A g \in segs : g \in Segment /\ g.s < g.e /\ g.s \in Nat /\ g.e \in Nat
  BY DEF Laid, Segment
<1>3. /\ Laid(hit) /\ Laid(out) /\ out \cup hit = segs /\ out \cap hit = {}
  <2>1. IsFiniteSet(hit) /\ IsFiniteSet(out)
    BY <1>1, FS_Subset DEF Laid
  <2> QED BY <1>1, <2>1 DEF Laid
<1>4. \A g \in hit : Overlap(g, lo, hi) > 0
  BY <1>1
<1>5. \A g \in out : g \in segs /\ (g.e <= lo \/ hi <= g.s)
  <2> TAKE g \in out
  <2>1. ~(Overlap(g, lo, hi) > 0) /\ g \in segs
    BY <1>1
  <2>2. Overlap(g, lo, hi) \in Nat /\ (Overlap(g, lo, hi) = 0 => g.e <= lo \/ hi <= g.s)
    BY <1>2, <2>1, OverlapFacts, InsideIsInt
  <2> QED BY <2>1, <2>2
<1> HIDE DEF out
<1>6. /\ Laid(C)
      /\ \A p \in C : p.e <= lo \/ hi <= p.s
      /\ \A p \in C : \E g \in hit : g.s <= p.s /\ p.e <= g.e
  BY <1>3, <1>4, CutsLaid
<1> HIDE DEF C
<1>7. \A g \in out, p \in C : Apart(g, p)
  <2> TAKE g \in out, p \in C
  <2>1. PICK h \in hit : h.s <= p.s /\ p.e <= h.e
    BY <1>6
  <2>2. g \in segs /\ h \in segs /\ g # h
    BY <1>3, <2>1
  <2>3. g.e <= h.s \/ h.e <= g.s
    BY <2>2 DEF Laid, Apart
  <2>4. p.s \in Nat /\ p.e \in Nat
    BY <1>6 DEF Laid, Segment
  <2> QED BY <1>2, <2>1, <2>2, <2>3, <2>4 DEF Apart
<1> QED BY <1>3, <1>4, <1>5, <1>6, <1>7 DEF out, C, Beside


\* The row after a stretch is laid on it: its total is the old one and the charge, to a
\* millisecond, and to the sample beside the others; its money above zero is no more than
\* that; and what the stretches hold within their lengths takes the charge in, to a
\* millisecond and by what it goes beyond the new stretch.
LEMMA KeptHolds ==
    ASSUME NEW segs, Laid(segs), NEW lo \in Nat, NEW hi \in Nat, lo < hi, NEW hit,
           hit = Hit(segs, lo, hi),
           NEW charge \in Nat, Whole(charge) = charge,
           NEW new \in Segment, new.s = lo, new.e = hi,
           new.ms = Whole(Carried(hit, lo, hi) + charge)
    PROVE  LET K == ((segs \ hit) \cup Cuts(hit, lo, hi)) \cup {new}
               u == IF hit = {} THEN 0 ELSE SamplesPerMs
           IN  /\ Laid(K)
               /\ Net(MsOf, K) - (Net(MsOf, segs) + charge) \in -u..u
               /\ Net(Raised, K) <= Net(Raised, segs) + charge + u
               /\ \A d \in Nat :
                     2 * Offered(hit, lo, hi) + 2 * charge <= 2 * (hi - lo) + 2 * d + SamplesPerMs
                     => Net(Held, segs) + charge <= Net(Held, K) + d + SamplesPerMs
<1> DEFINE C == Cuts(hit, lo, hi)
           out == segs \ hit
           v == SamplesPerMs
           mv == Carried(hit, lo, hi)
           up == Net(RaisedMoved(lo, hi), hit)
           off == Offered(hit, lo, hi)
           u == IF hit = {} THEN 0 ELSE v
           w == new.ms
<1>1. /\ Laid(hit) /\ Laid(out) /\ Laid(C)
      /\ \A g \in hit : Overlap(g, lo, hi) > 0
      /\ \A g \in out, p \in C : Apart(g, p)
      /\ \A g \in out \cup C : g.e <= lo \/ hi <= g.s
  <2>1. Laid(hit) /\ Laid(segs \ hit) /\ Laid(Cuts(hit, lo, hi))
    BY KeptParts
  <2>2. \A g \in hit : Overlap(g, lo, hi) > 0
    BY KeptParts
  <2>3. \A g \in segs \ hit, p \in Cuts(hit, lo, hi) : Apart(g, p)
    BY KeptParts
  <2>4. \A g \in (segs \ hit) \cup Cuts(hit, lo, hi) : Beside(g, lo, hi)
    BY KeptParts, ZenonT(60)
  <2> QED BY <2>1, <2>2, <2>3, <2>4 DEF Beside
<1>2. out \cup hit = segs /\ out \cap hit = {}
  BY DEF Hit
<1>3. MsOf \in [Segment -> Int] /\ Raised \in [Segment -> Int] /\ Held \in [Segment -> Int]
  <2>1. MsOf \in [Segment -> Int]
    BY InsideIsInt
  <2>2. Raised \in [Segment -> Nat] /\ Held \in [Segment -> Int]
    BY FieldFacts
  <2> QED BY <2>1, <2>2
<1>4. /\ 2 * Net(MsOf, C) + 2 * mv <= 2 * Net(MsOf, hit) + v
      /\ 2 * Net(MsOf, hit) <= 2 * Net(MsOf, C) + 2 * mv + v
      /\ 2 * Net(Raised, C) + 2 * up <= 2 * Net(Raised, hit) + v
      /\ 2 * Net(Held, hit) <= 2 * Net(Held, C) + 2 * off + v
      /\ mv \in Int /\ up \in Nat /\ mv <= up /\ off \in Int /\ off <= mv
      /\ v \in Nat \ {0}
  BY <1>1, CutsHold, LimitsAssumption
<1>5. hit = {} => /\ C = {} /\ mv = 0 /\ up = 0
  <2> SUFFICES ASSUME hit = {} PROVE C = {} /\ mv = 0 /\ up = 0
    OBVIOUS
  <2>1. mv = Net(MovedOf(lo, hi), hit)
    BY <1>1, CarriedIs DEF Laid
  <2> QED BY <2>1, NetNone DEF Cuts
<1>6. /\ w \in Int /\ 2 * w <= 2 * (mv + charge) + v /\ 2 * (mv + charge) <= 2 * w + v
      /\ mv = 0 => w = charge
  <2>1. mv + charge \in Int
    BY <1>4
  <2>2. w = Whole(mv + charge)
    OBVIOUS
  <2>3. mv = 0 => mv + charge = charge
    OBVIOUS
  <2> HIDE DEF mv, w, v
  <2>4. /\ Whole(mv + charge) \in Int
        /\ 2 * Whole(mv + charge) <= 2 * (mv + charge) + SamplesPerMs
        /\ 2 * (mv + charge) < 2 * Whole(mv + charge) + SamplesPerMs
    BY <2>1, WholeNear
  <2>5. mv = 0 => Whole(mv + charge) = charge
    BY <2>3
  <2> QED BY <1>4, <2>1, <2>2, <2>4, <2>5 DEF v
<1>7. /\ MsOf[new] = w /\ Raised[new] = (IF w > 0 THEN w ELSE 0)
      /\ Held[new] = (IF w < hi - lo THEN w ELSE hi - lo)
  BY FieldFacts
<1> HIDE DEF out, mv, up, off, w
<1>8. \A g \in out \cup C, h \in {new} : Apart(g, h)
  BY <1>1 DEF Apart
<1>9. Laid({new}) /\ \A F \in [Segment -> Int] : Net(F, {new}) = F[new]
  BY Alone
<1> DEFINE most == out \cup C
<1> HIDE DEF C
<1>10. Laid(most) /\ \A F \in [Segment -> Int] : Net(F, most) = Net(F, out) + Net(F, C)
  BY <1>1, Together
<1> HIDE DEF most
<1>11. Laid(most \cup {new}) /\ \A F \in [Segment -> Int] : Net(F, most \cup {new}) = Net(F, most) + Net(F, {new})
  BY <1>8, <1>9, <1>10, Together DEF most
<1> DEFINE K == most \cup {new}
<1>12. \A F \in [Segment -> Int] :
          /\ Net(F, K) = (Net(F, out) + Net(F, C)) + F[new]
          /\ Net(F, segs) = Net(F, out) + Net(F, hit)
          /\ Net(F, out) \in Int /\ Net(F, hit) \in Int /\ Net(F, C) \in Int
  <2> TAKE F \in [Segment -> Int]
  <2>1. Net(F, K) = (Net(F, out) + Net(F, C)) + F[new]
    BY <1>9, <1>10, <1>11
  <2>2. Net(F, segs) = Net(F, out) + Net(F, hit)
    BY <1>1, <1>2, NetUnion DEF Laid
  <2>3. Net(F, out) \in Int /\ Net(F, hit) \in Int /\ Net(F, C) \in Int
    BY <1>1, NetAdd DEF Laid
  <2> QED BY <2>1, <2>2, <2>3
<1> HIDE DEF K
<1>13. /\ hit = {} => \A F \in [Segment -> Int] : Net(F, C) = 0 /\ Net(F, hit) = 0
       /\ u \in Nat /\ (hit = {} => u = 0) /\ (hit # {} => u = v)
  BY <1>4, <1>5, NetNone
<1> HIDE DEF u, v
<1>14. Net(MsOf, K) - (Net(MsOf, segs) + charge) \in -u..u
  <2>1. /\ Net(MsOf, K) = (Net(MsOf, out) + Net(MsOf, C)) + w
        /\ Net(MsOf, segs) = Net(MsOf, out) + Net(MsOf, hit)
        /\ Net(MsOf, out) \in Int /\ Net(MsOf, hit) \in Int /\ Net(MsOf, C) \in Int
    BY <1>3, <1>7, <1>12
  <2>2. CASE hit = {}
    <3>1. Net(MsOf, C) = 0 /\ Net(MsOf, hit) = 0 /\ u = 0 /\ w = charge
      BY <1>3, <1>5, <1>6, <1>13, <2>2
    <3> QED BY <2>1, <3>1
  <2>3. CASE hit # {}
    BY <1>4, <1>6, <1>13, <2>1, <2>3
  <2> QED BY <2>2, <2>3
<1>15. Net(Raised, K) <= Net(Raised, segs) + charge + u
  <2>1. /\ Net(Raised, K) = (Net(Raised, out) + Net(Raised, C)) + (IF w > 0 THEN w ELSE 0)
        /\ Net(Raised, segs) = Net(Raised, out) + Net(Raised, hit)
        /\ Net(Raised, out) \in Int /\ Net(Raised, hit) \in Int /\ Net(Raised, C) \in Int
    BY <1>3, <1>7, <1>12
  <2>2. CASE hit = {}
    <3>1. Net(Raised, C) = 0 /\ Net(Raised, hit) = 0 /\ u = 0 /\ w = charge
      BY <1>3, <1>5, <1>6, <1>13, <2>2
    <3> QED BY <2>1, <3>1
  <2>3. CASE hit # {}
    BY <1>4, <1>6, <1>13, <2>1, <2>3
  <2> QED BY <2>2, <2>3
<1>16. ASSUME NEW d \in Nat, 2 * off + 2 * charge <= 2 * (hi - lo) + 2 * d + v
       PROVE  Net(Held, segs) + charge <= Net(Held, K) + d + v
  <2>1. /\ Net(Held, K) = (Net(Held, out) + Net(Held, C)) + (IF w < hi - lo THEN w ELSE hi - lo)
        /\ Net(Held, segs) = Net(Held, out) + Net(Held, hit)
        /\ Net(Held, out) \in Int /\ Net(Held, hit) \in Int /\ Net(Held, C) \in Int
    BY <1>3, <1>7, <1>12
  <2> QED BY <1>4, <1>6, <1>16, <2>1
<1> QED BY <1>11, <1>14, <1>15, <1>16 DEF K, most, out, C, u, v, off

\* The stretches of a row, or of none.
Segs(state) == IF state = NoRow THEN {} ELSE state.segments

\* A row, or none, whose stretches hold n to within k milliseconds, and no more than that
\* even without what is below zero.
RowHolds(state, n, k) ==
    IF state = NoRow THEN n = 0 /\ k = 0
    ELSE /\ state \in CoverRow
         /\ Laid(state.segments)
         /\ Cardinality(state.segments) <= MaxStretches
         /\ state.credits <= Credits
         /\ Net(MsOf, state.segments) - n \in -Samples(k)..Samples(k)
         /\ Net(Raised, state.segments) <= n + Samples(k)

\* What an outcome for `full` may be, when the row before held n to within k milliseconds.
OutcomeOK(o, n, k, full) ==
    /\ o.charge \in 0..full /\ o.let = full - o.charge
    /\ o.told \in {"no", "apart", "over"} /\ (o.told # "no" => o.next # NoRow)
    /\ RowHolds(o.next, IF o.told = "no" THEN n ELSE n + o.charge,
                        IF o.told = "over" THEN k + 1 ELSE k)

LEMMA RowsDiffer ==
    ASSUME NEW row \in CoverRow \cup ClaimRow
    PROVE  row # NoRow
BY NoRowAssumption

LEMMA OneMore ==
    ASSUME NEW k \in Nat
    PROVE  Samples(k) \in Nat /\ Samples(k + 1) = Samples(k) + SamplesPerMs /\ k <= Samples(k)
<1>1. SamplesPerMs \in Nat /\ 1 <= SamplesPerMs
  BY LimitsAssumption
<1> DEFINE u == SamplesPerMs
<1>2. u * (k + 1) = u * k + u /\ u * k \in Nat
  BY <1>1
<1>3. k <= u * k
  <2>1. u = 1 + (u - 1) /\ u - 1 \in Nat
    BY <1>1
  <2> DEFINE p == u - 1
  <2>2. u = 1 + p /\ p \in Nat
    BY <2>1
  <2> HIDE DEF u, p
  <2>3. (1 + p) * k = k + p * k /\ p * k \in Nat
    BY <2>2
  <2> QED BY <2>2, <2>3
<1> QED BY <1>2, <1>3 DEF Samples

\* The stretches of a row, whatever it remembers.
LEMMA SegsLaid ==
    ASSUME NEW state, NEW n \in Nat, NEW k \in Nat, RowHolds(state, n, k)
    PROVE  /\ Laid(Segs(state)) /\ state \in CoverRow \cup {NoRow}
           /\ Net(MsOf, Segs(state)) - n \in -Samples(k)..Samples(k)
           /\ Net(Raised, Segs(state)) <= n + Samples(k)
<1>1. CASE state = NoRow
  <2>1. Laid({}) /\ Net(MsOf, {}) = 0 /\ Net(Raised, {}) = 0
    BY FS_EmptySet, NetNone DEF Laid
  <2>2. Samples(k) \in Nat
    BY OneMore
  <2> QED BY <1>1, <2>1, <2>2 DEF RowHolds, Segs
<1>2. CASE state # NoRow
  BY <1>2 DEF RowHolds, Segs
<1> QED BY <1>1, <1>2

LEMMA UntouchedOK ==
    ASSUME NEW state, NEW n \in Nat, NEW k \in Nat, RowHolds(state, n, k), NEW full \in Nat
    PROVE  OutcomeOK(Untouched(state, full), n, k, full)
<1> DEFINE o == Untouched(state, full)
<1>1. o.charge = full /\ o.next = state /\ o.told = "no" /\ o.let = 0
  BY DEF Untouched
<1> HIDE DEF o
<1>2. o.charge \in 0..full /\ o.let = full - o.charge
  <2>1. full \in 0..full /\ full - full = 0
    OBVIOUS
  <2> QED BY <1>1, <2>1
<1>3. RowHolds(o.next, IF o.told = "no" THEN n ELSE n + o.charge, IF o.told = "over" THEN k + 1 ELSE k)
  BY <1>1
<1>4. OutcomeOK(o, n, k, full)
  BY <1>1, <1>2, <1>3 DEF OutcomeOK
<1> QED BY <1>4 DEF o

\* What a settlement that coverage does not refuse comes to.
Drawn(state, kind, lo, hi) == {g \in Hit(Segs(state), lo, hi) : Draws(kind, g)}

Settled(o, state, kind, lo, hi, basis, full) ==
    LET segs == Segs(state)
        hit == Hit(segs, lo, hi)
        x == Offered(Drawn(state, kind, lo, hi), lo, hi)
        credits == IF state = NoRow THEN 0 ELSE state.credits
    IN  /\ kind # "user_retranscribe"
        /\ o.charge \in 0..full /\ Whole(o.charge) = o.charge /\ o.let = full - o.charge
        /\ o.told = IF hit = {} THEN "apart" ELSE "over"
        /\ o.next \in CoverRow /\ Cardinality(o.next.segments) <= MaxStretches
        /\ o.next.credits = credits + (IF o.charge < full THEN 1 ELSE 0)
        /\ o.charge < full => /\ x > 0 /\ state # NoRow /\ BudgetLeft(state)
                              /\ \/ basis <= x + Tolerance(x)
                                 \/ o.charge = Most(0, Whole(basis - x))
        /\ x > 0 /\ BudgetLeft(state) => o.charge <= Most(0, Whole(basis - x))
        /\ \E new \in Segment :
              /\ new.s = lo /\ new.e = hi /\ new.by = IF kind = "live" THEN "l" ELSE "r"
              /\ new.ms = Whole(Carried(hit, lo, hi) + o.charge)
              /\ o.next.segments = ((segs \ hit) \cup Cuts(hit, lo, hi)) \cup {new}

LEMMA SettleIs ==
    ASSUME NEW state \in CoverRow \cup {NoRow}, Laid(Segs(state)), NEW kind,
           NEW lo \in Nat, NEW hi \in Nat, lo < hi, NEW basis \in Nat, NEW proposed \in Nat,
           NEW op \in Ops \cup {NoOp}, NEW at \in Nat, NEW o,
           o = Settle(state, kind, lo, hi, basis, proposed, op, at)
    PROVE  \/ o = Untouched(state, Whole(proposed))
           \/ Settled(o, state, kind, lo, hi, basis, Whole(proposed))
<1> DEFINE cur == IF state = NoRow THEN [EmptyCover EXCEPT !.made = at] ELSE state
           hit == {g \in cur.segments : Overlap(g, lo, hi) > 0}
           drawn == {g \in hit : Draws(kind, g)}
           offered == Offered(drawn, lo, hi)
           covered == Overlapped(drawn, lo, hi) >= hi - lo
           left == IF covered /\ basis <= offered + Tolerance(offered)
                   THEN 0 ELSE Most(0, Whole(basis - offered))
           full == Whole(proposed)
           charge == IF offered > 0 /\ BudgetLeft(cur) THEN Least(full, left) ELSE full
           new == [s |-> lo, e |-> hi, by |-> IF kind = "live" THEN "l" ELSE "r",
                   ms |-> Whole(Carried(hit, lo, hi) + charge)]
           kept == (cur.segments \ hit) \cup (UNION {Pieces(g, lo, hi) : g \in hit}) \cup {new}
           credited == charge < full
           refused == \/ kind = "user_retranscribe"
                      \/ Full(cur.segments)
                      \/ Cardinality(kept) > MaxStretches
           row == [cur EXCEPT !.segments = kept,
                              !.credits = @ + (IF credited THEN 1 ELSE 0),
                              !.ops = IF credited /\ op # NoOp THEN @ \cup {op} ELSE @]
           res == [charge |-> charge, let |-> full - charge,
                   told |-> IF hit = {} THEN "apart" ELSE "over", next |-> row]
           segs == Segs(state)
           credits == IF state = NoRow THEN 0 ELSE state.credits
<1>1. Settle(state, kind, lo, hi, basis, proposed, op, at)
      = IF refused THEN Untouched(state, full) ELSE res
  BY DEF Settle
<1>2. /\ cur \in CoverRow /\ cur.segments = segs /\ cur.credits = credits
      /\ state # NoRow => cur = state
  <2>1. CASE state # NoRow
    BY <2>1 DEF Segs
  <2>2. CASE state = NoRow
    <3> DEFINE e == [EmptyCover EXCEPT !.made = at]
    <3>1. e \in CoverRow /\ e.segments = {} /\ e.credits = 0
      BY DEF EmptyCover, CoverRow
    <3> QED BY <2>2, <3>1 DEF Segs
  <2> QED BY <2>1, <2>2
<1> HIDE DEF cur
<1>3. hit = Hit(segs, lo, hi) /\ drawn = Drawn(state, kind, lo, hi)
  BY <1>2 DEF Hit, Drawn
<1>4. /\ Laid(segs) /\ Laid(hit) /\ drawn \in SUBSET hit /\ IsFiniteSet(drawn)
      /\ drawn \in SUBSET Segment
  <2>1. Laid(hit) /\ Laid(segs)
    BY <1>3, KeptParts
  <2>2. drawn \in SUBSET hit
    OBVIOUS
  <2> HIDE DEF hit, drawn
  <2>3. IsFiniteSet(drawn)
    BY <2>1, <2>2, FS_Subset DEF Laid
  <2> QED BY <2>1, <2>2, <2>3 DEF Laid
<1> HIDE DEF segs
<1>5. offered \in Int /\ (offered > 0 => state # NoRow)
  <2>1. InsideOf(lo, hi) \in [Segment -> Int]
    BY InsideIsInt
  <2>2. Net(InsideOf(lo, hi), drawn) \in Int
    BY <1>4, <2>1, NetAdd
  <2>3. offered = Net(InsideOf(lo, hi), drawn)
    BY <1>4, OfferedIs
  <2>4. state = NoRow => drawn = {}
    BY <1>2 DEF Segs, segs
  <2>5. Net(InsideOf(lo, hi), {}) = 0
    BY NetNone
  <2> HIDE DEF drawn, offered
  <2>6. state = NoRow => offered = 0
    BY <2>3, <2>4, <2>5
  <2> QED BY <2>2, <2>3, <2>6
<1>6. full \in Nat /\ Whole(full) = full
  <2>1. full \in Nat /\ full = Samples(Ms(proposed)) /\ Ms(proposed) \in Int
    BY WholeNear DEF Whole
  <2> QED BY <2>1, WholeOfWhole
<1> DEFINE y == Whole(basis - offered)
<1>7. y \in Int /\ Whole(y) = y
  <2> HIDE DEF offered
  <2>1. basis - offered \in Int
    BY <1>5
  <2>2. y \in Int /\ y = Samples(Ms(basis - offered)) /\ Ms(basis - offered) \in Int
    BY <2>1, WholeNear DEF Whole
  <2> QED BY <2>2, WholeOfWhole
<1>8. left \in Nat /\ Whole(left) = left /\ left <= Most(0, y)
      /\ (basis <= offered + Tolerance(offered) \/ left = Most(0, y))
  <2>1. Whole(0) = 0
    BY WholeOfWhole, LimitsAssumption DEF Samples
  <2> HIDE DEF y, covered, offered
  <2>2. Most(0, y) \in Nat /\ Whole(Most(0, y)) = Most(0, y)
    BY <1>7, <2>1 DEF Most
  <2>3. CASE covered /\ basis <= offered + Tolerance(offered)
    BY <2>1, <2>2, <2>3
  <2>4. CASE ~(covered /\ basis <= offered + Tolerance(offered))
    <3>1. left = Most(0, y)
      BY <2>4 DEF y
    <3> QED BY <2>2, <3>1
  <2> QED BY <2>3, <2>4
<1> HIDE DEF left, full
<1>9. /\ charge \in 0..full /\ Whole(charge) = charge
      /\ charge < full => offered > 0 /\ BudgetLeft(cur) /\ charge = left
      /\ offered > 0 /\ BudgetLeft(cur) => charge <= left
  <2> HIDE DEF offered
  <2>1. CASE offered > 0 /\ BudgetLeft(cur)
    BY <1>6, <1>8, <2>1 DEF Least
  <2>2. CASE ~(offered > 0 /\ BudgetLeft(cur))
    BY <1>6, <2>2
  <2> QED BY <2>1, <2>2
<1> HIDE DEF charge
<1>10. CASE refused
  BY <1>1, <1>10 DEF full
<1>11. CASE ~refused
  <2>1. /\ cur.credits \in Nat /\ cur.ops \in SUBSET Ops /\ cur.made \in Nat
        /\ cur = [segments |-> cur.segments, credits |-> cur.credits, ops |-> cur.ops, made |-> cur.made]
    BY <1>2 DEF CoverRow
  <2> DEFINE cr == cur.credits + (IF credited THEN 1 ELSE 0)
             ops == IF credited /\ op # NoOp THEN cur.ops \cup {op} ELSE cur.ops
  <2>2. /\ row.segments = kept /\ row.credits = cr /\ row.ops = ops /\ row.made = cur.made
        /\ row = [segments |-> kept, credits |-> cr, ops |-> ops, made |-> cur.made]
    <3>1. row = [cur EXCEPT !.segments = kept, !.credits = cr, !.ops = ops]
      OBVIOUS
    <3> HIDE DEF cr, ops, row
    <3> QED BY <2>1, <3>1
  <2>3. /\ new \in Segment /\ new.s = lo /\ new.e = hi
        /\ new.by = IF kind = "live" THEN "l" ELSE "r"
        /\ new.ms = Whole(Carried(hit, lo, hi) + charge)
    <3>1. Carried(hit, lo, hi) \in Int
      <4>1. MovedOf(lo, hi) \in [Segment -> Int] /\ hit \in SUBSET Segment /\ IsFiniteSet(hit)
        BY <1>4, InsideIsInt DEF Laid
      <4> HIDE DEF hit
      <4>2. Net(MovedOf(lo, hi), hit) \in Int
        BY <4>1, NetAdd
      <4> QED BY <4>1, <4>2, CarriedIs
    <3> HIDE DEF hit
    <3>2. Carried(hit, lo, hi) + charge \in Int
      BY <1>6, <1>9, <3>1
    <3>3. Whole(Carried(hit, lo, hi) + charge) \in Int
      BY <3>2, WholeNear
    <3> QED BY <3>3 DEF Segment
  <2>4. kept = ((segs \ hit) \cup Cuts(hit, lo, hi)) \cup {new}
    <3> HIDE DEF hit, new
    <3> QED BY <1>2 DEF Cuts
  <2>5. Laid(kept)
    <3> HIDE DEF hit, new, kept
    <3>1. charge \in Nat
      BY <1>6, <1>9
    <3> QED BY <1>3, <1>4, <1>9, <2>3, <2>4, <3>1, KeptHolds
  <2>6. Cardinality(kept) <= MaxStretches
    <3> HIDE DEF kept
    <3>1. Cardinality(kept) \in Nat /\ MaxStretches \in Nat
      BY <2>5, FS_CardinalityType, LimitsAssumption DEF Laid
    <3> QED BY <1>11, <3>1
  <2>7. row \in CoverRow
    <3> HIDE DEF row, kept
    <3>1. cr \in Nat /\ ops \in SUBSET Ops
      BY <2>1
    <3> HIDE DEF cr, ops
    <3> QED BY <2>1, <2>2, <2>5, <3>1 DEF CoverRow, Laid
  <2>8. o.charge = charge /\ o.let = full - charge /\ o.next = row
        /\ o.told = IF hit = {} THEN "apart" ELSE "over"
    <3>1. o = res
      BY <1>1, <1>11
    <3> QED BY <3>1
  <2> HIDE DEF new, row, kept, hit, drawn
  <2>9. charge < full => /\ offered > 0 /\ state # NoRow /\ BudgetLeft(state)
                         /\ \/ basis <= offered + Tolerance(offered)
                            \/ charge = Most(0, Whole(basis - offered))
    <3> HIDE DEF offered
    <3> QED BY <1>2, <1>5, <1>8, <1>9
  <2>10. offered > 0 /\ BudgetLeft(state) => charge <= Most(0, Whole(basis - offered))
    <3> HIDE DEF offered, y
    <3>1. Most(0, y) \in Int
      BY <1>7 DEF Most
    <3>2. charge \in Int
      BY <1>6, <1>9
    <3>3. offered > 0 /\ BudgetLeft(state) => charge <= Most(0, y)
      BY <1>2, <1>5, <1>8, <1>9, <3>1, <3>2
    <3> QED BY <3>3 DEF y
  <2>11. kind # "user_retranscribe"
    BY <1>11
  <2> DEFINE x == Offered(Drawn(state, kind, lo, hi), lo, hi)
  <2>12. x = offered
    BY <1>3
  <2>13. /\ o.charge \in 0..full /\ Whole(o.charge) = o.charge /\ o.let = full - o.charge
         /\ o.told = IF hit = {} THEN "apart" ELSE "over"
         /\ o.next \in CoverRow /\ Cardinality(o.next.segments) <= MaxStretches
         /\ o.next.credits = credits + (IF o.charge < full THEN 1 ELSE 0)
    <3> HIDE DEF credits, full
    <3> QED BY <1>2, <1>9, <2>2, <2>6, <2>7, <2>8
  <2>14. \E nu \in Segment :
              /\ nu.s = lo /\ nu.e = hi /\ nu.by = IF kind = "live" THEN "l" ELSE "r"
              /\ nu.ms = Whole(Carried(hit, lo, hi) + o.charge)
              /\ o.next.segments = ((segs \ hit) \cup Cuts(hit, lo, hi)) \cup {nu}
    <3>1. new.ms = Whole(Carried(hit, lo, hi) + o.charge)
      BY <2>3, <2>8
    <3>2. o.next.segments = ((segs \ hit) \cup Cuts(hit, lo, hi)) \cup {new}
      BY <2>2, <2>4, <2>8
    <3> QED BY <2>3, <3>1, <3>2
  <2> HIDE DEF x, offered
  <2>15. /\ o.charge < full => /\ x > 0 /\ state # NoRow /\ BudgetLeft(state)
                               /\ \/ basis <= x + Tolerance(x)
                                  \/ o.charge = Most(0, Whole(basis - x))
         /\ x > 0 /\ BudgetLeft(state) => o.charge <= Most(0, Whole(basis - x))
    BY <2>8, <2>9, <2>10, <2>12
  <2> QED BY <1>3, <2>11, <2>13, <2>14, <2>15 DEF Settled, x, full, segs
<1> QED BY <1>10, <1>11

LEMMA SettleOK ==
    ASSUME NEW state, NEW n \in Nat, NEW k \in Nat, RowHolds(state, n, k), NEW kind,
           NEW lo \in Nat, NEW hi \in Nat, lo < hi, NEW basis \in Nat, NEW proposed \in Nat,
           NEW op \in Ops \cup {NoOp}, NEW at \in Nat
    PROVE  OutcomeOK(Settle(state, kind, lo, hi, basis, proposed, op, at), n, k, Whole(proposed))
<1> DEFINE o == Settle(state, kind, lo, hi, basis, proposed, op, at)
           full == Whole(proposed)
           segs == Segs(state)
           hit == Hit(segs, lo, hi)
<1>1. full \in Nat
  BY WholeNear
<1>2. /\ Laid(segs) /\ state \in CoverRow \cup {NoRow}
      /\ Net(MsOf, segs) - n \in -Samples(k)..Samples(k)
      /\ Net(Raised, segs) <= n + Samples(k)
  BY SegsLaid
<1>3. o = Untouched(state, full) \/ Settled(o, state, kind, lo, hi, basis, full)
  <2> HIDE DEF o
  <2> QED BY <1>2, SettleIs DEF o
<1> HIDE DEF o, full, segs
<1>4. CASE o = Untouched(state, full)
  BY <1>1, <1>4, UntouchedOK DEF o, full
<1>5. CASE Settled(o, state, kind, lo, hi, basis, full)
  <2>1. /\ o.charge \in 0..full /\ Whole(o.charge) = o.charge /\ o.let = full - o.charge
        /\ o.told = IF hit = {} THEN "apart" ELSE "over"
        /\ o.next \in CoverRow /\ Cardinality(o.next.segments) <= MaxStretches
        /\ o.next.credits = (IF state = NoRow THEN 0 ELSE state.credits) + (IF o.charge < full THEN 1 ELSE 0)
        /\ o.charge < full => state # NoRow /\ BudgetLeft(state)
    BY <1>5 DEF Settled, segs
  <2>2. PICK new \in Segment :
            /\ new.s = lo /\ new.e = hi
            /\ new.ms = Whole(Carried(hit, lo, hi) + o.charge)
            /\ o.next.segments = ((segs \ hit) \cup Cuts(hit, lo, hi)) \cup {new}
    BY <1>5 DEF Settled, segs
  <2> DEFINE K == ((segs \ hit) \cup Cuts(hit, lo, hi)) \cup {new}
             u == IF hit = {} THEN 0 ELSE SamplesPerMs
             m == IF o.told = "no" THEN n ELSE n + o.charge
             j == IF o.told = "over" THEN k + 1 ELSE k
  <2>3. /\ Laid(K)
        /\ Net(MsOf, K) - (Net(MsOf, segs) + o.charge) \in -u..u
        /\ Net(Raised, K) <= Net(Raised, segs) + o.charge + u
    <3> DEFINE ch == o.charge
    <3>1. /\ ch \in Nat /\ Whole(ch) = ch /\ hit = Hit(segs, lo, hi)
          /\ new.s = lo /\ new.e = hi /\ new.ms = Whole(Carried(hit, lo, hi) + ch)
      BY <1>1, <2>1, <2>2
    <3> HIDE DEF hit, ch
    <3>2. Laid(K)
      BY <1>2, <3>1, KeptHolds
    <3>3. Net(MsOf, K) - (Net(MsOf, segs) + ch) \in -u..u
      BY <1>2, <3>1, KeptHolds
    <3>4. Net(Raised, K) <= Net(Raised, segs) + ch + u
      BY <1>2, <3>1, KeptHolds
    <3> QED BY <3>2, <3>3, <3>4 DEF ch
  <2>4. o.next.segments = K
    BY <2>2
  <2>5. /\ m = n + o.charge /\ Samples(j) = Samples(k) + u /\ Samples(k) \in Nat /\ u \in Nat
    BY <2>1, OneMore, LimitsAssumption
  <2>6. Net(MsOf, segs) \in Int /\ Net(Raised, segs) \in Int /\ Net(MsOf, K) \in Int /\ Net(Raised, K) \in Int
    <3>1. MsOf \in [Segment -> Int] /\ Raised \in [Segment -> Nat]
      <4>1. MsOf \in [Segment -> Int]
        BY InsideIsInt
      <4>2. Raised \in [Segment -> Nat]
        BY FieldFacts
      <4> QED BY <4>1, <4>2
    <3>2. Raised \in [Segment -> Int]
      BY <3>1
    <3> HIDE DEF K
    <3> QED BY <1>2, <2>3, <3>1, <3>2, NetAdd DEF Laid
  <2> HIDE DEF K, u, m, j
  <2>7. Net(MsOf, K) - m \in -Samples(j)..Samples(j) /\ Net(Raised, K) <= m + Samples(j)
    <3>1. o.charge \in Nat
      BY <1>1, <2>1
    <3> QED BY <1>2, <2>3, <2>5, <2>6, <3>1
  <2>8. o.next.credits <= Credits /\ o.next # NoRow
    <3>1. Credits \in Nat
      BY LimitsAssumption
    <3>2. o.next # NoRow
      BY <2>1, RowsDiffer
    <3>3. CASE state = NoRow
      BY <1>1, <2>1, <3>1, <3>2, <3>3
    <3>4. CASE state # NoRow
      <4>1. state.credits \in Nat /\ state.credits <= Credits
        BY <3>4 DEF RowHolds, CoverRow
      <4>2. o.charge < full => state.credits < Credits
        BY <2>1 DEF BudgetLeft
      <4> QED BY <2>1, <3>1, <3>2, <3>4, <4>1, <4>2
    <3> QED BY <3>3, <3>4
  <2>9. RowHolds(o.next, m, j)
    BY <2>1, <2>3, <2>4, <2>7, <2>8 DEF RowHolds
  <2> QED BY <2>1, <2>8, <2>9 DEF OutcomeOK, o, full, m, j
<1> QED BY <1>3, <1>4, <1>5

LEMMA CreditedReplayOK ==
    ASSUME NEW state, NEW n \in Nat, NEW k \in Nat, RowHolds(state, n, k), state # NoRow,
           NEW amount \in Nat, NEW claimCharge \in 0..amount
    PROVE  OutcomeOK(CreditedReplay(state, amount, claimCharge), n, k, Whole(amount))
<1> DEFINE full == Whole(amount)
           charge == Whole(claimCharge)
<1>1. full \in Nat /\ charge \in 0..full
  <2>1. claimCharge \in Int /\ amount \in Int /\ claimCharge <= amount /\ claimCharge >= 0
    OBVIOUS
  <2>2. full \in Nat /\ charge \in Nat
    BY <2>1, WholeNear
  <2>3. charge <= full
    BY <2>1, WholeMore
  <2> QED BY <2>2, <2>3
<1> HIDE DEF full, charge
<1>2. CASE ~BudgetLeft(state)
  BY <1>1, <1>2, UntouchedOK DEF CreditedReplay, full
<1>3. CASE BudgetLeft(state)
  <2> DEFINE row == [state EXCEPT !.credits = @ + 1]
             o == [charge |-> charge, next |-> row, told |-> "no", let |-> full - charge]
  <2>1. CreditedReplay(state, amount, claimCharge) = o
    BY <1>3 DEF CreditedReplay, full, charge
  <2>2. /\ state \in CoverRow /\ Laid(state.segments) /\ Cardinality(state.segments) <= MaxStretches
        /\ Net(MsOf, state.segments) - n \in -Samples(k)..Samples(k)
        /\ Net(Raised, state.segments) <= n + Samples(k) /\ state.credits \in Nat
    BY DEF RowHolds, CoverRow
  <2>3. row.credits = state.credits + 1 /\ row.segments = state.segments /\ row \in CoverRow
    BY <2>2 DEF CoverRow
  <2>4. row.credits <= Credits
    <3>1. Credits \in Nat
      BY LimitsAssumption
    <3> HIDE DEF row
    <3> QED BY <1>3, <2>2, <2>3, <3>1 DEF BudgetLeft
  <2> HIDE DEF row
  <2>5. RowHolds(row, n, k)
    BY <2>2, <2>3, <2>4, RowsDiffer DEF RowHolds
  <2>6. o.charge = charge /\ o.next = row /\ o.told = "no" /\ o.let = full - charge
    OBVIOUS
  <2> HIDE DEF o
  <2>7. RowHolds(o.next, IF o.told = "no" THEN n ELSE n + o.charge, IF o.told = "over" THEN k + 1 ELSE k)
    BY <2>5, <2>6
  <2>8. OutcomeOK(o, n, k, full)
    BY <1>1, <2>6, <2>7 DEF OutcomeOK
  <2> QED BY <2>1, <2>8 DEF full
<1> QED BY <1>2, <1>3

LEMMA ToleranceIsNat ==
    ASSUME NEW b \in Nat
    PROVE  Tolerance(b) \in Nat
<1>1. Slack \in Nat /\ SamplesPerMs \in Nat
  BY LimitsAssumption
<1>2. 2 * b \in Int /\ 100 * SamplesPerMs \in Nat \ {0}
  BY LimitsAssumption
<1> DEFINE q == Rounded(2 * b, 100 * SamplesPerMs)
<1>3. q \in Int
  BY <1>2, RoundedNear
<1> HIDE DEF q
<1>4. Most(Slack, q) \in Nat
  BY <1>1, <1>3 DEF Most
<1> QED BY <1>1, <1>4 DEF Tolerance, Samples, q

LEMMA ReplayChargeOK ==
    ASSUME NEW row \in ClaimRow, NEW amount \in Nat
    PROVE  LET d == ReplayCharge(row, amount)
               paid == Samples(row.billed)
           IN  /\ d.verdict \in {"replay_billed", "replay_free", "replay_excess"}
               /\ d.charge \in 0..amount /\ d.billed \in Nat /\ row.billed <= d.billed
               /\ d.verdict = "replay_billed" => d.charge = amount /\ d.billed = row.billed + Ms(amount)
               /\ d.verdict = "replay_free" => /\ d.charge = 0 /\ d.billed = row.billed
                                               /\ amount <= paid + Tolerance(paid)
               /\ d.verdict = "replay_excess" => paid + d.charge = amount /\ d.billed = Ms(amount)
               /\ paid \in Nat
<1> DEFINE paid == Samples(row.billed)
<1>1. row.billed \in Nat /\ row.replays \in Nat
  BY DEF ClaimRow
<1>2. paid \in Nat
  BY <1>1, OneMore
<1>3. Tolerance(paid) \in Nat
  <2> HIDE DEF paid
  <2> QED BY <1>2, ToleranceIsNat
<1>4. /\ Ms(amount) \in Nat
      /\ Ms(paid + amount) = row.billed + Ms(amount)
      /\ paid <= amount => row.billed <= Ms(amount)
  <2>1. Ms(amount) \in Nat
    BY WholeNear
  <2>2. Ms(paid + amount) = row.billed + Ms(amount)
    <3>1. row.billed \in Int /\ amount \in Int
      BY <1>1
    <3> QED BY <3>1, WholeShift
  <2>3. Ms(paid) = row.billed
    BY <1>1, WholeOfWhole
  <2> HIDE DEF paid
  <2>4. paid <= amount => Ms(paid) <= Ms(amount)
    BY <1>2, WholeMore
  <2> QED BY <2>1, <2>2, <2>3, <2>4
<1>5. CASE row.replays >= FreeReplays
  <2>1. ReplayCharge(row, amount)
        = [charge |-> amount, verdict |-> "replay_billed", billed |-> Ms(paid + amount)]
    BY <1>5 DEF ReplayCharge
  <2> HIDE DEF paid
  <2> QED BY <1>1, <1>2, <1>4, <2>1 DEF paid
<1>6. CASE ~(row.replays >= FreeReplays) /\ amount <= paid + Tolerance(paid)
  <2>1. ReplayCharge(row, amount)
        = [charge |-> 0, verdict |-> "replay_free", billed |-> row.billed]
    BY <1>6 DEF ReplayCharge
  <2> HIDE DEF paid
  <2> QED BY <1>1, <1>2, <1>6, <2>1 DEF paid
<1>7. CASE ~(row.replays >= FreeReplays) /\ ~(amount <= paid + Tolerance(paid))
  <2>1. ReplayCharge(row, amount)
        = [charge |-> amount - paid, verdict |-> "replay_excess", billed |-> Ms(amount)]
    BY <1>7 DEF ReplayCharge
  <2> HIDE DEF paid
  <2>2. paid <= amount
    BY <1>2, <1>3, <1>7
  <2> QED BY <1>1, <1>2, <1>4, <2>1, <2>2 DEF paid
<1> QED BY <1>5, <1>6, <1>7

-----------------------------------------------------------------------------
(* The inductive invariant                                                   *)

CallOK(c) ==
    /\ c.op \in Ops \cup {NoOp} /\ <<c.lo, c.hi>> \in Ranges
    /\ c.lo \in Nat /\ c.end \in Nat /\ c.lo < c.end
    /\ c.basis \in Nat /\ c.at \in Nat

SessionOK(s) ==
    /\ s.op \in Ops \cup {NoOp} /\ <<s.lo, s.hi>> \in Ranges
    /\ s.lo \in Nat /\ s.hi \in Nat /\ s.lo < s.hi

Sessions ==
    /\ IsFiniteSet(open) /\ Cardinality(open) <= MaxOpen /\ \A s \in open : SessionOK(s)
    /\ \A c \in owed : CallOK(c)
    /\ day \in Nat

\* What an operation was charged under its claim is no more than the claim says, and no
\* more than the longest session it decided on.
Payments ==
    \A op \in Ops : /\ claimed[op] <= Whole(longest[op])
                    /\ claims[op] = NoRow => claimed[op] = 0
                    /\ claims[op] # NoRow => claimed[op] <= Samples(claims[op].billed)

Ledger ==
    /\ claims \in [Ops -> ClaimRow \cup {NoRow}]
    /\ recorded \in Nat /\ cuts \in Nat /\ bill \in Nat /\ free \in Nat /\ excused \in BOOLEAN
    /\ claimed \in [Ops -> Nat] /\ longest \in [Ops -> Nat]
    /\ RowHolds(cover, recorded, cuts)
    /\ Payments

IInv == Sessions /\ Ledger

\* What the metering of a call comes to.
OutcomeIs(o) ==
    /\ o.charge \in Nat /\ o.let \in Nat /\ o.told \in {"no", "apart", "over"}
    /\ RowHolds(o.next, IF o.told = "no" THEN recorded ELSE recorded + o.charge,
                        IF o.told = "over" THEN cuts + 1 ELSE cuts)

ClaimIs(r, c) ==
    c.op # NoOp =>
        /\ r.claim \in ClaimRow
        /\ claims[c.op] # NoRow => claims[c.op].billed <= r.claim.billed

PaymentIs(broken, r, c) ==
    ClaimDecides(broken, r, c) =>
        \/ /\ claims[c.op] = NoRow
           /\ r.outcome.charge <= Whole(c.basis) /\ r.claim.billed = Ms(c.basis)
        \/ /\ claims[c.op] # NoRow
           /\ r.outcome.charge = 0
        \/ /\ claims[c.op] # NoRow
           /\ Samples(claims[c.op].billed) + r.outcome.charge <= Whole(c.basis)
           /\ r.claim.billed = Ms(c.basis)

LEMMA OutcomeUse ==
    ASSUME NEW o, NEW full \in Nat, recorded \in Nat, OutcomeOK(o, recorded, cuts, full)
    PROVE  OutcomeIs(o) /\ o.charge <= full
BY DEF OutcomeOK, OutcomeIs

LEMMA CoveredOK ==
    ASSUME Ledger, NEW c, CallOK(c), NEW at \in Nat, NEW broken, NEW proposed \in Nat
    PROVE  /\ OutcomeIs(Covered(broken, c, at, proposed))
           /\ Covered(broken, c, at, proposed).charge <= Whole(proposed)
<1> DEFINE o == Covered(broken, c, at, proposed)
           full == Whole(proposed)
<1>1. recorded \in Nat /\ cuts \in Nat /\ RowHolds(cover, recorded, cuts) /\ full \in Nat
  BY WholeNear DEF Ledger
<1>2. OutcomeOK(o, recorded, cuts, full)
  <2>1. CASE broken
    <3> HIDE DEF full
    <3>1. o = Untouched(cover, full)
      BY <2>1 DEF Covered, full
    <3> HIDE DEF o
    <3> QED BY <1>1, <3>1, UntouchedOK
  <2>2. CASE ~broken
    <3>1. o = Settle(cover, c.kind, c.lo, c.end, c.basis, proposed, c.op, at)
      BY <2>2 DEF Covered
    <3> QED BY <1>1, <3>1, SettleOK DEF CallOK
  <2> QED BY <2>1, <2>2
<1> HIDE DEF full
<1> QED BY <1>1, <1>2, OutcomeUse DEF full

LEMMA StepFacts ==
    ASSUME Ledger, NEW c, CallOK(c), NEW at \in Nat, NEW broken \in BOOLEAN
    PROVE  LET r == Step(broken, c, at)
           IN  OutcomeIs(r.outcome) /\ ClaimIs(r, c) /\ PaymentIs(broken, r, c)
<1> DEFINE r == Step(broken, c, at)
<1>1. /\ c.op \in Ops \cup {NoOp} /\ c.basis \in Nat /\ <<c.lo, c.hi>> \in Ranges
      /\ recorded \in Nat /\ cuts \in Nat /\ RowHolds(cover, recorded, cuts)
      /\ c.op # NoOp => claims[c.op] \in ClaimRow \cup {NoRow}
  BY DEF CallOK, Ledger
<1>2. Ms(c.basis) \in Nat /\ Whole(c.basis) \in Nat /\ Whole(c.basis) = Samples(Ms(c.basis))
  BY <1>1, WholeNear DEF Whole
<1>3. CASE c.op = NoOp
  <2>1. r.outcome = Covered(broken, c, at, c.basis)
    BY <1>3 DEF Step, MeterLive
  <2>2. OutcomeIs(r.outcome)
    BY <1>1, <2>1, CoveredOK
  <2> HIDE DEF r
  <2>3. ClaimIs(r, c) /\ PaymentIs(broken, r, c)
    BY <1>3 DEF ClaimIs, PaymentIs, ClaimDecides
  <2> QED BY <2>2, <2>3 DEF r
<1>4. CASE c.op # NoOp /\ claims[c.op] = NoRow
  <2>1. r = MeterFirst(broken, c, at)
    BY <1>4 DEF Step
  <2>2. /\ r.outcome = Covered(broken, c, at, c.basis)
        /\ r.claim = [made |-> at, billed |-> Ms(c.basis), replays |-> 0, range |-> <<c.lo, c.hi>>]
    BY <2>1 DEF MeterFirst
  <2>3. OutcomeIs(r.outcome) /\ r.outcome.charge <= Whole(c.basis)
    BY <1>1, <2>2, CoveredOK
  <2> HIDE DEF r
  <2>4. r.claim \in ClaimRow /\ r.claim.billed = Ms(c.basis)
    BY <1>1, <1>2, <2>2 DEF ClaimRow
  <2>5. ClaimIs(r, c) /\ PaymentIs(broken, r, c)
    BY <1>4, <2>3, <2>4 DEF ClaimIs, PaymentIs
  <2> QED BY <2>3, <2>5 DEF r
<1>5. CASE c.op # NoOp /\ claims[c.op] # NoRow /\ OtherBinding(c)
  <2>1. r = MeterUnbound(c)
    BY <1>5 DEF Step
  <2>2. r.outcome = Untouched(cover, c.basis) /\ r.claim = claims[c.op] /\ r.verdict = "replay_unbound"
    BY <2>1 DEF MeterUnbound
  <2>3. OutcomeIs(r.outcome)
    BY <1>1, <2>2, UntouchedOK, OutcomeUse
  <2> HIDE DEF r
  <2>4. r.claim \in ClaimRow /\ r.claim.billed <= r.claim.billed
    BY <1>1, <1>5, <2>2 DEF ClaimRow
  <2>5. ClaimIs(r, c)
    BY <2>2, <2>4 DEF ClaimIs
  <2>6. PaymentIs(broken, r, c)
    BY <2>2 DEF PaymentIs, ClaimDecides
  <2> QED BY <2>3, <2>5, <2>6 DEF r
<1>6. CASE c.op # NoOp /\ claims[c.op] # NoRow /\ ~OtherBinding(c)
  <2> DEFINE row == claims[c.op]
             d == ReplayCharge(row, c.basis)
             full == Whole(c.basis)
             some == Whole(d.charge)
  <2>1. r = MeterReplay(broken, c, at)
    BY <1>6 DEF Step
  <2>2. /\ r.verdict = d.verdict
        /\ r.claim = [row EXCEPT !.replays = @ + 1, !.billed = d.billed]
    BY <2>1 DEF MeterReplay
  <2>3. /\ d.verdict # "replay_billed" /\ broken => r.outcome = Untouched(cover, full)
        /\ d.verdict # "replay_billed" /\ ~broken /\ Credited(cover, c.op) =>
              r.outcome = CreditedReplay(cover, c.basis, d.charge)
        /\ d.verdict = "replay_excess" /\ ~broken /\ ~Credited(cover, c.op) =>
              r.outcome = Covered(broken, c, at, d.charge)
        /\ d.verdict = "replay_free" /\ ~broken /\ ~Credited(cover, c.op) =>
              r.outcome = Untouched(cover, d.charge)
        /\ d.verdict = "replay_billed" => r.outcome = Untouched(cover, d.charge)
    BY <2>1 DEF MeterReplay
  <2> HIDE DEF r
  <2>4. row \in ClaimRow
    BY <1>1, <1>6
  <2>5. /\ d.verdict \in {"replay_billed", "replay_free", "replay_excess"}
        /\ d.charge \in 0..c.basis /\ d.billed \in Nat /\ row.billed <= d.billed
        /\ d.verdict = "replay_free" => d.charge = 0
        /\ d.verdict = "replay_excess" =>
              Samples(row.billed) + d.charge = c.basis /\ d.billed = Ms(c.basis)
        /\ Samples(row.billed) \in Nat
    <3> HIDE DEF row
    <3> QED BY <1>1, <2>4, ReplayChargeOK
  <2> HIDE DEF d
  <2>6. r.claim \in ClaimRow /\ r.claim.billed = d.billed
    <3> HIDE DEF row
    <3>1. /\ row.made \in Nat /\ row.replays + 1 \in Nat /\ row.range \in Ranges
          /\ row = [made |-> row.made, billed |-> row.billed, replays |-> row.replays, range |-> row.range]
      BY <2>4 DEF ClaimRow
    <3>2. r.claim = [made |-> row.made, billed |-> d.billed, replays |-> row.replays + 1, range |-> row.range]
      BY <2>2, <3>1
    <3> QED BY <2>5, <3>1, <3>2 DEF ClaimRow
  <2>7. ClaimIs(r, c)
    BY <2>5, <2>6 DEF ClaimIs
  <2>8. /\ full \in Nat /\ some \in Nat
        /\ d.charge = 0 => some = 0
        /\ d.verdict = "replay_excess" => Samples(row.billed) + some = full
    <3>1. d.charge \in Nat
      BY <1>1, <2>5
    <3>2. some \in Nat
      BY <3>1, WholeNear
    <3>3. d.charge = 0 => some = 0
      <4>1. Whole(0) = 0
        BY WholeOfWhole, LimitsAssumption DEF Samples
      <4> QED BY <4>1
    <3>4. d.verdict = "replay_excess" => Samples(row.billed) + some = full
      <4> SUFFICES ASSUME d.verdict = "replay_excess" PROVE Samples(row.billed) + some = full
        OBVIOUS
      <4>1. Samples(row.billed) + d.charge = c.basis
        BY <2>5
      <4>2. row.billed \in Int /\ d.charge \in Int
        BY <2>4, <3>1 DEF ClaimRow
      <4> HIDE DEF row
      <4>3. Whole(Samples(row.billed) + d.charge) = Samples(row.billed) + Whole(d.charge)
        BY <4>2, WholeShift
      <4> QED BY <4>1, <4>3
    <3> QED BY <1>2, <3>2, <3>3, <3>4
  <2> HIDE DEF full, some
  <2> DEFINE budgeted == Credited(cover, c.op) => BudgetLeft(cover)
  <2>9. /\ OutcomeIs(r.outcome)
        /\ d.verdict = "replay_free" /\ ~broken /\ budgeted => r.outcome.charge = 0
        /\ d.verdict = "replay_excess" /\ ~broken /\ budgeted => r.outcome.charge <= some
    <3>1. d.charge \in Nat
      BY <1>1, <2>5
    <3>2. OutcomeIs(Untouched(cover, full))
      BY <1>1, <2>8, UntouchedOK, OutcomeUse
    <3>3. OutcomeIs(Untouched(cover, d.charge)) /\ Untouched(cover, d.charge).charge = d.charge
      BY <1>1, <3>1, UntouchedOK, OutcomeUse DEF Untouched
    <3>4. OutcomeIs(Covered(broken, c, at, d.charge)) /\ Covered(broken, c, at, d.charge).charge <= some
      BY <3>1, CoveredOK DEF some
    <3>5. ASSUME Credited(cover, c.op)
          PROVE  /\ OutcomeIs(CreditedReplay(cover, c.basis, d.charge))
                 /\ BudgetLeft(cover) => CreditedReplay(cover, c.basis, d.charge).charge = some
      <4>1. cover # NoRow
        BY <3>5 DEF Credited
      <4>2. OutcomeOK(CreditedReplay(cover, c.basis, d.charge), recorded, cuts, full)
        BY <1>1, <2>5, <4>1, CreditedReplayOK DEF full
      <4>3. BudgetLeft(cover) => CreditedReplay(cover, c.basis, d.charge).charge = some
        BY DEF CreditedReplay, some
      <4> QED BY <1>1, <2>8, <4>2, <4>3, OutcomeUse
    <3>6. CASE broken
      BY <2>3, <2>5, <3>2, <3>3, <3>6
    <3>7. CASE ~broken /\ d.verdict = "replay_billed"
      BY <2>3, <3>3, <3>7
    <3>8. CASE ~broken /\ d.verdict # "replay_billed" /\ Credited(cover, c.op)
      <4>1. r.outcome = CreditedReplay(cover, c.basis, d.charge)
        BY <2>3, <3>8
      <4>2. budgeted => r.outcome.charge = some
        BY <3>5, <3>8, <4>1
      <4> HIDE DEF budgeted
      <4> QED BY <2>5, <2>8, <3>1, <3>5, <3>8, <4>1, <4>2
    <3>9. CASE ~broken /\ d.verdict = "replay_excess" /\ ~Credited(cover, c.op)
      BY <2>3, <3>4, <3>9
    <3>10. CASE ~broken /\ d.verdict = "replay_free" /\ ~Credited(cover, c.op)
      BY <2>3, <2>5, <3>3, <3>10
    <3> QED BY <2>5, <3>6, <3>7, <3>8, <3>9, <3>10
  <2>10. PaymentIs(broken, r, c)
    <3> SUFFICES ASSUME ClaimDecides(broken, r, c)
                 PROVE  \/ claims[c.op] # NoRow /\ r.outcome.charge = 0
                        \/ /\ claims[c.op] # NoRow
                           /\ Samples(claims[c.op].billed) + r.outcome.charge <= full
                           /\ r.claim.billed = Ms(c.basis)
      BY DEF PaymentIs, full
    <3>1. /\ d.verdict \in {"replay_free", "replay_excess"} /\ ~broken /\ budgeted
      BY <2>2, <2>5 DEF ClaimDecides
    <3>2. CASE d.verdict = "replay_free"
      BY <1>6, <2>9, <3>1, <3>2
    <3>3. CASE d.verdict = "replay_excess"
      <4>1. r.outcome.charge <= some /\ r.outcome.charge \in Nat
        BY <2>9, <3>1, <3>3 DEF OutcomeIs
      <4>2. Samples(row.billed) + some = full /\ r.claim.billed = Ms(c.basis)
        BY <2>5, <2>6, <2>8, <3>3
      <4> QED BY <1>6, <2>5, <2>8, <4>1, <4>2
    <3> QED BY <3>1, <3>2, <3>3
  <2> QED BY <2>7, <2>9, <2>10 DEF r
<1> QED BY <1>1, <1>3, <1>4, <1>5, <1>6

LEMMA SamplesMore ==
    ASSUME NEW m \in Int, NEW n \in Int, m <= n
    PROVE  Samples(m) <= Samples(n)
<1>1. Samples(m) \in Int /\ Samples(n) \in Int /\ Whole(Samples(m)) = Samples(m) /\ Whole(Samples(n)) = Samples(n)
  BY WholeOfWhole
<1>2. Samples(n) = Samples(m) + Samples(n - m) /\ Samples(n - m) \in Nat
  <2> DEFINE u == SamplesPerMs
             k == n - m
  <2>1. u \in Nat /\ k \in Nat /\ n = m + k
    BY LimitsAssumption
  <2> HIDE DEF u, k
  <2>2. u * n = u * m + u * k /\ u * k \in Nat
    BY <2>1
  <2> QED BY <2>2 DEF Samples, u, k
<1> QED BY <1>1, <1>2

LEMMA MeteredKeeps ==
    ASSUME Ledger, NEW c, CallOK(c), NEW at \in Nat, NEW broken \in BOOLEAN, Metered(c, at, broken)
    PROVE  Ledger'
<1>1. PICK r \in {Step(broken, c, at)} :
          /\ claims' = IF c.op = NoOp THEN claims ELSE [claims EXCEPT ![c.op] = r.claim]
          /\ cover' = r.outcome.next
          /\ bill' = bill + r.outcome.charge
          /\ recorded' = recorded + (IF r.outcome.told = "no" THEN 0 ELSE r.outcome.charge)
          /\ cuts' = cuts + (IF r.outcome.told = "over" THEN 1 ELSE 0)
          /\ free' = free + r.outcome.let
          /\ IF ClaimDecides(broken, r, c)
             THEN /\ claimed' = [claimed EXCEPT ![c.op] = @ + r.outcome.charge]
                  /\ longest' = [longest EXCEPT ![c.op] = Most(@, c.basis)]
             ELSE UNCHANGED <<claimed, longest>>
          /\ excused' = (excused \/ PaidApart(broken, r, c))
  BY Zenon DEF Metered
<1>2. OutcomeIs(r.outcome) /\ ClaimIs(r, c) /\ PaymentIs(broken, r, c)
  <2>1. r = Step(broken, c, at)
    OBVIOUS
  <2> QED BY <2>1, StepFacts
<1>3. /\ r.outcome.charge \in Nat /\ r.outcome.let \in Nat
      /\ RowHolds(r.outcome.next,
                  IF r.outcome.told = "no" THEN recorded ELSE recorded + r.outcome.charge,
                  IF r.outcome.told = "over" THEN cuts + 1 ELSE cuts)
  BY <1>2 DEF OutcomeIs
<1>4. /\ claims \in [Ops -> ClaimRow \cup {NoRow}]
      /\ recorded \in Nat /\ cuts \in Nat /\ bill \in Nat /\ free \in Nat
      /\ claimed \in [Ops -> Nat] /\ longest \in [Ops -> Nat]
  BY DEF Ledger
<1>5. c.op \in Ops \cup {NoOp} /\ c.basis \in Nat
  BY DEF CallOK
<1>6. recorded' \in Nat /\ cuts' \in Nat /\ bill' \in Nat /\ free' \in Nat
  BY <1>1, <1>3, <1>4
<1>7. RowHolds(cover, recorded, cuts)'
  <2>1. /\ recorded' = IF r.outcome.told = "no" THEN recorded ELSE recorded + r.outcome.charge
        /\ cuts' = IF r.outcome.told = "over" THEN cuts + 1 ELSE cuts
    BY <1>1, <1>3, <1>4
  <2>2. RowHolds(cover', recorded', cuts')
    BY <1>1, <1>3, <2>1
  <2> QED BY <2>2 DEF RowHolds
<1>8. claims' \in [Ops -> ClaimRow \cup {NoRow}]
  BY <1>1, <1>2, <1>4, <1>5 DEF ClaimIs
<1>9. excused' \in BOOLEAN
  <2>1. excused' = (excused \/ PaidApart(broken, r, c))
    BY <1>1
  <2> QED BY <2>1, Zenon
<1>10. claimed' \in [Ops -> Nat] /\ longest' \in [Ops -> Nat]
  <2>1. CASE ClaimDecides(broken, r, c)
    BY <1>1, <1>3, <1>4, <1>5, <2>1 DEF Most
  <2>2. CASE ~ClaimDecides(broken, r, c)
    BY <1>1, <1>4, <2>2
  <2> QED BY <2>1, <2>2
<1>11. Payments'
  <2> SUFFICES ASSUME NEW op \in Ops
               PROVE  /\ claimed'[op] <= Whole(longest'[op])
                      /\ claims'[op] = NoRow => claimed'[op] = 0
                      /\ claims'[op] # NoRow => claimed'[op] <= Samples(claims'[op].billed)
    BY DEF Payments, Whole, Ms, Samples, Rounded
  <2>1. /\ claimed[op] \in Nat /\ longest[op] \in Nat /\ claimed[op] <= Whole(longest[op])
        /\ claims[op] = NoRow => claimed[op] = 0
        /\ claims[op] # NoRow => claimed[op] <= Samples(claims[op].billed)
        /\ claims[op] # NoRow => claims[op] \in ClaimRow /\ claims[op].billed \in Nat
        /\ Whole(longest[op]) \in Nat /\ Whole(c.basis) \in Nat /\ Whole(c.basis) = Samples(Ms(c.basis))
    <3>1. /\ claimed[op] \in Nat /\ longest[op] \in Nat /\ claimed[op] <= Whole(longest[op])
          /\ claims[op] = NoRow => claimed[op] = 0
          /\ claims[op] # NoRow => claimed[op] <= Samples(claims[op].billed)
          /\ claims[op] # NoRow => claims[op] \in ClaimRow /\ claims[op].billed \in Nat
      BY <1>4 DEF Ledger, Payments, ClaimRow
    <3>2. Whole(longest[op]) \in Nat
      BY <3>1, WholeNear
    <3>3. Whole(c.basis) \in Nat /\ Whole(c.basis) = Samples(Ms(c.basis))
      BY <1>5, WholeNear DEF Whole
    <3> QED BY <3>1, <3>2, <3>3
  <2>2. CASE op # c.op \/ c.op = NoOp
    <3>1. c.op = NoOp => ~ClaimDecides(broken, r, c)
      BY DEF ClaimDecides
    <3>2. op # c.op
      BY <2>2, OpsAssumption
    <3>3. claims'[op] = claims[op] /\ claimed'[op] = claimed[op] /\ longest'[op] = longest[op]
      BY <1>1, <1>4, <3>1, <3>2
    <3> QED BY <2>1, <3>3
  <2>3. CASE op = c.op /\ c.op # NoOp
    <3>1. claims'[op] = r.claim /\ r.claim \in ClaimRow /\ r.claim # NoRow /\ r.claim.billed \in Nat
      BY <1>1, <1>2, <1>4, <2>3, RowsDiffer DEF ClaimIs, ClaimRow
    <3>2. /\ claims[op] # NoRow => Samples(claims[op].billed) <= Samples(r.claim.billed)
          /\ Samples(r.claim.billed) \in Nat
          /\ claims[op] # NoRow => Samples(claims[op].billed) \in Nat
      <4>1. claims[op] # NoRow => claims[op].billed <= r.claim.billed
        BY <1>2, <2>3 DEF ClaimIs
      <4>2. Samples(r.claim.billed) \in Nat
        BY <3>1, OneMore
      <4>3. CASE claims[op] # NoRow
        <5>1. /\ claims[op].billed \in Nat /\ claims[op].billed \in Int /\ r.claim.billed \in Int
              /\ claims[op].billed <= r.claim.billed
          BY <2>1, <3>1, <4>1, <4>3
        <5>2. Samples(claims[op].billed) \in Nat
          BY <5>1, OneMore
        <5>3. Samples(claims[op].billed) <= Samples(r.claim.billed)
          BY <5>1, SamplesMore
        <5> QED BY <4>2, <5>2, <5>3
      <4> QED BY <4>2, <4>3
    <3>3. CASE ~ClaimDecides(broken, r, c)
      <4>1. claimed'[op] = claimed[op] /\ longest'[op] = longest[op]
        BY <1>1, <3>3
      <4> QED BY <2>1, <3>1, <3>2, <4>1
    <3>4. CASE ClaimDecides(broken, r, c)
      <4>1. /\ claimed'[op] = claimed[op] + r.outcome.charge
            /\ longest'[op] = Most(longest[op], c.basis)
        BY <1>1, <1>4, <2>3, <3>4
      <4>2. /\ Whole(longest[op]) <= Whole(longest'[op]) /\ Whole(c.basis) <= Whole(longest'[op])
            /\ Whole(longest'[op]) \in Nat
        <5>1. longest[op] <= longest'[op] /\ c.basis <= longest'[op] /\ longest'[op] \in Nat
          BY <1>5, <2>1, <4>1 DEF Most
        <5>2. longest[op] \in Int /\ longest'[op] \in Int /\ c.basis \in Int
          BY <1>5, <2>1, <5>1
        <5>3. Whole(longest'[op]) \in Nat
          BY <5>1, WholeNear
        <5> QED BY <5>1, <5>2, <5>3, WholeMore
      <4>3. \/ /\ claims[op] = NoRow
               /\ r.outcome.charge <= Whole(c.basis) /\ r.claim.billed = Ms(c.basis)
            \/ /\ claims[op] # NoRow
               /\ r.outcome.charge = 0
            \/ /\ claims[op] # NoRow
               /\ Samples(claims[op].billed) + r.outcome.charge <= Whole(c.basis)
               /\ r.claim.billed = Ms(c.basis)
        BY <1>2, <2>3, <3>4 DEF PaymentIs
      <4>4. claimed'[op] <= Whole(longest'[op]) /\ claimed'[op] <= Samples(r.claim.billed)
        <5>1. /\ claims[op] # NoRow /\ r.outcome.charge = 0 =>
                    claimed'[op] = claimed[op]
              /\ r.claim.billed = Ms(c.basis) => Samples(r.claim.billed) = Whole(c.basis)
          BY <2>1, <4>1
        <5> QED BY <1>3, <2>1, <3>2, <4>1, <4>2, <4>3, <5>1
      <4> QED BY <3>1, <4>4
    <3> QED BY <3>3, <3>4
  <2> QED BY <2>2, <2>3
<1> QED BY <1>6, <1>7, <1>8, <1>9, <1>10, <1>11 DEF Ledger

LEMMA InitInv == Init => IInv
<1> SUFFICES ASSUME Init PROVE IInv
  OBVIOUS
<1>1. Sessions
  BY FS_EmptySet, LimitsAssumption DEF Init, Sessions
<1>2. Ledger
  <2>1. /\ claims = [op \in Ops |-> NoRow] /\ cover = NoRow
        /\ bill = 0 /\ recorded = 0 /\ cuts = 0 /\ free = 0 /\ excused = FALSE
        /\ claimed = [op \in Ops |-> 0] /\ longest = [op \in Ops |-> 0]
    BY DEF Init
  <2>2. RowHolds(cover, recorded, cuts)
    BY <2>1 DEF RowHolds
  <2>3. Payments
    <3>1. Whole(0) = 0
      BY WholeOfWhole, LimitsAssumption DEF Samples
    <3> QED BY <2>1, <3>1 DEF Payments
  <2>4. claims \in [Ops -> ClaimRow \cup {NoRow}]
    BY <2>1
  <2>5. excused \in BOOLEAN
    BY <2>1
  <2> QED BY <2>1, <2>2, <2>3, <2>4, <2>5 DEF Ledger
<1> QED BY <1>1, <1>2 DEF IInv

LEMMA CallsOK ==
    ASSUME NEW s, SessionOK(s), day \in Nat, NEW c \in Calls(s)
    PROVE  CallOK(c)
<1>1. PICK p \in Stops, drift \in Drifts : s.lo < p /\ c = Call(s, p - s.lo, drift)
  BY DEF Calls
<1> DEFINE received == p - s.lo
<1>2. drift \in Int /\ p \in Nat /\ s.lo \in Nat /\ received \in Nat /\ 0 < received
  BY <1>1, LimitsAssumption DEF SessionOK
<1> HIDE DEF received
<1>3. /\ c.op = s.op /\ c.lo = s.lo /\ c.hi = s.hi /\ c.end = s.lo + received
      /\ c.basis = Most(1, received + drift) /\ c.at = day
  BY <1>1 DEF Call, received
<1>4. c.basis \in Nat
  BY <1>2, <1>3 DEF Most
<1> QED BY <1>2, <1>3, <1>4 DEF CallOK, SessionOK

LEMMA PruneKeeps ==
    ASSUME IInv, Prune
    PROVE  IInv'
<1>1. /\ claims \in [Ops -> ClaimRow \cup {NoRow}]
      /\ recorded \in Nat /\ cuts \in Nat /\ bill \in Nat /\ free \in Nat /\ excused \in BOOLEAN
      /\ claimed \in [Ops -> Nat] /\ longest \in [Ops -> Nat]
      /\ RowHolds(cover, recorded, cuts) /\ Payments
  BY DEF IInv, Ledger
<1>2. /\ claims' = [op \in Ops |-> IF ClaimExpired(op) THEN NoRow ELSE claims[op]]
      /\ cover' = IF CoverExpired THEN NoRow ELSE cover
      /\ recorded' = IF CoverExpired THEN 0 ELSE recorded
      /\ cuts' = IF CoverExpired THEN 0 ELSE cuts
      /\ free' = IF CoverExpired THEN 0 ELSE free
      /\ claimed' = [op \in Ops |-> IF ClaimExpired(op) THEN 0 ELSE claimed[op]]
      /\ longest' = [op \in Ops |-> IF ClaimExpired(op) THEN 0 ELSE longest[op]]
      /\ bill' = bill
  BY DEF Prune
<1>3. excused' \in BOOLEAN
  <2>1. excused' = (excused \/ CoverExpired)
    BY DEF Prune
  <2> QED BY <2>1, Zenon
<1>4. RowHolds(cover, recorded, cuts)'
  <2>1. RowHolds(cover', recorded', cuts')
    BY <1>1, <1>2 DEF RowHolds
  <2> QED BY <2>1 DEF RowHolds
<1>5. /\ claims' \in [Ops -> ClaimRow \cup {NoRow}]
      /\ claimed' \in [Ops -> Nat] /\ longest' \in [Ops -> Nat]
      /\ recorded' \in Nat /\ cuts' \in Nat /\ bill' \in Nat /\ free' \in Nat
  BY <1>1, <1>2
<1>6. Payments'
  <2> SUFFICES ASSUME NEW op \in Ops
               PROVE  /\ claimed'[op] <= Whole(longest'[op])
                      /\ claims'[op] = NoRow => claimed'[op] = 0
                      /\ claims'[op] # NoRow => claimed'[op] <= Samples(claims'[op].billed)
    BY DEF Payments, Whole, Ms, Samples, Rounded
  <2>1. CASE ClaimExpired(op)
    <3>1. Whole(0) = 0
      BY WholeOfWhole, LimitsAssumption DEF Samples
    <3> QED BY <1>2, <2>1, <3>1
  <2>2. CASE ~ClaimExpired(op)
    BY <1>1, <1>2, <2>2 DEF Payments
  <2> QED BY <2>1, <2>2
<1>7. Sessions'
  BY DEF IInv, Sessions, Prune, SessionOK, CallOK
<1> QED BY <1>3, <1>4, <1>5, <1>6, <1>7 DEF IInv, Ledger

LEMMA OpenEnds ==
    ASSUME Sessions, NEW s
    PROVE  IsFiniteSet(open \ {s}) /\ Cardinality(open \ {s}) <= MaxOpen
<1>1. IsFiniteSet(open) /\ Cardinality(open) <= MaxOpen /\ MaxOpen \in Nat
  BY LimitsAssumption DEF Sessions
<1>2. IsFiniteSet(open \ {s}) /\ Cardinality(open \ {s}) <= Cardinality(open)
  BY <1>1, FS_Subset
<1>3. Cardinality(open) \in Nat /\ Cardinality(open \ {s}) \in Nat
  BY <1>1, <1>2, FS_CardinalityType
<1> QED BY <1>1, <1>2, <1>3

LEMMA StepInv == IInv /\ [Next]_vars => IInv'
<1> SUFFICES ASSUME IInv, [Next]_vars PROVE IInv'
  OBVIOUS
<1>1. /\ Sessions /\ Ledger /\ day \in Nat /\ IsFiniteSet(open)
      /\ \A s \in open : SessionOK(s)
      /\ \A c \in owed : CallOK(c) /\ c.at \in Nat
  BY DEF IInv, Sessions, CallOK
<1>2. ASSUME NEW op \in Ops \cup {NoOp}, NEW k \in Kinds, NEW range \in Ranges, NEW n \in Nodes,
             Begin(op, k, range, n)
      PROVE  IInv'
  <2> DEFINE s == [n |-> begun, op |-> op, kind |-> k, lo |-> range[1], hi |-> range[2], node |-> n]
  <2>1. /\ open' = open \cup {s} /\ Cardinality(open) < MaxOpen
        /\ UNCHANGED <<claims, cover, owed, day, money>>
    BY <1>2 DEF Begin
  <2>2. SessionOK(s)
    <3>1. range \in Nat \X Nat /\ range[1] < range[2] /\ <<range[1], range[2]>> = range
      BY RangesAssumption
    <3> QED BY <3>1 DEF SessionOK
  <2> HIDE DEF s
  <2>3. IsFiniteSet(open') /\ Cardinality(open') <= MaxOpen
    <3>1. /\ IsFiniteSet(open \cup {s})
          /\ Cardinality(open \cup {s}) = IF s \in open THEN Cardinality(open) ELSE Cardinality(open) + 1
      BY <1>1, FS_AddElement
    <3>2. Cardinality(open) \in Nat /\ MaxOpen \in Nat
      BY <1>1, FS_CardinalityType, LimitsAssumption
    <3> QED BY <2>1, <3>1, <3>2
  <2>4. Sessions'
    BY <1>1, <2>1, <2>2, <2>3 DEF Sessions, SessionOK, CallOK
  <2>5. Ledger'
    BY <1>1, <2>1 DEF Ledger, RowHolds, Payments, money
  <2> QED BY <2>4, <2>5 DEF IInv
<1>3. ASSUME NEW s \in open, NEW c \in Calls(s), NEW broken \in BOOLEAN, EndAtWriter(s, c, broken)
      PROVE  IInv'
  <2>1. Metered(c, day, broken) /\ open' = open \ {s} /\ owed' = owed /\ day' = day
    BY <1>3 DEF EndAtWriter
  <2>2. Ledger'
    BY <1>1, <2>1, CallsOK, MeteredKeeps
  <2>3. Sessions'
    BY <1>1, <2>1, OpenEnds DEF Sessions, SessionOK, CallOK
  <2> QED BY <2>2, <2>3 DEF IInv
<1>4. ASSUME NEW s \in open, NEW c \in Calls(s), EndAtReplica(s, c)
      PROVE  IInv'
  <2>1. /\ owed' = owed \cup {c} /\ open' = open \ {s} /\ CallOK(c)
        /\ UNCHANGED <<claims, cover, day, money>>
    BY <1>1, <1>4, CallsOK DEF EndAtReplica
  <2>2. Sessions'
    BY <1>1, <2>1, OpenEnds DEF Sessions, SessionOK, CallOK
  <2>3. Ledger'
    BY <1>1, <2>1 DEF Ledger, RowHolds, Payments, money
  <2> QED BY <2>2, <2>3 DEF IInv
<1>5. ASSUME NEW s \in open, EndUnmetered(s)
      PROVE  IInv'
  <2>1. open' = open \ {s} /\ UNCHANGED <<claims, cover, owed, day, money>>
    BY <1>5 DEF EndUnmetered
  <2>2. Sessions'
    BY <1>1, <2>1, OpenEnds DEF Sessions, SessionOK, CallOK
  <2>3. Ledger'
    BY <1>1, <2>1 DEF Ledger, RowHolds, Payments, money
  <2> QED BY <2>2, <2>3 DEF IInv
<1>6. ASSUME NEW c \in owed, NEW broken \in BOOLEAN, Deliver(c, broken)
      PROVE  IInv'
  <2>1. Metered(c, c.at, broken) /\ owed' = owed \ {c} /\ open' = open /\ day' = day
    BY <1>6 DEF Deliver
  <2>2. Ledger'
    BY <1>1, <2>1, MeteredKeeps
  <2>3. Sessions'
    BY <1>1, <2>1 DEF Sessions, SessionOK, CallOK
  <2> QED BY <2>2, <2>3 DEF IInv
<1>7. CASE NextDay
  <2>1. day' = day + 1 /\ UNCHANGED <<claims, cover, open, owed, money>>
    BY <1>7 DEF NextDay
  <2>2. Sessions'
    BY <1>1, <2>1 DEF Sessions, SessionOK, CallOK
  <2>3. Ledger'
    BY <1>1, <2>1 DEF Ledger, RowHolds, Payments, money
  <2> QED BY <2>2, <2>3 DEF IInv
<1>8. CASE Prune
  BY <1>8, PruneKeeps
<1>9. CASE UNCHANGED vars
  BY <1>1, <1>9 DEF IInv, Sessions, SessionOK, CallOK, Ledger, RowHolds, Payments, vars, money
<1> QED BY <1>2, <1>3, <1>4, <1>5, <1>6, <1>7, <1>8, <1>9, Zenon DEF Next

LEMMA InvImplies == IInv => TypeOK /\ RowBalances /\ OperationPaysForLongest
<1> SUFFICES ASSUME IInv PROVE TypeOK /\ RowBalances /\ OperationPaysForLongest
  OBVIOUS
<1>1. Ledger /\ Sessions
  BY DEF IInv
<1>2. RowHolds(cover, recorded, cuts)
  BY <1>1 DEF Ledger
<1>3. RowBalances
  <2> SUFFICES ASSUME cover # NoRow
               PROVE  /\ Total(cover.segments) - recorded \in -Samples(cuts)..Samples(cuts)
                      /\ \A g, h \in cover.segments : g = h \/ g.e <= h.s \/ h.e <= g.s
                      /\ \A g \in cover.segments : g.s < g.e
    BY DEF RowBalances
  <2>1. /\ Laid(cover.segments)
        /\ Net(MsOf, cover.segments) - recorded \in -Samples(cuts)..Samples(cuts)
    BY <1>2 DEF RowHolds
  <2>2. Total(cover.segments) = Net(MsOf, cover.segments)
    BY <2>1, TotalIs DEF Laid
  <2> QED BY <2>1, <2>2 DEF Laid, Apart
<1>4. OperationPaysForLongest
  BY <1>1 DEF Ledger, Payments, OperationPaysForLongest
<1>5. TypeOK
  BY <1>1, <1>2 DEF TypeOK, Ledger, Sessions, RowHolds
<1> QED BY <1>3, <1>4, <1>5

-----------------------------------------------------------------------------
(* The theorems of the row and of the claims                                 *)

(* The inductive invariant holds in every state of every behaviour.         *)
THEOREM Invariance == Spec => []IInv
BY InitInv, StepInv, PTL DEF Spec

(* The tables keep their types, and the row of a recording its limits on     *)
(* stretches and on credits, whatever sessions the meter is called for.      *)
THEOREM TypeCorrect == Spec => []TypeOK
BY Invariance, InvImplies, PTL

(* The row of the recording always holds what was charged for its stretches, *)
(* which do not overlap, however they are cut, rounded at each step and      *)
(* swallowed: to the millisecond, but for one for each session that fell on  *)
(* earlier stretches.                                                        *)
THEOREM BalancesKept == Spec => []RowBalances
BY Invariance, InvImplies, PTL

(* The sessions of one operation on whose charge its claim decided never     *)
(* cost together more than the longest of them.                              *)
THEOREM PaysForLongest == Spec => []OperationPaysForLongest
BY Invariance, InvImplies, PTL


-----------------------------------------------------------------------------
(* The audio is paid for once                                                *)

LEMMA OfferedFits ==
    ASSUME NEW hit, Laid(hit), NEW lo \in Nat, NEW hi \in Nat, lo < hi,
           \A g \in hit : Overlap(g, lo, hi) > 0
    PROVE  Offered(hit, lo, hi) \in Int /\ Offered(hit, lo, hi) <= hi - lo
<1> DEFINE I == [g \in hit |-> Inside(g, lo, hi)]
           O == [g \in hit |-> Overlap(g, lo, hi)]
           los == [g \in hit |-> Most(g.s, lo)]
           his == [g \in hit |-> Least(g.e, hi)]
<1>1. IsFiniteSet(hit) /\ hit \in SUBSET Segment /\ hit \in SUBSET hit
      /\ \A g \in hit : g.s \in Nat /\ g.e \in Nat /\ g.s < g.e
  BY DEF Laid, Segment
<1>2. ASSUME NEW g \in hit
      PROVE  /\ Overlap(g, lo, hi) \in Nat /\ Inside(g, lo, hi) \in Int
             /\ Inside(g, lo, hi) <= Overlap(g, lo, hi)
             /\ Most(g.s, lo) \in Nat /\ Least(g.e, hi) \in Nat
             /\ lo <= Most(g.s, lo) /\ Least(g.e, hi) <= hi
             /\ Most(g.s, lo) + Overlap(g, lo, hi) = Least(g.e, hi)
             /\ g.s <= Most(g.s, lo) /\ Least(g.e, hi) <= g.e
  <2>1. /\ Overlap(g, lo, hi) \in Nat /\ Inside(g, lo, hi) \in Int
        /\ Inside(g, lo, hi) <= Overlap(g, lo, hi)
    BY <1>1, InsideIsInt
  <2>2. /\ Most(g.s, lo) \in Nat /\ Least(g.e, hi) \in Nat
        /\ lo <= Most(g.s, lo) /\ Least(g.e, hi) <= hi
        /\ Most(g.s, lo) + Overlap(g, lo, hi) = Least(g.e, hi)
        /\ g.s <= Most(g.s, lo) /\ Least(g.e, hi) <= g.e
    BY <1>1 DEF Overlap, Least, Most
  <2> QED BY <2>1, <2>2
<1>3. /\ I \in [hit -> Int] /\ O \in [hit -> Nat] /\ O \in [hit -> Int]
      /\ los \in [hit -> Nat] /\ his \in [hit -> Nat]
  BY <1>2
<1>4. \A g \in hit : /\ I[g] <= O[g] /\ lo <= los[g] /\ his[g] <= hi /\ los[g] + O[g] = his[g]
                     /\ g.s <= los[g] /\ his[g] <= g.e
  BY <1>2
<1>5. Offered(hit, lo, hi) = Net(I, hit)
  <2>1. \A g \in hit : InsideOf(lo, hi)[g] = I[g]
    BY <1>1 DEF InsideOf
  <2>2. Offered(hit, lo, hi) = Net(InsideOf(lo, hi), hit)
    BY <1>1, OfferedIs
  <2> HIDE DEF I
  <2> QED BY <2>1, <2>2, NetSame
<1> HIDE DEF I, O, los, his
<1>6. \A g, h \in hit : g = h \/ his[g] <= los[h] \/ his[h] <= los[g]
  <2> TAKE g, h \in hit
  <2> SUFFICES ASSUME g # h PROVE his[g] <= los[h] \/ his[h] <= los[g]
    OBVIOUS
  <2>1. g.e <= h.s \/ h.e <= g.s
    BY DEF Laid, Apart
  <2>2. los[g] \in Nat /\ los[h] \in Nat /\ his[g] \in Nat /\ his[h] \in Nat
    BY <1>3
  <2> QED BY <1>1, <1>4, <2>1, <2>2
<1>7. Net(I, hit) <= Net(O, hit)
  BY <1>1, <1>3, <1>4, NetMost
<1>8. Net(O, hit) = Weight(O, hit) /\ Net(O, hit) \in Nat
  BY <1>1, <1>3, NetOfNat
<1>9. Weight(O, hit) <= hi - lo
  <2>1. \A g \in hit : lo <= los[g] /\ his[g] <= hi /\ los[g] + O[g] = his[g]
    BY <1>4
  <2>2. hit \in SUBSET hit /\ lo <= hi
    OBVIOUS
  <2> QED BY <1>1, <1>3, <1>6, <2>1, <2>2, WeightRoom
<1>10. Net(I, hit) \in Int
  BY <1>1, <1>3, NetAdd
<1> QED BY <1>5, <1>7, <1>8, <1>9, <1>10

\* What stretches hold within their lengths is no more than the audio they lie in.
LEMMA HeldFits ==
    ASSUME NEW S, Laid(S), NEW m \in Nat, \A g \in S : g.e <= m
    PROVE  Net(Held, S) \in Int /\ Net(Held, S) <= m
<1> DEFINE L == [g \in S |-> g.e - g.s]
           H == [g \in S |-> Held[g]]
           los == [g \in S |-> g.s]
           his == [g \in S |-> g.e]
           zero == 0
<1>1. IsFiniteSet(S) /\ S \in SUBSET Segment /\ S \in SUBSET S
      /\ \A g \in S : g.s \in Nat /\ g.e \in Nat /\ g.s < g.e
  BY DEF Laid, Segment
<1>2. \A g \in S : Held[g] \in Int /\ Held[g] <= g.e - g.s
  <2> TAKE g \in S
  <2>1. g \in Segment /\ g.ms \in Int /\ g.e - g.s \in Int
    BY <1>1 DEF Segment
  <2> QED BY <2>1 DEF Held, Least
<1>3. /\ L \in [S -> Nat] /\ L \in [S -> Int] /\ H \in [S -> Int]
      /\ los \in [S -> Nat] /\ his \in [S -> Nat]
  <2>1. \A g \in S : g.e - g.s \in Nat
    BY <1>1
  <2> QED BY <1>1, <1>2, <2>1
<1>4. \A g \in S : H[g] <= L[g] /\ H[g] = Held[g]
                   /\ zero <= los[g] /\ his[g] <= m /\ los[g] + L[g] = his[g]
  BY <1>1, <1>2
<1>5. \A g, h \in S : g = h \/ his[g] <= los[h] \/ his[h] <= los[g]
  BY DEF Laid, Apart
<1>6. zero \in Nat /\ zero <= m
  OBVIOUS
<1> HIDE DEF L, H, los, his, zero
<1>7. Net(Held, S) = Net(H, S)
  BY <1>4, NetSame
<1>8. Net(H, S) \in Int /\ Net(H, S) <= Net(L, S)
  BY <1>1, <1>3, <1>4, NetAdd, NetMost
<1>9. Net(L, S) = Weight(L, S) /\ Net(L, S) \in Nat
  BY <1>1, <1>3, NetOfNat
<1>10. Weight(L, S) <= m - zero
  <2>1. \A g \in S : zero <= los[g] /\ his[g] <= m /\ los[g] + L[g] = his[g]
    BY <1>4
  <2> QED BY <1>1, <1>3, <1>5, <1>6, <2>1, WeightRoom
<1> QED BY <1>7, <1>8, <1>9, <1>10 DEF zero

\* A live press is not the second one, and no stretch lies past m.
LiveOnce(S, kind) == \A g \in S : kind = "live" => g.by # "l"
Within(S, m) == \A g \in S : g.e <= m

LEMMA OfferedNone ==
    ASSUME NEW lo \in Nat, NEW hi \in Nat
    PROVE  Offered({}, lo, hi) = 0
BY FS_EmptySet, OfferedIs, NetNone

\* A settlement that draws on all it overlaps, and is told of.
DrawsAll(state, n, k, kind, lo, hi, basis, op, at, o, m) ==
    /\ n \in Nat /\ k \in Nat /\ RowHolds(state, n, k) /\ kind \in AllKinds
    /\ lo \in Nat /\ hi \in Nat /\ lo < hi
    /\ basis \in Nat /\ basis <= (hi - lo) + Drift
    /\ op \in Ops \cup {NoOp} /\ at \in Nat
    /\ o = Settle(state, kind, lo, hi, basis, basis, op, at) /\ o.told # "no"
    /\ state # NoRow => BudgetLeft(state)
    /\ LiveOnce(Segs(state), kind) /\ m \in Nat /\ hi <= m /\ Within(Segs(state), m)

\* It charges no more than its stretches come to hold within their lengths, but for the
\* drift and a millisecond.
LEMMA SettlePays ==
    ASSUME NEW state, NEW n, NEW k, NEW kind, NEW lo, NEW hi, NEW basis, NEW op, NEW at,
           NEW o, NEW m, DrawsAll(state, n, k, kind, lo, hi, basis, op, at, o, m)
    PROVE  /\ Net(Held, Segs(state)) + o.charge <= Net(Held, Segs(o.next)) + Drift + SamplesPerMs
           /\ Within(Segs(o.next), m)
<1> DEFINE segs == Segs(state)
           hit == Hit(segs, lo, hi)
           x == Offered(hit, lo, hi)
           full == Whole(basis)
           ch == o.charge
           u == SamplesPerMs
<1>0. /\ n \in Nat /\ k \in Nat /\ RowHolds(state, n, k) /\ kind \in AllKinds
      /\ lo \in Nat /\ hi \in Nat /\ lo < hi
      /\ basis \in Nat /\ basis <= (hi - lo) + Drift
      /\ op \in Ops \cup {NoOp} /\ at \in Nat
      /\ o = Settle(state, kind, lo, hi, basis, basis, op, at) /\ o.told # "no"
      /\ state # NoRow => BudgetLeft(state)
      /\ LiveOnce(segs, kind) /\ m \in Nat /\ hi <= m /\ Within(segs, m)
  BY DEF DrawsAll
<1>1. Laid(segs) /\ state \in CoverRow \cup {NoRow}
  BY <1>0, SegsLaid
<1>2. Settled(o, state, kind, lo, hi, basis, full)
  <2>1. o = Untouched(state, full) \/ Settled(o, state, kind, lo, hi, basis, full)
    BY <1>0, <1>1, SettleIs
  <2> HIDE DEF full
  <2>2. o # Untouched(state, full)
    BY <1>0 DEF Untouched
  <2> QED BY <1>0, <2>1, <2>2
<1>3. /\ Laid(hit) /\ Laid(Cuts(hit, lo, hi)) /\ \A g \in hit : Overlap(g, lo, hi) > 0
      /\ \A p \in Cuts(hit, lo, hi) : \E g \in hit : g.s <= p.s /\ p.e <= g.e
      /\ hit \in SUBSET segs
  <2> HIDE DEF segs
  <2>1. Laid(hit) /\ Laid(Cuts(hit, lo, hi))
    BY <1>0, <1>1, KeptParts
  <2>2. \A g \in hit : Overlap(g, lo, hi) > 0
    BY <1>0, <1>1, KeptParts
  <2>3. \A p \in Cuts(hit, lo, hi) : \E g \in hit : g.s <= p.s /\ p.e <= g.e
    BY <1>0, <1>1, KeptParts
  <2>4. hit \in SUBSET segs
    BY <1>0 DEF Hit
  <2> QED BY <1>0, <2>1, <2>2, <2>3, <2>4
<1>4. Drawn(state, kind, lo, hi) = hit
  <2>1. kind # "user_retranscribe"
    BY <1>0, <1>2 DEF Settled
  <2>2. \A g \in hit : Draws(kind, g)
    <3> TAKE g \in hit
    <3>1. g \in segs /\ g.by \in {"l", "r"}
      BY <1>0, <1>1, <1>3 DEF Laid, Segment
    <3> QED BY <1>0, <2>1, <3>1 DEF Draws, AllKinds, LiveOnce
  <2> QED BY <1>0, <2>2 DEF Drawn
<1>5. /\ ch \in 0..full /\ Whole(ch) = ch /\ o.next \in CoverRow
      /\ ch < full => x > 0
      /\ x > 0 /\ BudgetLeft(state) => ch <= Most(0, Whole(basis - x))
  BY <1>0, <1>2, <1>4 DEF Settled
<1>6. PICK new \in Segment :
          /\ new.s = lo /\ new.e = hi
          /\ new.ms = Whole(Carried(hit, lo, hi) + ch)
          /\ o.next.segments = ((segs \ hit) \cup Cuts(hit, lo, hi)) \cup {new}
  BY <1>0, <1>2 DEF Settled
<1>7. hit = Hit(segs, lo, hi)
  OBVIOUS
<1>8. hit = {} \/ state # NoRow
  BY <1>0, <1>3 DEF Segs
<1>9. Segs(o.next) = ((segs \ hit) \cup Cuts(hit, lo, hi)) \cup {new}
  <2>1. o.next # NoRow
    BY <1>0, <1>5, RowsDiffer
  <2> QED BY <1>0, <1>6, <2>1 DEF Segs
<1> HIDE DEF hit, segs
<1>10. x \in Int /\ x <= hi - lo /\ (x > 0 => state # NoRow)
  <2>1. x \in Int /\ x <= hi - lo
    BY <1>0, <1>3, OfferedFits
  <2>2. hit = {} => x = 0
    BY <1>0, OfferedNone
  <2> HIDE DEF x
  <2> QED BY <1>0, <1>8, <2>1, <2>2
<1> HIDE DEF x
<1>11. /\ full \in Nat /\ 2 * full <= 2 * basis + u /\ u \in Nat /\ Drift \in Nat /\ ch \in Nat
       /\ Whole(basis - x) \in Int /\ 2 * Whole(basis - x) <= 2 * (basis - x) + u
  <2>1. full \in Nat /\ 2 * full <= 2 * basis + u
    BY <1>0, WholeNear
  <2>2. basis - x \in Int
    BY <1>0, <1>10
  <2>3. Whole(basis - x) \in Int /\ 2 * Whole(basis - x) <= 2 * (basis - x) + u
    BY <1>0, <2>2, WholeNear
  <2> HIDE DEF full, ch
  <2> QED BY <1>0, <1>5, <2>1, <2>3, LimitsAssumption
<1> DEFINE y == Whole(basis - x)
<1> HIDE DEF full, ch, y
<1>12. 2 * x + 2 * ch <= 2 * (hi - lo) + 2 * Drift + u
  <2>1. y \in Int /\ 2 * y <= 2 * (basis - x) + u
    BY <1>0, <1>11 DEF y
  <2>2. CASE x > 0
    <3>1. ch <= Most(0, y)
      BY <1>0, <1>5, <1>10, <2>2 DEF y
    <3>2. ch = 0 \/ ch <= y
      BY <1>0, <1>11, <2>1, <3>1 DEF Most
    <3> QED BY <1>0, <1>10, <1>11, <2>1, <3>2
  <2>3. CASE ~(x > 0)
    BY <1>0, <1>5, <1>10, <1>11, <2>3
  <2> QED BY <1>0, <2>2, <2>3
<1>13. Net(Held, segs) + ch <= Net(Held, Segs(o.next)) + Drift + u
  <2> DEFINE K == ((segs \ hit) \cup Cuts(hit, lo, hi)) \cup {new}
  <2>1. 2 * Offered(hit, lo, hi) + 2 * ch <= 2 * (hi - lo) + 2 * Drift + SamplesPerMs
    BY <1>0, <1>12 DEF x
  <2>2. Net(Held, segs) + ch <= Net(Held, K) + Drift + SamplesPerMs
    BY <1>0, <1>1, <1>5, <1>6, <1>7, <1>11, <2>1, KeptHolds
  <2> QED BY <1>0, <1>9, <2>2
<1>14. \A g \in Segs(o.next) : g.e <= m
  <2>1. \A g \in segs : g.e <= m /\ g.e \in Nat
    BY <1>0, <1>1 DEF segs, Laid, Segment, Within
  <2>2. ASSUME NEW p \in Cuts(hit, lo, hi) PROVE p.e <= m
    <3>1. PICK g \in hit : p.e <= g.e
      BY <1>0, <1>3
    <3>2. g \in segs /\ p.e \in Nat
      BY <1>0, <1>3 DEF Laid, Segment
    <3> QED BY <1>0, <2>1, <3>1, <3>2
  <2> QED BY <1>0, <1>6, <1>9, <2>1, <2>2
<1> QED BY <1>0, <1>13, <1>14 DEF segs, ch, u, Within

\* What a call says of the audio it carried.
FairCall(c) ==
    /\ c.kind \in AllKinds
    /\ c.end <= c.hi /\ c.basis <= (c.end - c.lo) + Drift

LEMMA AudioIs == Audio \in Nat /\ \A r \in Ranges : r[2] <= Audio
<1> DEFINE T == {s \in SUBSET Ranges : s # {} => \E r \in s : \A q \in s : q[2] <= r[2]}
<1>1. \A r \in Ranges : r[2] \in Nat
  BY RangesAssumption
<1>2. ASSUME NEW s \in SUBSET Ranges, \A x \in s : s \ {x} \in T
      PROVE  s \in T
  <2> SUFFICES ASSUME s # {} PROVE \E r \in s : \A q \in s : q[2] <= r[2]
    OBVIOUS
  <2>1. PICK x \in s : TRUE
    OBVIOUS
  <2>2. CASE s \ {x} = {}
    <3>1. \A q \in s : q = x
      BY <2>2
    <3> QED BY <1>1, <2>1, <3>1
  <2>3. CASE s \ {x} # {}
    <3>1. PICK r \in s \ {x} : \A q \in s \ {x} : q[2] <= r[2]
      BY <1>2, <2>1, <2>3
    <3>2. CASE x[2] <= r[2]
      <4>1. \A q \in s : q[2] <= r[2]
        BY <3>1, <3>2
      <4> QED BY <3>1, <4>1
    <3>3. CASE ~(x[2] <= r[2])
      <4>1. x[2] \in Nat /\ r[2] \in Nat
        BY <1>1, <2>1, <3>1
      <4>2. \A q \in s : q[2] <= x[2]
        BY <1>1, <3>1, <3>3, <4>1
      <4> QED BY <2>1, <4>2
    <3> QED BY <3>2, <3>3
  <2> QED BY <2>2, <2>3
<1> HIDE DEF T
<1>3. Ranges \in T
  BY <1>2, RangesAssumption, SetInduction
<1>4. PICK r \in Ranges : \A q \in Ranges : q[2] <= r[2]
  BY <1>3, RangesAssumption DEF T
<1> DEFINE ends == {q[2] : q \in Ranges}
           Last(m) == m \in ends /\ \A q \in Ranges : q[2] <= m
<1>5. \E m : Last(m)
  BY <1>4
<1>6. Audio = CHOOSE m : Last(m)
  <2>1. Audio = CHOOSE m \in ends : \A q \in Ranges : q[2] <= m
    BY DEF Audio
  <2> QED BY <2>1
<1> HIDE DEF Last
<1>7. Last(Audio)
  BY <1>5, <1>6
<1> QED BY <1>1, <1>7 DEF Last

\* Calls that are metered, or were given up.
Spare == begun - (Cardinality(open) + Cardinality(owed))

\* Each session is open, owed, or metered at most once; what its call says is fair.
Counts ==
    /\ begun \in Nat /\ IsFiniteSet(owed) /\ Cardinality(open) + Cardinality(owed) <= begun
    /\ \A s \in open : s.kind \in AllKinds
    /\ \A c \in owed : FairCall(c)
    /\ Spare \in Nat /\ cuts <= Spare

Meters(c, at, broken) ==
    /\ CallOK(c) /\ FairCall(c) /\ at \in Nat /\ broken \in BOOLEAN
    /\ Metered(c, at, broken) /\ Spare + 1 <= Spare'

\* A step meters one call more, or nothing; or the sweep forgets.
StepKinds ==
    \/ UNCHANGED <<claims, cover, money>> /\ Spare <= Spare'
    \/ \E c, at, broken : Meters(c, at, broken)
    \/ Prune /\ Spare' = Spare

LEMMA CallsFair ==
    ASSUME NEW s, SessionOK(s), s.kind \in AllKinds, NEW c \in Calls(s)
    PROVE  FairCall(c)
<1>1. PICK p \in Stops, drift \in Drifts : s.lo < p /\ p <= s.hi /\ c = Call(s, p - s.lo, drift)
  BY DEF Calls
<1> DEFINE received == p - s.lo
<1>2. /\ drift \in Int /\ drift <= Drift /\ Drift \in Nat /\ received \in Nat /\ 0 < received
      /\ s.lo + received <= s.hi
  BY <1>1, LimitsAssumption DEF SessionOK
<1> HIDE DEF received
<1>3. /\ c.kind = s.kind /\ c.lo = s.lo /\ c.hi = s.hi /\ c.end = s.lo + received
      /\ c.basis = Most(1, received + drift)
  BY <1>1 DEF Call, received
<1>4. s.lo \in Nat /\ s.hi \in Nat
  BY DEF SessionOK
<1> QED BY <1>2, <1>3, <1>4 DEF FairCall, Most

LEMMA MeteredCuts ==
    ASSUME NEW c, NEW at, NEW broken, Metered(c, at, broken), cuts \in Nat
    PROVE  cuts' \in Nat /\ cuts' <= cuts + 1
BY DEF Metered

LEMMA CountsStep == IInv /\ Counts /\ [Next]_vars => Counts' /\ StepKinds
<1> SUFFICES ASSUME IInv, Counts, [Next]_vars PROVE Counts' /\ StepKinds
  OBVIOUS
<1>1. /\ Ledger /\ day \in Nat /\ IsFiniteSet(open) /\ IsFiniteSet(owed) /\ begun \in Nat
      /\ Cardinality(open) \in Nat /\ Cardinality(owed) \in Nat
      /\ Cardinality(open) + Cardinality(owed) <= begun
      /\ \A s \in open : SessionOK(s) /\ s.kind \in AllKinds
      /\ \A c \in owed : CallOK(c) /\ c.at \in Nat /\ FairCall(c)
      /\ cuts \in Nat /\ cuts <= Spare
  BY FS_CardinalityType DEF IInv, Sessions, CallOK, Counts, Ledger
<1>3. Spare = begun - (Cardinality(open) + Cardinality(owed)) /\ Spare \in Nat
  BY <1>1 DEF Spare
<1>4. ASSUME NEW s \in open
      PROVE  IsFiniteSet(open \ {s}) /\ Cardinality(open \ {s}) = Cardinality(open) - 1
  BY <1>1, FS_RemoveElement
<1>5. ASSUME NEW op \in Ops \cup {NoOp}, NEW k \in Kinds, NEW range \in Ranges, NEW n \in Nodes,
             Begin(op, k, range, n)
      PROVE  Counts' /\ StepKinds
  <2> DEFINE s == [n |-> begun, op |-> op, kind |-> k, lo |-> range[1], hi |-> range[2], node |-> n]
  <2>1. /\ open' = open \cup {s} /\ begun' = begun + 1
        /\ UNCHANGED <<claims, cover, owed, day, money>>
    BY <1>5 DEF Begin
  <2>2. s.kind \in AllKinds
    BY KindsAssumption
  <2> HIDE DEF s
  <2>3. Cardinality(open') \in Nat /\ Cardinality(open') <= Cardinality(open) + 1
    <3>1. /\ IsFiniteSet(open \cup {s})
          /\ Cardinality(open \cup {s}) = IF s \in open THEN Cardinality(open) ELSE Cardinality(open) + 1
      BY <1>1, FS_AddElement
    <3> QED BY <1>1, <2>1, <3>1
  <2>4. Spare' = begun' - (Cardinality(open') + Cardinality(owed')) /\ owed' = owed
    BY <2>1 DEF Spare
  <2>5. Spare' \in Nat /\ Spare <= Spare' /\ Cardinality(open') + Cardinality(owed') <= begun'
    BY <1>1, <1>3, <2>1, <2>3, <2>4
  <2>6. cuts' = cuts
    BY <2>1 DEF money
  <2>7. Counts'
    BY <1>1, <1>3, <2>1, <2>2, <2>5, <2>6 DEF Counts, FairCall
  <2> QED BY <2>1, <2>5, <2>7 DEF StepKinds
<1>6. ASSUME NEW s \in open, NEW c \in Calls(s), NEW broken \in BOOLEAN, EndAtWriter(s, c, broken)
      PROVE  Counts' /\ StepKinds
  <2>1. Metered(c, day, broken) /\ open' = open \ {s} /\ owed' = owed /\ begun' = begun
    BY <1>6 DEF EndAtWriter
  <2>2. CallOK(c) /\ FairCall(c)
    BY <1>1, CallsOK, CallsFair
  <2>3. Spare' = begun' - (Cardinality(open') + Cardinality(owed'))
    BY DEF Spare
  <2>4. Spare' \in Nat /\ Spare + 1 <= Spare' /\ Cardinality(open') + Cardinality(owed') <= begun'
    BY <1>1, <1>3, <1>4, <2>1, <2>3
  <2>5. cuts' \in Nat /\ cuts' <= cuts + 1
    BY <1>1, <2>1, MeteredCuts
  <2>6. Counts'
    BY <1>1, <1>3, <2>1, <2>4, <2>5 DEF Counts, FairCall
  <2>7. Meters(c, day, broken)
    BY <1>1, <2>1, <2>2, <2>4 DEF Meters
  <2> QED BY <2>6, <2>7 DEF StepKinds
<1>7. ASSUME NEW s \in open, NEW c \in Calls(s), EndAtReplica(s, c)
      PROVE  Counts' /\ StepKinds
  <2>1. /\ owed' = owed \cup {c} /\ open' = open \ {s}
        /\ UNCHANGED <<claims, cover, day, begun, money>>
    BY <1>7 DEF EndAtReplica
  <2>2. FairCall(c)
    BY <1>1, CallsFair
  <2>3. Cardinality(owed') \in Nat /\ Cardinality(owed') <= Cardinality(owed) + 1 /\ IsFiniteSet(owed')
    <3>1. /\ IsFiniteSet(owed \cup {c})
          /\ Cardinality(owed \cup {c}) = IF c \in owed THEN Cardinality(owed) ELSE Cardinality(owed) + 1
      BY <1>1, FS_AddElement
    <3> QED BY <1>1, <2>1, <3>1
  <2>4. Spare' = begun' - (Cardinality(open') + Cardinality(owed'))
    BY DEF Spare
  <2>5. Spare' \in Nat /\ Spare <= Spare' /\ Cardinality(open') + Cardinality(owed') <= begun'
    <3>1. Cardinality(open') = Cardinality(open) - 1
      BY <1>4, <2>1
    <3> QED BY <1>1, <1>3, <2>1, <2>3, <2>4, <3>1
  <2>6. cuts' = cuts
    BY <2>1 DEF money
  <2>7. Counts'
    BY <1>1, <1>3, <2>1, <2>2, <2>3, <2>5, <2>6 DEF Counts, FairCall
  <2> QED BY <2>1, <2>5, <2>7 DEF StepKinds
<1>8. ASSUME NEW s \in open, EndUnmetered(s)
      PROVE  Counts' /\ StepKinds
  <2>1. open' = open \ {s} /\ UNCHANGED <<claims, cover, owed, day, begun, money>>
    BY <1>8 DEF EndUnmetered
  <2>2. Spare' = begun' - (Cardinality(open') + Cardinality(owed'))
    BY DEF Spare
  <2>3. Spare' \in Nat /\ Spare <= Spare' /\ Cardinality(open') + Cardinality(owed') <= begun'
    <3>1. Cardinality(open') = Cardinality(open) - 1 /\ Cardinality(owed') = Cardinality(owed)
      BY <1>4, <2>1
    <3> QED BY <1>1, <1>3, <2>1, <2>2, <3>1
  <2>4. cuts' = cuts
    BY <2>1 DEF money
  <2>5. Counts'
    BY <1>1, <1>3, <2>1, <2>3, <2>4 DEF Counts, FairCall
  <2> QED BY <2>1, <2>3, <2>5 DEF StepKinds
<1>9. ASSUME NEW c \in owed, NEW broken \in BOOLEAN, Deliver(c, broken)
      PROVE  Counts' /\ StepKinds
  <2>1. Metered(c, c.at, broken) /\ owed' = owed \ {c} /\ open' = open /\ begun' = begun
    BY <1>9 DEF Deliver
  <2>2. IsFiniteSet(owed \ {c}) /\ Cardinality(owed \ {c}) = Cardinality(owed) - 1
    BY <1>1, FS_RemoveElement
  <2>3. Spare' = begun' - (Cardinality(open') + Cardinality(owed'))
    BY DEF Spare
  <2>4. Spare' \in Nat /\ Spare + 1 <= Spare' /\ Cardinality(open') + Cardinality(owed') <= begun'
    BY <1>1, <1>3, <2>1, <2>2, <2>3
  <2>5. cuts' \in Nat /\ cuts' <= cuts + 1
    BY <1>1, <2>1, MeteredCuts
  <2>6. Counts'
    BY <1>1, <1>3, <2>1, <2>2, <2>4, <2>5 DEF Counts, FairCall
  <2>7. Meters(c, c.at, broken)
    BY <1>1, <2>1, <2>4 DEF Meters
  <2> QED BY <2>6, <2>7 DEF StepKinds
<1>10. CASE NextDay \/ UNCHANGED vars
  <2>1. UNCHANGED <<claims, cover, open, owed, begun, money>>
    BY <1>10 DEF NextDay, vars
  <2>2. Spare' = Spare /\ cuts' = cuts
    BY <2>1 DEF Spare, money
  <2>3. Counts'
    BY <1>1, <1>3, <2>1, <2>2 DEF Counts, FairCall
  <2> QED BY <1>3, <2>1, <2>2, <2>3 DEF StepKinds
<1>11. CASE Prune
  <2>1. UNCHANGED <<open, owed, begun>> /\ cuts' = IF CoverExpired THEN 0 ELSE cuts
    BY <1>11 DEF Prune
  <2>2. Spare' = Spare /\ cuts' <= Spare
    BY <1>1, <1>3, <2>1 DEF Spare
  <2>3. Counts'
    BY <1>1, <1>3, <2>1, <2>2 DEF Counts, FairCall
  <2> QED BY <1>11, <2>2, <2>3 DEF StepKinds
<1> QED BY <1>5, <1>6, <1>7, <1>8, <1>9, <1>10, <1>11, Zenon DEF Next

LEMMA CountsInit == Init => Counts
<1> SUFFICES ASSUME Init PROVE Counts
  OBVIOUS
<1>1. open = {} /\ owed = {} /\ begun = 0 /\ cuts = 0
  BY DEF Init
<1>2. IsFiniteSet({}) /\ Cardinality({}) = 0
  BY FS_EmptySet
<1>3. Spare = 0
  BY <1>1, <1>2 DEF Spare
<1> QED BY <1>1, <1>2, <1>3 DEF Counts

\* Until a session is paid for as one of its own, the bill is what the row remembers, and no
\* more than its stretches hold within their lengths but for the drift and a millisecond of
\* each call.
Paid ==
    ~excused => /\ bill = recorded
                /\ recorded <= Net(Held, Segs(cover)) + (Drift + SamplesPerMs) * Spare
                /\ Within(Segs(cover), Audio)

HeldIsInt(state) == Net(Held, Segs(state)) \in Int

LEMMA HeldNow ==
    ASSUME NEW state, NEW n \in Nat, NEW k \in Nat, RowHolds(state, n, k)
    PROVE  HeldIsInt(state)
<1>1. Laid(Segs(state))
  BY SegsLaid
<1>2. Held \in [Segment -> Int]
  <2> DEFINE z == 0
  <2>1. z \in Nat
    OBVIOUS
  <2> HIDE DEF z
  <2> QED BY <2>1, FieldFacts
<1> QED BY <1>1, <1>2, NetAdd DEF Laid, HeldIsInt

\* A call metered while no session was paid for as one of its own.
LEMMA MeteredPays ==
    ASSUME Ledger, NEW c, CallOK(c), FairCall(c), NEW at \in Nat, NEW broken \in BOOLEAN,
           Metered(c, at, broken), ~excused', ~excused => Within(Segs(cover), Audio)
    PROVE  /\ ~excused /\ bill' - bill = recorded' - recorded
           /\ recorded' + Net(Held, Segs(cover))
              <= recorded + Net(Held, Segs(cover')) + Drift + SamplesPerMs
           /\ Within(Segs(cover'), Audio)
           /\ HeldIsInt(cover')
<1>1. PICK r \in {Step(broken, c, at)} :
          /\ cover' = r.outcome.next
          /\ bill' = bill + r.outcome.charge
          /\ recorded' = recorded + (IF r.outcome.told = "no" THEN 0 ELSE r.outcome.charge)
          /\ excused' = (excused \/ PaidApart(broken, r, c))
  BY Zenon DEF Metered
<1>2. r = Step(broken, c, at)
  OBVIOUS
<1>3. ~excused /\ ~PaidApart(broken, r, c)
  BY <1>1, Zenon
<1>4. /\ ~broken /\ r.verdict \in {"applied", "replay_free"}
      /\ r.verdict = "applied" => r.outcome.told # "no"
      /\ cover # NoRow => BudgetLeft(cover)
      /\ cover # NoRow => ~(c.kind = "live" /\ \E g \in cover.segments : g.by = "l")
  BY <1>3, Zenon DEF PaidApart
<1>5. /\ recorded \in Nat /\ cuts \in Nat /\ bill \in Nat /\ RowHolds(cover, recorded, cuts)
      /\ c.op \in Ops \cup {NoOp} /\ c.lo \in Nat /\ c.end \in Nat /\ c.lo < c.end /\ c.basis \in Nat
      /\ <<c.lo, c.hi>> \in Ranges
      /\ c.op # NoOp => claims[c.op] \in ClaimRow \cup {NoRow}
  BY DEF Ledger, CallOK
<1>6. c.end <= Audio /\ Audio \in Nat
  <2>1. <<c.lo, c.hi>>[2] <= Audio /\ c.hi \in Nat
    BY <1>5, AudioIs, RangesAssumption
  <2> QED BY <1>5, <2>1, AudioIs DEF FairCall
<1>7. OutcomeIs(r.outcome)
  BY <1>2, StepFacts
<1>8. Within(Segs(cover), Audio)
  BY <1>3
<1>9. HeldIsInt(cover) /\ HeldIsInt(cover') /\ Drift \in Nat /\ SamplesPerMs \in Nat
  <2>1. HeldIsInt(cover)
    BY <1>5, HeldNow
  <2> DEFINE n == IF r.outcome.told = "no" THEN recorded ELSE recorded + r.outcome.charge
             k == IF r.outcome.told = "over" THEN cuts + 1 ELSE cuts
  <2>2. RowHolds(cover', n, k) /\ n \in Nat /\ k \in Nat
    BY <1>1, <1>5, <1>7 DEF OutcomeIs
  <2> HIDE DEF n, k
  <2>3. HeldIsInt(cover')
    BY <2>2, HeldNow
  <2> QED BY <2>1, <2>3, LimitsAssumption
<1>10. CASE r.verdict = "applied"
  <2>1. r.outcome = Covered(broken, c, at, c.basis)
    <3>1. CASE c.op = NoOp
      BY <1>2, <3>1 DEF Step, MeterLive
    <3>2. CASE c.op # NoOp /\ claims[c.op] = NoRow
      BY <1>2, <3>2 DEF Step, MeterFirst
    <3>3. CASE c.op # NoOp /\ claims[c.op] # NoRow /\ OtherBinding(c)
      <4>1. r = MeterUnbound(c)
        BY <1>2, <3>3 DEF Step
      <4> QED BY <1>10, <4>1 DEF MeterUnbound
    <3>4. CASE c.op # NoOp /\ claims[c.op] # NoRow /\ ~OtherBinding(c)
      <4>1. r = MeterReplay(broken, c, at)
        BY <1>2, <3>4 DEF Step
      <4>2. r.verdict = ReplayCharge(claims[c.op], c.basis).verdict
        BY <4>1 DEF MeterReplay
      <4>3. r.verdict \in {"replay_billed", "replay_free", "replay_excess"}
        BY <1>5, <3>4, <4>2, ReplayChargeOK
      <4> QED BY <1>10, <4>3
    <3> QED BY <3>1, <3>2, <3>3, <3>4
  <2> DEFINE o == r.outcome
             kind == c.kind
             lo == c.lo
             hi == c.end
             basis == c.basis
             op == c.op
  <2>2. o = Settle(cover, kind, lo, hi, basis, basis, op, at) /\ o.told # "no"
    BY <1>4, <1>10, <2>1 DEF Covered
  <2>3. LiveOnce(Segs(cover), kind)
    BY <1>4 DEF Segs, LiveOnce
  <2>4. /\ kind \in AllKinds /\ lo \in Nat /\ hi \in Nat /\ lo < hi
        /\ basis \in Nat /\ basis <= (hi - lo) + Drift /\ op \in Ops \cup {NoOp} /\ hi <= Audio
    BY <1>5, <1>6 DEF FairCall
  <2> DEFINE n == recorded
             k == cuts
             state == cover
             m == Audio
  <2>5. DrawsAll(state, n, k, kind, lo, hi, basis, op, at, o, m) /\ o.told # "no"
    BY <1>4, <1>5, <1>6, <1>8, <2>2, <2>3, <2>4 DEF DrawsAll
  <2> HIDE DEF o, kind, lo, hi, basis, op, n, k, state, m
  <2>6. /\ Net(Held, Segs(state)) + o.charge <= Net(Held, Segs(o.next)) + Drift + SamplesPerMs
        /\ Within(Segs(o.next), m)
    BY <2>5, SettlePays
  <2>7. bill' = bill + o.charge /\ recorded' = recorded + o.charge /\ o.charge \in Nat /\ cover' = o.next
    BY <1>1, <1>7, <2>5 DEF OutcomeIs, o
  <2> QED BY <1>3, <1>5, <1>9, <2>6, <2>7 DEF HeldIsInt, state, m
<1>11. CASE r.verdict = "replay_free"
  <2>1. c.op # NoOp /\ claims[c.op] # NoRow /\ ~OtherBinding(c)
    BY <1>2, <1>11 DEF Step, MeterLive, MeterFirst, MeterUnbound
  <2> DEFINE d == ReplayCharge(claims[c.op], c.basis)
  <2>2. r = MeterReplay(broken, c, at)
    BY <1>2, <2>1 DEF Step
  <2>3. d.verdict = "replay_free"
    BY <1>11, <2>2 DEF MeterReplay
  <2>4. d.charge = 0 /\ Whole(d.charge) = 0
    <3>1. d.charge = 0
      BY <1>5, <2>1, <2>3, ReplayChargeOK
    <3>2. Whole(0) = 0
      BY WholeOfWhole, LimitsAssumption DEF Samples
    <3> HIDE DEF d
    <3> QED BY <3>1, <3>2
  <2>5. r.outcome = IF Credited(cover, c.op) THEN CreditedReplay(cover, c.basis, d.charge)
                    ELSE Untouched(cover, d.charge)
    BY <1>4, <2>2, <2>3 DEF MeterReplay
  <2> HIDE DEF d
  <2>6. r.outcome.charge = 0 /\ r.outcome.told = "no" /\ Segs(r.outcome.next) = Segs(cover)
    <3>1. CASE ~Credited(cover, c.op)
      BY <2>4, <2>5, <3>1 DEF Untouched
    <3>2. CASE Credited(cover, c.op)
      <4> DEFINE row == [cover EXCEPT !.credits = @ + 1]
      <4>1. cover # NoRow /\ BudgetLeft(cover)
        BY <1>4, <3>2 DEF Credited
      <4>2. cover \in CoverRow
        BY <1>5, <4>1 DEF RowHolds
      <4>3. /\ r.outcome.charge = Whole(d.charge) /\ r.outcome.next = row /\ r.outcome.told = "no"
        BY <2>5, <3>2, <4>1 DEF CreditedReplay
      <4>4. row.segments = cover.segments /\ row \in CoverRow
        BY <4>2 DEF CoverRow
      <4> HIDE DEF row
      <4>5. row # NoRow
        BY <4>4, RowsDiffer
      <4> QED BY <2>4, <4>1, <4>3, <4>4, <4>5 DEF Segs
    <3> QED BY <3>1, <3>2
  <2>7. bill' = bill /\ recorded' = recorded /\ Segs(cover') = Segs(cover)
    BY <1>1, <1>5, <2>6
  <2> QED BY <1>3, <1>5, <1>8, <1>9, <2>7 DEF HeldIsInt
<1> QED BY <1>4, <1>10, <1>11

LEMMA AllowedMore ==
    ASSUME NEW a \in Nat, NEW b \in Nat
    PROVE  LET w == Drift + SamplesPerMs
           IN  /\ w \in Nat /\ w * a \in Nat /\ w * b \in Nat
               /\ a <= b => w * a <= w * b
               /\ a + 1 <= b => w * a + w <= w * b
<1> DEFINE w == Drift + SamplesPerMs
<1>1. w \in Nat
  BY LimitsAssumption
<1> HIDE DEF w
<1>2. a <= b => w * a <= w * b
  BY <1>1
<1>3. ASSUME a + 1 <= b PROVE w * a + w <= w * b
  <2>1. w * (a + 1) <= w * b
    BY <1>1, <1>3
  <2>2. w * (a + 1) = w * a + w
    BY <1>1
  <2> QED BY <2>1, <2>2
<1>4. w * a \in Nat /\ w * b \in Nat
  BY <1>1
<1> QED BY <1>1, <1>2, <1>3, <1>4 DEF w

LEMMA PaidStep == IInv /\ Counts /\ Paid /\ [Next]_vars => Paid'
<1> SUFFICES ASSUME IInv, Counts, Paid, [Next]_vars, ~excused'
             PROVE  /\ bill' = recorded'
                    /\ recorded' <= Net(Held, Segs(cover')) + (Drift + SamplesPerMs) * Spare'
                    /\ Within(Segs(cover'), Audio)
  BY DEF Paid, Segs
<1> DEFINE w == Drift + SamplesPerMs
           a == Spare
           b == Spare'
           x == Net(Held, Segs(cover))
           y == Net(Held, Segs(cover'))
<1>1. /\ Ledger /\ Ledger' /\ Counts' /\ StepKinds /\ a \in Nat /\ b \in Nat
  BY StepInv, CountsStep DEF IInv, Counts
<1>2. /\ recorded \in Nat /\ bill \in Nat /\ cuts \in Nat /\ recorded' \in Nat /\ bill' \in Nat
      /\ RowHolds(cover, recorded, cuts)
  BY <1>1 DEF Ledger
<1>3. x \in Int
  BY <1>2, HeldNow DEF HeldIsInt
<1>4. ~excused => bill = recorded /\ recorded <= x + w * a /\ Within(Segs(cover), Audio)
  BY DEF Paid
<1>5. /\ w \in Nat /\ w * a \in Nat /\ w * b \in Nat
      /\ a <= b => w * a <= w * b
      /\ a + 1 <= b => w * a + w <= w * b
  BY <1>1, AllowedMore
<1>6. CASE UNCHANGED <<claims, cover, money>> /\ Spare <= Spare'
  <2>1. cover' = cover /\ bill' = bill /\ recorded' = recorded /\ ~excused /\ y = x
    BY <1>6 DEF money
  <2> HIDE DEF w, x, y
  <2>2. a <= b
    BY <1>6
  <2> HIDE DEF a, b
  <2>3. recorded' <= y + w * b
    BY <1>2, <1>3, <1>4, <1>5, <2>1, <2>2
  <2>4. Within(Segs(cover'), Audio)
    BY <1>4, <2>1
  <2> QED BY <1>4, <2>1, <2>3, <2>4 DEF w, y, b
<1>7. CASE \E c, at, broken : Meters(c, at, broken)
  <2>1. PICK c, at, broken : Meters(c, at, broken)
    BY <1>7
  <2>2. /\ CallOK(c) /\ FairCall(c) /\ at \in Nat /\ broken \in BOOLEAN
        /\ Metered(c, at, broken) /\ a + 1 <= b
    BY <2>1 DEF Meters
  <2>3. /\ ~excused /\ bill' - bill = recorded' - recorded
        /\ recorded' + x <= recorded + y + Drift + SamplesPerMs
        /\ Within(Segs(cover'), Audio) /\ y \in Int
    <3>1. ~excused => Within(Segs(cover), Audio)
      BY <1>4
    <3> QED BY <1>1, <2>2, <3>1, MeteredPays DEF HeldIsInt
  <2>4. Drift \in Nat /\ SamplesPerMs \in Nat /\ w = Drift + SamplesPerMs
    BY LimitsAssumption
  <2> DEFINE p == w * a
             q == w * b
  <2> HIDE DEF w, x, y, a, b
  <2>6. bill = recorded /\ recorded <= x + p /\ p \in Nat /\ q \in Nat /\ p + w <= q
    BY <1>4, <1>5, <2>2, <2>3
  <2> HIDE DEF p, q
  <2> DEFINE r == recorded'
             s == bill'
  <2>7. /\ r \in Nat /\ s \in Nat /\ recorded \in Nat /\ x \in Int /\ y \in Int /\ w \in Nat
        /\ Drift \in Nat /\ SamplesPerMs \in Nat
    BY <1>2, <1>3, <2>3, <2>4
  <2>10. s - bill = r - recorded /\ r + x <= recorded + y + Drift + SamplesPerMs
    BY <2>3
  <2> HIDE DEF r, s
  <2>8. s = r
    BY <2>6, <2>7, <2>10
  <2>11. recorded + y + Drift + SamplesPerMs = recorded + y + w
    BY <2>4, <2>7
  <2>9. r <= y + q
    BY <2>6, <2>7, <2>10, <2>11
  <2>5. recorded' <= y + w * b /\ bill' = recorded'
    BY <2>8, <2>9 DEF q, r, s
  <2> QED BY <2>3, <2>5 DEF w, y, b
<1>8. CASE Prune /\ Spare' = Spare
  <2>1. /\ cover' = IF CoverExpired THEN NoRow ELSE cover
        /\ recorded' = IF CoverExpired THEN 0 ELSE recorded
        /\ bill' = bill /\ b = a
    BY <1>8 DEF Prune
  <2>2. excused' = (excused \/ CoverExpired)
    BY <1>8 DEF Prune
  <2>3. ~excused /\ ~CoverExpired
    BY <2>2, Zenon
  <2>4. cover' = cover /\ recorded' = recorded
    BY <2>1, <2>3
  <2>5. w * b = w * a /\ y = x
    BY <2>1, <2>4
  <2> HIDE DEF w, x, y, a
  <2>6. recorded' <= y + w * b
    BY <1>4, <2>3, <2>4, <2>5
  <2> QED BY <1>4, <2>1, <2>3, <2>4, <2>6 DEF w, y
<1> QED BY <1>1, <1>6, <1>7, <1>8 DEF StepKinds

LEMMA PaidInit == Init => Paid
<1> SUFFICES ASSUME Init PROVE Paid
  OBVIOUS
<1>1. Counts /\ Spare \in Nat /\ cover = NoRow /\ bill = 0 /\ recorded = 0
  BY CountsInit DEF Init, Counts
<1>2. Segs(cover) = {} /\ Net(Held, Segs(cover)) = 0
  BY <1>1, NetNone DEF Segs
<1>3. (Drift + SamplesPerMs) * Spare \in Nat
  <2> DEFINE a == Spare
  <2>1. a \in Nat
    BY <1>1
  <2> HIDE DEF a
  <2>2. (Drift + SamplesPerMs) * a \in Nat
    BY <2>1, AllowedMore
  <2> QED BY <2>2 DEF a
<1>4. 0 <= 0 + (Drift + SamplesPerMs) * Spare
  BY <1>3
<1> QED BY <1>1, <1>2, <1>4 DEF Paid, Within

LEMMA PaidImplies == IInv /\ Counts /\ Paid => AudioPaidOnce
<1> SUFFICES ASSUME IInv, Counts, Paid, ~excused
             PROVE  bill <= Audio + (Drift + SamplesPerMs) * begun
  BY DEF AudioPaidOnce
<1> DEFINE S == Segs(cover)
           a == Spare
           w == Drift + SamplesPerMs
<1>1. Ledger /\ bill = recorded /\ recorded <= Net(Held, S) + w * a /\ Within(S, Audio)
  BY DEF IInv, Paid
<1>2. /\ begun \in Nat /\ Cardinality(open) \in Nat /\ Cardinality(owed) \in Nat
      /\ Cardinality(open) + Cardinality(owed) <= begun
  BY FS_CardinalityType DEF IInv, Sessions, Counts
<1>3. a \in Nat /\ a <= begun
  BY <1>2 DEF Spare
<1>4. Laid(S) /\ bill \in Nat
  BY <1>1, SegsLaid DEF Ledger
<1> HIDE DEF S, a, w
<1>5. Net(Held, S) \in Int /\ Net(Held, S) <= Audio /\ Audio \in Nat
  BY <1>1, <1>4, AudioIs, HeldFits DEF Within
<1>6. w * a <= w * begun /\ w * a \in Nat /\ w * begun \in Nat
  BY <1>2, <1>3, AllowedMore DEF w
<1> QED BY <1>1, <1>4, <1>5, <1>6 DEF w

(* Until some session is paid for as one of its own, the account is charged   *)
(* no more than the audio of the recording, and the drift and a millisecond   *)
(* for each session, wherever they ran and in whatever order their calls      *)
(* arrived.                                                                   *)
THEOREM PaidOnce == Spec => []AudioPaidOnce
<1>1. Init => IInv /\ Counts /\ Paid
  BY InitInv, CountsInit, PaidInit
<1>2. IInv /\ Counts /\ Paid /\ [Next]_vars => (IInv /\ Counts /\ Paid)'
  BY StepInv, CountsStep, PaidStep
<1>3. IInv /\ Counts /\ Paid => AudioPaidOnce
  BY PaidImplies
<1> QED BY <1>1, <1>2, <1>3, PTL DEF Spec


-----------------------------------------------------------------------------
(* What is free                                                              *)

LEMMA RoundedMore ==
    ASSUME NEW a \in Int, NEW c \in Int, a <= c, NEW b \in Nat \ {0}
    PROVE  Rounded(a, b) \in Int /\ Rounded(c, b) \in Int /\ Rounded(a, b) <= Rounded(c, b)
<1> DEFINE p == Rounded(a, b)
           q == Rounded(c, b)
<1>1. /\ p \in Int /\ q \in Int /\ 2 * (b * p) <= 2 * a + b /\ 2 * c < 2 * (b * q) + b
  BY RoundedNear
<1> HIDE DEF p, q
<1>2. p <= q
  <2> SUFFICES ASSUME q + 1 <= p PROVE FALSE
    BY <1>1
  <2> DEFINE d == p - (q + 1)
  <2>1. d \in Nat /\ p = (q + 1) + d
    BY <1>1
  <2> HIDE DEF d
  <2>2. b * p = b * q + b + b * d /\ b * d \in Nat /\ b * q \in Int
    BY <1>1, <2>1
  <2> DEFINE bp == b * p
             bq == b * q
             bd == b * d
  <2>3. /\ bp = bq + b + bd /\ bd \in Nat /\ bq \in Int
        /\ 2 * bp <= 2 * a + b /\ 2 * c < 2 * bq + b
    BY <1>1, <2>2
  <2> HIDE DEF bp, bq, bd
  <2> QED BY <2>3
<1> QED BY <1>1, <1>2 DEF p, q

LEMMA Tolerates ==
    ASSUME NEW a \in Nat, NEW d \in Nat
    PROVE  /\ WithTolerance(a) \in Nat /\ a <= WithTolerance(a)
           /\ WithTolerance(a) + d <= WithTolerance(a + d)
<1> DEFINE b == 100 * SamplesPerMs
           p == Rounded(2 * a, b)
           q == Rounded(2 * (a + d), b)
           m == Most(Slack, p)
           k == Most(Slack, q)
           u == SamplesPerMs
<1>1. Slack \in Nat /\ u \in Nat /\ b \in Nat \ {0}
  BY LimitsAssumption
<1>2. p \in Int /\ q \in Int /\ p <= q
  <2>1. 2 * a \in Int /\ 2 * (a + d) \in Int /\ 2 * a <= 2 * (a + d)
    OBVIOUS
  <2> HIDE DEF b
  <2> QED BY <1>1, <2>1, RoundedMore
<1>3. Tolerance(a) = u * m /\ Tolerance(a + d) = u * k
  BY DEF Tolerance, Samples
<1> HIDE DEF b, p, q
<1>4. m \in Nat /\ k \in Nat /\ m <= k
  BY <1>1, <1>2 DEF Most
<1> HIDE DEF m, k, u
<1>5. u * m \in Nat /\ u * k \in Nat /\ u * m <= u * k
  <2> DEFINE e == k - m
  <2>1. e \in Nat /\ k = m + e
    BY <1>4
  <2> HIDE DEF e
  <2>2. u * k = u * m + u * e /\ u * e \in Nat /\ u * m \in Nat
    BY <1>1, <1>4, <2>1
  <2> QED BY <2>2
<1> QED BY <1>3, <1>5 DEF WithTolerance

LEMMA TolerateMore ==
    ASSUME NEW a \in Nat, NEW b \in Nat, a <= b
    PROVE  WithTolerance(a) <= WithTolerance(b)
<1> DEFINE d == b - a
<1>1. d \in Nat /\ a + d = b
  OBVIOUS
<1> HIDE DEF d
<1>2. WithTolerance(a) \in Nat /\ WithTolerance(a) + d <= WithTolerance(a + d) /\ WithTolerance(b) \in Nat
  BY <1>1, Tolerates
<1> QED BY <1>1, <1>2

LEMMA Limits ==
    ASSUME NEW b \in Nat
    PROVE  /\ WithTolerance(b) \in Nat /\ WithTolerance(WithTolerance(b)) \in Nat
           /\ b <= WithTolerance(b) /\ WithTolerance(b) <= WithTolerance(WithTolerance(b))
<1>1. 0 \in Nat
  OBVIOUS
<1>2. WithTolerance(b) \in Nat /\ b <= WithTolerance(b)
  BY <1>1, Tolerates
<1>3. WithTolerance(WithTolerance(b)) \in Nat /\ WithTolerance(b) <= WithTolerance(WithTolerance(b))
  BY <1>1, <1>2, Tolerates
<1> QED BY <1>2, <1>3

\* A settlement draws no more than the row holds above zero.
LEMMA OfferedHeld ==
    ASSUME NEW S, Laid(S), NEW drawn \in SUBSET S, NEW lo \in Nat, NEW hi \in Nat, lo < hi
    PROVE  /\ Offered(drawn, lo, hi) \in Int /\ Net(Raised, S) \in Nat
           /\ Offered(drawn, lo, hi) <= Net(Raised, S)
<1> DEFINE I == InsideOf(lo, hi)
           rest == S \ drawn
<1>1. IsFiniteSet(S) /\ S \in SUBSET Segment
  BY DEF Laid
<1>2. /\ drawn \in SUBSET Segment /\ IsFiniteSet(drawn) /\ rest \in SUBSET Segment
      /\ IsFiniteSet(rest) /\ drawn \cap rest = {} /\ drawn \cup rest = S
  BY <1>1, FS_Subset
<1>3. Raised \in [Segment -> Nat] /\ Raised \in [Segment -> Int]
  BY FieldFacts
<1>4. I \in [Segment -> Int] /\ \A g \in Segment : I[g] <= Raised[g]
  <2> SUFFICES ASSUME NEW g \in Segment
               PROVE  Inside(g, lo, hi) \in Int /\ Inside(g, lo, hi) <= Raised[g]
    BY DEF InsideOf
  <2>1. Inside(g, lo, hi) \in Int /\ Inside(g, lo, hi) <= g.ms
    BY InsideIsInt
  <2>2. g.ms \in Int /\ Raised[g] = (IF g.ms > 0 THEN g.ms ELSE 0)
    BY FieldFacts
  <2> QED BY <2>1, <2>2
<1>5. Offered(drawn, lo, hi) = Net(I, drawn)
  BY <1>2, OfferedIs
<1> HIDE DEF I, rest
<1>6. Net(I, drawn) \in Int /\ Net(I, drawn) <= Net(Raised, drawn)
  <2>1. Net(I, drawn) \in Int
    BY <1>2, <1>4, NetAdd
  <2>2. \A g \in drawn : I[g] <= Raised[g]
    BY <1>2, <1>4
  <2>3. Net(I, drawn) <= Net(Raised, drawn)
    BY <1>2, <1>3, <1>4, <2>2, NetMost
  <2> QED BY <2>1, <2>3
<1>7. Net(Raised, S) = Net(Raised, drawn) + Net(Raised, rest)
  <2>1. Net(Raised, drawn \cup rest) = Net(Raised, drawn) + Net(Raised, rest)
    BY <1>2, <1>3, NetUnion
  <2> QED BY <1>2, <2>1
<1>8. Net(Raised, drawn) \in Nat /\ Net(Raised, rest) \in Nat
  <2>1. Net(Raised, drawn) \in Nat
    BY <1>2, <1>3, NetOfNat
  <2>2. Net(Raised, rest) \in Nat
    BY <1>2, <1>3, NetOfNat
  <2> QED BY <2>1, <2>2
<1> QED BY <1>5, <1>6, <1>7, <1>8

\* What an outcome takes from the credits of a row: one for whatever it lets pass.
Spends(o, state) ==
    /\ state = NoRow => o.let = 0
    /\ state # NoRow => /\ o.next # NoRow /\ state.credits <= o.next.credits
                        /\ o.let > 0 => state.credits + 1 <= o.next.credits

LEMMA UntouchedSpends ==
    ASSUME NEW state, NEW n, NEW k, RowHolds(state, n, k), NEW full
    PROVE  /\ Spends(Untouched(state, full), state)
           /\ Untouched(state, full).let = 0 /\ Untouched(state, full).charge = full
<1>1. state # NoRow => state.credits \in Nat
  BY DEF RowHolds, CoverRow
<1> QED BY <1>1 DEF Spends, Untouched

\* What coverage lets pass, and what a session it let pass may have been, is within the
\* tolerance of what the row holds, to a millisecond.
LEMMA SettleSpends ==
    ASSUME NEW state, NEW n \in Nat, NEW k \in Nat, RowHolds(state, n, k), NEW kind,
           NEW lo \in Nat, NEW hi \in Nat, lo < hi, NEW basis \in Nat,
           NEW proposed \in Nat, proposed <= basis,
           NEW op \in Ops \cup {NoOp}, NEW at \in Nat,
           NEW o, o = Settle(state, kind, lo, hi, basis, proposed, op, at)
    PROVE  /\ Spends(o, state)
           /\ o.let <= WithTolerance(n + Samples(k)) + SamplesPerMs
           /\ \/ o.charge = Whole(proposed)
              \/ Whole(basis) <= WithTolerance(n + Samples(k)) + o.charge + SamplesPerMs
<1> DEFINE full == Whole(proposed)
           all == Whole(basis)
           segs == Segs(state)
           x == Offered(Drawn(state, kind, lo, hi), lo, hi)
           b == n + Samples(k)
           u == SamplesPerMs
           credits == IF state = NoRow THEN 0 ELSE state.credits
<1>1. /\ Laid(segs) /\ state \in CoverRow \cup {NoRow} /\ Net(Raised, segs) <= b
  BY SegsLaid
<1>2. o = Untouched(state, full) \/ Settled(o, state, kind, lo, hi, basis, full)
  BY <1>1, SettleIs
<1>3. /\ full \in Nat /\ all \in Nat /\ full <= all /\ u \in Nat
      /\ 2 * all <= 2 * basis + u
  <2>1. full \in Nat /\ all \in Nat /\ 2 * all <= 2 * basis + u
    BY WholeNear
  <2>2. full <= all
    BY WholeMore
  <2> QED BY <2>1, <2>2, LimitsAssumption
<1>4. b \in Nat
  <2>1. Samples(k) \in Nat
    BY OneMore
  <2> QED BY <2>1
<1>5. Drawn(state, kind, lo, hi) \in SUBSET segs
  BY DEF Drawn, Hit
<1>6. credits \in Nat /\ (state # NoRow => credits = state.credits)
  BY <1>1 DEF CoverRow
<1> HIDE DEF full, all, segs, credits
<1>7. x \in Int /\ x <= b
  <2>1. x \in Int /\ Net(Raised, segs) \in Nat /\ x <= Net(Raised, segs)
    BY <1>1, <1>5, OfferedHeld
  <2> HIDE DEF x, b
  <2> QED BY <1>1, <1>4, <2>1
<1> DEFINE t == WithTolerance(b)
<1>8. t \in Nat /\ b <= t
  <2> HIDE DEF b
  <2> QED BY <1>4, Limits
<1>9. CASE o = Untouched(state, full)
  <2>1. Spends(o, state) /\ o.let = 0 /\ o.charge = full
    BY <1>9, UntouchedSpends
  <2> HIDE DEF t, b
  <2>2. o.let <= t + u
    BY <1>3, <1>8, <2>1
  <2> QED BY <2>1, <2>2 DEF t, b, full
<1>10. CASE Settled(o, state, kind, lo, hi, basis, full)
  <2>1. /\ o.charge \in 0..full /\ o.let = full - o.charge /\ o.next \in CoverRow
        /\ o.next.credits = credits + (IF o.charge < full THEN 1 ELSE 0)
        /\ o.charge < full => /\ x > 0 /\ state # NoRow
                              /\ \/ basis <= x + Tolerance(x)
                                 \/ o.charge = Most(0, Whole(basis - x))
    BY <1>10 DEF Settled, credits
  <2> DEFINE y == Whole(basis - x)
  <2>2. y \in Int /\ 2 * (basis - x) < 2 * y + u
    <3>1. basis - x \in Int
      BY <1>7
    <3> HIDE DEF x
    <3> QED BY <3>1, WholeNear
  <2>3. o.next # NoRow
    BY <2>1, RowsDiffer
  <2>4. o.charge < full => x + Tolerance(x) <= t
    <3> SUFFICES ASSUME x > 0 PROVE x + Tolerance(x) <= t
      BY <2>1
    <3>1. x \in Nat
      BY <1>7
    <3> HIDE DEF x, b
    <3> QED BY <1>4, <1>7, <3>1, TolerateMore DEF WithTolerance
  <2> DEFINE tx == Tolerance(x)
             ch == o.charge
  <2>5. o.charge < full => tx \in Nat
    <3> SUFFICES ASSUME x > 0 PROVE tx \in Nat
      BY <2>1
    <3>1. x \in Nat
      BY <1>7
    <3> HIDE DEF x
    <3> QED BY <3>1, ToleranceIsNat
  <2>6. /\ ch \in Nat /\ ch <= full
        /\ ch < full => /\ x > 0 /\ tx \in Nat /\ x + tx <= t
                        /\ basis <= x + tx \/ ch = Most(0, y)
    BY <1>3, <2>1, <2>4, <2>5
  <2>7. Spends(o, state)
    BY <1>3, <1>6, <2>1, <2>3 DEF Spends
  <2> HIDE DEF x, y, t, b, tx, ch, u
  <2>8. CASE ch = full
    <3>1. o.let = 0 /\ 0 <= t + u
      BY <1>3, <1>8, <2>1, <2>8 DEF ch
    <3> QED BY <2>7, <2>8, <3>1 DEF t, b, ch, full, u
  <2>9. CASE ch < full /\ basis <= x + tx
    <3>1. 2 * all <= 2 * t + u
      BY <1>3, <1>7, <1>8, <2>6, <2>9
    <3>2. full - ch <= t + u /\ all <= t + ch + u
      BY <1>3, <1>8, <2>6, <3>1
    <3>3. o.let <= t + u
      BY <2>1, <3>2 DEF ch
    <3> QED BY <2>7, <3>2, <3>3 DEF t, b, ch, all, u
  <2>10. CASE ch < full /\ ch = Most(0, y)
    <3>1. y <= ch
      BY <2>2, <2>6, <2>10 DEF Most
    <3>2. 2 * all <= 2 * x + 2 * ch + 2 * u
      BY <1>3, <1>7, <2>2, <2>6, <3>1
    <3>3. x <= t
      BY <1>4, <1>7, <1>8
    <3>4. full - ch <= t + u /\ all <= t + ch + u
      BY <1>3, <1>7, <1>8, <2>6, <3>2, <3>3
    <3>5. o.let <= t + u
      BY <2>1, <3>4 DEF ch
    <3> QED BY <2>7, <3>4, <3>5 DEF t, b, ch, all, u
  <2>11. ch = full \/ ch < full
    BY <1>3, <2>6
  <2> QED BY <2>6, <2>8, <2>9, <2>10, <2>11
<1> QED BY <1>2, <1>9, <1>10

\* What the account was charged, and a millisecond for each call metered or given up.
Backing == bill + Samples(Spare)
FreeLimit == WithTolerance(WithTolerance(Backing))

\* A claim says no more than what was paid, with coverage's tolerance; what is free is
\* within the credits spent; the row remembers no more than was paid.
BilledBacked == \A op \in Ops : claims[op] # NoRow => Samples(claims[op].billed) <= WithTolerance(Backing)

FreeCounted ==
    /\ cover = NoRow => free = 0
    /\ cover # NoRow => free <= cover.credits * FreeLimit

FreeInv == BilledBacked /\ FreeCounted /\ recorded <= bill

LEMMA BackingIs ==
    ASSUME Ledger, Counts, recorded <= bill
    PROVE  /\ Backing \in Nat /\ recorded + Samples(cuts) <= Backing /\ Samples(cuts) \in Nat
           /\ WithTolerance(Backing) \in Nat /\ FreeLimit \in Nat /\ WithTolerance(Backing) <= FreeLimit
<1> DEFINE a == Spare
           b == Backing
           sa == Samples(a)
           sc == Samples(cuts)
<1>1. recorded \in Nat /\ bill \in Nat /\ cuts \in Nat /\ a \in Nat /\ cuts <= a
  BY DEF Ledger, Counts
<1>2. b = bill + sa
  BY DEF Backing
<1> HIDE DEF a, b
<1>3. sa \in Nat /\ sc \in Nat /\ sc <= sa
  BY <1>1, SamplesMore, OneMore
<1> HIDE DEF sa
<1>4. b \in Nat /\ recorded + sc <= b /\ sc \in Nat
  BY <1>1, <1>2, <1>3
<1>5. WithTolerance(b) \in Nat /\ WithTolerance(WithTolerance(b)) \in Nat
      /\ WithTolerance(b) <= WithTolerance(WithTolerance(b))
  BY <1>4, Limits
<1> QED BY <1>4, <1>5 DEF b, FreeLimit

\* What the metering of a call lets pass, and what its claim says after it.
FreeIs(r, c) ==
    /\ Spends(r.outcome, cover)
    /\ r.outcome.let <= FreeLimit + SamplesPerMs
    /\ c.op # NoOp => Samples(r.claim.billed) <= WithTolerance(Backing) + r.outcome.charge + SamplesPerMs

LEMMA CoveredSpends ==
    ASSUME Ledger, Counts, recorded <= bill, NEW c, CallOK(c), NEW at \in Nat, NEW broken,
           NEW proposed \in Nat, proposed <= c.basis
    PROVE  LET o == Covered(broken, c, at, proposed)
           IN  /\ Spends(o, cover) /\ o.let <= FreeLimit + SamplesPerMs
               /\ \/ o.charge = Whole(proposed)
                  \/ Whole(c.basis) <= WithTolerance(Backing) + o.charge + SamplesPerMs
               /\ o.charge \in Nat
<1> DEFINE o == Covered(broken, c, at, proposed)
           full == Whole(proposed)
           n == recorded + Samples(cuts)
           t == WithTolerance(Backing)
           l == FreeLimit
           u == SamplesPerMs
<1>1. /\ recorded \in Nat /\ cuts \in Nat /\ RowHolds(cover, recorded, cuts) /\ c.basis \in Nat
      /\ full \in Nat
  BY WholeNear DEF Ledger, CallOK
<1>2. /\ n \in Nat /\ Backing \in Nat /\ n <= Backing /\ l \in Nat /\ t \in Nat /\ t <= l /\ u \in Nat
  <2>1. Backing \in Nat /\ n <= Backing /\ Samples(cuts) \in Nat /\ l \in Nat /\ t \in Nat /\ t <= l
    BY BackingIs
  <2> QED BY <1>1, <2>1, LimitsAssumption
<1>3. WithTolerance(n) <= t /\ WithTolerance(n) \in Nat
  <2> HIDE DEF n
  <2> QED BY <1>2, TolerateMore, Limits
<1>4. OutcomeIs(o)
  BY CoveredOK
<1>5. o.charge \in Nat /\ o.let \in Nat
  BY <1>4 DEF OutcomeIs
<1>6. CASE broken
  <2>1. o = Untouched(cover, full)
    BY <1>6 DEF Covered
  <2> HIDE DEF o
  <2>2. Spends(o, cover) /\ o.let = 0 /\ o.charge = full
    BY <1>1, <2>1, UntouchedSpends
  <2> HIDE DEF l, u
  <2>3. o.let <= l + u
    BY <1>2, <2>2
  <2> QED BY <1>5, <2>2, <2>3 DEF o, l, u
<1>7. CASE ~broken
  <2>1. o = Settle(cover, c.kind, c.lo, c.end, c.basis, proposed, c.op, at)
    BY <1>7 DEF Covered
  <2> DEFINE all == Whole(c.basis)
             wn == WithTolerance(n)
             ch == o.charge
             let == o.let
  <2>2. /\ Spends(o, cover) /\ let <= wn + u
        /\ ch = full \/ all <= wn + ch + u
    <3> HIDE DEF o
    <3> QED BY <1>1, <2>1, SettleSpends DEF CallOK
  <2>3. all \in Nat
    BY <1>1, WholeNear
  <2>4. ch \in Nat /\ let \in Nat /\ wn \in Nat /\ wn <= t
    BY <1>3, <1>5
  <2> HIDE DEF o, full, all, wn, ch, let, t, l, u, n
  <2>5. let <= l + u /\ (ch = full \/ all <= t + ch + u) /\ ch \in Nat
    BY <1>2, <2>2, <2>3, <2>4
  <2> QED BY <2>2, <2>5 DEF o, full, all, ch, let, t, l, u
<1> QED BY <1>6, <1>7

LEMMA StepFree ==
    ASSUME Ledger, Counts, FreeInv, NEW c, CallOK(c), NEW at \in Nat, NEW broken \in BOOLEAN
    PROVE  FreeIs(Step(broken, c, at), c)
<1> DEFINE r == Step(broken, c, at)
           amount == c.basis
           all == Whole(amount)
           t == WithTolerance(Backing)
           l == FreeLimit
           u == SamplesPerMs
<1>1. /\ c.op \in Ops \cup {NoOp} /\ amount \in Nat /\ amount <= amount
      /\ recorded \in Nat /\ cuts \in Nat /\ RowHolds(cover, recorded, cuts) /\ recorded <= bill
      /\ c.op # NoOp => claims[c.op] \in ClaimRow \cup {NoRow}
      /\ c.op # NoOp /\ claims[c.op] # NoRow => Samples(claims[c.op].billed) <= t
  BY DEF CallOK, Ledger, FreeInv, BilledBacked
<1>2. l \in Nat /\ t \in Nat /\ t <= l /\ u \in Nat /\ Backing \in Nat
  BY <1>1, BackingIs, LimitsAssumption
<1>3. /\ all \in Nat /\ all = Samples(Ms(amount)) /\ Ms(amount) \in Nat
      /\ 2 * all <= 2 * amount + u
  BY <1>1, WholeNear DEF Whole
<1>4. OutcomeIs(r.outcome)
  BY StepFacts
<1>5. CASE c.op = NoOp
  <2>1. r.outcome = Covered(broken, c, at, amount)
    BY <1>5 DEF Step, MeterLive
  <2> HIDE DEF r
  <2>2. Spends(r.outcome, cover) /\ r.outcome.let <= FreeLimit + SamplesPerMs
    BY <1>1, <2>1, CoveredSpends
  <2>3. FreeIs(r, c)
    BY <1>5, <2>2 DEF FreeIs
  <2> QED BY <2>3 DEF r
<1>6. CASE c.op # NoOp /\ claims[c.op] = NoRow
  <2>1. r = MeterFirst(broken, c, at)
    BY <1>6 DEF Step
  <2>2. r.outcome = Covered(broken, c, at, amount) /\ r.claim.billed = Ms(amount)
    BY <2>1 DEF MeterFirst
  <2> DEFINE ch == r.outcome.charge
  <2> HIDE DEF r
  <2>3. /\ Spends(r.outcome, cover) /\ r.outcome.let <= FreeLimit + SamplesPerMs
        /\ ch = all \/ all <= t + ch + u
        /\ ch \in Nat
    BY <1>1, <2>2, CoveredSpends
  <2> HIDE DEF ch, all, t, u
  <2>4. all <= t + ch + u
    BY <1>2, <1>3, <2>3
  <2>5. Samples(r.claim.billed) <= t + ch + u
    BY <1>3, <2>2, <2>4
  <2>6. FreeIs(r, c)
    BY <2>3, <2>5 DEF FreeIs, t, ch, u
  <2> QED BY <2>6 DEF r
<1>7. CASE c.op # NoOp /\ claims[c.op] # NoRow /\ OtherBinding(c)
  <2>1. r = MeterUnbound(c)
    BY <1>7 DEF Step
  <2>2. r.outcome = Untouched(cover, amount) /\ r.claim = claims[c.op]
    BY <2>1 DEF MeterUnbound
  <2> HIDE DEF r
  <2>3. Spends(r.outcome, cover) /\ r.outcome.let = 0 /\ r.outcome.charge = amount
    BY <1>1, <2>2, UntouchedSpends
  <2> DEFINE s == Samples(r.claim.billed)
  <2>4. s \in Nat /\ s <= t
    <3>1. r.claim.billed \in Nat
      BY <1>1, <1>7, <2>2 DEF ClaimRow
    <3>2. s \in Nat
      BY <3>1, OneMore
    <3> QED BY <1>1, <1>7, <2>2, <3>2
  <2> HIDE DEF s, t, l, u, amount
  <2>5. s <= t + r.outcome.charge + u /\ r.outcome.let <= l + u
    BY <1>1, <1>2, <2>3, <2>4
  <2>6. FreeIs(r, c)
    BY <2>3, <2>5 DEF FreeIs, s, t, l, u
  <2> QED BY <2>6 DEF r
<1>8. CASE c.op # NoOp /\ claims[c.op] # NoRow /\ ~OtherBinding(c)
  <2> DEFINE row == claims[c.op]
             d == ReplayCharge(row, amount)
             old == Samples(row.billed)
             now == Samples(d.billed)
             part == Whole(d.charge)
  <2> SUFFICES FreeIs(r, c)
    OBVIOUS
  <2>1. r = MeterReplay(broken, c, at)
    BY <1>8 DEF Step
  <2>2. r.claim = [row EXCEPT !.replays = @ + 1, !.billed = d.billed]
    BY <2>1 DEF MeterReplay
  <2>3. /\ d.verdict # "replay_billed" /\ broken => r.outcome = Untouched(cover, all)
        /\ d.verdict # "replay_billed" /\ ~broken /\ Credited(cover, c.op) =>
              r.outcome = CreditedReplay(cover, amount, d.charge)
        /\ d.verdict = "replay_excess" /\ ~broken /\ ~Credited(cover, c.op) =>
              r.outcome = Covered(broken, c, at, d.charge)
        /\ d.verdict = "replay_free" /\ ~broken /\ ~Credited(cover, c.op) =>
              r.outcome = Untouched(cover, d.charge)
        /\ d.verdict = "replay_billed" => r.outcome = Untouched(cover, d.charge)
    BY <2>1 DEF MeterReplay
  <2> HIDE DEF r
  <2>4. row \in ClaimRow
    BY <1>1, <1>8
  <2>5. r.claim.billed = d.billed
    <3> HIDE DEF row, d
    <3> QED BY <2>2, <2>4 DEF ClaimRow
  <2>6. old <= t
    BY <1>1, <1>8
  <2> HIDE DEF row
  <2>7. /\ d.verdict \in {"replay_billed", "replay_free", "replay_excess"}
        /\ d.charge \in 0..amount
        /\ d.verdict = "replay_billed" => d.charge = amount /\ d.billed = row.billed + Ms(amount)
        /\ d.verdict = "replay_free" => /\ d.charge = 0 /\ d.billed = row.billed
                                        /\ amount <= old + Tolerance(old)
        /\ d.verdict = "replay_excess" => old + d.charge = amount /\ d.billed = Ms(amount)
        /\ old \in Nat /\ row.billed \in Nat
    BY <1>1, <2>4, ReplayChargeOK DEF ClaimRow
  <2> HIDE DEF d
  <2> DEFINE dc == d.charge
  <2>8. dc \in Nat /\ dc <= amount
    BY <1>1, <2>7
  <2>9. part \in Nat /\ (dc = 0 => part = 0)
    <3> HIDE DEF dc
    <3>1. Whole(dc) \in Nat
      BY <2>8, WholeNear
    <3>2. Whole(0) = 0
      BY WholeOfWhole, LimitsAssumption DEF Samples
    <3> QED BY <3>1, <3>2 DEF dc
  \* What the claim says after a re-send, and what the re-send comes to.
  <2>10. /\ d.verdict = "replay_billed" => now = old + all /\ dc = amount
         /\ d.verdict = "replay_free" => now = old /\ dc = 0 /\ amount <= WithTolerance(old)
         /\ d.verdict = "replay_excess" => now = all /\ all = old + part
    <3>1. ASSUME d.verdict = "replay_billed" PROVE now = old + all
      <4> DEFINE a == row.billed
                 b == Ms(amount)
      <4>1. d.billed = a + b /\ a \in Nat /\ b \in Nat /\ SamplesPerMs \in Nat
        BY <1>3, <2>7, <3>1, LimitsAssumption
      <4> HIDE DEF a, b
      <4>2. SamplesPerMs * (a + b) = SamplesPerMs * a + SamplesPerMs * b
        BY <4>1
      <4> QED BY <1>3, <4>1, <4>2 DEF Samples, a, b
    <3>2. ASSUME d.verdict = "replay_excess" PROVE now = all /\ all = old + part
      <4> HIDE DEF dc
      <4>1. Whole(Samples(row.billed) + dc) = Samples(row.billed) + Whole(dc)
        <5> DEFINE a == row.billed
        <5>1. a \in Int /\ dc \in Int
          BY <2>7, <2>8
        <5> HIDE DEF a
        <5>2. Whole(Samples(a) + dc) = Samples(a) + Whole(dc)
          BY <5>1, WholeShift
        <5> QED BY <5>2 DEF a
      <4>2. Samples(row.billed) + dc = amount
        BY <2>7, <3>2 DEF dc
      <4> QED BY <1>3, <2>7, <3>2, <4>1, <4>2 DEF dc
    <3> QED BY <2>7, <3>1, <3>2 DEF WithTolerance
  <2>11. all <= amount + u
    <3> HIDE DEF all, amount, u
    <3> QED BY <1>1, <1>2, <1>3
  <2>12. WithTolerance(old) <= l /\ WithTolerance(old) \in Nat
    <3> DEFINE b == t
    <3>1. b \in Nat /\ old \in Nat /\ old <= b /\ l = WithTolerance(b)
      BY <1>2, <2>6, <2>7 DEF FreeLimit
    <3> HIDE DEF b, old, l
    <3> QED BY <3>1, TolerateMore, Limits
  <2> DEFINE wo == WithTolerance(old)
             ch == r.outcome.charge
             let == r.outcome.let
  <2>13. /\ old \in Nat /\ old <= t /\ wo \in Nat /\ wo <= l
         /\ d.verdict = "replay_billed" => now = old + all /\ dc = amount
         /\ d.verdict = "replay_free" => now = old /\ dc = 0 /\ amount <= wo /\ part = 0
         /\ d.verdict = "replay_excess" => now = all /\ all = old + part
         /\ d.verdict \in {"replay_billed", "replay_free", "replay_excess"}
    BY <2>6, <2>7, <2>9, <2>10, <2>12
  \* The conclusion, in numbers.
  <2>14. ASSUME Spends(r.outcome, cover), let <= l + u, now <= t + ch + u
         PROVE  FreeIs(r, c)
    BY <2>5, <2>14 DEF FreeIs
  <2> HIDE DEF all, amount, t, l, u, old, now, part, dc, wo, ch, let
  <2>15. CASE r.outcome = Untouched(cover, all) /\ d.verdict # "replay_billed"
    <3>1. Spends(r.outcome, cover) /\ let = 0 /\ ch = all
      BY <1>1, <2>15, UntouchedSpends DEF let, ch
    <3>2. let <= l + u /\ now <= t + ch + u
      BY <1>2, <1>3, <2>9, <2>13, <2>15, <3>1
    <3> QED BY <2>14, <3>1, <3>2
  <2>16. CASE d.verdict = "replay_billed"
    <3>1. r.outcome = Untouched(cover, dc)
      BY <2>3, <2>16 DEF dc
    <3>2. Spends(r.outcome, cover) /\ let = 0 /\ ch = dc
      BY <1>1, <3>1, UntouchedSpends DEF let, ch
    <3>3. let <= l + u /\ now <= t + ch + u
      BY <1>1, <1>2, <1>3, <2>11, <2>13, <2>16, <3>2
    <3> QED BY <2>14, <3>2, <3>3
  <2>17. CASE d.verdict # "replay_billed" /\ broken
    BY <2>3, <2>15, <2>17
  <2>18. CASE d.verdict # "replay_billed" /\ ~broken /\ Credited(cover, c.op)
    <3>1. r.outcome = CreditedReplay(cover, amount, d.charge)
      BY <2>3, <2>18
    <3>2. CASE ~BudgetLeft(cover)
      <4>1. r.outcome = Untouched(cover, all)
        BY <3>1, <3>2 DEF CreditedReplay, all
      <4> QED BY <2>15, <2>18, <4>1
    <3>3. CASE BudgetLeft(cover)
      <4>1. cover # NoRow /\ cover \in CoverRow /\ cover.credits \in Nat
        BY <1>1, <2>18 DEF Credited, RowHolds, CoverRow
      <4> DEFINE next == [cover EXCEPT !.credits = @ + 1]
      <4>2. next \in CoverRow /\ next.credits = cover.credits + 1
        BY <4>1 DEF CoverRow
      <4>3. r.outcome = [charge |-> part, next |-> next, told |-> "no", let |-> all - part]
        BY <3>1, <3>3 DEF CreditedReplay, part, all
      <4> HIDE DEF next
      <4>4. ch = part /\ r.outcome.next = next /\ let = all - part
        BY <4>3 DEF ch, let
      <4>5. next # NoRow
        BY <4>2, RowsDiffer
      <4>6. Spends(r.outcome, cover)
        BY <4>1, <4>2, <4>4, <4>5 DEF Spends
      <4>7. let <= l + u /\ now <= t + ch + u
        BY <1>1, <1>2, <1>3, <2>9, <2>11, <2>13, <2>18, <4>4
      <4> QED BY <2>14, <4>6, <4>7
    <3> QED BY <3>2, <3>3
  <2>19. CASE d.verdict = "replay_free" /\ ~broken /\ ~Credited(cover, c.op)
    <3>1. r.outcome = Untouched(cover, dc)
      BY <2>3, <2>19 DEF dc
    <3>2. Spends(r.outcome, cover) /\ let = 0 /\ ch = dc
      BY <1>1, <3>1, UntouchedSpends DEF let, ch
    <3>3. let <= l + u /\ now <= t + ch + u
      BY <1>2, <2>8, <2>13, <2>19, <3>2
    <3> QED BY <2>14, <3>2, <3>3
  <2>20. CASE d.verdict = "replay_excess" /\ ~broken /\ ~Credited(cover, c.op)
    <3>1. r.outcome = Covered(broken, c, at, dc)
      BY <2>3, <2>20 DEF dc
    <3>2. dc \in Nat /\ dc <= c.basis
      BY <2>8 DEF amount
    <3>3. /\ Spends(r.outcome, cover) /\ let <= l + u
          /\ ch = part \/ all <= t + ch + u
          /\ ch \in Nat
      <4>1. /\ Spends(r.outcome, cover) /\ let <= FreeLimit + SamplesPerMs
            /\ ch = Whole(dc) \/ Whole(c.basis) <= WithTolerance(Backing) + ch + SamplesPerMs
            /\ ch \in Nat
        BY <1>1, <3>1, <3>2, CoveredSpends DEF ch, let
      <4> QED BY <4>1 DEF l, u, t, all, amount, part, dc
    <3>4. now <= t + ch + u
      BY <1>2, <1>3, <2>9, <2>13, <2>20, <3>3
    <3> QED BY <2>14, <3>3, <3>4
  <2> QED BY <2>7, <2>16, <2>17, <2>18, <2>19, <2>20
<1>9. FreeIs(r, c)
  BY <1>1, <1>5, <1>6, <1>7, <1>8
<1> QED BY <1>9

LEMMA CreditSpent ==
    ASSUME NEW n \in Nat, NEW m \in Nat, NEW x \in Nat, NEW y \in Nat, x <= y,
           NEW f \in Nat, f <= n * x, NEW let \in Nat, let <= x,
           n <= m, let > 0 => n + 1 <= m
    PROVE  f + let <= m * y
<1>1. n * x \in Nat /\ m * x \in Nat /\ m * y \in Nat /\ m * x <= m * y
  <2> DEFINE d == y - x
  <2>1. d \in Nat /\ y = x + d
    OBVIOUS
  <2> HIDE DEF d
  <2>2. m * y = m * x + m * d /\ m * d \in Nat
    BY <2>1
  <2> QED BY <2>2
<1>2. CASE let = 0
  <2> DEFINE k == m - n
  <2>1. k \in Nat /\ m = n + k
    OBVIOUS
  <2> HIDE DEF k
  <2>2. m * x = n * x + k * x /\ k * x \in Nat
    BY <2>1
  <2> QED BY <1>1, <1>2, <2>2
<1>3. CASE let > 0
  <2> DEFINE k == m - (n + 1)
  <2>1. k \in Nat /\ m = (n + 1) + k
    BY <1>3
  <2> HIDE DEF k
  <2>2. m * x = n * x + x + k * x /\ k * x \in Nat
    BY <2>1
  <2> QED BY <1>1, <2>2
<1> QED BY <1>2, <1>3

\* Backing grows by the charge and a millisecond with each call that is metered.
LEMMA MoreBacking ==
    ASSUME NEW a \in Nat, NEW b \in Nat, NEW d \in Nat, a + d <= b
    PROVE  /\ WithTolerance(a) \in Nat /\ WithTolerance(b) \in Nat
           /\ WithTolerance(a) + d <= WithTolerance(b)
           /\ WithTolerance(WithTolerance(a)) + d <= WithTolerance(WithTolerance(b))
<1> DEFINE t == WithTolerance(a)
           s == WithTolerance(b)
<1>1. a + d \in Nat
  OBVIOUS
<1>2. t \in Nat /\ s \in Nat /\ t + d <= s
  <2>1. t \in Nat /\ t + d <= WithTolerance(a + d)
    BY Tolerates
  <2>2. WithTolerance(a + d) <= s /\ WithTolerance(a + d) \in Nat /\ s \in Nat
    BY <1>1, TolerateMore, Limits
  <2> HIDE DEF t, s
  <2> QED BY <2>1, <2>2
<1> HIDE DEF t, s
<1>3. WithTolerance(t) + d <= WithTolerance(s)
  <2>1. t + d \in Nat
    BY <1>2
  <2>2. WithTolerance(t) \in Nat /\ WithTolerance(t) + d <= WithTolerance(t + d)
    BY <1>2, Tolerates
  <2>3. WithTolerance(t + d) <= WithTolerance(s) /\ WithTolerance(t + d) \in Nat /\ WithTolerance(s) \in Nat
    BY <1>2, <2>1, TolerateMore, Limits
  <2> QED BY <2>2, <2>3
<1> QED BY <1>2, <1>3 DEF t, s

LEMMA FreePrime ==
    FreeInv' <=> /\ \A op \in Ops : claims'[op] # NoRow =>
                        Samples(claims'[op].billed) <= WithTolerance(Backing')
                 /\ cover' = NoRow => free' = 0
                 /\ cover' # NoRow => free' <= cover'.credits * WithTolerance(WithTolerance(Backing'))
                 /\ recorded' <= bill'
BY DEF FreeInv, BilledBacked, FreeCounted, FreeLimit, WithTolerance, Tolerance

LEMMA BackingGrows ==
    ASSUME Ledger, Counts, FreeInv, Spare' \in Nat, NEW charge \in Nat, NEW more \in Nat,
           bill' = bill + charge, Spare + more <= Spare', more \in {0, 1}
    PROVE  LET d == IF more = 1 THEN charge + SamplesPerMs ELSE charge
           IN  d \in Nat /\ Backing \in Nat /\ Backing' \in Nat /\ Backing + d <= Backing'
<1> DEFINE a == Spare
           b == Spare'
           sa == Samples(a)
           sb == Samples(b)
           d == IF more = 1 THEN charge + SamplesPerMs ELSE charge
           u == SamplesPerMs
<1>1. bill \in Nat /\ a \in Nat /\ b \in Nat /\ a + more <= b /\ u \in Nat
  BY LimitsAssumption DEF Ledger, Counts
<1>2. Backing = bill + sa /\ Backing' = bill + charge + sb
  BY DEF Backing, Samples
<1>3. Samples(a + more) <= sb /\ sa \in Nat /\ sb \in Nat
  <2> HIDE DEF a, b
  <2>1. a + more \in Int /\ b \in Int
    BY <1>1
  <2> QED BY <1>1, <2>1, SamplesMore, OneMore
<1>4. Samples(a + more) = sa + (IF more = 1 THEN u ELSE 0)
  <2>1. CASE more = 0
    <3> HIDE DEF a
    <3>1. a + more = a
      BY <1>1, <2>1
    <3> QED BY <1>3, <2>1, <3>1
  <2>2. CASE more = 1
    <3> HIDE DEF a
    <3>1. Samples(a + 1) = Samples(a) + SamplesPerMs
      BY <1>1, OneMore
    <3> QED BY <2>2, <3>1
  <2> QED BY <2>1, <2>2
<1> HIDE DEF sa, sb, a, b, u
<1>5. Backing \in Nat /\ Backing' \in Nat
  BY <1>1, <1>2, <1>3
<1>6. CASE more = 1
  BY <1>1, <1>2, <1>3, <1>4, <1>5, <1>6 DEF u
<1>7. CASE more = 0
  BY <1>1, <1>2, <1>3, <1>4, <1>5, <1>7
<1> QED BY <1>6, <1>7

LEMMA MeteredFree ==
    ASSUME Ledger, Counts, FreeInv, NEW c, CallOK(c), NEW at \in Nat, NEW broken \in BOOLEAN,
           Metered(c, at, broken), Spare' \in Nat, Spare + 1 <= Spare'
    PROVE  FreeInv'
<1>1. PICK r \in {Step(broken, c, at)} :
          /\ claims' = IF c.op = NoOp THEN claims ELSE [claims EXCEPT ![c.op] = r.claim]
          /\ cover' = r.outcome.next
          /\ bill' = bill + r.outcome.charge
          /\ recorded' = recorded + (IF r.outcome.told = "no" THEN 0 ELSE r.outcome.charge)
          /\ free' = free + r.outcome.let
  BY Zenon DEF Metered
<1>2. OutcomeIs(r.outcome) /\ FreeIs(r, c) /\ ClaimIs(r, c)
  <2>1. r = Step(broken, c, at)
    OBVIOUS
  <2> QED BY <2>1, StepFacts, StepFree
<1> DEFINE charge == r.outcome.charge
           let == r.outcome.let
           d == charge + SamplesPerMs
           a == Backing
           b == Backing'
           n == IF r.outcome.told = "no" THEN recorded ELSE recorded + charge
           k == IF r.outcome.told = "over" THEN cuts + 1 ELSE cuts
<1>3. /\ charge \in Nat /\ let \in Nat
      /\ RowHolds(r.outcome.next, n, k)
      /\ Spends(r.outcome, cover) /\ let <= FreeLimit + SamplesPerMs
      /\ c.op # NoOp => /\ Samples(r.claim.billed) <= WithTolerance(a) + charge + SamplesPerMs
                        /\ r.claim \in ClaimRow
  BY <1>2 DEF OutcomeIs, FreeIs, ClaimIs
<1>4. /\ claims \in [Ops -> ClaimRow \cup {NoRow}] /\ c.op \in Ops \cup {NoOp}
      /\ recorded \in Nat /\ bill \in Nat /\ free \in Nat /\ RowHolds(cover, recorded, cuts)
      /\ recorded <= bill /\ BilledBacked /\ FreeCounted /\ SamplesPerMs \in Nat
  BY LimitsAssumption DEF Ledger, CallOK, FreeInv
<1>5. recorded' <= bill'
  BY <1>1, <1>3, <1>4
<1>6. d \in Nat /\ a \in Nat /\ b \in Nat /\ a + d <= b
  <2>1. 1 \in Nat /\ 1 \in {0, 1}
    OBVIOUS
  <2> HIDE DEF a, b, charge
  <2>2. bill' = bill + charge
    BY <1>1 DEF charge
  <2> QED BY <1>3, <2>1, <2>2, BackingGrows DEF a, b
<1> DEFINE t == WithTolerance(a)
           s == WithTolerance(b)
           l == WithTolerance(t)
           m == WithTolerance(s)
<1>7. /\ t \in Nat /\ s \in Nat /\ t + d <= s /\ l + d <= m /\ l \in Nat /\ m \in Nat
  <2> HIDE DEF a, b, d
  <2>1. /\ t \in Nat /\ s \in Nat /\ t + d <= s /\ l + d <= m
    BY <1>6, MoreBacking
  <2> HIDE DEF t, s
  <2> QED BY <2>1, Limits
<1>8. l = FreeLimit
  BY DEF FreeLimit
<1>9. ASSUME NEW op \in Ops, claims'[op] # NoRow
      PROVE  Samples(claims'[op].billed) <= s
  <2> DEFINE now == Samples(claims'[op].billed)
  <2>1. CASE op = c.op
    <3>1. c.op # NoOp
      BY <2>1, OpsAssumption
    <3>2. claims'[op] = r.claim
      BY <1>1, <1>4, <2>1, <3>1
    <3>3. now <= t + charge + SamplesPerMs /\ claims'[op].billed \in Nat
      BY <1>3, <3>1, <3>2 DEF ClaimRow
    <3>4. now \in Nat
      BY <3>3, OneMore
    <3> HIDE DEF now, t, s, charge
    <3>5. now <= s
      BY <1>3, <1>4, <1>7, <3>3, <3>4
    <3> QED BY <3>5 DEF now
  <2>2. CASE op # c.op
    <3>1. claims'[op] = claims[op]
      BY <1>1, <1>4, <2>2
    <3>2. now <= t /\ claims[op].billed \in Nat
      BY <1>4, <1>9, <3>1 DEF BilledBacked, ClaimRow
    <3>3. now \in Nat
      BY <3>1, <3>2, OneMore
    <3> HIDE DEF now, t, s, d
    <3>4. now <= s
      BY <1>6, <1>7, <3>2, <3>3
    <3> QED BY <3>4 DEF now
  <2> QED BY <2>1, <2>2
<1>10. cover' # NoRow => cover'.credits \in Nat
  BY <1>1, <1>3 DEF RowHolds, CoverRow
<1>11. (cover' = NoRow => free' = 0) /\ (cover' # NoRow => free' <= cover'.credits * m)
  <2>1. CASE cover = NoRow
    <3>1. free' = 0
      BY <1>1, <1>3, <1>4, <2>1 DEF FreeCounted, Spends
    <3> DEFINE cr == cover'.credits
    <3>2. cover' # NoRow => cr \in Nat
      BY <1>10
    <3> HIDE DEF m, cr
    <3>3. cover' # NoRow => cr * m \in Nat
      BY <1>7, <3>2
    <3> QED BY <3>1, <3>3 DEF cr
  <2>2. CASE cover # NoRow
    <3> DEFINE p == cover.credits
               q == cover'.credits
               x == l + d
    <3>1. p \in Nat /\ free <= p * l
      BY <1>4, <1>8, <2>2 DEF FreeCounted, RowHolds, CoverRow
    <3>2. cover' # NoRow /\ p <= q /\ (let > 0 => p + 1 <= q) /\ q \in Nat
      BY <1>1, <1>3, <1>10, <2>2 DEF Spends
    <3>3. x \in Nat /\ x <= m /\ let <= x /\ l <= x
      <4>1. let <= l + SamplesPerMs
        BY <1>3, <1>8
      <4> HIDE DEF l, m, let, charge
      <4> QED BY <1>3, <1>4, <1>6, <1>7, <4>1
    <3>4. free <= p * x
      <4> HIDE DEF p, l, d
      <4>1. x = l + d /\ p * (l + d) = p * l + p * d /\ p * d \in Nat /\ p * l \in Nat
        BY <1>6, <1>7, <3>1
      <4> HIDE DEF x
      <4> QED BY <1>4, <3>1, <4>1
    <3> HIDE DEF p, q, x, let, m
    <3>5. free + let <= q * m
      BY <1>3, <1>4, <1>7, <3>1, <3>2, <3>3, <3>4, CreditSpent
    <3> QED BY <1>1, <3>2, <3>5 DEF q, let
  <2> QED BY <2>1, <2>2
<1> QED BY <1>5, <1>9, <1>11, FreePrime DEF s, m, b

LEMMA FreeStep == IInv /\ Counts /\ FreeInv /\ [Next]_vars => FreeInv'
<1> SUFFICES ASSUME IInv, Counts, FreeInv, [Next]_vars PROVE FreeInv'
  OBVIOUS
<1>1. /\ Ledger /\ Ledger' /\ Spare' \in Nat /\ Spare \in Nat /\ StepKinds
  BY StepInv, CountsStep DEF IInv, Counts
<1>2. /\ claims \in [Ops -> ClaimRow \cup {NoRow}] /\ bill \in Nat /\ free \in Nat
      /\ RowHolds(cover, recorded, cuts) /\ BilledBacked /\ FreeCounted /\ recorded <= bill
  BY <1>1 DEF Ledger, FreeInv
\* Whatever leaves the books alone, or forgets part of them.
<1>3. ASSUME bill' = bill, Spare <= Spare', recorded' <= bill',
             \A op \in Ops : claims'[op] = NoRow \/ claims'[op] = claims[op],
             \/ cover' = cover /\ free' = free
             \/ cover' = NoRow /\ free' = 0
      PROVE  FreeInv'
  <2> DEFINE a == Backing
             b == Backing'
             t == WithTolerance(a)
             s == WithTolerance(b)
             l == WithTolerance(t)
             m == WithTolerance(s)
             i == Spare
             j == Spare'
  <2>1. 0 \in Nat /\ a \in Nat /\ b \in Nat /\ a + 0 <= b
    <3>1. 0 \in Nat /\ 0 \in {0, 1} /\ bill' = bill + 0 /\ Spare + 0 <= Spare'
      <4> HIDE DEF i, j
      <4>1. bill' = bill + 0 /\ i + 0 <= j
        BY <1>1, <1>2, <1>3 DEF i, j
      <4> QED BY <4>1 DEF i, j
    <3> HIDE DEF a, b
    <3> QED BY <1>1, <3>1, BackingGrows DEF a, b
  <2>2. t \in Nat /\ s \in Nat /\ l \in Nat /\ m \in Nat /\ t <= s /\ l <= m
    <3> HIDE DEF a, b
    <3>1. t \in Nat /\ s \in Nat /\ t + 0 <= s /\ l + 0 <= m
      BY <2>1, MoreBacking
    <3> HIDE DEF t, s
    <3>2. l \in Nat /\ m \in Nat
      BY <3>1, Limits
    <3> HIDE DEF l, m
    <3> QED BY <3>1, <3>2
  <2>3. ASSUME NEW op \in Ops, claims'[op] # NoRow
        PROVE  Samples(claims'[op].billed) <= s
    <3> DEFINE now == Samples(claims[op].billed)
    <3>1. claims'[op] = claims[op]
      BY <1>3, <2>3
    <3>2. now <= t /\ claims[op].billed \in Nat
      BY <1>2, <2>3, <3>1 DEF BilledBacked, ClaimRow
    <3>3. now \in Nat
      BY <3>2, OneMore
    <3> HIDE DEF now, t, s
    <3>4. now <= s
      BY <2>2, <3>2, <3>3
    <3> QED BY <3>1, <3>4 DEF now
  <2>4. (cover' = NoRow => free' = 0) /\ (cover' # NoRow => free' <= cover'.credits * m)
    <3>1. CASE cover' = NoRow
      BY <1>2, <1>3, <3>1 DEF FreeCounted
    <3>2. CASE cover' # NoRow
      <4> DEFINE p == cover.credits
      <4>1. cover' = cover /\ free' = free /\ p \in Nat /\ free <= p * l
        BY <1>2, <1>3, <3>2 DEF FreeCounted, FreeLimit, RowHolds, CoverRow
      <4> HIDE DEF p, l, m
      <4>2. free + 0 <= p * m
        <5>1. 0 \in Nat /\ 0 <= l /\ p <= p /\ ~(0 > 0)
          BY <2>2, <4>1
        <5> QED BY <1>2, <2>2, <4>1, <5>1, CreditSpent
      <4>3. free <= p * m
        BY <1>2, <4>2
      <4> QED BY <3>2, <4>1, <4>3 DEF p
    <3> QED BY <3>1, <3>2
  <2> QED BY <1>3, <2>3, <2>4, FreePrime DEF s, m, b
<1>4. CASE UNCHANGED <<claims, cover, money>> /\ Spare <= Spare'
  <2>1. /\ claims' = claims /\ cover' = cover /\ bill' = bill /\ free' = free /\ recorded' = recorded
    BY <1>4 DEF money
  <2>2. recorded' <= bill'
    BY <1>2, <2>1
  <2> QED BY <1>3, <1>4, <2>1, <2>2
<1>5. CASE \E c, at, broken : Meters(c, at, broken)
  <2>1. PICK c, at, broken : Meters(c, at, broken)
    BY <1>5
  <2>2. /\ CallOK(c) /\ at \in Nat /\ broken \in BOOLEAN /\ Metered(c, at, broken) /\ Spare + 1 <= Spare'
    BY <2>1 DEF Meters
  <2> QED BY <1>1, <2>2, MeteredFree
<1>6. CASE Prune /\ Spare' = Spare
  <2>1. /\ claims' = [op \in Ops |-> IF ClaimExpired(op) THEN NoRow ELSE claims[op]]
        /\ cover' = IF CoverExpired THEN NoRow ELSE cover
        /\ recorded' = IF CoverExpired THEN 0 ELSE recorded
        /\ free' = IF CoverExpired THEN 0 ELSE free
        /\ bill' = bill
    BY <1>6 DEF Prune
  <2>2. recorded' <= bill' /\ \A op \in Ops : claims'[op] = NoRow \/ claims'[op] = claims[op]
    BY <1>2, <2>1
  <2>3. Spare <= Spare'
    <3> DEFINE i == Spare
               j == Spare'
    <3>1. i \in Nat /\ j = i
      BY <1>1, <1>6
    <3> HIDE DEF i, j
    <3>2. i <= j
      BY <3>1
    <3> QED BY <3>2 DEF i, j
  <2>4. \/ cover' = cover /\ free' = free
        \/ cover' = NoRow /\ free' = 0
    BY <2>1
  <2> QED BY <1>3, <2>1, <2>2, <2>3, <2>4
<1> QED BY <1>1, <1>4, <1>5, <1>6 DEF StepKinds

LEMMA FreeInit == Init => FreeInv
BY DEF Init, FreeInv, BilledBacked, FreeCounted

LEMMA FreeImplies == IInv /\ Counts /\ FreeInv => FreeIsBounded
<1> SUFFICES ASSUME IInv, Counts, FreeInv PROVE FreeIsBounded
  OBVIOUS
<1> DEFINE a == Spare
           b == Backing
           top == bill + Samples(begun)
           l == WithTolerance(WithTolerance(b))
           m == WithTolerance(WithTolerance(top))
<1>1. bill \in Nat /\ free \in Nat /\ RowHolds(cover, recorded, cuts) /\ FreeCounted /\ Credits \in Nat
  BY LimitsAssumption DEF IInv, Ledger, FreeInv
<1>2. /\ begun \in Nat /\ Cardinality(open) \in Nat /\ Cardinality(owed) \in Nat /\ a \in Nat
  BY FS_CardinalityType DEF IInv, Sessions, Counts
<1>3. a <= begun
  BY <1>2 DEF Spare
<1>4. b = bill + Samples(a)
  BY DEF Backing
<1> HIDE DEF a, b
<1>5. b \in Nat /\ top \in Nat /\ b <= top
  <2> DEFINE sa == Samples(a)
             sb == Samples(begun)
  <2>1. sa \in Nat /\ sb \in Nat /\ sa <= sb
    BY <1>2, <1>3, SamplesMore, OneMore
  <2> HIDE DEF sa, sb
  <2> QED BY <1>1, <1>4, <2>1 DEF sa, sb
<1>6. l \in Nat /\ m \in Nat /\ l <= m
  <2> HIDE DEF top
  <2>1. 0 \in Nat /\ b + 0 <= top
    BY <1>5
  <2>2. l + 0 <= m
    BY <1>5, <2>1, MoreBacking
  <2>3. l \in Nat /\ m \in Nat
    BY <1>5, Limits
  <2> HIDE DEF l, m
  <2> QED BY <2>2, <2>3
<1>7. FreeLimit = l
  BY DEF FreeLimit, b
<1>8. free <= Credits * m
  <2>1. CASE cover = NoRow
    <3>1. free = 0
      BY <1>1, <2>1 DEF FreeCounted
    <3> HIDE DEF m
    <3>2. Credits * m \in Nat
      BY <1>1, <1>6
    <3> QED BY <3>1, <3>2
  <2>2. CASE cover # NoRow
    <3> DEFINE p == cover.credits
    <3>1. p \in Nat /\ p <= Credits /\ free <= p * l
      BY <1>1, <1>7, <2>2 DEF FreeCounted, RowHolds, CoverRow
    <3> HIDE DEF p, l, m
    <3>2. 0 \in Nat /\ 0 <= l /\ ~(0 > 0)
      BY <1>6
    <3>3. free + 0 <= Credits * m
      BY <1>1, <1>6, <3>1, <3>2, CreditSpent
    <3> QED BY <1>1, <3>3
  <2> QED BY <2>1, <2>2
<1> QED BY <1>8 DEF FreeIsBounded

(* What coverage lets one recording have free is at most the number of its   *)
(* credits times what the account paid, to a millisecond for each session    *)
(* and with the tolerance of the two budgets, whatever first sessions and    *)
(* re-sends a client makes of it.                                            *)
THEOREM FreeBounded == Spec => []FreeIsBounded
<1>1. Init => IInv /\ Counts /\ FreeInv
  BY InitInv, CountsInit, FreeInit
<1>2. IInv /\ Counts /\ FreeInv /\ [Next]_vars => (IInv /\ Counts /\ FreeInv)'
  BY StepInv, CountsStep, FreeStep
<1>3. IInv /\ Counts /\ FreeInv => FreeIsBounded
  BY FreeImplies
<1> QED BY <1>1, <1>2, <1>3, PTL DEF Spec
=============================================================================
