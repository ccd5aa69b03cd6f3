------------------------ MODULE ForwardOutboxProofs ------------------------
(***************************************************************************)
(* Proofs about ForwardOutbox, for any facts, limits and numbers of deaths *)
(* and late requests.                                                      *)
(*                                                                         *)
(* Nothing is performed twice because an id that was ever performed is in  *)
(* the ledger or was pruned from it (TimesInv), and what is pruned is      *)
(* offered by nobody: not by the file, not by a request on its way         *)
(* (PrunedInv, the only use of OutageBound).  Nothing is forgotten before  *)
(* it is performed because a compaction drops a line on a verdict only,    *)
(* and a verdict that is no rejection is about an id that was performed    *)
(* (VerdictsInv).                                                          *)
(***************************************************************************)
EXTENDS ForwardOutbox, FiniteSetTheorems, SequenceTheorems, WellFoundedInduction, TLAPS

Verdicts == UNION {[D -> {"accepted", "duplicate", "rejected"}] : D \in SUBSET Facts}

Drains == [stage : {"idle", "asking", "answered"}, offered : Seq(Record), batch : Seq(Record),
           outcomes : Verdicts]

TypeInv ==
    /\ file \in Seq(Record) /\ Len(file) <= MaxLines /\ torn \in BOOLEAN
    /\ drain \in Drains /\ late \subseteq Seq(Record)
    /\ seen \subseteq Ledgered /\ pruned \subseteq Ledgered
    /\ instant \in Nat /\ at \in [Facts -> 0..instant]
    /\ row \in [Rows -> 0..instant] /\ clock \in 0..instant
    /\ times \in [Metered -> Nat] /\ refused \in [Facts -> Nat]
    /\ owed \subseteq Facts

\* Only what was enqueued is in the file, in a drain or in a request.
OwedInv ==
    /\ Ids(file) \subseteq owed /\ Ids(drain.offered) \subseteq owed /\ Ids(drain.batch) \subseteq owed
    /\ \A b \in late : Ids(b) \subseteq owed

\* A drain that has no answer has no verdict.
StageInv == drain.stage # "answered" => DOMAIN drain.outcomes = {}

BudgetInv ==
    /\ OutageBurnsNoBudget
    /\ \A i \in DOMAIN drain.offered : drain.offered[i].tries <= refused[drain.offered[i].id]

Performed == seen \cup pruned

TimesInv == \A f \in Metered : times[f] = IF f \in Performed THEN 1 ELSE 0

PrunedInv ==
    /\ pruned \cap Ids(file) = {}
    /\ \A b \in late \cup Abandoned : pruned \cap Ids(b) = {}

VerdictsInv ==
    \A id \in DOMAIN drain.outcomes \cap Metered :
        drain.outcomes[id] # "rejected" => id \in Performed

QueueInv == TypeInv /\ OwedInv /\ StageInv /\ BudgetInv
OnceInv == TimesInv /\ PrunedInv /\ VerdictsInv
-----------------------------------------------------------------------------
(* Sequences                                                                 *)

LEMMA LeastNat ==
    ASSUME NEW S \in SUBSET Nat, S # {}
    PROVE  \E m \in S : \A k \in S : m <= k
<1>1. PICK m \in S : \A k \in S : <<k, m>> \notin OpToRel(<, Nat)
  BY NatLessThanWellFounded, WFMin
<1>2. \A k \in S : ~(k < m)
  BY <1>1 DEF OpToRel
<1> QED BY <1>2

LEMMA GreatestUpTo ==
    ASSUME NEW n \in Nat, NEW S \in SUBSET (1..n), S # {}
    PROVE  \E m \in S : \A k \in S : k <= m
<1> DEFINE T == {n - k : k \in S}
<1>1. T \in SUBSET Nat /\ T # {}
  <2>1. \A k \in S : n - k \in Nat
    OBVIOUS
  <2>2. PICK k \in S : TRUE
    OBVIOUS
  <2>3. n - k \in T
    BY <2>2
  <2> QED BY <2>1, <2>3
<1>2. PICK t \in T : \A u \in T : t <= u
  BY <1>1, LeastNat
<1>3. PICK m \in S : t = n - m
  BY <1>2
<1>4. ASSUME NEW k \in S PROVE k <= m
  <2>1. n - k \in T /\ k \in Nat /\ m \in Nat
    BY <1>3
  <2>2. n - m <= n - k
    BY <1>2, <1>3, <2>1
  <2> QED BY <2>1, <2>2
<1> QED BY <1>4

\* Picked lists s at the positions in S, each once and no other.
LEMMA PickedFrom ==
    ASSUME NEW T, NEW s, NEW n \in Nat, NEW S \in SUBSET (1..n), \A i \in S : s[i] \in T
    PROVE  /\ Picked(s, S) \in Seq(T) /\ Len(Picked(s, S)) = Cardinality(S) /\ Cardinality(S) <= n
           /\ Cardinality(S) \in Nat
           /\ \A k \in 1..Cardinality(S) : \E i \in S : Picked(s, S)[k] = s[i]
           /\ \A i \in S : \E k \in 1..Cardinality(S) : Picked(s, S)[k] = s[i]
<1> DEFINE c == Cardinality(S)
           Below(i) == {j \in S : j < i}
           f == [i \in S |-> Cardinality(Below(i))]
           at1(k) == CHOOSE i \in S : Cardinality(Below(i)) = k - 1
<1>1. IsFiniteSet(S) /\ c \in Nat /\ c <= n
  <2>1. IsFiniteSet(1..n) /\ Cardinality(1..n) = n
    <3>1. 1 \in Int /\ n \in Int
      OBVIOUS
    <3>2. IsFiniteSet(1..n) /\ Cardinality(1..n) = IF 1 > n THEN 0 ELSE n - 1 + 1
      BY <3>1, FS_Interval
    <3> QED BY <3>2
  <2>2. IsFiniteSet(S) /\ c <= n
    BY <2>1, FS_Subset
  <2> QED BY <2>2, FS_CardinalityType
<1>2. ASSUME NEW i \in S
      PROVE  IsFiniteSet(Below(i)) /\ Cardinality(Below(i)) \in 0..c - 1
  <2>1. Below(i) \in SUBSET S /\ i \notin Below(i)
    OBVIOUS
  <2>2. IsFiniteSet(Below(i)) /\ Cardinality(Below(i)) <= c /\ Cardinality(Below(i)) # c
    BY <1>1, <2>1, FS_Subset
  <2>3. Cardinality(Below(i)) \in Nat
    BY <2>2, FS_CardinalityType
  <2> QED BY <1>1, <2>2, <2>3
<1>3. ASSUME NEW i \in S, NEW j \in S, i < j
      PROVE  f[i] # f[j]
  <2>1. \A x \in S : x \in Nat
    OBVIOUS
  <2>2. Below(i) \in SUBSET Below(j) /\ i \in Below(j) /\ i \notin Below(i)
    <3>1. \A x \in S : x < i => x < j
      BY <1>3, <2>1
    <3>2. ~(i < i)
      BY <2>1
    <3> QED BY <1>3, <3>1, <3>2
  <2>3. Cardinality(Below(i)) # Cardinality(Below(j))
    BY <1>2, <2>2, FS_Subset
  <2> QED BY <2>3
<1>4. f \in [S -> 0..c - 1] /\ \A i, j \in S : f[i] = f[j] => i = j
  <2>1. f \in [S -> 0..c - 1]
    BY <1>2
  <2>2. \A i, j \in S : f[i] = f[j] => i = j
    BY <1>3
  <2> QED BY <2>1, <2>2
<1>5. f \in Surjection(S, 0..c - 1)
  <2>1. f \in Injection(S, 0..c - 1)
    BY <1>4 DEF Injection, IsInjective
  <2>2. IsFiniteSet(0..c - 1) /\ Cardinality(0..c - 1) = c
    <3>1. 0 \in Int /\ c - 1 \in Int
      BY <1>1
    <3>2. /\ IsFiniteSet(0..c - 1)
          /\ Cardinality(0..c - 1) = IF 0 > c - 1 THEN 0 ELSE (c - 1) - 0 + 1
      BY <3>1, FS_Interval
    <3> HIDE DEF c
    <3> QED BY <1>1, <3>2
  <2> QED BY <1>1, <2>1, <2>2, FS_Injection
<1>6. ASSUME NEW k \in 1..c
      PROVE  at1(k) \in S /\ f[at1(k)] = k - 1
  <2>1. k - 1 \in 0..c - 1
    BY <1>1
  <2>2. \E i \in S : Cardinality(Below(i)) = k - 1
    BY <1>5, <2>1 DEF Surjection
  <2> QED BY <2>2
<1>7. \A k \in 1..c : Picked(s, S)[k] = s[at1(k)]
  BY DEF Picked
<1>8. DOMAIN Picked(s, S) = 1..c /\ Picked(s, S) \in [1..c -> T]
  <2> HIDE DEF f
  <2>1. \A k \in 1..c : s[at1(k)] \in T
    BY <1>6
  <2> QED BY <2>1 DEF Picked
<1>9. Picked(s, S) \in Seq(T) /\ Len(Picked(s, S)) = c
  <2> DEFINE p == Picked(s, S)
  <2>1. p \in Seq(T)
    BY <1>1, <1>8
  <2>2. Len(p) = c
    BY <1>1, <1>8, <2>1, LenProperties
  <2> QED BY <2>1, <2>2
<1>10. ASSUME NEW i \in S PROVE \E k \in 1..c : Picked(s, S)[k] = s[i]
  <2>1. f[i] \in 0..c - 1
    BY <1>4
  <2>2. f[i] + 1 \in 1..c /\ (f[i] + 1) - 1 = f[i]
    BY <1>1, <2>1
  <2> DEFINE k == f[i] + 1
  <2> HIDE DEF k
  <2>3. k \in 1..c /\ k - 1 = f[i]
    BY <2>2 DEF k
  <2>4. at1(k) = i
    BY <1>4, <1>6, <2>3
  <2> QED BY <1>7, <2>3, <2>4
<1> HIDE DEF f, at1
<1> QED BY <1>1, <1>6, <1>7, <1>9, <1>10

LEMMA IdsOf ==
    ASSUME NEW s \in Seq(Record)
    PROVE  /\ Ids(s) \subseteq Facts
           /\ DOMAIN s = 1..Len(s) /\ Len(s) \in Nat /\ \A i \in 1..Len(s) : s[i] \in Record
<1>1. DOMAIN s = 1..Len(s) /\ Len(s) \in Nat /\ \A i \in 1..Len(s) : s[i] \in Record
  BY LenProperties, ElementOfSeq
<1> QED BY <1>1 DEF Ids, Record

LEMMA BatchOf ==
    ASSUME NEW records \in Seq(Record)
    PROVE  Batch(records) \in Seq(Record) /\ Ids(Batch(records)) \subseteq Ids(records)
<1> DEFINE n == Len(records)
           S == FirstOf(Attemptable(records), BatchMax)
<1>1. n \in Nat /\ DOMAIN records = 1..n /\ \A i \in 1..n : records[i] \in Record
  BY IdsOf
<1>2. S \in SUBSET (1..n) /\ \A i \in S : records[i] \in Record
  BY <1>1 DEF FirstOf, Attemptable
<1> HIDE DEF S
<1>3. /\ Picked(records, S) \in Seq(Record)
      /\ \A k \in 1..Len(Picked(records, S)) : \E i \in S : Picked(records, S)[k] = records[i]
  <2> HIDE DEF n
  <2>1. /\ Picked(records, S) \in Seq(Record) /\ Len(Picked(records, S)) = Cardinality(S)
        /\ \A k \in 1..Cardinality(S) : \E i \in S : Picked(records, S)[k] = records[i]
    BY <1>1, <1>2, PickedFrom
  <2> QED BY <2>1
<1>4. DOMAIN Picked(records, S) = 1..Len(Picked(records, S))
  BY <1>3, LenProperties
<1>5. Batch(records) = Picked(records, S)
  BY DEF Batch, S
<1> QED BY <1>1, <1>2, <1>3, <1>4, <1>5 DEF Ids

LEMMA Silent == <<>> \in Verdicts /\ DOMAIN <<>> = {} /\ <<>> \in Seq(Record) /\ Ids(<<>>) = {}
<1>1. <<>> \in Seq(Record) /\ Len(<<>>) = 0
  BY EmptySeq
<1>2. DOMAIN <<>> = {} /\ <<>> \in [{} -> {"accepted", "duplicate", "rejected"}]
  BY <1>1, LenProperties
<1> QED BY <1>1, <1>2 DEF Verdicts, Ids

\* What a drain makes of a record: it goes on an outcome that is no rejection; or it
\* stays as it was, or as the drain was given it, with one more try if it was rejected.
Stays(x, r, offered, outcomes) ==
    /\ x \in Record /\ x.id = r.id
    /\ \/ x = r
       \/ \E i \in DOMAIN offered :
             /\ offered[i].id = r.id
             /\ \/ x.tries = offered[i].tries
                \/ /\ x.tries = offered[i].tries + 1
                   /\ r.id \in DOMAIN outcomes /\ outcomes[r.id] = "rejected"

LEMMA Resolved ==
    ASSUME NEW offered \in Seq(Record), NEW outcomes, NEW r \in Record
    PROVE  \/ /\ Resolution(offered, outcomes, r) = {}
              /\ r.id \in DOMAIN outcomes /\ outcomes[r.id] # "rejected"
           \/ \E x : Resolution(offered, outcomes, r) = {x} /\ Stays(x, r, offered, outcomes)
<1> DEFINE D == Decided(offered, outcomes, r.id)
           i == CHOOSE m \in D : \A j \in D : j <= m
           fate == Fate(offered, outcomes, i)
<1>1. /\ DOMAIN offered = 1..Len(offered) /\ Len(offered) \in Nat
      /\ \A k \in 1..Len(offered) : offered[k] \in Record
  BY IdsOf
<1>2. CASE D = {}
  BY <1>2 DEF Resolution, Stays
<1>3. CASE D # {}
  <2>1. D \in SUBSET (1..Len(offered))
    BY <1>1 DEF Decided
  <2>2. i \in D
    <3> HIDE DEF D
    <3>1. \E m \in D : \A j \in D : j <= m
      BY <1>1, <1>3, <2>1, GreatestUpTo
    <3> QED BY <3>1
  <2>3. /\ i \in DOMAIN offered /\ offered[i] \in Record /\ offered[i].id = r.id
        /\ fate # "untouched"
    BY <1>1, <2>2 DEF Decided
  <2>4. Resolution(offered, outcomes, r) =
            CASE fate = "park"  -> {[offered[i] EXCEPT !.parked = TRUE]}
              [] fate = "retry" -> {[offered[i] EXCEPT !.tries = @ + 1]}
              [] OTHER -> {}
    BY <1>3 DEF Resolution
  <2> HIDE DEF i, D
  <2>5. offered[i].tries \in 0..MaxTries /\ MaxTries \in Nat
    BY <2>3, LimitsAssumption DEF Record
  <2>6. \/ fate = "park" /\ offered[i].tries + 1 > MaxTries
        \/ fate = "retry" /\ offered[i].tries + 1 <= MaxTries /\ r.id \in DOMAIN outcomes
                          /\ outcomes[r.id] = "rejected"
        \/ fate = "drop" /\ r.id \in DOMAIN outcomes /\ outcomes[r.id] # "rejected"
    BY <2>3, <2>5 DEF Fate
  <2> HIDE DEF fate
  <2>7. CASE fate = "park"
    <3> DEFINE x == [offered[i] EXCEPT !.parked = TRUE]
    <3>1. x \in Record /\ x.id = r.id /\ x.tries = offered[i].tries
      BY <2>3 DEF Record
    <3>2. Resolution(offered, outcomes, r) = {x}
      BY <2>4, <2>7
    <3> HIDE DEF x
    <3> QED BY <2>3, <3>1, <3>2 DEF Stays
  <2>8. CASE fate = "retry"
    <3> DEFINE x == [offered[i] EXCEPT !.tries = @ + 1]
    <3>1. x \in Record /\ x.id = r.id /\ x.tries = offered[i].tries + 1
      BY <2>3, <2>5, <2>6, <2>8, SMTT(30) DEF Record
    <3>2. Resolution(offered, outcomes, r) = {x}
      BY <2>4, <2>8
    <3> HIDE DEF x
    <3> QED BY <2>3, <2>6, <2>8, <3>1, <3>2 DEF Stays
  <2>9. CASE fate = "drop"
    BY <2>4, <2>6, <2>9
  <2> QED BY <2>6, <2>7, <2>8, <2>9
<1> QED BY <1>2, <1>3

\* The compaction: no line from nowhere, none longer than before, none lost but on a verdict.
LEMMA CompactedFrom ==
    ASSUME NEW current \in Seq(Record), NEW offered \in Seq(Record), NEW outcomes
    PROVE  LET new == Compacted(current, offered, outcomes)
           IN  /\ new \in Seq(Record) /\ Len(new) <= Len(current)
               /\ \A k \in DOMAIN new :
                     \E i \in DOMAIN current : Stays(new[k], current[i], offered, outcomes)
               /\ Ids(new) \subseteq Ids(current)
               /\ \A id \in Ids(current) \ Ids(new) :
                     id \in DOMAIN outcomes /\ outcomes[id] # "rejected"
<1> DEFINE n == Len(current)
           Res(i) == Resolution(offered, outcomes, current[i])
           keep == {i \in DOMAIN current : Res(i) # {}}
           s == [i \in keep |-> CHOOSE r \in Res(i) : TRUE]
           new == Picked(s, keep)
<1>1. n \in Nat /\ DOMAIN current = 1..n /\ \A i \in 1..n : current[i] \in Record
  BY IdsOf
<1>2. Compacted(current, offered, outcomes) = new
  BY DEF Compacted, Rewritten
<1>3. ASSUME NEW i \in keep
      PROVE  i \in 1..n /\ s[i] \in Record /\ s[i].id = current[i].id
                /\ Stays(s[i], current[i], offered, outcomes)
  <2>1. i \in 1..n /\ current[i] \in Record /\ Res(i) # {}
    BY <1>1
  <2>2. PICK x : Res(i) = {x} /\ Stays(x, current[i], offered, outcomes)
    BY <2>1, Resolved
  <2>3. s[i] = x
    BY <2>2
  <2> QED BY <2>1, <2>2, <2>3 DEF Stays
<1>4. ASSUME NEW i \in 1..n, i \notin keep
      PROVE  current[i].id \in DOMAIN outcomes /\ outcomes[current[i].id] # "rejected"
  <2>1. current[i] \in Record /\ Res(i) = {}
    BY <1>1, <1>4
  <2> QED BY <2>1, Resolved
<1> HIDE DEF s, keep
<1>5. keep \in SUBSET (1..n)
  BY <1>3
<1>6. /\ new \in Seq(Record) /\ Len(new) <= n
      /\ \A k \in 1..Len(new) : \E i \in keep : new[k] = s[i]
      /\ \A i \in keep : \E k \in 1..Len(new) : new[k] = s[i]
  BY <1>1, <1>3, <1>5, PickedFrom
<1> HIDE DEF new
<1>7. DOMAIN new = 1..Len(new)
  BY <1>6, LenProperties
<1>8. \A k \in DOMAIN new : \E i \in DOMAIN current : Stays(new[k], current[i], offered, outcomes)
  BY <1>1, <1>3, <1>6, <1>7
<1>9. Ids(new) \subseteq Ids(current)
  BY <1>8 DEF Ids, Stays
<1>10. ASSUME NEW id \in Ids(current) \ Ids(new)
       PROVE  id \in DOMAIN outcomes /\ outcomes[id] # "rejected"
  <2>1. PICK i \in 1..n : current[i].id = id
    BY <1>1 DEF Ids
  <2>2. i \notin keep
    <3> SUFFICES ASSUME i \in keep PROVE FALSE
      OBVIOUS
    <3>1. PICK k \in 1..Len(new) : new[k] = s[i]
      BY <1>6
    <3>2. new[k].id = id /\ k \in DOMAIN new
      BY <1>3, <1>7, <2>1, <3>1
    <3> QED BY <1>10, <3>2 DEF Ids
  <2> QED BY <1>4, <2>1, <2>2
<1> QED BY <1>2, <1>6, <1>8, <1>9, <1>10
-----------------------------------------------------------------------------
(* The rows after a batch                                                    *)

\* What holds of the rows before a batch, and after each of its records, holds after it.
LEMMA RowsAfterIn ==
    ASSUME NEW part \in Seq(Record), NEW applied, NEW admitted, NEW V, NEW start \in V,
           \A r \in V, f \in Facts : RowStep(r, f) \in V /\ ClockStep(r, f) \in V
    PROVE  RowsAfter(start, part, applied, admitted) \in V
<1> DEFINE N == Len(part)
           step(n, v) == IF part[n].id \in applied THEN RowStep(v, part[n].id)
                         ELSE IF part[n].id \in admitted THEN ClockStep(v, part[n].id) ELSE v
           Run(m, g) == g \in [0..m -> V] /\ g[0] = start /\ \A n \in 1..m : g[n] = step(n, g[n - 1])
<1>1. N \in Nat /\ \A n \in 1..N : part[n].id \in Facts
  BY IdsOf DEF Record
<1>2. \A n \in 1..N, v \in V : step(n, v) \in V
  BY <1>1
<1> HIDE DEF step
<1>3. \E g : Run(N, g)
  <2> DEFINE Bad1 == {m \in Nat : m <= N /\ ~\E g : Run(m, g)}
  <2> SUFFICES ASSUME Bad1 # {} PROVE FALSE
    BY <1>1
  <2>1. PICK m \in Bad1 : \A k \in Bad1 : m <= k
    BY LeastNat
  <2>2. m # 0
    <3>1. Run(0, [n \in 0..0 |-> start])
      OBVIOUS
    <3> QED BY <2>1, <3>1
  <2>3. m - 1 \in Nat /\ m - 1 <= N /\ ~(m <= m - 1)
    BY <1>1, <2>1, <2>2
  <2>4. PICK g : Run(m - 1, g)
    BY <2>1, <2>3
  <2> DEFINE h == [n \in 0..m |-> IF n = m THEN step(m, g[m - 1]) ELSE g[n]]
  <2>5. m \in 1..N /\ m - 1 \in 0..m - 1
    BY <1>1, <2>1, <2>2, <2>3
  <2>6. step(m, g[m - 1]) \in V
    BY <1>2, <2>4, <2>5
  <2>7. h \in [0..m -> V] /\ h[0] = start
    BY <2>2, <2>3, <2>4, <2>5, <2>6
  <2>8. ASSUME NEW n \in 1..m PROVE h[n] = step(n, h[n - 1])
    <3>1. n - 1 \in 0..m /\ n - 1 # m /\ h[n - 1] = g[n - 1]
      BY <2>1
    <3>2. CASE n = m
      BY <3>1, <3>2
    <3>3. CASE n # m
      <4>1. n \in 1..m - 1 /\ h[n] = g[n]
        BY <2>1, <2>3, <3>3
      <4> QED BY <2>4, <3>1, <4>1
    <3> QED BY <3>2, <3>3
  <2> QED BY <2>1, <2>7, <2>8
<1>4. PICK h : Run(N, h)
  BY <1>3
<1> DEFINE Eq(g) == g = [n \in 0..N |-> IF n = 0 THEN start ELSE step(n, g[n - 1])]
<1>5. Eq(h)
  <2>1. \A n \in 0..N : h[n] = IF n = 0 THEN start ELSE step(n, h[n - 1])
    BY <1>1, <1>4
  <2> QED BY <1>4, <2>1
<1> DEFINE after == CHOOSE g : Eq(g)
<1>6. RowsAfter(start, part, applied, admitted) = after[N]
  BY DEF RowsAfter, step
<1>7. Eq(after)
  BY <1>5
<1> HIDE DEF after
<1>8. \A n \in 0..N : after[n] = IF n = 0 THEN start ELSE step(n, after[n - 1])
  BY <1>7
<1>9. \A n \in 0..N : after[n] = h[n]
  <2> DEFINE Bad1 == {n \in 0..N : after[n] # h[n]}
  <2> SUFFICES ASSUME Bad1 # {} PROVE FALSE
    OBVIOUS
  <2>1. PICK m \in Bad1 : \A k \in Bad1 : m <= k
    <3>1. Bad1 \in SUBSET Nat
      OBVIOUS
    <3> HIDE DEF Bad1
    <3> QED BY <3>1, LeastNat
  <2>2. m \in 0..N /\ after[m] # h[m]
    BY <2>1
  <2>3. m # 0
    BY <1>1, <1>4, <1>8, <2>2
  <2>4. m - 1 \in 0..N /\ ~(m <= m - 1) /\ m \in 1..N
    BY <1>1, <2>2, <2>3
  <2>5. after[m - 1] = h[m - 1]
    BY <2>1, <2>4
  <2> QED BY <1>4, <1>8, <2>2, <2>3, <2>4, <2>5
<1> QED BY <1>1, <1>4, <1>6, <1>9
-----------------------------------------------------------------------------
(* The steps of the replica                                                  *)

LEMMA QueueInit == Init => QueueInv
<1> SUFFICES ASSUME Init PROVE QueueInv
  OBVIOUS
<1>1. TypeInv
  <2>1. file \in Seq(Record) /\ Len(file) <= MaxLines
    BY EmptySeq, LimitsAssumption DEF Init
  <2>2. drain \in Drains
    BY Silent DEF Init, Idle, Drains
  <2>3. instant = 0 /\ at \in [Facts -> 0..instant] /\ row \in [Rows -> 0..instant] /\ clock \in 0..instant
    BY DEF Init
  <2>4. times \in [Metered -> Nat] /\ refused \in [Facts -> Nat]
    BY DEF Init
  <2>5. /\ torn \in BOOLEAN /\ late \subseteq Seq(Record) /\ seen \subseteq Ledgered
        /\ pruned \subseteq Ledgered /\ owed \subseteq Facts
    BY DEF Init
  <2> QED BY <2>1, <2>2, <2>3, <2>4, <2>5 DEF TypeInv
<1>2. OwedInv /\ StageInv /\ BudgetInv
  BY Silent DEF Init, OwedInv, StageInv, BudgetInv, OutageBurnsNoBudget, Idle
<1> QED BY <1>1, <1>2 DEF QueueInv

\* The end of a drain: given the file as it was offered, and the verdicts if there are any.
LEMMA Finishes ==
    ASSUME QueueInv, NEW outcomes, NEW offered \in Seq(Record), FinishDrain(offered, outcomes),
           offered = file \/ offered = drain.offered,
           refused' \in [Facts -> Nat],
           \A f \in Facts : refused'[f] =
               IF f \in DOMAIN outcomes /\ outcomes[f] = "rejected" THEN refused[f] + 1 ELSE refused[f]
    PROVE  /\ file' \in Seq(Record) /\ Len(file') <= MaxLines /\ torn' \in BOOLEAN
           /\ drain' \in Drains /\ drain'.stage = "idle"
           /\ Ids(file') \subseteq Ids(file) /\ Ids(drain'.offered) = {} /\ Ids(drain'.batch) = {}
           /\ DOMAIN drain'.outcomes = {}
           /\ \A id \in Ids(file) \ Ids(file') : id \in DOMAIN outcomes /\ outcomes[id] # "rejected"
           /\ BudgetInv'
<1>1. /\ file \in Seq(Record) /\ Len(file) <= MaxLines /\ MaxLines \in Nat
      /\ Len(file) \in Nat /\ refused \in [Facts -> Nat]
  BY LimitsAssumption, IdsOf DEF QueueInv, TypeInv
<1>2. file' = Compacted(file, offered, outcomes) /\ torn' = FALSE /\ drain' = Idle
  BY DEF FinishDrain
<1>3. /\ file' \in Seq(Record) /\ Len(file') <= Len(file)
      /\ \A k \in DOMAIN file' :
            \E i \in DOMAIN file : Stays(file'[k], file[i], offered, outcomes)
      /\ Ids(file') \subseteq Ids(file)
      /\ \A id \in Ids(file) \ Ids(file') : id \in DOMAIN outcomes /\ outcomes[id] # "rejected"
  BY <1>1, <1>2, CompactedFrom
<1>4. Len(file') <= MaxLines
  BY <1>1, <1>3, IdsOf
<1>5. /\ drain' \in Drains /\ drain'.stage = "idle" /\ drain'.offered = <<>> /\ drain'.batch = <<>>
      /\ drain'.outcomes = <<>>
  BY <1>2, Silent DEF Idle, Drains
<1>6. ASSUME NEW k \in DOMAIN file'
      PROVE  file'[k].tries <= refused'[file'[k].id]
  <2>1. PICK i \in DOMAIN file : Stays(file'[k], file[i], offered, outcomes)
    BY <1>3
  <2> DEFINE x == file'[k]
  <2>2. x \in Record /\ x.id = file[i].id /\ file[i] \in Record /\ file[i].tries <= refused[x.id]
    BY <1>1, <2>1, IdsOf DEF Stays, QueueInv, BudgetInv, OutageBurnsNoBudget
  <2>3. \A j \in DOMAIN offered : offered[j] \in Record /\ offered[j].tries <= refused[offered[j].id]
    BY IdsOf DEF QueueInv, BudgetInv, OutageBurnsNoBudget
  <2>4. /\ x.id \in Facts /\ x.tries \in Nat /\ \A r \in Record : r.tries \in Nat
        /\ refused[x.id] \in Nat
    BY <1>1, <2>2, LimitsAssumption DEF Record
  <2>5. CASE x = file[i]
    BY <2>2, <2>4, <2>5
  <2>6. ASSUME NEW j \in DOMAIN offered, offered[j].id = x.id, x.tries = offered[j].tries
        PROVE  x.tries <= refused'[x.id]
    <3>1. x.tries <= refused[x.id]
      BY <2>3, <2>6
    <3> HIDE DEF x
    <3> QED BY <2>4, <3>1, SMTT(30)
  <2>7. ASSUME NEW j \in DOMAIN offered, offered[j].id = x.id, x.tries = offered[j].tries + 1,
               x.id \in DOMAIN outcomes, outcomes[x.id] = "rejected"
        PROVE  x.tries <= refused'[x.id]
    <3>1. offered[j].tries <= refused[x.id] /\ offered[j].tries \in Nat
      BY <2>3, <2>4, <2>7
    <3> HIDE DEF x
    <3> QED BY <2>4, <2>7, <3>1
  <2> QED BY <2>1, <2>2, <2>5, <2>6, <2>7 DEF Stays
<1>7. BudgetInv'
  BY <1>5, <1>6, Silent DEF BudgetInv, OutageBurnsNoBudget
<1> QED BY <1>2, <1>3, <1>4, <1>5, <1>7, Silent

LEMMA NoVerdict ==
    ASSUME QueueInv, UNCHANGED refused
    PROVE  /\ refused' \in [Facts -> Nat]
           /\ \A f \in Facts : refused'[f] =
                 IF f \in DOMAIN <<>> /\ <<>>[f] = "rejected" THEN refused[f] + 1 ELSE refused[f]
BY Silent DEF QueueInv, TypeInv

LEMMA Offered ==
    ASSUME QueueInv
    PROVE  /\ drain.offered \in Seq(Record) /\ drain.batch \in Seq(Record)
           /\ file \in Seq(Record)
           /\ Abandoned \subseteq Seq(Record) /\ \A b \in Abandoned : Ids(b) \subseteq owed
BY DEF QueueInv, TypeInv, OwedInv, Drains, Abandoned

LEMMA QueueEnqueue ==
    ASSUME QueueInv, NEW f \in Facts, Enqueue(f)
    PROVE  QueueInv' /\ Ids(file') = Ids(file) \cup {f}
<1> DEFINE r == [id |-> f, tries |-> 0, parked |-> FALSE]
<1>1. r \in Record /\ r.id = f /\ r.tries = 0
  BY LimitsAssumption DEF Record
<1>2. file' = Append(file, r)
  BY DEF Enqueue, AppendLine, NeedsLeadingNewline
<1>3. /\ file \in Seq(Record) /\ Len(file) \in Nat /\ Len(file) < MaxLines /\ MaxLines \in Nat
      /\ DOMAIN file = 1..Len(file)
  BY LimitsAssumption, IdsOf DEF QueueInv, TypeInv, Enqueue
<1> HIDE DEF r
<1>4. /\ file' \in Seq(Record) /\ Len(file') = Len(file) + 1
      /\ DOMAIN file' = 1..Len(file) + 1
      /\ file'[Len(file) + 1] = r /\ \A i \in 1..Len(file) : file'[i] = file[i]
  BY <1>1, <1>2, <1>3, AppendProperties, LenProperties
<1>5. Ids(file') = Ids(file) \cup {f}
  BY <1>1, <1>3, <1>4 DEF Ids
<1>6. UNCHANGED <<drain, late, seen, pruned, row, clock, times, refused>> /\ owed' = owed \cup {f}
      /\ torn' = FALSE
  BY DEF Enqueue, writerVars
<1>7. instant' \in Nat /\ instant' >= instant /\ at' \in [Facts -> 0..instant']
  <2>1. instant \in Nat /\ at \in [Facts -> 0..instant]
    BY DEF QueueInv, TypeInv
  <2> QED BY <2>1 DEF Enqueue
<1>8. TypeInv'
  <2>1. Len(file') <= MaxLines
    BY <1>3, <1>4
  <2>2. row' \in [Rows -> 0..instant'] /\ clock' \in 0..instant'
    BY <1>6, <1>7 DEF QueueInv, TypeInv
  <2> QED BY <1>4, <1>6, <1>7, <2>1, <2>2 DEF QueueInv, TypeInv
<1>9. OwedInv' /\ StageInv'
  BY <1>5, <1>6 DEF QueueInv, OwedInv, StageInv, Ids
<1>10. BudgetInv'
  <2>1. refused[f] >= 0
    BY DEF QueueInv, TypeInv
  <2>2. \A i \in 1..Len(file) + 1 : i \in 1..Len(file) \/ i = Len(file) + 1
    BY <1>3
  <2>3. ASSUME NEW i \in DOMAIN file' PROVE file'[i].tries <= refused'[file'[i].id]
    <3>1. CASE i \in 1..Len(file)
      BY <1>3, <1>4, <1>6, <3>1 DEF QueueInv, BudgetInv, OutageBurnsNoBudget
    <3>2. CASE i = Len(file) + 1
      BY <1>1, <1>4, <1>6, <2>1, <3>2
    <3> QED BY <1>4, <2>2, <3>1, <3>2
  <2> QED BY <1>6, <2>3 DEF QueueInv, BudgetInv, OutageBurnsNoBudget
<1> QED BY <1>5, <1>8, <1>9, <1>10 DEF QueueInv

LEMMA QueueTick ==
    ASSUME QueueInv, Tick
    PROVE  QueueInv' /\ Ids(file') = Ids(file) /\ DOMAIN drain'.outcomes = {}
           /\ Ids(drain'.batch) \subseteq Ids(file) /\ drain.stage = "idle"
<1>1. UNCHANGED <<late, seen, pruned, row, clock, times, at, instant, owed, refused>>
      /\ drain.stage = "idle"
  BY DEF Tick, writerVars
<1>2. CASE FinishDrain(file, <<>>)
  <2>1. /\ file' \in Seq(Record) /\ Len(file') <= MaxLines /\ torn' \in BOOLEAN
        /\ drain' \in Drains /\ drain'.stage = "idle"
        /\ Ids(file') \subseteq Ids(file) /\ Ids(drain'.offered) = {} /\ Ids(drain'.batch) = {}
        /\ DOMAIN drain'.outcomes = {}
        /\ \A id \in Ids(file) \ Ids(file') : id \in DOMAIN <<>>
        /\ BudgetInv'
    BY <1>1, <1>2, NoVerdict, Offered, Finishes
  <2>2. TypeInv' /\ OwedInv' /\ StageInv'
    BY <1>1, <2>1 DEF QueueInv, TypeInv, OwedInv, StageInv
  <2> QED BY <1>1, <2>1, <2>2, Silent DEF QueueInv
<1>3. CASE /\ drain' = [stage |-> "asking", offered |-> file, batch |-> Batch(file), outcomes |-> <<>>]
           /\ UNCHANGED diskVars
  <2>1. Batch(file) \in Seq(Record) /\ Ids(Batch(file)) \subseteq Ids(file)
    BY Offered, BatchOf
  <2>2. /\ drain' \in Drains /\ drain'.offered = file /\ drain'.batch = Batch(file)
        /\ drain'.outcomes = <<>>
    BY <1>3, <2>1, Offered, Silent DEF Drains
  <2>3. TypeInv'
    BY <1>1, <1>3, <2>2 DEF QueueInv, TypeInv, diskVars
  <2>4. OwedInv' /\ StageInv' /\ BudgetInv'
    BY <1>1, <1>3, <2>1, <2>2, Silent
       DEF QueueInv, OwedInv, StageInv, BudgetInv, OutageBurnsNoBudget, diskVars
  <2> QED BY <1>1, <1>3, <2>1, <2>2, <2>3, <2>4, Silent DEF QueueInv, diskVars
<1> QED BY <1>2, <1>3 DEF Tick

LEMMA QueueAnswered ==
    ASSUME QueueInv, Answered
    PROVE  /\ QueueInv' /\ Ids(file') \subseteq Ids(file) /\ DOMAIN drain'.outcomes = {}
           /\ drain'.stage = "idle" /\ Ids(drain'.batch) = {}
           /\ \A id \in Ids(file) \ Ids(file') :
                 id \in DOMAIN drain.outcomes /\ drain.outcomes[id] # "rejected"
<1>1. UNCHANGED <<late, seen, pruned, row, clock, times, at, instant, owed>>
  BY DEF Answered, writerVars
<1>2. /\ refused' \in [Facts -> Nat]
      /\ \A f \in Facts : refused'[f] =
            IF f \in DOMAIN drain.outcomes /\ drain.outcomes[f] = "rejected"
            THEN refused[f] + 1 ELSE refused[f]
  <2>1. refused \in [Facts -> Nat]
    BY DEF QueueInv, TypeInv
  <2> QED BY <2>1 DEF Answered
<1>3. FinishDrain(drain.offered, drain.outcomes)
  BY DEF Answered
<1>4. /\ file' \in Seq(Record) /\ Len(file') <= MaxLines /\ torn' \in BOOLEAN
      /\ drain' \in Drains /\ drain'.stage = "idle"
      /\ Ids(file') \subseteq Ids(file) /\ Ids(drain'.offered) = {} /\ Ids(drain'.batch) = {}
      /\ DOMAIN drain'.outcomes = {}
      /\ \A id \in Ids(file) \ Ids(file') :
            id \in DOMAIN drain.outcomes /\ drain.outcomes[id] # "rejected"
      /\ BudgetInv'
  BY <1>2, <1>3, Offered, Finishes
<1>5. TypeInv' /\ OwedInv' /\ StageInv'
  BY <1>1, <1>2, <1>4 DEF QueueInv, TypeInv, OwedInv, StageInv
<1> QED BY <1>4, <1>5 DEF QueueInv

LEMMA QueueGivesUp ==
    ASSUME QueueInv, GivesUp
    PROVE  QueueInv' /\ Ids(file') = Ids(file) /\ DOMAIN drain'.outcomes = {}
           /\ drain'.stage = "idle" /\ Ids(drain'.batch) = {}
<1>1. /\ UNCHANGED <<seen, pruned, row, clock, times, at, instant, owed, refused>>
      /\ late' \subseteq late \cup Abandoned
  BY DEF GivesUp, writerVars
<1>2. FinishDrain(drain.offered, <<>>)
  BY DEF GivesUp
<1>3. /\ file' \in Seq(Record) /\ Len(file') <= MaxLines /\ torn' \in BOOLEAN
      /\ drain' \in Drains /\ drain'.stage = "idle"
      /\ Ids(file') \subseteq Ids(file) /\ Ids(drain'.offered) = {} /\ Ids(drain'.batch) = {}
      /\ DOMAIN drain'.outcomes = {}
      /\ \A id \in Ids(file) \ Ids(file') : id \in DOMAIN <<>>
      /\ BudgetInv'
  BY <1>1, <1>2, NoVerdict, Offered, Finishes
<1>4. TypeInv' /\ OwedInv' /\ StageInv'
  BY <1>1, <1>3, Offered DEF QueueInv, TypeInv, OwedInv, StageInv
<1> QED BY <1>3, <1>4, Silent DEF QueueInv

LEMMA QueueReplicaCrash ==
    ASSUME QueueInv, ReplicaCrash
    PROVE  QueueInv' /\ DOMAIN drain'.outcomes = {} /\ Ids(drain'.batch) = {}
<1>1. /\ UNCHANGED <<file, seen, pruned, row, clock, times, at, instant, owed, refused>>
      /\ late' \subseteq late \cup Abandoned /\ torn' \in {torn, TRUE} /\ drain' = Idle
  BY DEF ReplicaCrash, writerVars
<1>2. /\ drain' \in Drains /\ drain'.offered = <<>> /\ drain'.batch = <<>>
      /\ drain'.outcomes = <<>>
  BY <1>1, Silent DEF Idle, Drains
<1>3. TypeInv' /\ OwedInv' /\ StageInv' /\ BudgetInv'
  BY <1>1, <1>2, Offered, Silent
     DEF QueueInv, TypeInv, OwedInv, StageInv, BudgetInv, OutageBurnsNoBudget
<1> QED BY <1>2, <1>3, Silent DEF QueueInv
-----------------------------------------------------------------------------
(* The steps of the writer                                                   *)

LEMMA Apart == Metered \subseteq Ledgered /\ Metered \subseteq Facts /\ Metered \cap Bad = {}
<1>1. Usage \cap Presence = {} /\ Usage \cap Bad = {}
  BY FactsAssumption, 1 \in 1..6, 2 \in 1..6, 5 \in 1..6
<1>2. Cursed \cap Presence = {} /\ Cursed \cap Bad = {}
  BY FactsAssumption, 6 \in 1..6, 2 \in 1..6, 5 \in 1..6
<1> QED BY <1>1, <1>2 DEF Metered, Ledgered, Facts

\* What the writer knows of a computer is not older than before.
RowsForward ==
    /\ row'["presence"] >= row["presence"]
    /\ clock >= row["identity"] => row'["identity"] >= row["identity"]

LEMMA Received ==
    ASSUME QueueInv, NEW batch \in Seq(Record), NEW upTo \in 0..Len(batch), NEW thrown,
           Receive(batch, upTo, thrown, FALSE) \/ Receive(batch, upTo, thrown, TRUE)
    PROVE  /\ \E new \in SUBSET (Ids(batch) \cap Ledgered) :
                 /\ seen' = seen \cup new /\ new \cap seen = {}
                 /\ times' = [f \in Metered |-> IF f \in new THEN times[f] + 1 ELSE times[f]]
                 /\ upTo = Len(batch) => \A id \in Ids(batch) : Performable(id, thrown) => id \in new
           /\ pruned' = pruned
           /\ row' \in [Rows -> 0..instant] /\ clock' \in 0..instant
           /\ RowsForward
<1> DEFINE part == SubSeq(batch, 1, upTo)
           new == {id \in Ids(part) : Performable(id, thrown)}
           applied == new \cup (Presence \ thrown)
           now == [k \in Rows \cup {"noted"} |-> IF k = "noted" THEN clock ELSE row[k]]
<1>0. PICK admitted : LET after == RowsAfter(now, part, applied, admitted)
                      IN  row' = [k \in Rows |-> after[k]] /\ clock' \in {0, after["noted"]}
  BY DEF Receive
<1> DEFINE after == RowsAfter(now, part, applied, admitted)
<1>1. /\ seen' = seen \cup new
      /\ times' = [f \in Metered |-> IF f \in new THEN times[f] + 1 ELSE times[f]]
      /\ row' = [k \in Rows |-> after[k]]
      /\ clock' \in {0, after["noted"]}
      /\ pruned' = pruned
  BY <1>0 DEF Receive
<1>2. /\ Len(batch) \in Nat /\ DOMAIN batch = 1..Len(batch)
      /\ \A i \in 1..Len(batch) : batch[i] \in Record
  BY IdsOf
<1>3. /\ part \in Seq(Record) /\ Len(part) = upTo
      /\ \A i \in 1..upTo : part[i] = batch[i]
  <2>1. /\ part \in Seq(Record) /\ Len(part) = IF 1 <= upTo THEN upTo - 1 + 1 ELSE 0
        /\ \A i \in 1..upTo - 1 + 1 : part[i] = batch[1 + i - 1]
    <3>1. 1 \in Int /\ upTo \in Int /\ \A i \in 1..upTo : batch[i] \in Record
      BY <1>2
    <3> QED BY <3>1, SubSeqProperties
  <2> HIDE DEF part
  <2> QED BY <1>2, <2>1
<1> HIDE DEF part
<1>4. DOMAIN part = 1..upTo
  BY <1>3, IdsOf
<1>5. Ids(part) \subseteq Ids(batch) /\ (upTo = Len(batch) => Ids(part) = Ids(batch))
  BY <1>2, <1>3, <1>4 DEF Ids
<1>6. new \in SUBSET (Ids(batch) \cap Ledgered) /\ new \cap seen = {}
  BY <1>5 DEF Performable
<1>7. upTo = Len(batch) => \A id \in Ids(batch) : Performable(id, thrown) => id \in new
  BY <1>5
<1>8. /\ instant \in Nat /\ at \in [Facts -> 0..instant] /\ row \in [Rows -> 0..instant]
      /\ clock \in 0..instant
  BY DEF QueueInv, TypeInv
<1> DEFINE V == {r \in [Rows \cup {"noted"} -> 0..instant] :
                    /\ r["presence"] >= row["presence"]
                    /\ clock >= row["identity"] =>
                          r["identity"] >= row["identity"] /\ r["noted"] >= row["identity"]}
<1>9. now \in V
  BY <1>8 DEF Rows
<1>10. ASSUME NEW r \in V, NEW f \in Facts
       PROVE  RowStep(r, f) \in V
  <2>1. at[f] \in 0..instant
    BY <1>8
  <2>2. CASE RowStep(r, f) = r
    BY <2>2
  <2>3. CASE RowStep(r, f) = [r EXCEPT !.presence = at[f]] /\ r.presence <= at[f]
    BY <1>8, <2>1, <2>3, SMTT(30) DEF Rows
  <2>4. CASE RowStep(r, f) = [r EXCEPT !.identity = at[f], !.noted = at[f]] /\ r.noted <= at[f]
    <3> DEFINE x == RowStep(r, f)
    <3>1. r \in [Rows \cup {"noted"} -> 0..instant] /\ {"identity", "presence"} \subseteq Rows
      BY DEF Rows
    <3>2. x = [r EXCEPT !["identity"] = at[f], !["noted"] = at[f]]
      BY <2>4
    <3> HIDE DEF x
    <3>3. /\ x \in [Rows \cup {"noted"} -> 0..instant] /\ x["presence"] = r["presence"]
          /\ x["identity"] = at[f] /\ x["noted"] = at[f]
      BY <2>1, <3>1, <3>2
    <3>4. clock >= row["identity"] => at[f] >= row["identity"]
      <4>1. r["noted"] \in Nat /\ row["identity"] \in Nat /\ at[f] \in Nat
        BY <1>8, <2>1, <3>1
      <4> QED BY <2>4, <4>1
    <3>5. x \in V
      BY <3>3, <3>4
    <3> QED BY <3>5 DEF x
  <2>5. CASE RowStep(r, f) = [r EXCEPT !.home = at[f]]
    BY <1>8, <2>1, <2>5 DEF Rows
  <2>6. \/ RowStep(r, f) = r
        \/ RowStep(r, f) = [r EXCEPT !.presence = at[f]] /\ r.presence <= at[f]
        \/ RowStep(r, f) = [r EXCEPT !.identity = at[f], !.noted = at[f]] /\ r.noted <= at[f]
        \/ RowStep(r, f) = [r EXCEPT !.home = at[f]]
    BY DEF RowStep, AdmitPresence, AdmitIdentity
  <2> HIDE DEF V
  <2> QED BY <2>2, <2>3, <2>4, <2>5, <2>6
<1>11. ASSUME NEW r \in V, NEW f \in Facts
       PROVE  ClockStep(r, f) \in V
  <2>1. at[f] \in 0..instant
    BY <1>8
  <2>2. CASE ClockStep(r, f) = r
    BY <2>2
  <2>3. CASE ClockStep(r, f) = [r EXCEPT !["noted"] = at[f]] /\ r["noted"] <= at[f]
    <3> DEFINE x == ClockStep(r, f)
    <3>1. r \in [Rows \cup {"noted"} -> 0..instant] /\ {"identity", "presence"} \subseteq Rows
          /\ "noted" \notin Rows
      BY DEF Rows
    <3>2. x = [r EXCEPT !["noted"] = at[f]]
      BY <2>3
    <3> HIDE DEF x
    <3>3. /\ x \in [Rows \cup {"noted"} -> 0..instant] /\ x["presence"] = r["presence"]
          /\ x["identity"] = r["identity"] /\ x["noted"] = at[f]
      BY <2>1, <3>1, <3>2
    <3>4. clock >= row["identity"] => at[f] >= row["identity"]
      <4>1. r["noted"] \in Nat /\ row["identity"] \in Nat /\ at[f] \in Nat
        BY <1>8, <2>1, <3>1
      <4> QED BY <2>3, <4>1
    <3>5. x \in V
      BY <3>3, <3>4
    <3> QED BY <3>5 DEF x
  <2>4. \/ ClockStep(r, f) = r
        \/ ClockStep(r, f) = [r EXCEPT !["noted"] = at[f]] /\ r["noted"] <= at[f]
    BY DEF ClockStep, AdmitIdentity
  <2> HIDE DEF V
  <2> QED BY <2>2, <2>3, <2>4
<1>12. after \in V
  <2> HIDE DEF V, now, applied
  <2> QED BY <1>3, <1>9, <1>10, <1>11, RowsAfterIn
<1> HIDE DEF after, new
<1>13. /\ row' \in [Rows -> 0..instant] /\ clock' \in 0..instant
       /\ row'["presence"] = after["presence"] /\ row'["identity"] = after["identity"]
  BY <1>1, <1>8, <1>12 DEF Rows
<1>14. RowsForward
  BY <1>12, <1>13 DEF RowsForward
<1> QED BY <1>1, <1>6, <1>7, <1>13, <1>14

\* A step that leaves the file and what was offered of it alone.
LEMMA QueueKept ==
    ASSUME QueueInv, UNCHANGED <<file, torn, at, owed, refused>>, late' \subseteq late,
           drain' \in Drains, drain'.offered = drain.offered, drain'.batch = drain.batch,
           drain'.stage # "answered" => DOMAIN drain'.outcomes = {},
           seen' \subseteq Ledgered, pruned' \subseteq Ledgered, times' \in [Metered -> Nat],
           instant' \in Nat, instant' >= instant,
           row' \in [Rows -> 0..instant'], clock' \in 0..instant'
    PROVE  QueueInv'
<1>1. at' \in [Facts -> 0..instant']
  BY DEF QueueInv, TypeInv
<1>2. TypeInv'
  BY <1>1 DEF QueueInv, TypeInv
<1>3. OwedInv' /\ StageInv' /\ BudgetInv'
  BY DEF QueueInv, OwedInv, StageInv, BudgetInv, OutageBurnsNoBudget
<1> QED BY <1>2, <1>3 DEF QueueInv

\* The three steps in which the writer works through a batch.
Writes(batch, new) ==
    /\ batch \in late \cup Abandoned \cup {<<>>} /\ new \in SUBSET (Ids(batch) \cap Ledgered)
    /\ seen' = seen \cup new /\ new \cap seen = {}
    /\ times' = [f \in Metered |-> IF f \in new THEN times[f] + 1 ELSE times[f]]
    /\ UNCHANGED <<file, torn, pruned, at, instant, owed, refused>>
    /\ late' \subseteq late /\ drain' \in Drains
    /\ drain'.offered = drain.offered /\ drain'.batch = drain.batch
    /\ drain'.stage = drain.stage \/ drain'.stage = "answered"
    /\ \A id \in (DOMAIN drain'.outcomes \cap Metered) \ DOMAIN drain.outcomes : id \in seen'
    /\ \A id \in DOMAIN drain'.outcomes \cap DOMAIN drain.outcomes :
          drain'.outcomes[id] = drain.outcomes[id]

LEMMA Written ==
    ASSUME QueueInv,
           (\E t \in SUBSET Facts : WriterTakes(t)) \/ LateArrival \/ WriterCrash
    PROVE  QueueInv' /\ RowsForward /\ \E batch, new : Writes(batch, new)
<1>1. /\ drain \in Drains /\ late \subseteq Seq(Record) /\ instant \in Nat
      /\ times \in [Metered -> Nat] /\ seen \subseteq Ledgered /\ pruned \subseteq Ledgered
      /\ drain.stage # "answered" => DOMAIN drain.outcomes = {}
  BY DEF QueueInv, TypeInv, StageInv
<1>2. ASSUME NEW batch, NEW new, Writes(batch, new),
             drain'.stage # "answered" => DOMAIN drain'.outcomes = {},
             row' \in [Rows -> 0..instant], clock' \in 0..instant
      PROVE  QueueInv'
  BY <1>1, <1>2, QueueKept DEF Writes
<1>3. ASSUME NEW t \in SUBSET Facts, WriterTakes(t)
      PROVE  QueueInv' /\ RowsForward /\ \E batch, new : Writes(batch, new)
  <2> DEFINE batch == drain.batch
             out == Outcomes(batch, t)
  <2>1. /\ drain.stage = "asking" /\ Receive(batch, Len(batch), t, FALSE)
        /\ drain' = [drain EXCEPT !.stage = "answered", !.outcomes = out]
        /\ UNCHANGED <<file, torn, late, at, instant, owed, refused>>
    BY <1>3 DEF WriterTakes, diskVars
  <2>2. batch \in Seq(Record) /\ batch \in Abandoned /\ Ids(batch) \subseteq Facts
        /\ Len(batch) \in 0..Len(batch)
    <3>1. batch \in Seq(Record) /\ batch \in Abandoned
      BY <2>1, Offered DEF Abandoned
    <3>2. Ids(batch) \subseteq Facts /\ Len(batch) \in Nat
      BY <3>1, IdsOf
    <3> QED BY <3>1, <3>2
  <2>3. PICK new \in SUBSET (Ids(batch) \cap Ledgered) :
            /\ seen' = seen \cup new /\ new \cap seen = {}
            /\ times' = [f \in Metered |-> IF f \in new THEN times[f] + 1 ELSE times[f]]
            /\ Len(batch) = Len(batch) =>
                  \A id \in Ids(batch) : Performable(id, t) => id \in new
    BY <2>1, <2>2, Received
  <2>4. /\ pruned' = pruned /\ row' \in [Rows -> 0..instant] /\ clock' \in 0..instant
        /\ RowsForward
    BY <2>1, <2>2, Received
  <2>5. out \in Verdicts /\ DOMAIN out = Ids(batch) \ (t \ seen)
    <3>1. out = [id \in Ids(batch) \ (t \ seen) |->
                    IF id \in Bad THEN "rejected"
                    ELSE IF id \in seen THEN "duplicate" ELSE "accepted"]
      BY DEF Outcomes
    <3> HIDE DEF out
    <3> DEFINE D == Ids(batch) \ (t \ seen)
    <3>2. D \in SUBSET Facts
      BY <2>2
    <3> HIDE DEF D
    <3>3. DOMAIN out = D /\ out \in [D -> {"accepted", "duplicate", "rejected"}]
      BY <3>1 DEF D
    <3>4. out \in Verdicts
      BY <3>2, <3>3 DEF Verdicts
    <3> QED BY <3>3, <3>4 DEF D
  <2> HIDE DEF out, batch
  <2>6. /\ drain' \in Drains /\ drain'.stage = "answered" /\ drain'.outcomes = out
        /\ drain'.offered = drain.offered /\ drain'.batch = drain.batch
    BY <1>1, <2>1, <2>5 DEF Drains
  <2>7. ASSUME NEW id \in DOMAIN out \cap Metered
        PROVE  id \in seen'
    BY <2>3, <2>5, <2>7, Apart DEF Performable
  <2>8. DOMAIN drain.outcomes = {}
    BY <1>1, <2>1
  <2>9. Writes(batch, new)
    BY <2>1, <2>2, <2>3, <2>4, <2>6, <2>7, <2>8 DEF Writes
  <2> QED BY <1>2, <2>4, <2>6, <2>9
<1>4. ASSUME NEW b \in Seq(Record), b \in late \cup Abandoned \cup {<<>>}, NEW n \in 0..Len(b), NEW t,
             Receive(b, n, t, FALSE) \/ Receive(b, n, t, TRUE), late' \subseteq late,
             UNCHANGED <<file, torn, at, instant, owed, refused>>,
             drain' = drain \/ drain' = [drain EXCEPT !.stage = "answered"]
      PROVE  QueueInv' /\ RowsForward /\ \E batch, new : Writes(batch, new)
  <2>1. PICK new \in SUBSET (Ids(b) \cap Ledgered) :
            /\ seen' = seen \cup new /\ new \cap seen = {}
            /\ times' = [f \in Metered |-> IF f \in new THEN times[f] + 1 ELSE times[f]]
            /\ n = Len(b) => \A id \in Ids(b) : Performable(id, t) => id \in new
    BY <1>4, Received
  <2>2. /\ pruned' = pruned /\ row' \in [Rows -> 0..instant] /\ clock' \in 0..instant
        /\ RowsForward
    BY <1>4, Received
  <2>3. /\ drain' \in Drains /\ drain'.outcomes = drain.outcomes
        /\ drain'.offered = drain.offered /\ drain'.batch = drain.batch
        /\ drain'.stage = drain.stage \/ drain'.stage = "answered"
    BY <1>1, <1>4 DEF Drains
  <2>4. Writes(b, new)
    BY <1>4, <2>1, <2>2, <2>3 DEF Writes
  <2>5. drain'.stage # "answered" => DOMAIN drain'.outcomes = {}
    BY <1>1, <2>3
  <2> QED BY <1>2, <2>2, <2>4, <2>5
<1>5. CASE LateArrival
  <2>1. PICK b \in late : \E t \in Throwing(b) :
            Receive(b, Len(b), t, FALSE) /\ late' = late \ {b}
    BY <1>5 DEF LateArrival
  <2>2. b \in Seq(Record) /\ Len(b) \in 0..Len(b)
    BY <1>1, <2>1, IdsOf
  <2> QED BY <1>4, <1>5, <2>1, <2>2 DEF LateArrival, diskVars
<1>6. CASE WriterCrash
  <2>1. PICK b \in late \cup Abandoned \cup {<<>>} : \E n \in 0..Len(b) : \E t \in Throwing(b) :
            Receive(b, n, t, TRUE) /\ late' = late \ {b}
    BY <1>6 DEF WriterCrash
  <2>2. b \in Seq(Record)
    BY <1>1, <2>1, Offered, Silent
  <2> QED BY <1>4, <1>6, <2>1, <2>2 DEF WriterCrash, diskVars
<1> QED BY <1>3, <1>5, <1>6

LEMMA QueueDirect ==
    ASSUME QueueInv, NEW k \in Rows, Direct(k)
    PROVE  QueueInv' /\ RowsForward
<1>1. /\ instant \in Nat /\ row \in [Rows -> 0..instant] /\ clock \in 0..instant
      /\ instant' = instant + 1 /\ row' = [row EXCEPT ![k] = instant + 1]
      /\ clock' \in {clock, instant + 1}
  BY DEF QueueInv, TypeInv, Direct
<1>2. /\ instant' \in Nat /\ instant' >= instant
      /\ row' \in [Rows -> 0..instant'] /\ clock' \in 0..instant'
  BY <1>1
<1>3. \A j \in Rows : row'[j] >= row[j]
  BY <1>1
<1>4. UNCHANGED <<file, torn, drain, late, seen, pruned, times, at, owed, refused>>
  BY DEF Direct, diskVars
<1>5. QueueInv'
  BY <1>2, <1>4, QueueKept DEF QueueInv, TypeInv, StageInv
<1> QED BY <1>3, <1>5 DEF RowsForward, Rows

LEMMA QueuePrune ==
    ASSUME QueueInv, NEW S, Prune(S)
    PROVE  QueueInv'
<1>1. /\ UNCHANGED <<file, torn, drain, late, row, clock, times, at, instant, owed, refused>>
      /\ S \subseteq seen /\ seen' = seen \ S /\ pruned' = pruned \cup S
  BY DEF Prune, diskVars
<1> QED BY <1>1, QueueKept DEF QueueInv, TypeInv, StageInv

LEMMA QueueNext == QueueInv /\ [Next]_vars => QueueInv'
<1> SUFFICES ASSUME QueueInv, [Next]_vars PROVE QueueInv'
  OBVIOUS
<1>1. CASE UNCHANGED vars
  BY <1>1 DEF vars, QueueInv, TypeInv, OwedInv, StageInv, BudgetInv, OutageBurnsNoBudget
<1> QED BY <1>1, QueueEnqueue, QueueTick, QueueAnswered, QueueGivesUp, QueueReplicaCrash, Written,
           QueueDirect, QueuePrune DEF Next

(* For any facts, limits and faults: the file and the requests hold records  *)
(* that were enqueued, within the bounds, and the writer's row holds         *)
(* instants that were stamped.                                               *)
THEOREM TypeCorrect == Spec => []TypeOK
<1>1. QueueInv => TypeOK
  BY DEF QueueInv, TypeInv, OwedInv, TypeOK, Drains
<1> QED BY QueueInit, QueueNext, <1>1, PTL DEF Spec

(* A record's retry budget is spent by refusals of that record only, however *)
(* many outages, timeouts, restarts and failures at the writer there are     *)
(* (replica-outbox.ts drainBatch).                                           *)
THEOREM BudgetKept == Spec => []OutageBurnsNoBudget
<1>1. QueueInv => OutageBurnsNoBudget
  BY DEF QueueInv, BudgetInv
<1> QED BY QueueInit, QueueNext, <1>1, PTL DEF Spec

(* However late, repeated or out of order a fact of a computer arrives, its  *)
(* presence never moves back, nor its declaration while the writer remembers *)
(* the last one's instant (setPresenceIfNewer, pc-identity-forward.ts).      *)
THEOREM RowsNeverBack == Spec => RowsMoveForward
<1>1. ASSUME QueueInv, [Next]_vars
      PROVE  [RowsForward]_vars
  <2>1. ASSUME UNCHANGED row PROVE RowsForward
    <3>1. row \in [Rows -> 0..instant] /\ instant \in Nat
      BY <1>1 DEF QueueInv, TypeInv
    <3>2. row["presence"] \in Nat /\ row["identity"] \in Nat
      BY <3>1 DEF Rows
    <3> QED BY <2>1, <3>2 DEF RowsForward
  <2>2. CASE UNCHANGED vars
    BY <2>2
  <2>3. CASE \/ \E f \in Facts : Enqueue(f)
             \/ Tick \/ Answered \/ GivesUp \/ ReplicaCrash
             \/ \E S \in SUBSET Facts : Prune(S)
    BY <2>1, <2>3 DEF Enqueue, Tick, Answered, GivesUp, ReplicaCrash, Prune, writerVars
  <2> QED BY <1>1, <2>2, <2>3, Written, QueueDirect DEF Next
<1>2. [RowsForward]_vars =>
          [ /\ row'["presence"] >= row["presence"]
            /\ clock >= row["identity"] => row'["identity"] >= row["identity"] ]_vars
  BY DEF RowsForward
<1> QED BY QueueInit, QueueNext, <1>1, <1>2, PTL DEF Spec, RowsMoveForward
-----------------------------------------------------------------------------
(* A step of the forwarder is a step of ForwardOnce, or none of its          *)

OnceStep == Once!Next \/ UNCHANGED Once!vars

LEMMA OnceInit == Init => OnceInv /\ Once!Init
<1> SUFFICES ASSUME Init PROVE OnceInv /\ Once!Init
  OBVIOUS
<1>1. OnceInv
  BY Silent DEF Init, OnceInv, TimesInv, PrunedInv, VerdictsInv, Performed, Idle
<1>2. Once!Init
  BY DEF Init, Once!Init
<1> QED BY <1>1, <1>2

\* Nothing performed, nothing pruned, nothing owed or forgotten.
LEMMA OnceStutters ==
    ASSUME OnceInv, UNCHANGED <<seen, pruned, times, owed>>, Ids(file') = Ids(file),
           late' \subseteq late \cup Abandoned,
           \A b \in Abandoned' : Ids(b) \subseteq Ids(file) \/ b \in Abandoned,
           DOMAIN drain'.outcomes = {} \/ drain' = drain
    PROVE  OnceInv' /\ OnceStep
<1>1. TimesInv' /\ VerdictsInv'
  BY DEF OnceInv, TimesInv, VerdictsInv, Performed
<1>2. PrunedInv'
  BY DEF OnceInv, PrunedInv
<1>3. UNCHANGED Once!vars
  BY DEF Once!vars
<1> QED BY <1>1, <1>2, <1>3 DEF OnceInv, OnceStep

LEMMA OnceEnqueue ==
    ASSUME OutageBound, QueueInv, OnceInv, NEW f \in Facts, Enqueue(f)
    PROVE  OnceInv' /\ OnceStep
<1>1. /\ UNCHANGED <<drain, late, seen, pruned, times>> /\ owed' = owed \cup {f} /\ f \notin pruned
  BY DEF Enqueue, writerVars
<1>2. Ids(file') = Ids(file) \cup {f}
  BY QueueEnqueue
<1>3. OnceInv'
  BY <1>1, <1>2 DEF OnceInv, TimesInv, PrunedInv, VerdictsInv, Performed, Abandoned
<1>4. CASE f \in Metered
  <2>1. Once!Owe(f)
    BY <1>1, <1>2, <1>4 DEF Once!Owe
  <2> QED BY <1>3, <1>4, <2>1 DEF OnceStep, Once!Next
<1>5. CASE f \notin Metered
  <2>1. UNCHANGED Once!vars
    BY <1>1, <1>2, <1>5 DEF Once!vars
  <2> QED BY <1>3, <2>1 DEF OnceStep
<1> QED BY <1>4, <1>5

LEMMA OnceAnswered ==
    ASSUME QueueInv, OnceInv, Answered
    PROVE  OnceInv' /\ OnceStep
<1>1. UNCHANGED <<late, seen, pruned, times, owed>>
  BY DEF Answered, writerVars
<1>2. /\ Ids(file') \subseteq Ids(file) /\ DOMAIN drain'.outcomes = {} /\ Abandoned' = {}
      /\ \A id \in Ids(file) \ Ids(file') :
            id \in DOMAIN drain.outcomes /\ drain.outcomes[id] # "rejected"
  BY QueueAnswered DEF Abandoned
<1>3. OnceInv'
  BY <1>1, <1>2 DEF OnceInv, TimesInv, PrunedInv, VerdictsInv, Performed
<1> DEFINE S == (Ids(file) \ Ids(file')) \cap Metered
<1>4. ASSUME NEW id \in S
      PROVE  id \in owed /\ times[id] = 1
  <2>1. id \in Performed
    BY <1>2 DEF OnceInv, VerdictsInv
  <2>2. id \in owed
    BY DEF QueueInv, OwedInv
  <2> QED BY <2>1, <2>2 DEF OnceInv, TimesInv
<1>5. CASE S = {}
  <2>1. UNCHANGED Once!vars
    BY <1>1, <1>2, <1>5 DEF Once!vars
  <2> QED BY <1>3, <2>1 DEF OnceStep
<1>6. CASE S # {}
  <2>1. Once!Settle(S)
    BY <1>1, <1>2, <1>4, <1>6 DEF Once!Settle
  <2>2. S \in SUBSET Metered
    OBVIOUS
  <2> HIDE DEF S
  <2> QED BY <1>3, <2>1, <2>2 DEF OnceStep, Once!Next
<1> QED BY <1>5, <1>6

LEMMA OnceWritten ==
    ASSUME QueueInv, OnceInv, NEW batch, NEW new, Writes(batch, new)
    PROVE  OnceInv' /\ OnceStep
<1>1. /\ new \subseteq Ids(batch) /\ seen' = seen \cup new /\ new \cap seen = {}
      /\ times' = [f \in Metered |-> IF f \in new THEN times[f] + 1 ELSE times[f]]
      /\ UNCHANGED <<file, pruned, owed>> /\ late' \subseteq late /\ Abandoned' \subseteq Abandoned
  BY DEF Writes, Abandoned
<1>2. Ids(batch) \subseteq owed /\ pruned \cap Ids(batch) = {}
  BY Offered, Silent DEF Writes, QueueInv, OwedInv, OnceInv, PrunedInv
<1>3. /\ times \in [Metered -> Nat]
      /\ \A f \in Metered : times[f] = IF f \in Performed THEN 1 ELSE 0
  BY DEF QueueInv, TypeInv, OnceInv, TimesInv
<1>4. new \cap Performed = {} /\ Performed' = Performed \cup new
  BY <1>1, <1>2 DEF Performed
<1>5. TimesInv'
  <2>1. ASSUME NEW f \in Metered
        PROVE  times'[f] = IF f \in Performed' THEN 1 ELSE 0
    BY <1>1, <1>3, <1>4
  <2> QED BY <2>1 DEF TimesInv
<1>6. PrunedInv'
  BY <1>1 DEF OnceInv, PrunedInv
<1>7. VerdictsInv'
  BY <1>1, <1>4 DEF Writes, OnceInv, VerdictsInv, Performed
<1> DEFINE S == new \cap Metered
<1>8. CASE S = {}
  <2>1. times' = times
    BY <1>1, <1>3, <1>8
  <2>2. UNCHANGED Once!vars
    BY <1>1, <2>1 DEF Once!vars
  <2> QED BY <1>5, <1>6, <1>7, <2>2 DEF OnceInv, OnceStep
<1>9. CASE S # {}
  <2>1. \A f \in S : f \in owed \cap Metered /\ times[f] = 0
    BY <1>1, <1>2, <1>3, <1>4
  <2>2. times' = [f \in Metered |-> IF f \in S THEN 1 ELSE times[f]]
    BY <1>1, <1>3, <2>1
  <2>3. S \in SUBSET Metered /\ S # {}
    BY <1>9
  <2> HIDE DEF S
  <2>4. Once!Perform(S)
    BY <1>1, <2>1, <2>2, <2>3 DEF Once!Perform
  <2> QED BY <1>5, <1>6, <1>7, <2>3, <2>4 DEF OnceInv, OnceStep, Once!Next
<1> QED BY <1>8, <1>9

LEMMA OncePrune ==
    ASSUME OutageBound, OnceInv, NEW S, Prune(S)
    PROVE  OnceInv' /\ OnceStep
<1>1. /\ UNCHANGED <<file, drain, late, times, owed>> /\ S \subseteq seen /\ S \cap StillOffered = {}
      /\ seen' = seen \ S /\ pruned' = pruned \cup S
  BY DEF Prune, diskVars
<1>2. TimesInv' /\ VerdictsInv'
  <2>1. Performed' = Performed
    BY <1>1 DEF Performed
  <2> QED BY <1>1, <2>1 DEF OnceInv, TimesInv, VerdictsInv
<1>3. PrunedInv'
  BY <1>1 DEF OnceInv, PrunedInv, StillOffered, Abandoned
<1>4. UNCHANGED Once!vars
  BY <1>1 DEF Once!vars
<1> QED BY <1>2, <1>3, <1>4 DEF OnceInv, OnceStep

LEMMA OnceNext ==
    ASSUME OutageBound, QueueInv, OnceInv, [Next]_vars
    PROVE  OnceInv' /\ OnceStep
<1>1. CASE UNCHANGED vars
  BY <1>1, OnceStutters DEF vars, Abandoned
<1>2. CASE Tick
  <2>1. UNCHANGED <<seen, pruned, times, owed, late>>
    BY <1>2 DEF Tick, writerVars
  <2> QED BY <1>2, <2>1, QueueTick, OnceStutters DEF Abandoned
<1>3. CASE GivesUp
  <2>1. UNCHANGED <<seen, pruned, times, owed>> /\ late' \subseteq late \cup Abandoned
    BY <1>3 DEF GivesUp, writerVars
  <2>2. Ids(file') = Ids(file) /\ DOMAIN drain'.outcomes = {} /\ Abandoned' = {}
    BY <1>3, QueueGivesUp DEF Abandoned
  <2> QED BY <2>1, <2>2, OnceStutters
<1>4. CASE ReplicaCrash
  <2>1. /\ UNCHANGED <<file, seen, pruned, times, owed>> /\ late' \subseteq late \cup Abandoned
        /\ drain' = Idle
    BY <1>4 DEF ReplicaCrash, writerVars
  <2>2. DOMAIN drain'.outcomes = {} /\ Abandoned' = {}
    BY <2>1, Silent DEF Idle, Abandoned
  <2> QED BY <2>1, <2>2, OnceStutters
<1>5. ASSUME NEW k \in Rows, Direct(k)
      PROVE  OnceInv' /\ OnceStep
  <2>1. UNCHANGED <<file, seen, pruned, times, owed, late, drain>>
    BY <1>5 DEF Direct, diskVars
  <2> QED BY <2>1, OnceStutters DEF Abandoned
<1>6. CASE (\E t \in SUBSET Facts : WriterTakes(t)) \/ LateArrival \/ WriterCrash
  BY <1>6, Written, OnceWritten
<1> QED BY <1>1, <1>2, <1>3, <1>4, <1>5, <1>6, OnceEnqueue, OnceAnswered, OncePrune DEF Next

(* A metering call made at a replica is performed by the writer once, and    *)
(* forgotten by the replica only afterwards: every step of the forwarder,    *)
(* with whatever torn appends, deaths, lost answers and late requests, is a  *)
(* step of ForwardOnce or leaves its state alone. It needs what the daily    *)
(* sweep of the ledger needs: nothing is offered after its id was pruned     *)
(* (OutageBound). (forward-ledger.ts `once`, replica-outbox.ts `compact`.)   *)
THEOREM PerformedOnce ==
    ASSUME OutageBound
    PROVE  Spec => MeteredOnce
<1>1. QueueInv /\ OnceInv /\ [Next]_vars => (QueueInv /\ OnceInv)' /\ [Once!Next]_(Once!vars)
  BY QueueNext, OnceNext DEF OnceStep
<1>2. Init => QueueInv /\ OnceInv /\ Once!Init
  BY QueueInit, OnceInit
<1> QED BY <1>1, <1>2, PTL DEF Spec, MeteredOnce, Once!Spec
=============================================================================
