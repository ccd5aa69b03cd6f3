------------------------ MODULE DeliveryOutboxProofs ------------------------
(***************************************************************************)
(* Proofs about DeliveryOutbox, for any items, caps, answers and faults of *)
(* the database.                                                           *)
(*                                                                         *)
(* What must not be lost is in the commands under way as much as in the    *)
(* queue's variables, so the invariant speaks of both.  JobsInv: whatever  *)
(* a command still holds of an item (its copy, the victims or the flights  *)
(* left to it) is about an item whose first write was answered; only the   *)
(* write that starts a flight writes an item in flight.  DrainInv counts   *)
(* the commands of the drain.  GuardInv: an item in flight has a watchdog, *)
(* or a command that will take it out of flight or arm one.  A watchdog's  *)
(* find counts only if the copy it was given is in flight or it will look  *)
(* at the row, which is why a read that throws breaks the invariant and    *)
(* the two theorems that need it say so.  EdgeInv: the derived view is     *)
(* accurate, or a command is under way at whose end it is refreshed.       *)
(*                                                                         *)
(* The steps fall into three kinds: an event that is no reply (TimerStep), *)
(* the reply to a read (ReadStep) and the reply to a write (WriteStep).    *)
(***************************************************************************)
EXTENDS DeliveryOutbox, FiniteSetTheorems, SequenceTheorems, WellFoundedInduction,
        TLAPS

-----------------------------------------------------------------------------
(* The commands under way                                                    *)

Elems(s) == {s[n] : n \in 1..Len(s)}
Jobs(d, w) == Elems(d) \cup Elems(w)

UnderWay == Jobs(db, waiting)

\* How many commands of a drain are among them.
Count(s) == Cardinality({n \in 1..Len(s) : s[n].then \in Steps})
Doing(d, w) == Count(d) + Count(w)
One(job) == IF job.then \in Steps THEN 1 ELSE 0

LEMMA CountIsNat ==
    ASSUME NEW s \in Seq(Job)
    PROVE  Count(s) \in Nat /\ IsFiniteSet({n \in 1..Len(s) : s[n].then \in Steps})
<1> DEFINE P == {n \in 1..Len(s) : s[n].then \in Steps}
<1>1. Len(s) \in Nat
  BY LenProperties
<1>2. IsFiniteSet(1..Len(s))
  BY <1>1, FS_Interval
<1>3. IsFiniteSet(P) /\ Cardinality(P) \in Nat
  BY <1>2, FS_Subset, FS_CardinalityType
<1> QED BY <1>3 DEF Count

LEMMA CountConcat ==
    ASSUME NEW s \in Seq(Job), NEW t \in Seq(Job)
    PROVE  Count(s \o t) = Count(s) + Count(t)
<1> DEFINE a == Len(s)
           P == {n \in 1..Len(s) : s[n].then \in Steps}
           Q == {n \in 1..Len(t) : t[n].then \in Steps}
           Q1 == {n + a : n \in Q}
           R == {n \in 1..Len(s \o t) : (s \o t)[n].then \in Steps}
           f == [n \in Q |-> n + a]
<1>1. a \in Nat /\ Len(t) \in Nat /\ Len(s \o t) = a + Len(t)
      /\ \A i \in 1..a + Len(t) : (s \o t)[i] = IF i <= a THEN s[i] ELSE t[i - a]
  BY LenProperties, ConcatProperties
<1>2. IsFiniteSet(P) /\ IsFiniteSet(Q) /\ Cardinality(P) \in Nat /\ Cardinality(Q) \in Nat
  BY CountIsNat DEF Count
<1> DEFINE b == Len(t)
           u == s \o t
<1>11. a \in Nat /\ b \in Nat /\ \A i \in 1..a + b : u[i] = IF i <= a THEN s[i] ELSE t[i - a]
  BY <1>1
<1>12. /\ P = {n \in 1..a : s[n].then \in Steps} /\ Q = {n \in 1..b : t[n].then \in Steps}
      /\ R = {n \in 1..a + b : u[n].then \in Steps}
  BY <1>1
<1> HIDE DEF a, b, u, P, Q, R
<1>3. \A n \in Q : n \in Nat /\ n >= 1
  BY <1>11, <1>12
<1>4. P \cap Q1 = {}
  BY <1>3, <1>11, <1>12
<1>5. R = P \cup Q1
  <2>1. ASSUME NEW n \in R PROVE n \in P \cup Q1
    <3>1. CASE n <= a
      BY <1>11, <1>12, <3>1
    <3>2. CASE ~(n <= a)
      <4>1. n - a \in 1..b /\ t[n - a].then \in Steps /\ n = (n - a) + a
        BY <1>11, <1>12, <3>2
      <4>2. n - a \in Q
        BY <1>12, <4>1
      <4> QED BY <4>1, <4>2
    <3> QED BY <3>1, <3>2
  <2>2. ASSUME NEW n \in P PROVE n \in R
    BY <1>11, <1>12
  <2>3. ASSUME NEW n \in Q PROVE n + a \in R
    <3>1. n \in 1..b /\ n + a \in 1..a + b /\ ~(n + a <= a) /\ (n + a) - a = n
      BY <1>11, <1>12
    <3>2. t[n].then \in Steps
      BY <1>12
    <3>3. u[n + a] = t[n]
      BY <1>11, <3>1
    <3> QED BY <1>12, <3>1, <3>2, <3>3
  <2> QED BY <2>1, <2>2, <2>3
<1>6. ExistsBijection(Q, Q1)
  <2>1. f \in Bijection(Q, Q1)
    BY <1>3, <1>11 DEF Bijection, Injection, IsInjective, Surjection
  <2> QED BY <2>1 DEF ExistsBijection
<1>7. IsFiniteSet(Q1) /\ Cardinality(Q1) = Cardinality(Q)
  BY <1>2, <1>6, FS_Bijection
<1>8. Cardinality(R) = Cardinality(P) + Cardinality(Q1) - Cardinality(P \cap Q1)
  <2> HIDE DEF Q1
  <2> QED BY <1>2, <1>5, <1>7, FS_Union
<1>9. Cardinality(P \cap Q1) = 0
  BY <1>4, FS_EmptySet
<1>10. Count(s \o t) = Cardinality(R) /\ Count(s) = Cardinality(P) /\ Count(t) = Cardinality(Q)
  BY DEF Count, P, Q, R
<1> HIDE DEF Q1
<1> QED BY <1>2, <1>7, <1>8, <1>9, <1>10

LEMMA CountOne ==
    ASSUME NEW job \in Job
    PROVE  <<job>> \in Seq(Job) /\ Elems(<<job>>) = {job} /\ Count(<<job>>) = One(job)
<1>1. <<job>> \in Seq(Job) /\ Len(<<job>>) = 1 /\ <<job>>[1] = job
  OBVIOUS
<1> DEFINE P == {n \in 1..Len(<<job>>) : <<job>>[n].then \in Steps}
<1>2. Elems(<<job>>) = {job}
  BY <1>1 DEF Elems
<1>3. CASE job.then \in Steps
  <2>1. P = {1}
    BY <1>1, <1>3
  <2>2. Cardinality(P) = 1
    BY <2>1, FS_Singleton
  <2> QED BY <1>1, <1>2, <1>3, <2>2 DEF Count, One
<1>4. CASE job.then \notin Steps
  <2>1. P = {}
    BY <1>1, <1>4
  <2>2. Cardinality(P) = 0
    BY <2>1, FS_EmptySet
  <2> QED BY <1>1, <1>2, <1>4, <2>2 DEF Count, One
<1> QED BY <1>3, <1>4

LEMMA ElemsConcat ==
    ASSUME NEW s \in Seq(Job), NEW t \in Seq(Job)
    PROVE  s \o t \in Seq(Job) /\ Elems(s \o t) = Elems(s) \cup Elems(t)
<1> DEFINE a == Len(s)
           b == Len(t)
           u == s \o t
<1>1. /\ a \in Nat /\ b \in Nat /\ u \in Seq(Job) /\ Len(u) = a + b
      /\ \A i \in 1..a + b : u[i] = IF i <= a THEN s[i] ELSE t[i - a]
  BY LenProperties, ConcatProperties
<1>2. /\ Elems(u) = {u[n] : n \in 1..a + b} /\ Elems(s) = {s[n] : n \in 1..a}
      /\ Elems(t) = {t[n] : n \in 1..b}
  BY <1>1 DEF Elems
<1> HIDE DEF a, b, u
<1>3. \A i \in 1..a : u[i] = s[i] /\ i \in 1..a + b
  BY <1>1
<1>4. \A i \in 1..b : u[i + a] = t[i] /\ i + a \in 1..a + b
  <2> TAKE i \in 1..b
  <2>1. i + a \in 1..a + b /\ ~(i + a <= a) /\ (i + a) - a = i
    BY <1>1
  <2> QED BY <1>1, <2>1
<1>5. ASSUME NEW i \in 1..a + b
      PROVE  u[i] \in {s[n] : n \in 1..a} \cup {t[n] : n \in 1..b}
  <2>1. CASE i <= a
    <3>1. i \in 1..a
      BY <1>1, <2>1
    <3> QED BY <1>3, <3>1
  <2>2. CASE ~(i <= a)
    <3>1. i - a \in 1..b /\ (i - a) + a = i
      BY <1>1, <2>2
    <3> QED BY <1>4, <3>1
  <2> QED BY <2>1, <2>2
<1>6. Elems(s) \subseteq Elems(u) /\ Elems(t) \subseteq Elems(u)
  BY <1>2, <1>3, <1>4
<1>7. Elems(u) \subseteq Elems(s) \cup Elems(t)
  BY <1>2, <1>5
<1> QED BY <1>1, <1>6, <1>7 DEF u

\* The queue with a command more, and with its head answered.
Adds(d, w, job) ==
    /\ db' \in Seq(Job) /\ waiting' \in Seq(Job)
    /\ UnderWay' = Jobs(d, w) \cup {job}
    /\ Doing(db', waiting') = Doing(d, w) + One(job)

LEMMA Handed ==
    ASSUME NEW d \in Seq(Job), NEW w \in Seq(Job), NEW job \in Job, Hand(d, w, job)
    PROVE  Adds(d, w, job)
<1> DEFINE one == <<job>>
<1>1. one \in Seq(Job) /\ Elems(one) = {job} /\ Count(one) = One(job)
  BY CountOne
<1>2. Count(d) \in Nat /\ Count(w) \in Nat /\ One(job) \in Nat
  BY CountIsNat DEF One
<1>3. Append(d, job) = d \o one /\ Append(w, job) = w \o one
  BY AppendIsConcat
<1>4. \/ db' = one \o d /\ waiting' = w
      \/ db' = d /\ waiting' = w \o one
      \/ db' = d \o one /\ waiting' = w
  BY <1>3 DEF Hand
<1> HIDE DEF one
<1>5. UnderWay' = Elems(db') \cup Elems(waiting')
  BY DEF UnderWay, Jobs
<1>6. CASE db' = one \o d /\ waiting' = w
  <2>1. /\ db' \in Seq(Job) /\ Elems(db') = {job} \cup Elems(d)
        /\ Count(db') = One(job) + Count(d)
    BY <1>1, <1>6, ElemsConcat, CountConcat
  <2> QED BY <1>2, <1>5, <1>6, <2>1 DEF Adds, Jobs, Doing
<1>7. CASE db' = d /\ waiting' = w \o one
  <2>1. /\ waiting' \in Seq(Job) /\ Elems(waiting') = Elems(w) \cup {job}
        /\ Count(waiting') = Count(w) + One(job)
    BY <1>1, <1>7, ElemsConcat, CountConcat
  <2> QED BY <1>2, <1>5, <1>7, <2>1 DEF Adds, Jobs, Doing
<1>8. CASE db' = d \o one /\ waiting' = w
  <2>1. /\ db' \in Seq(Job) /\ Elems(db') = Elems(d) \cup {job}
        /\ Count(db') = Count(d) + One(job)
    BY <1>1, <1>8, ElemsConcat, CountConcat
  <2> QED BY <1>2, <1>5, <1>8, <2>1 DEF Adds, Jobs, Doing
<1> QED BY <1>4, <1>6, <1>7, <1>8

LEMMA Behead ==
    ASSUME NEW s \in Seq(Job), s # <<>>
    PROVE  /\ Head(s) \in Job /\ Tail(s) \in Seq(Job)
           /\ Elems(s) = {Head(s)} \cup Elems(Tail(s))
           /\ Count(s) = One(Head(s)) + Count(Tail(s))
<1> DEFINE h == Head(s)
           t == Tail(s)
           one == <<h>>
<1>1. /\ h \in Job /\ t \in Seq(Job) /\ Len(t) = Len(s) - 1 /\ Len(s) \in Nat /\ h = s[1]
      /\ \A i \in 1..Len(t) : t[i] = s[i + 1]
  BY HeadTailProperties, LenProperties
<1>2. /\ one \in Seq(Job) /\ Len(one) = 1 /\ one[1] = h
      /\ Elems(one) = {h} /\ Count(one) = One(h)
  BY <1>1, CountOne
<1> HIDE DEF h, t, one
<1>3. one \o t = s
  <2> DEFINE u == one \o t
  <2>1. /\ u \in Seq(Job) /\ Len(u) = Len(one) + Len(t)
        /\ \A i \in 1..Len(one) + Len(t) : u[i] = IF i <= Len(one) THEN one[i] ELSE t[i - Len(one)]
    <3>1. one \in Seq(Job) /\ t \in Seq(Job)
      BY <1>1, <1>2
    <3> QED BY <3>1, ConcatProperties, ZenonT(60)
  <2> HIDE DEF u
  <2>2. Len(u) = Len(s)
    BY <1>1, <1>2, <2>1
  <2>3. ASSUME NEW i \in 1..Len(s) PROVE u[i] = s[i]
    <3>1. CASE i = 1
      BY <1>1, <1>2, <2>1, <3>1
    <3>2. CASE i # 1
      <4>1. i - 1 \in 1..Len(t) /\ ~(i <= 1) /\ (i - 1) + 1 = i /\ i \in 1..1 + Len(t)
        BY <1>1, <3>2
      <4> QED BY <1>1, <1>2, <2>1, <4>1
    <3> QED BY <3>1, <3>2
  <2>4. u = s
    BY <2>1, <2>2, <2>3, SeqEqual
  <2> QED BY <2>4 DEF u
<1>4. Elems(s) = {h} \cup Elems(t)
  BY <1>1, <1>2, <1>3, ElemsConcat
<1>5. Count(s) = One(h) + Count(t)
  BY <1>1, <1>2, <1>3, CountConcat
<1> QED BY <1>1, <1>4, <1>5 DEF h, t

LEMMA Headed ==
    ASSUME db \in Seq(Job), waiting \in Seq(Job), db # <<>>
    PROVE  /\ Left \in Seq(Job) /\ Kept \in Seq(Job) /\ Head(db) \in Job
           /\ UnderWay = Jobs(Left, Kept) \cup {Head(db)}
           /\ Doing(Left, Kept) = Doing(db, waiting) - One(Head(db))
           /\ Doing(Left, Kept) \in Nat
<1> DEFINE t == Tail(db)
<1>1. /\ Head(db) \in Job /\ t \in Seq(Job) /\ Elems(db) = {Head(db)} \cup Elems(t)
      /\ Count(db) = One(Head(db)) + Count(t)
  BY Behead
<1>2. Count(t) \in Nat /\ Count(waiting) \in Nat /\ One(Head(db)) \in Nat
  BY <1>1, CountIsNat DEF One
<1>3. CASE ~LetsIn
  <2>1. Left = t /\ Kept = waiting
    BY <1>3 DEF Left, Kept
  <2> HIDE DEF t
  <2> QED BY <1>1, <1>2, <2>1 DEF UnderWay, Jobs, Doing
<1>4. CASE LetsIn
  <2> DEFINE v == Head(waiting)
             x == Tail(waiting)
             one == <<v>>
  <2>1. waiting # <<>>
    BY <1>4 DEF LetsIn
  <2>2. /\ v \in Job /\ x \in Seq(Job) /\ Elems(waiting) = {v} \cup Elems(x)
        /\ Count(waiting) = One(v) + Count(x)
    BY <2>1, Behead
  <2>3. one \in Seq(Job) /\ Elems(one) = {v} /\ Count(one) = One(v)
    BY <2>2, CountOne
  <2>4. Left = t \o one /\ Kept = x
    BY <1>1, <1>4, <2>2, AppendIsConcat DEF Left, Kept
  <2> HIDE DEF v, x, one, t
  <2>5. /\ Left \in Seq(Job) /\ Elems(Left) = Elems(t) \cup {v}
        /\ Count(Left) = Count(t) + One(v)
    BY <1>1, <2>3, <2>4, ElemsConcat, CountConcat
  <2>6. Count(x) \in Nat /\ One(v) \in Nat
    BY <2>2, CountIsNat DEF One
  <2> QED BY <1>1, <1>2, <2>2, <2>4, <2>5, <2>6, SMTT(30) DEF UnderWay, Jobs, Doing
<1> QED BY <1>3, <1>4
-----------------------------------------------------------------------------
(* The invariant                                                             *)

Passes == [stage : {"idle", "busy", "linking"}, todo : SUBSET Items, users : SUBSET Items,
           only : Items \cup {Nobody}]

\* Items with a row on disk, or whose first write the database refused.
Safe == {i \in Items : store[i].state # "absent" \/ i \in unstored}

Shaped(job) ==
    /\ job \in Job
    /\ job.then \in Writes \cup Finds => job.id \in Items
    /\ job.then \in {"capacity", "admitted", "overflow"} => job.for \in Items
    /\ job.then \in Writes => job.item.state # "absent"
    /\ job.then \in Writes \ {"flip"} => job.item.state # "inflight"

\* Whatever a command still has in hand is safe.
Backed(job, safe) ==
    /\ job.then # "enqueue" /\ job.item.state # "absent" => job.id \in safe
    /\ job.then \in {"capacity", "admitted", "overflow"} => job.for \in safe
    /\ \A i \in Items : job.rest[i].state # "absent" => i \in safe

Good(job, safe) == Shaped(job) /\ Backed(job, safe)

JobsInv == \A job \in UnderWay : Good(job, Safe)

SafeInv == reached \subseteq Safe /\ \A i \in Items : shadow[i].state # "absent" => i \in Safe

DrainInv == PressesFollowed /\ Doing(db, waiting) = IF pass.stage = "busy" THEN 1 ELSE 0

QueueInv == TypeOK /\ JobsInv /\ SafeInv /\ DrainInv

\* The commands that end i's flight. A watchdog's find does so if what it was given, or
\* the row it will read, is in flight.
Guards(job, i) ==
    \/ job.then = "boot"
    \/ job.then \in Writes /\ job.id = i
    \/ job.then = "revive" /\ job.rest[i].state # "absent"
    \/ /\ job.then = "find_watchdog" /\ job.id = i
       /\ \/ job.item.state = "inflight"
          \/ job.item.state = "absent" /\ shadow[i].state = "absent"

GuardInv ==
    \A i \in Items : up /\ Current(i).state = "inflight" =>
        i \in watchdogs \/ \E job \in UnderWay : Guards(job, i)

\* The commands that a refresh of the derived view ends, or that are followed by another.
Chain == Writes \cup {"capacity", "admitted", "refresh", "pass_end", "find_attempt", "booted"}

Accurate == owed <=> \E i \in Items : Pending(Current(i))

EdgeInv ==
    /\ known => up
    /\ known => Accurate \/ \E job \in UnderWay : job.then \in Chain

Inv == QueueInv /\ (~ReadsMayFail => GuardInv /\ EdgeInv)
-----------------------------------------------------------------------------
(* The commands that are handed over are good                                *)

LEMMA TypeFacts ==
    ASSUME TypeOK
    PROVE  /\ up \in BOOLEAN /\ known \in BOOLEAN /\ owed \in BOOLEAN
           /\ link \in {"down", "rising", "up"}
           /\ store \in [Items -> Item] /\ shadow \in [Items -> Item]
           /\ db \in Seq(Job) /\ waiting \in Seq(Job) /\ pass \in Passes /\ presses \subseteq Items
           /\ watchdogs \subseteq Items /\ retries \subseteq Items /\ holdOut \subseteq Items
           /\ old \subseteq Items /\ born \subseteq Items
           /\ air \in [Items -> 0..MaxFrames] /\ crashes \in 0..MaxCrashes
           /\ reached \subseteq Items /\ unstored \subseteq Items
<1>1. up \in BOOLEAN /\ known \in BOOLEAN /\ owed \in BOOLEAN
  BY DEF TypeOK
<1> QED BY <1>1 DEF TypeOK, Passes

LEMMA ItemFacts ==
    /\ Absent \in Item /\ Absent.state = "absent"
    /\ NoCopies \in [Items -> Item] /\ \A i \in Items : NoCopies[i].state = "absent"
    /\ Nobody \notin Items
<1>1. Absent \in Item /\ Absent.state = "absent"
  BY OutboxAssumption DEF Absent, Item, States
<1> QED BY <1>1, ItemsAssumption DEF NoCopies, Nobody

LEMMA CommandFields ==
    ASSUME NEW then \in Writes \cup Finds \cup Loads, NEW i \in Items \cup {Nobody}, NEW item \in Item,
           NEW for \in Items \cup {Nobody}, NEW note \in Notes, NEW rest \in [Items -> Item]
    PROVE  LET job == Command(then, i, item, for, note, rest)
           IN  /\ job \in Job /\ job.then = then /\ job.id = i /\ job.item = item /\ job.for = for
               /\ job.note = note /\ job.rest = rest
BY DEF Command, Job

LEMMA LoadGood ==
    ASSUME NEW then \in Loads, NEW for \in Items \cup {Nobody}, NEW note \in Notes, NEW safe \in SUBSET Items,
           then \in {"capacity", "admitted"} => for \in safe
    PROVE  LET job == Load(then, for, note)
           IN  Good(job, safe) /\ job.then = then /\ job \in Job
<1> DEFINE job == Load(then, for, note)
<1>1. /\ job \in Job /\ job.then = then /\ job.item = Absent /\ job.for = for /\ job.rest = NoCopies
  BY ItemFacts, CommandFields DEF Load
<1> HIDE DEF job
<1>2. then \notin Writes \cup Finds /\ then # "overflow"
  BY DEF Loads, Writes, Finds
<1>3. then \in {"capacity", "admitted"} => for \in Items
  OBVIOUS
<1>4. Shaped(job)
  BY <1>1, <1>2, <1>3 DEF Shaped, Writes
<1>5. Backed(job, safe)
  BY <1>1, <1>2, ItemFacts DEF Backed
<1> QED BY <1>1, <1>4, <1>5 DEF Good, job

LEMMA FindGood ==
    ASSUME QueueInv, NEW then \in Finds, NEW i \in Items, NEW note \in Notes
    PROVE  LET job == Find(then, i, note)
           IN  /\ Good(job, Safe) /\ job \in Job /\ job.then = then /\ job.id = i /\ job.item = shadow[i]
               /\ job.note = note
<1> DEFINE job == Find(then, i, note)
<1>1. shadow[i] \in Item
  BY TypeFacts DEF QueueInv
<1>2. /\ job \in Job /\ job.then = then /\ job.id = i /\ job.item = shadow[i] /\ job.for = Nobody
      /\ job.note = note /\ job.rest = NoCopies
  BY <1>1, ItemFacts, CommandFields DEF Find
<1> HIDE DEF job
<1>3. then \notin Writes /\ then \notin {"capacity", "admitted", "overflow"}
  BY DEF Writes, Finds
<1>4. Shaped(job) /\ Backed(job, Safe)
  BY <1>2, <1>3, ItemFacts DEF Shaped, Backed, QueueInv, SafeInv, Writes
<1> QED BY <1>2, <1>4 DEF Good, job

LEMMA CommandGood ==
    ASSUME NEW then \in Writes, NEW i \in Items, NEW item \in Item, NEW for \in Items \cup {Nobody},
           NEW note \in Notes, NEW rest \in [Items -> Item], NEW safe \in SUBSET Items,
           item.state # "absent", then # "flip" => item.state # "inflight",
           then # "enqueue" => i \in safe, then = "overflow" => for \in safe,
           \A j \in Items : rest[j].state # "absent" => j \in safe
    PROVE  LET job == Command(then, i, item, for, note, rest)
           IN  /\ Good(job, safe) /\ job \in Job /\ job.then = then /\ job.id = i /\ job.item = item
               /\ job.for = for /\ job.note = note /\ job.rest = rest
<1> DEFINE job == Command(then, i, item, for, note, rest)
<1>0. then \in Writes \cup Finds \cup Loads /\ i \in Items \cup {Nobody}
  OBVIOUS
<1>1. /\ job \in Job /\ job.then = then /\ job.id = i /\ job.item = item /\ job.for = for
      /\ job.note = note /\ job.rest = rest
  BY <1>0 DEF Command, Job
<1> HIDE DEF job
<1>2. then \notin {"capacity", "admitted"}
  BY DEF Writes
<1>3. Shaped(job) /\ Backed(job, safe)
  BY <1>1, <1>2 DEF Shaped, Backed
<1> QED BY <1>1, <1>3 DEF Good, job

LEMMA WriteGood ==
    ASSUME NEW then \in Writes \ {"overflow"}, NEW i \in Items, NEW item \in Item, NEW note \in Notes,
           NEW safe \in SUBSET Items,
           item.state # "absent", then # "flip" => item.state # "inflight",
           then # "enqueue" => i \in safe
    PROVE  LET job == Write(then, i, item, note)
           IN  /\ Good(job, safe) /\ job \in Job /\ job.then = then /\ job.id = i /\ job.item = item
               /\ job.note = note /\ job.rest = NoCopies
BY ItemFacts, CommandGood DEF Write
-----------------------------------------------------------------------------
(* The queue after a step                                                    *)

Queued(d, w) ==
    /\ db' \in Seq(Job) /\ waiting' \in Seq(Job) /\ pass' \in Passes /\ presses' \in SUBSET Items
    /\ Jobs(d, w) \subseteq UnderWay'
    /\ \A job \in UnderWay' \ Jobs(d, w) : Good(job, Safe) \/ Good(job, Safe')
    /\ DrainInv'

LEMMA HandQueued ==
    ASSUME QueueInv, NEW d \in Seq(Job), NEW w \in Seq(Job), NEW job \in Job, Hand(d, w, job),
           Doing(d, w) + One(job) = Doing(db, waiting),
           Good(job, Safe) \/ Good(job, Safe'), UNCHANGED <<pass, presses>>
    PROVE  Queued(d, w) /\ UnderWay' = Jobs(d, w) \cup {job}
<1>1. Adds(d, w, job)
  BY Handed
<1>2. pass' \in Passes /\ presses' \in SUBSET Items
  BY TypeFacts DEF QueueInv
<1>3. DrainInv'
  BY <1>1 DEF QueueInv, DrainInv, PressesFollowed, Draining, Adds
<1> QED BY <1>1, <1>2, <1>3 DEF Adds, Queued

LEMMA KeepQueued ==
    ASSUME QueueInv, NEW d \in Seq(Job), NEW w \in Seq(Job), db' = d, waiting' = w,
           Doing(d, w) = Doing(db, waiting), UNCHANGED <<pass, presses>>
    PROVE  Queued(d, w) /\ UnderWay' = Jobs(d, w)
<1>1. pass' \in Passes /\ presses' \in SUBSET Items /\ UnderWay' = Jobs(d, w)
  BY TypeFacts DEF QueueInv, UnderWay
<1>2. DrainInv'
  BY DEF QueueInv, DrainInv, PressesFollowed, Draining
<1> QED BY <1>1, <1>2 DEF Queued

LEMMA Listing ==
    ASSUME QueueInv, NEW d \in Seq(Job), NEW w \in Seq(Job), Doing(d, w) = 0,
           Hand(d, w, Load("list", Nobody, "none")), pass'.stage = "busy"
    PROVE  /\ db' \in Seq(Job) /\ waiting' \in Seq(Job) /\ Jobs(d, w) \subseteq UnderWay'
           /\ \A job \in UnderWay' \ Jobs(d, w) : Good(job, Safe)
           /\ DrainInv'
<1> DEFINE job == Load("list", Nobody, "none")
<1>1. Good(job, Safe) /\ job.then = "list" /\ job \in Job
  <2>1. "list" \in Loads /\ "none" \in Notes /\ Safe \in SUBSET Items
    BY DEF Loads, Notes, Safe
  <2> QED BY <2>1, LoadGood
<1> HIDE DEF job
<1>2. Adds(d, w, job)
  BY <1>1, Handed DEF job
<1>3. One(job) = 1
  BY <1>1 DEF One, Steps
<1> QED BY <1>1, <1>2, <1>3 DEF Adds, DrainInv, PressesFollowed, Draining

LEMMA EndPassQueued ==
    ASSUME QueueInv, NEW d \in Seq(Job), NEW w \in Seq(Job), Doing(d, w) = 0, EndPass(d, w)
    PROVE  Queued(d, w)
<1>1. presses \subseteq Items
  BY TypeFacts DEF QueueInv
<1>2. CASE presses = {}
  BY <1>2 DEF EndPass, NoPass, Queued, Passes, DrainInv, PressesFollowed, Draining, UnderWay
<1>3. CASE presses # {}
  <2>1. /\ pass' = PassOver(presses, Nobody) /\ presses' = {}
        /\ Hand(d, w, Load("list", Nobody, "none"))
    BY <1>3 DEF EndPass
  <2>2. pass' \in Passes /\ pass'.stage = "busy"
    BY <1>1, <2>1 DEF PassOver, Passes
  <2> QED BY <2>1, <2>2, Listing DEF Queued
<1> QED BY <1>2, <1>3

LEMMA DrainQueued ==
    ASSUME QueueInv, NEW d \in Seq(Job), NEW w \in Seq(Job), Doing(d, w) = Doing(db, waiting),
           NEW users \in SUBSET Items, NEW only \in Items \cup {Nobody}, Drain(d, w, users, only)
    PROVE  Queued(d, w)
<1>1. presses \subseteq Items /\ pass \in Passes
  BY TypeFacts DEF QueueInv
<1>2. CASE Draining
  BY <1>1, <1>2 DEF Drain, Draining, Queued, DrainInv, PressesFollowed, UnderWay, QueueInv
<1>3. CASE ~Draining
  <2>1. /\ presses' = presses /\ pass' = PassOver(users, only)
        /\ Hand(d, w, Load("list", Nobody, "none"))
    BY <1>3 DEF Drain
  <2>2. pass' \in Passes /\ pass'.stage = "busy"
    BY <2>1 DEF PassOver, Passes
  <2>3. Doing(d, w) = 0
    BY <1>3 DEF QueueInv, DrainInv, Draining
  <2> QED BY <1>1, <2>1, <2>2, <2>3, Listing DEF Queued
<1> QED BY <1>2, <1>3

LEMMA LeastNat ==
    ASSUME NEW S \in SUBSET Nat, S # {}
    PROVE  \E m \in S : \A k \in S : m <= k
<1>1. PICK m \in S : \A k \in S : <<k, m>> \notin OpToRel(<, Nat)
  BY NatLessThanWellFounded, WFMin
<1>2. \A k \in S : ~(k < m)
  BY <1>1 DEF OpToRel
<1> QED BY <1>2

LEMMA OldestIn ==
    ASSUME NEW S \in SUBSET Items, S # {}
    PROVE  Oldest(S) \in S
<1>1. \E i \in S : \A j \in S : i <= j
  BY ItemsAssumption, LeastNat
<1> QED BY <1>1 DEF Oldest

LEMMA LoopQueued ==
    ASSUME QueueInv, NEW d \in Seq(Job), NEW w \in Seq(Job), Doing(d, w) = 0, Loop(d, w)
    PROVE  Queued(d, w) /\ \E job \in UnderWay' : job.then \in {"pass_end", "find_attempt"}
<1>1. pass \in Passes /\ presses \in SUBSET Items
  BY TypeFacts DEF QueueInv
<1>2. ASSUME NEW job \in Job, Hand(d, w, job), Good(job, Safe), job.then \in {"pass_end", "find_attempt"},
             pass' \in Passes, pass'.stage = "busy"
      PROVE  Queued(d, w) /\ \E j \in UnderWay' : j.then \in {"pass_end", "find_attempt"}
  <2>1. Adds(d, w, job) /\ One(job) = 1
    BY <1>2, Handed DEF One, Steps
  <2>2. presses' = presses
    BY DEF Loop
  <2>3. DrainInv'
    BY <1>2, <2>1 DEF Adds, DrainInv, PressesFollowed, Draining
  <2> QED BY <1>1, <1>2, <2>1, <2>2, <2>3 DEF Adds, Queued
<1>3. CASE pass.todo = {}
  <2> DEFINE job == Load("pass_end", Nobody, "none")
  <2>1. pass' = [pass EXCEPT !.stage = "busy"] /\ Hand(d, w, job)
    BY <1>3 DEF Loop
  <2>2. "pass_end" \in Loads /\ "none" \in Notes /\ Safe \in SUBSET Items
    BY DEF Loads, Notes, Safe
  <2>3. Good(job, Safe) /\ job \in Job /\ job.then = "pass_end"
    BY <2>2, LoadGood
  <2>4. pass' \in Passes /\ pass'.stage = "busy"
    BY <1>1, <2>1 DEF Passes
  <2> HIDE DEF job
  <2> QED BY <1>2, <2>1, <2>3, <2>4
<1>4. CASE pass.todo # {}
  <2> DEFINE i == Oldest(pass.todo)
             job == Find("find_attempt", i, "none")
  <2>1. pass' = [pass EXCEPT !.stage = "busy", !.todo = @ \ {i}] /\ Hand(d, w, job)
    BY <1>4 DEF Loop
  <2>2. pass.todo \in SUBSET Items
    BY <1>1 DEF Passes
  <2>3. i \in Items
    BY <1>4, <2>2, OldestIn
  <2>4. pass' \in Passes /\ pass'.stage = "busy"
    <3> HIDE DEF i
    <3> QED BY <1>1, <2>1 DEF Passes
  <2>5. "find_attempt" \in Finds /\ "none" \in Notes
    BY DEF Finds, Notes
  <2> HIDE DEF i
  <2>6. Good(job, Safe) /\ job \in Job /\ job.then = "find_attempt"
    BY <2>3, <2>5, FindGood
  <2> HIDE DEF job
  <2> QED BY <1>2, <2>1, <2>4, <2>6
<1> QED BY <1>3, <1>4
-----------------------------------------------------------------------------
(* Three kinds of step                                                       *)

OtherTypes ==
    /\ up \in BOOLEAN /\ known \in BOOLEAN /\ owed \in BOOLEAN /\ link \in {"down", "rising", "up"}
    /\ watchdogs \subseteq Items /\ retries \subseteq Items /\ holdOut \subseteq Items
    /\ old \subseteq Items /\ born \subseteq Items
    /\ air \in [Items -> 0..MaxFrames] /\ crashes \in 0..MaxCrashes /\ unstored \subseteq Items

LEMMA GoodMore ==
    ASSUME NEW job, NEW s \in SUBSET Items, NEW t \in SUBSET Items, s \subseteq t, Good(job, s)
    PROVE  Good(job, t)
BY DEF Good, Backed

LEMMA QueueStep ==
    ASSUME QueueInv, NEW d, NEW w, Queued(d, w), Jobs(d, w) \subseteq UnderWay, OtherTypes',
           store' \in [Items -> Item], shadow' \in [Items -> Item], Safe \subseteq Safe', SafeInv'
    PROVE  QueueInv'
<1>1. TypeOK'
  <2>1. reached' \subseteq Items /\ presses' \subseteq Items
    BY DEF SafeInv, Safe, Queued
  <2>2. /\ {up', known', owed'} \subseteq BOOLEAN
        /\ {watchdogs', retries', holdOut', old', born'} \subseteq SUBSET Items
        /\ {reached', unstored'} \subseteq SUBSET Items
    BY <2>1 DEF OtherTypes
  <2> QED BY <2>1, <2>2 DEF TypeOK, OtherTypes, Queued, Passes
<1>2. JobsInv'
  <2>1. Safe \in SUBSET Items /\ Safe' \in SUBSET Items
    BY DEF Safe
  <2>2. \A job \in UnderWay : Good(job, Safe)
    BY DEF QueueInv, JobsInv
  <2>3. \A job \in UnderWay' : Good(job, Safe')
    BY <2>1, <2>2, GoodMore DEF Queued
  <2> QED BY <2>3 DEF JobsInv
<1> QED BY <1>1, <1>2 DEF QueueInv, Queued

\* Where no command is answered, and nothing is written.
LEMMA TimerStep ==
    ASSUME Inv, Queued(db, waiting), UNCHANGED <<up, store, shadow, known, owed, reached, unstored>>,
           OtherTypes',
           \A i \in watchdogs \ watchdogs' :
               Current(i).state = "inflight" => \E job \in UnderWay' : Guards(job, i)
    PROVE  Inv'
<1>1. UnderWay \subseteq UnderWay'
  BY DEF Queued, UnderWay
<1>2. QueueInv'
  <2>1. /\ store' \in [Items -> Item] /\ shadow' \in [Items -> Item] /\ Safe' = Safe
        /\ SafeInv'
    BY TypeFacts DEF Inv, QueueInv, Safe, SafeInv
  <2> QED BY <2>1, QueueStep DEF Inv, UnderWay
<1>3. ASSUME ~ReadsMayFail PROVE EdgeInv'
  BY <1>1, <1>3 DEF Inv, EdgeInv, Accurate, Current
<1>4. ASSUME ~ReadsMayFail PROVE GuardInv'
  <2>1. \A i \in Items : Current(i)' = Current(i)
    BY DEF Current
  <2>2. \A i \in Items, job \in UnderWay' : Guards(job, i) => Guards(job, i)'
    BY DEF Guards
  <2>3. ASSUME NEW i \in Items, up, Current(i).state = "inflight"
        PROVE  i \in watchdogs' \/ \E job \in UnderWay' : Guards(job, i)
    <3>1. i \in watchdogs \/ \E job \in UnderWay : Guards(job, i)
      BY <1>4, <2>3 DEF Inv, GuardInv
    <3> QED BY <1>1, <2>3, <3>1
  <2> QED BY <2>1, <2>2, <2>3 DEF GuardInv
<1> QED BY <1>2, <1>3, <1>4 DEF Inv

LEMMA EventStep ==
    ASSUME Inv, Queued(db, waiting), UNCHANGED <<up, store, shadow, known, owed, reached, unstored>>,
           OtherTypes', watchdogs \subseteq watchdogs'
    PROVE  Inv'
<1>1. \A i \in watchdogs \ watchdogs' :
          Current(i).state = "inflight" => \E job \in UnderWay' : Guards(job, i)
  OBVIOUS
<1> QED BY <1>1, TimerStep

LEMMA RefreshTrue ==
    ASSUME QueueInv, ~ReadsMayFail, Refresh, UNCHANGED <<store, shadow>>
    PROVE  Accurate'
<1>1. owed' = (In(Merged(TRUE)) # {})
  BY DEF Refresh, Readable
<1>2. \A i \in Items : Current(i)' = Current(i)
  BY DEF Current
<1>3. \A i \in Items : i \in In(Merged(TRUE)) <=> Pending(Current(i))
  BY ItemFacts DEF In, Merged, Current, Pending
<1>4. In(Merged(TRUE)) \subseteq Items
  BY DEF In
<1>5. owed' <=> \E i \in Items : Pending(Current(i))
  BY <1>1, <1>3, <1>4
<1> QED BY <1>2, <1>5 DEF Accurate, Pending

LEMMA HeadFacts ==
    ASSUME QueueInv, db # <<>>
    PROVE  /\ Left \in Seq(Job) /\ Kept \in Seq(Job)
           /\ Head(db) \in Job /\ Good(Head(db), Safe) /\ Shaped(Head(db)) /\ Backed(Head(db), Safe)
           /\ UnderWay = Jobs(Left, Kept) \cup {Head(db)}
           /\ Head(db).then \in Steps => Doing(Left, Kept) = 0 /\ Doing(db, waiting) = 1
           /\ Head(db).then \notin Steps => Doing(Left, Kept) = Doing(db, waiting)
<1>1. /\ Left \in Seq(Job) /\ Kept \in Seq(Job) /\ Head(db) \in Job
      /\ UnderWay = Jobs(Left, Kept) \cup {Head(db)}
      /\ Doing(Left, Kept) = Doing(db, waiting) - One(Head(db)) /\ Doing(Left, Kept) \in Nat
  BY TypeFacts, Headed DEF QueueInv
<1>2. Good(Head(db), Safe)
  BY <1>1 DEF QueueInv, JobsInv
<1>3. Doing(db, waiting) = 0 \/ Doing(db, waiting) = 1
  BY DEF QueueInv, DrainInv
<1>4. One(Head(db)) = IF Head(db).then \in Steps THEN 1 ELSE 0
  BY DEF One
<1>5. Head(db).then \in Steps => Doing(Left, Kept) = 0 /\ Doing(db, waiting) = 1
  BY <1>1, <1>3, <1>4
<1>6. Head(db).then \notin Steps => Doing(Left, Kept) = Doing(db, waiting)
  BY <1>1, <1>3, <1>4
<1> QED BY <1>1, <1>2, <1>5, <1>6 DEF Good

\* Whether a refresh has run is learnt from one.
Learns == UNCHANGED known \/ (up /\ Refresh)

\* Where a read is answered.
LEMMA ReadStep ==
    ASSUME Inv, db # <<>>, Queued(Left, Kept), UNCHANGED <<up, store, shadow, unstored>>,
           OtherTypes', reached' \subseteq Safe, Learns,
           ~ReadsMayFail => \A i \in Items :
               /\ up /\ Current(i).state = "inflight"
               /\ i \in watchdogs \/ Guards(Head(db), i)
               => i \in watchdogs' \/ \E job \in UnderWay' : Guards(job, i),
           \/ \E job \in UnderWay' : job.then \in Chain
           \/ owed' = owed /\ Head(db).then \notin Chain
           \/ Refresh
    PROVE  Inv'
<1>1. UnderWay = Jobs(Left, Kept) \cup {Head(db)} /\ Jobs(Left, Kept) \subseteq UnderWay'
  BY HeadFacts DEF Inv, Queued
<1>2. QueueInv'
  <2>1. /\ store' \in [Items -> Item] /\ shadow' \in [Items -> Item] /\ Safe' = Safe
        /\ SafeInv'
    BY TypeFacts DEF Inv, QueueInv, Safe, SafeInv
  <2> QED BY <1>1, <2>1, QueueStep DEF Inv
<1>3. ASSUME ~ReadsMayFail PROVE GuardInv'
  <2>1. \A i \in Items : Current(i)' = Current(i)
    BY DEF Current
  <2>2. \A i \in Items, job \in UnderWay' : Guards(job, i) => Guards(job, i)'
    BY DEF Guards
  <2>3. ASSUME NEW i \in Items, up, Current(i).state = "inflight"
        PROVE  i \in watchdogs' \/ \E job \in UnderWay' : Guards(job, i)
    <3>1. i \in watchdogs \/ \E job \in UnderWay : Guards(job, i)
      BY <1>3, <2>3 DEF Inv, GuardInv
    <3>2. CASE i \in watchdogs \/ Guards(Head(db), i)
      BY <1>3, <2>3, <3>2
    <3>3. CASE \E job \in Jobs(Left, Kept) : Guards(job, i)
      BY <1>1, <3>3
    <3> QED BY <1>1, <3>1, <3>2, <3>3
  <2> QED BY <2>1, <2>2, <2>3 DEF GuardInv
<1>4. ASSUME ~ReadsMayFail PROVE EdgeInv'
  <2> USE DEF Learns
  <2>0. known' => up'
    BY <1>4 DEF Inv, EdgeInv
  <2>1. CASE known' = known /\ \E job \in UnderWay' : job.then \in Chain
    BY <1>4, <2>0, <2>1 DEF Inv, EdgeInv
  <2>2. CASE known' = known /\ owed' = owed /\ Head(db).then \notin Chain
    BY <1>1, <1>4, <2>0, <2>2 DEF Inv, EdgeInv, Accurate, Current
  <2>3. CASE Refresh
    BY <1>4, <2>0, <2>3, RefreshTrue DEF Inv, EdgeInv
  <2> QED BY <2>1, <2>2, <2>3
<1> QED BY <1>2, <1>3, <1>4 DEF Inv

\* ... that guards no flight.
LEMMA ReplyStep ==
    ASSUME Inv, db # <<>>, Queued(Left, Kept), UNCHANGED <<up, store, shadow, known, unstored>>,
           OtherTypes', reached' \subseteq Safe, watchdogs \subseteq watchdogs',
           Head(db).then \notin Writes \cup {"boot", "revive", "find_watchdog"},
           \/ \E job \in UnderWay' : job.then \in Chain
           \/ owed' = owed /\ Head(db).then \notin Chain
           \/ Refresh
    PROVE  Inv'
<1>1. \A i \in Items : ~Guards(Head(db), i)
  BY DEF Guards
<1>2. \A i \in Items :
          /\ up /\ Current(i).state = "inflight"
          /\ i \in watchdogs \/ Guards(Head(db), i)
          => i \in watchdogs' \/ \E job \in UnderWay' : Guards(job, i)
  BY <1>1
<1>3. UNCHANGED <<up, store, shadow, unstored>>
  OBVIOUS
<1>4. UNCHANGED known
  OBVIOUS
<1>5. Learns
  BY <1>4, Zenon DEF Learns
<1> QED BY <1>2, <1>3, <1>5, ReadStep

LEMMA WrittenFacts ==
    ASSUME QueueInv, db # <<>>, Head(db).then \in Writes, Written,
           unstored \subseteq unstored', unstored' \subseteq Items,
           Head(db).then = "enqueue" /\ store' = store => Head(db).id \in unstored'
    PROVE  /\ Good(Head(db), Safe) /\ Head(db).id \in Items
           /\ store' \in [Items -> Item] /\ shadow' \in [Items -> Item]
           /\ Safe \subseteq Safe' /\ Head(db).id \in Safe'
           /\ \A i \in Items : shadow'[i].state # "absent" => i \in Safe'
           /\ \A i \in Items : i = Head(db).id => Current(i)' = Head(db).item
           /\ \A i \in Items : i # Head(db).id =>
                 Current(i)' = Current(i) /\ shadow'[i] = shadow[i]
<1> DEFINE job == Head(db)
           k == job.id
<1>1. Good(job, Safe) /\ job \in Job
  BY TypeFacts, Headed DEF QueueInv, JobsInv
<1>2. k \in Items /\ job.item \in Item /\ job.item.state # "absent" /\ (job.then # "enqueue" => k \in Safe)
  BY <1>1 DEF Good, Shaped, Backed, Job
<1>3. store \in [Items -> Item] /\ shadow \in [Items -> Item] /\ unstored \subseteq Items
  BY TypeFacts DEF QueueInv
<1>4. \/ store' = [store EXCEPT ![k] = job.item] /\ shadow' = [shadow EXCEPT ![k] = Absent]
      \/ store' = store /\ shadow' = [shadow EXCEPT ![k] = job.item]
  BY DEF Written
<1> HIDE DEF job, k
<1>5. store' \in [Items -> Item] /\ shadow' \in [Items -> Item]
  BY <1>2, <1>3, <1>4, ItemFacts
<1>6. \A i \in Items : store[i].state # "absent" => store'[i].state # "absent"
  BY <1>2, <1>3, <1>4
<1>7. Safe \subseteq Safe'
  BY <1>6 DEF Safe
<1>8. k \in Safe'
  <2>1. CASE job.then # "enqueue"
    BY <1>2, <1>7, <2>1
  <2>2. CASE job.then = "enqueue" /\ store' = store
    BY <1>2, <2>2 DEF Safe, job, k
  <2>3. CASE store' # store
    <3>1. store'[k] = job.item
      BY <1>2, <1>3, <1>4, <2>3
    <3> QED BY <1>2, <3>1 DEF Safe
  <2> QED BY <2>1, <2>2, <2>3
<1>9. \A i \in Items : i # k => shadow'[i] = shadow[i] /\ store'[i] = store[i]
  BY <1>3, <1>4
<1>10. \A i \in Items : shadow'[i].state # "absent" => i \in Safe'
  BY <1>7, <1>8, <1>9 DEF QueueInv, SafeInv
<1>11. \A i \in Items : i # k => Current(i)' = Current(i)
  BY <1>9 DEF Current
<1>12. \A i \in Items : i = k => Current(i)' = job.item
  <2>1. \/ store'[k] = job.item /\ shadow'[k] = Absent
        \/ shadow'[k] = job.item
    BY <1>2, <1>3, <1>4
  <2> QED BY <1>2, <2>1, ItemFacts DEF Current
<1> QED BY <1>1, <1>2, <1>5, <1>7, <1>8, <1>9, <1>10, <1>11, <1>12 DEF job, k

\* Where a write is answered, and another command follows it.
LEMMA WriteStep ==
    ASSUME Inv, db # <<>>, Head(db).then \in Writes, Written, Queued(Left, Kept),
           UNCHANGED <<up, known, owed>>, OtherTypes', watchdogs \subseteq watchdogs',
           unstored \subseteq unstored', reached' \subseteq reached \cup {Head(db).id},
           Head(db).then = "enqueue" /\ store' = store => Head(db).id \in unstored',
           \E job \in UnderWay' : job.then \in Chain,
           Head(db).then = "flip" =>
               \/ Head(db).id \in watchdogs'
               \/ \E job \in UnderWay' : job.then \in Writes /\ job.id = Head(db).id,
           Head(db).then = "revive" =>
               \A i \in Items : Head(db).rest[i].state # "absent" =>
                   \E job \in UnderWay' : job.then = "revive" /\ (job.id = i \/ job.rest[i].state # "absent")
    PROVE  Inv'
<1> DEFINE k == Head(db).id
<1>1. UnderWay = Jobs(Left, Kept) \cup {Head(db)} /\ Jobs(Left, Kept) \subseteq UnderWay'
  BY TypeFacts, Headed DEF Inv, QueueInv, Queued
<1>2. /\ Good(Head(db), Safe) /\ k \in Items
      /\ store' \in [Items -> Item] /\ shadow' \in [Items -> Item]
      /\ Safe \subseteq Safe' /\ k \in Safe'
      /\ \A i \in Items : shadow'[i].state # "absent" => i \in Safe'
      /\ \A i \in Items : i = k => Current(i)' = Head(db).item
      /\ \A i \in Items : i # k => Current(i)' = Current(i) /\ shadow'[i] = shadow[i]
  <2>1. unstored' \subseteq Items
    BY DEF OtherTypes
  <2> QED BY <2>1, WrittenFacts DEF Inv
<1>3. QueueInv'
  <2>1. SafeInv'
    BY <1>2 DEF SafeInv, Inv, QueueInv
  <2> QED BY <1>1, <1>2, <2>1, QueueStep DEF Inv
<1>4. ASSUME ~ReadsMayFail PROVE EdgeInv'
  BY <1>4 DEF Inv, EdgeInv
<1>5. ASSUME ~ReadsMayFail PROVE GuardInv'
  <2> SUFFICES ASSUME NEW i \in Items, up', Current(i)'.state = "inflight"
               PROVE  i \in watchdogs' \/ \E job \in UnderWay' : Guards(job, i)'
    BY DEF GuardInv
  <2>1. CASE i = k
    <3>1. Head(db).item.state = "inflight"
      BY <1>2, <2>1
    <3>2. Head(db).then = "flip"
      BY <1>2, <3>1 DEF Good, Shaped
    <3> QED BY <2>1, <3>2 DEF Guards
  <2>2. CASE i # k
    <3>1. Current(i).state = "inflight" /\ up
      BY <1>2, <2>2
    <3>2. CASE i \in watchdogs
      BY <3>2
    <3>3. ASSUME NEW job \in UnderWay, Guards(job, i)
          PROVE  \E j \in UnderWay' : Guards(j, i)'
      <4>1. CASE job \in Jobs(Left, Kept)
        <5>1. Guards(job, i)'
          BY <1>2, <2>2, <3>3 DEF Guards
        <5> QED BY <1>1, <4>1, <5>1
      <4>2. CASE job = Head(db)
        <5>1. job.then = "revive" /\ job.rest[i].state # "absent"
          BY <2>2, <3>3, <4>2 DEF Guards, Writes
        <5>2. PICK j \in UnderWay' : j.then = "revive" /\ (j.id = i \/ j.rest[i].state # "absent")
          BY <4>2, <5>1
        <5>3. Guards(j, i)'
          BY <5>2 DEF Guards, Writes
        <5> QED BY <5>3
      <4> QED BY <1>1, <4>1, <4>2
    <3> QED BY <1>5, <3>1, <3>2, <3>3 DEF Inv, GuardInv
  <2> QED BY <2>1, <2>2
<1> QED BY <1>3, <1>4, <1>5 DEF Inv
-----------------------------------------------------------------------------
(* The drain                                                                 *)

LEMMA Others ==
    ASSUME Inv
    PROVE  OtherTypes /\ reached \subseteq Safe /\ unstored \subseteq Items
BY TypeFacts DEF Inv, QueueInv, OtherTypes, SafeInv

LEMMA FoundFacts ==
    ASSUME QueueInv, db # <<>>, Head(db).then \in Finds, NEW readable
    PROVE  /\ Head(db).id \in Items /\ Found(readable) \in Item
           /\ Found(readable).state # "absent" => Head(db).id \in Safe
<1>1. /\ Head(db) \in Job /\ Shaped(Head(db)) /\ Backed(Head(db), Safe)
      /\ Head(db).then # "enqueue"
  BY HeadFacts DEF Finds
<1>2. Head(db).id \in Items /\ Head(db).item \in Item
  BY <1>1 DEF Shaped, Job
<1>3. store \in [Items -> Item]
  BY TypeFacts DEF QueueInv
<1> DEFINE h == Head(db)
<1> HIDE DEF h
<1>4. h.then # "enqueue" /\ h.item.state # "absent" => h.id \in Safe
  BY <1>1 DEF Backed, h
<1>5. CASE Head(db).item.state # "absent"
  BY <1>1, <1>2, <1>4, <1>5 DEF Found, h
<1>6. CASE Head(db).item.state = "absent" /\ readable
  BY <1>2, <1>3, <1>6 DEF Found, Safe
<1>7. CASE Head(db).item.state = "absent" /\ ~readable
  BY <1>2, <1>7, ItemFacts DEF Found
<1> QED BY <1>5, <1>6, <1>7

LEMMA MergedFacts ==
    ASSUME QueueInv, NEW readable
    PROVE  /\ Merged(readable) \in [Items -> Item]
           /\ \A i \in Items : Merged(readable)[i].state # "absent" => i \in Safe
<1>1. store \in [Items -> Item] /\ shadow \in [Items -> Item]
  BY TypeFacts DEF QueueInv
<1>2. \A i \in Items : shadow[i].state # "absent" => i \in Safe
  BY DEF QueueInv, SafeInv
<1>3. \A i \in Items : store[i].state # "absent" => i \in Safe
  BY DEF Safe
<1>4. ASSUME NEW i \in Items
      PROVE  /\ Merged(readable)[i] \in Item
             /\ Merged(readable)[i].state # "absent" => i \in Safe
  <2>1. Merged(readable)[i] \in {shadow[i], store[i], Absent}
    BY DEF Merged
  <2>2. Merged(readable)[i] = shadow[i] \/ Merged(readable)[i] = store[i] \/ Merged(readable)[i] = Absent
    BY <2>1
  <2> QED BY <1>1, <1>2, <1>3, <2>2, ItemFacts
<1>5. Merged(readable) = [i \in Items |-> Merged(readable)[i]]
  BY DEF Merged
<1> QED BY <1>4, <1>5

LEMMA DoListed ==
    ASSUME Inv, Listed
    PROVE  Inv'
<1>1. /\ db # <<>> /\ Head(db).then = "list"
      /\ UNCHANGED <<up, store, shadow, known, owed, unstored, reached, watchdogs, retries, holdOut,
                     link, old, born, air, crashes>>
  BY DEF Listed, Reply, disk, clocks, view, outside, history
<1>2. Left \in Seq(Job) /\ Kept \in Seq(Job) /\ Doing(Left, Kept) = 0
  BY <1>1, HeadFacts DEF Inv, Steps
<1>3. OtherTypes'
  BY <1>1, Others DEF OtherTypes
<1>4. Queued(Left, Kept)
  <2>1. CASE EndPass(Left, Kept)
    BY <1>2, <2>1, EndPassQueued DEF Inv
  <2>2. ASSUME NEW todo \in SUBSET Items,
               pass' = [pass EXCEPT !.stage = "linking", !.todo = todo], presses' = presses, Finish
        PROVE  Queued(Left, Kept)
    <3>1. pass \in Passes /\ presses \in SUBSET Items
      BY TypeFacts DEF Inv, QueueInv
    <3>2. pass' \in Passes /\ pass'.stage = "linking"
      BY <2>2, <3>1 DEF Passes
    <3> QED BY <1>2, <2>2, <3>1, <3>2 DEF Finish, Queued, UnderWay, DrainInv, PressesFollowed, Draining
  <2>3. PICK readable \in Readable :
          LET copies == Merged(readable)
              todo == {i \in In(copies) :
                         /\ copies[i].state = "queued"
                         /\ pass.only \in {Nobody, i}
                         /\ i \in holdOut => i \in pass.users}
          IN  IF todo = {} THEN EndPass(Left, Kept)
              ELSE /\ pass' = [pass EXCEPT !.stage = "linking", !.todo = todo]
                   /\ presses' = presses /\ Finish
    BY DEF Listed
  <2> DEFINE todo == {i \in In(Merged(readable)) :
                         /\ Merged(readable)[i].state = "queued"
                         /\ pass.only \in {Nobody, i}
                         /\ i \in holdOut => i \in pass.users}
  <2>4. todo \in SUBSET Items
    BY DEF In
  <2>5. \/ EndPass(Left, Kept)
        \/ pass' = [pass EXCEPT !.stage = "linking", !.todo = todo] /\ presses' = presses /\ Finish
    BY <2>3
  <2> HIDE DEF todo
  <2> QED BY <2>1, <2>2, <2>4, <2>5
<1>5. reached' \subseteq Safe /\ watchdogs \subseteq watchdogs' /\ owed' = owed
  BY <1>1, Others
<1>6. Head(db).then \notin Writes \cup {"boot", "revive", "find_watchdog"} /\ Head(db).then \notin Chain
  BY <1>1 DEF Writes, Chain
<1> QED BY <1>1, <1>3, <1>4, <1>5, <1>6, ReplyStep

LEMMA DoLinkProbed ==
    ASSUME Inv, Probed
    PROVE  Inv'
<1>1. /\ pass.stage = "linking" /\ (Loop(db, waiting) \/ EndPass(db, waiting))
      /\ UNCHANGED <<up, store, shadow, known, owed, unstored, reached, watchdogs, retries, holdOut,
                     link, old, born, air, crashes>>
  BY DEF Probed, LinkProved, LinkNotProved, disk, clocks, view, outside, history
<1>2. db \in Seq(Job) /\ waiting \in Seq(Job) /\ Doing(db, waiting) = 0
  BY <1>1, TypeFacts DEF Inv, QueueInv, DrainInv
<1>3. Queued(db, waiting)
  BY <1>1, <1>2, LoopQueued, EndPassQueued DEF Inv
<1>4. OtherTypes' /\ watchdogs \subseteq watchdogs'
  BY <1>1, Others DEF OtherTypes
<1> QED BY <1>1, <1>3, <1>4, EventStep

LEMMA DoPassEnded ==
    ASSUME Inv, PassEnded
    PROVE  Inv'
<1>1. /\ db # <<>> /\ Head(db).then = "pass_end" /\ Refresh /\ EndPass(Left, Kept)
      /\ UNCHANGED <<up, store, shadow, known, unstored, reached, watchdogs, retries, holdOut,
                     link, old, born, air, crashes>>
  BY DEF PassEnded, Reply, disk, clocks, outside, history
<1>2. Left \in Seq(Job) /\ Kept \in Seq(Job) /\ Doing(Left, Kept) = 0
  BY <1>1, HeadFacts DEF Inv, Steps
<1>3. Queued(Left, Kept)
  BY <1>1, <1>2, EndPassQueued DEF Inv
<1>4. owed' \in BOOLEAN
  BY <1>1 DEF Refresh
<1>5. OtherTypes' /\ reached' \subseteq Safe /\ watchdogs \subseteq watchdogs'
  BY <1>1, <1>4, Others DEF OtherTypes
<1>6. Head(db).then \notin Writes \cup {"boot", "revive", "find_watchdog"}
  BY <1>1 DEF Writes
<1> QED BY <1>1, <1>3, <1>5, <1>6, ReplyStep

LEMMA FlipGood ==
    ASSUME NEW i \in Items, NEW item \in Item, item.state = "queued", NEW users, NEW safe \in SUBSET Items,
           i \in safe
    PROVE  LET job == Flip(i, item, Origin(i, item, users))
           IN  Good(job, safe) /\ job \in Job /\ job.then = "flip" /\ job.id = i
<1> DEFINE origin == Origin(i, item, users)
           gone == [item EXCEPT !.state = "inflight", !.attempts = Saturated(@ + 1),
                                !.promised = @ /\ origin # "press"]
           rest == [NoCopies EXCEPT ![i] = item]
<1>1. origin \in Notes
  BY DEF Origin, Notes, Origins
<1>2. Saturated(item.attempts + 1) \in 0..TransientCap
  BY OutboxAssumption DEF Saturated, Item
<1>3. gone \in Item /\ gone.state = "inflight"
  <2> HIDE DEF origin
  <2> QED BY <1>2 DEF Item, States
<1>4. rest \in [Items -> Item] /\ \A j \in Items : rest[j].state # "absent" => j \in safe
  BY ItemFacts
<1>5. Flip(i, item, origin) = Command("flip", i, gone, Nobody, origin, rest)
  BY DEF Flip, Write, Command
<1> DEFINE job == Command("flip", i, gone, Nobody, origin, rest)
<1> HIDE DEF gone, rest, origin
<1>6. /\ "flip" \in Writes /\ Nobody \in Items \cup {Nobody} /\ gone \in Item /\ gone.state # "absent"
      /\ origin \in Notes /\ rest \in [Items -> Item]
  BY <1>1, <1>3, <1>4 DEF Writes
<1>7. Good(job, safe) /\ job \in Job /\ job.then = "flip" /\ job.id = i
  <2>1. job \in Job /\ job.then = "flip" /\ job.id = i /\ job.item = gone /\ job.rest = rest
    BY <1>6 DEF Command, Job
  <2> HIDE DEF job
  <2>2. Shaped(job) /\ Backed(job, safe)
    BY <1>4, <1>6, <2>1 DEF Shaped, Backed
  <2> QED BY <2>1, <2>2 DEF Good
<1> QED BY <1>5, <1>7 DEF origin

LEMMA DoAttempt ==
    ASSUME Inv, Attempt
    PROVE  Inv'
<1> DEFINE i == Head(db).id
<1>1. /\ db # <<>> /\ Head(db).then = "find_attempt"
      /\ UNCHANGED <<up, store, shadow, known, owed, unstored, reached, watchdogs, retries, holdOut,
                     link, old, born, air, crashes>>
  BY DEF Attempt, Reply, disk, clocks, view, outside, history
<1>2. Left \in Seq(Job) /\ Kept \in Seq(Job) /\ Doing(Left, Kept) = 0 /\ Doing(db, waiting) = 1
  BY <1>1, HeadFacts DEF Inv, Steps
<1>3. Queued(Left, Kept) /\ \E job \in UnderWay' : job.then \in Chain
  <2>1. CASE Loop(Left, Kept)
    BY <1>2, <2>1, LoopQueued DEF Inv, Chain
  <2>2. ASSUME NEW job \in Job, Good(job, Safe), job.then \in {"flip", "hold"}, Follow(job), UNCHANGED drain
        PROVE  Queued(Left, Kept) /\ \E j \in UnderWay' : j.then \in Chain
    <3>1. One(job) = 1 /\ job.then \in Chain
      BY <2>2 DEF One, Steps, Chain, Writes
    <3>2. Queued(Left, Kept) /\ UnderWay' = Jobs(Left, Kept) \cup {job}
      BY <1>2, <2>2, <3>1, HandQueued DEF Inv, Follow, drain
    <3> QED BY <3>1, <3>2
  <2>3. PICK readable \in Readable :
            LET item == Found(readable)
            IN  IF item.state # "queued" THEN Loop(Left, Kept)
                ELSE /\ \/ Follow(Flip(i, item, Origin(i, item, pass.users)))
                        \/ MayHold /\ Follow(Write("hold", i, item, "none"))
                     /\ UNCHANGED drain
    BY DEF Attempt
  <2> DEFINE item == Found(readable)
  <2>4. /\ i \in Items /\ item \in Item /\ (item.state # "absent" => i \in Safe)
    BY <1>1, FoundFacts DEF Inv, Finds
  <2>5. \/ Loop(Left, Kept)
        \/ /\ item.state = "queued" /\ UNCHANGED drain
           /\ \/ Follow(Flip(i, item, Origin(i, item, pass.users)))
              \/ Follow(Write("hold", i, item, "none"))
    BY <2>3
  <2> HIDE DEF i, item
  <2>6. Safe \in SUBSET Items
    BY DEF Safe
  <2>7. CASE item.state = "queued" /\ UNCHANGED drain /\ Follow(Flip(i, item, Origin(i, item, pass.users)))
    <3> DEFINE job == Flip(i, item, Origin(i, item, pass.users))
    <3>1. Good(job, Safe) /\ job \in Job /\ job.then = "flip"
      BY <2>4, <2>6, <2>7, FlipGood
    <3>2. Follow(job)
      BY <2>7
    <3> HIDE DEF job
    <3> QED BY <2>2, <2>7, <3>1, <3>2
  <2>8. CASE item.state = "queued" /\ UNCHANGED drain /\ Follow(Write("hold", i, item, "none"))
    <3> DEFINE job == Write("hold", i, item, "none")
    <3>1. Good(job, Safe) /\ job \in Job /\ job.then = "hold"
      <4>1. "hold" \in Writes \ {"overflow"} /\ "none" \in Notes
        BY DEF Writes, Notes
      <4> QED BY <2>4, <2>6, <2>8, <4>1, WriteGood
    <3>2. Follow(job)
      BY <2>8
    <3> HIDE DEF job
    <3> QED BY <2>2, <2>8, <3>1, <3>2
  <2> QED BY <2>1, <2>5, <2>7, <2>8
<1>4. OtherTypes' /\ reached' \subseteq Safe /\ watchdogs \subseteq watchdogs'
  BY <1>1, Others DEF OtherTypes
<1>5. Head(db).then \notin Writes \cup {"boot", "revive", "find_watchdog"}
  BY <1>1 DEF Writes
<1> QED BY <1>1, <1>3, <1>4, <1>5, ReplyStep

LEMMA DoNotSent ==
    ASSUME Inv, NotSent
    PROVE  Inv'
<1>1. /\ db # <<>> /\ Head(db).then \in {"hold", "unsent"} /\ Written /\ Loop(Left, Kept)
      /\ UNCHANGED <<up, known, owed, unstored, reached, watchdogs, retries, holdOut,
                     link, old, born, air, crashes>>
  BY DEF NotSent, Reply, clocks, view, outside, history
<1>2. Left \in Seq(Job) /\ Kept \in Seq(Job) /\ Doing(Left, Kept) = 0
  BY <1>1, HeadFacts DEF Inv, Steps
<1>3. Queued(Left, Kept) /\ \E job \in UnderWay' : job.then \in Chain
  BY <1>1, <1>2, LoopQueued DEF Inv, Chain
<1>4. OtherTypes' /\ watchdogs \subseteq watchdogs' /\ unstored \subseteq unstored'
  BY <1>1, Others DEF OtherTypes
<1>5. Head(db).then \in Writes \ {"flip", "revive", "enqueue"}
  BY <1>1 DEF Writes
<1> QED BY <1>1, <1>3, <1>4, <1>5, WriteStep

LEMMA AirTyped ==
    ASSUME Inv, NEW i, Emitted(i)
    PROVE  air' \in [Items -> 0..MaxFrames] /\ reached' = reached \cup {i}
<1>1. air \in [Items -> 0..MaxFrames]
  BY TypeFacts DEF Inv, QueueInv
<1>2. MaxFrames \in Nat
  BY OutboxAssumption
<1> DEFINE more(n) == IF n < MaxFrames THEN n + 1 ELSE n
<1>3. \A n \in 0..MaxFrames : more(n) \in 0..MaxFrames
  BY <1>2
<1>4. air' = [j \in Items |-> IF j = i THEN more(air[j]) ELSE air[j]] /\ reached' = reached \cup {i}
  BY <1>1 DEF Emitted
<1> HIDE DEF more
<1> QED BY <1>1, <1>3, <1>4

LEMMA DoSent ==
    ASSUME Inv, Sent
    PROVE  Inv'
<1> DEFINE i == Head(db).id
<1>1. /\ db # <<>> /\ Head(db).then = "flip" /\ Written /\ Loop(Left, Kept)
      /\ retries' = retries \ {i} /\ watchdogs' = watchdogs \cup {i} /\ Emitted(i)
      /\ UNCHANGED <<up, known, owed, unstored, holdOut, link, old, born, crashes>>
  BY DEF Sent, Reply, view
<1>2. Left \in Seq(Job) /\ Kept \in Seq(Job) /\ Doing(Left, Kept) = 0
  BY <1>1, HeadFacts DEF Inv, Steps
<1>3. Queued(Left, Kept) /\ \E job \in UnderWay' : job.then \in Chain
  BY <1>1, <1>2, LoopQueued DEF Inv, Chain
<1>4. i \in Items
  BY <1>1, HeadFacts DEF Inv, Shaped, Writes
<1>5. OtherTypes' /\ watchdogs \subseteq watchdogs' /\ unstored \subseteq unstored'
  BY <1>1, <1>4, Others, AirTyped DEF OtherTypes
<1>6. reached' \subseteq reached \cup {i}
  BY <1>1, AirTyped
<1>7. Head(db).then \in Writes \ {"revive", "enqueue"} /\ i \in watchdogs'
  BY <1>1 DEF Writes
<1> QED BY <1>1, <1>3, <1>5, <1>6, <1>7, WriteStep

LEMMA DoWireFailed ==
    ASSUME Inv, WireFailed
    PROVE  Inv'
<1> DEFINE i == Head(db).id
           item == [Head(db).item EXCEPT !.state = "queued", !.promised = Head(db).rest[i].promised]
           job == Write("unsent", i, item, "none")
<1>1. /\ db # <<>> /\ Head(db).then = "flip" /\ Written /\ retries' = retries \ {i} /\ Follow(job)
      /\ UNCHANGED <<up, known, owed, pass, presses, watchdogs, unstored, reached, holdOut,
                     link, old, born, air, crashes>>
  BY DEF WireFailed, Reply, drain, view, outside
<1>2. /\ Left \in Seq(Job) /\ Kept \in Seq(Job) /\ Doing(Left, Kept) = 0 /\ Doing(db, waiting) = 1
      /\ Head(db) \in Job /\ Shaped(Head(db)) /\ Backed(Head(db), Safe)
  BY <1>1, HeadFacts DEF Inv, Steps
<1>3. i \in Items /\ i \in Safe
  BY <1>1, <1>2 DEF Shaped, Backed, Writes
<1>4. item \in Item /\ item.state = "queued"
  <2>1. Head(db).rest \in [Items -> Item] /\ Head(db).item \in Item
    BY <1>2 DEF Job
  <2>2. Head(db).rest[i].promised \in BOOLEAN
    BY <1>3, <2>1 DEF Item
  <2> QED BY <2>1, <2>2 DEF Item, States
<1> HIDE DEF i, item
<1>5. Good(job, Safe) /\ job \in Job /\ job.then = "unsent" /\ job.id = i
  <2>1. "unsent" \in Writes \ {"overflow"} /\ "none" \in Notes /\ Safe \in SUBSET Items
    BY DEF Writes, Notes, Safe
  <2> QED BY <1>3, <1>4, <2>1, WriteGood
<1> HIDE DEF job
<1>6. One(job) = 1
  BY <1>5 DEF One, Steps
<1>7. Queued(Left, Kept) /\ UnderWay' = Jobs(Left, Kept) \cup {job}
  BY <1>1, <1>2, <1>5, <1>6, HandQueued DEF Inv, Follow
<1>8. job \in UnderWay' /\ job.then \in Chain /\ job.then \in Writes
  BY <1>5, <1>7 DEF Chain, Writes
<1>9. OtherTypes' /\ watchdogs \subseteq watchdogs' /\ unstored \subseteq unstored'
  BY <1>1, Others DEF OtherTypes
<1>10. Head(db).then \in Writes \ {"revive", "enqueue"}
  BY <1>1 DEF Writes
<1> QED BY <1>1, <1>5, <1>7, <1>8, <1>9, <1>10, WriteStep DEF i
-----------------------------------------------------------------------------
(* Commands that are not of the drain                                        *)

LEMMA FollowQueued ==
    ASSUME QueueInv, db # <<>>, Head(db).then \notin Steps, NEW job \in Job, job.then \notin Steps,
           Good(job, Safe) \/ Good(job, Safe'), Follow(job), UNCHANGED <<pass, presses>>
    PROVE  Queued(Left, Kept) /\ UnderWay' = Jobs(Left, Kept) \cup {job}
<1>1. Left \in Seq(Job) /\ Kept \in Seq(Job) /\ Doing(Left, Kept) = Doing(db, waiting)
  BY HeadFacts
<1>2. One(job) = 0
  BY DEF One
<1>3. Doing(db, waiting) \in Nat
  BY DEF QueueInv, DrainInv
<1>4. Doing(Left, Kept) + One(job) = Doing(db, waiting)
  BY <1>1, <1>2, <1>3
<1> QED BY <1>1, <1>4, HandQueued DEF Follow

LEMMA BeginQueued ==
    ASSUME QueueInv, NEW job \in Job, job.then \notin Steps, Good(job, Safe), Begin(job),
           UNCHANGED <<pass, presses>>
    PROVE  Queued(db, waiting) /\ UnderWay' = Jobs(db, waiting) \cup {job}
<1>1. db \in Seq(Job) /\ waiting \in Seq(Job)
  BY TypeFacts DEF QueueInv
<1>2. One(job) = 0 /\ Doing(db, waiting) \in Nat
  BY DEF One, QueueInv, DrainInv
<1>3. Doing(db, waiting) + One(job) = Doing(db, waiting)
  BY <1>2
<1> QED BY <1>1, <1>3, HandQueued DEF Begin

LEMMA FinishQueued ==
    ASSUME QueueInv, db # <<>>, Head(db).then \notin Steps, Finish, UNCHANGED <<pass, presses>>
    PROVE  Queued(Left, Kept)
<1>1. Left \in Seq(Job) /\ Kept \in Seq(Job) /\ Doing(Left, Kept) = Doing(db, waiting)
  BY HeadFacts
<1> QED BY <1>1, KeepQueued DEF Finish

LEMMA RestQueued ==
    ASSUME QueueInv, UNCHANGED <<db, waiting, pass, presses>>
    PROVE  Queued(db, waiting)
<1>1. db \in Seq(Job) /\ waiting \in Seq(Job)
  BY TypeFacts DEF QueueInv
<1> QED BY <1>1, KeepQueued
-----------------------------------------------------------------------------
(* Admission                                                                 *)

LEMMA DoEnqueue ==
    ASSUME Inv, NEW i \in Items, NEW route \in Routes, Enqueue(i, route)
    PROVE  Inv'
<1> DEFINE item == [Absent EXCEPT !.state = "queued"]
           job == Write("enqueue", i, item, route)
<1>1. /\ born' = born \cup {i} /\ Begin(job)
      /\ UNCHANGED <<up, store, shadow, pass, presses, watchdogs, retries, holdOut, known, owed,
                     link, old, air, crashes, reached, unstored>>
  BY DEF Enqueue, disk, drain, clocks, view, history
<1>2. item \in Item /\ item.state = "queued"
  BY ItemFacts DEF Item, States
<1>3. "enqueue" \in Writes \ {"overflow"} /\ route \in Notes /\ Safe \in SUBSET Items
  BY OutboxAssumption DEF Writes, Notes, Safe
<1> HIDE DEF item
<1>4. Good(job, Safe) /\ job \in Job /\ job.then = "enqueue"
  BY <1>2, <1>3, WriteGood
<1> HIDE DEF job
<1>5. Queued(db, waiting)
  BY <1>1, <1>4, BeginQueued DEF Inv, Steps
<1>6. OtherTypes' /\ watchdogs \subseteq watchdogs'
  BY <1>1, Others DEF OtherTypes
<1> QED BY <1>1, <1>5, <1>6, EventStep

LEMMA DoEnqueued ==
    ASSUME Inv, Enqueued
    PROVE  Inv'
<1> DEFINE h == Head(db)
           job == Load("capacity", h.id, h.note)
<1>1. /\ db # <<>> /\ h.then = "enqueue" /\ Written /\ Follow(job)
      /\ unstored' = IF store' = store THEN unstored \cup {h.id} ELSE unstored
      /\ UNCHANGED <<up, pass, presses, watchdogs, retries, holdOut, known, owed,
                     link, old, born, air, crashes, reached>>
  BY DEF Enqueued, Reply, drain, clocks, view, outside
<1>2. h.id \in Items /\ h.note \in Notes
  BY <1>1, HeadFacts DEF Inv, Shaped, Writes, Job
<1>3. /\ unstored' \subseteq Items /\ unstored \subseteq unstored'
      /\ (store' = store => h.id \in unstored')
  BY <1>1, <1>2, Others
<1>4. h.id \in Safe'
  BY <1>1, <1>3, WrittenFacts DEF Inv, Writes
<1>5. Safe' \in SUBSET Items /\ "capacity" \in Loads
  BY DEF Safe, Loads
<1> HIDE DEF h
<1>6. Good(job, Safe') /\ job.then = "capacity" /\ job \in Job
  BY <1>2, <1>4, <1>5, LoadGood
<1> HIDE DEF job
<1>7. Queued(Left, Kept) /\ UnderWay' = Jobs(Left, Kept) \cup {job}
  BY <1>1, <1>6, FollowQueued DEF Inv, Steps, h
<1>8. job \in UnderWay' /\ job.then \in Chain
  BY <1>6, <1>7 DEF Chain
<1>9. OtherTypes' /\ watchdogs \subseteq watchdogs' /\ reached' \subseteq reached
  BY <1>1, <1>3, Others DEF OtherTypes
<1>10. Head(db).then \in Writes \ {"flip", "revive"}
  BY <1>1 DEF Writes, h
<1> QED BY <1>1, <1>3, <1>7, <1>8, <1>9, <1>10, WriteStep DEF h

LEMMA TrimQueued ==
    ASSUME QueueInv, db # <<>>, Head(db).then \notin Steps, NEW victims \in [Items -> Item],
           \A j \in Items : victims[j].state # "absent" => j \in Safe,
           NEW i \in Items, i \in Safe, NEW route \in Notes, Trim(victims, i, route),
           UNCHANGED <<pass, presses>>
    PROVE  /\ Queued(Left, Kept) /\ retries' \subseteq Items
           /\ \E job \in UnderWay' : job.then \in Chain
<1>1. retries \subseteq Items /\ Safe \in SUBSET Items
  BY TypeFacts DEF QueueInv, Safe
<1>2. CASE In(victims) = {}
  <2> DEFINE job == Load("admitted", i, route)
  <2>1. retries' = retries \cup {i} /\ Follow(job)
    BY <1>2 DEF Trim
  <2>2. Good(job, Safe) /\ job.then = "admitted" /\ job \in Job
    <3>1. "admitted" \in Loads
      BY DEF Loads
    <3> QED BY <1>1, <3>1, LoadGood
  <2> HIDE DEF job
  <2>3. Queued(Left, Kept) /\ UnderWay' = Jobs(Left, Kept) \cup {job}
    BY <2>1, <2>2, FollowQueued DEF Steps
  <2>4. job \in UnderWay' /\ job.then \in Chain
    BY <2>2, <2>3 DEF Chain
  <2> QED BY <1>1, <2>1, <2>3, <2>4
<1>3. CASE In(victims) # {}
  <2> DEFINE v == Oldest(In(victims))
             item == [victims[v] EXCEPT !.state = "refused"]
             rest == [victims EXCEPT ![v] = Absent]
             job == Command("overflow", v, item, i, route, rest)
  <2>1. retries' = retries \ {v} /\ Follow(job)
    BY <1>3 DEF Trim
  <2>2. In(victims) \in SUBSET Items /\ \A j \in In(victims) : victims[j].state # "absent"
    BY DEF In
  <2>3. v \in Items /\ victims[v].state # "absent"
    BY <1>3, <2>2, OldestIn
  <2> HIDE DEF v
  <2>4. item \in Item /\ item.state = "refused"
    BY <2>3 DEF Item, States
  <2>5. rest \in [Items -> Item] /\ \A j \in Items : rest[j].state # "absent" => j \in Safe
    BY <2>3, ItemFacts
  <2>6. "overflow" \in Writes /\ v \in Safe
    BY <2>3 DEF Writes
  <2> HIDE DEF item, rest
  <2>7. Good(job, Safe) /\ job \in Job /\ job.then = "overflow"
    BY <1>1, <2>3, <2>4, <2>5, <2>6, CommandGood
  <2> HIDE DEF job
  <2>8. Queued(Left, Kept) /\ UnderWay' = Jobs(Left, Kept) \cup {job}
    BY <2>1, <2>7, FollowQueued DEF Steps
  <2>9. job \in UnderWay' /\ job.then \in Chain
    BY <2>7, <2>8 DEF Chain, Writes
  <2> QED BY <1>1, <2>1, <2>8, <2>9
<1> QED BY <1>2, <1>3

LEMMA DoEnforceCapacity ==
    ASSUME Inv, EnforceCapacity
    PROVE  Inv'
<1> DEFINE i == Head(db).for
           route == Head(db).note
<1>1. /\ db # <<>> /\ Head(db).then = "capacity"
      /\ UNCHANGED <<up, store, shadow, pass, presses, watchdogs, holdOut, known, owed,
                     link, old, born, air, crashes, reached, unstored>>
  BY DEF EnforceCapacity, Reply, disk, drain, view, outside, history
<1>2. PICK readable \in Readable : Trim(Overflowing(Merged(readable)), i, route)
  BY DEF EnforceCapacity
<1>3. i \in Items /\ i \in Safe /\ route \in Notes
  BY <1>1, HeadFacts DEF Inv, Shaped, Backed, Job
<1> DEFINE copies == Merged(readable)
           victims == Overflowing(copies)
<1>4. /\ copies \in [Items -> Item]
      /\ \A j \in Items : copies[j].state # "absent" => j \in Safe
  BY MergedFacts DEF Inv
<1> HIDE DEF copies
<1>5. \A j \in Items : victims[j] = copies[j] \/ victims[j] = Absent
  BY DEF Overflowing
<1>6. victims = [j \in Items |-> victims[j]]
  BY DEF Overflowing
<1> HIDE DEF victims
<1>7. /\ victims \in [Items -> Item]
      /\ \A j \in Items : victims[j].state # "absent" => j \in Safe
  BY <1>4, <1>5, <1>6, ItemFacts
<1>8. Trim(victims, i, route)
  BY <1>2 DEF victims, copies
<1> HIDE DEF i, route
<1>9. /\ Queued(Left, Kept) /\ retries' \subseteq Items
      /\ \E job \in UnderWay' : job.then \in Chain
  BY <1>1, <1>3, <1>7, <1>8, TrimQueued DEF Inv, Steps
<1>10. OtherTypes' /\ reached' \subseteq Safe /\ watchdogs \subseteq watchdogs'
  BY <1>1, <1>9, Others DEF OtherTypes
<1>11. Head(db).then \notin Writes \cup {"boot", "revive", "find_watchdog"}
  BY <1>1 DEF Writes
<1> QED BY <1>1, <1>9, <1>10, <1>11, ReplyStep

LEMMA DoOverflowed ==
    ASSUME Inv, Overflowed
    PROVE  Inv'
<1> DEFINE h == Head(db)
<1>1. /\ db # <<>> /\ h.then = "overflow" /\ Written /\ Trim(h.rest, h.for, h.note)
      /\ UNCHANGED <<up, pass, presses, watchdogs, holdOut, known, owed,
                     link, old, born, air, crashes, reached, unstored>>
  BY DEF Overflowed, Reply, drain, view, outside, history
<1>2. h \in Job /\ Shaped(h) /\ Backed(h, Safe)
  BY <1>1, HeadFacts DEF Inv
<1> HIDE DEF h
<1>3. h.for \in Items /\ h.for \in Safe /\ h.note \in Notes /\ h.rest \in [Items -> Item]
  BY <1>1, <1>2 DEF Shaped, Backed, Job
<1>4. \A j \in Items : h.rest[j].state # "absent" => j \in Safe
  BY <1>2 DEF Backed
<1>5. /\ Queued(Left, Kept) /\ retries' \subseteq Items
      /\ \E job \in UnderWay' : job.then \in Chain
  BY <1>1, <1>3, <1>4, TrimQueued DEF Inv, Steps, h
<1>6. OtherTypes' /\ watchdogs \subseteq watchdogs' /\ unstored \subseteq unstored'
  BY <1>1, <1>5, Others DEF OtherTypes
<1>7. Head(db).then \in Writes \ {"flip", "revive", "enqueue"}
  BY <1>1 DEF Writes, h
<1> QED BY <1>1, <1>5, <1>6, <1>7, WriteStep

LEMMA DoAdmitted ==
    ASSUME Inv, AdmittedPress \/ AdmittedLive
    PROVE  Inv'
<1> DEFINE i == Head(db).for
<1>1. /\ db # <<>> /\ Head(db).then = "admitted" /\ Refresh
      /\ UNCHANGED <<up, store, shadow, watchdogs, retries, holdOut, known,
                     link, old, born, crashes, unstored>>
  BY DEF AdmittedPress, AdmittedLive, Reply, disk, clocks, outside, history
<1>2. i \in Items /\ i \in Safe
  BY <1>1, HeadFacts DEF Inv, Shaped, Backed
<1>3. /\ Left \in Seq(Job) /\ Kept \in Seq(Job) /\ Doing(Left, Kept) = Doing(db, waiting)
      /\ Head(db).then \notin Steps
  BY <1>1, HeadFacts DEF Inv, Steps
<1>4. /\ Queued(Left, Kept) /\ air' \in [Items -> 0..MaxFrames] /\ reached' \subseteq Safe
  <2>1. CASE AdmittedPress
    <3>1. Drain(Left, Kept, {i}, Nobody) /\ UNCHANGED <<air, reached>>
      BY <2>1 DEF AdmittedPress, outside, history
    <3>2. Queued(Left, Kept)
      BY <1>2, <1>3, <3>1, DrainQueued DEF Inv
    <3> QED BY <3>1, <3>2, Others DEF OtherTypes
  <2>2. CASE AdmittedLive
    <3>1. Finish /\ UNCHANGED <<pass, presses>> /\ (Emitted(i) \/ UNCHANGED <<air, reached>>)
      BY <2>2 DEF AdmittedLive, drain
    <3>2. Queued(Left, Kept)
      BY <1>1, <1>3, <3>1, FinishQueued DEF Inv
    <3>3. CASE Emitted(i)
      BY <1>2, <3>2, <3>3, AirTyped, Others
    <3>4. CASE UNCHANGED <<air, reached>>
      BY <3>2, <3>4, Others DEF OtherTypes
    <3> QED BY <3>1, <3>3, <3>4
  <2> QED BY <2>1, <2>2
<1>5. owed' \in BOOLEAN
  BY <1>1 DEF Refresh
<1>6. OtherTypes' /\ watchdogs \subseteq watchdogs'
  BY <1>1, <1>4, <1>5, Others DEF OtherTypes
<1>7. Head(db).then \notin Writes \cup {"boot", "revive", "find_watchdog"}
  BY <1>1 DEF Writes
<1> QED BY <1>1, <1>4, <1>6, <1>7, ReplyStep
-----------------------------------------------------------------------------
(* Answers and timers                                                        *)

LEMMA DoAnswer ==
    ASSUME Inv, NEW i \in Items, NEW verdict \in Verdicts, Answer(i, verdict)
    PROVE  Inv'
<1> DEFINE job == Find("find_answer", i, verdict)
<1>1. /\ air[i] > 0 /\ air' = [air EXCEPT ![i] = @ - 1] /\ Begin(job)
      /\ UNCHANGED <<up, store, shadow, pass, presses, watchdogs, retries, holdOut, known, owed,
                     link, old, born, crashes, reached, unstored>>
  BY DEF Answer, disk, drain, clocks, view, history
<1>2. "find_answer" \in Finds /\ verdict \in Notes
  BY OutboxAssumption DEF Finds, Notes
<1>3. Good(job, Safe) /\ job \in Job /\ job.then = "find_answer"
  BY <1>2, FindGood DEF Inv
<1> HIDE DEF job
<1>4. Queued(db, waiting)
  BY <1>1, <1>3, BeginQueued DEF Inv, Steps
<1>5. air' \in [Items -> 0..MaxFrames]
  <2>1. air \in [Items -> 0..MaxFrames]
    BY Others DEF OtherTypes
  <2>2. MaxFrames \in Nat
    BY OutboxAssumption
  <2>3. air[i] - 1 \in 0..MaxFrames
    BY <1>1, <2>1, <2>2
  <2> QED BY <1>1, <2>1, <2>3
<1>6. OtherTypes' /\ watchdogs \subseteq watchdogs'
  BY <1>1, <1>5, Others DEF OtherTypes
<1> QED BY <1>1, <1>4, <1>6, EventStep

LEMMA SettledFacts ==
    ASSUME NEW i, NEW item \in Item, NEW verdict
    PROVE  /\ Settled(i, item, verdict) \in Item
           /\ Settled(i, item, verdict).state \notin {"absent", "inflight"}
<1> DEFINE state ==
             CASE verdict \in {"ok", "landed"} -> "delivered"
               [] verdict = "transient" ->
                    IF EarnsAnotherAttempt(i, item) THEN "queued" ELSE "delivered"
               [] verdict = "terminal" -> "refused"
               [] OTHER -> "queued"
           promised == item.promised \/ verdict = "offline"
<1>1. state \in {"queued", "delivered", "refused"} /\ promised \in BOOLEAN
  OBVIOUS
<1>2. Settled(i, item, verdict) = [item EXCEPT !.state = state, !.promised = promised]
  BY DEF Settled, Item
<1> HIDE DEF state, promised
<1> QED BY <1>1, <1>2 DEF Item, States

LEMMA DoSettle ==
    ASSUME Inv, Settle
    PROVE  Inv'
<1> DEFINE i == Head(db).id
           verdict == Head(db).note
<1>1. /\ db # <<>> /\ Head(db).then = "find_answer"
      /\ UNCHANGED <<up, store, shadow, pass, presses, holdOut, known, owed,
                     link, old, born, air, crashes, reached, unstored>>
  BY DEF Settle, Reply, disk, drain, view, outside
<1>2. PICK readable \in Readable :
          LET item == Found(readable)
          IN  IF ~Pending(item) THEN Finish /\ UNCHANGED <<watchdogs, retries>>
              ELSE /\ watchdogs' = watchdogs \ {i}
                   /\ retries' = retries \ {i}
                   /\ Follow(Write("settle", i, Settled(i, item, verdict), verdict))
  BY DEF Settle
<1> DEFINE item == Found(readable)
<1>3. i \in Items /\ item \in Item /\ (item.state # "absent" => i \in Safe) /\ verdict \in Notes
  BY <1>1, FoundFacts, HeadFacts DEF Inv, Finds, Job
<1>4. \/ Finish /\ UNCHANGED <<watchdogs, retries>>
      \/ /\ Pending(item) /\ watchdogs' = watchdogs \ {i} /\ retries' = retries \ {i}
         /\ Follow(Write("settle", i, Settled(i, item, verdict), verdict))
  BY <1>2
<1> HIDE DEF item, verdict
<1>5. OtherTypes' /\ reached' \subseteq Safe
  BY <1>1, <1>4, Others DEF OtherTypes
<1>6. Head(db).then \notin Writes \cup {"boot", "revive", "find_watchdog"} /\ Head(db).then \notin Chain
  BY <1>1 DEF Writes, Chain
<1>7. CASE Finish /\ UNCHANGED <<watchdogs, retries>>
  <2>1. Queued(Left, Kept)
    BY <1>1, <1>7, FinishQueued DEF Inv, Steps
  <2>2. watchdogs \subseteq watchdogs'
    BY <1>7
  <2> QED BY <1>1, <1>5, <1>6, <2>1, <2>2, ReplyStep
<1>8. CASE /\ Pending(item) /\ watchdogs' = watchdogs \ {i}
           /\ Follow(Write("settle", i, Settled(i, item, verdict), verdict))
  <2> DEFINE done == Settled(i, item, verdict)
             job == Write("settle", i, done, verdict)
  <2>1. done \in Item /\ done.state \notin {"absent", "inflight"}
    BY <1>3, SettledFacts
  <2>2. Follow(job)
    BY <1>8
  <2> HIDE DEF done
  <2>3. "settle" \in Writes \ {"overflow"} /\ i \in Safe /\ Safe \in SUBSET Items
    BY <1>3, <1>8 DEF Writes, Pending, Safe
  <2>4. Good(job, Safe) /\ job \in Job /\ job.then = "settle" /\ job.id = i
    BY <1>3, <2>1, <2>3, WriteGood
  <2> HIDE DEF job
  <2>5. Queued(Left, Kept) /\ UnderWay' = Jobs(Left, Kept) \cup {job}
    BY <1>1, <2>2, <2>4, FollowQueued DEF Inv, Steps
  <2>6. job \in UnderWay' /\ job.then \in Chain /\ Guards(job, i)
    BY <2>4, <2>5 DEF Chain, Writes, Guards
  <2> HIDE DEF i
  <2>7. \A j \in Items : ~Guards(Head(db), j)
    BY <1>6 DEF Guards
  <2>8. \A j \in Items :
            /\ up /\ Current(j).state = "inflight"
            /\ j \in watchdogs \/ Guards(Head(db), j)
            => j \in watchdogs' \/ \E k \in UnderWay' : Guards(k, j)
    BY <1>8, <2>6, <2>7
  <2>9. Learns
    BY <1>1 DEF Learns
  <2>10. \E k \in UnderWay' : k.then \in Chain
    BY <2>6
  <2> QED BY <1>1, <1>5, <2>5, <2>8, <2>9, <2>10, ReadStep
<1> QED BY <1>4, <1>7, <1>8

LEMMA DoSettledOnDisk ==
    ASSUME Inv, SettledOnDisk
    PROVE  Inv'
<1> DEFINE h == Head(db)
           job == Load("refresh", h.id, h.note)
<1>1. /\ db # <<>> /\ h.then = "settle" /\ Written /\ Follow(job)
      /\ holdOut' = IF h.note = "later" THEN holdOut \cup {h.id} ELSE holdOut
      /\ UNCHANGED <<up, pass, presses, watchdogs, retries, known, owed,
                     link, old, born, air, crashes, reached, unstored>>
  BY DEF SettledOnDisk, Reply, drain, view, outside, history
<1>2. h.id \in Items /\ h.note \in Notes
  BY <1>1, HeadFacts DEF Inv, Shaped, Writes, Job
<1>3. Safe \in SUBSET Items /\ "refresh" \in Loads
  BY DEF Safe, Loads
<1> HIDE DEF h
<1>4. Good(job, Safe) /\ job.then = "refresh" /\ job \in Job
  BY <1>2, <1>3, LoadGood
<1> HIDE DEF job
<1>5. Queued(Left, Kept) /\ UnderWay' = Jobs(Left, Kept) \cup {job}
  BY <1>1, <1>4, FollowQueued DEF Inv, Steps, h
<1>6. job \in UnderWay' /\ job.then \in Chain
  BY <1>4, <1>5 DEF Chain
<1>7. OtherTypes' /\ watchdogs \subseteq watchdogs' /\ unstored \subseteq unstored'
  BY <1>1, <1>2, Others DEF OtherTypes
<1>8. Head(db).then \in Writes \ {"flip", "revive", "enqueue"}
  BY <1>1 DEF Writes, h
<1> QED BY <1>1, <1>5, <1>6, <1>7, <1>8, WriteStep

LEMMA DoRefreshed ==
    ASSUME Inv, Refreshed
    PROVE  Inv'
<1>1. /\ db # <<>> /\ Head(db).then = "refresh" /\ Refresh /\ Finish
      /\ UNCHANGED <<up, store, shadow, pass, presses, watchdogs, retries, holdOut, known,
                     link, old, born, air, crashes, reached, unstored>>
  BY DEF Refreshed, Reply, disk, drain, clocks, outside
<1>2. Queued(Left, Kept)
  BY <1>1, FinishQueued DEF Inv, Steps
<1>3. owed' \in BOOLEAN
  BY <1>1 DEF Refresh
<1>4. OtherTypes' /\ reached' \subseteq Safe /\ watchdogs \subseteq watchdogs'
  BY <1>1, <1>3, Others DEF OtherTypes
<1>5. Head(db).then \notin Writes \cup {"boot", "revive", "find_watchdog"}
  BY <1>1 DEF Writes
<1> QED BY <1>1, <1>2, <1>4, <1>5, ReplyStep

LEMMA DoWatchdogFires ==
    ASSUME Inv, NEW i \in Items, WatchdogFires(i)
    PROVE  Inv'
<1> DEFINE job == Find("find_watchdog", i, "none")
<1>1. /\ watchdogs' = watchdogs \ {i} /\ Begin(job)
      /\ UNCHANGED <<up, store, shadow, pass, presses, retries, holdOut, known, owed,
                     link, old, born, air, crashes, reached, unstored>>
  BY DEF WatchdogFires, disk, drain, view, outside, history
<1>2. "find_watchdog" \in Finds /\ "none" \in Notes
  BY DEF Finds, Notes
<1>3. Good(job, Safe) /\ job \in Job /\ job.then = "find_watchdog" /\ job.id = i /\ job.item = shadow[i]
  BY <1>2, FindGood DEF Inv
<1> HIDE DEF job
<1>4. Queued(db, waiting) /\ UnderWay' = Jobs(db, waiting) \cup {job}
  BY <1>1, <1>3, BeginQueued DEF Inv, Steps
<1>5. OtherTypes'
  BY <1>1, Others DEF OtherTypes
<1>6. Current(i).state = "inflight" => Guards(job, i)
  BY <1>3 DEF Current, Guards
<1>7. \A j \in watchdogs \ watchdogs' :
          Current(j).state = "inflight" => \E k \in UnderWay' : Guards(k, j)
  BY <1>1, <1>4, <1>6
<1> QED BY <1>1, <1>4, <1>5, <1>7, TimerStep

LEMMA DoNoResult ==
    ASSUME Inv, NoResult
    PROVE  Inv'
<1> DEFINE i == Head(db).id
<1>1. /\ db # <<>> /\ Head(db).then = "find_watchdog"
      /\ UNCHANGED <<up, store, shadow, pass, presses, watchdogs, retries, holdOut, known, owed,
                     link, old, born, air, crashes, reached, unstored>>
  BY DEF NoResult, Reply, disk, drain, clocks, view, outside, history
<1>2. PICK readable \in Readable :
          LET item == Found(readable)
          IN  IF item.state # "inflight" THEN Finish
              ELSE Follow(Write("requeue", i, [item EXCEPT !.state = "queued"], "none"))
  BY DEF NoResult
<1> DEFINE item == Found(readable)
           back == [item EXCEPT !.state = "queued"]
           job == Write("requeue", i, back, "none")
<1>3. i \in Items /\ item \in Item /\ (item.state # "absent" => i \in Safe)
  BY <1>1, FoundFacts DEF Inv, Finds
<1>4. IF item.state # "inflight" THEN Finish ELSE Follow(job)
  BY <1>2
<1>5. OtherTypes' /\ reached' \subseteq Safe
  BY <1>1, Others DEF OtherTypes
<1>6. Learns
  BY <1>1 DEF Learns
<1>7. CASE item.state # "inflight"
  <2>1. Queued(Left, Kept)
    BY <1>1, <1>4, <1>7, FinishQueued DEF Inv, Steps
  <2>2. ASSUME ~ReadsMayFail, NEW j \in Items, Current(j).state = "inflight"
        PROVE  ~Guards(Head(db), j)
    <3>1. readable = TRUE
      BY <2>2 DEF Readable
    <3> QED BY <1>1, <1>7, <2>2, <3>1 DEF Guards, Found, Current, Writes
  <2>3. ~ReadsMayFail => \A j \in Items :
            /\ up /\ Current(j).state = "inflight"
            /\ j \in watchdogs \/ Guards(Head(db), j)
            => j \in watchdogs' \/ \E k \in UnderWay' : Guards(k, j)
    BY <1>1, <2>2
  <2>4. owed' = owed /\ Head(db).then \notin Chain
    BY <1>1 DEF Chain, Writes
  <2> QED BY <1>1, <1>5, <1>6, <2>1, <2>3, <2>4, ReadStep
<1>8. CASE item.state = "inflight"
  <2>1. Follow(job)
    BY <1>4, <1>8
  <2>2. back \in Item /\ back.state = "queued"
    <3> HIDE DEF item
    <3> QED BY <1>3 DEF Item, States
  <2>3. i \in Safe /\ "requeue" \in Writes \ {"overflow"} /\ "none" \in Notes /\ Safe \in SUBSET Items
    BY <1>3, <1>8 DEF Writes, Notes, Safe
  <2> HIDE DEF item, back
  <2>4. Good(job, Safe) /\ job \in Job /\ job.then = "requeue" /\ job.id = i
    BY <1>3, <2>2, <2>3, WriteGood
  <2> HIDE DEF job
  <2>5. Queued(Left, Kept) /\ UnderWay' = Jobs(Left, Kept) \cup {job}
    BY <1>1, <2>1, <2>4, FollowQueued DEF Inv, Steps
  <2>6. job \in UnderWay' /\ job.then \in Chain /\ Guards(job, i)
    BY <2>4, <2>5 DEF Chain, Writes, Guards
  <2>7. \A j \in Items : Guards(Head(db), j) => j = i
    BY <1>1 DEF Guards, Writes
  <2> HIDE DEF i
  <2>8. \A j \in Items :
            /\ up /\ Current(j).state = "inflight"
            /\ j \in watchdogs \/ Guards(Head(db), j)
            => j \in watchdogs' \/ \E k \in UnderWay' : Guards(k, j)
    BY <1>1, <2>6, <2>7
  <2>9. \E k \in UnderWay' : k.then \in Chain
    BY <2>6
  <2> QED BY <1>1, <1>5, <1>6, <2>5, <2>8, <2>9, ReadStep
<1> QED BY <1>7, <1>8

LEMMA DoRequeued ==
    ASSUME Inv, Requeued
    PROVE  Inv'
<1> DEFINE i == Head(db).id
           job == Load("refresh", i, "none")
<1>1. /\ db # <<>> /\ Head(db).then = "requeue" /\ Written /\ Follow(job)
      /\ retries' = retries \cup {i}
      /\ UNCHANGED <<up, pass, presses, watchdogs, holdOut, known, owed,
                     link, old, born, air, crashes, reached, unstored>>
  BY DEF Requeued, Reply, drain, view, outside, history
<1>2. i \in Items
  BY <1>1, HeadFacts DEF Inv, Shaped, Writes
<1>3. Safe \in SUBSET Items /\ "refresh" \in Loads /\ "none" \in Notes
  BY DEF Safe, Loads, Notes
<1> HIDE DEF i
<1>4. Good(job, Safe) /\ job.then = "refresh" /\ job \in Job
  BY <1>2, <1>3, LoadGood
<1> HIDE DEF job
<1>5. Queued(Left, Kept) /\ UnderWay' = Jobs(Left, Kept) \cup {job}
  BY <1>1, <1>4, FollowQueued DEF Inv, Steps
<1>6. job \in UnderWay' /\ job.then \in Chain
  BY <1>4, <1>5 DEF Chain
<1>7. OtherTypes' /\ watchdogs \subseteq watchdogs' /\ unstored \subseteq unstored'
  BY <1>1, <1>2, Others DEF OtherTypes
<1>8. Head(db).then \in Writes \ {"flip", "revive", "enqueue"}
  BY <1>1 DEF Writes
<1> QED BY <1>1, <1>5, <1>6, <1>7, <1>8, WriteStep
-----------------------------------------------------------------------------
(* The clocks, the user, the link and the process                            *)

\* A step that only lets the drain start over what it finds in the queue.
LEMMA DoDrain ==
    ASSUME Inv, NEW users \in SUBSET Items, NEW only \in Items \cup {Nobody},
           Drain(db, waiting, users, only),
           UNCHANGED <<up, store, shadow, known, owed, reached, unstored, watchdogs>>, OtherTypes'
    PROVE  Inv'
<1>1. db \in Seq(Job) /\ waiting \in Seq(Job)
  BY TypeFacts DEF Inv, QueueInv
<1>2. Queued(db, waiting)
  BY <1>1, DrainQueued DEF Inv
<1> QED BY <1>2, EventStep

LEMMA DoRest ==
    ASSUME Inv, UNCHANGED <<db, waiting, pass, presses>>,
           UNCHANGED <<up, store, shadow, known, owed, reached, unstored, watchdogs>>, OtherTypes'
    PROVE  Inv'
<1>1. Queued(db, waiting)
  BY RestQueued DEF Inv
<1> QED BY <1>1, EventStep

LEMMA DoTimer ==
    ASSUME Inv, NEW i \in Items, RetryDropped(i) \/ RetryDrains(i) \/ HoldOutEnds(i) \/ Ages(i)
    PROVE  Inv'
<1>1. OtherTypes
  BY Others
<1>2. CASE RetryDropped(i) \/ HoldOutEnds(i) \/ Ages(i)
  <2>1. /\ UNCHANGED <<db, waiting, pass, presses>>
        /\ UNCHANGED <<up, store, shadow, known, owed, reached, unstored, watchdogs>>
    BY <1>2 DEF RetryDropped, HoldOutEnds, Ages, disk, queue, drain, clocks, view, outside, history
  <2>2. OtherTypes'
    BY <1>1, <1>2, <2>1 DEF RetryDropped, HoldOutEnds, Ages, clocks, outside, OtherTypes
  <2> QED BY <2>1, <2>2, DoRest
<1>3. CASE RetryDrains(i)
  <2>1. /\ Drain(db, waiting, {}, i) /\ retries' = retries \ {i}
        /\ UNCHANGED <<up, store, shadow, known, owed, reached, unstored, watchdogs, holdOut,
                       link, old, born, air, crashes>>
    BY <1>3 DEF RetryDrains, disk, view, outside, history
  <2>2. OtherTypes'
    BY <1>1, <2>1 DEF OtherTypes
  <2> QED BY <2>1, <2>2, DoDrain
<1> QED BY <1>2, <1>3

LEMMA DoOutside ==
    ASSUME Inv, LinkLost \/ LinkRises \/ LinkEdge \/ (\E i \in Items : Press(i))
    PROVE  Inv'
<1>1. OtherTypes
  BY Others
<1>2. /\ UNCHANGED <<up, store, shadow, known, owed, reached, unstored, watchdogs>>
      /\ UNCHANGED <<retries, holdOut, old, born, air, crashes>>
  BY DEF LinkLost, LinkRises, LinkEdge, Press, disk, clocks, view, outside, history
<1>3. link' \in {"down", "rising", "up"}
  BY <1>1 DEF LinkLost, LinkRises, LinkEdge, Press, outside, OtherTypes
<1>4. OtherTypes'
  BY <1>1, <1>2, <1>3 DEF OtherTypes
<1>5. \/ UNCHANGED <<db, waiting, pass, presses>>
      \/ Drain(db, waiting, {}, Nobody)
      \/ \E i \in Items : Drain(db, waiting, {i}, Nobody)
  BY DEF LinkLost, LinkRises, LinkEdge, Press, queue, drain
<1> QED BY <1>2, <1>4, <1>5, DoRest, DoDrain

LEMMA NoneUnderWay ==
    /\ <<>> \in Seq(Job) /\ Elems(<<>>) = {} /\ Count(<<>>) = 0
<1>1. Len(<<>>) = 0 /\ 1..0 = {}
  OBVIOUS
<1>2. {n \in 1..Len(<<>>) : <<>>[n].then \in Steps} = {}
  BY <1>1
<1> QED BY <1>1, <1>2, FS_EmptySet DEF Elems, Count

LEMMA NothingRuns ==
    ASSUME db = <<>>, waiting = <<>>, pass = NoPass, presses = {}
    PROVE  /\ UnderWay = {} /\ DrainInv /\ db \in Seq(Job) /\ waiting \in Seq(Job)
           /\ pass \in Passes
<1>1. Doing(db, waiting) = 0
  BY NoneUnderWay DEF Doing
<1> QED BY <1>1, NoneUnderWay DEF UnderWay, Jobs, DrainInv, PressesFollowed, Draining, NoPass, Passes

LEMMA StartsInv ==
    ASSUME Init
    PROVE  Inv
<1>1. UnderWay = {} /\ DrainInv /\ db \in Seq(Job) /\ waiting \in Seq(Job) /\ pass \in Passes
  BY NothingRuns DEF Init
<1>2. 0 \in 0..MaxFrames /\ 0 \in 0..MaxCrashes
  BY OutboxAssumption
<1>3. TypeOK
  <2>1. /\ store \in [Items -> Item] /\ shadow \in [Items -> Item] /\ link \in {"down", "rising", "up"}
        /\ presses \subseteq Items /\ air \in [Items -> 0..MaxFrames] /\ crashes \in 0..MaxCrashes
    BY <1>2, ItemFacts DEF Init
  <2>2. {up, known, owed} \subseteq BOOLEAN
    BY DEF Init
  <2>3. {watchdogs, retries, holdOut, old, born} \subseteq SUBSET Items /\ {reached, unstored} \subseteq SUBSET Items
    BY DEF Init
  <2> QED BY <1>1, <2>1, <2>2, <2>3 DEF TypeOK, Passes
<1>4. JobsInv
  BY <1>1 DEF JobsInv
<1>5. SafeInv
  BY ItemFacts DEF SafeInv, Init
<1>6. GuardInv /\ EdgeInv
  BY DEF GuardInv, EdgeInv, Init
<1> QED BY <1>1, <1>3, <1>4, <1>5, <1>6 DEF Inv, QueueInv

LEMMA DoCrash ==
    ASSUME Inv, Crash
    PROVE  Inv'
<1>1. UnderWay' = {} /\ DrainInv' /\ db' \in Seq(Job) /\ waiting' \in Seq(Job) /\ pass' \in Passes
  <2>1. db' = <<>> /\ waiting' = <<>> /\ pass' = NoPass /\ presses' = {}
    BY DEF Crash
  <2>2. Doing(db', waiting') = 0
    BY <2>1, NoneUnderWay DEF Doing
  <2> QED BY <2>1, <2>2, NoneUnderWay DEF UnderWay, Jobs, DrainInv, PressesFollowed, Draining, NoPass, Passes
<1>2. store \in [Items -> Item] /\ reached \subseteq Safe /\ OtherTypes /\ db \in Seq(Job)
  BY Others, TypeFacts DEF Inv, QueueInv
<1>3. store' \in [Items -> Item] /\ \A i \in Items : store[i].state # "absent" => store'[i].state # "absent"
  <2>1. CASE store' = store
    BY <1>2, <2>1
  <2>2. ASSUME NEW k \in 1..Len(db), IsWrite(db[k]), store' = [store EXCEPT ![db[k].id] = db[k].item]
        PROVE  store' \in [Items -> Item] /\ \A i \in Items : store[i].state # "absent" => store'[i].state # "absent"
    <3>1. db[k] \in UnderWay
      BY DEF UnderWay, Jobs, Elems
    <3>2. Shaped(db[k])
      BY <3>1 DEF Inv, QueueInv, JobsInv, Good
    <3> DEFINE job == db[k]
    <3> HIDE DEF job
    <3>3. job.id \in Items /\ job.item \in Item /\ job.item.state # "absent"
      BY <2>2, <3>2 DEF Shaped, IsWrite, Job, job
    <3>4. store' = [store EXCEPT ![job.id] = job.item]
      BY <2>2 DEF job
    <3> QED BY <1>2, <3>3, <3>4
  <2> QED BY <2>1, <2>2 DEF Crash
<1>4. /\ shadow' = NoCopies /\ reached' = reached /\ unstored' = unstored /\ up' = FALSE /\ known' = FALSE
      /\ crashes' = crashes + 1 /\ crashes < MaxCrashes /\ presses' = {} /\ owed' = FALSE
      /\ link' = "down" /\ watchdogs' = {} /\ retries' = {} /\ holdOut' = {}
      /\ old' = old /\ born' = born /\ air' = air
  BY DEF Crash
<1>5. SafeInv'
  <2>1. Safe \subseteq Safe'
    BY <1>3, <1>4 DEF Safe
  <2> QED BY <1>2, <1>4, <2>1, ItemFacts DEF SafeInv
<1>6. crashes' \in 0..MaxCrashes
  <2>1. crashes \in 0..MaxCrashes /\ MaxCrashes \in Nat
    BY <1>2, OutboxAssumption DEF OtherTypes
  <2> QED BY <1>4, <2>1
<1>7. TypeOK'
  <2>1. /\ {up', known', owed'} \subseteq BOOLEAN
        /\ {watchdogs', retries', holdOut', old', born'} \subseteq SUBSET Items
    BY <1>2, <1>4 DEF OtherTypes
  <2>2. {reached', unstored'} \subseteq SUBSET Items
    BY <1>2, <1>4 DEF OtherTypes, Safe
  <2>3. shadow' \in [Items -> Item] /\ air' \in [Items -> 0..MaxFrames] /\ presses' \subseteq Items
    BY <1>2, <1>4, ItemFacts DEF OtherTypes
  <2> QED BY <1>1, <1>3, <1>4, <1>6, <2>1, <2>2, <2>3 DEF TypeOK, Passes
<1>8. JobsInv'
  BY <1>1 DEF JobsInv
<1>9. GuardInv' /\ EdgeInv'
  BY <1>4 DEF GuardInv, EdgeInv
<1> QED BY <1>1, <1>5, <1>7, <1>8, <1>9 DEF Inv, QueueInv

LEMMA DoBoot ==
    ASSUME Inv, Boot
    PROVE  Inv'
<1> DEFINE job == Load("boot", Nobody, "none")
<1>1. /\ ~up /\ up' = TRUE /\ Begin(job)
      /\ UNCHANGED <<store, shadow, pass, presses, watchdogs, retries, holdOut, known, owed,
                     link, old, born, air, crashes, reached, unstored>>
  BY DEF Boot, disk, drain, clocks, view, outside, history
<1>2. "boot" \in Loads /\ "none" \in Notes /\ Safe \in SUBSET Items
  BY DEF Loads, Notes, Safe
<1>3. Good(job, Safe) /\ job.then = "boot" /\ job \in Job
  BY <1>2, LoadGood
<1> HIDE DEF job
<1>4. Queued(db, waiting) /\ UnderWay' = Jobs(db, waiting) \cup {job}
  BY <1>1, <1>3, BeginQueued DEF Inv, Steps
<1>5. OtherTypes'
  BY <1>1, Others DEF OtherTypes
<1>6. QueueInv'
  <2>1. /\ store' \in [Items -> Item] /\ shadow' \in [Items -> Item] /\ Safe' = Safe
        /\ SafeInv'
    BY <1>1, TypeFacts DEF Inv, QueueInv, Safe, SafeInv
  <2> QED BY <1>4, <1>5, <2>1, QueueStep DEF Inv, UnderWay
<1>7. GuardInv'
  BY <1>3, <1>4 DEF GuardInv, Guards
<1>8. ASSUME ~ReadsMayFail PROVE EdgeInv'
  BY <1>1, <1>8 DEF Inv, EdgeInv
<1> QED BY <1>6, <1>7, <1>8 DEF Inv
-----------------------------------------------------------------------------
(* Start-up                                                                  *)

LEMMA ReviveQueued ==
    ASSUME QueueInv, db # <<>>, Head(db).then \notin Steps, NEW copies \in [Items -> Item],
           \A j \in Items : copies[j].state # "absent" => j \in Safe,
           Revive(copies), UNCHANGED <<pass, presses>>
    PROVE  /\ Queued(Left, Kept) /\ \E job \in UnderWay' : job.then \in Chain
           /\ \A j \in Items : copies[j].state # "absent" =>
                 \E job \in UnderWay' :
                     job.then = "revive" /\ (job.id = j \/ job.rest[j].state # "absent")
<1>1. Safe \in SUBSET Items /\ "none" \in Notes
  BY DEF Safe, Notes
<1>2. CASE In(copies) = {}
  <2> DEFINE job == Load("booted", Nobody, "none")
  <2>1. Follow(job)
    BY <1>2 DEF Revive
  <2>2. Good(job, Safe) /\ job.then = "booted" /\ job \in Job
    <3>1. "booted" \in Loads
      BY DEF Loads
    <3> QED BY <1>1, <3>1, LoadGood
  <2> HIDE DEF job
  <2>3. Queued(Left, Kept) /\ UnderWay' = Jobs(Left, Kept) \cup {job}
    BY <2>1, <2>2, FollowQueued DEF Steps
  <2>4. job \in UnderWay' /\ job.then \in Chain
    BY <2>2, <2>3 DEF Chain
  <2> QED BY <1>2, <2>3, <2>4 DEF In
<1>3. CASE In(copies) # {}
  <2> DEFINE i == Oldest(In(copies))
             item == [copies[i] EXCEPT !.state = "queued"]
             rest == [copies EXCEPT ![i] = Absent]
             job == Command("revive", i, item, Nobody, "none", rest)
  <2>1. Follow(job)
    BY <1>3 DEF Revive
  <2>2. In(copies) \in SUBSET Items /\ \A j \in In(copies) : copies[j].state # "absent"
    BY DEF In
  <2>3. i \in Items /\ copies[i].state # "absent"
    BY <1>3, <2>2, OldestIn
  <2> HIDE DEF i
  <2>4. item \in Item /\ item.state = "queued"
    BY <2>3 DEF Item, States
  <2>5. /\ rest \in [Items -> Item] /\ \A j \in Items : rest[j].state # "absent" => j \in Safe
        /\ \A j \in Items : j # i => rest[j] = copies[j]
    BY <2>3, ItemFacts
  <2>6. "revive" \in Writes /\ i \in Safe /\ Nobody \in Items \cup {Nobody}
    BY <2>3 DEF Writes
  <2> HIDE DEF item, rest
  <2>11. "revive" # "overflow" /\ item.state # "absent" /\ item.state # "inflight"
    BY <2>4
  <2>7. Good(job, Safe) /\ job \in Job /\ job.then = "revive" /\ job.id = i /\ job.rest = rest
    <3>1. Good(job, Safe)
      BY <1>1, <2>3, <2>4, <2>5, <2>6, <2>11, CommandGood
    <3>2. job \in Job
      BY <3>1 DEF Good, Shaped
    <3> QED BY <3>1, <3>2 DEF Command
  <2> HIDE DEF job
  <2>8. Queued(Left, Kept) /\ UnderWay' = Jobs(Left, Kept) \cup {job}
    BY <2>1, <2>7, FollowQueued DEF Steps
  <2>9. job \in UnderWay' /\ job.then \in Chain
    BY <2>7, <2>8 DEF Chain, Writes
  <2>10. \A j \in Items : copies[j].state # "absent" => job.id = j \/ job.rest[j].state # "absent"
    BY <2>5, <2>7
  <2> QED BY <2>7, <2>8, <2>9, <2>10
<1> QED BY <1>2, <1>3

LEMMA DoBootLoaded ==
    ASSUME Inv, BootLoaded
    PROVE  Inv'
<1>1. /\ db # <<>> /\ Head(db).then = "boot"
      /\ UNCHANGED <<up, store, shadow, pass, presses, watchdogs, retries, holdOut, known, owed,
                     link, old, born, air, crashes, reached, unstored>>
  BY DEF BootLoaded, Reply, disk, drain, clocks, view, outside, history
<1>2. PICK readable \in Readable :
          LET copies == Merged(readable)
          IN  Revive([i \in Items |-> IF copies[i].state = "inflight" THEN copies[i] ELSE Absent])
  BY DEF BootLoaded
<1> DEFINE copies == Merged(readable)
           flying == [i \in Items |-> IF copies[i].state = "inflight" THEN copies[i] ELSE Absent]
<1>3. /\ copies \in [Items -> Item]
      /\ \A j \in Items : copies[j].state # "absent" => j \in Safe
  BY MergedFacts DEF Inv
<1>4. ASSUME ~ReadsMayFail, NEW j \in Items, Current(j).state = "inflight"
      PROVE  copies[j].state = "inflight"
  <2>1. readable = TRUE
    BY <1>4 DEF Readable
  <2> QED BY <1>4, <2>1 DEF Merged, Current, Pending
<1>5. Revive(flying)
  BY <1>2
<1> HIDE DEF copies
<1>6. /\ flying \in [Items -> Item]
      /\ \A j \in Items : flying[j].state # "absent" => j \in Safe
      /\ \A j \in Items : copies[j].state = "inflight" => flying[j].state # "absent"
  BY <1>3, ItemFacts
<1> HIDE DEF flying
<1>7. /\ Queued(Left, Kept) /\ \E job \in UnderWay' : job.then \in Chain
      /\ \A j \in Items : flying[j].state # "absent" =>
            \E job \in UnderWay' :
                job.then = "revive" /\ (job.id = j \/ job.rest[j].state # "absent")
  BY <1>1, <1>5, <1>6, ReviveQueued DEF Inv, Steps
<1>8. ~ReadsMayFail => \A j \in Items :
          /\ up /\ Current(j).state = "inflight"
          /\ j \in watchdogs \/ Guards(Head(db), j)
          => j \in watchdogs' \/ \E job \in UnderWay' : Guards(job, j)
  <2> SUFFICES ASSUME ~ReadsMayFail, NEW j \in Items, Current(j).state = "inflight"
               PROVE  \E job \in UnderWay' : Guards(job, j)
    OBVIOUS
  <2>1. PICK job \in UnderWay' : job.then = "revive" /\ (job.id = j \/ job.rest[j].state # "absent")
    BY <1>4, <1>6, <1>7
  <2> QED BY <2>1 DEF Guards, Writes
<1>9. OtherTypes' /\ reached' \subseteq Safe
  BY <1>1, Others DEF OtherTypes
<1>10. Learns
  BY <1>1 DEF Learns
<1> QED BY <1>1, <1>7, <1>8, <1>9, <1>10, ReadStep

LEMMA DoRevived ==
    ASSUME Inv, Revived
    PROVE  Inv'
<1> DEFINE h == Head(db)
<1>1. /\ db # <<>> /\ h.then = "revive" /\ Written /\ Revive(h.rest)
      /\ UNCHANGED <<up, pass, presses, watchdogs, retries, holdOut, known, owed,
                     link, old, born, air, crashes, reached, unstored>>
  BY DEF Revived, Reply, drain, clocks, view, outside, history
<1>2. h \in Job /\ Backed(h, Safe)
  BY <1>1, HeadFacts DEF Inv
<1> HIDE DEF h
<1>3. h.rest \in [Items -> Item] /\ \A j \in Items : h.rest[j].state # "absent" => j \in Safe
  BY <1>2 DEF Backed, Job
<1>4. /\ Queued(Left, Kept) /\ \E job \in UnderWay' : job.then \in Chain
      /\ \A j \in Items : h.rest[j].state # "absent" =>
            \E job \in UnderWay' :
                job.then = "revive" /\ (job.id = j \/ job.rest[j].state # "absent")
  BY <1>1, <1>3, ReviveQueued DEF Inv, Steps, h
<1>5. OtherTypes' /\ watchdogs \subseteq watchdogs' /\ unstored \subseteq unstored'
  BY <1>1, Others DEF OtherTypes
<1>6. Head(db).then \in Writes \ {"flip", "enqueue"}
  BY <1>1 DEF Writes, h
<1> QED BY <1>1, <1>4, <1>5, <1>6, WriteStep DEF h

LEMMA DoBooted ==
    ASSUME Inv, Booted
    PROVE  Inv'
<1>1. /\ up /\ db # <<>> /\ Head(db).then = "booted" /\ Refresh /\ Finish /\ known' = TRUE
      /\ UNCHANGED <<up, store, shadow, pass, presses, watchdogs, retries, holdOut,
                     link, old, born, air, crashes, reached, unstored>>
  BY DEF Booted, Reply, disk, drain, clocks, outside, history
<1>2. Queued(Left, Kept)
  BY <1>1, FinishQueued DEF Inv, Steps
<1>3. owed' \in BOOLEAN
  BY <1>1 DEF Refresh
<1>4. OtherTypes' /\ reached' \subseteq Safe
  BY <1>1, <1>3, Others DEF OtherTypes
<1>5. Learns
  BY <1>1 DEF Learns
<1>6. \A j \in Items : ~Guards(Head(db), j)
  BY <1>1 DEF Guards, Writes
<1>7. \A j \in Items :
          /\ up /\ Current(j).state = "inflight"
          /\ j \in watchdogs \/ Guards(Head(db), j)
          => j \in watchdogs' \/ \E job \in UnderWay' : Guards(job, j)
  BY <1>1, <1>6
<1> QED BY <1>1, <1>2, <1>4, <1>5, <1>7, ReadStep
-----------------------------------------------------------------------------
(* The theorems                                                              *)

LEMMA InvNext ==
    ASSUME Inv, [Next]_vars
    PROVE  Inv'
<1>1. ASSUME Replies PROVE Inv'
  BY <1>1, DoListed, DoPassEnded, DoAttempt, DoNotSent, DoSent, DoWireFailed, DoEnqueued,
     DoEnforceCapacity, DoOverflowed, DoAdmitted, DoSettle, DoSettledOnDisk, DoRefreshed,
     DoNoResult, DoRequeued, DoBootLoaded, DoRevived, DoBooted DEF Replies
<1>2. ASSUME Probed PROVE Inv'
  BY <1>2, DoLinkProbed
<1>3. ASSUME LinkLost \/ LinkRises \/ LinkEdge PROVE Inv'
  BY <1>3, DoOutside
<1>4. ASSUME Crash PROVE Inv'
  BY <1>4, DoCrash
<1>5. ASSUME Boot PROVE Inv'
  BY <1>5, DoBoot
<1>6. ASSUME NEW i \in Items, Timers(i) \/ Ages(i) PROVE Inv'
  BY <1>6, DoWatchdogFires, DoTimer DEF Timers
<1>7. ASSUME NEW i \in Items, Press(i) PROVE Inv'
  BY <1>7, DoOutside
<1>8. ASSUME NEW i \in Items, NEW route \in Routes, Enqueue(i, route) PROVE Inv'
  BY <1>8, DoEnqueue
<1>9. ASSUME NEW i \in Items, NEW verdict \in Verdicts, Answer(i, verdict) PROVE Inv'
  BY <1>9, DoAnswer
<1>10. CASE UNCHANGED vars
  <2>1. /\ UNCHANGED <<db, waiting, pass, presses>>
        /\ UNCHANGED <<up, store, shadow, known, owed, reached, unstored, watchdogs>>
        /\ UNCHANGED <<retries, holdOut, link, old, born, air, crashes>>
    BY <1>10 DEF vars, disk, queue, drain, clocks, view, outside, history
  <2>2. OtherTypes'
    BY <2>1, Others DEF OtherTypes
  <2> QED BY <2>1, <2>2, DoRest
<1> QED BY <1>1, <1>2, <1>3, <1>4, <1>5, <1>6, <1>7, <1>8, <1>9, <1>10 DEF Next

LEMMA AlwaysInv == Spec => []Inv
<1>1. Init => Inv
  BY StartsInv
<1>2. Inv /\ [Next]_vars => Inv'
  BY InvNext
<1> QED BY <1>1, <1>2, PTL DEF Spec

\* For any items, caps and faults, every variable holds a value of its type: no command
\* carries a copy that is no item, and attempts never pass the cap
\* (outbox_item.dart).
THEOREM TypeCorrect == Spec => []TypeOK
<1>1. Inv => TypeOK
  BY DEF Inv, QueueInv
<1> QED BY <1>1, AlwaysInv, PTL

\* A press that finds a drain running is followed by a pass of its own: at rest none is
\* left behind (delivery_outbox.dart _pendingUserRequestedIds).
THEOREM PressesAlwaysFollowed == Spec => []PressesFollowed
<1>1. Inv => PressesFollowed
  BY DEF Inv, QueueInv, DrainInv
<1> QED BY <1>1, AlwaysInv, PTL

LEMMA OneCommand ==
    ASSUME QueueInv
    PROVE  DrainUnderWay
<1>1. db \in Seq(Job) /\ waiting \in Seq(Job)
  BY TypeFacts DEF QueueInv
<1>2. Count(db \o waiting) = Doing(db, waiting)
  BY <1>1, CountConcat DEF Doing
<1>3. Count(db \o waiting) = IF pass.stage = "busy" THEN 1 ELSE 0
  BY <1>2 DEF QueueInv, DrainInv
<1> QED BY <1>3 DEF DrainUnderWay, Count

\* A drain that runs has exactly one command under way, and a queue at rest or probing
\* its link none (delivery_outbox.dart _draining).
THEOREM OneDrain == Spec => []DrainUnderWay
<1>1. Inv => DrainUnderWay
  BY OneCommand DEF Inv
<1> QED BY <1>1, AlwaysInv, PTL

\* Whatever the database refuses or loses in a crash, an item a frame of which left the
\* phone has a row, unless its own first write failed (outbox_store.dart).
THEOREM StoredBeforeSent == Spec => []SentIsStored
<1>1. Inv => SentIsStored
  BY DEF Inv, QueueInv, SafeInv, Safe, SentIsStored
<1> QED BY <1>1, AlwaysInv, PTL

LEMMA GuardMoves ==
    ASSUME QueueInv, NEW i \in Items, NEW job \in UnderWay, Guards(job, i)
    PROVE  WillMove(i)
<1>1. db \in Seq(Job) /\ waiting \in Seq(Job)
  BY TypeFacts DEF QueueInv
<1>2. Elems(db \o waiting) = UnderWay
  BY <1>1, ElemsConcat DEF UnderWay, Jobs
<1>3. PICK n \in 1..Len(db \o waiting) : (db \o waiting)[n] = job
  BY <1>2 DEF Elems
<1>4. \/ job.then = "boot"
      \/ job.id = i /\ job.then \in Writes \cup {"find_watchdog"}
      \/ job.then = "revive" /\ job.rest[i].state # "absent"
  BY DEF Guards
<1> QED BY <1>3, <1>4 DEF WillMove

\* RV-37, of a database whose reads do not throw: an item in flight has a watchdog or a
\* command under way that ends its flight (delivery_outbox_settle.dart, load).
THEOREM FlightsEnd ==
    ASSUME ~ReadsMayFail
    PROVE  Spec => []InflightGuarded
<1>1. Inv => InflightGuarded
  BY GuardMoves DEF Inv, GuardInv, InflightGuarded
<1> QED BY <1>1, AlwaysInv, PTL

LEMMA IdleEmpty ==
    ASSUME Idle
    PROVE  UnderWay = {}
BY NoneUnderWay DEF Idle, UnderWay, Jobs

\* NR-264, of a database whose reads do not throw: a link edge on a queue at rest skips
\* its drain only when nothing is owed (delivery_outbox_degraded.dart).
THEOREM EdgesDrain ==
    ASSUME ~ReadsMayFail
    PROVE  Spec => []EdgeSeesOwed
<1>1. Inv => EdgeSeesOwed
  BY IdleEmpty DEF Inv, EdgeInv, Accurate, EdgeSeesOwed
<1> QED BY <1>1, AlwaysInv, PTL
=============================================================================
