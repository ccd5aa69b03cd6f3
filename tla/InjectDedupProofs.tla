------------------------- MODULE InjectDedupProofs -------------------------
(***************************************************************************)
(* Theorems about InjectDedup, for every value of its constants: every     *)
(* safety property the runs check.                                         *)
(*                                                                         *)
(* The inductive invariant IInv ties the table to the keyboard: an id that *)
(* was typed and not given up is either remembered by the table or still   *)
(* in the hands of the thread that typed it (Remembered), and that thread  *)
(* holds the claim (ClaimHeld).  So a frame that finds neither an entry    *)
(* nor a claim may type (FreshRun), and stays the only one that may.       *)
(* AnswerInv follows the ground of every answer: whatever says "ok" says   *)
(* it of an id that was typed with success, and whatever is discarded      *)
(* repeats what was typed.                                                 *)
(***************************************************************************)
EXTENDS InjectDedup, FiniteSetTheorems, WellFoundedInduction, TLAPS

\* A call is in progress only while the process is up, and only a frame with an id
\* waits for a claim or gives one back.
StageOK ==
    \A t \in Threads :
        /\ pc[t] # "idle" => up
        /\ pc[t] \in {"waiting", "release", "notify"} => HasId(t)

\* The recency order lists exactly the cached ids.
OrderMatches == \A r \in Ids : results[r] # "none" <=> r \in Elems(order)

\* Whoever runs the pipeline for an id holds the claim on it.
ClaimHeld == \A t \in Threads : pc[t] \in Running /\ HasId(t) => frame[t].id \in inFlight

\* Nobody is about to type an id that was typed and is not given up.
FreshRun ==
    \A t \in Threads :
        pc[t] \in {"gate", "pipeline"} /\ HasId(t) => frame[t].id \notin typed \ lost

\* The run of thread t has touched the keyboard and not yet told the table.
Unrecorded(t) ==
    \/ pc[t] = "record" /\ reply[t] \in Touching
    \/ pc[t] = "release" /\ panicking[t]

Remembered ==
    up => \A r \in typed \ lost :
            \/ results[r] # "none"
            \/ uncertain[r] # Absent
            \/ \E t \in Threads : frame[t].id = r /\ Unrecorded(t)

\* While the desktop is down, the two files remember for the table.
OnFile == ~up => typed \ lost \subseteq LedgerIds(disk) \cup Elems(legacy)

\* The inductive invariant, in four layers, each resting on those before it.
TableInv == TypeOK /\ OrderMatches
ClaimInv == StageOK /\ ClaimHeld /\ OneRunPerId /\ NoLostWakeup
LedgerInv == LedgerMatchesMemory /\ disk.typed \subseteq Elems(disk.order)
MemoryInv == FreshRun /\ Remembered /\ OnFile /\ NeverTypedTwice
IInv == TableInv /\ ClaimInv /\ LedgerInv /\ MemoryInv
-----------------------------------------------------------------------------
(* The recency order.                                                      *)

\* An order is a sequence of ids without repetition, at most LruCap long.
LEMMA OrdersDef ==
    ASSUME NEW o
    PROVE  o \in Orders <=>
             /\ o \in Seq(Ids) /\ Len(o) <= LruCap
             /\ \A i, j \in 1..Len(o) : o[i] = o[j] => i = j
<1>1. ASSUME o \in Orders
      PROVE  /\ o \in Seq(Ids) /\ Len(o) <= LruCap
             /\ \A i, j \in 1..Len(o) : o[i] = o[j] => i = j
  <2>1. PICK n \in 0..LruCap :
            o \in [1..n -> Ids] /\ \A i, j \in 1..n : o[i] = o[j] => i = j
    BY <1>1 DEF Orders
  <2>2. o \in Seq(Ids) /\ Len(o) = n
    BY <2>1, CapAssumption
  <2> QED BY <2>1, <2>2, CapAssumption
<1>2. ASSUME o \in Seq(Ids), Len(o) <= LruCap,
             \A i, j \in 1..Len(o) : o[i] = o[j] => i = j
      PROVE  o \in Orders
  <2>1. Len(o) \in 0..LruCap /\ o \in [1..Len(o) -> Ids]
    BY <1>2, CapAssumption
  <2> QED BY <2>1, <1>2 DEF Orders
<1> QED BY <1>1, <1>2

\* An id of the order stands at exactly one position, which Position finds.
LEMMA PositionIs ==
    ASSUME NEW o \in Orders, NEW r \in Elems(o)
    PROVE  Position(o, r) \in 1..Len(o) /\ o[Position(o, r)] = r
BY DEF Position, Elems

\* Touching an id keeps the order an order of the same ids.
LEMMA TouchOrder ==
    ASSUME NEW o \in Orders, NEW r \in Elems(o)
    PROVE  Touch(o, r) \in Orders /\ Elems(Touch(o, r)) = Elems(o)
<1> DEFINE k == Position(o, r)
           n == Len(o)
           T == Touch(o, r)
<1>1. /\ o \in Seq(Ids) /\ n \in Nat /\ n <= LruCap /\ k \in 1..n /\ o[k] = r
      /\ \A i \in 1..n : o[i] \in Ids
      /\ \A i, j \in 1..n : o[i] = o[j] => i = j
  BY OrdersDef, PositionIs
<1>2. T = [i \in 1..n |-> IF i = 1 THEN r ELSE IF i <= k THEN o[i - 1] ELSE o[i]]
  BY DEF Touch
<1> HIDE DEF k, T
<1>3. T \in [1..n -> Ids]
  BY <1>1, <1>2
<1>4. T \in Seq(Ids) /\ Len(T) = n
  BY <1>1, <1>3
<1>5. \A i, j \in 1..n : T[i] = T[j] => i = j
  BY <1>1, <1>2
<1>6. T \in Orders
  BY <1>1, <1>4, <1>5, OrdersDef
<1>7. \A i \in 1..n : T[i] \in Elems(o)
  BY <1>1, <1>2 DEF Elems
<1>8. \A i \in 1..n : \E j \in 1..n : T[j] = o[i]
  <2> SUFFICES ASSUME NEW i \in 1..n PROVE \E j \in 1..n : T[j] = o[i]
    OBVIOUS
  <2>1. CASE i = k
    BY <2>1, <1>1, <1>2
  <2>2. CASE i < k
    <3>1. i + 1 \in 1..n /\ T[i + 1] = o[i]
      BY <2>2, <1>1, <1>2
    <3> QED BY <3>1
  <2>3. CASE i > k
    BY <2>3, <1>1, <1>2
  <2> QED BY <2>1, <2>2, <2>3, <1>1
<1> QED BY <1>4, <1>6, <1>7, <1>8 DEF Elems, T

\* Pushing a new id to the front drops the last one when the order is full.
LEMMA PushOrder ==
    ASSUME NEW o \in Orders, NEW r \in Ids, r \notin Elems(o)
    PROVE  /\ PushFront(o, r) \in Orders
           /\ Elems(PushFront(o, r)) = {r} \cup (Elems(o) \ Evicted(o, r))
<1> DEFINE n == Len(o)
           m == Least(n + 1, LruCap)
           P == PushFront(o, r)
<1>1. /\ o \in Seq(Ids) /\ n \in Nat /\ n <= LruCap /\ LruCap \in Nat \ {0}
      /\ \A i \in 1..n : o[i] \in Ids /\ o[i] # r
      /\ \A i, j \in 1..n : o[i] = o[j] => i = j
  BY OrdersDef, CapAssumption DEF Elems
<1>2. P = [i \in 1..m |-> IF i = 1 THEN r ELSE o[i - 1]]
  BY DEF PushFront
<1>3. m \in Nat \ {0} /\ m <= LruCap /\ m <= n + 1 /\ (m = n + 1 \/ (n = LruCap /\ m = n))
  BY <1>1 DEF Least
<1> HIDE DEF m, P
<1>4. P \in [1..m -> Ids]
  BY <1>1, <1>2, <1>3
<1>5. P \in Seq(Ids) /\ Len(P) = m
  BY <1>3, <1>4
<1>6. \A i, j \in 1..m : P[i] = P[j] => i = j
  BY <1>1, <1>2, <1>3
<1>7. P \in Orders
  BY <1>3, <1>5, <1>6, OrdersDef
<1>8. Evicted(o, r) = IF n = LruCap THEN {o[n]} ELSE {}
  BY DEF Evicted
<1>9. ASSUME NEW i \in 1..m
      PROVE  P[i] \in {r} \cup (Elems(o) \ Evicted(o, r))
  <2>1. CASE i = 1
    BY <2>1, <1>2
  <2>2. CASE i # 1
    <3>1. P[i] = o[i - 1] /\ i - 1 \in 1..n
      BY <2>2, <1>1, <1>2, <1>3
    <3>2. o[i - 1] \notin Evicted(o, r)
      BY <3>1, <1>1, <1>3, <1>8
    <3> QED BY <3>1, <3>2 DEF Elems
  <2> QED BY <2>1, <2>2
<1>10. ASSUME NEW s \in Elems(o) \ Evicted(o, r)
       PROVE  \E i \in 1..m : P[i] = s
  <2>1. PICK j \in 1..n : o[j] = s
    BY <1>10 DEF Elems
  <2>2. j + 1 \in 1..m
    BY <2>1, <1>1, <1>3, <1>8, <1>10
  <2>3. P[j + 1] = s
    BY <2>1, <2>2, <1>1, <1>2
  <2> QED BY <2>2, <2>3
<1>11. 1 \in 1..m /\ P[1] = r
  BY <1>2, <1>3
<1> QED BY <1>5, <1>7, <1>9, <1>10, <1>11 DEF Elems, P

\* Removing an id leaves an order of the others.
LEMMA RemoveOrder ==
    ASSUME NEW o \in Orders, NEW r \in Elems(o)
    PROVE  Remove(o, r) \in Orders /\ Elems(Remove(o, r)) = Elems(o) \ {r}
<1> DEFINE k == Position(o, r)
           n == Len(o)
           R == Remove(o, r)
<1>1. /\ o \in Seq(Ids) /\ n \in Nat /\ n <= LruCap /\ k \in 1..n /\ o[k] = r
      /\ \A i \in 1..n : o[i] \in Ids
      /\ \A i, j \in 1..n : o[i] = o[j] => i = j
  BY OrdersDef, PositionIs
<1>2. R = [i \in 1..(n - 1) |-> IF i < k THEN o[i] ELSE o[i + 1]]
  BY DEF Remove
<1> HIDE DEF k, R
<1>3. n - 1 \in Nat /\ R \in [1..(n - 1) -> Ids]
  BY <1>1, <1>2
<1>4. R \in Seq(Ids) /\ Len(R) = n - 1
  BY <1>3
<1>5. \A i, j \in 1..(n - 1) : R[i] = R[j] => i = j
  BY <1>1, <1>2
<1>6. R \in Orders
  BY <1>1, <1>3, <1>4, <1>5, OrdersDef, CapAssumption, SMTT(30)
<1>7. ASSUME NEW i \in 1..(n - 1) PROVE R[i] \in Elems(o) \ {r}
  BY <1>1, <1>2, SMTT(30) DEF Elems
<1>8. ASSUME NEW s \in Elems(o) \ {r} PROVE \E i \in 1..(n - 1) : R[i] = s
  <2>1. PICK j \in 1..n : o[j] = s
    BY <1>8 DEF Elems
  <2>2. CASE j < k
    BY <2>1, <2>2, <1>1, <1>2
  <2>3. CASE j > k
    <3>1. j - 1 \in 1..(n - 1) /\ R[j - 1] = s
      BY <2>1, <2>3, <1>1, <1>2
    <3> QED BY <3>1
  <2> QED BY <2>1, <2>2, <2>3, <1>1, <1>8
<1> QED BY <1>4, <1>6, <1>7, <1>8 DEF Elems, R
-----------------------------------------------------------------------------
(* Types of the table's operators.                                         *)

LEMMA PruneType ==
    ASSUME NEW unc \in [Ids -> Stamps], NEW now
    PROVE  Prune(unc, now) \in [Ids -> Stamps]
BY DEF Prune, Stamps

LEMMA RememberType ==
    ASSUME NEW unc \in [Ids -> Stamps], NEW r \in Ids, NEW at \in Nat
    PROVE  RememberUncertain(unc, r, at) \in [Ids -> Stamps]
BY DEF RememberUncertain, Stamps

LEMMA LedgerType ==
    ASSUME NEW o \in Orders, NEW res \in [Ids -> Entries], NEW unc \in [Ids -> Stamps]
    PROVE  Ledger(o, res, unc) \in
             [order : Orders, typed : SUBSET Ids, uncertain : [Ids -> Stamps]]
<1>1. Elems(o) \subseteq Ids
  BY OrdersDef DEF Elems
<1> QED BY <1>1 DEF Ledger

LEMMA EmptyOrder == <<>> \in Orders /\ Elems(<<>>) = {}
<1>1. <<>> \in Seq(Ids) /\ Len(<<>>) = 0 /\ 1..0 = {}
  OBVIOUS
<1>2. Elems(<<>>) = {}
  BY <1>1 DEF Elems
<1>3. <<>> \in Orders
  <2>1. <<>> \in [1..0 -> Ids] /\ 0 \in 0..LruCap
    BY CapAssumption
  <2> QED BY <1>1, <2>1 DEF Orders
<1> QED BY <1>2, <1>3

\* insert_entry keeps the order and the cached entries in step.
LEMMA InsertKeepsOrder ==
    ASSUME NEW o \in Orders, NEW res \in [Ids -> Entries], NEW r \in Ids,
           NEW entry \in Entries \ {"none"},
           \A s \in Ids : res[s] # "none" <=> s \in Elems(o)
    PROVE  /\ InsertOrder(o, r) \in Orders
           /\ InsertResults(res, o, r, entry) \in [Ids -> Entries]
           /\ \A s \in Ids : InsertResults(res, o, r, entry)[s] # "none"
                             <=> s \in Elems(InsertOrder(o, r))
<1>1. InsertResults(res, o, r, entry) \in [Ids -> Entries]
  BY DEF InsertResults, Entries
<1>2. CASE r \in Elems(o)
  <2>1. Evicted(o, r) = {} /\ InsertOrder(o, r) = Touch(o, r)
    BY <1>2 DEF Evicted, InsertOrder
  <2> QED BY <1>1, <1>2, <2>1, TouchOrder DEF InsertResults
<1>3. CASE r \notin Elems(o)
  <2>1. InsertOrder(o, r) = PushFront(o, r)
    BY <1>3 DEF InsertOrder
  <2>2. r \notin Evicted(o, r)
    <3>1. Len(o) = LruCap => Len(o) \in 1..Len(o)
      BY CapAssumption
    <3> QED BY <1>3, <3>1 DEF Evicted, Elems
  <2> QED BY <1>1, <1>3, <2>1, <2>2, PushOrder DEF InsertResults
<1> QED BY <1>2, <1>3

-----------------------------------------------------------------------------
(* Layer 1: types, and the order lists the cached ids.                     *)

LEMMA TableInit == Init => TableInv
<1> SUFFICES ASSUME Init PROVE TableInv
  OBVIOUS
<1>1. AnyFrame \in Frames
  BY FramesAssumption DEF AnyFrame
<1>2. legacy \in Orders /\ Elems(legacy) \subseteq Ids
  BY DiskAssumption, OrdersDef DEF Init, Elems
<1>3. EmptyLedger \in [order : Orders, typed : SUBSET Ids, uncertain : [Ids -> Stamps]]
  BY EmptyOrder DEF EmptyLedger, Stamps
<1>4. TypeOK
  BY <1>1, <1>2, <1>3, EmptyOrder
  DEF Init, TypeOK, Entries, Stamps, Stages, Replies, Outcomes, Touching
<1>5. OrderMatches
  BY EmptyOrder DEF Init, OrderMatches
<1> QED BY <1>4, <1>5 DEF TableInv

LEMMA TableLoad == TableInv /\ Load => TableInv'
<1> SUFFICES ASSUME TableInv, Load PROVE TableInv'
  OBVIOUS
<1>1. PICK unread \in SUBSET Unreadable :
        /\ LoadFrom(LiveRead(unread), LegacyRead(unread))
        /\ lost' = lost \cup LostAtLoad(LiveRead(unread), LegacyRead(unread))
  BY DEF Load
<1> DEFINE d == LiveRead(unread)
           old == LegacyRead(unread)
           unc == Prune(d.uncertain, clock)
           res == SeedResults(Loaded(d, old))
           Files == [order : Orders, typed : SUBSET Ids, uncertain : [Ids -> Stamps]]
<1>2. /\ TypeOK /\ d \in Files /\ old \in Orders
      /\ Elems(old) \subseteq Ids /\ Elems(legacy) \subseteq Ids
  BY EmptyOrder, OrdersDef
  DEF TableInv, TypeOK, LiveRead, LegacyRead, EmptyLedger, Stamps, Elems
<1> HIDE DEF d, old
<1>3. unc \in [Ids -> Stamps] /\ res \in [Ids -> Entries]
  BY <1>2, PruneType DEF SeedResults, Entries
<1>4. /\ order' \in Orders /\ Elems(order') = Loaded(d, old)
      /\ results' = res /\ uncertain' = unc
  BY <1>1 DEF LoadFrom, IsLoadOrder, d, old
<1>5. Ledger(order', res, unc) \in Files
  BY <1>3, <1>4, LedgerType
<1> HIDE DEF unc, res
<1>6. \/ \E b \in BOOLEAN : Migrate(order', res, unc, b)
      \/ Save(order', res, unc) /\ legacy' = legacy
      \/ disk' = disk /\ unsaved' = (d # disk) /\ legacy' = legacy
  BY <1>1 DEF LoadFrom, d, old, unc, res
<1>7. disk' \in Files /\ legacy' \in Orders /\ unsaved' \in BOOLEAN
  BY <1>2, <1>5, <1>6, EmptyOrder DEF Migrate, Save, TypeOK
<1>8. lost' \subseteq Ids
  BY <1>1, <1>2 DEF LostAtLoad, LedgerIds, Pruned, d, old, TypeOK
<1>9. TypeOK'
  BY <1>2, <1>3, <1>4, <1>7, <1>8 DEF Load, TypeOK, calls, keyboard, bounds
<1>10. OrderMatches'
  BY <1>2, <1>4 DEF OrderMatches, res, SeedResults, Loaded
<1> QED BY <1>9, <1>10 DEF TableInv

LEMMA TableCrash == TableInv /\ Crash => TableInv'
<1> SUFFICES ASSUME TableInv, Crash PROVE TableInv'
  OBVIOUS
<1>1. AnyFrame \in Frames
  BY FramesAssumption DEF AnyFrame
<1>2. TypeOK'
  <2>1. /\ order' \in Orders /\ results' \in [Ids -> Entries]
        /\ uncertain' \in [Ids -> Stamps] /\ elevated' \in [Ids -> Stamps]
        /\ inFlight' \subseteq Ids /\ lastAuto' \subseteq [text : Texts, at : Nat]
    BY EmptyOrder DEF Crash, Entries, Stamps
  <2>2. /\ pc' \in [Threads -> Stages] /\ frame' \in [Threads -> Frames]
        /\ arrived' \in [Threads -> Nat] /\ expired' \in [Threads -> BOOLEAN]
        /\ panicking' \in [Threads -> BOOLEAN] /\ reply' \in [Threads -> Replies]
    BY <1>1 DEF Crash, Stages, Replies
  <2>3. up' \in BOOLEAN /\ clock' \in Nat /\ arrivals' \in Nat /\ crashes' \in Nat
    <3>1. up' \in BOOLEAN
      BY Zenon DEF Crash
    <3>2. clock' = clock /\ arrivals' = arrivals /\ crashes' = crashes + 1
      BY DEF Crash
    <3>3. clock \in Nat /\ arrivals \in Nat /\ crashes \in Nat
      BY DEF TableInv, TypeOK
    <3> QED BY <3>1, <3>2, <3>3
  <2>4. /\ UNCHANGED <<files, keyboard, unsaved>> /\ lost' = lost \cup LostAtCrash
        /\ LostAtCrash \subseteq typed
    BY DEF Crash, LostAtCrash
  <2> QED BY <2>1, <2>2, <2>3, <2>4 DEF TableInv, TypeOK, files, keyboard
<1>3. OrderMatches'
  BY EmptyOrder DEF Crash, OrderMatches
<1> QED BY <1>2, <1>3 DEF TableInv

\* An action that leaves the table, the files and the keyboard alone only has to put
\* values of the right types into the call.
LEMMA TableQuiet ==
    ASSUME TableInv, UNCHANGED <<table, files, history>>,
           up' \in BOOLEAN, clock' \in Nat, arrivals' \in Nat, crashes' \in Nat,
           pc' \in [Threads -> Stages], frame' \in [Threads -> Frames],
           arrived' \in [Threads -> Nat], expired' \in [Threads -> BOOLEAN],
           panicking' \in [Threads -> BOOLEAN], reply' \in [Threads -> Replies]
    PROVE  TableInv'
BY DEF TableInv, TypeOK, OrderMatches, table, files, history, keyboard

LEMMA TableArriveTick ==
    ASSUME TableInv, Tick \/ \E t \in Threads : Arrive(t)
    PROVE  TableInv'
<1>1. CASE Tick
  BY <1>1, TableQuiet DEF Tick, TableInv, TypeOK, calls, bounds
<1>2. ASSUME NEW t \in Threads, Arrive(t) PROVE TableInv'
  BY <1>2, TableQuiet, FramesAssumption
  DEF Arrive, Goto, TableInv, TypeOK, Stages
<1> QED BY <1>1, <1>2

\* The calls that touch nothing but themselves.
LEMMA TableCalls ==
    ASSUME TableInv, NEW t \in Threads,
           \/ BudgetExpires(t) \/ SpuriousWake(t) \/ GateDeferred(t)
           \/ RecordNothing(t) \/ Panic(t) \/ Notify(t) \/ Return(t)
    PROVE  TableInv'
<1> USE DEF TableInv, TypeOK, Goto, Answer, HasId, Stages, Replies, Outcomes, Touching,
            calls, bounds
<1>0. AnyFrame \in Frames
  BY FramesAssumption DEF AnyFrame
<1>1. CASE BudgetExpires(t)
  BY <1>1, TableQuiet DEF BudgetExpires
<1>2. CASE SpuriousWake(t)
  BY <1>2, TableQuiet DEF SpuriousWake
<1>3. CASE GateDeferred(t)
  BY <1>3, TableQuiet DEF GateDeferred
<1>4. CASE RecordNothing(t)
  BY <1>4, TableQuiet DEF RecordNothing
<1>5. CASE Panic(t)
  BY <1>5, TableQuiet DEF Panic
<1>6. CASE Notify(t)
  BY <1>6, TableQuiet DEF Notify
<1>7. CASE Return(t)
  BY <1>0, <1>7, TableQuiet DEF Return
<1> QED BY <1>1, <1>2, <1>3, <1>4, <1>5, <1>6, <1>7

\* The verdicts: each prunes first, and one touches the order.
LEMMA TableClassify ==
    ASSUME TableInv, NEW t \in Threads, Classify(t)
    PROVE  TableInv'
<1>1. TypeOK /\ OrderMatches
  BY DEF TableInv
<1>2. PruneFirst(t)
  BY DEF Classify, ClassifyUncertain, ClassifyHit, ClassifyClaim, ClassifyWait,
         ClassifyStillRunning, ClassifySuppress, ClassifyUnclaimed, Proceeds
<1>3. /\ uncertain' \in [Ids -> Stamps] /\ results' = results
      /\ lost' \subseteq Ids
      /\ disk' \in [order : Orders, typed : SUBSET Ids, uncertain : [Ids -> Stamps]]
      /\ unsaved' \in BOOLEAN
  <2>1. uncertain' \in [Ids -> Stamps]
    BY <1>1, <1>2, PruneType DEF PruneFirst, TypeOK
  <2>2. Ledger(order, results, uncertain')
          \in [order : Orders, typed : SUBSET Ids, uncertain : [Ids -> Stamps]]
    BY <1>1, <2>1, LedgerType DEF TypeOK
  <2> QED BY <1>1, <1>2, <2>1, <2>2 DEF PruneFirst, Save, Pruned, TypeOK
<1>4. ASSUME HasId(t) PROVE frame[t].id \in Ids
  BY <1>1, <1>4, FramesAssumption DEF TypeOK, HasId, FrameType
<1>5. order' \in Orders /\ Elems(order') = Elems(order)
  <2>1. CASE order' = order
    BY <1>1, <2>1 DEF TypeOK
  <2>2. CASE ClassifyHit(t)
    <3>1. frame[t].id \in Elems(order) /\ order' = Touch(order, frame[t].id)
      BY <1>1, <1>4, <2>2 DEF ClassifyHit, OrderMatches
    <3> QED BY <1>1, <3>1, TouchOrder DEF TypeOK
  <2> QED BY <2>1, <2>2
      DEF Classify, ClassifyUncertain, ClassifyClaim, ClassifyWait, ClassifyStillRunning,
          ClassifySuppress, ClassifyUnclaimed, Proceeds
<1>6. pc' \in [Threads -> Stages] /\ reply' \in [Threads -> Replies] /\ inFlight' \subseteq Ids
  BY <1>1, <1>4
  DEF Classify, ClassifyUncertain, ClassifyHit, ClassifyClaim, ClassifyWait, Proceeds,
      ClassifyStillRunning, ClassifySuppress, ClassifyUnclaimed, TypeOK, Goto, Answer,
      Stages, Replies, Outcomes, Touching
<1>7. TypeOK'
  BY <1>1, <1>2, <1>3, <1>5, <1>6 DEF TypeOK, PruneFirst, keyboard, bounds
<1>8. OrderMatches'
  BY <1>1, <1>3, <1>5 DEF OrderMatches
<1> QED BY <1>7, <1>8 DEF TableInv

\* What a frame with an id is made of.
LEMMA FrameId ==
    ASSUME TypeOK, NEW t \in Threads, HasId(t)
    PROVE  frame[t].id \in Ids
BY FramesAssumption DEF TypeOK, HasId, FrameType

LEMMA TablePipeline ==
    ASSUME TableInv, NEW t \in Threads, Pipeline(t)
    PROVE  TableInv'
<1>1. TypeOK /\ OrderMatches
  BY DEF TableInv
<1>2. PICK outcome \in Outcomes :
        LET sent == IF outcome \in Touching /\ HasId(t) THEN {frame[t].id} ELSE {}
        IN  /\ Answer(t, outcome)
            /\ typed' = typed \cup sent
            /\ typedOk' = IF outcome = "ok" THEN typedOk \cup sent ELSE typedOk
            /\ duplicates' = duplicates \cup (sent \cap (typed \ lost))
            /\ lost' = lost \ sent
            /\ autoTyped' =
                 IF outcome \in Touching /\ ~HasId(t) /\ ~frame[t].deliberate
                 THEN autoTyped \cup {[text |-> frame[t].text, at |-> arrived[t]]}
                 ELSE autoTyped
  BY DEF Pipeline
<1>3. frame[t].text \in Texts /\ arrived[t] \in Nat
  BY <1>1, FramesAssumption DEF TypeOK, FrameType
<1>4. /\ typed' \subseteq Ids /\ typedOk' \subseteq Ids /\ lost' \subseteq Ids
      /\ duplicates' \subseteq Ids
  BY <1>1, <1>2, FrameId DEF TypeOK
<1>5. autoTyped' \subseteq [text : Texts, at : Nat]
  BY <1>1, <1>2, <1>3 DEF TypeOK
<1>6. reply' \in [Threads -> Replies] /\ pc' \in [Threads -> Stages]
  BY <1>1, <1>2 DEF TypeOK, Answer, Replies, Pipeline, Goto, Stages
<1>7. TypeOK'
  BY <1>1, <1>4, <1>5, <1>6 DEF TypeOK, Pipeline, table, files, bounds
<1>8. OrderMatches'
  BY <1>1 DEF OrderMatches, Pipeline, table
<1> QED BY <1>7, <1>8 DEF TableInv

LEMMA TableRecord ==
    ASSUME TableInv, NEW t \in Threads,
           RecordResult(t) \/ RecordUncertain(t) \/ Release(t)
    PROVE  TableInv'
<1> DEFINE r == frame[t].id
           Files == [order : Orders, typed : SUBSET Ids, uncertain : [Ids -> Stamps]]
<1>1. TypeOK /\ OrderMatches
  BY DEF TableInv
<1>2. CASE RecordResult(t)
  <2> DEFINE entry == IF reply[t] = "ok" THEN "fullOk" ELSE "fullFailed"
  <2>1. /\ r \in Ids /\ entry \in Entries \ {"none"}
        /\ uncertain' = Prune(uncertain, arrived[t])
        /\ order' = InsertOrder(order, r)
        /\ results' = InsertResults(results, order, r, entry)
        /\ lost' = lost \cup Pruned(uncertain, arrived[t]) \cup Evicted(order, r)
        /\ Save(order', results', uncertain')
        /\ Goto(t, "release")
    BY <1>1, <1>2, FrameId DEF RecordResult, Entries
  <2> HIDE DEF r, entry
  <2>2. uncertain' \in [Ids -> Stamps]
    BY <1>1, <2>1, PruneType DEF TypeOK
  <2>3. /\ order' \in Orders /\ results' \in [Ids -> Entries]
        /\ \A s \in Ids : results'[s] # "none" <=> s \in Elems(order')
    <3>1. order \in Orders /\ results \in [Ids -> Entries]
      BY <1>1 DEF TypeOK
    <3>2. \A s \in Ids : results[s] # "none" <=> s \in Elems(order)
      BY <1>1 DEF OrderMatches
    <3>3. /\ InsertOrder(order, r) \in Orders
          /\ InsertResults(results, order, r, entry) \in [Ids -> Entries]
          /\ \A s \in Ids : InsertResults(results, order, r, entry)[s] # "none"
                            <=> s \in Elems(InsertOrder(order, r))
      BY <2>1, <3>1, <3>2, InsertKeepsOrder
    <3> QED BY <2>1, <3>3
  <2>4. disk' \in Files /\ unsaved' \in BOOLEAN
    <3>1. Ledger(order', results', uncertain') \in Files
      BY <2>2, <2>3, LedgerType
    <3> QED BY <1>1, <2>1, <3>1 DEF Save, TypeOK
  <2>5. lost' \subseteq Ids
    <3>1. Evicted(order, r) \subseteq Ids
      BY <1>1, OrdersDef, CapAssumption DEF Evicted, TypeOK
    <3> QED BY <1>1, <2>1, <3>1 DEF Pruned, TypeOK
  <2>6. TypeOK'
    BY <1>1, <1>2, <2>1, <2>2, <2>3, <2>4, <2>5
    DEF TypeOK, RecordResult, Goto, Stages, keyboard, bounds
  <2> QED BY <2>3, <2>6 DEF TableInv, OrderMatches
<1>3. CASE RecordUncertain(t)
  <2> DEFINE known == RememberUncertain(uncertain, r, arrived[t])
  <2>1. /\ r \in Ids /\ arrived[t] \in Nat
        /\ uncertain' = Prune(known, arrived[t])
        /\ order' = IF r \in Elems(order) THEN Remove(order, r) ELSE order
        /\ results' = [results EXCEPT ![r] = "none"]
        /\ lost' = lost \cup Pruned(known, arrived[t])
        /\ Save(order', results', uncertain')
        /\ Goto(t, "release")
    BY <1>1, <1>3, FrameId DEF RecordUncertain, TypeOK
  <2> HIDE DEF r
  <2>2. uncertain' \in [Ids -> Stamps]
    <3>1. known \in [Ids -> Stamps]
      BY <1>1, <2>1, RememberType DEF TypeOK
    <3> QED BY <2>1, <3>1, PruneType
  <2> HIDE DEF known
  <2>3. /\ order' \in Orders /\ results' \in [Ids -> Entries]
        /\ \A s \in Ids : results'[s] # "none" <=> s \in Elems(order')
    <3>1. CASE r \in Elems(order)
      BY <1>1, <2>1, <3>1, RemoveOrder DEF TypeOK, OrderMatches, Entries
    <3>2. CASE r \notin Elems(order)
      BY <1>1, <2>1, <3>2 DEF TypeOK, OrderMatches, Entries
    <3> QED BY <3>1, <3>2
  <2>4. disk' \in Files /\ unsaved' \in BOOLEAN
    <3>1. Ledger(order', results', uncertain') \in Files
      BY <2>2, <2>3, LedgerType
    <3> QED BY <1>1, <2>1, <3>1 DEF Save, TypeOK
  <2>5. TypeOK'
    BY <1>1, <1>3, <2>1, <2>2, <2>3, <2>4
    DEF TypeOK, RecordUncertain, Goto, Stages, keyboard, bounds, Pruned
  <2> QED BY <2>3, <2>5 DEF TableInv, OrderMatches
<1>4. CASE Release(t)
  <2>1. uncertain' \in [Ids -> Stamps] /\ order' = order /\ results' = results
    <3>1. ASSUME uncertain' = RememberUncertain(uncertain, r, clock)
          PROVE  uncertain' \in [Ids -> Stamps]
      BY <1>1, <3>1 DEF RememberUncertain, TypeOK, Stamps
    <3> QED BY <1>1, <1>4, <3>1 DEF Release, TypeOK
  <2>2. disk' \in Files /\ unsaved' \in BOOLEAN
    <3>1. Ledger(order, results, uncertain') \in Files
      BY <1>1, <2>1, LedgerType DEF TypeOK
    <3> QED BY <1>1, <1>4, <3>1 DEF Release, Save, TypeOK
  <2>3. TypeOK'
    BY <1>1, <1>4, <2>1, <2>2 DEF TypeOK, Release, Goto, Stages, keyboard, bounds
  <2> QED BY <1>1, <2>1, <2>3 DEF TableInv, OrderMatches
<1> QED BY <1>2, <1>3, <1>4

LEMMA TableElevated ==
    ASSUME TableInv, NEW t \in Threads,
           \/ GateElevated(t) \/ GatePass(t) \/ RecordElevated(t) \/ RecordAuto(t)
    PROVE  TableInv'
<1>1. TypeOK /\ OrderMatches
  BY DEF TableInv
<1>2. /\ UNCHANGED <<up, clock, order, results, uncertain, inFlight, files, history, bounds>>
      /\ UNCHANGED <<frame, arrived, expired, panicking>>
  BY DEF GateElevated, GatePass, RecordElevated, RecordAuto
<1>3. elevated' \in [Ids -> Stamps]
  BY <1>1, ZenonT(60) DEF GateElevated, GatePass, RecordElevated, RecordAuto, RetainAlive, TypeOK, Stamps
<1>4. lastAuto' \subseteq [text : Texts, at : Nat]
  <2>1. frame[t].text \in Texts /\ arrived[t] \in Nat
    BY <1>1, FramesAssumption DEF TypeOK, FrameType
  <2> QED BY <1>1, <2>1 DEF GateElevated, GatePass, RecordElevated, RecordAuto, TypeOK
<1>5. pc' \in [Threads -> Stages] /\ reply' \in [Threads -> Replies]
  BY <1>1
  DEF GateElevated, GatePass, RecordElevated, RecordAuto, TypeOK, Goto, Answer, Stages,
      Replies, Outcomes
<1>6. TypeOK'
  BY <1>1, <1>2, <1>3, <1>4, <1>5 DEF TypeOK, files, history, keyboard, bounds
<1>7. OrderMatches'
  BY <1>1, <1>2 DEF OrderMatches
<1> QED BY <1>6, <1>7 DEF TableInv

LEMMA TableNext == TableInv /\ [Next]_vars => TableInv'
<1> SUFFICES ASSUME TableInv, [Next]_vars PROVE TableInv'
  OBVIOUS
<1>1. CASE UNCHANGED vars
  BY <1>1, TableQuiet DEF vars, TableInv, TypeOK, calls, bounds
<1>2. CASE Load \/ Crash \/ Tick
  BY <1>2, TableLoad, TableCrash, TableArriveTick
<1>3. ASSUME NEW t \in Threads, Arrive(t) \/ SpuriousWake(t) \/ Panic(t)
      PROVE  TableInv'
  BY <1>3, TableArriveTick, TableCalls
<1>4. ASSUME NEW t \in Threads, Proceed(t)
      PROVE  TableInv'
  BY <1>4, TableCalls, TableClassify, TablePipeline, TableRecord, TableElevated
  DEF Proceed, Scheduled, Record
<1> QED BY <1>1, <1>2, <1>3, <1>4 DEF Next

\* Every variable of the desktop's dedup keeps its type, and the LRU never holds an id
\* twice nor more ids than its capacity, whatever the frames, crashes and disk errors.
THEOREM TypeCorrect == Spec => []TypeOK
<1>1. Spec => []TableInv
  BY TableInit, TableNext, PTL DEF Spec
<1>2. TableInv => TypeOK
  BY DEF TableInv
<1> QED BY <1>1, <1>2, PTL

-----------------------------------------------------------------------------
(* Layer 2: the claim.                                                     *)

LEMMA ClaimInit == Init => ClaimInv
BY DEF Init, ClaimInv, StageOK, ClaimHeld, OneRunPerId, NoLostWakeup, Running

\* A call that goes on to a later stage under the claim it has, or without one.
LEMMA ClaimMove ==
    ASSUME TypeOK, ClaimInv, NEW t \in Threads, NEW stage,
           pc' = [pc EXCEPT ![t] = stage], UNCHANGED <<up, frame, inFlight>>,
           pc[t] # "idle", pc[t] # "notify",
           stage \in Running /\ HasId(t) => pc[t] \in Running,
           stage \in {"waiting", "release", "notify"} => HasId(t),
           stage = "waiting" => frame[t].id \in inFlight
    PROVE  ClaimInv'
<1>1. pc \in [Threads -> Stages] /\ pc'[t] = stage
      /\ \A u \in Threads \ {t} : pc'[u] = pc[u]
  BY DEF TypeOK
<1>2. StageOK'
  BY <1>1 DEF ClaimInv, StageOK, HasId
<1>3. ClaimHeld'
  BY <1>1 DEF ClaimInv, ClaimHeld, HasId
<1>4. OneRunPerId'
  BY <1>1 DEF ClaimInv, OneRunPerId, HasId
<1>5. NoLostWakeup'
  BY <1>1 DEF ClaimInv, NoLostWakeup, HasId
<1> QED BY <1>2, <1>3, <1>4, <1>5 DEF ClaimInv

LEMMA ClaimQuietStep ==
    ASSUME TypeOK, ClaimInv, NEW t \in Threads,
           \/ ClassifyUncertain(t) \/ ClassifyHit(t) \/ ClassifyWait(t)
           \/ ClassifyStillRunning(t) \/ ClassifySuppress(t) \/ ClassifyUnclaimed(t)
           \/ BudgetExpires(t) \/ SpuriousWake(t) \/ Panic(t)
           \/ GateDeferred(t) \/ GateElevated(t) \/ GatePass(t) \/ Pipeline(t) \/ Record(t)
    PROVE  ClaimInv'
<1> USE ClaimMove DEF Goto, Running
<1>1. CASE \/ ClassifyUncertain(t) \/ ClassifyHit(t) \/ ClassifyWait(t)
           \/ ClassifyStillRunning(t) \/ ClassifySuppress(t) \/ ClassifyUnclaimed(t)
  BY <1>1
  DEF ClassifyUncertain, ClassifyHit, ClassifyWait, ClassifyStillRunning, ClassifySuppress,
      ClassifyUnclaimed, Proceeds, PruneFirst
<1>2. CASE BudgetExpires(t) \/ SpuriousWake(t)
  BY <1>2 DEF BudgetExpires, SpuriousWake, table
<1>3. CASE Panic(t)
  BY <1>3 DEF Panic, table
<1>4. CASE GateDeferred(t) \/ GateElevated(t) \/ GatePass(t)
  BY <1>4 DEF GateDeferred, GateElevated, GatePass, table
<1>5. CASE Pipeline(t)
  BY <1>5 DEF Pipeline, table
<1>6. CASE Record(t)
  BY <1>6
  DEF Record, RecordResult, RecordUncertain, RecordElevated, RecordAuto, RecordNothing, table
<1> QED BY <1>1, <1>2, <1>3, <1>4, <1>5, <1>6

LEMMA ClaimTaken ==
    ASSUME TypeOK, ClaimInv, NEW t \in Threads, ClassifyClaim(t)
    PROVE  ClaimInv'
<1>1. /\ pc[t] = "classify" /\ HasId(t) /\ frame[t].id \notin inFlight
      /\ pc' = [pc EXCEPT ![t] = "gate"] /\ frame' = frame /\ up' = up
      /\ inFlight' = inFlight \cup {frame[t].id}
  BY DEF ClassifyClaim, Proceeds, PruneFirst, Goto
<1>2. pc \in [Threads -> Stages]
  BY DEF TypeOK
<1>3. StageOK'
  BY <1>1, <1>2 DEF ClaimInv, StageOK, HasId
<1>4. ClaimHeld'
  BY <1>1, <1>2 DEF ClaimInv, ClaimHeld, HasId
<1>5. OneRunPerId'
  BY <1>1, <1>2 DEF ClaimInv, OneRunPerId, ClaimHeld, HasId
<1>6. NoLostWakeup'
  BY <1>1, <1>2 DEF ClaimInv, NoLostWakeup
<1> QED BY <1>3, <1>4, <1>5, <1>6 DEF ClaimInv

LEMMA ClaimReleased ==
    ASSUME TypeOK, ClaimInv, NEW t \in Threads, Release(t)
    PROVE  ClaimInv'
<1>1. /\ pc[t] = "release" /\ pc' = [pc EXCEPT ![t] = "notify"]
      /\ frame' = frame /\ up' = up /\ inFlight' = inFlight \ {frame[t].id}
  BY DEF Release, Goto
<1>2. pc \in [Threads -> Stages]
  BY DEF TypeOK
<1>3. StageOK'
  BY <1>1, <1>2 DEF ClaimInv, StageOK, HasId
<1>4. ClaimHeld'
  <2> SUFFICES ASSUME NEW u \in Threads, pc'[u] \in Running, HasId(u)'
               PROVE  frame'[u].id \in inFlight'
    BY DEF ClaimHeld
  <2>1. u # t /\ pc[u] \in Running /\ HasId(u)
    BY <1>1, <1>2 DEF Running, HasId
  <2>2. HasId(t) /\ pc[t] \in Running
    BY <1>1 DEF ClaimInv, StageOK, Running
  <2>3. frame[u].id \in inFlight /\ frame[u].id # frame[t].id
    BY <2>1, <2>2 DEF ClaimInv, ClaimHeld, OneRunPerId
  <2> QED BY <1>1, <2>3
<1>5. OneRunPerId'
  BY <1>1, <1>2 DEF ClaimInv, OneRunPerId, HasId, Running
<1>6. NoLostWakeup'
  BY <1>1, <1>2 DEF NoLostWakeup
<1> QED BY <1>3, <1>4, <1>5, <1>6 DEF ClaimInv

LEMMA ClaimOther ==
    ASSUME TypeOK, ClaimInv, NEW t \in Threads, Arrive(t) \/ Notify(t) \/ Return(t)
    PROVE  ClaimInv'
<1>1. pc \in [Threads -> Stages] /\ frame \in [Threads -> Frames]
  BY DEF TypeOK
<1>2. CASE Arrive(t)
  <2>1. /\ up /\ pc[t] = "idle" /\ pc' = [pc EXCEPT ![t] = "classify"]
        /\ up' = up /\ inFlight' = inFlight
        /\ \A u \in Threads \ {t} : frame'[u] = frame[u]
    BY <1>1, <1>2 DEF Arrive, Goto, table
  <2> QED BY <1>1, <2>1
          DEF ClaimInv, StageOK, ClaimHeld, OneRunPerId, NoLostWakeup, HasId, Running
<1>3. CASE Notify(t)
  <2>1. /\ pc[t] = "notify" /\ frame' = frame /\ up' = up /\ inFlight' = inFlight
        /\ \A u \in Threads :
             pc'[u] = IF u = t THEN "reply" ELSE IF pc[u] = "waiting" THEN "classify" ELSE pc[u]
    BY <1>3 DEF Notify, table
  <2> QED BY <2>1
          DEF ClaimInv, StageOK, ClaimHeld, OneRunPerId, NoLostWakeup, HasId, Running
<1>4. CASE Return(t)
  <2>1. /\ pc[t] = "reply" /\ pc' = [pc EXCEPT ![t] = "idle"]
        /\ up' = up /\ inFlight' = inFlight
        /\ \A u \in Threads \ {t} : frame'[u] = frame[u]
    BY <1>1, <1>4 DEF Return, Goto, table
  <2> QED BY <1>1, <2>1
          DEF ClaimInv, StageOK, ClaimHeld, OneRunPerId, NoLostWakeup, HasId, Running
<1> QED BY <1>2, <1>3, <1>4

LEMMA ClaimNext ==
    ASSUME TypeOK, ClaimInv, [Next]_vars
    PROVE  ClaimInv'
<1>1. CASE UNCHANGED vars
  BY <1>1
  DEF vars, table, calls, ClaimInv, StageOK, ClaimHeld, OneRunPerId, NoLostWakeup, HasId
<1>2. CASE Load
  <2>1. up' = TRUE /\ UNCHANGED <<pc, frame, inFlight>>
    BY <1>2 DEF Load, calls
  <2> QED BY <2>1 DEF ClaimInv, StageOK, ClaimHeld, OneRunPerId, NoLostWakeup, HasId
<1>3. CASE Crash
  <2>1. pc' = [t \in Threads |-> "idle"]
    BY <1>3 DEF Crash
  <2> QED BY <2>1 DEF ClaimInv, StageOK, ClaimHeld, OneRunPerId, NoLostWakeup, Running
<1>4. CASE Tick
  BY <1>4
  DEF Tick, table, calls, ClaimInv, StageOK, ClaimHeld, OneRunPerId, NoLostWakeup, HasId
<1>5. ASSUME NEW t \in Threads, Arrive(t) \/ SpuriousWake(t) \/ Panic(t)
      PROVE  ClaimInv'
  BY <1>5, ClaimOther, ClaimQuietStep
<1>6. ASSUME NEW t \in Threads, Proceed(t)
      PROVE  ClaimInv'
  BY <1>6, ClaimQuietStep, ClaimTaken, ClaimReleased, ClaimOther DEF Proceed, Scheduled, Classify
<1> QED BY <1>1, <1>2, <1>3, <1>4, <1>5, <1>6 DEF Next

\* NR-287 for any number of channels: two frames with the same request_id are never in
\* the pipeline together.
THEOREM OneRun == Spec => []OneRunPerId
<1>1. Spec => [](TableInv /\ ClaimInv)
  <2>1. Init => TableInv /\ ClaimInv
    BY TableInit, ClaimInit
  <2>2. TableInv /\ ClaimInv /\ [Next]_vars => (TableInv /\ ClaimInv)'
    BY TableNext, ClaimNext DEF TableInv
  <2> QED BY <2>1, <2>2, PTL DEF Spec
<1>2. ClaimInv => OneRunPerId
  BY DEF ClaimInv
<1> QED BY <1>1, <1>2, PTL

\* A frame asleep on the claim is never forgotten: its id is running, or its runner is
\* on its way to notify_all.
THEOREM Wakeups == Spec => []NoLostWakeup
<1>1. Spec => [](TableInv /\ ClaimInv)
  <2>1. Init => TableInv /\ ClaimInv
    BY TableInit, ClaimInit
  <2>2. TableInv /\ ClaimInv /\ [Next]_vars => (TableInv /\ ClaimInv)'
    BY TableNext, ClaimNext DEF TableInv
  <2> QED BY <2>1, <2>2, PTL DEF Spec
<1>2. ClaimInv => NoLostWakeup
  BY DEF ClaimInv
<1> QED BY <1>1, <1>2, PTL

-----------------------------------------------------------------------------
(* Layer 3: the file holds what the table knows.                           *)

\* An order lists at most LruCap ids.
LEMMA OrderCount ==
    ASSUME NEW o \in Orders
    PROVE  IsFiniteSet(Elems(o)) /\ Cardinality(Elems(o)) <= LruCap
<1>1. o \in Seq(Ids) /\ Len(o) \in Nat /\ Len(o) <= LruCap /\ LruCap \in Nat
  BY OrdersDef, CapAssumption
<1>2. IsFiniteSet(1..Len(o)) /\ Cardinality(1..Len(o)) = Len(o)
  <2>1. 1 \in Int /\ Len(o) \in Int
    BY <1>1
  <2>2. /\ IsFiniteSet(1..Len(o))
        /\ Cardinality(1..Len(o)) = IF 1 > Len(o) THEN 0 ELSE Len(o) - 1 + 1
    BY <2>1, FS_Interval, Zenon
  <2> QED BY <1>1, <2>2
<1>3. [i \in 1..Len(o) |-> o[i]] \in Surjection(1..Len(o), Elems(o))
  BY DEF Surjection, Elems
<1>4. IsFiniteSet(Elems(o)) /\ Cardinality(Elems(o)) <= Len(o)
  BY <1>2, <1>3, FS_Surjection
<1>5. Cardinality(Elems(o)) \in Nat
  BY <1>4, FS_CardinalityType
<1> QED BY <1>1, <1>4, <1>5

\* Every id of the two files has a rank in the merge.
LEMMA RankType ==
    ASSUME NEW d \in [order : Orders, typed : SUBSET Ids, uncertain : [Ids -> Stamps]],
           d.typed \subseteq Elems(d.order), NEW old \in Orders,
           NEW r \in d.typed \cup Elems(old)
    PROVE  Rank(d, old, r) \in Int /\ -1 <= Rank(d, old, r)
<1>1. Len(old) \in Nat
  BY OrdersDef
<1>2. FileLength(d) \in Nat
  <2>1. IsFiniteSet(d.typed) /\ IsFiniteSet({s \in Ids : d.uncertain[s] # Absent})
    BY IdsAssumption, FS_Subset
  <2> QED BY <2>1, FS_CardinalityType DEF FileLength
<1>3. r \in Elems(old) => Position(old, r) \in 1..Len(old)
  BY PositionIs
<1>4. r \in d.typed => FilePosition(d, r) \in Nat
  <2> SUFFICES ASSUME r \in d.typed PROVE FilePosition(d, r) \in Nat
    OBVIOUS
  <2> DEFINE before == {i \in 1..Position(d.order, r) : d.order[i] \in d.typed}
  <2>1. Position(d.order, r) \in Int
    BY PositionIs, OrdersDef
  <2>2. IsFiniteSet(1..Position(d.order, r))
    BY <2>1, FS_Interval
  <2>3. IsFiniteSet(before)
    BY <2>2, FS_Subset
  <2> QED BY <2>3, FS_CardinalityType DEF FilePosition
<1> QED BY <1>1, <1>2, <1>3, <1>4 DEF Rank, Least

\* A merge that fits into the LRU loses nothing.
LEMMA LoadedAll ==
    ASSUME NEW d \in [order : Orders, typed : SUBSET Ids, uncertain : [Ids -> Stamps]],
           d.typed \subseteq Elems(d.order), NEW old \in Orders,
           Cardinality(d.typed \cup Elems(old)) <= LruCap
    PROVE  Loaded(d, old) = d.typed \cup Elems(old)
<1> DEFINE ids == d.typed \cup Elems(old)
           Before(r) == {s \in ids : Rank(d, old, s) < Rank(d, old, r)}
<1>1. IsFiniteSet(ids)
  <2>1. ids \subseteq Ids
    BY OrdersDef DEF Elems
  <2> QED BY <2>1, IdsAssumption, FS_Subset
<1>2. ASSUME NEW r \in ids PROVE Cardinality(Before(r)) < LruCap
  <2>1. Before(r) \subseteq ids \ {r}
    BY RankType
  <2>2. IsFiniteSet(ids \ {r}) /\ Cardinality(ids \ {r}) = Cardinality(ids) - 1
    BY <1>1, FS_RemoveElement
  <2>3. IsFiniteSet(Before(r)) /\ Cardinality(Before(r)) <= Cardinality(ids \ {r})
    BY <2>1, <2>2, FS_Subset
  <2>4. Cardinality(ids) \in Nat /\ Cardinality(Before(r)) \in Nat
    BY <1>1, <2>3, FS_CardinalityType
  <2> QED BY <2>2, <2>3, <2>4, CapAssumption
<1> QED BY <1>2 DEF Loaded

\* A write that succeeds leaves the file as the table, and one that fails says so.
LEMMA SaveMatches ==
    ASSUME TableInv', \/ disk' = Ledger(order', results', uncertain')
                      \/ unsaved' = TRUE /\ disk.typed \subseteq Elems(disk.order) /\ disk' = disk
    PROVE  LedgerInv'
<1>1. CASE disk' = Ledger(order', results', uncertain')
  <2>1. /\ disk'.typed = {r \in Elems(order') : results'[r] \in TypedEntries}
        /\ disk'.uncertain = uncertain' /\ disk'.order = order'
    BY <1>1 DEF Ledger
  <2>2. \A r \in Ids : results'[r] \in TypedEntries => r \in Elems(order')
    BY DEF TableInv, OrderMatches, TypedEntries
  <2>3. Elems(order') \subseteq Ids
    BY OrdersDef DEF TableInv, TypeOK, Elems
  <2> QED BY <2>1, <2>2, <2>3 DEF LedgerInv, LedgerMatchesMemory
<1>2. CASE unsaved' = TRUE /\ disk.typed \subseteq Elems(disk.order) /\ disk' = disk
  BY <1>2 DEF LedgerInv, LedgerMatchesMemory
<1> QED BY <1>1, <1>2

LEMMA LedgerInit == Init => LedgerInv
BY EmptyOrder DEF Init, LedgerInv, LedgerMatchesMemory, EmptyLedger

LEMMA LedgerLoad ==
    ASSUME TableInv, LedgerInv, Load, TableInv'
    PROVE  LedgerInv'
<1>1. PICK unread \in SUBSET Unreadable : LoadFrom(LiveRead(unread), LegacyRead(unread))
  BY DEF Load
<1> DEFINE d == LiveRead(unread)
           old == LegacyRead(unread)
           res == SeedResults(Loaded(d, old))
           unc == Prune(d.uncertain, clock)
           saves == \E r \in Ids : d.uncertain[r] # Absent
<1>2. results' = res /\ uncertain' = unc
  BY <1>1 DEF LoadFrom
<1>3. CASE legacy # <<>> /\ Migrate(order', res, unc, saves)
  BY <1>2, <1>3, SaveMatches DEF Migrate, LedgerInv
<1>4. CASE legacy = <<>> /\ saves /\ Save(order', res, unc)
  BY <1>2, <1>4, SaveMatches DEF Save, LedgerInv
<1>5. CASE /\ legacy = <<>> /\ ~saves
           /\ disk' = disk /\ unsaved' = (d # disk) /\ legacy' = legacy
  <2>1. CASE d # disk
    <3>1. unsaved' = TRUE
      BY <1>5, <2>1
    <3> QED BY <1>5, <3>1, SaveMatches DEF LedgerInv
  <2>2. CASE d = disk
    <3>1. Elems(old) = {} /\ old \in Orders
      BY <1>5, EmptyOrder DEF LegacyRead
    <3>2. /\ disk \in [order : Orders, typed : SUBSET Ids, uncertain : [Ids -> Stamps]]
          /\ disk.typed \subseteq Elems(disk.order) /\ disk.order \in Orders
      BY DEF TableInv, TypeOK, LedgerInv
    <3>3. Cardinality(disk.typed) <= LruCap
      <4>1. /\ IsFiniteSet(Elems(disk.order)) /\ Cardinality(Elems(disk.order)) <= LruCap
        BY <3>2, OrderCount
      <4>2. IsFiniteSet(disk.typed) /\ Cardinality(disk.typed) <= Cardinality(Elems(disk.order))
        BY <3>2, <4>1, FS_Subset
      <4>3. Cardinality(disk.typed) \in Nat /\ Cardinality(Elems(disk.order)) \in Nat
        BY <4>1, <4>2, FS_CardinalityType
      <4> QED BY <4>1, <4>2, <4>3, CapAssumption
    <3>4. Loaded(d, old) = disk.typed
      <4>1. disk.typed \cup Elems(old) = disk.typed
        BY <3>1
      <4> QED BY <2>2, <3>1, <3>2, <3>3, <4>1, LoadedAll
    <3>5. \A r \in Ids : d.uncertain[r] = Absent
      BY <1>5
    <3>6. unc = disk.uncertain
      BY <2>2, <3>2, <3>5 DEF Prune
    <3>7. disk.typed = {r \in Ids : res[r] \in TypedEntries}
      BY <3>2, <3>4 DEF SeedResults, TypedEntries
    <3> QED BY <1>2, <1>5, <3>2, <3>6, <3>7 DEF LedgerInv, LedgerMatchesMemory
  <2> QED BY <2>1, <2>2
<1> QED BY <1>1, <1>3, <1>4, <1>5 DEF LoadFrom

\* The file and what it mirrors are left alone.
LEMMA LedgerKeep ==
    ASSUME LedgerInv, UNCHANGED <<up, unsaved, disk, results, uncertain>>
    PROVE  LedgerInv'
BY DEF LedgerInv, LedgerMatchesMemory

LEMMA LedgerClassify ==
    ASSUME TableInv, LedgerInv, NEW t \in Threads, Classify(t), TableInv'
    PROVE  LedgerInv'
<1>1. PruneFirst(t)
  BY DEF Classify, ClassifyUncertain, ClassifyHit, ClassifyClaim, ClassifyWait,
         ClassifyStillRunning, ClassifySuppress, ClassifyUnclaimed, Proceeds
<1>2. CASE Pruned(uncertain, arrived[t]) = {}
  <2>1. UNCHANGED <<up, unsaved, disk, results>> /\ uncertain' = Prune(uncertain, arrived[t])
    BY <1>1, <1>2 DEF PruneFirst
  <2>2. \A r \in Ids : Prune(uncertain, arrived[t])[r] = uncertain[r]
    <3>1. \A r \in Ids : uncertain[r] # Absent => Prune(uncertain, arrived[t])[r] # Absent
      BY <1>2 DEF Pruned
    <3> QED BY <3>1 DEF Prune
  <2>3. uncertain' = uncertain
    <3>1. uncertain \in [Ids -> Stamps] /\ uncertain' \in [Ids -> Stamps]
      BY DEF TableInv, TypeOK
    <3> QED BY <2>1, <2>2, <3>1
  <2> QED BY <2>1, <2>3, LedgerKeep
<1>3. CASE Pruned(uncertain, arrived[t]) # {}
  <2>1. Save(order, results, uncertain') /\ results' = results /\ up' = up
    BY <1>1, <1>3 DEF PruneFirst
  <2>2. CASE disk' = disk /\ unsaved' = TRUE
    BY <2>2, SaveMatches DEF LedgerInv
  <2>3. CASE disk' = Ledger(order, results, uncertain')
    <3>1. /\ disk'.typed = {r \in Elems(order) : results[r] \in TypedEntries}
          /\ disk'.uncertain = uncertain' /\ disk'.order = order
      BY <2>3 DEF Ledger
    <3>2. \A r \in Ids : results[r] \in TypedEntries => r \in Elems(order)
      BY DEF TableInv, OrderMatches, TypedEntries
    <3>3. Elems(order) \subseteq Ids
      BY OrdersDef DEF TableInv, TypeOK, Elems
    <3> QED BY <2>1, <3>1, <3>2, <3>3 DEF LedgerInv, LedgerMatchesMemory
  <2> QED BY <2>1, <2>2, <2>3 DEF Save
<1> QED BY <1>2, <1>3

LEMMA LedgerRecord ==
    ASSUME TableInv, LedgerInv, NEW t \in Threads, Record(t), TableInv'
    PROVE  LedgerInv'
<1>1. CASE RecordResult(t) \/ RecordUncertain(t)
  BY <1>1, SaveMatches DEF RecordResult, RecordUncertain, Save, LedgerInv
<1>2. CASE RecordElevated(t) \/ RecordAuto(t) \/ RecordNothing(t)
  BY <1>2, LedgerKeep DEF RecordElevated, RecordAuto, RecordNothing, files, history, table
<1> QED BY <1>1, <1>2 DEF Record

LEMMA LedgerRelease ==
    ASSUME TableInv, LedgerInv, NEW t \in Threads, Release(t), TableInv'
    PROVE  LedgerInv'
<1>1. UNCHANGED <<up, order, results>>
  BY DEF Release
<1>2. CASE UNCHANGED <<uncertain, disk, unsaved>>
  BY <1>1, <1>2, LedgerKeep
<1>3. CASE Save(order, results, uncertain')
  BY <1>1, <1>3, SaveMatches DEF Save, LedgerInv
<1> QED BY <1>2, <1>3 DEF Release

LEMMA LedgerNext ==
    ASSUME TableInv, LedgerInv, [Next]_vars
    PROVE  LedgerInv'
<1>1. TableInv'
  BY TableNext
<1>2. CASE UNCHANGED vars
  BY <1>2, LedgerKeep DEF vars, table, files, history
<1>3. CASE Load
  BY <1>1, <1>3, LedgerLoad
<1>4. CASE Crash
  BY <1>4 DEF Crash, files, LedgerInv, LedgerMatchesMemory
<1>5. CASE Tick
  BY <1>5, LedgerKeep DEF Tick, table, files, history
<1>6. ASSUME NEW t \in Threads, Arrive(t) \/ SpuriousWake(t) \/ Panic(t)
      PROVE  LedgerInv'
  BY <1>6, LedgerKeep DEF Arrive, SpuriousWake, Panic, table, files, history
<1>7. ASSUME NEW t \in Threads, Proceed(t)
      PROVE  LedgerInv'
  <2>1. CASE Classify(t)
    BY <1>1, <2>1, LedgerClassify
  <2>2. CASE Record(t)
    BY <1>1, <2>2, LedgerRecord
  <2>3. CASE Release(t)
    BY <1>1, <2>3, LedgerRelease
  <2>4. CASE \/ BudgetExpires(t) \/ GateDeferred(t) \/ GateElevated(t) \/ GatePass(t)
             \/ Pipeline(t) \/ Notify(t) \/ Return(t)
    BY <2>4, LedgerKeep
    DEF BudgetExpires, GateDeferred, GateElevated, GatePass, Pipeline, Notify, Return,
        table, files, history
  <2> QED BY <1>7, <2>1, <2>2, <2>3, <2>4 DEF Proceed, Scheduled
<1> QED BY <1>2, <1>3, <1>4, <1>5, <1>6, <1>7 DEF Next

\* RV-83 for every history of writes, failed writes and boots.
THEOREM LedgerHolds == Spec => []LedgerMatchesMemory
<1>1. Spec => [](TableInv /\ LedgerInv)
  <2>1. Init => TableInv /\ LedgerInv
    BY TableInit, LedgerInit
  <2>2. TableInv /\ LedgerInv /\ [Next]_vars => (TableInv /\ LedgerInv)'
    BY TableNext, LedgerNext
  <2> QED BY <2>1, <2>2, PTL DEF Spec
<1>2. LedgerInv => LedgerMatchesMemory
  BY DEF LedgerInv
<1> QED BY <1>1, <1>2, PTL

-----------------------------------------------------------------------------
(* Layer 4: what was typed is remembered.                                  *)

LEMMA MemoryInit == Init => MemoryInv
BY DEF Init, MemoryInv, FreshRun, Remembered, OnFile, NeverTypedTwice

\* A step that sends no key and after which every id typed and not given up is still
\* remembered keeps the layer, as long as no frame newly passes the verdict.
LEMMA MemoryKeep ==
    ASSUME MemoryInv, UNCHANGED <<typed, duplicates>>, lost \subseteq lost', up',
           \A t \in Threads :
              pc'[t] \in {"gate", "pipeline"} /\ HasId(t)'
                => pc[t] \in {"gate", "pipeline"} /\ HasId(t) /\ frame'[t] = frame[t],
           Remembered'
    PROVE  MemoryInv'
BY DEF MemoryInv, FreshRun, OnFile, NeverTypedTwice, HasId

\* The table is unchanged and every run that owes the table a record still owes it.
LEMMA MemoryTable ==
    ASSUME TypeOK, MemoryInv, UNCHANGED <<up, results, uncertain, typed, lost>>,
           \A t \in Threads :
              Unrecorded(t) /\ HasId(t) => frame'[t].id = frame[t].id /\ Unrecorded(t)'
    PROVE  Remembered'
<1>1. typed \subseteq Ids /\ NoId \notin Ids
  BY IdsAssumption DEF TypeOK
<1> QED BY <1>1 DEF MemoryInv, Remembered, HasId

LEMMA MemoryLoad ==
    ASSUME TypeOK, ClaimInv, LedgerInv, MemoryInv, Load, "legacy" \notin Unreadable
    PROVE  MemoryInv'
<1>1. PICK unread \in SUBSET Unreadable :
        /\ LoadFrom(LiveRead(unread), LegacyRead(unread))
        /\ lost' = lost \cup LostAtLoad(LiveRead(unread), LegacyRead(unread))
  BY DEF Load
<1> DEFINE d == LiveRead(unread)
           old == LegacyRead(unread)
<1>2. old = legacy /\ (d = disk \/ d # disk)
  BY DEF LegacyRead
<1>3. /\ results' = SeedResults(Loaded(d, old)) /\ uncertain' = Prune(d.uncertain, clock)
      /\ UNCHANGED <<typed, duplicates, pc, frame>> /\ up' = TRUE /\ ~up
  BY <1>1 DEF LoadFrom, Load, keyboard, calls
<1>4. lost \subseteq lost'
  BY <1>1
<1>5. \A t \in Threads : pc'[t] = "idle"
  BY <1>3 DEF ClaimInv, StageOK
<1>6. Remembered'
  <2> SUFFICES ASSUME NEW r \in typed', r \notin lost'
               PROVE  results'[r] # "none" \/ uncertain'[r] # Absent
    BY DEF Remembered
  <2>1. r \in Ids
    BY <1>3 DEF TypeOK
  <2>2. r \notin LostAtLoad(d, old)
    BY <1>1
  <2>3. r \in LedgerIds(disk) \cup Elems(legacy)
    BY <1>1, <1>3 DEF MemoryInv, OnFile
  <2>4. r \in LedgerIds(d) \cup Elems(old)
    BY <1>2, <2>2, <2>3 DEF LostAtLoad
  <2>5. CASE r \in d.typed \cup Elems(old)
    <3>1. r \in Loaded(d, old)
      <4>1. /\ d \in [order : Orders, typed : SUBSET Ids, uncertain : [Ids -> Stamps]]
            /\ d.typed \subseteq Elems(d.order) /\ old \in Orders
        BY <1>2, EmptyOrder DEF LiveRead, EmptyLedger, TypeOK, LedgerInv, Stamps
      <4>2. CASE Cardinality(d.typed \cup Elems(old)) > LruCap
        BY <2>2, <2>5, <4>2 DEF LostAtLoad
      <4>3. CASE ~(Cardinality(d.typed \cup Elems(old)) > LruCap)
        <5>1. Cardinality(d.typed \cup Elems(old)) <= LruCap
          <6>1. d.typed \cup Elems(old) \subseteq Ids
            BY <4>1, OrdersDef DEF Elems
          <6>2. Cardinality(d.typed \cup Elems(old)) \in Nat
            BY <6>1, IdsAssumption, FS_Subset, FS_CardinalityType
          <6> QED BY <4>3, <6>2, CapAssumption
        <5> QED BY <2>5, <4>1, <5>1, LoadedAll
      <4> QED BY <4>2, <4>3
    <3> QED BY <1>3, <2>1, <3>1 DEF SeedResults
  <2>6. CASE d.uncertain[r] # Absent
    <3>1. r \notin Pruned(d.uncertain, clock)
      BY <2>2 DEF LostAtLoad
    <3> QED BY <1>3, <2>1, <2>6, <3>1 DEF Pruned
  <2> QED BY <2>4, <2>5, <2>6 DEF LedgerIds
<1> QED BY <1>3, <1>4, <1>5, <1>6, MemoryKeep

\* The verdicts: pruning gives up what it removes, and only an id that the table knows
\* nothing about, and nobody runs, gets through.
LEMMA MemoryClassify ==
    ASSUME TypeOK, ClaimInv, MemoryInv, NEW t \in Threads, Classify(t)
    PROVE  MemoryInv'
<1>1. PruneFirst(t)
  BY DEF Classify, ClassifyUncertain, ClassifyHit, ClassifyClaim, ClassifyWait,
         ClassifyStillRunning, ClassifySuppress, ClassifyUnclaimed, Proceeds
<1>2. /\ pc[t] = "classify" /\ uncertain' = Prune(uncertain, arrived[t])
      /\ lost' = lost \cup Pruned(uncertain, arrived[t])
      /\ UNCHANGED <<up, results, frame, panicking, typed, duplicates>>
      /\ pc \in [Threads -> Stages] /\ reply \in [Threads -> Replies] /\ typed \subseteq Ids
  BY <1>1 DEF PruneFirst, keyboard, TypeOK
<1>3. /\ \A u \in Threads \ {t} : pc'[u] = pc[u] /\ reply'[u] = reply[u]
      /\ pc'[t] \in {"reply", "gate", "waiting"}
      /\ pc'[t] = "gate" => ~HasId(t) \/ ClassifyClaim(t)
  BY <1>2
  DEF Classify, ClassifyUncertain, ClassifyHit, ClassifyClaim, ClassifyWait, Goto, Answer,
      ClassifyStillRunning, ClassifySuppress, ClassifyUnclaimed, Proceeds
<1>4. Remembered'
  <2> SUFFICES ASSUME up, NEW r \in typed, r \notin lost'
               PROVE  \/ results[r] # "none"
                      \/ uncertain'[r] # Absent
                      \/ \E u \in Threads : frame[u].id = r /\ Unrecorded(u)'
    BY <1>2 DEF Remembered
  <2>1. r \in Ids /\ r \notin lost /\ r \notin Pruned(uncertain, arrived[t])
    BY <1>2
  <2>2. uncertain[r] # Absent => uncertain'[r] # Absent
    BY <1>2, <2>1 DEF Pruned
  <2>3. ASSUME NEW u \in Threads, Unrecorded(u) PROVE Unrecorded(u)'
    BY <1>2, <1>3, <2>3 DEF Unrecorded
  <2> QED BY <2>1, <2>2, <2>3 DEF MemoryInv, Remembered
<1>5. ASSUME NEW u \in Threads, pc'[u] \in {"gate", "pipeline"}, HasId(u)'
      PROVE  frame'[u].id \notin typed' \ lost'
  <2>1. HasId(u) /\ frame'[u].id = frame[u].id
    BY <1>2, <1>5 DEF HasId
  <2>2. CASE u # t
    BY <1>2, <1>3, <1>5, <2>1, <2>2 DEF MemoryInv, FreshRun
  <2>3. CASE u = t
    <3>1. /\ ClassifyClaim(t) /\ frame[t].id \in Ids
      BY <1>3, <1>5, <2>1, <2>3, FrameId
    <3>2. /\ uncertain'[frame[t].id] = Absent /\ results[frame[t].id] = "none"
          /\ frame[t].id \notin inFlight
      BY <3>1 DEF ClassifyClaim, Proceeds
    <3>3. SUFFICES ASSUME frame[t].id \in typed, frame[t].id \notin lost'
                   PROVE  FALSE
      BY <1>2, <2>1, <2>3
    <3>4. up
      BY <1>2 DEF ClaimInv, StageOK
    <3>5. PICK v \in Threads : frame[v].id = frame[t].id /\ Unrecorded(v)'
      BY <1>2, <1>4, <3>2, <3>3, <3>4 DEF Remembered
    <3>6. v # t /\ pc[v] \in Running
      BY <1>2, <1>3, <3>5 DEF Unrecorded, Running
    <3> QED BY <2>1, <2>3, <3>2, <3>5, <3>6 DEF ClaimInv, ClaimHeld, HasId
  <2> QED BY <2>2, <2>3
<1>6. FreshRun'
  BY <1>5 DEF FreshRun
<1>7. NeverTypedTwice' /\ OnFile'
  BY <1>2 DEF MemoryInv, NeverTypedTwice, OnFile, ClaimInv, StageOK
<1> QED BY <1>4, <1>6, <1>7 DEF MemoryInv

\* The one step that sends keys: the id is fresh, and its run now owes a record.
LEMMA MemoryPipeline ==
    ASSUME TypeOK, ClaimInv, MemoryInv, NEW t \in Threads, Pipeline(t)
    PROVE  MemoryInv'
<1>1. PICK outcome \in Outcomes :
        LET sent == IF outcome \in Touching /\ HasId(t) THEN {frame[t].id} ELSE {}
        IN  /\ Answer(t, outcome)
            /\ typed' = typed \cup sent
            /\ duplicates' = duplicates \cup (sent \cap (typed \ lost))
            /\ lost' = lost \ sent
  BY DEF Pipeline
<1> DEFINE sent == IF outcome \in Touching /\ HasId(t) THEN {frame[t].id} ELSE {}
<1>2. /\ pc[t] = "pipeline" /\ pc' = [pc EXCEPT ![t] = "record"]
      /\ reply' = [reply EXCEPT ![t] = outcome]
      /\ UNCHANGED <<up, results, uncertain, frame, panicking>>
      /\ pc \in [Threads -> Stages] /\ reply \in [Threads -> Replies]
  BY <1>1 DEF Pipeline, Goto, Answer, table, TypeOK
<1>3. sent \cap (typed \ lost) = {}
  BY <1>2 DEF MemoryInv, FreshRun
<1>4. NeverTypedTwice' /\ OnFile'
  BY <1>1, <1>2, <1>3 DEF MemoryInv, NeverTypedTwice, OnFile, ClaimInv, StageOK
<1>5. FreshRun'
  <2> SUFFICES ASSUME NEW u \in Threads, pc'[u] \in {"gate", "pipeline"}, HasId(u)
               PROVE  frame[u].id \notin typed' \ lost'
    BY <1>2 DEF FreshRun, HasId
  <2>1. u # t /\ pc[u] \in {"gate", "pipeline"}
    BY <1>2
  <2>2. frame[u].id \notin sent
    BY <1>2, <2>1 DEF ClaimInv, OneRunPerId, Running, HasId
  <2> QED BY <1>1, <2>1, <2>2 DEF MemoryInv, FreshRun
<1>6. Remembered'
  <2> SUFFICES ASSUME up, NEW r \in typed', r \notin lost'
               PROVE  \/ results[r] # "none"
                      \/ uncertain[r] # Absent
                      \/ \E u \in Threads : frame[u].id = r /\ Unrecorded(u)'
    BY <1>2 DEF Remembered
  <2>1. CASE r \in sent
    BY <1>2, <2>1 DEF Unrecorded
  <2>2. CASE r \notin sent
    <3>1. r \in typed /\ r \notin lost
      BY <1>1, <2>2
    <3>2. ASSUME NEW u \in Threads, Unrecorded(u) PROVE Unrecorded(u)'
      BY <1>2, <3>2 DEF Unrecorded
    <3> QED BY <3>1, <3>2 DEF MemoryInv, Remembered
  <2> QED BY <2>1, <2>2
<1> QED BY <1>4, <1>5, <1>6 DEF MemoryInv

\* record: whatever the new entry pushes out or the pruning removes is given up by name.
LEMMA MemoryRecordResult ==
    ASSUME TypeOK, ClaimInv, MemoryInv, NEW t \in Threads, RecordResult(t)
    PROVE  MemoryInv'
<1> DEFINE r == frame[t].id
           entry == IF reply[t] = "ok" THEN "fullOk" ELSE "fullFailed"
<1>1. /\ pc[t] = "record" /\ pc' = [pc EXCEPT ![t] = "release"]
      /\ uncertain' = Prune(uncertain, arrived[t])
      /\ results' = InsertResults(results, order, r, entry)
      /\ lost' = lost \cup Pruned(uncertain, arrived[t]) \cup Evicted(order, r)
      /\ UNCHANGED <<up, frame, reply, panicking, typed, duplicates>>
      /\ pc \in [Threads -> Stages] /\ typed \subseteq Ids
  BY DEF RecordResult, Goto, keyboard, TypeOK
<1>2. Remembered'
  <2> SUFFICES ASSUME up, NEW s \in typed, s \notin lost'
               PROVE  \/ results'[s] # "none"
                      \/ uncertain'[s] # Absent
                      \/ \E u \in Threads : frame[u].id = s /\ Unrecorded(u)'
    BY <1>1 DEF Remembered
  <2>1. /\ s \in Ids /\ s \notin lost
        /\ s \notin Pruned(uncertain, arrived[t]) /\ s \notin Evicted(order, r)
    BY <1>1
  <2>2. CASE s = r
    BY <1>1, <2>1, <2>2 DEF InsertResults
  <2>3. CASE s # r
    <3>1. results'[s] = results[s]
      BY <1>1, <2>1, <2>3 DEF InsertResults
    <3>2. uncertain[s] # Absent => uncertain'[s] # Absent
      BY <1>1, <2>1 DEF Pruned
    <3>3. ASSUME NEW u \in Threads, frame[u].id = s, Unrecorded(u) PROVE Unrecorded(u)'
      BY <1>1, <2>3, <3>3 DEF Unrecorded
    <3> QED BY <2>1, <3>1, <3>2, <3>3 DEF MemoryInv, Remembered
  <2> QED BY <2>2, <2>3
<1>3. \A u \in Threads :
         pc'[u] \in {"gate", "pipeline"} /\ HasId(u)'
           => pc[u] \in {"gate", "pipeline"} /\ HasId(u) /\ frame'[u] = frame[u]
  BY <1>1 DEF HasId
<1>9. up'
  BY <1>1 DEF ClaimInv, StageOK, Running
<1> QED BY <1>1, <1>2, <1>3, <1>9, MemoryKeep

\* An uncertain submission enters the quarantine, or is given up by its pruning.
LEMMA MemoryRecordUncertain ==
    ASSUME TypeOK, ClaimInv, MemoryInv, NEW t \in Threads, RecordUncertain(t)
    PROVE  MemoryInv'
<1> DEFINE r == frame[t].id
           known == RememberUncertain(uncertain, r, arrived[t])
<1>1. /\ pc[t] = "record" /\ HasId(t) /\ pc' = [pc EXCEPT ![t] = "release"]
      /\ uncertain' = Prune(known, arrived[t])
      /\ results' = [results EXCEPT ![r] = "none"]
      /\ lost' = lost \cup Pruned(known, arrived[t])
      /\ UNCHANGED <<up, frame, reply, panicking, typed, duplicates>>
  BY DEF RecordUncertain, Goto, keyboard
<1>2. /\ pc \in [Threads -> Stages] /\ typed \subseteq Ids /\ r \in Ids
      /\ results \in [Ids -> Entries] /\ uncertain \in [Ids -> Stamps]
      /\ arrived[t] \in Nat
  BY <1>1, FrameId DEF TypeOK
<1>3. \A s \in Ids : uncertain[s] # Absent \/ s = r => known[s] # Absent
  BY <1>2 DEF RememberUncertain, Stamps, Absent
<1>4. Remembered'
  <2> SUFFICES ASSUME up, NEW s \in typed, s \notin lost'
               PROVE  \/ results'[s] # "none"
                      \/ uncertain'[s] # Absent
                      \/ \E u \in Threads : frame[u].id = s /\ Unrecorded(u)'
    BY <1>1 DEF Remembered
  <2>1. s \in Ids /\ s \notin lost /\ s \notin Pruned(known, arrived[t])
    BY <1>1, <1>2
  <2>2. known[s] # Absent => uncertain'[s] # Absent
    BY <1>1, <2>1 DEF Pruned
  <2>3. CASE s = r
    BY <1>3, <2>1, <2>2, <2>3
  <2>4. CASE s # r
    <3>1. results'[s] = results[s]
      BY <1>1, <1>2, <2>1, <2>4
    <3>2. uncertain[s] # Absent => uncertain'[s] # Absent
      BY <1>3, <2>1, <2>2
    <3>3. ASSUME NEW u \in Threads, frame[u].id = s, Unrecorded(u) PROVE Unrecorded(u)'
      BY <1>1, <1>2, <2>4, <3>3 DEF Unrecorded
    <3> QED BY <2>1, <3>1, <3>2, <3>3 DEF MemoryInv, Remembered
  <2> QED BY <2>3, <2>4
<1>5. \A u \in Threads :
         pc'[u] \in {"gate", "pipeline"} /\ HasId(u)'
           => pc[u] \in {"gate", "pipeline"} /\ HasId(u) /\ frame'[u] = frame[u]
  BY <1>1, <1>2 DEF HasId
<1>9. up'
  BY <1>1 DEF ClaimInv, StageOK, Running
<1> QED BY <1>1, <1>4, <1>5, <1>9, MemoryKeep

\* The claim's Drop: a run that panicked leaves its id in quarantine.
LEMMA MemoryRelease ==
    ASSUME TypeOK, ClaimInv, MemoryInv, NEW t \in Threads, Release(t)
    PROVE  MemoryInv'
<1> DEFINE r == frame[t].id
<1>1. /\ pc[t] = "release" /\ pc' = [pc EXCEPT ![t] = "notify"]
      /\ UNCHANGED <<up, results, frame, reply, panicking, typed, lost, duplicates>>
      /\ pc \in [Threads -> Stages] /\ typed \subseteq Ids
      /\ uncertain \in [Ids -> Stamps] /\ clock \in Nat
  BY DEF Release, Goto, keyboard, TypeOK
<1>2. r \in Ids
  BY <1>1, FrameId DEF ClaimInv, StageOK
<1>3. \A s \in Ids : uncertain[s] # Absent => uncertain'[s] # Absent
  BY <1>1, <1>2 DEF Release, RememberUncertain, Stamps, Absent
<1>4. panicking[t] => results[r] # "none" \/ uncertain'[r] # Absent
  BY <1>1, <1>2 DEF Release, RememberUncertain, Stamps, Absent
<1>5. Remembered'
  <2> SUFFICES ASSUME up, NEW s \in typed, s \notin lost
               PROVE  \/ results[s] # "none"
                      \/ uncertain'[s] # Absent
                      \/ \E u \in Threads : frame[u].id = s /\ Unrecorded(u)'
    BY <1>1 DEF Remembered
  <2>1. s \in Ids
    BY <1>1
  <2>2. ASSUME NEW u \in Threads, u # t, Unrecorded(u) PROVE Unrecorded(u)'
    BY <1>1, <2>2 DEF Unrecorded
  <2>3. Unrecorded(t) => panicking[t]
    BY <1>1 DEF Unrecorded
  <2> QED BY <1>3, <1>4, <2>1, <2>2, <2>3 DEF MemoryInv, Remembered
<1>6. \A u \in Threads :
         pc'[u] \in {"gate", "pipeline"} /\ HasId(u)'
           => pc[u] \in {"gate", "pipeline"} /\ HasId(u) /\ frame'[u] = frame[u]
  BY <1>1 DEF HasId
<1>9. up'
  BY <1>1 DEF ClaimInv, StageOK, Running
<1> QED BY <1>1, <1>5, <1>6, <1>9, MemoryKeep

\* A panic after the keys were sent leaves the run owing its record, to Release.
LEMMA MemoryPanic ==
    ASSUME TypeOK, ClaimInv, MemoryInv, NEW t \in Threads, Panic(t)
    PROVE  MemoryInv'
<1>1. /\ pc[t] \in Running /\ pc' = [pc EXCEPT ![t] = IF HasId(t) THEN "release" ELSE "reply"]
      /\ panicking' = [panicking EXCEPT ![t] = HasId(t)]
      /\ reply' = [reply EXCEPT ![t] = "none"]
      /\ UNCHANGED <<up, results, uncertain, frame, typed, lost, duplicates>>
      /\ pc \in [Threads -> Stages] /\ panicking \in [Threads -> BOOLEAN]
      /\ reply \in [Threads -> Replies] /\ typed \subseteq Ids
  BY DEF Panic, Goto, Answer, table, history, keyboard, TypeOK
<1>2. NoId \notin Ids
  BY IdsAssumption
<1>3. Remembered'
  <2> SUFFICES ASSUME up, NEW s \in typed, s \notin lost
               PROVE  \/ results[s] # "none"
                      \/ uncertain[s] # Absent
                      \/ \E u \in Threads : frame[u].id = s /\ Unrecorded(u)'
    BY <1>1 DEF Remembered
  <2>1. ASSUME NEW u \in Threads, u # t, Unrecorded(u) PROVE Unrecorded(u)'
    BY <1>1, <2>1 DEF Unrecorded
  <2>2. ASSUME frame[t].id = s PROVE Unrecorded(t)'
    <3>1. HasId(t)
      BY <1>1, <1>2, <2>2 DEF HasId
    <3>2. pc'[t] = "release"
      BY <1>1, <3>1
    <3>3. panicking'[t]
      BY <1>1, <3>1, Zenon
    <3> QED BY <3>2, <3>3 DEF Unrecorded
  <2> QED BY <2>1, <2>2 DEF MemoryInv, Remembered
<1>4. \A u \in Threads :
         pc'[u] \in {"gate", "pipeline"} /\ HasId(u)'
           => pc[u] \in {"gate", "pipeline"} /\ HasId(u) /\ frame'[u] = frame[u]
  BY <1>1 DEF HasId
<1>9. up'
  BY <1>1 DEF ClaimInv, StageOK, Running
<1> QED BY <1>1, <1>3, <1>4, <1>9, MemoryKeep

\* A call moves on without telling the table anything: no record is owed.
LEMMA MemoryQuietStep ==
    ASSUME TypeOK, ClaimInv, MemoryInv, NEW t \in Threads,
           \/ Arrive(t) \/ SpuriousWake(t) \/ BudgetExpires(t)
           \/ GateDeferred(t) \/ GateElevated(t) \/ GatePass(t)
           \/ RecordElevated(t) \/ RecordAuto(t) \/ RecordNothing(t)
           \/ Notify(t) \/ Return(t)
    PROVE  MemoryInv'
<1>1. /\ UNCHANGED <<up, results, uncertain, typed, lost, duplicates>> /\ up
      /\ \A u \in Threads \ {t} :
           /\ frame'[u] = frame[u] /\ panicking'[u] = panicking[u] /\ reply'[u] = reply[u]
           /\ \/ pc'[u] = pc[u]
              \/ pc[u] = "waiting" /\ pc'[u] = "classify"
      /\ Unrecorded(t) => ~HasId(t)
      /\ pc'[t] \in {"gate", "pipeline"} => pc[t] = "gate" /\ frame'[t] = frame[t]
  <2>1. /\ pc \in [Threads -> Stages] /\ frame \in [Threads -> Frames]
        /\ panicking \in [Threads -> BOOLEAN] /\ reply \in [Threads -> Replies]
    BY DEF TypeOK
  <2>0. pc[t] # "idle" => up
    BY DEF ClaimInv, StageOK
  <2> USE <2>0, <2>1 DEF table, history, keyboard, calls, Goto, Answer, Unrecorded, Touching
  <2>2. CASE Arrive(t)
    BY <2>2 DEF Arrive
  <2>3. CASE SpuriousWake(t) \/ BudgetExpires(t)
    BY <2>3 DEF SpuriousWake, BudgetExpires
  <2>4. CASE GateDeferred(t) \/ GateElevated(t) \/ GatePass(t)
    BY <2>4 DEF GateDeferred, GateElevated, GatePass
  <2>5. CASE RecordElevated(t) \/ RecordNothing(t)
    BY <2>5 DEF RecordElevated, RecordNothing
  <2>6. CASE RecordAuto(t)
    BY <2>6 DEF RecordAuto
  <2>7. CASE Notify(t)
    BY <2>7 DEF Notify
  <2>8. CASE Return(t)
    BY <2>8 DEF Return
  <2> QED BY <2>2, <2>3, <2>4, <2>5, <2>6, <2>7, <2>8
<1>2. ASSUME NEW u \in Threads, Unrecorded(u), HasId(u)
      PROVE  frame'[u].id = frame[u].id /\ Unrecorded(u)'
  BY <1>1, <1>2 DEF Unrecorded
<1>3. Remembered'
  BY <1>1, <1>2, MemoryTable
<1>4. \A u \in Threads :
         pc'[u] \in {"gate", "pipeline"} /\ HasId(u)'
           => pc[u] \in {"gate", "pipeline"} /\ HasId(u) /\ frame'[u] = frame[u]
  BY <1>1 DEF HasId
<1>9. up'
  BY <1>1 DEF ClaimInv, StageOK, Running
<1> QED BY <1>1, <1>3, <1>4, <1>9, MemoryKeep

LEMMA MemoryNext ==
    ASSUME TypeOK, ClaimInv, LedgerInv, MemoryInv, [Next]_vars, "legacy" \notin Unreadable
    PROVE  MemoryInv'
<1>1. CASE UNCHANGED vars
  BY <1>1
  DEF vars, table, files, calls, history, keyboard, MemoryInv, FreshRun, Remembered,
      Unrecorded, OnFile, NeverTypedTwice, HasId
<1>2. CASE Load
  BY <1>2, MemoryLoad
<1>3. CASE Crash
  <2>1. /\ up /\ up' = FALSE /\ pc' = [t \in Threads |-> "idle"] /\ lost' = lost \cup LostAtCrash
        /\ UNCHANGED <<typed, duplicates, disk, legacy>> /\ typed \subseteq Ids
    BY <1>3 DEF Crash, keyboard, files, TypeOK
  <2>2. OnFile'
    <3> SUFFICES ASSUME NEW r \in typed, r \notin LostAtCrash
                 PROVE  r \in LedgerIds(disk) \cup Elems(legacy)
      BY <2>1 DEF OnFile
    <3>1. CASE unsaved
      BY <3>1 DEF LostAtCrash
    <3>2. CASE ~unsaved
      <4>1. r \in Ids /\ results[r] \in Entries
        BY <2>1 DEF TypeOK
      <4>2. results[r] \in TypedEntries \/ uncertain[r] # Absent
        BY <3>2, <4>1 DEF LostAtCrash, Entries, TypedEntries
      <4> QED BY <2>1, <3>2, <4>1, <4>2 DEF LedgerInv, LedgerMatchesMemory, LedgerIds
    <3> QED BY <3>1, <3>2
  <2> QED BY <2>1, <2>2 DEF MemoryInv, FreshRun, Remembered, NeverTypedTwice
<1>4. CASE Tick
  BY <1>4
  DEF Tick, table, files, calls, history, keyboard, MemoryInv, FreshRun, Remembered,
      Unrecorded, OnFile, NeverTypedTwice, HasId
<1>5. ASSUME NEW t \in Threads, Arrive(t) \/ SpuriousWake(t) \/ Panic(t)
      PROVE  MemoryInv'
  BY <1>5, MemoryQuietStep, MemoryPanic
<1>6. ASSUME NEW t \in Threads, Proceed(t)
      PROVE  MemoryInv'
  <2>1. CASE Classify(t)
    BY <2>1, MemoryClassify
  <2>2. CASE Pipeline(t)
    BY <2>2, MemoryPipeline
  <2>3. CASE Record(t)
    BY <2>3, MemoryRecordResult, MemoryRecordUncertain, MemoryQuietStep DEF Record
  <2>4. CASE Release(t)
    BY <2>4, MemoryRelease
  <2>5. CASE \/ BudgetExpires(t) \/ GateDeferred(t) \/ GateElevated(t) \/ GatePass(t)
             \/ Notify(t) \/ Return(t)
    BY <2>5, MemoryQuietStep
  <2> QED BY <1>6, <2>1, <2>2, <2>3, <2>4, <2>5 DEF Proceed, Scheduled
<1> QED BY <1>1, <1>2, <1>3, <1>4, <1>5, <1>6 DEF Next

\* IInv is inductive, as long as a boot can read the retired ledger (RetiredOnlyWhenAbsorbed
\* is what goes wrong otherwise).
LEMMA Inductive ==
    ASSUME "legacy" \notin Unreadable
    PROVE  Spec => []IInv
<1>1. Init => IInv
  BY TableInit, ClaimInit, LedgerInit, MemoryInit DEF IInv
<1>2. IInv /\ [Next]_vars => IInv'
  BY TableNext, ClaimNext, LedgerNext, MemoryNext DEF IInv, TableInv
<1> QED BY <1>1, <1>2, PTL DEF Spec

\* INJ-3 for any number of ids, channels, restarts and failed writes: a delivery is
\* typed again only after the table gave it up in a way its code names.
THEOREM NoDuplicate ==
    ASSUME "legacy" \notin Unreadable
    PROVE  Spec => []NeverTypedTwice
<1>1. IInv => NeverTypedTwice
  BY DEF IInv, MemoryInv
<1> QED BY <1>1, Inductive, PTL

-----------------------------------------------------------------------------
(* Layer 5: what a call answers, and on what ground.                       *)

\* A run that ends as a refusal, from its verdict to the claim's Drop.
Refusals == {"deferred", "elevated", "cached"}
Refusing(t) ==
    /\ HasId(t) /\ reply[t] \in Refusals
    /\ pc[t] = "record" \/ (pc[t] = "release" /\ ~panicking[t])
Untouched == \A t \in Threads : Refusing(t) => frame[t].id \notin typed \ lost

\* Whatever says "typed with success" says it of an id that was: an answer, the table
\* and both files.
OkBacked(t) == reply[t] = "ok" => pc[t] # "idle" /\ (HasId(t) => frame[t].id \in typedOk)
FactsTrue ==
    /\ \A r \in Ids : results[r] \in TypedEntries => r \in typedOk
    /\ disk.typed \subseteq typedOk /\ Elems(legacy) \subseteq typedOk

\* The window is armed by a frame that was typed, and a discarded frame fell into it.
Stamp(t) == [text |-> frame[t].text, at |-> arrived[t]]
Repeated(t) ==
    /\ ~frame[t].deliberate
    /\ \E a \in autoTyped : a.text = frame[t].text /\ arrived[t] - a.at <= Inj1Window
Arming(t) ==
    pc[t] = "record" /\ ~HasId(t) /\ ~frame[t].deliberate /\ reply[t] \in Touching
AutoBacked(t) ==
    /\ Arming(t) => Stamp(t) \in autoTyped
    /\ reply[t] = "suppressed" => pc[t] = "reply" /\ Repeated(t)

EmptyWhenDown == ~up => \A r \in Ids : uncertain[r] = Absent

AnswerInv ==
    /\ (\A t \in Threads : OkBacked(t)) /\ FactsTrue
    /\ lastAuto \subseteq autoTyped /\ (\A t \in Threads : AutoBacked(t))
    /\ ElevatedRefusalHolds /\ EmptyWhenDown

\* A call's step leaves the other calls alone, but for the sleepers it wakes.
LEMMA OthersAlone ==
    ASSUME TypeOK, NEW t \in Threads,
           Arrive(t) \/ SpuriousWake(t) \/ Panic(t) \/ Proceed(t), NEW u \in Threads, u # t
    PROVE  /\ frame'[u] = frame[u] /\ arrived'[u] = arrived[u]
           /\ panicking'[u] = panicking[u] /\ reply'[u] = reply[u]
           /\ pc'[u] = pc[u] \/ (pc[u] = "waiting" /\ pc'[u] = "classify")
<1> DEFINE Kept(v) == v'[u] = v[u]
           Alone == /\ frame'[u] = frame[u] /\ arrived'[u] = arrived[u]
                    /\ panicking'[u] = panicking[u] /\ reply'[u] = reply[u]
                    /\ pc'[u] = pc[u] \/ (pc[u] = "waiting" /\ pc'[u] = "classify")
<1>1. /\ pc \in [Threads -> Stages] /\ frame \in [Threads -> Frames]
      /\ arrived \in [Threads -> Nat] /\ panicking \in [Threads -> BOOLEAN]
      /\ reply \in [Threads -> Replies]
  BY DEF TypeOK
<1> USE <1>1 DEF Goto, Answer
<1>2. CASE Arrive(t) \/ SpuriousWake(t) \/ Panic(t)
  BY <1>2 DEF Arrive, SpuriousWake, Panic
<1>3. CASE Classify(t)
  BY <1>3
  DEF Classify, ClassifyUncertain, ClassifyHit, ClassifyClaim, ClassifyWait,
      ClassifyStillRunning, ClassifySuppress, ClassifyUnclaimed, Proceeds, PruneFirst
<1>4. CASE GateDeferred(t) \/ GateElevated(t) \/ GatePass(t)
  BY <1>4 DEF GateDeferred, GateElevated, GatePass
<1>5. CASE Record(t)
  BY <1>5
  DEF Record, RecordResult, RecordUncertain, RecordElevated, RecordAuto, RecordNothing
<1>6. CASE Release(t) \/ Notify(t) \/ BudgetExpires(t)
  BY <1>6 DEF Release, Notify, BudgetExpires
<1>7. CASE Return(t)
  BY <1>7 DEF Return
<1>8. CASE Pipeline(t)
  BY <1>8 DEF Pipeline
<1> QED BY <1>2, <1>3, <1>4, <1>5, <1>6, <1>7, <1>8 DEF Proceed, Scheduled

\* The facts a success is answered from: what each step does to them.
LEMMA FactsKeep ==
    ASSUME TableInv, FactsTrue, typedOk \subseteq typedOk',
           \A r \in Ids : results'[r] \in TypedEntries => r \in typedOk',
           Elems(order') \subseteq Ids,
           disk' = disk \/ disk' = Ledger(order', results', uncertain'),
           legacy' = legacy \/ legacy' = <<>>
    PROVE  FactsTrue'
<1>1. disk'.typed \subseteq typedOk'
  BY DEF FactsTrue, Ledger
<1>2. Elems(legacy') \subseteq typedOk'
  BY EmptyOrder DEF FactsTrue
<1> QED BY <1>1, <1>2 DEF FactsTrue

\* The merge lists only ids the two files name as typed.
LEMMA LoadedIsFiled ==
    ASSUME NEW d, NEW old
    PROVE  Loaded(d, old) \subseteq d.typed \cup Elems(old)
BY DEF Loaded

LEMMA FactsLoad ==
    ASSUME TableInv, FactsTrue, Load, TableInv'
    PROVE  FactsTrue'
<1>1. PICK unread \in SUBSET Unreadable : LoadFrom(LiveRead(unread), LegacyRead(unread))
  BY DEF Load
<1> DEFINE d == LiveRead(unread)
           old == LegacyRead(unread)
<1>2. d.typed \subseteq typedOk /\ Elems(old) \subseteq typedOk
  BY EmptyOrder DEF FactsTrue, LiveRead, LegacyRead, EmptyLedger
<1>3. typedOk' = typedOk /\ results' = SeedResults(Loaded(d, old))
      /\ uncertain' = Prune(d.uncertain, clock)
  BY <1>1 DEF Load, LoadFrom, keyboard
<1>4. \A r \in Ids : results'[r] \in TypedEntries => r \in typedOk'
  BY <1>2, <1>3, LoadedIsFiled DEF SeedResults, TypedEntries
<1>5. Elems(order') \subseteq Ids
  BY OrdersDef DEF TableInv, TypeOK, Elems
<1>6. /\ disk' = disk \/ disk' = Ledger(order', results', uncertain')
      /\ legacy' = legacy \/ legacy' = <<>>
  BY <1>1, <1>3 DEF LoadFrom, Migrate, Save
<1> QED BY <1>3, <1>4, <1>5, <1>6, FactsKeep

LEMMA FactsNext ==
    ASSUME TableInv, FactsTrue, \A t \in Threads : OkBacked(t), [Next]_vars
    PROVE  FactsTrue'
<1>1. TableInv'
  BY TableNext
<1>2. CASE UNCHANGED <<results, files, typedOk>>
  BY <1>2 DEF files, FactsTrue
<1>3. CASE Load
  BY <1>1, <1>3, FactsLoad
<1>4. CASE Crash
  <2>1. /\ \A r \in Ids : results'[r] \notin TypedEntries
        /\ UNCHANGED <<files, typedOk>>
    BY <1>4 DEF Crash, TypedEntries, keyboard
  <2> QED BY <2>1 DEF files, FactsTrue
<1>5. ASSUME NEW t \in Threads, Classify(t) \/ Release(t)
      PROVE  FactsTrue'
  <2>1. UNCHANGED <<results, typedOk, legacy>>
    BY <1>5 DEF Classify, ClassifyUncertain, ClassifyHit, ClassifyClaim, ClassifyWait,
      ClassifyStillRunning, ClassifySuppress, ClassifyUnclaimed, Proceeds, PruneFirst,
      Release, keyboard
  <2>2. disk' = disk \/ disk' = Ledger(order, results, uncertain')
    BY <1>5 DEF Classify, ClassifyUncertain, ClassifyHit, ClassifyClaim, ClassifyWait,
      ClassifyStillRunning, ClassifySuppress, ClassifyUnclaimed, Proceeds, PruneFirst,
      Release, Save
  <2>3. disk'.typed \subseteq typedOk
    <3>1. Elems(order) \subseteq Ids
      BY OrdersDef DEF TableInv, TypeOK, Elems
    <3> QED BY <2>2, <3>1 DEF FactsTrue, Ledger
  <2> QED BY <2>1, <2>3 DEF FactsTrue
<1>6. ASSUME NEW t \in Threads, RecordResult(t)
      PROVE  FactsTrue'
  <2> DEFINE r == frame[t].id
  <2>1. /\ r \in Ids /\ HasId(t) /\ typedOk' = typedOk /\ legacy' = legacy
        /\ results' = InsertResults(results, order, r,
                                    IF reply[t] = "ok" THEN "fullOk" ELSE "fullFailed")
        /\ Save(order', results', uncertain')
    BY <1>6, FrameId DEF RecordResult, TableInv, keyboard
  <2>2. reply[t] = "ok" => r \in typedOk
    BY <2>1 DEF OkBacked
  <2>3. \A s \in Ids : results'[s] \in TypedEntries => s \in typedOk'
    BY <2>1, <2>2 DEF InsertResults, TypedEntries, FactsTrue
  <2>4. Elems(order') \subseteq Ids
    BY <1>1, OrdersDef DEF TableInv, TypeOK, Elems
  <2> QED BY <2>1, <2>3, <2>4, FactsKeep DEF Save
<1>7. ASSUME NEW t \in Threads, RecordUncertain(t)
      PROVE  FactsTrue'
  <2> DEFINE r == frame[t].id
  <2>1. /\ typedOk' = typedOk /\ legacy' = legacy
        /\ results' = [results EXCEPT ![r] = "none"]
        /\ Save(order', results', uncertain')
    BY <1>7 DEF RecordUncertain, keyboard
  <2>2. results \in [Ids -> Entries]
    BY DEF TableInv, TypeOK
  <2>3. \A s \in Ids : results'[s] \in TypedEntries => s \in typedOk'
    BY <2>1, <2>2 DEF TypedEntries, FactsTrue
  <2>4. Elems(order') \subseteq Ids
    BY <1>1, OrdersDef DEF TableInv, TypeOK, Elems
  <2> QED BY <2>1, <2>3, <2>4, FactsKeep DEF Save
<1>8. ASSUME NEW t \in Threads, Pipeline(t)
      PROVE  FactsTrue'
  <2>1. typedOk \subseteq typedOk' /\ UNCHANGED <<results, files>>
    BY <1>8 DEF Pipeline, table
  <2> QED BY <2>1 DEF files, FactsTrue
<1>9. \/ Load \/ Crash \/ UNCHANGED <<results, files, typedOk>>
      \/ \E t \in Threads : \/ Classify(t) \/ Release(t) \/ RecordResult(t)
                            \/ RecordUncertain(t) \/ Pipeline(t)
  BY DEF Next, vars, Proceed, Scheduled, Record, Tick, Arrive, SpuriousWake, Panic,
         BudgetExpires, GateDeferred, GateElevated, GatePass, RecordElevated, RecordAuto,
         RecordNothing, Notify, Return, table, files, history, keyboard
<1> QED BY <1>2, <1>3, <1>4, <1>5, <1>6, <1>7, <1>8, <1>9

\* An answer of success is that of a pipeline, or of an entry that says so.
LEMMA OkNext ==
    ASSUME TypeOK, FactsTrue, \A t \in Threads : OkBacked(t), [Next]_vars
    PROVE  \A t \in Threads : OkBacked(t)'
<1>1. CASE UNCHANGED <<calls, typedOk>>
  BY <1>1 DEF calls, OkBacked, HasId
<1>2. CASE Crash
  BY <1>2 DEF Crash, OkBacked
<1>3. ASSUME NEW t \in Threads, Arrive(t) \/ SpuriousWake(t) \/ Panic(t) \/ Proceed(t)
      PROVE  \A u \in Threads : OkBacked(u)'
  <2>1. /\ pc \in [Threads -> Stages] /\ frame \in [Threads -> Frames]
        /\ reply \in [Threads -> Replies]
    BY DEF TypeOK
  <2>2. typedOk \subseteq typedOk'
    BY <1>3
    DEF Arrive, SpuriousWake, Panic, Proceed, Scheduled, Record, RecordResult,
        RecordUncertain, RecordElevated, RecordAuto, RecordNothing, Release, Notify, Return,
        BudgetExpires, GateDeferred, GateElevated, GatePass, Pipeline, Classify,
        ClassifyUncertain, ClassifyHit, ClassifyClaim, ClassifyWait, ClassifyStillRunning,
        ClassifySuppress, ClassifyUnclaimed, Proceeds, PruneFirst, history, keyboard
  <2>3. ASSUME NEW u \in Threads, u # t PROVE OkBacked(u)'
    <3>1. /\ frame'[u] = frame[u] /\ reply'[u] = reply[u]
          /\ pc'[u] = pc[u] \/ (pc[u] = "waiting" /\ pc'[u] = "classify")
      BY <1>3, <2>3, OthersAlone
    <3>2. OkBacked(u)
      OBVIOUS
    <3> QED BY <2>2, <3>1, <3>2 DEF OkBacked, HasId
  <2>4. OkBacked(t)'
    <3>0. OkBacked(t)
      OBVIOUS
    <3> USE <2>1, <2>2, <3>0 DEF OkBacked, HasId, Goto, Answer
    <3>1. CASE Arrive(t)
      BY <3>1 DEF Arrive
    <3>2. CASE SpuriousWake(t) \/ BudgetExpires(t) \/ Panic(t)
      BY <3>2 DEF SpuriousWake, BudgetExpires, Panic
    <3>3. CASE ClassifyHit(t)
      <4>1. frame[t].id \in Ids
        BY <3>3, FrameId DEF ClassifyHit
      <4>2. /\ results[frame[t].id] # "none" /\ frame' = frame
            /\ reply' = [reply EXCEPT ![t] = IF results[frame[t].id] = "fullFailed"
                                             THEN "failed" ELSE "ok"]
            /\ pc' = [pc EXCEPT ![t] = "reply"]
        BY <3>3 DEF ClassifyHit, PruneFirst
      <4>3. results[frame[t].id] \in Entries
        BY <4>1 DEF TypeOK
      <4>4. reply'[t] = "ok" => frame[t].id \in typedOk
        BY <4>1, <4>2, <4>3 DEF FactsTrue, Entries, TypedEntries
      <4> QED BY <4>2, <4>4
    <3>4. CASE \/ ClassifyUncertain(t) \/ ClassifyClaim(t) \/ ClassifyWait(t)
               \/ ClassifyStillRunning(t) \/ ClassifySuppress(t) \/ ClassifyUnclaimed(t)
      BY <3>4
      DEF ClassifyUncertain, ClassifyClaim, ClassifyWait, ClassifyStillRunning,
          ClassifySuppress, ClassifyUnclaimed, Proceeds, PruneFirst
    <3>5. CASE GateDeferred(t) \/ GateElevated(t) \/ GatePass(t)
      BY <3>5 DEF GateDeferred, GateElevated, GatePass
    <3>6. CASE Pipeline(t)
      BY <3>6 DEF Pipeline, Touching
    <3>7. CASE Record(t)
      BY <3>7
      DEF Record, RecordResult, RecordUncertain, RecordElevated, RecordAuto, RecordNothing
    <3>8. CASE Release(t) \/ Notify(t) \/ Return(t)
      BY <3>8 DEF Release, Notify, Return
    <3> QED BY <1>3, <3>1, <3>2, <3>3, <3>4, <3>5, <3>6, <3>7, <3>8
            DEF Proceed, Scheduled, Classify
  <2> QED BY <2>3, <2>4
<1>4. \/ UNCHANGED <<calls, typedOk>> \/ Crash
      \/ \E t \in Threads : Arrive(t) \/ SpuriousWake(t) \/ Panic(t) \/ Proceed(t)
  BY DEF Next, vars, history, keyboard, Load, Tick
<1> QED BY <1>1, <1>2, <1>3, <1>4

\* INJ-1: the window is armed by what was typed, and judged by what armed it.
LEMMA AutoNext ==
    ASSUME TypeOK, lastAuto \subseteq autoTyped, \A t \in Threads : AutoBacked(t), [Next]_vars
    PROVE  lastAuto' \subseteq autoTyped' /\ \A t \in Threads : AutoBacked(t)'
<1> USE DEF AutoBacked, Arming, Stamp, Repeated, HasId
<1>1. CASE UNCHANGED <<calls, lastAuto, autoTyped>>
  BY <1>1 DEF calls
<1>2. CASE Crash
  BY <1>2 DEF Crash, keyboard
<1>3. ASSUME NEW t \in Threads, Arrive(t) \/ SpuriousWake(t) \/ Panic(t) \/ Proceed(t)
      PROVE  lastAuto' \subseteq autoTyped' /\ \A u \in Threads : AutoBacked(u)'
  <2>1. /\ pc \in [Threads -> Stages] /\ frame \in [Threads -> Frames]
        /\ reply \in [Threads -> Replies] /\ arrived \in [Threads -> Nat]
    BY DEF TypeOK
  <2>2. /\ autoTyped \subseteq autoTyped'
        /\ lastAuto' = lastAuto \/ (Arming(t) /\ lastAuto' = {Stamp(t)})
    <3>1. CASE RecordAuto(t)
      BY <3>1 DEF RecordAuto, history, keyboard
    <3>2. CASE Pipeline(t)
      BY <3>2 DEF Pipeline, table
    <3>3. CASE Classify(t)
      BY <3>3
      DEF Classify, ClassifyUncertain, ClassifyHit, ClassifyClaim, ClassifyWait,
          ClassifyStillRunning, ClassifySuppress, ClassifyUnclaimed, Proceeds, PruneFirst,
          keyboard
    <3>4. CASE ~(RecordAuto(t) \/ Pipeline(t) \/ Classify(t))
      BY <1>3, <3>4
      DEF Arrive, SpuriousWake, Panic, Proceed, Scheduled, Record, RecordResult,
          RecordUncertain, RecordElevated, RecordNothing, Release, Notify, Return,
          BudgetExpires, GateDeferred, GateElevated, GatePass, table, history, keyboard
    <3> QED BY <3>1, <3>2, <3>3, <3>4
  <2>3. lastAuto' \subseteq autoTyped'
    BY <2>2
  <2>4. ASSUME NEW u \in Threads, u # t PROVE AutoBacked(u)'
    <3>1. /\ frame'[u] = frame[u] /\ arrived'[u] = arrived[u] /\ reply'[u] = reply[u]
          /\ pc'[u] = pc[u] \/ (pc[u] = "waiting" /\ pc'[u] = "classify")
      BY <1>3, <2>4, OthersAlone
    <3>2. AutoBacked(u)
      OBVIOUS
    <3> QED BY <2>2, <3>1, <3>2
  <2>5. AutoBacked(t)'
    <3>0. AutoBacked(t)
      OBVIOUS
    <3> USE <2>1, <2>2, <3>0 DEF Goto, Answer
    <3>1. CASE Arrive(t) \/ SpuriousWake(t) \/ BudgetExpires(t) \/ Panic(t)
      BY <3>1 DEF Arrive, SpuriousWake, BudgetExpires, Panic
    <3>2. CASE ClassifySuppress(t)
      <4>1. /\ ~frame[t].deliberate /\ Repeats(t) /\ frame' = frame /\ arrived' = arrived
            /\ pc' = [pc EXCEPT ![t] = "reply"]
        BY <3>2 DEF ClassifySuppress, PruneFirst
      <4>2. Repeated(t)
        BY <4>1 DEF Repeats
      <4> QED BY <4>1, <4>2
    <3>3. CASE \/ ClassifyUncertain(t) \/ ClassifyHit(t) \/ ClassifyClaim(t) \/ ClassifyWait(t)
               \/ ClassifyStillRunning(t) \/ ClassifyUnclaimed(t)
      BY <3>3
      DEF ClassifyUncertain, ClassifyHit, ClassifyClaim, ClassifyWait,
          ClassifyStillRunning, ClassifyUnclaimed, Proceeds, PruneFirst
    <3>4. CASE GateDeferred(t) \/ GateElevated(t) \/ GatePass(t)
      BY <3>4 DEF GateDeferred, GateElevated, GatePass
    <3>5. CASE Pipeline(t)
      <4>1. PICK outcome \in Outcomes :
              /\ reply' = [reply EXCEPT ![t] = outcome]
              /\ autoTyped' =
                   IF outcome \in Touching /\ ~HasId(t) /\ ~frame[t].deliberate
                   THEN autoTyped \cup {Stamp(t)}
                   ELSE autoTyped
        BY <3>5 DEF Pipeline
      <4>2. reply'[t] = outcome /\ outcome # "suppressed" /\ frame' = frame /\ arrived' = arrived
        BY <3>5, <4>1 DEF Pipeline, Outcomes, Touching
      <4> QED BY <4>1, <4>2
    <3>6. CASE Record(t)
      BY <3>6
      DEF Record, RecordResult, RecordUncertain, RecordElevated, RecordAuto, RecordNothing
    <3>7. CASE Release(t) \/ Notify(t) \/ Return(t)
      BY <3>7 DEF Release, Notify, Return
    <3> QED BY <1>3, <3>1, <3>2, <3>3, <3>4, <3>5, <3>6, <3>7 DEF Proceed, Scheduled, Classify
  <2> QED BY <2>3, <2>4, <2>5
<1>4. \/ UNCHANGED <<calls, lastAuto, autoTyped>> \/ Crash
      \/ \E t \in Threads : Arrive(t) \/ SpuriousWake(t) \/ Panic(t) \/ Proceed(t)
  BY DEF Next, vars, table, history, keyboard, Load, Tick
<1> QED BY <1>1, <1>2, <1>3, <1>4

\* NR-267-A: a refusal enters the memory only while its own thread runs the id.
LEMMA ElevatedNext ==
    ASSUME TypeOK, ClaimInv, ElevatedRefusalHolds, [Next]_vars
    PROVE  ElevatedRefusalHolds'
<1> SUFFICES ASSUME NEW u \in Threads, pc'[u] = "pipeline", HasId(u)'
             PROVE  ~Alive(elevated'[frame'[u].id], arrived'[u])
  BY DEF ElevatedRefusalHolds
<1>0. /\ pc \in [Threads -> Stages] /\ frame \in [Threads -> Frames]
      /\ elevated \in [Ids -> Stamps] /\ reply \in [Threads -> Replies]
  BY DEF TypeOK
<1> DEFINE Same == pc[u] = "pipeline" /\ HasId(u) /\ frame'[u] = frame[u]
                   /\ arrived'[u] = arrived[u]
           r == frame[u].id
           Weaker == elevated'[r] = elevated[r] \/ elevated'[r] = Absent
<1>1. ASSUME Same, Weaker PROVE ~Alive(elevated'[frame'[u].id], arrived'[u])
  BY <1>1 DEF ElevatedRefusalHolds, Alive
<1>2. CASE UNCHANGED <<calls, elevated>>
  BY <1>1, <1>2 DEF calls, HasId
<1>3. CASE Crash
  BY <1>3 DEF Crash
<1>4. ASSUME NEW t \in Threads, Arrive(t) \/ SpuriousWake(t) \/ Panic(t) \/ Proceed(t)
      PROVE  ~Alive(elevated'[frame'[u].id], arrived'[u])
  <2>1. CASE u # t
    <3>1. Same
      BY <1>4, <2>1, OthersAlone DEF HasId
    <3>2. r \in Ids
      BY <3>1, FrameId
    <3>3. CASE GateElevated(t) \/ GatePass(t)
      <4>1. Weaker
        BY <3>2, <3>3 DEF GateElevated, GatePass, RetainAlive
      <4> QED BY <1>1, <3>1, <4>1
    <3>4. CASE RecordElevated(t)
      <4>1. frame[t].id # r
        BY <2>1, <3>1, <3>4 DEF RecordElevated, ClaimInv, OneRunPerId, Running
      <4>2. Weaker
        BY <3>2, <3>4, <4>1 DEF RecordElevated
      <4> QED BY <1>1, <3>1, <4>2
    <3>5. CASE ~(GateElevated(t) \/ GatePass(t) \/ RecordElevated(t))
      <4>1. elevated' = elevated
        BY <1>4, <3>5
        DEF Arrive, SpuriousWake, Panic, Proceed, Scheduled, Record, RecordResult,
            RecordUncertain, RecordAuto, RecordNothing, Release, Notify, Return, Pipeline,
            BudgetExpires, GateDeferred, Classify, ClassifyUncertain, ClassifyHit,
            ClassifyClaim, ClassifyWait, ClassifyStillRunning, ClassifySuppress,
            ClassifyUnclaimed, Proceeds, PruneFirst, table
      <4> QED BY <1>1, <3>1, <4>1
    <3> QED BY <3>3, <3>4, <3>5
  <2>2. CASE u = t
    <3>1. GatePass(t)
      BY <1>0, <1>4, <2>2
      DEF Arrive, SpuriousWake, Panic, Proceed, Scheduled, Record, RecordResult, Goto,
          RecordUncertain, RecordElevated, RecordAuto, RecordNothing, Release, Notify, Return,
          Pipeline, BudgetExpires, GateDeferred, GateElevated, Classify, ClassifyUncertain,
          ClassifyHit, ClassifyClaim, ClassifyWait, ClassifyStillRunning, ClassifySuppress,
          ClassifyUnclaimed, Proceeds, PruneFirst
    <3>2. frame' = frame /\ arrived' = arrived
      BY <3>1 DEF GatePass
    <3>3. elevated'[frame[t].id] = Absent
      BY <2>2, <3>1, <3>2 DEF GatePass, HasId
    <3> QED BY <2>2, <3>2, <3>3 DEF Alive
  <2> QED BY <2>1, <2>2
<1>5. \/ UNCHANGED <<calls, elevated>> \/ Crash
      \/ \E t \in Threads : Arrive(t) \/ SpuriousWake(t) \/ Panic(t) \/ Proceed(t)
  BY DEF Next, vars, table, Load, Tick
<1> QED BY <1>2, <1>3, <1>4, <1>5

\* Nothing is in quarantine while the desktop is down: a boot reads it from the file.
LEMMA EmptyNext ==
    ASSUME TypeOK, ClaimInv, EmptyWhenDown, [Next]_vars
    PROVE  EmptyWhenDown'
<1>1. CASE UNCHANGED <<up, uncertain>>
  BY <1>1 DEF EmptyWhenDown
<1>2. CASE Load \/ Crash
  BY <1>2 DEF Load, Crash, EmptyWhenDown
<1>3. ASSUME NEW t \in Threads, Arrive(t) \/ SpuriousWake(t) \/ Panic(t) \/ Proceed(t)
      PROVE  up'
  <2>1. up' = up
    BY <1>3
    DEF Arrive, SpuriousWake, Panic, Proceed, Scheduled, Record, RecordResult,
        RecordUncertain, RecordElevated, RecordAuto, RecordNothing, Release, Notify, Return,
        Pipeline, BudgetExpires, GateDeferred, GateElevated, GatePass, Classify,
        ClassifyUncertain, ClassifyHit, ClassifyClaim, ClassifyWait, ClassifyStillRunning,
        ClassifySuppress, ClassifyUnclaimed, Proceeds, PruneFirst
  <2>2. up \/ pc[t] # "idle"
    BY <1>3
    DEF Arrive, SpuriousWake, Panic, Proceed, Scheduled, Record, RecordResult, Running,
        RecordUncertain, RecordElevated, RecordAuto, RecordNothing, Release, Notify, Return,
        Pipeline, BudgetExpires, GateDeferred, GateElevated, GatePass, Classify,
        ClassifyUncertain, ClassifyHit, ClassifyClaim, ClassifyWait, ClassifyStillRunning,
        ClassifySuppress, ClassifyUnclaimed, Proceeds, PruneFirst
  <2> QED BY <2>1, <2>2 DEF ClaimInv, StageOK
<1>4. \/ UNCHANGED <<up, uncertain>> \/ Load \/ Crash
      \/ \E t \in Threads : Arrive(t) \/ SpuriousWake(t) \/ Panic(t) \/ Proceed(t)
  BY DEF Next, vars, table, Tick
<1> QED BY <1>1, <1>2, <1>3, <1>4 DEF EmptyWhenDown

LEMMA AnswerInit == Init => AnswerInv
BY EmptyOrder
DEF Init, AnswerInv, OkBacked, FactsTrue, AutoBacked, Arming, ElevatedRefusalHolds,
    EmptyWhenDown, EmptyLedger, TypedEntries

LEMMA AnswerNext ==
    ASSUME TableInv, ClaimInv, AnswerInv, [Next]_vars
    PROVE  AnswerInv'
<1>1. TypeOK
  BY DEF TableInv
<1>2. (\A t \in Threads : OkBacked(t)') /\ FactsTrue'
  BY <1>1, FactsNext, OkNext DEF AnswerInv
<1>3. lastAuto' \subseteq autoTyped' /\ \A t \in Threads : AutoBacked(t)'
  BY <1>1, AutoNext DEF AnswerInv
<1>4. ElevatedRefusalHolds' /\ EmptyWhenDown'
  BY <1>1, ElevatedNext, EmptyNext DEF AnswerInv
<1> QED BY <1>2, <1>3, <1>4 DEF AnswerInv

LEMMA Answered == Spec => [](TableInv /\ ClaimInv /\ AnswerInv)
<1>1. Init => TableInv /\ ClaimInv /\ AnswerInv
  BY TableInit, ClaimInit, AnswerInit
<1>2. TableInv /\ ClaimInv /\ AnswerInv /\ [Next]_vars => (TableInv /\ ClaimInv /\ AnswerInv)'
  BY TableNext, ClaimNext, AnswerNext DEF TableInv
<1> QED BY <1>1, <1>2, PTL DEF Spec

\* A frame is answered ok:true only for a delivery that was typed with success, whichever
\* channel, life of the process or file the answer comes from.
THEOREM SuccessIsTrue == Spec => []OkIsTrue
<1>1. AnswerInv => OkIsTrue
  BY DEF AnswerInv, OkBacked, OkIsTrue
<1> QED BY <1>1, Answered, PTL

\* INJ-1: what is discarded in silence repeats a text that was typed within the window, and
\* no deliberate send has a part in it.
THEOREM SilenceIsEarned == Spec => []SuppressedIsRepeat
<1>1. AnswerInv => SuppressedIsRepeat
  BY DEF AnswerInv, AutoBacked, Repeated, SuppressedIsRepeat
<1> QED BY <1>1, Answered, PTL

\* NR-267-A: while an elevated refusal is remembered, no copy of it reaches the keyboard.
THEOREM RefusalHolds == Spec => []ElevatedRefusalHolds
<1>1. AnswerInv => ElevatedRefusalHolds
  BY DEF AnswerInv
<1> QED BY <1>1, Answered, PTL

-----------------------------------------------------------------------------
(* The quarantine keeps its first timestamp.                               *)

LEMMA PruneKeeps ==
    ASSUME NEW unc, NEW now, NEW r \in Ids
    PROVE  Prune(unc, now)[r] = unc[r] \/ Prune(unc, now)[r] = Absent
BY DEF Prune

LEMMA RememberKeeps ==
    ASSUME NEW unc \in [Ids -> Stamps], NEW s, NEW at, NEW r \in Ids, unc[r] # Absent
    PROVE  RememberUncertain(unc, s, at)[r] = unc[r]
BY DEF RememberUncertain

\* A quarantine that goes on is the one that was: neither replays, nor reports, nor panics,
\* nor a boot move it.
THEOREM QuarantineRunsOut == Spec => QuarantineNotRefreshed
<1> DEFINE Still(r) == uncertain[r] # Absent /\ uncertain'[r] # Absent
                         => uncertain'[r] = uncertain[r]
<1>1. ASSUME TableInv, ClaimInv, AnswerInv, [Next]_vars, NEW r \in Ids PROVE Still(r)
  <2>1. TypeOK /\ uncertain \in [Ids -> Stamps]
    BY <1>1 DEF TableInv, TypeOK
  <2>2. CASE uncertain' = uncertain
    BY <2>2
  <2>3. CASE Load
    BY <1>1, <2>3 DEF Load, AnswerInv, EmptyWhenDown
  <2>4. CASE Crash
    BY <1>1, <2>4 DEF Crash
  <2>5. ASSUME NEW t \in Threads, Classify(t) \/ RecordResult(t) PROVE Still(r)
    <3>1. uncertain' = Prune(uncertain, arrived[t])
      BY <2>5 DEF Classify, ClassifyUncertain, ClassifyHit, ClassifyClaim, ClassifyWait,
         ClassifyStillRunning, ClassifySuppress, ClassifyUnclaimed, Proceeds, PruneFirst,
         RecordResult
    <3> QED BY <1>1, <3>1, PruneKeeps
  <2>6. ASSUME NEW t \in Threads, RecordUncertain(t) PROVE Still(r)
    <3> DEFINE known == RememberUncertain(uncertain, frame[t].id, arrived[t])
    <3>1. uncertain' = Prune(known, arrived[t])
      BY <2>6 DEF RecordUncertain
    <3>2. uncertain[r] # Absent => known[r] = uncertain[r]
      BY <1>1, <2>1, RememberKeeps
    <3> HIDE DEF known
    <3> QED BY <1>1, <3>1, <3>2, PruneKeeps
  <2>7. ASSUME NEW t \in Threads, Release(t) PROVE Still(r)
    <3>1. \/ uncertain' = uncertain
          \/ uncertain' = RememberUncertain(uncertain, frame[t].id, clock)
      BY <2>7 DEF Release
    <3> QED BY <1>1, <2>1, <3>1, RememberKeeps
  <2>8. \/ uncertain' = uncertain \/ Load \/ Crash
        \/ \E t \in Threads : \/ Classify(t) \/ RecordResult(t) \/ RecordUncertain(t)
                              \/ Release(t)
    BY <1>1
    DEF Next, vars, Proceed, Scheduled, Record, Tick, Arrive, SpuriousWake, Panic, Pipeline,
        BudgetExpires, GateDeferred, GateElevated, GatePass, RecordElevated, RecordAuto,
        RecordNothing, Notify, Return, table
  <2> QED BY <2>2, <2>3, <2>4, <2>5, <2>6, <2>7, <2>8
<1>2. TableInv /\ ClaimInv /\ AnswerInv /\ [Next]_vars => [\A r \in Ids : Still(r)]_vars
  BY <1>1
<1>3. QuarantineNotRefreshed <=> [][\A r \in Ids : Still(r)]_vars
  BY DEF QuarantineNotRefreshed
<1> HIDE DEF Still
<1> QED BY <1>2, <1>3, Answered, PTL DEF Spec

-----------------------------------------------------------------------------
(* A refusal says "not typed" of what was not typed.                       *)

\* A call that refuses after the step refused before it, about the same id.
LEMMA UntouchedKeep ==
    ASSUME Untouched, typed' \subseteq typed, lost \subseteq lost',
           NEW t \in Threads, Refusing(t)' => Refusing(t) /\ frame'[t].id = frame[t].id
    PROVE  Refusing(t)' => frame'[t].id \notin typed' \ lost'
BY DEF Untouched

LEMMA UntouchedNext ==
    ASSUME TypeOK, ClaimInv, MemoryInv, Untouched, [Next]_vars
    PROVE  Untouched'
<1> DEFINE True(u) == Refusing(u)' => frame'[u].id \notin typed' \ lost'
<1>0. /\ pc \in [Threads -> Stages] /\ frame \in [Threads -> Frames]
      /\ reply \in [Threads -> Replies] /\ panicking \in [Threads -> BOOLEAN]
  BY DEF TypeOK
<1>1. CASE UNCHANGED <<calls, typed, lost>>
  BY <1>1 DEF calls, Untouched, Refusing, HasId
<1>2. CASE Load
  BY <1>2 DEF Load, calls, keyboard, Untouched, Refusing, HasId
<1>3. CASE Crash
  BY <1>3 DEF Crash, Untouched, Refusing
<1>4. ASSUME NEW t \in Threads, Arrive(t) \/ SpuriousWake(t) \/ Panic(t) \/ Proceed(t)
      PROVE  Untouched'
  <2>1. ASSUME NEW u \in Threads, u # t, Refusing(u)'
        PROVE  Refusing(u) /\ frame'[u].id = frame[u].id
    <3>1. /\ frame'[u] = frame[u] /\ panicking'[u] = panicking[u] /\ reply'[u] = reply[u]
          /\ pc'[u] = pc[u] \/ (pc[u] = "waiting" /\ pc'[u] = "classify")
      BY <1>4, <2>1, OthersAlone
    <3> QED BY <2>1, <3>1 DEF Refusing, HasId
  <2>2. CASE Pipeline(t)
    <3>1. PICK outcome \in Outcomes :
            LET sent == IF outcome \in Touching /\ HasId(t) THEN {frame[t].id} ELSE {}
            IN  /\ Answer(t, outcome)
                /\ typed' = typed \cup sent
                /\ lost' = lost \ sent
      BY <2>2 DEF Pipeline
    <3> DEFINE sent == IF outcome \in Touching /\ HasId(t) THEN {frame[t].id} ELSE {}
    <3>2. /\ pc[t] = "pipeline" /\ reply' = [reply EXCEPT ![t] = outcome] /\ frame' = frame
          /\ typed' = typed \cup sent /\ lost' = lost \ sent
      BY <2>2, <3>1 DEF Pipeline, Answer
    <3>3. ASSUME NEW u \in Threads, u # t PROVE True(u)
      <4> SUFFICES ASSUME Refusing(u)' PROVE frame'[u].id \notin typed' \ lost'
        OBVIOUS
      <4>1. Refusing(u) /\ frame'[u].id = frame[u].id
        BY <2>1, <3>3
      <4>2. frame[u].id \notin sent
        BY <3>2, <3>3, <4>1 DEF Refusing, ClaimInv, OneRunPerId, Running, HasId
      <4>3. frame[u].id \notin typed \ lost
        BY <4>1 DEF Untouched
      <4> QED BY <3>2, <4>1, <4>2, <4>3
    <3>4. True(t)
      <4> SUFFICES ASSUME Refusing(t)' PROVE frame'[t].id \notin typed' \ lost'
        OBVIOUS
      <4>1. HasId(t) /\ outcome \in Refusals
        BY <1>0, <3>2 DEF Refusing, HasId
      <4>2. sent = {}
        BY <4>1 DEF Refusals, Touching
      <4> QED BY <3>2, <4>1, <4>2 DEF MemoryInv, FreshRun
    <3> QED BY <3>3, <3>4 DEF Untouched
  <2>3. CASE ~Pipeline(t)
    <3>1. typed' \subseteq typed /\ lost \subseteq lost'
      BY <1>4, <2>3
      DEF Arrive, SpuriousWake, Panic, Proceed, Scheduled, Record, RecordResult,
          RecordUncertain, RecordElevated, RecordAuto, RecordNothing, Release, Notify, Return,
          BudgetExpires, GateDeferred, GateElevated, GatePass, Classify, ClassifyUncertain,
          ClassifyHit, ClassifyClaim, ClassifyWait, ClassifyStillRunning, ClassifySuppress,
          ClassifyUnclaimed, Proceeds, PruneFirst, history, keyboard
    <3>2. ASSUME NEW u \in Threads, u # t PROVE True(u)
      BY <2>1, <3>1, <3>2, UntouchedKeep
    <3>3. True(t)
      <4>1. CASE GateDeferred(t) \/ GateElevated(t)
        <5>1. pc[t] = "gate" /\ frame' = frame
          BY <4>1 DEF GateDeferred, GateElevated
        <5> QED BY <3>1, <5>1 DEF Refusing, HasId, MemoryInv, FreshRun
      <4>2. CASE ~(GateDeferred(t) \/ GateElevated(t))
        <5>1. Refusing(t)' => Refusing(t) /\ frame'[t].id = frame[t].id
          <6> USE <1>0 DEF Goto, Answer, Refusing, Refusals, HasId
          <6>1. CASE Arrive(t) \/ SpuriousWake(t) \/ BudgetExpires(t)
            BY <6>1 DEF Arrive, SpuriousWake, BudgetExpires
          <6>2. CASE Panic(t)
            BY <6>2 DEF Panic
          <6>3. CASE Classify(t)
            BY <6>3
            DEF Classify, ClassifyUncertain, ClassifyHit, ClassifyClaim, ClassifyWait,
                ClassifyStillRunning, ClassifySuppress, ClassifyUnclaimed, Proceeds, PruneFirst
          <6>4. CASE GatePass(t)
            BY <6>4 DEF GatePass
          <6>5. CASE RecordResult(t) \/ RecordUncertain(t) \/ RecordAuto(t)
            BY <6>5 DEF RecordResult, RecordUncertain, RecordAuto
          <6>6. CASE RecordElevated(t) \/ RecordNothing(t)
            BY <6>6 DEF RecordElevated, RecordNothing
          <6>7. CASE Release(t) \/ Notify(t) \/ Return(t)
            BY <6>7 DEF Release, Notify, Return
          <6> QED BY <1>4, <2>3, <4>2, <6>1, <6>2, <6>3, <6>4, <6>5, <6>6, <6>7
                  DEF Proceed, Scheduled, Record
        <5> QED BY <3>1, <5>1, UntouchedKeep
      <4> QED BY <4>1, <4>2
    <3> QED BY <3>2, <3>3 DEF Untouched
  <2> QED BY <2>2, <2>3
<1>5. \/ UNCHANGED <<calls, typed, lost>> \/ Load \/ Crash
      \/ \E t \in Threads : Arrive(t) \/ SpuriousWake(t) \/ Panic(t) \/ Proceed(t)
  BY DEF Next, vars, history, keyboard, Tick
<1> QED BY <1>1, <1>2, <1>3, <1>4, <1>5

\* The phone's row does not go backwards: a run that ends as deferred, elevated or cached
\* was about a delivery that was not typed, or that the table gave up by name.
THEOREM RefusalIsTrue ==
    ASSUME "legacy" \notin Unreadable
    PROVE  Spec => []NotInjectedIsTrue
<1>1. Spec => [](IInv /\ Untouched)
  <2>1. Init => Untouched
    BY DEF Init, Untouched, Refusing
  <2>2. IInv /\ Untouched /\ [Next]_vars => Untouched'
    BY UntouchedNext DEF IInv, TableInv
  <2> QED BY <2>1, <2>2, Inductive, PTL DEF Spec
<1>2. IInv /\ Untouched => NotInjectedIsTrue
  BY DEF IInv, ClaimInv, StageOK, Untouched, Refusing, Refusals, NotInjectedIsTrue
<1> QED BY <1>1, <1>2, PTL

-----------------------------------------------------------------------------
(* The retired ledger goes only when it is absorbed.                       *)

LEMMA LeastRank ==
    ASSUME NEW S \in SUBSET Nat, S # {}
    PROVE  \E m \in S : \A k \in S : m <= k
<1>1. PICK m \in S : \A k \in S : <<k, m>> \notin OpToRel(<, Nat)
  BY NatLessThanWellFounded, WFMin
<1>2. \A k \in S : ~(k < m)
  BY <1>1 DEF OpToRel
<1> QED BY <1>2

\* A merge that does not fit fills the LRU: the best placed id left out has fewer than LruCap
\* before it as soon as fewer were taken.
LEMMA LoadedFills ==
    ASSUME NEW d \in [order : Orders, typed : SUBSET Ids, uncertain : [Ids -> Stamps]],
           d.typed \subseteq Elems(d.order), NEW old \in Orders,
           Cardinality(d.typed \cup Elems(old)) > LruCap,
           NEW o \in Orders, Elems(o) = Loaded(d, old)
    PROVE  Cardinality(Loaded(d, old)) = LruCap
<1> DEFINE ids == d.typed \cup Elems(old)
           in == Loaded(d, old)
           Before(r) == {s \in ids : Rank(d, old, s) < Rank(d, old, r)}
<1>1. IsFiniteSet(ids) /\ IsFiniteSet(in) /\ in \subseteq ids
  <2>1. ids \subseteq Ids
    BY OrdersDef DEF Elems
  <2>2. in \subseteq ids
    BY LoadedIsFiled
  <2> QED BY <2>1, <2>2, IdsAssumption, FS_Subset
<1>2. /\ Cardinality(ids) \in Nat /\ Cardinality(in) \in Nat /\ LruCap \in Nat
      /\ Cardinality(in) <= LruCap
  BY <1>1, OrderCount, FS_CardinalityType, CapAssumption
<1>3. SUFFICES ASSUME Cardinality(in) < LruCap PROVE FALSE
  BY <1>2
<1>4. ids \ in # {}
  <2>1. in # ids
    BY <1>2, <1>3
  <2> QED BY <1>1, <2>1
<1>5. PICK r \in ids \ in : \A s \in ids \ in : Rank(d, old, r) <= Rank(d, old, s)
  <2> DEFINE S == {Rank(d, old, s) + 1 : s \in ids \ in}
  <2>1. \A s \in ids : Rank(d, old, s) \in Int /\ Rank(d, old, s) + 1 \in Nat
    BY RankType
  <2>2. S \in SUBSET Nat /\ S # {}
    BY <1>4, <2>1
  <2>3. PICK m \in S : \A k \in S : m <= k
    <3> HIDE DEF S
    <3> QED BY <2>2, LeastRank
  <2>4. PICK r \in ids \ in : m = Rank(d, old, r) + 1
    OBVIOUS
  <2>5. ASSUME NEW s \in ids \ in PROVE Rank(d, old, r) <= Rank(d, old, s)
    <3>1. Rank(d, old, s) + 1 \in S
      OBVIOUS
    <3>2. m <= Rank(d, old, s) + 1
      BY <2>3, <3>1
    <3> QED BY <2>1, <2>4, <3>2
  <2> QED BY <2>5
<1>6. Before(r) \subseteq in
  <2>1. ASSUME NEW s \in ids \ in PROVE ~(Rank(d, old, s) < Rank(d, old, r))
    BY <1>5, RankType
  <2> QED BY <2>1
<1>7. Cardinality(Before(r)) < LruCap
  <2>1. IsFiniteSet(Before(r)) /\ Cardinality(Before(r)) <= Cardinality(in)
    BY <1>1, <1>6, FS_Subset
  <2>2. Cardinality(Before(r)) \in Nat
    BY <2>1, FS_CardinalityType
  <2> QED BY <1>2, <1>3, <2>1, <2>2
<1> QED BY <1>5, <1>7 DEF Loaded

\* G-13: the retired ledger is deleted only when the live file on disk holds every delivery
\* of it, or as many as the LRU keeps.
THEOREM RetiredIsAbsorbed ==
    ASSUME "legacy" \notin Unreadable
    PROVE  Spec => RetiredOnlyWhenAbsorbed
<1> DEFINE Absorbed == legacy # <<>> /\ legacy' = <<>>
                         => \/ Elems(legacy) \subseteq disk'.typed
                            \/ Cardinality(disk'.typed) = LruCap
<1>1. ASSUME TableInv, LedgerInv, Load, legacy # <<>>, legacy' = <<>>
      PROVE  Elems(legacy) \subseteq disk'.typed \/ Cardinality(disk'.typed) = LruCap
  <2>1. PICK unread \in SUBSET Unreadable : LoadFrom(LiveRead(unread), LegacyRead(unread))
    BY <1>1 DEF Load
  <2> DEFINE d == LiveRead(unread)
             ids == d.typed \cup Elems(legacy)
  <2>2. LegacyRead(unread) = legacy
    BY DEF LegacyRead
  <2>3. /\ d \in [order : Orders, typed : SUBSET Ids, uncertain : [Ids -> Stamps]]
        /\ d.typed \subseteq Elems(d.order) /\ legacy \in Orders
    BY <1>1, EmptyOrder DEF LiveRead, EmptyLedger, TableInv, TypeOK, LedgerInv, Stamps
  <2>4. /\ order' \in Orders /\ Elems(order') = Loaded(d, legacy)
        /\ disk' = Ledger(order', SeedResults(Loaded(d, legacy)), Prune(d.uncertain, clock))
    BY <1>1, <2>1, <2>2 DEF LoadFrom, IsLoadOrder, Migrate
  <2>5. ids \subseteq Ids
    BY <2>3, OrdersDef DEF Elems
  <2>6. disk'.typed = Loaded(d, legacy)
    BY <2>4, <2>5, LoadedIsFiled DEF Ledger, SeedResults, TypedEntries
  <2>7. CASE Cardinality(ids) <= LruCap
    BY <2>3, <2>6, <2>7, LoadedAll
  <2>8. CASE ~(Cardinality(ids) <= LruCap)
    <3>1. Cardinality(ids) \in Nat
      BY <2>5, IdsAssumption, FS_Subset, FS_CardinalityType
    <3>2. Cardinality(ids) > LruCap
      BY <2>8, <3>1, CapAssumption
    <3> QED BY <2>3, <2>4, <2>6, <3>2, LoadedFills
  <2> QED BY <2>7, <2>8
<1>2. ASSUME [Next]_vars, legacy # <<>>, legacy' = <<>> PROVE Load
  <2> SUFFICES ASSUME ~Load PROVE legacy' = legacy
    BY <1>2
  <2>1. ASSUME NEW t \in Threads, Classify(t) PROVE legacy' = legacy
    BY <2>1 DEF Classify, ClassifyUncertain, ClassifyHit, ClassifyClaim, ClassifyWait,
                ClassifyStillRunning, ClassifySuppress, ClassifyUnclaimed, Proceeds,
                PruneFirst, files
  <2>2. ASSUME NEW t \in Threads, Record(t) PROVE legacy' = legacy
    BY <2>2 DEF Record, RecordResult, RecordUncertain, RecordElevated, RecordAuto,
                RecordNothing, files
  <2>3. ASSUME NEW t \in Threads, Scheduled(t) PROVE legacy' = legacy
    <3>1. CASE Classify(t)
      BY <2>1, <3>1
    <3>2. CASE Record(t)
      BY <2>2, <3>2
    <3>3. CASE GateDeferred(t) \/ GateElevated(t) \/ GatePass(t)
      BY <3>3 DEF GateDeferred, GateElevated, GatePass, files
    <3>4. CASE Release(t)
      BY <3>4 DEF Release, files
    <3>5. CASE Notify(t) \/ Return(t)
      BY <3>5 DEF Notify, Return, files
    <3> QED BY <2>3, <3>1, <3>2, <3>3, <3>4, <3>5 DEF Scheduled
  <2>4. ASSUME NEW t \in Threads, Proceed(t) PROVE legacy' = legacy
    <3>1. CASE Pipeline(t)
      BY <3>1 DEF Pipeline, files
    <3>2. CASE BudgetExpires(t)
      BY <3>2 DEF BudgetExpires, files
    <3> QED BY <2>3, <2>4, <3>1, <3>2 DEF Proceed
  <2>5. ASSUME NEW t \in Threads, Arrive(t) \/ SpuriousWake(t) \/ Panic(t)
        PROVE  legacy' = legacy
    BY <2>5 DEF Arrive, SpuriousWake, Panic, files
  <2>6. Crash \/ Tick => legacy' = legacy
    BY DEF Crash, Tick, files
  <2>7. UNCHANGED vars => legacy' = legacy
    BY DEF vars, files
  <2> QED BY <1>2, <2>4, <2>5, <2>6, <2>7 DEF Next
<1>3. IInv /\ [Next]_vars => [Absorbed]_vars
  BY <1>1, <1>2 DEF IInv
<1>4. RetiredOnlyWhenAbsorbed <=> [][Absorbed]_vars
  BY DEF RetiredOnlyWhenAbsorbed
<1> HIDE DEF Absorbed
<1> QED BY <1>3, <1>4, Inductive, PTL DEF Spec

=============================================================================
