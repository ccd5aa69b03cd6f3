---------------------- MODULE RevocationFollowerProofs ----------------------
(***************************************************************************)
(* Theorems about RevocationFollower, for every value of its constants:    *)
(* only what the writer no longer holds is closed, no hint and no sweep    *)
(* that was asked for is lost, and no slice exceeds one credentials_check. *)
(*                                                                         *)
(* The argument for the first: whatever the follower may come to hold, in  *)
(* rows, snapshots, sockets or slices of a round, was issued by the writer *)
(* (IssuedInv). What the writer answers not to hold of that is revoked,    *)
(* and revoked is for ever: so is what a round has heard of, and, in the   *)
(* same turn, the socket that carries it (SweepInv).                       *)
(*                                                                         *)
(* For the second: the writer's pair never comes back to one it left, so   *)
(* that a pair the follower does not take for a change was taken when the  *)
(* writer had revoked exactly as much (PairsInv).                          *)
(***************************************************************************)
EXTENDS RevocationFollower, FiniteSetTheorems, TLAPS

\* Every credential the writer ever gave out.
Issued == rows \cup revoked

Fetched(issued) == [Fetches -> {Nothing, Asked} \cup [at : {"taken"}, rows : SUBSET issued]]

IssuedInv ==
    /\ rows \cap revoked = {} /\ Issued \subseteq Ids
    /\ \A i \in Issued : ParentOf[i] \in Issued \cup {NoId}
    /\ local \subseteq Issued
    /\ conn \in [Sockets -> Issued \cup {NoId}]
    /\ asks \in [Sockets -> {Nothing} \cup [at : {"asked", "held"}, id : Issued]]
    /\ fetch \in Fetched(Issued)

Round(issued, gone) ==
    [out : SUBSET issued, left : SUBSET issued, absent : SUBSET gone,
     verdict : {None} \cup SUBSET gone]

SweepInv ==
    /\ sweep # None => sweep \in Round(Issued, revoked)
    /\ cursor \in Nat
    /\ evicted \subseteq revoked

CredInv == IssuedInv /\ SweepInv

-----------------------------------------------------------------------------
(* What a round asks about.                                                *)

\* Of a finite set of numbers, some element has exactly k below it.
LEMMA NthExists ==
    ASSUME NEW S, S \subseteq Nat, IsFiniteSet(S), NEW k \in 0..Cardinality(S) - 1
    PROVE  Nth(S, k) \in S
<1> DEFINE n == Cardinality(S)
           Below(i) == {j \in S : j < i}
           f == [i \in S |-> Cardinality(Below(i))]
<1>1. n \in Nat
  BY FS_CardinalityType
<1>2. ASSUME NEW i \in S
      PROVE  IsFiniteSet(Below(i)) /\ Cardinality(Below(i)) \in 0..n - 1
  <2>1. Below(i) \in SUBSET S /\ i \notin Below(i)
    OBVIOUS
  <2>2. IsFiniteSet(Below(i)) /\ Cardinality(Below(i)) <= n /\ Cardinality(Below(i)) # n
    BY <2>1, FS_Subset
  <2>3. Cardinality(Below(i)) \in Nat
    BY <2>2, FS_CardinalityType
  <2> QED BY <1>1, <2>2, <2>3
<1>3. ASSUME NEW i \in S, NEW j \in S, i < j
      PROVE  f[i] # f[j]
  <2>0. i \in Nat /\ j \in Nat /\ \A x \in S : x \in Nat
    OBVIOUS
  <2>1. Below(i) \in SUBSET Below(j) /\ i \in Below(j) /\ i \notin Below(i)
    <3>1. \A x \in S : x < i => x < j
      BY <1>3, <2>0
    <3>2. ~(i < i)
      BY <2>0
    <3> QED BY <1>3, <3>1, <3>2
  <2>2. Cardinality(Below(i)) # Cardinality(Below(j))
    BY <1>2, <2>1, FS_Subset
  <2> QED BY <2>2
<1>4. f \in Injection(S, 0..n - 1)
  <2>1. f \in [S -> 0..n - 1]
    BY <1>2
  <2>2. \A i, j \in S : f[i] = f[j] => i = j
    BY <1>3
  <2> QED BY <2>1, <2>2 DEF Injection, IsInjective
<1>5. IsFiniteSet(0..n - 1) /\ Cardinality(0..n - 1) = n
  BY <1>1, FS_Interval
<1>6. f \in Surjection(S, 0..n - 1)
  BY <1>4, <1>5, FS_Injection
<1>7. \E i \in S : Cardinality(Below(i)) = k
  BY <1>6 DEF Surjection
<1> QED BY <1>7 DEF Nth

\* A round asks about credentials some socket carries, and its cursor is a number.
LEMMA RoundAsksIssued ==
    ASSUME NEW I \in SUBSET Ids, NEW c \in [Sockets -> I \cup {NoId}], NEW mode, NEW loc,
           cursor \in Nat, NEW r \in RoundsOf(mode, c, loc)
    PROVE  r.asked \in SUBSET I /\ r.next \in Nat
<1> DEFINE live == {c[s] : s \in Sockets} \ {NoId}
           missing == live \ loc
           held == live \cap loc
           n == Cardinality(held)
           start == cursor % n
           Firsts == {f \in SUBSET missing :
                        Cardinality(f) = Least(FullVerifyMax, Cardinality(missing))}
           Take(first) == Least(FullVerifyMax - Cardinality(first), n)
           Picked(first) == {Nth(held, (start + k) % n) : k \in 0..Take(first) - 1}
<1>1. live \in SUBSET I
  OBVIOUS
<1>2. /\ held \in SUBSET I /\ missing \in SUBSET I
      /\ held \subseteq Nat /\ IsFiniteSet(held) /\ IsFiniteSet(missing)
  BY <1>1, FS_Subset, IdsAssumption
<1>3. n \in Nat /\ Cardinality(missing) \in Nat
  BY <1>2, FS_CardinalityType
<1>4. CASE mode = "missing"
  <2>1. r = [asked |-> missing, next |-> cursor]
    BY <1>4 DEF RoundsOf
  <2> QED BY <2>1, <1>2
<1>5. CASE mode # "missing"
  <2>1. PICK first \in Firsts :
            r = IF Take(first) = 0 THEN [asked |-> first, next |-> cursor]
                ELSE [asked |-> first \cup Picked(first), next |-> (start + Take(first)) % n]
    BY <1>5 DEF RoundsOf
  <2>2. first \in SUBSET I /\ Cardinality(first) \in Nat /\ Cardinality(first) <= FullVerifyMax
    BY <1>2, <1>3, FS_CardinalityType, FS_Subset, LimitsAssumption DEF Least
  <2>3. Take(first) \in Nat /\ Take(first) <= n
    BY <1>3, <2>2, LimitsAssumption DEF Least
  <2>4. CASE Take(first) = 0
    BY <2>1, <2>2, <2>4
  <2>5. CASE Take(first) # 0
    <3>1. n \in Nat \ {0}
      BY <1>3, <2>3, <2>5
    <3>2. \A a \in Nat : a % n \in 0..n - 1
      BY <3>1
    <3>3. start \in Nat
      BY <3>2
    <3>4. \A k \in 0..Take(first) - 1 : (start + k) % n \in 0..n - 1
      BY <3>2, <3>3, <2>3
    <3>5. Picked(first) \in SUBSET I
      BY <3>4, <1>2, NthExists
    <3>6. (start + Take(first)) % n \in Nat
      BY <3>1, <3>2, <3>3, <2>3
    <3> QED BY <2>1, <2>2, <2>5, <3>5, <3>6
  <2> QED BY <2>4, <2>5
<1> QED BY <1>4, <1>5

\* The round it starts has asked nothing yet, and is made of what was issued.
LEMMA StartsRound ==
    ASSUME IssuedInv, cursor \in Nat, NEW mode, NEW loc,
           NEW c \in [Sockets -> Issued \cup {NoId}], StartRound(mode, c, loc)
    PROVE  /\ sweep' # None => sweep' \in Round(Issued, revoked)
           /\ cursor' \in Nat
<1>1. PICK r \in RoundsOf(mode, c, loc) :
          /\ cursor' = r.next
          /\ IF r.asked = {} THEN sweep' = None ELSE Asking(r.asked, {})
  BY DEF StartRound
<1>2. r.asked \in SUBSET Issued /\ r.next \in Nat
  BY RoundAsksIssued DEF IssuedInv
<1>3. ASSUME Asking(r.asked, {})
      PROVE  sweep' \in Round(Issued, revoked)
  BY <1>2, <1>3 DEF Asking, Slices, Round
<1> QED BY <1>1, <1>2, <1>3

LEMMA RunsSweep ==
    ASSUME CredInv, NEW mode, NEW loc, RunSweep(mode, loc)
    PROVE  /\ sweep' # None => sweep' \in Round(Issued, revoked)
           /\ cursor' \in Nat
<1>1. CASE sweep = None /\ StartRound(mode, conn, loc)
  BY <1>1, StartsRound DEF CredInv, IssuedInv, SweepInv
<1>2. CASE sweep # None /\ UNCHANGED <<sweep, cursor>>
  BY <1>2 DEF CredInv, SweepInv
<1> QED BY <1>1, <1>2 DEF RunSweep

LEMMA EndsRound ==
    ASSUME CredInv, NEW confirmed \in SUBSET revoked, EndRound(confirmed),
           UNCHANGED <<rows, revoked>>
    PROVE  /\ conn' \in [Sockets -> Issued \cup {NoId}]
           /\ SweepInv'
<1>1. conn' \in [Sockets -> Issued \cup {NoId}]
  BY DEF EndRound, CredInv, IssuedInv
<1>2. evicted' \subseteq revoked
  BY DEF EndRound, Closed, CredInv, SweepInv
<1>3. /\ sweep' # None => sweep' \in Round(Issued, revoked)
      /\ cursor' \in Nat
  <2>1. CASE StartRound(pending, conn', local)
    BY <2>1, <1>1, StartsRound DEF CredInv, SweepInv
  <2>2. CASE sweep' = None /\ UNCHANGED cursor
    BY <2>2 DEF CredInv, SweepInv
  <2> QED BY <2>1, <2>2 DEF EndRound
<1> QED BY <1>1, <1>2, <1>3 DEF SweepInv, Issued, Round

\* Whichever way a pull goes on, the snapshots under way stay what they were, or one
\* more is asked for.
LEMMA FetchesOn ==
    ASSUME NEW I, fetch \in Fetched(I), NEW k \in Fetches,
           TriggerPull \/ FetchEnds(k) \/ PullOrWait(TRUE, fetch)
    PROVE  fetch' \in Fetched(I)
<1>1. ASSUME NEW passed, NEW rest \in Fetched(I), PullOrWait(passed, rest)
      PROVE  fetch' \in Fetched(I)
  BY <1>1 DEF PullOrWait, Fetched, Fetches
<1>2. CASE TriggerPull
  BY <1>1, <1>2 DEF TriggerPull
<1>3. CASE FetchEnds(k)
  <2> DEFINE rest == [fetch EXCEPT ![k] = Nothing]
  <2>1. rest \in Fetched(I)
    BY DEF Fetched
  <2>2. CASE PullEnds(rest)
    BY <1>1, <2>1, <2>2 DEF PullEnds
  <2>3. CASE fetch' = rest
    BY <2>1, <2>3
  <2> QED BY <1>3, <2>2, <2>3 DEF FetchEnds
<1>4. CASE PullOrWait(TRUE, fetch)
  BY <1>1, <1>4
<1> QED BY <1>2, <1>3, <1>4

LEMMA CredInit == Init => CredInv
<1> SUFFICES ASSUME Init PROVE CredInv
  OBVIOUS
<1>1. IssuedInv
  BY IdsAssumption, ParentAssumption
     DEF Init, IssuedInv, Issued, NoSockets, NoAsks, NoFetch, Fetched
<1>2. SweepInv
  BY DEF Init, SweepInv
<1> QED BY <1>1, <1>2 DEF CredInv

\* The writer gives out a credential, or revokes one.
LEMMA CredWriter ==
    ASSUME CredInv, NEW i \in Ids,
           Pair(i) \/ Revoke(i)
    PROVE  CredInv'
<1> USE DEF CredInv
<1>1. CASE Pair(i)
  <2>1. Issued' = Issued \cup {i} /\ revoked' = revoked /\ rows' = rows \cup {i}
    BY <1>1 DEF Pair, Issued
  <2>2. IssuedInv'
    BY <1>1, <2>1 DEF Pair, IssuedInv, Issued, Fetched, loopVars, pullVars, sweepVars, socketVars
  <2>3. SweepInv'
    BY <1>1, <2>1 DEF Pair, SweepInv, Round, sweepVars
  <2> QED BY <2>2, <2>3
<1>2. CASE Revoke(i)
  <2>1. /\ Issued' = Issued /\ revoked \subseteq revoked'
        /\ rows' \cap revoked' = {}
    BY <1>2 DEF Revoke, Issued, IssuedInv
  <2>2. IssuedInv'
    BY <1>2, <2>1 DEF Revoke, IssuedInv, Fetched, socketVars
  <2>3. SweepInv'
    BY <1>2, <2>1 DEF Revoke, SweepInv, Round, sweepVars
  <2> QED BY <2>2, <2>3
<1> QED BY <1>1, <1>2

\* The sockets' steps.
LEMMA CredSocket ==
    ASSUME CredInv, NEW s \in Sockets, NEW i,
           \/ AdmittedLocally(s, i) \/ AsksWriter(s, i) \/ WriterResolves(s)
           \/ ReadThroughFails(s) \/ ReadThroughLands(s) \/ Leaves(s)
    PROVE  CredInv'
<1> USE DEF CredInv
<1>1. UNCHANGED <<writerVars, fetch, sweepVars>>
  BY DEF AdmittedLocally, AsksWriter, WriterResolves, ReadThroughFails, ReadThroughLands, Leaves
<1>2. SweepInv' /\ Issued' = Issued
  BY <1>1 DEF SweepInv, Issued, Round, sweepVars, writerVars
<1>3. \A t \in Sockets : asks[t].at \in {"asked", "held"} => asks[t].id \in Issued
  BY NoneAssumption DEF IssuedInv, Nothing
<1>4. /\ local' \subseteq Issued
      /\ conn' \in [Sockets -> Issued \cup {NoId}]
      /\ asks' \in [Sockets -> {Nothing} \cup [at : {"asked", "held"}, id : Issued]]
  <2>1. CASE AdmittedLocally(s, i)
    BY <2>1 DEF AdmittedLocally, IssuedInv
  <2>2. CASE AsksWriter(s, i)
    BY <2>2 DEF AsksWriter, IssuedInv, Issued
  <2>3. CASE WriterResolves(s)
    <3>1. [asks[s] EXCEPT !.at = "held"] \in [at : {"asked", "held"}, id : Issued]
      BY <2>3, <1>3, NoneAssumption DEF WriterResolves, IssuedInv, Nothing
    <3>2. asks' = [asks EXCEPT ![s] = asks'[s]]
                /\ asks'[s] \in {Nothing, [asks[s] EXCEPT !.at = "held"]}
      BY <2>3 DEF WriterResolves, IssuedInv
    <3> QED BY <2>3, <3>1, <3>2 DEF WriterResolves, IssuedInv
  <2>4. CASE ReadThroughFails(s)
    BY <2>4 DEF ReadThroughFails, IssuedInv
  <2>5. CASE ReadThroughLands(s)
    <3>1. asks[s].id \in Issued /\ ParentOf[asks[s].id] \in Issued \cup {NoId}
      BY <2>5, <1>3 DEF ReadThroughLands, IssuedInv
    <3> QED BY <2>5, <3>1 DEF ReadThroughLands, IssuedInv
  <2>6. CASE Leaves(s)
    BY <2>6 DEF Leaves, IssuedInv
  <2> QED BY <2>1, <2>2, <2>3, <2>4, <2>5, <2>6
<1>5. IssuedInv'
  BY <1>1, <1>2, <1>4 DEF IssuedInv, Issued, Fetched, writerVars
<1> QED BY <1>2, <1>5

\* The loop and the floor move snapshots only.
LEMMA CredLoop ==
    ASSUME CredInv, Loop \/ FloorPasses
    PROVE  CredInv'
<1>1. UNCHANGED <<rows, revoked, local, sweepVars, socketVars>>
  BY DEF Loop, HintArrives, HintSettles, HintFails, HintTaken, FloorPasses, writerVars
<1>2. fetch' \in Fetched(Issued)
  <2>1. fetch \in Fetched(Issued)
    BY DEF CredInv, IssuedInv
  <2>2. CASE Loop
    BY <2>1, <2>2, FetchesOn
       DEF Loop, HintArrives, HintSettles, HintFails, HintTaken, Fetches
  <2>3. CASE FloorPasses
    BY <2>1, <2>3, FetchesOn DEF FloorPasses, Fetches
  <2> QED BY <2>2, <2>3
<1> QED BY <1>1, <1>2 DEF CredInv, IssuedInv, SweepInv, Issued, sweepVars, socketVars

\* The steps of the sweep and of the watchdog.
LEMMA CredSweep ==
    ASSUME CredInv, Check \/ WatchdogLooks
    PROVE  CredInv'
<1> USE DEF CredInv
<1>1. UNCHANGED <<rows, revoked, fetch, local, asks>>
  BY DEF Check, CheckJudged, CheckAnswered, CheckFails, WatchdogLooks, writerVars, socketVars
<1>2. conn' \in [Sockets -> Issued \cup {NoId}] /\ SweepInv'
  <2>1. CASE CheckJudged
    <3>1. sweep \in Round(Issued, revoked) /\ sweep' = [sweep EXCEPT !.verdict = sweep.out \ rows]
      BY <2>1 DEF CheckJudged, SweepInv
    <3>2. sweep.out \ rows \in SUBSET revoked
      BY <3>1 DEF Round, Issued
    <3>3. sweep' \in Round(Issued, revoked)
      BY <3>1, <3>2 DEF Round
    <3>4. UNCHANGED <<conn, cursor, evicted>>
      BY <2>1 DEF CheckJudged, socketVars
    <3> QED BY <1>1, <3>3, <3>4 DEF SweepInv, IssuedInv, Issued
  <2>2. CASE CheckAnswered
    <3> DEFINE absent == sweep.absent \cup sweep.verdict
    <3>1. absent \in SUBSET revoked /\ sweep.left \in SUBSET Issued
      BY <2>2 DEF CheckAnswered, SweepInv, Round
    <3>2. CASE Asking(sweep.left, absent) /\ UNCHANGED <<cursor, evicted, conn>>
      <4>1. sweep' \in Round(Issued, revoked)
        BY <3>1, <3>2 DEF Asking, Slices, Round
      <4> QED BY <1>1, <3>2, <4>1 DEF SweepInv, IssuedInv, Issued
    <3>3. CASE EndRound(absent)
      BY <1>1, <3>1, <3>3, EndsRound
    <3> QED BY <2>2, <3>2, <3>3 DEF CheckAnswered
  <2>3. CASE CheckFails
    <3>1. sweep.absent \in SUBSET revoked /\ EndRound(sweep.absent)
      BY <2>3 DEF CheckFails, SweepInv, Round
    <3> QED BY <1>1, <3>1, EndsRound
  <2>4. CASE WatchdogLooks
    <3>1. conn' = conn /\ evicted' = evicted
      BY <2>4 DEF WatchdogLooks, socketVars, sweepVars
    <3>2. CASE RunSweep("all", local)
      BY <1>1, <3>1, <3>2, RunsSweep DEF SweepInv, IssuedInv, Issued
    <3>3. CASE UNCHANGED sweepVars
      BY <1>1, <3>1, <3>3 DEF SweepInv, IssuedInv, Issued, sweepVars
    <3> QED BY <2>4, <3>2, <3>3 DEF WatchdogLooks
  <2> QED BY <2>1, <2>2, <2>3, <2>4 DEF Check
<1> QED BY <1>1, <1>2 DEF IssuedInv, Issued, Fetched

\* The pulls' steps.
LEMMA CredPull ==
    ASSUME CredInv, NEW k \in Fetches, TimedPull \/ Fetch(k)
    PROVE  CredInv'
<1> USE DEF CredInv
<1>1. UNCHANGED <<rows, revoked, conn, asks>>
  BY DEF TimedPull, Fetch, SnapshotTaken, PullFails, Import, writerVars, socketVars
<1>2. fetch \in Fetched(Issued) /\ Taken \in [at : {"taken"}, rows : SUBSET Issued]
  BY DEF IssuedInv, Taken, Issued
<1>3. fetch' \in Fetched(Issued)
  <2>1. CASE TimedPull \/ SnapshotTaken
    BY <1>2, <2>1 DEF TimedPull, SnapshotTaken, Fetched
  <2>2. CASE PullFails(k) \/ Import(k)
    BY <1>2, <2>2, FetchesOn DEF PullFails, Import
  <2> QED BY <2>1, <2>2 DEF Fetch
<1>4. local' \subseteq Issued
  <2>1. CASE Import(k)
    BY <1>2, <2>1, NoneAssumption DEF Import, Fetched, Nothing, Asked
  <2>2. CASE ~Import(k)
    BY <2>2 DEF TimedPull, Fetch, SnapshotTaken, PullFails, IssuedInv
  <2> QED BY <2>1, <2>2
<1>5. SweepInv'
  <2>1. CASE Import(k)
    <3>1. RunSweep("missing", fetch[k].rows) /\ evicted' = evicted
      BY <2>1 DEF Import
    <3> QED BY <1>1, <3>1, RunsSweep DEF SweepInv, Issued
  <2>2. CASE ~Import(k)
    BY <1>1, <2>2 DEF TimedPull, Fetch, SnapshotTaken, PullFails, SweepInv, sweepVars, Issued
  <2> QED BY <2>1, <2>2
<1> QED BY <1>1, <1>3, <1>4, <1>5 DEF IssuedInv, Issued, Fetched

LEMMA CredNext == CredInv /\ [Next]_vars => CredInv'
<1> SUFFICES ASSUME CredInv, [Next]_vars PROVE CredInv'
  OBVIOUS
<1>1. CASE \E i \in Ids : Pair(i) \/ Revoke(i)
  BY <1>1, CredWriter
<1>2. CASE WriterRestarts \/ OutageBegins \/ OutageEnds
  <2>1. UNCHANGED <<rows, revoked, fetch, local, sweepVars, socketVars>>
    BY <1>2 DEF WriterRestarts, OutageBegins, OutageEnds
  <2> QED BY <2>1 DEF CredInv, IssuedInv, SweepInv, Issued, sweepVars, socketVars
<1>3. CASE Loop \/ FloorPasses
  BY <1>3, CredLoop
<1>4. CASE Check \/ WatchdogLooks
  BY <1>4, CredSweep
<1>5. CASE TimedPull \/ \E k \in Fetches : Fetch(k)
  BY <1>5, CredPull DEF Fetches
<1>6. CASE \E s \in Sockets :
              \/ \E i \in Ids : AdmittedLocally(s, i) \/ AsksWriter(s, i)
              \/ WriterResolves(s) \/ ReadThroughFails(s) \/ ReadThroughLands(s) \/ Leaves(s)
  BY <1>6, CredSocket
<1>7. CASE UNCHANGED vars
  BY <1>7 DEF vars, writerVars, sweepVars, socketVars, CredInv, IssuedInv, SweepInv, Issued
<1> QED BY <1>1, <1>2, <1>3, <1>4, <1>5, <1>6, <1>7 DEF Next

(* The follower closes a socket only when the writer really no longer holds  *)
(* the credential it carries, for any number of credentials and sockets, of  *)
(* pulls, outages and restarts, and any size of slices and rounds.           *)
THEOREM OnlyRevokedClosed == Spec => []ClosesOnlyRevoked
<1>1. CredInv => ClosesOnlyRevoked
  BY DEF CredInv, IssuedInv, SweepInv, ClosesOnlyRevoked
<1> QED BY CredInit, CredNext, <1>1, PTL DEF Spec

-----------------------------------------------------------------------------
(* No sweep that was asked for is lost.                                    *)

SweepsInv ==
    /\ pending \in {None, "missing", "all"} /\ owed \subseteq {"missing", "all"}
    /\ SweepsKept

\* A round that starts when nothing wider is owed owes nothing any more.
LEMMA RoundOwesNothing ==
    ASSUME NEW mode \in {"missing", "all"}, NEW c, NEW loc, StartRound(mode, c, loc),
           owed \subseteq {"missing", "all"}, "all" \in owed => mode = "all"
    PROVE  owed' = {} /\ pending' = None
BY DEF StartRound

LEMMA RunSweepKeeps ==
    ASSUME SweepsInv, NEW mode \in {"missing", "all"}, NEW loc, RunSweep(mode, loc)
    PROVE  SweepsInv'
<1> USE DEF SweepsInv, SweepsKept
<1>1. CASE sweep = None /\ StartRound(mode, conn, loc)
  <2>1. owed' = {} /\ pending' = None
    BY <1>1, RoundOwesNothing
  <2> QED BY <2>1
<1>2. CASE /\ sweep # None /\ pending' = Wider(mode) /\ owed' = owed \cup {mode}
           /\ UNCHANGED <<sweep, cursor>>
  BY <1>2, NoneAssumption DEF Wider
<1> QED BY <1>1, <1>2 DEF RunSweep

LEMMA EndRoundKeeps ==
    ASSUME SweepsInv, NEW confirmed, EndRound(confirmed)
    PROVE  SweepsInv'
<1> USE DEF SweepsInv, SweepsKept
<1>1. CASE pending # None /\ StartRound(pending, conn', local)
  <2>1. owed' = {} /\ pending' = None
    BY <1>1, RoundOwesNothing
  <2> QED BY <2>1
<1>2. CASE pending = None /\ sweep' = None /\ UNCHANGED <<pending, owed>>
  BY <1>2
<1> QED BY <1>1, <1>2 DEF EndRound

LEMMA SweepsNext == CredInv /\ SweepsInv /\ [Next]_vars => SweepsInv'
<1> SUFFICES ASSUME CredInv, SweepsInv, [Next]_vars PROVE SweepsInv'
  OBVIOUS
<1>0. None \notin Round(Issued, revoked)
  <2>1. Issued \subseteq Ids /\ revoked \subseteq Ids
    BY DEF CredInv, IssuedInv, Issued
  <2>2. Round(Issued, revoked) \subseteq Rounds
    BY <2>1 DEF Round, Rounds
  <2> QED BY <2>2, NoneAssumption
<1> USE DEF SweepsInv, SweepsKept
<1>1. CASE CheckJudged
  <2>1. sweep \in Round(Issued, revoked) /\ sweep.out \ rows \in SUBSET revoked
    BY <1>1 DEF CheckJudged, CredInv, SweepInv, Round, Issued
  <2>2. sweep' = [sweep EXCEPT !.verdict = sweep.out \ rows]
    BY <1>1 DEF CheckJudged
  <2>3. sweep' # None
    <3>1. sweep' \in Round(Issued, revoked)
      BY <2>1, <2>2 DEF Round
    <3> QED BY <1>0, <3>1
  <2> QED BY <1>1, <2>3 DEF CheckJudged
<1>2. CASE CheckAnswered
  <2>1. CASE /\ Asking(sweep.left, sweep.absent \cup sweep.verdict)
             /\ UNCHANGED <<pending, owed>>
    <3>1. /\ sweep.left \in SUBSET Issued /\ sweep.absent \cup sweep.verdict \in SUBSET revoked
          /\ sweep # None
      BY <1>2 DEF CheckAnswered, CredInv, SweepInv, Round
    <3>2. sweep' \in Round(Issued, revoked)
      BY <2>1, <3>1 DEF Asking, Slices, Round
    <3>3. sweep' # None
      BY <1>0, <3>2
    <3> QED BY <2>1, <3>1, <3>3
  <2>2. CASE EndRound(sweep.absent \cup sweep.verdict)
    BY <2>2, EndRoundKeeps
  <2> QED BY <1>2, <2>1, <2>2 DEF CheckAnswered
<1>3. CASE CheckFails
  BY <1>3, EndRoundKeeps DEF CheckFails
<1>4. CASE WatchdogLooks
  <2>1. CASE RunSweep("all", local)
    BY <2>1, RunSweepKeeps
  <2>2. CASE UNCHANGED sweepVars
    BY <2>2 DEF sweepVars
  <2> QED BY <1>4, <2>1, <2>2 DEF WatchdogLooks
<1>5. CASE \E k \in Fetches : Import(k)
  BY <1>5, RunSweepKeeps DEF Import
<1>6. CASE UNCHANGED <<sweep, pending, owed>>
  BY <1>6
<1>7. \/ CheckJudged \/ CheckAnswered \/ CheckFails \/ WatchdogLooks
      \/ \E k \in Fetches : Import(k)
      \/ UNCHANGED <<sweep, pending, owed>>
  BY DEF Next, vars, sweepVars, Pair, Revoke, WriterRestarts, OutageBegins, OutageEnds, Loop,
         HintArrives, HintSettles, HintFails, HintTaken, FloorPasses, Check, TimedPull, Fetch,
         SnapshotTaken, PullFails, AdmittedLocally, AsksWriter, WriterResolves,
         ReadThroughFails, ReadThroughLands, Leaves
<1> QED BY <1>1, <1>2, <1>3, <1>4, <1>5, <1>6, <1>7

-----------------------------------------------------------------------------
(* No hint is lost.                                                        *)

\* A pair is never ahead of the writer's.
NotAhead(p, h) == p.boot < h.boot \/ (p.boot = h.boot /\ p.gen <= h.gen)

\* What is known of the writer's count is what it was at that pair: equal pairs, equal
\* counts.
PairsInv ==
    /\ hint \in Pairs
    /\ seen \in {None} \cup Pairs
    /\ asking \in {Asked, [at |-> "held"]} \cup [at : {"answered"}, pair : Pairs, knows : Nat]
    /\ seen # None => NotAhead(seen, hint)
    /\ asking.at = "answered" =>
          /\ NotAhead(asking.pair, hint) /\ asking.knows <= Revocations
          /\ asking.pair = hint => asking.knows = Revocations
          /\ seen = asking.pair => known = asking.knows
    /\ seen = hint => known = Revocations

CountsInv ==
    /\ {known, covered} \subseteq Nat /\ known <= Revocations /\ covered <= Revocations
    /\ pulling = "flight" <=> fetch["hint"] # Nothing
    /\ pulling \in {None, "floor", "flight"} /\ pullAgain \in BOOLEAN

HintInv == PairsInv /\ CountsInv /\ HintsFollowed

\* The writer's count is a number, and revocations raise it and the generation.
LEMMA CountType == CredInv => IsFiniteSet(rows) /\ IsFiniteSet(revoked) /\ Revocations \in Nat
<1> SUFFICES ASSUME CredInv PROVE IsFiniteSet(rows) /\ IsFiniteSet(revoked) /\ Revocations \in Nat
  OBVIOUS
<1>1. rows \in SUBSET Ids /\ revoked \in SUBSET Ids
  BY DEF CredInv, IssuedInv, Issued
<1> QED BY <1>1, IdsAssumption, FS_Subset, FS_CardinalityType DEF Revocations

LEMMA RevokeCounts ==
    ASSUME CredInv, hint \in Pairs, NEW i, Revoke(i)
    PROVE  /\ Revocations' \in Nat /\ Revocations <= Revocations'
           /\ hint' \in Pairs /\ hint'.boot = hint.boot /\ hint'.gen > hint.gen
<1> DEFINE gone == {j \in rows : j = i \/ ParentOf[j] = i}
<1>1. gone \in SUBSET rows /\ i \in gone
  BY DEF Revoke
<1>2. IsFiniteSet(rows) /\ IsFiniteSet(gone) /\ IsFiniteSet(revoked)
  BY <1>1, CountType, FS_Subset
<1>3. Cardinality(gone) \in Nat \ {0}
  BY <1>1, <1>2, FS_CardinalityType, FS_EmptySet
<1>4. /\ revoked' = revoked \cup gone
      /\ hint' = [hint EXCEPT !.gen = @ + Cardinality(gone)]
  BY DEF Revoke
<1>5. IsFiniteSet(revoked') /\ revoked \in SUBSET revoked'
  BY <1>2, <1>4, FS_Union
<1>6. Revocations' \in Nat /\ Revocations <= Revocations'
  BY <1>5, FS_Subset, FS_CardinalityType DEF Revocations
<1>7. hint' \in Pairs /\ hint'.boot = hint.boot /\ hint'.gen > hint.gen
  <2> DEFINE m == Cardinality(gone)
  <2>1. m \in Nat \ {0} /\ hint' = [hint EXCEPT !.gen = @ + m]
    BY <1>3, <1>4
  <2> HIDE DEF m
  <2> QED BY <2>1 DEF Pairs
<1> QED BY <1>6, <1>7

\* A pull that begins covers what is known; one that waits for its floor will.
LEMMA PullFollows ==
    ASSUME CredInv, NEW passed, NEW rest \in Fetched(Issued), rest["hint"] = Nothing,
           CountsInv, PullOrWait(passed, rest), UNCHANGED revoked,
           known' \in Nat, known' <= Revocations
    PROVE  CountsInv' /\ HintsFollowed'
<1>1. Revocations' = Revocations /\ Revocations \in Nat
  BY CountType DEF Revocations
<1>2. Asked # Nothing /\ None # "floor" /\ None # "flight"
  BY NoneAssumption DEF Asked, Nothing
<1>3. CASE passed
  <2>1. pulling' = "flight" /\ covered' = Revocations /\ fetch'["hint"] # Nothing
        /\ pullAgain' = FALSE
    BY <1>2, <1>3 DEF PullOrWait, Fetched, Fetches
  <2>2. /\ {known', covered'} \subseteq Nat /\ covered' <= Revocations'
        /\ known' <= Revocations' /\ known' <= covered'
    BY <1>1, <2>1
  <2>3. /\ pulling' = "flight" <=> fetch'["hint"] # Nothing
        /\ pulling' \in {None, "floor", "flight"}
    BY <2>1
  <2>4. pullAgain' \in BOOLEAN
    BY <2>1
  <2> QED BY <2>2, <2>3, <2>4 DEF CountsInv, HintsFollowed, Nothing
<1>4. CASE ~passed
  <2>1. pulling' = "floor" /\ fetch' = rest /\ UNCHANGED <<covered, pullAgain>>
    BY <1>4 DEF PullOrWait
  <2> QED BY <1>1, <1>2, <2>1 DEF CountsInv, HintsFollowed
<1> QED BY <1>3, <1>4

\* The triggered pull ends, and goes on if it was asked for again.
LEMMA FetchEndFollows ==
    ASSUME CredInv, HintInv, NEW k \in Fetches, fetch[k] # Nothing, FetchEnds(k),
           UNCHANGED <<revoked, known>>
    PROVE  CountsInv' /\ HintsFollowed'
<1> DEFINE rest == [fetch EXCEPT ![k] = Nothing]
<1>1. rest \in Fetched(Issued) /\ fetch \in Fetched(Issued)
  BY DEF CredInv, IssuedInv, Fetched
<1>2. CASE k = "hint" /\ PullEnds(rest)
  <2>1. pulling = "flight" /\ rest["hint"] = Nothing
    BY <1>1, <1>2 DEF HintInv, CountsInv, Fetched
  <2>2. CASE PullOrWait(floor, rest)
    BY <1>1, <2>1, <2>2, PullFollows DEF HintInv, CountsInv
  <2>3. CASE ~pullAgain /\ pulling' = None /\ fetch' = rest /\ UNCHANGED <<pullAgain, covered>>
    <3>1. known <= covered
      BY <2>1, <2>3 DEF HintInv, HintsFollowed
    <3>2. pulling' # "flight" /\ fetch'["hint"] = Nothing
      BY <2>1, <2>3, NoneAssumption
    <3> QED BY <2>3, <3>1, <3>2 DEF HintInv, CountsInv, HintsFollowed, Revocations
  <2> QED BY <1>2, <2>2, <2>3 DEF PullEnds
<1>3. CASE k = "timer" /\ fetch' = rest /\ UNCHANGED pullVars
  <2>1. fetch'["hint"] = fetch["hint"]
    BY <1>1, <1>3 DEF Fetched, Fetches
  <2> QED BY <1>3, <2>1 DEF HintInv, CountsInv, HintsFollowed, pullVars, Revocations
<1> QED BY <1>2, <1>3 DEF FetchEnds

\* The loop's steps.
LEMMA HintLoop ==
    ASSUME CredInv, HintInv, Loop
    PROVE  HintInv'
<1> USE DEF HintInv
<1>1. /\ UNCHANGED <<hint, revoked>> /\ Revocations' = Revocations
      /\ Revocations \in Nat
  BY CountType DEF Loop, HintArrives, HintSettles, HintFails, HintTaken, writerVars, Revocations
<1>2. /\ Answer \in [at : {"answered"}, pair : Pairs, knows : Nat]
      /\ Answer.pair = hint /\ Answer.knows = Revocations /\ NotAhead(hint, hint)
  BY <1>1 DEF Answer, PairsInv, NotAhead, Pairs
<1>3. CASE HintArrives \/ HintSettles \/ HintFails
  <2>1. asking' \in {Answer, [at |-> "held"], Asked} /\ UNCHANGED <<seen, known, pullVars, fetch>>
    BY <1>3 DEF HintArrives, HintSettles, HintFails
  <2>2. PairsInv'
    BY <1>1, <1>2, <2>1 DEF PairsInv, Asked
  <2>3. CountsInv' /\ HintsFollowed'
    BY <1>1, <2>1 DEF CountsInv, HintsFollowed, pullVars
  <2> QED BY <2>2, <2>3
<1>4. CASE HintTaken
  <2>1. /\ asking \in [at : {"answered"}, pair : Pairs, knows : Nat]
        /\ known' = asking.knows /\ asking' = Asked /\ asking.knows <= Revocations
        /\ known' \in Nat
    BY <1>4 DEF HintTaken, PairsInv, Asked
  <2>2. CASE seen' = asking.pair /\ TriggerPull
    <3>1. PairsInv'
      BY <1>1, <2>1, <2>2 DEF PairsInv, Asked
    <3>2. CASE pulling = None /\ PullOrWait(floor, fetch)
      <4>1. fetch \in Fetched(Issued) /\ fetch["hint"] = Nothing
        BY <3>2, NoneAssumption DEF CredInv, IssuedInv, CountsInv
      <4> QED BY <1>1, <2>1, <3>1, <3>2, <4>1, PullFollows
    <3>3. CASE pullAgain' = TRUE /\ UNCHANGED <<pulling, covered, fetch>>
      BY <1>1, <2>1, <3>1, <3>3 DEF CountsInv, HintsFollowed
    <3> QED BY <2>2, <3>2, <3>3 DEF TriggerPull
  <2>3. CASE ~Changed(asking.pair) /\ UNCHANGED <<seen, pullVars, fetch>>
    <3>1. known' = known
      BY <2>1, <2>3 DEF PairsInv, Changed
    <3> QED BY <1>1, <2>1, <2>3, <3>1
            DEF PairsInv, CountsInv, HintsFollowed, pullVars, Asked
  <2> QED BY <1>4, <2>2, <2>3 DEF HintTaken
<1> QED BY <1>3, <1>4 DEF Loop

\* A pair older than the writer's is not the writer's, and stays behind it.
LEMMA NotAheadStays ==
    ASSUME NEW p \in Pairs, NEW h \in Pairs, NEW g \in Pairs, NotAhead(p, h),
           g.boot > h.boot \/ (g.boot = h.boot /\ g.gen > h.gen)
    PROVE  NotAhead(p, g) /\ p # g
BY DEF NotAhead, Pairs

\* The writer's pair moves on.
LEMMA HintMoves ==
    ASSUME CredInv, HintInv, WriterRestarts \/ \E i \in Ids : Revoke(i)
    PROVE  HintInv'
<1> USE DEF HintInv
<1>1. /\ hint' \in Pairs /\ hint \in Pairs /\ Revocations \in Nat /\ Revocations' \in Nat
      /\ Revocations <= Revocations'
      /\ hint'.boot > hint.boot \/ (hint'.boot = hint.boot /\ hint'.gen > hint.gen)
  <2>1. CASE \E i \in Ids : Revoke(i)
    BY <2>1, CountType, RevokeCounts DEF PairsInv
  <2>2. CASE WriterRestarts
    BY <2>2, CountType DEF WriterRestarts, PairsInv, Pairs, Revocations
  <2> QED BY <2>1, <2>2
<1>2. UNCHANGED <<seen, known, pullVars, fetch>>
  BY DEF Revoke, WriterRestarts, loopVars
<1>3. \/ asking' = asking \/ asking' = Asked
      \/ /\ asking' \in [at : {"answered"}, pair : Pairs, knows : Nat]
         /\ asking'.pair = hint /\ asking'.knows = Revocations
  <2>1. CASE WriterRestarts
    BY <1>1, <2>1 DEF WriterRestarts, Answer
  <2>2. CASE \E i \in Ids : Revoke(i)
    BY <2>2 DEF Revoke, loopVars
  <2> QED BY <2>1, <2>2
<1>4. /\ NotAhead(hint, hint) /\ NotAhead(hint, hint') /\ hint # hint'
      /\ None # hint'
  BY <1>1, NotAheadStays, NoneAssumption DEF NotAhead, Pairs
<1>5. seen' # None => NotAhead(seen', hint') /\ seen' # hint'
  BY <1>1, <1>2, NotAheadStays DEF PairsInv
<1>6. PairsInv'
  <2>1. CASE asking' = asking
    <3>1. asking.at = "answered" => NotAhead(asking.pair, hint') /\ asking.pair # hint'
      BY <1>1, NotAheadStays DEF PairsInv, Asked
    <3> QED BY <1>1, <1>2, <1>4, <1>5, <2>1, <3>1 DEF PairsInv, Asked
  <2>2. CASE asking' = Asked
    BY <1>1, <1>2, <1>4, <1>5, <2>2 DEF PairsInv, Asked
  <2>3. CASE /\ asking' \in [at : {"answered"}, pair : Pairs, knows : Nat]
             /\ asking'.pair = hint /\ asking'.knows = Revocations
    BY <1>1, <1>2, <1>4, <1>5, <2>3 DEF PairsInv
  <2> QED BY <1>3, <2>1, <2>2, <2>3
<1>7. CountsInv' /\ HintsFollowed'
  BY <1>1, <1>2 DEF CountsInv, HintsFollowed, pullVars
<1> QED BY <1>6, <1>7

LEMMA HintInit == Init => CredInv /\ SweepsInv /\ HintInv
<1> SUFFICES ASSUME Init PROVE SweepsInv /\ HintInv
  BY CredInit
<1>1. Revocations = 0
  BY FS_EmptySet DEF Init, Revocations
<1>2. None \notin Pairs /\ None # "flight"
  BY NoneAssumption
<1>3. hint = [boot |-> 0, gen |-> 0] /\ seen = None /\ asking = Asked /\ known = 0
  BY DEF Init
<1>4. PairsInv
  BY <1>2, <1>3 DEF PairsInv, Pairs, Asked
<1>5. fetch["hint"] = Nothing
  BY DEF Init, NoFetch, Fetches
<1>6. CountsInv /\ HintsFollowed
  <2>1. known = 0 /\ covered = 0 /\ pulling = None /\ pullAgain = FALSE
    BY DEF Init
  <2>2. {known, covered} \subseteq Nat /\ known <= Revocations /\ covered <= Revocations
    BY <1>1, <2>1
  <2>3. pulling = "flight" <=> fetch["hint"] # Nothing
    BY <1>2, <1>5, <2>1
  <2>4. pulling \in {None, "floor", "flight"} /\ pullAgain \in BOOLEAN
    BY <2>1
  <2> QED BY <2>1, <2>2, <2>3, <2>4 DEF CountsInv, HintsFollowed
<1>7. SweepsInv
  BY DEF Init, SweepsInv, SweepsKept
<1> QED BY <1>4, <1>6, <1>7 DEF HintInv

\* The pulls' steps leave the writer's pair, the loop and the revocations alone.
LEMMA HintPull ==
    ASSUME CredInv, HintInv, NEW k \in Fetches, FloorPasses \/ TimedPull \/ Fetch(k)
    PROVE  HintInv'
<1> USE DEF HintInv
<1>1. UNCHANGED <<hint, revoked, asking, seen, known>> /\ Revocations' = Revocations
  BY DEF FloorPasses, TimedPull, Fetch, SnapshotTaken, PullFails, Import, writerVars, loopVars,
         Revocations
<1>2. PairsInv'
  BY <1>1 DEF PairsInv
<1>3. fetch \in Fetched(Issued) /\ known \in Nat /\ known <= Revocations
  BY DEF CredInv, IssuedInv, CountsInv
<1>4. Asked # Nothing /\ Taken # Nothing
  BY NoneAssumption DEF Asked, Taken, Nothing
<1>5. CASE FloorPasses
  <2>1. CASE pulling = "floor" /\ PullOrWait(TRUE, fetch)
    <3>1. fetch["hint"] = Nothing
      BY <2>1 DEF CountsInv
    <3> QED BY <1>1, <1>2, <1>3, <2>1, <3>1, PullFollows
  <2>2. CASE UNCHANGED <<pulling, pullAgain, covered, fetch>>
    BY <1>1, <1>2, <2>2 DEF CountsInv, HintsFollowed
  <2> QED BY <1>5, <2>1, <2>2 DEF FloorPasses
<1>6. CASE TimedPull
  <2>1. fetch'["hint"] = fetch["hint"] /\ UNCHANGED pullVars
    BY <1>3, <1>6 DEF TimedPull, Fetched, Fetches
  <2> QED BY <1>1, <1>2, <2>1 DEF CountsInv, HintsFollowed, pullVars
<1>7. CASE SnapshotTaken
  <2>1. fetch["hint"] # Nothing /\ fetch'["hint"] # Nothing /\ UNCHANGED pullVars
    BY <1>3, <1>4, <1>7 DEF SnapshotTaken, Fetched, Fetches
  <2> QED BY <1>1, <1>2, <2>1 DEF CountsInv, HintsFollowed, pullVars
<1>8. CASE PullFails(k)
  BY <1>1, <1>2, <1>8, FetchEndFollows DEF PullFails
<1>9. CASE Import(k)
  <2>1. fetch[k] # Nothing
    BY <1>9, NoneAssumption DEF Import, Nothing
  <2> QED BY <1>1, <1>2, <1>9, <2>1, FetchEndFollows DEF Import
<1> QED BY <1>5, <1>6, <1>7, <1>8, <1>9 DEF Fetch

LEMMA HintNext == CredInv /\ HintInv /\ [Next]_vars => HintInv'
<1> SUFFICES ASSUME CredInv, HintInv, [Next]_vars PROVE HintInv'
  OBVIOUS
<1>1. CASE WriterRestarts \/ \E i \in Ids : Revoke(i)
  BY <1>1, HintMoves
<1>2. CASE Loop
  BY <1>2, HintLoop
<1>3. CASE FloorPasses \/ TimedPull \/ \E k \in Fetches : Fetch(k)
  BY <1>3, HintPull DEF Fetches
<1>4. CASE UNCHANGED <<hint, revoked, loopVars, pullVars, fetch>>
  BY <1>4 DEF HintInv, PairsInv, CountsInv, HintsFollowed, loopVars, pullVars, Revocations
<1>5. \/ WriterRestarts \/ \E i \in Ids : Revoke(i)
      \/ Loop \/ FloorPasses \/ TimedPull \/ \E k \in Fetches : Fetch(k)
      \/ UNCHANGED <<hint, revoked, loopVars, pullVars, fetch>>
  BY DEF Next, vars, Pair, OutageBegins, OutageEnds, Check, CheckJudged, CheckAnswered,
         CheckFails, WatchdogLooks, AdmittedLocally, AsksWriter, WriterResolves,
         ReadThroughFails, ReadThroughLands, Leaves, writerVars
<1> QED BY <1>1, <1>2, <1>3, <1>4, <1>5

(* Neither a hint nor a sweep is lost, in whatever order hints, imports,     *)
(* pulls and rounds meet: what the writer had revoked before the pair the    *)
(* follower took last is in a pull that began since, or one will begin; and  *)
(* a sweep asked for during a round runs after it, a full one in full.       *)
THEOREM RequestsKept == Spec => []NoRequestLost
<1>1. CredInv /\ SweepsInv /\ HintInv /\ [Next]_vars => (CredInv /\ SweepsInv /\ HintInv)'
  BY CredNext, SweepsNext, HintNext
<1>2. SweepsInv /\ HintInv => NoRequestLost
  BY DEF SweepsInv, HintInv, NoRequestLost
<1> QED BY HintInit, <1>1, <1>2, PTL DEF Spec

-----------------------------------------------------------------------------
(* Type correctness: rounds, slices and the watchdog.                      *)

SliceOK == sweep # None => Cardinality(sweep.out) \in 1..Chunk
PendingOK == pending \in {None, "missing", "all"} /\ (pending # None => sweep # None)
AwaitsOK == awaits \in BOOLEAN /\ (awaits => sweep # None)
ModeInv == SliceOK /\ PendingOK /\ AwaitsOK
TimerInv == age \in 0..StaleChecks - 1 /\ floor \in BOOLEAN

\* A slice is not empty and within what one credentials_check takes.
LEMMA AsksSlice ==
    ASSUME NEW left \in SUBSET Ids, left # {}, NEW absent \in SUBSET Ids, Asking(left, absent)
    PROVE  sweep' # None /\ Cardinality(sweep'.out) \in 1..Chunk
<1>1. PICK out \in Slices(left) :
          sweep' = [out |-> out, left |-> left \ out, absent |-> absent, verdict |-> None]
  BY DEF Asking
<1>2. out \in SUBSET left /\ Cardinality(out) = Least(Chunk, Cardinality(left))
  BY DEF Slices
<1>3. Cardinality(left) \in Nat \ {0}
  BY IdsAssumption, FS_Subset, FS_CardinalityType, FS_EmptySet
<1>4. Cardinality(out) \in 1..Chunk
  BY <1>2, <1>3, LimitsAssumption DEF Least
<1>5. sweep' \in Rounds
  BY <1>1, <1>2 DEF Rounds
<1> QED BY <1>1, <1>4, <1>5, NoneAssumption

LEMMA StartsMode ==
    ASSUME IssuedInv, cursor \in Nat, NEW mode, NEW loc,
           NEW c \in [Sockets -> Issued \cup {NoId}], StartRound(mode, c, loc)
    PROVE  pending' = None /\ SliceOK'
<1>1. PICK r \in RoundsOf(mode, c, loc) :
          /\ pending' = None
          /\ IF r.asked = {} THEN sweep' = None ELSE Asking(r.asked, {})
  BY DEF StartRound
<1>2. r.asked \in SUBSET Ids
  BY RoundAsksIssued DEF IssuedInv
<1> QED BY <1>1, <1>2, AsksSlice DEF SliceOK

\* A sweep asked for starts, or waits for the round under way.
LEMMA RunsMode ==
    ASSUME CredInv, ModeInv, NEW mode, NEW loc, RunSweep(mode, loc)
    PROVE  SliceOK' /\ PendingOK' /\ (sweep # None => sweep' # None)
<1>1. CASE sweep = None /\ StartRound(mode, conn, loc)
  <2>1. pending' = None /\ SliceOK'
    BY <1>1, StartsMode DEF CredInv, IssuedInv, SweepInv
  <2> QED BY <1>1, <2>1 DEF PendingOK
<1>2. CASE sweep # None /\ pending' = Wider(mode) /\ UNCHANGED sweep
  BY <1>2 DEF Wider, ModeInv, SliceOK, PendingOK
<1> QED BY <1>1, <1>2 DEF RunSweep

LEMMA EndsMode ==
    ASSUME CredInv, ModeInv, NEW confirmed, EndRound(confirmed)
    PROVE  ModeInv'
<1>1. conn' \in [Sockets -> Issued \cup {NoId}]
  BY DEF EndRound, CredInv, IssuedInv
<1>2. SliceOK' /\ PendingOK'
  <2>1. CASE StartRound(pending, conn', local)
    <3>1. pending' = None /\ SliceOK'
      BY <1>1, <2>1, StartsMode DEF CredInv, SweepInv
    <3> QED BY <3>1 DEF PendingOK
  <2>2. CASE pending = None /\ sweep' = None /\ UNCHANGED pending
    BY <2>2 DEF SliceOK, PendingOK
  <2> QED BY <2>1, <2>2 DEF EndRound
<1>3. AwaitsOK'
  <2>1. awaits' = (awaits /\ sweep' # None)
    BY DEF EndRound
  <2> QED BY <2>1, Zenon DEF AwaitsOK
<1> QED BY <1>2, <1>3 DEF ModeInv

LEMMA ModeNext == CredInv /\ ModeInv /\ [Next]_vars => ModeInv'
<1> SUFFICES ASSUME CredInv, ModeInv, [Next]_vars PROVE ModeInv'
  OBVIOUS
<1>0. sweep # None => sweep \in Round(Issued, revoked)
  BY DEF CredInv, SweepInv
<1>1. CASE CheckJudged
  <2>1. /\ sweep # None /\ sweep' = [sweep EXCEPT !.verdict = sweep.out \ rows]
        /\ UNCHANGED <<pending, awaits>>
    BY <1>1 DEF CheckJudged
  <2>2. sweep \in Rounds
    BY <1>0, <2>1 DEF CredInv, IssuedInv, Issued, Round, Rounds
  <2>3. sweep' \in Rounds /\ sweep'.out = sweep.out
    BY <2>1, <2>2 DEF Rounds
  <2>4. sweep' # None
    BY <2>3, NoneAssumption
  <2> QED BY <2>1, <2>3, <2>4 DEF ModeInv, SliceOK, PendingOK, AwaitsOK
<1>2. CASE CheckAnswered
  <2> DEFINE absent == sweep.absent \cup sweep.verdict
  <2>1. CASE /\ sweep.left # {} /\ Asking(sweep.left, absent)
             /\ UNCHANGED <<pending, awaits>>
    <3>1. sweep.left \in SUBSET Ids /\ absent \in SUBSET Ids
      BY <1>0, <1>2 DEF CheckAnswered, CredInv, IssuedInv, Issued, Round
    <3>2. sweep' # None /\ Cardinality(sweep'.out) \in 1..Chunk
      BY <2>1, <3>1, AsksSlice
    <3> QED BY <2>1, <3>2 DEF ModeInv, SliceOK, PendingOK, AwaitsOK
  <2>2. CASE EndRound(absent)
    BY <2>2, EndsMode
  <2> QED BY <1>2, <2>1, <2>2 DEF CheckAnswered
<1>3. CASE CheckFails
  BY <1>3, EndsMode DEF CheckFails
<1>4. CASE WatchdogLooks
  <2>1. CASE RunSweep("all", local) /\ awaits' = (sweep' # None)
    <3>1. AwaitsOK'
      BY <2>1, Zenon DEF AwaitsOK
    <3> QED BY <2>1, <3>1, RunsMode DEF ModeInv
  <2>2. CASE UNCHANGED sweepVars
    BY <2>2 DEF sweepVars, ModeInv, SliceOK, PendingOK, AwaitsOK
  <2> QED BY <1>4, <2>1, <2>2 DEF WatchdogLooks
<1>5. CASE \E k \in Fetches : Import(k)
  <2>1. PICK k \in Fetches : RunSweep("missing", fetch[k].rows) /\ UNCHANGED awaits
    BY <1>5 DEF Import
  <2> QED BY <2>1, RunsMode DEF ModeInv, AwaitsOK
<1>6. CASE UNCHANGED <<sweep, pending, awaits>>
  BY <1>6 DEF ModeInv, SliceOK, PendingOK, AwaitsOK
<1>7. \/ CheckJudged \/ CheckAnswered \/ CheckFails \/ WatchdogLooks
      \/ \E k \in Fetches : Import(k)
      \/ UNCHANGED <<sweep, pending, awaits>>
  BY DEF Next, vars, sweepVars, Pair, Revoke, WriterRestarts, OutageBegins, OutageEnds, Loop,
         HintArrives, HintSettles, HintFails, HintTaken, FloorPasses, Check, TimedPull, Fetch,
         SnapshotTaken, PullFails, AdmittedLocally, AsksWriter, WriterResolves,
         ReadThroughFails, ReadThroughLands, Leaves
<1> QED BY <1>1, <1>2, <1>3, <1>4, <1>5, <1>6, <1>7

LEMMA TimerNext == TimerInv /\ [Next]_vars => TimerInv'
<1> SUFFICES ASSUME TimerInv, [Next]_vars PROVE TimerInv'
  OBVIOUS
<1>1. age' \in 0..StaleChecks - 1
  <2>1. StaleChecks \in Nat \ {0}
    BY LimitsAssumption
  <2>2. \/ age' = age
        \/ age' = 0
        \/ age + 1 < StaleChecks /\ age' = age + 1
    BY DEF Next, vars, Pair, Revoke, WriterRestarts, OutageBegins, OutageEnds, Loop,
         HintArrives, HintSettles, HintFails, HintTaken, FloorPasses, Check, CheckJudged,
         CheckAnswered, CheckFails, WatchdogLooks, TimedPull, Fetch, SnapshotTaken,
         PullFails, Import, AdmittedLocally, AsksWriter, WriterResolves, ReadThroughFails,
         ReadThroughLands, Leaves
  <2> QED BY <2>1, <2>2 DEF TimerInv
<1>2. floor' \in BOOLEAN
  <2>1. floor' = floor \/ floor' = FALSE \/ floor' = TRUE
    BY DEF Next, vars, pullVars, Pair, Revoke, WriterRestarts, OutageBegins, OutageEnds, Loop,
         HintArrives, HintSettles, HintFails, HintTaken, FloorPasses, Check, CheckJudged,
         CheckAnswered, CheckFails, WatchdogLooks, TimedPull, Fetch, SnapshotTaken,
         PullFails, Import, AdmittedLocally, AsksWriter, WriterResolves, ReadThroughFails,
         ReadThroughLands, Leaves, TriggerPull, FetchEnds, PullEnds, PullOrWait
  <2> QED BY <2>1 DEF TimerInv
<1> QED BY <1>1, <1>2 DEF TimerInv

(* Every part of the follower stays in one of its states: no slice is empty  *)
(* or exceeds what one credentials_check takes, a sweep waits only for a     *)
(* round under way, and a triggered pull is in flight exactly while its      *)
(* snapshot is.                                                              *)
THEOREM TypeCorrect == Spec => []TypeOK
<1> DEFINE TInv == CredInv /\ HintInv /\ ModeInv /\ TimerInv
<1>1. Init => TInv
  <2>1. Init => SliceOK /\ PendingOK /\ AwaitsOK
    BY DEF Init, SliceOK, PendingOK, AwaitsOK
  <2>2. Init => TimerInv
    <3>1. StaleChecks \in Nat \ {0}
      BY LimitsAssumption
    <3>2. Init => age = 0 /\ floor = TRUE
      BY DEF Init
    <3> QED BY <3>1, <3>2 DEF TimerInv
  <2> QED BY <2>1, <2>2, HintInit DEF ModeInv
<1>2. TInv /\ [Next]_vars => TInv'
  BY CredNext, HintNext, ModeNext, TimerNext
<1>3. TInv => TypeOK
  <2> SUFFICES ASSUME CredInv, HintInv, ModeInv, TimerInv PROVE TypeOK
    OBVIOUS
  <2>1. /\ rows \cap revoked = {} /\ rows \cup revoked \subseteq Ids
        /\ local \subseteq rows \cup revoked
        /\ \A s \in Sockets : conn[s] \in rows \cup revoked \cup {NoId}
    BY DEF CredInv, IssuedInv, Issued
  <2>2. sweep \in {None} \cup Rounds
    BY <2>1 DEF CredInv, SweepInv, Round, Rounds, Issued
  <2>3. hint \in Pairs /\ seen \in {None} \cup Pairs /\ asking.at \in {"asked", "held", "answered"}
    BY DEF HintInv, PairsInv, Asked
  <2>4. pulling \in {None, "floor", "flight"} /\ (pulling = "flight" <=> fetch["hint"] # Nothing)
    BY DEF HintInv, CountsInv
  <2>5. {pullAgain, floor, awaits} \subseteq BOOLEAN
    <3>1. pullAgain \in BOOLEAN /\ floor \in BOOLEAN /\ awaits \in BOOLEAN
      BY DEF HintInv, CountsInv, TimerInv, ModeInv, AwaitsOK
    <3> QED BY <3>1, Zenon
  <2>6. /\ pending \in {None, "missing", "all"} /\ (pending # None => sweep # None)
        /\ awaits => sweep # None
        /\ sweep # None => Cardinality(sweep.out) \in 1..Chunk
        /\ age \in 0..StaleChecks - 1
    BY DEF ModeInv, SliceOK, PendingOK, AwaitsOK, TimerInv
  <2> QED BY <2>1, <2>2, <2>3, <2>4, <2>5, <2>6 DEF TypeOK
<1> HIDE DEF TInv
<1> QED BY <1>1, <1>2, <1>3, PTL DEF Spec
=============================================================================
