------------------------- MODULE RevocationFollower -------------------------
(***************************************************************************)
(* How a credential revoked at the writer closes the sockets a replica     *)
(* admitted with it: the writer's hint (node/revocation-hint.ts), the      *)
(* replica's follower (node/revocation-follower.ts), the pulls that bring  *)
(* the writer's rows (node/replica-puller.ts) and the read-through that    *)
(* lands rows ahead of them (node/token-read-through.ts). Paths are under  *)
(* apps/server-core/src.                                                   *)
(*                                                                         *)
(* A credential is the row of a computer or of a pairing. Its id is never  *)
(* used twice and no statement changes its owner, so that the pair the     *)
(* code compares is the id here. Removing a computer removes its pairings. *)
(*                                                                         *)
(* What runs in one turn of Node's event loop is one action: an import and *)
(* the first pass of the sweep it starts, a verdict and the second pass.   *)
(***************************************************************************)
EXTENDS Integers, FiniteSets

CONSTANTS
    Ids,            \* credentials, in the order of the follower's keys
    ParentOf,       \* the computer a pairing hangs off
    NoId,           \* what a computer hangs off, and what an idle socket holds
    None,           \* nothing: no hint yet, no round, no snapshot, no verdict
    Sockets,        \* connections of the replica
    Chunk,          \* SWEEP_CHECK_CHUNK
    FullVerifyMax,  \* FULL_VERIFY_MAX_ENTRIES
    StaleChecks,    \* STALE_IMPORT_CEILING_MS in rounds of the watchdog
    TimedPulls,     \* the puller's own timer runs
    MaxAdmissions,  \* bound: sockets admitted
    MaxOutages,     \* bound: times the writer cannot be reached
    MaxBoots        \* bound: restarts of the writer

ASSUME IdsAssumption == Ids \subseteq Nat /\ IsFiniteSet(Ids) /\ NoId \notin Ids
ASSUME ParentAssumption == ParentOf \in [Ids -> Ids \cup {NoId}]
(* A boot of the writer and its generation; a round with the slice that is at *)
(* the writer, what is left, what was found absent, and the verdict on it.    *)
Pairs == [boot : Nat, gen : Nat]
Rounds == [out : SUBSET Ids, left : SUBSET Ids, absent : SUBSET Ids,
           verdict : {None} \cup SUBSET Ids]

ASSUME NoneAssumption ==
    /\ None \notin {"asked", "held", "answered", "taken", "floor", "flight", "missing", "all"}
    /\ None \notin Pairs /\ None \notin Rounds
ASSUME LimitsAssumption ==
    /\ {Chunk, FullVerifyMax, StaleChecks} \subseteq Nat \ {0}
    /\ {MaxAdmissions, MaxOutages, MaxBoots} \subseteq Nat
    /\ TimedPulls \in BOOLEAN

VARIABLES
    \* the writer
    rows,      \* the credentials it holds
    revoked,   \* those it no longer holds
    hint,      \* (boot, gen) of this life
    reach,     \* whether the replica reaches it, and how often it did not
    \* the hint loop
    asking,    \* the long-poll
    seen,      \* the last pair it took
    \* the pulls
    pulling,   \* the triggered pull: idle, at its floor, or in flight
    pullAgain,
    floor,     \* HINT_PULL_MIN_INTERVAL_MS has passed since the last one began
    fetch,     \* the snapshots under way, of the trigger and of the timer
    local,     \* the credentials the replica's database holds
    \* the sweep
    sweep,     \* the round under way
    pending,   \* pendingMode
    cursor,    \* fullCursor
    age,       \* rounds of the watchdog since the last import
    awaits,    \* the watchdog awaits the sweep it asked for
    \* the sockets
    conn,      \* the credential each was admitted with
    asks,      \* the read-through each waits for
    \* history and bounds
    known,     \* revocations before the last hint the follower took
    covered,   \* revocations before the last triggered pull began
    owed,      \* sweeps asked for and not begun
    evicted,   \* credentials whose sockets were closed as revoked
    admitted

writerVars == <<rows, revoked, hint, reach>>
loopVars == <<asking, seen, known>>
pullVars == <<pulling, pullAgain, floor, covered>>
sweepVars == <<sweep, pending, cursor, awaits, owed, evicted>>
socketVars == <<conn, asks, admitted>>
vars == <<writerVars, loopVars, pullVars, fetch, local, age, sweepVars, socketVars>>

Nothing == [at |-> None]
Asked == [at |-> "asked"]
Fetches == {"hint", "timer"}
Least(a, b) == IF a < b THEN a ELSE b
Revocations == Cardinality(revoked)

-----------------------------------------------------------------------------
(* The writer                                                                *)

Up == reach.up
Answer == [at |-> "answered", pair |-> hint, knows |-> Revocations]

(* A new row bumps nothing. *)
Pair(i) ==
    /\ i \notin rows \cup revoked
    /\ ParentOf[i] \in rows \cup {NoId}
    /\ rows' = rows \cup {i}
    /\ UNCHANGED <<revoked, hint, reach, loopVars, pullVars, fetch, local, age, sweepVars,
                   socketVars>>

(* Each row a delete or its cascade takes fires the trigger, in the transaction. *)
Revoke(i) ==
    LET gone == {j \in rows : j = i \/ ParentOf[j] = i} IN
    /\ i \in rows
    /\ rows' = rows \ gone
    /\ revoked' = revoked \cup gone
    /\ hint' = [hint EXCEPT !.gen = @ + Cardinality(gone)]
    /\ UNCHANGED <<reach, loopVars, pullVars, fetch, local, age, sweepVars, socketVars>>

(* stop() answers who waits with the life that ends; a death answers nobody.  *)
WriterRestarts ==
    /\ hint.boot < MaxBoots
    /\ hint' = [boot |-> hint.boot + 1, gen |-> 0]
    /\ \/ UNCHANGED asking
       \/ asking.at = "held" /\ asking' = Answer
       \/ asking' = Asked
    /\ UNCHANGED <<rows, revoked, reach, seen, known, pullVars, fetch, local, age, sweepVars, socketVars>>

OutageBegins ==
    /\ Up /\ reach.outages < MaxOutages
    /\ reach' = [up |-> FALSE, outages |-> reach.outages + 1]
    /\ UNCHANGED <<rows, revoked, hint, loopVars, pullVars, fetch, local, age, sweepVars,
                   socketVars>>

OutageEnds ==
    /\ ~Up
    /\ reach' = [reach EXCEPT !.up = TRUE]
    /\ UNCHANGED <<rows, revoked, hint, loopVars, pullVars, fetch, local, age, sweepVars,
                   socketVars>>

-----------------------------------------------------------------------------
(* The triggered pull                                                        *)

(* The head of the loop: wait for the floor, or clear pullAgain and ask. The *)
(* pull covers every revocation before that.                                 *)
PullOrWait(passed, rest) ==
    IF passed
    THEN /\ pulling' = "flight"
         /\ pullAgain' = FALSE
         /\ floor' = FALSE
         /\ covered' = Revocations
         /\ fetch' = [rest EXCEPT !["hint"] = Asked]
    ELSE /\ pulling' = "floor"
         /\ fetch' = rest
         /\ UNCHANGED <<pullAgain, floor, covered>>

\* Mutant: a hint that meets a pull joins it.
TriggerPullJoins ==
    \/ /\ pulling = None
       /\ PullOrWait(floor, fetch)
    \/ /\ pulling # None
       /\ UNCHANGED pullVars /\ UNCHANGED fetch

TriggerPull ==
    \/ /\ pulling = None
       /\ PullOrWait(floor, fetch)
    \/ /\ pulling # None
       /\ pullAgain' = TRUE
       /\ UNCHANGED <<pulling, floor, covered, fetch>>

(* The await of deps.pull() is over, whatever came of it. *)
PullEnds(rest) ==
    \/ pullAgain /\ PullOrWait(floor, rest)
    \/ /\ ~pullAgain
       /\ pulling' = None
       /\ fetch' = rest
       /\ UNCHANGED <<pullAgain, floor, covered>>

FloorPasses ==
    /\ ~floor
    /\ \/ pulling = "floor" /\ PullOrWait(TRUE, fetch)
       \/ /\ pulling # "floor"
          /\ floor' = TRUE
          /\ UNCHANGED <<pulling, pullAgain, covered, fetch>>
    /\ UNCHANGED <<writerVars, loopVars, local, age, sweepVars, socketVars>>

-----------------------------------------------------------------------------
(* The hint loop. A request under way may not have left yet: the backoff     *)
(* after a failure, and the wait after an answer that came too soon, are     *)
(* part of that.                                                             *)

(* waitForChange: answered at once, or held. *)
Differs == seen # hint
HintArrives ==
    /\ asking.at = "asked" /\ Up
    /\ asking' = IF Differs THEN Answer ELSE [at |-> "held"]
    /\ UNCHANGED <<writerVars, seen, known, pullVars, fetch, local, age, sweepVars, socketVars>>

(* The writer's poll finds another gen, or the wait is over. *)
HintSettles ==
    /\ asking.at = "held"
    /\ asking' = Answer
    /\ UNCHANGED <<writerVars, seen, known, pullVars, fetch, local, age, sweepVars, socketVars>>

HintFails ==
    /\ asking # Asked /\ ~Up
    /\ asking' = Asked
    /\ UNCHANGED <<writerVars, seen, known, pullVars, fetch, local, age, sweepVars, socketVars>>

\* Mutant: the boot id is not compared.
ChangedGen(pair) == IF seen = None THEN TRUE ELSE seen.gen # pair.gen
Changed(pair) == seen # pair
HintTaken ==
    /\ asking.at = "answered"
    /\ known' = asking.knows
    /\ asking' = Asked
    /\ \/ /\ Changed(asking.pair)
          /\ seen' = asking.pair
          /\ TriggerPull
       \/ /\ ~Changed(asking.pair)
          /\ UNCHANGED <<seen, pullVars, fetch>>
    /\ UNCHANGED <<writerVars, local, age, sweepVars, socketVars>>

-----------------------------------------------------------------------------
(* The sweep                                                                 *)

Nth(S, k) == CHOOSE i \in S : Cardinality({j \in S : j < i}) = k

(* What a round asks about, and where its successor resumes. *)
\* Mutant: the watchdog's round asks about the missing rows only.
RoundsMissing(mode, c, loc) ==
    {[asked |-> {c[s] : s \in Sockets} \ ({NoId} \cup loc), next |-> cursor]}

RoundsOf(mode, c, loc) ==
    LET live == {c[s] : s \in Sockets} \ {NoId}
        missing == live \ loc
        held == live \cap loc
        n == Cardinality(held)
        start == cursor % n
    IN  IF mode = "missing"
        THEN {[asked |-> missing, next |-> cursor]}
        ELSE {LET take == Least(FullVerifyMax - Cardinality(first), n)
              IN  IF take = 0 THEN [asked |-> first, next |-> cursor]
                  ELSE [asked |-> first \cup {Nth(held, (start + k) % n) : k \in 0..take - 1},
                        next |-> (start + take) % n]
              : first \in {f \in SUBSET missing :
                             Cardinality(f) = Least(FullVerifyMax, Cardinality(missing))}}

(* The next slice of those left goes to the writer. *)
\* Mutant: all in one call.
SlicesWhole(left) == {left}

Slices(left) == {x \in SUBSET left : Cardinality(x) = Least(Chunk, Cardinality(left))}

Asking(left, absent) ==
    \E out \in Slices(left) :
        sweep' = [out |-> out, left |-> left \ out, absent |-> absent, verdict |-> None]

StartRound(mode, c, loc) ==
    \E r \in RoundsOf(mode, c, loc) :
        /\ cursor' = r.next
        /\ pending' = None
        /\ owed' = IF mode = "all" THEN {} ELSE owed \ {"missing"}
        /\ IF r.asked = {} THEN sweep' = None ELSE Asking(r.asked, {})

(* runSweep: one at a time, and the wider of the modes asked for meanwhile. *)
\* Mutant: the last mode asked for replaces the one before.
WiderLast(mode) == mode

Wider(mode) == IF "all" \in {pending, mode} THEN "all" ELSE "missing"

RunSweep(mode, loc) ==
    \/ sweep = None /\ StartRound(mode, conn, loc)
    \/ /\ sweep # None
       /\ pending' = Wider(mode)
       /\ owed' = owed \cup {mode}
       /\ UNCHANGED <<sweep, cursor>>

(* The second pass closes the sockets whose credential, as it is now, the    *)
(* writer said it does not hold; then the round asked for meanwhile.         *)
Closed(confirmed) == {s \in Sockets : conn[s] \in confirmed}

EndRound(confirmed) ==
    /\ conn' = [s \in Sockets |-> IF s \in Closed(confirmed) THEN NoId ELSE conn[s]]
    /\ evicted' = evicted \cup {conn[s] : s \in Closed(confirmed)}
    /\ \/ /\ pending # None
          /\ StartRound(pending, conn', local)
       \/ /\ pending = None
          /\ sweep' = None
          /\ UNCHANGED <<pending, cursor, owed>>
    /\ awaits' = (awaits /\ sweep' # None)

(* credentialsCheckOnWriter. *)
CheckJudged ==
    /\ sweep # None /\ sweep.verdict = None /\ Up
    /\ sweep' = [sweep EXCEPT !.verdict = sweep.out \ rows]
    /\ UNCHANGED <<writerVars, loopVars, pullVars, fetch, local, age, pending, cursor, awaits,
                   owed, evicted, socketVars>>

CheckAnswered ==
    /\ sweep # None /\ sweep.verdict # None
    /\ LET absent == sweep.absent \cup sweep.verdict IN
       \/ /\ sweep.left # {}
          /\ Asking(sweep.left, absent)
          /\ UNCHANGED <<pending, cursor, awaits, owed, evicted, conn>>
       \/ sweep.left = {} /\ EndRound(absent)
    /\ UNCHANGED <<writerVars, loopVars, pullVars, fetch, local, age, asks, admitted>>

(* No answer: the rest of the round is not asked. *)
\* Mutant: a credential nothing was learned about counts as absent.
CheckFailsAbsent ==
    /\ sweep # None /\ ~Up
    /\ EndRound(sweep.absent \cup sweep.out)
    /\ UNCHANGED <<writerVars, loopVars, pullVars, fetch, local, age, asks, admitted>>

CheckFails ==
    /\ sweep # None /\ ~Up
    /\ EndRound(sweep.absent)
    /\ UNCHANGED <<writerVars, loopVars, pullVars, fetch, local, age, asks, admitted>>

(* A round of the watchdog; it awaits the full sweep it asks for. *)
WatchdogLooks ==
    /\ ~awaits
    /\ \/ /\ age + 1 < StaleChecks
          /\ age' = age + 1
          /\ UNCHANGED sweepVars
       \/ /\ age + 1 >= StaleChecks
          /\ RunSweep("all", local)
          /\ awaits' = (sweep' # None)
          /\ UNCHANGED <<age, evicted>>
    /\ UNCHANGED <<writerVars, loopVars, pullVars, fetch, local, socketVars>>

-----------------------------------------------------------------------------
(* Pulls                                                                     *)

(* VACUUM INTO, some time after the request. *)
Taken == [at |-> "taken", rows |-> rows]
SnapshotTaken ==
    /\ fetch["hint"] = Asked /\ Up
    /\ fetch' = [fetch EXCEPT !["hint"] = Taken]
    /\ UNCHANGED <<writerVars, loopVars, pullVars, local, age, sweepVars, socketVars>>

(* The puller's timer: until its snapshot is taken, nothing depends on it. *)
TimedPull ==
    /\ TimedPulls
    /\ fetch["timer"] = Nothing /\ Up
    /\ fetch' = [fetch EXCEPT !["timer"] = Taken]
    /\ UNCHANGED <<writerVars, loopVars, pullVars, local, age, sweepVars, socketVars>>

FetchEnds(k) ==
    LET rest == [fetch EXCEPT ![k] = Nothing] IN
    \/ k = "hint" /\ PullEnds(rest)
    \/ k = "timer" /\ fetch' = rest /\ UNCHANGED pullVars

(* The writer is away, the route is broken, or the import refuses the shape. *)
PullFails(k) ==
    /\ fetch[k] # Nothing
    /\ FetchEnds(k)
    /\ UNCHANGED <<writerVars, loopVars, local, age, sweepVars, socketVars>>

Import(k) ==
    /\ fetch[k].at = "taken"
    /\ local' = fetch[k].rows
    /\ age' = 0
    /\ RunSweep("missing", fetch[k].rows)
    /\ FetchEnds(k)
    /\ UNCHANGED <<writerVars, loopVars, awaits, evicted, socketVars>>

-----------------------------------------------------------------------------
(* Sockets                                                                   *)

(* A handshake, or a mobile:reconnect on a live socket, the local rows admit. *)
AdmittedLocally(s, i) ==
    /\ admitted < MaxAdmissions /\ asks[s] = Nothing
    /\ i \in local /\ conn[s] # i
    /\ conn' = [conn EXCEPT ![s] = i]
    /\ admitted' = admitted + 1
    /\ UNCHANGED <<writerVars, loopVars, pullVars, fetch, local, age, sweepVars, asks>>

AsksWriter(s, i) ==
    /\ admitted < MaxAdmissions /\ asks[s] = Nothing
    /\ i \in (rows \cup revoked) \ local
    /\ asks' = [asks EXCEPT ![s] = [at |-> "asked", id |-> i]]
    /\ admitted' = admitted + 1
    /\ UNCHANGED <<writerVars, loopVars, pullVars, fetch, local, age, sweepVars, conn>>

WriterResolves(s) ==
    /\ asks[s].at = "asked" /\ Up
    /\ asks' = [asks EXCEPT ![s] = IF @.id \in rows THEN [@ EXCEPT !.at = "held"] ELSE Nothing]
    /\ UNCHANGED <<writerVars, loopVars, pullVars, fetch, local, age, sweepVars, conn, admitted>>

ReadThroughFails(s) ==
    /\ asks[s] # Nothing
    /\ asks' = [asks EXCEPT ![s] = Nothing]
    /\ UNCHANGED <<writerVars, loopVars, pullVars, fetch, local, age, sweepVars, conn, admitted>>

(* The rows land, a pairing's computer with it, and admit the socket. *)
ReadThroughLands(s) ==
    /\ asks[s].at = "held"
    /\ LET i == asks[s].id IN
       /\ local' = local \cup ({i, ParentOf[i]} \ {NoId})
       /\ conn' = [conn EXCEPT ![s] = i]
    /\ asks' = [asks EXCEPT ![s] = Nothing]
    /\ UNCHANGED <<writerVars, loopVars, pullVars, fetch, age, sweepVars, admitted>>

Leaves(s) ==
    /\ conn[s] # NoId
    /\ conn' = [conn EXCEPT ![s] = NoId]
    /\ UNCHANGED <<writerVars, loopVars, pullVars, fetch, local, age, sweepVars, asks, admitted>>

NoFetch == [k \in Fetches |-> Nothing]
NoSockets == [s \in Sockets |-> NoId]
NoAsks == [s \in Sockets |-> Nothing]

-----------------------------------------------------------------------------
Init ==
    /\ rows \in {R \in SUBSET Ids : \A i \in R : ParentOf[i] \in R \cup {NoId}}
    /\ revoked = {}
    /\ hint = [boot |-> 0, gen |-> 0]
    /\ reach = [up |-> TRUE, outages |-> 0]
    /\ asking = Asked /\ seen = None /\ known = 0
    /\ pulling = None /\ pullAgain = FALSE /\ floor = TRUE
    /\ fetch = NoFetch
    /\ local = rows
    /\ sweep = None /\ pending = None /\ cursor = 0 /\ age = 0 /\ awaits = FALSE /\ owed = {}
    /\ conn = NoSockets /\ asks = NoAsks
    /\ covered = 0 /\ evicted = {} /\ admitted = 0

Loop == HintArrives \/ HintSettles \/ HintFails \/ HintTaken
Check == CheckJudged \/ CheckAnswered \/ CheckFails
Fetch(k) == (k = "hint" /\ SnapshotTaken) \/ PullFails(k) \/ Import(k)

Next ==
    \/ \E i \in Ids : Pair(i) \/ Revoke(i)
    \/ WriterRestarts \/ OutageBegins \/ OutageEnds
    \/ Loop \/ FloorPasses \/ Check \/ WatchdogLooks \/ TimedPull
    \/ \E k \in Fetches : Fetch(k)
    \/ \E s \in Sockets :
          \/ \E i \in Ids : AdmittedLocally(s, i) \/ AsksWriter(s, i)
          \/ WriterResolves(s) \/ ReadThroughFails(s) \/ ReadThroughLands(s) \/ Leaves(s)

(* Every request is answered or times out, timers fire, and an outage ends.  *)
Fairness ==
    /\ WF_vars(OutageEnds) /\ WF_vars(Loop) /\ WF_vars(FloorPasses)
    /\ WF_vars(Check) /\ WF_vars(WatchdogLooks) /\ WF_vars(TimedPull)
    /\ \A k \in Fetches : WF_vars(Fetch(k))

Spec == Init /\ [][Next]_vars
LiveSpec == Spec /\ Fairness

-----------------------------------------------------------------------------
(* Properties                                                                *)

(* Each part of the follower is in one of its states; in particular a slice  *)
(* is not empty and never exceeds what one credentials_check takes, and a    *)
(* sweep waits only while a round is under way.                              *)
TypeOK ==
    /\ rows \cap revoked = {} /\ rows \cup revoked \subseteq Ids
    /\ local \subseteq rows \cup revoked
    /\ hint \in Pairs /\ seen \in {None} \cup Pairs /\ sweep \in {None} \cup Rounds
    /\ asking.at \in {"asked", "held", "answered"}
    /\ pulling \in {None, "floor", "flight"} /\ {pullAgain, floor, awaits} \subseteq BOOLEAN
    /\ pulling = "flight" <=> fetch["hint"] # Nothing
    /\ pending \in {None, "missing", "all"} /\ (pending # None => sweep # None)
    /\ awaits => sweep # None
    /\ sweep # None => Cardinality(sweep.out) \in 1..Chunk
    /\ age \in 0..StaleChecks - 1
    /\ \A s \in Sockets : conn[s] \in rows \cup revoked \cup {NoId}

(* The follower closes a socket only when the writer really no longer holds  *)
(* the credential it carries, however stale the rows here and whatever the   *)
(* socket became while the writer was asked (revocation-follower.ts, "a      *)
(* candidate, never a verdict").                                             *)
ClosesOnlyRevoked == evicted \cap rows = {}

(* What the follower has been told of is in a triggered pull that began      *)
(* after it, or one is still to begin ("coalesce into ONE pull at its edge,  *)
(* which starts after all of them").                                         *)
HintsFollowed == known <= covered \/ pulling = "floor" \/ pullAgain

(* A sweep asked for during a round is run after it, and a full one stays    *)
(* full.                                                                     *)
SweepsKept ==
    /\ owed # {} => sweep # None /\ pending # None
    /\ "all" \in owed => pending = "all"

(* Neither a hint nor a sweep is lost, in whatever order hints, imports,     *)
(* pulls and rounds meet (revocation-follower.ts triggerPull, runSweep).     *)
NoRequestLost == HintsFollowed /\ SweepsKept

(* Once the writer stays within reach, a socket whose credential it revoked  *)
(* does not stay open, whether imports succeed or fail for ever.             *)
RevokedIsClosed ==
    \A s \in Sockets : conn[s] \in revoked ~> conn[s] \notin revoked

(* A revocation is followed by a triggered pull that begins after it, with   *)
(* no help from the timed one.                                               *)
HintHeard == <>[](covered = Revocations)

==============================================================================
