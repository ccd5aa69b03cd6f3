----------------------------- MODULE UsageLedger -----------------------------
(***************************************************************************)
(* What one recording of one account is charged for: the claims of         *)
(* operations (db/repos/usage-effects.repo.ts), the audio already paid for *)
(* (db/repos/recording-coverage.repo.ts), the registry that binds an       *)
(* operation to what it carries (db/repos/recovery-operations.repo.ts) and *)
(* the meter above them (billing/usage-tracker.ts recordSttUsage). Paths   *)
(* are under apps/server-core/src.                                         *)
(*                                                                         *)
(* A session is a live press, or a recovery of an operation, that carries  *)
(* the audio [lo, hi) of the recording. It runs at the writer, which       *)
(* meters it itself, or at a replica, which owes the writer the metering   *)
(* call: ForwardOutbox shows such a call is performed once, some time      *)
(* later, which is all that is kept of it here.                            *)
(*                                                                         *)
(* Audio and money are both counted in samples: a sample of money is       *)
(* 1/SamplesPerMs of a millisecond, the fraction the code's numbers carry, *)
(* and each Math.round of the code is a rounding to whole milliseconds.    *)
(***************************************************************************)
EXTENDS Integers, FiniteSets, FiniteSetsExt

CONSTANTS
    Ops,            \* operation ids
    NoOp,           \* a live press names none
    NoRow,          \* what a table answers where it has none
    Ranges,         \* the stretches of the recording a frame may name
    Kinds,          \* attempt kinds of the frames, a subset of AllKinds
    SamplesPerMs,   \* SAMPLES_PER_MS
    Drifts,         \* by what the basis of a session differs from its audio,
    Drift,          \* at most so much
    Slack,          \* replayToleranceMs: its floor of one second, in ms
    FreeReplays,    \* REPLAY_FREE_LIMIT
    Credits,        \* COVERAGE_CREDIT_LIMIT
    MaxStretches,   \* COVERAGE_MAX_STRETCHES
    RegistryDays,   \* RECOVERY_RETENTION_MS
    ClaimDays,      \* RECOVERY_CLAIM_RETENTION_MS
    MayCorrupt,     \* a coverage row may be unreadable
    Nodes,          \* where sessions run, a subset of {"writer", "replica"}
    Stops,          \* bound: where in the recording a session may stop
    MaxSessions,    \* bound: sessions begun
    MaxOpen,        \* bound: sessions at one time
    MaxDay          \* bound: days

AllKinds == {"live", "auto_retry", "user_retranscribe"}

ASSUME OpsAssumption == NoOp \notin Ops
ASSUME RangesAssumption ==
    /\ IsFiniteSet(Ranges) /\ Ranges # {}
    /\ \A r \in Ranges : r \in Nat \X Nat /\ r[1] < r[2]
ASSUME KindsAssumption == Kinds \subseteq AllKinds /\ Nodes \subseteq {"writer", "replica"}
ASSUME LimitsAssumption ==
    /\ {Drift, Slack, FreeReplays, Credits, MaxSessions, MaxOpen, MaxDay} \subseteq Nat
    /\ MaxStretches \in Nat \ {0} /\ SamplesPerMs \in Nat \ {0}
    /\ Drifts \subseteq -Drift..Drift /\ Stops \subseteq Nat
    /\ RegistryDays \in Nat /\ ClaimDays \in Nat /\ RegistryDays < ClaimDays
    /\ MayCorrupt \in BOOLEAN

(* A row of a table is a record, and NoRow is none. The right part of a cut *)
(* stretch may be left with a negative fraction of a millisecond.           *)
Segment == [s : Nat, e : Nat, ms : Int, by : {"l", "r"}]
CoverRow == [segments : SUBSET Segment, credits : Nat, ops : SUBSET Ops, made : Nat]
ClaimRow == [made : Nat, billed : Nat, replays : Nat, range : Ranges]

ASSUME NoRowAssumption == NoRow \notin CoverRow \cup ClaimRow

VARIABLES
    registry, \* recovery_operations: the rows
    claims,   \* usage_effects: the rows
    cover,    \* recording_coverage: this recording's row
    open,     \* sessions under way
    owed,     \* metering calls a replica owes
    day,
    begun,    \* sessions begun
    bill,     \* usage_records: what the account is charged
    recorded, \* history: charged by the settlements the row remembers
    cuts,     \* history: those of them that fell on earlier stretches
    free,     \* history: what coverage let pass free since the row was made
    claimed,  \* history: charged to each operation under its claim
    longest,  \* history: the longest of those sessions
    excused   \* history: a session was paid for as one of its own, by a rule

money == <<bill, recorded, cuts, free, claimed, longest, excused>>
vars == <<registry, claims, cover, open, owed, day, begun, money>>


Least(a, b) == IF a < b THEN a ELSE b
Most(a, b) == IF a < b THEN b ELSE a
Total(segments) == MapThenSumSet(LAMBDA g : g.ms, segments)

(* Math.round of a quotient: halves go up. *)
Rounded(a, b) == (2 * a + b) \div (2 * b)
Ms(amount) == Rounded(amount, SamplesPerMs)
Samples(ms) == SamplesPerMs * ms
Whole(amount) == Samples(Ms(amount))

-----------------------------------------------------------------------------
(* The claim                                                                 *)

Tolerance(paid) == Samples(Most(Slack, Rounded(2 * paid, 100 * SamplesPerMs)))

\* Mutant: a longer re-send pays all of itself.
ReplayChargeWhole(row, amount) ==
    IF row.replays >= FreeReplays
    THEN [charge |-> amount, verdict |-> "replay_billed", billed |-> Ms(Samples(row.billed) + amount)]
    ELSE IF amount <= Samples(row.billed) + Tolerance(Samples(row.billed))
    THEN [charge |-> 0, verdict |-> "replay_free", billed |-> row.billed]
    ELSE [charge |-> amount, verdict |-> "replay_excess", billed |-> Ms(amount)]

(* replayCharge, for STT: what a claim has billed is in whole milliseconds. *)
ReplayCharge(row, amount) ==
    LET paid == Samples(row.billed)
    IN  IF row.replays >= FreeReplays
        THEN [charge |-> amount, verdict |-> "replay_billed", billed |-> Ms(paid + amount)]
        ELSE IF amount <= paid + Tolerance(paid)
        THEN [charge |-> 0, verdict |-> "replay_free", billed |-> row.billed]
        ELSE [charge |-> amount - paid, verdict |-> "replay_excess", billed |-> Ms(amount)]

-----------------------------------------------------------------------------
(* The coverage of the recording                                             *)

EmptyCover == [segments |-> {}, credits |-> 0, ops |-> {}, made |-> 0]

Overlap(g, lo, hi) == Most(0, Least(g.e, hi) - Most(g.s, lo))
Inside(g, lo, hi) == Least(g.ms, Overlap(g, lo, hi))
\* Mutant: a catch-up does not see what a live press paid.
DrawsRecovered(kind, g) == g.by = "r"
Draws(kind, g) == kind = "auto_retry" \/ g.by = "r"

LeftOf(g, lo) == Most(0, lo - g.s)
RightOf(g, hi) == Most(0, g.e - hi)
Swallowed(g, lo, hi) == LeftOf(g, lo) + RightOf(g, hi) = 0

(* What an overlapped stretch keeps outside [lo, hi), and its money there. *)
Pieces(g, lo, hi) ==
    LET rest == g.ms - Inside(g, lo, hi)
        left == LeftOf(g, lo)
        right == RightOf(g, hi)
        leftMs == IF left + right = 0 THEN 0
                  ELSE Samples(Rounded(rest * left, SamplesPerMs * (left + right)))
    IN  {p \in {[s |-> g.s, e |-> lo, ms |-> leftMs, by |-> g.by],
                [s |-> hi, e |-> g.e, ms |-> rest - leftMs, by |-> g.by]} : p.s < p.e}

(* What the new stretch takes over of it. *)
\* Mutant: what a swallowed stretch held beyond the overlap is dropped.
MovedInside(g, lo, hi) == Inside(g, lo, hi)
Moved(g, lo, hi) == IF Swallowed(g, lo, hi) THEN g.ms ELSE Inside(g, lo, hi)

(* The three sums of the loop over the row's stretches. *)
Offered(drawn, lo, hi) == MapThenSumSet(LAMBDA g : Inside(g, lo, hi), drawn)
Overlapped(drawn, lo, hi) == MapThenSumSet(LAMBDA g : Overlap(g, lo, hi), drawn)
Carried(hit, lo, hi) == MapThenSumSet(LAMBDA g : Moved(g, lo, hi), hit)

\* Mutant: the budget is not looked at.
BudgetLeftAlways(state) == TRUE
BudgetLeft(state) == state.credits < Credits
Full(segments) == Cardinality(segments) >= MaxStretches

(* What a metering charges, what it lets pass, and the row after it, which    *)
(* is told of the charge as that of a stretch over earlier ones or apart.     *)
Untouched(state, charge) == [charge |-> charge, next |-> state, told |-> "no", let |-> 0]

(* settleCoverage: what is left to charge of `proposed`, and the row after. *)
Settle(state, kind, lo, hi, basis, proposed, op, at) ==
    LET cur == IF state = NoRow THEN [EmptyCover EXCEPT !.made = at] ELSE state
        hit == {g \in cur.segments : Overlap(g, lo, hi) > 0}
        drawn == {g \in hit : Draws(kind, g)}
        offered == Offered(drawn, lo, hi)
        covered == Overlapped(drawn, lo, hi) >= hi - lo
        left == IF covered /\ basis <= offered + Tolerance(offered)
                THEN 0 ELSE Most(0, Whole(basis - offered))
        full == Whole(proposed)
        charge == IF offered > 0 /\ BudgetLeft(cur) THEN Least(full, left) ELSE full
        new == [s |-> lo, e |-> hi, by |-> IF kind = "live" THEN "l" ELSE "r",
                ms |-> Whole(Carried(hit, lo, hi) + charge)]
        kept == (cur.segments \ hit) \cup (UNION {Pieces(g, lo, hi) : g \in hit}) \cup {new}
        credited == charge < full
    IN  IF \/ kind = "user_retranscribe"
           \/ Full(cur.segments)
           \/ Cardinality(kept) > MaxStretches
        THEN Untouched(state, full)
        ELSE [charge |-> charge, let |-> full - charge,
              told |-> IF hit = {} THEN "apart" ELSE "over",
              next |-> [cur EXCEPT !.segments = kept,
                                   !.credits = @ + (IF credited THEN 1 ELSE 0),
                                   !.ops = IF credited /\ op # NoOp THEN @ \cup {op} ELSE @]]

(* replayOfCredited: a re-send of an operation coverage credited spends one of *)
(* the recording's credits, and is charged in full when none is left.          *)
Credited(state, op) == state # NoRow /\ op \in state.ops

\* Mutant: one credit more than there are.
CreditedReplayOneMore(state, amount, claimCharge) ==
    IF state.credits > Credits
    THEN Untouched(state, Whole(amount))
    ELSE [charge |-> Whole(claimCharge), next |-> [state EXCEPT !.credits = @ + 1],
          told |-> "no", let |-> Whole(amount) - Whole(claimCharge)]

CreditedReplay(state, amount, claimCharge) ==
    IF ~BudgetLeft(state)
    THEN Untouched(state, Whole(amount))
    ELSE [charge |-> Whole(claimCharge), next |-> [state EXCEPT !.credits = @ + 1],
          told |-> "no", let |-> Whole(amount) - Whole(claimCharge)]

-----------------------------------------------------------------------------
(* The meter                                                                 *)

(* The call of a session that ended: how far it got, and its basis. *)
Covered(broken, c, at, proposed) ==
    IF broken THEN Untouched(cover, Whole(proposed))
    ELSE Settle(cover, c.kind, c.lo, c.end, c.basis, proposed, c.op, at)

(* A session with no operation takes no claim. *)
MeterLive(broken, c, at) ==
    [outcome |-> Covered(broken, c, at, c.basis), claim |-> NoRow, verdict |-> "applied"]

MeterFirst(broken, c, at) ==
    [outcome |-> Covered(broken, c, at, c.basis), verdict |-> "applied",
     claim |-> [made |-> at, billed |-> Ms(c.basis), replays |-> 0, range |-> <<c.lo, c.hi>>]]

(* The claim is bound to another stretch: charged in full, and left alone. *)
OtherBinding(c) == claims[c.op].range # <<c.lo, c.hi>>

MeterUnbound(c) ==
    [outcome |-> Untouched(cover, c.basis), claim |-> claims[c.op], verdict |-> "replay_unbound"]

MeterReplay(broken, c, at) ==
    LET row == claims[c.op]
        d == ReplayCharge(row, c.basis)
        inBound == d.verdict # "replay_billed"
    IN  [outcome |->
            CASE inBound /\ broken -> Untouched(cover, Whole(c.basis))
              [] inBound /\ ~broken /\ Credited(cover, c.op) -> CreditedReplay(cover, c.basis, d.charge)
              [] d.verdict = "replay_excess" /\ ~broken /\ ~Credited(cover, c.op) ->
                    Covered(broken, c, at, d.charge)
              [] OTHER -> Untouched(cover, d.charge),
         claim |-> [row EXCEPT !.replays = @ + 1, !.billed = d.billed],
         verdict |-> d.verdict]

Step(broken, c, at) ==
    CASE c.op = NoOp -> MeterLive(broken, c, at)
      [] c.op # NoOp /\ claims[c.op] = NoRow -> MeterFirst(broken, c, at)
      [] c.op # NoOp /\ claims[c.op] # NoRow /\ OtherBinding(c) -> MeterUnbound(c)
      [] OTHER -> MeterReplay(broken, c, at)

(* The claim had the word on it: neither a row that cannot be read nor a      *)
(* spent budget overruled it.                                                *)
ClaimDecides(broken, r, c) ==
    /\ c.op # NoOp
    /\ \/ r.verdict = "applied"
       \/ /\ r.verdict \in {"replay_free", "replay_excess"}
          /\ ~broken
          /\ Credited(cover, c.op) => BudgetLeft(cover)

(* Paid for as a session of its own: beyond or outside its claim, live again, *)
(* or refused by coverage (asked for by the user, or more stretches than a    *)
(* row may hold), or when coverage could not help any more.                   *)
PaidApart(broken, r, c) ==
    \/ broken
    \/ r.verdict \notin {"applied", "replay_free"}
    \/ r.verdict = "applied" /\ r.outcome.told = "no"
    \/ /\ cover # NoRow
       /\ \/ ~BudgetLeft(cover)
          \/ c.kind = "live" /\ \E g \in cover.segments : g.by = "l"

Metered(c, at, broken) ==
    /\ broken => MayCorrupt /\ cover # NoRow
    /\ \E r \in {Step(broken, c, at)} :
          /\ claims' = IF c.op = NoOp THEN claims ELSE [claims EXCEPT ![c.op] = r.claim]
          /\ cover' = r.outcome.next
          /\ bill' = bill + r.outcome.charge
          /\ recorded' = recorded + (IF r.outcome.told = "no" THEN 0 ELSE r.outcome.charge)
          /\ cuts' = cuts + (IF r.outcome.told = "over" THEN 1 ELSE 0)
          /\ free' = free + r.outcome.let
          /\ IF ClaimDecides(broken, r, c)
             THEN /\ claimed' = [claimed EXCEPT ![c.op] = @ + r.outcome.charge]
                  /\ longest' = [longest EXCEPT ![c.op] = Most(@, c.basis)]
             ELSE UNCHANGED <<claimed, longest>>
          /\ excused' = (excused \/ PaidApart(broken, r, c))

-----------------------------------------------------------------------------
(* Sessions                                                                  *)

(* admit, at the writer. *)
ConflictsWithClaim(op, range) == claims[op] # NoRow /\ claims[op].range # range
ConflictsWithRow(op, kind, range) ==
    registry[op] # NoRow /\ (registry[op].range # range \/ registry[op].kind # kind)

Admit(op, kind, range) ==
    /\ ~ConflictsWithClaim(op, range)
    /\ ~ConflictsWithRow(op, kind, range)
    /\ registry' = [registry EXCEPT ![op] =
            [kind |-> kind, range |-> range, last |-> day,
             first |-> IF registry[op] = NoRow THEN day ELSE registry[op].first]]

Begin(op, kind, range, node) ==
    /\ begun < MaxSessions
    /\ Cardinality(open) < MaxOpen
    /\ kind = "live" <=> op = NoOp
    /\ kind = "live" => range[1] = 0
    /\ begun' = begun + 1
    /\ open' = open \cup {[n |-> begun, op |-> op, kind |-> kind, lo |-> range[1],
                           hi |-> range[2], node |-> node]}
    /\ IF op # NoOp /\ node = "writer" THEN Admit(op, kind, range) ELSE UNCHANGED registry
    /\ UNCHANGED <<claims, cover, owed, day, money>>

(* coverageRefOf: the end is what was received, never past what was stated. *)
Call(s, received, drift) ==
    [n |-> s.n, op |-> s.op, kind |-> s.kind, lo |-> s.lo, hi |-> s.hi,
     end |-> s.lo + received, basis |-> Most(1, received + drift), at |-> day]

Calls(s) == {Call(s, p - s.lo, d) : p \in {q \in Stops : s.lo < q /\ q <= s.hi}, d \in Drifts}

EndAtWriter(s, c, broken) ==
    /\ s.node = "writer"
    /\ Metered(c, day, broken)
    /\ open' = open \ {s}
    /\ UNCHANGED <<registry, owed, day, begun>>

EndAtReplica(s, c) ==
    /\ s.node = "replica"
    /\ owed' = owed \cup {c}
    /\ open' = open \ {s}
    /\ UNCHANGED <<registry, claims, cover, day, begun, money>>

(* An engine failure, a death, or a transaction that threw: nothing metered. *)
EndUnmetered(s) ==
    /\ open' = open \ {s}
    /\ UNCHANGED <<registry, claims, cover, owed, day, begun, money>>

(* The writer performs a call a replica owed, at the instant it was made. *)
Deliver(c, broken) ==
    /\ c \in owed
    /\ owed' = owed \ {c}
    /\ Metered(c, c.at, broken)
    /\ UNCHANGED <<registry, open, day, begun>>

NextDay ==
    /\ day < MaxDay
    /\ open = {}
    /\ day' = day + 1
    /\ UNCHANGED <<registry, claims, cover, open, owed, begun, money>>

(* The sweep: the registry, whose rows a claim protects, then the claims and *)
(* the coverage, in one transaction.                                         *)
RowExpired(op) ==
    registry[op] # NoRow /\ (\/ day - registry[op].first > ClaimDays
                             \/ day - registry[op].last > RegistryDays /\ claims[op] = NoRow)
ClaimExpired(op) == claims[op] # NoRow /\ day - claims[op].made > ClaimDays
CoverExpired == cover # NoRow /\ day - cover.made > ClaimDays

Prune ==
    /\ CoverExpired \/ \E op \in Ops : RowExpired(op) \/ ClaimExpired(op)
    /\ registry' = [op \in Ops |-> IF RowExpired(op) THEN NoRow ELSE registry[op]]
    /\ claims' = [op \in Ops |-> IF ClaimExpired(op) THEN NoRow ELSE claims[op]]
    /\ cover' = IF CoverExpired THEN NoRow ELSE cover
    /\ recorded' = IF CoverExpired THEN 0 ELSE recorded
    /\ cuts' = IF CoverExpired THEN 0 ELSE cuts
    /\ free' = IF CoverExpired THEN 0 ELSE free
    /\ claimed' = [op \in Ops |-> IF ClaimExpired(op) THEN 0 ELSE claimed[op]]
    /\ longest' = [op \in Ops |-> IF ClaimExpired(op) THEN 0 ELSE longest[op]]
    /\ excused' = (excused \/ CoverExpired)
    /\ UNCHANGED <<open, owed, day, begun, bill>>

Init ==
    /\ registry = [op \in Ops |-> NoRow]
    /\ claims = [op \in Ops |-> NoRow]
    /\ cover = NoRow
    /\ open = {} /\ owed = {}
    /\ day = 0 /\ begun = 0
    /\ bill = 0 /\ recorded = 0 /\ cuts = 0 /\ free = 0 /\ excused = FALSE
    /\ claimed = [op \in Ops |-> 0] /\ longest = [op \in Ops |-> 0]

Next ==
    \/ \E op \in Ops \cup {NoOp}, k \in Kinds, r \in Ranges, n \in Nodes : Begin(op, k, r, n)
    \/ \E s \in open : \E c \in Calls(s) :
          \/ \E broken \in BOOLEAN : EndAtWriter(s, c, broken)
          \/ EndAtReplica(s, c)
    \/ \E s \in open : EndUnmetered(s)
    \/ \E c \in owed, broken \in BOOLEAN : Deliver(c, broken)
    \/ NextDay
    \/ Prune

Spec == Init /\ [][Next]_vars

-----------------------------------------------------------------------------
(* Properties                                                                *)

TypeOK ==
    /\ claims \in [Ops -> ClaimRow \cup {NoRow}]
    /\ cover \in CoverRow \cup {NoRow}
    /\ cover # NoRow => Cardinality(cover.segments) <= MaxStretches /\ cover.credits <= Credits
    /\ Cardinality(open) <= MaxOpen
    /\ {bill, recorded, cuts, free} \subseteq Nat /\ excused \in BOOLEAN

(* The row remembers what was charged for its stretches, which do not        *)
(* overlap, however sessions cut them up: to the millisecond, but for one at *)
(* most for each session that fell on earlier stretches, whose fractions the *)
(* code rounds twice (recording-coverage.repo.ts lines 105-124). Re-sends of *)
(* operations coverage credited are charged beside it (replayOfCredited).    *)
RowBalances ==
    cover # NoRow =>
        /\ Total(cover.segments) - recorded \in -Samples(cuts)..Samples(cuts)
        /\ \A g, h \in cover.segments : g = h \/ g.e <= h.s \/ h.e <= g.s
        /\ \A g \in cover.segments : g.s < g.e

(* What coverage lets one recording have free, first sessions and re-sends   *)
(* together, is at most COVERAGE_CREDIT_LIMIT times what the account paid    *)
(* ("a modified client gets at most five times what it paid"), to the        *)
(* millisecond a session and with the tolerance of both budgets: a re-send   *)
(* may exceed by the claim's one a session that exceeded by the coverage's   *)
(* one what was paid.                                                        *)
WithTolerance(paid) == paid + Tolerance(paid)
FreeIsBounded == free <= Credits * WithTolerance(WithTolerance(bill + Samples(begun)))

(* The sessions of one operation on whose charge its claim decided cost      *)
(* together no more than the longest of them, in whole milliseconds,         *)
(* wherever they ran and in whatever order their meters arrive               *)
(* (usage-effects.repo.ts replayCharge).                                     *)
OperationPaysForLongest == \A op \in Ops : claimed[op] <= Whole(longest[op])

(* One live press and its catch-ups, re-sent, cut short, at two nodes and    *)
(* metered in any order, are charged no more than the audio of the recording *)
(* ("the same audio of one recording is paid for once"), with the drift and  *)
(* a millisecond for each session, until some session is paid for as one of  *)
(* its own.                                                                  *)
Audio == CHOOSE m \in {r[2] : r \in Ranges} : \A r \in Ranges : r[2] <= m
AudioPaidOnce == ~excused => bill <= Audio + (Drift + SamplesPerMs) * begun

==============================================================================
