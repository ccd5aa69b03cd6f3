---------------------------- MODULE ForwardOutbox ----------------------------
(***************************************************************************)
(* A relay node that may not write the shared database owes its writes to  *)
(* the writer: a file of records (db/replica-outbox.ts), a loop that       *)
(* offers them (node/outbox-drainer.ts), one HTTP call                     *)
(* (node/writer-client.ts forward), and at the writer a receiver           *)
(* (node/forward-receiver.ts) over a ledger of performed ids               *)
(* (node/forward-ledger.ts). Paths are under apps/server-core/src.         *)
(*                                                                         *)
(* JavaScript runs one event at a time: an action is the code between two  *)
(* awaits. Either process may die between any two actions; the file and    *)
(* the writer's tables survive.                                            *)
(***************************************************************************)
EXTENDS Naturals, FiniteSets, Sequences

CONSTANTS
    Usage,      \* metering facts (ids derived from the operation, or random)
    Presence,   \* heartbeats of one computer
    Identity,   \* declarations of one computer about itself
    Home,       \* registrations of one computer at this node
    Bad,        \* records whose body the writer cannot parse (another build's)
    Cursed,     \* metering facts whose effect always throws at the writer
    MaxTries,   \* MAX_TRIES
    BatchMax,   \* FORWARD_BATCH_MAX
    MaxLines,   \* bound: lines in the file
    MaxLate,    \* bound: abandoned requests that may still reach the writer
    MaxCrashes, \* bound: deaths of either process
    MaxDirect,  \* bound: times the computer presents itself to the writer
    OutageBound \* hypothesis: nothing is offered once the ledger has forgotten
                \* it, FORWARD_LEDGER_RETENTION_MS after its enqueueing

Facts == Usage \cup Presence \cup Identity \cup Home \cup Bad \cup Cursed
Rows == {"presence", "identity", "home"}

ASSUME FactsAssumption ==
    /\ IsFiniteSet(Facts)
    /\ LET kinds == <<Usage, Presence, Identity, Home, Bad, Cursed>>
       IN  \A i, j \in 1..6 : i # j => kinds[i] \cap kinds[j] = {}
ASSUME LimitsAssumption ==
    /\ MaxTries \in Nat \ {0}
    /\ BatchMax \in Nat \ {0}
    /\ {MaxLines, MaxLate, MaxCrashes, MaxDirect} \subseteq Nat
    /\ OutageBound \in BOOLEAN

VARIABLES
    file,     \* the records of the JSONL file, oldest first
    torn,     \* the file ends in a fragment with no newline
    drain,    \* the drain under way, or Idle
    late,     \* batches whose caller gave up and that may still arrive
    seen,     \* ids in node_forward_seen
    pruned,   \* ids the daily sweep has removed from it
    row,      \* the instant of the fact each column of the computer's row holds
    clock,    \* PcIdentityClock: in the writer's memory
    times,    \* how often the writer performed each metering fact
    at,       \* the instant stamped on each row fact
    instant,  \* the last instant stamped
    direct,   \* times the computer presented itself to the writer
    crashes,
    owed,     \* history: facts whose enqueue returned
    refused   \* history: rejections answered to each fact's lines

vars == <<file, torn, drain, late, seen, pruned, row, clock, times, at,
          instant, direct, crashes, owed, refused>>

diskVars == <<file, torn>>
writerVars == <<seen, pruned, row, clock, times>>
boundVars == <<direct, crashes>>

Record == [id : Facts, tries : 0..MaxTries, parked : BOOLEAN]
Idle == [stage |-> "idle", offered |-> <<>>, batch |-> <<>>, outcomes |-> <<>>]

Ids(records) == {records[i].id : i \in DOMAIN records}

Metered == Usage \cup Cursed

(* Those that pass through the ledger; presence does not. *)
Ledgered == Facts \ (Presence \cup Bad)

-----------------------------------------------------------------------------
(* The replica                                                               *)

(* A record appended after a torn line starts with a newline of its own, or *)
(* it would be part of the fragment and lost with it.                       *)
NeedsLeadingNewline == torn

AppendLine(f) ==
    IF torn /\ ~NeedsLeadingNewline
    THEN file
    ELSE Append(file, [id |-> f, tries |-> 0, parked |-> FALSE])

(* A metering id may repeat (one operation, metered again); the others are  *)
(* random.                                                                  *)
Enqueue(f) ==
    /\ Len(file) < MaxLines
    /\ f \in owed => f \in Usage
    /\ OutageBound => f \notin pruned
    /\ file' = AppendLine(f)
    /\ torn' = FALSE
    /\ owed' = owed \cup {f}
    /\ IF f \in Presence \cup Identity \cup Home
       THEN /\ instant' = instant + 1
            /\ at' = [at EXCEPT ![f] = instant + 1]
       ELSE UNCHANGED <<instant, at>>
    /\ UNCHANGED <<drain, late, writerVars, boundVars, refused>>

\* The elements of s at the positions in S, in order.
Picked(s, S) ==
    [k \in 1..Cardinality(S) |-> s[CHOOSE i \in S : Cardinality({j \in S : j < i}) = k - 1]]

Attemptable(records) == {i \in DOMAIN records : records[i].tries + 1 <= MaxTries}

FirstOf(S, n) == {i \in S : Cardinality({j \in S : j < i}) < n}

Batch(records) == Picked(records, FirstOf(Attemptable(records), BatchMax))

\* Mutant: silence counts as a refusal.
FateNoSilence(offered, outcomes, i) ==
    LET r == offered[i] IN
    CASE r.tries + 1 > MaxTries -> "park"
      [] r.tries + 1 <= MaxTries ->
           IF r.id \in DOMAIN outcomes /\ outcomes[r.id] # "rejected" THEN "drop" ELSE "retry"

(* What a finished drain does with the i-th record it was given. *)
Fate(offered, outcomes, i) ==
    LET r == offered[i] IN
    CASE r.tries + 1 > MaxTries -> "park"
      [] r.tries + 1 <= MaxTries /\ r.id \notin DOMAIN outcomes -> "untouched"
      [] r.tries + 1 <= MaxTries /\ r.id \in DOMAIN outcomes ->
           IF outcomes[r.id] = "rejected" THEN "retry" ELSE "drop"

(* `resolved`: a map by id, so the last decided line of an id decides. *)
Decided(offered, outcomes, id) ==
    {i \in DOMAIN offered : offered[i].id = id /\ Fate(offered, outcomes, i) # "untouched"}

\* What takes the place of a record, if anything does.
Resolution(offered, outcomes, r) ==
    LET decided == Decided(offered, outcomes, r.id)
        i == CHOOSE m \in decided : \A j \in decided : j <= m
    IN  IF decided = {} THEN {r}
        ELSE CASE Fate(offered, outcomes, i) = "park"  -> {[offered[i] EXCEPT !.parked = TRUE]}
               [] Fate(offered, outcomes, i) = "retry" -> {[offered[i] EXCEPT !.tries = @ + 1]}
               [] OTHER -> {}

Rewritten(lines, offered, outcomes) ==
    LET keep == {i \in DOMAIN lines : Resolution(offered, outcomes, lines[i]) # {}}
    IN  Picked([i \in keep |-> CHOOSE r \in Resolution(offered, outcomes, lines[i]) : TRUE], keep)

\* Mutant: what was offered is written back.
CompactedOffered(current, offered, outcomes) == Rewritten(offered, offered, outcomes)

(* The compaction works on the file as it is now, not as it was offered. *)
Compacted(current, offered, outcomes) == Rewritten(current, offered, outcomes)

(* The synchronous rest of drainBatch, after `send` has ended. *)
FinishDrain(offered, outcomes) ==
    /\ file' = Compacted(file, offered, outcomes)
    /\ torn' = FALSE
    /\ drain' = Idle

(* A tick of the drainer. With nothing attemptable there is no request, and *)
(* the drain ends where it began.                                           *)
Tick ==
    /\ drain.stage = "idle"
    /\ file # <<>>
    /\ IF Attemptable(file) = {}
       THEN FinishDrain(file, <<>>)
       ELSE /\ drain' = [stage |-> "asking", offered |-> file, batch |-> Batch(file),
                         outcomes |-> <<>>]
            /\ UNCHANGED diskVars
    /\ UNCHANGED <<late, writerVars, at, instant, boundVars, owed, refused>>

(* The answer arrives. *)
Answered ==
    /\ drain.stage = "answered"
    /\ FinishDrain(drain.offered, drain.outcomes)
    /\ refused' = [f \in Facts |->
         IF f \in DOMAIN drain.outcomes /\ drain.outcomes[f] = "rejected"
         THEN refused[f] + 1 ELSE refused[f]]
    /\ UNCHANGED <<late, writerVars, at, instant, boundVars, owed>>

Abandoned == IF drain.stage = "asking" THEN {drain.batch} ELSE {}

(* The call throws: no connection, an error status, an unreadable body, or   *)
(* its timeout, after which the request may still arrive at the writer.      *)
GivesUp ==
    /\ drain.stage \in {"asking", "answered"}
    /\ FinishDrain(drain.offered, <<>>)
    /\ \/ UNCHANGED late
       \/ /\ Cardinality(late \cup Abandoned) <= MaxLate
          /\ late' = late \cup Abandoned
    /\ UNCHANGED <<writerVars, at, instant, boundVars, owed, refused>>

(* The replica dies and starts again; perhaps an append of it was torn. *)
ReplicaCrash ==
    /\ crashes < MaxCrashes
    /\ crashes' = crashes + 1
    /\ drain' = Idle
    /\ \/ UNCHANGED late
       \/ /\ Cardinality(late \cup Abandoned) <= MaxLate
          /\ late' = late \cup Abandoned
    /\ torn' \in {torn, TRUE}
    /\ UNCHANGED <<file, writerVars, at, instant, direct, owed, refused>>

-----------------------------------------------------------------------------
(* The writer                                                                *)

(* setPresenceIfNewer; the clock of node/pc-identity-forward.ts; setHomeNode, *)
(* which has neither.                                                         *)
\* Mutant: the last to arrive wins.
AdmitAny(held, instantOf) == TRUE
AdmitPresence(held, instantOf) == held <= instantOf
AdmitIdentity(noted, instantOf) == noted <= instantOf

(* The rows after one record. *)
RowStep(rows, id) ==
    CASE id \in Presence -> IF AdmitPresence(rows.presence, at[id])
                            THEN [rows EXCEPT !.presence = at[id]] ELSE rows
      [] id \in Identity -> IF AdmitIdentity(rows.noted, at[id])
                            THEN [rows EXCEPT !.identity = at[id], !.noted = at[id]] ELSE rows
      [] id \in Home     -> [rows EXCEPT !.home = at[id]]
      [] OTHER           -> rows

(* A declaration that threw after the clock admitted it: the clock, which is *)
(* no part of the transaction, stays where it went.                          *)
ClockStep(rows, id) ==
    IF AdmitIdentity(rows.noted, at[id]) THEN [rows EXCEPT !.noted = at[id]] ELSE rows

RowsAfter(start, part, applied, admitted) ==
    LET after[n \in 0..Len(part)] ==
            IF n = 0 THEN start
            ELSE IF part[n].id \in applied THEN RowStep(after[n - 1], part[n].id)
            ELSE IF part[n].id \in admitted THEN ClockStep(after[n - 1], part[n].id)
            ELSE after[n - 1]
    IN  after[Len(part)]

(* The receiver works through a batch record by record, each in a            *)
(* transaction of its own: those in `thrown` threw and rolled back, the      *)
(* declarations among them before or after the clock saw them. A dying       *)
(* writer leaves a prefix.                                                   *)
\* Mutant: the id is claimed before its body is understood.
PerformableAny(id, thrown) == id \notin seen /\ id \notin thrown
Performable(id, thrown) == id \in Ledgered /\ id \notin seen /\ id \notin thrown

Receive(batch, upTo, thrown, restarts) ==
    LET part == SubSeq(batch, 1, upTo)
        new == {id \in Ids(part) : Performable(id, thrown)}
        now == [k \in Rows \cup {"noted"} |-> IF k = "noted" THEN clock ELSE row[k]]
    IN  /\ seen' = seen \cup new
        /\ times' = [f \in Metered |-> IF f \in new THEN times[f] + 1 ELSE times[f]]
        /\ \E admitted \in SUBSET ((Identity \cap thrown) \ seen) :
              LET after == RowsAfter(now, part, new \cup (Presence \ thrown), admitted)
              IN  /\ row' = [k \in Rows |-> after[k]]
                  /\ clock' = IF restarts THEN 0 ELSE after["noted"]
        /\ UNCHANGED pruned

\* Mutant: nothing is said of a record performed before.
OutcomesNew(batch, thrown) ==
    [id \in Ids(batch) \ (thrown \cup seen) |-> IF id \in Bad THEN "rejected" ELSE "accepted"]

(* A record that threw is left out of the answer. *)
Outcomes(batch, thrown) ==
    [id \in Ids(batch) \ (thrown \ seen) |->
        IF id \in Bad THEN "rejected"
        ELSE IF id \in seen THEN "duplicate" ELSE "accepted"]

(* Which records of a batch throw: the cursed always, others at times. *)
Throwing(batch) ==
    {t \in SUBSET (Ids(batch) \ Bad) : Ids(batch) \cap Cursed \subseteq t}

WriterTakes(t) ==
    /\ drain.stage = "asking"
    /\ t \in Throwing(drain.batch)
    /\ Receive(drain.batch, Len(drain.batch), t, FALSE)
    /\ drain' = [drain EXCEPT !.stage = "answered", !.outcomes = Outcomes(drain.batch, t)]
    /\ UNCHANGED <<diskVars, late, at, instant, boundVars, owed, refused>>

(* A request whose caller has given up arrives all the same. *)
LateArrival ==
    /\ \E b \in late : \E t \in Throwing(b) :
         /\ Receive(b, Len(b), t, FALSE)
         /\ late' = late \ {b}
    /\ UNCHANGED <<diskVars, drain, at, instant, boundVars, owed, refused>>

(* The writer dies, perhaps within a batch, and starts again. Its clock of   *)
(* declarations is in memory, and a request it was reading gets no answer.   *)
WriterCrash ==
    /\ crashes < MaxCrashes
    /\ crashes' = crashes + 1
    /\ \E b \in late \cup Abandoned \cup {<<>>} : \E n \in 0..Len(b) : \E t \in Throwing(b) :
         /\ Receive(b, n, t, TRUE)
         /\ late' = late \ {b}
    /\ drain' = IF drain.stage = "asking" THEN [drain EXCEPT !.stage = "answered"] ELSE drain
    /\ UNCHANGED <<diskVars, at, instant, direct, owed, refused>>

(* The computer presents itself to the writer itself: a heartbeat, a          *)
(* declaration or a registration there.                                       *)
Direct(k) ==
    /\ direct < MaxDirect
    /\ direct' = direct + 1
    /\ instant' = instant + 1
    /\ row' = [row EXCEPT ![k] = instant + 1]
    /\ clock' = IF k = "identity" THEN instant + 1 ELSE clock
    /\ UNCHANGED <<diskVars, drain, late, seen, pruned, times, at, crashes, owed, refused>>

(* The writer's daily sweep of the ledger. *)
StillOffered == Ids(file) \cup UNION {Ids(b) : b \in late \cup Abandoned}

Prune(S) ==
    /\ S # {}
    /\ S \subseteq seen
    /\ OutageBound => S \cap StillOffered = {}
    /\ seen' = seen \ S
    /\ pruned' = pruned \cup S
    /\ UNCHANGED <<diskVars, drain, late, row, clock, times, at, instant, boundVars, owed, refused>>

-----------------------------------------------------------------------------
Init ==
    /\ file = <<>> /\ torn = FALSE
    /\ drain = Idle /\ late = {}
    /\ seen = {} /\ pruned = {}
    /\ row = [k \in Rows |-> 0] /\ clock = 0
    /\ times = [f \in Metered |-> 0]
    /\ at = [f \in Facts |-> 0] /\ instant = 0
    /\ direct = 0 /\ crashes = 0
    /\ owed = {} /\ refused = [f \in Facts |-> 0]

Next ==
    \/ \E f \in Facts : Enqueue(f)
    \/ Tick
    \/ Answered
    \/ GivesUp
    \/ ReplicaCrash
    \/ \E t \in SUBSET Facts : WriterTakes(t)
    \/ LateArrival
    \/ WriterCrash
    \/ \E k \in Rows : Direct(k)
    \/ \E S \in SUBSET Facts : Prune(S)

Spec == Init /\ [][Next]_vars

Expected == Ids(drain.batch) \ Cursed

(* The drainer's timer keeps firing and a call ends, by its timeout at the   *)
(* latest. That a request sooner or later reaches the writer with only the   *)
(* cursed throwing, and that its answer comes back, is an assumption about   *)
(* the link and the database; a round can fail any number of times before,   *)
(* hence strong fairness.                                                    *)
LiveSpec ==
    /\ Spec
    /\ WF_vars(Tick)
    /\ WF_vars(Answered \/ GivesUp)
    /\ SF_vars(WriterTakes(Ids(drain.batch) \cap Cursed))
    /\ SF_vars(Answered /\ DOMAIN drain.outcomes = Expected)

-----------------------------------------------------------------------------
(* Properties                                                                *)

TypeOK ==
    /\ file \in Seq(Record) /\ Len(file) <= MaxLines
    /\ torn \in BOOLEAN
    /\ drain.stage \in {"idle", "asking", "answered"}
    /\ seen \subseteq Ledgered /\ pruned \subseteq Ledgered
    /\ \A b \in late : Ids(b) \subseteq owed
    /\ row \in [Rows -> 0..instant] /\ clock \in 0..instant
    /\ times \in [Metered -> Nat]

(* A metering call made at the replica is performed by the writer exactly    *)
(* once, and the replica forgets it only afterwards: through torn appends,   *)
(* deaths of either process at any point, lost answers and requests that     *)
(* arrive after they were given up (db/replica-outbox.ts, forward-ledger.ts  *)
(* `once`). Under OutageBound.                                               *)
Once == INSTANCE ForwardOnce WITH
            Facts <- Metered,
            owed <- owed \cap Metered,
            performed <- times,
            settled <- (owed \cap Metered) \ Ids(file)

MeteredOnce == Once!Spec

(* The retry budget of a record is spent by refusals of that record only: no *)
(* outage, timeout, restart of either side, nor a record that threw at the   *)
(* writer brings it nearer to being parked (drainBatch, "AN ID THE SENDER    *)
(* SAYS NOTHING ABOUT IS LEFT COMPLETELY ALONE").                            *)
OutageBurnsNoBudget == \A i \in DOMAIN file : file[i].tries <= refused[file[i].id]

(* What the writer knows of a computer never moves back to an older fact:    *)
(* presence never (it has no ledger: pc.repo.ts setPresenceIfNewer); the     *)
(* declaration not while the writer remembers the last one's instant         *)
(* (pc-identity-forward.ts rule 4, whose clock does not survive a restart).  *)
RowsMoveForward ==
    [][ /\ row'["presence"] >= row["presence"]
        /\ clock >= row["identity"] => row'["identity"] >= row["identity"] ]_vars

(* Whatever the replica owes is either taken by the writer or parked where   *)
(* an operator finds it, as long as fewer records than a batch holds throw   *)
(* every time they are tried.                                                *)
Stuck(f) == \E i \in DOMAIN file : file[i].id = f /\ ~file[i].parked

OwedLeavesTheQueue == \A f \in Facts \ Cursed : Stuck(f) ~> ~Stuck(f)

==============================================================================
