---------------------------- MODULE InjectDedup ----------------------------
(***************************************************************************)
(* The desktop's answer to one inject:request: the machine-wide            *)
(* de-duplication table of apps/desktop/src-tauri/src/socket (dedup.rs,    *)
(* dedup_claim.rs, dedup_uncertain.rs, dedup_elevated.rs, typed_ledger.rs) *)
(* and run_inject (inject_ops.rs), which consults it, types, and records.  *)
(*                                                                         *)
(* A thread is whatever calls run_inject: the poll thread of one channel   *)
(* (LAN, cloud, or a re-dialled channel whose old callback still runs) or  *)
(* the command thread of the desktop's own re-inject button.  The table is *)
(* behind one mutex, so every section under that lock is one action; the   *)
(* pipeline runs between two of them.  A frame is [id, text, deliberate,   *)
(* deferred]: a frame with a request_id is one delivery, of which phone    *)
(* and relay may present any number of copies; one without carries NoId.   *)
(***************************************************************************)
EXTENDS Integers, Sequences, FiniteSets

CONSTANTS
    Ids,              \* request_ids, numbered in their string order
    NoId,             \* the frame carries no request_id
    Texts,            \* texts of frames without a request_id
    Threads,          \* callers of run_inject
    Frames,           \* the frames the phone and the desktop present
    LruCap,           \* InjectDeduper::LRU_CAP
    UncertainCap,     \* dedup_uncertain.rs CAP
    MaxAge,           \* dedup_uncertain.rs MAX_AGE_MS
    ElevatedMemory,   \* dedup_elevated.rs ELEVATED_MEMORY_MS
    ElevatedCap,      \* dedup_elevated.rs ELEVATED_MEMORY_CAP
    Inj1Window,       \* InjectDeduper::INJ1_WINDOW_MS
    LegacyLedgers,    \* what the retired cloud-channel ledger may hold at first boot
    Unreadable,       \* which ledger files a boot may fail to read
    SavesMayFail,     \* may a ledger write fail?
    MaxClock, MaxArrivals, MaxCrashes   \* bounds of the exploration

\* A ledger in order of recency: no id twice, no more than the LRU holds.
Orders ==
    UNION { { o \in [1..n -> Ids] : \A i, j \in 1..n : o[i] = o[j] => i = j }
            : n \in 0..LruCap }

FrameType ==
    [id : Ids \cup {NoId}, text : Texts, deliberate : BOOLEAN, deferred : BOOLEAN]

ASSUME IdsAssumption == Ids \subseteq Nat /\ IsFiniteSet(Ids) /\ NoId \notin Ids
ASSUME FramesAssumption == Frames \subseteq FrameType /\ Frames # {}
ASSUME CapAssumption ==
    /\ LruCap \in Nat \ {0} /\ UncertainCap \in Nat \ {0} /\ ElevatedCap \in Nat \ {0}
ASSUME TimeAssumption ==
    /\ MaxAge \in Nat \ {0} /\ ElevatedMemory \in Nat /\ Inj1Window \in Nat
    /\ MaxClock \in Nat /\ MaxArrivals \in Nat /\ MaxCrashes \in Nat
ASSUME DiskAssumption ==
    /\ LegacyLedgers \subseteq Orders
    /\ SavesMayFail \in BOOLEAN
    /\ Unreadable \subseteq {"live", "legacy"}

AnyFrame == CHOOSE f \in Frames : TRUE     \* what an idle thread last served: irrelevant

Absent == -1                    \* no timestamp: the table holds no such entry
Entries == {"none", "fullOk", "fullFailed", "typedOnly"}
TypedEntries == {"fullOk", "typedOnly"}         \* what derive_ledger_file writes
Stamps == Nat \cup {Absent}

Touching == {"ok", "failed", "uncertain"}       \* outcomes whose mode is not cached
Outcomes == Touching \cup {"cached", "elevated"}
Replies == Outcomes \cup {"none", "deferred", "suppressed"}
Stages == {"idle", "classify", "waiting", "gate", "pipeline", "record",
           "release", "notify", "reply"}
Running == {"gate", "pipeline", "record", "release"}    \* holds the claim

VARIABLES
    up,           \* the process runs and has loaded its ledger
    clock,        \* wall clock, in units of the model
    order,        \* request_ids, most recent first
    results,      \* id -> cached entry
    uncertain,    \* id -> when its submission became uncertain
    elevated,     \* id -> when it was refused as INJECT_TARGET_ELEVATED
    inFlight,     \* ids whose pipeline is running now
    lastAuto,     \* text and arrival of the last automatic frame without an id
    disk,         \* the live ledger file
    legacy,       \* the retired per-channel ledger file, <<>> when there is none
    pc, frame, arrived, expired, panicking, reply,  \* one call of run_inject per thread
    arrivals, crashes                               \* bounds

\* History, read by no action: what really happened at the keyboard.
VARIABLES
    typed,        \* ids for which keys were sent, in this or an earlier life
    typedOk,      \* those whose pipeline reported success
    lost,         \* typed ids the table has given up in a way the code names
    duplicates,   \* ids typed again although the table had not given them up
    autoTyped,    \* text and arrival of the automatic frames without id that were typed
    unsaved       \* the last ledger write failed, or the boot could not read the file

table == <<order, results, uncertain, elevated, inFlight, lastAuto>>
files == <<disk, legacy>>
calls == <<pc, frame, arrived, expired, panicking, reply>>
keyboard == <<typed, typedOk, duplicates, autoTyped>>
history == <<keyboard, lost, unsaved>>
bounds == <<arrivals, crashes>>
vars == <<up, clock, table, files, calls, history, bounds>>

-----------------------------------------------------------------------------
(* The table's own operators.                                              *)

Elems(o) == {o[i] : i \in 1..Len(o)}
Position(o, r) == CHOOSE i \in 1..Len(o) : o[i] = r
Least(a, b) == IF a <= b THEN a ELSE b

Touch(o, r) ==
    LET k == Position(o, r)
    IN  [i \in 1..Len(o) |-> IF i = 1 THEN r ELSE IF i <= k THEN o[i - 1] ELSE o[i]]

\* Mutant: nothing is popped at the cap.
PushFrontUncapped(o, r) == <<r>> \o o

PushFront(o, r) ==
    [i \in 1..Least(Len(o) + 1, LruCap) |-> IF i = 1 THEN r ELSE o[i - 1]]

Remove(o, r) ==
    LET k == Position(o, r)
    IN  [i \in 1..(Len(o) - 1) |-> IF i < k THEN o[i] ELSE o[i + 1]]

\* insert_entry: the id a new entry pushes out.
Evicted(o, r) ==
    IF r \notin Elems(o) /\ Len(o) = LruCap THEN {o[Len(o)]} ELSE {}

InsertOrder(o, r) == IF r \in Elems(o) THEN Touch(o, r) ELSE PushFront(o, r)

InsertResults(res, o, r, entry) ==
    [s \in Ids |-> IF s = r THEN entry ELSE IF s \in Evicted(o, r) THEN "none" ELSE res[s]]

\* Mutant: a later report restarts the quarantine.
RefreshUncertain(unc, r, at) == [unc EXCEPT ![r] = at]

\* remember_uncertain: the first timestamp stays.
RememberUncertain(unc, r, at) == [unc EXCEPT ![r] = IF @ = Absent THEN at ELSE @]

\* prune_uncertain removes the oldest entry while it is too old or there are too many.
Prune(unc, now) ==
    LET fresh == {r \in Ids : unc[r] # Absent /\ now - unc[r] < MaxAge}
        Newer(r) == {s \in fresh : unc[s] > unc[r] \/ (unc[s] = unc[r] /\ s > r)}
        kept == {r \in fresh : Cardinality(Newer(r)) < UncertainCap}
    IN  [r \in Ids |-> IF r \in kept THEN unc[r] ELSE Absent]

Pruned(unc, now) == {r \in Ids : unc[r] # Absent /\ Prune(unc, now)[r] = Absent}

\* alive: symmetric, so that a clock that steps back does not freeze a refusal.
Alive(at, now) ==
    /\ at # Absent
    /\ now - at <= ElevatedMemory
    /\ at - now <= ElevatedMemory

\* Mutant: failures are written too, and boot as successes.
LedgerOfAll(o, res, unc) == [order |-> o, typed |-> Elems(o), uncertain |-> unc]

\* derive_ledger_file: the ids of `typed`, in the recency of `order`, then the
\* uncertain ones.
Ledger(o, res, unc) ==
    [order |-> o, typed |-> {r \in Elems(o) : res[r] \in TypedEntries}, uncertain |-> unc]

EmptyLedger == [order |-> <<>>, typed |-> {}, uncertain |-> [r \in Ids |-> Absent]]
LedgerIds(d) == d.typed \cup {r \in Ids : d.uncertain[r] # Absent}

\* save_ledger_best_effort: a failed write is logged and changes nothing.
Save(o, res, unc) ==
    \/ disk' = Ledger(o, res, unc) /\ unsaved' = FALSE
    \/ SavesMayFail /\ disk' = disk /\ unsaved' = TRUE

-----------------------------------------------------------------------------
(* Boot: load_machine_ledger.  Entries of the two files alternate          *)
(* (merge_by_alternating), the most recent first, and are fed to the LRU   *)
(* oldest first; so the table ends with the LruCap best-placed ids.        *)

FilePosition(d, r) == Cardinality({i \in 1..Position(d.order, r) : d.order[i] \in d.typed})
FileLength(d) == Cardinality(d.typed) + Cardinality({r \in Ids : d.uncertain[r] # Absent})

Rank(d, old, r) ==
    LET both == Least(FileLength(d), Len(old))
        live == LET p == FilePosition(d, r) IN IF p <= both THEN 2 * p - 1 ELSE p + both
        retired == LET q == Position(old, r) IN IF q <= both THEN 2 * q ELSE q + both
    IN  IF r \notin Elems(old) THEN live
        ELSE IF r \notin d.typed THEN retired
        ELSE Least(live, retired)

Loaded(d, old) ==
    LET ids == d.typed \cup Elems(old)
    IN  {r \in ids : Cardinality({s \in ids : Rank(d, old, s) < Rank(d, old, r)}) < LruCap}

IsLoadOrder(o, d, old) ==
    /\ Elems(o) = Loaded(d, old)
    /\ \A i, j \in 1..Len(o) : i < j => Rank(d, old, o[i]) < Rank(d, old, o[j])

SeedResults(seeded) == [r \in Ids |-> IF r \in seeded THEN "typedOnly" ELSE "none"]

\* Mutant: the retired file is deleted whether or not the write succeeded.
MigrateRegardless(o, res, unc, savedBefore) ==
    Save(o, res, unc) /\ legacy' \in {legacy, <<>>}

\* finish_migration: the retired file goes only after the merged table is on disk;
\* the delete may fail, and the process may die before it.
Migrate(o, res, unc, savedBefore) ==
    \/ /\ disk' = Ledger(o, res, unc) /\ unsaved' = FALSE
       /\ legacy' \in {legacy, <<>>}
    \/ /\ SavesMayFail
       /\ \/ disk' = disk
          \/ savedBefore /\ disk' = Ledger(o, res, unc)
       /\ unsaved' = TRUE
       /\ legacy' = legacy

\* What the two files turn out to hold: a file that cannot be read counts as empty.
LiveRead(unread) == IF "live" \in unread THEN EmptyLedger ELSE disk
LegacyRead(unread) == IF "legacy" \in unread THEN <<>> ELSE legacy

\* load_into: seed, prune, save if there is anything uncertain, finish the migration.
LoadFrom(d, old) ==
    LET res == SeedResults(Loaded(d, old))
        unc == Prune(d.uncertain, clock)
        saves == \E r \in Ids : d.uncertain[r] # Absent
    IN  /\ order' \in Orders /\ IsLoadOrder(order', d, old)
        /\ results' = res
        /\ uncertain' = unc
        /\ \/ legacy # <<>> /\ Migrate(order', res, unc, saves)
           \/ legacy = <<>> /\ saves /\ Save(order', res, unc) /\ legacy' = legacy
           \/ /\ legacy = <<>> /\ ~saves
              /\ disk' = disk /\ unsaved' = (d # disk) /\ legacy' = legacy

\* Typed ids that boot without an entry: the merge overflowed, their quarantine ended,
\* or the live file could not be read.
LostAtLoad(d, old) ==
    LET overflows == Cardinality(d.typed \cup Elems(old)) > LruCap
    IN  (IF overflows THEN (d.typed \cup Elems(old)) \ Loaded(d, old) ELSE {})
        \cup Pruned(d.uncertain, clock)
        \cup (IF d # disk THEN LedgerIds(disk) ELSE {})

Load ==
    /\ ~up /\ up' = TRUE
    /\ \E unread \in SUBSET Unreadable :
        /\ LoadFrom(LiveRead(unread), LegacyRead(unread))
        /\ lost' = lost \cup LostAtLoad(LiveRead(unread), LegacyRead(unread))
    /\ UNCHANGED <<clock, elevated, inFlight, lastAuto, calls, keyboard, bounds>>

\* Typed ids that a death of the process may forget: a write failed and the file lacks
\* them; or their run had not recorded them yet, or not as a success.
LostAtCrash ==
    IF unsaved THEN typed \ (LedgerIds(disk) \cup Elems(legacy))
    ELSE {r \in typed : results[r] \in {"none", "fullFailed"} /\ uncertain[r] = Absent}

\* The desktop dies: everything but the two files is gone.
Crash ==
    /\ up /\ crashes < MaxCrashes
    /\ lost' = lost \cup LostAtCrash
    /\ up' = FALSE
    /\ order' = <<>>
    /\ results' = [r \in Ids |-> "none"]
    /\ uncertain' = [r \in Ids |-> Absent]
    /\ elevated' = [r \in Ids |-> Absent]
    /\ inFlight' = {}
    /\ lastAuto' = {}
    /\ pc' = [t \in Threads |-> "idle"]
    /\ expired' = [t \in Threads |-> FALSE]
    /\ panicking' = [t \in Threads |-> FALSE]
    /\ reply' = [t \in Threads |-> "none"]
    /\ frame' = [t \in Threads |-> AnyFrame]
    /\ arrived' = [t \in Threads |-> 0]
    /\ crashes' = crashes + 1
    /\ UNCHANGED <<clock, files, keyboard, unsaved, arrivals>>

Tick ==
    /\ clock < MaxClock
    /\ clock' = clock + 1
    /\ UNCHANGED <<up, table, files, calls, history, bounds>>

-----------------------------------------------------------------------------
(* run_inject: the verdict, under the table's lock (classify_claiming).    *)

Goto(t, stage) == pc' = [pc EXCEPT ![t] = stage]
Answer(t, verdict) == reply' = [reply EXCEPT ![t] = verdict]
HasId(t) == frame[t].id # NoId

\* The frame arrives; run_inject reads the clock before it takes the lock.
Arrive(t) ==
    /\ up /\ pc[t] = "idle" /\ arrivals < MaxArrivals
    /\ \E f \in Frames : frame' = [frame EXCEPT ![t] = f]
    /\ arrived' = [arrived EXCEPT ![t] = clock]
    /\ arrivals' = arrivals + 1
    /\ Goto(t, "classify")
    /\ UNCHANGED <<up, clock, table, files, expired, panicking, reply, history, crashes>>

\* Every classify starts by pruning, and saves when something went.
PruneFirst(t) ==
    /\ pc[t] = "classify"
    /\ uncertain' = Prune(uncertain, arrived[t])
    /\ lost' = lost \cup Pruned(uncertain, arrived[t])
    /\ IF Pruned(uncertain, arrived[t]) = {} THEN UNCHANGED <<disk, unsaved>>
       ELSE Save(order, results, uncertain')
    /\ UNCHANGED <<up, clock, results, elevated, lastAuto, legacy,
                   frame, arrived, expired, panicking, keyboard, bounds>>

ClassifyUncertain(t) ==
    /\ HasId(t)
    /\ PruneFirst(t)
    /\ uncertain'[frame[t].id] # Absent
    /\ Answer(t, "uncertain")
    /\ Goto(t, "reply")
    /\ UNCHANGED <<order, inFlight>>

\* Replay, or AlreadyTypedOnDisk for a fact of an earlier life.
ClassifyHit(t) ==
    LET r == frame[t].id
    IN  /\ HasId(t)
        /\ PruneFirst(t)
        /\ uncertain'[r] = Absent /\ results[r] # "none"
        /\ order' = Touch(order, r)
        /\ Answer(t, IF results[r] = "fullFailed" THEN "failed" ELSE "ok")
        /\ Goto(t, "reply")
        /\ UNCHANGED inFlight

\* Mutant: a deferred frame does not ask the table, it will not be typed anyway.
ProceedsIfDeferred(t) ==
    /\ HasId(t)
    /\ PruneFirst(t)
    /\ frame[t].deferred \/ (uncertain'[frame[t].id] = Absent /\ results[frame[t].id] = "none")
    /\ UNCHANGED order

Proceeds(t) ==
    /\ HasId(t)
    /\ PruneFirst(t)
    /\ uncertain'[frame[t].id] = Absent /\ results[frame[t].id] = "none"
    /\ UNCHANGED order

\* Mutant: the verdict alone admits the frame.
ClaimUnchecked(t) ==
    /\ Proceeds(t)
    /\ inFlight' = inFlight \cup {frame[t].id}
    /\ Goto(t, "gate")
    /\ UNCHANGED reply

ClassifyClaim(t) ==
    /\ Proceeds(t)
    /\ frame[t].id \notin inFlight
    /\ inFlight' = inFlight \cup {frame[t].id}
    /\ Goto(t, "gate")
    /\ UNCHANGED reply

ClassifyWait(t) ==
    /\ Proceeds(t)
    /\ frame[t].id \in inFlight /\ ~expired[t]
    /\ Goto(t, "waiting")
    /\ UNCHANGED <<inFlight, reply>>

ClassifyStillRunning(t) ==
    /\ Proceeds(t)
    /\ frame[t].id \in inFlight /\ expired[t]
    /\ Goto(t, "reply")
    /\ UNCHANGED <<inFlight, reply>>

\* INJ-1: an automatic frame without id that repeats the last one's text.
Repeats(t) ==
    \E last \in lastAuto : last.text = frame[t].text /\ arrived[t] - last.at <= Inj1Window

ClassifySuppress(t) ==
    /\ ~HasId(t)
    /\ PruneFirst(t)
    /\ ~frame[t].deliberate /\ Repeats(t)
    /\ Answer(t, "suppressed")
    /\ Goto(t, "reply")
    /\ UNCHANGED <<order, inFlight>>

ClassifyUnclaimed(t) ==
    /\ ~HasId(t)
    /\ PruneFirst(t)
    /\ frame[t].deliberate \/ ~Repeats(t)
    /\ Goto(t, "gate")
    /\ UNCHANGED <<order, inFlight, reply>>

\* Mutant: the budget starts anew at every wake-up.
BudgetRestarts(t) ==
    /\ pc[t] \in {"classify", "waiting"} /\ HasId(t) /\ ~expired[t]
    /\ Goto(t, "classify")
    /\ UNCHANGED <<up, clock, table, files, frame, arrived, expired, panicking, reply,
                   history, bounds>>

\* The 15 s run out: `started` is read before the lock, so also while waiting for it.
BudgetExpires(t) ==
    /\ pc[t] \in {"classify", "waiting"} /\ HasId(t) /\ ~expired[t]
    /\ expired' = [expired EXCEPT ![t] = TRUE]
    /\ Goto(t, "classify")
    /\ UNCHANGED <<up, clock, table, files, frame, arrived, panicking, reply, history, bounds>>

\* Condition variables may wake for no reason.
SpuriousWake(t) ==
    /\ pc[t] = "waiting"
    /\ Goto(t, "classify")
    /\ UNCHANGED <<up, clock, table, files, frame, arrived, expired, panicking, reply,
                   history, bounds>>

-----------------------------------------------------------------------------
(* run_inject: the gates, the pipeline, record, and the claim's Drop.      *)

\* A frame that came from an automatic re-delivery is never typed.
GateDeferred(t) ==
    /\ pc[t] = "gate" /\ frame[t].deferred
    /\ Answer(t, "deferred")
    /\ Goto(t, IF HasId(t) THEN "release" ELSE "reply")
    /\ UNCHANGED <<up, clock, table, files, frame, arrived, expired, panicking, history, bounds>>

\* elevated_refusal_replay, under a second lock: forget the dead, then look.
RetainAlive(now) == [r \in Ids |-> IF Alive(elevated[r], now) THEN elevated[r] ELSE Absent]

GateElevated(t) ==
    /\ pc[t] = "gate" /\ ~frame[t].deferred /\ HasId(t)
    /\ elevated' = RetainAlive(arrived[t])
    /\ elevated'[frame[t].id] # Absent
    /\ Answer(t, "elevated")
    /\ Goto(t, "release")
    /\ UNCHANGED <<up, clock, order, results, uncertain, inFlight, lastAuto, files,
                   frame, arrived, expired, panicking, history, bounds>>

\* Mutant: the memory of refusals is swept and not consulted.
GatePassAny(t) ==
    /\ pc[t] = "gate" /\ ~frame[t].deferred
    /\ IF HasId(t) THEN elevated' = RetainAlive(arrived[t]) ELSE UNCHANGED elevated
    /\ Goto(t, "pipeline")
    /\ UNCHANGED <<up, clock, order, results, uncertain, inFlight, lastAuto, files,
                   frame, arrived, expired, panicking, reply, history, bounds>>

GatePass(t) ==
    /\ pc[t] = "gate" /\ ~frame[t].deferred
    /\ IF HasId(t)
       THEN elevated' = RetainAlive(arrived[t]) /\ elevated'[frame[t].id] = Absent
       ELSE UNCHANGED elevated
    /\ Goto(t, "pipeline")
    /\ UNCHANGED <<up, clock, order, results, uncertain, inFlight, lastAuto, files,
                   frame, arrived, expired, panicking, reply, history, bounds>>

\* The pipeline (one at a time, inject_gate): what it touched and what it reports.
Pipeline(t) ==
    /\ pc[t] = "pipeline"
    /\ \E outcome \in Outcomes :
        LET sent == IF outcome \in Touching /\ HasId(t) THEN {frame[t].id} ELSE {}
        IN  /\ Answer(t, outcome)
            /\ typed' = typed \cup sent
            /\ typedOk' = IF outcome = "ok" THEN typedOk \cup sent ELSE typedOk
            /\ duplicates' = duplicates \cup (sent \cap (typed \ lost))
            /\ lost' = lost \ sent
            /\ autoTyped' =
                 IF outcome \in Touching /\ ~HasId(t) /\ ~frame[t].deliberate
                 THEN autoTyped \cup {[text |-> frame[t].text, at |-> arrived[t]]}
                 ELSE autoTyped
    /\ Goto(t, "record")
    /\ UNCHANGED <<up, clock, table, files, frame, arrived, expired, panicking, unsaved, bounds>>

\* record, for a result other than an uncertain submission.
RecordResult(t) ==
    LET r == frame[t].id
        entry == IF reply[t] = "ok" THEN "fullOk" ELSE "fullFailed"
    IN  /\ pc[t] = "record" /\ HasId(t) /\ reply[t] \in {"ok", "failed"}
        /\ uncertain' = Prune(uncertain, arrived[t])
        /\ order' = InsertOrder(order, r)
        /\ results' = InsertResults(results, order, r, entry)
        /\ lost' = lost \cup Pruned(uncertain, arrived[t]) \cup Evicted(order, r)
        /\ Save(order', results', uncertain')
        /\ Goto(t, "release")
        /\ UNCHANGED <<up, clock, elevated, inFlight, lastAuto, legacy,
                       frame, arrived, expired, panicking, reply, keyboard, bounds>>

RecordUncertain(t) ==
    LET r == frame[t].id
        known == RememberUncertain(uncertain, r, arrived[t])
    IN  /\ pc[t] = "record" /\ HasId(t) /\ reply[t] = "uncertain"
        /\ uncertain' = Prune(known, arrived[t])
        /\ order' = IF r \in Elems(order) THEN Remove(order, r) ELSE order
        /\ results' = [results EXCEPT ![r] = "none"]
        /\ lost' = lost \cup Pruned(known, arrived[t])
        /\ Save(order', results', uncertain')
        /\ Goto(t, "release")
        /\ UNCHANGED <<up, clock, elevated, inFlight, lastAuto, legacy,
                       frame, arrived, expired, panicking, reply, keyboard, bounds>>

\* remember_elevated_refusal, stamped when it is remembered; the oldest go at the cap.
RecordElevated(t) ==
    LET others == {s \in Ids \ {frame[t].id} : Alive(elevated[s], clock)}
    IN  /\ pc[t] = "record" /\ HasId(t) /\ reply[t] = "elevated"
        /\ \E kept \in SUBSET others :
            /\ Cardinality(kept) = Least(Cardinality(others), ElevatedCap - 1)
            /\ \A k \in kept, g \in others \ kept : elevated[g] <= elevated[k]
            /\ elevated' = [s \in Ids |-> IF s = frame[t].id THEN clock
                                          ELSE IF s \in kept THEN elevated[s] ELSE Absent]
        /\ Goto(t, "release")
        /\ UNCHANGED <<up, clock, order, results, uncertain, inFlight, lastAuto, files,
                       frame, arrived, expired, panicking, reply, history, bounds>>

\* Mutant: a deliberate send arms the window as well.
RecordAutoAny(t) ==
    /\ pc[t] = "record" /\ ~HasId(t) /\ reply[t] \in Touching
    /\ lastAuto' = {[text |-> frame[t].text, at |-> arrived[t]]}
    /\ Goto(t, "reply")
    /\ UNCHANGED <<up, clock, order, results, uncertain, elevated, inFlight, files,
                   frame, arrived, expired, panicking, reply, history, bounds>>

\* record without an id: only an automatic frame arms the INJ-1 window.
RecordAuto(t) ==
    /\ pc[t] = "record" /\ ~HasId(t) /\ reply[t] \in Touching /\ ~frame[t].deliberate
    /\ lastAuto' = {[text |-> frame[t].text, at |-> arrived[t]]}
    /\ Goto(t, "reply")
    /\ UNCHANGED <<up, clock, order, results, uncertain, elevated, inFlight, files,
                   frame, arrived, expired, panicking, reply, history, bounds>>

\* Nothing was touched, or nothing can be keyed: the table learns nothing.
RecordNothing(t) ==
    /\ pc[t] = "record"
    /\ \/ reply[t] = "cached"
       \/ ~HasId(t) /\ reply[t] = "elevated"
       \/ ~HasId(t) /\ reply[t] \in Touching /\ frame[t].deliberate
    /\ Goto(t, IF HasId(t) THEN "release" ELSE "reply")
    /\ UNCHANGED <<up, clock, table, files, frame, arrived, expired, panicking, reply,
                   history, bounds>>

\* A panic unwinds through run_inject; no result frame is produced.
Panic(t) ==
    /\ pc[t] \in Running /\ ~panicking[t]
    /\ panicking' = [panicking EXCEPT ![t] = HasId(t)]
    /\ Answer(t, "none")
    /\ Goto(t, IF HasId(t) THEN "release" ELSE "reply")
    /\ UNCHANGED <<up, clock, table, files, frame, arrived, expired, history, bounds>>

\* Mutant: a panic releases the id as if nothing had been sent.
ReleaseForgets(t) ==
    /\ pc[t] = "release"
    /\ inFlight' = inFlight \ {frame[t].id}
    /\ Goto(t, "notify")
    /\ UNCHANGED <<up, clock, order, results, uncertain, elevated, lastAuto, files,
                   frame, arrived, expired, panicking, reply, history, bounds>>

\* Mutant: the quarantine of a panic stays in memory only.
ReleaseUnsaved(t) ==
    /\ pc[t] = "release"
    /\ uncertain' = IF panicking[t] /\ results[frame[t].id] = "none"
                    THEN RememberUncertain(uncertain, frame[t].id, clock) ELSE uncertain
    /\ inFlight' = inFlight \ {frame[t].id}
    /\ Goto(t, "notify")
    /\ UNCHANGED <<up, clock, order, results, elevated, lastAuto, files,
                   frame, arrived, expired, panicking, reply, history, bounds>>

\* InFlightClaim::drop, first half: under the lock.
Release(t) ==
    LET r == frame[t].id
    IN  /\ pc[t] = "release"
        /\ IF panicking[t] /\ results[r] = "none"
           THEN /\ uncertain' = RememberUncertain(uncertain, r, clock)
                /\ Save(order, results, uncertain')
           ELSE UNCHANGED <<uncertain, disk, unsaved>>
        /\ inFlight' = inFlight \ {r}
        /\ Goto(t, "notify")
        /\ UNCHANGED <<up, clock, order, results, elevated, lastAuto, legacy,
                       frame, arrived, expired, panicking, reply, keyboard, lost, bounds>>

\* Mutant: the claim is given back and nobody is told.
NotifyNobody(t) ==
    /\ pc[t] = "notify"
    /\ Goto(t, "reply")
    /\ UNCHANGED <<up, clock, table, files, frame, arrived, expired, panicking, reply,
                   history, bounds>>

\* InFlightClaim::drop, second half: notify_all after the lock is let go.
Notify(t) ==
    /\ pc[t] = "notify"
    /\ pc' = [u \in Threads |-> IF u = t THEN "reply"
                                ELSE IF pc[u] = "waiting" THEN "classify" ELSE pc[u]]
    /\ UNCHANGED <<up, clock, table, files, frame, arrived, expired, panicking, reply,
                   history, bounds>>

\* run_inject returns and the result frame, if any, leaves.
Return(t) ==
    /\ pc[t] = "reply"
    /\ Goto(t, "idle")
    /\ expired' = [expired EXCEPT ![t] = FALSE]
    /\ panicking' = [panicking EXCEPT ![t] = FALSE]
    /\ Answer(t, "none")
    /\ frame' = [frame EXCEPT ![t] = AnyFrame]
    /\ arrived' = [arrived EXCEPT ![t] = 0]
    /\ UNCHANGED <<up, clock, table, files, history, bounds>>

-----------------------------------------------------------------------------
Init ==
    /\ up = FALSE
    /\ clock = 0
    /\ order = <<>>
    /\ results = [r \in Ids |-> "none"]
    /\ uncertain = [r \in Ids |-> Absent]
    /\ elevated = [r \in Ids |-> Absent]
    /\ inFlight = {}
    /\ lastAuto = {}
    /\ disk = EmptyLedger
    /\ legacy \in LegacyLedgers
    /\ pc = [t \in Threads |-> "idle"]
    /\ frame = [t \in Threads |-> AnyFrame]
    /\ arrived = [t \in Threads |-> 0]
    /\ expired = [t \in Threads |-> FALSE]
    /\ panicking = [t \in Threads |-> FALSE]
    /\ reply = [t \in Threads |-> "none"]
    /\ arrivals = 0 /\ crashes = 0
    /\ typed = Elems(legacy)
    /\ typedOk = Elems(legacy)
    /\ lost = {} /\ duplicates = {} /\ autoTyped = {} /\ unsaved = FALSE

Classify(t) ==
    \/ ClassifyUncertain(t) \/ ClassifyHit(t)
    \/ ClassifyClaim(t) \/ ClassifyWait(t) \/ ClassifyStillRunning(t)
    \/ ClassifySuppress(t) \/ ClassifyUnclaimed(t)

Record(t) ==
    \/ RecordResult(t) \/ RecordUncertain(t) \/ RecordElevated(t)
    \/ RecordAuto(t) \/ RecordNothing(t)

\* What the scheduler owes a running call, and what else moves it: the pipeline
\* returning and the condition variable timing out.
Scheduled(t) ==
    \/ Classify(t) \/ GateDeferred(t) \/ GateElevated(t) \/ GatePass(t)
    \/ Record(t) \/ Release(t) \/ Notify(t) \/ Return(t)

Proceed(t) == Scheduled(t) \/ Pipeline(t) \/ BudgetExpires(t)

Next ==
    \/ Load \/ Crash \/ Tick
    \/ \E t \in Threads : Arrive(t) \/ SpuriousWake(t) \/ Panic(t) \/ Proceed(t)

Spec == Init /\ [][Next]_vars

\* The process boots and its threads are scheduled.
ThreadsRun == WF_vars(Load) /\ \A t \in Threads : WF_vars(Scheduled(t))

\* Every pipeline returns (each wait in it has a deadline); the timer owes nothing.
PipelineReturns == \A t \in Threads : WF_vars(Pipeline(t))

\* The condition variable's timeout fires; a pipeline may hang.
TimerFires == \A t \in Threads : WF_vars(BudgetExpires(t))

LiveSpec == Spec /\ ThreadsRun
-----------------------------------------------------------------------------
(* Properties.                                                             *)

\* Every variable holds a value of its type.
TypeOK ==
    /\ up \in BOOLEAN /\ clock \in Nat
    /\ order \in Orders
    /\ results \in [Ids -> Entries]
    /\ uncertain \in [Ids -> Stamps] /\ elevated \in [Ids -> Stamps]
    /\ inFlight \subseteq Ids
    /\ lastAuto \subseteq [text : Texts, at : Nat]
    /\ disk \in [order : Orders, typed : SUBSET Ids, uncertain : [Ids -> Stamps]]
    /\ legacy \in Orders
    /\ pc \in [Threads -> Stages] /\ frame \in [Threads -> Frames]
    /\ arrived \in [Threads -> Nat]
    /\ expired \in [Threads -> BOOLEAN] /\ panicking \in [Threads -> BOOLEAN]
    /\ reply \in [Threads -> Replies]
    /\ arrivals \in Nat /\ crashes \in Nat
    /\ typed \subseteq Ids /\ typedOk \subseteq Ids /\ lost \subseteq Ids
    /\ duplicates \subseteq Ids
    /\ autoTyped \subseteq [text : Texts, at : Nat]
    /\ unsaved \in BOOLEAN

\* NR-287: one delivery never runs the pipeline twice at once, however many channels
\* present it.
OneRunPerId ==
    \A t, u \in Threads :
        /\ pc[t] \in Running /\ pc[u] \in Running
        /\ HasId(t) /\ frame[t].id = frame[u].id
        => t = u

\* INJ-3: no copy of a delivery is typed a second time, on either channel, before or
\* after a restart, unless the table lost the first one in a way its code names (LRU
\* eviction, end of quarantine, a ledger write that failed or never happened, an
\* outcome the ledger leaves out by design, a ledger that cannot be read).
NeverTypedTwice == duplicates = {}

\* Whoever sleeps on the claim is woken: the id is still running, or its runner is
\* about to notify.
NoLostWakeup ==
    \A t \in Threads :
        pc[t] = "waiting" =>
            \/ frame[t].id \in inFlight
            \/ \E u \in Threads : pc[u] = "notify"

\* RV-83: the file holds exactly what the table would answer as typed or uncertain,
\* unless the last write failed or the boot could not read it.
LedgerMatchesMemory ==
    up /\ ~unsaved =>
        /\ disk.typed = {r \in Ids : results[r] \in TypedEntries}
        /\ disk.uncertain = uncertain

\* A frame is answered ok:true only when its delivery really was typed with success,
\* in this life or the one the ledger remembers.
OkIsTrue ==
    \A t \in Threads :
        pc[t] = "reply" /\ HasId(t) /\ reply[t] = "ok" => frame[t].id \in typedOk

\* "Not injected" (deferred, elevated, cached) is never decided for a delivery that was
\* typed and not lost: the phone's row does not go backwards.
NotInjectedIsTrue ==
    \A t \in Threads :
        /\ pc[t] = "release" /\ ~panicking[t]
        /\ reply[t] \in {"deferred", "elevated", "cached"}
        => frame[t].id \notin typed \ lost

\* INJ-1: a frame is discarded in silence only when it is automatic and the same text
\* was typed for another automatic frame within the window; a deliberate send neither
\* is nor causes a discarded frame.
SuppressedIsRepeat ==
    \A t \in Threads :
        pc[t] = "reply" /\ reply[t] = "suppressed" =>
            /\ ~frame[t].deliberate
            /\ \E a \in autoTyped :
                   a.text = frame[t].text /\ arrived[t] - a.at <= Inj1Window

\* NR-267-A: while a refusal is remembered, no copy of that delivery, of whichever
\* thread, reaches the keyboard.
ElevatedRefusalHolds ==
    \A t \in Threads :
        pc[t] = "pipeline" /\ HasId(t) => ~Alive(elevated[frame[t].id], arrived[t])

\* The quarantine of an uncertain submission runs from its first report: neither a
\* replay nor the panic path of the claim refreshes it.
QuarantineNotRefreshed ==
    [][\A r \in Ids : uncertain[r] # Absent /\ uncertain'[r] # Absent
                        => uncertain'[r] = uncertain[r]]_vars

\* G-13: the retired ledger is deleted only when the live file on disk holds its
\* deliveries, or as many as the LRU keeps.
RetiredOnlyWhenAbsorbed ==
    [][legacy # <<>> /\ legacy' = <<>>
        => \/ Elems(legacy) \subseteq disk'.typed
           \/ Cardinality(disk'.typed) = LruCap]_vars

\* When every pipeline returns, every call of run_inject does: a waiting frame is woken
\* by the claim's Drop alone, whatever the outcome of the run it waits for.
CallReturns ==
    PipelineReturns => \A t \in Threads : pc[t] # "idle" ~> pc[t] = "idle"

\* When a pipeline hangs, the frames that wait for it still leave, by their budget: they
\* do not hold the poll thread of the other channel.
WaitEnds ==
    TimerFires =>
        \A t \in Threads : pc[t] = "waiting" ~> pc[t] \notin {"waiting", "classify"}
=============================================================================
