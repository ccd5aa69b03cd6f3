-------------------------- MODULE DeliveryOutbox --------------------------
(***************************************************************************)
(* The phone's delivery queue: apps/mobile/lib/src/session, DeliveryOutbox *)
(* and its parts (enqueue, attempt, settle, retry, degraded), with the     *)
(* SqfliteOutboxStore under it and the link edge that drains it.           *)
(*                                                                         *)
(* Dart runs one event at a time; every await ends an event.  So an action *)
(* is one event: the continuation of an await, up to the next await.  The  *)
(* database is the only thing most continuations wait for.  It answers     *)
(* commands in the order they are handed to it (db); the store hands it    *)
(* one write at a time and keeps the others back (waiting), but hands over *)
(* reads at once.  A command carries what its continuation still needs,    *)
(* and `then` names both the command and that continuation.                *)
(*                                                                         *)
(* Items are numbered in the order they are enqueued; each covers one row  *)
(* of the timeline, so an item stands for its request_id and its entry id. *)
(* The item's bytes, and the images' path that reads them, are left out.   *)
(***************************************************************************)
EXTENDS Integers, Sequences, FiniteSets

CONSTANTS
    Items,          \* deliveries, oldest first
    Capacity,       \* kOutboxCapacity
    TransientCap,   \* kTransientVerdictAttemptCap
    Verdicts,       \* what the computer or the relay may answer
    Routes,         \* how a delivery first leaves: beside the queue, or by a drain
    WritesMayFail, ReadsMayFail,   \* may a database command throw?
    MayHold,        \* may the phone be connected to another machine?
    MayAge,         \* may an item outlive the live window?
    Prompt,         \* is the database always done before a timer of seconds fires?
    MaxJobs,        \* bound: no answer is taken while this many commands are under way
    MaxFrames,      \* bound: frames of one item whose answer may still come
    MaxCrashes      \* bound on restarts

States == {"absent", "queued", "inflight", "delivered", "refused"}
Item == [state : States, attempts : 0..TransientCap, promised : BOOLEAN]
Absent == [state |-> "absent", attempts |-> 0, promised |-> FALSE]

\* ok; a verdict of the injection pipeline, standing or transient; a terminal refusal;
\* INJECT_PC_OFFLINE; a refusal to retry, and one that names the wait.
AllVerdicts == {"ok", "landed", "transient", "terminal", "offline", "busy", "later"}

ASSUME ItemsAssumption == IsFiniteSet(Items) /\ Items \subseteq Nat \ {0}
ASSUME OutboxAssumption ==
    /\ Capacity \in Nat \ {0} /\ TransientCap \in Nat \ {0}
    /\ Verdicts \subseteq AllVerdicts /\ Routes \subseteq {"live", "press"}
    /\ {WritesMayFail, ReadsMayFail, MayHold, MayAge, Prompt} \subseteq BOOLEAN
    /\ {MaxJobs, MaxFrames, MaxCrashes} \subseteq Nat

Nobody == 0                          \* the command is about no single item
NoCopies == [i \in Items |-> Absent]

Writes == {"enqueue", "overflow", "flip", "hold", "unsent", "settle", "requeue", "revive"}
Finds == {"find_attempt", "find_answer", "find_watchdog"}
Loads == {"capacity", "admitted", "boot", "booted", "list", "pass_end", "refresh"}
Steps == {"list", "find_attempt", "hold", "flip", "unsent", "pass_end"}     \* of a drain
Origins == {"press", "auto", "deferred"}
Notes == AllVerdicts \cup Routes \cup Origins \cup {"none"}

Job == [then : Writes \cup Finds \cup Loads, id : Items \cup {Nobody}, item : Item,
        for : Items \cup {Nobody}, note : Notes, rest : [Items -> Item]]

VARIABLES
    up,          \* the app's process runs
    store,       \* the table outbox_items
    shadow,      \* _unpersisted
    db,          \* commands handed to the database, not yet answered
    waiting,     \* writes queued behind the one in db
    pass,        \* the drain: [stage, todo, users, only]
    presses,     \* _pendingUserRequestedIds
    watchdogs,   \* items with an armed watchdog
    retries,     \* items with an armed no-answer retry (_retryTimers)
    holdOut,     \* items under a hold-out
    known, owed, \* _loadedOnce, and whether the derived view counts anything
    link,        \* _retryLinkUp says no, says yes before the link's edge, or since
    old,         \* items past the live window
    born,        \* items enqueued so far
    air,         \* per item: frames that left and were not answered
    crashes

\* History, read by no action.
VARIABLES
    reached,     \* items a frame of which has left the phone
    unstored     \* items whose first write failed

disk == <<store, shadow>>
queue == <<db, waiting>>
drain == <<pass, presses>>
clocks == <<watchdogs, retries, holdOut>>
view == <<known, owed>>
outside == <<link, old, born, air>>
history == <<reached, unstored>>
vars == <<up, disk, queue, drain, clocks, view, outside, crashes, history>>

-----------------------------------------------------------------------------
(* Items, and how they are read.                                           *)

Current(i) == IF shadow[i].state # "absent" THEN shadow[i] ELSE store[i]
Terminal(item) == item.state \in {"delivered", "refused"}
Pending(item) == item.state \in {"queued", "inflight"}

\* Mutant: the shadow is forgotten.
MergedDiskOnly(readable) ==
    [i \in Items |-> IF readable /\ Pending(store[i]) THEN store[i] ELSE Absent]

\* loadPending, the shadow merged over it; a read that throws leaves the shadow alone.
Merged(readable) ==
    [i \in Items |->
        LET item == IF shadow[i].state # "absent" THEN shadow[i]
                    ELSE IF readable THEN store[i] ELSE Absent
        IN  IF Pending(item) THEN item ELSE Absent]

In(copies) == {i \in Items : copies[i].state # "absent"}
Oldest(set) == CHOOSE i \in set : \A j \in set : i <= j
Saturated(n) == IF n < TransientCap THEN n ELSE TransientCap

\* outboxInjectOrigin.
Origin(i, item, users) ==
    IF i \in users THEN "press"
    ELSE IF item.promised \/ i \in old THEN "deferred" ELSE "auto"

\* outboxSettle: what a verdict makes of an item.
EarnsAnotherAttempt(i, item) == Origin(i, item, {}) = "auto" /\ item.attempts < TransientCap

\* Mutants: the verdict itself becomes the state; a refusal leaves the item in flight.
SettledVerbatim(i, item, verdict) == [item EXCEPT !.state = verdict]
SettledInPlace(i, item, verdict) ==
    [item EXCEPT !.state = IF verdict \in {"ok", "landed"} THEN "delivered" ELSE @]

Settled(i, item, verdict) ==
    LET state ==
          CASE verdict \in {"ok", "landed"} -> "delivered"
            [] verdict = "transient" ->
                 IF EarnsAnotherAttempt(i, item) THEN "queued" ELSE "delivered"
            [] verdict = "terminal" -> "refused"
            [] OTHER -> "queued"
    IN  [item EXCEPT !.state = state, !.promised = @ \/ verdict = "offline"]

-----------------------------------------------------------------------------
(* The database.  Events that are not replies happen while it is Calm: a   *)
(* read the shadow answers does not wait for it.                           *)

IsWrite(job) == job.then \in Writes
FromShadow(job) == job.then \in Finds /\ job.item.state # "absent"
Calm == up /\ (db # <<>> => ~FromShadow(Head(db)))
Idle == db = <<>> /\ waiting = <<>>

Command(then, i, item, for, note, rest) ==
    [then |-> then, id |-> i, item |-> item, for |-> for, note |-> note, rest |-> rest]
Load(then, for, note) == Command(then, Nobody, Absent, for, note, NoCopies)
Find(then, i, note) == Command(then, i, shadow[i], Nobody, note, NoCopies)
Write(then, i, item, note) == Command(then, i, item, Nobody, note, NoCopies)

\* What is left once the head of db has been answered: a write lets the next one in.
LetsIn == IsWrite(Head(db)) /\ waiting # <<>>
Left == IF LetsIn THEN Append(Tail(db), Head(waiting)) ELSE Tail(db)
Kept == IF LetsIn THEN Tail(waiting) ELSE waiting

Hand(d, w, job) ==
    IF FromShadow(job) THEN db' = <<job>> \o d /\ waiting' = w
    ELSE IF IsWrite(job) /\ \E k \in 1..Len(d) : IsWrite(d[k])
         THEN db' = d /\ waiting' = Append(w, job)
         ELSE db' = Append(d, job) /\ waiting' = w

Begin(job) == Hand(db, waiting, job)       \* from an event that is not a reply
Follow(job) == Hand(Left, Kept, job)       \* from the reply to the head of db
Finish == db' = Left /\ waiting' = Kept

\* The reply to the command `then` at the head of db.
Reply(then) == up /\ db # <<>> /\ Head(db).then = then

\* A write: on disk, or parked in the shadow.
Written ==
    LET job == Head(db)
    IN  \/ /\ store' = [store EXCEPT ![job.id] = job.item]
           /\ shadow' = [shadow EXCEPT ![job.id] = Absent]
        \/ /\ WritesMayFail
           /\ store' = store
           /\ shadow' = [shadow EXCEPT ![job.id] = job.item]

\* A read throws or does not.
Readable == IF ReadsMayFail THEN BOOLEAN ELSE {TRUE}

\* findByRequestId: the shadow's copy as it was when asked, else the row.
Found(readable) ==
    LET job == Head(db)
    IN  IF job.item.state # "absent" THEN job.item
        ELSE IF readable THEN store[job.id] ELSE Absent

\* _refreshDerived.
Refresh == \E readable \in Readable : owed' = (In(Merged(readable)) # {})

-----------------------------------------------------------------------------
(* drain: one pass at a time.                                              *)

NoPass == [stage |-> "idle", todo |-> {}, users |-> {}, only |-> Nobody]
PassOver(users, only) == [stage |-> "busy", todo |-> {}, users |-> users, only |-> only]
Draining == pass.stage # "idle"

\* _drainGuarded: a drain that finds one running leaves its presses behind.
Drain(d, w, users, only) ==
    IF Draining
    THEN presses' = presses \cup users /\ pass' = pass /\ db' = d /\ waiting' = w
    ELSE /\ presses' = presses /\ pass' = PassOver(users, only)
         /\ Hand(d, w, Load("list", Nobody, "none"))

\* Mutant: no pass of their own.
EndPassForgets(d, w) == pass' = NoPass /\ presses' = presses /\ db' = d /\ waiting' = w

\* The pass is over; presses that arrived meanwhile get one of their own.
EndPass(d, w) ==
    IF presses = {}
    THEN pass' = NoPass /\ presses' = {} /\ db' = d /\ waiting' = w
    ELSE /\ pass' = PassOver(presses, Nobody) /\ presses' = {}
         /\ Hand(d, w, Load("list", Nobody, "none"))

\* The next item of the list, or the refresh that ends the pass.
Loop(d, w) ==
    /\ presses' = presses
    /\ IF pass.todo = {}
       THEN /\ pass' = [pass EXCEPT !.stage = "busy"]
            /\ Hand(d, w, Load("pass_end", Nobody, "none"))
       ELSE LET i == Oldest(pass.todo)
            IN  /\ pass' = [pass EXCEPT !.stage = "busy", !.todo = @ \ {i}]
                /\ Hand(d, w, Find("find_attempt", i, "none"))

\* _drainOnePass: what the list leaves to attempt.
Listed ==
    /\ Reply("list")
    /\ \E readable \in Readable :
        LET copies == Merged(readable)
            todo == {i \in In(copies) :
                       /\ copies[i].state = "queued"
                       /\ pass.only \in {Nobody, i}
                       /\ i \in holdOut => i \in pass.users}
        IN  IF todo = {} THEN EndPass(Left, Kept)
            ELSE /\ pass' = [pass EXCEPT !.stage = "linking", !.todo = todo]
                 /\ presses' = presses /\ Finish
    /\ UNCHANGED <<up, disk, clocks, view, outside, crashes, history>>

\* ensureLink: an acknowledged round trip to the server, recovering the link if need be.
\* It may succeed while the computer is away, and give up on a slow one.
LinkProved ==
    /\ Calm /\ pass.stage = "linking"
    /\ Loop(db, waiting)
    /\ UNCHANGED <<up, disk, clocks, view, outside, crashes, history>>

LinkNotProved ==
    /\ Calm /\ pass.stage = "linking"
    /\ EndPass(db, waiting)
    /\ UNCHANGED <<up, disk, clocks, view, outside, crashes, history>>

PassEnded ==
    /\ Reply("pass_end")
    /\ Refresh
    /\ EndPass(Left, Kept)
    /\ UNCHANGED <<up, disk, clocks, known, outside, crashes, history>>

-----------------------------------------------------------------------------
(* _attempt: one item of the list.                                         *)

Flip(i, item, origin) ==
    [Write("flip", i,
           [item EXCEPT !.state = "inflight", !.attempts = Saturated(@ + 1),
                        !.promised = @ /\ origin # "press"], origin)
     EXCEPT !.rest[i] = item]

\* Mutant: an item that moved meanwhile ends the loop.
AttemptStops ==
    /\ Reply("find_attempt")
    /\ \E readable \in Readable :
        LET i == Head(db).id
            item == Found(readable)
        IN  IF item.state # "queued" THEN Finish
            ELSE Follow(Flip(i, item, Origin(i, item, pass.users)))
    /\ UNCHANGED <<up, disk, drain, clocks, view, outside, crashes, history>>

\* The item read again: it must still be queued, and its address must agree.
Attempt ==
    LET i == Head(db).id
    IN  /\ Reply("find_attempt")
        /\ \E readable \in Readable :
            LET item == Found(readable)
            IN  IF item.state # "queued" THEN Loop(Left, Kept)
                ELSE /\ \/ Follow(Flip(i, item, Origin(i, item, pass.users)))
                        \/ MayHold /\ Follow(Write("hold", i, item, "none"))
                     /\ UNCHANGED drain
        /\ UNCHANGED <<up, disk, clocks, view, outside, crashes, history>>

\* The hold note is written, or the requeue of a frame that did not leave.
NotSent ==
    /\ Reply("hold") \/ Reply("unsent")
    /\ Written
    /\ Loop(Left, Kept)
    /\ UNCHANGED <<up, clocks, view, outside, crashes, history>>

\* A frame leaves; of those beyond the bound no answer will come.
Emitted(i) ==
    /\ air' = [air EXCEPT ![i] = IF @ < MaxFrames THEN @ + 1 ELSE @]
    /\ reached' = reached \cup {i}

\* The item is in flight on disk: its frame leaves, and its watchdog is armed.
Sent ==
    LET i == Head(db).id
    IN  /\ Reply("flip")
        /\ Written
        /\ retries' = retries \ {i}
        /\ watchdogs' = watchdogs \cup {i}
        /\ Loop(Left, Kept)
        /\ Emitted(i)
        /\ UNCHANGED <<up, holdOut, view, link, old, born, crashes, unstored>>

\* The socket refuses the frame: back to queued, with the promise it had.
WireFailed ==
    LET job == Head(db)
    IN  /\ Reply("flip") /\ link = "down"
        /\ Written
        /\ retries' = retries \ {job.id}
        /\ Follow(Write("unsent", job.id,
                        [job.item EXCEPT !.state = "queued",
                                         !.promised = job.rest[job.id].promised], "none"))
        /\ UNCHANGED <<up, drain, watchdogs, holdOut, view, outside, crashes,
                       reached, unstored>>

-----------------------------------------------------------------------------
(* _admit: an item enters, and the oldest leave when there are too many.   *)

\* Mutant: the frame beside the queue leaves first.
EnqueueAfter(i, route) ==
    /\ Calm
    /\ i \notin born /\ \A j \in Items : j < i => j \in born
    /\ born' = born \cup {i}
    /\ Begin(Write("enqueue", i, [Absent EXCEPT !.state = "queued"], route))
    /\ reached' = IF route = "live" THEN reached \cup {i} ELSE reached
    /\ UNCHANGED <<up, disk, drain, clocks, view, link, old, air, crashes,
                   unstored>>

Enqueue(i, route) ==
    /\ Calm
    /\ i \notin born /\ \A j \in Items : j < i => j \in born
    /\ born' = born \cup {i}
    /\ Begin(Write("enqueue", i, [Absent EXCEPT !.state = "queued"], route))
    /\ UNCHANGED <<up, disk, drain, clocks, view, link, old, air, crashes, history>>

Enqueued ==
    LET job == Head(db)
    IN  /\ Reply("enqueue")
        /\ Written
        /\ unstored' = IF store' = store THEN unstored \cup {job.id} ELSE unstored
        /\ Follow(Load("capacity", job.id, job.note))
        /\ UNCHANGED <<up, drain, clocks, view, outside, crashes, reached>>

\* The next victim is refused; when there is none, the first-attempt guard is armed.
Trim(victims, i, route) ==
    IF In(victims) = {}
    THEN /\ retries' = retries \cup {i}
         /\ Follow(Load("admitted", i, route))
    ELSE LET v == Oldest(In(victims))
         IN  /\ retries' = retries \ {v}
             /\ Follow(Command("overflow", v, [victims[v] EXCEPT !.state = "refused"], i, route,
                               [victims EXCEPT ![v] = Absent]))

Overflowing(copies) ==
    LET Younger(i) == {j \in In(copies) : j > i}
    IN  [i \in Items |-> IF Cardinality(Younger(i)) >= Capacity THEN copies[i] ELSE Absent]

EnforceCapacity ==
    /\ Reply("capacity")
    /\ \E readable \in Readable :
           Trim(Overflowing(Merged(readable)), Head(db).for, Head(db).note)
    /\ UNCHANGED <<up, disk, drain, watchdogs, holdOut, view, outside, crashes, history>>

Overflowed ==
    /\ Reply("overflow")
    /\ Written
    /\ Trim(Head(db).rest, Head(db).for, Head(db).note)
    /\ UNCHANGED <<up, drain, watchdogs, holdOut, view, outside, crashes, history>>

\* enqueueText returns: the caller drains for its row, or sends a frame beside the queue.
AdmittedPress ==
    LET i == Head(db).for
    IN  /\ Reply("admitted") /\ Head(db).note = "press"
        /\ Refresh
        /\ Drain(Left, Kept, {i}, Nobody)
        /\ UNCHANGED <<up, disk, clocks, known, outside, crashes, history>>

AdmittedLive ==
    LET i == Head(db).for
    IN  /\ Reply("admitted") /\ Head(db).note = "live"
        /\ Refresh
        /\ \/ Emitted(i)
           \/ link = "down" /\ UNCHANGED <<air, reached>>
        /\ Finish
        /\ UNCHANGED <<up, disk, drain, clocks, known, link, old, born, crashes,
                       unstored>>

-----------------------------------------------------------------------------
(* outboxSettle: an answer.                                                *)

Answer(i, verdict) ==
    /\ Calm /\ air[i] > 0 /\ Len(db) + Len(waiting) < MaxJobs
    /\ air' = [air EXCEPT ![i] = @ - 1]
    /\ Begin(Find("find_answer", i, verdict))
    /\ UNCHANGED <<up, disk, drain, clocks, view, link, old, born, crashes, history>>

\* An answered item is answered; any other takes the verdict.
Settle ==
    LET i == Head(db).id
        verdict == Head(db).note
    IN  /\ Reply("find_answer")
        /\ \E readable \in Readable :
            LET item == Found(readable)
            IN  IF ~Pending(item) THEN Finish /\ UNCHANGED <<watchdogs, retries>>
                ELSE /\ watchdogs' = watchdogs \ {i}
                     /\ retries' = retries \ {i}
                     /\ Follow(Write("settle", i, Settled(i, item, verdict), verdict))
        /\ UNCHANGED <<up, disk, drain, holdOut, view, outside, crashes,
                       reached, unstored>>

SettledOnDisk ==
    LET job == Head(db)
    IN  /\ Reply("settle")
        /\ Written
        /\ holdOut' = IF job.note = "later" THEN holdOut \cup {job.id} ELSE holdOut
        /\ Follow(Load("refresh", job.id, job.note))
        /\ UNCHANGED <<up, drain, watchdogs, retries, view, outside, crashes, history>>

\* The refresh that ends a settle or a watchdog; then the row of an INJECT_PC_OFFLINE
\* item says that the computer will not type it by itself.
Refreshed ==
    LET job == Head(db)
    IN  /\ Reply("refresh")
        /\ Refresh
        /\ Finish
        /\ UNCHANGED <<up, disk, drain, clocks, known, outside, crashes,
                       reached, unstored>>

-----------------------------------------------------------------------------
(* The timers.  How long they run is left out: an armed one may fire.      *)

Ripe == Calm /\ (Prompt => Idle)

WatchdogFires(i) ==
    /\ Ripe /\ i \in watchdogs
    /\ watchdogs' = watchdogs \ {i}
    /\ Begin(Find("find_watchdog", i, "none"))
    /\ UNCHANGED <<up, disk, drain, retries, holdOut, view, outside, crashes, history>>

NoResult ==
    LET i == Head(db).id
    IN  /\ Reply("find_watchdog")
        /\ \E readable \in Readable :
            LET item == Found(readable)
            IN  IF item.state # "inflight" THEN Finish
                ELSE Follow(Write("requeue", i, [item EXCEPT !.state = "queued"], "none"))
        /\ UNCHANGED <<up, disk, drain, clocks, view, outside, crashes, history>>

\* outboxArmNoAnswerRetry, once the item is queued again.
Requeued ==
    LET i == Head(db).id
    IN  /\ Reply("requeue")
        /\ Written
        /\ retries' = retries \cup {i}
        /\ Follow(Load("refresh", i, "none"))
        /\ UNCHANGED <<up, drain, watchdogs, holdOut, view, outside, crashes, history>>

\* outboxOnNoAnswerRetryDue: the next edge owns an item whose retry is due without a
\* link; while a pass runs the retry is only put off.
RetryDropped(i) ==
    /\ Ripe /\ i \in retries /\ link = "down"
    /\ retries' = retries \ {i}
    /\ UNCHANGED <<up, disk, queue, drain, watchdogs, holdOut, view, outside, crashes,
                   reached, unstored>>

RetryDrains(i) ==
    /\ Ripe /\ i \in retries /\ link # "down" /\ ~Draining
    /\ retries' = retries \ {i}
    /\ Drain(db, waiting, {}, i)
    /\ UNCHANGED <<up, disk, watchdogs, holdOut, view, outside, crashes, history>>

HoldOutEnds(i) ==
    /\ up /\ i \in holdOut
    /\ holdOut' = holdOut \ {i}
    /\ UNCHANGED <<up, disk, queue, drain, watchdogs, retries, view, outside, crashes, history>>

\* kLiveDeliveryWindow, of a minute, is over for an item.
Ages(i) ==
    /\ MayAge /\ Idle /\ i \in born \ old
    /\ old' = old \cup {i}
    /\ UNCHANGED <<up, disk, queue, drain, clocks, view, link, born, air, crashes, history>>

-----------------------------------------------------------------------------
(* The user, the link, and the process.                                    *)

\* Resend on a row the queue still owes.
Press(i) ==
    /\ Calm /\ Pending(Current(i))
    /\ Drain(db, waiting, {i}, Nobody)
    /\ UNCHANGED <<up, disk, clocks, view, outside, crashes, reached, unstored>>

LinkLost ==
    /\ link # "down" /\ link' = "down"
    /\ UNCHANGED <<up, disk, queue, drain, clocks, view, old, born, air, crashes, history>>

\* The socket is connected, and nothing yet says that the computer is away.
LinkRises ==
    /\ link = "down" /\ link' = "rising"
    /\ UNCHANGED <<up, disk, queue, drain, clocks, view, old, born, air, crashes, history>>

\* The two rising edges: the phone joined the room (the computer may be away), or the
\* computer came back.  onDeliveryLinkUpRouted drains unless nothing is owed.
LinkEdge ==
    /\ Calm
    /\ link' \in {"up"} \cup (IF link = "down" THEN {"down"} ELSE {})
    /\ IF ~known \/ owed THEN Drain(db, waiting, {}, Nobody) ELSE UNCHANGED <<queue, drain>>
    /\ UNCHANGED <<up, disk, clocks, view, old, born, air, crashes, history>>

\* The process dies; the write the database was given may or may not have happened.
Crash ==
    /\ up /\ crashes < MaxCrashes
    /\ crashes' = crashes + 1
    /\ up' = FALSE
    /\ \/ store' = store
       \/ \E k \in 1..Len(db) :
              IsWrite(db[k]) /\ store' = [store EXCEPT ![db[k].id] = db[k].item]
    /\ shadow' = NoCopies
    /\ db' = <<>> /\ waiting' = <<>>
    /\ pass' = NoPass /\ presses' = {}
    /\ watchdogs' = {} /\ retries' = {} /\ holdOut' = {}
    /\ known' = FALSE /\ owed' = FALSE
    /\ link' = "down"
    /\ UNCHANGED <<old, born, air, reached, unstored>>

\* load, unawaited by whoever starts the app.
Boot ==
    /\ ~up /\ up' = TRUE
    /\ Begin(Load("boot", Nobody, "none"))
    /\ UNCHANGED <<disk, drain, clocks, view, outside, crashes, history>>

\* An item found in flight belongs to a life that is over: it is queued again.
Revive(copies) ==
    IF In(copies) = {} THEN Follow(Load("booted", Nobody, "none"))
    ELSE LET i == Oldest(In(copies))
         IN  Follow(Command("revive", i, [copies[i] EXCEPT !.state = "queued"], Nobody, "none",
                            [copies EXCEPT ![i] = Absent]))

\* Mutant: items in flight are left so.
BootForgets ==
    /\ Reply("boot")
    /\ Follow(Load("booted", Nobody, "none"))
    /\ UNCHANGED <<up, disk, drain, clocks, view, outside, crashes, history>>

BootLoaded ==
    /\ Reply("boot")
    /\ \E readable \in Readable :
        LET copies == Merged(readable)
        IN  Revive([i \in Items |-> IF copies[i].state = "inflight" THEN copies[i] ELSE Absent])
    /\ UNCHANGED <<up, disk, drain, clocks, view, outside, crashes, history>>

Revived ==
    /\ Reply("revive")
    /\ Written
    /\ Revive(Head(db).rest)
    /\ UNCHANGED <<up, drain, clocks, view, outside, crashes, history>>

Booted ==
    /\ Reply("booted")
    /\ Refresh
    /\ known' = TRUE
    /\ Finish
    /\ UNCHANGED <<up, disk, drain, clocks, outside, crashes, history>>

-----------------------------------------------------------------------------
Init ==
    /\ up = FALSE
    /\ store = NoCopies /\ shadow = NoCopies
    /\ db = <<>> /\ waiting = <<>>
    /\ pass = NoPass /\ presses = {}
    /\ watchdogs = {} /\ retries = {} /\ holdOut = {}
    /\ known = FALSE /\ owed = FALSE
    /\ link = "down" /\ old = {} /\ born = {} /\ air = [i \in Items |-> 0]
    /\ crashes = 0
    /\ reached = {} /\ unstored = {}

\* The reply to whatever heads db.
Replies ==
    \/ Listed \/ PassEnded \/ Attempt \/ NotSent \/ Sent \/ WireFailed
    \/ Enqueued \/ EnforceCapacity \/ Overflowed \/ AdmittedPress \/ AdmittedLive
    \/ Settle \/ SettledOnDisk \/ Refreshed \/ NoResult \/ Requeued
    \/ BootLoaded \/ Revived \/ Booted

Probed == LinkProved \/ LinkNotProved
Timers(i) == WatchdogFires(i) \/ RetryDropped(i) \/ RetryDrains(i) \/ HoldOutEnds(i)

Next ==
    \/ Replies \/ Probed \/ LinkLost \/ LinkRises \/ LinkEdge \/ Crash \/ Boot
    \/ \E i \in Items :
        \/ Timers(i) \/ Ages(i) \/ Press(i)
        \/ \E route \in Routes : Enqueue(i, route)
        \/ \E verdict \in Verdicts : Answer(i, verdict)

Spec == Init /\ [][Next]_vars

\* Commands are answered, the app is opened again, and an event that waits for the
\* isolate (a timer that is due, the answer to a probe) gets its turn.
PhoneRuns ==
    /\ WF_vars(Replies) /\ SF_vars(Probed) /\ WF_vars(Boot)
    /\ \A i \in Items :
        /\ SF_vars(WatchdogFires(i)) /\ SF_vars(RetryDrains(i)) /\ WF_vars(HoldOutEnds(i))

\* The link comes back now and then while the queue is at rest, not every probe fails,
\* and the computer answers what reached it.
OthersAnswer ==
    /\ SF_vars(LinkEdge /\ Idle /\ ~Draining) /\ SF_vars(LinkProved)
    /\ \A i \in Items : SF_vars(Answer(i, "ok"))

LiveSpec == Spec /\ PhoneRuns
-----------------------------------------------------------------------------
(* Properties.                                                             *)

\* Every variable holds a value of its type.
TypeOK ==
    /\ {up, known, owed} \subseteq BOOLEAN /\ link \in {"down", "rising", "up"}
    /\ store \in [Items -> Item] /\ shadow \in [Items -> Item]
    /\ db \in Seq(Job) /\ waiting \in Seq(Job)
    /\ pass \in [stage : {"idle", "busy", "linking"}, todo : SUBSET Items,
                 users : SUBSET Items, only : Items \cup {Nobody}]
    /\ presses \subseteq Items
    /\ {watchdogs, retries, holdOut, old, born} \subseteq SUBSET Items
    /\ air \in [Items -> 0..MaxFrames] /\ crashes \in 0..MaxCrashes
    /\ {reached, unstored} \subseteq SUBSET Items

\* The command that will move item i out of flight.
WillMove(i) ==
    \E n \in 1..Len(db \o waiting) :
        LET job == (db \o waiting)[n]
        IN  \/ job.then = "boot"
            \/ job.id = i /\ job.then \in Writes \cup {"find_watchdog"}
            \/ job.then = "revive" /\ job.rest[i].state # "absent"

\* RV-37: no item is in flight without a timer of this process, or a command already
\* under way, that ends its flight, whatever answers, presses, link edges and restarts
\* came in between.
InflightGuarded ==
    \A i \in Items :
        up /\ Current(i).state = "inflight" => i \in watchdogs \/ WillMove(i)

\* Persist before send: of an item that left the phone there is a row on disk, unless
\* the database refused it from the start.
SentIsStored == \A i \in reached \ unstored : store[i].state # "absent"

\* A press that finds a drain running is not swallowed by it.
PressesFollowed == ~Draining => presses = {}

\* A drain that runs has exactly one command under way: it neither runs twice nor leaves
\* _draining set behind it, which would answer every later edge, press and retry `busy`.
DrainUnderWay ==
    Cardinality({n \in 1..Len(db \o waiting) : (db \o waiting)[n].then \in Steps})
        = IF pass.stage = "busy" THEN 1 ELSE 0

\* NR-264: the count that decides whether a link edge drains is not stale once the
\* queue is at rest: an edge that skips the drain leaves nothing behind.
EdgeSeesOwed ==
    up /\ known /\ Idle /\ ~Draining => (owed <=> \E i \in Items : Pending(Current(i)))

\* What is owed is answered in the end, once the link holds.
OwedIsAnswered ==
    OthersAnswer /\ <>[](link # "down") =>
        \A i \in Items : Pending(Current(i)) ~> Terminal(Current(i))
=============================================================================
