# Verification of flowmic's delivery path

flowmic turns a phone into a microphone for a computer: the phone records speech, a
server recognises it, and the computer types the text where the cursor stands. This
directory holds TLA+ models of the parts that decide whether a dictated sentence is typed
once, twice or never, who is in a room, whose credential is dead, and what a recording is
charged for; the TLC configurations that check them; and proofs of the theorems that
matter most. All paths below are relative to the repository's root; `server-core` stands
for `apps/server-core/src`.

## The system

Three programs and a shared protocol. The server is one *writer*, which owns the database,
and any number of *replicas*, which hold a copy of it, serve sockets, and owe the writer
what they may not write themselves.

| part | source | state it keeps | operations | talks to |
|---|---|---|---|---|
| **Desktop: once-only injection** | `apps/desktop/src-tauri/src/socket/{dedup*,typed_ledger,inject_ops}.rs` | an LRU of results per request_id, uncertain submissions, remembered elevation refusals, ids in flight, the last automatic text; a ledger file and a retired one | `run_inject` (classify, gate, pipeline, record, release), `load_machine_ledger` | called by every channel's poll thread and by the desktop's own window; calls the pipeline |
| **Phone: delivery queue** | `apps/mobile/lib/src/session/delivery_outbox*.dart`, `outbox_store.dart` | items in SQLite and a shadow of those it could not write, one watchdog and one retry timer per item, a running drain | enqueue, drain, attempt, settle, no-result, retry, load | the chat controller calls it; it emits `inject:request` and is called with `inject:result` |
| **Server: owed writes** | `server-core/db/replica-outbox.ts`, `node/{outbox-drainer,writer-client,forward-receiver,forward-ledger,pc-identity-forward}.ts` | a replica's JSONL file; the writer's ledger of performed ids, its clock of declarations | enqueue, drain, forward, receive, prune | replica to writer over HTTP |
| **Server: revocations** | `node/{revocation-hint,revocation-follower,replica-puller,token-read-through}.ts` | a generation counter; a long-poll, a pull, a sweep and a watchdog | hint, pull, import, sweep, read through | writer to replica; closes sockets |
| **Server: what a recording costs** | `db/repos/{usage-effects,recording-coverage,recovery-operations}.repo.ts`, `billing/usage-tracker.ts` | claims of operations, stretches paid for, a registry | admit, meter, prune | called at the end of a session, or for a replica |
| **Server: rooms and presence** | `room/`, `socket/handlers/`, `engine/audio-registry.ts` | a computer's slot, phones' seats, graces, hold-outs, probes | register, reconnect, pair, release, unpair, disconnect | both ends; the writer, when this is a replica |
| Desktop: channels and admission | `socket/{admission,channel,client,pairing,session_gen}.rs` | a channel's link, its generation, registration | dial, register, admit, re-dial | server socket |
| Desktop: injection pipeline | `inject/` | clipboard hold, target probe | type or paste into the foreground window | operating system |
| Desktop: focus | `focus/` | what window and control has the focus | window events | gate of the pipeline |
| Desktop: shell, sidecar, update, Vue windows | `shell/`, `sidecar/`, `update/`, `apps/desktop/src` | windows, child process, installer | user interface | the above |
| Phone: connection | `apps/mobile/lib/src/signaling/` | connection state, epochs, reconnect ladder | dial, join, reconnect | server socket; raises the link edges the queue drains on |
| Phone: push-to-talk | `ptt/` | one utterance | start, stop, resume | server socket |
| Phone: retained audio | `audio/` | a journal of audio still owed to recognition | append, replay, settle, delete | push-to-talk |
| Phone: timeline, settings, UI | `timeline/`, `settings/`, `ui/` | rows, preferences | presentation | queue (row of a delivery) |
| Server: relay | `socket/inject-pending.ts`, `relay.handler.ts` | pending injections by request_id | forward a request to the computer and its result to the phone, expire | both ends |
| Server: recognition | `stt/`, `engine/`, `pool/` | orchestrators, engines, owed audio | open, feed, flush, roll over, replay | push-to-talk |
| Server: accounts, plans, HTTP, mail | `auth/`, `billing/`, `http/`, `mail/` | tables | requests | all |
| Shared | `packages/protocol`, `i18n` | none | types and texts | all |

A delivery goes: the phone's queue writes it down, emits a frame (or the caller emits one
beside the queue), the relay forwards it to whichever channel the computer listens on,
`run_inject` types it or answers from its table, the result comes back by the relay and
settles the item. Every leg may lose or repeat a frame, and either end may restart. The
promise of the whole is: what the queue owes is eventually delivered or refused, and no
sentence is typed twice. Both ends keep a part of it: the queue retries with the same
request_id, and the desktop recognises that id.

A session goes: phone and computer meet in a room of one node; the audio is recognised
there; at its end the session is metered, at the writer or through the owed writes of a
replica. A credential revoked at the writer has to close sockets on every replica.

### What is hard, per component

* **Once-only injection**: several threads present copies of one delivery at once; the lock
  is not held while typing; a thread may panic in the middle; the table is bounded and
  forgets; part of it must survive a restart, through a file whose writes may fail, and
  the files of an older layout must be merged without erasing either. Correct means: one
  run per id, no second typing, nobody waits for ever, a verdict never contradicts what
  was typed, and the file says what the table would answer.
* **Phone queue**: one thread, but every `await` lets answers, timers, presses and link
  edges run between the read of an item and its write; the database may throw; the process
  may die with an item in flight. Correct means: nothing is in flight without a timer,
  what left the phone is on disk, what is queued has something that will drain it.
* **Owed writes**: at least once is all HTTP gives, so the writer must recognise what it
  has performed, across a lost answer, a request that arrives after it was given up, a torn
  append and a death of either side; a record nobody can accept must not block the others,
  and an outage must not count as a refusal. Correct means: metered exactly once, and
  nothing owed is silently dropped.
* **Revocations**: a hint may meet a pull under way, a pull may bring rows older than the
  revocation, a counter restarts with the writer, a row missing at a replica may merely be
  late, and imports may fail for ever. Correct means: a socket is closed only if its
  credential is really gone, and then it is closed in the end.
* **What a recording costs**: sessions of one recording come twice, cut short, out of order
  and from two nodes, through three budgets that know nothing of one another. Correct
  means: the same audio is not paid for twice, and no client can draw without end.
* **Rooms**: a socket that was displaced still has its listeners to run; a phone that
  dropped is not gone for thirty seconds and may be back on another socket; the writer's
  answer may come for a socket that has closed; a probe's answer describes a moment that
  has passed. Correct means: one session of the computer, one phone, no seat kept for the
  dead, and a computer that knows who is there.
* **Relay** (not modelled): a result must find the socket its request came from, after
  either side reconnected; an entry expires while the result is on its way.
* **Phone connection** (not modelled): a late event of an old socket must not move the
  state of the new one.
* **Recognition** (not modelled): audio fed to an engine that died must be fed again, once.

## The modules

| module | what it is |
|---|---|
| `InjectDedup.tla` | the desktop's answer to one `inject:request`, for any number of calling threads |
| `InjectDedupProofs.tla` | its types, safety invariants and action properties |
| `DeliveryOutbox.tla` | the phone's delivery queue over its database, timers and link |
| `DeliveryOutboxProofs.tla` | its types and safety invariants, with an invariant over the commands under way |
| `ForwardOnce.tla` | abstract: facts that are owed, performed once, and only then no longer owed |
| `ForwardOutbox.tla` | a replica's file, its drain, the call, the writer's receiver and ledger; implements `ForwardOnce` |
| `ForwardOutboxProofs.tla` | its invariants, and that each of its steps is one of `ForwardOnce` or a stutter |
| `RevocationFollower.tla` | from a revocation at the writer to the closed socket at a replica |
| `RevocationFollowerProofs.tla` | its types and safety invariants |
| `UsageLedger.tla` | what one recording of one account is charged for |
| `SetSums.tla` | lemmas: sums over finite sets |
| `UsageLedgerProofs.tla` | the invariants of `UsageLedger` |
| `RoomPresence.tla` | one room: the computer's slot, the phones' seats, graces, hold-outs, probes |
| `RoomPresenceProofs.tla` | its invariants |
| `MC*.tla` | the instances TLC checks: values of the constants, symmetry |

They meet at three places. `UsageLedger` takes from `ForwardOutbox` that a metering call
owed by a replica is performed once, some time later: that is all it keeps of forwarding.
`RoomPresence` takes a read-through of a token as an answer that comes later or never;
`RevocationFollower` models where it comes from, and what happens to a socket admitted on
rows that are stale. `DeliveryOutbox` and `InjectDedup` share the request_id: the former
may send a frame of it again at any time, the latter accepts any number of copies.

A definition marked *Mutant* in a module is a plausible wrong version of the operator it
precedes. No behaviour uses it; it is there to show that the property it is paired with in
`PROJECT.json` notices the difference.

### InjectDedup

A thread (`Threads`) is whatever calls `run_inject`: the poll thread of a channel or the
command thread of the desktop's own window. The table is behind one mutex, so each section
under that lock is one action; the pipeline is an action of its own and others run before
and after it. `pc[t]` walks through one call: `classify` (`classify_claiming`, the wait on
the condition variable included), `gate` (the deferred gate and the elevated memory),
`pipeline`, `record`, `release` (the claim's `Drop`), `notify` (`notify_all`, which the
code calls after it has let go of the lock), `reply`.

| state | code |
|---|---|
| `order`, `results` | `order` and `results` of the table, an entry reduced to full success, full failure, or a fact of an earlier life |
| `uncertain`, `elevated` | id to timestamp, `Absent` when there is none |
| `inFlight` | `InFlight.ids` |
| `lastAuto` | hash and time of the last automatic frame; a text stands for its hash |
| `disk`, `legacy` | the live ledger file and the retired one |
| `typed`, `typedOk`, `lost`, `duplicates`, `autoTyped`, `unsaved` | history: what happened at the keyboard and to the file. No action reads it |

`lost` is the heart of the no-duplicate statement. The code forgets on purpose (the LRU is
full, a quarantine of a day is over, a failed outcome is not written to the ledger)
and by accident (a write failed before a restart). Each action that forgets a typed
delivery names it in `lost`; `NeverTypedTwice` says that nothing else is typed again.

### DeliveryOutbox

Dart runs one event at a time and every `await` ends an event; an action is the
continuation of one await up to the next. Nearly all of them wait for the database. `db` is
the sequence of commands it has been given, answered in order; the store hands over one
write at a time (`waiting` holds the others, `_serialize`) and reads at once. A command
carries what its continuation needs, and its name (`then`) is also the name of that
continuation: `find_attempt` is answered in `Attempt`, `flip` in `Sent` or `WireFailed`.
So the stale copies that live in the stack of a suspended Dart function are explicit.

| state | code |
|---|---|
| `store`, `shadow` | the table and `_unpersisted`; an item is its state, its attempts up to the cap, and `deferPromisedAt != null` |
| `pass`, `presses` | `_draining` with the locals of the running pass, and `_pendingUserRequestedIds` |
| `watchdogs`, `retries`, `holdOut` | the ids in `_watchdogs`, `_retryTimers`, `_holdOutUntil` |
| `known`, `owed` | `_loadedOnce` and whether `_derived` counts anything |
| `link` | `_retryLinkUp`: no, yes but before the link's edge, yes since |
| `air` | frames that left and whose answer may come, however late |
| `old` | items past `kLiveDeliveryWindow` |
| `reached`, `unstored` | history: what left the phone, what its first write did not store |

A delivery enters by a press (`manual_delivery.dart`, which drains for its row) or live
(`chat_utterance.dart`, which sends a frame beside the queue and leaves the item queued).
The relay and the computer are outside: an answer of a kind in `Verdicts` may come for any
frame, at any time, or never.

### ForwardOutbox and ForwardOnce

An action is the code between two awaits of either process. The drain reads the file
(`Tick`), waits for the call, and rewrites the file as it is *then* (`Compacted`), so that
what was enqueued meanwhile stays. A call ends in an answer or is given up, and a request
that was given up may still arrive (`late`). Either process may die between any two
actions, the writer also between two records of a batch (`WriterCrash` performs a
prefix), the replica also in the middle of an append (`torn`).

| state | code |
|---|---|
| `file`, `torn` | the JSONL file of records with their tries; whether it ends in a fragment |
| `drain` | the drain under way: what it read, the batch it sent of that, the answer |
| `seen`, `pruned` | `node_forward_seen`, and what the daily sweep removed from it |
| `row`, `clock` | `pc_devices`: presence, declaration, home node, as instants; `PcIdentityClock` |
| `times` | how often the writer metered each fact |
| `owed`, `refused` | history: what enqueue promised; refusals of each fact |

A record of kind `Bad` is one the writer cannot parse (another build's), one of kind
`Cursed` one whose effect always throws. A declaration that throws rolls its row
back and may leave the clock, which is in memory, advanced (`ClockStep`).

`ForwardOnce` has three actions, `Owe`, `Perform`
and `Settle`; under the mapping `owed <- owed \cap Metered`, `performed <- times`, `settled
<-` what is owed and no longer in the file, each step of `ForwardOutbox` is one of them or a
stutter: `MeteredOnce`.

### RevocationFollower

The writer counts deleted rows (`hint`, a boot and a generation). The replica's loop asks
for a change (`asking`), a changed pair triggers a pull (`pulling`, at most one with one
more remembered in `pullAgain`, no sooner than `floor` allows), an import starts a sweep
(`sweep`: the slice at the writer, what is left, what was absent), and the watchdog asks
for a full one when no import has come for a while. A credential's id is never reused, and
no statement changes what a row belongs to, so that the pair of ids the code compares is
one id here. The wait between two requests is part of a request that has not left. A
timed pull begins with its snapshot, since nothing depends on it before. `known`,
`covered`, `owed`, `evicted` are history.

### UsageLedger

`Begin` admits a session (the registry, at the writer), `EndAtWriter` and `Deliver` run one
transaction of `recordSttUsage` (`Step`: claim, coverage, charge), `EndAtReplica` owes it.
`cover` is the row of the recording (the stretches with their money, credits used,
operations credited), `claims` the row of each operation.

The code holds audio in samples and money in milliseconds, with fractions wherever it has
divided by `SAMPLES_PER_MS`. The model counts both in samples, the finest fraction there
is, so that no fraction is lost, and rounds where the code rounds: `Rounded` is
`Math.round` of a quotient (halves go up, also below zero), `Ms` a number of samples in
whole milliseconds, `Whole` the same put back into samples. The three places are the
proposed charge and what is owed (lines 89 and 120 of `recording-coverage.repo.ts`), the
left piece of a cut stretch (112), and the new stretch (124); the right piece is what
remains (114) and may be a negative fraction. What a claim has billed is whole
milliseconds. The sums of the code's loop are `Offered`, `Overlapped` and `Carried`.

`recorded`, `cuts`, `free`, `claimed`, `longest` and `excused` are history: what the
properties compare the ledgers with. `recorded` counts what was charged for the stretches
of the row, and `cuts` the sessions among them that fell on earlier stretches, which an
outcome says of itself in `told`. A re-send of a credited operation is charged through the
same store and not recorded in the row (`CreditedReplay`); `recorded` leaves it out, `bill`
does not. `PaidApart` is when a session is paid for as one of its own and `AudioPaidOnce`
no longer speaks of the recording: a second live press over one that was paid, a re-send
beyond its claim, a session refused by coverage, or one met by a budget that is spent or a
row that cannot be read; and a row that was pruned.

### RoomPresence

A turn of the event loop is an action. `life[s]` follows a socket: dialled, admitted once
`socket.data` has its auth and room, closed. `slot` and `seat` are the room's map, `entry`
the audio registry (a socket, or a grace that owes its callbacks), `held` the hold-outs,
`rows` the pairings that stand, `probes` the answers of `confirmedMobiles` that wait for
pongs. `replica` chooses once whether this node is one: then a token unknown here is asked
of the writer (`Asks`, and `PcAnswered`, `PhoneAnswered` or `Refused` later), and a
release or an unpairing is forwarded and takes effect when the writer has answered,
whatever became of the socket (`Asked`). `told` is what the computer in the slot has heard;
`blurred` and `ghost` are history. Graces, hold-outs and budgets end at any moment; probes
time out in the order they began; a phone answers its pings in order; a desktop has one
register or reconnect under way.

## The runs

`tlc -config <cfg> <module>`; the `.cfg` of a run is named after its module and the part
after the underscore.

| run | instance | states | what it shows |
|---|---|---|---|
| `dedup_race` | 2 ids, 2 threads, every cap 1, 3 arrivals, live and deferred copies, a retired ledger of 0 or 1 id, failing saves, an unreadable live file, 1 restart | 1.5 M | one run per delivery, no second typing, no forgotten sleeper, no typed delivery called "not injected", ok was ok, the file is what the table would answer, the retired file goes last |
| `dedup_timed` | 1 id, 2 texts, frames with and without id, automatic and deliberate, clock to 2 | 1.9 M | a remembered refusal holds; a quarantine is not refreshed; what is discarded in silence is a repeat |
| `dedup_live` | `LiveSpec`, 1 restart | 27 k | every call returns if the pipelines do; whoever waits for a pipeline that hangs leaves all the same |
| `outbox_two` | 2 presses, capacity 1, verdicts busy and terminal, no restart | 860 k | presses followed, one drain |
| `outbox_one` | 1 item, press or live, verdicts transient and offline, another machine, ageing, failing writes, 1 restart | 760 k | nothing in flight unguarded, persist before send, the edge's count is fresh with a shadow |
| `outbox_live` | `LiveSpec`, 1 pressed item, verdicts ok and a named wait, 1 restart | 44 k | what is owed is answered |
| `forward_once` | `LiveSpec`, a metering fact, an unparsable record and one that always throws; batches of 2, 2 tries, 1 request abandoned, 2 deaths | 15 k | metered once (implements `ForwardOnce`), no budget burnt by an outage, what is owed leaves the queue |
| `forward_rows` | a heartbeat, a declaration, a registration, each also made at the writer directly, each of which may throw; 1 request abandoned, 1 death | 190 k | a computer's row does not move back |
| `revoke_race` | a computer and its phone, 2 sockets, 2 admissions, slices of 1, a full round of 1, 1 outage | 1.3 M | only revoked credentials are closed; no hint and no sweep is lost |
| `revoke_live` | `LiveSpec`, 1 credential, 1 socket, the timed pull, 1 restart of the writer | 120 k | what is revoked is closed, though imports may fail for ever; a hint is followed by a pull |
| `usage_paid` | 1 operation, 3 sessions, 2 at a time, at writer and replica, 2 stretches of one recording, 4 samples to a millisecond, stops at 19 and 41, bases off by a sample, 3 days, an unreadable row | 2.3 M | the row balances to a millisecond for each session over earlier stretches, what is free is bounded, an operation pays for its longest session, audio is paid for once |
| `rooms` | 2 sockets of the computer, 2 of one phone, 1 of another; writer and replica | 230 k | one session, one phone, no seat kept for the dead, presence exact |

**Bounds.** `MaxClock`, `MaxArrivals` and `MaxCrashes` bound the exploration of
`InjectDedup`; caps of 1 and 2 stand for 256 so that evictions happen within
three arrivals. Two threads are enough for the claim (it distinguishes the owner and
another), and the proofs hold for any number. In `DeliveryOutbox`, `MaxJobs` is the number
of commands under way beyond which no further answer is taken (2: a drain and a settle),
`MaxFrames` the frames per item whose answer may come (1: a duplicate answer
is a late answer to an earlier frame, which the bound still allows after a resend),
`TransientCap` is 1 in the runs and 2 in the code. Items are numbered in order of
enqueueing; two are needed for a press that meets a drain, for a list with a rest and for
an overflow, one is enough for the branches of a settle. `Prompt` excludes behaviours in
which a timer of seconds fires while a database command is under way: `outbox_two` and
`outbox_one` set it for size; `outbox_live` leaves it FALSE. In `ForwardOutbox`, `MaxLines`
is one more than a batch, so that a batch leaves a rest; two deaths let each process die
once. `OutageBound` is a hypothesis and not a bound: a record is not offered after its id
was swept from the writer's ledger, which keeps it for a week from the instant the record
was enqueued (that instant is what `forward-ledger.ts:86` stores, not the one it was
performed at); nothing in the code enforces it (see below). In `RevocationFollower` a slice and a full round of one credential make every round
take several calls and the cursor move. In `UsageLedger` one credit, one free replay and
three stretches (64 in the code) are within reach of three sessions; a basis is a sample
longer or shorter than its audio (`Drifts`), and of the ranges and stops (0, 14, 19, 41,
with 4 samples to a millisecond) none but 0 is a whole millisecond, so that overlaps,
pieces and shares carry fractions. In `RoomPresence` a socket is never reopened, so that the
number of sockets is the number of times a party comes back. No run checks deadlock: with
its arrivals used up and nothing owed each of these programs rests.

**Fairness.** `LiveSpec` of `InjectDedup` assumes only `ThreadsRun`: a thread that can take a
step of its own does, and a restarted desktop loads. What lies outside the code is a
hypothesis of the property that needs it: `PipelineReturns` (weak fairness of `Pipeline`,
the operating system) of `CallReturns`, `TimerFires` (the budget's timer) of `WaitEnds`. For
the phone, `PhoneRuns`: the database answers, the app is opened again after a crash,
timers that are due and probes that ended get their turn; strong for the latter because an
isolate busy with a reply delays them and does not cancel them. `OthersAnswer`, the
hypothesis of `OwedIsAnswered`, is what nobody can promise: link edges recur while the
queue is at rest, not every probe fails, the computer answers ok at some time. The
recurring edge is needed: without it an item may wait under a live link for ever (see
below). For `ForwardOutbox`: the drainer's interval fires (`Tick`), a call ends because it has
a timeout of 8 s (`Answered \/ GivesUp`), both weak; and strong fairness of a round in which
only the cursed record throws and its answer arrives, which is an assumption about the
network and the database and may fail any number of times before. For
`RevocationFollower`: requests are answered or time out, timers fire (the floor, the
watchdog, the puller), an outage ends, all weak; no import need ever succeed.

**Refinement.** `forward_once` checks `ForwardOnce!Spec` of `ForwardOutbox` under the mapping
above; the abstract module has no file, no request and no crash.

## What is proved

Every safety property and action property that a run checks is also a theorem, for every
value of the constants that the named assumptions of its module allow, and so is the
refinement. The liveness properties are not: see the end of this section.

| theorem | in | property of the run | hypothesis beyond the assumptions |
|---|---|---|---|
| `TypeCorrect`, `OneRun`, `Wakeups`, `LedgerHolds` | `InjectDedupProofs` | `TypeOK`, `OneRunPerId`, `NoLostWakeup`, `LedgerMatchesMemory` | none |
| `SuccessIsTrue`, `SilenceIsEarned`, `RefusalHolds`, `QuarantineRunsOut` | `InjectDedupProofs` | `OkIsTrue`, `SuppressedIsRepeat`, `ElevatedRefusalHolds`, `QuarantineNotRefreshed` | none |
| `NoDuplicate`, `RefusalIsTrue`, `RetiredIsAbsorbed` | `InjectDedupProofs` | `NeverTypedTwice`, `NotInjectedIsTrue`, `RetiredOnlyWhenAbsorbed` | the retired ledger can be read |
| `TypeCorrect`, `PressesAlwaysFollowed`, `OneDrain`, `StoredBeforeSent` | `DeliveryOutboxProofs` | `TypeOK`, `PressesFollowed`, `DrainUnderWay`, `SentIsStored` | none |
| `FlightsEnd`, `EdgesDrain` | `DeliveryOutboxProofs` | `InflightGuarded`, `EdgeSeesOwed` | reads of the database do not throw |
| `TypeCorrect`, `BudgetKept`, `RowsNeverBack` | `ForwardOutboxProofs` | `TypeOK`, `OutageBurnsNoBudget`, `RowsMoveForward` | none |
| `PerformedOnce` | `ForwardOutboxProofs` | `MeteredOnce`, the refinement of `ForwardOnce` | `OutageBound` |
| `TypeCorrect`, `OnlyRevokedClosed`, `RequestsKept` | `RevocationFollowerProofs` | `TypeOK`, `ClosesOnlyRevoked`, `NoRequestLost` | none |
| `TypeCorrect`, `BalancesKept`, `PaysForLongest`, `FreeBounded`, `PaidOnce` | `UsageLedgerProofs` | `TypeOK`, `RowBalances`, `OperationPaysForLongest`, `FreeIsBounded`, `AudioPaidOnce` | none |
| `TypeCorrect`, `OneSession`, `OnePhoneOnly`, `CorpsesAlwaysExpire`, `PresenceAlwaysExact` | `RoomPresenceProofs` | `TypeOK`, `SlotIsTheSession`, `OneLivePhone`, `CorpsesExpire`, `PresenceExact` | none |

The three hypotheses are among the disagreements described below: where one of them fails
the code does what the property forbids. The bounds of exploration (`MaxCrashes` and its
like) are any natural numbers, and every finite behaviour stays within some.

**InjectDedup.** Ids are numbers and finitely many, caps are positive, the retired ledger
is an order. The conjunction `IInv` of four layers is inductive; each layer is the ground
of the next, and a fifth goes with the last three.

1. `TableInv`: types, and `order` lists exactly the ids that have an entry. `TypeOK` is not
   inductive without the latter (an eviction pops an id that must have one).
2. `ClaimInv`: a call is at a stage that its claim allows (`StageOK`), a running id is
   claimed by exactly one call (`ClaimHeld`, `OneRunPerId`), and a sleeper sleeps on an id
   that is claimed or about to be announced.
3. `LedgerInv`: after a successful write the file is the table, and the file is in itself
   well formed, which is what a boot needs.
4. `MemoryInv`: a call past its verdict has an id that the table does not know
   (`FreshRun`); a typed id not in `lost` is in the table, in quarantine, or in a run that
   still owes the record (`Remembered`); the same of the file while the desktop is down
   (`OnFile`). Then typing again needs a typed id that passed the verdict, and none does.
5. `AnswerInv`: every entry, file or answer that says ok is about an id that was typed with
   success (`OkBacked`, `FactsTrue`); the last automatic text was typed (`AutoBacked`);
   only the thread that runs an id can remember a refusal of it, and then leaves it
   (`ElevatedRefusalHolds`). That a merge of the retired ledger absorbs all or fills the
   LRU is a counting argument about the alternating take (`LoadedFills`).

**DeliveryOutbox.** What must not be lost is in the stack of suspended functions as much as
in variables, so the invariant speaks of the commands under way. `JobsInv`: what a command
still holds of an item (its copy, the victims or flights left to it) is about an item whose
first write was answered, and only the write that starts a flight carries an item in
flight. `DrainInv` counts the commands of the drain, which makes it neither two nor none.
`GuardInv`: an item in flight has a watchdog, or a command that ends its flight. A
watchdog's find counts as one only if what it was given, or the row it will read, is in
flight; a read that throws breaks this, hence the hypothesis. `EdgeInv`: the derived view
is accurate, or a command is under way at whose end it is refreshed. None of the four
properties is inductive by itself.

**ForwardOutbox.** `QueueInv`: types, only what was enqueued is anywhere (`OwedInv`), a
drain without an answer has no verdict, and the tries of a record are at most the rejections
answered to its id in the file *and* in what a drain was given, which will be written back
(`BudgetInv`). For the refinement `OnceInv`: `times[f]` is 1 exactly of the ids in the
ledger or pruned from it (`TimesInv`), a verdict that is no rejection is about such an id
(`VerdictsInv`), and what was pruned is offered by nobody, neither by the file nor by a
request on its way (`PrunedInv`, the only use of `OutageBound`). Each action is then a step
of `ForwardOnce` or a stutter; a batch of the receiver is an induction over its prefix.
`RowsNeverBack` compares a record's instant with the row when the fact is applied.

**RevocationFollower.** Ids are numbers and finitely many, a pairing hangs off a credential
or nothing, limits are positive, `None` is none of the values it is told apart from
(`NoneAssumption`). `ClosesOnlyRevoked` is not inductive: it says nothing of the verdict a
round carries. `CredInv` adds that everything the follower holds (rows, snapshots under
way, sockets, read-throughs, the slices of a round) was once issued by the writer, so that
what the writer says not to hold is revoked, and revoked is for ever. That a full round
asks only about credentials some socket carries needs `NthExists`: the `k`-th element of a
finite set of numbers exists, by counting those below each. For `NoRequestLost`, `PairsInv`
says that the writer's pair never comes back to one it left, and that at equal pairs the
writer had revoked equally much: an answer that is no change is no news. `CountsInv` ties
the triggered pull's state to its snapshot, and `SweepsInv` the sweeps that are owed to the
pending mode. `TypeCorrect` adds `ModeInv` and `TimerInv`: what a round may wait for and
what slices it may hold.

**UsageLedger.** The ranges are finitely many and not empty, `NoRow` is no row, a
millisecond has at least one sample. Sums over the stretches are folds along CHOOSE, of
which nothing can be proved by cases. `SetSums` gives a sum of natural numbers a second
reading, the number of coins when each `x` of `S` holds `F[x]` of them, counted by
`Cardinality` (`Weight`), and a sum of integers the difference of two of those (`Net`); it
agrees with the fold by induction over the set (`SumIsNet`), done with the well-foundedness
of `<` on cardinalities (`SetInduction`), since the library's induction theorems take an
operator. From it come the laws the proofs use (`NetUnion`, `NetMost`, `WeightRoom`:
intervals that lie apart within `[a, b)` are together no longer than it).

* `RowBalances`: the pieces of an overlapped stretch and what moves out of it are together
  what it held, to half a millisecond if it has a left piece and exactly if not
  (`PiecesHold`). Of stretches that lie apart one at most reaches across the left end of a
  new one (`SlipOnce`), so a settlement rounds one left piece and the new stretch, and is
  off by a millisecond at most however many stretches it cuts (`KeptHolds`). `RowHolds`
  adds a bound on the row without its negative pieces (`Raised`), since what can be drawn
  on may be more than the total.
* `OperationPaysForLongest`: with `Payments`, an operation was charged under its claim no
  more than the claim says was billed.
* `FreeIsBounded`: each credit lets pass at most what the row holds, with a tolerance
  (`SettleSpends`), or what the claim says, with another (`StepFree`); and a claim says no
  more than the account paid, with the first (`BilledBacked`), although the sessions it
  was billed for may themselves have been free. What the row holds is `Backing` at most,
  the bill and a millisecond for each call over.
* `AudioPaidOnce`: let `Held` be what a stretch holds within its length, and `Spare` the
  number of sessions that are over, which each metering raises (`StepKinds`). Until a
  session is paid for as one of its own, the bill is what was recorded, the stretches lie
  apart within the audio, and what was recorded exceeds the sum of `Held` by at most the
  drift and a millisecond for each of those sessions: one that draws on all it overlaps
  pays for the gap it fills (`SettlePays`), however it is cut.

**RoomPresence.** `SeatInv` ties each seat to an admitted or closed socket of its own phone,
and each admitted socket to its seat, which it may have lost only with its pairing;
`EntryInv` ties the audio registry to them. With `CorpsesExpire` they make `OneInv`
inductive: a phone is admitted only when no other seat holds an open socket. For
`PresenceExact`, `ProbesInv` keeps the order of pings: what a later probe has heard from a
socket every earlier one has heard, and the probe of the computer in the slot is the last.
`AnswersInv` says what that probe is good for while nothing blurs it: it asked everybody
present, whoever has answered it is present, and no earlier probe can evict a phone that it
does not wait for too.

**Only model-checked**: `CallReturns`, `WaitEnds`, `OwedIsAnswered`, `OwedLeavesTheQueue`,
`RevokedIsClosed` and `HintHeard`. They are liveness properties, and the prover has no
rules here for fairness and ENABLED.

## Disagreements seen while modelling

Places where the code does something other than its comments say, or where two parts of it
do not agree. Unless a property is named, no run checks them: the models follow the code,
and the properties say what does hold.

* A retired ledger that exists but cannot be read counts as empty when it is merged
  (`typed_ledger.rs:67-95`) and is then deleted, although `finish_migration`
  (`dedup.rs:493-501`) promises to delete only what was absorbed. `NoDuplicate` and
  `RetiredOnlyWhenAbsorbed` are about retired ledgers that can be read.
* `_attempt` of the queue re-reads its item "so nothing can land in between"
  (`delivery_outbox_attempt.dart:86`), but the read is itself an await: a verdict that
  asked the database just before writes `delivered` first, and the attempt then writes its
  older copy over it and sends again. The same window takes back the promise an
  INJECT_PC_OFFLINE verdict recorded (`:212`, `delivery_outbox_settle.dart:303`).
* A retry due without a link is dropped because "the link-up edge owns that case"
  (`delivery_outbox_retry.dart:74`), but that edge is spent by a drain whose probe gives up,
  or answered `busy`; the item then waits under a live link until the next edge or press.
  `OwedIsAnswered` therefore assumes recurring edges.
* A watchdog whose read throws finds "no item" and does nothing more; the item stays in
  flight until the app restarts. `outbox_one` lets writes fail and not reads.
* Nothing bounds how long a replica retries, while the writer's ledger forgets after a week:
  a record offered later is performed again. `MeteredOnce` assumes `OutageBound`.
* The home node of a computer carries no instant (`node-runtime.ts:493`,
  `forwarded-write.ts:406`, `pc.repo.ts:131`): a registration delivered late overwrites a
  later one. `RowsMoveForward` leaves that column out, and the declaration after a restart
  of the writer, whose clock is in memory.
* A recording's free sessions come to "at most five times what it paid"
  (`recording-coverage.repo.ts:39`) only up to a tolerance, and two of them add up: coverage
  lets a session pass that exceeds what was paid by 2 % (or a second), and the claim a
  re-send of it that exceeds it by as much again. `FreeIsBounded` says so.
* "INVARIANT: per recording, the paid ms of all intervals sum to what was charged through
  this store" (`recording-coverage.repo.ts:18`) holds up to rounding. A live press over
  samples [0, 1600) pays 100 ms; an automatic catch-up over [8, 3200) with a basis of 200
  is charged round(100.5) = 101 and leaves 1 ms of the press (round(0.5), line 112) and a
  stretch of round(200.5) = 201 (line 124): 202 for 201 charged. `RowBalances` allows a
  millisecond for each session over earlier stretches, and `BalancesKept` proves that it is
  never more.
* A longer re-send of an operation that coverage had credited is charged its excess, but the
  stretch is not recorded as paid (`usage-effects.repo.ts:283` against
  `recording-coverage.repo.ts:8`, and the same INVARIANT). `AudioPaidOnce` excuses it, and
  `RowBalances` leaves the charge out.
* Records whose effect always throws are never answered and never parked
  (`forward-receiver.ts:131`): as many of them at the head of the file as a batch holds stop
  the queue. `OwedLeavesTheQueue` has fewer of them than that.
* After its read-through `mobile:reconnect` asks whether the socket is still connected
  (`mobile-reconnect.ts:141`); `pc:reconnect` does not (`pc.handler.ts:457`), so that a socket
  which has closed takes the slot, closes the live one, and stays, against "Live socket
  presence ONLY" of `room/store.ts`. `SlotIsTheSession` allows it by name (`ghost`).
* `confirmedMobiles` looks a phone that did not answer up again by its pairing after the
  probe: one that came back on a new socket within those 1.5 s is evicted and that socket
  closed, and the computer hears no `pc:mobile-left`. The desktop replaces its whole list
  by the ack, which erases a join or revives a leave that happened during the probe.
  `PresenceExact` excludes both (`blurred`).
* `mobile:pair` rotates the token of the row it reuses before it looks for a contender, so a
  phone refused with PC_BUSY is left with a dead token; and it asks no hold-out.

## Not modelled

*Of the modelled components.* `InjectDedup`: the images' half of a run, poisoned mutexes,
backward jumps of the wall clock, uncertain entries of a retired ledger. `DeliveryOutbox`:
images (bytes, the HTTP leg, the policy on cloud images), how a destination is resolved
(only that it may be refused), an enqueue refused for want of one, wording and banners; a
crash of the phone may lose the write under way or keep it; SQLite is trusted.
`ForwardOutbox`: verbs a replica hands over while its caller waits, the authoritative read
of a quota. `RevocationFollower`: a restart of the replica, the ceiling of waiters, the
budget of read-throughs, the other tables the trigger watches; a snapshot is taken
atomically. `UsageLedger`: the language model's tokens, frames without a job, sessions
without coverage, own keys, integrators' and the demo's counters; a replica's session is
not admitted against the writer's registry, so that the model has more sessions than the
code. `RoomPresence`: codes and their rate limits, how rooms and pairings are minted, other
rooms, the mirrored focus, who pays, origins, the relay of pictures, the expiry of a
login, a restart of the server; a release of all phones is several releases. That a
row known here may be stale is `RevocationFollower`'s subject and left out there.

*Components without a module.* The relay's pending table, the phone's connection and
push-to-talk, the retained audio, the recognition orchestrator and the desktop's channels
hold state worth modelling and have none yet. User interfaces, mail, HTTP routes, plans and
purchases, operating-system input, text resources and build scripts are left out for good:
they hold little state of their own or none that a model of this kind could say anything
of. They are most of the repository's 231 thousand lines; the map names the lines of the
protocols, which are a small part of them, and much of which is Rust and Dart.

## Plan

1. *Done*: the six components with their runs, the refinement of `ForwardOnce`, and the
   theorems above: every safety property a run checks is proved.
2. Shorter proofs: the lemmas on least numbers and on the elements of sequences are stated in
   more than one module and could be one, like `SetSums`.
3. The two disagreements on the phone's queue that no property states (a stale copy written
   over a verdict, a retry without an edge), as properties with named exceptions.
4. Should the model grow again: the relay's pending table and the orchestrator's owed audio.
