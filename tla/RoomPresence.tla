---------------------------- MODULE RoomPresence ----------------------------
(***************************************************************************)
(* One room of a relay: the computer that holds its slot and the phones in *)
(* its seats (room/store.ts), as sockets come, are displaced, fall silent, *)
(* go and come back (socket/handlers/pc.handler.ts, mobile.handler.ts,     *)
(* mobile-reconnect.ts, mobile-room-admission.ts, disconnect.handler.ts),  *)
(* the grace in which a phone that dropped is not yet gone                 *)
(* (engine/audio-registry.ts), and the probe that asks the phones whether  *)
(* they are there before the computer hears who is (room/liveness.ts).     *)
(* Paths are under apps/server-core/src.                                   *)
(*                                                                         *)
(* A socket is dialled once, for one pairing, and never reopened: as many  *)
(* sockets as the instance has, as many times a party comes back.  A turn  *)
(* of the event loop is one step.  Time is not counted: the grace, the     *)
(* hold-out and a probe's budget end at any moment, probes in the order in *)
(* which they began, since their budgets are equal.                        *)
(***************************************************************************)
EXTENDS Naturals, FiniteSets, Sequences, SequencesExt

CONSTANTS
    Desktops,     \* sockets of the room's computer
    Links,        \* sockets of phones
    Phones,       \* pairings of this computer
    PhoneOf,      \* the pairing a link is dialled for
    Nobody,       \* an empty slot or seat; the socket of an entry in grace
    NoEntry       \* the audio registry has no entry

Sockets == Desktops \cup Links

ASSUME SocketsAssumption ==
    /\ Desktops \cap Links = {}
    /\ {Nobody, NoEntry} \cap Sockets = {} /\ Nobody # NoEntry
ASSUME PhonesAssumption == PhoneOf \in [Links -> Phones]

VARIABLES
    replica,  \* this node is one: the writer is asked for a token unknown here, and
              \* for a release or an unpairing; it never changes
    life,     \* "new" until it is dialled, "open", "admitted" once socket.data has
              \* its auth and its room, "closed"
    asking,   \* the handler awaits the writer
    slot,     \* Room.pcSocket
    online,   \* pc_devices.is_online
    seat,     \* Room.mobileSockets
    entry,    \* AudioSessionRegistry.entries
    held,     \* ReleaseSuppression.until
    rows,     \* mobile_pairings: the pairings that stand
    probes,   \* confirmedMobiles under way, in the order they began
    told,     \* the phones the computer in the slot was told of
    blurred,  \* history: a phone came or went while its answer was out
    ghost     \* history: the socket in the slot had closed before it took it

registryVars == <<entry, held, rows>>
history == <<blurred, ghost>>
vars == <<replica, life, asking, slot, online, seat, registryVars, probes, told, history>>

Open(s) == life[s] \in {"open", "admitted"}
Admitted(s) == life[s] = "admitted"
Closed(lives, gone) == [s \in Sockets |-> IF s \in gone THEN "closed" ELSE lives[s]]
AdmittedNow(s) == IF life[s] = "closed" THEN life ELSE [life EXCEPT ![s] = "admitted"]
Present == {p \in Phones : seat[p] # Nobody}
Link(l) == PhoneOf[l]

-----------------------------------------------------------------------------
(* The grace of a phone that dropped (audio-registry.ts).  An entry has a  *)
(* socket, or its timer runs and it owes the presence callbacks.           *)

Gone == [socket |-> NoEntry, owed |-> {}]
Bound(l) == [socket |-> l, owed |-> {}]

\* beginGrace: an entry a newer socket owns is left alone.
BeginGrace(e, l) ==
    IF e.socket \in Links \ {l} THEN e
    ELSE [socket |-> Nobody, owed |-> e.owed \cup {l}]

\* Mutant: a session that is adopted still owes the farewell of its old socket.
AdoptOwing(e, l) == IF e = Gone THEN e ELSE [e EXCEPT !.socket = l]

Adopt(e, l) == IF e = Gone THEN e ELSE Bound(l)

\* The disconnect listeners of a phone's socket: those of the audio handler and of
\* the room, on the same window.
Dropped(e, l) == IF Admitted(l) THEN BeginGrace(e, l) ELSE e

-----------------------------------------------------------------------------
(* What is emitted to the computer in the slot; a closed socket hears      *)
(* nothing.                                                                *)

Heeded == slot # Nobody /\ Open(slot)
ToComputer(phones) == IF Heeded THEN phones ELSE told

\* A phone came or went: an answer under way no longer says who is there.
Blur == blurred \/ (Heeded /\ \E i \in DOMAIN probes : probes[i].by = slot)

\* mobileLeftOnGraceExpiry: the seat is given up by the socket that holds it only.
Leaves(p, gone) ==
    IF seat[p] \in gone
    THEN /\ seat' = [seat EXCEPT ![p] = Nobody]
         /\ told' = ToComputer(told \ {p})
         /\ blurred' = Blur
    ELSE UNCHANGED <<seat, told, blurred>>

-----------------------------------------------------------------------------
(* The computer (pc.handler.ts).                                           *)

(* confirmedMobiles: the ack of an empty room is immediate; else every     *)
(* phone in a seat is pinged and the ack waits.                            *)
AskPhones(k) ==
    IF Present = {}
    THEN UNCHANGED probes
    ELSE probes' = Append(probes,
                [by |-> k, asked |-> {seat[p] : p \in Present}, alive |-> {}])

\* Mutant: the displaced session is left open.
TakeSlotOnly(k) ==
    /\ slot' = k
    /\ online' = TRUE
    /\ life' = AdmittedNow(k)
    /\ ghost' = (life[k] = "closed")

(* joinPc and dropDisplacedPc.  The hook of the displaced socket finds     *)
(* that it no longer holds the slot, so it writes nothing.  What a desktop *)
(* knows of the phones before its ack is nothing.                          *)
TakeSlot(k) ==
    /\ slot' = k
    /\ online' = TRUE
    /\ life' = Closed(AdmittedNow(k), {slot} \ {k, Nobody})
    /\ ghost' = (life[k] = "closed")

(* pc:register, and pc:reconnect when its token is known here.  A desktop  *)
(* has one of them under way at a time.                                    *)
PcAdmitted(k) ==
    /\ TakeSlot(k)
    /\ AskPhones(k)
    /\ told' = IF slot = k /\ Present # {} THEN told ELSE {}
    /\ blurred' = FALSE
    /\ UNCHANGED <<seat, registryVars>>

PcJoins(k) ==
    /\ life[k] # "closed" /\ k \notin asking
    /\ \A i \in DOMAIN probes : probes[i].by # k
    /\ PcAdmitted(k)
    /\ UNCHANGED asking

(* A local miss at a replica.                                              *)
Asks(s) ==
    /\ replica /\ life[s] = "new"
    /\ life' = [life EXCEPT ![s] = "open"]
    /\ asking' = asking \cup {s}
    /\ UNCHANGED <<slot, online, seat, registryVars, probes, told, history>>

(* The rows landed.  This leg does not ask whether the socket is still     *)
(* connected.                                                              *)
PcAnswered(k) ==
    /\ k \in asking
    /\ asking' = asking \ {k}
    /\ PcAdmitted(k)

(* The writer does not know the token, or cannot be asked.                 *)
Refused(s) ==
    /\ s \in asking
    /\ asking' = asking \ {s}
    /\ UNCHANGED <<life, slot, online, seat, registryVars, probes, told, history>>

(* The disconnect listener of a computer's socket.                         *)
PcDrops(k) ==
    /\ Open(k)
    /\ life' = [life EXCEPT ![k] = "closed"]
    /\ IF slot = k
       THEN /\ slot' = Nobody /\ online' = FALSE
            /\ told' = {} /\ blurred' = FALSE
       ELSE UNCHANGED <<slot, online, told, blurred>>
    /\ UNCHANGED <<asking, seat, registryVars, probes, ghost>>

Without(i) == RemoveAt(probes, i)

\* Mutant: the dead are left out of the answer, not out of their seats.
ProbeEndsUnevicted(i, alive) ==
    /\ probes' = Without(i)
    /\ told' = IF slot = probes[i].by THEN ToComputer({Link(l) : l \in alive}) ELSE told
    /\ UNCHANGED <<life, seat, entry, blurred>>

(* The probe has an answer from all, or its budget is spent.  Whoever did  *)
(* not answer is looked up again, and evicted, by its pairing.             *)
ProbeEnds(i, alive) ==
    LET probe == probes[i]
        dead == {Link(l) : l \in probe.asked \ alive}
        zombies == {seat[p] : p \in dead \cap Present}
    IN  /\ probes' = Without(i)
        /\ seat' = [p \in Phones |-> IF p \in dead THEN Nobody ELSE seat[p]]
        /\ life' = Closed(life, zombies)
        /\ entry' = [p \in Phones |->
               IF p \in dead \cap Present THEN Dropped(entry[p], seat[p]) ELSE entry[p]]
        /\ told' = IF slot = probe.by THEN ToComputer({Link(l) : l \in alive}) ELSE told
        /\ blurred' = (blurred \/ (Heeded /\ zombies \ probe.asked # {}))

(* sys:pong.  A phone answers its pings in the order they came.            *)
Pong(i, l) ==
    /\ l \in probes[i].asked \ probes[i].alive
    /\ \A j \in 1..(i - 1) : l \notin probes[j].asked \ probes[j].alive
    /\ Open(l)
    /\ LET alive == probes[i].alive \cup {l}
       IN  IF alive = probes[i].asked
           THEN ProbeEnds(i, alive)
           ELSE /\ probes' = [probes EXCEPT ![i].alive = alive]
                /\ UNCHANGED <<life, seat, entry, told, blurred>>
    /\ UNCHANGED <<asking, slot, online, held, rows, ghost>>

ProbeTimesOut ==
    /\ probes # <<>>
    /\ ProbeEnds(1, probes[1].alive)
    /\ UNCHANGED <<asking, slot, online, held, rows, ghost>>

(* Who may see a request of its socket carried out: at a replica, once the *)
(* writer has answered, whatever became of the socket.                     *)
Asked(s) == Admitted(s) \/ (replica /\ life[s] = "closed")

(* pc:release-mobile: the phone is held out, by the node that has the      *)
(* rows, or its pairing is revoked; its socket is closed and its seat is   *)
(* left to the grace.                                                      *)
Release(k, p, revoke) ==
    /\ Asked(k)
    /\ p \in rows
    /\ rows' = IF revoke THEN rows \ {p} ELSE rows
    /\ held' = IF replica THEN held ELSE IF revoke THEN held \ {p} ELSE held \cup {p}
    /\ IF seat[p] = Nobody
       THEN UNCHANGED <<life, entry>>
       ELSE /\ life' = [life EXCEPT ![seat[p]] = "closed"]
            /\ entry' = [entry EXCEPT ![p] = Dropped(@, seat[p])]
    /\ UNCHANGED <<asking, slot, online, seat, probes, told, history>>

-----------------------------------------------------------------------------
(* A phone (mobile.handler.ts, mobile-reconnect.ts).                       *)

\* Mutant: only a phone that speaks holds the room.
ContendedBySpeech(p) == \E q \in Phones \ {p} : entry[q].socket \in Links

(* liveContender *)
Contended(p) == \E q \in Phones \ {p} : seat[q] # Nobody /\ Open(seat[q])

(* joinAndNotify, after which mobile:reconnect adopts the audio session    *)
(* and mobile:pair does not.                                               *)
Seated(l, adopts) ==
    LET p == Link(l)
        previous == seat[p]
        displaced == previous \notin {Nobody, l}
        e == IF displaced THEN Dropped(entry[p], previous) ELSE entry[p]
    IN  /\ seat' = [seat EXCEPT ![p] = l]
        /\ life' = Closed(AdmittedNow(l), {previous} \ {l, Nobody})
        /\ entry' = [entry EXCEPT ![p] = IF adopts THEN Adopt(e, l) ELSE e]
        /\ IF previous = l
           THEN UNCHANGED <<told, blurred>>
           ELSE told' = ToComputer(told \cup {p}) /\ blurred' = Blur
        /\ UNCHANGED <<held, rows>>

(* A request that is refused leaves the socket as it was, dialled.         *)
Heard(l) == IF life[l] = "new" THEN [life EXCEPT ![l] = "open"] ELSE life

(* Another phone is live in the room: PC_BUSY and a hold-out.              *)
Busy(l) ==
    /\ life' = Heard(l)
    /\ held' = held \cup {Link(l)}
    /\ UNCHANGED <<seat, entry, rows, told, blurred>>

(* PAIR_RELEASED, PC_BUSY of an earlier verdict, or an unknown token.      *)
TurnedAway(l) ==
    /\ life' = Heard(l)
    /\ UNCHANGED <<seat, entry, held, rows, told, blurred>>

PhoneReconnected(l) ==
    IF Link(l) \in held \/ Link(l) \notin rows THEN TurnedAway(l)
    ELSE IF Contended(Link(l)) THEN Busy(l)
    ELSE Seated(l, TRUE)

PhoneReconnects(l) ==
    /\ life[l] # "closed" /\ l \notin asking
    /\ PhoneReconnected(l)
    /\ UNCHANGED <<asking, slot, online, probes, ghost>>

\* Mutant: a socket that closed meanwhile is admitted.
PhoneAnsweredBlind(l) ==
    /\ l \in asking
    /\ asking' = asking \ {l}
    /\ PhoneReconnected(l)
    /\ UNCHANGED <<slot, online, probes, ghost>>

(* The rows landed.  A socket that closed meanwhile is not admitted.       *)
PhoneAnswered(l) ==
    /\ l \in asking
    /\ asking' = asking \ {l}
    /\ IF Open(l) THEN PhoneReconnected(l) ELSE TurnedAway(l)
    /\ UNCHANGED <<slot, online, probes, ghost>>

(* mobile:pair of a handset whose row is reused; no hold-out is asked.  A  *)
(* replica refuses it.                                                     *)
PhonePairs(l) ==
    /\ ~replica
    /\ life[l] # "closed" /\ l \notin asking /\ Link(l) \in rows
    /\ IF Contended(Link(l)) THEN Busy(l) ELSE Seated(l, FALSE)
    /\ UNCHANGED <<asking, slot, online, probes, ghost>>

(* mobile:unpair; the socket stays.                                        *)
Unpairs(l) ==
    /\ Asked(l) /\ Link(l) \in rows
    /\ rows' = rows \ {Link(l)}
    /\ seat' = [seat EXCEPT ![Link(l)] = Nobody]
    /\ told' = ToComputer(told \ {Link(l)})
    /\ blurred' = Blur
    /\ UNCHANGED <<life, asking, slot, online, entry, held, probes, ghost>>

(* audio:start, a later frame, audio:stop.                                 *)
Speaks(l) ==
    /\ Admitted(l)
    /\ \E e \in {Bound(l), Adopt(entry[Link(l)], l), Gone} :
           entry' = [entry EXCEPT ![Link(l)] = e]
    /\ UNCHANGED <<life, asking, slot, online, seat, held, rows, probes, told, history>>

(* A phone's socket closes.  A departure on purpose, or one the web        *)
(* watchdog established, ends the grace at once (expireGraceNow).          *)
PhoneDrops(l, deliberate) ==
    LET p == Link(l)
        e == Dropped(entry[p], l)
    IN  /\ Open(l)
        /\ life' = [life EXCEPT ![l] = "closed"]
        /\ IF deliberate /\ Admitted(l) /\ e.socket = Nobody
           THEN Leaves(p, e.owed) /\ entry' = [entry EXCEPT ![p] = Gone]
           ELSE /\ entry' = [entry EXCEPT ![p] = e]
                /\ UNCHANGED <<seat, told, blurred>>
        /\ UNCHANGED <<asking, slot, online, held, rows, probes, ghost>>

GraceExpires(p) ==
    /\ entry[p].socket = Nobody
    /\ Leaves(p, entry[p].owed)
    /\ entry' = [entry EXCEPT ![p] = Gone]
    /\ UNCHANGED <<life, asking, slot, online, held, rows, probes, ghost>>

HoldEnds(p) ==
    /\ p \in held
    /\ held' = held \ {p}
    /\ UNCHANGED <<life, asking, slot, online, seat, entry, rows, probes, told, history>>

-----------------------------------------------------------------------------
Init ==
    /\ replica \in BOOLEAN
    /\ life = [s \in Sockets |-> "new"]
    /\ asking = {}
    /\ slot = Nobody /\ online = FALSE
    /\ seat = [p \in Phones |-> Nobody]
    /\ entry = [p \in Phones |-> Gone]
    /\ held = {} /\ rows = Phones
    /\ probes = <<>>
    /\ told = {}
    /\ blurred = FALSE /\ ghost = FALSE

PcSteps ==
    \/ \E k \in Desktops :
           PcJoins(k) \/ PcAnswered(k) \/ PcDrops(k)
    \/ \E k \in Desktops, p \in Phones, revoke \in BOOLEAN : Release(k, p, revoke)

PhoneSteps ==
    \/ \E l \in Links :
           \/ PhoneReconnects(l) \/ PhoneAnswered(l) \/ PhonePairs(l)
           \/ Unpairs(l) \/ Speaks(l)
           \/ PhoneDrops(l, TRUE) \/ PhoneDrops(l, FALSE)
    \/ \E p \in Phones : GraceExpires(p) \/ HoldEnds(p)

ProbeSteps ==
    \/ \E i \in DOMAIN probes, l \in Links : Pong(i, l)
    \/ ProbeTimesOut

Next ==
    /\ \/ PcSteps \/ PhoneSteps \/ ProbeSteps
       \/ \E s \in Sockets : Asks(s) \/ Refused(s)
    /\ UNCHANGED replica

Spec == Init /\ [][Next]_vars

-----------------------------------------------------------------------------
(* Each part of the room is in one of its states; in particular an entry     *)
(* owes a farewell only while it has no socket, and no probe is left whose   *)
(* phones have all answered.                                                 *)
TypeOK ==
    /\ replica \in BOOLEAN
    /\ life \in [Sockets -> {"new", "open", "admitted", "closed"}]
    /\ asking \subseteq Sockets
    /\ slot \in Desktops \cup {Nobody} /\ online \in BOOLEAN
    /\ seat \in [Phones -> Links \cup {Nobody}]
    /\ entry \in [Phones -> [socket : Links \cup {Nobody, NoEntry}, owed : SUBSET Links]]
    /\ \A p \in Phones : entry[p].owed # {} => entry[p].socket = Nobody
    /\ held \subseteq Phones /\ rows \subseteq Phones
    /\ \A i \in DOMAIN probes :
           /\ probes[i].by \in Desktops
           /\ probes[i].alive \subseteq probes[i].asked /\ probes[i].alive # probes[i].asked
    /\ told \subseteq Phones
    /\ blurred \in BOOLEAN /\ ghost \in BOOLEAN

(* However desktops displace one another, drop and wait for the writer: one  *)
(* admitted session of the computer, the one in the slot; is_online says     *)
(* whether the slot is taken; and the slot holds a socket that is not        *)
(* connected only if it closed before its read-through landed, which         *)
(* pc:reconnect does not ask (pc-slot-displacement.ts dropDisplacedPc,       *)
(* disconnect.handler.ts, "the offline WRITE follows leavePc's socket_id     *)
(* VERDICT").                                                                *)
SlotIsTheSession ==
    /\ \A k \in Desktops : Admitted(k) => slot = k
    /\ slot # Nobody => Open(slot) \/ ghost
    /\ online = (slot # Nobody)

(* Of the phones whose pairing stands at most one is connected and admitted, *)
(* across swaps of sockets, releases, graces, evictions and answers of the   *)
(* writer that come late (mobile-room-admission.ts, "the capsule allows only *)
(* one phone").                                                              *)
OneLivePhone ==
    Cardinality({l \in Links : Admitted(l) /\ Link(l) \in rows}) <= 1

(* A seat never keeps a dead socket for good: the grace that will give it up *)
(* is running, for that very socket (mobile-reconnect.ts A1, "it stays in    *)
(* the room ... until the process restarts"; audio-registry.ts beginGrace).  *)
CorpsesExpire ==
    \A p \in Present : Open(seat[p]) \/ seat[p] \in entry[p].owed

(* Once its answer is out, the computer has been told exactly the phones in  *)
(* the seats, unless a phone came or went while its answer was being made    *)
(* (pc.handler.ts confirmedMobiles, "the ACTIVELY CONFIRMED set, never the   *)
(* raw store snapshot").                                                     *)
PresenceExact ==
    Heeded /\ ~blurred
    /\ (\A i \in DOMAIN probes : probes[i].by # slot)
    => told = Present
=============================================================================
