------------------------- MODULE RoomPresenceProofs -------------------------
(***************************************************************************)
(* Proofs about a room, for any number of desktops, phones and sockets.    *)
(*                                                                         *)
(* The seats.  SeatInv ties each seat to an admitted or closed socket of   *)
(* its own phone, and each admitted socket to its seat, which it may have  *)
(* lost only with its pairing; EntryInv ties an entry of the registry to   *)
(* an admitted socket of the same phone, and what it owes to closed ones.  *)
(* The two and CorpsesExpire are what makes OneInv inductive: a phone is   *)
(* admitted only when no other seat holds an open socket.                  *)
(*                                                                         *)
(* The answer.  A phone is pinged by every probe that found it in a seat,  *)
(* and answers its pings in order.  ProbesInv keeps that order: what a     *)
(* later probe has heard from a socket every earlier one has heard; the    *)
(* probe of the computer in the slot is the last one; and whom a probe     *)
(* asked is still seated, or closed, or without a pairing.  AnswersInv     *)
(* says what the last probe is good for while nothing blurs it: it asked   *)
(* everybody present, who has answered it is present, and no earlier probe *)
(* can evict a phone it does not wait for.                                 *)
(***************************************************************************)
EXTENDS RoomPresence, FiniteSetTheorems, SequenceTheorems, TLAPS

Probe == {q \in [by : Desktops, asked : SUBSET Links, alive : SUBSET Links] :
              q.alive \subseteq q.asked /\ q.alive # q.asked}

Lives == {"new", "open", "admitted", "closed"}
Entries == {e \in [socket : Links \cup {Nobody, NoEntry}, owed : SUBSET Links] :
                e.owed # {} => e.socket = Nobody}

\* The types of what a phone's step changes, and of what a probe's end changes.
Typed ==
    /\ life \in [Sockets -> Lives]
    /\ seat \in [Phones -> Links \cup {Nobody}]
    /\ entry \in [Phones -> Entries]
    /\ held \subseteq Phones /\ rows \subseteq Phones
    /\ told \subseteq Phones /\ blurred \in BOOLEAN

TypeInv ==
    /\ Typed /\ probes \in Seq(Probe)
    /\ replica \in BOOLEAN /\ asking \subseteq Sockets
    /\ slot \in Desktops \cup {Nobody} /\ online \in BOOLEAN /\ ghost \in BOOLEAN

\* A seat and an admitted socket of a phone name each other.
SeatInv ==
    /\ \A p \in Present : Link(seat[p]) = p /\ life[seat[p]] \in {"admitted", "closed"}
    /\ \A l \in Links : Admitted(l) =>
           seat[Link(l)] = l \/ (seat[Link(l)] = Nobody /\ Link(l) \notin rows)

\* The registry knows a phone by its admitted socket; it owes farewells to closed ones.
EntryInv ==
    \A p \in Phones :
        /\ entry[p].socket \in Links => Link(entry[p].socket) = p /\ Admitted(entry[p].socket)
        /\ \A l \in entry[p].owed : life[l] = "closed"

OneInv ==
    \A l, m \in Links :
        Admitted(l) /\ Admitted(m) /\ {Link(l), Link(m)} \subseteq rows => l = m

PhonesInv == SeatInv /\ EntryInv /\ CorpsesExpire /\ OneInv

Waits(i, l) == l \in probes[i].asked \ probes[i].alive

\* The order of the probes and of the answers.
ProbesInv ==
    /\ slot # Nobody => life[slot] # "new"
    /\ \A i \in DOMAIN probes :
          /\ life[probes[i].by] # "new" /\ probes[i].by \notin asking
          /\ probes[i].by = slot => i = Len(probes)
          /\ \A l \in probes[i].asked :
                /\ seat[Link(l)] = l \/ life[l] = "closed" \/ Link(l) \notin rows
                /\ \A m \in probes[i].asked : Link(l) = Link(m) => l = m
          /\ \A j \in 1..i-1 : \A l \in probes[i].alive \cap probes[j].asked : l \in probes[j].alive

\* What the probe of the computer in the slot will tell.
AnswersInv ==
    Heeded /\ ~blurred =>
        /\ \A i \in DOMAIN probes : \A l \in Links :
              Waits(i, l) /\ seat[Link(l)] = l =>
                 \E j \in DOMAIN probes : i <= j /\ probes[j].by = slot /\ Waits(j, l)
        /\ \A i \in DOMAIN probes : probes[i].by = slot =>
              /\ \A p \in Present : seat[p] \in probes[i].asked
              /\ \A l \in probes[i].asked : seat[Link(l)] = l \/ life[l] = "closed"
              /\ \A l \in probes[i].alive : seat[Link(l)] = l

PresenceInv == ProbesInv /\ AnswersInv /\ PresenceExact
-----------------------------------------------------------------------------
(* Types                                                                     *)

LEMMA WithoutOne ==
    ASSUME probes \in Seq(Probe), NEW i \in DOMAIN probes
    PROVE  /\ Without(i) \in Seq(Probe) /\ Len(Without(i)) = Len(probes) - 1
           /\ DOMAIN Without(i) = 1..Len(probes) - 1
           /\ \A j \in 1..Len(probes) - 1 : Without(i)[j] = probes[IF j < i THEN j ELSE j + 1]
<1> DEFINE n == Len(probes)
           a == SubSeq(probes, 1, i - 1)
           b == SubSeq(probes, i + 1, n)
<1>1. n \in Nat /\ DOMAIN probes = 1..n /\ i \in 1..n /\ \A j \in 1..n : probes[j] \in Probe
  BY LenProperties, ElementOfSeq
<1>2. /\ a \in Seq(Probe) /\ Len(a) = i - 1
      /\ \A j \in 1..i - 1 : a[j] = probes[j]
  BY <1>1, SubSeqProperties
<1>3. /\ b \in Seq(Probe) /\ Len(b) = n - i
      /\ \A j \in 1..n - i : b[j] = probes[i + j]
  BY <1>1, SubSeqProperties
<1>4. Without(i) = a \o b
  BY DEF Without, RemoveAt
<1> HIDE DEF a, b
<1>5. /\ a \o b \in Seq(Probe) /\ Len(a \o b) = Len(a) + Len(b)
      /\ \A j \in 1..Len(a) + Len(b) : (a \o b)[j] = IF j <= Len(a) THEN a[j] ELSE b[j - Len(a)]
  BY <1>2, <1>3, ConcatProperties
<1>6. Len(a) + Len(b) = n - 1
  BY <1>1, <1>2, <1>3
<1>7. ASSUME NEW j \in 1..n - 1
      PROVE  (a \o b)[j] = probes[IF j < i THEN j ELSE j + 1]
  <2>1. CASE j < i
    BY <1>1, <1>2, <1>5, <1>6, <2>1
  <2>2. CASE ~(j < i)
    <3>1. j - (i - 1) \in 1..n - i /\ i + (j - (i - 1)) = j + 1 /\ ~(j <= i - 1)
      BY <1>1, <2>2
    <3>2. (a \o b)[j] = b[j - (i - 1)]
      BY <1>2, <1>5, <1>6, <3>1
    <3> QED BY <1>3, <2>2, <3>1, <3>2
  <2> QED BY <2>1, <2>2
<1> QED BY <1>4, <1>5, <1>6, <1>7, LenProperties

LEMMA TypeProbes ==
    ASSUME TypeInv, NEW i \in DOMAIN probes
    PROVE  probes[i] \in Probe
BY ElementOfSeq, LenProperties DEF TypeInv

LEMMA TypeLinks ==
    /\ \A l \in Links : Link(l) \in Phones
    /\ Links \subseteq Sockets /\ Desktops \subseteq Sockets
    /\ Nobody \notin Sockets
BY PhonesAssumption, SocketsAssumption DEF Link, Sockets

LEMMA TypeDropped ==
    ASSUME NEW e \in Entries, NEW l \in Links
    PROVE  Dropped(e, l) \in Entries
BY DEF Dropped, BeginGrace, Entries

LEMMA TypeProbeEnds ==
    ASSUME TypeInv, NEW i \in DOMAIN probes, NEW alive \in SUBSET probes[i].asked,
           ProbeEnds(i, alive), UNCHANGED <<held, rows>>
    PROVE  Typed' /\ probes' \in Seq(Probe)
<1>1. probes[i] \in Probe /\ alive \subseteq Links /\ Typed
  BY TypeProbes DEF TypeInv, Probe
<1>2. probes' \in Seq(Probe)
  BY WithoutOne DEF ProbeEnds, TypeInv
<1>3. life' \in [Sockets -> Lives] /\ seat' \in [Phones -> Links \cup {Nobody}]
  BY <1>1 DEF Typed, ProbeEnds, Closed, Lives
<1>4. entry' \in [Phones -> Entries]
  <2>1. \A p \in Present : Dropped(entry[p], seat[p]) \in Entries
    BY <1>1, TypeDropped DEF Typed, Present
  <2> QED BY <1>1, <2>1 DEF ProbeEnds, Typed
<1>5. told' \subseteq Phones /\ blurred' \in BOOLEAN
  BY <1>1, TypeLinks DEF Typed, ProbeEnds, ToComputer
<1> QED BY <1>1, <1>2, <1>3, <1>4, <1>5 DEF Typed

LEMMA TypeSeated ==
    ASSUME TypeInv, NEW l \in Links, NEW adopts \in BOOLEAN, Seated(l, adopts)
    PROVE  Typed'
<1>1. Typed
  BY DEF TypeInv
<1>2. life' \in [Sockets -> Lives]
  BY <1>1 DEF Seated, AdmittedNow, Closed, Typed, Lives
<1>3. seat' \in [Phones -> Links \cup {Nobody}]
  BY <1>1 DEF Seated, Typed
<1>4. entry' \in [Phones -> Entries]
  <2> DEFINE p == Link(l)
             e == IF seat[p] \notin {Nobody, l} THEN Dropped(entry[p], seat[p]) ELSE entry[p]
  <2>1. e \in Entries
    BY <1>1, TypeDropped, TypeLinks DEF Typed
  <2>2. Gone \in Entries /\ Bound(l) \in Entries
    BY DEF Gone, Bound, Entries
  <2> HIDE DEF e
  <2>3. (IF adopts THEN Adopt(e, l) ELSE e) \in Entries
    BY <2>1, <2>2 DEF Adopt
  <2>4. entry' = [entry EXCEPT ![p] = IF adopts THEN Adopt(e, l) ELSE e]
    BY DEF Seated, e
  <2> QED BY <1>1, <2>3, <2>4 DEF Typed
<1>5. /\ held' \subseteq Phones /\ rows' \subseteq Phones /\ told' \subseteq Phones
      /\ blurred' \in BOOLEAN
  <2>1. told' \in {told, ToComputer(told \cup {Link(l)})} /\ blurred' \in {blurred, Blur}
        /\ UNCHANGED <<held, rows>>
    BY DEF Seated
  <2>2. ToComputer(told \cup {Link(l)}) \subseteq Phones
    BY <1>1, TypeLinks DEF Typed, ToComputer
  <2>3. Blur \in BOOLEAN
    BY <1>1 DEF Typed, Blur
  <2> QED BY <1>1, <2>1, <2>2, <2>3 DEF Typed
<1> QED BY <1>2, <1>3, <1>4, <1>5 DEF Typed

LEMMA TypeReconnected ==
    ASSUME TypeInv, NEW l \in Links, PhoneReconnected(l) \/ Busy(l) \/ TurnedAway(l)
    PROVE  Typed'
<1>1. Typed
  BY DEF TypeInv
<1>2. Busy(l) \/ TurnedAway(l) => Typed'
  BY <1>1, TypeLinks DEF Busy, TurnedAway, Heard, Typed, Lives
<1> QED BY <1>2, TypeSeated DEF PhoneReconnected

LEMMA TypePhone ==
    ASSUME TypeInv, PhoneSteps, UNCHANGED replica
    PROVE  TypeInv'
<1>1. Typed
  BY DEF TypeInv
<1>2. ASSUME NEW l \in Links, PhoneReconnects(l) \/ PhoneAnswered(l) \/ PhonePairs(l)
      PROVE  Typed'
  BY <1>2, TypeReconnected, TypeSeated DEF PhoneReconnects, PhoneAnswered, PhonePairs
<1>3. ASSUME NEW l \in Links, Unpairs(l)
      PROVE  Typed'
  BY <1>1, <1>3 DEF Unpairs, Typed, ToComputer, Blur
<1>4. ASSUME NEW l \in Links, Speaks(l)
      PROVE  Typed'
  BY <1>1, <1>4, TypeLinks DEF Speaks, Typed, Bound, Adopt, Gone, Entries, history
<1>5. ASSUME NEW l \in Links, NEW deliberate \in BOOLEAN, PhoneDrops(l, deliberate)
      PROVE  Typed'
  <2>1. Dropped(entry[Link(l)], l) \in Entries /\ Gone \in Entries
    BY <1>1, TypeDropped, TypeLinks DEF Typed, Gone, Entries
  <2> QED BY <1>1, <1>5, <2>1 DEF PhoneDrops, Leaves, Typed, Lives, ToComputer, Blur
<1>6. ASSUME NEW p \in Phones, GraceExpires(p) \/ HoldEnds(p)
      PROVE  Typed'
  <2>1. CASE GraceExpires(p)
    <3>1. Gone \in Entries
      BY DEF Gone, Entries
    <3> QED BY <1>1, <2>1, <3>1 DEF GraceExpires, Leaves, Typed, ToComputer, Blur
  <2>2. CASE HoldEnds(p)
    BY <1>1, <2>2 DEF HoldEnds, Typed, history
  <2> QED BY <1>6, <2>1, <2>2
<1>7. /\ UNCHANGED <<replica, slot, online, probes, ghost>> /\ asking' \subseteq asking
  BY DEF PhoneSteps, PhoneReconnects, PhoneAnswered, PhonePairs, Unpairs, Speaks, PhoneDrops,
         GraceExpires, HoldEnds, history
<1> QED BY <1>2, <1>3, <1>4, <1>5, <1>6, <1>7 DEF TypeInv, PhoneSteps

LEMMA TypePc ==
    ASSUME TypeInv, PcSteps, UNCHANGED replica
    PROVE  TypeInv'
<1>1. Typed
  BY DEF TypeInv
<1>2. ASSUME NEW k \in Desktops, PcJoins(k) \/ PcAnswered(k)
      PROVE  TypeInv'
  <2>1. PcAdmitted(k) /\ asking' \subseteq asking
    BY <1>2 DEF PcJoins, PcAnswered
  <2>2. probes' \in Seq(Probe)
    <3> DEFINE q == [by |-> k, asked |-> {seat[p] : p \in Present}, alive |-> {}]
    <3>1. Present # {} => q \in Probe
      BY <1>1 DEF Probe, Present, Typed
    <3> HIDE DEF q
    <3> QED BY <2>1, <3>1, AppendProperties DEF PcAdmitted, AskPhones, TypeInv, q
  <2>3. Typed'
    BY <1>1, <2>1 DEF PcAdmitted, TakeSlot, AdmittedNow, Closed, Typed, Lives, registryVars
  <2>4. slot' = k /\ online' \in BOOLEAN /\ ghost' \in BOOLEAN
    BY <2>1 DEF PcAdmitted, TakeSlot
  <2> QED BY <2>1, <2>2, <2>3, <2>4 DEF TypeInv
<1>3. ASSUME NEW k \in Desktops, PcDrops(k)
      PROVE  TypeInv'
  <2>1. Typed'
    BY <1>1, <1>3 DEF PcDrops, Typed, Lives, registryVars
  <2> QED BY <1>3, <2>1 DEF TypeInv, PcDrops
<1>4. ASSUME NEW k \in Desktops, NEW p \in Phones, NEW revoke \in BOOLEAN, Release(k, p, revoke)
      PROVE  TypeInv'
  <2>1. seat[p] # Nobody => Dropped(entry[p], seat[p]) \in Entries
    BY <1>1, TypeDropped DEF Typed
  <2>2. Typed'
    BY <1>1, <1>4, <2>1 DEF Release, Typed, Lives, history
  <2> QED BY <1>4, <2>2 DEF TypeInv, Release, history
<1> QED BY <1>2, <1>3, <1>4 DEF PcSteps

LEMMA TypeProbe ==
    ASSUME TypeInv, ProbeSteps, UNCHANGED replica
    PROVE  TypeInv'
<1>1. Typed
  BY DEF TypeInv
<1>2. ASSUME NEW i \in DOMAIN probes, NEW l \in Links, Pong(i, l)
      PROVE  TypeInv'
  <2> DEFINE alive == probes[i].alive \cup {l}
  <2>1. probes[i] \in Probe /\ alive \subseteq probes[i].asked
    BY <1>2, TypeProbes DEF Pong, Probe
  <2>2. CASE alive = probes[i].asked
    BY <1>2, <2>1, <2>2, TypeProbeEnds DEF TypeInv, Pong
  <2>3. CASE alive # probes[i].asked
    <3>1. [probes[i] EXCEPT !.alive = alive] \in Probe
      BY <2>1, <2>3 DEF Probe
    <3>2. probes' = [probes EXCEPT ![i] = [probes[i] EXCEPT !.alive = alive]]
      BY <1>2, <2>3 DEF Pong
    <3>3. probes' \in Seq(Probe)
      BY <3>1, <3>2, ExceptSeq, LenProperties DEF TypeInv
    <3> QED BY <1>1, <1>2, <2>3, <3>3 DEF TypeInv, Pong, Typed
  <2> QED BY <2>2, <2>3
<1>3. ASSUME ProbeTimesOut
      PROVE  TypeInv'
  <2>1. 1 \in DOMAIN probes
    BY <1>3, EmptySeq, LenProperties DEF ProbeTimesOut, TypeInv
  <2>2. probes[1].alive \in SUBSET probes[1].asked
    BY <2>1, TypeProbes DEF Probe
  <2> QED BY <1>3, <2>1, <2>2, TypeProbeEnds DEF TypeInv, ProbeTimesOut
<1> QED BY <1>2, <1>3 DEF ProbeSteps

LEMMA TypeInit == Init => TypeInv
<1> SUFFICES ASSUME Init PROVE TypeInv
  OBVIOUS
<1>1. probes \in Seq(Probe)
  BY EmptySeq DEF Init
<1>2. Typed
  BY DEF Init, Typed, Lives, Entries, Gone
<1> QED BY <1>1, <1>2 DEF TypeInv, Init

LEMMA TypeNext == TypeInv /\ [Next]_vars => TypeInv'
<1> SUFFICES ASSUME TypeInv, [Next]_vars PROVE TypeInv'
  OBVIOUS
<1>1. ASSUME NEW s \in Sockets, Asks(s) \/ Refused(s), UNCHANGED replica
      PROVE  TypeInv'
  <2>1. Typed /\ Typed'
    BY <1>1 DEF TypeInv, Asks, Refused, Typed, Lives, registryVars, history
  <2> QED BY <1>1, <2>1 DEF TypeInv, Asks, Refused, history
<1>2. CASE UNCHANGED vars
  BY <1>2 DEF TypeInv, vars, registryVars, history, Typed
<1> QED BY <1>1, <1>2, TypePc, TypePhone, TypeProbe DEF Next

(* Each part of the room is in one of its states, for any number of          *)
(* desktops, phones and sockets: an entry owes a farewell only while it has  *)
(* no socket, and no probe is left whose phones have all answered.           *)
THEOREM TypeCorrect == Spec => []TypeOK
<1>1. TypeInv => TypeOK
  BY TypeProbes DEF TypeInv, TypeOK, Typed, Entries, Lives, Probe
<1> QED BY TypeInit, TypeNext, <1>1, PTL DEF Spec
-----------------------------------------------------------------------------
(* Seats, graces, and the one live phone                                     *)

\* A dropped socket is left to the grace of its phone, unless the entry is another's.
LEMMA DroppedOwes ==
    ASSUME NEW e \in Entries, NEW l \in Links
    PROVE  /\ ~Admitted(l) => Dropped(e, l) = e
           /\ Admitted(l) /\ e.socket \notin Links \ {l} =>
                 Dropped(e, l) = [socket |-> Nobody, owed |-> e.owed \cup {l}]
           /\ Admitted(l) /\ e.socket \in Links \ {l} => Dropped(e, l) = e
BY DEF Dropped, BeginGrace

\* What moves no phone's socket, but for a first request, leaves the phones alone.
LEMMA PhonesApart ==
    ASSUME TypeInv, PhonesInv, UNCHANGED <<seat, entry, rows>>,
           \A l \in Links : life'[l] = life[l] \/ (life[l] = "new" /\ life'[l] = "open")
    PROVE  PhonesInv'
<1> USE DEF PhonesInv, TypeInv, Typed
<1>1. \A l \in Links : /\ Admitted(l)' <=> Admitted(l)
                       /\ Open(l) => Open(l)'
                       /\ life[l] = "closed" => life'[l] = "closed"
  BY DEF Admitted, Open
<1>2. Present' = Present
  BY DEF Present
<1>3. SeatInv' /\ EntryInv' /\ OneInv'
  BY <1>1, <1>2 DEF SeatInv, EntryInv, OneInv, Entries, Present, Admitted
<1>4. CorpsesExpire'
  BY <1>1, <1>2 DEF CorpsesExpire, Present
<1> QED BY <1>3, <1>4

LEMMA PhonesSeated ==
    ASSUME TypeInv, PhonesInv, NEW l \in Links, NEW adopts \in BOOLEAN, Seated(l, adopts),
           life[l] # "closed", Link(l) \in rows, ~Contended(Link(l))
    PROVE  PhonesInv'
<1> DEFINE p == Link(l)
           old == seat[p]
           e == IF old \notin {Nobody, l} THEN Dropped(entry[p], old) ELSE entry[p]
<1> USE DEF PhonesInv, TypeInv, Typed
<1>1. p \in Phones /\ old \in Links \cup {Nobody} /\ l # Nobody
      /\ \A m \in Links : m \in Sockets /\ m # Nobody
  BY TypeLinks
<1>2. /\ life'[l] = "admitted"
      /\ old \notin {Nobody, l} => life'[old] = "closed"
      /\ \A m \in Links \ {l, old} : life'[m] = life[m]
  BY <1>1 DEF Seated, AdmittedNow, Closed
<1>3. /\ seat'[p] = l /\ \A q \in Phones \ {p} : seat'[q] = seat[q]
      /\ \A q \in Phones \ {p} : entry'[q] = entry[q]
      /\ entry'[p] = (IF adopts THEN Adopt(e, l) ELSE e)
      /\ rows' = rows
  BY <1>1 DEF Seated
<1>4. /\ e \in Entries
      /\ \A m \in e.owed : m \in Links /\ m # l /\ life'[m] = "closed"
      /\ e.socket \in Links => e.socket = l
  <2>1. CASE old \notin {Nobody, l}
    <3>1. e = Dropped(entry[p], old) /\ entry[p] \in Entries /\ old \in Links
      BY <1>1, <2>1
    <3>2. Link(old) = p /\ (entry[p].socket \in Links => entry[p].socket = old /\ Admitted(old))
      BY <1>1, <2>1 DEF SeatInv, EntryInv, Present
    <3>3. \A m \in entry[p].owed : m \in Links /\ life[m] = "closed"
      BY <1>1 DEF EntryInv, Entries
    <3>4. \A m \in entry[p].owed : m # l /\ life'[m] = "closed"
      BY <1>2, <2>1, <3>3
    <3>5. CASE Admitted(old)
      BY <1>2, <2>1, <3>1, <3>2, <3>3, <3>4, <3>5, DroppedOwes, <1>1, SocketsAssumption DEF Entries
    <3>6. CASE ~Admitted(old)
      BY <3>1, <3>2, <3>3, <3>4, <3>6, DroppedOwes
    <3> QED BY <3>5, <3>6
  <2>2. CASE old \in {Nobody, l}
    <3>1. e = entry[p] /\ entry[p] \in Entries
      BY <1>1, <2>2
    <3>2. \A m \in entry[p].owed : m \in Links /\ life[m] = "closed" /\ m # old /\ m # l
      <4>1. \A m \in entry[p].owed : m \in Links /\ life[m] = "closed"
        BY <1>1 DEF EntryInv, Entries
      <4> QED BY <1>1, <2>2, <4>1
    <3>3. entry[p].socket \in Links => entry[p].socket = l
      BY <1>1, <2>2 DEF EntryInv, SeatInv
    <3> QED BY <1>2, <3>1, <3>2, <3>3
  <2> QED BY <2>1, <2>2
<1> HIDE DEF e
<1>5. /\ entry'[p].socket \in Links => entry'[p].socket = l
      /\ \A m \in entry'[p].owed : life'[m] = "closed"
  BY <1>3, <1>4 DEF Adopt, Gone, Bound, Entries
<1>6. \A m \in Links : Admitted(m)' => m = l \/ (Admitted(m) /\ m # old /\ Link(m) # p)
  BY <1>1, <1>2 DEF Admitted, SeatInv, Present
<1>7. SeatInv'
  <2>1. ASSUME NEW q \in Present'
        PROVE  Link(seat'[q]) = q /\ life'[seat'[q]] \in {"admitted", "closed"}
    <3>1. CASE q = p
      BY <1>2, <1>3, <3>1
    <3>2. CASE q # p
      <4>1. q \in Present /\ seat'[q] = seat[q] /\ seat[q] \in Links /\ Link(seat[q]) = q
        BY <1>3, <2>1, <3>2 DEF Present, SeatInv
      <4>2. seat[q] # l /\ life'[seat[q]] \in {life[seat[q]], "closed"}
        BY <1>1, <1>2, <3>2, <4>1
      <4> QED BY <4>1, <4>2 DEF SeatInv
    <3> QED BY <3>1, <3>2
  <2>2. ASSUME NEW m \in Links, Admitted(m)'
        PROVE  seat'[Link(m)] = m \/ (seat'[Link(m)] = Nobody /\ Link(m) \notin rows')
    BY <1>3, <1>6, <2>2, TypeLinks DEF SeatInv
  <2> QED BY <2>1, <2>2 DEF SeatInv
<1>8. EntryInv'
  <2> SUFFICES ASSUME NEW q \in Phones
               PROVE  /\ entry'[q].socket \in Links =>
                            Link(entry'[q].socket) = q /\ life'[entry'[q].socket] = "admitted"
                      /\ \A m \in entry'[q].owed : life'[m] = "closed"
    BY DEF EntryInv, Admitted
  <2>1. CASE q = p
    BY <1>2, <1>5, <2>1
  <2>2. CASE q # p
    <3>1. entry'[q] = entry[q]
      BY <1>3, <2>2
    <3>2. entry[q].socket \in Links => life'[entry[q].socket] = "admitted"
      <4> SUFFICES ASSUME entry[q].socket \in Links PROVE life'[entry[q].socket] = "admitted"
        OBVIOUS
      <4>1. Link(entry[q].socket) = q /\ Admitted(entry[q].socket)
        BY DEF EntryInv
      <4>2. entry[q].socket \notin {l, old}
        BY <2>2, <4>1, <1>1 DEF SeatInv, Present
      <4> QED BY <1>2, <4>1, <4>2 DEF Admitted
    <3>3. \A m \in entry[q].owed : m \in Links /\ life[m] = "closed"
      BY DEF EntryInv, Entries
    <3>4. \A m \in entry[q].owed : life'[m] = "closed"
      BY <1>1, <1>2, <3>3
    <3> QED BY <3>1, <3>2, <3>4 DEF EntryInv
  <2> QED BY <2>1, <2>2
<1>9. CorpsesExpire'
  <2> SUFFICES ASSUME NEW q \in Present'
               PROVE  life'[seat'[q]] \in {"open", "admitted"} \/ seat'[q] \in entry'[q].owed
    BY DEF CorpsesExpire, Open
  <2>1. CASE q = p
    BY <1>2, <1>3, <2>1
  <2>2. CASE q # p
    <3>1. q \in Present /\ seat'[q] = seat[q] /\ seat[q] \in Links /\ Link(seat[q]) = q
          /\ entry'[q] = entry[q]
      BY <1>3, <2>2 DEF Present, SeatInv
    <3>2. seat[q] \notin {l, old}
      BY <1>1, <2>2, <3>1 DEF SeatInv, Present
    <3> QED BY <1>2, <3>1, <3>2 DEF CorpsesExpire, Open
  <2> QED BY <2>1, <2>2
<1>10. OneInv'
  <2> SUFFICES ASSUME NEW m \in Links, Admitted(m)', Link(m) \in rows, m # l
               PROVE  FALSE
    BY <1>3 DEF OneInv, SeatInv
  <2>1. Admitted(m) /\ Link(m) # p /\ Link(m) \in Phones
    BY <1>6, TypeLinks
  <2>2. seat[Link(m)] = m
    BY <2>1 DEF SeatInv
  <2> QED BY <1>1, <2>1, <2>2 DEF Contended, Open, Admitted
<1> QED BY <1>7, <1>8, <1>9, <1>10

\* What a dropped socket's phone is left with.
LEMMA DroppedKeeps ==
    ASSUME TypeInv, PhonesInv, NEW c \in Links
    PROVE  LET p == Link(c)
               d == Dropped(entry[p], c)
           IN  /\ d \in Entries
               /\ d.socket \in Links => d.socket = entry[p].socket /\ d.socket # c
               /\ entry[p].owed \subseteq d.owed /\ d.owed \subseteq entry[p].owed \cup {c}
               /\ seat[p] = c => c \in d.owed
<1> DEFINE p == Link(c)
           d == Dropped(entry[p], c)
<1> USE DEF PhonesInv, TypeInv, Typed
<1>1. p \in Phones /\ entry[p] \in Entries /\ Nobody \notin Links /\ c \in Sockets
  BY TypeLinks
<1>2. d \in Entries
  BY <1>1, TypeDropped
<1>3. CASE Admitted(c) /\ entry[p].socket \notin Links \ {c}
  BY <1>1, <1>2, <1>3, DroppedOwes DEF Entries
<1>4. CASE Admitted(c) /\ entry[p].socket \in Links \ {c}
  BY <1>1, <1>2, <1>4, DroppedOwes DEF EntryInv, SeatInv
<1>5. CASE ~Admitted(c)
  <2>1. d = entry[p]
    BY <1>1, <1>5, DroppedOwes
  <2>2. d.socket \in Links => d.socket # c
    BY <1>1, <1>5, <2>1 DEF EntryInv
  <2>3. seat[p] = c => c \in d.owed
    BY <1>1, <1>5, <2>1 DEF SeatInv, CorpsesExpire, Present, Open, Admitted
  <2> QED BY <1>2, <2>1, <2>2, <2>3
<1> QED BY <1>3, <1>4, <1>5

\* Closing sockets, with their phones' graces begun or their seats given up.
LEMMA PhonesClosed ==
    ASSUME TypeInv, PhonesInv, NEW C \in SUBSET Links,
           \A l \in Links : life'[l] = IF l \in C THEN "closed" ELSE life[l],
           rows' \subseteq rows,
           \A p \in Phones :
               /\ seat'[p] = seat[p]
                    \/ (seat'[p] = Nobody /\ (p \notin rows' \/ life'[seat[p]] = "closed"))
               /\ entry'[p].socket \in Links =>
                    entry'[p].socket = entry[p].socket /\ entry'[p].socket \notin C
               /\ \A l \in entry'[p].owed : life'[l] = "closed"
               /\ seat'[p] # Nobody =>
                    life'[seat[p]] \in {"open", "admitted"} \/ seat[p] \in entry'[p].owed
    PROVE  PhonesInv'
<1> USE DEF PhonesInv, TypeInv, Typed
<1>1. \A p \in Phones : seat'[p] = seat[p] \/ seat'[p] = Nobody
  OBVIOUS
<1>2. \A l \in Links : life'[l] = "admitted" => life[l] = "admitted" /\ l \notin C
  OBVIOUS
<1>3. \A p \in Phones : seat'[p] # Nobody => seat[p] \in Links /\ seat[p] # Nobody /\ seat'[p] = seat[p]
  BY <1>1
<1>4. SeatInv'
  <2>1. ASSUME NEW p \in Present'
        PROVE  Link(seat'[p]) = p /\ life'[seat'[p]] \in {"admitted", "closed"}
    <3>1. p \in Present /\ seat'[p] = seat[p] /\ seat[p] \in Links
      BY <1>3, <2>1 DEF Present
    <3> QED BY <3>1 DEF SeatInv
  <2>2. ASSUME NEW l \in Links, life'[l] = "admitted"
        PROVE  seat'[Link(l)] = l \/ (seat'[Link(l)] = Nobody /\ Link(l) \notin rows')
    <3>1. Link(l) \in Phones /\ life[l] = "admitted"
      BY <1>2, <2>2, TypeLinks
    <3>2. seat[Link(l)] = l \/ (seat[Link(l)] = Nobody /\ Link(l) \notin rows)
      BY <3>1 DEF SeatInv, Admitted
    <3> QED BY <1>1, <2>2, <3>1, <3>2
  <2> QED BY <2>1, <2>2 DEF SeatInv, Admitted
<1>5. EntryInv'
  <2> SUFFICES ASSUME NEW p \in Phones
               PROVE  /\ entry'[p].socket \in Links =>
                            Link(entry'[p].socket) = p /\ life'[entry'[p].socket] = "admitted"
                      /\ \A m \in entry'[p].owed : life'[m] = "closed"
    BY DEF EntryInv, Admitted
  <2> QED BY DEF EntryInv, Admitted
<1>6. CorpsesExpire'
  BY <1>3 DEF CorpsesExpire, Present, Open
<1>7. OneInv'
  <2> SUFFICES ASSUME NEW l \in Links, NEW m \in Links, life'[l] = "admitted",
                      life'[m] = "admitted", {Link(l), Link(m)} \subseteq rows'
               PROVE  l = m
    BY DEF OneInv, Admitted
  <2> QED BY <1>2 DEF OneInv, Admitted
<1> QED BY <1>4, <1>5, <1>6, <1>7

\* The same where no socket closes.
LEMMA PhonesStay ==
    ASSUME TypeInv, PhonesInv, UNCHANGED life, rows' \subseteq rows,
           \A p \in Phones :
               /\ seat'[p] = seat[p]
                    \/ (seat'[p] = Nobody /\ (p \notin rows' \/ life'[seat[p]] = "closed"))
               /\ entry'[p].socket \in Links => entry'[p].socket = entry[p].socket
               /\ \A l \in entry'[p].owed : life'[l] = "closed"
               /\ seat'[p] # Nobody =>
                    life'[seat[p]] \in {"open", "admitted"} \/ seat[p] \in entry'[p].owed
    PROVE  PhonesInv'
<1> DEFINE C == {}
<1>1. C \in SUBSET Links /\ \A l \in Links : life'[l] = IF l \in C THEN "closed" ELSE life[l]
  OBVIOUS
<1>2. \A p \in Phones :
          entry'[p].socket \in Links => entry'[p].socket = entry[p].socket /\ entry'[p].socket \notin C
  OBVIOUS
<1> HIDE DEF C
<1> QED BY <1>1, <1>2, PhonesClosed

LEMMA PhonesDrop ==
    ASSUME TypeInv, PhonesInv, NEW l \in Links, NEW deliberate \in BOOLEAN,
           PhoneDrops(l, deliberate)
    PROVE  PhonesInv'
<1> DEFINE p == Link(l)
           e == Dropped(entry[p], l)
<1>1. /\ p \in Phones /\ Nobody \notin Links /\ l \in Sockets /\ Links \subseteq Sockets
      /\ \A q \in Phones : entry[q] \in Entries
  BY TypeLinks DEF TypeInv, Typed
<1>2. \A m \in Links : life'[m] = IF m \in {l} THEN "closed" ELSE life[m]
  BY <1>1 DEF PhoneDrops, TypeInv, Typed
<1>3. /\ e \in Entries
      /\ e.socket \in Links => e.socket = entry[p].socket /\ e.socket # l
      /\ entry[p].owed \subseteq e.owed /\ e.owed \subseteq entry[p].owed \cup {l}
      /\ seat[p] = l => l \in e.owed
  BY DroppedKeeps DEF PhonesInv
<1> HIDE DEF e
<1>4. \A q \in Phones : \A m \in entry[q].owed : m \in Links /\ life'[m] = "closed"
  BY <1>1, <1>2 DEF PhonesInv, EntryInv, Entries
<1>5. \A m \in e.owed : m \in Links /\ life'[m] = "closed"
  BY <1>1, <1>2, <1>3, <1>4
<1>6. \A q \in Phones \ {p} :
          /\ seat'[q] = seat[q] /\ entry'[q] = entry[q]
          /\ seat[q] # l /\ entry[q].socket # l
  BY <1>1 DEF PhoneDrops, Leaves, TypeInv, Typed, PhonesInv, SeatInv, EntryInv, Present
<1>7. ASSUME NEW q \in Phones
      PROVE  seat[q] = Nobody \/ seat[q] = l \/ life'[seat[q]] \in {"open", "admitted"}
                \/ seat[q] \in entry[q].owed
  BY <1>2 DEF PhonesInv, CorpsesExpire, Present, Open, TypeInv, Typed
<1>8. CASE /\ entry' = [entry EXCEPT ![p] = Gone]
           /\ seat' = IF seat[p] \in e.owed THEN [seat EXCEPT ![p] = Nobody] ELSE seat
  <2>1. entry'[p] = Gone /\ Gone.owed = {} /\ Gone.socket \notin Links
    BY <1>1, <1>8, SocketsAssumption DEF Gone, TypeInv, Typed, Sockets
  <2>2. /\ seat[p] \in e.owed => seat'[p] = Nobody
        /\ seat[p] \notin e.owed => seat'[p] = seat[p]
    BY <1>1, <1>8 DEF TypeInv, Typed
  <2>3. seat[p] # Nobody /\ seat[p] \notin e.owed => life'[seat[p]] \in {"open", "admitted"}
    BY <1>1, <1>3, <1>7
  <2>4. rows' = rows
    BY DEF PhoneDrops
  <2>5. \A q \in Phones :
               /\ seat'[q] = seat[q]
                    \/ (seat'[q] = Nobody /\ (q \notin rows' \/ life'[seat[q]] = "closed"))
               /\ entry'[q].socket \in Links =>
                    entry'[q].socket = entry[q].socket /\ entry'[q].socket \notin {l}
               /\ \A m \in entry'[q].owed : life'[m] = "closed"
               /\ seat'[q] # Nobody =>
                    life'[seat[q]] \in {"open", "admitted"} \/ seat[q] \in entry'[q].owed
    BY <1>4, <1>5, <1>6, <1>7, <2>1, <2>2, <2>3
  <2> QED BY <1>2, <2>4, <2>5, PhonesClosed
<1>9. CASE entry' = [entry EXCEPT ![p] = e] /\ seat' = seat
  <2>1. entry'[p] = e /\ rows' = rows
    BY <1>1, <1>9 DEF TypeInv, Typed, PhoneDrops
  <2>2. \A q \in Phones :
               /\ seat'[q] = seat[q]
                    \/ (seat'[q] = Nobody /\ (q \notin rows' \/ life'[seat[q]] = "closed"))
               /\ entry'[q].socket \in Links =>
                    entry'[q].socket = entry[q].socket /\ entry'[q].socket \notin {l}
               /\ \A m \in entry'[q].owed : life'[m] = "closed"
               /\ seat'[q] # Nobody =>
                    life'[seat[q]] \in {"open", "admitted"} \/ seat[q] \in entry'[q].owed
    BY <1>3, <1>4, <1>5, <1>6, <1>7, <1>9, <2>1
  <2> QED BY <1>2, <2>1, <2>2, PhonesClosed
<1> QED BY <1>8, <1>9 DEF PhoneDrops, Leaves, e

LEMMA PhonesGrace ==
    ASSUME TypeInv, PhonesInv, NEW p \in Phones, GraceExpires(p)
    PROVE  PhonesInv'
<1>1. /\ UNCHANGED <<life, rows>> /\ entry' = [entry EXCEPT ![p] = Gone]
      /\ seat' = IF seat[p] \in entry[p].owed THEN [seat EXCEPT ![p] = Nobody] ELSE seat
  BY DEF GraceExpires, Leaves
<1>2. Nobody \notin Links /\ entry'[p] = Gone /\ Gone.owed = {} /\ Gone.socket \notin Links
  BY <1>1, TypeLinks, SocketsAssumption DEF Gone, TypeInv, Typed, Sockets
<1>3. \A q \in Phones \ {p} : seat'[q] = seat[q] /\ entry'[q] = entry[q]
  BY <1>1 DEF TypeInv, Typed
<1>4. \A q \in Phones : \A m \in entry[q].owed : life'[m] = "closed"
  BY <1>1 DEF PhonesInv, EntryInv
<1>5. \A q \in Present : life'[seat[q]] \in {"open", "admitted"} \/ seat[q] \in entry[q].owed
  BY <1>1 DEF PhonesInv, CorpsesExpire, Open
<1>6. /\ seat[p] \in entry[p].owed => seat'[p] = Nobody
      /\ seat[p] \notin entry[p].owed => seat'[p] = seat[p]
  BY <1>1 DEF TypeInv, Typed
<1>7. \A q \in Phones :
               /\ seat'[q] = seat[q]
                    \/ (seat'[q] = Nobody /\ (q \notin rows' \/ life'[seat[q]] = "closed"))
               /\ entry'[q].socket \in Links =>
                    entry'[q].socket = entry[q].socket
               /\ \A m \in entry'[q].owed : life'[m] = "closed"
               /\ seat'[q] # Nobody =>
                    life'[seat[q]] \in {"open", "admitted"} \/ seat[q] \in entry'[q].owed
  BY <1>2, <1>3, <1>4, <1>5, <1>6 DEF Present
<1> QED BY <1>1, <1>7, PhonesStay

LEMMA PhonesUnpair ==
    ASSUME TypeInv, PhonesInv, NEW l \in Links, Unpairs(l)
    PROVE  PhonesInv'
<1> DEFINE p == Link(l)
<1>1. /\ UNCHANGED <<life, entry>> /\ seat' = [seat EXCEPT ![p] = Nobody]
      /\ rows' = rows \ {p} /\ p \in Phones
  BY TypeLinks DEF Unpairs
<1>2. seat'[p] = Nobody /\ \A q \in Phones \ {p} : seat'[q] = seat[q]
  BY <1>1 DEF TypeInv, Typed
<1>3. \A q \in Present : life'[seat[q]] \in {"open", "admitted"} \/ seat[q] \in entry[q].owed
  BY <1>1 DEF PhonesInv, CorpsesExpire, Open
<1>4. \A q \in Phones : \A m \in entry[q].owed : life'[m] = "closed"
  BY <1>1 DEF PhonesInv, EntryInv
<1>5. \A q \in Phones :
               /\ seat'[q] = seat[q]
                    \/ (seat'[q] = Nobody /\ (q \notin rows' \/ life'[seat[q]] = "closed"))
               /\ entry'[q].socket \in Links =>
                    entry'[q].socket = entry[q].socket
               /\ \A m \in entry'[q].owed : life'[m] = "closed"
               /\ seat'[q] # Nobody =>
                    life'[seat[q]] \in {"open", "admitted"} \/ seat[q] \in entry'[q].owed
  BY <1>1, <1>2, <1>3, <1>4 DEF Present
<1> QED BY <1>1, <1>5, PhonesStay

LEMMA PhonesRelease ==
    ASSUME TypeInv, PhonesInv, NEW k \in Desktops, NEW p \in Phones, NEW revoke \in BOOLEAN,
           Release(k, p, revoke)
    PROVE  PhonesInv'
<1>1. rows' \subseteq rows /\ seat' = seat
  BY DEF Release
<1>2. CASE seat[p] = Nobody
  <2>1. UNCHANGED <<life, entry>>
    BY <1>2 DEF Release
  <2>2. \A q \in Present : life'[seat[q]] \in {"open", "admitted"} \/ seat[q] \in entry[q].owed
    BY <2>1 DEF PhonesInv, CorpsesExpire, Open
  <2>3. \A q \in Phones : \A m \in entry[q].owed : life'[m] = "closed"
    BY <2>1 DEF PhonesInv, EntryInv
  <2>4. \A q \in Phones :
               /\ seat'[q] = seat[q]
               /\ entry'[q].socket \in Links =>
                    entry'[q].socket = entry[q].socket
               /\ \A m \in entry'[q].owed : life'[m] = "closed"
               /\ seat'[q] # Nobody =>
                    life'[seat[q]] \in {"open", "admitted"} \/ seat[q] \in entry'[q].owed
    BY <1>1, <2>1, <2>2, <2>3 DEF Present
  <2> QED BY <1>1, <2>1, <2>4, PhonesStay
<1>3. CASE seat[p] # Nobody
  <2> DEFINE c == seat[p]
             d == Dropped(entry[p], c)
  <2>1. c \in Links /\ Link(c) = p /\ c \in Sockets
    BY <1>3, TypeLinks DEF TypeInv, Typed, PhonesInv, SeatInv, Present
  <2>2. \A m \in Links : life'[m] = IF m \in {c} THEN "closed" ELSE life[m]
    BY <1>3, <2>1, TypeLinks DEF Release, TypeInv, Typed
  <2>3. /\ d.socket \in Links => d.socket = entry[p].socket /\ d.socket # c
        /\ entry[p].owed \subseteq d.owed /\ d.owed \subseteq entry[p].owed \cup {c}
        /\ c \in d.owed
    BY <2>1, DroppedKeeps
  <2>4. entry'[p] = d /\ \A q \in Phones \ {p} : entry'[q] = entry[q]
    BY <1>3 DEF Release, TypeInv, Typed
  <2> HIDE DEF d
  <2>5. \A q \in Phones : \A m \in entry[q].owed : m \in Links /\ life'[m] = "closed"
    BY <2>2 DEF PhonesInv, EntryInv, TypeInv, Typed, Entries
  <2>6. \A q \in Phones \ {p} : seat[q] # c /\ entry[q].socket # c
    BY <2>1, <1>3 DEF PhonesInv, SeatInv, EntryInv, Present
  <2>7. \A q \in Present \ {p} : life'[seat[q]] \in {"open", "admitted"} \/ seat[q] \in entry[q].owed
    BY <2>2, <2>6 DEF PhonesInv, CorpsesExpire, Open, Present, TypeInv, Typed
  <2>8. \A q \in Phones :
               /\ seat'[q] = seat[q]
               /\ entry'[q].socket \in Links =>
                    entry'[q].socket = entry[q].socket /\ entry'[q].socket \notin {c}
               /\ \A m \in entry'[q].owed : life'[m] = "closed"
               /\ seat'[q] # Nobody =>
                    life'[seat[q]] \in {"open", "admitted"} \/ seat[q] \in entry'[q].owed
    BY <1>1, <2>1, <2>2, <2>3, <2>4, <2>5, <2>6, <2>7 DEF Present
  <2> QED BY <1>1, <2>1, <2>2, <2>8, PhonesClosed
<1> QED BY <1>2, <1>3

LEMMA PhonesProbeEnds ==
    ASSUME TypeInv, PhonesInv, NEW i \in DOMAIN probes, NEW alive \in SUBSET probes[i].asked,
           ProbeEnds(i, alive), UNCHANGED rows
    PROVE  PhonesInv'
<1> DEFINE dead == {Link(l) : l \in probes[i].asked \ alive}
           zombies == {seat[p] : p \in dead \cap Present}
<1>1. /\ seat' = [p \in Phones |-> IF p \in dead THEN Nobody ELSE seat[p]]
      /\ life' = Closed(life, zombies)
      /\ entry' = [p \in Phones |->
               IF p \in dead \cap Present THEN Dropped(entry[p], seat[p]) ELSE entry[p]]
  BY DEF ProbeEnds
<1> HIDE DEF dead
<1>2. \A q \in Present : q \in Phones /\ seat[q] \in Links /\ Link(seat[q]) = q
  BY TypeLinks DEF TypeInv, Typed, PhonesInv, SeatInv, Present
<1>3. zombies \in SUBSET Links /\ \A z \in zombies : Link(z) \in dead /\ seat[Link(z)] = z
  BY <1>2
<1>4. \A p \in Phones : seat[p] \in zombies <=> p \in dead \cap Present
  BY <1>2, <1>3, TypeLinks DEF Present
<1> HIDE DEF zombies
<1>5. \A l \in Links : life'[l] = IF l \in zombies THEN "closed" ELSE life[l]
  BY <1>1, TypeLinks DEF Closed
<1>6. ASSUME NEW p \in Phones
      PROVE  /\ seat'[p] = seat[p]
                    \/ (seat'[p] = Nobody /\ (p \notin rows' \/ life'[seat[p]] = "closed"))
             /\ entry'[p].socket \in Links =>
                    entry'[p].socket = entry[p].socket /\ entry'[p].socket \notin zombies
             /\ \A l \in entry'[p].owed : life'[l] = "closed"
             /\ seat'[p] # Nobody =>
                    life'[seat[p]] \in {"open", "admitted"} \/ seat[p] \in entry'[p].owed
  <2>1. \A m \in entry[p].owed : m \in Links /\ life'[m] = "closed"
    BY <1>5 DEF PhonesInv, EntryInv, TypeInv, Typed, Entries
  <2>2. CASE p \in dead \cap Present
    <3> DEFINE d == Dropped(entry[p], seat[p])
    <3>1. /\ d.socket \in Links => d.socket = entry[p].socket /\ d.socket # seat[p]
          /\ d.owed \subseteq entry[p].owed \cup {seat[p]}
      BY <1>2, <2>2, DroppedKeeps
    <3>2. entry'[p] = d /\ seat'[p] = Nobody /\ life'[seat[p]] = "closed"
      BY <1>1, <1>2, <1>4, <1>5, <2>2
    <3> HIDE DEF d
    <3>3. d.socket \in Links => d.socket \notin zombies
      BY <1>3, <3>1 DEF PhonesInv, EntryInv
    <3> QED BY <2>1, <3>1, <3>2, <3>3
  <2>3. CASE p \notin dead \cap Present
    <3>1. entry'[p] = entry[p] /\ seat'[p] = seat[p]
      BY <1>1, <2>3 DEF Present
    <3>2. entry[p].socket \in Links => entry[p].socket \notin zombies
      BY <1>3, <1>4, <2>3 DEF PhonesInv, EntryInv
    <3>3. seat[p] # Nobody => life'[seat[p]] = life[seat[p]] /\ p \in Present
      BY <1>2, <1>4, <1>5, <2>3 DEF Present
    <3> QED BY <2>1, <3>1, <3>2, <3>3 DEF PhonesInv, CorpsesExpire, Open
  <2> QED BY <2>2, <2>3
<1> QED BY <1>3, <1>5, <1>6, PhonesClosed

LEMMA PhonesSpeak ==
    ASSUME TypeInv, PhonesInv, NEW l \in Links, Speaks(l)
    PROVE  PhonesInv'
<1> DEFINE p == Link(l)
<1>1. /\ UNCHANGED <<life, seat, rows>> /\ life[l] = "admitted"
      /\ p \in Phones /\ Nobody \notin Links
      /\ \A q \in Phones \ {p} : entry'[q] = entry[q]
      /\ entry'[p] \in {Bound(l), Gone}
  BY TypeLinks DEF Speaks, Adopt, history, Admitted, TypeInv, Typed
<1>2. entry'[p].owed = {} /\ (entry'[p].socket \in Links => entry'[p].socket = l)
  BY <1>1, SocketsAssumption DEF Bound, Gone, Sockets
<1>3. SeatInv' /\ OneInv'
  BY <1>1 DEF PhonesInv, SeatInv, OneInv, Present, Admitted
<1>4. EntryInv'
  BY <1>1, <1>2 DEF PhonesInv, EntryInv, Admitted
<1>5. CorpsesExpire'
  <2>1. p \in Present => seat[p] = l
    BY <1>1 DEF PhonesInv, SeatInv, Present, Admitted
  <2> QED BY <1>1, <2>1 DEF PhonesInv, CorpsesExpire, Present, Open
<1> QED BY <1>3, <1>4, <1>5 DEF PhonesInv

LEMMA PhonesReconnected ==
    ASSUME TypeInv, PhonesInv, NEW l \in Links, life[l] # "closed",
           PhoneReconnected(l) \/ Busy(l) \/ TurnedAway(l)
    PROVE  PhonesInv'
<1>1. CASE Busy(l) \/ TurnedAway(l)
  <2>1. life' = Heard(l) /\ UNCHANGED <<seat, entry, rows>>
    BY <1>1 DEF Busy, TurnedAway
  <2>2. \A m \in Links : life'[m] = life[m] \/ (life[m] = "new" /\ life'[m] = "open")
    BY <2>1, TypeLinks DEF Heard, TypeInv, Typed
  <2> QED BY <2>1, <2>2, PhonesApart
<1>2. CASE Link(l) \in rows /\ ~Contended(Link(l)) /\ Seated(l, TRUE)
  BY <1>2, PhonesSeated
<1> QED BY <1>1, <1>2 DEF PhoneReconnected

LEMMA PhonesInit == Init => PhonesInv
<1> SUFFICES ASSUME Init PROVE PhonesInv
  OBVIOUS
<1>1. Present = {} /\ \A l \in Links : ~Admitted(l)
  BY TypeLinks DEF Init, Present, Admitted
<1>2. \A p \in Phones : entry[p].owed = {} /\ entry[p].socket \notin Links
  BY SocketsAssumption DEF Init, Gone, Sockets
<1> QED BY <1>1, <1>2 DEF PhonesInv, SeatInv, EntryInv, OneInv, CorpsesExpire

\* What a desktop does to the phones is done by releasing one.
LEMMA PhonesUnderPc ==
    ASSUME TypeInv, PhonesInv, PcSteps
    PROVE  PhonesInv'
<1>1. ASSUME NEW k \in Desktops, PcJoins(k) \/ PcAnswered(k) \/ PcDrops(k)
      PROVE  PhonesInv'
  <2>1. UNCHANGED <<seat, entry, rows>>
    BY <1>1 DEF PcJoins, PcAnswered, PcDrops, PcAdmitted, registryVars
  <2>2. \A l \in Links : l # k /\ l # slot /\ l \in Sockets
    BY SocketsAssumption, TypeLinks DEF TypeInv
  <2>3. CASE PcDrops(k)
    <3>1. \A l \in Links : life'[l] = life[l]
      BY <2>2, <2>3 DEF PcDrops, TypeInv, Typed
    <3> QED BY <2>1, <3>1, PhonesApart
  <2>4. CASE PcAdmitted(k)
    <3>1. \A l \in Links : AdmittedNow(k)[l] = life[l]
      BY <2>2 DEF AdmittedNow, TypeInv, Typed
    <3>2. \A l \in Links : life'[l] = life[l]
      BY <2>2, <2>4, <3>1 DEF PcAdmitted, TakeSlot, Closed
    <3> QED BY <2>1, <3>2, PhonesApart
  <2> QED BY <1>1, <2>3, <2>4 DEF PcJoins, PcAnswered
<1> QED BY <1>1, PhonesRelease DEF PcSteps

LEMMA PhonesUnderPhones ==
    ASSUME TypeInv, PhonesInv, PhoneSteps
    PROVE  PhonesInv'
<1>1. ASSUME NEW l \in Links, PhoneReconnects(l) \/ PhonePairs(l)
      PROVE  PhonesInv'
  BY <1>1, PhonesReconnected, PhonesSeated DEF PhoneReconnects, PhonePairs
<1>2. ASSUME NEW l \in Links, PhoneAnswered(l)
      PROVE  PhonesInv'
  <2>1. CASE Open(l)
    BY <1>2, <2>1, PhonesReconnected DEF PhoneAnswered, Open
  <2>2. CASE ~Open(l)
    <3>1. life' = Heard(l) /\ UNCHANGED <<seat, entry, rows>>
      BY <1>2, <2>2 DEF PhoneAnswered, TurnedAway
    <3>2. \A m \in Links : life'[m] = life[m] \/ (life[m] = "new" /\ life'[m] = "open")
      BY <3>1, TypeLinks DEF Heard, TypeInv, Typed
    <3> QED BY <3>1, <3>2, PhonesApart
  <2> QED BY <2>1, <2>2
<1>3. ASSUME NEW p \in Phones, HoldEnds(p)
      PROVE  PhonesInv'
  BY <1>3, PhonesApart DEF HoldEnds
<1> QED BY <1>1, <1>2, <1>3, PhonesUnpair, PhonesSpeak, PhonesDrop, PhonesGrace DEF PhoneSteps

LEMMA PhonesUnderProbes ==
    ASSUME TypeInv, PhonesInv, ProbeSteps
    PROVE  PhonesInv'
<1>1. ASSUME NEW i \in DOMAIN probes, NEW l \in Links, Pong(i, l)
      PROVE  PhonesInv'
  <2> DEFINE alive == probes[i].alive \cup {l}
  <2>1. alive \in SUBSET probes[i].asked
    BY <1>1, TypeProbes DEF Pong, Probe
  <2>2. CASE alive = probes[i].asked
    BY <1>1, <2>1, <2>2, PhonesProbeEnds DEF Pong
  <2>3. CASE alive # probes[i].asked
    <3>1. UNCHANGED <<life, seat, entry, rows>>
      BY <1>1, <2>3 DEF Pong
    <3> QED BY <3>1, PhonesApart
  <2> QED BY <2>2, <2>3
<1>2. ASSUME ProbeTimesOut
      PROVE  PhonesInv'
  <2>1. 1 \in DOMAIN probes
    BY <1>2, EmptySeq, LenProperties DEF ProbeTimesOut, TypeInv
  <2>2. probes[1].alive \in SUBSET probes[1].asked
    BY <2>1, TypeProbes DEF Probe
  <2> QED BY <1>2, <2>1, <2>2, PhonesProbeEnds DEF ProbeTimesOut
<1> QED BY <1>1, <1>2 DEF ProbeSteps

LEMMA PhonesNext == TypeInv /\ PhonesInv /\ [Next]_vars => PhonesInv'
<1> SUFFICES ASSUME TypeInv, PhonesInv, [Next]_vars PROVE PhonesInv'
  OBVIOUS
<1>1. ASSUME NEW s \in Sockets, Asks(s) \/ Refused(s)
      PROVE  PhonesInv'
  <2>1. UNCHANGED <<seat, entry, rows>>
    BY <1>1 DEF Asks, Refused, registryVars
  <2>2. \A l \in Links : life'[l] = life[l] \/ (life[l] = "new" /\ life'[l] = "open")
    BY <1>1, TypeLinks DEF Asks, Refused, TypeInv, Typed
  <2> QED BY <2>1, <2>2, PhonesApart
<1>2. CASE UNCHANGED vars
  BY <1>2, PhonesApart DEF vars, registryVars
<1> QED BY <1>1, <1>2, PhonesUnderPc, PhonesUnderPhones, PhonesUnderProbes DEF Next

(* A seat never keeps a dead socket for good, for any number of phones and   *)
(* sockets: whatever closes the socket in a seat, its own grace is running.  *)
THEOREM CorpsesAlwaysExpire == Spec => []CorpsesExpire
<1>1. PhonesInv => CorpsesExpire
  BY DEF PhonesInv
<1> QED BY TypeInit, TypeNext, PhonesInit, PhonesNext, <1>1, PTL DEF Spec

(* At most one phone whose pairing stands is connected and admitted, for any *)
(* number of pairings and sockets.                                           *)
THEOREM OnePhoneOnly == Spec => []OneLivePhone
<1> DEFINE S == {l \in Links : Admitted(l) /\ Link(l) \in rows}
<1>1. PhonesInv => OneLivePhone
  <2> SUFFICES ASSUME PhonesInv PROVE Cardinality(S) <= 1
    BY DEF OneLivePhone
  <2>1. CASE S = {}
    BY <2>1, FS_EmptySet
  <2>2. CASE S # {}
    <3>1. PICK l \in S : S = {l}
      BY <2>2 DEF PhonesInv, OneInv
    <3> QED BY <3>1, FS_Singleton
  <2> QED BY <2>1, <2>2
<1> QED BY TypeInit, TypeNext, PhonesInit, PhonesNext, <1>1, PTL DEF Spec
-----------------------------------------------------------------------------
(* The slot                                                                  *)

LEMMA SlotInit == Init => SlotIsTheSession
BY SocketsAssumption DEF Init, SlotIsTheSession, Admitted, Sockets

\* Desktops are untouched by what phones and probes do.
LEMMA SlotApart ==
    ASSUME TypeInv, SlotIsTheSession, UNCHANGED <<slot, online, ghost>>,
           \A k \in Desktops : life'[k] = life[k] \/ (life[k] = "new" /\ life'[k] = "open")
    PROVE  SlotIsTheSession'
BY DEF SlotIsTheSession, Admitted, Open, TypeInv

LEMMA SlotNext == TypeInv /\ SlotIsTheSession /\ [Next]_vars => SlotIsTheSession'
<1> SUFFICES ASSUME TypeInv, SlotIsTheSession, [Next]_vars PROVE SlotIsTheSession'
  OBVIOUS
<1>1. /\ \A k \in Desktops : k \in Sockets /\ k \notin Links /\ k # Nobody
      /\ Links \subseteq Sockets
  BY SocketsAssumption, TypeLinks
<1>2. ASSUME NEW k \in Desktops, PcAdmitted(k)
      PROVE  SlotIsTheSession'
  <2>1. slot' = k /\ online' = TRUE /\ (life[k] = "closed" => ghost')
    BY <1>2 DEF PcAdmitted, TakeSlot
  <2>2. \A m \in Desktops : AdmittedNow(k)[m] = IF m = k /\ life[k] # "closed" THEN "admitted" ELSE life[m]
    BY <1>1 DEF AdmittedNow, TypeInv, Typed
  <2>3. \A m \in Desktops : life'[m] = IF m = slot /\ m # k THEN "closed" ELSE AdmittedNow(k)[m]
    BY <1>1, <1>2 DEF PcAdmitted, TakeSlot, Closed
  <2> QED BY <1>1, <2>1, <2>2, <2>3 DEF SlotIsTheSession, Admitted, Open
<1>3. ASSUME NEW k \in Desktops, PcDrops(k)
      PROVE  SlotIsTheSession'
  BY <1>1, <1>3 DEF PcDrops, SlotIsTheSession, Admitted, Open, TypeInv, Typed
<1>4. ASSUME NEW k \in Desktops, NEW p \in Phones, NEW revoke \in BOOLEAN, Release(k, p, revoke)
      PROVE  SlotIsTheSession'
  <2>1. UNCHANGED <<slot, online, ghost>>
    BY <1>4 DEF Release, history
  <2>2. seat[p] # Nobody => seat[p] \in Links
    BY DEF TypeInv, Typed
  <2>3. \A m \in Desktops : life'[m] = life[m]
    BY <1>1, <1>4, <2>2 DEF Release, TypeInv, Typed
  <2> QED BY <2>1, <2>3, SlotApart
<1>5. ASSUME PhoneSteps
      PROVE  SlotIsTheSession'
  <2>1. UNCHANGED <<slot, online, ghost>>
    BY <1>5 DEF PhoneSteps, PhoneReconnects, PhoneAnswered, PhonePairs, Unpairs, Speaks,
                PhoneDrops, GraceExpires, HoldEnds, history
  <2>2. ASSUME NEW l \in Links, NEW adopts \in BOOLEAN, Seated(l, adopts)
        PROVE  \A m \in Desktops : life'[m] = life[m]
    <3>1. \A m \in Desktops : m # l /\ m # seat[Link(l)] /\ AdmittedNow(l)[m] = life[m]
      BY <1>1, TypeLinks DEF AdmittedNow, TypeInv, Typed
    <3> QED BY <1>1, <2>2, <3>1 DEF Seated, Closed
  <2>3. ASSUME NEW l \in Links, Busy(l) \/ TurnedAway(l)
        PROVE  \A m \in Desktops : life'[m] = life[m]
    BY <1>1, <2>3 DEF Busy, TurnedAway, Heard, TypeInv, Typed
  <2>4. ASSUME NEW l \in Links, PhoneReconnects(l) \/ PhoneAnswered(l) \/ PhonePairs(l)
        PROVE  \A m \in Desktops : life'[m] = life[m]
    BY <2>2, <2>3, <2>4 DEF PhoneReconnects, PhoneAnswered, PhonePairs, PhoneReconnected
  <2>5. ASSUME NEW l \in Links, NEW b \in BOOLEAN, Unpairs(l) \/ Speaks(l) \/ PhoneDrops(l, b)
        PROVE  \A m \in Desktops : life'[m] = life[m]
    BY <1>1, <2>5 DEF Unpairs, Speaks, PhoneDrops, TypeInv, Typed
  <2>6. ASSUME NEW p \in Phones, GraceExpires(p) \/ HoldEnds(p)
        PROVE  \A m \in Desktops : life'[m] = life[m]
    BY <2>6 DEF GraceExpires, HoldEnds
  <2>7. \A m \in Desktops : life'[m] = life[m]
    BY <1>5, <2>4, <2>5, <2>6 DEF PhoneSteps
  <2> QED BY <2>1, <2>7, SlotApart
<1>6. ASSUME ProbeSteps
      PROVE  SlotIsTheSession'
  <2>1. UNCHANGED <<slot, online, ghost>>
    BY <1>6 DEF ProbeSteps, Pong, ProbeTimesOut
  <2>2. ASSUME NEW i, NEW alive, ProbeEnds(i, alive)
        PROVE  \A m \in Desktops : life'[m] = life[m]
    <3> DEFINE dead == {Link(l) : l \in probes[i].asked \ alive}
               zombies == {seat[p] : p \in dead \cap Present}
    <3>1. zombies \subseteq Links
      BY DEF Present, TypeInv, Typed
    <3>2. life' = Closed(life, zombies)
      BY <2>2 DEF ProbeEnds
    <3> HIDE DEF zombies
    <3> QED BY <1>1, <3>1, <3>2 DEF Closed
  <2>3. \A m \in Desktops : life'[m] = life[m]
    BY <1>6, <2>2 DEF ProbeSteps, Pong, ProbeTimesOut
  <2> QED BY <2>1, <2>3, SlotApart
<1>7. ASSUME NEW s \in Sockets, Asks(s) \/ Refused(s)
      PROVE  SlotIsTheSession'
  <2>1. UNCHANGED <<slot, online, ghost>>
    BY <1>7 DEF Asks, Refused, history
  <2>2. \A k \in Desktops : life'[k] = life[k] \/ (life[k] = "new" /\ life'[k] = "open")
    BY <1>1, <1>7 DEF Asks, Refused, TypeInv, Typed
  <2> QED BY <2>1, <2>2, SlotApart
<1>8. CASE UNCHANGED vars
  BY <1>8, SlotApart DEF vars, history
<1> QED BY <1>2, <1>3, <1>4, <1>5, <1>6, <1>7, <1>8 DEF Next, PcSteps, PcJoins, PcAnswered

(* One admitted session of the computer, the one in the slot, and is_online  *)
(* saying so, for any number of desktops.                                    *)
THEOREM OneSession == Spec => []SlotIsTheSession
BY TypeInit, TypeNext, SlotInit, SlotNext, PTL DEF Spec
-----------------------------------------------------------------------------
(* What the computer is told                                                 *)

\* Sockets go from dialled to closed and are never dialled again.
Aged ==
    \A s \in Sockets : /\ life[s] = "closed" => life'[s] = "closed"
                       /\ life[s] # "new" => life'[s] # "new"

LEMMA PresenceInit == Init => PresenceInv
<1> SUFFICES ASSUME Init PROVE PresenceInv
  OBVIOUS
<1>1. slot = Nobody /\ DOMAIN probes = {}
  BY EmptySeq, LenProperties DEF Init
<1> QED BY <1>1 DEF PresenceInv, ProbesInv, AnswersInv, PresenceExact, Heeded

\* A step in which no phone comes or goes, no probe moves, and the slot is kept.
LEMMA PresenceKept ==
    ASSUME TypeInv, PresenceInv, Aged, Heeded' => Heeded, rows' \subseteq rows,
           UNCHANGED <<slot, seat, probes, told, blurred>>,
           \A i \in DOMAIN probes : probes[i].by \notin asking'
    PROVE  PresenceInv'
<1>1. Present' = Present
  BY DEF Present
<1>2. \A i \in DOMAIN probes : probes[i].by \in Sockets /\ probes[i].asked \subseteq Sockets
  BY TypeProbes, TypeLinks DEF Probe
<1>3. slot # Nobody => slot \in Sockets
  BY TypeLinks DEF TypeInv
<1>4. ProbesInv'
  BY <1>2, <1>3 DEF PresenceInv, ProbesInv, Aged
<1>5. AnswersInv'
  <2> SUFFICES ASSUME Heeded', ~blurred' PROVE AnswersInv'
    BY DEF AnswersInv
  <2> QED BY <1>1, <1>2 DEF PresenceInv, AnswersInv, Aged, Waits, Present
<1>6. PresenceExact'
  BY <1>1 DEF PresenceInv, PresenceExact
<1> QED BY <1>4, <1>5, <1>6 DEF PresenceInv

\* A phone leaves its seat, or takes it with a socket it was not in.
LEMMA PresenceSeat ==
    ASSUME TypeInv, PhonesInv, PresenceInv, Aged, Heeded' => Heeded, rows' \subseteq rows,
           NEW p \in Phones, NEW v \in Links \cup {Nobody},
           seat' = [seat EXCEPT ![p] = v],
           v # Nobody => Link(v) = p /\ seat[p] # v /\ life[v] # "closed" /\ p \in rows,
           seat[p] = Nobody \/ p \notin rows' \/ life'[seat[p]] = "closed",
           told' = ToComputer(IF v = Nobody THEN told \ {p} ELSE told \cup {p}),
           blurred' = Blur, UNCHANGED <<slot, probes>>,
           \A i \in DOMAIN probes : probes[i].by \notin asking'
    PROVE  PresenceInv'
<1>1. \A i \in DOMAIN probes : /\ probes[i].by \in Sockets /\ probes[i].asked \subseteq Links
                               /\ probes[i].asked \subseteq Sockets
  BY TypeProbes, TypeLinks DEF Probe
<1>2. slot # Nobody => slot \in Sockets
  BY TypeLinks DEF TypeInv
<1>3. seat'[p] = v /\ \A q \in Phones \ {p} : seat'[q] = seat[q]
  BY DEF TypeInv, Typed
<1>4. Nobody \notin Links /\ \A l \in Links : Link(l) \in Phones
  BY TypeLinks
<1>5. ProbesInv'
  <2>1. ASSUME NEW i \in DOMAIN probes, NEW l \in probes[i].asked
        PROVE  seat'[Link(l)] = l \/ life'[l] = "closed" \/ Link(l) \notin rows'
    <3>1. seat[Link(l)] = l \/ life[l] = "closed" \/ Link(l) \notin rows
      BY DEF PresenceInv, ProbesInv
    <3>2. l \in Links /\ l \in Sockets /\ Link(l) \in Phones
      BY <1>1, <1>4
    <3> QED BY <1>3, <1>4, <3>1, <3>2 DEF Aged
  <2> QED BY <1>1, <1>2, <2>1 DEF PresenceInv, ProbesInv, Aged
<1>6. ASSUME Heeded', ~blurred'
      PROVE  ~blurred /\ Heeded /\ \A i \in DOMAIN probes : probes[i].by # slot
  BY <1>6 DEF Blur, TypeInv, Typed
<1>7. AnswersInv'
  <2> SUFFICES ASSUME Heeded', ~blurred' PROVE AnswersInv'
    BY DEF AnswersInv
  <2>1. ASSUME NEW i \in DOMAIN probes, NEW l \in Links, Waits(i, l), seat'[Link(l)] = l
        PROVE  FALSE
    <3>1. seat[Link(l)] = l \/ life[l] = "closed" \/ Link(l) \notin rows
      BY <2>1 DEF PresenceInv, ProbesInv, Waits
    <3>2. CASE Link(l) = p
      BY <1>3, <1>4, <2>1, <3>1, <3>2
    <3>3. CASE Link(l) # p
      BY <1>3, <1>4, <1>6, <2>1, <3>3 DEF PresenceInv, AnswersInv
    <3> QED BY <3>2, <3>3
  <2> QED BY <1>6, <2>1 DEF AnswersInv, Waits
<1>8. PresenceExact'
  <2> SUFFICES ASSUME Heeded', ~blurred' PROVE told' = Present'
    BY DEF PresenceExact
  <2>1. told = Present
    BY <1>6 DEF PresenceInv, PresenceExact
  <2>2. told' = IF v = Nobody THEN told \ {p} ELSE told \cup {p}
    BY <1>6 DEF ToComputer
  <2>3. Present' = IF v = Nobody THEN Present \ {p} ELSE Present \cup {p}
    BY <1>3, <1>4 DEF Present
  <2> QED BY <2>1, <2>2, <2>3
<1> QED BY <1>5, <1>7, <1>8 DEF PresenceInv

\* The computer takes the slot and asks the phones.
LEMMA PresenceAdmitted ==
    ASSUME TypeInv, PhonesInv, PresenceInv, NEW k \in Desktops, PcAdmitted(k),
           \A i \in DOMAIN probes : probes[i].by # k,
           asking' \subseteq asking, k \notin asking'
    PROVE  PresenceInv'
<1> DEFINE n == Len(probes)
           q == [by |-> k, asked |-> {seat[p] : p \in Present}, alive |-> {}]
<1>1. /\ slot' = k /\ blurred' = FALSE /\ UNCHANGED <<seat, rows>> /\ Present' = Present
      /\ told' = IF slot = k /\ Present # {} THEN told ELSE {}
      /\ Present = {} => probes' = probes
      /\ Present # {} => probes' = Append(probes, q)
  BY DEF PcAdmitted, TakeSlot, AskPhones, Present, registryVars
<1>2. /\ Nobody \notin Links /\ k \in Sockets /\ k # Nobody
      /\ \A l \in Links : Link(l) \in Phones /\ l \in Sockets
      /\ Desktops \subseteq Sockets
  BY TypeLinks
<1>3. n \in Nat /\ DOMAIN probes = 1..n /\ \A i \in 1..n : probes[i] \in Probe
  BY LenProperties, TypeProbes DEF TypeInv
<1>4. Aged /\ life'[k] \in {"admitted", "closed"}
  BY <1>2 DEF PcAdmitted, TakeSlot, AdmittedNow, Closed, Aged, TypeInv, Typed
<1>5. \A p \in Present : p \in Phones /\ seat[p] \in Links /\ Link(seat[p]) = p
  BY DEF Present, PhonesInv, SeatInv, TypeInv, Typed
<1>6. \A i \in 1..n : /\ probes[i].by \in Sockets /\ probes[i].asked \subseteq Links
                     /\ probes[i].by # k
  BY <1>2, <1>3 DEF Probe
<1>7. CASE Present = {}
  <2>1. ProbesInv'
    BY <1>1, <1>2, <1>3, <1>4, <1>6, <1>7 DEF PresenceInv, ProbesInv, Aged
  <2>2. AnswersInv'
    <3>1. \A l \in Links : seat'[Link(l)] # l
      BY <1>1, <1>2, <1>7 DEF Present
    <3> QED BY <1>1, <1>3, <1>6, <1>7, <3>1 DEF AnswersInv
  <2>3. PresenceExact'
    BY <1>1, <1>7 DEF PresenceExact
  <2> QED BY <2>1, <2>2, <2>3 DEF PresenceInv
<1>8. CASE Present # {}
  <2>0. q \in Probe
    BY <1>2, <1>5, <1>8 DEF Probe
  <2>1. /\ q.by = k /\ q.alive = {} /\ q.asked \subseteq Links
        /\ \A l \in q.asked : seat[Link(l)] = l
        /\ \A p \in Present : seat[p] \in q.asked
        /\ \A l \in Links : seat[Link(l)] = l => l \in q.asked
        /\ \A l, m \in q.asked : Link(l) = Link(m) => l = m
    BY <1>2, <1>5 DEF Present
  <2> HIDE DEF q
  <2>2. /\ DOMAIN probes' = 1..n + 1 /\ Len(probes') = n + 1
        /\ probes'[n + 1] = q /\ \A i \in 1..n : probes'[i] = probes[i]
    BY <1>1, <1>3, <1>8, <2>0, AppendProperties, LenProperties DEF TypeInv
  <2>3. ProbesInv'
    <3> SUFFICES ASSUME NEW i \in 1..n + 1
                 PROVE  /\ life'[probes'[i].by] # "new" /\ probes'[i].by \notin asking'
                        /\ probes'[i].by = slot' => i = Len(probes')
                        /\ \A l \in probes'[i].asked :
                              /\ seat'[Link(l)] = l \/ life'[l] = "closed" \/ Link(l) \notin rows'
                              /\ \A m \in probes'[i].asked : Link(l) = Link(m) => l = m
                        /\ \A j \in 1..i-1 : \A l \in probes'[i].alive \cap probes'[j].asked :
                              l \in probes'[j].alive
      BY <1>1, <1>4, <2>2 DEF ProbesInv
    <3>1. CASE i = n + 1
      BY <1>1, <1>4, <2>1, <2>2, <3>1
    <3>2. CASE i \in 1..n
      <4>1. probes'[i] = probes[i] /\ \A j \in 1..i-1 : probes'[j] = probes[j]
        BY <1>3, <2>2, <3>2
      <4>2. \A l \in probes[i].asked : l \in Links /\ l \in Sockets
        BY <1>2, <1>6, <3>2
      <4> QED BY <1>1, <1>3, <1>4, <1>6, <3>2, <4>1, <4>2 DEF PresenceInv, ProbesInv, Aged
    <3> QED BY <1>3, <3>1, <3>2
  <2>4. AnswersInv'
    <3>1. ASSUME NEW i \in 1..n + 1, NEW l \in Links, seat'[Link(l)] = l
          PROVE  /\ i <= n + 1 /\ n + 1 \in DOMAIN probes' /\ probes'[n + 1].by = slot'
                 /\ l \in probes'[n + 1].asked \ probes'[n + 1].alive
      BY <1>1, <1>3, <2>1, <2>2, <3>1
    <3>2. \A i \in 1..n + 1 : probes'[i].by = slot' => i = n + 1
      BY <1>1, <1>6, <2>2
    <3> QED BY <1>1, <2>1, <2>2, <3>1, <3>2 DEF AnswersInv, Waits
  <2>5. ~(\A i \in DOMAIN probes' : probes'[i].by # slot')
    BY <1>1, <1>3, <2>1, <2>2
  <2> QED BY <2>3, <2>4, <2>5 DEF PresenceInv, PresenceExact
<1> QED BY <1>7, <1>8

\* One more phone answers, and the answer is not complete.
LEMMA PresenceAnswered ==
    ASSUME TypeInv, PhonesInv, PresenceInv, NEW i \in DOMAIN probes, NEW l \in Links,
           Waits(i, l), \A j \in 1..i-1 : ~Waits(j, l), Open(l),
           probes' = [probes EXCEPT ![i].alive = @ \cup {l}],
           UNCHANGED <<life, asking, slot, seat, rows, told, blurred>>
    PROVE  PresenceInv'
<1> DEFINE n == Len(probes)
<1>1. n \in Nat /\ DOMAIN probes = 1..n /\ \A j \in 1..n : probes[j] \in Probe
  BY LenProperties, TypeProbes DEF TypeInv
<1>2. DOMAIN probes' = 1..n /\ Len(probes') = n
  BY <1>1, ExceptSeq DEF TypeInv
<1>3. \A j \in 1..n : /\ probes'[j].by = probes[j].by /\ probes'[j].asked = probes[j].asked
                     /\ probes'[j].alive = IF j = i THEN probes[i].alive \cup {l} ELSE probes[j].alive
  BY <1>1 DEF Probe
<1>4. Present' = Present /\ Heeded' = Heeded
  BY DEF Present, Heeded, Open
<1>5. l \in probes[i].asked /\ l \notin probes[i].alive
  BY DEF Waits
<1>6. ProbesInv'
  <2>1. ASSUME NEW j \in 1..n, NEW k \in 1..j-1, NEW m \in probes'[j].alive \cap probes'[k].asked
        PROVE  m \in probes'[k].alive
    <3>1. k \in 1..n /\ m \in probes[k].asked
      BY <1>1, <1>3
    <3>2. CASE m \in probes[j].alive
      BY <1>1, <1>3, <3>1, <3>2 DEF PresenceInv, ProbesInv
    <3>3. CASE j = i /\ m = l
      BY <1>1, <1>3, <3>1, <3>3 DEF Waits
    <3> QED BY <1>3, <3>2, <3>3
  <2> QED BY <1>1, <1>2, <1>3, <2>1 DEF PresenceInv, ProbesInv
<1>7. AnswersInv'
  <2> SUFFICES ASSUME Heeded, ~blurred PROVE AnswersInv'
    BY <1>4 DEF AnswersInv
  <2>1. ASSUME NEW j \in 1..n, NEW m \in Links, m \in probes'[j].asked \ probes'[j].alive,
               seat[Link(m)] = m
        PROVE  \E k \in 1..n : j <= k /\ probes'[k].by = slot
                                  /\ m \in probes'[k].asked \ probes'[k].alive
    <3>1. Waits(j, m) /\ ~(j = i /\ m = l)
      BY <1>3, <2>1 DEF Waits
    <3>2. PICK k \in 1..n : j <= k /\ probes[k].by = slot /\ Waits(k, m)
      BY <1>1, <2>1, <3>1 DEF PresenceInv, AnswersInv
    <3>3. ~(k = i /\ m = l)
      BY <1>1, <3>1, <3>2
    <3> QED BY <1>3, <3>2, <3>3 DEF Waits
  <2>2. ASSUME NEW j \in 1..n, probes'[j].by = slot
        PROVE  /\ \A p \in Present : seat[p] \in probes'[j].asked
               /\ \A m \in probes'[j].asked : seat[Link(m)] = m \/ life[m] = "closed"
               /\ \A m \in probes'[j].alive : seat[Link(m)] = m
    <3>1. probes[j].by = slot /\ probes'[j].asked = probes[j].asked
      BY <1>3, <2>2
    <3>2. /\ \A p \in Present : seat[p] \in probes[j].asked
          /\ \A m \in probes[j].asked : seat[Link(m)] = m \/ life[m] = "closed"
          /\ \A m \in probes[j].alive : seat[Link(m)] = m
      BY <1>1, <3>1 DEF PresenceInv, AnswersInv
    <3>3. j = i => seat[Link(l)] = l
      BY <1>5, <3>2 DEF Open
    <3> QED BY <1>3, <3>1, <3>2, <3>3
  <2> QED BY <1>2, <1>4, <2>1, <2>2 DEF AnswersInv, Waits
<1>8. PresenceExact'
  BY <1>1, <1>2, <1>3, <1>4 DEF PresenceInv, PresenceExact
<1> QED BY <1>6, <1>7, <1>8 DEF PresenceInv

\* A probe ends: whoever it asked has answered, or no earlier one is under way.
LEMMA PresenceEnds ==
    ASSUME TypeInv, PhonesInv, PresenceInv, NEW i \in DOMAIN probes,
           NEW alive \in SUBSET probes[i].asked, ProbeEnds(i, alive),
           probes[i].alive \subseteq alive,
           \A l \in alive : l \in probes[i].alive \/ Open(l),
           \A j \in 1..i-1 : \A l \in probes[i].asked : ~Waits(j, l),
           UNCHANGED <<asking, slot, rows>>
    PROVE  PresenceInv'
<1> DEFINE n == Len(probes)
           dead == {Link(l) : l \in probes[i].asked \ alive}
           zombies == {seat[p] : p \in dead \cap Present}
           Old(j) == IF j < i THEN j ELSE j + 1
<1>1. /\ n \in Nat /\ DOMAIN probes = 1..n /\ i \in 1..n
      /\ \A j \in 1..n : /\ probes[j] \in Probe /\ probes[j].by \in Sockets
                         /\ probes[j].asked \subseteq Links /\ probes[j].asked \subseteq Sockets
  BY LenProperties, TypeProbes, TypeLinks DEF TypeInv, Probe
<1>2. /\ DOMAIN probes' = 1..n - 1 /\ Len(probes') = n - 1
      /\ \A j \in 1..n - 1 : probes'[j] = probes[Old(j)]
  BY WithoutOne, LenProperties DEF ProbeEnds, TypeInv
<1>3. /\ seat' = [p \in Phones |-> IF p \in dead THEN Nobody ELSE seat[p]]
      /\ life' = Closed(life, zombies)
      /\ told' = IF slot = probes[i].by THEN ToComputer({Link(l) : l \in alive}) ELSE told
      /\ blurred' = (blurred \/ (Heeded /\ zombies \ probes[i].asked # {}))
  BY DEF ProbeEnds
<1>4. \A p \in Present : p \in Phones /\ seat[p] \in Links /\ Link(seat[p]) = p
  BY DEF Present, PhonesInv, SeatInv, TypeInv, Typed
<1>5. zombies \subseteq Links /\ \A p \in dead \cap Present : seat[p] \in zombies
  BY <1>4
<1>6. /\ Nobody \notin Links /\ \A l \in Links : Link(l) \in Phones /\ l \in Sockets
      /\ slot # Nobody => slot \in Desktops /\ slot \in Sockets
      /\ Desktops \cap Links = {} /\ Desktops \subseteq Sockets
  BY TypeLinks, SocketsAssumption DEF TypeInv
<1>7. ASSUME NEW l \in probes[i].asked, Link(l) \in dead
      PROVE  l \in probes[i].asked \ alive
  BY <1>1, <1>7 DEF PresenceInv, ProbesInv
<1>8. ASSUME NEW l \in probes[i].asked \ alive PROVE Link(l) \in dead
  OBVIOUS
<1>9. ~blurred' /\ Heeded => ~blurred /\ zombies \subseteq probes[i].asked
  BY <1>3 DEF TypeInv, Typed
<1>10. {Link(l) : l \in alive} \cap dead = {}
  BY <1>7
<1> HIDE DEF dead, zombies
<1>11. /\ \A s \in Sockets : life'[s] = IF s \in zombies THEN "closed" ELSE life[s]
       /\ \A p \in Phones : seat'[p] = IF p \in dead THEN Nobody ELSE seat[p]
  BY <1>3 DEF Closed
<1>12. Present' = Present \ dead
  BY <1>11 DEF Present
<1>13. Heeded' => Heeded
  BY <1>5, <1>6, <1>11 DEF Heeded, Open
<1>14. \A j \in 1..n - 1 : Old(j) \in 1..n /\ Old(j) # i
  BY <1>1
<1>15. \A j \in 1..n : j # i => \E k \in 1..n - 1 : Old(k) = j
  <2> TAKE j \in 1..n
  <2>1. CASE j < i
    BY <1>1, <2>1
  <2>2. CASE j > i
    <3>1. j - 1 \in 1..n - 1 /\ Old(j - 1) = j
      BY <1>1, <2>2
    <3> QED BY <3>1
  <2> QED BY <1>1, <2>1, <2>2
<1>16. \A j, k \in 1..n - 1 : (j < k <=> Old(j) < Old(k)) /\ (Old(j) <= Old(k) => j <= k)
  BY <1>1
<1>17. \A j \in 1..n - 1 : j = n - 1 \/ Old(j) < n
  <2>1. n \in Nat /\ i \in 1..n
    BY <1>1
  <2> HIDE DEF n
  <2> TAKE j \in 1..n - 1
  <2>2. j < i => Old(j) < n
    BY <2>1
  <2>3. ~(j < i) => Old(j) = j + 1
    OBVIOUS
  <2> QED BY <2>1, <2>2, <2>3
<1> HIDE DEF Old
<1>18. ASSUME NEW l \in Links, seat[Link(l)] = l
       PROVE  seat'[Link(l)] = l \/ life'[l] = "closed"
  <2>1. CASE Link(l) \in dead
    <3>1. Link(l) \in Present
      BY <1>6, <1>18 DEF Present
    <3> QED BY <1>5, <1>6, <1>11, <1>18, <2>1, <3>1
  <2>2. CASE Link(l) \notin dead
    BY <1>6, <1>11, <1>18, <2>2
  <2> QED BY <2>1, <2>2
<1>19. ProbesInv'
  <2> SUFFICES ASSUME NEW j \in 1..n - 1
               PROVE  /\ life'[probes'[j].by] # "new" /\ probes'[j].by \notin asking'
                      /\ probes'[j].by = slot' => j = n - 1
                      /\ \A l \in probes'[j].asked :
                            /\ seat'[Link(l)] = l \/ life'[l] = "closed" \/ Link(l) \notin rows'
                            /\ \A m \in probes'[j].asked : Link(l) = Link(m) => l = m
                      /\ \A k \in 1..j-1 : \A l \in probes'[j].alive \cap probes'[k].asked :
                            l \in probes'[k].alive
    <3>1. slot' # Nobody => life'[slot'] # "new"
      BY <1>6, <1>11 DEF PresenceInv, ProbesInv
    <3> QED BY <1>2, <3>1 DEF ProbesInv
  <2> DEFINE o == Old(j)
  <2>1. o \in 1..n /\ probes'[j] = probes[o]
    BY <1>2, <1>14
  <2>2. /\ life[probes[o].by] # "new" /\ probes[o].by \notin asking
        /\ probes[o].by = slot => o = n
        /\ \A l \in probes[o].asked :
              /\ seat[Link(l)] = l \/ life[l] = "closed" \/ Link(l) \notin rows
              /\ \A m \in probes[o].asked : Link(l) = Link(m) => l = m
        /\ \A k \in 1..o-1 : \A l \in probes[o].alive \cap probes[k].asked : l \in probes[k].alive
    BY <1>1, <2>1 DEF PresenceInv, ProbesInv
  <2>3. life'[probes'[j].by] # "new" /\ probes'[j].by \notin asking'
    BY <1>1, <1>11, <2>1, <2>2
  <2>4. probes'[j].by = slot' => j = n - 1
    <3>1. o = n => ~(o < n)
      BY <1>1
    <3> QED BY <1>17, <2>1, <2>2, <3>1
  <2>5. ASSUME NEW l \in probes'[j].asked
        PROVE  /\ seat'[Link(l)] = l \/ life'[l] = "closed" \/ Link(l) \notin rows'
               /\ \A m \in probes'[j].asked : Link(l) = Link(m) => l = m
    <3>1. l \in Links /\ l \in Sockets
      BY <1>1, <2>1
    <3>2. life[l] = "closed" => life'[l] = "closed"
      BY <1>11, <3>1
    <3> QED BY <1>18, <2>1, <2>2, <3>1, <3>2
  <2>6. ASSUME NEW k \in 1..j-1, NEW l \in probes'[j].alive \cap probes'[k].asked
        PROVE  l \in probes'[k].alive
    <3>1. k \in 1..n - 1 /\ k < j
      BY <1>1
    <3>2. Old(k) \in 1..n /\ Old(k) < o /\ probes'[k] = probes[Old(k)]
      BY <1>2, <1>14, <1>16, <3>1
    <3>3. Old(k) \in 1..o-1
      BY <1>1, <2>1, <3>2
    <3> QED BY <2>1, <2>2, <3>2, <3>3
  <2> QED BY <2>3, <2>4, <2>5, <2>6
<1>20. ASSUME Heeded', ~blurred'
       PROVE  /\ ~blurred /\ Heeded /\ zombies \subseteq probes[i].asked
              /\ \A j \in 1..n : \A l \in Links :
                    Waits(j, l) /\ seat[Link(l)] = l =>
                       \E k \in 1..n : j <= k /\ probes[k].by = slot /\ Waits(k, l)
              /\ \A j \in 1..n : probes[j].by = slot =>
                    /\ \A p \in Present : seat[p] \in probes[j].asked
                    /\ \A l \in probes[j].asked : seat[Link(l)] = l \/ life[l] = "closed"
                    /\ \A l \in probes[j].alive : seat[Link(l)] = l
  BY <1>1, <1>9, <1>13, <1>20 DEF PresenceInv, AnswersInv
<1>21. ASSUME NEW l \in Links, seat'[Link(l)] = l
       PROVE  seat[Link(l)] = l /\ Link(l) \notin dead
  BY <1>6, <1>11, <1>21
<1>22. AnswersInv'
  <2> SUFFICES ASSUME Heeded', ~blurred' PROVE AnswersInv'
    BY DEF AnswersInv
  <2>1. ASSUME NEW j \in 1..n - 1, NEW l \in Links, l \in probes'[j].asked \ probes'[j].alive,
               seat'[Link(l)] = l
        PROVE  \E k \in 1..n - 1 : j <= k /\ probes'[k].by = slot'
                                      /\ l \in probes'[k].asked \ probes'[k].alive
    <3>1. seat[Link(l)] = l /\ Link(l) \notin dead
      BY <1>21, <2>1
    <3>2. Old(j) \in 1..n /\ Old(j) # i /\ Waits(Old(j), l)
      BY <1>2, <1>14, <2>1 DEF Waits
    <3>3. PICK k \in 1..n : Old(j) <= k /\ probes[k].by = slot /\ Waits(k, l)
      BY <1>20, <3>1, <3>2
    <3>4. k # i
      <4> SUFFICES ASSUME k = i PROVE FALSE
        OBVIOUS
      <4>1. Old(j) \in 1..i-1 /\ l \in probes[i].asked
        BY <1>1, <3>2, <3>3 DEF Waits
      <4> QED BY <3>2, <4>1
    <3>5. PICK m \in 1..n - 1 : Old(m) = k
      BY <1>15, <3>4
    <3>6. j <= m /\ probes'[m] = probes[k]
      BY <1>2, <1>16, <3>3, <3>5
    <3> QED BY <3>3, <3>6 DEF Waits
  <2>2. ASSUME NEW j \in 1..n - 1, probes'[j].by = slot'
        PROVE  /\ \A p \in Present' : seat'[p] \in probes'[j].asked
               /\ \A l \in probes'[j].asked : seat'[Link(l)] = l \/ life'[l] = "closed"
               /\ \A l \in probes'[j].alive : seat'[Link(l)] = l
    <3> DEFINE o == Old(j)
    <3>1. o \in 1..n /\ o # i /\ probes'[j] = probes[o] /\ probes[o].by = slot
      BY <1>2, <1>14, <2>2
    <3>2. o = n /\ i \in 1..o-1
      <4>1. o = n
        BY <1>1, <3>1 DEF PresenceInv, ProbesInv
      <4> QED BY <1>1, <3>1, <4>1
    <3>3. \A p \in Present' : seat'[p] \in probes'[j].asked
      BY <1>4, <1>11, <1>12, <1>20, <3>1
    <3>4. ASSUME NEW l \in probes'[j].asked
          PROVE  seat'[Link(l)] = l \/ life'[l] = "closed"
      <4>1. l \in Links /\ l \in Sockets
        BY <1>1, <3>1
      <4> QED BY <1>11, <1>18, <1>20, <3>1, <4>1
    <3>5. ASSUME NEW l \in probes'[j].alive
          PROVE  seat'[Link(l)] = l
      <4>1. l \in probes[o].alive /\ l \in probes[o].asked /\ l \in Links /\ seat[Link(l)] = l
        BY <1>1, <1>20, <3>1 DEF Probe
      <4>2. Link(l) \notin dead
        <5> SUFFICES ASSUME Link(l) \in dead PROVE FALSE
          OBVIOUS
        <5>1. l \in probes[i].asked
          BY <1>5, <1>6, <1>20, <4>1 DEF Present
        <5>2. l \in probes[i].alive
          BY <1>1, <3>1, <3>2, <4>1, <5>1 DEF PresenceInv, ProbesInv
        <5> QED BY <1>7, <5>1, <5>2
      <4> QED BY <1>6, <1>11, <4>1, <4>2
    <3> QED BY <3>3, <3>4, <3>5
  <2> QED BY <1>2, <2>1, <2>2 DEF AnswersInv, Waits
<1>23. PresenceExact'
  <2> SUFFICES ASSUME Heeded', ~blurred', \A j \in 1..n - 1 : probes'[j].by # slot
               PROVE  told' = Present'
    BY <1>2 DEF PresenceExact
  <2>1. \A j \in 1..n : j # i => probes[j].by # slot
    BY <1>2, <1>15
  <2>2. CASE probes[i].by = slot
    <3>1. told' = {Link(l) : l \in alive}
      BY <1>3, <1>20, <2>2 DEF ToComputer
    <3>2. ASSUME NEW p \in Present, p \notin dead
          PROVE  p \in {Link(l) : l \in alive}
      <4>1. seat[p] \in probes[i].asked /\ Link(seat[p]) = p
        BY <1>1, <1>4, <1>20, <2>2
      <4>2. seat[p] \in alive
        BY <1>8, <3>2, <4>1
      <4> QED BY <4>1, <4>2
    <3>3. ASSUME NEW l \in alive
          PROVE  Link(l) \in Present
      <4>1. l \in Links /\ l \in probes[i].asked
        BY <1>1
      <4>2. seat[Link(l)] = l
        BY <1>1, <1>20, <2>2, <4>1 DEF Open
      <4> QED BY <1>6, <4>1, <4>2 DEF Present
    <3> QED BY <1>10, <1>12, <3>1, <3>2, <3>3
  <2>3. CASE probes[i].by # slot
    <3>1. told = Present /\ told' = told
      BY <1>1, <1>3, <1>20, <2>1, <2>3 DEF PresenceInv, PresenceExact
    <3>2. ASSUME NEW p \in Present, p \in dead
          PROVE  FALSE
      <4>1. seat[p] \in Links /\ Link(seat[p]) = p /\ seat[p] \in probes[i].asked
        BY <1>4, <1>5, <1>20, <3>2
      <4>2. Waits(i, seat[p])
        BY <1>7, <3>2, <4>1 DEF Waits
      <4> QED BY <1>1, <1>20, <2>1, <2>3, <4>1, <4>2
    <3> QED BY <1>12, <3>1, <3>2
  <2> QED BY <2>2, <2>3
<1> QED BY <1>19, <1>22, <1>23 DEF PresenceInv

LEMMA PresenceProbed ==
    ASSUME TypeInv, PhonesInv, PresenceInv, ProbeSteps
    PROVE  PresenceInv'
<1>1. ASSUME NEW i \in DOMAIN probes, NEW l \in Links, Pong(i, l)
      PROVE  PresenceInv'
  <2> DEFINE alive == probes[i].alive \cup {l}
  <2>1. /\ probes[i].asked \subseteq Links /\ alive \in SUBSET probes[i].asked
        /\ l \notin probes[i].alive
    BY <1>1, TypeProbes DEF Pong, Probe
  <2>2. \A j \in 1..i-1 : ~Waits(j, l)
    BY <1>1 DEF Pong, Waits
  <2>3. Open(l) /\ UNCHANGED <<asking, slot, rows>>
    BY <1>1 DEF Pong
  <2>4. CASE alive = probes[i].asked
    <3>1. ProbeEnds(i, alive)
      BY <1>1, <2>4 DEF Pong
    <3>2. \A j \in 1..i-1 : \A m \in probes[i].asked : ~Waits(j, m)
      BY <2>2, <2>4 DEF PresenceInv, ProbesInv, Waits
    <3> QED BY <2>1, <2>3, <3>1, <3>2, PresenceEnds
  <2>5. CASE alive # probes[i].asked
    <3>1. probes' = [probes EXCEPT ![i].alive = @ \cup {l}] /\ UNCHANGED <<life, seat, told, blurred>>
      BY <1>1, <2>5 DEF Pong
    <3>2. Waits(i, l)
      BY <1>1 DEF Pong, Waits
    <3> QED BY <2>2, <2>3, <3>1, <3>2, PresenceAnswered
  <2> QED BY <2>4, <2>5
<1>2. ASSUME ProbeTimesOut
      PROVE  PresenceInv'
  <2>1. 1 \in DOMAIN probes
    BY <1>2, EmptySeq, LenProperties DEF ProbeTimesOut, TypeInv
  <2>2. probes[1].alive \in SUBSET probes[1].asked /\ 1..1-1 = {}
    BY <2>1, TypeProbes DEF Probe
  <2>3. ProbeEnds(1, probes[1].alive) /\ UNCHANGED <<asking, slot, rows>>
    BY <1>2 DEF ProbeTimesOut
  <2> QED BY <2>1, <2>2, <2>3, PresenceEnds
<1> QED BY <1>1, <1>2 DEF ProbeSteps

LEMMA PresenceUnderPc ==
    ASSUME TypeInv, PhonesInv, PresenceInv, PcSteps
    PROVE  PresenceInv'
<1>1. ASSUME NEW k \in Desktops, PcJoins(k)
      PROVE  PresenceInv'
  BY <1>1, PresenceAdmitted DEF PcJoins
<1>2. ASSUME NEW k \in Desktops, PcAnswered(k)
      PROVE  PresenceInv'
  <2>1. \A i \in DOMAIN probes : probes[i].by # k
    BY <1>2 DEF PcAnswered, PresenceInv, ProbesInv
  <2> QED BY <1>2, <2>1, PresenceAdmitted DEF PcAnswered
<1>3. ASSUME NEW k \in Desktops, PcDrops(k)
      PROVE  PresenceInv'
  <2>1. Aged /\ k \in Sockets /\ k # Nobody
    BY <1>3, TypeLinks DEF PcDrops, Aged, TypeInv, Typed
  <2>2. UNCHANGED <<asking, seat, rows, probes>>
    BY <1>3 DEF PcDrops, registryVars
  <2>3. CASE slot = k
    <3>1. slot' = Nobody /\ ~Heeded'
      BY <1>3, <2>3 DEF PcDrops, Heeded
    <3>2. \A i \in DOMAIN probes : /\ probes[i].by \in Sockets /\ probes[i].by # Nobody
                                  /\ probes[i].asked \subseteq Sockets
      BY TypeProbes, TypeLinks DEF Probe
    <3>3. ProbesInv'
      BY <2>1, <2>2, <3>1, <3>2 DEF PresenceInv, ProbesInv, Aged
    <3> QED BY <3>1, <3>3 DEF PresenceInv, AnswersInv, PresenceExact
  <2>4. CASE slot # k
    <3>1. UNCHANGED <<slot, told, blurred>>
      BY <1>3, <2>4 DEF PcDrops
    <3>2. Heeded' => Heeded
      BY <1>3, <2>1, <2>4, <3>1, TypeLinks DEF PcDrops, Heeded, Open, TypeInv, Typed
    <3> QED BY <2>1, <2>2, <3>1, <3>2, PresenceKept DEF PresenceInv, ProbesInv
  <2> QED BY <2>3, <2>4
<1>4. ASSUME NEW k \in Desktops, NEW p \in Phones, NEW revoke \in BOOLEAN, Release(k, p, revoke)
      PROVE  PresenceInv'
  <2>1. /\ UNCHANGED <<asking, slot, seat, probes, told, blurred>> /\ rows' \subseteq rows
        /\ life' = life \/ (seat[p] # Nobody /\ life' = [life EXCEPT ![seat[p]] = "closed"])
    BY <1>4 DEF Release, history
  <2>2. Aged /\ (Heeded' => Heeded)
    BY <2>1, TypeLinks DEF Aged, Heeded, Open, TypeInv, Typed
  <2> QED BY <2>1, <2>2, PresenceKept DEF PresenceInv, ProbesInv
<1> QED BY <1>1, <1>2, <1>3, <1>4 DEF PcSteps

\* A phone's request, granted, held out or turned away.
LEMMA PresenceReconnected ==
    ASSUME TypeInv, PhonesInv, PresenceInv, NEW l \in Links,
           \/ Busy(l) \/ TurnedAway(l)
           \/ \E adopts \in BOOLEAN : Seated(l, adopts) /\ Link(l) \in rows /\ life[l] # "closed",
           UNCHANGED <<slot, probes>>, asking' \subseteq asking
    PROVE  PresenceInv'
<1> DEFINE p == Link(l)
<1>1. /\ l \in Sockets /\ p \in Phones /\ l # Nobody
      /\ \A i \in DOMAIN probes : probes[i].by \notin asking'
      /\ slot # Nobody => slot \in Sockets /\ slot \notin Links
      /\ Links \subseteq Sockets
  BY TypeLinks, SocketsAssumption DEF PresenceInv, ProbesInv, TypeInv
<1>2. CASE Busy(l) \/ TurnedAway(l)
  <2>1. UNCHANGED <<seat, rows, told, blurred>> /\ life' = Heard(l)
    BY <1>2 DEF Busy, TurnedAway
  <2>2. Aged /\ (Heeded' => Heeded)
    BY <1>1, <2>1 DEF Heard, Aged, Heeded, Open, TypeInv, Typed
  <2> QED BY <1>1, <2>1, <2>2, PresenceKept
<1>3. ASSUME NEW adopts \in BOOLEAN, Seated(l, adopts), p \in rows, life[l] # "closed"
      PROVE  PresenceInv'
  <2>1. /\ seat' = [seat EXCEPT ![p] = l] /\ rows' = rows
        /\ life' = Closed(AdmittedNow(l), {seat[p]} \ {l, Nobody})
        /\ seat[p] = l => UNCHANGED <<told, blurred>>
        /\ seat[p] # l => told' = ToComputer(told \cup {p}) /\ blurred' = Blur
    BY <1>3 DEF Seated
  <2>2. seat[p] \in Links \cup {Nobody}
    BY <1>1 DEF TypeInv, Typed
  <2>3. \A s \in Sockets : life'[s] = IF s = l THEN "admitted"
                                      ELSE IF s = seat[p] /\ s # Nobody THEN "closed" ELSE life[s]
    BY <1>1, <1>3, <2>1 DEF Closed, AdmittedNow, TypeInv, Typed
  <2>4. Aged /\ (Heeded' => Heeded)
    BY <1>1, <1>3, <2>2, <2>3 DEF Aged, Heeded, Open
  <2>5. CASE seat[p] = l
    <3>1. seat' = seat
      BY <2>1, <2>5 DEF TypeInv, Typed
    <3> QED BY <1>1, <2>1, <2>4, <2>5, <3>1, PresenceKept
  <2>6. CASE seat[p] # l
    <3>1. seat[p] = Nobody \/ life'[seat[p]] = "closed"
      BY <1>1, <2>2, <2>3, <2>6
    <3>2. told' = ToComputer(IF l = Nobody THEN told \ {p} ELSE told \cup {p})
      BY <1>1, <2>1, <2>6
    <3> QED BY <1>1, <1>3, <2>1, <2>4, <2>6, <3>1, <3>2, PresenceSeat
  <2> QED BY <2>5, <2>6
<1> QED BY <1>2, <1>3

\* A phone gives up its seat.
LEMMA PresenceLeft ==
    ASSUME TypeInv, PhonesInv, PresenceInv, Aged, Heeded' => Heeded, rows' \subseteq rows,
           UNCHANGED <<asking, slot, probes>>, NEW p \in Phones,
           seat' = [seat EXCEPT ![p] = Nobody], told' = ToComputer(told \ {p}), blurred' = Blur,
           seat[p] = Nobody \/ p \notin rows' \/ life'[seat[p]] = "closed"
    PROVE  PresenceInv'
<1> DEFINE v == Nobody
<1>1. /\ v \in Links \cup {Nobody} /\ seat' = [seat EXCEPT ![p] = v]
      /\ v # Nobody => Link(v) = p /\ seat[p] # v /\ life[v] # "closed" /\ p \in rows
      /\ told' = ToComputer(IF v = Nobody THEN told \ {p} ELSE told \cup {p})
      /\ \A i \in DOMAIN probes : probes[i].by \notin asking'
  BY DEF PresenceInv, ProbesInv
<1> HIDE DEF v
<1> QED BY <1>1, PresenceSeat

LEMMA PresenceUnderPhones ==
    ASSUME TypeInv, PhonesInv, PresenceInv, PhoneSteps
    PROVE  PresenceInv'
<1>1. \A i \in DOMAIN probes : probes[i].by \notin asking
  BY DEF PresenceInv, ProbesInv
<1>2. /\ \A l \in Links : l \in Sockets /\ Link(l) \in Phones
      /\ slot # Nobody => slot \in Sockets /\ slot \notin Links
  BY TypeLinks, SocketsAssumption DEF TypeInv
<1>3. ASSUME NEW l \in Links, PhoneReconnects(l) \/ PhoneAnswered(l) \/ PhonePairs(l)
      PROVE  PresenceInv'
  <2>1. UNCHANGED <<slot, probes>> /\ asking' \subseteq asking
    BY <1>3 DEF PhoneReconnects, PhoneAnswered, PhonePairs
  <2>2. \/ Busy(l) \/ TurnedAway(l)
        \/ \E adopts \in BOOLEAN : Seated(l, adopts) /\ Link(l) \in rows /\ life[l] # "closed"
    BY <1>3 DEF PhoneReconnects, PhoneAnswered, PhonePairs, PhoneReconnected, Open
  <2> QED BY <2>1, <2>2, PresenceReconnected
<1>4. ASSUME NEW l \in Links, Unpairs(l)
      PROVE  PresenceInv'
  <2> DEFINE p == Link(l)
  <2>1. /\ UNCHANGED <<life, asking, slot, probes>> /\ rows' = rows \ {p}
        /\ seat' = [seat EXCEPT ![p] = Nobody]
        /\ told' = ToComputer(told \ {p}) /\ blurred' = Blur
    BY <1>4 DEF Unpairs
  <2>2. Aged /\ (Heeded' => Heeded) /\ p \in Phones
    BY <1>2, <2>1 DEF Aged, Heeded, Open
  <2> QED BY <2>1, <2>2, PresenceLeft
<1>5. ASSUME NEW l \in Links, Speaks(l)
      PROVE  PresenceInv'
  <2>1. UNCHANGED <<life, asking, slot, seat, rows, probes, told, blurred>>
    BY <1>5 DEF Speaks, history
  <2> QED BY <1>1, <2>1, PresenceKept DEF Aged, Heeded, Open
<1>6. ASSUME NEW l \in Links, NEW deliberate \in BOOLEAN, PhoneDrops(l, deliberate)
      PROVE  PresenceInv'
  <2> DEFINE p == Link(l)
             e == Dropped(entry[p], l)
  <2>1. UNCHANGED <<asking, slot, rows, probes>> /\ life' = [life EXCEPT ![l] = "closed"]
    BY <1>6 DEF PhoneDrops
  <2>2. Aged /\ (Heeded' => Heeded) /\ p \in Phones
    BY <1>2, <2>1 DEF Aged, Heeded, Open, TypeInv, Typed
  <2>3. CASE UNCHANGED <<seat, told, blurred>>
    BY <1>1, <2>1, <2>2, <2>3, PresenceKept
  <2>4. CASE seat[p] \in e.owed /\ Leaves(p, e.owed)
    <3>1. e.owed \subseteq entry[p].owed \cup {l}
      BY DroppedKeeps
    <3>2. \A m \in entry[p].owed : m \in Links /\ life[m] = "closed"
      BY <2>2 DEF PhonesInv, EntryInv, TypeInv, Typed, Entries
    <3> HIDE DEF e
    <3>3. life'[seat[p]] = "closed"
      BY <1>2, <2>1, <2>4, <3>1, <3>2 DEF TypeInv, Typed
    <3>4. /\ seat' = [seat EXCEPT ![p] = Nobody] /\ told' = ToComputer(told \ {p})
          /\ blurred' = Blur
      BY <2>4 DEF Leaves
    <3> QED BY <2>1, <2>2, <3>3, <3>4, PresenceLeft
  <2> QED BY <1>6, <2>3, <2>4 DEF PhoneDrops, Leaves
<1>7. ASSUME NEW p \in Phones, GraceExpires(p)
      PROVE  PresenceInv'
  <2>1. UNCHANGED <<life, asking, slot, rows, probes>>
    BY <1>7 DEF GraceExpires
  <2>2. Aged /\ (Heeded' => Heeded)
    BY <2>1 DEF Aged, Heeded, Open
  <2>3. CASE UNCHANGED <<seat, told, blurred>>
    BY <1>1, <2>1, <2>2, <2>3, PresenceKept
  <2>4. CASE seat[p] \in entry[p].owed /\ Leaves(p, entry[p].owed)
    <3>1. life'[seat[p]] = "closed"
      BY <2>1, <2>4 DEF PhonesInv, EntryInv
    <3>2. /\ seat' = [seat EXCEPT ![p] = Nobody] /\ told' = ToComputer(told \ {p})
          /\ blurred' = Blur
      BY <2>4 DEF Leaves
    <3> QED BY <2>1, <2>2, <3>1, <3>2, PresenceLeft
  <2> QED BY <1>7, <2>3, <2>4 DEF GraceExpires, Leaves
<1>8. ASSUME NEW p \in Phones, HoldEnds(p)
      PROVE  PresenceInv'
  <2>1. UNCHANGED <<life, asking, slot, seat, rows, probes, told, blurred>>
    BY <1>8 DEF HoldEnds, history
  <2> QED BY <1>1, <2>1, PresenceKept DEF Aged, Heeded, Open
<1> QED BY <1>3, <1>4, <1>5, <1>6, <1>7, <1>8 DEF PhoneSteps

LEMMA PresenceNext == TypeInv /\ PhonesInv /\ PresenceInv /\ [Next]_vars => PresenceInv'
<1> SUFFICES ASSUME TypeInv, PhonesInv, PresenceInv, [Next]_vars PROVE PresenceInv'
  OBVIOUS
<1>1. ASSUME NEW s \in Sockets, Asks(s)
      PROVE  PresenceInv'
  <2>1. /\ UNCHANGED <<slot, seat, rows, probes, told, blurred>> /\ asking' = asking \cup {s}
        /\ life[s] = "new" /\ life' = [life EXCEPT ![s] = "open"]
    BY <1>1 DEF Asks, registryVars, history
  <2>2. Aged
    BY <2>1 DEF Aged, TypeInv, Typed
  <2>3. /\ \A i \in DOMAIN probes : probes[i].by \notin asking'
        /\ slot # Nobody => slot # s
    BY <2>1 DEF PresenceInv, ProbesInv
  <2>4. Heeded' => Heeded
    BY <2>1, <2>3, TypeLinks DEF Heeded, Open, TypeInv, Typed
  <2> QED BY <2>1, <2>2, <2>3, <2>4, PresenceKept
<1>2. ASSUME NEW s \in Sockets, Refused(s)
      PROVE  PresenceInv'
  <2>1. UNCHANGED <<life, slot, seat, rows, probes, told, blurred>> /\ asking' \subseteq asking
    BY <1>2 DEF Refused, registryVars, history
  <2>2. \A i \in DOMAIN probes : probes[i].by \notin asking'
    BY <2>1 DEF PresenceInv, ProbesInv
  <2> QED BY <2>1, <2>2, PresenceKept DEF Aged, Heeded, Open
<1>3. CASE UNCHANGED vars
  <2>1. UNCHANGED <<life, asking, slot, seat, rows, probes, told, blurred>>
    BY <1>3 DEF vars, registryVars, history
  <2>2. \A i \in DOMAIN probes : probes[i].by \notin asking'
    BY <2>1 DEF PresenceInv, ProbesInv
  <2> QED BY <2>1, <2>2, PresenceKept DEF Aged, Heeded, Open
<1> QED BY <1>1, <1>2, <1>3, PresenceUnderPc, PresenceUnderPhones, PresenceProbed DEF Next

(* Once its answer is out the computer has been told exactly the phones in   *)
(* the seats, for any number of desktops displacing one another, of phones   *)
(* and of probes under way, unless a phone came or went meanwhile.           *)
THEOREM PresenceAlwaysExact == Spec => []PresenceExact
<1>1. PresenceInv => PresenceExact
  BY DEF PresenceInv
<1> QED BY TypeInit, TypeNext, PhonesInit, PhonesNext, PresenceInit, PresenceNext, <1>1, PTL DEF Spec
=============================================================================
