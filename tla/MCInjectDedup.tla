--------------------------- MODULE MCInjectDedup ---------------------------
(* Instances of InjectDedup for TLC. *)
EXTENDS InjectDedup, TLC

CONSTANTS lan, cloud

\* The two channels are interchangeable in the safety runs.
ThreadSymmetry == Permutations(Threads)

Delivery(r, late) == [id |-> r, text |-> "a", deliberate |-> FALSE, deferred |-> late]
Anonymous(s, pressed) == [id |-> NoId, text |-> s, deliberate |-> pressed, deferred |-> FALSE]

\* Copies of a delivery: the live frame and the phone's later, deferred one.
Copies == {Delivery(r, late) : r \in Ids, late \in BOOLEAN}
LiveCopies == {Delivery(r, FALSE) : r \in Ids}
NoLegacy == {<<>>}
\* A retired ledger of one delivery, or none.
OneRetired == {<<>>, <<1>>}
\* Frames without an id: spoken, or pressed on the desktop's own timeline.
Spoken == {Anonymous(s, pressed) : s \in Texts, pressed \in BOOLEAN}
Mixed == LiveCopies \cup Spoken
=============================================================================
