----------------------------- MODULE ForwardOnce -----------------------------
(***************************************************************************)
(* What forwarding promises of a fact that must be performed once: a       *)
(* metering call a replica could not write itself                          *)
(* (apps/server-core/src/db/replica-outbox.ts, "AT-LEAST-ONCE, AND THE     *)
(* WRITER MUST DEDUPE"; node/forward-ledger.ts, "Perform `effect` exactly  *)
(* once for this id"). There is no file, no request and no crash here:     *)
(* only what is owed, how often it was performed, and what is no longer    *)
(* owed. ForwardOutbox implements it.                                      *)
(***************************************************************************)
EXTENDS Naturals

CONSTANT Facts

VARIABLES
    owed,       \* facts the replica has undertaken to hand over
    performed,  \* how often the writer has performed each
    settled     \* facts no longer owed

vars == <<owed, performed, settled>>

Init ==
    /\ owed = {}
    /\ performed = [f \in Facts |-> 0]
    /\ settled = {}

(* The caller of a metering method returns: its fact is owed, again if it is *)
(* the same operation's.                                                     *)
Owe(f) ==
    /\ owed' = owed \cup {f}
    /\ settled' = settled \ {f}
    /\ UNCHANGED performed

(* The writer performs a batch, each of its facts for the first time. *)
Perform(S) ==
    /\ S # {}
    /\ \A f \in S : f \in owed /\ performed[f] = 0
    /\ performed' = [f \in Facts |-> IF f \in S THEN 1 ELSE performed[f]]
    /\ UNCHANGED <<owed, settled>>

(* The replica stops owing what has been performed, and nothing else. *)
Settle(S) ==
    /\ S # {}
    /\ \A f \in S : f \in owed \ settled /\ performed[f] = 1
    /\ settled' = settled \cup S
    /\ UNCHANGED <<owed, performed>>

Next ==
    \/ \E f \in Facts : Owe(f)
    \/ \E S \in SUBSET Facts : Perform(S)
    \/ \E S \in SUBSET Facts : Settle(S)

Spec == Init /\ [][Next]_vars

==============================================================================
