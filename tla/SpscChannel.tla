---------------------------- MODULE SpscChannel ----------------------------
(***************************************************************************)
(* The SPSC channel: ironsbe-channel/src/spsc.rs, a closed flag beside a   *)
(* ring buffer of the rtrb crate (external; its push and pop are atomic).  *)
(*                                                                         *)
(* is_connected reads the flag with a Relaxed load and then the ring.  A   *)
(* Relaxed load orders nothing after it, so a weakly ordered processor may *)
(* read the ring first: EarlyRing and LateFlag.                            *)
(***************************************************************************)
EXTENDS Naturals, Sequences

CONSTANTS
    Capacity,   \* channel(capacity)
    MaxItems    \* bound: items sent

SpscAssumption ==
    /\ Capacity \in Nat
    /\ MaxItems \in Nat

VARIABLES
    ring,      \* the items in the rtrb ring
    closed,    \* the shared flag
    sender,    \* the SpscSender exists
    sent,      \* how many items send accepted
    receiver,  \* the SpscReceiver exists
    received,  \* history: the items received
    probe,     \* where is_connected is: "idle", "flag" or "ring" (what it read)
    over       \* history: is_connected answered FALSE: "no", "ordered" (its loads
               \* ran in program order) or "reordered"

vars == <<ring, closed, sender, sent, receiver, received, probe, over>>

Init ==
    /\ ring = <<>>
    /\ closed = FALSE
    /\ sender = TRUE
    /\ sent = 0
    /\ receiver = TRUE
    /\ received = <<>>
    /\ probe = "idle"
    /\ over = "no"

\* send (and try_send) when it returns Ok.
Send ==
    /\ sender
    /\ sent < MaxItems
    /\ ~closed
    /\ Len(ring) < Capacity
    /\ ring' = Append(ring, sent + 1)
    /\ sent' = sent + 1
    /\ UNCHANGED <<closed, sender, receiver, received, probe, over>>

DropSender ==
    /\ sender
    /\ sender' = FALSE
    /\ closed' = TRUE
    /\ UNCHANGED <<ring, sent, receiver, received, probe, over>>

\* recv, try_recv, a turn of recv_spin and recv_spin_limited, and a step of
\* the drain iterator, when there is an item.
Recv ==
    /\ receiver /\ probe = "idle"
    /\ ring # <<>>
    /\ received' = Append(received, Head(ring))
    /\ ring' = Tail(ring)
    /\ UNCHANGED <<closed, sender, sent, receiver, probe, over>>

\* is_connected loads the flag; it is done when the flag is not set.
ProbeFlag ==
    /\ receiver /\ probe = "idle"
    /\ closed
    /\ probe' = "flag"
    /\ UNCHANGED <<ring, closed, sender, sent, receiver, received, over>>

\* Mutant of ProbeRing: the ring is not looked at.
ProbeRingTrusted ==
    /\ probe = "flag"
    /\ probe' = "idle"
    /\ over' = "ordered"
    /\ UNCHANGED <<ring, closed, sender, sent, receiver, received>>

\* It then finds the ring empty or not.
ProbeRing ==
    /\ probe = "flag"
    /\ probe' = "idle"
    /\ over' = IF ring = <<>> THEN "ordered" ELSE over
    /\ UNCHANGED <<ring, closed, sender, sent, receiver, received>>

\* The loads in the other order: the ring was empty when it was read.
EarlyRing ==
    /\ receiver /\ probe = "idle"
    /\ ring = <<>>
    /\ probe' = "ring"
    /\ UNCHANGED <<ring, closed, sender, sent, receiver, received, over>>

LateFlag ==
    /\ probe = "ring"
    /\ probe' = "idle"
    /\ over' = IF closed THEN "reordered" ELSE over
    /\ UNCHANGED <<ring, closed, sender, sent, receiver, received>>

DropReceiver ==
    /\ receiver /\ probe = "idle"
    /\ receiver' = FALSE
    /\ closed' = TRUE
    /\ UNCHANGED <<ring, sender, sent, received, probe, over>>

Next ==
    \/ Send \/ DropSender
    \/ Recv \/ DropReceiver
    \/ ProbeFlag \/ ProbeRing \/ EarlyRing \/ LateFlag

Spec == Init /\ [][Next]_vars

-----------------------------------------------------------------------------
(* Properties.                                                             *)

\* Every variable keeps its type and the ring its capacity.
TypeOK ==
    /\ ring \in Seq(1..MaxItems) /\ Len(ring) <= Capacity
    /\ {closed, sender, receiver} \subseteq BOOLEAN
    /\ probe \in {"idle", "flag", "ring"}
    /\ over \in {"no", "ordered", "reordered"}

\* is_connected answers FALSE only after a drop, and then, if its two loads
\* ran in program order, everything sent has been received, in order: a caller
\* that stops polling (wait_event does) loses no item.
DisconnectIsDrained ==
    /\ over # "no" => closed
    /\ over = "ordered" => received = [i \in 1..sent |-> i]
=============================================================================
