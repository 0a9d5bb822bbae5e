---------------------------- MODULE MpscChannel ----------------------------
(***************************************************************************)
(* The MPSC channel: ironsbe-channel/src/mpsc.rs over crossbeam's bounded  *)
(* channel (external: a queue, the count of senders, the receiver).        *)
(*                                                                         *)
(* An item is <<sender, number>>.  is_disconnected is two operations on    *)
(* the queue, is_empty and then try_recv, and a sender may move between.   *)
(***************************************************************************)
EXTENDS Naturals, Sequences, FiniteSets

CONSTANTS
    Senders,    \* the clones of the MpscSender
    Capacity,   \* channel(capacity)
    MaxItems    \* bound: items per sender

MpscAssumption == Capacity \in Nat \ {0} /\ MaxItems \in Nat

VARIABLES
    queue,     \* the items in the channel
    alive,     \* senders not dropped yet
    receiver,  \* the receiver exists
    blocked,   \* senders inside a blocking send or send_timeout
    sent,      \* per sender, items accepted
    received,  \* history: what recv and its kin returned
    probe,     \* is_disconnected has seen the channel empty
    swallowed  \* history: the items is_disconnected took out

vars == <<queue, alive, receiver, blocked, sent, received, probe, swallowed>>

Init ==
    /\ queue = <<>>
    /\ alive = Senders
    /\ receiver = TRUE
    /\ blocked = {}
    /\ sent = [s \in Senders |-> 0]
    /\ received = <<>>
    /\ probe = FALSE
    /\ swallowed = {}

\* The item of s enters the channel.
Accept(s) ==
    /\ receiver
    /\ Len(queue) < Capacity
    /\ queue' = Append(queue, <<s, sent[s] + 1>>)
    /\ sent' = [sent EXCEPT ![s] = @ + 1]

\* try_send returns Ok, and so does a send that need not wait.
TrySend(s) ==
    /\ s \in alive \ blocked
    /\ sent[s] < MaxItems
    /\ Accept(s)
    /\ UNCHANGED <<alive, receiver, blocked, received, probe, swallowed>>

\* send and send_timeout wait for room.
SendBlocks(s) ==
    /\ s \in alive \ blocked
    /\ sent[s] < MaxItems
    /\ receiver
    /\ Len(queue) >= Capacity
    /\ blocked' = blocked \cup {s}
    /\ UNCHANGED <<queue, alive, receiver, sent, received, probe, swallowed>>

SendUnblocks(s) ==
    /\ s \in blocked
    /\ Accept(s)
    /\ blocked' = blocked \ {s}
    /\ UNCHANGED <<alive, receiver, received, probe, swallowed>>

\* send returns the item: the receiver is gone (or send_timeout ran out).
SendFails(s) ==
    /\ s \in blocked
    /\ blocked' = blocked \ {s}
    /\ UNCHANGED <<queue, alive, receiver, sent, received, probe, swallowed>>

DropSender(s) ==
    /\ s \in alive \ blocked
    /\ alive' = alive \ {s}
    /\ UNCHANGED <<queue, receiver, blocked, sent, received, probe, swallowed>>

\* Mutant of Recv: pops the other end.
RecvLast ==
    /\ receiver /\ ~probe
    /\ queue # <<>>
    /\ received' = Append(received, queue[Len(queue)])
    /\ queue' = SubSeq(queue, 1, Len(queue) - 1)
    /\ UNCHANGED <<alive, receiver, blocked, sent, probe, swallowed>>

\* try_recv, recv, recv_timeout and a step of drain, when there is an item.
Recv ==
    /\ receiver /\ ~probe
    /\ queue # <<>>
    /\ received' = Append(received, Head(queue))
    /\ queue' = Tail(queue)
    /\ UNCHANGED <<alive, receiver, blocked, sent, probe, swallowed>>

\* is_disconnected: is_empty() is true.
ProbeEmpty ==
    /\ receiver /\ ~probe
    /\ queue = <<>>
    /\ probe' = TRUE
    /\ UNCHANGED <<queue, alive, receiver, blocked, sent, received, swallowed>>

\* try_recv() is an error: Empty or Disconnected, it makes no difference.
ProbeError ==
    /\ probe
    /\ queue = <<>>
    /\ probe' = FALSE
    /\ UNCHANGED <<queue, alive, receiver, blocked, sent, received, swallowed>>

\* try_recv() got an item that arrived meanwhile; it is dropped.
ProbeSwallows ==
    /\ probe
    /\ queue # <<>>
    /\ probe' = FALSE
    /\ queue' = Tail(queue)
    /\ swallowed' = swallowed \cup {Head(queue)}
    /\ UNCHANGED <<alive, receiver, blocked, sent, received>>

DropReceiver ==
    /\ receiver /\ ~probe
    /\ receiver' = FALSE
    /\ UNCHANGED <<queue, alive, blocked, sent, received, probe, swallowed>>

Probe == ProbeEmpty \/ ProbeError \/ ProbeSwallows

Next ==
    \/ \E s \in Senders : TrySend(s) \/ SendBlocks(s) \/ SendUnblocks(s)
                          \/ SendFails(s) \/ DropSender(s)
    \/ Recv \/ Probe \/ DropReceiver

Spec == Init /\ [][Next]_vars

-----------------------------------------------------------------------------
(* Properties.                                                             *)

\* The numbers of the items of s in q.
From(q, s) == LET own == SelectSeq(q, LAMBDA e : e[1] = s)
              IN  [i \in DOMAIN own |-> own[i][2]]

\* Every variable keeps its type; the channel respects its capacity and only
\* a sender that has not been dropped is inside send.
TypeOK ==
    /\ queue \in Seq(Senders \X Nat) /\ Len(queue) <= Capacity
    /\ blocked \subseteq alive /\ alive \subseteq Senders
    /\ {receiver, probe} \subseteq BOOLEAN
    /\ sent \in [Senders -> 0..MaxItems]
    /\ swallowed \subseteq Senders \X (1..MaxItems)

\* Nothing that send accepted is doubled or overtaken by a later item of the
\* same sender, and nothing is lost but the items that arrived between the
\* two looks of an is_disconnected, which it drops.
NothingLost ==
    \A s \in Senders :
        From(received \o queue, s) =
            SelectSeq([i \in 1..sent[s] |-> i], LAMBDA i : <<s, i>> \notin swallowed)
=============================================================================
