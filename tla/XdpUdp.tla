------------------------------- MODULE XdpUdp -------------------------------
(***************************************************************************)
(* AF_XDP with the UDP stack: XdpListener::accept drives                   *)
(* Datapath::poll_once, which moves frame descriptors between the rings    *)
(* and feeds the packets to UdpStack::on_rx; UdpConnection is what the     *)
(* application holds.  All of it is one thread: tasks of the application   *)
(* run only where accept yields or returns (pc = "idle").  The kernel      *)
(* works on its side of the rings at any time.                             *)
(*                                                                         *)
(* A packet is [kind, peer, id]: what parse_arp, parse_ipv4_udp and the    *)
(* length prefix make of the bytes.                                        *)
(***************************************************************************)
EXTENDS Integers, Sequences, SequencesExt, FiniteSets

CONSTANTS Descs, BATCH_SIZE, Peers, MaxPackets, MaxSends

XdpAssumption == IsFiniteSet(Descs) /\ {BATCH_SIZE, MaxPackets, MaxSends} \subseteq Nat

VARIABLES
  pc,             \* "idle", "poll", "rx" and "tx" inside poll_once
  free_descs, fill_q, tx_q, comp_q,   \* sets of descriptors
  rx_q, rx_scratch,                   \* received: [desc, pkt]
  tx_buf, new_conns, processed,       \* locals of poll_once
  pending_conns,  \* connections accepted and not yet returned
  connections,    \* peer -> [known, rx_queue, parked, closed]
  handle,         \* peer -> "none", "pending", "open", "dropped"
  pending_tx,     \* messages UdpConnection::send queued
  seen, got,      \* peer -> payloads taken in by on_rx, returned by recv
  sent,           \* messages the kernel transmitted
  leaked,         \* descriptors in no ring and no pool
  packets, sends  \* so far

rings == <<free_descs, fill_q, tx_q, comp_q, rx_q, rx_scratch, leaked>>
stack == <<connections, handle, pending_tx, seen, got, sends>>
listener == <<tx_buf, new_conns, pending_conns>>
vars == <<pc, rings, stack, listener, processed, sent, packets>>

DescsIn(q) == {q[i].desc : i \in DOMAIN q}
(* Datapath::bind gives the kernel half of the frames to receive into. *)
Half == Cardinality(Descs) \div 2

ArpReply == 0   \* among the frames; a message sent is a positive number

FillFrames == CHOOSE f \in SUBSET Descs : Cardinality(f) = Half

(* Which descriptor of a pool comes next is of no consequence. *)
NextOf(pool) == CHOOSE d \in pool : TRUE

NoState == [known |-> FALSE, rx_queue |-> <<>>, parked |-> "no", closed |-> FALSE]

Init ==
  /\ pc = "poll"
  /\ fill_q = FillFrames /\ free_descs = Descs \ FillFrames
  /\ tx_q = {} /\ comp_q = {} /\ rx_q = <<>> /\ rx_scratch = <<>> /\ leaked = {}
  /\ tx_buf = <<>> /\ new_conns = <<>> /\ pending_conns = <<>> /\ processed = 0
  /\ connections = [p \in Peers |-> NoState] /\ handle = [p \in Peers |-> "none"]
  /\ pending_tx = <<>> /\ seen = [p \in Peers |-> <<>>] /\ got = [p \in Peers |-> <<>>]
  /\ sent = {} /\ packets = 0 /\ sends = 0
-----------------------------------------------------------------------------
(* The kernel. *)
Packets ==
  [kind : {"data"}, peer : Peers, id : {packets + 1}]
  \cup [kind : {"arp", "ignored", "short"}, peer : {CHOOSE p \in Peers : TRUE}, id : {packets + 1}]

KernelReceives ==
  /\ packets < MaxPackets /\ fill_q # {}
  /\ fill_q' = fill_q \ {NextOf(fill_q)}
  /\ \E p \in Packets : rx_q' = Append(rx_q, [desc |-> NextOf(fill_q), pkt |-> p])
  /\ packets' = packets + 1
  /\ UNCHANGED <<pc, free_descs, tx_q, comp_q, rx_scratch, leaked, stack, listener, processed, sent>>

KernelTransmits ==
  /\ \E t \in tx_q : /\ tx_q' = tx_q \ {t}
                     /\ comp_q' = comp_q \cup {t.desc}
                     /\ sent' = sent \cup {t.frame}
  /\ UNCHANGED <<pc, free_descs, fill_q, rx_q, rx_scratch, leaked, stack, listener, processed, packets>>
-----------------------------------------------------------------------------
(* A waker that is taken and woken. *)
Woken(s) == [s EXCEPT !.parked = IF @ = "parked" THEN "woken" ELSE @]

(* Drop for UdpConnection: the entry stays in the map. *)
Closed(s) == Woken([s EXCEPT !.closed = TRUE])

(* The connections of a poll_once that returns an error are dropped with it. *)
DropAll(conns) ==
  /\ connections' = [p \in Peers |-> IF p \in Range(conns) THEN Closed(connections[p]) ELSE connections[p]]
  /\ handle' = [p \in Peers |-> IF p \in Range(conns) THEN "dropped" ELSE handle[p]]

(* accept: a connection left over from an earlier round is returned first. *)
AcceptReturns ==
  /\ pc = "poll" /\ pending_conns # <<>>
  /\ handle' = [handle EXCEPT ![Head(pending_conns)] = "open"]
  /\ pending_conns' = Tail(pending_conns)
  /\ pc' = "idle"
  /\ UNCHANGED <<rings, tx_buf, new_conns, processed, connections, pending_tx, seen, got, sends, sent, packets>>

Batch(n) == IF n < BATCH_SIZE THEN n ELSE BATCH_SIZE

(* Up to BATCH_SIZE descriptors of the completion ring. *)
Completed == CHOOSE s \in SUBSET comp_q : Cardinality(s) = Batch(Cardinality(comp_q))

(* poll_once: completed descriptors are reclaimed, received ones consumed, *)
(* no more than a batch of each.                                           *)
PollStart ==
  /\ pc = "poll" /\ pending_conns = <<>>
  /\ free_descs' = free_descs \cup Completed /\ comp_q' = comp_q \ Completed
  /\ LET n == Batch(Len(rx_q))
     IN rx_scratch' = SubSeq(rx_q, 1, n) /\ rx_q' = SubSeq(rx_q, n + 1, Len(rx_q))
  /\ tx_buf' = <<>> /\ new_conns' = <<>> /\ processed' = 0
  /\ pc' = "rx"
  /\ UNCHANGED <<fill_q, tx_q, leaked, pending_conns, stack, sent, packets>>

(* Mutant: the waiting recv is not woken. *)
EnqueueNoWake(s, id) == [s EXCEPT !.known = TRUE, !.rx_queue = Append(@, id)]

Enqueue(s, id) == Woken([s EXCEPT !.known = TRUE, !.rx_queue = Append(@, id)])

(* What the frame parsers tell on_rx: an ARP request for our address; a     *)
(* datagram for our address and port whose prefix is within the limit.      *)
(* "ignored" stands for all else.                                           *)
ParseArp(pkt) == pkt.kind = "arp"
ParseIpv4Udp(pkt) == pkt.kind \in {"data", "short"}

(* on_rx for the i-th descriptor of the batch. An ARP request for our       *)
(* address is answered; a frame that is not ours, or too large, is ignored; *)
(* a datagram is queued for its peer, with a connection if it is the first. *)
OnRx(pkt) ==
  /\ tx_buf' = IF ParseArp(pkt) THEN Append(tx_buf, ArpReply) ELSE tx_buf
  /\ IF ~ParseIpv4Udp(pkt) THEN UNCHANGED <<connections, handle, seen, new_conns>>
     ELSE LET p == pkt.peer
          IN /\ connections' = [connections EXCEPT ![p] = Enqueue(@, pkt.id)]
             /\ seen' = [seen EXCEPT ![p] = Append(@, pkt.id)]
             /\ IF connections[p].known THEN UNCHANGED <<handle, new_conns>>
                ELSE /\ new_conns' = Append(new_conns, p)
                     /\ handle' = [handle EXCEPT ![p] = "pending"]

RxOne ==
  /\ pc = "rx" /\ processed < Len(rx_scratch)
  /\ rx_scratch[processed + 1].pkt.kind # "short"
  /\ OnRx(rx_scratch[processed + 1].pkt)
  /\ processed' = processed + 1
  /\ UNCHANGED <<pc, rings, pending_conns, pending_tx, got, sends, sent, packets>>

(* poll_once returns an error, and accept with it: what the round queued and *)
(* accepted is dropped.                                                     *)
PollFails ==
  /\ tx_buf' = <<>> /\ new_conns' = <<>> /\ processed' = 0
  /\ DropAll(new_conns)
  /\ pc' = "idle"
  /\ UNCHANGED <<pending_conns, pending_tx, seen, got, sends, sent, packets>>

(* on_rx fails when the prefix promises more than the datagram holds: the   *)
(* descriptors of the batch are in rx_scratch and go nowhere.               *)
RxFails ==
  /\ pc = "rx" /\ processed < Len(rx_scratch)
  /\ rx_scratch[processed + 1].pkt.kind = "short"
  /\ leaked' = leaked \cup DescsIn(rx_scratch)
  /\ rx_scratch' = <<>>
  /\ PollFails
  /\ UNCHANGED <<free_descs, fill_q, tx_q, comp_q, rx_q>>

(* Mutant: the batch goes to the transmit pool, as the comment on free_descs says. *)
RxDoneToPool ==
  /\ pc = "rx" /\ processed = Len(rx_scratch)
  /\ free_descs' = free_descs \cup DescsIn(rx_scratch)
  /\ rx_scratch' = <<>>
  /\ pc' = "tx"
  /\ UNCHANGED <<fill_q, tx_q, comp_q, rx_q, leaked, listener, processed, stack, sent, packets>>

(* The batch is done: its descriptors are the kernel's again.  poll_timers   *)
(* of the UDP stack does nothing.                                           *)
RxDone ==
  /\ pc = "rx" /\ processed = Len(rx_scratch)
  /\ fill_q' = fill_q \cup DescsIn(rx_scratch)
  /\ rx_scratch' = <<>>
  /\ pc' = "tx"
  /\ UNCHANGED <<free_descs, tx_q, comp_q, rx_q, leaked, listener, processed, stack, sent, packets>>

(* One frame of tx_buf.  It is dropped, the descriptor if any going back to *)
(* the pool, when no descriptor is free or write_all finds the frame too    *)
(* large for one.                                                           *)
TxDropped ==
  /\ pc = "tx" /\ tx_buf # <<>>
  /\ tx_buf' = Tail(tx_buf)
  /\ UNCHANGED <<pc, rings, new_conns, processed, pending_conns, stack, sent, packets>>

(* The wake-up after produce may fail, and then poll_once does. *)
TxOne ==
  /\ pc = "tx" /\ tx_buf # <<>> /\ free_descs # {}
  /\ free_descs' = free_descs \ {NextOf(free_descs)}
  /\ tx_q' = tx_q \cup {[desc |-> NextOf(free_descs), frame |-> Head(tx_buf)]}
  /\ \/ /\ tx_buf' = Tail(tx_buf)
        /\ UNCHANGED <<pc, new_conns, processed, pending_conns, stack, sent, packets>>
     \/ PollFails
  /\ UNCHANGED <<fill_q, comp_q, rx_q, rx_scratch, leaked>>

(* The end of the round, and what accept makes of it: the first connection  *)
(* is returned, the others wait; without one accept polls again, and yields *)
(* first if no frame came.                                                  *)
PollDone ==
  /\ pc = "tx" /\ tx_buf = <<>>
  /\ LET conns == pending_conns \o new_conns
     IN /\ pending_conns' = IF conns = <<>> THEN <<>> ELSE Tail(conns)
        /\ handle' = IF conns = <<>> THEN handle ELSE [handle EXCEPT ![Head(conns)] = "open"]
        /\ pc' = IF conns = <<>> /\ processed > 0 THEN "poll" ELSE "idle"
  /\ new_conns' = <<>> /\ processed' = 0
  /\ UNCHANGED <<rings, tx_buf, connections, pending_tx, seen, got, sends, sent, packets>>

PollWakeupFails ==
  /\ pc = "tx" /\ tx_buf = <<>>
  /\ PollFails
  /\ UNCHANGED rings

(* The executor comes back to the accept loop. *)
Resume ==
  /\ pc = "idle"
  /\ pc' = "poll"
  /\ UNCHANGED <<rings, stack, listener, processed, sent, packets>>
-----------------------------------------------------------------------------
(* The application.  UdpRecvFuture::poll: a queued payload, or parked. Only *)
(* a poll that can go further than the last one is a step.                  *)
Recv(p) ==
  /\ pc = "idle" /\ handle[p] = "open" /\ connections[p].parked # "parked"
  /\ IF connections[p].rx_queue # <<>>
     THEN /\ got' = [got EXCEPT ![p] = Append(@, Head(connections[p].rx_queue))]
          /\ connections' = [connections EXCEPT ![p].rx_queue = Tail(@), ![p].parked = "no"]
     ELSE /\ connections' = [connections EXCEPT ![p].parked = "parked"]
          /\ UNCHANGED got
  /\ UNCHANGED <<pc, rings, listener, processed, handle, pending_tx, seen, sends, sent, packets>>

(* A frame for the peer, unless it is above the limit: the map has an entry *)
(* for every handle.                                                        *)
BuildOutbound(p, fits) == connections[p].known /\ fits

Send(p) ==
  /\ pc = "idle" /\ handle[p] = "open" /\ sends < MaxSends
  /\ sends' = sends + 1
  /\ \E fits \in BOOLEAN :
       pending_tx' = IF BuildOutbound(p, fits) THEN Append(pending_tx, sends') ELSE pending_tx
  /\ UNCHANGED <<pc, rings, listener, processed, connections, handle, seen, got, sent, packets>>

Drop(p) ==
  /\ pc = "idle" /\ handle[p] = "open"
  /\ handle' = [handle EXCEPT ![p] = "dropped"]
  /\ connections' = [connections EXCEPT ![p] = Closed(@)]
  /\ UNCHANGED <<pc, rings, listener, processed, pending_tx, seen, got, sends, sent, packets>>

Poll ==
  AcceptReturns \/ PollStart \/ RxOne \/ RxFails \/ RxDone \/ TxDropped \/ TxOne \/ PollDone \/ PollWakeupFails

Next ==
  \/ KernelReceives \/ KernelTransmits \/ Poll \/ Resume
  \/ \E p \in Peers : Recv(p) \/ Send(p) \/ Drop(p)

(* The thread always has something to do, its executor comes back to every  *)
(* task that is ready, and the kernel transmits what is in the ring.        *)
Fairness ==
  /\ WF_vars(Poll) /\ WF_vars(Resume) /\ WF_vars(KernelTransmits)
  /\ \A p \in Peers : SF_vars(Recv(p))

FairSpec == Init /\ [][Next]_vars /\ Fairness
-----------------------------------------------------------------------------
(* Descriptors are frames of the UMEM, and poll_once and the recv futures   *)
(* are in a state the code has.                                             *)
TypeOK ==
  /\ pc \in {"idle", "poll", "rx", "tx"}
  /\ \A s \in {free_descs, fill_q, comp_q, leaked, {t.desc : t \in tx_q}} : s \subseteq Descs
  /\ \A p \in Peers : connections[p].parked \in {"no", "parked", "woken"}

(* A frame of the UMEM is in one place: the pool, one of the rings, or the  *)
(* batch.  The receive half and the transmit half never mix, and a frame is *)
(* missing only because on_rx refused one of its batch.                     *)
FramesAccounted ==
  LET tx_descs == {t.desc : t \in tx_q}
      rx_side == <<fill_q, DescsIn(rx_q), DescsIn(rx_scratch), leaked>>
      tx_side == <<free_descs, tx_descs, comp_q>>
      all == rx_side \o tx_side
  IN /\ \A i, j \in DOMAIN all : i # j => all[i] \cap all[j] = {}
     /\ Cardinality(DescsIn(rx_q)) = Len(rx_q) /\ Cardinality(tx_descs) = Cardinality(tx_q)
     /\ Cardinality(UNION Range(rx_side)) = Half
     /\ UNION Range(all) = Descs

(* What recv has returned and what is still queued for a peer is what came  *)
(* from that peer, in order, and no recv is left parked beside a payload.   *)
UdpInOrder ==
  \A p \in Peers :
    /\ got[p] \o connections[p].rx_queue = seen[p]
    /\ connections[p].parked = "parked" => connections[p].rx_queue = <<>>

(* "The datapath drains this on its next poll round" and "Called by the     *)
(* datapath after every rx round and timer poll": a message send queued is  *)
(* transmitted.                                                             *)
SendIsTransmitted ==
  \A m \in 1..MaxSends : (m \in Range(pending_tx)) ~> (m \in sent)
=============================================================================
