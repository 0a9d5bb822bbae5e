--------------------------- MODULE RdmaConnection ---------------------------
(***************************************************************************)
(* The data path of an established RdmaConnection: one task calls send and *)
(* recv (never both at once, they take &mut self), and the adapter works   *)
(* in parallel on the posted work requests.  The adapter and the peer are  *)
(* external; an RC queue pair completes work in order.                     *)
(*                                                                         *)
(* A frame of the peer is [id, kind]: "good", or one of the malformed      *)
(* kinds consume_pending_recv tells apart.                                 *)
(***************************************************************************)
EXTENDS Integers, Sequences, FiniteSets, SequencesExt

CONSTANTS
  RECV_DEPTH, CQ_CAPACITY,
  MaxSendWr,  \* the send queue of the queue pair
  Frames,     \* what the peer sends
  SendLens    \* the length of the message of each send call made

CQ_RECV_HEADROOM == RECV_DEPTH
CQ_DRAIN_HIGH_WATER == CQ_CAPACITY - CQ_RECV_HEADROOM
CQ_DRAIN_LOW_WATER == CQ_DRAIN_HIGH_WATER \div 2

(* The compile-time assertions on the watermarks. *)
RdmaAssumption ==
  /\ {RECV_DEPTH, CQ_CAPACITY, MaxSendWr} \subseteq Nat
  /\ SendLens \in Seq(Nat)
  /\ CQ_RECV_HEADROOM <= CQ_CAPACITY
  /\ CQ_DRAIN_LOW_WATER < CQ_DRAIN_HIGH_WATER
  /\ CQ_DRAIN_HIGH_WATER < CQ_CAPACITY
  /\ CQ_CAPACITY - CQ_DRAIN_HIGH_WATER >= CQ_RECV_HEADROOM
  /\ Frames \in Seq([id : Nat, kind : {"good", "short", "oversized", "truncated"}])

VARIABLES
  pc,             \* "idle", "draining" inside send, "receiving" inside recv
  send_buf,       \* the message last copied into send_buf, 0 for none
  sq,             \* SENDs posted and not processed, by the message meant
  posted,         \* RECVs posted, by buffer index
  recv_bufs,      \* index -> the frame the adapter last placed there
  cq,             \* completions not polled: [op, idx, ok]
  pending_sends,
  pending_recvs,  \* buffer indices
  qp,             \* "ok" or "error"
  sends,          \* send calls made; the n-th sends message n
  arrived,        \* how many of Frames the adapter placed
  got,            \* frames recv returned
  wire,           \* what the peer made of each frame: [meant, kind, sent]
  refused,        \* post_send found the send queue full
  unposted        \* buffers that post_recv failed to post again

vars == <<pc, send_buf, sq, posted, recv_bufs, cq, pending_sends, pending_recvs,
          qp, sends, arrived, got, wire, refused, unposted>>

Buffers == 1..RECV_DEPTH
NoFrame == [id |-> 0, kind |-> "none"]
Done(op, idx, ok) == [op |-> op, idx |-> idx, ok |-> ok]
Flushed(op, ids) == [i \in DOMAIN ids |-> Done(op, ids[i], FALSE)]
OpsIn(q, op) == Cardinality({i \in DOMAIN q : q[i].op = op})
SendsIn(q) == OpsIn(q, "send")
IndicesIn(q) == LET r == SelectSeq(q, LAMBDA c : c.op = "recv") IN [i \in DOMAIN r |-> r[i].idx]

(* from_accepted_cm_id has posted every buffer. *)
Init ==
  /\ pc = "idle" /\ send_buf = 0 /\ sq = <<>> /\ posted = [i \in Buffers |-> i]
  /\ recv_bufs = [i \in Buffers |-> NoFrame] /\ cq = <<>> /\ pending_sends = 0
  /\ pending_recvs = <<>> /\ qp = "ok" /\ sends = 0 /\ arrived = 0
  /\ got = <<>> /\ wire = <<>> /\ refused = FALSE /\ unposted = {}

-----------------------------------------------------------------------------
(* Mutant: the frame is not copied while an earlier one is in the send      *)
(* queue.                                                                   *)
PostSendKeepsBuffer(m) ==
  /\ pc' = "idle"
  /\ send_buf' = IF sq = <<>> THEN m ELSE send_buf
  /\ IF Len(sq) + SendsIn(cq) >= MaxSendWr
     THEN refused' = TRUE /\ UNCHANGED <<sq, cq, pending_sends>>
     ELSE /\ UNCHANGED refused
          /\ pending_sends' = pending_sends + 1
          /\ IF qp = "ok" THEN sq' = Append(sq, m) /\ UNCHANGED cq
             ELSE cq' = Append(cq, Done("send", m, FALSE)) /\ UNCHANGED sq

(* The end of send: the frame is copied into the one send_buf and posted. A *)
(* WR posted on a queue pair in error is flushed at once.                   *)
PostSend(m) ==
  /\ pc' = "idle"
  /\ send_buf' = m
  /\ IF Len(sq) + SendsIn(cq) >= MaxSendWr
     THEN refused' = TRUE /\ UNCHANGED <<sq, cq, pending_sends>>
     ELSE /\ UNCHANGED refused
          /\ pending_sends' = pending_sends + 1
          /\ IF qp = "ok" THEN sq' = Append(sq, m) /\ UNCHANGED cq
             ELSE cq' = Append(cq, Done("send", m, FALSE)) /\ UNCHANGED sq

(* Mutant: send posts without looking at the high-water mark. *)
SendNoDrain ==
  /\ pc = "idle" /\ sends < Len(SendLens)
  /\ sends' = sends + 1
  /\ PostSend(sends')
  /\ UNCHANGED <<posted, recv_bufs, pending_recvs, qp, arrived, got, wire, unposted>>

Send ==
  /\ pc = "idle" /\ sends < Len(SendLens)
  /\ sends' = sends + 1
  /\ IF pending_sends >= CQ_DRAIN_HIGH_WATER
     THEN pc' = "draining" /\ UNCHANGED <<send_buf, sq, cq, pending_sends, refused>>
     ELSE PostSend(sends')
  /\ UNCHANGED <<posted, recv_bufs, pending_recvs, qp, arrived, got, wire, unposted>>

(* drain_cq on a non-empty queue.  An error completion is consumed, and     *)
(* neither the counter nor the buffer it stands for is given back.          *)
DrainCq ==
  LET wc == Head(cq)
  IN /\ cq' = Tail(cq)
     /\ pending_sends' = IF wc.ok /\ wc.op = "send"
                         THEN (IF pending_sends = 0 THEN 0 ELSE pending_sends - 1)
                         ELSE pending_sends

(* drain_until_low_water: an empty queue only makes it sleep. *)
DrainStep ==
  /\ pc = "draining" /\ pending_sends >= CQ_DRAIN_LOW_WATER /\ cq # <<>>
  /\ DrainCq
  /\ pc' = IF Head(cq).ok THEN pc ELSE "idle"
  /\ pending_recvs' = IF Head(cq).ok /\ Head(cq).op = "recv"
                      THEN Append(pending_recvs, Head(cq).idx) ELSE pending_recvs
  /\ UNCHANGED <<send_buf, sq, posted, recv_bufs, qp, sends, arrived, got, wire, refused,
                 unposted>>

DrainEnds ==
  /\ pc = "draining" /\ pending_sends < CQ_DRAIN_LOW_WATER
  /\ PostSend(sends)
  /\ UNCHANGED <<posted, recv_bufs, pending_recvs, qp, sends, arrived, got, wire, unposted>>

(* post_recv: on a queue pair in error the WR comes straight back. *)
PostRecv(q, idx) ==
  IF qp = "ok" THEN posted' = Append(posted, idx) /\ cq' = q
  ELSE cq' = Append(q, Done("recv", idx, FALSE)) /\ UNCHANGED posted

(* consume_pending_recv: a malformed frame is an Err and its buffer is      *)
(* posted again all the same.  When post_recv fails its `?` returns before  *)
(* the payload does: the frame is lost, and the buffer stays unposted.      *)
Consume(q, idx) ==
  /\ pc' = "idle"
  /\ \/ /\ PostRecv(q, idx)
        /\ got' = IF recv_bufs[idx].kind = "good" THEN Append(got, recv_bufs[idx]) ELSE got
        /\ UNCHANGED unposted
     \/ /\ unposted' = unposted \cup {idx}
        /\ cq' = q
        /\ UNCHANGED <<posted, got>>

Recv ==
  /\ pc = "idle"
  /\ IF pending_recvs # <<>>
     THEN /\ pending_recvs' = Tail(pending_recvs)
          /\ Consume(cq, Head(pending_recvs))
     ELSE pc' = "receiving" /\ UNCHANGED <<pending_recvs, got, posted, cq, unposted>>
  /\ UNCHANGED <<send_buf, sq, recv_bufs, pending_sends, qp, sends, arrived, wire, refused>>

RecvStep ==
  /\ pc = "receiving" /\ cq # <<>>
  /\ IF Head(cq).op = "recv" /\ Head(cq).ok
     THEN Consume(Tail(cq), Head(cq).idx) /\ UNCHANGED pending_sends
     ELSE /\ DrainCq
          /\ pc' = IF Head(cq).ok THEN pc ELSE "idle"
          /\ UNCHANGED <<got, posted, unposted>>
  /\ UNCHANGED <<send_buf, sq, recv_bufs, pending_recvs, qp, sends, arrived, wire, refused>>

(* The session's select! drops the recv future at its yield. *)
RecvCancelled ==
  /\ pc = "receiving"
  /\ pc' = "idle"
  /\ UNCHANGED <<send_buf, sq, posted, recv_bufs, cq, pending_sends, pending_recvs,
                 qp, sends, arrived, got, wire, refused, unposted>>
-----------------------------------------------------------------------------
(* What the peer's consume_pending_recv makes of m's frame.  The WR has m's *)
(* length; the prefix in its bytes is that of message `prefix` (its four    *)
(* bytes are taken to be of one message) and what follows was copied for    *)
(* `body`.                                                                  *)
Seen(m, prefix, body) ==
  [meant |-> m, sent |-> prefix,
   kind |-> CASE SendLens[prefix] > SendLens[m] -> "truncated"
              [] prefix = body -> "whole"
              [] OTHER -> "mixed"]

(* The length of a WR is fixed when it is posted, its bytes are read from   *)
(* the one send_buf when the adapter gets to it, while later sends may be   *)
(* copying theirs: it finds what the buffer holds, what it held since the   *)
(* message was copied, or a mix.                                            *)
NicSend ==
  /\ qp = "ok" /\ sq # <<>>
  /\ \E prefix, body \in {send_buf} \cup (Head(sq)..send_buf) :
         wire' = Append(wire, Seen(Head(sq), prefix, body))
  /\ sq' = Tail(sq)
  /\ cq' = Append(cq, Done("send", Head(sq), TRUE))
  /\ UNCHANGED <<pc, send_buf, posted, recv_bufs, pending_sends, pending_recvs,
                 qp, sends, arrived, got, refused, unposted>>

NicRecv ==
  /\ qp = "ok" /\ posted # <<>> /\ arrived < Len(Frames)
  /\ arrived' = arrived + 1
  /\ recv_bufs' = [recv_bufs EXCEPT ![Head(posted)] = Frames[arrived']]
  /\ posted' = Tail(posted)
  /\ cq' = Append(cq, Done("recv", Head(posted), TRUE))
  /\ UNCHANGED <<pc, send_buf, sq, pending_sends, pending_recvs, qp, sends, got, wire, refused,
                 unposted>>

(* The peer goes away: everything posted is flushed. *)
QpError ==
  /\ qp = "ok"
  /\ qp' = "error" /\ sq' = <<>> /\ posted' = <<>>
  /\ cq' = cq \o Flushed("send", sq) \o Flushed("recv", posted)
  /\ UNCHANGED <<pc, send_buf, recv_bufs, pending_sends, pending_recvs, sends,
                 arrived, got, wire, refused, unposted>>

Next ==
  \/ Send \/ DrainStep \/ DrainEnds \/ Recv \/ RecvStep \/ RecvCancelled
  \/ NicSend \/ NicRecv \/ QpError

Spec == Init /\ [][Next]_vars

(* The adapter processes what is posted, and a send that has been called is *)
(* awaited to its end.                                                      *)
Fairness == WF_vars(NicSend) /\ WF_vars(DrainStep \/ DrainEnds)

-----------------------------------------------------------------------------
(* Type invariant, with send's own bound: pending_sends never passes the    *)
(* high-water mark.                                                         *)
TypeOK ==
  /\ pc \in {"idle", "draining", "receiving"} /\ qp \in {"ok", "error"}
  /\ pending_sends \in 0..CQ_DRAIN_HIGH_WATER
  /\ \A i \in Buffers : recv_bufs[i] \in {NoFrame} \cup Range(Frames)

(* The completion queue has room for every completion that can still come:  *)
(* also when the peer goes away and all that is posted is flushed at once.  *)
(* And post_send never meets a full send queue.                             *)
CqBounded ==
  /\ Len(cq) + Len(sq) + Len(posted) <= CQ_CAPACITY
  /\ ~refused

Good(s) == SelectSeq(s, LAMBDA f : f.kind = "good")
Buffered(ids) == [i \in DOMAIN ids |-> recv_bufs[ids[i]]]

(* The frames lost with a buffer that could not be posted again. *)
Lost == {recv_bufs[i] : i \in unposted}
Arrived == SelectSeq(Good(SubSeq(Frames, 1, arrived)), LAMBDA f : f \notin Lost)

(* "No bytes are ever dropped": the frames recv has returned, then those    *)
(* set aside by a draining send, then those completed in the queue, are the *)
(* good frames that arrived, in order, whatever send and recv interleave,   *)
(* save those whose buffer post_recv failed to post again.                  *)
RecvInOrder ==
  IF qp = "ok"
  THEN got \o Good(Buffered(pending_recvs)) \o Good(Buffered(IndicesIn(cq))) = Arrived
  ELSE IsPrefix(got, Arrived)

(* A receive buffer is in one place: posted, completed, set aside, or left  *)
(* unposted by a failing post_recv.  Until a completion fails none is       *)
(* missing.                                                                 *)
BuffersAccounted ==
  LET all == posted \o IndicesIn(cq) \o pending_recvs
  IN /\ \A i, j \in DOMAIN all : all[i] = all[j] => i = j
     /\ Range(all) \cap unposted = {}
     /\ qp = "ok" => Range(all) \cup unposted = Buffers

(* The one send_buf: every send makes one frame, in order, and a frame the  *)
(* peer takes for a whole message is never an older one than was meant.     *)
(* Frames that a later send overtook may be truncated, mixed or a newer     *)
(* message twice, but once the adapter has caught up the last message sent  *)
(* has arrived whole.                                                       *)
LastSendWhole ==
  /\ \A i \in DOMAIN wire :
        /\ wire[i].meant = i
        /\ wire[i].kind = "whole" => wire[i].sent >= i
  /\ (qp = "ok" /\ sq = <<>> /\ pc # "draining" /\ sends > 0) =>
        wire # <<>> /\ Last(wire) = [meant |-> sends, sent |-> sends, kind |-> "whole"]

(* A send that waits for room gets it, unless the connection fails. *)
SendReturns == (pc = "draining") ~> (pc # "draining" \/ qp = "error")
=============================================================================
