---------------------------- MODULE SmoltcpStack ----------------------------
(***************************************************************************)
(* AF_XDP with the TCP stack: SmoltcpStack::on_rx and poll_timers, each a  *)
(* whole call of SmoltcpStackInner::poll, and the SmoltcpConnection the    *)
(* application holds.  smoltcp itself (the sockets, what a segment does to *)
(* them) is external.                                                      *)
(*                                                                         *)
(* The bytes of a stream are tokens [kind, msg]: a message is its "prefix" *)
(* and its "body"; "big" is a prefix above max_frame_size and "junk" the   *)
(* bytes that follow it.                                                   *)
(***************************************************************************)
EXTENDS Integers, Sequences, SequencesExt, FiniteSets

CONSTANTS
  max_sessions, Streams,   \* the token sequences a client may send
  TxRoom,                  \* tokens the socket's transmit buffer holds
  MaxConnects, MaxSends

SmoltcpAssumption == {max_sessions, TxRoom, MaxConnects, MaxSends} \subseteq Nat \ {0}

VARIABLES
  listening,       \* listening sockets
  sessions,        \* sequence of sessions, each with its socket
  connects, sends

vars == <<listening, sessions, connects, sends>>

Token(kind, msg) == [kind |-> kind, msg |-> msg]
Garbage == 0   \* a frame no client framed

(* sock is smoltcp's: "open", "peer_closed" (a FIN came: CLOSE-WAIT), "reset". *)
NewSession(stream) ==
  [sock |-> "open", coming |-> stream, sock_rx |-> <<>>, room |-> TxRoom, wire |-> <<>>,
   rx_queue |-> <<>>, tx_queue |-> <<>>, buf |-> <<>>, parked |-> "no", closed |-> FALSE,
   handle |-> "open", got |-> <<>>, ended |-> FALSE, stream |-> stream, asked |-> <<>>, cut |-> FALSE]

is_active(s) == s.sock # "reset"
can_recv(s) == s.sock_rx # <<>>
can_send(s) == s.sock # "reset" /\ s.room > 0

Woken(s) == [s EXCEPT !.parked = IF @ = "parked" THEN "woken" ELSE @]
-----------------------------------------------------------------------------
(* The decode loop on a buffer.  Bytes that are not a prefix are read as    *)
(* one; what follows an oversized frame may well look like a short frame.   *)
RECURSIVE Decode(_, _)
Decode(buf, frames) ==
  LET stop == [frames |-> frames, rest |-> buf, too_large |-> FALSE]
  IN IF buf = <<>> THEN stop
     ELSE CASE Head(buf).kind = "big" -> [frames |-> frames, rest |-> <<>>, too_large |-> TRUE]
            [] Head(buf).kind = "prefix" ->
                 IF Len(buf) = 1 THEN stop
                 ELSE Decode(Tail(Tail(buf)), Append(frames, Head(buf).msg))
            [] OTHER -> Decode(Tail(buf), Append(frames, Garbage))

(* Mutant: a partial frame at the end of a segment is thrown away. *)
DrainRxForgets(s, n) ==
  LET d == Decode(SubSeq(s.sock_rx, 1, n), <<>>)
      t == [s EXCEPT !.sock_rx = SubSeq(@, n + 1, Len(@)), !.buf = <<>>,
                     !.rx_queue = @ \o d.frames, !.closed = @ \/ d.too_large]
  IN IF d.frames # <<>> \/ d.too_large THEN Woken(t) ELSE t

(* One contiguous slice of the socket's buffer is taken over and decoded. *)
DrainRx(s, n) ==
  LET d == Decode(s.buf \o SubSeq(s.sock_rx, 1, n), <<>>)
      t == [s EXCEPT !.sock_rx = SubSeq(@, n + 1, Len(@)), !.buf = d.rest,
                     !.rx_queue = @ \o d.frames, !.closed = @ \/ d.too_large]
  IN IF d.frames # <<>> \/ d.too_large THEN Woken(t) ELSE t

(* Outbound messages go to the socket while it has room.  send_slice takes  *)
(* what fits, and the message counts as sent.                               *)
DrainTx(s) ==
  LET q == s.tx_queue
      bytes == [j \in 1..2 * Len(q) |-> Token(IF j % 2 = 1 THEN "prefix" ELSE "body", q[(j + 1) \div 2])]
      n == IF ~can_send(s) THEN 0 ELSE IF s.room < Len(bytes) THEN s.room ELSE Len(bytes)
      taken == (n + 1) \div 2
  IN [s EXCEPT !.tx_queue = SubSeq(q, taken + 1, Len(q)), !.wire = @ \o SubSeq(bytes, 1, n),
               !.room = @ - n, !.cut = @ \/ n % 2 = 1]

(* Mutant: a connection that is reset leaves recv waiting. *)
DetectCloseNoWake(s) == IF is_active(s) THEN s ELSE [s EXCEPT !.closed = TRUE]

DetectClose(s) ==
  IF is_active(s) \/ s.closed THEN s ELSE Woken([s EXCEPT !.closed = TRUE])

(* A session's part of poll; recv of smoltcp hands over one slice of what   *)
(* has arrived, its size depends on where the ring buffer wraps.            *)
PollSession(s) ==
  LET slices == IF can_recv(s) THEN 1..Len(s.sock_rx) ELSE {0}
  IN {DrainTx(u) : u \in {DrainRx(t, n) : t \in {DetectClose(s)}, n \in slices}}

(* SmoltcpStackInner::poll after smoltcp has processed what there is: every *)
(* session is served.                                                       *)
Polled(ss) ==
  \E outcome \in [DOMAIN ss -> UNION {PollSession(ss[i]) : i \in DOMAIN ss}] :
    /\ \A i \in DOMAIN ss : outcome[i] \in PollSession(ss[i])
    /\ sessions' = outcome

(* The listening socket that took a SYN becomes a session, and a fresh one  *)
(* is armed below the limit.                                                *)
Promote(stream) ==
  LET armed == listening - 1
  IN /\ listening' = IF Len(sessions) + 1 + armed < max_sessions THEN armed + 1 ELSE armed
     /\ Polled(Append(sessions, NewSession(stream)))

-----------------------------------------------------------------------------
(* SmoltcpStack::new arms one listener. *)
Init ==
  /\ listening = 1 /\ sessions = <<>> /\ connects = 0 /\ sends = 0

(* on_rx with a SYN: the connection is the return value. *)
OnRxSyn ==
  /\ connects < MaxConnects /\ listening > 0
  /\ connects' = connects + 1
  /\ \E stream \in Streams : Promote(stream)
  /\ UNCHANGED <<sends>>

(* on_rx with a segment of an established connection: data, the peer's FIN, *)
(* its reset, or an acknowledgement that makes room.                        *)
Segments(s) ==
  {[s EXCEPT !.sock_rx = @ \o SubSeq(s.coming, 1, n), !.coming = SubSeq(@, n + 1, Len(@))]
     : n \in {k \in 1..Len(s.coming) : s.sock = "open"}}
  \cup (IF s.sock = "open" /\ s.coming = <<>> THEN {[s EXCEPT !.sock = "peer_closed"]} ELSE {})
  \cup (IF s.sock # "reset" THEN {[s EXCEPT !.sock = "reset"]} ELSE {})
  \cup (IF s.room < TxRoom THEN {[s EXCEPT !.room = @ + 1]} ELSE {})

OnRxSegment(i) ==
  /\ i \in DOMAIN sessions
  /\ \E s \in Segments(sessions[i]) : Polled([sessions EXCEPT ![i] = s])
  /\ UNCHANGED <<listening, connects, sends>>

(* poll_timers: the same poll, with nothing received. *)
PollTimers ==
  /\ sessions # <<>>
  /\ Polled(sessions)
  /\ UNCHANGED <<listening, connects, sends>>
-----------------------------------------------------------------------------
(* SmoltcpRecvFuture::poll: queued frames come before the end. *)
Recv(i) ==
  /\ i \in DOMAIN sessions
  /\ LET s == sessions[i]
     IN /\ s.handle = "open" /\ s.parked # "parked" /\ ~s.ended
        /\ sessions' = [sessions EXCEPT ![i] =
             IF s.rx_queue # <<>>
             THEN [s EXCEPT !.rx_queue = Tail(@), !.got = Append(@, Head(s.rx_queue)), !.parked = "no"]
             ELSE IF s.closed THEN [s EXCEPT !.ended = TRUE, !.parked = "no"]
             ELSE [s EXCEPT !.parked = "parked"]]
  /\ UNCHANGED <<listening, connects, sends>>

Send(i) ==
  /\ i \in DOMAIN sessions /\ sessions[i].handle = "open" /\ sends < MaxSends
  /\ sends' = sends + 1
  /\ sessions' = [sessions EXCEPT ![i].tx_queue = Append(@, sends'), ![i].asked = Append(@, sends')]
  /\ UNCHANGED <<listening, connects>>

(* Drop for SmoltcpConnection: the session and its socket stay. *)
Drop(i) ==
  /\ i \in DOMAIN sessions /\ sessions[i].handle = "open"
  /\ sessions' = [sessions EXCEPT ![i] = Woken([@ EXCEPT !.closed = TRUE, !.handle = "dropped"])]
  /\ UNCHANGED <<listening, connects, sends>>

Next ==
  \/ OnRxSyn \/ PollTimers
  \/ \E i \in 1..MaxConnects : OnRxSegment(i) \/ Recv(i) \/ Send(i) \/ Drop(i)

(* The accept loop polls, and the executor polls a recv that is ready. *)
Fairness == WF_vars(PollTimers) /\ \A i \in 1..max_sessions : WF_vars(Recv(i))

FairSpec == Init /\ [][Next]_vars /\ Fairness
-----------------------------------------------------------------------------
Whole(tokens) == SelectSeq(tokens, LAMBDA t : t.kind = "prefix")
Framed(tokens) == LET w == Whole(tokens) IN [i \in DOMAIN w |-> w[i].msg]
Oversized(s) == \E i \in DOMAIN s.stream : s.stream[i].kind = "big"

(* However the stream is cut into segments and slices, recv returns the     *)
(* client's messages in order, each once, as long as none is oversized.     *)
TcpInOrder ==
  \A i \in DOMAIN sessions :
    LET s == sessions[i]
    IN Oversized(s) \/ IsPrefix(s.got \o s.rx_queue, Framed(s.stream))

(* The bytes given to the socket are those of the messages sent, in order,  *)
(* one whole message after the other, until one is cut short for want of    *)
(* room.                                                                    *)
WireWhole ==
  \A i \in DOMAIN sessions :
    LET s == sessions[i]
    IN /\ Framed(s.wire) \o s.tx_queue = s.asked
       /\ ~s.cut => \A k \in DOMAIN s.wire :
            s.wire[k].kind = (IF k % 2 = 1 THEN "prefix" ELSE "body")

(* Listeners and sessions together stay within max_sessions; as no session  *)
(* is ever removed the limit is on connections ever accepted.               *)
SessionsBounded == Len(sessions) + listening <= max_sessions

(* A connection that is reset, or that sent an oversized frame, ends recv.  *)
ResetEnds ==
  \A i \in 1..max_sessions :
    (i \in DOMAIN sessions /\ (~is_active(sessions[i]) \/ sessions[i].closed))
      ~> (i \in DOMAIN sessions /\ (sessions[i].handle = "dropped" \/ sessions[i].ended))

=============================================================================
