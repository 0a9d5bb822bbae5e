----------------------------- MODULE TcpFraming -----------------------------
(***************************************************************************)
(* One direction of a TCP connection: a sender frames messages onto the    *)
(* byte stream, and a session task calls recv in a select! loop, where     *)
(* another branch may win and drop the recv future.  Both backends speak   *)
(* the same frames: "tokio" (Framed with SbeFrameCodec, tokio-util is      *)
(* external) and "uring" (UringConnection).                                *)
(*                                                                         *)
(* The length prefix is a little-endian integer of PrefixBytes bytes (four *)
(* in the code, two here, so that a read can still cut it in half); the    *)
(* bytes of a body are the message's number.                               *)
(***************************************************************************)
EXTENDS Integers, Sequences, SequencesExt

CONSTANTS
  Backends,
  Lengths,          \* lengths the application sends
  SendLimit,        \* max_frame_size of the sender
  max_frame_size,   \* and of the receiver
  MaxSends, MaxCancels

PrefixBytes == 2
FramingAssumption ==
  /\ Backends \subseteq {"tokio", "uring"} /\ Lengths \subseteq 0..(2^16 - 1)
  /\ {SendLimit, max_frame_size, MaxSends, MaxCancels} \subseteq Nat

VARIABLES
  backend,
  messages,   \* lengths of the messages written whole
  sender,     \* "open", "closed", "died" (inside a frame)
  stream,     \* bytes written and not read
  src,        \* the receiver's buffer: Framed's, or pending
  recv,       \* "no" (no future), "called", "reading" (a read is outstanding)
  orphan,     \* a read whose future was dropped is still with the kernel
  got,        \* lengths of the messages returned
  ended,      \* what ended the session: "no", "none" for Ok(None), "error"
  lost,       \* bytes that went to an orphan
  cancels

vars == <<backend, messages, sender, stream, src, recv, orphan, got, ended, lost, cancels>>

Encode(n, len) == <<len % 256, len \div 256>> \o [i \in 1..len |-> n]
FrameLen(bytes) == bytes[1] + 256 * bytes[2]

(* Mutant: a prefix that came without its body is taken off and forgotten. *)
DecodeTakesPrefix(bytes) ==
  IF Len(bytes) < PrefixBytes THEN [r |-> "more", rest |-> bytes, len |-> 0]
  ELSE LET n == FrameLen(bytes)
       IN IF n > max_frame_size THEN [r |-> "too large", rest |-> bytes, len |-> 0]
          ELSE IF Len(bytes) < PrefixBytes + n
          THEN [r |-> "more", rest |-> SubSeq(bytes, PrefixBytes + 1, Len(bytes)), len |-> 0]
          ELSE [r |-> "frame", rest |-> SubSeq(bytes, PrefixBytes + n + 1, Len(bytes)), len |-> n]

(* SbeFrameCodec::decode *)
Decode(bytes) ==
  IF Len(bytes) < PrefixBytes THEN [r |-> "more", rest |-> bytes, len |-> 0]
  ELSE LET n == FrameLen(bytes)
       IN IF n > max_frame_size THEN [r |-> "too large", rest |-> bytes, len |-> 0]
          ELSE IF Len(bytes) < PrefixBytes + n THEN [r |-> "more", rest |-> bytes, len |-> 0]
          ELSE [r |-> "frame", rest |-> SubSeq(bytes, PrefixBytes + n + 1, Len(bytes)), len |-> n]

(* The io_uring connection decodes its pending bytes the same way. *)
TryTakeFrame(pending) == Decode(pending)

TakeFrame(bytes) == IF backend = "tokio" THEN Decode(bytes) ELSE TryTakeFrame(bytes)

Init ==
  /\ backend \in Backends
  /\ messages = <<>> /\ sender = "open" /\ stream = <<>> /\ src = <<>> /\ recv = "no"
  /\ orphan = FALSE /\ got = <<>> /\ ended = "no" /\ lost = 0 /\ cancels = 0
-----------------------------------------------------------------------------
(* send: a message above the limit is refused, with nothing written. *)
Send ==
  /\ sender = "open" /\ Len(messages) < MaxSends
  /\ \E len \in Lengths :
       IF len > SendLimit THEN UNCHANGED <<messages, stream>>
       ELSE /\ messages' = Append(messages, len)
            /\ stream' = stream \o Encode(Len(messages'), len)
  /\ UNCHANGED <<backend, sender, src, recv, orphan, got, ended, lost, cancels>>

Close ==
  /\ sender = "open"
  /\ sender' = "closed"
  /\ UNCHANGED <<backend, messages, stream, src, recv, orphan, got, ended, lost, cancels>>

(* External: the sender's process ends with a frame half written. *)
Dies ==
  /\ sender = "open" /\ Len(messages) < MaxSends
  /\ sender' = "died"
  /\ \E n \in 1..PrefixBytes :
       stream' = stream \o SubSeq(Encode(Len(messages) + 1, max_frame_size), 1, n)
  /\ UNCHANGED <<backend, messages, src, recv, orphan, got, ended, lost, cancels>>

(* The session's loop calls recv. *)
RecvCalled ==
  /\ ended = "no" /\ recv = "no"
  /\ recv' = "called"
  /\ UNCHANGED <<backend, messages, sender, stream, src, orphan, got, ended, lost, cancels>>

(* A poll that looks at the buffer: a whole frame is returned, one too      *)
(* large is an error (and ends the session), otherwise the socket is read.  *)
RecvDecodes ==
  /\ recv = "called"
  /\ LET d == TakeFrame(src)
     IN /\ src' = d.rest
        /\ got' = IF d.r = "frame" THEN Append(got, d.len) ELSE got
        /\ ended' = IF d.r = "too large" THEN "error" ELSE ended
        /\ recv' = IF d.r = "more" THEN "reading" ELSE "no"
  /\ UNCHANGED <<backend, messages, sender, stream, orphan, lost, cancels>>

RecvReads ==
  /\ recv = "reading" /\ ~orphan /\ stream # <<>>
  /\ \E n \in 1..Len(stream) :
       src' = src \o SubSeq(stream, 1, n) /\ stream' = SubSeq(stream, n + 1, Len(stream))
  /\ recv' = "called"
  /\ UNCHANGED <<backend, messages, sender, orphan, got, ended, lost, cancels>>

(* Mutant: Framed takes any end of the stream for a clean one. *)
RecvEofAlwaysNone ==
  /\ recv = "reading" /\ ~orphan /\ stream = <<>> /\ sender # "open"
  /\ recv' = "no" /\ ended' = "none"
  /\ UNCHANGED <<backend, messages, sender, stream, src, orphan, got, lost, cancels>>

(* End of the stream: Framed calls decode_eof, which refuses leftover       *)
(* bytes; UringConnection returns Ok(None) whatever it has pending.         *)
RecvEof ==
  /\ recv = "reading" /\ ~orphan /\ stream = <<>> /\ sender # "open"
  /\ recv' = "no"
  /\ ended' = IF backend = "tokio" /\ src # <<>> THEN "error" ELSE "none"
  /\ UNCHANGED <<backend, messages, sender, stream, src, orphan, got, lost, cancels>>

(* Another branch of the select! wins.  Framed keeps its buffer and reads   *)
(* nothing more; a read submitted to io_uring stays with the kernel.        *)
RecvDropped ==
  /\ recv \in {"called", "reading"} /\ cancels < MaxCancels
  /\ cancels' = cancels + 1
  /\ orphan' = (orphan \/ (backend = "uring" /\ recv = "reading"))
  /\ recv' = "no"
  /\ UNCHANGED <<backend, messages, sender, stream, src, got, ended, lost>>

(* The kernel completes such a read; its buffer has no owner. *)
OrphanCompletes ==
  /\ orphan /\ (stream # <<>> \/ sender # "open")
  /\ orphan' = FALSE
  /\ \E n \in IF stream = <<>> THEN {0} ELSE 1..Len(stream) :
       stream' = SubSeq(stream, n + 1, Len(stream)) /\ lost' = lost + n
  /\ UNCHANGED <<backend, messages, sender, src, recv, got, ended, cancels>>

Next ==
  \/ Send \/ Close \/ Dies \/ RecvCalled \/ RecvDecodes \/ RecvReads \/ RecvEof
  \/ RecvDropped \/ OrphanCompletes

(* The session's task is scheduled and the kernel completes reads. *)
Fairness ==
  /\ WF_vars(RecvCalled \/ RecvDecodes \/ RecvReads \/ RecvEof)
  /\ WF_vars(OrphanCompletes)

Spec == Init /\ [][Next]_vars
-----------------------------------------------------------------------------
(* However the bytes are cut into reads, and whenever recv is dropped and   *)
(* called again, it returns the messages sent, in order and once; and       *)
(* Ok(None) comes after all of them.  With tokio it also means that the     *)
(* sender closed between two frames.  The exception is a recv dropped while *)
(* its io_uring read is with the kernel: the bytes it reads are lost.       *)
StreamInOrder ==
  lost = 0 =>
    /\ IsPrefix(got, messages)
    /\ ended = "none" => got = messages
    /\ ended = "none" /\ backend = "tokio" => sender = "closed"

(* Once the sender is done, all it sent is received, or the session ends.   *)
StreamDelivered ==
  (sender # "open" \/ Len(messages) = MaxSends)
    ~> (Len(got) = Len(messages) \/ ended # "no" \/ lost > 0)
=============================================================================
