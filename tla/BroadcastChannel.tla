-------------------------- MODULE BroadcastChannel --------------------------
(***************************************************************************)
(* The broadcast channel: ironsbe-channel/src/broadcast.rs.                *)
(*                                                                         *)
(* A message is its sequence number.  send holds the write lock over       *)
(* several steps; recv, recv_all and subscribe_from_start take the read    *)
(* lock and run when no send holds it; subscribe and the sender's          *)
(* sequence() read only the atomic counter and run at any time.            *)
(***************************************************************************)
EXTENDS Naturals, Sequences, FiniteSets

CONSTANTS
    Receivers,
    Capacity,   \* channel(capacity)
    MaxSends    \* bound: messages sent

BroadcastAssumption == Capacity \in Nat /\ MaxSends \in Nat

\* The next_seq of a receiver that does not exist.
Unborn == MaxSends + 1

VARIABLES
    buffer,     \* BroadcastState::buffer
    sequence,   \* BroadcastState::sequence
    published,  \* BroadcastSender::sequence, the atomic
    closed,     \* BroadcastState::closed
    send,       \* where send is; it holds the write lock unless "idle"
    next_seq,   \* per receiver
    first,      \* history: next_seq at its subscription
    got         \* history: the messages it received, in order

vars == <<buffer, sequence, published, closed, send, next_seq, first, got>>

Elements(s) == {s[i] : i \in DOMAIN s}

Init ==
    /\ buffer = <<>>
    /\ sequence = 0
    /\ published = 0
    /\ closed = FALSE
    /\ send = "idle"
    /\ next_seq = [r \in Receivers |-> Unborn]
    /\ first = next_seq
    /\ got = [r \in Receivers |-> <<>>]

-----------------------------------------------------------------------------
(* BroadcastSender.                                                        *)

SendBegin ==
    /\ ~closed
    /\ send = "idle"
    /\ sequence < MaxSends
    /\ sequence' = sequence + 1
    /\ send' = "evict"
    /\ UNCHANGED <<buffer, published, closed, next_seq, first, got>>

\* One turn of `while buffer.len() >= capacity { pop_front() }`.
Evict ==
    /\ send = "evict"
    /\ Len(buffer) >= Capacity
    /\ buffer' = IF buffer = <<>> THEN <<>> ELSE Tail(buffer)
    /\ UNCHANGED <<sequence, published, closed, send, next_seq, first, got>>

\* Mutant of SendPush: the eviction loop is not awaited.
SendPushAlways ==
    /\ send = "evict"
    /\ buffer' = Append(buffer, sequence - 1)
    /\ send' = "store"
    /\ UNCHANGED <<sequence, published, closed, next_seq, first, got>>

SendPush ==
    /\ send = "evict"
    /\ Len(buffer) < Capacity
    /\ buffer' = Append(buffer, sequence - 1)
    /\ send' = "store"
    /\ UNCHANGED <<sequence, published, closed, next_seq, first, got>>

\* The atomic store, and send returns.
SendStore ==
    /\ send = "store"
    /\ published' = sequence
    /\ send' = "idle"
    /\ UNCHANGED <<buffer, sequence, closed, next_seq, first, got>>

DropSender ==
    /\ send = "idle"
    /\ ~closed
    /\ closed' = TRUE
    /\ UNCHANGED <<buffer, sequence, published, send, next_seq, first, got>>

\* A new receiver that starts at n.
NewReceiver(r, n) ==
    /\ next_seq[r] = Unborn
    /\ next_seq' = [next_seq EXCEPT ![r] = n]
    /\ first' = [first EXCEPT ![r] = n]
    /\ UNCHANGED <<buffer, sequence, published, closed, send, got>>

Subscribe(r) ==
    /\ ~closed
    /\ NewReceiver(r, published)

SubscribeFromStart(r) ==
    /\ ~closed
    /\ send = "idle"
    /\ NewReceiver(r, IF buffer = <<>> THEN 0 ELSE Head(buffer))

-----------------------------------------------------------------------------
(* BroadcastReceiver.                                                      *)

\* Receiver r takes the messages of batch, the last one being n.
Take(r, batch, n) ==
    /\ got' = [got EXCEPT ![r] = @ \o batch]
    /\ next_seq' = [next_seq EXCEPT ![r] = n + 1]
    /\ UNCHANGED <<buffer, sequence, published, closed, send, first>>

\* recv; when the expected message is not buffered it changes nothing.
Recv(r) ==
    /\ send = "idle"
    /\ next_seq[r] \in Elements(buffer)
    /\ Take(r, <<next_seq[r]>>, next_seq[r])

\* Mutant of RecvAll: > for >=.
RecvAllSkipsFirst(r) ==
    /\ send = "idle"
    /\ \E n \in Elements(buffer) : n >= next_seq[r]
    /\ LET new == SelectSeq(buffer, LAMBDA n : n > next_seq[r])
       IN  Take(r, new, buffer[Len(buffer)])

\* recv_all, when there is something to receive.
RecvAll(r) ==
    /\ send = "idle"
    /\ \E n \in Elements(buffer) : n >= next_seq[r]
    /\ LET new == SelectSeq(buffer, LAMBDA n : n >= next_seq[r])
       IN  Take(r, new, buffer[Len(buffer)])

\* q becomes a clone of r.
Clone(r, q) ==
    /\ next_seq[r] # Unborn
    /\ NewReceiver(q, next_seq[r])

Sending == SendBegin \/ Evict \/ SendPush \/ SendStore

Next ==
    \/ Sending
    \/ DropSender
    \/ \E r \in Receivers :
           \/ Subscribe(r) \/ SubscribeFromStart(r)
           \/ Recv(r) \/ RecvAll(r)
           \/ \E q \in Receivers : Clone(r, q)

Spec == Init /\ [][Next]_vars

-----------------------------------------------------------------------------
(* Properties.                                                             *)

Born == {r \in Receivers : next_seq[r] # Unborn}

\* Every variable keeps its type and the buffer never exceeds the capacity.
TypeOK ==
    /\ buffer \in Seq(0..MaxSends) /\ Len(buffer) <= Capacity
    /\ sequence \in 0..MaxSends
    /\ published \in {sequence} \cup (IF send = "idle" THEN {} ELSE {sequence - 1})
    /\ closed \in BOOLEAN
    /\ send \in {"idle", "evict", "store"}
    /\ next_seq \in [Receivers -> 0..Unborn]
    /\ first \in [Receivers -> 0..Unborn]
    /\ got \in [Receivers -> Seq(0..MaxSends)]

\* Between sends the buffer holds the last messages sent, without a hole.
BufferIsTail ==
    send = "idle" =>
        LET n == Len(buffer)
        IN  /\ n = Capacity \/ n = sequence
            /\ \A i \in 1..n : buffer[i] = sequence - n + i - 1

\* A receiver gets messages in order, none sent before its subscription, and
\* misses one only because send evicted it to keep the capacity: recv and
\* recv_all never step over a message that is buffered or still to be sent.
NoSilentLoss ==
    /\ BufferIsTail
    /\ \A r \in Born :
        /\ \A i \in 1..(Len(got[r]) - 1) : got[r][i] < got[r][i + 1]
        /\ \A n \in Elements(got[r]) : first[r] <= n
        /\ \A n \in first[r]..(next_seq[r] - 1) :
               \/ n \in Elements(got[r])
               \/ \A b \in Elements(buffer) \cup {sequence} : n < b
=============================================================================
