----------------------------- MODULE SharedRing -----------------------------
(***************************************************************************)
(* The shared-memory ring: ironsbe-transport/src/ipc/ringbuffer.rs.        *)
(*                                                                         *)
(* The file is modelled byte by byte from the end of the two atomic        *)
(* positions on: the header fields `capacity` and `mask` lie at bytes 128  *)
(* and 136 of the repr(C) struct, the data region starts at HEADER_SIZE.   *)
(* The positions head and tail are u64 counters that never wrap in         *)
(* practice; capacity is a power of two, so `x & mask` is x % capacity.    *)
(*                                                                         *)
(* SharedProducer::write and SharedConsumer::read run in two processes;    *)
(* their loads, copies and stores are separate steps.  Either process may  *)
(* die between two of them and be started again on the same file.          *)
(***************************************************************************)
EXTENDS Integers, Sequences

CONSTANTS
    HeaderSize,  \* SharedRingBuffer::HEADER_SIZE, 128 in the program
    Capacity,    \* the capacity given to create
    Payloads,    \* messages, sequences of bytes
    MaxMsgs      \* bound: messages written

SharedRingAssumption ==
    /\ HeaderSize \in Nat /\ HeaderSize >= 128
    /\ Capacity \in Nat \ {0}
    /\ Payloads \subseteq Seq(0..255)
    /\ MaxMsgs \in Nat

\* Offsets in the repr(C) struct: two AtomicU64, each padded to 64 bytes,
\* then two u64.
CapacityAt == 128
MaskAt == 136

\* The data region starts behind the header fields.  The program's HEADER_SIZE
\* is 128 and does not fit: with it the first write lands on them.
HeaderFits == HeaderSize >= MaskAt + 8

\* The bytes of the file that are modelled.
Bytes == CapacityAt..(CapacityAt + 15 + HeaderSize - 128 + Capacity)

\* The k low bytes of n, little endian.
ToLe(n, k) == [i \in 1..k |-> (n \div 256 ^ (i - 1)) % 256]

\* u32::from_le_bytes; a length of a message in a ring fits the low two bytes.
FromLe(b) == b[1] + 256 * b[2]

VARIABLES
    head,  \* write position
    tail,  \* read position
    mem,   \* the file from byte 128 on
    prod,  \* the producer's pc and its locals: message and head
    cons,  \* the consumer's pc and its locals: tail, length, data
    sent,  \* history: messages for which write returned true
    rcvd   \* history: messages that read returned

vars == <<head, tail, mem, prod, cons, sent, rcvd>>

ProdIdle == [pc |-> "idle"]
ConsIdle == [pc |-> "idle"]

\* The u64 at byte a holds n: the fields are compared as bytes, since a
\* corrupted value is of no further use to either side.
Holds(a, n) == [i \in 1..8 |-> mem[a + i - 1]] = ToLe(n, 4) \o <<0, 0, 0, 0>>

\* The header still says what create wrote.  With another capacity the slice
\* of the data region panics or the positions are meaningless.
HeaderIntact == Holds(CapacityAt, Capacity) /\ Holds(MaskAt, Capacity - 1)

\* Where byte `off` of the data region is, counted from any position.
Cell(off) == HeaderSize + (off % Capacity)

\* write_with_wrap
WriteWithWrap(off, data) ==
    [a \in Bytes |->
        IF \E i \in 1..Len(data) : a = Cell(off + i - 1)
        THEN data[CHOOSE i \in 1..Len(data) : a = Cell(off + i - 1)] ELSE mem[a]]

\* read_with_wrap
ReadWithWrap(off, len) == [i \in 1..len |-> mem[Cell(off + i - 1)]]

\* create: a truncated file of zeroes with the header filled in.
Init ==
    /\ head = 0
    /\ tail = 0
    /\ mem = [a \in Bytes |->
                CASE a \in CapacityAt..(CapacityAt + 3) -> ToLe(Capacity, 4)[a - CapacityAt + 1]
                  [] a \in MaskAt..(MaskAt + 3) -> ToLe(Capacity - 1, 4)[a - MaskAt + 1]
                  [] OTHER -> 0]
    /\ prod = ProdIdle
    /\ cons = ConsIdle
    /\ sent = <<>>
    /\ rcvd = <<>>

-----------------------------------------------------------------------------
(* SharedProducer::write                                                   *)

\* The loads and the check for space; without space write returns false.
WriteLoad(m) ==
    /\ prod.pc = "idle"
    /\ Len(sent) < MaxMsgs
    /\ HeaderIntact
    /\ Capacity - (head - tail) >= 4 + Len(m)
    /\ prod' = [pc |-> "prefix", msg |-> m, head |-> head]
    /\ UNCHANGED <<head, tail, mem, cons, sent, rcvd>>

WritePrefix ==
    /\ prod.pc = "prefix"
    /\ mem' = WriteWithWrap(prod.head, ToLe(Len(prod.msg), 4))
    /\ prod' = [prod EXCEPT !.pc = "data"]
    /\ UNCHANGED <<head, tail, cons, sent, rcvd>>

WriteData ==
    /\ prod.pc = "data"
    /\ mem' = WriteWithWrap(prod.head + 4, prod.msg)
    /\ prod' = [prod EXCEPT !.pc = "publish"]
    /\ UNCHANGED <<head, tail, cons, sent, rcvd>>

\* The release store of head; write returns true.
Publish ==
    /\ prod.pc = "publish"
    /\ head' = prod.head + 4 + Len(prod.msg)
    /\ sent' = Append(sent, prod.msg)
    /\ prod' = ProdIdle
    /\ UNCHANGED <<tail, mem, cons, rcvd>>

\* The producer dies in the middle of a write; another opens the file.
ProducerRestart ==
    /\ prod.pc # "idle"
    /\ prod' = ProdIdle
    /\ UNCHANGED <<head, tail, mem, cons, sent, rcvd>>

-----------------------------------------------------------------------------
(* SharedConsumer::read                                                    *)

\* The loads; read returns None when tail >= head.
ReadLoad ==
    /\ cons.pc = "idle"
    /\ tail < head
    /\ cons' = [pc |-> "prefix", tail |-> tail, len |-> 0, data |-> <<>>]
    /\ UNCHANGED <<head, tail, mem, prod, sent, rcvd>>

ReadPrefix ==
    /\ cons.pc = "prefix"
    /\ HeaderIntact
    /\ cons' = [cons EXCEPT !.pc = "data",
                            !.len = FromLe(ReadWithWrap(cons.tail, 4))]
    /\ UNCHANGED <<head, tail, mem, prod, sent, rcvd>>

\* Mutant of ReadData: the space is released before the data is copied.
ReadDataReleases ==
    /\ cons.pc = "data"
    /\ HeaderIntact
    /\ tail' = cons.tail + 4 + cons.len
    /\ cons' = [cons EXCEPT !.pc = "release",
                            !.data = ReadWithWrap(cons.tail + 4, cons.len)]
    /\ UNCHANGED <<head, mem, prod, sent, rcvd>>

\* Mutant of ReadData: the payload is read from the start of the record.
ReadDataAtPrefix ==
    /\ cons.pc = "data"
    /\ HeaderIntact
    /\ cons' = [cons EXCEPT !.pc = "release",
                            !.data = ReadWithWrap(cons.tail, cons.len)]
    /\ UNCHANGED <<head, tail, mem, prod, sent, rcvd>>

ReadData ==
    /\ cons.pc = "data"
    /\ HeaderIntact
    /\ cons' = [cons EXCEPT !.pc = "release",
                            !.data = ReadWithWrap(cons.tail + 4, cons.len)]
    /\ UNCHANGED <<head, tail, mem, prod, sent, rcvd>>

\* Mutant of Release: the length is taken to include the prefix as well.
ReleaseTwice ==
    /\ cons.pc = "release"
    /\ tail' = cons.tail + 4 + 4 + cons.len
    /\ rcvd' = Append(rcvd, cons.data)
    /\ cons' = ConsIdle
    /\ UNCHANGED <<head, mem, prod, sent>>

\* The release store of tail; read returns the data.
Release ==
    /\ cons.pc = "release"
    /\ tail' = cons.tail + 4 + cons.len
    /\ rcvd' = Append(rcvd, cons.data)
    /\ cons' = ConsIdle
    /\ UNCHANGED <<head, mem, prod, sent>>

\* The consumer dies in the middle of a read; another opens the file.
ConsumerRestart ==
    /\ cons.pc # "idle"
    /\ cons' = ConsIdle
    /\ UNCHANGED <<head, tail, mem, prod, sent, rcvd>>

Producer ==
    \/ \E m \in Payloads : WriteLoad(m)
    \/ WritePrefix
    \/ WriteData
    \/ Publish
    \/ ProducerRestart

Consumer ==
    \/ ReadLoad
    \/ ReadPrefix
    \/ ReadData
    \/ Release
    \/ ConsumerRestart

Next == Producer \/ Consumer

Spec == Init /\ [][Next]_vars

-----------------------------------------------------------------------------
(* Properties.                                                             *)

\* The positions never cross and never lie further apart than the capacity,
\* so `capacity - (head - tail)` does not underflow; bytes are bytes.
TypeOK ==
    /\ head \in Nat /\ tail \in Nat
    /\ tail <= head /\ head <= tail + Capacity
    /\ mem \in [Bytes -> 0..255]
    /\ prod.pc \in {"idle", "prefix", "data", "publish"}
    /\ cons.pc \in {"idle", "prefix", "data", "release"}

\* The cells the producer is writing.
Writing ==
    IF prod.pc \in {"prefix", "data", "publish"}
    THEN {Cell(p) : p \in prod.head..(prod.head + 3 + Len(prod.msg))} ELSE {}

\* The cells the consumer has read or is about to read.
Reading ==
    CASE cons.pc = "prefix" -> {Cell(p) : p \in cons.tail..(cons.tail + 3)}
      [] cons.pc \in {"data", "release"} ->
            {Cell(p) : p \in cons.tail..(cons.tail + 3 + cons.len)}
      [] OTHER -> {}

\* The copies of write and read are plain memory accesses from two processes:
\* in a ring whose header fits they never touch the same byte at the same time.
\* The program's header does not fit, and this says nothing about it.
NoDataRace == HeaderFits => Writing \cap Reading = {}

F == INSTANCE Fifo WITH Messages <- Payloads

\* A ring whose header fits implements a FIFO channel, also when either side is
\* restarted between any two of its steps: the positions and the order of the
\* loads, copies and stores are right.  It is not so for the program's
\* HEADER_SIZE: there HeaderIntact fails with the first write, and the data
\* region has to move behind the header before this holds.
ImplementsFifo == F!Spec
=============================================================================
