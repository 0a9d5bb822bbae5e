----------------------------- MODULE MarketData -----------------------------
(***************************************************************************)
(* The market data handler and its order books:                            *)
(* ironsbe-marketdata/src/handler.rs and book.rs.                          *)
(*                                                                         *)
(* The exchange publishes one Tape of level updates, numbered from 1; the  *)
(* true book after update n is Truth[n].  The feeds are datagrams: any     *)
(* incremental may arrive at any time, again, late or never, and any       *)
(* snapshot of the truth may arrive at any time.  A level is the quantity  *)
(* at a price, 0 when there is none; order counts are left out.            *)
(***************************************************************************)
EXTENDS Integers, Sequences, FiniteSets, SequencesExt

CONSTANTS
    Instruments,
    Prices,      \* price levels
    Tape,        \* the exchange's updates, records of side, price, quantity
    MaxPending   \* bound: queued incrementals

MarketDataAssumption ==
    /\ Prices \in SUBSET Int /\ IsFiniteSet(Prices)
    /\ Tape \in Seq([side : {"Bid", "Ask"}, price : Prices, quantity : Nat])
    /\ MaxPending \in Nat

Sides == {"Bid", "Ask"}

\* The sequence numbers of updates, and of snapshots.
Updates == 1..Len(Tape)
Snapshots == 0..Len(Tape)

\* enum InstrumentState, and no entry in `states`.
None == "None"
InstrumentStates == {None, "Initializing", "Active", "Recovering", "Stale"}

\* OrderBook::new
EmptyBook == [s \in Sides |-> [p \in Prices |-> 0]]

\* BookSide::update by OrderBook::apply_update: quantity 0 removes the level.
ApplyUpdate(book, n) ==
    [book EXCEPT ![Tape[n].side][Tape[n].price] = Tape[n].quantity]

\* The book every receiver should have after update n.
Truth[n \in Snapshots] == IF n = 0 THEN EmptyBook ELSE ApplyUpdate(Truth[n - 1], n)

\* BookSide::top, as the set of its price: empty when the side is.
Top(book, side) ==
    LET levels == {p \in Prices : book[side][p] # 0} IN
    {p \in levels : \A q \in levels : IF side = "Bid" THEN q <= p ELSE p <= q}

Tops(book) == <<Top(book, "Bid"), Top(book, "Ask")>>

VARIABLES
    states,          \* MarketDataHandler::states
    books,           \* the levels of each book
    last_update_seq, \* OrderBook::last_update_seq
    expected_seq,    \* MarketDataHandler::expected_seq
    pending,         \* pending_incrementals, as sequence numbers
    emitted,         \* the events the last call sent
    whole            \* history: the last replay had no hole

vars == <<states, books, last_update_seq, expected_seq, pending, emitted,
          whole>>

\* enum MarketDataEvent
BookUpdated(i) == <<"BookUpdated", i>>
TopOfBookChanged(i) == <<"TopOfBookChanged", i>>
StateChanged(i, s) == <<"StateChanged", i, s>>
GapDetected(i, from, to) == <<"GapDetected", i, from, to>>

Init ==
    /\ states = [i \in Instruments |-> None]
    /\ books = [i \in Instruments |-> EmptyBook]
    /\ last_update_seq = [i \in Instruments |-> 0]
    /\ expected_seq = [i \in Instruments |-> 0]
    /\ pending = [i \in Instruments |-> <<>>]
    /\ emitted = {}
    /\ whole = [i \in Instruments |-> FALSE]

-----------------------------------------------------------------------------
(* Operations.                                                             *)

\* subscribe replaces the book and leaves queued incrementals alone.
Subscribe(i) ==
    /\ states' = [states EXCEPT ![i] = "Initializing"]
    /\ books' = [books EXCEPT ![i] = EmptyBook]
    /\ last_update_seq' = [last_update_seq EXCEPT ![i] = 0]
    /\ expected_seq' = [expected_seq EXCEPT ![i] = 0]
    /\ emitted' = {}
    /\ UNCHANGED <<pending, whole>>

\* Mutant of Unsubscribe: the book stays in the map.
UnsubscribeKeepsBook(i) ==
    /\ states' = [states EXCEPT ![i] = None]
    /\ expected_seq' = [expected_seq EXCEPT ![i] = 0]
    /\ pending' = [pending EXCEPT ![i] = <<>>]
    /\ emitted' = {}
    /\ UNCHANGED <<books, last_update_seq, whole>>

Unsubscribe(i) ==
    /\ states' = [states EXCEPT ![i] = None]
    /\ books' = [books EXCEPT ![i] = EmptyBook]
    /\ last_update_seq' = [last_update_seq EXCEPT ![i] = 0]
    /\ expected_seq' = [expected_seq EXCEPT ![i] = 0]
    /\ pending' = [pending EXCEPT ![i] = <<>>]
    /\ emitted' = {}
    /\ UNCHANGED whole

MarkStale(i) ==
    /\ states[i] # None
    /\ states' = [states EXCEPT ![i] = "Stale"]
    /\ emitted' = {StateChanged(i, "Stale")}
    /\ UNCHANGED <<books, last_update_seq, expected_seq, pending, whole>>

\* pending_incrementals.entry(..).or_default().push(update)
Enqueue(i, n) ==
    /\ Len(pending[i]) < MaxPending
    /\ pending' = [pending EXCEPT ![i] = Append(@, n)]
    /\ UNCHANGED <<books, last_update_seq, expected_seq, whole>>

\* on_incremental before a snapshot, during recovery, or with no subscription.
QueueUpdate(i, n) ==
    /\ states[i] \in {None, "Initializing", "Recovering"}
    /\ Enqueue(i, n)
    /\ emitted' = {}
    /\ UNCHANGED states

\* on_incremental of a stale instrument.
WakeStale(i, n) ==
    /\ states[i] = "Stale"
    /\ Enqueue(i, n)
    /\ states' = [states EXCEPT ![i] = "Recovering"]
    /\ emitted' = {}

\* Mutant of DetectGap: the gap is reported from the update that was seen last.
DetectGapFromLast(i, n) ==
    /\ states[i] = "Active"
    /\ n > expected_seq[i]
    /\ Enqueue(i, n)
    /\ states' = [states EXCEPT ![i] = "Recovering"]
    /\ emitted' = {GapDetected(i, expected_seq[i] - 1, n), StateChanged(i, "Recovering")}

\* on_incremental of an active instrument, ahead of the expected number.
DetectGap(i, n) ==
    /\ states[i] = "Active"
    /\ n > expected_seq[i]
    /\ Enqueue(i, n)
    /\ states' = [states EXCEPT ![i] = "Recovering"]
    /\ emitted' = {GapDetected(i, expected_seq[i], n), StateChanged(i, "Recovering")}

\* MarketDataHandler::apply_update on a book and the events it sent so far.
Apply(i, acc, n) ==
    LET after == ApplyUpdate(acc.book, n) IN
    [book |-> after,
     seq |-> n,
     events |-> acc.events \cup {BookUpdated(i)}
                  \cup (IF Tops(acc.book) # Tops(after) THEN {TopOfBookChanged(i)} ELSE {})]

\* The book and both sequence numbers are what Apply left.
Store(i, acc) ==
    /\ books' = [books EXCEPT ![i] = acc.book]
    /\ last_update_seq' = [last_update_seq EXCEPT ![i] = acc.seq]
    /\ expected_seq' = [expected_seq EXCEPT ![i] = acc.seq + 1]

\* Mutant of ApplyLive: an update from before the expected one is applied.
ApplyLiveOld(i, n) ==
    /\ states[i] = "Active"
    /\ n <= expected_seq[i]
    /\ LET acc == Apply(i, [book |-> books[i], seq |-> 0, events |-> {}], n) IN
          /\ Store(i, acc)
          /\ emitted' = acc.events
    /\ UNCHANGED <<states, pending, whole>>

\* on_incremental of an active instrument, in order.  An older one is ignored.
ApplyLive(i, n) ==
    /\ states[i] = "Active"
    /\ n = expected_seq[i]
    /\ LET acc == Apply(i, [book |-> books[i], seq |-> 0, events |-> {}], n) IN
          /\ Store(i, acc)
          /\ emitted' = acc.events
    /\ UNCHANGED <<states, pending, whole>>

\* The queued updates on_snapshot replays, in the order they were queued.
Replay(i, s) == SelectSeq(pending[i], LAMBDA n : n >= s)

\* f continues the snapshot s without a hole, s itself possibly first.
Continues(f, s) ==
    \/ \A k \in DOMAIN f : f[k] = s + k
    \/ \A k \in DOMAIN f : f[k] = s + k - 1

\* on_snapshot; ignored when the instrument has no book.
OnSnapshot(i, s) ==
    /\ states[i] # None
    /\ LET f == Replay(i, s)
           acc == FoldLeft(LAMBDA a, n : Apply(i, a, n),
                           [book |-> Truth[s], seq |-> s, events |-> {}], f)
       IN /\ Store(i, acc)
          /\ emitted' = acc.events \cup {StateChanged(i, "Active"), BookUpdated(i)}
          /\ whole' = [whole EXCEPT ![i] = Continues(f, s)]
    /\ pending' = [pending EXCEPT ![i] = <<>>]
    /\ states' = [states EXCEPT ![i] = "Active"]

Next ==
    \E i \in Instruments :
        \/ Subscribe(i)
        \/ Unsubscribe(i)
        \/ MarkStale(i)
        \/ \E n \in Updates :
              \/ QueueUpdate(i, n)
              \/ WakeStale(i, n)
              \/ DetectGap(i, n)
              \/ ApplyLive(i, n)
        \/ \E s \in Snapshots : OnSnapshot(i, s)

Spec == Init /\ [][Next]_vars

-----------------------------------------------------------------------------
(* Properties.                                                             *)

\* Every variable keeps its type, and an instrument without a state has no
\* entry in the other maps of the subscription either.
TypeOK ==
    /\ states \in [Instruments -> InstrumentStates]
    /\ \A i \in Instruments : states[i] = None =>
          books[i] = EmptyBook /\ last_update_seq[i] = 0 /\ expected_seq[i] = 0
    /\ books \in [Instruments -> [Sides -> [Prices -> Nat]]]
    /\ last_update_seq \in [Instruments -> Nat]
    /\ expected_seq \in [Instruments -> Nat]
    /\ pending \in [Instruments -> Seq(Updates)]
    /\ whole \in [Instruments -> BOOLEAN]

\* The book of an active instrument is the exchange's book after the update
\* it holds, if the updates queued for its last snapshot had no hole: neither
\* late, repeated nor lost datagrams since, nor an old snapshot, can spoil it.
BookRightUnlessHole ==
    \A i \in Instruments : (states[i] = "Active" /\ whole[i]) =>
        books[i] = Truth[last_update_seq[i]]

\* An instrument leaves Active by itself only on a gap, announced with the
\* exact range that is missing from its book.
GapExact ==
    \A i \in Instruments : (states[i] = "Active" /\ states'[i] = "Recovering") =>
        \E n \in Updates :
            /\ n > last_update_seq[i] + 1
            /\ GapDetected(i, last_update_seq[i] + 1, n) \in emitted'

\* What "gap detection, snapshot recovery" and "Detected gap, waiting for
\* recovery." promise: the book of an active instrument is right, full stop.
BookRight ==
    \A i \in Instruments : states[i] = "Active" => books[i] = Truth[last_update_seq[i]]
=============================================================================
