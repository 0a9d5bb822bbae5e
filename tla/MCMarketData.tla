---------------------------- MODULE MCMarketData ----------------------------
(* The market data structs for TLC: the handler with its books, the two    *)
(* arbitrators, the recovery manager and the instrument table.  They share *)
(* nothing, so a behaviour of this module is a behaviour of one of them,   *)
(* the others stay in their initial states.                                *)
EXTENDS Naturals, Sequences, TLC

CONSTANTS Books, Instruments, Feeds, Gaps, Symbols, Prices, MaxPending,
          CacheSize, FeedSeqs, MaxSeq, MaxResets, Timeout, MaxTime, MaxRequests

\* A level set, changed and deleted, on both sides; the best bid moves both
\* ways.
Tape ==
    << [side |-> "Bid", price |-> 1, quantity |-> 1],
       [side |-> "Bid", price |-> 2, quantity |-> 1],
       [side |-> "Ask", price |-> 2, quantity |-> 2],
       [side |-> "Bid", price |-> 2, quantity |-> 0] >>

VARIABLES
    running,  \* the struct of this behaviour
    h_states, h_books, h_last_update_seq, h_expected_seq, h_pending,
    h_emitted, h_whole,
    f_flying, f_processed, f_highest_seq, f_expected_seq, f_delivered,
    f_reported, f_resets,
    a_flying, a_last_seq, a_expected_seq, a_accepted, a_reported, a_resets,
    r_pending, r_recovering, r_now, r_requests, r_timed_out,
    m_instruments, m_symbol_index, m_reused

handler ==
    <<h_states, h_books, h_last_update_seq, h_expected_seq, h_pending,
      h_emitted, h_whole>>
feed ==
    <<f_flying, f_processed, f_highest_seq, f_expected_seq, f_delivered,
      f_reported, f_resets>>
arbitrator ==
    <<a_flying, a_last_seq, a_expected_seq, a_accepted, a_reported, a_resets>>
recovery ==
    <<r_pending, r_recovering, r_now, r_requests, r_timed_out>>
manager ==
    <<m_instruments, m_symbol_index, m_reused>>

Handler == INSTANCE MarketData WITH
    Instruments <- Books, states <- h_states, books <- h_books,
    last_update_seq <- h_last_update_seq, expected_seq <- h_expected_seq,
    pending <- h_pending, emitted <- h_emitted, whole <- h_whole

Feed == INSTANCE FeedArbitrator WITH
    MaxSeq <- FeedSeqs, flying <- f_flying, processed <- f_processed,
    highest_seq <- f_highest_seq, expected_seq <- f_expected_seq,
    delivered <- f_delivered, reported <- f_reported, resets <- f_resets

Arbitrator == INSTANCE InstrumentArbitrator WITH
    flying <- a_flying, last_seq <- a_last_seq,
    expected_seq <- a_expected_seq, accepted <- a_accepted,
    reported <- a_reported, resets <- a_resets

Recovery == INSTANCE RecoveryManager WITH
    pending <- r_pending, recovering <- r_recovering, now <- r_now,
    requests <- r_requests, timed_out <- r_timed_out

Manager == INSTANCE InstrumentManager WITH
    Ids <- Instruments, instruments <- m_instruments,
    symbol_index <- m_symbol_index, reused <- m_reused

ASSUME
    /\ Handler!MarketDataAssumption
    /\ Feed!FeedArbitratorAssumption
    /\ Arbitrator!ArbitratorAssumption
    /\ Recovery!RecoveryAssumption

vars == <<running, handler, feed, arbitrator, recovery, manager>>

Init ==
    /\ running \in {"handler", "feed", "arbitrator", "recovery", "manager"}
    /\ Handler!Init
    /\ Feed!Init
    /\ Arbitrator!Init
    /\ Recovery!Init
    /\ Manager!Init

Next ==
    /\ UNCHANGED running
    /\ \/ /\ running = "handler" /\ Handler!Next
          /\ UNCHANGED <<feed, arbitrator, recovery, manager>>
       \/ /\ running = "feed" /\ Feed!Next
          /\ UNCHANGED <<handler, arbitrator, recovery, manager>>
       \/ /\ running = "arbitrator" /\ Arbitrator!Next
          /\ UNCHANGED <<handler, feed, recovery, manager>>
       \/ /\ running = "recovery" /\ Recovery!Next
          /\ UNCHANGED <<handler, feed, arbitrator, manager>>
       \/ /\ running = "manager" /\ Manager!Next
          /\ UNCHANGED <<handler, feed, arbitrator, recovery>>

Spec == Init /\ [][Next]_vars

\* Feeds carry the same numbers and instruments are only compared.
Symmetry == Permutations(Feeds) \cup Permutations(Instruments)

-----------------------------------------------------------------------------

\* Every variable of every struct keeps its type.
TypeOK == Handler!TypeOK /\ Feed!TypeOK /\ Arbitrator!TypeOK /\ Recovery!TypeOK

\* An active book is the exchange's unless a queue with a hole was replayed.
BookRightUnlessHole == Handler!BookRightUnlessHole

\* The book of an active instrument is the exchange's book.
BookRight == Handler!BookRight

\* Every number of the two arbitrators is delivered once or reported missing:
\* a packet comes again at the earliest after cache_size others, and what
\* check_gap has passed was delivered or reported.
FeedsAccounted ==
    /\ Feed!OnceWithinWindow /\ Feed!FeedGapsAccounted
    /\ Arbitrator!InstrumentGapsAccounted

\* Two tables about one thing agree: an instrument is in recovery exactly
\* while one request for it is pending, and get_by_symbol finds the instrument
\* of that symbol while no id or symbol was used twice.
TablesAgree == Recovery!RecoveringHasRequest /\ Manager!LookupRight

\* A gap is handled exactly: an instrument leaves Active by itself only with
\* the missing range announced, and a recovery keeps the request it began with.
GapsHandled == [][Handler!GapExact /\ Recovery!RequestKept]_vars
=============================================================================
