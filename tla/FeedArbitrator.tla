--------------------------- MODULE FeedArbitrator ---------------------------
(***************************************************************************)
(* The A/B multicast receiver: MulticastReceiver and FeedArbitrator in     *)
(* ironsbe-transport/src/udp/multicast.rs.                                 *)
(*                                                                         *)
(* Every feed carries every sequence number; a datagram is delivered in    *)
(* any order or never.  recv takes one datagram at a time from either      *)
(* socket and process_packet runs under the arbitrator's lock, so a        *)
(* datagram is one step.                                                   *)
(***************************************************************************)
EXTENDS Naturals, Sequences, FiniteSets

CONSTANTS
    Feeds,
    CacheSize,  \* FeedArbitrator::new(cache_size)
    MaxSeq,     \* bound: the highest sequence number
    MaxResets   \* bound: calls of reset

FeedArbitratorAssumption ==
    /\ CacheSize \in Nat \ {0}
    /\ MaxSeq \in Nat
    /\ MaxResets \in Nat

\* Number 0 is legal in the eight-byte header, too.
Seqs == 0..MaxSeq

VARIABLES
    flying,        \* per feed, the numbers not delivered yet
    processed,     \* the LruCache, least recent first
    highest_seq,   \* FeedArbitrator::highest_seq
    expected_seq,  \* FeedArbitrator::expected_seq
    delivered,     \* history: what recv returned since the last reset
    reported,      \* history: numbers reported missing since the last reset
    resets         \* how often reset was called

vars == <<flying, processed, highest_seq, expected_seq, delivered, reported, resets>>

Contains(q, e) == \E i \in DOMAIN q : q[i] = e

\* Mutant of Put: evicts one too soon.
PutEvictsEarly(q, e) == IF Len(q) < CacheSize - 1 THEN Append(q, e) ELSE Append(Tail(q), e)

\* LruCache::put of a key that is not cached evicts the least recent one.
Put(q, e) == IF Len(q) < CacheSize THEN Append(q, e) ELSE Append(Tail(q), e)

Init ==
    /\ flying = [f \in Feeds |-> Seqs]
    /\ processed = <<>>
    /\ highest_seq = 0
    /\ expected_seq = 1
    /\ delivered = <<>>
    /\ reported = {}
    /\ resets = 0

\* Mutant of CheckGap: the gap ends one early.
CheckGapOffByOne(seq) ==
    /\ reported' = reported \cup (expected_seq..(seq - 2))
    /\ expected_seq' = IF seq >= expected_seq THEN seq + 1 ELSE expected_seq

\* check_gap
CheckGap(seq) ==
    /\ reported' = reported \cup (expected_seq..(seq - 1))
    /\ expected_seq' = IF seq >= expected_seq THEN seq + 1 ELSE expected_seq

\* A datagram arrives and should_process accepts it.
Accept(f, seq) ==
    /\ seq \in flying[f]
    /\ ~Contains(processed, seq)
    /\ flying' = [flying EXCEPT ![f] = @ \ {seq}]
    /\ processed' = Put(processed, seq)
    /\ highest_seq' = IF seq > highest_seq THEN seq ELSE highest_seq
    /\ CheckGap(seq)
    /\ delivered' = Append(delivered, seq)
    /\ UNCHANGED resets

\* A datagram arrives and should_process refuses it.
Refuse(f, seq) ==
    /\ seq \in flying[f]
    /\ Contains(processed, seq)
    /\ flying' = [flying EXCEPT ![f] = @ \ {seq}]
    /\ UNCHANGED <<processed, highest_seq, expected_seq, delivered, reported, resets>>

Reset ==
    /\ resets < MaxResets
    /\ resets' = resets + 1
    /\ processed' = <<>>
    /\ highest_seq' = 0
    /\ expected_seq' = 1
    /\ delivered' = <<>>
    /\ reported' = {}
    /\ UNCHANGED flying

Next ==
    \/ \E f \in Feeds, seq \in Seqs : Accept(f, seq) \/ Refuse(f, seq)
    \/ Reset

Spec == Init /\ [][Next]_vars

-----------------------------------------------------------------------------
(* Properties.                                                             *)

\* Every variable keeps its type and the cache stays within cache_size.
TypeOK ==
    /\ flying \in [Feeds -> SUBSET Seqs]
    /\ processed \in Seq(Seqs) /\ Len(processed) <= CacheSize
    /\ highest_seq \in Seqs
    /\ expected_seq \in 1..(MaxSeq + 1)
    /\ delivered \in Seq(Seqs)
    /\ reported \in SUBSET Seqs
    /\ resets \in 0..MaxResets

\* A packet is delivered again at the earliest after cache_size others.
OnceWithinWindow ==
    \A i, j \in DOMAIN delivered :
        (i < j /\ delivered[i] = delivered[j]) => j - i > CacheSize

\* Nothing goes missing silently: every number below the one check_gap
\* expects was delivered by recv or reported as part of a gap.
FeedGapsAccounted ==
    \A n \in 1..(expected_seq - 1) : Contains(delivered, n) \/ n \in reported
=============================================================================
