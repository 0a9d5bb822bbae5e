------------------------ MODULE InstrumentArbitrator ------------------------
(***************************************************************************)
(* InstrumentArbitrator: ironsbe-marketdata/src/arbitration.rs.            *)
(*                                                                         *)
(* Two feeds carry every sequence number of every instrument, in any order *)
(* and with losses.  A message should_process accepts is then given to     *)
(* check_gap, the order of calls of the transport's FeedArbitrator.        *)
(***************************************************************************)
EXTENDS Naturals, Sequences, FiniteSets

CONSTANTS
    Instruments,
    Feeds,
    MaxSeq,     \* bound: the highest sequence number
    MaxResets   \* bound: calls of reset and reset_all

ArbitratorAssumption == MaxSeq \in Nat /\ MaxResets \in Nat

\* The feeds number from 1, as the default of expected_seq has it.
Seqs == 1..MaxSeq

VARIABLES
    flying,        \* per instrument and feed, the numbers not delivered yet
    last_seq,      \* the HashMap, 0 where there is no entry
    expected_seq,  \* the HashMap, 1 where there is no entry
    accepted,      \* history: per instrument, the numbers accepted since reset
    reported,      \* history: the numbers reported missing since reset
    resets         \* calls of reset and reset_all

vars == <<flying, last_seq, expected_seq, accepted, reported, resets>>

Elements(s) == {s[i] : i \in DOMAIN s}

Init ==
    /\ flying = [i \in Instruments |-> [f \in Feeds |-> Seqs]]
    /\ last_seq = [i \in Instruments |-> 0]
    /\ expected_seq = [i \in Instruments |-> 1]
    /\ accepted = [i \in Instruments |-> <<>>]
    /\ reported = [i \in Instruments |-> {}]
    /\ resets = 0

\* A message leaves feed f.
Arrive(i, f, n) ==
    /\ n \in flying[i][f]
    /\ flying' = [flying EXCEPT ![i][f] = @ \ {n}]

\* should_process is FALSE.
Refuse(i, f, n) ==
    /\ Arrive(i, f, n)
    /\ n <= last_seq[i]
    /\ UNCHANGED <<last_seq, expected_seq, accepted, reported, resets>>

\* Mutant of CheckGap: the gap starts one late.
CheckGapShort(i, n) ==
    /\ reported' = [reported EXCEPT ![i] = @ \cup ((expected_seq[i] + 1)..(n - 1))]
    /\ expected_seq' = [expected_seq EXCEPT ![i] = IF n >= @ THEN n + 1 ELSE @]

CheckGap(i, n) ==
    /\ reported' = [reported EXCEPT ![i] = @ \cup (expected_seq[i]..(n - 1))]
    /\ expected_seq' = [expected_seq EXCEPT ![i] = IF n >= @ THEN n + 1 ELSE @]

\* should_process is TRUE, and check_gap follows.
Accept(i, f, n) ==
    /\ Arrive(i, f, n)
    /\ n > last_seq[i]
    /\ last_seq' = [last_seq EXCEPT ![i] = n]
    /\ accepted' = [accepted EXCEPT ![i] = Append(@, n)]
    /\ CheckGap(i, n)
    /\ UNCHANGED resets

\* reset of one instrument, reset_all of all.
Reset(S) ==
    /\ resets < MaxResets
    /\ resets' = resets + 1
    /\ last_seq' = [i \in Instruments |-> IF i \in S THEN 0 ELSE last_seq[i]]
    /\ expected_seq' = [i \in Instruments |-> IF i \in S THEN 1 ELSE expected_seq[i]]
    /\ accepted' = [i \in Instruments |-> IF i \in S THEN <<>> ELSE accepted[i]]
    /\ reported' = [i \in Instruments |-> IF i \in S THEN {} ELSE reported[i]]
    /\ UNCHANGED flying

Next ==
    \/ \E i \in Instruments, f \in Feeds, n \in Seqs : Accept(i, f, n) \/ Refuse(i, f, n)
    \/ \E i \in Instruments : Reset({i})
    \/ Reset(Instruments)

Spec == Init /\ [][Next]_vars

-----------------------------------------------------------------------------
(* Properties.                                                             *)

\* Every variable keeps its type, and the two maps stay in step: what
\* check_gap expects is what should_process has not passed yet.
TypeOK ==
    /\ flying \in [Instruments -> [Feeds -> SUBSET Seqs]]
    /\ last_seq \in [Instruments -> 0..MaxSeq]
    /\ expected_seq = [i \in Instruments |-> last_seq[i] + 1]
    /\ accepted \in [Instruments -> Seq(Seqs)]
    /\ reported \in [Instruments -> SUBSET Seqs]
    /\ resets \in 0..MaxResets

\* Between two resets an instrument's messages are accepted in order, and
\* every number below the expected one was accepted or reported missing, and
\* not both: a late message that was reported is refused on both feeds.
InstrumentGapsAccounted ==
    \A i \in Instruments :
        /\ \A j \in 1..(Len(accepted[i]) - 1) : accepted[i][j] < accepted[i][j + 1]
        /\ 1..(expected_seq[i] - 1) = Elements(accepted[i]) \cup reported[i]
        /\ Elements(accepted[i]) \cap reported[i] = {}
=============================================================================
