----------------------------- MODULE FeedProofs -----------------------------
(***************************************************************************)
(* The A/B feed arbitration for every number of feeds, every cache size    *)
(* and every loss, duplication and reordering of the datagrams.            *)
(***************************************************************************)
EXTENDS FeedArbitrator, TLAPS

\* The cache is a window: it holds the last packets delivered, in order, and
\* misses one only when it is full.
WindowInv ==
    /\ Len(processed) <= Len(delivered)
    /\ Len(processed) = CacheSize \/ Len(processed) = Len(delivered)
    /\ \A k \in 1..Len(processed) :
           processed[k] = delivered[Len(delivered) - Len(processed) + k]
    /\ OnceWithinWindow

\* What LruCache::put leaves in the cache.
LEMMA PutFacts ==
    ASSUME NEW q \in Seq(Seqs), NEW e \in Seqs, Len(q) <= CacheSize, CacheSize \in Nat \ {0}
    PROVE  /\ Put(q, e) \in Seq(Seqs)
           /\ Len(Put(q, e)) = IF Len(q) < CacheSize THEN Len(q) + 1 ELSE CacheSize
           /\ \A k \in 1..Len(Put(q, e)) :
                 Put(q, e)[k] = IF k = Len(Put(q, e)) THEN e
                                ELSE IF Len(q) < CacheSize THEN q[k] ELSE q[k + 1]
<1>1. CASE Len(q) < CacheSize
  BY <1>1 DEF Put
<1>2. CASE ~(Len(q) < CacheSize)
  <2>1. q # <<>> /\ Len(q) = CacheSize
    BY <1>2
  <2>2. /\ Tail(q) \in Seq(Seqs) /\ Len(Tail(q)) = CacheSize - 1
        /\ \A k \in 1..(CacheSize - 1) : Tail(q)[k] = q[k + 1]
    BY <2>1
  <2>3. Put(q, e) = Append(Tail(q), e)
    BY <1>2 DEF Put
  <2> QED
    BY <1>2, <2>2, <2>3
<1> QED
  BY <1>1, <1>2

\* Every variable keeps its type and the cache stays within cache_size.
THEOREM FeedTypes ==
    ASSUME FeedArbitratorAssumption
    PROVE  Spec => []TypeOK
<1>0. CacheSize \in Nat \ {0} /\ MaxSeq \in Nat /\ MaxResets \in Nat
  BY DEF FeedArbitratorAssumption
<1>1. Init => TypeOK
  BY <1>0 DEF Init, TypeOK, Seqs
<1>2. TypeOK /\ [Next]_vars => TypeOK'
  <2> SUFFICES ASSUME TypeOK, [Next]_vars PROVE TypeOK'
    OBVIOUS
  <2>1. ASSUME NEW f \in Feeds, NEW seq \in Seqs, Accept(f, seq) PROVE TypeOK'
    <3>1. processed' \in Seq(Seqs) /\ Len(processed') <= CacheSize
      BY <1>0, <2>1, PutFacts DEF TypeOK, Accept
    <3>2. delivered' \in Seq(Seqs) /\ flying' \in [Feeds -> SUBSET Seqs]
      BY <2>1 DEF TypeOK, Accept
    <3>3. reported' \in SUBSET Seqs /\ expected_seq' \in 1..(MaxSeq + 1)
      BY <1>0, <2>1 DEF TypeOK, Accept, CheckGap, Seqs
    <3> QED
      BY <2>1, <3>1, <3>2, <3>3 DEF TypeOK, Accept
  <2>2. ASSUME NEW f \in Feeds, NEW seq \in Seqs, Refuse(f, seq) PROVE TypeOK'
    BY <2>2 DEF TypeOK, Refuse
  <2>3. CASE Reset
    BY <1>0, <2>3 DEF TypeOK, Reset, Seqs
  <2>4. CASE UNCHANGED vars
    BY <2>4 DEF TypeOK, vars
  <2> QED
    BY <2>1, <2>2, <2>3, <2>4 DEF Next
<1> QED
  BY <1>1, <1>2, PTL DEF Spec

\* recv returns a sequence number again at the earliest after cache_size other
\* packets, whatever the two feeds lose, repeat or reorder.
THEOREM WindowHolds ==
    ASSUME FeedArbitratorAssumption
    PROVE  Spec => []OnceWithinWindow
<1>0. CacheSize \in Nat \ {0}
  BY DEF FeedArbitratorAssumption
<1>1. Init => WindowInv
  BY DEF Init, WindowInv, OnceWithinWindow
<1>2. TypeOK /\ WindowInv /\ [Next]_vars => WindowInv'
  <2> SUFFICES ASSUME TypeOK, WindowInv, [Next]_vars PROVE WindowInv'
    OBVIOUS
  <2>1. ASSUME NEW f \in Feeds, NEW seq \in Seqs, Accept(f, seq) PROVE WindowInv'
    <3>0. /\ processed \in Seq(Seqs) /\ Len(processed) <= CacheSize /\ delivered \in Seq(Seqs)
          /\ Len(processed) \in Nat /\ Len(delivered) \in Nat
      BY DEF TypeOK
    <3>1. /\ Len(processed) <= Len(delivered)
          /\ Len(processed) = CacheSize \/ Len(processed) = Len(delivered)
          /\ \A k \in 1..Len(processed) :
                 processed[k] = delivered[Len(delivered) - Len(processed) + k]
      BY DEF WindowInv
    <3>2. /\ Len(processed') = IF Len(processed) < CacheSize THEN Len(processed) + 1 ELSE CacheSize
          /\ \A k \in 1..Len(processed') :
                 processed'[k] = IF k = Len(processed') THEN seq
                                 ELSE IF Len(processed) < CacheSize THEN processed[k]
                                 ELSE processed[k + 1]
      <4>1. processed' = Put(processed, seq)
        BY <2>1 DEF Accept
      <4>2. /\ Len(Put(processed, seq)) =
                  IF Len(processed) < CacheSize THEN Len(processed) + 1 ELSE CacheSize
            /\ \A k \in 1..Len(Put(processed, seq)) :
                  Put(processed, seq)[k] =
                      IF k = Len(Put(processed, seq)) THEN seq
                      ELSE IF Len(processed) < CacheSize THEN processed[k]
                      ELSE processed[k + 1]
        BY <1>0, <3>0, PutFacts
      <4> QED
        BY <4>1, <4>2, Zenon
    <3>3. /\ Len(delivered') = Len(delivered) + 1
          /\ \A k \in 1..Len(delivered) : delivered'[k] = delivered[k]
          /\ delivered'[Len(delivered) + 1] = seq
          /\ DOMAIN delivered = 1..Len(delivered) /\ DOMAIN delivered' = 1..(Len(delivered) + 1)
      BY <2>1, <3>0 DEF Accept
    <3>4. \A k \in 1..Len(processed) : processed[k] # seq
      BY <2>1, <3>0 DEF Accept, Contains
    <3>5. \A k \in 1..Len(processed') :
              processed'[k] = delivered'[Len(delivered') - Len(processed') + k]
      <4> SUFFICES ASSUME NEW k \in 1..Len(processed')
                   PROVE  processed'[k] = delivered'[Len(delivered') - Len(processed') + k]
        OBVIOUS
      <4>1. CASE k = Len(processed')
        <5>1. Len(processed') \in Nat
          BY <1>0, <3>0, <3>2
        <5>2. Len(delivered') - Len(processed') + k = Len(delivered) + 1
          BY <3>0, <3>3, <4>1, <5>1
        <5>3. processed'[k] = seq
          BY <3>2, <4>1
        <5> QED
          BY <3>3, <5>2, <5>3
      <4>2. CASE k # Len(processed') /\ Len(processed) < CacheSize
        <5>1. k \in 1..Len(processed) /\ Len(processed') = Len(processed) + 1
          BY <1>0, <3>0, <3>2, <4>2
        <5>2. processed'[k] = processed[k]
          BY <3>2, <4>2
        <5>3. Len(delivered) - Len(processed) + k \in 1..Len(delivered)
          BY <3>0, <3>1, <5>1
        <5>4. processed[k] = delivered[Len(delivered) - Len(processed) + k]
          BY <3>1, <5>1
        <5>5. Len(delivered') - Len(processed') + k = Len(delivered) - Len(processed) + k
          BY <3>0, <3>3, <5>1
        <5> QED
          BY <3>3, <5>2, <5>3, <5>4, <5>5
      <4>3. CASE k # Len(processed') /\ ~(Len(processed) < CacheSize)
        <5>1. k + 1 \in 1..Len(processed) /\ Len(processed') = Len(processed)
          BY <1>0, <3>0, <3>2, <4>3
        <5>2. processed'[k] = processed[k + 1]
          BY <3>2, <4>3
        <5>3. Len(delivered) - Len(processed) + (k + 1) \in 1..Len(delivered)
          BY <3>0, <3>1, <5>1
        <5>4. processed[k + 1] = delivered[Len(delivered) - Len(processed) + (k + 1)]
          BY <3>1, <5>1
        <5>5. Len(delivered') - Len(processed') + k = Len(delivered) - Len(processed) + (k + 1)
          BY <3>0, <3>3, <5>1
        <5> QED
          BY <3>3, <5>2, <5>3, <5>4, <5>5
      <4> QED
        BY <4>1, <4>2, <4>3
    <3>6. \A i \in 1..Len(delivered) :
              delivered[i] = seq => Len(delivered) + 1 - i > CacheSize
      <4> SUFFICES ASSUME NEW i \in 1..Len(delivered), delivered[i] = seq,
                          ~(Len(delivered) + 1 - i > CacheSize)
                   PROVE  FALSE
        BY <1>0, <3>0
      <4> DEFINE k == i - (Len(delivered) - Len(processed))
      <4>1. k \in 1..Len(processed)
        BY <1>0, <3>0, <3>1
      <4>2. processed[k] = delivered[i]
        BY <3>0, <3>1, <4>1
      <4> QED
        BY <3>4, <4>1, <4>2
    <3>7. \A i, j \in 1..Len(delivered) :
              i < j /\ delivered[i] = delivered[j] => j - i > CacheSize
      BY <3>3 DEF WindowInv, OnceWithinWindow
    <3>8. OnceWithinWindow'
      <4> SUFFICES ASSUME NEW i \in 1..(Len(delivered) + 1), NEW j \in 1..(Len(delivered) + 1),
                          i < j, delivered'[i] = delivered'[j]
                   PROVE  j - i > CacheSize
        BY <3>3 DEF OnceWithinWindow
      <4>1. CASE j = Len(delivered) + 1
        BY <3>0, <3>3, <3>6, <4>1
      <4>2. CASE j # Len(delivered) + 1
        BY <3>0, <3>3, <3>7, <4>2
      <4> QED
        BY <4>1, <4>2
    <3>9. /\ Len(processed') <= Len(delivered')
          /\ Len(processed') = CacheSize \/ Len(processed') = Len(delivered')
      BY <1>0, <3>0, <3>1, <3>2, <3>3
    <3> QED
      BY <3>5, <3>8, <3>9 DEF WindowInv
  <2>2. ASSUME NEW f \in Feeds, NEW seq \in Seqs, Refuse(f, seq) PROVE WindowInv'
    BY <2>2 DEF WindowInv, OnceWithinWindow, Refuse
  <2>3. CASE Reset
    BY <2>3 DEF WindowInv, OnceWithinWindow, Reset
  <2>4. CASE UNCHANGED vars
    BY <2>4 DEF WindowInv, OnceWithinWindow, vars
  <2> QED
    BY <2>1, <2>2, <2>3, <2>4 DEF Next
<1>3. WindowInv => OnceWithinWindow
  BY DEF WindowInv
<1> QED
  BY <1>1, <1>2, <1>3, FeedTypes, PTL DEF Spec

\* Nothing goes missing silently, however many packets arrive and in whatever
\* order: a number below the expected one was delivered or reported.
THEOREM GapsHold ==
    ASSUME FeedArbitratorAssumption
    PROVE  Spec => []FeedGapsAccounted
<1>1. Init => FeedGapsAccounted
  BY DEF Init, FeedGapsAccounted
<1>2. TypeOK /\ FeedGapsAccounted /\ [Next]_vars => FeedGapsAccounted'
  <2> SUFFICES ASSUME TypeOK, FeedGapsAccounted, [Next]_vars PROVE FeedGapsAccounted'
    OBVIOUS
  <2>1. ASSUME NEW f \in Feeds, NEW seq \in Seqs, Accept(f, seq) PROVE FeedGapsAccounted'
    <3> SUFFICES ASSUME NEW n \in 1..(expected_seq' - 1)
                 PROVE  Contains(delivered', n) \/ n \in reported'
      BY DEF FeedGapsAccounted
    <3>1. delivered \in Seq(Seqs) /\ expected_seq \in Nat /\ seq \in Nat
      BY DEF TypeOK, Seqs
    <3>2. delivered' = Append(delivered, seq)
      BY <2>1 DEF Accept
    <3>3. \A x : Contains(delivered, x) \/ x = seq => Contains(delivered', x)
      BY <3>1, <3>2 DEF Contains
    <3>4. /\ reported' = reported \cup (expected_seq..(seq - 1))
          /\ expected_seq' = IF seq >= expected_seq THEN seq + 1 ELSE expected_seq
      BY <2>1 DEF Accept, CheckGap
    <3>5. CASE n < expected_seq
      BY <3>1, <3>3, <3>4, <3>5 DEF FeedGapsAccounted
    <3>6. CASE ~(n < expected_seq)
      BY <3>1, <3>3, <3>4, <3>6
    <3> QED
      BY <3>5, <3>6
  <2>2. ASSUME NEW f \in Feeds, NEW seq \in Seqs, Refuse(f, seq) PROVE FeedGapsAccounted'
    BY <2>2 DEF FeedGapsAccounted, Contains, Refuse
  <2>3. CASE Reset
    BY <2>3 DEF FeedGapsAccounted, Reset
  <2>4. CASE UNCHANGED vars
    BY <2>4 DEF FeedGapsAccounted, Contains, vars
  <2> QED
    BY <2>1, <2>2, <2>3, <2>4 DEF Next
<1> QED
  BY <1>1, <1>2, FeedTypes, PTL DEF Spec
=============================================================================
