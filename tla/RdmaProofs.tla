----------------------------- MODULE RdmaProofs -----------------------------
(***************************************************************************)
(* The completion queue of an RdmaConnection never overflows, for every    *)
(* queue size and receive depth that the compile-time assertions of        *)
(* connection.rs admit, every number of sends and every input of the peer. *)
(***************************************************************************)
EXTENDS RdmaConnection, FiniteSetTheorems, TLAPS

Completions == [op : {"send", "recv"}, idx : Nat, ok : BOOLEAN]

\* The positions a kind of completion has in a queue.
Places(q, op) == {i \in DOMAIN q : q[i].op = op}

\* Places is finite and no larger than the queue.
LEMMA PlacesFinite ==
    ASSUME NEW q \in Seq(Completions), NEW op
    PROVE  /\ IsFiniteSet(Places(q, op))
           /\ OpsIn(q, op) = Cardinality(Places(q, op))
           /\ OpsIn(q, op) \in Nat
<1>1. IsFiniteSet(1..Len(q))
  BY FS_Interval
<1>2. Places(q, op) \in SUBSET (1..Len(q))
  BY DEF Places
<1>3. IsFiniteSet(Places(q, op))
  BY <1>1, <1>2, FS_Subset
<1> QED
  BY <1>3, FS_CardinalityType DEF OpsIn, Places

\* The cardinality of the positions of a sequence.
LEMMA CardPositions ==
    ASSUME NEW n \in Nat
    PROVE  Cardinality(1..n) = n
<1>1. 1 \in Int /\ n \in Int
  OBVIOUS
<1>2. Cardinality(1..n) = IF 1 > n THEN 0 ELSE n - 1 + 1
  BY <1>1, FS_Interval, Zenon
<1> QED
  BY <1>2

\* Every completion is of one kind or of the other.
LEMMA KindsFill ==
    ASSUME NEW q \in Seq(Completions)
    PROVE  OpsIn(q, "send") + OpsIn(q, "recv") = Len(q)
<1>1. Places(q, "send") \cup Places(q, "recv") = 1..Len(q)
  <2>1. ASSUME NEW i \in 1..Len(q) PROVE q[i].op \in {"send", "recv"}
    <3>1. q[i] \in Completions
      OBVIOUS
    <3> QED
      BY <3>1 DEF Completions
  <2> QED
    BY <2>1 DEF Places
<1>2. Places(q, "send") \cap Places(q, "recv") = {}
  BY DEF Places
<1>3. Cardinality(1..Len(q)) = Len(q)
  <2>1. Len(q) \in Nat
    OBVIOUS
  <2> QED
    BY <2>1, CardPositions
<1>4. Cardinality(1..Len(q)) = Cardinality(Places(q, "send")) + Cardinality(Places(q, "recv"))
                               - Cardinality({})
  BY <1>1, <1>2, PlacesFinite, FS_Union
<1> QED
  BY <1>3, <1>4, PlacesFinite, FS_EmptySet

\* A new completion counts as one of its kind.
LEMMA CountAppend ==
    ASSUME NEW q \in Seq(Completions), NEW c \in Completions, NEW op
    PROVE  OpsIn(Append(q, c), op) = OpsIn(q, op) + (IF c.op = op THEN 1 ELSE 0)
<1> DEFINE n == Len(q) + 1
<1>1. n \notin Places(q, op)
  BY DEF Places
<1>2. CASE c.op = op
  <2>1. Places(Append(q, c), op) = Places(q, op) \cup {n}
    BY <1>2 DEF Places
  <2>2. Cardinality(Places(q, op) \cup {n}) = Cardinality(Places(q, op)) + 1
    BY <1>1, PlacesFinite, FS_AddElement
  <2> QED
    BY <1>2, <2>1, <2>2, PlacesFinite DEF OpsIn, Places
<1>3. CASE c.op # op
  <2>1. Places(Append(q, c), op) = Places(q, op)
    BY <1>3 DEF Places
  <2>2. OpsIn(Append(q, c), op) = OpsIn(q, op)
    BY <2>1 DEF OpsIn, Places
  <2> QED
    BY <1>3, <2>2, PlacesFinite
<1> QED
  BY <1>2, <1>3

\* The counts of a concatenation add up: the positions of the second part are
\* shifted by the length of the first.
LEMMA CountConcat ==
    ASSUME NEW q \in Seq(Completions), NEW r \in Seq(Completions), NEW op
    PROVE  OpsIn(q \o r, op) = OpsIn(q, op) + OpsIn(r, op)
<1> DEFINE S == Places(r, op)
           T == {i \in (Len(q) + 1)..(Len(q) + Len(r)) : r[i - Len(q)].op = op}
           f == [i \in S |-> i + Len(q)]
<1>1. Places(q \o r, op) = Places(q, op) \cup T
  <2>1. DOMAIN (q \o r) = 1..(Len(q) + Len(r))
    OBVIOUS
  <2>2. \A i \in 1..(Len(q) + Len(r)) :
            (q \o r)[i] = IF i <= Len(q) THEN q[i] ELSE r[i - Len(q)]
    OBVIOUS
  <2> QED
    BY <2>1, <2>2 DEF Places
<1>2. Places(q, op) \cap T = {}
  BY DEF Places
<1>3. f \in Bijection(S, T)
  <2>1. S \subseteq 1..Len(r)
    BY DEF Places
  <2>2. f \in [S -> T]
    BY <2>1 DEF Places
  <2>3. \A i, j \in S : f[i] = f[j] => i = j
    BY <2>1
  <2>4. ASSUME NEW t \in T PROVE \E i \in S : f[i] = t
    <3>1. t - Len(q) \in S
      BY DEF Places
    <3>2. f[t - Len(q)] = t
      BY <3>1
    <3> QED
      BY <3>1, <3>2
  <2> QED
    BY <2>2, <2>3, <2>4 DEF Bijection, Injection, Surjection, IsInjective
<1>4. IsFiniteSet(T) /\ Cardinality(T) = Cardinality(S)
  <2>1. ExistsBijection(S, T)
    BY <1>3 DEF ExistsBijection
  <2>2. IsFiniteSet(S)
    BY PlacesFinite
  <2> HIDE DEF S, T
  <2> QED
    BY <2>1, <2>2, FS_Bijection
<1>5. Cardinality(Places(q, op) \cup T) = Cardinality(Places(q, op)) + Cardinality(T) - Cardinality({})
  <2> HIDE DEF T
  <2> QED
    BY <1>2, <1>4, PlacesFinite, FS_Union
<1>6. q \o r \in Seq(Completions)
  OBVIOUS
<1>7. OpsIn(q \o r, op) = Cardinality(Places(q \o r, op))
  BY <1>6, PlacesFinite
<1> HIDE DEF T, f
<1> QED
  BY <1>1, <1>4, <1>5, <1>7, PlacesFinite, FS_EmptySet

\* Polling a completion takes one off the count of its kind.
LEMMA CountTail ==
    ASSUME NEW q \in Seq(Completions), q # <<>>, NEW op
    PROVE  /\ Head(q) \in Completions
           /\ Tail(q) \in Seq(Completions)
           /\ OpsIn(q, op) = OpsIn(Tail(q), op) + (IF Head(q).op = op THEN 1 ELSE 0)
<1>1. Head(q) \in Completions /\ Tail(q) \in Seq(Completions)
  OBVIOUS
<1>2. q = <<Head(q)>> \o Tail(q)
  OBVIOUS
<1>3. <<Head(q)>> = Append(<<>>, Head(q)) /\ <<>> \in Seq(Completions)
        /\ <<Head(q)>> \in Seq(Completions)
  BY <1>1
<1>4. OpsIn(<<>>, op) = 0
  <2>1. Places(<<>>, op) = {}
    BY DEF Places
  <2> QED
    BY <2>1, FS_EmptySet DEF OpsIn, Places
<1>5. OpsIn(<<Head(q)>>, op) = IF Head(q).op = op THEN 1 ELSE 0
  <2>1. OpsIn(Append(<<>>, Head(q)), op) = OpsIn(<<>>, op) + (IF Head(q).op = op THEN 1 ELSE 0)
    BY <1>1, <1>3, CountAppend
  <2> QED
    BY <1>3, <1>4, <2>1
<1>6. OpsIn(<<Head(q)>> \o Tail(q), op) = OpsIn(<<Head(q)>>, op) + OpsIn(Tail(q), op)
  BY <1>1, <1>3, CountConcat
<1>7. OpsIn(Tail(q), op) \in Nat
  BY <1>1, PlacesFinite
<1>8. OpsIn(q, op) = OpsIn(<<Head(q)>> \o Tail(q), op)
  BY <1>2, Zenon
<1> QED
  BY <1>1, <1>5, <1>6, <1>7, <1>8

\* What a failing queue pair flushes counts under its own kind only.
LEMMA CountFlushed ==
    ASSUME NEW ids \in Seq(Nat), NEW op \in {"send", "recv"}, NEW other
    PROVE  /\ Flushed(op, ids) \in Seq(Completions)
           /\ OpsIn(Flushed(op, ids), other) = IF other = op THEN Len(ids) ELSE 0
<1> DEFINE F == Flushed(op, ids)
<1>1. Len(ids) \in Nat /\ DOMAIN ids = 1..Len(ids)
  OBVIOUS
<1>2. \A i \in 1..Len(ids) : F[i] = Done(op, ids[i], FALSE) /\ F[i].op = op
  BY <1>1 DEF Flushed, Done
<1>3. \A i \in 1..Len(ids) : F[i] \in Completions
  <2>1. \A i \in 1..Len(ids) : Done(op, ids[i], FALSE) \in Completions
    BY <1>1 DEF Done, Completions
  <2> QED
    BY <1>2, <2>1
<1>4. DOMAIN F = 1..Len(ids)
  BY <1>1 DEF Flushed
<1>5. F \in Seq(Completions)
  <2>1. F = [i \in 1..Len(ids) |-> F[i]]
    BY <1>1 DEF Flushed
  <2> HIDE DEF F
  <2> QED
    BY <1>1, <1>3, <2>1
<1>6. Places(F, other) = IF other = op THEN 1..Len(ids) ELSE {}
  <2> HIDE DEF F
  <2> QED
    BY <1>2, <1>4 DEF Places
<1>7. Cardinality(1..Len(ids)) = Len(ids)
  BY <1>1, CardPositions
<1>8. OpsIn(F, other) = Cardinality(Places(F, other))
  BY DEF OpsIn, Places
<1> HIDE DEF F
<1>9. OpsIn(F, other) = IF other = op THEN Len(ids) ELSE 0
  BY <1>6, <1>7, <1>8, FS_EmptySet
<1> QED
  BY <1>5, <1>9 DEF F

-----------------------------------------------------------------------------
(***************************************************************************)
(* The credits.  A posted SEND and a SEND completion that was not polled   *)
(* are each backed by one unit of pending_sends; a RECV buffer is posted,  *)
(* completed or set aside, and there are RECV_DEPTH of them.  Completions  *)
(* consumed with an error lose a credit and never create one.              *)
(***************************************************************************)
CreditInv ==
    /\ qp \in {"ok", "error"}
    /\ cq \in Seq(Completions) /\ sq \in Seq(Nat)
    /\ posted \in Seq(Nat) /\ pending_recvs \in Seq(Nat)
    /\ sends \in Nat
    /\ pending_sends \in 0..CQ_DRAIN_HIGH_WATER
    /\ Len(sq) + OpsIn(cq, "send") <= pending_sends
    /\ Len(posted) + OpsIn(cq, "recv") + Len(pending_recvs) <= RECV_DEPTH
    /\ ~refused

\* What the compile-time assertions say of the watermarks.
LEMMA Watermarks ==
    ASSUME RdmaAssumption
    PROVE  /\ RECV_DEPTH \in Nat /\ CQ_CAPACITY \in Nat /\ MaxSendWr \in Nat
           /\ CQ_DRAIN_HIGH_WATER \in Nat
           /\ CQ_DRAIN_LOW_WATER \in Int
           /\ CQ_DRAIN_LOW_WATER < CQ_DRAIN_HIGH_WATER
           /\ CQ_DRAIN_HIGH_WATER + RECV_DEPTH = CQ_CAPACITY
<1>1. RECV_DEPTH \in Nat /\ CQ_CAPACITY \in Nat /\ MaxSendWr \in Nat
  BY DEF RdmaAssumption
<1>2. CQ_DRAIN_HIGH_WATER \in Int
  BY <1>1 DEF CQ_DRAIN_HIGH_WATER, CQ_RECV_HEADROOM
<1>3. CQ_DRAIN_LOW_WATER \in Int
  BY <1>2 DEF CQ_DRAIN_LOW_WATER
<1>4. RECV_DEPTH <= CQ_CAPACITY /\ CQ_DRAIN_LOW_WATER < CQ_DRAIN_HIGH_WATER
  BY DEF RdmaAssumption, CQ_RECV_HEADROOM
<1> QED
  BY <1>1, <1>2, <1>3, <1>4 DEF CQ_DRAIN_HIGH_WATER, CQ_RECV_HEADROOM

\* A queue grows and shrinks by one element at a time.
LEMMA AppendType ==
    ASSUME NEW T, NEW q \in Seq(T), NEW e \in T
    PROVE  Append(q, e) \in Seq(T) /\ Len(Append(q, e)) = Len(q) + 1
  OBVIOUS

LEMMA TailType ==
    ASSUME NEW T, NEW q \in Seq(T), q # <<>>
    PROVE  Head(q) \in T /\ Tail(q) \in Seq(T) /\ Len(Tail(q)) = Len(q) - 1 /\ Len(q) \in Nat
  OBVIOUS

\* The numbers of CreditInv are numbers.
LEMMA CreditNumbers ==
    ASSUME CreditInv, RdmaAssumption
    PROVE  /\ OpsIn(cq, "send") \in Nat /\ OpsIn(cq, "recv") \in Nat
           /\ Len(sq) \in Nat /\ Len(posted) \in Nat /\ Len(pending_recvs) \in Nat
           /\ pending_sends \in Nat /\ pending_sends <= CQ_DRAIN_HIGH_WATER
<1>1. cq \in Seq(Completions) /\ sq \in Seq(Nat) /\ posted \in Seq(Nat)
        /\ pending_recvs \in Seq(Nat) /\ pending_sends \in 0..CQ_DRAIN_HIGH_WATER
  BY DEF CreditInv
<1>2. CQ_DRAIN_HIGH_WATER \in Nat
  BY Watermarks
<1>3. OpsIn(cq, "send") \in Nat /\ OpsIn(cq, "recv") \in Nat
  BY <1>1, PlacesFinite
<1> QED
  BY <1>1, <1>2, <1>3

\* A completion queue after one more completion.
LEMMA PushCounts ==
    ASSUME NEW q \in Seq(Completions), NEW idx \in Nat, NEW ok \in BOOLEAN,
           NEW op \in {"send", "recv"}
    PROVE  LET r == Append(q, Done(op, idx, ok))
           IN /\ r \in Seq(Completions)
              /\ OpsIn(r, "send") = OpsIn(q, "send") + (IF op = "send" THEN 1 ELSE 0)
              /\ OpsIn(r, "recv") = OpsIn(q, "recv") + (IF op = "recv" THEN 1 ELSE 0)
<1> DEFINE c == Done(op, idx, ok)
<1>1. c \in Completions /\ c.op = op
  BY DEF Done, Completions
<1> HIDE DEF c
<1>2. Append(q, c) \in Seq(Completions)
  BY <1>1, AppendType
<1>3. \A o : OpsIn(Append(q, c), o) = OpsIn(q, o) + (IF c.op = o THEN 1 ELSE 0)
  BY <1>1, CountAppend
<1> QED
  BY <1>1, <1>2, <1>3 DEF c

\* Below the high-water mark a post finds room and takes one send credit.
LEMMA PostSendKeeps ==
    ASSUME RdmaAssumption, CQ_DRAIN_HIGH_WATER <= MaxSendWr, CreditInv,
           NEW m \in Nat, pending_sends < CQ_DRAIN_HIGH_WATER, PostSend(m),
           UNCHANGED <<posted, pending_recvs, qp>>, sends' \in Nat
    PROVE  CreditInv'
<1>1. /\ OpsIn(cq, "send") \in Nat /\ OpsIn(cq, "recv") \in Nat
      /\ Len(sq) \in Nat /\ Len(posted) \in Nat /\ Len(pending_recvs) \in Nat
      /\ pending_sends \in Nat
  BY CreditNumbers
<1>2. /\ CQ_DRAIN_HIGH_WATER \in Nat /\ MaxSendWr \in Nat /\ RECV_DEPTH \in Nat
  BY Watermarks
<1>3. /\ Len(sq) + OpsIn(cq, "send") <= pending_sends
      /\ Len(posted) + OpsIn(cq, "recv") + Len(pending_recvs) <= RECV_DEPTH
  BY DEF CreditInv
<1>4. ~(Len(sq) + SendsIn(cq) >= MaxSendWr)
  BY <1>1, <1>2, <1>3 DEF SendsIn
<1>5. /\ refused' = refused
      /\ pending_sends' = pending_sends + 1
      /\ IF qp = "ok" THEN sq' = Append(sq, m) /\ cq' = cq
         ELSE cq' = Append(cq, Done("send", m, FALSE)) /\ sq' = sq
  BY <1>4, Zenon DEF PostSend
<1>6. pending_sends' \in 0..CQ_DRAIN_HIGH_WATER
  BY <1>1, <1>2, <1>5
<1>7. /\ cq' \in Seq(Completions) /\ sq' \in Seq(Nat)
      /\ Len(sq') + OpsIn(cq', "send") = Len(sq) + OpsIn(cq, "send") + 1
      /\ OpsIn(cq', "recv") = OpsIn(cq, "recv")
  <2>1. cq \in Seq(Completions) /\ sq \in Seq(Nat)
    BY DEF CreditInv
  <2>2. CASE qp = "ok"
    <3>1. sq' = Append(sq, m) /\ cq' = cq
      BY <1>5, <2>2
    <3>2. sq' \in Seq(Nat) /\ Len(sq') = Len(sq) + 1
      BY <2>1, <3>1, AppendType
    <3> QED
      BY <1>1, <2>1, <3>1, <3>2
  <2>3. CASE qp # "ok"
    <3>1. cq' = Append(cq, Done("send", m, FALSE)) /\ sq' = sq
      BY <1>5, <2>3
    <3>2. /\ cq' \in Seq(Completions)
          /\ OpsIn(cq', "send") = OpsIn(cq, "send") + 1
          /\ OpsIn(cq', "recv") = OpsIn(cq, "recv") + 0
      BY <2>1, <3>1, PushCounts
    <3>3. sq' \in Seq(Nat) /\ Len(sq') = Len(sq)
      BY <2>1, <3>1
    <3> QED
      BY <1>1, <3>2, <3>3
  <2> QED
    BY <2>2, <2>3
<1>8. posted' \in Seq(Nat) /\ pending_recvs' \in Seq(Nat) /\ qp' \in {"ok", "error"} /\ ~refused'
  BY <1>5, Zenon DEF CreditInv
<1>9. /\ Len(sq') + OpsIn(cq', "send") <= pending_sends'
      /\ Len(posted') + OpsIn(cq', "recv") + Len(pending_recvs') <= RECV_DEPTH
  BY <1>1, <1>2, <1>3, <1>5, <1>7
<1> QED
  BY <1>6, <1>7, <1>8, <1>9 DEF CreditInv

\* drain_cq consumes a completion and at most the credit that backed it.
LEMMA DrainKeeps ==
    ASSUME RdmaAssumption, CreditInv, cq # <<>>, DrainCq
    PROVE  /\ Head(cq) \in Completions
           /\ cq' \in Seq(Completions)
           /\ pending_sends' \in 0..CQ_DRAIN_HIGH_WATER
           /\ Len(sq) + OpsIn(cq', "send") <= pending_sends'
           /\ OpsIn(cq', "recv") \in Nat
           /\ OpsIn(cq, "recv") = OpsIn(cq', "recv") + (IF Head(cq).op = "recv" THEN 1 ELSE 0)
<1>1. /\ OpsIn(cq, "send") \in Nat /\ Len(sq) \in Nat /\ pending_sends \in Nat
      /\ pending_sends <= CQ_DRAIN_HIGH_WATER
  BY CreditNumbers
<1>2. CQ_DRAIN_HIGH_WATER \in Nat
  BY Watermarks
<1>3. Len(sq) + OpsIn(cq, "send") <= pending_sends /\ cq \in Seq(Completions)
  BY DEF CreditInv
<1>4. /\ Head(cq) \in Completions /\ Tail(cq) \in Seq(Completions)
      /\ OpsIn(cq, "send") = OpsIn(Tail(cq), "send") + (IF Head(cq).op = "send" THEN 1 ELSE 0)
      /\ OpsIn(cq, "recv") = OpsIn(Tail(cq), "recv") + (IF Head(cq).op = "recv" THEN 1 ELSE 0)
  BY <1>3, CountTail
<1>5. OpsIn(Tail(cq), "send") \in Nat /\ OpsIn(Tail(cq), "recv") \in Nat
  BY <1>4, PlacesFinite
<1>6. /\ cq' = Tail(cq)
      /\ pending_sends' = IF Head(cq).ok /\ Head(cq).op = "send"
                          THEN (IF pending_sends = 0 THEN 0 ELSE pending_sends - 1)
                          ELSE pending_sends
  BY DEF DrainCq
<1>7. Len(sq) + OpsIn(Tail(cq), "send") <= pending_sends'
  <2> DEFINE h == Head(cq)  n == OpsIn(Tail(cq), "send")  c == OpsIn(cq, "send")
  <2>1. /\ c = n + (IF h.op = "send" THEN 1 ELSE 0) /\ n \in Nat
        /\ pending_sends' = IF h.ok /\ h.op = "send"
                            THEN (IF pending_sends = 0 THEN 0 ELSE pending_sends - 1)
                            ELSE pending_sends
        /\ Len(sq) + c <= pending_sends
    BY <1>3, <1>4, <1>5, <1>6
  <2> HIDE DEF h, n, c
  <2>2. Len(sq) + n <= pending_sends'
    BY <1>1, <2>1
  <2> QED
    BY <2>2 DEF n
<1>8. pending_sends' \in 0..CQ_DRAIN_HIGH_WATER
  <2>1. pending_sends' \in {0, pending_sends - 1, pending_sends}
          /\ (pending_sends = 0 => pending_sends' = 0)
    BY <1>6
  <2> QED
    BY <1>1, <1>2, <2>1
<1>9. OpsIn(cq', "send") = OpsIn(Tail(cq), "send") /\ OpsIn(cq', "recv") = OpsIn(Tail(cq), "recv")
        /\ cq' \in Seq(Completions)
  BY <1>4, <1>6, Zenon
<1> QED
  BY <1>4, <1>5, <1>7, <1>8, <1>9

\* post_recv gives the buffer back to the queue pair, or to the completion queue.
LEMMA PostRecvKeeps ==
    ASSUME NEW q \in Seq(Completions), NEW idx \in Nat, posted \in Seq(Nat), PostRecv(q, idx)
    PROVE  /\ cq' \in Seq(Completions) /\ posted' \in Seq(Nat)
           /\ OpsIn(cq', "send") = OpsIn(q, "send")
           /\ Len(posted') + OpsIn(cq', "recv") = Len(posted) + OpsIn(q, "recv") + 1
<1>1. OpsIn(q, "send") \in Nat /\ OpsIn(q, "recv") \in Nat /\ Len(posted) \in Nat
  BY PlacesFinite
<1>2. CASE qp = "ok"
  <2>1. posted' = Append(posted, idx) /\ cq' = q
    BY <1>2 DEF PostRecv
  <2>2. posted' \in Seq(Nat) /\ Len(posted') = Len(posted) + 1
    BY <2>1, AppendType
  <2>3. cq' \in Seq(Completions) /\ OpsIn(cq', "send") = OpsIn(q, "send")
          /\ OpsIn(cq', "recv") = OpsIn(q, "recv")
    BY <2>1, Zenon
  <2> QED
    BY <1>1, <2>2, <2>3
<1>3. CASE qp # "ok"
  <2>1. cq' = Append(q, Done("recv", idx, FALSE)) /\ posted' = posted
    BY <1>3 DEF PostRecv
  <2>2. /\ cq' \in Seq(Completions)
        /\ OpsIn(cq', "send") = OpsIn(q, "send") + 0
        /\ OpsIn(cq', "recv") = OpsIn(q, "recv") + 1
    BY <2>1, PushCounts
  <2>3. posted' \in Seq(Nat) /\ Len(posted') = Len(posted)
    BY <2>1
  <2> QED
    BY <1>1, <2>2, <2>3
<1> QED
  BY <1>2, <1>3

\* So does consume_pending_recv, unless post_recv fails and the buffer is lost.
LEMMA ConsumeKeeps ==
    ASSUME NEW q \in Seq(Completions), NEW idx \in Nat, posted \in Seq(Nat), Consume(q, idx)
    PROVE  /\ cq' \in Seq(Completions) /\ posted' \in Seq(Nat)
           /\ OpsIn(cq', "send") = OpsIn(q, "send")
           /\ Len(posted') + OpsIn(cq', "recv") <= Len(posted) + OpsIn(q, "recv") + 1
<1>1. OpsIn(q, "send") \in Nat /\ OpsIn(q, "recv") \in Nat /\ Len(posted) \in Nat
  BY PlacesFinite
<1>2. PostRecv(q, idx) \/ (cq' = q /\ posted' = posted)
  BY Zenon DEF Consume
<1>3. CASE PostRecv(q, idx)
  <2>1. /\ cq' \in Seq(Completions) /\ posted' \in Seq(Nat)
        /\ OpsIn(cq', "send") = OpsIn(q, "send")
        /\ Len(posted') + OpsIn(cq', "recv") = Len(posted) + OpsIn(q, "recv") + 1
    BY <1>3, PostRecvKeeps
  <2> QED
    BY <1>1, <2>1
<1>4. CASE cq' = q /\ posted' = posted
  <2>1. /\ cq' \in Seq(Completions) /\ posted' \in Seq(Nat)
        /\ OpsIn(cq', "send") = OpsIn(q, "send") /\ OpsIn(cq', "recv") = OpsIn(q, "recv")
        /\ Len(posted') = Len(posted)
    BY <1>4, Zenon
  <2> QED
    BY <1>1, <2>1
<1> QED
  BY <1>2, <1>3, <1>4

\* An empty queue holds nothing of either kind.
LEMMA CountEmpty == OpsIn(<<>>, "send") = 0 /\ OpsIn(<<>>, "recv") = 0
<1>1. \A op : {i \in DOMAIN <<>> : <<>>[i].op = op} = {}
  OBVIOUS
<1> QED
  BY <1>1, FS_EmptySet DEF OpsIn

\* A fresh connection has all its receive buffers posted and nothing else.
LEMMA CreditInit ==
    ASSUME RdmaAssumption, Init
    PROVE  CreditInv
<1>1. RECV_DEPTH \in Nat /\ CQ_DRAIN_HIGH_WATER \in Nat
  BY Watermarks
<1>2. posted \in Seq(Nat) /\ Len(posted) = RECV_DEPTH
  BY <1>1 DEF Init, Buffers
<1>3. cq \in Seq(Completions) /\ OpsIn(cq, "send") = 0 /\ OpsIn(cq, "recv") = 0
  BY CountEmpty DEF Init
<1>4. sq \in Seq(Nat) /\ Len(sq) = 0 /\ pending_recvs \in Seq(Nat) /\ Len(pending_recvs) = 0
  BY DEF Init
<1>5. ~refused
  BY Zenon DEF Init
<1>6. sends \in Nat /\ qp \in {"ok", "error"} /\ pending_sends = 0
  BY DEF Init
<1> QED
  BY <1>1, <1>2, <1>3, <1>4, <1>5, <1>6 DEF CreditInv

\* Moving a receive buffer between the places it can be in.
LEMMA BufferSums ==
    ASSUME NEW p \in Nat, NEW r \in Nat, NEW n \in Nat, NEW d \in Nat, p + r + n <= d,
           NEW p2 \in Nat, NEW r2 \in Nat, NEW n2 \in Nat
    PROVE  /\ \A k \in Nat : r = r2 + k /\ n2 <= n + k => p + r2 + n2 <= d
           /\ p2 + r2 <= p + r + 1 /\ n2 = n - 1 => p2 + r2 + n2 <= d
  OBVIOUS

\* The calls of the task keep the credits.
LEMMA TaskKeeps ==
    ASSUME RdmaAssumption, CQ_DRAIN_HIGH_WATER <= MaxSendWr, CreditInv,
           Send \/ DrainStep \/ DrainEnds \/ Recv \/ RecvStep \/ RecvCancelled
    PROVE  CreditInv'
<1>1. /\ OpsIn(cq, "send") \in Nat /\ OpsIn(cq, "recv") \in Nat
      /\ Len(sq) \in Nat /\ Len(posted) \in Nat /\ Len(pending_recvs) \in Nat
      /\ pending_sends \in Nat
  BY CreditNumbers
<1>2. /\ CQ_DRAIN_HIGH_WATER \in Nat /\ RECV_DEPTH \in Nat /\ CQ_DRAIN_LOW_WATER \in Int
      /\ CQ_DRAIN_LOW_WATER < CQ_DRAIN_HIGH_WATER
  BY Watermarks
<1>3. /\ cq \in Seq(Completions) /\ sq \in Seq(Nat) /\ posted \in Seq(Nat)
      /\ pending_recvs \in Seq(Nat) /\ sends \in Nat
      /\ Len(sq) + OpsIn(cq, "send") <= pending_sends
      /\ Len(posted) + OpsIn(cq, "recv") + Len(pending_recvs) <= RECV_DEPTH
  BY DEF CreditInv
<1>4. CASE Send
  <2>1. sends' = sends + 1 /\ sends' \in Nat
    BY <1>3, <1>4 DEF Send
  <2>2. UNCHANGED <<posted, pending_recvs, qp>>
    BY <1>4 DEF Send
  <2>3. CASE pending_sends >= CQ_DRAIN_HIGH_WATER
    <3>1. UNCHANGED <<sq, cq, pending_sends, refused>>
      BY <1>4, <2>3, Zenon DEF Send
    <3> QED
      BY <2>1, <2>2, <3>1, Zenon DEF CreditInv
  <2>4. CASE ~(pending_sends >= CQ_DRAIN_HIGH_WATER)
    <3>1. PostSend(sends')
      BY <1>4, <2>4, Zenon DEF Send
    <3>2. pending_sends < CQ_DRAIN_HIGH_WATER
      BY <1>1, <1>2, <2>4
    <3> QED
      BY <2>1, <2>2, <3>1, <3>2, PostSendKeeps
  <2> QED
    BY <2>3, <2>4
<1>5. CASE DrainStep
  <2>1. cq # <<>> /\ DrainCq /\ UNCHANGED <<sq, posted, qp, sends, refused>>
    BY <1>5, Zenon DEF DrainStep
  <2>2. /\ Head(cq) \in Completions
        /\ cq' \in Seq(Completions)
        /\ pending_sends' \in 0..CQ_DRAIN_HIGH_WATER
        /\ Len(sq) + OpsIn(cq', "send") <= pending_sends'
        /\ OpsIn(cq', "recv") \in Nat
        /\ OpsIn(cq, "recv") = OpsIn(cq', "recv") + (IF Head(cq).op = "recv" THEN 1 ELSE 0)
    BY <2>1, DrainKeeps
  <2>3. pending_recvs' \in Seq(Nat)
          /\ Len(pending_recvs') <= Len(pending_recvs) + (IF Head(cq).op = "recv" THEN 1 ELSE 0)
    <3>1. Head(cq).idx \in Nat
      BY <2>2 DEF Completions
    <3>2. CASE Head(cq).ok /\ Head(cq).op = "recv"
      <4>1. pending_recvs' = Append(pending_recvs, Head(cq).idx)
        BY <1>5, <3>2 DEF DrainStep
      <4>2. pending_recvs' \in Seq(Nat) /\ Len(pending_recvs') = Len(pending_recvs) + 1
        BY <1>3, <3>1, <4>1, AppendType
      <4> QED
        BY <1>1, <3>2, <4>2
    <3>3. CASE ~(Head(cq).ok /\ Head(cq).op = "recv")
      <4>1. pending_recvs' = pending_recvs
        BY <1>5, <3>3 DEF DrainStep
      <4> QED
        BY <1>1, <1>3, <4>1
    <3> QED
      BY <3>2, <3>3
  <2>4. Len(pending_recvs') \in Nat
    BY <2>3
  <2>5. Len(posted) + OpsIn(cq', "recv") + Len(pending_recvs') <= RECV_DEPTH
    <3> DEFINE k == IF Head(cq).op = "recv" THEN 1 ELSE 0
    <3>1. k \in Nat /\ OpsIn(cq, "recv") = OpsIn(cq', "recv") + k
            /\ Len(pending_recvs') <= Len(pending_recvs) + k
      BY <2>2, <2>3
    <3> HIDE DEF k
    <3> QED
      BY <1>1, <1>2, <1>3, <2>2, <2>4, <3>1, BufferSums
  <2>6. sq' = sq /\ posted' = posted /\ qp' = qp /\ sends' = sends /\ ~refused'
    BY <2>1, Zenon DEF CreditInv
  <2> QED
    BY <2>2, <2>3, <2>5, <2>6, Zenon DEF CreditInv
<1>6. CASE DrainEnds
  <2>1. PostSend(sends) /\ UNCHANGED <<posted, pending_recvs, qp, sends>>
          /\ pending_sends < CQ_DRAIN_LOW_WATER
    BY <1>6, Zenon DEF DrainEnds
  <2>2. pending_sends < CQ_DRAIN_HIGH_WATER /\ sends' \in Nat
    BY <1>1, <1>2, <1>3, <2>1
  <2> QED
    BY <1>3, <2>1, <2>2, PostSendKeeps
<1>7. CASE Recv
  <2>1. UNCHANGED <<sq, pending_sends, qp, sends, refused>>
    BY <1>7, Zenon DEF Recv
  <2>2. CASE pending_recvs = <<>>
    <3>1. UNCHANGED <<pending_recvs, posted, cq>>
      BY <1>7, <2>2 DEF Recv
    <3> QED
      BY <2>1, <3>1, Zenon DEF CreditInv
  <2>3. CASE pending_recvs # <<>>
    <3>1. pending_recvs' = Tail(pending_recvs) /\ Consume(cq, Head(pending_recvs))
      BY <1>7, <2>3, Zenon DEF Recv
    <3>2. Head(pending_recvs) \in Nat /\ pending_recvs' \in Seq(Nat)
            /\ Len(pending_recvs') = Len(pending_recvs) - 1
      BY <1>3, <2>3, <3>1, TailType
    <3>3. /\ cq' \in Seq(Completions) /\ posted' \in Seq(Nat)
          /\ OpsIn(cq', "send") = OpsIn(cq, "send")
          /\ Len(posted') + OpsIn(cq', "recv") <= Len(posted) + OpsIn(cq, "recv") + 1
      BY <1>3, <3>1, <3>2, ConsumeKeeps
    <3>4. Len(posted') \in Nat /\ OpsIn(cq', "recv") \in Nat
      BY <3>3, PlacesFinite
    <3>5. Len(posted') + OpsIn(cq', "recv") + Len(pending_recvs') <= RECV_DEPTH
      <4>1. Len(pending_recvs') \in Nat
        BY <3>2
      <4> QED
        BY <1>1, <1>2, <1>3, <3>2, <3>3, <3>4, <4>1, BufferSums
    <3>6. sq' = sq /\ pending_sends' = pending_sends /\ qp' = qp /\ sends' = sends /\ ~refused'
      BY <2>1, Zenon DEF CreditInv
    <3> QED
      BY <3>2, <3>3, <3>5, <3>6, Zenon DEF CreditInv
  <2> QED
    BY <2>2, <2>3
<1>8. CASE RecvStep
  <2>1. cq # <<>> /\ UNCHANGED <<sq, pending_recvs, qp, sends, refused>>
    BY <1>8, Zenon DEF RecvStep
  <2>2. sq' = sq /\ pending_recvs' = pending_recvs /\ qp' = qp /\ sends' = sends /\ ~refused'
    BY <2>1, Zenon DEF CreditInv
  <2>3. CASE Head(cq).op = "recv" /\ Head(cq).ok
    <3>1. Consume(Tail(cq), Head(cq).idx) /\ pending_sends' = pending_sends
      BY <1>8, <2>3, Zenon DEF RecvStep
    <3>2. /\ Head(cq) \in Completions /\ Tail(cq) \in Seq(Completions)
          /\ OpsIn(cq, "send") = OpsIn(Tail(cq), "send") + (IF Head(cq).op = "send" THEN 1 ELSE 0)
          /\ OpsIn(cq, "recv") = OpsIn(Tail(cq), "recv") + (IF Head(cq).op = "recv" THEN 1 ELSE 0)
      BY <1>3, <2>1, CountTail
    <3>3. Head(cq).idx \in Nat /\ OpsIn(Tail(cq), "send") \in Nat /\ OpsIn(Tail(cq), "recv") \in Nat
      BY <3>2, PlacesFinite DEF Completions
    <3>4. OpsIn(cq, "send") = OpsIn(Tail(cq), "send") /\ OpsIn(cq, "recv") = OpsIn(Tail(cq), "recv") + 1
      BY <2>3, <3>2, <3>3
    <3>5. /\ cq' \in Seq(Completions) /\ posted' \in Seq(Nat)
          /\ OpsIn(cq', "send") = OpsIn(Tail(cq), "send")
          /\ Len(posted') + OpsIn(cq', "recv") <= Len(posted) + OpsIn(Tail(cq), "recv") + 1
      BY <1>3, <3>1, <3>2, <3>3, ConsumeKeeps
    <3>6. Len(posted') \in Nat /\ OpsIn(cq', "recv") \in Nat
      BY <3>5, PlacesFinite
    <3>7. Len(posted') + OpsIn(cq', "recv") + Len(pending_recvs) <= RECV_DEPTH
            /\ OpsIn(cq', "send") = OpsIn(cq, "send")
      <4>1. Len(posted') + OpsIn(cq', "recv") <= Len(posted) + OpsIn(cq, "recv")
        BY <3>3, <3>4, <3>5, <3>6, <1>1
      <4>2. Len(posted) + OpsIn(cq, "recv") + Len(pending_recvs) <= RECV_DEPTH
        BY <1>2, <1>3
      <4> QED
        BY <1>1, <1>2, <3>4, <3>5, <3>6, <4>1, <4>2
    <3> QED
      BY <2>2, <3>1, <3>5, <3>7, Zenon DEF CreditInv
  <2>4. CASE ~(Head(cq).op = "recv" /\ Head(cq).ok)
    <3>1. DrainCq /\ posted' = posted
      BY <1>8, <2>4, Zenon DEF RecvStep
    <3>2. /\ cq' \in Seq(Completions)
          /\ pending_sends' \in 0..CQ_DRAIN_HIGH_WATER
          /\ Len(sq) + OpsIn(cq', "send") <= pending_sends'
          /\ OpsIn(cq', "recv") \in Nat
          /\ OpsIn(cq, "recv") = OpsIn(cq', "recv") + (IF Head(cq).op = "recv" THEN 1 ELSE 0)
      BY <2>1, <3>1, DrainKeeps
    <3>3. Len(posted) + OpsIn(cq', "recv") + Len(pending_recvs) <= RECV_DEPTH
      <4> DEFINE k == IF Head(cq).op = "recv" THEN 1 ELSE 0
      <4>1. k \in Nat /\ OpsIn(cq, "recv") = OpsIn(cq', "recv") + k
        BY <3>2
      <4> HIDE DEF k
      <4>2. Len(pending_recvs) <= Len(pending_recvs) + k
        BY <1>1, <4>1
      <4> QED
        BY <1>1, <1>2, <1>3, <3>2, <4>1, <4>2, BufferSums
    <3> QED
      BY <2>2, <3>1, <3>2, <3>3, Zenon DEF CreditInv
  <2> QED
    BY <2>3, <2>4
<1>9. CASE RecvCancelled
  BY <1>9, Zenon DEF RecvCancelled, CreditInv
<1> QED
  BY <1>4, <1>5, <1>6, <1>7, <1>8, <1>9

\* The adapter keeps the credits, also when the queue pair fails and everything
\* posted comes back at once.
LEMMA AdapterKeeps ==
    ASSUME RdmaAssumption, CreditInv, NicSend \/ NicRecv \/ QpError
    PROVE  CreditInv'
<1>1. /\ OpsIn(cq, "send") \in Nat /\ OpsIn(cq, "recv") \in Nat
      /\ Len(sq) \in Nat /\ Len(posted) \in Nat /\ Len(pending_recvs) \in Nat
      /\ pending_sends \in Nat
  BY CreditNumbers
<1>2. RECV_DEPTH \in Nat
  BY Watermarks
<1>3. /\ cq \in Seq(Completions) /\ sq \in Seq(Nat) /\ posted \in Seq(Nat)
      /\ Len(sq) + OpsIn(cq, "send") <= pending_sends
      /\ Len(posted) + OpsIn(cq, "recv") + Len(pending_recvs) <= RECV_DEPTH
  BY DEF CreditInv
<1>4. CASE NicSend
  <2>1. sq # <<>> /\ sq' = Tail(sq) /\ cq' = Append(cq, Done("send", Head(sq), TRUE))
    BY <1>4 DEF NicSend
  <2>2. Head(sq) \in Nat /\ sq' \in Seq(Nat) /\ Len(sq') = Len(sq) - 1
    BY <1>3, <2>1, TailType
  <2>3. /\ cq' \in Seq(Completions)
        /\ OpsIn(cq', "send") = OpsIn(cq, "send") + 1
        /\ OpsIn(cq', "recv") = OpsIn(cq, "recv") + 0
    BY <1>3, <2>1, <2>2, PushCounts
  <2>4. Len(sq') + OpsIn(cq', "send") <= pending_sends /\ OpsIn(cq', "recv") = OpsIn(cq, "recv")
    BY <1>1, <1>3, <2>2, <2>3
  <2>5. /\ pending_sends' = pending_sends /\ posted' = posted /\ qp' = qp
        /\ pending_recvs' = pending_recvs /\ sends' = sends /\ ~refused'
    BY <1>4, Zenon DEF NicSend, CreditInv
  <2> QED
    BY <2>2, <2>3, <2>4, <2>5, Zenon DEF CreditInv
<1>5. CASE NicRecv
  <2>1. posted # <<>> /\ posted' = Tail(posted) /\ cq' = Append(cq, Done("recv", Head(posted), TRUE))
    BY <1>5 DEF NicRecv
  <2>2. Head(posted) \in Nat /\ posted' \in Seq(Nat) /\ Len(posted') = Len(posted) - 1
    BY <1>3, <2>1, TailType
  <2>3. /\ cq' \in Seq(Completions)
        /\ OpsIn(cq', "send") = OpsIn(cq, "send") + 0
        /\ OpsIn(cq', "recv") = OpsIn(cq, "recv") + 1
    BY <1>3, <2>1, <2>2, PushCounts
  <2>4. /\ Len(posted') + OpsIn(cq', "recv") + Len(pending_recvs) <= RECV_DEPTH
        /\ OpsIn(cq', "send") = OpsIn(cq, "send")
    BY <1>1, <1>2, <1>3, <2>2, <2>3
  <2>5. /\ pending_sends' = pending_sends /\ sq' = sq /\ qp' = qp
        /\ pending_recvs' = pending_recvs /\ sends' = sends /\ ~refused'
    BY <1>5, Zenon DEF NicRecv, CreditInv
  <2> QED
    BY <2>2, <2>3, <2>4, <2>5, Zenon DEF CreditInv
<1>6. CASE QpError
  <2> DEFINE S == Flushed("send", sq)
             R == Flushed("recv", posted)
  <2>1. sq' = <<>> /\ posted' = <<>> /\ qp' = "error" /\ cq' = cq \o S \o R
    BY <1>6 DEF QpError
  <2>2. /\ S \in Seq(Completions) /\ R \in Seq(Completions)
        /\ OpsIn(S, "send") = Len(sq) /\ OpsIn(S, "recv") = 0
        /\ OpsIn(R, "send") = 0 /\ OpsIn(R, "recv") = Len(posted)
    BY <1>3, CountFlushed
  <2> HIDE DEF S, R
  <2>3. cq \o S \in Seq(Completions) /\ cq \o S \o R \in Seq(Completions)
    BY <1>3, <2>2
  <2>4. \A op : OpsIn(cq \o S \o R, op) = OpsIn(cq, op) + OpsIn(S, op) + OpsIn(R, op)
    <3>1. \A op : OpsIn(cq \o S, op) = OpsIn(cq, op) + OpsIn(S, op)
      BY <1>3, <2>2, CountConcat
    <3>2. \A op : OpsIn((cq \o S) \o R, op) = OpsIn(cq \o S, op) + OpsIn(R, op)
      BY <2>2, <2>3, CountConcat
    <3> QED
      BY <3>1, <3>2
  <2>5. /\ cq' \in Seq(Completions)
        /\ OpsIn(cq', "send") = OpsIn(cq, "send") + Len(sq) + 0
        /\ OpsIn(cq', "recv") = OpsIn(cq, "recv") + 0 + Len(posted)
    BY <2>1, <2>2, <2>3, <2>4, Zenon
  <2>6. sq' \in Seq(Nat) /\ Len(sq') = 0 /\ posted' \in Seq(Nat) /\ Len(posted') = 0
          /\ qp' \in {"ok", "error"}
    BY <2>1
  <2>7. /\ Len(sq') + OpsIn(cq', "send") <= pending_sends
        /\ Len(posted') + OpsIn(cq', "recv") + Len(pending_recvs) <= RECV_DEPTH
    BY <1>1, <1>2, <1>3, <2>5, <2>6
  <2>8. pending_sends' = pending_sends /\ pending_recvs' = pending_recvs /\ sends' = sends /\ ~refused'
    BY <1>6, Zenon DEF QpError, CreditInv
  <2> QED
    BY <2>5, <2>6, <2>7, <2>8, Zenon DEF CreditInv
<1> QED
  BY <1>4, <1>5, <1>6

\* The completion queue never overflows and post_send never meets a full send
\* queue, for all watermarks that pass the assertions of connection.rs and all
\* send queues at least as deep as the high-water mark (max_send_wr is 16, the
\* high-water mark 32 - 16), whatever the order of calls, arrivals and failures.
THEOREM CqSafe ==
    ASSUME RdmaAssumption, CQ_DRAIN_HIGH_WATER <= MaxSendWr
    PROVE  Spec => []CqBounded
<1>1. Init => CreditInv
  BY CreditInit
<1>2. CreditInv /\ [Next]_vars => CreditInv'
  <2> SUFFICES ASSUME CreditInv, [Next]_vars PROVE CreditInv'
    OBVIOUS
  <2>1. CASE Send \/ DrainStep \/ DrainEnds \/ Recv \/ RecvStep \/ RecvCancelled
    BY <2>1, TaskKeeps
  <2>2. CASE NicSend \/ NicRecv \/ QpError
    BY <2>2, AdapterKeeps
  <2>3. CASE UNCHANGED vars
    BY <2>3, Zenon DEF vars, CreditInv
  <2> QED
    BY <2>1, <2>2, <2>3 DEF Next
<1>3. CreditInv => CqBounded
  <2> SUFFICES ASSUME CreditInv PROVE CqBounded
    OBVIOUS
  <2>1. /\ OpsIn(cq, "send") \in Nat /\ OpsIn(cq, "recv") \in Nat
        /\ Len(sq) \in Nat /\ Len(posted) \in Nat /\ Len(pending_recvs) \in Nat
        /\ pending_sends \in Nat /\ pending_sends <= CQ_DRAIN_HIGH_WATER
    BY CreditNumbers
  <2>2. OpsIn(cq, "send") + OpsIn(cq, "recv") = Len(cq) /\ ~refused
    BY KindsFill DEF CreditInv
  <2>3. /\ Len(sq) + OpsIn(cq, "send") <= pending_sends
        /\ Len(posted) + OpsIn(cq, "recv") + Len(pending_recvs) <= RECV_DEPTH
    BY DEF CreditInv
  <2>4. /\ RECV_DEPTH \in Nat /\ CQ_DRAIN_HIGH_WATER \in Nat
        /\ CQ_DRAIN_HIGH_WATER + RECV_DEPTH = CQ_CAPACITY
    BY Watermarks
  <2>5. Len(cq) + Len(sq) + Len(posted) <= CQ_CAPACITY
    BY <2>1, <2>2, <2>3, <2>4
  <2> QED
    BY <2>2, <2>5 DEF CqBounded
<1> QED
  BY <1>1, <1>2, <1>3, PTL DEF Spec
=============================================================================
