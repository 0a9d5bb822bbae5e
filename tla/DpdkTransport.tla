--------------------------- MODULE DpdkTransport ---------------------------
(***************************************************************************)
(* The DPDK transport: threads of one process bind listeners (Eal::init,   *)
(* DpdkPort::init), and the listener that got the port polls it in accept. *)
(* The stack is any XdpStack; the EAL, the driver and the NIC are external. *)
(* Mbufs are counted by the place they are in.                             *)
(***************************************************************************)
EXTENDS Integers, Sequences, FiniteSets, FiniteSetsExt, SequencesExt

CONSTANTS Threads, Mbufs, MAX_BURST, MaxFrames, MaxBinds, MaxErrors

DpdkAssumption == {Mbufs, MAX_BURST, MaxFrames, MaxBinds, MaxErrors} \subseteq Nat \ {0}

VARIABLES
  binder,         \* per thread: where its bind_with is
  eal,            \* rte_eal_init has succeeded in this process
  eal_inner,      \* EAL_INNER holds a handle
  ports,          \* rte_eth_dev_count_avail
  pool_owner,     \* who holds "MBUF_POOL": "none", a thread, or "leaked"
  binds,
  pc,             \* of accept: "idle", "top", "rx", "timers", "tx", "yield"
  mbufs,          \* how many are free, received, in the burst, sending, leaked
  nb_rx,
  tx_buf,         \* what the stack produced: frames by the fate of their length
  pending_conns, yielded, accepted, frames, errors

setup == <<binder, eal, eal_inner, ports, pool_owner, binds>>
data == <<pc, mbufs, nb_rx, tx_buf, pending_conns, yielded, accepted, frames, errors>>
vars == <<setup, data>>

Places == {"free", "received", "burst", "sending", "leaked"}
FrameSizes == {"fits", "above u16", "above mbuf"}
AllFree == [p \in Places |-> IF p = "free" THEN Mbufs ELSE 0]
Moved(from, to, n) == [mbufs EXCEPT ![from] = @ - n, ![to] = @ + n]
Listening(t) == binder[t] = "listening"

Init ==
  /\ binder = [t \in Threads |-> "idle"] /\ eal = FALSE /\ eal_inner = FALSE
  /\ ports = 1 /\ pool_owner = "none" /\ binds = 0
  /\ pc = "idle" /\ mbufs = AllFree /\ nb_rx = 0 /\ tx_buf = <<>>
  /\ pending_conns = <<>> /\ yielded = 0 /\ accepted = <<>> /\ frames = 0 /\ errors = 0
-----------------------------------------------------------------------------
(* Eal::init reads EAL_INNER. *)
BindWith(t) ==
  /\ binder[t] = "idle" /\ binds < MaxBinds
  /\ binds' = binds + 1
  /\ binder' = [binder EXCEPT ![t] = IF eal_inner THEN "port" ELSE "eal"]
  /\ UNCHANGED <<eal, eal_inner, ports, pool_owner, data>>

(* rte_eal_init (external) succeeds at most once; a call that fails is an   *)
(* error of bind_with, for a thread that lost the race as well.             *)
EalInit(t) ==
  /\ binder[t] = "eal"
  /\ \/ ~eal /\ eal' = TRUE /\ binder' = [binder EXCEPT ![t] = "publish"]
     \/ eal' = eal /\ binder' = [binder EXCEPT ![t] = "idle"]
  /\ UNCHANGED <<eal_inner, ports, pool_owner, binds, data>>

EalPublish(t) ==
  /\ binder[t] = "publish"
  /\ eal_inner' = TRUE /\ binder' = [binder EXCEPT ![t] = "port"]
  /\ UNCHANGED <<eal, ports, pool_owner, binds, data>>

(* DpdkPort::init looks for a port. *)
PortFound(t) ==
  /\ binder[t] = "port"
  /\ binder' = [binder EXCEPT ![t] = IF ports = 0 THEN "idle" ELSE "pool"]
  /\ UNCHANGED <<eal, eal_inner, ports, pool_owner, binds, data>>

(* Mutant: every listener names its pool after itself, so none is refused. *)
PortInitOwnPool(t) ==
  /\ binder[t] = "pool"
  /\ \/ ports = 1 /\ pool_owner' = t /\ binder' = [binder EXCEPT ![t] = "listening"]
     \/ pool_owner' = "leaked" /\ binder' = [binder EXCEPT ![t] = "idle"]
  /\ UNCHANGED <<eal, eal_inner, ports, binds, data>>

(* The rest of it.  The pool's name is taken by the first; an error of a    *)
(* later call (all are errors once the port is closed) leaves the pool      *)
(* behind.                                                                  *)
PortInit(t) ==
  /\ binder[t] = "pool"
  /\ \/ /\ pool_owner = "none" /\ ports = 1
        /\ pool_owner' = t /\ binder' = [binder EXCEPT ![t] = "listening"]
     \/ /\ pool_owner = "none"
        /\ pool_owner' = "leaked" /\ binder' = [binder EXCEPT ![t] = "idle"]
     \/ pool_owner' = pool_owner /\ binder' = [binder EXCEPT ![t] = "idle"]
  /\ UNCHANGED <<eal, eal_inner, ports, binds, data>>

(* DpdkListener is dropped: the port is closed, which takes it off the      *)
(* list, and the pool is freed with whatever it holds.                      *)
ListenerDropped(t) ==
  /\ Listening(t) /\ pc = "idle"
  /\ binder' = [binder EXCEPT ![t] = "idle"]
  /\ ports' = 0 /\ pool_owner' = "none"
  /\ mbufs' = AllFree /\ pending_conns' = <<>> /\ yielded' = 0 /\ accepted' = <<>>
  /\ errors' = 0
  /\ UNCHANGED <<eal, eal_inner, binds, pc, nb_rx, tx_buf, frames>>
-----------------------------------------------------------------------------
(* External: the driver fills a free mbuf, or finishes sending one. *)
NicReceives ==
  /\ \E t \in Threads : Listening(t)
  /\ frames < MaxFrames /\ mbufs["free"] > 0
  /\ frames' = frames + 1 /\ mbufs' = Moved("free", "received", 1)
  /\ UNCHANGED <<setup, pc, nb_rx, tx_buf, pending_conns, yielded, accepted, errors>>

NicSent ==
  /\ mbufs["sending"] > 0
  /\ mbufs' = Moved("sending", "free", 1)
  /\ UNCHANGED <<setup, pc, nb_rx, tx_buf, pending_conns, yielded, accepted, frames, errors>>

(* The caller's accept; its future is dropped only where it yields. *)
AcceptCalled ==
  /\ pc = "idle" /\ \E t \in Threads : Listening(t)
  /\ pc' = "top"
  /\ UNCHANGED <<setup, mbufs, nb_rx, tx_buf, pending_conns, yielded, accepted, frames, errors>>

Yielded ==
  /\ pc = "yield"
  /\ pc' \in {"top", "idle"}
  /\ UNCHANGED <<setup, mbufs, nb_rx, tx_buf, pending_conns, yielded, accepted, frames, errors>>

AcceptReturns ==
  /\ pc = "top" /\ pending_conns # <<>>
  /\ pc' = "idle"
  /\ pending_conns' = Tail(pending_conns) /\ accepted' = Append(accepted, Head(pending_conns))
  /\ UNCHANGED <<setup, mbufs, nb_rx, tx_buf, yielded, frames, errors>>

RxBurst ==
  /\ pc = "top" /\ pending_conns = <<>>
  /\ nb_rx' = Min({MAX_BURST, mbufs["received"]})
  /\ mbufs' = Moved("received", "burst", nb_rx')
  /\ pc' = "rx"
  /\ UNCHANGED <<setup, tx_buf, pending_conns, yielded, accepted, frames, errors>>

(* Mutant: on an error the loop goes on to free what is left of the burst,  *)
(* the mbuf in hand among it, and then frees that one again.                *)
StackFailsFreesTwice ==
  /\ errors < MaxErrors /\ errors' = errors + 1 /\ pc' = "idle" /\ tx_buf' = <<>>
  /\ mbufs' = [mbufs EXCEPT !["burst"] = 0, !["free"] = @ + mbufs["burst"] + 1]

(* An error of the stack leaves accept at once: the mbuf in hand and the    *)
(* rest of the burst are not freed, the frames produced are dropped.        *)
StackFails ==
  /\ errors < MaxErrors /\ errors' = errors + 1 /\ pc' = "idle" /\ tx_buf' = <<>>
  /\ mbufs' = Moved("burst", "leaked", mbufs["burst"])

RxOne ==
  /\ pc = "rx" /\ mbufs["burst"] > 0
  /\ \/ /\ StackFails
        /\ UNCHANGED <<pending_conns, yielded>>
     \/ /\ \E new \in BOOLEAN :
             /\ yielded' = IF new THEN yielded + 1 ELSE yielded
             /\ pending_conns' = IF new THEN Append(pending_conns, yielded') ELSE pending_conns
        /\ \E out \in {<<>>} \cup {<<size>> : size \in FrameSizes} : tx_buf' = tx_buf \o out
        /\ mbufs' = Moved("burst", "free", 1)
        /\ UNCHANGED <<pc, errors>>
  /\ UNCHANGED <<setup, nb_rx, accepted, frames>>

PollTimers ==
  /\ pc = "rx" /\ mbufs["burst"] = 0
  /\ \/ StackFails
     \/ /\ \E out \in {<<>>, <<"fits">>} : tx_buf' = tx_buf \o out
        /\ pc' = "tx"
        /\ UNCHANGED <<mbufs, errors>>
  /\ UNCHANGED <<setup, nb_rx, pending_conns, yielded, accepted, frames>>

(* One frame out: too long for a u16, no free mbuf, too long for the mbuf,  *)
(* no room in the tx queue, or sent.                                        *)
TxOne ==
  /\ pc = "tx" /\ tx_buf # <<>>
  /\ tx_buf' = Tail(tx_buf)
  /\ \/ mbufs' = mbufs
     \/ Head(tx_buf) = "fits" /\ mbufs["free"] > 0 /\ mbufs' = Moved("free", "sending", 1)
  /\ UNCHANGED <<setup, pc, nb_rx, pending_conns, yielded, accepted, frames, errors>>

TxDone ==
  /\ pc = "tx" /\ tx_buf = <<>>
  /\ pc' = IF nb_rx = 0 THEN "yield" ELSE "top"
  /\ UNCHANGED <<setup, mbufs, nb_rx, tx_buf, pending_conns, yielded, accepted, frames, errors>>

Next ==
  \/ \E t \in Threads :
       BindWith(t) \/ EalInit(t) \/ EalPublish(t) \/ PortFound(t) \/ PortInit(t) \/ ListenerDropped(t)
  \/ NicReceives \/ NicSent \/ AcceptCalled \/ Yielded \/ AcceptReturns \/ RxBurst \/ RxOne
  \/ PollTimers \/ TxOne \/ TxDone

-----------------------------------------------------------------------------
(* Every mbuf is in one place, those an error of the stack left behind      *)
(* included, at most a burst of them per error; and a connection the stack  *)
(* yields is returned by accept, in order, over errors and dropped accepts. *)
MbufsAccounted ==
  /\ \A p \in Places : mbufs[p] >= 0
  /\ FoldFunction(+, 0, mbufs) = Mbufs
  /\ mbufs["leaked"] <= MAX_BURST * errors
  /\ accepted \o pending_conns = [i \in 1..yielded |-> i]

(* One listener polls the port, with the EAL up and the pool its own,       *)
(* whichever way the threads' bind_with interleave with each other and with *)
(* the drop of a listener; a pool lost to a failed init is never taken over. *)
OnePortOwner ==
  /\ \A t \in Threads : Listening(t) => eal /\ eal_inner /\ pool_owner = t /\ ports = 1
  /\ eal_inner => eal
=============================================================================
