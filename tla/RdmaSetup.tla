----------------------------- MODULE RdmaSetup ------------------------------
(***************************************************************************)
(* Who owns the rdma-core objects while a listener is bound, connections   *)
(* are accepted and established, and either is dropped.  They are raw      *)
(* pointers: every error path releases by hand what exists so far.  What   *)
(* happens between two awaits is one step; the steps of rdma-core itself   *)
(* (each may fail) are external.                                           *)
(***************************************************************************)
EXTENDS Integers, Sequences, SequencesExt

CONSTANTS
  Peers,        \* connections a remote client asks the listener for
  Clients,      \* connections opened with RdmaConnection::connect
  RecvMrs       \* RECV_DEPTH

VARIABLES
  heap,         \* live: the objects that exist; faults: wrong releases
  listener,     \* "unbound", "bound" (between two accepts), "accepting", "dropped"
  conn,         \* connection -> where its setup stands
  cm_events     \* the listener's event channel: [type, conn]

vars == <<heap, listener, conn, cm_events>>

Conns == Peers \cup Clients
Owners == Conns \cup {"listener"}

Obj(kind, owner) == [kind |-> kind, owner |-> owner, n |-> 0]
Mr(c, n) == [kind |-> "mr", owner |-> c, n |-> n]   \* 0 is the send buffer's

(* What an object was created on, and must not outlive. *)
Needs(o) ==
  CASE o.kind = "id" -> {Obj("ec", IF o.owner \in Peers THEN "listener" ELSE o.owner)}
    [] o.kind = "qp" -> {Obj("id", o.owner), Obj("pd", o.owner), Obj("cq", o.owner)}
    [] o.kind = "mr" -> {Obj("pd", o.owner)}
    [] OTHER -> {}

Created(h, objs) == [h EXCEPT !.live = @ \cup objs]

(* The objects are released one after the other. *)
Released(h, objs) ==
  LET before(i) == {objs[k] : k \in 1..i - 1}
      faulty(what, P(_)) == {[what |-> what, obj |-> objs[i]] : i \in {k \in DOMAIN objs : P(k)}}
      twice(i) == objs[i] \notin h.live \ before(i)
      in_use(i) == \E d \in h.live \ before(i) : objs[i] \in Needs(d)
  IN [live |-> h.live \ Range(objs),
      faults |-> h.faults \cup faulty("released twice", twice) \cup faulty("still in use", in_use)]

Outcome(h, result) == [heap |-> h, result |-> result]
-----------------------------------------------------------------------------
(* Drop for RdmaConnection; only one that connected owns its event channel. *)
DropConnection(h, c, owns_channel) ==
  Released(h, [i \in 1..RecvMrs + 1 |-> Mr(c, i - 1)]
              \o <<Obj("qp", c), Obj("id", c), Obj("cq", c), Obj("pd", c)>>
              \o (IF owns_channel THEN <<Obj("ec", c)>> ELSE <<>>))

(* Mutant: the CM ID goes before the queue pair made on it. *)
CleanupAcceptResourcesIdFirst(h, c) ==
  Released(h, <<Obj("id", c), Obj("qp", c), Obj("cq", c), Obj("pd", c)>>)

(* cleanup_accept_resources, with had_qp as its callers pass it. *)
CleanupAcceptResources(h, c) ==
  Released(h, <<Obj("qp", c), Obj("cq", c), Obj("pd", c), Obj("id", c)>>)

(* create_qp_resources: the CM ID has no verbs, or the PD, the CQ or the QP *)
(* cannot be made.                                                          *)
CreateQpFails(h, c) ==
  {h, Released(Created(h, {Obj("pd", c)}), <<Obj("pd", c)>>),
   Released(Created(h, {Obj("pd", c), Obj("cq", c)}), <<Obj("cq", c), Obj("pd", c)>>)}

CreateQpResources(h, c) == Created(h, {Obj("pd", c), Obj("cq", c), Obj("qp", c)})

(* from_accepted_cm_id: registering the n-th buffer fails and the earlier   *)
(* ones are given back; or post_recv fails, and the connection built by     *)
(* then is dropped with everything it was handed.                           *)
FromAcceptedCmIdFails(h, c) ==
  {Outcome(Released(Created(h, {Mr(c, i) : i \in 0..n - 1}), [i \in 1..n |-> Mr(c, i - 1)]), "failed")
     : n \in 0..RecvMrs}
  \cup {Outcome(DropConnection(Created(h, {Mr(c, i) : i \in 0..RecvMrs}), c, FALSE), "post_failed")}

FromAcceptedCmId(h, c) == Created(h, {Mr(c, i) : i \in 0..RecvMrs})

(* accept, from the CM ID of the request on: there is no await in it. *)
AcceptOutcomes(h, c) ==
  LET qp == CreateQpResources(h, c)
  IN {Outcome(Released(f, <<Obj("id", c)>>), "failed") : f \in CreateQpFails(h, c)}
     \cup {Outcome(CleanupAcceptResources(qp, c), "failed")}
     \cup {Outcome(CleanupAcceptResources(o.heap, c), o.result) : o \in FromAcceptedCmIdFails(qp, c)}
     \cup {Outcome(FromAcceptedCmId(qp, c), "up")}

PreQp(h, c) == Released(h, <<Obj("id", c), Obj("ec", c)>>)
PostQp(h, c) == Released(CleanupAcceptResources(h, c), <<Obj("ec", c)>>)

(* connect up to its first await: the channel, its flags and its AsyncFd,   *)
(* the CM ID, the address.                                                  *)
StartOutcomes(h, c) ==
  LET ec == Created(h, {Obj("ec", c)})
      id == Created(ec, {Obj("id", c)})
  IN {Outcome(h, "failed"), Outcome(Released(ec, <<Obj("ec", c)>>), "failed"),
      Outcome(PreQp(id, c), "failed"), Outcome(id, "resolving")}

AddrOutcomes(h, c) == {Outcome(PreQp(h, c), "failed"), Outcome(h, "routing")}

RouteOutcomes(h, c) ==
  LET qp == CreateQpResources(h, c)
  IN {Outcome(PreQp(f, c), "failed") : f \in CreateQpFails(h, c) \cup {h}}
     \cup {Outcome(PostQp(qp, c), "failed"), Outcome(qp, "connecting")}

EstablishedOutcomes(h, c) ==
  {Outcome(PostQp(h, c), "failed"), Outcome(FromAcceptedCmId(h, c), "up")}
  \cup {Outcome(PostQp(o.heap, c), o.result) : o \in FromAcceptedCmIdFails(h, c)}

(* RdmaListener::bind: whatever fails after the channel gives back what is there. *)
BindOutcomes(h) ==
  LET ec == Created(h, {Obj("ec", "listener")})
      id == Created(ec, {Obj("id", "listener")})
  IN {Outcome(h, "unbound"), Outcome(Released(ec, <<Obj("ec", "listener")>>), "unbound"),
      Outcome(Released(id, <<Obj("id", "listener"), Obj("ec", "listener")>>), "unbound"),
      Outcome(id, "bound")}
-----------------------------------------------------------------------------
Init ==
  /\ heap = [live |-> {}, faults |-> {}]
  /\ listener = "unbound" /\ conn = [c \in Conns |-> "none"] /\ cm_events = <<>>

Bind ==
  /\ listener = "unbound"
  /\ \E o \in BindOutcomes(heap) : heap' = o.heap /\ listener' = o.result
  /\ UNCHANGED <<conn, cm_events>>

AcceptCalled ==
  /\ listener = "bound"
  /\ listener' = "accepting"
  /\ UNCHANGED <<heap, conn, cm_events>>

(* The accept future is dropped while it waits: it holds nothing. *)
AcceptCancelled ==
  /\ listener = "accepting"
  /\ listener' = "bound"
  /\ UNCHANGED <<heap, conn, cm_events>>

(* Mutant: an event other than a request ends the wait without being read. *)
AcceptEventStuck ==
  /\ listener = "accepting" /\ cm_events # <<>>
  /\ LET e == Head(cm_events)
     IN IF e.type = "request"
        THEN /\ \E o \in AcceptOutcomes(heap, e.conn) :
                  heap' = o.heap /\ conn' = [conn EXCEPT ![e.conn] = o.result]
             /\ cm_events' = Tail(cm_events)
        ELSE UNCHANGED <<heap, conn, cm_events>>
  /\ listener' = "bound"

(* wait_for_cm_event and the rest of accept.  An event is acknowledged      *)
(* before it is looked at; a terminal one ends accept with an error, any    *)
(* other that is not a request is skipped.                                  *)
AcceptEvent ==
  /\ listener = "accepting" /\ cm_events # <<>>
  /\ cm_events' = Tail(cm_events)
  /\ LET e == Head(cm_events)
     IN IF e.type = "request"
        THEN /\ \E o \in AcceptOutcomes(heap, e.conn) :
                  heap' = o.heap /\ conn' = [conn EXCEPT ![e.conn] = o.result]
             /\ listener' = "bound"
        ELSE /\ listener' = IF e.type = "disconnected" THEN "bound" ELSE listener
             /\ UNCHANGED <<heap, conn>>

(* Drop for RdmaListener. *)
ListenerDropped ==
  /\ listener = "bound"
  /\ listener' = "dropped" /\ cm_events' = <<>>
  /\ heap' = Released([heap EXCEPT !.live = @ \ {Obj("id", e.conn) : e \in
                                     {f \in Range(cm_events) : f.type = "request"}}],
                      <<Obj("id", "listener"), Obj("ec", "listener")>>)
  /\ conn' = [c \in Conns |-> IF conn[c] = "requested" THEN "refused" ELSE conn[c]]

Connect(c) ==
  /\ \E o \in CASE conn[c] = "none" -> StartOutcomes(heap, c)
                [] conn[c] = "resolving" -> AddrOutcomes(heap, c)
                [] conn[c] = "routing" -> RouteOutcomes(heap, c)
                [] conn[c] = "connecting" -> EstablishedOutcomes(heap, c)
                [] OTHER -> {} :
       heap' = o.heap /\ conn' = [conn EXCEPT ![c] = o.result]
  /\ UNCHANGED <<listener, cm_events>>

(* The connect future is dropped at an await: nothing is released. *)
ConnectCancelled(c) ==
  /\ conn[c] \in {"resolving", "routing", "connecting"}
  /\ conn' = [conn EXCEPT ![c] = "cancelled"]
  /\ UNCHANGED <<heap, listener, cm_events>>

(* The connection is dropped; destroying its CM ID takes its events along. *)
Drop(c) ==
  /\ conn[c] = "up"
  /\ conn' = [conn EXCEPT ![c] = "closed"]
  /\ heap' = DropConnection(heap, c, c \in Clients)
  /\ cm_events' = SelectSeq(cm_events, LAMBDA e : e.conn # c)
  /\ UNCHANGED listener

(* External: a client asks, the handshake completes, the client leaves. *)
PeerRequests(c) ==
  /\ conn[c] = "none" /\ listener \in {"bound", "accepting"}
  /\ conn' = [conn EXCEPT ![c] = "requested"]
  /\ heap' = Created(heap, {Obj("id", c)})
  /\ cm_events' = Append(cm_events, [type |-> "request", conn |-> c])
  /\ UNCHANGED listener

PeerEvent(c) ==
  /\ conn[c] = "up" /\ listener \in {"bound", "accepting"}
  /\ \A i \in DOMAIN cm_events : cm_events[i].conn # c
  /\ \E t \in {"established", "disconnected"} :
       cm_events' = Append(cm_events, [type |-> t, conn |-> c])
  /\ UNCHANGED <<heap, listener, conn>>

Next ==
  \/ Bind \/ AcceptCalled \/ AcceptCancelled \/ AcceptEvent \/ ListenerDropped
  \/ \E c \in Clients : Connect(c) \/ ConnectCancelled(c)
  \/ \E c \in Conns : Drop(c)
  \/ \E c \in Peers : PeerRequests(c) \/ PeerEvent(c)

(* The server calls accept again after every result, and an accept with an  *)
(* event to read is polled.                                                 *)
Fairness == WF_vars(AcceptCalled) /\ SF_vars(AcceptEvent)
-----------------------------------------------------------------------------
Failed == {"none", "failed", "closed", "refused"}

(* Every object is released once, after all that was made on it, and none   *)
(* is left behind by a setup that failed, a connection or a listener that   *)
(* was dropped.  Three situations the code does not handle are excluded:    *)
(* post_recv failing (connection and caller both release), a listener       *)
(* dropped before the connections it accepted (their CM IDs are on its      *)
(* channel), and a connect future dropped half way.                         *)
ReleasedOnce ==
  /\ \A f \in heap.faults :
       \/ f.obj.owner \in Conns /\ conn[f.obj.owner] = "post_failed"
       \/ f = [what |-> "still in use", obj |-> Obj("ec", "listener")] /\ listener = "dropped"
  /\ \A o \in heap.live :
       IF o.owner = "listener" THEN listener \in {"bound", "accepting"}
       ELSE conn[o.owner] \notin Failed \cup {"post_failed"}

(* A client that asked is answered, however many events of other            *)
(* connections precede its request on the channel.                          *)
RequestAnswered ==
  \A c \in Peers : (conn[c] = "requested") ~> (conn[c] # "requested")
=============================================================================
