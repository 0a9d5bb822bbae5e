---------------------------- MODULE MCTransports ----------------------------
(***************************************************************************)
(* What carries messages, for TLC: the channels of MCChannels, the shared- *)
(* memory ring, the length-prefixed TCP backends, RDMA set-up and data     *)
(* path, the AF_XDP datapath with either stack, and DPDK.  A program uses  *)
(* one of them at a time; a behaviour runs one and leaves the others in    *)
(* their initial states.                                                   *)
(***************************************************************************)
EXTENDS MCChannels, SequencesExt

VARIABLES
    r_head, r_tail, r_mem, r_prod, r_cons, r_sent, r_rcvd,
    t_backend, t_messages, t_sender, t_stream, t_src, t_recv, t_orphan, t_got,
    t_ended, t_lost, t_cancels,
    q_pc, q_send_buf, q_sq, q_posted, q_recv_bufs, q_cq, q_pending_sends,
    q_pending_recvs, q_qp, q_sends, q_arrived, q_got, q_wire, q_refused,
    q_unposted,
    h_heap, h_listener, h_conn, h_cm_events,
    x_pc, x_free_descs, x_fill_q, x_tx_q, x_comp_q, x_rx_q, x_rx_scratch,
    x_tx_buf, x_new_conns, x_processed, x_pending_conns, x_connections,
    x_handle, x_pending_tx, x_seen, x_got, x_sent, x_leaked, x_packets,
    x_sends,
    k_listening, k_sessions, k_connects, k_sends,
    d_binder, d_eal, d_eal_inner, d_ports, d_pool_owner, d_binds, d_pc,
    d_mbufs, d_nb_rx, d_tx_buf, d_pending_conns, d_yielded, d_accepted,
    d_frames, d_errors

ring == <<r_head, r_tail, r_mem, r_prod, r_cons, r_sent, r_rcvd>>
tcp == <<t_backend, t_messages, t_sender, t_stream, t_src, t_recv, t_orphan,
         t_got, t_ended, t_lost, t_cancels>>
rdma == <<q_pc, q_send_buf, q_sq, q_posted, q_recv_bufs, q_cq,
          q_pending_sends, q_pending_recvs, q_qp, q_sends, q_arrived, q_got,
          q_wire, q_refused, q_unposted>>
setup == <<h_heap, h_listener, h_conn, h_cm_events>>
xdp == <<x_pc, x_free_descs, x_fill_q, x_tx_q, x_comp_q, x_rx_q, x_rx_scratch,
         x_tx_buf, x_new_conns, x_processed, x_pending_conns, x_connections,
         x_handle, x_pending_tx, x_seen, x_got, x_sent, x_leaked, x_packets,
         x_sends>>
smoltcp == <<k_listening, k_sessions, k_connects, k_sends>>
dpdk == <<d_binder, d_eal, d_eal_inner, d_ports, d_pool_owner, d_binds, d_pc,
          d_mbufs, d_nb_rx, d_tx_buf, d_pending_conns, d_yielded, d_accepted,
          d_frames, d_errors>>

\* Frames of an RDMA peer: a malformed one between good ones.
RdmaFrames ==
    [i \in 1..3 |-> [id |-> i, kind |-> IF i = 2 THEN "short" ELSE "good"]]

\* Lengths of the messages sent by RDMA: one is overwritten by a shorter one,
\* which is overwritten by a longer one.
RdmaSendLens == <<2, 1, 3>>

\* A client's byte stream, as the stack tells its bytes apart: frames of two
\* tokens, and a stream whose second prefix is above max_frame_size.
ClientFrame(m) ==
    <<[kind |-> "prefix", msg |-> m], [kind |-> "body", msg |-> m]>>
ClientStreams ==
    {ClientFrame(1) \o ClientFrame(2),
     ClientFrame(1) \o <<[kind |-> "big", msg |-> 0], [kind |-> "junk", msg |-> 0]>>}

\* A ring repaired in one constant: the program's HEADER_SIZE is 128, which
\* puts the data region on top of capacity and mask (SharedRing!HeaderIntact
\* shows it); the smallest that fits is 144.
RepairedHeaderSize == 144

Ring == INSTANCE SharedRing WITH
    HeaderSize <- RepairedHeaderSize, Capacity <- 8, Payloads <- {<<>>, <<7>>, <<9, 8, 7>>},
    MaxMsgs <- 5, head <- r_head, tail <- r_tail, mem <- r_mem,
    prod <- r_prod, cons <- r_cons, sent <- r_sent, rcvd <- r_rcvd

Tcp == INSTANCE TcpFraming WITH
    Backends <- {"tokio", "uring"}, Lengths <- {0, 2, 3, 4}, SendLimit <- 3,
    max_frame_size <- 2, MaxSends <- 2, MaxCancels <- 2, backend <- t_backend,
    messages <- t_messages, sender <- t_sender, stream <- t_stream,
    src <- t_src, recv <- t_recv, orphan <- t_orphan, got <- t_got,
    ended <- t_ended, lost <- t_lost, cancels <- t_cancels

Rdma == INSTANCE RdmaConnection WITH
    RECV_DEPTH <- 2, CQ_CAPACITY <- 4, MaxSendWr <- 2,
    SendLens <- RdmaSendLens, Frames <- RdmaFrames, pc <- q_pc, send_buf <- q_send_buf, sq <- q_sq,
    posted <- q_posted, recv_bufs <- q_recv_bufs, cq <- q_cq,
    pending_sends <- q_pending_sends, pending_recvs <- q_pending_recvs,
    qp <- q_qp, sends <- q_sends, arrived <- q_arrived, got <- q_got,
    wire <- q_wire, refused <- q_refused, unposted <- q_unposted

Setup == INSTANCE RdmaSetup WITH
    Peers <- {"p1", "p2"}, Clients <- {"k1"}, RecvMrs <- 2, heap <- h_heap,
    listener <- h_listener, conn <- h_conn, cm_events <- h_cm_events

Xdp == INSTANCE XdpUdp WITH
    Descs <- 1..6, BATCH_SIZE <- 2, Peers <- {"p1", "p2"}, MaxPackets <- 3,
    MaxSends <- 1, pc <- x_pc, free_descs <- x_free_descs, fill_q <- x_fill_q,
    tx_q <- x_tx_q, comp_q <- x_comp_q, rx_q <- x_rx_q,
    rx_scratch <- x_rx_scratch, tx_buf <- x_tx_buf, new_conns <- x_new_conns,
    processed <- x_processed, pending_conns <- x_pending_conns,
    connections <- x_connections, handle <- x_handle,
    pending_tx <- x_pending_tx, seen <- x_seen, got <- x_got, sent <- x_sent,
    leaked <- x_leaked, packets <- x_packets, sends <- x_sends

Smoltcp == INSTANCE SmoltcpStack WITH
    max_sessions <- 1, Streams <- ClientStreams, TxRoom <- 3,
    MaxConnects <- 2, MaxSends <- 2, listening <- k_listening,
    sessions <- k_sessions, connects <- k_connects, sends <- k_sends

Dpdk == INSTANCE DpdkTransport WITH
    Threads <- {"a", "b"}, Mbufs <- 3, MAX_BURST <- 2, MaxFrames <- 2,
    MaxBinds <- 2, MaxErrors <- 1, binder <- d_binder, eal <- d_eal,
    eal_inner <- d_eal_inner, ports <- d_ports, pool_owner <- d_pool_owner,
    binds <- d_binds, pc <- d_pc, mbufs <- d_mbufs, nb_rx <- d_nb_rx,
    tx_buf <- d_tx_buf, pending_conns <- d_pending_conns,
    yielded <- d_yielded, accepted <- d_accepted, frames <- d_frames,
    errors <- d_errors

ASSUME
    /\ Ring!SharedRingAssumption
    /\ Tcp!FramingAssumption
    /\ Rdma!RdmaAssumption
    /\ Xdp!XdpAssumption
    /\ Smoltcp!SmoltcpAssumption
    /\ Dpdk!DpdkAssumption

vars == <<running, channels, ring, tcp, rdma, setup, xdp, smoltcp, dpdk>>

Init ==
    /\ running \in Channels \cup {"ring", "tcp", "rdma", "setup", "xdp",
                "smoltcp", "dpdk"}
    /\ ChannelsInit
    /\ Ring!Init
    /\ Tcp!Init
    /\ Rdma!Init
    /\ Setup!Init
    /\ Xdp!Init
    /\ Smoltcp!Init
    /\ Dpdk!Init
    /\ running # "tcp" => t_backend = "tokio"

Next ==
    /\ UNCHANGED running
    /\ \/ ChannelsNext /\ UNCHANGED <<ring, tcp, rdma, setup, xdp, smoltcp, dpdk>>
       \/ /\ running = "ring" /\ Ring!Next
          /\ UNCHANGED <<channels, tcp, rdma, setup, xdp, smoltcp, dpdk>>
       \/ /\ running = "tcp" /\ Tcp!Next
          /\ UNCHANGED <<channels, ring, rdma, setup, xdp, smoltcp, dpdk>>
       \/ /\ running = "rdma" /\ Rdma!Next
          /\ UNCHANGED <<channels, ring, tcp, setup, xdp, smoltcp, dpdk>>
       \/ /\ running = "setup" /\ Setup!Next
          /\ UNCHANGED <<channels, ring, tcp, rdma, xdp, smoltcp, dpdk>>
       \/ /\ running = "xdp" /\ Xdp!Next
          /\ UNCHANGED <<channels, ring, tcp, rdma, setup, smoltcp, dpdk>>
       \/ /\ running = "smoltcp" /\ Smoltcp!Next
          /\ UNCHANGED <<channels, ring, tcp, rdma, setup, xdp, dpdk>>
       \/ /\ running = "dpdk" /\ Dpdk!Next
          /\ UNCHANGED <<channels, ring, tcp, rdma, setup, xdp, smoltcp>>

\* Each transport's own fairness, in the behaviours that run it.
Fairness ==
    LET In(transport, A) == running = transport /\ A
    IN /\ Oneshot!Fairness
       /\ WF_tcp(In("tcp", Tcp!RecvCalled \/ Tcp!RecvDecodes \/ Tcp!RecvReads \/ Tcp!RecvEof))
       /\ WF_tcp(In("tcp", Tcp!OrphanCompletes))
       /\ WF_rdma(In("rdma", Rdma!NicSend)) /\ WF_rdma(In("rdma", Rdma!DrainStep \/ Rdma!DrainEnds))
       /\ WF_setup(In("setup", Setup!AcceptCalled))
       /\ SF_setup(In("setup", Setup!AcceptEvent))
       /\ WF_smoltcp(In("smoltcp", Smoltcp!PollTimers))
       /\ WF_smoltcp(In("smoltcp", Smoltcp!Recv(1)))

Spec == Init /\ [][Next]_vars /\ Fairness

-----------------------------------------------------------------------------

\* Every variable keeps its type; every channel, ring and buffer pool stays
\* within its capacity.
TypeOK ==
    /\ ChannelsTypeOK /\ Ring!TypeOK /\ Rdma!TypeOK /\ Xdp!TypeOK
    /\ Smoltcp!SessionsBounded

\* Once its header is repaired (RepairedHeaderSize; the program's is not), the
\* writer of the shared-memory ring never writes a byte that the reader may be
\* reading.
NoDataRace == Ring!NoDataRace

\* Once its header is repaired (RepairedHeaderSize; the program's is not), the
\* shared-memory ring implements a FIFO queue of whole messages.
ImplementsFifo == Ring!ImplementsFifo

\* Every receive or send buffer is in exactly one place, and one that a fault
\* path loses is known to be lost: AF_XDP frames between the pool and the four
\* rings, RDMA receive buffers between the queue pair, the completion queue
\* and pending_recvs, DPDK mbufs between the pool, the burst and the port.
BuffersAccounted == Xdp!FramesAccounted /\ Rdma!BuffersAccounted /\ Dpdk!MbufsAccounted

\* What recv returns are the messages the peer sent, in order and once,
\* however the bytes were cut into reads, segments, packets or completions, and
\* the peer gets one frame per send.  The definitions name what the code does
\* lose: bytes of a read that io_uring finished for a dropped recv, a frame of
\* which smoltcp's socket took a part, a frame whose receive buffer could not
\* be posted again, and RDMA sends overtaken by the next one, whose frames
\* arrive damaged; the last send of a burst never does.
MessagesInOrder ==
    /\ Tcp!StreamInOrder
    /\ Xdp!UdpInOrder
    /\ Smoltcp!TcpInOrder /\ Smoltcp!WireWhole
    /\ Rdma!RecvInOrder /\ Rdma!LastSendWhole

\* The RDMA completion queue never overflows: send stops at the high-water
\* mark, which leaves room for a completion of every posted receive.
CqBounded == Rdma!CqBounded

\* Native resources have one owner: no RDMA object is released twice, out of
\* order or never, and no two listeners own the DPDK port, outside the paths
\* Setup!ReleasedOnce names.
ReleasedOnce == Setup!ReleasedOnce /\ Dpdk!OnePortOwner

\* Every wait ends: a oneshot's once its sender is used or dropped, a framed
\* recv's once the frame is on the stream, an RDMA send's while the adapter
\* works, an RDMA connection request's while the server accepts, a TCP recv's
\* over smoltcp once the connection was reset.
WaitsEnd ==
    /\ Oneshot!WaitEnds
    /\ Tcp!StreamDelivered
    /\ Rdma!SendReturns
    /\ Setup!RequestAnswered
    /\ Smoltcp!ResetEnds
=============================================================================
