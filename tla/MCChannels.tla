----------------------------- MODULE MCChannels -----------------------------
(* The five channels of ironsbe-channel for TLC.  They share nothing, so a *)
(* behaviour runs one of them, and the others stay in their initial states.*)
(* MCTransports adds what is built beside them.                            *)
EXTENDS Naturals, Sequences

CONSTANTS Senders, Receivers, Tasks, Values, Capacity,
          SpscItems, MpscItems, MaxSends, MaxWaiting, MaxCalls

VARIABLES
    running,  \* the channel of this behaviour
    s_ring, s_closed, s_sender, s_sent, s_receiver, s_received, s_probe,
    s_over,
    m_queue, m_alive, m_receiver, m_blocked, m_sent, m_received, m_probe,
    m_swallowed,
    b_buffer, b_sequence, b_published, b_closed, b_send, b_next_seq,
    b_first, b_got,
    n_notified, n_waker, n_task, n_returned, n_notifies, n_resets,
    o_value, o_waker, o_closed, o_sender, o_sent, o_refused, o_receiver,
    o_owner, o_taken, o_answer

spsc ==
    <<s_ring, s_closed, s_sender, s_sent, s_receiver, s_received, s_probe,
      s_over>>
mpsc ==
    <<m_queue, m_alive, m_receiver, m_blocked, m_sent, m_received, m_probe,
      m_swallowed>>
broadcast ==
    <<b_buffer, b_sequence, b_published, b_closed, b_send, b_next_seq,
      b_first, b_got>>
notifier ==
    <<n_notified, n_waker, n_task, n_returned, n_notifies, n_resets>>
oneshot ==
    <<o_value, o_waker, o_closed, o_sender, o_sent, o_refused, o_receiver,
      o_owner, o_taken, o_answer>>

Spsc == INSTANCE SpscChannel WITH
    MaxItems <- SpscItems, ring <- s_ring, closed <- s_closed, sender <- s_sender,
    sent <- s_sent, receiver <- s_receiver, received <- s_received,
    probe <- s_probe, over <- s_over

Mpsc == INSTANCE MpscChannel WITH
    MaxItems <- MpscItems, queue <- m_queue, alive <- m_alive,
    receiver <- m_receiver, blocked <- m_blocked, sent <- m_sent,
    received <- m_received, probe <- m_probe, swallowed <- m_swallowed

Broadcast == INSTANCE BroadcastChannel WITH
    buffer <- b_buffer, sequence <- b_sequence, published <- b_published,
    closed <- b_closed, send <- b_send, next_seq <- b_next_seq,
    first <- b_first, got <- b_got

Notifier == INSTANCE AsyncNotifier WITH
    notified <- n_notified, waker <- n_waker, task <- n_task,
    returned <- n_returned, notifies <- n_notifies, resets <- n_resets

Oneshot == INSTANCE AsyncOneshot WITH
    value <- o_value, waker <- o_waker, closed <- o_closed, sender <- o_sender,
    sent <- o_sent, refused <- o_refused, receiver <- o_receiver,
    owner <- o_owner, taken <- o_taken, answer <- o_answer

ASSUME
    /\ Spsc!SpscAssumption
    /\ Mpsc!MpscAssumption
    /\ Broadcast!BroadcastAssumption
    /\ Notifier!NotifierAssumption
    /\ Oneshot!OneshotAssumption

channels == <<spsc, mpsc, broadcast, notifier, oneshot>>

Channels == {"spsc", "mpsc", "broadcast", "notifier", "oneshot"}

ChannelsInit ==
    /\ Spsc!Init
    /\ Mpsc!Init
    /\ Broadcast!Init
    /\ Notifier!Init
    /\ Oneshot!Init
    /\ running # "oneshot" => o_owner = CHOOSE t \in Tasks : TRUE

ChannelsNext ==
    /\ UNCHANGED running
    /\ \/ /\ running = "spsc" /\ Spsc!Next
          /\ UNCHANGED <<mpsc, broadcast, notifier, oneshot>>
       \/ /\ running = "mpsc" /\ Mpsc!Next
          /\ UNCHANGED <<spsc, broadcast, notifier, oneshot>>
       \/ /\ running = "broadcast" /\ Broadcast!Next
          /\ UNCHANGED <<spsc, mpsc, notifier, oneshot>>
       \/ /\ running = "notifier" /\ Notifier!Next
          /\ UNCHANGED <<spsc, mpsc, broadcast, oneshot>>
       \/ /\ running = "oneshot" /\ Oneshot!Next
          /\ UNCHANGED <<spsc, mpsc, broadcast, notifier>>

-----------------------------------------------------------------------------

\* Every variable of every channel keeps its type, bounded channels their
\* capacity.
ChannelsTypeOK ==
    /\ Spsc!TypeOK /\ Mpsc!TypeOK /\ Broadcast!TypeOK
    /\ Notifier!TypeOK /\ Oneshot!TypeOK

\* No channel loses a message silently: SpscReceiver::is_connected is FALSE only
\* when everything was received, MPSC loses only what is_disconnected swallows,
\* and a broadcast receiver misses only what send evicted.
NoSilentLoss == Spsc!DisconnectIsDrained /\ Mpsc!NothingLost /\ Broadcast!NoSilentLoss

\* A waiting task is told the truth: AsyncNotifier::notify wakes the one that
\* waits, and OneshotReceiver::poll answers None only when no value can come.
WaitersToldTruth == Notifier!NotifyWakes /\ Oneshot!NoneIsHonest
=============================================================================
