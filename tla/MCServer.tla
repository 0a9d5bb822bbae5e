------------------------------ MODULE MCServer ------------------------------
(***************************************************************************)
(* Two instances of Server for TLC, one behaviour of one of them: Server   *)
(* itself with two callers, several sessions in sequence and shutdown, and *)
(* Order with two messages on their way to two sessions at once.           *)
(***************************************************************************)
EXTENDS Server, TLC

CONSTANTS
    OrderCallers, OrderMsgs, OrderConnections, OrderCapacity, OrderSessions

VARIABLES
    running,  \* which instance this behaviour is of
    o_loop, o_next_id, o_sessions, o_session_tokens, o_session_senders,
    o_shutdown_token, o_cancelled, o_cmds, o_events, o_permit, o_task,
    o_out, o_flight, o_wire, o_call, o_calls, o_unsent, o_lost

Order == INSTANCE Server WITH
    Callers <- OrderCallers, Msgs <- OrderMsgs,
    MaxConnections <- OrderConnections, ChannelCapacity <- OrderCapacity,
    MaxSessions <- OrderSessions, MaxCalls <- 0,
    loop <- o_loop, next_id <- o_next_id, sessions <- o_sessions,
    session_tokens <- o_session_tokens, session_senders <-
    o_session_senders, shutdown_token <- o_shutdown_token, cancelled <-
    o_cancelled, cmds <- o_cmds, events <- o_events, permit <- o_permit,
    task <- o_task, out <- o_out, flight <- o_flight, wire <- o_wire, call
    <- o_call, calls <- o_calls, unsent <- o_unsent, lost <- o_lost

ASSUME Order!ServerAssumption

order ==
    <<o_loop, o_next_id, o_sessions, o_session_tokens, o_session_senders,
      o_shutdown_token, o_cancelled, o_cmds, o_events, o_permit, o_task,
      o_out, o_flight, o_wire, o_call, o_calls, o_unsent, o_lost>>

MCVars == <<running, vars, order>>

MCInit == running \in {"control", "order"} /\ Init /\ Order!Init

MCNext ==
    /\ UNCHANGED running
    /\ \/ running = "control" /\ Next /\ UNCHANGED order
       \/ running = "order" /\ Order!Next /\ UNCHANGED vars

MCSpec == MCInit /\ [][MCNext]_MCVars

\* Callers and payloads are only compared for equality.
Symmetry == Permutations(Callers) \cup Permutations(OrderMsgs)

-----------------------------------------------------------------------------
\* Two broadcasts reach every two peers that get both in the same order, and no
\* message (broadcast, send_to or handler's reply) is queued or written twice
\* for one peer.
DeliveryOrder == Order!OneOrder
=============================================================================
