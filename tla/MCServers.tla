------------------------------ MODULE MCServers ------------------------------
(***************************************************************************)
(* The two servers, checked together for what must eventually happen: the  *)
(* multi-threaded Server and the single-threaded LocalServer.  They share  *)
(* no state, so a behaviour runs one of them and leaves the other in its   *)
(* initial state.                                                          *)
(***************************************************************************)
EXTENDS Server

CONSTANTS
    LocalCallers,   \* LocalServer's constants, where its instance differs
    LocalCapacity,
    LocalCalls,
    MaxReplies

VARIABLES
    running,  \* which server this behaviour runs
    l_loop, l_next_id, l_sessions, l_cmds, l_events, l_permit, l_task, l_out,
    l_replies, l_call, l_calls, l_lost

Local == INSTANCE LocalServer WITH
    Callers <- LocalCallers, ChannelCapacity <- LocalCapacity, MaxCalls <- LocalCalls,
    loop <- l_loop, next_id <- l_next_id, sessions <- l_sessions, cmds <- l_cmds,
    events <- l_events, permit <- l_permit, task <- l_task, out <- l_out,
    replies <- l_replies, call <- l_call, calls <- l_calls, lost <- l_lost

ASSUME Local!LocalServerAssumption

local == <<l_loop, l_next_id, l_sessions, l_cmds, l_events, l_permit, l_task,
           l_out, l_replies, l_call, l_calls, l_lost>>

ServersInit == running \in {"server", "local"} /\ Init /\ Local!Init

ServersNext ==
    /\ running' = running
    /\ \/ running = "server" /\ Next /\ UNCHANGED local
       \/ running = "local" /\ Local!Next /\ UNCHANGED vars

\* Each server's own fairness, in the behaviours that run it.
ServersFairness ==
    LET In(server, A) == running = server /\ A
    IN /\ WF_vars(In("server", Notified))
       /\ WF_vars(In("server", Drained \/ HandleShutdown \/ HandleCloseSession
                                \/ HandleBroadcast \/ HandleSendTo))
       /\ \A s \in Ids : WF_vars(In("server", Teardown(s)))
       /\ \A c \in Callers : WF_vars(In("server", CallNotify(c)))
       /\ WF_local(In("local", Local!Notified))
       /\ WF_local(In("local", Local!Drained \/ Local!HandleCommand))
       /\ \A c \in LocalCallers : WF_local(In("local", Local!CallNotify(c)))

ServersSpec ==
    ServersInit /\ [][ServersNext]_<<running, vars, local>> /\ ServersFairness

\* Every variable of the two servers keeps its type, every channel respects
\* its capacity, and the single-threaded session table max_connections.
TypesOK == TypeOK /\ Local!TypeOK

\* A Shutdown that entered the channel stops the run loop, and in the
\* multi-threaded server ends every session.
ShutdownEnds == ShutdownCompletes /\ Local!ShutdownStops

\* A session that ended gives its slot back to max_connections, unless the
\* server stopped or the channel was full when the task signalled.
SlotsReclaimed == SlotReclaimed /\ Local!SlotReclaimed
=============================================================================
