---------------------------- MODULE LocalServer ----------------------------
(***************************************************************************)
(* The single-threaded server: ironsbe-server/src/local_builder.rs.        *)
(*                                                                         *)
(* The run loop and the session tasks share one thread and change places   *)
(* only at an await; a drain of the command channel has none, so no task   *)
(* moves while the loop drains.  The callers of the ServerHandle are on    *)
(* other threads.  There is no table of cancellation tokens or senders.    *)
(***************************************************************************)
EXTENDS Naturals, Sequences, FiniteSets

CONSTANTS
    Callers,          \* threads that hold the ServerHandle
    MaxConnections,   \* LocalServerBuilder::max_connections
    ChannelCapacity,  \* LocalServerBuilder::channel_capacity
    MaxSessions,      \* bound: connections accepted
    MaxCalls,         \* bound: calls on the handle
    MaxReplies        \* bound: messages the handlers send

LocalServerAssumption ==
    /\ {MaxConnections, ChannelCapacity, MaxSessions, MaxCalls, MaxReplies} \subseteq Nat

Ids == 1..MaxSessions

\* enum ServerCommand; a payload is not looked at.
Shutdown == <<"Shutdown", 0>>
CloseSession(s) == <<"CloseSession", s>>
Commands == {Shutdown, <<"Broadcast", 0>>} \cup {"CloseSession", "SendTo"} \X Ids

\* enum ServerEvent
Listening == <<"Listening", 0>>
Created(s) == <<"SessionCreated", s>>
Closed(s) == <<"SessionClosed", s>>
Events == {Listening} \cup {"SessionCreated", "SessionClosed"} \X Ids

VARIABLES
    loop,      \* run: "select", "drain" or "stopped"
    next_id,   \* SessionManager::next_id
    sessions,  \* SessionManager::sessions
    cmds,      \* the bounded command channel
    events,    \* the bounded event channel
    permit,    \* the permit stored in cmd_notify
    task,      \* per session: "none", "running", "sending" or "done"
    out,       \* per session, the messages waiting in the responder's channel
    replies,   \* how many messages the handlers sent
    call,      \* per caller: "idle" or "notify"
    calls,     \* calls made
    lost       \* history: sessions whose CloseSession found the channel full

traffic == <<out, replies>>
handle == <<call, calls>>
vars == <<loop, next_id, sessions, cmds, events, permit, task, traffic, handle, lost>>

Open(s) == task[s] \in {"running", "sending"}

\* Mutant of TrySend: the limit is off by one.
TrySendOneOver(q, e) == IF Len(q) <= ChannelCapacity THEN Append(q, e) ELSE q

\* MpscSender::try_send with the result discarded.
TrySend(q, e) == IF Len(q) < ChannelCapacity THEN Append(q, e) ELSE q

Init ==
    /\ loop = "select"
    /\ next_id = 1
    /\ sessions = {}
    /\ cmds = <<>>
    /\ events = TrySend(<<>>, Listening)
    /\ permit = FALSE
    /\ task = [s \in Ids |-> "none"]
    /\ out = [s \in Ids |-> 0]
    /\ replies = 0
    /\ call = [c \in Callers |-> "idle"]
    /\ calls = 0
    /\ lost = {}

-----------------------------------------------------------------------------
(* The run loop.                                                           *)

\* A connection is accepted and not rejected.
HandleConnection ==
    /\ loop = "select"
    /\ Cardinality(sessions) < MaxConnections
    /\ next_id \in Ids
    /\ next_id' = next_id + 1
    /\ sessions' = sessions \cup {next_id}
    /\ task' = [task EXCEPT ![next_id] = "running"]
    /\ events' = TrySend(events, Created(next_id))
    /\ UNCHANGED <<loop, cmds, permit, traffic, handle, lost>>

\* Mutant of Notified: the loop looks at commands only below the limit.
NotifiedBelowLimit ==
    /\ loop = "select"
    /\ permit
    /\ Cardinality(sessions) < MaxConnections
    /\ permit' = FALSE
    /\ loop' = "drain"
    /\ UNCHANGED <<next_id, sessions, cmds, events, task, traffic, handle, lost>>

Notified ==
    /\ loop = "select"
    /\ permit
    /\ permit' = FALSE
    /\ loop' = "drain"
    /\ UNCHANGED <<next_id, sessions, cmds, events, task, traffic, handle, lost>>

\* try_recv finds the channel empty.
Drained ==
    /\ loop = "drain"
    /\ cmds = <<>>
    /\ loop' = "select"
    /\ UNCHANGED <<next_id, sessions, cmds, events, permit, task, traffic, handle, lost>>

\* Mutant of HandleShutdown: the loop does not return.
HandleShutdownGoesOn ==
    /\ loop = "drain"
    /\ cmds # <<>> /\ Head(cmds) = Shutdown
    /\ cmds' = Tail(cmds)
    /\ UNCHANGED <<loop, next_id, sessions, events, permit, task, traffic, handle, lost>>

\* The loop returns; the spawned sessions stay.
HandleShutdown ==
    /\ loop = "drain"
    /\ cmds # <<>> /\ Head(cmds) = Shutdown
    /\ cmds' = Tail(cmds)
    /\ loop' = "stopped"
    /\ UNCHANGED <<next_id, sessions, events, permit, task, traffic, handle, lost>>

HandleCloseSession(s) ==
    /\ loop = "drain"
    /\ cmds # <<>> /\ Head(cmds) = CloseSession(s)
    /\ cmds' = Tail(cmds)
    /\ sessions' = sessions \ {s}
    /\ UNCHANGED <<loop, next_id, events, permit, task, traffic, handle, lost>>

\* Broadcast and SendTo do nothing.
HandlePush ==
    /\ loop = "drain"
    /\ cmds # <<>> /\ Head(cmds)[1] \in {"Broadcast", "SendTo"}
    /\ cmds' = Tail(cmds)
    /\ UNCHANGED <<loop, next_id, sessions, events, permit, task, traffic, handle, lost>>

HandleCommand == HandleShutdown \/ HandlePush \/ \E s \in Ids : HandleCloseSession(s)

-----------------------------------------------------------------------------
(* A session task.                                                         *)

\* The handler answers a message over its responder, with send or send_to:
\* both push to the one channel of this session.
Reply(s) ==
    /\ loop # "drain"
    /\ task[s] = "running"
    /\ replies < MaxReplies
    /\ replies' = replies + 1
    /\ out' = [out EXCEPT ![s] = @ + 1]
    /\ UNCHANGED <<loop, next_id, sessions, cmds, events, permit, task, handle, lost>>

\* rx.recv() has a message; the write to the peer begins.
TakeOutbound(s) ==
    /\ loop # "drain"
    /\ task[s] = "running"
    /\ out[s] > 0
    /\ task' = [task EXCEPT ![s] = "sending"]
    /\ UNCHANGED <<loop, next_id, sessions, cmds, events, permit, traffic, handle, lost>>

\* conn.send returned Ok.
SendDone(s) ==
    /\ loop # "drain"
    /\ task[s] = "sending"
    /\ task' = [task EXCEPT ![s] = "running"]
    /\ out' = [out EXCEPT ![s] = @ - 1]
    /\ UNCHANGED <<loop, next_id, sessions, cmds, events, permit, replies, handle, lost>>

\* The peer closes, a read fails, or a write fails: handle_local_session
\* returns and the task cleans up, without another await.
End(s) ==
    /\ loop # "drain"
    /\ Open(s)
    /\ task' = [task EXCEPT ![s] = "done"]
    /\ out' = [out EXCEPT ![s] = 0]
    /\ events' = TrySend(events, Closed(s))
    /\ cmds' = TrySend(cmds, CloseSession(s))
    /\ lost' = IF Len(cmds) < ChannelCapacity THEN lost ELSE lost \cup {s}
    /\ permit' = TRUE
    /\ UNCHANGED <<loop, next_id, sessions, replies, handle>>

-----------------------------------------------------------------------------
(* The ServerHandle.                                                       *)

\* try_send of a command; notify_one follows.
Call(c, cmd) ==
    /\ call[c] = "idle"
    /\ calls < MaxCalls
    /\ calls' = calls + 1
    /\ cmds' = TrySend(cmds, cmd)
    /\ call' = [call EXCEPT ![c] = "notify"]
    /\ UNCHANGED <<loop, next_id, sessions, events, permit, task, traffic, lost>>

CallNotify(c) ==
    /\ call[c] = "notify"
    /\ call' = [call EXCEPT ![c] = "idle"]
    /\ permit' = TRUE
    /\ UNCHANGED <<loop, next_id, sessions, cmds, events, task, traffic, calls, lost>>

PollEvents ==
    /\ events # <<>>
    /\ events' = Tail(events)
    /\ UNCHANGED <<loop, next_id, sessions, cmds, permit, task, traffic, handle, lost>>

Next ==
    \/ HandleConnection \/ Notified \/ Drained \/ HandleCommand
    \/ \E s \in Ids :
           Reply(s) \/ TakeOutbound(s) \/ SendDone(s) \/ End(s)
    \/ \E c \in Callers : CallNotify(c) \/ \E cmd \in Commands : Call(c, cmd)
    \/ PollEvents

Spec == Init /\ [][Next]_vars

\* The runtime polls the woken loop, a caller finishes its call, and the loop
\* gets through a drain.  Nothing is assumed of the peers.
Fairness ==
    /\ WF_vars(Notified)
    /\ WF_vars(Drained \/ HandleCommand)
    /\ \A c \in Callers : WF_vars(CallNotify(c))

FairSpec == Spec /\ Fairness

-----------------------------------------------------------------------------
(* Properties.                                                             *)

\* Every variable keeps its type; both channels respect their capacity and
\* the session table max_connections.
TypeOK ==
    /\ loop \in {"select", "drain", "stopped"}
    /\ next_id \in 1..(MaxSessions + 1)
    /\ sessions \in SUBSET Ids /\ Cardinality(sessions) <= MaxConnections
    /\ cmds \in Seq(Commands) /\ Len(cmds) <= ChannelCapacity
    /\ events \in Seq(Events) /\ Len(events) <= ChannelCapacity
    /\ permit \in BOOLEAN
    /\ task \in [Ids -> {"none", "running", "sending", "done"}]
    /\ out \in [Ids -> 0..MaxReplies]
    /\ replies \in 0..MaxReplies
    /\ call \in [Callers -> {"idle", "notify"}]
    /\ calls \in 0..MaxCalls
    /\ lost \in SUBSET Ids

\* A Shutdown that entered the channel stops the loop.
ShutdownStops == (\E i \in DOMAIN cmds : cmds[i] = Shutdown) ~> (loop = "stopped")

\* A session that ended gives its slot back, unless the loop stopped or the
\* channel was full.
SlotReclaimed ==
    \A s \in Ids :
        (task[s] = "done") ~> (s \notin sessions \/ s \in lost \/ loop = "stopped")

\* What the builder says of max_connections: "the maximum number of
\* concurrent sessions".  CloseSession frees the slot and leaves the session.
ConcurrentBound == Cardinality({s \in Ids : Open(s)}) <= MaxConnections
=============================================================================
