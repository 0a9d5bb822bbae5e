------------------------------- MODULE Server -------------------------------
(***************************************************************************)
(* The multi-threaded server: ironsbe-server/src/builder.rs over           *)
(* ironsbe-server/src/session.rs.                                          *)
(*                                                                         *)
(* Three kinds of actor run concurrently:                                  *)
(*   - the run loop (Server::run), which accepts connections and, when     *)
(*     cmd_notify fires, drains the bounded command channel;               *)
(*   - one spawned task per session (handle_session and the cleanup that   *)
(*     follows it in the spawned closure);                                 *)
(*   - the callers of a ServerHandle, each of whose calls is a try_send    *)
(*     followed by a notify_one, two steps another actor may separate.     *)
(*                                                                         *)
(* tokio's Notify is one stored permit; a CancellationToken is the set     *)
(* of cancelled children plus the parent flag; a session's unbounded       *)
(* outbound channel is a sequence that is closed when the task drops its   *)
(* receiver.  An action that leaves every variable unchanged in the code   *)
(* (a rejected connection, an accept error, a message the handler does not *)
(* answer, a send_to an unknown session) is a stuttering step and is not   *)
(* written.                                                                *)
(***************************************************************************)
EXTENDS Naturals, Sequences, FiniteSets

CONSTANTS
    Callers,          \* threads that hold the ServerHandle
    Msgs,             \* payloads; each is issued at most once
    MaxConnections,   \* ServerBuilder::max_connections
    ChannelCapacity,  \* ServerBuilder::channel_capacity, of both channels
    MaxSessions,      \* bound: connections accepted in a behaviour
    MaxCalls          \* bound: shutdown and close_session calls

ASSUME ServerAssumption ==
    /\ MaxConnections \in Nat
    /\ ChannelCapacity \in Nat
    /\ MaxSessions \in Nat
    /\ MaxCalls \in Nat

\* Session ids are handed out from 1 by SessionManager::create_session.
Ids == 1..MaxSessions

\* enum ServerCommand
Shutdown == [op |-> "Shutdown"]
CloseSession(s) == [op |-> "CloseSession", id |-> s]
Broadcast(m) == [op |-> "Broadcast", msg |-> m]
SendTo(s, m) == [op |-> "SendTo", id |-> s, msg |-> m]

Commands ==
    {Shutdown}
    \cup {CloseSession(s) : s \in Ids}
    \cup {Broadcast(m) : m \in Msgs}
    \cup {SendTo(s, m) : s \in Ids, m \in Msgs}

\* enum ServerEvent
Created(s) == <<"SessionCreated", s>>
Closed(s) == <<"SessionClosed", s>>
Listening == <<"Listening", 0>>

Events == {Listening} \cup {"SessionCreated", "SessionClosed"} \X Ids

VARIABLES
    loop,        \* run loop: in its select!, draining commands, or returned
    next_id,     \* SessionManager::next_id
    sessions,    \* SessionManager::sessions, the occupied slots
    session_tokens,   \* ids with an entry in session_tokens
    session_senders,  \* ids with an entry in session_senders
    shutdown_token,   \* the parent token is cancelled
    cancelled,        \* ids whose child token was cancelled on its own
    cmds,        \* the bounded command channel
    events,      \* the bounded event channel
    permit,      \* the permit stored in cmd_notify
    task,        \* where each session's spawned task is
    out,         \* each session's outbound channel
    flight,      \* the message a task is writing, as a sequence of length <= 1
    wire,        \* history: what was written to each peer
    call,        \* where each caller is in a ServerHandle call
    calls,       \* how many shutdown and close_session calls were made
    unsent,      \* payloads not yet issued
    lost         \* history: ids whose own CloseSession found the channel full

registry == <<next_id, sessions, session_tokens, session_senders,
              shutdown_token, cancelled>>
traffic == <<out, flight, wire>>
handle == <<call, calls, unsent>>
vars == <<loop, registry, cmds, events, permit, task, traffic, handle, lost>>

TaskStates == {"none", "running", "sending", "returned", "ended",
               "signalled", "done"}

\* The task still owns the connection and the receiving half of `out`.
Open(s) == task[s] \in {"running", "sending"}

\* session_token.cancelled(): the child or its parent was cancelled.
Cancelled(s) == shutdown_token \/ s \in cancelled

\* Mutant: a channel that holds one element too many.
TrySendOffByOne(q, e) == IF Len(q) <= ChannelCapacity THEN Append(q, e) ELSE q

\* crossbeam's try_send on a channel that still has its receiver.
TrySend(q, e) == IF Len(q) < ChannelCapacity THEN Append(q, e) ELSE q

\* Mutant: the newest message overtakes the queue.
PushFront(S, m) ==
    out' = [s \in Ids |-> IF s \in S /\ Open(s) THEN <<m>> \o out[s] ELSE out[s]]

\* sender.send(message) for each session of S whose receiver is alive.
Push(S, m) ==
    out' = [s \in Ids |-> IF s \in S /\ Open(s) THEN Append(out[s], m) ELSE out[s]]

Init ==
    /\ loop = "select"
    /\ next_id = 1
    /\ sessions = {}
    /\ session_tokens = {}
    /\ session_senders = {}
    /\ shutdown_token = FALSE
    /\ cancelled = {}
    /\ cmds = <<>>
    /\ events = TrySend(<<>>, Listening)
    /\ permit = FALSE
    /\ task = [s \in Ids |-> "none"]
    /\ out = [s \in Ids |-> <<>>]
    /\ flight = [s \in Ids |-> <<>>]
    /\ wire = [s \in Ids |-> <<>>]
    /\ call = [c \in Callers |-> "idle"]
    /\ calls = 0
    /\ unsent = Msgs
    /\ lost = {}

-----------------------------------------------------------------------------
(* The run loop.                                                           *)

\* Mutant: `>` instead of `>=` in the max_connections check.
HandleConnectionOneOver ==
    /\ loop = "select"
    /\ Cardinality(sessions) <= MaxConnections
    /\ next_id \in Ids
    /\ next_id' = next_id + 1
    /\ sessions' = sessions \cup {next_id}
    /\ session_tokens' = session_tokens \cup {next_id}
    /\ session_senders' = session_senders \cup {next_id}
    /\ events' = TrySend(events, Created(next_id))
    /\ task' = [task EXCEPT ![next_id] = "running"]
    /\ UNCHANGED <<loop, shutdown_token, cancelled, cmds, permit, traffic,
                   handle, lost>>

\* The accept branch: handle_connection when a slot is free.
HandleConnection ==
    /\ loop = "select"
    /\ Cardinality(sessions) < MaxConnections
    /\ next_id \in Ids
    /\ next_id' = next_id + 1
    /\ sessions' = sessions \cup {next_id}
    /\ session_tokens' = session_tokens \cup {next_id}
    /\ session_senders' = session_senders \cup {next_id}
    /\ events' = TrySend(events, Created(next_id))
    /\ task' = [task EXCEPT ![next_id] = "running"]
    /\ UNCHANGED <<loop, shutdown_token, cancelled, cmds, permit, traffic,
                   handle, lost>>

\* The cmd_notify.notified() branch consumes the permit and starts to drain.
Notified ==
    /\ loop = "select"
    /\ permit
    /\ permit' = FALSE
    /\ loop' = "drain"
    /\ UNCHANGED <<registry, cmds, events, task, traffic, handle, lost>>

\* Mutant: one command per notification, `if let` for `while let`.
DrainOne ==
    /\ loop = "drain"
    /\ loop' = "select"
    /\ UNCHANGED <<registry, cmds, events, permit, task, traffic, handle, lost>>

\* try_recv finds the channel empty: back to the select!.
Drained ==
    /\ loop = "drain"
    /\ cmds = <<>>
    /\ loop' = "select"
    /\ UNCHANGED <<registry, cmds, events, permit, task, traffic, handle, lost>>

\* try_recv returned the command at the head of the channel.
Receive(op) ==
    /\ loop = "drain"
    /\ cmds # <<>>
    /\ Head(cmds).op = op
    /\ cmds' = Tail(cmds)

\* Mutant: Shutdown forgets to cancel the parent token.
HandleShutdownNoCancel ==
    /\ Receive("Shutdown")
    /\ loop' = "stopped"
    /\ session_tokens' = {}
    /\ session_senders' = {}
    /\ UNCHANGED <<next_id, sessions, shutdown_token, cancelled, events, permit,
                   task, traffic, handle, lost>>

HandleShutdown ==
    /\ Receive("Shutdown")
    /\ loop' = "stopped"
    /\ shutdown_token' = TRUE
    /\ session_tokens' = {}
    /\ session_senders' = {}
    /\ UNCHANGED <<next_id, sessions, cancelled, events, permit, task, traffic,
                   handle, lost>>

\* Mutant: CloseSession drops the token without cancelling it.
HandleCloseNoCancel ==
    /\ Receive("CloseSession")
    /\ LET s == Head(cmds).id IN
          /\ session_tokens' = session_tokens \ {s}
          /\ session_senders' = session_senders \ {s}
          /\ sessions' = sessions \ {s}
    /\ UNCHANGED <<loop, next_id, shutdown_token, cancelled, events, permit, task,
                   traffic, handle, lost>>

\* Mutant: the run loop announces SessionClosed itself, before the task ends.
HandleCloseAnnounces ==
    /\ Receive("CloseSession")
    /\ LET s == Head(cmds).id IN
          /\ cancelled' = cancelled \cup ({s} \cap session_tokens)
          /\ session_tokens' = session_tokens \ {s}
          /\ session_senders' = session_senders \ {s}
          /\ sessions' = sessions \ {s}
          /\ events' = TrySend(events, Closed(s))
    /\ UNCHANGED <<loop, next_id, shutdown_token, permit, task, traffic, handle,
                   lost>>

HandleCloseSession ==
    /\ Receive("CloseSession")
    /\ LET s == Head(cmds).id IN
          /\ cancelled' = cancelled \cup ({s} \cap session_tokens)
          /\ session_tokens' = session_tokens \ {s}
          /\ session_senders' = session_senders \ {s}
          /\ sessions' = sessions \ {s}
    /\ UNCHANGED <<loop, next_id, shutdown_token, events, permit, task, traffic,
                   handle, lost>>

\* retain drops the senders whose receiver is gone.  One step: the write lock
\* excludes send_to, and a task that replies to itself or exits between two
\* pushes does what it could do before or after all of them.
HandleBroadcast ==
    /\ Receive("Broadcast")
    /\ Push(session_senders, Head(cmds).msg)
    /\ session_senders' = {s \in session_senders : Open(s)}
    /\ UNCHANGED <<loop, next_id, sessions, session_tokens, shutdown_token,
                   cancelled, events, permit, task, flight, wire, handle, lost>>

HandleSendTo ==
    /\ Receive("SendTo")
    /\ LET s == Head(cmds).id IN
          /\ Push({s} \cap session_senders, Head(cmds).msg)
          /\ session_senders' = {t \in session_senders : t = s => Open(t)}
    /\ UNCHANGED <<loop, next_id, sessions, session_tokens, shutdown_token,
                   cancelled, events, permit, task, flight, wire, handle, lost>>

RunLoop ==
    \/ HandleConnection
    \/ Notified
    \/ Drained
    \/ HandleShutdown
    \/ HandleCloseSession
    \/ HandleBroadcast
    \/ HandleSendTo

-----------------------------------------------------------------------------
(* A session's spawned task.                                               *)

TaskStep(s, from, to) ==
    /\ task[s] = from
    /\ task' = [task EXCEPT ![s] = to]

\* on_message answers through SessionResponder::send, the task's own sender.
Reply(s, m) ==
    /\ task[s] = "running"
    /\ m \in unsent
    /\ unsent' = unsent \ {m}
    /\ Push({s}, m)
    /\ UNCHANGED <<loop, registry, cmds, events, permit, task, flight, wire,
                   call, calls, lost>>

\* on_message calls SessionResponder::send_to for a session in the registry.
ReplyTo(s, t, m) ==
    /\ task[s] = "running"
    /\ t \in session_senders
    /\ m \in unsent
    /\ unsent' = unsent \ {m}
    /\ Push({t}, m)
    /\ UNCHANGED <<loop, registry, cmds, events, permit, task, flight, wire,
                   call, calls, lost>>

\* out_rx.recv() won the select!: the task is committed to conn.send.
TakeOutbound(s) ==
    /\ TaskStep(s, "running", "sending")
    /\ out[s] # <<>>
    /\ out' = [out EXCEPT ![s] = Tail(@)]
    /\ flight' = [flight EXCEPT ![s] = <<Head(out[s])>>]
    /\ UNCHANGED <<loop, registry, cmds, events, permit, wire, handle, lost>>

\* conn.send completed; nothing makes a stalled peer read.
SendDone(s) ==
    /\ TaskStep(s, "sending", "running")
    /\ wire' = [wire EXCEPT ![s] = @ \o flight[s]]
    /\ flight' = [flight EXCEPT ![s] = <<>>]
    /\ UNCHANGED <<loop, registry, cmds, events, permit, out, handle, lost>>

\* handle_session returns: the connection and both queue halves are dropped.
Return(s, from) ==
    /\ TaskStep(s, from, "returned")
    /\ out' = [out EXCEPT ![s] = <<>>]
    /\ flight' = [flight EXCEPT ![s] = <<>>]
    /\ UNCHANGED <<loop, registry, cmds, events, permit, wire, handle, lost>>

\* recv returned None or an error.
PeerGone(s) == Return(s, "running")

\* conn.send failed.
SendFailed(s) == Return(s, "sending")

\* The cancelled() branch of the outer select!.
CancelIdle(s) == Cancelled(s) /\ Return(s, "running")

\* Mutant: a plain conn.send(&msg).await, not raced against the token.
NoCancelMidSend(s) == FALSE /\ Return(s, "sending")

\* The cancelled() branch of the select! around conn.send.
CancelMidSend(s) == Cancelled(s) /\ Return(s, "sending")

\* on_session_end and the SessionClosed event.
EndSession(s) ==
    /\ TaskStep(s, "returned", "ended")
    /\ events' = TrySend(events, Closed(s))
    /\ UNCHANGED <<loop, registry, cmds, permit, traffic, handle, lost>>

\* Mutant: the task ends without asking for its slot to be freed.
SignalNothing(s) ==
    /\ TaskStep(s, "ended", "signalled")
    /\ UNCHANGED <<loop, registry, cmds, events, permit, traffic, handle, lost>>

\* Mutant: the task announces the end a second time when it asks for its
\* slot to be freed.
SignalCloseAnnounces(s) ==
    /\ TaskStep(s, "ended", "signalled")
    /\ cmds' = TrySend(cmds, CloseSession(s))
    /\ events' = TrySend(events, Closed(s))
    /\ lost' = IF Len(cmds) < ChannelCapacity THEN lost ELSE lost \cup {s}
    /\ UNCHANGED <<loop, registry, permit, traffic, handle>>

\* try_send(CloseSession(session_id)), whose result is discarded.
SignalClose(s) ==
    /\ TaskStep(s, "ended", "signalled")
    /\ cmds' = TrySend(cmds, CloseSession(s))
    /\ lost' = IF Len(cmds) < ChannelCapacity THEN lost ELSE lost \cup {s}
    /\ UNCHANGED <<loop, registry, events, permit, traffic, handle>>

\* Mutant: the notify_one after the task's try_send is missing.
NotifyNobody(s) ==
    /\ TaskStep(s, "signalled", "done")
    /\ UNCHANGED <<loop, registry, cmds, events, permit, traffic, handle, lost>>

\* cmd_notify.notify_one(), the task's last step.
NotifyClose(s) ==
    /\ TaskStep(s, "signalled", "done")
    /\ permit' = TRUE
    /\ UNCHANGED <<loop, registry, cmds, events, traffic, handle, lost>>

\* The steps a task takes of its own accord, whatever its peer does.
Teardown(s) ==
    \/ CancelIdle(s)
    \/ CancelMidSend(s)
    \/ EndSession(s)
    \/ SignalClose(s)
    \/ NotifyClose(s)

Task(s) ==
    \/ \E m \in Msgs : Reply(s, m)
    \/ \E t \in Ids, m \in Msgs : ReplyTo(s, t, m)
    \/ TakeOutbound(s)
    \/ SendDone(s)
    \/ PeerGone(s)
    \/ SendFailed(s)
    \/ Teardown(s)

-----------------------------------------------------------------------------
(* The ServerHandle.                                                       *)

\* The try_send of a handle call; a full channel drops the command.
Issue(c, cmd) ==
    /\ call[c] = "idle"
    /\ call' = [call EXCEPT ![c] = "notify"]
    /\ cmds' = TrySend(cmds, cmd)
    /\ UNCHANGED <<loop, registry, events, permit, task, traffic, lost>>

CallShutdown(c) ==
    /\ calls < MaxCalls
    /\ calls' = calls + 1
    /\ UNCHANGED unsent
    /\ Issue(c, Shutdown)

CallCloseSession(c, s) ==
    /\ calls < MaxCalls
    /\ calls' = calls + 1
    /\ UNCHANGED unsent
    /\ Issue(c, CloseSession(s))

CallBroadcast(c, m) ==
    /\ m \in unsent
    /\ unsent' = unsent \ {m}
    /\ UNCHANGED calls
    /\ Issue(c, Broadcast(m))

CallSendTo(c, s, m) ==
    /\ m \in unsent
    /\ unsent' = unsent \ {m}
    /\ UNCHANGED calls
    /\ Issue(c, SendTo(s, m))

\* The notify_one that ends every handle call.
CallNotify(c) ==
    /\ call[c] = "notify"
    /\ call' = [call EXCEPT ![c] = "idle"]
    /\ permit' = TRUE
    /\ UNCHANGED <<loop, registry, cmds, events, task, traffic, calls, unsent,
                   lost>>

\* One step of the iterator poll_events returns.
PollEvents ==
    /\ events # <<>>
    /\ events' = Tail(events)
    /\ UNCHANGED <<loop, registry, cmds, permit, task, traffic, handle, lost>>

Caller(c) ==
    \/ CallShutdown(c)
    \/ \E s \in Ids : CallCloseSession(c, s)
    \/ \E m \in Msgs : CallBroadcast(c, m)
    \/ \E s \in Ids, m \in Msgs : CallSendTo(c, s, m)
    \/ CallNotify(c)

Next ==
    \/ RunLoop
    \/ \E s \in Ids : Task(s)
    \/ \E c \in Callers : Caller(c)
    \/ PollEvents

Spec == Init /\ [][Next]_vars

(***************************************************************************)
(* Fairness.  The runtime polls a woken future: the loop consumes a permit *)
(* and finishes a drain, a task that was cancelled or has returned reaches *)
(* the end of its closure, and a handle call that pushed its command goes  *)
(* on to notify.  Nothing is assumed of peers: no message arrives, no      *)
(* write completes and no connection closes because of fairness.           *)
(***************************************************************************)
Fairness ==
    /\ WF_vars(Notified)
    /\ WF_vars(Drained \/ HandleShutdown \/ HandleCloseSession
               \/ HandleBroadcast \/ HandleSendTo)
    /\ \A s \in Ids : WF_vars(Teardown(s))
    /\ \A c \in Callers : WF_vars(CallNotify(c))

FairSpec == Spec /\ Fairness

-----------------------------------------------------------------------------
(* Properties.                                                             *)

\* Every variable keeps its type; both channels respect their capacity.
TypeOK ==
    /\ loop \in {"select", "drain", "stopped"}
    /\ next_id \in 1..(MaxSessions + 1)
    /\ sessions \in SUBSET Ids
    /\ session_tokens \in SUBSET Ids
    /\ session_senders \in SUBSET Ids
    /\ shutdown_token \in BOOLEAN
    /\ cancelled \in SUBSET Ids
    /\ cmds \in Seq(Commands) /\ Len(cmds) <= ChannelCapacity
    /\ events \in Seq(Events) /\ Len(events) <= ChannelCapacity
    /\ permit \in BOOLEAN
    /\ task \in [Ids -> TaskStates]
    /\ out \in [Ids -> Seq(Msgs)]
    /\ flight \in [Ids -> Seq(Msgs)]
    /\ wire \in [Ids -> Seq(Msgs)]
    /\ call \in [Callers -> {"idle", "notify"}]
    /\ calls \in 0..MaxCalls
    /\ unsent \in SUBSET Msgs
    /\ lost \in SUBSET Ids

\* A queued command is never stranded: while the run loop has not returned,
\* either it is draining, or a permit is stored, or an actor that pushed a
\* command has yet to call notify_one.
NoLostWakeup ==
    (cmds # <<>> /\ loop = "select") =>
        \/ permit
        \/ \E s \in Ids : task[s] = "signalled"
        \/ \E c \in Callers : call[c] = "notify"

\* The three tables of the run loop agree.  Until Shutdown the token map has
\* exactly the sessions of the SessionManager, so every slot can be cancelled;
\* a session is reachable by Broadcast and send_to only while it may still be
\* cancelled.  Every session whose task still owns its connection and has not
\* been told to stop is in all of them, and so is never missed by a broadcast
\* nor out of reach of close_session.
RegistryAgrees ==
    /\ loop # "stopped" => session_tokens = sessions
    /\ session_senders \subseteq session_tokens
    /\ \A s \in Ids : s \in session_tokens => ~Cancelled(s)
    /\ \A s \in Ids : (Open(s) /\ ~Cancelled(s)) => s \in session_senders

\* max_connections bounds the connections that have not been told to close,
\* also while tasks whose slot was freed by close_session are tearing down.
ConnectionBound ==
    Cardinality({s \in Ids : Open(s) /\ ~Cancelled(s)}) <= MaxConnections

\* The slot of a session whose task is over is on its way back: its
\* CloseSession is in the channel, unless the full channel refused it.
SlotAccounted ==
    \A s \in Ids :
        (task[s] \in {"signalled", "done"} /\ s \in sessions /\ s \notin lost
         /\ loop # "stopped")
        => \E i \in DOMAIN cmds : cmds[i] = CloseSession(s)

\* Where in a queue a payload is.
Before(q, a, b) ==
    \E i, j \in DOMAIN q : i < j /\ q[i] = a /\ q[j] = b

\* All that was ever queued for s and not discarded, oldest first.
Path(s) == wire[s] \o flight[s] \o out[s]

\* Peers see messages in one order. A message is what one call issues, so a
\* broadcast is the only message two peers both get: two broadcasts are queued
\* and written in the same order for every two peers that get both. Of one peer
\* (s = t, a = b) it says that no message, be it a broadcast, a send_to or a
\* handler's reply, is queued or written twice. It says nothing of
\* equal bytes: two handlers that each relay the same two payloads by send_to
\* issue four messages, which may reach two peers in different orders.
OneOrder ==
    \A s, t \in Ids : \A a, b \in Msgs :
        Before(Path(s), a, b) => ~Before(Path(t), b, a)

\* The handle learns of a session's end only after its connection is gone, and
\* the event channel never holds anything more about that session behind it:
\* neither its start, nor its end a second time. (A SessionCreated that met a
\* full channel is dropped, so the end may be all the handle learns.)
EventsTruthful ==
    \A i \in DOMAIN events : \A s \in Ids :
        events[i] = Closed(s) =>
            /\ task[s] \in {"ended", "signalled", "done"}
            /\ \A j \in DOMAIN events : j > i => events[j] \notin {Created(s), Closed(s)}

\* A session that was cancelled, by close_session or by shutdown, ends even
\* when its peer has stopped reading and a write is in progress.
CancelledEnds ==
    \A s \in Ids : (Open(s) /\ Cancelled(s)) ~> (task[s] = "done")

\* A Shutdown that entered the channel stops the loop and ends every session.
ShutdownCompletes ==
    (\E i \in DOMAIN cmds : cmds[i] = Shutdown) ~>
        (loop = "stopped" /\ \A s \in Ids : task[s] \in {"none", "done"})

\* A session that ended gives its slot back to max_connections, unless the
\* server stopped or the channel was full when the task signalled.
SlotReclaimed ==
    \A s \in Ids :
        (task[s] = "done") ~> (s \notin sessions \/ s \in lost \/ loop = "stopped")
=============================================================================
