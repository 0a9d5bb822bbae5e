------------------------------- MODULE Client -------------------------------
(***************************************************************************)
(* The client: ironsbe-client/src/builder.rs with reconnect.rs and         *)
(* session.rs.  LocalClient (local_builder.rs) has the same control flow   *)
(* and the same handle.                                                    *)
(*                                                                         *)
(* Two actors: the client task (run, connect_and_run) and the one holder   *)
(* of the ClientHandle, which is used through &mut self.  They share two   *)
(* bounded SPSC channels, each paired with a Notify that stores at most    *)
(* one permit.  A push and the notify_one after it are two steps.          *)
(*                                                                         *)
(* Durations are whole numbers of a time unit and the backoff multiplier   *)
(* is a whole number, so the delays are exact.                             *)
(***************************************************************************)
EXTENDS Naturals, Sequences

CONSTANTS
    Msgs,             \* payloads the handle sends, each at most once
    ChannelCapacity,  \* ClientBuilder::channel_capacity, of both channels
    Configs,          \* the ReconnectConfigs a client may be built with
    MaxCounted,       \* bound: failures counted in a row when not limited
    MaxInbound        \* bound: messages received from the server

ASSUME ClientAssumption ==
    /\ ChannelCapacity \in Nat
    /\ \A c \in Configs :
           /\ c.enabled \in BOOLEAN
           /\ c.max_attempts \in Nat  \* 0 for unlimited
           /\ c.initial_delay \in Nat
           /\ c.max_delay \in Nat
           /\ c.backoff_multiplier \in Nat \ {0}
    /\ MaxCounted \in Nat
    /\ MaxInbound \in Nat

\* enum ClientCommand
Disconnect == [op |-> "Disconnect"]
Send(m) == [op |-> "Send", msg |-> m]
Commands == {Disconnect} \cup {Send(m) : m \in Msgs}

\* enum ClientEvent, payloads left out
Events == {"Connected", "Disconnected", "Message"}

VARIABLES
    config,       \* the ReconnectConfig
    phase,        \* where the client task is
    announce,     \* the task pushed an event and owes event_notify a call
    cmds,         \* the command channel
    cmd_permit,   \* the permit stored in cmd_notify
    events,       \* the event channel
    event_permit, \* the permit stored in event_notify
    attempts,     \* ReconnectState::attempts
    current_delay,\* ReconnectState::current_delay
    slept,        \* the delay on_failure returned last
    handle,       \* where the handle's holder is
    flight,       \* the message being written, as a sequence of length <= 1
    wire,         \* history: messages written to the server, oldest first
    accepted,     \* history: messages for which send returned Ok
    failed,       \* history: messages whose write failed
    reconnects,   \* history: connects begun since the last success, the
                  \* first connect of the client not counted
    eof,          \* history: wait_event returned None
    inbound       \* how many messages came from the server

reconnect == <<config, attempts, current_delay, slept, reconnects>>
traffic == <<flight, wire, failed>>
vars == <<phase, announce, cmds, cmd_permit, events, event_permit, reconnect,
          handle, traffic, accepted, eof, inbound>>

Phases == {"connecting", "select", "drain", "sending", "failed", "sleeping",
           "stopped", "gave_up", "dropped"}

\* Mutant of SpscSend: the capacity test is off by one.
SpscSendOneOver(q, e, closed) ==
    IF ~closed /\ Len(q) <= ChannelCapacity THEN Append(q, e) ELSE q

\* SpscSender::send: refused when full or when the receiver was dropped.
SpscSend(q, e, closed) ==
    IF ~closed /\ Len(q) < ChannelCapacity THEN Append(q, e) ELSE q

Init ==
    /\ config \in Configs
    /\ phase = "connecting"
    /\ announce = FALSE
    /\ cmds = <<>>
    /\ cmd_permit = FALSE
    /\ events = <<>>
    /\ event_permit = FALSE
    /\ attempts = 0
    /\ current_delay = config.initial_delay
    /\ slept = 0
    /\ handle = "idle"
    /\ flight = <<>>
    /\ wire = <<>>
    /\ accepted = <<>>
    /\ failed = {}
    /\ reconnects = 0
    /\ eof = FALSE
    /\ inbound = 0

-----------------------------------------------------------------------------
(* The client task.                                                        *)

\* One step of the task; it does nothing else while it owes a notify_one.
TaskStep(from, to) ==
    /\ ~announce
    /\ phase = from
    /\ phase' = to

\* let _ = event_tx.send(e), with the notify_one still to come.
Emit(e) ==
    /\ events' = SpscSend(events, e, handle = "gone")
    /\ announce' = TRUE

\* event_notify.notify_one()
NotifyEvent ==
    /\ announce
    /\ announce' = FALSE
    /\ event_permit' = TRUE
    /\ UNCHANGED <<phase, cmds, cmd_permit, events, reconnect, handle, traffic,
                   accepted, eof, inbound>>

\* connect_with succeeded: on_success and the Connected event.
ConnectOk ==
    /\ TaskStep("connecting", "select")
    /\ attempts' = 0
    /\ current_delay' = config.initial_delay
    /\ reconnects' = 0
    /\ Emit("Connected")
    /\ UNCHANGED <<config, cmds, cmd_permit, event_permit, slept, handle, traffic,
                   accepted, eof, inbound>>

\* connect_with failed or connect_timeout expired.
ConnectFail ==
    /\ TaskStep("connecting", "failed")
    /\ UNCHANGED <<announce, cmds, cmd_permit, events, event_permit, reconnect,
                   handle, traffic, accepted, eof, inbound>>

\* The cmd_notify branch of the select!.
Notified ==
    /\ TaskStep("select", "drain")
    /\ cmd_permit
    /\ cmd_permit' = FALSE
    /\ UNCHANGED <<announce, cmds, events, event_permit, reconnect, handle,
                   traffic, accepted, eof, inbound>>

\* session.recv() returned a message.
RecvMessage ==
    /\ inbound < MaxInbound
    /\ TaskStep("select", "select")
    /\ inbound' = inbound + 1
    /\ Emit("Message")
    /\ UNCHANGED <<cmds, cmd_permit, event_permit, reconnect, handle, traffic,
                   accepted, eof>>

\* session.recv() returned None or an error.
RecvEnd ==
    /\ TaskStep("select", "failed")
    /\ UNCHANGED <<announce, cmds, cmd_permit, events, event_permit, reconnect,
                   handle, traffic, accepted, eof, inbound>>

\* Mutant of Drained: the drain stops with commands still queued.
DrainedEarly ==
    /\ TaskStep("drain", "select")
    /\ UNCHANGED <<announce, cmds, cmd_permit, events, event_permit, reconnect,
                   handle, traffic, accepted, eof, inbound>>

\* cmd_rx.recv() found nothing more.
Drained ==
    /\ TaskStep("drain", "select")
    /\ cmds = <<>>
    /\ UNCHANGED <<announce, cmds, cmd_permit, events, event_permit, reconnect,
                   handle, traffic, accepted, eof, inbound>>

\* A Send was received: the task awaits session.send.
TakeSend ==
    /\ TaskStep("drain", "sending")
    /\ cmds # <<>> /\ Head(cmds).op = "Send"
    /\ cmds' = Tail(cmds)
    /\ flight' = <<Head(cmds).msg>>
    /\ UNCHANGED <<announce, cmd_permit, events, event_permit, reconnect, handle,
                   wire, failed, accepted, eof, inbound>>

\* Mutant of TakeDisconnect: the drain goes on instead of returning.
TakeDisconnectGoesOn ==
    /\ TaskStep("drain", "drain")
    /\ cmds # <<>> /\ Head(cmds).op = "Disconnect"
    /\ cmds' = Tail(cmds)
    /\ UNCHANGED <<announce, cmd_permit, events, event_permit, reconnect, handle,
                   traffic, accepted, eof, inbound>>

\* A Disconnect was received: connect_and_run and run return Ok.
TakeDisconnect ==
    /\ TaskStep("drain", "stopped")
    /\ cmds # <<>> /\ Head(cmds).op = "Disconnect"
    /\ cmds' = Tail(cmds)
    /\ UNCHANGED <<announce, cmd_permit, events, event_permit, reconnect, handle,
                   traffic, accepted, eof, inbound>>

SendOk ==
    /\ TaskStep("sending", "drain")
    /\ wire' = wire \o flight
    /\ flight' = <<>>
    /\ UNCHANGED <<announce, cmds, cmd_permit, events, event_permit, reconnect,
                   handle, failed, accepted, eof, inbound>>

\* Mutant of SendFail: the message goes back to the end of the queue.
SendFailRequeue ==
    /\ TaskStep("sending", "failed")
    /\ cmds' = SpscSend(cmds, Send(flight[1]), FALSE)
    /\ flight' = <<>>
    /\ UNCHANGED <<announce, cmd_permit, events, event_permit, reconnect,
                   handle, wire, failed, accepted, eof, inbound>>

\* The `?` after session.send leaves connect_and_run with the message.
SendFail ==
    /\ TaskStep("sending", "failed")
    /\ failed' = failed \cup {flight[1]}
    /\ flight' = <<>>
    /\ UNCHANGED <<announce, cmds, cmd_permit, events, event_permit, reconnect,
                   handle, wire, accepted, eof, inbound>>

\* One more failure in a row.  When attempts are unlimited nothing reads the
\* count, which then stops at MaxCounted: the failures themselves may go on for
\* ever.
Counted(n) == IF config.max_attempts = 0 /\ n >= MaxCounted THEN n ELSE n + 1

\* ReconnectState::on_failure returns None: run returns an error.
GiveUp ==
    /\ TaskStep("failed", "gave_up")
    /\ attempts' = IF config.enabled THEN Counted(attempts) ELSE attempts
    /\ config.enabled => config.max_attempts > 0 /\ attempts' >= config.max_attempts
    /\ UNCHANGED <<config, announce, cmds, cmd_permit, events, event_permit, slept,
                   current_delay, reconnects, handle, traffic, accepted, eof,
                   inbound>>

Least(a, b) == IF a < b THEN a ELSE b

\* Mutant of Backoff: attempts is compared with > instead of >=.
BackoffOnceMore ==
    /\ TaskStep("failed", "sleeping")
    /\ config.enabled
    /\ attempts' = Counted(attempts)
    /\ config.max_attempts = 0 \/ attempts' <= config.max_attempts
    /\ slept' = current_delay
    /\ current_delay' = Least(current_delay * config.backoff_multiplier, config.max_delay)
    /\ Emit("Disconnected")
    /\ UNCHANGED <<config, cmds, cmd_permit, event_permit, reconnects, handle, traffic,
                   accepted, eof, inbound>>

\* ReconnectState::on_failure returns a delay; the Disconnected event.
Backoff ==
    /\ TaskStep("failed", "sleeping")
    /\ config.enabled
    /\ attempts' = Counted(attempts)
    /\ config.max_attempts = 0 \/ attempts' < config.max_attempts
    /\ slept' = current_delay
    /\ current_delay' = Least(current_delay * config.backoff_multiplier, config.max_delay)
    /\ Emit("Disconnected")
    /\ UNCHANGED <<config, cmds, cmd_permit, event_permit, reconnects, handle, traffic,
                   accepted, eof, inbound>>

\* The sleep is over: the next connect.
Retry ==
    /\ TaskStep("sleeping", "connecting")
    /\ reconnects' = Counted(reconnects)
    /\ UNCHANGED <<config, announce, cmds, cmd_permit, events, event_permit, attempts,
                   current_delay, slept, handle, traffic, accepted, eof,
                   inbound>>

\* The owner of a Client whose run has returned drops it, closing both channels.
DropClient ==
    /\ ~announce
    /\ phase \in {"stopped", "gave_up"}
    /\ phase' = "dropped"
    /\ UNCHANGED <<announce, cmds, cmd_permit, events, event_permit, reconnect,
                   handle, traffic, accepted, eof, inbound>>

Task ==
    \/ NotifyEvent
    \/ ConnectOk \/ ConnectFail
    \/ Notified \/ RecvMessage \/ RecvEnd
    \/ Drained \/ TakeSend \/ TakeDisconnect
    \/ SendOk \/ SendFail
    \/ GiveUp \/ Backoff \/ Retry
    \/ DropClient

-----------------------------------------------------------------------------
(* The ClientHandle.                                                       *)

HandleStep(from, to) ==
    /\ handle = from
    /\ handle' = to

\* ClientHandle::send when the channel takes the command.
HandleSend(m) ==
    /\ HandleStep("idle", "notify")
    /\ \A i \in DOMAIN accepted : accepted[i] # m
    /\ phase # "dropped" /\ Len(cmds) < ChannelCapacity
    /\ cmds' = Append(cmds, Send(m))
    /\ accepted' = Append(accepted, m)
    /\ UNCHANGED <<phase, announce, cmd_permit, events, event_permit, reconnect,
                   traffic, eof, inbound>>

\* ClientHandle::disconnect; the result of the push is discarded.
HandleDisconnect ==
    /\ HandleStep("idle", "notify")
    /\ cmds' = SpscSend(cmds, Disconnect, phase = "dropped")
    /\ UNCHANGED <<phase, announce, cmd_permit, events, event_permit, reconnect,
                   traffic, accepted, eof, inbound>>

\* cmd_notify.notify_one() at the end of send and disconnect.
HandleNotify ==
    /\ HandleStep("notify", "idle")
    /\ cmd_permit' = TRUE
    /\ UNCHANGED <<phase, announce, cmds, events, event_permit, reconnect,
                   traffic, accepted, eof, inbound>>

\* poll, and each step of poll_spin and drain.
Poll ==
    /\ HandleStep("idle", "idle")
    /\ events # <<>>
    /\ events' = Tail(events)
    /\ UNCHANGED <<phase, announce, cmds, cmd_permit, event_permit, reconnect,
                   traffic, accepted, eof, inbound>>

\* wait_event is called.
WaitCall ==
    /\ HandleStep("idle", "wait_recv")
    /\ UNCHANGED <<phase, announce, cmds, cmd_permit, events, event_permit,
                   reconnect, traffic, accepted, eof, inbound>>

\* wait_event: event_rx.recv() returns an event or falls through.
WaitRecv ==
    /\ HandleStep("wait_recv", IF events # <<>> THEN "idle" ELSE "wait_check")
    /\ events' = IF events # <<>> THEN Tail(events) ELSE events
    /\ UNCHANGED <<phase, announce, cmds, cmd_permit, event_permit, reconnect,
                   traffic, accepted, eof, inbound>>

\* Mutant of WaitCheck: is_connected() is `!closed`.
WaitCheckClosed ==
    /\ HandleStep("wait_check", IF phase # "dropped" THEN "parked" ELSE "idle")
    /\ eof' = (eof \/ phase = "dropped")
    /\ UNCHANGED <<phase, announce, cmds, cmd_permit, events, event_permit,
                   reconnect, traffic, accepted, inbound>>

\* wait_event: is_connected() is `!closed || !is_empty`.
WaitCheck ==
    /\ LET connected == phase # "dropped" \/ events # <<>> IN
          /\ HandleStep("wait_check", IF connected THEN "parked" ELSE "idle")
          /\ eof' = (eof \/ ~connected)
    /\ UNCHANGED <<phase, announce, cmds, cmd_permit, events, event_permit,
                   reconnect, traffic, accepted, inbound>>

\* Mutant of WaitWake: a waiter is only released while the client lives.
WaitWakeConnected ==
    /\ HandleStep("parked", "wait_recv")
    /\ event_permit
    /\ phase # "dropped"
    /\ event_permit' = FALSE
    /\ UNCHANGED <<phase, announce, cmds, cmd_permit, events, reconnect, traffic,
                   accepted, eof, inbound>>

\* wait_event: event_notify.notified() consumes a permit.
WaitWake ==
    /\ HandleStep("parked", "wait_recv")
    /\ event_permit
    /\ event_permit' = FALSE
    /\ UNCHANGED <<phase, announce, cmds, cmd_permit, events, reconnect, traffic,
                   accepted, eof, inbound>>

\* The handle is dropped, closing both channels.
DropHandle ==
    /\ HandleStep("idle", "gone")
    /\ UNCHANGED <<phase, announce, cmds, cmd_permit, events, event_permit,
                   reconnect, traffic, accepted, eof, inbound>>

Handle ==
    \/ \E m \in Msgs : HandleSend(m)
    \/ HandleDisconnect
    \/ HandleNotify
    \/ Poll
    \/ WaitCall \/ WaitRecv \/ WaitCheck \/ WaitWake
    \/ DropHandle

Next == Task \/ Handle

Spec == Init /\ [][Next]_vars

(***************************************************************************)
(* Fairness.  The runtime keeps polling the task: connect resolves within  *)
(* connect_timeout, one way or the other, a sleep ends, and a permit that  *)
(* is ready whenever the select! is entered is taken sooner or later,      *)
(* since tokio polls the branches in random order (strong fairness).  The  *)
(* handle finishes the calls it began.  Nothing makes the server accept,   *)
(* read or speak, the handle call, or the owner drop the client: a connect *)
(* may fail every time, and a write, which has no timeout, may never end.  *)
(***************************************************************************)
Fairness ==
    /\ WF_vars(NotifyEvent)
    /\ WF_vars(ConnectOk \/ ConnectFail)
    /\ SF_vars(Notified)
    /\ WF_vars(Drained \/ TakeSend \/ TakeDisconnect)
    /\ WF_vars(GiveUp \/ Backoff)
    /\ WF_vars(Retry)
    /\ WF_vars(HandleNotify)
    /\ WF_vars(WaitRecv \/ WaitCheck \/ WaitWake)

FairSpec == Spec /\ Fairness

-----------------------------------------------------------------------------
(* Properties.                                                             *)

\* The client connects again less than max_attempts times in a row, only when
\* reconnection is enabled, and waits at most max_delay if initial_delay does.
RetriesBounded ==
    /\ config.max_attempts > 0 => reconnects < config.max_attempts
    /\ ~config.enabled => reconnects = 0
    /\ slept <= config.max_delay \/ config.initial_delay > config.max_delay

\* Every variable keeps its type; both channels respect their capacity, and
\* reconnecting its configuration.
TypeOK ==
    /\ RetriesBounded
    /\ config \in Configs
    /\ phase \in Phases
    /\ announce \in BOOLEAN
    /\ cmds \in Seq(Commands) /\ Len(cmds) <= ChannelCapacity
    /\ cmd_permit \in BOOLEAN
    /\ events \in Seq(Events) /\ Len(events) <= ChannelCapacity
    /\ event_permit \in BOOLEAN
    /\ attempts \in Nat
    /\ current_delay \in Nat
    /\ slept \in Nat
    /\ handle \in {"idle", "notify", "wait_recv", "wait_check", "parked", "gone"}
    /\ flight \in Seq(Msgs)
    /\ wire \in Seq(Msgs)
    /\ accepted \in Seq(Msgs)
    /\ failed \in SUBSET Msgs
    /\ reconnects \in Nat
    /\ eof \in BOOLEAN
    /\ inbound \in 0..MaxInbound

\* No lost wakeup, either way: while no write has failed a queued command
\* never waits for another call of the handle, and a parked wait_event is never
\* left alone with a queued event.
NothingStranded ==
    /\ (cmds # <<>> /\ phase = "select" /\ failed = {}) =>
           cmd_permit \/ handle = "notify"
    /\ (handle = "parked" /\ events # <<>>) => event_permit \/ announce

\* The payloads of the Send commands still queued.
Queued == [i \in 1..Len(SelectSeq(cmds, LAMBDA c : c.op = "Send")) |->
              SelectSeq(cmds, LAMBDA c : c.op = "Send")[i].msg]

\* Across reconnects and failed writes, the server is sent exactly the
\* accepted messages in the order of the calls, each once, except for those
\* whose write failed.
SendsConserved ==
    wire \o flight \o Queued = SelectSeq(accepted, LAMBDA m : m \notin failed)

\* wait_event returns None only when no event is left and none can follow.
NoneIsFinal ==
    eof => phase = "dropped" /\ events = <<>>

Ended == phase \in {"stopped", "gave_up", "dropped"}

\* What a client may hope for of its server: it is back in the select! again
\* and again, so no outage lasts for ever and no write is left hanging.
Served == []<>(phase = "select" \/ Ended)

DisconnectQueued == \E i \in DOMAIN cmds : cmds[i] = Disconnect

\* A Disconnect that entered the channel, in whatever phase the task was, ends
\* a client whose server serves it, unless a write failed: the permit outlives
\* outages, sleeps and reconnects.  While the server stays down or does not
\* read, run only connects, sleeps and writes, and no command is looked at.
DisconnectEnds == Served => (DisconnectQueued ~> (Ended \/ failed # {}))

\* A wait_event that could return an event does.
EventReachesWaiter ==
    (handle = "parked" /\ events # <<>>) ~> (handle # "parked")

\* What the docs of disconnect say, without the exception of a failed write:
\* a client whose server serves it ends.
DisconnectHonoured == Served => (DisconnectQueued ~> Ended)
=============================================================================
