---------------------------- MODULE ServerProofs ----------------------------
(***************************************************************************)
(* Safety of the server for every number of callers, payloads, sessions    *)
(* and calls, and every max_connections and channel capacity.              *)
(***************************************************************************)
EXTENDS Server, FiniteSetTheorems, TLAPS

USE DEF Ids

\* A command is one of the four variants, with that variant's fields.
LEMMA CommandFields ==
    ASSUME NEW c \in Commands
    PROVE  /\ c.op = "CloseSession" => c.id \in Ids /\ c = CloseSession(c.id)
           /\ c.op = "Broadcast" => c.msg \in Msgs
           /\ c.op = "SendTo" => c.id \in Ids /\ c.msg \in Msgs
  BY DEF Commands, Shutdown, CloseSession, Broadcast, SendTo

\* try_send keeps a channel a sequence over its element type and within its
\* capacity, and the Seq/Tail facts of a receive.
LEMMA TrySendType ==
    ASSUME NEW T, NEW q \in Seq(T), NEW e \in T, Len(q) <= ChannelCapacity
    PROVE  /\ TrySend(q, e) \in Seq(T)
           /\ Len(TrySend(q, e)) <= ChannelCapacity
  BY ServerAssumption DEF TrySend

\* The constructors build commands and events.
LEMMA ConstructorTypes ==
    /\ Shutdown \in Commands
    /\ \A s \in Ids : CloseSession(s) \in Commands
    /\ \A m \in Msgs : Broadcast(m) \in Commands
    /\ \A s \in Ids, m \in Msgs : SendTo(s, m) \in Commands
    /\ Listening \in Events
    /\ \A s \in Ids : Created(s) \in Events /\ Closed(s) \in Events
  BY DEF Commands, Events, Created, Closed, Listening

\* What a receive does to the channel.
LEMMA ReceiveType ==
    ASSUME TypeOK, NEW op, Receive(op)
    PROVE  /\ cmds' \in Seq(Commands)
           /\ Len(cmds') <= ChannelCapacity
           /\ Head(cmds) \in Commands
           /\ Head(cmds).op = op
  BY ServerAssumption DEF TypeOK, Receive

\* The per-session tables keep their types when one entry is written.
LEMMA PushType ==
    ASSUME TypeOK, NEW S, NEW m \in Msgs, Push(S, m)
    PROVE  out' \in [Ids -> Seq(Msgs)]
  BY DEF TypeOK, Push

\* The end of a session task keeps the types of the tables and the channels.
LEMMA ReturnType ==
    ASSUME TypeOK, NEW s \in Ids, NEW from, Return(s, from)
    PROVE  TypeOK'
  BY DEF TypeOK, Return, TaskStep, TaskStates, registry, handle

\* Every variable keeps its type and both channels their capacity.
THEOREM TypeCorrect == Spec => []TypeOK
<1>1. Init => TypeOK
  <2> SUFFICES ASSUME Init PROVE TypeOK
    OBVIOUS
  <2>1. events \in Seq(Events) /\ Len(events) <= ChannelCapacity
    <3>1. <<>> \in Seq(Events) /\ Len(<<>>) <= ChannelCapacity
      BY ServerAssumption
    <3> QED BY <3>1, TrySendType, ConstructorTypes DEF Init
  <2>2. cmds \in Seq(Commands) /\ Len(cmds) <= ChannelCapacity
    BY ServerAssumption DEF Init
  <2>3. /\ out \in [Ids -> Seq(Msgs)]
        /\ flight \in [Ids -> Seq(Msgs)]
        /\ wire \in [Ids -> Seq(Msgs)]
    BY DEF Init
  <2>4. next_id \in 1..(MaxSessions + 1) /\ calls \in 0..MaxCalls
    BY ServerAssumption DEF Init
  <2> QED BY <2>1, <2>2, <2>3, <2>4 DEF Init, TypeOK, TaskStates
<1>2. TypeOK /\ [Next]_vars => TypeOK'
  <2> SUFFICES ASSUME TypeOK, [Next]_vars PROVE TypeOK'
    OBVIOUS
  <2>1. CASE HandleConnection
    <3>1. events' \in Seq(Events) /\ Len(events') <= ChannelCapacity
      BY <2>1, TrySendType, ConstructorTypes DEF HandleConnection, TypeOK
    <3> QED BY <2>1, <3>1, ServerAssumption
            DEF HandleConnection, TypeOK, TaskStates, traffic, handle
  <2>2. CASE Notified
    BY <2>2 DEF Notified, TypeOK, registry, traffic, handle
  <2>3. CASE Drained
    BY <2>3 DEF Drained, TypeOK, registry, traffic, handle
  <2>4. CASE HandleShutdown
    <3>1. cmds' \in Seq(Commands) /\ Len(cmds') <= ChannelCapacity
      BY <2>4, ReceiveType DEF HandleShutdown
    <3> QED BY <2>4, <3>1 DEF HandleShutdown, TypeOK, traffic, handle
  <2>5. CASE HandleCloseSession
    <3>1. /\ cmds' \in Seq(Commands) /\ Len(cmds') <= ChannelCapacity
          /\ Head(cmds).id \in Ids
      BY <2>5, ReceiveType, CommandFields DEF HandleCloseSession
    <3> QED BY <2>5, <3>1 DEF HandleCloseSession, TypeOK, traffic, handle
  <2>6. CASE HandleBroadcast
    <3>1. /\ cmds' \in Seq(Commands) /\ Len(cmds') <= ChannelCapacity
          /\ Head(cmds).msg \in Msgs
      BY <2>6, ReceiveType, CommandFields DEF HandleBroadcast
    <3>2. out' \in [Ids -> Seq(Msgs)]
      BY <2>6, <3>1, PushType DEF HandleBroadcast
    <3> QED BY <2>6, <3>1, <3>2 DEF HandleBroadcast, TypeOK, handle
  <2>7. CASE HandleSendTo
    <3>1. /\ cmds' \in Seq(Commands) /\ Len(cmds') <= ChannelCapacity
          /\ Head(cmds).msg \in Msgs
      BY <2>7, ReceiveType, CommandFields DEF HandleSendTo
    <3>2. out' \in [Ids -> Seq(Msgs)]
      BY <2>7, <3>1, PushType DEF HandleSendTo
    <3> QED BY <2>7, <3>1, <3>2 DEF HandleSendTo, TypeOK, handle
  <2>8. ASSUME NEW s \in Ids, Task(s) PROVE TypeOK'
    <3>1. ASSUME NEW m \in Msgs, Reply(s, m) PROVE TypeOK'
      <4>1. out' \in [Ids -> Seq(Msgs)]
        BY <3>1, PushType DEF Reply
      <4> QED BY <3>1, <4>1 DEF Reply, TypeOK, registry
    <3>2. ASSUME NEW t \in Ids, NEW m \in Msgs, ReplyTo(s, t, m) PROVE TypeOK'
      <4>1. out' \in [Ids -> Seq(Msgs)]
        BY <3>2, PushType DEF ReplyTo
      <4> QED BY <3>2, <4>1 DEF ReplyTo, TypeOK, registry
    <3>3. CASE TakeOutbound(s)
      <4>1. Tail(out[s]) \in Seq(Msgs) /\ <<Head(out[s])>> \in Seq(Msgs)
        BY <3>3 DEF TakeOutbound, TypeOK
      <4>2. out' \in [Ids -> Seq(Msgs)] /\ flight' \in [Ids -> Seq(Msgs)]
        BY <3>3, <4>1 DEF TakeOutbound, TypeOK
      <4>3. task' \in [Ids -> TaskStates]
        BY <3>3 DEF TakeOutbound, TaskStep, TypeOK, TaskStates
      <4> QED BY <3>3, <4>2, <4>3 DEF TakeOutbound, TypeOK, registry, handle
    <3>4. CASE SendDone(s)
      <4>1. wire[s] \o flight[s] \in Seq(Msgs)
        BY DEF TypeOK
      <4>2. wire' \in [Ids -> Seq(Msgs)] /\ flight' \in [Ids -> Seq(Msgs)]
        BY <3>4, <4>1 DEF SendDone, TypeOK
      <4>3. task' \in [Ids -> TaskStates]
        BY <3>4 DEF SendDone, TaskStep, TypeOK, TaskStates
      <4> QED BY <3>4, <4>2, <4>3 DEF SendDone, TypeOK, registry, handle
    <3>5. CASE PeerGone(s) \/ SendFailed(s) \/ CancelIdle(s) \/ CancelMidSend(s)
      BY <3>5, ReturnType DEF PeerGone, SendFailed, CancelIdle, CancelMidSend
    <3>6. CASE EndSession(s)
      <4>1. events' \in Seq(Events) /\ Len(events') <= ChannelCapacity
        BY <3>6, TrySendType, ConstructorTypes DEF EndSession, TypeOK
      <4> QED BY <3>6, <4>1
              DEF EndSession, TaskStep, TypeOK, TaskStates, registry, traffic, handle
    <3>7. CASE SignalClose(s)
      <4>1. cmds' \in Seq(Commands) /\ Len(cmds') <= ChannelCapacity
        BY <3>7, TrySendType, ConstructorTypes DEF SignalClose, TypeOK
      <4> QED BY <3>7, <4>1
              DEF SignalClose, TaskStep, TypeOK, TaskStates, registry, traffic, handle
    <3>8. CASE NotifyClose(s)
      BY <3>8 DEF NotifyClose, TaskStep, TypeOK, TaskStates, registry, traffic, handle
    <3> QED BY <2>8, <3>1, <3>2, <3>3, <3>4, <3>5, <3>6, <3>7, <3>8 DEF Task, Teardown
  <2>9. ASSUME NEW c \in Callers, Caller(c) PROVE TypeOK'
    <3>1. ASSUME NEW cmd \in Commands, Issue(c, cmd), calls' \in 0..MaxCalls,
                 unsent' \in SUBSET Msgs
          PROVE  TypeOK'
      <4>1. cmds' \in Seq(Commands) /\ Len(cmds') <= ChannelCapacity
        BY <3>1, TrySendType DEF Issue, TypeOK
      <4> QED BY <3>1, <4>1 DEF Issue, TypeOK, registry, traffic
    <3>2. CASE CallShutdown(c)
      <4>1. calls' \in 0..MaxCalls /\ unsent' \in SUBSET Msgs
        BY <3>2, ServerAssumption DEF CallShutdown, TypeOK
      <4> QED BY <3>1, <3>2, <4>1, ConstructorTypes DEF CallShutdown
    <3>3. ASSUME NEW s \in Ids, CallCloseSession(c, s) PROVE TypeOK'
      <4>1. calls' \in 0..MaxCalls /\ unsent' \in SUBSET Msgs
        BY <3>3, ServerAssumption DEF CallCloseSession, TypeOK
      <4> QED BY <3>1, <3>3, <4>1, ConstructorTypes DEF CallCloseSession
    <3>4. ASSUME NEW m \in Msgs, CallBroadcast(c, m) PROVE TypeOK'
      BY <3>1, <3>4, ConstructorTypes DEF CallBroadcast, TypeOK
    <3>5. ASSUME NEW s \in Ids, NEW m \in Msgs, CallSendTo(c, s, m) PROVE TypeOK'
      BY <3>1, <3>5, ConstructorTypes DEF CallSendTo, TypeOK
    <3>6. CASE CallNotify(c)
      BY <3>6 DEF CallNotify, TypeOK, registry, traffic
    <3> QED BY <2>9, <3>2, <3>3, <3>4, <3>5, <3>6 DEF Caller
  <2>10. CASE PollEvents
    <3>1. events' \in Seq(Events) /\ Len(events') <= ChannelCapacity
      BY <2>10, ServerAssumption DEF PollEvents, TypeOK
    <3> QED BY <2>10, <3>1 DEF PollEvents, TypeOK, registry, traffic, handle
  <2>11. CASE UNCHANGED vars
    BY <2>11 DEF vars, TypeOK, registry, traffic, handle
  <2> QED BY <2>1, <2>2, <2>3, <2>4, <2>5, <2>6, <2>7, <2>8, <2>9, <2>10, <2>11
          DEF Next, RunLoop
<1> QED BY <1>1, <1>2, PTL DEF Spec
-----------------------------------------------------------------------------
(* The tables of the run loop.                                             *)

\* Ids are fresh: one that has not been handed out occurs in no table.
FreshIds ==
    \A s \in Ids : s >= next_id =>
        /\ task[s] = "none"
        /\ s \notin sessions
        /\ s \notin cancelled

\* The parent token is cancelled by the command that makes run return.
StopsTogether == shutdown_token <=> loop = "stopped"

\* What RegistryAgrees needs to be inductive.
RegistryInv ==
    /\ TypeOK
    /\ FreshIds
    /\ StopsTogether
    /\ RegistryAgrees

\* The tables of the run loop agree with one another and with the tasks.
THEOREM RegistrySafe == Spec => []RegistryInv
<1>1. Init => FreshIds /\ StopsTogether /\ RegistryAgrees
  BY DEF Init, FreshIds, StopsTogether, RegistryAgrees, Open
<1>2. RegistryInv /\ TypeOK' /\ [Next]_vars => RegistryInv'
  <2> SUFFICES ASSUME RegistryInv, TypeOK', [Next]_vars
               PROVE  FreshIds' /\ StopsTogether' /\ RegistryAgrees'
    BY DEF RegistryInv
  <2> USE DEF RegistryInv, Open, Cancelled
  <2>1. CASE HandleConnection
    <3>1. /\ task' = [task EXCEPT ![next_id] = "running"]
          /\ next_id \in Ids /\ next_id' = next_id + 1
          /\ sessions' = sessions \cup {next_id}
          /\ session_tokens' = session_tokens \cup {next_id}
          /\ session_senders' = session_senders \cup {next_id}
          /\ UNCHANGED <<loop, cancelled, shutdown_token>> /\ loop # "stopped"
      BY <2>1 DEF HandleConnection
    <3>2. /\ next_id \in Nat /\ Ids \subseteq Nat
          /\ task \in [Ids -> TaskStates]
      BY DEF TypeOK, Ids
    <3>3. next_id \notin cancelled
      BY <3>1, <3>2 DEF FreshIds
    <3>4. FreshIds'
      BY <3>1, <3>2 DEF FreshIds
    <3>5. StopsTogether'
      BY <3>1 DEF StopsTogether
    <3>6. RegistryAgrees'
      BY <3>1, <3>2, <3>3 DEF RegistryAgrees, StopsTogether
    <3> QED BY <3>4, <3>5, <3>6
  <2>2. CASE Notified \/ Drained
    BY <2>2 DEF Notified, Drained, registry, FreshIds, StopsTogether, RegistryAgrees
  <2>3. CASE HandleShutdown
    BY <2>3 DEF HandleShutdown, Receive, FreshIds, StopsTogether, RegistryAgrees
  <2>4. CASE HandleCloseSession
    BY <2>4 DEF HandleCloseSession, Receive, FreshIds, StopsTogether,
                RegistryAgrees, TypeOK
  <2>5. CASE HandleBroadcast \/ HandleSendTo
    BY <2>5 DEF HandleBroadcast, HandleSendTo, Receive, FreshIds, StopsTogether,
                RegistryAgrees
  <2>6. ASSUME NEW s \in Ids, Task(s)
        PROVE  FreshIds' /\ StopsTogether' /\ RegistryAgrees'
    <3>1. /\ UNCHANGED <<loop, registry>>
          /\ \A t \in Ids : task[t] = "none" => task'[t] = "none"
          /\ \A t \in Ids : Open(t)' => Open(t)
      BY <2>6 DEF Task, Teardown, Reply, ReplyTo, TakeOutbound, SendDone,
           PeerGone, SendFailed, CancelIdle, CancelMidSend, Return, EndSession,
           SignalClose, NotifyClose, TaskStep, TypeOK
    <3> QED BY <3>1 DEF registry, FreshIds, StopsTogether, RegistryAgrees
  <2>7. ASSUME UNCHANGED <<loop, registry, task>>
        PROVE  FreshIds' /\ StopsTogether' /\ RegistryAgrees'
    BY <2>7 DEF registry, FreshIds, StopsTogether, RegistryAgrees
  <2>8. ASSUME NEW c \in Callers, Caller(c)
        PROVE  UNCHANGED <<loop, registry, task>>
    BY <2>8 DEF Caller, CallShutdown, CallCloseSession, CallBroadcast, CallSendTo,
                CallNotify, Issue
  <2>9. CASE PollEvents \/ UNCHANGED vars
    BY <2>7, <2>9 DEF PollEvents, vars
  <2> QED BY <2>1, <2>2, <2>3, <2>4, <2>5, <2>6, <2>7, <2>8, <2>9 DEF Next, RunLoop
<1> QED BY <1>1, <1>2, TypeCorrect, PTL DEF Spec, RegistryInv

\* Every live session can be cancelled and is reached by every broadcast.
THEOREM RegistryHolds == Spec => []RegistryAgrees
BY RegistrySafe, PTL DEF RegistryInv

-----------------------------------------------------------------------------
(* Wake-ups.                                                               *)

\* No queued command is stranded while the run loop waits in its select!.
THEOREM WakeupSafe == Spec => []NoLostWakeup
<1>1. Init => NoLostWakeup
  BY DEF Init, NoLostWakeup
<1>2. RegistryInv /\ NoLostWakeup /\ [Next]_vars => NoLostWakeup'
  <2> SUFFICES ASSUME RegistryInv, NoLostWakeup, [Next]_vars PROVE NoLostWakeup'
    OBVIOUS
  <2> USE DEF RegistryInv
  <2>1. CASE RunLoop
    <3>1. CASE HandleConnection
      <4>1. \A s \in Ids : task[s] = "signalled" => task'[s] = "signalled"
        BY <3>1 DEF HandleConnection, FreshIds, TypeOK
      <4> QED BY <3>1, <4>1 DEF HandleConnection, NoLostWakeup, handle
    <3>2. CASE ~HandleConnection
      BY <2>1, <3>2 DEF RunLoop, Notified, Drained, HandleShutdown,
           HandleCloseSession, HandleBroadcast, HandleSendTo, Receive, NoLostWakeup
    <3> QED BY <3>1, <3>2
  <2>2. ASSUME NEW s \in Ids, Task(s) PROVE NoLostWakeup'
    <3>1. CASE SignalClose(s)
      BY <3>1 DEF SignalClose, TaskStep, NoLostWakeup, TypeOK
    <3>2. CASE NotifyClose(s)
      BY <3>2 DEF NotifyClose, TaskStep, NoLostWakeup, TypeOK
    <3>3. CASE ~SignalClose(s) /\ ~NotifyClose(s)
      <4>1. /\ UNCHANGED <<cmds, loop, permit, call>>
            /\ \A t \in Ids : task[t] = "signalled" => task'[t] = "signalled"
        BY <2>2, <3>3 DEF Task, Teardown, Reply, ReplyTo, TakeOutbound, SendDone,
             PeerGone, SendFailed, CancelIdle, CancelMidSend, Return, EndSession,
             TaskStep, TypeOK, handle
      <4> QED BY <4>1 DEF NoLostWakeup
    <3> QED BY <3>1, <3>2, <3>3
  <2>3. ASSUME NEW c \in Callers, Caller(c) PROVE NoLostWakeup'
    <3>1. ASSUME NEW cmd, Issue(c, cmd) PROVE NoLostWakeup'
      BY <3>1 DEF Issue, NoLostWakeup, TypeOK
    <3>2. CASE CallNotify(c)
      BY <3>2 DEF CallNotify, NoLostWakeup
    <3> QED BY <2>3, <3>1, <3>2 DEF Caller, CallShutdown, CallCloseSession,
                                    CallBroadcast, CallSendTo
  <2>4. CASE PollEvents
    BY <2>4 DEF PollEvents, NoLostWakeup, handle
  <2>5. CASE UNCHANGED vars
    BY <2>5 DEF vars, NoLostWakeup, handle
  <2> QED BY <2>1, <2>2, <2>3, <2>4, <2>5 DEF Next
<1> QED BY <1>1, <1>2, RegistrySafe, PTL DEF Spec

-----------------------------------------------------------------------------
(* Slots.                                                                  *)

\* A CloseSession(s) is in the channel.
CloseQueued(s) == \E i \in DOMAIN cmds : cmds[i] = CloseSession(s)

\* A try_send never removes a queued element.
LEMMA TrySendKeeps ==
    ASSUME NEW T, NEW q \in Seq(T), NEW e \in T, NEW i \in DOMAIN q
    PROVE  i \in DOMAIN TrySend(q, e) /\ TrySend(q, e)[i] = q[i]
  BY DEF TrySend

\* A receive removes the head only.
LEMMA TailKeeps ==
    ASSUME NEW T, NEW q \in Seq(T), q # <<>>, NEW i \in DOMAIN q, q[i] # Head(q)
    PROVE  \E j \in DOMAIN Tail(q) : Tail(q)[j] = q[i]
<1>1. i - 1 \in DOMAIN Tail(q) /\ Tail(q)[i - 1] = q[i]
  OBVIOUS
<1> QED BY <1>1

\* A queued CloseSession stays queued until the loop handles it.
LEMMA CloseQueuedKept ==
    ASSUME RegistryInv, NEW s \in Ids, CloseQueued(s), [Next]_vars
    PROVE  CloseQueued(s)' \/ (HandleCloseSession /\ Head(cmds) = CloseSession(s))
<1> USE DEF RegistryInv, CloseQueued
<1>0. PICK i \in DOMAIN cmds : cmds[i] = CloseSession(s)
  OBVIOUS
<1>1. CASE UNCHANGED cmds
  BY <1>1
<1>2. ASSUME NEW op, Receive(op), op # "CloseSession" PROVE CloseQueued(s)'
  <2>1. cmds[i] # Head(cmds)
    BY <1>0, <1>2 DEF Receive, CloseSession
  <2> QED BY <1>0, <1>2, <2>1, TailKeeps DEF Receive, TypeOK
<1>3. CASE HandleCloseSession /\ Head(cmds) # CloseSession(s)
  BY <1>0, <1>3, TailKeeps DEF HandleCloseSession, Receive, TypeOK
<1>4. ASSUME NEW e \in Commands, cmds' = TrySend(cmds, e) PROVE CloseQueued(s)'
  <2>1. cmds \in Seq(Commands)
    BY DEF TypeOK
  <2>2. i \in DOMAIN cmds' /\ cmds'[i] = cmds[i]
    BY <1>0, <1>4, <2>1, TrySendKeeps
  <2>3. CloseSession(s)' = CloseSession(s)
    BY DEF CloseSession
  <2> QED BY <1>0, <2>2, <2>3
<1>5. CASE RunLoop
  BY <1>1, <1>2, <1>3, <1>5 DEF RunLoop, HandleConnection, Notified, Drained,
     HandleShutdown, HandleBroadcast, HandleSendTo
<1>6. ASSUME NEW t \in Ids, Task(t)
      PROVE  UNCHANGED cmds \/ cmds' = TrySend(cmds, CloseSession(t))
  BY <1>6 DEF Task, Teardown, Reply, ReplyTo, TakeOutbound, SendDone, PeerGone,
     SendFailed, CancelIdle, CancelMidSend, Return, EndSession, SignalClose,
     NotifyClose
<1>7. ASSUME NEW c \in Callers, Caller(c)
      PROVE  UNCHANGED cmds \/ \E e \in Commands : cmds' = TrySend(cmds, e)
  BY <1>7, ConstructorTypes DEF Caller, CallShutdown, CallCloseSession,
     CallBroadcast, CallSendTo, CallNotify, Issue
<1>8. CASE PollEvents \/ UNCHANGED vars
  BY <1>1, <1>8 DEF PollEvents, vars
<1> QED BY <1>1, <1>4, <1>5, <1>6, <1>7, <1>8, ConstructorTypes DEF Next

\* The slot of a finished session is pending in the channel or was refused.
THEOREM SlotsSafe == Spec => []SlotAccounted
<1>1. Init => SlotAccounted
  BY DEF Init, SlotAccounted
<1>2. RegistryInv /\ SlotAccounted /\ [Next]_vars => SlotAccounted'
  <2> SUFFICES ASSUME RegistryInv, SlotAccounted, [Next]_vars, NEW s \in Ids,
                      task'[s] \in {"signalled", "done"}, s \in sessions',
                      s \notin lost', loop' # "stopped"
               PROVE  CloseQueued(s)'
    BY DEF SlotAccounted, CloseQueued
  <2> USE DEF RegistryInv
  <2>1. CASE SignalClose(s)
    <3>1. cmds' = Append(cmds, CloseSession(s))
      BY <2>1 DEF SignalClose, TrySend
    <3>2. cmds \in Seq(Commands) /\ CloseSession(s) \in Commands
      BY ConstructorTypes DEF TypeOK
    <3>3. /\ Len(cmds) + 1 \in DOMAIN cmds'
          /\ cmds'[Len(cmds) + 1] = CloseSession(s)
      BY <3>1, <3>2
    <3> QED BY <3>3 DEF CloseQueued
  <2>2. CASE ~SignalClose(s)
    <3>1. /\ task[s] \in {"signalled", "done"}
          /\ s \in sessions
          /\ s \notin lost
          /\ loop # "stopped"
      <4>1. CASE RunLoop
        BY <4>1 DEF RunLoop, HandleConnection, Notified, Drained, HandleShutdown,
           HandleCloseSession, HandleBroadcast, HandleSendTo, Receive, registry,
           TypeOK
      <4>2. ASSUME NEW t \in Ids, Task(t)
            PROVE  /\ UNCHANGED <<loop, registry>>
                   /\ lost \subseteq lost'
                   /\ task'[s] \in {"signalled", "done"} =>
                         task[s] \in {"signalled", "done"}
        BY <2>2, <4>2 DEF Task, Teardown, Reply, ReplyTo, TakeOutbound, SendDone,
           PeerGone, SendFailed, CancelIdle, CancelMidSend, Return, EndSession,
           SignalClose, NotifyClose, TaskStep, TypeOK
      <4>3. ASSUME NEW c \in Callers, Caller(c)
            PROVE  UNCHANGED <<loop, registry, task, lost>>
        BY <4>3 DEF Caller, CallShutdown, CallCloseSession, CallBroadcast,
           CallSendTo, CallNotify, Issue
      <4> QED BY <4>1, <4>2, <4>3 DEF Next, PollEvents, vars, registry
    <3>2. CloseQueued(s)
      BY <3>1 DEF SlotAccounted, CloseQueued
    <3>3. ~(HandleCloseSession /\ Head(cmds) = CloseSession(s))
      BY DEF HandleCloseSession, CloseSession
    <3> QED BY <3>2, <3>3, CloseQueuedKept
  <2> QED BY <2>1, <2>2
<1> QED BY <1>1, <1>2, RegistrySafe, PTL DEF Spec

\* At most max_connections slots are ever occupied.
SlotBound == Cardinality(sessions) <= MaxConnections

\* The ids in the session table are a finite set: ids are handed out in order.
LEMMA SlotsFinite ==
    ASSUME TypeOK
    PROVE  IsFiniteSet(sessions) /\ Cardinality(sessions) \in Nat
<1>1. IsFiniteSet(Ids)
  BY FS_Interval, ServerAssumption
<1>2. IsFiniteSet(sessions)
  BY <1>1, FS_Subset DEF TypeOK
<1> QED BY <1>2, FS_CardinalityType

\* handle_connection inserts a session only below max_connections.
LEMMA SlotsBounded == Spec => []SlotBound
<1>1. Init => SlotBound
  BY FS_EmptySet, ServerAssumption DEF Init, SlotBound
<1>2. TypeOK /\ SlotBound /\ [Next]_vars => SlotBound'
  <2> SUFFICES ASSUME TypeOK, SlotBound, [Next]_vars PROVE SlotBound'
    OBVIOUS
  <2>0. IsFiniteSet(sessions) /\ Cardinality(sessions) \in Nat
    BY SlotsFinite
  <2>1. CASE HandleConnection
    <3>1. Cardinality(sessions') = IF next_id \in sessions
                                   THEN Cardinality(sessions)
                                   ELSE Cardinality(sessions) + 1
      <4>1. sessions' = sessions \cup {next_id}
        BY <2>1 DEF HandleConnection
      <4> QED BY <2>0, <4>1, FS_AddElement
    <3>2. Cardinality(sessions) < MaxConnections
      BY <2>1 DEF HandleConnection
    <3> QED BY <2>0, <3>1, <3>2, ServerAssumption DEF SlotBound
  <2>2. CASE HandleCloseSession
    <3>1. /\ Cardinality(sessions') <= Cardinality(sessions)
          /\ Cardinality(sessions') \in Nat
      BY <2>0, <2>2, FS_Subset, FS_CardinalityType DEF HandleCloseSession
    <3> QED BY <2>0, <3>1, ServerAssumption DEF SlotBound
  <2>3. CASE ~HandleConnection /\ ~HandleCloseSession
    <3>1. UNCHANGED sessions
      BY <2>3 DEF Next, RunLoop, Notified, Drained, HandleShutdown,
         HandleBroadcast, HandleSendTo, Task, Teardown, Reply, ReplyTo,
         TakeOutbound, SendDone, PeerGone, SendFailed, CancelIdle, CancelMidSend,
         Return, EndSession, SignalClose, NotifyClose, Caller, CallShutdown,
         CallCloseSession, CallBroadcast, CallSendTo, CallNotify, Issue,
         PollEvents, vars, registry
    <3> QED BY <3>1 DEF SlotBound
  <2> QED BY <2>1, <2>2, <2>3
<1> QED BY <1>1, <1>2, TypeCorrect, PTL DEF Spec

\* max_connections bounds the connections that were not told to close.
THEOREM ConnectionsBounded == Spec => []ConnectionBound
<1>1. RegistryInv /\ SlotBound => ConnectionBound
  <2> SUFFICES ASSUME RegistryInv, SlotBound PROVE ConnectionBound
    OBVIOUS
  <2> DEFINE Live == {s \in Ids : Open(s) /\ ~Cancelled(s)}
  <2>1. Live \subseteq sessions
    BY DEF RegistryInv, RegistryAgrees, StopsTogether, Cancelled
  <2>2. IsFiniteSet(sessions) /\ Cardinality(sessions) \in Nat
    BY SlotsFinite DEF RegistryInv
  <2>3. /\ Cardinality(Live) <= Cardinality(sessions)
        /\ Cardinality(Live) \in Nat
    BY <2>1, <2>2, FS_Subset, FS_CardinalityType
  <2> HIDE DEF Live
  <2>4. Cardinality(Live) <= MaxConnections
    BY <2>2, <2>3, ServerAssumption DEF SlotBound
  <2> QED BY <2>4 DEF ConnectionBound, Live
<1> QED BY <1>1, RegistrySafe, SlotsBounded, PTL

-----------------------------------------------------------------------------
(* Events.                                                                 *)

\* The handle hears of a session's end after its start and after the
\* connection is gone.
THEOREM EventsSafe == Spec => []EventsTruthful
<1> USE DEF EventsTruthful, Created, Closed, Listening
<1>1. Init => EventsTruthful
  BY DEF Init, TrySend
<1>2. RegistryInv /\ EventsTruthful /\ [Next]_vars => EventsTruthful'
  <2> SUFFICES ASSUME RegistryInv, EventsTruthful, [Next]_vars
               PROVE  EventsTruthful'
    OBVIOUS
  <2> USE DEF RegistryInv
  <2>0. events \in Seq(Events)
    BY DEF TypeOK
  <2>1. CASE HandleConnection
    <3>1. task[next_id] = "none"
      BY <2>1 DEF HandleConnection, FreshIds
    <3>2. CASE events' = events
      BY <2>1, <3>1, <3>2 DEF HandleConnection, TypeOK
    <3>3. CASE events' = Append(events, Created(next_id))
      <4>1. \A i \in DOMAIN events' :
               IF i \in DOMAIN events THEN events'[i] = events[i]
                                      ELSE events'[i] = Created(next_id)
        BY <2>0, <3>3
      <4>2. \A i \in DOMAIN events : events[i] # Closed(next_id)
        BY <2>1, <3>1 DEF HandleConnection
      <4>3. \A s \in Ids : s # next_id => task'[s] = task[s]
        BY <2>1 DEF HandleConnection, TypeOK
      <4> QED BY <4>1, <4>2, <4>3
    <3> QED BY <2>1, <3>2, <3>3 DEF HandleConnection, TrySend
  <2>2. ASSUME NEW s \in Ids, EndSession(s) PROVE EventsTruthful'
    <3>1. task[s] = "returned" /\ task' = [task EXCEPT ![s] = "ended"]
      BY <2>2 DEF EndSession, TaskStep
    <3>2. CASE events' = events
      BY <3>1, <3>2 DEF TypeOK
    <3>3. CASE events' = Append(events, Closed(s))
      <4>1. \A i \in DOMAIN events' :
               IF i \in DOMAIN events THEN events'[i] = events[i] /\ i <= Len(events)
                                      ELSE events'[i] = Closed(s) /\ i = Len(events')
        BY <2>0, <3>3
      <4>2. \A i \in DOMAIN events : events[i] # Closed(s)
        BY <3>1
      <4>3. task'[s] = "ended" /\ \A t \in Ids : t # s => task'[t] = task[t]
        BY <3>1 DEF TypeOK
      <4>4. /\ \A j \in DOMAIN events' : j \in Nat /\ j <= Len(events')
            /\ Len(events') \in Nat
        BY <2>0, <3>3
      <4> SUFFICES ASSUME NEW i \in DOMAIN events', NEW t \in Ids,
                          events'[i] = Closed(t)
                   PROVE  /\ task'[t] \in {"ended", "signalled", "done"}
                          /\ \A j \in DOMAIN events' : j > i =>
                                events'[j] \notin {Created(t), Closed(t)}
        OBVIOUS
      <4>5. CASE i \in DOMAIN events
        BY <4>1, <4>2, <4>3, <4>5
      <4>6. CASE i \notin DOMAIN events
        BY <4>1, <4>3, <4>4, <4>6
      <4> QED BY <4>5, <4>6
    <3> QED BY <2>2, <3>2, <3>3 DEF EndSession, TrySend
  <2>3. CASE PollEvents
    <3>1. \A i \in DOMAIN events' : i + 1 \in DOMAIN events /\ events'[i] = events[i + 1]
      BY <2>0, <2>3 DEF PollEvents
    <3>2. \A i, j \in DOMAIN events' : j > i => j + 1 > i + 1
      BY <2>0, <2>3 DEF PollEvents
    <3>3. \A t \in Ids : task'[t] = task[t]
      BY <2>3 DEF PollEvents
    <3> SUFFICES ASSUME NEW i \in DOMAIN events', NEW t \in Ids,
                        events'[i] = Closed(t)
                 PROVE  /\ task'[t] \in {"ended", "signalled", "done"}
                        /\ \A j \in DOMAIN events' : j > i =>
                              events'[j] \notin {Created(t), Closed(t)}
      OBVIOUS
    <3>4. i + 1 \in DOMAIN events /\ events[i + 1] = Closed(t)
      BY <3>1
    <3> HIDE DEF Created, Closed
    <3>5. ASSUME NEW j \in DOMAIN events', j > i
          PROVE  events'[j] \notin {Created(t), Closed(t)}
      BY <3>1, <3>2, <3>4, <3>5
    <3> QED BY <3>3, <3>4, <3>5
  <2>4. ASSUME /\ UNCHANGED events
               /\ \A s \in Ids : task[s] \in {"ended", "signalled", "done"} =>
                                 task'[s] \in {"ended", "signalled", "done"}
        PROVE  EventsTruthful'
    BY <2>4
  <2>5. CASE RunLoop /\ ~HandleConnection
    BY <2>4, <2>5 DEF RunLoop, Notified, Drained, HandleShutdown,
       HandleCloseSession, HandleBroadcast, HandleSendTo
  <2>6. ASSUME NEW s \in Ids, Task(s), ~EndSession(s) PROVE EventsTruthful'
    <3>1. /\ UNCHANGED events
          /\ \A t \in Ids : task[t] \in {"ended", "signalled", "done"} =>
                            task'[t] \in {"ended", "signalled", "done"}
      BY <2>6 DEF Task, Teardown, Reply, ReplyTo, TakeOutbound, SendDone, PeerGone,
         SendFailed, CancelIdle, CancelMidSend, Return, SignalClose, NotifyClose,
         TaskStep, TypeOK
    <3> QED BY <2>4, <3>1
  <2>7. ASSUME NEW c \in Callers, Caller(c) PROVE EventsTruthful'
    BY <2>4, <2>7 DEF Caller, CallShutdown, CallCloseSession, CallBroadcast,
       CallSendTo, CallNotify, Issue
  <2>8. CASE UNCHANGED vars
    BY <2>4, <2>8 DEF vars
  <2> QED BY <2>1, <2>2, <2>3, <2>5, <2>6, <2>7, <2>8 DEF Next
<1> QED BY <1>1, <1>2, RegistrySafe, PTL DEF Spec
=============================================================================
