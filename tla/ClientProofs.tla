---------------------------- MODULE ClientProofs ----------------------------
(***************************************************************************)
(* Safety of the client for every set of payloads, every channel capacity, *)
(* every set of reconnect configurations and any number of failures.       *)
(***************************************************************************)
EXTENDS Client, TLAPS

\* attempts and reconnects count the same failures from two sides: on_failure
\* is one ahead of run's loop only while the loop sleeps, and attempts stays
\* below max_attempts in every state from which another connect can follow.
RetryInv ==
    /\ phase \in {"connecting", "select", "drain", "sending", "failed", "stopped"} =>
           attempts = reconnects
    /\ phase = "sleeping" => attempts = Counted(reconnects) /\ config.enabled
    /\ phase \notin {"gave_up", "dropped"} =>
           (config.max_attempts > 0 => attempts < config.max_attempts)
    /\ current_delay <= config.max_delay \/ config.initial_delay > config.max_delay

\* A message is being written while the task is in session.send.
FlightInv == phase = "sending" => Len(flight) = 1

\* The inductive invariant behind TypeOK.
TypeInv == TypeOK /\ RetryInv /\ FlightInv

\* A Send command carries one of the payloads.
LEMMA CommandFields ==
    ASSUME NEW c \in Commands
    PROVE  c.op = "Send" => c.msg \in Msgs
  BY DEF Commands, Disconnect, Send

\* The constructors build commands.
LEMMA ConstructorTypes ==
    /\ Disconnect \in Commands
    /\ \A m \in Msgs : Send(m) \in Commands
  BY DEF Commands

\* SpscSender::send keeps a channel's type and its capacity.
LEMMA SpscSendType ==
    ASSUME NEW T, NEW q \in Seq(T), NEW e \in T, NEW closed, Len(q) <= ChannelCapacity
    PROVE  SpscSend(q, e, closed) \in Seq(T) /\ Len(SpscSend(q, e, closed)) <= ChannelCapacity
  BY ClientAssumption DEF SpscSend

\* A configuration's numbers are numbers.
LEMMA ConfigFields ==
    ASSUME config \in Configs
    PROVE  /\ config.enabled \in BOOLEAN
           /\ config.max_attempts \in Nat
           /\ config.initial_delay \in Nat
           /\ config.max_delay \in Nat
           /\ config.backoff_multiplier \in Nat
  BY ClientAssumption

\* An event that the task emits leaves the event channel well-typed.
LEMMA EmitType ==
    ASSUME TypeOK, NEW e \in Events, Emit(e)
    PROVE  events' \in Seq(Events) /\ Len(events') <= ChannelCapacity /\ announce' \in BOOLEAN
  BY SpscSendType DEF TypeOK, Emit

\* The message in flight is the sequence's only element.
LEMMA OneElement ==
    ASSUME NEW T, NEW q \in Seq(T), Len(q) = 1
    PROVE  q[1] \in T
  OBVIOUS

\* The next delay is one min() of the code: at most max_delay.
LEMMA LeastType ==
    ASSUME NEW a \in Nat, NEW b \in Nat, NEW c \in Nat
    PROVE  Least(a * b, c) \in Nat /\ Least(a * b, c) <= c
  <1>1. a * b \in Nat
    OBVIOUS
  <1> QED
    BY <1>1 DEF Least

\* Every variable keeps its type, both channels respect their capacity, and the
\* retries of run respect max_attempts and max_delay, for every configuration.
THEOREM TypeCorrect == Spec => []TypeOK
<1>1. Init => TypeInv
  <2> SUFFICES ASSUME Init PROVE TypeInv
    OBVIOUS
  <2>1. config.max_attempts \in Nat /\ config.initial_delay \in Nat /\ config.max_delay \in Nat
    BY ConfigFields DEF Init
  <2>2. announce \in BOOLEAN /\ cmd_permit \in BOOLEAN /\ event_permit \in BOOLEAN /\ eof \in BOOLEAN
    BY Zenon DEF Init
  <2>3. RetriesBounded /\ RetryInv /\ FlightInv
    BY <2>1 DEF Init, RetriesBounded, RetryInv, FlightInv, Counted
  <2> QED
    BY <2>1, <2>2, <2>3, ClientAssumption DEF Init, TypeInv, TypeOK, Phases
<1>2. TypeInv /\ [Next]_vars => TypeInv'
  <2> SUFFICES ASSUME TypeInv, [Next]_vars PROVE TypeInv'
    OBVIOUS
  <2> USE DEF TypeInv, TypeOK, RetriesBounded, RetryInv, FlightInv, Phases, Counted, TaskStep,
              HandleStep, reconnect, traffic
  <2>0. /\ config.enabled \in BOOLEAN /\ config.max_attempts \in Nat
        /\ config.initial_delay \in Nat /\ config.max_delay \in Nat
        /\ config.backoff_multiplier \in Nat
    BY ConfigFields
  <2>1. CASE NotifyEvent
    <3>1. announce' \in BOOLEAN /\ event_permit' \in BOOLEAN
      BY <2>1, Zenon DEF NotifyEvent
    <3> QED
      BY <2>0, <2>1, <3>1 DEF NotifyEvent
  <2>2. CASE ConnectOk
    <3>1. events' \in Seq(Events) /\ Len(events') <= ChannelCapacity /\ announce' \in BOOLEAN
      BY <2>2, EmitType DEF ConnectOk, Events
    <3>2. RetriesBounded' /\ RetryInv' /\ FlightInv'
      BY <2>0, <2>2 DEF ConnectOk
    <3>3. TypeOK'
      <4> HIDE DEF RetriesBounded
      <4> QED
        BY <2>0, <2>2, <3>1, <3>2, ClientAssumption DEF ConnectOk
    <3> QED
      BY <3>2, <3>3 DEF TypeInv
  <2>3. CASE ConnectFail
    BY <2>0, <2>3, ClientAssumption DEF ConnectFail
  <2>4. CASE Notified
    BY <2>0, <2>4, ClientAssumption DEF Notified
  <2>5. CASE RecvMessage
    <3>1. events' \in Seq(Events) /\ Len(events') <= ChannelCapacity /\ announce' \in BOOLEAN
      BY <2>5, EmitType DEF RecvMessage, Events
    <3>2. RetriesBounded' /\ RetryInv' /\ FlightInv'
      BY <2>0, <2>5 DEF RecvMessage
    <3>3. TypeOK'
      <4> HIDE DEF RetriesBounded
      <4> QED
        BY <2>0, <2>5, <3>1, <3>2, ClientAssumption DEF RecvMessage
    <3> QED
      BY <3>2, <3>3 DEF TypeInv
  <2>6. CASE RecvEnd
    BY <2>0, <2>6, ClientAssumption DEF RecvEnd
  <2>7. CASE Drained
    BY <2>0, <2>7, ClientAssumption DEF Drained
  <2>8. CASE TakeSend
    BY <2>0, <2>8, CommandFields, ClientAssumption DEF TakeSend
  <2>9. CASE TakeDisconnect
    BY <2>0, <2>9, ClientAssumption DEF TakeDisconnect
  <2>10. CASE SendOk
    BY <2>0, <2>10, ClientAssumption DEF SendOk
  <2>11. CASE SendFail
    <3>1. flight[1] \in Msgs
      <4>1. flight \in Seq(Msgs) /\ Len(flight) = 1
        BY <2>11 DEF SendFail
      <4> QED
        BY <4>1, OneElement
    <3>2. failed' \in SUBSET Msgs /\ flight' \in Seq(Msgs)
      BY <2>11, <3>1, ClientAssumption DEF SendFail
    <3> QED
      BY <2>0, <2>11, <3>2 DEF SendFail
  <2>12. CASE GiveUp
    BY <2>0, <2>12, ClientAssumption DEF GiveUp
  <2>13. CASE Backoff
    <3>1. events' \in Seq(Events) /\ Len(events') <= ChannelCapacity /\ announce' \in BOOLEAN
      BY <2>13, EmitType DEF Backoff, Events
    <3>2. current_delay' \in Nat /\ current_delay' <= config.max_delay
      BY <2>0, <2>13, LeastType DEF Backoff
    <3>3. RetriesBounded' /\ RetryInv' /\ FlightInv'
      <4>1. RetriesBounded'
        BY <2>0, <2>13 DEF Backoff
      <4>2. RetryInv'
        BY <2>0, <2>13, <3>2 DEF Backoff
      <4>3. FlightInv'
        BY <2>13 DEF Backoff
      <4> QED
        BY <4>1, <4>2, <4>3
    <3>4. TypeOK'
      <4> HIDE DEF RetriesBounded
      <4> QED
        BY <2>0, <2>13, <3>1, <3>2, <3>3, ClientAssumption DEF Backoff
    <3> QED
      BY <3>3, <3>4 DEF TypeInv
  <2>14. CASE Retry
    BY <2>0, <2>14, ClientAssumption DEF Retry
  <2>15. CASE DropClient
    BY <2>0, <2>15, ClientAssumption DEF DropClient
  <2>16. ASSUME NEW m \in Msgs, HandleSend(m) PROVE TypeInv'
    BY <2>0, <2>16, ConstructorTypes, ClientAssumption DEF HandleSend
  <2>17. CASE HandleDisconnect
    BY <2>0, <2>17, ConstructorTypes, SpscSendType, ClientAssumption DEF HandleDisconnect
  <2>18. CASE HandleNotify
    BY <2>0, <2>18, ClientAssumption DEF HandleNotify
  <2>19. CASE Poll
    BY <2>0, <2>19, ClientAssumption DEF Poll
  <2>20. CASE WaitCall
    BY <2>0, <2>20, ClientAssumption DEF WaitCall
  <2>21. CASE WaitRecv
    BY <2>0, <2>21, ClientAssumption DEF WaitRecv
  <2>22. CASE WaitCheck
    BY <2>0, <2>22, ClientAssumption DEF WaitCheck
  <2>23. CASE WaitWake
    <3>1. event_permit' \in BOOLEAN
      BY <2>23, Zenon DEF WaitWake
    <3> QED
      BY <2>0, <2>23, <3>1 DEF WaitWake
  <2>24. CASE DropHandle
    BY <2>0, <2>24, ClientAssumption DEF DropHandle
  <2>25. CASE UNCHANGED vars
    BY <2>25 DEF vars
  <2> QED
    BY <2>1, <2>2, <2>3, <2>4, <2>5, <2>6, <2>7, <2>8, <2>9, <2>10, <2>11, <2>12, <2>13, <2>14, <2>15, <2>16, <2>17, <2>18, <2>19, <2>20, <2>21, <2>22, <2>23, <2>24, <2>25 DEF Next, Task, Handle
<1>3. TypeInv => TypeOK
  BY DEF TypeInv
<1> QED
  BY <1>1, <1>2, <1>3, PTL DEF Spec

\* NothingStranded in the phases between which a queued command can travel: the
\* permit outlives a lost connection, the sleep and the next connect, and a
\* waiter that has seen an empty channel parks with the permit already stored
\* when an event came in between.
WakeInv ==
    /\ (cmds # <<>> /\ failed = {} /\
            phase \in {"connecting", "select", "failed", "sleeping"}) =>
           cmd_permit \/ handle = "notify"
    /\ (handle \in {"wait_check", "parked"} /\ events # <<>>) => event_permit \/ announce

\* The task never sits in its select! over a queued command without a stored
\* permit or a notify_one to come, unless a write has failed, and a parked
\* wait_event is never left alone with an event, for every interleaving.
THEOREM WakeupSafe == Spec => []NothingStranded
<1>1. Init => WakeInv
  BY DEF Init, WakeInv
<1>2. TypeOK /\ WakeInv /\ [Next]_vars => WakeInv'
  <2> SUFFICES ASSUME TypeOK, WakeInv, [Next]_vars PROVE WakeInv'
    OBVIOUS
  <2> USE DEF WakeInv, TaskStep, HandleStep, Emit, SpscSend, traffic
  <2>1. CASE NotifyEvent
    BY <2>1 DEF NotifyEvent
  <2>2. CASE ConnectOk
    BY <2>2 DEF ConnectOk
  <2>3. CASE ConnectFail
    BY <2>3 DEF ConnectFail
  <2>4. CASE Notified
    BY <2>4 DEF Notified
  <2>5. CASE RecvMessage
    BY <2>5 DEF RecvMessage
  <2>6. CASE RecvEnd
    BY <2>6 DEF RecvEnd
  <2>7. CASE Drained
    BY <2>7 DEF Drained
  <2>8. CASE TakeSend
    BY <2>8 DEF TakeSend
  <2>9. CASE TakeDisconnect
    BY <2>9 DEF TakeDisconnect
  <2>10. CASE SendOk
    BY <2>10 DEF SendOk
  <2>11. CASE SendFail
    BY <2>11 DEF SendFail
  <2>12. CASE GiveUp
    BY <2>12 DEF GiveUp
  <2>13. CASE Backoff
    BY <2>13 DEF Backoff
  <2>14. CASE Retry
    BY <2>14 DEF Retry
  <2>15. CASE DropClient
    BY <2>15 DEF DropClient
  <2>16. ASSUME NEW m \in Msgs, HandleSend(m) PROVE WakeInv'
    BY <2>16 DEF HandleSend
  <2>17. CASE HandleDisconnect
    BY <2>17 DEF HandleDisconnect
  <2>18. CASE HandleNotify
    BY <2>18 DEF HandleNotify
  <2>19. CASE Poll
    BY <2>19 DEF Poll
  <2>20. CASE WaitCall
    BY <2>20 DEF WaitCall
  <2>21. CASE WaitRecv
    BY <2>21 DEF WaitRecv
  <2>22. CASE WaitCheck
    BY <2>22 DEF WaitCheck
  <2>23. CASE WaitWake
    BY <2>23 DEF WaitWake
  <2>24. CASE DropHandle
    BY <2>24 DEF DropHandle
  <2>25. CASE UNCHANGED vars
    BY <2>25 DEF vars
  <2> QED
    BY <2>1, <2>2, <2>3, <2>4, <2>5, <2>6, <2>7, <2>8, <2>9, <2>10, <2>11, <2>12, <2>13, <2>14, <2>15, <2>16, <2>17, <2>18, <2>19, <2>20, <2>21, <2>22, <2>23, <2>24, <2>25 DEF Next, Task, Handle
<1>3. WakeInv => NothingStranded
  BY DEF WakeInv, NothingStranded
<1> QED
  BY <1>1, <1>2, <1>3, TypeCorrect, PTL DEF Spec

\* Once wait_event has returned None the client is gone and its event channel is
\* empty for good.
THEOREM NoneSafe == Spec => []NoneIsFinal
<1>1. Init => NoneIsFinal
  BY DEF Init, NoneIsFinal
<1>2. TypeOK /\ NoneIsFinal /\ [Next]_vars => NoneIsFinal'
  <2> SUFFICES ASSUME TypeOK, NoneIsFinal, [Next]_vars PROVE NoneIsFinal'
    OBVIOUS
  <2> USE DEF NoneIsFinal, TaskStep, HandleStep, Emit, SpscSend, traffic
  <2>1. CASE NotifyEvent
    BY <2>1 DEF NotifyEvent
  <2>2. CASE ConnectOk
    BY <2>2 DEF ConnectOk
  <2>3. CASE ConnectFail
    BY <2>3 DEF ConnectFail
  <2>4. CASE Notified
    BY <2>4 DEF Notified
  <2>5. CASE RecvMessage
    BY <2>5 DEF RecvMessage
  <2>6. CASE RecvEnd
    BY <2>6 DEF RecvEnd
  <2>7. CASE Drained
    BY <2>7 DEF Drained
  <2>8. CASE TakeSend
    BY <2>8 DEF TakeSend
  <2>9. CASE TakeDisconnect
    BY <2>9 DEF TakeDisconnect
  <2>10. CASE SendOk
    BY <2>10 DEF SendOk
  <2>11. CASE SendFail
    BY <2>11 DEF SendFail
  <2>12. CASE GiveUp
    BY <2>12 DEF GiveUp
  <2>13. CASE Backoff
    BY <2>13 DEF Backoff
  <2>14. CASE Retry
    BY <2>14 DEF Retry
  <2>15. CASE DropClient
    BY <2>15 DEF DropClient
  <2>16. ASSUME NEW m \in Msgs, HandleSend(m) PROVE NoneIsFinal'
    BY <2>16 DEF HandleSend
  <2>17. CASE HandleDisconnect
    BY <2>17 DEF HandleDisconnect
  <2>18. CASE HandleNotify
    BY <2>18 DEF HandleNotify
  <2>19. CASE Poll
    BY <2>19 DEF Poll
  <2>20. CASE WaitCall
    BY <2>20 DEF WaitCall
  <2>21. CASE WaitRecv
    BY <2>21 DEF WaitRecv
  <2>22. CASE WaitCheck
    BY <2>22 DEF WaitCheck
  <2>23. CASE WaitWake
    BY <2>23 DEF WaitWake
  <2>24. CASE DropHandle
    BY <2>24 DEF DropHandle
  <2>25. CASE UNCHANGED vars
    BY <2>25 DEF vars
  <2> QED
    BY <2>1, <2>2, <2>3, <2>4, <2>5, <2>6, <2>7, <2>8, <2>9, <2>10, <2>11, <2>12, <2>13, <2>14, <2>15, <2>16, <2>17, <2>18, <2>19, <2>20, <2>21, <2>22, <2>23, <2>24, <2>25 DEF Next, Task, Handle
<1> QED
  BY <1>1, <1>2, TypeCorrect, PTL DEF Spec
=============================================================================
