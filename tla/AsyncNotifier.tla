---------------------------- MODULE AsyncNotifier ----------------------------
(***************************************************************************)
(* AsyncNotifier and NotifyFuture: ironsbe-channel/src/async_bridge.rs.    *)
(*                                                                         *)
(* Every operation is one critical section of the state's mutex.  A task   *)
(* polls its NotifyFuture when the executor runs it; after Pending it is   *)
(* parked until its waker is called (or the executor polls it anyway, as   *)
(* a select! or join! does).                                               *)
(***************************************************************************)
EXTENDS Naturals, FiniteSets

CONSTANTS
    Tasks,
    MaxWaiting,  \* how many tasks wait at a time
    MaxCalls     \* bound: calls of notify and reset

None == 0

NotifierAssumption == MaxWaiting \in Nat /\ MaxCalls \in Nat /\ None \notin Tasks

VARIABLES
    notified,  \* NotifierState::notified
    waker,     \* NotifierState::waker: a task or None
    task,      \* per task: "idle", "ready" (will be polled) or "parked"
    returned,  \* history: waits that returned Ready
    notifies,  \* calls of notify
    resets     \* calls of reset

vars == <<notified, waker, task, returned, notifies, resets>>

Init ==
    /\ notified = FALSE
    /\ waker = None
    /\ task = [t \in Tasks |-> "idle"]
    /\ returned = 0
    /\ notifies = 0
    /\ resets = 0

Waiting == {t \in Tasks : task[t] # "idle"}

Wake(t) == [u \in Tasks |-> IF u = t /\ task[u] = "parked" THEN "ready" ELSE task[u]]

notify ==
    /\ notifies < MaxCalls
    /\ notifies' = notifies + 1
    /\ notified' = TRUE
    /\ waker' = None
    /\ task' = Wake(waker)
    /\ UNCHANGED <<returned, resets>>

reset ==
    /\ resets < MaxCalls
    /\ resets' = resets + 1
    /\ notified' = FALSE
    /\ UNCHANGED <<waker, task, returned, notifies>>

\* A task calls wait and will be polled.
wait(t) ==
    /\ task[t] = "idle"
    /\ Cardinality(Waiting) < MaxWaiting
    /\ task' = [task EXCEPT ![t] = "ready"]
    /\ UNCHANGED <<notified, waker, returned, notifies, resets>>

PollReady(t) ==
    /\ task[t] # "idle"
    /\ notified
    /\ notified' = FALSE
    /\ task' = [task EXCEPT ![t] = "idle"]
    /\ returned' = returned + 1
    /\ UNCHANGED <<waker, notifies, resets>>

\* Mutant of PollPending: a stored waker is not replaced.
PollPendingKeepsWaker(t) ==
    /\ task[t] # "idle"
    /\ ~notified
    /\ waker' = IF waker = None THEN t ELSE waker
    /\ task' = [task EXCEPT ![t] = "parked"]
    /\ UNCHANGED <<notified, returned, notifies, resets>>

PollPending(t) ==
    /\ task[t] # "idle"
    /\ ~notified
    /\ waker' = t
    /\ task' = [task EXCEPT ![t] = "parked"]
    /\ UNCHANGED <<notified, returned, notifies, resets>>

\* The future is dropped before it is Ready (a timeout, a select!); its waker
\* stays behind.
Cancel(t) ==
    /\ task[t] # "idle"
    /\ task' = [task EXCEPT ![t] = "idle"]
    /\ UNCHANGED <<notified, waker, returned, notifies, resets>>

Poll(t) == PollReady(t) \/ PollPending(t)

Next ==
    \/ notify
    \/ reset
    \/ \E t \in Tasks : wait(t) \/ Poll(t) \/ Cancel(t)

Spec == Init /\ [][Next]_vars

-----------------------------------------------------------------------------
(* Properties.                                                             *)

\* Every variable keeps its type, and a wait returns at most once per notify:
\* poll consumes the notification.
TypeOK ==
    /\ notified \in BOOLEAN
    /\ waker \in Tasks \cup {None}
    /\ task \in [Tasks -> {"idle", "ready", "parked"}]
    /\ notifies \in 0..MaxCalls
    /\ resets \in 0..MaxCalls
    /\ returned + (IF notified THEN 1 ELSE 0) <= notifies

\* No lost wakeup: while a notification is pending, some waiting task is
\* going to be polled (notify: "Notifies the waiting task").  It holds when
\* one task waits at a time, cancelled waits and resets included; the single
\* waker slot loses the wakeup of all but the last of several waiters.
NotifyWakes ==
    (notified /\ Waiting # {}) => \E t \in Waiting : task[t] = "ready"
=============================================================================
