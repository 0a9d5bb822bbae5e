---------------------------- MODULE AsyncOneshot ----------------------------
(***************************************************************************)
(* AsyncOneshot, OneshotSender and OneshotReceiver:                        *)
(* ironsbe-channel/src/async_bridge.rs.                                    *)
(*                                                                         *)
(* send consumes the sender in two critical sections, its body and then    *)
(* the sender's Drop.  The receiver is a future some task polls; it may be *)
(* polled spuriously or handed to another task.                            *)
(***************************************************************************)
EXTENDS Naturals

CONSTANTS
    Tasks,
    Values

None == 0

OneshotAssumption == None \notin Tasks \cup Values

VARIABLES
    value,     \* OneshotState::value
    waker,     \* OneshotState::waker
    closed,    \* OneshotState::closed
    sender,    \* "held", "dropping" (send returned from its lock) or "gone"
    sent,      \* the value send was called with
    refused,   \* send returned Err(value)
    receiver,  \* "ready" (will be polled), "parked", "done" or "gone"
    owner,     \* the task that polls the receiver
    taken,     \* history: how often a value came out
    answer     \* history: "none" when poll returned Ready(None)

vars == <<value, waker, closed, sender, sent, refused, receiver, owner, taken, answer>>

Init ==
    /\ value = None
    /\ waker = None
    /\ closed = FALSE
    /\ sender = "held"
    /\ sent = None
    /\ refused = FALSE
    /\ receiver = "ready"
    /\ owner \in Tasks
    /\ taken = 0
    /\ answer = "pending"

\* waker.take() and wake(): it reaches the receiver if its task is the one.
TakeWaker ==
    /\ waker' = None
    /\ receiver' = IF receiver = "parked" /\ waker = owner THEN "ready" ELSE receiver

SendRefused(v) ==
    /\ sender = "held"
    /\ closed
    /\ sender' = "dropping"
    /\ sent' = v
    /\ refused' = TRUE
    /\ UNCHANGED <<value, waker, closed, receiver, owner, taken, answer>>

Send(v) ==
    /\ sender = "held"
    /\ ~closed
    /\ sender' = "dropping"
    /\ sent' = v
    /\ value' = v
    /\ TakeWaker
    /\ UNCHANGED <<closed, refused, owner, taken, answer>>

\* Mutant of DropSender: closed is not set.
DropSenderStaysOpen ==
    /\ sender # "gone"
    /\ sender' = "gone"
    /\ TakeWaker
    /\ UNCHANGED <<value, closed, sent, refused, owner, taken, answer>>

\* OneshotSender::drop, after send or instead of it.
DropSender ==
    /\ sender # "gone"
    /\ sender' = "gone"
    /\ closed' = TRUE
    /\ TakeWaker
    /\ UNCHANGED <<value, sent, refused, owner, taken, answer>>

Awaited == receiver \in {"ready", "parked"}

PollValue ==
    /\ Awaited
    /\ value # None
    /\ value' = None
    /\ taken' = taken + 1
    /\ receiver' = "done"
    /\ answer' = "some"
    /\ UNCHANGED <<waker, closed, sender, sent, refused, owner>>

\* Mutant of PollClosed: closed is tested before the value.
PollClosedFirst ==
    /\ Awaited
    /\ closed
    /\ receiver' = "done"
    /\ answer' = "none"
    /\ UNCHANGED <<value, waker, closed, sender, sent, refused, owner, taken>>

PollClosed ==
    /\ Awaited
    /\ value = None
    /\ closed
    /\ receiver' = "done"
    /\ answer' = "none"
    /\ UNCHANGED <<value, waker, closed, sender, sent, refused, owner, taken>>

PollPending ==
    /\ Awaited
    /\ value = None
    /\ ~closed
    /\ waker' = owner
    /\ receiver' = "parked"
    /\ UNCHANGED <<value, closed, sender, sent, refused, owner, taken, answer>>

\* The receiver moves to task t, which will poll it.
Move(t) ==
    /\ Awaited
    /\ owner' = t
    /\ receiver' = "ready"
    /\ UNCHANGED <<value, waker, closed, sender, sent, refused, taken, answer>>

\* try_recv; it changes nothing when there is no value.
TryRecv ==
    /\ receiver # "gone"
    /\ value # None
    /\ value' = None
    /\ taken' = taken + 1
    /\ UNCHANGED <<waker, closed, sender, sent, refused, receiver, owner, answer>>

DropReceiver ==
    /\ receiver # "gone"
    /\ receiver' = "gone"
    /\ closed' = TRUE
    /\ UNCHANGED <<value, waker, sender, sent, refused, owner, taken, answer>>

Poll == PollValue \/ PollClosed \/ PollPending

Next ==
    \/ \E v \in Values : Send(v) \/ SendRefused(v)
    \/ DropSender
    \/ Poll \/ TryRecv \/ DropReceiver
    \/ \E t \in Tasks : Move(t)

Spec == Init /\ [][Next]_vars

\* The executor polls a woken task; a sender that was used is dropped at the
\* end of send.
Fairness ==
    /\ WF_vars(receiver = "ready" /\ (PollValue \/ PollClosed))
    /\ WF_vars(sender = "dropping" /\ DropSender)

-----------------------------------------------------------------------------
(* Properties.                                                             *)

\* Every variable keeps its type, and a value send accepted comes out at
\* most once, a refused one never.
TypeOK ==
    /\ value \in Values \cup {None}
    /\ waker \in Tasks \cup {None}
    /\ closed \in BOOLEAN
    /\ sender \in {"held", "dropping", "gone"}
    /\ sent \in Values \cup {None}
    /\ refused \in BOOLEAN
    /\ receiver \in {"ready", "parked", "done", "gone"}
    /\ owner \in Tasks
    /\ answer \in {"pending", "some", "none"}
    /\ taken + (IF value = None THEN 0 ELSE 1) = (IF sent = None \/ refused THEN 0 ELSE 1)

\* poll answers None only when no value can come any more: the sender was
\* dropped unused, or try_recv had taken the value.  The Drop that follows
\* every send must not hide the value it sent.
NoneIsHonest ==
    answer = "none" => value = None /\ sender # "held" /\ (sent = None \/ taken = 1)

\* Every wait ends once the sender is used or dropped.
WaitEnds == (sender # "held" /\ Awaited) ~> ~Awaited
=============================================================================
