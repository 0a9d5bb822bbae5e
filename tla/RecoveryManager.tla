-------------------------- MODULE RecoveryManager --------------------------
(***************************************************************************)
(* RecoveryManager: ironsbe-marketdata/src/recovery.rs.  Time is a clock   *)
(* of whole units that moves by itself.                                    *)
(***************************************************************************)
EXTENDS Naturals, Sequences, FiniteSets

CONSTANTS
    Instruments,
    Gaps,         \* the (start_seq, end_seq) pairs asked for
    Timeout,      \* RecoveryManager::timeout
    MaxTime,      \* bound: the clock
    MaxRequests   \* bound: calls of request_recovery

RecoveryAssumption == {Timeout, MaxTime, MaxRequests} \subseteq Nat

VARIABLES
    pending,     \* Vec<RecoveryRequest>, oldest first
    recovering,  \* HashSet of instruments
    now,         \* the clock
    requests,    \* calls of request_recovery
    timed_out    \* what the last check_timeouts returned

vars == <<pending, recovering, now, requests, timed_out>>

Init ==
    /\ pending = <<>>
    /\ recovering = {}
    /\ now = 0
    /\ requests = 0
    /\ timed_out = <<>>

Elements(s) == {s[k] : k \in DOMAIN s}

\* Mutant of Request: a second gap takes the place of the pending request.
RequestReplaces(i, g) ==
    /\ requests < MaxRequests
    /\ requests' = requests + 1
    /\ recovering' = recovering \cup {i}
    /\ pending' = Append(SelectSeq(pending, LAMBDA r : r.id # i),
                         [id |-> i, gap |-> g, at |-> now])
    /\ UNCHANGED <<now, timed_out>>

\* request_recovery
Request(i, g) ==
    /\ requests < MaxRequests
    /\ requests' = requests + 1
    /\ IF i \in recovering
       THEN UNCHANGED <<recovering, pending>>
       ELSE /\ recovering' = recovering \cup {i}
            /\ pending' = Append(pending, [id |-> i, gap |-> g, at |-> now])
    /\ UNCHANGED <<now, timed_out>>

\* complete_recovery
Complete(i) ==
    /\ recovering' = recovering \ {i}
    /\ pending' = SelectSeq(pending, LAMBDA r : r.id # i)
    /\ UNCHANGED <<now, requests, timed_out>>

\* Mutant of CheckTimeouts: the instrument stays in recovering.
CheckTimeoutsKeepsSet ==
    /\ timed_out' = SelectSeq(pending, LAMBDA r : now - r.at > Timeout)
    /\ pending' = SelectSeq(pending, LAMBDA r : now - r.at <= Timeout)
    /\ UNCHANGED <<recovering, now, requests>>

\* check_timeouts hands the requests that are too old back to the caller.
CheckTimeouts ==
    /\ timed_out' = SelectSeq(pending, LAMBDA r : now - r.at > Timeout)
    /\ pending' = SelectSeq(pending, LAMBDA r : now - r.at <= Timeout)
    /\ recovering' = recovering \ {r.id : r \in Elements(timed_out')}
    /\ UNCHANGED <<now, requests>>

Tick ==
    /\ now < MaxTime
    /\ now' = now + 1
    /\ UNCHANGED <<pending, recovering, requests, timed_out>>

Next ==
    \/ \E i \in Instruments, g \in Gaps : Request(i, g)
    \/ \E i \in Instruments : Complete(i)
    \/ CheckTimeouts
    \/ Tick

Spec == Init /\ [][Next]_vars

-----------------------------------------------------------------------------
(* Properties.                                                             *)

Requests == [id : Instruments, gap : Gaps, at : 0..MaxTime]

\* Every variable keeps its type; no request is from the future, so
\* duration_since in check_timeouts never saturates.
TypeOK ==
    /\ pending \in Seq(Requests) /\ \A r \in Elements(pending) : r.at <= now
    /\ recovering \in SUBSET Instruments
    /\ now \in 0..MaxTime
    /\ requests \in 0..MaxRequests
    /\ timed_out \in Seq(Requests)

\* An instrument is in recovery exactly while one request for it is pending:
\* otherwise is_recovering never ends, or a request is never answered for.
RecoveringHasRequest ==
    /\ recovering = {r.id : r \in Elements(pending)}
    /\ Len(pending) = Cardinality(recovering)

\* A pending request ends with the recovery it belongs to, and not before: a
\* second gap of its instrument neither replaces it nor restarts its timeout.
RequestKept ==
    \A r \in Elements(pending) :
        r \notin Elements(pending') => r.id \notin recovering'
=============================================================================
