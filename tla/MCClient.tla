------------------------------ MODULE MCClient ------------------------------
(* Instances of Client for TLC.                                            *)
EXTENDS Client, TLC

Reconnect(enabled, max_attempts) ==
    [enabled |-> enabled, max_attempts |-> max_attempts, initial_delay |-> 2,
     max_delay |-> 3, backoff_multiplier |-> 2]

\* Disabled; attempts that run out before the failures do; unlimited attempts.
AllReconnects == {Reconnect(FALSE, 0), Reconnect(TRUE, 2), Reconnect(TRUE, 0)}

UnlimitedReconnects == {Reconnect(TRUE, 0)}
=============================================================================
