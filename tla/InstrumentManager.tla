------------------------- MODULE InstrumentManager -------------------------
(***************************************************************************)
(* InstrumentManager: ironsbe-marketdata/src/instruments.rs.  Of an        *)
(* instrument only its symbol matters here.                                *)
(***************************************************************************)
CONSTANTS
    Ids,
    Symbols

VARIABLES
    instruments,   \* HashMap from id to instrument
    symbol_index,  \* HashMap from symbol to id
    reused         \* history: add was given an id or a symbol that was in use

vars == <<instruments, symbol_index, reused>>

\* The value of a key that is not in a map.
Absent == "absent"

Init ==
    /\ instruments = [i \in Ids |-> Absent]
    /\ symbol_index = [s \in Symbols |-> Absent]
    /\ reused = FALSE

\* add; it may replace an instrument of the same id.
Add(i, s) ==
    /\ symbol_index' = [symbol_index EXCEPT ![s] = i]
    /\ instruments' = [instruments EXCEPT ![i] = s]
    /\ reused' = (reused \/ instruments[i] # Absent \/ \E j \in Ids : instruments[j] = s)

\* Mutant of Remove: the symbol stays in the index.
RemoveKeepsSymbol(i) ==
    /\ instruments[i] # Absent
    /\ instruments' = [instruments EXCEPT ![i] = Absent]
    /\ UNCHANGED <<symbol_index, reused>>

\* remove, when the id is known.
Remove(i) ==
    /\ instruments[i] # Absent
    /\ instruments' = [instruments EXCEPT ![i] = Absent]
    /\ symbol_index' = [symbol_index EXCEPT ![instruments[i]] = Absent]
    /\ UNCHANGED reused

\* get_by_symbol: the symbol of the instrument it returns, if any.
GetBySymbol(s) ==
    IF symbol_index[s] = Absent THEN Absent ELSE instruments[symbol_index[s]]

Next ==
    \/ \E i \in Ids, s \in Symbols : Add(i, s)
    \/ \E i \in Ids : Remove(i)

Spec == Init /\ [][Next]_vars

-----------------------------------------------------------------------------
(* Properties.                                                             *)

\* get_by_symbol returns the instrument of that symbol whenever there is one,
\* and no other, as long as add was given fresh ids and symbols: adding an id
\* again under another symbol, or a symbol under another id, leaves the index
\* behind.
LookupRight ==
    ~reused => \A s \in Symbols :
        /\ symbol_index[s] # Absent => instruments[symbol_index[s]] = s
        /\ (\E i \in Ids : instruments[i] = s) => GetBySymbol(s) = s
=============================================================================
