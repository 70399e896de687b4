----------------------------- MODULE StockLedger -----------------------------
(***************************************************************************)
(* InventoryService as its callers think of it: every call takes effect    *)
(* at once, for all of its lines or for none, on the quantities it read.   *)
(* OrderFulfilment served one request at a time implements this module;    *)
(* with requests that overlap it does not (README, "What overlapping       *)
(* requests break").                                                       *)
(***************************************************************************)
EXTENDS Integers, Sequences, StockRows

CONSTANTS Slots, Refs, Calls(_), InitPresent, InitLevel

\* Calls(r) is the set of calls made for reference r: a kind and the lines,
\* each a slot and a quantity.

VARIABLES present, level, goods, applied

vars == <<present, level, goods, applied>>

\* The stock after the first n lines of a call, if all of them are accepted.
\* `ok` is FALSE from the first line that is refused.
Prefix(call) ==
    LET line(n) == call.lines[n]
        step(st, l) ==
            IF Skips(call.kind, l.slot \in st.present) THEN st
            ELSE [ok |-> st.ok /\ Accepts(call.kind, l.slot \in st.present, st.level[l.slot], l.qty),
                  present |-> st.present \cup {l.slot},
                  level |-> [st.level EXCEPT ![l.slot] = After(call.kind, @, l.qty)],
                  goods |-> [st.goods EXCEPT ![l.slot] = @ + GoodsMoved(call.kind, l.qty)]]
        run[n \in 0 .. Len(call.lines)] ==
            IF n = 0 THEN [ok |-> TRUE, present |-> present, level |-> level, goods |-> goods]
            ELSE step(run[n - 1], line(n))
    IN  run[Len(call.lines)]

Init ==
    /\ present = InitPresent
    /\ level = InitLevel
    /\ goods = [s \in Slots |-> 0]
    /\ applied = [r \in Refs |-> [k \in Kinds |-> 0]]

Commit(r, call) ==
    LET after == Prefix(call)
    IN  /\ after.ok
        /\ present' = after.present
        /\ level' = after.level
        /\ goods' = after.goods
        /\ applied' = [applied EXCEPT ![r][call.kind] = @ + 1]

Next == \E r \in Refs : \E call \in Calls(r) : Commit(r, call)

Spec == Init /\ [][Next]_vars
=============================================================================
