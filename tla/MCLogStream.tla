---------------------------- MODULE MCLogStream ----------------------------
(***************************************************************************)
(* Ticks 5, 6 and 7: a log of key a, a small transfer of key b, a log of   *)
(* key a.                                                                  *)
(***************************************************************************)
EXTENDS LogStream

CONSTANTS a, b

MCLogTick == [l \in Logs |-> <<5, 6, 7>>[l + 1]]
MCLogKey == [l \in Logs |-> <<a, b, a>>[l + 1]]

Plain(K, mode, at) ==
    [keys |-> K, mode |-> mode, cursor |-> at, min |-> "absent"]

MCMessages ==
    {Plain(K, "live", 0) : K \in {{}, {a}}}
        \cup {Plain({a, b}, "tick", t) : t \in {5, 7}}
        \cup {Plain({a}, "logId", l) : l \in {-1, 0}}
        \cup {Plain({a}, "keep", 0), Plain({b}, "badId", 0)}
        \cup {[Plain({b}, "live", 0) EXCEPT !.min = "on"]}
=============================================================================
