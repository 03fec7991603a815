-------------------------- MODULE MCQueryPlanner --------------------------
(***************************************************************************)
(* QueryPlanner and its two kinds of callers for TLC: one that adds and    *)
(* plans what it likes, with mappings of two instruments, with and without *)
(* a venue and a source, and queries of every shape over a five-instant    *)
(* clock; and the program of CostGate, with a minute of two instants, a    *)
(* cost on each side of every limit, and ranges that can be reduced, are a *)
(* minute already, or start too late for one.                              *)
(***************************************************************************)
EXTENDS CostGate

Range(s, e) == [start |-> s, end |-> e]

MCRequests == {Range(0, 3), Range(1, 3), Range(3, 4)}

MCQueries ==
  LET base == [instrument |-> 1, venue |-> None, event |-> {Range(0, 3)},
               receive |-> {}, policy |-> "derive", margin |-> [before |-> 0, after |-> 1]]
  IN  { base,
        [base EXCEPT !.venue = 1],
        [base EXCEPT !.event = {Range(1, 3)}, !.margin = [before |-> 1, after |-> 0]],
        [base EXCEPT !.margin = [before |-> 1, after |-> 2]],
        [base EXCEPT !.policy = "explicit"],
        [base EXCEPT !.policy = "explicit", !.receive = {Range(1, 4)}],
        [base EXCEPT !.event = {}, !.receive = {Range(0, 2)}] }
  \union {QueryOf(r) : r \in MCRequests \union {Range(0, 2)}}

MCCosts == {NaN, 0, Target, Target + 1, HardCeiling, HardCeiling + 1, Infinity}
=============================================================================
