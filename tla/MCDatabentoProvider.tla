------------------------ MODULE MCDatabentoProvider -----------------------
(* DatabentoProvider for TLC: days of two instants, of which one does not    *)
(* start at midnight for any range, registries with every kind of identity,  *)
(* queries with a margin, a receive range and a venue, and messages of every *)
(* action with the fields that decide what becomes of them.                  *)
EXTENDS DatabentoProvider

MCMinTime == -1

Range(s, e) == [start |-> s, end |-> e]

Map(venue, source, id, range) ==
  [instrument |-> 1, provider |-> "databento", venue |-> venue, source |-> source,
   provider_id |-> id, range |-> range]

MCRegistries ==
  { {Map(1, 1, 7, Range(1, 3)), Map(2, 1, 0, Range(0, 4))},
    {Map(1, 1, 9, Range(0, 1)), Map(None, 1, 7, Range(0, 1)), Map(1, None, 7, Range(0, 1))} }

MCQueries ==
  LET base == [instrument |-> 1, venue |-> None, event |-> {Range(0, 3)},
               receive |-> {}, policy |-> "derive", margin |-> [before |-> 0, after |-> 0]]
  IN  { base, [base EXCEPT !.venue = 1], [base EXCEPT !.receive = {Range(2, 5)}],
        [base EXCEPT !.margin = [before |-> 1, after |-> 1]] }

MCDayConditions ==
  { [d \in {} |-> "available"],
    [d \in 0..2 |-> "available"],
    [d \in 0..2 |-> IF d = 1 THEN "missing" ELSE "available"],
    [d \in 0..1 |-> IF d = 0 THEN "pending" ELSE "degraded"],
    [d \in 0..2 |-> IF d = 2 THEN "missing" ELSE "pending"],
    [d \in 0..2 |-> IF d = 0 THEN "available" ELSE "degraded"] }

AllFields == {"order", "side", "price", "size"}

Msg(action, fields) ==
  [unreadable |-> FALSE, instrument |-> 7, time |-> 1, receive |-> {2}, fields |-> fields,
   zero |-> FALSE, flags |-> {}, action |-> action]

MCMessages ==
  { Msg("Add", AllFields), Msg("Add", AllFields \ {"price"}), Msg("Modify", {"order", "size"}),
    Msg("Cancel", AllFields), Msg("Clear", AllFields), Msg("Trade", AllFields \ {"order"}),
    Msg("Trade", {"size"}), Msg("Fill", {"order", "size"}), Msg("Fill", {"size"}),
    Msg("None", {}), Msg("other", AllFields),
    [Msg("Trade", AllFields) EXCEPT !.zero = TRUE],
    [Msg("Add", AllFields) EXCEPT !.time = 0],
    [Msg("Add", AllFields) EXCEPT !.receive = {}],
    [Msg("Add", AllFields) EXCEPT !.receive = {4}, !.flags = {"bad_receive"}],
    [Msg("None", {}) EXCEPT !.flags = {"bad_book"}],
    [Msg("Add", AllFields) EXCEPT !.instrument = 8],
    [Msg("Add", AllFields) EXCEPT !.unreadable = TRUE] }
=============================================================================
