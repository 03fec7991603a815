---------------------------- MODULE MCIngestor ----------------------------
(* Ingestor for TLC: four registries (a gap, a scoped mapping beside an open *)
(* one, no source, nothing), queries with and without a venue and a        *)
(* receive range, and provider answers that combine up to two              *)
(* records with up to two pieces of evidence.                               *)
EXTENDS IngestorRefinement

Range(s, e) == [start |-> s, end |-> e]

Map(v, s, range) ==
  [instrument |-> 1, provider |-> "databento", venue |-> v, source |-> s,
   provider_id |-> 1, range |-> range]

MCRegistries ==
  { {},
    {Map(1, 1, Range(0, 1)), Map(1, 1, Range(2, 3))},
    {Map(None, None, Range(0, 3)), Map(1, 1, Range(1, 2))},
    {Map(1, None, Range(0, 2))} }

MCQueries ==
  LET base == [instrument |-> 1, venue |-> None, event |-> {Range(0, 3)},
               receive |-> {}, policy |-> "derive", margin |-> [before |-> 0, after |-> 0]]
  IN  { base, [base EXCEPT !.venue = 1], [base EXCEPT !.receive = {Range(1, 3)}] }

Mbo(v, s, t) ==
  [kind |-> "mbo", instrument |-> 1, venue |-> v, source |-> s, time |-> t,
   receive |-> {t}, valid |-> TRUE]

MCItems ==
  { <<>>,
    <<Mbo(1, 1, 0)>>,
    <<Mbo(1, 1, 2), Mbo(1, 2, 1)>>,
    <<Mbo(1, 1, 1), [Mbo(1, 1, 1) EXCEPT !.receive = {}]>>,
    <<Mbo(2, 1, 3), [Mbo(1, 1, 1) EXCEPT !.instrument = 2]>>,
    <<[Mbo(1, 1, 1) EXCEPT !.valid = FALSE], Mbo(1, 1, 2)>>,
    <<[Mbo(2, 1, 1) EXCEPT !.kind = "trade", !.valid = FALSE], [Mbo(1, 1, 2) EXCEPT !.kind = "execution"]>>,
    <<[Mbo(1, 2, 0) EXCEPT !.kind = "record"], [Mbo(1, 1, 1) EXCEPT !.kind = "trade"]>> }

Evidence(range, kind, scope) == [range |-> range, kind |-> kind, scope |-> scope]

MCQuality ==
  {{}}
  \union { {Evidence(r, k, s)} : r \in {Range(0, 3), Range(1, 3)},
                                k \in {"Complete", "Pending", "Missing"}, s \in {NoScope, <<1, 1>>} }
  \union
  { {Evidence(Range(0, 3), "Complete", NoScope), Evidence(Range(1, 2), "SequenceGap", <<1, 1>>)},
    {Evidence(Range(1, 3), "Pending", NoScope), Evidence(Range(0, 2), "Complete", <<1, 1>>)},
    {Evidence(Range(0, 1), "Degraded", <<2, 1>>)} }

MCResponses ==
  [well_formed : {TRUE}, sources : {{}, {1, 2}}, artifacts : {{Range(0, 3)}},
   items : MCItems, quality : MCQuality]
  \union
  { [well_formed |-> FALSE, sources |-> {1}, artifacts |-> {}, items |-> <<>>, quality |-> {}],
    [well_formed |-> TRUE, sources |-> {}, artifacts |-> {Range(2, 3)}, items |-> <<>>, quality |-> {}] }
=============================================================================
