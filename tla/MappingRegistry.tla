-------------------------- MODULE MappingRegistry -------------------------
(***************************************************************************)
(* InMemoryInstrumentMappingRegistry (quant/ingestion/instrument_mapping): *)
(* which provider identity stands for an instrument, and when.  Venue and  *)
(* source of a mapping are optional; None, below every identifier, stands  *)
(* for std::nullopt, whose order it shares.  The vector of mappings is a   *)
(* set: two equal mappings would overlap, and resolve() sorts its result.  *)
(* Names are non-empty, as validate() demands.                             *)
(***************************************************************************)
EXTENDS TimeRanges, FiniteSets

CONSTANTS Instruments, Providers, Venues, Sources, ProviderIds,
          MaxMappings  \* bound: mappings a run may add

None == 0

ASSUME IdentifierAssumption ==
  /\ Venues \subseteq Nat \ {None}
  /\ Sources \subseteq Nat \ {None}
  /\ ProviderIds \subseteq Nat
  /\ MaxMappings \in Nat

Mapping ==
  [instrument : Instruments, provider : Providers, venue : Venues \union {None},
   source : Sources \union {None}, provider_id : ProviderIds, range : TimeRange]

VARIABLE mappings

MutSameScope(lhs, rhs) ==
  /\ lhs.instrument = rhs.instrument
  /\ lhs.provider = rhs.provider
  /\ lhs.venue # None /\ lhs.venue = rhs.venue
  /\ lhs.source = rhs.source

SameScope(lhs, rhs) ==
  /\ lhs.instrument = rhs.instrument
  /\ lhs.provider = rhs.provider
  /\ lhs.venue = rhs.venue
  /\ lhs.source = rhs.source

\* add(): throws, and leaves the registry alone, on an overlap in its scope.
MutAddChecksEarlier(mapping) ==
  /\ Cardinality(mappings) < MaxMappings
  /\ \A m \in mappings :
       ~(SameScope(m, mapping) /\ Overlaps(m.range, mapping.range)
         /\ m.range.start <= mapping.range.start)
  /\ mappings' = mappings \union {mapping}

MutAddReplaces(mapping) ==
  /\ Cardinality(mappings) < MaxMappings
  /\ mappings' = {m \in mappings : ~(SameScope(m, mapping) /\ Overlaps(m.range, mapping.range))}
                   \union {mapping}

Add(mapping) ==
  /\ Cardinality(mappings) < MaxMappings
  /\ \A m \in mappings : ~(SameScope(m, mapping) /\ Overlaps(m.range, mapping.range))
  /\ mappings' = mappings \union {mapping}

\* resolve(): the mappings of the instrument that meet the range, clipped to
\* it.  A query for one venue leaves out the mappings that name no venue.
Resolve(instrument, provider, venue, range) ==
  UNION { {[m EXCEPT !.range = clipped] : clipped \in Intersection(m.range, range)} :
          m \in {m \in mappings : /\ m.instrument = instrument
                                  /\ m.provider = provider
                                  /\ venue # None => m.venue = venue} }

\* The sort of resolve(), repeated by the planner: <<start, end, venue, source,
\* provider_id>> in lexicographic order.
MutMappingLess(lhs, rhs) ==
  LET keys(m) == <<m.range.start, m.range.end, m.venue, m.provider_id>>
  IN  \E k \in 1..4 : /\ keys(lhs)[k] < keys(rhs)[k]
                      /\ \A j \in 1..(k - 1) : keys(lhs)[j] = keys(rhs)[j]

MappingLess(lhs, rhs) ==
  LET keys(m) == <<m.range.start, m.range.end, m.venue, m.source, m.provider_id>>
  IN  \E k \in 1..5 : /\ keys(lhs)[k] < keys(rhs)[k]
                      /\ \A j \in 1..(k - 1) : keys(lhs)[j] = keys(rhs)[j]

-----------------------------------------------------------------------------
\* No instant has two provider identities in one scope (the registry's reason
\* to reject overlaps): what the planner relies on.
SameScopeDisjoint ==
  \A m, n \in mappings : m # n /\ SameScope(m, n) => ~Overlaps(m.range, n.range)
=============================================================================
