-------------------------- MODULE ProviderResponse -------------------------
(***************************************************************************)
(* One answer of the provider port (quant/ingestion/provider.hpp) and what *)
(* the loop body of SynchronousIngestor::ingest                            *)
(* (quant/ingestion/synchronous_ingestor.hpp) takes from it for the        *)
(* mapping m of a planned segment and the query q: the records that are    *)
(* kept, the streams they belong to, and the evidence.                     *)
(***************************************************************************)
EXTENDS MappingRegistry, Sequences

NoScope == <<>>

Quality == INSTANCE DataQuality WITH Scope <- Venues \X Sources, NoScope <- NoScope

\* ProviderBatch.  well_formed: every batch names its dataset and schema and
\* every artifact has an identity.  An item is a record of any of four kinds;
\* its receive time is optional, and valid is what validation.hpp says of it.
Kinds == {"record", "mbo", "trade", "execution"}

Item ==
  [kind : Kinds, instrument : Instruments, venue : Venues, source : Sources,
   time : Timestamp, receive : SUBSET Timestamp, valid : BOOLEAN]

ResponseShape(r) ==
  /\ r.well_formed \in BOOLEAN
  /\ r.sources \subseteq Sources
  /\ r.artifacts \subseteq TimeRange
  /\ r.items \in Seq(Item)
  /\ r.quality \subseteq Quality!QualityObservation

-----------------------------------------------------------------------------
Elements(seq) == {seq[i] : i \in DOMAIN seq}

\* What a loop over a sequence takes of it, in its order: the elements in S.
Select(seq, S) ==
  LET taken[n \in 0..Len(seq)] ==
        IF n = 0 THEN <<>>
        ELSE IF seq[n] \in S THEN Append(taken[n - 1], seq[n])
        ELSE taken[n - 1]
  IN  taken[Len(seq)]

ScopeOf(item) == <<item.venue, item.source>>

KnownMappingScope(m) ==
  IF m.venue = None \/ m.source = None THEN {} ELSE {<<m.venue, m.source>>}

\* effective_venue(): the venue of the mapping, else of the query.
EffectiveVenue(q, m) == IF m.venue # None THEN m.venue ELSE q.venue

SourceScopes(q, m, response) ==
  IF EffectiveVenue(q, m) = None THEN {}
  ELSE {<<EffectiveVenue(q, m), s>> : s \in response.sources}

\* header_matches_request(): the query and the mapping agree with the header,
\* and both post-fetch time filters let it pass.
MutHeaderMatches(item, q, m) ==
  /\ item.instrument = q.instrument
  /\ q.venue # None => item.venue = q.venue
  /\ m.venue # None => item.venue = m.venue
  /\ m.source # None => item.source = m.source
  /\ \E r \in q.event : r.start <= item.time /\ item.time <= r.end
  /\ \A r \in q.receive : \E t \in item.receive : Contains(r, t)

HeaderMatches(item, q, m) ==
  /\ item.instrument = q.instrument
  /\ q.venue # None => item.venue = q.venue
  /\ m.venue # None => item.venue = m.venue
  /\ m.source # None => item.source = m.source
  /\ Contains(m.range, item.time)
  /\ \A r \in q.receive : \E t \in item.receive : Contains(r, t)

\* quality_scope_matches()
QualityScopeMatches(scope, q, m) ==
  /\ q.venue # None => scope[1] = q.venue
  /\ m.venue # None => scope[1] = m.venue
  /\ m.source # None => scope[2] = m.source

\* Provider records are kept as they are; the other kinds are validated.
IsInvalid(item) == item.kind # "record" /\ ~item.valid

Matching(q, m, response) ==
  {item \in Elements(response.items) : HeaderMatches(item, q, m)}

ResponseScopes(q, m, response) == {ScopeOf(i) : i \in Matching(q, m, response)}

InvalidScopes(q, m, response) ==
  {ScopeOf(i) : i \in {i \in Matching(q, m, response) : IsInvalid(i)}}

\* The items of one kind that the result takes over, in the provider's order.
Kept(q, m, response, kind) ==
  Select(response.items, {i \in Matching(q, m, response) : i.kind = kind /\ ~IsInvalid(i)})

\* source_ids: every source that the mapping, the answer or a matching record
\* names, a record that fails validation included.
SourcesOf(q, m, response) ==
  UNION {{m.source} \ {None}, response.sources, {i.source : i \in Matching(q, m, response)}}

\* source_artifacts, clipped to the segment.
ArtifactsOf(m, response) == UNION {Intersection(m.range, a) : a \in response.artifacts}

-----------------------------------------------------------------------------
\* Where evidence without a scope of its own belongs.
ObservationScopes(q, m, response) ==
  IF ResponseScopes(q, m, response) # {} THEN ResponseScopes(q, m, response)
  ELSE IF KnownMappingScope(m) # {} THEN KnownMappingScope(m)
  ELSE SourceScopes(q, m, response)

EvidenceScopes(o, q, m, response) ==
  IF o.scope # NoScope THEN {o.scope}
  ELSE IF ObservationScopes(q, m, response) = {} THEN {NoScope}
  ELSE ObservationScopes(q, m, response)

\* Evidence outside the segment, or of another scope, is an exception, as are
\* artifacts outside it and metadata without identity.
Rejects(q, m, response) ==
  \/ ~response.well_formed
  \/ \E a \in response.artifacts : ~Overlaps(m.range, a)
  \/ \E o \in response.quality :
       \/ ~Overlaps(m.range, o.range)
       \/ o.scope # NoScope /\ ~QualityScopeMatches(o.scope, q, m)

\* The evidence of a response: clipped to the segment, spread over its scopes.
MutResponseEvidence(q, m, response) ==
  UNION {{[range |-> o.range, kind |-> o.kind, scope |-> s] : s \in EvidenceScopes(o, q, m, response)} :
         o \in response.quality}

ResponseEvidence(q, m, response) ==
  UNION {{[range |-> c, kind |-> o.kind, scope |-> s] :
            c \in Intersection(m.range, o.range), s \in EvidenceScopes(o, q, m, response)} :
         o \in response.quality}

\* Our own evidence: a stream with a record that fails validation is corrupt
\* over the whole segment.
MutCorruptEvidence(q, m, response) ==
  {[range |-> m.range, kind |-> "Degraded", scope |-> s] : s \in InvalidScopes(q, m, response)}

CorruptEvidence(q, m, response) ==
  {[range |-> m.range, kind |-> "Corrupt", scope |-> s] : s \in InvalidScopes(q, m, response)}

EvidenceOf(q, m, response) == ResponseEvidence(q, m, response) \union CorruptEvidence(q, m, response)

\* expected_scopes: the streams that get a state even without evidence.
ExpectedScopes(q, m, response) ==
  UNION {KnownMappingScope(m), SourceScopes(q, m, response), ResponseScopes(q, m, response),
         {o.scope : o \in EvidenceOf(q, m, response)}}
=============================================================================
