--------------------------- MODULE ReferenceData --------------------------
(***************************************************************************)
(* The append-only tables of reference data: ReferenceHistory of one       *)
(* instrument (quant/data/reference.hpp), whose versions are valid over    *)
(* half-open intervals, the last one possibly open, and the tables of      *)
(* venues and sources (quant/data/value_types.hpp).  A caller appends in   *)
(* any order and asks in between; what a table throws at is a step that    *)
(* does not exist.  Instrument type and currency of a version are copied   *)
(* unchanged and left out.                                                 *)
(***************************************************************************)
EXTENDS TimeRanges, Sequences

CONSTANTS Instruments, Instrument,  \* the history is of Instrument
          Symbols, NoText,          \* texts; NoText is the empty one
          VenueIds, SourceIds,
          MaxVersions, MaxReferences  \* bounds: versions, rows of a table

ASSUME ReferenceAssumption ==
  /\ Instrument \in Instruments
  /\ NoText \in Symbols
  /\ MaxVersions \in Nat /\ MaxReferences \in Nat

\* std::optional is a set with at most one element.  Of tick and lot size only
\* the sign is looked at; a Quantity is never negative.
Optional(S) == {{}} \union {{x} : x \in S}

ReferenceVersion ==
  [instrument : Instruments, valid_from : Timestamp, valid_until : Optional(Timestamp),
   symbol : Symbols, tick_size : Optional({-1, 0, 1}), lot_size : Optional({0, 1})]

Reference(ids) == [id : ids, text : Symbols]

VARIABLES versions, venues, sources

referenceVars == <<versions, venues, sources>>

ReferenceInit == versions = <<>> /\ venues = <<>> /\ sources = <<>>
-----------------------------------------------------------------------------
\* The checks of append() that look at the version alone.
WellFormed(v) ==
  /\ v.instrument = Instrument
  /\ v.symbol # NoText
  /\ \A until \in v.valid_until : v.valid_from < until
  /\ \A tick \in v.tick_size : tick > 0
  /\ \A lot \in v.lot_size : lot # 0

\* The checks against the last version: it is closed, and ends before v starts.
MutFollows(v) ==
  versions # <<>> =>
    LET previous == versions[Len(versions)]
    IN  previous.valid_until # {} => previous.valid_from < v.valid_from

Follows(v) ==
  versions # <<>> =>
    LET previous == versions[Len(versions)]
    IN  /\ previous.valid_until # {}
        /\ \A until \in previous.valid_until : until <= v.valid_from

\* append()
AppendVersion(v) ==
  /\ Len(versions) < MaxVersions
  /\ WellFormed(v)
  /\ Follows(v)
  /\ versions' = Append(versions, v)
  /\ UNCHANGED <<venues, sources>>

\* at(): the last version that has begun (std::upper_bound on valid_from, one
\* step back), if the time lies before its end.
MutBegun(table, time) == {i \in DOMAIN table : table[i].valid_from < time}

Begun(table, time) == {i \in DOMAIN table : table[i].valid_from <= time}

At(table, time) ==
  {table[i] : i \in {i \in Begun(table, time) :
     /\ \A j \in Begun(table, time) : j <= i
     /\ \A until \in table[i].valid_until : time < until}}

\* find(): the first row with the identifier.
Find(table, id) ==
  {table[i] : i \in {i \in DOMAIN table :
     table[i].id = id /\ \A j \in DOMAIN table : table[j].id = id => i <= j}}

\* add() of VenueReferenceTable and of SourceMetadataTable.
MutAddable(table, row) ==
  /\ Len(table) < MaxReferences
  /\ row.text # NoText
  /\ table # <<>> => table[Len(table)].id # row.id

Addable(table, row) ==
  /\ Len(table) < MaxReferences
  /\ row.text # NoText
  /\ Find(table, row.id) = {}

AddVenue(row) ==
  /\ Addable(venues, row)
  /\ venues' = Append(venues, row)
  /\ UNCHANGED <<versions, sources>>

AddSource(row) ==
  /\ Addable(sources, row)
  /\ sources' = Append(sources, row)
  /\ UNCHANGED <<versions, venues>>

ReferenceNext ==
  \/ \E v \in ReferenceVersion : AppendVersion(v)
  \/ \E row \in Reference(VenueIds) : AddVenue(row)
  \/ \E row \in Reference(SourceIds) : AddSource(row)

ReferenceSpec == ReferenceInit /\ [][ReferenceNext]_referenceVars
-----------------------------------------------------------------------------
ReferenceTypeOK ==
  /\ versions \in Seq(ReferenceVersion)
  /\ venues \in Seq(Reference(VenueIds))
  /\ sources \in Seq(Reference(SourceIds))

\* Every version but the last is closed, and no later version starts before its
\* end: not only neighbours, which is all that append() compares.
Ordered(table) ==
  \A i \in DOMAIN table :
    /\ WellFormed(table[i])
    /\ \A j \in DOMAIN table :
         i < j => \E until \in table[i].valid_until : until <= table[j].valid_from

UniqueIds(table) == \A i, j \in DOMAIN table : table[i].id = table[j].id => i = j

\* What append() and add() keep for the lookups.
ReferenceInv == ReferenceTypeOK /\ Ordered(versions) /\ UniqueIds(venues) /\ UniqueIds(sources)

\* A version is valid at a time.
ValidAt(v, time) == v.valid_from <= time /\ \A until \in v.valid_until : time < until

\* at() and find() look at one candidate; it is the only one there is.  at()
\* finds the version that is valid at the time, over gaps and at both ends of a
\* half-open interval, and nothing in a gap; find() finds every row.
LookupsAreExact ==
  /\ \A t \in Timestamp :
       At(versions, t) = {versions[i] : i \in {i \in DOMAIN versions : ValidAt(versions[i], t)}}
  /\ \A i \in DOMAIN venues : Find(venues, venues[i].id) = {venues[i]}
  /\ \A i \in DOMAIN sources : Find(sources, sources[i].id) = {sources[i]}

\* What a step does to the answers of the lookups.
Stand ==
  /\ \A t \in Timestamp :
       /\ At(versions, t) # {} => At(versions', t) = At(versions, t)
       /\ At(versions', t) # At(versions, t) =>
            \A i \in DOMAIN versions : versions[i].valid_from < t
  /\ \A id \in VenueIds : Find(venues, id) # {} => Find(venues', id) = Find(venues, id)
  /\ \A id \in SourceIds : Find(sources, id) # {} => Find(sources', id) = Find(sources, id)

\* "Time-varying reference metadata is resolved point-in-time": what a lookup
\* answered for an instant or an identifier stays the answer, whatever is
\* appended later, and a version that is appended is not seen before it starts.
AnswersStand == [][Stand]_referenceVars
=============================================================================
