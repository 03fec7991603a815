----------------------- MODULE DatasetArtifactProofs -----------------------
(***************************************************************************)
(* Proofs about the two parts of a dataset artifact, for any streams,      *)
(* observations, texts, and files of other programs: what the rows of      *)
(* ObservationArchive are encoded and decoded to, and what the texts of    *)
(* ParquetMetadata say.                                                    *)
(***************************************************************************)
EXTENDS ObservationArchive, ParquetMetadata, FiniteSetTheorems, SequenceTheorems, TLAPS

Facts == INSTANCE TimeRangeProofs WITH Scope <- {}, NoScope <- <<>>

-----------------------------------------------------------------------------
\* The canonical fields of a kind stand at their positions.
KindFields(k) ==
  IF k = "trades"
  THEN << Field("price", "int64", FALSE), Field("quantity", "int64", FALSE),
          Field("aggressor_side", "int8", TRUE) >>
  ELSE << Field("resting_order_id", "uint64", FALSE), Field("executed_quantity", "int64", FALSE),
          Field("price", "int64", TRUE) >>

LEMMA FiveAndThree ==
  ASSUME NEW S, NEW x \in Seq(S), NEW y \in Seq(S), Len(x) = 5, Len(y) = 3
  PROVE  /\ Len(x \o y) = 8 /\ DOMAIN (x \o y) = 1..8
         /\ \A i \in 1..8 : (x \o y)[i] = IF i <= 5 THEN x[i] ELSE y[i - 5]
  <1> DEFINE z == x \o y
  <1>1. /\ z \in Seq(S) /\ Len(z) = Len(x) + Len(y)
        /\ \A i \in 1..(Len(x) + Len(y)) : z[i] = IF i <= Len(x) THEN x[i] ELSE y[i - Len(x)]
    BY ConcatProperties
  <1>2. Len(x) + Len(y) = 8
    OBVIOUS
  <1> HIDE DEF z
  <1>3. \A i \in 1..8 : z[i] = IF i <= 5 THEN x[i] ELSE y[i - 5]
    BY <1>1, <1>2
  <1>4. Len(z) = 8 /\ DOMAIN z = 1..8
    BY <1>1, <1>2, LenProperties
  <1> QED BY <1>3, <1>4 DEF z

LEMMA SchemaIsKnown ==
  ASSUME NEW k
  PROVE  /\ SchemaFor(k) = [i \in 1..8 |-> SchemaFor(k)[i]]
         /\ Len(SchemaFor(k)) = 8 /\ DOMAIN SchemaFor(k) = 1..8
         /\ SchemaFor(k)[1] = Field("event_time", "int64", FALSE)
         /\ SchemaFor(k)[2] = Field("source_receive_time", "int64", TRUE)
         /\ SchemaFor(k)[3] = Field("sequence", "uint64", TRUE)
         /\ SchemaFor(k)[4] = Field("channel_id", "uint32", TRUE)
         /\ SchemaFor(k)[5] = Field("source_flags", "uint64", FALSE)
         /\ SchemaFor(k)[6] = KindFields(k)[1]
         /\ SchemaFor(k)[7] = KindFields(k)[2]
         /\ SchemaFor(k)[8] = KindFields(k)[3]
  <1> DEFINE x == HeaderFields
             y == KindFields(k)
  <1>1. PICK a, b, c, d, e : x = <<a, b, c, d, e>>
    BY Zenon DEF HeaderFields
  <1>2. PICK f, g, h : y = <<f, g, h>>
    BY Zenon DEF KindFields
  <1> DEFINE S == {a, b, c, d, e, f, g, h}
  <1>3. SchemaFor(k) = HeaderFields \o KindFields(k)
    BY Zenon DEF SchemaFor, KindFields
  <1>4. /\ x[1] = Field("event_time", "int64", FALSE)
        /\ x[2] = Field("source_receive_time", "int64", TRUE)
        /\ x[3] = Field("sequence", "uint64", TRUE)
        /\ x[4] = Field("channel_id", "uint32", TRUE)
        /\ x[5] = Field("source_flags", "uint64", FALSE)
    BY DEF HeaderFields
  <1> HIDE DEF x, y
  <1>5. x \in Seq(S) /\ y \in Seq(S) /\ Len(x) = 5 /\ Len(y) = 3
    BY <1>1, <1>2
  <1> HIDE DEF S
  <1>6. /\ Len(x \o y) = 8 /\ DOMAIN (x \o y) = 1..8
        /\ \A i \in 1..8 : (x \o y)[i] = IF i <= 5 THEN x[i] ELSE y[i - 5]
    BY <1>5, FiveAndThree
  <1> DEFINE z == x \o y
  <1>7. /\ z[1] = x[1] /\ z[2] = x[2] /\ z[3] = x[3] /\ z[4] = x[4] /\ z[5] = x[5]
        /\ z[6] = y[1] /\ z[7] = y[2] /\ z[8] = y[3]
    <2>1. \A i \in 1..8 : z[i] = IF i <= 5 THEN x[i] ELSE y[i - 5]
      BY <1>6
    <2> HIDE DEF z
    <2> QED BY <2>1
  <1>8. z = [i \in 1..8 |-> z[i]]
    <2>1. z \in Seq(S) /\ Len(z) = 8
      BY <1>5, <1>6, ConcatProperties
    <2> HIDE DEF z
    <2> QED BY <2>1, LenProperties
  <1> QED BY <1>3, <1>4, <1>6, <1>7, <1>8 DEF x, y

LEMMA KindFieldsAre ==
  /\ KindFields("trades")[1] = Field("price", "int64", FALSE)
  /\ KindFields("trades")[2] = Field("quantity", "int64", FALSE)
  /\ KindFields("trades")[3] = Field("aggressor_side", "int8", TRUE)
  /\ KindFields("order_executions")[1] = Field("resting_order_id", "uint64", FALSE)
  /\ KindFields("order_executions")[2] = Field("executed_quantity", "int64", FALSE)
  /\ KindFields("order_executions")[3] = Field("price", "int64", TRUE)
  <1>1. \A a, b, c : <<a, b, c>>[1] = a /\ <<a, b, c>>[2] = b /\ <<a, b, c>>[3] = c
    OBVIOUS
  <1> QED BY <1>1 DEF KindFields

LEMMA EightValues ==
  ASSUME NEW s, DOMAIN s = 1..8
  PROVE  {s[i] : i \in DOMAIN s} = {s[1], s[2], s[3], s[4], s[5], s[6], s[7], s[8]}
PROOF OBVIOUS

\* The columns of a kind, and the fields they are declared with.
LEMMA KindHasColumns ==
  ASSUME NEW k
  PROVE  /\ CanonicalColumnNames(k) =
              {"event_time", "source_receive_time", "sequence", "channel_id", "source_flags",
               KindFields(k)[1].name, KindFields(k)[2].name, KindFields(k)[3].name}
         /\ Sequence!ToSet(SchemaFor(k)) =
              {Field("event_time", "int64", FALSE), Field("source_receive_time", "int64", TRUE),
               Field("sequence", "uint64", TRUE), Field("channel_id", "uint32", TRUE),
               Field("source_flags", "uint64", FALSE), KindFields(k)[1], KindFields(k)[2], KindFields(k)[3]}
  <1> DEFINE s == SchemaFor(k)
  <1>1. /\ DOMAIN s = 1..8
        /\ s[1] = Field("event_time", "int64", FALSE)
        /\ s[2] = Field("source_receive_time", "int64", TRUE)
        /\ s[3] = Field("sequence", "uint64", TRUE)
        /\ s[4] = Field("channel_id", "uint32", TRUE)
        /\ s[5] = Field("source_flags", "uint64", FALSE)
        /\ s[6] = KindFields(k)[1] /\ s[7] = KindFields(k)[2] /\ s[8] = KindFields(k)[3]
    BY SchemaIsKnown
  <1> HIDE DEF s
  <1>2. {s[i] : i \in DOMAIN s} =
          {Field("event_time", "int64", FALSE), Field("source_receive_time", "int64", TRUE),
           Field("sequence", "uint64", TRUE), Field("channel_id", "uint32", TRUE),
           Field("source_flags", "uint64", FALSE), KindFields(k)[1], KindFields(k)[2], KindFields(k)[3]}
    BY <1>1, EightValues
  <1> DEFINE names == [i \in 1..8 |-> s[i].name]
  <1>3. \A i \in 1..8 : names[i] = s[i].name
    OBVIOUS
  <1>4. {s[i].name : i \in DOMAIN s} = {names[i] : i \in DOMAIN names} /\ DOMAIN names = 1..8
    BY <1>1
  <1> HIDE DEF names
  <1>5. /\ names[1] = "event_time" /\ names[2] = "source_receive_time" /\ names[3] = "sequence"
        /\ names[4] = "channel_id" /\ names[5] = "source_flags"
        /\ names[6] = KindFields(k)[1].name /\ names[7] = KindFields(k)[2].name
        /\ names[8] = KindFields(k)[3].name
    BY <1>1, <1>3 DEF Field
  <1>6. {names[i] : i \in DOMAIN names} =
          {"event_time", "source_receive_time", "sequence", "channel_id", "source_flags",
           KindFields(k)[1].name, KindFields(k)[2].name, KindFields(k)[3].name}
    BY <1>4, <1>5, EightValues
  <1> QED BY <1>2, <1>4, <1>6 DEF s, CanonicalColumnNames, Sequence!ToSet

LEMMA TradeColumns ==
  /\ CanonicalColumnNames("trades") =
       {"event_time", "source_receive_time", "sequence", "channel_id", "source_flags",
        "price", "quantity", "aggressor_side"}
  /\ Sequence!ToSet(SchemaFor("trades")) =
       {Field("event_time", "int64", FALSE), Field("source_receive_time", "int64", TRUE),
        Field("sequence", "uint64", TRUE), Field("channel_id", "uint32", TRUE),
        Field("source_flags", "uint64", FALSE), Field("price", "int64", FALSE),
        Field("quantity", "int64", FALSE), Field("aggressor_side", "int8", TRUE)}
  <1> DEFINE f == KindFields("trades")
  <1>1. /\ CanonicalColumnNames("trades") =
             {"event_time", "source_receive_time", "sequence", "channel_id", "source_flags",
              f[1].name, f[2].name, f[3].name}
        /\ Sequence!ToSet(SchemaFor("trades")) =
             {Field("event_time", "int64", FALSE), Field("source_receive_time", "int64", TRUE),
              Field("sequence", "uint64", TRUE), Field("channel_id", "uint32", TRUE),
              Field("source_flags", "uint64", FALSE), f[1], f[2], f[3]}
    BY KindHasColumns
  <1>2. /\ f[1] = Field("price", "int64", FALSE)
        /\ f[2] = Field("quantity", "int64", FALSE)
        /\ f[3] = Field("aggressor_side", "int8", TRUE)
    BY KindFieldsAre
  <1> HIDE DEF f
  <1>3. f[1].name = "price" /\ f[2].name = "quantity" /\ f[3].name = "aggressor_side"
    BY <1>2 DEF Field
  <1> QED BY <1>1, <1>2, <1>3

LEMMA ExecutionColumns ==
  /\ CanonicalColumnNames("order_executions") =
       {"event_time", "source_receive_time", "sequence", "channel_id", "source_flags",
        "resting_order_id", "executed_quantity", "price"}
  /\ Sequence!ToSet(SchemaFor("order_executions")) =
       {Field("event_time", "int64", FALSE), Field("source_receive_time", "int64", TRUE),
        Field("sequence", "uint64", TRUE), Field("channel_id", "uint32", TRUE),
        Field("source_flags", "uint64", FALSE), Field("resting_order_id", "uint64", FALSE),
        Field("executed_quantity", "int64", FALSE), Field("price", "int64", TRUE)}
  <1> DEFINE f == KindFields("order_executions")
  <1>1. /\ CanonicalColumnNames("order_executions") =
             {"event_time", "source_receive_time", "sequence", "channel_id", "source_flags",
              f[1].name, f[2].name, f[3].name}
        /\ Sequence!ToSet(SchemaFor("order_executions")) =
             {Field("event_time", "int64", FALSE), Field("source_receive_time", "int64", TRUE),
              Field("sequence", "uint64", TRUE), Field("channel_id", "uint32", TRUE),
              Field("source_flags", "uint64", FALSE), f[1], f[2], f[3]}
    BY KindHasColumns
  <1>2. /\ f[1] = Field("resting_order_id", "uint64", FALSE)
        /\ f[2] = Field("executed_quantity", "int64", FALSE)
        /\ f[3] = Field("price", "int64", TRUE)
    BY KindFieldsAre
  <1> HIDE DEF f
  <1>3. f[1].name = "resting_order_id" /\ f[2].name = "executed_quantity" /\ f[3].name = "price"
    BY <1>2 DEF Field
  <1> QED BY <1>1, <1>2, <1>3

\* No two fields of a schema have the same name.
LEMMA NamesDiffer ==
  ASSUME NEW k \in Kind, NEW i \in 1..8, NEW j \in 1..8, SchemaFor(k)[i].name = SchemaFor(k)[j].name
  PROVE  i = j
  <1> DEFINE s == SchemaFor(k)
             f == KindFields(k)
  <1>1. /\ s[1].name = "event_time" /\ s[2].name = "source_receive_time" /\ s[3].name = "sequence"
        /\ s[4].name = "channel_id" /\ s[5].name = "source_flags"
        /\ s[6].name = f[1].name /\ s[7].name = f[2].name /\ s[8].name = f[3].name
    BY SchemaIsKnown DEF Field
  <1>2. \/ f[1].name = "price" /\ f[2].name = "quantity" /\ f[3].name = "aggressor_side"
        \/ f[1].name = "resting_order_id" /\ f[2].name = "executed_quantity" /\ f[3].name = "price"
    BY KindFieldsAre DEF Kind, Field
  <1> HIDE DEF s, f
  <1>3. s[i].name = s[j].name
    BY DEF s
  <1> QED BY <1>1, <1>2, <1>3

\* What the program writes passes the check of the schema.
LEMMA OwnSchemaIsValid ==
  ASSUME NEW k \in Kind
  PROVE  IsValidSchema(SchemaFor(k), DOMAIN SchemaFor(k), k)
  <1> DEFINE s == SchemaFor(k)
  <1>1. DOMAIN s = 1..8 /\ \A i, j \in 1..8 : s[i].name = s[j].name => i = j
    BY SchemaIsKnown, NamesDiffer
  <1>2. Sequence!ToSet(s) = {s[i] : i \in DOMAIN s}
    BY DEF Sequence!ToSet
  <1> HIDE DEF s
  <1>3. ASSUME NEW i \in 1..8 PROVE FieldsNamed(s, DOMAIN s, s[i].name) = {i}
    <2>1. {j \in DOMAIN s : s[j].name = s[i].name} = {i}
      BY <1>1
    <2>2. Cardinality({i}) = 1
      BY FS_Singleton
    <2> QED BY <2>1, <2>2 DEF FieldsNamed
  <1>4. ASSUME NEW f \in Sequence!ToSet(s)
        PROVE  \E i \in FieldsNamed(s, DOMAIN s, f.name) :
                 s[i].type = f.type /\ (s[i].nullable => f.nullable)
    <2>1. PICK i \in 1..8 : f = s[i]
      BY <1>1, <1>2
    <2> QED BY <1>3, <2>1
  <1> QED BY <1>4 DEF IsValidSchema, s

-----------------------------------------------------------------------------
\* The codes of a side come back as the side, and the sides as their codes.
LEMMA SidesComeBack ==
  /\ \A sides \in SUBSET {Buy, Sell} :
       SidesOf(SideCodes(sides)) = sides /\ SideCodes(sides) \subseteq {0, 1}
  /\ \A codes \in SUBSET {0, 1} :
       SideCodes(SidesOf(codes)) = codes /\ SidesOf(codes) \subseteq {Buy, Sell}
  <1>1. Buy # Sell
    BY DEF Buy, Sell
  <1>2. ASSUME NEW sides \in SUBSET {Buy, Sell}
        PROVE  /\ SideCodes(sides) \subseteq {0, 1}
               /\ 0 \in SideCodes(sides) <=> Buy \in sides
               /\ 1 \in SideCodes(sides) <=> Sell \in sides
    BY <1>1 DEF SideCodes
  <1>3. ASSUME NEW codes \in SUBSET {0, 1}
        PROVE  /\ SidesOf(codes) \subseteq {Buy, Sell}
               /\ Buy \in SidesOf(codes) <=> 0 \in codes
               /\ Sell \in SidesOf(codes) <=> 1 \in codes
    BY <1>1 DEF SidesOf
  <1>4. ASSUME NEW sides \in SUBSET {Buy, Sell} PROVE SidesOf(SideCodes(sides)) = sides
    <2>1. PICK codes : codes = SideCodes(sides)
      OBVIOUS
    <2>2. codes \in SUBSET {0, 1} /\ (0 \in codes <=> Buy \in sides) /\ (1 \in codes <=> Sell \in sides)
      BY <1>2, <2>1
    <2>3. /\ SidesOf(codes) \subseteq {Buy, Sell}
          /\ Buy \in SidesOf(codes) <=> 0 \in codes
          /\ Sell \in SidesOf(codes) <=> 1 \in codes
      BY <1>3, <2>2
    <2>4. SidesOf(codes) = sides
      BY <2>2, <2>3
    <2> QED BY <2>1, <2>4
  <1>5. ASSUME NEW codes \in SUBSET {0, 1} PROVE SideCodes(SidesOf(codes)) = codes
    <2>1. PICK sides : sides = SidesOf(codes)
      OBVIOUS
    <2>2. sides \in SUBSET {Buy, Sell} /\ (Buy \in sides <=> 0 \in codes) /\ (Sell \in sides <=> 1 \in codes)
      BY <1>3, <2>1
    <2>3. /\ SideCodes(sides) \subseteq {0, 1}
          /\ 0 \in SideCodes(sides) <=> Buy \in sides
          /\ 1 \in SideCodes(sides) <=> Sell \in sides
      BY <1>2, <2>2
    <2>4. \A x : x \in SideCodes(sides) <=> x \in codes
      BY <2>2, <2>3
    <2>5. SideCodes(sides) = codes
      BY <2>4
    <2> QED BY <2>1, <2>5
  <1> QED BY <1>2, <1>3, <1>4, <1>5

LEMMA SidesAreKept == \A codes : SidesOf(codes) = {} <=> codes = {}
PROOF BY DEF SidesOf

LEMMA CodesAreKept == \A sides : SideCodes(sides) = {} <=> sides = {}
PROOF BY DEF SideCodes

\* What a field declares of the columns that the decoders look at.
LEMMA ColumnsAreKnown ==
  ASSUME NEW k \in Kind
  PROVE  /\ \A f \in Sequence!ToSet(SchemaFor(k)) : f.name \in CanonicalColumnNames(k)
         /\ k = "trades" => {"quantity", "aggressor_side"} \subseteq CanonicalColumnNames(k)
         /\ k # "trades" => /\ {"resting_order_id", "executed_quantity"} \subseteq CanonicalColumnNames(k)
                            /\ "aggressor_side" \notin CanonicalColumnNames(k)
  <1>1. k = "trades" \/ k = "order_executions"
    BY DEF Kind
  <1>2. \A f \in Sequence!ToSet(SchemaFor(k)) : f.name \in CanonicalColumnNames(k)
    BY DEF Sequence!ToSet, CanonicalColumnNames
  <1> QED BY <1>1, <1>2, TradeColumns, ExecutionColumns

\* An observation that is encoded is a row that the decoders take, and comes
\* back as it was, in the stream of the artifact.
LEMMA RowOfObservation ==
  ASSUME NEW k \in Kind, NEW o, IsObservation(k, o), NEW stream
  PROVE  /\ RowIsCanonical(k, RowOf(k, o))
         /\ ObservationOf(k, RowOf(k, o), stream) = [o EXCEPT !.stream = stream]
  <1> DEFINE row == RowOf(k, o)
             names == CanonicalColumnNames(k)
  <1>1. \A name \in names : row[name] = IF name = "aggressor_side" THEN SideCodes(o.values[name]) ELSE o.values[name]
    BY DEF RowOf
  <1>2. \A name \in names : row[name] = {} <=> o.values[name] = {}
    BY <1>1, CodesAreKept
  <1>3. \A f \in Sequence!ToSet(SchemaFor(k)) : f.nullable \/ row[f.name] # {}
    BY <1>2, ColumnsAreKnown DEF IsObservation
  <1>4. CASE k = "trades"
    <2>1. o.values["aggressor_side"] \subseteq {Buy, Sell} /\ \A q \in o.values["quantity"] : q >= 0
      BY <1>4 DEF IsObservation
    <2>2. /\ row["quantity"] = o.values["quantity"]
          /\ row["aggressor_side"] = SideCodes(o.values["aggressor_side"])
      BY <1>1, <1>4, ColumnsAreKnown
    <2>3. row["aggressor_side"] \subseteq {0, 1} /\ \A q \in row["quantity"] : q >= 0
      BY <2>1, <2>2, SidesComeBack
    <2>4. SidesOf(row["aggressor_side"]) = o.values["aggressor_side"]
      BY <2>1, <2>2, SidesComeBack
    <2>5. RowIsCanonical(k, row)
      BY <1>3, <1>4, <2>3 DEF RowIsCanonical
    <2>6. \A name \in names :
            (IF name = "aggressor_side" THEN SidesOf(row[name]) ELSE row[name]) = o.values[name]
      BY <1>1, <2>4
    <2> HIDE DEF row
    <2>7. ObservationOf(k, row, stream) =
            [stream |-> stream, values |-> [name \in names |-> o.values[name]]]
      BY <2>6 DEF ObservationOf
    <2> QED BY <2>5, <2>7 DEF IsObservation, row
  <1>5. CASE k # "trades"
    <2>1. 0 \notin o.values["resting_order_id"] /\ \A q \in o.values["executed_quantity"] : q >= 0
      BY <1>5 DEF IsObservation
    <2>2. \A name \in names : name # "aggressor_side" /\ row[name] = o.values[name]
      BY <1>1, <1>5, ColumnsAreKnown
    <2>3. 0 \notin row["resting_order_id"] /\ \A q \in row["executed_quantity"] : q >= 0
      BY <1>5, <2>1, <2>2, ColumnsAreKnown
    <2>4. RowIsCanonical(k, row)
      BY <1>3, <1>5, <2>3 DEF RowIsCanonical
    <2> HIDE DEF row
    <2>5. ObservationOf(k, row, stream) =
            [stream |-> stream, values |-> [name \in names |-> o.values[name]]]
      BY <2>2 DEF ObservationOf
    <2> QED BY <2>4, <2>5 DEF IsObservation, row
  <1> QED BY <1>4, <1>5

\* A row that the decoders take is an observation that a program may hold, and
\* is encoded as it was.
LEMMA ObservationOfRow ==
  ASSUME NEW k \in Kind, NEW stream \in Streams, NEW row, RowIsCanonical(k, row)
  PROVE  /\ IsObservation(k, ObservationOf(k, row, stream))
         /\ RowOf(k, ObservationOf(k, row, stream)) = [name \in CanonicalColumnNames(k) |-> row[name]]
  <1> DEFINE o == ObservationOf(k, row, stream)
             names == CanonicalColumnNames(k)
  <1>1. /\ o = [stream |-> stream, values |-> o.values]
        /\ o.values = [name \in names |-> o.values[name]]
        /\ \A name \in names : o.values[name] = IF name = "aggressor_side" THEN SidesOf(row[name]) ELSE row[name]
    BY DEF ObservationOf
  <1>2. \A f \in Sequence!ToSet(SchemaFor(k)) : f.nullable \/ o.values[f.name] # {}
    BY <1>1, ColumnsAreKnown, SidesAreKept DEF RowIsCanonical
  <1>3. RowOf(k, o) = [name \in names |-> IF name = "aggressor_side" THEN SideCodes(o.values[name]) ELSE o.values[name]]
    BY DEF RowOf
  <1> HIDE DEF o
  <1>4. CASE k = "trades"
    <2>1. row["aggressor_side"] \subseteq {0, 1} /\ \A q \in row["quantity"] : q >= 0
      BY <1>4 DEF RowIsCanonical
    <2>2. /\ o.values["quantity"] = row["quantity"]
          /\ o.values["aggressor_side"] = SidesOf(row["aggressor_side"])
      BY <1>1, <1>4, ColumnsAreKnown
    <2>3. /\ o.values["aggressor_side"] \subseteq {Buy, Sell} /\ \A q \in o.values["quantity"] : q >= 0
          /\ SideCodes(o.values["aggressor_side"]) = row["aggressor_side"]
      BY <2>1, <2>2, SidesComeBack
    <2>4. \A name \in names :
            (IF name = "aggressor_side" THEN SideCodes(o.values[name]) ELSE o.values[name]) = row[name]
      BY <1>1, <2>3
    <2>5. RowOf(k, o) = [name \in names |-> row[name]]
      BY <1>3, <2>4
    <2>6. IsObservation(k, o)
      BY <1>1, <1>2, <1>4, <2>3 DEF IsObservation
    <2> QED BY <2>5, <2>6 DEF o
  <1>5. CASE k # "trades"
    <2>1. 0 \notin row["resting_order_id"] /\ \A q \in row["executed_quantity"] : q >= 0
      BY <1>5 DEF RowIsCanonical
    <2>2. \A name \in names : name # "aggressor_side" /\ o.values[name] = row[name]
      BY <1>1, <1>5, ColumnsAreKnown
    <2>3. 0 \notin o.values["resting_order_id"] /\ \A q \in o.values["executed_quantity"] : q >= 0
      BY <1>5, <2>1, <2>2, ColumnsAreKnown
    <2>4. RowOf(k, o) = [name \in names |-> row[name]]
      BY <1>3, <2>2
    <2>5. IsObservation(k, o)
      BY <1>1, <1>2, <1>5, <2>3 DEF IsObservation
    <2> QED BY <2>4, <2>5 DEF o
  <1> QED BY <1>4, <1>5

-----------------------------------------------------------------------------
\* Induction up to N, as a fact about sets.
LEMMA UpTo ==
  ASSUME NEW N \in Nat, NEW G, 0 \in G, \A n \in 1..N : (n - 1) \in G => n \in G
  PROVE  0..N \subseteq G
PROOF BY Facts!UpTo, TimeBounds

\* 1, 2, ... n, which is what the leaf columns of n flat fields are.
Counted(n) == [i \in 1..n |-> i]

LEMMA CountedOn ==
  ASSUME NEW n \in Nat
  PROVE  /\ Counted(n) \in Seq(Nat) /\ Len(Counted(n)) = n
         /\ Counted(n + 1) = Counted(n) \o <<n + 1>>
  <1>1. \A m \in Nat : /\ Counted(m) \in Seq(Nat) /\ Len(Counted(m)) = m
                       /\ \A i \in 1..m : Counted(m)[i] = i
    BY DEF Counted
  <1> DEFINE x == Counted(n)
             y == <<n + 1>>
             z == x \o y
             w == Counted(n + 1)
  <1>2. x \in Seq(Nat) /\ Len(x) = n /\ \A i \in 1..n : x[i] = i
    BY <1>1
  <1>3. y \in Seq(Nat) /\ Len(y) = 1 /\ y[1] = n + 1
    OBVIOUS
  <1>4. n + 1 \in Nat /\ w \in Seq(Nat) /\ Len(w) = n + 1 /\ \A i \in 1..(n + 1) : w[i] = i
    BY <1>1
  <1> HIDE DEF x, y, w
  <1>5. /\ z \in Seq(Nat) /\ Len(z) = Len(x) + Len(y)
        /\ \A i \in 1..(Len(x) + Len(y)) : z[i] = IF i <= Len(x) THEN x[i] ELSE y[i - Len(x)]
    BY <1>2, <1>3, ConcatProperties
  <1> HIDE DEF z
  <1>6. Len(z) = n + 1 /\ \A i \in 1..(n + 1) : z[i] = i
    BY <1>2, <1>3, <1>5
  <1>7. w = z
    BY <1>4, <1>5, <1>6, SeqEqual
  <1> QED BY <1>2, <1>7 DEF w, x, y, z

\* One step of the recursion of FlattenSeq.
FlattenStep(seqs, upTo, n) == IF n = 1 THEN seqs[n] ELSE upTo[n - 1] \o seqs[n]

\* A field without nested ones is one leaf column: the leaf columns of a flat
\* schema are its fields.
LEMMA FlatLeaves ==
  ASSUME NEW schema, IsSequence(schema), \A i \in DOMAIN schema : schema[i].leaves = 1
  PROVE  \A i \in DOMAIN schema : LeafColumns(schema)[i] = i
  <1> DEFINE N == Len(schema)
             seqs == [i \in DOMAIN schema |-> [leaf \in 1..schema[i].leaves |-> i]]
             g == [n \in 1..N |-> Counted(n)]
             f == CHOOSE h : h = [n \in 1..N |-> FlattenStep(seqs, h, n)]
  <1>1. N \in Nat /\ DOMAIN schema = 1..N
    BY DEF IsSequence
  <1>2. seqs = [i \in 1..N |-> <<i>>]
    <2>1. \A i \in 1..N : [leaf \in 1..schema[i].leaves |-> i] = <<i>>
      <3> SUFFICES ASSUME NEW i \in 1..N PROVE [leaf \in 1..schema[i].leaves |-> i] = <<i>>
        OBVIOUS
      <3>1. [leaf \in 1..1 |-> i] = <<i>>
        OBVIOUS
      <3> QED BY <1>1, <3>1
    <2> QED BY <1>1, <2>1
  <1> HIDE DEF seqs
  <1>3. Len(seqs) = N /\ \A i \in 1..N : seqs[i] = <<i>>
    BY <1>1, <1>2
  <1> SUFFICES ASSUME N # 0 PROVE \A i \in 1..N : LeafColumns(schema)[i] = i
    BY <1>1
  <1>4. LeafColumns(schema) = f[N]
    <2>1. LeafColumns(schema) = Sequence!FlattenSeq(seqs)
      BY DEF LeafColumns, seqs
    <2> QED BY <1>3, <2>1 DEF Sequence!FlattenSeq, FlattenStep
  <1>5. \A n \in 1..N : g[n] = FlattenStep(seqs, g, n)
    <2> SUFFICES ASSUME NEW n \in 1..N PROVE g[n] = FlattenStep(seqs, g, n)
      OBVIOUS
    <2>1. CASE n = 1
      <3>1. Counted(1) = <<1>>
        BY DEF Counted
      <3> QED BY <1>3, <2>1, <3>1 DEF FlattenStep
    <2>2. CASE n # 1
      <3>1. n - 1 \in Nat /\ n - 1 \in 1..N /\ (n - 1) + 1 = n
        BY <1>1, <2>2
      <3>2. Counted(n) = Counted(n - 1) \o <<n>>
        BY <3>1, CountedOn
      <3> QED BY <1>3, <2>2, <3>1, <3>2 DEF FlattenStep
    <2> QED BY <2>1, <2>2
  <1>6. f = [n \in 1..N |-> FlattenStep(seqs, f, n)]
    <2>1. g = [n \in 1..N |-> FlattenStep(seqs, g, n)]
      <3>1. g = [n \in 1..N |-> g[n]]
        OBVIOUS
      <3> HIDE DEF g
      <3> QED BY <1>5, <3>1
    <2> HIDE DEF g
    <2> QED BY <2>1
  <1> HIDE DEF f
  <1>7. \A n \in 1..N : f[n] = FlattenStep(seqs, f, n)
    BY <1>6
  <1> DEFINE Same == {n \in 0..N : n = 0 \/ f[n] = Counted(n)}
  <1>8. ASSUME NEW n \in 1..N, (n - 1) \in Same PROVE n \in Same
    <2>1. CASE n = 1
      <3>1. f[1] = g[1]
        BY <1>1, <1>5, <1>7, <2>1 DEF FlattenStep
      <3> QED BY <1>1, <2>1, <3>1
    <2>2. CASE n # 1
      <3>1. n - 1 \in 1..N /\ f[n - 1] = g[n - 1]
        BY <1>1, <1>8, <2>2
      <3>2. f[n] = f[n - 1] \o seqs[n] /\ g[n] = g[n - 1] \o seqs[n]
        <4> HIDE DEF g
        <4> QED BY <1>5, <1>7, <2>2 DEF FlattenStep
      <3>3. f[n] = g[n]
        <4> HIDE DEF g
        <4> QED BY <3>1, <3>2
      <3> QED BY <1>1, <3>3
    <2> QED BY <2>1, <2>2
  <1>9. 0..N \subseteq Same
    <2>1. 0 \in Same
      BY <1>1
    <2> HIDE DEF Same
    <2> QED BY <1>1, <1>8, <2>1, UpTo
  <1>10. f[N] = Counted(N)
    BY <1>1, <1>9
  <1> QED BY <1>4, <1>10 DEF Counted

\* Sequences with something in each flatten to at least as many elements.
LEMMA FlattenedLength ==
  ASSUME NEW N \in Nat \ {0}, NEW S, NEW seqs, Len(seqs) = N,
         \A i \in 1..N : seqs[i] \in Seq(S) /\ Len(seqs[i]) >= 1
  PROVE  Sequence!FlattenSeq(seqs) \in Seq(S) /\ Len(Sequence!FlattenSeq(seqs)) >= N
  <1> DEFINE Solves(g, n) == g = [k \in 1..n |-> FlattenStep(seqs, g, k)]
             f == CHOOSE h : h = [n \in 1..N |-> FlattenStep(seqs, h, n)]
             Solved == {n \in 0..N : \E g : Solves(g, n)}
             Long == {n \in 0..N : n = 0 \/ (f[n] \in Seq(S) /\ Len(f[n]) >= n)}
  <1>0. N \in Nat /\ N \in 0..N
    OBVIOUS
  <1>1. 0 \in Solved
    <2> DEFINE none == [k \in 1..0 |-> k]
    <2>1. Solves(none, 0)
      OBVIOUS
    <2> HIDE DEF none, Solves
    <2> QED BY <2>1
  <1>2. ASSUME NEW n \in 1..N, (n - 1) \in Solved PROVE n \in Solved
    <2>1. PICK g : Solves(g, n - 1)
      BY <1>2
    <2> DEFINE h == [k \in 1..n |-> IF k = n THEN FlattenStep(seqs, g, n) ELSE g[k]]
    <2>2. ASSUME NEW k \in 1..n PROVE h[k] = FlattenStep(seqs, h, k)
      <3>1. k = 1 \/ (k - 1 \in 1..n /\ k - 1 # n /\ h[k - 1] = g[k - 1])
        OBVIOUS
      <3>2. FlattenStep(seqs, h, k) = FlattenStep(seqs, g, k)
        <4> HIDE DEF h
        <4> QED BY <3>1 DEF FlattenStep
      <3>3. CASE k = n
        BY <3>2, <3>3
      <3>4. CASE k # n
        <4>1. k \in 1..(n - 1) /\ h[k] = g[k]
          BY <3>4
        <4>2. g[k] = FlattenStep(seqs, g, k)
          BY <2>1, <4>1
        <4> HIDE DEF h
        <4> QED BY <3>2, <4>1, <4>2
      <3> QED BY <3>3, <3>4
    <2>3. h = [k \in 1..n |-> h[k]]
      OBVIOUS
    <2> HIDE DEF h
    <2>4. Solves(h, n)
      BY <2>2, <2>3
    <2>5. n \in 0..N
      OBVIOUS
    <2> HIDE DEF Solves
    <2> QED BY <2>4, <2>5
  <1>3. N \in Solved
    <2> HIDE DEF Solved
    <2>1. 0..N \subseteq Solved
      BY <1>0, <1>1, <1>2, UpTo
    <2> QED BY <1>0, <2>1
  <1>4. f = [n \in 1..N |-> FlattenStep(seqs, f, n)]
    <2>1. \E h : h = [n \in 1..N |-> FlattenStep(seqs, h, n)]
      BY <1>3
    <2> QED BY <2>1
  <1>5. Sequence!FlattenSeq(seqs) = f[N]
    BY DEF Sequence!FlattenSeq, FlattenStep
  <1> HIDE DEF f
  <1>6. \A n \in 1..N : f[n] = FlattenStep(seqs, f, n)
    BY <1>4
  <1>7. ASSUME NEW n \in 1..N, (n - 1) \in Long PROVE n \in Long
    <2>1. CASE n = 1
      BY <1>6, <2>1 DEF FlattenStep
    <2>2. CASE n # 1
      <3> DEFINE x == f[n - 1]
                 y == seqs[n]
                 z == x \o y
      <3>1. f[n] = z
        BY <1>6, <2>2 DEF FlattenStep
      <3>2. x \in Seq(S) /\ Len(x) >= n - 1 /\ y \in Seq(S) /\ Len(y) >= 1
        BY <1>7, <2>2
      <3> HIDE DEF x, y
      <3>3. z \in Seq(S) /\ Len(z) = Len(x) + Len(y) /\ Len(x) \in Nat /\ Len(y) \in Nat
        BY <3>2, ConcatProperties, LenProperties
      <3> HIDE DEF z
      <3>4. Len(z) >= n
        BY <3>2, <3>3
      <3> QED BY <3>1, <3>3, <3>4
    <2> QED BY <2>1, <2>2
  <1>8. N \in Long
    <2>1. 0 \in Long
      OBVIOUS
    <2> HIDE DEF Long
    <2>2. 0..N \subseteq Long
      BY <1>0, <1>7, <2>1, UpTo
    <2> QED BY <1>0, <2>2
  <1> QED BY <1>5, <1>8 DEF Long

\* The positions of fields are the positions of some leaf columns.
LEMMA LeavesAreOfFields ==
  ASSUME NEW schema, IsSequence(schema), \A i \in DOMAIN schema : schema[i].leaves \in Nat \ {0}
  PROVE  \A i \in DOMAIN schema : LeafColumns(schema)[i] \in DOMAIN schema
  <1> DEFINE N == Len(schema)
             seqs == [i \in DOMAIN schema |-> [leaf \in 1..schema[i].leaves |-> i]]
  <1>1. N \in Nat /\ DOMAIN schema = 1..N
    BY DEF IsSequence
  <1> SUFFICES ASSUME N # 0 PROVE \A i \in 1..N : LeafColumns(schema)[i] \in 1..N
    BY <1>1
  <1>2. ASSUME NEW i \in 1..N PROVE seqs[i] \in Seq(1..N) /\ Len(seqs[i]) >= 1
    <2>1. PICK n \in Nat \ {0} : n = schema[i].leaves
      BY <1>1
    <2>2. seqs[i] = [leaf \in 1..n |-> i]
      BY <1>1, <2>1
    <2> QED BY <2>1, <2>2
  <1>3. Len(seqs) = N
    BY <1>1
  <1>4. LeafColumns(schema) = Sequence!FlattenSeq(seqs)
    BY DEF LeafColumns
  <1> HIDE DEF seqs, N
  <1> DEFINE leaves == Sequence!FlattenSeq(seqs)
  <1>5. leaves \in Seq(1..N) /\ Len(leaves) >= N
    BY <1>1, <1>2, <1>3, FlattenedLength
  <1> HIDE DEF leaves
  <1>6. \A i \in 1..N : leaves[i] \in 1..N
    BY <1>1, <1>5, ElementOfSeq
  <1> QED BY <1>4, <1>6 DEF leaves

\* The replay projection of a flat file has the columns whose name is canonical
\* and is no other column's, and so passes the check of the schema, and decodes,
\* as the whole file does.
LEMMA ColumnsOfFlat ==
  ASSUME NEW file, IsSequence(file.batch.schema), IsFlat(file)
  PROVE  Consume(file, ReplayColumns(file.batch.schema, file.kind)) =
           Consume(file, DOMAIN file.batch.schema)
  <1> DEFINE schema == file.batch.schema
             k == file.kind
             all == DOMAIN schema
             some == ReplayColumns(schema, k)
             Found(name) == {i \in all : schema[i].name = name}
  <1>1. some = UNION {FieldsNamed(schema, all, name) : name \in CanonicalColumnNames(k)}
    <2>1. \A i \in all : LeafColumns(schema)[i] = i
      BY FlatLeaves DEF IsFlat
    <2>2. \A name : FieldsNamed(schema, all, name) \subseteq all
      BY DEF FieldsNamed
    <2> HIDE DEF schema, all
    <2> QED BY <2>1, <2>2 DEF ReplayColumns, all
  <1> HIDE DEF schema, all, some, k
  <1>2. \A name : FieldsNamed(schema, all, name) = IF Cardinality(Found(name)) = 1 THEN Found(name) ELSE {}
    BY DEF FieldsNamed
  <1>3. ASSUME NEW name \in CanonicalColumnNames(k)
        PROVE  FieldsNamed(schema, some, name) = FieldsNamed(schema, all, name)
    <2> DEFINE kept == {i \in some : schema[i].name = name}
    <2>1. CASE Cardinality(Found(name)) = 1
      <3>1. Found(name) = FieldsNamed(schema, all, name)
        BY <1>2, <2>1
      <3>2. Found(name) \subseteq some /\ some \subseteq all
        <4>1. \A other : FieldsNamed(schema, all, other) \subseteq all
          BY DEF FieldsNamed
        <4> QED BY <1>1, <1>3, <3>1, <4>1
      <3>3. kept = Found(name)
        BY <3>2
      <3> QED BY <1>2, <2>1, <3>3 DEF FieldsNamed
    <2>2. CASE Cardinality(Found(name)) # 1
      <3>1. kept = {}
        <4> SUFFICES ASSUME NEW i \in kept PROVE FALSE
          OBVIOUS
        <4>1. PICK other \in CanonicalColumnNames(k) : i \in FieldsNamed(schema, all, other)
          BY <1>1
        <4>2. other = name
          BY <1>2, <4>1
        <4> QED BY <1>2, <2>2, <4>1, <4>2
      <3>2. FieldsNamed(schema, some, name) = {}
        <4>1. FieldsNamed(schema, some, name) \subseteq kept
          BY DEF FieldsNamed
        <4> QED BY <3>1, <4>1
      <3> QED BY <1>2, <2>2, <3>2
    <2> QED BY <2>1, <2>2
  <1>4. \A f \in Sequence!ToSet(SchemaFor(k)) : f.name \in CanonicalColumnNames(k)
    BY DEF Sequence!ToSet, CanonicalColumnNames
  <1>5. IsValidSchema(schema, some, k) <=> IsValidSchema(schema, all, k)
    BY <1>3, <1>4 DEF IsValidSchema
  <1> QED BY <1>5 DEF Consume, schema, all, some, k

\* A canonical column that is missing stops both projections, the whole file's
\* only where there is a row.
LEMMA ReplayOfFlat ==
  ASSUME NEW file, IsSequence(file.batch.schema), IsFlat(file)
  PROVE  Replay(file) = IF HasCanonicalColumns(file) \/ file.batch.rows # <<>>
                        THEN Consume(file, DOMAIN file.batch.schema)
                        ELSE Invalid
  <1> DEFINE schema == file.batch.schema
  <1>1. ASSUME ~HasCanonicalColumns(file)
        PROVE  ~IsValidSchema(schema, DOMAIN schema, file.kind)
    <2>1. PICK name \in CanonicalColumnNames(file.kind) : FieldsNamed(schema, DOMAIN schema, name) = {}
      BY <1>1 DEF HasCanonicalColumns
    <2>2. PICK f \in Sequence!ToSet(SchemaFor(file.kind)) : f.name = name
      BY DEF Sequence!ToSet, CanonicalColumnNames
    <2> QED BY <2>1, <2>2 DEF IsValidSchema
  <1> QED BY <1>1, ColumnsOfFlat DEF Replay, Consume

\* Where the replay projection replays, nested columns or not, the canonical
\* columns are among the ones it reads, and no others have their names.
LEMMA ReplayedIsRead ==
  ASSUME NEW file, IsSequence(file.batch.schema),
         \A i \in DOMAIN file.batch.schema : file.batch.schema[i].leaves \in Nat \ {0},
         Replay(file).status = "ok"
  PROVE  Replay(file) = Consume(file, DOMAIN file.batch.schema)
  <1> DEFINE schema == file.batch.schema
             k == file.kind
             all == DOMAIN schema
             some == ReplayColumns(schema, k)
  <1>1. HasCanonicalColumns(file) /\ Replay(file) = Consume(file, some)
    BY DEF Replay, Invalid
  <1>2. some \subseteq all
    <2>1. \A name : FieldsNamed(schema, all, name) \subseteq all
      BY DEF FieldsNamed
    <2>2. \A i \in all : LeafColumns(schema)[i] \in all
      BY LeavesAreOfFields
    <2> HIDE DEF schema
    <2> QED BY <2>1, <2>2 DEF ReplayColumns
  <1>3. \A name \in CanonicalColumnNames(k) : FieldsNamed(schema, all, name) # {}
    BY <1>1 DEF HasCanonicalColumns
  <1>4. \A f \in Sequence!ToSet(SchemaFor(k)) : f.name \in CanonicalColumnNames(k)
    BY DEF Sequence!ToSet, CanonicalColumnNames
  <1>5. file.batch.rows = <<>> \/ IsValidSchema(schema, some, k)
    BY <1>1 DEF Consume, Invalid
  <1> HIDE DEF schema, k, all, some
  <1>6. ASSUME NEW name, FieldsNamed(schema, all, name) # {}, NEW i \in FieldsNamed(schema, some, name)
        PROVE  i \in FieldsNamed(schema, all, name)
    BY <1>2, <1>6 DEF FieldsNamed
  <1>7. ASSUME IsValidSchema(schema, some, k) PROVE IsValidSchema(schema, all, k)
    BY <1>3, <1>4, <1>6, <1>7 DEF IsValidSchema
  <1>8. Consume(file, some) = Consume(file, all)
    BY <1>5, <1>7 DEF Consume, schema, k
  <1> QED BY <1>1, <1>8 DEF all, schema

-----------------------------------------------------------------------------
\* The invariant of the archive: what the program holds is observations, the
\* file is one of another program or what to_arrow() made of them, and what was
\* read and replayed was decoded from the file that is there.
FileFits(file) ==
  /\ file.kind = kind /\ file.stream \in Streams
  /\ IsSequence(file.batch.schema) /\ IsSequence(file.batch.rows)
  /\ \A i \in DOMAIN file.batch.schema : file.batch.schema[i].leaves \in Nat \ {0}

ExportedFits(observations) ==
  /\ IsSequence(observations) /\ \A i \in DOMAIN observations : IsObservation(kind, observations[i])
  /\ \A file \in artifact : file.batch = ToArrow(kind, observations)

ReadFits ==
  /\ read = NotYet \/ \E file \in artifact : read = Consume(file, DOMAIN file.batch.schema)
  /\ replayed = NotYet \/ \E file \in artifact : replayed = Replay(file)

ArchiveIInv ==
  /\ kind \in Kind
  /\ Len(held) <= MaxHeld /\ IsSequence(held) /\ \A i \in DOMAIN held : IsObservation(kind, held[i])
  /\ artifact = {} \/ \E file \in artifact : artifact = {file}
  /\ \A file \in artifact : FileFits(file)
  /\ \A observations \in exported : ExportedFits(observations)
  /\ ReadFits

\* What is decoded is observations of the kind of the file.
LEMMA ConsumedEvents ==
  ASSUME NEW file, file.kind \in Kind, file.stream \in Streams, IsSequence(file.batch.rows), NEW columns,
         Consume(file, columns).status = "ok"
  PROVE  LET events == Consume(file, columns).events
         IN  /\ IsSequence(events) /\ \A i \in DOMAIN events : IsObservation(file.kind, events[i])
             /\ ToArrow(file.kind, events).rows =
                  [i \in DOMAIN file.batch.rows |->
                     [name \in CanonicalColumnNames(file.kind) |-> file.batch.rows[i][name]]]
  <1> DEFINE rows == file.batch.rows
             k == file.kind
             events == Consume(file, columns).events
  <1>1. /\ \A i \in DOMAIN rows : RowIsCanonical(k, rows[i])
        /\ events = [i \in DOMAIN rows |-> ObservationOf(k, rows[i], file.stream)]
    BY DEF Consume, EventsFromArrow, Invalid
  <1>2. Len(rows) \in Nat /\ DOMAIN rows = 1..Len(rows)
    BY DEF IsSequence
  <1> HIDE DEF events, rows, k
  <1>3. /\ DOMAIN events = DOMAIN rows /\ DOMAIN events = 1..Len(events) /\ Len(events) \in Nat
        /\ \A i \in DOMAIN rows : events[i] = ObservationOf(k, rows[i], file.stream)
    BY <1>1, <1>2
  <1>4. events = [i \in 1..Len(events) |-> events[i]]
    BY <1>1, <1>2, <1>3
  <1>5. \A i \in DOMAIN rows : /\ IsObservation(k, events[i])
                               /\ RowOf(k, events[i]) = [name \in CanonicalColumnNames(k) |-> rows[i][name]]
    BY <1>1, <1>3, ObservationOfRow DEF k
  <1>6. ToArrow(k, events).rows = [i \in DOMAIN events |-> RowOf(k, events[i])]
    BY DEF ToArrow
  <1>7. ToArrow(k, events).rows =
          [i \in DOMAIN rows |-> [name \in CanonicalColumnNames(k) |-> rows[i][name]]]
    BY <1>3, <1>5, <1>6
  <1> QED BY <1>3, <1>4, <1>5, <1>7 DEF IsSequence, events, rows, k

\* What the program wrote of observations is decoded to them.
LEMMA OwnIsConsumed ==
  ASSUME NEW file, file.kind \in Kind, NEW observations, file.batch = ToArrow(file.kind, observations),
         \A i \in DOMAIN observations : IsObservation(file.kind, observations[i])
  PROVE  Consume(file, DOMAIN file.batch.schema) =
           [status |-> "ok", events |-> Relabelled(observations, file.stream)]
  <1> DEFINE k == file.kind
             rows == file.batch.rows
  <1>1. file.batch.schema = SchemaFor(k) /\ rows = [i \in DOMAIN observations |-> RowOf(k, observations[i])]
    BY DEF ToArrow
  <1>2. \A i \in DOMAIN observations :
          /\ RowIsCanonical(k, rows[i])
          /\ ObservationOf(k, rows[i], file.stream) = [observations[i] EXCEPT !.stream = file.stream]
    BY <1>1, RowOfObservation
  <1>3. IsValidSchema(file.batch.schema, DOMAIN file.batch.schema, k)
    BY <1>1, OwnSchemaIsValid
  <1> HIDE DEF rows
  <1>4. DOMAIN rows = DOMAIN observations
    BY <1>1
  <1>5. [i \in DOMAIN rows |-> ObservationOf(k, rows[i], file.stream)] = Relabelled(observations, file.stream)
    BY <1>2, <1>4 DEF Relabelled
  <1>6. EventsFromArrow(k, rows, file.stream) =
          [status |-> "ok", events |-> Relabelled(observations, file.stream)]
    BY <1>2, <1>4, <1>5 DEF EventsFromArrow
  <1> QED BY <1>3, <1>6 DEF Consume, rows

LEMMA OwnHasColumns ==
  ASSUME NEW file, file.kind \in Kind, NEW observations, file.batch = ToArrow(file.kind, observations)
  PROVE  HasCanonicalColumns(file)
  <1> DEFINE s == SchemaFor(file.kind)
  <1>1. file.batch.schema = s /\ IsValidSchema(s, DOMAIN s, file.kind)
    BY OwnSchemaIsValid DEF ToArrow
  <1>2. \A name \in CanonicalColumnNames(file.kind) : \E f \in Sequence!ToSet(s) : f.name = name
    BY DEF Sequence!ToSet, CanonicalColumnNames
  <1> HIDE DEF s
  <1> QED BY <1>1, <1>2 DEF IsValidSchema, HasCanonicalColumns, s

LEMMA OwnIsFlat ==
  ASSUME NEW file, NEW k, NEW observations, file.batch = ToArrow(k, observations)
  PROVE  IsSequence(file.batch.schema) /\ IsFlat(file)
  <1> DEFINE s == SchemaFor(k)
  <1>1. file.batch.schema = s
    BY DEF ToArrow
  <1>2. Len(s) = 8 /\ DOMAIN s = 1..8
    BY SchemaIsKnown
  <1>3. \A i \in DOMAIN s : s[i].leaves = 1
    <2>1. /\ s[1].leaves = 1 /\ s[2].leaves = 1 /\ s[3].leaves = 1 /\ s[4].leaves = 1 /\ s[5].leaves = 1
          /\ s[6] = KindFields(k)[1] /\ s[7] = KindFields(k)[2] /\ s[8] = KindFields(k)[3]
      BY SchemaIsKnown DEF Field
    <2>2. /\ KindFields(k)[1].leaves = 1 /\ KindFields(k)[2].leaves = 1 /\ KindFields(k)[3].leaves = 1
      <3>2. \A name, type, nullable : Field(name, type, nullable).leaves = 1
        BY DEF Field
      <3>3. CASE k = "trades"
        <4>1. /\ KindFields(k)[1] = Field("price", "int64", FALSE)
              /\ KindFields(k)[2] = Field("quantity", "int64", FALSE)
              /\ KindFields(k)[3] = Field("aggressor_side", "int8", TRUE)
          BY <3>3, KindFieldsAre
        <4> QED BY <3>2, <4>1
      <3>4. CASE k # "trades"
        <4>1. KindFields(k) = KindFields("order_executions")
          BY <3>4 DEF KindFields
        <4>2. /\ KindFields(k)[1] = Field("resting_order_id", "uint64", FALSE)
              /\ KindFields(k)[2] = Field("executed_quantity", "int64", FALSE)
              /\ KindFields(k)[3] = Field("price", "int64", TRUE)
          BY <4>1, KindFieldsAre
        <4> QED BY <3>2, <4>2
      <3> QED BY <3>3, <3>4
    <2> HIDE DEF s
    <2> QED BY <1>2, <2>1, <2>2
  <1>4. s = [i \in 1..8 |-> s[i]]
    BY SchemaIsKnown
  <1> QED BY <1>1, <1>2, <1>3, <1>4 DEF IsSequence, IsFlat

-----------------------------------------------------------------------------
LEMMA ArchiveInitially == Init => ArchiveIInv
  <1> SUFFICES ASSUME Init PROVE ArchiveIInv
    OBVIOUS
  <1>1. Len(<<>>) = 0 /\ DOMAIN <<>> = {} /\ <<>> = [i \in 1..0 |-> <<>>[i]]
    OBVIOUS
  <1>2. Len(held) <= MaxHeld /\ IsSequence(held) /\ \A i \in DOMAIN held : IsObservation(kind, held[i])
    <2>1. held = <<>> /\ 0 <= MaxHeld
      BY ArchiveAssumption DEF Init
    <2> QED BY <1>1, <2>1 DEF IsSequence
  <1> QED BY <1>2 DEF Init, ArchiveIInv, ReadFits

\* What an action that leaves the file alone keeps of the invariant.
LEMMA FileKept ==
  ASSUME ArchiveIInv, UNCHANGED <<kind, artifact, exported>>
  PROVE  /\ kind' \in Kind
         /\ (artifact = {} \/ \E file \in artifact : artifact = {file})'
         /\ (\A file \in artifact : FileFits(file))'
         /\ (\A observations \in exported : ExportedFits(observations))'
PROOF BY DEF ArchiveIInv, FileFits, ExportedFits

LEMMA HeldFits ==
  ASSUME ArchiveIInv, NEW o, IsObservation(kind, o), Len(held) < MaxHeld
  PROVE  LET more == Append(held, o)
         IN  Len(more) <= MaxHeld /\ IsSequence(more) /\ \A i \in DOMAIN more : IsObservation(kind, more[i])
  <1> DEFINE more == Append(held, o)
             N == Len(held)
  <1>1. N \in Nat /\ held = [i \in 1..N |-> held[i]] /\ \A i \in 1..N : IsObservation(kind, held[i])
    BY DEF ArchiveIInv, IsSequence
  <1>2. held \in Seq({held[i] : i \in 1..N} \union {o})
    BY <1>1
  <1>3. /\ Len(more) = N + 1 /\ more = [i \in 1..(N + 1) |-> more[i]]
        /\ more[N + 1] = o /\ \A i \in 1..N : more[i] = held[i]
    <2> DEFINE S == {held[i] : i \in 1..N} \union {o}
    <2>1. held \in Seq(S) /\ o \in S
      BY <1>2
    <2> HIDE DEF S
    <2>2. more \in Seq(S) /\ Len(more) = N + 1
      BY <2>1
    <2>3. more[N + 1] = o /\ \A i \in 1..N : more[i] = held[i]
      BY <2>1
    <2>4. more = [i \in 1..(N + 1) |-> more[i]]
      <3> HIDE DEF more
      <3> QED BY <2>2, LenProperties
    <2> QED BY <2>2, <2>3, <2>4
  <1> HIDE DEF more, N
  <1>4. \A i \in 1..(N + 1) : i \in 1..N \/ i = N + 1
    BY <1>1
  <1>5. DOMAIN more = 1..(N + 1) /\ \A i \in 1..(N + 1) : IsObservation(kind, more[i])
    BY <1>1, <1>3, <1>4
  <1>6. N + 1 <= MaxHeld /\ N + 1 \in Nat
    BY <1>1, ArchiveAssumption DEF N
  <1> QED BY <1>3, <1>5, <1>6 DEF more, IsSequence

LEMMA HoldPreserves ==
  ASSUME ArchiveIInv, NEW o \in Observations[kind], Hold(o)
  PROVE  ArchiveIInv'
  <1>1. IsObservation(kind, o) /\ Len(held) < MaxHeld /\ held' = Append(held, o)
    BY ArchiveAssumption DEF ArchiveIInv, Hold
  <1>2. UNCHANGED <<kind, artifact, exported, read, replayed>>
    BY DEF Hold
  <1>3. Len(held') <= MaxHeld /\ IsSequence(held') /\ \A i \in DOMAIN held' : IsObservation(kind', held'[i])
    BY <1>1, <1>2, HeldFits
  <1>4. ReadFits'
    BY <1>2 DEF ArchiveIInv, ReadFits
  <1> QED BY <1>2, <1>3, <1>4, FileKept DEF ArchiveIInv

\* A new file takes the place of the old one and of what was read from it.
LEMMA StorePreserves ==
  ASSUME ArchiveIInv, NEW file, FileFits(file), NEW observations, Store(file, observations),
         \A some \in observations :
           /\ IsSequence(some) /\ \A i \in DOMAIN some : IsObservation(kind, some[i])
           /\ file.batch = ToArrow(kind, some)
  PROVE  ArchiveIInv'
  <1>1. /\ kind' = kind /\ held' = held /\ artifact' = {file} /\ exported' = observations
        /\ read' = NotYet /\ replayed' = NotYet
    BY DEF Store
  <1>2. ReadFits'
    BY <1>1 DEF ReadFits
  <1>3. \A f \in artifact' : FileFits(f)'
    BY <1>1 DEF FileFits
  <1>4. \A some \in exported' : ExportedFits(some)'
    BY <1>1 DEF ExportedFits
  <1> QED BY <1>1, <1>2, <1>3, <1>4 DEF ArchiveIInv

LEMMA WriteOwnPreserves ==
  ASSUME ArchiveIInv, NEW stream \in Streams, WriteOwn(stream)
  PROVE  ArchiveIInv'
  <1> DEFINE batch == ToArrow(kind, held)
             file == [kind |-> kind, stream |-> stream, batch |-> batch]
  <1>1. Store(file, {held}) /\ IsSequence(held) /\ \A i \in DOMAIN held : IsObservation(kind, held[i])
    BY DEF WriteOwn, ArchiveIInv
  <1>2. file.kind = kind /\ file.stream = stream /\ file.batch = batch
    OBVIOUS
  <1>3. IsSequence(batch.schema) /\ \A i \in DOMAIN batch.schema : batch.schema[i].leaves \in Nat \ {0}
    <2>1. IsSequence(file.batch.schema) /\ IsFlat(file)
      BY <1>2, OwnIsFlat
    <2> HIDE DEF batch, file
    <2> QED BY <1>2, <2>1 DEF IsFlat
  <1>4. IsSequence(batch.rows)
    <2> DEFINE rows == [i \in DOMAIN held |-> RowOf(kind, held[i])]
    <2>1. Len(held) \in Nat /\ DOMAIN held = 1..Len(held)
      BY <1>1 DEF IsSequence
    <2>2. DOMAIN rows = 1..Len(held) /\ Len(rows) = Len(held) /\ rows = [i \in 1..Len(held) |-> rows[i]]
      BY <2>1
    <2>3. batch.rows = rows
      BY DEF ToArrow
    <2> HIDE DEF rows, batch
    <2> QED BY <2>1, <2>2, <2>3 DEF IsSequence
  <1> HIDE DEF batch, file
  <1>5. FileFits(file)
    BY <1>2, <1>3, <1>4 DEF FileFits
  <1> QED BY <1>1, <1>2, <1>5, StorePreserves DEF batch

LEMMA WriteOtherPreserves ==
  ASSUME ArchiveIInv, NEW file \in OtherArtifacts, WriteOther(file)
  PROVE  ArchiveIInv'
  <1>1. Store(file, {}) /\ FileFits(file)
    BY ArchiveAssumption DEF WriteOther, FileFits
  <1> QED BY <1>1, StorePreserves

LEMMA ReadPreserves ==
  ASSUME ArchiveIInv, ReadFull \/ StreamEvents
  PROVE  ArchiveIInv'
  <1>1. UNCHANGED <<kind, held, artifact, exported>>
    BY DEF ReadFull, StreamEvents
  <1>2. ReadFits'
    BY DEF ReadFull, StreamEvents, ArchiveIInv, ReadFits
  <1>3. Len(held') <= MaxHeld /\ IsSequence(held') /\ \A i \in DOMAIN held' : IsObservation(kind', held'[i])
    BY <1>1 DEF ArchiveIInv
  <1> QED BY <1>1, <1>2, <1>3, FileKept DEF ArchiveIInv

LEMMA AdoptPreserves ==
  ASSUME ArchiveIInv, Adopt
  PROVE  ArchiveIInv'
  <1>1. UNCHANGED <<kind, artifact, exported, read, replayed>>
    BY DEF Adopt
  <1>2. PICK answer \in {read, replayed} :
          answer.status = "ok" /\ Len(answer.events) <= MaxHeld /\ held' = answer.events
    BY DEF Adopt
  <1>3. PICK file \in artifact : \E columns : answer = Consume(file, columns)
    BY <1>2 DEF ArchiveIInv, ReadFits, NotYet, Replay, Invalid
  <1>4. file.kind = kind /\ file.kind \in Kind /\ file.stream \in Streams /\ IsSequence(file.batch.rows)
    BY DEF ArchiveIInv, FileFits
  <1>5. IsSequence(held') /\ \A i \in DOMAIN held' : IsObservation(kind, held'[i])
    <2>1. PICK columns : answer = Consume(file, columns)
      BY <1>3
    <2>2. Consume(file, columns).status = "ok" /\ held' = Consume(file, columns).events
      BY <1>2, <2>1
    <2>3. /\ IsSequence(Consume(file, columns).events)
          /\ \A i \in DOMAIN Consume(file, columns).events :
               IsObservation(file.kind, Consume(file, columns).events[i])
      BY <1>4, <2>2, ConsumedEvents
    <2> QED BY <1>4, <2>2, <2>3
  <1>6. ReadFits'
    BY <1>1 DEF ArchiveIInv, ReadFits
  <1> QED BY <1>1, <1>2, <1>5, <1>6, FileKept DEF ArchiveIInv

LEMMA ArchiveInductive == Spec => []ArchiveIInv
  <1>1. ArchiveIInv /\ [Next]_vars => ArchiveIInv'
    <2> SUFFICES ASSUME ArchiveIInv, [Next]_vars PROVE ArchiveIInv'
      OBVIOUS
    <2>1. CASE UNCHANGED vars
      <3>1. UNCHANGED <<kind, held, artifact, exported, read, replayed>>
        BY <2>1 DEF vars
      <3> QED BY <3>1, FileKept DEF ArchiveIInv, ReadFits
    <2>2. CASE Next
      BY <2>2, HoldPreserves, WriteOwnPreserves, WriteOtherPreserves, ReadPreserves, AdoptPreserves
         DEF Next
    <2> QED BY <2>1, <2>2
  <1> QED BY <1>1, ArchiveInitially, PTL DEF Spec

-----------------------------------------------------------------------------
\* Whatever was read or replayed was decoded from the file that is there.
LEMMA ReadIsConsumed ==
  ASSUME ArchiveIInv, NEW file \in artifact, NEW answer \in {read, replayed}, answer # NotYet
  PROVE  /\ FileFits(file) /\ file.kind \in Kind
         /\ answer = Consume(file, DOMAIN file.batch.schema) \/ answer = Replay(file)
PROOF BY DEF ArchiveIInv, FileFits, ReadFits

LEMMA ReadStatus ==
  ASSUME ArchiveIInv, NEW answer \in {read, replayed}
  PROVE  answer.status \in {"none", "ok", "invalid"}
  <1>1. CASE answer = NotYet
    BY <1>1 DEF NotYet
  <1>2. CASE answer # NotYet
    <2>1. PICK file : answer = Invalid \/ \E columns : answer = Consume(file, columns)
      BY <1>2 DEF ArchiveIInv, ReadFits, Replay
    <2> QED BY <2>1 DEF Consume, EventsFromArrow, Invalid
  <1> QED BY <1>1, <1>2

\* Observations that the program writes come back from every read and every
\* replay as they were, in their order, in the stream of the artifact, also
\* when the program had them from another program's file.
THEOREM ArchiveIsFaithful == Spec => []ArchiveInv
  <1>1. ArchiveIInv => ArchiveInv
    <2> SUFFICES ASSUME ArchiveIInv PROVE ArchiveInv
      OBVIOUS
    <2>1. TypeOK
      <3>1. Cardinality(artifact) <= 1
        <4>1. CASE artifact = {}
          BY <4>1, FS_EmptySet
        <4>2. CASE artifact # {}
          <5>1. PICK file : artifact = {file}
            BY <4>2 DEF ArchiveIInv
          <5> QED BY <5>1, FS_Singleton
        <4> QED BY <4>1, <4>2
      <3> QED BY <3>1, ReadStatus DEF TypeOK, ArchiveIInv
    <2>2. ASSUME NEW observations \in exported, NEW file \in artifact, NEW answer \in {read, replayed} \ {NotYet}
          PROVE  answer = [status |-> "ok", events |-> Relabelled(observations, file.stream)]
      <3>1. /\ FileFits(file) /\ file.kind \in Kind /\ file.kind = kind
            /\ answer = Consume(file, DOMAIN file.batch.schema) \/ answer = Replay(file)
        BY <2>2, ReadIsConsumed DEF FileFits
      <3>2. /\ file.batch = ToArrow(file.kind, observations)
            /\ \A i \in DOMAIN observations : IsObservation(file.kind, observations[i])
        BY <3>1 DEF ArchiveIInv, ExportedFits
      <3>3. Replay(file) = Consume(file, DOMAIN file.batch.schema)
        BY <3>1, <3>2, OwnIsFlat, OwnHasColumns, ReplayOfFlat
      <3> QED BY <3>1, <3>2, <3>3, OwnIsConsumed
    <2> QED BY <2>1, <2>2 DEF ArchiveInv, OwnArtifactsRoundTrip
  <1> QED BY <1>1, ArchiveInductive, PTL

\* Of a file that another program wrote, every row that a decoder takes is
\* encoded again as it stood there.
THEOREM AcceptedRowsComeBack == Spec => []AcceptedRowsAreKept
  <1>1. ArchiveIInv => AcceptedRowsAreKept
    <2> SUFFICES ASSUME ArchiveIInv, NEW file \in artifact, NEW answer \in {read, replayed},
                        answer.status = "ok"
                 PROVE  ToArrow(file.kind, answer.events).rows =
                          [i \in DOMAIN file.batch.rows |->
                             [name \in CanonicalColumnNames(file.kind) |-> file.batch.rows[i][name]]]
      BY DEF AcceptedRowsAreKept
    <2>1. answer # NotYet
      BY DEF NotYet
    <2>2. PICK columns : answer = Consume(file, columns)
      BY <2>1, ReadIsConsumed DEF Replay, Invalid
    <2>3. file.kind \in Kind /\ file.stream \in Streams /\ IsSequence(file.batch.rows)
      BY <2>1, ReadIsConsumed DEF FileFits
    <2> QED BY <2>2, <2>3, ConsumedEvents
  <1> QED BY <1>1, ArchiveInductive, PTL

\* What is replayed is what a full read gives, whatever columns the file has
\* beside the canonical ones and wherever, and what a full read gives is
\* replayed, but for nested columns and for a file without rows that lacks a
\* canonical column.
THEOREM ReplayMatchesRead == Spec => []ReplayIsTheFullRead
  <1>1. ArchiveIInv => ReplayIsTheFullRead
    <2> SUFFICES ASSUME ArchiveIInv, NEW file \in artifact, NotYet \notin {read, replayed}
                 PROVE  /\ replayed.status = "ok" => replayed = read
                        /\ IsFlat(file) =>
                             replayed = IF HasCanonicalColumns(file) \/ file.batch.rows # <<>>
                                        THEN read ELSE Invalid
      BY DEF ReplayIsTheFullRead
    <2>1. /\ IsSequence(file.batch.schema)
          /\ \A i \in DOMAIN file.batch.schema : file.batch.schema[i].leaves \in Nat \ {0}
      BY DEF ArchiveIInv, FileFits
    <2>2. read = Consume(file, DOMAIN file.batch.schema) /\ replayed = Replay(file)
      BY DEF ArchiveIInv, ReadFits
    <2>3. replayed.status = "ok" => replayed = read
      BY <2>1, <2>2, ReplayedIsRead
    <2>4. ASSUME IsFlat(file)
          PROVE  Replay(file) = IF HasCanonicalColumns(file) \/ file.batch.rows # <<>>
                                THEN Consume(file, DOMAIN file.batch.schema) ELSE Invalid
      BY <2>1, <2>4, ReplayOfFlat
    <2> QED BY <2>2, <2>3, <2>4
  <1> QED BY <1>1, ArchiveInductive, PTL

-----------------------------------------------------------------------------
\* The keys of an encoding and their texts.
LEMMA FieldKeys ==
  ASSUME NEW m \in Metadata
  PROVE  LET encoded == EncodeMetadata(m)
             fields == FieldTexts(m)
         IN  \A field \in DOMAIN fields : /\ <<field>> \in DOMAIN encoded
                                          /\ encoded[<<field>>] = fields[field]
  <1> SUFFICES ASSUME NEW field \in DOMAIN FieldTexts(m)
               PROVE  /\ <<field>> \in KeysOf(m)
                      /\ TextOf(m, <<field>>) = FieldTexts(m)[field]
    BY DEF EncodeMetadata
  <1>1. <<field>> \in KeysOf(m)
    BY DEF KeysOf
  <1>2. field \notin {"quality_reference", "source_artifact", "checksum"}
    BY DEF FieldTexts
  <1> QED BY <1>1, <1>2 DEF TextOf

LEMMA ReferenceKeys ==
  ASSUME NEW m \in Metadata, NEW i \in DOMAIN m.references
  PROVE  /\ Reference(i - 1) \in DOMAIN EncodeMetadata(m)
         /\ EncodeMetadata(m)[Reference(i - 1)] = m.references[i]
  <1>1. Reference(i - 1) \in KeysOf(m)
    BY DEF KeysOf
  <1>2. i \in Nat
    BY DEF Metadata
  <1>3. Reference(i - 1)[1] = "quality_reference" /\ Reference(i - 1)[2] + 1 = i
    BY <1>2 DEF Reference
  <1> QED BY <1>1, <1>3 DEF EncodeMetadata, TextOf

LEMMA ArtifactKeys ==
  ASSUME NEW m \in Metadata, NEW i \in DOMAIN m.artifacts, NEW field \in {"identity", "start", "end"}
  PROVE  /\ Artifact(i - 1, field) \in DOMAIN EncodeMetadata(m)
         /\ EncodeMetadata(m)[Artifact(i - 1, field)] = ArtifactText(m.artifacts[i], field)
  <1>1. Artifact(i - 1, field) \in KeysOf(m)
    BY DEF KeysOf
  <1>2. i \in Nat
    BY DEF Metadata
  <1>3. /\ Artifact(i - 1, field)[1] = "source_artifact" /\ Artifact(i - 1, field)[2] + 1 = i
        /\ Artifact(i - 1, field)[3] = field
    BY <1>2 DEF Artifact
  <1> QED BY <1>1, <1>3 DEF EncodeMetadata, TextOf

LEMMA ChecksumKey ==
  ASSUME NEW m \in Metadata
  PROVE  /\ <<"checksum">> \in DOMAIN EncodeMetadata(m) <=> m.checksum # {}
         /\ m.checksum # {} => m.checksum = {EncodeMetadata(m)[<<"checksum">>]}
  <1>1. <<"checksum">> \in KeysOf(m) <=> m.checksum # {}
    BY DEF KeysOf, FieldTexts, Reference, Artifact
  <1>2. CASE m.checksum # {}
    <2>1. PICK c \in Texts : m.checksum = {c}
      BY <1>2 DEF Metadata
    <2>2. TextOf(m, <<"checksum">>) = c
      BY <2>1 DEF TextOf
    <2> QED BY <1>1, <1>2, <2>1, <2>2 DEF EncodeMetadata
  <1> QED BY <1>1, <1>2 DEF EncodeMetadata

LEMMA RequiredOfEncoding ==
  ASSUME NEW m \in Metadata, stored = EncodeMetadata(m)
  PROVE  /\ Required(<<"data_kind">>) = {Word(m.data_kind)}
         /\ Required(<<"acquisition_mode">>) = {Word(m.mode)}
         /\ Required(<<"instrument_id">>) = {Number(m.instrument)}
         /\ Required(<<"venue_id">>) = {Number(m.venue)}
         /\ Required(<<"source_id">>) = {Number(m.source)}
         /\ Required(<<"start_ns">>) = {Number(m.range.start)}
         /\ Required(<<"end_ns">>) = {Number(m.range.end)}
         /\ Required(<<"schema_version">>) = {m.schema}
         /\ Required(<<"adapter_version">>) = {m.adapter}
         /\ Required(<<"mapping_version">>) = {m.mapping}
         /\ Required(<<"quality_reference_count">>) = {Number(Len(m.references))}
         /\ Required(<<"source_artifact_count">>) = {Number(Len(m.artifacts))}
         /\ Required(<<"checksum">>) = m.checksum
         /\ \A i \in DOMAIN m.references : Required(Reference(i - 1)) = {m.references[i]}
         /\ \A i \in DOMAIN m.artifacts : \A field \in {"identity", "start", "end"} :
              Required(Artifact(i - 1, field)) = {ArtifactText(m.artifacts[i], field)}
  <1>1. ASSUME NEW field \in DOMAIN FieldTexts(m)
        PROVE  Required(<<field>>) = {FieldTexts(m)[field]}
    BY FieldKeys DEF Required
  <1>2. Required(<<"checksum">>) = m.checksum
    BY ChecksumKey DEF Required
  <1>3. \A i \in DOMAIN m.references : Required(Reference(i - 1)) = {m.references[i]}
    BY ReferenceKeys DEF Required
  <1>4. \A i \in DOMAIN m.artifacts : \A field \in {"identity", "start", "end"} :
          Required(Artifact(i - 1, field)) = {ArtifactText(m.artifacts[i], field)}
    BY ArtifactKeys DEF Required
  <1> QED BY <1>1, <1>2, <1>3, <1>4 DEF FieldTexts

LEMMA ParsedNumber ==
  ASSUME NEW key, NEW n, NEW type, Required(key) = {Number(n)}
  PROVE  Parse(key, type) = IF n \in type THEN {n} ELSE {}
  <1>1. Number(n).form # "word" /\ Number(n).number = n
    BY DEF Number
  <1>2. \A x : x \in Parse(key, type) <=> x = n /\ x \in type
    BY <1>1 DEF Parse
  <1> QED BY <1>2

LEMMA CountOfEncoding ==
  ASSUME NEW key, NEW n \in Nat, Required(key) = {Number(n)}
  PROVE  Counts(key) = IF n <= MaxCount THEN {n} ELSE {}
  <1>1. Parse(key, 0..MaxUint64) = IF n \in 0..MaxUint64 THEN {n} ELSE {}
    BY ParsedNumber
  <1>2. \A x : x \in Counts(key) <=> x = n /\ n <= MaxCount
    BY <1>1, MetadataAssumption DEF Counts
  <1> QED BY <1>2

LEMMA RangeOfEncoding ==
  ASSUME NEW startKey, NEW endKey, NEW range \in TimeRange,
         Required(startKey) = {Number(range.start)}, Required(endKey) = {Number(range.end)}
  PROVE  RangesAt(startKey, endKey) = {range}
  <1>1. /\ range.start \in Timestamp /\ range.end \in Timestamp
        /\ range = [start |-> range.start, end |-> range.end]
    BY DEF TimeRange
  <1>2. Parse(startKey, Timestamp) = {range.start} /\ Parse(endKey, Timestamp) = {range.end}
    BY <1>1, ParsedNumber
  <1>3. ASSUME NEW r PROVE r \in [start : {range.start}, end : {range.end}] <=> r = range
    BY <1>1
  <1>4. \A r : r \in RangesAt(startKey, endKey) <=> r = range
    BY <1>2, <1>3 DEF RangesAt
  <1> QED BY <1>4

LEMMA ReferencesOfEncoding ==
  ASSUME NEW m \in Metadata, IsValid(m), stored = EncodeMetadata(m)
  PROVE  DecodeReferences = IF Len(m.references) <= MaxCount THEN {m.references} ELSE {}
  <1> DEFINE n == Len(m.references)
             Complete(c) == \A i \in 1..c : Required(Reference(i - 1)) \ {Empty} # {}
             Decoded(c) == [i \in 1..c |-> stored[Reference(i - 1)]]
  <1>1. /\ m.references \in Seq(Texts) /\ n \in Nat
        /\ DOMAIN m.references = 1..n /\ m.references = [i \in 1..n |-> m.references[i]]
    BY LenProperties DEF Metadata
  <1>2. Counts(<<"quality_reference_count">>) = IF n <= MaxCount THEN {n} ELSE {}
    BY <1>1, RequiredOfEncoding, CountOfEncoding
  <1>3. Complete(n)
    <2> SUFFICES ASSUME NEW i \in 1..n PROVE Required(Reference(i - 1)) \ {Empty} # {}
      OBVIOUS
    <2>1. i \in DOMAIN m.references
      BY <1>1
    <2>2. Required(Reference(i - 1)) = {m.references[i]}
      BY <2>1, RequiredOfEncoding
    <2>3. m.references[i] # Empty
      BY <2>1 DEF IsValid
    <2> QED BY <2>2, <2>3
  <1>4. Decoded(n) = m.references
    BY <1>1, ReferenceKeys
  <1>5. DecodeReferences = {Decoded(c) : c \in {c \in Counts(<<"quality_reference_count">>) : Complete(c)}}
    BY DEF DecodeReferences
  <1> HIDE DEF n, Complete, Decoded
  <1> QED BY <1>2, <1>3, <1>4, <1>5 DEF n

LEMMA ArtifactsOfEncoding ==
  ASSUME NEW m \in Metadata, stored = EncodeMetadata(m)
  PROVE  DecodeSourceArtifacts = IF Len(m.artifacts) <= MaxCount THEN {m.artifacts} ELSE {}
  <1> DEFINE n == Len(m.artifacts)
             Complete(c) == \A i \in 1..c : ArtifactsAt(i - 1) # {}
             Decoded(c) == [i \in 1..c |-> CHOOSE a \in ArtifactsAt(i - 1) : TRUE]
  <1>1. /\ m.artifacts \in Seq(ArtifactProvenance) /\ n \in Nat
        /\ DOMAIN m.artifacts = 1..n /\ m.artifacts = [i \in 1..n |-> m.artifacts[i]]
    BY LenProperties DEF Metadata
  <1>2. Counts(<<"source_artifact_count">>) = IF n <= MaxCount THEN {n} ELSE {}
    BY <1>1, RequiredOfEncoding, CountOfEncoding
  <1>3. ASSUME NEW i \in 1..n PROVE ArtifactsAt(i - 1) = {m.artifacts[i]}
    <2> DEFINE a == m.artifacts[i]
    <2>1. /\ a.identity \in Texts /\ a.range \in TimeRange
          /\ a = [identity |-> a.identity, range |-> a.range]
      <3>1. a \in ArtifactProvenance
        BY <1>1, ElementOfSeq
      <3> HIDE DEF a
      <3> QED BY <3>1 DEF ArtifactProvenance
    <2>2. /\ Required(Artifact(i - 1, "identity")) = {a.identity}
          /\ Required(Artifact(i - 1, "start")) = {Number(a.range.start)}
          /\ Required(Artifact(i - 1, "end")) = {Number(a.range.end)}
      BY <1>1, RequiredOfEncoding DEF ArtifactText
    <2>3. RangesAt(Artifact(i - 1, "start"), Artifact(i - 1, "end")) = {a.range}
      BY <2>1, <2>2, RangeOfEncoding
    <2> HIDE DEF a
    <2>4. ASSUME NEW r PROVE r \in [identity : {a.identity}, range : {a.range}] <=> r = a
      BY <2>1
    <2>5. \A r : r \in ArtifactsAt(i - 1) <=> r = a
      BY <2>2, <2>3, <2>4 DEF ArtifactsAt
    <2> QED BY <2>5 DEF a
  <1>4. Complete(n) /\ Decoded(n) = m.artifacts
    BY <1>1, <1>3
  <1>5. DecodeSourceArtifacts = {Decoded(c) : c \in {c \in Counts(<<"source_artifact_count">>) : Complete(c)}}
    BY DEF DecodeSourceArtifacts
  <1> HIDE DEF n, Complete, Decoded
  <1> QED BY <1>2, <1>4, <1>5 DEF n

\* Metadata that was written decodes to itself and to nothing else, and not at
\* all when a list is longer than a reader accepts.
LEMMA OwnMetadataDecodes ==
  ASSUME NEW m \in Metadata, IsValid(m), stored = EncodeMetadata(m)
  PROVE  DecodeMetadata = IF Len(m.references) <= MaxCount /\ Len(m.artifacts) <= MaxCount THEN {m} ELSE {}
  <1>1. /\ {k \in DataKind : Word(k) \in Required(<<"data_kind">>)} = {m.data_kind}
        /\ {k \in AcquisitionMode : Word(k) \in Required(<<"acquisition_mode">>)} = {m.mode}
    <2>1. m.data_kind \in DataKind /\ m.mode \in AcquisitionMode
      BY DEF Metadata
    <2> QED BY <2>1, RequiredOfEncoding DEF Word
  <1>2. /\ Parse(<<"instrument_id">>, 0..MaxUint64) = {m.instrument}
        /\ Parse(<<"venue_id">>, 0..MaxUint32) = {m.venue}
        /\ Parse(<<"source_id">>, 0..MaxUint32) = {m.source}
    <2>1. m.instrument \in 0..MaxUint64 /\ m.venue \in 0..MaxUint32 /\ m.source \in 0..MaxUint32
      BY DEF Metadata
    <2>2. /\ Required(<<"instrument_id">>) = {Number(m.instrument)}
          /\ Required(<<"venue_id">>) = {Number(m.venue)}
          /\ Required(<<"source_id">>) = {Number(m.source)}
      BY RequiredOfEncoding
    <2> QED BY <2>1, <2>2, ParsedNumber
  <1>3. RangesAt(<<"start_ns">>, <<"end_ns">>) = {m.range}
    <2>1. m.range \in TimeRange
      BY DEF Metadata
    <2> QED BY <2>1, RequiredOfEncoding, RangeOfEncoding
  <1>4. /\ Required(<<"schema_version">>) = {m.schema} /\ Required(<<"adapter_version">>) = {m.adapter}
        /\ Required(<<"mapping_version">>) = {m.mapping} /\ Required(<<"checksum">>) = m.checksum
    BY RequiredOfEncoding
  <1>5. /\ DecodeReferences = IF Len(m.references) <= MaxCount THEN {m.references} ELSE {}
        /\ DecodeSourceArtifacts = IF Len(m.artifacts) <= MaxCount THEN {m.artifacts} ELSE {}
    BY ReferencesOfEncoding, ArtifactsOfEncoding
  <1> DEFINE Form(references, artifacts) ==
               [data_kind : {m.data_kind}, instrument : {m.instrument}, venue : {m.venue},
                source : {m.source}, range : {m.range}, mode : {m.mode}, schema : {m.schema},
                adapter : {m.adapter}, mapping : {m.mapping}, references : references,
                artifacts : artifacts, checksum : {m.checksum}]
  <1>6. DecodeMetadata = {d \in Form(DecodeReferences, DecodeSourceArtifacts) : IsValid(d)}
    BY <1>1, <1>2, <1>3, <1>4 DEF DecodeMetadata
  <1>7. ASSUME NEW d PROVE d \in Form({m.references}, {m.artifacts}) <=> d = m
    <2>1. m = [data_kind |-> m.data_kind, instrument |-> m.instrument, venue |-> m.venue,
               source |-> m.source, range |-> m.range, mode |-> m.mode, schema |-> m.schema,
               adapter |-> m.adapter, mapping |-> m.mapping, references |-> m.references,
               artifacts |-> m.artifacts, checksum |-> m.checksum]
      BY DEF Metadata
    <2> QED BY <2>1
  <1>8. \A references, artifacts : references = {} \/ artifacts = {} => Form(references, artifacts) = {}
    OBVIOUS
  <1> HIDE DEF Form
  <1>9. \A d : d \in DecodeMetadata <=>
                d = m /\ Len(m.references) <= MaxCount /\ Len(m.artifacts) <= MaxCount
    BY <1>5, <1>6, <1>7, <1>8
  <1> QED BY <1>9
-----------------------------------------------------------------------------
\* The keys whose text a reader takes as it stands.
TextKey(key) ==
  \/ key \in {<<"schema_version">>, <<"adapter_version">>, <<"mapping_version">>, <<"checksum">>}
  \/ key[1] = "quality_reference"
  \/ key[1] = "source_artifact" /\ key[3] = "identity"

TextsFit == \A key \in DOMAIN stored : TextKey(key) => stored[key] \in Texts

ResultFits ==
  \/ result = <<"unread">>
  \/ result = <<"invalid">> /\ DecodeMetadata = {}
  \/ \E m \in DecodeMetadata : result = <<"ok", m>>

\* The inductive invariant: what a reader returned is what the texts that are
\* there decode to, and until another program changes a key these are the
\* encoding of valid metadata.
MetadataIInv ==
  /\ TextsFit /\ ResultFits
  /\ \A m \in own : m \in Metadata /\ IsValid(m) /\ stored = EncodeMetadata(m)
  /\ stored = <<>> => result = <<"unread">>

LEMMA SequenceOf ==
  ASSUME NEW S, NEW n \in Nat, NEW s, s = [i \in 1..n |-> s[i]], \A i \in 1..n : s[i] \in S
  PROVE  s \in Seq(S) /\ Len(s) = n /\ DOMAIN s = 1..n
  <1>1. s \in [1..n -> S]
    BY Zenon
  <1> QED BY <1>1

\* A number that a reader takes, under a key that is there.
LEMMA NumberIsThere ==
  ASSUME NEW key, NEW type, NEW n \in Parse(key, type)
  PROVE  /\ n \in type /\ key \in DOMAIN stored
         /\ SameNumber(stored[key], Number(n))
PROOF BY DEF Parse, Required, SameNumber, Number

LEMMA CountIsThere ==
  ASSUME NEW key, NEW n \in Counts(key)
  PROVE  /\ n \in Nat /\ key \in DOMAIN stored
         /\ SameNumber(stored[key], Number(n))
  <1>1. n \in Parse(key, 0..MaxUint64)
    BY DEF Counts
  <1> QED BY <1>1, NumberIsThere, MetadataAssumption

LEMMA RangeIsThere ==
  ASSUME NEW startKey, NEW endKey, NEW range \in RangesAt(startKey, endKey)
  PROVE  /\ range \in TimeRange
         /\ startKey \in DOMAIN stored /\ SameNumber(stored[startKey], Number(range.start))
         /\ endKey \in DOMAIN stored /\ SameNumber(stored[endKey], Number(range.end))
  <1>1. range \in TimeRange /\ range.start \in Parse(startKey, Timestamp) /\ range.end \in Parse(endKey, Timestamp)
    BY DEF RangesAt
  <1> QED BY <1>1, NumberIsThere

\* The list of references that a reader returns, and the keys it stands under.
LEMMA ReferencesAreThere ==
  ASSUME TextsFit, NEW references \in DecodeReferences
  PROVE  /\ references \in Seq(Texts)
         /\ <<"quality_reference_count">> \in DOMAIN stored
         /\ SameNumber(stored[<<"quality_reference_count">>], Number(Len(references)))
         /\ \A i \in DOMAIN references : /\ Reference(i - 1) \in DOMAIN stored
                                         /\ stored[Reference(i - 1)] = references[i]
  <1>1. PICK n \in Counts(<<"quality_reference_count">>) :
          /\ references = [i \in 1..n |-> stored[Reference(i - 1)]]
          /\ \A i \in 1..n : Required(Reference(i - 1)) \ {Empty} # {}
    BY DEF DecodeReferences
  <1>2. n \in Nat
    BY CountIsThere
  <1>3. ASSUME NEW i \in 1..n PROVE Reference(i - 1) \in DOMAIN stored /\ stored[Reference(i - 1)] \in Texts
    <2>1. Reference(i - 1) \in DOMAIN stored
      BY <1>1 DEF Required
    <2>2. TextKey(Reference(i - 1))
      BY DEF TextKey, Reference
    <2> QED BY <2>1, <2>2 DEF TextsFit
  <1>4. references \in Seq(Texts) /\ Len(references) = n /\ DOMAIN references = 1..n
    <2>1. references = [i \in 1..n |-> references[i]]
      BY <1>1
    <2>2. \A i \in 1..n : references[i] \in Texts
      BY <1>1, <1>3
    <2> QED BY <1>2, <2>1, <2>2, SequenceOf
  <1> QED BY <1>1, <1>3, <1>4, CountIsThere

LEMMA ArtifactsAreThere ==
  ASSUME TextsFit, NEW artifacts \in DecodeSourceArtifacts
  PROVE  /\ artifacts \in Seq(ArtifactProvenance)
         /\ <<"source_artifact_count">> \in DOMAIN stored
         /\ SameNumber(stored[<<"source_artifact_count">>], Number(Len(artifacts)))
         /\ \A i \in DOMAIN artifacts :
              LET a == artifacts[i]
              IN  /\ \A field \in {"identity", "start", "end"} : Artifact(i - 1, field) \in DOMAIN stored
                  /\ stored[Artifact(i - 1, "identity")] = a.identity
                  /\ SameNumber(stored[Artifact(i - 1, "start")], Number(a.range.start))
                  /\ SameNumber(stored[Artifact(i - 1, "end")], Number(a.range.end))
  <1>1. PICK n \in Counts(<<"source_artifact_count">>) :
          /\ artifacts = [i \in 1..n |-> CHOOSE a \in ArtifactsAt(i - 1) : TRUE]
          /\ \A i \in 1..n : ArtifactsAt(i - 1) # {}
    BY DEF DecodeSourceArtifacts
  <1>2. n \in Nat
    BY CountIsThere
  <1>3. ASSUME NEW i \in 1..n
        PROVE  LET a == artifacts[i]
               IN  /\ a \in ArtifactProvenance
                   /\ \A field \in {"identity", "start", "end"} : Artifact(i - 1, field) \in DOMAIN stored
                   /\ stored[Artifact(i - 1, "identity")] = a.identity
                   /\ SameNumber(stored[Artifact(i - 1, "start")], Number(a.range.start))
                   /\ SameNumber(stored[Artifact(i - 1, "end")], Number(a.range.end))
    <2> DEFINE a == artifacts[i]
    <2>1. a \in ArtifactsAt(i - 1)
      BY <1>1
    <2> HIDE DEF a
    <2>2. /\ a.identity \in Required(Artifact(i - 1, "identity"))
          /\ a.range \in RangesAt(Artifact(i - 1, "start"), Artifact(i - 1, "end"))
          /\ a = [identity |-> a.identity, range |-> a.range]
      BY <2>1 DEF ArtifactsAt
    <2>3. Artifact(i - 1, "identity") \in DOMAIN stored /\ stored[Artifact(i - 1, "identity")] = a.identity
      BY <2>2 DEF Required
    <2>4. TextKey(Artifact(i - 1, "identity"))
      BY DEF TextKey, Artifact
    <2>5. a.identity \in Texts
      BY <2>3, <2>4 DEF TextsFit
    <2>6. /\ a.range \in TimeRange
          /\ Artifact(i - 1, "start") \in DOMAIN stored
          /\ SameNumber(stored[Artifact(i - 1, "start")], Number(a.range.start))
          /\ Artifact(i - 1, "end") \in DOMAIN stored
          /\ SameNumber(stored[Artifact(i - 1, "end")], Number(a.range.end))
      BY <2>2, RangeIsThere
    <2>7. a \in ArtifactProvenance
      BY <2>2, <2>5, <2>6 DEF ArtifactProvenance
    <2> QED BY <2>3, <2>6, <2>7 DEF a
  <1>4. artifacts \in Seq(ArtifactProvenance) /\ Len(artifacts) = n /\ DOMAIN artifacts = 1..n
    <2>1. artifacts = [i \in 1..n |-> artifacts[i]]
      BY <1>1
    <2>2. \A i \in 1..n : artifacts[i] \in ArtifactProvenance
      BY <1>3
    <2> QED BY <1>2, <2>1, <2>2, SequenceOf
  <1> QED BY <1>3, <1>4, CountIsThere

\* Metadata that a reader returns is valid metadata, and every key that it
\* would be stored under is there with its meaning.
LEMMA ReturnedIsThere ==
  ASSUME TextsFit, NEW m \in DecodeMetadata
  PROVE  /\ m \in Metadata /\ IsValid(m)
         /\ \A key \in KeysOf(m) : /\ key \in DOMAIN stored
                                   /\ \/ stored[key] = TextOf(m, key)
                                      \/ SameNumber(stored[key], TextOf(m, key))
         /\ <<"checksum">> \in DOMAIN stored => m.checksum = {stored[<<"checksum">>]}
  <1>1. /\ IsValid(m)
        /\ m.data_kind \in DataKind /\ Word(m.data_kind) \in Required(<<"data_kind">>)
        /\ m.mode \in AcquisitionMode /\ Word(m.mode) \in Required(<<"acquisition_mode">>)
        /\ m.instrument \in Parse(<<"instrument_id">>, 0..MaxUint64)
        /\ m.venue \in Parse(<<"venue_id">>, 0..MaxUint32)
        /\ m.source \in Parse(<<"source_id">>, 0..MaxUint32)
        /\ m.range \in RangesAt(<<"start_ns">>, <<"end_ns">>)
        /\ m.schema \in Required(<<"schema_version">>) /\ m.adapter \in Required(<<"adapter_version">>)
        /\ m.mapping \in Required(<<"mapping_version">>)
        /\ m.references \in DecodeReferences /\ m.artifacts \in DecodeSourceArtifacts
        /\ m.checksum = Required(<<"checksum">>)
        /\ m = [data_kind |-> m.data_kind, instrument |-> m.instrument, venue |-> m.venue,
                source |-> m.source, range |-> m.range, mode |-> m.mode, schema |-> m.schema,
                adapter |-> m.adapter, mapping |-> m.mapping, references |-> m.references,
                artifacts |-> m.artifacts, checksum |-> m.checksum]
    BY DEF DecodeMetadata
  <1>2. /\ m.instrument \in 0..MaxUint64 /\ m.venue \in 0..MaxUint32 /\ m.source \in 0..MaxUint32
        /\ <<"instrument_id">> \in DOMAIN stored
        /\ SameNumber(stored[<<"instrument_id">>], Number(m.instrument))
        /\ <<"venue_id">> \in DOMAIN stored /\ SameNumber(stored[<<"venue_id">>], Number(m.venue))
        /\ <<"source_id">> \in DOMAIN stored /\ SameNumber(stored[<<"source_id">>], Number(m.source))
    BY <1>1, NumberIsThere
  <1>3. /\ m.range \in TimeRange
        /\ <<"start_ns">> \in DOMAIN stored /\ SameNumber(stored[<<"start_ns">>], Number(m.range.start))
        /\ <<"end_ns">> \in DOMAIN stored /\ SameNumber(stored[<<"end_ns">>], Number(m.range.end))
    BY <1>1, RangeIsThere
  <1>4. /\ <<"data_kind">> \in DOMAIN stored /\ stored[<<"data_kind">>] = Word(m.data_kind)
        /\ <<"acquisition_mode">> \in DOMAIN stored /\ stored[<<"acquisition_mode">>] = Word(m.mode)
        /\ <<"schema_version">> \in DOMAIN stored /\ stored[<<"schema_version">>] = m.schema
        /\ <<"adapter_version">> \in DOMAIN stored /\ stored[<<"adapter_version">>] = m.adapter
        /\ <<"mapping_version">> \in DOMAIN stored /\ stored[<<"mapping_version">>] = m.mapping
    BY <1>1 DEF Required
  <1>5. m.schema \in Texts /\ m.adapter \in Texts /\ m.mapping \in Texts
    BY <1>4 DEF TextsFit, TextKey
  <1>6. /\ <<"checksum">> \in DOMAIN stored => /\ m.checksum = {stored[<<"checksum">>]}
                                               /\ stored[<<"checksum">>] \in Texts
        /\ <<"checksum">> \notin DOMAIN stored => m.checksum = {}
    BY <1>1 DEF Required, TextsFit, TextKey
  <1>7. m \in Metadata
    <2>1. m.checksum \in {{}} \cup {{c} : c \in Texts}
      BY <1>6
    <2>2. m.references \in Seq(Texts) /\ m.artifacts \in Seq(ArtifactProvenance)
      BY <1>1, ReferencesAreThere, ArtifactsAreThere
    <2> QED BY <1>1, <1>2, <1>3, <1>5, <2>1, <2>2 DEF Metadata
  <1>8. ASSUME NEW field \in DOMAIN FieldTexts(m)
        PROVE  /\ <<field>> \in DOMAIN stored
               /\ \/ stored[<<field>>] = FieldTexts(m)[field]
                  \/ SameNumber(stored[<<field>>], FieldTexts(m)[field])
    <2>1. /\ <<"quality_reference_count">> \in DOMAIN stored
          /\ SameNumber(stored[<<"quality_reference_count">>], Number(Len(m.references)))
          /\ <<"source_artifact_count">> \in DOMAIN stored
          /\ SameNumber(stored[<<"source_artifact_count">>], Number(Len(m.artifacts)))
      BY <1>1, ReferencesAreThere, ArtifactsAreThere
    <2> QED BY <1>2, <1>3, <1>4, <2>1 DEF FieldTexts
  <1>9. ASSUME NEW key \in KeysOf(m)
        PROVE  /\ key \in DOMAIN stored
               /\ \/ stored[key] = TextOf(m, key)
                  \/ SameNumber(stored[key], TextOf(m, key))
    <2>1. EncodeMetadata(m)[key] = TextOf(m, key)
      BY DEF EncodeMetadata
    <2>2. CASE \E field \in DOMAIN FieldTexts(m) : key = <<field>>
      BY <1>7, <1>8, <2>1, <2>2, FieldKeys
    <2>3. CASE m.checksum # {} /\ key = <<"checksum">>
      BY <1>6, <1>7, <2>1, <2>3, ChecksumKey
    <2>4. CASE \E i \in DOMAIN m.references : key = Reference(i - 1)
      <3>1. PICK i \in DOMAIN m.references : key = Reference(i - 1)
        BY <2>4
      <3>2. key \in DOMAIN stored /\ stored[key] = m.references[i]
        BY <1>1, <3>1, ReferencesAreThere
      <3> QED BY <1>7, <2>1, <3>1, <3>2, ReferenceKeys
    <2>5. CASE \E i \in DOMAIN m.artifacts : \E field \in {"identity", "start", "end"} : key = Artifact(i - 1, field)
      <3>1. PICK i \in DOMAIN m.artifacts, field \in {"identity", "start", "end"} : key = Artifact(i - 1, field)
        BY <2>5
      <3>2. TextOf(m, key) = ArtifactText(m.artifacts[i], field)
        BY <1>7, <2>1, <3>1, ArtifactKeys
      <3>3. /\ key \in DOMAIN stored
            /\ \/ stored[key] = ArtifactText(m.artifacts[i], field)
               \/ SameNumber(stored[key], ArtifactText(m.artifacts[i], field))
        BY <1>1, <3>1, ArtifactsAreThere DEF ArtifactText
      <3> QED BY <3>2, <3>3
    <2> QED BY <2>2, <2>3, <2>4, <2>5 DEF KeysOf
  <1> QED BY <1>1, <1>6, <1>7, <1>9

-----------------------------------------------------------------------------
\* The texts of an encoding that a reader takes as they stand.
LEMMA EncodingKeeps ==
  ASSUME NEW m \in Metadata
  PROVE  /\ EncodeMetadata(m) # <<>>
         /\ \A key \in DOMAIN EncodeMetadata(m) : TextKey(key) => EncodeMetadata(m)[key] \in Texts
  <1>1. "data_kind" \in DOMAIN FieldTexts(m)
    BY DEF FieldTexts
  <1>2. EncodeMetadata(m) # <<>>
    <2>1. <<"data_kind">> \in DOMAIN EncodeMetadata(m)
      BY <1>1, FieldKeys
    <2>2. DOMAIN <<>> = {}
      OBVIOUS
    <2> QED BY <2>1, <2>2
  <1>3. ASSUME NEW key \in KeysOf(m), TextKey(key)
        PROVE  EncodeMetadata(m)[key] \in Texts
    <2>1. /\ m.schema \in Texts /\ m.adapter \in Texts /\ m.mapping \in Texts
          /\ m.checksum \subseteq Texts
      BY DEF Metadata
    <2>2. CASE \E field \in DOMAIN FieldTexts(m) : key = <<field>>
      <3>1. PICK field \in DOMAIN FieldTexts(m) : key = <<field>>
        BY <2>2
      <3>2. field \in {"schema_version", "adapter_version", "mapping_version"}
        BY <1>3, <3>1 DEF TextKey, FieldTexts
      <3>3. FieldTexts(m)[field] \in Texts
        BY <2>1, <3>2 DEF FieldTexts
      <3> QED BY <3>1, <3>3, FieldKeys
    <2>3. CASE m.checksum # {} /\ key = <<"checksum">>
      BY <2>1, <2>3, ChecksumKey
    <2>4. CASE \E i \in DOMAIN m.references : key = Reference(i - 1)
      <3>1. PICK i \in DOMAIN m.references : key = Reference(i - 1)
        BY <2>4
      <3>2. m.references[i] \in Texts
        BY ElementOfSeq, LenProperties DEF Metadata
      <3> QED BY <3>1, <3>2, ReferenceKeys
    <2>5. CASE \E i \in DOMAIN m.artifacts : \E field \in {"identity", "start", "end"} : key = Artifact(i - 1, field)
      <3>1. PICK i \in DOMAIN m.artifacts, field \in {"identity", "start", "end"} : key = Artifact(i - 1, field)
        BY <2>5
      <3>2. field = "identity"
        BY <1>3, <3>1 DEF TextKey, Artifact
      <3>3. m.artifacts[i] \in ArtifactProvenance
        BY ElementOfSeq, LenProperties DEF Metadata
      <3>4. m.artifacts[i].identity \in Texts
        BY <3>3 DEF ArtifactProvenance
      <3> QED BY <3>1, <3>2, <3>4, ArtifactKeys DEF ArtifactText
    <2> QED BY <2>2, <2>3, <2>4, <2>5 DEF KeysOf
  <1>4. DOMAIN EncodeMetadata(m) = KeysOf(m)
    BY DEF EncodeMetadata
  <1> QED BY <1>2, <1>3, <1>4

\* A change of a key by another program.
LEMMA EditPreserves ==
  ASSUME MetadataIInv, NEW file, Edited(file),
         \A key \in DOMAIN file : TextKey(key) => file[key] \in Texts
  PROVE  MetadataIInv'
  <1>1. stored' = file /\ own' = {} /\ result' = <<"unread">>
    BY DEF Edited
  <1>2. TextsFit'
    BY <1>1 DEF TextsFit
  <1>3. ResultFits'
    BY <1>1 DEF ResultFits
  <1> QED BY <1>1, <1>2, <1>3 DEF MetadataIInv

LEMMA MetadataInductive == MetadataSpec => []MetadataIInv
  <1>1. MetadataInit => MetadataIInv
    <2> SUFFICES ASSUME MetadataInit PROVE MetadataIInv
      OBVIOUS
    <2>1. TextsFit
      BY DEF MetadataInit, TextsFit
    <2>2. ResultFits
      BY DEF MetadataInit, ResultFits
    <2> QED BY <2>1, <2>2 DEF MetadataInit, MetadataIInv
  <1>2. MetadataIInv /\ [MetadataNext]_metadataVars => MetadataIInv'
    <2> SUFFICES ASSUME MetadataIInv, [MetadataNext]_metadataVars PROVE MetadataIInv'
      OBVIOUS
    <2>1. ASSUME NEW m \in Written, Write(m) PROVE MetadataIInv'
      <3>1. /\ IsValid(m) /\ stored = <<>> /\ stored' = EncodeMetadata(m) /\ own' = {m} /\ result' = result
        BY <2>1 DEF Write
      <3>2. m \in Metadata
        BY MetadataAssumption
      <3>3. result' = <<"unread">>
        BY <3>1 DEF MetadataIInv
      <3>4. ResultFits'
        BY <3>3 DEF ResultFits
      <3>5. TextsFit'
        BY <3>1, <3>2, EncodingKeeps DEF TextsFit
      <3> QED BY <3>1, <3>2, <3>3, <3>4, <3>5 DEF MetadataIInv
    <2>2. ASSUME NEW key, NEW text \in Foreign, StoreKey(key, text) PROVE MetadataIInv'
      <3> DEFINE file == [k \in DOMAIN stored \cup {key} |-> IF k = key THEN text ELSE stored[k]]
      <3>1. Edited(file)
        BY <2>2 DEF StoreKey
      <3>2. \A k \in DOMAIN file : TextKey(k) => file[k] \in Texts
        BY MetadataAssumption DEF MetadataIInv, TextsFit
      <3> HIDE DEF file
      <3> QED BY <3>1, <3>2, EditPreserves
    <2>3. ASSUME NEW key \in DOMAIN stored, DropKey(key) PROVE MetadataIInv'
      <3> DEFINE file == [k \in DOMAIN stored \ {key} |-> stored[k]]
      <3>1. Edited(file)
        BY <2>3 DEF DropKey
      <3>2. \A k \in DOMAIN file : TextKey(k) => file[k] \in Texts
        BY DEF MetadataIInv, TextsFit
      <3> HIDE DEF file
      <3> QED BY <3>1, <3>2, EditPreserves
    <2>4. CASE ReadMetadata
      <3>1. /\ stored # <<>> /\ stored' = stored /\ own' = own
            /\ result' \in IF DecodeMetadata = {} THEN {<<"invalid">>} ELSE {"ok"} \X DecodeMetadata
        BY <2>4 DEF ReadMetadata
      <3>2. DecodeMetadata' = DecodeMetadata
        BY <3>1 DEF DecodeMetadata, DecodeReferences, DecodeSourceArtifacts, ArtifactsAt, RangesAt,
                    Counts, Parse, Required
      <3>3. ResultFits'
        BY <3>1, <3>2 DEF ResultFits
      <3>4. TextsFit'
        BY <3>1 DEF MetadataIInv, TextsFit
      <3> QED BY <3>1, <3>3, <3>4 DEF MetadataIInv
    <2>5. CASE UNCHANGED metadataVars
      <3>1. stored' = stored /\ own' = own /\ result' = result
        BY <2>5 DEF metadataVars
      <3>2. DecodeMetadata' = DecodeMetadata
        BY <3>1 DEF DecodeMetadata, DecodeReferences, DecodeSourceArtifacts, ArtifactsAt, RangesAt,
                    Counts, Parse, Required
      <3> QED BY <3>1, <3>2 DEF MetadataIInv, ResultFits, TextsFit
    <2> QED BY <2>1, <2>2, <2>3, <2>4, <2>5 DEF MetadataNext
  <1> QED BY <1>1, <1>2, PTL DEF MetadataSpec

\* Metadata comes back as it was written, unless a list is longer than a
\* reader accepts; of a file that another program changed, decode_metadata
\* makes nothing up and leaves out no checksum.
THEOREM MetadataComesBack == MetadataSpec => []MetadataIsWhatIsStored
  <1>1. MetadataIInv => MetadataIsWhatIsStored
    <2> SUFFICES ASSUME MetadataIInv PROVE MetadataIsWhatIsStored
      OBVIOUS
    <2>1. ASSUME NEW m \in own, result # <<"unread">>
          PROVE  result = IF Len(m.references) <= MaxCount /\ Len(m.artifacts) <= MaxCount
                          THEN <<"ok", m>> ELSE <<"invalid">>
      <3>1. DecodeMetadata = IF Len(m.references) <= MaxCount /\ Len(m.artifacts) <= MaxCount THEN {m} ELSE {}
        BY OwnMetadataDecodes DEF MetadataIInv
      <3>2. \/ result = <<"invalid">> /\ DecodeMetadata = {}
            \/ \E d \in DecodeMetadata : result = <<"ok", d>>
        BY <2>1 DEF MetadataIInv, ResultFits
      <3> QED BY <3>1, <3>2
    <2>2. ASSUME result[1] = "ok"
          PROVE  LET m == result[2]
                     encoded == EncodeMetadata(m)
                 IN  /\ m \in Metadata /\ IsValid(m)
                     /\ DOMAIN encoded \subseteq DOMAIN stored
                     /\ \A key \in DOMAIN encoded :
                          stored[key] = encoded[key] \/ SameNumber(stored[key], encoded[key])
                     /\ <<"checksum">> \in DOMAIN stored => m.checksum = {stored[<<"checksum">>]}
      <3>1. PICK m \in DecodeMetadata : result = <<"ok", m>>
        BY <2>2 DEF MetadataIInv, ResultFits
      <3>2. TextsFit /\ result[2] = m
        BY <3>1 DEF MetadataIInv
      <3>3. /\ m \in Metadata /\ IsValid(m)
            /\ \A key \in KeysOf(m) : /\ key \in DOMAIN stored
                                      /\ \/ stored[key] = TextOf(m, key)
                                         \/ SameNumber(stored[key], TextOf(m, key))
            /\ <<"checksum">> \in DOMAIN stored => m.checksum = {stored[<<"checksum">>]}
        BY <3>2, ReturnedIsThere
      <3>4. DOMAIN EncodeMetadata(m) = KeysOf(m) /\ \A key \in KeysOf(m) : EncodeMetadata(m)[key] = TextOf(m, key)
        BY DEF EncodeMetadata
      <3> QED BY <3>2, <3>3, <3>4
    <2> QED BY <2>1, <2>2 DEF MetadataIsWhatIsStored
  <1> QED BY <1>1, MetadataInductive, PTL
=============================================================================
