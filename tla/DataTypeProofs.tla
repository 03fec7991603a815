--------------------------- MODULE DataTypeProofs -------------------------
(***************************************************************************)
(* The parts that are plain values and functions, each for every value of  *)
(* its constants: MboBuffer, for any events and any batches of other       *)
(* programs; ReferenceData, for any identifiers and versions; Decimals,    *)
(* for any width of the coefficient and any powers of a base that fit the  *)
(* assumptions named there; SubtractLoop, for any request, covered ranges  *)
(* and width of the timestamp type.                                        *)
(***************************************************************************)
EXTENDS MboBuffer, ReferenceData, Decimals, SubtractLoop, TimeRangeProofs, FiniteSetTheorems

-----------------------------------------------------------------------------
(* MboBuffer: validation, append and the packing agree. *)


\* The two checks of an event, written apart in validation.hpp and in append(),
\* accept the same events.
LEMMA ValidIffComplete ==
  ASSUME NEW e
  PROVE  IsValid(e) <=> Complete(e)
<1>1. ASSUME Complete(e), NEW code \in Issues(e)
      PROVE  FALSE
  <2>1. ~(e.action = Clear /\ OrderFields(e) # {})
    BY <1>1 DEF Complete, Add, Modify, Cancel, Execute, Clear
  <2>2. ~(e.action # Clear /\ e.order = {})
    BY <1>1 DEF Complete
  <2>3. ~(e.action = Add /\ {} \in {e.side, e.price, e.quantity})
    BY <1>1 DEF Complete, Add, Modify, Cancel, Execute, Clear
  <2>4. ~(e.action = Modify /\ e.side \union e.price \union e.quantity = {})
    BY <1>1 DEF Complete, Add, Modify, Cancel, Execute, Clear
  <2>5. ~(e.action \in {Cancel, Execute} /\ e.quantity = {})
    BY <1>1 DEF Complete, Add, Modify, Cancel, Execute, Clear
  <2>6. e.action \in MboAction
    BY <1>1 DEF Complete, MboAction
  <2>7. QED
    BY <1>1, <2>1, <2>2, <2>3, <2>4, <2>5, <2>6 DEF Issues
<1>2. ASSUME IsValid(e)
      PROVE  Complete(e)
  <2>1. ~(e.action = Clear /\ OrderFields(e) # {})
    BY <1>2 DEF IsValid, Issues, IssueCode
  <2>2. ~(e.action # Clear /\ e.order = {})
    BY <1>2 DEF IsValid, Issues, IssueCode
  <2>3. ~(e.action = Add /\ {} \in {e.side, e.price, e.quantity})
    BY <1>2 DEF IsValid, Issues, IssueCode
  <2>4. ~(e.action = Modify /\ e.side \union e.price \union e.quantity = {})
    BY <1>2 DEF IsValid, Issues, IssueCode
  <2>5. ~(e.action \in {Cancel, Execute} /\ e.quantity = {})
    BY <1>2 DEF IsValid, Issues, IssueCode
  <2>6. e.action \in MboAction
    BY <1>2 DEF IsValid, Issues, IssueCode
  <2>7. QED
    BY <2>1, <2>2, <2>3, <2>4, <2>5, <2>6
    DEF Complete, MboAction, Add, Modify, Cancel, Execute, Clear
<1>3. QED
  BY <1>1, <1>2 DEF IsValid

\* validate() and append() agree: see ValidIsAppendable.
THEOREM ValidationAgreesWithAppend == Spec => []ValidIsAppendable
<1>1. Init => ValidIsAppendable
  BY DEF Init, ValidIsAppendable
<1>2. ValidIsAppendable /\ [Next]_vars => ValidIsAppendable'
  <2> SUFFICES ASSUME ValidIsAppendable, [Next]_vars
               PROVE  ValidIsAppendable'
    OBVIOUS
  <2>1. ASSUME NEW e \in Events, AppendEvent(e)
        PROVE  ValidIsAppendable'
    BY <2>1, ValidIffComplete DEF AppendEvent, Appendable, ValidIsAppendable
  <2>2. ASSUME NEW e \in Events, AppendThrows(e)
        PROVE  ValidIsAppendable'
    BY <2>2, ValidIffComplete DEF AppendThrows, Appendable, ValidIsAppendable
  <2>3. CASE UNCHANGED last
    BY <2>3 DEF ValidIsAppendable
  <2>4. QED
    BY <2>1, <2>2, <2>3 DEF Next, ToArrow, OtherBatch, FromArrow, vars
<1>3. QED
  BY <1>1, <1>2, PTL DEF Spec

-----------------------------------------------------------------------------
(* MboBuffer: a record reads back as the event it was made of.                *)


\* The bit of an optional field is one exactly when the field is present.
Bit(optional) == IF optional # {} THEN 1 ELSE 0

\* A control word tells the action, which fields are present, and the side.
LEMMA ControlReads ==
  ASSUME NEW e, EventShape(e)
  PROVE  LET control == EncodeControl(e)
         IN  /\ control \in 0..2047
             /\ control % 8 = e.action
             /\ Has(control, ReceivePresent) <=> e.receive # {}
             /\ Has(control, SequencePresent) <=> e.sequence # {}
             /\ Has(control, ChannelPresent) <=> e.channel # {}
             /\ Has(control, OrderPresent) <=> e.order # {}
             /\ Has(control, SidePresent) <=> e.side # {}
             /\ Has(control, PricePresent) <=> e.price # {}
             /\ Has(control, QuantityPresent) <=> e.quantity # {}
             /\ Has(control, SellSide) <=> Sell \in e.side
<1> DEFINE a   == e.action
           b3  == Bit(e.receive)
           b4  == Bit(e.sequence)
           b5  == Bit(e.channel)
           b6  == Bit(e.order)
           b7  == Bit(e.side)
           b8  == Bit(e.price)
           b9  == Bit(e.quantity)
           b10 == Bit(e.side \intersect {Sell})
           word == a + 8 * b3 + 16 * b4 + 32 * b5 + 64 * b6 + 128 * b7 + 256 * b8
                     + 512 * b9 + 1024 * b10
<1>1. a \in 0..7 /\ a % 8 = a
  BY DEF EventShape, MboEvent
<1>2. /\ b3 \in {0, 1} /\ (b3 = 1 <=> e.receive # {})
      /\ b4 \in {0, 1} /\ (b4 = 1 <=> e.sequence # {})
      /\ b5 \in {0, 1} /\ (b5 = 1 <=> e.channel # {})
      /\ b6 \in {0, 1} /\ (b6 = 1 <=> e.order # {})
      /\ b7 \in {0, 1} /\ (b7 = 1 <=> e.side # {})
      /\ b8 \in {0, 1} /\ (b8 = 1 <=> e.price # {})
      /\ b9 \in {0, 1} /\ (b9 = 1 <=> e.quantity # {})
      /\ b10 \in {0, 1} /\ (b10 = 1 <=> Sell \in e.side)
  BY DEF Bit
<1>3. EncodeControl(e) = word
  <2>1. \A optional : /\ Mask(optional, ReceivePresent) = 8 * Bit(optional)
                      /\ Mask(optional, SequencePresent) = 16 * Bit(optional)
                      /\ Mask(optional, ChannelPresent) = 32 * Bit(optional)
                      /\ Mask(optional, OrderPresent) = 64 * Bit(optional)
                      /\ Mask(optional, SidePresent) = 128 * Bit(optional)
                      /\ Mask(optional, PricePresent) = 256 * Bit(optional)
                      /\ Mask(optional, QuantityPresent) = 512 * Bit(optional)
                      /\ Mask(optional, SellSide) = 1024 * Bit(optional)
    BY DEF Mask, Bit, ReceivePresent, SequencePresent, ChannelPresent, OrderPresent, SidePresent,
           PricePresent, QuantityPresent, SellSide
  <2> QED
    BY <1>1, <2>1 DEF EncodeControl
<1> HIDE DEF a, b3, b4, b5, b6, b7, b8, b9, b10
<1>4. (word \div 8) % 2 = b3
  <2> DEFINE low == a
             high == b4 + 2 * b5 + 4 * b6 + 8 * b7 + 16 * b8 + 32 * b9 + 64 * b10
  <2>1. low \in 0..7 /\ high \in Nat /\ word = low + 8 * (b3 + 2 * high)
    BY <1>1, <1>2
  <2> HIDE DEF low, high, word
  <2>2. word \div 8 = b3 + 2 * high
    BY <1>1, <1>2, <2>1
  <2> QED
    BY <1>2, <2>1, <2>2
<1>5. (word \div 16) % 2 = b4
  <2> DEFINE low == a + 8 * b3
             high == b5 + 2 * b6 + 4 * b7 + 8 * b8 + 16 * b9 + 32 * b10
  <2>1. low \in 0..15 /\ high \in Nat /\ word = low + 16 * (b4 + 2 * high)
    BY <1>1, <1>2
  <2> HIDE DEF low, high, word
  <2>2. word \div 16 = b4 + 2 * high
    BY <1>1, <1>2, <2>1
  <2> QED
    BY <1>2, <2>1, <2>2
<1>6. (word \div 32) % 2 = b5
  <2> DEFINE low == a + 8 * b3 + 16 * b4
             high == b6 + 2 * b7 + 4 * b8 + 8 * b9 + 16 * b10
  <2>1. low \in 0..31 /\ high \in Nat /\ word = low + 32 * (b5 + 2 * high)
    BY <1>1, <1>2
  <2> HIDE DEF low, high, word
  <2>2. word \div 32 = b5 + 2 * high
    BY <1>1, <1>2, <2>1
  <2> QED
    BY <1>2, <2>1, <2>2
<1>7. (word \div 64) % 2 = b6
  <2> DEFINE low == a + 8 * b3 + 16 * b4 + 32 * b5
             high == b7 + 2 * b8 + 4 * b9 + 8 * b10
  <2>1. low \in 0..63 /\ high \in Nat /\ word = low + 64 * (b6 + 2 * high)
    BY <1>1, <1>2
  <2> HIDE DEF low, high, word
  <2>2. word \div 64 = b6 + 2 * high
    BY <1>1, <1>2, <2>1
  <2> QED
    BY <1>2, <2>1, <2>2
<1>8. (word \div 128) % 2 = b7
  <2> DEFINE low == a + 8 * b3 + 16 * b4 + 32 * b5 + 64 * b6
             high == b8 + 2 * b9 + 4 * b10
  <2>1. low \in 0..127 /\ high \in Nat /\ word = low + 128 * (b7 + 2 * high)
    BY <1>1, <1>2
  <2> HIDE DEF low, high, word
  <2>2. word \div 128 = b7 + 2 * high
    BY <1>1, <1>2, <2>1
  <2> QED
    BY <1>2, <2>1, <2>2
<1>9. (word \div 256) % 2 = b8
  <2> DEFINE low == a + 8 * b3 + 16 * b4 + 32 * b5 + 64 * b6 + 128 * b7
             high == b9 + 2 * b10
  <2>1. low \in 0..255 /\ high \in Nat /\ word = low + 256 * (b8 + 2 * high)
    BY <1>1, <1>2
  <2> HIDE DEF low, high, word
  <2>2. word \div 256 = b8 + 2 * high
    BY <1>1, <1>2, <2>1
  <2> QED
    BY <1>2, <2>1, <2>2
<1>10. (word \div 512) % 2 = b9
  <2> DEFINE low == a + 8 * b3 + 16 * b4 + 32 * b5 + 64 * b6 + 128 * b7 + 256 * b8
             high == b10
  <2>1. low \in 0..511 /\ high \in Nat /\ word = low + 512 * (b9 + 2 * high)
    BY <1>1, <1>2
  <2> HIDE DEF low, high, word
  <2>2. word \div 512 = b9 + 2 * high
    BY <1>1, <1>2, <2>1
  <2> QED
    BY <1>2, <2>1, <2>2
<1>11. (word \div 1024) % 2 = b10
  <2> DEFINE low == a + 8 * b3 + 16 * b4 + 32 * b5 + 64 * b6 + 128 * b7 + 256 * b8 + 512 * b9
             high == 0
  <2>1. low \in 0..1023 /\ high \in Nat /\ word = low + 1024 * (b10 + 2 * high)
    BY <1>1, <1>2
  <2> HIDE DEF low, high, word
  <2>2. word \div 1024 = b10 + 2 * high
    BY <1>1, <1>2, <2>1
  <2> QED
    BY <1>2, <2>1, <2>2
<1> HIDE DEF word
<1>12. word \in 0..2047 /\ word % 8 = a
  BY <1>1, <1>2 DEF word
<1> QED
  BY <1>2, <1>3, <1>4, <1>5, <1>6, <1>7, <1>8, <1>9, <1>10, <1>11, <1>12
  DEF a, Has, ReceivePresent, SequencePresent, ChannelPresent, OrderPresent, SidePresent,
      PricePresent, QuantityPresent, SellSide

\* An absent field leaves a zero, a present one its value.
LEMMA SlotReads ==
  ASSUME NEW T, 0 \in T, NEW optional \in SUBSET T, \A v, w \in optional : v = w
  PROVE  /\ Slot(optional) \in T
         /\ optional = {} => Slot(optional) = 0
         /\ optional # {} => optional = {Slot(optional)}
  BY DEF Slot

\* An optional field reads back from its bit and its slot.
LEMMA PresentReads ==
  ASSUME NEW record, NEW mask, NEW optional, NEW value,
         Has(record.control, mask) <=> optional # {},
         optional # {} => optional = {value}
  PROVE  Present(record, mask, value) = optional
  BY DEF Present

\* Packing an event and reading the record gives the event: see ViewReadsBack.
LEMMA RecordReadsBack ==
  ASSUME NEW e, EventShape(e)
  PROVE  /\ EventOf(RecordOf(e), e.stream) = e
         /\ Decodable(RecordOf(e))
         /\ RecordOf(e) \in MboRecord
         /\ RecordOf(e).control \in 0..2047
<1> DEFINE record == RecordOf(e)
<1>1. /\ e \in MboEvent
      /\ \A o \in {e.receive, e.sequence, e.channel, e.order, e.side, e.price, e.quantity} :
           \A v, w \in o : v = w
  BY DEF EventShape
<1>2. /\ Slot(e.receive) \in Int /\ (e.receive # {} => e.receive = {Slot(e.receive)})
      /\ Slot(e.sequence) \in Nat /\ (e.sequence # {} => e.sequence = {Slot(e.sequence)})
      /\ Slot(e.channel) \in Nat /\ (e.channel # {} => e.channel = {Slot(e.channel)})
      /\ Slot(e.order) \in Nat /\ (e.order # {} => e.order = {Slot(e.order)})
      /\ Slot(e.price) \in Int /\ (e.price # {} => e.price = {Slot(e.price)})
      /\ Slot(e.quantity) \in Nat /\ (e.quantity # {} => e.quantity = {Slot(e.quantity)})
  <2>1. /\ e.receive \in SUBSET Int /\ e.sequence \in SUBSET Nat /\ e.channel \in SUBSET Nat
        /\ e.order \in SUBSET Nat /\ e.price \in SUBSET Int /\ e.quantity \in SUBSET Nat
    BY <1>1 DEF MboEvent
  <2>2. 0 \in Int /\ 0 \in Nat
    OBVIOUS
  <2> QED
    BY <1>1, <2>1, <2>2, SlotReads
<1>3. /\ record.receive = Slot(e.receive) /\ record.sequence = Slot(e.sequence)
      /\ record.channel = Slot(e.channel) /\ record.order = Slot(e.order)
      /\ record.price = Slot(e.price) /\ record.quantity = Slot(e.quantity)
      /\ record.control = EncodeControl(e)
  BY DEF RecordOf
<1>bits. /\ Has(record.control, ReceivePresent) <=> e.receive # {}
         /\ Has(record.control, SequencePresent) <=> e.sequence # {}
         /\ Has(record.control, ChannelPresent) <=> e.channel # {}
         /\ Has(record.control, OrderPresent) <=> e.order # {}
         /\ Has(record.control, SidePresent) <=> e.side # {}
         /\ Has(record.control, PricePresent) <=> e.price # {}
         /\ Has(record.control, QuantityPresent) <=> e.quantity # {}
         /\ Has(record.control, SellSide) <=> Sell \in e.side
  BY <1>3, ControlReads
<1>4. record \in MboRecord /\ record.control \in 0..2047
  <2>1. EncodeControl(e) \in 0..2047 /\ EncodeControl(e) \in Nat
    BY ControlReads
  <2> QED
    BY <1>2, <2>1 DEF RecordOf, MboRecord
<1> HIDE DEF record
<1>5. Decodable(record)
  <2>1. e.order # {} => Slot(e.order) # 0
    BY <1>1, <1>2 DEF MboEvent
  <2> QED
    BY <1>2, <1>3, <1>bits, <2>1 DEF Decodable
<1>6. EventOf(record, e.stream) = e
  <2>1. Present(record, SidePresent, IF Has(record.control, SellSide) THEN Sell ELSE Buy) = e.side
    <3>1. e.side \subseteq {Buy, Sell} /\ \A v, w \in e.side : v = w
      BY <1>1 DEF MboEvent
    <3>2. e.side # {} => e.side = {IF Has(record.control, SellSide) THEN Sell ELSE Buy}
      BY <1>bits, <3>1 DEF Buy, Sell
    <3> QED
      BY <1>bits, <3>2, PresentReads
  <2>2. /\ Present(record, ReceivePresent, record.receive) = e.receive
        /\ Present(record, SequencePresent, record.sequence) = e.sequence
        /\ Present(record, ChannelPresent, record.channel) = e.channel
        /\ Present(record, OrderPresent, record.order) = e.order
        /\ Present(record, PricePresent, record.price) = e.price
        /\ Present(record, QuantityPresent, record.quantity) = e.quantity
    BY <1>2, <1>3, <1>bits, PresentReads
  <2>3. record.control % 8 = e.action
    BY <1>3, ControlReads
  <2>4. e = [action |-> e.action, stream |-> e.stream, receive |-> e.receive,
             sequence |-> e.sequence, channel |-> e.channel, order |-> e.order, side |-> e.side,
             price |-> e.price, quantity |-> e.quantity]
    BY <1>1 DEF MboEvent
  <2> QED
    BY <2>1, <2>2, <2>3, <2>4 DEF EventOf
<1> QED
  BY <1>4, <1>5, <1>6 DEF record

\* Reading a decodable record gives a well-formed event of the stream.
LEMMA EventOfShape ==
  ASSUME NEW record \in MboRecord, Decodable(record)
  PROVE  /\ EventShape(EventOf(record, Context))
         /\ EventOf(record, Context).stream = Context
<1> DEFINE e == EventOf(record, Context)
<1>1. /\ record.receive \in Int /\ record.sequence \in Nat /\ record.channel \in Nat
      /\ record.order \in Nat /\ record.price \in Int /\ record.quantity \in Int
      /\ record.control \in Nat
  BY DEF MboRecord
<1>2. \A mask, value : Present(record, mask, value) \in SUBSET {value}
  BY DEF Present
<1>3. /\ e.receive \in SUBSET {record.receive}
      /\ e.sequence \in SUBSET {record.sequence}
      /\ e.channel \in SUBSET {record.channel}
      /\ e.order \in SUBSET {record.order}
      /\ e.side \in SUBSET {IF Has(record.control, SellSide) THEN Sell ELSE Buy}
      /\ e.price \in SUBSET {record.price}
      /\ e.quantity \in SUBSET {record.quantity}
  BY <1>2 DEF EventOf
<1>4. e.order \in SUBSET (Nat \ {0}) /\ e.quantity \in SUBSET Nat
  BY <1>1 DEF EventOf, Present, Decodable
<1>5. e.action \in 0..7 /\ e.stream = Context /\ Context \in Streams
  BY <1>1, BufferAssumption DEF EventOf
<1>6. e = [action |-> e.action, stream |-> e.stream, receive |-> e.receive,
           sequence |-> e.sequence, channel |-> e.channel, order |-> e.order, side |-> e.side,
           price |-> e.price, quantity |-> e.quantity]
  BY DEF EventOf
<1> HIDE DEF e
<1>7. e \in MboEvent
  <2>1. /\ e.receive \in SUBSET Int /\ e.sequence \in SUBSET Nat /\ e.channel \in SUBSET Nat
        /\ e.side \in SUBSET {Buy, Sell} /\ e.price \in SUBSET Int
    BY <1>1, <1>3
  <2> QED
    BY <1>4, <1>5, <1>6, <2>1 DEF MboEvent
<1>8. \A o \in {e.receive, e.sequence, e.channel, e.order, e.side, e.price, e.quantity} :
        \A v, w \in o : v = w
  BY <1>3
<1> QED
  BY <1>5, <1>7, <1>8 DEF EventShape, e

\* What append() keeps of an event is complete again, and keeps itself.
LEMMA WrittenFacts ==
  ASSUME NEW e, EventShape(e), Complete(e)
  PROVE  /\ EventShape(Written(e))
         /\ Complete(Written(e))
         /\ Written(Written(e)) = Written(e)
         /\ Written(e).stream = e.stream
<1>1. CASE e.action \in {Cancel, Execute}
  <2> DEFINE w == [e EXCEPT !.side = {}, !.price = {}]
  <2>1. e \in MboEvent /\ Written(e) = w
    BY <1>1 DEF EventShape, Written
  <2>2. /\ w \in MboEvent
        /\ w.action = e.action /\ w.stream = e.stream /\ w.receive = e.receive
        /\ w.sequence = e.sequence /\ w.channel = e.channel /\ w.order = e.order
        /\ w.quantity = e.quantity /\ w.side = {} /\ w.price = {}
    BY <2>1 DEF MboEvent
  <2>3. [w EXCEPT !.side = {}, !.price = {}] = w
    BY <2>2 DEF MboEvent
  <2> HIDE DEF w
  <2>4. Complete(w)
    BY <1>1, <2>2 DEF Complete, Add, Modify, Cancel, Execute, Clear
  <2>5. EventShape(w)
    BY <2>2 DEF EventShape
  <2> QED
    BY <1>1, <2>1, <2>2, <2>3, <2>4, <2>5 DEF Written
<1>2. CASE e.action \notin {Cancel, Execute}
  BY <1>2 DEF Written
<1> QED
  BY <1>1, <1>2

\* A complete event has the one typed view of its action: see OneTypedView.
LEMMA OneView ==
  ASSUME NEW e, Complete(e)
  PROVE  Cardinality(TypedViews(e)) = 1
<1>1. TypedViews(e) = {e.action}
  BY DEF Complete, TypedViews, MboAction, Add, Modify, Cancel, Execute, Clear
<1> QED
  BY <1>1, FS_Singleton

\* A record of the buffer: it reads back, as an event that append() takes and
\* that packs into the same record.
LEMMA AppendedFacts ==
  ASSUME NEW e, EventShape(e), Appendable(e)
  PROVE  LET record == RecordOf(Written(e))
         IN  /\ record \in MboRecord /\ record.control \in 0..2047
             /\ EventOf(record, Context) = Written(e)
             /\ Decodable(record) /\ Appendable(EventOf(record, Context))
             /\ RecordOf(Written(EventOf(record, Context))) = record
             /\ Cardinality(TypedViews(EventOf(record, Context))) = 1
<1> DEFINE w == Written(e)
<1>1. Complete(e) /\ e.stream = Context
  BY DEF Appendable
<1>2. EventShape(w) /\ Complete(w) /\ Written(w) = w /\ w.stream = Context
  BY <1>1, WrittenFacts
<1> HIDE DEF w
<1>3. /\ EventOf(RecordOf(w), Context) = w /\ Decodable(RecordOf(w))
      /\ RecordOf(w) \in MboRecord /\ RecordOf(w).control \in 0..2047
  BY <1>2, RecordReadsBack
<1>4. Cardinality(TypedViews(w)) = 1
  BY <1>2, OneView
<1> QED
  BY <1>2, <1>3, <1>4 DEF Appendable, w

\* The conjunct of LoadedIsCanonical for one record.
Canonical(record) ==
  LET e == EventOf(record, Context)
  IN  IsValid(e) /\ Decodable(record) /\ RecordOf(Written(e)) = record

\* A row that from_arrow() accepts gives a canonical record.
LEMMA RowLoadsAsCanonical ==
  ASSUME NEW row, RowShape(row), RowIsCanonical(row)
  PROVE  Canonical(RecordOf(Written(EventOf(row.record, Context))))
<1> DEFINE e == EventOf(row.record, Context)
<1>1. row.record \in MboRecord /\ Decodable(row.record) /\ Appendable(e)
  BY DEF RowShape, RowIsCanonical
<1>2. EventShape(e)
  BY <1>1, EventOfShape
<1> HIDE DEF e
<1>3. /\ Decodable(RecordOf(Written(e)))
      /\ Appendable(EventOf(RecordOf(Written(e)), Context))
      /\ RecordOf(Written(EventOf(RecordOf(Written(e)), Context))) = RecordOf(Written(e))
  BY <1>1, <1>2, AppendedFacts
<1> QED
  BY <1>3, ValidIffComplete DEF Canonical, Appendable, e

\* The inductive invariant: the records are those of the appended events, and a
\* batch is made of them or comes from elsewhere.
BufferIInv ==
  /\ TypeOK
  /\ Len(records) = Len(written)
  /\ \A i \in 1..Len(records) : /\ Appendable(written[i])
                                 /\ records[i] = RecordOf(Written(written[i]))
  /\ phase = "own" => batch = [i \in DOMAIN records |-> [null |-> FALSE, record |-> records[i]]]
  /\ phase = "other" => batch \in OtherBatches
  /\ LoadedIsCanonical

\* The records of the buffer, each with what AppendedFacts says of it.
LEMMA RecordFacts ==
  ASSUME BufferIInv, NEW i \in DOMAIN records
  PROVE  /\ i \in DOMAIN written /\ EventShape(written[i]) /\ Appendable(written[i])
         /\ records[i] = RecordOf(Written(written[i])) /\ records[i] \in MboRecord
         /\ EventOf(records[i], Context) = Written(written[i])
         /\ Decodable(records[i]) /\ Appendable(EventOf(records[i], Context))
         /\ RecordOf(Written(EventOf(records[i], Context))) = records[i]
         /\ Cardinality(TypedViews(EventOf(records[i], Context))) = 1
<1>1. i \in 1..Len(records) /\ i \in DOMAIN written /\ written[i] \in Events
  BY DEF BufferIInv, TypeOK
<1>2. EventShape(written[i]) /\ Appendable(written[i])
  BY <1>1, BufferAssumption DEF BufferIInv
<1>3. records[i] = RecordOf(Written(written[i]))
  BY <1>1 DEF BufferIInv
<1> QED
  BY <1>1, <1>2, <1>3, AppendedFacts

\* Every row that to_arrow() made is canonical, and every batch is typed.
LEMMA BatchFacts ==
  ASSUME BufferIInv, phase \in {"own", "other"}, NEW i \in DOMAIN batch
  PROVE  /\ RowShape(batch[i])
         /\ phase = "own" => /\ DOMAIN batch = DOMAIN records
                             /\ batch[i].record = records[i]
                             /\ RowIsCanonical(batch[i])
<1>1. CASE phase = "own"
  <2>1. /\ batch = [j \in DOMAIN records |-> [null |-> FALSE, record |-> records[j]]]
        /\ DOMAIN batch = DOMAIN records
    BY <1>1 DEF BufferIInv
  <2>2. i \in DOMAIN records /\ batch[i] = [null |-> FALSE, record |-> records[i]]
    BY <2>1
  <2>3. records[i] \in MboRecord /\ Decodable(records[i]) /\ Appendable(EventOf(records[i], Context))
    BY <2>2, RecordFacts
  <2> QED
    BY <2>1, <2>2, <2>3 DEF RowShape, RowIsCanonical
<1>2. CASE phase = "other"
  BY <1>2, BufferAssumption DEF BufferIInv
<1> QED
  BY <1>1, <1>2

LEMMA BufferInit == Init => BufferIInv
<1> SUFFICES ASSUME Init
             PROVE  BufferIInv
  OBVIOUS
<1>1. TypeOK
  <2>1. Len(<<>>) <= MaxEvents /\ <<>> \in Seq(MboRecord) /\ <<>> \in Seq(Events)
    BY BufferAssumption
  <2>2. (CHOOSE e \in Events : TRUE) \in Events
    BY BufferAssumption
  <2> QED
    BY <2>1, <2>2 DEF Init, TypeOK
<1> QED
  BY <1>1 DEF Init, BufferIInv, LoadedIsCanonical

\* Every step keeps the invariant.
LEMMA BufferStep ==
  ASSUME BufferIInv, [Next]_vars
  PROVE  BufferIInv'
<1>0. ASSUME UNCHANGED <<records, written, loaded>>, TypeOK',
             phase' = "own" => batch' = [i \in DOMAIN records |-> [null |-> FALSE, record |-> records[i]]],
             phase' = "other" => batch' \in OtherBatches
      PROVE  BufferIInv'
  <2>1. LoadedIsCanonical'
    BY <1>0 DEF BufferIInv, LoadedIsCanonical
  <2> HIDE DEF LoadedIsCanonical
  <2> QED
    BY <1>0, <2>1 DEF BufferIInv
<1>1. ASSUME NEW e \in Events, AppendEvent(e)
      PROVE  BufferIInv'
  <2> DEFINE record == RecordOf(Written(e))
  <2>1. EventShape(e) /\ Appendable(e)
    BY <1>1, BufferAssumption DEF AppendEvent
  <2>2. record \in MboRecord /\ record.control \in 0..2047
    BY <2>1, AppendedFacts
  <2>3. /\ records \in Seq(MboRecord) /\ written \in Seq(Events)
        /\ records' = Append(records, record) /\ written' = Append(written, e)
        /\ Len(records) = Len(written) /\ Len(records) < MaxEvents
        /\ phase = "writing" /\ phase' = phase /\ batch' = batch /\ loaded' = loaded
        /\ last' = [event |-> e, outcome |-> "appended"]
    BY <1>1 DEF AppendEvent, BufferIInv, TypeOK
  <2> HIDE DEF record
  <2>4. /\ records' \in Seq(MboRecord) /\ written' \in Seq(Events)
        /\ Len(records') = Len(records) + 1 /\ Len(written') = Len(records) + 1
        /\ Len(records) \in Nat /\ DOMAIN records = 1..Len(records)
        /\ DOMAIN records' = 1..(Len(records) + 1)
        /\ \A i \in 1..Len(records) : records'[i] = records[i] /\ written'[i] = written[i]
        /\ records'[Len(records) + 1] = record /\ written'[Len(records) + 1] = e
    BY <2>2, <2>3
  <2>5. TypeOK'
    <3> DEFINE InUse(r) == r.control \in 0..2047
    <3>1. (\A i \in DOMAIN records : InUse(records[i])) /\ InUse(record)
      BY <2>2 DEF BufferIInv, TypeOK
    <3> HIDE DEF InUse
    <3>2. \A i \in DOMAIN records' : InUse(records'[i])
      <4>1. \A i \in DOMAIN records' : i \in 1..Len(records) \/ i = Len(records) + 1
        BY <2>4
      <4> QED
        BY <2>4, <3>1, <4>1
    <3>3. Len(records') <= MaxEvents
      BY <2>3, <2>4, BufferAssumption
    <3>4. last' \in [event : Events, outcome : {"none", "appended", "threw"}]
      BY <1>1, <2>3
    <3> QED
      BY <2>3, <2>4, <3>2, <3>3, <3>4 DEF TypeOK, InUse
  <2>6. \A i \in 1..Len(records') : /\ Appendable(written'[i])
                                    /\ records'[i] = RecordOf(Written(written'[i]))
    BY <2>1, <2>4 DEF BufferIInv, record
  <2> QED
    BY <2>3, <2>4, <2>5, <2>6 DEF BufferIInv, LoadedIsCanonical
<1>2. ASSUME NEW e \in Events, AppendThrows(e)
      PROVE  BufferIInv'
  <2>1. TypeOK' /\ UNCHANGED <<records, written, loaded, batch, phase>>
    BY <1>2 DEF AppendThrows, BufferIInv, TypeOK
  <2> QED
    BY <1>0, <2>1 DEF BufferIInv
<1>3. CASE ToArrow
  <2>1. TypeOK' /\ UNCHANGED <<records, written, loaded>> /\ phase' = "own"
    BY <1>3 DEF ToArrow, BufferIInv, TypeOK
  <2>2. batch' = [i \in DOMAIN records |-> [null |-> FALSE, record |-> records[i]]]
    BY <1>3 DEF ToArrow
  <2> QED
    BY <1>0, <2>1, <2>2
<1>4. CASE OtherBatch
  <2>1. TypeOK' /\ UNCHANGED <<records, written, loaded>> /\ phase' = "other" /\ batch' \in OtherBatches
    BY <1>4 DEF OtherBatch, BufferIInv, TypeOK
  <2> QED
    BY <1>0, <2>1
<1>5. CASE FromArrow
  <2>1. phase' \in {"loaded", "invalid"} /\ UNCHANGED <<records, batch, written, last>>
    BY <1>5 DEF FromArrow
  <2>2. LoadedIsCanonical'
    <3>1. CASE \A i \in DOMAIN batch : RowIsCanonical(batch[i])
      <4>1. /\ phase \in {"own", "other"}
            /\ loaded' = [i \in DOMAIN batch |-> RecordOf(Written(EventOf(batch[i].record, Context)))]
        BY <1>5, <3>1 DEF FromArrow
      <4>2. ASSUME NEW i \in DOMAIN loaded'
            PROVE  Canonical(loaded'[i])
        <5>1. i \in DOMAIN batch /\ loaded'[i] = RecordOf(Written(EventOf(batch[i].record, Context)))
          BY <4>1, <4>2
        <5>2. RowShape(batch[i]) /\ RowIsCanonical(batch[i])
          BY <3>1, <4>1, <5>1, BatchFacts
        <5> QED
          BY <5>1, <5>2, RowLoadsAsCanonical
      <4> QED
        BY <4>2 DEF LoadedIsCanonical, Canonical
    <3>2. CASE UNCHANGED loaded
      BY <3>2 DEF BufferIInv, LoadedIsCanonical
    <3> QED
      BY <1>5, <3>1, <3>2 DEF FromArrow
  <2> QED
    BY <2>1, <2>2 DEF BufferIInv, TypeOK
<1>6. CASE UNCHANGED vars
  <2>1. TypeOK' /\ UNCHANGED <<records, written, loaded, batch, phase>>
    BY <1>6 DEF vars, BufferIInv, TypeOK
  <2> QED
    BY <1>0, <2>1 DEF BufferIInv
<1> QED
  BY <1>1, <1>2, <1>3, <1>4, <1>5, <1>6 DEF Next

LEMMA BufferInductive == Spec => []BufferIInv
<1>1. BufferIInv /\ [Next]_vars => BufferIInv'
  BY BufferStep
<1> QED
  BY <1>1, BufferInit, PTL DEF Spec

\* Every record of a buffer reads back as the event that was appended, and has
\* exactly one typed view: see BufferInv.
THEOREM BufferInvariant == Spec => []BufferInv
<1>1. BufferIInv => BufferInv
  <2> SUFFICES ASSUME BufferIInv
               PROVE  BufferInv
    OBVIOUS
  <2>1. TypeOK
    BY DEF BufferIInv
  <2>2. ViewReadsBack
    <3>1. DOMAIN records = DOMAIN written
      BY DEF BufferIInv, TypeOK
    <3> QED
      BY <3>1, RecordFacts DEF ViewReadsBack
  <2>3. OneTypedView
    BY RecordFacts DEF OneTypedView
  <2> QED
    BY <2>1, <2>2, <2>3 DEF BufferInv
<1> QED
  BY <1>1, BufferInductive, PTL

\* What from_arrow() accepts of any program is canonical: see LoadedIsCanonical.
THEOREM LoadsAreCanonical == Spec => []LoadedIsCanonical
<1>1. BufferIInv => LoadedIsCanonical
  BY DEF BufferIInv
<1> QED
  BY <1>1, BufferInductive, PTL

\* A batch that to_arrow() made loads, into the same records: see OwnBatchLoads.
THEOREM ExportsLoad == Spec => OwnBatchLoads
<1>1. ASSUME BufferIInv, [Next]_vars, phase = "own", phase' # phase
      PROVE  phase' = "loaded" /\ loaded' = records
  <2>1. FromArrow
    BY <1>1 DEF Next, AppendEvent, AppendThrows, ToArrow, OtherBatch, vars
  <2>2. /\ batch = [i \in DOMAIN records |-> [null |-> FALSE, record |-> records[i]]]
        /\ records \in Seq(MboRecord)
    BY <1>1 DEF BufferIInv, TypeOK
  <2>3. \A i \in DOMAIN batch : RowIsCanonical(batch[i])
    BY <1>1, BatchFacts
  <2>4. phase' = "loaded"
    BY <2>1, <2>3 DEF FromArrow
  <2>5. loaded' = [i \in DOMAIN records |-> records[i]]
    <3>1. loaded' = [i \in DOMAIN batch |-> RecordOf(Written(EventOf(batch[i].record, Context)))]
      BY <2>1, <2>3 DEF FromArrow
    <3>2. \A i \in DOMAIN records : RecordOf(Written(EventOf(batch[i].record, Context))) = records[i]
      BY <1>1, <2>2, RecordFacts
    <3> QED
      BY <2>2, <3>1, <3>2
  <2> QED
    BY <2>2, <2>4, <2>5
<1>2. BufferIInv /\ [Next]_vars => [phase = "own" => phase' = "loaded" /\ loaded' = records]_phase
  BY <1>1
<1> QED
  BY <1>2, BufferInductive, PTL DEF Spec, OwnBatchLoads

-----------------------------------------------------------------------------
(* ReferenceData: the tables stay ordered, so the one candidate a lookup      *)
(* examines is the right one, and no append changes an answer.                *)


\* Appending keeps the rows that were there.
LEMMA AppendKeeps ==
  ASSUME NEW S, NEW table \in Seq(S), NEW row \in S
  PROVE  /\ Append(table, row) \in Seq(S)
         /\ Len(Append(table, row)) = Len(table) + 1
         /\ DOMAIN table = 1..Len(table)
         /\ DOMAIN Append(table, row) = 1..(Len(table) + 1)
         /\ \A i \in 1..Len(table) : Append(table, row)[i] = table[i]
         /\ Append(table, row)[Len(table) + 1] = row
         /\ Len(table) \in Nat
  OBVIOUS

\* A table keeps its identifiers unique when add() accepts a row.
LEMMA AddableKeepsUnique ==
  ASSUME NEW ids, NEW table \in Seq(Reference(ids)), NEW row \in Reference(ids),
         UniqueIds(table), Addable(table, row)
  PROVE  UniqueIds(Append(table, row))
<1>1. \A i \in 1..Len(table) : table[i].id # row.id
  <2> SUFFICES ASSUME NEW i \in 1..Len(table), table[i].id = row.id
               PROVE  FALSE
    OBVIOUS
  <2>1. \A j \in DOMAIN table : table[j].id = row.id => i <= j
    BY AppendKeeps DEF UniqueIds
  <2>2. table[i] \in Find(table, row.id)
    BY <2>1, AppendKeeps DEF Find
  <2>3. QED
    BY <2>2 DEF Addable
<1>2. QED
  BY <1>1, AppendKeeps DEF UniqueIds

\* What append() checks against the last version holds against all of them.
LEMMA FollowsKeepsOrdered ==
  ASSUME versions \in Seq(ReferenceVersion), Ordered(versions),
         NEW v \in ReferenceVersion, WellFormed(v), Follows(v)
  PROVE  Ordered(Append(versions, v))
<1> DEFINE n == Len(versions)
           table == Append(versions, v)
<1>1. /\ n \in Nat
      /\ DOMAIN versions = 1..n
      /\ DOMAIN table = 1..(n + 1)
      /\ \A i \in 1..n : table[i] = versions[i]
      /\ table[n + 1] = v
  BY AppendKeeps
<1>2. \A i \in 1..n : versions[i] \in ReferenceVersion
  BY <1>1
<1> HIDE DEF n, table
<1>3. ASSUME NEW i \in 1..n
      PROVE  \E until \in versions[i].valid_until : until <= v.valid_from
  <2>1. versions # <<>> /\ n \in 1..n /\ n = Len(versions)
    BY <1>1, <1>3 DEF n
  <2>2. PICK final \in versions[n].valid_until : final <= v.valid_from
    BY <2>1, <1>1, <1>2 DEF Follows, ReferenceVersion, Optional
  <2>3. CASE i = n
    BY <2>2, <2>3
  <2>4. CASE i < n
    <3>1. PICK until \in versions[i].valid_until : until <= versions[n].valid_from
      BY <2>4, <2>1, <1>1 DEF Ordered
    <3>2. versions[n].valid_from < final
      BY <2>1, <2>2, <1>1 DEF Ordered, WellFormed
    <3>3. /\ until \in Int /\ final \in Int /\ v.valid_from \in Int
          /\ versions[n].valid_from \in Int
      <4>1. versions[i] \in ReferenceVersion /\ versions[n] \in ReferenceVersion
        BY <1>2, <2>1
      <4>2. Timestamp \subseteq Int
        BY TimeBounds DEF Timestamp
      <4>3. QED
        BY <4>1, <4>2, <3>1, <2>2 DEF ReferenceVersion, Optional
    <3>4. until <= v.valid_from
      BY <3>1, <3>2, <3>3, <2>2
    <3>5. QED
      BY <3>1, <3>4
  <2>5. i = n \/ i < n
    BY <1>1, <1>3
  <2>6. QED
    BY <2>3, <2>4, <2>5
<1>4. \A i \in 1..(n + 1) : WellFormed(table[i])
  BY <1>1 DEF Ordered
<1>5. ASSUME NEW i \in 1..(n + 1), NEW j \in 1..(n + 1), i < j
      PROVE  \E until \in table[i].valid_until : until <= table[j].valid_from
  <2>1. i \in 1..n /\ table[i] = versions[i]
    BY <1>5, <1>1
  <2>2. CASE j = n + 1
    BY <2>1, <2>2, <1>1, <1>3
  <2>3. CASE j \in 1..n
    BY <2>1, <2>3, <1>1, <1>5 DEF Ordered
  <2>4. j = n + 1 \/ j \in 1..n
    BY <1>1, <1>5
  <2>5. QED
    BY <2>2, <2>3, <2>4
<1>6. QED
  BY <1>1, <1>4, <1>5 DEF Ordered, table

\* The last version that has begun is the only one that can be valid.
LEMMA AtIsExact ==
  ASSUME NEW table \in Seq(ReferenceVersion), Ordered(table), NEW t \in Timestamp
  PROVE  At(table, t) = {table[i] : i \in {i \in DOMAIN table : ValidAt(table[i], t)}}
<1>1. ASSUME NEW i \in DOMAIN table, ValidAt(table[i], t),
             NEW j \in Begun(table, t), i < j
      PROVE  FALSE
  <2>1. PICK until \in table[i].valid_until : until <= table[j].valid_from
    BY <1>1 DEF Ordered, Begun
  <2>2. table[j].valid_from <= t /\ t < until
    BY <1>1, <2>1 DEF Begun, ValidAt
  <2>3. until \in Int /\ t \in Int /\ table[j].valid_from \in Int
    <3>1. table[i] \in ReferenceVersion /\ table[j] \in ReferenceVersion
      BY <1>1 DEF Begun
    <3>2. Timestamp \subseteq Int
      BY TimeBounds DEF Timestamp
    <3>3. QED
      BY <3>1, <3>2, <2>1 DEF ReferenceVersion, Optional
  <2>4. QED
    BY <2>1, <2>2, <2>3
<1>2. \A i \in DOMAIN table, j \in Begun(table, t) : i \in Nat /\ j \in Nat
  BY DEF Begun
<1>3. {i \in DOMAIN table : ValidAt(table[i], t)}
        = {i \in Begun(table, t) : /\ \A j \in Begun(table, t) : j <= i
                                  /\ \A until \in table[i].valid_until : t < until}
  BY <1>1, <1>2 DEF Begun, ValidAt
<1>4. QED
  BY <1>3 DEF At

\* With unique identifiers the first row found is the only one.
LEMMA FindIsExact ==
  ASSUME NEW ids, NEW table \in Seq(Reference(ids)), UniqueIds(table), NEW i \in DOMAIN table
  PROVE  Find(table, table[i].id) = {table[i]}
<1>1. \A j \in DOMAIN table : table[j].id = table[i].id <=> j = i
  BY DEF UniqueIds
<1>2. DOMAIN table \subseteq Nat
  OBVIOUS
<1>3. {k \in DOMAIN table : /\ table[k].id = table[i].id
                            /\ \A j \in DOMAIN table : table[j].id = table[i].id => k <= j} = {i}
  BY <1>1, <1>2
<1>4. QED
  BY <1>3 DEF Find

\* A row that is appended is found by no identifier that was found before.
LEMMA AddKeepsAnswers ==
  ASSUME NEW ids, NEW table \in Seq(Reference(ids)), NEW row \in Reference(ids),
         UniqueIds(table), Addable(table, row), NEW id, Find(table, id) # {}
  PROVE  Find(Append(table, row), id) = Find(table, id)
<1> DEFINE longer == Append(table, row)
<1>1. PICK i \in DOMAIN table : table[i].id = id
  BY DEF Find
<1>2. UniqueIds(longer) /\ longer \in Seq(Reference(ids))
  BY AddableKeepsUnique, AppendKeeps
<1>3. i \in DOMAIN longer /\ longer[i] = table[i]
  BY AppendKeeps
<1>4. Find(longer, id) = {longer[i]}
  BY <1>1, <1>2, <1>3, FindIsExact
<1>5. Find(table, id) = {table[i]}
  BY <1>1, FindIsExact
<1>6. QED
  BY <1>3, <1>4, <1>5

\* A version that is appended is valid at no instant that had an answer, and
\* at none before the versions that were there.
LEMMA AppendKeepsAnswers ==
  ASSUME versions \in Seq(ReferenceVersion), Ordered(versions),
         NEW v \in ReferenceVersion, WellFormed(v), Follows(v), NEW t \in Timestamp
  PROVE  /\ At(versions, t) # {} => At(Append(versions, v), t) = At(versions, t)
         /\ At(Append(versions, v), t) # At(versions, t) =>
              \A i \in DOMAIN versions : versions[i].valid_from < t
<1> DEFINE n == Len(versions)
           table == Append(versions, v)
<1>1. /\ n \in Nat
      /\ table \in Seq(ReferenceVersion)
      /\ DOMAIN versions = 1..n
      /\ DOMAIN table = 1..(n + 1)
      /\ \A i \in 1..n : table[i] = versions[i]
      /\ table[n + 1] = v
  BY AppendKeeps
<1>2. Ordered(table)
  BY FollowsKeepsOrdered
<1>3. /\ At(versions, t) = {versions[i] : i \in {i \in DOMAIN versions : ValidAt(versions[i], t)}}
      /\ At(table, t) = {table[i] : i \in {i \in DOMAIN table : ValidAt(table[i], t)}}
  BY <1>1, <1>2, AtIsExact
<1> HIDE DEF n, table
<1>4. ASSUME ValidAt(v, t), NEW i \in 1..n
      PROVE  versions[i].valid_from < t /\ ~ValidAt(versions[i], t)
  <2>1. PICK until \in table[i].valid_until : until <= v.valid_from
    <3>1. i \in DOMAIN table /\ n + 1 \in DOMAIN table /\ i < n + 1
      BY <1>1, <1>4
    <3>2. QED
      BY <3>1, <1>1, <1>2 DEF Ordered
  <2>2. table[i] = versions[i] /\ WellFormed(versions[i])
    BY <1>1, <1>4 DEF Ordered
  <2>3. v.valid_from <= t /\ versions[i].valid_from < until
    BY <1>4, <2>1, <2>2 DEF ValidAt, WellFormed
  <2>4. until \in Int /\ t \in Int /\ v.valid_from \in Int /\ versions[i].valid_from \in Int
    <3>1. versions[i] \in ReferenceVersion
      BY <1>1, <1>4
    <3>2. Timestamp \subseteq Int
      BY TimeBounds DEF Timestamp
    <3>3. QED
      BY <3>1, <3>2, <2>1, <2>2 DEF ReferenceVersion, Optional
  <2>5. versions[i].valid_from < t /\ ~(t < until)
    BY <2>1, <2>3, <2>4
  <2>6. QED
    BY <2>1, <2>2, <2>5 DEF ValidAt
<1>5. CASE ValidAt(v, t)
  <2>1. At(versions, t) = {}
    BY <1>1, <1>3, <1>4, <1>5
  <2>2. \A i \in DOMAIN versions : versions[i].valid_from < t
    BY <1>1, <1>4, <1>5
  <2>3. QED
    BY <2>1, <2>2 DEF table
<1>6. CASE ~ValidAt(v, t)
  <2>1. {i \in 1..(n + 1) : ValidAt(table[i], t)} = {i \in 1..n : ValidAt(versions[i], t)}
    BY <1>1, <1>6
  <2>2. At(table, t) = At(versions, t)
    BY <2>1, <1>1, <1>3
  <2>3. QED
    BY <2>2 DEF table
<1>7. QED
  BY <1>5, <1>6

\* The tables stay typed, ordered and free of duplicates: see ReferenceInv.
THEOREM ReferenceInvariant == ReferenceSpec => []ReferenceInv
<1>1. ReferenceInit => ReferenceInv
  BY DEF ReferenceInit, ReferenceInv, ReferenceTypeOK, Ordered, UniqueIds
<1>2. ReferenceInv /\ [ReferenceNext]_referenceVars => ReferenceInv'
  <2> SUFFICES ASSUME ReferenceInv, [ReferenceNext]_referenceVars
               PROVE  ReferenceInv'
    OBVIOUS
  <2>1. ASSUME NEW v \in ReferenceVersion, AppendVersion(v)
        PROVE  ReferenceInv'
    <3>1. ReferenceTypeOK'
      BY <2>1, AppendKeeps DEF ReferenceInv, ReferenceTypeOK, AppendVersion
    <3>2. Ordered(versions)'
      BY <2>1, FollowsKeepsOrdered DEF ReferenceInv, ReferenceTypeOK, AppendVersion
    <3>3. UniqueIds(venues)' /\ UniqueIds(sources)'
      BY <2>1 DEF ReferenceInv, AppendVersion, UniqueIds
    <3>4. QED
      BY <3>1, <3>2, <3>3 DEF ReferenceInv
  <2>2. ASSUME NEW row \in Reference(VenueIds), AddVenue(row)
        PROVE  ReferenceInv'
    <3>1. ReferenceTypeOK'
      BY <2>2, AppendKeeps DEF ReferenceInv, ReferenceTypeOK, AddVenue
    <3>2. UniqueIds(venues)'
      BY <2>2, AddableKeepsUnique DEF ReferenceInv, ReferenceTypeOK, AddVenue
    <3>3. Ordered(versions)' /\ UniqueIds(sources)'
      BY <2>2 DEF ReferenceInv, AddVenue, Ordered, WellFormed, UniqueIds
    <3>4. QED
      BY <3>1, <3>2, <3>3 DEF ReferenceInv
  <2>3. ASSUME NEW row \in Reference(SourceIds), AddSource(row)
        PROVE  ReferenceInv'
    <3>1. ReferenceTypeOK'
      BY <2>3, AppendKeeps DEF ReferenceInv, ReferenceTypeOK, AddSource
    <3>2. UniqueIds(sources)'
      BY <2>3, AddableKeepsUnique DEF ReferenceInv, ReferenceTypeOK, AddSource
    <3>3. Ordered(versions)' /\ UniqueIds(venues)'
      BY <2>3 DEF ReferenceInv, AddSource, Ordered, WellFormed, UniqueIds
    <3>4. QED
      BY <3>1, <3>2, <3>3 DEF ReferenceInv
  <2>4. CASE UNCHANGED referenceVars
    BY <2>4 DEF ReferenceInv, ReferenceTypeOK, Ordered, WellFormed, UniqueIds, referenceVars
  <2>5. QED
    BY <2>1, <2>2, <2>3, <2>4 DEF ReferenceNext
<1>3. QED
  BY <1>1, <1>2, PTL DEF ReferenceSpec

\* at() and find() find what a scan of the table would: see LookupsAreExact.
THEOREM LookupsExact == ReferenceSpec => []LookupsAreExact
<1>1. ReferenceInv => LookupsAreExact
  <2> SUFFICES ASSUME ReferenceInv
               PROVE  LookupsAreExact
    OBVIOUS
  <2>1. ASSUME NEW t \in Timestamp
        PROVE  At(versions, t) = {versions[i] : i \in {i \in DOMAIN versions : ValidAt(versions[i], t)}}
    BY <2>1, AtIsExact DEF ReferenceInv, ReferenceTypeOK
  <2>2. ASSUME NEW i \in DOMAIN venues
        PROVE  Find(venues, venues[i].id) = {venues[i]}
    BY <2>2, FindIsExact DEF ReferenceInv, ReferenceTypeOK
  <2>3. ASSUME NEW i \in DOMAIN sources
        PROVE  Find(sources, sources[i].id) = {sources[i]}
    BY <2>3, FindIsExact DEF ReferenceInv, ReferenceTypeOK
  <2>4. QED
    BY <2>1, <2>2, <2>3 DEF LookupsAreExact
<1>2. QED
  BY <1>1, ReferenceInvariant, PTL

\* No append changes an answer that was given: see AnswersStand.
THEOREM AnswersNeverChange == ReferenceSpec => AnswersStand
<1>1. ReferenceInv /\ [ReferenceNext]_referenceVars => [Stand]_referenceVars
  <2> SUFFICES ASSUME ReferenceInv, [ReferenceNext]_referenceVars
               PROVE  [Stand]_referenceVars
    OBVIOUS
  <2>1. ASSUME NEW v \in ReferenceVersion, AppendVersion(v)
        PROVE  Stand
    BY <2>1, AppendKeepsAnswers DEF AppendVersion, ReferenceInv, ReferenceTypeOK, Stand
  <2>2. ASSUME NEW row \in Reference(VenueIds), AddVenue(row)
        PROVE  Stand
    BY <2>2, AddKeepsAnswers DEF AddVenue, ReferenceInv, ReferenceTypeOK, Stand
  <2>3. ASSUME NEW row \in Reference(SourceIds), AddSource(row)
        PROVE  Stand
    BY <2>3, AddKeepsAnswers DEF AddSource, ReferenceInv, ReferenceTypeOK, Stand
  <2>4. QED
    BY <2>1, <2>2, <2>3 DEF ReferenceNext
<1>2. QED
  BY <1>1, ReferenceInvariant, PTL DEF ReferenceSpec, AnswersStand

-----------------------------------------------------------------------------
(* Decimals: rescaling is exact, and sums and comparisons lose nothing.       *)


\* Multiplication by a positive factor keeps and reflects the order.
LEMMA TimesMonotone ==
  ASSUME NEW a \in Int, NEW b \in Int, NEW f \in Nat \ {0}, a <= b
  PROVE  a * f <= b * f
<1>1. PICK n \in Nat : b = a + n
  OBVIOUS
<1>2. n * f \in Nat /\ b * f = a * f + n * f
  BY <1>1
<1> QED
  BY <1>2

\* Two multiples of a positive factor are equal only if the other factors are.
LEMMA TimesInjective ==
  ASSUME NEW a \in Int, NEW b \in Int, NEW f \in Nat \ {0}, a * f = b * f
  PROVE  a = b
<1>1. CASE a < b
  <2>1. (a + 1) * f <= b * f
    BY <1>1, TimesMonotone
  <2> QED
    BY <2>1
<1>2. CASE b < a
  <2>1. (b + 1) * f <= a * f
    BY <1>2, TimesMonotone
  <2> QED
    BY <2>1
<1> QED
  BY <1>1, <1>2

\* Truncation towards zero stays within one divisor of the dividend.
LEMMA TruncDivBounds ==
  ASSUME NEW a \in Int, NEW b \in Nat \ {0}
  PROVE  /\ TruncDiv(a, b) \in Int
         /\ a >= 0 => TruncDiv(a, b) * b <= a /\ a < (TruncDiv(a, b) + 1) * b
         /\ a < 0 => a <= TruncDiv(a, b) * b /\ (TruncDiv(a, b) - 1) * b < a
<1>1. ASSUME NEW c \in Nat
      PROVE  c \div b \in Nat /\ (c \div b) * b <= c /\ c < (c \div b + 1) * b
  OBVIOUS
<1>2. CASE a >= 0
  BY <1>1, <1>2 DEF TruncDiv
<1>3. CASE a < 0
  BY <1>1, <1>3 DEF TruncDiv
<1> QED
  BY <1>2, <1>3

\* The quotient lies between the dividend and zero.
LEMMA TruncDivInRange ==
  ASSUME NEW a \in Int, NEW b \in Nat \ {0}
  PROVE  /\ a >= 0 => TruncDiv(a, b) \in 0..a
         /\ a < 0 => TruncDiv(a, b) \in a..0
<1>1. ASSUME NEW c \in Nat PROVE c \div b \in 0..c
  <2>1. c \div b \in Nat /\ (c \div b) * b <= c
    OBVIOUS
  <2>2. c \div b <= (c \div b) * b
    BY <2>1
  <2> QED
    BY <2>1, <2>2
<1>2. CASE a >= 0
  BY <1>1, <1>2 DEF TruncDiv
<1>3. CASE a < 0
  <2>1. (-a) \div b \in 0..(-a)
    BY <1>1, <1>3
  <2> QED
    BY <2>1, <1>3 DEF TruncDiv
<1> QED
  BY <1>2, <1>3

-----------------------------------------------------------------------------
\* A result is right for the exact result x of an operation, counted in units
\* u of the finest scale, where the values allowed are the members of S: it has
\* this value, or it is an exception and no value is allowed that has it.
Right(result, x, u, S) ==
  \/ /\ result.outcome = "value"
     /\ result.raw \in S
     /\ result.raw * u = x
  \/ /\ result.outcome \in {"overflow_error", "invalid_argument"}
     /\ \A raw \in S : raw * u # x

\* checked_add() throws exactly when the sum leaves the width, and the limit it
\* compares with is itself within the width.
LEMMA CheckedAddIsExact ==
  ASSUME WidthAssumption, NEW a \in Raw, NEW b \in Raw
  PROVE  /\ a + b \in Raw => CheckedAdd(a, b) = Value(a + b)
         /\ a + b \notin Raw => CheckedAdd(a, b) = Throw("overflow_error")
  BY SMT DEF WidthAssumption, Raw, CheckedAdd, Value, Throw

\* The same for checked_subtract(), also for the smallest integer.
LEMMA CheckedSubtractIsExact ==
  ASSUME WidthAssumption, NEW a \in Raw, NEW b \in Raw
  PROVE  /\ a - b \in Raw => CheckedSubtract(a, b) = Value(a - b)
         /\ a - b \notin Raw => CheckedSubtract(a, b) = Throw("overflow_error")
  BY SMT DEF WidthAssumption, Raw, CheckedSubtract, Value, Throw

\* The result of checked_add() is right, in whatever unit it is counted.
LEMMA CheckedAddIsRight ==
  ASSUME WidthAssumption, NEW a \in Raw, NEW b \in Raw, NEW u \in Nat \ {0}
  PROVE  Right(CheckedAdd(a, b), (a + b) * u, u, Raw) /\ (a + b) * u \in Int
<1>1. a \in Int /\ b \in Int /\ a + b \in Int /\ \A raw \in Raw : raw \in Int
  BY DEF Raw, WidthAssumption
<1>2. (a + b) * u \in Int
  BY <1>1
<1>3. CASE a + b \in Raw
  BY <1>2, <1>3, CheckedAddIsExact DEF Right, Value
<1>4. CASE a + b \notin Raw
  <2>1. \A raw \in Raw : raw * u # (a + b) * u
    BY <1>1, <1>4, TimesInjective
  <2> QED
    BY <1>2, <1>4, <2>1, CheckedAddIsExact DEF Right, Throw
<1> QED
  BY <1>3, <1>4

\* The result of checked_subtract() is right, in whatever unit it is counted.
LEMMA CheckedSubtractIsRight ==
  ASSUME WidthAssumption, NEW a \in Raw, NEW b \in Raw, NEW u \in Nat \ {0}
  PROVE  Right(CheckedSubtract(a, b), (a - b) * u, u, Raw) /\ (a - b) * u \in Int
<1>1. a \in Int /\ b \in Int /\ a - b \in Int /\ \A raw \in Raw : raw \in Int
  BY DEF Raw, WidthAssumption
<1>2. (a - b) * u \in Int
  BY <1>1
<1>3. CASE a - b \in Raw
  BY <1>2, <1>3, CheckedSubtractIsExact DEF Right, Value
<1>4. CASE a - b \notin Raw
  <2>1. \A raw \in Raw : raw * u # (a - b) * u
    BY <1>1, <1>4, TimesInjective
  <2> QED
    BY <1>2, <1>4, <2>1, CheckedSubtractIsExact DEF Right, Throw
<1> QED
  BY <1>3, <1>4

\* The comparison with the quotients of the limits refuses exactly the products
\* that leave the width.
LEMMA UpscaleIsExact ==
  ASSUME WidthAssumption, NEW c \in Raw, NEW f \in Nat \ {0}
  PROVE  /\ c * f \in Raw => Upscale(c, f) = Value(c * f)
         /\ c * f \notin Raw => Upscale(c, f) = Throw("overflow_error")
<1> DEFINE hi == TruncDiv(MaxRaw, f)
           lo == TruncDiv(MinRaw, f)
<1>1. /\ hi \in Int /\ hi * f <= MaxRaw /\ MaxRaw < (hi + 1) * f
      /\ lo \in Int /\ MinRaw <= lo * f /\ (lo - 1) * f < MinRaw
  BY TruncDivBounds DEF WidthAssumption
<1>2. c \in Int /\ c * f \in Int /\ MinRaw \in Int /\ MaxRaw \in Int
  BY DEF Raw, WidthAssumption
<1> HIDE DEF hi, lo
<1>3. c > hi => c * f > MaxRaw
  <2>1. c > hi => (hi + 1) * f <= c * f
    BY <1>1, <1>2, TimesMonotone
  <2> QED
    BY <2>1, <1>1, <1>2
<1>4. c <= hi => c * f <= MaxRaw
  <2>1. c <= hi => c * f <= hi * f
    BY <1>1, <1>2, TimesMonotone
  <2> QED
    BY <2>1, <1>1, <1>2
<1>5. c < lo => c * f < MinRaw
  <2>1. c < lo => c * f <= (lo - 1) * f
    BY <1>1, <1>2, TimesMonotone
  <2> QED
    BY <2>1, <1>1, <1>2
<1>6. c >= lo => c * f >= MinRaw
  <2>1. c >= lo => lo * f <= c * f
    BY <1>1, <1>2, TimesMonotone
  <2> QED
    BY <2>1, <1>1, <1>2
<1>7. c * f \in Raw <=> ~(c > hi \/ c < lo)
  BY <1>1, <1>2, <1>3, <1>4, <1>5, <1>6 DEF Raw
<1> QED
  BY <1>7 DEF Upscale, hi, lo

\* A division is refused exactly when the divisor does not divide, whatever the
\* sign, and a quotient stays within the width.
LEMMA DownscaleIsExact ==
  ASSUME WidthAssumption, NEW c \in Raw, NEW d \in Nat \ {0}
  PROVE  Right(Downscale(c, d), c, d, Raw)
<1> DEFINE q == TruncDiv(c, d)
<1>1. /\ c \in Int /\ q \in Int
      /\ c >= 0 => q * d <= c /\ c < (q + 1) * d
      /\ c < 0 => c <= q * d /\ (q - 1) * d < c
  BY TruncDivBounds DEF Raw, WidthAssumption
<1>2. Remainder(c, d) = c - d * q
  BY DEF Remainder
<1>3. d * q \in Int /\ d * q = q * d
  BY <1>1
<1>4. q \in Raw
  <2>1. (c >= 0 => q \in 0..c) /\ (c < 0 => q \in c..0)
    BY <1>1, TruncDivInRange
  <2> HIDE DEF q
  <2> QED
    BY <2>1, <1>1 DEF Raw, WidthAssumption
<1>5. d * q # c => \A raw \in Raw : raw * d # c
  <2> SUFFICES ASSUME NEW raw \in Raw, raw * d = c PROVE d * q = c
    OBVIOUS
  <2>1. raw \in Int
    BY DEF Raw, WidthAssumption
  <2>2. CASE c >= 0
    <3>1. ~(raw < q)
      <4> SUFFICES ASSUME raw < q PROVE FALSE
        OBVIOUS
      <4>1. (raw + 1) * d <= q * d
        BY <1>1, <2>1, TimesMonotone
      <4> QED
        BY <4>1, <1>1, <2>1, <2>2
    <3>2. ~(raw > q)
      <4> SUFFICES ASSUME raw > q PROVE FALSE
        OBVIOUS
      <4>1. (q + 1) * d <= raw * d
        BY <1>1, <2>1, TimesMonotone
      <4> QED
        BY <4>1, <1>1, <2>1, <2>2
    <3> QED
      BY <3>1, <3>2, <1>1, <1>3, <2>1
  <2>3. CASE c < 0
    <3>1. ~(raw < q)
      <4> SUFFICES ASSUME raw < q PROVE FALSE
        OBVIOUS
      <4>1. raw * d <= (q - 1) * d
        BY <1>1, <2>1, TimesMonotone
      <4> QED
        BY <4>1, <1>1, <2>1, <2>3
    <3>2. ~(raw > q)
      <4> SUFFICES ASSUME raw > q PROVE FALSE
        OBVIOUS
      <4>1. (q + 1) * d <= raw * d
        BY <1>1, <2>1, TimesMonotone
      <4> QED
        BY <4>1, <1>1, <2>1, <2>3
    <3> QED
      BY <3>1, <3>2, <1>1, <1>3, <2>1
  <2> QED
    BY <2>2, <2>3, <1>1
<1> HIDE DEF q
<1>6. CASE d * q = c
  BY <1>1, <1>2, <1>3, <1>4, <1>6 DEF Right, Downscale, Value, q
<1>7. CASE d * q # c
  BY <1>1, <1>2, <1>3, <1>5, <1>7 DEF Right, Downscale, Throw
<1> QED
  BY <1>6, <1>7

\* The powers of the table are positive.
LEMMA PowerPositive ==
  ASSUME WidthAssumption, PowerAssumption, NEW k \in 0..MaxScale
  PROVE  Power[k] \in Nat \ {0}
<1>1. Power \in [0..MaxScale -> 1..MaxRaw]
  BY DEF PowerAssumption
<1>2. MaxRaw \in Nat
  BY DEF WidthAssumption
<1>3. Power[k] \in 1..MaxRaw
  BY <1>1, Zenon
<1>4. \A x \in 1..MaxRaw : x \in Nat \ {0}
  BY <1>2
<1> QED
  BY <1>3, <1>4, Zenon

\* Two powers of the table: the finer one is the coarser one times the power of
\* the difference.
LEMMA PowerSplits ==
  ASSUME WidthAssumption, PowerAssumption,
         NEW i \in 0..MaxScale, NEW j \in 0..MaxScale, i <= j
  PROVE  Power[j] = Power[j - i] * Power[i]
<1>1. j - i \in 0..MaxScale /\ (j - i) + i <= MaxScale /\ (j - i) + i = j
  BY DEF WidthAssumption
<1>2. Power[(j - i) + i] = Power[j - i] * Power[i]
  BY <1>1 DEF PowerAssumption
<1> QED
  BY <1>1, <1>2

\* normalize_decimal() rounds nothing, and refuses only what the target scale
\* and the width cannot represent.
LEMMA NormalizeIsExact ==
  ASSUME WidthAssumption, PowerAssumption,
         NEW c \in Raw, NEW s \in 0..MaxScale, NEW t \in 0..MaxScale
  PROVE  Right(Normalize(c, s, t), c * Power[MaxScale - s], Power[MaxScale - t], Raw)
<1> DEFINE P == Power[MaxScale - s]
           U == Power[MaxScale - t]
<1>1. /\ c \in Int /\ s \in Int /\ t \in Int /\ MaxScale \in Int /\ ~(s > MaxScale)
      /\ MaxScale - s \in 0..MaxScale /\ MaxScale - t \in 0..MaxScale
      /\ \A raw \in Raw : raw \in Int
  BY DEF WidthAssumption, Raw
<1>2. P \in Nat \ {0} /\ U \in Nat \ {0}
  BY <1>1, PowerPositive
<1>3. CASE s = t
  <2>1. Normalize(c, s, t) = Value(c)
    BY <1>1, <1>3 DEF Normalize
  <2> QED
    BY <2>1, <1>3 DEF Right, Value
<1>4. CASE s < t
  <2> DEFINE f == Power[t - s]
  <2>1. P = f * U /\ f \in Nat \ {0}
    <3>1. MaxScale - t <= MaxScale - s /\ (MaxScale - s) - (MaxScale - t) = t - s
          /\ t - s \in 0..MaxScale
      BY <1>1, <1>4
    <3>2. Power[MaxScale - s] = Power[t - s] * Power[MaxScale - t]
      BY <3>1, <1>1, PowerSplits
    <3> QED
      BY <3>1, <3>2, PowerPositive
  <2>2. Normalize(c, s, t) = Upscale(c, f)
    BY <1>1, <1>4 DEF Normalize
  <2> HIDE DEF P, U, f
  <2>3. c * P = (c * f) * U
    BY <2>1, <1>1, <1>2
  <2>4. \A raw \in Raw : raw * U = c * P => raw = c * f
    <3> SUFFICES ASSUME NEW raw \in Raw, raw * U = (c * f) * U PROVE raw = c * f
      BY <2>3
    <3>1. raw \in Int /\ c * f \in Int
      BY <1>1, <2>1
    <3> QED
      BY <3>1, <1>2, TimesInjective
  <2>5. CASE c * f \in Raw
    <3>1. Normalize(c, s, t) = Value(c * f)
      BY <2>1, <2>2, <2>5, UpscaleIsExact
    <3>2. Right(Normalize(c, s, t), c * P, U, Raw)
      BY <3>1, <2>3, <2>5 DEF Right, Value
    <3> QED
      BY <3>2 DEF P, U
  <2>6. CASE c * f \notin Raw
    <3>1. Normalize(c, s, t) = Throw("overflow_error")
      BY <2>1, <2>2, <2>6, UpscaleIsExact
    <3>2. Right(Normalize(c, s, t), c * P, U, Raw)
      BY <3>1, <2>4, <2>6 DEF Right, Throw
    <3> QED
      BY <3>2 DEF P, U
  <2> QED
    BY <2>5, <2>6
<1>5. CASE s > t
  <2> DEFINE d == Power[s - t]
  <2>1. U = d * P /\ d \in Nat \ {0}
    <3>1. MaxScale - s <= MaxScale - t /\ (MaxScale - t) - (MaxScale - s) = s - t
          /\ s - t \in 0..MaxScale
      BY <1>1, <1>5
    <3>2. Power[MaxScale - t] = Power[s - t] * Power[MaxScale - s]
      BY <3>1, <1>1, PowerSplits
    <3> QED
      BY <3>1, <3>2, PowerPositive
  <2>2. Normalize(c, s, t) = Downscale(c, d)
    <3>1. s # t /\ ~(s < t)
      BY <1>1, <1>5
    <3> QED
      BY <3>1, <1>1 DEF Normalize
  <2>3. Right(Downscale(c, d), c, d, Raw)
    BY <2>1, DownscaleIsExact
  <2> HIDE DEF P, U, d
  <2>4. \A raw \in Raw : raw * U = c * P <=> raw * d = c
    <3> SUFFICES ASSUME NEW raw \in Raw PROVE raw * U = c * P <=> raw * d = c
      OBVIOUS
    <3>1. raw \in Int /\ raw * d \in Int /\ raw * U = (raw * d) * P
      BY <1>1, <1>2, <2>1
    <3> QED
      BY <3>1, <1>1, <1>2, TimesInjective
  <2>5. Right(Normalize(c, s, t), c * P, U, Raw)
    BY <2>2, <2>3, <2>4 DEF Right
  <2> QED
    BY <2>5 DEF P, U
<1> QED
  BY <1>1, <1>3, <1>4, <1>5

-----------------------------------------------------------------------------
\* The effect of an operation whose result is right: the value held stays
\* exact, and a refusal was necessary.
LEMMA EndsKeeps ==
  ASSUME WidthAssumption, DecimalInv,
         NEW currency \in CurrenciesOf(held.type), NEW result, NEW x \in Int,
         Right(result, x, Unit(held.type), RawOf(held.type)),
         Ends(currency, result, {x})
  PROVE  DecimalInv' /\ RefusedOnlyIfImpossible'
<1>1. RawOf(held.type) \subseteq Raw /\ CurrenciesOf(held.type) \subseteq Currencies \cup {"none"}
  BY DEF RawOf, Raw, CurrenciesOf, WidthAssumption
<1>2. CASE result.outcome = "value"
  <2>1. /\ held' = [held EXCEPT !.currency = currency, !.raw = result.raw]
        /\ total' = x /\ asked' = {x} /\ outcome' = "value"
        /\ result.raw \in RawOf(held.type) /\ result.raw * Unit(held.type) = x
    BY <1>2 DEF Ends, Right
  <2>2. /\ held'.type = held.type /\ held'.currency = currency /\ held'.raw = result.raw
        /\ held' \in [type : Type, currency : Currencies \cup {"none"}, raw : Raw]
    BY <1>1, <2>1 DEF DecimalInv, DecimalTypeOK
  <2> QED
    BY <2>1, <2>2 DEF DecimalInv, DecimalTypeOK, HeldIsExact, RefusedOnlyIfImpossible
<1>3. CASE result.outcome # "value"
  <2>1. /\ held' = held /\ total' = total /\ asked' = {x}
        /\ outcome' \in {"overflow_error", "invalid_argument"}
        /\ \A raw \in RawOf(held.type) : raw * Unit(held.type) # x
    BY <1>3 DEF Ends, Right
  <2> QED
    BY <2>1 DEF DecimalInv, DecimalTypeOK, HeldIsExact, RefusedOnlyIfImpossible
<1> QED
  BY <1>2, <1>3

\* An operation that has no exact result throws, and changes only the outcome.
LEMMA ThrowKeeps ==
  ASSUME DecimalInv, NEW currency, Ends(currency, Throw("invalid_argument"), {})
  PROVE  DecimalInv' /\ RefusedOnlyIfImpossible'
<1>1. held' = held /\ total' = total /\ asked' = {} /\ outcome' = "invalid_argument"
  BY DEF Ends, Throw
<1> QED
  BY <1>1 DEF DecimalInv, DecimalTypeOK, HeldIsExact, RefusedOnlyIfImpossible

\* from_raw() of a quantity refuses the negative values and nothing else.
LEMMA FromRawIsExact ==
  ASSUME WidthAssumption, NEW type \in Type, NEW result, NEW x, NEW u \in Nat \ {0},
         Right(result, x, u, Raw)
  PROVE  Right(FromRaw(type, result), x, u, RawOf(type))
<1>1. \A raw \in Raw : raw \in Int
  BY DEF Raw, WidthAssumption
<1>2. RawOf(type) \subseteq Raw
  BY DEF RawOf, Raw, WidthAssumption
<1>3. CASE type = "quantity" /\ result.outcome = "value" /\ result.raw < 0
  <2>1. \A raw \in RawOf(type) : raw \in Int /\ raw # result.raw
    BY <1>3, <1>1, <1>2 DEF RawOf
  <2>2. result.raw \in Int /\ result.raw * u = x
    BY <1>1, <1>3 DEF Right
  <2>3. \A raw \in RawOf(type) : raw * u # x
    BY <2>1, <2>2, TimesInjective
  <2> QED
    BY <2>3, <1>3 DEF FromRaw, Throw, Right
<1>4. CASE ~(type = "quantity" /\ result.outcome = "value" /\ result.raw < 0)
  <2>1. FromRaw(type, result) = result
    BY <1>4 DEF FromRaw
  <2>2. result.outcome = "value" => result.raw \in Raw
    BY DEF Right
  <2>3. result.outcome = "value" => result.raw \in RawOf(type)
    BY <2>2, <1>4 DEF RawOf, Raw, WidthAssumption
  <2> QED
    BY <2>1, <2>3, <1>2 DEF Right
<1> QED
  BY <1>3, <1>4

\* Subtraction of quantities throws its own exception for a negative result.
LEMMA DifferenceIsRight ==
  ASSUME WidthAssumption, NEW type \in Type, NEW a, NEW b, NEW x, NEW u \in Nat \ {0},
         Right(CheckedSubtract(a, b), x, u, Raw)
  PROVE  Right(Difference(type, a, b), x, u, RawOf(type))
<1> DEFINE result == CheckedSubtract(a, b)
           Negative == type = "quantity" /\ result.outcome = "value" /\ result.raw < 0
<1> HIDE DEF result
<1>1. Right(FromRaw(type, result), x, u, RawOf(type))
  BY FromRawIsExact DEF result
<1>2. CASE Negative
  <2>1. FromRaw(type, result).outcome # "value"
    BY <1>2 DEF FromRaw, Throw
  <2>2. Difference(type, a, b) = Throw("overflow_error")
    BY <1>2 DEF Difference, result
  <2> QED
    BY <1>1, <2>1, <2>2 DEF Right, Throw
<1>3. CASE ~Negative
  <2>1. Difference(type, a, b) = FromRaw(type, result)
    BY <1>3 DEF Difference, result
  <2> QED
    BY <1>1, <2>1
<1> QED
  BY <1>2, <1>3

\* A unit of a type is a positive number of units of the finest scale.
LEMMA UnitPositive ==
  ASSUME WidthAssumption, PowerAssumption, NEW type \in Type
  PROVE  /\ Unit(type) \in Nat \ {0}
         /\ CanonicalScale[type] \in 0..MaxScale
         /\ Unit(type) = Power[MaxScale - CanonicalScale[type]]
<1>1. CanonicalScale[type] \in 0..MaxScale
  BY Zenon DEF WidthAssumption
<1>2. \A x \in 0..MaxScale : MaxScale - x \in 0..MaxScale
  BY DEF WidthAssumption
<1>3. MaxScale - CanonicalScale[type] \in 0..MaxScale
  BY <1>1, <1>2, Zenon
<1> QED
  BY <1>1, <1>3, PowerPositive DEF Unit

-----------------------------------------------------------------------------
\* Every operation either stores the exact result or throws because the type
\* has no value for it.
LEMMA StepKeeps ==
  ASSUME WidthAssumption, PowerAssumption, DecimalInv, DecimalNext
  PROVE  DecimalInv' /\ RefusedOnlyIfImpossible'
<1>1. /\ held.type \in Type /\ held.raw \in Raw /\ RawOf(held.type) \subseteq Raw
      /\ \A raw \in Raw : raw \in Int
      /\ Coefficients \subseteq Raw /\ MaxScale \in Nat
  <2>1. held \in [type : Type, currency : Currencies \cup {"none"}, raw : Raw]
    BY DEF DecimalInv, DecimalTypeOK
  <2>2. held.type \in Type /\ held.raw \in Raw
    BY <2>1
  <2>3. RawOf(held.type) \subseteq Raw /\ \A raw \in Raw : raw \in Int
    BY DEF RawOf, Raw, WidthAssumption
  <2> QED
    BY <2>2, <2>3 DEF WidthAssumption
<1> DEFINE u == Unit(held.type)
           cs == CanonicalScale[held.type]
<1>2. u \in Nat \ {0} /\ cs \in 0..MaxScale /\ u = Power[MaxScale - cs]
  BY <1>1, UnitPositive
<1> HIDE DEF u, cs
<1>3. ASSUME NEW currency \in CurrenciesOf(held.type), NEW coefficient \in Coefficients,
             NEW scale \in 0..(MaxScale + 1), FromDecimal(currency, coefficient, scale)
      PROVE  DecimalInv' /\ RefusedOnlyIfImpossible'
  <2> DEFINE n == Normalize(coefficient, scale, cs)
  <2>1. CASE scale > MaxScale
    <3>1. FromRaw(held.type, n) = Throw("invalid_argument")
      BY <2>1 DEF Normalize, FromRaw, Throw
    <3>2. Ends(currency, Throw("invalid_argument"), {})
      BY <1>3, <2>1, <3>1 DEF FromDecimal, cs
    <3> QED
      BY <3>2, ThrowKeeps
  <2>2. CASE ~(scale > MaxScale)
    <3> DEFINE x == coefficient * Power[MaxScale - scale]
    <3>1. scale \in 0..MaxScale /\ coefficient \in Raw /\ MaxScale - scale \in 0..MaxScale
      BY <1>1, <1>3, <2>2
    <3>2. Right(n, x, u, Raw)
      BY <1>2, <3>1, NormalizeIsExact
    <3>3. x \in Int
      BY <1>1, <3>1, PowerPositive
    <3>4. Ends(currency, FromRaw(held.type, n), {x})
      BY <1>3, <2>2 DEF FromDecimal, cs
    <3> HIDE DEF n, x
    <3>5. Right(FromRaw(held.type, n), x, u, RawOf(held.type))
      BY <1>1, <1>2, <3>2, FromRawIsExact
    <3> QED
      BY <1>3, <3>3, <3>4, <3>5, EndsKeeps DEF u
  <2> QED
    BY <2>1, <2>2
<1>4. ASSUME NEW currency \in CurrenciesOf(held.type), NEW raw \in RawOf(held.type),
             AddTo(currency, raw)
      PROVE  DecimalInv' /\ RefusedOnlyIfImpossible'
  <2>1. CASE currency # held.currency
    BY <1>4, <2>1, ThrowKeeps DEF AddTo
  <2>2. CASE currency = held.currency
    <3> DEFINE x == (held.raw + raw) * u
    <3>1. raw \in Raw /\ held.raw \in Raw
      BY <1>1, <1>4
    <3>2. Right(CheckedAdd(held.raw, raw), x, u, Raw) /\ x \in Int
      BY <1>2, <3>1, CheckedAddIsRight
    <3> HIDE DEF x
    <3>3. Right(Sum(held.type, held.raw, raw), x, u, RawOf(held.type))
      BY <1>1, <1>2, <3>2, FromRawIsExact DEF Sum
    <3>4. Ends(currency, Sum(held.type, held.raw, raw), {x})
      BY <1>4, <2>2 DEF AddTo, u, x
    <3> QED
      BY <1>4, <3>2, <3>3, <3>4, EndsKeeps DEF u
  <2> QED
    BY <2>1, <2>2
<1>5. ASSUME NEW currency \in CurrenciesOf(held.type), NEW raw \in RawOf(held.type),
             SubtractFrom(currency, raw)
      PROVE  DecimalInv' /\ RefusedOnlyIfImpossible'
  <2>1. CASE currency # held.currency
    BY <1>5, <2>1, ThrowKeeps DEF SubtractFrom
  <2>2. CASE currency = held.currency
    <3> DEFINE x == (held.raw - raw) * u
    <3>1. raw \in Raw /\ held.raw \in Raw
      BY <1>1, <1>5
    <3>2. Right(CheckedSubtract(held.raw, raw), x, u, Raw) /\ x \in Int
      BY <1>2, <3>1, CheckedSubtractIsRight
    <3> HIDE DEF x
    <3>3. Right(Difference(held.type, held.raw, raw), x, u, RawOf(held.type))
      BY <1>1, <1>2, <3>2, DifferenceIsRight
    <3>4. Ends(currency, Difference(held.type, held.raw, raw), {x})
      BY <1>5, <2>2 DEF SubtractFrom, u, x
    <3> QED
      BY <1>5, <3>2, <3>3, <3>4, EndsKeeps DEF u
  <2> QED
    BY <2>1, <2>2
<1> QED
  BY <1>3, <1>4, <1>5 DEF DecimalNext

\* The initial value is exact and nothing was refused.
LEMMA InitKeeps ==
  ASSUME WidthAssumption, PowerAssumption, DecimalInit
  PROVE  DecimalInv /\ RefusedOnlyIfImpossible
<1>0. PICK type \in Type : \E currency \in CurrenciesOf(type) :
        held = [type |-> type, currency |-> currency, raw |-> 0]
  BY DEF DecimalInit
<1>1. PICK currency \in CurrenciesOf(type) :
        held = [type |-> type, currency |-> currency, raw |-> 0]
  BY <1>0
<1>2. 0 \in RawOf(type) /\ 0 \in Raw
  BY DEF RawOf, Raw, WidthAssumption
<1>4. currency \in Currencies \cup {"none"}
  BY DEF CurrenciesOf
<1>5. Unit(type) \in Nat \ {0}
  BY UnitPositive
<1>6. 0 * Unit(type) = 0
  BY <1>5
<1>3. /\ held.type = type /\ held.currency = currency /\ held.raw = 0
      /\ outcome = "value" /\ total = 0 /\ asked = {0}
  BY <1>1 DEF DecimalInit
<1> QED
  BY <1>1, <1>2, <1>3, <1>4, <1>6 DEF DecimalInv, DecimalTypeOK, HeldIsExact, RefusedOnlyIfImpossible

-----------------------------------------------------------------------------
\* For every width, table of powers and choice of scales: a value held is the
\* exact result of the operations that made it, and no expression on the way,
\* the checks of the operations included, leaves the width.
THEOREM DecimalInvariant == DecimalSpec => []DecimalInv
<1>1. DecimalInit => DecimalInv
  BY InitKeeps, WidthAssumption, PowerAssumption
<1>2. DecimalInv /\ [DecimalNext]_decimalVars => DecimalInv'
  <2>1. DecimalInv /\ DecimalNext => DecimalInv'
    BY StepKeeps, WidthAssumption, PowerAssumption
  <2>2. DecimalInv /\ UNCHANGED decimalVars => DecimalInv'
    BY DEF decimalVars, DecimalInv, DecimalTypeOK, HeldIsExact
  <2> QED
    BY <2>1, <2>2
<1> QED
  BY <1>1, <1>2, PTL DEF DecimalSpec

\* An operation throws only where the type has no value for its exact result.
THEOREM RefusalsAreNecessary == DecimalSpec => []RefusedOnlyIfImpossible
<1>1. DecimalInit => RefusedOnlyIfImpossible
  BY InitKeeps, WidthAssumption, PowerAssumption
<1>2. DecimalInv /\ RefusedOnlyIfImpossible /\ [DecimalNext]_decimalVars => RefusedOnlyIfImpossible'
  <2>1. DecimalInv /\ DecimalNext => RefusedOnlyIfImpossible'
    BY StepKeeps, WidthAssumption, PowerAssumption
  <2>2. RefusedOnlyIfImpossible /\ UNCHANGED decimalVars => RefusedOnlyIfImpossible'
    BY DEF decimalVars, RefusedOnlyIfImpossible
  <2> QED
    BY <2>1, <2>2
<1> QED
  BY <1>1, <1>2, DecimalInvariant, PTL DEF DecimalSpec

-----------------------------------------------------------------------------
(* SubtractLoop: the loop returns exactly the gaps.                           *)

USE DEF Timestamp


\* SubtractInit establishes the loop invariant.
LEMMA SubtractInitEstablishes == SubtractInit => SubtractTypeOK /\ LoopInv
  <1> SUFFICES ASSUME SubtractInit PROVE SubtractTypeOK /\ LoopInv
    OBVIOUS
  <1>1. /\ requested \in TimeRange /\ covered \subseteq TimeRange
        /\ requested.start \in Timestamp /\ requested.start < requested.end
        /\ requested.start \in Int /\ requested.end \in Int
    BY RangeEnds, CoveredSetsAssumption DEF SubtractInit
  <1>2. SubtractTypeOK
    BY <1>1, IntersectionShares DEF SubtractInit, SubtractTypeOK
  <1>3. CursorInRequest /\ CursorIsMaximal /\ MissingOrdered /\ MissingAreGaps
    BY <1>1 DEF SubtractInit, CursorInRequest, CursorIsMaximal, MissingOrdered, MissingAreGaps
  <1>4. ReturnedBeforeCursor
    BY <1>1, TimeBounds DEF SubtractInit, ReturnedBeforeCursor, Uncovered, Contains
  <1>5. RemainingCovers
    <2>1. \A r \in remaining : \E c \in covered : r \in Intersection(requested, c)
      BY DEF SubtractInit
    <2>2. \A c, r : r \in Intersection(requested, c) => Intersection(requested, c) = {r}
      BY DEF Intersection
    <2> QED BY <2>1, <2>2 DEF SubtractInit, RemainingCovers
  <1> QED BY <1>2, <1>3, <1>4, <1>5 DEF LoopInv

\* A gap between the cursor and a later instant that is covered, or is the end
\* of the request, is maximal when nothing before it remains to be visited.
LEMMA NewGap ==
  ASSUME SubtractTypeOK, LoopInv, pc # "done",
         NEW e \in Timestamp, cursor < e, e <= requested.end,
         \A t \in cursor..(e - 1) : \A c \in covered : ~Contains(c, t),
         e = requested.end \/ \E c \in covered : Contains(c, e)
  PROVE  [start |-> cursor, end |-> e] \in Gaps(requested, covered)
  <1> DEFINE g == [start |-> cursor, end |-> e]
  <1>1. /\ cursor \in Int /\ e \in Int
        /\ requested.start \in Int /\ requested.end \in Int
        /\ requested.start <= cursor
    BY RangeEnds, TimeBounds DEF SubtractTypeOK, LoopInv, CursorInRequest
  <1>2. g \in TimeRange
    BY MakeRange DEF SubtractTypeOK
  <1>3. \A t \in Instants(g) : Uncovered(requested, covered, t)
    BY <1>1 DEF Instants, Uncovered, Contains
  <1>4. ~Uncovered(requested, covered, g.start - 1)
    BY <1>1 DEF LoopInv, CursorIsMaximal, Uncovered, Contains
  <1>5. ~Uncovered(requested, covered, g.end)
    BY <1>1 DEF Uncovered, Contains
  <1> QED BY <1>2, <1>3, <1>4, <1>5 DEF Gaps

\* What the sort gives: nothing covered lies between the cursor and the next
\* range, and that range is the request clipped to a covered one.
LEMMA NextRange ==
  ASSUME SubtractTypeOK, LoopInv, pc = "loop", NEW c \in remaining, IsNext(c)
  PROVE  /\ c \in TimeRange
         /\ requested.start <= c.start /\ c.end <= requested.end
         /\ \A t \in Int : Contains(c, t) => \E d \in covered : Contains(d, t)
         /\ \A t \in cursor..(c.start - 1) : \A d \in covered : ~Contains(d, t)
  <1>1. requested \in TimeRange /\ covered \subseteq TimeRange /\ c \in TimeRange
    BY DEF SubtractTypeOK
  <1>2. PICK d \in covered : Intersection(requested, d) = {c}
    BY DEF LoopInv, RemainingCovers
  <1>3. /\ requested.start <= c.start /\ c.end <= requested.end
        /\ d.start <= c.start /\ c.end <= d.end
    BY <1>1, <1>2, IntersectionShares
  <1>4. \A t \in Int : Contains(c, t) => Contains(d, t)
    BY <1>1, <1>3, RangeEnds DEF Contains
  <1>5. ASSUME NEW t \in cursor..(c.start - 1), NEW f \in covered, Contains(f, t)
        PROVE  FALSE
    <2>1. /\ t \in Int /\ cursor \in Int /\ cursor <= t /\ t < c.start
          /\ requested.start <= cursor
      BY <1>1, RangeEnds, TimeBounds DEF SubtractTypeOK, LoopInv, CursorInRequest
    <2>2. Contains(requested, t)
      BY <1>1, <1>3, <2>1, RangeEnds DEF Contains
    <2>3. PICK r \in Intersection(requested, f) : Contains(r, t)
      BY <1>1, <1>5, <2>1, <2>2, IntersectionShares
    <2>4. r \in TimeRange
      BY <1>1, <2>3, IntersectionShares
    <2>5. r.end > cursor
      BY <2>1, <2>3, <2>4, RangeEnds DEF Contains
    <2>6. r \in remaining
      BY <2>3, <2>5 DEF LoopInv, RemainingCovers
    <2> QED BY <1>1, <2>1, <2>3, <2>4, <2>6, RangeEnds DEF IsNext, RangeLeq, Contains
  <1> QED BY <1>1, <1>2, <1>3, <1>4, <1>5

\* Appending a gap that starts at the cursor keeps the returned ranges ordered
\* gaps, and returns every uncovered instant of it.
LEMMA AppendGap ==
  ASSUME SubtractTypeOK, LoopInv, pc # "done", NEW e \in Timestamp,
         cursor < e => [start |-> cursor, end |-> e] \in Gaps(requested, covered),
         missing' = GapBefore(cursor, e), UNCHANGED <<requested, covered>>
  PROVE  /\ missing' \in Seq(TimeRange)
         /\ MissingAreGaps'
         /\ \A i, j \in DOMAIN missing' : i < j => missing'[i].end < missing'[j].start
         /\ \A i \in DOMAIN missing' : missing'[i].end < cursor \/ missing'[i].end = e
         /\ \A t \in Timestamp : Uncovered(requested, covered, t) /\ t < cursor
              => \E i \in DOMAIN missing' : Contains(missing'[i], t)
         /\ \A t \in Timestamp : cursor <= t /\ t < e
              => \E i \in DOMAIN missing' : Contains(missing'[i], t)
  <1> DEFINE g == [start |-> cursor, end |-> e]
  <1>1. missing \in Seq(TimeRange) /\ cursor \in Int /\ e \in Int
    BY TimeBounds DEF SubtractTypeOK
  <1>2. CASE cursor < e
    <2>1. g \in TimeRange
      BY <1>2 DEF Gaps
    <2>2. missing' = Append(missing, g)
      BY <1>2 DEF GapBefore
    <2>3. /\ missing' \in Seq(TimeRange)
          /\ DOMAIN missing = 1..Len(missing) /\ Len(missing) \in Nat
          /\ DOMAIN missing' = 1..(Len(missing) + 1)
          /\ \A i \in DOMAIN missing : missing'[i] = missing[i]
          /\ missing'[Len(missing) + 1] = g
      BY <1>1, <2>1, <2>2
    <2>4. \A i \in DOMAIN missing' : i \in DOMAIN missing \/ i = Len(missing) + 1
      BY <2>3
    <2>5. MissingAreGaps'
      BY <1>2, <2>3, <2>4 DEF LoopInv, MissingAreGaps
    <2>6. \A i \in DOMAIN missing : missing[i].end < cursor
      BY DEF LoopInv, MissingOrdered
    <2>7. \A i, j \in DOMAIN missing' : i < j => missing'[i].end < missing'[j].start
      <3> SUFFICES ASSUME NEW i \in DOMAIN missing', NEW j \in DOMAIN missing', i < j
                   PROVE  missing'[i].end < missing'[j].start
        OBVIOUS
      <3>1. i \in DOMAIN missing
        BY <2>3
      <3>2. CASE j \in DOMAIN missing
        BY <2>3, <3>1, <3>2 DEF LoopInv, MissingOrdered
      <3>3. CASE j = Len(missing) + 1
        BY <2>3, <2>6, <3>1, <3>3
      <3> QED BY <2>4, <3>2, <3>3
    <2>8. \A i \in DOMAIN missing' : missing'[i].end < cursor \/ missing'[i].end = e
      BY <2>3, <2>4, <2>6
    <2>9. \A t \in Timestamp : Uncovered(requested, covered, t) /\ t < cursor
            => \E i \in DOMAIN missing' : Contains(missing'[i], t)
      BY <2>3 DEF LoopInv, ReturnedBeforeCursor
    <2>10. \A t \in Timestamp : cursor <= t /\ t < e => Contains(missing'[Len(missing) + 1], t)
      BY <2>3 DEF Contains
    <2>11. Len(missing) + 1 \in DOMAIN missing'
      BY <2>3
    <2> QED BY <2>3, <2>5, <2>7, <2>8, <2>9, <2>10, <2>11
  <1>3. CASE ~(cursor < e)
    <2>1. missing' = missing
      BY <1>3 DEF GapBefore
    <2>2. \A t \in Timestamp : ~(cursor <= t /\ t < e)
      BY <1>1, <1>3, TimeBounds
    <2> QED BY <1>1, <2>1, <2>2
            DEF LoopInv, MissingAreGaps, MissingOrdered, ReturnedBeforeCursor
  <1> QED BY <1>2, <1>3

-----------------------------------------------------------------------------
\* Skipping a range that ends before the cursor keeps the invariant.
LEMMA SkipPreserves ==
  ASSUME SubtractTypeOK, LoopInv, pc = "loop", NEW c \in remaining, Skip(c)
  PROVE  SubtractTypeOK' /\ LoopInv'
  <1>1. SubtractTypeOK'
    BY DEF SubtractTypeOK, Skip
  <1>2. /\ CursorInRequest' /\ CursorIsMaximal' /\ MissingOrdered'
        /\ MissingAreGaps' /\ ReturnedBeforeCursor'
    BY DEF LoopInv, Skip, CursorInRequest, CursorIsMaximal, MissingOrdered,
           MissingAreGaps, ReturnedBeforeCursor
  <1>3. RemainingCovers'
    <2>1. c.end \in Int /\ cursor \in Int /\ c.end <= cursor
      BY RangeEnds, TimeBounds DEF SubtractTypeOK, Skip
    <2>2. \A r : r.end > cursor => r # c
      BY <2>1
    <2> QED BY <2>2 DEF LoopInv, RemainingCovers, Skip
  <1> QED BY <1>1, <1>2, <1>3 DEF LoopInv

\* Visiting the next range keeps the invariant.
LEMMA VisitPreserves ==
  ASSUME SubtractTypeOK, LoopInv, pc = "loop", NEW c \in remaining, IsNext(c), Visit(c)
  PROVE  SubtractTypeOK' /\ LoopInv'
  <1>1. /\ requested \in TimeRange /\ covered \subseteq TimeRange
        /\ c \in TimeRange
        /\ requested.start <= c.start /\ c.end <= requested.end
        /\ \A t \in Int : Contains(c, t) => \E d \in covered : Contains(d, t)
        /\ \A t \in cursor..(c.start - 1) : \A d \in covered : ~Contains(d, t)
    BY NextRange DEF SubtractTypeOK
  <1>2. /\ cursor \in Int /\ c.start \in Int /\ c.end \in Int
        /\ c.start \in Timestamp /\ c.end \in Timestamp /\ c.start < c.end
        /\ requested.start \in Int /\ requested.end \in Int
        /\ requested.start <= cursor
        /\ cursor < c.end
    BY <1>1, RangeEnds, TimeBounds DEF SubtractTypeOK, Visit, LoopInv, CursorInRequest
  <1>3. Contains(c, c.start) /\ Contains(c, c.end - 1)
    BY <1>2 DEF Contains
  <1>4. cursor < c.start => [start |-> cursor, end |-> c.start] \in Gaps(requested, covered)
    BY <1>1, <1>2, <1>3, NewGap
  <1>5. /\ missing' \in Seq(TimeRange)
        /\ MissingAreGaps'
        /\ \A i, j \in DOMAIN missing' : i < j => missing'[i].end < missing'[j].start
        /\ \A i \in DOMAIN missing' : missing'[i].end < cursor \/ missing'[i].end = c.start
        /\ \A t \in Timestamp : Uncovered(requested, covered, t) /\ t < cursor
             => \E i \in DOMAIN missing' : Contains(missing'[i], t)
        /\ \A t \in Timestamp : cursor <= t /\ t < c.start
             => \E i \in DOMAIN missing' : Contains(missing'[i], t)
    BY <1>2, <1>4, AppendGap DEF Visit
  <1>6. /\ cursor' = c.end /\ remaining' = remaining \ {c}
        /\ requested' = requested /\ covered' = covered
        /\ pc' \in {"loop", "tail"}
        /\ pc' = "tail" <=> c.end >= requested.end
    BY DEF Visit
  <1>7. SubtractTypeOK'
    BY <1>2, <1>5, <1>6 DEF SubtractTypeOK
  <1>8. CursorInRequest'
    BY <1>1, <1>2, <1>6 DEF CursorInRequest
  <1>9. CursorIsMaximal'
    BY <1>1, <1>2, <1>3, <1>6 DEF CursorIsMaximal
  <1>10. MissingOrdered'
    <2>1. ASSUME NEW i \in DOMAIN missing' PROVE missing'[i].end < c.end
      <3>1. missing'[i].end \in Int
        BY <1>5, <2>1, RangeEnds
      <3> QED BY <1>2, <1>5, <2>1, <3>1
    <2> QED BY <1>5, <1>6, <2>1 DEF MissingOrdered
  <1>11. ReturnedBeforeCursor'
    <2> SUFFICES ASSUME NEW t \in Timestamp, Uncovered(requested, covered, t), t < c.end
                 PROVE  \E i \in DOMAIN missing' : Contains(missing'[i], t)
      BY <1>6 DEF ReturnedBeforeCursor
    <2>1. t \in Int
      BY TimeBounds
    <2>2. ~(c.start <= t)
      BY <1>1, <1>2, <2>1 DEF Uncovered, Contains
    <2> QED BY <1>2, <1>5, <2>1, <2>2
  <1>12. RemainingCovers'
    <2>1. \A d \in covered : \A r \in Intersection(requested, d) :
            /\ r.end \in Int /\ r.end <= requested.end
            /\ r.end > c.end => r \in remaining \ {c}
      <3> SUFFICES ASSUME NEW d \in covered, NEW r \in Intersection(requested, d)
                   PROVE  /\ r.end \in Int /\ r.end <= requested.end
                          /\ r.end > c.end => r \in remaining \ {c}
        OBVIOUS
      <3>1. r \in TimeRange /\ r.end <= requested.end
        BY <1>1, IntersectionShares
      <3>2. r.end \in Int
        BY <3>1, RangeEnds
      <3>3. r.end > c.end => r.end > cursor /\ r # c
        BY <1>2, <3>2
      <3> QED BY <3>1, <3>2, <3>3 DEF LoopInv, RemainingCovers
    <2>2. \A r \in remaining' : \E d \in covered : Intersection(requested, d) = {r}
      BY <1>6 DEF LoopInv, RemainingCovers
    <2>3. pc' # "loop" => \A d \in covered : \A r \in Intersection(requested, d) : r.end <= c.end
      BY <1>1, <1>2, <1>6, <2>1
    <2> QED BY <1>6, <2>1, <2>2, <2>3 DEF RemainingCovers
  <1> QED BY <1>5, <1>7, <1>8, <1>9, <1>10, <1>11, <1>12 DEF LoopInv

\* Running out of ranges keeps the invariant.
LEMMA LoopEndsPreserves ==
  ASSUME SubtractTypeOK, LoopInv, LoopEnds
  PROVE  SubtractTypeOK' /\ LoopInv'
  <1>1. SubtractTypeOK'
    BY DEF SubtractTypeOK, LoopEnds
  <1>2. /\ CursorInRequest' /\ CursorIsMaximal' /\ MissingOrdered'
        /\ MissingAreGaps' /\ ReturnedBeforeCursor'
    BY DEF LoopInv, LoopEnds, CursorInRequest, CursorIsMaximal, MissingOrdered,
           MissingAreGaps, ReturnedBeforeCursor
  <1>3. RemainingCovers'
    <2>1. ASSUME NEW c \in covered, NEW r \in Intersection(requested, c)
          PROVE  r.end <= cursor
      <3>1. r.end \in Int /\ cursor \in Int
        BY <2>1, IntersectionShares, RangeEnds, TimeBounds DEF SubtractTypeOK
      <3>2. ~(r.end > cursor)
        BY <2>1 DEF LoopInv, RemainingCovers, LoopEnds
      <3> QED BY <3>1, <3>2
    <2> QED BY <2>1 DEF LoopInv, RemainingCovers, LoopEnds
  <1> QED BY <1>1, <1>2, <1>3 DEF LoopInv

\* The gap after the last covered range completes the result.
LEMMA TailGapPreserves ==
  ASSUME SubtractTypeOK, LoopInv, TailGap
  PROVE  SubtractTypeOK' /\ LoopInv'
  <1>1. /\ pc = "tail" /\ pc' = "done" /\ cursor' = cursor
        /\ remaining' = remaining /\ requested' = requested /\ covered' = covered
        /\ requested \in TimeRange /\ covered \subseteq TimeRange
        /\ cursor \in Int /\ requested.end \in Timestamp /\ requested.end \in Int
    BY RangeEnds, TimeBounds DEF SubtractTypeOK, TailGap
  <1>2. ASSUME NEW t \in cursor..(requested.end - 1), NEW c \in covered, Contains(c, t)
        PROVE  FALSE
    <2>1. t \in Int /\ Contains(requested, t)
      BY <1>1, RangeEnds DEF Contains, LoopInv, CursorInRequest
    <2>2. PICK r \in Intersection(requested, c) : Contains(r, t)
      BY <1>1, <1>2, <2>1, IntersectionShares
    <2>3. r.end \in Int
      BY <1>1, <2>2, IntersectionShares, RangeEnds
    <2>4. r.end <= cursor
      BY <1>1, <2>2 DEF LoopInv, RemainingCovers
    <2> QED BY <1>1, <2>1, <2>2, <2>3, <2>4 DEF Contains
  <1>3. cursor < requested.end =>
          [start |-> cursor, end |-> requested.end] \in Gaps(requested, covered)
    BY <1>1, <1>2, NewGap
  <1>4. /\ missing' \in Seq(TimeRange)
        /\ MissingAreGaps'
        /\ \A i, j \in DOMAIN missing' : i < j => missing'[i].end < missing'[j].start
        /\ \A t \in Timestamp : Uncovered(requested, covered, t) /\ t < cursor
             => \E i \in DOMAIN missing' : Contains(missing'[i], t)
        /\ \A t \in Timestamp : cursor <= t /\ t < requested.end
             => \E i \in DOMAIN missing' : Contains(missing'[i], t)
    BY <1>1, <1>3, AppendGap DEF TailGap
  <1>5. SubtractTypeOK'
    BY <1>1, <1>4 DEF SubtractTypeOK
  <1>6. CursorInRequest' /\ CursorIsMaximal' /\ MissingOrdered'
    BY <1>1, <1>4 DEF LoopInv, CursorInRequest, CursorIsMaximal, MissingOrdered
  <1>7. ReturnedBeforeCursor'
    <2> SUFFICES ASSUME NEW t \in Timestamp, Uncovered(requested, covered, t)
                 PROVE  \E i \in DOMAIN missing' : Contains(missing'[i], t)
      BY <1>1 DEF ReturnedBeforeCursor
    <2>1. t \in Int /\ t < requested.end
      BY TimeBounds DEF Uncovered, Contains
    <2> QED BY <1>1, <1>4, <2>1
  <1>8. RemainingCovers'
    BY <1>1 DEF LoopInv, RemainingCovers
  <1> QED BY <1>4, <1>5, <1>6, <1>7, <1>8 DEF LoopInv

-----------------------------------------------------------------------------
\* Type correctness and the loop invariant hold in every reachable state, for
\* every timestamp width and every set of covered ranges.
THEOREM LoopInvariant == SubtractSpec => []SubtractInv
  <1>1. SubtractInit => SubtractTypeOK /\ LoopInv
    BY SubtractInitEstablishes
  <1>2. SubtractTypeOK /\ LoopInv /\ [SubtractNext]_subtractVars => (SubtractTypeOK /\ LoopInv)'
    <2> SUFFICES ASSUME SubtractTypeOK, LoopInv, [SubtractNext]_subtractVars PROVE SubtractTypeOK' /\ LoopInv'
      OBVIOUS
    <2>1. CASE Iterate
      <3>1. PICK c \in remaining : pc = "loop" /\ IsNext(c) /\ (Skip(c) \/ Visit(c))
        BY <2>1 DEF Iterate
      <3> QED BY <3>1, SkipPreserves, VisitPreserves
    <2>2. CASE LoopEnds
      BY <2>2, LoopEndsPreserves
    <2>3. CASE TailGap
      BY <2>3, TailGapPreserves
    <2>4. CASE UNCHANGED subtractVars
      BY <2>4 DEF subtractVars, SubtractTypeOK, LoopInv, CursorInRequest, CursorIsMaximal,
                  MissingOrdered, MissingAreGaps, ReturnedBeforeCursor, RemainingCovers
    <2> QED BY <2>1, <2>2, <2>3, <2>4 DEF SubtractNext
  <1> QED BY <1>1, <1>2, PTL DEF SubtractSpec, SubtractInv

\* subtract() returns exactly the maximal uncovered ranges of its request, in
\* order and never adjacent: no instant is fetched twice or forgotten.
THEOREM SubtractReturnsTheGaps == SubtractSpec => []ReturnsTheGaps
  <1>1. SubtractTypeOK /\ LoopInv => ReturnsTheGaps
    <2> SUFFICES ASSUME SubtractTypeOK, LoopInv, pc = "done"
                 PROVE  /\ Missing = Gaps(requested, covered)
                        /\ \A i, j \in DOMAIN missing :
                             i < j => missing[i].end < missing[j].start
      BY DEF ReturnsTheGaps
    <2>1. Missing \subseteq Gaps(requested, covered)
      BY DEF Missing, LoopInv, MissingAreGaps
    <2>2. ASSUME NEW g \in Gaps(requested, covered)
          PROVE  g \in Missing
      <3>1. g \in TimeRange
        BY DEF Gaps
      <3>2. /\ g.start \in Int /\ g.end \in Int /\ g.start < g.end
            /\ g.start \in Timestamp
        BY <3>1, RangeEnds
      <3>3. g.start \in Instants(g)
        BY <3>2 DEF Instants
      <3>4. Uncovered(requested, covered, g.start)
        BY <3>3 DEF Gaps
      <3>5. PICK i \in DOMAIN missing : Contains(missing[i], g.start)
        BY <3>2, <3>4 DEF LoopInv, ReturnedBeforeCursor
      <3> DEFINE m == missing[i]
      <3>6. m \in Gaps(requested, covered)
        BY DEF LoopInv, MissingAreGaps
      <3>7. m \in TimeRange
        BY <3>6 DEF Gaps
      <3>8. m.start \in Int /\ m.end \in Int /\ m.start <= g.start /\ g.start < m.end
        BY <3>5, <3>7, RangeEnds DEF Contains
      <3>9. ~(m.start < g.start)
        <4>1. m.start < g.start => g.start - 1 \in Instants(m)
          BY <3>2, <3>8 DEF Instants
        <4> QED BY <3>6, <4>1 DEF Gaps
      <3>10. ~(g.end < m.end)
        <4>1. g.end < m.end => g.end \in Instants(m)
          BY <3>2, <3>8 DEF Instants
        <4> QED BY <3>6, <4>1 DEF Gaps
      <3>11. ~(m.end < g.end)
        <4>1. m.end < g.end => m.end \in Instants(g)
          BY <3>2, <3>8 DEF Instants
        <4> QED BY <3>6, <4>1 DEF Gaps
      <3>12. m.start = g.start /\ m.end = g.end
        BY <3>2, <3>8, <3>9, <3>10, <3>11
      <3>13. m = g
        BY <3>1, <3>7, <3>12, RangeEnds
      <3> QED BY <3>13 DEF Missing
    <2> QED BY <2>1, <2>2 DEF LoopInv, MissingOrdered
  <1> QED BY <1>1, LoopInvariant, PTL DEF SubtractInv
=============================================================================
