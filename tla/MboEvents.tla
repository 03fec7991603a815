----------------------------- MODULE MboEvents ----------------------------
(***************************************************************************)
(* Order-book events and the 64-byte records they are packed in            *)
(* (quant/data/observations.hpp), with their validation (validation.hpp).  *)
(* An optional field is a set with at most one element.  The event time    *)
(* and the source flags are copied both ways and are left out.  Enumerated *)
(* values are the numbers of the C++ enumerators, so that the control word *)
(* is the number it is in the code.                                        *)
(***************************************************************************)
EXTENDS Integers

CONSTANT Streams  \* MboStreamContext: instrument, venue and source

Add == 0
Modify == 1
Cancel == 2
Execute == 3
Clear == 4
MboAction == {Add, Modify, Cancel, Execute, Clear}

Buy == 0
Sell == 1

\* MboEvent.  An action is any value of the three bits that hold it: a record
\* of another program may have one that is no enumerator.  OrderId is never
\* zero; a sequence, a channel and a quantity are not negative.
MboEvent ==
  [action : 0..7, stream : Streams, receive : SUBSET Int, sequence : SUBSET Nat,
   channel : SUBSET Nat, order : SUBSET (Nat \ {0}), side : SUBSET {Buy, Sell},
   price : SUBSET Int, quantity : SUBSET Nat]

EventShape(e) ==
  /\ e \in MboEvent
  /\ \A o \in {e.receive, e.sequence, e.channel, e.order, e.side, e.price, e.quantity} :
       \A v, w \in o : v = w

OrderFields(e) == e.order \union e.side \union e.price \union e.quantity

-----------------------------------------------------------------------------
IssueCode == {"clear_has_order_fields", "missing_order_id", "incomplete_add", "empty_modify",
              "missing_quantity", "unknown_action"}

MutIssues(e) ==
  {code \in IssueCode :
     \/ code = "clear_has_order_fields" /\ e.action = Clear /\ OrderFields(e) # {}
     \/ code = "missing_order_id" /\ e.action # Clear /\ e.order = {}
     \/ code = "incomplete_add" /\ e.action = Add /\ {} \in {e.side, e.price, e.quantity}
     \/ code = "missing_quantity" /\ e.action \in {Cancel, Execute} /\ e.quantity = {}
     \/ code = "unknown_action" /\ e.action \notin MboAction}

\* validate(MboEvent): the issues it reports.
Issues(e) ==
  {code \in IssueCode :
     \/ code = "clear_has_order_fields" /\ e.action = Clear /\ OrderFields(e) # {}
     \/ code = "missing_order_id" /\ e.action # Clear /\ e.order = {}
     \/ code = "incomplete_add" /\ e.action = Add /\ {} \in {e.side, e.price, e.quantity}
     \/ code = "empty_modify" /\ e.action = Modify /\ e.side \union e.price \union e.quantity = {}
     \/ code = "missing_quantity" /\ e.action \in {Cancel, Execute} /\ e.quantity = {}
     \/ code = "unknown_action" /\ e.action \notin MboAction}

IsValid(e) == Issues(e) = {}

\* append(MboEvent) throws on every event that is none of these.
Complete(e) ==
  \/ e.action = Add /\ {} \notin {e.order, e.side, e.price, e.quantity}
  \/ e.action = Modify /\ e.order # {} /\ e.side \union e.price \union e.quantity # {}
  \/ e.action \in {Cancel, Execute} /\ {} \notin {e.order, e.quantity}
  \/ e.action = Clear /\ OrderFields(e) = {}

\* The typed event append() makes of it: a cancel and an execution have no
\* side and no price, whatever the event carried.
Written(e) ==
  IF e.action \in {Cancel, Execute} THEN [e EXCEPT !.side = {}, !.price = {}] ELSE e

-----------------------------------------------------------------------------
\* A bit mask of mbo_detail; the action is in the three bits below them.
ReceivePresent == 8
SequencePresent == 16
ChannelPresent == 32
OrderPresent == 64
SidePresent == 128
PricePresent == 256
QuantityPresent == 512
SellSide == 1024

Has(control, mask) == (control \div mask) % 2 = 1

Mask(optional, mask) == IF optional # {} THEN mask ELSE 0

MutEncodeControl(e) ==
  (e.action % 8)
    + Mask(e.receive, ReceivePresent) + Mask(e.sequence, SequencePresent)
    + Mask(e.channel, ChannelPresent) + Mask(e.order, OrderPresent)
    + Mask(e.side, SidePresent) + Mask(e.price \ {0}, PricePresent)
    + Mask(e.quantity, QuantityPresent) + Mask(e.side \intersect {Sell}, SellSide)

EncodeControl(e) ==
  (e.action % 8)
    + Mask(e.receive, ReceivePresent) + Mask(e.sequence, SequencePresent)
    + Mask(e.channel, ChannelPresent) + Mask(e.order, OrderPresent)
    + Mask(e.side, SidePresent) + Mask(e.price, PricePresent)
    + Mask(e.quantity, QuantityPresent) + Mask(e.side \intersect {Sell}, SellSide)

\* MboRecord: the slots, whatever a program wrote there.
MboRecord ==
  [receive : Int, sequence : Nat, channel : Nat, order : Nat, price : Int, quantity : Int,
   control : Nat]

\* The slot of an absent field holds zero.
Slot(optional) == IF optional = {} THEN 0 ELSE CHOOSE v \in optional : TRUE

RecordOf(e) ==
  [receive |-> Slot(e.receive), sequence |-> Slot(e.sequence), channel |-> Slot(e.channel),
   order |-> Slot(e.order), price |-> Slot(e.price), quantity |-> Slot(e.quantity),
   control |-> EncodeControl(e)]

\* MboRecordView::event(), and event_from_record() of a batch: a slot counts
\* when its bit is set.
Present(record, mask, value) == {v \in {value} : Has(record.control, mask)}

EventOf(record, stream) ==
  [action   |-> record.control % 8,
   stream   |-> stream,
   receive  |-> Present(record, ReceivePresent, record.receive),
   sequence |-> Present(record, SequencePresent, record.sequence),
   channel  |-> Present(record, ChannelPresent, record.channel),
   order    |-> Present(record, OrderPresent, record.order),
   side     |-> Present(record, SidePresent, IF Has(record.control, SellSide) THEN Sell ELSE Buy),
   price    |-> Present(record, PricePresent, record.price),
   quantity |-> Present(record, QuantityPresent, record.quantity)]

\* The constructors of OrderId and Quantity throw on the other values.
Decodable(record) ==
  /\ Has(record.control, OrderPresent) => record.order # 0
  /\ Has(record.control, QuantityPresent) => record.quantity >= 0

\* The typed views of a record that are not std::nullopt, by their action.
TypedViews(e) ==
  {a \in MboAction :
     /\ e.action = a
     /\ a = Add => {} \notin {e.order, e.side, e.price, e.quantity}
     /\ a = Modify => e.order # {} /\ e.side \union e.price \union e.quantity # {}
     /\ a \in {Cancel, Execute} => {} \notin {e.order, e.quantity}}
=============================================================================
