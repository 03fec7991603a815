---------------------------- MODULE MCDataTypes ---------------------------
(***************************************************************************)
(* The data types of quant/data for TLC: MboBuffer, ReferenceData and      *)
(* Decimals, and with them SubtractLoop.  They share no state, so a caller *)
(* works with one of them while the others are as they began.              *)
(*                                                                         *)
(* MboBuffer gets every combination of action, present order fields and    *)
(* side, with headers whose optional fields are absent, zero or negative,  *)
(* and foreign rows with every control word and slots at the ends of the   *)
(* checks.  ReferenceData gets every version over five instants, two       *)
(* venues and one source.  Decimals gets the integers of -14..13 and       *)
(* powers of three, which divide neither limit, as the powers of ten do    *)
(* not: every coefficient at every scale, every pair of values in a sum.   *)
(* SubtractLoop gets every request and every set of at most three covered  *)
(* ranges.                                                                 *)
(***************************************************************************)
EXTENDS MboBuffer, ReferenceData, Decimals, SubtractLoop

Event(stream, action, header, order, side, price, quantity) ==
  [action |-> action, stream |-> stream, receive |-> header[1], sequence |-> header[2],
   channel |-> header[3], order |-> order, side |-> side, price |-> price, quantity |-> quantity]

MCEvents ==
  { Event(1, a, <<{-7}, {0}, {}>>, o, s, p, q) :
      a \in 0..5, o \in {{}, {1}}, s \in {{}, {Buy}, {Sell}}, p \in {{}, {0}}, q \in {{}, {0}} }
  \union
  { Event(1, Add, h, {1}, {Sell}, {-1}, {2}) :
      h \in {<<{}, {}, {}>>, <<{0}, {}, {0}>>, <<{}, {3}, {}>>, <<{}, {}, {0}>>} }
  \union { Event(2, a, <<{}, {}, {}>>, {1}, {Buy}, {1}, {1}) : a \in {Add, Cancel} }

Row(control, order, quantity) ==
  [null |-> FALSE,
   record |-> [receive |-> 5, sequence |-> 6, channel |-> 7, order |-> order, price |-> 8,
               quantity |-> quantity, control |-> control]]

MCOtherBatches ==
  { <<Row(c, o, q)>> : c \in 0..2047, o \in {0, 1}, q \in {-1, 2} }
  \union { <<Row(Clear, 0, 0), [Row(Clear, 0, 0) EXCEPT !.null = TRUE]>>,
           <<Row(Clear, 9, 9), Row(Modify + OrderPresent + SellSide + SidePresent, 9, 9)>> }

MCMinRaw == -14
MCPower == [i \in 0..2 |-> 3^i]
MCCanonicalScale == [price |-> 2, quantity |-> 1, money |-> 0]
MCCoefficients == MCMinRaw..13

-----------------------------------------------------------------------------
\* Bound: at most three covered ranges per call.
MCCoveredSets == {{}} \union {{a, b, c} : a, b, c \in TimeRange}

\* Of the calls of subtract(), the one that is left alone while a type is at work.
SubtractIdle == requested.start = MinTime /\ requested.end = MaxTime /\ covered = {}

DecimalIdle == DecimalInit /\ held.type = "price"

DataInit == Init /\ ReferenceInit /\ DecimalInit /\ SubtractInit /\ (SubtractIdle \/ DecimalIdle)

DataNext ==
  \/ ReferenceInit /\ DecimalIdle /\ SubtractIdle /\ SubtractInit /\ Next
     /\ UNCHANGED <<referenceVars, decimalVars, subtractVars>>
  \/ Init /\ DecimalIdle /\ SubtractIdle /\ SubtractInit /\ ReferenceNext
     /\ UNCHANGED <<vars, decimalVars, subtractVars>>
  \/ Init /\ ReferenceInit /\ SubtractIdle /\ SubtractInit /\ DecimalNext
     /\ UNCHANGED <<vars, referenceVars, subtractVars>>
  \/ Init /\ ReferenceInit /\ DecimalIdle /\ SubtractNext
     /\ UNCHANGED <<vars, referenceVars, decimalVars>>

DataSpec == DataInit /\ [][DataNext]_<<vars, referenceVars, decimalVars, subtractVars>>
=============================================================================
