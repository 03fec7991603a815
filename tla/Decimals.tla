----------------------------- MODULE Decimals -----------------------------
(***************************************************************************)
(* Price, Quantity and Money (quant/data/value_types.hpp): one signed      *)
(* integer at a fixed decimal scale per type, made from a coefficient and  *)
(* a scale, added and subtracted with checks.  The width of the integer is *)
(* given by its limits and the powers by their table, so a run shrinks     *)
(* both; an expression whose value the integer cannot hold is undefined    *)
(* behaviour and shows as the outcome "undefined".                         *)
(*                                                                         *)
(* A caller holds a value of one type and replaces it by the result of an  *)
(* operation; an exception leaves what it holds.                           *)
(***************************************************************************)
EXTENDS Integers

CONSTANTS MinRaw, MaxRaw,  \* numeric_limits<int64_t>
          MaxScale,        \* 18, the largest scale of the table of powers
          Power,           \* decimal_powers_of_ten
          CanonicalScale,  \* type -> scale: 9, 6 and 2
          Currencies,
          Coefficients     \* bound: coefficients a run passes to from_decimal

Type == {"price", "quantity", "money"}

Raw == MinRaw..MaxRaw

ASSUME WidthAssumption ==
  /\ MaxRaw \in Nat \ {0}
  /\ MinRaw = -MaxRaw - 1
  /\ Coefficients \subseteq Raw
  /\ MaxScale \in Nat
  /\ CanonicalScale \in [Type -> 0..MaxScale]

ASSUME PowerAssumption ==
  /\ Power \in [0..MaxScale -> 1..MaxRaw]
  /\ \A i, j \in 0..MaxScale : i + j <= MaxScale => Power[i + j] = Power[i] * Power[j]

\* Division of C++ truncates towards zero; the divisors here are positive.
TruncDiv(a, b) == IF a >= 0 THEN a \div b ELSE -((-a) \div b)

Remainder(a, b) == a - b * TruncDiv(a, b)

\* What a call ends with: a value, an exception, or undefined behaviour.
Throw(exception) == [outcome |-> exception, raw |-> 0]

Value(x) == IF x \in Raw THEN [outcome |-> "value", raw |-> x] ELSE Throw("undefined")

\* checked_add(): the limit is computed only on the side of the sign of rhs.
CheckedAdd(lhs, rhs) ==
  LET limit == IF rhs > 0 THEN MaxRaw - rhs ELSE MinRaw - rhs
  IN  IF rhs # 0 /\ limit \notin Raw THEN Throw("undefined")
      ELSE IF (rhs > 0 /\ lhs > limit) \/ (rhs < 0 /\ lhs < limit) THEN Throw("overflow_error")
      ELSE Value(lhs + rhs)

MutCheckedSubtract(lhs, rhs) ==
  IF -rhs \in Raw THEN CheckedAdd(lhs, -rhs) ELSE Throw("undefined")

\* checked_subtract()
CheckedSubtract(lhs, rhs) ==
  LET limit == IF rhs > 0 THEN MinRaw + rhs ELSE MaxRaw + rhs
  IN  IF rhs # 0 /\ limit \notin Raw THEN Throw("undefined")
      ELSE IF (rhs > 0 /\ lhs < limit) \/ (rhs < 0 /\ lhs > limit) THEN Throw("overflow_error")
      ELSE Value(lhs - rhs)

MutUpscale(coefficient, factor) ==
  IF coefficient >= TruncDiv(MaxRaw, factor) \/ coefficient <= TruncDiv(MinRaw, factor)
  THEN Throw("overflow_error")
  ELSE Value(coefficient * factor)

\* normalize_decimal() to the same scale, a finer one, or a coarser one.
Upscale(coefficient, factor) ==
  IF coefficient > TruncDiv(MaxRaw, factor) \/ coefficient < TruncDiv(MinRaw, factor)
  THEN Throw("overflow_error")
  ELSE Value(coefficient * factor)

Downscale(coefficient, divisor) ==
  IF Remainder(coefficient, divisor) # 0 THEN Throw("invalid_argument")
  ELSE Value(TruncDiv(coefficient, divisor))

Normalize(coefficient, scale, target) ==
  IF scale > MaxScale THEN Throw("invalid_argument")
  ELSE IF scale = target THEN Value(coefficient)
  ELSE IF scale < target THEN Upscale(coefficient, Power[target - scale])
  ELSE Downscale(coefficient, Power[scale - target])

\* from_raw() of a type: a quantity is never negative.
FromRaw(type, result) ==
  IF type = "quantity" /\ result.outcome = "value" /\ result.raw < 0
  THEN Throw("invalid_argument")
  ELSE result

\* operator+ and operator- of a type, once the currencies agree.
Sum(type, lhs, rhs) == FromRaw(type, CheckedAdd(lhs, rhs))

Difference(type, lhs, rhs) ==
  LET result == CheckedSubtract(lhs, rhs)
  IN  IF type = "quantity" /\ result.outcome = "value" /\ result.raw < 0
      THEN Throw("overflow_error")
      ELSE FromRaw(type, result)

RawOf(type) == IF type = "quantity" THEN 0..MaxRaw ELSE Raw

\* Only money has a currency.
CurrenciesOf(type) == IF type = "money" THEN Currencies ELSE {"none"}
-----------------------------------------------------------------------------
VARIABLES
  held,     \* [type, currency, raw]: the value the caller holds
  outcome,  \* how the last operation ended
  total,    \* auxiliary: the exact value of held, in units of the finest scale
  asked     \* auxiliary: the exact result of the last operation in these units;
            \* empty when the operation has none

decimalVars == <<held, outcome, total, asked>>

\* One unit of a type in units of the finest scale.
Unit(type) == Power[MaxScale - CanonicalScale[type]]

DecimalInit ==
  /\ \E type \in Type : \E currency \in CurrenciesOf(type) :
       held = [type |-> type, currency |-> currency, raw |-> 0]
  /\ outcome = "value"
  /\ total = 0
  /\ asked = {0}

\* The end of an operation whose exact results are the members of exact.
Ends(currency, result, exact) ==
  /\ outcome' = result.outcome
  /\ asked' = exact
  /\ \/ /\ result.outcome = "value"
        /\ held' = [held EXCEPT !.currency = currency, !.raw = result.raw]
        /\ total' \in exact
     \/ /\ result.outcome # "value"
        /\ UNCHANGED <<held, total>>

\* from_decimal() of a type.
FromDecimal(currency, coefficient, scale) ==
  Ends(currency,
       FromRaw(held.type, Normalize(coefficient, scale, CanonicalScale[held.type])),
       IF scale > MaxScale THEN {} ELSE {coefficient * Power[MaxScale - scale]})

\* operator+ and operator-; require_same_currency() throws first.
AddTo(currency, raw) ==
  IF currency # held.currency
  THEN Ends(held.currency, Throw("invalid_argument"), {})
  ELSE Ends(held.currency, Sum(held.type, held.raw, raw), {(held.raw + raw) * Unit(held.type)})

SubtractFrom(currency, raw) ==
  IF currency # held.currency
  THEN Ends(held.currency, Throw("invalid_argument"), {})
  ELSE Ends(held.currency, Difference(held.type, held.raw, raw),
            {(held.raw - raw) * Unit(held.type)})

DecimalNext ==
  \E currency \in CurrenciesOf(held.type) :
    \/ \E coefficient \in Coefficients, scale \in 0..(MaxScale + 1) :
         FromDecimal(currency, coefficient, scale)
    \/ \E raw \in RawOf(held.type) : AddTo(currency, raw) \/ SubtractFrom(currency, raw)

DecimalSpec == DecimalInit /\ [][DecimalNext]_decimalVars
-----------------------------------------------------------------------------
DecimalTypeOK ==
  /\ held \in [type : Type, currency : Currencies \cup {"none"}, raw : Raw]
  /\ held.currency \in CurrenciesOf(held.type)
  /\ held.raw \in RawOf(held.type)
  /\ outcome \in {"value", "overflow_error", "invalid_argument", "undefined"}
  /\ total \in Int
  /\ asked \subseteq Int

\* Whatever was added and subtracted before, the value held is exact: nothing
\* was rounded, nothing wrapped, and a value that was refused left no trace.  No
\* expression on the way, the checks themselves included, leaves the width.
HeldIsExact == outcome # "undefined" /\ held.raw * Unit(held.type) = total

DecimalInv == DecimalTypeOK /\ HeldIsExact

\* An operation is refused only where the type has no value for its result: the
\* checks are not stricter than the width, the scale and the sign demand, at
\* either end of the integer and for either sign of a remainder.
RefusedOnlyIfImpossible ==
  outcome # "value" =>
    \A exact \in asked : \A raw \in RawOf(held.type) : raw * Unit(held.type) # exact
=============================================================================
