----------------------------- MODULE OrderRules -----------------------------
(***************************************************************************)
(* The rules an order is checked, priced and numbered by, as operators: no *)
(* state.  Texts are reduced to what the rules ask of them: their length   *)
(* in characters and in bytes, and whether a name consists of letters,     *)
(* spaces, hyphens and apostrophes.  An optional field is a set with at    *)
(* most one element.  Money is counted in tenths of a cent.                *)
(***************************************************************************)
EXTENDS Integers, Sequences, SequencesExt

AllOrderTypes == {"dine_in", "takeout", "delivery"}

-----------------------------------------------------------------------------
(* ValidateCreateOrderRequest: the keys of v.Errors.                       *)

(* Validator.Check.                                                        *)
Check(ok, key) == IF ok THEN {} ELSE {key}

isValidCustomerName(name) == name.chars \in 1 .. 100 /\ name.plain

(* The slip of a case that forgets the field of another type.              *)
LenientOrderType(req) ==
    CASE req.type = "dine_in"  -> Check(req.table # {} /\ req.table \subseteq 1 .. 100, "table_number")
      [] req.type = "delivery" -> Check(req.address # {}, "delivery_address")
      [] OTHER                 -> {}

(* The length of an address is counted in bytes.                           *)
vaildateOrdertype(req) ==
    CASE req.type = "dine_in"  -> Check(req.table # {} /\ req.table \subseteq 1 .. 100, "table_number")
                                  \cup Check(req.address = {}, "delivery_address")
      [] req.type = "delivery" -> Check(req.address # {} /\ \A a \in req.address : a.bytes >= 10,
                                        "delivery_address")
                                  \cup Check(req.table = {}, "table_number")
      [] req.type = "takeout"  -> Check(req.table = {}, "table_number")
                                  \cup Check(req.address = {}, "delivery_address")
      [] OTHER                 -> {}

MinPrice == 10
MaxPrice == 999990

ItemErrors(item) ==
    Check(item.chars \in 1 .. 50, "item.name")
    \cup Check(item.quantity \in 1 .. 10, "item.quantity")
    \cup Check(item.price >= MinPrice /\ item.price <= MaxPrice, "item.Price")

ValidateCreateOrderRequest(req) ==
    Check(isValidCustomerName(req.customer), "customer_name")
    \cup Check(req.type \in AllOrderTypes, "order_type")
    \cup vaildateOrdertype(req)
    \cup Check(Len(req.items) \in 1 .. 20, "items")
    \cup UNION {ItemErrors(req.items[i]) : i \in DOMAIN req.items}

-----------------------------------------------------------------------------
(* CalucalteTotalAmount and CalculatePriority.                             *)

(* The slip of a sum that counts every item once.                          *)
TotalWithoutQuantity(items) == FoldLeft(LAMBDA sum, item : sum + item.price, 0, items)

(* The loop of CalucalteTotalAmount, without the error of its floats.      *)
ExactTotal(items) ==
    FoldLeft(LAMBDA sum, item : sum + item.price * item.quantity, 0, items)

(* A sum of float64 is exact if its terms are multiples of an eighth of a  *)
(* dollar.  One price of whole cents times a quantity is exact wherever    *)
(* the code compares it.                                                   *)
SumIsExact(items) ==
    \/ \A i \in DOMAIN items : items[i].price % 125 = 0
    \/ Len(items) = 1 /\ \A i \in DOMAIN items : items[i].price % 10 = 0

(* Any other can miss the exact sum, by far less than a tenth of a cent:   *)
(* above it (1), below it (-1) or not (0).                                 *)
RoundingErrors(items) == IF SumIsExact(items) THEN {0} ELSE {-1, 0, 1}

TotalAmounts(items) == {[exact |-> ExactTotal(items), err |-> e] : e \in RoundingErrors(items)}

Above(total, dollars) ==
    total.exact > 1000 * dollars \/ (total.exact = 1000 * dollars /\ total.err = 1)

(* The slip of >= in place of >.                                           *)
PriorityFromBoundary(total) ==
    CASE total.exact >= 100000 -> 10
      [] total.exact >= 50000 /\ total.exact < 100000 -> 5
      [] OTHER -> 1

CalculatePriority(total) ==
    CASE Above(total, 100) -> 10
      [] Above(total, 50) /\ ~Above(total, 100) -> 5
      [] OTHER -> 1

(* The columns decimal(10,2) and decimal(8,2) round to whole cents, half a *)
(* cent away from zero.                                                    *)
Cents(amount, err) ==
    IF amount % 10 = 5 /\ err = -1 THEN amount \div 10 ELSE (amount + 5) \div 10

-----------------------------------------------------------------------------
(* SetNumber: the digits after ORD_<date>_.                                *)

(* The decimal digits of a number.                                         *)
Digits[n \in Nat] == IF n < 10 THEN <<n>> ELSE Append(Digits[n \div 10], n % 10)

(* "%0<w>d": at least w digits, more if the number needs them.             *)
Padded(n, w) == [i \in 1 .. w - Len(Digits[n]) |-> 0] \o Digits[n]

(* The slip of a fixed field of three digits.                              *)
LastThreeDigits(sequence) == Padded(sequence % 1000, 3)

SetNumber(sequence) ==
    Padded(sequence, IF sequence > 9999 THEN 5 ELSE IF sequence > 999 THEN 4 ELSE 3)

(* What a sequence of digits reads as.                                     *)
ValueOf(digits) == FoldLeft(LAMBDA n, d : 10 * n + d, 0, digits)
=============================================================================
