-------------------------------- MODULE Money --------------------------------
(***************************************************************************)
(* The value object Money: whole cents of a currency, made by arithmetic   *)
(* on decimals that is rounded half up; and the way of an amount from a    *)
(* request to the payments table and back.                                 *)
(*                                                                         *)
(* Every scale in CURRENCY_SCALE is 0.01, so an amount is its number of    *)
(* cents; a decimal factor is a fraction.  The 28 digits of the decimal    *)
(* context are more than amounts of 18 digits and prices need: division is *)
(* taken as exact before it is rounded.                                    *)
(***************************************************************************)
EXTENDS Integers

CONSTANTS
  Currency,  \* the keys of CURRENCY_SCALE
  Cents,     \* the other operand of an addition or subtraction, in cents
  Factor,    \* decimal factors: [num, den]
  CentsEnd,  \* 10^18: the first number of cents with more than max_digits
  MaxCents   \* bound: amounts that a calculation goes on with

ASSUME MoneyAssumption ==
  /\ Cents \subseteq Nat
  /\ Factor \subseteq [num : Int, den : Nat \ {0}]
  /\ CentsEnd \in Nat
  /\ MaxCents \in Nat

Amount == [cents : Nat, currency : Currency]

\* What a statement that raises ValidationError leaves.
Rejected == [cents |-> -1]

\* Faulty variants, each the slip a mutant puts in place of the definition
\* after it: ROUND_DOWN or ROUND_UP, no test of the sign.
RoundDown(n, d) == n \div d
RoundUp(n, d) == (n + d - 1) \div d

\* quantize with ROUND_HALF_UP of n/d cents.
HalfUp(n, d) == (2 * n + d) \div (2 * d)

MakeUnsigned(n, d, c) == [cents |-> HalfUp(n, d), currency |-> c]

\* Money(amount, currency) for an amount of n/d cents: the sign is tested
\* before the rounding.
Make(n, d, c) == IF n < 0 THEN Rejected ELSE [cents |-> HalfUp(n, d), currency |-> c]

SameCurrency(a, b) == a.currency = b.currency

Plus(a, b) == IF SameCurrency(a, b) THEN Make(a.cents + b.cents, 1, a.currency) ELSE Rejected
Minus(a, b) == IF SameCurrency(a, b) THEN Make(a.cents - b.cents, 1, a.currency) ELSE Rejected

Times(a, f) == Make(a.cents * f.num, f.den, a.currency)

\* A divisor may be negative: only zero passes the sign test then.
DividedBy(a, f) ==
  CASE f.num = 0 -> Rejected
    [] f.num > 0 -> Make(a.cents * f.den, f.num, a.currency)
    [] f.num < 0 -> Make(-(a.cents * f.den), -f.num, a.currency)

-----------------------------------------------------------------------------
(* From the request to the response.                                       *)

\* Faulty: no limit on the decimal places.
AcceptedAnyPlaces(n, d) == n > 0 /\ n < CentsEnd * d

\* Field(gt=0, max_digits=18, decimal_places=2) on n/d cents; trailing zeros
\* do not count as places.
Accepted(n, d) == n > 0 /\ n % d = 0 /\ n < CentsEnd * d

\* Numeric(18, 2): PostgreSQL refuses more digits.
Column(a) == IF a # Rejected /\ a.cents < CentsEnd THEN a ELSE Rejected

\* The row of a payment made with an accepted amount.
Stored(n, d, c) == Column(Make(n, d, c))

\* composite() makes a Money of the columns of a row, which PaymentResponse
\* then shows.
Loaded(row) == IF row = Rejected THEN Rejected ELSE Make(row.cents, 1, row.currency)

-----------------------------------------------------------------------------
VARIABLE held  \* the amount that a calculation has reached

MoneyTypeOK == held \in Amount

MoneyInit == \E c \in Currency : held = [cents |-> 0, currency |-> c]

\* A statement that raises leaves the amount as it is: Money is frozen.
Becomes(result) == held' = IF result = Rejected THEN held ELSE result

MoneyNext ==
  /\ \/ \E n \in Cents, c \in Currency :
          LET other == [cents |-> n, currency |-> c]
          IN  Becomes(Plus(held, other)) \/ Becomes(Minus(held, other))
     \/ \E f \in Factor : Becomes(Times(held, f)) \/ Becomes(DividedBy(held, f))
  /\ held'.cents <= MaxCents

MoneySpec == MoneyInit /\ [][MoneyNext]_held

-----------------------------------------------------------------------------
Distance(n, m) == IF n < m THEN m - n ELSE n - m

\* What rounding means: no whole number of cents is nearer to n/d, and of
\* two that are equally near the larger is taken.
Nearest(n, d) ==
  CHOOSE c \in 0..n : \A other \in 0..n :
    \/ Distance(c * d, n) < Distance(other * d, n)
    \/ Distance(c * d, n) = Distance(other * d, n) /\ c >= other

\* A product is the cent nearest to the exact one, however often the amount
\* has been rounded on its way here.
ProductsAreNearest ==
  \A f \in Factor : f.num >= 0 =>
    Times(held, f).cents = Nearest(held.cents * f.num, f.den)

\* An amount split into k equal shares is at most half a cent a share away
\* from their sum: no money is made or lost beyond the rounding.
SharesAddUp ==
  \A k \in 1..MaxCents :
    2 * Distance(k * DividedBy(held, [num |-> k, den |-> 1]).cents, held.cents) <= k

\* An amount that the request validation lets through, written with up to
\* two places more than cents, is stored and shown exactly as it was sent: it
\* is not rounded, not zero, and not refused by the column.
StoredAsSent ==
  \A d \in {1, 10, 100}, r \in 0..99 :
    LET n == held.cents * d + r
    IN  r < d /\ Accepted(n, d) =>
          LET shown == Loaded(Stored(n, d, held.currency))
          IN  shown # Rejected /\ shown.cents > 0 /\ shown.cents * d = n
=============================================================================
