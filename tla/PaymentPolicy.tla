--------------------------- MODULE PaymentPolicy ---------------------------
(***************************************************************************)
(* What the client is willing to sign for: the choice of a payment scheme  *)
(* among those a 402 answer accepts (pick_scheme) and the validations made *)
(* on it before a transfer is signed (sign_payment_for_402_with_amount).   *)
(*                                                                         *)
(* A 402 body is abstracted to its accepts list.  An amount is the text    *)
(* the gateway sent: a natural number when it parses as a u64, and None    *)
(* when it does not.                                                       *)
(***************************************************************************)
EXTENDS Integers, Sequences

CONSTANTS
  None,               \* the absent value of an Option, and an unparsable amount
  U64Max,             \* the largest u64
  Recipients,         \* wallet addresses that may appear in pay_to
  ExpectedRecipient,  \* config.expected_recipient, or None
  MaxPayment          \* config.max_payment_amount, or None

ASSUME PolicyAssumption ==
  /\ U64Max \in Nat
  /\ None \notin Nat
  /\ None \notin Recipients
  /\ ExpectedRecipient \in Recipients \union {None}
  /\ MaxPayment \in (0 .. U64Max) \union {None}

Amount == 0 .. U64Max

\* One entry of PaymentRequired.accepts.
Accept == [scheme : {"exact", "escrow"}, network : {"solana", "other"},
           asset : {"usdc", "other"}, payTo : Recipients,
           amount : Amount \union {None}]

\* The only combination the client can sign for: an exact transfer of USDC on
\* Solana (prefer_escrow is read and ignored).
Compatible(a) == /\ a.scheme = "exact"
                 /\ a.network = "solana"
                 /\ a.asset = "usdc"

HasCompatible(accepts) == \E i \in DOMAIN accepts : Compatible(accepts[i])

\* The first compatible entry of the list.
PickScheme(accepts) ==
  accepts[CHOOSE i \in DOMAIN accepts :
            /\ Compatible(accepts[i])
            /\ \A j \in DOMAIN accepts : Compatible(accepts[j]) => i <= j]

ValidationErrors == {"NoCompatibleScheme", "RecipientMismatch", "AmountExceedsMax"}

\* Mutant: the recipient is trusted.
ValidateAmountOnly(accepts) ==
  IF ~HasCompatible(accepts) THEN "NoCompatibleScheme"
  ELSE IF PickScheme(accepts).amount = None THEN "ParseError"
  ELSE IF MaxPayment # None /\ PickScheme(accepts).amount > MaxPayment
    THEN "AmountExceedsMax"
  ELSE "valid"

\* "valid", or the error of the first validation that fails: scheme, recipient,
\* amount syntax, amount limit, in this order.
Validate(accepts) ==
  IF ~HasCompatible(accepts) THEN "NoCompatibleScheme"
  ELSE LET a == PickScheme(accepts) IN
       IF ExpectedRecipient # None /\ a.payTo # ExpectedRecipient
         THEN "RecipientMismatch"
       ELSE IF a.amount = None
         THEN "ParseError"
       ELSE IF MaxPayment # None /\ a.amount > MaxPayment
         THEN "AmountExceedsMax"
       ELSE "valid"

\* Mutants: the sum wraps around; the sum leaves the u64 range.
WrappingAdd(m, n) == (m + n) % (U64Max + 1)
PlainAdd(m, n) == m + n

\* u64::saturating_add of two u64 values.
SaturatingAdd(m, n) == IF m + n > U64Max THEN U64Max ELSE m + n
=============================================================================
