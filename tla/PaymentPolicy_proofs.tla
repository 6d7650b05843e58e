----------------------- MODULE PaymentPolicy_proofs ------------------------
(***************************************************************************)
(* Lemmas about the choice and the validation of a payment scheme.         *)
(***************************************************************************)
EXTENDS PaymentPolicy, TLAPS, WellFoundedInduction

\* A nonempty set of naturals has a least element.
LEMMA LeastNatural ==
  ASSUME NEW T \in SUBSET Nat, T # {}
  PROVE  \E x \in T : \A y \in T : x <= y
<1> DEFINE R == OpToRel(<, Nat)
<1>1. \E x \in T : \A y \in T : <<y, x>> \notin R
  BY WFMin, NatLessThanWellFounded, Zenon
<1>2. ASSUME NEW x \in T, NEW y \in T, y < x PROVE <<y, x>> \in R
  BY <1>2, Z3 DEF OpToRel
<1>3. \E x \in T : \A y \in T : ~(y < x)
  BY <1>1, <1>2, Zenon
<1> QED
  BY <1>3

\* The entry pick_scheme takes is one of the list that the client can sign for,
\* and no entry before it can be.
THEOREM PickSchemeIsFirst ==
  ASSUME NEW accepts \in Seq(Accept), HasCompatible(accepts)
  PROVE  /\ Compatible(PickScheme(accepts))
         /\ PickScheme(accepts) \in Accept
         /\ \E i \in DOMAIN accepts :
              /\ PickScheme(accepts) = accepts[i]
              /\ \A j \in 1 .. i - 1 : ~Compatible(accepts[j])
<1> DEFINE T == {i \in DOMAIN accepts : Compatible(accepts[i])}
           First(i) == /\ Compatible(accepts[i])
                       /\ \A j \in DOMAIN accepts : Compatible(accepts[j]) => i <= j
<1>1. T \in SUBSET Nat /\ T # {}
  BY DEF HasCompatible
<1>2. \E x \in T : \A y \in T : x <= y
  BY <1>1, LeastNatural
<1>3. \E i \in DOMAIN accepts : First(i)
  BY <1>2
<1>4. PICK i \in DOMAIN accepts : PickScheme(accepts) = accepts[i] /\ First(i)
  BY <1>3, Zenon DEF PickScheme
<1>5. ASSUME NEW j \in 1 .. i - 1 PROVE j \in DOMAIN accepts /\ ~(i <= j)
  OBVIOUS
<1> QED
  BY <1>4, <1>5

\* What signing relies on: a list that Validate accepts leads to an entry the
\* client can sign for, with a parsable amount, within the configured limits.
THEOREM ValidOffer ==
  ASSUME NEW accepts \in Seq(Accept), Validate(accepts) = "valid"
  PROVE  LET a == PickScheme(accepts) IN
         /\ a.payTo \in Recipients
         /\ a.amount \in Amount
         /\ \E i \in DOMAIN accepts : a = accepts[i]
         /\ Compatible(a)
         /\ ExpectedRecipient # None => a.payTo = ExpectedRecipient
         /\ MaxPayment # None => a.amount <= MaxPayment
<1> DEFINE a == PickScheme(accepts)
<1>1. HasCompatible(accepts)
  BY DEF Validate
<1>2. /\ \E i \in DOMAIN accepts : a = accepts[i]
      /\ Compatible(a)
      /\ a \in Accept
  BY <1>1, PickSchemeIsFirst
<1>3. /\ a.amount # None
      /\ ExpectedRecipient # None => a.payTo = ExpectedRecipient
      /\ ~(MaxPayment # None /\ a.amount > MaxPayment)
  BY <1>1, Zenon DEF Validate
<1>4. a.payTo \in Recipients /\ a.amount \in Amount
  BY <1>2, <1>3 DEF Accept
<1>5. MaxPayment # None => a.amount <= MaxPayment
  BY <1>3, <1>4, PolicyAssumption DEF Amount
<1> HIDE DEF a
<1> QED
  BY <1>2, <1>3, <1>4, <1>5, Zenon DEF a

\* Adding with saturation stays a u64 and never exceeds the true sum.
LEMMA SaturatingAddProperties ==
  ASSUME NEW m \in Nat, NEW n \in Nat
  PROVE  /\ SaturatingAdd(m, n) \in Amount
         /\ SaturatingAdd(m, n) <= m + n
         /\ SaturatingAdd(m, n) <= U64Max
         /\ SaturatingAdd(m, n) < U64Max => SaturatingAdd(m, n) = m + n
         /\ SaturatingAdd(SaturatingAdd(m, 0), n) = SaturatingAdd(m + n, 0)
  BY PolicyAssumption, SMT DEF SaturatingAdd, Amount
=============================================================================
