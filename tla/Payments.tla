------------------------------ MODULE Payments ------------------------------
(***************************************************************************)
(* The paid request of SolvelaClient::chat: the 402 handshake              *)
(* (send_chat_request, pay_and_resend_with_amount) and the quality retries *)
(* (retry_if_degraded), for calls that run concurrently on one client and  *)
(* so spend from one wallet.                                               *)
(*                                                                         *)
(* Every await of the code is a step of its own.  The gateway, the Solana  *)
(* RPC node and the chain are external: the gateway may give any answer to *)
(* any POST, may settle a payment it has received at any later time, and   *)
(* the latest blockhash moves on independently of the client.  A call may  *)
(* be dropped at any await, as an axum handler is when its caller hangs up.*)
(***************************************************************************)
EXTENDS PaymentPolicy, Quality

CONSTANTS
  Calls,              \* the calls of send_chat_request + retry_if_degraded
  Offers,             \* the accepts lists that 402 answers may carry
  Answers,            \* the answers of the model that 200 may carry
  QualityCheck,       \* config.enable_quality_check
  MaxQualityRetries,  \* config.max_quality_retries
  InitialFunds,       \* USDC of the wallet on the chain at the start
  MaxBlockhash        \* bound: how often the latest blockhash may change

ASSUME PaymentsAssumption ==
  /\ IsFiniteSet(Calls)
  /\ Offers \subseteq Seq(Accept)
  /\ Answers \subseteq Answer
  /\ None \notin Answers
  /\ QualityCheck \in BOOLEAN
  /\ MaxQualityRetries \in Nat
  /\ InitialFunds \in Nat
  /\ MaxBlockhash \in Nat

VARIABLES
  pc,         \* where each call is
  attempt,    \* quality retries begun by the call
  total,      \* total_paid_atomic of the call
  response,   \* the last answer parsed by the call
  offer,      \* the accepts list being paid
  header,     \* the transfer signed for the PAYMENT-SIGNATURE header, or None
  outcome,    \* what the call returned
  posts,      \* history: POSTs sent to the gateway by the call
  spent,      \* history: sum of the transfers the call handed to the gateway
  blockhash,  \* the latest blockhash of the RPC node
  submitted,  \* transfers the gateway has received
  settled,    \* transfers executed on the chain
  funds       \* USDC of the wallet on the chain

local   == <<pc, attempt, total, response, offer, header, outcome>>
history == <<posts, spent>>
chain   == <<blockhash, submitted, settled, funds>>
vars    == <<pc, attempt, total, response, offer, header, outcome,
             posts, spent, blockhash, submitted, settled, funds>>

\* A signed transfer is identified by what is signed: ed25519 signatures are
\* deterministic, and the wallet, mint and program are always the same.
Transfer == [to : Recipients, amount : Amount, blockhash : 0 .. MaxBlockhash]

PC == {"idle", "probe", "sign", "send", "await", "loop", "done"}

Errors == ValidationErrors \union
  {"ParseError", "Gateway", "Network", "Signing", "PaymentRejected",
   "BudgetExceeded", "Dropped"}

Init ==
  /\ pc        = [c \in Calls |-> "idle"]
  /\ attempt   = [c \in Calls |-> 0]
  /\ total     = [c \in Calls |-> 0]
  /\ response  = [c \in Calls |-> None]
  /\ offer     = [c \in Calls |-> <<>>]
  /\ header    = [c \in Calls |-> None]
  /\ outcome   = [c \in Calls |-> "none"]
  /\ posts     = [c \in Calls |-> 0]
  /\ spent     = [c \in Calls |-> 0]
  /\ blockhash = 0
  /\ submitted = {}
  /\ settled   = {}
  /\ funds     = InitialFunds

-----------------------------------------------------------------------------
(* Steps shared by the actions.                                            *)

Goto(c, from, to) == pc[c] = from /\ pc' = [pc EXCEPT ![c] = to]

\* The call returns: r is "ok" or the error, in which case the answer is lost.
Return(c, from, r) ==
  /\ Goto(c, from, "done")
  /\ outcome'  = [outcome EXCEPT ![c] = r]
  /\ response' = [response EXCEPT ![c] = IF r = "ok" THEN @ ELSE None]
  /\ offer'    = [offer EXCEPT ![c] = <<>>]
  /\ header'   = [header EXCEPT ![c] = None]

\* A POST is handed to the HTTP client.
Post(c) == posts' = [posts EXCEPT ![c] = @ + 1]

\* Mutant: the payments of earlier attempts are forgotten.
LastPaymentOnly(c) == PickScheme(offer[c]).amount

\* What total_paid_atomic becomes once the payment is answered: the amount is
\* the one parsed from the accept that was picked.
TotalWith(c) == SaturatingAdd(total[c], PickScheme(offer[c]).amount)

\* Mutant: each retry is compared alone.
PaymentOverCap(c) == /\ attempt[c] > 0
                     /\ MaxPayment # None
                     /\ PickScheme(offer[c]).amount > MaxPayment

\* retry_if_degraded compares the new total with the cap; the first payment
\* of a call is not compared with it again.
OverBudget(c) == /\ attempt[c] > 0
                 /\ MaxPayment # None
                 /\ TotalWith(c) > MaxPayment

-----------------------------------------------------------------------------
(* The unsigned POST: the first one of send_chat_request, and the one that *)
(* retry_if_degraded sends with the retry header.                          *)

Start(c) == /\ Goto(c, "idle", "probe")
            /\ Post(c)
            /\ UNCHANGED <<attempt, total, response, offer, header, outcome,
                           spent, chain>>

\* 200: a free or cached model, nothing is added to the total.
ProbeOk(c) ==
  /\ Goto(c, "probe", "loop")
  /\ \E r \in Answers : response' = [response EXCEPT ![c] = r]
  /\ UNCHANGED <<attempt, total, offer, header, outcome, history, chain>>

\* 402 with a well-formed body.
ProbeDemandsPayment(c) ==
  /\ Goto(c, "probe", "sign")
  /\ \E o \in Offers : offer' = [offer EXCEPT ![c] = o]
  /\ UNCHANGED <<attempt, total, response, header, outcome, history, chain>>

\* Another status, a malformed body, or no answer within the HTTP timeout.
ProbeFails(c) ==
  /\ \E e \in {"Gateway", "ParseError", "Network"} : Return(c, "probe", e)
  /\ UNCHANGED <<attempt, total, history, chain>>

-----------------------------------------------------------------------------
(* sign_payment_for_402_with_amount.                                       *)

Refuse(c) ==
  /\ Validate(offer[c]) # "valid"
  /\ Return(c, "sign", Validate(offer[c]))
  /\ UNCHANGED <<attempt, total, history, chain>>

\* The recipient is no public key, or getLatestBlockhash fails.
SigningFails(c) ==
  /\ Validate(offer[c]) = "valid"
  /\ Return(c, "sign", "Signing")
  /\ UNCHANGED <<attempt, total, history, chain>>

\* Mutant: the first entry of the list is signed, not the one validated.
SignFirst(c) ==
  /\ Goto(c, "sign", "send")
  /\ Validate(offer[c]) = "valid"
  /\ offer[c][1].amount # None
  /\ header' = [header EXCEPT ![c] =
                  [to |-> offer[c][1].payTo, amount |-> offer[c][1].amount,
                   blockhash |-> blockhash]]
  /\ UNCHANGED <<attempt, total, response, offer, outcome, history, chain>>

Sign(c) ==
  /\ Goto(c, "sign", "send")
  /\ Validate(offer[c]) = "valid"
  /\ LET a == PickScheme(offer[c]) IN
     header' = [header EXCEPT ![c] =
                  [to |-> a.payTo, amount |-> a.amount, blockhash |-> blockhash]]
  /\ UNCHANGED <<attempt, total, response, offer, outcome, history, chain>>

-----------------------------------------------------------------------------
(* The paid POST of pay_and_resend_with_amount and its answer.             *)

Send(c) ==
  /\ Goto(c, "send", "await")
  /\ submitted' = submitted \union {header[c]}
  /\ spent' = [spent EXCEPT ![c] = @ + header[c].amount]
  /\ Post(c)
  /\ UNCHANGED <<attempt, total, response, offer, header, outcome,
                 blockhash, settled, funds>>

\* The gateway cannot be reached: the signed transfer never leaves the client.
SendFails(c) ==
  /\ Return(c, "send", "Network")
  /\ Post(c)
  /\ UNCHANGED <<attempt, total, spent, chain>>

PaidOk(c) ==
  /\ Goto(c, "await", "loop")
  /\ ~OverBudget(c)
  /\ total' = [total EXCEPT ![c] = TotalWith(c)]
  /\ \E r \in Answers : response' = [response EXCEPT ![c] = r]
  /\ offer' = [offer EXCEPT ![c] = <<>>]
  /\ header' = [header EXCEPT ![c] = None]
  /\ UNCHANGED <<attempt, outcome, history, chain>>

\* The paid answer arrived, but the total is over the cap: the answer is lost.
PaidOverBudget(c) ==
  /\ Return(c, "await", "BudgetExceeded")
  /\ OverBudget(c)
  /\ total' = [total EXCEPT ![c] = TotalWith(c)]
  /\ UNCHANGED <<attempt, history, chain>>

\* A second 402, another status, a malformed body, or no answer in time.
PaidFails(c) ==
  /\ \E e \in {"PaymentRejected", "Gateway", "ParseError", "Network"} :
       Return(c, "await", e)
  /\ UNCHANGED <<attempt, total, history, chain>>

-----------------------------------------------------------------------------
(* The loop of retry_if_degraded.                                          *)

Degraded == {a \in Answers : IsDegraded(a)}

\* Mutant: one retry too many.
RetryOnceMore(c) ==
  /\ Goto(c, "loop", "probe")
  /\ QualityCheck /\ attempt[c] <= MaxQualityRetries /\ response[c] \in Degraded
  /\ attempt' = [attempt EXCEPT ![c] = @ + 1]
  /\ response' = [response EXCEPT ![c] = None]
  /\ Post(c)
  /\ UNCHANGED <<total, offer, header, outcome, spent, chain>>

\* The degraded answer is given up: it is never read again.
Retry(c) ==
  /\ Goto(c, "loop", "probe")
  /\ QualityCheck
  /\ attempt[c] < MaxQualityRetries
  /\ response[c] \in Degraded
  /\ attempt' = [attempt EXCEPT ![c] = @ + 1]
  /\ response' = [response EXCEPT ![c] = None]
  /\ Post(c)
  /\ UNCHANGED <<total, offer, header, outcome, spent, chain>>

Finish(c) ==
  /\ \/ ~QualityCheck
     \/ attempt[c] = MaxQualityRetries
     \/ response[c] \notin Degraded
  /\ Return(c, "loop", "ok")
  /\ UNCHANGED <<attempt, total, history, chain>>

-----------------------------------------------------------------------------
(* The environment.                                                        *)

\* The future of the call is dropped at an await.
Drop(c) == /\ \E from \in {"probe", "sign", "send", "await"} :
                Return(c, from, "Dropped")
           /\ UNCHANGED <<attempt, total, history, chain>>

NewBlockhash ==
  /\ blockhash < MaxBlockhash
  /\ blockhash' = blockhash + 1
  /\ UNCHANGED <<local, history, submitted, settled, funds>>

\* The chain executes a transfer at most once, and only if the wallet can pay.
Settle(tx) ==
  /\ tx \in submitted \ settled
  /\ tx.amount <= funds
  /\ settled' = settled \union {tx}
  /\ funds' = funds - tx.amount
  /\ UNCHANGED <<local, history, blockhash, submitted>>

CallStep(c) ==
  \/ Start(c)
  \/ ProbeOk(c) \/ ProbeDemandsPayment(c) \/ ProbeFails(c)
  \/ Refuse(c) \/ SigningFails(c) \/ Sign(c)
  \/ Send(c) \/ SendFails(c)
  \/ PaidOk(c) \/ PaidOverBudget(c) \/ PaidFails(c)
  \/ Retry(c) \/ Finish(c)

Next == \/ \E c \in Calls : CallStep(c) \/ Drop(c)
        \/ NewBlockhash
        \/ \E tx \in submitted : Settle(tx)

Spec == Init /\ [][Next]_vars

-----------------------------------------------------------------------------
(* Properties.                                                             *)

\* Every variable has its type; in particular total_paid_atomic stays a u64,
\* because retry_if_degraded adds with saturation.
TypeOK ==
  /\ pc        \in [Calls -> PC]
  /\ attempt   \in [Calls -> 0 .. MaxQualityRetries]
  /\ total     \in [Calls -> Amount]
  /\ response  \in [Calls -> Answers \union {None}]
  /\ offer     \in [Calls -> Offers \union {<<>>}]
  /\ header    \in [Calls -> Transfer \union {None}]
  /\ outcome   \in [Calls -> Errors \union {"none", "ok"}]
  /\ posts     \in [Calls -> Nat]
  /\ spent     \in [Calls -> Nat]
  /\ blockhash \in 0 .. MaxBlockhash
  /\ submitted \subseteq Transfer
  /\ settled   \subseteq submitted
  /\ funds     \in 0 .. InitialFunds

\* A limit that u64 arithmetic can see being passed.
Capped == MaxPayment # None /\ MaxPayment < U64Max

\* Whenever the client decides about paying, the total of retry_if_degraded is
\* what the call really handed over, up to saturation: no answered payment is
\* missing from it, and none is counted twice.
Accounting ==
  \A c \in Calls : pc[c] \in {"loop", "probe", "sign", "send"} =>
    total[c] = SaturatingAdd(spent[c], 0)

\* The budget of a call is checked after each payment, so a call never hands
\* over more than twice max_payment_amount, however many retries it makes and
\* whatever the gateway answers.
SpendWithinTwiceCap ==
  Capped => \A c \in Calls : spent[c] <= 2 * MaxPayment

\* A call that returns a response stayed within max_payment_amount over all of
\* its attempts.
OkWithinCap ==
  Capped => \A c \in Calls : outcome[c] = "ok" => spent[c] <= MaxPayment

\* BudgetExceeded is returned only when the payments really exceed the cap.
BudgetErrorMeansOverspent ==
  \A c \in Calls : outcome[c] = "BudgetExceeded" => spent[c] > MaxPayment

\* A transfer that pays what one compatible entry of a 402 answer asked, to the
\* expected recipient, within the limit.
PolicyAllows(tx) ==
  /\ \E o \in Offers : \E i \in DOMAIN o :
       Compatible(o[i]) /\ o[i].payTo = tx.to /\ o[i].amount = tx.amount
  /\ ExpectedRecipient # None => tx.to = ExpectedRecipient
  /\ MaxPayment # None => tx.amount <= MaxPayment

\* Every transfer the gateway ever holds is one that the policy allows.
TransfersHonourPolicy == \A tx \in submitted : PolicyAllows(tx)

\* While no call has failed and none is paying, the wallet has lost no more
\* than the totals the calls account for: what was signed is what was counted.
LossAccountedFor ==
  Capped /\ (\A c \in Calls : pc[c] \in {"idle", "loop"} \/ outcome[c] = "ok")
    => InitialFunds - funds <= SumFunction(total)

\* A call makes at most two POSTs for the request and two for each retry.
BoundedPosts ==
  \A c \in Calls : posts[c] <= 2 * (MaxQualityRetries + 1)

\* The same words stand at i and at j, for the length of a window.
SamePhrase(words, i, j) ==
  \A d \in 0 .. RepetitionWindow - 1 :
    {i, j} \subseteq 1 .. Len(words) - d /\ words[i + d] = words[j + d]

\* What the comments of quality.rs call a good answer, without counting: it says
\* something, holds no error phrase, does not say any phrase of three words five
\* times over, wherever the choices end, and is not cut inside a word.
ReadsWell(answer) ==
  LET text == AggregateContent(answer)
      words == Words(text)
  IN  /\ words # <<>>
      /\ \A phrase \in KnownErrorPhrases : ~ContainsPhrase(text, phrase)
      /\ \A S \in kSubset(RepetitionThreshold, DOMAIN words) :
           \E i, j \in S : ~SamePhrase(words, i, j)
      /\ ByteLen(text) > TruncationMinLen => Last(text) \notin Alphanumeric

GoodAnswers == {a \in Answers : ReadsWell(a)}

\* The retries are worth their money: a call returns a bad answer only when no
\* retry is left, whatever was paid for on the way.
OkIsGoodOrExhausted ==
  \A c \in Calls : QualityCheck /\ outcome[c] = "ok" =>
    response[c] \in GoodAnswers \/ attempt[c] = MaxQualityRetries

Promise == INSTANCE Allowance WITH
  Transfers <- Transfer,
  Permitted <- {tx \in Transfer : PolicyAllows(tx)},
  Limit     <- IF Capped THEN MaxPayment ELSE None,
  Failures  <- Errors \ {"BudgetExceeded"},
  given     <- spent,
  result    <- outcome,
  held      <- submitted,
  executed  <- settled

\* A call never pays again once it is over the limit, though it pays before it
\* compares; it returns a response within the limit and BudgetExceeded over it;
\* after that it pays no more; and only what was handed over leaves the wallet.
ImplementsAllowance == Promise!Spec

\* What the comment on send_chat_request says the paid amount is used for: "to
\* enforce per-request cumulative budget caps".
CumulativeCapEnforced ==
  MaxPayment # None => \A c \in Calls : spent[c] <= MaxPayment
=============================================================================
