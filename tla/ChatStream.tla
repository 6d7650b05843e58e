----------------------------- MODULE ChatStream -----------------------------
(***************************************************************************)
(* SolvelaClient::chat_stream up to the open stream, for calls that share  *)
(* one client: the routing of the request, the record in the session, the  *)
(* probe without streaming, the payment it may demand, and the second POST *)
(* that opens the stream.  What the open stream delivers is the subject of *)
(* ChunkStream.  The gateway may give any answer to any POST.              *)
(***************************************************************************)
EXTENDS ChatRouting, Sequences

CONSTANTS
  U64Max, Recipients, ExpectedRecipient, MaxPayment,  \* those of PaymentPolicy
  Offers   \* the accepts lists that 402 answers may carry

Policy == INSTANCE PaymentPolicy

ASSUME ChatStreamAssumption ==
  /\ Policy!PolicyAssumption
  /\ Offers \subseteq Seq(Policy!Accept)

VARIABLES
  offer,    \* the accepts list being paid
  header,   \* the transfer signed for the PAYMENT-SIGNATURE header, or None
  outcome,  \* what the call returned: "stream" or an error
  posts,    \* history: the POSTs of the call
  paid,     \* history: the transfers the call handed to the gateway
  joined,   \* history: the birth of the session that gave the call its model
  noted     \* history: the birth of the session the request was recorded in

payment == <<offer, header, outcome>>
hist    == <<posts, paid, joined, noted>>
vars    == <<routing, payment, hist>>

Transfer == [to : Recipients, amount : Policy!Amount]

\* What a call can fail with.
Errors == Policy!ValidationErrors \union
  {"ParseError", "Gateway", "Network", "Signing", "Dropped"}

\* Types; a call sends two POSTs at most.
TypeOK ==
  /\ RoutingTypeOK
  /\ pc      \in [Calls -> {"idle", "session", "missed", "routed", "recorded",
                            "probe", "sign", "open", "opening", "done"}]
  /\ offer   \in [Calls -> Offers \union {<<>>}]
  /\ header  \in [Calls -> Transfer \union {None}]
  /\ outcome \in [Calls -> Errors \union {"none", "stream"}]
  /\ posts   \in [Calls -> 0 .. 2]
  /\ paid    \in [Calls -> Seq(Transfer)]
  /\ joined  \in [Calls -> Nat \union {None}]
  /\ noted   \in [Calls -> Nat \union {None}]

Init ==
  /\ RoutingInit
  /\ offer   = [c \in Calls |-> <<>>]
  /\ header  = [c \in Calls |-> None]
  /\ outcome = [c \in Calls |-> "none"]
  /\ posts   = [c \in Calls |-> 0]
  /\ paid    = [c \in Calls |-> <<>>]
  /\ joined  = [c \in Calls |-> None]
  /\ noted   = [c \in Calls |-> None]

-----------------------------------------------------------------------------
Return(c, from, r) ==
  /\ Goto(c, from, "done")
  /\ outcome' = [outcome EXCEPT ![c] = r]
  /\ UNCHANGED <<now, balance, sessions, settled, offer, header, hist>>

Post(c) == posts' = [posts EXCEPT ![c] = @ + 1]

\* Steps 1 and 2: balance guard and session.
Settle(c) ==
  /\ Route(c)
  /\ joined' = IF SessionsOn /\ pc'[c] = "routed"
                 THEN [joined EXCEPT ![c] = sessions'[request[c].sid].created]
                 ELSE joined
  /\ UNCHANGED <<payment, posts, paid, noted>>

\* Step 3: the request is recorded before it is sent, whatever becomes of it.
Record(c) ==
  /\ RecordRequest(c, "routed", "recorded")
  /\ noted' = IF SessionsOn
                THEN [noted EXCEPT ![c] = sessions'[request[c].sid].created]
                ELSE noted
  /\ UNCHANGED <<payment, posts, paid, joined>>

\* The probe: a POST with stream: false.
Probe(c) ==
  /\ Goto(c, "recorded", "probe")
  /\ Post(c)
  /\ UNCHANGED <<now, balance, sessions, settled, payment, paid, joined, noted>>

\* 200: the answer to the probe is dropped, the stream is asked for unpaid.
ProbeOk(c) ==
  /\ Goto(c, "probe", "open")
  /\ UNCHANGED <<now, balance, sessions, settled, payment, hist>>

ProbeDemandsPayment(c) ==
  /\ Goto(c, "probe", "sign")
  /\ \E o \in Offers : offer' = [offer EXCEPT ![c] = o]
  /\ UNCHANGED <<now, balance, sessions, settled, header, outcome, hist>>

\* Mutant: a probe without answer is sent again.
ProbeFailsAndRepeats(c) ==
  \/ \E e \in {"Gateway", "ParseError"} : Return(c, "probe", e)
  \/ /\ Goto(c, "probe", "recorded")
     /\ UNCHANGED <<now, balance, sessions, settled, payment, hist>>

\* Any status but 200 and 402, a 402 that does not parse, or no answer.
ProbeFails(c) ==
  \E e \in {"Gateway", "ParseError", "Network"} : Return(c, "probe", e)

Refuse(c) == /\ Policy!Validate(offer[c]) # "valid"
             /\ Return(c, "sign", Policy!Validate(offer[c]))

SigningFails(c) == /\ Policy!Validate(offer[c]) = "valid"
                   /\ Return(c, "sign", "Signing")

Sign(c) ==
  /\ Goto(c, "sign", "open")
  /\ Policy!Validate(offer[c]) = "valid"
  /\ LET a == Policy!PickScheme(offer[c]) IN
     header' = [header EXCEPT ![c] = [to |-> a.payTo, amount |-> a.amount]]
  /\ UNCHANGED <<now, balance, sessions, settled, offer, outcome, hist>>

\* The POST with stream: true, with the payment if one was signed.
Open(c) ==
  /\ Goto(c, "open", "opening")
  /\ Post(c)
  /\ paid' = IF header[c] = None THEN paid
             ELSE [paid EXCEPT ![c] = Append(@, header[c])]
  /\ UNCHANGED <<now, balance, sessions, settled, payment, joined, noted>>

Opened(c) == Return(c, "opening", "stream")

\* Mutant: the demand for payment of the second POST is met like the first.
OpenRefusedPaying(c) ==
  /\ Goto(c, "opening", "sign")
  /\ \E o \in Offers : offer' = [offer EXCEPT ![c] = o]
  /\ UNCHANGED <<now, balance, sessions, settled, header, outcome, hist>>

\* Mutant: a payment that the gateway refused is reported as one never made.
OpenRefusedAsFree(c) ==
  \E e \in {"Gateway", "Network", "Signing"} : Return(c, "opening", e)

\* Any other status, a demand for payment included, or no answer.
OpenRefused(c) == \E e \in {"Gateway", "Network"} : Return(c, "opening", e)

\* The future is dropped at an await; at "routed", that of the lock to record.
Drop(c) ==
  \/ \E from \in {"session", "missed", "probe", "sign", "opening"} :
       Return(c, from, "Dropped")
  \/ SessionsOn /\ Return(c, "routed", "Dropped")

CallStep(c) ==
  \/ Settle(c) \/ Record(c) \/ Probe(c)
  \/ ProbeOk(c) \/ ProbeDemandsPayment(c) \/ ProbeFails(c)
  \/ Refuse(c) \/ SigningFails(c) \/ Sign(c)
  \/ Open(c) \/ Opened(c) \/ OpenRefused(c)

Next == \/ \E c \in Calls : CallStep(c) \/ Drop(c)
        \/ (Poll \/ Tick) /\ UNCHANGED <<payment, hist>>

Spec == Init /\ [][Next]_vars

-----------------------------------------------------------------------------
(* Properties.                                                             *)

\* A transfer that one of the offers asks for and the policy allows.
PolicyAllows(t) ==
  /\ t \in Transfer
  /\ \E o \in Offers : \E j \in DOMAIN o :
       /\ Policy!Compatible(o[j])
       /\ [to |-> o[j].payTo, amount |-> o[j].amount] = t
  /\ ExpectedRecipient # None => t.to = ExpectedRecipient
  /\ MaxPayment # None => t.amount <= MaxPayment

\* A stream costs one payment at most, within the policy, though the gateway may
\* demand payment of each of its two POSTs.
OnePaymentPerStream ==
  \A c \in Calls : Len(paid[c]) <= 1 /\ \A i \in DOMAIN paid[c] : PolicyAllows(paid[c][i])

Promise == INSTANCE PaidForwarding WITH
  Requests    <- Calls,
  Allowed     <- {t \in Transfer : PolicyAllows(t)},
  FreeErrors  <- Policy!ValidationErrors \union {"ParseError", "Signing"},
  PaidErrors  <- {},
  OtherAnswers <- {"Gateway", "Network", "Dropped", "stream"},
  handed      <- [c \in Calls |-> {paid[c][i] : i \in DOMAIN paid[c]}],
  answer      <- [c \in Calls |-> {outcome[c]} \ {"none"}]

\* What a call returns and what it paid agree, at every step: a policy error, a
\* failed signature or an unreadable demand means that nothing was paid, and
\* after its answer a call pays no more.
ImplementsPaidForwarding == Promise!Spec

\* The strike of a request counts in the session that gave it its model, unless
\* that session expired before it was recorded.
StrikesHitOwnSession ==
  \A c \in Calls : noted[c] # None =>
    noted[c] = joined[c] \/ noted[c] - joined[c] >= SessionTtl
=============================================================================
