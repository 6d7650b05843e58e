------------------------------- MODULE Doctor -------------------------------
(***************************************************************************)
(* The checks of the doctor command: what it prints for a reply of the     *)
(* gateway or of the RPC node, and what the client's own calls make of the *)
(* same reply.  doctor reads a body that breaks off as an empty one, or    *)
(* does not read it at all; the client's calls fail on it.                 *)
(***************************************************************************)
EXTENDS Integers, Sequences

\* The body is what was asked for, with a sufficient or a small balance where
\* one was asked for; an object with an error; another JSON value; no JSON; or it
\* breaks off and cannot be read.  There is no reply without a connection, and none
\* after the timeout.
NoReply == [status |-> 0, body |-> "none"]
Reply == [status : {200, 201, 402, 500},
          body : {"wanted", "small", "error", "other", "garbage", "unread"}]
         \union {NoReply}

IsSuccess(r) == r.status \in 200 .. 299
Parses(r) == r.body \in {"wanted", "small"}

\* SolvelaClient::models, estimate_cost and usdc_balance_of.
ModelsOk(r) == r.status = 200 /\ Parses(r)
EstimateOk(r) == (r.status = 200 /\ r.body # "unread") \/ (r.status = 402 /\ Parses(r))
BalanceOk(r) == IsSuccess(r) /\ r.body \notin {"garbage", "unread"}

\* Any error object, or an answer without amount, counts as no money.
IsLow(r) == r.body # "wanted"

\* The checks in their order.
Checks == <<"wallet", "gateway", "models", "rpc", "balance", "payment">>
CheckNames == {Checks[i] : i \in DOMAIN Checks}

Ok(cond) == IF cond THEN "ok" ELSE "FAIL"

GatewayVerdict(r) == Ok(IsSuccess(r))

\* Mutant: a list of models is read whatever the status.
ModelsVerdictOnBody(r) == Ok(Parses(r))

ModelsVerdict(r) == Ok(IsSuccess(r) /\ Parses(r))

\* A node that answers without slot and without error is warned about.
RpcVerdict(r) ==
  IF IsSuccess(r) /\ r.body \in {"other", "garbage", "unread"} THEN "WARN"
  ELSE Ok(IsSuccess(r) /\ r.body # "error")

\* The balance is the client's; little money is warned about.
BalanceVerdict(r) ==
  IF BalanceOk(r) /\ IsLow(r) THEN "WARN" ELSE Ok(BalanceOk(r))

\* A probe that is answered, whatever the body, or priced.
PaymentVerdict(r) ==
  Ok(IsSuccess(r) \/ (r.status = 402 /\ Parses(r)))

Verdict(check, r) ==
  CASE check = "gateway" -> GatewayVerdict(r)
    [] check = "models"  -> ModelsVerdict(r)
    [] check = "rpc"     -> RpcVerdict(r)
    [] check = "balance" -> BalanceVerdict(r)
    [] check = "payment" -> PaymentVerdict(r)

\* The checks that are not made, by what was found to be well before.
Skipped(check, well) ==
  \/ check \in {"models", "payment"} /\ "gateway" \notin well
  \/ check = "balance" /\ ~({"wallet", "rpc"} \subseteq well)
=============================================================================
