---------------------------- MODULE ClientConfig ----------------------------
(***************************************************************************)
(* How the programs configure a client: ClientConfig with its defaults,    *)
(* ClientBuilder, the proxy's conversion of a cap in USDC, and what        *)
(* SolvelaClient::new makes of a configuration.                            *)
(*                                                                         *)
(* A cap given in USDC is a number of tenths of an atomic unit, or NaN.    *)
(***************************************************************************)
EXTENDS Integers, FiniteSetsExt

CONSTANTS
  Unset,              \* an option that is not set
  NaN,
  U64Max,             \* the largest u64
  DefaultMaxPayment   \* DEFAULT_MAX_PAYMENT_AMOUNT_ATOMIC

ASSUME ClientConfigAssumption ==
  /\ U64Max \in Nat
  /\ DefaultMaxPayment \in 0 .. U64Max
  /\ Unset \notin Int /\ NaN \notin Int \union {Unset}

\* ClientConfig::default.
Default ==
  [gateway_url |-> [host |-> "localhost", slashes |-> 0],
   rpc_url |-> "mainnet-beta", prefer_escrow |-> FALSE, timeout |-> 180,
   expected_recipient |-> Unset, max_payment_amount |-> DefaultMaxPayment,
   enable_cache |-> FALSE, enable_sessions |-> FALSE, session_ttl |-> 1800,
   enable_quality_check |-> FALSE, max_quality_retries |-> 1,
   free_fallback_model |-> Unset]

\* ClientBuilder::new, and a setter.
Builder == [field \in DOMAIN Default |-> Unset]
With(builder, field, value) == [builder EXCEPT ![field] = value]

\* trim_end_matches('/').
Trimmed(url) == [url EXCEPT !.slashes = 0]

\* build_config: unwrap_or, or "or" for the fields that are Options.
BuildConfig(builder) ==
  [field \in DOMAIN Default |->
     IF builder[field] = Unset THEN Default[field] ELSE builder[field]]

\* SolvelaClient::new: no balance was polled yet, the stores are empty.
NewClient(config) ==
  [config        |-> config,
   balance_state |-> U64Max,
   cache         |-> IF config.enable_cache THEN {} ELSE Unset,
   session_store |-> IF config.enable_sessions THEN {} ELSE Unset]

-----------------------------------------------------------------------------
(* The cap of the proxy.                                                   *)

\* The f64 product max_usdc * 1e6 may be off by a tenth of a unit at most.  This is so
\* below 2^49 atomic units; above, it may be off by more, and 2^53 on by whole units.
Products(usdc) == IF usdc = NaN THEN {NaN} ELSE usdc - 1 .. usdc + 1

\* Mutant: the conversion without round().
Truncated(product) ==
  IF product = NaN THEN 0 ELSE Min({U64Max, Max({0, product \div 10})})

\* round() as u64: the cast saturates, and takes NaN to zero.
Rounded(product) ==
  IF product = NaN THEN 0 ELSE Min({U64Max, Max({0, (product + 5) \div 10})})

\* What the proxy may get for --max-payment.
AtomicCaps(usdc) ==
  IF usdc = Unset THEN {Default.max_payment_amount}
  ELSE {Rounded(product) : product \in Products(usdc)}
=============================================================================
