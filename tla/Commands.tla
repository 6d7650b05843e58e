------------------------------ MODULE Commands ------------------------------
(***************************************************************************)
(* The programs a user runs on one machine: the commands of solvela-client *)
(* and the start of solvela-client-proxy.  Each process is one invocation. *)
(* They share the wallet file (WalletFile), and what a command does with   *)
(* the key it loaded is done with a client (ClientConfig).                 *)
(*                                                                         *)
(* The user chooses commands, flags and input, each of which is settled    *)
(* here when the code first looks at it; the gateway and the RPC node may  *)
(* give any reply; a process may die at any time, as it does when it       *)
(* prints to a closed pipe.                                                *)
(***************************************************************************)
EXTENDS WalletFile, ClientConfig, Doctor

CONSTANTS
  Gateway,      \* the URL of the --gateway argument
  Recipients,   \* wallet addresses
  ChatCaps,     \* the values of chat --max-payment, in atomic USDC
  ProxyCaps     \* those of the proxy's --max-payment, in tenths of atomic USDC

ASSUME CommandsAssumption ==
  /\ Gateway \in [host : STRING, slashes : Nat]
  /\ ChatCaps \subseteq 0 .. U64Max
  /\ ProxyCaps \subseteq Int \union {NaN}

VARIABLES
  stage,    \* where each process is
  command,  \* the command of a process that has a client
  asked,    \* the cap and the recipient that its arguments ask for
  client,   \* its SolvelaClient, while it has one
  ok,       \* doctor's wallet_ok, gateway_ok and rpc_ok: those that hold
  line,     \* doctor's last line, and what a client's call makes of the same
            \* reply
  failed    \* history: the doctors that printed a FAIL

diagnosis == <<ok, line, failed>>
process   == <<stage, command, asked, client, diagnosis>>
vars      == <<fileVars, process>>

ClientCommands == {"balance", "chat", "models", "proxy"}

NothingAsked == [cap |-> Unset, recipient |-> Unset]

Asked(cmd) ==
  CASE cmd = "chat"  -> [cap : ChatCaps \union {Unset}, recipient : {Unset}]
    [] cmd = "proxy" -> [cap : ProxyCaps \union {Unset}, recipient : Recipients \union {Unset}]
    [] OTHER         -> {NothingAsked}

\* Success, and any other end.
Exits == {"exit0", "exit1"}

NoLine == [check |-> "none", verdict |-> "none", refused |-> FALSE, odd |-> FALSE]

Init ==
  /\ FileInit
  /\ stage   = [p \in Processes |-> "idle"]
  /\ command = [p \in Processes |-> None]
  /\ asked   = [p \in Processes |-> NothingAsked]
  /\ client  = [p \in Processes |-> None]
  /\ ok      = [p \in Processes |-> {}]
  /\ line    = [p \in Processes |-> NoLine]
  /\ failed  = {}

-----------------------------------------------------------------------------
(* Steps shared by the actions.                                            *)

Advance(p, from, to) == stage[p] = from /\ stage' = [stage EXCEPT ![p] = to]

\* The process is over, and all that it held.
Exit(p, code) ==
  /\ stage' = [stage EXCEPT ![p] = code]
  /\ command' = [command EXCEPT ![p] = None]
  /\ asked' = [asked EXCEPT ![p] = NothingAsked]
  /\ client' = [client EXCEPT ![p] = None]
  /\ ok' = [ok EXCEPT ![p] = {}]
  /\ line' = [line EXCEPT ![p] = NoLine]
  /\ failed' = failed \ {p}

\* load_wallet returned a key.
HasKey(p) == pc[p] \in {"loaded", "from_env"}

\* load_wallet or save_wallet returned an error.
WalletFailed(p) ==
  pc[p] \in {"refused", "failed", "no_wallet", "unreadable", "invalid", "invalid_env"}

-----------------------------------------------------------------------------
(* The commands that save a wallet.                                        *)

\* save_wallet is called with key k, and force if it was given.
Save(p, k) ==
  /\ Advance(p, "idle", "wallet")
  /\ \E f \in {{}, {p}} : Check(p, k, f)
  /\ UNCHANGED <<command, asked, client, diagnosis>>

\* Keys drawn from the system's entropy are new.
FreshKeys == Keys \ ({OldKey} \union {key[q] : q \in Savers})

Create(p) == \E k \in FreshKeys : Save(p, k)

\* A phrase or a keypair was typed in, of any key.
Import(p) == \E k \in Keys : Save(p, k)

\* Neither kind was asked for, nothing was typed in, or no key.
ImportRefuses(p) ==
  /\ stage[p] = "idle"
  /\ Exit(p, "exit1")
  /\ UNCHANGED fileVars

Saving(p) == stage[p] = "wallet" /\ SaveStep(p) /\ UNCHANGED process

\* The address is printed, and the new phrase.
SaveEnds(p) ==
  /\ stage[p] = "wallet" /\ pc[p] = "saved"
  /\ Exit(p, "exit0")
  /\ UNCHANGED fileVars

-----------------------------------------------------------------------------
(* The commands that load a wallet.                                        *)

BeginLoading(p) ==
  /\ Advance(p, "idle", "wallet")
  /\ LoadCall(p)
  /\ UNCHANGED <<command, asked, client, diagnosis>>

Loading(p) == stage[p] = "wallet" /\ LoadStep(p) /\ UNCHANGED process

\* The end of every command but doctor.
WalletError(p) ==
  /\ stage[p] = "wallet" /\ WalletFailed(p)
  /\ Exit(p, "exit1")
  /\ UNCHANGED fileVars

\* address prints at once; export too with --yes.
PrintKey(p) ==
  /\ stage[p] = "wallet" /\ HasKey(p)
  /\ Exit(p, "exit0")
  /\ UNCHANGED fileVars

AskToExport(p) ==
  /\ Advance(p, "wallet", "prompt")
  /\ HasKey(p)
  /\ UNCHANGED <<fileVars, command, asked, client, diagnosis>>

Answered(p) ==
  /\ stage[p] = "prompt"
  /\ \E code \in {"exit0", "exit1"} : Exit(p, code)
  /\ UNCHANGED fileVars

\* The builder that balance, chat and doctor begin with.
Endpoints == With(With(Builder, "gateway_url", Trimmed(Gateway)), "rpc_url", "rpc_arg")

ChatConfig(cap) == BuildConfig(With(Endpoints, "max_payment_amount", cap))

ProxyConfig(cap, recipient) ==
  [Default EXCEPT !.gateway_url = Trimmed(Gateway), !.rpc_url = "rpc_arg",
                  !.max_payment_amount = cap, !.expected_recipient = recipient]

Configs(cmd, args) ==
  CASE cmd = "chat"    -> {ChatConfig(args.cap)}
    [] cmd = "proxy"   -> {ProxyConfig(cap, args.recipient) : cap \in AtomicCaps(args.cap)}
    [] cmd = "models"  -> {BuildConfig(With(Builder, "gateway_url", Trimmed(Gateway)))}
    [] cmd = "balance" -> {BuildConfig(Endpoints)}

\* models does not load a wallet, but makes one that it throws away.
MayMakeClient(p, cmd) ==
  IF cmd = "models" THEN stage[p] = "idle" ELSE stage[p] = "wallet" /\ HasKey(p)

MakeClient(p) ==
  \E cmd \in ClientCommands : \E args \in Asked(cmd) : \E config \in Configs(cmd, args) :
    /\ MayMakeClient(p, cmd)
    /\ stage' = [stage EXCEPT ![p] = "client"]
    /\ command' = [command EXCEPT ![p] = cmd]
    /\ asked' = [asked EXCEPT ![p] = args]
    /\ client' = [client EXCEPT ![p] = NewClient(config)]
    /\ UNCHANGED <<fileVars, diagnosis>>

\* No HTTP client can be built: the error of new, or doctor's own.
NoHttpClient(p) ==
  /\ stage[p] = "idle" \/ (stage[p] = "wallet" /\ HasKey(p))
  /\ Exit(p, "exit1")
  /\ UNCHANGED fileVars

\* balance and models ask once.
Query(p) ==
  /\ stage[p] = "client" /\ command[p] \in {"balance", "models"}
  /\ \E r \in Reply :
       Exit(p, IF IF command[p] = "models" THEN ModelsOk(r) ELSE BalanceOk(r)
                 THEN "exit0" ELSE "exit1")
  /\ UNCHANGED fileVars

\* One request, streamed or not: SmartChat and ChatStream.
Chat(p) ==
  /\ stage[p] = "client" /\ command[p] = "chat"
  /\ \E code \in {"exit0", "exit1"} : Exit(p, code)
  /\ UNCHANGED fileVars

\* The proxy serves (module Proxy) until it fails, if it can bind its port.
Serve(p) ==
  /\ Advance(p, "client", "serving")
  /\ command[p] = "proxy"
  /\ UNCHANGED <<fileVars, command, asked, client, diagnosis>>

ServerError(p) ==
  /\ stage[p] \in {"client", "serving"} /\ command[p] = "proxy"
  /\ Exit(p, "exit1")
  /\ UNCHANGED fileVars

-----------------------------------------------------------------------------
(* doctor, which goes on whatever it finds.                                *)

\* A line is printed.
Say(p, said) ==
  /\ line' = [line EXCEPT ![p] = said]
  /\ failed' = IF said.verdict = "FAIL" THEN failed \union {p} ELSE failed

\* The wallet is loaded first.
DoctorWallet(p) ==
  /\ Advance(p, "wallet", "gateway")
  /\ HasKey(p) \/ WalletFailed(p)
  /\ Say(p, [NoLine EXCEPT !.check = "wallet", !.verdict = Ok(HasKey(p))])
  /\ ok' = IF HasKey(p) THEN [ok EXCEPT ![p] = {"wallet"}] ELSE ok
  /\ UNCHANGED <<fileVars, command, asked, client>>

\* The client's own call fails on the reply; that of the balance is the check.
ClientRefuses(check, r) ==
  \/ check = "models"  /\ ~ModelsOk(r)
  \/ check = "payment" /\ ~EstimateOk(r)

\* A success that is not what a client's call waits for: another status than 200, or
\* a body that breaks off.
IsOdd(r) == IsSuccess(r) /\ (r.status # 200 \/ r.body = "unread")

\* Each other check asks once, unless it is skipped; the stage is its name.  No
\* reply stands for no client, too, in the check of the balance.
DoctorCheck(p) ==
  \E i \in 2 .. Len(Checks) :
    LET check == Checks[i]
        next  == IF i = Len(Checks) THEN "reported" ELSE Checks[i + 1]
    IN  /\ Advance(p, check, next)
        /\ IF Skipped(check, ok[p])
             THEN /\ Say(p, [NoLine EXCEPT !.check = check, !.verdict = "skipped"])
                  /\ UNCHANGED ok
             ELSE \E r \in Reply :
               /\ Say(p, [check   |-> check,
                          verdict |-> Verdict(check, r),
                          refused |-> ClientRefuses(check, r),
                          odd     |-> IsOdd(r)])
               /\ ok' = IF check \in {"gateway", "rpc"} /\ Verdict(check, r) # "FAIL"
                          THEN [ok EXCEPT ![p] = @ \union {check}] ELSE ok
        /\ UNCHANGED <<fileVars, command, asked, client>>

\* The end of doctor is a success, whatever it found.
DoctorEnds(p) ==
  /\ stage[p] = "reported"
  /\ Exit(p, "exit0")
  /\ UNCHANGED fileVars

-----------------------------------------------------------------------------
\* The process dies, whatever it is doing.
Die(p) ==
  /\ stage[p] \notin Exits \union {"idle"}
  /\ Exit(p, "exit1")
  /\ IF p \in Savers THEN SaverDies(p) ELSE UNCHANGED fileVars

Next ==
  \/ \E p \in Processes : Die(p)
  \/ \E p \in Savers : \/ Create(p) \/ Import(p) \/ ImportRefuses(p)
                       \/ Saving(p) \/ SaveEnds(p) \/ WalletError(p)
  \/ \E p \in Loaders : \/ BeginLoading(p) \/ Loading(p) \/ WalletError(p)
                        \/ PrintKey(p) \/ AskToExport(p) \/ Answered(p)
                        \/ NoHttpClient(p) \/ MakeClient(p) \/ Query(p) \/ Chat(p)
                        \/ Serve(p) \/ ServerError(p)
                        \/ DoctorWallet(p) \/ DoctorCheck(p) \/ DoctorEnds(p)

Spec == Init /\ [][Next]_vars

-----------------------------------------------------------------------------
(* Properties; those of the wallet file are in WalletFile.                 *)

TypeOK ==
  /\ FileTypeOK
  /\ stage   \in [Processes -> Exits \union CheckNames \union
                     {"idle", "prompt", "client", "serving", "reported"}]
  /\ command \in [Processes -> ClientCommands \union {None}]
  /\ \A p \in Processes : asked[p] \in Asked(command[p])
  /\ \A p \in Processes : client[p] # None =>
       /\ DOMAIN client[p].config = DOMAIN Default
       /\ client[p].config.max_payment_amount \in 0 .. U64Max
  /\ ok      \in [Processes -> SUBSET {"wallet", "gateway", "rpc"}]
  /\ line    \in [Processes ->
       [check : CheckNames \union {"none"}, refused : BOOLEAN, odd : BOOLEAN,
        verdict : {"none", "ok", "WARN", "FAIL", "skipped"}]]
  /\ failed  \subseteq Loaders

\* Every client has the cap its process was asked for, and the default where none
\* was: chat's exactly, the proxy's exactly if it is a whole number of atomic units,
\* rounded if not, as far as Products tells of the product (below 2^49 atomic units;
\* above, exactness is lost).  A number too large to hold is cut to the largest one; a
\* negative number and NaN, which no one can mean, allow no payment at all.  No client
\* pays another recipient than the one asked for, and none asks a gateway for a path
\* that begins with "//".
ClientsAreAsAsked ==
  \A p \in Processes : client[p] # None =>
    LET config == client[p].config
        cap    == asked[p].cap
    IN  /\ config.gateway_url.slashes = 0
        /\ config.expected_recipient = asked[p].recipient
        /\ CASE cap = Unset -> config.max_payment_amount = DefaultMaxPayment
             [] cap \in Int /\ command[p] = "chat" -> config.max_payment_amount = cap
             [] cap = NaN -> config.max_payment_amount = 0
             [] command[p] = "proxy" /\ cap \in Int ->
                  LET error == 10 * config.max_payment_amount - cap IN
                  IF cap % 10 = 0 /\ cap \in 0 .. 10 * U64Max THEN error = 0
                  ELSE \/ error \in -6 .. 6
                       \/ cap < 0 /\ config.max_payment_amount = 0
                       \/ cap > 10 * U64Max /\ config.max_payment_amount = U64Max

\* doctor, which reads the replies to /v1/models and to its probe by code of its own,
\* agrees with models() and estimate_cost() about one and the same reply.  Its FAIL is no
\* false alarm: the client's call fails on that reply.  It finds each of their failures but those on an odd
\* success, and it skips a check only after a FAIL.  This is about these two calls: a
\* 402 that offers nothing the client can pay is a priced probe to both.
ReportAgrees ==
  \A p \in Processes :
    /\ line[p].check \in {"models", "payment"} =>
         /\ line[p].verdict = "FAIL" => line[p].refused
         /\ line[p].refused /\ ~line[p].odd => line[p].verdict = "FAIL"
    /\ line[p].verdict = "skipped" => p \in failed
=============================================================================
