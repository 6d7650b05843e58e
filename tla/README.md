# A TLA+ model of the Solvela client

The repository is a Rust workspace: a library that talks to an AI gateway which
charges per request, a localhost proxy that does the same for programs that know
nothing about payments, and a command-line client. A request is first sent
unpaid; a `402` answer lists what the gateway accepts as payment, the client
checks the offer against its policy, signs a USDC transfer on Solana and sends
the request again with the transfer in a header.

Three things are hard here and hard to test: money (what leaves the wallet, when,
and how often, whatever the gateway answers), the state that concurrent calls of
one client share (sessions, cache, balance), and time (sessions and cached
responses expire, blockhashes and balances change, answers are late or missing).
The modules in this directory model those, and the programs around them: which client a command
makes, and what several commands do to one wallet file.

Source paths below are relative to `src/crates/`.

## The system

| part | source | state | operations |
|---|---|---|---|
| Paid request | `solvela-client/src/client.rs`, `signer.rs` | per call: attempt, running total, offer, signed header, response | `send_chat_request`, `retry_if_degraded`, `pay_and_resend_with_amount`, `sign_payment_for_402_with_amount`, `pick_scheme` |
| Session store | `solvela-client/src/session.rs` | map from session id to model, birth, recent hashes, escalation flag, under a `RwLock` | `get_or_create`, `record_request`, `cleanup_expired` |
| Response cache | `solvela-client/src/cache.rs` | LRU list of responses with their insertion time, under a `Mutex` | `get`, `put` |
| Chat orchestration | `solvela-client/src/client.rs` | the two stores, the shared balance, each call's effective request | `chat` |
| Balance monitor and query | `solvela-client/src/balance.rs`, `client.rs` | shared `AtomicU64`, `was_low` | `BalanceMonitor::run`, `usdc_balance_of`, `last_known_balance` |
| Streaming chat | `solvela-client/src/client.rs` | the two stores, a lazy stream | `chat_stream` |
| Response quality | `solvela-client/src/quality.rs` | none | `is_degraded` |
| Proxy | `solvela-client-proxy/src/proxy.rs`, `main.rs` | none of its own; a client | `proxy_handler`, `handle_402`; the conversion of `--max-payment` |
| Wallet file | `solvela-client-cli-args/src/lib.rs` | a file | `save_wallet`, `load_wallet` |
| Wallet and signing | `solvela-client/src/wallet.rs`, `signer.rs` | a key | key generation, derivation, encoding, transaction building |
| Configuration | `solvela-client/src/config.rs`, `client.rs` | plain data | `ClientBuilder` with its setters, `build_config`, `SolvelaClient::new` |
| Errors | `solvela-client/src/error.rs` | plain data | conversions |
| Command-line client | `solvela-client-cli/src/` | one process per invocation; the wallet file | `chat`, `models`, `wallet`, `doctor` |

### How the parts interact

- `chat` loads the balance once (relaxed), then calls the session store, then the
  cache, then the paid request, then the cache and the session store again. Between
  these it awaits locks and HTTP answers, so calls of one client interleave at
  every one of them, and a call can be dropped at every await.
- The paid request calls the gateway, and the signer, which asks the RPC node for
  a blockhash. The gateway submits the transfer to the chain whenever it likes.
- `BalanceMonitor` runs in a task of its own and shares the `AtomicU64` with the client.
- Every command but `models` begins with the wallet file, which other commands may be writing. Those that talk
  to the gateway then build a configuration from their arguments, and a client from that. `doctor` mixes calls of a client with requests of
  its own, which it judges by its own rules.
- The proxy uses the client only to sign (`sign_payment_for_402`) and has an HTTP
  client of its own with its own timeout.

### What makes each part correct

- *Paid request*: only transfers that the policy allows leave the client; the
  running total is what was handed over; the overshoot over the cap is bounded;
  a call ends after a bounded number of requests.
- *Session store*: concurrent callers of a live session get one model; the model
  holds as long as the session lives; the escalation flag agrees with the history.
- *Response cache*: what it serves is fresh and belongs to the key; what was paid
  for stays available as long as promised.
- *Chat*: a call without money is never answered by, or stored under, a paid
  model; a call is only served a response that was obtained for its own model and
  messages; what was bought is not bought again.
- *Balance monitor*: the shared balance is one the account had; a failed poll
  changes nothing; the callback fires once per fall.
- *Streaming chat*: one payment at most, though two POSTs may both be answered by a
  demand; strikes in the session that was used; an
  interrupted stream does not look like a finished one.
- *Response quality*: an answer is called degraded exactly when it is; one that is returned is good, or no retry is left.
- *Proxy*: one payment at most for a request, an answer that does not contradict it, and always an answer.
- *Wallet file*: a key is lost only by `force`; a file that was saved can be loaded.
- *Configuration*: a client has the cap and the recipient its user asked for, whatever path they took.
- *Doctor*: its own reading of the models and of the payment probe raises no false alarm, and misses no failure of the client's calls but on
  odd successes.

## Modules

| module | models | role |
|---|---|---|
| `PaymentPolicy` | `pick_scheme`, the validations of `sign_payment_for_402_with_amount`, `u64::saturating_add` | operators |
| `Quality` | `is_degraded` and its four rules | operators |
| `Allowance` | what the paid request promises to the owner of the wallet | abstract specification |
| `Payments` | the paid request of concurrent calls, the blockhash, the chain, over `PaymentPolicy` and `Quality` | state machine, implements `Allowance` |
| `SessionTable` | one entry of the session map, and what is done to it | operators |
| `StickySessions` | what the session store promises: routing and recording in one step each | abstract specification |
| `SessionStore` | `session.rs` with both lock phases of `get_or_create` | state machine, implements `StickySessions` |
| `CacheTable` | the LRU list and what `get` and `put` do to it | operators |
| `ResponseCache` | `cache.rs` under any sequence of calls | state machine |
| `ChatRouting` | the balance guard and the session lookup, which `chat` and `chat_stream` share | actions and state that the next two extend |
| `SmartChat` | `chat`, over `ChatRouting`, `SessionTable` and `CacheTable` | composition |
| `ChatStream` | `chat_stream` up to the open stream, over `ChatRouting` and `PaymentPolicy` | composition, implements `PaidForwarding` |
| `ChunkStream` | the stream it returns, and its consumer | state machine |
| `BalanceMonitor` | `balance.rs` and `usdc_balance_of` | state machine |
| `PaidForwarding` | what the proxy and `chat_stream` promise: payments and answers | abstract specification |
| `Proxy` | `proxy_handler` and `handle_402`, over `PaymentPolicy` | state machine, implements `PaidForwarding` |
| `WalletFile` | `save_wallet` and `load_wallet` of several processes | actions and state that `Commands` extends, and their properties |
| `ClientConfig` | `ClientConfig::default`, `ClientBuilder`, the proxy's cap in USDC, `SolvelaClient::new` | operators |
| `Doctor` | the replies a command can get, and what `doctor` and the client make of them | operators |
| `Commands` | every command of the command-line client and the start of the proxy, over the three before | composition |
| `PaymentPolicy_proofs`, `Payments_proofs`, `SessionStore_proofs`, `Proxy_proofs`, `ResponseCache_proofs`, `SmartChat_proofs`, `ChatStream_proofs`, `Commands_proofs` | | theorems |
| `MCPayments`, `MCResponseCache`, `MCSmartChat`, `MCChatStream`, `MCProxy`, `MCCommands` | | instances for TLC |

Some definitions are followed or preceded by variants marked *Mutant* in a comment:
each is the definition with a plausible mistake in it. They are not used by any
specification; put in place of the original, each must make a property fail.

### From the code to the model

**Payments.** `pc` is the await or decision a call is at: `probe` (unsigned POST
sent), `sign` (402 parsed), `send` (transfer signed), `await` (paid POST sent),
`loop` (an answer was parsed), `done`. The three places in the code that do a
handshake (first attempt and retry) are one path, as they call the same functions;
`attempt` tells them apart, because only retries compare the total with the cap.
The gateway may answer anything at any POST: a good or a degraded answer, 402 with any
list of offers, another status, garbage, silence until the timeout. A signed
transfer is the record of what is signed: recipient, amount and blockhash. Ed25519
is deterministic, so equal records are equal transactions and the chain executes
one of them; this is why `submitted` and `settled` are sets. Amounts are `u64` with
a small largest value, so that saturation happens.

**Quality.** A text is a sequence of tokens: one white-space character, or a run of others. That is enough for the four rules: only white space, a
known phrase, a window of words that repeats too often, a long text that ends inside a word. Case folding, UTF-8 and punctuation are in the tokens
(`Bytes`, `Alphanumeric`, and which tokens match at a position of a phrase). The choices of an answer are joined with a space, as in the code, so
a phrase or a loop may run over the seam. `ReadsWell`, in `Payments`, says the same without counting and without an order of the rules: no five places of the text carry
the same words. TLC evaluates `QualityIsExact`, an assumption of `MCPayments`, on all texts of up to eight words over three;
`DegradedIsNotGood` proves it for all answers.

**SessionStore.** Each caller looks up under the read lock (`Lookup`), and if it
finds nothing live, later enters the write lock (`FindUnderWriteLock`, `Create`).
Everything between two lock acquisitions is one step. `Record` acts on whatever
entry the id has by then. `request_count` is never read and is left out.
`log` keeps, as history, the hashes recorded since the birth of each session.

**ResponseCache.** The list has the most recently used entry first. `get` and `put` hold a
mutex throughout, so each is one step. Key collisions of the 64-bit hash are not modelled.

**SmartChat.** One action per numbered step of `chat` and per lock acquisition. The first message,
which determines the session id, is abstracted to the conversation; the content
hash and the cache key cover the rest. The paid request is one step that answers
or fails: its own steps touch nothing that this module's state depends on. A response is named by the call that
obtained it, so that "whose response is this" can be asked.

**ChatStream.** Routing is that of `ChatRouting`. The request is recorded before it is sent
(`Record`), so a call that fails or is dropped leaves its strike. The probe is a POST without streaming, whose answer, if it
is a success, is dropped; the second POST carries the payment if one was signed. A demand for payment in answer to the
second POST is one more status that is no success. `joined` and `noted` keep, as history, which session gave a call its model and
which one got its strike.

**ChunkStream.** An event is a chunk, `[DONE]`, or malformed, which stands for data that do not parse
and for events that do not decode. The gateway sends and ends when it likes. `Break` is any failure of the
connection, also while the end of a closed one is on its way: one error, after which the body is over, since the library is built for
HTTP/1.1 only. `TimedOut` is the timeout of the HTTP client, which covers the body, whatever the connection has come to: it is an error at
once and at every later poll, as the closure hands the event stream on after an error (`client.rs:419-421`) and the timer stays expired. What had arrived and was
not read is gone with both. A poll in the code waits inside `es.next()`: it is the state `phase = "poll"` with the enabled
action among `Deliver`, `EndAtDone`, `Break`, `TimedOut` and `EndOfBody`. The chat command stops at the first error, of the stream or of
its own output; any other program may read on, up to the bound `MaxItems`.

**Proxy.** One handler per request; `pc` is the await it is at. `offer` and `header` are its locals; `supplied` is
a payment header that came with the request, which `forward_headers` strips from both forwards. `handed` and `answer` are what `PaidForwarding` sees. `HangUp` is the caller closing its
connection, upon which axum drops the handler. Methods, paths, bodies and the other headers are passed on and left out.

**WalletFile.** Each system call is a step, and a process may die before each of them. The text of a key is cut into cells,
since `write_all` and `read_to_string` repeat writes and reads of any length; texts have different lengths. Several
processes write at offsets of their own into the same file, so a text may be mixed or have a hole. Only the whole text of one
key parses. The environment variable that takes the place of the file, and a file that cannot be opened or read, are outcomes of a load. `contested` keeps, as
history, the savers that did not have the file to themselves,
`after` the savers that had returned when a load began. Which process calls what, and when, is said by `Commands`.

**Commands.** A process is one invocation. Savers run `wallet create` or `import`, loaders everything else; a constant says how many there are of each, not
which command they run. An argument, a flag or an input is settled when the code first looks at it. `stage` is the
await, prompt or system call a process is at, and for `doctor` the next check; `pc` is where it is inside `save_wallet` or `load_wallet`.
`exit1` is every end that is no success, death included; at its end a process gives up all it held. The single request of `chat` and the serving of the
proxy are outcomes here, since `Payments`, `SmartChat`, `ChatStream`, `ChunkStream` and `Proxy` model them. A configuration is a record with the
code's fields, so that an unset field, a default and an overwritten one are told apart. A cap in USDC is a number of tenths of an atomic unit, negative,
fractional, too large or NaN; `Products` are the values the `f64` product may have, which is off by less than a tenth of a unit for caps
below 2^49 atomic units.

**Doctor.** A reply is a status and a kind of body. `NoReply` is no connection and no reply within `doctor`'s ten seconds; the client's own timeout is
longer, so a reply that takes between the two is none for `doctor` although it would be one for a client; the comparison is of the same reply. A body may break
off (`"unread"`): the client's calls return the error, `doctor` goes on with an empty body (`unwrap_or_default`) or, when its probe succeeds, without reading it. `Verdict` is
what `doctor` prints, `ModelsOk`, `EstimateOk` and `BalanceOk` what the client's calls accept. The balance needs no comparison, since `doctor` asks a client for it.

**BalanceMonitor.** The monitor and the callers of `usdc_balance_of` ask and read
the same way. `Serve` is the node's answer: the current balance, a body without an
amount, or a failure. `as u64` truncates, and the product in `f64` can fall just
below the amount (first at 249 atomic units): `Truncated` is the choice between the two
results from `ExactUpTo` on.

## What is checked

All runs are exhaustive for their instance.

| run | instance | shows |
|---|---|---|
| `payments` | 2 calls, 2 retries, 6 lists of offers, 2 good and 4 bad answers, cap 3, `u64` up to 4, 2 blockhashes | `TypeOK`, `Accounting`, `ImplementsAllowance`, `OkIsGoodOrExhausted`, `TransfersHonourPolicy`, `LossAccountedFor`, `BoundedPosts`, `SpendWithinTwiceCap` |
| `payments_cap` | 1 call, 2 retries | `CumulativeCapEnforced` fails: a finding |
| `sessions` | 3 callers, 1 session, 2 models, 2 hashes, time to live 2, clock to 3 | `TypeOK`, `CallersAgree`, `EscalatedAfterThreeStrikes`, `LiveSessionsAreSticky`, `ImplementsStickySessions` |
| `cache` | 3 keys, 2 responses, 2 entries, time to live 3, window 2, clock to 5 | `TypeOK`, `HitsAreFresh`, `Retention` |
| `smartchat` | 3 calls of one conversation, a free and a paid model, the balance polled up and down, sessions and a cache of one entry | `TypeOK`, `CacheServesOwnModel`, `NoMoneyMeansFallback`, `NoRepeatPurchase` |
| `smartchat_fallback` | 2 calls, the balance polled up and down, no cache | `NoFallbackWhenBalancePositive` fails with a zero balance, a session created with the fallback model, and a later call that has money: a finding |
| `balance_polls` | 3 successful polls, any number of failed ones, 1 query, 3 balances around the threshold | `MonitorTypeOK`, `AlarmsAreFalls`, `SharedIsRecent` |
| `balance_query` | 1 query | `QueryTellsTheBalance` fails: a finding |
| `proxy` | 2 requests, 5 lists of offers, any answers, callers with and without a payment header, hanging up | `TypeOK`, `ImplementsPaidForwarding`, `Answered` |
| `stream` | 2 streams of one conversation, an offer to be paid and one to be refused, the balance polled up and down | `TypeOK`, `OnePaymentPerStream`, `StrikesHitOwnSession`, `ImplementsPaidForwarding` |
| `chunks` | 3 events, 6 items, 2 kinds of chunk, both kinds of consumer | `ChunkTypeOK`, `ItemsMatchEvents`, `SuccessIsWhole`, `PollReturns` |
| `commands` | 2 savers, 1 loader that runs any command, with and without a file at the start, texts of 1 and 2 cells, 2 caps for `chat` and 5 for the proxy, any reply to any check | `TypeOK`, `SavedIsLoadable`, `OldKeyNeedsForce`, `LoadFindsSavedKey`, `ClientsAreAsAsked`, `ReportAgrees` |

`Interchangeable` sets are symmetry sets. Runs with them check invariants, an action property and the refinements of `Allowance` and
`PaidForwarding`, which are about single steps and treat all calls alike; no run that checks liveness uses one.

### The bounds, and why they are enough

- *Two or three calls.* The interesting interleavings are of two calls at a shared
  store. A third caller is there where two of them must disagree about a session that a
  third created, and where two purchases surround a cached one.
- *The cap is 3 and amounts are 1, 3 and 4*: three small payments, one per attempt, reach the cap exactly, a small one
  and a large one together break it and saturate at 4, and 4 breaks it alone.
- *Retries*: two is the smallest number for which the total is compared, found small
  enough, and compared again.
- *Clock*: the bound leaves room for a session or an entry to be created, to expire
  and to be created again, or to be refreshed once more.
- *Session window and strikes*: a window of two and a threshold of two, with three records, so that a
  repetition can be counted and a hash can be pushed out before it repeats. The code has 10 and 3.
- *Balance*: unknown at first, then zero and positive in any order, so that it rises and falls between the guard of a call and
  its end (`smartchat`, `stream`, `smartchat_fallback`).
- *A cache of one entry* under `chat`, so that responses for two keys push each other out, the exception that `NoRepeatPurchase` makes; the order of
  use in a longer list is the subject of `cache`.
- *Three events* of a stream: one to be delivered, one to go wrong, one to follow. *Six items* leave three errors of the timeout
  after them.
- *Texts of one and two cells*: the old key's is the longer one, and it may be imported too, so that a shorter key replaces a longer one and the
  reverse, and writes and reads end in the middle. The theorems hold for any lengths.
- *One loader*: loaders do not meet, since none of them writes. Two savers meet in every way two can.
- *Answers*: three repetitions in each of two choices, which just fail to be a loop, and one more, which is one only across the seam; a text of
  just the length that counts as truncated and one below it; a phrase; nothing.
- *Caps*: negative, whole, between two numbers (2.5 units, which errs both ways), above the largest `u64`, and NaN.
- *`MaxPolls = 3`*: low, recovered, low again; any number of failures in between.
- The bounds on time, records, polls, uses and blockhashes (`MaxTime`, `MaxLog`, `MaxPolls`,
  `MaxUses`, `MaxBlockhash`) only end behaviours. Where a specification may stop for that
  reason, or because every call is done, its configuration turns the check for deadlock off.

### Fairness

- `proxy`, for `Answered`: weak fairness of the steps of each handler. A step either needs nothing from outside or
  waits for an HTTP answer; the proxy's HTTP client has a timeout of 120 seconds (`main.rs:110-113`), after which the await ends
  with an error, and the runtime polls a ready future. Signing uses the library's HTTP client, which has a timeout too.
- `chunks`, for `PollReturns`: weak fairness of a poll. The timeout of the library's HTTP client (`client.rs:47-51`) covers the whole
  answer, so a poll that waits is answered at last by `TimedOut`. Nothing makes a connection break or a gateway close it; without the timeout a
  poll need not return.

Nothing is assumed of the gateway, the chain, the RPC node, or the consumer of a stream. That a paid request ends needs no
fairness to be said: `BoundedPosts` bounds its requests. The balance monitor has no timeout, so no
fairness is assumed of its answers and no liveness is claimed of it.

## What is proved

The theorems hold for every finite set of calls, every policy, every set of offers and of answers, every `u64` width and every number
of retries; for every set of callers, sessions and models, every time to live, window and threshold; for every finite set of cache keys and every
capacity; for every set of requests; for every number of events; for all balances; for every set of processes and keys, every
length of text, every cap and default. They assume only the `ASSUME`s of the modules. Besides typing those say that the set of calls or of keys is finite, since
sums and counts over them are spoken of, and that `None` is none of the values it stands beside.

Every safety property that a passing run checks is the subject of a theorem. None of these properties is inductive; for each component
an invariant is proved that says, for each place its actors can be at, what they hold and owe.

### Operators

- **`PaymentPolicy_proofs`**: `pick_scheme` returns the first compatible entry, if
  there is one (`PickSchemeIsFirst`, by the least element of a set of naturals);
  a list that passes the validations names an entry with a `u64` amount within the cap, for the
  expected recipient (`ValidOffer`).
- **`Payments_proofs`**, quality: `is_degraded` is exact for every answer (`DegradedIsNotGood`). `LoopsAreFound`: the count of equal
  windows reaches the threshold exactly if there are that many places with the same words, for texts of any length, by comparing
  the set of places with its subsets of that size (`SubsetOfSize`).
- **`Payments_proofs`**, sums: `SumRecursion`, `SumOneMore` and `SumMonotonic` say of the folds of the community modules what a sum is. That a fold
  over a finite set has a value, and one value only, would be an induction; it is proved from a least set for which it fails
  (`SmallestMember`), because the library's induction theorems cannot be used.
- **`ResponseCache_proofs`**, lists: `OneEntryPerKey` lists stay such lists under removal, refresh, insertion and eviction, and the entries
  that remain keep their order (`Places`); a list with one entry for a key that is full holds as many keys as its capacity.

### Money

- **`Payments_proofs`**: type correctness and all safety properties. That a response stays within the cap follows from the comparison of the *running
  total*, so the running total must be right, so the amount in the header must be the one that was validated,
  when the payment is answered one or more steps after it was signed. `Inv` states for each value of `pc` what has been spent, what is counted, and what is
  on its way: `FreshInv`, `TotalInv`, `BudgetInv`, `PostsInv`. While a payment is under way
  (`await`) the total lags by exactly the amount in the header; everywhere else it is the
  saturated sum. The proof has one lemma per part of the invariant for a step of the call itself, and
  one (`OthersUntouched`) for the steps of all others.
  - `PaymentsKeepThePromise` is the refinement of `Allowance`. Every step of a call is silent, hands a transfer over, or concludes (`Kinds`); `BudgetInv`
    gives the guard of the second, that a call which pays is within its limit, and of the third, that the result tells the truth about it.
    `ResponsesStayWithinCap` and `BudgetErrorIsTrue` say of a finished call what the refinement says of its last step; no run checks them apart.
  - `LossIsHandedOver`: what has left the wallet and what the gateway could still take (`Pending`) is at most what the calls handed
    over. `Send` adds at most the amount to both sides, less if an equal transfer is there already; `Settle` moves an amount from one term to the other.
    `WalletLossIsCounted` replaces what was handed over by the totals, which are equal where the property speaks.
  - `RetriesAreWorthTheirMoney` joins `AnswersAreChecked` (a bad answer is returned only after the last retry) with `DegradedIsNotGood`.
- **`Proxy_proofs`**: type correctness, and that the handler implements `PaidForwarding`. `Inv` states for each value
  of `pc` whether a payment can have been handed over, that a header ready to be sent is an allowed payment (by `ValidOffer`), and
  how many forwards were made. Every step of a handler is of one of three kinds (`Kinds`): it is silent, hands over, or
  answers; each kind maps to a step of `PaidForwarding` or to a stutter.
- **`ChatStream_proofs`**: type correctness, `OnePaymentPerStream`, and that `chat_stream` implements `PaidForwarding`
  too (`StreamKeepsThePromise`). `MoneyInv`: a header is an allowed transfer (by `ValidOffer`), and nothing is handed over before
  the second POST. So the errors that are free in the abstract specification, which all come before that POST, were free; `OutcomeAtTheEnd` says that an outcome ends the call.

### Shared state

- **`SessionStore_proofs`**: type correctness, the refinement of `StickySessions`, and
  `LiveSessionsAreSticky`. The invariant adds to the types what a caller between its two
  locks still owes. The refinement maps the sessions to themselves; the first lookup that misses is a stutter.
  `CallersAgree` needs more (`BirthInv`): a session lives through the moment in which a caller joins it, so that one which is
  found expired was joined strictly earlier, and its successor is younger than all who joined it.
  `EscalatedAfterThreeStrikes` speaks of the whole history, of which the entry keeps a window: `StrikeInv` says that the window is the end of the
  history, and that the flag is set exactly if some window of the history, the present one included, held enough equal hashes.
- **`ResponseCache_proofs`**: type correctness, `HitsAreFresh` and `Retention`. `UseInv`: the list is in the order of the last uses. `KeptInv`: what was
  offered is in the list, or old, or overtaken by as many other keys as the list holds. What a full list evicts is its last entry, which all others
  have overtaken; an entry that is refused renewal by the deduplication window is younger than the offer by that window at most (`OfferInv`).
- **`SmartChat_proofs`**: the composition under `chat`. An entry holds the response of a call whose key is that of the entry, and
  a key is final before it is used (`EntryInv`, `Final`): hence `CacheServesOwnModel`, although the session may change between lookup and
  store. `NoMoneyMeansFallback`: the balance is read once. `NoRepeatPurchase`, an action property: what was offered is cached, too
  old, or more keys than fit were offered (`KeptIn`), which the lemmas on lists of `ResponseCache_proofs` preserve.
- **`SmartChat_proofs`**, the monitor: `AlarmsAreFalls` from what `was_low` remembers (`FallInv`), `SharedIsRecent` from what an answer on its way
  tells (`AnswerInv`). `MonitorPolls`: the monitor implements the action `Poll` with which `ChatRouting` stands for it, so the composition
  assumes nothing of the balance that the monitor does not do.
- **`ChatStream_proofs`**, sessions: `StrikesHitOwnSession` by `StrikeInv`: between the lookup and the record of
  a call the session of its conversation is the one it joined or was born later by the time to live at least, because it is replaced only when expired.

### Streams and commands

- **`ChatStream_proofs`**, the stream of `ChunkStream`: type correctness, `ItemsMatchEvents` and `SuccessIsWhole`. `ItemsInv` adds that no
  poll follows the end marker, and that what is left after a break or the timeout is errors; `CommandInv` that the command has printed all items when it polls, and all but the last when it holds one.
- **`Commands_proofs`**, the wallet file: `FileInv`, preserved by every step any process makes with the file. A saver that met no other one finds in the
  file the prefix of its text that it has written; while such a saver is the last one to have opened the file, whoever loads has read a prefix of its
  text; and as long as no saver with `force` has opened the file, no saver without it has passed the check if there was a file at the start.
  Every step of a command is a step of the file or leaves it alone (`CommandsUseTheFile`), hence
  `SavedIsLoadable`, `OldKeyNeedsForce` and `LoadFindsSavedKey`.
- **`Commands_proofs`**, the rest: `ClientsAreAsAsked` is proved for every cap and every `U64Max`, from the error that `Products` allows (`CapIsNear` bounds the rounding; of the code
  it tells for caps below 2^49 atomic units), by what `MakeClient` builds and nobody changes. `ReportAgrees` is proved from `DoctorInv`, which says what must have been printed before a
  check is skipped, and `VerdictsAgree`, which compares the two readings of every reply. `TypeCorrect` joins the types of `FileInv` to those of the
  processes (`ProcessTypeOK`).

### What stays with TLC

Liveness: `Answered` and `PollReturns`. Fairness and `ENABLED` are beyond the prover as installed. So are induction over data by the
library's theorems, which take an operator as a parameter, and `RECURSIVE` operators; no module uses `RECURSIVE`, and the folds are proved
about as described above. The three findings are counterexamples, which only a run can show.

## Where the code and its documentation disagree

1. *Cumulative cap* (`payments_cap`). The comment at `client.rs:173` says that the paid amount is used "to enforce
   per-request cumulative budget caps". The code pays first and compares afterwards (259-270), so a
   call may hand over up to twice the cap, and the response it paid for last is dropped.
   `SpendIsBounded` proves that it is never more.
2. *Fallback sticks* (`smartchat_fallback`). A session first created while the balance is zero is created with the fallback
   model, which then replaces the model of every later call of the conversation (`client.rs:122-128`), money or not. That a session keeps its
   model is intended (`config.rs:34`); that the fallback, meant for a balance of zero (43), outlives it this way is not. The property therefore speaks of conversations
   in which no one has asked for the fallback model.
3. *Any RPC error is an empty wallet* (`balance_query`). The documentation of `usdc_balance_of` says that a failure for another
   reason than a missing account is an error; the code returns `0.0` for every error object (`client.rs:678`).

No run states the following; they were seen while reading the code.

- The documentation of `BalanceMonitor::run` says that a tick with a low balance fires the callback (`balance.rs:112`); the code
  fires it when the balance becomes low (150), which `AlarmsAreFalls` states.
- `free_fallback_model` is documented as a free model (`config.rs:43-44`), but a call that fell back still pays if the gateway asks for
  money (`client.rs:378`, and `send_chat_request` for `chat`).
- The proxy's response headers are copied with `insert` (`proxy.rs:229`), so of a header that occurs several times only the last is
  passed on, while the comment at line 43 says that answers are piped through unmodified.
- `save_wallet` looks for the file (`lib.rs:122`) and opens it later; of two processes that create a wallet at once both may succeed, though the
  documentation (113) says that an existing file is not overwritten without `force`. `OldKeyNeedsForce` is what does hold: a file that was there before
  is safe.
- A comment says that a truncated answer is one of more than 100 characters (`quality.rs:43-44`); the code compares bytes.
- `doctor` takes any success of the models and the payment check for good, and prints "returned 200" for it (`doctor.rs:81`, 219-220), while the client
  takes 200 only (`client.rs:442`) and fails when the body of a 200 breaks off (485), which the payment check does not read. `ReportAgrees` leaves both aside.
- After the timeout of the HTTP client the stream returns an error on every poll and never ends (`client.rs:419-421`): a program that skips errors and
  reads until the end does not come back. No documentation speaks of it.
- `doctor` exits with success whatever it has found, and its payment check calls a 402 good when it parses, whether or not the client could pay any of its entries.
- A field of the builder that is not set takes its default, the cap included (`config.rs:187`): a client without a cap cannot be built with it, although
  `max_payment_amount` is optional (28-31).
- `save_wallet` gives the mode 0600 to `open` (149), which uses it only for a file it creates; line 112 says the file is written with it.

## What is not modelled

Cryptography and encodings (keys, BIP-39, base58, base64, bincode), which have no protocol state; the text of
messages and errors, and what the commands print; the breakdown that `estimate_cost` returns, which no program of the
repository calls; the declarations of the command-line arguments; file modes and the expansion of `~`; hash collisions; a panic while
a lock is held; the `X-Solvela-*` headers; the build scripts. `PROJECT.json` lists every part with its
reason, and under `hazards` what is not covered.

## Plan

In this order; what is done is marked.

1. [x] `PaymentPolicy`, `Payments`, their runs and theorems: money first.
2. [x] `SessionTable`, `StickySessions`, `SessionStore`, the refinement and its proof.
3. [x] `CacheTable`, `ResponseCache`.
4. [x] `SmartChat`, the composition of the stores under `chat`.
5. [x] `BalanceMonitor`.
6. [x] `ChatRouting`, `ChatStream`, `ChunkStream`.
7. [x] `PaidForwarding`, `Proxy`, the refinement and its proof.
8. [x] `WalletFile`.
9. [x] `Quality`, against a reference definition over bounded inputs.
10. [x] `ClientConfig`, `Doctor`, `Commands`, over `WalletFile`, with their theorems.
11. [x] Theorems of `ChatStream` and `ChunkStream`, and `CallersAgree`.
12. [x] Theorems of `ResponseCache`, `SmartChat` and `BalanceMonitor`; the escalation of sessions; the money of the wallet and the quality of answers.
13. [x] `Allowance`, the refinement by `Payments`, and that of `PaidForwarding` by `ChatStream`, with their proofs.
14. [ ] `PaidChat`: `Payments` under `SmartChat`, so that what is cached and recorded is tied to what was
    paid, and what becomes of a degraded response in the cache.
