----------------------------- MODULE SmartChat ------------------------------
(***************************************************************************)
(* SolvelaClient::chat around the paid request: the balance guard, session *)
(* affinity, the response cache, and what is stored when the gateway has   *)
(* answered, for calls that share one client.  The operations of the two   *)
(* stores are those of SessionTable and CacheTable, the first two steps    *)
(* those of ChatRouting; the paid request itself, with its retries (module *)
(* Payments), is one step that answers or fails.  A response is named by   *)
(* the call that obtained it.                                              *)
(***************************************************************************)
EXTENDS ChatRouting, CacheTable

CONSTANT CacheOn  \* config.enable_cache

ASSUME SmartChatAssumption ==
  /\ CacheOn \in BOOLEAN
  /\ IsFiniteSet(Calls)
  /\ None \notin Nat

VARIABLES
  cache,     \* cache: the LRU list
  answer,    \* the call whose response is returned, None before
  stored     \* history: when the call offered its response to the cache

vars == <<routing, cache, answer, stored>>

KeyOf(m, r) == <<m, r.sid, r.msgs>>

\* Types; the cache never holds two entries for a key.
TypeOK ==
  /\ RoutingTypeOK
  /\ pc      \in [Calls -> {"idle", "session", "missed", "routed", "upstream",
                            "store", "record", "done"}]
  /\ cache   \in Seq(CacheEntry(Models \X Conversations \X Messages, Calls))
  /\ Len(cache) <= MaxEntries
  /\ \A i, j \in DOMAIN cache : cache[i].key = cache[j].key => i = j
  /\ answer  \in [Calls -> Calls \union {None}]
  /\ stored  \in [Calls -> 0 .. MaxTime \union {None}]

Init ==
  /\ RoutingInit
  /\ cache   = <<>>
  /\ answer  = [c \in Calls |-> None]
  /\ stored  = [c \in Calls |-> None]

-----------------------------------------------------------------------------
\* Mutant: the key is made of the model the caller asked for.
KeyAsRequested(c) == KeyOf(request[c].model, request[c])

\* The key is computed after the model is final.
CacheKey(c) == KeyOf(model[c], request[c])

\* Step 3, the cache check.  A hit ends the call: nothing is recorded.
AnswerFromCache(c) ==
  /\ CacheOn
  /\ Goto(c, "routed", "done")
  /\ Hit(cache, CacheKey(c), now)
  /\ answer' = [answer EXCEPT ![c] = EntryOf(cache, CacheKey(c)).response]
  /\ cache' = AfterGet(cache, CacheKey(c), now)
  /\ UNCHANGED <<now, balance, sessions, settled, stored>>

GoUpstream(c) ==
  /\ Goto(c, "routed", "upstream")
  /\ ~(CacheOn /\ Hit(cache, CacheKey(c), now))
  /\ cache' = IF CacheOn THEN AfterGet(cache, CacheKey(c), now) ELSE cache
  /\ UNCHANGED <<now, balance, sessions, settled, answer, stored>>

\* Steps 4 and 5: the gateway answers, whatever was paid for it.
GatewayAnswers(c) ==
  /\ Goto(c, "upstream", "store")
  /\ answer' = [answer EXCEPT ![c] = c]
  /\ UNCHANGED <<now, balance, sessions, settled, cache, stored>>

\* An error of the paid request, or the call is dropped while it awaits.
GatewayFails(c) ==
  /\ Goto(c, "upstream", "done")
  /\ UNCHANGED <<now, balance, sessions, settled, cache, answer, stored>>

\* Mutant: the response is stored under the key of the requested model.
StoreAsRequested(c) ==
  /\ Goto(c, "store", "record")
  /\ IF CacheOn
       THEN /\ cache' = AfterPut(cache, KeyAsRequested(c), answer[c], now)
            /\ stored' = [stored EXCEPT ![c] = now]
       ELSE UNCHANGED <<cache, stored>>
  /\ UNCHANGED <<now, balance, sessions, settled, answer>>

\* Step 6: the response is offered to the cache ...
Store(c) ==
  /\ Goto(c, "store", "record")
  /\ IF CacheOn
       THEN /\ cache' = AfterPut(cache, CacheKey(c), answer[c], now)
            /\ stored' = [stored EXCEPT ![c] = now]
       ELSE UNCHANGED <<cache, stored>>
  /\ UNCHANGED <<now, balance, sessions, settled, answer>>

\* ... and the request is recorded in whatever session the id has by now.
Record(c) ==
  /\ RecordRequest(c, "record", "done")
  /\ UNCHANGED <<cache, answer, stored>>

\* The call is dropped while it waits for a lock of the session store.
Drop(c) ==
  /\ \/ Goto(c, "session", "done") \/ Goto(c, "missed", "done")
     \/ SessionsOn /\ Goto(c, "record", "done")
  /\ answer' = [answer EXCEPT ![c] = None]
  /\ UNCHANGED <<now, balance, sessions, settled, cache, stored>>

-----------------------------------------------------------------------------
Next ==
  \/ \E c \in Calls :
       \/ Route(c) /\ UNCHANGED <<cache, answer, stored>>
       \/ AnswerFromCache(c) \/ GoUpstream(c)
       \/ GatewayAnswers(c) \/ GatewayFails(c)
       \/ Store(c) \/ Record(c) \/ Drop(c)
  \/ (Poll \/ Tick) /\ UNCHANGED <<cache, answer, stored>>

Spec == Init /\ [][Next]_vars

-----------------------------------------------------------------------------
(* Properties.                                                             *)

\* The model a call went to the cache or the gateway with.
Decided(c) == pc[c] \in {"upstream", "store", "record"} \/ answer[c] # None

\* A response is returned only to a call with the same messages that is routed
\* to the same model, whoever obtained it.
CacheServesOwnModel ==
  \A c \in Calls : answer[c] # None =>
    KeyOf(model[answer[c]], request[answer[c]]) = KeyOf(model[c], request[c])

\* With no money, a call is answered by the fallback model only, whatever model
\* its session sticks to and whatever the cache holds.
NoMoneyMeansFallback ==
  \A c \in Calls : Decided(c) /\ UsesFallback(c) =>
    model[c] = FallbackModel /\ (answer[c] # None => model[answer[c]] = FallbackModel)

\* A call does not go to the gateway when an identical one was answered at most
\* CacheTtl - DedupWindow ago, unless responses for more keys than the cache
\* holds were stored.
NoRepeatPurchase ==
  [][\A c, d \in Calls :
       /\ pc[c] = "routed" /\ pc'[c] = "upstream"
       /\ stored[d] # None /\ CacheKey(c) = CacheKey(d)
       /\ now - stored[d] <= CacheTtl - DedupWindow
       => MaxEntries < Cardinality({CacheKey(e) : e \in {e \in Calls : stored[e] # None}})
    ]_vars

\* What test_chat_no_fallback_when_balance_positive is named for: a call that finds
\* money is not sent to the fallback model, if no one in its conversation has asked
\* for that model, so that a session can have it only from a call without money.
NoFallbackWhenBalancePositive ==
  \A c \in Calls :
    /\ Decided(c) /\ guard[c] = "positive"
    /\ \A d \in Calls : request[d] # None /\ request[d].sid = request[c].sid =>
         request[d].model # FallbackModel
    => model[c] # FallbackModel
=============================================================================
