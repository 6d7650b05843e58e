-------------------------- MODULE ChatStream_proofs -------------------------
(***************************************************************************)
(* chat_stream up to the open stream (module ChatStream) and from there to *)
(* its consumer (module ChunkStream): type correctness of both and their   *)
(* safety properties, for any set of calls, conversations, models, offers  *)
(* and chunks, any policy and any number of events.                        *)
(*                                                                         *)
(* The argument for the money: only a valid offer is signed for, and a     *)
(* call hands over nothing before its second POST, its last.  For the      *)
(* strikes: between the lookup and the record of a call its session can    *)
(* only be replaced after it expired, and then by one that is younger by   *)
(* the time to live at least.  For the stream: the items follow the events *)
(* one for one, the end marker ends the polls, and so does a broken        *)
(* connection, after one more error; the command prints every item before  *)
(* it polls again, and never polls again after an error.                   *)
(***************************************************************************)
EXTENDS ChatStream, ChunkStream, SequenceTheorems, TLAPS

Facts == INSTANCE PaymentPolicy_proofs

\* What a call holds and has handed over.
MoneyInv(c) ==
  /\ pc[c] = "sign" => offer[c] \in Offers
  /\ header[c] # None => PolicyAllows(header[c])
  /\ \A i \in DOMAIN paid[c] : PolicyAllows(paid[c][i])
  /\ pc[c] \notin {"opening", "done"} => paid[c] = <<>>
  /\ Len(paid[c]) <= 1

\* How many POSTs were sent, and what a call that is under way knows.
ProgressInv(c) ==
  /\ pc[c] \in {"idle", "session", "missed", "routed", "recorded"} => posts[c] = 0
  /\ pc[c] \in {"probe", "sign", "open"} => posts[c] = 1
  /\ pc[c] \notin {"idle", "done"} => request[c] \in Request /\ model[c] \in Models

\* The birth of a session is that of the one the call joined, or that of a
\* successor.
SameOrLater(birth, c) ==
  joined[c] \in Nat /\ (birth = joined[c] \/ birth - joined[c] >= SessionTtl)

StrikeInv(c) ==
  /\ pc[c] = "routed" /\ SessionsOn =>
       /\ sessions[request[c].sid] # None
       /\ SameOrLater(sessions[request[c].sid].created, c)
  /\ noted[c] # None => SameOrLater(noted[c], c)
  /\ pc[c] \in {"idle", "session", "missed", "routed"} => noted[c] = None

CallInv(c) == MoneyInv(c) /\ ProgressInv(c) /\ StrikeInv(c)

Inv ==
  /\ TypeOK
  /\ \A s \in Conversations : sessions[s] # None => sessions[s].created <= now
  /\ \A c \in Calls : CallInv(c)

-----------------------------------------------------------------------------
\* What is signed for a valid offer is allowed.
LEMMA ValidIsAllowed ==
  ASSUME NEW o \in Offers, Policy!Validate(o) = "valid"
  PROVE  LET a == Policy!PickScheme(o) IN PolicyAllows([to |-> a.payTo, amount |-> a.amount])
<1> DEFINE a == Policy!PickScheme(o)
<1>1. Facts!PolicyAssumption /\ o \in Seq(Facts!Accept) /\ Facts!Validate(o) = "valid"
  BY ChatStreamAssumption
     DEF Policy!PolicyAssumption, Policy!Accept, Policy!Amount, Policy!Validate,
         Policy!HasCompatible, Policy!Compatible, Policy!PickScheme,
         Facts!PolicyAssumption, Facts!Accept, Facts!Amount, Facts!Validate,
         Facts!HasCompatible, Facts!Compatible, Facts!PickScheme
<1>2. /\ a.payTo \in Recipients
      /\ a.amount \in Policy!Amount
      /\ \E i \in DOMAIN o : a = o[i]
      /\ Policy!Compatible(a)
      /\ ExpectedRecipient # None => a.payTo = ExpectedRecipient
      /\ MaxPayment # None => a.amount <= MaxPayment
  BY <1>1, Facts!ValidOffer DEF Facts!Amount, Policy!Amount,
     Policy!Compatible, Facts!Compatible, Policy!PickScheme, Facts!PickScheme
<1> HIDE DEF a
<1>3. [to |-> a.payTo, amount |-> a.amount] \in Transfer
  BY <1>2 DEF Transfer
<1>4. PolicyAllows([to |-> a.payTo, amount |-> a.amount])
  BY <1>2, <1>3 DEF PolicyAllows
<1> QED
  BY <1>4 DEF a

\* Recording leaves the birth of a session alone.
LEMMA RecordedEntry ==
  ASSUME NEW e \in SessionEntry(Models, Messages), NEW h \in Messages
  PROVE  /\ Recorded(e, h) \in SessionEntry(Models, Messages)
         /\ Recorded(e, h).created = e.created
<1>1. Push(e.recent, h) \in Seq(Messages)
  BY SessionTableAssumption DEF Push, SessionEntry
<1>2. StruckOut(Push(e.recent, h)) \in BOOLEAN
  BY DEF StruckOut
<1> QED
  BY <1>1, <1>2 DEF Recorded, SessionEntry

-----------------------------------------------------------------------------
\* What is none of its business leaves the invariant of a call alone.
LEMMA CallKept ==
  ASSUME Inv, NEW c \in Calls,
         UNCHANGED <<pc[c], request[c], model[c], offer[c], header[c], posts[c],
                     paid[c], joined[c], noted[c]>>,
         pc[c] = "routed" /\ SessionsOn =>
           UNCHANGED <<sessions[request[c].sid]>>
  PROVE  CallInv(c)'
  BY Zenon DEF Inv, CallInv, MoneyInv, ProgressInv, StrikeInv, SameOrLater

\* A call that ends.
LEMMA ReturnHolds ==
  ASSUME Inv, NEW c \in Calls, NEW from, NEW r \in Errors \union {"stream"},
         Return(c, from, r)
  PROVE  Inv'
<1>1. /\ pc' = [pc EXCEPT ![c] = "done"]
      /\ outcome' = [outcome EXCEPT ![c] = r]
      /\ UNCHANGED <<now, balance, sessions, request, model, guard, offer, header,
                     posts, paid, joined, noted>>
  BY DEF Return, Goto, settled, hist
<1>2. TypeOK'
  BY <1>1 DEF Inv, TypeOK, RoutingTypeOK
<1>3. pc'[c] = "done" /\ \A d \in Calls \ {c} : pc'[d] = pc[d]
  BY <1>1 DEF Inv, TypeOK
<1>4. \A d \in Calls \ {c} : CallInv(d)'
  BY <1>1, <1>3, CallKept
<1>5. CallInv(c)'
  BY <1>1, <1>3 DEF Inv, CallInv, MoneyInv, ProgressInv, StrikeInv, SameOrLater
<1> QED
  BY <1>1, <1>2, <1>4, <1>5 DEF Inv

\* The money side of a routing step.
LEMMA SettleTypes ==
  ASSUME Inv, NEW c \in Calls, Settle(c)
  PROVE  /\ UNCHANGED <<now, offer, header, outcome, posts, paid, noted>>
         /\ \A d \in Calls \ {c} :
              UNCHANGED <<pc[d], request[d], model[d], joined[d]>>
         /\ pc[c] \in {"idle", "session", "missed"}
         /\ pc'[c] \in {"session", "missed", "routed"}
         /\ pc' \in [Calls -> {"idle", "session", "missed", "routed", "recorded",
                               "probe", "sign", "open", "opening", "done"}]
         /\ balance' = balance
         /\ guard' \in [Calls -> {"unknown", "zero", "positive", None}]
         /\ request' \in [Calls -> Request \union {None}]
         /\ model' \in [Calls -> Models \union {None}]
         /\ request'[c] \in Request /\ model'[c] \in Models
         /\ pc[c] = "idle" => UNCHANGED sessions
         /\ pc[c] # "idle" => request' = request
<1>1. /\ Route(c) /\ UNCHANGED <<offer, header, outcome, posts, paid, noted>>
      /\ \A d \in Calls \ {c} : joined'[d] = joined[d]
  BY DEF Settle, payment, Inv, TypeOK
<1>2. CASE Begin(c)
  <2>1. PICK r \in Request :
          /\ request' = [request EXCEPT ![c] = r]
          /\ model' = [model EXCEPT ![c] =
               IF FallbackModel # None /\ balance = "zero" THEN FallbackModel ELSE r.model]
    BY <1>2 DEF Begin
  <2>2. (IF FallbackModel # None /\ balance = "zero" THEN FallbackModel ELSE r.model)
          \in Models
    BY ChatRoutingAssumption DEF Request
  <2> QED
    BY <1>1, <1>2, <2>1, <2>2 DEF Begin, Goto, Inv, TypeOK, RoutingTypeOK
<1>3. CASE FindSession(c)
  <2>1. request[c] \in Request /\ model[c] \in Models /\ request[c].sid \in Conversations
    BY <1>3 DEF FindSession, Inv, CallInv, ProgressInv, Request
  <2>2. sessions[request[c].sid].model \in Models
    BY <1>3, <2>1 DEF FindSession, Live, Inv, TypeOK, RoutingTypeOK, SessionEntry
  <2>3. Routed(c, sessions[request[c].sid].model) \in Models
    BY <2>1, <2>2 DEF Routed
  <2> QED
    BY <1>1, <1>3, <2>1, <2>3 DEF FindSession, Inv, TypeOK, RoutingTypeOK
<1>4. CASE MissSession(c)
  BY <1>1, <1>4
     DEF MissSession, Goto, settled, Inv, TypeOK, RoutingTypeOK, CallInv, ProgressInv
<1>5. CASE CreateSession(c)
  BY <1>1, <1>5
     DEF CreateSession, Goto, settled, Inv, TypeOK, RoutingTypeOK, CallInv, ProgressInv
<1> QED
  BY <1>1, <1>2, <1>3, <1>4, <1>5 DEF Route

\* A session is joined while it lives, replaced only after.
LEMMA SettleSessions ==
  ASSUME Inv, NEW c \in Calls, Settle(c)
  PROVE  /\ sessions' \in [Conversations -> SessionEntry(Models, Messages) \union {None}]
         /\ \A s \in Conversations :
              /\ sessions'[s] # None =>
                   sessions'[s].created \in Nat /\ sessions'[s].created <= now
              /\ sessions[s] # None =>
                   /\ sessions'[s] # None
                   /\ \/ sessions'[s].created = sessions[s].created
                      \/ sessions'[s].created = now /\ now - sessions[s].created >= SessionTtl
         /\ pc'[c] = "routed" /\ SessionsOn =>
              /\ sessions'[request'[c].sid] # None
              /\ joined' = [joined EXCEPT ![c] = sessions'[request'[c].sid].created]
         /\ pc'[c] # "routed" \/ ~SessionsOn => joined' = joined
<1>1. /\ Route(c)
      /\ joined' = IF SessionsOn /\ pc'[c] = "routed"
                 THEN [joined EXCEPT ![c] = sessions'[request[c].sid].created]
                 ELSE joined
  BY DEF Settle
<1>2. ASSUME NEW s \in Conversations, sessions[s] # None
      PROVE  sessions[s] \in SessionEntry(Models, Messages) /\ sessions[s].created \in Nat
             /\ sessions[s].created <= now
  BY <1>2 DEF Inv, TypeOK, RoutingTypeOK, SessionEntry
<1>3. CASE Begin(c)
  <2>1. UNCHANGED sessions /\ (SessionsOn => pc'[c] # "routed")
    BY <1>3 DEF Begin, Goto, Inv, TypeOK
  <2> QED
    BY <1>1, <1>2, <2>1 DEF Inv, TypeOK, RoutingTypeOK
<1>4. CASE FindSession(c) \/ MissSession(c)
  <2>1. /\ UNCHANGED <<sessions, request>>
        /\ pc'[c] = "routed" => Live(sessions[request[c].sid], now)
    BY <1>4 DEF FindSession, MissSession, Goto, settled, Inv, TypeOK
  <2> QED
    BY <1>1, <1>2, <2>1 DEF Live, Inv, TypeOK, RoutingTypeOK
<1>5. CASE CreateSession(c)
  <2> DEFINE e == FreshEntry(model[c], now)
             sid == request[c].sid
  <2>1. /\ sessions' = [sessions EXCEPT ![sid] = e] /\ request' = request
        /\ ~Live(sessions[sid], now) /\ now \in Nat
        /\ sid \in Conversations /\ model[c] \in Models
    <3>1. /\ sessions' = [sessions EXCEPT ![sid] = e] /\ request' = request
          /\ ~Live(sessions[sid], now) /\ pc[c] = "missed"
      BY <1>5 DEF CreateSession, Goto, settled
    <3>2. request[c] \in Request /\ model[c] \in Models
      BY <3>1 DEF Inv, CallInv, ProgressInv
    <3> QED
      BY <3>1, <3>2, ChatRoutingAssumption DEF Inv, TypeOK, RoutingTypeOK, Request
  <2>2. e \in SessionEntry(Models, Messages) /\ e.created = now
    BY <2>1 DEF FreshEntry, SessionEntry
  <2> HIDE DEF e
  <2>3. sessions'[sid] = e /\ \A s \in Conversations \ {sid} : sessions'[s] = sessions[s]
    BY <2>1 DEF Inv, TypeOK, RoutingTypeOK
  <2>4. e # None
    BY <2>2, ChatRoutingAssumption
  <2>5. sessions[sid] # None => now - sessions[sid].created >= SessionTtl
    BY <1>2, <2>1, SessionTableAssumption DEF Live
  <2>6. sessions' \in [Conversations -> SessionEntry(Models, Messages) \union {None}]
    BY <2>1, <2>2 DEF Inv, TypeOK, RoutingTypeOK
  <2> QED
    BY <1>1, <1>2, <2>1, <2>2, <2>3, <2>4, <2>5, <2>6
<1> QED
  BY <1>1, <1>3, <1>4, <1>5 DEF Route

\* A call that is routed joins the session it found or made, and those that joined
\* a session before it see it replaced only after it expired.
LEMMA SettleHolds ==
  ASSUME Inv, NEW c \in Calls, Settle(c)
  PROVE  Inv'
<1>1. Conversations = Conversations /\ now' = now /\ now \in Nat /\ None \notin Nat
  BY SettleTypes, ChatRoutingAssumption, ChatStreamAssumption
     DEF Inv, TypeOK, RoutingTypeOK, Policy!PolicyAssumption
<1>2. request'[c].sid \in Conversations
  BY SettleTypes DEF Request
<1>3. joined' \in [Calls -> Nat \union {None}]
  BY <1>2, SettleSessions DEF Inv, TypeOK
<1>4. TypeOK'
  BY <1>1, <1>3, SettleTypes, SettleSessions, Zenon DEF Inv, TypeOK, RoutingTypeOK
<1>5. ASSUME NEW d \in Calls, d # c PROVE CallInv(d)'
  <2>1. UNCHANGED <<pc[d], request[d], model[d], offer[d], header[d], posts[d], paid[d],
                    joined[d], noted[d]>>
    BY <1>5, SettleTypes
  <2>2. MoneyInv(d)' /\ ProgressInv(d)'
    BY <2>1 DEF Inv, CallInv, MoneyInv, ProgressInv
  <2>3. StrikeInv(d)'
    <3>1. noted'[d] # None => SameOrLater(noted[d], d)'
      BY <2>1 DEF Inv, CallInv, StrikeInv, SameOrLater
    <3>2. ASSUME pc[d] = "routed", SessionsOn
          PROVE  /\ sessions'[request[d].sid] # None
                 /\ SameOrLater(sessions'[request[d].sid].created, d)
      <4> DEFINE sid == request[d].sid
      <4>1. /\ sid \in Conversations /\ sessions[sid] # None
            /\ SameOrLater(sessions[sid].created, d)
        BY <3>2 DEF Inv, CallInv, StrikeInv, ProgressInv, Request
      <4>2. sessions[sid].created \in Nat /\ sessions[sid].created <= now
        BY <4>1 DEF Inv, TypeOK, RoutingTypeOK, SessionEntry
      <4>3. /\ sessions'[sid] # None
            /\ \/ sessions'[sid].created = sessions[sid].created
               \/ sessions'[sid].created = now /\ now - sessions[sid].created >= SessionTtl
        BY <4>1, SettleSessions
      <4> QED
        BY <1>1, <4>1, <4>2, <4>3, SessionTableAssumption DEF SameOrLater
    <3>3. pc[d] \in {"idle", "session", "missed", "routed"} => noted[d] = None
      BY DEF Inv, CallInv, StrikeInv
    <3> QED
      BY <2>1, <3>1, <3>2, <3>3 DEF StrikeInv, SameOrLater
  <2> QED
    BY <2>2, <2>3 DEF CallInv
<1>6. CallInv(c)'
  <2>1. MoneyInv(c)' /\ ProgressInv(c)'
    BY SettleTypes DEF Inv, CallInv, MoneyInv, ProgressInv
  <2>2. noted'[c] = None
    BY SettleTypes DEF Inv, CallInv, StrikeInv, ProgressInv, MoneyInv
  <2>3. ASSUME pc'[c] = "routed", SessionsOn
        PROVE  /\ sessions'[request'[c].sid] # None
               /\ joined'[c] = sessions'[request'[c].sid].created
               /\ joined'[c] \in Nat
    BY <1>2, <2>3, SettleSessions DEF Inv, TypeOK
  <2> QED
    BY <2>1, <2>2, <2>3, Zenon DEF CallInv, StrikeInv, SameOrLater
<1>7. \A s \in Conversations : sessions'[s] # None => sessions'[s].created <= now'
  BY <1>1, SettleSessions
<1> QED
  BY <1>4, <1>5, <1>6, <1>7 DEF Inv

\* The record counts in the session as it is found.
LEMMA RecordHolds ==
  ASSUME Inv, NEW c \in Calls, Record(c)
  PROVE  Inv'
<1> DEFINE sid == request[c].sid
<1>1. /\ pc[c] = "routed" /\ pc' = [pc EXCEPT ![c] = "recorded"]
      /\ sessions' = IF SessionsOn /\ sessions[sid] # None
                       THEN [sessions EXCEPT ![sid] = Recorded(sessions[sid], request[c].msgs)]
                       ELSE sessions
      /\ noted' = IF SessionsOn THEN [noted EXCEPT ![c] = sessions'[sid].created] ELSE noted
      /\ UNCHANGED <<now, balance, request, model, guard, offer, header, outcome, posts,
                     paid, joined>>
  BY DEF Record, RecordRequest, Goto, settled, payment
<1>2. sid \in Conversations /\ request[c].msgs \in Messages
  BY <1>1 DEF Inv, CallInv, ProgressInv, Request
<1>3. /\ sessions' \in [Conversations -> SessionEntry(Models, Messages) \union {None}]
      /\ \A s \in Conversations : sessions[s] # None =>
           sessions'[s] # None /\ sessions'[s].created = sessions[s].created
      /\ \A s \in Conversations : sessions[s] = None => sessions'[s] = None
  <2>1. CASE SessionsOn /\ sessions[sid] # None
    <3>1. sessions[sid] \in SessionEntry(Models, Messages)
      BY <1>2, <2>1 DEF Inv, TypeOK, RoutingTypeOK
    <3>2. /\ Recorded(sessions[sid], request[c].msgs) \in SessionEntry(Models, Messages)
          /\ Recorded(sessions[sid], request[c].msgs).created = sessions[sid].created
      BY <1>2, <3>1, RecordedEntry
    <3>3. Recorded(sessions[sid], request[c].msgs) # None
      BY <3>2, ChatRoutingAssumption
    <3> QED
      BY <1>1, <1>2, <2>1, <3>2, <3>3 DEF Inv, TypeOK, RoutingTypeOK
  <2>2. CASE ~(SessionsOn /\ sessions[sid] # None)
    BY <1>1, <2>2 DEF Inv, TypeOK, RoutingTypeOK
  <2> QED
    BY <2>1, <2>2
<1>4. SessionsOn =>
        /\ sessions[sid] # None /\ sessions'[sid].created = sessions[sid].created
        /\ sessions[sid].created \in Nat
        /\ SameOrLater(sessions[sid].created, c)
  BY <1>1, <1>2, <1>3
     DEF Inv, CallInv, StrikeInv, TypeOK, RoutingTypeOK, SessionEntry
<1>5. TypeOK'
  BY <1>1, <1>3, <1>4 DEF Inv, TypeOK, RoutingTypeOK
<1>6. \A d \in Calls \ {c} : pc'[d] = pc[d] /\ noted'[d] = noted[d]
  BY <1>1 DEF Inv, TypeOK
<1>7. ASSUME NEW d \in Calls, d # c PROVE CallInv(d)'
  <2>1. UNCHANGED <<pc[d], noted[d]>>
    BY <1>6, <1>7
  <2>2. MoneyInv(d)' /\ ProgressInv(d)'
    BY <1>1, <2>1 DEF Inv, CallInv, MoneyInv, ProgressInv
  <2>3. pc[d] = "routed" => request[d].sid \in Conversations
    BY DEF Inv, CallInv, ProgressInv, Request
  <2>4. StrikeInv(d)'
    BY <1>1, <1>3, <2>1, <2>3 DEF Inv, CallInv, StrikeInv, SameOrLater
  <2> QED
    BY <2>2, <2>4 DEF CallInv
<1>8. CallInv(c)'
  <2>1. pc'[c] = "recorded" /\ (SessionsOn => noted'[c] = sessions[sid].created)
    BY <1>1, <1>4 DEF Inv, TypeOK
  <2>2. MoneyInv(c)' /\ ProgressInv(c)'
    BY <1>1, <2>1 DEF Inv, CallInv, MoneyInv, ProgressInv
  <2>3. StrikeInv(c)'
    BY <1>1, <1>4, <2>1 DEF Inv, CallInv, StrikeInv, SameOrLater
  <2> QED
    BY <2>2, <2>3 DEF CallInv
<1>9. \A s \in Conversations : sessions'[s] # None => sessions'[s].created <= now'
  BY <1>1, <1>3 DEF Inv
<1> QED
  BY <1>5, <1>7, <1>8, <1>9 DEF Inv

\* From the record to the open stream the session table is out of sight.
LEMMA PaymentHolds ==
  ASSUME Inv, NEW c \in Calls,
         \/ Probe(c) \/ ProbeOk(c) \/ ProbeDemandsPayment(c) \/ Sign(c) \/ Open(c)
  PROVE  Inv'
<1>1. /\ UNCHANGED <<now, balance, sessions, request, model, guard, outcome, joined, noted>>
      /\ pc[c] \in {"recorded", "probe", "sign", "open"}
      /\ pc'[c] \in {"probe", "open", "sign", "opening"}
      /\ \A d \in Calls \ {c} : pc'[d] = pc[d]
      /\ pc' \in [Calls -> {"idle", "session", "missed", "routed", "recorded",
                            "probe", "sign", "open", "opening", "done"}]
  BY DEF Probe, ProbeOk, ProbeDemandsPayment, Sign, Open, Goto, settled, payment, hist,
         Inv, TypeOK
<1>2. /\ MoneyInv(c)' /\ ProgressInv(c)'
      /\ \A d \in Calls \ {c} : UNCHANGED <<offer[d], header[d], posts[d], paid[d]>>
      /\ offer' \in [Calls -> Offers \union {<<>>}]
      /\ header' \in [Calls -> Transfer \union {None}]
      /\ posts' \in [Calls -> 0 .. 2]
      /\ paid' \in [Calls -> Seq(Transfer)]
  <2>1. CASE Probe(c)
    BY <1>1, <2>1
       DEF Probe, Post, payment, Goto, Inv, TypeOK, CallInv, MoneyInv, ProgressInv
  <2>2. CASE ProbeOk(c)
    BY <1>1, <2>2
       DEF ProbeOk, payment, hist, Goto, Inv, TypeOK, CallInv, MoneyInv, ProgressInv
  <2>3. CASE ProbeDemandsPayment(c)
    <3>1. PICK o \in Offers : offer' = [offer EXCEPT ![c] = o]
      BY <2>3 DEF ProbeDemandsPayment
    <3>2. /\ pc[c] = "probe" /\ pc'[c] = "sign"
          /\ UNCHANGED <<header, posts, paid>>
      BY <1>1, <2>3 DEF ProbeDemandsPayment, hist, Goto, Inv, TypeOK
    <3>3. offer' \in [Calls -> Offers \union {<<>>}] /\ offer'[c] = o
          /\ \A d \in Calls \ {c} : offer'[d] = offer[d]
      BY <3>1 DEF Inv, TypeOK
    <3> QED
      BY <1>1, <3>2, <3>3 DEF Inv, TypeOK, CallInv, MoneyInv, ProgressInv
  <2>4. CASE Sign(c)
    <3> DEFINE a == Policy!PickScheme(offer[c])
               t == [to |-> a.payTo, amount |-> a.amount]
    <3>1. PolicyAllows(t) /\ header' = [header EXCEPT ![c] = t]
      <4>1. offer[c] \in Offers /\ Policy!Validate(offer[c]) = "valid"
        BY <2>4 DEF Sign, Goto, Inv, CallInv, MoneyInv
      <4>2. PolicyAllows(t)
        BY <4>1, ValidIsAllowed
      <4> QED
        BY <2>4, <4>2 DEF Sign
    <3>2. t \in Transfer
      BY <3>1 DEF PolicyAllows
    <3> HIDE DEF t
    <3>3. /\ pc[c] = "sign" /\ pc'[c] = "open" /\ header'[c] = t
          /\ UNCHANGED <<offer, posts, paid>>
      BY <1>1, <2>4, <3>1 DEF Sign, Goto, hist, Inv, TypeOK
    <3> QED
      BY <1>1, <3>1, <3>2, <3>3 DEF Inv, TypeOK, CallInv, MoneyInv, ProgressInv
  <2>5. CASE Open(c)
    <3>1. /\ pc[c] = "open" /\ pc'[c] = "opening" /\ UNCHANGED <<offer, header>>
          /\ posts' = [posts EXCEPT ![c] = posts[c] + 1]
          /\ paid' = IF header[c] = None THEN paid
                     ELSE [paid EXCEPT ![c] = Append(paid[c], header[c])]
      BY <1>1, <2>5 DEF Open, Post, payment, Goto, Inv, TypeOK
    <3>2. posts[c] = 1 /\ paid[c] = <<>>
      BY <3>1 DEF Inv, CallInv, MoneyInv, ProgressInv
    <3>3. header[c] # None => PolicyAllows(header[c]) /\ header[c] \in Transfer
      BY DEF PolicyAllows, Inv, CallInv, MoneyInv
    <3>4. header[c] # None =>
            /\ Append(paid[c], header[c]) \in Seq(Transfer)
            /\ Len(Append(paid[c], header[c])) = 1
            /\ Append(paid[c], header[c])[1] = header[c]
            /\ DOMAIN Append(paid[c], header[c]) = {1}
      BY <3>2, <3>3
    <3>5. /\ header[c] # None => paid'[c] = Append(paid[c], header[c])
          /\ header[c] = None => paid'[c] = <<>>
          /\ paid' \in [Calls -> Seq(Transfer)] /\ posts' \in [Calls -> 0 .. 2]
          /\ \A d \in Calls \ {c} : UNCHANGED <<posts[d], paid[d]>>
      BY <3>1, <3>2, <3>4 DEF Inv, TypeOK
    <3>6. /\ \A i \in DOMAIN paid'[c] : PolicyAllows(paid'[c][i])
          /\ Len(paid'[c]) <= 1
      BY <3>3, <3>4, <3>5
    <3>7. MoneyInv(c)'
      BY <3>1, <3>3, <3>6 DEF MoneyInv, PolicyAllows, Inv, CallInv
    <3>8. ProgressInv(c)'
      BY <1>1, <3>1 DEF ProgressInv, Inv, CallInv
    <3> QED
      BY <3>1, <3>5, <3>7, <3>8 DEF Inv, TypeOK
  <2> QED
    BY <2>1, <2>2, <2>3, <2>4, <2>5
<1>3. TypeOK'
  BY <1>1, <1>2 DEF Inv, TypeOK, RoutingTypeOK
<1>4. \A d \in Calls \ {c} : CallInv(d)'
  BY <1>1, <1>2, CallKept
<1>5. StrikeInv(c)'
  BY <1>1 DEF Inv, CallInv, StrikeInv, SameOrLater
<1> QED
  BY <1>1, <1>2, <1>3, <1>4, <1>5 DEF Inv, CallInv

\* The endings of a call.
LEMMA EndHolds ==
  ASSUME Inv, NEW c \in Calls,
         \/ ProbeFails(c) \/ Refuse(c) \/ SigningFails(c)
         \/ Opened(c) \/ OpenRefused(c) \/ Drop(c)
  PROVE  Inv'
<1>1. Refuse(c) => Policy!Validate(offer[c]) \in Errors
  BY Zenon DEF Refuse, Policy!Validate, Errors, Policy!ValidationErrors
<1>2. {"Gateway", "ParseError", "Network", "Signing", "Dropped"} \subseteq Errors
  BY DEF Errors
<1> QED
  BY <1>1, <1>2, ReturnHolds
     DEF ProbeFails, Refuse, SigningFails, Opened, OpenRefused, Drop

\* Every step of a call and of the world around it.
LEMMA Invariant ==
  Spec => []Inv
<1>1. Init => Inv
  BY ChatRoutingAssumption, ChatStreamAssumption
     DEF Init, RoutingInit, Inv, TypeOK, RoutingTypeOK,
         CallInv, MoneyInv, ProgressInv, StrikeInv
<1>2. Inv /\ [Next]_vars => Inv'
  <2> SUFFICES ASSUME Inv, [Next]_vars PROVE Inv'
    OBVIOUS
  <2>1. ASSUME NEW c \in Calls, CallStep(c) \/ Drop(c) PROVE Inv'
    BY <2>1, SettleHolds, RecordHolds, PaymentHolds, EndHolds DEF CallStep
  <2>2. CASE (Poll \/ Tick) /\ UNCHANGED <<payment, hist>>
    <3>1. /\ UNCHANGED <<sessions, pc, request, model, guard, offer, header, outcome, posts,
                         paid, joined, noted>>
          /\ now' \in 0 .. MaxTime /\ now <= now'
          /\ balance' \in {"unknown", "zero", "positive"}
      <4>1. now \in 0 .. MaxTime /\ balance \in {"unknown", "zero", "positive"}
        BY DEF Inv, TypeOK, RoutingTypeOK
      <4>2. CASE Poll
        BY <2>2, <4>1, <4>2, ChatRoutingAssumption DEF Poll, settled, payment, hist
      <4>3. CASE Tick
        BY <2>2, <4>1, <4>3, ChatRoutingAssumption DEF Tick, settled, payment, hist
      <4> QED
        BY <2>2, <4>2, <4>3
    <3>2. TypeOK'
      BY <3>1 DEF Inv, TypeOK, RoutingTypeOK
    <3>3. \A c \in Calls : CallInv(c)'
      BY <3>1, CallKept
    <3>4. ASSUME NEW s \in Conversations, sessions'[s] # None
          PROVE  sessions'[s].created <= now'
      BY <3>1, <3>4, ChatRoutingAssumption DEF Inv, TypeOK, RoutingTypeOK, SessionEntry
    <3> QED
      BY <3>2, <3>3, <3>4 DEF Inv
  <2>3. CASE UNCHANGED vars
    <3>1. UNCHANGED <<now, balance, sessions, pc, request, model, guard, offer, header,
                      outcome, posts, paid, joined, noted>>
      BY <2>3 DEF vars, routing, settled, payment, hist
    <3>2. \A c \in Calls : CallInv(c)'
      BY <3>1, CallKept
    <3> QED
      BY <3>1, <3>2 DEF Inv, TypeOK, RoutingTypeOK
  <2> QED
    BY <2>1, <2>2, <2>3 DEF Next
<1> QED
  BY <1>1, <1>2, PTL DEF Spec

-----------------------------------------------------------------------------
\* Every variable has its type; no call sends a third POST.
THEOREM TypeCorrect ==
  Spec => []TypeOK
<1>1. Inv => TypeOK
  BY DEF Inv
<1> QED
  BY <1>1, Invariant, PTL

\* A stream costs one payment at most, and one that the policy allows, whatever
\* the gateway answers to the two POSTs.
THEOREM PaysOnce ==
  Spec => []OnePaymentPerStream
<1>1. Inv => OnePaymentPerStream
  BY DEF Inv, CallInv, MoneyInv, PolicyAllows, OnePaymentPerStream
<1> QED
  BY <1>1, Invariant, PTL

\* A strike counts in the session that chose the model of the request, or that
\* session expired before the record.
THEOREM StrikesAreOwn ==
  Spec => []StrikesHitOwnSession
<1>1. Inv => StrikesHitOwnSession
  BY DEF Inv, CallInv, StrikeInv, SameOrLater, StrikesHitOwnSession
<1> QED
  BY <1>1, Invariant, PTL

-----------------------------------------------------------------------------
(* chat_stream implements PaidForwarding.                                  *)

Undecided == \A c \in Calls : pc[c] # "done" => outcome[c] = "none"

Free  == Policy!ValidationErrors \union {"ParseError", "Signing"}
Other == {"Gateway", "Network", "Dropped", "stream"}

\* Every step of a call is of one of three kinds, as far as payments and answers go.
Silent(c)   == UNCHANGED <<paid, outcome>> /\ pc[c] # "done" /\ pc'[c] # "done"
HandOver(c) == /\ pc[c] = "open" /\ pc'[c] = "opening" /\ header[c] # None
               /\ paid' = [paid EXCEPT ![c] = Append(paid[c], header[c])]
               /\ UNCHANGED outcome
Closes(c)   == \E a \in Free \union Other :
                 /\ pc[c] # "done" /\ pc' = [pc EXCEPT ![c] = "done"]
                 /\ outcome' = [outcome EXCEPT ![c] = a]
                 /\ UNCHANGED paid
                 /\ a \in Free => pc[c] # "opening"

\* Each step of a call is of one of them, and leaves the other calls where they are.
LEMMA Kinds ==
  ASSUME Inv, NEW c \in Calls, CallStep(c) \/ Drop(c)
  PROVE  /\ Silent(c) \/ HandOver(c) \/ Closes(c)
         /\ \A d \in Calls \ {c} : pc'[d] = pc[d]
<1>1. CASE Settle(c)
  <2>1. /\ UNCHANGED <<paid, outcome>>
        /\ pc[c] \in {"idle", "session", "missed"}
        /\ pc'[c] \in {"session", "missed", "routed"}
        /\ \A d \in Calls \ {c} : pc'[d] = pc[d]
    BY <1>1, SettleTypes
  <2> QED
    BY <2>1 DEF Silent
<1>2. CASE Record(c)
  BY <1>2 DEF Record, RecordRequest, Goto, payment, Silent, Inv, TypeOK
<1>3. CASE Probe(c) \/ ProbeOk(c) \/ ProbeDemandsPayment(c) \/ Sign(c)
  BY <1>3 DEF Probe, ProbeOk, ProbeDemandsPayment, Sign, Goto, payment, hist, Silent,
              Inv, TypeOK
<1>4. CASE Open(c)
  BY <1>4 DEF Open, Goto, payment, Silent, HandOver, Inv, TypeOK
<1>5. ASSUME NEW from, NEW a \in Free \union Other, Return(c, from, a),
             from \in {"session", "missed", "routed", "probe", "sign", "opening"},
             a \in Free => from # "opening"
      PROVE  /\ Closes(c)
             /\ \A d \in Calls \ {c} : pc'[d] = pc[d]
  BY <1>5 DEF Return, Goto, hist, Closes, Inv, TypeOK
<1>6. CASE ProbeFails(c)
  BY <1>5, <1>6 DEF ProbeFails, Free, Other
<1>7. CASE Refuse(c)
  <2>1. Policy!Validate(offer[c]) \in Free
    BY <1>7, Zenon DEF Refuse, Policy!Validate, Free, Policy!ValidationErrors
  <2> QED
    BY <1>5, <1>7, <2>1 DEF Refuse
<1>8. CASE SigningFails(c)
  BY <1>5, <1>8 DEF SigningFails, Free
<1>9. CASE Opened(c)
  <2>1. "stream" \in Other /\ "stream" \notin Free
    BY DEF Free, Other, Policy!ValidationErrors
  <2> QED
    BY <1>5, <1>9, <2>1 DEF Opened
<1>10. CASE OpenRefused(c)
  <2>1. {"Gateway", "Network"} \subseteq Other /\ {"Gateway", "Network"} \intersect Free = {}
    BY DEF Free, Other, Policy!ValidationErrors
  <2> QED
    BY <1>5, <1>10, <2>1 DEF OpenRefused
<1>11. CASE Drop(c)
  <2>1. "Dropped" \in Other /\ "Dropped" \notin Free
    BY DEF Free, Other, Policy!ValidationErrors
  <2> QED
    BY <1>5, <1>11, <2>1 DEF Drop
<1> QED
  BY <1>1, <1>2, <1>3, <1>4, <1>6, <1>7, <1>8, <1>9, <1>10, <1>11, Zenon DEF CallStep

\* What is none of a call's steps touches neither payments nor answers.
LEMMA OtherSteps ==
  ASSUME [Next]_vars, ~ \E c \in Calls : CallStep(c) \/ Drop(c)
  PROVE  UNCHANGED <<pc, paid, outcome>>
<1>1. ((Poll \/ Tick) /\ UNCHANGED <<payment, hist>>) \/ UNCHANGED vars
  BY DEF Next
<1> QED
  BY <1>1 DEF Poll, Tick, vars, routing, settled, payment, hist

\* A call has an outcome once it is done, no earlier.
LEMMA OutcomeAtTheEnd ==
  Spec => []Undecided
<1>1. Init => Undecided
  BY DEF Init, Undecided
<1>2. Inv /\ Undecided /\ [Next]_vars => Undecided'
  <2> SUFFICES ASSUME Inv, Undecided, [Next]_vars PROVE Undecided'
    OBVIOUS
  <2>1. ASSUME NEW c \in Calls, CallStep(c) \/ Drop(c) PROVE Undecided'
    <3>1. \A d \in Calls \ {c} : pc'[d] = pc[d]
      BY <2>1, Kinds
    <3>2. CASE Silent(c)
      BY <3>1, <3>2 DEF Silent, Undecided
    <3>3. CASE HandOver(c)
      BY <3>1, <3>3 DEF HandOver, Undecided
    <3>4. CASE Closes(c)
      BY <3>1, <3>4 DEF Closes, Undecided, Inv, TypeOK
    <3> QED
      BY <2>1, <3>2, <3>3, <3>4, Kinds
  <2> QED
    BY <2>1, OtherSteps DEF Undecided
<1> QED
  BY <1>1, <1>2, Invariant, PTL DEF Spec

\* A payment handed over in the implementation is one in the promise.
LEMMA HandOverPays ==
  ASSUME Inv, Undecided, NEW c \in Calls, HandOver(c)
  PROVE  Promise!Pay(c)
<1> DEFINE transfers  == [d \in Calls |-> {paid[d][i] : i \in DOMAIN paid[d]}]
           transfers2 == [d \in Calls |-> {paid'[d][i] : i \in DOMAIN paid'[d]}]
           answers    == [d \in Calls |-> {outcome[d]} \ {"none"}]
<1>1. /\ paid[c] = <<>> /\ outcome[c] = "none"
      /\ PolicyAllows(header[c]) /\ header[c] \in Transfer
  BY DEF HandOver, Inv, CallInv, MoneyInv, Undecided, PolicyAllows
<1>2. /\ paid'[c] = <<header[c]>>
      /\ \A d \in Calls \ {c} : paid'[d] = paid[d]
  BY <1>1 DEF HandOver, Inv, TypeOK
<1>3. transfers[c] = {} /\ answers[c] = {}
  BY <1>1
<1>4. transfers2 = [transfers EXCEPT ![c] = {header[c]}]
  <2>1. transfers2[c] = {header[c]}
    BY <1>2
  <2>2. \A d \in Calls \ {c} : transfers2[d] = transfers[d]
    BY <1>2
  <2> QED
    BY <2>1, <2>2
<1>5. UNCHANGED outcome
  BY DEF HandOver
<1> QED
  BY <1>1, <1>3, <1>4, <1>5 DEF Promise!Pay

\* An answer in the implementation is one in the promise.
LEMMA CloseAnswers ==
  ASSUME Inv, Undecided, NEW c \in Calls, Closes(c)
  PROVE  Promise!Answer(c)
<1> DEFINE answers  == [d \in Calls |-> {outcome[d]} \ {"none"}]
           answers2 == [d \in Calls |-> {outcome'[d]} \ {"none"}]
<1>1. PICK a \in Free \union Other :
        /\ pc[c] # "done"
        /\ outcome' = [outcome EXCEPT ![c] = a]
        /\ UNCHANGED paid
        /\ a \in Free => pc[c] # "opening"
  BY DEF Closes
<1>2. outcome[c] = "none" /\ (a \in Free => paid[c] = <<>>)
  BY <1>1 DEF Undecided, Inv, CallInv, MoneyInv
<1>3. a # "none"
  BY DEF Free, Other, Policy!ValidationErrors
<1>4. answers[c] = {}
  BY <1>2
<1>5. answers2 = [answers EXCEPT ![c] = {a}]
  <2>1. answers2[c] = {a} /\ \A d \in Calls \ {c} : answers2[d] = answers[d]
    BY <1>1, <1>3 DEF Inv, TypeOK
  <2> QED
    BY <2>1
<1>6. a \in Free => {paid[c][i] : i \in DOMAIN paid[c]} = {}
  BY <1>2
<1>7. UNCHANGED [d \in Calls |-> {paid[d][i] : i \in DOMAIN paid[d]}]
  BY <1>1
<1>8. [d \in Calls |-> {paid[d][i] : i \in DOMAIN paid[d]}][c] =
        {paid[c][i] : i \in DOMAIN paid[c]}
  OBVIOUS
<1> QED
  BY <1>1, <1>4, <1>5, <1>6, <1>7, <1>8, Zenon DEF Promise!Answer, Free, Other

\* What chat_stream returns and what it paid agree: it pays once at most, within the
\* policy, never after its answer, and never before an error that says nothing was
\* paid.
THEOREM StreamKeepsThePromise ==
  Spec => ImplementsPaidForwarding
<1>1. Init => Promise!Init
  BY DEF Init, Promise!Init
<1>2. Inv /\ Undecided /\ [Next]_vars => [Promise!Next]_(Promise!vars)
  <2> SUFFICES ASSUME Inv, Undecided, [Next]_vars
               PROVE  [Promise!Next]_(Promise!vars)
    OBVIOUS
  <2>1. UNCHANGED <<paid, outcome>> => UNCHANGED Promise!vars
    BY DEF Promise!vars
  <2>2. ASSUME NEW c \in Calls, CallStep(c) \/ Drop(c)
        PROVE  [Promise!Next]_(Promise!vars)
    <3>1. CASE Silent(c)
      BY <2>1, <3>1 DEF Silent
    <3>2. CASE HandOver(c)
      BY <3>2, HandOverPays DEF Promise!Next
    <3>3. CASE Closes(c)
      BY <3>3, CloseAnswers DEF Promise!Next
    <3> QED
      BY <2>2, <3>1, <3>2, <3>3, Kinds
  <2> QED
    BY <2>1, <2>2, OtherSteps
<1> QED
  BY <1>1, <1>2, Invariant, OutcomeAtTheEnd, PTL
     DEF Spec, ImplementsPaidForwarding, Promise!Spec

-----------------------------------------------------------------------------
(* The stream, from the open connection to its consumer.                   *)

\* The types, with sequences of any length.
Shape ==
  /\ sent     \in Seq(Events)
  /\ link     \in {"open", "closed", "broken", "late"}
  /\ read     \in 0 .. Len(sent)
  /\ items    \in Seq(Chunks \union {"error"})
  /\ consumer \in {"command", "program"}
  /\ phase    \in {"poll", "item", "end", "failed"}
  /\ printed  \in Seq(Chunks)
  /\ Len(sent) <= MaxEvents /\ Len(items) <= MaxItems
  /\ phase = "poll" => Len(items) < MaxItems

\* The end marker was read: there is no more to poll.
Marked == read > 0 /\ sent[read] = "[DONE]"

\* The events that became items.
Taken == IF Marked THEN read - 1 ELSE read

ItemsInv ==
  /\ Len(items) >= Taken
  /\ \A i \in 1 .. Taken :
       /\ sent[i] # "[DONE]"
       /\ items[i] = IF sent[i] \in Chunks THEN sent[i] ELSE "error"
  /\ \A i \in Taken + 1 .. Len(items) : items[i] = "error"
  /\ link \in {"open", "closed"} => Len(items) = Taken
  /\ link = "broken" => Len(items) = Taken + 1
  /\ link = "late" => Len(items) > Taken /\ phase # "end"
  /\ Marked => phase = "end"
  /\ phase = "item" => items # <<>>

CommandInv ==
  /\ Len(printed) <= Taken
  /\ consumer = "command" =>
       /\ phase \in {"poll", "end"} => printed = items /\ link \in {"open", "closed"}
       /\ phase = "item" => printed = SubSeq(items, 1, Len(items) - 1)
  /\ phase = "end" /\ consumer = "command" =>
       Marked \/ (link = "closed" /\ read = Len(sent))

ChunkInv == Shape /\ ItemsInv /\ CommandInv

-----------------------------------------------------------------------------
\* SeqOf holds the sequences of bounded length.
LEMMA InSeqOf ==
  ASSUME NEW S, NEW n \in Nat, NEW s \in Seq(S), Len(s) <= n
  PROVE  s \in SeqOf(S, n)
<1>1. s \in [1 .. Len(s) -> S] /\ Len(s) \in 0 .. n
  OBVIOUS
<1> QED
  BY <1>1, Zenon DEF SeqOf

\* The last item of a stream that has one.
LEMMA LastItem ==
  ASSUME Shape, items # <<>>
  PROVE  /\ Last(items) = items[Len(items)]
         /\ Last(items) \in Chunks \union {"error"}
         /\ Len(items) \in Nat \ {0}
  BY DEF Last, Shape

\* The item of an event that was taken.
LEMMA ItemOfEvent ==
  ASSUME ChunkInv, NEW i \in 1 .. Taken
  PROVE  sent[i] # "[DONE]" /\ items[i] = IF sent[i] \in Chunks THEN sent[i] ELSE "error"
  BY Zenon DEF ChunkInv, ItemsInv

\* Nothing was sent, read or printed at the start.
LEMMA ChunkInitHolds ==
  ChunkInit => ChunkInv
  BY ChunkStreamAssumption DEF ChunkInit, ChunkInv, Shape, ItemsInv, CommandInv, Taken, Marked

\* What the gateway does changes nothing that was read.
LEMMA GatewayHolds ==
  ASSUME ChunkInv, Emit \/ Close
  PROVE  ChunkInv'
<1>1. CASE Emit
  <2>1. PICK e \in Events : sent' = Append(sent, e)
    BY <1>1 DEF Emit
  <2>2. /\ UNCHANGED <<link, read, items, consumer, phase, printed>>
        /\ link = "open" /\ Len(sent) < MaxEvents
    BY <1>1 DEF Emit
  <2>3. /\ sent \in Seq(Events) /\ read \in 0 .. Len(sent)
        /\ sent' \in Seq(Events) /\ Len(sent') = Len(sent) + 1
        /\ \A i \in 1 .. read : sent'[i] = sent[i]
    BY <2>1 DEF ChunkInv, Shape
  <2>4. Marked' = Marked /\ Taken' = Taken /\ Taken \in 0 .. read
    BY <2>2, <2>3 DEF Marked, Taken
  <2>5. Shape'
    BY <2>2, <2>3, ChunkStreamAssumption DEF ChunkInv, Shape
  <2>6. ItemsInv'
    BY <2>2, <2>3, <2>4 DEF ChunkInv, ItemsInv
  <2>7. CommandInv'
    BY <2>2, <2>3, <2>4 DEF ChunkInv, CommandInv
  <2> QED
    BY <2>5, <2>6, <2>7 DEF ChunkInv
<1>2. CASE Close
  BY <1>2 DEF Close, ChunkInv, Shape, ItemsInv, CommandInv, Marked, Taken
<1> QED
  BY <1>1, <1>2

\* An event that is no end marker is taken, and an item appended.
LEMMA DeliverHolds ==
  ASSUME ChunkInv, Deliver
  PROVE  ChunkInv'
<1>1. PICK e \in Events \ {"[DONE]"} :
        /\ Arrived(e)
        /\ Yield(IF e \in Chunks THEN e ELSE "error")
        /\ read' = read + 1
        /\ UNCHANGED link
  BY DEF Deliver
<1> DEFINE item == IF e \in Chunks THEN e ELSE "error"
<1>2. /\ item \in Chunks \union {"error"}
      /\ sent[read + 1] = e /\ e # "[DONE]" /\ read < Len(sent) /\ link \in {"open", "closed"}
      /\ phase = "poll" /\ phase' = "item" /\ items' = Append(items, item)
      /\ UNCHANGED <<sent, consumer, printed, link>> /\ read' = read + 1
  BY <1>1 DEF Arrived, Yield
<1>3. item = IF e \in Chunks THEN e ELSE "error"
  OBVIOUS
<1> HIDE DEF item
<1>4. /\ Shape /\ ~Marked /\ Taken = read /\ Len(items) = read
      /\ items \in Seq(Chunks \union {"error"}) /\ read \in Nat
  BY <1>2 DEF ChunkInv, ItemsInv, Taken, Shape
<1>5. ~Marked' /\ Taken' = read + 1
  BY <1>2, <1>4 DEF Marked, Taken
<1>6. /\ items' \in Seq(Chunks \union {"error"}) /\ Len(items') = read + 1
      /\ \A i \in 1 .. read : items'[i] = items[i]
      /\ items'[read + 1] = item /\ items' # <<>>
  BY <1>2, <1>4
<1>7. Shape'
  BY <1>2, <1>4, <1>6, ChunkStreamAssumption DEF Shape
<1>8. ItemsInv'
  <2>1. ASSUME NEW i \in 1 .. read + 1
        PROVE  sent'[i] # "[DONE]" /\ items'[i] = IF sent'[i] \in Chunks THEN sent'[i] ELSE "error"
    <3>1. CASE i \in 1 .. read
      BY <1>2, <1>4, <1>6, <3>1, ItemOfEvent
    <3>2. CASE i = read + 1
      BY <1>2, <1>3, <1>6, <3>2
    <3> QED
      BY <1>4, <3>1, <3>2
  <2>2. Taken' + 1 .. Len(items') = {} /\ Len(items') = Taken'
    BY <1>4, <1>5, <1>6
  <2>3. Len(items') >= Taken' /\ \A i \in Taken' + 1 .. Len(items') : items'[i] = "error"
    BY <1>4, <1>5, <2>2
  <2>4. link' \in {"open", "closed"} /\ ~Marked' /\ phase' = "item" /\ items' # <<>>
    BY <1>2, <1>5, <1>6
  <2>5. \A i \in 1 .. Taken' :
          sent'[i] # "[DONE]" /\ items'[i] = IF sent'[i] \in Chunks THEN sent'[i] ELSE "error"
    BY <1>5, <2>1, Zenon
  <2> HIDE DEF Taken, Marked
  <2> QED
    BY <2>2, <2>3, <2>4, <2>5, Zenon DEF ItemsInv
<1>9. CommandInv'
  <2>1. SubSeq(items', 1, Len(items') - 1) = items
    BY <1>2, <1>4, <1>6
  <2> QED
    BY <1>2, <1>4, <1>5, <1>6, <2>1 DEF ChunkInv, CommandInv
<1> QED
  BY <1>7, <1>8, <1>9 DEF ChunkInv

\* The end of the stream: its marker, or the end of what the gateway sent.
LEMMA StreamEndHolds ==
  ASSUME ChunkInv, EndAtDone \/ EndOfBody
  PROVE  ChunkInv'
<1>1. CASE EndAtDone
  <2>1. /\ sent[read + 1] = "[DONE]" /\ read < Len(sent) /\ link \in {"open", "closed"}
        /\ phase = "poll" /\ phase' = "end" /\ read' = read + 1
        /\ UNCHANGED <<sent, link, items, consumer, printed>>
    BY <1>1 DEF EndAtDone, Arrived, End
  <2>2. Shape /\ ~Marked /\ Taken = read /\ read \in Nat
    BY <2>1 DEF ChunkInv, ItemsInv, Taken, Shape
  <2>3. Marked' /\ Taken' = Taken
    BY <2>1, <2>2 DEF Marked, Taken
  <2>4. Shape'
    BY <2>1, <2>2 DEF Shape
  <2>5. ItemsInv' /\ CommandInv'
    BY <2>1, <2>2, <2>3 DEF ChunkInv, ItemsInv, CommandInv
  <2> QED
    BY <2>4, <2>5 DEF ChunkInv
<1>2. CASE EndOfBody
  BY <1>2 DEF EndOfBody, End, ChunkInv, Shape, ItemsInv, CommandInv, Marked, Taken
<1> QED
  BY <1>1, <1>2

\* A break and the timeout are one more item, an error.
LEMMA BreakHolds ==
  ASSUME ChunkInv, Break \/ TimedOut
  PROVE  ChunkInv'
<1>1. /\ phase = "poll" /\ phase' = "item"
      /\ items' = Append(items, "error")
      /\ UNCHANGED <<sent, read, consumer, printed>>
      /\ (link \in {"open", "closed"} /\ link' = "broken") \/ link' = "late"
  BY DEF Break, TimedOut, Yield
<1>2. /\ Shape /\ ~Marked /\ Taken = read /\ Len(items) >= read
      /\ items \in Seq(Chunks \union {"error"}) /\ read \in Nat
      /\ Len(items) < MaxItems
  BY <1>1 DEF ChunkInv, ItemsInv, Taken, Shape
<1>3. ~Marked' /\ Taken' = read
  BY <1>1, <1>2 DEF Marked, Taken
<1>4. /\ items' \in Seq(Chunks \union {"error"}) /\ Len(items') = Len(items) + 1
      /\ \A i \in 1 .. Len(items) : items'[i] = items[i]
      /\ items'[Len(items) + 1] = "error" /\ items' # <<>>
      /\ SubSeq(items', 1, Len(items') - 1) = items
  BY <1>1, <1>2
<1>5. Shape'
  BY <1>1, <1>2, <1>4, ChunkStreamAssumption DEF Shape
<1>6. ItemsInv'
  <2>1. Len(items') > read /\ (link' = "broken" => Len(items') = read + 1)
    <3>1. link \in {"open", "closed"} => Len(items) = Taken
      BY Zenon DEF ChunkInv, ItemsInv
    <3>2. link' = "broken" => link \in {"open", "closed"}
      BY <1>1
    <3>3. link' = "broken" => Len(items) = read
      BY <1>2, <3>1, <3>2
    <3>4. Len(items') = Len(items) + 1 /\ Len(items) >= read
      BY <1>2, <1>4
    <3>5. Len(items) \in Nat /\ read \in Nat
      BY <1>2
    <3> QED
      BY ONLY <3>3, <3>4, <3>5
  <2>2. \A i \in 1 .. read :
          sent'[i] # "[DONE]" /\ items'[i] = IF sent'[i] \in Chunks THEN sent'[i] ELSE "error"
    <3>1. \A i \in 1 .. read : i \in 1 .. Len(items)
      BY <1>2
    <3>2. ASSUME NEW i \in 1 .. read
          PROVE  sent[i] # "[DONE]" /\ items[i] = IF sent[i] \in Chunks THEN sent[i] ELSE "error"
      BY <1>2, ItemOfEvent
    <3> QED
      BY <1>1, <1>4, <3>1, <3>2
  <2>3. ASSUME NEW i \in read + 1 .. Len(items')
        PROVE  items'[i] = "error"
    <3>1. i \in read + 1 .. Len(items) \/ i = Len(items) + 1
      BY <1>2, <1>4
    <3>2. i \in read + 1 .. Len(items) => items[i] = "error" /\ i \in 1 .. Len(items)
      <4>1. \A k \in Taken + 1 .. Len(items) : items[k] = "error"
        BY Zenon DEF ChunkInv, ItemsInv
      <4> QED
        BY <1>2, <4>1
    <3> QED
      BY <1>4, <3>1, <3>2
  <2>4. /\ Len(items') >= Taken' /\ ~Marked' /\ phase' = "item" /\ items' # <<>>
        /\ link' = "broken" => Len(items') = Taken' + 1
        /\ link' = "late" => Len(items') > Taken' /\ phase' # "end"
        /\ link' \notin {"open", "closed"}
    BY <1>1, <1>2, <1>3, <1>4, <2>1
  <2> QED
    BY <1>3, <2>2, <2>3, <2>4, Zenon DEF ItemsInv
<1>7. CommandInv'
  BY <1>1, <1>2, <1>3, <1>4 DEF ChunkInv, CommandInv
<1> QED
  BY <1>5, <1>6, <1>7 DEF ChunkInv

\* The consumer polls again, the command after printing a chunk.
LEMMA ConsumerHolds ==
  ASSUME ChunkInv, Continue \/ Fail
  PROVE  ChunkInv'
<1>1. CASE Continue
  <2>1. /\ phase = "item" /\ phase' = "poll"
        /\ consumer = "command" => Last(items) # "error"
        /\ Len(items) < MaxItems
        /\ printed' = IF consumer = "command" THEN Append(printed, Last(items)) ELSE printed
        /\ UNCHANGED <<sent, link, read, items, consumer>>
    BY <1>1 DEF Continue
  <2>2. /\ Shape /\ items # <<>> /\ ItemsInv /\ CommandInv /\ ~Marked
    BY <2>1 DEF ChunkInv, ItemsInv
  <2>3. /\ Last(items) = items[Len(items)] /\ Last(items) \in Chunks \union {"error"}
        /\ Len(items) \in Nat \ {0} /\ items \in Seq(Chunks \union {"error"})
    BY <2>2, LastItem DEF Shape
  <2>4. consumer = "command" =>
          printed' = items /\ printed' \in Seq(Chunks) /\ link \in {"open", "closed"}
    <3> SUFFICES ASSUME consumer = "command"
                 PROVE  /\ printed' = items /\ printed' \in Seq(Chunks)
                        /\ link \in {"open", "closed"}
      OBVIOUS
    <3>1. Last(items) \in Chunks /\ printed \in Seq(Chunks)
      BY <2>1, <2>2, <2>3 DEF Shape
    <3>2. printed = SubSeq(items, 1, Len(items) - 1)
      BY <2>1, <2>2 DEF CommandInv
    <3>3. Append(SubSeq(items, 1, Len(items) - 1), items[Len(items)]) = items
      BY <2>3
    <3>4. link \in {"open", "closed"}
      <4> SUFFICES ASSUME link \in {"broken", "late"} PROVE FALSE
        BY <2>2 DEF Shape
      <4>1. Len(items) \in Taken + 1 .. Len(items)
        BY <2>2, <2>3 DEF ItemsInv, Shape, Taken
      <4> QED
        BY <2>1, <2>2, <2>3, <4>1 DEF ItemsInv
    <3> QED
      BY <2>1, <2>3, <3>1, <3>2, <3>3, <3>4
  <2>5. Shape'
    BY <2>1, <2>2, <2>4 DEF Shape
  <2>6. Marked' = Marked /\ Taken' = Taken
    BY <2>1 DEF Marked, Taken
  <2>7. ItemsInv'
    BY <2>1, <2>2, <2>6 DEF ItemsInv
  <2>8. CommandInv'
    BY <2>1, <2>2, <2>3, <2>4, <2>6 DEF CommandInv, ItemsInv
  <2> QED
    BY <2>5, <2>7, <2>8 DEF ChunkInv
<1>2. CASE Fail
  BY <1>2 DEF Fail, ChunkInv, Shape, ItemsInv, CommandInv, Marked, Taken
<1> QED
  BY <1>1, <1>2

\* Every step of the gateway, the stream and its consumer keeps the invariant.
LEMMA ChunkInvariant ==
  ChunkSpec => []ChunkInv
<1>1. ChunkInv /\ [ChunkNext]_chunkVars => ChunkInv'
  <2> SUFFICES ASSUME ChunkInv, [ChunkNext]_chunkVars PROVE ChunkInv'
    OBVIOUS
  <2>1. CASE UNCHANGED chunkVars
    BY <2>1 DEF chunkVars, ChunkInv, Shape, ItemsInv, CommandInv, Marked, Taken
  <2> QED
    BY <2>1, GatewayHolds, DeliverHolds, StreamEndHolds, BreakHolds, ConsumerHolds
       DEF ChunkNext, PollStream
<1> QED
  BY ChunkInitHolds, <1>1, PTL DEF ChunkSpec

-----------------------------------------------------------------------------
\* What the stream returns are chunks and errors, and the command prints nothing but
\* chunks, for each event one at most.
THEOREM ChunkTypeCorrect ==
  ChunkSpec => []ChunkTypeOK
<1>1. ChunkInv => ChunkTypeOK
  <2> SUFFICES ASSUME ChunkInv PROVE ChunkTypeOK
    OBVIOUS
  <2>1. /\ Len(items) <= MaxItems /\ Len(printed) <= MaxEvents
        /\ Len(sent) <= MaxEvents /\ MaxEvents \in Nat /\ MaxItems \in Nat
    BY ChunkStreamAssumption DEF ChunkInv, Shape, ItemsInv, CommandInv, Taken, Marked
  <2>2. sent \in SeqOf(Events, MaxEvents)
    BY <2>1, InSeqOf DEF ChunkInv, Shape
  <2>3. items \in SeqOf(Chunks \union {"error"}, MaxItems)
    BY <2>1, InSeqOf DEF ChunkInv, Shape
  <2>4. printed \in SeqOf(Chunks, MaxEvents)
    BY <2>1, InSeqOf DEF ChunkInv, Shape
  <2> QED
    BY <2>2, <2>3, <2>4 DEF ChunkTypeOK, ChunkInv, Shape
<1> QED
  BY <1>1, ChunkInvariant, PTL

\* The items of a stream are the events in order, up to the end marker; then come
\* only the error of a break, and those of the timeout, which never end.
THEOREM ItemsAreEvents ==
  ChunkSpec => []ItemsMatchEvents
<1>1. ChunkInv => ItemsMatchEvents
  BY Zenon DEF ChunkInv, ItemsInv, ItemsMatchEvents, Taken, Marked
<1> QED
  BY <1>1, ChunkInvariant, PTL

\* A command that ends well printed the whole answer, up to the end marker or to
\* the end the gateway put.
THEOREM SuccessMeansWhole ==
  ChunkSpec => []SuccessIsWhole
<1>1. ChunkInv => SuccessIsWhole
  <2> SUFFICES ASSUME ChunkInv, consumer = "command", phase = "end"
               PROVE  \E n \in 0 .. Len(sent) :
                        /\ printed = SubSeq(sent, 1, n)
                        /\ IF n < Len(sent) THEN sent[n + 1] = "[DONE]" ELSE link = "closed"
    BY DEF SuccessIsWhole
  <2>1. /\ printed = items /\ Len(items) = Taken /\ Taken \in 0 .. Len(sent)
        /\ printed \in Seq(Chunks) /\ sent \in Seq(Events)
        /\ Marked \/ (link = "closed" /\ read = Len(sent))
    BY DEF ChunkInv, Shape, ItemsInv, CommandInv, Taken, Marked
  <2>2. \A i \in 1 .. Taken : printed[i] = sent[i]
    BY <2>1, ChunkStreamAssumption DEF ChunkInv, ItemsInv
  <2>3. printed = SubSeq(sent, 1, Taken)
    BY <2>1, <2>2
  <2>4. IF Taken < Len(sent) THEN sent[Taken + 1] = "[DONE]" ELSE link = "closed"
    BY <2>1 DEF ChunkInv, Shape, Taken, Marked
  <2> QED
    BY <2>1, <2>3, <2>4
<1> QED
  BY <1>1, ChunkInvariant, PTL
=============================================================================
