---------------------------- MODULE ChunkStream -----------------------------
(***************************************************************************)
(* The stream that SolvelaClient::chat_stream returns, from the open       *)
(* connection to its consumer.  The gateway sends events; eventsource()    *)
(* decodes them; the closure of stream::unfold turns each into an item     *)
(* when the consumer polls.  The consumer is the chat command, which       *)
(* prints chunks and stops at the first error, or a program that reads on  *)
(* as long as the stream lasts.                                            *)
(*                                                                         *)
(* The connection is external: the gateway may close it at any time, and   *)
(* it may break.  The timeout of the HTTP client covers the whole answer;  *)
(* when it is over, the client ignores the connection.                     *)
(***************************************************************************)
EXTENDS Naturals, SequencesExt

CONSTANTS
  Chunks,     \* events whose data parse as a ChatChunk
  MaxEvents,  \* bound: the events the gateway sends
  MaxItems    \* bound: the items after which a program stops polling

ASSUME ChunkStreamAssumption ==
  /\ MaxEvents \in Nat
  /\ MaxItems \in Nat /\ MaxEvents < MaxItems
  /\ {"malformed", "[DONE]", "error"} \intersect Chunks = {}

VARIABLES
  sent,      \* the events the gateway sent
  link,      \* the connection: "open", "closed", "broken", or "late" if the
             \* timeout was noticed
  read,      \* how many events were taken from the connection
  items,     \* history: the items the stream returned
  consumer,  \* "command" or "program"
  phase,     \* the consumer polls, holds an item, or is through with the stream
  printed    \* what the command printed

chunkVars == <<sent, link, read, items, consumer, phase, printed>>

\* An event is a chunk, the end marker, or what does not parse.
Events == Chunks \union {"[DONE]", "malformed"}

\* Types; what the command prints are chunks, one for each event at most.
ChunkTypeOK ==
  /\ sent     \in SeqOf(Events, MaxEvents)
  /\ link     \in {"open", "closed", "broken", "late"}
  /\ read     \in 0 .. Len(sent)
  /\ items    \in SeqOf(Chunks \union {"error"}, MaxItems)
  /\ consumer \in {"command", "program"}
  /\ phase    \in {"poll", "item", "end", "failed"}
  /\ printed  \in SeqOf(Chunks, MaxEvents)

ChunkInit ==
  /\ sent     = <<>>
  /\ link     = "open"
  /\ read     = 0
  /\ items    = <<>>
  /\ consumer \in {"command", "program"}
  /\ phase    = "poll"
  /\ printed  = <<>>

-----------------------------------------------------------------------------
(* The gateway.                                                            *)

Emit == /\ link = "open" /\ Len(sent) < MaxEvents
        /\ \E e \in Events : sent' = Append(sent, e)
        /\ UNCHANGED <<link, read, items, consumer, phase, printed>>

Close == /\ link = "open"
         /\ link' = "closed"
         /\ UNCHANGED <<sent, read, items, consumer, phase, printed>>

-----------------------------------------------------------------------------
(* The closure of stream::unfold.                                          *)

\* The poll is answered by an item ...
Yield(item) == /\ phase = "poll" /\ phase' = "item"
               /\ items' = Append(items, item)
               /\ UNCHANGED <<sent, consumer, printed>>

\* ... or by None.
End == /\ phase = "poll" /\ phase' = "end"
       /\ UNCHANGED <<sent, items, consumer, printed>>

\* The next event, if it has arrived; after a break and after the timeout nothing
\* is left.
Arrived(e) ==
  link \in {"open", "closed"} /\ read < Len(sent) /\ sent[read + 1] = e

\* Mutant: what does not parse is skipped.
DeliverParsed ==
  \E e \in Events \ {"[DONE]"} :
    /\ Arrived(e)
    /\ IF e \in Chunks THEN Yield(e)
       ELSE phase = "poll" /\ UNCHANGED <<sent, items, consumer, phase, printed>>
    /\ read' = read + 1
    /\ UNCHANGED link

\* An event becomes an item; one that is no chunk becomes an error, and the
\* stream goes on.
Deliver ==
  \E e \in Events \ {"[DONE]"} :
    /\ Arrived(e)
    /\ Yield(IF e \in Chunks THEN e ELSE "error")
    /\ read' = read + 1
    /\ UNCHANGED link

EndAtDone == /\ Arrived("[DONE]")
             /\ End
             /\ read' = read + 1
             /\ UNCHANGED link

\* The connection breaks, whatever was sent and whether or not the gateway is
\* through: one error, and the body is over.
Break == /\ link \in {"open", "closed"}
         /\ Yield("error")
         /\ link' = "broken"
         /\ UNCHANGED read

\* Mutant: the timeout covers the connection as long as something arrives.
TimedOutWhileReading ==
  /\ link = "late" \/ read < Len(sent)
  /\ Yield("error")
  /\ link' = "late"
  /\ UNCHANGED read

\* The timeout is over, whatever the connection has come to: an error now, and
\* again on every later poll.
TimedOut == /\ Yield("error")
            /\ link' = "late"
            /\ UNCHANGED read

\* A connection that the gateway closed is read to its end; a broken one has nothing
\* more.
EndOfBody == /\ \/ link = "closed" /\ read = Len(sent)
                \/ link = "broken"
             /\ End
             /\ UNCHANGED <<link, read>>

PollStream == Deliver \/ EndAtDone \/ TimedOut \/ EndOfBody

-----------------------------------------------------------------------------
(* The loop of the consumer.                                               *)

\* Mutants: the command prints whatever it holds; it skips errors.
ContinuePrintingAll ==
  /\ phase = "item" /\ phase' = "poll"
  /\ Len(items) < MaxItems
  /\ printed' = IF consumer = "command" THEN Append(printed, Last(items)) ELSE printed
  /\ UNCHANGED <<sent, link, read, items, consumer>>
ContinueAfterErrors ==
  /\ phase = "item" /\ phase' = "poll"
  /\ Len(items) < MaxItems
  /\ printed' = IF consumer = "command" /\ Last(items) \in Chunks
                  THEN Append(printed, Last(items)) ELSE printed
  /\ UNCHANGED <<sent, link, read, items, consumer>>

\* The command prints the chunk it holds; a program takes whatever it gets, up to
\* the bound.
Continue ==
  /\ phase = "item" /\ phase' = "poll"
  /\ Len(items) < MaxItems
  /\ consumer = "command" => Last(items) # "error"
  /\ printed' = IF consumer = "command" THEN Append(printed, Last(items)) ELSE printed
  /\ UNCHANGED <<sent, link, read, items, consumer>>

\* The command ends with an error: that of the item, or of its own output.
Fail ==
  /\ phase = "item" /\ phase' = "failed"
  /\ consumer = "command"
  /\ UNCHANGED <<sent, link, read, items, consumer, printed>>

ChunkNext == Emit \/ Close \/ Break \/ PollStream \/ Continue \/ Fail

ChunkSpec == ChunkInit /\ [][ChunkNext]_chunkVars

\* What has arrived is delivered, and what never arrives is cut off by the
\* timeout.  Nothing makes a connection break.
FairChunkSpec == ChunkSpec /\ WF_chunkVars(PollStream)

-----------------------------------------------------------------------------
(* Properties.                                                             *)

\* The items are the events in the order sent, one for one, up to the end marker.
\* What follows them are errors: none while the connection is well, one when it
\* broke, and after the timeout nothing else, for as long as the reader goes on; the
\* timeout never passes for the end of the answer.
ItemsMatchEvents ==
  LET n == IF read > 0 /\ sent[read] = "[DONE]" THEN read - 1 ELSE read IN
  /\ Len(items) >= n
  /\ \A i \in 1 .. n :
       /\ sent[i] # "[DONE]"
       /\ items[i] = IF sent[i] \in Chunks THEN sent[i] ELSE "error"
  /\ \A i \in n + 1 .. Len(items) : items[i] = "error"
  /\ link \in {"open", "closed"} => Len(items) = n
  /\ link = "broken" => Len(items) = n + 1
  /\ link = "late" => Len(items) > n /\ phase # "end"

\* The chat command succeeds only if it printed everything up to the end marker,
\* or up to the end of an answer that the gateway itself ended.
SuccessIsWhole ==
  consumer = "command" /\ phase = "end" =>
    \E n \in 0 .. Len(sent) :
      /\ printed = SubSeq(sent, 1, n)
      /\ IF n < Len(sent) THEN sent[n + 1] = "[DONE]" ELSE link = "closed"

\* No poll waits for ever, however slow or silent the gateway is: the answer may be
\* the error of the timeout.
PollReturns == phase = "poll" ~> phase # "poll"
=============================================================================
