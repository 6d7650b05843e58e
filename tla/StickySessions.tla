--------------------------- MODULE StickySessions ---------------------------
(***************************************************************************)
(* What SessionStore promises to the calls of chat: a conversation is      *)
(* answered by one model for as long as its session lives, the model being *)
(* chosen and handed out in one step.  How many hashes are kept, what      *)
(* expired entries are still stored and the locking are not its concern.   *)
(***************************************************************************)
EXTENDS Integers

CONSTANTS Callers, Sessions, Models, None, SessionTtl

VARIABLES
  clock,
  current,   \* the live session of each conversation: its model and its start
  routed     \* the model each caller was given, None outside of its request

vars == <<clock, current, routed>>

Init ==
  /\ clock   = 0
  /\ current = [s \in Sessions |-> None]
  /\ routed  = [c \in Callers |-> None]

\* A session ends SessionTtl after it started, however much it is used.
Tick ==
  /\ clock' = clock + 1
  /\ current' = [s \in Sessions |->
       IF current[s] # None /\ clock' - current[s].start < SessionTtl
         THEN current[s] ELSE None]
  /\ UNCHANGED routed

\* A caller joins the live session, or starts one with the model it asked for.
Join(c, s) ==
  /\ routed[c] = None
  /\ current[s] # None
  /\ routed' = [routed EXCEPT ![c] = current[s].model]
  /\ UNCHANGED <<clock, current>>

Begin(c, s, model) ==
  /\ routed[c] = None
  /\ current[s] = None
  /\ routed' = [routed EXCEPT ![c] = model]
  /\ current' = [current EXCEPT ![s] =
       IF SessionTtl > 0 THEN [model |-> model, start |-> clock] ELSE None]
  /\ UNCHANGED clock

Leave(c) ==
  /\ routed[c] # None
  /\ routed' = [routed EXCEPT ![c] = None]
  /\ UNCHANGED <<clock, current>>

Next ==
  \/ Tick
  \/ \E c \in Callers : \/ Leave(c)
                        \/ \E s \in Sessions : \/ Join(c, s)
                                               \/ \E m \in Models : Begin(c, s, m)

Spec == Init /\ [][Next]_vars
=============================================================================
