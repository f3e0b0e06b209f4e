---------------------------- MODULE SerialQueues ----------------------------
(***************************************************************************)
(* What a Session's inbox promises: the events of one conversation are     *)
(* handled one at a time and in the order in which they were accepted,     *)
(* those of different conversations independently.  The end of the process *)
(* loses what was accepted and not handled.                                *)
(***************************************************************************)
EXTENDS Sequences

CONSTANTS Conv, Event, NoEvent

VARIABLES
  waiting,   \* accepted events of each conversation, oldest first
  busy       \* the event each conversation is handling, or NoEvent

serialVars == <<waiting, busy>>

Init ==
  /\ waiting = [c \in Conv |-> << >>]
  /\ busy = [c \in Conv |-> NoEvent]

Accept(c, e) ==
  /\ waiting' = [waiting EXCEPT ![c] = Append(@, e)]
  /\ UNCHANGED busy

Begin(c) ==
  /\ busy[c] = NoEvent /\ waiting[c] # << >>
  /\ busy' = [busy EXCEPT ![c] = Head(waiting[c])]
  /\ waiting' = [waiting EXCEPT ![c] = Tail(@)]

End(c) ==
  /\ busy[c] # NoEvent
  /\ busy' = [busy EXCEPT ![c] = NoEvent]
  /\ UNCHANGED waiting

LoseAll ==
  /\ waiting' = [c \in Conv |-> << >>]
  /\ busy' = [c \in Conv |-> NoEvent]

Next ==
  \/ \E c \in Conv : Begin(c) \/ End(c) \/ \E e \in Event : Accept(c, e)
  \/ LoseAll

Spec == Init /\ [][Next]_serialVars
=============================================================================
