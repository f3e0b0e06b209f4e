---------------------------- MODULE ConfirmOnce ----------------------------
(***************************************************************************)
(* What a pending interaction promises, whoever closes it and however many *)
(* try: it is opened once, closed once, its deferred action runs at most   *)
(* once and only after an approval, and "not executed" is said only of an  *)
(* action that was cancelled.                                              *)
(***************************************************************************)
EXTENDS Naturals

CONSTANT Corr     \* the interactions

VARIABLES
  phase,   \* "absent", "pending", and then for good "resolved" or "cancelled"
  ran,     \* how often the action ran
  told     \* the interactions of which "not executed" was said

onceVars == <<phase, ran, told>>

Init ==
  /\ phase = [c \in Corr |-> "absent"]
  /\ ran = [c \in Corr |-> 0]
  /\ told = {}

Open(c) ==
  /\ phase[c] = "absent"
  /\ phase' = [phase EXCEPT ![c] = "pending"]
  /\ UNCHANGED <<ran, told>>

Close(c, verdict) ==
  /\ phase[c] = "pending"
  /\ phase' = [phase EXCEPT ![c] = verdict]
  /\ UNCHANGED <<ran, told>>

Run(c) ==
  /\ phase[c] = "resolved" /\ ran[c] = 0
  /\ ran' = [ran EXCEPT ![c] = 1]
  /\ UNCHANGED <<phase, told>>

Tell(c) ==
  /\ phase[c] = "cancelled"
  /\ told' = told \cup {c}
  /\ UNCHANGED <<phase, ran>>

Next ==
  \E c \in Corr :
    \/ Open(c) \/ Run(c) \/ Tell(c)
    \/ \E verdict \in {"resolved", "cancelled"} : Close(c, verdict)

Spec == Init /\ [][Next]_onceVars
=============================================================================
