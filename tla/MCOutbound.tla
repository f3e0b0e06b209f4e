----------------------------- MODULE MCOutbound -----------------------------
(* Three replies: one with a session webhook that runs out, two without, in *)
(* conversations of another type; and a todo that no limiter delays.        *)
EXTENDS Outbound
CONSTANTS text, odd, other, todo, t1, t2
MCCalls == [c \in Op |-> 1]
MCWebhook == [r \in Reply |-> IF r = text THEN 1 ELSE 0]
=============================================================================
