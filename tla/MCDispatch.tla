----------------------------- MODULE MCDispatch -----------------------------
(* Tools like the shipped ones: send is sensitive and asks, two tools of a *)
(* user need different scopes of one service; u1 may shadow send by a tool *)
(* that asks but is not sensitive, or by one that belongs to u2.            *)
EXTENDS Dispatch
CONSTANTS u1, u2
Tool(n, o, places, high, asks) ==
  [name |-> n, origin |-> o, owner |-> NoUser, in |-> places, requires |-> <<>>,
   high |-> high, asks |-> asks]
Needs(scopes) == <<[service |-> "calendar", scopes |-> scopes, behalf |-> "actor"]>>
MCSystem == {Tool("send", "system", {"dm", "group"}, TRUE, TRUE),
             [Tool("list", "system", {"global"}, FALSE, FALSE) EXCEPT !.requires = Needs({"read"})]}
MCBase == {[Tool("book", "base", {"dm"}, TRUE, FALSE) EXCEPT !.requires = Needs({"write"})]}
MCOwn == [u \in User |-> IF u = u2 THEN {{}} ELSE
  {{}, {Tool("send", "user", {"dm"}, FALSE, TRUE)},
   {[Tool("send", "user", {"dm"}, FALSE, FALSE) EXCEPT !.owner = u2]}}]
MCWord == Commands \cup {"/", "/CANCEL", "/nope", "@bot", "hi", "calendar", "it's"}
MCLower == [w \in MCWord |-> IF w = "/CANCEL" THEN "/cancel" ELSE w]
Text(words) == [whole |-> TRUE, type |-> "text", words |-> words]
MCTexts == {Text(words) : words \in
    {<<>>, <<"hi">>, <<"/CANCEL">>, <<"/">>, <<"/nope">>, <<"/connect", "calendar">>,
     <<"@bot", "/help">>, <<"@bot", "/disconnect", "calendar">>,
     <<"/disconnect", "calendar">>, <<"/connect", "it's">>}}
  \cup {[whole |-> TRUE, type |-> "other", words |-> <<>>]}
MCHeld == [u \in User |-> {}]
=============================================================================
