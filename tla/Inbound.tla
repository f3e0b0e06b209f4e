------------------------------ MODULE Inbound ------------------------------
(***************************************************************************)
(* What arrives from DingTalk: how messages and presses of card buttons    *)
(* are read, which texts are commands, and what becomes of a command.      *)
(***************************************************************************)
EXTENDS Gate

CONSTANTS
  Word,      \* what a text is made of
  Mention,   \* the words that start with @
  Slashed,   \* the words that start with /
  Unclosed,  \* the words with a quote that is not closed
  Lower      \* [Word -> Word], lower case

ASSUME InboundAssumption ==
  Mention \cup Slashed \cup Unclosed \subseteq Word /\ Lower \in [Word -> Word]

(* A message: whole says that it has every field that is required.          *)
Frame == [whole : BOOLEAN, type : {"text", "other"}, words : Seq(Word)]

Normalized(frame) ==
  IF ~frame.whole \/ (frame.type = "text" /\ frame.words = <<>>) THEN "invalid"
  ELSE frame.type

(* The command of a text, <<>> if there is none: in a group the user may   *)
(* mention others, the bot too, before the slash.                           *)
CommandText(words, m) ==
  LET said  == {n \in DOMAIN words : words[n] \notin Mention}
      start == CHOOSE n \in said : \A k \in said : n <= k
  IN  IF said # {} /\ words[start] \in Slashed /\ (start = 1 \/ m = "group")
      THEN SubSeq(words, start, Len(words)) ELSE <<>>

(* The built-in commands.                                                   *)
Commands == {"/help", "/reset", "/whoami", "/connect", "/disconnect", "/cancel"}
Named == {"/connect", "/disconnect"}
Places(name) == IF name \in Named THEN {"dm"} ELSE Mode
Role == {"user", "channel_admin", "org_admin"}
Requires(name) == "user"
Arguments(name, n) == (name \in Named => n = 1) /\ (name = "/cancel" => n = 0)

Level == [user |-> 0, channel_admin |-> 1, org_admin |-> 2]
HasRole(held, role) == \E r \in held \cup {"user"} : Level[r] >= Level[role]

(* handle_command up to the handler, which is reached if it "runs"; a lone  *)
(* slash is the error of a name that is empty.                              *)
Verdict(words, m, held) ==
  LET name == Lower[words[1]] IN
  CASE name = "/" -> "error"
    [] name # "/" /\ name \notin Commands -> "unknown_command"
    [] name \in Commands /\ m \notin Places(name) -> "unavailable"
    [] name \in Commands /\ m \in Places(name) /\ ~HasRole(held, Requires(name)) ->
         "forbidden"
    [] OTHER -> IF /\ \A n \in 2..Len(words) : words[n] \notin Unclosed
                   /\ Arguments(name, Len(words) - 1)
                THEN "runs" ELSE "invalid_args"

-----------------------------------------------------------------------------
(* The decision that the buttons of a card carry.                           *)
Button(text) == IF text = "yes" THEN "confirm" ELSE "cancel"

(* The keys that may hold the interaction and the word, the first first.   *)
CorrelationKeys == <<"correlation_id", "correlationId">>
DecisionKeys == <<"decision", "action", "actionValue", "value">>

Card(track, top, extension, value, content) ==
  [track |-> track, top |-> top, extension |-> extension, value |-> value,
   content |-> content]
Nothing == <<>>
Fields(c, d, i, word) == [x \in {c, d} |-> IF x = c THEN i ELSE word]

(* The places of a card where its press may be, and the rest before it.     *)
Wrapped(track, press, rest) ==
  {Card(track, press, Nothing, Nothing, Nothing), Card(track, rest, press, Nothing, Nothing),
   Card(track, rest, rest, press, Nothing), Card(track, rest, rest, rest, press)}

(* What DingTalk may send when a button of interaction i is pressed on the *)
(* card called track: the word alone, or what the button holds, under any  *)
(* of the keys and in any place, with fields around it that it overrides:  *)
(* those of the card it is on and of the other button.                      *)
CardFrames(i, track, word) ==
  LET other == CHOOSE w \in {"confirm", "cancel"} : w # word
      either(c, d) == LET press == Fields(c, d, i, word)
                   IN  Wrapped(track, press, Nothing)
                         \cup Wrapped(track, press, Fields(c, d, track, other))
      objects == UNION {either(CorrelationKeys[n], DecisionKeys[k]) : n \in 1..2, k \in 1..4}
  IN  {Card(i, Nothing, Nothing, [value |-> word], Nothing)}
        \cup {frame \in objects : "value" \notin DOMAIN frame.content}

(* Mutant of Merged: the outer fields override the inner ones.              *)
MergedOutward(f, g) ==
  [x \in DOMAIN f \cup DOMAIN g |-> IF x \in DOMAIN g THEN g[x] ELSE f[x]]

(* The fields of f, and those of g that f does not have.                    *)
Merged(f, g) ==
  [x \in DOMAIN f \cup DOMAIN g |-> IF x \in DOMAIN f THEN f[x] ELSE g[x]]

(* _first_string                                                            *)
FirstOf(data, keys, otherwise) ==
  LET here == {n \in DOMAIN keys : keys[n] \in DOMAIN data}
  IN  IF here = {} THEN otherwise
      ELSE data[keys[CHOOSE n \in here : \A k \in here : n <= k]]

(* _card_decision                                                           *)
CardDecision(word) ==
  CASE word \in {"confirm", "confirmed", "approve", "approved", "ok", "yes"} -> "confirm"
    [] word \in {"cancel", "cancelled", "canceled", "reject", "rejected", "deny", "no"} ->
         "cancel"
    [] OTHER -> "invalid"

(* normalize_card_callback; any other decision makes it invalid.            *)
CardRead(frame) ==
  LET data == Merged(frame.content,
                Merged(frame.value, Merged(frame.extension, frame.top)))
  IN  [correlation |-> FirstOf(data, CorrelationKeys, frame.track),
       decision |-> CardDecision(FirstOf(data, DecisionKeys, "nothing"))]

=========================================================================
