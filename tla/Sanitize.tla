------------------------------ MODULE Sanitize ------------------------------
(***************************************************************************)
(* FinByteGuard's post-hook, gateway/custom/finbyte_guard.py: what _scrub  *)
(* makes of a tool's output, and of the same text again when an agent      *)
(* passes it on and it comes back as the output of another tool.           *)
(*                                                                         *)
(* A text is a sequence of sentences, and a sentence is a sequence of the  *)
(* phrases the patterns look for, then a word of its own, then a stop (a   *)
(* decimal point is one too); the last sentence may lack its stop.         *)
(***************************************************************************)
EXTENDS Integers, SequencesExt

CONSTANTS
  HookTexts,  \* other outputs: notes, unknown identifiers, echoed messages
  Words,      \* the word of each sentence
  MaxHops     \* how often a text passes the hook

VARIABLES
  source,   \* what was said: the sentences, and whether the last one ends
  result,   \* the tool's result as it was last delivered
  hops

hookVars == <<source, result, hops>>

Key == "sk-live"
Ignore == "SYSTEM: ignore"
WireNow == "Approve and wire immediately"
NoteTo == "NOTE TO ASSISTANT:"
Openers == {Ignore, WireNow, NoteTo}
Stop == "."

Redacted == "[SECRET_REDACTED]"
Blocked == "[INJECTION_BLOCKED]"

Phrases == Openers \cup {Key, Stop, Redacted, Blocked}

\* The words say something else than the phrases.
ASSUME SanitizeAssumption ==
  /\ MaxHops \in Nat
  /\ Words \in Seq(STRING \ Phrases) /\ Len(Words) >= 6
  /\ \A s \in HookTexts : /\ s.sentences \in Seq(Seq(Openers \cup {Key}))
                          /\ Len(s.sentences) <= Len(Words)

Said(sentences, ends) == [sentences |-> sentences, ends |-> ends]

\* The receipts of the demo.
_RECEIPTS ==
  [rcpt_clean |-> Said(<<<<>>, <<>>>>, TRUE),
   rcpt_pii |-> Said(<<<<>>, <<>>, <<>>, <<Key>>, <<>>, <<>>>>, TRUE),
   rcpt_injection |-> Said(<<<<>>, <<NoteTo, Ignore>>, <<>>, <<WireNow>>, <<>>, <<>>>>, TRUE),
   rcpt_big |-> Said(<<<<>>, <<>>, <<>>, <<>>>>, TRUE)]

get_receipt(id) == _RECEIPTS[id]

TextOf(s) ==
  LET n == Len(s.sentences)
      Sentence(k) == s.sentences[k] \o <<Words[k]>> \o (IF k < n \/ s.ends THEN <<Stop>> ELSE <<>>)
  IN  FlattenSeq([k \in 1..n |-> Sentence(k)])

----------------------------------------------------------------------------
(* Values.  A result is dictionaries and lists in one another; it is known by  *)
(* its leaves, each a string or something else, and their places.              *)

Str(text) == [is |-> "str", of |-> text]
Other == [is |-> "other", of |-> <<>>]

\* The framework puts a tool's text into a result twice.
ToolResult(text) ==
  [place \in {"content[0].type", "content[0].text", "structuredContent.result", "isError"} |->
     IF place \in {"content[0].text", "structuredContent.result"} THEN Str(text) ELSE Other]

StringsIn(v) == {v[place].of : place \in {x \in DOMAIN v : v[x].is = "str"}}

----------------------------------------------------------------------------
(* _scrub *)

redact(text) == [k \in DOMAIN text |-> IF text[k] = Key THEN Redacted ELSE text[k]]

\* A pattern goes through a text from left to right.  What it looks for, once
\* met, is replaced at the next stop, with all that stands between.
scan(opener, s, t) ==
  CASE s.from # 0 /\ t = Stop ->
         [out |-> Append(SubSeq(s.out, 1, s.from - 1), Blocked), from |-> 0]
    [] s.from = 0 /\ t = opener -> [out |-> Append(s.out, t), from |-> Len(s.out) + 1]
    [] OTHER -> [s EXCEPT !.out = Append(@, t)]

Scanned(opener, text) ==
  LET upTo[k \in 0..Len(text)] ==
        IF k = 0 THEN [out |-> <<>>, from |-> 0] ELSE scan(opener, upTo[k - 1], text[k])
  IN  upTo[Len(text)]

\* Deviation: the text up to the last stop goes, and not up to the next.
sub_Greedy(opener, text) ==
  LET i == SelectInSeq(text, LAMBDA t : t = opener)
      j == SelectLastInSeq(text, LAMBDA t : t = Stop)
  IN  IF i = 0 \/ j < i THEN text
      ELSE SubSeq(text, 1, i - 1) \o <<Blocked>> \o SubSeq(text, j + 1, Len(text))

\* What no stop follows stays.
sub(opener, text) == Scanned(opener, text).out

\* The key first, then one pattern after the other, each on what the one before
\* it left: it may have taken the stop that the next one looks for.
scrub_text(text) == sub(NoteTo, sub(WireNow, sub(Ignore, redact(text))))

\* Deviation: the list of the content blocks is passed over.
scrub_NotInLists(v) ==
  [place \in DOMAIN v |-> IF v[place].is = "str" /\ place # "content[0].text"
                           THEN Str(scrub_text(v[place].of)) ELSE v[place]]

\* Deviation: what is no string becomes one.
scrub_AsText(v) ==
  [place \in DOMAIN v |-> Str(IF v[place].is = "str" THEN scrub_text(v[place].of) ELSE <<>>)]

\* Every string, at whatever place, and nothing else.
scrub(v) ==
  [place \in DOMAIN v |-> IF v[place].is = "str" THEN Str(scrub_text(v[place].of)) ELSE v[place]]

----------------------------------------------------------------------------
HookTypeOK ==
  /\ hops \in 0..MaxHops
  /\ \A k \in DOMAIN source.sentences : ToSet(source.sentences[k]) \subseteq Openers \cup {Key}
  /\ \E text \in StringsIn(result) : result = ToolResult(text)

Outputs == {get_receipt(id) : id \in DOMAIN _RECEIPTS} \cup HookTexts

HookInit ==
  /\ source \in Outputs
  /\ result = ToolResult(TextOf(source))
  /\ hops = 0

\* The hook lets every result through, rewritten; an agent that passes the text
\* on gets it back in a result of the same shape.
tool_post_invoke ==
  /\ hops < MaxHops
  /\ hops' = hops + 1
  /\ result' = scrub(result)
  /\ UNCHANGED source

HookNext == tool_post_invoke

HookSpec == HookInit /\ [][HookNext]_hookVars

----------------------------------------------------------------------------
(* Properties. *)

\* Nothing the patterns describe is left in any string of a delivered result,
\* although one replacement may take the stop that ends another (_scrub): a
\* second pass, over another agent, has nothing to do.
Clean ==
  hops > 0 => \A text \in StringsIn(result) :
    /\ Key \notin ToSet(text)
    /\ \A i, j \in DOMAIN text : i < j /\ text[i] \in Openers => text[j] # Stop

Innocent(k) == ToSet(source.sentences[k]) \cap Openers = {}

\* A receipt stays readable: a sentence is lost only to a phrase of its own or
\* of one of the two sentences before it, the most that three patterns which
\* take each other's stops can reach.
InnocentSentencesKept ==
  \A k \in DOMAIN source.sentences :
    (\A j \in 1..k : j >= k - 2 => Innocent(j)) =>
      \A text \in StringsIn(result) : Words[k] \in ToSet(text)
=============================================================================
