----------------------------- MODULE MCSanitize -----------------------------
(* Every text of up to two sentences over the phrases and the key, and of up   *)
(* to four over the phrases alone, each phrase at most once in a sentence.      *)
EXTENDS Sanitize

Distinct(S) == {s \in SeqOf(S, 3) : IsInjective(s)}

UpTo(n, S) == {Said(t, e) : t \in UNION {[1..m -> Distinct(S)] : m \in 1..n}, e \in BOOLEAN}

ShortTexts == UpTo(2, Openers \cup {Key}) \cup UpTo(4, Openers)

SixWords == <<"w1", "w2", "w3", "w4", "w5", "w6">>
=============================================================================
