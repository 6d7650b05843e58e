------------------------------ MODULE Quality -------------------------------
(***************************************************************************)
(* is_degraded: whether an answer looks so bad that it is worth a retry.   *)
(*                                                                         *)
(* An answer is the sequence of its choices, each a text.  A text is a     *)
(* sequence of tokens: Space is one character of white space, any other    *)
(* token a run of characters without one, and two runs never meet.         *)
(***************************************************************************)
EXTENDS Integers, SequencesExt

CONSTANTS
  Tokens, Space,
  Bytes,                \* the length of a token in UTF-8
  Alphanumeric,         \* the tokens whose last character is alphanumeric
  KnownErrorPhrases,    \* phrases: at each position, the tokens that match there
                        \* with their case folded
  RepetitionWindow,     \* REPETITION_WINDOW
  RepetitionThreshold,  \* REPETITION_THRESHOLD
  TruncationMinLen      \* TRUNCATION_MIN_LEN

ASSUME QualityAssumption ==
  /\ Space \in Tokens
  /\ Bytes \in [Tokens -> Nat \ {0}]
  /\ Alphanumeric \subseteq Tokens \ {Space}
  /\ KnownErrorPhrases \subseteq Seq(SUBSET Tokens)
  /\ RepetitionWindow \in Nat \ {0}
  /\ RepetitionThreshold \in Nat \ {0}
  /\ TruncationMinLen \in Nat

Text == {t \in Seq(Tokens) :
           \A i \in 1 .. Len(t) - 1 : t[i] = Space \/ t[i + 1] = Space}

Answer == Seq(Text)

\* The texts of the choices, with a space between them.
AggregateContent(answer) ==
  IF answer = <<>> THEN <<>>
  ELSE FoldLeft(LAMBDA text, choice : text \o <<Space>> \o choice,
                Head(answer), Tail(answer))

\* split_whitespace.
Words(text) ==
  FoldLeft(LAMBDA words, t : IF t = Space THEN words ELSE Append(words, t),
           <<>>, text)

ByteLen(text) == FoldSeq(LAMBDA t, n : Bytes[t] + n, 0, text)

ContainsPhrase(text, phrase) ==
  \E i \in 0 .. Len(text) - Len(phrase) :
    \A j \in DOMAIN phrase : text[i + j] \in phrase[j]

\* words.windows(REPETITION_WINDOW): none when there are too few words.
Windows(words) ==
  [i \in 1 .. Len(words) - RepetitionWindow + 1 |->
     SubSeq(words, i, i + RepetitionWindow - 1)]

\* Each window is counted, and one count reaches the threshold; the code stops
\* at the first that does.
HasRepetitiveLoop(words) ==
  LET windows == Windows(words)
  IN  \E i \in DOMAIN windows :
        Cardinality({j \in DOMAIN windows : windows[j] = windows[i]})
          >= RepetitionThreshold

EndsMidWord(text) ==
  /\ ByteLen(text) > TruncationMinLen
  /\ Last(text) \in Alphanumeric

\* Mutant: a loop is looked for in each choice alone.
IsDegradedByChoice(answer) ==
  LET text == AggregateContent(answer) IN
  \/ Words(text) = <<>>
  \/ \E phrase \in KnownErrorPhrases : ContainsPhrase(text, phrase)
  \/ \E i \in DOMAIN answer : HasRepetitiveLoop(Words(answer[i]))
  \/ EndsMidWord(text)

\* The rules in the code's order; which one matched is only logged.
IsDegraded(answer) ==
  LET text == AggregateContent(answer) IN
  \/ Words(text) = <<>>
  \/ \E phrase \in KnownErrorPhrases : ContainsPhrase(text, phrase)
  \/ HasRepetitiveLoop(Words(text))
  \/ EndsMidWord(text)
=============================================================================
