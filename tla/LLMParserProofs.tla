-------------------------- MODULE LLMParserProofs --------------------------
(***************************************************************************)
(* Proofs about LLMParser.tla, for replies of any length over any tokens.  *)
(*                                                                         *)
(* The inductive invariant IInv adds what the search knows of the tokens   *)
(* since the keyword of the match under way (ModeInv): which of them may   *)
(* be blanks or the colon, and that those after the last visible one or    *)
(* blank are newlines, which is why nothing is lost at the end of the      *)
(* text.  NumberInv, FoundInv and ValueInv say of the three searches that  *)
(* nothing matches in what is behind them but what was found: no number    *)
(* for the confidence, and no match that begins before the place of the    *)
(* search.  What the lists are for replies of plain lines (LineByLine)     *)
(* follows from what they are for all replies (FindsAllMatches).           *)
(***************************************************************************)
EXTENDS LLMParser, SumTheorems

\* Token r may stand between the keyword p and its value.
Filler(p, r) == text[r] \in Blanks \/ (r = p + 1 /\ text[r] = Colon)

OwnLine(p, to) ==
    \A q \in p..to : text[q] = Newline => \A r \in (p + 1)..q : Filler(p, r)

ModeInv ==
    /\ mode = "seek" => last = 0
    /\ mode # "seek" => Searching /\ from \in 1..(at - 1) /\ text[from] = field
    /\ mode = "colon" => from = at - 1 /\ last = 0
    /\ mode = "blank" =>
          /\ last # 0 => last > from
          /\ \A r \in (from + 1)..(at - 1) :
                Filler(from, r) /\ (r > last => text[r] = Newline)
    /\ mode = "line" =>
          /\ field # "confidence"
          /\ last = at - 1 /\ from < last
          /\ OwnLine(from, last)

IInv == TypeOK /\ ModeInv /\ MentionsCovered /\ ValueFromOwnLine

MatchType == [from: 1..Len(text), to: 2..Len(text)]

-----------------------------------------------------------------------------
\* A reply is a sequence of tokens.
LEMMA TextsAreSequences == Texts \subseteq Seq(Tokens)
  <1>1. ASSUME NEW t \in Texts  PROVE  t \in Seq(Tokens)
    <2>1. PICK n \in 0..MaxTokens : t \in [1..n -> Alphabet]
      BY <1>1 DEF Texts
    <2>2. n \in Nat /\ Alphabet \subseteq Tokens
      BY <2>1, ParserAssumption DEF ParserAssumption
    <2>3. t \in [1..n -> Tokens]
      BY <2>1, <2>2
    <2>4. QED  BY <2>2, <2>3
  <1>2. QED  BY <1>1

\* Before the first expression is searched for.
LEMMA InitIInv == Init => IInv
  <1> SUFFICES ASSUME Init  PROVE  IInv
    OBVIOUS
  <1>1. text \in Seq(Tokens)
    BY TextsAreSequences DEF Init
  <1>2. Len(text) \in Nat
    BY <1>1
  <1>3. TypeOK
    BY <1>1, <1>2 DEF Init, TypeOK, Keywords, Confidences
  <1>4. ModeInv
    BY DEF Init, ModeInv
  <1>5. MentionsCovered
    BY DEF Init, MentionsCovered, Searched, Lists
  <1>6. ValueFromOwnLine
    BY DEF Init, ValueFromOwnLine, Lists
  <1>7. QED  BY <1>3, <1>4, <1>5, <1>6 DEF IInv

-----------------------------------------------------------------------------
\* A match is added to the list of the field, and nothing else changes there.
LEMMA MatchAdds ==
  ASSUME TypeOK, field \in {"suggestion", "metric"}, from \in 1..Len(text),
         NEW to \in 2..Len(text), Match(to)
  PROVE  LET m == [from |-> from, to |-> to] IN
         /\ found' \in [{"suggestion", "metric"} -> Seq(MatchType)]
         /\ \E i \in DOMAIN found'[field] : found'[field][i] = m
         /\ \A k \in {"suggestion", "metric"} : \A i \in DOMAIN found[k] :
               i \in DOMAIN found'[k] /\ found'[k][i] = found[k][i]
         /\ \A k \in {"suggestion", "metric"} : \A i \in DOMAIN found'[k] :
               \/ i \in DOMAIN found[k] /\ found'[k][i] = found[k][i]
               \/ k = field /\ found'[k][i] = m
  <1> DEFINE m == [from |-> from, to |-> to]
  <1>1. m \in MatchType
    BY DEF MatchType
  <1>2. /\ found \in [{"suggestion", "metric"} -> Seq(MatchType)]
        /\ found' = [found EXCEPT ![field] = Append(found[field], m)]
    BY DEF TypeOK, MatchType, Match
  <1> HIDE DEF m, MatchType
  <1>3. ASSUME NEW s \in Seq(MatchType)
        PROVE  /\ Append(s, m) \in Seq(MatchType)
               /\ DOMAIN s = 1..Len(s)
               /\ DOMAIN Append(s, m) = 1..(Len(s) + 1)
               /\ Append(s, m)[Len(s) + 1] = m
               /\ \A i \in DOMAIN s : Append(s, m)[i] = s[i]
    BY <1>1
  <1>4. found[field] \in Seq(MatchType) /\ Len(found[field]) \in Nat
    BY <1>2
  <1>5. /\ found' \in [{"suggestion", "metric"} -> Seq(MatchType)]
        /\ found'[field] = Append(found[field], m)
    BY <1>2, <1>3, <1>4
  <1>6. Len(found[field]) + 1 \in DOMAIN found'[field]
    BY <1>3, <1>4, <1>5
  <1>7. \E i \in DOMAIN found'[field] : found'[field][i] = m
    BY <1>3, <1>4, <1>5, <1>6
  <1>8. ASSUME NEW k \in {"suggestion", "metric"}
        PROVE  /\ \A i \in DOMAIN found[k] :
                     i \in DOMAIN found'[k] /\ found'[k][i] = found[k][i]
               /\ \A i \in DOMAIN found'[k] :
                     \/ i \in DOMAIN found[k] /\ found'[k][i] = found[k][i]
                     \/ k = field /\ found'[k][i] = m
    <2>1. CASE k # field
      <3>1. found'[k] = found[k]
        BY <1>2, <2>1
      <3>2. QED  BY <3>1
    <2>2. CASE k = field
      <3>1. DOMAIN found[k] = 1..Len(found[k]) /\ DOMAIN found'[k] = 1..(Len(found[k]) + 1)
        BY <1>3, <1>4, <1>5, <2>2
      <3>2. \A i \in DOMAIN found[k] : found'[k][i] = found[k][i]
        BY <1>3, <1>4, <1>5, <2>2
      <3>3. found'[k][Len(found[k]) + 1] = m
        BY <1>3, <1>4, <1>5, <2>2
      <3>4. QED  BY <3>1, <3>2, <3>3, <1>4, <2>2
    <2>3. QED  BY <2>1, <2>2
  <1>9. QED  BY <1>5, <1>7, <1>8 DEF m

\* What is searched already when the next expression begins.
LEMMA NextFieldSearches ==
  ASSUME TypeOK, Searching, NextField, UNCHANGED reply
  PROVE  /\ field' \in Keywords \cup {"done"} /\ mode' = "seek"
         /\ at' = 1 /\ from' = 0 /\ last' = 0
         /\ \A k \in {"suggestion", "metric"} :
               Searched(k)' \in {0, IF k = field THEN Len(text) ELSE Searched(k)}
  BY DEF TypeOK, Searching, Keywords, NextField, After, Searched, reply

-----------------------------------------------------------------------------
\* The first stage.
LEMMA StageSteps ==
  ASSUME IInv, Unmarshal \/ NotJSON
  PROVE  IInv'
  <1> USE DEF Unmarshal, NotJSON, reply
  <1>1. TypeOK'
    BY DEF IInv, TypeOK, Keywords
  <1>2. ModeInv' /\ ValueFromOwnLine'
    BY DEF IInv, ModeInv, Searching, Keywords, ValueFromOwnLine, Lists
  <1>3. MentionsCovered'
    BY DEF IInv, MentionsCovered, Searched, Lists, TypeOK
  <1>4. QED  BY <1>1, <1>2, <1>3 DEF IInv
-----------------------------------------------------------------------------
(* The search.                                                             *)

Covered(k, p) ==
    \/ \E i \in DOMAIN found[k] : p \in found[k][i].from .. found[k][i].to
    \/ field = k /\ mode # "seek" /\ p >= from
    \/ \A q \in (p + 1)..Len(text) : text[q] = Newline

\* A step that looks at one token, and is in a match afterwards or has not
\* passed over a keyword.
LEMMA ConsumeStep ==
  ASSUME IInv, Searching, More, at' \in {at, at + 1},
         UNCHANGED <<reply, field, found>>,
         \/ at' = at /\ field = "confidence"
         \/ mode' = "seek" /\ mode = "seek" /\ text[at] # field
         \/ mode' # "seek" /\ mode = "seek" /\ from' = at
         \/ mode' # "seek" /\ mode # "seek" /\ from' = from
  PROVE  MentionsCovered' /\ ValueFromOwnLine'
  <1> USE DEF reply, Lists
  <1>1. ValueFromOwnLine'
    BY DEF IInv, ValueFromOwnLine
  <1>2. at \in Nat /\ from \in Nat /\ Len(text) \in Nat /\ at \in 1..Len(text)
    BY DEF IInv, TypeOK, More
  <1>3. DOMAIN found = {"suggestion", "metric"}
    BY DEF IInv, TypeOK
  <1>4. ASSUME NEW k \in {"suggestion", "metric"}, NEW p \in 1..Searched(k)', text[p] = k
        PROVE  Covered(k, p)'
    <2>1. CASE field # k
      <3>1. Searched(k)' = Searched(k)
        BY <2>1 DEF Searched
      <3>2. Covered(k, p)
        BY <3>1, <1>3, <1>4 DEF IInv, MentionsCovered, Covered
      <3>3. QED  BY <3>2, <2>1 DEF Covered
    <2>2. CASE field = k /\ p <= at - 1
      <3>1. Searched(k) = at - 1 /\ p \in 1..(at - 1)
        BY <2>2, <1>2, <1>4 DEF Searched
      <3>2. Covered(k, p)
        BY <3>1, <1>3, <1>4 DEF IInv, MentionsCovered, Covered
      <3>3. QED  BY <3>1, <3>2, <2>2, <1>2 DEF Covered
    <2>3. CASE field = k /\ ~(p <= at - 1)
      <3>1. p = at /\ at' = at + 1
        <4>1. Searched(k)' = at' - 1
          BY <2>3 DEF Searched
        <4>2. p \in 1..(at' - 1)
          BY <4>1, <1>4
        <4>3. at' = at \/ at' = at + 1
          OBVIOUS
        <4>4. CASE at' = at
          BY <4>2, <4>4, <2>3, <1>2
        <4>5. CASE at' = at + 1
          <5>1. p \in 1..at
            BY <4>2, <4>5, <1>2
          <5>2. QED  BY <5>1, <4>5, <2>3, <1>2
        <4>6. QED  BY <4>3, <4>4, <4>5
      <3>2. mode' # "seek" /\ p >= from'
        BY <3>1, <2>3, <1>2, <1>4 DEF IInv, ModeInv
      <3>3. QED  BY <3>2, <2>3 DEF Covered
    <2>4. QED  BY <2>1, <2>2, <2>3, <1>2, <1>4 DEF Searched
  <1>5. QED  BY <1>1, <1>3, <1>4 DEF MentionsCovered, Covered

\* The steps up to the value.
LEMMA BlankSteps ==
  ASSUME IInv, Seek \/ Keyword \/ TakeColon \/ TakeBlank \/ NoNumber
  PROVE  IInv'
  <1> USE DEF In, More, Consume, AtValue, reply
  <1>1. MentionsCovered' /\ ValueFromOwnLine'
    <2>1. CASE Seek
      BY <2>1, ConsumeStep DEF Seek
    <2>2. CASE Keyword
      BY <2>2, ConsumeStep DEF Keyword
    <2>3. CASE TakeColon
      BY <2>3, ConsumeStep DEF TakeColon
    <2>4. CASE TakeBlank
      BY <2>4, ConsumeStep DEF TakeBlank
    <2>5. CASE NoNumber
      BY <2>5, ConsumeStep DEF NoNumber
    <2>6. QED  BY <2>1, <2>2, <2>3, <2>4, <2>5
  <1>2. Len(text) \in Nat /\ at \in Nat /\ from \in Nat /\ last \in Nat
    BY DEF IInv, TypeOK
  <1>3. TypeOK'
    <2>1. at' \in 1..(Len(text) + 1) /\ from' \in 0..(at' - 1) /\ last' \in 0..(at' - 1)
      BY <1>2 DEF IInv, TypeOK, Seek, Keyword, TakeColon, TakeBlank, NoNumber
    <2>2. UNCHANGED <<json, text, field, confidence, found>>
      BY DEF Seek, Keyword, TakeColon, TakeBlank, NoNumber
    <2>3. mode' \in {"seek", "colon", "blank", "line"}
      BY DEF Seek, Keyword, TakeColon, TakeBlank, NoNumber
    <2>4. QED  BY <2>1, <2>2, <2>3 DEF IInv, TypeOK
  <1>4. ModeInv'
    <2> USE <1>2 DEF IInv, TypeOK, ModeInv, Searching
    <2>1. CASE Seek \/ Keyword \/ NoNumber
      BY <2>1 DEF Seek, Keyword, NoNumber
    <2>2. CASE TakeColon
      BY <2>2 DEF TakeColon, Filler
    <2>3. CASE TakeBlank
      <3>1. at' = at + 1 /\ mode' = "blank" /\ UNCHANGED <<text, field, from>>
        BY <2>3 DEF TakeBlank
      <3>2. from \in 1..(at - 1) /\ text[from] = field /\ Searching
        BY <2>3 DEF TakeBlank
      <3>3. last' # 0 => last' > from
        BY <2>3 DEF TakeBlank
      <3>4. ASSUME NEW r \in (from + 1)..at
            PROVE  Filler(from, r) /\ (r > last' => text[r] = Newline)
        <4>1. CASE r = at
          BY <2>3, <4>1 DEF TakeBlank, Filler, Blanks
        <4>2. CASE r # at
          <5>1. mode = "blank" /\ r \in (from + 1)..(at - 1)
            BY <2>3, <4>2, <3>4 DEF TakeBlank
          <5>2. Filler(from, r) /\ (r > last => text[r] = Newline)
            BY <5>1
          <5>3. last' >= last
            BY <2>3 DEF TakeBlank
          <5>4. QED  BY <5>2, <5>3, <3>4, <2>3 DEF TakeBlank
        <4>3. QED  BY <4>1, <4>2
      <3>5. QED  BY <3>1, <3>2, <3>3, <3>4 DEF Filler
    <2>4. QED  BY <2>1, <2>2, <2>3
  <1>5. QED  BY <1>1, <1>3, <1>4 DEF IInv

\* The steps inside the value.
LEMMA LineSteps ==
  ASSUME IInv, BeginLine \/ TakeLine
  PROVE  IInv'
  <1> USE DEF In, More, Consume, AtValue, reply
  <1>1. Searching /\ More /\ mode # "seek" /\ mode' = "line" /\ at' = at + 1 /\ last' = at
        /\ UNCHANGED <<json, text, field, from, confidence, found>>
    BY DEF BeginLine, TakeLine
  <1>2. MentionsCovered' /\ ValueFromOwnLine'
    BY <1>1, ConsumeStep
  <1>3. Len(text) \in Nat /\ at \in Nat /\ from \in Nat /\ last \in Nat
    BY DEF IInv, TypeOK
  <1>4. TypeOK'
    BY <1>1, <1>3 DEF IInv, TypeOK
  <1>5. field # "confidence" /\ from \in 1..(at - 1) /\ text[at] # Newline
    BY DEF IInv, ModeInv, BeginLine, TakeLine, Blanks
  <1>6. OwnLine(from, at)
    <2>1. ASSUME NEW q \in from..at, text[q] = Newline, NEW r \in (from + 1)..q
          PROVE  Filler(from, r)
      <3>1. q < at
        BY <2>1, <1>3, <1>5
      <3>2. CASE mode = "line"
        BY <2>1, <3>1, <3>2, <1>3 DEF IInv, ModeInv, OwnLine
      <3>3. CASE mode # "line"
        BY <2>1, <3>1, <3>3, <1>3, <1>5 DEF IInv, ModeInv, BeginLine, TakeLine
      <3>4. QED  BY <3>2, <3>3
    <2>2. QED  BY <2>1 DEF OwnLine
  <1>7. ModeInv'
    BY <1>1, <1>3, <1>5, <1>6 DEF IInv, ModeInv, OwnLine, Filler, Searching
  <1>8. QED  BY <1>2, <1>4, <1>7 DEF IInv

-----------------------------------------------------------------------------
\* What was found so far keeps its shape when a match is added that has it.
LEMMA MatchStep ==
  ASSUME IInv, field \in {"suggestion", "metric"}, last # 0, mode # "seek",
         Match(last), UNCHANGED reply
  PROVE  /\ found' \in [{"suggestion", "metric"} -> Seq(MatchType)]
         /\ ValueFromOwnLine'
         /\ \A k \in {"suggestion", "metric"}, p \in Nat :
               (\E i \in DOMAIN found[k] : p \in found[k][i].from .. found[k][i].to)
                  => \E i \in DOMAIN found'[k] : p \in found'[k][i].from .. found'[k][i].to
         /\ \A p \in from..last :
               \E i \in DOMAIN found'[field] :
                  p \in found'[field][i].from .. found'[field][i].to
  <1> DEFINE m == [from |-> from, to |-> last]
  <1>1. Len(text) \in Nat /\ at \in 1..(Len(text) + 1) /\ from \in Nat /\ last \in Nat
    BY DEF IInv, TypeOK
  <1>2. from \in 1..(at - 1) /\ from < last /\ last \in 0..(at - 1) /\ text[from] = field
    BY <1>1 DEF IInv, TypeOK, ModeInv
  <1>3. from \in 1..Len(text) /\ last \in 2..Len(text)
    BY <1>1, <1>2
  <1>4. /\ found' \in [{"suggestion", "metric"} -> Seq(MatchType)]
        /\ \E i \in DOMAIN found'[field] : found'[field][i] = m
        /\ \A k \in {"suggestion", "metric"} : \A i \in DOMAIN found[k] :
              i \in DOMAIN found'[k] /\ found'[k][i] = found[k][i]
        /\ \A k \in {"suggestion", "metric"} : \A i \in DOMAIN found'[k] :
              \/ i \in DOMAIN found[k] /\ found'[k][i] = found[k][i]
              \/ k = field /\ found'[k][i] = m
    BY <1>3, MatchAdds DEF IInv
  <1>5. m.from = from /\ m.to = last
    OBVIOUS
  <1> HIDE DEF m
  <1>6. OwnLine(from, last)
    <2>1. mode = "line" \/ mode = "blank"
      BY DEF IInv, TypeOK, ModeInv
    <2>2. CASE mode = "line"
      BY <2>2 DEF IInv, ModeInv
    <2>3. CASE mode = "blank"
      BY <2>3, <1>1, <1>2 DEF IInv, ModeInv, OwnLine
    <2>4. QED  BY <2>1, <2>2, <2>3
  <1>7. ValueFromOwnLine'
    <2>1. ASSUME NEW k \in {"suggestion", "metric"}, NEW i \in DOMAIN found'[k],
                 NEW q \in found'[k][i].from .. found'[k][i].to, text[q] = Newline,
                 NEW r \in (found'[k][i].from + 1)..q
          PROVE  Filler(found'[k][i].from, r)
      <3>1. CASE i \in DOMAIN found[k] /\ found'[k][i] = found[k][i]
        <4>1. DOMAIN found = {"suggestion", "metric"}
          BY DEF IInv, TypeOK
        <4>2. QED  BY <2>1, <3>1, <4>1 DEF IInv, ValueFromOwnLine, Lists, Filler
      <3>2. CASE found'[k][i] = m
        BY <2>1, <3>2, <1>5, <1>6 DEF OwnLine
      <3>3. QED  BY <3>1, <3>2, <1>4
    <2>2. DOMAIN found' = {"suggestion", "metric"} /\ text' = text
      BY <1>4 DEF reply
    <2>3. QED  BY <2>1, <2>2 DEF ValueFromOwnLine, Lists, Filler
  <1>8. \A k \in {"suggestion", "metric"}, p \in Nat :
            (\E i \in DOMAIN found[k] : p \in found[k][i].from .. found[k][i].to)
               => \E i \in DOMAIN found'[k] : p \in found'[k][i].from .. found'[k][i].to
    BY <1>4
  <1>9. \A p \in from..last :
            \E i \in DOMAIN found'[field] : p \in found'[field][i].from .. found'[field][i].to
    BY <1>4, <1>5
  <1>10. QED  BY <1>4, <1>7, <1>8, <1>9

\* The newline that ends a value, and with it a match.
LEMMA EndLineStep ==
  ASSUME IInv, EndLine
  PROVE  IInv'
  <1> USE DEF EndLine, In, More, reply
  <1>1. /\ field \in {"suggestion", "metric"} /\ mode = "line"
        /\ last = at - 1 /\ last # 0 /\ from \in 1..(at - 1)
        /\ at \in 1..Len(text) /\ Len(text) \in Nat
    BY DEF IInv, TypeOK, ModeInv, Searching, Keywords
  <1>2. /\ found' \in [{"suggestion", "metric"} -> Seq(MatchType)]
        /\ ValueFromOwnLine'
        /\ \A k \in {"suggestion", "metric"}, p \in Nat :
              (\E i \in DOMAIN found[k] : p \in found[k][i].from .. found[k][i].to)
                 => \E i \in DOMAIN found'[k] : p \in found'[k][i].from .. found'[k][i].to
        /\ \A p \in from..last :
              \E i \in DOMAIN found'[field] :
                 p \in found'[field][i].from .. found'[field][i].to
    BY <1>1, MatchStep
  <1>3. TypeOK'
    BY <1>1, <1>2 DEF IInv, TypeOK, MatchType
  <1>4. ModeInv'
    BY DEF ModeInv
  <1>5. MentionsCovered'
    <2>1. DOMAIN found = {"suggestion", "metric"} /\ DOMAIN found' = {"suggestion", "metric"}
      BY <1>2 DEF IInv, TypeOK
    <2>2. ASSUME NEW k \in {"suggestion", "metric"}, NEW p \in 1..Searched(k)', text[p] = k
          PROVE  Covered(k, p)'
      <3>1. Searched(k)' = Searched(k)
        BY DEF Searched
      <3>2. Covered(k, p)
        BY <3>1, <2>1, <2>2 DEF IInv, MentionsCovered, Covered, Lists
      <3>3. p \in Nat /\ (field = k => p <= last)
        BY <1>1, <2>2, <3>1 DEF Searched
      <3>4. CASE \E i \in DOMAIN found[k] : p \in found[k][i].from .. found[k][i].to
        BY <1>2, <3>3, <3>4 DEF Covered
      <3>5. CASE field = k /\ p >= from
        <4>1. p \in from..last
          BY <3>3, <3>5, <1>1
        <4>2. QED  BY <4>1, <3>5, <1>2 DEF Covered
      <3>6. CASE \A q \in (p + 1)..Len(text) : text[q] = Newline
        BY <3>6 DEF Covered
      <3>7. QED  BY <3>2, <3>4, <3>5, <3>6 DEF Covered
    <2>3. QED  BY <2>1, <2>2 DEF MentionsCovered, Covered, Lists
  <1>6. QED  BY <1>2, <1>3, <1>4, <1>5 DEF IInv

-----------------------------------------------------------------------------
\* The next expression begins, and what was found for this one is complete.
LEMMA FieldStep ==
  ASSUME IInv, Searching, NextField, UNCHANGED reply,
         found' \in [{"suggestion", "metric"} -> Seq(MatchType)],
         confidence' \in Confidences,
         ValueFromOwnLine',
         \A k \in {"suggestion", "metric"}, p \in Nat :
            (\E i \in DOMAIN found[k] : p \in found[k][i].from .. found[k][i].to)
               => \E i \in DOMAIN found'[k] : p \in found'[k][i].from .. found'[k][i].to,
         field # "confidence" =>
            \A p \in 1..Len(text) : text[p] = field =>
                \/ \E i \in DOMAIN found'[field] :
                      p \in found'[field][i].from .. found'[field][i].to
                \/ \A q \in (p + 1)..Len(text) : text[q] = Newline
  PROVE  IInv'
  <1> USE DEF reply
  <1>1. /\ field' \in Keywords \cup {"done"} /\ mode' = "seek"
        /\ at' = 1 /\ from' = 0 /\ last' = 0
        /\ \A k \in {"suggestion", "metric"} :
              Searched(k)' \in {0, IF k = field THEN Len(text) ELSE Searched(k)}
    BY NextFieldSearches DEF IInv
  <1>2. Len(text) \in Nat
    BY DEF IInv, TypeOK
  <1>3. TypeOK'
    BY <1>1, <1>2 DEF IInv, TypeOK, MatchType
  <1>4. ModeInv'
    BY <1>1 DEF ModeInv
  <1>5. MentionsCovered'
    <2>1. DOMAIN found = {"suggestion", "metric"} /\ DOMAIN found' = {"suggestion", "metric"}
      BY DEF IInv, TypeOK
    <2>2. ASSUME NEW k \in {"suggestion", "metric"}, NEW p \in 1..Searched(k)', text[p] = k
          PROVE  Covered(k, p)'
      <3>1. CASE k = field
        <4>1. p \in 1..Len(text) /\ field # "confidence"
          BY <1>1, <1>2, <2>2, <3>1
        <4>2. QED  BY <4>1, <2>2, <3>1 DEF Covered
      <3>2. CASE k # field
        <4>1. p \in 1..Searched(k) /\ p \in Nat
          BY <1>1, <2>2, <3>2
        <4>2. Covered(k, p)
          BY <4>1, <2>1, <2>2 DEF IInv, MentionsCovered, Covered, Lists
        <4>3. QED  BY <4>1, <4>2, <3>2 DEF Covered
      <3>3. QED  BY <3>1, <3>2
    <2>3. QED  BY <2>1, <2>2 DEF MentionsCovered, Covered, Lists
  <1>6. QED  BY <1>3, <1>4, <1>5 DEF IInv

\* The number that ends the search for the confidence.
LEMMA TakeNumberStep ==
  ASSUME IInv, TakeNumber
  PROVE  IInv'
  <1>1. found' \in [{"suggestion", "metric"} -> Seq(MatchType)]
    BY DEF IInv, TypeOK, MatchType, TakeNumber
  <1>2. confidence' \in Confidences
    BY DEF IInv, TypeOK, TakeNumber, Confidences
  <1>3. ValueFromOwnLine'
    BY DEF IInv, ValueFromOwnLine, Lists, TakeNumber, reply
  <1>4. Searching /\ NextField /\ UNCHANGED reply /\ field = "confidence" /\ found' = found
    BY DEF TakeNumber, AtValue, In
  <1>5. QED  BY <1>1, <1>2, <1>3, <1>4, FieldStep

\* The end of the reply, and of the match that it cuts.
LEMMA EndTextStep ==
  ASSUME IInv, EndText
  PROVE  IInv'
  <1> USE DEF EndText, More
  <1>1. /\ Len(text) \in Nat /\ at = Len(text) + 1
        /\ from \in 0..Len(text) /\ last \in 0..Len(text)
    BY DEF IInv, TypeOK
  <1>2. Searching /\ NextField /\ UNCHANGED reply /\ UNCHANGED confidence
    OBVIOUS
  <1>3. confidence' \in Confidences
    BY <1>2 DEF IInv, TypeOK
  <1>4. DOMAIN found = {"suggestion", "metric"}
    BY DEF IInv, TypeOK
  <1>5. ASSUME field # "confidence", NEW p \in 1..Len(text), text[p] = field
        PROVE  \/ \E i \in DOMAIN found[field] :
                     p \in found[field][i].from .. found[field][i].to
               \/ mode # "seek" /\ p >= from
               \/ \A q \in (p + 1)..Len(text) : text[q] = Newline
    <2>1. field \in {"suggestion", "metric"} /\ Searched(field) = Len(text)
      BY <1>1, <1>2, <1>5 DEF Searching, Keywords, Searched
    <2>2. QED  BY <2>1, <1>4, <1>5 DEF IInv, MentionsCovered, Lists
  <1>6. CASE last # 0 /\ field # "confidence"
    <2>1. field \in {"suggestion", "metric"} /\ mode # "seek" /\ Match(last)
      BY <1>6 DEF IInv, ModeInv, Searching, Keywords
    <2>2. /\ found' \in [{"suggestion", "metric"} -> Seq(MatchType)]
          /\ ValueFromOwnLine'
          /\ \A k \in {"suggestion", "metric"}, p \in Nat :
                (\E i \in DOMAIN found[k] : p \in found[k][i].from .. found[k][i].to)
                   => \E i \in DOMAIN found'[k] : p \in found'[k][i].from .. found'[k][i].to
          /\ \A p \in from..last :
                \E i \in DOMAIN found'[field] :
                   p \in found'[field][i].from .. found'[field][i].to
      BY <1>2, <1>6, <2>1, MatchStep
    <2>3. ASSUME NEW p \in 1..Len(text), text[p] = field
          PROVE  \/ \E i \in DOMAIN found'[field] :
                       p \in found'[field][i].from .. found'[field][i].to
                 \/ \A q \in (p + 1)..Len(text) : text[q] = Newline
      <3>1. CASE \E i \in DOMAIN found[field] : p \in found[field][i].from .. found[field][i].to
        BY <2>1, <2>2, <3>1
      <3>2. CASE p \in from..last
        BY <2>2, <3>2
      <3>3. CASE p > last /\ p >= from
        <4>1. mode = "blank"
          BY <1>1, <1>6, <2>1, <3>3 DEF IInv, TypeOK, ModeInv
        <4>2. text[p] = Newline
          BY <1>1, <1>6, <3>3, <4>1 DEF IInv, ModeInv
        <4>3. QED  BY <4>2, <2>1, <2>3 DEF Newline
      <3>4. QED  BY <1>1, <1>5, <1>6, <2>3, <3>1, <3>2, <3>3
    <2>4. QED  BY <1>2, <1>3, <2>2, <2>3, FieldStep
  <1>7. CASE ~(last # 0 /\ field # "confidence")
    <2>1. found' = found
      BY <1>7
    <2>2. found' \in [{"suggestion", "metric"} -> Seq(MatchType)] /\ ValueFromOwnLine'
      <3>1. found' \in [{"suggestion", "metric"} -> Seq(MatchType)]
        BY <2>1 DEF IInv, TypeOK, MatchType
      <3>2. ValueFromOwnLine'
        BY <2>1, <1>2 DEF IInv, ValueFromOwnLine, Lists, reply
      <3>3. QED  BY <3>1, <3>2
    <2>3. ASSUME field # "confidence", NEW p \in 1..Len(text), text[p] = field,
                 mode # "seek", p >= from
          PROVE  \A q \in (p + 1)..Len(text) : text[q] = Newline
      <3>1. last = 0 /\ (mode = "colon" \/ mode = "blank")
        BY <1>1, <1>7, <2>3 DEF IInv, TypeOK, ModeInv
      <3>2. CASE mode = "colon"
        BY <1>1, <2>3, <3>2 DEF IInv, ModeInv
      <3>3. CASE mode = "blank"
        BY <1>1, <2>3, <3>1, <3>3 DEF IInv, ModeInv
      <3>4. QED  BY <3>1, <3>2, <3>3
    <2>4. QED  BY <1>2, <1>3, <1>5, <2>1, <2>2, <2>3, FieldStep
  <1>8. QED  BY <1>6, <1>7

\* Every step keeps the invariant.
LEMMA NextIInv == IInv /\ [Next]_vars => IInv'
  <1>1. IInv /\ UNCHANGED vars => IInv'
    BY DEF vars, IInv, TypeOK, ModeInv, OwnLine, Filler, Searching, MentionsCovered,
        Searched, ValueFromOwnLine, Lists
  <1>2. QED  BY <1>1, StageSteps, BlankSteps, LineSteps, EndLineStep, TakeNumberStep,
                EndTextStep DEF Next

-----------------------------------------------------------------------------
(* The confidence.  While it is searched for, no run of digits that a      *)
(* mention gives has been passed over, and no mention that gives one but   *)
(* the one under way.                                                      *)

NumberInv ==
    /\ field = "json" => at = 1 /\ mode = "seek"
    /\ field \in {"json", "confidence"} => confidence = Default
    /\ mode = "blank" => from + 1 < at
    /\ field = "confidence" =>
          \A p, n \in DOMAIN text : Gives(p, n) =>
              /\ n >= at
              /\ mode = "seek" => p >= at
              /\ mode # "seek" => p >= from

\* Numbers, keywords, the colon and blanks are different tokens.
LEMMA TokensDiffer ==
  /\ "confidence" \notin Numbers /\ Colon \notin Numbers
  /\ \A b \in Blanks : b \notin Numbers
  /\ "confidence" \notin Blanks /\ "confidence" # Colon
  BY ParserAssumption DEF ParserAssumption, Keywords, Colon, Blanks, Space, Newline

\* The numbers of the state.
LEMMA Positions ==
  ASSUME TypeOK
  PROVE  /\ Len(text) \in Nat /\ DOMAIN text = 1..Len(text)
         /\ at \in Nat /\ at >= 1 /\ at <= Len(text) + 1
         /\ from \in Nat /\ from <= at - 1
  BY DEF TypeOK

\* The steps of the search for the confidence that do not find it.
LEMMA SearchForNumber ==
  ASSUME IInv, NumberInv, field = "confidence",
         Seek \/ Keyword \/ TakeColon \/ TakeBlank \/ NoNumber
  PROVE  NumberInv'
  <1> USE DEF In, More, Consume, AtValue, reply
  <1>1. /\ Len(text) \in Nat /\ DOMAIN text = 1..Len(text)
        /\ at \in Nat /\ at >= 1 /\ from \in Nat /\ from <= at - 1
        /\ at <= Len(text)
    BY Positions DEF IInv, Seek, Keyword, TakeColon, TakeBlank, NoNumber
  <1>2. UNCHANGED <<json, text, field, confidence, found>> /\ mode' # "json"
    BY DEF Seek, Keyword, TakeColon, TakeBlank, NoNumber
  <1>3. mode' = "blank" => from' + 1 < at'
    BY <1>1 DEF IInv, ModeInv, Seek, Keyword, TakeColon, TakeBlank, NoNumber, NumberInv
  <1>4. ASSUME NEW p \in DOMAIN text, NEW n \in DOMAIN text, Gives(p, n)
        PROVE  n >= at' /\ (mode' = "seek" => p >= at') /\ (mode' # "seek" => p >= from')
    <2>1. /\ text[p] = "confidence" /\ text[n] \in Numbers /\ p < n
          /\ \A q \in (p + 1)..(n - 1) : Filler(p, q)
          /\ p \in Nat /\ n \in Nat /\ n >= at
          /\ mode = "seek" => p >= at
          /\ mode # "seek" => p >= from
      BY <1>1, <1>4 DEF NumberInv, Gives, Filler
    <2>2. CASE Seek
      <3>1. p # at
        BY <2>1, <2>2 DEF Seek
      <3>2. QED  BY <1>1, <2>1, <2>2, <3>1 DEF Seek
    <2>3. CASE Keyword
      BY <1>1, <2>1, <2>3 DEF Keyword
    <2>4. CASE TakeColon \/ TakeBlank
      <3>1. n # at
        BY <2>1, <2>4, TokensDiffer DEF TakeColon, TakeBlank
      <3>2. at' = at + 1 /\ mode' = "blank" /\ from' = from /\ mode # "seek"
        BY <2>4 DEF TakeColon, TakeBlank
      <3>3. QED  BY <1>1, <2>1, <3>1, <3>2
    <2>5. CASE NoNumber
      <3>1. /\ at' = at /\ mode' = "seek" /\ p >= from /\ text[at] \notin Numbers
            /\ text[at] \notin Blanks
            /\ mode = "blank" \/ (mode = "colon" /\ text[at] # Colon)
            /\ text[from] = field
        BY <2>1, <2>5 DEF NoNumber, IInv, ModeInv
      <3>2. n # at
        BY <2>1, <3>1
      <3>3. p # from \/ p >= at
        <4> SUFFICES ASSUME p = from, p < at  PROVE  FALSE
          BY <1>1, <2>1
        <4>1. at \in (p + 1)..(n - 1)
          BY <1>1, <2>1, <3>2
        <4>2. at = from + 1 /\ text[at] = Colon
          BY <2>1, <3>1, <4>1 DEF Filler
        <4>3. QED  BY <1>1, <3>1, <4>2 DEF NumberInv
      <3>4. p > from => p >= at
        <4> SUFFICES ASSUME p > from, p < at  PROVE  FALSE
          BY <1>1, <2>1
        <4>1. mode # "colon"
          BY <1>1, <2>1 DEF IInv, ModeInv
        <4>2. p \in (from + 1)..(at - 1)
          BY <1>1, <2>1
        <4>3. Filler(from, p)
          BY <3>1, <4>1, <4>2 DEF IInv, ModeInv
        <4>4. QED  BY <2>1, <4>3, TokensDiffer DEF Filler
      <3>5. QED  BY <1>1, <2>1, <3>1, <3>3, <3>4
    <2>6. QED  BY <2>2, <2>3, <2>4, <2>5
  <1>5. QED  BY <1>2, <1>3, <1>4 DEF NumberInv, Gives

\* The number that is found is the first one given.
LEMMA NumberFound ==
  ASSUME IInv, NumberInv, TakeNumber
  PROVE  Given # {} /\ Min(Given) = at
  <1> USE DEF TakeNumber, AtValue, In, More
  <1>1. /\ Len(text) \in Nat /\ DOMAIN text = 1..Len(text)
        /\ at \in Nat /\ from \in Nat /\ at \in DOMAIN text
        /\ from \in 1..(at - 1) /\ text[from] = "confidence"
    BY Positions DEF IInv, ModeInv
  <1>2. \A q \in (from + 1)..(at - 1) : text[q] \in Blanks \/ (q = from + 1 /\ text[q] = Colon)
    BY <1>1 DEF IInv, ModeInv, Filler
  <1>3. Gives(from, at) /\ from \in DOMAIN text
    BY <1>1, <1>2 DEF Gives
  <1>4. at \in Given
    BY <1>1, <1>3 DEF Given
  <1>5. \A n \in Given : n \in Nat /\ at <= n
    BY <1>1 DEF Given, NumberInv
  <1>6. \A m \in Given : (\A n \in Given : m <= n) => m = at
    BY <1>1, <1>4, <1>5
  <1>7. QED  BY <1>4, <1>5, <1>6 DEF Min

ConfidenceInv == NumberInv /\ FirstNumberCounts

\* Before the search the confidence is open.
LEMMA InitConfidence == Init => ConfidenceInv
  <1> SUFFICES ASSUME Init  PROVE  ConfidenceInv
    OBVIOUS
  <1>1. QED  BY DEF Init, ConfidenceInv, NumberInv, FirstNumberCounts

\* Every step keeps what is known of the confidence.
LEMMA NextConfidence == IInv /\ ConfidenceInv /\ [Next]_vars => ConfidenceInv'
  <1> SUFFICES ASSUME IInv, ConfidenceInv, [Next]_vars  PROVE  ConfidenceInv'
    OBVIOUS
  <1> USE DEF ConfidenceInv
  <1>1. CASE Unmarshal
    BY <1>1 DEF Unmarshal, reply, NumberInv, FirstNumberCounts
  <1>2. CASE NotJSON
    <2>1. /\ UNCHANGED <<json, text, mode, at, from, last, confidence, found>>
          /\ field = "json" /\ field' = "confidence"
      BY <1>2 DEF NotJSON, reply
    <2>2. \A p, n \in DOMAIN text : n >= 1 /\ p >= 1
      BY Positions DEF IInv
    <2>3. QED  BY <2>1, <2>2 DEF NumberInv, FirstNumberCounts
  <1>3. CASE field = "confidence" /\ (Seek \/ Keyword \/ TakeColon \/ TakeBlank \/ NoNumber)
    <2>1. NumberInv'
      BY <1>3, SearchForNumber
    <2>2. field' = "confidence"
      BY <1>3 DEF Seek, Keyword, TakeColon, TakeBlank, NoNumber
    <2>3. QED  BY <2>1, <2>2 DEF FirstNumberCounts
  <1>4. CASE TakeNumber
    <2>1. /\ field = "confidence" /\ field' = "suggestion" /\ mode' = "seek"
          /\ UNCHANGED <<json, text>> /\ confidence = Default
          /\ confidence' = IF Parsed[text[at]] = None THEN confidence ELSE Parsed[text[at]]
      BY <1>4 DEF TakeNumber, NextField, After, reply, NumberInv
    <2>2. Given # {} /\ Min(Given) = at
      BY <1>4, NumberFound
    <2>3. Given' = Given
      BY <2>1 DEF Given, Gives
    <2>4. QED  BY <2>1, <2>2, <2>3 DEF NumberInv, FirstNumberCounts
  <1>5. CASE EndText /\ field = "confidence"
    <2>1. /\ field' = "suggestion" /\ mode' = "seek" /\ UNCHANGED <<json, text, confidence>>
          /\ confidence = Default /\ at > Len(text)
      BY <1>5, Positions DEF EndText, NextField, After, reply, More, NumberInv, IInv
    <2>2. Given = {}
      BY <1>5, <2>1, Positions DEF IInv, NumberInv, Given
    <2>3. Given' = Given
      BY <2>1 DEF Given, Gives
    <2>4. QED  BY <2>1, <2>2, <2>3 DEF NumberInv, FirstNumberCounts
  <1>6. CASE field # "confidence" /\ (\/ Seek \/ Keyword \/ TakeColon \/ TakeBlank
                                       \/ BeginLine \/ TakeLine \/ EndLine \/ EndText)
    <2>1. /\ UNCHANGED <<json, text, confidence>> /\ field \in {"suggestion", "metric"}
          /\ field' \in {"suggestion", "metric", "done"}
      BY <1>6 DEF Seek, Keyword, TakeColon, TakeBlank, BeginLine, TakeLine, EndLine,
                  EndText, NextField, After, In, Searching, Keywords, AtValue, reply
    <2>2. mode' = "blank" => from' + 1 < at'
      BY <1>6, Positions
      DEF Seek, Keyword, TakeColon, TakeBlank, BeginLine, TakeLine, EndLine,
          EndText, NextField, Consume, In, IInv, ModeInv, NumberInv
    <2>3. Given' = Given
      BY <2>1 DEF Given, Gives
    <2>4. FirstNumberCounts'
      BY <2>1, <2>3 DEF FirstNumberCounts
    <2>5. QED  BY <2>1, <2>2, <2>4 DEF NumberInv
  <1>7. CASE UNCHANGED vars
    BY <1>7 DEF vars, NumberInv, FirstNumberCounts, Given, Gives
  <1>8. (BeginLine \/ TakeLine \/ EndLine) => field # "confidence"
    BY DEF BeginLine, TakeLine, EndLine, In, IInv, ModeInv
  <1>9. (NoNumber \/ TakeNumber) => field = "confidence"
    BY DEF NoNumber, TakeNumber
  <1>10. QED  BY <1>1, <1>2, <1>3, <1>4, <1>5, <1>6, <1>7, <1>8, <1>9 DEF Next

-----------------------------------------------------------------------------
(* What the expressions match.                                             *)

\* A way takes some token that is no newline after the keyword.
LEMMA WayFacts ==
  ASSUME NEW k, NEW p \in Nat, NEW w \in Ways(k, p), Len(text) \in Nat
  PROVE  /\ w.colon \in 0..1 /\ w.blanks \in Nat /\ w.to \in Nat /\ w.to <= Len(text)
         /\ p + w.colon + w.blanks + 1 <= w.to
         /\ text[p] = k
         /\ w.colon = 1 => text[p + 1] = Colon
         /\ \A q \in (p + w.colon + 1)..(p + w.colon + w.blanks) : text[q] \in Blanks
         /\ \A q \in (p + w.colon + w.blanks + 1)..w.to : text[q] # Newline
  BY DEF Ways

\* No expression matches before nothing but newlines.
LEMMA NoWays ==
  ASSUME NEW k, NEW p \in Nat, Len(text) \in Nat,
         \A q \in (p + 1)..Len(text) : text[q] = Newline
  PROVE  Ways(k, p) = {}
  <1> SUFFICES ASSUME NEW w \in Ways(k, p)  PROVE  FALSE
    OBVIOUS
  <1> DEFINE value == p + w.colon + w.blanks + 1
  <1>1. /\ w.colon \in Nat /\ w.blanks \in Nat /\ w.to \in Nat /\ w.to <= Len(text)
        /\ value <= w.to /\ \A q \in value..w.to : text[q] # Newline
    BY WayFacts
  <1>2. value \in (p + 1)..Len(text) /\ value \in value..w.to
    BY <1>1
  <1>3. QED  BY <1>1, <1>2

\* A value that is followed by a newline, or ends the reply, is taken whole.
LEMMA LineMatches ==
  ASSUME NEW k, NEW p \in Nat, Len(text) \in Nat, text[p] = k,
         NEW to \in Nat, to <= Len(text), to = Len(text) \/ text[to + 1] = Newline,
         NEW colon \in 0..1, NEW blanks \in 0..Len(text),
         p + colon + blanks + 1 <= to,
         colon = 1 <=> text[p + 1] = Colon,
         \A q \in (p + colon + 1)..(p + colon + blanks) : text[q] \in Blanks,
         text[p + colon + blanks + 1] \notin Blanks,
         \A q \in (p + colon + blanks + 1)..to : text[q] # Newline
  PROVE  Matches(k, p, to)
  <1> DEFINE w == [colon |-> colon, blanks |-> blanks, to |-> to]
             value == p + colon + blanks + 1
  <1>1. w \in Ways(k, p)
    BY DEF Ways
  <1>2. ASSUME NEW v \in Ways(k, p)  PROVE  Prefers(w, v)
    <2>1. /\ v.colon \in 0..1 /\ v.blanks \in Nat /\ v.to \in Nat /\ v.to <= Len(text)
          /\ p + v.colon + v.blanks + 1 <= v.to
          /\ v.colon = 1 => text[p + 1] = Colon
          /\ \A q \in (p + v.colon + 1)..(p + v.colon + v.blanks) : text[q] \in Blanks
          /\ \A q \in (p + v.colon + v.blanks + 1)..v.to : text[q] # Newline
      BY WayFacts
    <2>2. v.colon <= colon
      BY <2>1
    <2>3. v.colon = colon => v.blanks <= blanks
      <3> SUFFICES ASSUME v.colon = colon, v.blanks > blanks  PROVE  FALSE
        BY <2>1
      <3>1. value \in (p + v.colon + 1)..(p + v.colon + v.blanks)
        BY <2>1
      <3>2. QED  BY <2>1, <3>1
    <2>4. v.colon = colon /\ v.blanks = blanks => v.to <= to
      <3> SUFFICES ASSUME v.colon = colon, v.blanks = blanks, v.to > to  PROVE  FALSE
        BY <2>1
      <3>1. to + 1 \in value..v.to /\ to # Len(text)
        BY <2>1
      <3>2. QED  BY <2>1, <3>1
    <2>5. w.colon = colon /\ w.blanks = blanks /\ w.to = to
      OBVIOUS
    <2> HIDE DEF w
    <2>6. QED  BY <2>1, <2>2, <2>3, <2>4, <2>5 DEF Prefers
  <1>3. w.to = to
    OBVIOUS
  <1> HIDE DEF w
  <1>4. QED  BY <1>1, <1>2, <1>3 DEF Matches

\* If only blanks follow to the end of the reply, what the search gives back is
\* all but the last token that is no newline.
LEMMA TailMatches ==
  ASSUME NEW k, NEW p \in Nat, Len(text) \in Nat, text[p] = k,
         NEW to \in Nat, p < to, to <= Len(text), text[to] # Newline,
         \A r \in (to + 1)..Len(text) : text[r] = Newline,
         \A r \in (p + 1)..Len(text) : Filler(p, r)
  PROVE  Matches(k, p, to)
  <1> DEFINE colon == IF text[p + 1] = Colon /\ to > p + 1 THEN 1 ELSE 0
             blanks == to - p - colon - 1
             w == [colon |-> colon, blanks |-> blanks, to |-> to]
  <1>1. /\ colon \in 0..1 /\ blanks \in 0..Len(text)
        /\ p + colon + blanks + 1 = to
        /\ colon = 1 <=> text[p + 1] = Colon /\ to > p + 1
    OBVIOUS
  <1>2. w.colon = colon /\ w.blanks = blanks /\ w.to = to
    OBVIOUS
  <1>3. w \in Ways(k, p)
    <2>1. ASSUME NEW q \in (p + colon + 1)..(to - 1)  PROVE  text[q] \in Blanks
      <3>1. Filler(p, q) /\ (q = p + 1 => colon = 0 /\ to > p + 1)
        BY <1>1
      <3>2. QED  BY <1>1, <3>1 DEF Filler
    <2>2. w \in [colon: 0..1, blanks: 0..Len(text), to: p..Len(text)]
      BY <1>1
    <2> HIDE DEF w, colon, blanks
    <2>3. QED  BY <1>1, <1>2, <2>1, <2>2 DEF Ways
  <1> HIDE DEF w, colon, blanks
  <1>4. ASSUME NEW v \in Ways(k, p)  PROVE  Prefers(w, v)
    <2>1. /\ v.colon \in 0..1 /\ v.blanks \in Nat /\ v.to \in Nat /\ v.to <= Len(text)
          /\ p + v.colon + v.blanks + 1 <= v.to
          /\ v.colon = 1 => text[p + 1] = Colon
          /\ \A q \in (p + v.colon + v.blanks + 1)..v.to : text[q] # Newline
      BY WayFacts
    <2>2. v.to <= to
      <3> SUFFICES ASSUME v.to > to  PROVE  FALSE
        BY <2>1
      <3>1. v.to \in (to + 1)..Len(text) /\ v.to \in (p + v.colon + v.blanks + 1)..v.to
        BY <2>1
      <3>2. QED  BY <2>1, <3>1
    <2>3. v.colon <= colon
      BY <1>1, <2>1, <2>2
    <2>4. v.colon = colon => v.blanks <= blanks
      BY <1>1, <2>1, <2>2
    <2>5. QED  BY <1>1, <1>2, <2>1, <2>2, <2>3, <2>4 DEF Prefers
  <1>5. QED  BY <1>2, <1>3, <1>4 DEF Matches

-----------------------------------------------------------------------------
(* What was found.  The matches found so far are the right ones, none has  *)
(* been passed over, and the tokens since the keyword of the match under   *)
(* way are a way that its expression matches.                              *)

\* The last token of what is found.
Reached(k) == EndOf(found[k], Len(found[k]))

\* The search for k is yet to begin, or over.
Before(k) == field \in {"json", "confidence"} \/ (field = "suggestion" /\ k = "metric")
Over(k) == ~json /\ (field = "done" \/ (field = "metric" /\ k = "suggestion"))

\* Where the next match begins at the earliest.
Place == IF mode = "seek" THEN at ELSE from

FoundInv ==
    \A k \in {"suggestion", "metric"} :
        /\ RightMatches(k, found[k])
        /\ Before(k) => found[k] = <<>>
        /\ Over(k) => Starts(k, Reached(k)) = {}
        /\ field = k => Reached(k) < Place /\ \A p \in Starts(k, Reached(k)) : p >= Place

ValueInv ==
    /\ mode = "blank" /\ last # 0 => text[last] # Newline
    /\ mode = "line" =>
          \E colon \in 0..1, blanks \in 0..Len(text) :
              /\ from + colon + blanks + 1 <= last
              /\ colon = 1 <=> text[from + 1] = Colon
              /\ \A q \in (from + colon + 1)..(from + colon + blanks) : text[q] \in Blanks
              /\ text[from + colon + blanks + 1] \notin Blanks
              /\ \A q \in (from + colon + blanks + 1)..last : text[q] # Newline

SearchInv == NumberInv /\ FoundInv /\ ValueInv

\* The matches are a sequence for each list.
LEMMA FoundFacts ==
  ASSUME TypeOK, NEW k \in {"suggestion", "metric"}
  PROVE  /\ found[k] \in Seq(MatchType) /\ Len(found[k]) \in Nat
         /\ DOMAIN found[k] = 1..Len(found[k])
         /\ \A i \in DOMAIN found[k] : found[k][i].to \in Nat /\ found[k][i].from \in Nat
         /\ DOMAIN found = {"suggestion", "metric"}
         /\ Reached(k) \in Nat
  <1>1. found \in [{"suggestion", "metric"} -> Seq(MatchType)]
    BY DEF TypeOK, MatchType
  <1>2. \A m \in MatchType : m.to \in Nat /\ m.from \in Nat
    BY Positions DEF MatchType
  <1>3. found[k] \in Seq(MatchType)
    BY <1>1
  <1> HIDE DEF MatchType
  <1>4. Reached(k) \in Nat
    BY <1>2, <1>3 DEF Reached, EndOf
  <1>5. QED  BY <1>1, <1>2, <1>3, <1>4

\* The first token of a value: what is between it and the keyword is what the
\* expression lets stand there.
LEMMA ValueBegins ==
  ASSUME IInv, SearchInv, BeginLine
  PROVE  ValueInv'
  <1> USE DEF BeginLine, AtValue, In, More, Consume, reply
  <1>1. /\ Len(text) \in Nat /\ at \in Nat /\ from \in Nat /\ from >= 1 /\ from <= at - 1
        /\ at <= Len(text) /\ last' = at /\ mode' = "line" /\ from' = from /\ text' = text
        /\ text[at] \notin Blanks
    BY Positions DEF IInv, ModeInv
  <1>2. text[at] # Newline
    BY <1>1 DEF Blanks
  <1>3. CASE mode = "colon"
    <2>1. at = from + 1 /\ text[from + 1] # Colon
      BY <1>3, <1>1 DEF IInv, ModeInv
    <2>2. /\ from + 0 + 0 + 1 <= at
          /\ 0 = 1 <=> text[from + 1] = Colon
          /\ \A q \in (from + 0 + 1)..(from + 0 + 0) : text[q] \in Blanks
          /\ text[from + 0 + 0 + 1] \notin Blanks
          /\ \A q \in (from + 0 + 0 + 1)..at : text[q] # Newline
      BY <1>1, <1>2, <2>1
    <2>3. 0 \in 0..1 /\ 0 \in 0..Len(text)
      BY <1>1
    <2>4. QED  BY <1>1, <2>2, <2>3 DEF ValueInv
  <1>4. CASE mode = "blank"
    <2> DEFINE colon == IF text[from + 1] = Colon THEN 1 ELSE 0
               blanks == at - from - colon - 1
    <2>1. from + 1 < at /\ \A r \in (from + 1)..(at - 1) : Filler(from, r)
      BY <1>4 DEF IInv, ModeInv, SearchInv, NumberInv
    <2>2. /\ colon \in 0..1 /\ blanks \in 0..Len(text) /\ from + colon + blanks + 1 = at
          /\ colon = 1 <=> text[from + 1] = Colon
      BY <1>1, <2>1
    <2>3. ASSUME NEW q \in (from + colon + 1)..(from + colon + blanks)  PROVE  text[q] \in Blanks
      <3>1. Filler(from, q) /\ (q = from + 1 => colon = 0)
        BY <1>1, <2>1, <2>2
      <3>2. QED  BY <2>2, <3>1 DEF Filler
    <2> HIDE DEF colon, blanks
    <2>4. \A q \in (from + colon + blanks + 1)..at : text[q] # Newline
      BY <1>1, <1>2, <2>2
    <2>5. QED  BY <1>1, <2>2, <2>3, <2>4 DEF ValueInv
  <1>5. QED  BY <1>3, <1>4

\* Every step keeps what is known of the value that has begun.
LEMMA ValueStep ==
  ASSUME IInv, SearchInv, [Next]_vars
  PROVE  ValueInv'
  <1> USE DEF In, More, Consume, reply
  <1>1. CASE BeginLine
    BY <1>1, ValueBegins
  <1>2. CASE TakeLine
    <2>1. /\ Len(text) \in Nat /\ at \in Nat /\ last = at - 1 /\ last' = at
          /\ mode = "line" /\ mode' = "line" /\ from' = from /\ text' = text
          /\ text[at] # Newline /\ from \in Nat
      BY <1>2, Positions DEF TakeLine, IInv, ModeInv
    <2>2. PICK colon \in 0..1, blanks \in 0..Len(text) :
              /\ from + colon + blanks + 1 <= last
              /\ colon = 1 <=> text[from + 1] = Colon
              /\ \A q \in (from + colon + 1)..(from + colon + blanks) : text[q] \in Blanks
              /\ text[from + colon + blanks + 1] \notin Blanks
              /\ \A q \in (from + colon + blanks + 1)..last : text[q] # Newline
      BY <2>1 DEF SearchInv, ValueInv
    <2>3. from + colon + blanks + 1 <= at
      BY <2>1, <2>2
    <2>4. ASSUME NEW q \in (from + colon + blanks + 1)..at  PROVE  text[q] # Newline
      <3>1. q = at \/ q \in (from + colon + blanks + 1)..last
        BY <2>1, <2>4
      <3>2. QED  BY <2>1, <2>2, <3>1
    <2>5. QED  BY <2>1, <2>2, <2>3, <2>4 DEF ValueInv
  <1>3. CASE TakeBlank
    BY <1>3 DEF TakeBlank, SearchInv, ValueInv, IInv, ModeInv
  <1>4. CASE TakeColon
    BY <1>4 DEF TakeColon, ValueInv, Colon, Newline
  <1>5. CASE Unmarshal \/ NotJSON \/ UNCHANGED vars
    BY <1>5 DEF Unmarshal, NotJSON, vars, SearchInv, ValueInv
  <1>6. CASE Seek \/ Keyword \/ TakeNumber \/ NoNumber \/ EndLine \/ EndText
    <2>1. mode' \in {"seek", "colon"}
      BY <1>6 DEF Seek, Keyword, TakeNumber, NoNumber, EndLine, EndText, NextField
    <2>2. QED  BY <2>1 DEF ValueInv
  <1>7. QED  BY <1>1, <1>2, <1>3, <1>4, <1>5, <1>6 DEF Next

\* A place where k matches has the keyword.
LEMMA StartFacts ==
  ASSUME Len(text) \in Nat, NEW k, NEW e \in Nat, NEW p \in Starts(k, e)
  PROVE  /\ p \in Nat /\ p > e /\ p <= Len(text) /\ text[p] = k
         /\ ~ \A q \in (p + 1)..Len(text) : text[q] = Newline
  <1>1. p \in Nat /\ p > e /\ p <= Len(text) /\ Ways(k, p) # {}
    BY DEF Starts
  <1>2. text[p] = k
    BY <1>1, WayFacts
  <1>3. QED  BY <1>1, <1>2, NoWays

\* What matches is a question of the reply alone.
LEMMA SameReply ==
  ASSUME UNCHANGED text
  PROVE  /\ \A k, e : Starts(k, e)' = Starts(k, e)
         /\ \A k, s : RightMatches(k, s)' = RightMatches(k, s)
  <1>1. \A k, p : Ways(k, p)' = Ways(k, p)
    BY DEF Ways
  <1>2. \A k, p, to : Matches(k, p, to)' = Matches(k, p, to)
    BY <1>1 DEF Matches, Prefers
  <1>3. \A k, e : Starts(k, e)' = Starts(k, e)
    BY <1>1 DEF Starts
  <1>4. QED  BY <1>2, <1>3 DEF RightMatches, EndOf

\* The invariant after a step, in terms of the reply before it.
LEMMA FoundAfter ==
  ASSUME UNCHANGED text,
         \A k \in {"suggestion", "metric"} :
            LET reached == EndOf(found'[k], Len(found'[k])) IN
            /\ RightMatches(k, found'[k])
            /\ Before(k)' => found'[k] = <<>>
            /\ Over(k)' => Starts(k, reached) = {}
            /\ field' = k => reached < Place' /\ \A p \in Starts(k, reached) : p >= Place'
  PROVE  FoundInv'
  <1>1. \A k \in {"suggestion", "metric"} :
            /\ Reached(k)' = EndOf(found'[k], Len(found'[k]))
            /\ RightMatches(k, found[k])' = RightMatches(k, found'[k])
            /\ Starts(k, Reached(k))' = Starts(k, EndOf(found'[k], Len(found'[k])))
    BY SameReply DEF Reached, EndOf
  <1>2. QED  BY <1>1 DEF FoundInv

\* The steps that find nothing.
LEMMA FoundUnchanged ==
  ASSUME FoundInv, UNCHANGED <<text, found>>,
         \A k \in {"suggestion", "metric"} :
            /\ Before(k)' => Before(k)
            /\ Over(k)' => Starts(k, Reached(k)) = {}
            /\ field' = k =>
                  Reached(k) < Place' /\ \A p \in Starts(k, Reached(k)) : p >= Place'
  PROVE  FoundInv'
  <1>1. \A k \in {"suggestion", "metric"} :
            /\ EndOf(found'[k], Len(found'[k])) = Reached(k)
            /\ RightMatches(k, found'[k])
            /\ Before(k)' => found'[k] = <<>>
    BY DEF FoundInv, Reached
  <1>2. QED  BY <1>1, FoundAfter

\* The steps outside the search, and those that begin the next one.
LEMMA FoundAtStages ==
  ASSUME IInv, FoundInv, Unmarshal \/ NotJSON \/ UNCHANGED vars
  PROVE  FoundInv'
  <1> USE DEF reply
  <1>1. UNCHANGED <<text, found>>
    BY DEF Unmarshal, NotJSON, vars
  <1>2. \A k \in {"suggestion", "metric"} :
            /\ Before(k)' => Before(k)
            /\ Over(k)' => Starts(k, Reached(k)) = {}
            /\ field' = k =>
                  Reached(k) < Place' /\ \A p \in Starts(k, Reached(k)) : p >= Place'
    BY DEF Unmarshal, NotJSON, vars, Before, Over, Place, FoundInv
  <1>3. QED  BY <1>1, <1>2, FoundUnchanged

\* The steps that find nothing: no match begins at the tokens they go past.
LEMMA FoundInSearch ==
  ASSUME IInv, FoundInv,
         Seek \/ Keyword \/ TakeColon \/ TakeBlank \/ NoNumber \/ BeginLine \/ TakeLine
  PROVE  FoundInv'
  <1> USE DEF In, More, Consume, AtValue, reply
  <1>1. UNCHANGED <<json, text, field, found>> /\ field \in Keywords
    BY DEF Seek, Keyword, TakeColon, TakeBlank, NoNumber, BeginLine, TakeLine, Searching
  <1>2. TypeOK /\ at \in Nat /\ from \in Nat /\ Len(text) \in Nat
    BY Positions DEF IInv
  <1>3. ASSUME NEW k \in {"suggestion", "metric"}, field = k
        PROVE  Reached(k) < Place' /\ \A p \in Starts(k, Reached(k)) : p >= Place'
    <2>1. /\ Reached(k) \in Nat /\ Reached(k) < Place
          /\ \A p \in Starts(k, Reached(k)) : p \in Nat /\ p >= Place /\ text[p] = k
      BY <1>2, <1>3, StartFacts, FoundFacts DEF FoundInv
    <2>2. CASE Seek
      <3>1. Place = at /\ Place' = at + 1 /\ text[at] # k
        BY <1>3, <2>2 DEF Seek, Place
      <3>2. QED  BY <1>2, <2>1, <3>1
    <2>3. CASE ~Seek
      <3>1. Place' = Place
        BY <1>3, <2>3
        DEF Keyword, TakeColon, TakeBlank, NoNumber, BeginLine, TakeLine, Place
      <3>2. QED  BY <2>1, <3>1
    <2>4. QED  BY <2>2, <2>3
  <1>4. \A k \in {"suggestion", "metric"} :
            /\ Before(k)' => Before(k)
            /\ Over(k)' => Starts(k, Reached(k)) = {}
            /\ field' = k =>
                  Reached(k) < Place' /\ \A p \in Starts(k, Reached(k)) : p >= Place'
    BY <1>1, <1>3 DEF Before, Over, FoundInv
  <1>5. QED  BY <1>1, <1>4, FoundUnchanged

\* A match that begins at the leftmost place keeps the list right.
LEMMA RightAppended ==
  ASSUME NEW k, NEW s \in Seq(MatchType), RightMatches(k, s),
         NEW m \in MatchType, Matches(k, m.from, m.to),
         Len(text) \in Nat, EndOf(s, Len(s)) < m.from,
         \A p \in Starts(k, EndOf(s, Len(s))) : p >= m.from
  PROVE  LET t == Append(s, m) IN
         RightMatches(k, t) /\ EndOf(t, Len(t)) = m.to
  <1> DEFINE t == Append(s, m)
             n == Len(s)
  <1>1. /\ n \in Nat /\ DOMAIN s = 1..n /\ DOMAIN t = 1..(n + 1) /\ Len(t) = n + 1
        /\ t[n + 1] = m /\ \A i \in 1..n : t[i] = s[i] /\ s[i] \in MatchType
    OBVIOUS
  <1>2. \A x \in MatchType : x.from \in Nat /\ x.to \in Nat /\ x.from <= Len(text)
    BY DEF MatchType
  <1> HIDE DEF t, n, MatchType
  <1>3. \A i \in 0..n : EndOf(t, i) = EndOf(s, i) /\ EndOf(s, i) \in Nat
    BY <1>1, <1>2 DEF EndOf
  <1>4. m.from \in Starts(k, EndOf(s, n))
    <2>1. Ways(k, m.from) # {}
      BY DEF Matches
    <2>2. EndOf(s, n) \in Nat /\ EndOf(s, n) < m.from /\ m.from \in Nat /\ m.from <= Len(text)
      BY <1>1, <1>2, <1>3 DEF n
    <2>3. m.from \in (EndOf(s, n) + 1)..Len(text)
      BY <2>2
    <2>4. QED  BY <2>1, <2>3 DEF Starts
  <1>5. \A q \in Starts(k, EndOf(s, n)) : m.from <= q
    <2>1. EndOf(s, n) \in Nat /\ m.from \in Nat
      BY <1>1, <1>2, <1>3
    <2>2. \A q \in Starts(k, EndOf(s, n)) : q \in Nat
      BY <2>1, StartFacts
    <2>3. QED  BY <2>1, <2>2 DEF n
  <1>6. ASSUME NEW i \in 1..(n + 1)
        PROVE  /\ t[i].from \in Starts(k, EndOf(t, i - 1))
               /\ \A q \in Starts(k, EndOf(t, i - 1)) : t[i].from <= q
               /\ Matches(k, t[i].from, t[i].to)
    <2>1. i - 1 \in 0..n /\ EndOf(t, i - 1) = EndOf(s, i - 1)
      BY <1>1, <1>3
    <2>2. CASE i = n + 1
      <3>1. i - 1 = n /\ t[i] = m
        BY <1>1, <2>2
      <3>2. QED  BY <1>4, <1>5, <2>1, <3>1
    <2>3. CASE i \in 1..n
      BY <1>1, <2>1, <2>3 DEF RightMatches
    <2>4. QED  BY <1>1, <2>2, <2>3
  <1>7. RightMatches(k, t)
    BY <1>1, <1>6 DEF RightMatches
  <1>8. EndOf(t, Len(t)) = m.to
    BY <1>1 DEF EndOf
  <1>9. QED  BY <1>7, <1>8 DEF t

\* A match is added to its list.
LEMMA MatchFound ==
  ASSUME IInv, FoundInv, field \in {"suggestion", "metric"}, mode # "seek",
         NEW to \in 2..Len(text), Matches(field, from, to), Match(to)
  PROVE  \A k \in {"suggestion", "metric"} :
            /\ RightMatches(k, found'[k])
            /\ k # field => found'[k] = found[k]
            /\ k = field => EndOf(found'[k], Len(found'[k])) = to
  <1> DEFINE m == [from |-> from, to |-> to]
  <1>1. Len(text) \in Nat /\ from \in Nat /\ from >= 1 /\ from <= Len(text)
    BY Positions DEF IInv, ModeInv
  <1>2. m \in MatchType /\ m.from = from /\ m.to = to
    BY <1>1 DEF MatchType
  <1>3. /\ found \in [{"suggestion", "metric"} -> Seq(MatchType)]
        /\ found' = [found EXCEPT ![field] = Append(found[field], m)]
    BY DEF IInv, TypeOK, MatchType, Match
  <1> HIDE DEF m, MatchType
  <1>4. found[field] \in Seq(MatchType) /\ found'[field] = Append(found[field], m)
    BY <1>3
  <1>5. \A k \in {"suggestion", "metric"} : k # field => found'[k] = found[k]
    BY <1>3
  <1>6. /\ RightMatches(field, found[field])
        /\ EndOf(found[field], Len(found[field])) < m.from
        /\ \A p \in Starts(field, EndOf(found[field], Len(found[field]))) : p >= m.from
    BY <1>2 DEF FoundInv, Reached, Place
  <1>7. /\ RightMatches(field, found'[field])
        /\ EndOf(found'[field], Len(found'[field])) = m.to
    BY <1>1, <1>2, <1>4, <1>6, RightAppended
  <1>8. QED  BY <1>2, <1>5, <1>7 DEF FoundInv

\* A match that ends with its line.
LEMMA FoundAtLineEnd ==
  ASSUME IInv, FoundInv, ValueInv, EndLine
  PROVE  FoundInv'
  <1> USE DEF EndLine, In, More, reply
  <1>1. /\ Len(text) \in Nat /\ at \in Nat /\ from \in Nat /\ from >= 1 /\ from < last
        /\ last = at - 1 /\ last # 0 /\ last + 1 = at /\ at <= Len(text)
        /\ text[from] = field /\ text[at] = Newline
        /\ field \in {"suggestion", "metric"} /\ mode = "line"
    BY Positions DEF IInv, ModeInv, Searching, Keywords
  <1>2. PICK colon \in 0..1, blanks \in 0..Len(text) :
            /\ from + colon + blanks + 1 <= last
            /\ colon = 1 <=> text[from + 1] = Colon
            /\ \A q \in (from + colon + 1)..(from + colon + blanks) : text[q] \in Blanks
            /\ text[from + colon + blanks + 1] \notin Blanks
            /\ \A q \in (from + colon + blanks + 1)..last : text[q] # Newline
    BY <1>1 DEF ValueInv
  <1>3. Matches(field, from, last)
    <2>1. last \in Nat /\ last <= Len(text) /\ text[last + 1] = Newline
      BY <1>1
    <2>2. QED  BY <1>1, <1>2, <2>1, LineMatches
  <1>4. last \in 2..Len(text) /\ Match(last)
    BY <1>1
  <1>5. \A k \in {"suggestion", "metric"} :
            /\ RightMatches(k, found'[k])
            /\ k # field => found'[k] = found[k]
            /\ k = field => EndOf(found'[k], Len(found'[k])) = last
    BY <1>1, <1>3, <1>4, MatchFound
  <1>6. UNCHANGED <<json, text, field>> /\ Place' = at
    BY DEF Place
  <1>7. ASSUME NEW k \in {"suggestion", "metric"}, k = field
        PROVE  LET reached == EndOf(found'[k], Len(found'[k])) IN
               reached < Place' /\ \A p \in Starts(k, reached) : p >= Place'
    <2>1. EndOf(found'[k], Len(found'[k])) = last
      BY <1>5, <1>7
    <2>2. \A p \in Starts(k, last) : p >= at
      BY <1>1, StartFacts
    <2>3. QED  BY <1>1, <1>6, <2>1, <2>2
  <1>8. ASSUME NEW k \in {"suggestion", "metric"}
        PROVE  LET reached == EndOf(found'[k], Len(found'[k])) IN
               /\ Before(k)' => found'[k] = <<>>
               /\ Over(k)' => Starts(k, reached) = {}
    <2>1. CASE k = field
      BY <1>1, <1>6, <2>1 DEF Before, Over
    <2>2. CASE k # field
      BY <1>5, <1>6, <2>2 DEF Before, Over, FoundInv, Reached
    <2>3. QED  BY <2>1, <2>2
  <1>9. QED  BY <1>5, <1>6, <1>7, <1>8, FoundAfter

\* The search for the confidence finds nothing for the lists.
LEMMA FoundAtNumber ==
  ASSUME IInv, FoundInv, TakeNumber \/ (EndText /\ field = "confidence")
  PROVE  FoundInv'
  <1>1. /\ field = "confidence" /\ field' = "suggestion" /\ mode' = "seek" /\ at' = 1
        /\ UNCHANGED <<json, text, found>>
    BY DEF TakeNumber, EndText, NextField, After, reply
  <1>2. ASSUME NEW k \in {"suggestion", "metric"}
        PROVE  /\ Before(k)' => Before(k)
               /\ Over(k)' => Starts(k, Reached(k)) = {}
               /\ field' = k =>
                     Reached(k) < Place' /\ \A p \in Starts(k, Reached(k)) : p >= Place'
    <2>1. Before(k) /\ ~Over(k)' /\ Place' = 1
      BY <1>1 DEF Before, Over, Place
    <2>2. found[k] = <<>> /\ Reached(k) = 0
      BY <2>1 DEF FoundInv, Reached, EndOf
    <2>3. \A p \in Starts(k, 0) : p >= 1
      BY Positions, StartFacts DEF IInv
    <2>4. QED  BY <2>1, <2>2, <2>3
  <1>3. QED  BY <1>1, <1>2, FoundUnchanged

\* The end of the reply: a match that it ends is the preferred one, the search
\* giving back what it took, and nothing is left that could match.
LEMMA MatchAtEnd ==
  ASSUME IInv, FoundInv, ValueInv, EndText, field \in {"suggestion", "metric"}, last # 0
  PROVE  /\ mode # "seek" /\ last \in 2..Len(text)
         /\ Matches(field, from, last)
         /\ Starts(field, last) = {}
  <1> USE DEF EndText, More
  <1>1. /\ Len(text) \in Nat /\ at = Len(text) + 1 /\ from \in Nat /\ last \in Nat
        /\ last <= Len(text) /\ from >= 1 /\ text[from] = field
        /\ mode \in {"line", "blank"}
    <2>1. Len(text) \in Nat /\ at = Len(text) + 1 /\ from \in Nat
      BY Positions DEF IInv
    <2>2. last \in Nat /\ last <= Len(text)
      BY <2>1 DEF IInv, TypeOK
    <2>3. mode \in {"line", "blank"}
      BY DEF IInv, TypeOK, ModeInv
    <2>4. QED  BY <2>1, <2>2, <2>3 DEF IInv, ModeInv
  <1>2. CASE mode = "line"
    <2>1. last = Len(text) /\ from < last
      BY <1>1, <1>2 DEF IInv, ModeInv
    <2>2. PICK colon \in 0..1, blanks \in 0..Len(text) :
              /\ from + colon + blanks + 1 <= last
              /\ colon = 1 <=> text[from + 1] = Colon
              /\ \A q \in (from + colon + 1)..(from + colon + blanks) : text[q] \in Blanks
              /\ text[from + colon + blanks + 1] \notin Blanks
              /\ \A q \in (from + colon + blanks + 1)..last : text[q] # Newline
      BY <1>2 DEF ValueInv
    <2>3. Matches(field, from, last)
      BY <1>1, <2>1, <2>2, LineMatches
    <2>4. Starts(field, last) = {}
      BY <1>1, <2>1, StartFacts
    <2>5. QED  BY <1>1, <2>1, <2>3, <2>4
  <1>3. CASE mode = "blank"
    <2>1. /\ from < last /\ text[last] # Newline
          /\ \A r \in (from + 1)..Len(text) : Filler(from, r)
          /\ \A r \in (last + 1)..Len(text) : text[r] = Newline
      BY <1>1, <1>3 DEF IInv, ModeInv, ValueInv
    <2>2. Matches(field, from, last)
      BY <1>1, <2>1, TailMatches
    <2>3. Starts(field, last) = {}
      <3> SUFFICES ASSUME NEW p \in Starts(field, last)  PROVE  FALSE
        OBVIOUS
      <3>1. p \in Nat /\ p > last /\ ~ \A q \in (p + 1)..Len(text) : text[q] = Newline
        BY <1>1, StartFacts
      <3>2. QED  BY <1>1, <2>1, <3>1
    <2>4. QED  BY <1>1, <2>1, <2>2, <2>3
  <1>4. QED  BY <1>1, <1>2, <1>3

\* The end of the reply with nothing to give back.
LEMMA NothingAtEnd ==
  ASSUME IInv, FoundInv, EndText, field \in {"suggestion", "metric"}, last = 0
  PROVE  Starts(field, Reached(field)) = {}
  <1> USE DEF EndText, More
  <1>1. Len(text) \in Nat /\ at = Len(text) + 1 /\ from \in Nat /\ Reached(field) \in Nat
    BY Positions, FoundFacts DEF IInv
  <1> SUFFICES ASSUME NEW p \in Starts(field, Reached(field))  PROVE  FALSE
    OBVIOUS
  <1>2. /\ p \in Nat /\ p <= Len(text) /\ p >= Place
        /\ ~ \A q \in (p + 1)..Len(text) : text[q] = Newline
    BY <1>1, StartFacts DEF FoundInv
  <1>3. CASE mode = "seek"
    BY <1>1, <1>2, <1>3 DEF Place
  <1>4. CASE mode = "colon"
    <2>1. from = Len(text) /\ p >= from
      BY <1>1, <1>2, <1>4 DEF IInv, ModeInv, Place
    <2>2. QED  BY <1>1, <1>2, <2>1
  <1>5. CASE mode = "blank"
    <2>1. p >= from /\ \A r \in (from + 1)..Len(text) : text[r] = Newline
      BY <1>1, <1>2, <1>5 DEF IInv, ModeInv, Place
    <2>2. QED  BY <1>1, <1>2, <2>1
  <1>6. mode # "line"
    BY <1>1 DEF IInv, ModeInv
  <1>7. QED  BY <1>3, <1>4, <1>5, <1>6 DEF IInv, TypeOK

\* The search for a list is over, and the next one has found nothing yet.
LEMMA FoundAtEnd ==
  ASSUME IInv, FoundInv, ValueInv, EndText, field \in {"suggestion", "metric"}
  PROVE  FoundInv'
  <1>1. /\ field = "suggestion" => field' = "metric"
        /\ field = "metric" => field' = "done"
        /\ mode' = "seek" /\ at' = 1 /\ UNCHANGED <<json, text>>
        /\ IF last # 0 THEN Match(last) ELSE UNCHANGED found
    BY DEF EndText, NextField, After, reply
  <1>2. \A k \in {"suggestion", "metric"} :
            /\ RightMatches(k, found'[k])
            /\ k # field => found'[k] = found[k]
            /\ k = field => Starts(k, EndOf(found'[k], Len(found'[k]))) = {}
    <2>1. CASE last # 0
      <3>1. /\ mode # "seek" /\ last \in 2..Len(text) /\ Match(last)
            /\ Matches(field, from, last) /\ Starts(field, last) = {}
        BY <1>1, <2>1, MatchAtEnd
      <3>2. \A k \in {"suggestion", "metric"} :
                /\ RightMatches(k, found'[k])
                /\ k # field => found'[k] = found[k]
                /\ k = field => EndOf(found'[k], Len(found'[k])) = last
        BY <3>1, MatchFound
      <3>3. QED  BY <3>1, <3>2
    <2>2. CASE last = 0
      <3>1. found' = found /\ Starts(field, Reached(field)) = {}
        BY <1>1, <2>2, NothingAtEnd
      <3>2. QED  BY <3>1 DEF FoundInv, Reached
    <2>3. QED  BY <2>1, <2>2
  <1>3. ASSUME NEW k \in {"suggestion", "metric"}
        PROVE  LET reached == EndOf(found'[k], Len(found'[k])) IN
               /\ Before(k)' => found'[k] = <<>>
               /\ Over(k)' => Starts(k, reached) = {}
               /\ field' = k => reached < Place' /\ \A p \in Starts(k, reached) : p >= Place'
    <2>1. CASE k = field
      BY <1>1, <1>2, <2>1 DEF Before, Over
    <2>2. CASE k # field /\ field = "metric"
      BY <1>1, <1>2, <2>2 DEF Before, Over, FoundInv, Reached
    <2>3. CASE k # field /\ field = "suggestion"
      <3>1. k = "metric" /\ Before(k) /\ ~Before(k)' /\ ~Over(k)' /\ Place' = 1
        BY <1>1, <2>3 DEF Before, Over, Place
      <3>2. found'[k] = <<>> /\ EndOf(found'[k], Len(found'[k])) = 0
        BY <1>2, <2>3, <3>1 DEF FoundInv, EndOf
      <3>3. \A p \in Starts(k, 0) : p >= 1
        BY Positions, StartFacts DEF IInv
      <3>4. QED  BY <3>1, <3>2, <3>3
    <2>4. QED  BY <2>1, <2>2, <2>3
  <1>4. QED  BY <1>1, <1>2, <1>3, FoundAfter

\* Nothing is found at first.
LEMMA InitFound == Init => FoundInv /\ ValueInv
  <1> SUFFICES ASSUME Init  PROVE  FoundInv /\ ValueInv
    OBVIOUS
  <1>1. ValueInv
    BY DEF Init, ValueInv
  <1>2. ASSUME NEW k \in {"suggestion", "metric"}
        PROVE  found[k] = <<>> /\ RightMatches(k, found[k]) /\ ~Over(k) /\ field # k
    BY DEF Init, RightMatches, Over
  <1>3. QED  BY <1>1, <1>2 DEF FoundInv

\* Every step keeps what was found right.
LEMMA NextFound == IInv /\ SearchInv /\ [Next]_vars => FoundInv' /\ ValueInv'
  <1> SUFFICES ASSUME IInv, SearchInv, [Next]_vars  PROVE  FoundInv' /\ ValueInv'
    OBVIOUS
  <1>1. EndText => field = "confidence" \/ field \in {"suggestion", "metric"}
    BY DEF EndText, Searching, Keywords
  <1>2. FoundInv /\ ValueInv
    BY DEF SearchInv
  <1>3. FoundInv'
    BY <1>1, <1>2, FoundAtStages, FoundInSearch, FoundAtLineEnd, FoundAtNumber, FoundAtEnd
    DEF Next
  <1>4. QED  BY <1>3, ValueStep

-----------------------------------------------------------------------------
(* Lines.  If every mention has its value on its line, the matches are the *)
(* rests of the lines from their first mention on.                         *)

AllPlain(k) == \A p \in DOMAIN text : text[p] = k => Plain(k, p)

\* A token that is no newline is on a line, which has an end.
LEMMA LineEndFacts ==
  ASSUME Len(text) \in Nat, NEW p \in 1..Len(text), text[p] # Newline
  PROVE  /\ LineEnd(p) \in Nat /\ p <= LineEnd(p) /\ LineEnd(p) <= Len(text)
         /\ \A q \in p..LineEnd(p) : text[q] # Newline
         /\ LineEnd(p) = Len(text) \/ text[LineEnd(p) + 1] = Newline
  <1> DEFINE E == {e \in p..Len(text) : e = Len(text) \/ text[e + 1] = Newline}
  <1>1. E \in SUBSET Nat /\ E # {}
    OBVIOUS
  <1>2. PICK e \in E : \A d \in E : e <= d
    BY <1>1, LeastNumber
  <1>3. \A q \in p..e : text[q] # Newline
    <2> SUFFICES ASSUME NEW q \in p..e, text[q] = Newline  PROVE  FALSE
      OBVIOUS
    <2>1. /\ q # p /\ q - 1 \in p..Len(text) /\ (q - 1) + 1 = q
          /\ ~(e <= q - 1)
      BY <1>2
    <2>2. q - 1 \in E
      BY <2>1
    <2> HIDE DEF E
    <2>3. QED  BY <1>2, <2>1, <2>2
  <1>4. \E x \in p..Len(text) :
           /\ \A q \in p..x : text[q] # Newline
           /\ x = Len(text) \/ text[x + 1] = Newline
    BY <1>2, <1>3
  <1>5. /\ LineEnd(p) \in p..Len(text)
        /\ \A q \in p..LineEnd(p) : text[q] # Newline
        /\ LineEnd(p) = Len(text) \/ text[LineEnd(p) + 1] = Newline
    BY <1>4 DEF LineEnd
  <1>6. QED  BY <1>5

\* An expression matches in one way from a place on.
LEMMA OneMatch ==
  ASSUME Len(text) \in Nat, NEW k, NEW p \in Nat, NEW a, NEW b,
         Matches(k, p, a), Matches(k, p, b)
  PROVE  a = b
  <1>1. PICK v \in Ways(k, p) : v.to = a /\ \A w \in Ways(k, p) : Prefers(v, w)
    BY DEF Matches
  <1>2. PICK w \in Ways(k, p) : w.to = b /\ \A u \in Ways(k, p) : Prefers(w, u)
    BY DEF Matches
  <1>3. Prefers(v, w) /\ Prefers(w, v)
    BY <1>1, <1>2
  <1>4. /\ v.colon \in 0..1 /\ v.blanks \in Nat /\ v.to \in Nat
        /\ w.colon \in 0..1 /\ w.blanks \in Nat /\ w.to \in Nat
    BY WayFacts
  <1>5. QED  BY <1>1, <1>2, <1>3, <1>4 DEF Prefers

\* A mention with its value on its line is matched to the end of the line.
LEMMA PlainMatches ==
  ASSUME TypeOK, NEW k \in {"suggestion", "metric"}, NEW p \in 1..Len(text),
         text[p] = k, Plain(k, p)
  PROVE  Matches(k, p, LineEnd(p))
  <1> DEFINE colon == IF text[p + 1] = Colon THEN 1 ELSE 0
             end == LineEnd(p)
             V == {v \in (p + colon + 1)..end : text[v] \notin Blanks}
  <1>1. Len(text) \in Nat /\ p \in Nat
    BY Positions
  <1>2. /\ end \in Nat /\ p <= end /\ end <= Len(text)
        /\ \A q \in p..end : text[q] # Newline
        /\ end = Len(text) \/ text[end + 1] = Newline
    BY <1>1, LineEndFacts DEF Newline
  <1>3. colon \in 0..1 /\ (colon = 1 <=> text[p + 1] = Colon)
    OBVIOUS
  <1>4. PICK q \in (p + 1)..end : text[q] \notin Blanks \cup {Colon}
    BY DEF Plain
  <1> HIDE DEF end, colon
  <1>5. q \in V
    BY <1>1, <1>2, <1>3, <1>4
  <1>6. PICK v \in V : \A u \in V : v <= u
    <2>1. V \in SUBSET Nat
      BY <1>1, <1>3
    <2>2. QED  BY <1>5, <2>1, LeastNumber
  <1>7. /\ v \in Nat /\ p + colon + 1 <= v /\ v <= end /\ text[v] \notin Blanks
    BY <1>1, <1>3, <1>6
  <1>8. \A u \in (p + colon + 1)..(v - 1) : text[u] \in Blanks
    <2> SUFFICES ASSUME NEW u \in (p + colon + 1)..(v - 1), text[u] \notin Blanks
                 PROVE  FALSE
      OBVIOUS
    <2>1. u \in (p + colon + 1)..end /\ ~(v <= u)
      BY <1>1, <1>2, <1>3, <1>7
    <2>2. QED  BY <1>6, <2>1
  <1> DEFINE blanks == v - p - colon - 1
  <1>9. /\ blanks \in 0..Len(text) /\ p + colon + blanks + 1 = v
        /\ p + colon + blanks = v - 1
    BY <1>1, <1>2, <1>3, <1>7
  <1> HIDE DEF blanks, V
  <1>10. \A u \in (p + colon + blanks + 1)..end : text[u] # Newline
    BY <1>1, <1>2, <1>3, <1>7, <1>9
  <1>11. \A u \in (p + colon + 1)..(p + colon + blanks) : text[u] \in Blanks
    BY <1>8, <1>9
  <1>12. p + colon + blanks + 1 <= end /\ text[p + colon + blanks + 1] \notin Blanks
    BY <1>7, <1>9
  <1>13. Matches(k, p, end)
    BY <1>1, <1>2, <1>3, <1>9, <1>10, <1>11, <1>12, LineMatches
  <1>14. QED  BY <1>13 DEF end

\* What the matches of plain mentions are, one after the other.
LEMMA PlainList ==
  ASSUME TypeOK, NEW k \in {"suggestion", "metric"}, AllPlain(k),
         RightMatches(k, found[k])
  PROVE  \A i \in 1..Len(found[k]) :
            LET p == found[k][i].from
                before == EndOf(found[k], i - 1)
            IN  /\ p \in Nat /\ before \in Nat /\ before < p /\ p <= Len(text)
                /\ text[p] = k /\ found[k][i] = [from |-> p, to |-> LineEnd(p)]
                /\ \A q \in (before + 1)..Len(text) : text[q] = k => p <= q
  <1> SUFFICES ASSUME NEW i \in 1..Len(found[k])
               PROVE  LET p == found[k][i].from
                          before == EndOf(found[k], i - 1)
                      IN  /\ p \in Nat /\ before \in Nat /\ before < p /\ p <= Len(text)
                          /\ text[p] = k /\ found[k][i] = [from |-> p, to |-> LineEnd(p)]
                          /\ \A q \in (before + 1)..Len(text) : text[q] = k => p <= q
    OBVIOUS
  <1> DEFINE p == found[k][i].from
             before == EndOf(found[k], i - 1)
  <1>1. Len(text) \in Nat /\ DOMAIN text = 1..Len(text)
    BY Positions
  <1>2. /\ Len(found[k]) \in Nat /\ DOMAIN found[k] = 1..Len(found[k])
        /\ \A j \in DOMAIN found[k] : found[k][j].to \in Nat
    BY FoundFacts
  <1>3. found[k][i] \in [from: 1..Len(text), to: 2..Len(text)]
    <2>1. found[k] \in Seq(MatchType)
      BY FoundFacts
    <2> HIDE DEF p, before
    <2>2. found[k][i] \in MatchType
      BY <2>1
    <2>3. QED  BY <2>2 DEF MatchType
  <1>4. found[k][i] = [from |-> found[k][i].from, to |-> found[k][i].to]
    BY <1>3
  <1>5. before \in Nat
    <2>1. i - 1 = 0 \/ i - 1 \in DOMAIN found[k]
      BY <1>2
    <2>2. QED  BY <1>2, <2>1 DEF EndOf
  <1>6. /\ p \in Starts(k, before) /\ \A q \in Starts(k, before) : p <= q
        /\ Matches(k, p, found[k][i].to)
    BY <1>2 DEF RightMatches
  <1> HIDE DEF p, before
  <1>7. p \in Nat /\ before < p /\ p <= Len(text) /\ text[p] = k
    BY <1>1, <1>5, <1>6, StartFacts
  <1>8. \A q \in 1..Len(text) : text[q] = k => Matches(k, q, LineEnd(q))
    BY <1>1, PlainMatches DEF AllPlain
  <1>9. found[k][i].to = LineEnd(p)
    <2>1. p \in 1..Len(text)
      BY <1>1, <1>5, <1>7
    <2>2. QED  BY <1>1, <1>6, <1>7, <1>8, <2>1, OneMatch
  <1>10. ASSUME NEW q \in (before + 1)..Len(text), text[q] = k  PROVE  p <= q
    <2>1. q \in 1..Len(text)
      BY <1>5
    <2>2. Ways(k, q) # {}
      BY <1>8, <1>10, <2>1 DEF Matches
    <2>3. q \in Starts(k, before)
      BY <1>10, <2>2 DEF Starts
    <2>4. QED  BY <1>6, <2>3
  <1>11. QED  BY <1>4, <1>5, <1>7, <1>9, <1>10 DEF p, before

\* A match of the list begins at the first mention of its line.
LEMMA ListedIsFirst ==
  ASSUME TypeOK, NEW k \in {"suggestion", "metric"}, AllPlain(k),
         RightMatches(k, found[k]), NEW i \in 1..Len(found[k])
  PROVE  FirstOnLine(k, found[k][i].from)
  <1> DEFINE p == found[k][i].from
             before == EndOf(found[k], i - 1)
  <1>1. Len(text) \in Nat
    BY Positions
  <1>2. /\ p \in Nat /\ before \in Nat /\ before < p /\ p <= Len(text) /\ text[p] = k
        /\ \A q \in (before + 1)..Len(text) : text[q] = k => p <= q
    BY PlainList
  <1>3. i # 1 => i - 1 \in 1..Len(found[k])
    BY FoundFacts
  <1>4. i # 1 => before = LineEnd(found[k][i - 1].from)
    <2> SUFFICES ASSUME i # 1  PROVE  before = LineEnd(found[k][i - 1].from)
      OBVIOUS
    <2>1. found[k][i - 1] = [from |-> found[k][i - 1].from,
                              to |-> LineEnd(found[k][i - 1].from)]
      BY <1>3, PlainList
    <2>2. before = found[k][i - 1].to
      BY <1>3 DEF EndOf
    <2>3. QED  BY <2>1, <2>2
  <1>5. i # 1 => text[before + 1] = Newline
    <2> SUFFICES ASSUME i # 1  PROVE  text[before + 1] = Newline
      OBVIOUS
    <2> DEFINE b == found[k][i - 1].from
    <2>1. b \in Nat /\ b >= 1 /\ b <= Len(text) /\ text[b] = k
      <3>1. /\ b \in Nat /\ b <= Len(text) /\ text[b] = k
            /\ EndOf(found[k], (i - 1) - 1) \in Nat /\ EndOf(found[k], (i - 1) - 1) < b
        BY <1>3, PlainList
      <3>2. QED  BY <3>1
    <2> HIDE DEF b
    <2>2. b \in 1..Len(text) /\ text[b] # Newline
      BY <1>1, <2>1 DEF Newline
    <2>3. LineEnd(b) = Len(text) \/ text[LineEnd(b) + 1] = Newline
      BY <1>1, <2>2, LineEndFacts
    <2>4. before = LineEnd(b) /\ before # Len(text)
      BY <1>1, <1>2, <1>4 DEF b
    <2>5. QED  BY <2>3, <2>4
  <1>6. i = 1 => before = 0
    BY DEF EndOf
  <1> HIDE DEF p, before
  <1>7. ASSUME NEW q \in 1..(p - 1), text[q] = k  PROVE  \E r \in q..p : text[r] = Newline
    <2>1. q <= before
      BY <1>1, <1>2, <1>7
    <2>2. i # 1 /\ before + 1 \in q..p
      BY <1>2, <1>6, <1>7, <2>1
    <2>3. QED  BY <1>5, <2>2
  <1>8. FirstOnLine(k, p)
    BY <1>2, <1>7 DEF FirstOnLine
  <1>9. QED  BY <1>8 DEF p

\* The first mention of a line is in the list.
LEMMA FirstIsListed ==
  ASSUME TypeOK, NEW k \in {"suggestion", "metric"}, AllPlain(k),
         RightMatches(k, found[k]), Starts(k, Reached(k)) = {},
         NEW p \in 1..Len(text), FirstOnLine(k, p)
  PROVE  \E i \in 1..Len(found[k]) : found[k][i].from = p
  <1> DEFINE T == {i \in 0..Len(found[k]) : p <= EndOf(found[k], i)}
  <1>1. /\ Len(text) \in Nat /\ DOMAIN text = 1..Len(text) /\ p \in Nat /\ p >= 1
        /\ p <= Len(text) /\ text[p] = k
    BY Positions DEF FirstOnLine
  <1>2. Len(found[k]) \in Nat /\ Reached(k) \in Nat
    BY FoundFacts
  <1>3. p <= Reached(k)
    <2> SUFFICES ASSUME p > Reached(k)  PROVE  FALSE
      BY <1>1, <1>2
    <2>1. Matches(k, p, LineEnd(p))
      BY <1>1, PlainMatches DEF AllPlain
    <2>2. p \in (Reached(k) + 1)..Len(text)
      BY <1>1, <1>2
    <2>3. p \in Starts(k, Reached(k))
      BY <2>1, <2>2 DEF Starts, Matches
    <2>4. QED  BY <2>3
  <1>4. Len(found[k]) \in T
    BY <1>2, <1>3 DEF Reached
  <1>5. T \in SUBSET Nat
    OBVIOUS
  <1>6. PICK i \in T : \A j \in T : i <= j
    BY <1>4, <1>5, LeastNumber
  <1>7. i # 0
    BY <1>1, <1>6 DEF EndOf
  <1>8. i \in 1..Len(found[k]) /\ p <= found[k][i].to
    BY <1>2, <1>6, <1>7 DEF EndOf
  <1> DEFINE b == found[k][i].from
             before == EndOf(found[k], i - 1)
  <1>9. /\ b \in Nat /\ before \in Nat /\ before < b /\ b <= Len(text) /\ text[b] = k
        /\ found[k][i] = [from |-> b, to |-> LineEnd(b)]
        /\ \A q \in (before + 1)..Len(text) : text[q] = k => b <= q
    BY <1>8, PlainList
  <1>10. ~(p <= before)
    <2> SUFFICES ASSUME p <= before  PROVE  FALSE
      OBVIOUS
    <2>1. i - 1 \in 0..Len(found[k]) /\ ~(i <= i - 1)
      BY <1>8
    <2>2. i - 1 \in T
      BY <2>1
    <2> HIDE DEF T
    <2>3. QED  BY <1>6, <2>1, <2>2
  <1>11. found[k][i].to = LineEnd(b)
    BY <1>9
  <1> HIDE DEF b, before, T
  <1>12. b <= p /\ p <= LineEnd(b)
    BY <1>1, <1>8, <1>9, <1>10, <1>11
  <1>13. b = p
    <2> SUFFICES ASSUME b < p  PROVE  FALSE
      BY <1>1, <1>9, <1>12
    <2>1. b \in 1..(p - 1)
      BY <1>1, <1>9, <1>12
    <2>2. PICK r \in b..p : text[r] = Newline
      BY <1>9, <2>1 DEF FirstOnLine
    <2>3. b \in 1..Len(text) /\ text[b] # Newline
      BY <1>1, <1>9 DEF Newline
    <2>4. LineEnd(b) \in Nat /\ \A q \in b..LineEnd(b) : text[q] # Newline
      BY <1>1, <2>3, LineEndFacts
    <2>5. r \in b..LineEnd(b)
      BY <1>1, <1>9, <1>12, <2>4
    <2>6. QED  BY <2>2, <2>4, <2>5
  <1>14. QED  BY <1>8, <1>13 DEF b

\* The keywords of the matches are in the order of the list.
LEMMA ListIsOrdered ==
  ASSUME TypeOK, NEW k \in {"suggestion", "metric"}, AllPlain(k),
         RightMatches(k, found[k])
  PROVE  \A i, j \in 1..Len(found[k]) : i < j => found[k][i].from < found[k][j].from
  <1> DEFINE from_(i) == found[k][i].from
             A == {n \in Nat : \A i, j \in 1..Len(found[k]) :
                      i < j /\ j <= n => from_(i) < from_(j)}
  <1>1. Len(found[k]) \in Nat /\ Len(text) \in Nat
    BY FoundFacts, Positions
  <1>2. ASSUME NEW j \in 1..Len(found[k]), j # 1
        PROVE  j - 1 \in 1..Len(found[k]) /\ from_(j - 1) < from_(j)
    <2>1. j - 1 \in 1..Len(found[k])
      BY <1>1, <1>2
    <2> DEFINE b == from_(j - 1)
    <2>2. b \in Nat /\ b <= Len(text) /\ text[b] = k /\ b >= 1
          /\ found[k][j - 1] = [from |-> b, to |-> LineEnd(b)]
      BY <2>1, PlainList
    <2>3. EndOf(found[k], j - 1) = LineEnd(b)
      BY <2>1, <2>2 DEF EndOf
    <2>4. from_(j) \in Nat /\ EndOf(found[k], j - 1) < from_(j)
      BY PlainList
    <2> HIDE DEF b
    <2>5. LineEnd(b) \in Nat /\ b <= LineEnd(b)
      BY <1>1, <2>2, LineEndFacts DEF Newline
    <2> HIDE DEF from_
    <2>6. b < from_(j)
      BY <2>2, <2>3, <2>4, <2>5
    <2>7. QED  BY <2>1, <2>6 DEF b
  <1>3. \A i \in 1..Len(found[k]) : from_(i) \in Nat
    BY PlainList
  <1> HIDE DEF from_
  <1>4. 0 \in A
    BY <1>1
  <1>5. ASSUME NEW n \in A  PROVE  n + 1 \in A
    <2>1. n \in Nat /\ n + 1 \in Nat
      OBVIOUS
    <2>2. ASSUME NEW i \in 1..Len(found[k]), NEW j \in 1..Len(found[k]), i < j, j <= n + 1
          PROVE  from_(i) < from_(j)
      <3>1. j # 1 /\ j - 1 <= n /\ (i < j - 1 \/ i = j - 1)
        BY <1>1, <2>1, <2>2
      <3>2. j - 1 \in 1..Len(found[k]) /\ from_(j - 1) < from_(j)
        BY <1>2, <3>1
      <3>3. i < j - 1 => from_(i) < from_(j - 1)
        BY <1>5, <3>1, <3>2
      <3>4. QED  BY <1>3, <3>1, <3>2, <3>3
    <2>3. QED  BY <2>1, <2>2
  <1>6. A = Nat
    <2>1. A \in SUBSET Nat
      OBVIOUS
    <2> HIDE DEF A
    <2>2. QED  BY <1>4, <1>5, <2>1, SetInduction
  <1>7. Len(found[k]) \in A
    BY <1>1, <1>6
  <1>8. QED  BY <1>1, <1>7 DEF from_

\* What the expressions find is, of a plain reply, the lines.
LEMMA MatchesAreLines ==
  ASSUME TypeOK, FindsAllMatches
  PROVE  LineByLine
  <1> SUFFICES ASSUME field = "done", ~json, NEW k \in {"suggestion", "metric"}, AllPlain(k)
               PROVE  /\ {found[k][i] : i \in DOMAIN found[k]} =
                            {[from |-> p, to |-> LineEnd(p)] :
                                p \in {q \in DOMAIN text : FirstOnLine(k, q)}}
                      /\ \A i, j \in DOMAIN found[k] :
                            i < j => found[k][i].from < found[k][j].from
    BY FoundFacts DEF LineByLine, Lists, AllPlain
  <1>1. DOMAIN found = {"suggestion", "metric"} /\ DOMAIN found[k] = 1..Len(found[k])
    BY FoundFacts
  <1>2. RightMatches(k, found[k]) /\ Starts(k, Reached(k)) = {}
    BY <1>1 DEF FindsAllMatches, Lists, Reached
  <1>3. DOMAIN text = 1..Len(text) /\ Len(text) \in Nat
    BY Positions
  <1>4. ASSUME NEW i \in 1..Len(found[k])
        PROVE  /\ FirstOnLine(k, found[k][i].from) /\ found[k][i].from \in 1..Len(text)
               /\ found[k][i] = [from |-> found[k][i].from, to |-> LineEnd(found[k][i].from)]
    <2>1. /\ found[k][i].from \in Nat /\ found[k][i].from >= 1
          /\ found[k][i].from <= Len(text)
          /\ found[k][i] = [from |-> found[k][i].from, to |-> LineEnd(found[k][i].from)]
      BY <1>2, PlainList
    <2>2. QED  BY <1>2, <1>3, <2>1, ListedIsFirst
  <1>5. \A p \in 1..Len(text) : FirstOnLine(k, p) =>
            \E i \in 1..Len(found[k]) : found[k][i].from = p
    BY <1>2, FirstIsListed
  <1>6. {found[k][i] : i \in 1..Len(found[k])} =
            {[from |-> p, to |-> LineEnd(p)] : p \in {q \in 1..Len(text) : FirstOnLine(k, q)}}
    <2> DEFINE L == {found[k][i] : i \in 1..Len(found[k])}
               R == {[from |-> p, to |-> LineEnd(p)] :
                        p \in {q \in 1..Len(text) : FirstOnLine(k, q)}}
    <2>1. ASSUME NEW m \in L  PROVE  m \in R
      <3>1. PICK i \in 1..Len(found[k]) : m = found[k][i]
        BY <2>1
      <3>2. found[k][i].from \in {q \in 1..Len(text) : FirstOnLine(k, q)}
        BY <1>4
      <3>3. QED  BY <1>4, <3>1, <3>2
    <2>2. ASSUME NEW m \in R  PROVE  m \in L
      <3>1. PICK p \in 1..Len(text) : FirstOnLine(k, p) /\ m = [from |-> p, to |-> LineEnd(p)]
        BY <2>2
      <3>2. PICK i \in 1..Len(found[k]) : found[k][i].from = p
        BY <1>5, <3>1
      <3>3. m = found[k][i]
        BY <1>4, <3>1, <3>2
      <3>4. QED  BY <3>3
    <2>3. QED  BY <2>1, <2>2
  <1>7. \A i, j \in 1..Len(found[k]) : i < j => found[k][i].from < found[k][j].from
    BY <1>2, ListIsOrdered
  <1>8. QED  BY <1>1, <1>3, <1>6, <1>7

-----------------------------------------------------------------------------
\* The search keeps to its reply, and matches are in it.
THEOREM TypeCorrect == Spec => []TypeOK
  <1>1. IInv => TypeOK
    BY DEF IInv
  <1>2. QED  BY InitIInv, NextIInv, <1>1, PTL DEF Spec

\* No mention of a suggestion or a metric is lost, in replies of any length.
THEOREM NoMentionLost == Spec => []MentionsCovered
  <1>1. IInv => MentionsCovered
    BY DEF IInv
  <1>2. QED  BY InitIInv, NextIInv, <1>1, PTL DEF Spec

\* An item leaves the line of its keyword only if that line is empty.
THEOREM OwnLines == Spec => []ValueFromOwnLine
  <1>1. IInv => ValueFromOwnLine
    BY DEF IInv
  <1>2. QED  BY InitIInv, NextIInv, <1>1, PTL DEF Spec

\* The confidence is the first number the reply gives for it, however long the
\* reply, or the default.
THEOREM FirstNumber == Spec => []FirstNumberCounts
  <1>1. ConfidenceInv => FirstNumberCounts
    BY DEF ConfidenceInv
  <1>2. QED  BY InitIInv, NextIInv, InitConfidence, NextConfidence, <1>1, PTL DEF Spec

\* The lists have all matches of the expressions, from left to right, each one
\* the leftmost of what is left and the preferred one, in replies of any length.
THEOREM AllMatches == Spec => []FindsAllMatches
  <1>1. Init => IInv /\ ConfidenceInv /\ FoundInv /\ ValueInv
    BY InitIInv, InitConfidence, InitFound
  <1>2. /\ IInv /\ ConfidenceInv /\ FoundInv /\ ValueInv
        /\ [Next]_vars
        => (IInv /\ ConfidenceInv /\ FoundInv /\ ValueInv)'
    BY NextIInv, NextConfidence, NextFound DEF SearchInv, ConfidenceInv
  <1>3. IInv /\ FoundInv => FindsAllMatches
    <2> SUFFICES ASSUME IInv, FoundInv, field = "done", ~json, NEW k \in Lists
                 PROVE  /\ RightMatches(k, found[k])
                        /\ Starts(k, EndOf(found[k], Len(found[k]))) = {}
      BY DEF FindsAllMatches
    <2>1. k \in {"suggestion", "metric"}
      BY DEF IInv, TypeOK, Lists
    <2>2. QED  BY <2>1 DEF FoundInv, Over, Reached
  <1>4. QED  BY <1>1, <1>2, <1>3, PTL DEF Spec

\* If every mention has its value on its line, the items are the rests of the
\* lines with a mention, one for each line and in their order.
THEOREM Lines == Spec => []LineByLine
  <1>1. TypeOK /\ FindsAllMatches => LineByLine
    BY MatchesAreLines
  <1>2. QED  BY TypeCorrect, AllMatches, <1>1, PTL
=============================================================================
