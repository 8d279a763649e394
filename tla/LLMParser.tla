----------------------------- MODULE LLMParser -----------------------------
(***************************************************************************)
(* true-hack/internal/chain/parser.go, parseLLMResponse: what is made of a *)
(* reply of the language model.  A reply that is the JSON of an answer is  *)
(* taken as it is.  Any other one is searched with three regular           *)
(* expressions, one after the other:                                       *)
(*                                                                         *)
(*     confidence:?\s*([0-9.]+)     the first match                        *)
(*     suggestion:?\s*([^\n]+)      all matches                            *)
(*     metric:?\s*([^\n]+)          all matches                            *)
(*                                                                         *)
(* A reply is a sequence of tokens: the keywords, the characters that the  *)
(* expressions name, runs of digits and dots (Numbers), and Words, which   *)
(* stand for all other text.  Go's package regexp is external.  It finds   *)
(* the leftmost match and each repetition takes all it can; the search is  *)
(* modelled token by token, from left to right.                            *)
(***************************************************************************)
EXTENDS Integers, Sequences, FiniteSets, FiniteSetsExt

CONSTANTS
    Numbers,        \* runs of digits and dots
    Parsed,         \* Parsed[n]: what Sscanf makes of n, or None if it fails
    Default,        \* the confidence without one in the text, 0.8
    Words,          \* all other text
    Alphabet,       \* the tokens that replies are made of
    MaxTokens,      \* bound on the length of a reply
    None

Colon == ":"
Space == " "
Newline == "nl"
Blanks == {Space, Newline}
Keywords == {"confidence", "suggestion", "metric"}

Tokens == Keywords \cup {Colon} \cup Blanks \cup Numbers \cup Words

\* A run of digits and dots is one token.
Texts ==
    {t \in UNION {[1..n -> Alphabet] : n \in 0..MaxTokens} :
        \A i \in 2..Len(t) : ~(t[i - 1] \in Numbers /\ t[i] \in Numbers)}

ASSUME ParserAssumption ==
    /\ Alphabet \subseteq Tokens
    /\ (Numbers \cup Words) \cap (Keywords \cup {Colon} \cup Blanks) = {}
    /\ Numbers \cap Words = {}
    /\ DOMAIN Parsed = Numbers
    /\ MaxTokens \in Nat

VARIABLES
    json,       \* the reply is the JSON of an answer
    text,       \* the reply
    field,      \* the keyword searched for, "json" before and "done" after
    mode,       \* where in its expression the search is
    at,         \* the token the search looks at
    from,       \* the keyword of the match under way
    last,       \* its last token after the keyword that is no newline, or 0
    confidence, \* resp.Confidence
    found       \* found[k]: the matches of k, their first and last token

vars == <<json, text, field, mode, at, from, last, confidence, found>>

reply == <<json, text>>

Init ==
    /\ json \in BOOLEAN
    /\ text \in Texts
    /\ field = "json"
    /\ mode = "seek"
    /\ at = 1
    /\ from = 0
    /\ last = 0
    /\ confidence = Default
    /\ found = [k \in {"suggestion", "metric"} |-> <<>>]

-----------------------------------------------------------------------------
(* The two stages.                                                         *)

\* json.Unmarshal: the answer is what the reply says.
Unmarshal ==
    /\ field = "json"
    /\ json
    /\ field' = "done"
    /\ UNCHANGED <<reply, mode, at, from, last, confidence, found>>

NotJSON ==
    /\ field = "json"
    /\ ~json
    /\ field' = "confidence"
    /\ UNCHANGED <<reply, mode, at, from, last, confidence, found>>

After == [confidence |-> "suggestion", suggestion |-> "metric", metric |-> "done"]

\* The next expression is searched for from the start of the reply.
NextField ==
    /\ field' = After[field]
    /\ mode' = "seek"
    /\ at' = 1
    /\ from' = 0
    /\ last' = 0

-----------------------------------------------------------------------------
(* The search.                                                             *)

Searching == field \in Keywords
More == at <= Len(text)

In(m) == Searching /\ mode = m

Consume(m) ==
    /\ at' = at + 1
    /\ mode' = m

Seek ==
    /\ In("seek")
    /\ More
    /\ text[at] # field
    /\ Consume("seek")
    /\ UNCHANGED <<reply, field, from, last, confidence, found>>

Keyword ==
    /\ In("seek")
    /\ More
    /\ text[at] = field
    /\ Consume("colon")
    /\ from' = at
    /\ last' = 0
    /\ UNCHANGED <<reply, field, confidence, found>>

\* :?
TakeColon ==
    /\ In("colon")
    /\ More
    /\ text[at] = Colon
    /\ Consume("blank")
    /\ last' = at
    /\ UNCHANGED <<reply, field, from, confidence, found>>

\* \s*, which does not end at the end of a line.
TakeBlank ==
    /\ In("colon") \/ In("blank")
    /\ More
    /\ text[at] \in Blanks
    /\ Consume("blank")
    /\ last' = IF text[at] = Newline THEN last ELSE at
    /\ UNCHANGED <<reply, field, from, confidence, found>>

\* The token that the value begins with: not a blank, nor the optional colon.
AtValue ==
    /\ More
    /\ text[at] \notin Blanks
    /\ In("blank") \/ (In("colon") /\ text[at] # Colon)

\* A plausible fault: the last number counts.
TakeNumberLast ==
    /\ AtValue
    /\ field = "confidence"
    /\ text[at] \in Numbers
    /\ confidence' = IF Parsed[text[at]] = None THEN confidence ELSE Parsed[text[at]]
    /\ Consume("seek")
    /\ UNCHANGED <<reply, field, from, last, found>>

\* A plausible fault: the next expression is searched for from here on.
TakeNumberOnce ==
    /\ AtValue
    /\ field = "confidence"
    /\ text[at] \in Numbers
    /\ confidence' = IF Parsed[text[at]] = None THEN confidence ELSE Parsed[text[at]]
    /\ field' = After[field]
    /\ Consume("seek")
    /\ UNCHANGED <<reply, from, last, found>>

\* A plausible fault: without a number there is no confidence.
TakeNumberOrZero ==
    /\ AtValue
    /\ field = "confidence"
    /\ text[at] \in Numbers
    /\ confidence' = Parsed[text[at]]
    /\ NextField
    /\ UNCHANGED <<reply, found>>

\* [0-9.]+, and Sscanf, which leaves the confidence alone if it fails.
TakeNumber ==
    /\ AtValue
    /\ field = "confidence"
    /\ text[at] \in Numbers
    /\ confidence' = IF Parsed[text[at]] = None THEN confidence ELSE Parsed[text[at]]
    /\ NextField
    /\ UNCHANGED <<reply, found>>

\* No match begins at this keyword.
NoNumber ==
    /\ AtValue
    /\ field = "confidence"
    /\ text[at] \notin Numbers
    /\ mode' = "seek"
    /\ last' = 0
    /\ UNCHANGED <<reply, field, at, from, confidence, found>>

\* A plausible fault: the value may go on in the next line.
TakeLines ==
    /\ In("line")
    /\ More
    /\ Consume("line")
    /\ last' = at
    /\ UNCHANGED <<reply, field, from, confidence, found>>

\* [^\n]+
BeginLine ==
    /\ AtValue
    /\ field # "confidence"
    /\ Consume("line")
    /\ last' = at
    /\ UNCHANGED <<reply, field, from, confidence, found>>

TakeLine ==
    /\ In("line")
    /\ More
    /\ text[at] # Newline
    /\ Consume("line")
    /\ last' = at
    /\ UNCHANGED <<reply, field, from, confidence, found>>

Match(to) == found' = [found EXCEPT ![field] = Append(@, [from |-> from, to |-> to])]

\* A plausible fault: the rest of the line is searched for further keywords.
EndLineAtKeyword ==
    /\ In("line")
    /\ More
    /\ text[at] \in {Newline, field}
    /\ mode' = "seek"
    /\ Match(last)
    /\ last' = 0
    /\ UNCHANGED <<reply, field, at, from, confidence>>

EndLine ==
    /\ In("line")
    /\ More
    /\ text[at] = Newline
    /\ mode' = "seek"
    /\ Match(last)
    /\ last' = 0
    /\ UNCHANGED <<reply, field, at, from, confidence>>

\* A plausible fault: the match that the end of the text cuts is forgotten.
EndTextDropping ==
    /\ Searching
    /\ ~More
    /\ NextField
    /\ UNCHANGED <<reply, confidence, found>>

\* The text is over.  A match ends with the last token that is no newline: if
\* only blanks came after the keyword, the expression gives back what it took,
\* and a blank or the colon becomes the value.
EndText ==
    /\ Searching
    /\ ~More
    /\ IF last # 0 /\ field # "confidence" THEN Match(last) ELSE UNCHANGED found
    /\ NextField
    /\ UNCHANGED <<reply, confidence>>

Next ==
    \/ Unmarshal \/ NotJSON
    \/ Seek \/ Keyword \/ TakeColon \/ TakeBlank
    \/ TakeNumber \/ NoNumber
    \/ BeginLine \/ TakeLine \/ EndLine
    \/ EndText

Spec == Init /\ [][Next]_vars

-----------------------------------------------------------------------------
(* The response.                                                           *)

\* strings.TrimSpace
TrimSpace(s) ==
    LET visible == {i \in DOMAIN s : s[i] \notin Blanks}
    IN  IF visible = {} THEN <<>> ELSE SubSeq(s, Min(visible), Max(visible))

\* The keyword goes if the colon follows it at once.
Item(m) ==
    TrimSpace(IF text[m.from + 1] = Colon THEN SubSeq(text, m.from + 2, m.to)
                                          ELSE SubSeq(text, m.from, m.to))

\* FindAllString returns nil, not an empty list, if nothing matches.
Items(k) ==
    IF found[k] = <<>> THEN None ELSE [i \in DOMAIN found[k] |-> Item(found[k][i])]

\* The answer made of a reply that is no JSON.
LLMResponse ==
    [analysis |-> text, confidence |-> confidence,
     suggestions |-> Items("suggestion"), metrics |-> Items("metric")]

-----------------------------------------------------------------------------
(* Properties.                                                             *)

Lists == DOMAIN found

\* How much of the reply has been searched for k.
Searched(k) ==
    IF field = k THEN at - 1
    ELSE IF ~json /\ (field = "done" \/ field = "metric") THEN Len(text)
    ELSE 0

\* The default, and what the runs of digits and dots that are numbers stand for.
Confidences == {Default} \cup ({Parsed[n] : n \in Numbers} \ {None})

\* Types of the variables; a match has its keyword and a token after it.
TypeOK ==
    /\ json \in BOOLEAN
    /\ text \in Seq(Tokens)
    /\ field \in Keywords \cup {"json", "done"}
    /\ mode \in {"seek", "colon", "blank", "line"}
    /\ at \in 1..(Len(text) + 1)
    /\ from \in 0..(at - 1)
    /\ last \in 0..(at - 1)
    /\ confidence \in Confidences
    /\ found \in [{"suggestion", "metric"} -> Seq([from: 1..Len(text), to: 2..Len(text)])]

\* No suggestion and no metric that the reply mentions is lost: each mention is
\* in an item, as its head or in the text of an earlier one that it shares a
\* line with or whose empty line it fills.  Only a mention with nothing but
\* newlines after it, up to the end, is left out.
MentionsCovered ==
    \A k \in Lists : \A p \in 1..Searched(k) :
        text[p] = k =>
            \/ \E i \in DOMAIN found[k] : p \in found[k][i].from .. found[k][i].to
            \/ field = k /\ mode # "seek" /\ p >= from
            \/ \A q \in (p + 1)..Len(text) : text[q] = Newline

\* An item is text of the line its keyword is on.  It is text of a later line
\* only if nothing but a colon and blanks was left on that of the keyword and
\* on those between.
ValueFromOwnLine ==
    \A k \in Lists : \A i \in DOMAIN found[k] :
        LET m == found[k][i] IN
        \A q \in m.from..m.to :
            text[q] = Newline =>
                \A r \in (m.from + 1)..q :
                    text[r] \in Blanks \/ (r = m.from + 1 /\ text[r] = Colon)

\* The ways in which the expression of k matches from token p on.
Ways(k, p) ==
    {w \in [colon: 0..1, blanks: 0..Len(text), to: p..Len(text)] :
        LET value == p + w.colon + w.blanks + 1 IN
        /\ text[p] = k
        /\ value <= w.to
        /\ w.colon = 1 => text[p + 1] = Colon
        /\ \A q \in (p + w.colon + 1)..(value - 1) : text[q] \in Blanks
        /\ \A q \in value..w.to : text[q] # Newline}

\* Each repetition takes what it can, the earlier one first.
Prefers(v, w) ==
    \/ v.colon > w.colon
    \/ v.colon = w.colon /\ v.blanks > w.blanks
    \/ v.colon = w.colon /\ v.blanks = w.blanks /\ v.to >= w.to

\* The match of k from p on ends with the token to.
Matches(k, p, to) ==
    \E w \in Ways(k, p) : w.to = to /\ \A v \in Ways(k, p) : Prefers(w, v)

\* Where k matches behind token e.
Starts(k, e) == {p \in (e + 1)..Len(text) : Ways(k, p) # {}}

\* The last token of the n-th match of s.
EndOf(s, n) == IF n = 0 THEN 0 ELSE s[n].to

\* Each match of s is the first one behind the one before it.
RightMatches(k, s) ==
    \A i \in DOMAIN s :
        /\ s[i].from \in Starts(k, EndOf(s, i - 1))
        /\ \A q \in Starts(k, EndOf(s, i - 1)) : s[i].from <= q
        /\ Matches(k, s[i].from, s[i].to)

\* The search finds what the expressions say: all matches from left to right,
\* each one the leftmost of what is left, and of its ways the preferred one,
\* however many steps the automaton had to take back at the end of the text.
FindsAllMatches ==
    field = "done" /\ ~json =>
        \A k \in Lists :
            /\ RightMatches(k, found[k])
            /\ Starts(k, EndOf(found[k], Len(found[k]))) = {}

\* The end of the line that token p is on.
LineEnd(p) ==
    CHOOSE e \in p..Len(text) :
        /\ \A q \in p..e : text[q] # Newline
        /\ e = Len(text) \/ text[e + 1] = Newline

\* The first mention of k on a line.
FirstOnLine(k, p) ==
    /\ text[p] = k
    /\ \A q \in 1..(p - 1) :
          text[q] = k => \E r \in q..p : text[r] = Newline

\* The mention is followed by its value on its line.
Plain(k, p) ==
    \E q \in (p + 1)..LineEnd(p) : text[q] \notin Blanks \cup {Colon}

\* If every mention has its value on its line, the list has one item for each
\* line with a mention, in their order: the rest of the line.
LineByLine ==
    field = "done" /\ ~json =>
        \A k \in Lists :
            (\A p \in DOMAIN text : text[p] = k => Plain(k, p)) =>
                /\ {found[k][i] : i \in DOMAIN found[k]} =
                      {[from |-> p, to |-> LineEnd(p)] :
                          p \in {q \in DOMAIN text : FirstOnLine(k, q)}}
                /\ \A i, j \in DOMAIN found[k] :
                      i < j => found[k][i].from < found[k][j].from

\* Token n is a run of digits and dots that follows the mention p.
Gives(p, n) ==
    /\ text[p] = "confidence" /\ text[n] \in Numbers
    /\ p < n
    /\ \A q \in (p + 1)..(n - 1) :
          text[q] \in Blanks \/ (q = p + 1 /\ text[q] = Colon)

Given == {n \in DOMAIN text : \E p \in DOMAIN text : Gives(p, n)}

\* The confidence is that of the first mention of it with a run of digits and
\* dots, and of no other: if this run is no number, the default stays, whatever
\* the reply says later.
FirstNumberCounts ==
    field \notin {"json", "confidence"} /\ ~json =>
        LET valid == Given # {} /\ Parsed[text[Min(Given)]] # None
        IN  confidence = IF valid THEN Parsed[text[Min(Given)]] ELSE Default
=============================================================================
