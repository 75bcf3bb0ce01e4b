----------------------------- MODULE HttpContent ----------------------------
(* What the HTTP server does with the text of a request or a response:       *)
(* MIMEParser on a multipart body that arrives in pieces of any size,        *)
(* URLEncoding and the two parsers of key=value lists, and the replacement   *)
(* of tokens by TemplateProcessor.  job says which of them a behaviour runs. *)
(* A byte is its ASCII code; a piece of file content is any other number.    *)
EXTENDS Integers, Sequences, SequencesExt, FiniteSets

CONSTANTS Jobs,       \* the inputs, see MCHttpServerClient
          FormChunk   \* chunksize given to parse()

VARIABLES job,        \* the input of this behaviour
          fed,        \* bytes of job.body given to parse()
          mime,       \* MIMEParser: status, data, first
          pc,         \* "feed", or in parse(): "turn", "chunks"; "lost"
          files,      \* history: the calls of form_data(); blind: no boundary in sight
          text        \* the template being processed; the Last-Modified that was sent

vars == <<job, fed, mime, pc, files, text>>

CR == 13
LF == 10
Dash == 45
Percent == 37
Plus == 43
Space == 32
Equal == 61
Ampersand == 38

Init == /\ job \in Jobs /\ fed = 0 /\ pc = "feed" /\ files = <<>>
        /\ mime = [status |-> "begin", data |-> <<>>, first |-> FALSE]
        /\ text = IF job.what = "template" THEN job.text ELSE <<>>

\* std::search(): the position of pat in s, Len(s) + 1 for cend().
Matches(s, pat) ==
  {i \in 1..(Len(s) - Len(pat) + 1) : SubSeq(s, i, i + Len(pat) - 1) = pat}
Search(s, pat) ==
  IF Matches(s, pat) = {} THEN Len(s) + 1
  ELSE CHOOSE i \in Matches(s, pat) : \A k \in Matches(s, pat) : i <= k

From(s, i) == SubSeq(s, i, Len(s))

-----------------------------------------------------------------------------
(* MIMEParser, Mode::FormData.                                               *)

\* detect_mode(): the boundary announced in the header, with two dashes.
Boundary == <<Dash, Dash, 98>>
EndBoundary == Boundary \o <<Dash, Dash, CR, LF>>
DoubleCRLF == <<CR, LF, CR, LF>>

FindBoundary(d) ==
  IF Len(d) > Len(Boundary) + 2 THEN Search(d, Boundary) ELSE Len(d) + 1
FindEndBoundary(d) ==
  IF Len(d) >= Len(EndBoundary) THEN Search(d, EndBoundary) ELSE Len(d) + 1

\* parse() is called with the next n bytes.
Feed(n) ==
  /\ job.what = "form" /\ pc = "feed" /\ fed + n <= Len(job.body)
  /\ fed' = fed + n
  /\ mime' = [mime EXCEPT !.data = @ \o SubSeq(job.body, fed + 1, fed + n)]
  /\ pc' = "turn"
  /\ UNCHANGED <<job, files, text>>

ParseBegin ==
  LET b == FindBoundary(mime.data)
  IN /\ pc = "turn" /\ mime.status = "begin"
     /\ IF b <= Len(mime.data)
          THEN /\ mime' = [mime EXCEPT !.status = "headers",
                                       !.data = From(@, b + Len(Boundary) + 2)]
               /\ UNCHANGED pc
          ELSE pc' = "feed" /\ UNCHANGED mime
     /\ UNCHANGED <<job, fed, files, text>>

\* The headers of a part, consume_headers(), end in an empty line.
ParseHeaders ==
  LET e == Search(mime.data, DoubleCRLF)
  IN /\ pc = "turn" /\ mime.status = "headers"
     /\ IF e <= Len(mime.data)
          THEN /\ mime' = [mime EXCEPT !.status = "data", !.first = TRUE,
                                       !.data = From(@, e + 4)]
               /\ UNCHANGED pc
          ELSE pc' = "feed" /\ UNCHANGED mime
     /\ UNCHANGED <<job, fed, files, text>>

NextBoundary == Search(mime.data, Boundary)
Complete == NextBoundary <= Len(mime.data)

\* Is there enough to hand over, or the end of the part?
ParseData ==
  /\ pc = "turn" /\ mime.status = "data"
  /\ pc' = IF Len(mime.data) > FormChunk + Len(EndBoundary) \/ Complete
             THEN "chunks" ELSE "feed"
  /\ UNCHANGED <<job, fed, mime, files, text>>

FormData(d, close) ==
  files' = Append(files, [data |-> d, start |-> mime.first, close |-> close,
                          blind |-> ~Complete])

\* Hands over a chunk while more than a chunk comes before the place two
\* bytes before the boundary, or before the end of what has arrived.
ParseChunk ==
  /\ pc = "chunks" /\ NextBoundary - 1 - 2 > FormChunk
  /\ FormData(SubSeq(mime.data, 1, FormChunk), FALSE)
  /\ mime' = [mime EXCEPT !.data = From(@, FormChunk + 1), !.first = FALSE]
  /\ UNCHANGED <<job, fed, pc, text>>

RestOfPartWithCRLF == SubSeq(mime.data, 1, NextBoundary - 1)

\* The bytes before the CRLF of the boundary.
RestOfPart == SubSeq(mime.data, 1, NextBoundary - 1 - 2)

ParseEnd ==
  LET rest == From(mime.data, NextBoundary - 2)
      done == FindEndBoundary(rest) - 1 <= 4
  IN /\ pc = "chunks" /\ NextBoundary - 1 - 2 <= FormChunk
     /\ IF ~Complete THEN pc' = "turn" /\ UNCHANGED <<mime, files>>
        ELSE IF NextBoundary < 3 THEN pc' = "lost" /\ UNCHANGED <<mime, files>>
        ELSE /\ FormData(RestOfPart, TRUE)
             /\ mime' = [mime EXCEPT !.status = "headers", !.first = FALSE,
                                     !.data = IF done THEN <<>> ELSE rest]
             /\ pc' = IF done THEN "feed" ELSE "turn"
     /\ UNCHANGED <<job, fed, text>>

-----------------------------------------------------------------------------
(* URLEncoding::decode(): %xx first, then every '+' becomes a space, also    *)
(* one that was written %2B.                                                 *)

HexValueLower(c) == IF c \in 48..57 THEN c - 48 ELSE IF c \in 97..102 THEN c - 87 ELSE -1

HexValue(c) == CASE c \in 48..57 -> c - 48
                 [] c \in 65..70 -> c - 55
                 [] c \in 97..102 -> c - 87
                 [] OTHER -> -1

\* State of the loop: ok, the text written, the hex digits still to come.
DecodeStep(a, c) ==
  IF ~a.ok THEN a
  ELSE IF a.todo > 0
    THEN IF HexValue(c) < 0 THEN [a EXCEPT !.ok = FALSE]
         ELSE [a EXCEPT !.todo = @ - 1, !.hex = 16 * @ + HexValue(c),
                        !.out = IF a.todo = 1 THEN Append(@, 16 * a.hex + HexValue(c)) ELSE @]
  ELSE IF c = Percent THEN [a EXCEPT !.todo = 2, !.hex = 0]
  ELSE [a EXCEPT !.out = Append(@, c)]

Decode(s) ==
  LET a == FoldLeft(DecodeStep, [ok |-> TRUE, out |-> <<>>, todo |-> 0, hex |-> 0], s)
  IN [ok |-> a.ok /\ a.todo = 0,
      out |-> [i \in DOMAIN a.out |-> IF a.out[i] = Plus THEN Space ELSE a.out[i]]]

\* util::split(): what follows the last token is dropped when it is not
\* longer than the token.
Tokens(s, tok) == {i \in DOMAIN s : s[i] = tok}
TokenAt(s, tok, k) ==
  CHOOSE i \in Tokens(s, tok) : Cardinality({j \in Tokens(s, tok) : j <= i}) = k

Split(s, tok) ==
  LET n     == Cardinality(Tokens(s, tok))
      start == [k \in 1..(n + 1) |-> IF k = 1 THEN 1 ELSE TokenAt(s, tok, k - 1) + 1]
      parts == [k \in 1..n |-> SubSeq(s, start[k], TokenAt(s, tok, k) - 1)]
  IN IF Len(s) - start[n + 1] + 1 > 1 THEN Append(parts, From(s, start[n + 1])) ELSE parts

ParamStepNoReset(a, c) ==
  CASE a.in = "key" /\ c = Equal -> [a EXCEPT !.in = "value"]
    [] a.in = "value" /\ c = Ampersand ->
         [a EXCEPT !.in = "key", !.map = Append(@, <<a.key, a.value>>)]
    [] a.in = "key" -> [a EXCEPT !.key = Append(@, c)]
    [] OTHER -> [a EXCEPT !.value = Append(@, c)]

\* separate_request_parameters(): decodes the text after '?' first, then cuts
\* it at '=' and '&'; a key given twice keeps the last value.
ParamStep(a, c) ==
  CASE a.in = "key" /\ c = Equal -> [a EXCEPT !.in = "value"]
    [] a.in = "value" /\ c = Ampersand ->
         [in |-> "key", key |-> <<>>, value |-> <<>>, map |-> Append(a.map, <<a.key, a.value>>)]
    [] a.in = "key" -> [a EXCEPT !.key = Append(@, c)]
    [] OTHER -> [a EXCEPT !.value = Append(@, c)]

RequestParameters(s) ==
  LET a == FoldLeft(ParamStep, [in |-> "key", key |-> <<>>, value |-> <<>>, map |-> <<>>],
                    Decode(s).out)
  IN IF a.in = "value" THEN Append(a.map, <<a.key, a.value>>) ELSE a.map

\* Mode::FormURLEncoded: splits first, then decodes.
FormFields(s) ==
  LET parts == SelectSeq(Split(s, Ampersand), LAMBDA p: Tokens(p, Equal) # {})
      kv    == [i \in DOMAIN parts |-> Split(parts[i], Equal)]
  IN [i \in DOMAIN kv |-> <<Decode(kv[i][1]).out, Decode(kv[i][2]).out>>]

-----------------------------------------------------------------------------
(* TemplateProcessor.  A template is a sequence of pieces: an element of     *)
(* DOMAIN job.dict is a token, any other piece is text.                      *)

TemplateTokens == {i \in DOMAIN text : job.what = "template" /\ text[i] \in DOMAIN job.dict}

ReplaceKnown(t, token) == IF job.dict[token] = <<>> THEN t ELSE
  FoldLeft(LAMBDA a, p: a \o (IF p = token THEN job.dict[token] ELSE <<p>>), <<>>, t)

Replaced(t, token) ==
  FoldLeft(LAMBDA a, p: a \o (IF p = token THEN job.dict[token] ELSE <<p>>), <<>>, t)

\* One turn of the loop: replaces the first token found, everywhere.  A value
\* that contains its own token is replaced for ever.
TemplateTurn ==
  /\ TemplateTokens # {}
  /\ \E i \in TemplateTokens :
       /\ \A k \in TemplateTokens : i <= k
       /\ ~\E k \in DOMAIN job.dict[text[i]] : job.dict[text[i]][k] = text[i]
       /\ text' = Replaced(text, text[i])
  /\ UNCHANGED <<job, fed, mime, pc, files>>

-----------------------------------------------------------------------------
(* The times in headers, utils::make_http_time and parse_http_time.  A time  *)
(* is [day, month, year], the month counted from zero.                       *)

MonthNames == <<"Jan", "Feb", "Mar", "Apr", "May", "Jun", "Jul", "Aug", "Sep",
                "Oct", "Nov", "Dec">>
StandardNames == <<"Jan", "Feb", "Mar", "Apr", "May", "Jun", "Jul", "Aug", "Sep",
                   "Oct", "Nov", "Dec">>
MinTime == [year |-> -1]

MakeHttpTime(t) == <<t.day, MonthNames[t.month + 1], t.year>>

ParseHttpTime(fields) ==
  LET months == {k \in 0..11 : StandardNames[k + 1] = fields[2]}
  IN IF months = {} THEN MinTime
     ELSE [day |-> fields[1], month |-> CHOOSE k \in months : TRUE, year |-> fields[3]]

\* FileContentResponse: the header is set, and its text reaches the client.
LastModified ==
  /\ job.what = "time" /\ text = <<>>
  /\ text' = MakeHttpTime(job.time)
  /\ UNCHANGED <<job, fed, mime, pc, files>>

-----------------------------------------------------------------------------
MaxFeed == 12
Parse == ParseBegin \/ ParseHeaders \/ ParseData \/ ParseChunk \/ ParseEnd
Next == (\E n \in 1..MaxFeed : Feed(n)) \/ Parse \/ TemplateTurn \/ LastModified
Spec == Init /\ [][Next]_vars /\ WF_vars(Next)

(* The content of the parts handed over so far is, part by part, the content *)
(* of the body: nothing lost, added or moved to another part, "start" on the *)
(* first piece of a part and "close" on its last.  Excepted: more than       *)
(* chunksize + 7 bytes without a boundary arrived and end within the CRLF    *)
(* and boundary that follow a part; MIMEParser.cpp:174 then keeps three      *)
(* bytes and hands the beginning of the boundary over as content.            *)
HandedBy(fs) == FoldLeft(LAMBDA a, f: (IF f.start THEN Append(a, f.data)
                                       ELSE [a EXCEPT ![Len(a)] = @ \o f.data]), <<>>, fs)
Handed == HandedBy(files)
CutBoundary ==
  \E i \in DOMAIN files :
    LET h == HandedBy(SubSeq(files, 1, i))
    IN files[i].blind /\ Len(h[Len(h)]) > Len(job.parts[Len(h)])

FormContentExact ==
  job.what = "form" /\ ~CutBoundary =>
    /\ pc # "lost"
    /\ Len(Handed) <= Len(job.parts)
    /\ \A i \in DOMAIN Handed :
         /\ Len(Handed[i]) <= Len(job.parts[i])
         /\ Handed[i] = SubSeq(job.parts[i], 1, Len(Handed[i]))
    /\ \A i \in DOMAIN files :
         files[i].close => LET n == Cardinality({k \in 1..i : files[k].start})
                           IN Len(Handed[n]) = Len(job.parts[n])

(* Text that was encoded is decoded to itself, whatever it holds but '+'     *)
(* (URLEncoding.cpp:92 turns the decoded '+' into a space).                  *)
Hex(n) == IF n < 10 THEN 48 + n ELSE 55 + n
Encode(s) == FoldLeft(LAMBDA a, c: a \o (IF c \in {Percent, Plus, Equal, Ampersand, Space}
                                           THEN <<Percent, Hex(c \div 16), Hex(c % 16)>>
                                           ELSE <<c>>), <<>>, s)
DecodesWhatIsEncoded ==
  job.what = "pair" /\ Plus \notin {job.key[i] : i \in DOMAIN job.key} =>
    Decode(Encode(job.key)) = [ok |-> TRUE, out |-> job.key]

(* A form field or a request parameter is read back as it was written, when  *)
(* no '+' is in it.  Excepted: a form value of one byte, which split() drops *)
(* so that key_value[1] is read past its end (MIMEParser.cpp:251), and       *)
(* parameters with an encoded '&' or '=', which separate_request_parameters  *)
(* decodes before it looks for them.                                         *)
Specials == {Plus, Equal, Ampersand}
Plain(s) == \A i \in DOMAIN s : s[i] \notin Specials
PairsReadBack ==
  job.what = "pair" =>
    LET line == Encode(job.key) \o <<Equal>> \o Encode(job.value)
    IN /\ Plain(job.key) /\ Plain(job.value) =>
            RequestParameters(line \o <<Ampersand>> \o line)
              = << <<job.key, job.value>>, <<job.key, job.value>> >>
       /\ Plus \notin {job.key[i] : i \in DOMAIN job.key}
             \cup {job.value[i] : i \in DOMAIN job.value}
          /\ Len(Encode(job.value)) > 1 =>
            FormFields(line) = << <<job.key, job.value>> >>

(* A template is processed to an end, with no token left, when no value      *)
(* leads back to the token it stands for.                                    *)
TemplatesEnd == (job.what = "template" /\ ~job.cyclic) ~> (TemplateTokens = {})

(* A client that asks for a file if it was modified since the time it was    *)
(* told in Last-Modified asks for that time, "<day-name>, <day> <month>      *)
(* <year> <hour>:<minute>:<second> GMT" (http_utils.cpp:50).                 *)
TimesReadBack ==
  job.what = "time" /\ text # <<>> => ParseHttpTime(text) = job.time

(* What a client encodes and sends is what the application reads: the parts  *)
(* of a multipart body, encoded text, the pairs of a list, and times.        *)
ContentReadBack ==
  FormContentExact /\ DecodesWhatIsEncoded /\ PairsReadBack /\ TimesReadBack
=============================================================================
