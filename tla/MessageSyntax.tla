----------------------------- MODULE MessageSyntax -----------------------------
(***************************************************************************)
(* What the texts that the decoders read mean, said without their states:  *)
(* by lines, by positions of a separator, by maximal runs.  A text is the  *)
(* sequence of octets read so far.                                         *)
(***************************************************************************)
EXTENDS Octets, SequencesExt

Consists(s, set)   == \A i \in DOMAIN s : s[i] \in set
From(s, i)         == SubSeq(s, i, Len(s))
Positions(s, set)  == SetToSortSeq({i \in DOMAIN s : s[i] \in set}, <)
Lowered(s)         == [i \in DOMAIN s |-> ToLower(s[i])]

(* The number that a sequence of digits writes. *)
Number(s, base) == FoldLeft(LAMBDA n, o : base * n + HexValue(o), 0, s)

(* s without the blanks at its two ends. *)
Trimmed(s) ==
  LET black == {i \in DOMAIN s : s[i] \notin Blank}
  IN  IF black = {} THEN << >>
      ELSE SubSeq(s, CHOOSE i \in black : \A j \in black : i <= j,
                     CHOOSE i \in black : \A j \in black : j <= i)

(* The parts of s between the octets that separate them. *)
SplitBy(s, separators) ==
  FoldLeft(LAMBDA parts, o : IF o \in separators THEN Append(parts, << >>)
                             ELSE [parts EXCEPT ![Len(parts)] = Append(@, o)],
           << << >> >>, s)

SplitAt(s, separator) == SplitBy(s, {separator})

(* The parts that are not empty. *)
Filled(parts) ==
  FoldLeft(LAMBDA filled, part : IF part = << >> THEN filled ELSE Append(filled, part), << >>, parts)

(* The maximal runs of octets of a set, in order. *)
Runs(s, set) == Filled(SplitBy(s, Octet \ set))

-----------------------------------------------------------------------------
(* A request line: method, target, version. *)
IsVersion(v) == /\ Len(v) = 8 /\ SubSeq(v, 1, 5) = <<72, 84, 84, 80, SLASH>>
                /\ v[6] \in Digit /\ v[7] = DOT /\ v[8] \in Digit

IsRequestLine(s, method, uri, version, pchar) ==
  /\ s = method \o <<SP>> \o uri \o <<SP>> \o version \o <<CR, LF>>
  /\ method # << >> /\ Consists(method, Tchar)
  /\ uri = <<STAR>> \/ (uri # << >> /\ uri[1] = SLASH /\ Consists(uri, pchar))
  /\ IsVersion(version)

-----------------------------------------------------------------------------
(* Header fields: lines, each a field or, after a field, more of it.       *)
Lines(s) == FoldLeft(LAMBDA lines, o :
                       CASE o = LF -> Append(lines, << >>)
                         [] o = CR -> lines
                         [] OTHER  -> [lines EXCEPT ![Len(lines)] = Append(@, o)],
                     << << >> >>, s)

Continues(line) == line # << >> /\ line[1] \in Blank /\ Consists(line, Text)
IsFieldLine(line) ==
  \E i \in DOMAIN line : /\ i > 1 /\ line[i] = COLON
                         /\ Consists(SubSeq(line, 1, i - 1), Tchar)
                         /\ Consists(From(line, i + 1), Text)

WellWritten(lines) ==
  \A k \in DOMAIN lines : IsFieldLine(lines[k]) \/ (k > 1 /\ Continues(lines[k]))

(* The last of the lines has no end yet, or the first half of one. *)
WellBegun(lines, half) ==
  LET line == Last(lines)
  IN  \/ Consists(line, Tchar) /\ (half => line = << >>)
      \/ IsFieldLine(line)
      \/ Len(lines) > 1 /\ Continues(line)

(* A line end is both of its octets. *)
StrayLineEnd(s) ==
  \E i \in DOMAIN s : \/ s[i] = LF /\ (i = 1 \/ s[i - 1] # CR)
                      \/ i > 1 /\ s[i - 1] = CR /\ s[i] # LF

FieldOf(line) ==
  LET colon == SelectInSeq(line, LAMBDA o : o = COLON)
  IN  [name |-> Lowered(SubSeq(line, 1, colon - 1)), value |-> Trimmed(From(line, colon + 1))]

(* A continuation is joined by one space, an empty one by none. *)
Continued(fields, line) ==
  IF Trimmed(line) = << >> THEN fields
  ELSE [fields EXCEPT ![Len(fields)].value = @ \o <<SP>> \o Trimmed(line)]

(* The fields written in the lines, in order. *)
FieldsOf(lines) ==
  FoldLeft(LAMBDA fields, line : IF Continues(line) THEN Continued(fields, line)
                                 ELSE Append(fields, FieldOf(line)),
           << >>, lines)

(* What a header maps a name to: its values, in order, joined by commas. *)
ValuesOf(fields, name) ==
  LET mine == SelectSeq(fields, LAMBDA f : f.name = name)
  IN  FoldLeft(LAMBDA v, f : v \o <<COMMA>> \o f.value, mine[1].value, Tail(mine))

HeaderOf(fields) == [name \in {fields[i].name : i \in DOMAIN fields} |-> ValuesOf(fields, name)]

(* The octets each field takes, with its continuations and line ends. *)
FieldSizes(lines) ==
  FoldLeft(LAMBDA sizes, line : IF Continues(line) THEN [sizes EXCEPT ![Len(sizes)] = @ + Len(line) + 2]
                                ELSE Append(sizes, Len(line) + 2),
           << >>, lines)

-----------------------------------------------------------------------------
(* A chunked message: chunks of a size line, that many octets and a line   *)
(* end; the chunk of size 0 and a trailer that ends with an empty line.    *)
(* The text is "whole", wants "more", or is an "overrun": what follows the *)
(* data of a chunk is no line end.  It is plain as long as there are       *)
(* neither extensions nor fields in the trailer, and the sizes are less    *)
(* than sixteen times a limit.                                             *)
Verdict(kind, body, plain) == [kind |-> kind, body |-> body, plain |-> plain]

LineEndFrom(s, i) ==
  LET ends == {k \in i..(Len(s) - 1) : s[k] = CR /\ s[k + 1] = LF}
  IN  IF ends = {} THEN 0 ELSE CHOOSE k \in ends : \A j \in ends : k <= j

SizeOf(line) == Number(IF Consists(line, Hex) THEN line
                       ELSE SubSeq(line, 1, SelectInSeq(line, LAMBDA o : o \notin Hex) - 1), 16)

IsSize(line, limit) == /\ line # << >> /\ Consists(line, Hex)
                       /\ Number(line, 16) \div 16 < limit

EndsTrailer(t) ==
  t = <<CR, LF>> \/ (Len(t) > 4 /\ From(t, Len(t) - 3) = <<CR, LF, CR, LF>>)

(* Without its line end a line may have the first half of it. *)
SizeLineBegun(s, limit) ==
  \/ s = << >> \/ IsSize(s, limit)
  \/ Last(s) = CR /\ IsSize(Front(s), limit)

(* What there is from i on, after which the chunks are known already.      *)
ChunkFrom(s, limit, chunks, i) ==
  LET eol  == LineEndFrom(s, i)
      line == SubSeq(s, i, eol - 1)
      size == SizeOf(line)
      next == eol + 2 + size
      rest == chunks[next + 2]
  IN  CASE eol = 0 ->
             Verdict("more", << >>, SizeLineBegun(From(s, i), limit))
        [] eol # 0 /\ size = 0 ->
             LET t == From(s, eol + 2)
             IN  Verdict(IF EndsTrailer(t) THEN "whole" ELSE "more", << >>,
                         IsSize(line, limit) /\ t \in {<< >>, <<CR>>, <<CR, LF>>})
        [] eol # 0 /\ size # 0 /\ next > Len(s) ->
             Verdict("more", << >>, IsSize(line, limit))
        [] eol # 0 /\ size # 0 /\ next <= Len(s) /\ From(s, next)[1] # CR ->
             Verdict("overrun", << >>, FALSE)
        [] eol # 0 /\ size # 0 /\ next = Len(s) /\ s[next] = CR ->
             Verdict("more", << >>, IsSize(line, limit))
        [] eol # 0 /\ size # 0 /\ next < Len(s) /\ s[next] = CR /\ s[next + 1] # LF ->
             Verdict("overrun", << >>, FALSE)
        [] OTHER ->
             Verdict(rest.kind, SubSeq(s, eol + 2, next - 1) \o rest.body,
                     rest.plain /\ IsSize(line, limit))

ChunksOf(s, limit) ==
  LET chunks[i \in 1..(Len(s) + 1)] == ChunkFrom(s, limit, chunks, i)
  IN  chunks[1]

-----------------------------------------------------------------------------
(* Lists: elements between commas, blanks around them, empty ones allowed. *)
IsList(s, element, atLeast) ==
  /\ \A part \in ToSet(SplitAt(s, COMMA)) : Consists(Trimmed(part), element)
  /\ Len(Runs(s, element)) >= atLeast

(* A list whose elements have parameters: what a quoted string holds is    *)
(* put out of the way of the separators, its backslashes left out.         *)
Aside == 512

SetAside(s) ==
  FoldLeft(LAMBDA q, o :
             CASE ~q.quoted /\ o = DQUOTE               -> [q EXCEPT !.quoted = TRUE, !.text = Append(@, o)]
               [] ~q.quoted /\ o # DQUOTE               -> [q EXCEPT !.text = Append(@, o)]
               [] q.escaped                             -> [q EXCEPT !.escaped = FALSE, !.text = Append(@, o + Aside)]
               [] q.quoted /\ ~q.escaped /\ o = BACKSLASH -> [q EXCEPT !.escaped = TRUE]
               [] q.quoted /\ ~q.escaped /\ o = DQUOTE  -> [q EXCEPT !.quoted = FALSE, !.text = Append(@, o)]
               [] OTHER                                 -> [q EXCEPT !.text = Append(@, o + Aside)],
           [quoted |-> FALSE, escaped |-> FALSE, text |-> << >>], s).text

IsToken(s)  == s # << >> /\ Consists(s, Tchar)
IsQuoted(s) == /\ Len(s) > 1 /\ s[1] = DQUOTE /\ Last(s) = DQUOTE
               /\ Consists(SubSeq(s, 2, Len(s) - 1), {o + Aside : o \in Text})

NamePart(s)  == Trimmed(SubSeq(s, 1, SelectInSeq(s, LAMBDA o : o = EQUAL) - 1))
ValuePart(s) == Trimmed(From(s, SelectInSeq(s, LAMBDA o : o = EQUAL) + 1))

IsElement(s) ==
  LET pieces == SplitAt(s, SEMI)
  IN  /\ IsToken(Trimmed(pieces[1]))
      /\ \A k \in 2..Len(pieces) :
           /\ EQUAL \in ToSet(pieces[k]) /\ IsToken(NamePart(pieces[k]))
           /\ IsToken(ValuePart(pieces[k])) \/ IsQuoted(ValuePart(pieces[k]))

ElementOf(s) ==
  LET pieces == SplitAt(s, SEMI)
      value(v) == IF IsQuoted(v) THEN [i \in 1..(Len(v) - 2) |-> v[i + 1] - Aside] ELSE v
  IN  [token     |-> Trimmed(pieces[1]),
       parameter |-> [i \in 1..(2 * (Len(pieces) - 1)) |->
                        LET piece == pieces[(i + 3) \div 2]
                        IN  IF i % 2 = 1 THEN Lowered(NamePart(piece)) ELSE value(ValuePart(piece))]]

(* The elements that are not empty. *)
Elements(s) == SelectSeq(SplitAt(SetAside(s), COMMA), LAMBDA part : Trimmed(part) # << >>)

(* Entity tags: between its quotes a tag may hold a comma. *)
Quotes(s) == Positions(s, {DQUOTE})

TagOf(s, open, close) ==
  [weak |-> open > 2 /\ s[open - 1] = SLASH /\ s[open - 2] = 87, opaque |-> SubSeq(s, open, close)]

TagsOf(s) == [k \in 1..(Len(Quotes(s)) \div 2) |-> TagOf(s, Quotes(s)[2 * k - 1], Quotes(s)[2 * k])]

(* What stands between the tags: W/ stands for itself before a quote. *)
BetweenTags(s) ==
  LET q      == Quotes(s)
      begins == [k \in 1..(Len(q) \div 2 + 1) |-> IF k = 1 THEN 1 ELSE q[2 * k - 2] + 1]
      ends   == [k \in 1..(Len(q) \div 2 + 1) |->
                   IF 2 * k > Len(q) THEN Len(s)
                   ELSE IF TagsOf(s)[k].weak THEN q[2 * k - 1] - 3 ELSE q[2 * k - 1] - 1]
  IN  [k \in 1..(Len(q) \div 2 + 1) |-> SubSeq(s, begins[k], ends[k])]

IsTagList(s) ==
  /\ Len(Quotes(s)) > 0 /\ Len(Quotes(s)) % 2 = 0
  /\ \A k \in DOMAIN TagsOf(s) : Consists(TagsOf(s)[k].opaque, Visible)
  /\ \A k \in DOMAIN BetweenTags(s) :
       /\ Consists(BetweenTags(s)[k], Blank \cup {COMMA})
       /\ k \in 2..(Len(BetweenTags(s)) - 1) => COMMA \in ToSet(BetweenTags(s)[k])

-----------------------------------------------------------------------------
(* Paths.  A dot, a dash and an underscore stand between two letters or    *)
(* digits, a slash after one or first, and before one or last.             *)
IsPath(s) ==
  /\ s # << >> /\ s[1] = SLASH
  /\ \A i \in DOMAIN s :
       /\ s[i] \in Alnum \cup {SLASH, DOT, DASH, USCORE}
       /\ s[i] \in {DOT, DASH, USCORE} =>
            i > 1 /\ i < Len(s) /\ s[i - 1] \in Alnum /\ s[i + 1] \in Alnum
       /\ s[i] = SLASH => /\ i = 1 \/ s[i - 1] \in Alnum
                          /\ i = Len(s) \/ s[i + 1] \in Alnum

LastPart(s) == Last(SplitAt(s, SLASH))
=============================================================================
