------------------------------ MODULE Chunking ------------------------------
(***************************************************************************)
(* How the body of a document is cut: into sections at its headings, into  *)
(* chunks of a bounded number of tokens, and into the paragraphs that      *)
(* stand for its links.  A line is a record of the level of its heading,   *)
(* 0 if it is none, and the parts of text its tokens hold: "whole", or the *)
(* "first" or "second" half of a character that takes two tokens.  Tokens  *)
(* are of equal length.                                                    *)
(***************************************************************************)
EXTENDS Integers, SequencesExt

CONSTANT None

Least(m, n) == IF m < n THEN m ELSE n
Most(m, n) == IF m < n THEN n ELSE m

-----------------------------------------------------------------------------
(* Sections: the headings they are under, and their first and last line *)

ExtractHeadings(body) ==
  LET all == [i \in DOMAIN body |-> [line |-> i, level |-> body[i].level]]
  IN  SelectSeq(all, LAMBDA h : h.level > 0)

PoppedDeeper(stack, level) == SelectSeq(stack, LAMBDA h : h.level <= level)
RECURSIVE Popped(_, _)
Popped(stack, level) ==
  IF stack # <<>> /\ Last(stack).level >= level THEN Popped(Front(stack), level) ELSE stack

Emitted(body, stack, from, to) ==
  IF \A i \in from .. to : body[i].tokens = <<>> THEN <<>>
  ELSE <<[hierarchy |-> stack, from |-> from, to |-> to]>>

Sections(body) ==
  LET Under(s, h) == [sections |-> s.sections \o Emitted(body, s.stack, s.from, h.line - 1),
                      stack |-> Append(Popped(s.stack, h.level), h), from |-> h.line]
      s == FoldLeft(Under, [sections |-> <<>>, stack |-> <<>>, from |-> 1], ExtractHeadings(body))
      found == s.sections \o Emitted(body, s.stack, s.from, Len(body))
  IN  IF found = <<>> THEN <<[hierarchy |-> <<>>, from |-> 1, to |-> 1]>> ELSE found

\* The tokens of a section, each with its line and its place there.
Encode(body, section) ==
  FlattenSeq([n \in 1 .. section.to - section.from + 1 |->
    LET i == section.from + n - 1
    IN  IF i > Len(body) THEN <<>>
        ELSE [k \in DOMAIN body[i].tokens |-> [line |-> i, place |-> k, part |-> body[i].tokens[k]]]])

-----------------------------------------------------------------------------
(* Chunks *)

\* Tokens that start or end inside a character are no text.
Decode(tokens) ==
  IF tokens # <<>> /\ (Head(tokens).part = "second" \/ Last(tokens).part = "first") THEN None ELSE tokens
Text(tokens) == IF Decode(tokens) = None THEN <<>> ELSE tokens

Stride(max, overlap) == IF max > overlap THEN max - overlap ELSE Most(max, 1)

WindowsToEnd(total, max, overlap) ==
  LET count == (total + Stride(max, overlap) - 1) \div Stride(max, overlap)
  IN  [n \in 1 .. count |-> [after |-> (n - 1) * Stride(max, overlap),
                             to |-> Least((n - 1) * Stride(max, overlap) + max, total)]]
RECURSIVE WindowsFrom(_, _, _, _)
WindowsFrom(start, total, max, overlap) ==
  LET end == Least(start + max, total)
  IN  <<[after |-> start, to |-> end]>> \o
        IF end >= total THEN <<>> ELSE WindowsFrom(start + Stride(max, overlap), total, max, overlap)
Windows(total, max, overlap) == WindowsFrom(0, total, max, overlap)

\* Lines of a window, from how far it is into the text; both ends round outward.
SubSplit(section, tokens, window) ==
  LET content == Text(SubSeq(tokens, window.after + 1, window.to))
      before == Len(Text(SubSeq(tokens, 1, window.after)))
      lines == section.to - section.from + 1
      first == (before * lines) \div Len(tokens)
      last == ((before + Len(content)) * lines + Len(tokens) - 1) \div Len(tokens)
      from == section.from + Least(first, lines - 1)
  IN  [hierarchy |-> section.hierarchy, content |-> content, sub |-> TRUE, from |-> from,
       to |-> Most(section.from + Most(Most(Least(last, lines) - 1, 0), first), from)]

ChunksOf(body, section, max, overlap) ==
  LET tokens == Encode(body, section)
      windows == Windows(Len(tokens), max, overlap)
  IN  IF Len(tokens) <= max
      THEN <<[hierarchy |-> section.hierarchy, content |-> tokens, sub |-> FALSE,
              from |-> section.from, to |-> section.to]>>
      ELSE [n \in DOMAIN windows |-> SubSplit(section, tokens, windows[n])]

\* Chunk number n has the id of its document and n - 1.
ChunkDocument(body, max, overlap) ==
  LET sections == Sections(body)
  IN  FlattenSeq([n \in DOMAIN sections |-> ChunksOf(body, sections[n], max, overlap)])

-----------------------------------------------------------------------------
(* Paragraphs *)

IsBoundary(line) == line.tokens = <<>> \/ line.level > 0

ParagraphStart(body, i) ==
  CHOOSE s \in 1 .. i : /\ \A j \in s .. i - 1 : ~IsBoundary(body[j])
                        /\ s = 1 \/ IsBoundary(body[s - 1])
ParagraphEnd(body, i) ==
  CHOOSE e \in i .. Len(body) : /\ \A j \in i + 1 .. e : ~IsBoundary(body[j])
                                /\ e = Len(body) \/ IsBoundary(body[e + 1])

\* A line costs its length and its end of line; the line of the link costs no end.
CostFree(body, i) == Len(body[i].tokens)
Cost(body, i) == Len(body[i].tokens) + 1

\* One line upward and one downward each round, as far as the budget goes.
RECURSIVE Grown(_, _, _, _)
Grown(body, window, within, budget) ==
  LET up == window.lo > within.lo /\ Cost(body, window.lo - 1) <= budget
      lo == IF up THEN window.lo - 1 ELSE window.lo
      left == IF up THEN budget - Cost(body, lo) ELSE budget
      down == window.hi < within.hi /\ Cost(body, window.hi + 1) <= left
      hi == IF down THEN window.hi + 1 ELSE window.hi
  IN  IF up \/ down THEN Grown(body, [lo |-> lo, hi |-> hi], within, IF down THEN left - Cost(body, hi) ELSE left)
      ELSE window

ExtractLinkParagraph(body, i, most) ==
  Grown(body, [lo |-> i, hi |-> i], [lo |-> ParagraphStart(body, i), hi |-> ParagraphEnd(body, i)],
        Most(most - Len(body[i].tokens), 0))

-----------------------------------------------------------------------------
(* Properties *)

\* The headings a line is under: those before it that no heading of their level or above ends.
Enclosing(body, i) ==
  {j \in 1 .. i : body[j].level > 0 /\ \A k \in j + 1 .. i : body[k].level \notin 1 .. body[j].level}

\* Every text of a body is in a chunk, each chunk is within the lines and under the headings
\* of what it holds, and chunks of a section share as many tokens as asked for and add text
\* to the one before.  Text is missing only where a window starts or ends inside a character,
\* and only as far as that window may reach.
ChunksCoverBody(body, max, overlap) ==
  LET chunks == ChunkDocument(body, max, overlap)
      Under(c) == {h.line : h \in ToSet(c.hierarchy)}
      Plain == \A i \in DOMAIN body : ToSet(body[i].tokens) \subseteq {"whole"}
  IN  /\ \A i \in DOMAIN body : body[i].tokens # <<>> =>
           Cardinality({n \in DOMAIN Sections(body) : i \in Sections(body)[n].from .. Sections(body)[n].to}) = 1
      /\ \A s \in ToSet(Sections(body)) : LET tokens == Encode(body, s) IN
           \A n \in DOMAIN tokens :
             \/ \E c \in ToSet(chunks) : tokens[n] \in ToSet(c.content)
             \/ \E m \in DOMAIN tokens : tokens[m].part # "whole" /\ m - n \in 1 - max .. max - 1
      /\ \A c \in ToSet(chunks) :
           /\ Len(c.content) <= max /\ c.from <= c.to
           /\ \A i \in DOMAIN body :
                i \in c.from .. c.to \/ (\E t \in ToSet(c.content) : t.line = i) => Under(c) = Enclosing(body, i)
           /\ \A t \in ToSet(c.content) : c.sub \/ t.line \in c.from .. c.to
      /\ Plain => \A n \in 1 .. Len(chunks) - 1 :
           LET here == ToSet(chunks[n].content)
               next == ToSet(chunks[n + 1].content)
           IN  /\ chunks[n].sub => ~(next \subseteq here)
               /\ Cardinality(here \cap next) = IF Under(chunks[n]) = Under(chunks[n + 1]) THEN overlap ELSE 0

\* The paragraph of a link is its line with those around it up to a blank line or a heading,
\* or, where that is too long, as many of them as fit: no line next to it fits as well.
ParagraphsFit(body, i, most) ==
  LET p == ExtractLinkParagraph(body, i, most)
      Length(lo, hi) == FoldLeft(LAMBDA n, j : n + Len(body[j].tokens) + 1, -1, [j \in 1 .. hi - lo + 1 |-> lo + j - 1])
  IN  /\ i \in p.lo .. p.hi
      /\ p.lo < p.hi => Length(p.lo, p.hi) <= most
      /\ \A j \in (p.lo .. p.hi) \ {i} : ~IsBoundary(body[j])
      /\ p.lo > 1 => IsBoundary(body[p.lo - 1]) \/ Length(p.lo - 1, p.hi) > most
      /\ p.hi < Len(body) => IsBoundary(body[p.hi + 1]) \/ Length(p.lo, p.hi + 1) > most
=============================================================================
