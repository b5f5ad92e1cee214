----------------------------- MODULE StreamUsage -----------------------------
(***************************************************************************)
(* What forward_stream reads out of an event stream while it passes the    *)
(* bytes on: the last id, the last usage and the text, from chunks that    *)
(* the network cuts anywhere, even inside a character.                     *)
(*                                                                         *)
(* A stream is a sequence of lines.  A byte is named by its line and its   *)
(* part: the line up to its text, the two bytes of each character of the   *)
(* text, the rest of the line, and the line feed.                          *)
(***************************************************************************)
EXTENDS Integers, Sequences, FiniteSetsExt, SequencesExt, Sums

(* A line: is it a data line with a JSON object, the id and the usage it   *)
(* carries ("none", NoUsage), the characters of its delta, and whether a   *)
(* line feed ends it.                                                      *)
NoUsage == [none |-> 0]
Line(event, id, usage, chars, ends) ==
  [event |-> event, id |-> id, usage |-> usage, chars |-> chars, ends |-> ends]

(* Only the last line of a stream may lack its line feed. *)
IsStream(lines) ==
  /\ lines \in Seq(Range(lines))
  /\ \A l \in DOMAIN lines : lines[l].chars \in Nat /\ (l < Len(lines) => lines[l].ends)

LineBytes(lines, l) ==
  LET byte(part) == [line |-> l, part |-> part] IN
  <<byte("head")>>
    \o [i \in 1 .. 2 * lines[l].chars |-> IF i % 2 = 1 THEN byte("lead") ELSE byte("continued")]
    \o <<byte("tail")>>
    \o IF lines[l].ends THEN <<byte("feed")>> ELSE <<>>

StreamBytes(lines) == FlattenSeq([l \in DOMAIN lines |-> LineBytes(lines, l)])

-----------------------------------------------------------------------------
(* Decoding a chunk by itself: half a character at either end is ignored.  *)
Decoded(chunk) ==
  LET from == IF Head(chunk).part = "continued" THEN 2 ELSE 1
      upto == IF Last(chunk).part = "lead" THEN Len(chunk) - 1 ELSE Len(chunk)
  IN  SubSeq(chunk, from, upto)

Feeds(text) == {i \in DOMAIN text : text[i].part = "feed"}

(* The text between two line feeds. *)
Piece(text, feed) ==
  SubSeq(text, 1 + Max({0} \cup {i \in Feeds(text) : i < feed}), feed - 1)

(* A piece parses as an event when it is a data line from head to tail. *)
Parses(lines, piece) ==
  /\ piece # <<>>
  /\ Head(piece).part = "head" /\ Last(piece).part = "tail"
  /\ lines[Head(piece).line].event

Characters(piece) == Cardinality({i \in DOMAIN piece : piece[i].part = "lead"})

Start == [pending |-> <<>>, id |-> "none", usage |-> NoUsage, text |-> 0]

RestForgotten(text) == <<>> \* Mutant: an unfinished line is thrown away.
Rest(text) == SubSeq(text, 1 + Max({0} \cup Feeds(text)), Len(text))

(* The complete lines of the buffer, one after the other. *)
ReadLines(lines, state, text) ==
  LET pieces == [f \in Feeds(text) |-> Piece(text, f)]
      events == {f \in Feeds(text) : Parses(lines, pieces[f])}
      line(f) == lines[Head(pieces[f]).line]
      named == {f \in events : line(f).id # "none"}
      metered == {f \in events : line(f).usage # NoUsage}
  IN  [pending |-> Rest(text),
       id      |-> IF named = {} THEN state.id ELSE line(Max(named)).id,
       usage   |-> IF metered = {} THEN state.usage ELSE line(Max(metered)).usage,
       text    |-> state.text + Sum([f \in events |-> Characters(pieces[f])], events)]

NeverOverflows(state, chunk, limit) == FALSE \* Mutant: the buffer has no limit.
Overflows(state, chunk, limit) == Len(state.pending \o Decoded(chunk)) > limit

(* One chunk: a buffer over the limit is dropped before its lines are read. *)
Read(lines, state, chunk, limit) ==
  IF Overflows(state, chunk, limit)
    THEN [state EXCEPT !.pending = <<>>]
    ELSE ReadLines(lines, state, state.pending \o Decoded(chunk))

-----------------------------------------------------------------------------
(* The reference: what a reader of whole lines finds in the first lines of *)
(* a stream, leaving out the lines in lost.                                *)

Readable(lines, upto, lost) ==
  {l \in DOMAIN lines : lines[l].event /\ lines[l].ends /\ l <= upto /\ l \notin lost}

LastId(lines, upto, lost) ==
  LET named == {l \in Readable(lines, upto, lost) : lines[l].id # "none"}
  IN  IF named = {} THEN "none" ELSE lines[Max(named)].id

LastUsage(lines, upto, lost) ==
  LET metered == {l \in Readable(lines, upto, lost) : lines[l].usage # NoUsage}
  IN  IF metered = {} THEN NoUsage ELSE lines[Max(metered)].usage

TextLength(lines, upto, lost) ==
  Sum([l \in DOMAIN lines |-> lines[l].chars], Readable(lines, upto, lost))
=============================================================================
