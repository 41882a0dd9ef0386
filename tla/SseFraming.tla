----------------------------- MODULE SseFraming -----------------------------
(***************************************************************************)
(* _SseParser (client/poe_events.py): an incremental parser of server-sent *)
(* events over the chunks the network happens to cut the stream into, with *)
(* a limit on a line and one on an event.                                  *)
(*                                                                         *)
(* A byte is one of a few letters: LF, CR, ":" for the start of a comment, *)
(* and "e", "d", "i" for the fields event, data and id, told apart by the  *)
(* first byte of a line; the line itself stands for the field's value.     *)
(***************************************************************************)
EXTENDS Naturals, Sequences, SequencesExt

CONSTANTS
  Letters,            \* the letters of the stream
  MaxLine, MaxEvent,  \* _MAX_LINE_BYTES, _MAX_EVENT_BYTES
  MaxChunk, MaxStream \* bounds of the model

SizesAssumption ==
  /\ Letters \subseteq {"LF", "CR", ":", "e", "d", "i"}
  /\ MaxLine \in Nat /\ MaxEvent \in Nat /\ MaxChunk \in Nat /\ MaxStream \in Nat

VARIABLES
  parser, \* the fields of _SseParser, and whether feed has raised
  out,    \* the events feed has returned
  fed     \* every byte fed so far

vars == <<parser, out, fed>>

NoField == <<>>

\* The accumulated event is empty.
Blank == [name |-> NoField, data |-> <<>>, id |-> NoField]

Fresh == [buffer |-> <<>>, event |-> Blank, bytes |-> 0, raised |-> FALSE, events |-> <<>>]

Init == parser = Fresh /\ out = <<>> /\ fed = <<>>

\* A line without the CR of a CRLF.
Stripped(line) == IF line # <<>> /\ Last(line) = "CR" THEN Front(line) ELSE line

\* The event with one more line: a field replaces or extends, a comment or an
\* unknown field leaves no trace.
WithLine(event, line) ==
  CASE line[1] = "e" -> [event EXCEPT !.name = line]
    [] line[1] = "d" -> [event EXCEPT !.data = Append(@, line)]
    [] line[1] = "i" -> [event EXCEPT !.id = line]
    [] OTHER         -> event

\* _dispatch: a blank line with nothing accumulated is not an event.
Dispatch(p) ==
  IF p.event = Blank THEN p
  ELSE [p EXCEPT !.events = Append(@, p.event), !.event = Blank, !.bytes = 0]

\* _handle_line.
HandleLine(p, raw) ==
  LET bytes == p.bytes + Len(raw) IN
  IF raw = <<>> THEN Dispatch(p)
  ELSE IF bytes > MaxEvent THEN [p EXCEPT !.bytes = bytes, !.raised = TRUE]
  ELSE [p EXCEPT !.bytes = bytes, !.event = WithLine(@, raw)]

\* One turn of feed's loop, or the byte that brings it about.
Take(p, byte) ==
  IF p.raised THEN p
  ELSE IF byte # "LF" THEN [p EXCEPT !.buffer = Append(@, byte)]
  ELSE IF Len(p.buffer) > MaxLine THEN [p EXCEPT !.raised = TRUE]
  ELSE HandleLine([p EXCEPT !.buffer = <<>>], Stripped(p.buffer))

\* The parser after every byte of a chunk.
Swallow(p, chunk) ==
  LET after[n \in 0..Len(chunk)] == IF n = 0 THEN p ELSE Take(after[n - 1], chunk[n])
  IN after[Len(chunk)]

\* Mutated form: the rest of a chunk is dropped with the events it completed.
Feed_DropsRest(p, chunk) ==
  LET q == Swallow([p EXCEPT !.events = <<>>], chunk)
  IN IF q.events # <<>> THEN [q EXCEPT !.buffer = <<>>] ELSE q

\* feed: the events of the chunk, or _SseProtocolError and none of them.
Feed(p, chunk) ==
  LET q == Swallow([p EXCEPT !.events = <<>>], chunk)
  IN [q EXCEPT !.raised = @ \/ Len(q.buffer) > MaxLine]

FeedChunk ==
  /\ ~parser.raised
  /\ \E n \in 1..MaxChunk : \E chunk \in [1..n -> Letters] :
       /\ Len(fed) + n <= MaxStream
       /\ fed' = fed \o chunk
       /\ parser' = Feed(parser, chunk)
       /\ out' = IF parser'.raised THEN out ELSE out \o parser'.events

Spec == Init /\ [][FeedChunk]_vars

-----------------------------------------------------------------------------
(* What a stream means, however it is cut up                               *)

\* The positions of s that satisfy P, in order.
Positions(s, P(_)) == SelectSeq([k \in DOMAIN s |-> k], LAMBDA k : P(s[k]))

\* s cut at the positions `cuts`; what follows the last is the last piece.
Pieces(s, cuts) ==
  [p \in 1..(Len(cuts) + 1) |->
     SubSeq(s, IF p = 1 THEN 1 ELSE cuts[p - 1] + 1,
               IF p <= Len(cuts) THEN cuts[p] - 1 ELSE Len(s))]

\* Its lines; the last is unfinished.
LinesOf(s) == Pieces(s, Positions(s, LAMBDA b : b = "LF"))

\* Its blocks, the finished lines between two blank ones; the last is
\* unfinished.
BlocksOf(s) ==
  LET all   == LinesOf(s)
      lines == [j \in 1..(Len(all) - 1) |-> Stripped(all[j])]
  IN Pieces(lines, Positions(lines, LAMBDA line : line = <<>>))

EventOf(block) == FoldLeft(WithLine, Blank, block)
SizeOf(block)  == FoldLeft(LAMBDA n, line : n + Len(line), 0, block)

\* The events the finished blocks make.
EventsOf(s) ==
  LET blocks == BlocksOf(s)
  IN SelectSeq([b \in 1..(Len(blocks) - 1) |-> EventOf(blocks[b])], LAMBDA e : e # Blank)

\* A line or an event is over its limit.
TooLong(s) ==
  \/ \E line \in Range(LinesOf(s)) : Len(line) > MaxLine
  \/ \E block \in Range(BlocksOf(s)) : SizeOf(block) > MaxEvent

-----------------------------------------------------------------------------
(* Properties                                                              *)

\* What a parser keeps stays within the limits, whatever it is fed.
TypeOK ==
  /\ parser.raised \in BOOLEAN /\ parser.bytes \in Nat
  /\ fed \in Seq(Letters) /\ parser.buffer \in Seq(Letters)
  /\ ~parser.raised => Len(parser.buffer) <= MaxLine /\ parser.bytes <= MaxEvent

\* The events returned are those of the stream, wherever the network cut it;
\* when feed has raised, a prefix of them.
CuttingDoesNotMatter ==
  IF parser.raised THEN IsPrefix(out, EventsOf(fed)) ELSE out = EventsOf(fed)

\* Wherever the network cut it, the parser is where it would be had the stream
\* come in one chunk; it raises for the same streams, if not at the same byte.
AsFedAtOnce ==
  LET whole == Feed(Fresh, fed)
  IN /\ parser.raised = whole.raised
     /\ IF parser.raised THEN IsPrefix(out, whole.events)
        ELSE out = whole.events /\ [parser EXCEPT !.events = whole.events] = whole

\* feed raises for a stream with a line or an event over its limit.
LimitsEnforced == TooLong(fed) => parser.raised

\* Comments and fields no event has.
Ignored(s) == {line \in Range(LinesOf(s)) :
                 Stripped(line) # <<>> /\ Stripped(line)[1] \notin {"e", "d", "i"}}

\* And if every line is a field of an event, it raises only for such a stream.
FieldsAreNotBlamed == parser.raised /\ Ignored(fed) = {} => TooLong(fed)

=============================================================================
