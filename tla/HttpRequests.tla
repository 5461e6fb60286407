----------------------------- MODULE HttpRequests -----------------------------
(***************************************************************************)
(* Two readers of one header block.  HttpTransport::read_request scans for *)
(* the Content-Length before it reads the body, and parse_http_request     *)
(* parses the whole capture afterwards.  Header lines are of a few kinds;  *)
(* a Content-Length is a sequence of digits, of base 2, in a word of Word  *)
(* values.                                                                 *)
(***************************************************************************)
EXTENDS Integers, Sequences, SequencesExt

CONSTANTS
  Word,                \* size_t wraps around at Word
  MaxBody,             \* max_body_bytes
  MaxDigits, MaxLines  \* bounds of the inputs

RequestsAssumption ==
  /\ {Word, MaxBody, MaxDigits, MaxLines} \subseteq Nat \ {0}
  /\ 2 * MaxBody + 1 < Word

VARIABLES
  line,                \* the kind of the request line
  lines,               \* the header lines
  sent                 \* bytes the client has for the body

vars == <<line, lines, sent>>

NotDigit == 2

Numerals == BoundedSeq(0..NotDigit, MaxDigits)

(* A Content-Length line, a Transfer-Encoding line, another header, a line *)
(* without a colon and one without a name.                                 *)
HeaderLines == [name : {"content-length"}, value : Numerals]
                 \cup [name : {"transfer-encoding", "other", "", "none"},
                       value : {<<>>}]

RequestLines == {"ok", "malformed", "version", "method", "target"}

Init == /\ line \in RequestLines
        /\ lines \in BoundedSeq(HeaderLines, MaxLines)
        /\ sent \in 0..2 * MaxBody + 1

Next == UNCHANGED vars

AllDigits(v) == \A i \in DOMAIN v : v[i] # NotDigit

Wrapping(v) == FoldLeft(LAMBDA n, d : (2 * n + d) % Word, 0, v)

(* The scan: no line refuses but one that is over the limit, malformed     *)
(* numbers are skipped, and the last Content-Length counts.                *)
Scan ==
  LET look(acc, h) ==
        IF acc.over \/ h.name # "content-length" \/ h.value = <<>>
             \/ ~AllDigits(h.value)
        THEN acc
        ELSE IF Wrapping(h.value) > MaxBody THEN [acc EXCEPT !.over = TRUE]
        ELSE [acc EXCEPT !.length = Wrapping(h.value)]
  IN  FoldLeft(look, [length |-> 0, over |-> FALSE], lines)

(* Mutant of Capped: the limit is looked at when the number is complete.   *)
CappedAtEnd(v) == Wrapping(v)

(* The parser's number: it stops at the first digit that is over the limit.*)
Capped(v) ==
  FoldLeft(LAMBDA n, d : IF n > MaxBody THEN n ELSE 2 * n + d, 0, v)

(* The parser's headers: the first line that is refused decides.           *)
ParseHeader(acc, h) ==
  LET refuse(status) == [acc EXCEPT !.status = status]
  IN  IF acc.status # 200 THEN acc
      ELSE CASE h.name \in {"", "none"} -> refuse(400)
             [] h.name = "transfer-encoding" -> refuse(415)
             [] h.name = "content-length"
                  /\ (acc.set \/ h.value = <<>> \/ ~AllDigits(h.value)) ->
                  refuse(400)
             [] h.name = "content-length" /\ ~acc.set /\ h.value # <<>>
                  /\ AllDigits(h.value) ->
                  IF Capped(h.value) > MaxBody THEN refuse(413)
                  ELSE [acc EXCEPT !.length = Capped(h.value), !.set = TRUE]
             [] OTHER -> acc

(* parse_http_request on the header block and a body of so many bytes.     *)
Parse(available) ==
  LET start == [status |-> IF line = "ok" THEN 200 ELSE 400,
                length |-> 0, set |-> FALSE]
      headers == FoldLeft(ParseHeader, start, lines)
  IN  IF headers.status = 200 /\ available < headers.length
      THEN [headers EXCEPT !.status = 400]
      ELSE headers

(* What the connection is answered when nothing of the body came with the  *)
(* headers: 0 for a connection that is closed.                             *)
Answer == CASE Scan.over -> 413
            [] ~Scan.over /\ sent < Scan.length -> 0
            [] OTHER -> Parse(Scan.length).status
-----------------------------------------------------------------------------
Value(v) == FoldLeft(LAMBDA n, d : 2 * n + d, 0, v)

Declared == {i \in DOMAIN lines : lines[i].name = "content-length"}

(* A request that is accepted has one Content-Length at most, and its body *)
(* is as long as that number says as an integer, however many digits it    *)
(* has: neither reader can be led to another length by a number that wraps *)
(* around or by a second header.                                           *)
LengthExact ==
  Answer = 200 =>
    /\ \A i, j \in Declared : i = j
    /\ \A i \in Declared : Parse(Scan.length).length = Value(lines[i].value)
    /\ Parse(Scan.length).length = Scan.length

(* The scan only refuses what the parser refuses: reading ahead never      *)
(* turns a request away that would be answered.                            *)
ScanRefusesLess == Scan.over => Parse(2 * MaxBody + 1).status # 200
=============================================================================
