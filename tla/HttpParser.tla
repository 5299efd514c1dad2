------------------------------ MODULE HttpParser ------------------------------
(***************************************************************************)
(* phr_parse_request of httpParser/HttpParser.c as the proxy calls it: on  *)
(* the whole request, with last_len 0.                                     *)
(*                                                                         *)
(* The bytes are abstracted to what the parser tells apart: blank, CR, LF, *)
(* colon, any other control character, the version HTTP/1.<digit>, and     *)
(* words, which consist of characters a header name may have.  A tab, a    *)
(* blank in a header and a control character outside of one, is left out.  *)
(*                                                                         *)
(* The parser looks at memory, not at a sequence: m is the request with    *)
(* what follows it in memory, e the position of its last symbol.  A        *)
(* position beyond e + 1 passes for one inside, because CHECK_EOF compares *)
(* with ==.  An operator that gives a position gives -1 or -2 instead when *)
(* the parser stops.                                                       *)
(***************************************************************************)
EXTENDS Integers, Sequences, FiniteSets, SequencesExt

CONSTANTS Words,      \* words other than "Host" and "Connection"
          MaxHeaders  \* the number of elements of HttpRequest::headers

Names == Words \cup {"Host", "Connection"}
Controls == {"CR", "LF", "CTL"}
Symbols == Names \cup Controls \cup {"SP", "COLON", "VERSION"}

ASSUME ParserAssumption == /\ MaxHeaders \in Nat
                           /\ Words \cap ({"Host", "Connection", "SP", "COLON", "VERSION"}
                                              \cup Controls) = {}

Failed == -1
Partial == -2

(* What a symbol counts in the one place where the parser counts bytes.   *)
Width(symbol) == IF symbol = "VERSION" THEN 8
                 ELSE IF symbol = "Connection" THEN 10
                 ELSE IF symbol = "Host" THEN 4 ELSE 1

MaxWidth == 10

(* The bytes from p to e, each as its symbol's position and its own.       *)
Bytes(m, p, e) == {byte \in (p .. e) \X (1 .. MaxWidth) : byte[2] <= Width(m[byte[1]])}

(* The first position from p on with a symbol of S. *)
FirstOf(m, p, S) == SelectInSubSeq(m, p, Len(m), LAMBDA symbol : symbol \in S)

SkipBlanks(m, p) == FirstOf(m, p, Symbols \ {"SP"})

(* The position behind the line end at p. *)
EndOfLine(m, e, p) == IF m[p] = "LF" THEN p + 1
                      ELSE IF m[p] # "CR" THEN Failed
                      ELSE IF p = e THEN Partial
                      ELSE IF m[p + 1] = "LF" THEN p + 2 ELSE Failed

(* ADVANCE_TOKEN: the position of the blank that ends the token at p. *)
AdvanceToken(m, e, p) == LET stop == FirstOf(m, p, Controls \cup {"SP"})
                         IN IF p <= e + 1 /\ stop > e THEN Partial
                            ELSE IF m[stop] = "SP" THEN stop ELSE Failed

(* The position behind the version and the end of the request line. *)
parse_http_version(m, e, p) == IF Cardinality(Bytes(m, p, e)) < 9 THEN Partial
                               ELSE IF m[p] # "VERSION" THEN Failed
                               ELSE EndOfLine(m, e, p + 1)
-----------------------------------------------------------------------------
(* Headers.  A NULL pointer is the empty sequence: where the parser sets a *)
(* pointer to an empty token, it fails.                                    *)

(* The value from p, without the blanks at its end. *)
TrimBlanks(m, p, stop) ==
    SubSeq(m, p, SelectLastInSubSeq(m, 1, stop - 1, LAMBDA symbol : symbol # "SP"))

(* The value from p to the end of the line, and the position behind it. *)
get_token_to_eol(m, e, p) ==
    LET eol == FirstOf(m, p, Controls)
    IN IF eol > e THEN [next |-> Partial, value |-> << >>]
       ELSE [next |-> EndOfLine(m, e, eol), value |-> TrimBlanks(m, p, eol)]

Line(name, token) == [next |-> token.next, header |-> [name |-> name, value |-> token.value]]

NoLine(ret) == Line(<< >>, [next |-> ret, value |-> << >>])

(* A header that begins at p, whose name is followed by the symbol at colon. *)
NamedLine(m, e, p, colon) ==
    IF colon > e THEN NoLine(Partial)
    ELSE IF m[colon] # "COLON" \/ colon = p THEN NoLine(Failed)
    ELSE IF SkipBlanks(m, colon + 1) > e THEN NoLine(Partial)
    ELSE Line(SubSeq(m, p, colon - 1), get_token_to_eol(m, e, SkipBlanks(m, colon + 1)))

(* One header at p, where a line that begins with a blank continues the    *)
(* one before it, if there is one.                                         *)
Header(m, e, p, first) ==
    IF ~first /\ m[p] = "SP" THEN Line(<< >>, get_token_to_eol(m, e, p))
    ELSE NamedLine(m, e, p, FirstOf(m, p, Symbols \ Names))

(* One turn of the loop: read has the headers so far and the position of  *)
(* the next, or why the parser has stopped.  It goes on unless that is the *)
(* end, or an empty line.                                                  *)
ReadHeader(m, e, read) ==
    LET line == Header(m, e, read.next, read.headers = << >>)
    IN IF read.next \notin 1 .. e \/ m[read.next] \in {"CR", "LF"} THEN read
       ELSE IF line.next < 0 THEN [read EXCEPT !.next = line.next]
       ELSE [next |-> line.next, headers |-> Append(read.headers, line.header)]

ReadHeaders(m, e, start) ==
    LET Read[n \in 0 .. MaxHeaders] ==
            IF n = 0 THEN [next |-> start, headers |-> << >>]
            ELSE ReadHeader(m, e, Read[n - 1])
    IN Read[MaxHeaders]

(* The loop ends at an empty line, or fails there if a header follows that *)
(* is one too many.                                                        *)
EndOfHeaders(m, e, p) == IF p < 0 THEN p
                         ELSE IF p > e THEN Partial ELSE EndOfLine(m, e, p)

(* num_headers counts the complete headers, whatever ends the loop.        *)
parse_headers(m, e, start) ==
    LET read == ReadHeaders(m, e, start)
    IN [ret |-> EndOfHeaders(m, e, read.next), headers |-> read.headers]
-----------------------------------------------------------------------------
Result(ret, method, path, headers) ==
    [ret |-> ret, method |-> method, path |-> path, headers |-> headers]

(* The request line and the headers: what is read when the method stops at *)
(* stop, when the path does, and when the line ends before rest; a negative *)
(* position is where the parser gives up.  Both runs of blanks are skipped  *)
(* without a test for the end.                                              *)
parse_rest(m, e, method, path, rest) ==
    IF << >> \in {method, path} THEN Result(Failed, method, path, << >>)
    ELSE IF rest < 0 THEN Result(rest, method, path, << >>)
    ELSE LET read == parse_headers(m, e, rest)
         IN Result(read.ret, method, path, read.headers)

parse_path(m, e, method, start, stop) ==
    IF stop < 0 THEN Result(stop, method, << >>, << >>)
    ELSE parse_rest(m, e, method, SubSeq(m, start, stop - 1),
                    parse_http_version(m, e, SkipBlanks(m, stop)))

parse_request(m, e, start, stop) ==
    IF stop < 0 THEN Result(stop, << >>, << >>, << >>)
    ELSE parse_path(m, e, SubSeq(m, start, stop - 1), SkipBlanks(m, stop),
                    AdvanceToken(m, e, SkipBlanks(m, stop)))

(* An empty line may come before the request. *)
SkipEmptyLine(m, e) == IF m[1] \in {"CR", "LF"} THEN EndOfLine(m, e, 1) ELSE 1

ParseFrom(m, e, start) ==
    IF start < 0 THEN Result(start, << >>, << >>, << >>)
    ELSE parse_request(m, e, start, AdvanceToken(m, e, start))

(* What the call returns and stores: ret is the position behind the        *)
(* request if it is complete.                                              *)
phr_parse_request(request, behind) ==
    IF request = << >> THEN Result(Partial, << >>, << >>, << >>)
    ELSE ParseFrom(request \o behind, Len(request),
                   SkipEmptyLine(request \o behind, Len(request)))
=============================================================================
