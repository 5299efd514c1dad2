----------------------------- MODULE ClientRequest -----------------------------
(***************************************************************************)
(* How a client thread reads a request, up to the point where its cache    *)
(* node is looked up: getDataFromClient, isEndOfRequest, parseHttpRequest  *)
(* and the ends of ClientConnectionHandler::handle.                        *)
(*                                                                         *)
(* stream is what the client has to say, cut into pieces by recv as it     *)
(* likes; it may close its side, or lose the connection, after any piece.  *)
(* pc = "fetch" is where CacheStream goes on with AcceptRequest, the other *)
(* ends are its RejectRequest.                                             *)
(***************************************************************************)
EXTENDS HttpParser

CONSTANTS Streams,  \* what clients send, sequences of symbols
          Behinds   \* what may lie behind clientRequest in memory

ASSUME RequestAssumption ==
    /\ Streams \subseteq Seq(Symbols)
    /\ Behinds \subseteq Seq(Symbols)
    /\ \A b \in Behinds : Len(b) > 0 /\ b[Len(b)] = "CTL"

VARIABLES stream,         \* what the client sends, if it gets that far
          got,            \* how much of it recv has returned
          recvCount,      \* what the last recv returned, 4 for any more
          clientRequest,
          behind,         \* what lies behind clientRequest when it is parsed
          reqSize,        \* what the parser returned
          request,        \* the fields of HttpRequest
          pc

vars == <<stream, got, recvCount, clientRequest, behind, reqSize, request, pc>>

Answered == {"fetch", "badRequest", "internalError", "dropped"}

NoRequest == [method |-> << >>, path |-> << >>, host |-> << >>, headers |-> << >>]

Init == /\ stream \in Streams
        /\ got = 0
        /\ recvCount = 0
        /\ clientRequest = << >>
        /\ behind \in Behinds
        /\ reqSize = 0
        /\ request = NoRequest
        /\ pc = "recv"
-----------------------------------------------------------------------------
(* getDataFromClient.                                                      *)

EndMark == <<"CR", "LF", "CR", "LF">>

(* Mutant of IsEndOfRequest: an empty line is enough. *)
IsEndOfLine(buffer) == {Len(buffer) >= 2 /\ IsSuffix(<<"CR", "LF">>, buffer)}

(* Mutant of IsEndOfRequest: a buffer that is the mark alone is overlooked. *)
IsEndOfLongBuffer(buffer) == {Len(buffer) > 4 /\ IsSuffix(EndMark, buffer)}

(* The answers isEndOfRequest may give.  It looks at the last four bytes;  *)
(* with fewer, it reads what is in memory before the buffer.               *)
IsEndOfRequest(buffer) == IF Len(buffer) >= 4 THEN {IsSuffix(EndMark, buffer)}
                          ELSE IF IsSuffix(buffer, EndMark) THEN BOOLEAN
                          ELSE {FALSE}

(* Mutant of Recv: a buffer replaces the one before. *)
RecvOverwrites == /\ pc = "recv"
                  /\ \E n \in 1 .. Len(stream) - got :
                         LET buffer == SubSeq(stream, got + 1, got + n)
                         IN /\ got' = got + n
                            /\ recvCount' = Min({n, 4})
                            /\ clientRequest' = buffer
                            /\ \E end \in IsEndOfRequest(buffer) :
                                   pc' = IF end THEN "parse" ELSE "recv"
                  /\ UNCHANGED <<stream, behind, reqSize, request>>

Recv == /\ pc = "recv"
        /\ \E n \in 1 .. Len(stream) - got :
               LET buffer == SubSeq(stream, got + 1, got + n)
               IN /\ got' = got + n
                  /\ recvCount' = Min({n, 4})
                  /\ clientRequest' = clientRequest \o buffer
                  /\ \E end \in IsEndOfRequest(buffer) :
                         pc' = IF end THEN "parse" ELSE "recv"
        /\ UNCHANGED <<stream, behind, reqSize, request>>

(* Mutant of RecvEnd: the closing counts as something received. *)
RecvEndCounted == /\ pc = "recv"
                  /\ got' = got + 1
                  /\ recvCount' = 0
                  /\ pc' = "parse"
                  /\ UNCHANGED <<stream, clientRequest, behind, reqSize, request>>

(* The client has closed its side of the connection: recv returns 0. *)
RecvEnd == /\ pc = "recv"
           /\ recvCount' = 0
           /\ pc' = "parse"
           /\ UNCHANGED <<stream, got, clientRequest, behind, reqSize, request>>

RecvFails == /\ pc = "recv"
             /\ pc' = "internalError"
             /\ UNCHANGED <<stream, got, recvCount, clientRequest, behind, reqSize, request>>
-----------------------------------------------------------------------------
(* parseHttpRequest, checkRequest (which refuses no method: none is GET    *)
(* and HEAD at once) and the assignment of URL.                            *)

IsConnection(header) == header.name = <<"Connection">>

(* The last header of that name counts. *)
Host(headers) ==
    LET last == SelectLastInSeq(headers, LAMBDA header : header.name = <<"Host">>)
    IN IF last = 0 THEN << >> ELSE headers[last].value

(* The line that is appended for a header, if any. *)
HeaderLine(header) ==
    IF IsConnection(header) THEN << >>
    ELSE header.name \o <<"COLON", "SP">> \o header.value \o <<"CR", "LF">>

(* Mutant of NewRequest: the request line has no end of its own. *)
NewRequestOneLine(method, path, headers) ==
    method \o <<"SP">> \o path \o <<"SP", "VERSION">>
        \o FlattenSeq([i \in DOMAIN headers |-> HeaderLine(headers[i])])
        \o <<"CR", "LF">> \o EndMark

(* What is sent to the server; it ends in one line end too many. *)
NewRequest(method, path, headers) ==
    method \o <<"SP">> \o path \o <<"SP", "VERSION", "CR", "LF">>
        \o FlattenSeq([i \in DOMAIN headers |-> HeaderLine(headers[i])])
        \o EndMark

(* A NULL pointer becomes a string: the path that was never reached, the   *)
(* name of a line that continues a header.  The constructor throws.        *)
HasNull(result) ==
    result.path = << >> \/ \E i \in DOMAIN result.headers : result.headers[i].name = << >>

Outcome(result) == IF result.ret = Failed THEN "badRequest"
                   ELSE IF HasNull(result) THEN "dropped" ELSE "fetch"

Fields(result) == [method |-> result.method, path |-> result.path,
                   host |-> Host(result.headers), headers |-> result.headers]

ParseRequest ==
    /\ pc = "parse"
    /\ \E result \in {phr_parse_request(clientRequest, behind)} :
          /\ reqSize' = result.ret
          /\ pc' = Outcome(result)
          /\ IF pc' = "fetch"
             THEN /\ request' = Fields(result)
                  /\ clientRequest' = NewRequest(result.method, result.path, result.headers)
             ELSE UNCHANGED <<request, clientRequest>>
    /\ UNCHANGED <<stream, got, recvCount, behind>>

Done == pc \in Answered /\ UNCHANGED vars

Next == Recv \/ RecvEnd \/ RecvFails \/ ParseRequest \/ Done

Spec == Init /\ [][Next]_vars
-----------------------------------------------------------------------------
TypeOK == /\ stream \in Streams
          /\ got \in 0 .. Len(stream)
          /\ recvCount \in 0 .. 4
          /\ clientRequest \in Seq(Symbols)
          /\ behind \in Behinds
          /\ reqSize \in Int
          /\ DOMAIN request = DOMAIN NoRequest
          /\ pc \in Answered \cup {"recv", "parse"}

Received == SubSeq(stream, 1, got)

(* The parser went past the end of the request: the method is the last     *)
(* thing in it, and blanks lie behind.                                     *)
ReadBeyond == /\ got > 0 /\ stream[got] = "SP"
              /\ behind[1] = "SP"

ForwardedHeaders(headers) ==
    FlattenSeq([i \in DOMAIN headers |->
                    IF IsConnection(headers[i]) THEN << >> ELSE <<headers[i]>>])

(* What the proxy sends to the server is a complete request, and the same  *)
(* parser reads in it what it read in the client's: method, path and all   *)
(* headers but Connection, whatever the client left out or had too much    *)
(* of.                                                                     *)
ForwardedIsSame ==
    pc = "fetch" =>
        \E again \in {phr_parse_request(clientRequest, <<"CTL">>)} :
            /\ again.ret > 0
            /\ Fields(again) = [request EXCEPT !.headers = ForwardedHeaders(@)]

(* Where recv cuts the stream, and where reading stops, makes no           *)
(* difference to a request that is complete or refused: it is what the     *)
(* parser makes of all the client has to say.                              *)
CutsDoNotMatter ==
    \E whole \in {phr_parse_request(stream, <<"CTL">>)} :
        /\ pc = "fetch" /\ reqSize > 0 => reqSize = whole.ret /\ request = Fields(whole)
        /\ pc = "badRequest" /\ ~ReadBeyond => whole.ret = Failed

(* A version ends a line of the request. *)
HasVersion(symbols) ==
    \E i \in 2 .. Len(symbols) - 1 : /\ symbols[i] = "VERSION" /\ symbols[i - 1] = "SP"
                                     /\ symbols[i + 1] \in {"CR", "LF"}

(* An incomplete request gets through to the server only if the client     *)
(* closed its side (the last recv returned 0), or the last recv returned   *)
(* so little that isEndOfRequest looked at something else, or no version   *)
(* was sent.                                                               *)
PartialExplained ==
    pc = "fetch" /\ reqSize = Partial =>
        recvCount < 4 \/ ~HasVersion(Received)

(* A client all of whose bytes have arrived, the last of them CR LF CR LF, *)
(* is waited for in turn only if the last recv returned less than that     *)
(* mark.  It says nothing of requests that end otherwise: one with a body  *)
(* behind the mark, or with bare LFs, is waited for in any case.           *)
EndIsSeen == pc = "recv" /\ IsSuffix(EndMark, Received) => recvCount < 4

(* "returns number of bytes consumed if successful, -2 if request is       *)
(* partial" (httpParser/HttpParser.h:49): a request the parser calls       *)
(* partial is not taken for a request.                                     *)
PartialIsRefused == pc = "fetch" => reqSize # Partial

(* "name == NULL if is a continuing line of a multiline header"            *)
(* (httpParser/HttpParser.h:40): a complete request is answered, whether   *)
(* or not one of its headers has several lines.                            *)
MultilineIsAnswered == pc = "dropped" => reqSize = Partial
=============================================================================
