------------------------- MODULE ClientRequest_proofs -------------------------
(***************************************************************************)
(* What holds of the reading of a request whatever clients send, however   *)
(* recv cuts it and whatever lies behind it in memory; and that what is    *)
(* put together for the server is read as the client's request was.        *)
(***************************************************************************)
EXTENDS ClientRequest, HttpParser_proofs

(* IsSuffix is by way of the sequences reversed.                           *)
LEMMA Reversed ==
    ASSUME NEW S, NEW s \in Seq(S)
    PROVE  /\ Reverse(s) \in Seq(S)
           /\ Len(Reverse(s)) = Len(s)
           /\ \A i \in 1 .. Len(s) : Reverse(s)[i] = s[Len(s) - i + 1]
<1>1. Len(s) \in Nat /\ \A i \in 1 .. Len(s) : s[i] \in S
  BY LenProperties, ElementOfSeq
<1>2. \A i \in 1 .. Len(s) : Len(s) - i + 1 \in 1 .. Len(s)
  BY <1>1
<1>3. Reverse(s) \in [1 .. Len(s) -> S]
  BY <1>1, <1>2 DEF Reverse
<1> QED BY <1>1, <1>3, SeqDef, LenProperties DEF Reverse

(* Whether a sequence ends in the mark shows in its last four elements.    *)
LEMMA EndOfSequence ==
    ASSUME NEW S, NEW s \in Seq(S)
    PROVE  IsSuffix(EndMark, s) <=>
               /\ Len(s) >= 4
               /\ \A i \in 1 .. 4 : s[Len(s) - 4 + i] = EndMark[i]
<1> DEFINE r == Reverse(s)
           e == Reverse(EndMark)
<1>1. Len(s) \in Nat /\ Len(EndMark) = 4 /\ EndMark \in Seq({"CR", "LF"})
  BY DEF EndMark
<1>2. /\ r \in Seq(S) /\ Len(r) = Len(s) /\ \A i \in 1 .. Len(s) : r[i] = s[Len(s) - i + 1]
      /\ e \in Seq({"CR", "LF"}) /\ Len(e) = 4 /\ \A i \in 1 .. 4 : e[i] = EndMark[4 - i + 1]
  BY <1>1, Reversed
<1>3. CASE Len(s) < 4
  BY <1>1, <1>2, <1>3 DEF IsSuffix, IsPrefix
<1>4. CASE Len(s) >= 4
  <2>1. /\ Len(SubSeq(r, 1, 4)) = 4 /\ \A i \in 1 .. 4 : SubSeq(r, 1, 4)[i] = r[i]
        /\ Len(SubSeq(e, 1, 4)) = 4 /\ \A i \in 1 .. 4 : SubSeq(e, 1, 4)[i] = e[i]
    BY <1>1, <1>2, <1>4, SubSeqProperties
  <2>2. SubSeq(e, 1, 4) = SubSeq(r, 1, 4) <=> \A i \in 1 .. 4 : e[i] = r[i]
    BY <1>1, <1>2, <1>4, <2>1
  <2>3. (\A i \in 1 .. 4 : e[i] = r[i]) <=> \A i \in 1 .. 4 : s[Len(s) - 4 + i] = EndMark[i]
    BY <1>1, <1>2, <1>4
  <2> QED BY <1>1, <1>2, <1>4, <2>2, <2>3 DEF IsSuffix, IsPrefix
<1> QED BY <1>1, <1>3, <1>4

(* A buffer of four symbols or more shows the end of what was received.    *)
LEMMA EndOfBuffer ==
    ASSUME NEW S, NEW s \in Seq(S), NEW g \in Nat, NEW n \in Nat, n >= 4, g + n <= Len(s)
    PROVE  /\ Len(SubSeq(s, g + 1, g + n)) = n
           /\ IsSuffix(EndMark, SubSeq(s, 1, g + n)) <=>
                  IsSuffix(EndMark, SubSeq(s, g + 1, g + n))
<1> DEFINE buffer == SubSeq(s, g + 1, g + n)
           received == SubSeq(s, 1, g + n)
<1>1. /\ buffer \in Seq(S) /\ Len(buffer) = n
      /\ \A i \in 1 .. n : buffer[i] = s[g + i]
  BY SubSeqProperties
<1>2. /\ received \in Seq(S) /\ Len(received) = g + n
      /\ \A i \in 1 .. g + n : received[i] = s[i]
  BY SubSeqProperties
<1>3. ASSUME NEW i \in 1 .. 4
      PROVE  received[g + n - 4 + i] = buffer[n - 4 + i]
  <2>1. n - 4 + i \in 1 .. n /\ g + n - 4 + i \in 1 .. g + n /\ g + (n - 4 + i) = g + n - 4 + i
    OBVIOUS
  <2> QED BY <1>1, <1>2, <2>1
<1> HIDE DEF received, buffer
<1>4. IsSuffix(EndMark, received) <=> \A i \in 1 .. 4 : received[g + n - 4 + i] = EndMark[i]
  <2>1. IsSuffix(EndMark, received) <=>
            /\ Len(received) >= 4
            /\ \A i \in 1 .. 4 : received[Len(received) - 4 + i] = EndMark[i]
    BY <1>2, EndOfSequence
  <2> QED BY <1>2, <2>1
<1>5. IsSuffix(EndMark, buffer) <=> \A i \in 1 .. 4 : buffer[n - 4 + i] = EndMark[i]
  <2>1. IsSuffix(EndMark, buffer) <=>
            /\ Len(buffer) >= 4
            /\ \A i \in 1 .. 4 : buffer[Len(buffer) - 4 + i] = EndMark[i]
    BY <1>1, EndOfSequence
  <2> QED BY <1>1, <2>1
<1>6. IsSuffix(EndMark, received) <=> IsSuffix(EndMark, buffer)
  BY <1>3, <1>4, <1>5
<1> QED BY <1>1, <1>6 DEF received, buffer

(* A buffer of four symbols or more is judged for what it is, so the end   *)
(* is missed only if the last buffer was shorter.                          *)
Reading == /\ stream \in Seq(Symbols)
           /\ got \in 0 .. Len(stream)
           /\ EndIsSeen

LEMMA InitReading == Init => Reading
<1> SUFFICES ASSUME Init PROVE Reading
  OBVIOUS
<1>1. stream \in Seq(Symbols) /\ got = 0 /\ Len(stream) \in Nat /\ recvCount = 0
  BY RequestAssumption, LenProperties DEF Init
<1> QED BY <1>1 DEF Reading, EndIsSeen

LEMMA ReadingStep == Reading /\ [Next]_vars => Reading'
<1> SUFFICES ASSUME Reading, [Next]_vars PROVE Reading'
  OBVIOUS
<1>1. Len(stream) \in Nat /\ stream' = stream /\ stream \in Seq(Symbols)
  BY DEF Reading, Next, Recv, RecvEnd, RecvFails, ParseRequest, Done, vars
<1>2. CASE Recv
  <2>1. PICK n \in 1 .. Len(stream) - got :
               /\ got' = got + n
               /\ recvCount' = Min({n, 4})
               /\ \E end \in IsEndOfRequest(SubSeq(stream, got + 1, got + n)) :
                      pc' = IF end THEN "parse" ELSE "recv"
    BY <1>2 DEF Recv
  <2>2. n \in Nat /\ got \in Nat /\ got + n <= Len(stream) /\ got' \in 0 .. Len(stream)
    BY <1>1, <2>1 DEF Reading
  <2>3. CASE n < 4
    <3>1. recvCount' = n
      BY <2>1, <2>2, <2>3 DEF Min
    <3> QED BY <1>1, <2>2, <2>3, <3>1 DEF Reading, EndIsSeen
  <2>4. ASSUME n >= 4, pc' = "recv"
        PROVE  ~IsSuffix(EndMark, SubSeq(stream, 1, got + n))
    <3>1. /\ Len(SubSeq(stream, got + 1, got + n)) = n
          /\ IsSuffix(EndMark, SubSeq(stream, 1, got + n)) <=>
                 IsSuffix(EndMark, SubSeq(stream, got + 1, got + n))
      BY <1>1, <2>2, <2>4, EndOfBuffer
    <3>2. IsEndOfRequest(SubSeq(stream, got + 1, got + n)) =
              {IsSuffix(EndMark, SubSeq(stream, got + 1, got + n))}
      BY <2>4, <3>1 DEF IsEndOfRequest
    <3> QED BY <2>1, <2>4, <3>1, <3>2
  <2>5. CASE n >= 4
    BY <1>1, <2>1, <2>2, <2>4, <2>5 DEF Reading, EndIsSeen, Received
  <2> QED BY <2>2, <2>3, <2>5
<1>3. CASE RecvEnd \/ RecvFails
  BY <1>1, <1>3 DEF RecvEnd, RecvFails, Reading, EndIsSeen
<1>4. CASE ParseRequest
  <2>1. pc' = Outcome(phr_parse_request(clientRequest, behind)) /\ got' = got
    BY <1>4 DEF ParseRequest
  <2>2. pc' # "recv"
    BY <2>1 DEF Outcome
  <2> QED BY <1>1, <2>1, <2>2 DEF Reading, EndIsSeen
<1>5. CASE Done \/ UNCHANGED vars
  BY <1>1, <1>5 DEF Done, vars, Reading, EndIsSeen, Received
<1> QED BY <1>2, <1>3, <1>4, <1>5 DEF Next

(* When everything that has arrived ends in CR LF CR LF, getDataFromClient *)
(* waits for more only if the last recv returned less than that mark; of a *)
(* request that ends otherwise (a body, bare LFs) nothing is said.         *)
THEOREM WholeRequestSeen == Spec => []EndIsSeen
<1>1. Reading => EndIsSeen
  BY DEF Reading
<1> QED BY <1>1, InitReading, ReadingStep, PTL DEF Spec
-----------------------------------------------------------------------------
(* What the parser is given, and makes of it.                              *)
Parsed == phr_parse_request(Received, behind)

(* What is kept of the state until the request is answered: clientRequest  *)
(* has everything received, in order, a last buffer of four symbols or     *)
(* more led to the parser only with the mark, and the outcome is the one   *)
(* the parser has for all that was received.                               *)
Parsing == /\ Reading
           /\ behind \in Behinds
           /\ recvCount \in 0 .. 4
           /\ pc \in {"recv", "parse"} => clientRequest = Received
           /\ pc \in {"parse", "fetch"} /\ recvCount = 4 => IsSuffix(EndMark, Received)
           /\ pc = "fetch" => reqSize = Parsed.ret /\ request = Fields(Parsed)
           /\ pc = "badRequest" => Parsed.ret = Failed

(* clientRequest.append puts the buffer where the stream has it.           *)
LEMMA OneBufferMore ==
    ASSUME NEW S, NEW s \in Seq(S), NEW g \in Nat, NEW n \in Nat, g + n <= Len(s)
    PROVE  SubSeq(s, 1, g) \o SubSeq(s, g + 1, g + n) = SubSeq(s, 1, g + n)
<1> DEFINE t == SubSeq(s, 1, g)
           u == SubSeq(s, g + 1, g + n)
           v == SubSeq(s, 1, g + n)
<1>1. Len(s) \in Nat
  BY LenProperties
<1>2. t \in Seq(S) /\ Len(t) = g /\ \A i \in 1 .. g : t[i] = s[i]
  BY <1>1, SubSeqProperties
<1>3. u \in Seq(S) /\ Len(u) = n /\ \A i \in 1 .. n : u[i] = s[g + i]
  BY <1>1, SubSeqProperties
<1>4. v \in Seq(S) /\ Len(v) = g + n /\ \A i \in 1 .. g + n : v[i] = s[i]
  BY <1>1, SubSeqProperties
<1> HIDE DEF t, u, v
<1>5. /\ t \o u \in Seq(S) /\ Len(t \o u) = g + n
      /\ \A i \in 1 .. g + n : (t \o u)[i] = IF i <= g THEN t[i] ELSE u[i - g]
  BY <1>2, <1>3, ConcatProperties
<1>6. ASSUME NEW i \in 1 .. g + n
      PROVE  (t \o u)[i] = v[i]
  <2>1. CASE i <= g
    BY <1>2, <1>4, <1>5, <2>1
  <2>2. CASE ~(i <= g)
    <3>1. i - g \in 1 .. n /\ g + (i - g) = i
      BY <2>2
    <3> QED BY <1>3, <1>4, <1>5, <2>2, <3>1
  <2> QED BY <2>1, <2>2
<1> QED BY <1>4, <1>5, <1>6, SeqEqual DEF t, u, v

LEMMA InitParsing == Init => Parsing
<1> SUFFICES ASSUME Init PROVE Parsing
  OBVIOUS
<1>1. /\ Reading /\ behind \in Behinds /\ recvCount = 0 /\ clientRequest = << >> /\ got = 0
      /\ pc = "recv" /\ stream \in Seq(Symbols)
  BY InitReading DEF Init, Reading
<1>2. Received = << >>
  BY <1>1 DEF Received
<1> QED BY <1>1, <1>2 DEF Parsing

LEMMA RecvParsing == Parsing /\ Recv => Parsing'
<1> SUFFICES ASSUME Parsing, Recv PROVE Parsing'
  OBVIOUS
<1>1. Reading' /\ behind' \in Behinds /\ stream' = stream /\ stream \in Seq(Symbols)
      /\ Len(stream) \in Nat /\ got \in 0 .. Len(stream) /\ clientRequest = Received
  BY ReadingStep, LenProperties DEF Parsing, Reading, Next, Recv
<1>2. PICK n \in 1 .. Len(stream) - got :
             /\ got' = got + n
             /\ recvCount' = Min({n, 4})
             /\ clientRequest' = clientRequest \o SubSeq(stream, got + 1, got + n)
             /\ \E end \in IsEndOfRequest(SubSeq(stream, got + 1, got + n)) :
                    pc' = IF end THEN "parse" ELSE "recv"
  BY DEF Recv
<1>3. n \in Nat /\ n > 0 /\ got \in Nat /\ got + n <= Len(stream)
  BY <1>1, <1>2
<1>4. recvCount' = IF n < 4 THEN n ELSE 4
  <2>1. CASE n < 4
    BY <1>2, <1>3, <2>1 DEF Min
  <2>2. CASE n >= 4
    BY <1>2, <1>3, <2>2 DEF Min
  <2> QED BY <1>3, <2>1, <2>2
<1>5. Received' = SubSeq(stream, 1, got + n) /\ clientRequest' = Received'
  BY <1>1, <1>2, <1>3, OneBufferMore DEF Received
<1>6. ASSUME pc' = "parse", recvCount' = 4
      PROVE  IsSuffix(EndMark, Received')
  <2>1. n >= 4
    BY <1>3, <1>4, <1>6
  <2>2. /\ Len(SubSeq(stream, got + 1, got + n)) = n
        /\ IsSuffix(EndMark, SubSeq(stream, 1, got + n)) <=>
               IsSuffix(EndMark, SubSeq(stream, got + 1, got + n))
    BY <1>1, <1>3, <2>1, EndOfBuffer
  <2>3. IsEndOfRequest(SubSeq(stream, got + 1, got + n)) =
            {IsSuffix(EndMark, SubSeq(stream, got + 1, got + n))}
    BY <2>1, <2>2 DEF IsEndOfRequest
  <2> QED BY <1>2, <1>5, <1>6, <2>2, <2>3
<1>7. pc' \in {"recv", "parse"} /\ recvCount' \in 0 .. 4
  BY <1>2, <1>3, <1>4
<1> QED BY <1>1, <1>5, <1>6, <1>7 DEF Parsing

LEMMA ParseParsing == Parsing /\ ParseRequest => Parsing'
<1> SUFFICES ASSUME Parsing, ParseRequest PROVE Parsing'
  OBVIOUS
<1>1. Reading' /\ behind' = behind /\ stream' = stream /\ got' = got /\ recvCount' = recvCount
  BY ReadingStep DEF Parsing, Next, ParseRequest
<1>2. Received' = Received /\ Parsed' = Parsed
  BY <1>1 DEF Received, Parsed
<1>3. pc = "parse" /\ clientRequest = Received /\ behind \in Behinds /\ recvCount \in 0 .. 4
      /\ (recvCount = 4 => IsSuffix(EndMark, Received))
  BY DEF Parsing, ParseRequest
<1>4. /\ reqSize' = Parsed.ret
      /\ pc' = Outcome(Parsed)
      /\ pc' = "fetch" => request' = Fields(Parsed)
  BY <1>3 DEF ParseRequest, Parsed
<1>5. /\ pc' \notin {"recv", "parse"}
      /\ pc' = "badRequest" => Parsed.ret = Failed
  BY <1>4 DEF Outcome
<1>6. (IsSuffix(EndMark, Received))' <=> IsSuffix(EndMark, Received)
  BY <1>2
<1> QED BY <1>1, <1>2, <1>3, <1>4, <1>5, <1>6 DEF Parsing

LEMMA ParsingStep == Parsing /\ [Next]_vars => Parsing'
<1> SUFFICES ASSUME Parsing, [Next]_vars PROVE Parsing'
  OBVIOUS
<1>1. CASE RecvEnd \/ RecvFails
  <2>1. Reading' /\ behind' = behind /\ recvCount' \in 0 .. 4
    BY <1>1, ReadingStep DEF Parsing, Next, RecvEnd, RecvFails
  <2>2. /\ Received' = Received /\ clientRequest' = clientRequest /\ pc = "recv"
        /\ (pc' = "parse" /\ recvCount' = 0) \/ pc' = "internalError"
    BY <1>1 DEF RecvEnd, RecvFails, Received
  <2> QED BY <2>1, <2>2 DEF Parsing
<1>2. CASE Done \/ UNCHANGED vars
  <2>1. Reading' /\ UNCHANGED vars
    BY <1>2, ReadingStep DEF Parsing, Done, Next
  <2>2. Received' = Received /\ Parsed' = Parsed
    BY <2>1 DEF vars, Received, Parsed
  <2> QED BY <2>1, <2>2 DEF Parsing, vars
<1> QED BY <1>1, <1>2, RecvParsing, ParseParsing DEF Next

(* However recv cuts the stream, parseHttpRequest gets exactly what was    *)
(* received, and what is answered or fetched is what the parser makes of   *)
(* it.                                                                     *)
THEOREM ParserGetsReceived == Spec => []Parsing
<1> QED BY InitParsing, ParsingStep, PTL DEF Spec

LEMMA SameWhereverCut == Parsing => CutsDoNotMatter
<1> SUFFICES ASSUME Parsing PROVE CutsDoNotMatter
  OBVIOUS
<1> DEFINE whole == phr_parse_request(stream, <<"CTL">>)
<1>1. /\ stream \in Seq(Symbols) /\ got \in 0 .. Len(stream)
      /\ behind \in Seq(Symbols) /\ Len(behind) > 0 /\ behind[Len(behind)] = "CTL"
  BY RequestAssumption DEF Parsing, Reading
<1>2. /\ Parsed.ret > 0 => whole = Parsed
      /\ Parsed.ret = Failed /\ ~ReadBeyond => whole.ret = Failed
  BY <1>1, PartParsedAsWhole DEF Parsed, Received, ReadBeyond
<1> HIDE DEF whole
<1>3. /\ pc = "fetch" /\ reqSize > 0 => reqSize = whole.ret /\ request = Fields(whole)
      /\ pc = "badRequest" /\ ~ReadBeyond => whole.ret = Failed
  BY <1>2 DEF Parsing
<1> QED BY <1>3 DEF CutsDoNotMatter, whole

(* Where recv cuts what the client sends, what it has not sent yet and     *)
(* what lies behind clientRequest in memory, make no difference to a       *)
(* request that is found complete, or refused: parseHttpRequest makes of   *)
(* it what it would make of all the client has to say.                     *)
THEOREM CutsMakeNoDifference == Spec => []CutsDoNotMatter
BY ParserGetsReceived, SameWhereverCut, PTL

LEMMA PartialOnlyThen == Parsing => PartialExplained
<1> SUFFICES ASSUME Parsing, pc = "fetch", reqSize = Partial, ~(recvCount < 4),
                    HasVersion(Received)
             PROVE  FALSE
  BY DEF PartialExplained
<1>1. /\ stream \in Seq(Symbols) /\ got \in 0 .. Len(stream) /\ Len(stream) \in Nat
      /\ behind \in Seq(Symbols) /\ Len(behind) > 0 /\ behind[Len(behind)] = "CTL"
  BY RequestAssumption, LenProperties DEF Parsing, Reading
<1>2. Parsed.ret = Partial /\ IsSuffix(EndMark, Received)
  BY DEF Parsing
<1>3. Received \in Seq(Symbols) /\ Len(Received) = got /\ got \in Nat
  BY <1>1, SubSeqProperties DEF Received
<1>4. got >= 4 /\ \A i \in 1 .. 4 : Received[got - 4 + i] = EndMark[i]
  BY <1>2, <1>3, EndOfSequence
<1> DEFINE m == Received \o behind
<1>5. Memory(m, got) /\ \A i \in 1 .. got : m[i] = Received[i]
  BY <1>1, <1>3, InMemory
<1> HIDE DEF m
<1>6. EndsInMark(m, got)
  <2>1. /\ EndMark[1] = "CR" /\ EndMark[2] = "LF" /\ EndMark[3] = "CR" /\ EndMark[4] = "LF"
    BY DEF EndMark
  <2>2. ASSUME NEW i \in 1 .. 4
        PROVE  m[got - 4 + i] = EndMark[i]
    <3>1. got - 4 + i \in 1 .. got
      BY <1>3, <1>4
    <3> QED BY <1>4, <1>5, <3>1
  <2>3. m[got - 4 + 1] = "CR" /\ m[got - 4 + 2] = "LF" /\ m[got - 4 + 3] = "CR"
        /\ m[got - 4 + 4] = "LF"
    BY <2>1, <2>2
  <2>4. got - 4 + 1 = got - 3 /\ got - 4 + 2 = got - 2 /\ got - 4 + 3 = got - 1
        /\ got - 4 + 4 = got
    BY <1>3
  <2> QED BY <1>4, <1>5, <2>3, <2>4 DEF EndsInMark
<1>7. PICK i \in 2 .. got - 1 : /\ Received[i - 1] = "SP" /\ Received[i] = "VERSION"
                                /\ Received[i + 1] \in {"CR", "LF"}
  BY <1>3 DEF HasVersion
<1>8. m[i - 1] = "SP" /\ m[i] = "VERSION" /\ m[i + 1] \in {"CR", "LF"}
  <2>1. i - 1 \in 1 .. got /\ i \in 1 .. got /\ i + 1 \in 1 .. got
    BY <1>3
  <2> QED BY <1>5, <1>7, <2>1
<1>9. Parsed = ParseFrom(m, got, SkipEmptyLine(m, got))
  <2>1. Received # << >>
    BY <1>3, <1>4
  <2> QED BY <1>3, <2>1 DEF Parsed, phr_parse_request, m
<1> QED BY <1>2, <1>6, <1>8, <1>9, WholeRequestParsed

(* A request that the parser finds incomplete, although it has a version,  *)
(* is passed on only if recv returned less than the mark of the end, or    *)
(* the client closed its side.                                             *)
THEOREM PartialHasReasons == Spec => []PartialExplained
BY ParserGetsReceived, PartialOnlyThen, PTL
-----------------------------------------------------------------------------
(* A line of a header that is put in memory is read there.                 *)
LEMMA LineAgain ==
    ASSUME NEW m, NEW e, Memory(m, e), NEW p \in 1 .. e, NEW first, NEW header \in Headers,
           header.name # << >>, ~IsConnection(header), At(m, p, HeaderLine(header)),
           p + Len(HeaderLine(header)) - 1 <= e
    PROVE  /\ m[p] \notin {"CR", "LF"}
           /\ Header(m, e, p, first) = [next |-> p + Len(HeaderLine(header)), header |-> header]
<1> DEFINE name == header.name
           value == header.value
           middle == <<"COLON", "SP">>
           nl == <<"CR", "LF">>
           colon == p + Len(name)
           v == colon + 2
           eol == v + Len(value)
<1>1. e \in Nat /\ m \in Seq(Symbols) /\ Len(m) \in Nat /\ e < Len(m) /\ p \in Nat \ {0}
  BY LenProperties DEF Memory
<1>2. /\ name \in Seq(Names) /\ value \in Seq(Symbols \ Controls) /\ Trimmed(value)
      /\ header = [name |-> name, value |-> value]
  BY DEF Headers
<1>3. HeaderLine(header) = name \o middle \o value \o nl
  BY DEF HeaderLine
<1> HIDE DEF name, value
<1>4. /\ middle \in Seq(Symbols) /\ Len(middle) = 2 /\ middle[1] = "COLON" /\ middle[2] = "SP"
      /\ nl \in Seq(Symbols) /\ Len(nl) = 2 /\ nl[1] = "CR" /\ nl[2] = "LF"
      /\ name \in Seq(Symbols) /\ value \in Seq(Symbols)
      /\ Len(name) \in Nat /\ Len(value) \in Nat
  <2>1. name \in Seq(Symbols) /\ value \in Seq(Symbols)
    <3>1. Names \subseteq Symbols /\ Symbols \ Controls \subseteq Symbols
      BY NamesAre
    <3> QED BY <1>2, <3>1, SeqMonotonic
  <2>2. Len(name) \in Nat /\ Len(value) \in Nat
    BY <2>1, LenProperties
  <2>3. "COLON" \in Symbols /\ "SP" \in Symbols /\ "CR" \in Symbols /\ "LF" \in Symbols
    BY DEF Symbols, Controls
  <2> QED BY <2>1, <2>2, <2>3
<1> HIDE DEF middle, nl
<1>5. /\ Len(HeaderLine(header)) = Len(name) + 2 + Len(value) + 2
      /\ At(m, p, name)
      /\ At(m, p + Len(name), middle)
      /\ At(m, p + Len(name) + 2, value)
      /\ At(m, p + Len(name) + 2 + Len(value), nl)
  <2>1. At(m, p, name \o middle \o value \o nl)
    BY <1>3
  <2>2. /\ Len(name \o middle \o value \o nl) = Len(name) + Len(middle) + Len(value) + Len(nl)
        /\ At(m, p, name)
        /\ At(m, p + Len(name), middle)
        /\ At(m, p + Len(name) + Len(middle), value)
        /\ At(m, p + Len(name) + Len(middle) + Len(value), nl)
    <3>1. Len(m) \in Nat /\ p \in Nat \ {0} /\ name \in Seq(Symbols) /\ middle \in Seq(Symbols)
          /\ value \in Seq(Symbols) /\ nl \in Seq(Symbols)
      BY <1>1, <1>4
    <3> QED BY <2>1, <3>1, AtFour
  <2> QED BY <1>3, <1>4, <2>2
<1>6. /\ colon \in p .. e /\ v \in p .. e /\ eol \in p .. e - 1
      /\ p + Len(HeaderLine(header)) = eol + 2
      /\ v = p + Len(name) + 2 /\ eol = p + Len(name) + 2 + Len(value)
      /\ colon + 1 \in Nat \ {0} /\ v \in Nat \ {0}
  BY <1>1, <1>4, <1>5
<1>7. m[colon] = "COLON" /\ m[colon + 1] = "SP" /\ m[eol] = "CR" /\ m[eol + 1] = "LF"
  <2>1. m[colon + 1 - 1] = middle[1] /\ m[colon + 2 - 1] = middle[2]
    BY <1>4, <1>5 DEF At
  <2>2. m[eol + 1 - 1] = nl[1] /\ m[eol + 2 - 1] = nl[2]
    BY <1>4, <1>5, <1>6 DEF At
  <2>3. colon + 1 - 1 = colon /\ colon + 2 - 1 = colon + 1 /\ eol + 1 - 1 = eol
        /\ eol + 2 - 1 = eol + 1 /\ colon \in Nat /\ eol \in Nat
    BY <1>6
  <2> HIDE DEF colon, v, eol
  <2> QED BY <1>4, <2>1, <2>2, <2>3
<1>8. m[p] \in Names /\ Len(name) > 0
  <2>1. Len(name) \in Nat \ {0}
    <3>1. name # << >>
      BY DEF name
    <3> QED BY <1>2, <3>1, EmptySeq
  <2>2. name[1] \in Names /\ m[p + 1 - 1] = name[1]
    BY <1>2, <1>5, <2>1, ElementOfSeq DEF At
  <2>3. p + 1 - 1 = p
    OBVIOUS
  <2> QED BY <2>1, <2>2, <2>3
<1>9. m[p] \notin {"CR", "LF", "SP"}
  BY <1>8, NamesAre DEF Controls
<1>10. FirstOf(m, p, Symbols \ Names) = colon
  <2>1. \A i \in 1 .. Len(name) : name[i] \notin Symbols \ Names
    BY <1>2, ElementOfSeq
  <2>2. m[p + Len(name)] \in Symbols \ Names /\ p + Len(name) <= Len(m)
    BY <1>1, <1>6, <1>7, NamesAre
  <2>3. m \in Seq(Symbols) /\ p \in Nat \ {0} /\ name \in Seq(Symbols) /\ At(m, p, name)
    BY <1>1, <1>4, <1>5
  <2> QED BY <2>1, <2>2, <2>3, AtFirst
<1>11. m[v] \in Symbols \ {"SP"}
  <2>1. m[v] \in Symbols
    <3>1. v \in 1 .. Len(m)
      BY <1>1, <1>6
    <3> HIDE DEF v
    <3> QED BY <1>1, <3>1, ElementOfSeq
  <2>2. CASE Len(value) = 0
    BY <1>4, <1>6, <1>7, <2>1, <2>2
  <2>3. CASE Len(value) # 0
    <3>1. value # << >> /\ 1 \in 1 .. Len(value)
      BY <1>4, <2>3
    <3>2. m[p + Len(name) + 2 + 1 - 1] = value[1]
      BY <1>5, <3>1 DEF At
    <3>3. p + Len(name) + 2 + 1 - 1 = v
      BY <1>6
    <3> QED BY <1>2, <2>1, <3>1, <3>2, <3>3 DEF Trimmed
  <2> QED BY <2>2, <2>3
<1>12. SkipBlanks(m, colon + 1) = v
  <2> DEFINE f == FirstOf(m, colon + 1, Symbols \ {"SP"})
  <2>1. v \in colon + 1 .. Len(m)
    BY <1>1, <1>6
  <2>2. f \in colon + 1 .. v /\ m[f] \in Symbols \ {"SP"}
    <3>1. m \in Seq(Symbols) /\ colon + 1 \in Nat
      BY <1>1, <1>6
    <3> HIDE DEF colon, v
    <3> QED BY <1>11, <2>1, <3>1, FirstOfIs
  <2> HIDE DEF f
  <2>3. f # colon + 1
    BY <1>7, <2>2
  <2>4. f = v
    BY <1>6, <2>2, <2>3
  <2> QED BY <2>4 DEF f, SkipBlanks
<1>13. FirstOf(m, v, Controls) = eol
  <2>1. \A i \in 1 .. Len(value) : value[i] \notin Controls
    BY <1>2, ElementOfSeq
  <2>2. m[v + Len(value)] \in Controls /\ v + Len(value) <= Len(m)
    BY <1>1, <1>6, <1>7 DEF Controls
  <2>3. At(m, v, value)
    BY <1>5, <1>6
  <2>4. m \in Seq(Symbols) /\ v \in Nat \ {0} /\ value \in Seq(Symbols)
    BY <1>1, <1>4, <1>6
  <2> HIDE DEF v
  <2> QED BY <2>1, <2>2, <2>3, <2>4, AtFirst
<1>14. EndOfLine(m, e, eol) = eol + 2
  <2>1. eol # e /\ m[eol] # "LF"
    BY <1>1, <1>6, <1>7
  <2> QED BY <1>7, <2>1 DEF EndOfLine
<1>15. TrimBlanks(m, v, eol) = value
  <2>1. At(m, v, value)
    BY <1>5, <1>6
  <2> HIDE DEF v
  <2> QED BY <1>2, <1>6, <2>1, ValueAgain
<1>16. get_token_to_eol(m, e, v) = [next |-> eol + 2, value |-> value]
  <2>1. ~(eol > e)
    BY <1>1, <1>6
  <2> HIDE DEF eol, v
  <2> QED BY <1>13, <1>14, <1>15, <2>1 DEF get_token_to_eol
<1>17. SubSeq(m, p, colon - 1) = name
  <2>1. SubSeq(m, p, p + Len(name) - 1) = name
    <3>1. p \in Nat \ {0} /\ name \in Seq(Symbols) /\ At(m, p, name)
      BY <1>1, <1>4, <1>5
    <3> QED BY <3>1, AtPart
  <2> QED BY <2>1
<1>18. Header(m, e, p, first) = Line(name, [next |-> eol + 2, value |-> value])
  <2>1. Header(m, e, p, first) = NamedLine(m, e, p, colon)
    BY <1>9, <1>10 DEF Header
  <2>2. ~(colon > e) /\ ~(m[colon] # "COLON" \/ colon = p) /\ ~(v > e)
    <3>1. ~(colon > e) /\ ~(v > e)
      <4> HIDE DEF colon, v
      <4> QED BY <1>1, <1>6
    <3>2. colon # p
      BY <1>1, <1>4, <1>8
    <3> HIDE DEF colon
    <3> QED BY <1>7, <3>1, <3>2
  <2> HIDE DEF colon, v, eol
  <2> QED BY <1>12, <1>16, <1>17, <2>1, <2>2 DEF NamedLine
<1> HIDE DEF colon, v, eol
<1>19. Header(m, e, p, first) = [next |-> eol + 2, header |-> header]
  BY <1>2, <1>18 DEF Line
<1> QED BY <1>6, <1>9, <1>19

(* Headers that can be made into strings.                                  *)
Forwardable(headers) == /\ headers \in Seq(Headers)
                        /\ Len(headers) <= MaxHeaders
                        /\ \A i \in 1 .. Len(headers) : headers[i].name # << >>

Lines(headers) == [i \in DOMAIN headers |-> HeaderLine(headers[i])]

Kept(headers) == [i \in DOMAIN headers |->
                      IF IsConnection(headers[i]) THEN << >> ELSE <<headers[i]>>]

(* The line of a header consists of symbols.                               *)
LEMMA LineType ==
    ASSUME NEW header \in Headers
    PROVE  HeaderLine(header) \in Seq(Symbols)
<1> DEFINE middle == <<"COLON", "SP">>
           nl == <<"CR", "LF">>
<1>1. header.name \in Seq(Names) /\ header.value \in Seq(Symbols \ Controls)
  BY DEF Headers
<1>2. Names \subseteq Symbols /\ Symbols \ Controls \subseteq Symbols
  BY NamesAre
<1>3. header.name \in Seq(Symbols) /\ header.value \in Seq(Symbols)
  BY <1>1, <1>2, SeqMonotonic
<1>4. "COLON" \in Symbols /\ "SP" \in Symbols /\ "CR" \in Symbols /\ "LF" \in Symbols
  BY DEF Symbols, Controls
<1>5. middle \in Seq(Symbols) /\ nl \in Seq(Symbols)
  BY <1>4
<1>6. HeaderLine(header) = IF IsConnection(header) THEN << >>
                           ELSE header.name \o middle \o header.value \o nl
  BY DEF HeaderLine
<1> HIDE DEF middle, nl
<1>7. header.name \o middle \o header.value \o nl \in Seq(Symbols)
  BY <1>3, <1>5, ConcatProperties
<1> QED BY <1>6, <1>7, EmptySeq

(* There is a line for every header, and what is kept of it.               *)
LEMMA LinesType ==
    ASSUME NEW headers \in Seq(Headers)
    PROVE  /\ Lines(headers) \in Seq(Seq(Symbols))
           /\ Len(Lines(headers)) = Len(headers)
           /\ \A i \in 1 .. Len(headers) : Lines(headers)[i] = HeaderLine(headers[i])
           /\ Kept(headers) \in Seq(Seq(Headers))
           /\ Len(Kept(headers)) = Len(headers)
           /\ \A i \in 1 .. Len(headers) :
                  Kept(headers)[i] = IF IsConnection(headers[i]) THEN << >> ELSE <<headers[i]>>
<1>1. /\ Len(headers) \in Nat /\ DOMAIN headers = 1 .. Len(headers)
      /\ \A i \in 1 .. Len(headers) : headers[i] \in Headers
  BY LenProperties, ElementOfSeq
<1>2. Lines(headers) \in [1 .. Len(headers) -> Seq(Symbols)]
  BY <1>1, LineType DEF Lines
<1>3. Kept(headers) \in [1 .. Len(headers) -> Seq(Headers)]
  <2>1. ASSUME NEW i \in 1 .. Len(headers)
        PROVE  (IF IsConnection(headers[i]) THEN << >> ELSE <<headers[i]>>) \in Seq(Headers)
    <3>1. << >> \in Seq(Headers) /\ <<headers[i]>> \in Seq(Headers)
      BY <1>1
    <3> QED BY <3>1
  <2> QED BY <1>1, <2>1 DEF Kept
<1>4. Lines(headers) \in Seq(Seq(Symbols)) /\ Len(Lines(headers)) = Len(headers)
  BY <1>1, <1>2, SeqDef, LenProperties
<1>5. Kept(headers) \in Seq(Seq(Headers)) /\ Len(Kept(headers)) = Len(headers)
  BY <1>1, <1>3, SeqDef, LenProperties
<1> QED BY <1>1, <1>4, <1>5 DEF Lines, Kept

(* Where the first k lines are in memory.                                  *)
LEMMA LinesAt ==
    ASSUME NEW m, Len(m) \in Nat, NEW q \in Nat \ {0}, NEW lines \in Seq(Seq(Symbols)), NEW L,
           Joins(L, Symbols, lines), At(m, q, FlattenSeq(lines))
    PROVE  \A k \in 0 .. Len(lines) : /\ At(m, q, L[k])
                                      /\ Len(L[k]) <= Len(FlattenSeq(lines))
<1> DEFINE n == Len(lines)
           Good(k) == At(m, q, L[k]) /\ Len(L[k]) <= Len(L[n])
           Bad == {k \in 0 .. n : ~Good(k)}
<1>1. n \in Nat /\ (\A k \in 0 .. n : L[k] \in Seq(Symbols) /\ Len(L[k]) \in Nat)
      /\ FlattenSeq(lines) = L[n] /\ (\A k \in 1 .. n : L[k] = L[k - 1] \o lines[k])
      /\ (\A k \in 1 .. n : lines[k] \in Seq(Symbols))
  BY LenProperties, ElementOfSeq DEF Joins
<1> HIDE DEF n
<1>2. Good(n)
  <2>1. n \in 0 .. n
    BY <1>1
  <2>2. Len(L[n]) \in Nat
    BY <1>1, <2>1
  <2> QED BY <1>1, <2>2
<1>3. SUFFICES ASSUME Bad # {} PROVE FALSE
  BY <1>1, <1>3 DEF n
<1> HIDE DEF Good
<1>4. PICK k \in Bad : \A i \in Bad : i <= k
  <2>1. Bad \in SUBSET (0 .. n)
    OBVIOUS
  <2> HIDE DEF Bad
  <2> QED BY <1>1, <1>3, <2>1, GreatestNat
<1>5. k \in 0 .. n /\ k # n /\ k + 1 \in 0 .. n /\ k + 1 \in 1 .. n /\ ~(k + 1 <= k)
      /\ k + 1 - 1 = k
  BY <1>1, <1>2, <1>4
<1>6. Good(k + 1)
  BY <1>4, <1>5
<1>7. L[k + 1] = L[k] \o lines[k + 1] /\ L[k] \in Seq(Symbols) /\ lines[k + 1] \in Seq(Symbols)
  <2> HIDE DEF Bad
  <2>1. L[k + 1] = L[k] \o lines[k + 1]
    <3>1. \A i \in 1 .. n : L[i] = L[i - 1] \o lines[i]
      BY <1>1
    <3> DEFINE i == k + 1
    <3>2. i \in 1 .. n
      BY <1>5
    <3> HIDE DEF i
    <3>3. L[i] = L[i - 1] \o lines[i]
      BY <3>1, <3>2
    <3>4. i - 1 = k
      BY <1>5 DEF i
    <3>5. L[i] = L[k] \o lines[i]
      BY <3>3, <3>4
    <3> QED BY <3>5 DEF i
  <2>3. L[k] \in Seq(Symbols)
    BY <1>1, <1>5
  <2>4. lines[k + 1] \in Seq(Symbols)
    BY <1>1, <1>5
  <2> QED BY <2>1, <2>3, <2>4
<1>8. At(m, q, L[k] \o lines[k + 1]) /\ Len(L[k] \o lines[k + 1]) <= Len(L[n])
  BY <1>6, <1>7 DEF Good
<1>9. At(m, q, L[k]) /\ Len(L[k] \o lines[k + 1]) = Len(L[k]) + Len(lines[k + 1])
  BY <1>7, <1>8, AtConcat
<1>10. Len(L[k]) \in Nat /\ Len(lines[k + 1]) \in Nat /\ Len(L[n]) \in Nat
  <2>1. n \in 0 .. n
    BY <1>1
  <2>2. Len(L[n]) \in Nat
    BY <1>1, <2>1
  <2>3. Len(L[k]) \in Nat
    BY <1>7, LenProperties
  <2>4. Len(lines[k + 1]) \in Nat
    BY <1>7, LenProperties
  <2> QED BY <2>2, <2>3, <2>4
<1>11. Good(k)
  <2> DEFINE before == Len(L[k])
             line == Len(lines[k + 1])
             all == Len(L[n])
  <2>1. before \in Nat /\ line \in Nat /\ all \in Nat /\ before + line <= all
    BY <1>8, <1>9, <1>10
  <2> HIDE DEF before, line, all
  <2>2. before <= all
    BY <2>1
  <2> QED BY <1>9, <2>2 DEF Good, before, all
<1> QED BY <1>4, <1>11

LineIsAt(m, e, p, header) == /\ p \in 1 .. e
                             /\ header \in Headers
                             /\ header.name # << >>
                             /\ ~IsConnection(header)
                             /\ At(m, p, HeaderLine(header))
                             /\ p + Len(HeaderLine(header)) - 1 <= e

(* One turn of the loop at a line that was put there.                      *)
LEMMA TurnAgain ==
    ASSUME NEW m, NEW e, Memory(m, e), NEW p, NEW header, LineIsAt(m, e, p, header),
           NEW headers
    PROVE  ReadHeader(m, e, [next |-> p, headers |-> headers]) =
               [next |-> p + Len(HeaderLine(header)), headers |-> Append(headers, header)]
<1> DEFINE read == [next |-> p, headers |-> headers]
           line == Header(m, e, p, headers = << >>)
           stop == p + Len(HeaderLine(header))
<1>1. m[p] \notin {"CR", "LF"} /\ line = [next |-> stop, header |-> header]
  BY LineAgain DEF LineIsAt
<1>2. Len(HeaderLine(header)) \in Nat /\ p \in Nat
  BY LineType, LenProperties DEF LineIsAt
<1>3. ~(stop < 0)
  BY <1>2
<1>4. read.next = p /\ read.headers = headers /\ p \in 1 .. e
  BY DEF LineIsAt
<1> HIDE DEF stop
<1>5. line.next = stop /\ line.header = header
  BY <1>1
<1> HIDE DEF line
<1>6. ReadHeader(m, e, read) = [next |-> line.next, headers |-> Append(headers, line.header)]
  <2> HIDE DEF read
  <2> QED BY <1>1, <1>3, <1>4, <1>5 DEF ReadHeader, line
<1> QED BY <1>5, <1>6 DEF stop

(* What has been read after the lines of the first k headers.              *)
After(q, L, H, k) == [next |-> q + Len(L[k]), headers |-> H[k]]

(* One header more: a turn of the loop for each that was kept, none for    *)
(* one that was not.                                                       *)
LEMMA TurnsAgain ==
    ASSUME NEW m, NEW e, Memory(m, e), NEW headers, Forwardable(headers), NEW q \in 1 .. e,
           NEW L, Joins(L, Symbols, Lines(headers)), NEW H, Joins(H, Headers, Kept(headers)),
           At(m, q, FlattenSeq(Lines(headers))), q + Len(FlattenSeq(Lines(headers))) <= e,
           NEW Read, IsLoop(Read, m, e, q), NEW k \in 1 .. Len(headers),
           Len(H[k - 1]) <= k - 1, Read[Len(H[k - 1])] = After(q, L, H, k - 1)
    PROVE  Len(H[k]) <= k /\ Read[Len(H[k])] = After(q, L, H, k)
<1> DEFINE header == headers[k]
           line == HeaderLine(header)
           p == q + Len(L[k - 1])
<1>1. /\ headers \in Seq(Headers) /\ Len(headers) \in Nat /\ MaxHeaders \in Nat
      /\ Len(headers) <= MaxHeaders
      /\ header \in Headers /\ header.name # << >> /\ e \in Nat /\ Len(m) \in Nat
      /\ q \in Nat \ {0} /\ k - 1 \in 0 .. Len(headers) /\ k \in 0 .. Len(headers) /\ k \in Nat
  BY ParserAssumption, LenProperties, ElementOfSeq DEF Forwardable, Memory
<1>2. /\ Lines(headers) \in Seq(Seq(Symbols)) /\ Len(Lines(headers)) = Len(headers)
      /\ Lines(headers)[k] = line
      /\ Len(Kept(headers)) = Len(headers)
      /\ Kept(headers)[k] = IF IsConnection(header) THEN << >> ELSE <<header>>
  BY <1>1, LinesType
<1>3. /\ L[k] = L[k - 1] \o line /\ L[k - 1] \in Seq(Symbols) /\ L[k] \in Seq(Symbols)
  BY <1>1, <1>2 DEF Joins
<1>4. /\ H[k - 1] \in Seq(Headers) /\ H[k] \in Seq(Headers)
      /\ H[k] = H[k - 1] \o (IF IsConnection(header) THEN << >> ELSE <<header>>)
  BY <1>1, <1>2 DEF Joins
<1>5. line \in Seq(Symbols)
  BY <1>1, LineType
<1>6. At(m, q, L[k]) /\ Len(L[k]) <= Len(FlattenSeq(Lines(headers)))
  BY <1>1, <1>2, LinesAt
<1> HIDE DEF line, header
<1>7. At(m, p, line) /\ Len(L[k]) = Len(L[k - 1]) + Len(line)
  <2>1. At(m, q, L[k - 1] \o line) /\ L[k - 1] \in Seq(Symbols)
    BY <1>3, <1>6
  <2>2. Len(m) \in Nat /\ q \in Nat \ {0}
    BY <1>1
  <2>3. At(m, q + Len(L[k - 1]), line) /\ Len(L[k - 1] \o line) = Len(L[k - 1]) + Len(line)
    <3> DEFINE lines == L[k - 1]
    <3>1. At(m, q, lines \o line) /\ lines \in Seq(Symbols)
      BY <2>1
    <3> HIDE DEF lines
    <3>2. At(m, q + Len(lines), line) /\ Len(lines \o line) = Len(lines) + Len(line)
      BY <1>5, <2>2, <3>1, AtConcat
    <3> QED BY <3>2 DEF lines
  <2> QED BY <1>3, <2>3
<1>8. Len(L[k - 1]) \in Nat /\ Len(line) \in Nat /\ Len(H[k - 1]) \in Nat
      /\ Len(L[k]) \in Nat
  BY <1>3, <1>4, <1>5, LenProperties
<1>9. CASE IsConnection(header)
  <2>1. line = << >>
    BY <1>9 DEF HeaderLine, line
  <2>2. L[k] = L[k - 1] /\ H[k] = H[k - 1]
    BY <1>3, <1>4, <1>9, <2>1, ConcatEmptySeq
  <2>3. k - 1 <= k
    BY <1>1
  <2> QED BY <1>1, <1>8, <2>2 DEF After
<1>10. CASE ~IsConnection(header)
  <2>1. H[k] = Append(H[k - 1], header)
    BY <1>1, <1>4, <1>10, AppendIsConcat
  <2>2. Len(H[k]) = Len(H[k - 1]) + 1
    <3>1. Len(Append(H[k - 1], header)) = Len(H[k - 1]) + 1
      BY <1>1, <1>4, AppendProperties
    <3> QED BY <2>1, <3>1
  <2>3. Len(FlattenSeq(Lines(headers))) \in Nat
    <3>1. Len(headers) \in 0 .. Len(headers)
      BY <1>1
    <3>2. FlattenSeq(Lines(headers)) \in Seq(Symbols)
      BY <1>2, <3>1 DEF Joins
    <3> QED BY <3>2, LenProperties
  <2>4. p + Len(line) - 1 <= e /\ p + Len(line) = q + Len(L[k]) /\ q + Len(L[k]) <= e
    <3> DEFINE before == Len(L[k - 1])
               now == Len(L[k])
               length == Len(line)
               all == Len(FlattenSeq(Lines(headers)))
    <3>1. before \in Nat /\ now \in Nat /\ length \in Nat /\ all \in Nat /\ now <= all
          /\ now = before + length /\ q + all <= e /\ q \in Nat /\ e \in Nat
      BY <1>1, <1>6, <1>7, <1>8, <2>3
    <3> HIDE DEF before, now, length, all
    <3>2. q + before + length - 1 <= e /\ q + before + length = q + now /\ q + now <= e
      BY <3>1
    <3> QED BY <3>2 DEF before, now, length
  <2>5. Len(line) > 0
    <3>1. line # << >>
      <4>1. line = header.name \o <<"COLON", "SP">> \o header.value \o <<"CR", "LF">>
        BY <1>10 DEF line, HeaderLine
      <4>2. header.name \in Seq(Names) /\ header.value \in Seq(Symbols \ Controls)
        BY <1>1 DEF Headers
      <4> QED BY <4>1, <4>2
    <3> QED BY <1>5, <3>1, EmptySeq, <1>8
  <2>6. p \in 1 .. e
    <3> DEFINE before == Len(L[k - 1])
               length == Len(line)
    <3>1. before \in Nat /\ length \in Nat /\ length > 0 /\ q \in Nat \ {0} /\ e \in Nat
          /\ q + before + length - 1 <= e
      BY <1>1, <1>8, <2>4, <2>5
    <3> HIDE DEF before, length
    <3>2. q + before \in 1 .. e
      BY <3>1
    <3> QED BY <3>2 DEF before
  <2> HIDE DEF p
  <2>7. ReadHeader(m, e, [next |-> p, headers |-> H[k - 1]]) =
            [next |-> p + Len(line), headers |-> Append(H[k - 1], header)]
    <3>1. header \in Headers /\ header.name # << >>
      BY <1>1
    <3>2. At(m, p, HeaderLine(header)) /\ p + Len(HeaderLine(header)) - 1 <= e
      BY <1>7, <2>4 DEF line
    <3>3. LineIsAt(m, e, p, header)
      BY <1>10, <2>6, <3>1, <3>2 DEF LineIsAt
    <3>4. ReadHeader(m, e, [next |-> p, headers |-> H[k - 1]]) =
              [next |-> p + Len(HeaderLine(header)), headers |-> Append(H[k - 1], header)]
      BY <3>3, TurnAgain
    <3> QED BY <3>4 DEF line
  <2>8. Len(H[k - 1]) + 1 \in 1 .. MaxHeaders /\ Len(H[k - 1]) + 1 - 1 = Len(H[k - 1])
        /\ Len(H[k - 1]) + 1 <= k
    BY <1>1, <1>8
  <2>9. Read[Len(H[k - 1]) + 1] = ReadHeader(m, e, Read[Len(H[k - 1])])
    <3> DEFINE i == Len(H[k - 1]) + 1
    <3>1. i \in 1 .. MaxHeaders /\ i - 1 = Len(H[k - 1])
      BY <2>8
    <3> HIDE DEF i
    <3>2. Read[i] = ReadHeader(m, e, Read[i - 1])
      BY <3>1 DEF IsLoop
    <3> QED BY <3>1, <3>2 DEF i
  <2>10. Read[Len(H[k - 1])] = [next |-> p, headers |-> H[k - 1]]
    BY DEF After, p
  <2> QED BY <2>1, <2>2, <2>4, <2>7, <2>8, <2>9, <2>10 DEF After
<1> QED BY <1>9, <1>10

(* All headers.                                                            *)
LEMMA LoopAgain ==
    ASSUME NEW m, NEW e, Memory(m, e), NEW headers, Forwardable(headers), NEW q \in 1 .. e,
           NEW L, Joins(L, Symbols, Lines(headers)), NEW H, Joins(H, Headers, Kept(headers)),
           At(m, q, FlattenSeq(Lines(headers))), q + Len(FlattenSeq(Lines(headers))) <= e,
           NEW Read, IsLoop(Read, m, e, q)
    PROVE  LET n == Len(headers)
           IN Len(H[n]) <= n /\ Read[Len(H[n])] = After(q, L, H, n)
<1> DEFINE n == Len(headers)
           Good(k) == Len(H[k]) <= k /\ Read[Len(H[k])] = After(q, L, H, k)
           Bad == {k \in 0 .. n : ~Good(k)}
<1>1. n \in Nat /\ q \in Nat /\ Len(Lines(headers)) = n /\ Len(Kept(headers)) = n
      /\ n \in 0 .. n
  BY LenProperties, LinesType DEF Forwardable
<1>2. SUFFICES ASSUME Bad # {} PROVE FALSE
  <2>1. CASE Bad = {}
    BY <1>1, <2>1
  <2> QED BY <1>2, <2>1
<1>3. PICK k \in Bad : \A i \in Bad : k <= i
  <2>1. Bad \in SUBSET Nat
    OBVIOUS
  <2> HIDE DEF Bad
  <2> QED BY <1>2, <2>1, LeastNat
<1>4. Good(0)
  <2>1. L[0] = << >> /\ H[0] = << >> /\ Read[0] = Started(q)
    BY DEF Joins, IsLoop
  <2>2. Len(L[0]) = 0 /\ Len(H[0]) = 0
    BY <2>1
  <2>3. After(q, L, H, 0) = Started(q)
    BY <1>1, <2>1, <2>2 DEF After, Started
  <2> QED BY <2>1, <2>2, <2>3
<1> HIDE DEF Good
<1>5. k \in 1 .. n /\ k - 1 \in 0 .. n /\ ~(k <= k - 1)
  BY <1>1, <1>3, <1>4
<1>6. Good(k - 1)
  <2>1. k - 1 \notin Bad
    BY <1>3, <1>5
  <2> QED BY <1>5, <2>1
<1>7. Good(k)
  BY <1>5, <1>6, TurnsAgain DEF Good
<1> QED BY <1>3, <1>7

(* The headers that are put in memory are read there.                      *)
LEMMA HeadersAgain ==
    ASSUME NEW m, NEW e, Memory(m, e), NEW headers, Forwardable(headers), NEW q \in 1 .. e,
           At(m, q, FlattenSeq(Lines(headers))),
           NEW c \in 1 .. e - 1, c = q + Len(FlattenSeq(Lines(headers))),
           m[c] = "CR", m[c + 1] = "LF"
    PROVE  parse_headers(m, e, q) = [ret |-> c + 2, headers |-> FlattenSeq(Kept(headers))]
<1> DEFINE n == Len(headers)
<1>1. /\ n \in Nat /\ n <= MaxHeaders /\ MaxHeaders \in Nat /\ e \in Nat
      /\ Lines(headers) \in Seq(Seq(Symbols)) /\ Len(Lines(headers)) = n
      /\ Kept(headers) \in Seq(Seq(Headers)) /\ Len(Kept(headers)) = n /\ n \in 0 .. n
  BY ParserAssumption, LenProperties, LinesType DEF Forwardable, Memory
<1>2. PICK L : Joins(L, Symbols, Lines(headers))
  BY <1>1, FlattenJoins
<1>3. PICK H : Joins(H, Headers, Kept(headers))
  BY <1>1, FlattenJoins
<1>4. PICK Read : IsLoop(Read, m, e, q)
  BY LoopOfHeaders
<1>5. FlattenSeq(Lines(headers)) = L[n] /\ FlattenSeq(Kept(headers)) = H[n] /\ Len(H[n]) \in Nat
  BY <1>1, <1>2, <1>3, LenProperties DEF Joins
<1> DEFINE end == [next |-> c, headers |-> H[n]]
<1>6. Len(H[n]) <= n /\ Read[Len(H[n])] = end
  <2>1. q + Len(FlattenSeq(Lines(headers))) <= e
    BY <1>1
  <2>2. Len(H[n]) <= n /\ Read[Len(H[n])] = After(q, L, H, n)
    BY <1>2, <1>3, <1>4, <2>1, LoopAgain
  <2> QED BY <1>5, <2>2 DEF After
<1>7. ReadHeader(m, e, end) = end
  BY DEF ReadHeader
<1> HIDE DEF n, end
<1>8. Read[MaxHeaders] = end
  <2> DEFINE Bad == {j \in Len(H[n]) .. MaxHeaders : Read[j] # end}
  <2>1. SUFFICES ASSUME Bad # {} PROVE FALSE
    <3>1. MaxHeaders \in Len(H[n]) .. MaxHeaders
      BY <1>1, <1>5, <1>6
    <3>2. CASE Bad = {}
      BY <3>1, <3>2
    <3> QED BY <2>1, <3>2
  <2>2. PICK j \in Bad : \A i \in Bad : j <= i
    <3>1. Bad \in SUBSET Nat
      BY <1>5
    <3> HIDE DEF Bad
    <3> QED BY <2>1, <3>1, LeastNat
  <2>3. j # Len(H[n])
    BY <1>6, <2>2
  <2>4. j \in 1 .. MaxHeaders /\ j - 1 \in Len(H[n]) .. MaxHeaders /\ ~(j <= j - 1)
    BY <1>1, <1>5, <2>2, <2>3
  <2>5. Read[j - 1] = end
    BY <2>2, <2>4
  <2>6. Read[j] = ReadHeader(m, e, Read[j - 1])
    BY <1>4, <2>4 DEF IsLoop
  <2> QED BY <1>7, <2>2, <2>5, <2>6
<1>9. ReadHeaders(m, e, q) = end
  BY <1>4, <1>8 DEF IsLoop
<1>10. EndOfHeaders(m, e, c) = c + 2
  <2>1. ~(c < 0) /\ ~(c > e) /\ c # e
    BY <1>1
  <2>2. EndOfLine(m, e, c) = c + 2
    BY <2>1 DEF EndOfLine
  <2> QED BY <2>1, <2>2 DEF EndOfHeaders
<1> QED BY <1>5, <1>9, <1>10 DEF parse_headers, end
-----------------------------------------------------------------------------
RequestLine(method, path) == method \o <<"SP">> \o path \o <<"SP", "VERSION", "CR", "LF">>

(* The parts of what NewRequest puts together.                             *)
LEMMA PartsOfRequest ==
    ASSUME NEW method \in Unbroken, NEW path \in Unbroken, NEW headers, Forwardable(headers)
    PROVE  LET lines == FlattenSeq(Lines(headers))
           IN /\ NewRequest(method, path, headers) = RequestLine(method, path) \o lines \o EndMark
              /\ method \in Seq(Symbols) /\ path \in Seq(Symbols) /\ lines \in Seq(Symbols)
              /\ RequestLine(method, path) \in Seq(Symbols)
              /\ RequestLine(method, path) \o lines \in Seq(Symbols)
              /\ EndMark \in Seq(Symbols)
              /\ NewRequest(method, path, headers) \in Seq(Symbols)
<1> DEFINE lines == FlattenSeq(Lines(headers))
           blank == <<"SP">>
           version == <<"SP", "VERSION", "CR", "LF">>
           line == RequestLine(method, path)
<1>1. method \in Seq(Symbols) /\ path \in Seq(Symbols)
  <2>1. Symbols \ (Controls \cup {"SP"}) \subseteq Symbols
    OBVIOUS
  <2> QED BY <2>1, SeqMonotonic DEF Unbroken
<1>2. "SP" \in Symbols /\ "VERSION" \in Symbols /\ "CR" \in Symbols /\ "LF" \in Symbols
  BY DEF Symbols, Controls
<1>3. blank \in Seq(Symbols) /\ version \in Seq(Symbols) /\ EndMark \in Seq(Symbols)
  BY <1>2 DEF EndMark
<1>4. lines \in Seq(Symbols)
  <2>1. Lines(headers) \in Seq(Seq(Symbols)) /\ Len(Lines(headers)) \in Nat
    BY LinesType, LenProperties DEF Forwardable
  <2>2. PICK L : Joins(L, Symbols, Lines(headers))
    BY <2>1, FlattenJoins
  <2>3. Len(Lines(headers)) \in 0 .. Len(Lines(headers))
    BY <2>1
  <2> QED BY <2>2, <2>3 DEF Joins
<1>5. line \in Seq(Symbols)
  <2>1. line = method \o blank \o path \o version
    BY DEF RequestLine
  <2> HIDE DEF blank, version, line
  <2> QED BY <1>1, <1>3, <2>1, ConcatProperties
<1>6. NewRequest(method, path, headers) = line \o lines \o EndMark
  BY DEF NewRequest, RequestLine, Lines
<1> HIDE DEF line, lines
<1>7. line \o lines \in Seq(Symbols) /\ line \o lines \o EndMark \in Seq(Symbols)
  BY <1>3, <1>4, <1>5, ConcatProperties
<1> QED BY <1>1, <1>3, <1>4, <1>5, <1>6, <1>7 DEF line, lines

(* Where a request line, lines and the mark of the end are in memory.      *)
Laid(m, e, method, path, lines) ==
    LET a == Len(method)
        b == Len(path)
        c == a + b + 6 + Len(lines)
    IN /\ Memory(m, e)
       /\ e = c + 3
       /\ At(m, 1, method)
       /\ m[a + 1] = "SP"
       /\ At(m, a + 2, path)
       /\ m[a + b + 2] = "SP"
       /\ m[a + b + 3] = "VERSION" /\ m[a + b + 4] = "CR" /\ m[a + b + 5] = "LF"
       /\ At(m, a + b + 6, lines)
       /\ m[c] = "CR" /\ m[c + 1] = "LF"

(* What NewRequest puts together is in memory that way.                    *)
LEMMA RequestIsLaid ==
    ASSUME NEW method \in Unbroken, NEW path \in Unbroken, NEW headers, Forwardable(headers),
           NEW r, r = NewRequest(method, path, headers)
    PROVE  Laid(r \o <<"CTL">>, Len(r), method, path, FlattenSeq(Lines(headers)))
<1> DEFINE lines == FlattenSeq(Lines(headers))
           blank == <<"SP">>
           version == <<"SP", "VERSION", "CR", "LF">>
           line == RequestLine(method, path)
           end == <<"CTL">>
           m == r \o end
           a == Len(method)
           b == Len(path)
           f == Len(lines)
           c == a + b + 6 + f
<1>1. /\ r = line \o lines \o EndMark /\ method \in Seq(Symbols) /\ path \in Seq(Symbols)
      /\ lines \in Seq(Symbols) /\ line \in Seq(Symbols) /\ line \o lines \in Seq(Symbols)
      /\ EndMark \in Seq(Symbols) /\ r \in Seq(Symbols)
  BY PartsOfRequest
<1>2. /\ blank \in Seq(Symbols) /\ Len(blank) = 1 /\ blank[1] = "SP"
      /\ version \in Seq(Symbols) /\ Len(version) = 4
      /\ version[1] = "SP" /\ version[2] = "VERSION" /\ version[3] = "CR" /\ version[4] = "LF"
      /\ Len(EndMark) = 4 /\ EndMark[1] = "CR" /\ EndMark[2] = "LF"
      /\ end \in Seq(Symbols) /\ Len(end) > 0 /\ end[Len(end)] = "CTL"
  BY DEF Symbols, Controls, EndMark
<1>3. line = method \o blank \o path \o version
  BY DEF RequestLine
<1> HIDE DEF lines, blank, version, line, end
<1>4. Memory(m, Len(r)) /\ (\A i \in 1 .. Len(r) : m[i] = r[i]) /\ Len(m) \in Nat
      /\ Len(r) \in Nat /\ Len(r) < Len(m)
  <2>1. Memory(m, Len(r)) /\ \A i \in 1 .. Len(r) : m[i] = r[i]
    BY <1>1, <1>2, InMemory
  <2> HIDE DEF m
  <2> QED BY <2>1, LenProperties DEF Memory
<1> HIDE DEF m
<1>5. At(m, 1, r)
  <2>1. 1 + Len(r) - 1 <= Len(m)
    BY <1>4
  <2>2. \A i \in 1 .. Len(r) : 1 + i - 1 = i
    BY <1>4
  <2> QED BY <1>4, <2>1, <2>2 DEF At
<1>6. At(m, 1, line \o lines) /\ At(m, 1 + Len(line \o lines), EndMark)
      /\ Len(r) = Len(line \o lines) + Len(EndMark)
  <2> DEFINE both == line \o lines
  <2>1. At(m, 1, both \o EndMark) /\ both \in Seq(Symbols) /\ r = both \o EndMark
    BY <1>1, <1>5
  <2> HIDE DEF both
  <2>2. 1 \in Nat \ {0}
    OBVIOUS
  <2>3. At(m, 1, both) /\ At(m, 1 + Len(both), EndMark)
        /\ Len(both \o EndMark) = Len(both) + Len(EndMark)
    BY <1>1, <1>4, <2>1, <2>2, AtConcat
  <2> QED BY <2>1, <2>3 DEF both
<1>7. At(m, 1, line) /\ At(m, 1 + Len(line), lines)
      /\ Len(line \o lines) = Len(line) + f
  <2>1. 1 \in Nat \ {0}
    OBVIOUS
  <2> QED BY <1>1, <1>4, <1>6, <2>1, AtConcat
<1>8. /\ Len(line) = a + 1 + b + 4
      /\ At(m, 1, method)
      /\ At(m, 1 + a, blank)
      /\ At(m, 1 + a + 1, path)
      /\ At(m, 1 + a + 1 + b, version)
  <2>1. 1 \in Nat \ {0} /\ At(m, 1, method \o blank \o path \o version)
    BY <1>3, <1>7
  <2>2. /\ Len(method \o blank \o path \o version) = Len(method) + Len(blank) + Len(path) + Len(version)
        /\ At(m, 1, method)
        /\ At(m, 1 + Len(method), blank)
        /\ At(m, 1 + Len(method) + Len(blank), path)
        /\ At(m, 1 + Len(method) + Len(blank) + Len(path), version)
    <3>1. Len(m) \in Nat /\ method \in Seq(Symbols) /\ blank \in Seq(Symbols)
          /\ path \in Seq(Symbols) /\ version \in Seq(Symbols)
      BY <1>1, <1>2, <1>4
    <3> QED BY <2>1, <3>1, AtFour
  <2> QED BY <1>2, <1>3, <2>2
<1>9. a \in Nat /\ b \in Nat /\ f \in Nat
  BY <1>1, LenProperties
<1> HIDE DEF a, b, f
<1>10. /\ Len(r) = c + 3
       /\ 1 + Len(line \o lines) = c
       /\ 1 + Len(line) = a + b + 6
       /\ 1 + a = a + 1 /\ 1 + a + 1 = a + 2 /\ 1 + a + 1 + b = a + b + 2
  BY <1>2, <1>6, <1>7, <1>8, <1>9
<1>11. m[a + 1] = "SP"
  <2>1. m[1 + a + 1 - 1] = blank[1]
    BY <1>2, <1>8 DEF At
  <2>2. 1 + a + 1 - 1 = a + 1
    BY <1>9
  <2> QED BY <1>2, <2>1, <2>2
<1>12. m[a + b + 2] = "SP" /\ m[a + b + 3] = "VERSION" /\ m[a + b + 4] = "CR"
       /\ m[a + b + 5] = "LF"
  <2> DEFINE p == 1 + a + 1 + b
  <2>1. \A i \in 1 .. 4 : m[p + i - 1] = version[i]
    BY <1>2, <1>8 DEF At
  <2> HIDE DEF p
  <2>2. m[p + 1 - 1] = "SP" /\ m[p + 2 - 1] = "VERSION" /\ m[p + 3 - 1] = "CR"
        /\ m[p + 4 - 1] = "LF"
    BY <1>2, <2>1
  <2>3. p + 1 - 1 = a + b + 2 /\ p + 2 - 1 = a + b + 3 /\ p + 3 - 1 = a + b + 4
        /\ p + 4 - 1 = a + b + 5
    BY <1>9 DEF p
  <2> QED BY <2>2, <2>3
<1>13. m[c] = "CR" /\ m[c + 1] = "LF"
  <2>1. At(m, c, EndMark)
    BY <1>6, <1>10
  <2>2. m[c + 1 - 1] = EndMark[1] /\ m[c + 2 - 1] = EndMark[2]
    <3> HIDE DEF c
    <3> QED BY <1>2, <2>1 DEF At
  <2>3. c + 1 - 1 = c /\ c + 2 - 1 = c + 1
    BY <1>9
  <2> HIDE DEF c
  <2> QED BY <1>2, <2>2, <2>3
<1>14. At(m, a + 2, path) /\ At(m, a + b + 6, lines)
  BY <1>7, <1>8, <1>10
<1> QED BY <1>4, <1>8, <1>10, <1>11, <1>12, <1>13, <1>14 DEF Laid, a, b, f, lines, m, end

(* A request that NewRequest puts together is complete, and the parser     *)
(* reads in it the method, the path and the headers of which it was made.  *)
LEMMA LaidIsRead ==
    ASSUME NEW method \in Unbroken, method # << >>, NEW path \in Unbroken, path # << >>,
           NEW headers, Forwardable(headers), NEW m, NEW e,
           Laid(m, e, method, path, FlattenSeq(Lines(headers)))
    PROVE  \E ret \in Nat \ {0} : ParseFrom(m, e, SkipEmptyLine(m, e)) =
               Result(ret, method, path, ForwardedHeaders(headers))
<1> DEFINE lines == FlattenSeq(Lines(headers))
           a == Len(method)
           b == Len(path)
           f == Len(lines)
           c == a + b + 6 + f
<1>0. Memory(m, e)
  BY DEF Laid
<1>1. /\ Memory(m, e) /\ e = c + 3 /\ At(m, 1, method) /\ m[a + 1] = "SP" /\ At(m, a + 2, path)
      /\ m[a + b + 2] = "SP" /\ m[a + b + 3] = "VERSION" /\ m[a + b + 4] = "CR"
      /\ m[a + b + 5] = "LF" /\ At(m, a + b + 6, lines) /\ m[c] = "CR" /\ m[c + 1] = "LF"
  BY DEF Laid
<1>2. /\ e \in Nat /\ Len(m) \in Nat /\ e < Len(m) /\ m \in Seq(Symbols)
  BY <1>1, LenProperties DEF Memory
<1>3. a \in Nat \ {0} /\ b \in Nat \ {0} /\ f \in Nat
  <2>1. method \in Seq(Symbols) /\ path \in Seq(Symbols) /\ lines \in Seq(Symbols)
    BY PartsOfRequest
  <2> QED BY <2>1, LenProperties, EmptySeq
<1> HIDE DEF lines
<1>4. /\ method[1] \notin Controls \cup {"SP"} /\ path[1] \notin Controls \cup {"SP"}
  <2>1. 1 \in 1 .. Len(method) /\ 1 \in 1 .. Len(path)
    BY <1>3
  <2>2. method[1] \in Symbols \ (Controls \cup {"SP"}) /\ path[1] \in Symbols \ (Controls \cup {"SP"})
    BY <2>1, ElementOfSeq DEF Unbroken
  <2> QED BY <2>2
<1>5. m[1] = method[1] /\ m[a + 2] = path[1]
  <2>1. m[1 + 1 - 1] = method[1] /\ m[a + 2 + 1 - 1] = path[1]
    <3>1. 1 \in 1 .. Len(method) /\ 1 \in 1 .. Len(path)
      BY <1>3
    <3> HIDE DEF a
    <3> QED BY <1>1, <3>1 DEF At
  <2>2. a + 2 + 1 - 1 = a + 2 /\ 1 + 1 - 1 = 1
    BY <1>3
  <2> QED BY <2>1, <2>2
<1> HIDE DEF a, b, f
<1>6. SkipEmptyLine(m, e) = 1
  BY <1>4, <1>5 DEF SkipEmptyLine, Controls
<1> DEFINE stop == a + 1
           first == a + 2
           last == a + b + 2
           v == a + b + 3
           rest == a + b + 6
           ret == c + 2
<1>7. /\ 1 + a = stop /\ stop + 1 = first /\ first + b = last /\ last + 1 = v /\ v + 3 = rest
      /\ v + 1 = a + b + 4 /\ v + 2 = a + b + 5 /\ c = rest + f
      /\ 1 \in 1 .. e /\ stop \in 1 .. e /\ first \in 1 .. e /\ last \in 1 .. e /\ v \in 1 .. e - 2
      /\ rest \in 1 .. e /\ c \in 1 .. e - 1 /\ ret \in Nat \ {0}
      /\ ~(stop < 0) /\ ~(last < 0) /\ ~(rest < 0)
  BY <1>1, <1>2, <1>3
<1>8. /\ At(m, first, path) /\ m[stop] = "SP" /\ m[last] = "SP" /\ m[v] = "VERSION"
      /\ m[v + 1] = "CR" /\ m[v + 2] = "LF" /\ At(m, rest, lines)
      /\ m[first] \notin Controls \cup {"SP"}
  BY <1>1, <1>4, <1>5, <1>7
<1> HIDE DEF stop, first, last, v, rest, c, ret
<1>9. AdvanceToken(m, e, 1) = stop /\ SubSeq(m, 1, stop - 1) = method
  <2>1. 1 + Len(method) = stop /\ 1 \in 1 .. e /\ stop <= e /\ m[stop] = "SP"
    BY <1>2, <1>7, <1>8 DEF a
  <2>2. At(m, 1, method)
    BY <1>1
  <2> QED BY <1>0, <2>1, <2>2, TokenAgain
<1>10. AdvanceToken(m, e, first) = last /\ SubSeq(m, first, last - 1) = path
  <2>1. first + Len(path) = last /\ first \in 1 .. e /\ last <= e /\ m[last] = "SP"
    BY <1>2, <1>7, <1>8 DEF b
  <2>2. At(m, first, path)
    BY <1>8
  <2> QED BY <1>0, <2>1, <2>2, TokenAgain
<1>11. SkipBlanks(m, stop) = first /\ SkipBlanks(m, last) = v
  <2>1. ASSUME NEW p \in 1 .. e, m[p] = "SP", m[p + 1] # "SP"
        PROVE  SkipBlanks(m, p) = p + 1
    <3>1. p \in Nat \ {0} /\ p + 1 <= Len(m)
      BY <1>2
    <3> QED BY <1>2, <2>1, <3>1, OneBlank
  <2>2. m[stop + 1] # "SP" /\ m[last + 1] # "SP"
    BY <1>7, <1>8
  <2>3. SkipBlanks(m, stop) = stop + 1
    BY <1>7, <1>8, <2>1, <2>2
  <2>4. SkipBlanks(m, last) = last + 1
    BY <1>7, <1>8, <2>1, <2>2
  <2> QED BY <1>7, <2>3, <2>4
<1>12. parse_http_version(m, e, v) = rest
  <2>1. parse_http_version(m, e, v) = v + 3
    <3>1. v \in 1 .. e - 2 /\ m[v] = "VERSION" /\ m[v + 1] = "CR" /\ m[v + 2] = "LF"
      BY <1>7, <1>8
    <3> QED BY <1>0, <3>1, VersionAgain
  <2> QED BY <1>7, <2>1
<1>13. parse_headers(m, e, rest) = [ret |-> ret, headers |-> ForwardedHeaders(headers)]
  <2>1. At(m, rest, FlattenSeq(Lines(headers))) /\ c = rest + Len(FlattenSeq(Lines(headers)))
    BY <1>7, <1>8 DEF f, lines
  <2>2. parse_headers(m, e, rest) = [ret |-> c + 2, headers |-> FlattenSeq(Kept(headers))]
    <3>1. m[c] = "CR" /\ m[c + 1] = "LF" /\ rest \in 1 .. e /\ c \in 1 .. e - 1
      BY <1>1, <1>7 DEF c
    <3> QED BY <1>0, <2>1, <3>1, HeadersAgain
  <2>3. FlattenSeq(Kept(headers)) = ForwardedHeaders(headers)
    BY DEF Kept, ForwardedHeaders
  <2> QED BY <2>2, <2>3 DEF ret
<1>14. ParseFrom(m, e, 1) = parse_request(m, e, 1, stop)
  BY <1>9 DEF ParseFrom
<1>15. /\ ~(stop < 0) /\ ~(last < 0) /\ ~(rest < 0)
       /\ SubSeq(m, 1, stop - 1) = method /\ SkipBlanks(m, stop) = first
       /\ AdvanceToken(m, e, first) = last /\ SubSeq(m, first, last - 1) = path
       /\ parse_http_version(m, e, SkipBlanks(m, last)) = rest
       /\ parse_headers(m, e, rest) = [ret |-> ret, headers |-> ForwardedHeaders(headers)]
  BY <1>7, <1>9, <1>10, <1>11, <1>12, <1>13
<1>16. parse_request(m, e, 1, stop) = parse_path(m, e, method, first, last)
  BY <1>15 DEF parse_request
<1>17. parse_path(m, e, method, first, last) = parse_rest(m, e, method, path, rest)
  BY <1>15 DEF parse_path
<1>18. parse_rest(m, e, method, path, rest) = Result(ret, method, path, ForwardedHeaders(headers))
  BY <1>15 DEF parse_rest
<1>19. ParseFrom(m, e, 1) = Result(ret, method, path, ForwardedHeaders(headers))
  BY <1>14, <1>16, <1>17, <1>18
<1> QED BY <1>6, <1>7, <1>19

(* The request that is sent to the server is complete, and the parser      *)
(* reads in it the method, the path and the headers of which it was made.  *)
LEMMA RequestAgain ==
    ASSUME NEW method \in Unbroken, method # << >>, NEW path \in Unbroken, path # << >>,
           NEW headers, Forwardable(headers), NEW r, r = NewRequest(method, path, headers)
    PROVE  \E ret \in Nat \ {0} : phr_parse_request(r, <<"CTL">>) =
               Result(ret, method, path, ForwardedHeaders(headers))
<1>1. Laid(r \o <<"CTL">>, Len(r), method, path, FlattenSeq(Lines(headers)))
  BY RequestIsLaid
<1>2. r # << >>
  <2>1. r \in Seq(Symbols)
    BY PartsOfRequest
  <2>2. Len(r) > 0
    <3>1. Len(method) \in Nat /\ Len(path) \in Nat /\ Len(FlattenSeq(Lines(headers))) \in Nat
      BY PartsOfRequest, LenProperties
    <3>2. Len(r) = Len(method) + Len(path) + 6 + Len(FlattenSeq(Lines(headers))) + 3
      BY <1>1 DEF Laid
    <3> QED BY <3>1, <3>2
  <2> QED BY <2>2
<1> DEFINE m == r \o <<"CTL">>
<1>3. phr_parse_request(r, <<"CTL">>) = ParseFrom(m, Len(r), SkipEmptyLine(m, Len(r)))
  BY <1>2 DEF phr_parse_request
<1> HIDE DEF m
<1>4. Laid(m, Len(r), method, path, FlattenSeq(Lines(headers)))
  BY <1>1 DEF m
<1> QED BY <1>3, <1>4, LaidIsRead
-----------------------------------------------------------------------------
(* The last header of that name counts, so that one more header changes    *)
(* the host, or does not matter.                                           *)
LEMMA HostOfMore ==
    ASSUME NEW s \in Seq(Headers), NEW header \in Headers
    PROVE  Host(s \o <<header>>) = IF header.name = <<"Host">> THEN header.value ELSE Host(s)
<1> DEFINE t == s \o <<header>>
           n == Len(s)
           I == {i \in 1 .. n : s[i].name = <<"Host">>}
           J == {i \in 1 .. Len(t) : t[i].name = <<"Host">>}
<1>1. t = Append(s, header)
  BY AppendIsConcat
<1>2. /\ n \in Nat /\ Len(t) = n + 1 /\ t[n + 1] = header
      /\ \A i \in 1 .. n : t[i] = s[i]
  <2> HIDE DEF t
  <2> QED BY <1>1, AppendProperties, LenProperties
<1>3. /\ Host(s) = LET last == IF I # {} THEN Max(I) ELSE 0
                   IN IF last = 0 THEN << >> ELSE s[last].value
      /\ Host(t) = LET last == IF J # {} THEN Max(J) ELSE 0
                   IN IF last = 0 THEN << >> ELSE t[last].value
  BY DEF Host, SelectLastInSeq
<1>4. CASE header.name = <<"Host">>
  <2>1. n + 1 \in J /\ \A i \in J : n + 1 >= i /\ i \in Nat
    <3> HIDE DEF t
    <3> QED BY <1>2, <1>4
  <2>2. Max(J) = n + 1
    <3>1. Max(J) \in J /\ \A i \in J : Max(J) >= i
      <4> HIDE DEF J
      <4> QED BY <2>1 DEF Max
    <3>2. Max(J) \in Nat /\ Max(J) >= n + 1 /\ n + 1 >= Max(J)
      <4> HIDE DEF J
      <4> QED BY <2>1, <3>1
    <3> HIDE DEF J
    <3> QED BY <1>2, <3>2
  <2>3. J # {} /\ n + 1 # 0
    <3> HIDE DEF J
    <3> QED BY <1>2, <2>1
  <2> HIDE DEF J, t, n
  <2>4. Host(t) = t[n + 1].value
    BY <1>3, <2>2, <2>3
  <2> QED BY <1>2, <1>4, <2>4 DEF t
<1>5. CASE header.name # <<"Host">>
  <2>1. J = I
    <3> HIDE DEF t
    <3>1. \A i \in 1 .. Len(t) : i = n + 1 \/ i \in 1 .. n
      BY <1>2
    <3>2. \A i \in 1 .. n : i \in 1 .. Len(t)
      BY <1>2
    <3>3. \A i \in J : i \in I
      BY <1>2, <1>5, <3>1
    <3>4. \A i \in I : i \in J
      BY <1>2, <3>2
    <3> HIDE DEF I, J
    <3> QED BY <3>3, <3>4
  <2>2. I # {} => Max(I) \in I
    <3>1. I \in SUBSET (0 .. n)
      OBVIOUS
    <3> SUFFICES ASSUME I # {} PROVE Max(I) \in I
      OBVIOUS
    <3>2. PICK x \in I : \A i \in I : i <= x
      <4> HIDE DEF I
      <4> QED BY <1>2, <3>1, GreatestNat
    <3>3. \A i \in I : x >= i
      BY <1>2, <3>2
    <3> HIDE DEF I
    <3> QED BY <3>3 DEF Max
  <2> DEFINE last == IF I # {} THEN Max(I) ELSE 0
  <2>3. last # 0 => t[last] = s[last]
    <3>1. last # 0 => last \in 1 .. n
      BY <2>2
    <3> HIDE DEF last, t
    <3> QED BY <1>2, <3>1
  <2>4. Host(t) = IF last = 0 THEN << >> ELSE t[last].value
    <3> HIDE DEF I, J, t
    <3> QED BY <1>3, <2>1
  <2>5. Host(s) = IF last = 0 THEN << >> ELSE s[last].value
    BY <1>3
  <2> HIDE DEF last, t
  <2>6. Host(t) = Host(s)
    BY <2>3, <2>4, <2>5
  <2> QED BY <1>5, <2>6 DEF t
<1> QED BY <1>4, <1>5

(* A Connection header is not the host.                                    *)
LEMMA HostIsKept ==
    ASSUME NEW headers \in Seq(Headers)
    PROVE  Host(ForwardedHeaders(headers)) = Host(headers)
<1> DEFINE n == Len(headers)
<1>1. n \in Nat /\ Kept(headers) \in Seq(Seq(Headers)) /\ Len(Kept(headers)) = n /\ n \in 0 .. n
      /\ \A k \in 1 .. n : /\ headers[k] \in Headers
                           /\ Kept(headers)[k] = IF IsConnection(headers[k]) THEN << >>
                                                 ELSE <<headers[k]>>
  BY LenProperties, LinesType, ElementOfSeq
<1>2. PICK H : Joins(H, Headers, Kept(headers))
  BY <1>1, FlattenJoins
<1>3. ForwardedHeaders(headers) = H[n] /\ H[0] = << >>
      /\ (\A k \in 0 .. n : H[k] \in Seq(Headers))
      /\ (\A k \in 1 .. n : H[k] = H[k - 1] \o Kept(headers)[k])
  BY <1>1, <1>2 DEF Joins, Kept, ForwardedHeaders
<1> DEFINE Good(k) == Host(H[k]) = Host(SubSeq(headers, 1, k))
           Bad == {k \in 0 .. n : ~Good(k)}
<1>4. SUFFICES ASSUME Bad # {} PROVE FALSE
  <2>1. CASE Bad = {}
    <3>1. Host(H[n]) = Host(SubSeq(headers, 1, n))
      BY <1>1, <2>1
    <3>2. SubSeq(headers, 1, n) = headers
      BY SubSeqFull
    <3> QED BY <1>3, <3>1, <3>2
  <2> QED BY <1>4, <2>1
<1>5. PICK k \in Bad : \A i \in Bad : k <= i
  <2>1. Bad \in SUBSET Nat
    OBVIOUS
  <2> HIDE DEF Bad
  <2> QED BY <1>4, <2>1, LeastNat
<1>6. Good(0)
  <2>1. SubSeq(headers, 1, 0) = << >>
    BY SubSeqEmpty
  <2> QED BY <1>3, <2>1
<1> HIDE DEF n, Good
<1>7. k \in 1 .. n /\ k - 1 \in 0 .. n /\ ~(k <= k - 1)
  BY <1>1, <1>5, <1>6
<1>8. Good(k - 1)
  <2>1. k - 1 \notin Bad
    BY <1>5, <1>7
  <2> QED BY <1>7, <2>1
<1> DEFINE header == headers[k]
           before == SubSeq(headers, 1, k - 1)
           kept == H[k - 1]
<1>9. SubSeq(headers, 1, k) = before \o <<header>> /\ before \in Seq(Headers)
      /\ header \in Headers
  <2>1. k \in 1 .. Len(headers) /\ 1 \in 1 .. Len(headers) /\ k \in 1 .. Len(headers)
    BY <1>1, <1>7 DEF n
  <2>2. SubSeq(headers, 1, k) = before \o <<header>>
    BY <2>1, SubSeqRecursiveSecond
  <2>3. \A i \in 1 .. k - 1 : headers[i] \in Headers
    BY <1>1, <1>7
  <2>4. before \in Seq(Headers)
    <3>1. 1 \in Int /\ k - 1 \in Int
      BY <1>7
    <3> QED BY <2>3, <3>1, SubSeqProperties
  <2> QED BY <1>1, <1>7, <2>2, <2>4
<1>10. kept \in Seq(Headers) /\ Host(kept) = Host(before)
       /\ H[k] = kept \o (IF IsConnection(header) THEN << >> ELSE <<header>>)
  <2>1. H[k] = kept \o Kept(headers)[k] /\ kept \in Seq(Headers)
    BY <1>3, <1>7
  <2>2. Kept(headers)[k] = IF IsConnection(header) THEN << >> ELSE <<header>>
    BY <1>1, <1>7
  <2> QED BY <1>8, <2>1, <2>2 DEF Good
<1> HIDE DEF header, before, kept
<1>11. Host(SubSeq(headers, 1, k)) =
           IF header.name = <<"Host">> THEN header.value ELSE Host(before)
  BY <1>9, HostOfMore
<1>12. CASE IsConnection(header)
  <2>1. header.name = <<"Connection">> /\ header.name # <<"Host">>
    <3>1. header.name = <<"Connection">>
      BY <1>12 DEF IsConnection
    <3>2. header.name[1] = "Connection"
      BY <3>1
    <3>3. header.name = <<"Host">> => header.name[1] = "Host"
      OBVIOUS
    <3> QED BY <3>1, <3>2, <3>3
  <2>2. H[k] = kept
    BY <1>10, <1>12, ConcatEmptySeq
  <2>3. Good(k)
    BY <1>10, <1>11, <2>1, <2>2 DEF Good
  <2> QED BY <1>5, <2>3
<1>13. CASE ~IsConnection(header)
  <2>1. Host(H[k]) = IF header.name = <<"Host">> THEN header.value ELSE Host(kept)
    BY <1>9, <1>10, <1>13, HostOfMore
  <2>2. Good(k)
    BY <1>10, <1>11, <2>1 DEF Good
  <2> QED BY <1>5, <2>2
<1> QED BY <1>12, <1>13
-----------------------------------------------------------------------------
(* The parser on a request in memory, or on nothing.                       *)
LEMMA ResultStored ==
    ASSUME NEW s \in Seq(Symbols), NEW b \in Behinds
    PROVE  Stored(phr_parse_request(s, b))
<1>1. b \in Seq(Symbols) /\ Len(b) > 0 /\ b[Len(b)] = "CTL"
  BY RequestAssumption
<1>2. CASE s = << >>
  <2>1. phr_parse_request(s, b) = Result(Partial, << >>, << >>, << >>)
    BY <1>2 DEF phr_parse_request
  <2>2. Partial \in Int /\ << >> \in Unbroken
    BY Nothing DEF Partial
  <2> QED BY <2>1, <2>2, StoredLine
<1>3. CASE s # << >>
  <2> DEFINE m == s \o b
             e == Len(s)
  <2>1. Memory(m, e)
    BY <1>1, InMemory
  <2>2. e # 0
    BY <1>3, EmptySeq
  <2>3. phr_parse_request(s, b) = ParseFrom(m, e, SkipEmptyLine(m, e))
    BY <1>3 DEF phr_parse_request
  <2> HIDE DEF m, e
  <2> QED BY <2>1, <2>2, <2>3, StoredResult
<1> QED BY <1>2, <1>3

(* What parseHttpRequest accepts can be put together again.                *)
LEMMA AcceptedIsForwardable ==
    ASSUME NEW result, Stored(result), Outcome(result) = "fetch"
    PROVE  /\ result.method \in Unbroken /\ result.method # << >>
           /\ result.path \in Unbroken /\ result.path # << >>
           /\ Forwardable(result.headers)
<1>1. result.ret # Failed /\ ~HasNull(result)
  BY DEF Outcome
<1>2. result.path # << >> /\ \A i \in DOMAIN result.headers : result.headers[i].name # << >>
  BY <1>1 DEF HasNull
<1>3. result.headers \in Seq(Headers) /\ DOMAIN result.headers = 1 .. Len(result.headers)
  BY LenProperties DEF Stored
<1> QED BY <1>1, <1>2, <1>3 DEF Stored, Forwardable

(* It is read again as it was put together.                                *)
LEMMA SameIsRead ==
    ASSUME NEW result, Stored(result), Outcome(result) = "fetch",
           NEW r, r = NewRequest(result.method, result.path, result.headers),
           NEW again, again = phr_parse_request(r, <<"CTL">>)
    PROVE  /\ r \in Seq(Symbols)
           /\ again.ret > 0
           /\ Fields(again) = [Fields(result) EXCEPT !.headers = ForwardedHeaders(@)]
<1> DEFINE method == result.method
           path == result.path
           headers == result.headers
<1>1. /\ method \in Unbroken /\ method # << >> /\ path \in Unbroken /\ path # << >>
      /\ Forwardable(headers)
  BY AcceptedIsForwardable
<1>2. r = NewRequest(method, path, headers)
  OBVIOUS
<1>3. Fields(result) = [method |-> method, path |-> path, host |-> Host(headers),
                        headers |-> headers]
  BY DEF Fields
<1> HIDE DEF method, path, headers
<1>4. PICK ret \in Nat \ {0} : again = Result(ret, method, path, ForwardedHeaders(headers))
  BY <1>1, <1>2, RequestAgain
<1>5. /\ again.ret = ret /\ again.method = method /\ again.path = path
      /\ again.headers = ForwardedHeaders(headers)
  BY <1>4 DEF Result
<1>6. Host(ForwardedHeaders(headers)) = Host(headers)
  BY <1>1, HostIsKept DEF Forwardable
<1>7. Fields(again) = [method |-> method, path |-> path, host |-> Host(headers),
                       headers |-> ForwardedHeaders(headers)]
  BY <1>5, <1>6 DEF Fields
<1>8. r \in Seq(Symbols)
  BY <1>1, <1>2, PartsOfRequest
<1> QED BY <1>3, <1>4, <1>5, <1>7, <1>8
-----------------------------------------------------------------------------
(* What is in clientRequest: what was received, until the request that     *)
(* goes to the server takes its place, which is made of what the parser    *)
(* stored.                                                                 *)
Forwarding == /\ Parsing
              /\ stream \in Streams
              /\ pc \in Answered \cup {"recv", "parse"}
              /\ reqSize \in Int
              /\ DOMAIN request = DOMAIN NoRequest
              /\ pc # "fetch" => clientRequest = Received
              /\ pc = "fetch" =>
                     /\ Outcome(Parsed) = "fetch"
                     /\ clientRequest = NewRequest(Parsed.method, Parsed.path, Parsed.headers)

LEMMA InitForwarding == Init => Forwarding
<1> SUFFICES ASSUME Init PROVE Forwarding
  OBVIOUS
<1>1. /\ Parsing /\ stream \in Streams /\ pc = "recv" /\ reqSize = 0 /\ request = NoRequest
  BY InitParsing DEF Init
<1>2. clientRequest = Received
  BY <1>1 DEF Parsing
<1> QED BY <1>1, <1>2 DEF Forwarding, Answered

(* What was received, and what the parser makes of it.                     *)
LEMMA ReceivedType ==
    ASSUME Parsing
    PROVE  Received \in Seq(Symbols) /\ behind \in Behinds /\ Stored(Parsed)
<1>1. stream \in Seq(Symbols) /\ got \in 0 .. Len(stream) /\ behind \in Behinds
      /\ Len(stream) \in Nat
  BY LenProperties DEF Parsing, Reading
<1>2. Received \in Seq(Symbols)
  BY <1>1, SubSeqProperties DEF Received
<1> QED BY <1>1, <1>2, ResultStored DEF Parsed

LEMMA ForwardingStep == Forwarding /\ [Next]_vars => Forwarding'
<1> SUFFICES ASSUME Forwarding, [Next]_vars PROVE Forwarding'
  OBVIOUS
<1>1. Parsing /\ Parsing' /\ stream' \in Streams
  BY ParsingStep DEF Forwarding, Next, Recv, RecvEnd, RecvFails, ParseRequest, Done, vars
<1>2. CASE Recv
  <2>1. /\ pc' \in {"recv", "parse"} /\ reqSize' = reqSize /\ request' = request
    BY <1>2 DEF Recv
  <2> QED BY <1>1, <2>1 DEF Forwarding, Parsing, Answered
<1>3. CASE RecvEnd \/ RecvFails
  <2>1. /\ pc' \in {"parse", "internalError"} /\ reqSize' = reqSize /\ request' = request
        /\ Received' = Received /\ clientRequest' = clientRequest /\ pc = "recv"
    BY <1>3 DEF RecvEnd, RecvFails, Received
  <2> QED BY <1>1, <2>1 DEF Forwarding, Answered
<1>4. CASE ParseRequest
  <2>1. pc = "parse" /\ clientRequest = Received
    BY <1>4 DEF ParseRequest, Forwarding
  <2>2. Received' = Received /\ Parsed' = Parsed
    BY <1>4 DEF ParseRequest, Received, Parsed
  <2>3. /\ reqSize' = Parsed.ret
        /\ pc' = Outcome(Parsed)
        /\ IF pc' = "fetch"
           THEN /\ request' = Fields(Parsed)
                /\ clientRequest' = NewRequest(Parsed.method, Parsed.path, Parsed.headers)
           ELSE UNCHANGED <<request, clientRequest>>
    BY <1>4, <2>1 DEF ParseRequest, Parsed
  <2>4. pc' \in Answered /\ Parsed.ret \in Int
    BY <1>1, <2>3, ReceivedType DEF Outcome, Answered, Stored
  <2>5. DOMAIN request' = DOMAIN NoRequest
    BY <2>3 DEF Forwarding, Fields, NoRequest
  <2>6. (Outcome(Parsed) = "fetch")' <=> Outcome(Parsed) = "fetch"
    BY <2>2
  <2>7. (NewRequest(Parsed.method, Parsed.path, Parsed.headers))' =
            NewRequest(Parsed.method, Parsed.path, Parsed.headers)
    BY <2>2
  <2> QED BY <1>1, <2>1, <2>2, <2>3, <2>4, <2>5, <2>6, <2>7 DEF Forwarding
<1>5. CASE Done \/ UNCHANGED vars
  <2>1. UNCHANGED vars
    BY <1>5 DEF Done
  <2>2. Received' = Received /\ Parsed' = Parsed
    BY <2>1 DEF vars, Received, Parsed
  <2>3. (Outcome(Parsed) = "fetch")' <=> Outcome(Parsed) = "fetch"
    BY <2>2
  <2>4. (NewRequest(Parsed.method, Parsed.path, Parsed.headers))' =
            NewRequest(Parsed.method, Parsed.path, Parsed.headers)
    BY <2>2
  <2> QED BY <1>1, <2>1, <2>2, <2>3, <2>4 DEF Forwarding, vars
<1> QED BY <1>2, <1>3, <1>4, <1>5 DEF Next

LEMMA ForwardingTypes == Forwarding => TypeOK
<1> SUFFICES ASSUME Forwarding PROVE TypeOK
  OBVIOUS
<1>1. /\ Parsing /\ stream \in Streams /\ pc \in Answered \cup {"recv", "parse"}
      /\ reqSize \in Int /\ DOMAIN request = DOMAIN NoRequest
  BY DEF Forwarding
<1>2. Received \in Seq(Symbols) /\ behind \in Behinds /\ Stored(Parsed)
  BY <1>1, ReceivedType
<1>3. clientRequest \in Seq(Symbols)
  <2>1. CASE pc = "fetch"
    <3>1. Outcome(Parsed) = "fetch"
          /\ clientRequest = NewRequest(Parsed.method, Parsed.path, Parsed.headers)
      BY <2>1 DEF Forwarding
    <3> QED BY <1>2, <3>1, SameIsRead
  <2>2. CASE pc # "fetch"
    BY <1>2, <2>2 DEF Forwarding
  <2> QED BY <2>1, <2>2
<1> QED BY <1>1, <1>2, <1>3 DEF TypeOK, Parsing, Reading

(* The variables have values the code can give them, whatever clients send *)
(* and however recv cuts it.                                               *)
THEOREM RequestTypes == Spec => []TypeOK
<1> QED BY InitForwarding, ForwardingStep, ForwardingTypes, PTL DEF Spec

LEMMA ForwardingSame == Forwarding => ForwardedIsSame
<1> SUFFICES ASSUME Forwarding, pc = "fetch"
             PROVE  \E again \in {phr_parse_request(clientRequest, <<"CTL">>)} :
                        /\ again.ret > 0
                        /\ Fields(again) = [request EXCEPT !.headers = ForwardedHeaders(@)]
  BY DEF ForwardedIsSame
<1>1. /\ Outcome(Parsed) = "fetch" /\ request = Fields(Parsed)
      /\ clientRequest = NewRequest(Parsed.method, Parsed.path, Parsed.headers)
      /\ Stored(Parsed)
  BY ReceivedType DEF Forwarding, Parsing
<1> DEFINE again == phr_parse_request(clientRequest, <<"CTL">>)
<1>2. again.ret > 0 /\ Fields(again) = [Fields(Parsed) EXCEPT !.headers = ForwardedHeaders(@)]
  BY <1>1, SameIsRead
<1> HIDE DEF again
<1>3. Fields(again) = [request EXCEPT !.headers = ForwardedHeaders(@)]
  BY <1>1, <1>2
<1> QED BY <1>2, <1>3 DEF again

(* What goes to the server in place of the client's request is a complete  *)
(* request, and the same parser reads in it the method, the path, the host *)
(* and all headers but Connection that it read in the client's.            *)
THEOREM ServerGetsSameRequest == Spec => []ForwardedIsSame
<1> QED BY InitForwarding, ForwardingStep, ForwardingSame, PTL DEF Spec
=============================================================================
