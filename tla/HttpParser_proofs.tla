-------------------------- MODULE HttpParser_proofs ---------------------------
(***************************************************************************)
(* What the parser makes of a part of a request is what it makes of the    *)
(* whole, unless it calls the part partial (PartParsedAsWhole), and it     *)
(* does not call a request partial that ends in an empty line and has a    *)
(* version (WholeRequestParsed).  Both are about every request, every      *)
(* memory behind it and every number of headers.  At the end: what kind of *)
(* method, path and headers it stores, and that what is put in memory is   *)
(* read there.                                                             *)
(*                                                                         *)
(* m is a request with what follows it in memory, e the position of its    *)
(* last symbol; where there are two, w and z are the same for the whole.   *)
(***************************************************************************)
EXTENDS HttpParser, SequenceTheorems, WellFoundedInduction, FiniteSetTheorems, TLAPS

(* What is an induction elsewhere, is here an argument about the least     *)
(* number for which something is not so.                                   *)
LEMMA LeastNat ==
    ASSUME NEW T \in SUBSET Nat, T # {}
    PROVE  \E x \in T : \A y \in T : x <= y
<1>1. PICK x \in T : \A y \in T : ~ (<<y, x>> \in OpToRel(<, Nat))
  BY NatLessThanWellFounded, WFMin
<1>2. ASSUME NEW y \in T, y < x PROVE FALSE
  <2>1. x \in Nat /\ y \in Nat
    OBVIOUS
  <2>2. <<y, x>> \in OpToRel(<, Nat)
    BY <1>2, <2>1 DEF OpToRel
  <2> QED BY <1>1, <2>2
<1>3. ASSUME NEW y \in T PROVE x <= y
  <2>1. x \in Nat /\ y \in Nat
    OBVIOUS
  <2> QED BY <1>2, <2>1
<1> QED BY <1>3

(* A set of numbers that has a bound has a greatest.                       *)
LEMMA GreatestNat ==
    ASSUME NEW k \in Nat, NEW T \in SUBSET (0 .. k), T # {}
    PROVE  \E x \in T : \A y \in T : y <= x
<1> DEFINE R == {k - y : y \in T}
<1>1. R \in SUBSET Nat /\ R # {}
  <2>1. \A y \in T : y \in 0 .. k /\ k - y \in Nat
    OBVIOUS
  <2> QED BY <2>1
<1>2. PICK r \in R : \A s \in R : r <= s
  <2> HIDE DEF R
  <2> QED BY <1>1, LeastNat
<1>3. PICK x \in T : r = k - x
  BY <1>2
<1>4. \A y \in T : k - x <= k - y
  BY <1>2, <1>3
<1> QED BY <1>3, <1>4
-----------------------------------------------------------------------------
(* The first position with a symbol of S, where there is one.              *)
LEMMA FirstOfIs ==
    ASSUME NEW m \in Seq(Symbols), NEW p \in Nat, NEW S,
           NEW i \in p .. Len(m), m[i] \in S
    PROVE  /\ FirstOf(m, p, S) \in p .. i
           /\ m[FirstOf(m, p, S)] \in S
           /\ \A j \in p .. FirstOf(m, p, S) - 1 : m[j] \notin S
<1> DEFINE I == {j \in p .. Len(m) : m[j] \in S}
<1>1. FirstOf(m, p, S) = IF I # {} THEN Min(I) ELSE 0
  BY DEF FirstOf, SelectInSubSeq
<1>2. Len(m) \in Nat /\ i \in I /\ I \in SUBSET Nat
  BY LenProperties
<1>3. PICK x \in I : \A y \in I : x <= y
  <2> HIDE DEF I
  <2> QED BY <1>2, LeastNat
<1>4. Min(I) = x
  <2>1. Min(I) \in I /\ \A y \in I : Min(I) <= y
    BY <1>3 DEF Min
  <2>2. Min(I) \in Nat /\ x \in Nat /\ Min(I) <= x /\ x <= Min(I)
    <3> HIDE DEF I
    <3> QED BY <1>2, <1>3, <2>1
  <2> HIDE DEF I
  <2> QED BY <2>2
<1>5. FirstOf(m, p, S) = x
  BY <1>1, <1>2, <1>4
<1>6. \A j \in p .. x - 1 : m[j] \notin S
  <2> SUFFICES ASSUME NEW j \in p .. x - 1, m[j] \in S PROVE FALSE
    OBVIOUS
  <2>1. j \in I
    BY <1>2, <1>3
  <2> QED BY <1>2, <1>3, <2>1
<1> QED BY <1>2, <1>3, <1>5, <1>6

(* What the parser is given: there is something in memory behind the       *)
(* request, and somewhere a control character at which every search ends.  *)
Memory(m, e) == /\ m \in Seq(Symbols)
                /\ e \in Nat
                /\ e < Len(m)
                /\ m[Len(m)] = "CTL"

(* A symbol of these kinds is behind every position in memory.             *)
LEMMA Found ==
    ASSUME NEW m, NEW e, Memory(m, e), NEW p \in 1 .. Len(m), NEW S, "CTL" \in S
    PROVE  /\ FirstOf(m, p, S) \in p .. Len(m)
           /\ m[FirstOf(m, p, S)] \in S
           /\ \A j \in p .. FirstOf(m, p, S) - 1 : m[j] \notin S
<1>1. Len(m) \in p .. Len(m) /\ m[Len(m)] \in S /\ m \in Seq(Symbols) /\ p \in Nat
  BY LenProperties DEF Memory
<1> QED BY <1>1, FirstOfIs

(* Where a line may end that is at its end at p.                           *)
LEMMA EndsOfLines ==
    ASSUME NEW m, NEW e, Memory(m, e), NEW p \in 1 .. e
    PROVE  EndOfLine(m, e, p) \in {Failed, Partial} \cup p + 1 .. e + 1
BY DEF EndOfLine, Memory, Failed, Partial

(* Where the line of the value at p ends.                                  *)
LEMMA TokensEnd ==
    ASSUME NEW m, NEW e, Memory(m, e), NEW p \in 1 .. e
    PROVE  get_token_to_eol(m, e, p).next \in {Failed, Partial} \cup p + 1 .. e + 1
<1> DEFINE eol == FirstOf(m, p, Controls)
<1>1. p \in 1 .. Len(m) /\ Len(m) \in Nat /\ e \in Nat /\ "CTL" \in Controls
  BY LenProperties DEF Memory, Controls
<1>2. eol \in p .. Len(m)
  BY <1>1, Found
<1>3. get_token_to_eol(m, e, p).next = IF eol > e THEN Partial ELSE EndOfLine(m, e, eol)
  BY DEF get_token_to_eol
<1> HIDE DEF eol
<1>4. CASE eol > e
  BY <1>3, <1>4
<1>5. CASE eol <= e
  <2>1. EndOfLine(m, e, eol) \in {Failed, Partial} \cup eol + 1 .. e + 1
    BY <1>1, <1>2, <1>5, EndsOfLines
  <2> QED BY <1>1, <1>2, <1>3, <1>5, <2>1
<1> QED BY <1>1, <1>2, <1>4, <1>5

(* Where the line of the header at p ends: the parser gets on, and not     *)
(* past the end.                                                           *)
LEMMA LinesEnd ==
    ASSUME NEW m, NEW e, Memory(m, e), NEW p \in 1 .. e, NEW first
    PROVE  Header(m, e, p, first).next \in {Failed, Partial} \cup p + 1 .. e + 1
<1>1. p \in 1 .. Len(m) /\ Len(m) \in Nat /\ e \in Nat
  BY LenProperties DEF Memory
<1>2. /\ \A name, token : Line(name, token).next = token.next
      /\ \A ret : NoLine(ret).next = ret
  BY DEF Line, NoLine
<1>3. CASE ~first /\ m[p] = "SP"
  BY <1>2, <1>3, TokensEnd DEF Header
<1>4. CASE first \/ m[p] # "SP"
  <2> DEFINE colon == FirstOf(m, p, Symbols \ Names)
             value == SkipBlanks(m, colon + 1)
  <2>1. "CTL" \in Symbols \ Names /\ "CTL" \in Symbols \ {"SP"}
    BY ParserAssumption DEF Symbols, Names, Controls
  <2>2. colon \in p .. Len(m)
    BY <1>1, <2>1, Found
  <2>3. Header(m, e, p, first) = NamedLine(m, e, p, colon)
    BY <1>4 DEF Header
  <2> HIDE DEF colon
  <2>4. CASE colon > e \/ m[colon] # "COLON" \/ colon = p
    BY <1>2, <2>3, <2>4 DEF NamedLine
  <2>5. CASE ~(colon > e \/ m[colon] # "COLON" \/ colon = p)
    <3>1. colon + 1 \in 1 .. Len(m)
      BY <1>1, <2>2, <2>5 DEF Memory
    <3>2. value \in colon + 1 .. Len(m)
      BY <2>1, <3>1, Found DEF SkipBlanks
    <3>3. Header(m, e, p, first).next = IF value > e THEN Partial
                                        ELSE get_token_to_eol(m, e, value).next
      BY <1>2, <2>3, <2>5 DEF NamedLine
    <3> HIDE DEF value
    <3>4. value <= e => get_token_to_eol(m, e, value).next \in
                            {Failed, Partial} \cup value + 1 .. e + 1
      BY <1>1, <2>2, <3>1, <3>2, TokensEnd
    <3> QED BY <1>1, <2>2, <3>2, <3>3, <3>4
  <2> QED BY <2>4, <2>5
<1> QED BY <1>3, <1>4

(* The loop over the headers, of ReadHeaders: what has been read before    *)
(* the first turn, and after each of the first k.                          *)
Started(start) == [next |-> start, headers |-> << >>]

Turns(m, e, start, k) == CHOOSE Read : Read = [n \in 0 .. k |->
    IF n = 0 THEN Started(start) ELSE ReadHeader(m, e, Read[n - 1])]

(* There is such a function, for there is no least k for which there is    *)
(* none.                                                                   *)
LEMMA TurnsExist ==
    ASSUME NEW m, NEW e, NEW start, NEW k \in Nat
    PROVE  \E Read : Read = [n \in 0 .. k |->
               IF n = 0 THEN Started(start) ELSE ReadHeader(m, e, Read[n - 1])]
<1> DEFINE Turn(n, Read) == IF n = 0 THEN Started(start) ELSE ReadHeader(m, e, Read[n - 1])
           Good(j) == \E Read : Read = [n \in 0 .. j |-> Turn(n, Read)]
           Bad == {j \in Nat : ~Good(j)}
<1>1. SUFFICES ASSUME Bad # {} PROVE FALSE
  OBVIOUS
<1>2. PICK j \in Bad : \A i \in Bad : j <= i
  <2> HIDE DEF Bad
  <2>1. Bad \in SUBSET Nat
    BY DEF Bad
  <2> QED BY <1>1, <2>1, LeastNat
<1>3. j \in Nat /\ ~Good(j)
  BY <1>2
<1>4. ASSUME j = 0
      PROVE  Good(j)
  <2> DEFINE F == [n \in 0 .. j |-> Started(start)]
  <2>1. F = [n \in 0 .. j |-> Turn(n, F)]
    BY <1>4
  <2> QED BY <2>1
<1>5. ASSUME j # 0
      PROVE  Good(j)
  <2>1. j - 1 \in Nat /\ Good(j - 1)
    BY <1>2, <1>3, <1>5
  <2>2. PICK G : G = [n \in 0 .. j - 1 |-> Turn(n, G)]
    BY <2>1
  <2> DEFINE F == [n \in 0 .. j |-> IF n = j THEN Turn(j, G) ELSE G[n]]
  <2>3. ASSUME NEW n \in 0 .. j
        PROVE  F[n] = Turn(n, F)
    <3>1. n # 0 => F[n - 1] = G[n - 1]
      BY <1>3
    <3>2. Turn(n, F) = Turn(n, G)
      BY <3>1
    <3>3. n # j => G[n] = Turn(n, G)
      BY <1>3, <2>2
    <3> QED BY <3>2, <3>3
  <2>4. F = [n \in 0 .. j |-> Turn(n, F)]
    BY <2>3
  <2> QED BY <2>4
<1> QED BY <1>3, <1>4, <1>5

(* Read[n] is what has been read after n turns.                            *)
IsLoop(Read, m, e, start) ==
    /\ ReadHeaders(m, e, start) = Read[MaxHeaders]
    /\ Read[0] = Started(start)
    /\ \A n \in 1 .. MaxHeaders : Read[n] = ReadHeader(m, e, Read[n - 1])

(* The loop is what the recursive function of ReadHeaders says.            *)
LEMMA LoopOfHeaders ==
    ASSUME NEW m, NEW e, NEW start
    PROVE  \E Read : IsLoop(Read, m, e, start)
<1> DEFINE Read == Turns(m, e, start, MaxHeaders)
<1>0. MaxHeaders \in Nat
  BY ParserAssumption
<1>1. Read = [n \in 0 .. MaxHeaders |->
                  IF n = 0 THEN Started(start) ELSE ReadHeader(m, e, Read[n - 1])]
  BY <1>0, TurnsExist DEF Turns
<1>2. ReadHeaders(m, e, start) = Read[MaxHeaders]
  BY DEF ReadHeaders, Turns, Started
<1> HIDE DEF Read
<1>3. Read[0] = Started(start)
  BY <1>0, <1>1
<1>4. ASSUME NEW n \in 1 .. MaxHeaders
      PROVE  Read[n] = ReadHeader(m, e, Read[n - 1])
  <2>1. n \in 0 .. MaxHeaders /\ n # 0
    BY <1>0
  <2> QED BY <1>1, <2>1
<1>5. IsLoop(Read, m, e, start)
  BY <1>2, <1>3, <1>4 DEF IsLoop
<1> QED BY <1>5
-----------------------------------------------------------------------------
(* The parser on a part of what there is, and on all of it.                *)
Extends(m, e, w, z) == /\ Memory(m, e)
                       /\ Memory(w, z)
                       /\ e <= z
                       /\ \A i \in 1 .. e : m[i] = w[i]

(* What is found in the part is found there in the whole.                  *)
LEMMA SameFirst ==
    ASSUME NEW m, NEW e, NEW w, NEW z, Extends(m, e, w, z),
           NEW p \in 1 .. e + 1, NEW S, "CTL" \in S, FirstOf(m, p, S) <= e
    PROVE  FirstOf(w, p, S) = FirstOf(m, p, S)
<1> DEFINE f == FirstOf(m, p, S)
           g == FirstOf(w, p, S)
<1>1. /\ Memory(m, e) /\ Memory(w, z) /\ e \in Nat /\ z \in Nat /\ e <= z
      /\ Len(m) \in Nat /\ e < Len(m) /\ Len(w) \in Nat /\ z < Len(w)
      /\ w \in Seq(Symbols) /\ p \in 1 .. Len(m)
      /\ \A i \in 1 .. e : m[i] = w[i]
  BY LenProperties DEF Extends, Memory
<1>2. /\ f \in p .. Len(m) /\ m[f] \in S
      /\ \A j \in p .. f - 1 : m[j] \notin S
  BY <1>1, Found
<1>3. f \in 1 .. e /\ f \in p .. Len(w) /\ w[f] \in S
  BY <1>1, <1>2
<1>4. /\ g \in p .. f /\ w[g] \in S
  BY <1>1, <1>3, FirstOfIs
<1> HIDE DEF f, g
<1>5. g \in 1 .. e /\ m[g] \in S
  BY <1>1, <1>3, <1>4
<1> QED BY <1>2, <1>3, <1>4, <1>5 DEF f, g

(* What is cut out of the part.                                            *)
LEMMA SamePart ==
    ASSUME NEW m, NEW e, NEW w, NEW z, Extends(m, e, w, z),
           NEW p \in Nat \ {0}, NEW q \in 0 .. e
    PROVE  SubSeq(m, p, q) = SubSeq(w, p, q)
<1>1. /\ m \in Seq(Symbols) /\ w \in Seq(Symbols) /\ Len(m) \in Nat /\ Len(w) \in Nat
      /\ e \in Nat /\ z \in Nat /\ e <= z /\ e < Len(m) /\ z < Len(w)
      /\ \A i \in 1 .. e : m[i] = w[i]
  BY LenProperties DEF Extends, Memory
<1>2. CASE q < p
  BY <1>1, <1>2, SubSeqEmpty
<1>3. CASE p <= q
  <2>0. p \in Int /\ q \in Int /\ \A i \in p .. q : m[i] \in Symbols /\ w[i] \in Symbols
    <3>1. \A i \in p .. q : i \in 1 .. Len(m) /\ i \in 1 .. Len(w)
      BY <1>1
    <3> QED BY <1>1, <3>1, ElementOfSeq
  <2>1. /\ SubSeq(m, p, q) \in Seq(Symbols) /\ Len(SubSeq(m, p, q)) = q - p + 1
        /\ \A i \in 1 .. q - p + 1 : SubSeq(m, p, q)[i] = m[p + i - 1]
    BY <1>3, <2>0, SubSeqProperties
  <2>2. /\ SubSeq(w, p, q) \in Seq(Symbols) /\ Len(SubSeq(w, p, q)) = q - p + 1
        /\ \A i \in 1 .. q - p + 1 : SubSeq(w, p, q)[i] = w[p + i - 1]
    BY <1>3, <2>0, SubSeqProperties
  <2>3. \A i \in 1 .. q - p + 1 : p + i - 1 \in 1 .. e
    BY <1>1, <1>3
  <2> QED BY <1>1, <2>1, <2>2, <2>3, SeqEqual
<1> QED BY <1>1, <1>2, <1>3

(* The value of a header without the blanks at its end.                    *)
LEMMA SameValue ==
    ASSUME NEW m, NEW e, NEW w, NEW z, Extends(m, e, w, z),
           NEW p \in Nat \ {0}, NEW stop \in 1 .. e
    PROVE  TrimBlanks(m, p, stop) = TrimBlanks(w, p, stop)
<1> DEFINE I == {i \in 1 .. stop - 1 : m[i] # "SP"}
           J == {i \in 1 .. stop - 1 : w[i] # "SP"}
           last == IF I # {} THEN Max(I) ELSE 0
<1>1. e \in Nat /\ \A i \in 1 .. e : m[i] = w[i]
  BY DEF Extends, Memory
<1>2. I = J
  BY <1>1
<1>3. /\ TrimBlanks(m, p, stop) = SubSeq(m, p, last)
      /\ TrimBlanks(w, p, stop) = SubSeq(w, p, last)
  <2>1. TrimBlanks(m, p, stop) = SubSeq(m, p, last)
    BY DEF TrimBlanks, SelectLastInSubSeq
  <2>2. TrimBlanks(w, p, stop) = SubSeq(w, p, IF J # {} THEN Max(J) ELSE 0)
    BY DEF TrimBlanks, SelectLastInSubSeq
  <2> HIDE DEF I, J
  <2> QED BY <1>2, <2>1, <2>2
<1>4. last \in 0 .. e
  <2>1. CASE I = {}
    BY <1>1, <2>1
  <2>2. CASE I # {}
    <3>1. stop \in Nat /\ I \in SUBSET (0 .. stop)
      OBVIOUS
    <3>2. \E x \in I : \A y \in I : y <= x
      <4> HIDE DEF I
      <4> QED BY <2>2, <3>1, GreatestNat
    <3>3. Max(I) \in I
      <4> HIDE DEF I
      <4> QED BY <3>2 DEF Max
    <3> QED BY <1>1, <2>2, <3>3
  <2> QED BY <2>1, <2>2
<1> HIDE DEF last
<1>5. SubSeq(m, p, last) = SubSeq(w, p, last)
  BY <1>4, SamePart
<1> QED BY <1>3, <1>5

(* The end of a line that the parser does not call partial.                *)
LEMMA SameEnd ==
    ASSUME NEW m, NEW e, NEW w, NEW z, Extends(m, e, w, z), NEW p \in 1 .. e,
           EndOfLine(m, e, p) # Partial
    PROVE  EndOfLine(w, z, p) = EndOfLine(m, e, p)
<1>1. e \in Nat /\ z \in Nat /\ e <= z /\ \A i \in 1 .. e : m[i] = w[i]
  BY DEF Extends, Memory
<1>2. m[p] = w[p] /\ (p # e => p + 1 \in 1 .. e /\ m[p + 1] = w[p + 1])
  BY <1>1
<1> QED BY <1>1, <1>2 DEF EndOfLine

(* The value at p and the end of its line.                                 *)
LEMMA SameToken ==
    ASSUME NEW m, NEW e, NEW w, NEW z, Extends(m, e, w, z), NEW p \in 1 .. e,
           get_token_to_eol(m, e, p).next # Partial
    PROVE  get_token_to_eol(w, z, p) = get_token_to_eol(m, e, p)
<1> DEFINE eol == FirstOf(m, p, Controls)
<1>1. /\ Memory(m, e) /\ e \in Nat /\ z \in Nat /\ e <= z /\ p \in 1 .. e + 1 /\ p \in Nat \ {0}
      /\ Len(m) \in Nat /\ p \in 1 .. Len(m) /\ "CTL" \in Controls
  BY LenProperties DEF Extends, Memory, Controls
<1>2. eol \in p .. Len(m)
  BY <1>1, Found
<1>3. get_token_to_eol(m, e, p) =
          IF eol > e THEN [next |-> Partial, value |-> << >>]
          ELSE [next |-> EndOfLine(m, e, eol), value |-> TrimBlanks(m, p, eol)]
  BY DEF get_token_to_eol
<1>4. eol <= e /\ EndOfLine(m, e, eol) # Partial
  BY <1>1, <1>2, <1>3
<1>5. FirstOf(w, p, Controls) = eol
  BY <1>1, <1>4, SameFirst
<1> HIDE DEF eol
<1>6. eol \in 1 .. e
  BY <1>1, <1>2, <1>4
<1>7. EndOfLine(w, z, eol) = EndOfLine(m, e, eol) /\ TrimBlanks(w, p, eol) = TrimBlanks(m, p, eol)
  BY <1>1, <1>4, <1>6, SameEnd, SameValue
<1>8. get_token_to_eol(w, z, p) = [next |-> EndOfLine(w, z, eol), value |-> TrimBlanks(w, p, eol)]
  BY <1>1, <1>5, <1>6 DEF get_token_to_eol
<1> QED BY <1>1, <1>3, <1>6, <1>7, <1>8

(* The header at p.                                                        *)
LEMMA SameLine ==
    ASSUME NEW m, NEW e, NEW w, NEW z, Extends(m, e, w, z), NEW p \in 1 .. e, NEW first,
           Header(m, e, p, first).next # Partial
    PROVE  Header(w, z, p, first) = Header(m, e, p, first)
<1>1. /\ Memory(m, e) /\ e \in Nat /\ z \in Nat /\ e <= z /\ p \in 1 .. e + 1 /\ p \in Nat \ {0}
      /\ Len(m) \in Nat /\ e < Len(m) /\ p \in 1 .. Len(m) /\ m[p] = w[p]
      /\ \A i \in 1 .. e : m[i] = w[i]
  BY LenProperties DEF Extends, Memory
<1>2. /\ \A name, token : Line(name, token).next = token.next
      /\ \A ret : NoLine(ret).next = ret
  BY DEF Line, NoLine
<1>3. CASE ~first /\ m[p] = "SP"
  <2>1. /\ Header(m, e, p, first) = Line(<< >>, get_token_to_eol(m, e, p))
        /\ Header(w, z, p, first) = Line(<< >>, get_token_to_eol(w, z, p))
    BY <1>1, <1>3 DEF Header
  <2>2. get_token_to_eol(m, e, p).next # Partial
    BY <1>2, <2>1
  <2> QED BY <2>1, <2>2, SameToken
<1>4. CASE first \/ m[p] # "SP"
  <2> DEFINE colon == FirstOf(m, p, Symbols \ Names)
             value == SkipBlanks(m, colon + 1)
  <2>1. "CTL" \in Symbols \ Names /\ "CTL" \in Symbols \ {"SP"}
    BY ParserAssumption DEF Symbols, Names, Controls
  <2>2. colon \in p .. Len(m)
    BY <1>1, <2>1, Found
  <2>3. Header(m, e, p, first) = NamedLine(m, e, p, colon)
    BY <1>4 DEF Header
  <2>4. colon <= e
    BY <1>1, <1>2, <2>2, <2>3 DEF NamedLine
  <2>5. FirstOf(w, p, Symbols \ Names) = colon
    BY <1>1, <2>1, <2>4, SameFirst
  <2>6. Header(w, z, p, first) = NamedLine(w, z, p, colon)
    BY <1>1, <1>4, <2>5 DEF Header
  <2> HIDE DEF colon
  <2>7. colon \in 1 .. e /\ colon + 1 \in 1 .. e + 1 /\ colon + 1 \in 1 .. Len(m)
        /\ m[colon] = w[colon] /\ colon <= z
    BY <1>1, <2>2, <2>4
  <2>8. CASE m[colon] # "COLON" \/ colon = p
    BY <1>1, <2>3, <2>6, <2>7, <2>8 DEF NamedLine
  <2>9. CASE m[colon] = "COLON" /\ colon # p
    <3>1. value \in colon + 1 .. Len(m)
      BY <1>1, <2>1, <2>7, Found DEF SkipBlanks
    <3>2. Header(m, e, p, first) =
              IF value > e THEN NoLine(Partial)
              ELSE Line(SubSeq(m, p, colon - 1), get_token_to_eol(m, e, value))
      BY <1>1, <2>3, <2>7, <2>9 DEF NamedLine
    <3>3. value <= e
      <4> HIDE DEF value
      <4> QED BY <1>1, <1>2, <2>7, <3>1, <3>2
    <3>4. SkipBlanks(w, colon + 1) = value
      BY <2>1, <2>7, <3>3, SameFirst DEF SkipBlanks
    <3>5. value \in 1 .. e /\ value <= z
      <4> HIDE DEF value
      <4> QED BY <1>1, <2>7, <3>1, <3>3
    <3>6. Header(w, z, p, first) = Line(SubSeq(w, p, colon - 1), get_token_to_eol(w, z, value))
      BY <1>1, <2>6, <2>7, <2>9, <3>4, <3>5 DEF NamedLine
    <3> HIDE DEF value
    <3>7. Header(m, e, p, first) = Line(SubSeq(m, p, colon - 1), get_token_to_eol(m, e, value))
      BY <1>1, <3>2, <3>5
    <3>8. get_token_to_eol(w, z, value) = get_token_to_eol(m, e, value)
      BY <1>2, <3>5, <3>7, SameToken
    <3>9. SubSeq(w, p, colon - 1) = SubSeq(m, p, colon - 1)
      <4>1. colon - 1 \in 0 .. e /\ p \in Nat \ {0}
        BY <1>1, <2>7
      <4> QED BY <4>1, SamePart
    <3> QED BY <3>6, <3>7, <3>8, <3>9
  <2> QED BY <2>8, <2>9
<1> QED BY <1>3, <1>4

IsRead(read) == read = [next |-> read.next, headers |-> read.headers]

(* What has been read of a part, in read, and of the whole: the same as    *)
(* long as the loop goes on with the part, and if it fails there.          *)
SameRead(e, read, whole) == /\ IsRead(read) /\ IsRead(whole)
                            /\ read.next \in {Failed, Partial} \cup 1 .. e + 1
                            /\ read.next \in 1 .. e => whole = read
                            /\ read.next = Failed => whole.next = Failed

(* One turn keeps it so.                                                   *)
LEMMA SameTurn ==
    ASSUME NEW m, NEW e, NEW w, NEW z, Extends(m, e, w, z),
           NEW read, NEW whole, SameRead(e, read, whole)
    PROVE  SameRead(e, ReadHeader(m, e, read), ReadHeader(w, z, whole))
<1> USE DEF Failed, Partial
<1>1. /\ Memory(m, e) /\ e \in Nat /\ z \in Nat /\ e <= z
      /\ \A i \in 1 .. e : m[i] = w[i]
      /\ IsRead(read) /\ IsRead(whole)
      /\ read.next \in {Failed, Partial} \cup 1 .. e + 1
      /\ read.next \in 1 .. e => whole = read
      /\ read.next = Failed => whole.next = Failed
  BY DEF Extends, Memory, SameRead
<1>2. IsRead(ReadHeader(w, z, whole))
  BY <1>1 DEF ReadHeader, IsRead
<1>3. CASE read.next \notin 1 .. e
  <2>1. ReadHeader(m, e, read) = read
    BY <1>3 DEF ReadHeader
  <2>2. whole.next = Failed => ReadHeader(w, z, whole) = whole
    BY DEF ReadHeader
  <2> QED BY <1>1, <1>2, <1>3, <2>1, <2>2 DEF SameRead
<1>4. CASE read.next \in 1 .. e
  <2> DEFINE line == Header(m, e, read.next, read.headers = << >>)
  <2>1. whole = read /\ read.next \in 1 .. z /\ m[read.next] = w[read.next]
    BY <1>1, <1>4
  <2>2. CASE m[read.next] \in {"CR", "LF"}
    <3>1. ReadHeader(m, e, read) = read /\ ReadHeader(w, z, whole) = read
      BY <2>1, <2>2 DEF ReadHeader
    <3> QED BY <1>1, <2>1, <3>1 DEF SameRead
  <2>3. CASE m[read.next] \notin {"CR", "LF"}
    <3>1. line.next \in {Failed, Partial} \cup 1 .. e + 1
      <4>1. line.next \in {Failed, Partial} \cup read.next + 1 .. e + 1
        BY <1>1, <1>4, LinesEnd
      <4> HIDE DEF line
      <4> QED BY <1>1, <1>4, <4>1
    <3>2. ReadHeader(m, e, read) =
              IF line.next < 0 THEN [read EXCEPT !.next = line.next]
              ELSE [next |-> line.next, headers |-> Append(read.headers, line.header)]
      BY <1>4, <2>3 DEF ReadHeader
    <3>3. IsRead(ReadHeader(m, e, read)) /\ ReadHeader(m, e, read).next = line.next
      <4>1. ASSUME NEW p
            PROVE  [read EXCEPT !.next = p] = [next |-> p, headers |-> read.headers]
        BY <1>1 DEF IsRead
      <4>2. [read EXCEPT !.next = line.next] = [next |-> line.next, headers |-> read.headers]
        BY <4>1
      <4> HIDE DEF line
      <4> QED BY <3>2, <4>2 DEF IsRead
    <3>4. line.next # Partial => ReadHeader(w, z, whole) = ReadHeader(m, e, read)
      <4> SUFFICES ASSUME line.next # Partial
                   PROVE  ReadHeader(w, z, whole) = ReadHeader(m, e, read)
        OBVIOUS
      <4>1. Header(w, z, read.next, read.headers = << >>) = line
        BY <1>4, SameLine
      <4>2. ReadHeader(w, z, whole) =
                IF line.next < 0 THEN [read EXCEPT !.next = line.next]
                ELSE [next |-> line.next, headers |-> Append(read.headers, line.header)]
        BY <2>1, <2>3, <4>1 DEF ReadHeader
      <4> QED BY <3>2, <4>2
    <3> HIDE DEF line
    <3> QED BY <1>2, <3>1, <3>3, <3>4 DEF SameRead
  <2> QED BY <2>2, <2>3
<1> QED BY <1>3, <1>4

(* All turns do: the least number of turns after which it is not so would  *)
(* be the turn before and one more.                                        *)
LEMMA SameHeaders ==
    ASSUME NEW m, NEW e, NEW w, NEW z, Extends(m, e, w, z), NEW start \in 1 .. e + 1
    PROVE  SameRead(e, ReadHeaders(m, e, start), ReadHeaders(w, z, start))
<1>0. MaxHeaders \in Nat
  BY ParserAssumption
<1>1. PICK Read : IsLoop(Read, m, e, start)
  BY LoopOfHeaders
<1>2. PICK Whole : IsLoop(Whole, w, z, start)
  BY LoopOfHeaders
<1> DEFINE Bad == {n \in 0 .. MaxHeaders : ~SameRead(e, Read[n], Whole[n])}
<1>3. SUFFICES ASSUME Bad # {} PROVE FALSE
  BY <1>0, <1>1, <1>2 DEF IsLoop
<1>4. PICK n \in Bad : \A i \in Bad : n <= i
  <2>1. Bad \in SUBSET Nat
    BY <1>0
  <2> HIDE DEF Bad
  <2> QED BY <1>3, <2>1, LeastNat
<1>5. n # 0
  BY <1>1, <1>2, <1>4 DEF IsLoop, Started, SameRead, IsRead, Failed
<1>6. n \in 1 .. MaxHeaders /\ n - 1 \in 0 .. MaxHeaders /\ n - 1 \notin Bad
  BY <1>0, <1>4, <1>5
<1>7. SameRead(e, Read[n - 1], Whole[n - 1])
  BY <1>6
<1>8. SameRead(e, Read[n], Whole[n])
  BY <1>1, <1>2, <1>6, <1>7, SameTurn DEF IsLoop
<1> QED BY <1>4, <1>8

(* What the parser makes of a part is what it makes of the whole, if the   *)
(* request is complete, or refused.                                        *)
SameResult(result, whole) == /\ result.ret > 0 => whole = result
                             /\ result.ret = Failed => whole.ret = Failed

(* The headers, and how the loop ends.                                     *)
LEMMA SameRest ==
    ASSUME NEW m, NEW e, NEW w, NEW z, Extends(m, e, w, z), NEW start \in 1 .. e + 1
    PROVE  SameResult(parse_headers(m, e, start), parse_headers(w, z, start))
<1> USE DEF Failed, Partial
<1> DEFINE read == ReadHeaders(m, e, start)
           whole == ReadHeaders(w, z, start)
<1>1. /\ Memory(m, e) /\ e \in Nat /\ z \in Nat /\ e <= z
  BY DEF Extends, Memory
<1>2. /\ parse_headers(m, e, start) =
             [ret |-> EndOfHeaders(m, e, read.next), headers |-> read.headers]
      /\ parse_headers(w, z, start) =
             [ret |-> EndOfHeaders(w, z, whole.next), headers |-> whole.headers]
  BY DEF parse_headers
<1>3. SameRead(e, read, whole)
  BY SameHeaders
<1> HIDE DEF read, whole
<1>4. CASE read.next \in {Failed, Partial, e + 1}
  BY <1>1, <1>2, <1>3, <1>4 DEF EndOfHeaders, SameRead, SameResult
<1>5. CASE read.next \in 1 .. e
  <2>1. whole = read /\ read.next <= z
    BY <1>1, <1>3, <1>5 DEF SameRead
  <2>2. /\ EndOfHeaders(m, e, read.next) = EndOfLine(m, e, read.next)
        /\ EndOfHeaders(w, z, whole.next) = EndOfLine(w, z, read.next)
    BY <1>1, <1>5, <2>1 DEF EndOfHeaders
  <2>3. EndOfLine(m, e, read.next) # Partial =>
            EndOfLine(w, z, read.next) = EndOfLine(m, e, read.next)
    BY <1>5, SameEnd
  <2> QED BY <1>2, <2>1, <2>2, <2>3 DEF SameResult
<1> QED BY <1>1, <1>3, <1>4, <1>5 DEF SameRead

(* The bytes from p to e can be counted.                                   *)
LEMMA BytesFinite ==
    ASSUME NEW m, NEW p \in Int, NEW e \in Int
    PROVE  IsFiniteSet(Bytes(m, p, e)) /\ Cardinality(Bytes(m, p, e)) \in Nat
<1>0. 1 \in Int /\ MaxWidth \in Int
  BY DEF MaxWidth
<1>1. IsFiniteSet(p .. e) /\ IsFiniteSet(1 .. MaxWidth)
  BY <1>0, FS_Interval
<1>2. IsFiniteSet((p .. e) \X (1 .. MaxWidth))
  BY <1>1, FS_Product
<1>3. Bytes(m, p, e) \in SUBSET ((p .. e) \X (1 .. MaxWidth))
  BY DEF Bytes
<1> QED BY <1>2, <1>3, FS_Subset, FS_CardinalityType

(* A version that is the last symbol is not enough for the parser to look  *)
(* at it, and nothing is either.                                           *)
LEMMA FewBytes ==
    ASSUME NEW m, NEW p \in Int, NEW e \in Int
    PROVE  /\ p > e => Cardinality(Bytes(m, p, e)) = 0
           /\ p = e /\ m[p] = "VERSION" => Cardinality(Bytes(m, p, e)) <= 8
<1>1. ASSUME p > e
      PROVE  Cardinality(Bytes(m, p, e)) = 0
  <2>1. Bytes(m, p, e) = {}
    BY <1>1 DEF Bytes
  <2> QED BY <2>1, FS_EmptySet
<1>2. ASSUME p = e, m[p] = "VERSION"
      PROVE  Cardinality(Bytes(m, p, e)) <= 8
  <2>1. IsFiniteSet({p}) /\ Cardinality({p}) = 1
    BY FS_Singleton
  <2>2. IsFiniteSet(1 .. 8) /\ Cardinality(1 .. 8) = 8
    <3>1. ASSUME NEW a \in Int, NEW b \in Int, a <= b
          PROVE  IsFiniteSet(a .. b) /\ Cardinality(a .. b) = b - a + 1
      BY <3>1, FS_Interval
    <3>2. 8 - 1 + 1 = 8 /\ 1 \in Int /\ 8 \in Int /\ 1 <= 8
      OBVIOUS
    <3> QED BY <3>1, <3>2
  <2>3. IsFiniteSet({p} \X (1 .. 8)) /\ Cardinality({p} \X (1 .. 8)) = 8
    BY <2>1, <2>2, FS_Product
  <2>4. Bytes(m, p, e) \in SUBSET ({p} \X (1 .. 8))
    BY <1>2 DEF Bytes, Width, MaxWidth
  <2> QED BY <2>3, <2>4, FS_Subset
<1> QED BY <1>1, <1>2

(* Where the request line may end, and that the parser looked at its end   *)
(* only within the request.                                                *)
LEMMA Versions ==
    ASSUME NEW m, NEW e, Memory(m, e), NEW p \in 1 .. Len(m)
    PROVE  /\ parse_http_version(m, e, p) \in {Failed, Partial} \cup 1 .. e + 1
           /\ parse_http_version(m, e, p) # Partial =>
                  p <= e /\ (m[p] = "VERSION" => p < e /\ EndOfLine(m, e, p + 1) # Partial)
<1>1. e \in Nat /\ p \in Int /\ Len(m) \in Nat
  BY LenProperties DEF Memory
<1>2. CASE Cardinality(Bytes(m, p, e)) < 9 \/ m[p] # "VERSION"
  <2>1. parse_http_version(m, e, p) = Partial \/ (Cardinality(Bytes(m, p, e)) >= 9
            /\ m[p] # "VERSION" /\ parse_http_version(m, e, p) = Failed)
    BY <1>1, <1>2, BytesFinite DEF parse_http_version
  <2> QED BY <1>1, <2>1, FewBytes
<1>3. CASE Cardinality(Bytes(m, p, e)) >= 9 /\ m[p] = "VERSION"
  <2>1. parse_http_version(m, e, p) = EndOfLine(m, e, p + 1)
    <3>1. Cardinality(Bytes(m, p, e)) \in Nat
      BY <1>1, BytesFinite
    <3>2. ~(Cardinality(Bytes(m, p, e)) < 9)
      BY <1>3, <3>1
    <3> QED BY <1>3, <3>2 DEF parse_http_version
  <2>2. p < e
    <3>1. Cardinality(Bytes(m, p, e)) \in Nat /\ e \in Int
      BY <1>1, BytesFinite
    <3>2. ~(p > e)
      BY <1>1, <1>3, <3>1, FewBytes
    <3>3. p # e
      BY <1>1, <1>3, <3>1, FewBytes
    <3> QED BY <1>1, <3>2, <3>3
  <2>3. p + 1 \in 1 .. e
    BY <1>1, <2>2
  <2>4. EndOfLine(m, e, p + 1) \in {Failed, Partial} \cup p + 2 .. e + 1
    BY <1>1, <2>3, EndsOfLines
  <2> QED BY <1>1, <2>1, <2>2, <2>4
<1> QED BY <1>1, <1>2, <1>3, BytesFinite

(* The version and the end of the request line.                            *)
LEMMA SameVersion ==
    ASSUME NEW m, NEW e, NEW w, NEW z, Extends(m, e, w, z), NEW p \in 1 .. Len(m),
           parse_http_version(m, e, p) # Partial
    PROVE  parse_http_version(w, z, p) = parse_http_version(m, e, p)
<1>1. /\ Memory(m, e) /\ e \in Nat /\ z \in Nat /\ e <= z
      /\ \A i \in 1 .. e : m[i] = w[i]
  BY DEF Extends, Memory
<1>2. p \in 1 .. e /\ m[p] = w[p]
  BY <1>1, Versions
<1>3. ~(Cardinality(Bytes(m, p, e)) < 9)
  BY DEF parse_http_version
<1>4. ~(Cardinality(Bytes(w, p, z)) < 9)
  <2>1. Bytes(m, p, e) \in SUBSET Bytes(w, p, z)
    BY <1>1, <1>2 DEF Bytes
  <2>2. /\ IsFiniteSet(Bytes(w, p, z)) /\ Cardinality(Bytes(w, p, z)) \in Nat
        /\ Cardinality(Bytes(m, p, e)) \in Nat
    BY <1>1, BytesFinite
  <2> QED BY <1>3, <2>1, <2>2, FS_Subset
<1>5. CASE m[p] # "VERSION"
  BY <1>2, <1>3, <1>4, <1>5 DEF parse_http_version
<1>6. CASE m[p] = "VERSION"
  <2>1. p + 1 \in 1 .. e /\ EndOfLine(m, e, p + 1) # Partial
    BY <1>1, <1>2, <1>6, Versions
  <2>2. EndOfLine(w, z, p + 1) = EndOfLine(m, e, p + 1)
    BY <2>1, SameEnd
  <2> QED BY <1>2, <1>3, <1>4, <1>6, <2>2 DEF parse_http_version
<1> QED BY <1>5, <1>6

(* Where a token ends, and that it has neither blanks nor controls.        *)
LEMMA Tokens ==
    ASSUME NEW m, NEW e, Memory(m, e), NEW p \in 1 .. Len(m)
    PROVE  /\ AdvanceToken(m, e, p) \in {Failed, Partial} \cup p .. Len(m)
           /\ AdvanceToken(m, e, p) > 0 =>
                  /\ m[AdvanceToken(m, e, p)] = "SP"
                  /\ \A i \in p .. AdvanceToken(m, e, p) - 1 : m[i] \notin Controls \cup {"SP"}
                  /\ p <= e + 1 => AdvanceToken(m, e, p) <= e
<1> DEFINE stop == FirstOf(m, p, Controls \cup {"SP"})
<1>1. e \in Nat /\ Len(m) \in Nat /\ "CTL" \in Controls \cup {"SP"}
  BY LenProperties DEF Memory, Controls
<1>2. stop \in p .. Len(m) /\ \A i \in p .. stop - 1 : m[i] \notin Controls \cup {"SP"}
  BY <1>1, Found
<1>3. AdvanceToken(m, e, p) = IF p <= e + 1 /\ stop > e THEN Partial
                              ELSE IF m[stop] = "SP" THEN stop ELSE Failed
  BY DEF AdvanceToken
<1> HIDE DEF stop
<1> QED BY <1>1, <1>2, <1>3 DEF Failed, Partial

(* The end of a token that begins within the part.                         *)
LEMMA SameTokenEnd ==
    ASSUME NEW m, NEW e, NEW w, NEW z, Extends(m, e, w, z), NEW p \in 1 .. e + 1,
           AdvanceToken(m, e, p) # Partial
    PROVE  AdvanceToken(w, z, p) = AdvanceToken(m, e, p)
<1> DEFINE stop == FirstOf(m, p, Controls \cup {"SP"})
<1>1. /\ Memory(m, e) /\ e \in Nat /\ z \in Nat /\ e <= z /\ Len(m) \in Nat /\ e < Len(m)
      /\ "CTL" \in Controls \cup {"SP"} /\ p \in 1 .. Len(m)
      /\ \A i \in 1 .. e : m[i] = w[i]
  BY LenProperties DEF Extends, Memory, Controls
<1>2. stop \in p .. Len(m)
  BY <1>1, Found
<1>3. stop <= e
  <2>1. ~(p <= e + 1 /\ stop > e)
    BY DEF AdvanceToken
  <2> HIDE DEF stop
  <2> QED BY <1>1, <1>2, <2>1
<1>4. FirstOf(w, p, Controls \cup {"SP"}) = stop
  BY <1>1, <1>3, SameFirst
<1>5. stop \in 1 .. e /\ ~(stop > e) /\ ~(stop > z) /\ m[stop] = w[stop]
  <2> HIDE DEF stop
  <2> QED BY <1>1, <1>2, <1>3
<1> QED BY <1>4, <1>5 DEF AdvanceToken

(* Where blanks end.                                                       *)
LEMMA Blanks ==
    ASSUME NEW m, NEW e, Memory(m, e), NEW p \in 1 .. Len(m)
    PROVE  /\ SkipBlanks(m, p) \in p .. Len(m)
           /\ m[SkipBlanks(m, p)] # "SP"
           /\ \A i \in p .. SkipBlanks(m, p) - 1 : m[i] = "SP"
<1>1. "CTL" \in Symbols \ {"SP"} /\ Len(m) \in Nat /\ m \in Seq(Symbols)
  BY LenProperties DEF Symbols, Controls, Memory
<1>2. /\ SkipBlanks(m, p) \in p .. Len(m)
      /\ m[SkipBlanks(m, p)] \in Symbols \ {"SP"}
      /\ \A i \in p .. SkipBlanks(m, p) - 1 : m[i] \notin Symbols \ {"SP"}
  BY <1>1, Found DEF SkipBlanks
<1>3. \A i \in 1 .. Len(m) : m[i] \in Symbols
  BY <1>1, ElementOfSeq
<1> QED BY <1>1, <1>2, <1>3

(* The end of blanks that end within the part.                             *)
LEMMA SameBlanks ==
    ASSUME NEW m, NEW e, NEW w, NEW z, Extends(m, e, w, z), NEW p \in 1 .. e + 1,
           SkipBlanks(m, p) <= e
    PROVE  SkipBlanks(w, p) = SkipBlanks(m, p)
<1>1. "CTL" \in Symbols \ {"SP"}
  BY DEF Symbols, Controls
<1> QED BY <1>1, SameFirst DEF SkipBlanks

(* The request line from the blank behind the path on, and the headers.    *)
(* The blanks may go on behind the part: then there is no version and no   *)
(* byte of one, and the part is partial.                                   *)
LEMMA SameRequestLine ==
    ASSUME NEW m, NEW e, NEW w, NEW z, Extends(m, e, w, z), NEW method, NEW path,
           NEW p \in 1 .. e
    PROVE  SameResult(
               parse_rest(m, e, method, path, parse_http_version(m, e, SkipBlanks(m, p))),
               parse_rest(w, z, method, path, parse_http_version(w, z, SkipBlanks(w, p))))
<1> USE DEF Failed, Partial
<1> DEFINE v == SkipBlanks(m, p)
           rest == parse_http_version(m, e, v)
<1>1. /\ Memory(m, e) /\ e \in Nat /\ Len(m) \in Nat /\ e < Len(m) /\ p \in 1 .. Len(m)
      /\ p \in 1 .. e + 1
  BY LenProperties DEF Extends, Memory
<1>2. v \in 1 .. Len(m)
  <2>1. v \in p .. Len(m)
    BY <1>1, Blanks
  <2> HIDE DEF v
  <2> QED BY <1>1, <2>1
<1>3. rest \in {Failed, Partial} \cup 1 .. e + 1 /\ (rest # Partial => v <= e)
  <2> HIDE DEF v
  <2> QED BY <1>1, <1>2, Versions
<1>4. rest # Partial => parse_http_version(w, z, SkipBlanks(w, p)) = rest
  BY <1>1, <1>2, <1>3, SameVersion, SameBlanks
<1> HIDE DEF rest, v
<1>5. SUFFICES SameResult(parse_rest(m, e, method, path, rest),
                   parse_rest(w, z, method, path, parse_http_version(w, z, SkipBlanks(w, p))))
  BY DEF rest, v
<1>6. CASE << >> \in {method, path}
  BY <1>6 DEF parse_rest, Result, SameResult
<1>7. CASE << >> \notin {method, path}
  <2>1. CASE rest = Partial
    BY <1>7, <2>1 DEF parse_rest, Result, SameResult
  <2>2. CASE rest = Failed
    BY <1>4, <1>7, <2>2 DEF parse_rest, Result, SameResult
  <2>3. CASE rest \in 1 .. e + 1
    <3>1. SameResult(parse_headers(m, e, rest), parse_headers(w, z, rest))
      BY <2>3, SameRest
    <3>2. rest # Partial /\ ~(rest < 0)
      BY <1>1, <2>3
    <3>3. /\ parse_rest(m, e, method, path, rest) =
                 Result(parse_headers(m, e, rest).ret, method, path,
                        parse_headers(m, e, rest).headers)
          /\ parse_rest(w, z, method, path, parse_http_version(w, z, SkipBlanks(w, p))) =
                 Result(parse_headers(w, z, rest).ret, method, path,
                        parse_headers(w, z, rest).headers)
      BY <1>4, <1>7, <3>2 DEF parse_rest
    <3> QED BY <3>1, <3>3 DEF Result, SameResult
  <2> QED BY <1>3, <2>1, <2>2, <2>3
<1> QED BY <1>6, <1>7

(* A method that is the last thing there is, and blanks behind.            *)
Beyond(m, e) == m[e] = "SP" /\ m[e + 1] = "SP"

(* A path that begins past the end ends the same way: the request is not   *)
(* found complete, for what is behind it is no part of it.                 *)
LEMMA BeyondTheEnd ==
    ASSUME NEW m, NEW e, Memory(m, e), NEW p \in 1 .. Len(m), p > e, NEW method, NEW start,
           NEW stop, stop = AdvanceToken(m, e, p)
    PROVE  ~(parse_path(m, e, method, start, stop).ret > 0)
<1> USE DEF Failed, Partial
<1>1. e \in Nat /\ Len(m) \in Nat
  BY LenProperties DEF Memory
<1>2. stop \in {Failed, Partial} \cup p .. Len(m)
  BY Tokens
<1>3. CASE stop < 0
  BY <1>2, <1>3 DEF parse_path, Result
<1>4. CASE stop \in p .. Len(m)
  <2> DEFINE v == SkipBlanks(m, stop)
             rest == parse_http_version(m, e, v)
             path == SubSeq(m, start, stop - 1)
  <2>1. stop \in 1 .. Len(m) /\ ~(stop < 0)
    BY <1>1, <1>4
  <2>2. v \in stop .. Len(m)
    BY <2>1, Blanks
  <2>3. v \in 1 .. Len(m) /\ v > e
    <3> HIDE DEF v
    <3> QED BY <1>1, <1>4, <2>2
  <2>4. rest = Partial
    <3> HIDE DEF v
    <3> QED BY <1>1, <2>3, Versions
  <2>5. parse_path(m, e, method, start, stop) = parse_rest(m, e, method, path, rest)
    BY <2>1 DEF parse_path
  <2> HIDE DEF rest, path
  <2>6. parse_rest(m, e, method, path, rest).ret \in {Failed, Partial}
    BY <2>4 DEF parse_rest, Result
  <2> QED BY <2>5, <2>6
<1> QED BY <1>1, <1>2, <1>3, <1>4

(* From the path on. Its place is past the end only behind blanks that     *)
(* begin within the part; next to the end, it is where the part is         *)
(* partial.                                                                *)
LEMMA SamePath ==
    ASSUME NEW m, NEW e, NEW w, NEW z, Extends(m, e, w, z), NEW method,
           NEW p \in 1 .. e, NEW R, NEW W,
           R = parse_path(m, e, method, SkipBlanks(m, p), AdvanceToken(m, e, SkipBlanks(m, p))),
           W = parse_path(w, z, method, SkipBlanks(w, p), AdvanceToken(w, z, SkipBlanks(w, p)))
    PROVE  /\ R.ret > 0 => W = R
           /\ R.ret = Failed /\ ~Beyond(m, e) => W.ret = Failed
<1> USE DEF Failed, Partial
<1> DEFINE a == SkipBlanks(m, p)
           stop == AdvanceToken(m, e, a)
<1>1. /\ Memory(m, e) /\ e \in Nat /\ Len(m) \in Nat /\ e < Len(m) /\ p \in 1 .. Len(m)
      /\ p \in 1 .. e + 1
  BY LenProperties DEF Extends, Memory
<1>2. a \in p .. Len(m) /\ \A i \in p .. a - 1 : m[i] = "SP"
  BY <1>1, Blanks
<1>3. a \in 1 .. Len(m)
  <2> HIDE DEF a
  <2> QED BY <1>1, <1>2
<1>4. R = parse_path(m, e, method, a, stop)
  OBVIOUS
<1>5. CASE a > e + 1
  <2>1. Beyond(m, e)
    <3> HIDE DEF a
    <3>1. e \in p .. a - 1 /\ e + 1 \in p .. a - 1
      BY <1>1, <1>2, <1>5
    <3> QED BY <1>2, <3>1 DEF Beyond
  <2>2. ~(R.ret > 0)
    <3>1. a > e
      <4> HIDE DEF a
      <4> QED BY <1>1, <1>3, <1>5
    <3> HIDE DEF a
    <3> QED BY <1>1, <1>3, <1>4, <3>1, BeyondTheEnd
  <2> QED BY <2>1, <2>2
<1>6. CASE a <= e + 1
  <2>0. a \in 1 .. e + 1
    <3> HIDE DEF a
    <3> QED BY <1>1, <1>3, <1>6
  <2>1. stop \in {Failed, Partial} \cup a .. Len(m) /\ (stop > 0 => stop <= e)
    <3> HIDE DEF a
    <3> QED BY <1>1, <1>3, <1>6, Tokens
  <2>2. CASE stop = Partial
    <3> HIDE DEF a, stop
    <3> QED BY <1>4, <2>2 DEF parse_path, Result
  <2>3. ASSUME stop # Partial
        PROVE  a \in 1 .. e /\ SkipBlanks(w, p) = a
               /\ AdvanceToken(w, z, SkipBlanks(w, p)) = stop
    <3>1. a \in 1 .. e
      <4>1. FirstOf(m, a, Controls \cup {"SP"}) \in a .. Len(m)
        <5>1. "CTL" \in Controls \cup {"SP"}
          BY DEF Controls
        <5> HIDE DEF a
        <5> QED BY <1>1, <1>3, <5>1, Found
      <4>2. ~(a <= e + 1 /\ FirstOf(m, a, Controls \cup {"SP"}) > e)
        BY <2>3 DEF AdvanceToken
      <4> HIDE DEF a
      <4> QED BY <1>1, <1>3, <1>6, <2>0, <4>1, <4>2
    <3>2. SkipBlanks(w, p) = a
      <4>1. a <= e
        <5> HIDE DEF a
        <5> QED BY <1>1, <3>1
      <4> QED BY <1>1, <4>1, SameBlanks
    <3>3. AdvanceToken(w, z, a) = stop
      <4> HIDE DEF a
      <4> QED BY <2>0, <2>3, SameTokenEnd
    <3> QED BY <3>1, <3>2, <3>3
  <2>4. CASE stop = Failed
    <3>1. AdvanceToken(w, z, SkipBlanks(w, p)) = Failed
      <4> HIDE DEF a, stop
      <4> QED BY <2>3, <2>4
    <3>2. R.ret = Failed
      <4> HIDE DEF a, stop
      <4> QED BY <1>4, <2>4 DEF parse_path, Result
    <3>3. W.ret = Failed
      BY <3>1 DEF parse_path, Result
    <3> QED BY <3>2, <3>3
  <2>5. CASE stop \in a .. Len(m)
    <3>1. stop \in 1 .. e /\ ~(stop < 0) /\ stop # Partial /\ stop - 1 \in 0 .. e
      <4> HIDE DEF a, stop
      <4> QED BY <1>1, <1>3, <2>1, <2>5
    <3>2. SubSeq(w, a, stop - 1) = SubSeq(m, a, stop - 1)
      <4>1. a \in Nat \ {0}
        <5> HIDE DEF a
        <5> QED BY <1>3
      <4> HIDE DEF a, stop
      <4> QED BY <3>1, <4>1, SamePart
    <3> DEFINE path == SubSeq(m, a, stop - 1)
    <3>3. R = parse_rest(m, e, method, path, parse_http_version(m, e, SkipBlanks(m, stop)))
      <4> HIDE DEF a, stop
      <4> QED BY <1>4, <3>1 DEF parse_path
    <3>4. W = parse_path(w, z, method, a, stop)
      <4> HIDE DEF a, stop
      <4> QED BY <2>3, <3>1
    <3>5. W = parse_rest(w, z, method, path, parse_http_version(w, z, SkipBlanks(w, stop)))
      <4> HIDE DEF a, stop
      <4> QED BY <3>1, <3>2, <3>4 DEF parse_path
    <3>6. SameResult(R, W)
      <4> HIDE DEF path, stop
      <4> QED BY <3>1, <3>3, <3>5, SameRequestLine
    <3> QED BY <3>6 DEF SameResult
  <2> HIDE DEF stop, a
  <2> QED BY <2>1, <2>2, <2>4, <2>5
<1> HIDE DEF a
<1> QED BY <1>1, <1>3, <1>5, <1>6

(* The empty line that may come before the request.                        *)
LEMMA EmptyLines ==
    ASSUME NEW m, NEW e, Memory(m, e), e # 0
    PROVE  /\ SkipEmptyLine(m, e) \in {Failed, Partial} \cup 1 .. e + 1
           /\ \A i \in 1 .. SkipEmptyLine(m, e) - 1 : m[i] \in {"CR", "LF"}
<1>1. e \in Nat /\ 1 \in 1 .. e
  BY DEF Memory
<1>2. EndOfLine(m, e, 1) \in {Failed, Partial} \cup 2 .. e + 1
  <2>1. EndOfLine(m, e, 1) \in {Failed, Partial} \cup 1 + 1 .. e + 1
    BY <1>1, EndsOfLines
  <2> QED BY <2>1
<1>3. CASE m[1] \in {"CR", "LF"}
  <2>1. SkipEmptyLine(m, e) = EndOfLine(m, e, 1)
    BY <1>3 DEF SkipEmptyLine
  <2>2. \A i \in 1 .. EndOfLine(m, e, 1) - 1 : m[i] \in {"CR", "LF"}
    BY <1>1, <1>3 DEF EndOfLine, Failed, Partial
  <2> QED BY <1>1, <1>2, <2>1, <2>2
<1>4. CASE m[1] \notin {"CR", "LF"}
  BY <1>1, <1>4 DEF SkipEmptyLine
<1> QED BY <1>3, <1>4

(* From the start on.                                                      *)
LEMMA SameStart ==
    ASSUME NEW m, NEW e, NEW w, NEW z, Extends(m, e, w, z), e # 0,
           NEW R, NEW W,
           R = ParseFrom(m, e, SkipEmptyLine(m, e)), W = ParseFrom(w, z, SkipEmptyLine(w, z))
    PROVE  /\ R.ret > 0 => W = R
           /\ R.ret = Failed /\ ~Beyond(m, e) => W.ret = Failed
<1> USE DEF Failed, Partial
<1> DEFINE start == SkipEmptyLine(m, e)
           stop == AdvanceToken(m, e, start)
<1>1. /\ Memory(m, e) /\ e \in Nat /\ Len(m) \in Nat /\ e < Len(m) /\ 1 \in 1 .. e
      /\ \A i \in 1 .. e : m[i] = w[i]
  BY LenProperties DEF Extends, Memory
<1>2. start \in {Failed, Partial} \cup 1 .. e + 1
  BY <1>1, EmptyLines
<1>3. start # Partial => SkipEmptyLine(w, z) = start
  BY <1>1, SameEnd DEF SkipEmptyLine
<1> HIDE DEF start
<1>4. R = ParseFrom(m, e, start)
  BY DEF start
<1>5. CASE start = Partial
  BY <1>4, <1>5 DEF ParseFrom, Result
<1>6. CASE start = Failed
  BY <1>3, <1>4, <1>6 DEF ParseFrom, Result
<1>7. CASE start \in 1 .. e + 1
  <2>1. start \in 1 .. Len(m) /\ start <= e + 1 /\ ~(start < 0) /\ start \in Nat \ {0}
    BY <1>1, <1>7
  <2>2. stop \in {Failed, Partial} \cup start .. Len(m) /\ (stop > 0 => stop <= e)
    BY <1>1, <2>1, Tokens
  <2>3. stop # Partial => AdvanceToken(w, z, start) = stop
    BY <1>7, SameTokenEnd
  <2> HIDE DEF stop
  <2>4. /\ R = parse_request(m, e, start, stop)
        /\ stop # Partial => W = parse_request(w, z, start, stop)
    BY <1>3, <1>4, <1>7, <2>1, <2>3 DEF ParseFrom, stop
  <2>5. CASE stop \in {Failed, Partial}
    BY <2>4, <2>5 DEF parse_request, Result
  <2>6. CASE stop \in start .. Len(m)
    <3>1. stop \in 1 .. e /\ ~(stop < 0) /\ stop # Partial /\ stop - 1 \in 0 .. e
      BY <1>1, <2>1, <2>2, <2>6
    <3>2. SubSeq(w, start, stop - 1) = SubSeq(m, start, stop - 1)
      BY <2>1, <3>1, SamePart
    <3> DEFINE method == SubSeq(m, start, stop - 1)
    <3>3. /\ R = parse_path(m, e, method, SkipBlanks(m, stop),
                            AdvanceToken(m, e, SkipBlanks(m, stop)))
          /\ W = parse_path(w, z, method, SkipBlanks(w, stop),
                            AdvanceToken(w, z, SkipBlanks(w, stop)))
      BY <2>4, <3>1, <3>2 DEF parse_request
    <3> HIDE DEF method
    <3> QED BY <3>1, <3>3, SamePath
  <2> QED BY <2>2, <2>5, <2>6
<1> QED BY <1>2, <1>5, <1>6, <1>7

(* What is in memory behind a request.                                     *)
LEMMA InMemory ==
    ASSUME NEW s \in Seq(Symbols), NEW b \in Seq(Symbols), Len(b) > 0, b[Len(b)] = "CTL"
    PROVE  /\ Memory(s \o b, Len(s))
           /\ \A i \in 1 .. Len(s) : (s \o b)[i] = s[i]
           /\ (s \o b)[Len(s) + 1] = b[1]
<1>1. Len(s) \in Nat /\ Len(b) \in Nat
  BY LenProperties
<1>2. /\ s \o b \in Seq(Symbols)
      /\ Len(s \o b) = Len(s) + Len(b)
      /\ \A i \in 1 .. Len(s) + Len(b) :
            (s \o b)[i] = IF i <= Len(s) THEN s[i] ELSE b[i - Len(s)]
  BY ConcatProperties
<1>3. /\ Len(s) + 1 \in 1 .. Len(s) + Len(b) /\ ~(Len(s) + 1 <= Len(s)) /\ Len(s) + 1 - Len(s) = 1
      /\ Len(s) + Len(b) \in 1 .. Len(s) + Len(b) /\ ~(Len(s) + Len(b) <= Len(s))
      /\ Len(s) + Len(b) - Len(s) = Len(b) /\ Len(s) < Len(s) + Len(b)
      /\ \A i \in 1 .. Len(s) : i \in 1 .. Len(s) + Len(b) /\ i <= Len(s)
  BY <1>1
<1>4. (s \o b)[Len(s) + 1] = b[1] /\ (s \o b)[Len(s) + Len(b)] = b[Len(b)]
  BY <1>2, <1>3
<1> QED BY <1>1, <1>2, <1>3, <1>4 DEF Memory

(* phr_parse_request on the first g symbols of a request, whatever b lies  *)
(* behind them in memory, and on the whole: if it finds the part complete, *)
(* it finds and stores the same in the whole, and if it refuses the part,  *)
(* it refuses the whole; but a part that ends in the blank behind a        *)
(* method, with a blank behind it in memory, may be refused for what is    *)
(* not in it.                                                              *)
THEOREM PartParsedAsWhole ==
    ASSUME NEW s \in Seq(Symbols), NEW g \in 0 .. Len(s),
           NEW b \in Seq(Symbols), Len(b) > 0, b[Len(b)] = "CTL",
           NEW R, R = phr_parse_request(SubSeq(s, 1, g), b),
           NEW W, W = phr_parse_request(s, <<"CTL">>)
    PROVE  /\ R.ret > 0 => W = R
           /\ R.ret = Failed /\ ~(g > 0 /\ s[g] = "SP" /\ b[1] = "SP") => W.ret = Failed
<1> DEFINE part == SubSeq(s, 1, g)
           end == <<"CTL">>
<1>1. Len(s) \in Nat /\ g \in Nat /\ g <= Len(s)
  BY LenProperties
<1>2. part \in Seq(Symbols) /\ Len(part) = g /\ \A i \in 1 .. g : part[i] = s[i]
  BY <1>1, SubSeqProperties
<1>3. CASE g = 0
  <2>1. part = << >>
    BY <1>2, <1>3
  <2> QED BY <2>1 DEF phr_parse_request, Result, Failed, Partial
<1>4. CASE g # 0
  <2>1. end \in Seq(Symbols) /\ Len(end) = 1 /\ end[1] = "CTL"
    BY DEF Symbols, Controls
  <2>2. Memory(part \o b, g) /\ (\A i \in 1 .. g : (part \o b)[i] = s[i])
        /\ (part \o b)[g + 1] = b[1]
    <3> HIDE DEF part
    <3> QED BY <1>2, InMemory
  <2>3. Memory(s \o end, Len(s)) /\ \A i \in 1 .. Len(s) : (s \o end)[i] = s[i]
    <3>1. Len(end) > 0 /\ end[Len(end)] = "CTL"
      BY <2>1
    <3> HIDE DEF end
    <3> QED BY <2>1, <3>1, InMemory
  <2>4. Extends(part \o b, g, s \o end, Len(s))
    <3> HIDE DEF part, end
    <3>1. \A i \in 1 .. g : i \in 1 .. Len(s)
      BY <1>1
    <3>2. \A i \in 1 .. g : (part \o b)[i] = (s \o end)[i]
      BY <2>2, <2>3, <3>1
    <3> QED BY <1>1, <2>2, <2>3, <3>2 DEF Extends
  <2>5. part # << >> /\ s # << >>
    BY <1>1, <1>2, <1>4
  <2>6. /\ R = ParseFrom(part \o b, g, SkipEmptyLine(part \o b, g))
        /\ W = ParseFrom(s \o end, Len(s), SkipEmptyLine(s \o end, Len(s)))
    <3>1. R = phr_parse_request(part, b) /\ W = phr_parse_request(s, end)
      OBVIOUS
    <3> HIDE DEF part, end
    <3> QED BY <1>2, <2>5, <3>1 DEF phr_parse_request
  <2>7. Beyond(part \o b, g) => g > 0 /\ s[g] = "SP" /\ b[1] = "SP"
    <3> HIDE DEF part
    <3>1. g \in 1 .. g /\ g > 0
      BY <1>1, <1>4
    <3> QED BY <2>2, <3>1 DEF Beyond
  <2> HIDE DEF part, end
  <2> QED BY <1>4, <2>4, <2>6, <2>7, SameStart
<1> QED BY <1>3, <1>4
-----------------------------------------------------------------------------
(* A request that ends in the mark isEndOfRequest looks for.               *)
EndsInMark(m, e) == /\ Memory(m, e)
                    /\ e >= 4
                    /\ m[e - 3] = "CR" /\ m[e - 2] = "LF"
                    /\ m[e - 1] = "CR" /\ m[e] = "LF"

(* Any other symbol comes before the mark.                                 *)
LEMMA BeforeMark ==
    ASSUME NEW m, NEW e, EndsInMark(m, e), NEW p \in 1 .. e, m[p] \notin {"CR", "LF"}
    PROVE  p \in 1 .. e - 4
<1>1. e \in Nat /\ e >= 4
  BY DEF EndsInMark, Memory
<1>2. p # e /\ p # e - 1 /\ p # e - 2 /\ p # e - 3
  BY DEF EndsInMark
<1> QED BY <1>1, <1>2

(* A line end before the mark ends before its last symbol.                 *)
LEMMA EndBeforeMark ==
    ASSUME NEW m, NEW e, EndsInMark(m, e), NEW p \in 1 .. e - 3
    PROVE  EndOfLine(m, e, p) \in {Failed} \cup p + 1 .. e - 1
<1>1. e \in Nat /\ e >= 4 /\ p # e
  BY DEF EndsInMark, Memory
<1>2. CASE m[p] = "LF"
  BY <1>1, <1>2 DEF EndOfLine, EndsInMark
<1>3. CASE m[p] = "CR" /\ m[p + 1] = "LF"
  <2>1. EndOfLine(m, e, p) = p + 2
    BY <1>1, <1>3 DEF EndOfLine
  <2> QED BY <1>1, <2>1
<1>4. CASE m[p] # "LF" /\ ~(m[p] = "CR" /\ m[p + 1] = "LF")
  <2>1. EndOfLine(m, e, p) = Failed
    BY <1>1, <1>4 DEF EndOfLine
  <2> QED BY <2>1
<1> QED BY <1>2, <1>3, <1>4

(* Every search for controls ends at the mark.                             *)
LEMMA FoundBeforeMark ==
    ASSUME NEW m, NEW e, EndsInMark(m, e), NEW p \in 1 .. e - 3, NEW S, "CR" \in S
    PROVE  FirstOf(m, p, S) \in p .. e - 3 /\ m[FirstOf(m, p, S)] \in S
<1>1. /\ m \in Seq(Symbols) /\ p \in Nat /\ e \in Nat /\ Len(m) \in Nat /\ e < Len(m)
      /\ m[e - 3] \in S
  BY LenProperties DEF EndsInMark, Memory
<1>2. e - 3 \in p .. Len(m)
  BY <1>1
<1> QED BY <1>1, <1>2, FirstOfIs

(* The value at p has its end of line at the mark.                         *)
LEMMA TokenBeforeMark ==
    ASSUME NEW m, NEW e, EndsInMark(m, e), NEW p \in 1 .. e - 3
    PROVE  get_token_to_eol(m, e, p).next \in {Failed} \cup p + 1 .. e - 1
<1> DEFINE eol == FirstOf(m, p, Controls)
<1>1. e \in Nat
  BY DEF EndsInMark, Memory
<1>2. eol \in p .. e - 3
  BY FoundBeforeMark DEF Controls
<1>3. get_token_to_eol(m, e, p).next = IF eol > e THEN Partial ELSE EndOfLine(m, e, eol)
  BY DEF get_token_to_eol
<1> HIDE DEF eol
<1>4. EndOfLine(m, e, eol) \in {Failed} \cup eol + 1 .. e - 1
  <2>1. eol \in 1 .. e - 3
    BY <1>1, <1>2
  <2> QED BY <2>1, EndBeforeMark
<1>5. ~(eol > e)
  BY <1>1, <1>2
<1> QED BY <1>1, <1>2, <1>3, <1>4, <1>5

(* So has the header at p.                                                 *)
LEMMA LineBeforeMark ==
    ASSUME NEW m, NEW e, EndsInMark(m, e), NEW p \in 1 .. e - 4, NEW first
    PROVE  Header(m, e, p, first).next \in {Failed} \cup p + 1 .. e - 1
<1>1. e \in Nat /\ p \in 1 .. e - 3
  BY DEF EndsInMark, Memory
<1>2. /\ \A name, token : Line(name, token).next = token.next
      /\ \A ret : NoLine(ret).next = ret
  BY DEF Line, NoLine
<1>3. CASE ~first /\ m[p] = "SP"
  BY <1>1, <1>2, <1>3, TokenBeforeMark DEF Header
<1>4. CASE first \/ m[p] # "SP"
  <2> DEFINE colon == FirstOf(m, p, Symbols \ Names)
             value == SkipBlanks(m, colon + 1)
  <2>1. "CR" \in Symbols \ Names /\ "CR" \in Symbols \ {"SP"}
    BY ParserAssumption DEF Symbols, Names, Controls
  <2>2. colon \in p .. e - 3
    BY <1>1, <2>1, FoundBeforeMark
  <2>3. Header(m, e, p, first) = NamedLine(m, e, p, colon)
    BY <1>4 DEF Header
  <2> HIDE DEF colon
  <2>4. colon \in 1 .. e /\ ~(colon > e)
    BY <1>1, <2>2
  <2>5. CASE m[colon] # "COLON" \/ colon = p
    BY <1>2, <2>3, <2>4, <2>5 DEF NamedLine
  <2>6. CASE m[colon] = "COLON" /\ colon # p
    <3>1. colon \in 1 .. e - 4
      BY <2>4, <2>6, BeforeMark
    <3>2. colon + 1 \in 1 .. e - 3
      BY <1>1, <3>1
    <3>3. value \in colon + 1 .. e - 3
      BY <2>1, <3>2, FoundBeforeMark DEF SkipBlanks
    <3>4. Header(m, e, p, first).next = IF value > e THEN Partial
                                        ELSE get_token_to_eol(m, e, value).next
      BY <1>2, <2>3, <2>4, <2>6 DEF NamedLine
    <3> HIDE DEF value
    <3>5. value \in 1 .. e - 3 /\ ~(value > e)
      BY <1>1, <3>2, <3>3
    <3>6. get_token_to_eol(m, e, value).next \in {Failed} \cup value + 1 .. e - 1
      BY <3>5, TokenBeforeMark
    <3> QED BY <1>1, <2>2, <3>3, <3>4, <3>5, <3>6
  <2> QED BY <2>5, <2>6
<1> QED BY <1>3, <1>4

(* The headers end at the mark, or fail.                                   *)
ReadBeforeMark(e, read) == IsRead(read) /\ read.next \in {Failed} \cup 1 .. e - 1

(* One turn of the loop.                                                   *)
LEMMA TurnBeforeMark ==
    ASSUME NEW m, NEW e, EndsInMark(m, e), NEW read, ReadBeforeMark(e, read)
    PROVE  ReadBeforeMark(e, ReadHeader(m, e, read))
<1>1. e \in Nat /\ e >= 4
  BY DEF EndsInMark, Memory
<1>2. CASE read.next \notin 1 .. e \/ m[read.next] \in {"CR", "LF"}
  BY <1>2 DEF ReadHeader
<1>3. CASE read.next \in 1 .. e /\ m[read.next] \notin {"CR", "LF"}
  <2> DEFINE line == Header(m, e, read.next, read.headers = << >>)
  <2>1. read.next \in 1 .. e - 4
    BY <1>3, BeforeMark
  <2>2. line.next \in {Failed} \cup read.next + 1 .. e - 1
    BY <2>1, LineBeforeMark
  <2>3. ReadHeader(m, e, read) =
            IF line.next < 0 THEN [read EXCEPT !.next = line.next]
            ELSE [next |-> line.next, headers |-> Append(read.headers, line.header)]
    BY <1>3 DEF ReadHeader
  <2>4. [read EXCEPT !.next = line.next] = [next |-> line.next, headers |-> read.headers]
    <3>1. ASSUME NEW p
          PROVE  [read EXCEPT !.next = p] = [next |-> p, headers |-> read.headers]
      BY DEF ReadBeforeMark, IsRead
    <3> QED BY <3>1
  <2> HIDE DEF line
  <2>5. line.next \in {Failed} \cup 1 .. e - 1
    BY <1>1, <2>1, <2>2
  <2> QED BY <2>3, <2>4, <2>5 DEF ReadBeforeMark, IsRead
<1> QED BY <1>2, <1>3

(* All turns, and how the loop ends.                                       *)
LEMMA HeadersBeforeMark ==
    ASSUME NEW m, NEW e, EndsInMark(m, e), NEW start \in 1 .. e - 1
    PROVE  parse_headers(m, e, start).ret # Partial
<1>0. MaxHeaders \in Nat
  BY ParserAssumption
<1>1. PICK Read : IsLoop(Read, m, e, start)
  BY LoopOfHeaders
<1> DEFINE Bad == {n \in 0 .. MaxHeaders : ~ReadBeforeMark(e, Read[n])}
<1>2. ASSUME Bad # {}
      PROVE  FALSE
  <2>1. PICK n \in Bad : \A i \in Bad : n <= i
    <3>1. Bad \in SUBSET Nat
      BY <1>0
    <3> HIDE DEF Bad
    <3> QED BY <1>2, <3>1, LeastNat
  <2>2. n # 0
    BY <1>1, <2>1 DEF IsLoop, Started, ReadBeforeMark, IsRead
  <2>3. n \in 1 .. MaxHeaders /\ n - 1 \in 0 .. MaxHeaders /\ n - 1 \notin Bad
    BY <1>0, <2>1, <2>2
  <2>4. ReadBeforeMark(e, Read[n - 1])
    BY <2>3
  <2>5. ReadBeforeMark(e, Read[n])
    BY <1>1, <2>3, <2>4, TurnBeforeMark DEF IsLoop
  <2> QED BY <2>1, <2>5
<1>3. ReadBeforeMark(e, ReadHeaders(m, e, start))
  BY <1>0, <1>1, <1>2 DEF IsLoop
<1> DEFINE p == ReadHeaders(m, e, start).next
<1>4. p \in {Failed} \cup 1 .. e - 1 /\ parse_headers(m, e, start).ret = EndOfHeaders(m, e, p)
  BY <1>3 DEF ReadBeforeMark, parse_headers
<1>5. e \in Nat /\ e >= 4
  BY DEF EndsInMark, Memory
<1> HIDE DEF p
<1>6. CASE p = Failed
  BY <1>4, <1>6 DEF EndOfHeaders, Failed, Partial
<1>7. CASE p \in 1 .. e - 1
  <2>1. EndOfHeaders(m, e, p) = EndOfLine(m, e, p)
    BY <1>5, <1>7 DEF EndOfHeaders
  <2>2. EndOfLine(m, e, p) # Partial
    BY <1>5, <1>7 DEF EndOfLine, Failed, Partial
  <2> QED BY <1>4, <2>1, <2>2
<1> QED BY <1>4, <1>6, <1>7

(* A version behind which there is one symbol more is enough bytes.        *)
LEMMA ManyBytes ==
    ASSUME NEW m, NEW p \in Int, NEW e \in Int, NEW i \in p .. e - 1, m[i] = "VERSION"
    PROVE  Cardinality(Bytes(m, p, e)) >= 9
<1> DEFINE V == {i} \X (1 .. 8)
           x == <<i + 1, 1>>
<1>1. IsFiniteSet({i}) /\ Cardinality({i}) = 1
  BY FS_Singleton
<1>2. IsFiniteSet(1 .. 8) /\ Cardinality(1 .. 8) = 8
  <2>1. ASSUME NEW a \in Int, NEW b \in Int, a <= b
        PROVE  IsFiniteSet(a .. b) /\ Cardinality(a .. b) = b - a + 1
    BY <2>1, FS_Interval
  <2>2. 8 - 1 + 1 = 8 /\ 1 \in Int /\ 8 \in Int /\ 1 <= 8
    OBVIOUS
  <2> QED BY <2>1, <2>2
<1>3. IsFiniteSet(V) /\ Cardinality(V) = 8
  BY <1>1, <1>2, FS_Product
<1>4. x \notin V
  BY DEF Bytes
<1>5. IsFiniteSet(V \cup {x}) /\ Cardinality(V \cup {x}) = 9
  <2> HIDE DEF V, x
  <2> QED BY <1>3, <1>4, FS_AddElement
<1>6. \A symbol : Width(symbol) >= 1
  BY DEF Width
<1>7. V \cup {x} \in SUBSET Bytes(m, p, e)
  <2>1. Width(m[i]) = 8 /\ Width(m[i + 1]) >= 1
    BY <1>6 DEF Width
  <2>2. ASSUME NEW byte \in V
        PROVE  byte \in Bytes(m, p, e)
    BY <2>1 DEF Bytes, MaxWidth
  <2>3. x \in Bytes(m, p, e)
    BY <2>1 DEF Bytes, MaxWidth
  <2> QED BY <2>2, <2>3
<1>8. IsFiniteSet(Bytes(m, p, e)) /\ Cardinality(Bytes(m, p, e)) \in Nat
  BY BytesFinite
<1> HIDE DEF V, x
<1>9. Cardinality(V \cup {x}) <= Cardinality(Bytes(m, p, e))
  BY <1>7, <1>8, FS_Subset
<1> QED BY <1>5, <1>8, <1>9

(* The version at p or behind it, and the end of the request line.         *)
LEMMA VersionBeforeMark ==
    ASSUME NEW m, NEW e, EndsInMark(m, e), NEW p \in 1 .. e,
           NEW i \in p .. e - 1, m[i] = "VERSION"
    PROVE  parse_http_version(m, e, p) \in {Failed} \cup 1 .. e - 1
<1>1. e \in Nat /\ p \in Int /\ e \in Int
  BY DEF EndsInMark, Memory
<1>2. Cardinality(Bytes(m, p, e)) \in Nat /\ Cardinality(Bytes(m, p, e)) >= 9
  BY <1>1, BytesFinite, ManyBytes
<1>3. ~(Cardinality(Bytes(m, p, e)) < 9)
  BY <1>2
<1>4. CASE m[p] # "VERSION"
  BY <1>3, <1>4 DEF parse_http_version
<1>5. CASE m[p] = "VERSION"
  <2>1. p \in 1 .. e - 4
    BY <1>5, BeforeMark
  <2>2. p + 1 \in 1 .. e - 3
    BY <1>1, <2>1
  <2>3. EndOfLine(m, e, p + 1) \in {Failed} \cup p + 2 .. e - 1
    <3>1. EndOfLine(m, e, p + 1) \in {Failed} \cup p + 1 + 1 .. e - 1
      BY <2>2, EndBeforeMark
    <3> QED BY <1>1, <2>1, <3>1
  <2> QED BY <1>1, <1>3, <1>5, <2>1, <2>3 DEF parse_http_version
<1> QED BY <1>4, <1>5

(* A request that ends in an empty line, as isEndOfRequest looks for it,   *)
(* and in which a version ends a line, is not called partial: it is        *)
(* complete or refused.                                                    *)
THEOREM WholeRequestParsed ==
    ASSUME NEW m, NEW e, EndsInMark(m, e),
           NEW i \in 2 .. e - 1, m[i - 1] = "SP", m[i] = "VERSION", m[i + 1] \in {"CR", "LF"}
    PROVE  ParseFrom(m, e, SkipEmptyLine(m, e)).ret # Partial
<1> USE DEF Failed, Partial
<1>1. /\ Memory(m, e) /\ e \in Nat /\ e >= 4 /\ Len(m) \in Nat /\ e < Len(m) /\ m[e] = "LF"
      /\ m \in Seq(Symbols)
  BY LenProperties DEF EndsInMark, Memory
<1> DEFINE start == SkipEmptyLine(m, e)
           stop == AdvanceToken(m, e, start)
           first == SkipBlanks(m, stop)
           last == AdvanceToken(m, e, first)
           v == SkipBlanks(m, last)
<1>2. /\ start \in {Failed} \cup 1 .. 3
      /\ \A j \in 1 .. start - 1 : m[j] \in {"CR", "LF"}
  <2>1. start \in {Failed} \cup 1 .. 3
    BY <1>1 DEF SkipEmptyLine, EndOfLine
  <2>2. \A j \in 1 .. start - 1 : m[j] \in {"CR", "LF"}
    BY <1>1, EmptyLines
  <2> QED BY <2>1, <2>2
<1> HIDE DEF start
<1>3. SUFFICES ASSUME start \in 1 .. 3
               PROVE  ParseFrom(m, e, start).ret # Partial
  BY <1>2 DEF ParseFrom, Result, start
<1>4. ASSUME NEW p \in 1 .. e
      PROVE  /\ AdvanceToken(m, e, p) \in {Failed} \cup p .. e
             /\ AdvanceToken(m, e, p) > 0 =>
                    /\ m[AdvanceToken(m, e, p)] = "SP"
                    /\ \A j \in p .. AdvanceToken(m, e, p) - 1 : m[j] \notin Controls \cup {"SP"}
             /\ SkipBlanks(m, p) \in p .. e
             /\ \A j \in p .. SkipBlanks(m, p) - 1 : m[j] = "SP"
  <2>1. p \in 1 .. Len(m) /\ e \in p .. Len(m) /\ p \in Nat
    BY <1>1
  <2>2. FirstOf(m, p, Controls \cup {"SP"}) \in p .. e
    BY <1>1, <2>1, FirstOfIs DEF Controls
  <2>3. AdvanceToken(m, e, p) # Partial
    <3>1. /\ ~(FirstOf(m, p, Controls \cup {"SP"}) > e)
          /\ FirstOf(m, p, Controls \cup {"SP"}) # Partial
      BY <1>1, <2>1, <2>2
    <3> QED BY <3>1 DEF AdvanceToken
  <2>4. AdvanceToken(m, e, p) \in {Failed} \cup p .. e
    <3>1. AdvanceToken(m, e, p) \in {Failed, Partial} \cup p .. Len(m)
          /\ (AdvanceToken(m, e, p) > 0 => AdvanceToken(m, e, p) <= e)
      BY <1>1, <2>1, Tokens
    <3> QED BY <1>1, <2>1, <2>3, <3>1
  <2>5. SkipBlanks(m, p) \in p .. e
    <3>1. "LF" \in Symbols \ {"SP"}
      BY DEF Symbols, Controls
    <3>2. e \in p .. Len(m) /\ m[e] \in Symbols \ {"SP"}
      BY <1>1, <2>1, <3>1
    <3> QED BY <1>1, <2>1, <3>2, FirstOfIs DEF SkipBlanks
  <2>6. \A j \in p .. SkipBlanks(m, p) - 1 : m[j] = "SP"
    BY <1>1, <2>1, Blanks
  <2> QED BY <1>1, <2>1, <2>4, <2>5, <2>6, Tokens
<1>5. i \in 1 .. e /\ i - 1 \in 1 .. e /\ start \in 1 .. e
  BY <1>1, <1>3
<1>6. stop \in {Failed} \cup start .. e
      /\ (stop > 0 => /\ m[stop] = "SP"
                      /\ \A j \in start .. stop - 1 : m[j] \notin Controls \cup {"SP"})
  BY <1>4, <1>5
<1> HIDE DEF stop
<1>7. ParseFrom(m, e, start) = parse_request(m, e, start, stop)
  BY <1>3 DEF ParseFrom, stop
<1>8. CASE stop = Failed
  BY <1>7, <1>8 DEF parse_request, Result
<1>9. CASE stop \in start .. e
  <2>1. stop \in 1 .. e /\ ~(stop < 0) /\ m[stop] = "SP"
        /\ \A j \in start .. stop - 1 : m[j] \notin Controls \cup {"SP"}
    BY <1>1, <1>5, <1>6, <1>9
  <2>2. first \in stop .. e /\ \A j \in stop .. first - 1 : m[j] = "SP"
    BY <1>4, <2>1
  <2> HIDE DEF first
  <2>3. first \in 1 .. e
    BY <1>1, <2>1, <2>2
  <2>4. last \in {Failed} \cup first .. e
        /\ (last > 0 => /\ m[last] = "SP"
                        /\ \A j \in first .. last - 1 : m[j] \notin Controls \cup {"SP"})
    BY <1>4, <2>3
  <2> DEFINE method == SubSeq(m, start, stop - 1)
  <2>5. ParseFrom(m, e, start) = parse_path(m, e, method, first, last)
    BY <1>7, <2>1 DEF parse_request, first
  <2> HIDE DEF last, method
  <2>6. CASE last = Failed
    BY <2>5, <2>6 DEF parse_path, Result
  <2>7. CASE last \in first .. e
    <3>1. last \in 1 .. e /\ ~(last < 0) /\ m[last] = "SP"
          /\ \A j \in first .. last - 1 : m[j] \notin Controls \cup {"SP"}
      BY <1>1, <2>3, <2>4, <2>7
    <3>2. v \in last .. e /\ \A j \in last .. v - 1 : m[j] = "SP"
      BY <1>4, <3>1
    <3> DEFINE path == SubSeq(m, first, last - 1)
               rest == parse_http_version(m, e, v)
    <3>3. ParseFrom(m, e, start) = parse_rest(m, e, method, path, rest)
      BY <2>5, <3>1 DEF parse_path
    <3> HIDE DEF v
    <3>4. v \in 1 .. e
      BY <1>1, <3>1, <3>2
    <3>5. ~(i < start)
      BY <1>1, <1>2, <1>3, <1>5
    <3>6. ~(i \in start .. stop - 1)
      <4> SUFFICES ASSUME i \in start .. stop - 1 PROVE FALSE
        OBVIOUS
      <4>1. CASE i = start
        BY <1>1, <1>2, <1>3, <1>5, <4>1
      <4>2. CASE i # start
        BY <1>1, <1>5, <2>1, <4>2
      <4> QED BY <4>1, <4>2
    <3>7. ~(i \in stop .. first - 1)
      BY <2>2
    <3>8. ~(i \in first .. last - 1)
      <4> SUFFICES ASSUME i \in first .. last - 1 PROVE FALSE
        OBVIOUS
      <4>1. m[i + 1] \in Controls
        BY DEF Controls
      <4>2. CASE i + 1 = last
        BY <3>1, <4>2
      <4>3. CASE i + 1 # last
        BY <1>1, <1>5, <2>3, <3>1, <4>1, <4>3
      <4> QED BY <4>2, <4>3
    <3>9. ~(i \in last .. v - 1)
      BY <3>2
    <3>10. i \in v .. e - 1
      BY <1>1, <1>3, <1>5, <2>1, <2>3, <3>1, <3>4, <3>5, <3>6, <3>7, <3>8, <3>9
    <3>11. rest \in {Failed} \cup 1 .. e - 1
      BY <3>4, <3>10, VersionBeforeMark
    <3> HIDE DEF rest, path
    <3>12. parse_rest(m, e, method, path, rest).ret # Partial
      <4>1. rest \in 1 .. e - 1 => parse_headers(m, e, rest).ret # Partial
        BY HeadersBeforeMark
      <4>2. CASE << >> \in {method, path} \/ rest = Failed
        BY <4>2 DEF parse_rest, Result
      <4>3. CASE << >> \notin {method, path} /\ rest \in 1 .. e - 1
        BY <1>1, <4>1, <4>3 DEF parse_rest, Result
      <4> QED BY <3>11, <4>2, <4>3
    <3> QED BY <3>3, <3>12
  <2> QED BY <2>4, <2>6, <2>7
<1> QED BY <1>6, <1>8, <1>9
-----------------------------------------------------------------------------
(* What the parser stores: no blanks and no controls in method and path,   *)
(* only name characters in a name, and in a value no controls and, but for *)
(* a line that continues a header, no blanks at its ends.                  *)
Unbroken == Seq(Symbols \ (Controls \cup {"SP"}))

Trimmed(value) == value # << >> => value[1] # "SP" /\ value[Len(value)] # "SP"

Headers == {header \in [name : Seq(Names), value : Seq(Symbols \ Controls)] :
                header.name # << >> => Trimmed(header.value)}

(* Values without blanks at the end.                                       *)
LEMMA ValueRead ==
    ASSUME NEW m, NEW e, Memory(m, e), NEW p \in 1 .. e, NEW stop \in p .. e,
           \A j \in p .. stop - 1 : m[j] \notin Controls
    PROVE  /\ TrimBlanks(m, p, stop) \in Seq(Symbols \ Controls)
           /\ m[p] # "SP" => Trimmed(TrimBlanks(m, p, stop))
<1> DEFINE I == {i \in 1 .. stop - 1 : m[i] # "SP"}
           last == IF I # {} THEN Max(I) ELSE 0
           value == SubSeq(m, p, last)
<1>1. /\ m \in Seq(Symbols) /\ Len(m) \in Nat /\ e \in Nat /\ e < Len(m) /\ p \in Nat
      /\ stop \in Nat
  BY LenProperties DEF Memory
<1>2. TrimBlanks(m, p, stop) = value
  BY DEF TrimBlanks, SelectLastInSubSeq
<1>3. last \in 0 .. stop - 1 /\ (last > 0 => m[last] # "SP")
  <2>1. CASE I = {}
    BY <1>1, <2>1
  <2>2. CASE I # {}
    <3>1. I \in SUBSET (0 .. stop)
      BY <1>1
    <3>2. \E x \in I : \A y \in I : y <= x
      <4> HIDE DEF I
      <4> QED BY <1>1, <2>2, <3>1, GreatestNat
    <3>3. Max(I) \in I
      <4> HIDE DEF I
      <4> QED BY <3>2 DEF Max
    <3> QED BY <1>1, <2>2, <3>3
  <2> QED BY <2>1, <2>2
<1> HIDE DEF last
<1>4. CASE last < p
  <2>1. value = << >>
    BY <1>1, <1>3, <1>4, SubSeqEmpty
  <2> QED BY <1>2, <2>1 DEF Trimmed
<1>5. CASE p <= last
  <2>1. \A i \in p .. last : m[i] \in Symbols \ Controls
    <3>1. \A i \in p .. last : i \in 1 .. Len(m) /\ i \in p .. stop - 1
      BY <1>1, <1>3
    <3> QED BY <1>1, <3>1, ElementOfSeq
  <2>2. /\ value \in Seq(Symbols \ Controls)
        /\ Len(value) = last - p + 1
        /\ \A i \in 1 .. last - p + 1 : value[i] = m[p + i - 1]
    BY <1>1, <1>3, <1>5, <2>1, SubSeqProperties
  <2>3. last - p + 1 \in 1 .. last - p + 1 /\ 1 \in 1 .. last - p + 1
        /\ p + 1 - 1 = p /\ p + (last - p + 1) - 1 = last
    BY <1>1, <1>3, <1>5
  <2>4. value[1] = m[p] /\ value[Len(value)] = m[last] /\ last > 0
    <3>1. value[1] = m[p + 1 - 1] /\ value[last - p + 1] = m[p + (last - p + 1) - 1]
      BY <2>2, <2>3
    <3> HIDE DEF value
    <3>2. last > 0
      BY <1>1, <1>3, <1>5
    <3> QED BY <2>2, <2>3, <3>1, <3>2
  <2> HIDE DEF value
  <2> QED BY <1>2, <1>3, <2>2, <2>4 DEF Trimmed
<1> QED BY <1>1, <1>3, <1>4, <1>5

(* The value at p is read up to the end of its line.                       *)
LEMMA TokenRead ==
    ASSUME NEW m, NEW e, Memory(m, e), NEW p \in 1 .. e,
           ~(get_token_to_eol(m, e, p).next < 0)
    PROVE  /\ get_token_to_eol(m, e, p).value \in Seq(Symbols \ Controls)
           /\ m[p] # "SP" => Trimmed(get_token_to_eol(m, e, p).value)
<1> DEFINE eol == FirstOf(m, p, Controls)
<1>1. p \in 1 .. Len(m) /\ Len(m) \in Nat /\ e \in Nat /\ "CTL" \in Controls
  BY LenProperties DEF Memory, Controls
<1>2. eol \in p .. Len(m) /\ \A j \in p .. eol - 1 : m[j] \notin Controls
  BY <1>1, Found
<1>3. get_token_to_eol(m, e, p) =
          IF eol > e THEN [next |-> Partial, value |-> << >>]
          ELSE [next |-> EndOfLine(m, e, eol), value |-> TrimBlanks(m, p, eol)]
  BY DEF get_token_to_eol
<1> HIDE DEF eol
<1>4. ~(eol > e)
  BY <1>3 DEF Partial
<1>5. eol \in p .. e
  BY <1>1, <1>2, <1>4
<1> QED BY <1>2, <1>3, <1>4, <1>5, ValueRead

(* The line of the header at p gives a header.                             *)
LEMMA LineRead ==
    ASSUME NEW m, NEW e, Memory(m, e), NEW p \in 1 .. e, NEW first,
           ~(Header(m, e, p, first).next < 0)
    PROVE  Header(m, e, p, first).header \in Headers
<1>1. /\ p \in 1 .. Len(m) /\ Len(m) \in Nat /\ e \in Nat /\ e < Len(m) /\ m \in Seq(Symbols)
  BY LenProperties DEF Memory
<1>2. /\ \A name, token : /\ Line(name, token).next = token.next
                          /\ Line(name, token).header = [name |-> name, value |-> token.value]
      /\ \A ret : NoLine(ret).next = ret
  BY DEF Line, NoLine
<1>3. CASE ~first /\ m[p] = "SP"
  <2>1. Header(m, e, p, first) = Line(<< >>, get_token_to_eol(m, e, p))
    BY <1>3 DEF Header
  <2>2. get_token_to_eol(m, e, p).value \in Seq(Symbols \ Controls)
    BY <1>2, <2>1, TokenRead
  <2>3. Header(m, e, p, first).header =
            [name |-> << >>, value |-> get_token_to_eol(m, e, p).value]
    BY <1>2, <2>1
  <2> QED BY <2>2, <2>3 DEF Headers
<1>4. CASE first \/ m[p] # "SP"
  <2> DEFINE colon == FirstOf(m, p, Symbols \ Names)
             value == SkipBlanks(m, colon + 1)
             name == SubSeq(m, p, colon - 1)
  <2>1. "CTL" \in Symbols \ Names
    BY ParserAssumption DEF Symbols, Names, Controls
  <2>2. colon \in p .. Len(m) /\ \A j \in p .. colon - 1 : m[j] \notin Symbols \ Names
    BY <1>1, <2>1, Found
  <2>3. Header(m, e, p, first) = NamedLine(m, e, p, colon)
    BY <1>4 DEF Header
  <2>4. name \in Seq(Names)
    <3> HIDE DEF colon
    <3>1. \A j \in p .. colon - 1 : j \in 1 .. Len(m)
      BY <1>1, <2>2
    <3>2. \A j \in p .. colon - 1 : m[j] \in Names
      BY <1>1, <2>2, <3>1, ElementOfSeq
    <3>3. p \in Int /\ colon - 1 \in Int
      BY <1>1, <2>2
    <3> QED BY <3>2, <3>3, SubSeqProperties
  <2> HIDE DEF colon
  <2>5. ~(colon > e \/ m[colon] # "COLON" \/ colon = p \/ value > e)
    BY <1>2, <2>3 DEF NamedLine, Failed, Partial
  <2>6. colon + 1 \in 1 .. Len(m)
    BY <1>1, <2>2, <2>5
  <2>7. value \in colon + 1 .. Len(m) /\ m[value] # "SP"
    BY <1>1, <2>6, Blanks
  <2>8. Header(m, e, p, first) = Line(name, get_token_to_eol(m, e, value))
    BY <2>3, <2>5 DEF NamedLine
  <2> HIDE DEF value, name
  <2>9. value \in 1 .. e /\ ~(get_token_to_eol(m, e, value).next < 0)
    BY <1>1, <1>2, <2>2, <2>5, <2>7, <2>8
  <2>10. /\ get_token_to_eol(m, e, value).value \in Seq(Symbols \ Controls)
         /\ Trimmed(get_token_to_eol(m, e, value).value)
    BY <2>7, <2>9, TokenRead
  <2>11. Header(m, e, p, first).header =
             [name |-> name, value |-> get_token_to_eol(m, e, value).value]
    BY <1>2, <2>8
  <2> QED BY <2>4, <2>10, <2>11 DEF Headers
<1> QED BY <1>3, <1>4

(* What has been read after n turns.                                       *)
WellRead(e, read, n) == /\ IsRead(read)
                        /\ read.next \in {Failed, Partial} \cup 1 .. e + 1
                        /\ read.headers \in Seq(Headers)
                        /\ Len(read.headers) <= n

LEMMA TurnRead ==
    ASSUME NEW m, NEW e, Memory(m, e), NEW n \in Nat, NEW read, WellRead(e, read, n)
    PROVE  WellRead(e, ReadHeader(m, e, read), n + 1)
<1> USE DEF Failed, Partial
<1>1. /\ e \in Nat /\ IsRead(read) /\ read.next \in {Failed, Partial} \cup 1 .. e + 1
      /\ read.headers \in Seq(Headers) /\ Len(read.headers) \in Nat /\ Len(read.headers) <= n
  BY LenProperties DEF WellRead, Memory
<1> DEFINE line == Header(m, e, read.next, read.headers = << >>)
<1>2. CASE read.next \notin 1 .. e \/ m[read.next] \in {"CR", "LF"}
  <2>1. ReadHeader(m, e, read) = read /\ Len(read.headers) <= n + 1
    BY <1>1, <1>2 DEF ReadHeader
  <2> QED BY <1>1, <2>1 DEF WellRead
<1>3. CASE read.next \in 1 .. e /\ m[read.next] \notin {"CR", "LF"}
  <2>1. line.next \in {Failed, Partial} \cup 1 .. e + 1
    <3>1. line.next \in {Failed, Partial} \cup read.next + 1 .. e + 1
      BY <1>1, <1>3, LinesEnd
    <3> HIDE DEF line
    <3> QED BY <1>1, <1>3, <3>1
  <2>2. ReadHeader(m, e, read) =
            IF line.next < 0 THEN [read EXCEPT !.next = line.next]
            ELSE [next |-> line.next, headers |-> Append(read.headers, line.header)]
    BY <1>3 DEF ReadHeader
  <2>3. [read EXCEPT !.next = line.next] = [next |-> line.next, headers |-> read.headers]
    <3>1. ASSUME NEW p
          PROVE  [read EXCEPT !.next = p] = [next |-> p, headers |-> read.headers]
      BY <1>1 DEF IsRead
    <3> QED BY <3>1
  <2>4. ~(line.next < 0) => line.header \in Headers
    BY <1>3, LineRead
  <2> HIDE DEF line
  <2>5. CASE line.next < 0
    <3>1. ReadHeader(m, e, read) = [next |-> line.next, headers |-> read.headers]
          /\ Len(read.headers) <= n + 1
      BY <1>1, <2>2, <2>3, <2>5
    <3> QED BY <1>1, <2>1, <3>1 DEF WellRead, IsRead
  <2>6. CASE ~(line.next < 0)
    <3> DEFINE headers == Append(read.headers, line.header)
    <3>1. headers \in Seq(Headers) /\ Len(headers) = Len(read.headers) + 1
      BY <1>1, <2>4, <2>6, AppendProperties
    <3>2. ReadHeader(m, e, read) = [next |-> line.next, headers |-> headers]
      BY <2>2, <2>6
    <3> HIDE DEF headers
    <3>3. Len(headers) <= n + 1
      BY <1>1, <3>1
    <3> QED BY <2>1, <3>1, <3>2, <3>3 DEF WellRead, IsRead
  <2> QED BY <2>5, <2>6
<1> QED BY <1>2, <1>3

(* What the loop stores is headers, no more of them than there is room     *)
(* for.                                                                    *)
LEMMA HeadersRead ==
    ASSUME NEW m, NEW e, Memory(m, e), NEW start \in 1 .. e + 1
    PROVE  WellRead(e, ReadHeaders(m, e, start), MaxHeaders)
<1>0. MaxHeaders \in Nat /\ e \in Nat
  BY ParserAssumption DEF Memory
<1>1. PICK Read : IsLoop(Read, m, e, start)
  BY LoopOfHeaders
<1> DEFINE Bad == {n \in 0 .. MaxHeaders : ~WellRead(e, Read[n], n)}
<1>2. SUFFICES ASSUME Bad # {} PROVE FALSE
  <2>1. CASE Bad = {}
    BY <1>0, <1>1, <2>1 DEF IsLoop
  <2> QED BY <1>2, <2>1
<1>3. PICK n \in Bad : \A i \in Bad : n <= i
  <2>1. Bad \in SUBSET Nat
    OBVIOUS
  <2> HIDE DEF Bad
  <2> QED BY <1>2, <2>1, LeastNat
<1>4. n # 0
  <2>1. WellRead(e, Started(start), 0)
    BY <1>0 DEF WellRead, Started, IsRead
  <2> QED BY <1>1, <1>3, <2>1 DEF IsLoop
<1>5. n - 1 \in 0 .. MaxHeaders /\ n - 1 \notin Bad /\ n \in 1 .. MaxHeaders /\ n - 1 \in Nat
      /\ n - 1 + 1 = n
  BY <1>0, <1>3, <1>4
<1>6. WellRead(e, Read[n - 1], n - 1)
  BY <1>5
<1>7. WellRead(e, ReadHeader(m, e, Read[n - 1]), n - 1 + 1)
  BY <1>5, <1>6, TurnRead
<1> QED BY <1>1, <1>3, <1>5, <1>7 DEF IsLoop

Stored(result) == /\ result = Result(result.ret, result.method, result.path, result.headers)
                  /\ result.ret \in Int
                  /\ result.method \in Unbroken
                  /\ result.path \in Unbroken
                  /\ result.headers \in Seq(Headers)
                  /\ Len(result.headers) <= MaxHeaders
                  /\ result.path # << >> => result.method # << >> \/ result.ret = Failed

(* Where nothing is stored.                                                *)
LEMMA Nothing == << >> \in Unbroken /\ << >> \in Seq(Headers) /\ Len(<< >>) <= MaxHeaders
<1>1. MaxHeaders \in Nat
  BY ParserAssumption
<1> QED BY <1>1 DEF Unbroken

(* A result is as it should be if its parts are.                           *)
LEMMA StoredIs ==
    ASSUME NEW ret \in Int, NEW method \in Unbroken, NEW path \in Unbroken,
           NEW headers \in Seq(Headers), Len(headers) <= MaxHeaders,
           path # << >> => method # << >> \/ ret = Failed
    PROVE  Stored(Result(ret, method, path, headers))
BY DEF Stored, Result

(* The same with no headers.                                               *)
LEMMA StoredLine ==
    ASSUME NEW ret \in Int, NEW method \in Unbroken, NEW path \in Unbroken,
           path # << >> => method # << >> \/ ret = Failed
    PROVE  Stored(Result(ret, method, path, << >>))
<1> DEFINE none == << >>
<1>1. none \in Seq(Headers) /\ Len(none) <= MaxHeaders
  BY Nothing
<1> HIDE DEF none
<1>2. Stored(Result(ret, method, path, none))
  BY <1>1, StoredIs
<1> QED BY <1>2 DEF none

(* What is stored when method and path are known.                          *)
LEMMA StoredRest ==
    ASSUME NEW m, NEW e, Memory(m, e), NEW method \in Unbroken, NEW path \in Unbroken,
           NEW rest \in {Failed, Partial} \cup 1 .. e + 1
    PROVE  Stored(parse_rest(m, e, method, path, rest))
<1> USE DEF Failed, Partial
<1>1. e \in Nat /\ \A ret, f, g, h : /\ Result(ret, f, g, h).ret = ret
                                     /\ Result(ret, f, g, h).method = f
                                     /\ Result(ret, f, g, h).path = g
                                     /\ Result(ret, f, g, h).headers = h
  BY DEF Result, Memory
<1>2. CASE << >> \in {method, path}
  <2>1. parse_rest(m, e, method, path, rest) = Result(Failed, method, path, << >>)
    BY <1>2 DEF parse_rest
  <2>2. Failed \in Int /\ Failed = Failed
    OBVIOUS
  <2> QED BY <2>1, <2>2, StoredLine
<1>3. CASE << >> \notin {method, path} /\ rest < 0
  <2>1. parse_rest(m, e, method, path, rest) = Result(rest, method, path, << >>)
    BY <1>3 DEF parse_rest
  <2>2. rest \in Int /\ (path # << >> => method # << >>)
    BY <1>1, <1>3
  <2> QED BY <2>1, <2>2, StoredLine
<1>4. CASE << >> \notin {method, path} /\ rest \in 1 .. e + 1
  <2> DEFINE read == ReadHeaders(m, e, rest)
  <2>1. parse_rest(m, e, method, path, rest) =
            Result(EndOfHeaders(m, e, read.next), method, path, read.headers)
    BY <1>1, <1>4 DEF parse_rest, parse_headers
  <2>2. WellRead(e, read, MaxHeaders)
    BY <1>4, HeadersRead
  <2> HIDE DEF read
  <2>3. EndOfHeaders(m, e, read.next) \in Int
    <3>1. read.next \in {Failed, Partial} \cup 1 .. e + 1
      BY <2>2 DEF WellRead
    <3>2. CASE read.next \in 1 .. e
      <4>1. EndOfLine(m, e, read.next) \in {Failed, Partial} \cup read.next + 1 .. e + 1
        BY <3>2, EndsOfLines
      <4> QED BY <1>1, <3>2, <4>1 DEF EndOfHeaders
    <3>3. CASE read.next \notin 1 .. e
      BY <1>1, <3>1, <3>3 DEF EndOfHeaders
    <3> QED BY <3>2, <3>3
  <2> QED BY <1>1, <1>4, <2>1, <2>2, <2>3 DEF Stored, WellRead
<1> QED BY <1>1, <1>2, <1>3, <1>4

(* What AdvanceToken cuts out.                                             *)
LEMMA TokenCut ==
    ASSUME NEW m, NEW e, Memory(m, e), NEW p \in 1 .. Len(m), ~(AdvanceToken(m, e, p) < 0)
    PROVE  /\ AdvanceToken(m, e, p) \in 1 .. Len(m)
           /\ SubSeq(m, p, AdvanceToken(m, e, p) - 1) \in Unbroken
<1> DEFINE stop == AdvanceToken(m, e, p)
<1>1. m \in Seq(Symbols) /\ Len(m) \in Nat /\ p \in Nat
  BY LenProperties DEF Memory
<1>2. stop \in p .. Len(m) /\ \A i \in p .. stop - 1 : m[i] \notin Controls \cup {"SP"}
  <2>1. stop \in {Failed, Partial} \cup p .. Len(m)
        /\ (stop > 0 => \A i \in p .. stop - 1 : m[i] \notin Controls \cup {"SP"})
    BY Tokens
  <2> HIDE DEF stop
  <2>2. ~(stop < 0)
    BY DEF stop
  <2> QED BY <1>1, <2>1, <2>2 DEF Failed, Partial
<1> HIDE DEF stop
<1>3. \A i \in p .. stop - 1 : m[i] \in Symbols \ (Controls \cup {"SP"})
  <2>1. \A i \in p .. stop - 1 : i \in 1 .. Len(m)
    BY <1>1, <1>2
  <2> QED BY <1>1, <1>2, <2>1, ElementOfSeq
<1>4. SubSeq(m, p, stop - 1) \in Unbroken
  <2>1. p \in Int /\ stop - 1 \in Int
    BY <1>1, <1>2
  <2> QED BY <1>3, <2>1, SubSeqProperties DEF Unbroken
<1> QED BY <1>1, <1>2, <1>4 DEF stop

(* Method, path and headers as they are stored.                            *)
LEMMA StoredResult ==
    ASSUME NEW m, NEW e, Memory(m, e), e # 0
    PROVE  Stored(ParseFrom(m, e, SkipEmptyLine(m, e)))
<1> USE DEF Failed, Partial
<1> DEFINE start == SkipEmptyLine(m, e)
           stop == AdvanceToken(m, e, start)
           first == SkipBlanks(m, stop)
           last == AdvanceToken(m, e, first)
           v == SkipBlanks(m, last)
           method == SubSeq(m, start, stop - 1)
           path == SubSeq(m, first, last - 1)
           rest == parse_http_version(m, e, v)
           R == ParseFrom(m, e, start)
<1>1. /\ \A ret, f, g, h : /\ Result(ret, f, g, h).ret = ret
                           /\ Result(ret, f, g, h).method = f
                           /\ Result(ret, f, g, h).path = g
                           /\ Result(ret, f, g, h).headers = h
      /\ e \in Nat /\ Len(m) \in Nat /\ e < Len(m)
  BY LenProperties DEF Result, Memory
<1>2. ASSUME NEW ret \in {Failed, Partial}, NEW f \in Unbroken
      PROVE  Stored(Result(ret, f, << >>, << >>))
  <2>1. ret \in Int /\ << >> \in Unbroken
    BY Nothing
  <2> QED BY <2>1, StoredLine
<1>3. start \in {Failed, Partial} \cup 1 .. Len(m)
  <2>1. start \in {Failed, Partial} \cup 1 .. e + 1
    BY EmptyLines
  <2> HIDE DEF start
  <2> QED BY <1>1, <2>1
<1>4. CASE start < 0
  <2>1. R = Result(start, << >>, << >>, << >>)
    BY <1>4 DEF ParseFrom
  <2> HIDE DEF start
  <2> QED BY <1>2, <1>3, <1>4, <2>1, Nothing DEF start
<1>5. CASE start \in 1 .. Len(m)
  <2>1. R = parse_request(m, e, start, stop)
    BY <1>5 DEF ParseFrom
  <2> HIDE DEF start, R
  <2>2. CASE stop < 0
    <3>1. stop \in {Failed, Partial}
      <4>1. stop \in {Failed, Partial} \cup start .. Len(m)
        BY <1>5, Tokens
      <4> HIDE DEF stop
      <4> QED BY <1>1, <1>5, <2>2, <4>1
    <3>2. R = Result(stop, << >>, << >>, << >>)
      BY <2>1, <2>2 DEF parse_request
    <3> QED BY <1>2, <3>1, <3>2, Nothing DEF R, start
  <2>3. CASE ~(stop < 0)
    <3>1. stop \in 1 .. Len(m) /\ method \in Unbroken
      BY <1>5, <2>3, TokenCut
    <3>2. R = parse_path(m, e, method, first, last)
      BY <2>1, <2>3 DEF parse_request
    <3> HIDE DEF stop, method
    <3>3. first \in 1 .. Len(m)
      <4>1. first \in stop .. Len(m)
        BY <3>1, Blanks
      <4> QED BY <1>1, <3>1, <4>1
    <3> HIDE DEF first
    <3>4. CASE last < 0
      <4>1. last \in {Failed, Partial}
        <5>1. last \in {Failed, Partial} \cup first .. Len(m)
          BY <3>3, Tokens
        <5> HIDE DEF last
        <5> QED BY <1>1, <3>3, <3>4, <5>1
      <4>2. R = Result(last, method, << >>, << >>)
        BY <3>2, <3>4 DEF parse_path
      <4> QED BY <1>2, <3>1, <4>1, <4>2 DEF R, start
    <3>5. CASE ~(last < 0)
      <4>1. last \in 1 .. Len(m) /\ path \in Unbroken
        BY <3>3, <3>5, TokenCut
      <4>2. R = parse_rest(m, e, method, path, rest)
        BY <3>2, <3>5 DEF parse_path
      <4> HIDE DEF last, path
      <4>3. v \in 1 .. Len(m)
        <5>1. v \in last .. Len(m)
          BY <4>1, Blanks
        <5> QED BY <1>1, <4>1, <5>1
      <4>4. rest \in {Failed, Partial} \cup 1 .. e + 1
        BY <4>3, Versions
      <4> HIDE DEF rest
      <4> QED BY <3>1, <4>1, <4>2, <4>4, StoredRest DEF R, start
    <3> QED BY <3>4, <3>5
  <2> QED BY <2>2, <2>3
<1> QED BY <1>1, <1>3, <1>4, <1>5
-----------------------------------------------------------------------------
(* FlattenSeq, step by step.                                               *)

Flattened(seqs, k) == CHOOSE flatten : flatten = [i \in 1 .. k |->
    IF i = 1 THEN seqs[i] ELSE flatten[i - 1] \o seqs[i]]

(* There is such a function, for there is no least k for which there is    *)
(* none.                                                                   *)
LEMMA FlattenedExists ==
    ASSUME NEW seqs, NEW k \in Nat
    PROVE  \E flatten : flatten = [i \in 1 .. k |->
               IF i = 1 THEN seqs[i] ELSE flatten[i - 1] \o seqs[i]]
<1> DEFINE Step(i, f) == IF i = 1 THEN seqs[i] ELSE f[i - 1] \o seqs[i]
           Good(j) == \E f : f = [i \in 1 .. j |-> Step(i, f)]
           Bad == {j \in Nat : ~Good(j)}
<1>1. SUFFICES ASSUME Bad # {} PROVE FALSE
  OBVIOUS
<1>2. PICK j \in Bad : \A i \in Bad : j <= i
  <2> HIDE DEF Bad
  <2>1. Bad \in SUBSET Nat
    BY DEF Bad
  <2> QED BY <1>1, <2>1, LeastNat
<1>3. j \in Nat /\ ~Good(j)
  BY <1>2
<1>4. ASSUME j = 0
      PROVE  Good(j)
  <2> DEFINE F == [i \in 1 .. j |-> seqs[i]]
  <2>1. F = [i \in 1 .. j |-> Step(i, F)]
    BY <1>4
  <2> QED BY <2>1
<1>5. ASSUME j # 0
      PROVE  Good(j)
  <2>1. Good(j - 1)
    <3>1. j - 1 \in Nat /\ ~(j <= j - 1)
      BY <1>3, <1>5
    <3>2. j - 1 \notin Bad
      BY <1>2, <3>1
    <3> HIDE DEF Good
    <3> QED BY <3>1, <3>2
  <2>2. PICK G : G = [i \in 1 .. j - 1 |-> Step(i, G)]
    BY <2>1
  <2> DEFINE F == [i \in 1 .. j |-> IF i = j THEN Step(j, G) ELSE G[i]]
  <2>3. ASSUME NEW i \in 1 .. j
        PROVE  F[i] = Step(i, F)
    <3>1. i # 1 => F[i - 1] = G[i - 1]
      BY <1>3
    <3>2. Step(i, F) = Step(i, G)
      BY <3>1
    <3>3. i # j => G[i] = Step(i, G)
      <4> HIDE DEF Step
      <4>1. i # j => i \in 1 .. j - 1
        BY <1>3
      <4> QED BY <2>2, <4>1
    <3> QED BY <3>2, <3>3
  <2>4. F = [i \in 1 .. j |-> Step(i, F)]
    BY <2>3
  <2> QED BY <2>4
<1> QED BY <1>3, <1>4, <1>5

(* F[k] is made of the first k sequences.                                  *)
Joins(F, S, seqs) == /\ \A k \in 0 .. Len(seqs) : F[k] \in Seq(S)
                     /\ F[0] = << >>
                     /\ \A k \in 1 .. Len(seqs) : F[k] = F[k - 1] \o seqs[k]
                     /\ FlattenSeq(seqs) = F[Len(seqs)]

(* FlattenSeq joins the sequences one after the other.                     *)
LEMMA FlattenJoins ==
    ASSUME NEW S, NEW seqs \in Seq(Seq(S))
    PROVE  \E F : Joins(F, S, seqs)
<1> DEFINE n == Len(seqs)
           G == Flattened(seqs, n)
           F == [k \in 0 .. n |-> IF k = 0 THEN << >> ELSE G[k]]
<1>1. n \in Nat /\ \A k \in 1 .. n : seqs[k] \in Seq(S)
  BY LenProperties, ElementOfSeq
<1>2. G = [i \in 1 .. n |-> IF i = 1 THEN seqs[i] ELSE G[i - 1] \o seqs[i]]
  BY <1>1, FlattenedExists DEF Flattened
<1>3. FlattenSeq(seqs) = IF n = 0 THEN seqs ELSE G[n]
  BY DEF FlattenSeq, Flattened
<1>4. n = 0 => seqs = << >>
  BY EmptySeq
<1> HIDE DEF n, G
<1>5. FlattenSeq(seqs) = F[n] /\ F[0] = << >>
  BY <1>1, <1>3, <1>4
<1>6. ASSUME NEW k \in 1 .. n
      PROVE  F[k] = F[k - 1] \o seqs[k]
  <2>1. k \in 0 .. n /\ k - 1 \in 0 .. n /\ k # 0
    BY <1>1
  <2>2. CASE k = 1
    <3>1. F[k - 1] = << >> /\ F[k] = seqs[k]
      BY <1>2, <2>1, <2>2
    <3>2. << >> \o seqs[k] = seqs[k]
      BY <1>1, ConcatEmptySeq
    <3> QED BY <3>1, <3>2
  <2>3. CASE k # 1
    <3>1. F[k - 1] = G[k - 1] /\ F[k] = G[k]
      BY <2>1, <2>3
    <3>2. G[k] = G[k - 1] \o seqs[k]
      BY <1>2, <2>3
    <3> QED BY <3>1, <3>2
  <2> QED BY <2>2, <2>3
<1> HIDE DEF F
<1>7. \A k \in 0 .. n : F[k] \in Seq(S)
  <2> DEFINE Bad == {k \in 0 .. n : F[k] \notin Seq(S)}
  <2>1. SUFFICES ASSUME Bad # {} PROVE FALSE
    OBVIOUS
  <2>2. PICK k \in Bad : \A i \in Bad : k <= i
    <3>1. Bad \in SUBSET Nat
      OBVIOUS
    <3> HIDE DEF Bad
    <3> QED BY <2>1, <3>1, LeastNat
  <2>3. k # 0
    <3>1. F[0] \in Seq(S)
      BY <1>5, EmptySeq
    <3> QED BY <2>2, <3>1
  <2>4. k - 1 \in 0 .. n /\ k - 1 \notin Bad /\ k \in 1 .. n
    BY <1>1, <2>2, <2>3
  <2>5. F[k - 1] \in Seq(S) /\ F[k - 1] \o seqs[k] \in Seq(S)
    BY <1>1, <2>4, ConcatProperties
  <2> QED BY <1>6, <2>2, <2>4, <2>5
<1> QED BY <1>5, <1>6, <1>7 DEF Joins, n
-----------------------------------------------------------------------------
(* s is in memory from p on.                                               *)
At(m, p, s) == /\ p + Len(s) - 1 <= Len(m)
               /\ \A i \in 1 .. Len(s) : m[p + i - 1] = s[i]

(* Two sequences joined are in memory one behind the other.                *)
LEMMA AtConcat ==
    ASSUME NEW S, NEW m, NEW p \in Nat \ {0}, NEW s \in Seq(S), NEW t \in Seq(S),
           Len(m) \in Nat, At(m, p, s \o t)
    PROVE  At(m, p, s) /\ At(m, p + Len(s), t) /\ Len(s \o t) = Len(s) + Len(t)
<1>1. /\ Len(s) \in Nat /\ Len(t) \in Nat /\ Len(s \o t) = Len(s) + Len(t)
      /\ \A i \in 1 .. Len(s) + Len(t) :
             (s \o t)[i] = IF i <= Len(s) THEN s[i] ELSE t[i - Len(s)]
  BY LenProperties, ConcatProperties
<1>2. /\ p + (Len(s) + Len(t)) - 1 <= Len(m)
      /\ \A i \in 1 .. Len(s) + Len(t) : m[p + i - 1] = (s \o t)[i]
  BY <1>1 DEF At
<1>3. ASSUME NEW i \in 1 .. Len(s)
      PROVE  m[p + i - 1] = s[i]
  <2>1. i \in 1 .. Len(s) + Len(t) /\ i <= Len(s)
    BY <1>1
  <2> QED BY <1>1, <1>2, <2>1
<1>4. ASSUME NEW i \in 1 .. Len(t)
      PROVE  m[p + Len(s) + i - 1] = t[i]
  <2>1. /\ Len(s) + i \in 1 .. Len(s) + Len(t) /\ ~(Len(s) + i <= Len(s))
        /\ Len(s) + i - Len(s) = i /\ p + (Len(s) + i) - 1 = p + Len(s) + i - 1
    BY <1>1
  <2>2. m[p + (Len(s) + i) - 1] = (s \o t)[Len(s) + i] /\ (s \o t)[Len(s) + i] = t[i]
    BY <1>1, <1>2, <2>1
  <2> QED BY <2>1, <2>2
<1>5. p + Len(s) - 1 <= Len(m) /\ p + Len(s) + Len(t) - 1 <= Len(m)
  BY <1>1, <1>2
<1> QED BY <1>1, <1>3, <1>4, <1>5 DEF At

(* The part of memory where s is, is s.                                    *)
LEMMA AtPart ==
    ASSUME NEW S, NEW m, NEW p \in Nat \ {0}, NEW s \in Seq(S), At(m, p, s)
    PROVE  SubSeq(m, p, p + Len(s) - 1) = s
<1>1. Len(s) \in Nat /\ \A i \in 1 .. Len(s) : m[p + i - 1] = s[i] /\ s[i] \in S
  BY LenProperties, ElementOfSeq DEF At
<1> DEFINE q == p + Len(s) - 1
<1>2. p \in Int /\ q \in Int /\ q - p + 1 = Len(s)
  BY <1>1
<1>3. \A i \in p .. q : m[i] \in S
  <2> SUFFICES ASSUME NEW i \in p .. q PROVE m[i] \in S
    OBVIOUS
  <2>1. i - p + 1 \in 1 .. Len(s) /\ p + (i - p + 1) - 1 = i
    BY <1>1
  <2> QED BY <1>1, <2>1
<1> HIDE DEF q
<1>4. /\ SubSeq(m, p, q) \in Seq(S)
      /\ Len(SubSeq(m, p, q)) = IF p <= q THEN q - p + 1 ELSE 0
      /\ \A i \in 1 .. q - p + 1 : SubSeq(m, p, q)[i] = m[p + i - 1]
  BY <1>2, <1>3, SubSeqProperties
<1>5. Len(SubSeq(m, p, q)) = Len(s)
  BY <1>1, <1>2, <1>4
<1> QED BY <1>1, <1>2, <1>4, <1>5, SeqEqual DEF q

(* Behind s comes the first symbol of T.                                   *)
LEMMA AtFirst ==
    ASSUME NEW m \in Seq(Symbols), NEW p \in Nat \ {0}, NEW s \in Seq(Symbols), NEW T,
           At(m, p, s), \A i \in 1 .. Len(s) : s[i] \notin T,
           p + Len(s) <= Len(m), m[p + Len(s)] \in T
    PROVE  FirstOf(m, p, T) = p + Len(s)
<1>1. Len(s) \in Nat /\ Len(m) \in Nat /\ \A i \in 1 .. Len(s) : m[p + i - 1] = s[i]
  BY LenProperties DEF At
<1>2. p + Len(s) \in p .. Len(m)
  BY <1>1
<1>3. FirstOf(m, p, T) \in p .. p + Len(s) /\ m[FirstOf(m, p, T)] \in T
  BY <1>2, FirstOfIs
<1> DEFINE f == FirstOf(m, p, T)
<1> HIDE DEF f
<1>4. CASE f # p + Len(s)
  <2>1. f - p + 1 \in 1 .. Len(s) /\ p + (f - p + 1) - 1 = f
    BY <1>1, <1>3, <1>4 DEF f
  <2>2. m[f] \notin T
    BY <1>1, <2>1
  <2> QED BY <1>3, <2>2 DEF f
<1> QED BY <1>4 DEF f

(* The same for four sequences joined.                                     *)
LEMMA AtFour ==
    ASSUME NEW S, NEW m, Len(m) \in Nat, NEW p \in Nat \ {0},
           NEW a \in Seq(S), NEW b \in Seq(S), NEW c \in Seq(S), NEW d \in Seq(S),
           At(m, p, a \o b \o c \o d)
    PROVE  /\ Len(a \o b \o c \o d) = Len(a) + Len(b) + Len(c) + Len(d)
           /\ At(m, p, a)
           /\ At(m, p + Len(a), b)
           /\ At(m, p + Len(a) + Len(b), c)
           /\ At(m, p + Len(a) + Len(b) + Len(c), d)
<1> DEFINE ab == a \o b
           abc == ab \o c
<1>1. Len(a) \in Nat /\ Len(b) \in Nat /\ Len(c) \in Nat /\ Len(d) \in Nat
  BY LenProperties
<1>2. ab \in Seq(S) /\ abc \in Seq(S)
  BY ConcatProperties
<1>3. At(m, p, abc) /\ At(m, p + Len(abc), d) /\ Len(abc \o d) = Len(abc) + Len(d)
  <2> HIDE DEF abc
  <2>1. At(m, p, abc \o d)
    BY DEF abc
  <2> QED BY <1>2, <2>1, AtConcat
<1>4. At(m, p, ab) /\ At(m, p + Len(ab), c) /\ Len(abc) = Len(ab) + Len(c)
  <2> HIDE DEF ab
  <2> QED BY <1>2, <1>3, AtConcat
<1>5. At(m, p, a) /\ At(m, p + Len(a), b) /\ Len(ab) = Len(a) + Len(b)
  BY <1>4, AtConcat
<1> HIDE DEF ab
<1>6. Len(abc) = Len(a) + Len(b) + Len(c) /\ Len(abc \o d) = Len(a) + Len(b) + Len(c) + Len(d)
      /\ p + Len(ab) = p + Len(a) + Len(b) /\ p + Len(abc) = p + Len(a) + Len(b) + Len(c)
  <2> HIDE DEF abc
  <2> QED BY <1>1, <1>3, <1>4, <1>5
<1> QED BY <1>3, <1>4, <1>5, <1>6 DEF ab

(* A value that is put in memory is read there.                            *)
LEMMA ValueAgain ==
    ASSUME NEW m, NEW p \in Nat \ {0}, NEW value \in Seq(Symbols \ Controls), Trimmed(value),
           At(m, p, value)
    PROVE  TrimBlanks(m, p, p + Len(value)) = value
<1> DEFINE stop == p + Len(value)
           I == {i \in 1 .. stop - 1 : m[i] # "SP"}
           last == IF I # {} THEN Max(I) ELSE 0
<1>1. Len(value) \in Nat /\ \A i \in 1 .. Len(value) : m[p + i - 1] = value[i]
  BY LenProperties DEF At
<1>2. TrimBlanks(m, p, stop) = SubSeq(m, p, last)
  BY DEF TrimBlanks, SelectLastInSubSeq
<1>3. I # {} => Max(I) \in I /\ \A i \in I : i <= Max(I)
  <2> SUFFICES ASSUME I # {} PROVE Max(I) \in I /\ \A i \in I : i <= Max(I)
    OBVIOUS
  <2>1. I \in SUBSET (0 .. stop) /\ stop \in Nat
    BY <1>1
  <2>2. \E x \in I : \A y \in I : y <= x
    <3> HIDE DEF I, stop
    <3> QED BY <2>1, GreatestNat
  <2> HIDE DEF I
  <2> QED BY <2>2 DEF Max
<1>4. last \in 0 .. stop - 1
  <2>1. stop \in Nat /\ stop > 0
    BY <1>1
  <2> QED BY <1>3, <2>1
<1>5. CASE value = << >>
  <2>1. Len(value) = 0
    BY <1>5
  <2>2. last < p /\ last \in Int
    <3> HIDE DEF last
    <3> QED BY <1>1, <1>4, <2>1
  <2> HIDE DEF last
  <2>3. SubSeq(m, p, last) = << >>
    BY <2>2, SubSeqEmpty
  <2> QED BY <1>2, <1>5, <2>3
<1>6. CASE value # << >>
  <2>1. Len(value) > 0
    <3>1. Len(value) \in Nat \ {0}
      BY <1>6, EmptySeq
    <3> QED BY <3>1
  <2>2. m[p + Len(value) - 1] = value[Len(value)] /\ value[Len(value)] # "SP"
    BY <1>1, <1>6, <2>1 DEF Trimmed
  <2>3. stop - 1 \in I
    BY <1>1, <2>1, <2>2
  <2>4. last = stop - 1
    <3>1. last \in I /\ stop - 1 <= last
      <4> HIDE DEF I, stop
      <4> QED BY <1>3, <2>3
    <3>2. stop \in Nat
      BY <1>1
    <3> HIDE DEF I, last, stop
    <3> QED BY <1>4, <3>1, <3>2
  <2>5. SubSeq(m, p, p + Len(value) - 1) = value
    BY AtPart
  <2>6. stop - 1 = p + Len(value) - 1
    OBVIOUS
  <2> HIDE DEF last
  <2>7. TrimBlanks(m, p, stop) = SubSeq(m, p, p + Len(value) - 1)
    BY <1>2, <2>4, <2>6
  <2> QED BY <2>5, <2>7
<1> QED BY <1>5, <1>6

(* A name is no other symbol.                                              *)
LEMMA NamesAre ==
    /\ \A name \in Names : name \notin Controls \cup {"SP", "COLON", "VERSION"}
    /\ "COLON" \in Symbols \ Names
    /\ Names \subseteq Symbols
BY ParserAssumption DEF Names, Symbols, Controls

(* Of one blank, the end is behind it.                                     *)
LEMMA OneBlank ==
    ASSUME NEW m \in Seq(Symbols), NEW p \in Nat \ {0}, p + 1 <= Len(m),
           m[p] = "SP", m[p + 1] # "SP"
    PROVE  SkipBlanks(m, p) = p + 1
<1>1. Len(m) \in Nat /\ p + 1 \in p .. Len(m) /\ p + 1 \in 1 .. Len(m) /\ p \in Nat
  BY LenProperties
<1>2. m[p + 1] \in Symbols \ {"SP"}
  <2>1. m[p + 1] \in Symbols
    BY <1>1, ElementOfSeq
  <2> QED BY <2>1
<1> DEFINE f == FirstOf(m, p, Symbols \ {"SP"})
<1>3. f \in p .. p + 1 /\ m[f] \in Symbols \ {"SP"}
  BY <1>1, <1>2, FirstOfIs
<1> HIDE DEF f
<1>4. f # p
  BY <1>3
<1>5. f = p + 1
  BY <1>1, <1>3, <1>4
<1> QED BY <1>5 DEF f, SkipBlanks

(* A token that is put in memory, with a blank behind it, is read there.   *)
LEMMA TokenAgain ==
    ASSUME NEW m, NEW e, Memory(m, e), NEW p \in 1 .. e, NEW token \in Unbroken,
           At(m, p, token), NEW stop, stop = p + Len(token), stop <= e, m[stop] = "SP"
    PROVE  /\ AdvanceToken(m, e, p) = stop
           /\ SubSeq(m, p, stop - 1) = token
<1>1. /\ m \in Seq(Symbols) /\ Len(m) \in Nat /\ e \in Nat /\ e < Len(m) /\ p \in Nat \ {0}
  BY LenProperties DEF Memory
<1>2. token \in Seq(Symbols) /\ Len(token) \in Nat
      /\ \A i \in 1 .. Len(token) : token[i] \notin Controls \cup {"SP"}
  <2>1. token \in Seq(Symbols \ (Controls \cup {"SP"}))
    BY DEF Unbroken
  <2>2. Symbols \ (Controls \cup {"SP"}) \subseteq Symbols
    OBVIOUS
  <2>3. \A i \in 1 .. Len(token) : token[i] \in Symbols \ (Controls \cup {"SP"})
    BY <2>1, ElementOfSeq
  <2> QED BY <2>1, <2>2, <2>3, SeqMonotonic, LenProperties
<1>3. FirstOf(m, p, Controls \cup {"SP"}) = stop
  <2>1. stop <= Len(m) /\ m[stop] \in Controls \cup {"SP"}
    BY <1>1, <1>2
  <2> QED BY <1>1, <1>2, <2>1, AtFirst
<1>4. ~(stop > e)
  BY <1>1, <1>2
<1>5. AdvanceToken(m, e, p) = stop
  BY <1>3, <1>4 DEF AdvanceToken
<1>6. SubSeq(m, p, stop - 1) = token
  BY <1>1, <1>2, AtPart
<1> QED BY <1>5, <1>6

(* A version that is put in memory, with the end of the line behind it.    *)
LEMMA VersionAgain ==
    ASSUME NEW m, NEW e, Memory(m, e), NEW v \in 1 .. e - 2,
           m[v] = "VERSION", m[v + 1] = "CR", m[v + 2] = "LF"
    PROVE  parse_http_version(m, e, v) = v + 3
<1>1. e \in Nat /\ v \in Int /\ e \in Int /\ v \in v .. e - 1 /\ v + 1 # e
      /\ v + 1 + 1 = v + 2 /\ v + 1 + 2 = v + 3
  BY DEF Memory
<1>2. Cardinality(Bytes(m, v, e)) \in Nat /\ Cardinality(Bytes(m, v, e)) >= 9
  BY <1>1, BytesFinite, ManyBytes
<1>3. ~(Cardinality(Bytes(m, v, e)) < 9)
  BY <1>2
<1>4. EndOfLine(m, e, v + 1) = v + 3
  <2> DEFINE p == v + 1
  <2>1. m[p] = "CR" /\ p # e /\ m[p + 1] = "LF"
    BY <1>1
  <2> HIDE DEF p
  <2>2. EndOfLine(m, e, p) = p + 2
    BY <2>1 DEF EndOfLine
  <2> QED BY <1>1, <2>2 DEF p
<1> QED BY <1>3, <1>4 DEF parse_http_version
=============================================================================
