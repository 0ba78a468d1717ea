------------------------------- MODULE HttpProofs -------------------------------
(***************************************************************************)
(* Theorems about HttpText and HttpServer, for any clients, requests,      *)
(* segments, short writes and interruptions: parse() is faithful to what   *)
(* a client writes down, and Delivered /\ Answering is inductive and gives *)
(* AnswerExact and, with the first, RequestUnderstood.                     *)
(***************************************************************************)
EXTENDS HttpServer, HttpTextProofs

-----------------------------------------------------------------------------
(* What a server sends is a sequence of lines.                             *)

IsSeq(s) == \E S : s \in Seq(S)

\* A concatenation of sequences is a sequence.
LEMMA ConcatIsSeq ==
    ASSUME NEW s, NEW t, IsSeq(s), IsSeq(t)
    PROVE  IsSeq(s \o t)
<1>1. PICK S : s \in Seq(S)
  BY DEF IsSeq
<1>2. PICK T : t \in Seq(T)
  BY DEF IsSeq
<1>3. s \in Seq(S \cup T) /\ t \in Seq(S \cup T)
  BY <1>1, <1>2
<1>4. s \o t \in Seq(S \cup T)
  BY <1>3
<1> QED  BY <1>4 DEF IsSeq

\* A single line is a sequence of lines.
LEMMA OneIsSeq ==
    ASSUME NEW x
    PROVE  IsSeq(<<x>>)
<1>1. <<x>> \in Seq({x})
  OBVIOUS
<1> QED  BY <1>1 DEF IsSeq

\* A map after the insertion of a pair.
LEMMA InsertIs ==
    ASSUME NEW h, NEW name, NEW v
    PROVE  /\ DOMAIN Insert(h, name, v) = DOMAIN h \cup {name}
           /\ Insert(h, name, v)[name] = v
           /\ \A m \in DOMAIN h : m # name => Insert(h, name, v)[m] = h[m]
           /\ Insert(h, name, v) = [m \in DOMAIN Insert(h, name, v) |-> Insert(h, name, v)[m]]
BY DEF Insert

\* An insertion keeps a map finite.
LEMMA InsertFinite ==
    ASSUME NEW h, NEW name, NEW v, IsFiniteSet(DOMAIN h)
    PROVE  IsFiniteSet(DOMAIN Insert(h, name, v))
<1>1. DOMAIN Insert(h, name, v) = DOMAIN h \cup {name}
  BY InsertIs
<1>2. IsFiniteSet(DOMAIN h \cup {name})
  BY FS_AddElement
<1> QED  BY <1>1, <1>2

\* However many lines the head has, the headers are finitely many.
LEMMA HeadersFinite ==
    ASSUME NEW S, NEW ls \in Seq(S)
    PROVE  IsFiniteSet(DOMAIN FoldLeft(AddHeader, NoHeaders, ls))
<1>1. PICK h : /\ h[0] = NoHeaders
               /\ \A i \in 1 .. Len(ls) : h[i] = AddHeader(h[i - 1], ls[i])
               /\ FoldLeft(AddHeader, NoHeaders, ls) = h[Len(ls)]
  BY HeadersAre
<1>2. Len(ls) \in Nat
  OBVIOUS
<1>3. ASSUME NEW g, NEW line, IsFiniteSet(DOMAIN g)
      PROVE  IsFiniteSet(DOMAIN AddHeader(g, line))
  <2>1. AddHeader(g, line) = g \/ \E name, v : AddHeader(g, line) = Insert(g, name, v)
    BY Zenon DEF AddHeader
  <2> QED  BY <1>3, <2>1, InsertFinite, Zenon
<1> DEFINE T == {k \in Nat : k <= Len(ls) => IsFiniteSet(DOMAIN h[k])}
<1>4. 0 \in T
  <2>1. DOMAIN NoHeaders = {}
    BY DEF NoHeaders
  <2>2. IsFiniteSet(DOMAIN h[0])
    BY <1>1, <2>1, FS_EmptySet
  <2> QED  BY <2>2
<1>5. ASSUME NEW k \in T PROVE k + 1 \in T
  <2>1. k \in Nat /\ k + 1 \in Nat
    OBVIOUS
  <2>2. SUFFICES ASSUME k + 1 <= Len(ls) PROVE IsFiniteSet(DOMAIN h[k + 1])
    BY <2>1
  <2>3. k + 1 \in 1 .. Len(ls) /\ IsFiniteSet(DOMAIN h[k])
    BY <1>2, <2>1, <2>2
  <2>4. ASSUME NEW i \in 1 .. Len(ls), i = k + 1 PROVE IsFiniteSet(DOMAIN h[i])
    <3>1. i - 1 = k
      BY <2>1, <2>4
    <3>2. h[i] = AddHeader(h[k], ls[i])
      BY <1>1, <3>1
    <3> QED  BY <1>3, <2>3, <3>2, Zenon
  <2> HIDE DEF T
  <2> QED  BY <2>3, <2>4
<1>6. \A k \in Nat : k \in T
  <2>1. T \in SUBSET Nat
    OBVIOUS
  <2> HIDE DEF T
  <2> QED  BY <2>1, <1>4, <1>5, SetOfNaturals
<1> QED  BY <1>1, <1>2, <1>6

\* The headers of a HashMap, one line each.
LEMMA HeaderLinesIsSeq ==
    ASSUME NEW h, IsFiniteSet(DOMAIN h)
    PROVE  IsSeq(HeaderLines(h))
<1> DEFINE D == DOMAIN h
           n == Cardinality(D)
           names == SetToSeq(D)
           line(i) == <<names[i], ":">> \o h[names[i]]
<1>1. n \in Nat /\ ExistsBijection(1 .. n, D)
  BY FS_CardinalityType
<1>2. \E f \in [1 .. n -> D] : IsInjective(f)
  BY <1>1 DEF ExistsBijection, Bijection, Injection
<1>3. names \in [1 .. n -> D]
  BY <1>2 DEF SetToSeq
<1>4. DOMAIN names = 1 .. n
  BY <1>3
<1>5. HeaderLines(h) = [i \in 1 .. n |-> line(i)]
  BY <1>4, Zenon DEF HeaderLines
<1> HIDE DEF names, n, line
<1>6. HeaderLines(h) \in [1 .. n -> {line(i) : i \in 1 .. n}]
  BY <1>5
<1>7. HeaderLines(h) \in Seq({line(i) : i \in 1 .. n})
  BY <1>1, <1>6, FunctionSeq
<1> QED  BY <1>7 DEF IsSeq

\* An answer of EchoHandler, as to_bytes writes it.
LEMMA EchoIsSeq ==
    ASSUME NEW q, IsFiniteSet(DOMAIN q.headers)
    PROVE  IsSeq(ToBytes(EchoHandler(q)))
<1> DEFINE body == <<<<q.method, q.path, q.version>>>>
                   \o HeaderLines(q.headers) \o <<<<"Body:">> \o q.body>>
           h1 == Insert(NoHeaders, "server", <<"miniss/1.0">>)
           h2 == Insert(h1, Lower("content-type"), <<"text/plain">>)
           h3 == Insert(h2, "content-length", <<ToString(Len(body))>>)
<1>1. IsSeq(body)
  <2>1. IsSeq(<<<<q.method, q.path, q.version>>>>) /\ IsSeq(<<<<"Body:">> \o q.body>>)
    BY OneIsSeq
  <2>2. IsSeq(HeaderLines(q.headers))
    BY HeaderLinesIsSeq
  <2> QED  BY <2>1, <2>2, ConcatIsSeq
<1> HIDE DEF body
<1>2. /\ EchoHandler(q).headers = h3 /\ EchoHandler(q).body = body
      /\ EchoHandler(q).version = "HTTP/1.1" /\ EchoHandler(q).status = "200"
  BY DEF EchoHandler, WithBody, WithHeader, NewResponse, body
<1>3. IsFiniteSet(DOMAIN h3)
  <2>1. DOMAIN NoHeaders = {}
    BY DEF NoHeaders
  <2>2. IsFiniteSet(DOMAIN NoHeaders)
    BY <2>1, FS_EmptySet
  <2>3. IsFiniteSet(DOMAIN h1)
    BY <2>2, InsertFinite
  <2> HIDE DEF h1
  <2>4. IsFiniteSet(DOMAIN h2)
    BY <2>3, InsertFinite
  <2> HIDE DEF h2
  <2> QED  BY <2>4, InsertFinite
<1> HIDE DEF h3
<1>4. IsSeq(HeaderLines(h3))
  BY <1>3, HeaderLinesIsSeq
<1>5. ToBytes(EchoHandler(q)) = <<<<"HTTP/1.1", "200">>>> \o HeaderLines(h3) \o <<<<>>>> \o body
  BY <1>2 DEF ToBytes
<1>6. IsSeq(<<<<"HTTP/1.1", "200">>>>) /\ IsSeq(<<<<>>>>)
  BY OneIsSeq
<1>7. IsSeq(<<<<"HTTP/1.1", "200">>>> \o HeaderLines(h3) \o <<<<>>>> \o body)
  BY <1>1, <1>4, <1>6, ConcatIsSeq
<1> QED  BY <1>5, <1>7

\* Request::parse finds finitely many headers.
LEMMA ParseFinite ==
    ASSUME NEW t \in Text, Parse(t) # Invalid
    PROVE  IsFiniteSet(DOMAIN Parse(t).headers)
<1> DEFINE lines == Lines(t)
           blank == {i \in 2 .. Len(lines) : lines[i] = <<>>}
           head == IF blank = {} THEN Len(lines)
                   ELSE (CHOOSE i \in blank : \A j \in blank : i <= j) - 1
<1>1. Parse(t).headers = FoldLeft(AddHeader, NoHeaders, SubSeq(lines, 2, head))
  BY Zenon DEF Parse
<1>2. lines \in Seq(Text) /\ Len(lines) \in Nat
  BY LinesAre
<1> HIDE DEF lines
<1>3. head \in Int /\ head <= Len(lines)
  <2>1. CASE blank = {}
    BY <1>2, <2>1
  <2>2. CASE blank # {}
    <3>1. blank \in SUBSET Nat /\ \A i \in blank : i <= Len(lines)
      BY <1>2
    <3>2. \E i \in blank : \A j \in blank : i <= j
      BY <2>2, <3>1, Smallest
    <3> HIDE DEF blank
    <3>3. PICK i \in blank : head = i - 1
      BY <2>2, <3>2
    <3> HIDE DEF head
    <3> QED  BY <1>2, <3>1, <3>3
  <2> QED  BY <2>1, <2>2
<1> HIDE DEF head
<1>4. SubSeq(lines, 2, head) \in Seq(Text)
  BY <1>2, <1>3, Part
<1> QED  BY <1>1, <1>4, HeadersFinite

-----------------------------------------------------------------------------
(* The text of a request.                                                  *)

\* The line of a header, and the lines of all of them.
HeadLine(q, i) == <<q.headers[i][1], ":">> \o q.headers[i][2]
HeadLines(q) == [i \in 1 .. Len(q.headers) |-> HeadLine(q, i)]
Pieces(q) == [i \in DOMAIN q.headers |->
                 <<q.headers[i][1], ":">> \o q.headers[i][2] \o <<q.eol>>]

\* The parts of a request.
LEMMA RequestIs ==
    ASSUME NEW q \in Request
    PROVE  /\ q.method \in Word /\ q.path \in Word /\ q.version \in Word
           /\ q.headers \in Seq((Word \ {":"}) \X Seq(Word))
           /\ q.body \in Text /\ q.eol \in LineEnd
           /\ Len(q.headers) \in Nat /\ DOMAIN q.headers = 1 .. Len(q.headers)
           /\ \A i \in 1 .. Len(q.headers) :
                 q.headers[i][1] \in Word \ {":"} /\ q.headers[i][2] \in Seq(Word)
<1>1. /\ q.method \in Word /\ q.path \in Word /\ q.version \in Word
      /\ q.headers \in Seq((Word \ {":"}) \X Seq(Word))
      /\ q.body \in Text /\ q.eol \in LineEnd
  BY DEF Request
<1> DEFINE hs == q.headers
<1>2. hs \in Seq((Word \ {":"}) \X Seq(Word))
  BY <1>1
<1> HIDE DEF hs
<1>3. Len(hs) \in Nat /\ DOMAIN hs = 1 .. Len(hs)
      /\ \A i \in 1 .. Len(hs) : hs[i] \in (Word \ {":"}) \X Seq(Word)
  BY <1>2
<1>4. \A i \in 1 .. Len(hs) : hs[i][1] \in Word \ {":"} /\ hs[i][2] \in Seq(Word)
  BY <1>3
<1> QED  BY <1>1, <1>3, <1>4 DEF hs

\* The line of a header begins with the name and the first colon.
LEMMA HeadLineIs ==
    ASSUME NEW q \in Request, NEW i \in 1 .. Len(q.headers)
    PROVE  /\ HeadLine(q, i) \in Seq(Word) /\ HeadLine(q, i) \in Text
           /\ Len(HeadLine(q, i)) = 2 + Len(q.headers[i][2])
           /\ HeadLine(q, i)[1] = q.headers[i][1] /\ HeadLine(q, i)[2] = ":"
           /\ SubSeq(HeadLine(q, i), 3, Len(HeadLine(q, i))) = q.headers[i][2]
           /\ Pieces(q)[i] = HeadLine(q, i) \o <<q.eol>>
<1> DEFINE w == q.headers[i][1]
           v == q.headers[i][2]
           l == <<w, ":">> \o v
<1>1. w \in Word /\ v \in Seq(Word) /\ ":" \in Word
  BY RequestIs, WordAssumption
<1> HIDE DEF w, v
<1>2. <<w, ":">> \in Seq(Word)
  BY <1>1
<1>3. /\ l \in Seq(Word) /\ Len(l) = 2 + Len(v) /\ l[1] = w /\ l[2] = ":"
      /\ \A j \in 1 .. Len(v) : l[2 + j] = v[j]
  BY <1>1, <1>2
<1>4. Len(v) \in Nat
  BY <1>1
<1> HIDE DEF l
<1>5. SubSeq(l, 3, Len(l)) = v
  <2> DEFINE p == SubSeq(l, 3, Len(l))
  <2>1. Len(l) \in Int /\ Len(l) <= Len(l)
    BY <1>3, <1>4
  <2>2. /\ p \in Seq(Word)
        /\ Len(p) = IF 3 <= Len(l) THEN Len(l) - 3 + 1 ELSE 0
        /\ \A j \in 1 .. Len(l) - 3 + 1 : p[j] = l[3 + j - 1]
    BY <1>3, <2>1, Part
  <2> HIDE DEF p
  <2>3. Len(p) = Len(v) /\ Len(l) - 3 + 1 = Len(v)
    BY <1>3, <1>4, <2>2
  <2>4. ASSUME NEW j \in 1 .. Len(p) PROVE p[j] = v[j]
    <3>1. p[j] = l[3 + j - 1] /\ 3 + j - 1 = 2 + j /\ l[2 + j] = v[j]
      BY <1>3, <1>4, <2>2, <2>3
    <3> QED  BY <3>1
  <2>5. p = v
    BY <1>1, <2>2, <2>3, <2>4, SameSeq
  <2> QED  BY <2>5 DEF p
<1>6. l \in Text
  BY <1>3 DEF Text
<1>7. Pieces(q)[i] = l \o <<q.eol>>
  BY RequestIs DEF Pieces, l, w, v
<1> QED  BY <1>3, <1>5, <1>6, <1>7 DEF HeadLine, l, w, v

\* The pieces of a head are texts.
LEMMA PiecesAre ==
    ASSUME NEW q \in Request
    PROVE  /\ Pieces(q) \in Seq(Text) /\ Len(Pieces(q)) = Len(q.headers)
           /\ HeadLines(q) \in Seq(Text) /\ Len(HeadLines(q)) = Len(q.headers)
           /\ FlattenSeq(Pieces(q)) \in Text
<1> DEFINE n == Len(q.headers)
<1>1. n \in Nat /\ DOMAIN q.headers = 1 .. n /\ q.eol \in LineEnd
  BY RequestIs
<1>2. ASSUME NEW i \in 1 .. n PROVE Pieces(q)[i] \in Text /\ HeadLine(q, i) \in Text
  <2>1. HeadLine(q, i) \in Text /\ Pieces(q)[i] = HeadLine(q, i) \o <<q.eol>>
    BY HeadLineIs
  <2>2. <<q.eol>> \in Text
    BY <1>1 DEF Text
  <2>3. HeadLine(q, i) \o <<q.eol>> \in Text
    BY <2>1, <2>2, Concat DEF Text
  <2> QED  BY <2>1, <2>3
<1> HIDE DEF n
<1>3. Pieces(q) \in [1 .. n -> {Pieces(q)[i] : i \in 1 .. n}]
  BY <1>1 DEF Pieces
<1>4. Pieces(q) \in [1 .. n -> Text]
  BY <1>2, <1>3
<1>5. HeadLines(q) \in [1 .. n -> Text]
  BY <1>2 DEF HeadLines, n
<1>6. /\ Pieces(q) \in Seq(Text) /\ Len(Pieces(q)) = n
      /\ HeadLines(q) \in Seq(Text) /\ Len(HeadLines(q)) = n
  BY <1>1, <1>4, <1>5, FunctionSeq
<1>7. FlattenSeq(Pieces(q)) \in Text
  <2> DEFINE ss == Pieces(q)
  <2>1. ss \in Seq(Seq(Word \cup LineEnd)) /\ Len(ss) = n
    BY <1>6 DEF Text
  <2> HIDE DEF ss
  <2>2. PICK f \in [0 .. Len(ss) -> Seq(Word \cup LineEnd)] : FlattenSeq(ss) = f[Len(ss)]
    BY <2>1, FlattenIs
  <2>3. Len(ss) \in 0 .. Len(ss)
    BY <1>1, <2>1
  <2> QED  BY <2>2, <2>3 DEF Text, ss
<1> QED  BY <1>6, <1>7 DEF n

\* A request is written line by line: the request line, the headers, a blank line
\* and the body.
LEMMA FormatIs ==
    ASSUME NEW q \in Request
    PROVE  /\ <<q.method, q.path, q.version>> \in Seq(Word) /\ <<>> \o <<q.eol>> \o q.body \in Text
           /\ FlattenSeq(Pieces(q)) \o (<<>> \o <<q.eol>> \o q.body) \in Text
           /\ Format(q) = <<q.method, q.path, q.version>> \o <<q.eol>>
                          \o (FlattenSeq(Pieces(q)) \o (<<>> \o <<q.eol>> \o q.body))
           /\ Format(q) \in Text
<1> DEFINE a == <<q.method, q.path, q.version>>
           e == <<q.eol>>
           f == FlattenSeq(Pieces(q))
           b == q.body
<1>1. q.method \in Word /\ q.path \in Word /\ q.version \in Word /\ q.eol \in LineEnd
  BY RequestIs
<1>2. a \in Seq(Word) /\ a \in Text /\ e \in Text
  BY <1>1 DEF Text
<1>3. <<q.method, q.path, q.version, q.eol>> = a \o e
  OBVIOUS
<1>4. f \in Text /\ b \in Text
  BY PiecesAre, RequestIs
<1>5. Format(q) = ((a \o e) \o f) \o e \o b
  BY <1>3 DEF Format, Pieces
<1> HIDE DEF a, e, f, b
<1> DEFINE W == Word \cup LineEnd
<1>6. a \in Seq(W) /\ e \in Seq(W) /\ f \in Seq(W) /\ b \in Seq(W)
  BY <1>2, <1>4 DEF Text
<1> HIDE DEF W
<1>7. /\ a \o e \in Seq(W) /\ e \o b \in Seq(W) /\ f \o (e \o b) \in Seq(W)
      /\ (a \o e) \o f \in Seq(W)
  BY <1>6
<1>8. <<>> \o e = e
  BY <1>6, ConcatAssoc
<1>9. ((a \o e) \o f) \o e \o b = ((a \o e) \o f) \o (e \o b)
  <2> DEFINE x == (a \o e) \o f
  <2>1. x \in Seq(W) /\ e \in Seq(W) /\ b \in Seq(W)
    BY <1>6, <1>7
  <2> HIDE DEF x
  <2>2. (x \o e) \o b = x \o (e \o b)
    BY <2>1, SMTT(30)
  <2> QED  BY <2>2 DEF x
<1>10. ((a \o e) \o f) \o (e \o b) = (a \o e) \o (f \o (e \o b))
  <2> DEFINE x == a \o e
             y == e \o b
  <2>1. x \in Seq(W) /\ f \in Seq(W) /\ y \in Seq(W)
    BY <1>6, <1>7
  <2> HIDE DEF x, y
  <2>2. (x \o f) \o y = x \o (f \o y)
    BY <2>1, SMTT(30)
  <2> QED  BY <2>2 DEF x, y
<1>11. Format(q) = (a \o e) \o (f \o (<<>> \o e \o b))
  BY <1>5, <1>8, <1>9, <1>10, Zenon
<1>12. (a \o e) \o (f \o (e \o b)) \in Seq(W)
  BY <1>7
<1>13. Format(q) \in Seq(W)
  BY <1>8, <1>11, <1>12, Zenon
<1>14. /\ <<>> \o e \o b \in Seq(W) /\ f \o (<<>> \o e \o b) \in Seq(W)
  BY <1>7, <1>8, Zenon
<1> QED  BY <1>2, <1>11, <1>13, <1>14 DEF a, e, f, b, W, Text

\* The lines of the head, in front of any text.
LEMMA LinesOfHead ==
    ASSUME NEW q \in Request, NEW t \in Text
    PROVE  Lines(FlattenSeq(Pieces(q)) \o t) = HeadLines(q) \o Lines(t)
<1> DEFINE ss == Pieces(q)
           n == Len(ss)
           W == Word \cup LineEnd
           first(k) == [i \in 1 .. k |-> HeadLine(q, i)]
<1>1. /\ ss \in Seq(Seq(W)) /\ n \in Nat /\ n = Len(q.headers)
      /\ HeadLines(q) = first(n)
  BY PiecesAre, RequestIs DEF Text, HeadLines
<1>2. \A i \in 1 .. n : /\ HeadLine(q, i) \in Seq(Word) /\ HeadLine(q, i) \in Text
                        /\ ss[i] = HeadLine(q, i) \o <<q.eol>>
  BY <1>1, HeadLineIs
<1> HIDE DEF ss, n
<1>3. PICK f \in [0 .. n -> Seq(W)] :
         /\ f[0] = <<>>
         /\ \A i \in 1 .. n : f[i] = f[i - 1] \o ss[i]
         /\ FlattenSeq(ss) = f[n]
  BY <1>1, FlattenIs DEF n
<1> HIDE DEF W
<1> DEFINE T == {k \in Nat : k <= n => \A u \in Text : Lines(f[k] \o u) = first(k) \o Lines(u)}
<1>4. 0 \in T
  <2>1. ASSUME NEW u \in Text PROVE Lines(f[0] \o u) = first(0) \o Lines(u)
    <3>1. f[0] \o u = u
      BY <1>3 DEF Text
    <3>2. first(0) = <<>> /\ Lines(u) \in Seq(Text)
      BY LinesAre
    <3>3. <<>> \o Lines(u) = Lines(u)
      BY <3>2, ConcatAssoc
    <3> QED  BY <3>1, <3>2, <3>3, Zenon
  <2> HIDE DEF first
  <2> QED  BY <2>1
<1>5. ASSUME NEW k \in T PROVE k + 1 \in T
  <2>1. k \in Nat /\ k + 1 \in Nat
    OBVIOUS
  <2>2. SUFFICES ASSUME k + 1 <= n, NEW u \in Text
                 PROVE  Lines(f[k + 1] \o u) = first(k + 1) \o Lines(u)
    BY <2>1
  <2>3. k + 1 \in 1 .. n /\ k \in 0 .. n /\ \A v \in Text : Lines(f[k] \o v) = first(k) \o Lines(v)
    <3> HIDE DEF first
    <3> QED  BY <1>1, <2>1, <2>2
  <2> DEFINE l == HeadLine(q, k + 1)
             p == l \o <<q.eol>>
  <2>4. l \in Seq(Word) /\ l \in Text /\ ss[k + 1] = p
    BY <1>2, <2>3
  <2>5. f[k + 1] = f[k] \o p
    <3>1. ASSUME NEW i \in 1 .. n, i = k + 1 PROVE f[i] = f[k] \o ss[i]
      <4>1. i - 1 = k
        BY <2>1, <3>1
      <4> QED  BY <1>3, <4>1
    <3>2. f[k + 1] = f[k] \o ss[k + 1]
      BY <2>3, <3>1
    <3> HIDE DEF l
    <3> QED  BY <2>4, <3>2
  <2>6. q.eol \in LineEnd
    BY RequestIs
  <2> HIDE DEF T, l
  <2>7. p \in Text /\ f[k] \in Text
    <3>1. <<q.eol>> \in Text
      BY <2>6 DEF Text
    <3>2. p \in Text
      BY <2>4, <3>1, Concat DEF Text
    <3>3. f[k] \in Text
      BY <1>3, <2>3 DEF Text, W
    <3> QED  BY <3>2, <3>3
  <2>8. Lines(p \o u) = <<l>> \o Lines(u) /\ p \o u \in Text
    <3>1. Lines(p \o u) = <<l>> \o Lines(u)
      BY <2>4, <2>6, LinesFirst
    <3> HIDE DEF p
    <3>2. p \o u \in Text
      BY <2>7, Concat DEF Text
    <3> QED  BY <3>1, <3>2
  <2> HIDE DEF p
  <2>9. f[k + 1] \o u = f[k] \o (p \o u)
    <3> DEFINE g == f[k]
    <3>1. g \in Text
      BY <2>7
    <3> HIDE DEF g
    <3>2. (g \o p) \o u = g \o (p \o u)
      BY <2>7, <3>1, SMTT(30) DEF Text
    <3> QED  BY <2>5, <3>2 DEF g
  <2>10. Lines(f[k + 1] \o u) = first(k) \o (<<l>> \o Lines(u))
    <3> HIDE DEF first
    <3> QED  BY <2>3, <2>8, <2>9
  <2>11. first(k + 1) = first(k) \o <<l>> /\ first(k) \in Seq(Text)
    <3>1. first(k) \in [1 .. k -> Text] /\ first(k + 1) \in [1 .. k + 1 -> Text]
      <4>1. \A i \in 1 .. k + 1 : i \in 1 .. n
        BY <1>1, <2>1, <2>3
      <4>2. \A i \in 1 .. k : i \in 1 .. n
        BY <1>1, <2>1, <2>3
      <4> QED  BY <1>2, <4>1, <4>2
    <3>2. \A i \in 1 .. k : first(k)[i] = first(k + 1)[i]
      BY <2>1
    <3>3. first(k + 1)[k + 1] = l
      BY <2>1 DEF l
    <3> HIDE DEF first
    <3>4. /\ first(k) \in Seq(Text) /\ Len(first(k)) = k
          /\ first(k + 1) \in Seq(Text) /\ Len(first(k + 1)) = k + 1
      BY <2>1, <3>1, FunctionSeq
    <3> DEFINE g == first(k)
               h == first(k + 1)
    <3>5. g \in Seq(Text) /\ h \in Seq(Text) /\ <<l>> \in Seq(Text)
      BY <2>4, <3>4
    <3>6. /\ Len(g) = k /\ Len(h) = k + 1 /\ h[k + 1] = l
          /\ \A i \in 1 .. k : g[i] = h[i]
      BY <3>2, <3>3, <3>4
    <3> HIDE DEF g, h
    <3>7. /\ g \o <<l>> \in Seq(Text) /\ Len(g \o <<l>>) = Len(g) + 1
          /\ \A i \in 1 .. Len(g) : (g \o <<l>>)[i] = g[i]
          /\ (g \o <<l>>)[Len(g) + 1] = l
      BY <3>5
    <3>8. \A i \in 1 .. k + 1 : h[i] = (g \o <<l>>)[i]
      BY <2>1, <3>6, <3>7
    <3>9. h = g \o <<l>>
      BY <2>1, <3>5, <3>6, <3>7, <3>8, SameSeq
    <3> QED  BY <3>4, <3>9 DEF g, h
  <2>12. first(k) \o (<<l>> \o Lines(u)) = (first(k) \o <<l>>) \o Lines(u)
    <3>1. <<l>> \in Seq(Text) /\ Lines(u) \in Seq(Text)
      BY <2>4, LinesAre
    <3> HIDE DEF first
    <3> QED  BY <2>11, <3>1, ConcatAssoc
  <2> HIDE DEF first
  <2> QED  BY <2>10, <2>11, <2>12
<1>6. \A k \in Nat : k \in T
  <2>1. T \in SUBSET Nat
    OBVIOUS
  <2> HIDE DEF T
  <2> QED  BY <2>1, <1>4, <1>5, SetOfNaturals
<1>7. Lines(f[n] \o t) = first(n) \o Lines(t)
  <2>1. n \in T /\ n <= n
    <3> HIDE DEF T
    <3> QED  BY <1>1, <1>6
  <2> HIDE DEF first
  <2> QED  BY <2>1
<1> QED  BY <1>1, <1>3, <1>7 DEF ss

\* The lines that parse() sees of a whole request.
LEMMA LinesOfFormat ==
    ASSUME NEW q \in Request
    PROVE  LET lines == Lines(Format(q))
               n == Len(q.headers)
               rest == Lines(q.body)
           IN /\ lines \in Seq(Text) /\ rest \in Seq(Text) /\ n \in Nat
              /\ Len(lines) = n + 2 + Len(rest)
              /\ lines[1] = <<q.method, q.path, q.version>>
              /\ \A i \in 1 .. n : lines[1 + i] = HeadLine(q, i)
              /\ lines[n + 2] = <<>>
              /\ \A j \in 1 .. Len(rest) : lines[n + 2 + j] = rest[j]
<1> DEFINE a == <<q.method, q.path, q.version>>
           e == q.eol
           f == FlattenSeq(Pieces(q))
           b == q.body
           n == Len(q.headers)
           t == <<>> \o <<e>> \o b
           H == HeadLines(q)
           R == Lines(b)
<1>1. /\ a \in Seq(Word) /\ e \in LineEnd /\ b \in Text /\ n \in Nat /\ t \in Text
      /\ f \o t \in Text /\ Format(q) = a \o <<e>> \o (f \o t)
  BY FormatIs, RequestIs
<1>2. Lines(Format(q)) = <<a>> \o Lines(f \o t)
  <2> HIDE DEF a, e, f, t
  <2> QED  BY <1>1, LinesFirst
<1>3. Lines(f \o t) = H \o Lines(t)
  <2> HIDE DEF t
  <2> QED  BY <1>1, LinesOfHead
<1>4. Lines(t) = <<<<>>>> \o R
  <2>1. <<>> \in Seq(Word)
    OBVIOUS
  <2> HIDE DEF e, b
  <2> QED  BY <1>1, <2>1, LinesFirst
<1>5. H \in Seq(Text) /\ Len(H) = n /\ \A i \in 1 .. n : H[i] = HeadLine(q, i)
  BY PiecesAre DEF HeadLines
<1>6. R \in Seq(Text)
  BY <1>1, LinesAre
<1>7. a \in Text /\ <<>> \in Text
  <2> HIDE DEF a
  <2> QED  BY <1>1 DEF Text
<1> HIDE DEF a, e, f, b, n, t, H, R
<1>8. /\ <<<<>>>> \o R \in Seq(Text) /\ Len(<<<<>>>> \o R) = 1 + Len(R)
      /\ (<<<<>>>> \o R)[1] = <<>>
      /\ \A j \in 1 .. Len(R) : (<<<<>>>> \o R)[1 + j] = R[j]
  BY <1>6, <1>7, ConsIs
<1> DEFINE B == <<<<>>>> \o R
<1> HIDE DEF B
<1>9. /\ B \in Seq(Text) /\ Len(B) = 1 + Len(R) /\ B[1] = <<>>
      /\ \A j \in 1 .. Len(R) : B[1 + j] = R[j]
  BY <1>8 DEF B
<1>10. H \in Seq(Text) /\ B \in Seq(Text)
  BY <1>5, <1>9
<1>11. /\ H \o B \in Seq(Text) /\ Len(H \o B) = Len(H) + Len(B)
       /\ \A i \in 1 .. Len(H) : (H \o B)[i] = H[i]
       /\ \A i \in 1 .. Len(B) : (H \o B)[Len(H) + i] = B[i]
  BY <1>10, Concat
<1> DEFINE C == H \o B
<1> HIDE DEF C
<1>12. /\ C \in Seq(Text) /\ Len(C) = n + 1 + Len(R) /\ Len(R) \in Nat
       /\ \A i \in 1 .. n : C[i] = HeadLine(q, i)
       /\ C[n + 1] = <<>>
       /\ \A j \in 1 .. Len(R) : C[n + 1 + j] = R[j]
  <2>1. Len(R) \in Nat /\ 1 \in 1 .. Len(B) /\ \A j \in 1 .. Len(R) : 1 + j \in 1 .. Len(B)
    BY <1>6, <1>9
  <2>2. /\ C \in Seq(Text) /\ Len(C) = n + (1 + Len(R))
        /\ \A i \in 1 .. n : C[i] = H[i]
        /\ \A i \in 1 .. Len(B) : C[n + i] = B[i]
    BY <1>5, <1>9, <1>11 DEF C
  <2>3. C[n + 1] = <<>>
    BY <1>9, <2>1, <2>2
  <2>4. ASSUME NEW j \in 1 .. Len(R) PROVE C[n + 1 + j] = R[j]
    <3>1. C[n + (1 + j)] = B[1 + j] /\ n + (1 + j) = n + 1 + j
      BY <1>1, <2>1, <2>2
    <3> QED  BY <1>9, <3>1
  <2>5. Len(C) = n + 1 + Len(R)
    BY <1>1, <2>1, <2>2
  <2> QED  BY <1>5, <2>1, <2>2, <2>3, <2>4, <2>5
<1>13. /\ <<a>> \o C \in Seq(Text) /\ Len(<<a>> \o C) = 1 + Len(C)
       /\ (<<a>> \o C)[1] = a
       /\ \A j \in 1 .. Len(C) : (<<a>> \o C)[1 + j] = C[j]
  <2>1. C \in Seq(Text) /\ a \in Text
    BY <1>7, <1>12
  <2> QED  BY <2>1, ConsIs
<1> DEFINE L == <<a>> \o C
<1>14. Lines(Format(q)) = L
  BY <1>2, <1>3, <1>4 DEF B, C
<1> HIDE DEF L
<1>15. /\ L \in Seq(Text) /\ Len(L) = 1 + Len(C) /\ L[1] = a
       /\ \A j \in 1 .. Len(C) : L[1 + j] = C[j]
  BY <1>13 DEF L
<1>16. \A i \in 1 .. n : L[1 + i] = HeadLine(q, i)
  <2>1. \A i \in 1 .. n : i \in 1 .. Len(C)
    BY <1>1, <1>12
  <2> QED  BY <1>12, <1>15, <2>1
<1>17. L[n + 2] = <<>>
  <2>1. n + 1 \in 1 .. Len(C) /\ 1 + (n + 1) = n + 2
    BY <1>1, <1>12
  <2>2. L[1 + (n + 1)] = C[n + 1]
    BY <1>15, <2>1
  <2> QED  BY <1>12, <2>1, <2>2
<1>18. ASSUME NEW j \in 1 .. Len(R) PROVE L[n + 2 + j] = R[j]
  <2>0. n \in Nat /\ j \in Nat /\ j >= 1 /\ j <= Len(R) /\ Len(R) \in Nat
        /\ Len(C) = n + 1 + Len(R)
    BY <1>1, <1>12
  <2>1. n + 1 + j \in 1 .. Len(C) /\ 1 + (n + 1 + j) = n + 2 + j
    BY <2>0
  <2>2. L[1 + (n + 1 + j)] = C[n + 1 + j]
    BY <1>15, <2>1
  <2> QED  BY <1>12, <2>1, <2>2
<1>19. Len(L) = n + 2 + Len(R)
  BY <1>1, <1>12, <1>15
<1> QED  BY <1>1, <1>6, <1>14, <1>15, <1>16, <1>17, <1>18, <1>19 DEF a, n, R, b

-----------------------------------------------------------------------------
(* Request::parse of a whole request.                                      *)

\* parse() finds the three words, the lines of the headers and those of the body
\* where they were written.
LEMMA ParseIs ==
    ASSUME NEW q \in Request
    PROVE  Parse(Format(q)) =
              [method |-> MethodFrom(q.method), path |-> q.path, version |-> q.version,
               headers |-> FoldLeft(AddHeader, NoHeaders, HeadLines(q)),
               body |-> IF Lines(q.body) = <<>> THEN <<>> ELSE Join(Lines(q.body))]
<1> DEFINE lines == Lines(Format(q))
           n == Len(q.headers)
           rest == Lines(q.body)
           blank == {i \in 2 .. Len(lines) : lines[i] = <<>>}
           head == IF blank = {} THEN Len(lines)
                   ELSE (CHOOSE i \in blank : \A j \in blank : i <= j) - 1
           body == SubSeq(lines, head + 2, Len(lines))
           a == <<q.method, q.path, q.version>>
<1>1. /\ lines \in Seq(Text) /\ rest \in Seq(Text) /\ n \in Nat
      /\ Len(lines) = n + 2 + Len(rest)
      /\ lines[1] = a
      /\ \A i \in 1 .. n : lines[1 + i] = HeadLine(q, i)
      /\ lines[n + 2] = <<>>
      /\ \A j \in 1 .. Len(rest) : lines[n + 2 + j] = rest[j]
  BY LinesOfFormat
<1>2. \A i \in 1 .. n : HeadLine(q, i) # <<>>
  <2>1. ASSUME NEW i \in 1 .. n PROVE HeadLine(q, i) # <<>>
    <3>1. Len(HeadLine(q, i)) = 2 + Len(q.headers[i][2]) /\ q.headers[i][2] \in Seq(Word)
      BY HeadLineIs, RequestIs
    <3>2. Len(q.headers[i][2]) \in Nat
      BY <3>1
    <3>3. Len(HeadLine(q, i)) # 0
      BY <3>1, <3>2
    <3> QED  BY <3>3
  <2> QED  BY <2>1
<1>3. Len(a) = 3 /\ a[1] = q.method /\ a[2] = q.path /\ a[3] = q.version
  OBVIOUS
<1>4. HeadLines(q) \in Seq(Text) /\ Len(HeadLines(q)) = n
      /\ \A i \in 1 .. n : HeadLines(q)[i] = HeadLine(q, i)
  BY PiecesAre DEF HeadLines
<1>5. Parse(Format(q)) =
         IF lines = <<>> \/ Len(lines[1]) # 3 THEN Invalid
         ELSE [method |-> MethodFrom(lines[1][1]), path |-> lines[1][2],
               version |-> lines[1][3],
               headers |-> FoldLeft(AddHeader, NoHeaders, SubSeq(lines, 2, head)),
               body |-> IF body = <<>> THEN <<>> ELSE Join(body)]
  BY Zenon DEF Parse
<1> HIDE DEF lines, n, rest, a
<1>6. Len(rest) \in Nat /\ Len(lines) \in Nat
  BY <1>1
<1>7. lines # <<>>
  <2>1. Len(lines) # 0
    BY <1>1, <1>6
  <2> QED  BY <2>1
<1>8. head = n + 1
  <2>1. n + 2 \in blank
    BY <1>1, <1>6
  <2>2. ASSUME NEW i \in blank PROVE n + 2 <= i
    <3>1. i \in 2 .. Len(lines) /\ lines[i] = <<>>
      OBVIOUS
    <3>2. SUFFICES ASSUME i < n + 2 PROVE FALSE
      BY <1>1, <1>6, <3>1
    <3>3. i - 1 \in 1 .. n /\ 1 + (i - 1) = i
      BY <1>1, <1>6, <3>1, <3>2
    <3>4. lines[1 + (i - 1)] = HeadLine(q, i - 1) /\ HeadLine(q, i - 1) # <<>>
      BY <1>1, <1>2, <3>3
    <3> QED  BY <3>1, <3>3, <3>4
  <2>3. blank \in SUBSET Nat
    BY <1>6
  <2> HIDE DEF blank
  <2> DEFINE m == CHOOSE i \in blank : \A j \in blank : i <= j
  <2>4. m \in blank /\ \A j \in blank : m <= j
    BY <2>1, <2>2
  <2> HIDE DEF m
  <2>5. m = n + 2
    BY <1>1, <2>1, <2>2, <2>3, <2>4
  <2>6. head = m - 1
    BY <2>1 DEF m
  <2> QED  BY <1>1, <2>5, <2>6
<1> HIDE DEF head
<1>9. SubSeq(lines, 2, head) = HeadLines(q)
  <2> DEFINE p == SubSeq(lines, 2, n + 1)
  <2>1. n + 1 \in Int /\ n + 1 <= Len(lines)
    BY <1>1, <1>6
  <2>2. /\ p \in Seq(Text)
        /\ Len(p) = IF 2 <= n + 1 THEN n + 1 - 2 + 1 ELSE 0
        /\ \A j \in 1 .. n + 1 - 2 + 1 : p[j] = lines[2 + j - 1]
    BY <1>1, <2>1, Part
  <2> HIDE DEF p
  <2>3. Len(p) = n /\ n + 1 - 2 + 1 = n
    BY <1>1, <2>2
  <2>4. ASSUME NEW j \in 1 .. n PROVE p[j] = HeadLines(q)[j]
    <3>1. p[j] = lines[2 + j - 1] /\ 2 + j - 1 = 1 + j
      BY <1>1, <2>2, <2>3
    <3> QED  BY <1>1, <1>4, <3>1
  <2>5. p \in Seq(Text) /\ HeadLines(q) \in Seq(Text) /\ Len(p) = Len(HeadLines(q))
        /\ \A j \in 1 .. Len(p) : p[j] = HeadLines(q)[j]
    BY <1>4, <2>2, <2>3, <2>4
  <2>6. p = HeadLines(q)
    BY <2>5, SameSeq
  <2> QED  BY <1>8, <2>6 DEF p
<1>10. body = rest
  <2> DEFINE p == SubSeq(lines, n + 3, Len(lines))
  <2>1. n + 3 \in Nat \ {0} /\ Len(lines) \in Int /\ Len(lines) <= Len(lines)
    BY <1>1, <1>6
  <2>2. /\ p \in Seq(Text)
        /\ Len(p) = IF n + 3 <= Len(lines) THEN Len(lines) - (n + 3) + 1 ELSE 0
        /\ \A j \in 1 .. Len(lines) - (n + 3) + 1 : p[j] = lines[n + 3 + j - 1]
    BY <1>1, <2>1, Part
  <2> HIDE DEF p
  <2>3. Len(p) = Len(rest) /\ Len(lines) - (n + 3) + 1 = Len(rest)
    BY <1>1, <1>6, <2>2
  <2>4. ASSUME NEW j \in 1 .. Len(rest) PROVE p[j] = rest[j]
    <3>1. p[j] = lines[n + 3 + j - 1] /\ n + 3 + j - 1 = n + 2 + j
      BY <1>1, <1>6, <2>2, <2>3
    <3> QED  BY <1>1, <3>1
  <2>5. p \in Seq(Text) /\ rest \in Seq(Text) /\ Len(p) = Len(rest)
        /\ \A j \in 1 .. Len(p) : p[j] = rest[j]
    BY <1>1, <2>2, <2>3, <2>4
  <2>6. p = rest
    BY <2>5, SameSeq
  <2>7. head + 2 = n + 3
    BY <1>1, <1>8
  <2> QED  BY <2>6, <2>7 DEF p
<1>11. /\ Len(lines[1]) = 3 /\ lines[1][1] = q.method /\ lines[1][2] = q.path
       /\ lines[1][3] = q.version
  BY <1>1, <1>3
<1> HIDE DEF body
<1> QED  BY <1>5, <1>7, <1>9, <1>10, <1>11 DEF rest

\* The name and the value of a header.
Name(q, i) == Lower(q.headers[i][1])
Value(q, i) == q.headers[i][2]

\* The line of a header inserts its value under its name.
LEMMA AddHeaderIs ==
    ASSUME NEW q \in Request, NEW i \in 1 .. Len(q.headers), NEW h
    PROVE  AddHeader(h, HeadLine(q, i)) = Insert(h, Name(q, i), Value(q, i))
<1> DEFINE line == HeadLine(q, i)
           colons == {j \in DOMAIN line : line[j] = ":"}
           c == CHOOSE j \in colons : \A k \in colons : j <= k
<1>1. /\ line \in Seq(Word) /\ Len(line) = 2 + Len(Value(q, i)) /\ Value(q, i) \in Seq(Word)
      /\ line[1] = q.headers[i][1] /\ line[2] = ":"
      /\ SubSeq(line, 3, Len(line)) = Value(q, i)
  BY HeadLineIs, RequestIs DEF Value
<1>2. q.headers[i][1] # ":"
  BY RequestIs
<1>3. AddHeader(h, line) = IF colons = {} THEN h
                           ELSE Insert(h, Lower(SubSeq(line, 1, c - 1)[1]),
                                       SubSeq(line, c + 1, Len(line)))
  BY Zenon DEF AddHeader
<1> HIDE DEF line
<1>4. Len(Value(q, i)) \in Nat /\ DOMAIN line = 1 .. Len(line)
  BY <1>1
<1>5. 2 \in colons /\ colons \in SUBSET Nat
  BY <1>1, <1>4
<1>6. \A k \in colons : 2 <= k
  BY <1>1, <1>2, <1>4
<1> HIDE DEF colons
<1>7. c \in colons /\ \A k \in colons : c <= k
  BY <1>5, <1>6
<1> HIDE DEF c
<1>8. c = 2
  BY <1>5, <1>6, <1>7
<1>9. SubSeq(line, 1, 1)[1] = line[1]
  <2>1. 1 \in Int /\ 1 <= Len(line) /\ 1 \in 1 .. 1 - 1 + 1 /\ 1 + 1 - 1 = 1
    BY <1>1, <1>4
  <2>2. \A j \in 1 .. 1 - 1 + 1 : SubSeq(line, 1, 1)[j] = line[1 + j - 1]
    BY <1>1, <2>1, Part
  <2> QED  BY <2>1, <2>2
<1>10. c - 1 = 1 /\ c + 1 = 3 /\ colons # {}
  BY <1>5, <1>8
<1>11. AddHeader(h, line) = Insert(h, Lower(SubSeq(line, 1, 1)[1]), SubSeq(line, 3, Len(line)))
  BY <1>3, <1>10
<1> QED  BY <1>1, <1>9, <1>11 DEF Name, line

\* The headers parse() collects: of two with the same name the last one counts.
LEMMA HeadersMeant ==
    ASSUME NEW q \in Request
    PROVE  FoldLeft(AddHeader, NoHeaders, HeadLines(q)) = Meaning(q).headers
<1> DEFINE n == Len(q.headers)
           name(i) == Name(q, i)
           last(m) == CHOOSE i \in 1 .. n : name(i) = m /\ \A j \in 1 .. n : name(j) = m => j <= i
           M == [m \in {name(i) : i \in 1 .. n} |-> Value(q, last(m))]
<1>1. n \in Nat /\ DOMAIN q.headers = 1 .. n
  BY RequestIs
<1>2. Meaning(q).headers = M
  <2> DEFINE D == DOMAIN q.headers
             latest(m) == CHOOSE i \in D : name(i) = m /\ \A j \in D : name(j) = m => j <= i
  <2>1. Meaning(q).headers = [m \in {name(i) : i \in D} |-> Value(q, latest(m))]
    BY DEF Meaning, Name, Value
  <2> QED  BY <1>1, <2>1
<1>3. /\ HeadLines(q) \in Seq(Text) /\ Len(HeadLines(q)) = n
      /\ \A i \in 1 .. n : HeadLines(q)[i] = HeadLine(q, i)
  BY PiecesAre DEF HeadLines
<1>4. PICK h : /\ h[0] = NoHeaders
               /\ \A i \in 1 .. n : h[i] = AddHeader(h[i - 1], HeadLines(q)[i])
               /\ FoldLeft(AddHeader, NoHeaders, HeadLines(q)) = h[n]
  BY <1>3, HeadersAre
<1>5. \A i \in 1 .. n : h[i] = Insert(h[i - 1], name(i), Value(q, i))
  BY <1>3, <1>4, AddHeaderIs
<1> HIDE DEF n, name, last
<1> DEFINE after(k) ==
             /\ DOMAIN h[k] = {name(i) : i \in 1 .. k}
             /\ h[k] = [m \in DOMAIN h[k] |-> h[k][m]]
             /\ \A i \in 1 .. k : (\A j \in 1 .. k : name(j) = name(i) => j <= i)
                                     => h[k][name(i)] = Value(q, i)
           T == {k \in Nat : k <= n => after(k)}
<1>6. 0 \in T
  <2>1. h[0] = NoHeaders /\ DOMAIN NoHeaders = {} /\ 1 .. 0 = {}
    BY <1>4 DEF NoHeaders
  <2>2. NoHeaders = [m \in DOMAIN NoHeaders |-> NoHeaders[m]]
    BY DEF NoHeaders
  <2>3. after(0)
    BY <2>1, <2>2
  <2> HIDE DEF after
  <2> QED  BY <2>3
<1>7. ASSUME NEW k \in T PROVE k + 1 \in T
  <2>1. k \in Nat /\ k + 1 \in Nat
    OBVIOUS
  <2>2. SUFFICES ASSUME k + 1 <= n PROVE after(k + 1)
    <3> HIDE DEF after
    <3> QED  BY <2>1
  <2>3. k + 1 \in 1 .. n /\ after(k)
    <3> HIDE DEF after
    <3> QED  BY <1>1, <2>1, <2>2
  <2> DEFINE r == name(k + 1)
             v == Value(q, k + 1)
  <2>4. h[k + 1] = Insert(h[k], r, v)
    <3>1. ASSUME NEW i \in 1 .. n, i = k + 1 PROVE h[i] = Insert(h[k], name(i), Value(q, i))
      <4>1. i - 1 = k
        BY <2>1, <3>1
      <4> QED  BY <1>5, <4>1
    <3> QED  BY <2>3, <3>1
  <2> DEFINE g == h[k]
             f == h[k + 1]
  <2>5. /\ DOMAIN f = DOMAIN g \cup {r}
        /\ f[r] = v
        /\ \A m \in DOMAIN g : m # r => f[m] = g[m]
        /\ f = [m \in DOMAIN f |-> f[m]]
    <3> HIDE DEF g, r, v
    <3>1. f = Insert(g, r, v)
      BY <2>4 DEF g, r, v
    <3> HIDE DEF f, T
    <3> QED  BY <3>1 DEF Insert
  <2>6. /\ DOMAIN g = {name(i) : i \in 1 .. k}
        /\ \A i \in 1 .. k : (\A j \in 1 .. k : name(j) = name(i) => j <= i)
                                => g[name(i)] = Value(q, i)
    BY <2>3
  <2>7. 1 .. k + 1 = (1 .. k) \cup {k + 1} /\ k + 1 \notin 1 .. k
    BY <2>1
  <2> HIDE DEF g, f, r, v
  <2>8. DOMAIN f = {name(i) : i \in 1 .. k + 1}
    BY <2>5, <2>6, <2>7 DEF r
  <2>9. ASSUME NEW i \in 1 .. k + 1, \A j \in 1 .. k + 1 : name(j) = name(i) => j <= i
        PROVE  f[name(i)] = Value(q, i)
    <3>1. CASE i = k + 1
      BY <2>5, <3>1 DEF r, v
    <3>2. CASE i # k + 1
      <4>1. i \in 1 .. k /\ ~(k + 1 <= i)
        BY <2>1, <3>2
      <4>2. name(i) # r
        BY <2>7, <2>9, <4>1 DEF r
      <4>3. \A j \in 1 .. k : name(j) = name(i) => j <= i
        BY <2>7, <2>9
      <4>4. g[name(i)] = Value(q, i) /\ name(i) \in DOMAIN g
        BY <2>6, <4>1, <4>3
      <4> QED  BY <2>5, <4>2, <4>4
    <3> QED  BY <3>1, <3>2
  <2> HIDE DEF T
  <2> QED  BY <2>5, <2>8, <2>9 DEF f
<1>8. after(n)
  <2>1. T \in SUBSET Nat
    OBVIOUS
  <2>2. n \in T
    <3> HIDE DEF T
    <3> QED  BY <1>1, <2>1, <1>6, <1>7, SetOfNaturals
  <2> HIDE DEF after
  <2> QED  BY <1>1, <2>2
<1> DEFINE f == h[n]
<1>9. /\ DOMAIN f = {name(i) : i \in 1 .. n} /\ f = [m \in DOMAIN f |-> f[m]]
      /\ \A i \in 1 .. n : (\A j \in 1 .. n : name(j) = name(i) => j <= i)
                              => f[name(i)] = Value(q, i)
  BY <1>8
<1> HIDE DEF f
<1>10. ASSUME NEW m \in {name(i) : i \in 1 .. n} PROVE f[m] = Value(q, last(m))
  <2> DEFINE S == {i \in 1 .. n : name(i) = m}
  <2>1. S \in SUBSET (1 .. n) /\ S # {}
    OBVIOUS
  <2>2. \E i \in S : \A j \in S : j <= i
    BY <1>1, <2>1, Largest
  <2>3. \E i \in 1 .. n : name(i) = m /\ \A j \in 1 .. n : name(j) = m => j <= i
    BY <2>2
  <2>4. /\ last(m) \in 1 .. n /\ name(last(m)) = m
        /\ \A j \in 1 .. n : name(j) = m => j <= last(m)
    BY <2>3 DEF last
  <2> QED  BY <1>9, <2>4
<1>11. f = M
  BY <1>9, <1>10
<1> QED  BY <1>2, <1>4, <1>11 DEF f

\* Request::parse of a request as a client writes it down, with either kind of
\* line end: the method, the path, the version and the headers are the ones meant,
\* of two headers of the same name the last, and the body is the one sent if it
\* has no CRLF and does not end in a line end.
THEOREM ParseFaithful ==
    ASSUME NEW q \in Request
    PROVE  /\ [Parse(Format(q)) EXCEPT !.body = <<>>] = [Meaning(q) EXCEPT !.body = <<>>]
           /\ Plain(q.body) => Parse(Format(q)).body = q.body
<1> DEFINE body == IF Lines(q.body) = <<>> THEN <<>> ELSE Join(Lines(q.body))
           h == FoldLeft(AddHeader, NoHeaders, HeadLines(q))
           m == MethodFrom(q.method)
<1>1. Parse(Format(q)) = [method |-> m, path |-> q.path, version |-> q.version,
                          headers |-> h, body |-> body]
  BY ParseIs
<1>2. Meaning(q).headers = h
  BY HeadersMeant
<1>3. Meaning(q) = [method |-> m, path |-> q.path, version |-> q.version,
                    headers |-> Meaning(q).headers, body |-> q.body]
  BY DEF Meaning
<1>4. Plain(q.body) => body = q.body
  <2>1. q.body \in Text
    BY RequestIs
  <2>2. CASE q.body = <<>>
    <3>1. <<>> \in Seq(Word)
      OBVIOUS
    <3>2. Lines(<<>>) = <<>>
      BY <3>1, LinesWords
    <3> QED  BY <2>2, <3>2
  <2>3. CASE q.body # <<>>
    BY <2>1, <2>3, BodyKept
  <2> QED  BY <2>2, <2>3
<1> DEFINE p == Parse(Format(q))
           w == Meaning(q)
           wh == w.headers
<1> HIDE DEF body, h, m, p, w, wh
<1>5. p = [method |-> m, path |-> q.path, version |-> q.version, headers |-> h, body |-> body]
  BY <1>1 DEF p
<1>6. w = [method |-> m, path |-> q.path, version |-> q.version, headers |-> h, body |-> q.body]
  BY <1>2, <1>3 DEF w, wh
<1>7. [p EXCEPT !.body = <<>>] = [w EXCEPT !.body = <<>>] /\ p.body = body
  BY <1>5, <1>6
<1> QED  BY <1>4, <1>7 DEF p, w

-----------------------------------------------------------------------------
(* The server: what it reads and what it answers.                          *)

\* What a read returns is among the texts that can be found.
LEMMA DataFound ==
    ASSUME NEW q \in Requests, NEW n \in Nat, n <= Len(Format(q))
    PROVE  SubSeq(Format(q), 1, IF n < BUFFER_SIZE THEN n ELSE BUFFER_SIZE) \in Found
<1> DEFINE m == IF n < BUFFER_SIZE THEN n ELSE BUFFER_SIZE
           t == SubSeq(Format(q), 1, m)
           K == {k \in 0 .. BUFFER_SIZE : k <= Len(Format(q))}
<1>1. q \in Request /\ BUFFER_SIZE \in Nat
  BY HttpAssumption
<1>2. Len(Format(q)) \in Nat
  <2>1. Format(q) \in Text
    BY <1>1, FormatIs
  <2> QED  BY <2>1 DEF Text
<1>3. m \in K
  BY <1>1, <1>2
<1> HIDE DEF m
<1>4. t \in {SubSeq(Format(q), 1, k) : k \in K}
  BY <1>3
<1> HIDE DEF t
<1>5. t \in Found
  BY <1>4 DEF Found
<1> QED  BY <1>5 DEF t, m

\* All of them are texts.
LEMMA FoundText ==
    ASSUME NEW t \in Found
    PROVE  t \in Text
<1>1. PICK q \in Requests :
         \E n \in {k \in 0 .. BUFFER_SIZE : k <= Len(Format(q))} : t = SubSeq(Format(q), 1, n)
  BY DEF Found
<1>5. PICK n \in {k \in 0 .. BUFFER_SIZE : k <= Len(Format(q))} : t = SubSeq(Format(q), 1, n)
  BY <1>1
<1>2. Format(q) \in Text
  BY HttpAssumption, FormatIs
<1>3. 1 \in Nat \ {0} /\ n \in Int /\ n <= Len(Format(q))
  BY HttpAssumption
<1>4. SubSeq(Format(q), 1, n) \in Text
  BY <1>2, <1>3, Part DEF Text
<1> QED  BY <1>4, <1>5

\* read_request is parse() of what was read.
LEMMA ReadRequestIs ==
    ASSUME NEW t \in Found
    PROVE  ReadRequest(t) = Parse(t)
<1> DEFINE r == [text |-> t, request |-> Parse(t)]
           c == CHOOSE x \in Readings : x.text = t
<1>1. r \in Readings /\ r.text = t
  BY DEF Readings
<1>2. c \in Readings /\ c.text = t
  <2> HIDE DEF r
  <2> QED  BY <1>1
<1>3. PICK u \in Found : c = [text |-> u, request |-> Parse(u)]
  BY <1>2 DEF Readings
<1> HIDE DEF c
<1>4. u = t /\ c.request = Parse(u)
  BY <1>2, <1>3
<1> QED  BY <1>4 DEF ReadRequest, c

\* What the connection answers to what was read.
LEMMA EchoAnswerIs ==
    ASSUME NEW t \in Found
    PROVE  EchoAnswer(t) = IF Parse(t) = Invalid THEN <<>> ELSE ToBytes(EchoHandler(Parse(t)))
<1> DEFINE ans(p) == IF p = Invalid THEN <<>> ELSE ToBytes(EchoHandler(p))
           r == [text |-> t, request |-> Parse(t)]
           e == [text |-> r.text, answer |-> ans(r.request)]
           c == CHOOSE x \in Echoes : x.text = t
<1> HIDE DEF ans
<1>1. r \in Readings /\ r.text = t
  BY DEF Readings
<1>2. Echoes = {[text |-> x.text, answer |-> ans(x.request)] : x \in Readings}
  BY DEF Echoes, ans
<1> HIDE DEF r
<1>3. e \in Echoes /\ e.text = t
  BY <1>1, <1>2
<1>4. c \in Echoes /\ c.text = t
  <2> HIDE DEF e
  <2> QED  BY <1>3
<1>5. PICK x \in Readings : c = [text |-> x.text, answer |-> ans(x.request)]
  BY <1>2, <1>4
<1>6. PICK u \in Found : x = [text |-> u, request |-> Parse(u)]
  BY DEF Readings
<1> HIDE DEF c
<1>7. u = t /\ x.request = Parse(u) /\ c.answer = ans(x.request)
  BY <1>4, <1>5, <1>6
<1>8. EchoAnswer(t) = ans(Parse(t))
  BY <1>7 DEF EchoAnswer, c
<1> QED  BY <1>8 DEF ans

\* Whatever was read, the answer is a sequence of lines.
LEMMA AnswerIsSeq ==
    ASSUME NEW t \in Found
    PROVE  IsSeq(EchoAnswer(t)) /\ IsSeq(StaticAnswer)
<1>1. IsSeq(EchoAnswer(t))
  <2>1. CASE Parse(t) = Invalid
    <3>1. EchoAnswer(t) = <<>>
      BY <2>1, EchoAnswerIs
    <3>2. <<>> \in Seq({})
      OBVIOUS
    <3> QED  BY <3>1, <3>2 DEF IsSeq
  <2>2. CASE Parse(t) # Invalid
    <3>1. EchoAnswer(t) = ToBytes(EchoHandler(Parse(t)))
      BY <2>2, EchoAnswerIs
    <3>2. IsFiniteSet(DOMAIN Parse(t).headers)
      BY <2>2, FoundText, ParseFinite
    <3>3. IsSeq(ToBytes(EchoHandler(Parse(t))))
      BY <3>2, EchoIsSeq
    <3> QED  BY <3>1, <3>3
  <2> QED  BY <2>1, <2>2
<1>2. IsSeq(StaticAnswer)
  <2>1. ASSUME NEW a, NEW b, NEW c, NEW d PROVE <<a, b, c, d>> \in Seq({a, b, c, d})
    OBVIOUS
  <2> QED  BY <2>1, Zenon DEF StaticAnswer, IsSeq
<1> QED  BY <1>1, <1>2

-----------------------------------------------------------------------------
(* The server: every step keeps what was written and what is left together.  *)

\* A sequence begins a longer one.
LEMMA PrefixOf ==
    ASSUME NEW S, NEW s \in Seq(S), NEW t \in Seq(S)
    PROVE  IsPrefix(s, s \o t)
<1> DEFINE u == s \o t
           n == Len(s)
<1>1. u \in Seq(S) /\ Len(u) = n + Len(t) /\ \A i \in 1 .. n : u[i] = s[i]
  BY Concat
<1>2. n \in Nat /\ Len(t) \in Nat
  OBVIOUS
<1> HIDE DEF u
<1>3. n <= Len(u) /\ 1 \in Nat \ {0} /\ n \in Int /\ n <= Len(s) /\ n - 1 + 1 = n
  BY <1>1, <1>2
<1>4. /\ SubSeq(s, 1, n) \in Seq(S) /\ Len(SubSeq(s, 1, n)) = IF 1 <= n THEN n - 1 + 1 ELSE 0
      /\ \A i \in 1 .. n - 1 + 1 : SubSeq(s, 1, n)[i] = s[1 + i - 1]
  BY <1>3, Part
<1>5. /\ SubSeq(u, 1, n) \in Seq(S) /\ Len(SubSeq(u, 1, n)) = IF 1 <= n THEN n - 1 + 1 ELSE 0
      /\ \A i \in 1 .. n - 1 + 1 : SubSeq(u, 1, n)[i] = u[1 + i - 1]
  BY <1>1, <1>3, Part
<1> DEFINE a == SubSeq(s, 1, n)
           b == SubSeq(u, 1, n)
<1> HIDE DEF a, b, n
<1>6. Len(a) = n /\ Len(b) = n
  BY <1>2, <1>3, <1>4, <1>5 DEF a, b
<1>7. ASSUME NEW i \in 1 .. n PROVE a[i] = b[i]
  <2>1. i \in 1 .. n - 1 + 1 /\ 1 + i - 1 = i
    BY <1>3
  <2> QED  BY <1>1, <1>4, <1>5, <2>1 DEF a, b
<1>8. a \in Seq(S) /\ b \in Seq(S)
  BY <1>4, <1>5 DEF a, b
<1>9. a = b
  BY <1>6, <1>7, <1>8, SameSeq
<1> QED  BY <1>3, <1>9 DEF IsPrefix, a, b, u, n

\* A sequence cut in two.
LEMMA Cut ==
    ASSUME NEW S, NEW s \in Seq(S), NEW n \in 0 .. Len(s)
    PROVE  /\ SubSeq(s, 1, n) \in Seq(S) /\ SubSeq(s, n + 1, Len(s)) \in Seq(S)
           /\ s = SubSeq(s, 1, n) \o SubSeq(s, n + 1, Len(s))
           /\ n = Len(s) => SubSeq(s, n + 1, Len(s)) = <<>>
<1> DEFINE a == SubSeq(s, 1, n)
           b == SubSeq(s, n + 1, Len(s))
           m == Len(s)
<1>1. m \in Nat /\ n \in Nat /\ n <= m
  OBVIOUS
<1>2. a \in Seq(S) /\ Len(a) = n /\ \A i \in 1 .. n : a[i] = s[i]
  <2>1. 1 \in Nat \ {0} /\ n \in Int /\ n <= Len(s) /\ n - 1 + 1 = n
    BY <1>1
  <2>2. /\ a \in Seq(S) /\ Len(a) = IF 1 <= n THEN n - 1 + 1 ELSE 0
        /\ \A i \in 1 .. n - 1 + 1 : a[i] = s[1 + i - 1]
    BY <2>1, Part
  <2>3. \A i \in 1 .. n : 1 + i - 1 = i
    BY <1>1
  <2> HIDE DEF a, b, m
  <2> QED  BY <1>1, <2>1, <2>2, <2>3
<1>3. b \in Seq(S) /\ Len(b) = m - n /\ \A i \in 1 .. m - n : b[i] = s[n + i]
  <2>1. n + 1 \in Nat \ {0} /\ m \in Int /\ m <= Len(s) /\ m - (n + 1) + 1 = m - n
    BY <1>1
  <2>2. /\ b \in Seq(S) /\ Len(b) = IF n + 1 <= m THEN m - (n + 1) + 1 ELSE 0
        /\ \A i \in 1 .. m - (n + 1) + 1 : b[i] = s[(n + 1) + i - 1]
    BY <2>1, Part
  <2>3. \A i \in 1 .. m - n : (n + 1) + i - 1 = n + i
    BY <1>1
  <2> HIDE DEF a, b, m
  <2> QED  BY <1>1, <2>1, <2>2, <2>3
<1> HIDE DEF a, b, m
<1> DEFINE u == a \o b
<1>4. /\ u \in Seq(S) /\ Len(u) = Len(a) + Len(b)
      /\ \A i \in 1 .. Len(a) : u[i] = a[i]
      /\ \A i \in 1 .. Len(b) : u[Len(a) + i] = b[i]
  <2>1. a \in Seq(S) /\ b \in Seq(S)
    BY <1>2, <1>3
  <2> QED  BY <2>1, Concat
<1> HIDE DEF u
<1>5. Len(u) = m
  BY <1>1, <1>2, <1>3, <1>4
<1>6. ASSUME NEW i \in 1 .. m PROVE u[i] = s[i]
  <2>1. CASE i <= n
    BY <1>1, <1>2, <1>4, <2>1
  <2>2. CASE ~(i <= n)
    <3>1. i - n \in 1 .. m - n /\ n + (i - n) = i
      BY <1>1, <2>2
    <3> QED  BY <1>2, <1>3, <1>4, <3>1
  <2> QED  BY <2>1, <2>2
<1>7. s = u
  BY <1>4, <1>5, <1>6, SameSeq DEF m
<1>8. n = m => b = <<>>
  BY <1>1, <1>3
<1> QED  BY <1>2, <1>3, <1>7, <1>8 DEF a, b, u, m

\* What has arrived of a request is no more than the request.
Delivered ==
    /\ request \in [Client -> Requests]
    /\ arrived \in [Client -> Nat]
    /\ \A c \in Client : arrived[c] <= Len(Format(request[c]))
    /\ backlog \in Seq(Client)

\* The answer is what was written, followed by what is left.
Answering ==
    /\ pc \in {"read", "write"} => cur \in Client /\ result = "none"
    /\ pc = "read" => got = <<>> /\ answer = <<>>
    /\ pc = "write" => /\ \E S : got \in Seq(S) /\ left \in Seq(S) /\ answer = got \o left
                       /\ left # <<>>
    /\ AnswerExact

\* No step loses or invents a part of a request.
LEMMA DeliveredNext ==
    ASSUME Delivered, Answering, [Next]_vars
    PROVE  Delivered'
<1> USE DEF Delivered
<1>1. ASSUME NEW c \in Client PROVE Len(Format(request[c])) \in Nat
  <2>1. request[c] \in Request
    BY HttpAssumption
  <2>2. Format(request[c]) \in Text
    BY <2>1, FormatIs
  <2> QED  BY <2>2 DEF Text
<1>2. ASSUME NEW outcome, Done(outcome), UNCHANGED backlog, cur \in Client PROVE Delivered'
  BY <1>1, <1>2 DEF Done
<1>3. ASSUME NEW rest, Continue(rest), UNCHANGED backlog PROVE Delivered'
  BY <1>3 DEF Continue, clientVars
<1>4. CASE Accept
  BY <1>4 DEF Accept, clientVars
<1>5. CASE AcceptErr
  BY <1>5 DEF AcceptErr, clientVars
<1>6. CASE Read
  BY <1>2, <1>3, <1>6 DEF Read, Answering
<1>7. CASE ReadErr
  BY <1>2, <1>7 DEF ReadErr, Answering
<1>8. CASE WriteInterrupted
  BY <1>2, <1>3, <1>8 DEF WriteInterrupted, Answering
<1>9. CASE WriteErr
  BY <1>2, <1>9 DEF WriteErr, Answering
<1>10. ASSUME NEW n \in 0 .. Len(left), Wrote(n) PROVE Delivered'
  BY <1>2, <1>3, <1>10 DEF Wrote, Answering
<1>11. ASSUME NEW c \in Client, Connect(c) PROVE Delivered'
  BY <1>11 DEF Connect, clientVars
<1>12. ASSUME NEW c \in Client, Close(c) PROVE Delivered'
  BY <1>12 DEF Close
<1>13. ASSUME NEW c \in Client, NEW n \in 1 .. Len(Format(request[c])) - arrived[c], Arrive(c, n)
       PROVE  Delivered'
  <2>1. Len(Format(request[c])) \in Nat /\ arrived[c] \in Nat
    BY <1>1
  <2>2. n \in Nat /\ arrived[c] + n <= Len(Format(request[c]))
    BY <2>1
  <2> QED  BY <1>13, <2>1, <2>2 DEF Arrive
<1>14. CASE UNCHANGED vars
  BY <1>14 DEF vars, clientVars
<1> QED
  BY <1>4, <1>5, <1>6, <1>7, <1>8, <1>9, <1>10, <1>11, <1>12, <1>13, <1>14
  DEF Next, WriteReturns

\* A write of n lines moves them from what is left to what was written.
LEMMA WroteKeeps ==
    ASSUME pc = "write", Answering, NEW n \in 0 .. Len(left), Wrote(n)
    PROVE  Answering'
<1>1. PICK S : got \in Seq(S) /\ left \in Seq(S) /\ answer = got \o left
  BY DEF Answering
<1> DEFINE a == SubSeq(left, 1, n)
           b == SubSeq(left, n + 1, Len(left))
<1>2. a \in Seq(S) /\ b \in Seq(S) /\ left = a \o b /\ (n = Len(left) => b = <<>>)
  BY <1>1, Cut
<1>3. got' = got \o a /\ answer' = answer /\ handler' = handler
  BY DEF Wrote
<1>4. CASE n = Len(left) \/ handler = "example" \/ (n = 0 /\ handler = "connection")
  <2>7. n = Len(left) => n # 0
    BY <1>1 DEF Answering
  <2>1. /\ n = Len(left) \/ handler = "example" => result' = "Ok"
        /\ ~(n = Len(left) \/ handler = "example") => result' = "Err"
        /\ pc' = "accept"
    <3>1. CASE n = Len(left) \/ handler = "example"
      BY <2>7, <3>1 DEF Wrote, Done
    <3>2. CASE ~(n = Len(left) \/ handler = "example")
      BY <1>4, <3>2 DEF Wrote, Done
    <3> QED  BY <3>1, <3>2
  <2> HIDE DEF a, b
  <2>2. got' \in Seq(S)
    BY <1>1, <1>2, <1>3, Concat
  <2>3. answer' = got' \o b
    <3>1. got \o (a \o b) = (got \o a) \o b
      BY <1>1, <1>2, SMTT(30)
    <3> QED  BY <1>1, <1>2, <1>3, <3>1
  <2>4. IsPrefix(got', answer')
    <3>1. IsPrefix(got', got' \o b)
      BY <1>2, <2>2, PrefixOf
    <3> QED  BY <2>3, <3>1
  <2>5. n = Len(left) => got' = answer'
    <3>1. b = <<>> => got' \o b = got'
      BY <2>2
    <3> QED  BY <1>2, <2>3, <3>1
  <2>6. AnswerExact'
    BY <1>3, <2>1, <2>4, <2>5 DEF AnswerExact
  <2> QED  BY <2>1, <2>6 DEF Answering
<1>5. CASE ~(n = Len(left) \/ handler = "example" \/ (n = 0 /\ handler = "connection"))
  <2>1. pc' = "write" /\ left' = b /\ result' = result /\ cur' = cur
    BY <1>5 DEF Wrote, Continue
  <2> HIDE DEF a, b
  <2>2. got' \in Seq(S) /\ left' \in Seq(S)
    BY <1>1, <1>2, <1>3, <2>1, Concat
  <2>3. answer' = got' \o left'
    <3>1. got \o (a \o b) = (got \o a) \o b
      BY <1>1, <1>2, SMTT(30)
    <3> QED  BY <1>1, <1>2, <1>3, <2>1, <3>1
  <2>4. IsPrefix(got', answer')
    <3>1. IsPrefix(got', got' \o left')
      BY <2>2, PrefixOf
    <3> QED  BY <2>3, <3>1
  <2>5. cur' \in Client /\ result' = "none"
    BY <2>1 DEF Answering
  <2>6. AnswerExact'
    BY <2>4, <2>5 DEF AnswerExact
  <2>7. left' # <<>>
    <3>1. n # Len(left)
      BY <1>5
    <3>2. a \o <<>> = a /\ Len(a) = n
      <4>1. 1 \in Nat \ {0} /\ n \in Int /\ n <= Len(left) /\ n >= 0
        BY <1>1
      <4>2. Len(a) = IF 1 <= n THEN n - 1 + 1 ELSE 0
        BY <1>1, <4>1, Part DEF a
      <4>3. a \o <<>> = a
        BY <1>2
      <4> QED  BY <4>1, <4>2, <4>3
    <3> QED  BY <1>2, <2>1, <3>1, <3>2
  <2> QED  BY <2>1, <2>2, <2>3, <2>5, <2>6, <2>7 DEF Answering
<1> QED  BY <1>4, <1>5

\* Before anything is written the answer is all left.
LEMMA ReadKeeps ==
    ASSUME Delivered, Answering, Read
    PROVE  Answering'
<1>1. pc = "read" /\ got = <<>> /\ cur \in Client /\ result = "none" /\ got' = got
  BY DEF Read, Answering
<1>2. IsSeq(answer')
  <2>1. request[cur] \in Requests /\ arrived[cur] \in Nat
        /\ arrived[cur] <= Len(Format(request[cur]))
    BY <1>1 DEF Delivered
  <2>2. Data \in Found
    BY <2>1, DataFound DEF Data
  <2>3. IsSeq(EchoAnswer(Data)) /\ IsSeq(StaticAnswer)
    BY <2>2, AnswerIsSeq
  <2>4. answer' = StaticAnswer \/ answer' = EchoAnswer(Data)
    BY DEF Read
  <2> QED  BY <2>3, <2>4
<1>3. PICK S : answer' \in Seq(S)
  BY <1>2 DEF IsSeq
<1>4. <<>> \in Seq(S) /\ <<>> \o answer' = answer'
  BY <1>3
<1>5. IsPrefix(got', answer')
  <2>1. IsPrefix(<<>>, <<>> \o answer')
    BY <1>3, <1>4, PrefixOf
  <2> QED  BY <1>1, <1>4, <2>1
<1>6. CASE answer' = <<>>
  <2>1. pc' = "accept" /\ result' = "Err"
    BY <1>6 DEF Read, Done
  <2> QED  BY <1>5, <2>1 DEF Answering, AnswerExact
<1>7. CASE answer' # <<>>
  <2>1. pc' = "write" /\ left' = answer' /\ result' = result /\ cur' = cur
    BY <1>7 DEF Read, Continue
  <2>2. got' \in Seq(S) /\ left' \in Seq(S) /\ answer' = got' \o left'
    BY <1>1, <1>3, <1>4, <2>1
  <2>3. AnswerExact'
    BY <1>1, <1>5, <2>1 DEF AnswerExact
  <2> QED  BY <1>1, <1>7, <2>1, <2>2, <2>3 DEF Answering
<1> QED  BY <1>6, <1>7

\* Every step keeps the answer whole.
LEMMA AnsweringNext ==
    ASSUME Delivered, Answering, [Next]_vars
    PROVE  Answering'
<1>1. CASE Accept
  <2>1. cur' \in Client
    BY <1>1 DEF Accept, Delivered
  <2>2. IsPrefix(<<>>, <<>>)
    BY DEF IsPrefix
  <2> QED  BY <1>1, <2>1, <2>2 DEF Accept, Answering, AnswerExact
<1>2. CASE AcceptErr
  BY <1>2 DEF AcceptErr, Answering, AnswerExact, outcomeVars
<1>3. CASE Read
  BY <1>3, ReadKeeps
<1>4. CASE ReadErr
  BY <1>4 DEF ReadErr, Done, Answering, AnswerExact
<1>5. CASE WriteInterrupted
  <2>1. CASE handler = "connection"
    BY <1>5, <2>1 DEF WriteInterrupted, Continue, Answering, AnswerExact
  <2>2. CASE handler # "connection"
    BY <1>5, <2>2 DEF WriteInterrupted, Done, Answering, AnswerExact
  <2> QED  BY <2>1, <2>2
<1>6. CASE WriteErr
  BY <1>6 DEF WriteErr, Done, Answering, AnswerExact
<1>7. ASSUME NEW n \in 0 .. Len(left), Wrote(n) PROVE Answering'
  <2>1. pc = "write"
    BY <1>7 DEF Wrote
  <2> QED  BY <1>7, <2>1, WroteKeeps
<1>8. ASSUME NEW c \in Client, Connect(c) PROVE Answering'
  BY <1>8 DEF Connect, Answering, AnswerExact, outcomeVars
<1>9. ASSUME NEW c \in Client, Close(c) PROVE Answering'
  BY <1>9 DEF Close, Answering, AnswerExact, outcomeVars
<1>10. ASSUME NEW c \in Client, NEW n \in 1 .. Len(Format(request[c])) - arrived[c], Arrive(c, n)
       PROVE  Answering'
  BY <1>10 DEF Arrive, Answering, AnswerExact, outcomeVars
<1>11. CASE UNCHANGED vars
  BY <1>11 DEF vars, Answering, AnswerExact, outcomeVars
<1> QED
  BY <1>1, <1>2, <1>3, <1>4, <1>5, <1>6, <1>7, <1>8, <1>9, <1>10, <1>11
  DEF Next, WriteReturns

\* Both hold before the first connection.
LEMMA ServerInit ==
    ASSUME Init
    PROVE  Delivered /\ Answering
<1>1. \A c \in Client : 0 <= Len(Format(request[c]))
  <2>1. SUFFICES ASSUME NEW c \in Client PROVE 0 <= Len(Format(request[c]))
    OBVIOUS
  <2>2. request[c] \in Request
    BY HttpAssumption DEF Init
  <2>3. Format(request[c]) \in Text
    BY <2>2, FormatIs
  <2> QED  BY <2>3 DEF Text
<1>2. Delivered
  BY <1>1 DEF Init, Delivered
<1>3. IsPrefix(<<>>, <<>>)
  BY DEF IsPrefix
<1> QED  BY <1>2, <1>3 DEF Init, Answering, AnswerExact

\* The server always knows what it was sent and what it has answered.
THEOREM HttpServerSafe == Spec => [](Delivered /\ Answering)
<1>1. Init => Delivered /\ Answering
  BY ServerInit
<1>2. Delivered /\ Answering /\ [Next]_vars => (Delivered /\ Answering)'
  BY DeliveredNext, AnsweringNext
<1> QED  BY <1>1, <1>2, PTL DEF Spec

\* send_response over short and interrupted writes: a client is sent a prefix of
\* its answer, and all of it when write_all says Ok.
THEOREM HttpAnswerExact == Spec => []AnswerExact
<1>1. Answering => AnswerExact
  BY DEF Answering
<1> QED  BY <1>1, HttpServerSafe, PTL

\* read_request understands every request that one read finds whole as the client
\* meant it.
THEOREM HttpRequestUnderstood == Spec => []RequestUnderstood
<1>1. Delivered /\ Answering => RequestUnderstood
  <2>1. SUFFICES ASSUME Delivered, Answering, pc = "write", Data = Format(request[cur])
                 PROVE  RequestUnderstood
    BY DEF RequestUnderstood
  <2> DEFINE q == request[cur]
             p == ReadRequest(Data)
  <2>2. /\ q \in Requests /\ arrived[cur] \in Nat /\ arrived[cur] <= Len(Format(q))
    BY <2>1 DEF Delivered, Answering
  <2>3. q \in Request
    BY <2>2, HttpAssumption
  <2>4. Data \in Found
    BY <2>2, DataFound DEF Data
  <2>5. p = Parse(Format(q))
    BY <2>1, <2>4, ReadRequestIs
  <2> HIDE DEF q, p
  <2>6. /\ [p EXCEPT !.body = <<>>] = [Meaning(q) EXCEPT !.body = <<>>]
        /\ Plain(q.body) => p.body = q.body
    BY <2>3, <2>5, ParseFaithful
  <2>7. ~Contains(q.body, "CRLF") /\ (q.body = <<>> \/ Last(q.body) # "LF") => Plain(q.body)
    BY DEF Contains, Last, Plain
  <2> QED  BY <2>6, <2>7 DEF RequestUnderstood, q, p
<1> QED  BY <1>1, HttpServerSafe, PTL
=================================================================================
