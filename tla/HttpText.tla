------------------------------- MODULE HttpText -------------------------------
(***************************************************************************)
(* Requests and responses of src/http.rs as text: Request::parse, what the *)
(* handlers answer, and Response::to_bytes.  A text is a sequence of       *)
(* tokens: words, ":" and the line ends "CRLF" and "LF"; blanks only       *)
(* separate words and are left out.                                        *)
(***************************************************************************)
EXTENDS Naturals, Sequences, SequencesExt

CONSTANT Word   \* the words of the requests, ":" among them

LineEnd == {"CRLF", "LF"}
Text == Seq(Word \cup LineEnd)

ASSUME WordAssumption == ":" \in Word /\ Word \cap LineEnd = {}

Letters == [get |-> "GET", post |-> "POST"]   \* of to_uppercase, to_lowercase
Names == [Host |-> "host"]
Upper(w) == IF w \in DOMAIN Letters THEN Letters[w] ELSE w
Lower(w) == IF w \in DOMAIN Names THEN Names[w] ELSE w

\* Method::from, as the Method's Display shows it: a method it does not know
\* stays as it is.
Known == {"GET", "POST", "PUT", "DELETE", "HEAD", "OPTIONS", "PATCH"}
MethodFrom(w) == IF Upper(w) \in Known THEN Upper(w) ELSE w

\* The places of the line ends, the k-th of them, and where the k-th line begins.
Ends(text) == {i \in DOMAIN text : text[i] \in LineEnd}
EndOf(text, k) ==
    CHOOSE i \in Ends(text) : Cardinality({j \in Ends(text) : j <= i}) = k
From(text, k) == IF k = 1 THEN 1 ELSE EndOf(text, k - 1) + 1

\* str::lines: a line end at the end of the text begins no further line.
Lines(text) ==
    LET number == Cardinality(Ends(text))
        closed == [k \in 1 .. number |-> SubSeq(text, From(text, k), EndOf(text, k) - 1)]
        rest == SubSeq(text, From(text, number + 1), Len(text))
    IN IF rest = <<>> THEN closed ELSE Append(closed, rest)

\* join("\n")
Join(lines) ==
    FlattenSeq([i \in DOMAIN lines |-> IF i = 1 THEN lines[1] ELSE <<"LF">> \o lines[i]])

\* A map after the insertion of a pair.
Insert(map, name, value) ==
    [n \in DOMAIN map \cup {name} |-> IF n = name THEN value ELSE map[n]]

NoHeaders == [n \in {} |-> ""]

\* headers after one more line: a line without a colon is skipped.
AddHeader(headers, line) ==
    LET colons == {i \in DOMAIN line : line[i] = ":"}
    IN IF colons = {} THEN headers
       ELSE LET c == CHOOSE i \in colons : \A j \in colons : i <= j
            IN Insert(headers, Lower(SubSeq(line, 1, c - 1)[1]),
                      SubSeq(line, c + 1, Len(line)))

Invalid == [method |-> "invalid"]

\* Faulty variant: the line after the blank one is taken for part of the head.
ParseLate(text) ==
    LET lines == Lines(text)
        blank == {i \in 2 .. Len(lines) : lines[i] = <<>>}
        head == IF blank = {} THEN Len(lines)
                ELSE (CHOOSE i \in blank : \A j \in blank : i <= j) - 1
        body == SubSeq(lines, head + 3, Len(lines))
    IN IF lines = <<>> \/ Len(lines[1]) # 3 THEN Invalid
       ELSE [method |-> MethodFrom(lines[1][1]), path |-> lines[1][2],
             version |-> lines[1][3],
             headers |-> FoldLeft(AddHeader, NoHeaders, SubSeq(lines, 2, head)),
             body |-> IF body = <<>> THEN <<>> ELSE Join(body)]

\* Request::parse: the request line, headers up to the first blank line or the
\* end, and all that follows as the body.
Parse(text) ==
    LET lines == Lines(text)
        blank == {i \in 2 .. Len(lines) : lines[i] = <<>>}
        head == IF blank = {} THEN Len(lines)
                ELSE (CHOOSE i \in blank : \A j \in blank : i <= j) - 1
        body == SubSeq(lines, head + 2, Len(lines))
    IN IF lines = <<>> \/ Len(lines[1]) # 3 THEN Invalid
       ELSE [method |-> MethodFrom(lines[1][1]), path |-> lines[1][2],
             version |-> lines[1][3],
             headers |-> FoldLeft(AddHeader, NoHeaders, SubSeq(lines, 2, head)),
             body |-> IF body = <<>> THEN <<>> ELSE Join(body)]

-----------------------------------------------------------------------------
(* Responses.  Their text is a sequence of lines, each a tuple of words; the  *)
(* headers of a HashMap come in some order, and one stands for all.           *)

NewResponse(status) ==
    [version |-> "HTTP/1.1", status |-> status, body |-> <<>>,
     headers |-> Insert(NoHeaders, "server", <<"miniss/1.0">>)]

WithHeader(r, name, value) == [r EXCEPT !.headers = Insert(@, Lower(name), value)]

WithBody(r, body) ==
    [r EXCEPT !.headers = Insert(@, "content-length", <<ToString(Len(body))>>),
              !.body = body]

HeaderLines(headers) ==
    LET names == SetToSeq(DOMAIN headers)
    IN [i \in DOMAIN names |-> <<names[i], ":">> \o headers[names[i]]]

\* Response::to_bytes
ToBytes(r) ==
    <<<<r.version, r.status>>>> \o HeaderLines(r.headers) \o <<<<>>>> \o r.body

\* EchoHandler::handle
EchoHandler(request) ==
    LET body == <<<<request.method, request.path, request.version>>>>
                \o HeaderLines(request.headers) \o <<<<"Body:">> \o request.body>>
    IN WithBody(WithHeader(NewResponse("200"), "content-type", <<"text/plain">>), body)

\* The constant answer of examples/http_echo.rs.
StaticAnswer ==
    <<<<"HTTP/1.1", "200">>, <<"Content-Length", ":", "12">>, <<>>, <<"Hello", "world!">>>>

-----------------------------------------------------------------------------
(* The reference: what a client means, and how it writes it down.           *)

\* What a client may send: a request line of three words, pairs of a name and a
\* value, each on one line, and any body.
Request == [method : Word, path : Word, version : Word,
            headers : Seq((Word \ {":"}) \X Seq(Word)),
            body : Text, eol : LineEnd]

\* As text: the line ends of the head are of one kind.
Format(q) ==
    <<q.method, q.path, q.version, q.eol>>
    \o FlattenSeq([i \in DOMAIN q.headers |->
                      <<q.headers[i][1], ":">> \o q.headers[i][2] \o <<q.eol>>])
    \o <<q.eol>> \o q.body

\* The request as RFC 9112 reads it: names of headers have no case, and of two
\* equal ones this server keeps the last.
Meaning(q) ==
    LET name(i) == Lower(q.headers[i][1])
        last(n) == CHOOSE i \in DOMAIN q.headers :
                      name(i) = n /\ \A j \in DOMAIN q.headers : name(j) = n => j <= i
    IN [method |-> MethodFrom(q.method), path |-> q.path, version |-> q.version,
        headers |-> [n \in {name(i) : i \in DOMAIN q.headers} |->
                        q.headers[last(n)][2]],
        body |-> q.body]
===============================================================================
