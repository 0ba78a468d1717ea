------------------------------ MODULE HttpServer ------------------------------
(***************************************************************************)
(* A server as examples/http_echo.rs runs it: one task that accepts a      *)
(* connection, serves it to the end and accepts the next, over the streams *)
(* of src/net.rs.  A connection is served by handle_client of the example, *)
(* or by the HttpConnection of src/http.rs with its EchoHandler.  TCP      *)
(* delivers what was sent in order, in pieces of any size.                 *)
(***************************************************************************)
EXTENDS HttpText

CONSTANTS Client,
          Handler,         \* the ways to serve: "example", "connection"
          Requests,        \* what a client may send
          BUFFER_SIZE,     \* what one read can take (4096 bytes), in tokens
          MaxSegments,     \* bound: pieces in which a request arrives
          MaxInterrupts,   \* bound: writes that are interrupted
          None

ASSUME HttpAssumption ==
    /\ Handler \subseteq {"example", "connection"} /\ BUFFER_SIZE \in Nat \ {0}
    /\ MaxSegments \in Nat /\ MaxInterrupts \in Nat /\ None \notin Client
    /\ Requests \subseteq Request

VARIABLES handler,
          pc,           \* the server: "accept", "read", "write", "stopped"
          backlog,      \* connections nobody has accepted
          cur,          \* the client being served, or None
          left,         \* what is still to be written
          request,      \* request[c]: what c sends
          arrived,      \* ... how many tokens of it have arrived
          segments,     \* ... and in how many pieces
          closed,       \* c has closed its side
          served,       \* clients whose connection the server has closed
          answer,       \* the response made on the latest connection
          got,          \* ... what of it has been written
          result,       \* how serving it ended, or "none"
          interrupts

clientVars == <<request, arrived, segments, closed>>
outcomeVars == <<answer, got, result>>
vars == <<handler, pc, backlog, cur, served, left, clientVars, outcomeVars,
          interrupts>>

\* What a read can find is the beginning of a request.  For each, what
\* HttpConnection::read_request makes of it, and what the connection sends then:
\* nothing if there was no request.
Found ==
    UNION {{SubSeq(Format(q), 1, n) : n \in {k \in 0 .. BUFFER_SIZE : k <= Len(Format(q))}} :
              q \in Requests}

Readings == {[text |-> t, request |-> Parse(t)] : t \in Found}

Echoes ==
    {[text |-> r.text, answer |-> IF r.request = Invalid THEN <<>>
                                  ELSE ToBytes(EchoHandler(r.request))] : r \in Readings}

ReadRequest(text) == (CHOOSE r \in Readings : r.text = text).request
EchoAnswer(text) == (CHOOSE e \in Echoes : e.text = text).answer

Init ==
    /\ handler \in Handler /\ pc = "accept" /\ backlog = <<>> /\ cur = None
    /\ left = <<>> /\ interrupts = 0
    /\ request \in [Client -> Requests]
    /\ arrived = [c \in Client |-> 0] /\ segments = [c \in Client |-> 0]
    /\ closed = [c \in Client |-> FALSE] /\ served = {}
    /\ answer = <<>> /\ got = <<>> /\ result = "none"

-----------------------------------------------------------------------------
(* The clients and the network.                                            *)

Open(c) == cur = c \/ Contains(backlog, c)

\* What arrives after the one read is never looked at.
Listening(c) == Contains(backlog, c) \/ (cur = c /\ pc = "read")

Connect(c) ==
    /\ c \notin served /\ ~Open(c)
    /\ backlog' = Append(backlog, c)
    /\ UNCHANGED <<handler, pc, cur, served, left, clientVars, outcomeVars,
                   interrupts>>

\* A segment with the next n tokens arrives; the last one brings all the rest.
Arrive(c, n) ==
    /\ Listening(c) /\ ~closed[c] /\ segments[c] < MaxSegments
    /\ segments[c] + 1 = MaxSegments => arrived[c] + n = Len(Format(request[c]))
    /\ segments' = [segments EXCEPT ![c] = @ + 1]
    /\ arrived' = [arrived EXCEPT ![c] = @ + n]
    /\ UNCHANGED <<handler, pc, backlog, cur, served, left, request, closed,
                   outcomeVars, interrupts>>

Close(c) ==
    /\ Listening(c) /\ ~closed[c]
    /\ closed' = [closed EXCEPT ![c] = TRUE]
    /\ UNCHANGED <<handler, pc, backlog, cur, served, left, request, arrived,
                   segments, outcomeVars, interrupts>>

-----------------------------------------------------------------------------
(* The server.                                                             *)

\* accept().await: a connection, or an error, which ends the loop of main.
Accept ==
    /\ pc = "accept" /\ backlog # <<>>
    /\ cur' = Head(backlog) /\ backlog' = Tail(backlog) /\ pc' = "read"
    /\ answer' = <<>> /\ got' = <<>> /\ result' = "none"
    /\ UNCHANGED <<handler, served, left, clientVars, interrupts>>

AcceptErr ==
    /\ pc = "accept" /\ pc' = "stopped"
    /\ UNCHANGED <<handler, backlog, cur, served, left, clientVars, outcomeVars,
                   interrupts>>

\* The stream is dropped and the loop goes on.
Done(outcome) ==
    /\ result' = outcome /\ served' = served \cup {cur}
    /\ pc' = "accept" /\ cur' = None /\ left' = <<>>
    /\ arrived' = [arrived EXCEPT ![cur] = 0] /\ closed' = [closed EXCEPT ![cur] = TRUE]
    /\ UNCHANGED <<request, segments>>

\* The connection stays, with a rest to be written.
Continue(rest) ==
    /\ pc' = "write" /\ left' = rest
    /\ UNCHANGED <<result, served, cur, clientVars>>

\* What AsyncTcpStream::read returns: what is there, up to the size of a buffer,
\* or nothing at the end of the stream.
Data == SubSeq(Format(request[cur]), 1,
               IF arrived[cur] < BUFFER_SIZE THEN arrived[cur] ELSE BUFFER_SIZE)

\* Nobody reads a second time: what the read returned is answered.
Read ==
    /\ pc = "read" /\ (arrived[cur] > 0 \/ closed[cur])
    /\ answer' = IF handler = "example" THEN StaticAnswer ELSE EchoAnswer(Data)
    /\ IF answer' = <<>> THEN Done("Err") ELSE Continue(answer')
    /\ UNCHANGED <<handler, backlog, got, interrupts>>

ReadErr ==
    /\ pc = "read" /\ Done("Err")
    /\ UNCHANGED <<handler, backlog, answer, got, interrupts>>

\* Faulty variant: when nothing was written the connection goes back to its read.
WroteZeroReads(n) ==
    /\ pc = "write" /\ got' = IF n = 0 THEN <<>> ELSE got \o SubSeq(left, 1, n)
    /\ CASE n = Len(left) \/ handler = "example" -> Done("Ok")
         [] n = 0 /\ handler = "connection" ->
               pc' = "read" /\ UNCHANGED <<left, result, served, cur, clientVars>>
         [] OTHER -> Continue(SubSeq(left, n + 1, Len(left)))
    /\ UNCHANGED <<handler, backlog, answer, interrupts>>

\* Faulty variant: after a short write write_all begins again.
WroteRestarts(n) ==
    /\ pc = "write" /\ got' = got \o SubSeq(left, 1, n)
    /\ CASE n = Len(left) \/ handler = "example" -> Done("Ok")
         [] n = 0 /\ handler = "connection" -> Done("Err")
         [] OTHER -> Continue(left)
    /\ UNCHANGED <<handler, backlog, answer, interrupts>>

\* A write of n lines: write_all goes on with the rest, and takes nothing
\* written for an error; the example is content with any.
Wrote(n) ==
    /\ pc = "write" /\ got' = got \o SubSeq(left, 1, n)
    /\ CASE n = Len(left) \/ handler = "example" -> Done("Ok")
         [] n = 0 /\ handler = "connection" -> Done("Err")
         [] OTHER -> Continue(SubSeq(left, n + 1, Len(left)))
    /\ UNCHANGED <<handler, backlog, answer, interrupts>>

\* An interrupted write is tried again by write_all only.
WriteInterrupted ==
    /\ pc = "write" /\ interrupts < MaxInterrupts
    /\ interrupts' = interrupts + 1
    /\ IF handler = "connection" THEN Continue(left) ELSE Done("Err")
    /\ UNCHANGED <<handler, backlog, answer, got>>

WriteErr ==
    /\ pc = "write" /\ Done("Err")
    /\ UNCHANGED <<handler, backlog, answer, got, interrupts>>

-----------------------------------------------------------------------------
ReadReturns ==
    /\ pc = "read" /\ pc' \in {"accept", "write"}
    /\ (arrived[cur] > 0 \/ closed[cur]) /\ (ReadErr \/ Read)

WriteReturns == WriteInterrupted \/ WriteErr \/ \E n \in 0 .. Len(left) : Wrote(n)

Next == \/ Accept \/ AcceptErr \/ Read \/ ReadErr \/ WriteReturns
        \/ \E c \in Client :
              \/ Connect(c) \/ Close(c)
              \/ \E n \in 1 .. Len(Format(request[c])) - arrived[c] : Arrive(c, n)

Spec == Init /\ [][Next]_vars

\* The task is polled when its operation completes, and the kernel completes an
\* accept when somebody connects, a read when there is something to read or the
\* peer has closed, and a write.
FairSpec ==
    /\ Spec /\ WF_vars(Accept) /\ WF_vars(WriteReturns)
    /\ WF_vars(ReadReturns)

-----------------------------------------------------------------------------
(* Properties.                                                             *)

\* A request that one read finds whole is understood as it was meant, also with
\* bare LFs, repeated headers and a body of several lines; only the CRLFs of a
\* body and a line end at its end do not survive parse().
RequestUnderstood ==
    (handler = "connection" /\ pc = "write" /\ Data = Format(request[cur])) =>
        LET q == request[cur]
            plain == ~Contains(q.body, "CRLF") /\ (q.body = <<>> \/ Last(q.body) # "LF")
        IN /\ [ReadRequest(Data) EXCEPT !.body = <<>>] = [Meaning(q) EXCEPT !.body = <<>>]
           /\ plain => ReadRequest(Data).body = q.body

\* Over short writes and interruptions, a client is sent a prefix of its answer,
\* nothing twice and nothing left out, and the whole of it when send_response says
\* Ok.
AnswerExact ==
    /\ IsPrefix(got, answer)
    /\ (handler = "connection" /\ result = "Ok") => got = answer

\* The server is done with a client once something of it can be read, and turns
\* to the next: no outcome of a read or a write keeps it in write_all for ever.
ServedToTheEnd ==
    \A c \in Client : (cur = c /\ (arrived[c] > 0 \/ closed[c])) ~> (cur # c)
===============================================================================
