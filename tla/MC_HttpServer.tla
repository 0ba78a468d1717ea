----------------------------- MODULE MC_HttpServer -----------------------------
(* HttpServer for TLC: a request with a repeated header, a colon in a value,   *)
(* bare LFs and a body that begins with a blank line, and a request of an      *)
(* unknown method with CRLFs in its body.                                      *)
EXTENDS HttpServer

Twice == [method |-> "post", path |-> "/a", version |-> "HTTP/1.1",
          headers |-> <<<<"Host", <<":">>>>, <<"host", <<"b">>>>>>,
          body |-> <<"LF", "x">>, eol |-> "LF"]
Folded == [method |-> "BREW", path |-> "/", version |-> "HTTP/1.1", headers |-> <<>>,
           body |-> <<"x", "CRLF", "y", "LF">>, eol |-> "CRLF"]

MCWords == {"post", "BREW", "/a", "/", "HTTP/1.1", "Host", "host", ":", "b", "x", "y"}
MCRequests == {Twice, Folded}
================================================================================
