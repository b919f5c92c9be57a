-------------------------- MODULE MCHttpConnection --------------------------
(* One connection for TLC: the client sends at most MaxPieces pieces.      *)
EXTENDS HttpConnection

Request(http11, connection) == [http11 |-> http11, connection |-> connection]

\* A request of either version, and one that leaves HTTP.
Typical == {Request(TRUE, "none"), Request(TRUE, "upgrade"),
            Request(FALSE, "none")}

Ending == {Request(TRUE, "none"), Request(TRUE, "close")}

Plain == {Request(TRUE, "none")}
=============================================================================
