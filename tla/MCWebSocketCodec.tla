--------------------------- MODULE MCWebSocketCodec ---------------------------
(* Small instances of WebSocketCodec.                                      *)
EXTENDS WebSocketCodec

Frame(op, n, wide) == [op |-> op, fin |-> TRUE, masked |-> TRUE, wide |-> wide, len |-> n]

Text == Frame("data", 1, FALSE)
Longest == Frame("data", 2, TRUE)
TooLong == Frame("data", 3, TRUE)
Ping == Frame("ping", 0, FALSE)
Pong == Frame("pong", 1, TRUE)
LongPing == Frame("ping", 2, TRUE)
CloseFrame == Frame("close", 1, FALSE)
Fragment == [Text EXCEPT !.fin = FALSE]
Continuation == Frame("cont", 1, FALSE)
Naked == [Text EXCEPT !.masked = FALSE]

(* A frame that is answered, one of every kind, and one more.              *)
Talks ==
    {<<a, b, c>> : a \in {Text, Ping},
                   b \in {Text, Longest, TooLong, Pong, LongPing, CloseFrame, Fragment,
                          Continuation, Naked},
                   c \in {Ping, CloseFrame}}

(* A route that echoes and says something when the client leaves, and one  *)
(* that closes.                                                            *)
Talkers ==
    {[message |-> "echo", onClose |-> "send"], [message |-> "close", onClose |-> "nothing"]}
=============================================================================
