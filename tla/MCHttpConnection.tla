--------------------------- MODULE MCHttpConnection ---------------------------
(* Small instances of HttpConnection, and of the functions on text that    *)
(* its code calls.                                                         *)
EXTENDS HttpConnection, TextCodecs

Request(route, close, len, asks) ==
    [route |-> route, agent |-> FALSE, close |-> close, body |-> len, upgrade |-> asks]

Get == Request("echo", FALSE, 0, FALSE)
GetClose == Request("echo", TRUE, 0, FALSE)
Post == Request("echo", FALSE, 1, FALSE)
PostClose == Request("echo", TRUE, 1, FALSE)
PostHuge == Request("echo", FALSE, 2, FALSE)
Missing == Request("none", FALSE, 0, FALSE)
Throwing == Request("throw", FALSE, 0, FALSE)
Upgrade == Request("ws", FALSE, 0, TRUE)
UpgradeLost == Request("none", FALSE, 0, TRUE)
PostAgent == [Post EXCEPT !.agent = TRUE]

(* A first request of every kind, then one that shows what it left behind. *)
Pairs ==
    {<<a, b>> : a \in {Get, GetClose, Post, PostHuge, Missing, Throwing, Upgrade, UpgradeLost,
                      PostAgent},
                b \in {Get, PostClose}}

-----------------------------------------------------------------------------
Strings(chars, n) == UNION {[1 .. k -> chars] : k \in 0 .. n}

(* find_crlf returns the first CR, wherever the chunks end.                *)
ASSUME FirstReturn ==
    \A data \in Strings({CR, 10}, 7), width \in 1 .. 4 :
        LET found == FindCrlf(data, width)
            all == {p \in DOMAIN data : data[p] = CR}
        IN  IF all = {} THEN found = 0 ELSE found \in all /\ \A p \in all : found <= p

(* A Content-Length is read back as fast_itoa writes it, and one that does *)
(* not fit a size_t is read as what is left of it.                         *)
ASSUME NumbersReadBack ==
    \A number \in 0 .. 1200 :
        /\ FastAtoi(FastItoa(number, 4), 10000) = number
        /\ FastAtoi(FastItoa(number, 4), 256) = number % 256
        /\ FastAtoi(Append(FastItoa(number, 4), CR), 10000) = number

(* Against a keyword of lower case letters only its spellings are equal.   *)
ASSUME KeywordsOnly ==
    \A c \in Byte, k \in Lowercase :
        IequalsSmall(<<c>>, <<k>>) <=> c = k \/ c = k - 32

(* The accept token of a digest decodes to the digest.                     *)
ASSUME TokensDecode ==
    \A data \in Strings({0, 1, 63, 64, 128, 255}, 4) :
        \A i \in DOMAIN data : Decoded(Base64Encode(data), i) = data[i]

(* urlDecode inverts urlEncode on unreserved characters only: every other  *)
(* becomes NUL, "%20" among them.                                          *)
ASSUME EscapesLost ==
    \A c \in 1 .. 127 :
        UrlDecode(UrlEncode(<<c>>)) = IF c \in Unreserved THEN <<c>> ELSE <<0>>
=============================================================================
