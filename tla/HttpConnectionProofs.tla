------------------------ MODULE HttpConnectionProofs ------------------------
(***************************************************************************)
(* Proofs of the safety properties of HttpConnection.                      *)
(***************************************************************************)
EXTENDS HttpConnection, SequenceLemmas

(* The pieces of a client's stream, and the requests it is joined from.    *)
Pieces == [req : Nat, kind : LineEnds \cup {"text", "byte"}]
Parts == [i \in DOMAIN requests |-> Encode(i, requests[i])]

(* What the client sends does not change under way.                        *)
Encoded == stream = FlattenSeq(Parts)

(* The write ring and the wire hold pieces of answers.                     *)
Answers ==
    [to : 1 .. Len(requests), body : 0 .. Len(requests),
     head : {HeadLines(TRUE), HeadLines(FALSE)}, part : 1 .. 2]
RingInv == out \in Seq(Answers) /\ wire \in Seq(Answers)

(* How many requests have been consumed.                                   *)
Count == Len(served) + (IF pc = "handle" THEN 1 ELSE 0)

(* Until a part of a request has been taken for the whole, the session is  *)
(* at the beginning of the next one.                                       *)
Placed ==
    /\ Count \in 0 .. Len(requests)
    /\ parsed = End(Count)
    /\ pc = "handle" => cur = Count
OrderInv == InOrder /\ (pc = "handle" => cur # 0) /\ (~torn => Placed)

IInv == TypeOK /\ Encoded /\ RingInv /\ OrderInv

(* How much of a request's head each of its optional lines is, and where   *)
(* the head ends: behind the blank line.                                   *)
Naming(r) == IF r.agent THEN 2 ELSE 0
Closing(r) == IF r.close THEN 2 ELSE 0
Upgrading(r) == IF r.upgrade THEN 2 ELSE 0
Carrying(r) == IF r.body > 0 THEN 2 ELSE 0
HeadSize(r) == 4 + Naming(r) + Closing(r) + Upgrading(r) + Carrying(r)

(* What piece j of request i is, if the request says r.                    *)
PieceAt(x, i, r, j) ==
    /\ x.req = i
    /\ x.kind = "line" <=> j = 2
    /\ x.kind = "blank" <=> j = HeadSize(r)
    /\ x.kind = "agent" <=> r.agent /\ j = 4
    /\ x.kind = "close" <=> r.close /\ j = 4 + Naming(r)
    /\ x.kind = "upgrade" <=> r.upgrade /\ j = 4 + Naming(r) + Closing(r)
    /\ x.kind = "length" <=> r.body > 0 /\ j = HeadSize(r) - 2

(* What has been parsed has been acted on: where parseRequest is not about *)
(* to run, no whole request waits in the ring; and a closed session rests. *)
Drained == pc \in {"idle", "recv", "flush", "write"} => ~(HasLine /\ Whole)
Running == pc # "idle" => open

(* The answers due, and how much of one the write ring takes.              *)
Dues == [i \in DOMAIN requests |-> Due(i)]
Shown(i) == SubSeq(Due(i), 1, IF Len(Due(i)) < WriteRoom THEN Len(Due(i)) ELSE WriteRoom)

(* The manners of a patient client, as they show in its stream: it does    *)
(* not go away, no segment and so no recv ends behind a header line, and   *)
(* nothing has arrived of a request beyond the first unanswered one.       *)
Uncut(n) == n > 0 => stream[n].kind \notin LineEnds \ {"blank"}
Manners ==
    /\ client # "gone"
    /\ Uncut(arrived) /\ Uncut(got)
    /\ arrived > 0 => stream[arrived].req <= Answered + 1

(* The session is at the beginning of a request, and at most one ahead.    *)
Turn ==
    /\ ~torn /\ parsed = End(Count)
    /\ Answered <= Len(served) /\ Count <= Answered + 1

(* On the wire and in the ring are the answers the client has read and, if *)
(* one more request has been handled, as much as fits of the next.         *)
Wired ==
    /\ Extent(Dues, Answered) = 2 * Answered
    /\ Len(served) = Answered => wire = Upto(Dues, Answered) /\ out = << >>
    /\ Len(served) # Answered => wire \o out = Upto(Dues, Answered) \o Shown(Len(served))

(* When the last request handled is answered, no field of _req is left of  *)
(* it: what is there is of the request being received.                     *)
Fresh ==
    open /\ pc # "handle" /\ out = << >> /\ Len(wire) = 2 * Len(served) =>
        /\ body = 0
        /\ upgrade => Len(served) < Len(requests) /\ requests[Len(served) + 1].upgrade

(* The fields are those of the request that is handled.                    *)
Taken ==
    pc = "handle" =>
        /\ path = requests[Count].route
        /\ keepAlive = ~requests[Count].close
        /\ upgrade = requests[Count].upgrade
        /\ body = IF requests[Count].body > 0 THEN Count ELSE 0

(* While an answer waits, _keepAlive is what its request has led to.       *)
Promised == open /\ out # << >> => keepAlive = ~Parting(Last(out).to)

Exchange == Manners /\ Turn /\ Wired /\ Fresh /\ Taken /\ Promised

(* The invariant with which a patient client's answers are proved.         *)
PInv == IInv /\ Drained /\ Running /\ (Mannered => Exchange)

-----------------------------------------------------------------------------
(***************************************************************************)
(* A request.                                                              *)
(***************************************************************************)

(* A line more.                                                            *)
LEMMA LineMore ==
    ASSUME NEW i \in Nat, NEW kind \in LineEnds, NEW s \in Seq(Pieces)
    PROVE  /\ s \o Line(i, kind) \in Seq(Pieces) /\ Len(s \o Line(i, kind)) = Len(s) + 2
           /\ \A j \in 1 .. Len(s) : (s \o Line(i, kind))[j] = s[j]
           /\ (s \o Line(i, kind))[Len(s) + 1] = Piece(i, "text")
           /\ (s \o Line(i, kind))[Len(s) + 2] = Piece(i, kind)
<1>. DEFINE two == Line(i, kind)
<1>1. two \in Seq(Pieces) /\ Len(two) = 2 /\ two[1] = Piece(i, "text") /\ two[2] = Piece(i, kind)
  <2>1. Piece(i, "text") \in Pieces /\ Piece(i, kind) \in Pieces
    BY DEF Piece, Pieces
  <2>. QED
    BY <2>1 DEF Line
<1>2. 1 \in 1 .. Len(two) /\ 2 \in 1 .. Len(two)
  BY <1>1
<1>. HIDE DEF two
<1>3. /\ s \o two \in Seq(Pieces) /\ Len(s \o two) = Len(s) + Len(two)
      /\ \A j \in 1 .. Len(s) : (s \o two)[j] = s[j]
      /\ \A j \in 1 .. Len(two) : (s \o two)[Len(s) + j] = two[j]
  BY <1>1, ConcatForm
<1>. QED
  BY <1>1, <1>2, <1>3 DEF two

(* The pieces of a request: which line is where, and what each says.       *)
LEMMA EncodeForm ==
    ASSUME NEW i \in Nat, NEW r \in Shapes
    PROVE  /\ Encode(i, r) \in Seq(Pieces) /\ Len(Encode(i, r)) = HeadSize(r) + r.body
           /\ HeadSize(r) \in 4 .. 12 /\ r.body \in Nat
           /\ \A j \in 1 .. Len(Encode(i, r)) : PieceAt(Encode(i, r)[j], i, r, j)
<1>. DEFINE a == Naming(r)
            c == Closing(r)
            u == Upgrading(r)
            b == Carrying(r)
            h == HeadSize(r)
            s0 == Line(i, "line")
            s1 == s0 \o (IF r.agent THEN Line(i, "agent") ELSE << >>)
            s2 == s1 \o (IF r.close THEN Line(i, "close") ELSE << >>)
            s3 == s2 \o (IF r.upgrade THEN Line(i, "upgrade") ELSE << >>)
            s4 == s3 \o (IF r.body > 0 THEN Line(i, "length") ELSE << >>)
            s5 == s4 \o Line(i, "blank")
            bytes == [k \in 1 .. r.body |-> Piece(i, "byte")]
            e == s5 \o bytes
<1>1. r.body \in Nat /\ r.agent \in BOOLEAN /\ r.close \in BOOLEAN /\ r.upgrade \in BOOLEAN /\ (r.body > 0) \in BOOLEAN
      /\ LineEnds = {"line", "agent", "close", "upgrade", "length", "blank"}
  BY DEF Shapes, LineEnds
<1>2. Encode(i, r) = e
  BY DEF Encode
<1>3. s0 \in Seq(Pieces) /\ Len(s0) = 2 /\ s0[1] = Piece(i, "text") /\ s0[2] = Piece(i, "line")
  <2>1. Piece(i, "text") \in Pieces /\ Piece(i, "line") \in Pieces
    BY DEF Piece, Pieces, LineEnds
  <2>. QED
    BY <2>1 DEF Line
<1>. HIDE DEF s0
<1>4. a \in {0, 2} /\ c \in {0, 2} /\ u \in {0, 2} /\ b \in {0, 2}
  BY DEF Naming, Closing, Upgrading, Carrying
<1>5. /\ r.agent => a = 2
      /\ ~r.agent => a = 0
      /\ r.close => c = 2
      /\ ~r.close => c = 0
      /\ r.upgrade => u = 2
      /\ ~r.upgrade => u = 0
      /\ r.body > 0 => b = 2
      /\ ~(r.body > 0) => b = 0
  BY DEF Naming, Closing, Upgrading, Carrying
<1>6. /\ s1 \in Seq(Pieces) /\ Len(s1) = 2 + a
      /\ \A j \in 1 .. 2 : s1[j] = s0[j]
      /\ r.agent => s1[3] = Piece(i, "text") /\ s1[4] = Piece(i, "agent")
  <2>. HIDE DEF a
  <2>1. CASE r.agent
    <3>1. s1 = s0 \o Line(i, "agent") /\ "agent" \in LineEnds /\ a = 2
      BY <1>1, <1>5, <2>1
    <3>. HIDE DEF s1
    <3>2. /\ s1 \in Seq(Pieces) /\ Len(s1) = Len(s0) + 2
          /\ \A j \in 1 .. Len(s0) : s1[j] = s0[j]
          /\ s1[Len(s0) + 1] = Piece(i, "text") /\ s1[Len(s0) + 2] = Piece(i, "agent")
      BY <1>1, <1>3, <3>1, LineMore
    <3>3. Len(s0) + 1 = 3 /\ Len(s0) + 2 = 4
      BY <1>4, <1>1, <1>3
    <3>. QED
      BY <1>4, <1>1, <1>3, <3>1, <3>2, <3>3
  <2>2. CASE ~(r.agent)
    <3>1. s1 = s0 \o << >> /\ a = 0
      BY <1>5, <2>2
    <3>. HIDE DEF s1
    <3>2. s1 = s0
      BY <1>1, <1>3, <3>1
    <3>. QED
      BY <1>4, <1>1, <1>3, <2>2, <3>1, <3>2
  <2>. QED
    BY <2>1, <2>2
<1>. HIDE DEF s1
<1>7. /\ s2 \in Seq(Pieces) /\ Len(s2) = 2 + a + c
      /\ \A j \in 1 .. 2 + a : s2[j] = s1[j]
      /\ r.close => s2[3 + a] = Piece(i, "text") /\ s2[4 + a] = Piece(i, "close")
  <2>. HIDE DEF a, c
  <2>1. CASE r.close
    <3>1. s2 = s1 \o Line(i, "close") /\ "close" \in LineEnds /\ c = 2
      BY <1>1, <1>5, <2>1
    <3>. HIDE DEF s2
    <3>2. /\ s2 \in Seq(Pieces) /\ Len(s2) = Len(s1) + 2
          /\ \A j \in 1 .. Len(s1) : s2[j] = s1[j]
          /\ s2[Len(s1) + 1] = Piece(i, "text") /\ s2[Len(s1) + 2] = Piece(i, "close")
      BY <1>1, <1>6, <3>1, LineMore
    <3>3. Len(s1) + 1 = 3 + a /\ Len(s1) + 2 = 4 + a
      BY <1>4, <1>1, <1>6
    <3>. QED
      BY <1>4, <1>1, <1>6, <3>1, <3>2, <3>3
  <2>2. CASE ~(r.close)
    <3>1. s2 = s1 \o << >> /\ c = 0
      BY <1>5, <2>2
    <3>. HIDE DEF s2
    <3>2. s2 = s1
      BY <1>1, <1>6, <3>1
    <3>. QED
      BY <1>4, <1>1, <1>6, <2>2, <3>1, <3>2
  <2>. QED
    BY <2>1, <2>2
<1>. HIDE DEF s2
<1>8. /\ s3 \in Seq(Pieces) /\ Len(s3) = 2 + a + c + u
      /\ \A j \in 1 .. 2 + a + c : s3[j] = s2[j]
      /\ r.upgrade => s3[3 + a + c] = Piece(i, "text") /\ s3[4 + a + c] = Piece(i, "upgrade")
  <2>. HIDE DEF a, c, u
  <2>1. CASE r.upgrade
    <3>1. s3 = s2 \o Line(i, "upgrade") /\ "upgrade" \in LineEnds /\ u = 2
      BY <1>1, <1>5, <2>1
    <3>. HIDE DEF s3
    <3>2. /\ s3 \in Seq(Pieces) /\ Len(s3) = Len(s2) + 2
          /\ \A j \in 1 .. Len(s2) : s3[j] = s2[j]
          /\ s3[Len(s2) + 1] = Piece(i, "text") /\ s3[Len(s2) + 2] = Piece(i, "upgrade")
      BY <1>1, <1>7, <3>1, LineMore
    <3>3. Len(s2) + 1 = 3 + a + c /\ Len(s2) + 2 = 4 + a + c
      BY <1>4, <1>1, <1>7
    <3>. QED
      BY <1>4, <1>1, <1>7, <3>1, <3>2, <3>3
  <2>2. CASE ~(r.upgrade)
    <3>1. s3 = s2 \o << >> /\ u = 0
      BY <1>5, <2>2
    <3>. HIDE DEF s3
    <3>2. s3 = s2
      BY <1>1, <1>7, <3>1
    <3>. QED
      BY <1>4, <1>1, <1>7, <2>2, <3>1, <3>2
  <2>. QED
    BY <2>1, <2>2
<1>. HIDE DEF s3
<1>9. /\ s4 \in Seq(Pieces) /\ Len(s4) = 2 + a + c + u + b
      /\ \A j \in 1 .. 2 + a + c + u : s4[j] = s3[j]
      /\ r.body > 0 => s4[3 + a + c + u] = Piece(i, "text") /\ s4[4 + a + c + u] = Piece(i, "length")
  <2>. HIDE DEF a, c, u, b
  <2>1. CASE r.body > 0
    <3>1. s4 = s3 \o Line(i, "length") /\ "length" \in LineEnds /\ b = 2
      BY <1>1, <1>5, <2>1
    <3>. HIDE DEF s4
    <3>2. /\ s4 \in Seq(Pieces) /\ Len(s4) = Len(s3) + 2
          /\ \A j \in 1 .. Len(s3) : s4[j] = s3[j]
          /\ s4[Len(s3) + 1] = Piece(i, "text") /\ s4[Len(s3) + 2] = Piece(i, "length")
      BY <1>1, <1>8, <3>1, LineMore
    <3>3. Len(s3) + 1 = 3 + a + c + u /\ Len(s3) + 2 = 4 + a + c + u
      BY <1>4, <1>1, <1>8
    <3>. QED
      BY <1>4, <1>1, <1>8, <3>1, <3>2, <3>3
  <2>2. CASE ~(r.body > 0)
    <3>1. s4 = s3 \o << >> /\ b = 0
      BY <1>5, <2>2
    <3>. HIDE DEF s4
    <3>2. s4 = s3
      BY <1>1, <1>8, <3>1
    <3>. QED
      BY <1>4, <1>1, <1>8, <2>2, <3>1, <3>2
  <2>. QED
    BY <2>1, <2>2
<1>. HIDE DEF s4
<1>10. /\ s5 \in Seq(Pieces) /\ Len(s5) = h
       /\ \A j \in 1 .. h - 2 : s5[j] = s4[j]
       /\ s5[h - 1] = Piece(i, "text") /\ s5[h] = Piece(i, "blank")
  <2>1. s5 = s4 \o Line(i, "blank") /\ "blank" \in LineEnds
    BY <1>1
  <2>. HIDE DEF s5, a, c, u, b
  <2>2. h = 4 + a + c + u + b /\ h - 2 = 2 + a + c + u + b /\ h - 1 = 2 + a + c + u + b + 1 /\ h = 2 + a + c + u + b + 2
    BY <1>4 DEF HeadSize, a, c, u, b
  <2>. HIDE DEF h
  <2>3. /\ s5 \in Seq(Pieces) /\ Len(s5) = Len(s4) + 2
        /\ \A j \in 1 .. Len(s4) : s5[j] = s4[j]
        /\ s5[Len(s4) + 1] = Piece(i, "text") /\ s5[Len(s4) + 2] = Piece(i, "blank")
    BY <1>9, <2>1, LineMore
  <2>. QED
    BY <1>9, <2>2, <2>3
<1>. HIDE DEF s5
<1>11. bytes \in Seq(Pieces) /\ Len(bytes) = r.body /\ \A j \in 1 .. r.body : bytes[j] = Piece(i, "byte")
  <2>1. Piece(i, "byte") \in Pieces
    BY DEF Piece, Pieces
  <2>2. bytes \in [1 .. r.body -> Pieces] /\ \A j \in 1 .. r.body : bytes[j] = Piece(i, "byte")
    BY <2>1
  <2>. HIDE DEF bytes
  <2>. QED
    BY <1>1, <2>2
<1>. HIDE DEF bytes
<1>12. /\ e \in Seq(Pieces) /\ Len(e) = h + r.body
       /\ \A j \in 1 .. h : e[j] = s5[j]
       /\ \A j \in 1 .. r.body : e[h + j] = Piece(i, "byte")
  <2>1. /\ s5 \o bytes \in Seq(Pieces)
        /\ Len(s5 \o bytes) = Len(s5) + Len(bytes)
        /\ \A j \in 1 .. Len(s5) : (s5 \o bytes)[j] = s5[j]
        /\ \A j \in 1 .. Len(bytes) : (s5 \o bytes)[Len(s5) + j] = bytes[j]
    <3>1. s5 \in Seq(Pieces) /\ bytes \in Seq(Pieces)
      BY <1>10, <1>11
    <3>. HIDE DEF bytes, e, h
    <3>. QED
      BY <3>1, ConcatForm
  <2>. HIDE DEF h
  <2>. QED
    BY <1>10, <1>11, <2>1
<1>. HIDE DEF e
<1>13. \A kind : Piece(i, kind).req = i /\ Piece(i, kind).kind = kind
  BY DEF Piece
<1>14. h = 4 + a + c + u + b
  BY DEF HeadSize
<1>. HIDE DEF a, c, u, b, h
<1>15. e[1] = Piece(i, "text") /\ e[2] = Piece(i, "line")
  <2>1. ASSUME NEW j \in {1, 2} PROVE e[j] = s0[j]
    <3>1. j \in 1 .. 2 /\ j \in 1 .. 2 + a /\ j \in 1 .. 2 + a + c /\ j \in 1 .. 2 + a + c + u /\ j \in 1 .. h - 2 /\ j \in 1 .. h
      BY <1>4, <1>14
    <3>2. e[j] = s5[j] /\ s5[j] = s4[j]
      BY <1>10, <1>12, <3>1
    <3>3. s4[j] = s3[j] /\ s3[j] = s2[j]
      BY <1>8, <1>9, <3>1
    <3>4. s2[j] = s1[j] /\ s1[j] = s0[j]
      BY <1>6, <1>7, <3>1
    <3>. QED
      BY <3>2, <3>3, <3>4
  <2>. QED
    BY <1>3, <2>1
<1>16. r.agent => e[3] = Piece(i, "text") /\ e[4] = Piece(i, "agent")
  <2>1. ASSUME r.agent, NEW j \in {3, 4} PROVE e[j] = s1[j]
    <3>1. j \in 1 .. 2 + a /\ j \in 1 .. 2 + a + c /\ j \in 1 .. 2 + a + c + u /\ j \in 1 .. h - 2
          /\ j \in 1 .. h
      BY <1>4, <1>14, <1>5, <2>1
    <3>. QED
      BY <1>7, <1>8, <1>9, <1>10, <1>12, <3>1
  <2>. QED
    BY <1>6, <2>1
<1>17. r.close => e[3 + a] = Piece(i, "text") /\ e[4 + a] = Piece(i, "close")
  <2>1. ASSUME r.close, NEW j \in {3 + a, 4 + a} PROVE e[j] = s2[j]
    <3>1. j \in 1 .. 2 + a + c /\ j \in 1 .. 2 + a + c + u /\ j \in 1 .. h - 2 /\ j \in 1 .. h
      BY <1>4, <1>14, <1>5, <2>1
    <3>. QED
      BY <1>8, <1>9, <1>10, <1>12, <3>1
  <2>. QED
    BY <1>7, <2>1
<1>18. r.upgrade => e[3 + a + c] = Piece(i, "text") /\ e[4 + a + c] = Piece(i, "upgrade")
  <2>1. ASSUME r.upgrade, NEW j \in {3 + a + c, 4 + a + c} PROVE e[j] = s3[j]
    <3>1. j \in 1 .. 2 + a + c + u /\ j \in 1 .. h - 2 /\ j \in 1 .. h
      BY <1>4, <1>14, <1>5, <2>1
    <3>. QED
      BY <1>9, <1>10, <1>12, <3>1
  <2>. QED
    BY <1>8, <2>1
<1>19. r.body > 0 => e[3 + a + c + u] = Piece(i, "text") /\ e[4 + a + c + u] = Piece(i, "length")
  <2>1. ASSUME r.body > 0, NEW j \in {3 + a + c + u, 4 + a + c + u} PROVE e[j] = s4[j]
    <3>1. j \in 1 .. h - 2 /\ j \in 1 .. h
      BY <1>4, <1>14, <1>5, <2>1
    <3>. QED
      BY <1>10, <1>12, <3>1
  <2>. QED
    BY <1>9, <2>1
<1>20. e[h - 1] = Piece(i, "text") /\ e[h] = Piece(i, "blank")
  <2>1. h - 1 \in 1 .. h /\ h \in 1 .. h
    BY <1>4, <1>14
  <2>2. e[h - 1] = s5[h - 1] /\ e[h] = s5[h]
    BY <1>12, <2>1
  <2>. QED
    BY <1>10, <2>2
<1>. DEFINE At(j, k, kind) == j = k /\ e[j] = Piece(i, kind)
<1>21. ASSUME NEW j \in 1 .. h
       PROVE  \/ At(j, 1, "text") \/ At(j, 2, "line")
              \/ (r.agent /\ (At(j, 3, "text") \/ At(j, 4, "agent")))
              \/ (r.close /\ (At(j, 3 + a, "text") \/ At(j, 4 + a, "close")))
              \/ (r.upgrade /\ (At(j, 3 + a + c, "text") \/ At(j, 4 + a + c, "upgrade")))
              \/ (r.body > 0 /\ (At(j, 3 + a + c + u, "text") \/ At(j, 4 + a + c + u, "length")))
              \/ At(j, h - 1, "text") \/ At(j, h, "blank")
  <2>1. j \in {1, 2} \/ (j \in {3, 4} /\ r.agent) \/ (j \in {3 + a, 4 + a} /\ r.close) \/ (j \in {3 + a + c, 4 + a + c} /\ r.upgrade)
        \/ (j \in {3 + a + c + u, 4 + a + c + u} /\ r.body > 0) \/ j \in {h - 1, h}
    BY <1>4, <1>14, <1>5
  <2>. QED
    BY <1>15, <1>16, <1>17, <1>18, <1>19, <1>20, <2>1
<1>22. ASSUME NEW j \in 1 .. h
       PROVE  /\ e[j].req = i
              /\ e[j].kind = "line" <=> j = 2
              /\ e[j].kind = "blank" <=> j = h
              /\ e[j].kind = "agent" <=> r.agent /\ j = 4
              /\ e[j].kind = "close" <=> r.close /\ j = 4 + a
              /\ e[j].kind = "upgrade" <=> r.upgrade /\ j = 4 + a + c
              /\ e[j].kind = "length" <=> r.body > 0 /\ j = h - 2
  BY <1>4, <1>13, <1>14, <1>5, <1>21
<1>23. ASSUME NEW j \in 1 .. Len(e), ~(j \in 1 .. h)
       PROVE  e[j].req = i /\ e[j].kind = "byte" /\ j > h
  <2>1. j - h \in 1 .. r.body /\ h + (j - h) = j /\ j > h
    BY <1>1, <1>4, <1>12, <1>14, <1>23
  <2>2. e[j] = Piece(i, "byte")
    BY <1>12, <2>1
  <2>. QED
    BY <1>13, <2>1, <2>2
<1>24. h \in 4 .. 12 /\ h \in Nat
  BY <1>4, <1>14
<1>25. ASSUME NEW j \in 1 .. Len(e)
       PROVE  /\ e[j].req = i
              /\ e[j].kind = "line" <=> j = 2
              /\ e[j].kind = "blank" <=> j = h
              /\ e[j].kind = "agent" <=> r.agent /\ j = 4
              /\ e[j].kind = "close" <=> r.close /\ j = 4 + a
              /\ e[j].kind = "upgrade" <=> r.upgrade /\ j = 4 + a + c
              /\ e[j].kind = "length" <=> r.body > 0 /\ j = h - 2
  <2>1. CASE j \in 1 .. h
    BY <1>22, <2>1
  <2>2. CASE ~(j \in 1 .. h)
    BY <1>4, <1>14, <1>5, <1>23, <2>2
  <2>. QED
    BY <2>1, <2>2
<1>26. \A j \in 1 .. Len(e) : PieceAt(e[j], i, r, j)
  BY <1>25 DEF PieceAt, a, c, h
<1>. QED
  BY <1>1, <1>2, <1>12, <1>24, <1>26 DEF h

-----------------------------------------------------------------------------
(***************************************************************************)
(* The stream.                                                             *)
(***************************************************************************)

(* Request i begins where the one before it ends; a piece is of one of the *)
(* first i requests if it is not behind the end of request i.              *)
LEMMA StreamForm ==
    ASSUME requests \in Seq(Shapes), Encoded
    PROVE  /\ stream \in Seq(Pieces)
           /\ End(0) = 0 /\ End(Len(requests)) = Len(stream)
           /\ \A i \in 0 .. Len(requests) : End(i) \in 0 .. Len(stream)
           /\ \A i \in 1 .. Len(requests) : End(i) = End(i - 1) + Len(Encode(i, requests[i]))
           /\ \A i \in 1 .. Len(requests) : \A j \in 1 .. Len(Encode(i, requests[i])) :
                 stream[End(i - 1) + j] = Encode(i, requests[i])[j]
           /\ \A i \in 0 .. Len(requests), p \in 1 .. Len(stream) :
                 stream[p].req <= i <=> p <= End(i)
<1>. DEFINE owner == [x \in Pieces |-> x.req]
<1>1. Parts \in Seq(Seq(Pieces)) /\ Len(Parts) = Len(requests)
      /\ \A i \in 1 .. Len(requests) : Parts[i] = Encode(i, requests[i])
  <2>1. \A i \in 1 .. Len(requests) : requests[i] \in Shapes /\ i \in Nat
    OBVIOUS
  <2>2. \A i \in 1 .. Len(requests) : Encode(i, requests[i]) \in Seq(Pieces)
    BY <2>1, EncodeForm
  <2>3. Parts = [i \in 1 .. Len(requests) |-> Encode(i, requests[i])]
    BY DEF Parts
  <2>4. Parts \in [1 .. Len(requests) -> Seq(Pieces)] /\ Len(requests) \in Nat
    BY <2>2, <2>3
  <2>. DEFINE U == Seq(Pieces)
  <2>5. Parts \in Seq(U) /\ Len(Parts) = Len(requests)
    <3>1. Parts \in [1 .. Len(requests) -> U] /\ Len(requests) \in Nat
      BY <2>4
    <3>. HIDE DEF U
    <3>. QED
      BY <3>1
  <2>. QED
    BY <2>3, <2>5
<1>2. stream \in Seq(Pieces)
  BY <1>1, FlattenType DEF Encoded
<1>3. ASSUME NEW k \in 1 .. Len(Parts), NEW j \in 1 .. Len(Parts[k])
      PROVE  owner[Parts[k][j]] = k
  <2>1. k \in Nat /\ requests[k] \in Shapes /\ Parts[k] = Encode(k, requests[k])
    BY <1>1
  <2>2. Parts[k] \in Seq(Pieces) /\ Parts[k][j].req = k
    <3>. DEFINE r == requests[k]
    <3>1. k \in Nat /\ r \in Shapes /\ Parts[k] = Encode(k, r) /\ j \in 1 .. Len(Encode(k, r))
      BY <2>1
    <3>. HIDE DEF r
    <3>2. Encode(k, r) \in Seq(Pieces) /\ Encode(k, r)[j].req = k
      BY <3>1, EncodeForm DEF PieceAt
    <3>. QED
      BY <3>1, <3>2
  <2>. QED
    BY <2>2
<1>4. \A p \in 1 .. Len(stream) : owner[stream[p]] = stream[p].req
  BY <1>2
<1>. HIDE DEF owner
<1>5. ASSUME NEW i \in 0 .. Len(requests)
      PROVE  /\ \A p \in 1 .. Len(stream) : stream[p].req <= i <=> p <= Extent(Parts, i)
             /\ End(i) = Extent(Parts, i)
             /\ Extent(Parts, i) <= Len(stream)
  <2>1. i \in 0 .. Len(Parts)
    BY <1>1
  <2>2. /\ \A p \in 1 .. Len(stream) : owner[stream[p]] <= i <=> p <= Extent(Parts, i)
        /\ Max({0} \cup {p \in 1 .. Len(stream) : owner[stream[p]] <= i}) = Extent(Parts, i)
        /\ Extent(Parts, i) <= Len(stream)
    <3>1. \A k \in 1 .. Len(Parts) : \A j \in 1 .. Len(Parts[k]) : owner[Parts[k][j]] = k
      BY <1>3
    <3>2. /\ \A p \in 1 .. Len(FlattenSeq(Parts)) :
                owner[FlattenSeq(Parts)[p]] <= i <=> p <= Extent(Parts, i)
          /\ Max({0} \cup {p \in 1 .. Len(FlattenSeq(Parts)) : owner[FlattenSeq(Parts)[p]] <= i})
               = Extent(Parts, i)
          /\ Extent(Parts, i) <= Len(FlattenSeq(Parts))
      BY <1>1, <2>1, <3>1, OwnedUpto
    <3>. QED
      BY <3>2, Zenon DEF Encoded
  <2>3. DOMAIN stream = 1 .. Len(stream)
    BY <1>2
  <2>4. {p \in 1 .. Len(stream) : owner[stream[p]] <= i} = {p \in DOMAIN stream : stream[p].req <= i}
    BY <1>4, <2>3
  <2>. QED
    BY <1>4, <2>2, <2>4 DEF End
<1>6. \A i \in 0 .. Len(requests) : Extent(Parts, i) \in Nat
  BY <1>1, UptoType
<1>7. Extent(Parts, 0) = 0 /\ Extent(Parts, Len(requests)) = Len(stream)
  BY <1>1, UptoEnds DEF Extent, Encoded
<1>8. \A i \in 1 .. Len(requests) : Extent(Parts, i) = Extent(Parts, i - 1) + Len(Encode(i, requests[i]))
  BY <1>1, UptoStep
<1>9. 0 \in 0 .. Len(requests) /\ Len(requests) \in 0 .. Len(requests)
      /\ \A i \in 1 .. Len(requests) : i \in 0 .. Len(requests) /\ i - 1 \in 0 .. Len(requests)
  OBVIOUS
<1>10. \A i \in 0 .. Len(requests) : End(i) = Extent(Parts, i)
  BY <1>5
<1>11. Len(stream) \in Nat
  BY <1>2
<1>12. \A i \in 0 .. Len(requests) : End(i) \in 0 .. Len(stream)
  BY <1>5, <1>6, <1>11
<1>13. \A i \in 1 .. Len(requests) : End(i) = End(i - 1) + Len(Encode(i, requests[i]))
  BY <1>8, <1>9, <1>10
<1>14. \A i \in 0 .. Len(requests), p \in 1 .. Len(stream) : stream[p].req <= i <=> p <= End(i)
  BY <1>5
<1>15. ASSUME NEW i \in 1 .. Len(requests), NEW j \in 1 .. Len(Encode(i, requests[i]))
       PROVE  stream[End(i - 1) + j] = Encode(i, requests[i])[j]
  <2>1. i \in 1 .. Len(Parts) /\ Parts[i] = Encode(i, requests[i]) /\ j \in 1 .. Len(Parts[i])
    BY <1>1
  <2>2. FlattenSeq(Parts)[Extent(Parts, i - 1) + j] = Parts[i][j]
    BY <1>1, <2>1, Layout
  <2>. QED
    BY <1>9, <1>10, <2>1, <2>2 DEF Encoded
<1>. QED
  BY <1>2, <1>7, <1>9, <1>10, <1>12, <1>13, <1>14, <1>15

(* What is where in the part of the stream that is request i.              *)
LEMMA RequestForm ==
    ASSUME requests \in Seq(Shapes), Encoded, NEW i \in 1 .. Len(requests)
    PROVE  /\ requests[i] \in Shapes /\ requests[i].body \in Nat /\ HeadSize(requests[i]) \in 4 .. 12
           /\ End(i - 1) \in Nat /\ End(i) <= Len(stream)
           /\ End(i) = End(i - 1) + HeadSize(requests[i]) + requests[i].body
           /\ \A j \in 1 .. HeadSize(requests[i]) + requests[i].body :
                 PieceAt(stream[End(i - 1) + j], i, requests[i], j)
<1>. DEFINE r == requests[i]
<1>1. i \in Nat /\ r \in Shapes /\ i - 1 \in 0 .. Len(requests) /\ i \in 0 .. Len(requests)
  OBVIOUS
<1>2. /\ Len(Encode(i, r)) = HeadSize(r) + r.body
      /\ HeadSize(r) \in 4 .. 12 /\ r.body \in Nat
      /\ \A j \in 1 .. Len(Encode(i, r)) : PieceAt(Encode(i, r)[j], i, r, j)
  <2>. HIDE DEF r
  <2>. QED
    BY <1>1, EncodeForm
<1>3. /\ End(i - 1) \in 0 .. Len(stream) /\ End(i) \in 0 .. Len(stream)
      /\ End(i) = End(i - 1) + Len(Encode(i, r))
      /\ \A j \in 1 .. Len(Encode(i, r)) : stream[End(i - 1) + j] = Encode(i, r)[j]
      /\ stream \in Seq(Pieces)
  BY <1>1, StreamForm
<1>4. End(i - 1) \in Nat /\ End(i) <= Len(stream)
  BY <1>3
<1>5. End(i) = End(i - 1) + HeadSize(r) + r.body
  <2>1. HeadSize(r) \in Nat /\ r.body \in Nat /\ Len(Encode(i, r)) = HeadSize(r) + r.body
    BY <1>2
  <2>2. End(i) = End(i - 1) + Len(Encode(i, r))
    BY <1>3
  <2>. QED
    BY <1>4, <2>1, <2>2
<1>. QED
  <2>1. /\ HeadSize(r) \in 4 .. 12 /\ r.body \in Nat
        /\ \A j \in 1 .. HeadSize(r) + r.body : PieceAt(stream[End(i - 1) + j], i, r, j)
    <3>. HIDE DEF r
    <3>. QED
      BY <1>2, <1>3
  <2>. QED
    BY <1>1, <1>4, <1>5, <2>1

(* Every piece is of a request, and of a later one further on.             *)
LEMMA PieceForm ==
    ASSUME requests \in Seq(Shapes), Encoded, NEW p \in 1 .. Len(stream)
    PROVE  /\ stream[p] \in Pieces
           /\ stream[p].req \in 1 .. Len(requests)
           /\ \A q \in 1 .. Len(stream) : q <= p => stream[q].req <= stream[p].req
<1>1. /\ stream \in Seq(Pieces) /\ End(0) = 0 /\ End(Len(requests)) = Len(stream)
      /\ \A i \in 0 .. Len(requests) : End(i) \in 0 .. Len(stream)
      /\ \A i \in 0 .. Len(requests), q \in 1 .. Len(stream) : stream[q].req <= i <=> q <= End(i)
  BY StreamForm
<1>2. stream[p] \in Pieces
  BY <1>1
<1>3. stream[p].req \in Nat
  BY <1>2 DEF Pieces
<1>4. 0 \in 0 .. Len(requests) /\ Len(requests) \in 0 .. Len(requests) /\ Len(requests) \in Nat
  OBVIOUS
<1>5. ~(stream[p].req <= 0) /\ stream[p].req <= Len(requests)
  BY <1>1, <1>4
<1>6. stream[p].req \in 1 .. Len(requests) /\ stream[p].req \in 0 .. Len(requests)
  BY <1>3, <1>4, <1>5
<1>7. ASSUME NEW q \in 1 .. Len(stream), q <= p PROVE stream[q].req <= stream[p].req
  <2>1. p <= End(stream[p].req)
    BY <1>1, <1>3, <1>6
  <2>2. End(stream[p].req) \in Nat
    BY <1>1, <1>6
  <2>3. q <= End(stream[p].req)
    BY <1>7, <2>1, <2>2
  <2>. QED
    BY <1>1, <1>6, <2>3
<1>. QED
  BY <1>2, <1>6, <1>7

-----------------------------------------------------------------------------
(***************************************************************************)
(* parseRequest at the beginning of a request.                             *)
(***************************************************************************)

(* The rings and the stream are what they should be, whatever is in them.  *)
Sound ==
    /\ requests \in Seq(Shapes) /\ Encoded
    /\ parsed \in Nat /\ got \in Nat /\ parsed <= got /\ got <= Len(stream)

(* The data are a part of the stream.                                      *)
LEMMA DataForm ==
    ASSUME Sound
    PROVE  /\ Len(Data) = got - parsed /\ Len(Data) \in Nat /\ DOMAIN Data = 1 .. Len(Data)
           /\ \A k \in 1 .. Len(Data) : Data[k] = stream[parsed + k] /\ parsed + k \in 1 .. Len(stream)
<1>1. stream \in Seq(Pieces) /\ parsed \in Nat /\ got \in Nat /\ parsed <= got /\ got <= Len(stream)
  BY StreamForm DEF Sound
<1>. QED
  BY <1>1 DEF Data

(* The data begin with request i: they are as much of its pieces as has    *)
(* been received, or all of them and more.                                 *)
LEMMA DataOf ==
    ASSUME Sound, NEW i \in 1 .. Len(requests), parsed = End(i - 1)
    PROVE  \A k \in 1 .. Len(Data) :
              k <= HeadSize(requests[i]) + requests[i].body => PieceAt(Data[k], i, requests[i], k)
<1>. DEFINE r == requests[i]
            h == HeadSize(r)
<1>1. h \in 4 .. 12 /\ r.body \in Nat
      /\ \A j \in 1 .. h + r.body : PieceAt(stream[parsed + j], i, r, j)
  BY RequestForm DEF Sound
<1>2. \A k \in 1 .. Len(Data) : Data[k] = stream[parsed + k]
  BY DataForm
<1>3. h + r.body \in Nat /\ Len(Data) \in Nat
  BY <1>1, DataForm
<1>4. \A k \in 1 .. Len(Data) : k <= h + r.body => k \in 1 .. h + r.body
  <2>. DEFINE n == h + r.body
  <2>1. n \in Nat
    BY <1>3
  <2>. HIDE DEF n
  <2>2. \A k \in 1 .. Len(Data) : k <= n => k \in 1 .. n
    BY <1>3, <2>1
  <2>. QED
    BY <2>2 DEF n
<1>. HIDE DEF h
<1>5. \A k \in 1 .. Len(Data) : k <= h + r.body => PieceAt(Data[k], i, r, k)
  BY <1>1, <1>2, <1>4
<1>. QED
  BY <1>5 DEF h

(* The header loop stops at the blank line of the first request, or where  *)
(* the data end.                                                           *)
LEMMA HeadEndIs ==
    ASSUME Sound, NEW i \in 1 .. Len(requests), parsed = End(i - 1)
    PROVE  HeadEnd = IF Len(Data) >= HeadSize(requests[i]) THEN HeadSize(requests[i]) ELSE Len(Data)
<1>. DEFINE r == requests[i]
            h == HeadSize(r)
<1>1. h \in 4 .. 12 /\ r.body \in Nat /\ Len(Data) \in Nat /\ DOMAIN Data = 1 .. Len(Data)
  BY RequestForm, DataForm DEF Sound
<1>2. \A k \in 1 .. Len(Data) : k <= h => (Data[k].kind = "blank" <=> k = h)
  <2>1. ASSUME NEW k \in 1 .. Len(Data), k <= h PROVE Data[k].kind = "blank" <=> k = h
    <3>1. k <= h + r.body
      BY <1>1, <2>1, SMTT(30)
    <3>2. PieceAt(Data[k], i, r, k)
      BY <3>1, DataOf
    <3>. QED
      BY <3>2 DEF PieceAt
  <2>. QED
    BY <2>1
<1>3. Blanks = {k \in 1 .. Len(Data) : Data[k].kind = "blank"}
  BY <1>1 DEF Blanks
<1>. HIDE DEF h
<1>4. CASE Len(Data) >= h
  <2>1. h \in Blanks /\ Blanks \subseteq Nat /\ \A k \in Blanks : h <= k
    BY <1>1, <1>2, <1>3, <1>4
  <2>2. Min(Blanks) = h /\ Blanks # {}
    BY <2>1, MinIs
  <2>. QED
    BY <1>4, <2>2 DEF HeadEnd, h
<1>5. CASE ~(Len(Data) >= h)
  <2>1. Blanks = {}
    BY <1>1, <1>2, <1>3, <1>5
  <2>. QED
    BY <1>5, <2>1 DEF HeadEnd, h
<1>. QED
  BY <1>4, <1>5

(* What the headers say of which there is enough in the data.              *)
LEMMA HeadersSay ==
    ASSUME Sound, NEW i \in 1 .. Len(requests), parsed = End(i - 1)
    PROVE  /\ Says("close") <=> requests[i].close /\ Len(Data) >= 4 + Naming(requests[i])
           /\ Says("upgrade") <=> /\ requests[i].upgrade
                                  /\ Len(Data) >= 4 + Naming(requests[i]) + Closing(requests[i])
           /\ ContentLength = IF requests[i].body > 0 /\ Len(Data) >= HeadSize(requests[i]) - 2
                              THEN requests[i].body ELSE 0
<1>. DEFINE r == requests[i]
            h == HeadSize(r)
            a == Naming(r)
            c == Closing(r)
            m == HeadEnd
            D == Len(Data)
<1>1. h \in 4 .. 12 /\ r.body \in Nat /\ D \in Nat /\ r \in Shapes
  BY RequestForm, DataForm DEF Sound
<1>2. m = IF D >= h THEN h ELSE D
  BY HeadEndIs
<1>3. ASSUME NEW k \in 3 .. m PROVE PieceAt(Data[k], i, r, k) /\ k <= h
  <2>1. k \in 1 .. D /\ k <= h + r.body /\ k <= h
    BY <1>1, <1>2, SMTT(30)
  <2>. QED
    BY <2>1, DataOf
<1>4. /\ r.close => h >= 6 + a
      /\ r.upgrade => h >= 6 + a + c
      /\ r.body > 0 => h >= 6
      /\ a \in {0, 2} /\ c \in {0, 2}
  BY DEF HeadSize, Naming, Closing, Upgrading, Carrying
<1>5. \A kind : Says(kind) <=> \E k \in 3 .. m : Data[k].kind = kind
  BY DEF Says, Headers
<1>. HIDE DEF m, D, h, a, c
<1>6. Says("close") <=> r.close /\ D >= 4 + a
  <2>1. \A k \in 3 .. m : Data[k].kind = "close" <=> r.close /\ k = 4 + a
    BY <1>3 DEF PieceAt, a
  <2>2. r.close => (4 + a \in 3 .. m <=> D >= 4 + a)
    BY <1>1, <1>2, <1>4
  <2>. QED
    BY <1>5, <2>1, <2>2
<1>7. Says("upgrade") <=> r.upgrade /\ D >= 4 + a + c
  <2>1. \A k \in 3 .. m : Data[k].kind = "upgrade" <=> r.upgrade /\ k = 4 + a + c
    BY <1>3 DEF PieceAt, a, c
  <2>2. r.upgrade => (4 + a + c \in 3 .. m <=> D >= 4 + a + c)
    BY <1>1, <1>2, <1>4
  <2>. QED
    BY <1>5, <2>1, <2>2
<1>8. ContentLength = IF r.body > 0 /\ D >= h - 2 THEN r.body ELSE 0
  <2>1. Lengths = {k \in 3 .. m : Data[k].kind = "length"}
    BY DEF Lengths, m
  <2>2. \A k \in 3 .. m : Data[k].req = i /\ (Data[k].kind = "length" <=> r.body > 0 /\ k = h - 2)
    BY <1>3 DEF PieceAt, h
  <2>3. CASE r.body > 0 /\ D >= h - 2
    <3>1. h - 2 \in 3 .. m /\ h - 2 \in Nat
      BY <1>1, <1>2, <1>4, <2>3
    <3>2. Lengths = {h - 2}
      BY <2>1, <2>2, <2>3, <3>1
    <3>3. Max(Lengths) = h - 2
      <4>1. Lengths \subseteq Nat /\ h - 2 \in Lengths /\ \A y \in Lengths : h - 2 >= y
        BY <3>1, <3>2
      <4>. QED
        BY <4>1, MaxIs
    <3>. QED
      BY <2>2, <2>3, <3>1, <3>2, <3>3 DEF ContentLength
  <2>4. CASE ~(r.body > 0 /\ D >= h - 2)
    <3>1. \A k \in 3 .. m : ~(Data[k].kind = "length")
      BY <1>1, <1>2, <2>2, <2>4
    <3>2. Lengths = {}
      BY <2>1, <3>1
    <3>. QED
      BY <2>4, <3>2 DEF ContentLength
  <2>. QED
    BY <2>3, <2>4
<1>. QED
  BY <1>6, <1>7, <1>8 DEF D, h, a, c

(* What is taken for a whole request: a whole request, or what there is of *)
(* a head when the data end behind a header line.                          *)
LEMMA WholeForm ==
    ASSUME Sound, NEW i \in 1 .. Len(requests), parsed = End(i - 1), HasLine, MaxBody \in Nat
    PROVE  /\ Len(Data) >= HeadSize(requests[i]) =>
                 /\ Consumed = HeadSize(requests[i]) + requests[i].body
                 /\ ContentLength = requests[i].body
                 /\ Whole <=> /\ requests[i].body <= MaxBody
                              /\ Len(Data) >= HeadSize(requests[i]) + requests[i].body
           /\ Len(Data) < HeadSize(requests[i]) /\ Whole =>
                 /\ Consumed = Len(Data)
                 /\ stream[got].kind \in LineEnds \ {"blank"}
                 /\ got < End(i)
<1>. DEFINE r == requests[i]
            h == HeadSize(r)
            D == Len(Data)
            L == ContentLength
<1>1. h \in 4 .. 12 /\ r.body \in Nat /\ D \in Nat /\ D >= 2
      /\ parsed \in Nat /\ got \in Nat /\ parsed + D = got
  <2>1. h \in 4 .. 12 /\ r.body \in Nat
    BY RequestForm DEF Sound
  <2>2. D \in Nat /\ D = got - parsed /\ D >= 2
    BY DataForm DEF HasLine
  <2>3. parsed \in Nat /\ got \in Nat
    BY DEF Sound
  <2>4. parsed + D = got
    BY <2>2, <2>3
  <2>. QED
    BY <2>1, <2>2, <2>3, <2>4
<1>2. HeadEnd = IF D >= h THEN h ELSE D
  BY HeadEndIs
<1>3. L = IF r.body > 0 /\ D >= h - 2 THEN r.body ELSE 0
  BY HeadersSay
<1>4. \A k \in 1 .. D : k <= h + r.body => PieceAt(Data[k], i, r, k)
  BY DataOf
<1>5. Whole <=> Data[HeadEnd].kind \in LineEnds /\ L <= MaxBody /\ D >= HeadEnd + L
  BY DEF Whole
<1>6. Consumed = HeadEnd + L
  BY DEF Consumed
<1>8. \A j \in 1 .. h + r.body : PieceAt(stream[parsed + j], i, r, j)
  BY RequestForm DEF Sound
<1>9. End(i) = parsed + h + r.body
  BY RequestForm DEF Sound
<1>10. Data[D] = stream[got]
  <2>1. D \in 1 .. D
    BY <1>1
  <2>2. Data[D] = stream[parsed + D]
    BY <2>1, DataForm
  <2>. QED
    BY <1>1, <2>2
<1>. HIDE DEF h, D, L
<1>11. CASE D >= h
  <2>1. HeadEnd = h /\ L = r.body
    BY <1>1, <1>2, <1>3, <1>11
  <2>2. Data[h].kind = "blank"
    <3>1. h \in 1 .. D /\ h <= h + r.body
      BY <1>1, <1>11
    <3>2. PieceAt(Data[h], i, r, h)
      BY <1>4, <3>1
    <3>. QED
      BY <3>2 DEF PieceAt, h
  <2>3. Whole <=> r.body <= MaxBody /\ D >= h + r.body
    BY <1>5, <2>1, <2>2 DEF LineEnds
  <2>4. Consumed = h + r.body
    BY <1>6, <2>1
  <2>6. ~(D < h)
    BY <1>1, <1>11
  <2>. QED
    BY <2>1, <2>3, <2>4, <2>6 DEF h, D, L
<1>12. CASE ~(D >= h)
  <2>1. HeadEnd = D /\ D < h
    BY <1>1, <1>2, <1>12
  <2>2. SUFFICES ASSUME Whole
                 PROVE  /\ Consumed = D
                        /\ stream[got].kind \in LineEnds \ {"blank"}
                        /\ got < End(i)
    BY <1>1, <1>12 DEF h, D
  <2>3. L = 0
    <3>1. L \in Nat
      BY <1>1, <1>3
    <3>2. D >= D + L
      BY <1>5, <2>1, <2>2
    <3>. QED
      BY <1>1, <3>1, <3>2
  <2>4. Consumed = D
    BY <1>1, <1>6, <2>1, <2>3
  <2>5. stream[got].kind \in LineEnds
    BY <1>5, <1>10, <2>1, <2>2
  <2>6. PieceAt(stream[got], i, r, D)
    <3>1. D \in 1 .. h + r.body
      <4>1. h + r.body \in Nat /\ D <= h + r.body
        <5>. DEFINE x == r.body
        <5>1. h \in 4 .. 12 /\ x \in Nat /\ D \in Nat /\ D < h
          BY <1>1, <2>1
        <5>. HIDE DEF h, x, D
        <5>2. h + x \in Nat /\ D <= h + x
          BY <5>1
        <5>. QED
          BY <5>2 DEF x
      <4>. QED
        BY <1>1, <4>1
    <3>. QED
      BY <1>1, <1>8, <3>1
  <2>7. stream[got].kind # "blank"
    BY <1>1, <2>1, <2>6 DEF PieceAt, h
  <2>8. got < End(i)
    <3>. DEFINE x == r.body
    <3>1. h \in 4 .. 12 /\ x \in Nat /\ D \in Nat /\ D < h /\ parsed \in Nat /\ got = parsed + D
      BY <1>1, <2>1
    <3>2. End(i) = parsed + h + x
      BY <1>9
    <3>. HIDE DEF h, x, D
    <3>. QED
      BY <3>1, <3>2
  <2>. QED
    BY <2>4, <2>5, <2>7, <2>8
<1>. QED
  BY <1>11, <1>12

(* Wherever the data begin, no more is consumed than there is.             *)
LEMMA ConsumedForm ==
    ASSUME Sound, HasLine, Whole
    PROVE  /\ Consumed \in 1 .. Len(Data)
           /\ Data[2].req \in 1 .. Len(requests)
<1>1. /\ Len(Data) \in Nat /\ Len(Data) >= 2 /\ DOMAIN Data = 1 .. Len(Data)
      /\ \A k \in 1 .. Len(Data) : Data[k] = stream[parsed + k] /\ parsed + k \in 1 .. Len(stream)
  BY DataForm DEF HasLine
<1>2. \A k \in 1 .. Len(Data) : Data[k].req \in 1 .. Len(requests)
  BY <1>1, PieceForm DEF Sound
<1>3. HeadEnd \in 1 .. Len(Data)
  <2>1. CASE Blanks = {}
    BY <1>1, <2>1 DEF HeadEnd
  <2>2. CASE Blanks # {}
    <3>1. Blanks \subseteq 1 .. Len(Data) /\ Blanks \subseteq Nat
      BY <1>1 DEF Blanks
    <3>2. Min(Blanks) \in Blanks
      BY <2>2, <3>1, MinIn
    <3>. QED
      BY <2>2, <3>1, <3>2 DEF HeadEnd
  <2>. QED
    BY <2>1, <2>2
<1>4. ContentLength \in Nat
  <2>1. CASE Lengths = {}
    BY <2>1 DEF ContentLength
  <2>2. CASE Lengths # {}
    <3>1. Lengths \subseteq 0 .. Len(Data) /\ Lengths \subseteq 1 .. Len(Data)
      BY <1>1, <1>3 DEF Lengths
    <3>2. Max(Lengths) \in Lengths
      BY <1>1, <2>2, <3>1, MaxIn
    <3>3. Data[Max(Lengths)].req \in 1 .. Len(requests)
      BY <1>2, <3>1, <3>2
    <3>4. requests[Data[Max(Lengths)].req] \in Shapes
      BY <3>3 DEF Sound
    <3>. QED
      BY <2>2, <3>4 DEF ContentLength, Shapes
  <2>. QED
    BY <2>1, <2>2
<1>5. Len(Data) >= HeadEnd + ContentLength
  BY DEF Whole
<1>6. Consumed \in 1 .. Len(Data)
  BY <1>1, <1>3, <1>4, <1>5 DEF Consumed
<1>. QED
  BY <1>1, <1>2, <1>6

-----------------------------------------------------------------------------
(***************************************************************************)
(* The invariant of every client's connection.                             *)
(***************************************************************************)

(* What the type invariant says of the client, the rings and the constants.*)
LEMMA Typed ==
    ASSUME TypeOK, Encoded
    PROVE  /\ Sound /\ Len(requests) \in Nat /\ Len(stream) \in Nat
           /\ arrived \in Nat /\ got <= arrived /\ arrived <= Len(stream)
           /\ MaxBody \in Nat /\ ReadRoom \in Nat \ {0} /\ WriteRoom \in Nat \ {0}
           /\ SendRoom \in Nat \ {0}
           /\ served \in Seq(1 .. Len(requests)) /\ Len(served) \in Nat
           /\ taken \in Nat /\ taken <= Len(wire)
<1>1. requests \in Seq(Shapes)
  BY HttpAssumption DEF TypeOK
<1>2. /\ parsed \in Nat /\ got \in Nat /\ arrived \in Nat
      /\ parsed <= got /\ got <= arrived /\ arrived <= Len(stream)
  BY DEF TypeOK
<1>3. stream \in Seq(Pieces)
  BY <1>1, StreamForm
<1>4. Len(stream) \in Nat /\ Len(requests) \in Nat
  BY <1>1, <1>3
<1>5. got <= Len(stream)
  BY <1>2, <1>4
<1>6. MaxBody \in Nat /\ ReadRoom \in Nat \ {0} /\ WriteRoom \in Nat \ {0} /\ SendRoom \in Nat \ {0}
  BY HttpAssumption
<1>7. served \in Seq(1 .. Len(requests)) /\ Len(served) \in Nat
  BY DEF TypeOK
<1>8. taken \in Nat /\ taken <= Len(wire)
  BY DEF TypeOK
<1>. QED
  BY <1>1, <1>2, <1>4, <1>5, <1>6, <1>7, <1>8 DEF Sound

(* An answer has a head and a body.                                        *)
LEMMA ResponseForm ==
    ASSUME NEW to \in 1 .. Len(requests), NEW shown \in 0 .. Len(requests), NEW close \in BOOLEAN
    PROVE  /\ Response(to, shown, close) \in Seq(Answers)
           /\ Len(Response(to, shown, close)) = 2
           /\ \A part \in 1 .. 2 : Response(to, shown, close)[part].to = to
<1>1. /\ Response(to, shown, close) \in [1 .. 2 -> Answers]
      /\ \A part \in 1 .. 2 : Response(to, shown, close)[part].to = to
  <2>. DEFINE head == HeadLines(close)
  <2>1. head \in {HeadLines(TRUE), HeadLines(FALSE)}
    <3>1. close = TRUE \/ close = FALSE
      OBVIOUS
    <3>. QED
      BY <3>1, Zenon
  <2>2. Response(to, shown, close) =
          [part \in 1 .. 2 |-> [to |-> to, body |-> shown, head |-> head, part |-> part]]
    BY DEF Response
  <2>. HIDE DEF head
  <2>. DEFINE piece(part) == [to |-> to, body |-> shown, head |-> head, part |-> part]
  <2>3. ASSUME NEW part \in 1 .. 2 PROVE piece(part) \in Answers /\ piece(part).to = to
    BY <2>1 DEF Answers
  <2>4. Response(to, shown, close) = [part \in 1 .. 2 |-> piece(part)]
    BY <2>2
  <2>. HIDE DEF piece
  <2>. QED
    BY <2>3, <2>4
<1>. DEFINE a == Response(to, shown, close)
<1>. HIDE DEF a
<1>2. a \in [1 .. 2 -> Answers]
  BY <1>1 DEF a
<1>3. a \in Seq(Answers) /\ Len(a) = 2
  BY <1>2, FunctionForm
<1>. QED
  BY <1>1, <1>3 DEF a

(* writeAll keeps what fits.                                               *)
LEMMA WrittenForm ==
    ASSUME NEW T, out \in Seq(T), NEW a \in Seq(T), WriteRoom \in Nat
    PROVE  /\ Written(a) \in Seq(T) /\ Len(Written(a)) <= WriteRoom
           /\ out = << >> => Written(a) = SubSeq(a, 1, IF Len(a) < WriteRoom THEN Len(a) ELSE WriteRoom)
<1>. DEFINE all == out \o a
            n == IF Len(all) < WriteRoom THEN Len(all) ELSE WriteRoom
<1>1. all \in Seq(T) /\ Len(all) \in Nat
  BY ConcatForm
<1>2. Written(a) = SubSeq(all, 1, n)
  BY DEF Written
<1>3. out = << >> => all = a
  OBVIOUS
<1>4. n \in Nat /\ n <= Len(all) /\ n <= WriteRoom
  BY <1>1
<1>. HIDE DEF all, n
<1>5. SubSeq(all, 1, n) \in Seq(T) /\ Len(SubSeq(all, 1, n)) = n
  BY <1>1, <1>4
<1>6. out = << >> => n = IF Len(a) < WriteRoom THEN Len(a) ELSE WriteRoom
  BY <1>3 DEF n
<1>. QED
  BY <1>2, <1>3, <1>4, <1>5, <1>6

(* A send takes the front of the ring to the end of the wire, as much as   *)
(* the socket takes.                                                       *)
LEMMA WriteEffect ==
    ASSUME TypeOK, Encoded, RingInv, NEW next, NEW blocked, WriteReady(next, blocked)
    PROVE  \/ out = << >> /\ pc' = next /\ UNCHANGED <<out, wire, open, reqVars>>
           \/ out # << >> /\ client = "gone" /\ CloseSocket /\ UNCHANGED <<out, wire, reqVars>>
           \/ /\ out # << >> /\ client # "gone"
              /\ out' \in Seq(Answers) /\ wire' \in Seq(Answers) /\ wire' \o out' = wire \o out
              /\ Len(out') <= Len(out) /\ Len(wire) <= Len(wire') /\ Len(wire') - taken <= SendRoom
              /\ out' # << >> => Last(out') = Last(out)
              /\ \/ out' # << >> /\ pc' = blocked /\ UNCHANGED <<open, reqVars>>
                 \/ out' = << >> /\ Kept /\ pc' = next /\ Reset /\ UNCHANGED open
                 \/ /\ out' = << >> /\ ~Kept /\ CloseSocket /\ UNCHANGED reqVars
                    /\ wire' # << >> /\ Last(wire') = Last(out)
<1>1. CASE out = << >> /\ pc' = next /\ UNCHANGED <<out, wire, open, reqVars>>
  BY <1>1
<1>2. CASE out # << >> /\ client = "gone" /\ CloseSocket /\ UNCHANGED <<out, wire, reqVars>>
  BY <1>2
<1>3. CASE /\ out # << >> /\ client # "gone"
           /\ wire' = wire \o SubSeq(out, 1, Sent)
           /\ out' = SubSeq(out, Sent + 1, Len(out))
           /\ IF out' # << >> THEN pc' = blocked /\ UNCHANGED <<open, reqVars>>
              ELSE IF Kept THEN pc' = next /\ Reset /\ UNCHANGED open
              ELSE CloseSocket /\ UNCHANGED reqVars
  <2>1. /\ out \in Seq(Answers) /\ wire \in Seq(Answers) /\ Len(out) \in Nat /\ Len(wire) \in Nat
        /\ taken \in Nat /\ taken <= Len(wire) /\ SendRoom \in Nat /\ Len(wire) - taken <= SendRoom
        /\ Len(out) > 0
    <3>1. out \in Seq(Answers) /\ wire \in Seq(Answers) /\ out # << >>
      BY <1>3 DEF RingInv
    <3>2. Len(out) \in Nat /\ Len(wire) \in Nat /\ Len(out) > 0
      BY <3>1
    <3>3. taken \in Nat /\ taken <= Len(wire) /\ SendRoom \in Nat
      BY Typed
    <3>4. Len(wire) - taken <= SendRoom
      BY DEF TypeOK
    <3>. QED
      BY <3>1, <3>2, <3>3, <3>4
  <2>2. Sent \in 0 .. Len(out) /\ Sent <= SendRoom - (Len(wire) - taken)
    <3>. DEFINE room == SendRoom - (Len(wire) - taken)
    <3>1. room \in Nat
      BY <2>1
    <3>2. Sent = IF Len(out) < room THEN Len(out) ELSE room
      BY DEF Sent
    <3>. HIDE DEF room
    <3>3. Sent \in 0 .. Len(out) /\ Sent <= room
      BY <2>1, <3>1, <3>2
    <3>. QED
      BY <3>3 DEF room
  <2>9. PICK a \in Seq(Answers), b \in Seq(Answers) : IsCut(Answers, wire, out, Sent, a, b)
    <3>1. out \in Seq(Answers) /\ wire \in Seq(Answers) /\ Sent \in 0 .. Len(out)
      BY <2>1, <2>2
    <3>. QED
      BY <3>1, CutForm
  <2>3. /\ a = SubSeq(out, 1, Sent) /\ b = SubSeq(out, Sent + 1, Len(out)) /\ a \o b = out
        /\ Len(a) = Sent /\ Len(b) = Len(out) - Sent
        /\ b # << >> => b[Len(b)] = out[Len(out)]
        /\ b = << >> => a = out
        /\ wire \o a \in Seq(Answers) /\ Len(wire \o a) = Len(wire) + Sent
        /\ (wire \o a) \o b = wire \o out
    BY <2>9 DEF IsCut
  <2>4. wire' = wire \o a /\ out' = b
    BY <1>3, <2>3
  <2>5. wire' \in Seq(Answers) /\ Len(wire') = Len(wire) + Sent /\ wire' \o out' = wire \o out
    BY <2>3, <2>4
  <2>6. Len(out') <= Len(out) /\ Len(wire) <= Len(wire') /\ Len(wire') - taken <= SendRoom
    BY <2>1, <2>2, <2>3, <2>4, <2>5
  <2>8. out' # << >> => Last(out') = Last(out)
    BY <2>3, <2>4 DEF Last
  <2>7. out' = << >> => wire' # << >> /\ Last(wire') = Last(out)
    <3>1. SUFFICES ASSUME out' = << >> PROVE wire' # << >> /\ Last(wire') = Last(out)
      OBVIOUS
    <3>2. wire' = wire \o out
      BY <2>3, <2>4, <3>1
    <3>3. Len(wire \o out) > 0 /\ (wire \o out)[Len(wire \o out)] = out[Len(out)]
      BY <2>1
    <3>. QED
      BY <3>2, <3>3 DEF Last
  <2>. QED
    BY <1>3, <2>3, <2>4, <2>5, <2>6, <2>7, <2>8
<1>. QED
  BY <1>1, <1>2, <1>3 DEF WriteReady

(* What may be said of the pieces of both rings.                           *)
LEMMA RingTyped ==
    ASSUME NEW T, NEW s \in Seq(T), NEW t \in Seq(T)
    PROVE  \A p \in ToSet(s \o t) : p \in T
<1>1. /\ s \o t \in Seq(T) /\ Len(s \o t) = Len(s) + Len(t)
  BY ConcatForm
<1>2. ToSet(s \o t) = {(s \o t)[i] : i \in DOMAIN (s \o t)}
  BY DEF ToSet
<1>. DEFINE u == s \o t
<1>3. u \in Seq(T) /\ ToSet(u) = {u[i] : i \in DOMAIN u}
  BY <1>1, <1>2
<1>. HIDE DEF u
<1>4. \A p \in ToSet(u) : p \in T
  BY <1>3
<1>. QED
  BY <1>4 DEF u

(* A call of parseRequest that takes a request takes one of the client's,  *)
(* and no more than there is.                                              *)
LEMMA SomeRequest ==
    ASSUME IInv, ParseWhole
    PROVE  cur' \in 1 .. Len(requests) /\ parsed' \in 1 .. got
<1>1. Sound /\ parsed \in Nat /\ got \in Nat
  BY Typed DEF IInv, Sound
<1>2. HasLine /\ Whole /\ cur' = Data[2].req /\ parsed' = parsed + Consumed
  BY DEF ParseWhole, ParseHead
<1>3. Consumed \in 1 .. Len(Data) /\ Data[2].req \in 1 .. Len(requests)
  BY <1>1, <1>2, ConsumedForm
<1>4. Len(Data) = got - parsed
  BY <1>1, DataForm
<1>. QED
  BY <1>1, <1>2, <1>3, <1>4

(* Until it takes a part for the whole it takes the next.                  *)
LEMMA NextRequest ==
    ASSUME IInv, ParseWhole, ~torn'
    PROVE  /\ parsed = End(Len(served)) /\ Len(served) + 1 \in 1 .. Len(requests)
           /\ cur' = Len(served) + 1
           /\ parsed' = End(Len(served) + 1)
<1>. DEFINE n == Len(served)
            i == n + 1
<1>1. /\ Sound /\ Len(requests) \in Nat /\ Len(stream) \in Nat /\ MaxBody \in Nat /\ n \in Nat
      /\ parsed \in Nat /\ got \in Nat /\ parsed <= got /\ got <= Len(stream)
  BY Typed DEF IInv, Sound
<1>2. pc = "parse" /\ HasLine /\ Whole /\ cur' = Data[2].req /\ parsed' = parsed + Consumed
      /\ ~torn /\ ~(got < End(cur'))
  BY DEF ParseWhole, ParseHead
<1>3. Len(Data) >= 2 /\ Len(Data) \in Nat /\ Len(Data) = got - parsed
      /\ Data[2] = stream[parsed + 2] /\ parsed + 2 \in 1 .. Len(stream)
  <2>1. Len(Data) >= 2 /\ Len(Data) \in Nat /\ Len(Data) = got - parsed
    BY <1>1, <1>2, DataForm DEF HasLine
  <2>2. 2 \in 1 .. Len(Data)
    BY <2>1
  <2>. QED
    BY <1>1, <2>1, <2>2, DataForm
<1>4. n \in 0 .. Len(requests) /\ parsed = End(n)
  <2>1. pc # "handle"
    BY <1>2
  <2>2. Count = n + 0
    BY <2>1 DEF Count
  <2>. QED
    BY <1>1, <1>2, <2>2 DEF IInv, OrderInv, Placed
<1>5. i \in 1 .. Len(requests)
  <2>1. End(Len(requests)) = Len(stream)
    BY <1>1, StreamForm DEF Sound
  <2>2. n # Len(requests)
    BY <1>1, <1>3, <1>4, <2>1
  <2>. QED
    BY <1>1, <1>4, <2>2
<1>6. i - 1 = n /\ parsed = End(i - 1)
  BY <1>1, <1>4
<1>. HIDE DEF i
<1>7. PieceAt(Data[2], i, requests[i], 2) /\ requests[i].body \in Nat /\ HeadSize(requests[i]) \in 4 .. 12
      /\ End(i) = End(i - 1) + HeadSize(requests[i]) + requests[i].body
  <2>1. requests[i].body \in Nat /\ HeadSize(requests[i]) \in 4 .. 12
        /\ End(i) = End(i - 1) + HeadSize(requests[i]) + requests[i].body
    BY <1>1, <1>5, RequestForm DEF Sound
  <2>2. 2 \in 1 .. Len(Data) /\ 2 <= HeadSize(requests[i]) + requests[i].body
    BY <1>3, <2>1
  <2>. QED
    BY <1>1, <1>5, <1>6, <2>1, <2>2, DataOf
<1>8. cur' = i
  BY <1>2, <1>7 DEF PieceAt
<1>9. /\ Len(Data) >= HeadSize(requests[i]) => Consumed = HeadSize(requests[i]) + requests[i].body
      /\ Len(Data) < HeadSize(requests[i]) /\ Whole => got < End(i)
  BY <1>1, <1>2, <1>5, <1>6, WholeForm
<1>10. Len(Data) >= HeadSize(requests[i])
  BY <1>2, <1>3, <1>7, <1>8, <1>9
<1>11. parsed' = End(i)
  <2>. DEFINE h == HeadSize(requests[i])
              x == requests[i].body
  <2>1. parsed' = parsed + (h + x)
    BY <1>2, <1>9, <1>10
  <2>2. End(i) = parsed + h + x
    BY <1>6, <1>7
  <2>3. h \in 4 .. 12 /\ x \in Nat /\ parsed \in Nat
    BY <1>1, <1>7
  <2>. HIDE DEF h, x
  <2>4. parsed + (h + x) = parsed + h + x
    BY <2>3
  <2>. QED
    BY <2>1, <2>2, <2>4
<1>. QED
  BY <1>4, <1>5, <1>8, <1>11 DEF i

(* The request that is handled is the one that was taken, and its answer   *)
(* is an answer.                                                           *)
LEMMA HandleEffect ==
    ASSUME IInv, HandleRequest
    PROVE  /\ ~torn => cur = Len(served) + 1
           /\ cur \in 1 .. Len(requests)
           /\ out' \in Seq(Answers) /\ Len(out') <= WriteRoom
           /\ keepAlive' \in BOOLEAN
<1>1. TypeOK /\ RingInv /\ OrderInv /\ pc = "handle" /\ (Reply \/ ReplyError \/ ReplyUpgrade)
  BY DEF IInv, HandleRequest
<1>2. Len(served) \in Nat /\ Len(requests) \in Nat /\ WriteRoom \in Nat
  BY Typed DEF IInv
<1>3. (~torn => cur = Len(served) + 1) /\ cur \in 1 .. Len(requests)
  <2>1. Count = Len(served) + 1 /\ (~torn => cur = Count) /\ cur # 0
    BY <1>1 DEF Count, OrderInv, Placed
  <2>. QED
    BY <1>1, <1>2, <2>1 DEF TypeOK
<1>4. out \in Seq(Answers) /\ Len(out) <= WriteRoom /\ keepAlive \in BOOLEAN
      /\ body \in 0 .. Len(requests)
  BY <1>1 DEF TypeOK, RingInv
<1>5. ASSUME NEW shown \in 0 .. Len(requests), NEW close \in BOOLEAN
      PROVE  Written(Response(cur, shown, close)) \in Seq(Answers)
             /\ Len(Written(Response(cur, shown, close))) <= WriteRoom
  <2>1. Response(cur, shown, close) \in Seq(Answers)
    BY <1>3, <1>5, ResponseForm
  <2>. QED
    BY <1>2, <1>4, <2>1, WrittenForm
<1>6. 0 \in 0 .. Len(requests) /\ TRUE \in BOOLEAN /\ (~keepAlive) \in BOOLEAN
  BY <1>2, <1>4
<1>7. CASE Reply
  <2>1. PICK shown \in {0, body} : out' = Written(Response(cur, shown, ~keepAlive))
    BY <1>7 DEF Reply, Answer
  <2>2. shown \in 0 .. Len(requests) /\ keepAlive' = keepAlive
    BY <1>4, <1>6, <1>7 DEF Reply
  <2>. QED
    BY <1>3, <1>4, <1>5, <1>6, <2>1, <2>2
<1>8. CASE ReplyError
  BY <1>3, <1>5, <1>6, <1>8 DEF ReplyError, Answer
<1>9. CASE ReplyUpgrade
  BY <1>3, <1>4, <1>5, <1>6, <1>9 DEF ReplyUpgrade, Answer
<1>. QED
  BY <1>1, <1>7, <1>8, <1>9

(* The invariant holds when the session has been constructed.              *)
LEMMA Initially == Init => IInv
<1>. SUFFICES ASSUME Init PROVE IInv
  OBVIOUS
<1>1. requests \in Streams /\ requests \in Seq(Shapes) /\ ReadRoom \in Nat /\ WriteRoom \in Nat /\ SendRoom \in Nat
  BY HttpAssumption DEF Init
<1>2. Encoded
  BY DEF Init, Encoded, Parts
<1>3. stream \in Seq(Pieces) /\ End(0) = 0
  BY <1>1, <1>2, StreamForm
<1>4. Len(stream) \in Nat /\ Len(requests) \in Nat
  BY <1>1, <1>3
<1>5. RingInv
  <2>1. out = << >> /\ wire = << >>
    BY DEF Init
  <2>. QED
    BY <2>1 DEF RingInv
<1>6. OrderInv
  <2>1. served = << >> /\ pc = "idle" /\ parsed = 0 /\ torn = FALSE
    BY DEF Init
  <2>2. Count = 0
    BY <2>1 DEF Count
  <2>3. InOrder
    BY <2>1 DEF InOrder
  <2>. QED
    BY <1>3, <1>4, <2>1, <2>2, <2>3 DEF OrderInv, Placed
<1>7. TypeOK
  <2>1. \A p \in ToSet(out \o wire) : p \in Answers
    BY <1>5, RingTyped DEF RingInv
  <2>2. served \in Seq(1 .. Len(requests)) /\ Len(out) = 0 /\ Len(wire) = 0
    BY DEF Init
  <2>3. Len(out) <= WriteRoom /\ taken \in 0 .. Len(wire) /\ Len(wire) - taken <= SendRoom
    BY <1>1, <2>2 DEF Init
  <2>4. /\ parsed \in 0 .. got /\ got \in 0 .. arrived /\ arrived \in 0 .. Len(stream)
        /\ got - parsed <= ReadRoom /\ cur \in 0 .. Len(requests) /\ body \in 0 .. Len(requests)
    BY <1>1, <1>4 DEF Init
  <2>5. /\ requests \in Streams /\ patient \in BOOLEAN /\ client \in {"sending", "ended", "gone"}
        /\ upgrade \in BOOLEAN /\ keepAlive \in BOOLEAN /\ open \in BOOLEAN /\ edge \in BOOLEAN
        /\ evOut \in BOOLEAN /\ torn \in BOOLEAN /\ path \in Routes
        /\ pc \in {"idle", "recv", "parse", "handle", "flush", "write", "crashed"}
    BY DEF Init, Routes
  <2>. QED
    BY <2>1, <2>2, <2>3, <2>4, <2>5 DEF TypeOK, Answers
<1>. QED
  BY <1>2, <1>5, <1>6, <1>7 DEF IInv

(* What the client sends is settled.                                       *)
LEMMA SettledStep ==
    ASSUME [Next]_vars
    PROVE  requests' = requests /\ stream' = stream /\ patient' = patient
  BY DEF Next, Worker, EpollWait, RecvFull, RecvData, RecvEnd, RecvEmpty, ParseWhole, ParsePart,
         ParseFault, HandleRequest, Flush, HandleOut, ClientSend, ClientRead, ClientEnd, vars, clientVars

(* Both rings keep their types and their rooms.                            *)
LEMMA RingStep ==
    ASSUME IInv, [Next]_vars
    PROVE  /\ RingInv' /\ Len(out') <= WriteRoom
           /\ taken' \in 0 .. Len(wire') /\ Len(wire') - taken' <= SendRoom
<1>1. /\ out \in Seq(Answers) /\ wire \in Seq(Answers) /\ Len(out) <= WriteRoom
      /\ taken \in 0 .. Len(wire) /\ Len(wire) - taken <= SendRoom
      /\ taken \in Nat /\ Len(out) \in Nat /\ Len(wire) \in Nat
  BY DEF IInv, RingInv, TypeOK
<1>2. Answers' = Answers
  BY SettledStep DEF Answers
<1>3. WriteRoom \in Nat /\ SendRoom \in Nat
  BY Typed DEF IInv
<1>4. SUFFICES /\ out' \in Seq(Answers) /\ wire' \in Seq(Answers) /\ Len(out') <= WriteRoom
               /\ taken' \in 0 .. Len(wire') /\ Len(wire') - taken' <= SendRoom
  BY <1>2 DEF RingInv
<1>5. CASE HandleRequest
  <2>1. out' \in Seq(Answers) /\ Len(out') <= WriteRoom /\ wire' = wire /\ taken' = taken
    BY <1>5, HandleEffect DEF HandleRequest, clientVars
  <2>. QED
    BY <1>1, <2>1
<1>6. ASSUME NEW next, NEW blocked, WriteReady(next, blocked), taken' = taken
      PROVE  /\ out' \in Seq(Answers) /\ wire' \in Seq(Answers) /\ Len(out') <= WriteRoom
             /\ taken' \in 0 .. Len(wire') /\ Len(wire') - taken' <= SendRoom
  <2>1. \/ out' = out /\ wire' = wire
        \/ /\ out' \in Seq(Answers) /\ wire' \in Seq(Answers)
           /\ Len(out') <= Len(out) /\ Len(wire) <= Len(wire') /\ Len(wire') - taken <= SendRoom
    BY <1>6, WriteEffect DEF IInv
  <2>2. CASE out' = out /\ wire' = wire
    BY <1>1, <1>6, <2>2
  <2>3. CASE /\ out' \in Seq(Answers) /\ wire' \in Seq(Answers)
             /\ Len(out') <= Len(out) /\ Len(wire) <= Len(wire') /\ Len(wire') - taken <= SendRoom
    <3>1. Len(out') \in Nat /\ Len(wire') \in Nat
      BY <2>3
    <3>. QED
      BY <1>1, <1>3, <1>6, <2>3, <3>1
  <2>. QED
    BY <2>1, <2>2, <2>3
<1>7. CASE Flush
  <2>1. WriteReady("recv", AfterRead) /\ taken' = taken
    BY <1>7 DEF Flush, clientVars
  <2>. QED
    BY <1>6, <2>1
<1>8. CASE HandleOut
  <2>1. WriteReady("idle", "idle") /\ taken' = taken
    BY <1>8 DEF HandleOut, clientVars
  <2>. QED
    BY <1>6, <2>1
<1>9. CASE ClientRead
  <2>1. out' = out /\ wire' = wire /\ taken < Len(wire) /\ taken' = taken + 1
    BY <1>9 DEF ClientRead
  <2>. QED
    BY <1>1, <1>3, <2>1
<1>10. CASE ~(HandleRequest \/ Flush \/ HandleOut \/ ClientRead)
  <2>1. out' = out /\ wire' = wire /\ taken' = taken
    BY <1>10 DEF Next, Worker, EpollWait, RecvFull, RecvData, RecvEnd, RecvEmpty, ParseWhole,
                 ParsePart, ParseFault, ClientSend, ClientEnd, vars, clientVars
  <2>. QED
    BY <1>1, <2>1
<1>. QED
  BY <1>5, <1>7, <1>8, <1>9, <1>10

(* The client's and the receiving side keep their types.                   *)
LEMMA InputStep ==
    ASSUME IInv, [Next]_vars
    PROVE  /\ client' \in {"sending", "ended", "gone"}
           /\ parsed' \in 0 .. got' /\ got' \in 0 .. arrived' /\ arrived' \in 0 .. Len(stream)
           /\ got' - parsed' <= ReadRoom
<1>1. /\ client \in {"sending", "ended", "gone"}
      /\ parsed \in 0 .. got /\ got \in 0 .. arrived /\ arrived \in 0 .. Len(stream)
      /\ got - parsed <= ReadRoom
      /\ parsed \in Nat /\ got \in Nat /\ arrived \in Nat /\ Len(stream) \in Nat
      /\ ReadRoom \in Nat
  <2>1. /\ client \in {"sending", "ended", "gone"}
        /\ parsed \in 0 .. got /\ got \in 0 .. arrived /\ arrived \in 0 .. Len(stream)
        /\ got - parsed <= ReadRoom
    BY DEF IInv, TypeOK
  <2>2. /\ parsed \in Nat /\ got \in Nat /\ arrived \in Nat /\ Len(stream) \in Nat
        /\ ReadRoom \in Nat
    BY Typed DEF IInv, Sound
  <2>. QED
    BY <2>1, <2>2
<1>2. CASE RecvData
  <2>1. parsed' = parsed /\ arrived' = arrived /\ client' = client /\ RecvRoom > 0 /\ got < arrived
        /\ got' = (IF arrived - got < RecvRoom THEN arrived ELSE got + RecvRoom)
        /\ RecvRoom = ReadRoom - (got - parsed)
    BY <1>2 DEF RecvData, clientVars, RecvRoom
  <2>. QED
    BY <1>1, <2>1
<1>3. CASE ParseWhole
  <2>1. parsed' \in 1 .. got /\ parsed' = parsed + Consumed
    BY <1>3, SomeRequest DEF ParseWhole
  <2>2. got' = got /\ arrived' = arrived /\ client' = client
    BY <1>3 DEF ParseWhole, clientVars
  <2>3. Consumed \in Nat
    <3>1. Consumed \in 1 .. Len(Data) /\ Len(Data) \in Nat
      BY <1>3, Typed, ConsumedForm, DataForm DEF IInv, ParseWhole
    <3>. QED
      BY <3>1
  <2>. QED
    BY <1>1, <2>1, <2>2, <2>3
<1>4. CASE \E p \in 1 .. Len(stream) : ClientSend(p)
  <2>1. PICK p \in 1 .. Len(stream) : ClientSend(p)
    BY <1>4
  <2>2. arrived' = p /\ p > arrived /\ parsed' = parsed /\ got' = got /\ client' = client
    BY <2>1 DEF ClientSend, reqVars
  <2>. QED
    BY <1>1, <2>2
<1>5. CASE \E how \in {"ended", "gone"} : ClientEnd(how)
  <2>1. PICK how \in {"ended", "gone"} : ClientEnd(how)
    BY <1>5
  <2>2. arrived' = arrived /\ parsed' = parsed /\ got' = got /\ client' = how
    BY <2>1 DEF ClientEnd
  <2>. QED
    BY <1>1, <2>2
<1>6. CASE ~(RecvData \/ ParseWhole \/ (\E p \in 1 .. Len(stream) : ClientSend(p))
             \/ (\E how \in {"ended", "gone"} : ClientEnd(how)))
  <2>1. arrived' = arrived /\ parsed' = parsed /\ got' = got /\ client' = client
    BY <1>6 DEF Next, Worker, EpollWait, RecvFull, RecvEnd, RecvEmpty, ParsePart, ParseFault,
                HandleRequest, Flush, HandleOut, ClientRead, vars, clientVars
  <2>. QED
    BY <1>1, <2>1
<1>. QED
  BY <1>2, <1>3, <1>4, <1>5, <1>6

(* The truth of what the headers and the socket say.                       *)
LEMMA Truths ==
    /\ Writable \in BOOLEAN /\ KeepByDefault \in BOOLEAN
    /\ (upgrade \/ Says("upgrade")) \in BOOLEAN /\ (edge \/ ~Writable) \in BOOLEAN
    /\ (torn \/ got < End(cur')) \in BOOLEAN
<1>1. Writable \in BOOLEAN
  BY SMT DEF Writable
<1>2. KeepByDefault \in BOOLEAN
  BY Zenon DEF KeepByDefault
<1>3. (upgrade \/ Says("upgrade")) \in BOOLEAN
  BY Zenon
<1>4. (edge \/ ~Writable) \in BOOLEAN
  BY Zenon
<1>5. (torn \/ got < End(cur')) \in BOOLEAN
  BY Zenon
<1>. QED
  BY <1>1, <1>2, <1>3, <1>4, <1>5, Zenon

(* A request's path names something.                                       *)
LEMMA RouteForm == ASSUME IInv PROVE \A i \in 1 .. Len(requests) : requests[i].route \in Routes
<1>1. ASSUME NEW i \in 1 .. Len(requests) PROVE requests[i] \in Shapes
  BY Typed DEF IInv, Sound
<1>2. \A r \in Shapes : r.route \in Routes
  BY DEF Shapes
<1>. QED
  BY <1>1, <1>2

(* The fields of the request and of the session keep their types.          *)
LEMMA FieldStep ==
    ASSUME IInv, [Next]_vars
    PROVE  /\ cur' \in 0 .. Len(requests) /\ body' \in 0 .. Len(requests)
           /\ upgrade' \in BOOLEAN /\ keepAlive' \in BOOLEAN
           /\ open' \in BOOLEAN /\ edge' \in BOOLEAN /\ evOut' \in BOOLEAN
           /\ pc' \in {"idle", "recv", "parse", "handle", "flush", "write", "crashed"}
           /\ served' \in Seq(1 .. Len(requests)) /\ torn' \in BOOLEAN /\ path' \in Routes
<1>1. /\ cur \in 0 .. Len(requests) /\ body \in 0 .. Len(requests)
      /\ upgrade \in BOOLEAN /\ keepAlive \in BOOLEAN
      /\ open \in BOOLEAN /\ edge \in BOOLEAN /\ evOut \in BOOLEAN
      /\ pc \in {"idle", "recv", "parse", "handle", "flush", "write", "crashed"}
      /\ served \in Seq(1 .. Len(requests)) /\ Len(requests) \in Nat
      /\ torn \in BOOLEAN /\ path \in Routes /\ "none" \in Routes
  BY Typed DEF IInv, TypeOK, Routes
<1>2. CASE EpollWait
  BY <1>1, <1>2, Truths DEF EpollWait, reqVars
<1>3. CASE RecvFull \/ RecvEnd \/ RecvEmpty \/ RecvData
  BY <1>1, <1>3 DEF RecvFull, RecvEnd, RecvEmpty, RecvData, CloseSocket, AfterRead, reqVars
<1>4. CASE ParseWhole
  <2>1. cur' \in 1 .. Len(requests)
    BY <1>4, SomeRequest
  <2>2. keepAlive' \in BOOLEAN /\ upgrade' \in BOOLEAN /\ torn' \in BOOLEAN
    BY <1>4, Truths DEF ParseWhole, ParseHead
  <2>5. path' \in Routes
    BY <1>1, <1>4, <2>1, RouteForm DEF ParseWhole, ParseHead
  <2>3. body' \in {cur', body}
    BY <1>4 DEF ParseWhole
  <2>4. pc' = "handle" /\ UNCHANGED <<open, edge, evOut, served>>
    BY <1>4 DEF ParseWhole
  <2>. QED
    BY <1>1, <2>1, <2>2, <2>3, <2>4, <2>5
<1>5. CASE ParsePart
  <2>1. /\ cur' \in 0 .. Len(requests) /\ keepAlive' \in BOOLEAN /\ upgrade' \in BOOLEAN
        /\ path' \in Routes
    <3>1. CASE HasLine
      <4>1. cur' = Data[2].req /\ keepAlive' \in BOOLEAN /\ upgrade' \in BOOLEAN
        BY <1>5, <3>1, Truths DEF ParsePart, ParseHead
      <4>2. Sound /\ 2 \in 1 .. Len(Data)
        BY <3>1, Typed, DataForm DEF IInv, HasLine
      <4>3. Data[2] = stream[parsed + 2] /\ parsed + 2 \in 1 .. Len(stream)
        BY <4>2, DataForm
      <4>4. stream[parsed + 2].req \in 1 .. Len(requests)
        BY <4>2, <4>3, PieceForm DEF Sound
      <4>5. cur' \in 1 .. Len(requests)
        BY <4>1, <4>3, <4>4
      <4>6. path' \in Routes
        BY <1>1, <1>5, <3>1, <4>5, RouteForm DEF ParsePart, ParseHead
      <4>. QED
        BY <1>1, <4>1, <4>5, <4>6
    <3>2. CASE ~HasLine
      BY <1>1, <1>5, <3>2 DEF ParsePart
    <3>. QED
      BY <3>1, <3>2
  <2>2. pc' = "flush" /\ UNCHANGED <<body, open, edge, evOut, served, torn>>
    BY <1>5 DEF ParsePart
  <2>. QED
    BY <1>1, <2>1, <2>2
<1>6. CASE ParseFault
  BY <1>1, <1>6 DEF ParseFault, reqVars
<1>7. CASE HandleRequest
  <2>1. cur \in 1 .. Len(requests) /\ keepAlive' \in BOOLEAN
    BY <1>7, HandleEffect
  <2>2. served' = Append(served, cur) /\ pc' = "parse" /\ UNCHANGED <<reqVars, open, edge, evOut, torn>>
    BY <1>7 DEF HandleRequest
  <2>. QED
    BY <1>1, <2>1, <2>2 DEF reqVars
<1>8. CASE Flush \/ HandleOut
  <2>1. \E next, blocked \in {"recv", "idle", "write"} : WriteReady(next, blocked)
    BY <1>8 DEF Flush, HandleOut, AfterRead
  <2>2. keepAlive' = keepAlive /\ edge' = edge /\ evOut' = evOut /\ served' = served /\ torn' = torn
    BY <1>8 DEF Flush, HandleOut
  <2>3. cur' \in {0, cur} /\ body' \in {0, body} /\ upgrade' \in BOOLEAN /\ open' \in BOOLEAN
        /\ path' \in {"none", path} /\ pc' \in {"recv", "idle", "write"}
    BY <1>1, <2>1 DEF WriteReady, CloseSocket, Reset, reqVars
  <2>. QED
    BY <1>1, <2>2, <2>3
<1>9. CASE \E p \in 1 .. Len(stream) : ClientSend(p)
  BY <1>1, <1>9 DEF ClientSend, reqVars
<1>10. CASE ClientRead
  BY <1>1, <1>10, Truths DEF ClientRead, reqVars
<1>11. CASE \E how \in {"ended", "gone"} : ClientEnd(how)
  BY <1>1, <1>11 DEF ClientEnd, reqVars
<1>12. CASE UNCHANGED vars
  BY <1>1, <1>12 DEF vars, reqVars
<1>. QED
  BY <1>2, <1>3, <1>4, <1>5, <1>6, <1>7, <1>8, <1>9, <1>10, <1>11, <1>12 DEF Next, Worker

(* Every step keeps the type invariant.                                    *)
LEMMA TypeStep == ASSUME IInv, [Next]_vars PROVE TypeOK'
<1>1. requests' = requests /\ stream' = stream /\ patient' = patient
  BY SettledStep
<1>2. RingInv' /\ Answers' = Answers
  BY <1>1, RingStep DEF Answers
<1>3. \A p \in ToSet(out' \o wire') : p \in Answers
  <2>1. out' \in Seq(Answers) /\ wire' \in Seq(Answers)
    BY <1>2 DEF RingInv
  <2>. QED
    BY <2>1, RingTyped
<1>4. requests \in Streams /\ patient \in BOOLEAN
  BY DEF IInv, TypeOK
<1>. QED
  BY <1>1, <1>3, <1>4, RingStep, InputStep, FieldStep DEF TypeOK, Answers

(* Only taking a request and handling it changes which is next.            *)
LEMMA PlaceStands ==
    ASSUME [Next]_vars, ~ParseWhole, ~HandleRequest
    PROVE  /\ served' = served /\ parsed' = parsed /\ Count' = Count /\ torn' = torn
           /\ pc' = "handle" <=> pc = "handle"
           /\ pc = "handle" => cur' = cur
<1>1. served' = served /\ parsed' = parsed /\ torn' = torn
  BY DEF Next, Worker, EpollWait, RecvFull, RecvData, RecvEnd, RecvEmpty, ParsePart, ParseFault,
         Flush, HandleOut, ClientSend, ClientRead, ClientEnd, vars
<1>2. (pc = "handle" <=> pc' = "handle") /\ (pc = "handle" => cur' = cur)
  <2>1. CASE Worker
    BY <2>1 DEF Worker, EpollWait, RecvFull, RecvData, RecvEnd, RecvEmpty, ParsePart,
                ParseFault, Flush, HandleOut, WriteReady, CloseSocket, AfterRead
  <2>2. CASE ~Worker
    BY <2>2 DEF Next, ClientSend, ClientRead, ClientEnd, vars, reqVars
  <2>. QED
    BY <2>1, <2>2
<1>3. Count' = Count
  BY <1>1, <1>2 DEF Count
<1>. QED
  BY <1>1, <1>2, <1>3

(* Every step keeps the order.                                             *)
LEMMA OrderStep == ASSUME IInv, [Next]_vars PROVE OrderInv'
<1>1. requests' = requests /\ stream' = stream
  BY SettledStep
<1>2. InOrder /\ (pc = "handle" => cur # 0) /\ (~torn => Placed)
  BY DEF IInv, OrderInv
<1>3. served \in Seq(1 .. Len(requests)) /\ Len(served) \in Nat /\ Len(requests) \in Nat
  BY Typed DEF IInv
<1>4. \A i : End(i)' = End(i)
  BY <1>1 DEF End
<1>5. CASE ParseWhole
  <2>1. pc' = "handle" /\ served' = served /\ (~torn' => ~torn)
    BY <1>5 DEF ParseWhole
  <2>2. Count' = Len(served) + 1
    BY <2>1 DEF Count
  <2>3. ASSUME ~torn'
        PROVE  /\ Len(served) + 1 \in 1 .. Len(requests) /\ cur' = Len(served) + 1
               /\ parsed' = End(Len(served) + 1)
    BY <1>5, <2>3, NextRequest
  <2>4. InOrder'
    BY <1>2, <2>1 DEF InOrder
  <2>5. ~torn' => Placed'
    BY <1>1, <1>3, <2>2, <2>3 DEF Placed, End
  <2>6. cur' # 0
    BY <1>3, <1>5, SomeRequest
  <2>. QED
    BY <2>4, <2>5, <2>6 DEF OrderInv
<1>6. CASE HandleRequest
  <2>1. pc = "handle" /\ pc' = "parse" /\ served' = Append(served, cur) /\ parsed' = parsed
        /\ torn' = torn
    BY <1>6 DEF HandleRequest
  <2>2. (~torn => cur = Len(served) + 1) /\ cur \in 1 .. Len(requests)
    BY <1>6, HandleEffect
  <2>3. Len(served') = Len(served) + 1 /\ served'[Len(served) + 1] = cur
        /\ \A k \in 1 .. Len(served) : served'[k] = served[k]
    BY <1>3, <2>1, <2>2
  <2>4. Count = Len(served) + 1 /\ Count' = Len(served) + 1
    <3>1. Count' = Len(served') + 0
      BY <2>1 DEF Count
    <3>. QED
      BY <1>3, <2>1, <2>3, <3>1 DEF Count
  <2>5. InOrder'
    <3>1. SUFFICES ASSUME ~torn PROVE \A k \in DOMAIN served' : served'[k] = k
      BY <2>1 DEF InOrder
    <3>2. served' \in Seq(1 .. Len(requests))
      BY FieldStep
    <3>3. \A k \in 1 .. Len(served) + 1 : served'[k] = k
      BY <1>2, <1>3, <2>2, <2>3, <3>1 DEF InOrder
    <3>4. DOMAIN served' = 1 .. Len(served) + 1
      BY <2>3, <3>2
    <3>. QED
      BY <3>3, <3>4
  <2>6. ~torn' => Placed'
    BY <1>1, <1>2, <2>1, <2>4 DEF Placed, End
  <2>. QED
    BY <2>1, <2>5, <2>6 DEF OrderInv
<1>7. CASE ~(ParseWhole \/ HandleRequest)
  <2>1. served' = served /\ parsed' = parsed /\ torn' = torn
    BY <1>7, PlaceStands
  <2>2. (pc = "handle" <=> pc' = "handle") /\ (pc = "handle" => cur' = cur)
    BY <1>7, PlaceStands
  <2>3. Count' = Count
    BY <1>7, PlaceStands
  <2>4. InOrder'
    BY <1>2, <2>1 DEF InOrder
  <2>5. ~torn' => Placed'
    BY <1>1, <1>2, <2>1, <2>2, <2>3 DEF Placed, End
  <2>6. (pc = "handle" => cur # 0)'
    BY <1>2, <2>2
  <2>. QED
    BY <2>4, <2>5, <2>6 DEF OrderInv
<1>. QED
  BY <1>5, <1>6, <1>7

(* The invariant is inductive.                                             *)
LEMMA Step == IInv /\ [Next]_vars => IInv'
<1>. SUFFICES ASSUME IInv, [Next]_vars PROVE IInv'
  OBVIOUS
<1>1. requests' = requests /\ stream' = stream
  BY SettledStep
<1>2. Encoded'
  BY <1>1 DEF IInv, Encoded, Parts
<1>. QED
  BY <1>2, TypeStep, OrderStep, RingStep DEF IInv

(* TypeOK: no ring ever holds more than its size, and what is consumed,    *)
(* received, arrived and sent stand in that order, whatever the client     *)
(* does: the cursors of onReadReady, parseRequest and onWriteReady agree.  *)
THEOREM TypeCorrect == Spec => []TypeOK
<1>1. IInv => TypeOK
  BY DEF IInv
<1>. QED
  BY <1>1, Initially, Step, PTL DEF Spec

(* InOrder: handleRequest is called for the client's requests once each    *)
(* and in the order they were sent, wherever TCP cuts the stream and       *)
(* however full the rings are, until parseRequest has taken for whole a    *)
(* request that ended, as received, right behind a header line.            *)
THEOREM HandledOnceInOrder == Spec => []InOrder
<1>1. IInv => InOrder
  BY DEF IInv, OrderInv
<1>. QED
  BY <1>1, Initially, Step, PTL DEF Spec

-----------------------------------------------------------------------------
(***************************************************************************)
(* A patient client.                                                       *)
(***************************************************************************)

(* How many answers the client has read.                                   *)
LEMMA HalfForm ==
    ASSUME taken \in Nat
    PROVE  /\ Answered \in Nat /\ 2 * Answered <= taken /\ taken <= 2 * Answered + 1
  BY DEF Answered

(* An answer more when both its pieces have been read.                     *)
LEMMA HalfStep ==
    ASSUME taken \in Nat, taken' = taken + 1
    PROVE  \/ Answered' = Answered
           \/ Answered' = Answered + 1 /\ taken' = 2 * Answered'
  BY DEF Answered

(* Whose answer is due: everyone's, in two pieces, but of an upgrade that  *)
(* leads nowhere.                                                          *)
LEMMA DueForm ==
    ASSUME requests \in Seq(Shapes)
    PROVE  /\ \A i \in 1 .. Len(requests) : Due(i) \in Seq(Answers) /\ Len(Due(i)) \in {0, 2}
           /\ Dues \in Seq(Seq(Answers)) /\ Len(Dues) = Len(requests)
           /\ \A i \in 1 .. Len(requests) : Dues[i] = Due(i)
<1>1. ASSUME NEW i \in 1 .. Len(requests)
      PROVE  Due(i) \in Seq(Answers) /\ Len(Due(i)) \in {0, 2}
  <2>. DEFINE r == requests[i]
              shown == IF r.route = "echo" /\ r.body > 0 THEN i ELSE 0
              close == Parting(i)
  <2>1. Due(i) = << >> \/ Due(i) = Response(i, shown, close)
    BY DEF Due
  <2>2. shown \in 0 .. Len(requests)
    BY <1>1
  <2>3. close \in BOOLEAN
    BY Zenon DEF Parting
  <2>4. << >> \in Seq(Answers) /\ Len(<< >>) = 0
    OBVIOUS
  <2>. HIDE DEF shown, close
  <2>5. Response(i, shown, close) \in Seq(Answers) /\ Len(Response(i, shown, close)) = 2
    BY <1>1, <2>2, <2>3, ResponseForm
  <2>. QED
    BY <2>1, <2>4, <2>5
<1>2. Dues = [i \in 1 .. Len(requests) |-> Due(i)] /\ Len(requests) \in Nat
  BY DEF Dues
<1>. DEFINE U == Seq(Answers)
<1>3. Dues \in [1 .. Len(requests) -> U] /\ \A i \in 1 .. Len(requests) : Dues[i] = Due(i)
  BY <1>1, <1>2
<1>. HIDE DEF U
<1>4. Dues \in Seq(U) /\ Len(Dues) = Len(requests)
  BY <1>2, <1>3, FunctionForm
<1>. QED
  BY <1>1, <1>3, <1>4 DEF U

(* What of an answer fits the write ring.                                  *)
LEMMA ShownForm ==
    ASSUME requests \in Seq(Shapes), WriteRoom \in Nat \ {0}, NEW i \in 1 .. Len(requests)
    PROVE  /\ Shown(i) \in Seq(Answers) /\ Len(Shown(i)) <= Len(Due(i)) /\ Len(Shown(i)) <= 2
           /\ Len(Shown(i)) \in Nat
           /\ \A j \in 1 .. Len(Shown(i)) : Shown(i)[j] = Due(i)[j]
           /\ Len(Shown(i)) = 2 => Shown(i) = Due(i) /\ Len(Due(i)) = 2
           /\ Len(Due(i)) = 2 => Len(Shown(i)) > 0
<1>. DEFINE d == Due(i)
            n == IF Len(d) < WriteRoom THEN Len(d) ELSE WriteRoom
<1>1. d \in Seq(Answers) /\ Len(d) \in {0, 2}
  BY DueForm
<1>2. Shown(i) = SubSeq(d, 1, n)
  BY DEF Shown
<1>. HIDE DEF d
<1>3. n \in Nat /\ n <= Len(d) /\ n <= 2 /\ (Len(d) = 2 => n > 0)
  <2>1. /\ Len(d) < WriteRoom => n = Len(d)
        /\ ~(Len(d) < WriteRoom) => n = WriteRoom
    OBVIOUS
  <2>2. Len(d) = 0 \/ Len(d) = 2
    BY <1>1
  <2>. HIDE DEF n
  <2>3. CASE Len(d) < WriteRoom
    BY <2>1, <2>2, <2>3
  <2>4. CASE ~(Len(d) < WriteRoom)
    BY <2>1, <2>2, <2>4
  <2>. QED
    BY <2>3, <2>4
<1>. HIDE DEF n
<1>4. SubSeq(d, 1, n) \in Seq(Answers) /\ Len(SubSeq(d, 1, n)) = n
      /\ \A j \in 1 .. n : SubSeq(d, 1, n)[j] = d[j]
  BY <1>1, <1>3
<1>5. n = 2 => Len(d) = 2 /\ SubSeq(d, 1, n) = d
  BY <1>1, <1>3
<1>. QED
  BY <1>2, <1>3, <1>4, <1>5 DEF d

(* A head that fits.                                                       *)
LEMMA HeadFitsForm ==
    ASSUME requests \in Seq(Shapes), Encoded, NEW i \in 1 .. Len(requests), ReadRoom \in Nat
    PROVE  HeadFits(i) <=> HeadSize(requests[i]) <= ReadRoom
<1>. DEFINE r == requests[i]
<1>1. r.body \in Nat /\ HeadSize(r) \in 4 .. 12 /\ End(i - 1) \in Nat
      /\ End(i) = End(i - 1) + HeadSize(r) + r.body
  BY RequestForm
<1>2. HeadFits(i) <=> End(i) - End(i - 1) - r.body <= ReadRoom
  BY DEF HeadFits
<1>. HIDE DEF r
<1>3. End(i) - End(i - 1) - r.body = HeadSize(r)
  BY <1>1
<1>. QED
  BY <1>2, <1>3 DEF r

(* How far the session and the client are.                                 *)
LEMMA Counts ==
    ASSUME IInv, Exchange
    PROVE  /\ Len(served) \in Nat /\ Len(requests) \in Nat /\ Answered \in Nat
           /\ 2 * Answered <= taken /\ taken <= 2 * Answered + 1 /\ taken <= Len(wire)
           /\ taken \in Nat /\ Len(wire) \in Nat /\ Len(out) \in Nat
           /\ pc = "handle" => Count = Len(served) + 1
           /\ pc # "handle" => Count = Len(served)
           /\ Count \in 0 .. Len(requests)
           /\ parsed \in Nat /\ got \in Nat /\ arrived \in Nat /\ Len(stream) \in Nat
           /\ parsed <= got /\ got <= arrived /\ arrived <= Len(stream)
<1>1. /\ Len(served) \in Nat /\ Len(requests) \in Nat /\ taken \in Nat /\ taken <= Len(wire)
      /\ arrived \in Nat /\ Len(stream) \in Nat /\ got <= arrived /\ arrived <= Len(stream)
      /\ parsed \in Nat /\ got \in Nat /\ parsed <= got
  BY Typed DEF IInv, Sound
<1>2. Answered \in Nat /\ 2 * Answered <= taken /\ taken <= 2 * Answered + 1
  BY <1>1, HalfForm
<1>3. Len(wire) \in Nat /\ Len(out) \in Nat
  BY DEF IInv, RingInv
<1>4. /\ pc = "handle" => Count = Len(served) + 1
      /\ pc # "handle" => Count = Len(served)
  BY <1>1 DEF Count
<1>5. Count \in 0 .. Len(requests)
  BY DEF IInv, OrderInv, Placed, Exchange, Turn
<1>. QED
  BY <1>1, <1>2, <1>3, <1>4, <1>5

(* The answers of the handled requests, counted in pieces.                 *)
LEMMA WireLength ==
    ASSUME IInv, Exchange
    PROVE  /\ Len(served) = Answered \/ Len(served) = Answered + 1
           /\ Len(served) = Answered => out = << >> /\ Len(wire) = 2 * Answered
           /\ Len(served) = Answered + 1 =>
                 /\ Len(served) \in 1 .. Len(requests) /\ Count = Len(served) /\ pc # "handle"
                 /\ Len(wire) + Len(out) = 2 * Answered + Len(Shown(Len(served)))
<1>1. /\ Len(served) \in Nat /\ Len(requests) \in Nat /\ Answered \in Nat
      /\ (pc = "handle" => Count = Len(served) + 1) /\ (pc # "handle" => Count = Len(served))
      /\ Count \in 0 .. Len(requests)
  BY Counts
<1>2. Answered <= Len(served) /\ Count <= Answered + 1 /\ Extent(Dues, Answered) = 2 * Answered
      /\ (Len(served) = Answered => wire = Upto(Dues, Answered) /\ out = << >>)
      /\ (Len(served) # Answered => wire \o out = Upto(Dues, Answered) \o Shown(Len(served)))
  BY DEF Exchange, Turn, Wired
<1>3. Len(served) = Answered \/ Len(served) = Answered + 1
  BY <1>1, <1>2
<1>4. Len(served) = Answered => Len(wire) = 2 * Answered
  BY <1>2 DEF Extent
<1>5. ASSUME Len(served) = Answered + 1
      PROVE  /\ Len(served) \in 1 .. Len(requests) /\ Count = Len(served) /\ pc # "handle"
             /\ Len(wire) + Len(out) = 2 * Answered + Len(Shown(Len(served)))
  <2>1. Len(served) \in 1 .. Len(requests) /\ Count = Len(served) /\ pc # "handle"
    BY <1>1, <1>2, <1>5
  <2>2. requests \in Seq(Shapes) /\ WriteRoom \in Nat \ {0}
    BY Typed DEF IInv, Sound
  <2>3. Shown(Len(served)) \in Seq(Answers)
    BY <2>1, <2>2, ShownForm
  <2>4. Upto(Dues, Answered) \in Seq(Answers)
    <3>1. Dues \in Seq(Seq(Answers)) /\ Answered \in 0 .. Len(Dues)
      BY <1>1, <1>5, <2>1, <2>2, DueForm
    <3>. QED
      BY <3>1, UptoType
  <2>5. Len(Upto(Dues, Answered) \o Shown(Len(served))) = 2 * Answered + Len(Shown(Len(served)))
    <3>1. Len(Upto(Dues, Answered)) = 2 * Answered
      BY <1>2 DEF Extent
    <3>. QED
      BY <2>3, <2>4, <3>1, ConcatForm
  <2>6. Len(wire \o out) = Len(wire) + Len(out)
    <3>1. out \in Seq(Answers) /\ wire \in Seq(Answers)
      BY DEF IInv, RingInv
    <3>. QED
      BY <3>1, ConcatForm
  <2>7. wire \o out = Upto(Dues, Answered) \o Shown(Len(served))
    BY <1>1, <1>2, <1>5, SMTT(30)
  <2>. QED
    BY <2>1, <2>5, <2>6, <2>7
<1>. QED
  BY <1>2, <1>3, <1>4, <1>5

(* Nothing arrives of a request before its predecessor is answered.        *)
LEMMA NothingAhead ==
    ASSUME IInv, Exchange
    PROVE  /\ Answered < Len(requests) => arrived <= End(Answered + 1)
           /\ Len(served) = Answered + 1 => arrived = parsed /\ got = parsed
           /\ Answered = Len(requests) => arrived = parsed /\ got = parsed
<1>1. /\ Len(served) \in Nat /\ Len(requests) \in Nat /\ Answered \in Nat
      /\ (pc = "handle" => Count = Len(served) + 1) /\ (pc # "handle" => Count = Len(served))
      /\ Count \in 0 .. Len(requests)
      /\ parsed \in Nat /\ got \in Nat /\ arrived \in Nat /\ Len(stream) \in Nat
      /\ parsed <= got /\ got <= arrived /\ arrived <= Len(stream)
  BY Counts
<1>2. /\ parsed = End(Count) /\ Answered <= Len(served) /\ Count <= Answered + 1
      /\ (arrived > 0 => stream[arrived].req <= Answered + 1)
  BY DEF Exchange, Turn, Manners
<1>3. /\ End(Len(requests)) = Len(stream)
      /\ \A i \in 0 .. Len(requests) : End(i) \in 0 .. Len(stream)
      /\ \A i \in 0 .. Len(requests), p \in 1 .. Len(stream) : stream[p].req <= i <=> p <= End(i)
  BY Typed, StreamForm DEF IInv, Sound
<1>4. Answered < Len(requests) => arrived <= End(Answered + 1)
  <2>1. SUFFICES ASSUME Answered < Len(requests) PROVE arrived <= End(Answered + 1)
    OBVIOUS
  <2>2. Answered + 1 \in 0 .. Len(requests)
    BY <1>1, <2>1
  <2>3. CASE arrived = 0
    BY <1>3, <2>2, <2>3
  <2>4. CASE arrived # 0
    <3>1. arrived \in 1 .. Len(stream) /\ stream[arrived].req <= Answered + 1
      BY <1>1, <1>2, <2>4
    <3>. QED
      BY <1>3, <2>2, <3>1
  <2>. QED
    BY <2>3, <2>4
<1>5. Len(served) = Answered + 1 => arrived <= parsed
  <2>1. SUFFICES ASSUME Len(served) = Answered + 1 PROVE arrived <= parsed
    OBVIOUS
  <2>2. Count = Answered + 1 /\ Answered < Len(requests)
    BY <1>1, <1>2, <2>1
  <2>. QED
    BY <1>2, <1>4, <2>2
<1>6. Answered = Len(requests) => arrived <= parsed
  <2>1. SUFFICES ASSUME Answered = Len(requests) PROVE arrived <= parsed
    OBVIOUS
  <2>2. Count = Len(requests)
    BY <1>1, <1>2, <2>1
  <2>. QED
    BY <1>1, <1>2, <1>3, <2>2
<1>. QED
  BY <1>1, <1>4, <1>5, <1>6

(* A request line in the data is that of the first unanswered request.     *)
LEMMA CurrentLine ==
    ASSUME IInv, Exchange, pc # "handle", HasLine
    PROVE  /\ Len(served) = Answered /\ Len(served) + 1 \in 1 .. Len(requests)
           /\ parsed = End(Len(served)) /\ out = << >> /\ Len(wire) = 2 * Len(served)
           /\ arrived <= End(Len(served) + 1)
<1>1. parsed + 2 <= got
  <2>1. Len(Data) = got - parsed /\ Len(Data) >= 2 /\ parsed \in Nat /\ got \in Nat
    BY Typed, DataForm DEF IInv, Sound, HasLine
  <2>. QED
    BY <2>1
<1>2. /\ Len(served) \in Nat /\ Len(requests) \in Nat /\ Answered \in Nat /\ Count = Len(served)
      /\ parsed \in Nat /\ got \in Nat /\ Count \in 0 .. Len(requests)
  BY Counts
<1>3. parsed = End(Count) /\ Answered <= Len(served)
  BY DEF Exchange, Turn
<1>4. Len(served) = Answered
  BY <1>1, <1>2, NothingAhead, WireLength
<1>5. Len(served) # Len(requests)
  BY <1>1, <1>2, <1>4, NothingAhead
<1>6. Len(served) + 1 \in 1 .. Len(requests) /\ Answered < Len(requests)
  BY <1>2, <1>4, <1>5
<1>. QED
  BY <1>2, <1>3, <1>4, <1>6, WireLength, NothingAhead

(* Of a request that is taken every header has been seen, and nothing of   *)
(* an earlier one is left.                                                 *)
LEMMA WholeTaken ==
    ASSUME IInv, Exchange, Running, ParseWhole
    PROVE  /\ parsed' = End(Len(served) + 1) /\ ~torn'
           /\ path' = requests[Len(served) + 1].route
           /\ keepAlive' = ~requests[Len(served) + 1].close
           /\ upgrade' = requests[Len(served) + 1].upgrade
           /\ body' = IF requests[Len(served) + 1].body > 0 THEN Len(served) + 1 ELSE 0
<1>. DEFINE i == Len(served) + 1
            r == requests[i]
<1>1. pc = "parse" /\ open /\ HasLine /\ Whole
  BY DEF ParseWhole, Running
<1>2. /\ Len(served) = Answered /\ i \in 1 .. Len(requests)
      /\ parsed = End(Len(served)) /\ out = << >> /\ Len(wire) = 2 * Len(served)
  BY <1>1, CurrentLine
<1>3. Len(served) \in Nat /\ i - 1 = Len(served) /\ parsed \in Nat /\ got \in Nat
  BY Counts
<1>4. Sound /\ MaxBody \in Nat
  BY Typed DEF IInv
<1>5. i \in 1 .. Len(requests) /\ parsed = End(i - 1)
  BY <1>2, <1>3
<1>6. body = 0 /\ (upgrade => r.upgrade)
  BY <1>1, <1>2 DEF Exchange, Fresh
<1>7. Uncut(got)
  BY DEF Exchange, Manners
<1>9. upgrade \in BOOLEAN
  BY DEF IInv, TypeOK
<1>. HIDE DEF i
<1>8. cur' = i /\ path' = r.route
  <2>1. 2 \in 1 .. Len(Data)
    BY <1>1, <1>4, DataForm DEF HasLine
  <2>2. requests[i].body \in Nat /\ HeadSize(requests[i]) \in 4 .. 12
    BY <1>4, <1>5, RequestForm DEF Sound
  <2>. DEFINE h == HeadSize(requests[i])
              b == requests[i].body
  <2>3. 2 <= h + b
    <3>1. h \in 4 .. 12 /\ b \in Nat
      BY <2>2
    <3>. HIDE DEF h, b
    <3>. QED
      BY <3>1
  <2>4. PieceAt(Data[2], i, requests[i], 2)
    BY <1>4, <1>5, <2>1, <2>3, DataOf
  <2>. QED
    BY <2>4 DEF ParseWhole, ParseHead, PieceAt
<1>10. r \in Shapes /\ r.body \in Nat /\ HeadSize(r) \in 4 .. 12 /\ End(i) = End(i - 1) + HeadSize(r) + r.body
       /\ End(i - 1) \in Nat
  BY <1>4, <1>5, RequestForm DEF Sound
<1>11. Len(Data) \in Nat /\ Len(Data) = got - parsed /\ Len(Data) >= 2
  BY <1>1, <1>4, DataForm DEF HasLine
<1>12. Len(Data) >= HeadSize(r)
  <2>1. SUFFICES ASSUME Len(Data) < HeadSize(r) PROVE FALSE
    BY <1>10, <1>11
  <2>2. stream[got].kind \in LineEnds \ {"blank"}
    BY <1>1, <1>4, <1>5, <2>1, WholeForm
  <2>3. got > 0
    BY <1>3, <1>11
  <2>. QED
    BY <1>7, <2>2, <2>3 DEF Uncut
<1>13. Consumed = HeadSize(r) + r.body /\ ContentLength = r.body
  BY <1>1, <1>4, <1>5, <1>12, WholeForm
<1>14. parsed' = End(i)
  <2>1. parsed' = parsed + Consumed
    BY DEF ParseWhole
  <2>. QED
    BY <1>3, <1>5, <1>10, <1>13, <2>1, SMTT(30)
<1>15. Len(Data) >= 4 + Naming(r) /\ Len(Data) >= 4 + Naming(r) + Closing(r)
  <2>1. /\ HeadSize(r) = 4 + Naming(r) + Closing(r) + Upgrading(r) + Carrying(r)
        /\ Naming(r) \in {0, 2} /\ Closing(r) \in {0, 2}
        /\ Upgrading(r) \in {0, 2} /\ Carrying(r) \in {0, 2}
    BY DEF HeadSize, Naming, Closing, Upgrading, Carrying
  <2>. QED
    BY <1>11, <1>12, <2>1
<1>16. /\ Says("close") <=> r.close
       /\ Says("upgrade") <=> r.upgrade
  <2>1. /\ Says("close") <=> r.close /\ Len(Data) >= 4 + Naming(r)
        /\ Says("upgrade") <=> r.upgrade /\ Len(Data) >= 4 + Naming(r) + Closing(r)
    BY <1>4, <1>5, HeadersSay
  <2>. QED
    BY <1>15, <2>1
<1>17. keepAlive' = ~Says("close") /\ upgrade' = (upgrade \/ Says("upgrade"))
  BY DEF ParseWhole, ParseHead, KeepByDefault
<1>18. body' = IF ContentLength > 0 THEN cur' ELSE body
  BY DEF ParseWhole
<1>19. r.close \in BOOLEAN /\ r.upgrade \in BOOLEAN
  BY <1>10 DEF Shapes
<1>. HIDE DEF r
<1>20. keepAlive' = ~r.close
  BY <1>16, <1>17, <1>19, Zenon
<1>21. upgrade' = r.upgrade
  <2>1. (upgrade \/ Says("upgrade")) <=> r.upgrade
    BY <1>6, <1>16
  <2>2. (upgrade \/ Says("upgrade")) \in BOOLEAN
    BY Truths
  <2>3. (upgrade \/ Says("upgrade")) = r.upgrade
    BY <1>19, <2>1, <2>2, Zenon
  <2>. QED
    BY <1>17, <2>3
<1>22. body' = IF r.body > 0 THEN i ELSE 0
  BY <1>6, <1>8, <1>13, <1>18
<1>23. ~torn'
  <2>1. Whole <=> r.body <= MaxBody /\ Len(Data) >= HeadSize(r) + r.body
    BY <1>1, <1>4, <1>5, <1>12, WholeForm DEF r
  <2>2. torn' = (torn \/ got < End(i))
    BY <1>8 DEF ParseWhole
  <2>3. ~(got < End(i))
    BY <1>1, <1>3, <1>5, <1>10, <1>11, <2>1, SMTT(30)
  <2>4. ~torn
    BY DEF Exchange, Turn
  <2>. QED
    BY <2>2, <2>3, <2>4
<1>. QED
  BY <1>8, <1>14, <1>20, <1>21, <1>22, <1>23 DEF i, r

(* A request that has been taken is given its own answer.                  *)
LEMMA HandleAnswer ==
    ASSUME IInv, Exchange, HandleRequest
    PROVE  /\ Len(served) = Answered /\ Count = Len(served) + 1 /\ cur = Count
           /\ Count \in 1 .. Len(requests)
           /\ out = << >> /\ Len(wire) = 2 * Answered /\ wire = Upto(Dues, Answered)
           /\ out' = Shown(Count)
           /\ out' # << >> => keepAlive' = ~Parting(Last(out').to)
<1>1. pc = "handle" /\ (Reply \/ ReplyError \/ ReplyUpgrade)
  BY DEF HandleRequest
<1>2. /\ Len(served) \in Nat /\ Len(requests) \in Nat /\ Answered \in Nat /\ Count = Len(served) + 1
      /\ Count \in 0 .. Len(requests)
  BY <1>1, Counts
<1>3. /\ Answered <= Len(served) /\ Count <= Answered + 1
      /\ Len(served) = Answered => wire = Upto(Dues, Answered)
  BY DEF Exchange, Turn, Wired
<1>4. Len(served) = Answered /\ Count \in 1 .. Len(requests)
  BY <1>2, <1>3
<1>5. out = << >> /\ Len(wire) = 2 * Answered
  BY <1>4, WireLength
<1>. DEFINE n == Count
            r == requests[n]
<1>6. /\ keepAlive = ~r.close /\ upgrade = r.upgrade /\ body = (IF r.body > 0 THEN n ELSE 0)
      /\ cur = n /\ path = r.route
  BY <1>1 DEF Exchange, Turn, Taken, IInv, OrderInv, Placed
<1>7. requests \in Seq(Shapes) /\ WriteRoom \in Nat \ {0}
  BY Typed DEF IInv, Sound
<1>8. r \in Shapes /\ r.close \in BOOLEAN /\ r.upgrade \in BOOLEAN /\ r.body \in Nat
      /\ r.route \in {"echo", "none", "throw", "ws"} /\ n \in Nat
  <2>1. r \in Shapes /\ n \in Nat
    BY <1>2, <1>4, <1>7
  <2>. HIDE DEF r
  <2>. QED
    BY <2>1 DEF Shapes, Routes
<1>9. ASSUME NEW shown \in 0 .. Len(requests), NEW close \in BOOLEAN,
             Due(n) = Response(n, shown, close), out' = Written(Response(n, shown, close)),
             close = Parting(n), keepAlive' = ~close
      PROVE  out' = Shown(n) /\ (out' # << >> => keepAlive' = ~Parting(Last(out').to))
  <2>. DEFINE a == Response(n, shown, close)
  <2>1. a \in Seq(Answers) /\ Len(a) = 2 /\ (\A part \in 1 .. 2 : a[part].to = n)
    BY <1>4, <1>9, ResponseForm
  <2>2. Due(n) = a /\ out' = Written(a)
    BY <1>9
  <2>. HIDE DEF a, n
  <2>3. out \in Seq(Answers)
    BY DEF IInv, RingInv
  <2>4. Written(a) = SubSeq(a, 1, IF Len(a) < WriteRoom THEN Len(a) ELSE WriteRoom)
    BY <1>5, <1>7, <2>1, <2>3, WrittenForm
  <2>5. Shown(n) = SubSeq(a, 1, IF Len(a) < WriteRoom THEN Len(a) ELSE WriteRoom)
    BY <2>2 DEF Shown
  <2>6. out' = Shown(n)
    BY <2>2, <2>4, <2>5
  <2>7. Len(Shown(n)) \in 1 .. 2 /\ \A j \in 1 .. Len(Shown(n)) : Shown(n)[j] = a[j]
    <3>1. n \in 1 .. Len(requests)
      BY <1>4 DEF n
    <3>2. /\ Len(Shown(n)) <= 2 /\ Len(Shown(n)) \in Nat
          /\ \A j \in 1 .. Len(Shown(n)) : Shown(n)[j] = Due(n)[j]
          /\ Len(Due(n)) = 2 => Len(Shown(n)) > 0
      BY <1>7, <3>1, ShownForm
    <3>3. Len(Due(n)) = 2
      BY <2>1, <2>2
    <3>4. Len(Shown(n)) \in 1 .. 2
      <4>. DEFINE k == Len(Shown(n))
      <4>1. k <= 2 /\ k \in Nat /\ k > 0
        BY <3>2, <3>3
      <4>. HIDE DEF k
      <4>2. k \in 1 .. 2
        BY <4>1
      <4>. QED
        BY <4>2 DEF k
    <3>5. \A j \in 1 .. Len(Shown(n)) : Shown(n)[j] = a[j]
      BY <2>2, <3>2, Zenon
    <3>. QED
      BY <3>4, <3>5
  <2>8. Shown(n)[Len(Shown(n))].to = n
    <3>. DEFINE last == Len(Shown(n))
    <3>1. last \in 1 .. 2 /\ last \in 1 .. last /\ Shown(n)[last] = a[last]
      BY <2>7, SMTT(30)
    <3>. HIDE DEF last
    <3>2. Shown(n)[last].to = n
      BY <2>1, <3>1
    <3>. QED
      BY <3>2 DEF last
  <2>9. Last(out').to = n
    BY <2>6, <2>8 DEF Last
  <2>. QED
    BY <1>9, <2>6, <2>9
<1>10. CASE Reply
  <2>1. ~upgrade /\ r.route \in {"echo", "none", "ws"} /\ keepAlive' = keepAlive
        /\ out' = Written(Response(n, IF r.route = "echo" THEN body ELSE 0, ~keepAlive))
    BY <1>6, <1>10 DEF Reply, Answer
  <2>. DEFINE shown == IF r.route = "echo" /\ r.body > 0 THEN n ELSE 0
              close == Parting(n)
  <2>2. Due(n) = Response(n, shown, close)
    BY <1>6, <2>1 DEF Due
  <2>3. (IF r.route = "echo" THEN body ELSE 0) = shown /\ shown \in 0 .. Len(requests)
    BY <1>2, <1>6
  <2>4. close <=> r.close
    BY <1>6, <2>1 DEF Parting
  <2>5. close \in BOOLEAN /\ (~keepAlive) \in BOOLEAN
    BY Zenon DEF Parting
  <2>. HIDE DEF close, shown, n, r
  <2>6. (~keepAlive) = close
    <3>1. ~keepAlive <=> close
      BY <1>6, <1>8, <2>4
    <3>. QED
      BY <2>5, <3>1, Zenon
  <2>7. keepAlive \in BOOLEAN
    BY DEF IInv, TypeOK
  <2>8. keepAlive' = ~close
    BY <2>1, <2>5, <2>6, <2>7, Zenon
  <2>9. out' = Written(Response(n, shown, close))
    BY <2>1, <2>3, <2>6, Zenon
  <2>10. close = Parting(n)
    BY DEF close
  <2>11. out' = Shown(n) /\ (out' # << >> => keepAlive' = ~Parting(Last(out').to))
    BY <1>9, <2>2, <2>3, <2>5, <2>8, <2>9, <2>10
  <2>. QED
    BY <1>2, <1>3, <1>4, <1>5, <1>6, <2>11 DEF n
<1>11. ASSUME r.route = "throw" \/ r.upgrade, r.route # "echo", r.upgrade => r.route = "ws",
              out' = Written(Response(n, 0, TRUE)), keepAlive' = FALSE
       PROVE  out' = Shown(n) /\ (out' # << >> => keepAlive' = ~Parting(Last(out').to))
  <2>1. Due(n) = Response(n, 0, Parting(n))
    BY <1>11 DEF Due
  <2>2. Parting(n) = TRUE
    <3>1. Parting(n)
      BY <1>11 DEF Parting
    <3>2. Parting(n) \in BOOLEAN
      BY Zenon DEF Parting
    <3>. QED
      BY <3>1, <3>2
  <2>3. Due(n) = Response(n, 0, TRUE)
    BY <2>1, <2>2
  <2>4. 0 \in 0 .. Len(requests) /\ TRUE \in BOOLEAN /\ TRUE = Parting(n)
    BY <1>2, <2>2
  <2>. QED
    BY <1>9, <1>11, <2>3, <2>4
<1>12. CASE ReplyError
  <2>1. r.route = "throw" /\ out' = Written(Response(n, 0, TRUE)) /\ keepAlive' = FALSE /\ ~r.upgrade
    BY <1>6, <1>12 DEF ReplyError, Answer
  <2>2. r.route # "echo"
    BY <2>1
  <2>3. out' = Shown(n) /\ (out' # << >> => keepAlive' = ~Parting(Last(out').to))
    BY <1>11, <2>1, <2>2
  <2>. QED
    BY <1>2, <1>3, <1>4, <1>5, <1>6, <2>3
<1>13. CASE ReplyUpgrade
  <2>1. CASE r.route = "ws"
    <3>1. r.upgrade /\ out' = Written(Response(n, 0, TRUE)) /\ keepAlive' = FALSE /\ r.route # "echo"
      BY <1>6, <1>13, <2>1 DEF ReplyUpgrade, Answer
    <3>2. out' = Shown(n) /\ (out' # << >> => keepAlive' = ~Parting(Last(out').to))
      BY <1>11, <2>1, <3>1
    <3>. QED
      BY <1>2, <1>3, <1>4, <1>5, <1>6, <3>2
  <2>2. CASE r.route # "ws"
    <3>1. r.upgrade /\ out' = out
      BY <1>6, <1>13, <2>2 DEF ReplyUpgrade
    <3>2. Due(n) = << >>
      BY <2>2, <3>1 DEF Due
    <3>3. Shown(n) = << >>
      <4>1. Len(Shown(n)) <= Len(Due(n)) /\ Len(Shown(n)) \in Nat /\ Shown(n) \in Seq(Answers)
        BY <1>4, <1>7, ShownForm
      <4>2. Len(Due(n)) = 0
        BY <3>2
      <4>. HIDE DEF n
      <4>. QED
        BY <4>1, <4>2
    <3>. QED
      BY <1>2, <1>3, <1>4, <1>5, <1>6, <3>1, <3>3
  <2>. QED
    BY <2>1, <2>2
<1>. QED
  BY <1>1, <1>10, <1>12, <1>13

(* The client has its answer when nothing of it is left to send.           *)
LEMMA AnswerRead ==
    ASSUME IInv, Exchange, ClientRead
    PROVE  \/ Answered' = Answered
           \/ /\ Answered' = Answered + 1 /\ Len(served) = Answered' /\ out = << >>
              /\ wire = Upto(Dues, Answered') /\ Extent(Dues, Answered') = 2 * Answered'
<1>1. /\ Len(served) \in Nat /\ Len(requests) \in Nat /\ Answered \in Nat
      /\ taken \in Nat /\ Len(wire) \in Nat /\ Len(out) \in Nat
  BY Counts
<1>2. taken' = taken + 1 /\ taken < Len(wire)
  BY DEF ClientRead
<1>3. Answered' = Answered \/ (Answered' = Answered + 1 /\ taken' = 2 * Answered')
  BY <1>1, <1>2, HalfStep
<1>4. SUFFICES ASSUME Answered' = Answered + 1, taken' = 2 * Answered'
               PROVE  /\ Len(served) = Answered' /\ out = << >>
                      /\ wire = Upto(Dues, Answered') /\ Extent(Dues, Answered') = 2 * Answered'
  BY <1>3
<1>5. Len(wire) >= 2 * Answered + 2
  BY <1>1, <1>2, <1>4
<1>6. Len(served) = Answered + 1
  BY <1>1, <1>5, WireLength
<1>. DEFINE m == Len(served)
<1>7. m \in 1 .. Len(requests) /\ Len(wire) + Len(out) = 2 * Answered + Len(Shown(m))
  BY <1>6, WireLength
<1>8. requests \in Seq(Shapes) /\ WriteRoom \in Nat \ {0}
  BY Typed DEF IInv, Sound
<1>9. Len(Shown(m)) <= 2 /\ Len(Shown(m)) \in Nat /\ (Len(Shown(m)) = 2 => Shown(m) = Due(m) /\ Len(Due(m)) = 2)
  BY <1>7, <1>8, ShownForm
<1>10. Len(Shown(m)) = 2 /\ Len(out) = 0
  <2>. DEFINE k == Len(Shown(m))
  <2>1. k <= 2 /\ k \in Nat /\ Len(wire) + Len(out) = 2 * Answered + k
    BY <1>7, <1>9
  <2>. HIDE DEF k
  <2>2. k = 2 /\ Len(out) = 0
    BY <1>1, <1>5, <2>1
  <2>. QED
    BY <2>2 DEF k
<1>11. out = << >> /\ wire \o out = wire
  BY <1>10 DEF IInv, RingInv
<1>12. wire = Upto(Dues, Answered) \o Due(m) /\ Extent(Dues, Answered) = 2 * Answered /\ Len(Due(m)) = 2
  <2>1. Extent(Dues, Answered) = 2 * Answered /\ wire \o out = Upto(Dues, Answered) \o Shown(m)
    BY <1>1, <1>6, SMTT(30) DEF Exchange, Wired
  <2>. QED
    BY <1>9, <1>10, <1>11, <2>1
<1>13. /\ Upto(Dues, m) = Upto(Dues, m - 1) \o Dues[m] /\ Dues[m] = Due(m)
       /\ Extent(Dues, m) = Extent(Dues, m - 1) + Len(Dues[m])
  <2>1. Dues \in Seq(Seq(Answers)) /\ m \in 1 .. Len(Dues) /\ Dues[m] = Due(m)
    BY <1>7, <1>8, DueForm
  <2>. HIDE DEF m
  <2>. QED
    BY <2>1, UptoStep
<1>14. m - 1 = Answered /\ m = Answered'
  BY <1>1, <1>4, <1>6
<1>. HIDE DEF m
<1>15. wire = Upto(Dues, m) /\ Extent(Dues, m) = 2 * m
  <2>1. wire = Upto(Dues, m)
    BY <1>12, <1>13, <1>14
  <2>2. Extent(Dues, m) = 2 * Answered + 2
    BY <1>12, <1>13, <1>14
  <2>3. m = Answered + 1
    BY <1>4, <1>14
  <2>. QED
    BY <1>1, <2>1, <2>2, <2>3
<1>. QED
  BY <1>11, <1>14, <1>15 DEF m

(* Only reading changes what the client has read.                          *)
LEMMA AnswersStand ==
    ASSUME [Next]_vars, ~ClientRead
    PROVE  taken' = taken /\ Answered' = Answered
<1>1. taken' = taken
  BY DEF Next, Worker, EpollWait, RecvFull, RecvData, RecvEnd, RecvEmpty, ParseWhole, ParsePart,
         ParseFault, HandleRequest, Flush, HandleOut, ClientSend, ClientEnd, vars, clientVars
<1>. QED
  BY <1>1 DEF Answered

(* The manners are kept: what the server receives ends where a segment     *)
(* ends, or behind the head of the request that fills the ring.            *)
LEMMA MannersStep == ASSUME IInv, Exchange, Mannered, [Next]_vars PROVE Manners'
<1>1. stream' = stream /\ patient' = patient /\ requests' = requests
  BY SettledStep
<1>2. /\ patient /\ client # "gone" /\ Uncut(arrived) /\ Uncut(got)
      /\ arrived > 0 => stream[arrived].req <= Answered + 1
  BY DEF Mannered, Exchange, Manners
<1>3. /\ Len(served) \in Nat /\ Len(requests) \in Nat /\ Answered \in Nat /\ Len(stream) \in Nat
      /\ parsed \in Nat /\ got \in Nat /\ arrived \in Nat /\ parsed <= got /\ got <= arrived
      /\ (pc # "handle" => Count = Len(served)) /\ Count \in 0 .. Len(requests)
  BY Counts
<1>4. stream \in Seq(Pieces) /\ arrived <= Len(stream)
  BY Typed, StreamForm DEF IInv, Sound
<1>5. client' # "gone"
  <2>1. CASE \E how \in {"ended", "gone"} : ClientEnd(how)
    BY <1>2, <2>1 DEF ClientEnd
  <2>2. CASE ~(\E how \in {"ended", "gone"} : ClientEnd(how))
    BY <1>2, <2>2 DEF Next, Worker, EpollWait, RecvFull, RecvData, RecvEnd, RecvEmpty, ParseWhole,
         ParsePart, ParseFault, HandleRequest, Flush, HandleOut, ClientSend, ClientRead, vars, clientVars
  <2>. QED
    BY <2>1, <2>2
<1>6. Uncut(arrived)' /\ (arrived' > 0 => stream[arrived'].req <= Answered' + 1)
  <2>1. CASE \E p \in 1 .. Len(stream) : ClientSend(p)
    <3>1. PICK p \in 1 .. Len(stream) : ClientSend(p)
      BY <2>1
    <3>2. arrived' = p /\ OneAtATime(p) /\ taken' = taken
      BY <1>2, <3>1 DEF ClientSend
    <3>3. Answered' = Answered
      BY <3>2 DEF Answered
    <3>. QED
      BY <1>1, <3>2, <3>3 DEF OneAtATime, Uncut
  <2>2. CASE ClientRead
    <3>1. arrived' = arrived
      BY <2>2 DEF ClientRead
    <3>2. Answered' = Answered \/ Answered' = Answered + 1
      BY <2>2, AnswerRead
    <3>3. arrived > 0 => stream[arrived].req \in Nat
      <4>1. arrived > 0 => arrived \in 1 .. Len(stream)
        BY <1>3, <1>4
      <4>2. arrived > 0 => stream[arrived] \in Pieces
        BY <1>4, <4>1
      <4>. QED
        BY <4>2 DEF Pieces
    <3>4. arrived > 0 => stream[arrived].req <= Answered' + 1
      BY <1>2, <1>3, <3>2, <3>3
    <3>. QED
      BY <1>1, <1>2, <3>1, <3>4 DEF Uncut
  <2>3. CASE ~(ClientRead \/ \E p \in 1 .. Len(stream) : ClientSend(p))
    <3>1. arrived' = arrived
      BY <2>3 DEF Next, Worker, EpollWait, RecvFull, RecvData, RecvEnd, RecvEmpty, ParseWhole,
         ParsePart, ParseFault, HandleRequest, Flush, HandleOut, ClientEnd, vars, clientVars
    <3>2. Answered' = Answered
      BY <2>3, AnswersStand
    <3>. QED
      BY <1>1, <1>2, <3>1, <3>2 DEF Uncut
  <2>. QED
    BY <2>1, <2>2, <2>3
<1>7. Uncut(got)'
  <2>1. CASE RecvData
    <3>1. /\ pc = "recv" /\ got < arrived /\ RecvRoom = ReadRoom - (got - parsed)
          /\ got' = arrived \/ (got' = got + RecvRoom /\ got + RecvRoom <= arrived)
      <4>1. /\ pc = "recv" /\ got < arrived /\ RecvRoom = ReadRoom - (got - parsed)
            /\ got' = (IF arrived - got < RecvRoom THEN arrived ELSE got + RecvRoom)
        BY <2>1 DEF RecvData, RecvRoom
      <4>2. ReadRoom \in Nat
        BY Typed DEF IInv
      <4>. QED
        BY <1>3, <4>1, <4>2
    <3>2. CASE got' = arrived
      BY <1>1, <1>2, <3>2 DEF Uncut
    <3>3. CASE got' = got + RecvRoom /\ got + RecvRoom <= arrived
      <4>. DEFINE i == Len(served) + 1
                  r == requests[i]
      <4>1. Len(served) # Answered + 1 /\ Answered # Len(requests)
        BY <1>3, <3>1, NothingAhead
      <4>2. Len(served) = Answered /\ Answered < Len(requests) /\ Count = Len(served)
        BY <1>3, <3>1, <4>1, WireLength
      <4>3. i \in 1 .. Len(requests) /\ i - 1 = Len(served) /\ i = Answered + 1
        BY <1>3, <4>2
      <4>4. parsed = End(i - 1) /\ arrived <= End(i)
        BY <4>2, <4>3, NothingAhead DEF Exchange, Turn
      <4>5. HeadSize(r) <= ReadRoom /\ ReadRoom \in Nat
        <5>1. requests \in Seq(Shapes) /\ Encoded /\ ReadRoom \in Nat
          BY Typed DEF IInv, Sound
        <5>2. HeadFits(i)
          BY <4>3 DEF Mannered
        <5>. HIDE DEF i
        <5>. QED
          BY <4>3, <5>1, <5>2, HeadFitsForm
      <4>. HIDE DEF i
      <4>6. /\ r.body \in Nat /\ HeadSize(r) \in 4 .. 12
            /\ End(i) = End(i - 1) + HeadSize(r) + r.body
            /\ \A j \in 1 .. HeadSize(r) + r.body : PieceAt(stream[End(i - 1) + j], i, r, j)
        BY <4>3, Typed, RequestForm DEF IInv, Sound
      <4>7. got' = parsed + ReadRoom
        BY <1>3, <3>1, <3>3, <4>5
      <4>8. ReadRoom \in 1 .. HeadSize(r) + r.body
        <5>1. HeadSize(r) + r.body \in Nat
          BY <4>6
        <5>2. parsed + ReadRoom <= parsed + (HeadSize(r) + r.body)
          <6>1. parsed + ReadRoom <= arrived
            BY <3>3, <4>7
          <6>2. arrived <= parsed + HeadSize(r) + r.body
            BY <4>4, <4>6
          <6>. DEFINE h == HeadSize(r)
                      b == r.body
          <6>3. h \in Nat /\ b \in Nat
            BY <4>6
          <6>. HIDE DEF h, b, r
          <6>4. parsed + ReadRoom <= parsed + (h + b)
            BY <1>3, <4>5, <6>1, <6>2, <6>3 DEF h, b
          <6>. QED
            BY <6>4 DEF h, b
        <5>3. ReadRoom > 0
          BY <4>5, <4>6
        <5>. QED
          BY <1>3, <4>5, <5>1, <5>2, <5>3
      <4>9. PieceAt(stream[got'], i, r, ReadRoom)
        BY <4>4, <4>6, <4>7, <4>8
      <4>10. stream[got'].kind \notin LineEnds \ {"blank"}
        <5>1. /\ 2 < HeadSize(r) /\ HeadSize(r) - 2 < HeadSize(r)
              /\ r.agent => 4 < HeadSize(r)
              /\ r.close => 4 + Naming(r) < HeadSize(r)
              /\ r.upgrade => 4 + Naming(r) + Closing(r) < HeadSize(r)
          BY DEF HeadSize, Naming, Closing, Upgrading, Carrying
        <5>2. /\ ReadRoom # 2 /\ ReadRoom # HeadSize(r) - 2
              /\ r.agent => ReadRoom # 4
              /\ r.close => ReadRoom # 4 + Naming(r)
              /\ r.upgrade => ReadRoom # 4 + Naming(r) + Closing(r)
          BY <4>5, <4>6, <5>1
        <5>. HIDE DEF r
        <5>. QED
          BY <4>9, <5>2 DEF PieceAt, LineEnds
      <4>. QED
        BY <1>1, <4>10 DEF Uncut
    <3>. QED
      BY <3>1, <3>2, <3>3
  <2>2. CASE ~RecvData
    <3>1. got' = got
      BY <2>2 DEF Next, Worker, EpollWait, RecvFull, RecvEnd, RecvEmpty, ParseWhole, ParsePart,
         ParseFault, HandleRequest, Flush, HandleOut, ClientSend, ClientRead, ClientEnd, vars
    <3>. QED
      BY <1>1, <1>2, <3>1 DEF Uncut
  <2>. QED
    BY <2>1, <2>2
<1>8. (arrived > 0 => stream[arrived].req <= Answered + 1)'
  BY <1>1, <1>6
<1>. QED
  BY <1>5, <1>6, <1>7, <1>8 DEF Manners

(* The session stays at the beginning of a request and at most one ahead.  *)
LEMMA TurnStep ==
    ASSUME IInv, Exchange, Running, Mannered, [Next]_vars
    PROVE  Turn'
<1>1. stream' = stream /\ \A i : End(i)' = End(i)
  BY SettledStep DEF End
<1>2. /\ Len(served) \in Nat /\ Answered \in Nat
      /\ (pc = "handle" => Count = Len(served) + 1) /\ (pc # "handle" => Count = Len(served))
  BY Counts
<1>3. ~torn /\ parsed = End(Count) /\ Answered <= Len(served) /\ Count <= Answered + 1
  BY DEF Exchange, Turn
<1>4. CASE ParseWhole
  <2>1. pc = "parse" /\ pc' = "handle" /\ served' = served /\ HasLine
    BY <1>4 DEF ParseWhole
  <2>2. Count' = Len(served) + 1
    BY <2>1 DEF Count
  <2>3. parsed' = End(Len(served) + 1) /\ ~torn'
    BY <1>4, WholeTaken
  <2>4. Len(served) = Answered
    BY <2>1, CurrentLine
  <2>5. Answered' = Answered
    BY <1>4 DEF ParseWhole, clientVars, Answered
  <2>6. (parsed = End(Count))'
    BY <1>1, <2>2, <2>3 DEF End
  <2>. QED
    BY <1>2, <2>1, <2>2, <2>3, <2>4, <2>5, <2>6 DEF Turn
<1>5. CASE HandleRequest
  <2>1. Len(served) = Answered /\ Count = Len(served) + 1 /\ cur \in 1 .. Len(requests)
    BY <1>5, HandleAnswer, HandleEffect
  <2>2. /\ pc' = "parse" /\ served' = Append(served, cur) /\ parsed' = parsed
        /\ Answered' = Answered /\ torn' = torn
    BY <1>5 DEF HandleRequest, clientVars, Answered
  <2>3. Len(served') = Len(served) + 1
    <3>1. served \in Seq(1 .. Len(requests))
      BY Typed DEF IInv
    <3>. QED
      BY <2>1, <2>2, <3>1
  <2>4. Count' = Len(served) + 1
    <3>1. Count' = Len(served') + 0
      BY <2>2 DEF Count
    <3>. QED
      BY <1>2, <2>3, <3>1
  <2>5. (parsed = End(Count))'
    BY <1>1, <1>3, <2>1, <2>2, <2>4 DEF End
  <2>. QED
    BY <1>2, <1>3, <2>1, <2>2, <2>3, <2>4, <2>5 DEF Turn
<1>6. CASE ~(ParseWhole \/ HandleRequest)
  <2>1. served' = served /\ parsed' = parsed /\ Count' = Count /\ torn' = torn
    BY <1>6, PlaceStands
  <2>2. Answered' = Answered \/ (Answered' = Answered + 1 /\ Len(served) = Answered')
    BY AnswerRead, AnswersStand
  <2>3. (parsed = End(Count))'
    BY <1>1, <1>3, <2>1 DEF End
  <2>4. (Answered <= Len(served) /\ Count <= Answered + 1)'
    BY <1>2, <1>3, <2>1, <2>2
  <2>. QED
    BY <1>3, <2>1, <2>3, <2>4 DEF Turn
<1>. QED
  BY <1>4, <1>5, <1>6

(* What is on the wire and in the ring stays what is due.                  *)
LEMMA WiredStep ==
    ASSUME IInv, Exchange, [Next]_vars
    PROVE  Wired'
<1>1. Dues' = Dues /\ \A i : Shown(i)' = Shown(i)
  <2>1. requests' = requests
    BY SettledStep
  <2>2. \A i : Due(i)' = Due(i)
    BY <2>1, Zenon DEF Due, Parting
  <2>. QED
    BY <2>1, <2>2, Zenon DEF Dues, Shown
<1>2. /\ Extent(Dues, Answered) = 2 * Answered
      /\ Len(served) = Answered => wire = Upto(Dues, Answered) /\ out = << >>
      /\ Len(served) # Answered => wire \o out = Upto(Dues, Answered) \o Shown(Len(served))
  BY DEF Exchange, Wired
<1>3. ASSUME Answered' = Answered, served' = served, wire' \o out' = wire \o out,
             out = << >> => out' = out /\ wire' = wire
      PROVE  Wired'
  <2>1. (Extent(Dues, Answered) = 2 * Answered)'
    BY <1>1, <1>2, <1>3
  <2>2. (Len(served) = Answered => wire = Upto(Dues, Answered) /\ out = << >>)'
    BY <1>1, <1>2, <1>3
  <2>3. (Len(served) # Answered => wire \o out = Upto(Dues, Answered) \o Shown(Len(served)))'
    BY <1>1, <1>2, <1>3 DEF Shown
  <2>. QED
    BY <2>1, <2>2, <2>3 DEF Wired
<1>4. CASE HandleRequest
  <2>1. /\ Len(served) = Answered /\ Count = Len(served) + 1 /\ cur = Count
        /\ wire = Upto(Dues, Answered) /\ out' = Shown(Count)
    BY <1>4, HandleAnswer
  <2>2. served' = Append(served, cur) /\ wire' = wire /\ Answered' = Answered
    BY <1>4 DEF HandleRequest, clientVars, Answered
  <2>3. Len(served') = Count /\ Count = Answered + 1 /\ Answered \in Nat
    <3>1. served \in Seq(1 .. Len(requests)) /\ cur \in 1 .. Len(requests)
      BY <1>4, Typed, HandleEffect DEF IInv
    <3>. QED
      BY <2>1, <2>2, <3>1, Counts, SMTT(30)
  <2>4. (Extent(Dues, Answered) = 2 * Answered)'
    BY <1>1, <1>2, <2>2
  <2>5. ~(Len(served) = Answered)'
    BY <2>2, <2>3
  <2>6. (wire \o out = Upto(Dues, Answered) \o Shown(Len(served)))'
    BY <1>1, <2>1, <2>2, <2>3 DEF Shown
  <2>. QED
    BY <2>4, <2>5, <2>6 DEF Wired
<1>5. ASSUME NEW next, NEW blocked, WriteReady(next, blocked), taken' = taken, served' = served
      PROVE  Wired'
  <2>1. wire' \o out' = wire \o out /\ (out = << >> => out' = out /\ wire' = wire)
    <3>1. TypeOK /\ Encoded /\ RingInv
      BY DEF IInv
    <3>. QED
      BY <1>5, <3>1, WriteEffect
  <2>2. Answered' = Answered
    BY <1>5 DEF Answered
  <2>. QED
    BY <1>3, <1>5, <2>1, <2>2
<1>6. CASE Flush
  <2>1. WriteReady("recv", AfterRead) /\ taken' = taken /\ served' = served
    BY <1>6 DEF Flush, clientVars
  <2>. QED
    BY <1>5, <2>1
<1>7. CASE HandleOut
  <2>1. WriteReady("idle", "idle") /\ taken' = taken /\ served' = served
    BY <1>7 DEF HandleOut, clientVars
  <2>. QED
    BY <1>5, <2>1
<1>8. CASE ClientRead
  <2>1. out' = out /\ wire' = wire /\ served' = served
    BY <1>8 DEF ClientRead
  <2>2. CASE Answered' = Answered
    BY <1>3, <2>1, <2>2
  <2>3. CASE Answered' # Answered
    <3>1. /\ Len(served) = Answered' /\ out = << >>
          /\ wire = Upto(Dues, Answered') /\ Extent(Dues, Answered') = 2 * Answered'
      BY <1>8, <2>3, AnswerRead
    <3>2. (Len(served) = Answered)' /\ (wire = Upto(Dues, Answered) /\ out = << >>)'
          /\ (Extent(Dues, Answered) = 2 * Answered)'
      BY <1>1, <2>1, <3>1
    <3>. QED
      BY <3>2 DEF Wired
  <2>. QED
    BY <2>2, <2>3
<1>9. CASE ~(HandleRequest \/ Flush \/ HandleOut \/ ClientRead)
  <2>1. out' = out /\ wire' = wire /\ served' = served
    BY <1>9 DEF Next, Worker, EpollWait, RecvFull, RecvData, RecvEnd, RecvEmpty, ParseWhole,
                ParsePart, ParseFault, ClientSend, ClientEnd, vars
  <2>2. Answered' = Answered
    BY <1>9, AnswersStand
  <2>. QED
    BY <1>3, <2>1, <2>2
<1>. QED
  BY <1>4, <1>6, <1>7, <1>8, <1>9

(* Nothing is left of an answered request.                                 *)
LEMMA FreshStep ==
    ASSUME IInv, Exchange, Running, [Next]_vars
    PROVE  Fresh'
<1>1. requests' = requests
  BY SettledStep
<1>2. SUFFICES ASSUME open', pc' # "handle", out' = << >>, Len(wire') = 2 * Len(served')
               PROVE  /\ body' = 0
                      /\ upgrade' => Len(served') < Len(requests) /\ requests[Len(served') + 1].upgrade
  BY <1>1 DEF Fresh
<1>3. ASSUME open, pc # "handle", out = << >>, Len(wire) = 2 * Len(served)
      PROVE  body = 0 /\ (upgrade => Len(served) < Len(requests) /\ requests[Len(served) + 1].upgrade)
  BY <1>3 DEF Exchange, Fresh
<1>4. ASSUME open' = open, pc # "handle", out' = out, wire' = wire, served' = served,
             body' = body, upgrade' = upgrade
      PROVE  /\ body' = 0
             /\ upgrade' => Len(served') < Len(requests) /\ requests[Len(served') + 1].upgrade
  BY <1>2, <1>3, <1>4
<1>5. CASE ParsePart
  <2>1. pc = "parse" /\ open' = open /\ out' = out /\ wire' = wire /\ served' = served /\ body' = body
    BY <1>5 DEF ParsePart
  <2>2. body = 0 /\ (upgrade => Len(served) < Len(requests) /\ requests[Len(served) + 1].upgrade)
    BY <1>2, <1>3, <2>1
  <2>3. CASE HasLine
    <3>1. upgrade' = (upgrade \/ Says("upgrade"))
      BY <1>5, <2>3 DEF ParsePart, ParseHead
    <3>2. Len(served) + 1 \in 1 .. Len(requests) /\ parsed = End(Len(served))
      BY <2>1, <2>3, CurrentLine
    <3>3. Len(served) \in Nat /\ Len(requests) \in Nat
      BY Counts
    <3>4. Sound /\ parsed = End((Len(served) + 1) - 1)
      BY <3>2, <3>3, Typed DEF IInv
    <3>5. Says("upgrade") => requests[Len(served) + 1].upgrade
      BY <3>2, <3>4, HeadersSay
    <3>6. upgrade' => Len(served) < Len(requests) /\ requests[Len(served) + 1].upgrade
      <4>1. upgrade' => upgrade \/ Says("upgrade")
        BY <3>1, Zenon
      <4>2. Len(served) < Len(requests)
        BY <3>2, <3>3
      <4>. QED
        BY <2>2, <3>5, <4>1, <4>2, Zenon
    <3>. QED
      BY <2>1, <2>2, <3>6
  <2>4. CASE ~HasLine
    <3>1. upgrade' = upgrade
      BY <1>5, <2>4 DEF ParsePart
    <3>. QED
      BY <2>1, <2>2, <3>1
  <2>. QED
    BY <2>3, <2>4
<1>6. CASE ParseWhole
  BY <1>2, <1>6 DEF ParseWhole
<1>7. CASE HandleRequest
  <2>1. Len(served) = Answered /\ Len(wire) = 2 * Answered /\ cur \in 1 .. Len(requests)
    BY <1>7, HandleAnswer, HandleEffect
  <2>2. served' = Append(served, cur) /\ wire' = wire
    BY <1>7 DEF HandleRequest
  <2>3. Len(served') = Len(served) + 1 /\ Len(served) \in Nat
    <3>1. served \in Seq(1 .. Len(requests)) /\ cur \in 1 .. Len(requests)
      BY <2>1, Typed DEF IInv
    <3>2. Len(Append(served, cur)) = Len(served) + 1 /\ Len(served) \in Nat
      BY <3>1
    <3>. QED
      BY <2>2, <3>2
  <2>. QED
    BY <1>2, <2>1, <2>2, <2>3
<1>8. ASSUME NEW next, NEW blocked, WriteReady(next, blocked), served' = served, pc # "handle"
      PROVE  /\ body' = 0
             /\ upgrade' => Len(served') < Len(requests) /\ requests[Len(served') + 1].upgrade
  <2>1. \/ UNCHANGED <<out, wire, open, reqVars>>
        \/ body' = 0 /\ upgrade' = FALSE
    BY <1>2, <1>8 DEF WriteReady, CloseSocket, Reset
  <2>. QED
    BY <1>4, <1>8, <2>1 DEF reqVars
<1>9. CASE Flush
  <2>1. WriteReady("recv", AfterRead) /\ pc = "flush" /\ served' = served
    BY <1>9 DEF Flush
  <2>. QED
    BY <1>8, <2>1
<1>10. CASE HandleOut
  <2>1. WriteReady("idle", "idle") /\ pc = "write" /\ served' = served
    BY <1>10 DEF HandleOut
  <2>. QED
    BY <1>8, <2>1
<1>11. CASE RecvFull \/ RecvEnd
  BY <1>2, <1>11 DEF RecvFull, RecvEnd, CloseSocket
<1>12. CASE ~(ParsePart \/ ParseWhole \/ HandleRequest \/ Flush \/ HandleOut \/ RecvFull \/ RecvEnd)
  <2>1. UNCHANGED <<open, out, wire, reqVars>>
    BY <1>12 DEF Next, Worker, EpollWait, RecvData, RecvEmpty, ParseFault, ClientSend, ClientRead,
                 ClientEnd, vars
  <2>2. served' = served /\ pc # "handle"
    BY <1>2, <1>12, PlaceStands
  <2>. QED
    BY <1>4, <2>1, <2>2 DEF reqVars
<1>. QED
  BY <1>5, <1>6, <1>7, <1>9, <1>10, <1>11, <1>12

(* The fields are those of the request that has been taken.                *)
LEMMA TakenStep ==
    ASSUME IInv, Exchange, Running, [Next]_vars
    PROVE  Taken'
<1>1. requests' = requests
  BY SettledStep
<1>2. SUFFICES ASSUME pc' = "handle"
               PROVE  /\ path' = requests[Count'].route
                      /\ keepAlive' = ~requests[Count'].close
                      /\ upgrade' = requests[Count'].upgrade
                      /\ body' = IF requests[Count'].body > 0 THEN Count' ELSE 0
  <2>1. CASE pc' # "handle"
    BY <2>1 DEF Taken
  <2>2. CASE pc' = "handle"
    BY <1>1, <1>2, <2>2 DEF Taken
  <2>. QED
    BY <2>1, <2>2
<1>3. CASE ParseWhole
  <2>1. served' = served
    BY <1>3 DEF ParseWhole
  <2>2. Count' = Len(served) + 1
    BY <1>2, <2>1 DEF Count
  <2>. QED
    BY <1>3, <2>2, WholeTaken
<1>4. CASE ~ParseWhole
  <2>1. ~HandleRequest
    BY <1>2 DEF HandleRequest
  <2>2. pc = "handle" /\ Count' = Count
    BY <1>2, <1>4, <2>1, PlaceStands
  <2>3. keepAlive' = keepAlive /\ UNCHANGED reqVars
    BY <1>4, <2>1, <2>2 DEF Next, Worker, EpollWait, RecvFull, RecvData, RecvEnd, RecvEmpty, ParsePart,
       ParseFault, Flush, HandleOut, ClientSend, ClientRead, ClientEnd, vars
  <2>. QED
    BY <2>2, <2>3 DEF Exchange, Taken, reqVars
<1>. QED
  BY <1>3, <1>4

(* What an answer in the ring promises stands while it is there.           *)
LEMMA PromisedStep ==
    ASSUME IInv, Exchange, [Next]_vars
    PROVE  Promised'
<1>. SUFFICES ASSUME open', out' # << >> PROVE keepAlive' = ~Parting(Last(out').to)
  BY SettledStep DEF Promised, Parting
<1>1. open' /\ out' # << >>
  OBVIOUS
<1>2. ASSUME open, out # << >> PROVE keepAlive = ~Parting(Last(out).to)
  BY <1>2 DEF Exchange, Promised
<1>3. CASE HandleRequest
  BY <1>1, <1>3, HandleAnswer
<1>4. CASE ParseWhole \/ ParsePart
  <2>1. pc = "parse" /\ open' = open /\ out' = out
    BY <1>4 DEF ParseWhole, ParsePart
  <2>2. ~HasLine
    BY <1>1, <2>1, CurrentLine
  <2>3. keepAlive' = keepAlive
    BY <1>4, <2>2 DEF ParseWhole, ParsePart
  <2>. QED
    BY <1>1, <1>2, <2>1, <2>3
<1>5. ASSUME NEW next, NEW blocked, WriteReady(next, blocked), keepAlive' = keepAlive
      PROVE  keepAlive' = ~Parting(Last(out').to)
  <2>1. TypeOK /\ Encoded /\ RingInv
    BY DEF IInv
  <2>2. open' = open /\ out # << >> /\ Last(out') = Last(out)
    BY <1>1, <1>5, <2>1, WriteEffect DEF CloseSocket
  <2>. QED
    BY <1>1, <1>2, <1>5, <2>2
<1>6. CASE Flush
  <2>1. WriteReady("recv", AfterRead) /\ keepAlive' = keepAlive
    BY <1>6 DEF Flush
  <2>. QED
    BY <1>5, <2>1
<1>7. CASE HandleOut
  <2>1. WriteReady("idle", "idle") /\ keepAlive' = keepAlive
    BY <1>7 DEF HandleOut
  <2>. QED
    BY <1>5, <2>1
<1>8. CASE RecvFull \/ RecvEnd
  BY <1>1, <1>8 DEF RecvFull, RecvEnd, CloseSocket
<1>9. CASE ~(HandleRequest \/ ParseWhole \/ ParsePart \/ Flush \/ HandleOut \/ RecvFull \/ RecvEnd)
  <2>1. open' = open /\ out' = out /\ keepAlive' = keepAlive
    BY <1>9 DEF Next, Worker, EpollWait, RecvData, RecvEmpty, ParseFault, ClientSend, ClientRead,
                ClientEnd, vars
  <2>. QED
    BY <1>1, <1>2, <2>1
<1>. QED
  BY <1>3, <1>4, <1>6, <1>7, <1>8, <1>9

(* A closed session rests.                                                 *)
LEMMA RunningStep ==
    ASSUME Running, [Next]_vars
    PROVE  Running'
<1>1. SUFFICES ASSUME pc' # "idle" PROVE open'
  BY DEF Running
<1>2. ASSUME pc # "idle" PROVE open
  BY <1>2 DEF Running
<1>3. CASE Flush \/ HandleOut
  <2>1. pc # "idle" /\ \E next, blocked : WriteReady(next, blocked)
    BY <1>3 DEF Flush, HandleOut
  <2>2. open' = open
    BY <1>1, <2>1 DEF WriteReady, CloseSocket
  <2>. QED
    BY <1>2, <2>1, <2>2
<1>4. CASE Worker /\ ~(Flush \/ HandleOut)
  BY <1>1, <1>2, <1>4 DEF Worker, EpollWait, RecvFull, RecvData, RecvEnd, RecvEmpty, ParseWhole,
     ParsePart, ParseFault, HandleRequest, CloseSocket
<1>5. CASE ~Worker
  BY <1>1, <1>2, <1>5 DEF Next, ClientSend, ClientRead, ClientEnd, vars
<1>. QED
  BY <1>3, <1>4, <1>5

(* No whole request is left unparsed.                                      *)
LEMMA DrainedStep ==
    ASSUME Drained, [Next]_vars
    PROVE  Drained'
<1>1. requests' = requests /\ stream' = stream
  BY SettledStep
<1>2. SUFFICES ASSUME pc' \in {"idle", "recv", "flush", "write"} PROVE ~(HasLine /\ Whole)'
  BY DEF Drained
<1>3. ASSUME got' = got, parsed' = parsed, ~(HasLine /\ Whole) PROVE ~(HasLine /\ Whole)'
  <2>1. Data' = Data
    BY <1>1, <1>3 DEF Data
  <2>2. HeadEnd' = HeadEnd
    BY <2>1 DEF HeadEnd, Blanks
  <2>3. Lengths' = Lengths
    BY <2>1, <2>2 DEF Lengths
  <2>4. ContentLength' = ContentLength
    BY <1>1, <2>1, <2>3 DEF ContentLength
  <2>. QED
    BY <1>3, <2>1, <2>2, <2>4 DEF HasLine, Whole
<1>4. CASE pc \in {"idle", "recv", "flush", "write"} /\ got' = got /\ parsed' = parsed
  BY <1>3, <1>4 DEF Drained
<1>5. CASE ParsePart
  BY <1>3, <1>5 DEF ParsePart
<1>6. CASE ~ParsePart /\ ~(pc \in {"idle", "recv", "flush", "write"} /\ got' = got /\ parsed' = parsed)
  <2>1. ~(pc' \in {"idle", "recv", "flush", "write"})
    <3>1. CASE Worker
      BY <1>6, <3>1 DEF Worker, EpollWait, RecvFull, RecvData, RecvEnd, RecvEmpty, ParseWhole,
         ParseFault, HandleRequest, Flush, HandleOut
    <3>2. CASE ~Worker
      BY <1>6, <3>2 DEF Next, ClientSend, ClientRead, ClientEnd, vars
    <3>. QED
      BY <3>1, <3>2
  <2>. QED
    BY <1>2, <2>1
<1>. QED
  BY <1>4, <1>5, <1>6

(* So a patient client's exchange begins.                                  *)
LEMMA PInitially == Init => PInv
<1>. SUFFICES ASSUME Init PROVE PInv
  OBVIOUS
<1>1. IInv
  BY Initially
<1>2. /\ parsed = 0 /\ got = 0 /\ arrived = 0 /\ taken = 0 /\ served = << >> /\ pc = "idle"
      /\ out = << >> /\ wire = << >> /\ open = TRUE /\ body = 0 /\ upgrade = FALSE
      /\ client = "sending" /\ torn = FALSE
  BY DEF Init
<1>3. requests \in Seq(Shapes) /\ Encoded /\ Sound
  BY <1>1, Typed DEF IInv, Sound
<1>4. Drained
  <2>1. Len(Data) = 0
    BY <1>2, <1>3, DataForm
  <2>. QED
    BY <2>1 DEF Drained, HasLine
<1>5. Running
  BY <1>2 DEF Running
<1>6. Answered = 0 /\ Len(served) = 0 /\ Count = 0
  BY <1>2 DEF Answered, Count
<1>7. Manners
  BY <1>2 DEF Manners, Uncut
<1>8. Turn
  <2>1. End(0) = 0
    BY <1>3, StreamForm
  <2>. QED
    BY <1>2, <1>6, <2>1 DEF Turn
<1>9. Wired
  <2>1. Upto(Dues, 0) = << >> /\ Extent(Dues, 0) = 0
    <3>1. Dues \in Seq(Seq(Answers))
      BY <1>3, DueForm
    <3>. QED
      BY <3>1, UptoEnds DEF Extent
  <2>. QED
    BY <1>2, <1>6, <2>1 DEF Wired
<1>10. Fresh /\ Taken /\ Promised
  BY <1>2 DEF Fresh, Taken, Promised
<1>. QED
  BY <1>1, <1>4, <1>5, <1>7, <1>8, <1>9, <1>10 DEF PInv, Exchange

(* And so it goes on.                                                      *)
LEMMA PStep == PInv /\ [Next]_vars => PInv'
<1>. SUFFICES ASSUME PInv, [Next]_vars PROVE PInv'
  OBVIOUS
<1>1. IInv' /\ Drained' /\ Running'
  BY Step, DrainedStep, RunningStep DEF PInv
<1>2. ASSUME Mannered' PROVE Exchange'
  <2>1. Mannered
    <3>1. patient' = patient /\ requests' = requests /\ stream' = stream
      BY SettledStep
    <3>2. \A i : HeadFits(i)' <=> HeadFits(i)
      BY <3>1 DEF HeadFits, End
    <3>3. patient' /\ \A i \in DOMAIN requests' : HeadFits(i)'
      BY <1>2 DEF Mannered
    <3>. QED
      BY <3>1, <3>2, <3>3 DEF Mannered
  <2>2. IInv /\ Exchange /\ Running
    BY <2>1 DEF PInv
  <2>3. Manners' /\ Turn' /\ Wired' /\ Fresh' /\ Taken' /\ Promised'
    BY <2>1, <2>2, MannersStep, TurnStep, WiredStep, FreshStep, TakenStep, PromisedStep
  <2>. QED
    BY <2>3 DEF Exchange
<1>. QED
  BY <1>1, <1>2 DEF PInv

(* What is on the wire and in the ring is the beginning of what is due.    *)
LEMMA OwnFollows == PInv => OwnAnswers
<1>. SUFFICES ASSUME PInv, Mannered PROVE IsPrefix(wire \o out, FlattenSeq(Dues))
  BY DEF OwnAnswers, Dues
<1>1. IInv /\ Exchange
  BY DEF PInv
<1>2. requests \in Seq(Shapes) /\ WriteRoom \in Nat \ {0}
  BY <1>1, Typed DEF IInv, Sound
<1>3. Dues \in Seq(Seq(Answers)) /\ Len(Dues) = Len(requests)
      /\ \A i \in 1 .. Len(requests) : Dues[i] = Due(i)
  BY <1>2, DueForm
<1>4. /\ Len(served) \in Nat /\ Len(requests) \in Nat /\ Answered \in Nat
      /\ (pc = "handle" => Count = Len(served) + 1) /\ (pc # "handle" => Count = Len(served))
      /\ Count \in 0 .. Len(requests)
  BY <1>1, Counts
<1>5. Len(served) = Answered \/ Len(served) = Answered + 1
  BY <1>1, WireLength
<1>6. CASE Len(served) = Answered
  <2>1. wire = Upto(Dues, Answered) /\ out = << >>
    BY <1>1, <1>6 DEF Exchange, Wired
  <2>2. wire \o out = wire
    BY <1>1, <2>1 DEF IInv, RingInv
  <2>3. Answered \in 0 .. Len(Dues)
    BY <1>3, <1>4, <1>6
  <2>. QED
    BY <1>3, <2>1, <2>2, <2>3, UptoPrefix
<1>7. CASE Len(served) = Answered + 1
  <2>. DEFINE m == Len(served)
  <2>1. wire \o out = Upto(Dues, Answered) \o Shown(m)
    BY <1>1, <1>4, <1>7, SMTT(30) DEF Exchange, Wired
  <2>2. m \in 1 .. Len(requests) /\ m - 1 = Answered
    BY <1>1, <1>4, <1>7, WireLength
  <2>. HIDE DEF m
  <2>3. /\ Shown(m) \in Seq(Answers) /\ Len(Shown(m)) <= Len(Due(m))
        /\ \A j \in 1 .. Len(Shown(m)) : Shown(m)[j] = Due(m)[j]
    BY <1>2, <2>2, ShownForm
  <2>4. Dues[m] = Due(m) /\ m \in 1 .. Len(Dues)
    BY <1>3, <2>2
  <2>5. /\ Shown(m) \in Seq(Answers) /\ Len(Shown(m)) <= Len(Dues[m])
        /\ \A j \in 1 .. Len(Shown(m)) : Shown(m)[j] = Dues[m][j]
    BY <2>3, <2>4, Zenon
  <2>6. IsPrefix(Upto(Dues, m - 1) \o Shown(m), FlattenSeq(Dues))
    BY <1>3, <2>4, <2>5, UptoAndMore
  <2>. QED
    BY <2>1, <2>2, <2>6
<1>. QED
  BY <1>5, <1>6, <1>7

(* OwnAnswers: a patient client gets the answers to its requests, whole,   *)
(* in order, each as if the request were alone: an echo shows its own body *)
(* and the head has the values for its own request, so onWriteComplete's   *)
(* reset leaves no field of _req to the next.                              *)
THEOREM AnswersAreOwn == Spec => []OwnAnswers
  BY PInitially, PStep, OwnFollows, PTL DEF Spec

(* A request whose head does not fit does not fit.                         *)
LEMMA TooLarge ==
    ASSUME IInv, NEW i \in 1 .. Len(requests), ~HeadFits(i)
    PROVE  ~Fits(i)
<1>1. requests[i].body \in Nat /\ End(i - 1) \in Nat /\ HeadSize(requests[i]) \in 4 .. 12
      /\ End(i) = End(i - 1) + HeadSize(requests[i]) + requests[i].body /\ ReadRoom \in Nat
  BY Typed, RequestForm DEF IInv, Sound
<1>2. End(i) \in Nat
  BY <1>1, SMTT(30)
<1>3. ~(End(i) - End(i - 1) - requests[i].body <= ReadRoom)
  BY DEF HeadFits
<1>. DEFINE e == End(i)
            d == End(i - 1)
            b == requests[i].body
<1>. HIDE DEF e, d, b
<1>4. ~(e - d <= ReadRoom)
  BY <1>1, <1>2, <1>3 DEF e, d, b
<1>. QED
  BY <1>4 DEF Fits, e, d

(* A ring without a whole request in it is full only of one too large.     *)
LEMMA FullOfTooLarge ==
    ASSUME PInv, Mannered, RecvFull
    PROVE  \E i \in DOMAIN requests : ~Fits(i)
<1>1. IInv /\ Exchange /\ pc = "recv" /\ ~(HasLine /\ Whole)
  BY DEF PInv, RecvFull, Drained
<1>2. got - parsed = ReadRoom /\ ReadRoom \in Nat \ {0}
  <2>1. ReadRoom - (got - parsed) = 0 /\ ReadRoom \in Nat \ {0} /\ got \in Nat /\ parsed \in Nat
    BY <1>1, Typed DEF RecvFull, RecvRoom, IInv, Sound
  <2>. QED
    BY <2>1
<1>3. /\ Len(served) \in Nat /\ Len(requests) \in Nat /\ Answered \in Nat
      /\ parsed \in Nat /\ got \in Nat /\ arrived \in Nat
      /\ parsed <= got /\ got <= arrived /\ Count = Len(served) /\ Count \in 0 .. Len(requests)
  BY <1>1, Counts
<1>. DEFINE i == Len(served) + 1
            r == requests[i]
<1>4. Len(served) = Answered /\ Answered < Len(requests)
  <2>1. got # parsed
    BY <1>2, <1>3
  <2>2. Len(served) # Answered + 1 /\ Answered # Len(requests)
    BY <1>1, <2>1, NothingAhead
  <2>. QED
    BY <1>1, <1>3, <2>2, WireLength
<1>5. i \in 1 .. Len(requests) /\ i - 1 = Len(served) /\ parsed = End(i - 1) /\ arrived <= End(i)
  <2>1. i \in 1 .. Len(requests) /\ i - 1 = Len(served) /\ i = Answered + 1
    BY <1>3, <1>4
  <2>2. parsed = End(Count) /\ arrived <= End(Answered + 1)
    BY <1>1, <1>4, NothingAhead DEF Exchange, Turn
  <2>. QED
    BY <1>3, <2>1, <2>2
<1>. HIDE DEF i
<1>6. Sound /\ MaxBody \in Nat
  BY <1>1, Typed DEF IInv
<1>7. /\ r.body \in Nat /\ HeadSize(r) \in 4 .. 12 /\ End(i - 1) \in Nat
      /\ End(i) = End(i - 1) + HeadSize(r) + r.body
      /\ \A j \in 1 .. HeadSize(r) + r.body : PieceAt(stream[End(i - 1) + j], i, r, j)
  BY <1>5, <1>6, RequestForm DEF Sound
<1>8. HeadSize(r) <= ReadRoom
  <2>1. HeadFits(i)
    BY <1>5 DEF Mannered
  <2>. QED
    BY <1>2, <1>5, <1>6, <2>1, HeadFitsForm DEF Sound
<1>9. Len(Data) = ReadRoom
  BY <1>2, <1>6, DataForm
<1>10. HasLine
  <2>1. 2 \in 1 .. Len(Data) /\ 2 <= HeadSize(r) + r.body
    BY <1>2, <1>7, <1>8, <1>9
  <2>2. PieceAt(Data[2], i, r, 2)
    BY <1>5, <1>6, <2>1, DataOf
  <2>. QED
    BY <2>1, <2>2 DEF PieceAt, HasLine
<1>11. ~(r.body <= MaxBody /\ Len(Data) >= HeadSize(r) + r.body)
  <2>1. Whole <=> r.body <= MaxBody /\ Len(Data) >= HeadSize(r) + r.body
    BY <1>5, <1>6, <1>8, <1>9, <1>10, WholeForm
  <2>. QED
    BY <1>1, <1>10, <2>1
<1>. DEFINE h == HeadSize(r)
            b == r.body
            size == End(i) - End(i - 1)
<1>12. size = h + b /\ size \in Nat /\ b \in Nat /\ h \in Nat
  BY <1>7
<1>13. ReadRoom <= size
  <2>. DEFINE e == End(i)
  <2>1. got <= e /\ parsed = End(i - 1) /\ e \in Nat
    <3>1. arrived <= e /\ e = End(i - 1) + h + b /\ parsed = End(i - 1)
      BY <1>5, <1>7
    <3>. HIDE DEF e, h, b
    <3>. QED
      BY <1>3, <1>12, <3>1
  <2>2. size = e - parsed
    BY <2>1
  <2>. HIDE DEF e, size
  <2>. QED
    BY <1>2, <1>3, <2>1, <2>2
<1>. HIDE DEF h, b, size, r
<1>14. ~(size <= ReadRoom /\ (b > MaxBody => size < ReadRoom))
  BY <1>2, <1>6, <1>9, <1>11, <1>12, <1>13 DEF h, b
<1>15. ~Fits(i)
  BY <1>14 DEF Fits, size, b, r
<1>. QED
  BY <1>5, <1>15

(* CloseJustified: the server closes a patient client's connection only    *)
(* after the whole answer to a request that parts, for a request that      *)
(* cannot fit the ring, or when the client ends: _keepAlive, set by        *)
(* parseRequest and read by onWriteComplete, is still that of the request  *)
(* whose answer has just been sent.                                        *)
THEOREM ClosesWhenJustified == Spec => CloseJustified
<1>1. ASSUME PInv, [Next]_vars, open, ~open', patient
      PROVE  \/ out' = << >> /\ wire' # << >> /\ Parting(Last(wire').to)
             \/ client = "ended"
             \/ \E i \in DOMAIN requests : ~Fits(i)
  <2>1. IInv /\ DOMAIN requests = 1 .. Len(requests)
    <3>1. IInv /\ requests \in Seq(Shapes)
      BY <1>1, Typed DEF PInv, IInv, Sound
    <3>. QED
      BY <3>1
  <2>2. CASE ~Mannered
    <3>1. PICK i \in DOMAIN requests : ~HeadFits(i)
      BY <1>1, <2>2 DEF Mannered
    <3>. QED
      BY <2>1, <3>1, TooLarge
  <2>3. CASE Mannered
    <3>1. Exchange
      BY <1>1, <2>3 DEF PInv
    <3>2. client # "gone" /\ client \in {"sending", "ended", "gone"}
      BY <2>1, <3>1 DEF Exchange, Manners, IInv, TypeOK
    <3>3. CASE RecvFull
      BY <1>1, <2>3, <3>3, FullOfTooLarge
    <3>4. CASE RecvEnd
      BY <3>2, <3>4 DEF RecvEnd
    <3>5. ASSUME NEW next, NEW blocked, WriteReady(next, blocked)
          PROVE  out' = << >> /\ wire' # << >> /\ Parting(Last(wire').to)
      <4>1. TypeOK /\ Encoded /\ RingInv
        BY <2>1 DEF IInv
      <4>2. /\ out # << >> /\ out' = << >> /\ ~Kept /\ wire' # << >> /\ Last(wire') = Last(out)
        BY <1>1, <3>2, <3>5, <4>1, WriteEffect
      <4>3. keepAlive = ~Parting(Last(out).to)
        BY <1>1, <3>1, <4>2 DEF Exchange, Promised
      <4>. QED
        BY <4>2, <4>3 DEF Kept
    <3>6. CASE Flush \/ HandleOut
      BY <3>5, <3>6 DEF Flush, HandleOut
    <3>7. CASE ~(RecvFull \/ RecvEnd \/ Flush \/ HandleOut)
      <4>1. open' = open
        BY <1>1, <3>7 DEF Next, Worker, EpollWait, RecvData, RecvEmpty, ParseWhole, ParsePart, ParseFault,
           HandleRequest, ClientSend, ClientRead, ClientEnd, vars
      <4>. QED
        BY <1>1, <4>1
    <3>. QED
      BY <3>3, <3>4, <3>6, <3>7
  <2>. QED
    BY <2>2, <2>3
<1>. QED
  BY <1>1, PInitially, PStep, PTL DEF Spec, CloseJustified
=============================================================================
