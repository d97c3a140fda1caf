------------------------ MODULE WebSocketCodecProofs ------------------------
(***************************************************************************)
(* Proofs of the safety properties of WebSocketCodec.                      *)
(***************************************************************************)
EXTENDS WebSocketCodec, SequenceLemmas

(* The pieces of a client's stream, and the frames it is joined from.      *)
Pieces == [frame : Nat, kind : {"head", "length", "mask", "byte"}]
Parts == [i \in DOMAIN frames |-> Encode(i, frames[i])]
Replies == [op : {"http", "data", "pong", "close"}, of : 0 .. Len(frames), part : 1 .. 2]

(* What the client sends does not change under way.                        *)
Encoded == stream = FlattenSeq(Parts)

(* The write ring, what was written to it and the wire hold pieces of      *)
(* replies.                                                                *)
RingInv == out \in Seq(Replies) /\ put \in Seq(Replies) /\ wire \in Seq(Replies)

(* A session that has sent its Close reads no more frames.                 *)
SilentInv == closeSent => status # "open"

IInv ==
    /\ TypeOK /\ Encoded /\ RingInv /\ SilentInv
    /\ FramesInOrder /\ NothingLeft /\ RepliesIntact

-----------------------------------------------------------------------------
(***************************************************************************)
(* The stream.                                                             *)
(***************************************************************************)

(* A frame is as long as its header says, and all its pieces are its own.  *)
LEMMA EncodeForm ==
    ASSUME NEW i \in Nat, NEW f \in Frames
    PROVE  /\ Encode(i, f) \in Seq(Pieces)
           /\ Len(Encode(i, f)) = 1 + (IF f.wide THEN 1 ELSE 0) + (IF f.masked THEN 1 ELSE 0) + f.len
           /\ \A j \in 1 .. Len(Encode(i, f)) : Encode(i, f)[j].frame = i
<1>. DEFINE Own == [frame : {i}, kind : {"head", "length", "mask", "byte"}]
            a == <<[frame |-> i, kind |-> "head"]>>
            b == IF f.wide THEN <<[frame |-> i, kind |-> "length"]>> ELSE << >>
            c == IF f.masked THEN <<[frame |-> i, kind |-> "mask"]>> ELSE << >>
            e == [k \in 1 .. f.len |-> [frame |-> i, kind |-> "byte"]]
<1>1. f.len \in Nat /\ f.wide \in BOOLEAN /\ f.masked \in BOOLEAN
  BY DEF Frames
<1>2. a \in Seq(Own) /\ Len(a) = 1
  OBVIOUS
<1>3. b \in Seq(Own) /\ Len(b) = IF f.wide THEN 1 ELSE 0
  <2>1. CASE f.wide
    <3>1. <<[frame |-> i, kind |-> "length"]>> \in Seq(Own) /\ Len(<<[frame |-> i, kind |-> "length"]>>) = 1
      OBVIOUS
    <3>. QED
      BY <2>1, <3>1
  <2>2. CASE ~f.wide
    <3>1. << >> \in Seq(Own) /\ Len(<< >>) = 0
      OBVIOUS
    <3>. QED
      BY <2>2, <3>1
  <2>. QED
    BY <2>1, <2>2
<1>4. c \in Seq(Own) /\ Len(c) = IF f.masked THEN 1 ELSE 0
  <2>1. CASE f.masked
    <3>1. <<[frame |-> i, kind |-> "mask"]>> \in Seq(Own) /\ Len(<<[frame |-> i, kind |-> "mask"]>>) = 1
      OBVIOUS
    <3>. QED
      BY <2>1, <3>1
  <2>2. CASE ~f.masked
    <3>1. << >> \in Seq(Own) /\ Len(<< >>) = 0
      OBVIOUS
    <3>. QED
      BY <2>2, <3>1
  <2>. QED
    BY <2>1, <2>2
<1>5. e \in Seq(Own) /\ Len(e) = f.len
  <2>1. e \in [1 .. f.len -> Own]
    OBVIOUS
  <2>. HIDE DEF e, Own
  <2>. QED
    BY <1>1, <2>1
<1>6. Encode(i, f) = a \o b \o c \o e
  BY DEF Encode
<1>. HIDE DEF a, b, c, e
<1>7. Encode(i, f) \in Seq(Own) /\ Len(Encode(i, f)) = Len(a) + Len(b) + Len(c) + Len(e)
  <2>. HIDE DEF Own
  <2>1. a \o b \in Seq(Own) /\ Len(a \o b) = Len(a) + Len(b)
    BY <1>2, <1>3, ConcatForm
  <2>2. a \o b \o c \in Seq(Own) /\ Len(a \o b \o c) = Len(a \o b) + Len(c)
    BY <2>1, <1>4, ConcatForm
  <2>3. a \o b \o c \o e \in Seq(Own) /\ Len(a \o b \o c \o e) = Len(a \o b \o c) + Len(e)
    BY <2>2, <1>5, ConcatForm
  <2>. QED
    BY <2>1, <2>2, <2>3, <1>6
<1>8. \A x \in Own : x \in Pieces /\ x.frame = i
  BY DEF Pieces
<1>. HIDE DEF Own
<1>9. Encode(i, f) \in Seq(Pieces) /\ \A j \in 1 .. Len(Encode(i, f)) : Encode(i, f)[j].frame = i
  BY <1>7, <1>8
<1>. QED
  BY <1>2, <1>3, <1>4, <1>5, <1>7, <1>9

(* Frame i ends where the one before it ends and its own pieces are added, *)
(* and a piece is of one of the first i frames if it is not behind the end *)
(* of frame i.                                                             *)
LEMMA StreamForm ==
    ASSUME frames \in Seq(Frames), Encoded
    PROVE  /\ stream \in Seq(Pieces)
           /\ End(0) = 0 /\ End(Len(frames)) = Len(stream)
           /\ \A i \in 0 .. Len(frames) : End(i) \in 0 .. Len(stream)
           /\ \A i \in 1 .. Len(frames) : End(i) = End(i - 1) + Len(Encode(i, frames[i]))
           /\ \A i \in 0 .. Len(frames), p \in 1 .. Len(stream) :
                 stream[p].frame <= i <=> p <= End(i)
<1>. DEFINE owner == [x \in Pieces |-> x.frame]
<1>1. Parts \in Seq(Seq(Pieces)) /\ Len(Parts) = Len(frames)
      /\ \A i \in 1 .. Len(frames) : Parts[i] = Encode(i, frames[i])
  <2>1. \A i \in 1 .. Len(frames) : frames[i] \in Frames /\ i \in Nat
    OBVIOUS
  <2>2. \A i \in 1 .. Len(frames) : Encode(i, frames[i]) \in Seq(Pieces)
    BY <2>1, EncodeForm
  <2>3. Parts = [i \in 1 .. Len(frames) |-> Encode(i, frames[i])]
    BY DEF Parts
  <2>4. Parts \in [1 .. Len(frames) -> Seq(Pieces)] /\ Len(frames) \in Nat
    BY <2>2, <2>3
  <2>. DEFINE U == Seq(Pieces)
  <2>5. Parts \in Seq(U) /\ Len(Parts) = Len(frames)
    <3>1. Parts \in [1 .. Len(frames) -> U] /\ Len(frames) \in Nat
      BY <2>4
    <3>. HIDE DEF U
    <3>. QED
      BY <3>1
  <2>. QED
    BY <2>3, <2>5
<1>2. stream \in Seq(Pieces)
  BY <1>1, FlattenType DEF Encoded
<1>3. ASSUME NEW k \in 1 .. Len(Parts), NEW j \in 1 .. Len(Parts[k])
      PROVE  owner[Parts[k][j]] = k
  <2>1. k \in Nat /\ frames[k] \in Frames /\ Parts[k] = Encode(k, frames[k])
    BY <1>1
  <2>2. Parts[k] \in Seq(Pieces) /\ Parts[k][j].frame = k
    BY <2>1, EncodeForm, SMTT(30)
  <2>. QED
    BY <2>2
<1>4. \A p \in 1 .. Len(stream) : owner[stream[p]] = stream[p].frame
  BY <1>2
<1>. HIDE DEF owner
<1>5. ASSUME NEW i \in 0 .. Len(frames)
      PROVE  /\ \A p \in 1 .. Len(stream) : stream[p].frame <= i <=> p <= Extent(Parts, i)
             /\ End(i) = Extent(Parts, i)
             /\ Extent(Parts, i) <= Len(stream)
  <2>1. i \in 0 .. Len(Parts)
    BY <1>1
  <2>2. /\ \A p \in 1 .. Len(stream) : owner[stream[p]] <= i <=> p <= Extent(Parts, i)
        /\ Max({0} \cup {p \in 1 .. Len(stream) : owner[stream[p]] <= i}) = Extent(Parts, i)
        /\ Extent(Parts, i) <= Len(stream)
    <3>1. \A k \in 1 .. Len(Parts) : \A j \in 1 .. Len(Parts[k]) : owner[Parts[k][j]] = k
      BY <1>3
    <3>2. /\ \A p \in 1 .. Len(FlattenSeq(Parts)) :
                owner[FlattenSeq(Parts)[p]] <= i <=> p <= Extent(Parts, i)
          /\ Max({0} \cup {p \in 1 .. Len(FlattenSeq(Parts)) : owner[FlattenSeq(Parts)[p]] <= i})
               = Extent(Parts, i)
          /\ Extent(Parts, i) <= Len(FlattenSeq(Parts))
      BY <1>1, <2>1, <3>1, OwnedUpto
    <3>. QED
      BY <3>2, Zenon DEF Encoded
  <2>3. DOMAIN stream = 1 .. Len(stream)
    BY <1>2
  <2>4. {p \in 1 .. Len(stream) : owner[stream[p]] <= i} = {p \in DOMAIN stream : stream[p].frame <= i}
    BY <1>4, <2>3
  <2>. QED
    BY <1>4, <2>2, <2>4 DEF End
<1>6. \A i \in 0 .. Len(frames) : Extent(Parts, i) \in Nat
  BY <1>1, UptoType
<1>7. Extent(Parts, 0) = 0 /\ Extent(Parts, Len(frames)) = Len(stream)
  BY <1>1, UptoEnds DEF Extent, Encoded
<1>8. \A i \in 1 .. Len(frames) : Extent(Parts, i) = Extent(Parts, i - 1) + Len(Encode(i, frames[i]))
  BY <1>1, UptoStep
<1>9. 0 \in 0 .. Len(frames) /\ Len(frames) \in 0 .. Len(frames)
      /\ \A i \in 1 .. Len(frames) : i \in 0 .. Len(frames) /\ i - 1 \in 0 .. Len(frames)
  OBVIOUS
<1>10. \A i \in 0 .. Len(frames) : End(i) = Extent(Parts, i)
  BY <1>5
<1>11. Len(stream) \in Nat
  BY <1>2
<1>12. \A i \in 0 .. Len(frames) : End(i) \in 0 .. Len(stream)
  BY <1>5, <1>6, <1>11
<1>13. \A i \in 1 .. Len(frames) : End(i) = End(i - 1) + Len(Encode(i, frames[i]))
  BY <1>8, <1>9, <1>10
<1>14. \A i \in 0 .. Len(frames), p \in 1 .. Len(stream) : stream[p].frame <= i <=> p <= End(i)
  BY <1>5
<1>. QED
  BY <1>2, <1>7, <1>9, <1>10, <1>12, <1>13, <1>14

(* The session is at a frame's beginning: the data, if any, begin with the *)
(* next frame, and end behind its end if the frame is all there.           *)
LEMMA AtNextFrame ==
    ASSUME frames \in Seq(Frames), Encoded, FramesInOrder,
           done \in Seq(1 .. Len(frames)), parsed \in Nat, got \in Nat,
           parsed <= got, got <= Len(stream)
    PROVE  /\ Len(done) \in 0 .. Len(frames)
           /\ Len(Data) = got - parsed
           /\ Len(done) = Len(frames) => got = parsed
           /\ Len(done) < Len(frames) =>
                 /\ Len(done) + 1 \in 1 .. Len(frames)
                 /\ End(Len(done) + 1) = parsed + Len(Encode(Len(done) + 1, frames[Len(done) + 1]))
                 /\ parsed < Len(stream)
                 /\ stream[parsed + 1].frame = Len(done) + 1
           /\ HasHead =>
                 /\ Len(done) < Len(frames)
                 /\ Current = Len(done) + 1
                 /\ Header = frames[Len(done) + 1]
                 /\ Header \in Frames
<1>. DEFINE d == Len(done)
<1>1. d \in 0 .. Len(frames)
  <2>1. CASE d = 0
    BY <2>1
  <2>2. CASE d # 0
    <3>1. d \in DOMAIN done /\ done[d] \in 1 .. Len(frames)
      BY <2>2
    <3>2. done[d] = d
      BY <3>1 DEF FramesInOrder
    <3>. QED
      BY <3>1, <3>2
  <2>. QED
    BY <2>1, <2>2
<1>2. /\ stream \in Seq(Pieces) /\ parsed = End(d) /\ End(Len(frames)) = Len(stream)
      /\ \A i \in 0 .. Len(frames) : End(i) \in 0 .. Len(stream)
      /\ \A i \in 1 .. Len(frames) : End(i) = End(i - 1) + Len(Encode(i, frames[i]))
      /\ \A i \in 0 .. Len(frames), p \in 1 .. Len(stream) : stream[p].frame <= i <=> p <= End(i)
  BY StreamForm DEF FramesInOrder
<1>3. Len(Data) = got - parsed /\ (got > parsed => Data[1] = stream[parsed + 1])
  BY <1>2, SMTT(30) DEF Data
<1>4. d = Len(frames) => got = parsed
  BY <1>2
<1>5. ASSUME d < Len(frames)
      PROVE  /\ d + 1 \in 1 .. Len(frames)
             /\ End(d + 1) = parsed + Len(Encode(d + 1, frames[d + 1]))
             /\ parsed < Len(stream)
             /\ stream[parsed + 1].frame = d + 1
  <2>1. d + 1 \in 1 .. Len(frames) /\ d + 1 \in 0 .. Len(frames) /\ (d + 1) - 1 = d
        /\ d \in Nat /\ d \in 0 .. Len(frames)
    BY <1>1, <1>5
  <2>2. End(d + 1) = parsed + Len(Encode(d + 1, frames[d + 1]))
    BY <1>2, <2>1
  <2>3. frames[d + 1] \in Frames
    BY <2>1
  <2>4. Len(Encode(d + 1, frames[d + 1])) \in Nat /\ Len(Encode(d + 1, frames[d + 1])) > 0
    <3>1. frames[d + 1].len \in Nat
      BY <2>3 DEF Frames
    <3>2. Len(Encode(d + 1, frames[d + 1])) =
            1 + (IF frames[d + 1].wide THEN 1 ELSE 0) + (IF frames[d + 1].masked THEN 1 ELSE 0)
              + frames[d + 1].len
      BY <2>1, <2>3, EncodeForm, SMTT(30)
    <3>. QED
      BY <3>1, <3>2
  <2>5. End(d + 1) <= Len(stream) /\ Len(stream) \in Nat
    BY <1>2, <2>1
  <2>6. parsed + 1 \in 1 .. Len(stream) /\ parsed + 1 <= End(d + 1) /\ ~(parsed + 1 <= End(d))
    BY <1>2, <2>2, <2>4, <2>5
  <2>7. stream[parsed + 1].frame <= d + 1 /\ ~(stream[parsed + 1].frame <= d)
    BY <1>2, <2>1, <2>6
  <2>8. stream[parsed + 1].frame \in Nat
    <3>1. stream[parsed + 1] \in Pieces
      BY <1>2, <2>6
    <3>. QED
      BY <3>1 DEF Pieces
  <2>. QED
    BY <2>1, <2>2, <2>6, <2>7, <2>8
<1>6. ASSUME HasHead
      PROVE  d < Len(frames) /\ Current = d + 1 /\ Header = frames[d + 1] /\ Header \in Frames
  <2>1. got > parsed
    BY <1>3, <1>6 DEF HasHead
  <2>2. d < Len(frames)
    BY <1>1, <1>4, <2>1
  <2>3. Current = d + 1
    BY <1>3, <1>5, <2>1, <2>2 DEF Current
  <2>. QED
    BY <1>5, <2>2, <2>3 DEF Header
<1>. QED
  BY <1>1, <1>3, <1>4, <1>5, <1>6

-----------------------------------------------------------------------------
(***************************************************************************)
(* The replies.                                                            *)
(***************************************************************************)

(* A reply is a sequence of pieces.                                        *)
LEMMA ReplyForm ==
    ASSUME Len(frames) \in Nat, NEW op \in {"data", "pong", "close"},
           NEW of \in 0 .. Len(frames), NEW empty \in BOOLEAN
    PROVE  Reply(op, of, empty) \in Seq(Replies)
<1>. DEFINE n == IF empty THEN 1 ELSE 2
<1>1. Reply(op, of, empty) \in [1 .. n -> Replies] /\ n \in Nat
  BY DEF Reply, Replies
<1>. HIDE DEF n
<1>. QED
  BY <1>1

(* So are the pieces of the handshake.                                     *)
LEMMA HandshakeForm ==
    ASSUME Len(frames) \in Nat
    PROVE  Handshake \in Seq(Replies)
<1>. DEFINE response == <<[op |-> "http", of |-> 0, part |-> 1]>>
<1>1. response \in Seq(Replies)
  BY DEF Replies
<1>2. Reply("data", 0, FALSE) \in Seq(Replies)
  <2>1. 0 \in 0 .. Len(frames) /\ FALSE \in BOOLEAN
    OBVIOUS
  <2>. QED
    BY <2>1, ReplyForm
<1>3. Handshake = response \o Reply("data", 0, FALSE)
  BY DEF Handshake
<1>. HIDE DEF response
<1>. QED
  BY <1>1, <1>2, <1>3, ConcatForm

(* writeAll keeps what fits, and all of what fits whole.                   *)
LEMMA FittingForm ==
    ASSUME NEW T, out \in Seq(T), NEW p \in Seq(T), WriteRoom \in Nat, Len(out) <= WriteRoom
    PROVE  /\ Fitting(p) \in Seq(T) /\ out \o Fitting(p) \in Seq(T)
           /\ Len(out \o Fitting(p)) <= WriteRoom
           /\ Len(out \o p) <= WriteRoom => Fitting(p) = p
<1>. DEFINE room == WriteRoom - Len(out)
            n == IF Len(p) < room THEN Len(p) ELSE room
<1>1. room \in Nat /\ n \in Nat /\ n <= Len(p) /\ n <= room /\ Len(out) \in Nat /\ Len(p) \in Nat
  OBVIOUS
<1>2. Fitting(p) = SubSeq(p, 1, n)
  BY DEF Fitting
<1>3. Len(out \o p) = Len(out) + Len(p)
  OBVIOUS
<1>4. Len(out \o p) <= WriteRoom => n = Len(p)
  BY <1>1, <1>3
<1>. HIDE DEF n
<1>5. Fitting(p) \in Seq(T) /\ Len(Fitting(p)) = n /\ (n = Len(p) => Fitting(p) = p)
  BY <1>1, <1>2
<1>6. out \o Fitting(p) \in Seq(T) /\ Len(out \o Fitting(p)) = Len(out) + n
  BY <1>5, ConcatForm
<1>. QED
  BY <1>1, <1>4, <1>5, <1>6

(* What onClose writes is a sequence of pieces.                            *)
LEMMA FarewellForm ==
    ASSUME Len(frames) \in Nat
    PROVE  Farewell \in Seq(Replies)
<1>1. 0 \in 0 .. Len(frames) /\ FALSE \in BOOLEAN /\ << >> \in Seq(Replies)
  OBVIOUS
<1>2. Reply("data", 0, FALSE) \in Seq(Replies)
  BY <1>1, ReplyForm
<1>. QED
  BY <1>1, <1>2 DEF Farewell

(* What a frame is due is a sequence of pieces.                            *)
LEMMA DueForm ==
    ASSUME frames \in Seq(Frames), route \in Callbacks, NEW i \in 1 .. Len(frames)
    PROVE  Due(i) \in Seq(Replies)
<1>1. frames[i] \in Frames /\ Len(frames) \in Nat /\ i \in 0 .. Len(frames) /\ 0 \in 0 .. Len(frames)
  OBVIOUS
<1>2. (frames[i].len = 0) \in BOOLEAN
  OBVIOUS
<1>3. /\ Reply("close", 0, FALSE) \in Seq(Replies)
      /\ Reply("data", i, frames[i].len = 0) \in Seq(Replies)
      /\ Reply("pong", i, frames[i].len = 0) \in Seq(Replies)
      /\ Reply("close", i, frames[i].len = 0) \o Farewell \in Seq(Replies)
      /\ << >> \in Seq(Replies)
  <2>1. << >> \in Seq(Replies) /\ FALSE \in BOOLEAN
    OBVIOUS
  <2>2. Reply("close", i, frames[i].len = 0) \in Seq(Replies)
    BY <1>1, <1>2, ReplyForm
  <2>3. Reply("close", i, frames[i].len = 0) \o Farewell \in Seq(Replies)
    BY <1>1, <2>2, FarewellForm, ConcatForm
  <2>. QED
    BY <1>1, <1>2, <2>1, <2>3, ReplyForm
<1>4. /\ frames[i].op \in {"data", "cont", "ping", "pong", "close"}
      /\ frames[i].fin \in BOOLEAN /\ route.message \in {"echo", "close"}
  BY <1>1 DEF Frames, Control, Callbacks
<1>. QED
  BY <1>3, <1>4 DEF Due

(* What is due after one more frame.                                       *)
LEMMA DueNext ==
    ASSUME frames \in Seq(Frames), route \in Callbacks,
           done \in Seq(1 .. Len(frames)), NEW i \in 1 .. Len(frames)
    PROVE  /\ AllDue \in Seq(Replies)
           /\ Handshake \o FlattenSeq([k \in DOMAIN Append(done, i) |-> Due(Append(done, i)[k])])
                = AllDue \o Due(i)
<1>. DEFINE U == Seq(Replies)
            now == [k \in DOMAIN done |-> Due(done[k])]
            next == [k \in DOMAIN Append(done, i) |-> Due(Append(done, i)[k])]
<1>1. \A j \in 1 .. Len(frames) : Due(j) \in U
  BY DueForm
<1>. HIDE DEF U
<1>2. now \in Seq(U)
  <2>. DEFINE n == Len(done)
  <2>1. now \in [1 .. n -> U] /\ n \in Nat
    BY <1>1
  <2>. HIDE DEF now, n
  <2>. QED
    BY <2>1, FunctionForm
<1>3. next = Append(now, Due(i))
  <2>1. DOMAIN Append(done, i) = 1 .. Len(done) + 1 /\ Append(done, i)[Len(done) + 1] = i
        /\ \A k \in 1 .. Len(done) : Append(done, i)[k] = done[k]
    OBVIOUS
  <2>2. Len(now) = Len(done) /\ \A k \in 1 .. Len(done) : now[k] = Due(done[k])
    OBVIOUS
  <2>3. next \in [1 .. Len(done) + 1 -> U]
    <3>1. \A k \in 1 .. Len(done) + 1 : Append(done, i)[k] \in 1 .. Len(frames)
      OBVIOUS
    <3>. QED
      BY <1>1, <2>1, <3>1
  <2>4. \A k \in 1 .. Len(done) + 1 : next[k] = IF k = Len(done) + 1 THEN Due(i) ELSE now[k]
    BY <2>1, <2>2
  <2>5. Due(i) \in U /\ Len(done) \in Nat
    BY <1>1
  <2>. HIDE DEF now, next
  <2>6. Append(now, Due(i)) \in [1 .. Len(done) + 1 -> U]
        /\ \A k \in 1 .. Len(done) + 1 :
              Append(now, Due(i))[k] = IF k = Len(done) + 1 THEN Due(i) ELSE now[k]
    <3>. DEFINE e == Due(i)
    <3>1. e \in U
      BY <2>5
    <3>. HIDE DEF e
    <3>2. Append(now, e) \in Seq(U) /\ Len(Append(now, e)) = Len(done) + 1
          /\ \A k \in 1 .. Len(done) + 1 :
                Append(now, e)[k] = IF k = Len(done) + 1 THEN e ELSE now[k]
      BY <1>2, <2>2, <2>5, <3>1
    <3>3. Append(now, e) \in [1 .. Len(done) + 1 -> U]
      <4>. DEFINE q == Append(now, e)
      <4>1. q \in Seq(U) /\ Len(q) = Len(done) + 1
        BY <3>2
      <4>. HIDE DEF q
      <4>2. q \in [1 .. Len(q) -> U]
        BY <4>1
      <4>. QED
        BY <4>1, <4>2 DEF q
    <3>. QED
      BY <3>2, <3>3 DEF e
  <2>. QED
    BY <2>3, <2>4, <2>6
<1>4. FlattenSeq(next) = FlattenSeq(now) \o Due(i) /\ FlattenSeq(now) \in U
  <2>. HIDE DEF now, next
  <2>1. now \in Seq(Seq(Replies)) /\ Due(i) \in Seq(Replies)
    BY <1>1, <1>2 DEF U
  <2>. QED
    BY <1>3, <2>1, FlattenAppend, FlattenType DEF U
<1>5. Handshake \in U /\ Due(i) \in U
  BY <1>1, HandshakeForm DEF U
<1>6. AllDue = Handshake \o FlattenSeq(now)
  BY DEF AllDue
<1>. HIDE DEF now, next
<1>7. AllDue \in U /\ Handshake \o (FlattenSeq(now) \o Due(i)) = (Handshake \o FlattenSeq(now)) \o Due(i)
  <2>. DEFINE f == FlattenSeq(now)
  <2>1. Handshake \in Seq(Replies) /\ f \in Seq(Replies) /\ Due(i) \in Seq(Replies) /\ AllDue = Handshake \o f
    BY <1>4, <1>5, <1>6 DEF U
  <2>. HIDE DEF f
  <2>2. Handshake \o f \in Seq(Replies)
    BY <2>1, ConcatForm
  <2>3. (Handshake \o f) \o Due(i) = Handshake \o (f \o Due(i))
    <3>1. Associates(Handshake, f, Due(i))
      BY <2>1, JoinAgain
    <3>. QED
      BY <3>1, Zenon DEF Associates
  <2>. QED
    BY <2>1, <2>2, <2>3 DEF U, f
<1>8. Handshake \o FlattenSeq(next) = AllDue \o Due(i)
  BY <1>4, <1>6, <1>7
<1>. QED
  BY <1>7, <1>8 DEF U, next

-----------------------------------------------------------------------------
(***************************************************************************)
(* The inductive invariant.                                                *)
(***************************************************************************)

(* What the type invariant says of the client and of the constants.        *)
LEMMA Typed ==
    ASSUME TypeOK
    PROVE  /\ frames \in Seq(Frames) /\ Len(frames) \in Nat
           /\ route \in Callbacks /\ build \in {"epoll", "uring"}
           /\ parsed \in Nat /\ got \in Nat /\ arrived \in Nat
           /\ parsed <= got /\ got <= arrived /\ arrived <= Len(stream)
           /\ done \in Seq(1 .. Len(frames)) /\ Len(done) \in Nat
           /\ ReadRoom \in Nat /\ WriteRoom \in Nat
<1>1. frames \in Seq(Frames)
  BY CodecAssumption DEF TypeOK
<1>2. Len(frames) \in Nat /\ ReadRoom \in Nat /\ WriteRoom \in Nat
  BY <1>1, CodecAssumption
<1>3. route \in Callbacks /\ build \in {"epoll", "uring"}
  BY CodecAssumption DEF TypeOK
<1>4. done \in Seq(1 .. Len(frames)) /\ Len(done) \in Nat
  BY DEF TypeOK
<1>5. /\ parsed \in Nat /\ got \in Nat /\ arrived \in Nat
      /\ parsed <= got /\ got <= arrived /\ arrived <= Len(stream)
  BY DEF TypeOK
<1>. QED
  BY <1>1, <1>2, <1>3, <1>4, <1>5

(* Frame i is answered as it is due: the connection goes on, is closing    *)
(* or is closed, and the write ring is emptied in the last case only.      *)
Answered(i) ==
    /\ Write(Due(i))
    /\ \/ out' = out \o Fitting(Due(i)) /\ UNCHANGED <<closeSent, status, pc>>
       \/ /\ out' = out \o Fitting(Due(i)) /\ build = "uring"
          /\ closeSent' = TRUE /\ status' = "closing" /\ pc' = "recv"
       \/ /\ out' = << >>
          /\ closeSent' = TRUE /\ status' = "closed" /\ pc' = "recv"

(* A turn of the loop consumes exactly the next frame and answers it.      *)
LEMMA DispatchEffect ==
    ASSUME IInv, Dispatch
    PROVE  /\ Len(done) + 1 \in 1 .. Len(frames)
           /\ done' = Append(done, Len(done) + 1)
           /\ parsed' = End(Len(done) + 1) /\ parsed' \in parsed .. got
           /\ UNCHANGED <<frames, stream, route, build, arrived, got, wire, pollVars>>
           /\ status = "open" /\ Answered(Len(done) + 1)
<1>. DEFINE i == Len(done) + 1
<1>1. HasHead /\ HasLength /\ Header.masked
  BY DEF Dispatch, Whole, HasLength, Refused
<1>2. /\ i \in 1 .. Len(frames) /\ Current = i /\ Header = frames[i] /\ Header \in Frames
      /\ Len(Data) = got - parsed
      /\ End(i) = parsed + Len(Encode(i, frames[i]))
  BY <1>1, Typed, AtNextFrame DEF IInv
<1>3. Len(Encode(i, frames[i])) = Offset + Header.len /\ Offset + Header.len \in Nat
  <2>1. i \in Nat /\ frames[i] \in Frames /\ Header.len \in Nat
    BY <1>2 DEF Frames
  <2>2. Len(Encode(i, frames[i])) =
          1 + (IF frames[i].wide THEN 1 ELSE 0) + (IF frames[i].masked THEN 1 ELSE 0) + frames[i].len
    BY <2>1, EncodeForm
  <2>. QED
    BY <1>1, <1>2, <2>1, <2>2 DEF Offset
<1>4. parsed' = End(i) /\ parsed' \in parsed .. got
  <2>1. Len(Data) >= Offset + Header.len /\ parsed' = parsed + Offset + Header.len
    BY DEF Dispatch, Whole
  <2>2. parsed \in Nat /\ got \in Nat /\ Offset \in Nat /\ Header.len \in Nat
    BY <1>2, Typed DEF IInv, Offset, Frames
  <2>. QED
    BY <1>2, <1>3, <2>1, <2>2, SMTT(30)
<1>5. status = "open" /\ closeSent = FALSE
  BY DEF Dispatch, InFrames, IInv, SilentInv, TypeOK
<1>6. /\ Header.fin \in BOOLEAN /\ route.message \in {"echo", "close"}
      /\ Header.op \in {"data", "cont", "ping", "pong", "close"}
  BY <1>2, Typed DEF IInv, Frames, Control, Callbacks
<1>7. CASE Header.fin /\ Header.op \in {"data", "ping", "pong"}
  <2>1. Answer
    BY <1>7 DEF Dispatch
  <2>. DEFINE reply == CASE Header.op = "data" /\ route.message = "echo" ->
                               Reply("data", Current, Header.len = 0)
                         [] Header.op = "data" /\ route.message = "close" ->
                               Reply("close", 0, FALSE)
                         [] Header.op = "ping" -> Reply("pong", Current, Header.len = 0)
                         [] Header.op = "pong" -> <<>>
  <2>2. Write(Due(i)) /\ out' = out \o Fitting(Due(i))
    <3>1. Write(reply) /\ out' = out \o Fitting(reply)
      BY <2>1 DEF Answer
    <3>2. reply = Due(i)
      BY <1>2, <1>6, <1>7 DEF Due
    <3>. HIDE DEF reply
    <3>. QED
      BY <3>1, <3>2
  <2>3. UNCHANGED <<closeSent, status, pc>>
    BY <2>1 DEF Answer, NextFrame
  <2>. QED
    BY <1>2, <1>4, <1>5, <2>2, <2>3 DEF Dispatch, inVars, Answered
<1>8. CASE ~(Header.fin /\ Header.op \in {"data", "ping", "pong"})
  <2>1. Goodbye
    BY <1>8 DEF Dispatch
  <2>. DEFINE reply == IF Header.fin /\ Header.op = "close"
                       THEN (IF closeSent THEN <<>> ELSE Reply("close", Current, Header.len = 0))
                            \o Farewell
                       ELSE Reply("close", 0, FALSE)
  <2>2. reply = Due(i)
    BY <1>2, <1>5, <1>6, <1>8 DEF Due
  <2>3. Write(reply) /\ out' = Abandoned(out \o Fitting(reply))
    BY <2>1 DEF Goodbye
  <2>. HIDE DEF reply
  <2>4. Write(Due(i)) /\ out' = (IF build = "epoll" THEN << >> ELSE out \o Fitting(Due(i)))
    BY <2>2, <2>3 DEF Abandoned
  <2>5. closeSent' = TRUE /\ status' = (IF build = "epoll" THEN "closed" ELSE "closing") /\ pc' = "recv"
    BY <2>1 DEF Goodbye, Over
  <2>6. build \in {"epoll", "uring"}
    BY Typed DEF IInv
  <2>. QED
    BY <1>2, <1>4, <1>5, <2>4, <2>5, <2>6 DEF Dispatch, inVars, Answered
<1>. QED
  BY <1>7, <1>8

(* A reply that is written leaves a ring of pieces that is not too long.   *)
LEMMA WriteForm ==
    ASSUME IInv, NEW i \in 1 .. Len(frames), Write(Due(i))
    PROVE  /\ Due(i) \in Seq(Replies) /\ Fitting(Due(i)) \in Seq(Replies)
           /\ out \o Fitting(Due(i)) \in Seq(Replies) /\ Len(out \o Fitting(Due(i))) <= WriteRoom
           /\ put' = put \o Fitting(Due(i)) /\ put' \in Seq(Replies) /\ cut' \in BOOLEAN
           /\ ~cut' => ~cut /\ Fitting(Due(i)) = Due(i)
<1>1. /\ out \in Seq(Replies) /\ put \in Seq(Replies) /\ Due(i) \in Seq(Replies)
      /\ WriteRoom \in Nat /\ Len(out) <= WriteRoom /\ cut \in BOOLEAN
  BY Typed, DueForm DEF IInv, RingInv, TypeOK
<1>2. out \o Due(i) \in Seq(Replies) /\ Len(out \o Due(i)) \in Nat
  BY <1>1, ConcatForm
<1>3. /\ put' = put \o Fitting(Due(i))
      /\ cut' = (cut \/ Len(out \o Due(i)) > WriteRoom)
  BY DEF Write
<1>4. /\ Fitting(Due(i)) \in Seq(Replies) /\ out \o Fitting(Due(i)) \in Seq(Replies)
      /\ Len(out \o Fitting(Due(i))) <= WriteRoom
      /\ Len(out \o Due(i)) <= WriteRoom => Fitting(Due(i)) = Due(i)
  BY <1>1, FittingForm
<1>5. cut' \in BOOLEAN /\ (~cut' => ~cut /\ Len(out \o Due(i)) <= WriteRoom)
  <2>. DEFINE over == Len(out \o Due(i)) > WriteRoom
  <2>1. cut' = (cut \/ over) /\ over \in BOOLEAN /\ cut \in BOOLEAN
    BY <1>1, <1>3
  <2>2. ~over => Len(out \o Due(i)) <= WriteRoom
    BY <1>1, <1>2
  <2>. HIDE DEF over
  <2>3. cut' \in BOOLEAN /\ (~cut' => ~cut /\ ~over)
    BY <2>1, Zenon
  <2>. QED
    BY <2>2, <2>3
<1>6. put' \in Seq(Replies)
  BY <1>1, <1>3, <1>4, ConcatForm
<1>. QED
  BY <1>1, <1>3, <1>4, <1>5, <1>6

(* The front of the ring and the rest of it.                               *)
LEMMA LeftForm ==
    ASSUME NEW T, out \in Seq(T), NEW n \in 0 .. Len(out)
    PROVE  /\ SubSeq(out, 1, n) \in Seq(T) /\ Left(n) \in Seq(T)
           /\ out = SubSeq(out, 1, n) \o Left(n) /\ Len(Left(n)) <= Len(out)
<1>1. PICK a, b \in Seq(T) : IsCut(T, out, out, n, a, b)
  BY CutForm
<1>2. Len(b) = Len(out) - n /\ n \in Nat /\ Len(out) \in Nat
  BY <1>1 DEF IsCut
<1>3. a = SubSeq(out, 1, n) /\ b = Left(n) /\ a \o b = out
  BY <1>1, Zenon DEF IsCut, Left
<1>4. Len(b) <= Len(out)
  BY <1>2
<1>. QED
  BY <1>1, <1>3, <1>4, Zenon

(* The epoll build takes the front of the ring to the end of the wire, and *)
(* changes nothing else.                                                   *)
LEMMA SentEffect ==
    ASSUME IInv, Flush \/ HandleOut
    PROVE  /\ out' \in Seq(Replies) /\ wire' \in Seq(Replies) /\ Len(out') <= Len(out)
           /\ wire' \o out' = wire \o out
           /\ UNCHANGED <<inVars, arrived, got, parsed, done, closeSent, put, cut, edge, evOut, status>>
           /\ status = "open" /\ build = "epoll" /\ full' \in BOOLEAN
           /\ pc # "frames" /\ pc' \in {"recv", "write", "wait"}
<1>1. PICK n \in 0 .. Len(out) : Sent(n) /\ pc' \in {"recv", "write", "wait"}
  BY DEF Flush, HandleOut, AfterFlush, AfterRead
<1>2. out \in Seq(Replies) /\ wire \in Seq(Replies) /\ pc \in Points
  BY DEF IInv, RingInv, TypeOK
<1>. DEFINE a == SubSeq(out, 1, n)
            b == Left(n)
<1>3. a \in Seq(Replies) /\ b \in Seq(Replies) /\ out = a \o b /\ Len(b) <= Len(out)
  BY <1>2, LeftForm
<1>4. wire' = wire \o a /\ out' = b /\ full' \in BOOLEAN
      /\ UNCHANGED <<inVars, arrived, got, parsed, done, closeSent, put, cut, edge, evOut, status>>
  BY <1>1 DEF Sent
<1>. HIDE DEF a, b
<1>5. (wire \o a) \o b = wire \o (a \o b) /\ wire \o a \in Seq(Replies)
  BY <1>2, <1>3
<1>6. status = "open" /\ build = "epoll" /\ pc # "frames"
  BY <1>2 DEF Flush, HandleOut, Points
<1>. QED
  BY <1>1, <1>3, <1>4, <1>5, <1>6

(* The io_uring build frees the front of the ring, and changes nothing     *)
(* else.                                                                   *)
LEMMA ReleasedEffect ==
    ASSUME IInv, Released
    PROVE  /\ out' \in Seq(Replies) /\ Len(out') <= Len(out)
           /\ UNCHANGED <<inVars, arrived, got, parsed, done, closeSent, put, cut, wire, pollVars,
                          status, pc>>
           /\ build = "uring" /\ pc # "frames"
<1>1. PICK n \in 1 .. Len(out) : out' = Left(n)
  BY DEF Released
<1>2. out \in Seq(Replies) /\ n \in 0 .. Len(out)
  BY DEF IInv, RingInv
<1>. QED
  BY <1>1, <1>2, LeftForm DEF Released

(* What the clients, the event queue and an empty socket do to the place   *)
(* the worker is in; the rings are left alone.                             *)
Idle == Wake \/ RecvEmpty \/ ClientReads \/ (\E p \in 1 .. Len(stream) : ClientSend(p))
        \/ UNCHANGED vars

(* The connection is over, and the epoll build forgets the ring.           *)
Ends == RecvFull \/ Refuse \/ ConnectionEnds

(* The kinds of step, and what they leave alone.                           *)
LEMMA StepKinds ==
    ASSUME IInv, [Next]_vars
    PROVE  \/ Dispatch \/ Recv \/ AwaitMore \/ Idle \/ Ends \/ Released \/ Flush \/ HandleOut
  BY DEF Next, Server, Idle, Ends

LEMMA IdleEffect ==
    ASSUME IInv, Idle
    PROVE  /\ UNCHANGED <<inVars, got, parsed, done, closeSent, outVars, status>>
           /\ {full', edge', evOut'} \subseteq BOOLEAN /\ pc' \in Points
           /\ pc' = "frames" => pc = "frames"
           /\ arrived' \in arrived .. Len(stream)
<1>. DEFINE Effect ==
             /\ UNCHANGED <<inVars, got, parsed, done, closeSent, outVars, status>>
             /\ {full', edge', evOut'} \subseteq BOOLEAN /\ pc' \in Points
             /\ pc' = "frames" => pc = "frames"
             /\ arrived' \in arrived .. Len(stream)
<1>1. /\ {full, edge, evOut} \subseteq BOOLEAN /\ pc \in Points /\ arrived \in Nat
      /\ arrived <= Len(stream) /\ Len(stream) \in Nat /\ build \in {"epoll", "uring"}
  <2>1. stream \in Seq(Pieces)
    BY Typed, StreamForm DEF IInv
  <2>. QED
    BY <2>1, Typed DEF IInv, TypeOK
<1>2. ASSUME Wake PROVE Effect
  <2>1. /\ UNCHANGED <<inVars, arrived, got, parsed, done, closeSent, outVars, full, status>>
        /\ edge' = FALSE /\ evOut' = ~full
        /\ pc = "wait" /\ pc' \in {"recv", "write", "wait"}
    BY <1>2 DEF Wake, AfterRead
  <2>2. evOut' \in BOOLEAN
    BY <2>1
  <2>3. build = "epoll"
    BY <1>1, <2>1 DEF Points
  <2>4. arrived \in arrived .. Len(stream)
    BY <1>1
  <2>. QED
    BY <1>1, <2>1, <2>2, <2>3, <2>4 DEF Points
<1>3. ASSUME RecvEmpty PROVE Effect
  BY <1>1, <1>3 DEF RecvEmpty, AfterRead, Points, pollVars
<1>4. ASSUME ClientReads PROVE Effect
  <2>1. arrived \in arrived .. Len(stream)
    BY <1>1
  <2>. QED
    BY <1>1, <1>4, <2>1 DEF ClientReads
<1>5. ASSUME NEW p \in 1 .. Len(stream), ClientSend(p)
      PROVE  Effect
  <2>1. /\ UNCHANGED <<inVars, got, parsed, done, closeSent, outVars, status, full, evOut, pc>>
        /\ edge' = (build = "epoll") /\ arrived' = p /\ p > arrived
    BY <1>5 DEF ClientSend
  <2>2. edge' \in BOOLEAN /\ p \in arrived .. Len(stream)
    BY <1>1, <2>1
  <2>. QED
    BY <1>1, <2>1, <2>2
<1>6. ASSUME UNCHANGED vars PROVE Effect
  BY <1>1, <1>6 DEF vars, pollVars
<1>. HIDE DEF Effect
<1>7. Effect
  BY <1>2, <1>3, <1>4, <1>5, <1>6 DEF Idle
<1>. QED
  BY <1>7 DEF Effect

LEMMA EndsEffect ==
    ASSUME IInv, Ends
    PROVE  /\ UNCHANGED <<inVars, arrived, got, parsed, done, closeSent, put, cut, wire, pollVars>>
           /\ status # "closed"
           /\ \/ status' = "closed" /\ out' = << >>
              \/ status' = "closing" /\ out' = out /\ build = "uring"
           /\ pc' \in Points
           /\ pc' = "frames" => status' = "closed"
<1>1. pc \in Points /\ build \in {"epoll", "uring"}
  BY Typed DEF IInv, TypeOK
<1>. QED
  BY <1>1 DEF Ends, RecvFull, Refuse, ConnectionEnds, Over, Abandoned, InFrames, Points

(* The rings hold pieces.                                                  *)
LEMMA RingStep == IInv /\ [Next]_vars => RingInv'
<1>. SUFFICES ASSUME IInv, [Next]_vars PROVE RingInv'
  OBVIOUS
<1>1. out \in Seq(Replies) /\ put \in Seq(Replies) /\ wire \in Seq(Replies) /\ << >> \in Seq(Replies)
  BY DEF IInv, RingInv
<1>2. frames' = frames => Replies' = Replies
  BY DEF Replies
<1>3. CASE Dispatch
  <2>1. /\ Len(done) + 1 \in 1 .. Len(frames) /\ Answered(Len(done) + 1)
        /\ frames' = frames /\ wire' = wire
    BY <1>3, DispatchEffect
  <2>2. out' \in Seq(Replies) /\ put' \in Seq(Replies)
    BY <1>1, <2>1, WriteForm DEF Answered
  <2>. QED
    BY <1>1, <1>2, <2>1, <2>2 DEF RingInv
<1>4. CASE Recv \/ AwaitMore
  BY <1>1, <1>2, <1>4 DEF Recv, AwaitMore, RingInv, inVars, outVars
<1>5. CASE Idle
  BY <1>1, <1>2, <1>5, IdleEffect DEF RingInv, inVars, outVars
<1>6. CASE Ends
  BY <1>1, <1>2, <1>6, EndsEffect DEF RingInv, inVars
<1>7. CASE Released
  BY <1>1, <1>2, <1>7, ReleasedEffect DEF RingInv, inVars
<1>8. CASE Flush \/ HandleOut
  BY <1>1, <1>2, <1>8, SentEffect DEF RingInv, inVars
<1>. QED
  BY <1>3, <1>4, <1>5, <1>6, <1>7, <1>8, StepKinds

(* Only a turn of the loop hands a frame on.                               *)
LEMMA OnlyDispatch ==
    ASSUME IInv, [Next]_vars
    PROVE  /\ UNCHANGED <<frames, stream, route, build>>
           /\ Dispatch \/ UNCHANGED <<done, parsed>>
<1>1. CASE Dispatch
  BY <1>1, DispatchEffect
<1>2. CASE Recv \/ AwaitMore
  BY <1>2 DEF Recv, AwaitMore, inVars
<1>3. CASE Idle \/ Ends \/ Released \/ Flush \/ HandleOut
  BY <1>3, IdleEffect, EndsEffect, ReleasedEffect, SentEffect DEF inVars
<1>. QED
  BY <1>1, <1>2, <1>3, StepKinds

(* The types.                                                              *)
LEMMA TypeStep == IInv /\ [Next]_vars => TypeOK'
<1>. SUFFICES ASSUME IInv, [Next]_vars PROVE TypeOK'
  OBVIOUS
<1>. DEFINE Counts == /\ parsed \in 0 .. got /\ got \in 0 .. arrived /\ arrived \in 0 .. Len(stream)
                      /\ got - parsed <= ReadRoom
            Flags == /\ closeSent \in BOOLEAN /\ cut \in BOOLEAN
                     /\ {full, edge, evOut} \subseteq BOOLEAN
                     /\ status \in {"open", "closing", "closed"} /\ pc \in Points
            Rest == done \in Seq(1 .. Len(frames)) /\ Len(out) <= WriteRoom
<1>1. Counts /\ Flags /\ Rest /\ out \in Seq(Replies) /\ << >> \in Seq(Replies) /\ Len(<< >>) = 0
      /\ parsed \in Nat /\ got \in Nat /\ arrived \in Nat /\ ReadRoom \in Nat /\ WriteRoom \in Nat
      /\ Len(stream) \in Nat /\ build \in {"epoll", "uring"}
  <2>1. stream \in Seq(Pieces)
    BY Typed, StreamForm DEF IInv
  <2>. QED
    BY <2>1, Typed DEF IInv, TypeOK, RingInv
<1>2. UNCHANGED inVars
  BY OnlyDispatch DEF inVars
<1>3. Counts'
  <2>1. CASE Idle
    <3>1. PICK x \in arrived .. Len(stream) : arrived' = x
      BY <2>1, IdleEffect
    <3>2. UNCHANGED <<got, parsed, stream>>
      BY <2>1, IdleEffect DEF inVars
    <3>. QED
      BY <1>1, <3>1, <3>2
  <2>2. CASE Recv
    <3>1. got < arrived /\ got' = (IF arrived - got < RecvRoom THEN arrived ELSE got + RecvRoom)
          /\ UNCHANGED <<parsed, arrived, stream>> /\ RecvRoom = ReadRoom - (got - parsed) /\ RecvRoom > 0
      BY <2>2 DEF Recv, inVars, RecvRoom
    <3>2. got' \in Nat /\ got <= got' /\ got' <= arrived /\ got' - parsed <= ReadRoom
      <4>1. CASE arrived - got < RecvRoom
        BY <1>1, <3>1, <4>1
      <4>2. CASE ~(arrived - got < RecvRoom)
        BY <1>1, <3>1, <4>2
      <4>. QED
        BY <4>1, <4>2
    <3>. QED
      BY <1>1, <3>1, <3>2
  <2>3. CASE Dispatch
    <3>1. PICK x \in parsed .. got : parsed' = x
      BY <2>3, DispatchEffect
    <3>2. UNCHANGED <<stream, arrived, got>>
      BY <2>3, DispatchEffect
    <3>3. x \in 0 .. got /\ got - x <= ReadRoom
      <4>1. /\ x \in Int /\ parsed <= x /\ x <= got
            /\ parsed \in Nat /\ got \in Nat /\ ReadRoom \in Nat /\ got - parsed <= ReadRoom
        BY <1>1
      <4>. QED
        BY <4>1
    <3>. QED
      BY <1>1, <3>1, <3>2, <3>3
  <2>4. UNCHANGED <<parsed, got, arrived, stream>> => Counts'
    BY <1>1
  <2>5. CASE AwaitMore
    BY <2>4, <2>5 DEF AwaitMore, inVars
  <2>6. CASE Ends \/ Released \/ Flush \/ HandleOut
    BY <2>4, <2>6, EndsEffect, ReleasedEffect, SentEffect DEF inVars
  <2>. QED
    BY <2>1, <2>2, <2>3, <2>5, <2>6, StepKinds
<1>4. Flags' /\ Rest'
  <2>. DEFINE Here == pc' \in Points
  <2>0. Points' = Points
    BY <1>2 DEF Points, inVars
  <2>1. CASE Dispatch
    <3>1. /\ Len(done) + 1 \in 1 .. Len(frames) /\ done' = Append(done, Len(done) + 1)
          /\ Answered(Len(done) + 1) /\ frames' = frames /\ UNCHANGED pollVars
      BY <2>1, DispatchEffect
    <3>2. done' \in Seq(1 .. Len(frames'))
      BY <1>1, <3>1
    <3>3. Len(out') <= WriteRoom /\ cut' \in BOOLEAN
      BY <1>1, <3>1, WriteForm DEF Answered
    <3>4. "recv" \in Points
      BY DEF Points
    <3>. QED
      BY <1>1, <2>0, <3>1, <3>2, <3>3, <3>4 DEF Answered, pollVars
  <2>2. CASE Flush \/ HandleOut
    <3>1. Len(out') <= Len(out) /\ out' \in Seq(Replies) /\ full' \in BOOLEAN
          /\ UNCHANGED <<frames, done, closeSent, cut, edge, evOut, status>>
          /\ build = "epoll" /\ pc' \in {"recv", "write", "wait"}
      BY <2>2, SentEffect DEF inVars
    <3>2. Len(out') \in Nat /\ Len(out) \in Nat
      BY <1>1, <3>1
    <3>3. Len(out') <= WriteRoom
      BY <1>1, <3>1, <3>2
    <3>4. pc' \in Points
      BY <3>1 DEF Points
    <3>. QED
      BY <1>1, <2>0, <3>1, <3>3, <3>4
  <2>3. CASE Released
    <3>1. Len(out') <= Len(out) /\ out' \in Seq(Replies)
          /\ UNCHANGED <<frames, done, closeSent, cut, pollVars, status, pc>>
      BY <2>3, ReleasedEffect DEF inVars
    <3>2. Len(out') \in Nat /\ Len(out) \in Nat
      BY <1>1, <3>1
    <3>. QED
      BY <1>1, <2>0, <3>1, <3>2 DEF pollVars
  <2>4. CASE Idle
    BY <1>1, <2>0, <2>4, IdleEffect DEF inVars, outVars
  <2>5. CASE Ends
    BY <1>1, <2>0, <2>5, EndsEffect DEF inVars, pollVars
  <2>6. CASE Recv \/ AwaitMore
    BY <1>1, <2>0, <2>6 DEF Recv, AwaitMore, inVars, outVars, pollVars, Points
  <2>. QED
    BY <2>1, <2>2, <2>3, <2>4, <2>5, <2>6, StepKinds
<1>5. \A p \in ToSet(out') \cup ToSet(put') \cup ToSet(wire') : p \in Replies'
  BY RingStep DEF RingInv, ToSet
<1>. QED
  BY <1>2, <1>3, <1>4, <1>5 DEF TypeOK, IInv, inVars, Replies

(* The stream stays what the frames are encoded as.                        *)
LEMMA EncodedStep == IInv /\ [Next]_vars => Encoded'
<1>. SUFFICES ASSUME IInv, [Next]_vars PROVE Encoded'
  OBVIOUS
<1>1. frames' = frames /\ stream' = stream
  BY OnlyDispatch
<1>. QED
  BY <1>1 DEF IInv, Encoded, Parts

(* Whoever sends the Close leaves the open state, and nobody comes back.   *)
LEMMA SilentStep == IInv /\ [Next]_vars => SilentInv'
<1>. SUFFICES ASSUME IInv, [Next]_vars PROVE SilentInv'
  OBVIOUS
<1>1. SilentInv /\ closeSent \in BOOLEAN
  BY DEF IInv, TypeOK
<1>2. CASE Dispatch
  <2>1. status = "open" /\ Answered(Len(done) + 1)
    BY <1>2, DispatchEffect
  <2>2. (closeSent' = closeSent /\ status' = status) \/ status' \in {"closing", "closed"}
    BY <2>1 DEF Answered
  <2>. QED
    BY <1>1, <2>1, <2>2 DEF SilentInv
<1>3. CASE Recv \/ AwaitMore
  BY <1>1, <1>3 DEF Recv, AwaitMore, SilentInv
<1>4. CASE Idle \/ Ends
  BY <1>1, <1>4, IdleEffect, EndsEffect DEF SilentInv
<1>5. CASE Released \/ Flush \/ HandleOut
  BY <1>1, <1>5, ReleasedEffect, SentEffect DEF SilentInv
<1>. QED
  BY <1>2, <1>3, <1>4, <1>5, StepKinds

(* The next frame is looked for where the last one ended.                  *)
LEMMA OrderStep == IInv /\ [Next]_vars => FramesInOrder'
<1>. SUFFICES ASSUME IInv, [Next]_vars PROVE FramesInOrder'
  OBVIOUS
<1>1. FramesInOrder /\ stream' = stream /\ done \in Seq(1 .. Len(frames)) /\ Len(done) \in Nat
  BY OnlyDispatch, Typed DEF IInv
<1>2. CASE Dispatch
  <2>. DEFINE d == Len(done)
  <2>1. done' = Append(done, d + 1) /\ parsed' = End(d + 1) /\ d + 1 \in 1 .. Len(frames)
    BY <1>2, DispatchEffect
  <2>2. DOMAIN done' = 1 .. d + 1 /\ Len(done') = d + 1 /\ done'[d + 1] = d + 1
        /\ \A k \in 1 .. d : done'[k] = done[k]
    BY <1>1, <2>1
  <2>3. \A k \in DOMAIN done' : done'[k] = k
    <3>1. \A k \in 1 .. d : done[k] = k
      BY <1>1 DEF FramesInOrder
    <3>. QED
      BY <1>1, <2>2, <3>1
  <2>4. parsed' = End(Len(done))'
    BY <1>1, <2>1, <2>2 DEF End
  <2>. QED
    BY <2>3, <2>4 DEF FramesInOrder
<1>3. CASE UNCHANGED <<done, parsed>>
  BY <1>1, <1>3 DEF FramesInOrder, End
<1>. QED
  BY <1>2, <1>3, OnlyDispatch

(* A later frame ends later.                                               *)
LEMMA EndGrows ==
    ASSUME frames \in Seq(Frames), Encoded,
           NEW i \in 0 .. Len(frames), NEW j \in 0 .. Len(frames), i <= j
    PROVE  End(i) <= End(j)
<1>1. /\ stream \in Seq(Pieces) /\ End(i) \in 0 .. Len(stream) /\ End(j) \in 0 .. Len(stream)
      /\ \A k \in 0 .. Len(frames), p \in 1 .. Len(stream) : stream[p].frame <= k <=> p <= End(k)
  BY StreamForm
<1>2. CASE End(i) = 0
  BY <1>1, <1>2
<1>3. CASE End(i) # 0
  <2>1. End(i) \in 1 .. Len(stream)
    BY <1>1, <1>3
  <2>2. stream[End(i)].frame \in Nat
    <3>1. stream[End(i)] \in Pieces
      BY <1>1, <2>1
    <3>. QED
      BY <3>1 DEF Pieces
  <2>3. stream[End(i)].frame <= i
    BY <1>1, <2>1
  <2>4. stream[End(i)].frame <= j
    BY <2>2, <2>3
  <2>. QED
    BY <1>1, <2>1, <2>4
<1>. QED
  BY <1>2, <1>3

(* The session waits for more only if the next frame is not all there.     *)
LEMMA AwaitEffect ==
    ASSUME IInv, AwaitMore, Len(done) < Len(frames)
    PROVE  got < End(Len(done) + 1)
<1>. DEFINE i == Len(done) + 1
<1>1. SUFFICES ASSUME got >= End(i) PROVE FALSE
  <2>1. i \in 0 .. Len(frames) /\ got \in Nat
    BY Typed DEF IInv
  <2>2. End(i) \in Nat
    BY <2>1, Typed, StreamForm DEF IInv
  <2>. QED
    BY <1>1, <2>1, <2>2
<1>2. /\ i \in 1 .. Len(frames) /\ Len(Data) = got - parsed
      /\ End(i) = parsed + Len(Encode(i, frames[i])) /\ parsed \in Nat /\ got \in Nat
      /\ HasHead => Header = frames[i]
  BY Typed, AtNextFrame DEF IInv
<1>3. /\ frames[i] \in Frames /\ frames[i].len \in Nat
      /\ frames[i].wide \in BOOLEAN /\ frames[i].masked \in BOOLEAN
  <2>1. frames[i] \in Frames
    BY <1>2, Typed DEF IInv
  <2>. QED
    BY <2>1 DEF Frames
<1>4. Len(Encode(i, frames[i])) =
        1 + (IF frames[i].wide THEN 1 ELSE 0) + (IF frames[i].masked THEN 1 ELSE 0) + frames[i].len
  BY <1>2, <1>3, EncodeForm, SMTT(30)
<1>5. Len(Data) >= 1 + (IF frames[i].wide THEN 1 ELSE 0) + (IF frames[i].masked THEN 1 ELSE 0) + frames[i].len
      /\ Len(Data) \in Nat
  BY <1>1, <1>2, <1>3, <1>4
<1>6. HasHead /\ Header = frames[i]
  BY <1>2, <1>3, <1>5 DEF HasHead
<1>7. frames[i].masked
  BY <1>6 DEF AwaitMore, Refused
<1>8. HasLength
  BY <1>3, <1>5, <1>6 DEF HasLength
<1>9. Whole
  BY <1>3, <1>5, <1>6, <1>7, <1>8 DEF Whole, Offset
<1>. QED
  BY <1>9 DEF AwaitMore

(* So no whole frame waits with it.                                        *)
LEMMA NothingLeftStep == IInv /\ [Next]_vars => NothingLeft'
<1>. SUFFICES ASSUME IInv, [Next]_vars PROVE NothingLeft'
  OBVIOUS
<1>1. frames' = frames /\ stream' = stream /\ (\A i : End(i)' = End(i))
  BY OnlyDispatch DEF End
<1>2. CASE AwaitMore
  <2>1. UNCHANGED <<got, done>>
    BY <1>2 DEF AwaitMore
  <2>2. SUFFICES ASSUME NEW i \in DOMAIN frames, got >= End(i), ~(Len(done) >= i) PROVE FALSE
    BY <1>1, <2>1 DEF NothingLeft
  <2>3. /\ Len(done) < Len(frames) /\ i \in 0 .. Len(frames)
        /\ Len(done) + 1 \in 0 .. Len(frames) /\ Len(done) + 1 <= i
    BY <2>2, Typed DEF IInv
  <2>4. got < End(Len(done) + 1)
    BY <1>2, <2>3, AwaitEffect
  <2>5. End(Len(done) + 1) <= End(i)
    BY <2>3, Typed, EndGrows DEF IInv
  <2>6. got \in Nat /\ End(i) \in Nat /\ End(Len(done) + 1) \in Nat
    BY <2>3, Typed, StreamForm DEF IInv
  <2>. QED
    BY <2>2, <2>4, <2>5, <2>6
<1>3. CASE Recv \/ Ends
  <2>1. ~(status' = "open" /\ pc' # "frames")
    BY <1>3, EndsEffect DEF Recv
  <2>. QED
    BY <2>1 DEF NothingLeft
<1>4. CASE Dispatch
  <2>1. Answered(Len(done) + 1) /\ pc = "frames"
    BY <1>4, DispatchEffect DEF Dispatch, InFrames
  <2>2. ~(status' = "open" /\ pc' # "frames")
    BY <2>1 DEF Answered
  <2>. QED
    BY <2>2 DEF NothingLeft
<1>5. CASE Idle
  <2>1. UNCHANGED <<status, got, done>> /\ (pc = "frames" => pc' = "frames")
    BY <1>5, IdleEffect DEF Idle, Wake, RecvEmpty, ClientReads, ClientSend, vars
  <2>. QED
    BY <1>1, <2>1 DEF IInv, NothingLeft
<1>6. CASE Released \/ Flush \/ HandleOut
  <2>1. UNCHANGED <<status, got, done>> /\ pc # "frames"
    BY <1>6, ReleasedEffect, SentEffect
  <2>. QED
    BY <1>1, <2>1 DEF IInv, NothingLeft
<1>. QED
  BY <1>2, <1>3, <1>4, <1>5, <1>6, StepKinds

(* What is written first is a prefix of all that is written.               *)
LEMMA WrittenFirst ==
    ASSUME NEW T, NEW s \in Seq(T), NEW t \in Seq(T)
    PROVE  IsPrefix(s, s \o t) /\ IsPrefix(s, s)
  BY DEF IsPrefix

(* The replies stay whole and in order.                                    *)
LEMMA RepliesStep == IInv /\ [Next]_vars => RepliesIntact'
<1>. SUFFICES ASSUME IInv, [Next]_vars PROVE RepliesIntact'
  OBVIOUS
<1>1. /\ out \in Seq(Replies) /\ put \in Seq(Replies) /\ wire \in Seq(Replies) /\ RepliesIntact
      /\ status \in {"open", "closing", "closed"}
      /\ frames' = frames /\ route' = route /\ build' = build
  BY OnlyDispatch DEF IInv, RingInv, TypeOK
<1>2. done' = done => AllDue' = AllDue
  BY <1>1 DEF AllDue, Due, Farewell
<1>3. IsPrefix(wire, wire \o out)
  BY <1>1, WrittenFirst
<1>4. CASE Dispatch
  <2>. DEFINE i == Len(done) + 1
              F == Fitting(Due(i))
  <2>1. /\ i \in 1 .. Len(frames) /\ done' = Append(done, i) /\ wire' = wire
        /\ status = "open" /\ Answered(i) /\ Write(Due(i))
    BY <1>4, DispatchEffect DEF Answered
  <2>2. Due(i) \in Seq(Replies) /\ AllDue \in Seq(Replies)
        /\ Handshake \o FlattenSeq([k \in DOMAIN Append(done, i) |-> Due(Append(done, i)[k])])
             = AllDue \o Due(i)
    BY <2>1, Typed, DueForm, DueNext DEF IInv
  <2>3. AllDue' = AllDue \o Due(i)
    <3>1. AllDue' = Handshake \o FlattenSeq([k \in DOMAIN done' |-> Due(done'[k])])
      BY <1>1 DEF AllDue, Due, Farewell
    <3>. QED
      BY <2>1, <2>2, <3>1
  <2>4. F \in Seq(Replies) /\ put' = put \o F /\ (~cut' => ~cut /\ F = Due(i))
    BY <2>1, WriteForm
  <2>. HIDE DEF F
  <2>5. ~cut' => put' = AllDue'
    BY <1>1, <2>3, <2>4 DEF RepliesIntact
  <2>6. ASSUME build = "epoll" PROVE wire \o (out \o F) = put'
    <3>1. wire \o out = put
      BY <1>1, <2>1, <2>6 DEF RepliesIntact
    <3>2. wire \o (out \o F) = (wire \o out) \o F
      <4>1. Associates(wire, out, F)
        BY <1>1, <2>4, JoinAgain
      <4>. QED
        BY <4>1, Zenon DEF Associates
    <3>. QED
      BY <2>4, <3>1, <3>2
  <2>7. CASE out' = out \o F /\ (build = "uring" \/ status' = "open")
    BY <1>1, <2>1, <2>5, <2>6, <2>7 DEF RepliesIntact
  <2>8. CASE out' = << >> /\ status' = "closed"
    <3>1. IsPrefix(wire, wire \o (out \o F))
      BY <1>1, <2>4, ConcatForm, WrittenFirst
    <3>. QED
      BY <1>1, <2>1, <2>5, <2>6, <2>8, <3>1 DEF RepliesIntact
  <2>. QED
    BY <2>1, <2>7, <2>8 DEF Answered, F
<1>5. CASE Flush \/ HandleOut
  <2>1. wire' \o out' = wire \o out /\ UNCHANGED <<put, cut, done, status>> /\ status # "closed"
    BY <1>5, SentEffect
  <2>. QED
    BY <1>1, <1>2, <2>1 DEF RepliesIntact
<1>6. CASE Ends
  <2>1. UNCHANGED <<put, cut, done, wire>> /\ status # "closed"
        /\ (status' = "closed" \/ build = "uring")
    BY <1>6, EndsEffect
  <2>. QED
    BY <1>1, <1>2, <1>3, <2>1 DEF RepliesIntact
<1>7. CASE Released
  <2>1. UNCHANGED <<put, cut, done>> /\ build = "uring"
    BY <1>7, ReleasedEffect
  <2>. QED
    BY <1>1, <1>2, <2>1 DEF RepliesIntact
<1>8. CASE Recv \/ AwaitMore \/ Idle
  <2>1. UNCHANGED <<cut, done, put, wire, out, status>>
    BY <1>8, IdleEffect DEF Recv, AwaitMore, outVars
  <2>. QED
    BY <1>1, <1>2, <2>1 DEF RepliesIntact
<1>. QED
  BY <1>4, <1>5, <1>6, <1>7, <1>8, StepKinds

(* Sequences over T, whatever T is: the empty one.                         *)
LEMMA EmptyForm == ASSUME NEW T PROVE << >> \in Seq(T) /\ Len(<< >>) = 0
  OBVIOUS

(* The invariant holds when the client's upgrade has been accepted.        *)
LEMMA Initially == Init => IInv
<1>. SUFFICES ASSUME Init PROVE IInv
  OBVIOUS
<1>1. /\ frames \in Seq(Frames) /\ Len(frames) \in Nat
      /\ ReadRoom \in Nat /\ WriteRoom \in Nat
  <2>1. frames \in Seq(Frames) /\ {ReadRoom, WriteRoom} \subseteq Nat
    BY CodecAssumption DEF Init
  <2>. QED
    BY <2>1
<1>2. Encoded
  BY DEF Init, Encoded, Parts
<1>3. /\ stream \in Seq(Pieces) /\ Len(stream) \in Nat /\ End(0) = 0
      /\ \A i \in 0 .. Len(frames) : End(i) \in 0 .. Len(stream)
      /\ \A i \in 1 .. Len(frames) : End(i) = End(i - 1) + Len(Encode(i, frames[i]))
  BY <1>1, <1>2, StreamForm
<1>4. Handshake \in Seq(Replies) /\ Len(Handshake) \in Nat
  BY <1>1, HandshakeForm
<1>5. RingInv /\ Len(out) <= WriteRoom /\ (Len(Handshake) <= WriteRoom => out = Handshake)
  <2>. DEFINE n == IF Len(Handshake) < WriteRoom THEN Len(Handshake) ELSE WriteRoom
  <2>1. n \in Nat /\ n <= Len(Handshake) /\ n <= WriteRoom
        /\ (Len(Handshake) <= WriteRoom => n = Len(Handshake))
    BY <1>1, <1>4
  <2>2. out = SubSeq(Handshake, 1, n) /\ put = out /\ wire = << >>
    BY DEF Init
  <2>. HIDE DEF n
  <2>3. out \in Seq(Replies) /\ Len(out) = n /\ (n = Len(Handshake) => out = Handshake)
    BY <1>4, <2>1, <2>2
  <2>. QED
    BY <2>1, <2>2, <2>3, EmptyForm DEF RingInv
<1>6. TypeOK
  <2>1. frames \in Scripts /\ route \in Routes /\ build \in Builds
    BY DEF Init
  <2>2. /\ parsed \in 0 .. got /\ got \in 0 .. arrived /\ arrived \in 0 .. Len(stream)
        /\ got - parsed <= ReadRoom
    BY <1>1, <1>3 DEF Init
  <2>3. done \in Seq(1 .. Len(frames))
    BY EmptyForm DEF Init
  <2>4. \A p \in ToSet(out) \cup ToSet(put) \cup ToSet(wire) : p \in Replies
    BY <1>5 DEF RingInv, ToSet
  <2>5. /\ closeSent \in BOOLEAN /\ {full, edge, evOut} \subseteq BOOLEAN
        /\ status = "open" /\ pc \in Points
    BY DEF Init, Points
  <2>6. cut \in BOOLEAN
    BY DEF Init
  <2>. QED
    BY <1>5, <2>1, <2>2, <2>3, <2>4, <2>5, <2>6 DEF TypeOK, Replies
<1>7. SilentInv
  BY DEF Init, SilentInv
<1>8. FramesInOrder
  BY <1>3, EmptyForm DEF Init, FramesInOrder
<1>9. NothingLeft
  <2>1. SUFFICES ASSUME NEW i \in DOMAIN frames PROVE ~(got >= End(i))
    BY DEF NothingLeft
  <2>2. i \in 1 .. Len(frames) /\ i - 1 \in 0 .. Len(frames) /\ frames[i] \in Frames /\ i \in Nat
    BY <1>1
  <2>3. Len(Encode(i, frames[i])) > 0 /\ Len(Encode(i, frames[i])) \in Nat
    <3>1. frames[i].len \in Nat
      BY <2>2 DEF Frames
    <3>2. Len(Encode(i, frames[i])) =
            1 + (IF frames[i].wide THEN 1 ELSE 0) + (IF frames[i].masked THEN 1 ELSE 0)
              + frames[i].len
      BY <2>2, EncodeForm
    <3>. QED
      BY <3>1, <3>2
  <2>4. End(i) = End(i - 1) + Len(Encode(i, frames[i])) /\ End(i - 1) \in Nat
    BY <1>3, <2>2
  <2>5. got = 0
    BY DEF Init
  <2>. QED
    BY <2>3, <2>4, <2>5
<1>10. RepliesIntact
  <2>1. AllDue = Handshake \o FlattenSeq(<< >>)
    BY DEF Init, AllDue
  <2>2. Handshake \o << >> = Handshake /\ << >> \o Handshake = Handshake
    BY <1>4
  <2>3. AllDue = Handshake
    BY <2>1, <2>2, FlattenEmpty
  <2>4. ~cut => Len(Handshake) <= WriteRoom
    <3>. DEFINE over == Len(Handshake) > WriteRoom
    <3>1. cut = over
      BY DEF Init
    <3>2. ~over => Len(Handshake) <= WriteRoom
      BY <1>1, <1>4
    <3>. HIDE DEF over
    <3>. QED
      BY <3>1, <3>2, Zenon
  <2>. QED
    BY <1>5, <2>2, <2>3, <2>4 DEF Init, RepliesIntact
<1>. QED
  BY <1>2, <1>5, <1>6, <1>7, <1>8, <1>9, <1>10 DEF IInv

(* The invariant is inductive.                                             *)
LEMMA Invariant == Spec => []IInv
<1>1. IInv /\ [Next]_vars => IInv'
  BY TypeStep, EncodedStep, RingStep, SilentStep, OrderStep, NothingLeftStep, RepliesStep DEF IInv
<1>. QED
  BY <1>1, Initially, PTL DEF Spec

-----------------------------------------------------------------------------
(* Every variable keeps its type, and neither ring holds more than it can. *)
THEOREM TypeCorrect == Spec => []TypeOK
<1>1. IInv => TypeOK
  BY DEF IInv
<1>. QED
  BY <1>1, Invariant, PTL

(* However the stream is cut, processFrames hands on each frame once, in   *)
(* order, and looks for the next one where it begins: for every script,    *)
(* every size of the rings and every limit.                                *)
THEOREM FramesHandledInOrder == Spec => []FramesInOrder
<1>1. IInv => FramesInOrder
  BY DEF IInv
<1>. QED
  BY <1>1, Invariant, PTL

(* processFrames leaves no whole frame in the ring when it returns to      *)
(* wait for more.                                                          *)
THEOREM NoFrameLeftWaiting == Spec => []NothingLeft
<1>1. IInv => NothingLeft
  BY DEF IInv
<1>. QED
  BY <1>1, Invariant, PTL

(* A read ring is full at a read only for a frame that cannot fit it.      *)
THEOREM FullForOneFrameOnly == Spec => []FullOfOneFrame
<1>1. IInv => FullOfOneFrame
  <2>. SUFFICES ASSUME IInv, status = "open", pc # "frames", RecvRoom = 0
                PROVE  Size(stream[parsed + 1].frame) > ReadRoom
    BY DEF FullOfOneFrame
  <2>. DEFINE i == Len(done) + 1
  <2>1. ReadRoom \in Nat \ {0} /\ parsed \in Nat /\ got \in Nat
    BY CodecAssumption, Typed DEF IInv
  <2>2. got - parsed = ReadRoom
    BY <2>1 DEF RecvRoom
  <2>3. /\ Len(done) < Len(frames) /\ i \in 1 .. Len(frames) /\ stream[parsed + 1].frame = i
        /\ Len(done) \in Nat
    BY <2>1, <2>2, Typed, AtNextFrame DEF IInv
  <2>4. ~(got >= End(i))
    <3>1. i \in DOMAIN frames /\ ~(Len(done) >= i)
      BY <2>3, Typed DEF IInv
    <3>. QED
      BY <3>1 DEF IInv, NothingLeft
  <2>5. End(i) \in Nat /\ parsed = End(i - 1)
    <3>1. i \in 0 .. Len(frames) /\ i - 1 = Len(done)
      BY <2>3
    <3>2. End(i) \in Nat
      BY <3>1, Typed, StreamForm DEF IInv
    <3>. QED
      BY <3>1, <3>2 DEF IInv, FramesInOrder
  <2>6. Size(i) = End(i) - parsed
    BY <2>5 DEF Size
  <2>. QED
    BY <2>1, <2>2, <2>3, <2>4, <2>5, <2>6
<1>. QED
  BY <1>1, Invariant, PTL

(* Unless a reply does not fit the write ring, the handshake and what each *)
(* frame is due are written to it whole and in order; and the epoll build  *)
(* transmits what was written, each piece once and in order, for every     *)
(* script, route and size of the rings.                                    *)
THEOREM RepliesStayIntact == Spec => []RepliesIntact
<1>1. IInv => RepliesIntact
  BY DEF IInv
<1>. QED
  BY <1>1, Invariant, PTL

(* Once dispatchFrame has sent a Close or answered one, and onClose has    *)
(* returned, no frame is handed on and nothing more is written.            *)
THEOREM SilentAfterGoodbye == Spec => SilentOnceOver
<1>1. IInv /\ [Next]_vars => [closeSent => UNCHANGED <<done, put>>]_vars
  <2>. SUFFICES ASSUME IInv, [Next]_vars, closeSent PROVE UNCHANGED <<done, put>>
    OBVIOUS
  <2>1. status # "open"
    BY DEF IInv, SilentInv
  <2>2. ~Dispatch /\ ~Recv /\ ~AwaitMore
    BY <2>1 DEF Dispatch, Recv, AwaitMore, InFrames
  <2>. QED
    BY <2>2, StepKinds, IdleEffect, EndsEffect, ReleasedEffect, SentEffect DEF outVars
<1>. QED
  BY <1>1, Invariant, PTL DEF Spec, SilentOnceOver
=============================================================================
