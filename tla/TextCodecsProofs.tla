--------------------------- MODULE TextCodecsProofs ---------------------------
(***************************************************************************)
(* What the functions of TextCodecs return, for inputs of any length.      *)
(***************************************************************************)
EXTENDS TextCodecs, SequenceLemmas

-----------------------------------------------------------------------------
(***************************************************************************)
(* Looking for the end of a line.                                          *)
(***************************************************************************)

(* The least element of a set of naturals.                                 *)
LEMMA LeastIs ==
    ASSUME NEW S, S \subseteq Nat, S # {}
    PROVE  Least(S) \in S /\ \A m \in S : Least(S) <= m
<1>1. PICK x \in S : \A y \in S : ~ (<<y, x>> \in Below)
  BY BelowWellFounded, WFMin
<1>2. \A m \in S : x <= m
  <2>1. SUFFICES ASSUME NEW m \in S PROVE x <= m
    OBVIOUS
  <2>2. m \in Nat /\ x \in Nat
    OBVIOUS
  <2>3. m < x => <<m, x>> \in Below
    BY <2>2 DEF Below
  <2>. QED
    BY <1>1, <2>2, <2>3
<1>3. \E n \in S : \A m \in S : n <= m
  BY <1>2
<1>. QED
  BY <1>3, Zenon DEF Least

(* The chunk a position is in.                                             *)
LEMMA ChunkOf ==
    ASSUME NEW w \in Nat \ {0}, NEW p \in Nat \ {0}
    PROVE  \E k \in Nat : k * w + 1 <= p /\ p <= (k + 1) * w
<1>. DEFINE k == (p - 1) \div w
            r == (p - 1) % w
<1>1. p - 1 \in Nat
  OBVIOUS
<1>2. k \in Nat /\ r \in Nat /\ r < w /\ p - 1 = w * k + r
  BY <1>1
<1>. HIDE DEF k, r
<1>3. w * k = k * w /\ (k + 1) * w = k * w + w
  BY <1>2
<1>4. k * w + 1 <= p /\ p <= (k + 1) * w
  <2>. DEFINE x == k * w
  <2>1. x \in Nat
    BY <1>2
  <2>2. p - 1 = x + r /\ (k + 1) * w = x + w
    BY <1>2, <1>3
  <2>. HIDE DEF x
  <2>3. p >= x + 1 /\ p <= x + w
    BY <2>1, <2>2, <1>2
  <2>. QED
    BY <2>2, <2>3 DEF x
<1>. QED
  BY <1>2, <1>4

(* Chunks do not overlap.                                                  *)
LEMMA ChunksApart ==
    ASSUME NEW w \in Nat, NEW j \in Nat, NEW k \in Nat, j < k
    PROVE  (j + 1) * w <= k * w
<1>1. PICK d \in Nat : k = (j + 1) + d
  <2>. k - (j + 1) \in Nat /\ k = (j + 1) + (k - (j + 1))
    OBVIOUS
  <2>. QED
    OBVIOUS
<1>2. k * w = (j + 1) * w + d * w
  BY <1>1
<1>3. d * w \in Nat /\ (j + 1) * w \in Nat
  OBVIOUS
<1>. QED
  BY <1>2, <1>3
(* find_crlf finds the first CR, wherever the chunks end and however wide  *)
(* they are, and none if there is none.                                    *)
THEOREM FirstReturn ==
    ASSUME NEW data \in Seq(Nat), NEW width \in Nat \ {0}
    PROVE  LET all == {p \in DOMAIN data : data[p] = CR}
               found == FindCrlf(data, width)
           IN  IF all = {} THEN found = 0 ELSE found \in all /\ \A p \in all : found <= p
<1>. DEFINE full == Len(data) \div width
            all == {p \in DOMAIN data : data[p] = CR}
            found == FindCrlf(data, width)
            InChunk(k) == Returns(data, k * width + 1, (k + 1) * width)
            hits == {k \in 0 .. full - 1 : InChunk(k) # {}}
            tail == Returns(data, full * width + 1, Len(data))
            len == Len(data)
<1>1. found = IF full > 0 /\ hits # {} THEN Least(InChunk(Least(hits)))
              ELSE IF tail # {} THEN Least(tail) ELSE 0
  BY DEF FindCrlf
<1>2. full \in Nat /\ full * width \in Nat /\ full * width <= len /\ len \in Nat
  <2>1. len \in Nat
    OBVIOUS
  <2>2. full \in Nat /\ len % width \in Nat /\ len = width * full + (len % width)
    BY <2>1
  <2>. HIDE DEF full, len
  <2>3. full * width = width * full /\ full * width \in Nat
    BY <2>2
  <2>. DEFINE x == full * width
              r == len % width
  <2>4. len = x + r /\ x \in Nat /\ r \in Nat
    BY <2>2, <2>3
  <2>. HIDE DEF x, r
  <2>5. x <= len
    BY <2>4
  <2>. QED
    BY <2>1, <2>2, <2>3, <2>5 DEF x
<1>3. all \subseteq 1 .. len /\ all \subseteq Nat
  OBVIOUS
<1>4. ASSUME NEW k \in Nat PROVE InChunk(k) \subseteq Nat
  <2>1. k * width + 1 \in Nat /\ (k + 1) * width \in Nat
    OBVIOUS
  <2>. QED
    BY <2>1 DEF Returns
<1>5. ASSUME NEW k \in 0 .. full - 1 PROVE InChunk(k) \subseteq all
  <2>1. k \in Nat /\ k < full
    BY <1>2
  <2>2. (k + 1) * width <= full * width /\ (k + 1) * width \in Nat
    <3>. HIDE DEF full
    <3>1. (k + 1) * width <= full * width
      BY <2>1, <1>2, ChunksApart
    <3>. QED
      BY <3>1, <2>1
  <2>3. k * width + 1 \in Nat /\ k * width + 1 >= 1
    <3>1. k * width \in Nat
      BY <2>1
    <3>. QED
      BY <3>1
  <2>. DEFINE a == k * width + 1
              b == (k + 1) * width
              c == full * width
  <2>4. a \in Nat /\ a >= 1 /\ b \in Nat /\ b <= c /\ c \in Nat /\ c <= len
    BY <2>2, <2>3, <1>2
  <2>. HIDE DEF a, b, c, full
  <2>5. \A p \in a .. b : p \in 1 .. len
    BY <2>4, <1>2
  <2>6. Returns(data, a, b) \subseteq all
    BY <2>5 DEF Returns
  <2>. QED
    BY <2>6 DEF a, b
<1>6. ASSUME NEW p \in all, p <= full * width
      PROVE  \E k \in 0 .. full - 1 : p \in InChunk(k)
  <2>1. p \in Nat \ {0} /\ data[p] = CR
    BY <1>3
  <2>2. PICK k \in Nat : k * width + 1 <= p /\ p <= (k + 1) * width
    BY <2>1, ChunkOf
  <2>3. k < full
    <3>1. SUFFICES ASSUME full <= k PROVE FALSE
      <4>. HIDE DEF full
      <4>. QED
        BY <1>2
    <3>2. full * width <= k * width
      <4>. HIDE DEF full
      <4>1. CASE full = k
        BY <4>1, <1>2
      <4>2. CASE full # k
        <5>1. full < k /\ full \in Nat
          BY <4>2, <3>1, <1>2
        <5>2. (full + 1) * width <= k * width
          BY <5>1, ChunksApart
        <5>3. (full + 1) * width = full * width + width
          BY <1>2
        <5>. DEFINE x == full * width
                    y == (full + 1) * width
                    z == k * width
        <5>4. x \in Nat /\ y = x + width /\ y <= z /\ z \in Nat
          BY <5>2, <5>3, <1>2
        <5>. HIDE DEF x, y, z
        <5>5. x <= z
          BY <5>4
        <5>. QED
          BY <5>5 DEF x, z
      <4>. QED
        BY <4>1, <4>2
    <3>. DEFINE x == full * width
                z == k * width
    <3>3. x \in Nat /\ z \in Nat /\ x <= z /\ p <= x /\ z + 1 <= p
      BY <3>2, <2>2, <1>2, <1>6
    <3>. HIDE DEF x, z
    <3>. QED
      BY <3>3, <2>1
  <2>4. p \in InChunk(k)
    <3>1. k * width + 1 \in Nat /\ (k + 1) * width \in Nat
      OBVIOUS
    <3>2. p \in k * width + 1 .. (k + 1) * width
      BY <3>1, <2>1, <2>2
    <3>. QED
      BY <3>2, <2>1 DEF Returns
  <2>5. k \in 0 .. full - 1
    <3>. HIDE DEF full
    <3>. QED
      BY <2>3, <1>2
  <2>. QED
    BY <2>4, <2>5
<1>7. hits \subseteq Nat /\ (hits # {} => full > 0)
  <2>. HIDE DEF full, InChunk
  <2>. QED
    BY <1>2
<1>8. ASSUME all = {} PROVE found = 0
  <2>1. hits = {}
    <3>. HIDE DEF full, InChunk, all
    <3>. QED
      BY <1>5, <1>8
  <2>2. tail = {}
    <3>1. full * width + 1 \in Nat /\ full * width + 1 >= 1
      <4>. HIDE DEF full
      <4>. QED
        BY <1>2
    <3>2. tail \subseteq all
      <4>. HIDE DEF full
      <4>. QED
        BY <3>1 DEF Returns
    <3>. QED
      BY <3>2, <1>8
  <2>. HIDE DEF found, hits, tail
  <2>. QED
    BY <1>1, <2>1, <2>2
<1>9. ASSUME hits # {} PROVE found \in all /\ \A p \in all : found <= p
  <2>. DEFINE k == Least(hits)
  <2>1. k \in hits /\ \A j \in hits : k <= j
    <3>. HIDE DEF hits
    <3>. QED
      BY <1>7, <1>9, LeastIs
  <2>2. k \in 0 .. full - 1 /\ InChunk(k) # {} /\ k \in Nat
    <3>. HIDE DEF k, InChunk, full
    <3>. QED
      BY <2>1, <1>7
  <2>. HIDE DEF k
  <2>3. found = Least(InChunk(k))
    BY <1>1, <1>7, <1>9, Zenon DEF k
  <2>4. found \in InChunk(k) /\ \A p \in InChunk(k) : found <= p
    <3>1. InChunk(k) \subseteq Nat
      BY <2>2, <1>4
    <3>. HIDE DEF InChunk, found
    <3>. QED
      BY <2>2, <2>3, <3>1, LeastIs
  <2>5. found \in all
    <3>. HIDE DEF InChunk, found, all, full
    <3>. QED
      BY <2>4, <2>2, <1>5
  <2>6. ASSUME NEW p \in all PROVE found <= p
    <3>1. SUFFICES ASSUME p < found PROVE FALSE
      <4>1. p \in Nat /\ found \in Nat
        <5>. HIDE DEF found, all
        <5>. QED
          BY <2>5, <1>3
      <4>. HIDE DEF found, all
      <4>. QED
        BY <4>1
    <3>2. found <= (k + 1) * width /\ found \in Nat /\ p \in Nat
      <4>1. found \in k * width + 1 .. (k + 1) * width
        <5>. HIDE DEF found
        <5>. QED
          BY <2>4 DEF Returns
      <4>2. k * width + 1 \in Nat /\ (k + 1) * width \in Nat
        BY <2>2
      <4>. HIDE DEF found
      <4>. QED
        BY <4>1, <4>2, <1>3
    <3>3. (k + 1) * width <= full * width
      <4>. HIDE DEF full
      <4>1. k \in Nat /\ full \in Nat /\ k < full
        BY <2>2, <1>2
      <4>. QED
        BY <4>1, ChunksApart
    <3>4. p <= full * width
      <4>. DEFINE x == (k + 1) * width
                  y == full * width
      <4>1. x \in Nat /\ y \in Nat /\ x <= y /\ found <= x
        BY <2>2, <3>2, <3>3, <1>2
      <4>. HIDE DEF x, y, found
      <4>2. p <= y
        BY <4>1, <3>1, <3>2
      <4>. QED
        BY <4>2 DEF y
    <3>5. PICK j \in 0 .. full - 1 : p \in InChunk(j)
      BY <3>4, <1>6
    <3>6. j \in hits /\ j \in Nat
      <4>. HIDE DEF InChunk, full
      <4>. QED
        BY <3>5, <1>2
    <3>7. k <= j
      BY <3>6, <2>1
    <3>8. CASE k = j
      <4>. HIDE DEF InChunk, found
      <4>. QED
        BY <3>8, <3>5, <2>4, <3>1, <3>2
    <3>9. CASE k # j
      <4>1. k < j
        BY <3>7, <3>9, <3>6, <2>2
      <4>2. (k + 1) * width <= j * width
        BY <4>1, <3>6, <2>2, ChunksApart
      <4>3. p >= j * width + 1
        <5>. DEFINE a == j * width + 1
                    b == (j + 1) * width
        <5>1. p \in a .. b
          BY <3>5 DEF Returns
        <5>2. a \in Nat /\ b \in Nat
          BY <3>6
        <5>. HIDE DEF a, b
        <5>3. p >= a
          BY <5>1, <5>2
        <5>. QED
          BY <5>3 DEF a
      <4>. DEFINE x == (k + 1) * width
                  y == j * width
      <4>4. x \in Nat /\ y \in Nat /\ x <= y /\ found <= x /\ p >= y + 1
        BY <4>2, <4>3, <3>2, <3>6, <2>2
      <4>. HIDE DEF x, y, found
      <4>. QED
        BY <4>4, <3>1, <3>2
    <3>. QED
      BY <3>8, <3>9
  <2>. QED
    BY <2>5, <2>6
<1>10. ASSUME hits = {}, all # {} PROVE found \in all /\ \A p \in all : found <= p
  <2>1. \A p \in all : full * width + 1 <= p
    <3>1. SUFFICES ASSUME NEW p \in all, p <= full * width PROVE FALSE
      <4>1. \A p \in all : p \in Nat
        BY <1>3
      <4>. HIDE DEF all, full
      <4>. QED
        BY <4>1, <1>2
    <3>2. PICK j \in 0 .. full - 1 : p \in InChunk(j)
      BY <3>1, <1>6
    <3>3. j \in hits
      <4>. HIDE DEF InChunk, full
      <4>. QED
        BY <3>2
    <3>. QED
      BY <3>3, <1>10
  <2>2. tail = all
    <3>. HIDE DEF full
    <3>. QED
      BY <2>1, <1>2 DEF Returns
  <2>3. found = Least(all)
    <3>. HIDE DEF found, hits, tail, all
    <3>. QED
      BY <1>1, <1>10, <2>2
  <2>. HIDE DEF found, all
  <2>. QED
    BY <2>3, <1>3, <1>10, LeastIs
<1>. QED
  <2>. HIDE DEF found, all, hits
  <2>1. IF all = {} THEN found = 0 ELSE found \in all /\ \A p \in all : found <= p
    BY <1>8, <1>9, <1>10
  <2>. QED
    BY <2>1 DEF found, all

-----------------------------------------------------------------------------
(***************************************************************************)
(* Comparing without case.                                                 *)
(***************************************************************************)

(* The characters of the keywords the server looks for, and what counts as *)
(* one of them: the letter in either case.                                 *)
Hyphen == 45
KeywordChars == Lowercase \cup Uppercase \cup {Hyphen}
SameLetter(c, k) ==
    \/ c = k
    \/ k \in Lowercase /\ c = k - 32
    \/ k \in Uppercase /\ c = k + 32

(* `| 32` equates nothing else, but for the CR that it takes for a hyphen. *)
LEMMA OneLetter ==
    ASSUME NEW c \in Byte \ {CR}, NEW k \in KeywordChars
    PROVE  WithBit32(c) = WithBit32(k) <=> SameLetter(c, k)
<1>1. c \in Nat /\ c # 13
  BY DEF Byte, CR
<1>2. CASE k \in Lowercase \cup {Hyphen}
  <2>1. k \in Nat /\ (k = 45 \/ (k >= 97 /\ k <= 122))
    BY <1>2 DEF Lowercase, Hyphen
  <2>2. WithBit32(k) = k
    BY <2>1 DEF WithBit32
  <2>3. WithBit32(c) = k => c = k \/ c = k - 32
    BY <1>1, <2>1 DEF WithBit32
  <2>4. c = k => WithBit32(c) = k
    BY <2>2
  <2>5. c = k - 32 /\ k # 45 => WithBit32(c) = k
    <3>1. SUFFICES ASSUME c = k - 32, k # 45 PROVE WithBit32(c) = k
      OBVIOUS
    <3>2. c >= 65 /\ c <= 90
      BY <3>1, <2>1
    <3>3. c \div 32 = 2
      BY <3>2, <1>1
    <3>. QED
      BY <3>1, <3>3, <1>1, <2>1 DEF WithBit32
  <2>6. SameLetter(c, k) <=> c = k \/ (k # 45 /\ c = k - 32)
    BY <2>1, <1>2 DEF SameLetter, Lowercase, Uppercase, Hyphen
  <2>7. c = k - 32 => k # 45
    BY <1>1, <2>1
  <2>. QED
    BY <2>2, <2>3, <2>4, <2>5, <2>6, <2>7, Zenon
<1>3. CASE k \in Uppercase
  <2>1. k \in Nat /\ k >= 65 /\ k <= 90
    BY <1>3 DEF Uppercase
  <2>2. WithBit32(k) = k + 32
    <3>1. k \div 32 = 2
      BY <2>1
    <3>. QED
      BY <3>1 DEF WithBit32
  <2>3. WithBit32(c) = k + 32 => c = k \/ c = k + 32
    BY <1>1, <2>1 DEF WithBit32
  <2>4. c = k => WithBit32(c) = k + 32
    BY <2>2
  <2>5. c = k + 32 => WithBit32(c) = k + 32
    <3>1. SUFFICES ASSUME c = k + 32 PROVE WithBit32(c) = c
      OBVIOUS
    <3>2. c >= 97 /\ c <= 122
      BY <3>1, <2>1
    <3>3. c \div 32 = 3
      BY <3>2, <1>1
    <3>. QED
      BY <3>3, <1>1 DEF WithBit32
  <2>6. SameLetter(c, k) <=> c = k \/ c = k + 32
    BY <2>1, <1>3 DEF SameLetter, Lowercase, Uppercase
  <2>. QED
    BY <2>2, <2>3, <2>4, <2>5, <2>6, Zenon
<1>. QED
  BY <1>2, <1>3 DEF KeywordChars

(* iequals_small: a header value, which has no CR in it, is taken for a    *)
(* keyword exactly if it is the keyword in any mixture of cases.           *)
THEOREM KeywordsOnly ==
    ASSUME NEW word \in Seq(Byte \ {CR}), NEW key \in Seq(KeywordChars)
    PROVE  IequalsSmall(word, key) <=>
             Len(word) = Len(key) /\ \A p \in DOMAIN key : SameLetter(word[p], key[p])
<1>1. \A p \in DOMAIN key : key[p] \in KeywordChars
  OBVIOUS
<1>2. ASSUME Len(word) = Len(key)
      PROVE  DOMAIN word = DOMAIN key /\ \A p \in DOMAIN key : word[p] \in Byte \ {CR}
  BY <1>2
<1>3. ASSUME Len(word) = Len(key), NEW p \in DOMAIN key
      PROVE  WithBit32(word[p]) = WithBit32(key[p]) <=> SameLetter(word[p], key[p])
  BY <1>1, <1>2, <1>3, OneLetter
<1>. QED
  BY <1>2, <1>3, Zenon DEF IequalsSmall

-----------------------------------------------------------------------------
(***************************************************************************)
(* Numbers.                                                                *)
(***************************************************************************)

(* A recursive function over 0 .. N is fixed by its equation: the reading  *)
(* of a number                                                             *)
Reading(str, m, F) ==
    F = [n \in 0 .. Len(str) |-> IF n = 0 THEN 0 ELSE (F[n - 1] * 10 + (str[n] - 48)) % m]

(* and its writing.                                                        *)
Writing(number, D) ==
    D = [n \in 0 .. number |-> IF n < 10 THEN <<48 + n>> ELSE Append(D[n \div 10], 48 + (n % 10))]

(* They exist: by induction, one more place at a time.                     *)
LEMMA ReadingExists ==
    ASSUME NEW str \in Seq(Nat), NEW m \in Nat \ {0}
    PROVE  \E F : Reading(str, m, F)
<1>. DEFINE L == Len(str)
            Good(k, G) == \A i \in 0 .. k : G[i] = IF i = 0 THEN 0 ELSE (G[i - 1] * 10 + (str[i] - 48)) % m
            Ks == {k \in Nat : \E G : G = [i \in 0 .. k |-> G[i]] /\ Good(k, G)}
<1>1. 0 \in Ks
  <2>. DEFINE G == [i \in 0 .. 0 |-> 0]
  <2>1. G = [i \in 0 .. 0 |-> G[i]] /\ Good(0, G)
    OBVIOUS
  <2>. HIDE DEF G, Good
  <2>. QED
    BY <2>1
<1>2. ASSUME NEW k \in 0 .. L, k < L, k \in Ks PROVE k + 1 \in Ks
  <2>1. PICK G : G = [i \in 0 .. k |-> G[i]] /\ Good(k, G)
    BY <1>2
  <2>. DEFINE last == (G[k] * 10 + (str[k + 1] - 48)) % m
              H == [i \in 0 .. k + 1 |-> IF i = k + 1 THEN last ELSE G[i]]
  <2>2. H = [i \in 0 .. k + 1 |-> H[i]]
    OBVIOUS
  <2>3. Good(k + 1, H)
    <3>1. SUFFICES ASSUME NEW i \in 0 .. k + 1
                   PROVE  H[i] = IF i = 0 THEN 0 ELSE (H[i - 1] * 10 + (str[i] - 48)) % m
      OBVIOUS
    <3>2. CASE i = k + 1
      <4>1. H[i] = last /\ i # 0 /\ H[i - 1] = G[k] /\ str[i] = str[k + 1]
        BY <3>2, <1>2
      <4>. HIDE DEF H
      <4>. QED
        BY <4>1
    <3>3. CASE i # k + 1
      <4>1. i \in 0 .. k /\ H[i] = G[i] /\ (i # 0 => H[i - 1] = G[i - 1])
        BY <3>3, <1>2
      <4>. HIDE DEF H
      <4>. QED
        BY <4>1, <2>1
    <3>. QED
      BY <3>2, <3>3
  <2>4. k + 1 \in Nat
    BY <1>2
  <2>. HIDE DEF H, Good
  <2>. QED
    BY <2>2, <2>3, <2>4
<1>3. L \in Nat /\ L \in 0 .. L
  OBVIOUS
<1>4. L \in Ks
  <2>. HIDE DEF Ks, L
  <2>. QED
    BY <1>1, <1>2, <1>3, BoundedInduction
<1>5. PICK G : G = [i \in 0 .. L |-> G[i]] /\ Good(L, G)
  BY <1>4
<1>6. Reading(str, m, G)
  BY <1>5, Zenon DEF Reading
<1>. QED
  BY <1>6

LEMMA WritingExists ==
    ASSUME NEW number \in Nat
    PROVE  \E D : Writing(number, D)
<1>. DEFINE Good(k, G) == \A i \in 0 .. k : G[i] = IF i < 10 THEN <<48 + i>> ELSE Append(G[i \div 10], 48 + (i % 10))
            Ks == {k \in Nat : \E G : G = [i \in 0 .. k |-> G[i]] /\ Good(k, G)}
<1>1. 0 \in Ks
  <2>. DEFINE G == [i \in 0 .. 0 |-> <<48 + i>>]
  <2>1. G = [i \in 0 .. 0 |-> G[i]]
    OBVIOUS
  <2>2. Good(0, G)
    OBVIOUS
  <2>. HIDE DEF G, Good
  <2>. QED
    BY <2>1, <2>2
<1>2. ASSUME NEW k \in 0 .. number, k < number, k \in Ks PROVE k + 1 \in Ks
  <2>1. PICK G : G = [i \in 0 .. k |-> G[i]] /\ Good(k, G)
    BY <1>2
  <2>. DEFINE last == IF k + 1 < 10 THEN <<48 + (k + 1)>> ELSE Append(G[(k + 1) \div 10], 48 + ((k + 1) % 10))
              H == [i \in 0 .. k + 1 |-> IF i = k + 1 THEN last ELSE G[i]]
  <2>2. H = [i \in 0 .. k + 1 |-> H[i]]
    OBVIOUS
  <2>3. Good(k + 1, H)
    <3>1. SUFFICES ASSUME NEW i \in 0 .. k + 1
                   PROVE  H[i] = IF i < 10 THEN <<48 + i>> ELSE Append(H[i \div 10], 48 + (i % 10))
      OBVIOUS
    <3>2. i >= 10 => i \div 10 \in 0 .. k + 1 /\ i \div 10 # k + 1 /\ H[i \div 10] = G[i \div 10]
      <4>1. i >= 10 => i \div 10 \in Nat /\ i \div 10 < i
        OBVIOUS
      <4>. QED
        BY <4>1, <1>2
    <3>3. CASE i = k + 1
      <4>1. H[i] = last
        BY <3>3
      <4>2. last = IF i < 10 THEN <<48 + i>> ELSE Append(G[i \div 10], 48 + (i % 10))
        BY <3>3, Zenon
      <4>3. i < 10 \/ i >= 10
        OBVIOUS
      <4>. HIDE DEF H, last
      <4>. QED
        BY <4>1, <4>2, <4>3, <3>2
    <3>4. CASE i # k + 1
      <4>1. i \in 0 .. k /\ H[i] = G[i]
        BY <3>4, <1>2
      <4>2. G[i] = IF i < 10 THEN <<48 + i>> ELSE Append(G[i \div 10], 48 + (i % 10))
        BY <4>1, <2>1, Zenon
      <4>3. i < 10 \/ i >= 10
        OBVIOUS
      <4>. HIDE DEF H
      <4>. QED
        BY <4>1, <4>2, <4>3, <3>2
    <3>. QED
      BY <3>3, <3>4
  <2>4. k + 1 \in Nat
    BY <1>2
  <2>. HIDE DEF H, Good
  <2>. QED
    BY <2>2, <2>3, <2>4
<1>3. number \in Nat /\ number \in 0 .. number
  OBVIOUS
<1>4. number \in Ks
  <2>. HIDE DEF Ks
  <2>. QED
    BY <1>1, <1>2, <1>3, BoundedInduction
<1>5. PICK G : G = [i \in 0 .. number |-> G[i]] /\ Good(number, G)
  BY <1>4
<1>6. Writing(number, G)
  BY <1>5, Zenon DEF Writing
<1>. QED
  BY <1>6

(* What the two functions use is such a one.                               *)
LEMMA AtoiForm ==
    ASSUME NEW str \in Seq(Nat), NEW m \in Nat \ {0}
    PROVE  \E F : /\ Reading(str, m, F)
                  /\ FastAtoi(str, m) = F[IF {p \in DOMAIN str : str[p] \notin Digits} = {} THEN Len(str)
                                           ELSE Least({p \in DOMAIN str : str[p] \notin Digits}) - 1]
<1>. DEFINE F == CHOOSE G : Reading(str, m, G)
<1>1. Reading(str, m, F)
  <2>1. \E G : Reading(str, m, G)
    BY ReadingExists
  <2>. QED
    BY <2>1, Zenon
<1>2. FastAtoi(str, m) = F[IF {p \in DOMAIN str : str[p] \notin Digits} = {} THEN Len(str)
                           ELSE Least({p \in DOMAIN str : str[p] \notin Digits}) - 1]
  BY Zenon DEF FastAtoi, Reading
<1>. HIDE DEF F
<1>. QED
  BY <1>1, <1>2

LEMMA ItoaForm ==
    ASSUME NEW number \in Nat, NEW room
    PROVE  \E D : /\ Writing(number, D)
                  /\ FastItoa(number, room) = IF Len(D[number]) <= room THEN D[number] ELSE << >>
<1>. DEFINE D == CHOOSE G : Writing(number, G)
<1>1. Writing(number, D)
  <2>1. \E G : Writing(number, G)
    BY WritingExists
  <2>. QED
    BY <2>1, Zenon
<1>2. FastItoa(number, room) = IF Len(D[number]) <= room THEN D[number] ELSE << >>
  BY Zenon DEF FastItoa, Writing
<1>. HIDE DEF D
<1>. QED
  BY <1>1, <1>2

(* A step of the writing.                                                  *)
LEMMA OneDigitMore ==
    ASSUME NEW number \in Nat, NEW D, Writing(number, D), NEW n \in 0 .. number
    PROVE  /\ n < 10 => D[n] = <<48 + n>>
           /\ n >= 10 => D[n] = Append(D[n \div 10], 48 + (n % 10))
<1>1. D[n] = IF n < 10 THEN <<48 + n>> ELSE Append(D[n \div 10], 48 + (n % 10))
  BY Zenon DEF Writing
<1>2. n >= 10 => ~ (n < 10)
  OBVIOUS
<1>. QED
  BY <1>1, <1>2

(* The digits of a number are at least one and nothing but digits.         *)
LEMMA DigitsForm ==
    ASSUME NEW number \in Nat, NEW D, Writing(number, D)
    PROVE  \A n \in 0 .. number : D[n] \in Seq(Digits) /\ Len(D[n]) >= 1
<1>. DEFINE Fine(n) == D[n] \in Seq(Digits) /\ Len(D[n]) >= 1
            Ks == {k \in Nat : k <= number => \A n \in 0 .. k : Fine(n)}
<1>1. ASSUME NEW n \in 0 .. number
      PROVE  /\ n < 10 => D[n] = <<48 + n>>
             /\ n >= 10 => D[n] = Append(D[n \div 10], 48 + (n % 10))
  BY OneDigitMore
<1>2. ASSUME NEW n \in 0 .. number, n < 10 PROVE Fine(n)
  <2>1. 48 + n \in Digits
    BY <1>2 DEF Digits
  <2>. DEFINE x == 48 + n
  <2>2. D[n] = <<x>>
    BY <1>1, <1>2
  <2>. HIDE DEF x
  <2>3. x \in Digits
    BY <2>1 DEF x
  <2>4. <<x>> \in Seq(Digits) /\ Len(<<x>>) >= 1
    BY <2>3
  <2>. QED
    BY <2>2, <2>4
<1>3. ASSUME NEW n \in 0 .. number, n >= 10, Fine(n \div 10) PROVE Fine(n)
  <2>1. 48 + (n % 10) \in Digits
    BY DEF Digits
  <2>. DEFINE x == 48 + (n % 10)
              e == D[n \div 10]
  <2>2. D[n] = Append(e, x) /\ e \in Seq(Digits) /\ x \in Digits
    BY <2>1, <1>1, <1>3
  <2>. HIDE DEF x, e
  <2>3. Append(e, x) \in Seq(Digits) /\ Len(Append(e, x)) >= 1
    BY <2>2
  <2>. QED
    BY <2>2, <2>3
<1>4. 0 \in Ks
  <2>. HIDE DEF Fine
  <2>. QED
    BY <1>2
<1>5. ASSUME NEW k \in 0 .. number, k < number, k \in Ks PROVE k + 1 \in Ks
  <2>1. \A n \in 0 .. k : Fine(n)
    BY <1>5
  <2>2. Fine(k + 1)
    <3>1. k + 1 \in 0 .. number
      BY <1>5
    <3>2. CASE k + 1 < 10
      <4>. HIDE DEF Fine
      <4>. QED
        BY <3>1, <3>2, <1>2
    <3>3. CASE k + 1 >= 10
      <4>1. (k + 1) \div 10 \in 0 .. k
        BY <3>3
      <4>. HIDE DEF Fine
      <4>. QED
        BY <3>1, <3>3, <4>1, <2>1, <1>3
    <3>. QED
      BY <3>2, <3>3, <3>1
  <2>3. \A n \in 0 .. k + 1 : n \in 0 .. k \/ n = k + 1
    OBVIOUS
  <2>. HIDE DEF Fine
  <2>. QED
    BY <2>1, <2>2, <2>3
<1>6. number \in Ks
  <2>. HIDE DEF Ks
  <2>1. number \in 0 .. number
    OBVIOUS
  <2>. QED
    BY <1>4, <1>5, <2>1, BoundedInduction
<1>. QED
  BY <1>6

(* A quotient and a remainder are the only ones.                           *)
LEMMA OneRemainder ==
    ASSUME NEW m \in Nat \ {0}, NEW a \in Nat, NEW b \in Nat, NEW r \in Nat, NEW s \in Nat,
           r < m, s < m, m * a + r = m * b + s
    PROVE  r = s
<1>1. ASSUME NEW x \in Nat, NEW y \in Nat, NEW u \in Nat, NEW v \in Nat, u < m, v < m,
             m * x + u = m * y + v, x < y
      PROVE  FALSE
  <2>1. PICK d \in Nat : y = x + 1 + d
    <3>. y - (x + 1) \in Nat /\ y = x + 1 + (y - (x + 1))
      BY <1>1
    <3>. QED
      OBVIOUS
  <2>2. m * y = m * x + m + m * d
    BY <2>1
  <2>. DEFINE p == m * x
              q == m * d
              t == m * y
  <2>3. p \in Nat /\ q \in Nat /\ t = p + m + q /\ p + u = t + v
    BY <2>2, <1>1
  <2>. HIDE DEF p, q, t
  <2>. QED
    BY <2>3, <1>1
<1>2. ~ (a < b) /\ ~ (b < a)
  BY <1>1
<1>3. a = b
  BY <1>2
<1>. DEFINE p == m * a
<1>4. p \in Nat /\ p + r = p + s
  BY <1>3
<1>. HIDE DEF p
<1>. QED
  BY <1>4

(* A multiple of the modulus makes no difference.                          *)
LEMMA Wraps ==
    ASSUME NEW m \in Nat \ {0}, NEW a \in Nat, NEW c \in Nat
    PROVE  (m * a + c) % m = c % m
<1>. DEFINE p == m * a
            x == p + c
            q == x \div m
            r == x % m
            u == c \div m
            v == c % m
<1>1. p \in Nat /\ x \in Nat
  OBVIOUS
<1>2. q \in Nat /\ r \in Nat /\ r < m /\ x = m * q + r
  <2>. HIDE DEF x
  <2>. QED
    BY <1>1
<1>3. u \in Nat /\ v \in Nat /\ v < m /\ c = m * u + v
  OBVIOUS
<1>4. x = m * (a + u) + v
  <2>. HIDE DEF u, v
  <2>1. m * (a + u) = m * a + m * u
    BY <1>3
  <2>. DEFINE w == m * u
  <2>2. w \in Nat /\ c = w + v /\ m * (a + u) = p + w
    BY <2>1, <1>3
  <2>. HIDE DEF p, w
  <2>. QED
    BY <2>2, <1>1, <1>3
<1>5. r = v
  <2>. HIDE DEF x, q, r, u, v, p
  <2>1. a + u \in Nat
    BY <1>3
  <2>2. m * (a + u) + v = m * q + r
    BY <1>2, <1>4
  <2>. QED
    BY <1>2, <1>3, <2>1, <2>2, OneRemainder
<1>. QED
  BY <1>5

(* One digit more.                                                         *)
LEMMA DigitMore ==
    ASSUME NEW m \in Nat \ {0}, NEW q \in Nat, NEW d \in Nat
    PROVE  ((q % m) * 10 + d) % m = (q * 10 + d) % m
<1>. DEFINE a == q \div m
            b == q % m
            c == b * 10 + d
<1>1. a \in Nat /\ b \in Nat /\ q = m * a + b
  OBVIOUS
<1>. HIDE DEF a, b
<1>2. c \in Nat /\ 10 * a \in Nat
  BY <1>1
<1>3. m * (10 * a) = 10 * (m * a)
  BY <1>1
<1>4. q * 10 + d = m * (10 * a) + c
  <2>. DEFINE w == m * a
  <2>1. w \in Nat /\ q = w + b /\ m * (10 * a) = 10 * w
    BY <1>1, <1>3
  <2>. HIDE DEF w
  <2>. QED
    BY <2>1, <1>1
<1>5. (m * (10 * a) + c) % m = c % m
  <2>. HIDE DEF c
  <2>. QED
    BY <1>2, Wraps
<1>. QED
  BY <1>4, <1>5 DEF b

(* Who reads the digits of n has n when the last of them is read.          *)
LEMMA DigitsRead ==
    ASSUME NEW number \in Nat, NEW D, Writing(number, D), NEW m \in Nat \ {0},
           NEW str \in Seq(Nat), NEW F, Reading(str, m, F)
    PROVE  \A n \in 0 .. number :
             Len(D[n]) <= Len(str) /\ (\A j \in 1 .. Len(D[n]) : str[j] = D[n][j]) => F[Len(D[n])] = n % m
<1>. DEFINE Fine(n) == Len(D[n]) <= Len(str) /\ (\A j \in 1 .. Len(D[n]) : str[j] = D[n][j]) => F[Len(D[n])] = n % m
            Ks == {k \in Nat : k <= number => \A n \in 0 .. k : Fine(n)}
<1>1. ASSUME NEW n \in 0 .. number
      PROVE  /\ n < 10 => D[n] = <<48 + n>>
             /\ n >= 10 => D[n] = Append(D[n \div 10], 48 + (n % 10))
  BY OneDigitMore
<1>2. ASSUME NEW i \in 0 .. Len(str)
      PROVE  F[i] = IF i = 0 THEN 0 ELSE (F[i - 1] * 10 + (str[i] - 48)) % m
  BY Zenon DEF Reading
<1>3. ASSUME NEW n \in 0 .. number, n < 10 PROVE Fine(n)
  <2>1. SUFFICES ASSUME Len(D[n]) <= Len(str), \A j \in 1 .. Len(D[n]) : str[j] = D[n][j]
                 PROVE  F[Len(D[n])] = n % m
    OBVIOUS
  <2>2. Len(D[n]) = 1 /\ D[n][1] = 48 + n
    <3>. DEFINE x == 48 + n
    <3>1. D[n] = <<x>>
      BY <1>1, <1>3
    <3>. HIDE DEF x
    <3>2. Len(<<x>>) = 1 /\ <<x>>[1] = x
      OBVIOUS
    <3>. QED
      BY <3>1, <3>2 DEF x
  <2>3. str[1] = 48 + n /\ 1 \in 0 .. Len(str) /\ 0 \in 0 .. Len(str)
    BY <2>1, <2>2
  <2>4. F[0] = 0
    BY <2>3, <1>2
  <2>5. F[1] = (F[1 - 1] * 10 + (str[1] - 48)) % m
    BY <2>3, <1>2
  <2>6. F[1 - 1] * 10 + (str[1] - 48) = n
    BY <2>3, <2>4
  <2>. QED
    BY <2>2, <2>5, <2>6
<1>4. ASSUME NEW n \in 0 .. number, n >= 10, Fine(n \div 10) PROVE Fine(n)
  <2>1. SUFFICES ASSUME Len(D[n]) <= Len(str), \A j \in 1 .. Len(D[n]) : str[j] = D[n][j]
                 PROVE  F[Len(D[n])] = n % m
    OBVIOUS
  <2>. DEFINE q == n \div 10
              e == D[q]
              l == Len(e)
  <2>2. q \in 0 .. number /\ q \in Nat /\ n = q * 10 + (n % 10) /\ n % 10 \in Nat
    BY <1>4
  <2>3. e \in Seq(Digits) /\ D[n] = Append(e, 48 + (n % 10))
    <3>. HIDE DEF q
    <3>1. D[q] \in Seq(Digits)
      BY <2>2, DigitsForm
    <3>2. D[n] = Append(D[q], 48 + (n % 10))
      BY <1>1, <1>4 DEF q
    <3>. QED
      BY <3>1, <3>2
  <2>4. Fine(q)
    BY <1>4
  <2>. HIDE DEF q, e
  <2>5. l \in Nat /\ Len(D[n]) = l + 1 /\ D[n][l + 1] = 48 + (n % 10) /\ \A j \in 1 .. l : D[n][j] = e[j]
    <3>. DEFINE x == 48 + (n % 10)
    <3>. HIDE DEF x
    <3>1. D[n] = Append(e, x)
      BY <2>3 DEF x
    <3>2. l \in Nat /\ Len(Append(e, x)) = l + 1 /\ Append(e, x)[l + 1] = x /\ \A j \in 1 .. l : Append(e, x)[j] = e[j]
      BY <2>3
    <3>. QED
      BY <3>1, <3>2 DEF x
  <2>6. F[l] = q % m
    <3>1. Len(D[q]) <= Len(str) /\ \A j \in 1 .. Len(D[q]) : str[j] = D[q][j]
      BY <2>1, <2>5 DEF e
    <3>. QED
      BY <2>4, <3>1 DEF e
  <2>. HIDE DEF l
  <2>7. l + 1 \in 0 .. Len(str) /\ l + 1 # 0 /\ str[l + 1] = 48 + (n % 10)
    BY <2>1, <2>5
  <2>8. F[l + 1] = (F[(l + 1) - 1] * 10 + (str[l + 1] - 48)) % m
    BY <2>7, <1>2
  <2>9. (l + 1) - 1 = l /\ str[l + 1] - 48 = n % 10
    BY <2>5, <2>7, <2>2
  <2>10. F[l + 1] = ((q % m) * 10 + (n % 10)) % m
    BY <2>6, <2>8, <2>9
  <2>11. F[l + 1] = (q * 10 + (n % 10)) % m
    BY <2>10, <2>2, DigitMore
  <2>. QED
    BY <2>2, <2>5, <2>11
<1>5. 0 \in Ks
  <2>. HIDE DEF Fine
  <2>. QED
    BY <1>3
<1>6. ASSUME NEW k \in 0 .. number, k < number, k \in Ks PROVE k + 1 \in Ks
  <2>1. \A n \in 0 .. k : Fine(n)
    BY <1>6
  <2>2. Fine(k + 1)
    <3>1. k + 1 \in 0 .. number
      BY <1>6
    <3>2. CASE k + 1 < 10
      <4>. HIDE DEF Fine
      <4>. QED
        BY <3>1, <3>2, <1>3
    <3>3. CASE k + 1 >= 10
      <4>1. (k + 1) \div 10 \in 0 .. k
        BY <3>3
      <4>. HIDE DEF Fine
      <4>. QED
        BY <3>1, <3>3, <4>1, <2>1, <1>4
    <3>. HIDE DEF Fine
    <3>. QED
      BY <3>2, <3>3, <3>1
  <2>3. \A n \in 0 .. k + 1 : n \in 0 .. k \/ n = k + 1
    OBVIOUS
  <2>. HIDE DEF Fine
  <2>. QED
    BY <2>1, <2>2, <2>3
<1>7. number \in Ks
  <2>. HIDE DEF Ks
  <2>1. number \in 0 .. number
    OBVIOUS
  <2>. QED
    BY <1>5, <1>6, <2>1, BoundedInduction
<1>. QED
  <2>. HIDE DEF Fine
  <2>1. \A n \in 0 .. number : Fine(n)
    BY <1>7
  <2>. QED
    BY <2>1 DEF Fine

(* A number below the k-th power of ten has no more than k digits: with a  *)
(* power more there is at most one digit more.                             *)
LEMMA DigitsWithin ==
    ASSUME NEW number \in Nat, NEW D, Writing(number, D), NEW c \in Nat, NEW k \in Nat, c >= 10,
           \A n \in 0 .. number : n < c => Len(D[n]) <= k
    PROVE  \A n \in 0 .. number : n < 10 * c => Len(D[n]) <= k + 1
<1>1. SUFFICES ASSUME NEW n \in 0 .. number, n < 10 * c PROVE Len(D[n]) <= k + 1
  OBVIOUS
<1>2. CASE n < 10
  <2>1. n < c
    BY <1>2
  <2>2. Len(D[n]) <= k /\ D[n] \in Seq(Digits)
    BY <2>1, DigitsForm
  <2>. DEFINE l == Len(D[n])
  <2>3. l \in Nat /\ l <= k
    BY <2>2
  <2>. HIDE DEF l
  <2>4. l <= k + 1
    BY <2>3
  <2>. QED
    BY <2>4 DEF l
<1>3. CASE n >= 10
  <2>. DEFINE q == n \div 10
              x == 48 + (n % 10)
              e == D[q]
  <2>1. q \in 0 .. number /\ q < c
    BY <1>1, <1>3
  <2>2. D[n] = Append(e, x)
    BY <1>3, OneDigitMore, SMTT(30)
  <2>. HIDE DEF q, x
  <2>3. e \in Seq(Digits) /\ Len(e) <= k
    BY <2>1, DigitsForm
  <2>. HIDE DEF e
  <2>4. Len(Append(e, x)) = Len(e) + 1 /\ Len(e) \in Nat
    BY <2>3
  <2>. QED
    BY <2>2, <2>3, <2>4
<1>. QED
  BY <1>2, <1>3

(* The 24 characters that setBody has for a Content-Length are enough for  *)
(* whatever a size_t holds: the header is never without its value.         *)
THEOREM LengthsFit ==
    ASSUME NEW number \in Nat, number < 18446744073709551616, NEW room \in Nat, room >= 20
    PROVE  FastItoa(number, room) # << >>
<1>1. PICK D : Writing(number, D) /\ FastItoa(number, room) = IF Len(D[number]) <= room THEN D[number] ELSE << >>
  BY ItoaForm
<1>. DEFINE Within(c, k) == \A n \in 0 .. number : n < c => Len(D[n]) <= k
<1>2. Within(10, 1)
  <2>1. SUFFICES ASSUME NEW n \in 0 .. number, n < 10 PROVE Len(D[n]) <= 1
    OBVIOUS
  <2>. DEFINE x == 48 + n
  <2>2. D[n] = <<x>>
    BY <1>1, <2>1, OneDigitMore
  <2>. HIDE DEF x
  <2>3. Len(<<x>>) = 1
    OBVIOUS
  <2>. QED
    BY <2>2, <2>3
<1>3. ASSUME NEW c \in Nat, NEW k \in Nat, c >= 10, Within(c, k) PROVE Within(10 * c, k + 1)
  BY <1>1, <1>3, DigitsWithin
<1>. HIDE DEF Within
<1>4. ASSUME NEW c \in Nat, NEW k \in Nat, c >= 10, Within(c, k) PROVE Within(1000 * c, k + 3)
  <2>1. Within(10 * c, k + 1)
    BY <1>3, <1>4
  <2>2. Within(10 * (10 * c), (k + 1) + 1)
    BY <1>3, <1>4, <2>1
  <2>3. Within(10 * (10 * (10 * c)), ((k + 1) + 1) + 1)
    BY <1>3, <1>4, <2>2
  <2>4. 10 * (10 * (10 * c)) = 1000 * c /\ ((k + 1) + 1) + 1 = k + 3
    BY <1>4
  <2>. QED
    BY <2>3, <2>4
<1>5. Within(10000, 4)
  BY <1>2, <1>4
<1>6. Within(10000000, 7)
  BY <1>4, <1>5
<1>7. Within(10000000000, 10)
  BY <1>4, <1>6
<1>8. Within(10000000000000, 13)
  BY <1>4, <1>7
<1>9. Within(10000000000000000, 16)
  BY <1>4, <1>8
<1>10. Within(10000000000000000000, 19)
  BY <1>4, <1>9
<1>11. Within(100000000000000000000, 20)
  BY <1>3, <1>10
<1>12. Len(D[number]) <= 20
  BY <1>11 DEF Within
<1>13. D[number] \in Seq(Digits) /\ Len(D[number]) >= 1
  BY <1>1, DigitsForm
<1>14. D[number] # << >> /\ Len(D[number]) <= room
  <2>. DEFINE d == D[number]
  <2>1. d \in Seq(Digits) /\ Len(d) >= 1 /\ Len(d) <= 20
    BY <1>12, <1>13
  <2>. HIDE DEF d
  <2>2. d # << >> /\ Len(d) <= room
    BY <2>1
  <2>. QED
    BY <2>2 DEF d
<1>. QED
  BY <1>1, <1>14

(* What fast_itoa has written, fast_atoi reads back, up to the character   *)
(* behind it that is no digit; a number that does not fit is read as what  *)
(* is left of it.                                                          *)
THEOREM NumbersReadBack ==
    ASSUME NEW number \in Nat, NEW room \in Nat, FastItoa(number, room) # << >>,
           NEW modulus \in Nat \ {0},
           NEW rest \in Seq(Nat), rest # << >> => rest[1] \notin Digits
    PROVE  FastAtoi(FastItoa(number, room) \o rest, modulus) = number % modulus
<1>. DEFINE text == FastItoa(number, room)
            str == text \o rest
            others == {p \in DOMAIN str : str[p] \notin Digits}
            last == IF others = {} THEN Len(str) ELSE Least(others) - 1
<1>1. PICK D : Writing(number, D) /\ text = IF Len(D[number]) <= room THEN D[number] ELSE << >>
  BY ItoaForm
<1>2. text = D[number]
  BY <1>1
<1>3. text \in Seq(Digits) /\ Len(text) >= 1
  <2>. HIDE DEF text
  <2>1. number \in 0 .. number
    OBVIOUS
  <2>. QED
    BY <1>1, <1>2, <2>1, DigitsForm
<1>. HIDE DEF text
<1>4. text \in Seq(Nat)
  BY <1>3 DEF Digits
<1>5. /\ str \in Seq(Nat) /\ Len(str) = Len(text) + Len(rest)
      /\ \A p \in 1 .. Len(text) : str[p] = text[p]
      /\ rest # << >> => str[Len(text) + 1] = rest[1]
  <2>1. rest # << >> => Len(rest) >= 1
    OBVIOUS
  <2>. QED
    BY <1>4, <2>1
<1>. HIDE DEF str
<1>6. last = Len(text)
  <2>1. \A p \in others : p \in Nat /\ p > Len(text)
    <3>1. \A p \in 1 .. Len(text) : str[p] \in Digits
      BY <1>3, <1>5
    <3>. QED
      BY <3>1, <1>5, SMTT(30)
  <2>2. CASE rest = << >>
    <3>1. Len(str) = Len(text)
      BY <2>2, <1>5
    <3>2. others = {}
      BY <2>1, <3>1, <1>5
    <3>. QED
      BY <3>1, <3>2
  <2>3. CASE rest # << >>
    <3>1. Len(rest) >= 1 /\ Len(rest) \in Nat /\ Len(text) \in Nat
      BY <2>3, <1>3
    <3>2. Len(text) + 1 \in others
      BY <3>1, <1>5, <2>3
    <3>3. Least(others) \in others /\ Least(others) <= Len(text) + 1
      <4>1. others \subseteq Nat
        BY <2>1
      <4>. HIDE DEF others
      <4>. QED
        BY <3>2, <4>1, LeastIs
    <3>4. Least(others) = Len(text) + 1
      <4>. HIDE DEF others
      <4>. QED
        BY <3>3, <2>1, <3>1
    <3>. HIDE DEF others
    <3>. QED
      BY <3>2, <3>4, <3>1
  <2>. QED
    BY <2>2, <2>3
<1>7. PICK F : Reading(str, modulus, F) /\ FastAtoi(str, modulus) = F[last]
  BY <1>5, AtoiForm
<1>8. F[Len(D[number])] = number % modulus
  <2>1. number \in 0 .. number
    OBVIOUS
  <2>2. Len(D[number]) <= Len(str) /\ \A j \in 1 .. Len(D[number]) : str[j] = D[number][j]
    BY <1>2, <1>3, <1>5
  <2>. QED
    BY <1>1, <1>5, <1>7, <2>1, <2>2, DigitsRead
<1>. QED
  <2>1. FastAtoi(str, modulus) = number % modulus
    BY <1>2, <1>6, <1>7, <1>8
  <2>. QED
    BY <2>1 DEF str, text

-----------------------------------------------------------------------------
(***************************************************************************)
(* Base 64.                                                                *)
(***************************************************************************)

(* Quotients and remainders of the constants in base64Encode.              *)
LEMMA Quotients ==
    ASSUME NEW q \in Nat, NEW r \in Nat
    PROVE  /\ r < 4 => (4 * q + r) \div 4 = q /\ (4 * q + r) % 4 = r
           /\ r < 16 => (16 * q + r) \div 16 = q /\ (16 * q + r) % 16 = r
           /\ r < 64 => (64 * q + r) \div 64 = q /\ (64 * q + r) % 64 = r
           /\ r < 4096 => (4096 * q + r) \div 4096 = q
  OBVIOUS

(* A byte is its upper and its lower bits.                                 *)
LEMMA Halves ==
    ASSUME NEW x \in Nat, x < 256
    PROVE  /\ x = 4 * (x \div 4) + (x % 4)
           /\ x \div 4 \in Nat /\ x % 4 \in Nat /\ x \div 4 < 64 /\ x % 4 < 4
           /\ x = 16 * (x \div 16) + (x % 16)
           /\ x \div 16 \in Nat /\ x % 16 \in Nat /\ x \div 16 < 16 /\ x % 16 < 16
           /\ x = 64 * (x \div 64) + (x % 64)
           /\ x \div 64 \in Nat /\ x % 64 \in Nat /\ x \div 64 < 4 /\ x % 64 < 64
<1>1. /\ x = 4 * (x \div 4) + (x % 4)
      /\ x \div 4 \in Nat /\ x % 4 \in Nat /\ x \div 4 < 64 /\ x % 4 < 4
  OBVIOUS
<1>2. /\ x = 16 * (x \div 16) + (x % 16)
      /\ x \div 16 \in Nat /\ x % 16 \in Nat /\ x \div 16 < 16 /\ x % 16 < 16
  OBVIOUS
<1>3. /\ x = 64 * (x \div 64) + (x % 64)
      /\ x \div 64 \in Nat /\ x % 64 \in Nat /\ x \div 64 < 4 /\ x % 64 < 64
  OBVIOUS
<1>. QED
  BY <1>1, <1>2, <1>3

(* Three bytes as one number of 24 bits.                                   *)
Packed(a, b, c) == 256 * (256 * a + b) + c

(* One group of three bytes, as four characters and back.                  *)
LEMMA GroupDecodes ==
    ASSUME NEW a \in Nat, NEW b \in Nat, NEW c \in Nat, a < 256, b < 256, c < 256,
           NEW chunk, chunk = Packed(a, b, c)
    PROVE  /\ 4 * ((chunk \div 4096) \div 64) + ((chunk \div 4096) % 64) \div 16 = a
           /\ 16 * (((chunk \div 4096) % 64) % 16) + ((chunk \div 64) % 64) \div 4 = b
           /\ 64 * (((chunk \div 64) % 64) % 4) + (chunk % 64) = c
<1>1. PICK a1 \in Nat, a0 \in Nat : a = 4 * a1 + a0 /\ a1 < 64 /\ a0 < 4
  <2>. /\ a = 4 * (a \div 4) + (a % 4) /\ a \div 4 < 64 /\ a % 4 < 4
       /\ a \div 4 \in Nat /\ a % 4 \in Nat
    BY Halves
  <2>. WITNESS a \div 4 \in Nat, a % 4 \in Nat
  <2>. QED
    OBVIOUS
<1>2. PICK b1 \in Nat, b0 \in Nat : b = 16 * b1 + b0 /\ b1 < 16 /\ b0 < 16
  <2>. /\ b = 16 * (b \div 16) + (b % 16) /\ b \div 16 < 16 /\ b % 16 < 16
       /\ b \div 16 \in Nat /\ b % 16 \in Nat
    BY Halves
  <2>. WITNESS b \div 16 \in Nat, b % 16 \in Nat
  <2>. QED
    OBVIOUS
<1>3. PICK c1 \in Nat, c0 \in Nat : c = 64 * c1 + c0 /\ c1 < 4 /\ c0 < 64
  <2>. /\ c = 64 * (c \div 64) + (c % 64) /\ c \div 64 < 4 /\ c % 64 < 64
       /\ c \div 64 \in Nat /\ c % 64 \in Nat
    BY Halves
  <2>. WITNESS c \div 64 \in Nat, c % 64 \in Nat
  <2>. QED
    OBVIOUS
<1>4. (chunk \div 4096) \div 64 = a1 /\ (chunk \div 4096) % 64 = 16 * a0 + b1
  <2>. DEFINE t == 16 * a0 + b1
              q == 64 * a1 + t
              r == 256 * b0 + c
  <2>1. chunk = 4096 * q + r /\ q \in Nat /\ r \in Nat /\ r < 4096
    BY <1>1, <1>2 DEF Packed
  <2>2. chunk \div 4096 = q
    <3>. HIDE DEF q, r
    <3>. QED
      BY <2>1, Quotients
  <2>3. t \in Nat /\ t < 64
    BY <1>1, <1>2
  <2>4. q \div 64 = a1 /\ q % 64 = t
    <3>. HIDE DEF t
    <3>. QED
      BY <2>3, Quotients
  <2>. QED
    BY <2>2, <2>4
<1>5. (chunk \div 64) % 64 = 4 * b0 + c1
  <2>. DEFINE p == 16 * a + b1
              t == 4 * b0 + c1
              q == 64 * p + t
  <2>1. chunk = 64 * q + c0 /\ q \in Nat
    BY <1>2, <1>3 DEF Packed
  <2>2. p \in Nat /\ t \in Nat /\ t < 64
    BY <1>2, <1>3
  <2>3. chunk \div 64 = q
    <3>. HIDE DEF q
    <3>. QED
      BY <1>3, <2>1, Quotients
  <2>4. q % 64 = t
    <3>. HIDE DEF p, t
    <3>. QED
      BY <2>2, Quotients
  <2>. QED
    BY <2>3, <2>4
<1>6. chunk % 64 = c0
  <2>. DEFINE q == 1024 * a + 4 * b + c1
  <2>1. chunk = 64 * q + c0 /\ q \in Nat
    BY <1>3 DEF Packed
  <2>. HIDE DEF q
  <2>. QED
    BY <1>3, <2>1, Quotients
<1>7. (16 * a0 + b1) \div 16 = a0 /\ (16 * a0 + b1) % 16 = b1
  BY <1>2, Quotients
<1>8. (4 * b0 + c1) \div 4 = b0 /\ (4 * b0 + c1) % 4 = c1
  BY <1>3, Quotients
<1>. QED
  BY <1>1, <1>2, <1>3, <1>4, <1>5, <1>6, <1>7, <1>8

-----------------------------------------------------------------------------
(* The group that a byte, or a character, belongs to.                      *)
LEMMA Groups ==
    ASSUME NEW n \in Nat, NEW x \in Nat, x < n
    PROVE  /\ x = 3 * (x \div 3) + (x % 3)
           /\ x \div 3 \in Nat /\ x % 3 \in Nat /\ x % 3 < 3
           /\ x \div 3 + 1 <= (n + 2) \div 3
           /\ (n + 2) \div 3 \in Nat
<1>1. /\ x = 3 * (x \div 3) + (x % 3)
      /\ x \div 3 \in Nat /\ x % 3 \in Nat /\ x % 3 < 3
  OBVIOUS
<1>2. (n + 2) \div 3 \in Nat /\ n <= 3 * ((n + 2) \div 3)
  OBVIOUS
<1>. QED
  BY <1>1, <1>2

(* Byte j of group g, as the encoder reads it.                             *)
GroupByte(data, g, j) == IF 3 * g + j <= Len(data) THEN data[3 * g + j] ELSE 0
GroupChunk(data, g) ==
    Packed(GroupByte(data, g, 1), GroupByte(data, g, 2), GroupByte(data, g, 3))

(* A byte is a number.                                                     *)
LEMMA Bytes == \A c \in Byte : c \in Nat /\ c < 256
  BY DEF Byte

(* The character of rank r in group g, which is character k of all.        *)
LEMMA CodePlaces ==
    ASSUME NEW data \in Seq(Byte), NEW g \in Nat, NEW r \in {0, 1, 2, 3},
           NEW k, k = 4 * g + r + 1, g + 1 <= (Len(data) + 2) \div 3
    PROVE  /\ (k - 1) \div 4 = g /\ (k - 1) % 4 = r
           /\ Chunk(data, k) = GroupChunk(data, g)
           /\ Base64Encode(data)[k] = Sextet(data, k)
<1>1. Len(data) \in Nat /\ (Len(data) + 2) \div 3 \in Nat
  OBVIOUS
<1>2. k \in 1 .. 4 * ((Len(data) + 2) \div 3)
  BY <1>1
<1>3. k - 1 = 4 * g + r /\ r \in Nat /\ r < 4
  OBVIOUS
<1>4. (k - 1) \div 4 = g /\ (k - 1) % 4 = r
  BY <1>3, Quotients
<1>5. Chunk(data, k) = GroupChunk(data, g)
  <2>. DEFINE d == (k - 1) \div 4
  <2>1. /\ InGroup(data, k, 1) = GroupByte(data, d, 1)
        /\ InGroup(data, k, 2) = GroupByte(data, d, 2)
        /\ InGroup(data, k, 3) = GroupByte(data, d, 3)
    BY Zenon DEF InGroup, GroupByte
  <2>2. d = g
    BY <1>4
  <2>. HIDE DEF d
  <2>. QED
    BY <2>1, <2>2 DEF Chunk, GroupChunk, Packed
<1>6. Base64Encode(data)[k] = Sextet(data, k)
  BY <1>2, Zenon DEF Base64Encode
<1>. QED
  BY <1>4, <1>5, <1>6, Zenon

LEMMA Characters ==
    ASSUME NEW data \in Seq(Byte), NEW g \in Nat, g + 1 <= (Len(data) + 2) \div 3,
           NEW code, code = Base64Encode(data), NEW chunk, chunk = GroupChunk(data, g)
    PROVE  /\ code[4 * g + 1] = (chunk \div 4096) \div 64
           /\ code[4 * g + 2] = (chunk \div 4096) % 64
           /\ 3 * g + 2 <= Len(data) => code[4 * g + 3] = (chunk \div 64) % 64
           /\ 3 * g + 3 <= Len(data) => code[4 * g + 4] = chunk % 64
<1>. DEFINE k(r) == 4 * g + r + 1
<1>1. \A r \in {0, 1, 2, 3} :
         /\ (k(r) - 1) \div 4 = g /\ (k(r) - 1) % 4 = r
         /\ Chunk(data, k(r)) = chunk /\ code[k(r)] = Sextet(data, k(r))
  <2>. TAKE r \in {0, 1, 2, 3}
  <2>1. k(r) = 4 * g + r + 1
    OBVIOUS
  <2>. HIDE DEF k
  <2>2. /\ (k(r) - 1) \div 4 = g /\ (k(r) - 1) % 4 = r
        /\ Chunk(data, k(r)) = GroupChunk(data, g)
        /\ Base64Encode(data)[k(r)] = Sextet(data, k(r))
    BY <2>1, CodePlaces, ZenonT(30)
  <2>. QED
    BY <2>2, Zenon
<1>. HIDE DEF k
<1>2. code[k(0)] = (chunk \div 4096) \div 64
  <2>1. (k(0) - 1) % 4 = 0 /\ Chunk(data, k(0)) = chunk /\ code[k(0)] = Sextet(data, k(0))
    BY <1>1, Zenon
  <2>. QED
    BY <2>1, SMT DEF Sextet
<1>3. code[k(1)] = (chunk \div 4096) % 64
  <2>1. (k(1) - 1) % 4 = 1 /\ Chunk(data, k(1)) = chunk /\ code[k(1)] = Sextet(data, k(1))
    BY <1>1, Zenon
  <2>2. 1 # 0
    OBVIOUS
  <2>. QED
    BY <2>1, <2>2, SMT DEF Sextet
<1>4. ASSUME 3 * g + 2 <= Len(data)
      PROVE  code[k(2)] = (chunk \div 64) % 64
  <2>1. /\ (k(2) - 1) \div 4 = g /\ (k(2) - 1) % 4 = 2
        /\ Chunk(data, k(2)) = chunk /\ code[k(2)] = Sextet(data, k(2))
    BY <1>1, Zenon
  <2>2. 2 # 0 /\ 2 # 1 /\ ~(3 * g + 2 > Len(data))
    BY <1>4
  <2>. QED
    BY <2>1, <2>2, SMT DEF Sextet
<1>5. ASSUME 3 * g + 3 <= Len(data)
      PROVE  code[k(3)] = chunk % 64
  <2>1. /\ (k(3) - 1) \div 4 = g /\ (k(3) - 1) % 4 = 3
        /\ Chunk(data, k(3)) = chunk /\ code[k(3)] = Sextet(data, k(3))
    BY <1>1, Zenon
  <2>2. 3 # 0 /\ 3 # 1 /\ 3 # 2 /\ ~(3 * g + 3 > Len(data))
    BY <1>5
  <2>. QED
    BY <2>1, <2>2, SMT DEF Sextet
<1>. QED
  BY <1>2, <1>3, <1>4, <1>5 DEF k

-----------------------------------------------------------------------------
(* The accept token of the WebSocket handshake: whatever the digest, who   *)
(* decodes the token gets each byte of it.                                 *)
THEOREM TokensDecode ==
    ASSUME NEW data \in Seq(Byte), NEW i \in DOMAIN data
    PROVE  Decoded(Base64Encode(data), i) = data[i]
<1>. DEFINE g == (i - 1) \div 3
            rank == (i - 1) % 3
            n == Len(data)
            code == Base64Encode(data)
            chunk == GroupChunk(data, g)
            byte(j) == GroupByte(data, g, j)
<1>1. i \in Nat /\ i >= 1 /\ i <= n /\ n \in Nat
  OBVIOUS
<1>2. /\ i = 3 * g + rank + 1 /\ g \in Nat /\ rank \in Nat /\ rank < 3
      /\ g + 1 <= (n + 2) \div 3
  <2>1. i - 1 \in Nat /\ i - 1 < n
    BY <1>1
  <2>. QED
    BY <1>1, <2>1, Groups
<1>. HIDE DEF g, rank
<1>3. \A j \in {1, 2, 3} : byte(j) \in Nat /\ byte(j) < 256
  <2>1. \A p \in 1 .. n : data[p] \in Nat /\ data[p] < 256
    BY Bytes
  <2>. HIDE DEF n
  <2>. QED
    BY <1>1, <1>2, <2>1 DEF GroupByte, n
<1>4. /\ code[4 * g + 1] = (chunk \div 4096) \div 64
      /\ code[4 * g + 2] = (chunk \div 4096) % 64
      /\ 3 * g + 2 <= n => code[4 * g + 3] = (chunk \div 64) % 64
      /\ 3 * g + 3 <= n => code[4 * g + 4] = chunk % 64
  BY <1>2, Characters, SMT
<1>5. /\ 4 * ((chunk \div 4096) \div 64) + ((chunk \div 4096) % 64) \div 16 = byte(1)
      /\ 16 * (((chunk \div 4096) % 64) % 16) + ((chunk \div 64) % 64) \div 4 = byte(2)
      /\ 64 * (((chunk \div 64) % 64) % 4) + (chunk % 64) = byte(3)
  <2>. DEFINE x == byte(1)
              y == byte(2)
              z == byte(3)
  <2>1. /\ x \in Nat /\ y \in Nat /\ z \in Nat /\ x < 256 /\ y < 256 /\ z < 256
        /\ chunk = Packed(x, y, z)
    BY <1>3, Zenon DEF GroupChunk
  <2>. HIDE DEF chunk, x, y, z
  <2>2. /\ 4 * ((chunk \div 4096) \div 64) + ((chunk \div 4096) % 64) \div 16 = x
        /\ 16 * (((chunk \div 4096) % 64) % 16) + ((chunk \div 64) % 64) \div 4 = y
        /\ 64 * (((chunk \div 64) % 64) % 4) + (chunk % 64) = z
    BY <2>1, GroupDecodes
  <2>. QED
    BY <2>2 DEF x, y, z
<1>6. byte(rank + 1) = data[i]
  BY <1>1, <1>2 DEF GroupByte
<1>. HIDE DEF byte, chunk, code, n
<1>7. CASE rank = 0
  <2>1. Decoded(code, i) = 4 * code[4 * g + 1] + code[4 * g + 2] \div 16
    BY <1>7, Zenon DEF Decoded, g, rank
  <2>. QED
    BY <1>4, <1>5, <1>6, <1>7, <2>1 DEF code
<1>8. CASE rank = 1
  <2>1. Decoded(code, i) = 16 * (code[4 * g + 2] % 16) + code[4 * g + 3] \div 4
    BY <1>8 DEF Decoded, g, rank
  <2>. QED
    BY <1>1, <1>2, <1>4, <1>5, <1>6, <1>8, <2>1 DEF code
<1>9. CASE rank = 2
  <2>1. Decoded(code, i) = 64 * (code[4 * g + 3] % 4) + code[4 * g + 4]
    BY <1>9 DEF Decoded, g, rank
  <2>. QED
    BY <1>1, <1>2, <1>4, <1>5, <1>6, <1>9, <2>1 DEF code
<1>. QED
  BY <1>2, <1>7, <1>8, <1>9

-----------------------------------------------------------------------------
(***************************************************************************)
(* URLs.                                                                   *)
(***************************************************************************)

(* Other sequences that are built one by one: the text of urlEncode        *)
Mark(c) == IF c \in Unreserved THEN <<c>> ELSE <<Percent, HexDigit(c \div 16), HexDigit(c % 16)>>
Encoding(str, E) == E = [n \in 0 .. Len(str) |-> IF n = 0 THEN << >> ELSE E[n - 1] \o Mark(str[n])]

(* and what urlDecode has of the text from a place on.                     *)
Decoding(str, D) ==
    D = [n \in 1 .. Len(str) + 1 |->
            IF n > Len(str) THEN << >>
            ELSE IF str[n] = Percent /\ n + 2 <= Len(str)
            THEN <<16 * HexVal(str[n + 1]) + HexVal(str[n + 2])>> \o D[n + 3]
            ELSE IF str[n] = Percent THEN D[n + 1]
            ELSE <<IF str[n] = Plus THEN Space ELSE str[n]>> \o D[n + 1]]

LEMMA EncodingExists ==
    ASSUME NEW str \in Seq(Byte)
    PROVE  \E E : Encoding(str, E)
<1>. DEFINE L == Len(str)
            Good(k, G) == \A i \in 0 .. k : G[i] = IF i = 0 THEN << >> ELSE G[i - 1] \o Mark(str[i])
            Ks == {k \in Nat : \E G : G = [i \in 0 .. k |-> G[i]] /\ Good(k, G)}
<1>1. 0 \in Ks
  <2>. DEFINE G == [i \in 0 .. 0 |-> << >>]
  <2>1. G = [i \in 0 .. 0 |-> G[i]] /\ Good(0, G)
    OBVIOUS
  <2>. HIDE DEF G, Good
  <2>. QED
    BY <2>1
<1>2. ASSUME NEW k \in 0 .. L, k < L, k \in Ks PROVE k + 1 \in Ks
  <2>1. PICK G : G = [i \in 0 .. k |-> G[i]] /\ Good(k, G)
    BY <1>2
  <2>. DEFINE last == G[k] \o Mark(str[k + 1])
              H == [i \in 0 .. k + 1 |-> IF i = k + 1 THEN last ELSE G[i]]
  <2>2. H = [i \in 0 .. k + 1 |-> H[i]]
    OBVIOUS
  <2>3. Good(k + 1, H)
    <3>1. SUFFICES ASSUME NEW i \in 0 .. k + 1
                   PROVE  H[i] = IF i = 0 THEN << >> ELSE H[i - 1] \o Mark(str[i])
      OBVIOUS
    <3>2. CASE i = k + 1
      <4>1. H[i] = last /\ i # 0 /\ H[i - 1] = G[k] /\ str[i] = str[k + 1]
        <5>. HIDE DEF last
        <5>. QED
          BY <3>2, <1>2
      <4>. HIDE DEF H
      <4>. QED
        BY <4>1
    <3>3. CASE i # k + 1
      <4>1. i \in 0 .. k /\ H[i] = G[i] /\ (i # 0 => H[i - 1] = G[i - 1])
        BY <3>3, <1>2
      <4>. HIDE DEF H
      <4>. QED
        BY <4>1, <2>1
    <3>. QED
      BY <3>2, <3>3
  <2>4. k + 1 \in Nat
    BY <1>2
  <2>. HIDE DEF H, Good
  <2>. QED
    BY <2>2, <2>3, <2>4
<1>3. L \in Nat /\ L \in 0 .. L
  OBVIOUS
<1>4. L \in Ks
  <2>. HIDE DEF Ks, L
  <2>. QED
    BY <1>1, <1>2, <1>3, BoundedInduction
<1>5. PICK G : G = [i \in 0 .. L |-> G[i]] /\ Good(L, G)
  BY <1>4
<1>6. Encoding(str, G)
  BY <1>5, Zenon DEF Encoding
<1>. QED
  BY <1>6

LEMMA DecodingExists ==
    ASSUME NEW str \in Seq(Byte)
    PROVE  \E D : Decoding(str, D)
<1>. DEFINE L == Len(str)
            From(i, G) ==
              IF i > Len(str) THEN << >>
              ELSE IF str[i] = Percent /\ i + 2 <= Len(str)
              THEN <<16 * HexVal(str[i + 1]) + HexVal(str[i + 2])>> \o G[i + 3]
              ELSE IF str[i] = Percent THEN G[i + 1]
              ELSE <<IF str[i] = Plus THEN Space ELSE str[i]>> \o G[i + 1]
            Good(k, G) == \A i \in (L + 1 - k) .. L + 1 : G[i] = From(i, G)
            Ks == {k \in Nat : \E G : G = [i \in 1 .. L + 1 |-> G[i]] /\ Good(k, G)}
<1>0. L \in Nat
  OBVIOUS
<1>. HIDE DEF L
<1>1. 0 \in Ks
  <2>. DEFINE G == [i \in 1 .. L + 1 |-> << >>]
  <2>1. G = [i \in 1 .. L + 1 |-> G[i]]
    OBVIOUS
  <2>2. Good(0, G)
    <3>1. L + 1 > Len(str) /\ L + 1 \in 1 .. L + 1 /\ \A i \in (L + 1 - 0) .. L + 1 : i = L + 1
      BY <1>0 DEF L
    <3>2. G[L + 1] = << >> /\ From(L + 1, G) = << >>
      BY <3>1
    <3>. QED
      BY <3>1, <3>2
  <2>. HIDE DEF G, Good
  <2>. QED
    BY <2>1, <2>2
<1>2. ASSUME NEW k \in 0 .. L, k < L, k \in Ks PROVE k + 1 \in Ks
  <2>1. PICK G : G = [i \in 1 .. L + 1 |-> G[i]] /\ Good(k, G)
    BY <1>2
  <2>. DEFINE a == L - k
              H == [i \in 1 .. L + 1 |-> IF i = a THEN From(a, G) ELSE G[i]]
  <2>2. H = [i \in 1 .. L + 1 |-> H[i]]
    OBVIOUS
  <2>3. a \in 1 .. L /\ L + 1 - (k + 1) = a /\ L + 1 - k = a + 1
    BY <1>2, <1>0
  <2>. HIDE DEF a
  <2>4. \A i \in a .. L + 1 : From(i, H) = From(i, G)
    <3>1. SUFFICES ASSUME NEW i \in a .. L + 1 PROVE From(i, H) = From(i, G)
      OBVIOUS
    <3>2. \A j \in 1 .. L + 1 : j # a => H[j] = G[j]
      OBVIOUS
    <3>3. i <= L => i + 1 \in 1 .. L + 1 /\ i + 1 # a
      BY <2>3, <1>0
    <3>4. i + 2 <= L => i + 3 \in 1 .. L + 1 /\ i + 3 # a
      BY <2>3, <1>0
    <3>5. (i <= L => H[i + 1] = G[i + 1]) /\ (i + 2 <= L => H[i + 3] = G[i + 3])
      <4>. HIDE DEF H
      <4>. QED
        BY <3>2, <3>3, <3>4
    <3>6. ~ (i > L) => i <= L
      BY <2>3, <1>0
    <3>. HIDE DEF H
    <3>. QED
      BY <3>5, <3>6, Zenon DEF L
  <2>5. Good(k + 1, H)
    <3>1. SUFFICES ASSUME NEW i \in a .. L + 1 PROVE H[i] = From(i, H)
      BY <2>3
    <3>2. i \in 1 .. L + 1
      BY <2>3, <1>0
    <3>3. CASE i = a
      <4>1. H[i] = From(a, G)
        BY <3>2, <3>3
      <4>. HIDE DEF H, From
      <4>. QED
        BY <4>1, <3>3, <2>4
    <3>4. CASE i # a
      <4>1. H[i] = G[i]
        BY <3>2, <3>4
      <4>2. i \in (L + 1 - k) .. L + 1
        BY <2>3, <3>4, <1>0
      <4>3. G[i] = From(i, G)
        <5>. HIDE DEF From
        <5>. QED
          BY <4>2, <2>1
      <4>. HIDE DEF H, From
      <4>. QED
        BY <4>1, <4>3, <2>4
    <3>. QED
      BY <3>3, <3>4
  <2>6. k + 1 \in Nat
    BY <1>2
  <2>. HIDE DEF H, Good
  <2>. QED
    BY <2>2, <2>5, <2>6
<1>3. L \in 0 .. L
  BY <1>0
<1>4. L \in Ks
  <2>. HIDE DEF Ks
  <2>. QED
    BY <1>0, <1>1, <1>2, <1>3, BoundedInduction
<1>5. PICK G : G = [i \in 1 .. L + 1 |-> G[i]] /\ Good(L, G)
  <2>. HIDE DEF Good
  <2>. QED
    BY <1>4
<1>6. \A i \in 1 .. L + 1 : G[i] = From(i, G)
  <2>1. L + 1 - L = 1
    BY <1>0
  <2>. HIDE DEF From
  <2>. QED
    BY <1>5, <2>1
<1>7. Decoding(str, G)
  BY <1>5, <1>6, Zenon DEF Decoding, L
<1>. QED
  BY <1>7

LEMMA UrlEncodeForm ==
    ASSUME NEW str \in Seq(Byte)
    PROVE  \E E : Encoding(str, E) /\ UrlEncode(str) = E[Len(str)]
<1>. DEFINE E == CHOOSE G : Encoding(str, G)
<1>1. Encoding(str, E)
  <2>1. \E G : Encoding(str, G)
    BY EncodingExists
  <2>. QED
    BY <2>1, Zenon
<1>2. UrlEncode(str) = E[Len(str)]
  BY Zenon DEF UrlEncode, Encoding, Mark
<1>. HIDE DEF E
<1>. QED
  BY <1>1, <1>2

LEMMA UrlDecodeForm ==
    ASSUME NEW str \in Seq(Byte)
    PROVE  \E D : Decoding(str, D) /\ UrlDecode(str) = D[1]
<1>. DEFINE D == CHOOSE G : Decoding(str, G)
<1>1. Decoding(str, D)
  <2>1. \E G : Decoding(str, G)
    BY DecodingExists
  <2>. QED
    BY <2>1, Zenon
<1>2. UrlDecode(str) = D[1]
  BY Zenon DEF UrlDecode, Decoding
<1>. HIDE DEF D
<1>. QED
  BY <1>1, <1>2

(* What urlEncode makes of a character: the character or a "%" with two    *)
(* hex digits, which hexval takes for 0.                                   *)
LEMMA MarkForm ==
    ASSUME NEW c \in Byte
    PROVE  /\ Mark(c) \in Seq(Byte)
           /\ c \in Unreserved => Mark(c) = <<c>> /\ c # Percent /\ c # Plus
           /\ c \notin Unreserved =>
                 /\ Len(Mark(c)) = 3 /\ Mark(c)[1] = Percent
                 /\ 16 * HexVal(Mark(c)[2]) + HexVal(Mark(c)[3]) = 0
<1>. DEFINE a == c \div 16
            b == c % 16
            x == HexDigit(a)
            y == HexDigit(b)
<1>1. a \in 0 .. 15 /\ b \in 0 .. 15
  BY DEF Byte
<1>. HIDE DEF a, b
<1>2. x \in 48 .. 70 /\ y \in 48 .. 70
  BY <1>1 DEF HexDigit
<1>3. HexVal(x) = 0 /\ HexVal(y) = 0
  <2>. HIDE DEF x, y
  <2>. QED
    BY <1>2 DEF HexVal
<1>4. x \in Byte /\ y \in Byte
  <2>. HIDE DEF x, y
  <2>. QED
    BY <1>2 DEF Byte
<1>5. c \in Unreserved => c # Percent /\ c # Plus
  BY DEF Unreserved, Percent, Plus, Digits, Lowercase, Uppercase
<1>6. Percent \in Byte
  BY DEF Percent, Byte
<1>7. CASE c \in Unreserved
  <2>1. Mark(c) = <<c>>
    BY <1>7 DEF Mark
  <2>2. <<c>> \in Seq(Byte)
    OBVIOUS
  <2>. QED
    BY <2>1, <2>2, <1>5, <1>7
<1>8. CASE c \notin Unreserved
  <2>1. Mark(c) = <<Percent, x, y>>
    BY <1>8 DEF Mark, a, b
  <2>. HIDE DEF x, y
  <2>2. /\ <<Percent, x, y>> \in Seq(Byte) /\ Len(<<Percent, x, y>>) = 3
        /\ <<Percent, x, y>>[1] = Percent /\ <<Percent, x, y>>[2] = x /\ <<Percent, x, y>>[3] = y
    BY <1>4, <1>6
  <2>. QED
    BY <2>1, <2>2, <1>3, <1>8
<1>. QED
  BY <1>7, <1>8

(* One mark more at each place, so that the texts of the prefixes of str   *)
(* are prefixes of its whole text.                                         *)
Growing(str, E, L, text) ==
    /\ E[0] = << >>
    /\ \A n \in 1 .. L : E[n] = E[n - 1] \o Mark(str[n])
    /\ \A n \in 0 .. L : E[n] \in Seq(Byte)
    /\ \A n \in 0 .. L : Len(E[n]) <= Len(text) /\ \A j \in 1 .. Len(E[n]) : text[j] = E[n][j]

(* That is how urlEncode builds its text.                                  *)
LEMMA EncodingForm ==
    ASSUME NEW str \in Seq(Byte), NEW E, Encoding(str, E)
    PROVE  Growing(str, E, Len(str), E[Len(str)])
<1>. DEFINE L == Len(str)
            Texts == {k \in Nat : k <= L => E[k] \in Seq(Byte)}
            Begins(n, k) == Len(E[n]) <= Len(E[k]) /\ \A j \in 1 .. Len(E[n]) : E[k][j] = E[n][j]
            Ks == {k \in Nat : k <= L => \A n \in 0 .. k : Begins(n, k)}
<1>0. L \in Nat /\ L \in 0 .. L
  OBVIOUS
<1>1. E[0] = << >>
  <2>1. 0 \in 0 .. Len(str)
    OBVIOUS
  <2>. QED
    BY <2>1, Zenon DEF Encoding
<1>2. ASSUME NEW n \in 1 .. L PROVE E[n] = E[n - 1] \o Mark(str[n])
  <2>1. n \in 0 .. Len(str) /\ n # 0
    OBVIOUS
  <2>. QED
    BY <2>1, Zenon DEF Encoding
<1>3. ASSUME NEW k \in 0 .. L, k < L PROVE E[k + 1] = E[k] \o Mark(str[k + 1]) /\ Mark(str[k + 1]) \in Seq(Byte)
  <2>1. k + 1 \in 1 .. L /\ (k + 1) - 1 = k /\ str[k + 1] \in Byte
    BY <1>3
  <2>2. E[k + 1] = E[(k + 1) - 1] \o Mark(str[k + 1])
    BY <2>1, <1>2
  <2>. QED
    BY <2>1, <2>2, MarkForm
<1>. HIDE DEF L
<1>4. \A k \in 0 .. L : k \in Texts
  <2>1. 0 \in Texts
    <3>1. << >> \in Seq(Byte)
      OBVIOUS
    <3>. QED
      BY <1>1, <3>1
  <2>2. ASSUME NEW k \in 0 .. L, k < L, k \in Texts PROVE k + 1 \in Texts
    <3>1. E[k] \in Seq(Byte)
      BY <2>2, <1>0
    <3>. DEFINE e == E[k]
                m == Mark(str[k + 1])
    <3>2. E[k + 1] = e \o m /\ e \in Seq(Byte) /\ m \in Seq(Byte)
      BY <3>1, <1>3, <2>2
    <3>. HIDE DEF e, m
    <3>3. e \o m \in Seq(Byte)
      BY <3>2
    <3>4. E[k + 1] \in Seq(Byte)
      BY <3>2, <3>3
    <3>5. k + 1 \in Nat
      BY <1>0
    <3>. QED
      BY <3>4, <3>5
  <2>. HIDE DEF Texts
  <2>. QED
    BY <1>0, <2>1, <2>2, BoundedInduction
<1>5. \A k \in 0 .. L : E[k] \in Seq(Byte)
  BY <1>4, <1>0
<1>6. \A k \in 0 .. L : k \in Ks
  <2>1. 0 \in Ks
    <3>1. Begins(0, 0)
      <4>1. Len(E[0]) \in Nat
        BY <1>0, <1>5
      <4>. QED
        BY <4>1
    <3>. HIDE DEF Begins
    <3>. QED
      BY <3>1
  <2>2. ASSUME NEW k \in 0 .. L, k < L, k \in Ks PROVE k + 1 \in Ks
    <3>1. SUFFICES ASSUME NEW n \in 0 .. k + 1 PROVE Begins(n, k + 1)
      <4>. HIDE DEF Begins
      <4>. QED
        OBVIOUS
    <3>2. E[k] \in Seq(Byte) /\ E[n] \in Seq(Byte)
      <4>1. n \in 0 .. L
        BY <2>2, <1>0
      <4>. QED
        BY <4>1, <1>5
    <3>3. CASE n = k + 1
      BY <3>2, <3>3
    <3>4. CASE n # k + 1
      <4>1. Begins(n, k)
        <5>. HIDE DEF Begins
        <5>. QED
          BY <2>2, <3>4, <1>0
      <4>. DEFINE e == E[k]
                  m == Mark(str[k + 1])
                  g == E[n]
      <4>2. e \in Seq(Byte) /\ m \in Seq(Byte) /\ E[k + 1] = e \o m /\ g \in Seq(Byte)
        BY <3>2, <1>3, <2>2
      <4>3. Len(g) <= Len(e) /\ \A j \in 1 .. Len(g) : e[j] = g[j]
        BY <4>1
      <4>. HIDE DEF e, m, g
      <4>4. Len(g) <= Len(e \o m) /\ \A j \in 1 .. Len(g) : (e \o m)[j] = g[j]
        BY <4>2, <4>3
      <4>. QED
        BY <4>2, <4>4 DEF g
    <3>. QED
      BY <3>3, <3>4
  <2>. HIDE DEF Ks
  <2>. QED
    BY <1>0, <2>1, <2>2, BoundedInduction
<1>7. \A n \in 0 .. L : Begins(n, L)
  BY <1>0, <1>6
<1>. QED
  BY <1>1, <1>2, <1>5, <1>7 DEF L, Growing

(* A sequence is its first element and the rest.                           *)
LEMMA FirstAndRest ==
    ASSUME NEW T, NEW x \in T, NEW r \in Seq(T), NEW s \in Seq(T),
           Len(s) = Len(r) + 1, s[1] = x, \A p \in 1 .. Len(r) : s[p + 1] = r[p]
    PROVE  <<x>> \o r = s
<1>1. <<x>> \o r \in Seq(T) /\ Len(<<x>> \o r) = Len(r) + 1
  OBVIOUS
<1>2. ASSUME NEW j \in 1 .. Len(s) PROVE (<<x>> \o r)[j] = s[j]
  <2>1. CASE j = 1
    BY <2>1
  <2>2. CASE j # 1
    <3>1. j - 1 \in 1 .. Len(r) /\ (j - 1) + 1 = j
      BY <2>2
    <3>2. (<<x>> \o r)[j] = r[j - 1]
      BY <2>2
    <3>. QED
      BY <3>1, <3>2
  <2>. QED
    BY <2>1, <2>2
<1>. QED
  BY <1>1, <1>2, SMTT(30)

(* The text is decoded back to front: what is at the place of a mark is    *)
(* the character, or NUL, and then what is behind the mark.                *)
LEMMA DecodeMark ==
    ASSUME NEW text \in Seq(Byte), NEW D, Decoding(text, D), NEW c \in Byte,
           NEW i \in 1 .. Len(text), i + Len(Mark(c)) - 1 <= Len(text),
           \A j \in 1 .. Len(Mark(c)) : text[i + j - 1] = Mark(c)[j]
    PROVE  D[i] = <<IF c \in Unreserved THEN c ELSE 0>> \o D[i + Len(Mark(c))]
<1>. DEFINE m == Mark(c)
<1>1. D[i] = IF i > Len(text) THEN << >>
             ELSE IF text[i] = Percent /\ i + 2 <= Len(text)
             THEN <<16 * HexVal(text[i + 1]) + HexVal(text[i + 2])>> \o D[i + 3]
             ELSE IF text[i] = Percent THEN D[i + 1]
             ELSE <<IF text[i] = Plus THEN Space ELSE text[i]>> \o D[i + 1]
  <2>1. i \in 1 .. Len(text) + 1
    OBVIOUS
  <2>. QED
    BY <2>1, Zenon DEF Decoding
<1>2. ~ (i > Len(text))
  OBVIOUS
<1>3. CASE c \in Unreserved
  <2>1. m = <<c>> /\ c # Percent /\ c # Plus
    BY <1>3, MarkForm
  <2>2. Len(m) = 1 /\ m[1] = c
    <3>1. Len(<<c>>) = 1 /\ <<c>>[1] = c
      OBVIOUS
    <3>. HIDE DEF m
    <3>. QED
      BY <2>1, <3>1
  <2>3. text[i] = c
    <3>1. text[i + 1 - 1] = m[1]
      BY <2>2
    <3>2. i + 1 - 1 = i
      OBVIOUS
    <3>. HIDE DEF m
    <3>. QED
      BY <3>1, <3>2, <2>2
  <2>4. D[i] = <<c>> \o D[i + 1]
    BY <1>1, <1>2, <2>1, <2>3, Zenon
  <2>5. D[i] = <<c>> \o D[i + Len(m)]
    <3>. HIDE DEF m
    <3>. QED
      BY <2>2, <2>4
  <2>. QED
    BY <1>3, <2>5, Zenon
<1>4. CASE c \notin Unreserved
  <2>1. Len(m) = 3 /\ m[1] = Percent /\ 16 * HexVal(m[2]) + HexVal(m[3]) = 0
    BY <1>4, MarkForm
  <2>2. \A j \in 1 .. Len(m) : text[i + j - 1] = m[j]
    OBVIOUS
  <2>3. i + Len(m) - 1 <= Len(text)
    OBVIOUS
  <2>. HIDE DEF m
  <2>4. text[i + 1 - 1] = m[1] /\ text[i + 2 - 1] = m[2] /\ text[i + 3 - 1] = m[3]
    BY <2>1, <2>2
  <2>5. i + 1 - 1 = i /\ i + 2 - 1 = i + 1 /\ i + 3 - 1 = i + 2
    OBVIOUS
  <2>6. text[i] = Percent /\ text[i + 1] = m[2] /\ text[i + 2] = m[3] /\ i + 2 <= Len(text)
    BY <2>1, <2>3, <2>4, <2>5
  <2>7. 16 * HexVal(text[i + 1]) + HexVal(text[i + 2]) = 0
    BY <2>1, <2>6
  <2>8. D[i] = <<16 * HexVal(text[i + 1]) + HexVal(text[i + 2])>> \o D[i + 3]
    BY <1>1, <1>2, <2>6, Zenon
  <2>9. D[i] = <<0>> \o D[i + Len(m)]
    BY <2>1, <2>7, <2>8
  <2>. QED
    BY <1>4, <2>9, Zenon DEF m
<1>. QED
  BY <1>3, <1>4

(* What urlEncode has escaped, urlDecode makes NUL, whatever it was.       *)
THEOREM EscapesLost ==
    ASSUME NEW str \in Seq(Byte)
    PROVE  UrlDecode(UrlEncode(str)) =
             [p \in 1 .. Len(str) |-> IF str[p] \in Unreserved THEN str[p] ELSE 0]
<1>. DEFINE L == Len(str)
            Got(c) == IF c \in Unreserved THEN c ELSE 0
            Rest(k) == [p \in 1 .. k |-> Got(str[L - k + p])]
<1>1. PICK E : Encoding(str, E) /\ UrlEncode(str) = E[L]
  BY UrlEncodeForm
<1>. DEFINE text == E[L]
<1>2. L \in Nat /\ \A p \in 1 .. L : str[p] \in Byte
  OBVIOUS
<1>3. /\ E[0] = << >>
      /\ \A n \in 1 .. L : E[n] = E[n - 1] \o Mark(str[n])
      /\ \A n \in 0 .. L : E[n] \in Seq(Byte)
      /\ \A n \in 0 .. L : Len(E[n]) <= Len(text) /\ \A j \in 1 .. Len(E[n]) : text[j] = E[n][j]
  <2>1. Growing(str, E, L, text)
    BY <1>1, EncodingForm
  <2>. HIDE DEF L, text
  <2>. QED
    BY <2>1, Zenon DEF Growing
<1>. HIDE DEF L
<1>4. text \in Seq(Byte) /\ Len(text) \in Nat
  <2>1. text \in Seq(Byte)
    BY <1>2, <1>3
  <2>. HIDE DEF text
  <2>. QED
    BY <2>1
<1>5. PICK D : Decoding(text, D) /\ UrlDecode(text) = D[1]
  BY <1>4, UrlDecodeForm
<1>. HIDE DEF text
<1>6. ASSUME NEW k \in Nat, k <= L PROVE Rest(k) \in Seq(Nat) /\ Len(Rest(k)) = k
  <2>1. \A p \in 1 .. k : Got(str[L - k + p]) \in Nat
    <3>1. \A p \in 1 .. k : L - k + p \in 1 .. L
      BY <1>2, <1>6
    <3>2. \A c \in Byte : Got(c) \in Nat
      BY DEF Byte
    <3>. HIDE DEF Got
    <3>. QED
      BY <1>2, <3>1, <3>2
  <2>. HIDE DEF Got
  <2>. QED
    BY <2>1
<1>. DEFINE Ks == {k \in Nat : k <= L => D[Len(E[L - k]) + 1] = Rest(k)}
<1>7. 0 \in Ks
  <2>1. L - 0 = L /\ Len(text) + 1 \in 1 .. Len(text) + 1 /\ Len(text) + 1 > Len(text)
    BY <1>2, <1>4
  <2>2. D[Len(text) + 1] = << >>
    BY <2>1, Zenon, <1>5 DEF Decoding
  <2>3. Rest(0) = << >>
    BY <1>2, <1>6
  <2>4. D[Len(E[L - 0]) + 1] = Rest(0)
    <3>. HIDE DEF Rest
    <3>. QED
      BY <2>1, <2>2, <2>3 DEF text
  <2>. HIDE DEF Rest
  <2>. QED
    BY <2>4
<1>8. ASSUME NEW k \in 0 .. L, k < L, k \in Ks PROVE k + 1 \in Ks
  <2>. DEFINE n == L - k
              e == E[n - 1]
              c == str[n]
              m == Mark(c)
              i == Len(e) + 1
  <2>1. n \in 1 .. L /\ n - 1 \in 0 .. L /\ n \in 0 .. L /\ L - (k + 1) = n - 1 /\ k \in Nat /\ k + 1 \in Nat /\ k + 1 <= L
    BY <1>2, <1>8
  <2>2. D[Len(E[n]) + 1] = Rest(k)
    <3>. HIDE DEF Rest, n
    <3>1. k <= L => D[Len(E[L - k]) + 1] = Rest(k)
      BY <1>8
    <3>. QED
      BY <2>1, <1>8, <3>1 DEF n
  <2>. HIDE DEF n
  <2>3. /\ c \in Byte /\ E[n] = e \o m /\ e \in Seq(Byte) /\ E[n] \in Seq(Byte)
        /\ Len(E[n]) <= Len(text) /\ \A j \in 1 .. Len(E[n]) : text[j] = E[n][j]
    BY <2>1, <1>2, <1>3
  <2>4. m \in Seq(Byte) /\ Len(m) \in Nat \ {0}
    <3>. HIDE DEF c
    <3>1. m \in Seq(Byte)
      BY <2>3, MarkForm
    <3>2. c \in Unreserved => Len(m) = 1
      <4>1. c \in Unreserved => m = <<c>>
        BY <2>3, MarkForm
      <4>2. Len(<<c>>) = 1
        OBVIOUS
      <4>. HIDE DEF m
      <4>. QED
        BY <4>1, <4>2
    <3>3. c \notin Unreserved => Len(m) = 3
      BY <2>3, MarkForm
    <3>4. Len(m) = 1 \/ Len(m) = 3
      BY <3>2, <3>3, Zenon
    <3>5. Len(m) \in Nat \ {0}
      <4>. DEFINE l == Len(m)
      <4>1. l = 1 \/ l = 3
        BY <3>4
      <4>. HIDE DEF l
      <4>2. l \in Nat \ {0}
        BY <4>1
      <4>. QED
        BY <4>2 DEF l
    <3>. QED
      BY <3>1, <3>5
  <2>. HIDE DEF c, e
  <2>5. /\ Len(E[n]) = Len(e) + Len(m) /\ Len(e) \in Nat
        /\ \A j \in 1 .. Len(m) : E[n][Len(e) + j] = m[j]
    <3>. HIDE DEF m
    <3>1. /\ Len(e \o m) = Len(e) + Len(m) /\ Len(e) \in Nat
          /\ \A j \in 1 .. Len(m) : (e \o m)[Len(e) + j] = m[j]
      BY <2>3, <2>4
    <3>. QED
      BY <2>3, <3>1
  <2>. HIDE DEF m
  <2>6. i \in 1 .. Len(text) /\ i + Len(m) - 1 <= Len(text) /\ i + Len(m) = Len(E[n]) + 1
    <3>. DEFINE x == Len(e)
                y == Len(m)
                z == Len(text)
    <3>1. x \in Nat /\ y \in Nat \ {0} /\ x + y <= z /\ z \in Nat /\ Len(E[n]) = x + y
      BY <2>3, <2>4, <2>5, <1>4
    <3>. HIDE DEF x, y, z
    <3>2. (x + 1) \in 1 .. z /\ (x + 1) + y - 1 <= z /\ (x + 1) + y = Len(E[n]) + 1
      BY <3>1
    <3>. QED
      BY <3>2 DEF x, y, z
  <2>7. ASSUME NEW j \in 1 .. Len(m) PROVE text[i + j - 1] = m[j]
    <3>1. i + j - 1 = Len(e) + j /\ Len(e) + j \in 1 .. Len(E[n])
      BY <2>4, <2>5
    <3>2. text[Len(e) + j] = E[n][Len(e) + j]
      BY <3>1, <2>3
    <3>. HIDE DEF i
    <3>. QED
      BY <3>1, <3>2, <2>5
  <2>8. D[i] = <<Got(c)>> \o D[i + Len(m)]
    <3>. HIDE DEF i
    <3>. QED
      BY <2>3, <2>6, <2>7, <1>4, <1>5, DecodeMark DEF m
  <2>9. D[i] = <<Got(c)>> \o Rest(k)
    <3>. HIDE DEF Rest, Got, i
    <3>. QED
      BY <2>2, <2>6, <2>8
  <2>10. <<Got(c)>> \o Rest(k) = Rest(k + 1)
    <3>1. Got(c) \in Nat
      BY <2>3 DEF Byte
    <3>2. Rest(k) \in Seq(Nat) /\ Len(Rest(k)) = k /\ Rest(k + 1) \in Seq(Nat) /\ Len(Rest(k + 1)) = k + 1
      <4>. HIDE DEF Rest
      <4>. QED
        BY <1>6, <1>8, <2>1
    <3>3. Rest(k + 1)[1] = Got(c)
      <4>1. L - (k + 1) + 1 = n
        BY <2>1, <1>2 DEF n
      <4>2. Rest(k + 1)[1] = Got(str[L - (k + 1) + 1])
        <5>. HIDE DEF Got
        <5>1. 1 \in 1 .. k + 1
          BY <2>1
        <5>. QED
          BY <5>1
      <4>. HIDE DEF Rest, Got
      <4>. QED
        BY <4>1, <4>2 DEF c
    <3>4. ASSUME NEW p \in 1 .. k PROVE Rest(k + 1)[p + 1] = Rest(k)[p]
      <4>1. L - (k + 1) + (p + 1) = L - k + p /\ p + 1 \in 1 .. k + 1
        BY <2>1, <1>2
      <4>2. Rest(k + 1)[p + 1] = Got(str[L - (k + 1) + (p + 1)])
        <5>. HIDE DEF Got
        <5>. QED
          BY <4>1
      <4>3. Rest(k)[p] = Got(str[L - k + p])
        <5>. HIDE DEF Got
        <5>. QED
          OBVIOUS
      <4>. HIDE DEF Rest, Got
      <4>. QED
        BY <4>1, <4>2, <4>3
    <3>. HIDE DEF Rest, Got
    <3>. QED
      BY <3>1, <3>2, <3>3, <3>4, FirstAndRest
  <2>11. D[Len(E[L - (k + 1)]) + 1] = Rest(k + 1)
    <3>. HIDE DEF Rest, Got
    <3>. QED
      BY <2>1, <2>9, <2>10 DEF i, e
  <2>. HIDE DEF Rest
  <2>. QED
    BY <2>1, <2>11
<1>9. L \in Ks
  <2>1. L \in 0 .. L
    BY <1>2
  <2>. HIDE DEF Ks
  <2>. QED
    BY <1>2, <1>7, <1>8, <2>1, BoundedInduction
<1>10. D[1] = Rest(L)
  <2>1. D[Len(E[L - L]) + 1] = Rest(L)
    <3>. HIDE DEF Rest
    <3>. QED
      BY <1>2, <1>9
  <2>2. L - L = 0 /\ Len(<< >>) + 1 = 1
    BY <1>2
  <2>. HIDE DEF Rest
  <2>. QED
    BY <2>1, <2>2, <1>3
<1>11. Rest(L) = [p \in 1 .. L |-> Got(str[p])]
  <2>1. \A p \in 1 .. L : L - L + p = p
    BY <1>2
  <2>. HIDE DEF Got
  <2>. QED
    BY <2>1
<1>. QED
  <2>. HIDE DEF Rest
  <2>1. UrlDecode(UrlEncode(str)) = [p \in 1 .. L |-> Got(str[p])]
    BY <1>1, <1>5, <1>10, <1>11 DEF text
  <2>. QED
    BY <2>1 DEF L
=============================================================================
