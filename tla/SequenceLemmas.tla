--------------------------- MODULE SequenceLemmas ---------------------------
(***************************************************************************)
(* Facts about sequences and about numbers that the proofs share: counting *)
(* the entries of a ring, induction, and streams that are joined from the  *)
(* messages of a peer.                                                     *)
(***************************************************************************)
EXTENDS Naturals, SequencesExt, FiniteSetTheorems, TLAPS

-----------------------------------------------------------------------------
(***************************************************************************)
(* Counting the entries of a ring: what io_uring_get_sqe, io_uring_submit  *)
(* and io_uring_cqe_seen do to the number of entries of some kind.         *)
(***************************************************************************)

(* The entry at the front of a ring is of the ring's type.                 *)
LEMMA HeadIn == ASSUME NEW T, NEW q \in Seq(T), q # << >>
                PROVE  Head(q) \in T /\ Tail(q) \in Seq(T) /\ Len(Tail(q)) = Len(q) - 1
  OBVIOUS

Places(q, S) == {i \in DOMAIN q : q[i] \in S}

(* How many entries of the ring q are in S.                                *)
Tally(q, S) == Cardinality(Places(q, S))

(* A ring has finitely many places.                                        *)
LEMMA PlacesFinite ==
    ASSUME NEW T, NEW q \in Seq(T), NEW S
    PROVE  /\ IsFiniteSet(Places(q, S))
           /\ Places(q, S) \subseteq 1 .. Len(q)
<1>1. Places(q, S) \in SUBSET (1 .. Len(q))
  BY DEF Places
<1>2. IsFiniteSet(1 .. Len(q))
  BY FS_Interval
<1>. QED
  BY <1>1, <1>2, FS_Subset

(* Tallies are naturals, and positive when there is such an entry.         *)
LEMMA TallyNat ==
    ASSUME NEW T, NEW q \in Seq(T), NEW S
    PROVE  /\ Tally(q, S) \in Nat
           /\ Tally(q, S) > 0 <=> \E i \in DOMAIN q : q[i] \in S
<1>1. Tally(q, S) \in Nat
  BY PlacesFinite, FS_CardinalityType DEF Tally
<1>2. Tally(q, S) = 0 <=> Places(q, S) = {}
  BY PlacesFinite, FS_EmptySet DEF Tally
<1>. QED
  BY <1>1, <1>2 DEF Places

(* An empty ring has none.                                                 *)
LEMMA TallyEmpty == ASSUME NEW S PROVE Tally(<< >>, S) = 0
<1>1. Places(<< >>, S) = {}
  BY DEF Places
<1>. QED
  BY <1>1, FS_EmptySet DEF Tally

(* An entry more counts if it is in S.                                     *)
LEMMA TallyAppend ==
    ASSUME NEW T, NEW q \in Seq(T), NEW e \in T, NEW S
    PROVE  /\ e \in S => Tally(Append(q, e), S) = Tally(q, S) + 1
           /\ e \notin S => Tally(Append(q, e), S) = Tally(q, S)
<1>. DEFINE n == Len(q) + 1
            r == Append(q, e)
<1>1. Len(r) = n /\ r[n] = e /\ \A i \in 1 .. Len(q) : r[i] = q[i]
  OBVIOUS
<1>2. n \notin Places(q, S) /\ IsFiniteSet(Places(q, S))
  BY PlacesFinite
<1>3. CASE e \in S
  <2>1. Places(r, S) = Places(q, S) \cup {n}
    BY <1>1, <1>3 DEF Places
  <2>. QED
    BY <1>2, <1>3, <2>1, FS_AddElement DEF Tally
<1>4. CASE e \notin S
  <2>1. Places(r, S) = Places(q, S)
    BY <1>1, <1>4 DEF Places
  <2>. QED
    BY <1>4, <2>1 DEF Tally
<1>. QED
  BY <1>3, <1>4

(* A ring of one entry.                                                    *)
LEMMA TallySingle ==
    ASSUME NEW T, NEW e \in T, NEW S
    PROVE  /\ e \in S => Tally(<<e>>, S) = 1
           /\ e \notin S => Tally(<<e>>, S) = 0
<1>. DEFINE none == << >>
            one == <<e>>
<1>1. none \in Seq(T) /\ Tally(none, S) = 0 /\ one = Append(none, e)
  BY TallyEmpty
<1>. HIDE DEF none
<1>2. /\ e \in S => Tally(Append(none, e), S) = Tally(none, S) + 1
      /\ e \notin S => Tally(Append(none, e), S) = Tally(none, S)
  BY <1>1, TallyAppend
<1>3. /\ e \in S => Tally(one, S) = 1
      /\ e \notin S => Tally(one, S) = 0
  <2>. HIDE DEF one
  <2>. QED
    BY <1>1, <1>2
<1>. QED
  BY <1>3

(* Rings joined have what both have.                                       *)
LEMMA TallyConcat ==
    ASSUME NEW T, NEW q \in Seq(T), NEW r \in Seq(T), NEW S
    PROVE  Tally(q \o r, S) = Tally(q, S) + Tally(r, S)
<1>. DEFINE n == Len(q)
            Moved == {i \in n + 1 .. n + Len(r) : r[i - n] \in S}
            shift == [i \in Places(r, S) |-> i + n]
<1>1. /\ Len(q \o r) = n + Len(r)
      /\ \A i \in 1 .. n : (q \o r)[i] = q[i]
      /\ \A i \in n + 1 .. n + Len(r) : (q \o r)[i] = r[i - n]
      /\ n \in Nat /\ Len(r) \in Nat
  OBVIOUS
<1>2. Places(q \o r, S) = Places(q, S) \cup Moved
  <2>1. DOMAIN (q \o r) = 1 .. n + Len(r) /\ DOMAIN q = 1 .. n
    BY <1>1
  <2>2. 1 .. n + Len(r) = (1 .. n) \cup (n + 1 .. n + Len(r))
    BY <1>1
  <2>. HIDE DEF n
  <2>. QED
    BY <1>1, <2>1, <2>2 DEF Places
<1>3. Places(q, S) \cap Moved = {}
  BY <1>1, PlacesFinite
<1>4. shift \in Bijection(Places(r, S), Moved)
  <2>1. \A i \in Places(r, S) : i \in 1 .. Len(r) /\ r[i] \in S
    BY DEF Places
  <2>2. shift \in [Places(r, S) -> Moved]
    BY <1>1, <2>1
  <2>3. \A i, j \in Places(r, S) : shift[i] = shift[j] => i = j
    BY <1>1, <2>1
  <2>4. \A k \in Moved : \E i \in Places(r, S) : shift[i] = k
    <3>. SUFFICES ASSUME NEW k \in Moved PROVE \E i \in Places(r, S) : shift[i] = k
      OBVIOUS
    <3>1. k - n \in 1 .. Len(r) /\ r[k - n] \in S /\ (k - n) + n = k
      BY <1>1
    <3>2. k - n \in Places(r, S)
      BY <3>1 DEF Places
    <3>. QED
      BY <3>1, <3>2
  <2>. HIDE DEF shift, Moved
  <2>. QED
    BY <2>2, <2>3, <2>4 DEF Bijection, Injection, Surjection, IsInjective
<1>5. IsFiniteSet(Moved) /\ Cardinality(Moved) = Cardinality(Places(r, S))
  BY <1>4, PlacesFinite, FS_Bijection DEF ExistsBijection
<1>6. Cardinality(Places(q, S) \cap Moved) = 0
  BY <1>3, FS_EmptySet
<1>7. /\ Cardinality(Places(q, S)) \in Nat
      /\ Cardinality(Places(r, S)) \in Nat
  BY TallyNat DEF Tally
<1>8. IsFiniteSet(Places(q, S))
  BY PlacesFinite
<1>. HIDE DEF Moved
<1>9. Cardinality(Places(q, S) \cup Moved) =
        Cardinality(Places(q, S)) + Cardinality(Moved) - Cardinality(Places(q, S) \cap Moved)
  BY <1>5, <1>8, FS_Union
<1>. QED
  BY <1>2, <1>5, <1>6, <1>7, <1>9 DEF Tally

(* Taking the first entry takes it away.                                   *)
LEMMA TallyTail ==
    ASSUME NEW T, NEW q \in Seq(T), q # << >>, NEW S
    PROVE  /\ Head(q) \in S => Tally(Tail(q), S) = Tally(q, S) - 1
           /\ Head(q) \notin S => Tally(Tail(q), S) = Tally(q, S)
           /\ Head(q) \in S => Tally(q, S) > 0
<1>1. q = <<Head(q)>> \o Tail(q) /\ Tail(q) \in Seq(T) /\ <<Head(q)>> \in Seq(T)
  OBVIOUS
<1>2. Head(q) \in T
  OBVIOUS
<1>3. Tally(q, S) = Tally(<<Head(q)>>, S) + Tally(Tail(q), S)
  <2>. DEFINE h == <<Head(q)>>
              t == Tail(q)
  <2>1. h \in Seq(T) /\ t \in Seq(T) /\ q = h \o t
    BY <1>1
  <2>. HIDE DEF h, t
  <2>2. Tally(h \o t, S) = Tally(h, S) + Tally(t, S)
    BY <2>1, TallyConcat
  <2>. QED
    BY <2>1, <2>2 DEF h, t
<1>4. /\ Head(q) \in S => Tally(<<Head(q)>>, S) = 1
      /\ Head(q) \notin S => Tally(<<Head(q)>>, S) = 0
  BY <1>2, TallySingle
<1>5. Tally(Tail(q), S) \in Nat
  BY <1>1, TallyNat
<1>. QED
  BY <1>3, <1>4, <1>5

-----------------------------------------------------------------------------
(***************************************************************************)
(* Induction.  The induction theorems of the library have an operator as   *)
(* a parameter; the one on well-founded relations below has a set.         *)
(***************************************************************************)

(* The order of the naturals, as a relation.                               *)
Below == {pair \in Nat \X Nat : pair[1] < pair[2]}

(* It is well-founded.                                                     *)
LEMMA BelowWellFounded == IsWellFoundedOn(Below, Nat)
  BY NatLessThanWellFounded DEF OpToRel, Below

(* Induction over a set: what has 0 and is closed under the successor has  *)
(* every natural.                                                          *)
LEMMA SetInduction ==
    ASSUME NEW S, 0 \in S, \A n \in Nat : n \in S => n + 1 \in S
    PROVE  \A n \in Nat : n \in S
<1>. DEFINE Bad == Nat \ S
<1>1. SUFFICES ASSUME Bad # {} PROVE FALSE
  OBVIOUS
<1>2. PICK x \in Bad : \A y \in Bad : ~ (<<y, x>> \in Below)
  <2>1. Bad \subseteq Nat
    OBVIOUS
  <2>. HIDE DEF Bad
  <2>. QED
    BY <1>1, <2>1, BelowWellFounded, WFMin
<1>3. x # 0 /\ x \in Nat /\ x - 1 \in Nat /\ (x - 1) + 1 = x
  OBVIOUS
<1>4. <<x - 1, x>> \in Below
  BY <1>3 DEF Below
<1>. QED
  BY <1>2, <1>3, <1>4

(* Induction up to m.                                                      *)
LEMMA BoundedInduction ==
    ASSUME NEW m \in Nat, NEW S, 0 \in S,
           \A k \in 0 .. m : k < m /\ k \in S => k + 1 \in S
    PROVE  \A k \in 0 .. m : k \in S
<1>. DEFINE U == {k \in Nat : k <= m => k \in S}
<1>1. 0 \in U
  OBVIOUS
<1>2. \A n \in Nat : n \in U => n + 1 \in U
  OBVIOUS
<1>3. \A n \in Nat : n \in U
  <2>. HIDE DEF U
  <2>. QED
    BY <1>1, <1>2, SetInduction
<1>. QED
  BY <1>3

(* The maximum of a set of naturals is its upper bound.                    *)
LEMMA MaxIs ==
    ASSUME NEW S, S \subseteq Nat, NEW m \in S, \A y \in S : m >= y
    PROVE  Max(S) = m
<1>. DEFINE P(x) == x \in S /\ \A y \in S : x >= y
<1>1. P(m)
  OBVIOUS
<1>2. P(CHOOSE x : P(x))
  BY <1>1, Zenon
<1>3. Max(S) = CHOOSE x : P(x)
  BY Zenon DEF Max
<1>4. \A x : P(x) => x = m
  OBVIOUS
<1>. QED
  BY <1>2, <1>3, <1>4

(* The minimum of a set of naturals is its lower bound.                    *)
LEMMA MinIs ==
    ASSUME NEW S, S \subseteq Nat, NEW m \in S, \A y \in S : m <= y
    PROVE  Min(S) = m
<1>. DEFINE P(x) == x \in S /\ \A y \in S : x <= y
<1>1. P(m)
  OBVIOUS
<1>2. P(CHOOSE x : P(x))
  BY <1>1, Zenon
<1>3. Min(S) = CHOOSE x : P(x)
  BY Zenon DEF Min
<1>4. \A x : P(x) => x = m
  OBVIOUS
<1>. QED
  BY <1>2, <1>3, <1>4

(* What is not below a natural is at least as great.                       *)
LEMMA NotBelow ==
    ASSUME NEW x \in Nat, NEW y \in Nat, ~ (<<y, x>> \in Below)
    PROVE  x <= y
<1>1. ~(y < x)
  BY DEF Below
<1>. QED
  BY <1>1

(* The minimum of a set of naturals is in it.                              *)
LEMMA MinIn ==
    ASSUME NEW S, S \subseteq Nat, S # {}
    PROVE  Min(S) \in S
<1>1. PICK x \in S : \A y \in S : ~ (<<y, x>> \in Below)
  BY BelowWellFounded, WFMin
<1>2. \A y \in S : x <= y
  BY <1>1, NotBelow
<1>. QED
  BY <1>2, MinIs

(* The maximum of a bounded set of naturals is in it.                      *)
LEMMA MaxIn ==
    ASSUME NEW n \in Nat, NEW S, S \subseteq 0 .. n, S # {}
    PROVE  Max(S) \in S
<1>. DEFINE T == {k \in 0 .. n : n - k \in S}
<1>1. T \subseteq Nat /\ T # {}
  <2>1. PICK x \in S : TRUE
    OBVIOUS
  <2>2. n - x \in 0 .. n /\ n - (n - x) = x
    BY <2>1
  <2>3. n - x \in T
    BY <2>1, <2>2
  <2>4. T \subseteq Nat
    OBVIOUS
  <2>. HIDE DEF T
  <2>. QED
    BY <2>3, <2>4
<1>2. PICK x \in T : \A y \in T : ~ (<<y, x>> \in Below)
  <2>. HIDE DEF T
  <2>. QED
    BY <1>1, BelowWellFounded, WFMin
<1>3. ASSUME NEW y \in S PROVE n - x >= y
  <2>1. n - y \in T
    <3>1. n - y \in 0 .. n /\ n - (n - y) = y
      OBVIOUS
    <3>. QED
      BY <3>1
  <2>2. n - y \in Nat /\ x \in 0 .. n /\ y \in 0 .. n
    BY <1>2
  <2>3. ~ (<<n - y, x>> \in Below)
    BY <1>2, <2>1
  <2>4. x <= n - y
    <3>. HIDE DEF T
    <3>. QED
      BY <2>2, <2>3, NotBelow
  <2>. QED
    BY <2>2, <2>4
<1>4. n - x \in S /\ S \subseteq Nat
  BY <1>2
<1>. QED
  BY <1>3, <1>4, MaxIs

-----------------------------------------------------------------------------
(***************************************************************************)
(* Joining sequences.                                                      *)
(***************************************************************************)

(* F[i] is what the first i of the sequences s are when they are joined.   *)
Joins(s, F) == F = [i \in 1 .. Len(s) |-> IF i = 1 THEN s[i] ELSE F[i - 1] \o s[i]]

(* There is such a function: by induction, one more place at a time.       *)
LEMMA JoinsExists ==
    ASSUME NEW T, NEW s \in Seq(Seq(T))
    PROVE  \E F \in [1 .. Len(s) -> Seq(T)] : Joins(s, F)
<1>. DEFINE n == Len(s)
            Good(k, G) == \A i \in 1 .. k : G[i] = IF i = 1 THEN s[i] ELSE G[i - 1] \o s[i]
            Ks == {k \in Nat : \E G \in [1 .. k -> Seq(T)] : Good(k, G)}
<1>1. 0 \in Ks
  <2>1. [i \in 1 .. 0 |-> << >>] \in [1 .. 0 -> Seq(T)]
    OBVIOUS
  <2>2. Good(0, [i \in 1 .. 0 |-> << >>])
    OBVIOUS
  <2>. QED
    BY <2>1, <2>2
<1>2. ASSUME NEW k \in 0 .. n, k < n, k \in Ks PROVE k + 1 \in Ks
  <2>1. PICK G \in [1 .. k -> Seq(T)] : Good(k, G)
    BY <1>2
  <2>. DEFINE last == IF k = 0 THEN s[1] ELSE G[k] \o s[k + 1]
              H == [i \in 1 .. k + 1 |-> IF i = k + 1 THEN last ELSE G[i]]
  <2>2. last \in Seq(T)
    <3>1. s[k + 1] \in Seq(T) /\ (k = 0 => s[1] \in Seq(T)) /\ (k # 0 => G[k] \in Seq(T))
      BY <1>2
    <3>. QED
      BY <3>1
  <2>3. H \in [1 .. k + 1 -> Seq(T)]
    <3>1. \A i \in 1 .. k + 1 : i # k + 1 => i \in 1 .. k
      BY <1>2
    <3>. HIDE DEF last
    <3>. QED
      BY <2>2, <3>1
  <2>4. Good(k + 1, H)
    <3>1. SUFFICES ASSUME NEW i \in 1 .. k + 1
                   PROVE  H[i] = IF i = 1 THEN s[i] ELSE H[i - 1] \o s[i]
      OBVIOUS
    <3>2. CASE i = k + 1
      <4>1. H[i] = last
        BY <3>2
      <4>2. i # 1 => k \in 1 .. k + 1 /\ k # k + 1 /\ H[i - 1] = G[k]
        BY <3>2, <1>2
      <4>3. i # 1 <=> k # 0
        BY <3>2, <1>2
      <4>4. i = 1 => i = k + 1 /\ s[i] = s[1]
        BY <3>2
      <4>5. k # 0 => last = G[k] \o s[i]
        BY <3>2
      <4>. HIDE DEF H
      <4>. QED
        BY <4>1, <4>2, <4>3, <4>4, <4>5
    <3>3. CASE i # k + 1
      <4>1. i \in 1 .. k /\ H[i] = G[i] /\ (i # 1 => H[i - 1] = G[i - 1])
        BY <3>3, <1>2
      <4>. QED
        BY <4>1, <2>1
    <3>. QED
      BY <3>2, <3>3
  <2>5. k + 1 \in Nat
    BY <1>2
  <2>. HIDE DEF H, Good
  <2>. QED
    BY <2>3, <2>4, <2>5
<1>3. n \in Nat /\ n \in 0 .. n
  OBVIOUS
<1>4. n \in Ks
  <2>. HIDE DEF Ks, n
  <2>. QED
    BY <1>1, <1>2, <1>3, BoundedInduction
<1>5. PICK G \in [1 .. n -> Seq(T)] : Good(n, G)
  BY <1>4
<1>6. Joins(s, G)
  BY <1>5 DEF Joins
<1>. QED
  BY <1>6

(* What is FlattenSeq of s is the last place of any such function.         *)
LEMMA FlattenJoins ==
    ASSUME NEW T, NEW s \in Seq(Seq(T)), NEW G \in [1 .. Len(s) -> Seq(T)], Joins(s, G), s # << >>
    PROVE  FlattenSeq(s) = G[Len(s)]
<1>. DEFINE n == Len(s)
            F == CHOOSE f : f = [i \in 1 .. Len(s) |-> IF i = 1 THEN s[i] ELSE f[i - 1] \o s[i]]
<1>1. FlattenSeq(s) = F[Len(s)]
  <2>1. Len(s) # 0
    OBVIOUS
  <2>. QED
    BY <2>1 DEF FlattenSeq
<1>2. F = [i \in 1 .. Len(s) |-> IF i = 1 THEN s[i] ELSE F[i - 1] \o s[i]]
  BY DEF Joins
<1>. HIDE DEF F
<1>. DEFINE Same == {k \in Nat : k = 0 \/ F[k] = G[k]}
<1>3. 0 \in Same /\ n \in Nat /\ n \in 0 .. n /\ n # 0
  OBVIOUS
<1>4. ASSUME NEW k \in 0 .. n, k < n, k \in Same PROVE k + 1 \in Same
  <2>1. k + 1 \in 1 .. n /\ (k + 1) - 1 = k
    BY <1>4
  <2>2. F[k + 1] = IF k + 1 = 1 THEN s[k + 1] ELSE F[k] \o s[k + 1]
    BY <1>2, <2>1
  <2>3. G[k + 1] = IF k + 1 = 1 THEN s[k + 1] ELSE G[k] \o s[k + 1]
    BY <2>1 DEF Joins
  <2>. QED
    BY <1>4, <2>2, <2>3
<1>5. n \in Same
  <2>. HIDE DEF Same, n
  <2>. QED
    BY <1>3, <1>4, BoundedInduction
<1>. QED
  BY <1>1, <1>3, <1>5

(* Two sequences joined.                                                   *)
LEMMA ConcatForm ==
    ASSUME NEW T, NEW s \in Seq(T), NEW t \in Seq(T)
    PROVE  /\ s \o t \in Seq(T)
           /\ Len(s \o t) = Len(s) + Len(t)
           /\ \A i \in 1 .. Len(s) : (s \o t)[i] = s[i]
           /\ \A i \in 1 .. Len(t) : (s \o t)[Len(s) + i] = t[i]
  OBVIOUS

(* It does not matter which two of three are joined first.                 *)
Associates(s, t, u) == (s \o t) \o u = s \o (t \o u)

(* So it is with sequences.                                                *)
LEMMA JoinAgain ==
    ASSUME NEW T, NEW s \in Seq(T), NEW t \in Seq(T), NEW u \in Seq(T)
    PROVE  Associates(s, t, u)
  BY DEF Associates

(* A function on 1 .. n is a sequence.                                     *)
LEMMA FunctionForm ==
    ASSUME NEW T, NEW n \in Nat, NEW f \in [1 .. n -> T]
    PROVE  f \in Seq(T) /\ Len(f) = n
  OBVIOUS

(* A sequence cut in two behind its first n, and its front joined to s.    *)
IsCut(T, s, q, n, a, b) ==
    /\ a = SubSeq(q, 1, n) /\ b = SubSeq(q, n + 1, Len(q)) /\ a \o b = q
    /\ Len(a) = n /\ Len(b) = Len(q) - n
    /\ b # << >> => b[Len(b)] = q[Len(q)]
    /\ b = << >> => a = q
    /\ s \o a \in Seq(T) /\ Len(s \o a) = Len(s) + n
    /\ (s \o a) \o b = s \o q

(* There is such a cut.                                                    *)
LEMMA CutForm ==
    ASSUME NEW T, NEW s \in Seq(T), NEW q \in Seq(T), NEW n \in 0 .. Len(q)
    PROVE  \E a, b \in Seq(T) : IsCut(T, s, q, n, a, b)
<1>. DEFINE a == SubSeq(q, 1, n)
            b == SubSeq(q, n + 1, Len(q))
<1>1. n \in Nat /\ Len(q) \in Nat /\ n <= Len(q)
  OBVIOUS
<1>2. a \in Seq(T) /\ Len(a) = n /\ \A i \in 1 .. n : a[i] = q[i]
  BY <1>1
<1>3. b \in Seq(T) /\ Len(b) = Len(q) - n /\ \A i \in 1 .. Len(q) - n : b[i] = q[n + i]
  BY <1>1
<1>. HIDE DEF a, b
<1>4. a \o b \in Seq(T) /\ Len(a \o b) = Len(q)
      /\ \A i \in 1 .. Len(q) : (a \o b)[i] = q[i]
  <2>1. a \o b \in Seq(T) /\ Len(a \o b) = n + (Len(q) - n)
        /\ (\A i \in 1 .. n : (a \o b)[i] = a[i])
        /\ (\A i \in 1 .. Len(q) - n : (a \o b)[n + i] = b[i])
    BY <1>2, <1>3, ConcatForm
  <2>2. n + (Len(q) - n) = Len(q)
    BY <1>1
  <2>3. ASSUME NEW i \in 1 .. Len(q) PROVE (a \o b)[i] = q[i]
    <3>1. CASE i \in 1 .. n
      BY <1>2, <2>1, <3>1
    <3>2. CASE ~(i \in 1 .. n)
      <4>1. i - n \in 1 .. Len(q) - n /\ n + (i - n) = i
        BY <1>1, <3>2
      <4>. QED
        BY <1>3, <2>1, <4>1
    <3>. QED
      BY <3>1, <3>2
  <2>. QED
    BY <2>1, <2>2, <2>3
<1>5. a \o b = q
  <2>. DEFINE c == a \o b
  <2>1. c \in Seq(T) /\ Len(c) = Len(q) /\ \A i \in 1 .. Len(q) : c[i] = q[i]
    BY <1>4
  <2>. HIDE DEF c
  <2>2. c = q
    BY <2>1
  <2>. QED
    BY <2>2 DEF c
<1>6. b # << >> => b[Len(b)] = q[Len(q)]
  <2>1. b # << >> => Len(b) # 0
    BY <1>3
  <2>2. Len(b) # 0 => Len(b) \in 1 .. Len(q) - n /\ n + Len(b) = Len(q)
    BY <1>1, <1>3
  <2>. QED
    BY <1>3, <2>1, <2>2
<1>7. b = << >> => a = q
  <2>1. a \o << >> = a
    BY <1>2
  <2>. QED
    BY <1>5, <2>1
<1>8. s \o a \in Seq(T) /\ Len(s \o a) = Len(s) + n
  BY <1>2, ConcatForm
<1>9. (s \o a) \o b = s \o (a \o b)
  <2>1. a \in Seq(T) /\ b \in Seq(T)
    BY <1>2, <1>3
  <2>. HIDE DEF a, b
  <2>2. Associates(s, a, b)
    BY <2>1, JoinAgain
  <2>. QED
    BY <2>2, Zenon DEF Associates
<1>10. a = SubSeq(q, 1, n) /\ b = SubSeq(q, n + 1, Len(q))
  BY DEF a, b
<1>11. IsCut(T, s, q, n, a, b)
  BY <1>2, <1>3, <1>5, <1>6, <1>7, <1>8, <1>9, <1>10 DEF IsCut
<1>. QED
  BY <1>2, <1>3, <1>11

(* Joining nothing.                                                        *)
LEMMA FlattenEmpty == FlattenSeq(<< >>) = << >>
  BY DEF FlattenSeq

(* Sequences over T are joined to a sequence over T.                       *)
LEMMA FlattenType ==
    ASSUME NEW T, NEW s \in Seq(Seq(T))
    PROVE  FlattenSeq(s) \in Seq(T)
<1>1. CASE s = << >>
  <2>1. << >> \in Seq(T)
    OBVIOUS
  <2>. QED
    BY <1>1, <2>1, FlattenEmpty
<1>2. CASE s # << >>
  <2>1. PICK G \in [1 .. Len(s) -> Seq(T)] : Joins(s, G)
    BY JoinsExists
  <2>2. FlattenSeq(s) = G[Len(s)]
    BY <1>2, <2>1, FlattenJoins
  <2>3. Len(s) \in 1 .. Len(s)
    BY <1>2
  <2>. QED
    BY <2>2, <2>3
<1>. QED
  BY <1>1, <1>2

(* A sequence more is joined at the end.                                   *)
LEMMA FlattenAppend ==
    ASSUME NEW T, NEW s \in Seq(Seq(T)), NEW e \in Seq(T)
    PROVE  FlattenSeq(Append(s, e)) = FlattenSeq(s) \o e
<1>. DEFINE n == Len(s)
            t == Append(s, e)
<1>1. t \in Seq(Seq(T)) /\ t # << >> /\ Len(t) = n + 1 /\ t[n + 1] = e /\ n \in Nat
      /\ \A i \in 1 .. n : t[i] = s[i]
  <2>. DEFINE U == Seq(T)
  <2>1. s \in Seq(U) /\ e \in U
    OBVIOUS
  <2>. HIDE DEF U
  <2>2. t \in Seq(U) /\ t # << >> /\ Len(t) = n + 1 /\ t[n + 1] = e /\ n \in Nat
        /\ \A i \in 1 .. n : t[i] = s[i]
    BY <2>1
  <2>. QED
    BY <2>2 DEF U
<1>2. PICK G \in [1 .. n + 1 -> Seq(T)] : Joins(t, G)
  <2>. HIDE DEF t, n
  <2>. QED
    BY <1>1, JoinsExists
<1>3. FlattenSeq(t) = G[n + 1]
  <2>. HIDE DEF t, n
  <2>. QED
    BY <1>1, <1>2, FlattenJoins
<1>4. \A i \in 1 .. n + 1 : G[i] = IF i = 1 THEN t[i] ELSE G[i - 1] \o t[i]
  <2>. HIDE DEF t, n
  <2>. QED
    BY <1>1, <1>2 DEF Joins
<1>5. CASE n = 0
  <2>1. s = << >>
    BY <1>5
  <2>2. G[n + 1] = e
    BY <1>1, <1>4, <1>5
  <2>3. << >> \o e = e
    OBVIOUS
  <2>. QED
    BY <1>3, <2>1, <2>2, <2>3, FlattenEmpty
<1>6. CASE n # 0
  <2>. DEFINE H == [i \in 1 .. n |-> G[i]]
  <2>1. H \in [1 .. n -> Seq(T)]
    <3>1. \A i \in 1 .. n : G[i] \in Seq(T)
      <4>. DEFINE U == Seq(T)
      <4>1. G \in [1 .. n + 1 -> U] /\ n \in Nat
        BY <1>1, <1>2
      <4>. HIDE DEF U, t, n
      <4>2. \A i \in 1 .. n : G[i] \in U
        BY <4>1
      <4>. QED
        BY <4>2 DEF U
    <3>. QED
      BY <3>1
  <2>2. Joins(s, H)
    <3>1. ASSUME NEW i \in 1 .. n
          PROVE  H[i] = IF i = 1 THEN s[i] ELSE H[i - 1] \o s[i]
      <4>1. i \in 1 .. n + 1 /\ t[i] = s[i] /\ H[i] = G[i] /\ (i # 1 => i - 1 \in 1 .. n)
        BY <1>1
      <4>2. i # 1 => H[i - 1] = G[i - 1]
        BY <4>1
      <4>. HIDE DEF t, H
      <4>. QED
        BY <1>4, <4>1, <4>2
    <3>2. H = [i \in 1 .. n |-> IF i = 1 THEN s[i] ELSE H[i - 1] \o s[i]]
      <4>1. \A i \in 1 .. n : H[i] = [j \in 1 .. n |-> IF j = 1 THEN s[j] ELSE H[j - 1] \o s[j]][i]
        BY <3>1
      <4>. QED
        BY <4>1
    <3>. HIDE DEF H
    <3>. QED
      BY <3>2 DEF Joins
  <2>3. FlattenSeq(s) = H[n]
    <3>1. s # << >>
      BY <1>6
    <3>. HIDE DEF H
    <3>. QED
      BY <2>1, <2>2, <3>1, FlattenJoins
  <2>4. H[n] = G[n]
    BY <1>1, <1>6
  <2>5. G[n + 1] = G[n] \o t[n + 1]
    <3>1. n + 1 \in 1 .. n + 1 /\ n + 1 # 1 /\ (n + 1) - 1 = n
      BY <1>1, <1>6
    <3>. HIDE DEF t, n, H
    <3>. QED
      BY <1>4, <3>1
  <2>. QED
    BY <1>1, <1>3, <2>3, <2>4, <2>5
<1>. QED
  BY <1>5, <1>6

(* The first k of the sequences s joined, and where the k-th of them ends  *)
(* in FlattenSeq(s).                                                       *)
Upto(s, k) == FlattenSeq(SubSeq(s, 1, k))
Extent(s, k) == Len(Upto(s, k))

(* The types of both.                                                      *)
LEMMA UptoType ==
    ASSUME NEW T, NEW s \in Seq(Seq(T)), NEW k \in 0 .. Len(s)
    PROVE  Upto(s, k) \in Seq(T) /\ Extent(s, k) \in Nat
<1>. DEFINE U == Seq(T)
<1>1. SubSeq(s, 1, k) \in Seq(U)
  <2>1. s \in Seq(U)
    OBVIOUS
  <2>. HIDE DEF U
  <2>. QED
    BY <2>1
<1>2. Upto(s, k) \in Seq(T)
  BY <1>1, FlattenType DEF Upto
<1>. QED
  BY <1>2 DEF Extent

(* None of the sequences, and all of them.                                 *)
LEMMA UptoEnds ==
    ASSUME NEW T, NEW s \in Seq(Seq(T))
    PROVE  Upto(s, 0) = << >> /\ Upto(s, Len(s)) = FlattenSeq(s)
<1>. DEFINE U == Seq(T)
<1>1. SubSeq(s, 1, 0) = << >> /\ SubSeq(s, 1, Len(s)) = s
  <2>1. s \in Seq(U)
    OBVIOUS
  <2>. HIDE DEF U
  <2>. QED
    BY <2>1
<1>. QED
  BY <1>1, FlattenEmpty DEF Upto

(* The k-th sequence is joined to those before it.                         *)
LEMMA UptoStep ==
    ASSUME NEW T, NEW s \in Seq(Seq(T)), NEW k \in 1 .. Len(s)
    PROVE  /\ Upto(s, k) = Upto(s, k - 1) \o s[k]
           /\ Extent(s, k) = Extent(s, k - 1) + Len(s[k])
           /\ s[k] \in Seq(T)
<1>. DEFINE U == Seq(T)
            r == SubSeq(s, 1, k - 1)
            e == s[k]
<1>1. r \in Seq(U) /\ e \in U /\ SubSeq(s, 1, k) = Append(r, e) /\ k - 1 \in 0 .. Len(s)
  <2>1. s \in Seq(U)
    OBVIOUS
  <2>. HIDE DEF U
  <2>. QED
    BY <2>1
<1>2. FlattenSeq(Append(r, e)) = FlattenSeq(r) \o e
  <2>. HIDE DEF r, e
  <2>. QED
    BY <1>1, FlattenAppend
<1>3. Upto(s, k) = Upto(s, k - 1) \o e
  BY <1>1, <1>2 DEF Upto
<1>4. Upto(s, k - 1) \in Seq(T) /\ e \in Seq(T)
  BY <1>1, UptoType
<1>5. Len(Upto(s, k - 1) \o e) = Len(Upto(s, k - 1)) + Len(e)
  <2>. HIDE DEF e
  <2>. QED
    BY <1>4
<1>. QED
  BY <1>3, <1>4, <1>5 DEF Extent

(* What the first i are joined to is a prefix of what the first j are.     *)
LEMMA UptoGrows ==
    ASSUME NEW T, NEW s \in Seq(Seq(T)), NEW i \in 0 .. Len(s), NEW j \in 0 .. Len(s), i <= j
    PROVE  /\ Extent(s, i) <= Extent(s, j)
           /\ \A p \in 1 .. Extent(s, i) : Upto(s, j)[p] = Upto(s, i)[p]
<1>. DEFINE Good(k) == /\ Extent(s, i) <= Extent(s, k)
                       /\ \A p \in 1 .. Extent(s, i) : Upto(s, k)[p] = Upto(s, i)[p]
            Ks == {k \in Nat : i <= k => Good(k)}
            n == Len(s)
<1>1. n \in Nat
  OBVIOUS
<1>2. Good(i)
  BY UptoType
<1>3. 0 \in Ks
  BY <1>2
<1>4. ASSUME NEW k \in 0 .. n, k < n, k \in Ks PROVE k + 1 \in Ks
  <2>1. CASE k + 1 <= i
    BY <1>2, <2>1, <1>1
  <2>2. CASE i <= k
    <3>1. k + 1 \in 1 .. n /\ k \in 0 .. n /\ (k + 1) - 1 = k
      BY <1>1, <1>4
    <3>2. /\ Upto(s, k + 1) = Upto(s, k) \o s[k + 1]
          /\ Extent(s, k + 1) = Extent(s, k) + Len(s[k + 1])
          /\ s[k + 1] \in Seq(T) /\ Upto(s, k) \in Seq(T)
          /\ Extent(s, k) \in Nat /\ Extent(s, i) \in Nat
      BY <3>1, UptoStep, UptoType
    <3>3. Good(k)
      BY <1>4, <2>2
    <3>4. \A p \in 1 .. Extent(s, k) : (Upto(s, k) \o s[k + 1])[p] = Upto(s, k)[p]
      BY <3>2 DEF Extent
    <3>5. Extent(s, i) <= Extent(s, k) + Len(s[k + 1])
      BY <3>2, <3>3
    <3>6. \A p \in 1 .. Extent(s, i) : p \in 1 .. Extent(s, k)
      BY <3>2, <3>3
    <3>7. \A p \in 1 .. Extent(s, i) : Upto(s, k + 1)[p] = Upto(s, i)[p]
      BY <3>2, <3>3, <3>4, <3>6
    <3>8. Good(k + 1)
      BY <3>2, <3>5, <3>7
    <3>. HIDE DEF Good
    <3>. QED
      BY <3>1, <3>8
  <2>. QED
    BY <1>1, <1>4, <2>1, <2>2
<1>5. j \in Ks
  <2>. HIDE DEF Ks, n
  <2>1. j \in 0 .. n
    BY DEF n
  <2>. QED
    BY <1>1, <1>3, <1>4, <2>1, BoundedInduction
<1>. QED
  BY <1>5

(* Element j of sequence k is to be found behind the end of sequence k - 1.*)
LEMMA Layout ==
    ASSUME NEW T, NEW s \in Seq(Seq(T)), NEW k \in 1 .. Len(s), NEW j \in 1 .. Len(s[k])
    PROVE  /\ Extent(s, k - 1) + j \in 1 .. Extent(s, k)
           /\ Extent(s, k) \in 0 .. Len(FlattenSeq(s))
           /\ FlattenSeq(s)[Extent(s, k - 1) + j] = s[k][j]
<1>. DEFINE p == Extent(s, k - 1) + j
<1>1. /\ Upto(s, k) = Upto(s, k - 1) \o s[k]
      /\ Extent(s, k) = Extent(s, k - 1) + Len(s[k])
      /\ s[k] \in Seq(T) /\ Upto(s, k - 1) \in Seq(T) /\ Extent(s, k - 1) \in Nat
      /\ k \in 0 .. Len(s) /\ Extent(s, k) \in Nat
  <2>1. k \in 0 .. Len(s) /\ k - 1 \in 0 .. Len(s)
    OBVIOUS
  <2>. QED
    BY <2>1, UptoStep, UptoType
<1>2. p \in 1 .. Extent(s, k) /\ (Upto(s, k - 1) \o s[k])[p] = s[k][j]
  BY <1>1 DEF Extent
<1>3. Len(s) \in 0 .. Len(s) /\ k <= Len(s)
  OBVIOUS
<1>4. /\ Extent(s, k) <= Extent(s, Len(s))
      /\ \A q \in 1 .. Extent(s, k) : Upto(s, Len(s))[q] = Upto(s, k)[q]
  BY <1>1, <1>3, UptoGrows
<1>5. Upto(s, Len(s)) = FlattenSeq(s) /\ FlattenSeq(s) \in Seq(T)
  BY UptoEnds, FlattenType
<1>6. FlattenSeq(s)[p] = Upto(s, k)[p]
  BY <1>2, <1>4, <1>5
<1>7. Extent(s, Len(s)) = Len(FlattenSeq(s)) /\ Len(FlattenSeq(s)) \in Nat
  BY <1>5 DEF Extent
<1>8. Extent(s, k) \in 0 .. Len(FlattenSeq(s))
  BY <1>1, <1>4, <1>7
<1>. QED
  BY <1>1, <1>2, <1>6, <1>8

(* Every place of the whole is a place in one of the sequences.            *)
LEMMA Located ==
    ASSUME NEW T, NEW s \in Seq(Seq(T)), NEW p \in 1 .. Len(FlattenSeq(s))
    PROVE  \E k \in 1 .. Len(s) : \E j \in 1 .. Len(s[k]) : p = Extent(s, k - 1) + j
<1>. DEFINE n == Len(s)
            Found == \E k \in 1 .. n : \E j \in 1 .. Len(s[k]) : p = Extent(s, k - 1) + j
            Ks == {k \in Nat : p <= Extent(s, k) => Found}
<1>1. n \in Nat /\ n \in 0 .. n
  OBVIOUS
<1>2. 0 \in Ks
  <2>1. Extent(s, 0) = 0
    BY UptoEnds DEF Extent
  <2>. QED
    BY <2>1
<1>3. ASSUME NEW k \in 0 .. n, k < n, k \in Ks PROVE k + 1 \in Ks
  <2>1. k + 1 \in 1 .. n /\ k \in 0 .. n /\ (k + 1) - 1 = k /\ k + 1 \in Nat
    BY <1>1, <1>3
  <2>2. /\ Extent(s, k + 1) = Extent(s, k) + Len(s[k + 1])
        /\ s[k + 1] \in Seq(T) /\ Extent(s, k) \in Nat
    BY <2>1, UptoStep, UptoType
  <2>3. SUFFICES ASSUME p <= Extent(s, k + 1), ~(p <= Extent(s, k)) PROVE Found
    BY <1>3, <2>1
  <2>4. FlattenSeq(s) \in Seq(T) /\ p \in Nat
    BY FlattenType
  <2>5. p - Extent(s, k) \in 1 .. Len(s[k + 1]) /\ p = Extent(s, k) + (p - Extent(s, k))
    BY <2>2, <2>3, <2>4
  <2>. QED
    BY <2>1, <2>5
<1>4. n \in Ks
  <2>. HIDE DEF Ks, n
  <2>. QED
    BY <1>1, <1>2, <1>3, BoundedInduction
<1>5. Extent(s, n) = Len(FlattenSeq(s))
  BY UptoEnds DEF Extent
<1>6. FlattenSeq(s) \in Seq(T)
  BY FlattenType
<1>. QED
  BY <1>4, <1>5, <1>6

(* If every element tells which sequence it is from, then sequence i ends  *)
(* at the last place whose element is from one of the first i.             *)
LEMMA OwnedUpto ==
    ASSUME NEW T, NEW s \in Seq(Seq(T)), NEW owner,
           \A k \in 1 .. Len(s) : \A j \in 1 .. Len(s[k]) : owner[s[k][j]] = k,
           NEW i \in 0 .. Len(s)
    PROVE  /\ \A p \in 1 .. Len(FlattenSeq(s)) : owner[FlattenSeq(s)[p]] <= i <=> p <= Extent(s, i)
           /\ Max({0} \cup {p \in 1 .. Len(FlattenSeq(s)) : owner[FlattenSeq(s)[p]] <= i})
                = Extent(s, i)
           /\ Extent(s, i) <= Len(FlattenSeq(s))
<1>. DEFINE f == FlattenSeq(s)
            m == Extent(s, i)
            S == {0} \cup {p \in 1 .. Len(f) : owner[f[p]] <= i}
<1>1. f \in Seq(T) /\ m \in Nat /\ Len(s) \in 0 .. Len(s)
  BY FlattenType, UptoType
<1>2. m <= Len(f)
  <2>1. Extent(s, Len(s)) = Len(f) /\ i <= Len(s)
    BY UptoEnds DEF Extent
  <2>. QED
    BY <1>1, <2>1, UptoGrows
<1>3. ASSUME NEW p \in 1 .. Len(f) PROVE owner[f[p]] <= i <=> p <= m
  <2>1. PICK k \in 1 .. Len(s) : \E j \in 1 .. Len(s[k]) : p = Extent(s, k - 1) + j
    BY Located
  <2>7. PICK j \in 1 .. Len(s[k]) : p = Extent(s, k - 1) + j
    BY <2>1
  <2>2. owner[f[p]] = k /\ p <= Extent(s, k) /\ k - 1 \in 0 .. Len(s) /\ k \in 0 .. Len(s)
        /\ Extent(s, k) \in Nat /\ Extent(s, k - 1) \in Nat
    <3>1. k - 1 \in 0 .. Len(s) /\ k \in 0 .. Len(s)
      OBVIOUS
    <3>2. f[p] = s[k][j] /\ p \in 1 .. Extent(s, k)
      BY <2>7, Layout
    <3>3. Extent(s, k) \in Nat /\ Extent(s, k - 1) \in Nat
      BY <3>1, UptoType
    <3>. QED
      BY <3>1, <3>2, <3>3
  <2>3. k <= i => Extent(s, k) <= m
    BY <2>2, UptoGrows
  <2>4. ~(k <= i) => m <= Extent(s, k - 1)
    <3>1. ~(k <= i) => i <= k - 1
      OBVIOUS
    <3>. QED
      BY <2>2, <3>1, UptoGrows
  <2>5. s[k] \in Seq(T)
    BY UptoStep
  <2>6. p > Extent(s, k - 1)
    BY <2>7, <2>2, <2>5
  <2>. QED
    BY <1>1, <2>2, <2>3, <2>4, <2>6
<1>4. S \subseteq Nat /\ m \in S /\ \A y \in S : m >= y
  <2>1. \A y \in S : y \in Nat /\ (y = 0 \/ y <= m)
    BY <1>1, <1>3
  <2>2. m \in S
    <3>1. CASE m = 0
      BY <3>1
    <3>2. CASE m # 0
      <4>1. m \in 1 .. Len(f)
        BY <1>1, <1>2, <3>2
      <4>2. owner[f[m]] <= i
        BY <1>1, <1>3, <4>1
      <4>. QED
        BY <4>1, <4>2
    <3>. QED
      BY <3>1, <3>2
  <2>. HIDE DEF S, m
  <2>. QED
    BY <1>1, <2>1, <2>2
<1>5. Max(S) = m
  <2>. HIDE DEF S, m
  <2>. QED
    BY <1>4, MaxIs
<1>. QED
  BY <1>2, <1>3, <1>5

(* What agrees with the front of a sequence is a prefix of it.             *)
LEMMA PrefixForm ==
    ASSUME NEW T, NEW s \in Seq(T), NEW t \in Seq(T), Len(s) <= Len(t),
           \A p \in 1 .. Len(s) : s[p] = t[p]
    PROVE  IsPrefix(s, t)
<1>1. SubSeq(s, 1, Len(s)) = s
  OBVIOUS
<1>. DEFINE front == SubSeq(t, 1, Len(s))
<1>2. front \in Seq(T) /\ Len(front) = Len(s) /\ \A p \in 1 .. Len(s) : front[p] = t[p]
  OBVIOUS
<1>. HIDE DEF front
<1>3. front = s
  BY <1>2
<1>. QED
  BY <1>1, <1>3 DEF IsPrefix, front

(* The first k are joined to a prefix of the whole.                        *)
LEMMA UptoPrefix ==
    ASSUME NEW T, NEW s \in Seq(Seq(T)), NEW k \in 0 .. Len(s)
    PROVE  IsPrefix(Upto(s, k), FlattenSeq(s))
<1>1. Upto(s, k) \in Seq(T) /\ FlattenSeq(s) \in Seq(T) /\ Len(s) \in 0 .. Len(s) /\ k <= Len(s)
  BY UptoType, FlattenType
<1>2. Upto(s, Len(s)) = FlattenSeq(s)
  BY UptoEnds
<1>3. Extent(s, k) <= Extent(s, Len(s)) /\ \A p \in 1 .. Extent(s, k) : Upto(s, Len(s))[p] = Upto(s, k)[p]
  BY <1>1, UptoGrows
<1>. QED
  BY <1>1, <1>2, <1>3, PrefixForm DEF Extent

(* So are the first k - 1 and the front of the k-th.                       *)
LEMMA UptoAndMore ==
    ASSUME NEW T, NEW s \in Seq(Seq(T)), NEW k \in 1 .. Len(s), NEW x \in Seq(T),
           Len(x) <= Len(s[k]), \A j \in 1 .. Len(x) : x[j] = s[k][j]
    PROVE  IsPrefix(Upto(s, k - 1) \o x, FlattenSeq(s))
<1>. DEFINE u == Upto(s, k - 1)
            w == u \o x
            f == FlattenSeq(s)
<1>1. /\ k - 1 \in 0 .. Len(s) /\ k \in 0 .. Len(s) /\ Len(s) \in 0 .. Len(s) /\ k <= Len(s) /\ k - 1 <= Len(s)
  OBVIOUS
<1>2. /\ u \in Seq(T) /\ Extent(s, k - 1) \in Nat /\ Extent(s, k) \in Nat
      /\ s[k] \in Seq(T) /\ Extent(s, k) = Extent(s, k - 1) + Len(s[k])
      /\ f \in Seq(T) /\ Len(u) = Extent(s, k - 1)
  BY <1>1, UptoType, UptoStep, FlattenType DEF Extent
<1>3. Upto(s, Len(s)) = f /\ Extent(s, Len(s)) = Len(f)
  BY UptoEnds DEF Extent
<1>4. /\ Extent(s, k - 1) <= Len(f) /\ Extent(s, k) <= Len(f)
      /\ \A p \in 1 .. Extent(s, k - 1) : f[p] = u[p]
  <2>1. \A i \in {k - 1, k} : /\ Extent(s, i) <= Extent(s, Len(s))
                               /\ \A p \in 1 .. Extent(s, i) : Upto(s, Len(s))[p] = Upto(s, i)[p]
    BY <1>1, UptoGrows
  <2>2. /\ Extent(s, k - 1) <= Extent(s, Len(s)) /\ Extent(s, k) <= Extent(s, Len(s))
        /\ \A p \in 1 .. Extent(s, k - 1) : Upto(s, Len(s))[p] = Upto(s, k - 1)[p]
    BY <2>1
  <2>. QED
    BY <1>3, <2>2
<1>5. \A j \in 1 .. Len(s[k]) : f[Extent(s, k - 1) + j] = s[k][j]
  BY Layout
<1>. HIDE DEF u, f
<1>6. /\ w \in Seq(T) /\ Len(w) = Len(u) + Len(x)
      /\ \A p \in 1 .. Len(u) : w[p] = u[p]
      /\ \A p \in 1 .. Len(x) : w[Len(u) + p] = x[p]
  <2>1. u \in Seq(T)
    BY <1>2
  <2>2. /\ u \o x \in Seq(T) /\ Len(u \o x) = Len(u) + Len(x)
        /\ \A p \in 1 .. Len(u) : (u \o x)[p] = u[p]
        /\ \A p \in 1 .. Len(x) : (u \o x)[Len(u) + p] = x[p]
    BY <2>1, ConcatForm
  <2>. QED
    BY <2>2
<1>. HIDE DEF w
<1>7. Len(w) <= Len(f)
  BY <1>2, <1>4, <1>6
<1>8. ASSUME NEW p \in 1 .. Len(w) PROVE w[p] = f[p]
  <2>1. CASE p \in 1 .. Len(u)
    BY <1>2, <1>4, <1>6, <2>1
  <2>2. CASE ~(p \in 1 .. Len(u))
    <3>1. p - Len(u) \in 1 .. Len(x) /\ Len(u) + (p - Len(u)) = p
      BY <1>2, <1>6, <2>2, SMTT(30)
    <3>. DEFINE d == p - Len(u)
                l == Len(x)
                m == Len(s[k])
    <3>2. p - Len(u) \in 1 .. Len(s[k])
      <4>1. d \in 1 .. l /\ l \in Nat /\ m \in Nat /\ l <= m
        BY <1>2, <3>1
      <4>. HIDE DEF d, l, m
      <4>2. d \in 1 .. m
        BY <4>1, SMTT(30)
      <4>. QED
        BY <4>2 DEF d, m
    <3>. DEFINE j == p - Len(u)
    <3>. HIDE DEF j
    <3>3. w[Len(u) + j] = x[j] /\ x[j] = s[k][j] /\ f[Len(u) + j] = s[k][j]
      BY <1>2, <1>5, <1>6, <3>1, <3>2 DEF j
    <3>. QED
      BY <3>1, <3>3 DEF j
  <2>. QED
    BY <2>1, <2>2
<1>9. IsPrefix(w, f)
  BY <1>2, <1>6, <1>7, <1>8, PrefixForm
<1>. QED
  BY <1>9 DEF u, w, f
=============================================================================
