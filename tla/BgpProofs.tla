----------------------------- MODULE BgpProofs -----------------------------
(***************************************************************************)
(* Proofs about BgpUpdate and BgpListener, for any sessions, updates and   *)
(* bounds.                                                                 *)
(***************************************************************************)
EXTENDS BgpListener, WellFoundedInduction, SequenceTheorems, TLAPS

-----------------------------------------------------------------------------
(* Induction, with a set in the place of a predicate *)

LEMMA NatSetInduction ==
  ASSUME NEW S, 0 \in S, \A n \in Nat : n \in S => n + 1 \in S
  PROVE  Nat \subseteq S
<1> DEFINE T == Nat \ S
<1>1. SUFFICES ASSUME T # {} PROVE FALSE
  OBVIOUS
<1>2. PICK x \in T : \A y \in T : ~ (<<y, x>> \in OpToRel(<, Nat))
  BY <1>1, WFMin, NatLessThanWellFounded
<1>3. x # 0 /\ x - 1 \in Nat /\ x - 1 < x
  OBVIOUS
<1>4. x - 1 \in T
  OBVIOUS
<1>5. <<x - 1, x>> \in OpToRel(<, Nat)
  BY <1>3 DEF OpToRel
<1> QED
  BY <1>2, <1>4, <1>5

LEMMA SeqSetInduction ==
  ASSUME NEW S, NEW T, <<>> \in T,
         \A s \in Seq(S), e \in S : s \in T => Append(s, e) \in T
  PROVE  Seq(S) \subseteq T
<1> DEFINE N == {n \in Nat : \A s \in Seq(S) : Len(s) = n => s \in T}
<1>1. 0 \in N
  BY EmptySeq
<1>2. ASSUME NEW n \in Nat, n \in N PROVE n + 1 \in N
  <2> SUFFICES ASSUME NEW s \in Seq(S), Len(s) = n + 1 PROVE s \in T
    OBVIOUS
  <2>1. s # <<>>
    OBVIOUS
  <2>2. PICK t \in Seq(S), e \in S : s = Append(t, e)
    BY <2>1, SequenceEmptyOrAppend
  <2>3. Len(t) = n
    BY <2>2, LenProperties, AppendProperties
  <2> QED
    BY <1>2, <2>2, <2>3
<1> HIDE DEF N
<1>3. Nat \subseteq N
  BY <1>1, <1>2, NatSetInduction
<1> QED
  BY <1>3, LenProperties DEF N

-----------------------------------------------------------------------------
(* What FlattenSeq does *)

\* f is the function that FlattenSeq(seqs) defines.
Flattens(f, seqs) ==
    f = [i \in 1 .. Len(seqs) |-> IF i = 1 THEN seqs[i] ELSE f[i - 1] \o seqs[i]]

LEMMA FlattenDefined ==
  ASSUME NEW S, NEW seqs \in Seq(S), seqs # <<>>
  PROVE  \E f : /\ f[1] = seqs[1]
                /\ \A i \in 1 .. Len(seqs) - 1 : f[i + 1] = f[i] \o seqs[i + 1]
                /\ FlattenSeq(seqs) = f[Len(seqs)]
<1> DEFINE Good(g, n) == /\ g = [i \in 1 .. n + 1 |-> g[i]]
                         /\ g[1] = seqs[1]
                         /\ \A i \in 2 .. n + 1 : g[i] = g[i - 1] \o seqs[i]
           Sizes == {k \in Nat : \E g : Good(g, k)}
<1>1. 0 \in Sizes
  <2>1. Good([i \in 1 .. 1 |-> seqs[1]], 0)
    OBVIOUS
  <2> QED
    BY <2>1
<1>2. ASSUME NEW n \in Nat, n \in Sizes PROVE n + 1 \in Sizes
  <2>1. PICK g : Good(g, n)
    BY <1>2
  <2> DEFINE h == [i \in 1 .. n + 2 |-> IF i = n + 2 THEN g[n + 1] \o seqs[i] ELSE g[i]]
  <2>2. /\ h = [i \in 1 .. n + 2 |-> h[i]]
        /\ h[n + 2] = g[n + 1] \o seqs[n + 2]
        /\ \A i \in 1 .. n + 1 : h[i] = g[i]
    <3>1. h = [i \in 1 .. n + 2 |-> h[i]]
      OBVIOUS
    <3>2. n + 2 \in 1 .. n + 2
      OBVIOUS
    <3>3. h[n + 2] = g[n + 1] \o seqs[n + 2]
      BY <3>2
    <3>4. ASSUME NEW i \in 1 .. n + 1 PROVE h[i] = g[i]
      <4>1. i \in 1 .. n + 2 /\ i # n + 2
        OBVIOUS
      <4> QED
        BY <4>1
    <3> HIDE DEF h
    <3> QED
      BY <3>1, <3>3, <3>4
  <2> HIDE DEF h
  <2>3. ASSUME NEW i \in 2 .. n + 2 PROVE h[i] = h[i - 1] \o seqs[i]
    <3>1. CASE i = n + 2
      <4>1. i - 1 = n + 1 /\ n + 1 \in 1 .. n + 1
        BY <3>1
      <4> QED
        BY <2>2, <3>1, <4>1
    <3>2. CASE i # n + 2
      <4>1. i \in 2 .. n + 1 /\ i \in 1 .. n + 1 /\ i - 1 \in 1 .. n + 1
        BY <3>2
      <4> QED
        BY <2>1, <2>2, <4>1
    <3> QED
      BY <3>1, <3>2
  <2>4. h[1] = seqs[1]
    <3>1. 1 \in 1 .. n + 1
      OBVIOUS
    <3> QED
      BY <2>1, <2>2, <3>1
  <2>5. Good(h, n + 1)
    <3>1. (n + 1) + 1 = n + 2
      OBVIOUS
    <3> QED
      BY <2>2, <2>3, <2>4, <3>1
  <2> HIDE DEF Good
  <2> QED
    BY <2>5
<1>3. Len(seqs) \in Nat /\ Len(seqs) >= 1 /\ Len(seqs) # 0
  BY EmptySeq
<1>4. Len(seqs) - 1 \in Sizes
  <2> HIDE DEF Sizes
  <2> QED
    BY <1>1, <1>2, <1>3, NatSetInduction
<1>5. PICK g : Good(g, Len(seqs) - 1)
  BY <1>4
<1>6. Flattens(g, seqs)
  <2>1. ASSUME NEW i \in 1 .. Len(seqs)
        PROVE  g[i] = IF i = 1 THEN seqs[i] ELSE g[i - 1] \o seqs[i]
    <3>1. i = 1 \/ i \in 2 .. Len(seqs)
      BY <1>3
    <3>2. (Len(seqs) - 1) + 1 = Len(seqs)
      BY <1>3
    <3> QED
      BY <1>5, <3>1, <3>2
  <2>2. g = [i \in 1 .. Len(seqs) |-> g[i]]
    BY <1>3, <1>5
  <2> QED
    BY <2>1, <2>2 DEF Flattens
<1> DEFINE f == CHOOSE f : Flattens(f, seqs)
<1>7. Flattens(f, seqs)
  BY <1>6
<1>8. FlattenSeq(seqs) = f[Len(seqs)]
  BY <1>3 DEF FlattenSeq, Flattens
<1> HIDE DEF f
<1>9. ASSUME NEW i \in 1 .. Len(seqs) - 1
      PROVE  f[i + 1] = f[i] \o seqs[i + 1]
  <2>1. i + 1 \in 1 .. Len(seqs) /\ i + 1 # 1 /\ (i + 1) - 1 = i
    BY <1>3
  <2> QED
    BY <1>7, <2>1 DEF Flattens
<1>10. f[1] = seqs[1]
  BY <1>3, <1>7 DEF Flattens
<1> QED
  BY <1>8, <1>9, <1>10

LEMMA FlattenEmpty == FlattenSeq(<<>>) = <<>>
  BY DEF FlattenSeq

LEMMA FlattenOne ==
  ASSUME NEW S, NEW s \in S
  PROVE  FlattenSeq(<<s>>) = s
<1>1. <<s>> \in Seq(S) /\ <<s>> # <<>> /\ Len(<<s>>) = 1 /\ <<s>>[1] = s
  OBVIOUS
<1> QED
  BY <1>1, FlattenDefined

LEMMA FlattenAppend ==
  ASSUME NEW T, NEW seqs \in Seq(Seq(T)), NEW s \in Seq(T)
  PROVE  FlattenSeq(Append(seqs, s)) = FlattenSeq(seqs) \o s
<1> DEFINE S == Seq(T)
<1>1. CASE seqs = <<>>
  <2>1. Append(seqs, s) = <<s>> /\ FlattenSeq(<<s>>) = s
    BY <1>1, FlattenOne
  <2>2. <<>> \o s = s
    BY ConcatEmptySeq
  <2> QED
    BY <1>1, <2>1, <2>2, FlattenEmpty
<1>2. CASE seqs # <<>>
  <2> DEFINE more == Append(seqs, s)
  <2> HIDE DEF S
  <2>1. seqs \in Seq(S) /\ s \in S
    BY DEF S
  <2>2. /\ more \in Seq(S) /\ more # <<>> /\ Len(seqs) \in Nat
        /\ Len(more) = Len(seqs) + 1 /\ more[Len(seqs) + 1] = s
        /\ \A i \in 1 .. Len(seqs) : more[i] = seqs[i]
    BY <2>1, AppendProperties, LenProperties
  <2>3. Len(seqs) >= 1
    BY <1>2, <2>1, EmptySeq
  <2> HIDE DEF more
  <2>4. PICK f : /\ f[1] = seqs[1]
                 /\ \A i \in 1 .. Len(seqs) - 1 : f[i + 1] = f[i] \o seqs[i + 1]
                 /\ FlattenSeq(seqs) = f[Len(seqs)]
    BY <1>2, <2>1, FlattenDefined
  <2>5. PICK g : /\ g[1] = more[1]
                 /\ \A i \in 1 .. Len(more) - 1 : g[i + 1] = g[i] \o more[i + 1]
                 /\ FlattenSeq(more) = g[Len(more)]
    BY <2>2, FlattenDefined
  <2> DEFINE Same == {i \in Nat : i + 1 <= Len(seqs) => f[i + 1] = g[i + 1]}
  <2>6. 0 \in Same
    BY <2>2, <2>3, <2>4, <2>5
  <2>7. ASSUME NEW i \in Nat, i \in Same PROVE i + 1 \in Same
    <3> SUFFICES ASSUME i + 2 <= Len(seqs) PROVE f[i + 2] = g[i + 2]
      OBVIOUS
    <3> DEFINE j == i + 1
    <3>1. /\ j \in 1 .. Len(seqs) - 1 /\ j \in 1 .. Len(more) - 1
          /\ j + 1 \in 1 .. Len(seqs) /\ i + 2 = j + 1
      BY <2>2
    <3>2. f[j] = g[j]
      BY <2>7, <3>1
    <3> HIDE DEF j
    <3>3. more[j + 1] = seqs[j + 1]
      BY <2>2, <3>1
    <3> QED
      BY <2>4, <2>5, <3>1, <3>2, <3>3
  <2> HIDE DEF Same
  <2>8. Nat \subseteq Same
    BY <2>6, <2>7, NatSetInduction
  <2>9. f[Len(seqs)] = g[Len(seqs)]
    <3>1. Len(seqs) - 1 \in Same /\ (Len(seqs) - 1) + 1 = Len(seqs)
      BY <2>2, <2>3, <2>8
    <3> QED
      BY <2>2, <3>1 DEF Same
  <2>10. g[Len(seqs) + 1] = g[Len(seqs)] \o s
    <3>1. Len(seqs) \in 1 .. Len(more) - 1
      BY <2>2, <2>3
    <3> QED
      BY <2>2, <2>5, <3>1
  <2> QED
    BY <2>2, <2>4, <2>5, <2>9, <2>10 DEF more
<1> QED
  BY <1>1, <1>2

LEMMA FlattenType ==
  ASSUME NEW T, NEW seqs \in Seq(Seq(T))
  PROVE  FlattenSeq(seqs) \in Seq(T)
<1> DEFINE S == Seq(T)
           Good == {q \in Seq(S) : FlattenSeq(q) \in Seq(T)}
<1>1. <<>> \in Good
  BY FlattenEmpty, EmptySeq
<1>2. ASSUME NEW q \in Seq(S), NEW s \in S, q \in Good
      PROVE  Append(q, s) \in Good
  <2>1. FlattenSeq(Append(q, s)) = FlattenSeq(q) \o s
    BY FlattenAppend
  <2>2. FlattenSeq(q) \o s \in Seq(T)
    BY <1>2, ConcatProperties
  <2>3. Append(q, s) \in Seq(S)
    BY AppendProperties
  <2> QED
    BY <2>1, <2>2, <2>3
<1> HIDE DEF Good, S
<1>3. Seq(S) \subseteq Good
  BY <1>1, <1>2, SeqSetInduction
<1> QED
  BY <1>3 DEF Good, S

\* Kept folded where the provers would concatenate on and on.
Regroups(x, y, z) == (x \o y) \o z = x \o (y \o z)

LEMMA ConcatRegroups ==
  ASSUME NEW T, NEW x \in Seq(T), NEW y \in Seq(T), NEW z \in Seq(T)
  PROVE  Regroups(x, y, z)
BY ConcatAssociative DEF Regroups

LEMMA FlattenConcat ==
  ASSUME NEW T, NEW first \in Seq(Seq(T)), NEW second \in Seq(Seq(T))
  PROVE  FlattenSeq(first \o second) = FlattenSeq(first) \o FlattenSeq(second)
<1> DEFINE S == Seq(T)
           Good == {q \in Seq(S) :
                      FlattenSeq(first \o q) = FlattenSeq(first) \o FlattenSeq(q)}
<1>1. <<>> \in Good
  <2>1. FlattenSeq(first) \in Seq(T)
    BY FlattenType
  <2>2. first \o <<>> = first /\ FlattenSeq(first) \o <<>> = FlattenSeq(first)
    BY <2>1, ConcatEmptySeq
  <2> QED
    BY <2>2, FlattenEmpty, EmptySeq
<1>2. ASSUME NEW q \in Seq(S), NEW s \in S, q \in Good
      PROVE  Append(q, s) \in Good
  <2> HIDE DEF S
  <2>1. first \o Append(q, s) = Append(first \o q, s) /\ first \o q \in Seq(S)
        /\ Append(q, s) \in Seq(S)
    <3>1. first \in Seq(S)
      BY DEF S
    <3>2. Append(q, s) = q \o <<s>> /\ first \o q \in Seq(S) /\ <<s>> \in Seq(S)
      BY <3>1, AppendIsConcat, ConcatProperties
    <3>3. Append(first \o q, s) = (first \o q) \o <<s>>
      BY <3>2, AppendIsConcat
    <3> QED
      BY <3>1, <3>2, <3>3, ConcatAssociative, AppendProperties
  <2>2. FlattenSeq(Append(first \o q, s)) = FlattenSeq(first \o q) \o s
    BY <2>1, FlattenAppend DEF S
  <2>3. FlattenSeq(Append(q, s)) = FlattenSeq(q) \o s
    BY FlattenAppend DEF S
  <2>4. FlattenSeq(first \o q) = FlattenSeq(first) \o FlattenSeq(q)
    BY <1>2
  <2>5. (FlattenSeq(first) \o FlattenSeq(q)) \o s
          = FlattenSeq(first) \o (FlattenSeq(q) \o s)
    <3>1. /\ FlattenSeq(first) \in Seq(T) /\ FlattenSeq(q) \in Seq(T)
          /\ s \in Seq(T)
      BY FlattenType DEF S
    <3>2. Regroups(FlattenSeq(first), FlattenSeq(q), s)
      BY <3>1, ConcatRegroups
    <3> QED
      BY <3>2 DEF Regroups
  <2> QED
    BY <2>1, <2>2, <2>3, <2>4, <2>5
<1> HIDE DEF Good, S
<1>3. Seq(S) \subseteq Good
  BY <1>1, <1>2, SeqSetInduction
<1> QED
  BY <1>3 DEF Good, S

LEMMA ConcatAll ==
  ASSUME NEW T
  PROVE  /\ \A s, t, u \in Seq(T) : (s \o t) \o u = s \o (t \o u)
         /\ \A s, t \in Seq(T) :
              /\ s \o t \in Seq(T) /\ Len(s \o t) = Len(s) + Len(t)
              /\ \A i \in 1 .. Len(s) : (s \o t)[i] = s[i]
              /\ \A i \in 1 .. Len(t) : (s \o t)[Len(s) + i] = t[i]
<1>1. \A s, t, u \in Seq(T) : (s \o t) \o u = s \o (t \o u)
  BY ConcatAssociative
<1>2. ASSUME NEW s \in Seq(T), NEW t \in Seq(T)
      PROVE  /\ s \o t \in Seq(T) /\ Len(s \o t) = Len(s) + Len(t)
             /\ \A i \in 1 .. Len(s) : (s \o t)[i] = s[i]
             /\ \A i \in 1 .. Len(t) : (s \o t)[Len(s) + i] = t[i]
  <2>1. Len(s) \in Nat /\ Len(t) \in Nat
    BY LenProperties
  <2>2. /\ s \o t \in Seq(T) /\ Len(s \o t) = Len(s) + Len(t)
        /\ \A i \in 1 .. Len(s) + Len(t) :
             (s \o t)[i] = IF i <= Len(s) THEN s[i] ELSE t[i - Len(s)]
    BY ConcatProperties
  <2>3. ASSUME NEW i \in 1 .. Len(s) PROVE (s \o t)[i] = s[i]
    BY <2>1, <2>2
  <2>4. ASSUME NEW i \in 1 .. Len(t) PROVE (s \o t)[Len(s) + i] = t[i]
    <3> DEFINE k == Len(s) + i
    <3>1. k \in 1 .. Len(s) + Len(t) /\ ~(k <= Len(s)) /\ k - Len(s) = i
      BY <2>1
    <3> HIDE DEF k
    <3>2. (s \o t)[k] = t[k - Len(s)]
      BY <2>2, <3>1
    <3> QED
      BY <3>1, <3>2 DEF k
  <2> QED
    BY <2>2, <2>3, <2>4
<1> QED
  BY <1>1, <1>2

LEMMA Middle ==
  ASSUME NEW T, NEW x \in Seq(T), NEW y \in Seq(T), NEW z \in Seq(T)
  PROVE  LET s == x \o (y \o z)
         IN  /\ s \in Seq(T) /\ Len(s) = Len(x) + Len(y) + Len(z)
             /\ \A i \in 1 .. Len(y) : s[Len(x) + i] = y[i]
             /\ SubSeq(s, Len(x) + 1, Len(x) + Len(y)) = y
<1> DEFINE yz == y \o z
           s == x \o yz
           m == Len(x) + 1
           n == Len(x) + Len(y)
<1>1. Len(x) \in Nat /\ Len(y) \in Nat /\ Len(z) \in Nat
  BY LenProperties
<1>2. /\ yz \in Seq(T) /\ Len(yz) = Len(y) + Len(z)
      /\ \A i \in 1 .. Len(y) : yz[i] = y[i]
  BY ConcatAll
<1> HIDE DEF yz
<1>3. /\ s \in Seq(T) /\ Len(s) = Len(x) + Len(yz)
      /\ \A i \in 1 .. Len(yz) : s[Len(x) + i] = yz[i]
  <2>1. \A t \in Seq(T) : /\ x \o t \in Seq(T) /\ Len(x \o t) = Len(x) + Len(t)
                          /\ \A i \in 1 .. Len(t) : (x \o t)[Len(x) + i] = t[i]
    BY ConcatAll
  <2> QED
    BY <1>2, <2>1
<1> HIDE DEF s
<1>4. ASSUME NEW i \in 1 .. Len(y) PROVE s[Len(x) + i] = y[i]
  <2>1. i \in 1 .. Len(yz)
    BY <1>1, <1>2
  <2> QED
    BY <1>2, <1>3, <2>1
<1>5. SubSeq(s, m, n) = y
  <2>1. m \in Int /\ n \in Int /\ n - m + 1 = Len(y)
        /\ \A i \in m .. n : s[i] \in T
    <3>1. \A i \in m .. n : i \in 1 .. Len(s)
      BY <1>1, <1>2, <1>3
    <3> QED
      BY <1>1, <1>3, <3>1, ElementOfSeq
  <2> HIDE DEF m, n
  <2>2. /\ SubSeq(s, m, n) \in Seq(T)
        /\ Len(SubSeq(s, m, n)) = IF m <= n THEN n - m + 1 ELSE 0
        /\ \A i \in 1 .. n - m + 1 : SubSeq(s, m, n)[i] = s[m + i - 1]
    BY <2>1, SubSeqProperties
  <2>3. Len(SubSeq(s, m, n)) = Len(y)
    BY <1>1, <2>1, <2>2
  <2>4. ASSUME NEW i \in 1 .. Len(y) PROVE SubSeq(s, m, n)[i] = y[i]
    <3>1. m + i - 1 = Len(x) + i
      BY <1>1 DEF m
    <3> QED
      BY <1>4, <2>1, <2>2, <3>1
  <2> QED
    BY <2>2, <2>3, <2>4, SeqEqual
<1> QED
  <2>1. Len(s) = Len(x) + Len(y) + Len(z)
    BY <1>1, <1>2, <1>3
  <2> HIDE DEF m, n
  <2>2. /\ s \in Seq(T) /\ Len(s) = Len(x) + Len(y) + Len(z)
        /\ \A i \in 1 .. Len(y) : s[Len(x) + i] = y[i]
        /\ SubSeq(s, m, n) = y
    BY <1>3, <1>4, <1>5, <2>1, Zenon
  <2> QED
    BY <2>2, Zenon DEF s, yz, m, n

\* Where the k-th sequence ends in the flattened one.
Ends(seqs, k) == Len(FlattenSeq(SubSeq(seqs, 1, k)))

LEMMA EndsBounds ==
  ASSUME NEW T, NEW seqs \in Seq(Seq(T))
  PROVE  Ends(seqs, 0) = 0 /\ Ends(seqs, Len(seqs)) = Len(FlattenSeq(seqs))
<1>1. SubSeq(seqs, 1, 0) = <<>> /\ SubSeq(seqs, 1, Len(seqs)) = seqs
  BY SubSeqEmpty, SubSeqFull
<1>2. FlattenSeq(SubSeq(seqs, 1, 0)) = <<>> /\ Len(<<>>) = 0
  BY <1>1, FlattenEmpty
<1>3. FlattenSeq(SubSeq(seqs, 1, Len(seqs))) = FlattenSeq(seqs)
  BY <1>1
<1> QED
  BY <1>2, <1>3 DEF Ends

LEMMA FlattenAt ==
  ASSUME NEW T, NEW seqs \in Seq(Seq(T)), NEW k \in 0 .. Len(seqs) - 1
  PROVE  LET flat == FlattenSeq(seqs)
             piece == seqs[k + 1]
         IN  /\ flat \in Seq(T) /\ Len(flat) \in Nat
             /\ piece \in Seq(T) /\ Len(piece) \in Nat
             /\ Ends(seqs, k) \in Nat
             /\ Ends(seqs, k + 1) = Ends(seqs, k) + Len(piece)
             /\ Ends(seqs, k + 1) <= Len(flat)
             /\ \A i \in 1 .. Len(piece) : flat[Ends(seqs, k) + i] = piece[i]
<1> DEFINE S == Seq(T)
           piece == seqs[k + 1]
           before == SubSeq(seqs, 1, k)
           upto == SubSeq(seqs, 1, k + 1)
           after == SubSeq(seqs, k + 2, Len(seqs))
<1>1. Len(seqs) \in Nat /\ k \in Nat /\ k + 1 \in 1 .. Len(seqs)
      /\ \A i \in 1 .. Len(seqs) : seqs[i] \in S
  <2>1. \A i \in 1 .. Len(seqs) : seqs[i] \in Seq(T)
    BY ElementOfSeq
  <2> QED
    BY <2>1, LenProperties
<1> HIDE DEF S
<1>2. before \in Seq(S) /\ upto \in Seq(S) /\ after \in Seq(S) /\ piece \in S
  <2>1. /\ \A i \in 1 .. k : seqs[i] \in S
        /\ \A i \in 1 .. k + 1 : seqs[i] \in S
        /\ \A i \in k + 2 .. Len(seqs) : seqs[i] \in S
    BY <1>1
  <2> QED
    BY <1>1, <2>1, SubSeqProperties
<1>3. upto = before \o <<piece>>
  <2>1. /\ 1 \in 1 .. Len(seqs) /\ k + 1 \in 1 .. Len(seqs) /\ (k + 1) - 1 = k
        /\ seqs \in Seq(S)
    BY <1>1 DEF S
  <2>2. SubSeq(seqs, 1, k + 1) = SubSeq(seqs, 1, (k + 1) - 1) \o <<seqs[k + 1]>>
    BY <2>1, SubSeqRecursiveSecond
  <2> QED
    BY <2>1, <2>2
<1>4. seqs = upto \o after
  <2>1. /\ 1 \in 1 .. Len(seqs) + 1 /\ k + 1 \in 1 - 1 .. Len(seqs)
        /\ Len(seqs) \in k + 1 .. Len(seqs) /\ (k + 1) + 1 = k + 2
        /\ seqs \in Seq(S)
    BY <1>1 DEF S
  <2>2. SubSeq(seqs, 1, k + 1) \o SubSeq(seqs, (k + 1) + 1, Len(seqs))
          = SubSeq(seqs, 1, Len(seqs))
    BY <2>1, ConcatAdjacentSubSeq
  <2> QED
    BY <2>1, <2>2, SubSeqFull
<1> HIDE DEF before, upto, after, piece
<1> DEFINE b == FlattenSeq(before)
           a == FlattenSeq(after)
<1>5. b \in Seq(T) /\ a \in Seq(T) /\ piece \in Seq(T)
  BY <1>2, FlattenType DEF S
<1>6. FlattenSeq(upto) = b \o piece
  <2>1. upto = Append(before, piece)
    BY <1>2, <1>3, AppendIsConcat
  <2> QED
    BY <1>2, <2>1, FlattenAppend DEF S
<1>7. FlattenSeq(seqs) = FlattenSeq(upto) \o a
  BY <1>2, <1>4, FlattenConcat DEF S
<1>8. FlattenSeq(seqs) = b \o (piece \o a)
  <2> HIDE DEF a, b
  <2>1. Regroups(b, piece, a)
    BY <1>5, ConcatRegroups
  <2> QED
    BY <1>6, <1>7, <2>1 DEF Regroups
<1>9. Ends(seqs, k) = Len(b) /\ Ends(seqs, k + 1) = Len(b \o piece)
  BY <1>6 DEF Ends, before, upto
<1> HIDE DEF a, b
<1>10. Len(b) \in Nat /\ Len(a) \in Nat /\ Len(piece) \in Nat
       /\ Len(b \o piece) = Len(b) + Len(piece)
  BY <1>5, LenProperties, ConcatProperties
<1>11. /\ FlattenSeq(seqs) \in Seq(T)
       /\ Len(FlattenSeq(seqs)) = Len(b) + Len(piece) + Len(a)
       /\ \A i \in 1 .. Len(piece) : FlattenSeq(seqs)[Len(b) + i] = piece[i]
  BY <1>5, <1>8, Middle
<1> QED
  BY <1>5, <1>9, <1>10, <1>11 DEF piece

-----------------------------------------------------------------------------
(* Readers: functions that read an item and go on behind it *)

Reads(f, n, stop, item, next) ==
    f = [pos \in 0 .. n |-> IF pos \in stop THEN <<>>
                            ELSE <<item[pos]>> \o f[next[pos]]]

LEMMA ReaderExists ==
  ASSUME NEW n \in Nat, NEW stop, NEW item, NEW next,
         \A pos \in (0 .. n) \ stop : next[pos] \in pos + 1 .. n
  PROVE  \E f : Reads(f, n, stop, item, next)
<1> DEFINE After(g, pos) == IF pos \in stop THEN <<>>
                            ELSE <<item[pos]>> \o g[next[pos]]
           Good(g, k) == /\ g = [pos \in 0 .. n |-> g[pos]]
                         /\ \A pos \in 0 .. n : pos + k > n => g[pos] = After(g, pos)
           Sizes == {k \in Nat : \E g : Good(g, k)}
<1>1. 0 \in Sizes
  <2>1. Good([pos \in 0 .. n |-> <<>>], 0)
    OBVIOUS
  <2> QED
    BY <2>1
<1>2. ASSUME NEW k \in Nat, k \in Sizes PROVE k + 1 \in Sizes
  <2>1. PICK g : Good(g, k)
    BY <1>2
  <2> DEFINE h == [pos \in 0 .. n |-> IF pos + k = n THEN After(g, pos) ELSE g[pos]]
  <2>2. /\ h = [pos \in 0 .. n |-> h[pos]]
        /\ \A pos \in 0 .. n : h[pos] = IF pos + k = n THEN After(g, pos) ELSE g[pos]
    OBVIOUS
  <2> HIDE DEF h
  <2>3. ASSUME NEW pos \in 0 .. n, pos + (k + 1) > n
        PROVE  h[pos] = After(h, pos)
    <3>1. After(h, pos) = After(g, pos)
      <4>1. CASE pos \in stop
        BY <4>1
      <4>2. CASE pos \notin stop
        <5>1. next[pos] \in 0 .. n /\ next[pos] + k # n
          <6>1. next[pos] \in pos + 1 .. n
            BY <4>2
          <6> QED
            BY <2>3, <6>1
        <5>2. h[next[pos]] = g[next[pos]]
          BY <2>2, <5>1
        <5> QED
          BY <5>2
      <4> QED
        BY <4>1, <4>2
    <3>2. CASE pos + k = n
      BY <2>2, <3>1, <3>2
    <3>3. CASE pos + k # n
      <4>1. pos + k > n
        BY <2>3, <3>3
      <4> QED
        BY <2>1, <2>2, <3>1, <3>3, <4>1
    <3> QED
      BY <3>2, <3>3
  <2>4. Good(h, k + 1)
    BY <2>2, <2>3
  <2> HIDE DEF Good
  <2> QED
    BY <2>4
<1>3. n + 1 \in Sizes
  <2> HIDE DEF Sizes
  <2> QED
    BY <1>1, <1>2, NatSetInduction
<1>4. PICK g : Good(g, n + 1)
  BY <1>3
<1>5. \A pos \in 0 .. n : pos + (n + 1) > n
  OBVIOUS
<1>6. \A pos \in 0 .. n : g[pos] = After(g, pos)
  BY <1>4, <1>5
<1>7. g = [pos \in 0 .. n |-> After(g, pos)]
  BY <1>4, <1>6
<1> QED
  BY <1>7 DEF Reads

\* It finds every item, one behind the other; at says where.
Finds(n, stop, item, next, items, at) ==
    /\ n \in Nat /\ n \in stop
    /\ at[0] = 0 /\ at[Len(items)] = n
    /\ \A k \in 0 .. Len(items) - 1 :
         /\ at[k] \in (0 .. n) \ stop
         /\ item[at[k]] = items[k + 1]
         /\ next[at[k]] = at[k + 1]

\* Then it gives all of them.
LEMMA ReaderReads ==
  ASSUME NEW n, NEW stop, NEW item, NEW next, NEW f, NEW T, NEW items \in Seq(T),
         NEW at, Reads(f, n, stop, item, next),
         Finds(n, stop, item, next, items, at)
  PROVE  f[0] = items
<1> USE DEF Finds
<1> DEFINE L == Len(items)
           Good == {k \in Nat : k <= L => f[at[L - k]] = SubSeq(items, L - k + 1, L)}
<1>1. L \in Nat
  BY LenProperties
<1>2. 0 \in Good
  <2>1. f[n] = <<>>
    BY DEF Reads
  <2>2. SubSeq(items, L + 1, L) = <<>>
    BY <1>1, SubSeqEmpty
  <2>3. L - 0 = L
    BY <1>1
  <2> QED
    BY <2>1, <2>2, <2>3
<1>3. ASSUME NEW k \in Nat, k \in Good PROVE k + 1 \in Good
  <2> SUFFICES ASSUME k + 1 <= L
               PROVE  f[at[L - (k + 1)]] = SubSeq(items, L - (k + 1) + 1, L)
    OBVIOUS
  <2> DEFINE j == L - (k + 1)
  <2>1. /\ j \in 0 .. L - 1 /\ j + 1 = L - k /\ j + 1 \in 1 .. L
        /\ L \in j + 1 .. L /\ L - k + 1 = (j + 1) + 1
    BY <1>1
  <2>2. f[at[L - k]] = SubSeq(items, L - k + 1, L)
    BY <1>3
  <2> HIDE DEF j
  <2>3. f[at[j + 1]] = SubSeq(items, (j + 1) + 1, L)
    BY <2>1, <2>2
  <2>4. /\ at[j] \in (0 .. n) \ stop /\ item[at[j]] = items[j + 1]
        /\ next[at[j]] = at[j + 1]
    BY <2>1
  <2>5. f[at[j]] = <<item[at[j]]>> \o f[next[at[j]]]
    BY <2>4 DEF Reads
  <2>6. f[at[j]] = <<items[j + 1]>> \o SubSeq(items, (j + 1) + 1, L)
    BY <2>3, <2>4, <2>5
  <2>7. SubSeq(items, j + 1, L) = <<items[j + 1]>> \o SubSeq(items, (j + 1) + 1, L)
    <3> DEFINE i == j + 1
    <3>1. i \in 1 .. Len(items) /\ L \in i .. Len(items)
      BY <2>1
    <3> HIDE DEF i
    <3>2. SubSeq(items, i, L) = <<items[i]>> \o SubSeq(items, i + 1, L)
      BY <3>1, SubSeqRecursiveFirst
    <3> QED
      BY <3>2 DEF i
  <2> QED
    BY <2>6, <2>7 DEF j
<1> HIDE DEF Good
<1>4. L \in Good
  BY <1>1, <1>2, <1>3, NatSetInduction
<1>5. f[at[L - L]] = SubSeq(items, L - L + 1, L)
  BY <1>1, <1>4 DEF Good
<1>6. L - L = 0 /\ L - L + 1 = 1
  BY <1>1
<1> QED
  BY <1>5, <1>6, SubSeqFull

-----------------------------------------------------------------------------
(* Prefixes: what is written is what is read *)

Written(prefixes) == [i \in DOMAIN prefixes |-> EncodePrefix(prefixes[i])]

LEMMA PrefixWritten ==
  ASSUME NEW prefix \in IPv4Prefix
  PROVE  LET piece == EncodePrefix(prefix)
             count == OctetsFor(prefix.bits)
         IN  /\ piece \in Seq(Byte) /\ count \in 0 .. 4 /\ Len(piece) = 1 + count
             /\ piece[1] = prefix.bits
             /\ \A i \in 1 .. count : piece[1 + i] = prefix.octets[i]
<1> DEFINE count == OctetsFor(prefix.bits)
           b == <<prefix.bits>>
           o == SubSeq(prefix.octets, 1, count)
           B == Byte
<1>1. prefix.bits \in 0 .. 32 /\ prefix.octets \in [1 .. 4 -> B]
  BY DEF IPv4Prefix
<1>2. count \in 0 .. 4
  BY <1>1 DEF OctetsFor
<1>3. b \in Seq(B) /\ Len(b) = 1 /\ b[1] = prefix.bits
  <2>1. prefix.bits \in B
    BY <1>1 DEF Byte
  <2> HIDE DEF B
  <2> QED
    BY <2>1
<1> HIDE DEF count, B
<1>4. /\ o \in Seq(B) /\ Len(o) = count
      /\ \A i \in 1 .. count : o[i] = prefix.octets[i]
  <2>1. \A i \in 1 .. count : prefix.octets[i] \in B
    BY <1>1, <1>2
  <2>2. 1 \in Int /\ count \in Int /\ count - 1 + 1 = count
    BY <1>2
  <2>3. /\ o \in Seq(B) /\ Len(o) = IF 1 <= count THEN count - 1 + 1 ELSE 0
        /\ \A i \in 1 .. count - 1 + 1 : o[i] = prefix.octets[1 + i - 1]
    BY <2>1, <2>2, SubSeqProperties
  <2>4. \A i \in 1 .. count : 1 + i - 1 = i
    BY <1>2
  <2> QED
    BY <1>2, <2>2, <2>3, <2>4
<1>5. EncodePrefix(prefix) = b \o o
  BY DEF EncodePrefix, count
<1> HIDE DEF b, o
<1>6. /\ b \o o \in Seq(B) /\ Len(b \o o) = 1 + count
      /\ (b \o o)[1] = b[1]
      /\ \A i \in 1 .. count : (b \o o)[1 + i] = o[i]
  <2>1. /\ b \o o \in Seq(B) /\ Len(b \o o) = Len(b) + Len(o)
        /\ \A i \in 1 .. Len(b) : (b \o o)[i] = b[i]
        /\ \A i \in 1 .. Len(o) : (b \o o)[Len(b) + i] = o[i]
    <3>1. \A x, y \in Seq(B) :
            /\ x \o y \in Seq(B) /\ Len(x \o y) = Len(x) + Len(y)
            /\ \A i \in 1 .. Len(x) : (x \o y)[i] = x[i]
            /\ \A i \in 1 .. Len(y) : (x \o y)[Len(x) + i] = y[i]
      BY ConcatAll
    <3> QED
      BY <1>3, <1>4, <3>1
  <2> QED
    BY <1>3, <1>4, <2>1
<1> QED
  BY <1>2, <1>3, <1>4, <1>5, <1>6 DEF count, B

LEMMA WrittenType ==
  ASSUME NEW prefixes \in Seq(IPv4Prefix)
  PROVE  /\ Written(prefixes) \in Seq(Seq(Byte))
         /\ Len(Written(prefixes)) = Len(prefixes) /\ Len(prefixes) \in Nat
         /\ \A i \in 1 .. Len(prefixes) :
              /\ prefixes[i] \in IPv4Prefix
              /\ Written(prefixes)[i] = EncodePrefix(prefixes[i])
<1>1. /\ DOMAIN prefixes = 1 .. Len(prefixes) /\ Len(prefixes) \in Nat
      /\ \A i \in DOMAIN prefixes : prefixes[i] \in IPv4Prefix
  BY LenProperties, ElementOfSeq
<1> DEFINE S == Seq(Byte)
<1>2. \A i \in DOMAIN prefixes : EncodePrefix(prefixes[i]) \in S
  BY <1>1, PrefixWritten
<1> HIDE DEF S
<1>3. Written(prefixes) \in [1 .. Len(prefixes) -> S]
  BY <1>1, <1>2 DEF Written
<1>4. Written(prefixes) \in Seq(S) /\ Len(Written(prefixes)) = Len(prefixes)
  BY <1>1, <1>3
<1> QED
  BY <1>1, <1>4 DEF S, Written

\* f is the function that ParseNlri(data) defines.
NlriReads(f, data) ==
    f = [pos \in 0 .. Len(data) |->
           IF \/ pos = Len(data)
              \/ pos + 1 + OctetsFor(data[pos + 1]) > Len(data)
           THEN <<>>
           ELSE LET bits == data[pos + 1]
                    octets == OctetsFor(bits)
                IN  <<PrefixOf(bits, Slice(data, pos + 1, octets))>>
                      \o f[pos + 1 + octets]]

NlriStops(data) ==
    {pos \in 0 .. Len(data) : \/ pos = Len(data)
                              \/ pos + 1 + OctetsFor(data[pos + 1]) > Len(data)}
NlriItem(data) ==
    [pos \in 0 .. Len(data) |->
        PrefixOf(data[pos + 1], Slice(data, pos + 1, OctetsFor(data[pos + 1])))]
NlriNext(data) ==
    [pos \in 0 .. Len(data) |-> pos + 1 + OctetsFor(data[pos + 1])]

LEMMA NlriIsReader ==
  ASSUME NEW data, Len(data) \in Nat, NEW f
  PROVE  NlriReads(f, data) <=>
           Reads(f, Len(data), NlriStops(data), NlriItem(data), NlriNext(data))
<1> DEFINE A(pos) == IF \/ pos = Len(data)
                        \/ pos + 1 + OctetsFor(data[pos + 1]) > Len(data)
                     THEN <<>>
                     ELSE <<PrefixOf(data[pos + 1],
                                     Slice(data, pos + 1, OctetsFor(data[pos + 1])))>>
                            \o f[pos + 1 + OctetsFor(data[pos + 1])]
           B(pos) == IF pos \in NlriStops(data) THEN <<>>
                     ELSE <<NlriItem(data)[pos]>> \o f[NlriNext(data)[pos]]
<1>1. ASSUME NEW pos \in 0 .. Len(data) PROVE A(pos) = B(pos)
  <2>1. pos \in NlriStops(data) <=> \/ pos = Len(data)
                                    \/ pos + 1 + OctetsFor(data[pos + 1]) > Len(data)
    BY DEF NlriStops
  <2>2. /\ NlriItem(data)[pos]
             = PrefixOf(data[pos + 1], Slice(data, pos + 1, OctetsFor(data[pos + 1])))
        /\ NlriNext(data)[pos] = pos + 1 + OctetsFor(data[pos + 1])
    BY DEF NlriItem, NlriNext
  <2> QED
    BY <2>1, <2>2
<1>2. NlriReads(f, data) <=> f = [pos \in 0 .. Len(data) |-> A(pos)]
  BY DEF NlriReads
<1>3. Reads(f, Len(data), NlriStops(data), NlriItem(data), NlriNext(data))
        <=> f = [pos \in 0 .. Len(data) |-> B(pos)]
  BY DEF Reads
<1>4. [pos \in 0 .. Len(data) |-> A(pos)] = [pos \in 0 .. Len(data) |-> B(pos)]
  <2> DEFINE a == [pos \in 0 .. Len(data) |-> A(pos)]
             b == [pos \in 0 .. Len(data) |-> B(pos)]
  <2>1. \A pos \in 0 .. Len(data) : a[pos] = A(pos) /\ b[pos] = B(pos)
    OBVIOUS
  <2>2. /\ a = [pos \in 0 .. Len(data) |-> a[pos]]
        /\ b = [pos \in 0 .. Len(data) |-> b[pos]]
    OBVIOUS
  <2>3. \A pos \in 0 .. Len(data) : a[pos] = b[pos]
    BY <1>1, <2>1
  <2> HIDE DEF a, b
  <2>4. a = b
    BY <2>2, <2>3
  <2> QED
    BY <2>4 DEF a, b
<1> HIDE DEF A, B
<1> QED
  BY <1>2, <1>3, <1>4

LEMMA NlriDefined ==
  ASSUME NEW data \in Seq(Byte)
  PROVE  \E f : /\ Reads(f, Len(data), NlriStops(data), NlriItem(data), NlriNext(data))
                /\ ParseNlri(data) = f[0]
<1>1. Len(data) \in Nat /\ \A i \in 1 .. Len(data) : data[i] \in Byte
  BY LenProperties, ElementOfSeq
<1>2. ASSUME NEW pos \in (0 .. Len(data)) \ NlriStops(data)
      PROVE  NlriNext(data)[pos] \in pos + 1 .. Len(data)
  <2>1. /\ pos \in 0 .. Len(data) /\ pos # Len(data)
        /\ ~(pos + 1 + OctetsFor(data[pos + 1]) > Len(data))
        /\ NlriNext(data)[pos] = pos + 1 + OctetsFor(data[pos + 1])
    BY DEF NlriStops, NlriNext
  <2>2. data[pos + 1] \in Byte
    BY <1>1, <2>1
  <2>3. OctetsFor(data[pos + 1]) \in Nat
    BY <2>2 DEF OctetsFor, Byte
  <2> QED
    BY <1>1, <2>1, <2>3
<1>3. \E f : NlriReads(f, data)
  <2>1. \E f : Reads(f, Len(data), NlriStops(data), NlriItem(data), NlriNext(data))
    BY <1>1, <1>2, ReaderExists
  <2> QED
    BY <1>1, <2>1, NlriIsReader
<1> DEFINE f == CHOOSE f : NlriReads(f, data)
<1>4. NlriReads(f, data)
  BY <1>3
<1>5. ParseNlri(data) = f[0]
  BY DEF ParseNlri, NlriReads
<1> HIDE DEF f
<1> QED
  BY <1>1, <1>4, <1>5, NlriIsReader

\* The prefix that is read is the prefix that was written.
LEMMA PrefixRead ==
  ASSUME NEW prefix \in IPv4Prefix, NEW bytes,
         Len(bytes) = OctetsFor(prefix.bits),
         \A i \in 1 .. OctetsFor(prefix.bits) : bytes[i] = prefix.octets[i]
  PROVE  PrefixOf(prefix.bits, bytes) = prefix
<1>1. /\ prefix = [bits |-> prefix.bits, octets |-> prefix.octets]
      /\ prefix.bits \in 0 .. 32
      /\ prefix.octets = [i \in 1 .. 4 |-> prefix.octets[i]]
      /\ \A i \in 1 .. 4 : i > OctetsFor(prefix.bits) => prefix.octets[i] = 0
  BY DEF IPv4Prefix
<1>2. OctetsFor(prefix.bits) \in 0 .. 4
  BY PrefixWritten
<1>3. \A i \in 1 .. 4 : (IF i <= Len(bytes) THEN bytes[i] ELSE 0) = prefix.octets[i]
  BY <1>1, <1>2
<1>4. [i \in 1 .. 4 |-> IF i <= Len(bytes) THEN bytes[i] ELSE 0] = prefix.octets
  BY <1>1, <1>3
<1> DEFINE Read(b) == [bits |-> b,
                       octets |-> [i \in 1 .. 4 |->
                                     IF i <= Len(bytes) THEN bytes[i] ELSE 0]]
<1>5. PrefixOf(prefix.bits, bytes) = Read(prefix.bits)
  <2>1. ASSUME NEW b \in 0 .. 32 PROVE PrefixOf(b, bytes) = Read(b)
    <3>1. (IF b <= 32 THEN 4 ELSE 16) = 4
      OBVIOUS
    <3> QED
      BY <3>1, Zenon DEF PrefixOf
  <2>2. prefix.bits \in 0 .. 32
    BY <1>1
  <2> HIDE DEF Read
  <2> QED
    BY <2>1, <2>2
<1> QED
  BY <1>1, <1>4, <1>5

LEMMA NlriRead ==
  ASSUME NEW prefixes \in Seq(IPv4Prefix)
  PROVE  /\ FlattenSeq(Written(prefixes)) \in Seq(Byte)
         /\ ParseNlri(FlattenSeq(Written(prefixes))) = prefixes
<1> DEFINE pieces == Written(prefixes)
           data == FlattenSeq(pieces)
           n == Len(data)
           at == [k \in 0 .. Len(prefixes) |-> Ends(pieces, k)]
<1>1. /\ pieces \in Seq(Seq(Byte)) /\ Len(pieces) = Len(prefixes)
      /\ Len(prefixes) \in Nat
      /\ \A i \in 1 .. Len(prefixes) :
           prefixes[i] \in IPv4Prefix /\ pieces[i] = EncodePrefix(prefixes[i])
  BY WrittenType
<1> HIDE DEF pieces
<1>2. data \in Seq(Byte) /\ n \in Nat
  BY <1>1, FlattenType, LenProperties
<1>3. PICK f : /\ Reads(f, n, NlriStops(data), NlriItem(data), NlriNext(data))
               /\ ParseNlri(data) = f[0]
  BY <1>2, NlriDefined
<1>4. at[0] = 0 /\ at[Len(prefixes)] = n
  BY <1>1, EndsBounds
<1>5. n \in NlriStops(data)
  BY <1>2 DEF NlriStops
<1>6. ASSUME NEW k \in 0 .. Len(prefixes) - 1
      PROVE  /\ at[k] \in (0 .. n) \ NlriStops(data)
             /\ NlriItem(data)[at[k]] = prefixes[k + 1]
             /\ NlriNext(data)[at[k]] = at[k + 1]
  <2> DEFINE prefix == prefixes[k + 1]
             piece == pieces[k + 1]
             pos == Ends(pieces, k)
             count == OctetsFor(prefix.bits)
  <2>1. prefix \in IPv4Prefix /\ piece = EncodePrefix(prefix)
        /\ at[k] = pos /\ at[k + 1] = Ends(pieces, k + 1)
    BY <1>1
  <2>2. /\ pos \in Nat /\ Ends(pieces, k + 1) = pos + Len(piece)
        /\ Ends(pieces, k + 1) <= n
        /\ \A i \in 1 .. Len(piece) : data[pos + i] = piece[i]
    BY <1>1, FlattenAt
  <2> HIDE DEF prefix, piece, pos, data, n, at
  <2>3. /\ count \in 0 .. 4 /\ Len(piece) = 1 + count
        /\ piece[1] = prefix.bits
        /\ \A i \in 1 .. count : piece[1 + i] = prefix.octets[i]
    BY <2>1, PrefixWritten
  <2> HIDE DEF count
  <2>4. data[pos + 1] = prefix.bits
    BY <2>2, <2>3
  <2>5. OctetsFor(data[pos + 1]) = count /\ at[k + 1] = pos + 1 + count
    BY <2>1, <2>2, <2>3, <2>4 DEF count
  <2>6. pos \in 0 .. n /\ pos # n /\ ~(pos + 1 + count > n)
    BY <1>2, <2>2, <2>3
  <2>7. pos \notin NlriStops(data)
    BY <2>5, <2>6 DEF NlriStops, n
  <2>8. NlriNext(data)[pos] = pos + 1 + count
    BY <2>5, <2>6 DEF NlriNext, n
  <2> DEFINE bytes == Slice(data, pos + 1, count)
  <2>9. NlriItem(data)[pos] = PrefixOf(prefix.bits, bytes)
    BY <2>4, <2>5, <2>6 DEF NlriItem, n
  <2>10. Len(bytes) = count /\ \A i \in 1 .. count : bytes[i] = prefix.octets[i]
    <3> DEFINE lo == pos + 1 + 1
               hi == pos + 1 + count
    <3>1. bytes = SubSeq(data, lo, hi)
      BY DEF Slice
    <3>2. lo \in Int /\ hi \in Int /\ hi - lo + 1 = count
          /\ (lo <= hi <=> count # 0)
      BY <2>2, <2>3
    <3>3. \A i \in lo .. hi : data[i] \in Byte
      <4>1. \A i \in lo .. hi : i \in 1 .. Len(data)
        BY <1>2, <2>2, <2>3 DEF n
      <4> QED
        BY <1>2, <4>1, ElementOfSeq
    <3>4. \A i \in 1 .. count : lo + i - 1 = pos + (1 + i) /\ 1 + i \in 1 .. Len(piece)
      BY <2>2, <2>3
    <3> HIDE DEF lo, hi, bytes
    <3>5. /\ Len(SubSeq(data, lo, hi)) = IF lo <= hi THEN hi - lo + 1 ELSE 0
          /\ \A i \in 1 .. hi - lo + 1 : SubSeq(data, lo, hi)[i] = data[lo + i - 1]
      BY <3>2, <3>3, SubSeqProperties
    <3>6. Len(bytes) = count
      BY <2>3, <3>1, <3>2, <3>5
    <3>7. ASSUME NEW i \in 1 .. count PROVE bytes[i] = prefix.octets[i]
      <4>1. bytes[i] = data[lo + i - 1]
        BY <3>1, <3>2, <3>5
      <4>2. bytes[i] = data[pos + (1 + i)]
        BY <3>4, <4>1
      <4> QED
        BY <2>2, <2>3, <3>4, <4>2
    <3> QED
      BY <3>6, <3>7
  <2> HIDE DEF bytes
  <2>11. PrefixOf(prefix.bits, bytes) = prefix
    BY <2>1, <2>10, PrefixRead DEF count
  <2> QED
    BY <2>1, <2>5, <2>6, <2>7, <2>8, <2>9, <2>11 DEF prefix
<1> HIDE DEF n, at, data
<1>7. f[0] = prefixes
  <2> DEFINE stop == NlriStops(data)
             item == NlriItem(data)
             next == NlriNext(data)
  <2>1. /\ n \in Nat /\ n \in stop /\ Reads(f, n, stop, item, next)
        /\ at[0] = 0 /\ at[Len(prefixes)] = n
        /\ \A k \in 0 .. Len(prefixes) - 1 :
             /\ at[k] \in (0 .. n) \ stop
             /\ item[at[k]] = prefixes[k + 1]
             /\ next[at[k]] = at[k + 1]
    BY <1>2, <1>3, <1>4, <1>5, <1>6
  <2> HIDE DEF stop, item, next
  <2>2. Reads(f, n, stop, item, next) /\ Finds(n, stop, item, next, prefixes, at)
    BY <2>1 DEF Finds
  <2> QED
    BY <2>2, ReaderReads
<1> QED
  BY <1>2, <1>3, <1>7 DEF data, pieces

-----------------------------------------------------------------------------
(* Attributes: their types and values are what is hashed *)

Hashed(attrs) ==
    [i \in DOMAIN attrs |-> [type |-> attrs[i].type, value |-> attrs[i].value]]
WrittenAttrs(attrs) == [i \in DOMAIN attrs |-> EncodeAttr(attrs[i])]
HeaderOf(attr) == IF attr.extended THEN 4 ELSE 3

LEMMA TwoBytes ==
  ASSUME NEW n \in Word
  PROVE  /\ Bytes(n) \in Seq(Byte) /\ Len(Bytes(n)) = 2
         /\ Bytes(n)[1] \in Byte /\ Bytes(n)[2] \in Byte
         /\ U16(Bytes(n)[1], Bytes(n)[2]) = n
<1> DEFINE high == n \div 256
           low == n % 256
<1>1. high \in Byte /\ low \in Byte
  BY DEF Word, Byte
<1>2. 256 * high + low = n
  BY DEF Word
<1>3. Bytes(n) = <<high, low>>
  BY DEF Bytes
<1> HIDE DEF high, low
<1> QED
  BY <1>1, <1>2, <1>3 DEF U16

LEMMA AttrWritten ==
  ASSUME NEW attr \in Attribute
  PROVE  LET piece == EncodeAttr(attr)
             count == Len(attr.value)
         IN  /\ piece \in Seq(Byte) /\ count \in Nat
             /\ Len(piece) = HeaderOf(attr) + count
             /\ (piece[1] \div 16) % 2 = 1 <=> attr.extended
             /\ piece[2] = attr.type
             /\ attr.extended => U16(piece[3], piece[4]) = count
             /\ ~attr.extended => piece[3] = count
             /\ \A i \in 1 .. count : piece[HeaderOf(attr) + i] = attr.value[i]
<1> DEFINE v == attr.value
           t == attr.type
           x == attr.extended
           count == Len(v)
           h == HeaderOf(attr)
           b == IF x THEN <<80, t>> \o Bytes(count) ELSE <<64, t, count>>
<1>1. /\ v \in Seq(Byte) /\ t \in Byte /\ x \in BOOLEAN
      /\ count \in IF x THEN Word ELSE Byte
  BY DEF Attribute
<1>2. h = (IF x THEN 4 ELSE 3) /\ EncodeAttr(attr) = b \o v
  BY DEF HeaderOf, EncodeAttr
<1> HIDE DEF v, t, x, h
<1>3. count \in Nat
  BY <1>1, LenProperties
<1> HIDE DEF count
<1>4. /\ b \in Seq(Byte) /\ Len(b) = h
      /\ (b[1] \div 16) % 2 = 1 <=> x
      /\ b[2] = t
      /\ x => U16(b[3], b[4]) = count
      /\ ~x => b[3] = count
  <2>1. CASE x
    <3> DEFINE two == Bytes(count)
    <3>1. /\ two \in Seq(Byte) /\ Len(two) = 2 /\ U16(two[1], two[2]) = count
      BY <1>1, <2>1, TwoBytes
    <3>2. b = <<80, t>> \o two
      BY <2>1
    <3> HIDE DEF two
    <3>3. <<80, t>> \in Seq(Byte) /\ Len(<<80, t>>) = 2
          /\ <<80, t>>[1] = 80 /\ <<80, t>>[2] = t
      <4>1. 80 \in Byte
        BY DEF Byte
      <4> QED
        BY <1>1, <4>1
    <3>4. /\ b \in Seq(Byte) /\ Len(b) = 4
          /\ b[1] = 80 /\ b[2] = t /\ b[3] = two[1] /\ b[4] = two[2]
      <4> DEFINE start == <<80, t>>
      <4> HIDE DEF start, b
      <4>1. /\ start \o two \in Seq(Byte)
            /\ Len(start \o two) = Len(start) + Len(two)
            /\ \A i \in 1 .. Len(start) : (start \o two)[i] = start[i]
            /\ \A i \in 1 .. Len(two) : (start \o two)[Len(start) + i] = two[i]
        <5>1. \A p, q \in Seq(Byte) :
                /\ p \o q \in Seq(Byte) /\ Len(p \o q) = Len(p) + Len(q)
                /\ \A i \in 1 .. Len(p) : (p \o q)[i] = p[i]
                /\ \A i \in 1 .. Len(q) : (p \o q)[Len(p) + i] = q[i]
          BY ConcatAll
        <5> QED
          BY <3>1, <3>3, <5>1 DEF start
      <4>2. /\ Len(start) = 2 /\ start[1] = 80 /\ start[2] = t /\ b = start \o two
        BY <3>2, <3>3 DEF start
      <4>3. 1 \in 1 .. 2 /\ 2 \in 1 .. 2 /\ 2 + 1 = 3 /\ 2 + 2 = 4
        OBVIOUS
      <4> QED
        BY <3>1, <4>1, <4>2, <4>3
    <3>5. (80 \div 16) % 2 = 1
      OBVIOUS
    <3> HIDE DEF b
    <3> QED
      BY <1>2, <2>1, <3>1, <3>4, <3>5
  <2>2. CASE ~x
    <3>1. 64 \in Byte /\ (64 \div 16) % 2 = 0
      BY DEF Byte
    <3>2. b = <<64, t, count>> /\ count \in Byte
      BY <1>1, <2>2
    <3> HIDE DEF b
    <3>3. b \in Seq(Byte) /\ Len(b) = 3 /\ b[1] = 64 /\ b[2] = t /\ b[3] = count
      BY <1>1, <3>1, <3>2
    <3> QED
      BY <1>2, <2>2, <3>1, <3>3
  <2> QED
    BY <2>1, <2>2
<1> HIDE DEF b
<1>5. /\ b \o v \in Seq(Byte) /\ Len(b \o v) = h + count
      /\ \A i \in 1 .. h : (b \o v)[i] = b[i]
      /\ \A i \in 1 .. count : (b \o v)[h + i] = v[i]
  <2>1. \A p, q \in Seq(Byte) :
          /\ p \o q \in Seq(Byte) /\ Len(p \o q) = Len(p) + Len(q)
          /\ \A i \in 1 .. Len(p) : (p \o q)[i] = p[i]
          /\ \A i \in 1 .. Len(q) : (p \o q)[Len(p) + i] = q[i]
    BY ConcatAll
  <2> QED
    BY <1>1, <1>4, <2>1 DEF count
<1>6. /\ (b \o v)[1] = b[1] /\ (b \o v)[2] = b[2] /\ (b \o v)[3] = b[3]
      /\ x => (b \o v)[4] = b[4]
  <2>1. 1 \in 1 .. h /\ 2 \in 1 .. h /\ 3 \in 1 .. h /\ (x => 4 \in 1 .. h)
    BY <1>2
  <2> QED
    BY <1>5, <2>1
<1> QED
  BY <1>2, <1>3, <1>4, <1>5, <1>6 DEF v, t, x, count, h

\* f is the function that HashAttributes(data) defines.
AttrExtended(data, pos) == (data[pos + 1] \div 16) % 2 = 1
AttrHeader(data, pos) == IF AttrExtended(data, pos) THEN 4 ELSE 3
AttrLength(data, pos) ==
    IF AttrExtended(data, pos) THEN U16(data[pos + 3], data[pos + 4])
                               ELSE data[pos + 3]
AttrEnd(data, pos) ==
    IF pos + AttrHeader(data, pos) + AttrLength(data, pos) < Len(data)
    THEN pos + AttrHeader(data, pos) + AttrLength(data, pos) ELSE Len(data)
AttrReads(f, data) ==
    f = [pos \in 0 .. Len(data) |->
           IF pos + 3 > Len(data) \/ pos + AttrHeader(data, pos) > Len(data)
           THEN <<>>
           ELSE <<[type |-> data[pos + 2],
                   value |-> SubSeq(data, pos + AttrHeader(data, pos) + 1,
                                    AttrEnd(data, pos))]>>
                  \o f[AttrEnd(data, pos)]]

AttrStops(data) ==
    {pos \in 0 .. Len(data) :
        pos + 3 > Len(data) \/ pos + AttrHeader(data, pos) > Len(data)}
AttrItem(data) ==
    [pos \in 0 .. Len(data) |->
       [type |-> data[pos + 2],
        value |-> SubSeq(data, pos + AttrHeader(data, pos) + 1, AttrEnd(data, pos))]]
AttrNext(data) == [pos \in 0 .. Len(data) |-> AttrEnd(data, pos)]

LEMMA AttrIsReader ==
  ASSUME NEW data, Len(data) \in Nat, NEW f
  PROVE  AttrReads(f, data) <=>
           Reads(f, Len(data), AttrStops(data), AttrItem(data), AttrNext(data))
<1> DEFINE Item(pos) == [type |-> data[pos + 2],
                         value |-> SubSeq(data, pos + AttrHeader(data, pos) + 1,
                                          AttrEnd(data, pos))]
           A(pos) == IF pos + 3 > Len(data) \/ pos + AttrHeader(data, pos) > Len(data)
                     THEN <<>> ELSE <<Item(pos)>> \o f[AttrEnd(data, pos)]
           B(pos) == IF pos \in AttrStops(data) THEN <<>>
                     ELSE <<AttrItem(data)[pos]>> \o f[AttrNext(data)[pos]]
<1>1. ASSUME NEW pos \in 0 .. Len(data) PROVE A(pos) = B(pos)
  <2>1. pos \in AttrStops(data)
          <=> pos + 3 > Len(data) \/ pos + AttrHeader(data, pos) > Len(data)
    BY DEF AttrStops
  <2>2. AttrItem(data)[pos] = Item(pos) /\ AttrNext(data)[pos] = AttrEnd(data, pos)
    BY DEF AttrItem, AttrNext
  <2> QED
    BY <2>1, <2>2
<1>2. AttrReads(f, data) <=> f = [pos \in 0 .. Len(data) |-> A(pos)]
  BY DEF AttrReads
<1>3. Reads(f, Len(data), AttrStops(data), AttrItem(data), AttrNext(data))
        <=> f = [pos \in 0 .. Len(data) |-> B(pos)]
  BY DEF Reads
<1>4. [pos \in 0 .. Len(data) |-> A(pos)] = [pos \in 0 .. Len(data) |-> B(pos)]
  <2> DEFINE a == [pos \in 0 .. Len(data) |-> A(pos)]
             b == [pos \in 0 .. Len(data) |-> B(pos)]
  <2>1. \A pos \in 0 .. Len(data) : a[pos] = A(pos) /\ b[pos] = B(pos)
    OBVIOUS
  <2>2. /\ a = [pos \in 0 .. Len(data) |-> a[pos]]
        /\ b = [pos \in 0 .. Len(data) |-> b[pos]]
    OBVIOUS
  <2>3. \A pos \in 0 .. Len(data) : a[pos] = b[pos]
    BY <1>1, <2>1
  <2> HIDE DEF a, b
  <2>4. a = b
    BY <2>2, <2>3
  <2> QED
    BY <2>4 DEF a, b
<1> HIDE DEF A, B
<1> QED
  BY <1>2, <1>3, <1>4

LEMMA AttrDefined ==
  ASSUME NEW data \in Seq(Byte)
  PROVE  \E f : /\ Reads(f, Len(data), AttrStops(data), AttrItem(data), AttrNext(data))
                /\ HashAttributes(data) = ToBag(f[0])
<1>1. Len(data) \in Nat /\ \A i \in 1 .. Len(data) : data[i] \in Byte
  BY LenProperties, ElementOfSeq
<1>2. ASSUME NEW pos \in (0 .. Len(data)) \ AttrStops(data)
      PROVE  AttrNext(data)[pos] \in pos + 1 .. Len(data)
  <2>1. /\ pos \in 0 .. Len(data) /\ ~(pos + 3 > Len(data))
        /\ ~(pos + AttrHeader(data, pos) > Len(data))
        /\ AttrNext(data)[pos] = AttrEnd(data, pos)
    BY DEF AttrStops, AttrNext
  <2>2. AttrHeader(data, pos) \in {3, 4}
    BY DEF AttrHeader
  <2>3. AttrLength(data, pos) \in Nat
    <3>1. pos + 3 \in 1 .. Len(data)
      BY <1>1, <2>1
    <3>2. CASE AttrExtended(data, pos)
      <4>1. pos + 4 \in 1 .. Len(data)
        BY <1>1, <2>1, <3>2 DEF AttrHeader
      <4>2. data[pos + 3] \in Nat /\ data[pos + 4] \in Nat
        BY <1>1, <3>1, <4>1 DEF Byte
      <4> QED
        BY <3>2, <4>2 DEF AttrLength, U16
    <3>3. CASE ~AttrExtended(data, pos)
      <4>1. data[pos + 3] \in Nat
        BY <1>1, <3>1 DEF Byte
      <4> QED
        BY <3>3, <4>1 DEF AttrLength
    <3> QED
      BY <3>2, <3>3
  <2>4. AttrEnd(data, pos) \in pos + 1 .. Len(data)
    BY <1>1, <2>1, <2>2, <2>3 DEF AttrEnd
  <2> QED
    BY <2>1, <2>4
<1>3. \E f : AttrReads(f, data)
  <2>1. \E f : Reads(f, Len(data), AttrStops(data), AttrItem(data), AttrNext(data))
    BY <1>1, <1>2, ReaderExists
  <2> QED
    BY <1>1, <2>1, AttrIsReader
<1> DEFINE f == CHOOSE f : AttrReads(f, data)
<1>4. AttrReads(f, data)
  BY <1>3
<1>5. HashAttributes(data) = ToBag(f[0])
  BY DEF HashAttributes, AttrReads, AttrEnd, AttrLength, AttrHeader, AttrExtended
<1> HIDE DEF f
<1> QED
  BY <1>1, <1>4, <1>5, AttrIsReader

LEMMA WrittenAttrsType ==
  ASSUME NEW attrs \in Seq(Attribute)
  PROVE  /\ WrittenAttrs(attrs) \in Seq(Seq(Byte))
         /\ Len(WrittenAttrs(attrs)) = Len(attrs) /\ Len(attrs) \in Nat
         /\ Hashed(attrs) \in Seq([type : Byte, value : Seq(Byte)])
         /\ Len(Hashed(attrs)) = Len(attrs)
         /\ \A i \in 1 .. Len(attrs) :
              /\ attrs[i] \in Attribute
              /\ WrittenAttrs(attrs)[i] = EncodeAttr(attrs[i])
              /\ Hashed(attrs)[i] = [type |-> attrs[i].type, value |-> attrs[i].value]
<1>1. /\ DOMAIN attrs = 1 .. Len(attrs) /\ Len(attrs) \in Nat
      /\ \A i \in DOMAIN attrs : attrs[i] \in Attribute
  BY LenProperties, ElementOfSeq
<1> DEFINE S == Seq(Byte)
           H == [type : Byte, value : S]
           L == Len(attrs)
           Item(i) == [type |-> attrs[i].type, value |-> attrs[i].value]
<1>2. \A i \in DOMAIN attrs : EncodeAttr(attrs[i]) \in S
  BY <1>1, AttrWritten
<1>3. \A i \in DOMAIN attrs : attrs[i].type \in Byte /\ attrs[i].value \in S
  BY <1>1 DEF Attribute
<1> HIDE DEF S
<1>4. \A i \in DOMAIN attrs : Item(i) \in H
  BY <1>3
<1>5. /\ WrittenAttrs(attrs) = [i \in 1 .. L |-> EncodeAttr(attrs[i])]
      /\ Hashed(attrs) = [i \in 1 .. L |-> Item(i)]
  BY <1>1 DEF WrittenAttrs, Hashed
<1>6. \A i \in 1 .. L : attrs[i] \in Attribute
  BY <1>1
<1> HIDE DEF H, Item
<1>7. WrittenAttrs(attrs) \in [1 .. L -> S] /\ Hashed(attrs) \in [1 .. L -> H]
  BY <1>1, <1>2, <1>4, <1>5
<1> HIDE DEF L
<1>8. /\ WrittenAttrs(attrs) \in Seq(S) /\ Len(WrittenAttrs(attrs)) = L
      /\ Hashed(attrs) \in Seq(H) /\ Len(Hashed(attrs)) = L
  <2>1. L \in Nat
    BY <1>1 DEF L
  <2> QED
    BY <1>7, <2>1
<1>9. \A i \in 1 .. L : /\ WrittenAttrs(attrs)[i] = EncodeAttr(attrs[i])
                        /\ Hashed(attrs)[i] = Item(i)
  BY <1>5
<1> QED
  BY <1>1, <1>6, <1>8, <1>9 DEF S, H, L, Item

\* A piece of a sequence, given where it begins, is cut out of it by SubSeq.
LEMMA CutOut ==
  ASSUME NEW T, NEW s \in Seq(T), NEW pos \in Nat, NEW piece \in Seq(T),
         pos + Len(piece) <= Len(s),
         \A i \in 1 .. Len(piece) : s[pos + i] = piece[i]
  PROVE  SubSeq(s, pos + 1, pos + Len(piece)) = piece
<1> DEFINE lo == pos + 1
           hi == pos + Len(piece)
           cut == SubSeq(s, lo, hi)
           count == Len(piece)
<1>1. count \in Nat /\ Len(s) \in Nat
  BY LenProperties
<1>2. /\ lo \in Int /\ hi \in Int /\ hi - lo + 1 = count
      /\ lo <= hi <=> count # 0
      /\ \A i \in 1 .. count : lo + i - 1 = pos + i
  BY <1>1
<1>3. \A i \in lo .. hi : s[i] \in T
  <2>1. \A i \in lo .. hi : i \in 1 .. Len(s)
    BY <1>1
  <2> QED
    BY <2>1, ElementOfSeq
<1> HIDE DEF lo, hi
<1>4. /\ cut \in Seq(T)
      /\ Len(cut) = IF lo <= hi THEN hi - lo + 1 ELSE 0
      /\ \A i \in 1 .. hi - lo + 1 : cut[i] = s[lo + i - 1]
  BY <1>2, <1>3, SubSeqProperties
<1> HIDE DEF cut
<1>5. Len(cut) = count
  BY <1>1, <1>2, <1>4
<1>6. ASSUME NEW i \in 1 .. count PROVE cut[i] = piece[i]
  BY <1>2, <1>4
<1>7. cut = piece
  BY <1>4, <1>5, <1>6, SeqEqual
<1> QED
  BY <1>7 DEF cut, lo, hi

LEMMA AttrRead ==
  ASSUME NEW attrs \in Seq(Attribute)
  PROVE  LET data == FlattenSeq(WrittenAttrs(attrs))
         IN  data \in Seq(Byte) /\ HashAttributes(data) = ToBag(Hashed(attrs))
<1> DEFINE pieces == WrittenAttrs(attrs)
           data == FlattenSeq(pieces)
           n == Len(data)
           L == Len(attrs)
           at == [k \in 0 .. L |-> Ends(pieces, k)]
           H == [type : Byte, value : Seq(Byte)]
<1>1. /\ pieces \in Seq(Seq(Byte)) /\ Len(pieces) = L /\ L \in Nat
      /\ Hashed(attrs) \in Seq(H) /\ Len(Hashed(attrs)) = L
      /\ \A i \in 1 .. L :
           /\ attrs[i] \in Attribute /\ pieces[i] = EncodeAttr(attrs[i])
           /\ Hashed(attrs)[i] = [type |-> attrs[i].type, value |-> attrs[i].value]
  BY WrittenAttrsType
<1> HIDE DEF pieces, H
<1>2. data \in Seq(Byte) /\ n \in Nat
  BY <1>1, FlattenType, LenProperties
<1>3. PICK f : /\ Reads(f, n, AttrStops(data), AttrItem(data), AttrNext(data))
               /\ HashAttributes(data) = ToBag(f[0])
  BY <1>2, AttrDefined
<1>4. at[0] = 0 /\ at[L] = n
  BY <1>1, EndsBounds
<1>5. n \in AttrStops(data)
  BY <1>2 DEF AttrStops
<1>6. ASSUME NEW k \in 0 .. L - 1
      PROVE  /\ at[k] \in (0 .. n) \ AttrStops(data)
             /\ AttrItem(data)[at[k]] = Hashed(attrs)[k + 1]
             /\ AttrNext(data)[at[k]] = at[k + 1]
  <2> DEFINE attr == attrs[k + 1]
             piece == pieces[k + 1]
             pos == Ends(pieces, k)
             value == attr.value
             count == Len(value)
             h == HeaderOf(attr)
  <2>1. /\ attr \in Attribute /\ piece = EncodeAttr(attr)
        /\ at[k] = pos /\ at[k + 1] = Ends(pieces, k + 1)
        /\ Hashed(attrs)[k + 1] = [type |-> attr.type, value |-> value]
    BY <1>1
  <2>2. /\ pos \in Nat /\ Ends(pieces, k + 1) = pos + Len(piece)
        /\ Ends(pieces, k + 1) <= n
        /\ \A i \in 1 .. Len(piece) : data[pos + i] = piece[i]
    BY <1>1, FlattenAt
  <2> HIDE DEF attr, piece, pos, data, n, at
  <2>3. /\ count \in Nat /\ value \in Seq(Byte) /\ Len(piece) = h + count
        /\ (piece[1] \div 16) % 2 = 1 <=> attr.extended
        /\ piece[2] = attr.type
        /\ attr.extended => U16(piece[3], piece[4]) = count
        /\ ~attr.extended => piece[3] = count
        /\ \A i \in 1 .. count : piece[h + i] = value[i]
    BY <2>1, AttrWritten DEF Attribute
  <2>4. h = (IF attr.extended THEN 4 ELSE 3) /\ attr.extended \in BOOLEAN
    BY <2>1 DEF HeaderOf, Attribute
  <2> HIDE DEF value, count, h
  <2>5. /\ data[pos + 1] = piece[1] /\ data[pos + 2] = piece[2]
        /\ data[pos + 3] = piece[3]
        /\ attr.extended => data[pos + 4] = piece[4]
    <3>1. /\ 1 \in 1 .. Len(piece) /\ 2 \in 1 .. Len(piece) /\ 3 \in 1 .. Len(piece)
          /\ attr.extended => 4 \in 1 .. Len(piece)
      BY <2>3, <2>4
    <3> QED
      BY <2>2, <3>1
  <2>6. /\ AttrExtended(data, pos) <=> attr.extended
        /\ AttrHeader(data, pos) = h
        /\ AttrLength(data, pos) = count
    BY <2>3, <2>4, <2>5 DEF AttrExtended, AttrHeader, AttrLength
  <2>7. /\ pos \in 0 .. n /\ ~(pos + 3 > n) /\ ~(pos + h > n)
        /\ pos + h + count <= n /\ pos + h + count = Ends(pieces, k + 1)
        /\ pos \in Nat /\ h \in Nat /\ count \in Nat
    <3>1. pos \in Nat /\ Ends(pieces, k + 1) = pos + Len(piece)
          /\ Ends(pieces, k + 1) <= n
      BY <2>2
    <3>2. count \in Nat /\ Len(piece) = h + count
      BY <2>3
    <3> QED
      BY <1>2, <2>4, <3>1, <3>2
  <2>8. AttrEnd(data, pos) = pos + h + count
    <3>1. AttrEnd(data, pos) = IF pos + h + count < n THEN pos + h + count ELSE n
      BY <2>6 DEF AttrEnd, n
    <3> QED
      BY <1>2, <2>7, <3>1
  <2>9. pos \notin AttrStops(data)
    BY <2>6, <2>7 DEF AttrStops, n
  <2>10. AttrNext(data)[pos] = pos + h + count
    BY <2>7, <2>8 DEF AttrNext, n
  <2> DEFINE cut == SubSeq(data, pos + h + 1, pos + h + count)
  <2>11. AttrItem(data)[pos] = [type |-> attr.type, value |-> cut]
    <3>1. AttrItem(data)[pos] = [type |-> data[pos + 2],
                                 value |-> SubSeq(data, pos + h + 1, pos + h + count)]
      BY <2>6, <2>7, <2>8 DEF AttrItem, n
    <3> QED
      BY <2>3, <2>5, <3>1
  <2>12. cut = value
    <3> DEFINE start == pos + h
    <3>1. start \in Nat /\ start + Len(value) <= Len(data) /\ Len(value) = count
      BY <2>2, <2>3, <2>4, <2>7 DEF count, n
    <3>2. \A i \in 1 .. count : data[start + i] = value[i]
      <4>1. \A i \in 1 .. count : h + i \in 1 .. Len(piece) /\ start + i = pos + (h + i)
        BY <2>2, <2>3, <2>4
      <4> QED
        BY <2>2, <2>3, <4>1
    <3>3. cut = SubSeq(data, start + 1, start + Len(value))
      BY <3>1
    <3> HIDE DEF start, cut
    <3> QED
      BY <1>2, <2>3, <3>1, <3>2, <3>3, CutOut
  <2> QED
    BY <2>1, <2>7, <2>9, <2>10, <2>11, <2>12
<1> HIDE DEF n, at, data
<1>7. f[0] = Hashed(attrs)
  <2> DEFINE stop == AttrStops(data)
             item == AttrItem(data)
             next == AttrNext(data)
             items == Hashed(attrs)
  <2>1. /\ n \in Nat /\ n \in stop /\ Reads(f, n, stop, item, next)
        /\ at[0] = 0 /\ at[Len(items)] = n
        /\ \A k \in 0 .. Len(items) - 1 :
             /\ at[k] \in (0 .. n) \ stop
             /\ item[at[k]] = items[k + 1]
             /\ next[at[k]] = at[k + 1]
    BY <1>1, <1>2, <1>3, <1>4, <1>5, <1>6
  <2>2. items \in Seq(H)
    BY <1>1
  <2> HIDE DEF stop, item, next, items
  <2>3. Reads(f, n, stop, item, next) /\ Finds(n, stop, item, next, items, at)
    BY <2>1 DEF Finds
  <2>4. f[0] = items
    BY <2>1, <2>2, <2>3, ReaderReads
  <2> QED
    BY <2>4 DEF items
<1> QED
  BY <1>2, <1>3, <1>7 DEF data, pieces

-----------------------------------------------------------------------------
(* What is parsed is what was said *)

\* The bytes of a message before its length is known to be small.
Number == Nat

\* Stands for u = s \o t.  Hidden, it keeps provers from joining without end.
Joins(s, t, u) == u = s \o t

LEMMA BytesAreNumbers == Seq(Byte) \subseteq Seq(Number)
<1> SUFFICES ASSUME NEW s \in Seq(Byte) PROVE s \in Seq(Number)
  OBVIOUS
<1>1. Len(s) \in Nat /\ s \in [1 .. Len(s) -> Byte]
  BY LenProperties
<1>2. s \in [1 .. Len(s) -> Number]
  BY <1>1 DEF Byte, Number
<1> QED
  BY <1>1, <1>2

LEMMA Joined ==
  ASSUME NEW s \in Seq(Number), NEW t \in Seq(Number), NEW u, Joins(s, t, u)
  PROVE  /\ u \in Seq(Number)
         /\ Len(s) \in Nat /\ Len(t) \in Nat /\ Len(u) = Len(s) + Len(t)
         /\ \A i \in 1 .. Len(s) : u[i] = s[i]
         /\ \A i \in 1 .. Len(t) : u[Len(s) + i] = t[i]
<1>1. Len(s) \in Nat /\ Len(t) \in Nat
  BY LenProperties
<1>2. /\ s \o t \in Seq(Number) /\ Len(s \o t) = Len(s) + Len(t)
      /\ \A i \in 1 .. Len(s) : (s \o t)[i] = s[i]
      /\ \A i \in 1 .. Len(t) : (s \o t)[Len(s) + i] = t[i]
  BY ConcatAll
<1>3. u = s \o t
  BY DEF Joins
<1> QED
  BY <1>1, <1>2, <1>3

LEMMA JoinedOtherwise ==
  ASSUME NEW s \in Seq(Number), NEW t \in Seq(Number), NEW u \in Seq(Number),
         NEW st, NEW tu, NEW all,
         Joins(s, t, st), Joins(t, u, tu), Joins(st, u, all)
  PROVE  Joins(s, tu, all)
<1>1. (s \o t) \o u = s \o (t \o u)
  BY ConcatAssociative
<1> QED
  BY <1>1 DEF Joins

LEMMA CountBytes ==
  ASSUME NEW n \in Nat
  PROVE  Bytes(n) \in Seq(Number) /\ Len(Bytes(n)) = 2
<1> DEFINE high == n \div 256
           low == n % 256
<1>1. high \in Number /\ low \in Number /\ Bytes(n) = <<high, low>>
  BY DEF Bytes, Number
<1> HIDE DEF high, low
<1> QED
  BY <1>1

\* p is x, the length b of y, y and z.
Delimits(x, b, y, z, yz, byz, p) ==
    /\ b = Bytes(Len(y))
    /\ Joins(y, z, yz) /\ Joins(b, yz, byz) /\ Joins(x, byz, p)

\* A part that is written with its length is read.
LEMMA PartRead ==
  ASSUME NEW x \in Seq(Number), NEW y \in Seq(Number), NEW z \in Seq(Number),
         NEW b, NEW yz, NEW byz, NEW p,
         Len(y) \in Word, Delimits(x, b, y, z, yz, byz, p)
  PROVE  Part(p, Len(x)) = [data |-> y, next |-> Len(x) + 2 + Len(y)]
<1> DEFINE count == Len(y)
           pos == Len(x)
<1>1. count \in Nat /\ pos \in Nat /\ Len(z) \in Nat
  BY LenProperties
<1>2. b \in Seq(Number) /\ Len(b) = 2 /\ U16(b[1], b[2]) = count
  BY <1>1, CountBytes, TwoBytes DEF Delimits
<1>3. /\ yz \in Seq(Number) /\ Len(yz) = count + Len(z)
      /\ \A i \in 1 .. count : yz[i] = y[i]
  <2>1. Joins(y, z, yz)
    BY DEF Delimits
  <2> QED
    BY <2>1, Joined
<1>4. /\ byz \in Seq(Number) /\ Len(byz) = 2 + Len(yz)
      /\ byz[1] = b[1] /\ byz[2] = b[2]
      /\ \A i \in 1 .. Len(yz) : byz[2 + i] = yz[i]
  <2>1. /\ byz \in Seq(Number) /\ Len(byz) = Len(b) + Len(yz)
        /\ \A i \in 1 .. Len(b) : byz[i] = b[i]
        /\ \A i \in 1 .. Len(yz) : byz[Len(b) + i] = yz[i]
    <3>1. b \in Seq(Number) /\ yz \in Seq(Number) /\ Joins(b, yz, byz)
      BY <1>2, <1>3 DEF Delimits
    <3> QED
      BY <3>1, Joined
  <2>2. 1 \in 1 .. Len(b) /\ 2 \in 1 .. Len(b)
    BY <1>2
  <2> QED
    BY <1>2, <2>1, <2>2
<1>5. /\ p \in Seq(Number) /\ Len(p) = pos + Len(byz)
      /\ \A i \in 1 .. Len(byz) : p[pos + i] = byz[i]
  <2>1. byz \in Seq(Number) /\ Joins(x, byz, p)
    BY <1>4 DEF Delimits
  <2> QED
    BY <2>1, Joined
<1> HIDE DEF pos, count
<1>6. p[pos + 1] = b[1] /\ p[pos + 2] = b[2]
  <2>1. 1 \in 1 .. Len(byz) /\ 2 \in 1 .. Len(byz)
    BY <1>1, <1>3, <1>4
  <2> QED
    BY <1>4, <1>5, <2>1
<1>7. Len(p) \in Nat /\ pos + 2 + count <= Len(p)
  BY <1>1, <1>3, <1>4, <1>5
<1>8. SubSeq(p, pos + 2 + 1, pos + 2 + count) = y
  <2> DEFINE start == pos + 2
  <2>1. start \in Nat /\ start + Len(y) <= Len(p)
    BY <1>1, <1>7 DEF count
  <2>2. ASSUME NEW i \in 1 .. Len(y) PROVE p[start + i] = y[i]
    <3>1. /\ i \in 1 .. count /\ i \in 1 .. Len(yz) /\ 2 + i \in 1 .. Len(byz)
          /\ start + i = pos + (2 + i)
      BY <1>1, <1>3, <1>4 DEF count
    <3> QED
      BY <1>3, <1>4, <1>5, <3>1
  <2> HIDE DEF start
  <2>3. SubSeq(p, start + 1, start + Len(y)) = y
    BY <1>5, <2>1, <2>2, CutOut
  <2> QED
    BY <2>3 DEF start, count
<1>9. U16(p[pos + 1], p[pos + 2]) = count
  BY <1>2, <1>6
<1>10. CASE count = 0
  <2>1. y = <<>>
    BY <1>10, EmptySeq DEF count
  <2>2. Part(p, pos) = [data |-> <<>>, next |-> pos + 2 + 0]
    BY <1>9, <1>10 DEF Part
  <2> QED
    BY <1>10, <2>1, <2>2 DEF pos, count
<1>11. CASE count # 0
  <2>1. count > 0
    BY <1>1, <1>11
  <2>2. Part(p, pos) = [data |-> Slice(p, pos + 2, count), next |-> pos + 2 + count]
    BY <1>7, <1>9, <2>1 DEF Part
  <2>3. Slice(p, pos + 2, count) = y
    BY <1>8 DEF Slice
  <2> QED
    BY <2>2, <2>3 DEF pos, count
<1> QED
  BY <1>10, <1>11

LEMMA PathRead ==
  ASSUME NEW attrs \in Seq(Attribute)
  PROVE  LET data == FlattenSeq(WrittenAttrs(attrs))
         IN  (IF data = <<>> THEN NoPath ELSE {HashAttributes(data)}) = PathOf(attrs)
<1> DEFINE pieces == WrittenAttrs(attrs)
           data == FlattenSeq(pieces)
<1>1. PathOf(attrs) = IF attrs = <<>> THEN NoPath ELSE {ToBag(Hashed(attrs))}
  BY DEF PathOf, Hashed
<1>2. HashAttributes(data) = ToBag(Hashed(attrs))
  BY AttrRead
<1>3. pieces \in Seq(Seq(Byte)) /\ Len(pieces) = Len(attrs) /\ Len(attrs) \in Nat
  BY WrittenAttrsType
<1>4. CASE attrs = <<>>
  <2>1. Len(pieces) = 0
    BY <1>3, <1>4, EmptySeq
  <2>2. pieces = <<>>
    <3> DEFINE S == Seq(Byte)
    <3>1. pieces \in Seq(S)
      BY <1>3
    <3> HIDE DEF S, pieces
    <3> QED
      BY <2>1, <3>1, EmptySeq
  <2>3. data = <<>>
    BY <2>2, FlattenEmpty
  <2> QED
    BY <1>1, <1>4, <2>3
<1>5. CASE attrs # <<>>
  <2>1. Len(attrs) >= 1
    BY <1>3, <1>5, EmptySeq
  <2> DEFINE attr == attrs[1]
             piece == pieces[1]
  <2>2. attr \in Attribute /\ piece = EncodeAttr(attr)
    <3>1. 1 \in 1 .. Len(attrs)
      BY <1>3, <2>1
    <3> QED
      BY <3>1, WrittenAttrsType
  <2>3. Len(piece) >= 3
    <3> HIDE DEF attr, piece
    <3>1. Len(piece) = HeaderOf(attr) + Len(attr.value) /\ Len(attr.value) \in Nat
      BY <2>2, AttrWritten
    <3>2. HeaderOf(attr) \in {3, 4}
      BY DEF HeaderOf
    <3> QED
      BY <3>1, <3>2
  <2>4. Len(piece) \in Nat /\ Ends(pieces, 1) = 0 + Len(piece)
        /\ Ends(pieces, 1) <= Len(data)
    <3>1. 0 \in 0 .. Len(pieces) - 1 /\ 0 + 1 = 1
      BY <1>3, <2>1
    <3>2. Ends(pieces, 0) = 0
      BY <1>3, EndsBounds
    <3> HIDE DEF pieces
    <3> QED
      BY <1>3, <3>1, <3>2, FlattenAt
  <2>5. data # <<>>
    <3>1. Len(data) # 0
      <4>1. Len(data) \in Nat
        BY AttrRead, LenProperties
      <4> HIDE DEF data, piece
      <4> QED
        BY <2>3, <2>4, <4>1
    <3>2. Len(<<>>) = 0
      OBVIOUS
    <3> QED
      BY <3>1, <3>2
  <2> QED
    BY <1>1, <1>2, <1>5, <2>5
<1> QED
  BY <1>4, <1>5

\* The parser reads, from the bytes of any well-formed update, the changes that
\* it announces: every prefix with its length and octets, and the same path for
\* all announcements.
THEOREM ParserReadsWhatIsSaid ==
  ASSUME NEW update, WellFormed(update)
  PROVE  ParseUpdate(EncodeUpdate(update)) = Announced(update)
<1> DEFINE w == FlattenSeq(Written(update.withdrawn))
           a == FlattenSeq(WrittenAttrs(update.attrs))
           n == FlattenSeq(Written(update.nlri))
           bw == Bytes(Len(w))
           ba == Bytes(Len(a))
           p == EncodeUpdate(update)
<1>1. /\ update.withdrawn \in Seq(IPv4Prefix) /\ update.nlri \in Seq(IPv4Prefix)
      /\ update.attrs \in Seq(Attribute) /\ 19 + Len(p) \in Word
  BY DEF WellFormed
<1>2. ParseNlri(w) = update.withdrawn /\ ParseNlri(n) = update.nlri
  BY <1>1, NlriRead
<1>3. (IF a = <<>> THEN NoPath ELSE {HashAttributes(a)}) = PathOf(update.attrs)
  BY <1>1, PathRead
<1>4. w \in Seq(Number) /\ a \in Seq(Number) /\ n \in Seq(Number)
  BY <1>1, NlriRead, AttrRead, BytesAreNumbers
<1>5. p = bw \o w \o ba \o a \o n
  BY DEF EncodeUpdate, EncodeAll, Written, WrittenAttrs
<1> HIDE DEF w, a, n, p
<1>6. Len(w) \in Nat /\ Len(a) \in Nat /\ Len(n) \in Nat
  BY <1>4, LenProperties
<1>7. bw \in Seq(Number) /\ Len(bw) = 2 /\ ba \in Seq(Number) /\ Len(ba) = 2
  BY <1>6, CountBytes
<1> DEFINE upto1 == bw \o w
           upto2 == upto1 \o ba
           upto3 == upto2 \o a
           from2 == a \o n
           from1 == ba \o from2
           from0 == w \o from1
<1>8. /\ Joins(bw, w, upto1) /\ Joins(upto1, ba, upto2) /\ Joins(upto2, a, upto3)
      /\ Joins(upto3, n, p)
      /\ Joins(a, n, from2) /\ Joins(ba, from2, from1) /\ Joins(w, from1, from0)
      /\ bw = Bytes(Len(w)) /\ ba = Bytes(Len(a))
  BY <1>5 DEF Joins
<1> HIDE DEF bw, ba, upto1, upto2, upto3, from0, from1, from2
<1>9. /\ upto1 \in Seq(Number) /\ Len(upto1) = 2 + Len(w)
      /\ upto2 \in Seq(Number) /\ Len(upto2) = 2 + Len(w) + 2
      /\ upto3 \in Seq(Number) /\ Len(upto3) = 2 + Len(w) + 2 + Len(a)
      /\ p \in Seq(Number) /\ Len(p) = 2 + Len(w) + 2 + Len(a) + Len(n)
      /\ \A i \in 1 .. Len(n) : p[Len(upto3) + i] = n[i]
  <2>1. upto1 \in Seq(Number) /\ Len(upto1) = 2 + Len(w)
    <3>1. upto1 \in Seq(Number) /\ Len(upto1) = Len(bw) + Len(w)
      <4>1. bw \in Seq(Number) /\ Joins(bw, w, upto1)
        BY <1>7, <1>8
      <4> QED
        BY <1>4, <4>1, Joined
    <3> QED
      BY <1>7, <3>1
  <2>2. upto2 \in Seq(Number) /\ Len(upto2) = 2 + Len(w) + 2
    <3>1. upto2 \in Seq(Number) /\ Len(upto2) = Len(upto1) + Len(ba)
      <4>1. ba \in Seq(Number) /\ upto1 \in Seq(Number) /\ Joins(upto1, ba, upto2)
        BY <1>7, <1>8, <2>1
      <4> QED
        BY <4>1, Joined
    <3> QED
      BY <1>7, <2>1, <3>1
  <2>3. upto3 \in Seq(Number) /\ Len(upto3) = 2 + Len(w) + 2 + Len(a)
    BY <1>4, <1>8, <2>2, Joined
  <2>4. /\ p \in Seq(Number) /\ Len(p) = Len(upto3) + Len(n)
        /\ \A i \in 1 .. Len(n) : p[Len(upto3) + i] = n[i]
    <3>1. upto3 \in Seq(Number) /\ n \in Seq(Number) /\ Joins(upto3, n, p)
      BY <1>4, <1>8, <2>3
    <3> QED
      BY <3>1, Joined
  <2> QED
    BY <2>1, <2>2, <2>3, <2>4
<1>10. from2 \in Seq(Number) /\ from1 \in Seq(Number) /\ from0 \in Seq(Number)
  <2>1. from2 \in Seq(Number)
    BY <1>4, <1>8, Joined
  <2>2. from1 \in Seq(Number)
    BY <1>7, <1>8, <2>1, Joined
  <2> QED
    BY <1>4, <1>8, <2>1, <2>2, Joined
<1>11. Joins(upto1, from1, p) /\ Joins(bw, from0, p)
  <2>1. Joins(upto2, from2, p)
    BY <1>4, <1>8, <1>9, JoinedOtherwise
  <2>2. Joins(upto1, from1, p)
    BY <1>7, <1>8, <1>9, <1>10, <2>1, JoinedOtherwise
  <2>3. Joins(bw, from0, p)
    BY <1>4, <1>7, <1>8, <1>10, <2>2, JoinedOtherwise
  <2> QED
    BY <2>2, <2>3
<1>12. Len(w) \in Word /\ Len(a) \in Word
  BY <1>1, <1>6, <1>9 DEF Word
<1>13. Part(p, 0) = [data |-> w, next |-> 2 + Len(w)]
  <2> DEFINE none == <<>>
  <2>1. none \in Seq(Number) /\ Len(none) = 0
    OBVIOUS
  <2>2. Joins(none, p, p)
    <3>1. none \o p = p
      BY <1>9, ConcatEmptySeq
    <3> QED
      BY <3>1 DEF Joins
  <2> HIDE DEF none
  <2>3. Part(p, Len(none)) = [data |-> w, next |-> Len(none) + 2 + Len(w)]
    <3>1. Delimits(none, bw, w, from1, from0, p, p)
      BY <1>8, <1>11, <2>2 DEF Delimits
    <3>2. none \in Seq(Number) /\ w \in Seq(Number) /\ from1 \in Seq(Number)
      BY <1>4, <1>10, <2>1
    <3> QED
      BY <1>12, <3>1, <3>2, PartRead
  <2>4. 0 + 2 + Len(w) = 2 + Len(w)
    BY <1>6
  <2> QED
    BY <2>1, <2>3, <2>4
<1>14. Part(p, 2 + Len(w)) = [data |-> a, next |-> 2 + Len(w) + 2 + Len(a)]
  <2>1. Part(p, Len(upto1)) = [data |-> a, next |-> Len(upto1) + 2 + Len(a)]
    <3>1. Delimits(upto1, ba, a, n, from2, from1, p)
      BY <1>8, <1>11 DEF Delimits
    <3>2. upto1 \in Seq(Number)
      BY <1>9
    <3> QED
      BY <1>4, <1>12, <3>1, <3>2, PartRead
  <2> QED
    BY <1>9, <2>1
<1>15. SubSeq(p, 2 + Len(w) + 2 + Len(a) + 1, Len(p)) = n
  <2>1. /\ Len(upto3) \in Nat /\ Len(upto3) + Len(n) <= Len(p)
        /\ Len(upto3) + Len(n) = Len(p)
    BY <1>6, <1>9
  <2>2. SubSeq(p, Len(upto3) + 1, Len(upto3) + Len(n)) = n
    BY <1>4, <1>9, <2>1, CutOut
  <2> QED
    BY <1>9, <2>1, <2>2
<1>16. ~(Len(p) < 2) /\ ~(2 + Len(w) + 2 > Len(p))
  BY <1>6, <1>9
<1>17. ParseUpdate(p) = ChangesOf(w, NoPath) \o ChangesOf(n, PathOf(update.attrs))
  <2> DEFINE first == Part(p, 0)
             second == Part(p, 2 + Len(w))
  <2>1. first.data = w /\ first.next = 2 + Len(w)
    BY <1>13
  <2>2. second.data = a /\ second.next = 2 + Len(w) + 2 + Len(a)
    BY <1>14
  <2>3. second = Part(p, first.next)
    BY <2>1
  <2>4. ParseUpdate(p)
          = IF first.next + 2 > Len(p) THEN ChangesOf(first.data, NoPath)
            ELSE ChangesOf(first.data, NoPath)
                   \o ChangesOf(SubSeq(p, second.next + 1, Len(p)),
                                IF second.data = <<>> THEN NoPath
                                ELSE {HashAttributes(second.data)})
    BY <1>16, <2>3 DEF ParseUpdate
  <2> HIDE DEF first, second
  <2> QED
    BY <1>3, <1>15, <1>16, <2>1, <2>2, <2>4
<1>18. ChangesOf(w, NoPath) \o ChangesOf(n, PathOf(update.attrs)) = Announced(update)
  BY <1>2 DEF ChangesOf, Announced
<1> QED
  BY <1>17, <1>18 DEF p

LEMMA ParsedIsSaid == Parsed = Changes
  BY SpeakerAssumption, ParserReadsWhatIsSaid DEF Parsed, Changes

-----------------------------------------------------------------------------
(* The streams *)

\* The messages that a speaker may send, and the changes that each announces.
Frame == {Opening(greeting) : greeting \in Greeting}
           \cup {Telling(update) : update \in Update}
           \cup {Notification, Keepalive, RouteRefresh}

Saying(frame) == IF frame[1].type = 2 THEN Changes[frame[2].content] ELSE <<>>
Sayings(frames) == [i \in DOMAIN frames |-> Saying(frames[i])]

Content == Greeting \cup Update \cup {<<6, 2>>, <<0, 1, 0, 1>>}
Piece == {Header(type) : type \in 1 .. 5} \cup {Body(content) : content \in Content}

AnyChange ==
    [prefix : IPv4Prefix,
     path : {NoPath} \cup {PathOf(update.attrs) : update \in Update}]

LEMMA FrameShape ==
  ASSUME NEW frame \in Frame
  PROVE  /\ frame \in Seq(Piece) /\ Len(frame) \in {1, 2}
         /\ frame[1].marker /\ frame[1].type \in 1 .. 5
         /\ Len(frame) = 2 => ~frame[2].marker
<1>1. /\ \A type \in 1 .. 5 : Header(type) \in Piece /\ Header(type).marker
                              /\ Header(type).type = type
      /\ \A content \in Content : Body(content) \in Piece /\ ~Body(content).marker
  BY DEF Piece, Header, Body
<1> HIDE DEF Piece
<1>2. \A type \in 1 .. 5, content \in Content :
        LET f == <<Header(type), Body(content)>>
        IN  /\ f \in Seq(Piece) /\ Len(f) = 2
            /\ f[1] = Header(type) /\ f[2] = Body(content)
  BY <1>1
<1>3. \A type \in 1 .. 5 :
        LET f == <<Header(type)>>
        IN  f \in Seq(Piece) /\ Len(f) = 1 /\ f[1] = Header(type)
  BY <1>1
<1>4. CASE \E greeting \in Greeting : frame = Opening(greeting)
  BY <1>1, <1>2, <1>4 DEF Opening, Content
<1>5. CASE \E update \in Update : frame = Telling(update)
  BY <1>1, <1>2, <1>5 DEF Telling, Content
<1>6. CASE frame = Notification
  BY <1>1, <1>2, <1>6 DEF Notification, Content
<1>7. CASE frame = Keepalive
  BY <1>1, <1>3, <1>7 DEF Keepalive
<1>8. CASE frame = RouteRefresh
  BY <1>1, <1>2, <1>8 DEF RouteRefresh, Content
<1> QED
  BY <1>4, <1>5, <1>6, <1>7, <1>8 DEF Frame

LEMMA UpdatesWellFormed ==
  ASSUME NEW update \in Update
  PROVE  /\ update.withdrawn \in Seq(IPv4Prefix) /\ update.nlri \in Seq(IPv4Prefix)
         /\ update.attrs \in Seq(Attribute)
         /\ 19 + Len(EncodeUpdate(update)) \in Word
<1>1. \A u \in Update : WellFormed(u)
  BY SpeakerAssumption
<1>2. WellFormed(update)
  BY <1>1
<1> QED
  BY <1>2 DEF WellFormed

LEMMA ChangesType ==
  ASSUME NEW update \in Update
  PROVE  Changes[update] \in Seq(AnyChange)
<1> DEFINE T == AnyChange
           w == [i \in DOMAIN update.withdrawn |->
                   Change(update.withdrawn[i], NoPath)]
           n == [i \in DOMAIN update.nlri |->
                   Change(update.nlri[i], PathOf(update.attrs))]
<1>1. /\ update.withdrawn \in Seq(IPv4Prefix) /\ update.nlri \in Seq(IPv4Prefix)
  BY UpdatesWellFormed
<1>2. \A prefix \in IPv4Prefix : /\ Change(prefix, NoPath) \in T
                                 /\ Change(prefix, PathOf(update.attrs)) \in T
  BY DEF AnyChange, Change
<1> HIDE DEF T
<1>3. w \in Seq(T) /\ n \in Seq(T)
  <2>1. /\ DOMAIN update.withdrawn = 1 .. Len(update.withdrawn)
        /\ Len(update.withdrawn) \in Nat
        /\ \A i \in DOMAIN update.withdrawn : update.withdrawn[i] \in IPv4Prefix
    BY <1>1, LenProperties, ElementOfSeq
  <2>2. /\ DOMAIN update.nlri = 1 .. Len(update.nlri)
        /\ Len(update.nlri) \in Nat
        /\ \A i \in DOMAIN update.nlri : update.nlri[i] \in IPv4Prefix
    BY <1>1, LenProperties, ElementOfSeq
  <2>3. w \in [1 .. Len(update.withdrawn) -> T]
    BY <1>2, <2>1
  <2>4. n \in [1 .. Len(update.nlri) -> T]
    BY <1>2, <2>2
  <2> HIDE DEF w, n
  <2> QED
    BY <2>1, <2>2, <2>3, <2>4, IsASeq
<1>4. Changes[update] = w \o n
  BY DEF Changes, Announced
<1> HIDE DEF w, n
<1> QED
  BY <1>3, <1>4, ConcatProperties DEF T

LEMMA SayingType ==
  /\ \A greeting : Saying(Opening(greeting)) = <<>>
  /\ \A update \in Update : Saying(Telling(update)) = Changes[update]
  /\ \A frame \in {Notification, Keepalive, RouteRefresh} : Saying(frame) = <<>>
  /\ \A frame \in Frame : Saying(frame) \in Seq(AnyChange)
<1>1. \A greeting : Saying(Opening(greeting)) = <<>>
  BY DEF Saying, Opening, Header
<1>2. \A update \in Update : Saying(Telling(update)) = Changes[update]
  BY DEF Saying, Telling, Header, Body
<1>3. Saying(Notification) = <<>> /\ Saying(Keepalive) = <<>>
      /\ Saying(RouteRefresh) = <<>>
  BY DEF Saying, Notification, Keepalive, RouteRefresh, Header
<1>4. <<>> \in Seq(AnyChange)
  OBVIOUS
<1>5. ASSUME NEW frame \in Frame
      PROVE  Saying(frame) \in Seq(AnyChange)
  <2>1. CASE \E greeting \in Greeting : frame = Opening(greeting)
    BY <1>1, <1>4, <2>1
  <2>2. CASE \E update \in Update : frame = Telling(update)
    BY <1>2, <2>2, ChangesType
  <2>3. CASE frame \in {Notification, Keepalive, RouteRefresh}
    BY <1>3, <1>4, <2>3
  <2> QED
    BY <2>1, <2>2, <2>3 DEF Frame
<1> QED
  BY <1>1, <1>2, <1>3, <1>5

\* What follows in a stream.
Following(frames) == FlattenSeq(frames)
Untold(frames) == FlattenSeq(Sayings(frames))

LEMMA SayingsType ==
  ASSUME NEW frames \in Seq(Frame)
  PROVE  /\ Sayings(frames) \in Seq(Seq(AnyChange))
         /\ Untold(frames) \in Seq(AnyChange)
<1>1. /\ DOMAIN frames = 1 .. Len(frames) /\ Len(frames) \in Nat
      /\ \A i \in DOMAIN frames : frames[i] \in Frame
  BY LenProperties, ElementOfSeq
<1> DEFINE S == Seq(AnyChange)
<1>2. \A i \in DOMAIN frames : Saying(frames[i]) \in S
  BY <1>1, SayingType
<1> HIDE DEF S
<1>3. Sayings(frames) \in [1 .. Len(frames) -> S]
  BY <1>1, <1>2 DEF Sayings
<1>4. Sayings(frames) \in Seq(S)
  BY <1>1, <1>3
<1> QED
  BY <1>4, FlattenType DEF S, Untold

\* A message that is written.
LEMMA OneMore ==
  ASSUME NEW frames \in Seq(Frame), NEW frame \in Frame
  PROVE  /\ Append(frames, frame) \in Seq(Frame)
         /\ Following(Append(frames, frame)) = Following(frames) \o frame
         /\ Untold(Append(frames, frame)) = Untold(frames) \o Saying(frame)
<1> DEFINE more == Append(frames, frame)
           P == Seq(Piece)
           C == Seq(AnyChange)
<1>1. /\ more \in Seq(Frame) /\ Len(frames) \in Nat
      /\ Len(more) = Len(frames) + 1 /\ more[Len(frames) + 1] = frame
      /\ \A i \in 1 .. Len(frames) : more[i] = frames[i]
  BY AppendProperties, LenProperties
<1>2. Following(more) = Following(frames) \o frame
  <2>1. Frame \subseteq P
    BY FrameShape
  <2> HIDE DEF P
  <2>2. frames \in Seq(P) /\ frame \in P
    BY <2>1, SeqMonotonic
  <2> QED
    BY <2>2, FlattenAppend DEF P, Following
<1> HIDE DEF more
<1>3. Sayings(more) = Append(Sayings(frames), Saying(frame))
  <2>1. /\ Sayings(more) \in Seq(C) /\ Sayings(frames) \in Seq(C)
        /\ Saying(frame) \in C
    BY <1>1, SayingsType, SayingType
  <2>2. /\ DOMAIN more = 1 .. Len(more) /\ DOMAIN frames = 1 .. Len(frames)
    BY <1>1, LenProperties
  <2>3. /\ Len(Sayings(more)) = Len(more) /\ Len(Sayings(frames)) = Len(frames)
        /\ \A i \in 1 .. Len(more) : Sayings(more)[i] = Saying(more[i])
        /\ \A i \in 1 .. Len(frames) : Sayings(frames)[i] = Saying(frames[i])
    BY <1>1, <2>2 DEF Sayings
  <2> HIDE DEF C
  <2> DEFINE a == Append(Sayings(frames), Saying(frame))
  <2>4. /\ a \in Seq(C) /\ Len(a) = Len(frames) + 1
        /\ a[Len(frames) + 1] = Saying(frame)
        /\ \A i \in 1 .. Len(frames) : a[i] = Sayings(frames)[i]
    BY <2>1, <2>3, AppendProperties
  <2> HIDE DEF a
  <2>5. ASSUME NEW i \in 1 .. Len(more) PROVE Sayings(more)[i] = a[i]
    <3>1. i = Len(frames) + 1 \/ i \in 1 .. Len(frames)
      BY <1>1
    <3> QED
      BY <1>1, <2>3, <2>4, <3>1
  <2>6. Sayings(more) = a
    BY <1>1, <2>1, <2>3, <2>4, <2>5, SeqEqual
  <2> QED
    BY <2>6 DEF a
<1>4. Untold(more) = Untold(frames) \o Saying(frame)
  <2>1. Sayings(frames) \in Seq(Seq(AnyChange)) /\ Saying(frame) \in Seq(AnyChange)
    BY SayingsType, SayingType
  <2> QED
    BY <1>3, <2>1, FlattenAppend DEF Untold
<1> QED
  BY <1>1, <1>2, <1>4 DEF more

\* The message that is read next.
LEMMA OneLess ==
  ASSUME NEW frames \in Seq(Frame), frames # <<>>
  PROVE  \E frame \in Frame, rest \in Seq(Frame) :
           /\ Following(frames) = frame \o Following(rest)
           /\ Untold(frames) = Saying(frame) \o Untold(rest)
<1> DEFINE frame == Head(frames)
           rest == Tail(frames)
           P == Seq(Piece)
           C == Seq(AnyChange)
<1>1. /\ frame \in Frame /\ rest \in Seq(Frame) /\ Len(rest) = Len(frames) - 1
      /\ Len(frames) \in Nat /\ frame = frames[1]
      /\ \A i \in 1 .. Len(rest) : rest[i] = frames[i + 1]
  BY HeadTailProperties, LenProperties
<1> HIDE DEF frame, rest
<1>2. frames = <<frame>> \o rest
  BY <1>1
<1>3. Following(frames) = frame \o Following(rest)
  <2>1. Frame \subseteq P
    BY FrameShape
  <2> HIDE DEF P
  <2>2. <<frame>> \in Seq(P) /\ rest \in Seq(P) /\ frame \in P
    BY <1>1, <2>1, SeqMonotonic
  <2>3. FlattenSeq(<<frame>>) = frame
    BY <2>2, FlattenOne
  <2> QED
    BY <1>2, <2>2, <2>3, FlattenConcat DEF P, Following
<1>4. Sayings(frames) = <<Saying(frame)>> \o Sayings(rest)
  <2>1. /\ Sayings(frames) \in Seq(C) /\ Sayings(rest) \in Seq(C)
        /\ Saying(frame) \in C
    BY <1>1, SayingsType, SayingType
  <2>2. /\ DOMAIN frames = 1 .. Len(frames) /\ DOMAIN rest = 1 .. Len(rest)
        /\ Len(rest) \in Nat
    BY <1>1, LenProperties
  <2>3. /\ Len(Sayings(frames)) = Len(frames) /\ Len(Sayings(rest)) = Len(rest)
        /\ \A i \in 1 .. Len(frames) : Sayings(frames)[i] = Saying(frames[i])
        /\ \A i \in 1 .. Len(rest) : Sayings(rest)[i] = Saying(rest[i])
    BY <1>1, <2>2 DEF Sayings
  <2> HIDE DEF C
  <2> DEFINE a == <<Saying(frame)>> \o Sayings(rest)
  <2>4. /\ a \in Seq(C) /\ Len(a) = 1 + Len(rest)
        /\ a[1] = Saying(frame)
        /\ \A i \in 1 .. Len(rest) : a[i + 1] = Sayings(rest)[i]
    BY <2>1, <2>2, <2>3
  <2> HIDE DEF a
  <2>5. ASSUME NEW i \in 1 .. Len(frames) PROVE Sayings(frames)[i] = a[i]
    <3>1. CASE i = 1
      BY <1>1, <2>3, <2>4, <3>1
    <3>2. CASE i # 1
      <4> DEFINE j == i - 1
      <4>1. j \in 1 .. Len(rest) /\ i = j + 1
        BY <1>1, <3>2
      <4> HIDE DEF j
      <4>2. a[i] = Saying(rest[j]) /\ rest[j] = frames[i]
        BY <1>1, <2>3, <2>4, <4>1
      <4> QED
        BY <2>3, <4>2
    <3> QED
      BY <3>1, <3>2
  <2>6. Sayings(frames) = a
    BY <1>1, <2>1, <2>3, <2>4, <2>5, SeqEqual
  <2> QED
    BY <2>6 DEF a
<1>5. Untold(frames) = Saying(frame) \o Untold(rest)
  <2>1. /\ Sayings(rest) \in Seq(C) /\ Saying(frame) \in C
    BY <1>1, SayingsType, SayingType
  <2> HIDE DEF C
  <2>2. FlattenSeq(<<Saying(frame)>>) = Saying(frame) /\ <<Saying(frame)>> \in Seq(C)
    BY <2>1, FlattenOne
  <2> QED
    BY <1>4, <2>1, <2>2, FlattenConcat DEF Untold, C
<1> QED
  BY <1>1, <1>3, <1>5

\* A stream starts with a header.
LEMMA StartsWithHeader ==
  ASSUME NEW frames \in Seq(Frame)
  PROVE  /\ Following(frames) \in Seq(Piece)
         /\ Following(frames) # <<>> => Following(frames)[1].marker
         /\ Following(frames) # <<>> => frames # <<>>
<1>1. CASE frames = <<>>
  <2>1. Following(frames) = <<>> /\ <<>> \in Seq(Piece)
    BY <1>1, FlattenEmpty DEF Following
  <2> QED
    BY <2>1
<1>2. CASE frames # <<>>
  <2>1. PICK frame \in Frame, rest \in Seq(Frame) :
          Following(frames) = frame \o Following(rest)
    BY <1>2, OneLess
  <2>2. \A q \in Seq(Frame) : Following(q) \in Seq(Piece)
    <3> DEFINE P == Seq(Piece)
    <3>1. Frame \subseteq P
      BY FrameShape
    <3> HIDE DEF P
    <3>2. \A q \in Seq(Frame) : q \in Seq(P)
      BY <3>1, SeqMonotonic
    <3> QED
      BY <3>2, FlattenType DEF P, Following
  <2>3. frame \in Seq(Piece) /\ Len(frame) \in {1, 2} /\ frame[1].marker
    BY FrameShape
  <2>4. (frame \o Following(rest))[1] = frame[1]
    <3>1. Following(rest) \in Seq(Piece)
      BY <2>2
    <3> HIDE DEF Following
    <3> QED
      BY <2>3, <3>1, ConcatProperties
  <2> QED
    BY <1>2, <2>1, <2>2, <2>3, <2>4
<1> QED
  BY <1>1, <1>2

\* Reading a message takes all of it, and nothing of the next.
LEMMA ReadsOne ==
  ASSUME NEW frame \in Frame, NEW rest \in Seq(Frame)
  PROVE  LET stream == frame \o Following(rest)
         IN  /\ stream # <<>> /\ stream[1] = frame[1]
             /\ MarkerOk(stream) /\ TypeOf(stream) = frame[1].type
             /\ Rest(stream) = Following(rest)
             /\ HasBody(stream) <=> Len(frame) = 2
             /\ Len(frame) = 2 => BodyOf(stream) = frame[2].content
<1> DEFINE more == Following(rest)
           stream == frame \o more
<1>1. /\ more \in Seq(Piece) /\ Len(more) \in Nat
      /\ more # <<>> => more[1].marker
  BY StartsWithHeader, LenProperties
<1>2. /\ frame \in Seq(Piece) /\ Len(frame) \in {1, 2} /\ frame[1].marker
      /\ Len(frame) = 2 => ~frame[2].marker
  BY FrameShape
<1> HIDE DEF more
<1>3. /\ stream \in Seq(Piece) /\ Len(stream) = Len(frame) + Len(more)
      /\ stream[1] = frame[1]
      /\ Len(frame) = 2 => stream[2] = frame[2]
      /\ Len(frame) = 1 /\ Len(more) > 0 => stream[2] = more[1]
  BY <1>1, <1>2, ConcatProperties
<1>4. HasBody(stream) <=> Len(frame) = 2
  <2>1. CASE Len(frame) = 2
    BY <1>1, <1>2, <1>3, <2>1 DEF HasBody
  <2>2. CASE Len(frame) = 1
    <3>1. Len(stream) > 1 => stream[2].marker
      BY <1>1, <1>3, <2>2
    <3> QED
      BY <2>2, <3>1 DEF HasBody
  <2> QED
    BY <1>2, <2>1, <2>2
<1>5. SubSeq(stream, Len(frame) + 1, Len(stream)) = more
  BY <1>1, <1>2, <1>3
<1>6. Rest(stream) = more
  <2>1. CASE Len(frame) = 2
    <3>1. Rest(stream) = SubSeq(stream, 3, Len(stream))
      BY <1>4, <2>1 DEF Rest
    <3> QED
      BY <1>5, <2>1, <3>1
  <2>2. CASE Len(frame) = 1
    <3>1. Rest(stream) = SubSeq(stream, 2, Len(stream))
      BY <1>4, <2>2 DEF Rest
    <3> QED
      BY <1>5, <2>2, <3>1
  <2> QED
    BY <1>2, <2>1, <2>2
<1>7. Len(frame) = 2 => BodyOf(stream) = frame[2].content
  BY <1>3, <1>4 DEF BodyOf
<1>8. stream # <<>> /\ Head(stream) = stream[1]
  BY <1>1, <1>2, <1>3
<1> HIDE DEF stream
<1>9. MarkerOk(stream) /\ TypeOf(stream) = frame[1].type
  BY <1>2, <1>3, <1>8 DEF MarkerOk, TypeOf
<1> QED
  BY <1>3, <1>4, <1>6, <1>7, <1>8, <1>9 DEF stream, more

-----------------------------------------------------------------------------
(* The channel *)

Entry == [session : Session, change : AnyChange]

Owns(entries, s) == [i \in DOMAIN entries |-> Own(entries[i], s)]

LEMMA OwnType ==
  ASSUME NEW entry \in Entry, NEW s \in Session
  PROVE  Own(entry, s) \in Seq(AnyChange)
  BY DEF Own, Entry

LEMMA OwnsType ==
  ASSUME NEW entries \in Seq(Entry), NEW s \in Session
  PROVE  /\ Owns(entries, s) \in Seq(Seq(AnyChange))
         /\ Len(Owns(entries, s)) = Len(entries) /\ Len(entries) \in Nat
         /\ \A i \in 1 .. Len(entries) : Owns(entries, s)[i] = Own(entries[i], s)
<1>1. /\ DOMAIN entries = 1 .. Len(entries) /\ Len(entries) \in Nat
      /\ \A i \in DOMAIN entries : entries[i] \in Entry
  BY LenProperties, ElementOfSeq
<1> DEFINE S == Seq(AnyChange)
<1>2. \A i \in DOMAIN entries : Own(entries[i], s) \in S
  BY <1>1, OwnType
<1> HIDE DEF S
<1>3. Owns(entries, s) \in [1 .. Len(entries) -> S]
  BY <1>1, <1>2 DEF Owns
<1>4. Owns(entries, s) \in Seq(S) /\ Len(Owns(entries, s)) = Len(entries)
  BY <1>1, <1>3
<1> QED
  BY <1>1, <1>4 DEF S, Owns

LEMMA OwnsAppend ==
  ASSUME NEW entries \in Seq(Entry), NEW entry \in Entry, NEW s \in Session
  PROVE  FlattenSeq(Owns(Append(entries, entry), s))
           = FlattenSeq(Owns(entries, s)) \o Own(entry, s)
<1> DEFINE more == Append(entries, entry)
           C == Seq(AnyChange)
           a == Append(Owns(entries, s), Own(entry, s))
<1>1. /\ more \in Seq(Entry) /\ Len(entries) \in Nat
      /\ Len(more) = Len(entries) + 1 /\ more[Len(entries) + 1] = entry
      /\ \A i \in 1 .. Len(entries) : more[i] = entries[i]
  BY AppendProperties, LenProperties
<1> HIDE DEF more
<1>2. /\ Owns(more, s) \in Seq(C) /\ Len(Owns(more, s)) = Len(more)
      /\ \A i \in 1 .. Len(more) : Owns(more, s)[i] = Own(more[i], s)
  BY <1>1, OwnsType
<1>3. /\ Owns(entries, s) \in Seq(C) /\ Len(Owns(entries, s)) = Len(entries)
      /\ \A i \in 1 .. Len(entries) : Owns(entries, s)[i] = Own(entries[i], s)
      /\ Own(entry, s) \in C
  BY OwnsType, OwnType
<1> HIDE DEF C
<1>4. /\ a \in Seq(C) /\ Len(a) = Len(entries) + 1
      /\ a[Len(entries) + 1] = Own(entry, s)
      /\ \A i \in 1 .. Len(entries) : a[i] = Owns(entries, s)[i]
  BY <1>3, AppendProperties
<1> HIDE DEF a
<1>5. ASSUME NEW i \in 1 .. Len(more) PROVE Owns(more, s)[i] = a[i]
  <2>1. i = Len(entries) + 1 \/ i \in 1 .. Len(entries)
    BY <1>1
  <2> QED
    BY <1>1, <1>2, <1>3, <1>4, <2>1
<1>6. Owns(more, s) = a
  BY <1>1, <1>2, <1>4, <1>5, SeqEqual
<1>7. FlattenSeq(a) = FlattenSeq(Owns(entries, s)) \o Own(entry, s)
  BY <1>3, FlattenAppend DEF a, C
<1> QED
  BY <1>6, <1>7 DEF more

LEMMA OwnsTail ==
  ASSUME NEW entries \in Seq(Entry), entries # <<>>, NEW s \in Session
  PROVE  /\ Head(entries) \in Entry /\ Tail(entries) \in Seq(Entry)
         /\ Len(Tail(entries)) = Len(entries) - 1
         /\ FlattenSeq(Owns(entries, s))
              = Own(Head(entries), s) \o FlattenSeq(Owns(Tail(entries), s))
<1> DEFINE first == Head(entries)
           rest == Tail(entries)
           C == Seq(AnyChange)
           a == <<Own(first, s)>> \o Owns(rest, s)
<1>1. /\ first \in Entry /\ rest \in Seq(Entry) /\ Len(rest) = Len(entries) - 1
      /\ Len(entries) \in Nat /\ Len(rest) \in Nat /\ first = entries[1]
      /\ \A i \in 1 .. Len(rest) : rest[i] = entries[i + 1]
  BY HeadTailProperties, LenProperties
<1> HIDE DEF first, rest
<1>2. /\ Owns(entries, s) \in Seq(C) /\ Len(Owns(entries, s)) = Len(entries)
      /\ \A i \in 1 .. Len(entries) : Owns(entries, s)[i] = Own(entries[i], s)
  BY OwnsType
<1>3. /\ Owns(rest, s) \in Seq(C) /\ Len(Owns(rest, s)) = Len(rest)
      /\ \A i \in 1 .. Len(rest) : Owns(rest, s)[i] = Own(rest[i], s)
      /\ Own(first, s) \in C
  BY <1>1, OwnsType, OwnType
<1> HIDE DEF C
<1>4. /\ a \in Seq(C) /\ Len(a) = 1 + Len(rest)
      /\ a[1] = Own(first, s)
      /\ \A i \in 1 .. Len(rest) : a[i + 1] = Owns(rest, s)[i]
  BY <1>1, <1>3
<1>5. FlattenSeq(a) = Own(first, s) \o FlattenSeq(Owns(rest, s))
  <2>1. FlattenSeq(<<Own(first, s)>>) = Own(first, s) /\ <<Own(first, s)>> \in Seq(C)
    BY <1>3, FlattenOne
  <2> QED
    BY <1>3, <2>1, FlattenConcat DEF C
<1> HIDE DEF a
<1>6. ASSUME NEW i \in 1 .. Len(entries) PROVE Owns(entries, s)[i] = a[i]
  <2>1. CASE i = 1
    BY <1>1, <1>2, <1>4, <2>1
  <2>2. CASE i # 1
    <3> DEFINE j == i - 1
    <3>1. j \in 1 .. Len(rest) /\ i = j + 1
      BY <1>1, <2>2
    <3> HIDE DEF j
    <3>2. a[i] = Own(rest[j], s) /\ rest[j] = entries[i]
      BY <1>1, <1>3, <1>4, <3>1
    <3> QED
      BY <1>2, <3>2
  <2> QED
    BY <2>1, <2>2
<1>7. Owns(entries, s) = a
  BY <1>1, <1>2, <1>4, <1>6, SeqEqual
<1> QED
  BY <1>1, <1>5, <1>7 DEF first, rest

-----------------------------------------------------------------------------
(* The invariant *)

Shapes ==
    /\ left \in [Session -> Nat]
    /\ \A s \in Session : left[s] <= MaxSent[s]
    /\ hold \in [Session -> {0} \cup {greeting.hold : greeting \in Greeting}]
    /\ said \in [Session -> Seq(AnyChange)]
    /\ closed \in [Session -> BOOLEAN]
    /\ wire \in [Session -> Seq(Piece)]
    /\ phase \in [Session -> Phase]
    /\ interval \in [Session -> 0 .. 20]
    /\ pending \in [Session -> Seq(AnyChange)]
    /\ channel \in Seq(Entry) /\ Len(channel) <= Capacity
    /\ taken \in [Session -> Seq(AnyChange)]

Got(s) == taken[s] \o FlattenSeq(Owns(channel, s)) \o pending[s]

\* The stream is a sequence of whole messages, and they tell what the detector
\* has not heard of.
InStream(s) ==
    \E frames \in Seq(Frame) :
        wire[s] = Following(frames) /\ said[s] = Got(s) \o Untold(frames)

HeardSoFar(s) ==
    IF phase[s] # "done" THEN InStream(s)
    ELSE \E rest \in Seq(AnyChange) : said[s] = Got(s) \o rest

\* A speaker sends its OPEN first.
Greets(s) ==
    phase[s] \in {"accept", "open"} =>
        IF wire[s] = <<>> THEN hold[s] = 0
                         ELSE BodyOf(wire[s]) \in Greeting

BgpInv ==
    /\ Shapes
    /\ \A s \in Session : HeardSoFar(s) /\ Greets(s)

LEMMA Regroup ==
  \A a, b, c \in Seq(AnyChange) : (a \o b) \o c = a \o (b \o c)
<1> DEFINE T == AnyChange
<1> HIDE DEF T
<1>1. \A a, b, c \in Seq(T) : (a \o b) \o c = a \o (b \o c)
  BY ConcatAssociative
<1> QED
  BY <1>1 DEF T

LEMMA GotType ==
  ASSUME Shapes, NEW s \in Session
  PROVE  /\ FlattenSeq(Owns(channel, s)) \in Seq(AnyChange)
         /\ Got(s) \in Seq(AnyChange)
<1>1. FlattenSeq(Owns(channel, s)) \in Seq(AnyChange)
  BY OwnsType, FlattenType DEF Shapes
<1>2. taken[s] \in Seq(AnyChange) /\ pending[s] \in Seq(AnyChange)
  BY DEF Shapes
<1> HIDE DEF Owns
<1> QED
  BY <1>1, <1>2, ConcatProperties DEF Got

LEMMA InitBgp == Init => BgpInv
<1> SUFFICES ASSUME Init PROVE BgpInv
  OBVIOUS
<1>1. Shapes
  BY BoundAssumption DEF Init, Shapes, Phase
<1>2. ASSUME NEW s \in Session
      PROVE  HeardSoFar(s) /\ Greets(s)
  <2>1. Following(<<>>) = <<>> /\ Untold(<<>>) = <<>> /\ FlattenSeq(Owns(<<>>, s)) = <<>>
    BY FlattenEmpty DEF Following, Untold, Sayings, Owns
  <2>2. wire[s] = <<>> /\ said[s] = <<>> /\ hold[s] = 0 /\ phase[s] = "accept"
    BY DEF Init
  <2>3. Got(s) = <<>>
    BY <2>1 DEF Got, Init
  <2>4. <<>> \in Seq(Frame)
    OBVIOUS
  <2>5. InStream(s)
    <3>1. said[s] = Got(s) \o Untold(<<>>)
      BY <2>1, <2>2, <2>3
    <3> QED
      BY <2>1, <2>2, <2>4, <3>1 DEF InStream
  <2> QED
    BY <2>2, <2>5 DEF HeardSoFar, Greets
<1> QED
  BY <1>1, <1>2 DEF BgpInv

LEMMA Beside ==
  ASSUME BgpInv, NEW p \in Session,
         wire'[p] = wire[p], phase'[p] = phase[p], Got(p)' = Got(p),
         said'[p] = said[p], hold'[p] = hold[p], interval'[p] = interval[p]
  PROVE  HeardSoFar(p)' /\ Greets(p)'
<1>1. HeardSoFar(p) /\ Greets(p)
  BY DEF BgpInv
<1>2. InStream(p) => InStream(p)'
  BY DEF InStream
<1> QED
  BY <1>1, <1>2 DEF HeardSoFar, Greets

\* The first message of a stream is not changed by what is written after it.
LEMMA SameBody ==
  ASSUME NEW frames \in Seq(Frame), NEW frame \in Frame,
         Following(frames) # <<>>
  PROVE  BodyOf(Following(frames) \o frame) = BodyOf(Following(frames))
<1>1. PICK f \in Frame, rest \in Seq(Frame) :
        Following(frames) = f \o Following(rest)
  BY StartsWithHeader, OneLess
<1>2. /\ Append(rest, frame) \in Seq(Frame)
      /\ Following(Append(rest, frame)) = Following(rest) \o frame
  BY OneMore
<1>3. Following(frames) \o frame = f \o Following(Append(rest, frame))
  <2>1. f \in Seq(Piece) /\ frame \in Seq(Piece) /\ Following(rest) \in Seq(Piece)
    BY FrameShape, StartsWithHeader
  <2> HIDE DEF Following
  <2>2. Regroups(f, Following(rest), frame)
    BY <2>1, ConcatRegroups
  <2>3. (f \o Following(rest)) \o frame = f \o (Following(rest) \o frame)
    BY <2>2 DEF Regroups
  <2> QED
    BY <1>1, <1>2, <2>3
<1>4. /\ HasBody(Following(frames)) <=> Len(f) = 2
      /\ Len(f) = 2 => BodyOf(Following(frames)) = f[2].content
  BY <1>1, ReadsOne
<1> DEFINE more == Following(frames) \o frame
<1>5. /\ HasBody(more) <=> Len(f) = 2
      /\ Len(f) = 2 => BodyOf(more) = f[2].content
  BY <1>2, <1>3, ReadsOne
<1> HIDE DEF more
<1>6. BodyOf(more) = BodyOf(Following(frames))
  BY <1>4, <1>5 DEF BodyOf
<1> QED
  BY <1>6 DEF more

LEMMA WriteBgp ==
  ASSUME BgpInv, NEW s \in Session, NEW frame \in Frame, Write(s, frame),
         said' = [said EXCEPT ![s] = @ \o Saying(frame)],
         hold' \in [Session -> {0} \cup {greeting.hold : greeting \in Greeting}],
         closed' \in [Session -> BOOLEAN],
         \A p \in Session : p # s => hold'[p] = hold[p],
         hold[s] # 0 \/ \E greeting \in Greeting : frame = Opening(greeting)
  PROVE  BgpInv'
<1>1. /\ Connected(s) /\ left[s] > 0 /\ left' = [left EXCEPT ![s] = @ - 1]
      /\ wire' = [wire EXCEPT ![s] = @ \o frame]
      /\ phase' = phase /\ interval' = interval /\ pending' = pending
      /\ channel' = channel /\ taken' = taken
  BY DEF Write
<1>2. Shapes
  BY DEF BgpInv
<1>3. \A p \in Session : Got(p)' = Got(p)
  BY <1>1 DEF Got
<1>4. frame \in Seq(Piece) /\ Saying(frame) \in Seq(AnyChange)
  BY FrameShape, SayingType
<1>5. Shapes'
  <2>1. left' \in [Session -> Nat] /\ \A p \in Session : left'[p] <= MaxSent[p]
    BY <1>1, <1>2, BoundAssumption DEF Shapes
  <2>2. wire[s] \o frame \in Seq(Piece) /\ said[s] \o Saying(frame) \in Seq(AnyChange)
    BY <1>2, <1>4, ConcatProperties DEF Shapes
  <2>3. wire' \in [Session -> Seq(Piece)]
    BY <1>1, <1>2, <2>2 DEF Shapes
  <2>4. said' \in [Session -> Seq(AnyChange)]
    BY <1>2, <2>2 DEF Shapes
  <2> QED
    BY <1>1, <1>2, <2>1, <2>3, <2>4 DEF Shapes
<1>6. ASSUME NEW p \in Session, p # s
      PROVE  HeardSoFar(p)' /\ Greets(p)'
  <2>1. wire'[p] = wire[p] /\ said'[p] = said[p]
    BY <1>1, <1>2, <1>6 DEF Shapes
  <2> QED
    BY <1>1, <1>3, <1>6, <2>1, Beside
<1>7. phase[s] \in {"open", "read"} /\ InStream(s)
  BY <1>1 DEF BgpInv, Connected, HeardSoFar
<1>8. PICK frames \in Seq(Frame) :
        wire[s] = Following(frames) /\ said[s] = Got(s) \o Untold(frames)
  BY <1>7 DEF InStream
<1>9. /\ Append(frames, frame) \in Seq(Frame)
      /\ Following(Append(frames, frame)) = Following(frames) \o frame
      /\ Untold(Append(frames, frame)) = Untold(frames) \o Saying(frame)
  BY OneMore
<1>10. wire'[s] = Following(frames) \o frame
       /\ said'[s] = (Got(s) \o Untold(frames)) \o Saying(frame)
  BY <1>1, <1>2, <1>8 DEF Shapes
<1>11. HeardSoFar(s)'
  <2>1. Got(s) \in Seq(AnyChange) /\ Untold(frames) \in Seq(AnyChange)
    BY <1>2, GotType, SayingsType
  <2>2. Regroups(Got(s), Untold(frames), Saying(frame))
    BY <1>4, <2>1, ConcatRegroups
  <2>3. InStream(s)'
    BY <1>3, <1>9, <1>10, <2>2 DEF InStream, Regroups
  <2> QED
    BY <1>1, <1>7, <2>3 DEF HeardSoFar
<1>12. Greets(s)'
  <2>1. Greets(s)
    BY DEF BgpInv
  <2>2. CASE wire[s] # <<>>
    <3>1. BodyOf(wire'[s]) = BodyOf(wire[s])
      BY <1>8, <1>10, <2>2, SameBody
    <3>2. wire'[s] # <<>>
      <4>1. Following(frames) \in Seq(Piece) /\ Following(frames) # <<>>
        BY <1>8, <2>2, StartsWithHeader
      <4> QED
        BY <1>4, <1>10, <4>1, ConcatEqualIffEmpty
    <3> QED
      BY <1>1, <2>1, <2>2, <3>1, <3>2 DEF Greets
  <2>3. CASE wire[s] = <<>> /\ phase[s] = "open"
    <3>1. PICK greeting \in Greeting : frame = Opening(greeting)
      BY <2>1, <2>3 DEF Greets
    <3>2. wire'[s] = Opening(greeting)
      BY <1>4, <1>8, <1>10, <2>3, <3>1, ConcatEmptySeq
    <3>3. wire'[s] # <<>> /\ BodyOf(wire'[s]) = greeting
      BY <3>2 DEF Opening, Header, Body, BodyOf, HasBody
    <3> QED
      BY <3>3 DEF Greets
  <2>4. CASE phase[s] = "read"
    BY <1>1, <2>4 DEF Greets
  <2> QED
    BY <1>7, <2>2, <2>3, <2>4
<1> QED
  BY <1>5, <1>6, <1>11, <1>12 DEF BgpInv

LEMMA SpeakBgp ==
  ASSUME BgpInv, NEW s \in Session,
         SayOpen(s) \/ SayUpdate(s) \/ SayOther(s)
  PROVE  BgpInv'
<1>1. Shapes
  BY DEF BgpInv
<1>2. /\ hold \in [Session -> {0} \cup {greeting.hold : greeting \in Greeting}]
      /\ closed \in [Session -> BOOLEAN] /\ said \in [Session -> Seq(AnyChange)]
  BY <1>1 DEF Shapes
<1>3. said = [said EXCEPT ![s] = @ \o <<>>]
  <2>1. said[s] \o <<>> = said[s]
    BY <1>2, ConcatEmptySeq
  <2> QED
    BY <1>2, <2>1
<1>4. CASE SayOpen(s)
  <2>1. PICK greeting \in Greeting :
          /\ Write(s, Opening(greeting))
          /\ hold' = [hold EXCEPT ![s] = greeting.hold]
          /\ said' = said /\ closed' = closed
    BY <1>4 DEF SayOpen
  <2>2. Opening(greeting) \in Frame /\ Saying(Opening(greeting)) = <<>>
    BY SayingType DEF Frame
  <2>3. hold' \in [Session -> {0} \cup {g.hold : g \in Greeting}]
        /\ \A p \in Session : p # s => hold'[p] = hold[p]
    BY <1>2, <2>1
  <2> QED
    BY <1>2, <1>3, <2>1, <2>2, <2>3, WriteBgp
<1>5. CASE SayUpdate(s)
  <2>1. PICK update \in Update :
          /\ hold[s] > 0 /\ Write(s, Telling(update))
          /\ said' = [said EXCEPT ![s] = @ \o Changes[update]]
          /\ hold' = hold /\ closed' = closed
    BY <1>5 DEF SayUpdate
  <2>2. Telling(update) \in Frame /\ Saying(Telling(update)) = Changes[update]
    BY SayingType DEF Frame
  <2>3. hold[s] # 0
    BY <2>1
  <2> QED
    BY <1>2, <2>1, <2>2, <2>3, WriteBgp
<1>6. CASE SayOther(s)
  <2>1. PICK frame \in {Notification, Keepalive, RouteRefresh} :
          /\ hold[s] > 0 /\ Write(s, frame)
          /\ closed' = [closed EXCEPT ![s] = frame = Notification]
          /\ hold' = hold /\ said' = said
    BY <1>6 DEF SayOther
  <2>2. frame \in Frame /\ Saying(frame) = <<>>
    BY SayingType DEF Frame
  <2>3. hold[s] # 0
    BY <2>1
  <2>4. closed' \in [Session -> BOOLEAN]
    BY <1>2, <2>1
  <2> QED
    BY <1>2, <1>3, <2>1, <2>2, <2>3, <2>4, WriteBgp
<1> QED
  BY <1>4, <1>5, <1>6

LEMMA QuietBgp ==
  ASSUME BgpInv, NEW s \in Session, Hangup(s) \/ Accept(s)
  PROVE  BgpInv'
<1>1. Shapes
  BY DEF BgpInv
<1>2. /\ left' = left /\ hold' = hold /\ said' = said /\ wire' = wire
      /\ interval' = interval /\ pending' = pending /\ channel' = channel
      /\ taken' = taken
      /\ closed' \in [Session -> BOOLEAN] /\ phase' \in [Session -> Phase]
      /\ \A p \in Session : \/ phase'[p] = phase[p]
                            \/ phase[p] = "accept" /\ phase'[p] = "open"
  BY <1>1 DEF Hangup, Accept, Shapes, Phase, speaker
<1>3. Shapes'
  BY <1>1, <1>2 DEF Shapes
<1>4. \A p \in Session : Got(p)' = Got(p)
  BY <1>2 DEF Got
<1>5. ASSUME NEW p \in Session
      PROVE  HeardSoFar(p)' /\ Greets(p)'
  <2>1. CASE phase'[p] = phase[p]
    BY <1>2, <1>4, <2>1, Beside
  <2>2. CASE phase[p] = "accept" /\ phase'[p] = "open"
    <3>1. HeardSoFar(p) /\ Greets(p)
      BY DEF BgpInv
    <3>2. InStream(p)'
      BY <1>2, <1>4, <2>2, <3>1 DEF HeardSoFar, InStream
    <3> QED
      BY <1>2, <2>2, <3>1, <3>2 DEF HeardSoFar, Greets
  <2> QED
    BY <1>2, <2>1, <2>2
<1> QED
  BY <1>3, <1>5 DEF BgpInv

\* Whatever the two bytes are that are taken for its hold time.
LEMMA KeepaliveBounds ==
  ASSUME NEW greeting \in Greeting
  PROVE  KeepaliveEvery(greeting) \in 1 .. 20
<1> DEFINE body == OpenBytes(greeting)
           theirs == U16(body[3], body[4])
<1>1. greeting.as \in Nat /\ greeting.hold \in Nat
  <2>1. greeting \in [as : Word, hold : Word]
    BY SpeakerAssumption
  <2> QED
    BY <2>1 DEF Word
<1>2. \A n \in Nat : Bytes(n) \in Seq(Nat) /\ Len(Bytes(n)) = 2
  BY DEF Bytes
<1>3. body \in Seq(Nat) /\ Len(body) = 10
  <2> DEFINE a == Bytes(greeting.as)
             h == Bytes(greeting.hold)
             v == <<4>>
             t == <<10, 0, 0, 1, 0>>
  <2>1. a \in Seq(Nat) /\ h \in Seq(Nat) /\ Len(a) = 2 /\ Len(h) = 2
    BY <1>1, <1>2
  <2>2. v \in Seq(Nat) /\ Len(v) = 1 /\ t \in Seq(Nat) /\ Len(t) = 5
    OBVIOUS
  <2>3. body = v \o a \o h \o t
    BY DEF OpenBytes
  <2> DEFINE N == Nat
             va == v \o a
             vah == va \o h
  <2>4. /\ a \in Seq(N) /\ h \in Seq(N) /\ v \in Seq(N) /\ t \in Seq(N)
        /\ body = vah \o t
    BY <2>1, <2>2, <2>3
  <2> HIDE DEF a, h, v, t, body, N
  <2>5. va \in Seq(N) /\ Len(va) = Len(v) + Len(a)
    BY <2>4, ConcatProperties
  <2> HIDE DEF va
  <2>6. vah \in Seq(N) /\ Len(vah) = Len(va) + Len(h)
    BY <2>4, <2>5, ConcatProperties
  <2> HIDE DEF vah
  <2>7. body \in Seq(N) /\ Len(body) = Len(vah) + Len(t)
    BY <2>4, <2>6, ConcatProperties
  <2> QED
    BY <2>1, <2>2, <2>5, <2>6, <2>7 DEF N
<1> HIDE DEF body
<1>4. theirs \in Nat
  <2>1. body[3] \in Nat /\ body[4] \in Nat
    <3>1. 3 \in 1 .. Len(body) /\ 4 \in 1 .. Len(body)
      BY <1>3
    <3> QED
      BY <1>3, <3>1, ElementOfSeq
  <2> QED
    BY <2>1 DEF U16
<1> HIDE DEF theirs
<1> DEFINE agreed == IF theirs < OurHold THEN theirs ELSE OurHold
<1>5. agreed \in 0 .. 60
  BY <1>4 DEF OurHold
<1> HIDE DEF agreed
<1>6. (IF agreed = 0 THEN 20 ELSE IF agreed < 3 THEN 1 ELSE agreed \div 3) \in 1 .. 20
  BY <1>5
<1> QED
  BY <1>6 DEF KeepaliveEvery, agreed, theirs, body

\* A session that ends keeps what it has told.
LEMMA EndBgp ==
  ASSUME BgpInv, NEW s \in Session, phase[s] # "done", End(s),
         left' = left, hold' = hold, said' = said, closed' = closed,
         interval' = interval, pending' = pending, channel' = channel,
         taken' = taken
  PROVE  BgpInv'
<1>1. Shapes
  BY DEF BgpInv
<1>2. /\ phase' = [phase EXCEPT ![s] = "done"]
      /\ wire' = [wire EXCEPT ![s] = <<>>]
  BY DEF End
<1>3. Shapes'
  <2>1. <<>> \in Seq(Piece) /\ "done" \in Phase
    BY DEF Phase
  <2>2. wire' \in [Session -> Seq(Piece)] /\ phase' \in [Session -> Phase]
    BY <1>1, <1>2, <2>1 DEF Shapes
  <2> QED
    BY <1>1, <2>2 DEF Shapes
<1>4. \A p \in Session : Got(p)' = Got(p)
  BY DEF Got
<1>5. ASSUME NEW p \in Session
      PROVE  HeardSoFar(p)' /\ Greets(p)'
  <2>1. CASE p # s
    <3>1. phase'[p] = phase[p] /\ wire'[p] = wire[p]
      BY <1>1, <1>2, <2>1 DEF Shapes
    <3> QED
      BY <1>4, <3>1, Beside
  <2>2. CASE p = s
    <3>1. phase'[p] = "done"
      BY <1>1, <1>2, <2>2 DEF Shapes
    <3>2. PICK frames \in Seq(Frame) : said[p] = Got(p) \o Untold(frames)
      BY <2>2 DEF BgpInv, HeardSoFar, InStream
    <3>3. Untold(frames) \in Seq(AnyChange)
      BY SayingsType
    <3>4. HeardSoFar(p)'
      BY <1>4, <3>1, <3>2, <3>3 DEF HeardSoFar
    <3> QED
      BY <3>1, <3>4 DEF Greets
  <2> QED
    BY <2>1, <2>2
<1> QED
  BY <1>3, <1>5 DEF BgpInv

\* What a message that is read does to the history of its session.
LEMMA TakesOne ==
  ASSUME BgpInv, NEW s \in Session, phase[s] # "done", wire[s] # <<>>
  PROVE  \E frame \in Frame, rest \in Seq(Frame) :
           /\ Rest(wire[s]) = Following(rest)
           /\ MarkerOk(wire[s]) /\ TypeOf(wire[s]) = frame[1].type
           /\ frame[1].type = 2 => BodyOf(wire[s]) = frame[2].content
           /\ said[s] = Got(s) \o (Saying(frame) \o Untold(rest))
<1>1. PICK frames \in Seq(Frame) :
        wire[s] = Following(frames) /\ said[s] = Got(s) \o Untold(frames)
  BY DEF BgpInv, HeardSoFar, InStream
<1>2. frames # <<>>
  BY <1>1, StartsWithHeader
<1>3. PICK frame \in Frame, rest \in Seq(Frame) :
        /\ Following(frames) = frame \o Following(rest)
        /\ Untold(frames) = Saying(frame) \o Untold(rest)
  BY <1>2, OneLess
<1>4. frame[1].type = 2 => Len(frame) = 2
  <2>1. Keepalive[1].type # 2
    BY DEF Keepalive, Header
  <2>2. /\ \A greeting : Len(Opening(greeting)) = 2
        /\ \A update : Len(Telling(update)) = 2
        /\ Len(Notification) = 2 /\ Len(RouteRefresh) = 2
    BY DEF Opening, Telling, Notification, RouteRefresh
  <2> QED
    BY <2>1, <2>2 DEF Frame
<1>5. /\ Rest(wire[s]) = Following(rest)
      /\ MarkerOk(wire[s]) /\ TypeOf(wire[s]) = frame[1].type
      /\ Len(frame) = 2 => BodyOf(wire[s]) = frame[2].content
  BY <1>1, <1>3, ReadsOne
<1> QED
  BY <1>1, <1>3, <1>4, <1>5

LEMMA ReadOpenBgp ==
  ASSUME BgpInv, NEW s \in Session, ReadOpen(s)
  PROVE  BgpInv'
<1>1. Shapes
  BY DEF BgpInv
<1>2. /\ phase[s] = "open" /\ wire[s] # <<>>
      /\ left' = left /\ hold' = hold /\ said' = said /\ closed' = closed
      /\ pending' = pending /\ channel' = channel /\ taken' = taken
  BY DEF ReadOpen, speaker
<1>3. PICK frame \in Frame, rest \in Seq(Frame) :
        /\ Rest(wire[s]) = Following(rest)
        /\ TypeOf(wire[s]) = frame[1].type
        /\ said[s] = Got(s) \o (Saying(frame) \o Untold(rest))
  BY <1>2, TakesOne
<1>4. CASE MarkerOk(wire[s]) /\ TypeOf(wire[s]) = 1
  <2>1. /\ phase' = [phase EXCEPT ![s] = "read"]
        /\ wire' = [wire EXCEPT ![s] = Rest(@)]
        /\ interval' = [interval EXCEPT ![s] = KeepaliveEvery(BodyOf(wire[s]))]
    BY <1>4 DEF ReadOpen
  <2>2. KeepaliveEvery(BodyOf(wire[s])) \in 1 .. 20
    <3>1. BodyOf(wire[s]) \in Greeting
      BY <1>2 DEF BgpInv, Greets
    <3> QED
      BY <3>1, KeepaliveBounds
  <2>3. Shapes'
    <3>1. phase' \in [Session -> Phase] /\ interval' \in [Session -> 0 .. 20]
      BY <1>1, <2>1, <2>2 DEF Shapes, Phase
    <3>2. Rest(wire[s]) \in Seq(Piece)
      BY <1>3, StartsWithHeader
    <3>3. wire' \in [Session -> Seq(Piece)]
      BY <1>1, <2>1, <3>2 DEF Shapes
    <3> QED
      BY <1>1, <1>2, <3>1, <3>3 DEF Shapes
  <2>4. \A p \in Session : Got(p)' = Got(p)
    BY <1>2 DEF Got
  <2>5. ASSUME NEW p \in Session
        PROVE  HeardSoFar(p)' /\ Greets(p)'
    <3>1. CASE p # s
      <4>1. phase'[p] = phase[p] /\ wire'[p] = wire[p] /\ interval'[p] = interval[p]
        BY <1>1, <2>1, <3>1 DEF Shapes
      <4> QED
        BY <1>2, <2>4, <4>1, Beside
    <3>2. CASE p = s
      <4>1. /\ phase'[p] = "read" /\ wire'[p] = Following(rest)
            /\ interval'[p] = KeepaliveEvery(BodyOf(wire[s]))
        BY <1>1, <1>3, <2>1, <3>2 DEF Shapes
      <4>2. Saying(frame) = <<>>
        BY <1>3, <1>4 DEF Saying
      <4>3. Saying(frame) \o Untold(rest) = Untold(rest)
        <5>1. Untold(rest) \in Seq(AnyChange)
          BY SayingsType
        <5> QED
          BY <4>2, <5>1, ConcatEmptySeq
      <4>4. InStream(p)'
        BY <1>2, <1>3, <2>4, <3>2, <4>1, <4>3 DEF InStream
      <4> QED
        BY <2>2, <4>1, <4>4 DEF HeardSoFar, Greets
    <3> QED
      BY <3>1, <3>2
  <2> QED
    BY <2>3, <2>5 DEF BgpInv
<1>5. CASE ~(MarkerOk(wire[s]) /\ TypeOf(wire[s]) = 1)
  <2>1. End(s) /\ interval' = interval
    BY <1>5 DEF ReadOpen
  <2> QED
    BY <1>2, <2>1, EndBgp
<1> QED
  BY <1>4, <1>5

LEMMA ReadMessageBgp ==
  ASSUME BgpInv, NEW s \in Session, ReadMessage(s)
  PROVE  BgpInv'
<1>1. Shapes
  BY DEF BgpInv
<1>2. /\ phase[s] = "read" /\ wire[s] # <<>> /\ pending[s] = <<>>
      /\ left' = left /\ hold' = hold /\ said' = said /\ closed' = closed
      /\ interval' = interval /\ channel' = channel /\ taken' = taken
  BY DEF ReadMessage, speaker
<1>3. PICK frame \in Frame, rest \in Seq(Frame) :
        /\ Rest(wire[s]) = Following(rest)
        /\ TypeOf(wire[s]) = frame[1].type
        /\ frame[1].type = 2 => BodyOf(wire[s]) = frame[2].content
        /\ said[s] = Got(s) \o (Saying(frame) \o Untold(rest))
  BY <1>2, TakesOne
<1>4. CASE ~MarkerOk(wire[s]) \/ TypeOf(wire[s]) = 3
  <2>1. End(s) /\ pending' = pending
    BY <1>4 DEF ReadMessage
  <2> QED
    BY <1>2, <2>1, EndBgp
<1>5. CASE ~(~MarkerOk(wire[s]) \/ TypeOf(wire[s]) = 3)
  <2>1. /\ wire' = [wire EXCEPT ![s] = Rest(@)] /\ phase' = phase
        /\ pending' = [pending EXCEPT ![s] = Saying(frame)]
    BY <1>3, <1>5, ParsedIsSaid DEF ReadMessage, Saying
  <2>2. Saying(frame) \in Seq(AnyChange) /\ Following(rest) \in Seq(Piece)
    BY SayingType, StartsWithHeader
  <2>3. Shapes'
    <3>1. wire' \in [Session -> Seq(Piece)]
      BY <1>1, <1>3, <2>1, <2>2 DEF Shapes
    <3>2. pending' \in [Session -> Seq(AnyChange)]
      BY <1>1, <2>1, <2>2 DEF Shapes
    <3> QED
      BY <1>1, <1>2, <2>1, <3>1, <3>2 DEF Shapes
  <2>4. ASSUME NEW p \in Session
        PROVE  HeardSoFar(p)' /\ Greets(p)'
    <3>1. CASE p # s
      <4>1. wire'[p] = wire[p] /\ pending'[p] = pending[p]
        BY <1>1, <2>1, <3>1 DEF Shapes
      <4>2. Got(p)' = Got(p)
        BY <1>2, <4>1 DEF Got
      <4> QED
        BY <1>2, <2>1, <4>1, <4>2, Beside
    <3>2. CASE p = s
      <4> DEFINE heard == taken[s] \o FlattenSeq(Owns(channel, s))
      <4>1. /\ heard \in Seq(AnyChange) /\ Untold(rest) \in Seq(AnyChange)
        <5>1. /\ FlattenSeq(Owns(channel, s)) \in Seq(AnyChange)
              /\ taken[s] \in Seq(AnyChange)
          BY <1>1, GotType DEF Shapes
        <5> HIDE DEF Owns
        <5> QED
          BY <5>1, SayingsType, ConcatProperties
      <4>2. wire'[s] = Following(rest) /\ pending'[s] = Saying(frame)
        BY <1>1, <1>3, <2>1 DEF Shapes
      <4>3. Got(s) = heard \o <<>> /\ Got(s)' = heard \o Saying(frame)
        BY <1>2, <4>2 DEF Got
      <4> HIDE DEF heard
      <4>4. said[s] = heard \o (Saying(frame) \o Untold(rest))
        BY <1>3, <4>1, <4>3, ConcatEmptySeq
      <4>5. heard \o (Saying(frame) \o Untold(rest))
              = (heard \o Saying(frame)) \o Untold(rest)
        BY <2>2, <4>1, Regroup
      <4>6. InStream(s)'
        BY <1>2, <4>2, <4>3, <4>4, <4>5 DEF InStream
      <4> QED
        BY <1>2, <2>1, <3>2, <4>6 DEF HeardSoFar, Greets
    <3> QED
      BY <3>1, <3>2
  <2> QED
    BY <2>3, <2>4 DEF BgpInv
<1> QED
  BY <1>4, <1>5

LEMMA StreamEndsBgp ==
  ASSUME BgpInv, NEW s \in Session, StreamEnds(s)
  PROVE  BgpInv'
<1>1. /\ phase[s] # "done" /\ End(s)
      /\ left' = left /\ hold' = hold /\ said' = said /\ closed' = closed
      /\ interval' = interval /\ pending' = pending /\ channel' = channel
      /\ taken' = taken
  BY DEF StreamEnds, speaker
<1> QED
  BY <1>1, EndBgp

\* A change moves from the session to the channel.
LEMMA SendBgp ==
  ASSUME BgpInv, NEW s \in Session, Send(s)
  PROVE  BgpInv'
<1> DEFINE entry == [session |-> s, change |-> Head(pending[s])]
<1>1. Shapes
  BY DEF BgpInv
<1>2. /\ pending[s] # <<>> /\ Len(channel) < Capacity
      /\ channel' = Append(channel, entry)
      /\ pending' = [pending EXCEPT ![s] = Tail(@)]
      /\ left' = left /\ hold' = hold /\ said' = said /\ closed' = closed
      /\ wire' = wire /\ phase' = phase /\ interval' = interval /\ taken' = taken
  BY DEF Send, speaker
<1>3. /\ Head(pending[s]) \in AnyChange /\ Tail(pending[s]) \in Seq(AnyChange)
      /\ pending[s] = <<Head(pending[s])>> \o Tail(pending[s])
      /\ <<Head(pending[s])>> \in Seq(AnyChange)
  <2>1. pending[s] \in Seq(AnyChange)
    BY <1>1 DEF Shapes
  <2> QED
    BY <1>2, <2>1, HeadTailProperties
<1>4. entry \in Entry /\ channel \in Seq(Entry)
  BY <1>1, <1>3 DEF Entry, Shapes
<1>5. Shapes'
  <2>1. Append(channel, entry) \in Seq(Entry)
        /\ Len(Append(channel, entry)) = Len(channel) + 1
    BY <1>4, AppendProperties
  <2>2. channel' \in Seq(Entry) /\ Len(channel') <= Capacity
    BY <1>2, <1>4, <2>1, BoundAssumption, LenProperties
  <2>3. pending' \in [Session -> Seq(AnyChange)]
    BY <1>1, <1>2, <1>3 DEF Shapes
  <2> QED
    BY <1>1, <1>2, <2>2, <2>3 DEF Shapes
<1>6. ASSUME NEW p \in Session
      PROVE  Got(p)' = Got(p)
  <2> DEFINE q == FlattenSeq(Owns(channel, p))
  <2>1. q \in Seq(AnyChange) /\ taken[p] \in Seq(AnyChange)
        /\ pending[p] \in Seq(AnyChange)
    BY <1>1, GotType DEF Shapes
  <2>2. FlattenSeq(Owns(channel', p)) = q \o Own(entry, p)
    BY <1>2, <1>4, OwnsAppend
  <2>3. Got(p) = (taken[p] \o q) \o pending[p]
        /\ Got(p)' = (taken[p] \o (q \o Own(entry, p))) \o pending'[p]
    BY <1>2, <2>2 DEF Got
  <2> HIDE DEF q, entry
  <2>4. CASE p # s
    <3>1. Own(entry, p) = <<>> /\ pending'[p] = pending[p]
      BY <1>1, <1>2, <2>4 DEF Own, Shapes, entry
    <3> QED
      BY <2>1, <2>3, <3>1, ConcatEmptySeq
  <2>5. CASE p = s
    <3> DEFINE h == <<Head(pending[s])>>
               t == Tail(pending[s])
    <3>1. Own(entry, p) = h /\ pending'[p] = t /\ pending[p] = h \o t
      BY <1>1, <1>2, <1>3, <2>5 DEF Own, Shapes, entry
    <3>2. h \in Seq(AnyChange) /\ t \in Seq(AnyChange)
      BY <1>3
    <3> HIDE DEF h, t
    <3>3. Regroups(taken[p] \o q, h, t)
      <4>1. taken[p] \o q \in Seq(AnyChange)
        BY <2>1, ConcatProperties
      <4> QED
        BY <3>2, <4>1, ConcatRegroups
    <3>4. Regroups(taken[p], q, h)
      BY <2>1, <3>2, ConcatRegroups
    <3> QED
      BY <2>3, <3>1, <3>3, <3>4 DEF Regroups
  <2> QED
    BY <2>4, <2>5
<1>7. \A p \in Session : HeardSoFar(p)' /\ Greets(p)'
  BY <1>2, <1>6, Beside
<1> QED
  BY <1>5, <1>7 DEF BgpInv

\* The detector takes the oldest change of the channel.
LEMMA ReceiveBgp ==
  ASSUME BgpInv, Receive
  PROVE  BgpInv'
<1> DEFINE entry == Head(channel)
           rest == Tail(channel)
<1>1. Shapes
  BY DEF BgpInv
<1>2. /\ channel # <<>> /\ channel' = rest
      /\ taken' = [taken EXCEPT ![entry.session] = Append(@, entry.change)]
      /\ left' = left /\ hold' = hold /\ said' = said /\ closed' = closed
      /\ wire' = wire /\ phase' = phase /\ interval' = interval
      /\ pending' = pending
  BY DEF Receive, speaker
<1>3. /\ entry \in Entry /\ rest \in Seq(Entry) /\ Len(rest) = Len(channel) - 1
      /\ Len(channel) \in Nat
      /\ \A p \in Session : FlattenSeq(Owns(channel, p))
                              = Own(entry, p) \o FlattenSeq(Owns(rest, p))
  BY <1>1, <1>2, OwnsTail, LenProperties DEF Shapes
<1> HIDE DEF entry, rest
<1>4. ASSUME NEW p \in Session
      PROVE  taken'[p] = taken[p] \o Own(entry, p)
             /\ taken'[p] \in Seq(AnyChange)
  <2>1. taken[p] \in Seq(AnyChange)
    BY <1>1 DEF Shapes
  <2>2. CASE p = entry.session
    <3>1. taken'[p] = Append(taken[p], entry.change) /\ entry.change \in AnyChange
      BY <1>1, <1>2, <1>3, <2>2 DEF Shapes, Entry
    <3>2. Own(entry, p) = <<entry.change>>
      BY <2>2 DEF Own
    <3> QED
      BY <2>1, <3>1, <3>2, AppendIsConcat, AppendProperties
  <2>3. CASE p # entry.session
    <3>1. taken'[p] = taken[p] /\ Own(entry, p) = <<>>
      BY <1>1, <1>2, <2>3 DEF Shapes, Own
    <3> QED
      BY <2>1, <3>1, ConcatEmptySeq
  <2> QED
    BY <2>2, <2>3
<1>5. Shapes'
  <2>1. channel' \in Seq(Entry) /\ Len(channel') <= Capacity
    BY <1>1, <1>2, <1>3, BoundAssumption DEF Shapes
  <2>2. taken' \in [Session -> Seq(AnyChange)]
    BY <1>1, <1>2, <1>4 DEF Shapes
  <2> QED
    BY <1>1, <1>2, <2>1, <2>2 DEF Shapes
<1>6. ASSUME NEW p \in Session
      PROVE  Got(p)' = Got(p)
  <2> DEFINE q == FlattenSeq(Owns(rest, p))
             o == Own(entry, p)
  <2>1. q \in Seq(AnyChange) /\ o \in Seq(AnyChange) /\ taken[p] \in Seq(AnyChange)
    BY <1>1, <1>3, OwnsType, OwnType, FlattenType DEF Shapes
  <2>2. Got(p) = (taken[p] \o (o \o q)) \o pending[p]
        /\ Got(p)' = ((taken[p] \o o) \o q) \o pending[p]
    BY <1>2, <1>3, <1>4 DEF Got
  <2> HIDE DEF q, o
  <2>3. taken[p] \o (o \o q) = (taken[p] \o o) \o q
    BY <2>1, Regroup
  <2> QED
    BY <2>2, <2>3
<1>7. \A p \in Session : HeardSoFar(p)' /\ Greets(p)'
  BY <1>2, <1>6, Beside
<1> QED
  BY <1>5, <1>7 DEF BgpInv

LEMMA StepBgp ==
  ASSUME BgpInv, [Next]_vars
  PROVE  BgpInv'
<1>1. ASSUME NEW s \in Session,
             \/ SayOpen(s) \/ SayUpdate(s) \/ SayOther(s) \/ Hangup(s)
             \/ Accept(s) \/ Reader(s)
      PROVE  BgpInv'
  BY <1>1, SpeakBgp, QuietBgp, ReadOpenBgp, ReadMessageBgp, StreamEndsBgp, SendBgp
  DEF Reader
<1>2. CASE Receive
  BY <1>2, ReceiveBgp
<1>3. CASE UNCHANGED vars
  <2>1. /\ left' = left /\ hold' = hold /\ said' = said /\ closed' = closed
        /\ wire' = wire /\ phase' = phase /\ interval' = interval
        /\ pending' = pending /\ channel' = channel /\ taken' = taken
    BY <1>3 DEF vars, speaker
  <2>2. Shapes'
    BY <2>1 DEF BgpInv, Shapes
  <2>3. \A p \in Session : Got(p)' = Got(p)
    BY <2>1 DEF Got
  <2>4. \A p \in Session : HeardSoFar(p)' /\ Greets(p)'
    BY <2>1, <2>3, Beside
  <2> QED
    BY <2>2, <2>4 DEF BgpInv
<1> QED
  BY <1>1, <1>2, <1>3 DEF Next

LEMMA AlwaysBgp == Spec => []BgpInv
<1>1. Init => BgpInv
  BY InitBgp
<1>2. BgpInv /\ [Next]_vars => BgpInv'
  BY StepBgp
<1> QED
  BY <1>1, <1>2, PTL DEF Spec

-----------------------------------------------------------------------------
(* The theorems *)

\* The channel is never longer than its capacity, and every variable keeps its
\* type.
THEOREM ListenerTyping == Spec => []TypeOK
<1>1. BgpInv => TypeOK
  <2> SUFFICES ASSUME BgpInv PROVE TypeOK
    OBVIOUS
  <2>1. Shapes
    BY DEF BgpInv
  <2>2. \A s \in Session : left[s] \in 0 .. MaxSent[s]
    BY <2>1, BoundAssumption DEF Shapes
  <2>3. interval \in [Session -> 0 .. OurHold]
    BY <2>1 DEF Shapes, OurHold
  <2> QED
    BY <2>1, <2>2, <2>3 DEF Shapes, TypeOK
<1> QED
  BY <1>1, AlwaysBgp, PTL

LEMMA PrefixOfConcat ==
  ASSUME NEW S, NEW s \in Seq(S), NEW t \in Seq(S)
  PROVE  IsPrefix(s, s \o t)
<1>1. /\ Len(s) \in Nat /\ Len(t) \in Nat /\ s \o t \in Seq(S)
      /\ Len(s \o t) = Len(s) + Len(t)
  BY ConcatProperties, LenProperties
<1>2. SubSeq(s \o t, 1, Len(s)) = SubSeq(s, 1, Len(s))
  <2>1. CASE Len(s) = 0
    BY <2>1, SubSeqEmpty
  <2>2. CASE Len(s) # 0
    <3>1. 1 \in 1 .. Len(s) /\ Len(s) \in 1 .. Len(s)
      BY <1>1, <2>2
    <3> QED
      BY <3>1, SubSeqOfConcat1
  <2> QED
    BY <2>1, <2>2
<1> QED
  BY <1>1, <1>2 DEF IsPrefix

\* What the detector is told of a session is what its speaker announced: every
\* change once, in order, whatever messages come in between and wherever the
\* stream ends.
THEOREM WhatIsSaidIsReported == Spec => []ReportsWhatIsSaid
<1>1. BgpInv => ReportsWhatIsSaid
  <2> SUFFICES ASSUME BgpInv, NEW s \in Session
               PROVE  IsPrefix(taken[s] \o Queued(s) \o pending[s], said[s])
    BY DEF ReportsWhatIsSaid
  <2>1. Got(s) = taken[s] \o Queued(s) \o pending[s]
    BY DEF Got, Queued, Owns
  <2>2. Got(s) \in Seq(AnyChange)
    BY GotType DEF BgpInv
  <2>3. PICK rest \in Seq(AnyChange) : said[s] = Got(s) \o rest
    BY SayingsType DEF BgpInv, HeardSoFar, InStream
  <2> QED
    BY <2>1, <2>2, <2>3, PrefixOfConcat
<1> QED
  BY <1>1, AlwaysBgp, PTL

=============================================================================
