----------------------------- MODULE FlapProofs -----------------------------
(***************************************************************************)
(* Proofs about FlapDetector, for any prefixes, periods and bounds.        *)
(***************************************************************************)
EXTENDS FlapDetector, WellFoundedInduction, SequenceTheorems, TLAPS

-----------------------------------------------------------------------------
(* Induction, with a set in the place of a predicate *)

LEMMA NatSetInduction ==
  ASSUME NEW S, 0 \in S, \A n \in Nat : n \in S => n + 1 \in S
  PROVE  Nat \subseteq S
<1> DEFINE T == Nat \ S
<1>1. SUFFICES ASSUME T # {} PROVE FALSE
  OBVIOUS
<1>2. PICK x \in T : \A y \in T : ~ (<<y, x>> \in OpToRel(<, Nat))
  BY <1>1, WFMin, NatLessThanWellFounded
<1>3. x # 0 /\ x - 1 \in Nat /\ x - 1 < x
  OBVIOUS
<1>4. x - 1 \in T
  OBVIOUS
<1>5. <<x - 1, x>> \in OpToRel(<, Nat)
  BY <1>3 DEF OpToRel
<1> QED
  BY <1>2, <1>4, <1>5

LEMMA SeqSetInduction ==
  ASSUME NEW S, NEW T, <<>> \in T,
         \A s \in Seq(S), e \in S : s \in T => Append(s, e) \in T
  PROVE  Seq(S) \subseteq T
<1> DEFINE N == {n \in Nat : \A s \in Seq(S) : Len(s) = n => s \in T}
<1>1. 0 \in N
  BY EmptySeq
<1>2. ASSUME NEW n \in Nat, n \in N PROVE n + 1 \in N
  <2> SUFFICES ASSUME NEW s \in Seq(S), Len(s) = n + 1 PROVE s \in T
    OBVIOUS
  <2>1. s # <<>>
    OBVIOUS
  <2>2. PICK t \in Seq(S), e \in S : s = Append(t, e)
    BY <2>1, SequenceEmptyOrAppend
  <2>3. Len(t) = n
    BY <2>2, LenProperties, AppendProperties
  <2> QED
    BY <1>2, <2>2, <2>3
<1> HIDE DEF N
<1>3. Nat \subseteq N
  BY <1>1, <1>2, NatSetInduction
<1> QED
  BY <1>3, LenProperties DEF N

-----------------------------------------------------------------------------
(* What Retain does *)

\* upTo is the function that Retain(ages, kept) defines.
Retains(upTo, ages, kept) ==
    upTo = [i \in 0 .. Len(ages) |->
              IF i = 0 THEN <<>>
              ELSE IF ages[i] \in kept THEN Append(upTo[i - 1], ages[i])
              ELSE upTo[i - 1]]

LEMMA RetainDefined ==
  ASSUME NEW S, NEW ages \in Seq(S), NEW kept
  PROVE  \E upTo :
           /\ upTo[0] = <<>>
           /\ \A i \in 0 .. Len(ages) - 1 :
                upTo[i + 1] = IF ages[i + 1] \in kept
                              THEN Append(upTo[i], ages[i + 1]) ELSE upTo[i]
           /\ Retain(ages, kept) = upTo[Len(ages)]
<1> DEFINE After(g, i) == IF ages[i] \in kept THEN Append(g[i - 1], ages[i])
                                             ELSE g[i - 1]
           Good(g, n) == /\ g = [i \in 0 .. n |-> g[i]]
                         /\ g[0] = <<>>
                         /\ \A i \in 1 .. n : g[i] = After(g, i)
           Sizes == {k \in Nat : \E g : Good(g, k)}
<1>1. 0 \in Sizes
  <2>1. Good([i \in 0 .. 0 |-> <<>>], 0)
    OBVIOUS
  <2> QED
    BY <2>1
<1>2. ASSUME NEW n \in Nat, n \in Sizes PROVE n + 1 \in Sizes
  <2>1. PICK g : Good(g, n)
    BY <1>2
  <2> DEFINE h == [i \in 0 .. n + 1 |-> IF i = n + 1 THEN After(g, i) ELSE g[i]]
  <2>2. ASSUME NEW i \in 1 .. n + 1 PROVE h[i] = After(h, i)
    <3>1. h[i - 1] = g[i - 1] /\ h[i] = IF i = n + 1 THEN After(g, i) ELSE g[i]
      OBVIOUS
    <3>2. i # n + 1 => g[i] = After(g, i)
      <4>1. \A j \in 1 .. n : g[j] = After(g, j)
        BY <2>1, Zenon
      <4> HIDE DEF After
      <4> QED
        BY <4>1
    <3>3. After(h, i) = After(g, i)
      <4> HIDE DEF h
      <4> QED
        BY <3>1
    <3> HIDE DEF h, After
    <3> QED
      BY <3>1, <3>2, <3>3
  <2>3. h[0] = <<>>
    BY <2>1
  <2>4. Good(h, n + 1)
    BY <2>2, <2>3
  <2> HIDE DEF h, Good
  <2> QED
    BY <2>4
<1>3. Len(ages) \in Sizes
  <2> HIDE DEF Sizes
  <2> QED
    BY <1>1, <1>2, NatSetInduction, LenProperties
<1>4. PICK g : Good(g, Len(ages))
  BY <1>3
<1>5. Retains(g, ages, kept)
  <2>1. Len(ages) \in Nat
    BY LenProperties
  <2>2. ASSUME NEW i \in 0 .. Len(ages)
        PROVE  g[i] = IF i = 0 THEN <<>> ELSE After(g, i)
    <3>1. i = 0 \/ i \in 1 .. Len(ages)
      BY <2>1
    <3> QED
      BY <1>4, <2>1, <3>1
  <2> QED
    BY <1>4, <2>2 DEF Retains
<1> DEFINE f == CHOOSE f : Retains(f, ages, kept)
<1>6. Retains(f, ages, kept)
  BY <1>5
<1>7. Retain(ages, kept) = f[Len(ages)]
  BY DEF Retain, Retains
<1> HIDE DEF f
<1>8. ASSUME NEW i \in 0 .. Len(ages) - 1
      PROVE  f[i + 1] = IF ages[i + 1] \in kept THEN Append(f[i], ages[i + 1]) ELSE f[i]
  <2>1. i + 1 \in 0 .. Len(ages) /\ i + 1 # 0 /\ (i + 1) - 1 = i
    BY LenProperties
  <2> QED
    BY <1>6, <2>1 DEF Retains
<1>9. f[0] = <<>>
  BY <1>6, LenProperties DEF Retains
<1> QED
  BY <1>7, <1>8, <1>9

LEMMA RetainEmpty ==
  ASSUME NEW kept
  PROVE  Retain(<<>>, kept) = <<>>
<1>1. <<>> \in Seq({}) /\ Len(<<>>) = 0
  BY EmptySeq
<1> QED
  BY <1>1, RetainDefined

LEMMA RetainAppend ==
  ASSUME NEW S, NEW ages \in Seq(S), NEW age \in S, NEW kept
  PROVE  Retain(Append(ages, age), kept) =
           IF age \in kept THEN Append(Retain(ages, kept), age)
                           ELSE Retain(ages, kept)
<1> DEFINE more == Append(ages, age)
<1>1. /\ more \in Seq(S) /\ Len(ages) \in Nat /\ Len(more) = Len(ages) + 1
      /\ more[Len(ages) + 1] = age
      /\ \A i \in 1 .. Len(ages) : more[i] = ages[i]
  BY AppendProperties, LenProperties
<1> HIDE DEF more
<1>2. PICK f : /\ f[0] = <<>>
               /\ \A i \in 0 .. Len(ages) - 1 :
                    f[i + 1] = IF ages[i + 1] \in kept
                               THEN Append(f[i], ages[i + 1]) ELSE f[i]
               /\ Retain(ages, kept) = f[Len(ages)]
  BY RetainDefined
<1>3. PICK g : /\ g[0] = <<>>
               /\ \A i \in 0 .. Len(more) - 1 :
                    g[i + 1] = IF more[i + 1] \in kept
                               THEN Append(g[i], more[i + 1]) ELSE g[i]
               /\ Retain(more, kept) = g[Len(more)]
  BY <1>1, RetainDefined
<1> DEFINE Same == {i \in Nat : i <= Len(ages) => f[i] = g[i]}
<1>4. 0 \in Same
  BY <1>2, <1>3
<1>5. ASSUME NEW i \in Nat, i \in Same PROVE i + 1 \in Same
  <2> SUFFICES ASSUME i + 1 <= Len(ages) PROVE f[i + 1] = g[i + 1]
    OBVIOUS
  <2>1. f[i] = g[i] /\ more[i + 1] = ages[i + 1]
    BY <1>1, <1>5
  <2>2. i \in 0 .. Len(ages) - 1 /\ i \in 0 .. Len(more) - 1
    BY <1>1
  <2> QED
    BY <1>2, <1>3, <2>1, <2>2
<1> HIDE DEF Same
<1>6. Len(ages) \in Same
  BY <1>1, <1>4, <1>5, NatSetInduction
<1>7. f[Len(ages)] = g[Len(ages)]
  BY <1>1, <1>6 DEF Same
<1> QED
  BY <1>1, <1>2, <1>3, <1>7 DEF more

\* It keeps what it should, and no more than there is.
LEMMA RetainType ==
  ASSUME NEW S, NEW kept, NEW ages \in Seq(S)
  PROVE  /\ Retain(ages, kept) \in Seq(S \cap kept)
         /\ Len(Retain(ages, kept)) <= Len(ages)
<1> DEFINE Good == {s \in Seq(S) : /\ Retain(s, kept) \in Seq(S \cap kept)
                                   /\ Len(Retain(s, kept)) <= Len(s)}
<1>1. <<>> \in Good
  <2> DEFINE none == Retain(<<>>, kept)
  <2>1. <<>> \in Seq(S) /\ <<>> \in Seq(S \cap kept) /\ Len(<<>>) = 0
    BY EmptySeq
  <2>2. none = <<>>
    BY RetainEmpty
  <2> HIDE DEF none
  <2>3. none \in Seq(S \cap kept) /\ Len(none) <= Len(<<>>)
    BY <2>1, <2>2
  <2> QED
    BY <2>1, <2>3 DEF none
<1>2. ASSUME NEW s \in Seq(S), NEW e \in S, s \in Good
      PROVE  Append(s, e) \in Good
  <2>1. Append(s, e) \in Seq(S) /\ Len(Append(s, e)) = Len(s) + 1 /\ Len(s) \in Nat
    BY AppendProperties, LenProperties
  <2>2. CASE e \in kept
    <3>1. /\ Append(Retain(s, kept), e) \in Seq(S \cap kept)
          /\ Len(Append(Retain(s, kept), e)) = Len(Retain(s, kept)) + 1
          /\ Len(Retain(s, kept)) \in Nat
      <4> DEFINE r == Retain(s, kept)
      <4>1. r \in Seq(S \cap kept) /\ e \in S \cap kept
        BY <1>2, <2>2
      <4> HIDE DEF r
      <4>2. /\ Append(r, e) \in Seq(S \cap kept)
            /\ Len(Append(r, e)) = Len(r) + 1
            /\ Len(r) \in Nat
        BY <4>1, AppendProperties, LenProperties
      <4> QED
        BY <4>2 DEF r
    <3>2. Retain(Append(s, e), kept) = Append(Retain(s, kept), e)
      BY <2>2, RetainAppend
    <3> QED
      BY <1>2, <2>1, <3>1, <3>2
  <2>3. CASE e \notin kept
    <3>1. Retain(Append(s, e), kept) = Retain(s, kept)
      BY <2>3, RetainAppend
    <3>2. Len(Retain(s, kept)) \in Nat
      BY <1>2, LenProperties
    <3> QED
      BY <1>2, <2>1, <3>1, <3>2
  <2> QED
    BY <2>2, <2>3
<1> HIDE DEF Good
<1>3. Seq(S) \subseteq Good
  BY <1>1, <1>2, SeqSetInduction
<1> QED
  BY <1>3 DEF Good

\* It takes nothing away when all is to be kept.
LEMMA RetainAll ==
  ASSUME NEW kept, NEW ages \in Seq(kept)
  PROVE  Retain(ages, kept) = ages
<1> DEFINE Good == {s \in Seq(kept) : Retain(s, kept) = s}
<1>1. <<>> \in Good
  BY RetainEmpty, EmptySeq
<1>2. ASSUME NEW s \in Seq(kept), NEW e \in kept, s \in Good
      PROVE  Append(s, e) \in Good
  BY <1>2, RetainAppend, AppendProperties
<1> HIDE DEF Good
<1>3. Seq(kept) \subseteq Good
  BY <1>1, <1>2, SeqSetInduction
<1> QED
  BY <1>3 DEF Good

LEMMA ConcatAppend ==
  ASSUME NEW S, NEW s \in Seq(S), NEW t \in Seq(S), NEW e \in S
  PROVE  s \o Append(t, e) = Append(s \o t, e)
<1>1. <<e>> \in Seq(S)
  OBVIOUS
<1>2. Append(t, e) = t \o <<e>> /\ Append(s \o t, e) = (s \o t) \o <<e>>
  BY AppendIsConcat, ConcatProperties
<1> QED
  BY <1>1, <1>2, ConcatAssociative

\* It works on each half of a sequence.
LEMMA RetainConcat ==
  ASSUME NEW S, NEW kept, NEW s \in Seq(S), NEW t \in Seq(S)
  PROVE  Retain(s \o t, kept) = Retain(s, kept) \o Retain(t, kept)
<1> DEFINE Good == {u \in Seq(S) :
                      Retain(s \o u, kept) = Retain(s, kept) \o Retain(u, kept)}
<1>1. <<>> \in Good
  <2>1. s \o <<>> = s /\ <<>> \in Seq(S)
    BY EmptySeq, ConcatEmptySeq
  <2>2. Retain(s, kept) \in Seq(S \cap kept)
    BY RetainType
  <2>3. Retain(s, kept) \o <<>> = Retain(s, kept)
    BY <2>2, ConcatEmptySeq
  <2> QED
    BY <2>1, <2>3, RetainEmpty
<1>2. ASSUME NEW u \in Seq(S), NEW e \in S, u \in Good
      PROVE  Append(u, e) \in Good
  <2> DEFINE rs == Retain(s, kept)
             ru == Retain(u, kept)
  <2>1. s \o Append(u, e) = Append(s \o u, e) /\ s \o u \in Seq(S)
        /\ Append(u, e) \in Seq(S)
    BY ConcatAppend, ConcatProperties, AppendProperties
  <2>2. rs \in Seq(S \cap kept) /\ ru \in Seq(S \cap kept)
    BY RetainType
  <2>3. Retain(s \o u, kept) = rs \o ru
    BY <1>2
  <2>4. /\ Retain(Append(s \o u, e), kept) =
             IF e \in kept THEN Append(rs \o ru, e) ELSE rs \o ru
        /\ Retain(Append(u, e), kept) = IF e \in kept THEN Append(ru, e) ELSE ru
    <3>1. Retain(Append(s \o u, e), kept) =
            IF e \in kept THEN Append(Retain(s \o u, kept), e) ELSE Retain(s \o u, kept)
      BY <2>1, RetainAppend
    <3>2. Retain(Append(u, e), kept) = IF e \in kept THEN Append(ru, e) ELSE ru
      BY RetainAppend
    <3> QED
      BY <2>3, <3>1, <3>2
  <2> HIDE DEF rs, ru
  <2>5. e \in kept => rs \o Append(ru, e) = Append(rs \o ru, e)
    BY <2>2, ConcatAppend
  <2>6. Retain(s \o Append(u, e), kept) = rs \o Retain(Append(u, e), kept)
    BY <2>1, <2>4, <2>5
  <2> QED
    BY <2>1, <2>6 DEF rs
<1> HIDE DEF Good
<1>3. Seq(S) \subseteq Good
  BY <1>1, <1>2, SeqSetInduction
<1> QED
  BY <1>3 DEF Good

-----------------------------------------------------------------------------
(* Lists of ages *)

LEMMA Periods ==
  /\ Age \subseteq Nat /\ 0 \in Age /\ 0 \in 0 .. Window
  /\ 0 .. Window \subseteq Age /\ Age \cap (0 .. Window) = 0 .. Window
  /\ Window \in Nat /\ Resolve \in Nat /\ Ttl \in Nat /\ Resolve <= Ttl
  /\ \A age \in Age : /\ Older(age) \in Age /\ age <= Older(age)
                      /\ (age > Ttl => Older(age) > Ttl)
  BY PeriodAssumption DEF Age, Older

\* What time does to a list.
LEMMA AllOlderType ==
  ASSUME NEW ages \in Seq(Age)
  PROVE  /\ AllOlder(ages) \in Seq(Age)
         /\ Len(AllOlder(ages)) = Len(ages)
         /\ \A i \in 1 .. Len(ages) : AllOlder(ages)[i] = Older(ages[i])
<1>1. DOMAIN ages = 1 .. Len(ages) /\ Len(ages) \in Nat
      /\ \A i \in 1 .. Len(ages) : ages[i] \in Age
  BY LenProperties, ElementOfSeq
<1>2. AllOlder(ages) \in [1 .. Len(ages) -> Age]
  BY <1>1, Periods DEF AllOlder
<1>3. AllOlder(ages) \in Seq(Age) /\ Len(AllOlder(ages)) = Len(ages)
  BY <1>1, <1>2
<1> QED
  BY <1>1, <1>3 DEF AllOlder

LEMMA AllOlderConcat ==
  ASSUME NEW s \in Seq(Age), NEW t \in Seq(Age)
  PROVE  AllOlder(s \o t) = AllOlder(s) \o AllOlder(t)
<1> DEFINE st == s \o t
           os == AllOlder(s)
           ot == AllOlder(t)
<1>1. /\ Len(s) \in Nat /\ Len(t) \in Nat
      /\ st \in Seq(Age) /\ Len(st) = Len(s) + Len(t)
      /\ \A i \in 1 .. Len(s) + Len(t) :
           st[i] = IF i <= Len(s) THEN s[i] ELSE t[i - Len(s)]
  BY LenProperties, ConcatProperties
<1>2. /\ os \in Seq(Age) /\ Len(os) = Len(s)
      /\ \A i \in 1 .. Len(s) : os[i] = Older(s[i])
  BY AllOlderType
<1>3. /\ ot \in Seq(Age) /\ Len(ot) = Len(t)
      /\ \A i \in 1 .. Len(t) : ot[i] = Older(t[i])
  BY AllOlderType
<1> HIDE DEF st, os, ot
<1>4. /\ AllOlder(st) \in Seq(Age) /\ Len(AllOlder(st)) = Len(st)
      /\ \A i \in 1 .. Len(st) : AllOlder(st)[i] = Older(st[i])
  BY <1>1, AllOlderType
<1>5. /\ os \o ot \in Seq(Age) /\ Len(os \o ot) = Len(os) + Len(ot)
      /\ \A i \in 1 .. Len(os) + Len(ot) :
           (os \o ot)[i] = IF i <= Len(os) THEN os[i] ELSE ot[i - Len(os)]
  <2>1. os \in Seq(Age) /\ ot \in Seq(Age)
    BY <1>2, <1>3
  <2> QED
    BY <2>1, ConcatProperties
<1>6. ASSUME NEW i \in 1 .. Len(s) + Len(t)
      PROVE  AllOlder(st)[i] = (os \o ot)[i]
  <2>1. CASE i <= Len(s)
    BY <1>1, <1>2, <1>3, <1>4, <1>5, <2>1
  <2>2. CASE ~(i <= Len(s))
    <3>1. i - Len(s) \in 1 .. Len(t)
      BY <1>1, <2>2
    <3> QED
      BY <1>1, <1>2, <1>3, <1>4, <1>5, <2>2, <3>1
  <2> QED
    BY <2>1, <2>2
<1>7. AllOlder(st) = os \o ot
  BY <1>1, <1>2, <1>3, <1>4, <1>5, <1>6, SeqEqual
<1> QED
  BY <1>7 DEF st, os, ot

LEMMA AllOlderLast ==
  ASSUME NEW ages \in Seq(Age), ages # <<>>
  PROVE  AllOlder(ages) # <<>> /\ Last(AllOlder(ages)) = Older(Last(ages))
<1>1. Len(ages) \in Nat \ {0}
  BY EmptySeq
<1> QED
  BY <1>1, AllOlderType, EmptySeq DEF Last

\* What is left of a list within the window.
LEMMA WithinType ==
  ASSUME NEW ages \in Seq(Age)
  PROVE  Within(ages, Window) \in Seq(0 .. Window)
  BY RetainType, Periods DEF Within

LEMMA PushType ==
  ASSUME NEW ages \in Seq(Age)
  PROVE  /\ Push(ages) = Append(Within(ages, Window), 0)
         /\ Push(ages) \in Seq(0 .. Window)
         /\ Push(ages) # <<>> /\ Last(Push(ages)) = 0
<1> DEFINE w == Within(ages, Window)
<1>1. w \in Seq(0 .. Window)
  BY WithinType
<1>2. Push(ages) = Append(w, 0)
  BY RetainAppend, Periods DEF Push, Within
<1> HIDE DEF w
<1>3. Append(w, 0) \in Seq(0 .. Window) /\ Append(w, 0) # <<>>
      /\ Len(Append(w, 0)) = Len(w) + 1 /\ Append(w, 0)[Len(w) + 1] = 0
  <2>1. 0 \in 0 .. Window
    BY Periods
  <2> QED
    BY <1>1, <2>1, AppendProperties
<1> QED
  BY <1>2, <1>3 DEF Last, w

\* What has left the window does not come back.
LEMMA OlderWithin ==
  ASSUME NEW ages \in Seq(Age)
  PROVE  Within(AllOlder(Within(ages, Window)), Window)
           = Within(AllOlder(ages), Window)
<1> DEFINE K == 0 .. Window
           Good == {s \in Seq(Age) : Retain(AllOlder(Retain(s, K)), K)
                                       = Retain(AllOlder(s), K)}
<1>1. <<>> \in Good
  BY RetainEmpty, EmptySeq DEF AllOlder
<1>2. ASSUME NEW s \in Seq(Age), NEW e \in Age, s \in Good
      PROVE  Append(s, e) \in Good
  <2> DEFINE r == Retain(s, K)
             a == AllOlder(s)
  <2>1. a \in Seq(Age) /\ r \in Seq(Age) /\ AllOlder(r) \in Seq(Age)
    <3>1. r \in Seq(Age \cap K)
      BY RetainType
    <3>2. r \in Seq(Age)
      BY <3>1, SeqMonotonic
    <3> QED
      BY <3>2, AllOlderType
  <2>2. \A t \in Seq(Age) : /\ Append(t, e) = t \o <<e>>
                            /\ AllOlder(Append(t, e)) = Append(AllOlder(t), Older(e))
    <3> SUFFICES ASSUME NEW t \in Seq(Age)
                 PROVE  /\ Append(t, e) = t \o <<e>>
                        /\ AllOlder(t \o <<e>>) = Append(AllOlder(t), Older(e))
      BY AppendIsConcat
    <3>1. Append(t, e) = t \o <<e>> /\ <<e>> \in Seq(Age)
      BY AppendIsConcat
    <3>2. AllOlder(<<e>>) = <<Older(e)>>
      BY DEF AllOlder
    <3>3. AllOlder(t) \in Seq(Age) /\ Older(e) \in Age
      BY AllOlderType, Periods
    <3>4. AllOlder(t) \o <<Older(e)>> = Append(AllOlder(t), Older(e))
      BY <3>3, AppendIsConcat
    <3> QED
      BY <3>1, <3>2, <3>4, AllOlderConcat
  <2>3. Retain(AllOlder(r), K) = Retain(a, K)
    BY <1>2
  <2>4. Older(e) \in Age /\ (e \notin K => Older(e) \notin K)
    BY Periods DEF Age
  <2>5. Retain(Append(s, e), K) = IF e \in K THEN Append(r, e) ELSE r
    BY RetainAppend
  <2>6. Append(s, e) \in Seq(Age)
    BY AppendProperties
  <2> HIDE DEF r, a, K
  <2>7. Retain(Append(a, Older(e)), K)
          = IF Older(e) \in K THEN Append(Retain(a, K), Older(e)) ELSE Retain(a, K)
    BY <2>1, <2>4, RetainAppend
  <2>8. Retain(Append(AllOlder(r), Older(e)), K)
          = IF Older(e) \in K THEN Append(Retain(a, K), Older(e)) ELSE Retain(a, K)
    <3> DEFINE ar == AllOlder(r)
    <3>1. ar \in Seq(Age) /\ Retain(ar, K) = Retain(a, K)
      BY <2>1, <2>3
    <3> HIDE DEF ar
    <3>2. Retain(Append(ar, Older(e)), K)
            = IF Older(e) \in K THEN Append(Retain(ar, K), Older(e)) ELSE Retain(ar, K)
      BY <2>4, <3>1, RetainAppend
    <3> QED
      BY <3>1, <3>2 DEF ar
  <2>9. AllOlder(Append(s, e)) = Append(a, Older(e))
    BY <2>2 DEF a
  <2>10. CASE e \in K
    BY <2>1, <2>2, <2>5, <2>6, <2>7, <2>8, <2>9, <2>10
  <2>11. CASE e \notin K
    BY <2>3, <2>4, <2>5, <2>6, <2>7, <2>9, <2>11
  <2> QED
    BY <2>10, <2>11
<1> HIDE DEF Good
<1>3. Seq(Age) \subseteq Good
  BY <1>1, <1>2, SeqSetInduction
<1> QED
  BY <1>3 DEF Good, Within

-----------------------------------------------------------------------------
(* The invariants *)

Shapes ==
    /\ tracker \in [Prefix -> Seq(Age) \cup {NoTracker}]
    /\ active \in [Prefix -> Seq(Age)]
    /\ timer \in 0 .. Check
    /\ faults \in 0 .. MaxFaults
    /\ log \in [Prefix -> Seq(0 .. Window)]
    /\ quiet \in [Prefix -> Age]
    /\ forgotten \in [Prefix -> BOOLEAN]

\* A tracker knows when its prefix changed last.  A prefix without one has
\* been quiet for long, or a restart took the tracker away.
KnowsLast(p) ==
    IF tracker[p] # NoTracker
    THEN tracker[p] # <<>> /\ Last(tracker[p]) = quiet[p]
    ELSE quiet[p] > Ttl \/ forgotten[p]

\* What a tracker has within the window are the latest changes that happened.
KnowsLatest(p) ==
    tracker[p] # NoTracker =>
        \E lost \in Seq(0 .. Window) : log[p] = lost \o Within(tracker[p], Window)

FlapInv ==
    /\ Shapes
    /\ \A p \in Prefix : KnowsLast(p) /\ KnowsLatest(p) /\ Len(active[p]) <= 1

\* What a step may say: an alarm after Threshold changes in the window, an
\* all-clear after a time of quiet.
HonestStep ==
    \A p \in Prefix :
        /\ Len(active'[p]) > Len(active[p]) => Len(log'[p]) >= Threshold
        /\ Len(active'[p]) < Len(active[p]) => quiet[p] > Resolve \/ forgotten[p]

LEMMA InitFlap == Init => FlapInv
<1> SUFFICES ASSUME Init PROVE FlapInv
  OBVIOUS
<1>1. <<>> \in Seq(Age) /\ <<>> \in Seq(0 .. Window) /\ Len(<<>>) = 0
  BY EmptySeq
<1>2. Shapes
  BY <1>1, PeriodAssumption, FaultAssumption DEF Init, Shapes, Age
<1> QED
  BY <1>1, <1>2, PeriodAssumption DEF Init, FlapInv, KnowsLast, KnowsLatest

\* An event that a tick closes was of a prefix that is quiet.
LEMMA StillActiveHonest ==
  ASSUME FlapInv, NEW p \in Prefix
  PROVE  /\ StillActive(p) \in Seq(Age)
         /\ Len(StillActive(p)) <= Len(active[p])
         /\ Len(StillActive(p)) < Len(active[p]) =>
              quiet[p] > Resolve \/ forgotten[p]
<1> DEFINE kept == {age \in Age : ~Expired(p, age)}
<1>1. active[p] \in Seq(Age) /\ quiet[p] \in Age
  BY DEF FlapInv, Shapes
<1>2. StillActive(p) = Retain(active[p], kept)
  BY DEF StillActive
<1>3. /\ Retain(active[p], kept) \in Seq(Age \cap kept)
      /\ Len(Retain(active[p], kept)) <= Len(active[p])
  BY <1>1, RetainType
<1>4. Retain(active[p], kept) \in Seq(Age)
  BY <1>3, SeqMonotonic
<1>5. ASSUME ~(quiet[p] > Resolve \/ forgotten[p])
      PROVE  Retain(active[p], kept) = active[p]
  <2>1. KnowsLast(p)
    BY DEF FlapInv
  <2>2. ~(quiet[p] > Resolve) /\ ~forgotten[p]
    BY <1>5
  <2>3. ~(quiet[p] > Ttl)
    <3>1. quiet[p] \in Nat
      BY <1>1, Periods
    <3> QED
      BY <2>2, <3>1, Periods
  <2>4. tracker[p] # NoTracker /\ Last(tracker[p]) = quiet[p]
    BY <2>1, <2>2, <2>3 DEF KnowsLast
  <2>5. kept = Age
    BY <2>2, <2>4 DEF Expired
  <2> QED
    BY <1>1, <2>5, RetainAll
<1>6. Len(active[p]) \in Nat
  BY <1>1, LenProperties
<1> QED
  BY <1>2, <1>3, <1>4, <1>5, <1>6

\* A change that is pushed is the latest of the log, and the tracker has no
\* more changes than the log.
LEMMA PushLatest ==
  ASSUME FlapInv, NEW p \in Prefix, tracker[p] # NoTracker
  PROVE  /\ \E lost \in Seq(0 .. Window) :
              Append(log[p], 0) = lost \o Within(Push(tracker[p]), Window)
         /\ Len(Push(tracker[p])) <= Len(Append(log[p], 0))
         /\ Push(tracker[p]) \in Seq(Age) /\ Push(tracker[p]) # NoTracker
<1> DEFINE w == Within(tracker[p], Window)
<1>1. PICK lost \in Seq(0 .. Window) : log[p] = lost \o w
  BY DEF FlapInv, KnowsLatest
<1>2. tracker[p] \in Seq(Age) /\ w \in Seq(0 .. Window)
  BY WithinType DEF FlapInv, Shapes
<1>3. /\ Push(tracker[p]) = Append(w, 0)
      /\ Push(tracker[p]) \in Seq(0 .. Window)
  BY <1>2, PushType
<1>4. Push(tracker[p]) \in Seq(Age) /\ Push(tracker[p]) # NoTracker
  BY <1>3, SeqMonotonic, Periods, NilAssumption
<1>5. Within(Push(tracker[p]), Window) = Push(tracker[p])
  BY <1>3, RetainAll DEF Within
<1> HIDE DEF w
<1>6. Append(lost \o w, 0) = lost \o Append(w, 0)
  <2> DEFINE W == 0 .. Window
  <2>1. lost \in Seq(W) /\ w \in Seq(W) /\ 0 \in W
    BY <1>2, Periods
  <2> HIDE DEF W
  <2>2. \A s, t \in Seq(W), e \in W : s \o Append(t, e) = Append(s \o t, e)
    BY ConcatAppend
  <2>3. lost \o Append(w, 0) = Append(lost \o w, 0)
    BY <2>1, <2>2
  <2> QED
    BY <2>3
<1>7. /\ Len(lost \o Append(w, 0)) = Len(lost) + Len(Append(w, 0))
      /\ Len(lost) \in Nat /\ Len(Append(w, 0)) \in Nat
  <2>1. Append(w, 0) \in Seq(0 .. Window)
    BY <1>2, Periods, AppendProperties
  <2> QED
    BY <2>1, ConcatProperties, LenProperties
<1>8. Append(log[p], 0) = lost \o Push(tracker[p])
  BY <1>1, <1>3, <1>6 DEF w
<1>9. Len(Push(tracker[p])) <= Len(Append(log[p], 0))
  <2>1. Len(Append(log[p], 0)) = Len(lost) + Len(Push(tracker[p]))
        /\ Len(lost) \in Nat /\ Len(Push(tracker[p])) \in Nat
    BY <1>3, <1>7, <1>8
  <2> QED
    BY <2>1
<1> QED
  BY <1>4, <1>5, <1>8, <1>9

\* An alarm rings when the tracker is long enough, and the log is no shorter.
LEMMA ReportOnce ==
  ASSUME NEW events \in Seq(Age), Len(events) <= 1
  PROVE  /\ Report(events) \in Seq(Age) /\ Len(Report(events)) <= 1
         /\ Len(Report(events)) >= Len(events)
<1>1. CASE events = <<>>
  <2>1. Len(<<0>>) = 1 /\ Len(<<>>) = 0 /\ <<0>> \in Seq(Age)
    BY Periods
  <2> QED
    BY <1>1, <2>1 DEF Report
<1>2. CASE events # <<>>
  BY <1>2, LenProperties DEF Report
<1> QED
  BY <1>1, <1>2

LEMMA FirstSeenFlap ==
  ASSUME FlapInv, NEW q \in Prefix, FirstSeen(q)
  PROVE  FlapInv' /\ HonestStep
<1> USE DEF FirstSeen, Changed
<1>1. /\ <<0>> \in Seq(Age) /\ <<0>> # <<>> /\ Last(<<0>>) = 0
      /\ <<0>> \in Seq(0 .. Window) /\ <<0>> # NoTracker
  <2>1. <<0>> \in Seq(Age)
    BY Periods
  <2>2. <<0>> \in Seq(0 .. Window)
    BY Periods
  <2>3. <<0>> # <<>> /\ Last(<<0>>) = 0
    BY DEF Last
  <2> QED
    BY <2>1, <2>2, <2>3, NilAssumption
<1>2. Append(log[q], 0) \in Seq(0 .. Window)
  BY Periods, AppendProperties DEF FlapInv, Shapes
<1>3. Shapes'
  <2>1. Shapes
    BY DEF FlapInv
  <2> QED
    BY <1>1, <1>2, <2>1, Periods, PeriodAssumption DEF Shapes
<1>4. ASSUME NEW p \in Prefix
      PROVE  /\ KnowsLast(p)' /\ KnowsLatest(p)' /\ active'[p] = active[p]
  <2>1. KnowsLast(p) /\ KnowsLatest(p) /\ Shapes
    BY DEF FlapInv
  <2>2. CASE p # q
    <3>1. /\ tracker'[p] = tracker[p] /\ log'[p] = log[p]
          /\ quiet'[p] = quiet[p] /\ forgotten'[p] = forgotten[p]
      BY <2>1, <2>2 DEF Shapes
    <3> QED
      BY <2>1, <3>1 DEF KnowsLast, KnowsLatest
  <2>3. CASE p = q
    <3>1. /\ tracker'[p] = <<0>> /\ log'[p] = Append(log[q], 0) /\ quiet'[p] = 0
      BY <2>1, <2>3 DEF Shapes
    <3>2. KnowsLast(p)'
      BY <1>1, <3>1 DEF KnowsLast
    <3>3. Within(<<0>>, Window) = <<0>>
      BY <1>1, RetainAll DEF Within
    <3>4. log[q] \in Seq(0 .. Window) /\ Append(log[q], 0) = log[q] \o <<0>>
      <4>1. log[q] \in Seq(0 .. Window) /\ 0 \in 0 .. Window
        BY <2>1, Periods DEF Shapes
      <4> DEFINE W == 0 .. Window
      <4> HIDE DEF W
      <4>2. \A s \in Seq(W), e \in W : Append(s, e) = s \o <<e>>
        BY AppendIsConcat
      <4> QED
        BY <4>1, <4>2 DEF W
    <3> QED
      BY <3>1, <3>2, <3>3, <3>4 DEF KnowsLatest
  <2> QED
    BY <2>2, <2>3
<1>5. \A p \in Prefix : Len(active[p]) \in Nat
  BY LenProperties DEF FlapInv, Shapes
<1> QED
  BY <1>3, <1>4, <1>5 DEF FlapInv, HonestStep

\* What NewPath and ReportFails have in common.
LEMMA Noted ==
  ASSUME FlapInv, NEW q \in Prefix, tracker[q] # NoTracker, Changed(q),
         tracker' = [tracker EXCEPT ![q] = Push(@)]
  PROVE  /\ tracker' \in [Prefix -> Seq(Age) \cup {NoTracker}]
         /\ log' \in [Prefix -> Seq(0 .. Window)]
         /\ quiet' \in [Prefix -> Age] /\ forgotten' \in [Prefix -> BOOLEAN]
         /\ Len(tracker'[q]) <= Len(log'[q])
         /\ Len(tracker'[q]) \in Nat /\ Len(log'[q]) \in Nat
         /\ \A p \in Prefix : KnowsLast(p)' /\ KnowsLatest(p)'
<1> USE DEF Changed
<1>1. Shapes
  BY DEF FlapInv
<1>2. /\ tracker'[q] = Push(tracker[q]) /\ log'[q] = Append(log[q], 0)
      /\ quiet'[q] = 0
  BY <1>1 DEF Shapes
<1>3. /\ \E lost \in Seq(0 .. Window) :
           Append(log[q], 0) = lost \o Within(Push(tracker[q]), Window)
      /\ Len(Push(tracker[q])) <= Len(Append(log[q], 0))
      /\ Push(tracker[q]) \in Seq(Age) /\ Push(tracker[q]) # NoTracker
  BY PushLatest
<1>4. /\ Append(log[q], 0) \in Seq(0 .. Window)
      /\ Len(Append(log[q], 0)) \in Nat /\ Len(Push(tracker[q])) \in Nat
  <2>1. log[q] \in Seq(0 .. Window)
    BY <1>1 DEF Shapes
  <2> QED
    BY <1>3, <2>1, Periods, AppendProperties, LenProperties
<1>5. /\ Push(tracker[q]) # <<>> /\ Last(Push(tracker[q])) = 0
  BY <1>1, PushType DEF Shapes
<1>6. ASSUME NEW p \in Prefix
      PROVE  KnowsLast(p)' /\ KnowsLatest(p)'
  <2>1. KnowsLast(p) /\ KnowsLatest(p)
    BY DEF FlapInv
  <2>2. CASE p # q
    <3>1. /\ tracker'[p] = tracker[p] /\ log'[p] = log[p]
          /\ quiet'[p] = quiet[p] /\ forgotten'[p] = forgotten[p]
      BY <1>1, <2>2 DEF Shapes
    <3> QED
      BY <2>1, <3>1 DEF KnowsLast, KnowsLatest
  <2>3. CASE p = q
    BY <1>2, <1>3, <1>5, <2>3 DEF KnowsLast, KnowsLatest
  <2> QED
    BY <2>2, <2>3
<1>7. /\ tracker' \in [Prefix -> Seq(Age) \cup {NoTracker}]
      /\ log' \in [Prefix -> Seq(0 .. Window)]
      /\ quiet' \in [Prefix -> Age] /\ forgotten' \in [Prefix -> BOOLEAN]
  <2> HIDE DEF Shapes
  <2>1. /\ tracker \in [Prefix -> Seq(Age) \cup {NoTracker}]
        /\ log \in [Prefix -> Seq(0 .. Window)]
        /\ quiet \in [Prefix -> Age] /\ forgotten \in [Prefix -> BOOLEAN]
    BY <1>1 DEF Shapes
  <2> QED
    BY <1>3, <1>4, <2>1, Periods
<1> QED
  BY <1>2, <1>3, <1>4, <1>6, <1>7

LEMMA NewPathFlap ==
  ASSUME FlapInv, NEW q \in Prefix, NewPath(q)
  PROVE  FlapInv' /\ HonestStep
<1>1. /\ tracker[q] # NoTracker /\ tracker' = [tracker EXCEPT ![q] = Push(@)]
      /\ Changed(q) /\ timer' = 0 /\ faults' = faults
      /\ active' = IF Len(tracker'[q]) >= Threshold
                   THEN [active EXCEPT ![q] = Report(@)] ELSE active
  BY DEF NewPath
<1>2. /\ tracker' \in [Prefix -> Seq(Age) \cup {NoTracker}]
      /\ log' \in [Prefix -> Seq(0 .. Window)]
      /\ quiet' \in [Prefix -> Age] /\ forgotten' \in [Prefix -> BOOLEAN]
      /\ Len(tracker'[q]) <= Len(log'[q])
      /\ Len(tracker'[q]) \in Nat /\ Len(log'[q]) \in Nat
      /\ \A p \in Prefix : KnowsLast(p)' /\ KnowsLatest(p)'
  BY <1>1, Noted
<1>3. /\ active \in [Prefix -> Seq(Age)] /\ faults \in 0 .. MaxFaults
      /\ \A p \in Prefix : Len(active[p]) <= 1 /\ Len(active[p]) \in Nat
  BY LenProperties DEF FlapInv, Shapes
<1>4. /\ Report(active[q]) \in Seq(Age) /\ Len(Report(active[q])) <= 1
      /\ Len(Report(active[q])) >= Len(active[q])
  BY <1>3, ReportOnce
<1>5. ASSUME NEW p \in Prefix
      PROVE  /\ Len(active'[p]) <= 1
             /\ Len(active'[p]) > Len(active[p]) =>
                  p = q /\ Len(tracker'[q]) >= Threshold
             /\ ~(Len(active'[p]) < Len(active[p]))
  <2>1. CASE p = q /\ Len(tracker'[q]) >= Threshold
    <3>1. active'[p] = Report(active[q])
      BY <1>1, <1>3, <2>1
    <3>2. Len(Report(active[q])) \in Nat
      BY <1>4, LenProperties
    <3> QED
      BY <1>3, <1>4, <2>1, <3>1, <3>2
  <2>2. CASE ~(p = q /\ Len(tracker'[q]) >= Threshold)
    <3>1. active'[p] = active[p]
      BY <1>1, <1>3, <2>2
    <3> QED
      BY <1>3, <3>1
  <2> QED
    BY <2>1, <2>2
<1>6. active' \in [Prefix -> Seq(Age)]
  BY <1>1, <1>3, <1>4
<1>7. Shapes'
  BY <1>1, <1>2, <1>3, <1>6, PeriodAssumption DEF Shapes
<1>8. HonestStep
  <2>1. ASSUME NEW p \in Prefix, Len(active'[p]) > Len(active[p])
        PROVE  Len(log'[p]) >= Threshold
    BY <1>2, <1>5, <2>1, PeriodAssumption
  <2> QED
    BY <1>5, <2>1 DEF HonestStep
<1> QED
  BY <1>2, <1>5, <1>7, <1>8 DEF FlapInv

LEMMA ReportFailsFlap ==
  ASSUME FlapInv, NEW q \in Prefix, ReportFails(q)
  PROVE  FlapInv' /\ HonestStep
<1>1. /\ tracker[q] # NoTracker /\ tracker' = [tracker EXCEPT ![q] = Push(@)]
      /\ Changed(q) /\ timer' = 0 /\ active' = active
  BY DEF ReportFails
<1>2. /\ tracker' \in [Prefix -> Seq(Age) \cup {NoTracker}]
      /\ log' \in [Prefix -> Seq(0 .. Window)]
      /\ quiet' \in [Prefix -> Age] /\ forgotten' \in [Prefix -> BOOLEAN]
      /\ \A p \in Prefix : KnowsLast(p)' /\ KnowsLatest(p)'
  BY <1>1, Noted
<1>3. /\ active \in [Prefix -> Seq(Age)] /\ faults \in 0 .. MaxFaults
      /\ \A p \in Prefix : Len(active[p]) <= 1 /\ Len(active[p]) \in Nat
  BY LenProperties DEF FlapInv, Shapes
<1>4. faults' \in 0 .. MaxFaults
  BY <1>3, FaultAssumption DEF ReportFails, Fail
<1> QED
  BY <1>1, <1>2, <1>3, <1>4, PeriodAssumption DEF FlapInv, Shapes, HonestStep

\* A tick closes the events of quiet prefixes only, at some or at all of them,
\* and forgets the trackers of those quiet for longer still.
LEMMA TickFlap ==
  ASSUME FlapInv, NEW done \in SUBSET Prefix,
         active' = [p \in Prefix |-> IF p \in done THEN StillActive(p)
                                                   ELSE active[p]],
         Evict, timer' = 0, faults' \in 0 .. MaxFaults, UNCHANGED history
  PROVE  FlapInv' /\ HonestStep
<1>1. /\ tracker \in [Prefix -> Seq(Age) \cup {NoTracker}]
      /\ active \in [Prefix -> Seq(Age)]
      /\ log \in [Prefix -> Seq(0 .. Window)]
      /\ quiet \in [Prefix -> Age] /\ forgotten \in [Prefix -> BOOLEAN]
      /\ \A p \in Prefix : Len(active[p]) <= 1 /\ Len(active[p]) \in Nat
  BY LenProperties DEF FlapInv, Shapes
<1>2. log' = log /\ quiet' = quiet /\ forgotten' = forgotten
  BY DEF history
<1>3. ASSUME NEW p \in Prefix
      PROVE  /\ active'[p] \in Seq(Age) /\ Len(active'[p]) \in Nat
             /\ Len(active'[p]) <= Len(active[p])
             /\ Len(active'[p]) < Len(active[p]) =>
                  quiet[p] > Resolve \/ forgotten[p]
  <2>1. CASE p \in done
    <3>1. active'[p] = StillActive(p)
      BY <2>1
    <3> QED
      BY <3>1, StillActiveHonest, LenProperties
  <2>2. CASE p \notin done
    <3>1. active'[p] = active[p]
      BY <2>2
    <3> QED
      BY <1>1, <3>1
  <2> QED
    BY <2>1, <2>2
<1>4. active' \in [Prefix -> Seq(Age)]
  BY <1>3
<1>5. tracker' \in [Prefix -> Seq(Age) \cup {NoTracker}]
  BY <1>1 DEF Evict
<1>6. ASSUME NEW p \in Prefix
      PROVE  KnowsLast(p)' /\ KnowsLatest(p)'
  <2>1. KnowsLast(p) /\ KnowsLatest(p)
    BY DEF FlapInv
  <2>2. CASE tracker'[p] = tracker[p]
    BY <1>2, <2>1, <2>2 DEF KnowsLast, KnowsLatest
  <2>3. CASE tracker'[p] # tracker[p]
    <3>1. /\ tracker[p] # NoTracker /\ Last(tracker[p]) > Ttl
          /\ tracker'[p] = NoTracker
      BY <2>3 DEF Evict
    <3>2. quiet[p] > Ttl
      BY <2>1, <3>1 DEF KnowsLast
    <3> QED
      BY <1>2, <3>1, <3>2 DEF KnowsLast, KnowsLatest
  <2> QED
    BY <2>2, <2>3
<1>7. Shapes'
  BY <1>1, <1>2, <1>4, <1>5, PeriodAssumption DEF Shapes
<1>8. \A p \in Prefix : Len(active'[p]) <= 1 /\ ~(Len(active'[p]) > Len(active[p]))
  BY <1>1, <1>3
<1> QED
  BY <1>3, <1>6, <1>7, <1>8 DEF FlapInv, HonestStep

LEMMA TockFlap ==
  ASSUME FlapInv, Tock
  PROVE  FlapInv' /\ HonestStep
<1>1. /\ tracker \in [Prefix -> Seq(Age) \cup {NoTracker}]
      /\ active \in [Prefix -> Seq(Age)]
      /\ log \in [Prefix -> Seq(0 .. Window)]
      /\ quiet \in [Prefix -> Age] /\ forgotten \in [Prefix -> BOOLEAN]
      /\ \A p \in Prefix : Len(active[p]) <= 1 /\ Len(active[p]) \in Nat
      /\ timer \in 0 .. Check /\ faults \in 0 .. MaxFaults
  BY LenProperties DEF FlapInv, Shapes
<1>2. /\ tracker' = [p \in Prefix |-> IF tracker[p] = NoTracker THEN NoTracker
                                      ELSE AllOlder(tracker[p])]
      /\ active' = [p \in Prefix |-> AllOlder(active[p])]
      /\ log' = [p \in Prefix |-> Within(AllOlder(log[p]), Window)]
      /\ quiet' = [p \in Prefix |-> Older(quiet[p])]
      /\ timer < Check /\ timer' = timer + 1
      /\ faults' = faults /\ forgotten' = forgotten
  BY DEF Tock
<1>3. ASSUME NEW p \in Prefix
      PROVE  active'[p] \in Seq(Age) /\ Len(active'[p]) = Len(active[p])
  BY <1>1, <1>2, AllOlderType
<1>4. ASSUME NEW p \in Prefix, tracker[p] # NoTracker
      PROVE  /\ tracker'[p] = AllOlder(tracker[p])
             /\ tracker'[p] \in Seq(Age) /\ tracker'[p] # NoTracker
  BY <1>1, <1>2, <1>4, AllOlderType, NilAssumption
<1>5. ASSUME NEW p \in Prefix
      PROVE  /\ log[p] \in Seq(Age)
             /\ log'[p] = Within(AllOlder(log[p]), Window)
             /\ log'[p] \in Seq(0 .. Window)
             /\ quiet'[p] \in Age
  <2>1. log[p] \in Seq(Age)
    BY <1>1, Periods, SeqMonotonic
  <2>2. AllOlder(log[p]) \in Seq(Age)
    BY <2>1, AllOlderType
  <2> QED
    BY <1>1, <1>2, <2>1, <2>2, WithinType, Periods
<1>6. ASSUME NEW p \in Prefix
      PROVE  KnowsLast(p)'
  <2>1. KnowsLast(p)
    BY DEF FlapInv
  <2>2. quiet'[p] = Older(quiet[p]) /\ forgotten'[p] = forgotten[p]
    BY <1>2
  <2>3. CASE tracker[p] = NoTracker
    <3>1. tracker'[p] = NoTracker
      BY <1>2, <2>3
    <3>2. quiet[p] > Ttl => Older(quiet[p]) > Ttl
      BY <1>1, Periods
    <3> QED
      BY <2>1, <2>2, <2>3, <3>1, <3>2 DEF KnowsLast
  <2>4. CASE tracker[p] # NoTracker
    <3>1. /\ tracker[p] \in Seq(Age) /\ tracker[p] # <<>>
          /\ Last(tracker[p]) = quiet[p]
      BY <1>1, <2>1, <2>4 DEF KnowsLast
    <3>2. /\ AllOlder(tracker[p]) # <<>>
          /\ Last(AllOlder(tracker[p])) = Older(quiet[p])
      BY <3>1, AllOlderLast
    <3> QED
      BY <1>4, <2>2, <2>4, <3>2 DEF KnowsLast
  <2> QED
    BY <2>3, <2>4
<1>7. ASSUME NEW p \in Prefix
      PROVE  KnowsLatest(p)'
  <2>1. CASE tracker[p] = NoTracker
    BY <1>2, <2>1 DEF KnowsLatest
  <2>2. CASE tracker[p] # NoTracker
    <3> DEFINE t == tracker[p]
               w == Within(t, Window)
    <3>1. t \in Seq(Age) /\ w \in Seq(0 .. Window) /\ w \in Seq(Age)
      <4>1. t \in Seq(Age)
        BY <1>1, <2>2
      <4>2. w \in Seq(0 .. Window)
        BY <4>1, WithinType
      <4> QED
        BY <4>1, <4>2, Periods, SeqMonotonic
    <3>2. PICK lost \in Seq(0 .. Window) : log[p] = lost \o w
      BY <2>2 DEF FlapInv, KnowsLatest
    <3>3. lost \in Seq(Age)
      BY Periods, SeqMonotonic
    <3>4. Within(AllOlder(w), Window) = Within(AllOlder(t), Window)
      BY <3>1, OlderWithin
    <3> HIDE DEF w, t
    <3>5. AllOlder(lost) \in Seq(Age) /\ AllOlder(w) \in Seq(Age)
      BY <3>1, <3>3, AllOlderType
    <3>6. AllOlder(log[p]) = AllOlder(lost) \o AllOlder(w)
      BY <3>1, <3>2, <3>3, AllOlderConcat
    <3>7. Within(AllOlder(lost) \o AllOlder(w), Window)
            = Within(AllOlder(lost), Window) \o Within(AllOlder(w), Window)
      BY <3>5, RetainConcat DEF Within
    <3>8. Within(AllOlder(lost), Window) \in Seq(0 .. Window)
      BY <3>5, WithinType
    <3>9. tracker'[p] = AllOlder(t)
      BY <1>4, <2>2 DEF t
    <3> QED
      BY <1>5, <3>4, <3>6, <3>7, <3>8, <3>9 DEF KnowsLatest
  <2> QED
    BY <2>1, <2>2
<1>8. Shapes'
  <2>1. tracker' \in [Prefix -> Seq(Age) \cup {NoTracker}]
    <3>1. \A p \in Prefix : tracker'[p] \in Seq(Age) \cup {NoTracker}
      BY <1>2, <1>4
    <3> QED
      BY <1>2, <3>1
  <2>2. active' \in [Prefix -> Seq(Age)]
    BY <1>2, <1>3
  <2>3. log' \in [Prefix -> Seq(0 .. Window)] /\ quiet' \in [Prefix -> Age]
    BY <1>2, <1>5
  <2>4. timer' \in 0 .. Check
    BY <1>1, <1>2, PeriodAssumption
  <2> QED
    BY <1>1, <1>2, <2>1, <2>2, <2>3, <2>4 DEF Shapes
<1> QED
  BY <1>1, <1>3, <1>6, <1>7, <1>8 DEF FlapInv, HonestStep

LEMMA RestartFlap ==
  ASSUME FlapInv, Restart
  PROVE  FlapInv' /\ HonestStep
<1>1. /\ tracker' = [p \in Prefix |-> NoTracker] /\ timer' = 0
      /\ forgotten' = [p \in Prefix |-> TRUE]
      /\ active' = active /\ log' = log /\ quiet' = quiet
      /\ faults < MaxFaults /\ faults' = faults + 1
  BY DEF Restart, Fail
<1>2. Shapes'
  BY <1>1, PeriodAssumption, FaultAssumption DEF FlapInv, Shapes
<1>3. \A p \in Prefix : KnowsLast(p)' /\ KnowsLatest(p)'
  BY <1>1 DEF KnowsLast, KnowsLatest
<1>4. \A p \in Prefix : Len(active[p]) \in Nat
  BY LenProperties DEF FlapInv, Shapes
<1> QED
  BY <1>1, <1>2, <1>3, <1>4 DEF FlapInv, HonestStep

LEMMA SamePathFlap ==
  ASSUME FlapInv, timer' = 0 \/ timer' = timer,
         UNCHANGED <<tracker, active, faults, history>>
  PROVE  FlapInv' /\ HonestStep
<1>1. /\ tracker' = tracker /\ active' = active /\ faults' = faults
      /\ log' = log /\ quiet' = quiet /\ forgotten' = forgotten
  BY DEF history
<1>2. Shapes'
  BY <1>1, PeriodAssumption DEF FlapInv, Shapes
<1>3. \A p \in Prefix : KnowsLast(p)' /\ KnowsLatest(p)'
  BY <1>1 DEF FlapInv, KnowsLast, KnowsLatest
<1>4. \A p \in Prefix : Len(active[p]) \in Nat
  BY LenProperties DEF FlapInv, Shapes
<1> QED
  BY <1>1, <1>2, <1>3, <1>4 DEF FlapInv, HonestStep

LEMMA StepFlap ==
  ASSUME FlapInv, [Next]_vars
  PROVE  FlapInv' /\ HonestStep
<1>1. CASE Tock
  BY <1>1, TockFlap
<1>2. CASE Tick
  <2>1. active' = [p \in Prefix |-> IF p \in Prefix THEN StillActive(p)
                                                    ELSE active[p]]
    BY <1>2 DEF Tick
  <2>2. faults' \in 0 .. MaxFaults
    BY <1>2 DEF Tick, FlapInv, Shapes
  <2> QED
    BY <1>2, <2>1, <2>2, TickFlap DEF Tick
<1>3. CASE TickFails
  <2>1. PICK done \in SUBSET Prefix :
          active' = [p \in Prefix |-> IF p \in done THEN StillActive(p)
                                                    ELSE active[p]]
    BY <1>3 DEF TickFails
  <2>2. faults' \in 0 .. MaxFaults
    BY <1>3, FaultAssumption DEF TickFails, Fail, FlapInv, Shapes
  <2> QED
    BY <1>3, <2>1, <2>2, TickFlap DEF TickFails
<1>4. CASE Restart
  BY <1>4, RestartFlap
<1>5. ASSUME NEW p \in Prefix, FirstSeen(p) \/ SamePath(p) \/ NewPath(p) \/ ReportFails(p)
      PROVE  FlapInv' /\ HonestStep
  <2>1. CASE SamePath(p)
    BY <2>1, SamePathFlap DEF SamePath
  <2> QED
    BY <1>5, <2>1, FirstSeenFlap, NewPathFlap, ReportFailsFlap
<1>6. CASE UNCHANGED vars
  BY <1>6, SamePathFlap DEF vars, program
<1> QED
  BY <1>1, <1>2, <1>3, <1>4, <1>5, <1>6 DEF Next

-----------------------------------------------------------------------------
(* The theorems *)

LEMMA AlwaysFlap == Spec => [](FlapInv) /\ [][FlapInv /\ HonestStep]_vars
<1>1. Init => FlapInv
  BY InitFlap
<1>2. FlapInv /\ [Next]_vars => FlapInv'
  BY StepFlap
<1>3. FlapInv /\ [Next]_vars => [FlapInv /\ HonestStep]_vars
  BY StepFlap
<1> QED
  BY <1>1, <1>2, <1>3, PTL DEF Spec

\* Every variable keeps its type; no tracker is ever empty, which is what lets
\* the tick ask a tracker for its last change.
THEOREM FlapTyping == Spec => []TypeOK
<1>1. FlapInv => TypeOK
  BY DEF FlapInv, Shapes, KnowsLast, TypeOK
<1> QED
  BY <1>1, AlwaysFlap, PTL

\* A prefix never has two active events, whatever restarts and errors leave.
THEOREM OneEventEver == Spec => []OneEventPerPrefix
<1>1. FlapInv => OneEventPerPrefix
  BY DEF FlapInv, OneEventPerPrefix
<1> QED
  BY <1>1, AlwaysFlap, PTL

\* Every event that is opened had Threshold changes within the window: what
\* is left in the tracker is never more than what really happened.
THEOREM AlarmsAreTrue == Spec => NoFalseAlarm
<1>1. [FlapInv /\ HonestStep]_vars =>
        [\A p \in Prefix :
           Len(active'[p]) > Len(active[p]) => Len(log'[p]) >= Threshold]_vars
  BY DEF HonestStep
<1> QED
  BY <1>1, AlwaysFlap, PTL DEF NoFalseAlarm

\* Every event that is closed was of a prefix quiet for longer than Resolve,
\* or of one whose last change was lost with the tracker in a restart.
THEOREM AllClearsAreTrue == Spec => NoEarlyAllClear
<1>1. [FlapInv /\ HonestStep]_vars =>
        [\A p \in Prefix :
           Len(active'[p]) < Len(active[p]) =>
              quiet[p] > Resolve \/ forgotten[p]]_vars
  BY DEF HonestStep
<1> QED
  BY <1>1, AlwaysFlap, PTL DEF NoEarlyAllClear

=============================================================================
