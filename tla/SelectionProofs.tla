-------------------------- MODULE SelectionProofs --------------------------
(***************************************************************************)
(* What is selected from sequences that are empty, extended, or put one    *)
(* behind the other.  Induction is by the smallest counterexample.         *)
(***************************************************************************)
EXTENDS Selection, SequenceTheorems, WellFoundedInduction, TLAPS

(* a set of natural numbers that is not empty has a smallest member *)
LEMMA Smallest ==
  ASSUME NEW T, T \subseteq Nat, T # {}
  PROVE  \E x \in T : \A y \in T : ~(y < x)
<1> DEFINE R == OpToRel(<, Nat)
<1>1. IsWellFoundedOn(R, Nat)
  BY NatLessThanWellFounded
<1>2. \A x, y \in Nat : y < x => <<y, x>> \in R
  BY DEF OpToRel
<1> HIDE DEF R
<1>3. \E x \in T : \A y \in T : ~ (<<y, x>> \in R)
  BY <1>1, WFMin
<1> QED BY <1>2, <1>3

(* a set that holds 0, and n + 1 with n, holds all natural numbers *)
LEMMA Induction ==
  ASSUME NEW T, 0 \in T, \A n \in Nat : n \in T => n + 1 \in T
  PROVE  Nat \subseteq T
<1> SUFFICES ASSUME Nat \ T # {} PROVE FALSE
  OBVIOUS
<1>1. PICK x \in Nat \ T : \A y \in Nat \ T : ~(y < x)
  BY Smallest
<1>2. x # 0 /\ x - 1 \in Nat
  BY <1>1
<1>3. x - 1 \in T
  BY <1>1, <1>2
<1> QED BY <1>1, <1>2, <1>3

(* the sequences read from s, up to the n-th *)
Reads(s, S, n, f) ==
  f = [i \in 0..n |-> IF i = 0 THEN <<>>
                      ELSE IF s[i] \in S THEN Append(f[i - 1], s[i]) ELSE f[i - 1]]

(* there are such sequences *)
LEMMA ReadsExist ==
  ASSUME NEW s, NEW S
  PROVE  \A n \in Nat : \E f : Reads(s, S, n, f)
<1> DEFINE T == {n \in Nat : \E f : Reads(s, S, n, f)}
<1>1. 0 \in T
  <2> DEFINE f == [i \in 0..0 |-> <<>>]
  <2>1. f = [i \in 0..0 |-> IF i = 0 THEN <<>>
                      ELSE IF s[i] \in S THEN Append(f[i - 1], s[i]) ELSE f[i - 1]]
    OBVIOUS
  <2> QED BY <2>1 DEF Reads
<1>2. ASSUME NEW n \in Nat, n \in T PROVE n + 1 \in T
  <2>1. PICK f : Reads(s, S, n, f)
    BY <1>2
  <2> DEFINE last == IF s[n + 1] \in S THEN Append(f[n], s[n + 1]) ELSE f[n]
             g == [i \in 0..(n + 1) |-> IF i = n + 1 THEN last ELSE f[i]]
  <2>2. \A i \in 0..n : g[i] = f[i]
    OBVIOUS
  <2>3. \A i \in 0..(n + 1) : g[i] = IF i = 0 THEN <<>>
              ELSE IF s[i] \in S THEN Append(g[i - 1], s[i]) ELSE g[i - 1]
    <3> TAKE i \in 0..(n + 1)
    <3>1. CASE i = n + 1
      BY <2>2, <3>1
    <3>2. CASE i \in 0..n
      <4>1. f[i] = IF i = 0 THEN <<>>
                   ELSE IF s[i] \in S THEN Append(f[i - 1], s[i]) ELSE f[i - 1]
        BY <2>1, <3>2 DEF Reads
      <4>2. i # 0 => g[i - 1] = f[i - 1]
        BY <2>2, <3>2
      <4> HIDE DEF g
      <4> QED BY <2>2, <3>2, <4>1, <4>2
    <3> QED BY <3>1, <3>2
  <2>4. Reads(s, S, n + 1, g)
    BY <2>3 DEF Reads
  <2> QED BY <2>4
<1> HIDE DEF T
<1>3. Nat \subseteq T
  BY <1>1, <1>2, Induction
<1> QED BY <1>3 DEF T

(* and what they are depends on what is read only *)
LEMMA ReadsAgree ==
  ASSUME NEW s, NEW t, NEW S, NEW n \in Nat, NEW m \in Nat, n <= m,
         NEW f, Reads(s, S, n, f), NEW g, Reads(t, S, m, g),
         \A i \in 1..n : s[i] = t[i]
  PROVE  f[n] = g[n]
<1> DEFINE T == {i \in Nat : i \in 0..n => f[i] = g[i]}
<1>1. \A i \in 0..n : f[i] = IF i = 0 THEN <<>>
                      ELSE IF s[i] \in S THEN Append(f[i - 1], s[i]) ELSE f[i - 1]
  BY DEF Reads
<1>2. \A i \in 0..m : g[i] = IF i = 0 THEN <<>>
                      ELSE IF t[i] \in S THEN Append(g[i - 1], t[i]) ELSE g[i - 1]
  BY DEF Reads
<1>3. 0 \in T
  BY <1>1, <1>2
<1>4. ASSUME NEW i \in Nat, i \in T PROVE i + 1 \in T
  <2> SUFFICES ASSUME i + 1 \in 0..n PROVE f[i + 1] = g[i + 1]
    OBVIOUS
  <2>1. i \in 0..n /\ f[i] = g[i] /\ i + 1 \in 0..m /\ i + 1 # 0 /\ (i + 1) - 1 = i
    BY <1>4
  <2>2. f[i + 1] = IF s[i + 1] \in S THEN Append(f[i], s[i + 1]) ELSE f[i]
    BY <1>1, <2>1
  <2>3. g[i + 1] = IF t[i + 1] \in S THEN Append(g[i], t[i + 1]) ELSE g[i]
    BY <1>2, <2>1
  <2> QED BY <2>1, <2>2, <2>3
<1> HIDE DEF T
<1>5. Nat \subseteq T
  BY <1>3, <1>4, Induction
<1> QED BY <1>5 DEF T

(* Among is the last of them *)
LEMMA AmongReads ==
  ASSUME NEW s, NEW S, Len(s) \in Nat
  PROVE  \E f : Reads(s, S, Len(s), f) /\ Among(s, S) = f[Len(s)]
<1> DEFINE f == CHOOSE f : Reads(s, S, Len(s), f)
<1>1. Reads(s, S, Len(s), f)
  BY ReadsExist
<1>2. Among(s, S) = f[Len(s)]
  BY DEF Among, Reads
<1> QED BY <1>1, <1>2

(* nothing is selected from nothing *)
LEMMA AmongEmpty == \A S : Among(<<>>, S) = <<>>
<1> TAKE S
<1>1. PICK f : Reads(<<>>, S, 0, f) /\ Among(<<>>, S) = f[0]
  BY AmongReads
<1> QED BY <1>1 DEF Reads

(* one more element is selected, or is not *)
LEMMA AmongAppend ==
  ASSUME NEW X, NEW s \in Seq(X), NEW x \in X, NEW S
  PROVE  /\ x \in S => Among(Append(s, x), S) = Append(Among(s, S), x)
         /\ x \notin S => Among(Append(s, x), S) = Among(s, S)
<1> DEFINE t == Append(s, x)
           n == Len(s)
<1>1. n \in Nat /\ Len(t) = n + 1 /\ t[n + 1] = x /\ \A i \in 1..n : s[i] = t[i]
  OBVIOUS
<1> HIDE DEF t, n
<1>2. PICK f : Reads(s, S, n, f) /\ Among(s, S) = f[n]
  BY <1>1, AmongReads DEF n
<1>3. PICK g : Reads(t, S, n + 1, g) /\ Among(t, S) = g[n + 1]
  BY <1>1, AmongReads
<1>4. f[n] = g[n]
  BY <1>1, <1>2, <1>3, ReadsAgree
<1>5. g[n + 1] = IF x \in S THEN Append(g[n], x) ELSE g[n]
  <2>1. n + 1 \in 0..(n + 1) /\ n + 1 # 0 /\ (n + 1) - 1 = n
    BY <1>1
  <2> QED BY <1>1, <1>3, <2>1 DEF Reads
<1> QED BY <1>2, <1>3, <1>4, <1>5 DEF t

(* a sequence is built from nothing by appending its elements *)
Builds(p, t, X) ==
  /\ p[0] = <<>> /\ p[Len(t)] = t /\ Len(t) \in Nat
  /\ \A n \in 0..Len(t) : p[n] \in Seq(X)
  /\ \A n \in 0..(Len(t) - 1) : t[n + 1] \in X /\ p[n + 1] = Append(p[n], t[n + 1])

(* one at a time *)
LEMMA BuildStep ==
  ASSUME NEW X, NEW t, NEW p, Builds(p, t, X), NEW n \in Nat, n + 1 <= Len(t)
  PROVE  p[n] \in Seq(X) /\ t[n + 1] \in X /\ p[n + 1] = Append(p[n], t[n + 1])
<1>1. n \in 0..Len(t) /\ n \in 0..(Len(t) - 1)
  BY DEF Builds
<1> QED BY <1>1 DEF Builds

(* by its prefixes *)
LEMMA PrefixesBuild ==
  ASSUME NEW X, NEW t \in Seq(X)
  PROVE  \E p : Builds(p, t, X)
<1> DEFINE p == [n \in 0..Len(t) |-> SubSeq(t, 1, n)]
<1>1. SubSeq(t, 1, 0) = <<>> /\ SubSeq(t, 1, Len(t)) = t /\ Len(t) \in Nat
  BY SubSeqEmpty, SubSeqFull
<1>2. ASSUME NEW n \in 0..Len(t) PROVE SubSeq(t, 1, n) \in Seq(X)
  <2>1. \A i \in 1..n : t[i] \in X
    OBVIOUS
  <2> QED BY <2>1, SubSeqProperties
<1>3. ASSUME NEW n \in 0..(Len(t) - 1)
      PROVE  t[n + 1] \in X /\ SubSeq(t, 1, n + 1) = Append(SubSeq(t, 1, n), t[n + 1])
  <2>1. t[n + 1] \in X /\ SubSeq(t, 1, n) \in Seq(X)
    BY <1>2
  <2>2. 1 \in 1..Len(t) /\ n + 1 \in 1..Len(t) /\ (n + 1) - 1 = n
    OBVIOUS
  <2>3. SubSeq(t, 1, n + 1) = SubSeq(t, 1, n) \o <<t[n + 1]>>
    BY <2>2, SubSeqRecursiveSecond
  <2> QED BY <2>1, <2>3, AppendIsConcat
<1>4. /\ \A n \in 0..Len(t) : p[n] = SubSeq(t, 1, n)
      /\ \A n \in 0..(Len(t) - 1) : n \in 0..Len(t) /\ n + 1 \in 0..Len(t)
  BY <1>1
<1> HIDE DEF p
<1>5. p[0] = <<>> /\ p[Len(t)] = t
  BY <1>1, <1>4
<1>6. \A n \in 0..Len(t) : p[n] \in Seq(X)
  BY <1>2, <1>4
<1>7. \A n \in 0..(Len(t) - 1) : t[n + 1] \in X /\ p[n + 1] = Append(p[n], t[n + 1])
  BY <1>3, <1>4
<1> QED BY <1>1, <1>5, <1>6, <1>7 DEF Builds

(* what is selected are elements of the sequence *)
LEMMA AmongIsSeq ==
  ASSUME NEW X, NEW t \in Seq(X), NEW S
  PROVE  Among(t, S) \in Seq(X)
<1>0. PICK p : Builds(p, t, X)
  BY PrefixesBuild
<1> DEFINE T == {n \in Nat : n <= Len(t) => Among(p[n], S) \in Seq(X)}
<1>1. 0 \in T
  BY <1>0, AmongEmpty, EmptySeq DEF Builds
<1>2. ASSUME NEW n \in Nat, n \in T PROVE n + 1 \in T
  <2> SUFFICES ASSUME n + 1 <= Len(t) PROVE Among(p[n + 1], S) \in Seq(X)
    BY <1>0 DEF Builds
  <2>1. p[n] \in Seq(X) /\ t[n + 1] \in X /\ p[n + 1] = Append(p[n], t[n + 1])
    BY <1>0, BuildStep
  <2>2. Among(p[n], S) \in Seq(X)
    BY <1>2
  <2>3. Among(Append(p[n], t[n + 1]), S) \in Seq(X)
    <3>1. CASE t[n + 1] \in S
      <4>1. Append(Among(p[n], S), t[n + 1]) \in Seq(X)
        BY <2>1, <2>2, AppendProperties
      <4> QED BY <2>1, <3>1, <4>1, AmongAppend
    <3>2. CASE t[n + 1] \notin S
      BY <2>1, <2>2, <3>2, AmongAppend
    <3> QED BY <3>1, <3>2
  <2> QED BY <2>1, <2>3
<1> HIDE DEF T
<1>3. Nat \subseteq T
  BY <1>1, <1>2, Induction
<1> QED BY <1>0, <1>3 DEF T, Builds

(* Append and \o under names of their own, which the provers leave alone *)
More(s, x) == Append(s, x)
Both(s, t) == s \o t

(* appending to the second of two sequences *)
LEMMA BothMore ==
  ASSUME NEW X, NEW s \in Seq(X), NEW u \in Seq(X), NEW x \in X
  PROVE  Both(s, u) \in Seq(X) /\ Both(s, More(u, x)) = More(Both(s, u), x)
<1>1. s \o u \in Seq(X) /\ <<x>> \in Seq(X)
  BY ConcatProperties
<1>2. Append(u, x) = u \o <<x>> /\ Append(s \o u, x) = (s \o u) \o <<x>>
  BY <1>1, AppendIsConcat
<1>3. s \o (u \o <<x>>) = (s \o u) \o <<x>>
  BY <1>1, ConcatAssociative
<1> QED BY <1>1, <1>2, <1>3 DEF Both, More

(* selecting from two sequences, one behind the other *)
LEMMA AmongConcat ==
  ASSUME NEW X, NEW s \in Seq(X), NEW t \in Seq(X), NEW S
  PROVE  Among(s \o t, S) = Among(s, S) \o Among(t, S)
<1>0. PICK p : Builds(p, t, X)
  BY PrefixesBuild
<1> DEFINE T == {n \in Nat : n <= Len(t) =>
                   Among(Both(s, p[n]), S) = Both(Among(s, S), Among(p[n], S))}
<1>1. 0 \in T
  <2>1. Among(s, S) \in Seq(X)
    BY AmongIsSeq
  <2>2. p[0] = <<>> /\ s \o <<>> = s /\ Among(s, S) \o <<>> = Among(s, S)
    BY <1>0, <2>1, ConcatEmptySeq DEF Builds
  <2> QED BY <2>2, AmongEmpty DEF Both
<1>2. ASSUME NEW n \in Nat, n \in T PROVE n + 1 \in T
  <2> SUFFICES ASSUME n + 1 <= Len(t)
               PROVE  Among(Both(s, p[n + 1]), S) = Both(Among(s, S), Among(p[n + 1], S))
    BY <1>0 DEF Builds
  <2>0. p[n] \in Seq(X) /\ t[n + 1] \in X /\ p[n + 1] = More(p[n], t[n + 1])
    BY <1>0, BuildStep DEF More
  <2>1. PICK u \in Seq(X), x \in X : u = p[n] /\ p[n + 1] = More(u, x)
    BY <2>0
  <2>2. Among(Both(s, u), S) = Both(Among(s, S), Among(u, S))
    BY <1>2, <1>0, <2>1 DEF Builds
  <2>3. Among(s, S) \in Seq(X) /\ Among(u, S) \in Seq(X)
    BY AmongIsSeq
  <2>4. /\ x \in S => Among(More(u, x), S) = More(Among(u, S), x)
        /\ x \notin S => Among(More(u, x), S) = Among(u, S)
    BY AmongAppend DEF More
  <2>5. /\ Both(s, u) \in Seq(X) /\ Both(s, More(u, x)) = More(Both(s, u), x)
        /\ Both(Among(s, S), More(Among(u, S), x)) = More(Both(Among(s, S), Among(u, S)), x)
    BY <2>3, BothMore
  <2>6. /\ x \in S => Among(More(Both(s, u), x), S) = More(Among(Both(s, u), S), x)
        /\ x \notin S => Among(More(Both(s, u), x), S) = Among(Both(s, u), S)
    BY <2>5, AmongAppend DEF More
  <2> QED BY <2>1, <2>2, <2>4, <2>5, <2>6
<1> HIDE DEF T
<1>3. Nat \subseteq T
  BY <1>1, <1>2, Induction
<1>4. Len(t) \in T /\ p[Len(t)] = t /\ Len(t) <= Len(t)
  BY <1>0, <1>3 DEF Builds
<1>5. Among(Both(s, t), S) = Both(Among(s, S), Among(t, S))
  BY <1>4 DEF T
<1> QED BY <1>5 DEF Both

(* nothing is selected where nothing qualifies *)
LEMMA AmongNone ==
  ASSUME NEW X, NEW t \in Seq(X), NEW S, \A i \in 1..Len(t) : t[i] \notin S
  PROVE  Among(t, S) = <<>>
<1>0. PICK p : Builds(p, t, X)
  BY PrefixesBuild
<1> DEFINE T == {n \in Nat : n <= Len(t) => Among(p[n], S) = <<>>}
<1>1. 0 \in T
  BY <1>0, AmongEmpty DEF Builds
<1>2. ASSUME NEW n \in Nat, n \in T PROVE n + 1 \in T
  <2> SUFFICES ASSUME n + 1 <= Len(t) PROVE Among(p[n + 1], S) = <<>>
    BY <1>0 DEF Builds
  <2>1. p[n] \in Seq(X) /\ t[n + 1] \in X /\ p[n + 1] = Append(p[n], t[n + 1])
    BY <1>0, BuildStep
  <2>2. Among(p[n], S) = <<>> /\ t[n + 1] \notin S
    BY <1>2
  <2> QED BY <2>1, <2>2, AmongAppend
<1> HIDE DEF T
<1>3. Nat \subseteq T
  BY <1>1, <1>2, Induction
<1> QED BY <1>0, <1>3 DEF T, Builds

(* everything is selected where everything qualifies *)
LEMMA AmongAll ==
  ASSUME NEW X, NEW t \in Seq(X), NEW S, \A i \in 1..Len(t) : t[i] \in S
  PROVE  Among(t, S) = t
<1>0. PICK p : Builds(p, t, X)
  BY PrefixesBuild
<1> DEFINE T == {n \in Nat : n <= Len(t) => Among(p[n], S) = p[n]}
<1>1. 0 \in T
  BY <1>0, AmongEmpty DEF Builds
<1>2. ASSUME NEW n \in Nat, n \in T PROVE n + 1 \in T
  <2> SUFFICES ASSUME n + 1 <= Len(t) PROVE Among(p[n + 1], S) = p[n + 1]
    BY <1>0 DEF Builds
  <2>1. p[n] \in Seq(X) /\ t[n + 1] \in X /\ p[n + 1] = Append(p[n], t[n + 1])
    BY <1>0, BuildStep
  <2>2. Among(p[n], S) = p[n] /\ t[n + 1] \in S
    BY <1>2
  <2> QED BY <2>1, <2>2, AmongAppend
<1> HIDE DEF T
<1>3. Nat \subseteq T
  BY <1>1, <1>2, Induction
<1> QED BY <1>0, <1>3 DEF T, Builds

(* a sequence is its first elements and the rest *)
LEMMA AmongSplit ==
  ASSUME NEW X, NEW t \in Seq(X), NEW k \in 0..Len(t), NEW S
  PROVE  /\ SubSeq(t, 1, k) \in Seq(X) /\ SubSeq(t, k + 1, Len(t)) \in Seq(X)
         /\ Among(t, S) = Among(SubSeq(t, 1, k), S) \o Among(SubSeq(t, k + 1, Len(t)), S)
<1> DEFINE a == SubSeq(t, 1, k)
           b == SubSeq(t, k + 1, Len(t))
<1>1. a \in Seq(X) /\ b \in Seq(X)
  <2>1. \A i \in 1..Len(t) : t[i] \in X
    OBVIOUS
  <2>2. (\A i \in 1..k : t[i] \in X) /\ (\A i \in (k + 1)..Len(t) : t[i] \in X)
    BY <2>1
  <2>3. k \in Int /\ k + 1 \in Int /\ Len(t) \in Int
    OBVIOUS
  <2> QED BY <2>2, <2>3, SubSeqProperties
<1>2. SubSeq(t, 1, k) \o SubSeq(t, k + 1, Len(t)) = t
  <2>1. /\ 1 \in 1..(Len(t) + 1) /\ k \in (1 - 1)..Len(t) /\ Len(t) \in k..Len(t)
    OBVIOUS
  <2>2. SubSeq(t, 1, k) \o SubSeq(t, k + 1, Len(t)) = SubSeq(t, 1, Len(t))
    BY <2>1, ConcatAdjacentSubSeq
  <2> QED BY <2>2, SubSeqFull
<1> HIDE DEF a, b
<1>3. Among(a \o b, S) = Among(a, S) \o Among(b, S)
  BY <1>1, AmongConcat
<1> QED BY <1>1, <1>2, <1>3 DEF a, b

(* what is selected from a prefix is a prefix of what is selected *)
LEMMA AmongPrefix ==
  ASSUME NEW X, NEW t \in Seq(X), NEW k \in 0..Len(t), NEW S
  PROVE  LET a == Among(SubSeq(t, 1, k), S) IN a = SubSeq(Among(t, S), 1, Len(a))
<1> DEFINE a == Among(SubSeq(t, 1, k), S)
           b == Among(SubSeq(t, k + 1, Len(t)), S)
           n == Len(a)
<1>1. a \in Seq(X) /\ b \in Seq(X) /\ Among(t, S) = a \o b
  BY AmongSplit, AmongIsSeq
<1> HIDE DEF a, b
<1>2. SubSeq(a \o b, 1, n) = a
  <2>1. CASE n = 0
    <3>1. a = <<>> /\ SubSeq(a \o b, 1, 0) = <<>>
      BY <1>1, <2>1, SubSeqEmpty
    <3> QED BY <2>1, <3>1
  <2>2. CASE n # 0
    <3>1. n \in 1..Len(a) /\ 1 \in 1..Len(a)
      BY <1>1, <2>2
    <3>2. SubSeq(a \o b, 1, n) = SubSeq(a, 1, n)
      BY <1>1, <3>1, SubSeqOfConcat1
    <3> QED BY <1>1, <3>2, SubSeqFull
  <2> QED BY <2>1, <2>2
<1> QED BY <1>1, <1>2 DEF a

(* nothing is lost with ends from which nothing is selected *)
LEMMA AmongMiddle ==
  ASSUME NEW X, NEW t \in Seq(X), NEW m \in 1..(Len(t) + 1), NEW k \in (m - 1)..Len(t), NEW S,
         \A i \in 1..(m - 1) : t[i] \notin S, \A i \in (k + 1)..Len(t) : t[i] \notin S
  PROVE  Among(SubSeq(t, m, k), S) = Among(t, S)
<1> DEFINE head == SubSeq(t, 1, k)
           front == SubSeq(t, 1, m - 1)
           mid == SubSeq(t, m, k)
           back == SubSeq(t, k + 1, Len(t))
<1>1. \A i \in 1..Len(t) : t[i] \in X
  OBVIOUS
<1>2. /\ front \in Seq(X) /\ Len(front) = m - 1 /\ \A i \in 1..(m - 1) : front[i] = t[i]
  <2>1. 1 \in Int /\ m - 1 \in Int /\ (\A i \in 1..(m - 1) : t[i] \in X) /\ m - 1 - 1 + 1 = m - 1
    BY <1>1
  <2> QED BY <2>1, SubSeqProperties
<1>3. /\ mid \in Seq(X)
  <2>1. m \in Int /\ k \in Int /\ (\A i \in m..k : t[i] \in X)
    BY <1>1
  <2> QED BY <2>1, SubSeqProperties
<1>4. /\ back \in Seq(X) /\ Len(back) = Len(t) - k
      /\ \A i \in 1..(Len(t) - k) : back[i] = t[k + i]
  <2>1. PICK lo \in Int : lo = k + 1
    OBVIOUS
  <2>2. PICK hi \in Int : hi = Len(t)
    OBVIOUS
  <2>3. \A i \in lo..hi : t[i] \in X
    BY <1>1, <2>1, <2>2
  <2>4. /\ SubSeq(t, lo, hi) \in Seq(X)
        /\ Len(SubSeq(t, lo, hi)) = IF lo <= hi THEN hi - lo + 1 ELSE 0
        /\ \A i \in 1..(hi - lo + 1) : SubSeq(t, lo, hi)[i] = t[lo + i - 1]
    BY <2>3, SubSeqProperties
  <2>5. back = SubSeq(t, lo, hi)
    BY <2>1, <2>2
  <2> HIDE DEF back
  <2>6. \A i \in 1..(Len(t) - k) : back[i] = t[lo + i - 1] /\ lo + i - 1 = k + i
    BY <2>1, <2>2, <2>4, <2>5
  <2> QED BY <2>1, <2>2, <2>4, <2>5, <2>6
<1>5. head = front \o mid
  BY ConcatAdjacentSubSeq
<1>6. Among(t, S) = Among(head, S) \o Among(back, S)
  BY AmongSplit
<1>7. Among(front, S) = <<>>
  <2>1. \A i \in 1..Len(front) : front[i] \notin S
    BY <1>2
  <2> HIDE DEF front
  <2> QED BY <1>2, <2>1, AmongNone
<1>8. Among(back, S) = <<>>
  <2>1. \A i \in 1..Len(back) : back[i] \notin S
    <3> TAKE i \in 1..Len(back)
    <3>1. back[i] = t[k + i] /\ k + i \in (k + 1)..Len(t)
      BY <1>4
    <3> QED BY <3>1
  <2> HIDE DEF back
  <2> QED BY <1>4, <2>1, AmongNone
<1> HIDE DEF head, front, mid, back
<1>9. Among(front \o mid, S) = Among(front, S) \o Among(mid, S) /\ Among(mid, S) \in Seq(X)
  <2>1. Among(front \o mid, S) = Among(front, S) \o Among(mid, S)
    BY <1>2, <1>3, AmongConcat
  <2> QED BY <1>3, <2>1, AmongIsSeq
<1>10. \A u \in Seq(X) : <<>> \o u = u /\ u \o <<>> = u
  OBVIOUS
<1>11. Among(t, S) = Among(mid, S)
  BY <1>5, <1>6, <1>7, <1>8, <1>9, <1>10
<1> QED BY <1>11 DEF mid
=============================================================================
