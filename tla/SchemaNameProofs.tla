-------------------------- MODULE SchemaNameProofs --------------------------
(***************************************************************************)
(* Whatever a workshop is called, its schema name is accepted, and it can  *)
(* be read: it has the letters and digits of the name.                     *)
(***************************************************************************)
EXTENDS SchemaName, SelectionProofs

(* what is left of the name is always made of safe characters *)
TextIsSafe == text \in Seq(SafeChar)

(* what is appended is a safe character or nothing *)
LEMMA ReplaceIsSafe ==
  ASSUME NEW t \in Seq(SafeChar), NEW c
  PROVE  Replace(t, c) \in Seq(SafeChar)
<1>1. CASE c \in {"letter", "digit"}
  <2>1. c \in SafeChar
    BY <1>1 DEF SafeChar
  <2>2. Append(t, c) \in Seq(SafeChar)
    BY <2>1
  <2> QED BY <1>1, <2>2 DEF Replace
<1>2. CASE c \notin {"letter", "digit"}
  <2>1. "underscore" \in SafeChar
    BY DEF SafeChar
  <2>2. Append(t, "underscore") \in Seq(SafeChar)
    BY <2>1, AppendProperties
  <2> QED BY <1>2, <2>2 DEF Replace
<1> QED BY <1>1, <1>2

(* the text read so far has no other characters than safe ones *)
LEMMA TextStaysSafe == Spec => []TextIsSafe
<1>1. Init => TextIsSafe
  BY DEF Init, TextIsSafe
<1>2. TextIsSafe /\ [Next]_vars => TextIsSafe'
  <2> SUFFICES ASSUME TextIsSafe, [Next]_vars PROVE TextIsSafe'
    OBVIOUS
  <2>1. CASE UNCHANGED vars
    BY <2>1 DEF TextIsSafe, vars
  <2>2. CASE Next
    <3>1. PICK c : Read(c)
      BY <2>2 DEF Next
    <3>2. text' = LowerReplace(text, c)
      BY <3>1 DEF Read
    <3> QED BY <3>2, ReplaceIsSafe DEF TextIsSafe, LowerReplace
  <2> QED BY <2>1, <2>2
<1> QED BY <1>1, <1>2, PTL DEF Spec

(* and so has every part of it *)
LEMMA SubSeqIsSafe ==
  ASSUME NEW t \in Seq(SafeChar), NEW i \in Nat \ {0}, NEW j \in Nat, j <= Len(t)
  PROVE  SubSeq(t, i, j) \in Seq(SafeChar)
<1>1. \A k \in i..j : t[k] \in SafeChar
  OBVIOUS
<1> QED BY <1>1, SubSeqProperties

(* the slug is safe and no longer than the cut *)
LEMMA SlugIsSafe ==
  ASSUME TextIsSafe
  PROVE  Slug \in Seq(SafeChar) /\ Len(Slug) <= SlugMax
<1> DEFINE trimmed == Trim(text)
<1>1. trimmed \in Seq(SafeChar)
  <2> DEFINE first == IF text # <<>> /\ text[1] = "underscore" THEN 2 ELSE 1
             last == IF text # <<>> /\ text[Len(text)] = "underscore"
                     THEN Len(text) - 1 ELSE Len(text)
  <2>1. first \in Nat \ {0} /\ last \in Nat /\ last <= Len(text)
    <3>1. first \in {1, 2}
      OBVIOUS
    <3>2. Len(text) \in Nat /\ (text # <<>> => Len(text) >= 1)
      BY EmptySeq DEF TextIsSafe
    <3>3. last = Len(text) \/ (text # <<>> /\ last = Len(text) - 1)
      OBVIOUS
    <3> HIDE DEF first, last
    <3> QED BY <3>1, <3>2, <3>3
  <2>2. trimmed = SubSeq(text, first, last)
    BY DEF Trim
  <2> QED BY <2>1, <2>2, SubSeqIsSafe DEF TextIsSafe
<1> HIDE DEF trimmed
<1> DEFINE n == IF Len(trimmed) < SlugMax THEN Len(trimmed) ELSE SlugMax
<1>2. n \in Nat /\ n <= Len(trimmed) /\ n <= SlugMax
  BY <1>1, SchemaNameAssumption
<1>3. Slug = SubSeq(trimmed, 1, n)
  BY DEF Slug, Cut, trimmed
<1> HIDE DEF n
<1>4. Len(SubSeq(trimmed, 1, n)) = n
  BY <1>1, <1>2
<1> QED BY <1>1, <1>2, <1>3, <1>4, SubSeqIsSafe

(* tenants.service.ts:25-29: for workshop names of any length, and for     *)
(* every prefix, default, suffix and limits that fit each other as the     *)
(* ones in the code do, the name that is built passes the check.           *)
THEOREM EveryNameIsSafe == Spec => []GeneratedIsSafe
<1>1. TextIsSafe => GeneratedIsSafe
  <2> SUFFICES ASSUME TextIsSafe PROVE GeneratedIsSafe
    OBVIOUS
  <2> DEFINE body == IF Slug = <<>> THEN Default ELSE Slug
  <2>1. body \in Seq(SafeChar) /\ Len(Prefix) + Len(body) + Len(Suffix) <= NameMax
    BY SlugIsSafe, SchemaNameAssumption
  <2>2. BuildSchemaName = Prefix \o body \o Suffix
    BY DEF BuildSchemaName
  <2> HIDE DEF body
  <2> DEFINE built == Prefix \o body \o Suffix
  <2>3. /\ Prefix \in Seq(SafeChar) /\ Suffix \in Seq(SafeChar) /\ NameMax \in Nat
        /\ Len(Prefix) + Len(Suffix) >= 3 /\ Len(Prefix) >= 1 /\ Prefix[1] = "letter"
    BY SchemaNameAssumption
  <2>4. built \in Seq(SafeChar) /\ Len(built) = Len(Prefix) + Len(body) + Len(Suffix)
    BY <2>1, <2>3
  <2>5. Len(built) \in 3..NameMax
    BY <2>1, <2>3, <2>4
  <2>6. built[1] = "letter"
    BY <2>1, <2>3
  <2>7. \A i \in DOMAIN built : built[i] \in SafeChar
    BY <2>4
  <2> QED BY <2>2, <2>5, <2>6, <2>7 DEF GeneratedIsSafe, Safe
<1> QED BY <1>1, TextStaysSafe, PTL
-----------------------------------------------------------------------------
(* What the slug says *)

Alnum == {"letter", "digit"}

(* no "_" follows another *)
NoPair(t) == \A i \in 1..(Len(t) - 1) : t[i] # "underscore" \/ t[i + 1] # "underscore"

(* the text has the letters and digits of the name, and no "_" repeats *)
TextIsReadable ==
  /\ name \in Seq(Char) /\ text \in Seq(SafeChar)
  /\ NoPair(text)
  /\ AlnumOf(text) = AlnumOf(Lowered(name))

(* one more character, not both "_" *)
LEMMA AppendNoPair ==
  ASSUME NEW t \in Seq(SafeChar), NoPair(t), NEW c \in SafeChar,
         t = <<>> \/ t[Len(t)] # "underscore" \/ c # "underscore"
  PROVE  NoPair(Append(t, c))
<1> DEFINE u == Append(t, c)
<1>1. /\ Len(u) = Len(t) + 1 /\ u[Len(t) + 1] = c /\ Len(t) \in Nat
      /\ \A i \in 1..Len(t) : u[i] = t[i]
  OBVIOUS
<1>2. t = <<>> <=> Len(t) = 0
  BY EmptySeq
<1> HIDE DEF u
<1>3. ASSUME NEW i \in 1..(Len(u) - 1) PROVE u[i] # "underscore" \/ u[i + 1] # "underscore"
  <2>1. CASE i = Len(t)
    BY <1>1, <1>2, <2>1
  <2>2. CASE i \in 1..(Len(t) - 1)
    BY <1>1, <2>2 DEF NoPair
  <2> QED BY <1>1, <2>1, <2>2
<1> QED BY <1>3 DEF NoPair, u

(* Replace keeps letters and digits, and makes one "_" of a run of others *)
LEMMA ReplaceReads ==
  ASSUME NEW t \in Seq(SafeChar), NoPair(t), NEW c
  PROVE  /\ Replace(t, c) \in Seq(SafeChar) /\ NoPair(Replace(t, c))
         /\ c \in Alnum => AlnumOf(Replace(t, c)) = Append(AlnumOf(t), c)
         /\ c \notin Alnum => AlnumOf(Replace(t, c)) = AlnumOf(t)
<1>1. CASE c \in Alnum
  <2>1. c \in SafeChar /\ c # "underscore" /\ Replace(t, c) = Append(t, c)
    BY <1>1 DEF Alnum, SafeChar, Replace
  <2>2. Among(Append(t, c), Alnum) = Append(Among(t, Alnum), c)
    BY <1>1, <2>1, AmongAppend
  <2> QED BY <1>1, <2>1, <2>2, AppendNoPair, ReplaceIsSafe DEF AlnumOf, Alnum
<1>2. CASE c \notin Alnum
  <2>1. CASE t # <<>> /\ t[Len(t)] = "underscore"
    BY <1>2, <2>1 DEF Replace, Alnum
  <2>2. CASE ~(t # <<>> /\ t[Len(t)] = "underscore")
    <3>1. /\ "underscore" \in SafeChar /\ "underscore" \notin Alnum
          /\ Replace(t, c) = Append(t, "underscore")
      BY <1>2, <2>2 DEF Replace, SafeChar, Alnum
    <3>2. Among(Append(t, "underscore"), Alnum) = Among(t, Alnum)
      BY <3>1, AmongAppend
    <3> QED BY <1>2, <2>2, <3>1, <3>2, AppendNoPair, ReplaceIsSafe DEF AlnumOf, Alnum
  <2> QED BY <2>1, <2>2
<1> QED BY <1>1, <1>2

(* the character of the lowered name *)
Low(c) == IF c \in {"upper", "dotted"} THEN "letter" ELSE c

(* one more character, one more in lower case *)
LEMMA LoweredAppend ==
  ASSUME NEW s \in Seq(Char), NEW c \in Char
  PROVE  /\ Lowered(s) \in Seq(Char) /\ Low(c) \in Char
         /\ Lowered(Append(s, c)) = Append(Lowered(s), Low(c))
<1>1. \A d \in Char : Low(d) \in Char
  BY DEF Low, Char, SafeChar
<1>2. ASSUME NEW t \in Seq(Char)
      PROVE  /\ Lowered(t) \in Seq(Char) /\ Len(Lowered(t)) = Len(t)
             /\ \A i \in 1..Len(t) : Lowered(t)[i] = Low(t[i])
  <2>1. DOMAIN t = 1..Len(t) /\ Len(t) \in Nat /\ \A i \in 1..Len(t) : t[i] \in Char
    OBVIOUS
  <2>2. Lowered(t) = [i \in 1..Len(t) |-> Low(t[i])]
    BY <2>1 DEF Lowered, Low
  <2> HIDE DEF Char
  <2>3. Lowered(t) \in [1..Len(t) -> Char]
    BY <1>1, <2>1, <2>2
  <2> QED BY <2>1, <2>2, <2>3
<1> DEFINE t == Append(s, c)
           a == Lowered(t)
           b == Append(Lowered(s), Low(c))
<1>3. /\ t \in Seq(Char) /\ Len(t) = Len(s) + 1 /\ Len(s) \in Nat
      /\ t[Len(s) + 1] = c /\ \A i \in 1..Len(s) : t[i] = s[i]
  OBVIOUS
<1> HIDE DEF t
<1>4. /\ a \in Seq(Char) /\ Len(a) = Len(s) + 1
      /\ \A i \in 1..(Len(s) + 1) : a[i] = Low(t[i])
  BY <1>2, <1>3
<1>5. /\ b \in Seq(Char) /\ Len(b) = Len(s) + 1 /\ b[Len(s) + 1] = Low(c)
      /\ \A i \in 1..Len(s) : b[i] = Low(s[i])
  BY <1>1, <1>2, AppendProperties
<1> HIDE DEF a, b
<1>6. \A i \in 1..Len(a) : a[i] = b[i]
  <2> TAKE i \in 1..Len(a)
  <2>1. CASE i = Len(s) + 1
    BY <1>3, <1>4, <1>5, <2>1
  <2>2. CASE i \in 1..Len(s)
    BY <1>3, <1>4, <1>5, <2>2
  <2> QED BY <1>3, <1>4, <2>1, <2>2
<1>7. a = b
  BY <1>4, <1>5, <1>6, SeqEqual
<1> QED BY <1>1, <1>2, <1>7 DEF a, b, t

(* a step reads one character, and says the same of it in both *)
LEMMA ReadReads ==
  ASSUME TextIsReadable, NEW c \in Char, Read(c)
  PROVE  TextIsReadable'
<1>1. name' = Append(name, c) /\ text' = LowerReplace(text, c)
  BY DEF Read
<1>2. /\ text \in Seq(SafeChar) /\ NoPair(text) /\ name \in Seq(Char)
      /\ AlnumOf(text) = AlnumOf(Lowered(name))
  BY DEF TextIsReadable
<1>3. /\ name' \in Seq(Char)
      /\ Low(c) \in Alnum => AlnumOf(Lowered(name')) = Append(AlnumOf(text), Low(c))
      /\ Low(c) \notin Alnum => AlnumOf(Lowered(name')) = AlnumOf(text)
  <2>1. /\ Lowered(name) \in Seq(Char) /\ Low(c) \in Char
        /\ Lowered(name') = Append(Lowered(name), Low(c))
    BY <1>1, <1>2, LoweredAppend
  <2>2. /\ Low(c) \in Alnum =>
             Among(Append(Lowered(name), Low(c)), Alnum)
               = Append(Among(Lowered(name), Alnum), Low(c))
        /\ Low(c) \notin Alnum =>
             Among(Append(Lowered(name), Low(c)), Alnum) = Among(Lowered(name), Alnum)
    BY <2>1, AmongAppend
  <2>3. name' \in Seq(Char)
    BY <1>1, <1>2, AppendProperties
  <2> QED BY <1>2, <2>1, <2>2, <2>3 DEF AlnumOf, Alnum
<1>4. CASE c = "dotted"
  <2> DEFINE t == Replace(text, "letter")
  <2>1. LowerReplace(text, c) = Replace(t, "other")
    BY <1>4 DEF LowerReplace, Lower
  <2>2. t \in Seq(SafeChar) /\ NoPair(t) /\ AlnumOf(t) = Append(AlnumOf(text), "letter")
    BY <1>2, ReplaceReads DEF Alnum
  <2> HIDE DEF t
  <2>3. /\ Replace(t, "other") \in Seq(SafeChar) /\ NoPair(Replace(t, "other"))
        /\ AlnumOf(Replace(t, "other")) = AlnumOf(t)
    BY <2>2, ReplaceReads DEF Alnum
  <2>4. Low(c) = "letter" /\ Low(c) \in Alnum
    BY <1>4 DEF Low, Alnum
  <2> QED BY <1>1, <1>3, <2>1, <2>2, <2>3, <2>4 DEF TextIsReadable
<1>5. CASE c # "dotted"
  <2>1. LowerReplace(text, c) = Replace(text, Low(c))
    BY <1>5 DEF LowerReplace, Lower, Low
  <2>2. /\ Replace(text, Low(c)) \in Seq(SafeChar) /\ NoPair(Replace(text, Low(c)))
        /\ Low(c) \in Alnum => AlnumOf(Replace(text, Low(c))) = Append(AlnumOf(text), Low(c))
        /\ Low(c) \notin Alnum => AlnumOf(Replace(text, Low(c))) = AlnumOf(text)
    BY <1>2, ReplaceReads
  <2> QED BY <1>1, <1>3, <2>1, <2>2 DEF TextIsReadable
<1> QED BY <1>4, <1>5

(* and so the whole name *)
LEMMA TextStaysReadable == Spec => []TextIsReadable
<1>1. Init => TextIsReadable
  <2> SUFFICES ASSUME Init PROVE TextIsReadable
    OBVIOUS
  <2>1. Lowered(<<>>) = <<>>
    BY DEF Lowered
  <2>2. name \in Seq(Char) /\ text \in Seq(SafeChar) /\ NoPair(text)
    BY EmptySeq DEF Init, NoPair
  <2> QED BY <2>1, <2>2 DEF Init, TextIsReadable
<1>2. TextIsReadable /\ [Next]_vars => TextIsReadable'
  <2> SUFFICES ASSUME TextIsReadable, [Next]_vars PROVE TextIsReadable'
    OBVIOUS
  <2>1. CASE UNCHANGED vars
    BY <2>1 DEF TextIsReadable, vars
  <2>2. ASSUME NEW c \in Char, Read(c) PROVE TextIsReadable'
    BY <2>2, ReadReads
  <2> QED BY <2>1, <2>2 DEF Next
<1> QED BY <1>1, <1>2, PTL DEF Spec

(* Trim drops a "_" at either end, and nothing else *)
LEMMA TrimReads ==
  ASSUME NEW t \in Seq(SafeChar), NoPair(t)
  PROVE  /\ Trim(t) \in Seq(SafeChar) /\ NoPair(Trim(t))
         /\ AlnumOf(Trim(t)) = AlnumOf(t)
         /\ Trim(t) # <<>> => Trim(t)[1] # "underscore" /\ Trim(t)[Len(Trim(t))] # "underscore"
<1>0. Len(t) \in Nat /\ (t = <<>> <=> Len(t) = 0) /\ \A i \in 1..Len(t) : t[i] \in SafeChar
  BY EmptySeq
<1>1. PICK first \in {1, 2} : first = IF t # <<>> /\ t[1] = "underscore" THEN 2 ELSE 1
  OBVIOUS
<1>2. PICK last \in Int :
        last = IF t # <<>> /\ t[Len(t)] = "underscore" THEN Len(t) - 1 ELSE Len(t)
  <2>1. Len(t) \in Int /\ Len(t) - 1 \in Int
    BY <1>0
  <2> QED BY <2>1
<1>3. Trim(t) = SubSeq(t, first, last)
  BY <1>1, <1>2 DEF Trim
<1>4. /\ first = 2 => Len(t) >= 1 /\ t[1] = "underscore"
      /\ last \in 0..Len(t) /\ (last = Len(t) - 1 \/ last = Len(t))
      /\ last = Len(t) - 1 => t[Len(t)] = "underscore"
  BY <1>0, <1>1, <1>2
<1> DEFINE u == Trim(t)
<1>5. /\ u \in Seq(SafeChar) /\ Len(u) = IF first <= last THEN last - first + 1 ELSE 0
      /\ \A i \in 1..(last - first + 1) : u[i] = t[first + i - 1]
  <2>1. \A i \in first..last : t[i] \in SafeChar
    BY <1>0, <1>4
  <2>2. first \in Int /\ last \in Int
    BY <1>1
  <2> HIDE DEF u
  <2>3. /\ SubSeq(t, first, last) \in Seq(SafeChar)
        /\ Len(SubSeq(t, first, last)) = IF first <= last THEN last - first + 1 ELSE 0
        /\ \A i \in 1..(last - first + 1) : SubSeq(t, first, last)[i] = t[first + i - 1]
    BY <2>1, <2>2, SubSeqProperties
  <2> QED BY <1>3, <2>3 DEF u
<1> HIDE DEF u
<1>6. NoPair(u)
  <2> SUFFICES ASSUME NEW i \in 1..(Len(u) - 1)
               PROVE  u[i] # "underscore" \/ u[i + 1] # "underscore"
    BY DEF NoPair
  <2>1. first <= last /\ Len(u) = last - first + 1
    BY <1>5
  <2> DEFINE k == first + i - 1
  <2>2. u[i] = t[k] /\ u[i + 1] = t[k + 1] /\ k \in 1..(Len(t) - 1)
    BY <1>0, <1>1, <1>4, <1>5, <2>1
  <2> HIDE DEF k
  <2> QED BY <2>2 DEF NoPair
<1>7. ASSUME u # <<>> PROVE u[1] # "underscore" /\ u[Len(u)] # "underscore"
  <2>1. first <= last /\ Len(u) = last - first + 1 /\ Len(u) >= 1
    BY <1>5, <1>7, EmptySeq
  <2>2. u[1] = t[first] /\ u[Len(u)] = t[last]
    BY <1>1, <1>5, <2>1
  <2>3. t[first] # "underscore"
    BY <1>0, <1>1, <1>4, <2>1 DEF NoPair
  <2>4. t[last] # "underscore"
    <3>1. CASE last = Len(t) - 1
      <4>1. last \in 1..(Len(t) - 1) /\ t[last + 1] = "underscore"
        BY <1>0, <1>1, <1>4, <2>1, <3>1
      <4> QED BY <4>1 DEF NoPair
    <3>2. CASE last # Len(t) - 1
      BY <1>0, <1>1, <1>2, <1>4, <2>1, <3>2
    <3> QED BY <3>1, <3>2
  <2> QED BY <2>2, <2>3, <2>4
<1>8. Among(u, Alnum) = Among(t, Alnum)
  <2>0. "underscore" \notin Alnum
    BY DEF Alnum
  <2>1. CASE first - 1 <= last
    <3>1. first \in 1..(Len(t) + 1) /\ last \in (first - 1)..Len(t)
      BY <1>0, <1>1, <1>4, <2>1
    <3>2. \A i \in 1..(first - 1) : t[i] \notin Alnum
      BY <1>1, <1>4, <2>0
    <3>3. \A i \in (last + 1)..Len(t) : t[i] \notin Alnum
      BY <1>0, <1>4, <2>0
    <3>4. Among(SubSeq(t, first, last), Alnum) = Among(t, Alnum)
      BY <3>1, <3>2, <3>3, AmongMiddle
    <3> QED BY <1>3, <3>4 DEF u
  <2>2. CASE ~(first - 1 <= last)
    <3>1. Len(t) = 1 /\ t[1] = "underscore" /\ u = <<>>
      <4>1. first = 2 /\ last = 0
      BY <1>0, <1>1, <1>4, <2>2
    <4>2. Len(u) = 0
      BY <1>5, <4>1
    <4> QED BY <1>0, <1>4, <1>5, <4>1, <4>2, EmptySeq
    <3>2. \A i \in 1..Len(t) : t[i] \notin Alnum
      BY <2>0, <3>1
    <3>3. Among(t, Alnum) = <<>>
      BY <3>2, AmongNone
    <3> QED BY <3>1, <3>3, AmongEmpty
  <2> QED BY <2>1, <2>2
<1> QED BY <1>5, <1>6, <1>7, <1>8 DEF u, AlnumOf, Alnum

(* tenants.service.ts:30-34: for workshop names of any length and any cut, *)
(* the slug has the letters and digits of the name, in lower case and in   *)
(* their order, up to the cut, and no "_" too many.                        *)
THEOREM EverySlugIsReadable == Spec => []SlugIsReadable
<1>1. TextIsReadable => SlugIsReadable
  <2> SUFFICES ASSUME TextIsReadable PROVE SlugIsReadable
    OBVIOUS
  <2> DEFINE t == Trim(text)
             all == AlnumOf(Lowered(name))
  <2>1. /\ t \in Seq(SafeChar) /\ NoPair(t) /\ AlnumOf(t) = all
        /\ t # <<>> => t[1] # "underscore" /\ t[Len(t)] # "underscore"
    BY TrimReads DEF TextIsReadable
  <2>2. Slug = Cut(t)
    BY DEF Slug
  <2> HIDE DEF t, all
  <2>3. PICK n \in Nat : n = IF Len(t) < SlugMax THEN Len(t) ELSE SlugMax
    BY <2>1, SchemaNameAssumption
  <2>4. Slug = SubSeq(t, 1, n) /\ n \in 0..Len(t) /\ (n < SlugMax => n = Len(t))
    <3>1. SlugMax \in Nat /\ Len(t) \in Nat
      BY <2>1, SchemaNameAssumption
    <3>2. n \in 0..Len(t) /\ (n < SlugMax => n = Len(t))
      BY <2>3, <3>1
    <3> QED BY <2>2, <2>3, <3>2 DEF Cut
  <2>5. /\ Slug \in Seq(SafeChar) /\ Len(Slug) = n /\ \A i \in 1..n : Slug[i] = t[i]
    BY <2>1, <2>4
  <2>6. AlnumOf(Slug) = SubSeq(all, 1, Len(AlnumOf(Slug)))
    <3> DEFINE a == Among(SubSeq(t, 1, n), Alnum)
    <3>1. a = SubSeq(Among(t, Alnum), 1, Len(a))
      BY <2>1, <2>4, AmongPrefix
    <3>2. AlnumOf(Slug) = a /\ Among(t, Alnum) = all
      BY <2>1, <2>4 DEF AlnumOf, Alnum
    <3> HIDE DEF a
    <3> QED BY <3>1, <3>2
  <2>7. Len(Slug) < SlugMax => Slug = t
    BY <2>1, <2>4, <2>5, SubSeqFull
  <2>8. Slug # <<>> => n >= 1
    BY <2>5, EmptySeq
  <2>9. \A i \in 1..(Len(Slug) - 1) : Slug[i] # "underscore" \/ Slug[i + 1] # "underscore"
    BY <2>1, <2>4, <2>5 DEF NoPair
  <2>10. Slug # <<>> => Slug[1] # "underscore"
    <3>1. ASSUME Slug # <<>> PROVE t # <<>> /\ Slug[1] = t[1]
      BY <2>1, <2>4, <2>5, <2>8, <3>1, EmptySeq
    <3> QED BY <2>1, <3>1
  <2> QED BY <2>1, <2>6, <2>7, <2>9, <2>10 DEF SlugIsReadable, all
<1> QED BY <1>1, TextStaysReadable, PTL
=============================================================================
