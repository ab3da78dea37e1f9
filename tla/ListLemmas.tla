----------------------------- MODULE ListLemmas -----------------------------
(***************************************************************************)
(* What the helpers on sets of numbers and on lists return, for the proofs *)
(* about the modules that use them.                                        *)
(***************************************************************************)
EXTENDS Integers, Sequences, SequencesExt, SequenceTheorems, WellFoundedInduction, TLAPS

(* A set of natural numbers that is not empty has a least element, and     *)
(* Min, with which the searches for the first free or matching entry are   *)
(* modelled, is it.                                                        *)
LEMMA MinLeast ==
    ASSUME NEW S, S \subseteq Nat, S # {}
    PROVE  Min(S) \in S /\ \A y \in S : Min(S) <= y
<1> DEFINE R == {ss \in Nat \X Nat : ss[1] < ss[2]}
<1>1. IsWellFoundedOn(R, Nat)
    BY NatLessThanWellFounded DEF OpToRel
<1>2. PICK x \in S : \A y \in S : ~(<<y, x>> \in R)
    <2> HIDE DEF R
    <2> QED BY <1>1, WFMin
<1>3. \A y \in S : x <= y
    <2> SUFFICES ASSUME NEW y \in S, y < x PROVE FALSE
        OBVIOUS
    <2>1. <<y, x>> \in Nat \X Nat
        OBVIOUS
    <2>2. <<y, x>> \in R
        BY <2>1
    <2> QED BY <1>2, <2>2
<1> QED BY <1>3 DEF Min

(* A bounded set has a greatest element, and Max, with which the highest   *)
(* bit of the ready mask is modelled, is it.                               *)
LEMMA MaxGreatest ==
    ASSUME NEW n \in Nat, NEW S, S \subseteq 0..n, S # {}
    PROVE  Max(S) \in S /\ \A y \in S : Max(S) >= y
<1> DEFINE T == {n - x : x \in S}
<1>1. T \subseteq Nat /\ T # {}
    <2>1. \A x \in S : n - x \in Nat
        OBVIOUS
    <2>2. T \subseteq Nat
        BY <2>1
    <2>3. \E x \in S : n - x \in T
        OBVIOUS
    <2> QED BY <2>2, <2>3
<1>2. Min(T) \in T /\ \A y \in T : Min(T) <= y
    BY <1>1, MinLeast
<1>3. PICK x \in S : Min(T) = n - x
    BY <1>2
<1>4. ASSUME NEW y \in S PROVE x >= y
    <2>1. n - y \in T
        OBVIOUS
    <2>2. n - x <= n - y
        BY <1>2, <1>3, <2>1
    <2> QED BY <2>2
<1> QED BY <1>4 DEF Max

-----------------------------------------------------------------------------
(* No entry occurs twice. *)
Distinct(s) == \A i, j \in 1..Len(s) : s[i] = s[j] => i = j

(* The first place of an entry that occurs. *)
LEMMA FirstPlace ==
    ASSUME NEW S, NEW s \in Seq(S), NEW e, Contains(s, e)
    PROVE  \E n \in 1..Len(s) : s[n] = e /\ RemoveFirst(s, e) = RemoveAt(s, n)
<1> DEFINE I == {i \in 1..Len(s) : s[i] = e}
<1>1. I \subseteq Nat /\ I # {}
    BY DEF Contains
<1>2. Min(I) \in I
    BY <1>1, MinLeast
<1>3. SelectInSeq(s, LAMBDA v : v = e) = Min(I)
    BY <1>1 DEF SelectInSeq
<1>4. RemoveFirst(s, e) = RemoveAt(s, SelectInSeq(s, LAMBDA v : v = e))
    BY DEF RemoveFirst, Contains
<1> QED BY <1>2, <1>3, <1>4

(* Taking out the n-th entry closes the gap. *)
LEMMA RemoveAtShape ==
    ASSUME NEW S, NEW s \in Seq(S), NEW n \in 1..Len(s)
    PROVE  /\ RemoveAt(s, n) \in Seq(S)
           /\ Len(RemoveAt(s, n)) = Len(s) - 1
           /\ \A i \in 1..(Len(s) - 1) :
                 RemoveAt(s, n)[i] = IF i < n THEN s[i] ELSE s[i + 1]
<1> DEFINE l == SubSeq(s, 1, n - 1)
           r == SubSeq(s, n + 1, Len(s))
<1>1. \A i \in 1..Len(s) : s[i] \in S
    BY ElementOfSeq
<1>2. /\ l \in Seq(S)
      /\ Len(l) = n - 1
      /\ \A i \in 1..(n - 1) : l[i] = s[i]
    <2>1. \A i \in 1..(n - 1) : s[i] \in S
        BY <1>1
    <2> QED BY <2>1, SubSeqProperties
<1>3. /\ r \in Seq(S)
      /\ Len(r) = Len(s) - n
      /\ \A i \in 1..(Len(s) - n) : r[i] = s[n + i]
    <2>1. \A i \in (n + 1)..Len(s) : s[i] \in S
        BY <1>1
    <2>2. /\ r \in Seq(S)
          /\ Len(r) = IF n + 1 <= Len(s) THEN Len(s) - (n + 1) + 1 ELSE 0
          /\ \A i \in 1..(Len(s) - (n + 1) + 1) : r[i] = s[n + 1 + i - 1]
        BY <2>1, SubSeqProperties
    <2> HIDE DEF r
    <2>3. Len(r) = Len(s) - n
        BY <2>2
    <2>4. ASSUME NEW i \in 1..(Len(s) - n)
          PROVE  r[i] = s[n + i]
        <3>1. i \in 1..(Len(s) - (n + 1) + 1) /\ n + 1 + i - 1 = n + i
            OBVIOUS
        <3>2. r[i] = s[n + 1 + i - 1]
            BY <2>2, <3>1
        <3> QED BY <3>1, <3>2, Zenon
    <2> QED BY <2>2, <2>3, <2>4
<1>4. RemoveAt(s, n) = l \o r
    BY DEF RemoveAt
<1> HIDE DEF l, r
<1>5. /\ l \o r \in Seq(S)
      /\ Len(l \o r) = Len(l) + Len(r)
      /\ \A i \in 1..(Len(l) + Len(r)) :
            (l \o r)[i] = IF i <= Len(l) THEN l[i] ELSE r[i - Len(l)]
    BY <1>2, <1>3, ConcatProperties
<1>6. Len(l) + Len(r) = Len(s) - 1
    BY <1>2, <1>3
<1>7. ASSUME NEW i \in 1..(Len(s) - 1)
      PROVE  (l \o r)[i] = IF i < n THEN s[i] ELSE s[i + 1]
    <2>1. CASE i < n
        BY <1>2, <1>5, <1>6, <2>1
    <2>2. CASE ~(i < n)
        <3>1. (l \o r)[i] = r[i - (n - 1)]
            BY <1>2, <1>5, <1>6, <2>2
        <3>2. i - (n - 1) \in 1..(Len(s) - n) /\ n + (i - (n - 1)) = i + 1
            BY <2>2
        <3> QED BY <1>3, <2>2, <3>1, <3>2
    <2> QED BY <2>1, <2>2
<1> QED BY <1>4, <1>5, <1>6, <1>7

(* list_del: what is left is a list of entries of the old one; if no entry *)
(* occurred twice, none does afterwards, and e is gone.                    *)
LEMMA RemoveFirstShape ==
    ASSUME NEW S, NEW s \in Seq(S), NEW e
    PROVE  /\ RemoveFirst(s, e) \in Seq(S)
           /\ \A x : Contains(RemoveFirst(s, e), x) => Contains(s, x)
           /\ \A x : x # e /\ Contains(s, x) => Contains(RemoveFirst(s, e), x)
           /\ Distinct(s) => Distinct(RemoveFirst(s, e)) /\ ~Contains(RemoveFirst(s, e), e)
<1>1. CASE ~Contains(s, e)
    <2>1. RemoveFirst(s, e) = s
        BY <1>1 DEF RemoveFirst, Contains
    <2> QED BY <1>1, <2>1
<1>2. CASE Contains(s, e)
    <2>1. PICK n \in 1..Len(s) : s[n] = e /\ RemoveFirst(s, e) = RemoveAt(s, n)
        BY <1>2, FirstPlace
    <2> DEFINE r == RemoveAt(s, n)
    <2>2. /\ r \in Seq(S)
          /\ Len(r) = Len(s) - 1
          /\ \A i \in 1..(Len(s) - 1) : r[i] = IF i < n THEN s[i] ELSE s[i + 1]
        BY <2>1, RemoveAtShape
    <2> HIDE DEF r
    <2>3. \A x : Contains(r, x) => Contains(s, x)
        BY <2>1, <2>2 DEF Contains
    <2>4. ASSUME NEW x, x # e, Contains(s, x)
          PROVE  Contains(r, x)
        <3>1. PICK j \in 1..Len(s) : s[j] = x
            BY <2>4 DEF Contains
        <3>2. CASE j < n
            BY <2>1, <2>2, <3>1, <3>2 DEF Contains
        <3>3. CASE j > n
            <4>1. j - 1 \in 1..Len(r) /\ r[j - 1] = x
                BY <2>1, <2>2, <3>1, <3>3
            <4> QED BY <4>1 DEF Contains
        <3> QED BY <2>1, <2>4, <3>1, <3>2, <3>3
    <2>5. ASSUME Distinct(s)
          PROVE  Distinct(r) /\ ~Contains(r, e)
        <3>1. ASSUME NEW i \in 1..Len(r), NEW j \in 1..Len(r), r[i] = r[j]
              PROVE  i = j
            <4>1. i \in 1..Len(s) /\ i + 1 \in 1..Len(s) /\ j \in 1..Len(s) /\ j + 1 \in 1..Len(s)
                BY <2>2
            <4>2. r[i] = (IF i < n THEN s[i] ELSE s[i + 1])
                  /\ r[j] = (IF j < n THEN s[j] ELSE s[j + 1])
                BY <2>2
            <4>3. CASE i < n /\ j < n
                BY <2>5, <3>1, <4>1, <4>2, <4>3 DEF Distinct
            <4>4. CASE i < n /\ ~(j < n)
                <5>1. i # j + 1
                    BY <4>1, <4>4
                <5>2. s[i] = s[j + 1]
                    BY <3>1, <4>2, <4>4
                <5> QED BY <2>5, <4>1, <5>1, <5>2 DEF Distinct
            <4>5. CASE ~(i < n) /\ j < n
                <5>1. i + 1 # j
                    BY <4>1, <4>5
                <5>2. s[i + 1] = s[j]
                    BY <3>1, <4>2, <4>5
                <5> QED BY <2>5, <4>1, <5>1, <5>2 DEF Distinct
            <4>6. CASE ~(i < n) /\ ~(j < n)
                <5>1. s[i + 1] = s[j + 1]
                    BY <3>1, <4>2, <4>6
                <5>2. i + 1 = j + 1
                    BY <2>5, <4>1, <5>1 DEF Distinct
                <5> QED BY <5>2
            <4> QED BY <4>3, <4>4, <4>5, <4>6
        <3>2. ASSUME NEW i \in 1..Len(r), r[i] = e PROVE FALSE
            <4>1. i \in 1..Len(s) /\ i + 1 \in 1..Len(s)
                BY <2>2
            <4>2. r[i] = (IF i < n THEN s[i] ELSE s[i + 1])
                BY <2>2
            <4>3. CASE i < n
                <5>1. s[i] = s[n] /\ i # n
                    BY <2>1, <3>2, <4>2, <4>3
                <5> QED BY <2>5, <4>1, <5>1 DEF Distinct
            <4>4. CASE ~(i < n)
                <5>1. s[i + 1] = s[n] /\ i + 1 # n
                    BY <2>1, <3>2, <4>2, <4>4
                <5> QED BY <2>5, <4>1, <5>1 DEF Distinct
            <4> QED BY <4>3, <4>4
        <3> QED BY <3>1, <3>2 DEF Distinct, Contains
    <2>6. RemoveFirst(s, e) = r
        BY <2>1 DEF r
    <2> QED BY <2>2, <2>3, <2>4, <2>5, <2>6
<1> QED BY <1>1, <1>2

(* Putting e in at place n shifts the entries from there on. *)
LEMMA InsertAtShape ==
    ASSUME NEW S, NEW s \in Seq(S), NEW n \in 1..(Len(s) + 1), NEW e \in S
    PROVE  /\ InsertAt(s, n, e) \in Seq(S)
           /\ Len(InsertAt(s, n, e)) = Len(s) + 1
           /\ \A i \in 1..(Len(s) + 1) :
                 InsertAt(s, n, e)[i] =
                    IF i < n THEN s[i] ELSE IF i = n THEN e ELSE s[i - 1]
<1> DEFINE l == SubSeq(s, 1, n - 1)
           m == l \o <<e>>
           r == SubSeq(s, n, Len(s))
<1>1. \A i \in 1..Len(s) : s[i] \in S
    BY ElementOfSeq
<1>2. /\ l \in Seq(S)
      /\ Len(l) = n - 1
      /\ \A i \in 1..(n - 1) : l[i] = s[i]
    <2>1. \A i \in 1..(n - 1) : s[i] \in S
        BY <1>1
    <2> QED BY <2>1, SubSeqProperties
<1>3. /\ r \in Seq(S)
      /\ Len(r) = Len(s) - n + 1
      /\ \A i \in 1..(Len(s) - n + 1) : r[i] = s[n + i - 1]
    <2>1. \A i \in n..Len(s) : s[i] \in S
        BY <1>1
    <2> QED BY <2>1, SubSeqProperties
<1>4. InsertAt(s, n, e) = m \o r
    BY DEF InsertAt
<1> HIDE DEF l, r
<1>5. /\ m \in Seq(S)
      /\ Len(m) = n
      /\ \A i \in 1..n : m[i] = IF i < n THEN s[i] ELSE e
    <2>1. <<e>> \in Seq(S) /\ Len(<<e>>) = 1 /\ <<e>>[1] = e
        OBVIOUS
    <2>2. /\ m \in Seq(S)
          /\ Len(m) = Len(l) + Len(<<e>>)
          /\ \A i \in 1..(Len(l) + Len(<<e>>)) :
                m[i] = IF i <= Len(l) THEN l[i] ELSE <<e>>[i - Len(l)]
        BY <1>2, <2>1, ConcatProperties
    <2> HIDE DEF m
    <2>3. ASSUME NEW i \in 1..n PROVE m[i] = IF i < n THEN s[i] ELSE e
        <3>1. CASE i < n
            BY <1>2, <2>1, <2>2, <3>1
        <3>2. CASE i = n
            <4>1. m[n] = <<e>>[n - (n - 1)] /\ n - (n - 1) = 1
                BY <1>2, <2>1, <2>2
            <4> QED BY <2>1, <3>2, <4>1
        <3> QED BY <3>1, <3>2
    <2> QED BY <1>2, <2>1, <2>2, <2>3
<1> HIDE DEF m
<1>6. /\ m \o r \in Seq(S)
      /\ Len(m \o r) = Len(m) + Len(r)
      /\ \A i \in 1..(Len(m) + Len(r)) :
            (m \o r)[i] = IF i <= Len(m) THEN m[i] ELSE r[i - Len(m)]
    BY <1>3, <1>5, ConcatProperties
<1>7. Len(m) + Len(r) = Len(s) + 1
    BY <1>3, <1>5
<1>8. ASSUME NEW i \in 1..(Len(s) + 1)
      PROVE  (m \o r)[i] = IF i < n THEN s[i] ELSE IF i = n THEN e ELSE s[i - 1]
    <2>1. CASE i <= n
        BY <1>5, <1>6, <1>7, <2>1
    <2>2. CASE i > n
        <3>1. (m \o r)[i] = r[i - n]
            BY <1>5, <1>6, <1>7, <2>2
        <3>2. i - n \in 1..(Len(s) - n + 1) /\ n + (i - n) - 1 = i - 1
            BY <2>2
        <3>3. r[i - n] = s[n + (i - n) - 1]
            BY <1>3, <3>2
        <3>4. (m \o r)[i] = s[i - 1]
            BY <3>1, <3>2, <3>3, Zenon
        <3> QED BY <2>2, <3>4
    <2>3. i <= n \/ i > n
        OBVIOUS
    <2> QED BY <2>1, <2>2, <2>3
<1> QED BY <1>4, <1>6, <1>7, <1>8

-----------------------------------------------------------------------------
(* The empty list holds nothing, any other list something. *)
LEMMA EmptyShape ==
    ASSUME NEW S, NEW s \in Seq(S)
    PROVE  s = <<>> <=> \A x : ~Contains(s, x)
<1>1. s = <<>> => \A x : ~Contains(s, x)
    BY DEF Contains
<1>2. ASSUME s # <<>> PROVE \E x : Contains(s, x)
    <2>1. 1 \in 1..Len(s)
        BY <1>2
    <2> QED BY <2>1 DEF Contains
<1> QED BY <1>1, <1>2

(* list_add_tail. *)
LEMMA AppendShape ==
    ASSUME NEW S, NEW s \in Seq(S), NEW e \in S
    PROVE  /\ Append(s, e) \in Seq(S)
           /\ Append(s, e) # <<>>
           /\ \A x : Contains(Append(s, e), x) <=> Contains(s, x) \/ x = e
           /\ Distinct(s) /\ ~Contains(s, e) => Distinct(Append(s, e))
<1> DEFINE r == Append(s, e)
<1>1. /\ r \in Seq(S)
      /\ Len(r) = Len(s) + 1
      /\ r[Len(s) + 1] = e
      /\ \A i \in 1..Len(s) : r[i] = s[i]
    BY AppendProperties
<1> HIDE DEF r
<1>2. r # <<>>
    BY <1>1
<1>3. ASSUME NEW x PROVE Contains(r, x) <=> Contains(s, x) \/ x = e
    <2>1. ASSUME Contains(r, x) PROVE Contains(s, x) \/ x = e
        BY <1>1, <2>1 DEF Contains
    <2>2. ASSUME Contains(s, x) PROVE Contains(r, x)
        BY <1>1, <2>2 DEF Contains
    <2>3. Len(s) + 1 \in 1..Len(r)
        BY <1>1
    <2>4. Contains(r, e)
        BY <1>1, <2>3 DEF Contains
    <2> QED BY <2>1, <2>2, <2>4
<1>4. ASSUME Distinct(s), ~Contains(s, e) PROVE Distinct(r)
    <2> SUFFICES ASSUME NEW i \in 1..Len(r), NEW j \in 1..Len(r), r[i] = r[j] PROVE i = j
        BY DEF Distinct
    <2>1. CASE i <= Len(s) /\ j <= Len(s)
        BY <1>1, <1>4, <2>1 DEF Distinct
    <2>2. CASE i = Len(s) + 1 /\ j <= Len(s)
        BY <1>1, <1>4, <2>2 DEF Contains
    <2>3. CASE i <= Len(s) /\ j = Len(s) + 1
        BY <1>1, <1>4, <2>3 DEF Contains
    <2> QED BY <1>1, <2>1, <2>2, <2>3
<1> QED BY <1>1, <1>2, <1>3, <1>4 DEF r

(* Taking the first entry of a list. *)
LEMMA TailShape ==
    ASSUME NEW S, NEW s \in Seq(S), s # <<>>
    PROVE  /\ Head(s) \in S /\ Contains(s, Head(s))
           /\ Tail(s) \in Seq(S)
           /\ \A x : Contains(s, x) <=> x = Head(s) \/ Contains(Tail(s), x)
           /\ Distinct(s) => Distinct(Tail(s)) /\ ~Contains(Tail(s), Head(s))
<1> DEFINE r == Tail(s)
<1>1. /\ r \in Seq(S)
      /\ Len(r) = Len(s) - 1
      /\ \A i \in 1..Len(r) : r[i] = s[i + 1]
      /\ Head(s) = s[1] /\ Head(s) \in S
      /\ Len(s) >= 1
    BY HeadTailProperties
<1> HIDE DEF r
<1>2. Contains(s, Head(s))
    BY <1>1 DEF Contains
<1>3. ASSUME NEW x, Contains(s, x) PROVE x = Head(s) \/ Contains(r, x)
    <2>1. PICK i \in 1..Len(s) : s[i] = x
        BY <1>3 DEF Contains
    <2>2. CASE i = 1
        BY <1>1, <2>1, <2>2
    <2>3. CASE i # 1
        <3>1. i - 1 \in 1..Len(r) /\ r[i - 1] = x
            BY <1>1, <2>1, <2>3
        <3> QED BY <3>1 DEF Contains
    <2> QED BY <2>2, <2>3
<1>4. ASSUME NEW x, Contains(r, x) PROVE Contains(s, x)
    <2>1. PICK i \in 1..Len(r) : r[i] = x
        BY <1>4 DEF Contains
    <2>2. i + 1 \in 1..Len(s) /\ s[i + 1] = x
        BY <1>1, <2>1
    <2> QED BY <2>2 DEF Contains
<1>5. ASSUME Distinct(s) PROVE Distinct(r) /\ ~Contains(r, Head(s))
    <2>1. ASSUME NEW i \in 1..Len(r), NEW j \in 1..Len(r), r[i] = r[j] PROVE i = j
        <3>1. i + 1 \in 1..Len(s) /\ j + 1 \in 1..Len(s) /\ s[i + 1] = s[j + 1]
            BY <1>1, <2>1
        <3>2. i + 1 = j + 1
            BY <1>5, <3>1 DEF Distinct
        <3> QED BY <3>2
    <2>2. ASSUME NEW i \in 1..Len(r), r[i] = Head(s) PROVE FALSE
        <3>1. 1 \in 1..Len(s) /\ i + 1 \in 1..Len(s) /\ s[i + 1] = s[1]
            BY <1>1, <2>2
        <3>2. i + 1 = 1
            BY <1>5, <3>1 DEF Distinct
        <3> QED BY <3>2
    <2> QED BY <2>1, <2>2 DEF Distinct, Contains
<1> QED BY <1>1, <1>2, <1>3, <1>4, <1>5 DEF r

(* An entry that is not there cannot be taken out. *)
LEMMA RemoveAbsent ==
    ASSUME NEW s, NEW e, ~Contains(s, e)
    PROVE  RemoveFirst(s, e) = s
BY DEF RemoveFirst, Contains

(* What InsertAt adds. *)
LEMMA InsertAtContents ==
    ASSUME NEW S, NEW s \in Seq(S), NEW n \in 1..Len(s), NEW e \in S
    PROVE  /\ InsertAt(s, n, e) \in Seq(S)
           /\ \A x : Contains(InsertAt(s, n, e), x) <=> Contains(s, x) \/ x = e
           /\ Distinct(s) /\ ~Contains(s, e) => Distinct(InsertAt(s, n, e))
<1> DEFINE r == InsertAt(s, n, e)
<1>1. /\ r \in Seq(S)
      /\ Len(r) = Len(s) + 1
      /\ \A i \in 1..(Len(s) + 1) : /\ i < n => r[i] = s[i]
                                    /\ i = n => r[i] = e
                                    /\ i > n => r[i] = s[i - 1]
    <2>1. r \in Seq(S) /\ Len(r) = Len(s) + 1
        BY InsertAtShape
    <2>2. ASSUME NEW i \in 1..(Len(s) + 1)
          PROVE  r[i] = IF i < n THEN s[i] ELSE IF i = n THEN e ELSE s[i - 1]
        BY InsertAtShape
    <2> HIDE DEF r
    <2> QED BY <2>1, <2>2
<1> HIDE DEF r
<1>2. ASSUME NEW x, Contains(r, x) PROVE Contains(s, x) \/ x = e
    <2>1. PICK i \in 1..Len(r) : r[i] = x
        BY <1>2 DEF Contains
    <2>2. CASE i < n
        BY <1>1, <2>1, <2>2 DEF Contains
    <2>3. CASE i = n
        BY <1>1, <2>1, <2>3
    <2>4. CASE i > n
        <3>1. i - 1 \in 1..Len(s) /\ s[i - 1] = x
            BY <1>1, <2>1, <2>4
        <3> QED BY <3>1 DEF Contains
    <2> QED BY <2>2, <2>3, <2>4
<1>3. Contains(r, e)
    BY <1>1 DEF Contains
<1>4. ASSUME NEW x, Contains(s, x) PROVE Contains(r, x)
    <2>1. PICK i \in 1..Len(s) : s[i] = x
        BY <1>4 DEF Contains
    <2>2. CASE i < n
        BY <1>1, <2>1, <2>2 DEF Contains
    <2>3. CASE i >= n
        <3>1. i + 1 \in 1..Len(r) /\ r[i + 1] = x
            BY <1>1, <2>1, <2>3
        <3> QED BY <3>1 DEF Contains
    <2> QED BY <2>2, <2>3
<1>5. ASSUME Distinct(s), ~Contains(s, e) PROVE Distinct(r)
    <2> DEFINE old(i) == IF i < n THEN i ELSE i - 1
    <2>1. ASSUME NEW i \in 1..Len(r), i # n
          PROVE  old(i) \in 1..Len(s) /\ r[i] = s[old(i)] /\ r[i] # e
        <3>1. old(i) \in 1..Len(s) /\ r[i] = s[old(i)]
            BY <1>1, <2>1
        <3> QED BY <1>5, <3>1 DEF Contains
    <2>2. r[n] = e
        BY <1>1
    <2> SUFFICES ASSUME NEW i \in 1..Len(r), NEW j \in 1..Len(r), r[i] = r[j] PROVE i = j
        BY DEF Distinct
    <2>3. CASE i = n \/ j = n
        BY <2>1, <2>2, <2>3
    <2>4. CASE i # n /\ j # n
        <3>1. old(i) = old(j)
            BY <1>5, <2>1, <2>4 DEF Distinct
        <3> QED BY <2>4, <3>1
    <2> QED BY <2>3, <2>4
<1> QED BY <1>1, <1>2, <1>3, <1>4, <1>5 DEF r

=============================================================================
