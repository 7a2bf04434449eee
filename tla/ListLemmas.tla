----------------------------- MODULE ListLemmas -----------------------------
(* What the list operations of the kernel do to the set of elements of a   *)
(* list, and that they keep a list free of duplicates; what a sum over a   *)
(* finite set is.                                                          *)
EXTENDS Integers, Sequences, SequencesExt, FiniteSetsExt, Functions,
        SequenceTheorems, FiniteSetTheorems, WellFoundedInduction, TLAPS

(* A non-empty set of naturals has a least element, and Min picks it.      *)
LEMMA MinOfNat ==
  ASSUME NEW S \in SUBSET Nat, S # {}
  PROVE  Min(S) \in S /\ \A y \in S : Min(S) <= y
<1>1. \E x \in S : \A y \in S : <<y, x>> \notin OpToRel(<, Nat)
  BY NatLessThanWellFounded, WFMin
<1>2. PICK x \in S : \A y \in S : <<y, x>> \notin OpToRel(<, Nat)
  BY <1>1
<1> DEFINE less == {ss \in Nat \X Nat : ss[1] < ss[2]}
<1>3. \A y \in S : <<y, x>> \notin less
  BY <1>2, Zenon DEF OpToRel
<1>4. ASSUME NEW y \in S
      PROVE  x <= y
  <2>1. ~(y < x)
    <3> SUFFICES ASSUME y < x PROVE FALSE
      OBVIOUS
    <3>1. <<y, x>> \in less
      OBVIOUS
    <3> QED BY <1>3, <3>1
  <2> QED BY <2>1
<1> QED
  BY <1>4 DEF Min

(* Induction up to a bound, for a set of naturals.                         *)
LEMMA UpTo ==
  ASSUME NEW S, NEW n \in Nat, 0 \in S,
         \A i \in 0..(n - 1) : i \in S => i + 1 \in S
  PROVE  \A i \in 0..n : i \in S
<1> DEFINE B == {i \in 0..n : i \notin S}
<1> SUFFICES ASSUME B # {} PROVE FALSE
  OBVIOUS
<1>1. B \in SUBSET Nat
  OBVIOUS
<1>2. Min(B) \in B /\ \A y \in B : Min(B) <= y
  BY <1>1, MinOfNat
<1> DEFINE m == Min(B)
<1> HIDE DEF m
<1>3. m \in 0..n /\ m \notin S /\ \A y \in B : m <= y
  BY <1>2 DEF m
<1>4. m # 0 /\ m - 1 \in 0..(n - 1)
  BY <1>3
<1>5. m - 1 \notin B
  BY <1>3, <1>4
<1>6. m - 1 \in S
  BY <1>4, <1>5
<1>7. (m - 1) + 1 \in S
  BY <1>4, <1>6
<1> QED BY <1>3, <1>4, <1>7

(* Membership in a list, by position and by range.                         *)
LEMMA ContainsRange ==
  ASSUME NEW T, NEW s \in Seq(T), NEW e
  PROVE  Contains(s, e) <=> e \in Range(s)
BY DEF Contains, Range

(* The list a PCB is linked into, as sys_fork and the wake-up of a parent  *)
(* do it, element by element.                                              *)
LEMMA InsertAtSeq ==
  ASSUME NEW T, NEW s \in Seq(T), NEW i \in 1..(Len(s) + 1), NEW e \in T
  PROVE  /\ InsertAt(s, i, e) \in Seq(T)
         /\ Len(InsertAt(s, i, e)) = Len(s) + 1
         /\ \A k \in 1..(Len(s) + 1) :
              InsertAt(s, i, e)[k] =
                IF k < i THEN s[k] ELSE IF k = i THEN e ELSE s[k - 1]
<1> DEFINE a == SubSeq(s, 1, i - 1)
           b == SubSeq(s, i, Len(s))
<1>1. /\ a \in Seq(T) /\ Len(a) = i - 1
      /\ \A k \in 1..(i - 1) : a[k] = s[k]
  BY SubSeqProperties
<1>2. /\ b \in Seq(T) /\ Len(b) = Len(s) - i + 1
      /\ \A k \in 1..(Len(s) - i + 1) : b[k] = s[i + k - 1]
  BY SubSeqProperties
<1>3. /\ a \o <<e>> \in Seq(T) /\ Len(a \o <<e>>) = i
      /\ \A k \in 1..i : (a \o <<e>>)[k] = IF k < i THEN s[k] ELSE e
  <2> HIDE DEF a, b
  <2> QED BY <1>1
<1> DEFINE c == a \o <<e>>
<1>4. InsertAt(s, i, e) = c \o b
  BY DEF InsertAt
<1> HIDE DEF c, b
<1> QED
  BY <1>2, <1>3, <1>4, ConcatProperties DEF c

(* The list a PCB is unlinked from, element by element.                    *)
LEMMA RemoveAtSeq ==
  ASSUME NEW T, NEW s \in Seq(T), NEW i \in 1..Len(s)
  PROVE  /\ RemoveAt(s, i) \in Seq(T)
         /\ Len(RemoveAt(s, i)) = Len(s) - 1
         /\ \A k \in 1..(Len(s) - 1) :
              RemoveAt(s, i)[k] = IF k < i THEN s[k] ELSE s[k + 1]
<1> DEFINE a == SubSeq(s, 1, i - 1)
           b == SubSeq(s, i + 1, Len(s))
<1>1. /\ a \in Seq(T) /\ Len(a) = i - 1
      /\ \A k \in 1..(i - 1) : a[k] = s[k]
  BY SubSeqProperties
<1>2. /\ b \in Seq(T) /\ Len(b) = Len(s) - i
      /\ \A k \in 1..(Len(s) - i) : b[k] = s[i + k]
  BY SubSeqProperties
<1>3. RemoveAt(s, i) = a \o b
  BY DEF RemoveAt
<1> HIDE DEF a, b
<1>4. /\ a \o b \in Seq(T) /\ Len(a \o b) = Len(s) - 1
      /\ \A k \in 1..(Len(s) - 1) :
           (a \o b)[k] = IF k < i THEN a[k] ELSE b[k - (i - 1)]
  <2>1. /\ a \o b \in Seq(T)
        /\ Len(a \o b) = Len(a) + Len(b)
        /\ \A k \in 1..(Len(a) + Len(b)) :
             (a \o b)[k] = IF k <= Len(a) THEN a[k] ELSE b[k - Len(a)]
    BY <1>1, <1>2, ConcatProperties, Zenon
  <2> HIDE DEF a, b
  <2> QED BY <1>1, <1>2, <2>1
<1>5. ASSUME NEW k \in 1..(Len(s) - 1), ~(k < i)
      PROVE  b[k - (i - 1)] = s[k + 1]
  BY <1>2, <1>5
<1>6. ASSUME NEW k \in 1..(Len(s) - 1)
      PROVE  (a \o b)[k] = IF k < i THEN s[k] ELSE s[k + 1]
  <2>1. CASE k < i
    <3>1. k \in 1..(i - 1)
      BY <2>1
    <3>2. (a \o b)[k] = a[k]
      BY <1>4, <2>1, Zenon
    <3> QED BY <1>1, <2>1, <3>1, <3>2, Zenon
  <2>2. CASE ~(k < i)
    <3>1. (a \o b)[k] = b[k - (i - 1)]
      BY <1>4, <2>2, Zenon
    <3> QED BY <1>5, <2>2, <3>1, Zenon
  <2> QED BY <2>1, <2>2, Zenon
<1> QED
  BY <1>3, <1>4, <1>6, Zenon

(* What is left of a list behind position i, element by element.           *)
LEMMA DropSeq ==
  ASSUME NEW T, NEW s \in Seq(T), NEW i \in 1..Len(s)
  PROVE  LET d == SubSeq(s, i + 1, Len(s))
         IN  /\ d \in Seq(T) /\ Len(d) = Len(s) - i
             /\ \A k \in 1..(Len(s) - i) : d[k] = s[i + k]
BY SubSeqProperties

-----------------------------------------------------------------------------
(* The same in terms of ranges, for lists without duplicates.              *)

(* Linking in a PCB that is not listed keeps a list free of duplicates     *)
(* and, behind the head, keeps its head.                                   *)
LEMMA InsertKeepsInjective ==
  ASSUME NEW T, NEW s \in Seq(T), NEW i \in 1..(Len(s) + 1), NEW e \in T
  PROVE  /\ InsertAt(s, i, e) \in Seq(T)
         /\ Range(InsertAt(s, i, e)) = Range(s) \cup {e}
         /\ IsInjective(s) /\ e \notin Range(s) => IsInjective(InsertAt(s, i, e))
         /\ i > 1 => Head(InsertAt(s, i, e)) = Head(s)
<1> DEFINE r == InsertAt(s, i, e)
<1>1. /\ r \in Seq(T) /\ Len(r) = Len(s) + 1
      /\ \A k \in 1..(Len(s) + 1) :
           r[k] = IF k < i THEN s[k] ELSE IF k = i THEN e ELSE s[k - 1]
  BY InsertAtSeq
<1> HIDE DEF r
<1>2. Range(r) \subseteq Range(s) \cup {e}
  BY <1>1 DEF Range
<1>3. e \in Range(r)
  BY <1>1 DEF Range
<1>4. ASSUME NEW k \in 1..Len(s)
      PROVE  s[k] \in Range(r)
  <2>1. CASE k < i
    BY <1>1, <2>1 DEF Range
  <2>2. CASE k >= i
    <3>1. r[k + 1] = s[k] /\ k + 1 \in DOMAIN r
      BY <1>1, <2>2
    <3> QED BY <3>1 DEF Range
  <2> QED BY <2>1, <2>2
<1>5. Range(r) = Range(s) \cup {e}
  <2>1. Range(s) \subseteq Range(r)
    <3>1. Range(s) = {s[k] : k \in 1..Len(s)}
      BY RangeEquality, Zenon
    <3> QED BY <1>4, <3>1
  <2> QED BY <1>2, <1>3, <2>1
<1>6. ASSUME IsInjective(s), e \notin Range(s)
      PROVE  IsInjective(r)
  <2> SUFFICES ASSUME NEW k \in 1..(Len(s) + 1), NEW m \in 1..(Len(s) + 1),
                      r[k] = r[m]
               PROVE  k = m
    BY <1>1 DEF IsInjective
  <2> DEFINE old(n) == IF n < i THEN n ELSE n - 1
  <2>1. \A n \in 1..(Len(s) + 1) :
          n # i => r[n] = s[old(n)] /\ old(n) \in 1..Len(s)
    BY <1>1
  <2>2. \A n \in 1..Len(s) : s[n] # e
    BY <1>6, RangeEquality, Zenon
  <2>3. k = i <=> m = i
    <3>1. r[i] = e /\ \A n \in 1..(Len(s) + 1) : n # i => r[n] # e
      BY <1>1, <2>1, <2>2
    <3> QED BY <3>1
  <2>4. CASE k # i /\ m # i
    <3>1. s[old(k)] = s[old(m)] /\ old(k) \in DOMAIN s /\ old(m) \in DOMAIN s
      BY <2>1, <2>4
    <3>2. old(k) = old(m)
      BY <1>6, <3>1 DEF IsInjective
    <3> QED BY <2>4, <3>2
  <2> QED BY <2>3, <2>4
<1>7. i > 1 => Head(r) = Head(s)
  BY <1>1
<1> QED
  BY <1>1, <1>5, <1>6, <1>7 DEF r

(* Unlinking a PCB removes that PCB only, and keeps the head unless it is  *)
(* the head that goes.                                                     *)
LEMMA RemoveKeepsInjective ==
  ASSUME NEW T, NEW s \in Seq(T), NEW i \in 1..Len(s), IsInjective(s)
  PROVE  /\ RemoveAt(s, i) \in Seq(T)
         /\ Range(RemoveAt(s, i)) = Range(s) \ {s[i]}
         /\ IsInjective(RemoveAt(s, i))
         /\ i > 1 => Head(RemoveAt(s, i)) = Head(s) /\ RemoveAt(s, i) # <<>>
<1> DEFINE r == RemoveAt(s, i)
<1>1. /\ r \in Seq(T) /\ Len(r) = Len(s) - 1
      /\ \A k \in 1..(Len(s) - 1) : r[k] = IF k < i THEN s[k] ELSE s[k + 1]
  BY RemoveAtSeq
<1> HIDE DEF r
<1>2. Range(r) \subseteq Range(s) \ {s[i]}
  BY <1>1 DEF Range, IsInjective
<1>3. ASSUME NEW k \in 1..Len(s), k # i
      PROVE  s[k] \in Range(r)
  <2>1. CASE k < i
    BY <1>1, <2>1 DEF Range
  <2>2. CASE k > i
    <3>1. r[k - 1] = s[k] /\ k - 1 \in DOMAIN r
      BY <1>1, <2>2
    <3> QED BY <3>1 DEF Range
  <2> QED BY <1>3, <2>1, <2>2
<1>4. Range(r) = Range(s) \ {s[i]}
  <2>1. Range(s) = {s[k] : k \in 1..Len(s)}
    BY RangeEquality
  <2>2. Range(s) \ {s[i]} \subseteq Range(r)
    BY <1>3, <2>1
  <2> QED BY <1>2, <2>2
<1>5. IsInjective(r)
  <2> SUFFICES ASSUME NEW k \in 1..(Len(s) - 1), NEW m \in 1..(Len(s) - 1),
                      r[k] = r[m]
               PROVE  k = m
    BY <1>1 DEF IsInjective
  <2> DEFINE old(n) == IF n < i THEN n ELSE n + 1
  <2>1. s[old(k)] = s[old(m)] /\ old(k) \in DOMAIN s /\ old(m) \in DOMAIN s
    BY <1>1
  <2>2. old(k) = old(m)
    BY <2>1 DEF IsInjective
  <2> QED BY <2>2
<1>6. i > 1 => Head(r) = Head(s) /\ r # <<>>
  BY <1>1
<1> QED
  BY <1>1, <1>4, <1>5, <1>6 DEF r

(* RemoveFirst takes out one occurrence, at some position.                 *)
LEMMA RemoveFirstAt ==
  ASSUME NEW T, NEW s \in Seq(T), NEW e, e \in Range(s)
  PROVE  \E i \in 1..Len(s) : s[i] = e /\ RemoveFirst(s, e) = RemoveAt(s, i)
<1> DEFINE I == {i \in 1..Len(s) : s[i] = e}
<1>1. I # {} /\ I \in SUBSET Nat
  BY DEF Range
<1>2. Min(I) \in I
  BY <1>1, MinOfNat
<1>3. SelectInSeq(s, LAMBDA v : v = e) = Min(I)
  BY <1>1 DEF SelectInSeq
<1>4. RemoveFirst(s, e) = RemoveAt(s, Min(I))
  BY <1>1, <1>3 DEF RemoveFirst
<1> QED
  BY <1>2, <1>4

(* What is left behind position i has no duplicates and does not hold the  *)
(* PCB at i.                                                               *)
LEMMA DropKeepsInjective ==
  ASSUME NEW T, NEW s \in Seq(T), NEW i \in 1..Len(s), IsInjective(s)
  PROVE  LET d == SubSeq(s, i + 1, Len(s))
         IN  /\ d \in Seq(T)
             /\ Range(d) \subseteq Range(s) \ {s[i]}
             /\ IsInjective(d)
<1> DEFINE d == SubSeq(s, i + 1, Len(s))
<1>1. /\ d \in Seq(T) /\ Len(d) = Len(s) - i
      /\ \A k \in 1..(Len(s) - i) : d[k] = s[i + k]
  BY DropSeq
<1> HIDE DEF d
<1>2. \A k \in 1..Len(d) : d[k] = s[i + k] /\ i + k \in DOMAIN s /\ i + k # i
  BY <1>1
<1>3. Range(d) \subseteq Range(s) \ {s[i]}
  <2>1. Range(d) = {d[k] : k \in 1..Len(d)} /\ Range(s) = {s[k] : k \in 1..Len(s)}
    BY <1>1, RangeEquality, Zenon
  <2>2. \A k \in 1..Len(d) : d[k] # s[i]
    BY <1>2 DEF IsInjective
  <2> QED BY <1>2, <2>1, <2>2
<1>4. ASSUME NEW k \in 1..Len(d), NEW m \in 1..Len(d), d[k] = d[m]
      PROVE  k = m
  <2>1. i + k = i + m
    BY <1>2, <1>4 DEF IsInjective
  <2> QED BY <2>1, <1>1
<1>5. IsInjective(d)
  BY <1>1, <1>4 DEF IsInjective
<1> QED
  BY <1>1, <1>3, <1>5 DEF d

(* Linking an unlisted PCB in at the end, as create_thread does.           *)
LEMMA AppendKeepsInjective ==
  ASSUME NEW T, NEW s \in Seq(T), NEW e \in T
  PROVE  /\ Append(s, e) \in Seq(T)
         /\ Range(Append(s, e)) = Range(s) \cup {e}
         /\ IsInjective(s) /\ e \notin Range(s) => IsInjective(Append(s, e))
         /\ s # <<>> => Head(Append(s, e)) = Head(s)
<1> DEFINE r == Append(s, e)
<1>1. /\ r \in Seq(T) /\ Len(r) = Len(s) + 1
      /\ \A k \in 1..Len(s) : r[k] = s[k]
      /\ r[Len(s) + 1] = e
  BY AppendProperties
<1> HIDE DEF r
<1>2. Range(r) = Range(s) \cup {e}
  <2>1. Range(r) \subseteq Range(s) \cup {e}
    BY <1>1 DEF Range
  <2>2. e \in Range(r)
    BY <1>1 DEF Range
  <2>3. Range(s) \subseteq Range(r)
    BY <1>1 DEF Range
  <2> QED BY <2>1, <2>2, <2>3
<1>3. ASSUME IsInjective(s), e \notin Range(s)
      PROVE  IsInjective(r)
  BY <1>1, <1>3 DEF IsInjective, Range
<1>4. s # <<>> => Head(r) = Head(s)
  BY <1>1
<1> QED
  BY <1>1, <1>2, <1>3, <1>4 DEF r

(* Two lists hold no element twice, together, iff each holds none twice    *)
(* and they share none.                                                    *)
LEMMA ConcatInjective ==
  ASSUME NEW T, NEW s \in Seq(T), NEW t \in Seq(T)
  PROVE  IsInjective(s \o t) <=>
           IsInjective(s) /\ IsInjective(t) /\ Range(s) \cap Range(t) = {}
<1> DEFINE r == s \o t
<1>1. /\ r \in Seq(T) /\ Len(r) = Len(s) + Len(t)
      /\ \A i \in 1..(Len(s) + Len(t)) :
           r[i] = IF i <= Len(s) THEN s[i] ELSE t[i - Len(s)]
  BY ConcatProperties
<1> HIDE DEF r
<1>2. \A i \in 1..Len(s) : r[i] = s[i] /\ i \in DOMAIN r
  BY <1>1
<1>3. \A i \in 1..Len(t) : r[Len(s) + i] = t[i] /\ Len(s) + i \in DOMAIN r
  BY <1>1
<1>4. ASSUME IsInjective(r)
      PROVE  IsInjective(s) /\ IsInjective(t) /\ Range(s) \cap Range(t) = {}
  <2>1. IsInjective(s)
    BY <1>2, <1>4 DEF IsInjective
  <2>2. IsInjective(t)
    BY <1>3, <1>4 DEF IsInjective
  <2>3. ASSUME NEW i \in 1..Len(s), NEW j \in 1..Len(t), s[i] = t[j]
        PROVE  FALSE
    <3>1. i = Len(s) + j
      BY <1>2, <1>3, <1>4, <2>3 DEF IsInjective
    <3> QED BY <3>1
  <2>4. Range(s) \cap Range(t) = {}
    BY <2>3 DEF Range
  <2> QED BY <2>1, <2>2, <2>4
<1>5. ASSUME IsInjective(s), IsInjective(t), Range(s) \cap Range(t) = {}
      PROVE  IsInjective(r)
  <2> SUFFICES ASSUME NEW i \in 1..(Len(s) + Len(t)), NEW j \in 1..(Len(s) + Len(t)),
                      r[i] = r[j]
               PROVE  i = j
    BY <1>1 DEF IsInjective
  <2>1. \A m \in 1..Len(s), n \in 1..Len(t) : s[m] # t[n]
    <3>1. Range(s) = {s[m] : m \in 1..Len(s)} /\ Range(t) = {t[n] : n \in 1..Len(t)}
      BY RangeEquality, Zenon
    <3> QED BY <1>5, <3>1
  <2>2. CASE i <= Len(s) /\ j <= Len(s)
    BY <1>1, <1>5, <2>2 DEF IsInjective
  <2>3. CASE i > Len(s) /\ j > Len(s)
    <3>1. i - Len(s) \in DOMAIN t /\ j - Len(s) \in DOMAIN t /\ t[i - Len(s)] = t[j - Len(s)]
      BY <1>1, <2>3
    <3>2. i - Len(s) = j - Len(s)
      BY <3>1, <1>5 DEF IsInjective
    <3> QED BY <3>2
  <2>4. CASE i <= Len(s) /\ j > Len(s)
    BY <1>1, <2>1, <2>4
  <2>5. CASE i > Len(s) /\ j <= Len(s)
    BY <1>1, <2>1, <2>5
  <2> QED BY <2>2, <2>3, <2>4, <2>5
<1> QED
  BY <1>4, <1>5 DEF r

(* The index SelectInSeq computes, from the set of positions that qualify. *)
LEMMA FirstIndex ==
  ASSUME NEW n \in Nat, NEW I \in SUBSET (1..n)
  PROVE  LET i == IF I # {} THEN Min(I) ELSE 0
         IN  i \in 0..n /\ (I # {} <=> i # 0) /\ (i # 0 => i \in I)
<1>1. I # {} => Min(I) \in I
  <2>1. I \in SUBSET Nat
    OBVIOUS
  <2> QED BY <2>1, MinOfNat
<1>2. CASE I = {}
  BY <1>2
<1>3. CASE I # {}
  <2>1. Min(I) \in I /\ Min(I) \in 1..n
    BY <1>1, <1>3
  <2> QED BY <1>3, <2>1
<1> QED
  BY <1>2, <1>3

(* The head of a list is one of its elements.                              *)
LEMMA HeadInRange ==
  ASSUME NEW T, NEW s \in Seq(T), s # <<>>
  PROVE  Head(s) \in Range(s)
<1>1. 1 \in DOMAIN s /\ Head(s) = s[1]
  OBVIOUS
<1> QED
  BY <1>1 DEF Range

(* Unlinking, also of a PCB that is not there, leaves a list.              *)
LEMMA RemoveFirstType ==
  ASSUME NEW T, NEW s \in Seq(T), NEW e
  PROVE  RemoveFirst(s, e) \in Seq(T)
<1>1. CASE e \in Range(s)
  BY <1>1, RemoveFirstAt, RemoveAtSeq
<1>2. CASE e \notin Range(s)
  BY <1>2 DEF RemoveFirst, Range
<1> QED
  BY <1>1, <1>2

(* Linking an unlisted PCB in at the front, as sys_waitpid does with       *)
(* blockedlist.                                                            *)
LEMMA PrependKeepsInjective ==
  ASSUME NEW T, NEW s \in Seq(T), NEW e \in T, e \notin Range(s), IsInjective(s)
  PROVE  /\ <<e>> \o s \in Seq(T)
         /\ Range(<<e>> \o s) = {e} \cup Range(s)
         /\ IsInjective(<<e>> \o s)
<1>1. <<e>> \in Seq(T) /\ IsInjective(<<e>>)
  BY DEF IsInjective
<1>2. Range(<<e>>) = {e}
  <2>1. <<e>>[1] = e /\ DOMAIN <<e>> = {1}
    OBVIOUS
  <2> QED BY <2>1 DEF Range
<1> DEFINE u == <<e>>
<1> HIDE DEF u
<1>3. u \in Seq(T) /\ IsInjective(u) /\ Range(u) = {e}
  BY <1>1, <1>2 DEF u
<1>4. u \o s \in Seq(T)
  BY <1>3, ConcatProperties
<1>5. Range(u \o s) = Range(u) \cup Range(s)
  BY <1>3, RangeConcatenation
<1>6. IsInjective(u \o s)
  BY <1>3, ConcatInjective
<1> QED
  BY <1>3, <1>4, <1>5, <1>6 DEF u

-----------------------------------------------------------------------------
(* Sums over a finite set                                                  *)

(* The element a sum takes next.                                           *)
Pick(s) == CHOOSE x \in s : TRUE

(* What a sum over the subsets of D is built up by.                        *)
Adds(f, D, g) ==
  [s \in SUBSET D |-> IF s = {} THEN 0 ELSE f[Pick(s)] + g[s \ {Pick(s)}]]

(* Taking an element out of a subset leaves one that is smaller by one.    *)
LEMMA Smaller ==
  ASSUME NEW D, IsFiniteSet(D), NEW s \in SUBSET D
  PROVE  /\ IsFiniteSet(s) /\ Cardinality(s) \in 0..Cardinality(D)
         /\ Cardinality(s) = 0 <=> s = {}
         /\ s # {} => Pick(s) \in s
         /\ \A x \in s : /\ s \ {x} \in SUBSET D
                         /\ Cardinality(s \ {x}) = Cardinality(s) - 1
<1>1. IsFiniteSet(s) /\ Cardinality(s) <= Cardinality(D)
  BY FS_Subset
<1>2. Cardinality(s) \in Nat /\ Cardinality(D) \in Nat
  BY <1>1, FS_CardinalityType
<1>3. Cardinality(s) = 0 <=> s = {}
  BY <1>1, FS_EmptySet
<1>4. s # {} => Pick(s) \in s
  BY DEF Pick
<1>5. ASSUME NEW x \in s
      PROVE  s \ {x} \in SUBSET D /\ Cardinality(s \ {x}) = Cardinality(s) - 1
  BY <1>1, FS_RemoveElement
<1> QED
  BY <1>1, <1>2, <1>3, <1>4, <1>5

(* Such a sum exists.                                                      *)
LEMMA AddsUp ==
  ASSUME NEW D, IsFiniteSet(D), NEW f, \A x \in D : f[x] \in Nat
  PROVE  \E g \in [SUBSET D -> Nat] : g = Adds(f, D, g)
<1> DEFINE n == Cardinality(D)
           rest(s) == s \ {Pick(s)}
           Up(g, k) == \A s \in SUBSET D : Cardinality(s) <= k =>
                         g[s] = IF s = {} THEN 0 ELSE f[Pick(s)] + g[rest(s)]
           S == {k \in 0..n : \E g \in [SUBSET D -> Nat] : Up(g, k)}
<1>0. /\ n \in Nat
      /\ \A s \in SUBSET D : s # {} => /\ f[Pick(s)] \in Nat /\ rest(s) \in SUBSET D
                                       /\ Cardinality(rest(s)) = Cardinality(s) - 1
      /\ \A s \in SUBSET D : Cardinality(s) \in 0..n /\ (Cardinality(s) = 0 <=> s = {})
  <2>1. n \in Nat
    BY FS_CardinalityType
  <2>2. ASSUME NEW s \in SUBSET D
        PROVE  /\ s # {} => /\ f[Pick(s)] \in Nat /\ rest(s) \in SUBSET D
                            /\ Cardinality(rest(s)) = Cardinality(s) - 1
               /\ Cardinality(s) \in 0..n /\ (Cardinality(s) = 0 <=> s = {})
    BY Smaller
  <2> QED BY <2>1, <2>2
<1> HIDE DEF n, rest
<1>1. 0 \in S
  <2> DEFINE z == [s \in SUBSET D |-> 0]
  <2>1. z \in [SUBSET D -> Nat] /\ Up(z, 0)
    BY <1>0
  <2> HIDE DEF z, Up
  <2> QED BY <1>0, <2>1
<1>2. ASSUME NEW k \in 0..(n - 1), k \in S
      PROVE  k + 1 \in S
  <2>1. PICK g \in [SUBSET D -> Nat] : Up(g, k)
    BY <1>2
  <2> DEFINE h == [s \in SUBSET D |-> IF s = {} THEN 0 ELSE f[Pick(s)] + g[rest(s)]]
  <2>2. h \in [SUBSET D -> Nat]
    BY <1>0
  <2>3. \A s \in SUBSET D : h[s] = IF s = {} THEN 0 ELSE f[Pick(s)] + g[rest(s)]
    OBVIOUS
  <2> HIDE DEF h
  <2>4. ASSUME NEW s \in SUBSET D, Cardinality(s) <= k + 1, s # {}
        PROVE  h[s] = f[Pick(s)] + h[rest(s)]
    <3>1. rest(s) \in SUBSET D /\ Cardinality(rest(s)) <= k
      BY <1>0, <2>4
    <3>2. g[rest(s)] = h[rest(s)]
      BY <2>1, <2>3, <3>1, Zenon
    <3> QED BY <2>3, <2>4, <3>2
  <2>5. Up(h, k + 1)
    BY <2>3, <2>4
  <2>6. k + 1 \in 0..n
    BY <1>0
  <2> HIDE DEF Up
  <2> QED BY <2>2, <2>5, <2>6
<1>3. n \in S
  <2> HIDE DEF S
  <2>1. \A i \in 0..n : i \in S
    BY <1>0, <1>1, <1>2, UpTo
  <2> QED BY <1>0, <2>1
<1>4. PICK g \in [SUBSET D -> Nat] : Up(g, n)
  BY <1>3
<1>5. ASSUME NEW s \in SUBSET D
      PROVE  g[s] = IF s = {} THEN 0 ELSE f[Pick(s)] + g[rest(s)]
  BY <1>0, <1>4
<1>6. g = [s \in SUBSET D |-> IF s = {} THEN 0 ELSE f[Pick(s)] + g[rest(s)]]
  BY <1>5
<1>7. g = Adds(f, D, g)
  BY <1>6 DEF Adds, rest
<1> QED BY <1>7

(* Two such sums, one over more elements than the other, agree where both  *)
(* are defined.                                                            *)
LEMMA AddsOne ==
  ASSUME NEW D, IsFiniteSet(D), NEW E \in SUBSET D, NEW f, NEW g, NEW h,
         g = Adds(f, D, g), h = Adds(f, E, h)
  PROVE  \A s \in SUBSET E : g[s] = h[s]
<1> DEFINE n == Cardinality(E)
           rest(s) == s \ {Pick(s)}
           S == {k \in 0..n : \A s \in SUBSET E : Cardinality(s) <= k => g[s] = h[s]}
<1>0. /\ n \in Nat
      /\ \A s \in SUBSET E : s # {} => /\ rest(s) \in SUBSET E
                                       /\ Cardinality(rest(s)) = Cardinality(s) - 1
      /\ \A s \in SUBSET E : Cardinality(s) \in 0..n /\ (Cardinality(s) = 0 <=> s = {})
  <2>0. IsFiniteSet(E)
    BY FS_Subset
  <2>1. n \in Nat
    BY <2>0, FS_CardinalityType
  <2>2. ASSUME NEW s \in SUBSET E
        PROVE  /\ s # {} => /\ rest(s) \in SUBSET E
                            /\ Cardinality(rest(s)) = Cardinality(s) - 1
               /\ Cardinality(s) \in 0..n /\ (Cardinality(s) = 0 <=> s = {})
    BY <2>0, Smaller
  <2> QED BY <2>1, <2>2
<1>1. \A s \in SUBSET E : /\ g[s] = IF s = {} THEN 0 ELSE f[Pick(s)] + g[rest(s)]
                          /\ h[s] = IF s = {} THEN 0 ELSE f[Pick(s)] + h[rest(s)]
  <2>1. SUBSET E \subseteq SUBSET D
    OBVIOUS
  <2>2. ASSUME NEW s \in SUBSET D
        PROVE  g[s] = IF s = {} THEN 0 ELSE f[Pick(s)] + g[rest(s)]
    <3> DEFINE r(t) == IF t = {} THEN 0 ELSE f[Pick(t)] + g[rest(t)]
    <3>1. g = [t \in SUBSET D |-> r(t)]
      BY DEF Adds
    <3> HIDE DEF r
    <3>2. g[s] = r(s)
      BY <3>1
    <3> QED BY <3>2 DEF r
  <2>3. ASSUME NEW s \in SUBSET E
        PROVE  h[s] = IF s = {} THEN 0 ELSE f[Pick(s)] + h[rest(s)]
    <3> DEFINE r(t) == IF t = {} THEN 0 ELSE f[Pick(t)] + h[rest(t)]
    <3>1. h = [t \in SUBSET E |-> r(t)]
      BY DEF Adds
    <3> HIDE DEF r
    <3>2. h[s] = r(s)
      BY <3>1
    <3> QED BY <3>2 DEF r
  <2> QED BY <2>1, <2>2, <2>3, Zenon
<1> HIDE DEF n, rest
<1>2. 0 \in S
  <2>1. ASSUME NEW s \in SUBSET E, Cardinality(s) <= 0
        PROVE  g[s] = h[s]
    <3>1. s = {}
      BY <1>0, <2>1
    <3> QED BY <1>1, <3>1, Zenon
  <2> QED BY <1>0, <2>1
<1>3. ASSUME NEW k \in 0..(n - 1), k \in S
      PROVE  k + 1 \in S
  <2>1. ASSUME NEW s \in SUBSET E, Cardinality(s) <= k + 1
        PROVE  g[s] = h[s]
    <3>1. CASE s = {}
      BY <1>1, <3>1, Zenon
    <3>2. CASE s # {}
      <4>1. rest(s) \in SUBSET E /\ Cardinality(rest(s)) <= k
        BY <1>0, <2>1, <3>2
      <4>2. g[rest(s)] = h[rest(s)]
        BY <1>3, <4>1
      <4> QED BY <1>1, <3>2, <4>2
    <3> QED BY <3>1, <3>2
  <2> QED BY <1>0, <2>1
<1>4. \A i \in 0..n : i \in S
  <2> HIDE DEF S
  <2> QED BY <1>0, <1>2, <1>3, UpTo
<1>5. n \in S
  BY <1>0, <1>4
<1> QED
  BY <1>0, <1>5

(* A sum is a natural number, and is what its elements add up to in the    *)
(* order they are picked.                                                  *)
LEMMA SumPick ==
  ASSUME NEW D, IsFiniteSet(D), NEW f, \A x \in D : f[x] \in Nat
  PROVE  /\ SumFunctionOnSet(f, D) \in Nat
         /\ D = {} => SumFunctionOnSet(f, D) = 0
         /\ D # {} => SumFunctionOnSet(f, D) =
                        f[Pick(D)] + SumFunctionOnSet(f, D \ {Pick(D)})
<1> DEFINE sum(E) == CHOOSE g : g = Adds(f, E, g)
<1>1. \A E : SumFunctionOnSet(f, E) = sum(E)[E]
  BY DEF SumFunctionOnSet, FoldFunctionOnSet, MapThenFoldSet, Adds, Pick
<1>2. ASSUME NEW E \in SUBSET D
      PROVE  sum(E) = Adds(f, E, sum(E))
  <2>1. IsFiniteSet(E) /\ \A x \in E : f[x] \in Nat
    BY FS_Subset
  <2>2. \E g : g = Adds(f, E, g)
    BY <2>1, AddsUp
  <2> QED BY <2>2
<1> HIDE DEF sum
<1>3. \A s \in SUBSET D : sum(D)[s] =
         IF s = {} THEN 0 ELSE f[Pick(s)] + sum(D)[s \ {Pick(s)}]
  <2>1. sum(D) = Adds(f, D, sum(D))
    BY <1>2
  <2> DEFINE g == sum(D)
             r(t) == IF t = {} THEN 0 ELSE f[Pick(t)] + g[t \ {Pick(t)}]
  <2> HIDE DEF g
  <2>2. g = [t \in SUBSET D |-> r(t)]
    BY <2>1 DEF Adds, g
  <2> HIDE DEF r
  <2>3. ASSUME NEW s \in SUBSET D
        PROVE  g[s] = r(s)
    BY <2>2
  <2> QED BY <2>3 DEF g, r
<1>4. SumFunctionOnSet(f, D) \in Nat
  <2>1. PICK g \in [SUBSET D -> Nat] : g = Adds(f, D, g)
    BY AddsUp
  <2>2. \A s \in SUBSET D : g[s] = sum(D)[s]
    BY <1>2, <2>1, AddsOne
  <2>3. g[D] \in Nat
    BY <2>1
  <2> QED BY <1>1, <2>2, <2>3
<1>5. D = {} => SumFunctionOnSet(f, D) = 0
  BY <1>1, <1>3
<1>6. ASSUME D # {}
      PROVE  SumFunctionOnSet(f, D) =
               f[Pick(D)] + SumFunctionOnSet(f, D \ {Pick(D)})
  <2> DEFINE E == D \ {Pick(D)}
  <2>1. E \in SUBSET D
    OBVIOUS
  <2>2. sum(D)[D] = f[Pick(D)] + sum(D)[E]
    BY <1>3, <1>6
  <2>3. sum(D)[E] = sum(E)[E]
    <3> HIDE DEF E
    <3>1. sum(D) = Adds(f, D, sum(D)) /\ sum(E) = Adds(f, E, sum(E))
      BY <1>2, <2>1
    <3> DEFINE a == sum(D)
               b == sum(E)
    <3> HIDE DEF a, b
    <3>2. a = Adds(f, D, a) /\ b = Adds(f, E, b)
      BY <3>1 DEF a, b
    <3>3. \A s \in SUBSET E : a[s] = b[s]
      BY <2>1, <3>2, AddsOne
    <3> QED BY <3>3 DEF a, b
  <2> HIDE DEF E
  <2>4. SumFunctionOnSet(f, D) = f[Pick(D)] + SumFunctionOnSet(f, E)
    BY <1>1, <2>2, <2>3
  <2> QED BY <2>4 DEF E
<1> QED
  BY <1>4, <1>5, <1>6

(* Any element may be taken out first.                                     *)
LEMMA SumTake ==
  ASSUME NEW D, IsFiniteSet(D), NEW f, \A x \in D : f[x] \in Nat,
         NEW x \in D
  PROVE  SumFunctionOnSet(f, D) = f[x] + SumFunctionOnSet(f, D \ {x})
<1> DEFINE n == Cardinality(D)
           sum(s) == SumFunctionOnSet(f, s)
           S == {k \in 0..n : \A s \in SUBSET D : Cardinality(s) <= k =>
                                \A y \in s : sum(s) = f[y] + sum(s \ {y})}
<1>0. /\ n \in Nat
      /\ \A s \in SUBSET D : \A y \in s : /\ s \ {y} \in SUBSET D
                                          /\ Cardinality(s \ {y}) = Cardinality(s) - 1
      /\ \A s \in SUBSET D : Cardinality(s) \in 0..n /\ (Cardinality(s) = 0 <=> s = {})
  <2>1. n \in Nat
    BY FS_CardinalityType
  <2>2. ASSUME NEW s \in SUBSET D
        PROVE  /\ \A y \in s : /\ s \ {y} \in SUBSET D
                               /\ Cardinality(s \ {y}) = Cardinality(s) - 1
               /\ Cardinality(s) \in 0..n /\ (Cardinality(s) = 0 <=> s = {})
    BY Smaller
  <2> QED BY <2>1, <2>2
<1>1. ASSUME NEW s \in SUBSET D
      PROVE  sum(s) \in Nat /\ (s # {} => Pick(s) \in s /\ sum(s) = f[Pick(s)] + sum(s \ {Pick(s)}))
  <2>1. IsFiniteSet(s) /\ \A y \in s : f[y] \in Nat
    BY FS_Subset
  <2> QED BY <2>1, SumPick DEF Pick
<1> HIDE DEF n, sum
<1>2. 0 \in S
  BY <1>0
<1>3. ASSUME NEW k \in 0..(n - 1), k \in S
      PROVE  k + 1 \in S
  <2>1. ASSUME NEW s \in SUBSET D, Cardinality(s) <= k + 1, NEW y \in s
        PROVE  sum(s) = f[y] + sum(s \ {y})
    <3> DEFINE z == Pick(s)
               sy == s \ {y}
               sz == s \ {z}
               both == sy \ {z}
    <3>1. z \in s /\ sum(s) = f[z] + sum(sz)
      BY <1>1
    <3> HIDE DEF z
    <3>2. CASE z = y
      BY <3>1, <3>2
    <3>3. CASE z # y
      <4>1. y \in sz /\ z \in sy /\ sz \ {y} = both
        BY <2>1, <3>1, <3>3
      <4>2. /\ sy \in SUBSET D /\ Cardinality(sy) <= k
            /\ sz \in SUBSET D /\ Cardinality(sz) <= k
        BY <1>0, <2>1, <3>1
      <4>3. both \in SUBSET D
        BY <4>2
      <4> HIDE DEF sy, sz, both
      <4>4. sum(sz) = f[y] + sum(both)
        BY <1>3, <4>1, <4>2
      <4>5. sum(sy) = f[z] + sum(both)
        <5>1. sum(sy) = f[z] + sum(sy \ {z})
          BY <1>3, <4>1, <4>2
        <5> QED BY <5>1 DEF both
      <4>6. f[y] \in Nat /\ f[z] \in Nat /\ sum(both) \in Nat
        BY <1>1, <2>1, <3>1, <4>3
      <4>7. sum(s) = f[y] + sum(sy)
        BY <3>1, <4>4, <4>5, <4>6
      <4> QED BY <4>7 DEF sy
    <3> QED BY <3>2, <3>3
  <2> QED BY <1>0, <2>1
<1>4. \A i \in 0..n : i \in S
  <2> HIDE DEF S
  <2> QED BY <1>0, <1>2, <1>3, UpTo
<1>5. \A y \in D : sum(D) = f[y] + sum(D \ {y})
  <2>1. n \in S /\ D \in SUBSET D /\ Cardinality(D) <= n
    BY <1>0, <1>4 DEF n
  <2> QED BY <2>1
<1> QED
  BY <1>5 DEF sum

(* A sum over fewer elements, none of them larger, is not larger.          *)
LEMMA SumLess ==
  ASSUME NEW D, IsFiniteSet(D), NEW f, \A x \in D : f[x] \in Nat,
         NEW E \in SUBSET D, NEW g, \A x \in E : g[x] \in Nat /\ g[x] <= f[x]
  PROVE  SumFunctionOnSet(g, E) <= SumFunctionOnSet(f, D)
<1> DEFINE n == Cardinality(D)
           sum(s) == SumFunctionOnSet(f, s)
           part(s) == SumFunctionOnSet(g, s \cap E)
           S == {k \in 0..n : \A s \in SUBSET D : Cardinality(s) <= k => part(s) <= sum(s)}
<1>0. /\ n \in Nat
      /\ \A s \in SUBSET D : \A y \in s : /\ s \ {y} \in SUBSET D
                                          /\ Cardinality(s \ {y}) = Cardinality(s) - 1
      /\ \A s \in SUBSET D : Cardinality(s) \in 0..n /\ (Cardinality(s) = 0 <=> s = {})
  <2>1. n \in Nat
    BY FS_CardinalityType
  <2>2. ASSUME NEW s \in SUBSET D
        PROVE  /\ \A y \in s : /\ s \ {y} \in SUBSET D
                               /\ Cardinality(s \ {y}) = Cardinality(s) - 1
               /\ Cardinality(s) \in 0..n /\ (Cardinality(s) = 0 <=> s = {})
    BY Smaller
  <2> QED BY <2>1, <2>2
<1>1. ASSUME NEW s \in SUBSET D
      PROVE  /\ sum(s) \in Nat /\ part(s) \in Nat
             /\ s = {} => sum(s) = 0 /\ part(s) = 0
             /\ \A y \in s : /\ sum(s) = f[y] + sum(s \ {y})
                             /\ y \in E => part(s) = g[y] + part(s \ {y})
                             /\ y \notin E => part(s) = part(s \ {y})
  <2>1. IsFiniteSet(s) /\ \A y \in s : f[y] \in Nat
    BY FS_Subset
  <2>2. s \cap E \in SUBSET D /\ \A y \in s \cap E : g[y] \in Nat
    OBVIOUS
  <2>3. IsFiniteSet(s \cap E)
    BY <2>2, FS_Subset
  <2>4. sum(s) \in Nat /\ part(s) \in Nat
    BY <2>1, <2>2, <2>3, SumPick
  <2>5. s = {} => s \cap E = {}
    OBVIOUS
  <2>6. s = {} => sum(s) = 0 /\ part(s) = 0
    BY <2>1, <2>2, <2>3, <2>5, SumPick
  <2>7. ASSUME NEW y \in s
        PROVE  /\ sum(s) = f[y] + sum(s \ {y})
               /\ y \in E => part(s) = g[y] + part(s \ {y})
               /\ y \notin E => part(s) = part(s \ {y})
    <3>1. sum(s) = f[y] + sum(s \ {y})
      BY <2>1, SumTake
    <3>2. (s \ {y}) \cap E = (s \cap E) \ {y}
      OBVIOUS
    <3>3. y \in E => y \in s \cap E
      OBVIOUS
    <3>4. y \in E => part(s) = g[y] + SumFunctionOnSet(g, (s \cap E) \ {y})
      BY <2>2, <2>3, <3>3, SumTake
    <3>5. y \notin E => (s \ {y}) \cap E = s \cap E
      OBVIOUS
    <3>6. y \in E => part(s) = g[y] + part(s \ {y})
      BY <3>2, <3>4, Zenon
    <3>7. y \notin E => part(s) = part(s \ {y})
      BY <3>5, Zenon
    <3> QED BY <3>1, <3>6, <3>7, Zenon
  <2> QED BY <2>4, <2>6, <2>7, Zenon
<1> HIDE DEF n, sum, part
<1>2. 0 \in S
  <2>1. ASSUME NEW s \in SUBSET D, Cardinality(s) <= 0
        PROVE  part(s) <= sum(s)
    <3>1. s = {}
      BY <1>0, <2>1
    <3>2. sum(s) = 0 /\ part(s) = 0
      BY <1>1, <3>1, Zenon
    <3> QED BY <3>2
  <2> QED BY <1>0, <2>1
<1>3. ASSUME NEW k \in 0..(n - 1), k \in S
      PROVE  k + 1 \in S
  <2>1. ASSUME NEW s \in SUBSET D, Cardinality(s) <= k + 1, s # {}
        PROVE  part(s) <= sum(s)
    <3>1. PICK y \in s : TRUE
      BY <2>1
    <3> DEFINE r == s \ {y}
    <3>2. r \in SUBSET D /\ Cardinality(r) <= k
      BY <1>0, <2>1
    <3>3. /\ sum(s) = f[y] + sum(r)
          /\ y \in E => part(s) = g[y] + part(r)
          /\ y \notin E => part(s) = part(r)
      BY <1>1
    <3> HIDE DEF r
    <3>4. part(r) <= sum(r)
      BY <1>3, <3>2
    <3>5. part(r) \in Nat /\ sum(r) \in Nat /\ f[y] \in Nat
      BY <1>1, <2>1, <3>2
    <3>6. y \in E => g[y] \in Nat /\ g[y] <= f[y]
      OBVIOUS
    <3> QED BY <3>3, <3>4, <3>5, <3>6
  <2>2. ASSUME NEW s \in SUBSET D, s = {}
        PROVE  part(s) <= sum(s)
    <3>1. sum(s) = 0 /\ part(s) = 0
      BY <1>1, <2>2, Zenon
    <3> QED BY <3>1
  <2> QED BY <1>0, <2>1, <2>2
<1>4. \A i \in 0..n : i \in S
  <2> HIDE DEF S
  <2> QED BY <1>0, <1>2, <1>3, UpTo
<1>5. part(D) <= sum(D)
  <2>1. n \in S /\ D \in SUBSET D /\ Cardinality(D) <= n
    BY <1>0, <1>4 DEF n
  <2> QED BY <2>1
<1>6. D \cap E = E
  OBVIOUS
<1> QED
  BY <1>5, <1>6 DEF sum, part

(* A sum does not grow where what a and b have now is no more than what    *)
(* they had before, and nobody else has more.                              *)
LEMMA Shares ==
  ASSUME NEW D, IsFiniteSet(D), NEW f, \A x \in D : f[x] \in Nat,
         NEW E, IsFiniteSet(E), NEW g, \A x \in E : g[x] \in Nat,
         NEW a, NEW b, a \in D,
         E \ {a, b} \subseteq D \ {a, b},
         \A x \in E \ {a, b} : g[x] <= f[x],
         NEW u \in Nat, NEW v \in Nat,
         a \in E => g[a] <= u,
         b \in E => g[b] <= v,
         a # b,
         u + v <= f[a] + (IF b \in D THEN f[b] ELSE 0)
  PROVE  SumFunctionOnSet(g, E) <= SumFunctionOnSet(f, D)
<1> DEFINE E0 == E \ {a, b}
           D0 == D \ {a, b}
           Ea == E \ {a}
           Da == D \ {a}
<1>1. Ea \ {b} = E0 /\ Da \ {b} = D0
  OBVIOUS
<1>2. /\ IsFiniteSet(E0) /\ IsFiniteSet(D0) /\ IsFiniteSet(Ea) /\ IsFiniteSet(Da)
  <2>1. E0 \in SUBSET E /\ Ea \in SUBSET E /\ D0 \in SUBSET D /\ Da \in SUBSET D
    OBVIOUS
  <2> QED BY <2>1, FS_Subset
<1>3. /\ \A x \in E0 : g[x] \in Nat
      /\ \A x \in Ea : g[x] \in Nat
      /\ \A x \in D0 : f[x] \in Nat
      /\ \A x \in Da : f[x] \in Nat
  OBVIOUS
<1>4. b \in E => b \in Ea
  OBVIOUS
<1>5. b \in D => b \in Da
  OBVIOUS
<1>6. E0 \in SUBSET D0 /\ \A x \in E0 : g[x] \in Nat /\ g[x] <= f[x]
  OBVIOUS
<1>7. a \notin E => Ea = E
  OBVIOUS
<1>8. b \notin E => Ea \ {b} = Ea
  OBVIOUS
<1>9. b \notin D => Da \ {b} = Da
  OBVIOUS
<1> HIDE DEF E0, D0, Ea, Da
<1>10. SumFunctionOnSet(g, E0) <= SumFunctionOnSet(f, D0)
  BY <1>2, <1>3, <1>6, SumLess
<1>11. SumFunctionOnSet(f, D) = f[a] + SumFunctionOnSet(f, Da)
  BY SumTake DEF Da
<1>12. b \in D => SumFunctionOnSet(f, Da) = f[b] + SumFunctionOnSet(f, D0)
  BY <1>1, <1>2, <1>3, <1>5, SumTake
<1>13. b \notin D => SumFunctionOnSet(f, Da) = SumFunctionOnSet(f, D0)
  BY <1>1, <1>9
<1>14. a \in E => SumFunctionOnSet(g, E) = g[a] + SumFunctionOnSet(g, Ea)
  BY SumTake DEF Ea
<1>15. a \notin E => SumFunctionOnSet(g, E) = SumFunctionOnSet(g, Ea)
  BY <1>7
<1>16. b \in E => SumFunctionOnSet(g, Ea) = g[b] + SumFunctionOnSet(g, E0)
  BY <1>1, <1>2, <1>3, <1>4, SumTake
<1>17. b \notin E => SumFunctionOnSet(g, Ea) = SumFunctionOnSet(g, E0)
  BY <1>1, <1>8
<1>18. /\ SumFunctionOnSet(g, E0) \in Nat /\ SumFunctionOnSet(f, D0) \in Nat
       /\ SumFunctionOnSet(g, Ea) \in Nat /\ SumFunctionOnSet(f, Da) \in Nat
  BY <1>2, <1>3, SumPick
<1>19. /\ f[a] \in Nat /\ (b \in D => f[b] \in Nat)
       /\ (a \in E => g[a] \in Nat) /\ (b \in E => g[b] \in Nat)
  OBVIOUS
<1> DEFINE e0 == SumFunctionOnSet(g, E0)
           ea == SumFunctionOnSet(g, Ea)
           d0 == SumFunctionOnSet(f, D0)
           da == SumFunctionOnSet(f, Da)
<1>20. ea <= v + e0
  <2> HIDE DEF e0, ea
  <2>1. ea \in Nat /\ e0 \in Nat
    BY <1>18 DEF ea, e0
  <2>2. (b \in E => ea = g[b] + e0) /\ (b \notin E => ea = e0)
    BY <1>16, <1>17 DEF ea, e0
  <2> QED BY <1>19, <2>1, <2>2
<1>21. SumFunctionOnSet(g, E) <= u + ea
  <2> HIDE DEF ea
  <2>1. ea \in Nat
    BY <1>18 DEF ea
  <2>2. /\ a \in E => SumFunctionOnSet(g, E) = g[a] + ea
        /\ a \notin E => SumFunctionOnSet(g, E) = ea
    BY <1>14, <1>15 DEF ea
  <2> QED BY <1>19, <2>1, <2>2
<1>22. f[a] + da >= u + v + d0
  <2> HIDE DEF da, d0
  <2>1. da \in Nat /\ d0 \in Nat
    BY <1>18 DEF da, d0
  <2>2. (b \in D => da = f[b] + d0) /\ (b \notin D => da = d0)
    BY <1>12, <1>13 DEF da, d0
  <2> QED BY <1>19, <2>1, <2>2
<1> DEFINE e == SumFunctionOnSet(g, E)
           d == SumFunctionOnSet(f, D)
<1>23. e \in Nat /\ d \in Nat
  BY SumPick
<1>24. d = f[a] + da
  BY <1>11
<1>25. /\ e0 \in Nat /\ d0 \in Nat /\ ea \in Nat /\ da \in Nat /\ e0 <= d0
  BY <1>10, <1>18
<1> HIDE DEF e, d, e0, d0, ea, da
<1> QED
  BY <1>19, <1>20, <1>21, <1>22, <1>23, <1>24, <1>25 DEF e, d
=============================================================================
