------------------------------- MODULE Lists -------------------------------
(***************************************************************************)
(* Lemmas about the lists of the kernel (lib/list.cc), modelled as         *)
(* sequences: what appending at the end, removing the head, joining two    *)
(* lists, and putting an element into the middle or taking it out do to    *)
(* the set of their elements and to their being free of duplicates.  And   *)
(* about the least and the greatest number of a set: the first free bit    *)
(* that FindAndSet of lib/bitmap.cc takes, the first free pid, the end of  *)
(* a file after several writes.                                            *)
(***************************************************************************)
EXTENDS Integers, SequencesExt, SequenceTheorems, FiniteSetTheorems, FunctionTheorems,
        WellFoundedInduction, TLAPS

(* The length, the domain and the elements of a list; only the empty list  *)
(* has none.                                                               *)
LEMMA SeqFacts ==
  ASSUME NEW S, NEW s \in Seq(S)
  PROVE  /\ Len(s) \in Nat /\ DOMAIN s = 1 .. Len(s)
         /\ ToSet(s) \subseteq S
         /\ s = <<>> <=> Len(s) = 0
         /\ s = <<>> <=> ToSet(s) = {}
<1>1. Len(s) \in Nat /\ DOMAIN s = 1 .. Len(s) /\ \A i \in 1 .. Len(s) : s[i] \in S
  OBVIOUS
<1>2. s = <<>> <=> Len(s) = 0
  BY <1>1, EmptySeq
<1>3. Len(s) # 0 => s[1] \in ToSet(s)
  BY <1>1 DEF ToSet
<1>4. Len(s) = 0 => ToSet(s) = {}
  BY <1>1 DEF ToSet
<1> QED
  BY <1>1, <1>2, <1>3, <1>4 DEF ToSet

(* Append adds one element, and no duplicate unless it was there already.  *)
LEMMA AppendSet ==
  ASSUME NEW S, NEW s \in Seq(S), NEW e \in S
  PROVE  /\ Append(s, e) \in Seq(S) /\ Append(s, e) # <<>>
         /\ ToSet(Append(s, e)) = ToSet(s) \cup {e}
         /\ IsInjective(s) /\ e \notin ToSet(s) => IsInjective(Append(s, e))
<1> DEFINE n == Len(s)
           a == Append(s, e)
<1>1. a \in Seq(S) /\ DOMAIN a = 1 .. n + 1 /\ n \in Nat /\ DOMAIN s = 1 .. n
      /\ a[n + 1] = e /\ \A i \in 1 .. n : a[i] = s[i]
  BY AppendProperties, LenProperties
<1> HIDE DEF a, n
<1>2. ToSet(a) = ToSet(s) \cup {e}
  <2>1. ASSUME NEW x \in ToSet(a) PROVE x \in ToSet(s) \cup {e}
    BY <1>1, <2>1 DEF ToSet
  <2>2. ASSUME NEW x \in ToSet(s) PROVE x \in ToSet(a)
    BY <1>1, <2>2 DEF ToSet
  <2>3. e \in ToSet(a)
    BY <1>1 DEF ToSet
  <2> QED
    BY <2>1, <2>2, <2>3
<1>3. IsInjective(s) /\ e \notin ToSet(s) => IsInjective(a)
  BY <1>1 DEF ToSet, IsInjective
<1> QED
  BY <1>1, <1>2, <1>3, AppendProperties DEF a

(* A list is its head and its tail; without duplicates, the head is not in *)
(* the tail.                                                               *)
LEMMA TailSet ==
  ASSUME NEW S, NEW s \in Seq(S), s # <<>>
  PROVE  /\ Head(s) \in ToSet(s) /\ Head(s) \in S /\ Tail(s) \in Seq(S)
         /\ ToSet(s) = ToSet(Tail(s)) \cup {Head(s)}
         /\ IsInjective(s) => IsInjective(Tail(s)) /\ Head(s) \notin ToSet(Tail(s))
<1> DEFINE n == Len(s)
           t == Tail(s)
<1>1. n \in Nat \ {0} /\ DOMAIN s = 1 .. n /\ \A i \in 1 .. n : s[i] \in S
  BY EmptySeq, LenProperties
<1>2. t \in Seq(S) /\ DOMAIN t = 1 .. n - 1 /\ \A i \in 1 .. n - 1 : t[i] = s[i + 1]
  BY HeadTailProperties, LenProperties
<1>3. Head(s) = s[1]
  BY <1>1
<1> HIDE DEF t, n
<1>4. Head(s) \in ToSet(s)
  BY <1>1, <1>3 DEF ToSet
<1>5. ToSet(s) = ToSet(t) \cup {s[1]}
  <2>1. ASSUME NEW x \in ToSet(s) PROVE x \in ToSet(t) \cup {s[1]}
    <3>1. PICK i \in 1 .. n : x = s[i]
      BY <1>1 DEF ToSet
    <3>2. CASE i # 1
      <4>1. i - 1 \in 1 .. n - 1 /\ t[i - 1] = s[i]
        BY <1>1, <1>2, <3>2
      <4> QED
        BY <1>2, <3>1, <4>1 DEF ToSet
    <3> QED
      BY <3>1, <3>2
  <2>2. ASSUME NEW x \in ToSet(t) PROVE x \in ToSet(s)
    BY <1>1, <1>2, <2>2 DEF ToSet
  <2> QED
    BY <1>3, <1>4, <2>1, <2>2
<1>6. ASSUME IsInjective(s) PROVE IsInjective(t) /\ s[1] \notin ToSet(t)
  <2>1. \A i, j \in 1 .. n : s[i] = s[j] => i = j
    BY <1>1, <1>6 DEF IsInjective
  <2>2. \A i \in 1 .. n - 1 : i + 1 \in 1 .. n /\ i + 1 # 1
    BY <1>1
  <2>3. 1 \in 1 .. n
    BY <1>1
  <2>4. s[1] \notin ToSet(t)
    BY <1>2, <2>1, <2>2, <2>3 DEF ToSet
  <2>5. \A i, j \in 1 .. n - 1 : t[i] = t[j] => i = j
    BY <1>2, <2>1, <2>2
  <2> QED
    BY <1>2, <2>4, <2>5 DEF IsInjective
<1> QED
  BY <1>1, <1>2, <1>3, <1>4, <1>5, <1>6 DEF t

(* Two lists one after the other hold the elements of both.                *)
LEMMA ConcatSet ==
  ASSUME NEW S, NEW s \in Seq(S), NEW t \in Seq(S)
  PROVE  s \o t \in Seq(S) /\ ToSet(s \o t) = ToSet(s) \cup ToSet(t)
<1> DEFINE n == Len(s)
           m == Len(t)
           c == s \o t
<1>1. /\ n \in Nat /\ m \in Nat /\ DOMAIN s = 1 .. n /\ DOMAIN t = 1 .. m
      /\ c \in Seq(S) /\ DOMAIN c = 1 .. n + m
      /\ \A i \in 1 .. n + m : c[i] = IF i <= n THEN s[i] ELSE t[i - n]
  BY ConcatProperties, LenProperties
<1> HIDE DEF n, m, c
<1>2. \A i \in 1 .. n : i \in 1 .. n + m /\ c[i] = s[i]
  BY <1>1
<1>3. \A i \in 1 .. m : n + i \in 1 .. n + m /\ c[n + i] = t[i]
  BY <1>1
<1>4. \A i \in 1 .. n + m : i \in 1 .. n \/ i - n \in 1 .. m
  BY <1>1
<1>5. ASSUME NEW x \in ToSet(c) PROVE x \in ToSet(s) \cup ToSet(t)
  <2>1. PICK i \in 1 .. n + m : x = c[i]
    BY <1>1, <1>5 DEF ToSet
  <2>2. (x = s[i] /\ i \in 1 .. n) \/ (x = t[i - n] /\ i - n \in 1 .. m)
    BY <1>1, <1>4, <2>1
  <2> QED
    BY <1>1, <2>2 DEF ToSet
<1>6. ASSUME NEW x \in ToSet(s) PROVE x \in ToSet(c)
  <2>1. PICK i \in 1 .. n : x = s[i]
    BY <1>1, <1>6 DEF ToSet
  <2> QED
    BY <1>1, <1>2, <2>1 DEF ToSet
<1>7. ASSUME NEW x \in ToSet(t) PROVE x \in ToSet(c)
  <2>1. PICK i \in 1 .. m : x = t[i]
    BY <1>1, <1>7 DEF ToSet
  <2> QED
    BY <1>1, <1>3, <2>1 DEF ToSet
<1> QED
  BY <1>1, <1>5, <1>6, <1>7 DEF c

(* A list has no duplicates exactly when it is as long as its set is big.  *)
LEMMA InjectiveLength ==
  ASSUME NEW S, NEW s \in Seq(S)
  PROVE  /\ IsFiniteSet(ToSet(s)) /\ Cardinality(ToSet(s)) <= Len(s)
         /\ Cardinality(ToSet(s)) = Len(s) <=> IsInjective(s)
<1> DEFINE n == Len(s)
<1>1. n \in Nat /\ s \in [1 .. n -> S] /\ DOMAIN s = 1 .. n
  BY LenProperties
<1>2. IsFiniteSet(1 .. n) /\ Cardinality(1 .. n) = n
  BY <1>1, FS_Interval
<1>3. s \in [1 .. n -> ToSet(s)] /\ \A x \in ToSet(s) : \E i \in 1 .. n : s[i] = x
  BY <1>1 DEF ToSet
<1>4. s \in Surjection(1 .. n, ToSet(s))
  BY <1>3, Fun_IsSurj
<1>5. /\ IsFiniteSet(ToSet(s)) /\ Cardinality(ToSet(s)) <= n
      /\ Cardinality(ToSet(s)) = n <=> s \in Injection(1 .. n, ToSet(s))
  BY <1>2, <1>4, FS_Surjection
<1>6. s \in Injection(1 .. n, ToSet(s)) <=> IsInjective(s)
  BY <1>3 DEF Injection
<1> QED
  BY <1>5, <1>6

(* The empty list has no elements, hence no duplicates.                    *)
LEMMA NoElements ==
  ToSet(<<>>) = {} /\ IsInjective(<<>>)
  BY DEF ToSet, IsInjective
(* Joining lists: appending to the second appends to the whole, ...        *)
LEMMA ConcatAppend ==
  ASSUME NEW S, NEW s \in Seq(S), NEW t \in Seq(S), NEW e \in S
  PROVE  s \o Append(t, e) = Append(s \o t, e) /\ s \o Append(t, e) \in Seq(S)
<1>1. Append(t, e) = t \o <<e>> /\ s \o t \in Seq(S) /\ <<e>> \in Seq(S)
  BY AppendIsConcat, ConcatProperties
<1>2. s \o (t \o <<e>>) = (s \o t) \o <<e>>
  BY <1>1, ConcatAssociative
<1>3. Append(s \o t, e) = (s \o t) \o <<e>>
  BY <1>1, AppendIsConcat
<1>4. Append(s \o t, e) \in Seq(S)
  BY <1>1, AppendProperties
<1> QED
  BY <1>1, <1>2, <1>3, <1>4

(* ... and taking the head of the first takes the head of the whole.       *)
LEMMA ConcatTail ==
  ASSUME NEW S, NEW s \in Seq(S), NEW t \in Seq(S), s # <<>>
  PROVE  s \o t # <<>> /\ Head(s \o t) = Head(s) /\ Tail(s \o t) = Tail(s) \o t
<1> DEFINE c == s \o t
           n == Len(s)
           m == Len(t)
<1>1. /\ n \in Nat \ {0} /\ m \in Nat /\ c \in Seq(S) /\ Len(c) = n + m
      /\ \A i \in 1 .. n + m : c[i] = IF i <= n THEN s[i] ELSE t[i - n]
  BY ConcatProperties, LenProperties, EmptySeq
<1>2. c # <<>>
  BY <1>1
<1>3. /\ Tail(s) \in Seq(S) /\ Len(Tail(s)) = n - 1
      /\ \A i \in 1 .. n - 1 : Tail(s)[i] = s[i + 1]
  BY HeadTailProperties
<1>4. /\ Tail(c) \in Seq(S) /\ Len(Tail(c)) = n + m - 1
      /\ \A i \in 1 .. n + m - 1 : Tail(c)[i] = c[i + 1]
  BY <1>1, <1>2, HeadTailProperties
<1>5. /\ Tail(s) \o t \in Seq(S) /\ Len(Tail(s) \o t) = n - 1 + m
      /\ \A i \in 1 .. n - 1 + m :
           (Tail(s) \o t)[i] = IF i <= n - 1 THEN Tail(s)[i] ELSE t[i - (n - 1)]
  BY <1>3, ConcatProperties
<1>6. c[1] = s[1]
  BY <1>1
<1>7. Head(c) = c[1] /\ Head(s) = s[1]
  OBVIOUS
<1> DEFINE d == Tail(s) \o t
           e == Tail(c)
<1> HIDE DEF c, n, m, d, e
<1>8. ASSUME NEW i \in 1 .. n + m - 1 PROVE e[i] = d[i]
  <2>1. i + 1 \in 1 .. n + m /\ i \in 1 .. n - 1 + m /\ i \in Nat
    BY <1>1
  <2>2. e[i] = IF i + 1 <= n THEN s[i + 1] ELSE t[i + 1 - n]
    BY <1>1, <1>4, <2>1 DEF e
  <2>3. d[i] = IF i <= n - 1 THEN Tail(s)[i] ELSE t[i - (n - 1)]
    BY <1>5, <2>1 DEF d, n, m
  <2>4. CASE i <= n - 1
    BY <1>1, <1>3, <2>1, <2>2, <2>3, <2>4
  <2>5. CASE ~(i <= n - 1)
    <3>1. i + 1 - n = i - (n - 1) /\ ~(i + 1 <= n)
      BY <1>1, <2>1, <2>5
    <3> QED
      BY <2>2, <2>3, <2>5, <3>1
  <2> QED
    BY <2>4, <2>5
<1>9. /\ e \in Seq(S) /\ d \in Seq(S) /\ Len(e) = n + m - 1 /\ Len(e) = Len(d)
      /\ \A i \in 1 .. Len(e) : e[i] = d[i]
  BY <1>1, <1>4, <1>5, <1>8 DEF d, e, n, m
<1>10. e = d
  BY <1>9, SeqEqual
<1> QED
  BY <1>2, <1>6, <1>7, <1>10 DEF c, d, e

(* A list of one.                                                          *)
LEMMA OneElement ==
  ASSUME NEW S, NEW e \in S
  PROVE  /\ <<e>> \in Seq(S) /\ Len(<<e>>) = 1 /\ <<e>> # <<>>
         /\ Head(<<e>>) = e /\ Tail(<<e>>) = <<>>
  OBVIOUS

-----------------------------------------------------------------------------
(* A set of natural numbers that is not empty has a least one, ...         *)
LEMMA MinIsElement ==
  ASSUME NEW S, S \subseteq Nat, S # {}
  PROVE  Min(S) \in S /\ \A y \in S : Min(S) <= y
<1>1. PICK x \in S : \A y \in S : <<y, x>> \notin OpToRel(<, Nat)
  BY NatLessThanWellFounded, WFMin
<1>2. \A y \in S : ~ (y < x)
  BY <1>1 DEF OpToRel
<1>3. \A y \in S : x =< y
  BY <1>2
<1> QED
  BY <1>3 DEF Min

(* ... and, if it is bounded, a greatest.                                  *)
LEMMA MaxIsElement ==
  ASSUME NEW S, NEW n \in Nat, S \subseteq 0 .. n, S # {}
  PROVE  Max(S) \in S /\ \A y \in S : y <= Max(S)
<1> DEFINE T == {n - x : x \in S}
<1>1. T \subseteq Nat /\ T # {}
  <2>1. \A x \in S : n - x \in Nat
    OBVIOUS
  <2> QED
    BY <2>1
<1>2. Min(T) \in T /\ \A y \in T : Min(T) <= y
  BY <1>1, MinIsElement
<1>3. PICK x \in S : Min(T) = n - x
  BY <1>2
<1>4. \A y \in S : y <= x
  <2> SUFFICES ASSUME NEW y \in S PROVE y <= x
    OBVIOUS
  <2>1. n - y \in T
    OBVIOUS
  <2>2. n - x <= n - y
    BY <1>2, <1>3, <2>1
  <2>3. x \in 0 .. n /\ y \in 0 .. n
    OBVIOUS
  <2> QED
    BY <2>2, <2>3
<1>5. x >= x /\ \A y \in S : x >= y
  BY <1>4
<1>6. \E z \in S : \A y \in S : z >= y
  BY <1>5
<1>7. Max(S) \in S /\ \A y \in S : Max(S) >= y
  BY <1>6 DEF Max
<1> QED
  BY <1>7

-----------------------------------------------------------------------------
(* List c is list s, of n elements, and behind it list t, of m elements.   *)
Joined(c, s, t, n, m) ==
  /\ Len(c) = n + m
  /\ \A i \in 1 .. n : c[i] = s[i]
  /\ \A i \in 1 .. n + m : i > n => c[i] = t[i - n]

LEMMA ConcatElements ==
  ASSUME NEW S, NEW s \in Seq(S), NEW t \in Seq(S)
  PROVE  s \o t \in Seq(S) /\ Joined(s \o t, s, t, Len(s), Len(t))
<1> DEFINE c == s \o t
           n == Len(s)
           m == Len(t)
<1>1. /\ c \in Seq(S) /\ Len(c) = n + m
      /\ \A i \in 1 .. n + m : c[i] = IF i <= n THEN s[i] ELSE t[i - n]
  BY ConcatProperties
<1>2. n \in Nat /\ m \in Nat
  BY LenProperties
<1> HIDE DEF c, n, m
<1>3. \A i \in 1 .. n : i \in 1 .. n + m /\ i <= n
  BY <1>2
<1>4. \A i \in 1 .. n + m : i > n => ~ (i <= n)
  BY <1>2
<1>5. Joined(c, s, t, n, m)
  BY <1>1, <1>3, <1>4 DEF Joined
<1> QED
  BY <1>1, <1>5 DEF c, n, m

(* They have no duplicates when neither has any and they share nothing.    *)
LEMMA ConcatInjective ==
  ASSUME NEW S, NEW s \in Seq(S), NEW t \in Seq(S), IsInjective(s), IsInjective(t),
         ToSet(s) \cap ToSet(t) = {}
  PROVE  IsInjective(s \o t)
<1> DEFINE c == s \o t
           n == Len(s)
           m == Len(t)
<1>1. c \in Seq(S) /\ Joined(c, s, t, n, m)
  BY ConcatElements
<1>2. n \in Nat /\ m \in Nat /\ DOMAIN s = 1 .. n /\ DOMAIN t = 1 .. m
  BY LenProperties
<1>3. DOMAIN c = 1 .. n + m
  BY <1>1, LenProperties DEF Joined
<1> HIDE DEF c, n, m
<1>4. \A i \in 1 .. n + m : \/ i \in 1 .. n /\ c[i] = s[i]
                            \/ i > n /\ i - n \in 1 .. m /\ c[i] = t[i - n]
  <2> SUFFICES ASSUME NEW i \in 1 .. n + m
               PROVE  \/ i \in 1 .. n /\ c[i] = s[i]
                      \/ i > n /\ i - n \in 1 .. m /\ c[i] = t[i - n]
    OBVIOUS
  <2>1. CASE i <= n
    BY <1>1, <1>2, <2>1 DEF Joined
  <2>2. CASE i > n
    BY <1>1, <1>2, <2>2 DEF Joined
  <2> QED
    BY <1>2, <2>1, <2>2
<1>5. \A i \in 1 .. n, j \in 1 .. m : s[i] # t[j]
  BY <1>2 DEF ToSet
<1>6. ASSUME NEW i \in 1 .. n + m, NEW j \in 1 .. n + m, c[i] = c[j]
      PROVE  i = j
  <2>1. CASE i \in 1 .. n /\ j \in 1 .. n /\ c[i] = s[i] /\ c[j] = s[j]
    BY <1>2, <1>6, <2>1 DEF IsInjective
  <2>2. CASE /\ i - n \in 1 .. m /\ j - n \in 1 .. m
             /\ c[i] = t[i - n] /\ c[j] = t[j - n]
    <3>1. i - n = j - n
      BY <1>2, <1>6, <2>2 DEF IsInjective
    <3> QED
      BY <1>2, <3>1
  <2> QED
    BY <1>4, <1>5, <1>6, <2>1, <2>2
<1> QED
  BY <1>3, <1>6 DEF IsInjective, c

(* An element put in at position i: what was before it stays, what was     *)
(* behind moves up.                                                        *)
LEMMA InsertAtFacts ==
  ASSUME NEW S, NEW s \in Seq(S), NEW i \in 1 .. Len(s) + 1, NEW e \in S
  PROVE  /\ InsertAt(s, i, e) \in Seq(S) /\ Len(InsertAt(s, i, e)) = Len(s) + 1
         /\ \A j \in 1 .. Len(s) + 1 :
              InsertAt(s, i, e)[j] = IF j < i THEN s[j] ELSE IF j = i THEN e ELSE s[j - 1]
         /\ ToSet(InsertAt(s, i, e)) = ToSet(s) \cup {e}
         /\ IsInjective(s) /\ e \notin ToSet(s) => IsInjective(InsertAt(s, i, e))
<1> DEFINE n == Len(s)
           front == SubSeq(s, 1, i - 1)
           back == SubSeq(s, i, n)
           t == InsertAt(s, i, e)
<1>1. n \in Nat /\ DOMAIN s = 1 .. n /\ i \in Nat \ {0} /\ i <= n + 1
  BY LenProperties
<1>2. /\ front \in Seq(S) /\ Len(front) = i - 1
      /\ \A j \in 1 .. i - 1 : front[j] = s[j]
  BY <1>1, SubSeqProperties
<1>3. /\ back \in Seq(S) /\ Len(back) = n - i + 1
      /\ \A j \in 1 .. n - i + 1 : back[j] = s[i + j - 1]
  BY <1>1, SubSeqProperties
<1> DEFINE half == front \o <<e>>
<1>4. /\ half \in Seq(S) /\ Len(half) = i
      /\ \A j \in 1 .. i : half[j] = IF j < i THEN s[j] ELSE e
  <2>1. <<e>> \in Seq(S) /\ Len(<<e>>) = 1 /\ <<e>>[1] = e /\ i - 1 \in Nat
    BY <1>1
  <2> HIDE DEF front
  <2>2. /\ half \in Seq(S) /\ Len(half) = i - 1 + 1
        /\ \A j \in 1 .. i - 1 : half[j] = front[j]
        /\ \A j \in 1 .. i - 1 + 1 : j > i - 1 => half[j] = <<e>>[j - (i - 1)]
    <3>1. half \in Seq(S) /\ Joined(half, front, <<e>>, Len(front), Len(<<e>>))
      BY <1>2, <2>1, ConcatElements
    <3>2. Joined(half, front, <<e>>, i - 1, 1)
      BY <1>2, <2>1, <3>1
    <3> QED
      BY <3>1, <3>2 DEF Joined
  <2>3. half[i] = e
    <3>1. i \in 1 .. i - 1 + 1 /\ i > i - 1 /\ i - (i - 1) = 1
      BY <1>1
    <3>2. half[i] = <<e>>[i - (i - 1)]
      BY <2>2, <3>1
    <3> QED
      BY <2>1, <3>1, <3>2
  <2>4. \A j \in 1 .. i : j < i => j \in 1 .. i - 1
    BY <1>1
  <2> HIDE DEF half
  <2>5. \A j \in 1 .. i : ~ (j < i) => j = i
    BY <1>1
  <2>6. Len(half) = i
    BY <1>1, <2>2
  <2>7. ASSUME NEW j \in 1 .. i PROVE half[j] = IF j < i THEN s[j] ELSE e
    <3>1. CASE j < i
      <4>1. half[j] = front[j] /\ front[j] = s[j]
        BY <1>2, <2>2, <2>4, <3>1
      <4> QED
        BY <3>1, <4>1
    <3>2. CASE ~ (j < i)
      BY <2>3, <2>5, <3>2
    <3> QED
      BY <3>1, <3>2
  <2> QED
    BY <2>2, <2>6, <2>7
<1> HIDE DEF front, half
<1>5. t = half \o back
  BY DEF InsertAt, half, front
<1> HIDE DEF back, t, n
<1>6. /\ t \in Seq(S) /\ Len(t) = i + (n - i + 1)
      /\ \A j \in 1 .. i : t[j] = half[j]
      /\ \A j \in 1 .. i + (n - i + 1) : j > i => t[j] = back[j - i]
  <2>1. t \in Seq(S) /\ Joined(t, half, back, Len(half), Len(back))
    BY <1>3, <1>4, <1>5, ConcatElements
  <2>2. Joined(t, half, back, i, n - i + 1)
    BY <1>3, <1>4, <2>1
  <2> QED
    BY <2>1, <2>2 DEF Joined
<1>7. t \in Seq(S) /\ Len(t) = n + 1 /\ DOMAIN t = 1 .. n + 1
  BY <1>1, <1>6, LenProperties
<1>8. \A j \in 1 .. n + 1 : t[j] = IF j < i THEN s[j] ELSE IF j = i THEN e ELSE s[j - 1]
  <2> SUFFICES ASSUME NEW j \in 1 .. n + 1
               PROVE  t[j] = IF j < i THEN s[j] ELSE IF j = i THEN e ELSE s[j - 1]
    OBVIOUS
  <2>1. j \in 1 .. i + (n - i + 1)
    BY <1>1
  <2>2. CASE j <= i
    <3>1. j \in 1 .. i
      BY <2>2
    <3> QED
      BY <1>1, <1>4, <1>6, <2>1, <2>2, <3>1
  <2>3. CASE j > i
    <3>1. j - i \in 1 .. n - i + 1 /\ i + (j - i) - 1 = j - 1 /\ ~ (j <= i) /\ ~ (j < i) /\ j # i
      BY <1>1, <2>3
    <3> QED
      BY <1>3, <1>6, <2>1, <3>1
  <2> QED
    BY <1>1, <2>2, <2>3
<1>9. ToSet(t) = ToSet(s) \cup {e}
  <2>1. ASSUME NEW x \in ToSet(t) PROVE x \in ToSet(s) \cup {e}
    <3>1. PICK j \in 1 .. n + 1 : x = t[j]
      BY <1>7, <2>1 DEF ToSet
    <3>2. (j < i => j \in 1 .. n) /\ (j > i => j - 1 \in 1 .. n)
      BY <1>1
    <3>3. x = e \/ (j < i /\ x = s[j]) \/ (j > i /\ x = s[j - 1])
      BY <1>1, <1>8, <3>1
    <3> QED
      BY <1>1, <3>2, <3>3 DEF ToSet
  <2>2. ASSUME NEW x \in ToSet(s) PROVE x \in ToSet(t)
    <3>1. PICK j \in 1 .. n : x = s[j]
      BY <1>1, <2>2 DEF ToSet
    <3>2. CASE j < i
      <4>1. j \in 1 .. n + 1
        BY <1>1
      <4> QED
        BY <1>7, <1>8, <3>1, <3>2, <4>1 DEF ToSet
    <3>3. CASE j >= i
      <4>1. j + 1 \in 1 .. n + 1 /\ ~ (j + 1 < i) /\ j + 1 # i /\ j + 1 - 1 = j
        BY <1>1, <3>3
      <4>2. t[j + 1] = x
        BY <1>8, <3>1, <4>1
      <4> QED
        BY <1>7, <4>1, <4>2 DEF ToSet
    <3> QED
      BY <1>1, <3>2, <3>3
  <2>3. e \in ToSet(t)
    <3>1. i \in 1 .. n + 1 /\ ~ (i < i)
      BY <1>1
    <3> QED
      BY <1>7, <1>8, <3>1 DEF ToSet
  <2> QED
    BY <2>1, <2>2, <2>3
<1>10. ASSUME IsInjective(s), e \notin ToSet(s) PROVE IsInjective(t)
  <2> SUFFICES ASSUME NEW j \in 1 .. n + 1, NEW k \in 1 .. n + 1, t[j] = t[k] PROVE j = k
    BY <1>7 DEF IsInjective
  <2>1. \A l \in 1 .. n : s[l] # e
    BY <1>1, <1>10 DEF ToSet
  <2>2. \A l, m \in 1 .. n : s[l] = s[m] => l = m
    BY <1>1, <1>10 DEF IsInjective
  <2>3. /\ (j < i => j \in 1 .. n) /\ (j > i => j - 1 \in 1 .. n)
        /\ (k < i => k \in 1 .. n) /\ (k > i => k - 1 \in 1 .. n)
    BY <1>1
  <2>4. /\ j < i => t[j] = s[j]
        /\ j = i => t[j] = e
        /\ j > i => t[j] = s[j - 1]
    BY <1>1, <1>8
  <2>5. /\ k < i => t[k] = s[k]
        /\ k = i => t[k] = e
        /\ k > i => t[k] = s[k - 1]
    BY <1>1, <1>8
  <2>6. CASE j = i
    BY <1>1, <2>1, <2>3, <2>4, <2>5, <2>6
  <2>7. CASE j < i
    BY <1>1, <2>1, <2>2, <2>3, <2>4, <2>5, <2>7
  <2>8. CASE j > i
    BY <1>1, <2>1, <2>2, <2>3, <2>4, <2>5, <2>8
  <2> QED
    BY <1>1, <2>6, <2>7, <2>8
<1> QED
  BY <1>7, <1>8, <1>9, <1>10 DEF t, n

(* Taking out the first occurrence of an element that occurs once takes it *)
(* out; an element that is not there changes nothing.                      *)
LEMMA RemoveFirstFacts ==
  ASSUME NEW S, NEW s \in Seq(S), NEW e
  PROVE  /\ RemoveFirst(s, e) \in Seq(S)
         /\ IsInjective(s) => /\ IsInjective(RemoveFirst(s, e))
                              /\ ToSet(RemoveFirst(s, e)) = ToSet(s) \ {e}
<1> DEFINE n == Len(s)
           I == {i \in 1 .. n : s[i] = e}
<1>1. n \in Nat /\ DOMAIN s = 1 .. n
  BY LenProperties
<1>2. CASE I = {}
  <2>1. RemoveFirst(s, e) = s
    BY <1>2 DEF RemoveFirst
  <2>2. e \notin ToSet(s)
    BY <1>1, <1>2 DEF ToSet
  <2> QED
    BY <2>1, <2>2
<1>3. CASE I # {}
  <2>1. RemoveFirst(s, e) = RemoveAt(s, Min(I))
    BY <1>3 DEF RemoveFirst, SelectInSeq
  <2>2. PICK i \in 1 .. n : i = Min(I) /\ s[i] = e
    <3>1. I \subseteq Nat
      OBVIOUS
    <3>2. Min(I) \in I
      BY <1>3, <3>1, MinIsElement
    <3> QED
      BY <3>2
  <2> DEFINE front == SubSeq(s, 1, i - 1)
             back == SubSeq(s, i + 1, n)
             t == front \o back
  <2>3. /\ front \in Seq(S) /\ Len(front) = i - 1
        /\ \A j \in 1 .. i - 1 : front[j] = s[j]
    BY <1>1, SubSeqProperties
  <2>4. /\ back \in Seq(S) /\ Len(back) = n - i
        /\ \A j \in 1 .. n - i : back[j] = s[i + j]
    <3>1. i + 1 \in 1 .. n + 1
      BY <1>1
    <3>2. /\ back \in Seq(S) /\ Len(back) = IF i + 1 <= n THEN n - (i + 1) + 1 ELSE 0
          /\ \A j \in 1 .. n - (i + 1) + 1 : back[j] = s[(i + 1) + j - 1]
      BY <1>1, <3>1, SubSeqProperties
    <3> HIDE DEF back, n
    <3>3. Len(back) = n - i
      BY <1>1, <3>2
    <3>4. ASSUME NEW j \in 1 .. n - i PROVE back[j] = s[i + j]
      <4>1. j \in 1 .. n - (i + 1) + 1 /\ (i + 1) + j - 1 = i + j
        BY <1>1
      <4> QED
        BY <3>2, <4>1
    <3> QED
      BY <3>2, <3>3, <3>4
  <2>5. RemoveFirst(s, e) = t
    BY <2>1, <2>2 DEF RemoveAt
  <2> HIDE DEF front, back, t, I
  <2>6. /\ t \in Seq(S) /\ Len(t) = i - 1 + (n - i)
        /\ \A j \in 1 .. i - 1 : t[j] = front[j]
        /\ \A j \in 1 .. i - 1 + (n - i) : j > i - 1 => t[j] = back[j - (i - 1)]
    <3>1. t \in Seq(S) /\ Joined(t, front, back, Len(front), Len(back))
      BY <2>3, <2>4, ConcatElements DEF t
    <3>2. Joined(t, front, back, i - 1, n - i)
      BY <2>3, <2>4, <3>1
    <3> QED
      BY <3>1, <3>2 DEF Joined
  <2>7. t \in Seq(S) /\ DOMAIN t = 1 .. n - 1
    BY <1>1, <2>6, LenProperties
  <2> HIDE DEF n
  <2>8. \A j \in 1 .. n - 1 : t[j] = IF j < i THEN s[j] ELSE s[j + 1]
    <3> SUFFICES ASSUME NEW j \in 1 .. n - 1 PROVE t[j] = IF j < i THEN s[j] ELSE s[j + 1]
      OBVIOUS
    <3>1. j \in 1 .. i - 1 + (n - i)
      BY <1>1
    <3>2. CASE j < i
      <4>1. j \in 1 .. i - 1 /\ j <= i - 1
        BY <1>1, <3>2
      <4> QED
        BY <2>3, <2>6, <3>1, <3>2, <4>1
    <3>3. CASE ~ (j < i)
      <4>1. j - (i - 1) \in 1 .. n - i /\ j > i - 1 /\ i + (j - (i - 1)) = j + 1
        BY <1>1, <3>3
      <4> QED
        BY <2>4, <2>6, <3>1, <3>3, <4>1
    <3> QED
      BY <3>2, <3>3
  <2>9. ASSUME IsInjective(s) PROVE IsInjective(t) /\ ToSet(t) = ToSet(s) \ {e}
    <3>1. \A l, m \in 1 .. n : s[l] = s[m] => l = m
      BY <1>1, <2>9 DEF IsInjective
    <3>2. \A j \in 1 .. n - 1 : /\ (j < i => j \in 1 .. n /\ j # i)
                                /\ (~ (j < i) => j + 1 \in 1 .. n /\ j + 1 # i)
      BY <1>1
    <3>3. IsInjective(t)
      <4> SUFFICES ASSUME NEW j \in 1 .. n - 1, NEW k \in 1 .. n - 1, t[j] = t[k] PROVE j = k
        BY <2>7 DEF IsInjective
      <4> QED
        BY <1>1, <2>8, <3>1, <3>2
    <3>4. ASSUME NEW x \in ToSet(t) PROVE x \in ToSet(s) \ {e}
      <4>1. PICK j \in 1 .. n - 1 : x = t[j]
        BY <2>7, <3>4 DEF ToSet
      <4>2. PICK l \in 1 .. n : x = s[l] /\ l # i
        BY <2>8, <3>2, <4>1
      <4> QED
        BY <1>1, <2>2, <3>1, <4>2 DEF ToSet
    <3>5. ASSUME NEW x \in ToSet(s) \ {e} PROVE x \in ToSet(t)
      <4>1. PICK l \in 1 .. n : x = s[l]
        BY <1>1, <3>5 DEF ToSet
      <4>2. l # i
        BY <2>2, <3>5, <4>1
      <4>3. CASE l < i
        <5>1. l \in 1 .. n - 1
          BY <1>1, <4>3
        <5> QED
          BY <2>7, <2>8, <4>1, <4>3, <5>1 DEF ToSet
      <4>4. CASE l > i
        <5>1. l - 1 \in 1 .. n - 1 /\ ~ (l - 1 < i) /\ l - 1 + 1 = l
          BY <1>1, <4>4
        <5>2. t[l - 1] = x
          BY <2>8, <4>1, <5>1
        <5> QED
          BY <2>7, <5>1, <5>2 DEF ToSet
      <4> QED
        BY <1>1, <4>2, <4>3, <4>4
    <3> QED
      BY <3>3, <3>4, <3>5
  <2> QED
    BY <2>5, <2>7, <2>9
<1> QED
  BY <1>2, <1>3
=============================================================================
