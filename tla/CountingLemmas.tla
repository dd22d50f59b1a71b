---------------------------- MODULE CountingLemmas ----------------------------
(***************************************************************************)
(* How many elements of a sequence belong to a set.  The state machines of *)
(* this library keep callbacks in queues and on the stack of what is left  *)
(* to do; that each is kept in one place only is counted with this         *)
(* operator, and the facts below are what the proofs need of it.           *)
(***************************************************************************)
EXTENDS Integers, Sequences, FiniteSets, FiniteSetTheorems, SequenceTheorems,
        TLAPS

Count(s, S) == Cardinality({i \in DOMAIN s : s[i] \in S})

-----------------------------------------------------------------------------

\* The positions counted are finitely many, and their number is a natural.
LEMMA CountNat ==
  ASSUME NEW T, NEW s \in Seq(T), NEW S
  PROVE  /\ IsFiniteSet({i \in DOMAIN s : s[i] \in S})
         /\ Count(s, S) \in Nat
<1>1. IsFiniteSet(1..Len(s)) /\ DOMAIN s = 1..Len(s)
  BY FS_Interval, LenProperties
<1>2. IsFiniteSet({i \in DOMAIN s : s[i] \in S})
  BY <1>1, FS_Subset
<1>3. QED
  BY <1>2, FS_CardinalityType DEF Count

\* The empty sequence has no element in any set.
LEMMA CountEmpty ==
  ASSUME NEW S
  PROVE  Count(<<>>, S) = 0
<1>1. {i \in DOMAIN <<>> : <<>>[i] \in S} = {}
  OBVIOUS
<1>2. QED
  BY <1>1, FS_EmptySet DEF Count

\* A sequence of one element counts it.
LEMMA CountOne ==
  ASSUME NEW e, NEW S
  PROVE  Count(<<e>>, S) = IF e \in S THEN 1 ELSE 0
<1>1. CASE e \in S
  <2>1. {i \in DOMAIN <<e>> : <<e>>[i] \in S} = {1}
    BY <1>1
  <2>2. QED
    BY <1>1, <2>1, FS_Singleton DEF Count
<1>2. CASE e \notin S
  <2>1. {i \in DOMAIN <<e>> : <<e>>[i] \in S} = {}
    BY <1>2
  <2>2. QED
    BY <1>2, <2>1, FS_EmptySet DEF Count
<1>3. QED
  BY <1>1, <1>2

\* What a concatenation counts is what its parts count: the positions of the
\* second part are moved by the length of the first.
LEMMA CountConcat ==
  ASSUME NEW T, NEW s \in Seq(T), NEW t \in Seq(T), NEW S
  PROVE  Count(s \o t, S) = Count(s, S) + Count(t, S)
<1> DEFINE P == {i \in DOMAIN s : s[i] \in S}
           Q == {i \in DOMAIN t : t[i] \in S}
           M == {i \in DOMAIN (s \o t) : (s \o t)[i] \in S}
           R == {i \in M : i > Len(s)}
           f == [i \in Q |-> i + Len(s)]
<1>1. /\ s \o t \in Seq(T) /\ Len(s) \in Nat /\ Len(t) \in Nat
      /\ Len(s \o t) = Len(s) + Len(t)
      /\ DOMAIN s = 1..Len(s) /\ DOMAIN t = 1..Len(t)
      /\ DOMAIN (s \o t) = 1..(Len(s) + Len(t))
      /\ \A i \in 1..(Len(s) + Len(t)) :
           (s \o t)[i] = IF i <= Len(s) THEN s[i] ELSE t[i - Len(s)]
  BY ConcatProperties, LenProperties
<1>2. IsFiniteSet(P) /\ IsFiniteSet(Q) /\ IsFiniteSet(M)
  BY <1>1, CountNat
<1>3. IsFiniteSet(R) /\ M = P \cup R /\ P \cap R = {}
  <2>1. IsFiniteSet(R)
    BY <1>2, FS_Subset
  <2>2. \A i \in P : i \in M /\ ~(i > Len(s))
    BY <1>1
  <2>3. \A i \in M : i \in P \/ i \in R
    BY <1>1
  <2>4. QED
    BY <2>1, <2>2, <2>3
<1>4. Cardinality(R) = Cardinality(Q)
  <2>1. f \in Bijection(Q, R)
    <3>1. \A i \in Q : i \in Nat /\ f[i] = i + Len(s) /\ f[i] \in R
      BY <1>1
    <3>2. \A r \in R : r - Len(s) \in Q /\ f[r - Len(s)] = r
      BY <1>1
    <3>3. f \in [Q -> R]
      BY <3>1
    <3>4. \A a, b \in Q : f[a] = f[b] => a = b
      BY <1>1, <3>1
    <3>5. f \in Injection(Q, R)
      BY <3>3, <3>4 DEF Injection, IsInjective
    <3>6. f \in Surjection(Q, R)
      BY <3>3, <3>2 DEF Surjection
    <3>7. QED
      BY <3>5, <3>6 DEF Bijection
  <2>2. ExistsBijection(Q, R)
    BY <2>1 DEF ExistsBijection
  <2>3. QED
    BY <1>2, <2>2, FS_Bijection
<1>5. Cardinality(M) = Cardinality(P) + Cardinality(R)
  <2>1. Cardinality(P \cap R) = 0
    BY <1>3, FS_EmptySet
  <2>2. Cardinality(P) \in Nat /\ Cardinality(R) \in Nat
    BY <1>2, <1>3, FS_CardinalityType
  <2>3. Cardinality(P \cup R)
          = Cardinality(P) + Cardinality(R) - Cardinality(P \cap R)
    BY <1>2, <1>3, FS_Union
  <2> HIDE DEF P, R, M
  <2>4. QED
    BY <1>3, <2>1, <2>2, <2>3
<1>6. QED
  BY <1>4, <1>5 DEF Count

\* An element put before a sequence counts by itself.
LEMMA CountExtended ==
  ASSUME NEW T, NEW s \in Seq(T), NEW e \in T, NEW S
  PROVE  /\ <<e>> \o s \in Seq(T)
         /\ Count(<<e>> \o s, S) = (IF e \in S THEN 1 ELSE 0) + Count(s, S)
<1>1. <<e>> \in Seq(T)
  OBVIOUS
<1>2. <<e>> \o s \in Seq(T)
  BY <1>1, ConcatProperties
<1>3. Count(<<e>> \o s, S) = Count(<<e>>, S) + Count(s, S)
  BY <1>1, CountConcat
<1>4. QED
  BY <1>2, <1>3, CountOne

\* So does one put behind it.
LEMMA CountAppend ==
  ASSUME NEW T, NEW s \in Seq(T), NEW e \in T, NEW S
  PROVE  /\ e \in S => Count(Append(s, e), S) = Count(s, S) + 1
         /\ e \notin S => Count(Append(s, e), S) = Count(s, S)
<1>1. <<e>> \in Seq(T)
  OBVIOUS
<1>2. Append(s, e) = s \o <<e>>
  BY AppendIsConcat, Zenon
<1>3. Count(s \o <<e>>, S) = Count(s, S) + Count(<<e>>, S)
  BY <1>1, CountConcat
<1>4. /\ e \in S => Count(s \o <<e>>, S) = Count(s, S) + 1
      /\ e \notin S => Count(s \o <<e>>, S) = Count(s, S)
  <2>1. Count(s, S) \in Nat
    BY CountNat
  <2>2. Count(<<e>>, S) = IF e \in S THEN 1 ELSE 0
    BY CountOne
  <2>3. QED
    BY <1>3, <2>1, <2>2
<1>5. QED
  BY <1>2, <1>4, Zenon

\* Taking the head off a sequence takes what it counts.
LEMMA CountHeadTail ==
  ASSUME NEW T, NEW s \in Seq(T), s # <<>>, NEW S
  PROVE  /\ Head(s) \in T /\ Tail(s) \in Seq(T)
         /\ Count(s, S) = (IF Head(s) \in S THEN 1 ELSE 0) + Count(Tail(s), S)
<1>1. Head(s) \in T /\ Tail(s) \in Seq(T)
  BY HeadTailProperties
<1>2. s = <<Head(s)>> \o Tail(s)
  <2>1. <<Head(s)>> \in Seq(T)
    BY <1>1
  <2>2. QED
    BY <1>1, <2>1
<1>3. ASSUME NEW h \in T, NEW t \in Seq(T)
      PROVE  Count(<<h>> \o t, S) = (IF h \in S THEN 1 ELSE 0) + Count(t, S)
  BY CountExtended
<1>4. QED
  BY <1>1, <1>2, <1>3, Zenon

\* Putting an element in the place of another counts the one for the other.
LEMMA CountReplace ==
  ASSUME NEW T, NEW s \in Seq(T), NEW k \in 1..Len(s), NEW e \in T, NEW S
  PROVE  /\ s[k] \in S /\ e \notin S
              => Count([s EXCEPT ![k] = e], S) + 1 = Count(s, S)
         /\ s[k] \notin S /\ e \in S
              => Count([s EXCEPT ![k] = e], S) = Count(s, S) + 1
         /\ (s[k] \in S <=> e \in S) => Count([s EXCEPT ![k] = e], S) = Count(s, S)
<1> DEFINE t == [s EXCEPT ![k] = e]
           P == {i \in DOMAIN s : s[i] \in S}
           Q == {i \in DOMAIN t : t[i] \in S}
<1>1. /\ t \in Seq(T) /\ DOMAIN t = DOMAIN s /\ k \in DOMAIN s
      /\ \A i \in DOMAIN s : t[i] = IF i = k THEN e ELSE s[i]
  BY ExceptSeq, LenProperties
<1>2. /\ IsFiniteSet(P) /\ IsFiniteSet(Q)
      /\ Count(s, S) = Cardinality(P) /\ Count(t, S) = Cardinality(Q)
      /\ Cardinality(P) \in Nat /\ Cardinality(Q) \in Nat
  BY <1>1, CountNat DEF Count
<1>3. /\ \A i : i # k => (i \in P <=> i \in Q)
      /\ k \in P <=> s[k] \in S
      /\ k \in Q <=> e \in S
  BY <1>1
<1> HIDE DEF t, P, Q
<1>4. CASE s[k] \in S /\ e \notin S
  <2>1. P = Q \cup {k} /\ k \notin Q
    BY <1>3, <1>4
  <2>2. Cardinality(P) = Cardinality(Q) + 1
    BY <1>2, <2>1, FS_AddElement
  <2>3. QED
    BY <1>2, <1>4, <2>2 DEF t
<1>5. CASE s[k] \notin S /\ e \in S
  <2>1. Q = P \cup {k} /\ k \notin P
    BY <1>3, <1>5
  <2>2. Cardinality(Q) = Cardinality(P) + 1
    BY <1>2, <2>1, FS_AddElement
  <2>3. QED
    BY <1>2, <1>5, <2>2 DEF t
<1>6. CASE s[k] \in S <=> e \in S
  <2>1. P = Q
    BY <1>3, <1>6
  <2>2. QED
    BY <1>2, <1>6, <2>1 DEF t
<1>7. QED
  BY <1>4, <1>5, <1>6

\* A set that holds none of the elements counts none of them.
LEMMA CountNone ==
  ASSUME NEW T, NEW s \in Seq(T), NEW S, S \cap T = {}
  PROVE  Count(s, S) = 0
<1>1. {i \in DOMAIN s : s[i] \in S} = {}
  BY ElementOfSeq, LenProperties
<1>2. QED
  BY <1>1, FS_EmptySet DEF Count

\* Sets that agree on the elements there are count the same.
LEMMA CountSame ==
  ASSUME NEW T, NEW s \in Seq(T), NEW S, NEW U, S \cap T = U \cap T
  PROVE  Count(s, S) = Count(s, U)
<1>1. {i \in DOMAIN s : s[i] \in S} = {i \in DOMAIN s : s[i] \in U}
  BY ElementOfSeq, LenProperties
<1>2. QED
  BY <1>1 DEF Count

\* More may be in a sequence than is.
LEMMA SeqWiden ==
  ASSUME NEW T, NEW U, T \subseteq U
  PROVE  Seq(T) \subseteq Seq(U)
OBVIOUS
-----------------------------------------------------------------------------
(* Whether a sequence has an element of a set.                             *)

Has(s, S) == \E i \in DOMAIN s : s[i] \in S

\* The empty sequence has none, one of a single element has that one.
LEMMA HasOne ==
  ASSUME NEW e, NEW S
  PROVE  /\ ~Has(<<>>, S)
         /\ Has(<<e>>, S) <=> e \in S
BY DEF Has

\* A concatenation has what its parts have.
LEMMA HasConcat ==
  ASSUME NEW T, NEW s \in Seq(T), NEW t \in Seq(T), NEW S
  PROVE  Has(s \o t, S) <=> Has(s, S) \/ Has(t, S)
<1>1. /\ Len(s) \in Nat /\ Len(t) \in Nat
      /\ DOMAIN s = 1..Len(s) /\ DOMAIN t = 1..Len(t)
      /\ DOMAIN (s \o t) = 1..(Len(s) + Len(t))
      /\ \A i \in 1..(Len(s) + Len(t)) :
           (s \o t)[i] = IF i <= Len(s) THEN s[i] ELSE t[i - Len(s)]
  BY ConcatProperties, LenProperties
<1>2. ASSUME NEW i \in DOMAIN (s \o t), (s \o t)[i] \in S
      PROVE  Has(s, S) \/ Has(t, S)
  <2>1. CASE i <= Len(s)
    BY <1>1, <1>2, <2>1 DEF Has
  <2>2. CASE ~(i <= Len(s))
    <3>1. i - Len(s) \in DOMAIN t /\ t[i - Len(s)] \in S
      BY <1>1, <1>2, <2>2
    <3>2. QED
      BY <3>1 DEF Has
  <2>3. QED
    BY <2>1, <2>2
<1>3. ASSUME NEW i \in DOMAIN s, s[i] \in S
      PROVE  Has(s \o t, S)
  <2>1. i \in DOMAIN (s \o t) /\ (s \o t)[i] = s[i]
    BY <1>1
  <2>2. QED
    BY <1>3, <2>1, Zenon DEF Has
<1>4. ASSUME NEW i \in DOMAIN t, t[i] \in S
      PROVE  Has(s \o t, S)
  <2>1. i + Len(s) \in DOMAIN (s \o t) /\ (s \o t)[i + Len(s)] = t[i]
    BY <1>1
  <2>2. QED
    BY <1>4, <2>1, Zenon DEF Has
<1>5. QED
  BY <1>2, <1>3, <1>4, Zenon DEF Has

\* A sequence has its head and what its tail has.
LEMMA HasHeadTail ==
  ASSUME NEW T, NEW s \in Seq(T), s # <<>>, NEW S
  PROVE  Has(s, S) <=> Head(s) \in S \/ Has(Tail(s), S)
<1>1. Head(s) \in T /\ Tail(s) \in Seq(T) /\ <<Head(s)>> \in Seq(T)
  BY HeadTailProperties
<1>2. s = <<Head(s)>> \o Tail(s)
  BY <1>1
<1>3. Has(<<Head(s)>> \o Tail(s), S) <=> Has(<<Head(s)>>, S) \/ Has(Tail(s), S)
  BY <1>1, HasConcat
<1>4. QED
  BY <1>2, <1>3, HasOne, Zenon

\* The head and the tail of a sequence with an element put before it.
LEMMA ExtendedHeadTail ==
  ASSUME NEW T, NEW s \in Seq(T), NEW e \in T
  PROVE  /\ <<e>> \o s \in Seq(T) /\ <<e>> \o s # <<>>
         /\ Head(<<e>> \o s) = e /\ Tail(<<e>> \o s) = s
<1>1. <<e>> \in Seq(T)
  OBVIOUS
<1>2. <<e>> \o s \in Seq(T) /\ <<e>> \o s # <<>> /\ Head(<<e>> \o s) = e
  BY <1>1, ConcatProperties
<1>3. /\ Tail(<<e>> \o s) \in Seq(T) /\ Len(Tail(<<e>> \o s)) = Len(s)
      /\ \A i \in 1..Len(s) : Tail(<<e>> \o s)[i] = s[i]
  BY <1>1, <1>2, ConcatProperties, HeadTailProperties, LenProperties
<1>4. QED
  BY <1>2, <1>3, SeqEqual

\* A sequence of one element begins with it and has no more.
LEMMA OneElement ==
  ASSUME NEW e
  PROVE  <<e>> # <<>> /\ Head(<<e>>) = e /\ Tail(<<e>>) = <<>>
<1>1. <<e>> \in Seq({e}) /\ Len(<<e>>) = 1
  OBVIOUS
<1>2. Tail(<<e>>) \in Seq({e}) /\ Len(Tail(<<e>>)) = 0
  BY <1>1, HeadTailProperties
<1>3. Tail(<<e>>) = <<>>
  BY <1>2, EmptySeq
<1>4. QED
  BY <1>3

\* A sequence that counts no element has none, and one that counts a single
\* element has it at one place.
LEMMA CountHas ==
  ASSUME NEW T, NEW s \in Seq(T), NEW S
  PROVE  /\ Count(s, S) = 0 <=> ~Has(s, S)
         /\ Count(s, S) = 1 =>
              \A i, j \in DOMAIN s : s[i] \in S /\ s[j] \in S => i = j
<1> DEFINE P == {i \in DOMAIN s : s[i] \in S}
<1>1. IsFiniteSet(P)
  BY CountNat
<1>2. Cardinality(P) = 0 <=> P = {}
  BY <1>1, FS_EmptySet
<1>3. Cardinality(P) = 1 => \E x : P = {x}
  BY <1>1, FS_Singleton
<1>4. Count(s, S) = Cardinality(P)
  BY DEF Count
<1>5. Count(s, S) = 0 <=> ~Has(s, S)
  BY <1>2, <1>4 DEF Has
<1>6. Count(s, S) = 1 =>
        \A i, j \in DOMAIN s : s[i] \in S /\ s[j] \in S => i = j
  BY <1>3, <1>4
<1>7. QED
  BY <1>5, <1>6

\* A power of two is at least one: it counts subsets.
LEMMA PowerPositive ==
  ASSUME NEW n \in Nat
  PROVE  2 ^ n \in Nat \ {0}
<1>1. IsFiniteSet(1..n) /\ Cardinality(1..n) = n
  BY FS_Interval
<1>2. IsFiniteSet(SUBSET (1..n)) /\ Cardinality(SUBSET (1..n)) = 2 ^ n
  BY <1>1, FS_SUBSET
<1>3. Cardinality(SUBSET (1..n)) \in Nat
  BY <1>2, FS_CardinalityType
<1>4. SUBSET (1..n) # {}
  OBVIOUS
<1>5. Cardinality(SUBSET (1..n)) # 0
  BY <1>2, <1>4, FS_EmptySet
<1>6. QED
  BY <1>2, <1>3, <1>5
=============================================================================
