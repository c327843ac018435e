--------------------------- MODULE Selection_proofs ---------------------------
(***************************************************************************)
(* What Only keeps of a sequence, for all sequences.  Everything follows   *)
(* from what it does with an empty and with a longer sequence, by          *)
(* induction; an induction is over a set, the numbers or the sequences     *)
(* that have the property, and needs no operator as a parameter.           *)
(***************************************************************************)
EXTENDS Selection, TLAPS, WellFoundedInduction

LEMMA NatInduct ==
  ASSUME NEW T, 0 \in T, \A n \in Nat : n \in T => n + 1 \in T
  PROVE  Nat \subseteq T
<1> DEFINE R == OpToRel(<, Nat)
<1>1. IsWellFoundedOn(R, Nat)
  BY NatLessThanWellFounded, Zenon
<1>2. SUFFICES ASSUME Nat \ T # {} PROVE FALSE
  OBVIOUS
<1>3. PICK x \in Nat \ T : \A y \in Nat \ T : ~(<<y, x>> \in R)
  <2> HIDE DEF R
  <2> QED BY <1>1, <1>2, WFMin, Zenon
<1>4. x # 0 /\ x - 1 \in Nat /\ x - 1 < x
  OBVIOUS
<1>5. <<x - 1, x>> \in R
  BY <1>4, Zenon DEF OpToRel
<1>6. x - 1 \in T
  BY <1>3, <1>4, <1>5
<1> QED
  BY <1>4, <1>6

(* Every sequence is made by appending.                                     *)
LEMMA SeqInduct ==
  ASSUME NEW E, NEW T, <<>> \in T,
         \A s \in Seq(E), e \in E : s \in T => Append(s, e) \in T
  PROVE  Seq(E) \subseteq T
<1> DEFINE N == {n \in Nat : \A s \in Seq(E) : Len(s) = n => s \in T}
<1>1. 0 \in N
  OBVIOUS
<1>2. ASSUME NEW n \in Nat, n \in N PROVE n + 1 \in N
  <2>1. SUFFICES ASSUME NEW s \in Seq(E), Len(s) = n + 1 PROVE s \in T
    OBVIOUS
  <2> DEFINE front == SubSeq(s, 1, n)
  <2>2. front \in Seq(E) /\ Len(front) = n /\ s[n + 1] \in E
    BY <2>1
  <2>3. s = Append(front, s[n + 1])
    BY <2>1
  <2>4. front \in T
    BY <1>2, <2>2
  <2> HIDE DEF front
  <2> QED BY <2>2, <2>3, <2>4
<1>3. Nat \subseteq N
  <2> HIDE DEF N
  <2> QED BY <1>1, <1>2, NatInduct
<1> QED
  BY <1>3

-----------------------------------------------------------------------------
(* The recursion of Only: the function exists and its values are those the  *)
(* recursion says.                                                          *)
Recursive(k, s, S) ==
  k = [i \in 0 .. Len(s) |->
        IF i = 0 THEN <<>>
        ELSE IF s[i] \in S THEN Append(k[i - 1], s[i]) ELSE k[i - 1]]

LEMMA RecursiveStep ==
  ASSUME NEW S, NEW s, Len(s) \in Nat, NEW k, Recursive(k, s, S),
         NEW n \in Nat, n + 1 <= Len(s)
  PROVE  k[n + 1] = IF s[n + 1] \in S THEN Append(k[n], s[n + 1]) ELSE k[n]
<1>1. n + 1 \in 0 .. Len(s) /\ n + 1 # 0 /\ (n + 1) - 1 = n
  OBVIOUS
<1>2. \A i \in 0 .. Len(s) :
        k[i] = IF i = 0 THEN <<>>
               ELSE IF s[i] \in S THEN Append(k[i - 1], s[i]) ELSE k[i - 1]
  BY Zenon DEF Recursive
<1> QED
  BY <1>1, <1>2, Zenon

LEMMA RecursiveAgrees ==
  ASSUME NEW E, NEW S, NEW s \in Seq(E), NEW t \in Seq(E), Len(s) <= Len(t),
         \A i \in 1 .. Len(s) : s[i] = t[i],
         NEW k, Recursive(k, s, S), NEW l, Recursive(l, t, S)
  PROVE  k[Len(s)] = l[Len(s)]
<1> DEFINE N == {n \in Nat : n <= Len(s) => k[n] = l[n]}
<1>1. 0 \in N
  BY DEF Recursive
<1>2. ASSUME NEW n \in Nat, n \in N PROVE n + 1 \in N
  <2>1. SUFFICES ASSUME n + 1 <= Len(s) PROVE k[n + 1] = l[n + 1]
    OBVIOUS
  <2>2. k[n] = l[n] /\ s[n + 1] = t[n + 1]
    BY <1>2, <2>1
  <2>3. k[n + 1] = IF s[n + 1] \in S THEN Append(k[n], s[n + 1]) ELSE k[n]
    BY <2>1, RecursiveStep
  <2>4. l[n + 1] = IF t[n + 1] \in S THEN Append(l[n], t[n + 1]) ELSE l[n]
    BY <2>1, RecursiveStep
  <2> QED BY <2>2, <2>3, <2>4
<1>3. Nat \subseteq N
  <2> HIDE DEF N
  <2> QED BY <1>1, <1>2, NatInduct
<1> QED
  BY <1>3

LEMMA RecursiveAppend ==
  ASSUME NEW E, NEW S, NEW s \in Seq(E), NEW e \in E, NEW k, Recursive(k, s, S)
  PROVE  \E l : Recursive(l, Append(s, e), S)
<1> DEFINE m == Len(s)
           t == Append(s, e)
           l == [i \in 0 .. m + 1 |->
                  IF i <= m THEN k[i] ELSE IF e \in S THEN Append(k[m], e) ELSE k[m]]
<1>1. m \in Nat /\ Len(t) = m + 1 /\ t[m + 1] = e /\ \A i \in 1 .. m : t[i] = s[i]
  OBVIOUS
<1>2. ASSUME NEW i \in 0 .. m + 1
      PROVE  l[i] = IF i = 0 THEN <<>>
                    ELSE IF t[i] \in S THEN Append(l[i - 1], t[i]) ELSE l[i - 1]
  <2>1. CASE i = 0
    BY <2>1, <1>1 DEF Recursive
  <2>2. CASE i \in 1 .. m
    <3>1. i - 1 \in Nat /\ (i - 1) + 1 = i /\ i - 1 <= m
      BY <2>2, <1>1
    <3>2. k[i] = IF s[i] \in S THEN Append(k[i - 1], s[i]) ELSE k[i - 1]
      BY <2>2, <3>1, <1>1, RecursiveStep
    <3>3. l[i] = k[i] /\ l[i - 1] = k[i - 1] /\ i # 0
      BY <2>2, <3>1, <1>1
    <3> QED
      BY <2>2, <3>2, <3>3, <1>1
  <2>3. CASE i = m + 1
    BY <2>3, <1>1
  <2> QED
    BY <1>1, <2>1, <2>2, <2>3
<1>3. Recursive(l, t, S)
  <2> HIDE DEF t
  <2> QED BY <1>1, <1>2 DEF Recursive
<1> QED
  BY <1>3

LEMMA RecursiveExists ==
  ASSUME NEW E, NEW S, NEW s \in Seq(E)
  PROVE  \E k : Recursive(k, s, S)
<1> DEFINE T == {t \in Seq(E) : \E k : Recursive(k, t, S)}
<1>1. <<>> \in T
  <2>1. Recursive([i \in 0 .. 0 |-> <<>>], <<>>, S)
    BY DEF Recursive
  <2> QED
    BY <2>1
<1>2. ASSUME NEW t \in Seq(E), NEW e \in E, t \in T PROVE Append(t, e) \in T
  BY <1>2, RecursiveAppend
<1>3. Seq(E) \subseteq T
  <2> HIDE DEF T
  <2> QED BY <1>1, <1>2, SeqInduct
<1> QED
  BY <1>3

LEMMA OnlyRecursive ==
  ASSUME NEW E, NEW S, NEW s \in Seq(E)
  PROVE  \E k : Recursive(k, s, S) /\ Only(s, S) = k[Len(s)]
<1> DEFINE kept == CHOOSE k : Recursive(k, s, S)
<1>1. Recursive(kept, s, S)
  BY RecursiveExists
<1>2. Only(s, S) = kept[Len(s)]
  BY DEF Only, Recursive
<1> QED
  BY <1>1, <1>2

-----------------------------------------------------------------------------
(* The two equations of Only.                                               *)
LEMMA OnlyEmpty == ASSUME NEW S PROVE Only(<<>>, S) = <<>>
<1>1. <<>> \in Seq({})
  OBVIOUS
<1>2. PICK k : Recursive(k, <<>>, S) /\ Only(<<>>, S) = k[Len(<<>>)]
  BY <1>1, OnlyRecursive
<1> QED
  BY <1>2 DEF Recursive

LEMMA OnlyAppend ==
  ASSUME NEW E, NEW S, NEW s \in Seq(E), NEW e \in E
  PROVE  Only(Append(s, e), S) = IF e \in S THEN Append(Only(s, S), e) ELSE Only(s, S)
<1> DEFINE t == Append(s, e)
<1>1. /\ t \in Seq(E) /\ Len(t) = Len(s) + 1 /\ t[Len(t)] = e
      /\ Len(s) \in Nat /\ \A i \in 1 .. Len(s) : s[i] = t[i]
  OBVIOUS
<1> HIDE DEF t
<1>2. PICK k : Recursive(k, s, S) /\ Only(s, S) = k[Len(s)]
  BY OnlyRecursive
<1>3. PICK l : Recursive(l, t, S) /\ Only(t, S) = l[Len(t)]
  BY <1>1, OnlyRecursive
<1>4. k[Len(s)] = l[Len(s)]
  BY <1>1, <1>2, <1>3, RecursiveAgrees
<1>5. l[Len(t)] = IF e \in S THEN Append(l[Len(s)], e) ELSE l[Len(s)]
  BY <1>1, <1>3, RecursiveStep
<1> QED
  BY <1>2, <1>3, <1>4, <1>5 DEF t

-----------------------------------------------------------------------------
(* What is left is a sequence of the elements that are in the set ...       *)
LEMMA OnlyType ==
  ASSUME NEW E, NEW S, NEW s \in Seq(E)
  PROVE  Only(s, S) \in Seq(E)
<1> DEFINE T == {t \in Seq(E) : Only(t, S) \in Seq(E)}
<1>1. <<>> \in T
  <2>1. <<>> \in Seq(E)
    OBVIOUS
  <2> QED BY <2>1, OnlyEmpty, Zenon
<1>2. ASSUME NEW t \in Seq(E), NEW e \in E, t \in T PROVE Append(t, e) \in T
  <2>1. Only(Append(t, e), S) = IF e \in S THEN Append(Only(t, S), e) ELSE Only(t, S)
    BY OnlyAppend
  <2>2. Append(t, e) \in Seq(E) /\ Only(t, S) \in Seq(E)
    BY <1>2
  <2>3. Append(Only(t, S), e) \in Seq(E)
    BY <2>2
  <2> QED BY <2>1, <2>2, <2>3
<1>3. Seq(E) \subseteq T
  <2> HIDE DEF T
  <2> QED BY <1>1, <1>2, SeqInduct
<1> QED
  BY <1>3

Elements(s) == {s[i] : i \in DOMAIN s}
Distinct(s) == \A i, k \in DOMAIN s : s[i] = s[k] => i = k

LEMMA OnlyShorter ==
  ASSUME NEW E, NEW S, NEW s \in Seq(E)
  PROVE  Len(Only(s, S)) <= Len(s)
<1> DEFINE T == {t \in Seq(E) : Len(Only(t, S)) <= Len(t)}
<1>1. <<>> \in T
  <2>1. Only(<<>>, S) = <<>> /\ <<>> \in Seq(E)
    BY OnlyEmpty
  <2> QED
    BY <2>1
<1>2. ASSUME NEW t \in Seq(E), NEW e \in E, t \in T PROVE Append(t, e) \in T
  <2>1. Only(Append(t, e), S) = IF e \in S THEN Append(Only(t, S), e) ELSE Only(t, S)
    BY OnlyAppend
  <2>2. Only(t, S) \in Seq(E) /\ Len(Only(t, S)) <= Len(t)
    BY <1>2, OnlyType
  <2>3. Len(Append(t, e)) = Len(t) + 1 /\ Append(t, e) \in Seq(E) /\ Len(t) \in Nat
    OBVIOUS
  <2>4. Len(Append(Only(t, S), e)) = Len(Only(t, S)) + 1 /\ Len(Only(t, S)) \in Nat
    BY <2>2
  <2>5. Len(Only(Append(t, e), S)) <= Len(Append(t, e))
    BY <2>1, <2>2, <2>3, <2>4
  <2> QED
    BY <2>3, <2>5
<1> HIDE DEF T
<1>3. Seq(E) \subseteq T
  BY <1>1, <1>2, SeqInduct
<1> QED
  BY <1>3 DEF T

LEMMA AppendPlaces ==
  ASSUME NEW E, NEW s \in Seq(E), NEW e \in E
  PROVE  /\ Append(s, e) \in Seq(E) /\ Len(s) \in Nat
         /\ DOMAIN s = 1 .. Len(s) /\ DOMAIN Append(s, e) = 1 .. Len(s) + 1
         /\ Append(s, e)[Len(s) + 1] = e /\ \A i \in 1 .. Len(s) : Append(s, e)[i] = s[i]
OBVIOUS

LEMMA AppendElements ==
  ASSUME NEW E, NEW s \in Seq(E), NEW e \in E
  PROVE  Elements(Append(s, e)) = Elements(s) \cup {e}
BY AppendPlaces DEF Elements

LEMMA OnlyElements ==
  ASSUME NEW E, NEW S, NEW s \in Seq(E)
  PROVE  Elements(Only(s, S)) = Elements(s) \cap S
<1> DEFINE T == {t \in Seq(E) : Elements(Only(t, S)) = Elements(t) \cap S}
<1>1. <<>> \in T
  <2>1. Elements(<<>>) = {} /\ <<>> \in Seq(E)
    BY DEF Elements
  <2> QED BY <2>1, OnlyEmpty
<1>2. ASSUME NEW t \in Seq(E), NEW e \in E, t \in T PROVE Append(t, e) \in T
  <2>1. Append(t, e) \in Seq(E) /\ Elements(Append(t, e)) = Elements(t) \cup {e}
    BY AppendElements
  <2>2. Only(t, S) \in Seq(E) /\ Elements(Only(t, S)) = Elements(t) \cap S
    BY <1>2, OnlyType
  <2>3. Elements(Append(Only(t, S), e)) = Elements(Only(t, S)) \cup {e}
    BY <2>2, AppendElements
  <2>4. Only(Append(t, e), S) = IF e \in S THEN Append(Only(t, S), e) ELSE Only(t, S)
    BY OnlyAppend
  <2> QED
    BY <2>1, <2>2, <2>3, <2>4
<1>3. Seq(E) \subseteq T
  <2> HIDE DEF T
  <2> QED BY <1>1, <1>2, SeqInduct
<1> QED
  BY <1>3

(* ... each at one place if it was at one place.                            *)
LEMMA AppendDistinct ==
  ASSUME NEW E, NEW s \in Seq(E), NEW e \in E
  PROVE  Distinct(Append(s, e)) <=> Distinct(s) /\ e \notin Elements(s)
<1> DEFINE t == Append(s, e)
<1>1. /\ Len(s) \in Nat /\ DOMAIN s = 1 .. Len(s) /\ DOMAIN t = 1 .. Len(s) + 1
      /\ t[Len(s) + 1] = e /\ \A i \in 1 .. Len(s) : t[i] = s[i]
  BY AppendPlaces
<1> HIDE DEF t
<1>2. ASSUME Distinct(t) PROVE Distinct(s) /\ e \notin Elements(s)
  BY <1>1, <1>2 DEF Distinct, Elements
<1>3. ASSUME Distinct(s), e \notin Elements(s), NEW i \in 1 .. Len(s) + 1,
             NEW k \in 1 .. Len(s) + 1, i # k
      PROVE  t[i] # t[k]
  BY <1>1, <1>3 DEF Distinct, Elements
<1>4. ASSUME Distinct(s), e \notin Elements(s) PROVE Distinct(t)
  BY <1>1, <1>3, <1>4 DEF Distinct
<1> QED
  BY <1>2, <1>4 DEF t

LEMMA OnlyDistinct ==
  ASSUME NEW E, NEW S, NEW s \in Seq(E), Distinct(s)
  PROVE  Distinct(Only(s, S))
<1> DEFINE T == {t \in Seq(E) : Distinct(t) => Distinct(Only(t, S))}
<1>1. <<>> \in T
  <2>1. Distinct(<<>>) /\ <<>> \in Seq(E)
    BY DEF Distinct
  <2> QED BY <2>1, OnlyEmpty
<1>2. ASSUME NEW t \in Seq(E), NEW e \in E, t \in T PROVE Append(t, e) \in T
  <2>1. Append(t, e) \in Seq(E) /\ (Distinct(Append(t, e)) <=> Distinct(t) /\ e \notin Elements(t))
    BY AppendDistinct
  <2>2. Only(t, S) \in Seq(E) /\ Elements(Only(t, S)) = Elements(t) \cap S
    BY OnlyType, OnlyElements
  <2>3. Distinct(Append(Only(t, S), e)) <=> Distinct(Only(t, S)) /\ e \notin Elements(Only(t, S))
    BY <2>2, AppendDistinct
  <2>4. Only(Append(t, e), S) = IF e \in S THEN Append(Only(t, S), e) ELSE Only(t, S)
    BY OnlyAppend
  <2> QED
    BY <1>2, <2>1, <2>2, <2>3, <2>4
<1>3. Seq(E) \subseteq T
  <2> HIDE DEF T
  <2> QED BY <1>1, <1>2, SeqInduct
<1> QED
  BY <1>3

-----------------------------------------------------------------------------
(* Choosing twice, choosing from a concatenation, and choosing nothing.     *)
LEMMA OnlyOnly ==
  ASSUME NEW E, NEW S, NEW T, NEW s \in Seq(E)
  PROVE  Only(Only(s, S), T) = Only(s, S \cap T)
<1> DEFINE P == {t \in Seq(E) : Only(Only(t, S), T) = Only(t, S \cap T)}
<1>1. <<>> \in P
  <2>1. <<>> \in Seq(E)
    OBVIOUS
  <2> QED BY <2>1, OnlyEmpty
<1>2. ASSUME NEW t \in Seq(E), NEW e \in E, t \in P PROVE Append(t, e) \in P
  <2>1. Append(t, e) \in Seq(E) /\ Only(t, S) \in Seq(E)
    BY OnlyType
  <2>2. Only(Append(t, e), S) = IF e \in S THEN Append(Only(t, S), e) ELSE Only(t, S)
    BY OnlyAppend
  <2>3. Only(Append(t, e), S \cap T)
          = IF e \in S \cap T THEN Append(Only(t, S \cap T), e) ELSE Only(t, S \cap T)
    BY OnlyAppend
  <2>4. Only(Append(Only(t, S), e), T)
          = IF e \in T THEN Append(Only(Only(t, S), T), e) ELSE Only(Only(t, S), T)
    BY <2>1, OnlyAppend
  <2>5. CASE e \in S /\ e \in T
    BY <1>2, <2>1, <2>2, <2>3, <2>4, <2>5, Zenon
  <2>6. CASE e \in S /\ e \notin T
    BY <1>2, <2>1, <2>2, <2>3, <2>4, <2>6, Zenon
  <2>7. CASE e \notin S
    BY <1>2, <2>1, <2>2, <2>3, <2>7, Zenon
  <2> QED
    BY <2>5, <2>6, <2>7
<1>3. Seq(E) \subseteq P
  <2> HIDE DEF P
  <2> QED BY <1>1, <1>2, SeqInduct
<1> QED
  BY <1>3

LEMMA OnlySame ==
  ASSUME NEW E, NEW S, NEW T, NEW s \in Seq(E), Elements(s) \cap S = Elements(s) \cap T
  PROVE  Only(s, S) = Only(s, T)
<1> DEFINE P == {t \in Seq(E) : Elements(t) \cap S = Elements(t) \cap T => Only(t, S) = Only(t, T)}
<1>1. <<>> \in P
  <2>1. <<>> \in Seq(E)
    OBVIOUS
  <2> QED BY <2>1, OnlyEmpty
<1>2. ASSUME NEW t \in Seq(E), NEW e \in E, t \in P PROVE Append(t, e) \in P
  <2>1. Append(t, e) \in Seq(E) /\ Elements(Append(t, e)) = Elements(t) \cup {e}
    BY AppendElements
  <2>2. Only(Append(t, e), S) = IF e \in S THEN Append(Only(t, S), e) ELSE Only(t, S)
    BY OnlyAppend
  <2>3. Only(Append(t, e), T) = IF e \in T THEN Append(Only(t, T), e) ELSE Only(t, T)
    BY OnlyAppend
  <2>4. ASSUME Elements(Append(t, e)) \cap S = Elements(Append(t, e)) \cap T
        PROVE  Only(Append(t, e), S) = Only(Append(t, e), T)
    <3>1. e \in S <=> e \in T
      BY <2>1, <2>4
    <3>2. Elements(t) \cap S = Elements(t) \cap T
      BY <2>1, <2>4
    <3>3. Only(t, S) = Only(t, T)
      BY <1>2, <3>2
    <3> QED
      BY <2>2, <2>3, <3>1, <3>3
  <2> QED
    BY <2>1, <2>4
<1>3. Seq(E) \subseteq P
  <2> HIDE DEF P
  <2> QED BY <1>1, <1>2, SeqInduct
<1> QED
  BY <1>3

LEMMA OnlyNone ==
  ASSUME NEW E, NEW S, NEW s \in Seq(E), Elements(s) \cap S = {}
  PROVE  Only(s, S) = <<>>
<1>1. Only(s, S) \in Seq(E) /\ Elements(Only(s, S)) = {}
  BY OnlyType, OnlyElements
<1>2. ASSUME NEW t \in Seq(E), Elements(t) = {} PROVE t = <<>>
  <2>1. 1 \notin DOMAIN t
    BY <1>2 DEF Elements
  <2> QED
    BY <2>1
<1> QED
  BY <1>1, <1>2

LEMMA OnlyConcat ==
  ASSUME NEW E, NEW S, NEW s \in Seq(E), NEW t \in Seq(E)
  PROVE  Only(s \o t, S) = Only(s, S) \o Only(t, S)
<1> DEFINE P == {u \in Seq(E) : Only(s \o u, S) = Only(s, S) \o Only(u, S)}
<1>0. Only(s, S) \in Seq(E)
  BY OnlyType
<1>1. <<>> \in P
  <2>1. <<>> \in Seq(E) /\ s \o <<>> = s /\ Only(s, S) \o <<>> = Only(s, S)
    BY <1>0
  <2> QED BY <2>1, OnlyEmpty
<1>2. ASSUME NEW u \in Seq(E), NEW e \in E, u \in P PROVE Append(u, e) \in P
  <2>1. /\ Append(u, e) \in Seq(E) /\ s \o u \in Seq(E)
        /\ s \o Append(u, e) = Append(s \o u, e)
    OBVIOUS
  <2>2. Only(Append(u, e), S) = IF e \in S THEN Append(Only(u, S), e) ELSE Only(u, S)
    BY OnlyAppend
  <2>3. Only(Append(s \o u, e), S)
          = IF e \in S THEN Append(Only(s \o u, S), e) ELSE Only(s \o u, S)
    <3>1. ASSUME NEW v \in Seq(E)
          PROVE  Only(Append(v, e), S) = IF e \in S THEN Append(Only(v, S), e) ELSE Only(v, S)
      BY OnlyAppend
    <3> QED
      BY <2>1, <3>1, Zenon
  <2>4. Only(u, S) \in Seq(E)
    BY OnlyType
  <2>5. Only(s, S) \o Append(Only(u, S), e) = Append(Only(s, S) \o Only(u, S), e)
    BY <1>0, <2>4
  <2> QED
    BY <1>2, <2>1, <2>2, <2>3, <2>5
<1>3. Seq(E) \subseteq P
  <2> HIDE DEF P
  <2> QED BY <1>1, <1>2, SeqInduct
<1> QED
  BY <1>3
=============================================================================
