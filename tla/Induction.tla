------------------------------ MODULE Induction ------------------------------
(***************************************************************************)
(* Induction over the naturals, for a property that is given as a set: the *)
(* principle that the proofs about recursive functions rest on; and, by    *)
(* it, what is left of a list when the members of a set are taken out.     *)
(***************************************************************************)
EXTENDS Naturals, Sequences, WellFoundedInduction, TLAPS

Below == {pair \in Nat \X Nat : pair[1] < pair[2]}

\* Numbers do not descend for ever, so that a set of them has a least one.
LEMMA LeastNumber ==
  ASSUME NEW T, T \subseteq Nat, T # {}
  PROVE  \E x \in T : \A y \in T : x =< y
<1>1. IsWellFoundedOn(Below, Nat)
  BY NatLessThanWellFounded DEF Below, OpToRel
<1>2. PICK x \in T : \A y \in T : ~ (<<y, x>> \in Below)
  BY <1>1, WFMin
<1>3. ASSUME NEW y \in T PROVE x =< y
  <2>1. x \in Nat /\ y \in Nat
    OBVIOUS
  <2>2. y < x => <<y, x>> \in Below
    BY <2>1 DEF Below
  <2> QED
    BY <1>2, <2>1, <2>2
<1> QED
  BY <1>3

\* A set that has 0, and n + 1 with every n, has every number.
LEMMA SetInduction ==
  ASSUME NEW S, 0 \in S, \A n \in Nat : n \in S => n + 1 \in S
  PROVE  \A n \in Nat : n \in S
<1> SUFFICES ASSUME NEW m \in Nat, m \notin S PROVE FALSE
  OBVIOUS
<1> DEFINE T == {n \in Nat : n \notin S}
<1>1. T \subseteq Nat /\ T # {}
  OBVIOUS
<1> HIDE DEF T
<1>2. PICK n \in T : \A k \in T : n =< k
  BY <1>1, LeastNumber
<1>3. n \in Nat /\ n \notin S /\ \A k \in Nat : k < n => k \in S
  BY <1>2 DEF T
<1>4. n # 0 /\ n - 1 \in Nat /\ n - 1 < n /\ (n - 1) + 1 = n
  BY <1>3
<1> QED
  BY <1>3, <1>4

-----------------------------------------------------------------------------
\* f[m] is what is left of the first m elements of the list without those in
\* out.
IsFilter(list, out, f, n) ==
  f = [m \in 0 .. n |-> IF m = 0 THEN <<>>
                        ELSE IF list[m] \in out THEN f[m - 1]
                        ELSE Append(f[m - 1], list[m])]

\* There is such a function.
LEMMA FilterExists ==
  ASSUME NEW list, NEW out
  PROVE  \A n \in Nat : \E f : IsFilter(list, out, f, n)
<1> DEFINE S == {n \in Nat : \E f : IsFilter(list, out, f, n)}
<1>1. 0 \in S
  <2>1. IsFilter(list, out, [m \in 0 .. 0 |-> <<>>], 0)
    BY DEF IsFilter
  <2> QED
    BY <2>1
<1>2. ASSUME NEW n \in Nat, n \in S PROVE n + 1 \in S
  <2>1. PICK f : IsFilter(list, out, f, n)
    BY <1>2
  <2> DEFINE more == [m \in 0 .. n + 1 |->
                        IF m = 0 THEN <<>>
                        ELSE IF list[m] \in out THEN f[m - 1]
                        ELSE Append(f[m - 1], list[m])]
  <2>2. ASSUME NEW m \in 0 .. n PROVE more[m] = f[m]
    <3>1. f[m] = IF m = 0 THEN <<>>
                 ELSE IF list[m] \in out THEN f[m - 1]
                 ELSE Append(f[m - 1], list[m])
      BY <2>1, Zenon DEF IsFilter
    <3>2. m \in 0 .. n + 1
      OBVIOUS
    <3> QED
      BY <3>1, <3>2, Zenon
  <2>3. ASSUME NEW m \in 0 .. n + 1, m # 0 PROVE more[m - 1] = f[m - 1]
    <3>1. m - 1 \in 0 .. n
      BY <2>3
    <3> QED
      BY ONLY <2>2, <3>1
  <2>4. IsFilter(list, out, more, n + 1)
    BY <2>3 DEF IsFilter
  <2> HIDE DEF more
  <2> QED
    BY <2>4
<1> HIDE DEF S
<1>3. \A n \in Nat : n \in S
  BY <1>1, <1>2, SetInduction
<1> QED
  BY <1>3 DEF S

\* It keeps every element that is not in out, and adds none.
LEMMA FilterKeeps ==
  ASSUME NEW T, NEW list \in Seq(T), NEW out, NEW f, IsFilter(list, out, f, Len(list))
  PROVE  /\ f[Len(list)] \in Seq(T)
         /\ Len(f[Len(list)]) =< Len(list)
         /\ \A i \in 1 .. Len(list) : list[i] \notin out =>
              \E j \in 1 .. Len(f[Len(list)]) : f[Len(list)][j] = list[i]
<1> DEFINE Kept(n) ==
             /\ f[n] \in Seq(T) /\ Len(f[n]) =< n
             /\ \A i \in 1 .. n : list[i] \notin out =>
                  \E j \in 1 .. Len(f[n]) : f[n][j] = list[i]
           S == {n \in Nat : n =< Len(list) => Kept(n)}
<1>0. Len(list) \in Nat
  OBVIOUS
<1>1. 0 \in S
  <2>1. f[0] = <<>>
    BY <1>0 DEF IsFilter
  <2>2. f[0] \in Seq(T) /\ Len(f[0]) =< 0
    BY <2>1
  <2> QED
    BY <2>2
<1>2. ASSUME NEW n \in Nat, n \in S PROVE n + 1 \in S
  <2> SUFFICES ASSUME n + 1 =< Len(list) PROVE Kept(n + 1)
    OBVIOUS
  <2>1. Kept(n)
    BY <1>0, <1>2
  <2>2. f[n + 1] = IF list[n + 1] \in out THEN f[n] ELSE Append(f[n], list[n + 1])
    <3>1. n + 1 \in 0 .. Len(list) /\ n + 1 # 0 /\ (n + 1) - 1 = n
      BY <1>0
    <3> QED
      BY <3>1 DEF IsFilter
  <2>3. list[n + 1] \in T
    BY <1>0
  <2> HIDE DEF S
  <2>4. CASE list[n + 1] \in out
    BY <2>1, <2>2, <2>4
  <2>5. CASE list[n + 1] \notin out
    <3>1. f[n + 1] = Append(f[n], list[n + 1])
      BY <2>2, <2>5
    <3>2. /\ f[n + 1] \in Seq(T) /\ Len(f[n + 1]) = Len(f[n]) + 1
          /\ f[n + 1][Len(f[n]) + 1] = list[n + 1]
          /\ \A j \in 1 .. Len(f[n]) : f[n + 1][j] = f[n][j]
          /\ Len(f[n]) \in Nat
      BY <2>1, <2>3, <3>1
    <3>3. ASSUME NEW i \in 1 .. n + 1, list[i] \notin out
          PROVE  \E j \in 1 .. Len(f[n + 1]) : f[n + 1][j] = list[i]
      <4>1. CASE i = n + 1
        BY <3>2, <4>1
      <4>2. CASE i # n + 1
        <5>1. i \in 1 .. n
          BY <4>2
        <5>2. PICK j \in 1 .. Len(f[n]) : f[n][j] = list[i]
          BY <2>1, <3>3, <5>1
        <5>3. j \in 1 .. Len(f[n + 1]) /\ f[n + 1][j] = list[i]
          BY <3>2, <5>2
        <5> QED
          BY <5>3
      <4> QED
        BY <4>1, <4>2
    <3>4. Len(f[n + 1]) =< n + 1
      BY <2>1, <3>2
    <3> QED
      BY <3>2, <3>3, <3>4
  <2> QED
    BY <2>4, <2>5
<1> HIDE DEF S
<1>3. \A n \in Nat : n \in S
  BY <1>1, <1>2, SetInduction
<1> QED
  BY <1>0, <1>3 DEF S

\* A first element that is not in out stays the first, and what follows it in
\* what is left followed it before.
LEMMA FilterKeepsFirst ==
  ASSUME NEW T, NEW list \in Seq(T), NEW out, NEW f, IsFilter(list, out, f, Len(list)),
         list # <<>>, list[1] \notin out
  PROVE  /\ f[Len(list)][1] = list[1]
         /\ \A j \in 2 .. Len(f[Len(list)]) :
              \E i \in 2 .. Len(list) : f[Len(list)][j] = list[i]
<1> DEFINE Kept(n) ==
             /\ f[n] \in Seq(T) /\ Len(f[n]) >= 1 /\ f[n][1] = list[1]
             /\ \A j \in 2 .. Len(f[n]) : \E i \in 2 .. n : f[n][j] = list[i]
           S == {n \in Nat : n + 1 =< Len(list) => Kept(n + 1)}
<1>0. Len(list) \in Nat /\ Len(list) >= 1
  OBVIOUS
<1>1. ASSUME NEW n \in 1 .. Len(list)
      PROVE  f[n] = IF list[n] \in out THEN f[n - 1] ELSE Append(f[n - 1], list[n])
  <2>1. n \in 0 .. Len(list) /\ n # 0
    BY <1>0
  <2> QED
    BY <2>1 DEF IsFilter
<1>2. 0 \in S
  <2>1. f[0] = <<>>
    BY <1>0 DEF IsFilter
  <2>2. f[1] = Append(<<>>, list[1])
    <3>1. 1 \in 1 .. Len(list) /\ 1 - 1 = 0
      BY <1>0
    <3> QED
      BY <1>1, <2>1, <3>1
  <2>3. list[1] \in T
    BY <1>0
  <2>4. f[1] \in Seq(T) /\ Len(f[1]) = 1 /\ f[1][1] = list[1]
    BY <2>2, <2>3
  <2>5. Kept(1) /\ 0 + 1 = 1
    BY <2>4
  <2> HIDE DEF Kept
  <2> QED
    BY <2>5
<1>3. ASSUME NEW n \in Nat, n \in S PROVE n + 1 \in S
  <2> SUFFICES ASSUME (n + 1) + 1 =< Len(list) PROVE Kept((n + 1) + 1)
    OBVIOUS
  <2> DEFINE m == (n + 1) + 1
  <2>1. Kept(n + 1)
    BY <1>0, <1>3
  <2>2. m \in 2 .. Len(list) /\ m \in 1 .. Len(list) /\ m - 1 = n + 1
    BY <1>0
  <2>3. f[m] = IF list[m] \in out THEN f[n + 1] ELSE Append(f[n + 1], list[m])
    BY <1>1, <2>2
  <2>4. list[m] \in T
    BY <1>0, <2>2
  <2> HIDE DEF S
  <2>5. CASE list[m] \in out
    BY <2>1, <2>2, <2>3, <2>5
  <2>6. CASE list[m] \notin out
    <3>1. /\ f[m] \in Seq(T) /\ Len(f[m]) = Len(f[n + 1]) + 1
          /\ f[m][Len(f[n + 1]) + 1] = list[m]
          /\ \A j \in 1 .. Len(f[n + 1]) : f[m][j] = f[n + 1][j]
          /\ Len(f[n + 1]) \in Nat
      BY <2>1, <2>3, <2>4, <2>6
    <3>2. ASSUME NEW j \in 2 .. Len(f[m]) PROVE \E i \in 2 .. m : f[m][j] = list[i]
      <4>1. CASE j = Len(f[n + 1]) + 1
        BY <2>2, <3>1, <4>1
      <4>2. CASE j # Len(f[n + 1]) + 1
        <5>1. j \in 2 .. Len(f[n + 1]) /\ j \in 1 .. Len(f[n + 1])
          BY <3>1, <4>2
        <5>2. PICK i \in 2 .. n + 1 : f[n + 1][j] = list[i]
          BY <2>1, <5>1
        <5> QED
          BY <3>1, <5>1, <5>2
      <4> QED
        BY <4>1, <4>2
    <3>3. f[m][1] = list[1] /\ Len(f[m]) >= 1
      BY <2>1, <3>1
    <3> QED
      BY <3>1, <3>2, <3>3
  <2> QED
    BY <2>5, <2>6
<1> HIDE DEF S, Kept
<1>4. \A n \in Nat : n \in S
  BY <1>2, <1>3, SetInduction
<1>5. Len(list) - 1 \in Nat /\ (Len(list) - 1) + 1 = Len(list)
  BY <1>0
<1>6. Kept((Len(list) - 1) + 1)
  BY <1>0, <1>4, <1>5 DEF S
<1> QED
  BY <1>5, <1>6 DEF Kept
=============================================================================
