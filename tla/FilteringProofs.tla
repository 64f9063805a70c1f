---------------------------- MODULE FilteringProofs ----------------------------
(***************************************************************************)
(* What Filtered returns, for every sequence and every set, and the two    *)
(* inductions that show it: over the natural numbers and over sequences.   *)
(* Each speaks of a set, the one of the instances proved so far, instead   *)
(* of a predicate.                                                         *)
(***************************************************************************)
EXTENDS Filtering, SequenceTheorems, WellFoundedInduction, TLAPS

(* A set of naturals that is not empty has a least element.                *)
LEMMA LeastOne ==
  ASSUME NEW T \in SUBSET Nat, T # {}
  PROVE  \E x \in T : \A y \in T : ~(y < x)
  <1> DEFINE R == OpToRel(<, Nat)
  <1>1. IsWellFoundedOn(R, Nat) BY NatLessThanWellFounded, Zenon
  <1>2. \E x \in T : \A y \in T : ~(<<y, x>> \in R)
        <2> HIDE DEF R
        <2> QED BY <1>1, WFMin
  <1>3. \A x, y \in Nat : y < x => <<y, x>> \in R BY Zenon DEF OpToRel
  <1> QED BY <1>2, <1>3

(* A set of naturals that has 0, and each number after one of its own, has *)
(* them all: what it lacks would have a least element.                     *)
LEMMA OverNaturals ==
  ASSUME NEW T \in SUBSET Nat, 0 \in T, \A n \in T : n + 1 \in T
  PROVE  T = Nat
  <1>1. SUFFICES ASSUME Nat \ T # {} PROVE FALSE OBVIOUS
  <1>2. PICK x \in Nat \ T : \A y \in Nat \ T : ~(y < x) BY <1>1, LeastOne
  <1>3. x - 1 \in Nat /\ x - 1 < x /\ (x - 1) + 1 = x BY <1>2, SMT
  <1> QED BY <1>2, <1>3

(* Appending adds the element at the end and keeps the rest.               *)
LEMMA AppendFacts ==
  ASSUME NEW E, NEW s \in Seq(E), NEW x \in E
  PROVE  /\ Append(s, x) \in Seq(E) /\ Len(Append(s, x)) = Len(s) + 1
         /\ \A i \in 1 .. Len(s) : Append(s, x)[i] = s[i]
         /\ Append(s, x)[Len(s) + 1] = x
         /\ Len(s) \in Nat
  BY AppendProperties, LenProperties

(* A sequence is its beginning with its last element appended.             *)
LEMMA LastAppended ==
  ASSUME NEW E, NEW s \in Seq(E), NEW f \in Seq(E), NEW x \in E,
         Len(s) = Len(f) + 1, s[Len(f) + 1] = x, \A i \in 1 .. Len(f) : f[i] = s[i]
  PROVE  Append(f, x) = s
  <1> DEFINE u == Append(f, x)
             n == Len(f)
  <1>1. n \in Nat BY LenProperties
  <1>2. /\ u \in Seq(E) /\ Len(u) = n + 1
        /\ (\A i \in 1 .. n : u[i] = f[i]) /\ u[n + 1] = x
        BY AppendFacts
  <1> HIDE DEF u
  <1>3. \A i \in 1 .. n : u[i] = s[i] BY <1>2
  <1>4. u[n + 1] = s[n + 1] BY <1>2
  <1>5. Len(u) = Len(s) BY <1>2
  <1> HIDE DEF n
  <1>6. \A i \in 1 .. n + 1 : i \in 1 .. n \/ i = n + 1 BY <1>1, SMT
  <1>7. \A i \in 1 .. Len(u) : u[i] = s[i] BY <1>2, <1>3, <1>4, <1>6
  <1>8. u = s BY <1>2, <1>5, <1>7, SeqEqual
  <1> QED BY <1>8 DEF u

LEMMA Beginning ==
  ASSUME NEW E, NEW s \in Seq(E), NEW n \in Nat, Len(s) = n + 1
  PROVE  \E f \in Seq(E), x \in E : Len(f) = n /\ Append(f, x) = s
  <1>1. s # <<>> BY EmptySeq, SMT
  <1>2. /\ Len(s) \in 1 .. Len(s) /\ s \in [1 .. Len(s) -> E]
        /\ \A i \in 1 .. n : i \in 1 .. Len(s)
        BY LenProperties, SMT
  <1>3. s[n + 1] \in E BY <1>2
  <1> DEFINE f == SubSeq(s, 1, n)
  <1>4. f \in Seq(E) /\ Len(f) = n /\ \A i \in 1 .. n : f[i] = s[i]
        <2>1. \A i \in 1 .. n : s[i] \in E BY <1>2
        <2>2. /\ SubSeq(s, 1, n) \in Seq(E)
              /\ Len(SubSeq(s, 1, n)) = IF 1 <= n THEN n - 1 + 1 ELSE 0
              /\ \A i \in 1 .. n - 1 + 1 : SubSeq(s, 1, n)[i] = s[1 + i - 1]
              BY <2>1, SubSeqProperties
        <2> HIDE DEF f
        <2>3. f = SubSeq(s, 1, n) BY DEF f
        <2>4. n - 1 + 1 = n /\ \A i \in 1 .. n : 1 + i - 1 = i BY SMT
        <2>5. (IF 1 <= n THEN n - 1 + 1 ELSE 0) = n BY SMT
        <2> QED BY <2>2, <2>3, <2>4, <2>5
  <1> HIDE DEF f
  <1> DEFINE x == s[n + 1]
  <1>5. /\ x \in E /\ Len(s) = Len(f) + 1 /\ s[Len(f) + 1] = x
        /\ \A i \in 1 .. Len(f) : f[i] = s[i]
        BY <1>3, <1>4
  <1> HIDE DEF x
  <1>6. Append(f, x) = s BY <1>4, <1>5, LastAppended
  <1> QED BY <1>4, <1>5, <1>6

(* The same for sequences, which are made by appending.                    *)
LEMMA OverSequences ==
  ASSUME NEW E, NEW T \in SUBSET Seq(E), <<>> \in T,
         \A s \in T : \A x \in E : Append(s, x) \in T
  PROVE  T = Seq(E)
  <1> DEFINE L == {n \in Nat : \A s \in Seq(E) : Len(s) = n => s \in T}
  <1>1. 0 \in L
        <2>1. \A s \in Seq(E) : Len(s) = 0 => s = <<>> BY EmptySeq
        <2> QED BY <2>1
  <1>2. ASSUME NEW n \in L PROVE n + 1 \in L
        <2> SUFFICES ASSUME NEW s \in Seq(E), Len(s) = n + 1 PROVE s \in T BY SMT
        <2>1. PICK f \in Seq(E), x \in E : Len(f) = n /\ Append(f, x) = s BY Beginning
        <2>2. f \in T BY <2>1
        <2> QED BY <2>1, <2>2
  <1>3. L = Nat
        <2> HIDE DEF L
        <2>1. L \in SUBSET Nat BY DEF L
        <2> QED BY <1>1, <1>2, <2>1, OverNaturals
  <1>4. \A s \in Seq(E) : Len(s) \in L BY <1>3, LenProperties
  <1> QED BY <1>4

-------------------------------------------------------------------------------
(* The function Filtered is the last value of.                             *)
TakenBy(s, S, f) ==
  f = [i \in 0 .. Len(s) |->
         IF i = 0 THEN <<>>
         ELSE IF s[i] \in S THEN Append(f[i - 1], s[i]) ELSE f[i - 1]]

(* There is one: what was taken of a sequence is continued by one step.    *)
LEMMA TakesExists ==
  ASSUME NEW E, NEW s \in Seq(E), NEW S
  PROVE  \E f : TakenBy(s, S, f)
  <1> DEFINE T == {t \in Seq(E) : \E f : TakenBy(t, S, f)}
  <1>1. <<>> \in T
        <2> DEFINE f == [i \in 0 .. 0 |-> <<>>]
        <2>1. Len(<<>>) = 0 /\ <<>> \in Seq(E) BY EmptySeq
        <2>2. \A i \in 0 .. 0 : i = 0 BY SMT
        <2>3. TakenBy(<<>>, S, f) BY <2>1, <2>2 DEF TakenBy
        <2> QED BY <2>1, <2>3
  <1>2. ASSUME NEW t \in T, NEW x \in E PROVE Append(t, x) \in T
        <2> PICK f : TakenBy(t, S, f) OBVIOUS
        <2> DEFINE u == Append(t, x)
                   n == Len(t)
                   g == [i \in 0 .. n + 1 |->
                          IF i <= n THEN f[i] ELSE IF x \in S THEN Append(f[n], x) ELSE f[n]]
        <2>1. /\ u \in Seq(E) /\ Len(u) = n + 1 /\ n \in Nat
              /\ (\A i \in 1 .. n : u[i] = t[i]) /\ u[n + 1] = x
              BY AppendProperties, LenProperties
        <2> HIDE DEF u
        <2>2. ASSUME NEW i \in 0 .. n + 1
              PROVE g[i] = IF i = 0 THEN <<>>
                           ELSE IF u[i] \in S THEN Append(g[i - 1], u[i]) ELSE g[i - 1]
              <3>1. f = [j \in 0 .. n |->
                           IF j = 0 THEN <<>>
                           ELSE IF t[j] \in S THEN Append(f[j - 1], t[j]) ELSE f[j - 1]]
                    BY DEF TakenBy
              <3>2. CASE i = 0
                    <4>1. 0 \in 0 .. n /\ 0 <= n BY <2>1, SMT
                    <4>2. f[0] = <<>> BY <3>1, <4>1
                    <4> QED BY <3>2, <4>1, <4>2
              <3>3. CASE i \in 1 .. n
                    <4>1. i \in 0 .. n /\ i # 0 /\ i <= n /\ i - 1 \in 0 .. n + 1 /\ i - 1 <= n
                          BY <2>1, <3>3, SMT
                    <4>2. f[i] = IF t[i] \in S THEN Append(f[i - 1], t[i]) ELSE f[i - 1]
                          BY <3>1, <4>1
                    <4>3. g[i] = f[i] /\ g[i - 1] = f[i - 1] BY <4>1
                    <4>4. u[i] = t[i] BY <2>1, <3>3
                    <4> HIDE DEF g
                    <4> QED BY <4>1, <4>2, <4>3, <4>4
              <3>4. CASE i = n + 1
                    <4>1. i # 0 /\ ~(i <= n) /\ i - 1 = n /\ n \in 0 .. n + 1 /\ n <= n
                          BY <2>1, <3>4, SMT
                    <4>2. g[i] = (IF x \in S THEN Append(f[n], x) ELSE f[n]) BY <4>1
                    <4>3. g[n] = f[n] BY <4>1
                    <4>4. u[i] = x BY <2>1, <3>4
                    <4> HIDE DEF g
                    <4> QED BY <4>1, <4>2, <4>3, <4>4
              <3>5. i = 0 \/ i \in 1 .. n \/ i = n + 1 BY <2>1, SMT
              <3> QED BY <3>2, <3>3, <3>4, <3>5
        <2>3. TakenBy(u, S, g)
              <3>1. g = [i \in 0 .. n + 1 |-> g[i]] OBVIOUS
              <3> HIDE DEF g
              <3> QED BY <2>1, <2>2, <3>1 DEF TakenBy
        <2> QED BY <2>1, <2>3 DEF u
  <1>3. T = Seq(E)
        <2> HIDE DEF T
        <2>1. T \in SUBSET Seq(E) BY DEF T
        <2> QED BY <1>1, <1>2, <2>1, OverSequences
  <1> QED BY <1>3

LEMMA FilteredTakes ==
  ASSUME NEW E, NEW s \in Seq(E), NEW S
  PROVE  \E f : TakenBy(s, S, f) /\ Filtered(s, S) = f[Len(s)]
  <1> DEFINE f == CHOOSE g : TakenBy(s, S, g)
  <1>1. TakenBy(s, S, f) BY TakesExists
  <1>2. Filtered(s, S) = f[Len(s)] BY DEF Filtered, TakenBy
  <1> QED BY <1>1, <1>2

(* A sequence with another behind it takes the same as far as it goes.     *)
LEMMA TakesAgree ==
  ASSUME NEW E, NEW s \in Seq(E), NEW x \in E, NEW S,
         NEW f, NEW g, TakenBy(s, S, f), TakenBy(Append(s, x), S, g)
  PROVE  \A i \in 0 .. Len(s) : f[i] = g[i]
  <1> DEFINE T == {n \in Nat : n <= Len(s) => f[n] = g[n]}
             u == Append(s, x)
  <1>1. /\ u \in Seq(E) /\ Len(u) = Len(s) + 1 /\ Len(s) \in Nat
        /\ \A i \in 1 .. Len(s) : u[i] = s[i]
        BY AppendProperties, LenProperties
  <1>2. /\ f = [i \in 0 .. Len(s) |->
                  IF i = 0 THEN <<>>
                  ELSE IF s[i] \in S THEN Append(f[i - 1], s[i]) ELSE f[i - 1]]
        /\ g = [i \in 0 .. Len(s) + 1 |->
                  IF i = 0 THEN <<>>
                  ELSE IF u[i] \in S THEN Append(g[i - 1], u[i]) ELSE g[i - 1]]
        BY <1>1 DEF TakenBy
  <1> HIDE DEF u
  <1>3. 0 \in T
        <2>1. 0 \in 0 .. Len(s) /\ 0 \in 0 .. Len(s) + 1 BY <1>1, SMT
        <2> QED BY <1>2, <2>1
  <1>4. ASSUME NEW n \in T PROVE n + 1 \in T
        <2> SUFFICES ASSUME n + 1 <= Len(s) PROVE f[n + 1] = g[n + 1] BY SMT
        <2>1. /\ n + 1 \in 0 .. Len(s) /\ n + 1 \in 0 .. Len(s) + 1 /\ n + 1 \in 1 .. Len(s)
              /\ n + 1 # 0 /\ (n + 1) - 1 = n /\ n <= Len(s)
              BY <1>1, SMT
        <2>2. f[n] = g[n] BY <2>1
        <2>3. f[n + 1] = IF s[n + 1] \in S THEN Append(f[n], s[n + 1]) ELSE f[n]
              BY <1>2, <2>1
        <2>4. g[n + 1] = IF u[n + 1] \in S THEN Append(g[n], u[n + 1]) ELSE g[n]
              BY <1>2, <2>1
        <2> QED BY <1>1, <2>1, <2>2, <2>3, <2>4
  <1>5. T = Nat
        <2> HIDE DEF T
        <2>1. T \in SUBSET Nat BY DEF T
        <2> QED BY <1>3, <1>4, <2>1, OverNaturals
  <1>6. \A i \in 0 .. Len(s) : i \in Nat /\ i <= Len(s) BY <1>1, SMT
  <1> QED BY <1>5, <1>6

-------------------------------------------------------------------------------
(* Of nothing nothing is taken, and of a longer sequence what was taken of *)
(* the shorter and the last element if it is wanted.                       *)
LEMMA FilteredEmpty == \A S : Filtered(<<>>, S) = <<>>
  <1> TAKE S
  <1>1. <<>> \in Seq({}) /\ Len(<<>>) = 0 BY EmptySeq
  <1>2. PICK f : TakenBy(<<>>, S, f) /\ Filtered(<<>>, S) = f[0] BY <1>1, FilteredTakes
  <1>3. 0 \in 0 .. 0 BY SMT
  <1> QED BY <1>1, <1>2, <1>3 DEF TakenBy

LEMMA FilteredAppend ==
  ASSUME NEW E, NEW s \in Seq(E), NEW x \in E, NEW S
  PROVE  Filtered(Append(s, x), S) =
           IF x \in S THEN Append(Filtered(s, S), x) ELSE Filtered(s, S)
  <1> DEFINE u == Append(s, x)
             n == Len(s)
  <1>1. u \in Seq(E) /\ Len(u) = n + 1 /\ n \in Nat /\ u[n + 1] = x
        BY AppendProperties, LenProperties
  <1>2. PICK f : TakenBy(s, S, f) /\ Filtered(s, S) = f[n] BY FilteredTakes
  <1>3. PICK g : TakenBy(u, S, g) /\ Filtered(u, S) = g[n + 1]
        <2> HIDE DEF u
        <2> QED BY <1>1, FilteredTakes
  <1>4. f[n] = g[n]
        <2>1. n \in 0 .. n BY <1>1, SMT
        <2> QED BY <1>2, <1>3, <2>1, TakesAgree
  <1>5. n + 1 \in 0 .. n + 1 /\ n + 1 # 0 /\ (n + 1) - 1 = n BY <1>1, SMT
  <1> HIDE DEF u
  <1>6. g[n + 1] = IF x \in S THEN Append(g[n], x) ELSE g[n]
        BY <1>1, <1>3, <1>5 DEF TakenBy
  <1> QED BY <1>2, <1>3, <1>4, <1>6 DEF u

(* What is taken are elements of both.                                     *)
LEMMA FilteredType ==
  ASSUME NEW E, NEW s \in Seq(E), NEW S
  PROVE  Filtered(s, S) \in Seq(E) /\ Filtered(s, S) \in Seq(E \cap S)
  <1> DEFINE T == {t \in Seq(E) : Filtered(t, S) \in Seq(E \cap S)}
  <1>1. <<>> \in T BY EmptySeq, FilteredEmpty
  <1>2. ASSUME NEW t \in T, NEW x \in E PROVE Append(t, x) \in T
        <2>1. Append(t, x) \in Seq(E) BY AppendProperties
        <2>2. x \in S => Append(Filtered(t, S), x) \in Seq(E \cap S) BY AppendProperties
        <2> QED BY <2>1, <2>2, FilteredAppend
  <1>3. T = Seq(E)
        <2> HIDE DEF T
        <2>1. T \in SUBSET Seq(E) BY DEF T
        <2> QED BY <1>1, <1>2, <2>1, OverSequences
  <1>4. Filtered(s, S) \in Seq(E \cap S) BY <1>3
  <1> QED BY <1>4, SeqMonotonic

(* Two sequences one behind the other give what each gives.                *)
LEMMA FilteredConcat ==
  ASSUME NEW E, NEW s \in Seq(E), NEW t \in Seq(E), NEW S
  PROVE  Filtered(s \o t, S) = Filtered(s, S) \o Filtered(t, S)
  <1> DEFINE T == {u \in Seq(E) : Filtered(s \o u, S) = Filtered(s, S) \o Filtered(u, S)}
  <1>1. <<>> \in T
        <2>1. Filtered(s, S) \in Seq(E) BY FilteredType
        <2> QED BY <2>1, EmptySeq, FilteredEmpty, ConcatEmptySeq
  <1>2. ASSUME NEW u \in T, NEW x \in E PROVE Append(u, x) \in T
        <2>1. Append(u, x) \in Seq(E) BY AppendProperties
        <2>2. s \o Append(u, x) = Append(s \o u, x) BY AppendIsConcat, ConcatAssociative, ConcatProperties
        <2>3. s \o u \in Seq(E) BY ConcatProperties
        <2>4. Filtered(s, S) \in Seq(E) /\ Filtered(u, S) \in Seq(E) BY FilteredType
        <2>5. Filtered(s, S) \o Append(Filtered(u, S), x)
                = Append(Filtered(s, S) \o Filtered(u, S), x)
              BY <2>4, AppendIsConcat, ConcatAssociative, ConcatProperties
        <2>6. /\ Filtered(Append(u, x), S)
                   = IF x \in S THEN Append(Filtered(u, S), x) ELSE Filtered(u, S)
              /\ Filtered(Append(s \o u, x), S)
                   = IF x \in S THEN Append(Filtered(s \o u, S), x) ELSE Filtered(s \o u, S)
              <3>1. u \in Seq(E) OBVIOUS
              <3>2. ASSUME NEW w \in Seq(E)
                    PROVE  Filtered(Append(w, x), S)
                             = IF x \in S THEN Append(Filtered(w, S), x) ELSE Filtered(w, S)
                    BY FilteredAppend
              <3>3. Filtered(Append(u, x), S)
                      = IF x \in S THEN Append(Filtered(u, S), x) ELSE Filtered(u, S)
                    BY <3>1, <3>2
              <3>4. Filtered(Append(s \o u, x), S)
                      = IF x \in S THEN Append(Filtered(s \o u, S), x) ELSE Filtered(s \o u, S)
                    BY <2>3, <3>2
              <3> QED BY <3>3, <3>4
        <2>7. Filtered(s \o u, S) = Filtered(s, S) \o Filtered(u, S) OBVIOUS
        <2>8. Filtered(s \o Append(u, x), S) = Filtered(s, S) \o Filtered(Append(u, x), S)
              <3>1. CASE x \in S BY <2>2, <2>5, <2>6, <2>7, <3>1, Zenon
              <3>2. CASE x \notin S BY <2>2, <2>6, <2>7, <3>2, Zenon
              <3> QED BY <3>1, <3>2
        <2> QED BY <2>1, <2>8
  <1>3. T = Seq(E)
        <2> HIDE DEF T
        <2>1. T \in SUBSET Seq(E) BY DEF T
        <2> QED BY <1>1, <1>2, <2>1, OverSequences
  <1> QED BY <1>3

Elements(s) == {s[i] : i \in 1 .. Len(s)}

LEMMA ElementsOfAppend ==
  ASSUME NEW E, NEW s \in Seq(E), NEW x \in E
  PROVE  Elements(Append(s, x)) = Elements(s) \cup {x}
  <1>1. /\ Len(s) \in Nat /\ Len(Append(s, x)) = Len(s) + 1
        /\ (\A i \in 1 .. Len(s) : Append(s, x)[i] = s[i]) /\ Append(s, x)[Len(s) + 1] = x
        BY AppendProperties, LenProperties
  <1>2. \A i : i \in 1 .. Len(s) + 1 <=> i \in 1 .. Len(s) \/ i = Len(s) + 1 BY <1>1, SMT
  <1> QED BY <1>1, <1>2 DEF Elements

(* Everything wanted is taken, and nothing else.                           *)
LEMMA FilteredElements ==
  ASSUME NEW E, NEW s \in Seq(E), NEW S
  PROVE  Elements(Filtered(s, S)) = Elements(s) \cap S
  <1> DEFINE T == {t \in Seq(E) : Elements(Filtered(t, S)) = Elements(t) \cap S}
  <1>1. <<>> \in T
        <2>1. Elements(<<>>) = {}
              <3>1. Len(<<>>) = 0 /\ 1 .. 0 = {} BY EmptySeq, SMT
              <3> QED BY <3>1 DEF Elements
        <2>2. <<>> \in Seq(E) BY EmptySeq
        <2> QED BY <2>1, <2>2, FilteredEmpty
  <1>2. ASSUME NEW t \in T, NEW x \in E PROVE Append(t, x) \in T
        <2>1. Append(t, x) \in Seq(E) BY AppendProperties
        <2>2. Elements(Append(t, x)) = Elements(t) \cup {x} BY ElementsOfAppend
        <2>3. Filtered(t, S) \in Seq(E) BY FilteredType
        <2>4. Elements(Append(Filtered(t, S), x)) = Elements(Filtered(t, S)) \cup {x}
              BY <2>3, ElementsOfAppend
        <2>7. Filtered(Append(t, x), S)
                = IF x \in S THEN Append(Filtered(t, S), x) ELSE Filtered(t, S)
              BY FilteredAppend
        <2>8. Elements(Filtered(t, S)) = Elements(t) \cap S OBVIOUS
        <2>5. CASE x \in S
              <3>1. Elements(Filtered(Append(t, x), S)) = (Elements(t) \cap S) \cup {x}
                    BY <2>4, <2>5, <2>7, <2>8, Zenon
              <3>2. (Elements(t) \cup {x}) \cap S = (Elements(t) \cap S) \cup {x} BY <2>5
              <3> QED BY <2>1, <2>2, <3>1, <3>2
        <2>6. CASE x \notin S
              <3>1. (Elements(t) \cup {x}) \cap S = Elements(t) \cap S BY <2>6
              <3> QED BY <2>1, <2>2, <2>6, <2>7, <2>8, <3>1
        <2> QED BY <2>5, <2>6
  <1>3. T = Seq(E)
        <2> HIDE DEF T
        <2>1. T \in SUBSET Seq(E) BY DEF T
        <2> QED BY <1>1, <1>2, <2>1, OverSequences
  <1> QED BY <1>3
================================================================================
