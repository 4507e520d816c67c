--------------------------- MODULE InductionFacts ---------------------------
(***************************************************************************)
(* What the proofs need by induction: facts about natural numbers beyond   *)
(* linear arithmetic, the laws of FlattenSeq, and parity.  The least       *)
(* element of a set stands in for induction: a statement that fails for    *)
(* some number fails for a least one.                                      *)
(***************************************************************************)
EXTENDS Integers, FiniteSets, Sequences, SequencesExt, TLAPS, WellFoundedInduction,
        FiniteSetTheorems, SequenceTheorems

(* A nonempty set of naturals has a least member. *)
LEMMA LeastMember ==
  ASSUME NEW S \in SUBSET Nat, S # {}
  PROVE  \E x \in S : \A y \in S : x <= y
<1> DEFINE Less == {ss \in Nat \X Nat : ss[1] < ss[2]}
<1>1. IsWellFoundedOn(Less, Nat)
  BY NatLessThanWellFounded DEF OpToRel
<1>2. \A x, y \in Nat : y < x => <<y, x>> \in Less
  OBVIOUS
<1> HIDE DEF Less
<1>3. PICK x \in S : \A y \in S : <<y, x>> \notin Less
  BY <1>1, WFMin
<1>4. \A y \in S : ~(y < x)
  BY <1>2, <1>3
<1>5. \A y \in S : x <= y
  BY <1>4
<1> QED
  BY <1>5

(* Induction, for a set in the place of a predicate. *)
LEMMA AllNaturals ==
  ASSUME NEW S \in SUBSET Nat, 0 \in S, \A n \in S : n + 1 \in S
  PROVE  Nat \subseteq S
<1>1. SUFFICES ASSUME Nat \ S # {} PROVE FALSE
  OBVIOUS
<1>2. PICK x \in Nat \ S : \A y \in Nat \ S : x <= y
  BY <1>1, LeastMember
<1>3. x # 0 /\ x - 1 \in Nat /\ (x - 1) + 1 = x
  BY <1>2
<1>4. x - 1 \in S
  BY <1>2, <1>3
<1> QED
  BY <1>2, <1>3, <1>4

(* The numbers up to n are n. *)
LEMMA CountingUp ==
  ASSUME NEW n \in Nat
  PROVE  IsFiniteSet(1 .. n) /\ Cardinality(1 .. n) = n
<1>1. 1 \in Int /\ n \in Int
  OBVIOUS
<1>2. IsFiniteSet(1 .. n) /\ Cardinality(1 .. n) = IF 1 > n THEN 0 ELSE n - 1 + 1
  BY <1>1, FS_Interval
<1> QED
  BY <1>2

-----------------------------------------------------------------------------
(* FlattenSeq of the community modules is a recursive function: what it     *)
(* makes of a longer sequence follows by induction over the length.         *)

(* Concatenation, in a form that needs no instance to be found. *)
Associates(T) == \A x, y, z \in T : (x \o y) \o z = x \o (y \o z)

LEMMA ConcatAssociates == \A S : Associates(Seq(S))
BY ConcatAssociative DEF Associates

(* One step of FlattenSeq's recursion. *)
Flattened(f, ss, i) == IF i = 1 THEN ss[i] ELSE f[i - 1] \o ss[i]

Flattens(f, ss) == f = [i \in 1 .. Len(ss) |-> Flattened(f, ss, i)]

LEMMA FlatteningExists ==
  ASSUME NEW S, NEW ss \in Seq(S)
  PROVE  \E f : Flattens(f, ss)
<1> DEFINE Defined == {k \in Nat : \E f : f = [i \in 1 .. k |-> Flattened(f, ss, i)]}
<1>1. 0 \in Defined
  <2>1. [i \in 1 .. 0 |-> 0] = [i \in 1 .. 0 |-> Flattened([j \in 1 .. 0 |-> 0], ss, i)]
    OBVIOUS
  <2> QED
    BY <2>1
<1>2. ASSUME NEW k \in Defined PROVE k + 1 \in Defined
  <2>1. PICK f : f = [i \in 1 .. k |-> Flattened(f, ss, i)]
    OBVIOUS
  <2> DEFINE g == [i \in 1 .. k + 1 |-> Flattened(f, ss, i)]
  <2>2. ASSUME NEW i \in 1 .. k + 1 PROVE Flattened(f, ss, i) = Flattened(g, ss, i)
    <3>1. CASE i = 1
      BY <3>1 DEF Flattened
    <3>2. CASE i # 1
      <4>1. i - 1 \in 1 .. k /\ i - 1 \in 1 .. k + 1
        BY <3>2
      <4>2. g[i - 1] = Flattened(f, ss, i - 1)
        BY <4>1
      <4>3. f[i - 1] = Flattened(f, ss, i - 1)
        BY <2>1, <4>1
      <4> HIDE DEF g
      <4> QED
        BY <4>2, <4>3 DEF Flattened
    <3> QED
      BY <3>1, <3>2
  <2>3. g = [i \in 1 .. k + 1 |-> Flattened(g, ss, i)]
    BY <2>2
  <2>4. \E h : h = [i \in 1 .. k + 1 |-> Flattened(h, ss, i)]
    <3> HIDE DEF g
    <3> QED
      BY <2>3
  <2> QED
    BY <2>4
<1> HIDE DEF Defined
<1>3. Nat \subseteq Defined
  <2>1. Defined \in SUBSET Nat
    BY DEF Defined
  <2> QED
    BY <1>1, <1>2, <2>1, AllNaturals
<1>4. Len(ss) \in Defined
  BY <1>3, LenProperties
<1> QED
  BY <1>4 DEF Defined, Flattens

LEMMA FlatteningFound ==
  ASSUME NEW S, NEW ss \in Seq(S), ss # <<>>
  PROVE  \E f : Flattens(f, ss) /\ FlattenSeq(ss) = f[Len(ss)]
<1> DEFINE Defines(f) ==
      f = [i \in 1 .. Len(ss) |-> IF i = 1 THEN ss[i] ELSE f[i - 1] \o ss[i]]
           flatten == CHOOSE f : Defines(f)
<1>1. \E f : Defines(f)
  BY FlatteningExists DEF Flattens, Flattened
<1>2. Len(ss) # 0
  BY EmptySeq, LenProperties
<1>3. FlattenSeq(ss) = flatten[Len(ss)]
  BY <1>2 DEF FlattenSeq
<1> HIDE DEF Defines
<1>4. Defines(flatten)
  BY <1>1
<1> HIDE DEF flatten
<1>5. Flattens(flatten, ss)
  BY <1>4 DEF Defines, Flattens, Flattened
<1> QED
  BY <1>3, <1>5

(* What is flattened so far does not depend on what follows. *)
LEMMA FlatteningUnique ==
  ASSUME NEW S, NEW ss \in Seq(S), NEW s \in S, NEW f, NEW g,
         Flattens(f, ss), Flattens(g, Append(ss, s)), ss # <<>>
  PROVE  f[Len(ss)] = g[Len(ss)]
<1> DEFINE n == Len(ss)
           tt == Append(ss, s)
<1>a. /\ tt \in Seq(S) /\ Len(tt) = n + 1 /\ n \in Nat
  BY AppendProperties, LenProperties
<1>b. \A i \in 1 .. n : ss[i] = tt[i]
  BY AppendProperties
<1>c. Flattens(f, ss) /\ Flattens(g, tt)
  OBVIOUS
<1>d. n # 0
  BY EmptySeq
<1> HIDE DEF n, tt
<1> DEFINE Same == {k \in Nat : k \in 1 .. n => f[k] = g[k]}
<1>1. 0 \in Same
  OBVIOUS
<1>2. ASSUME NEW k \in Same PROVE k + 1 \in Same
  <2>1. ASSUME k + 1 \in 1 .. n PROVE f[k + 1] = g[k + 1]
    <3>1. k + 1 \in 1 .. Len(ss) /\ k + 1 \in 1 .. Len(tt)
      BY <1>a, <2>1 DEF n
    <3>2. f[k + 1] = Flattened(f, ss, k + 1) /\ g[k + 1] = Flattened(g, tt, k + 1)
      BY <1>c, <3>1 DEF Flattens
    <3>3. ss[k + 1] = tt[k + 1]
      BY <1>b, <2>1
    <3>4. CASE k = 0
      BY <3>2, <3>3, <3>4 DEF Flattened
    <3>5. CASE k # 0
      <4>1. k \in 1 .. n /\ (k + 1) - 1 = k /\ k + 1 # 1
        BY <1>a, <2>1, <3>5
      <4>2. f[k] = g[k]
        BY <4>1
      <4> QED
        BY <3>2, <3>3, <4>1, <4>2 DEF Flattened
    <3> QED
      BY <3>4, <3>5
  <2> QED
    BY <2>1
<1> HIDE DEF Same
<1>3. Nat \subseteq Same
  <2>1. Same \in SUBSET Nat
    BY DEF Same
  <2> QED
    BY <1>1, <1>2, <2>1, AllNaturals
<1> QED
  BY <1>3, <1>a, <1>d DEF Same, n

LEMMA FlattenNothing == FlattenSeq(<<>>) = <<>>
BY DEF FlattenSeq

LEMMA FlattenAppend ==
  ASSUME NEW S, NEW ss \in Seq(Seq(S)), NEW s \in Seq(S)
  PROVE  FlattenSeq(Append(ss, s)) = FlattenSeq(ss) \o s
<1> DEFINE tt == Append(ss, s)
           T == Seq(S)
<1>0. ss \in Seq(T) /\ s \in T
  OBVIOUS
<1> HIDE DEF T
<1>1. Len(ss) \in Nat
  BY <1>0, LenProperties
<1>2. tt \in Seq(T) /\ tt # <<>>
  BY <1>0, AppendProperties
<1>3. Len(tt) = Len(ss) + 1
  BY <1>0, AppendProperties
<1>4. \A i \in 1 .. Len(ss) : ss[i] = tt[i]
  BY <1>0, AppendProperties
<1>5. tt[Len(ss) + 1] = s
  BY <1>0, AppendProperties
<1>6. FlattenSeq(Append(ss, s)) = FlattenSeq(tt)
  OBVIOUS
<1> HIDE DEF tt
<1>7. PICK g : Flattens(g, tt) /\ FlattenSeq(tt) = g[Len(tt)]
  BY <1>2, FlatteningFound
<1>8. g[Len(ss) + 1] = Flattened(g, tt, Len(ss) + 1)
  <2>1. Len(ss) + 1 \in 1 .. Len(tt)
    BY <1>1, <1>3
  <2> QED
    BY <1>7, <2>1 DEF Flattens
<1>9. CASE ss = <<>>
  <2>1. Len(ss) = 0 /\ FlattenSeq(ss) = <<>>
    BY <1>9, FlattenNothing
  <2>2. FlattenSeq(tt) = s
    BY <1>3, <1>5, <1>7, <1>8, <2>1 DEF Flattened
  <2>3. <<>> \o s = s
    BY <1>0, ConcatEmptySeq DEF T
  <2> QED
    BY <1>6, <2>1, <2>2, <2>3
<1>10. CASE ss # <<>>
  <2>1. PICK f : Flattens(f, ss) /\ FlattenSeq(ss) = f[Len(ss)]
    BY <1>0, <1>10, FlatteningFound
  <2>2. Len(ss) # 0
    BY <1>0, <1>10, EmptySeq
  <2>3. Len(ss) \in 1 .. Len(ss) /\ Len(ss) <= Len(tt)
    BY <1>1, <1>3, <2>2
  <2>4. f[Len(ss)] = g[Len(ss)]
    BY <1>0, <1>7, <1>10, <2>1, FlatteningUnique DEF tt
  <2>5. Len(ss) + 1 # 1 /\ (Len(ss) + 1) - 1 = Len(ss)
    BY <1>1, <2>2
  <2>6. FlattenSeq(tt) = g[Len(ss)] \o s
    BY <1>3, <1>5, <1>7, <1>8, <2>5 DEF Flattened
  <2> QED
    BY <1>6, <2>1, <2>3, <2>4, <2>6
<1> QED
  BY <1>9, <1>10

LEMMA FlattenType ==
  ASSUME NEW S, NEW ss \in Seq(Seq(S))
  PROVE  FlattenSeq(ss) \in Seq(S)
<1> DEFINE Flat == {k \in Nat : \A tt \in Seq(Seq(S)) : Len(tt) = k => FlattenSeq(tt) \in Seq(S)}
<1>1. 0 \in Flat
  <2>1. ASSUME NEW tt \in Seq(Seq(S)), Len(tt) = 0 PROVE FlattenSeq(tt) \in Seq(S)
    <3>1. FlattenSeq(tt) = tt
      BY <2>1 DEF FlattenSeq
    <3>2. tt = <<>>
      BY <2>1, EmptySeq
    <3> QED
      BY <3>1, <3>2, EmptySeq
  <2> QED
    BY <2>1
<1>2. ASSUME NEW k \in Flat PROVE k + 1 \in Flat
  <2>1. ASSUME NEW tt \in Seq(Seq(S)), Len(tt) = k + 1 PROVE FlattenSeq(tt) \in Seq(S)
    <3>1. PICK ff \in Seq(Seq(S)), s \in Seq(S) : tt = Append(ff, s)
      <4>1. tt # <<>>
        BY <2>1
      <4> QED
        BY <4>1, SequenceEmptyOrAppend
    <3>2. Len(ff) = k
      BY <2>1, <3>1, AppendProperties, LenProperties
    <3>3. FlattenSeq(ff) \in Seq(S)
      BY <3>2
    <3>4. FlattenSeq(tt) = FlattenSeq(ff) \o s
      BY <3>1, FlattenAppend
    <3> QED
      BY <3>3, <3>4, ConcatProperties
  <2> QED
    BY <2>1
<1> HIDE DEF Flat
<1>3. Nat \subseteq Flat
  <2>1. Flat \in SUBSET Nat
    BY DEF Flat
  <2> QED
    BY <1>1, <1>2, <2>1, AllNaturals
<1>4. Len(ss) \in Flat
  BY <1>3, LenProperties
<1> QED
  BY <1>4 DEF Flat

LEMMA FlattenConcat ==
  ASSUME NEW S, NEW ss \in Seq(Seq(S)), NEW uu \in Seq(Seq(S))
  PROVE  FlattenSeq(ss \o uu) = FlattenSeq(ss) \o FlattenSeq(uu)
<1> DEFINE Joins == {k \in Nat : \A tt \in Seq(Seq(S)) :
                       Len(tt) = k => FlattenSeq(ss \o tt) = FlattenSeq(ss) \o FlattenSeq(tt)}
<1>1. 0 \in Joins
  <2>1. ASSUME NEW tt \in Seq(Seq(S)), Len(tt) = 0
        PROVE  FlattenSeq(ss \o tt) = FlattenSeq(ss) \o FlattenSeq(tt)
    <3>1. tt = <<>>
      BY <2>1, EmptySeq
    <3>2. ss \o tt = ss
      BY <3>1, ConcatEmptySeq
    <3>3. FlattenSeq(tt) = <<>>
      BY <3>1, FlattenNothing
    <3>4. FlattenSeq(ss) \o <<>> = FlattenSeq(ss)
      BY FlattenType, ConcatEmptySeq
    <3> QED
      BY <3>2, <3>3, <3>4
  <2> QED
    BY <2>1
<1>2. ASSUME NEW k \in Joins PROVE k + 1 \in Joins
  <2>1. ASSUME NEW tt \in Seq(Seq(S)), Len(tt) = k + 1
        PROVE  FlattenSeq(ss \o tt) = FlattenSeq(ss) \o FlattenSeq(tt)
    <3>1. PICK ff \in Seq(Seq(S)), s \in Seq(S) : tt = Append(ff, s)
      <4>1. tt # <<>>
        BY <2>1
      <4> QED
        BY <4>1, SequenceEmptyOrAppend
    <3>2. Len(ff) = k
      BY <2>1, <3>1, AppendProperties, LenProperties
    <3>3. FlattenSeq(ss \o ff) = FlattenSeq(ss) \o FlattenSeq(ff)
      BY <3>2
    <3> DEFINE T == Seq(S)
    <3>a. ss \in Seq(T) /\ ff \in Seq(T) /\ s \in T /\ tt = Append(ff, s)
      BY <3>1
    <3>4. ss \o tt = Append(ss \o ff, s) /\ ss \o ff \in Seq(T)
      <4> HIDE DEF T
      <4>1. ss \o ff \in Seq(T) /\ <<s>> \in Seq(T)
        BY <3>a, ConcatProperties
      <4>2. tt = ff \o <<s>>
        BY <3>a, AppendIsConcat
      <4>3. Append(ss \o ff, s) = (ss \o ff) \o <<s>>
        BY <3>a, <4>1, AppendIsConcat
      <4>4. Associates(Seq(T))
        BY ConcatAssociates
      <4>5. (ss \o ff) \o <<s>> = ss \o (ff \o <<s>>)
        BY <3>a, <4>1, <4>4, Zenon DEF Associates
      <4> QED
        BY <4>1, <4>2, <4>3, <4>5
    <3>5. FlattenSeq(ss \o tt) = FlattenSeq(ss \o ff) \o s
      BY <3>4, FlattenAppend
    <3>6. FlattenSeq(tt) = FlattenSeq(ff) \o s
      BY <3>1, FlattenAppend
    <3>7. (FlattenSeq(ss) \o FlattenSeq(ff)) \o s = FlattenSeq(ss) \o (FlattenSeq(ff) \o s)
      <4>1. FlattenSeq(ss) \in Seq(S) /\ FlattenSeq(ff) \in Seq(S)
        BY FlattenType
      <4>2. Associates(Seq(S))
        BY ConcatAssociates
      <4> QED
        BY <4>1, <4>2, Zenon DEF Associates
    <3> QED
      BY <3>3, <3>5, <3>6, <3>7
  <2> QED
    BY <2>1
<1> HIDE DEF Joins
<1>3. Nat \subseteq Joins
  <2>1. Joins \in SUBSET Nat
    BY DEF Joins
  <2> QED
    BY <1>1, <1>2, <2>1, AllNaturals
<1>4. Len(uu) \in Joins
  BY <1>3, LenProperties
<1> QED
  BY <1>4 DEF Joins
(* What is flattened has the members of its parts, and no others. *)
LEMMA FlattenMembers ==
  ASSUME NEW S, NEW ss \in Seq(Seq(S)), NEW x
  PROVE  x \in ToSet(FlattenSeq(ss)) <=> \E i \in DOMAIN ss : x \in ToSet(ss[i])
<1> DEFINE T == Seq(S)
           Good(tt) == x \in ToSet(FlattenSeq(tt)) <=> \E i \in DOMAIN tt : x \in ToSet(tt[i])
           Holds == {k \in Nat : \A tt \in Seq(Seq(S)) : Len(tt) = k => Good(tt)}
<1>1. 0 \in Holds
  <2>1. ASSUME NEW tt \in Seq(Seq(S)), Len(tt) = 0 PROVE Good(tt)
    <3>1. tt = <<>> /\ FlattenSeq(tt) = <<>>
      BY <2>1, EmptySeq, FlattenNothing
    <3> QED
      BY <3>1 DEF ToSet
  <2> HIDE DEF Good
  <2> QED
    BY <2>1
<1>2. ASSUME NEW k \in Holds PROVE k + 1 \in Holds
  <2>1. ASSUME NEW tt \in Seq(Seq(S)), Len(tt) = k + 1 PROVE Good(tt)
    <3>1. PICK ff \in Seq(Seq(S)), s \in Seq(S) : tt = Append(ff, s)
      <4>1. tt # <<>>
        BY <2>1
      <4> QED
        BY <4>1, SequenceEmptyOrAppend
    <3>2. Len(ff) = k
      BY <2>1, <3>1, AppendProperties, LenProperties
    <3>3. Good(ff)
      <4> HIDE DEF Good
      <4> QED
        BY <3>2
    <3>4. FlattenSeq(tt) = FlattenSeq(ff) \o s
      BY <3>1, FlattenAppend
    <3>5. FlattenSeq(ff) \in Seq(S)
      BY FlattenType
    <3>6. x \in ToSet(FlattenSeq(ff) \o s) <=> x \in ToSet(FlattenSeq(ff)) \/ x \in ToSet(s)
      <4> DEFINE u == FlattenSeq(ff)
      <4>1. u \in Seq(S) /\ s \in Seq(S)
        BY <3>5
      <4> HIDE DEF u
      <4>2. ToSet(u \o s) = ToSet(u) \cup ToSet(s)
        <5>1. /\ Len(u) \in Nat /\ Len(s) \in Nat
              /\ DOMAIN u = 1 .. Len(u) /\ DOMAIN s = 1 .. Len(s)
              /\ DOMAIN (u \o s) = 1 .. Len(u) + Len(s)
          BY <4>1, ConcatProperties, LenProperties
        <5>2. \A i \in 1 .. Len(u) + Len(s) :
                (u \o s)[i] = IF i <= Len(u) THEN u[i] ELSE s[i - Len(u)]
          BY <4>1, ConcatProperties
        <5>3. \A i \in 1 .. Len(u) : i \in 1 .. Len(u) + Len(s) /\ (u \o s)[i] = u[i]
          BY <5>1, <5>2
        <5>4. \A i \in 1 .. Len(s) : Len(u) + i \in 1 .. Len(u) + Len(s) /\ (u \o s)[Len(u) + i] = s[i]
          BY <5>1, <5>2
        <5>5. \A i \in 1 .. Len(u) + Len(s) :
                \/ i \in 1 .. Len(u) /\ (u \o s)[i] = u[i]
                \/ i - Len(u) \in 1 .. Len(s) /\ (u \o s)[i] = s[i - Len(u)]
          BY <5>1, <5>2
        <5> HIDE <4>1
        <5>6. ToSet(u) \cup ToSet(s) \subseteq ToSet(u \o s)
          BY <5>1, <5>3, <5>4 DEF ToSet
        <5>7. ToSet(u \o s) \subseteq ToSet(u) \cup ToSet(s)
          BY <5>1, <5>5 DEF ToSet
        <5> QED
          BY <5>6, <5>7
      <4> QED
        BY <4>2 DEF u
    <3>7. (\E i \in DOMAIN tt : x \in ToSet(tt[i]))
            <=> (\E i \in DOMAIN ff : x \in ToSet(ff[i])) \/ x \in ToSet(s)
      <4>a. ff \in Seq(T) /\ s \in T
        OBVIOUS
      <4> HIDE DEF T
      <4>1. /\ DOMAIN ff = 1 .. Len(ff) /\ Len(ff) \in Nat /\ DOMAIN tt = 1 .. Len(ff) + 1
            /\ \A i \in 1 .. Len(ff) : tt[i] = ff[i]
            /\ tt[Len(ff) + 1] = s
        BY <3>1, <4>a, AppendProperties, LenProperties
      <4>2. \A i \in 1 .. Len(ff) + 1 : i \in 1 .. Len(ff) \/ i = Len(ff) + 1
        BY <4>1
      <4>3. ASSUME NEW i \in DOMAIN tt, x \in ToSet(tt[i])
            PROVE  (\E n \in DOMAIN ff : x \in ToSet(ff[n])) \/ x \in ToSet(s)
        <5>1. CASE i \in 1 .. Len(ff)
          <6>1. i \in DOMAIN ff /\ x \in ToSet(ff[i])
            BY <4>1, <4>3, <5>1
          <6> QED
            BY <6>1
        <5>2. CASE i = Len(ff) + 1
          BY <4>1, <4>3, <5>2
        <5> QED
          BY <4>1, <4>2, <5>1, <5>2
      <4>4. ASSUME NEW n \in DOMAIN ff, x \in ToSet(ff[n])
            PROVE  \E i \in DOMAIN tt : x \in ToSet(tt[i])
        <5>1. n \in DOMAIN tt /\ x \in ToSet(tt[n])
          BY <4>1, <4>4
        <5> QED
          BY <5>1
      <4>5. ASSUME x \in ToSet(s) PROVE \E i \in DOMAIN tt : x \in ToSet(tt[i])
        <5>1. Len(ff) + 1 \in DOMAIN tt /\ x \in ToSet(tt[Len(ff) + 1])
          BY <4>1, <4>5
        <5> QED
          BY <5>1
      <4> QED
        BY <4>3, <4>4, <4>5
    <3> QED
      BY <3>3, <3>4, <3>6, <3>7
  <2> HIDE DEF Good
  <2> QED
    BY <2>1
<1> HIDE DEF Holds
<1>3. Nat \subseteq Holds
  <2>1. Holds \in SUBSET Nat
    BY DEF Holds
  <2> QED
    BY <1>1, <1>2, <2>1, AllNaturals
<1>4. Len(ss) \in Holds
  BY <1>3, LenProperties
<1> QED
  BY <1>4 DEF Holds

-----------------------------------------------------------------------------
(* Odd and even: of two sets apart, and of a set that is moved up.         *)

IsOdd(S) == Cardinality(S) % 2 = 1

LEMMA OddSum ==
  ASSUME NEW a \in Nat, NEW b \in Nat
  PROVE  (a + b) % 2 = 1 <=> ~(a % 2 = 1 <=> b % 2 = 1)
OBVIOUS

LEMMA OddNothing == ~IsOdd({})
<1>1. Cardinality({}) = 0
  BY FS_EmptySet
<1> QED
  BY <1>1 DEF IsOdd

LEMMA OddOne == \A x : IsOdd({x})
<1>1. ASSUME NEW x PROVE IsOdd({x})
  <2>1. Cardinality({x}) = 1
    BY FS_Singleton
  <2> QED
    BY <2>1 DEF IsOdd
<1> QED
  BY <1>1

LEMMA OddUnion ==
  ASSUME NEW S, NEW T, IsFiniteSet(S), IsFiniteSet(T), S \cap T = {}
  PROVE  IsOdd(S \cup T) <=> ~(IsOdd(S) <=> IsOdd(T))
<1>1. Cardinality(S) \in Nat /\ Cardinality(T) \in Nat
  BY FS_CardinalityType
<1>2. Cardinality(S \cup T) = Cardinality(S) + Cardinality(T) - Cardinality(S \cap T)
  BY FS_Union
<1>3. Cardinality(S \cap T) = 0
  BY FS_EmptySet
<1>4. Cardinality(S \cup T) = Cardinality(S) + Cardinality(T)
  BY <1>1, <1>2, <1>3
<1> QED
  BY <1>1, <1>4, OddSum DEF IsOdd

LEMMA NumbersAreFinite ==
  ASSUME NEW n \in Nat, NEW S \in SUBSET (1 .. n)
  PROVE  IsFiniteSet(S)
BY CountingUp, FS_Subset

LEMMA OddShift ==
  ASSUME NEW n \in Nat, NEW m \in Nat, NEW S \in SUBSET (1 .. m)
  PROVE  /\ IsFiniteSet({n + j : j \in S})
         /\ IsOdd({n + j : j \in S}) <=> IsOdd(S)
<1> DEFINE T == {n + j : j \in S}
           shift == [j \in S |-> n + j]
<1>1. IsFiniteSet(S)
  BY NumbersAreFinite
<1>2. shift \in [S -> T] /\ \A i, j \in S : shift[i] = shift[j] => i = j
  OBVIOUS
<1>3. \A t \in T : \E j \in S : shift[j] = t
  OBVIOUS
<1>4. shift \in Bijection(S, T)
  <2> HIDE DEF shift, T
  <2> QED
    BY <1>2, <1>3 DEF Bijection, Injection, Surjection, IsInjective
<1>5. ExistsBijection(S, T)
  <2> HIDE DEF T, shift
  <2> QED
    BY <1>4 DEF ExistsBijection
<1> HIDE DEF T
<1>6. IsFiniteSet(T) /\ Cardinality(T) = Cardinality(S)
  BY <1>1, <1>5, FS_Bijection
<1> QED
  BY <1>6 DEF IsOdd, T

=============================================================================
