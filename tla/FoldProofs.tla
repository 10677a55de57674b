----------------------------- MODULE FoldProofs -----------------------------
(***************************************************************************)
(* What the recursive functions that the library's model is built from     *)
(* compute, for every finite set and every sequence: the total of a set of *)
(* rows, the sequence that a sequence of sequences flattens to.  Induction *)
(* is over a set of numbers, since a theorem that takes a predicate cannot *)
(* be instantiated here.                                                   *)
(***************************************************************************)
EXTENDS Integers, Sequences, SequencesExt, FiniteSetTheorems, WellFoundedInduction, TLAPS

\* A set of numbers with 0 and every successor holds them all.
LEMMA Induction ==
  ASSUME NEW K, 0 \in K, \A n \in Nat : n \in K => n + 1 \in K
  PROVE  Nat \subseteq K
<1> SUFFICES ASSUME Nat \ K # {} PROVE FALSE
  OBVIOUS
<1> DEFINE R == {ss \in Nat \X Nat : ss[1] < ss[2]}
<1>1. IsWellFoundedOn(R, Nat)
  BY NatLessThanWellFounded DEF OpToRel
<1>2. PICK x \in Nat \ K : \A y \in Nat \ K : <<y, x>> \notin R
  BY <1>1, WFMin
<1>3. x # 0 /\ x - 1 \in Nat /\ <<x - 1, x>> \in R
  OBVIOUS
<1>4. x - 1 \in K
  BY <1>2, <1>3
<1>5. QED BY <1>3, <1>4

-----------------------------------------------------------------------------
(* The total of a set of rows.                                             *)

Total(S) == MapThenSumSet(LAMBDA r : r.n, S)

Summable(S) == IsFiniteSet(S) /\ \A r \in S : r.n \in Int
Pick(S) == CHOOSE x \in S : TRUE
TotalOf(f, s) == IF s = {} THEN 0 ELSE Pick(s).n + f[s \ {Pick(s)}]
Totals(S) == CHOOSE f : f = [s \in SUBSET S |-> TotalOf(f, s)]

LEMMA TotalDef == ASSUME NEW S PROVE Total(S) = Totals(S)[S]
BY DEF Total, Totals, TotalOf, Pick, MapThenSumSet, MapThenFoldSet

LEMMA PickIn == ASSUME NEW S, S # {} PROVE Pick(S) \in S
BY DEF Pick

\* Taking one element out of a finite set makes it one smaller.
LEMMA OneLess ==
  ASSUME NEW S, IsFiniteSet(S), NEW x \in S, NEW k \in Nat, Cardinality(S) = k + 1
  PROVE  IsFiniteSet(S \ {x}) /\ Cardinality(S \ {x}) = k
BY FS_RemoveElement

LEMMA FunctionInto ==
  ASSUME NEW A, NEW B, NEW f, f = [x \in A |-> f[x]], \A x \in A : f[x] \in B
  PROVE  f \in [A -> B]
OBVIOUS

\* The function that the total is read from exists.
LEMMA TotalsExist ==
  ASSUME NEW S, Summable(S)
  PROVE  /\ Totals(S) = [s \in SUBSET S |-> TotalOf(Totals(S), s)]
<1> DEFINE Small(k) == {s \in SUBSET S : Cardinality(s) <= k}
           Computed(k) == \E f \in [Small(k) -> Int] : \A s \in Small(k) : f[s] = TotalOf(f, s)
           K == {k \in Nat : Computed(k)}
<1>1. \A s \in SUBSET S : IsFiniteSet(s) /\ Cardinality(s) \in Nat /\ Cardinality(s) <= Cardinality(S)
  BY FS_Subset, FS_CardinalityType DEF Summable
<1>2. 0 \in K
  <2>1. Small(0) = {{}}
    BY <1>1, FS_EmptySet
  <2> DEFINE f == [s \in {{}} |-> 0]
  <2>2. f \in [Small(0) -> Int] /\ \A s \in Small(0) : f[s] = TotalOf(f, s)
    BY <2>1 DEF TotalOf
  <2>3. QED BY <2>2
<1>3. ASSUME NEW k \in Nat, k \in K PROVE k + 1 \in K
  <2>1. PICK f \in [Small(k) -> Int] : \A s \in Small(k) : f[s] = TotalOf(f, s)
    BY <1>3
  <2> DEFINE g == [s \in Small(k + 1) |-> TotalOf(f, s)]
  <2>2. ASSUME NEW s \in Small(k + 1), s # {}
        PROVE  Pick(s) \in S /\ s \ {Pick(s)} \in Small(k)
    <3>1. Pick(s) \in s
      BY <2>2, PickIn
    <3>2. IsFiniteSet(s) /\ Cardinality(s) \in Nat /\ Cardinality(s) <= k + 1
      BY <1>1
    <3>3. Cardinality(s \ {Pick(s)}) = Cardinality(s) - 1
      BY <3>1, <3>2, FS_RemoveElement
    <3>4. Cardinality(s \ {Pick(s)}) <= k
      BY <3>2, <3>3
    <3>5. QED BY <3>1, <3>4
  <2>3. ASSUME NEW s \in Small(k + 1) PROVE g[s] \in Int
    <3>1. CASE s = {}
      BY <3>1 DEF TotalOf
    <3>2. CASE s # {}
      <4>1. Pick(s).n \in Int /\ f[s \ {Pick(s)}] \in Int
        BY <2>2, <3>2 DEF Summable
      <4>2. QED BY <3>2, <4>1 DEF TotalOf
    <3>3. QED BY <3>1, <3>2
  <2>4. ASSUME NEW s \in Small(k) PROVE s \in Small(k + 1) /\ g[s] = f[s]
    <3>1. s \in Small(k + 1)
      BY <1>1
    <3>2. QED BY <2>1, <3>1
  <2>5. ASSUME NEW s \in Small(k + 1) PROVE g[s] = TotalOf(g, s)
    <3>1. CASE s = {}
      BY <3>1 DEF TotalOf
    <3>2. CASE s # {}
      <4>1. g[s \ {Pick(s)}] = f[s \ {Pick(s)}]
        BY <2>2, <2>4, <3>2
      <4>2. g[s] = Pick(s).n + f[s \ {Pick(s)}]
        BY <3>2 DEF TotalOf
      <4>3. QED BY <3>2, <4>1, <4>2 DEF TotalOf
    <3>3. QED BY <3>1, <3>2
  <2>6. g = [s \in Small(k + 1) |-> g[s]]
    OBVIOUS
  <2> HIDE DEF g, Small
  <2>7. g \in [Small(k + 1) -> Int]
    BY <2>3, <2>6, FunctionInto
  <2>8. Computed(k + 1)
    BY <2>5, <2>7
  <2> HIDE DEF Computed
  <2>9. QED BY <2>8
<1>4. Nat \subseteq K
  <2> HIDE DEF K
  <2>1. QED BY <1>2, <1>3, Induction
<1>5. Cardinality(S) \in K
  BY <1>1, <1>4
<1>6. Small(Cardinality(S)) = SUBSET S
  BY <1>1
<1>7. \E f : f = [s \in SUBSET S |-> TotalOf(f, s)]
  <2>1. PICK f \in [SUBSET S -> Int] : \A s \in SUBSET S : f[s] = TotalOf(f, s)
    BY <1>5, <1>6
  <2>2. f = [s \in SUBSET S |-> TotalOf(f, s)]
    BY <2>1
  <2>3. QED BY <2>2
<1>8. QED BY <1>7 DEF Totals

\* The total of the rows is the picked one and the total of the others, also
\* where it is computed on the way to the total of more rows.
LEMMA TotalsAgreeOnParts ==
  ASSUME NEW S, Summable(S), NEW T \in SUBSET S
  PROVE  Totals(S)[T] = Total(T) /\ Total(T) \in Int
<1> DEFINE Agree(k) == \A U \in SUBSET S : Cardinality(U) = k =>
                          Total(U) \in Int /\ \A V \in SUBSET S : U \subseteq V => Totals(V)[U] = Total(U)
           K == {k \in Nat : Agree(k)}
<1>1. \A U \in SUBSET S : Summable(U) /\ Cardinality(U) \in Nat
  BY FS_Subset, FS_CardinalityType DEF Summable
<1>2. ASSUME NEW U \in SUBSET S, NEW V \in SUBSET S, U \subseteq V
      PROVE  Totals(V)[U] = TotalOf(Totals(V), U)
  <2>1. Totals(V) = [s \in SUBSET V |-> TotalOf(Totals(V), s)]
    BY <1>1, TotalsExist
  <2>2. QED BY <2>1, <1>2
<1>3. 0 \in K
  <2>1. ASSUME NEW U \in SUBSET S, Cardinality(U) = 0, NEW V \in SUBSET S, U \subseteq V
        PROVE  Totals(V)[U] = 0
    <3>1. U = {}
      BY <1>1, <2>1, FS_EmptySet DEF Summable
    <3>2. QED BY <1>2, <2>1, <3>1 DEF TotalOf
  <2>2. QED BY <2>1, TotalDef
<1>4. ASSUME NEW k \in Nat, k \in K PROVE k + 1 \in K
  <2>1. ASSUME NEW U \in SUBSET S, Cardinality(U) = k + 1, NEW V \in SUBSET S, U \subseteq V
        PROVE  /\ Totals(V)[U] = Pick(U).n + Total(U \ {Pick(U)})
               /\ Pick(U).n + Total(U \ {Pick(U)}) \in Int
    <3>1. IsFiniteSet(U) /\ U # {}
      BY <1>1, <2>1, FS_EmptySet DEF Summable
    <3>2. Pick(U) \in U
      BY <3>1, PickIn
    <3>3. Cardinality(U \ {Pick(U)}) = k
      BY <2>1, <3>1, <3>2, OneLess
    <3>4. U \ {Pick(U)} \in SUBSET S /\ U \ {Pick(U)} \subseteq V
      BY <2>1
    <3>5. /\ Total(U \ {Pick(U)}) \in Int
          /\ Totals(V)[U \ {Pick(U)}] = Total(U \ {Pick(U)})
      BY <1>4, <3>3, <3>4
    <3>6. Pick(U).n \in Int
      BY <3>2 DEF Summable
    <3>7. Totals(V)[U] = Pick(U).n + Totals(V)[U \ {Pick(U)}]
      BY <1>2, <2>1, <3>1 DEF TotalOf
    <3>8. Totals(V)[U] = Pick(U).n + Total(U \ {Pick(U)})
      BY <3>5, <3>7
    <3>9. ASSUME NEW a \in Int, NEW b \in Int PROVE a + b \in Int
      OBVIOUS
    <3>10. QED BY <3>5, <3>6, <3>8, <3>9
  <2>2. ASSUME NEW U \in SUBSET S, Cardinality(U) = k + 1
        PROVE  /\ Total(U) = Pick(U).n + Total(U \ {Pick(U)})
               /\ Total(U) \in Int
    BY <2>1, <2>2, TotalDef
  <2>3. Agree(k + 1)
    BY <2>1, <2>2
  <2> HIDE DEF Agree
  <2>4. QED BY <2>3
<1>5. Nat \subseteq K
  <2> HIDE DEF K
  <2>1. QED BY <1>3, <1>4, Induction
<1>6. QED BY <1>1, <1>5

LEMMA TotalOfNone == Total({}) = 0
<1>1. Summable({})
  BY FS_EmptySet DEF Summable
<1>2. QED BY <1>1, TotalsExist, TotalDef DEF TotalOf

LEMMA TotalIsNumber == ASSUME NEW S, Summable(S) PROVE Total(S) \in Int
BY TotalsAgreeOnParts

LEMMA TotalOfPick ==
  ASSUME NEW S, Summable(S), S # {}
  PROVE  Total(S) = Pick(S).n + Total(S \ {Pick(S)})
<1>1. Totals(S) = [s \in SUBSET S |-> TotalOf(Totals(S), s)]
  BY TotalsExist
<1>2. Totals(S)[S] = Pick(S).n + Totals(S)[S \ {Pick(S)}]
  BY <1>1 DEF TotalOf
<1>3. QED BY <1>2, TotalsAgreeOnParts, TotalDef

\* Whichever row is taken out, it and the total of the others make the total: so
\* a daily count can be replaced (add_listened_seconds, ON CONFLICT DO UPDATE).
THEOREM TotalWithout ==
  ASSUME NEW S, Summable(S), NEW x \in S
  PROVE  Total(S) = x.n + Total(S \ {x})
<1> DEFINE K == {k \in Nat : \A U \in SUBSET S :
                   Cardinality(U) = k => \A y \in U : Total(U) = y.n + Total(U \ {y})}
<1>1. \A U \in SUBSET S : Summable(U) /\ IsFiniteSet(U) /\ Cardinality(U) \in Nat
  BY FS_Subset, FS_CardinalityType DEF Summable
<1>2. 0 \in K
  BY <1>1, FS_EmptySet
<1>3. ASSUME NEW k \in Nat, k \in K PROVE k + 1 \in K
  <2> SUFFICES ASSUME NEW U \in SUBSET S, Cardinality(U) = k + 1, NEW y \in U
               PROVE  Total(U) = y.n + Total(U \ {y})
    OBVIOUS
  <2> DEFINE p == Pick(U)
  <2>1. p \in U /\ Total(U) = p.n + Total(U \ {p})
    BY <1>1, PickIn, TotalOfPick
  <2>2. CASE y = p
    BY <2>1, <2>2
  <2>3. CASE y # p
    <3>1. Cardinality(U \ {p}) = k /\ Cardinality(U \ {y}) = k
      BY <1>1, <2>1, OneLess
    <3>2. y \in U \ {p} /\ p \in U \ {y} /\ U \ {p} \in SUBSET S /\ U \ {y} \in SUBSET S
      BY <2>1, <2>3
    <3>3. /\ Total(U \ {p}) = y.n + Total((U \ {p}) \ {y})
          /\ Total(U \ {y}) = p.n + Total((U \ {y}) \ {p})
      <4> HIDE DEF p
      <4>1. QED BY <1>3, <3>1, <3>2
    <3>4. (U \ {p}) \ {y} = (U \ {y}) \ {p}
      OBVIOUS
    <3>5. y.n \in Int /\ p.n \in Int
      BY <1>1, <2>1 DEF Summable
    <3>6. (U \ {y}) \ {p} \in SUBSET S
      OBVIOUS
    <3>7. Total((U \ {y}) \ {p}) \in Int
      BY <1>1, <3>6, TotalIsNumber
    <3>8. ASSUME NEW a \in Int, NEW b \in Int, NEW c \in Int PROVE a + (b + c) = b + (a + c)
      OBVIOUS
    <3>9. p.n + (y.n + Total((U \ {y}) \ {p})) = y.n + (p.n + Total((U \ {y}) \ {p}))
      BY <3>5, <3>7, <3>8
    <3>10. Total(U) = p.n + (y.n + Total((U \ {y}) \ {p}))
      BY <2>1, <3>3, <3>4
    <3>11. QED BY <3>3, <3>9, <3>10
  <2>4. QED BY <2>2, <2>3
<1>4. Nat \subseteq K
  <2> HIDE DEF K
  <2>1. QED BY <1>2, <1>3, Induction
<1>5. QED BY <1>1, <1>4

\* A new row adds its number to the total: a day's first count is inserted
\* (add_listened_seconds, INSERT INTO listened_daily).
THEOREM TotalWith ==
  ASSUME NEW S, Summable(S), NEW x, x.n \in Int, x \notin S
  PROVE  Total(S \cup {x}) = x.n + Total(S)
<1>1. Summable(S \cup {x})
  BY FS_AddElement DEF Summable
<1>2. (S \cup {x}) \ {x} = S
  OBVIOUS
<1>3. QED BY <1>1, <1>2, TotalWithout

-----------------------------------------------------------------------------
(* A sequence of sequences, one after the other.                           *)

Joined(f, ss, i) == IF i = 1 THEN ss[i] ELSE f[i - 1] \o ss[i]
Parts(ss, i) == UNION {ToSet(ss[j]) : j \in 1 .. i}

LEMMA ConcatIndex ==
  ASSUME NEW T, NEW s \in Seq(T), NEW t \in Seq(T)
  PROVE  /\ s \o t \in Seq(T) /\ Len(s \o t) = Len(s) + Len(t)
         /\ \A i \in 1 .. Len(s) + Len(t) : (s \o t)[i] = IF i <= Len(s) THEN s[i] ELSE t[i - Len(s)]
OBVIOUS

LEMMA ConcatElements ==
  ASSUME NEW T, NEW s \in Seq(T), NEW t \in Seq(T)
  PROVE  s \o t \in Seq(T) /\ ToSet(s \o t) = ToSet(s) \cup ToSet(t)
<1>1. /\ s \o t \in Seq(T) /\ Len(s \o t) = Len(s) + Len(t)
      /\ \A i \in 1 .. Len(s) + Len(t) : (s \o t)[i] = IF i <= Len(s) THEN s[i] ELSE t[i - Len(s)]
  BY ConcatIndex
<1>2. \A i \in DOMAIN s : i \in DOMAIN (s \o t) /\ (s \o t)[i] = s[i]
  BY <1>1
<1>3. ASSUME NEW i \in DOMAIN t
      PROVE  i + Len(s) \in DOMAIN (s \o t) /\ (s \o t)[i + Len(s)] = t[i]
  BY <1>1
<1>4. ASSUME NEW i \in DOMAIN (s \o t)
      PROVE  (s \o t)[i] \in ToSet(s) \cup ToSet(t)
  <2>1. CASE i <= Len(s)
    BY <1>1, <2>1 DEF ToSet
  <2>2. CASE ~(i <= Len(s))
    <3>1. i - Len(s) \in DOMAIN t /\ (s \o t)[i] = t[i - Len(s)]
      BY <1>1, <2>2
    <3>2. QED BY <3>1 DEF ToSet
  <2>3. QED BY <2>1, <2>2
<1>5. ToSet(s \o t) \subseteq ToSet(s) \cup ToSet(t)
  BY <1>4 DEF ToSet
<1>6. ToSet(s) \subseteq ToSet(s \o t)
  BY <1>2 DEF ToSet
<1>7. ToSet(t) \subseteq ToSet(s \o t)
  BY <1>3 DEF ToSet
<1>8. QED BY <1>1, <1>5, <1>6, <1>7

\* What is joined after m of them, from what is joined after k = m - 1.
LEMMA JoinStep ==
  ASSUME NEW T, NEW ss \in Seq(Seq(T)), NEW k \in Nat, NEW m, m = k + 1, m <= Len(ss), NEW f,
         k # 0 => f[k] \in Seq(T) /\ ToSet(f[k]) = Parts(ss, k)
  PROVE  /\ Joined(f, ss, m) \in Seq(T)
         /\ ToSet(Joined(f, ss, m)) = Parts(ss, m)
<1>1. ss[m] \in Seq(T)
  OBVIOUS
<1>2. CASE k = 0
  <2>1. m = 1 /\ 1 .. m = {m}
    BY <1>2
  <2>2. Joined(f, ss, m) = ss[m]
    BY <2>1 DEF Joined
  <2>3. Parts(ss, m) = ToSet(ss[m])
    BY <2>1 DEF Parts
  <2>4. QED BY <1>1, <2>2, <2>3
<1>3. CASE k # 0
  <2>1. 1 .. m = (1 .. k) \cup {m}
    BY <1>3
  <2>2. Joined(f, ss, m) = f[k] \o ss[m]
    <3>1. m # 1
      BY <1>3
    <3>2. m - 1 = k
      OBVIOUS
    <3>3. Joined(f, ss, m) = f[m - 1] \o ss[m]
      BY <3>1, Zenon DEF Joined
    <3>4. QED BY <3>2, <3>3, Zenon
  <2>3. Parts(ss, m) = Parts(ss, k) \cup ToSet(ss[m])
    BY <2>1 DEF Parts
  <2>4. f[k] \o ss[m] \in Seq(T) /\ ToSet(f[k] \o ss[m]) = ToSet(f[k]) \cup ToSet(ss[m])
    BY <1>1, <1>3, ConcatElements
  <2>5. QED BY <1>3, <2>2, <2>3, <2>4, Zenon
<1>4. QED BY <1>2, <1>3

\* FlattenSeq has the elements of every one of the sequences, and no others:
\* all_sources has every source of every new track (add_tracks).
THEOREM FlattenElements ==
  ASSUME NEW T, NEW ss \in Seq(Seq(T))
  PROVE  FlattenSeq(ss) \in Seq(T) /\ ToSet(FlattenSeq(ss)) = Parts(ss, Len(ss))
<1>1. CASE Len(ss) = 0
  <2>1. FlattenSeq(ss) = << >> /\ ss = << >>
    BY <1>1 DEF FlattenSeq
  <2>2. ToSet(<< >>) = {} /\ Parts(ss, 0) = {}
    BY DEF ToSet, Parts
  <2>3. QED BY <1>1, <2>1, <2>2
<1>2. CASE Len(ss) # 0
  <2> DEFINE n == Len(ss)
             Joins(f, k) == f = [i \in 1 .. k |-> Joined(f, ss, i)]
             K == {k \in Nat : k <= n => \E f : Joins(f, k)}
  <2>1. n \in Nat \ {0}
    BY <1>2
  <2>2. 0 \in K
    <3>1. Joins(<< >>, 0)
      OBVIOUS
    <3> HIDE DEF Joins
    <3>2. QED BY <3>1
  <2>3. ASSUME NEW k \in Nat, NEW f, Joins(f, k) PROVE \E g : Joins(g, k + 1)
    <3> DEFINE g == [i \in 1 .. k + 1 |-> Joined(f, ss, i)]
    <3>1. ASSUME NEW i \in 1 .. k + 1 PROVE Joined(f, ss, i) = Joined(g, ss, i)
      <4>1. CASE i = 1
        BY <4>1 DEF Joined
      <4>2. CASE i # 1
        <5>1. i - 1 \in 1 .. k /\ i - 1 \in 1 .. k + 1
          BY <4>2
        <5>2. g[i - 1] = f[i - 1]
          BY <2>3, <5>1
        <5>3. QED BY <4>2, <5>2 DEF Joined
      <4>3. QED BY <4>1, <4>2
    <3>2. Joins(g, k + 1)
      BY <3>1
    <3> HIDE DEF Joins, g
    <3>3. QED BY <3>2
  <2>4. Nat \subseteq K
    <3> HIDE DEF Joins
    <3>1. \A k \in Nat : k \in K => k + 1 \in K
      BY <2>1, <2>3
    <3> HIDE DEF K
    <3>2. QED BY <2>2, <3>1, Induction
  <2> DEFINE flatten == CHOOSE f : f = [i \in 1 .. n |-> IF i = 1 THEN ss[i] ELSE f[i - 1] \o ss[i]]
  <2>5. FlattenSeq(ss) = flatten[n]
    BY <1>2 DEF FlattenSeq
  <2>6. Joins(flatten, n)
    <3>1. n \in K
      BY <2>1, <2>4
    <3>2. \E f : Joins(f, n)
      <4> HIDE DEF Joins
      <4>1. QED BY <2>1, <3>1
    <3>3. QED BY <3>2 DEF Joined
  <2> HIDE DEF flatten
  <2> DEFINE Right(k) == flatten[k] \in Seq(T) /\ ToSet(flatten[k]) = Parts(ss, k)
             L == {k \in Nat : k \in 1 .. n => Right(k)}
  <2>7. ASSUME NEW k \in Nat, k # 0 => Right(k), k + 1 \in 1 .. n
        PROVE  Right(k + 1)
    <3>1. flatten[k + 1] = Joined(flatten, ss, k + 1)
      BY <2>6, <2>7
    <3>2. QED BY <2>1, <2>7, <3>1, JoinStep
  <2>8. 0 \in L
    OBVIOUS
  <2>9. ASSUME NEW k \in Nat, k \in L PROVE k + 1 \in L
    <3> HIDE DEF Right
    <3>1. QED BY <2>1, <2>7, <2>9
  <2>10. n \in L
    <3> HIDE DEF L
    <3>1. QED BY <2>1, <2>8, <2>9, Induction
  <2>11. QED BY <2>1, <2>5, <2>10
<1>3. QED BY <1>1, <1>2

-----------------------------------------------------------------------------
(* Cutting a sequence up into pieces of the same length.                   *)

LEMMA Product == ASSUME NEW a \in Nat, NEW b \in Nat PROVE a * b \in Nat
OBVIOUS

LEMMA Distribute ==
  ASSUME NEW a \in Int, NEW b \in Int, NEW c \in Int PROVE (a - b) * c = a * c - b * c
OBVIOUS

LEMMA Quotient ==
  ASSUME NEW x \in Nat, NEW b \in Nat, b > 0
  PROVE  x \div b \in Nat /\ (x \div b) * b <= x
OBVIOUS

\* The k-th piece of b elements begins within the l elements.
LEMMA PieceBegins ==
  ASSUME NEW l \in Nat, NEW b \in Nat, b > 0, NEW k \in 1 .. (l + b - 1) \div b
  PROVE  (k - 1) * b \in Nat /\ (k - 1) * b <= l
<1> DEFINE n == (l + b - 1) \div b
<1>1. l + b - 1 \in Nat
  OBVIOUS
<1>2. n \in Nat /\ n * b <= l + b - 1
  BY <1>1, Quotient
<1> HIDE DEF n
<1>3. k \in 1 .. n
  BY DEF n
<1>4. n - k \in Nat /\ k - 1 \in Nat
  BY <1>2, <1>3
<1>5. (n - k) * b \in Nat /\ (k - 1) * b \in Nat
  BY <1>4, Product
<1>6. (n - k) * b = n * b - k * b /\ (k - 1) * b = k * b - 1 * b
  BY <1>2, <1>3, Distribute
<1>7. n * b \in Int /\ k * b \in Int /\ 1 * b = b
  BY <1>2, <1>3
<1>8. QED BY <1>2, <1>5, <1>6, <1>7

\* The pieces of b elements, the last of which may be shorter, make up the l
\* elements.
LEMMA LastPieceEnds ==
  ASSUME NEW l \in Nat, NEW b \in Nat, b > 0
  PROVE  ((l + b - 1) \div b) * b >= l
<1> DEFINE x == l + b - 1
           q == x \div b
<1>1. x \in Nat
  OBVIOUS
<1> HIDE DEF x
<1>2. q \in Nat /\ x = (q * b) + (x % b) /\ x % b \in 0 .. b - 1
  BY <1>1
<1>3. q * b \in Nat
  BY <1>2, Product
<1>4. x % b <= b - 1 /\ x % b \in Int
  BY <1>2
<1> HIDE DEF q
<1>5. q * b >= l
  BY <1>2, <1>3, <1>4 DEF x
<1>6. QED BY <1>5 DEF q, x
=============================================================================
