---------------------------- MODULE Launch_proofs ----------------------------
(***************************************************************************)
(* Proofs about Launch, Sandbox and Plist, for any number of launches,     *)
(* archives and changes of the directory, for paths of any length and      *)
(* documents of any shape.                                                 *)
(***************************************************************************)
EXTENDS Launch, Plist, SequenceTheorems, FiniteSetTheorems, WellFoundedInduction, TLAPS

(* Induction and recursion over 0 .. n, with sets and functions in the place
   of predicates and operators. *)

\* A set of numbers has a least one.
LEMMA LeastExists ==
  ASSUME NEW S, S \subseteq Nat, S # {}
  PROVE  \E m \in S : \A x \in S : m <= x
<1> DEFINE R == OpToRel(<, Nat)
<1>1. IsWellFoundedOn(R, Nat)
  BY NatLessThanWellFounded
<1>2. PICK m \in S : \A y \in S : ~ (<<y, m>> \in R)
  <2> HIDE DEF R
  <2> QED BY <1>1, WFMin
<1>3. \A x \in S : m <= x
  <2> SUFFICES ASSUME NEW x \in S PROVE m <= x
    OBVIOUS
  <2>1. ~ (x < m)
    BY <1>2 DEF OpToRel
  <2> QED BY <2>1
<1> QED BY <1>3

\* A bounded set of numbers has a largest one.
LEMMA MaxExists ==
  ASSUME NEW n \in Nat, NEW S, S \subseteq 0 .. n, S # {}
  PROVE  Max(S) \in S /\ \A x \in S : x <= Max(S)
<1> DEFINE T == {n - x : x \in S}
<1>1. T \subseteq Nat /\ T # {}
  OBVIOUS
<1>2. PICK t \in T : \A x \in T : t <= x
  <2> HIDE DEF T
  <2> QED BY <1>1, LeastExists
<1>3. PICK m \in S : t = n - m
  OBVIOUS
<1>4. \A x \in S : x <= m
  <2> SUFFICES ASSUME NEW x \in S PROVE x <= m
    OBVIOUS
  <2>1. t <= n - x
    BY <1>2
  <2> QED BY <2>1, <1>3
<1>5. \E x \in S : \A y \in S : x >= y
  BY <1>4
<1> QED BY <1>5 DEF Max

\* What holds at 0 and is handed on holds up to n.
LEMMA Climb ==
  ASSUME NEW n \in Nat, NEW S, 0 \in S, \A k \in 1 .. n : k - 1 \in S => k \in S
  PROVE  0 .. n \subseteq S
<1> DEFINE T == (0 .. n) \ S
<1> SUFFICES ASSUME T # {} PROVE FALSE
  OBVIOUS
<1>1. PICK m \in T : \A x \in T : m <= x
  <2>1. T \subseteq Nat
    OBVIOUS
  <2> HIDE DEF T
  <2> QED BY <2>1, LeastExists
<1>2. m # 0 /\ m \in 1 .. n
  OBVIOUS
<1>3. m - 1 \notin T
  BY <1>1, <1>2
<1> QED BY <1>2, <1>3

\* A step function can be iterated n times.
Iterable(n, X, a, step) ==
  \E g \in [0 .. n -> X] : g[0] = a /\ \A k \in 1 .. n : g[k] = step[k][g[k - 1]]
LEMMA Iterates ==
  ASSUME NEW n \in Nat, NEW X, NEW a \in X, NEW step \in [1 .. n -> [X -> X]]
  PROVE  Iterable(n, X, a, step)
<1> DEFINE Up(m, g) == g[0] = a /\ \A k \in 1 .. m : g[k] = step[k][g[k - 1]]
           S == {m \in 0 .. n : \E g \in [0 .. m -> X] : Up(m, g)}
<1>1. 0 \in S
  <2> DEFINE g == [k \in 0 .. 0 |-> a]
  <2>1. g \in [0 .. 0 -> X] /\ g[0] = a /\ 1 .. 0 = {}
    OBVIOUS
  <2>2. Up(0, g)
    <3> HIDE DEF g
    <3> QED BY <2>1
  <2> HIDE DEF g, Up
  <2> QED BY <2>1, <2>2
<1>2. ASSUME NEW k \in 1 .. n, k - 1 \in S PROVE k \in S
  <2>1. PICK f \in [0 .. k - 1 -> X] : Up(k - 1, f)
    BY <1>2
  <2> DEFINE g == [i \in 0 .. k |-> IF i = k THEN step[k][f[k - 1]] ELSE f[i]]
  <2>2. f[k - 1] \in X
    OBVIOUS
  <2>3. g \in [0 .. k -> X] /\ g[k] = step[k][f[k - 1]] /\ \A i \in 0 .. k - 1 : g[i] = f[i]
    BY <2>2
  <2> HIDE DEF g
  <2>4. g[0] = a
    BY <2>1, <2>3
  <2>5. ASSUME NEW i \in 1 .. k PROVE g[i] = step[i][g[i - 1]]
    <3>1. g[i - 1] = f[i - 1]
      BY <2>3
    <3>2. CASE i = k
      BY <3>1, <3>2, <2>3
    <3>3. CASE i # k
      <4>1. i \in 1 .. k - 1 /\ g[i] = f[i]
        BY <3>3, <2>3
      <4> QED BY <3>1, <4>1, <2>1
    <3> QED BY <3>2, <3>3
  <2>6. Up(k, g)
    BY <2>4, <2>5
  <2> HIDE DEF Up
  <2> QED BY <2>3, <2>6
<1>3. n \in S
  <2> HIDE DEF S
  <2>1. 0 .. n \subseteq S
    BY <1>1, <1>2, Climb
  <2> QED BY <2>1
<1> QED BY <1>3 DEF Iterable

-----------------------------------------------------------------------------
(* The loops over the components of a path *)

\* The provers take the empty string from here.
LEMMA EmptyName == Empty # "." /\ Empty # ".." /\ Empty # Blank
BY Zenon DEF Empty, Blank

Accs == [ok : BOOLEAN, out : Seq(Component)]

\* One component keeps the type, and what is not refused moves the clean path
\* by at most one name.
LEMMA PushType ==
  ASSUME NEW acc \in Accs, NEW c \in Component
  PROVE  PushComponent(acc, c) \in Accs
<1>1. acc.ok \in BOOLEAN /\ acc.out \in Seq(Component)
  BY DEF Accs
<1>2. Append(acc.out, c) \in Seq(Component)
  BY <1>1, AppendProperties
<1>3. ASSUME acc.out # << >> PROVE Front(acc.out) \in Seq(Component)
  <2>1. \A i \in 1 .. Len(acc.out) - 1 : acc.out[i] \in Component
    BY <1>1
  <2>2. Len(acc.out) - 1 \in Int
    BY <1>1
  <2> QED BY <2>1, <2>2, SubSeqProperties DEF Front
<1>4. Bad \in Accs
  BY DEF Bad, Accs
<1>5. \A s \in Seq(Component) : [acc EXCEPT !.out = s] \in Accs
  BY DEF Accs
<1> QED BY <1>2, <1>3, <1>4, <1>5 DEF PushComponent

\* normalize_ios_path component by component: the loop is what its body says.
LEMMA NormalizedLoop ==
  ASSUME NEW path \in Seq(Component)
  PROVE  /\ Normalized(path) \in [0 .. Len(path) -> Accs]
         /\ Normalized(path)[0] = [ok |-> TRUE, out |-> << >>]
         /\ \A k \in 1 .. Len(path) :
              Normalized(path)[k] = PushComponent(Normalized(path)[k - 1], path[k])
<1> DEFINE n == Len(path)
           a == [ok |-> TRUE, out |-> << >>]
           E(f) == f = [k \in 0 .. Len(path) |->
                          IF k = 0 THEN [ok |-> TRUE, out |-> << >>]
                          ELSE PushComponent(f[k - 1], path[k])]
           step == [k \in 1 .. n |-> [x \in Accs |-> PushComponent(x, path[k])]]
<1>1. n \in Nat /\ a \in Accs /\ \A k \in 1 .. n : path[k] \in Component
  BY DEF Accs
<1>2. step \in [1 .. n -> [Accs -> Accs]]
  BY <1>1, PushType
<1>3. \A k \in 1 .. n, x \in Accs : step[k][x] = PushComponent(x, path[k])
  OBVIOUS
<1>4. PICK g \in [0 .. n -> Accs] : g[0] = a /\ \A k \in 1 .. n : g[k] = step[k][g[k - 1]]
  <2> HIDE DEF n, a, step
  <2>1. Iterable(n, Accs, a, step)
    BY <1>1, <1>2, Iterates
  <2> QED BY <2>1 DEF Iterable
<1>5. ASSUME NEW k \in 1 .. n PROVE g[k] = PushComponent(g[k - 1], path[k])
  <2>1. k - 1 \in 0 .. n
    OBVIOUS
  <2>2. g[k - 1] \in Accs
    BY <2>1
  <2> QED BY <1>3, <1>4, <2>2, Zenon
<1>6. E(g)
  BY <1>1, <1>4, <1>5
<1>7. Normalized(path) = CHOOSE f : E(f)
  BY Zenon DEF Normalized
<1>8. E(Normalized(path))
  <2> HIDE DEF E
  <2> QED BY <1>6, <1>7, Zenon
<1> DEFINE N == Normalized(path)
<1>9. N = [k \in 0 .. n |-> IF k = 0 THEN a ELSE PushComponent(N[k - 1], path[k])]
  BY <1>8
<1> HIDE DEF N
<1>10. DOMAIN N = 0 .. n /\ N[0] = a /\ \A k \in 1 .. n : N[k] = PushComponent(N[k - 1], path[k])
  <2> HIDE DEF a, n
  <2>1. DOMAIN N = 0 .. n
    BY <1>9
  <2>2. N[0] = a
    BY <1>1, <1>9
  <2>3. ASSUME NEW k \in 1 .. n PROVE N[k] = PushComponent(N[k - 1], path[k])
    <3>1. k \in 0 .. n /\ k # 0
      BY <1>1
    <3> QED BY <1>9, <3>1
  <2> QED BY <2>1, <2>2, <2>3
<1>11. \A k \in 0 .. n : N[k] \in Accs
  <2> DEFINE S == {k \in 0 .. n : N[k] \in Accs}
  <2> HIDE DEF a, n
  <2>1. 0 \in S
    BY <1>1, <1>10
  <2>2. ASSUME NEW k \in 1 .. n, k - 1 \in S PROVE k \in S
    <3>1. PushComponent(N[k - 1], path[k]) \in Accs
      BY <1>1, <2>2, PushType
    <3>2. N[k] \in Accs
      BY <1>10, <3>1
    <3> QED BY <1>1, <3>2
  <2>3. 0 .. n \subseteq S
    <3> HIDE DEF S
    <3> QED BY <1>1, <2>1, <2>2, Climb
  <2> QED BY <2>3
<1>12. N \in [0 .. n -> Accs]
  BY <1>9, <1>11
<1> QED BY <1>10, <1>12 DEF N

\* The depth of the walk moves with each component.
Moves(path, n) ==
  /\ path[n] \in {Empty, "."} => Depth(path, n) = Depth(path, n - 1)
  /\ path[n] = ".." => Depth(path, n) = Depth(path, n - 1) - 1
  /\ path[n] \notin {Empty, ".", ".."} => Depth(path, n) = Depth(path, n - 1) + 1
LEMMA DepthStep ==
  ASSUME NEW path \in Seq(Component)
  PROVE  /\ Depth(path, 0) = 0
         /\ \A q \in 0 .. Len(path) : Depth(path, q) \in Int
         /\ \A q \in 1 .. Len(path) : Moves(path, q)
<1>1. ASSUME NEW q \in 0 .. Len(path)
      PROVE  /\ IsFiniteSet(Names(path, q)) /\ Cardinality(Names(path, q)) \in Nat
             /\ IsFiniteSet(Ups(path, q)) /\ Cardinality(Ups(path, q)) \in Nat
  <2>1. IsFiniteSet(1 .. q)
    BY FS_Interval
  <2>2. Names(path, q) \in SUBSET (1 .. q) /\ Ups(path, q) \in SUBSET (1 .. q)
    BY DEF Names, Ups
  <2>3. IsFiniteSet(Names(path, q)) /\ IsFiniteSet(Ups(path, q))
    BY <2>1, <2>2, FS_Subset
  <2> QED BY <2>3, FS_CardinalityType
<1>2. Depth(path, 0) = 0
  <2>1. Names(path, 0) = {} /\ Ups(path, 0) = {}
    BY DEF Names, Ups
  <2>2. Cardinality(Names(path, 0)) = 0 /\ Cardinality(Ups(path, 0)) = 0
    BY <2>1, FS_EmptySet, Zenon
  <2> QED BY <2>2 DEF Depth
<1>3. \A q \in 0 .. Len(path) : Depth(path, q) \in Int
  BY <1>1 DEF Depth
<1>4. ASSUME NEW q \in 1 .. Len(path)
      PROVE  Moves(path, q)
  <2> DEFINE A == Names(path, q - 1)
             B == Ups(path, q - 1)
  <2>1. q - 1 \in 0 .. Len(path)
    OBVIOUS
  <2>2. /\ IsFiniteSet(A) /\ Cardinality(A) \in Nat
        /\ IsFiniteSet(B) /\ Cardinality(B) \in Nat
    BY <1>1, <2>1
  <2>3. q \notin A /\ q \notin B
    BY DEF Names, Ups
  <2>4. /\ Cardinality(A \cup {q}) = Cardinality(A) + 1
        /\ Cardinality(B \cup {q}) = Cardinality(B) + 1
    <3> HIDE DEF A, B
    <3>1. Cardinality(A \cup {q}) = Cardinality(A) + 1
      BY <2>2, <2>3, FS_AddElement
    <3>2. Cardinality(B \cup {q}) = Cardinality(B) + 1
      BY <2>2, <2>3, FS_AddElement
    <3> QED BY <3>1, <3>2
  <2>5. CASE path[q] \in {Empty, "."}
    <3>1. Names(path, q) = A /\ Ups(path, q) = B
      BY <2>5, EmptyName DEF Names, Ups
    <3> QED BY <3>1, <2>2, <2>5, EmptyName DEF Depth, Moves
  <2>6. CASE path[q] = ".."
    <3>1. Names(path, q) = A /\ Ups(path, q) = B \cup {q}
      BY <2>6 DEF Names, Ups
    <3> QED BY <3>1, <2>2, <2>4, <2>6, EmptyName DEF Depth, Moves
  <2>7. CASE path[q] \notin {Empty, ".", ".."}
    <3>1. Names(path, q) = A \cup {q} /\ Ups(path, q) = B
      BY <2>7 DEF Names, Ups
    <3> QED BY <3>1, <2>2, <2>4, <2>7 DEF Depth, Moves
  <2> QED BY <2>5, <2>6, <2>7
<1> QED BY <1>2, <1>3, <1>4

\* What the loop holds after q components is what the reference says of them.
Resolved(path, q, acc) ==
  /\ acc.ok <=> \A j \in 1 .. q : Depth(path, j) >= 0 /\ path[j] \notin NulNames
  /\ acc.ok =>
       /\ Len(acc.out) = Depth(path, q)
       /\ \A d \in 1 .. Depth(path, q) :
            acc.out[d] = path[Max({i \in Names(path, q) : Depth(path, i) = d})]

LEMMA ResolvedStep ==
  ASSUME NEW path \in Seq(Component), NEW q \in 1 .. Len(path), NEW acc \in Accs,
         Resolved(path, q - 1, acc)
  PROVE  Resolved(path, q, PushComponent(acc, path[q]))
<1> DEFINE new == PushComponent(acc, path[q])
           h == Depth(path, q - 1)
           At1(n, d) == {i \in Names(path, n) : Depth(path, i) = d}
<1>1. acc.ok \in BOOLEAN /\ acc.out \in Seq(Component) /\ path[q] \in Component
  BY DEF Accs
<1>2. /\ h \in Int /\ Depth(path, q) \in Int
      /\ path[q] \in {Empty, "."} => Depth(path, q) = h
      /\ path[q] = ".." => Depth(path, q) = h - 1
      /\ path[q] \notin {Empty, ".", ".."} => Depth(path, q) = h + 1
  <2>1. q - 1 \in 0 .. Len(path) /\ q \in 0 .. Len(path)
    OBVIOUS
  <2> QED BY <2>1, DepthStep DEF Moves
<1>3. \A j \in 1 .. q : j \in 1 .. q - 1 \/ j = q
  OBVIOUS
<1>4. CASE ~ acc.ok
  <2>1. new = acc
    BY <1>4 DEF PushComponent
  <2>2. ~ \A j \in 1 .. q - 1 : Depth(path, j) >= 0 /\ path[j] \notin NulNames
    BY <1>4 DEF Resolved
  <2> QED BY <1>4, <2>1, <2>2 DEF Resolved
<1>5. CASE acc.ok
  <2>1. /\ \A j \in 1 .. q - 1 : Depth(path, j) >= 0 /\ path[j] \notin NulNames
        /\ Len(acc.out) = h
        /\ \A d \in 1 .. h : acc.out[d] = path[Max(At1(q - 1, d))]
    BY <1>5 DEF Resolved
  <2>2. h >= 0
    BY <1>1, <2>1
  <2>3. CASE path[q] \in {Empty, "."}
    <3>1. new = acc
      BY <2>3, EmptyName, NamesAssumption DEF PushComponent
    <3>2. Depth(path, q) = h /\ path[q] \notin NulNames
      BY <1>2, <2>3, NamesAssumption
    <3>3. \A d : At1(q, d) = At1(q - 1, d)
      BY <2>3 DEF Names
    <3>4. \A j \in 1 .. q : Depth(path, j) >= 0 /\ path[j] \notin NulNames
      BY <1>3, <2>1, <2>2, <3>2
    <3> QED BY <1>5, <2>1, <3>1, <3>2, <3>3, <3>4 DEF Resolved
  <2>4. CASE path[q] = ".." /\ acc.out = << >>
    <3>1. new = Bad
      BY <1>5, <2>4, EmptyName, NamesAssumption DEF PushComponent
    <3>2. Depth(path, q) = -1
      BY <1>2, <2>1, <2>4
    <3>3. ~ \A j \in 1 .. q : Depth(path, j) >= 0 /\ path[j] \notin NulNames
      BY <3>2
    <3> QED BY <3>1, <3>3 DEF Resolved, Bad
  <2>5. CASE path[q] = ".." /\ acc.out # << >>
    <3>1. new = [acc EXCEPT !.out = Front(acc.out)]
      BY <1>5, <2>5, EmptyName, NamesAssumption DEF PushComponent
    <3>2. Depth(path, q) = h - 1 /\ path[q] \notin NulNames /\ h > 0
      BY <1>1, <1>2, <2>1, <2>5, NamesAssumption, EmptyName
    <3>3. \A i \in 1 .. h - 1 : acc.out[i] \in Component
      BY <1>1, <1>2, <2>1
    <3>4. /\ Len(Front(acc.out)) = h - 1
          /\ \A i \in 1 .. h - 1 : Front(acc.out)[i] = acc.out[i]
      <4>1. h - 1 \in Int /\ 1 <= h
        BY <1>2, <3>2
      <4> HIDE DEF h
      <4> QED BY <2>1, <3>3, <4>1, SubSeqProperties DEF Front
    <3>5. new.ok = acc.ok /\ new.out = Front(acc.out)
      BY <3>1 DEF Accs
    <3>6. \A d : At1(q, d) = At1(q - 1, d)
      BY <2>5 DEF Names
    <3>7. \A j \in 1 .. q : Depth(path, j) >= 0 /\ path[j] \notin NulNames
      <4>1. Depth(path, q) >= 0
        BY <1>2, <3>2
      <4> QED BY <1>3, <2>1, <3>2, <4>1
    <3>8. \A d \in 1 .. Depth(path, q) : new.out[d] = path[Max(At1(q, d))]
      <4> SUFFICES ASSUME NEW d \in 1 .. h - 1 PROVE new.out[d] = path[Max(At1(q, d))]
        BY <3>2
      <4>1. d \in 1 .. h
        BY <1>2
      <4> QED BY <2>1, <3>4, <3>5, <3>6, <4>1
    <3> QED BY <1>5, <3>2, <3>4, <3>5, <3>7, <3>8 DEF Resolved
  <2>6. CASE path[q] \notin {Empty, ".", ".."} /\ path[q] \in NulNames
    <3>1. new = Bad
      BY <1>5, <2>6 DEF PushComponent
    <3> QED BY <2>6, <3>1 DEF Resolved, Bad
  <2>7. CASE path[q] \notin {Empty, ".", ".."} /\ path[q] \notin NulNames
    <3>1. new = [acc EXCEPT !.out = Append(acc.out, path[q])]
      BY <1>5, <2>7 DEF PushComponent
    <3>2. Depth(path, q) = h + 1
      BY <1>2, <2>7
    <3>3. new.ok = acc.ok /\ new.out = Append(acc.out, path[q])
      BY <3>1 DEF Accs
    <3>4. /\ Len(new.out) = h + 1 /\ new.out[h + 1] = path[q]
          /\ \A i \in 1 .. h : new.out[i] = acc.out[i]
      BY <1>1, <2>1, <3>3, AppendProperties
    <3>5. \A d \in 1 .. h : At1(q, d) = At1(q - 1, d)
      BY <1>2, <3>2 DEF Names
    <3>6. Max(At1(q, h + 1)) = q
      <4>1. q \in At1(q, h + 1) /\ At1(q, h + 1) \subseteq 0 .. q /\ q \in Nat
        BY <2>7, <3>2 DEF Names
      <4>2. Max(At1(q, h + 1)) \in At1(q, h + 1) /\ q <= Max(At1(q, h + 1))
        <5> HIDE DEF At1
        <5> QED BY <4>1, MaxExists
      <4> QED BY <4>1, <4>2
    <3>7. \A j \in 1 .. q : Depth(path, j) >= 0 /\ path[j] \notin NulNames
      BY <1>2, <1>3, <2>1, <2>2, <2>7, <3>2
    <3>8. \A d \in 1 .. Depth(path, q) : new.out[d] = path[Max(At1(q, d))]
      <4> SUFFICES ASSUME NEW d \in 1 .. h + 1 PROVE new.out[d] = path[Max(At1(q, d))]
        BY <3>2
      <4>1. CASE d = h + 1
        BY <3>4, <3>6, <4>1
      <4>2. CASE d # h + 1
        <5>1. d \in 1 .. h
          BY <1>2, <4>2
        <5> QED BY <2>1, <3>4, <3>5, <5>1
      <4> QED BY <4>1, <4>2
    <3> QED BY <1>5, <3>2, <3>3, <3>4, <3>7, <3>8 DEF Resolved
  <2> QED BY <2>3, <2>4, <2>5, <2>6, <2>7
<1> QED BY <1>1, <1>4, <1>5

\* A function on 1 .. n is a sequence.
LEMMA FcnIsSeq ==
  ASSUME NEW n \in Nat, NEW S, NEW f \in [1 .. n -> S]
  PROVE  f \in Seq(S) /\ Len(f) = n /\ DOMAIN f = 1 .. n
<1>1. f \in Seq(S)
  BY SeqDef
<1> QED BY <1>1, LenProperties

\* normalize_ios_path answers exactly the paths that stay below their start and
\* hold no NUL, and its answer is what the reference keeps of them.
LEMMA NormalizeExact ==
  ASSUME NEW path \in Seq(Component)
  PROVE  /\ NormalizeIosPath(path) \in Accs
         /\ NormalizeIosPath(path).ok <=>
              path # EmptyString /\ NeverAbove(path) /\ Range(path) \cap NulNames = {}
         /\ NormalizeIosPath(path).ok => NormalizeIosPath(path).out = Kept(path)
<1> DEFINE n == Len(path)
           N == Normalized(path)
           S == {k \in 0 .. n : Resolved(path, k, N[k])}
<1>1. n \in Nat /\ DOMAIN path = 1 .. n
  OBVIOUS
<1>2. /\ N \in [0 .. n -> Accs] /\ N[0] = [ok |-> TRUE, out |-> << >>]
      /\ \A k \in 1 .. n : N[k] = PushComponent(N[k - 1], path[k])
  BY NormalizedLoop
<1>3. 0 \in S
  <2>1. Depth(path, 0) = 0
    BY DepthStep
  <2>2. N[0].ok = TRUE /\ N[0].out = << >>
    BY <1>2
  <2>3. Resolved(path, 0, N[0])
    <3> HIDE DEF N
    <3> QED BY <2>1, <2>2 DEF Resolved
  <2> QED BY <1>1, <2>3
<1>4. ASSUME NEW q \in 1 .. n, q - 1 \in S PROVE q \in S
  <2>1. Resolved(path, q - 1, N[q - 1])
    BY <1>4
  <2>2. N[q - 1] \in Accs /\ N[q] = PushComponent(N[q - 1], path[q])
    <3> HIDE DEF N, n
    <3> QED BY <1>1, <1>2
  <2>3. Resolved(path, q, N[q])
    <3> HIDE DEF N
    <3> QED BY <2>1, <2>2, ResolvedStep
  <2> QED BY <1>1, <2>3
<1>5. n \in S
  <2> HIDE DEF S, n
  <2>1. 0 .. n \subseteq S
    BY <1>1, <1>3, <1>4, Climb
  <2> QED BY <1>1, <2>1
<1>6. N[n] \in Accs /\ Resolved(path, n, N[n])
  <2> HIDE DEF N
  <2> QED BY <1>1, <1>2, <1>5
<1> HIDE DEF N
<1>7. N[n].ok <=> NeverAbove(path) /\ Range(path) \cap NulNames = {}
  <2>1. N[n].ok <=> \A j \in 1 .. n : Depth(path, j) >= 0 /\ path[j] \notin NulNames
    BY <1>6 DEF Resolved
  <2>2. NeverAbove(path) <=> \A j \in 1 .. n : Depth(path, j) >= 0
    BY <1>1 DEF NeverAbove
  <2>3. Range(path) \cap NulNames = {} <=> \A j \in 1 .. n : path[j] \notin NulNames
    BY <1>1 DEF Range
  <2> QED BY <2>1, <2>2, <2>3
<1>8. ASSUME N[n].ok PROVE N[n].out = Kept(path)
  <2> DEFINE out == N[n].out
             h == Depth(path, n)
  <2>1. out \in Seq(Component) /\ Len(out) = h
    BY <1>6, <1>8 DEF Resolved, Accs
  <2>2. \A d \in 1 .. h : out[d] = path[Max({k \in Names(path, n) : Depth(path, k) = d})]
    BY <1>6, <1>8 DEF Resolved
  <2>3. out = [d \in 1 .. h |-> out[d]]
    <3> HIDE DEF out, h
    <3> QED BY <2>1
  <2>4. Kept(path) = [d \in 1 .. h |-> path[Max({k \in Names(path, n) : Depth(path, k) = d})]]
    BY Zenon DEF Kept
  <2> HIDE DEF out, h
  <2> QED BY <2>2, <2>3, <2>4 DEF out
<1>9. CASE path = EmptyString
  BY <1>9 DEF NormalizeIosPath, Bad, Accs
<1>10. CASE path # EmptyString
  <2>1. NormalizeIosPath(path) = N[n]
    BY <1>10 DEF NormalizeIosPath, N
  <2> QED BY <1>6, <1>7, <1>8, <1>10, <2>1
<1> QED BY <1>9, <1>10

\* What it answers are plain names, whatever it was given.
LEMMA NormalizePlain ==
  ASSUME NEW path \in Seq(Component)
  PROVE  NormalizeIosPath(path).out \in Seq(PlainNames)
<1> DEFINE n == Len(path)
           N == Normalized(path)
           S == {k \in 0 .. n : N[k].out \in Seq(PlainNames)}
<1>1. n \in Nat /\ \A k \in 1 .. n : path[k] \in Component
  OBVIOUS
<1>2. /\ N \in [0 .. n -> Accs] /\ N[0] = [ok |-> TRUE, out |-> << >>]
      /\ \A k \in 1 .. n : N[k] = PushComponent(N[k - 1], path[k])
  BY NormalizedLoop
<1> HIDE DEF N
<1>3. << >> \in Seq(PlainNames)
  BY EmptySeq
<1>4. 0 \in S
  <2>1. N[0].out = << >> /\ 0 \in 0 .. n
    BY <1>1, <1>2
  <2>2. N[0].out \in Seq(PlainNames)
    BY <1>3, <2>1, Zenon
  <2> HIDE DEF n
  <2> QED BY <2>1, <2>2
<1>5. ASSUME NEW k \in 1 .. n, k - 1 \in S PROVE k \in S
  <2> DEFINE acc == N[k - 1]
  <2>1. acc \in Accs /\ acc.out \in Seq(PlainNames) /\ path[k] \in Component
    BY <1>1, <1>2, <1>5
  <2>2. N[k] = PushComponent(acc, path[k])
    BY <1>2
  <2> HIDE DEF acc
  <2>3. Bad.out \in Seq(PlainNames)
    BY <1>3 DEF Bad
  <2>4. \A s : [acc EXCEPT !.out = s].out = s
    BY <2>1 DEF Accs
  <2>5. path[k] \in PlainNames => Append(acc.out, path[k]) \in Seq(PlainNames)
    BY <2>1, AppendProperties
  <2>6. acc.out # << >> => Front(acc.out) \in Seq(PlainNames)
    <3>1. \A i \in 1 .. Len(acc.out) - 1 : acc.out[i] \in PlainNames
      BY <2>1
    <3>2. Len(acc.out) - 1 \in Int
      BY <2>1
    <3> QED BY <3>1, <3>2, SubSeqProperties DEF Front
  <2>7. PushComponent(acc, path[k]).out \in Seq(PlainNames)
    <3>1. CASE ~ acc.ok \/ path[k] \in {Empty, "."}
      BY <2>1, <3>1, EmptyName, NamesAssumption DEF PushComponent
    <3>2. CASE acc.ok /\ path[k] = ".."
      BY <2>3, <2>4, <2>6, <3>2, EmptyName, NamesAssumption DEF PushComponent
    <3>3. CASE acc.ok /\ path[k] \in NulNames
      BY <2>3, <3>3, EmptyName, NamesAssumption DEF PushComponent
    <3>4. CASE acc.ok /\ path[k] \notin {Empty, ".", ".."} \cup NulNames
      <4>1. path[k] \in PlainNames
        BY <2>1, <3>4 DEF PlainNames
      <4>2. PushComponent(acc, path[k]) = [acc EXCEPT !.out = Append(acc.out, path[k])]
        BY <3>4 DEF PushComponent
      <4> QED BY <2>4, <2>5, <4>1, <4>2
    <3> QED BY <3>1, <3>2, <3>3, <3>4
  <2> QED BY <1>1, <2>2, <2>7
<1>6. n \in S
  <2> HIDE DEF S, n
  <2>1. 0 .. n \subseteq S
    BY <1>1, <1>4, <1>5, Climb
  <2> QED BY <1>1, <2>1
<1> QED BY <1>3, <1>6 DEF NormalizeIosPath, Bad, N

-----------------------------------------------------------------------------
(* Sandbox::translate *)

\* The prefix of a container is a path.
LEMMA PrefixType ==
  ASSUME NEW uuid \in Component
  PROVE  IosPrefix(uuid) \in Seq(Component)
<1>1. \A a, b, c, d, e \in Component : <<a, b, c, d, e>> \in Seq(Component)
  OBVIOUS
<1>2. {Empty, "var", "mobile", "Applications"} \subseteq Component
  BY NamesAssumption
<1> QED BY <1>1, <1>2 DEF IosPrefix

\* The trimmed path and the absolute one are paths again.
LEMMA AbsoluteType ==
  ASSUME NEW uuid \in Component, NEW app, BundleName(app) \in Component,
         NEW path \in Seq(Component)
  PROVE  Absolute(uuid, app, path) \in Seq(Component)
<1>1. Trim(path) \in Seq(Component)
  <2>1. Len(path) \in Nat /\ DOMAIN path = 1 .. Len(path)
    OBVIOUS
  <2>2. \A i \in 1 .. Len(path) : path[i] \in Component
    OBVIOUS
  <2>3. Trim(path) \in [1 .. Len(path) -> Component]
    BY <2>1, <2>2, NamesAssumption DEF Trim
  <2> QED BY <2>1, <2>3, FcnIsSeq
<1>2. BundleIosPath(uuid, app) \in Seq(Component)
  <2>1. IosPrefix(uuid) \in Seq(Component)
    BY PrefixType
  <2>2. <<BundleName(app)>> \in Seq(Component)
    OBVIOUS
  <2> QED BY <2>1, <2>2, ConcatProperties DEF BundleIosPath
<1>3. BundleIosPath(uuid, app) \o Trim(path) \in Seq(Component)
  BY <1>1, <1>2, ConcatProperties
<1> QED BY <1>1, <1>3 DEF Absolute

\* What strip_prefix_dir leaves is a path.
LEMMA RestType ==
  ASSUME NEW prefix, Len(prefix) \in Nat, NEW path \in Seq(Component)
  PROVE  RestAfter(prefix, path) \in Seq(Component)
<1>1. EmptyString \in Seq(Component)
  BY NamesAssumption DEF EmptyString
<1>2. Len(path) \in Nat /\ \A i \in Len(prefix) + 1 .. Len(path) : path[i] \in Component
  OBVIOUS
<1>3. SubSeq(path, Len(prefix) + 1, Len(path)) \in Seq(Component)
  BY <1>2, SubSeqProperties
<1> QED BY <1>1, <1>3 DEF RestAfter

\* join_checked against the reference.
LEMMA JoinExact ==
  ASSUME NEW base, NEW rest \in Seq(Component), NEW ro
  PROVE  IF rest # EmptyString /\ Resolvable(rest)
         THEN JoinChecked(base, rest, ro)
                = [ok |-> TRUE, read_only |-> ro, host |-> base \o Kept(rest)]
         ELSE ~ JoinChecked(base, rest, ro).ok
<1>1. /\ NormalizeIosPath(rest).ok <=>
           rest # EmptyString /\ NeverAbove(rest) /\ Range(rest) \cap NulNames = {}
      /\ NormalizeIosPath(rest).ok => NormalizeIosPath(rest).out = Kept(rest)
  BY NormalizeExact
<1> QED BY <1>1 DEF JoinChecked, Refused, Resolvable

\* What it means to be a prefix, name by name.
LEMMA PrefixIs ==
  ASSUME NEW S, NEW s \in Seq(S), NEW t \in Seq(S)
  PROVE  IsPrefix(s, t) <=> Len(s) <= Len(t) /\ \A i \in 1 .. Len(s) : s[i] = t[i]
<1>1. Len(s) \in Nat /\ Len(t) \in Nat /\ SubSeq(s, 1, Len(s)) = s
  BY LenProperties, SubSeqFull
<1>2. ASSUME Len(s) <= Len(t)
      PROVE  SubSeq(t, 1, Len(s)) = s <=> \A i \in 1 .. Len(s) : s[i] = t[i]
  <2>1. \A i \in 1 .. Len(s) : t[i] \in S
    BY <1>1, <1>2, ElementOfSeq
  <2>2. /\ SubSeq(t, 1, Len(s)) \in Seq(S) /\ Len(SubSeq(t, 1, Len(s))) = Len(s)
        /\ \A i \in 1 .. Len(s) : SubSeq(t, 1, Len(s))[i] = t[i]
    BY <1>1, <2>1, SubSeqProperties
  <2>3. (\A i \in 1 .. Len(s) : s[i] = t[i]) => SubSeq(t, 1, Len(s)) = s
    BY <2>2, SeqEqual
  <2> QED BY <2>2, <2>3
<1> QED BY <1>1, <1>2 DEF IsPrefix

\* What a path below the mounts must be translated to.
Agrees(uuid, app, path) ==
  LET got == Translate(uuid, app, path)
      abs == Absolute(uuid, app, path)
      in == MountsOf(uuid, abs)
  IN  IF in = {} THEN IsPrefix(ApplicationsTree, abs) \/ ~ got.ok
      ELSE \E m \in in :
             LET rest == RestAfter(m.at, abs) IN
             rest # EmptyString =>
               IF Resolvable(rest)
               THEN /\ got.ok /\ got.host = m.root \o Kept(rest)
                    /\ ~ IsPrefix(SandboxLayout(uuid, app)[1], got.host) =>
                         got.read_only = m.read_only
               ELSE ~ got.ok

\* translate and the reference agree on every path of every container.
LEMMA TranslateResolves ==
  ASSUME NEW uuid \in Component, NEW app, BundleName(app) \in Component,
         NEW path \in Seq(Component)
  PROVE  Agrees(uuid, app, path)
<1> DEFINE abs == Absolute(uuid, app, path)
           got == Translate(uuid, app, path)
           in == MountsOf(uuid, abs)
           trees == {t \in ReadOnlyTrees : IsPrefix(t, abs)}
           Good(m) ==
             LET rest == RestAfter(m.at, abs) IN
             rest # EmptyString =>
               IF Resolvable(rest)
               THEN /\ got.ok /\ got.host = m.root \o Kept(rest)
                    /\ got.read_only = m.read_only
               ELSE ~ got.ok
<1>1. abs \in Seq(Component)
  BY AbsoluteType
<1>2. /\ Len(IosPrefix(uuid)) \in Nat
      /\ \A t \in ReadOnlyTrees : Len(t) \in Nat
  BY DEF IosPrefix, ReadOnlyTrees
<1>a. ASSUME IF in = {} THEN IsPrefix(ApplicationsTree, abs) \/ ~ got.ok ELSE \E m \in in : Good(m)
      PROVE  Agrees(uuid, app, path)
  BY <1>a, Zenon DEF Agrees
<1> HIDE DEF abs
<1>3. CASE IsPrefix(IosPrefix(uuid), abs)
  <2> DEFINE m == [at |-> IosPrefix(uuid), root |-> HostRoot(uuid), read_only |-> FALSE]
  <2>1. m \in in
    BY <1>3 DEF Mounts, MountsOf
  <2>2. got = JoinChecked(HostRoot(uuid), RestAfter(IosPrefix(uuid), abs), FALSE)
    BY <1>3 DEF Translate, abs
  <2>3. RestAfter(IosPrefix(uuid), abs) \in Seq(Component)
    BY <1>1, <1>2, RestType
  <2> DEFINE rest == RestAfter(IosPrefix(uuid), abs)
  <2>5. IF rest # EmptyString /\ Resolvable(rest)
        THEN got = [ok |-> TRUE, read_only |-> FALSE, host |-> HostRoot(uuid) \o Kept(rest)]
        ELSE ~ got.ok
    BY <2>2, <2>3, JoinExact
  <2>6. m.at = IosPrefix(uuid) /\ m.root = HostRoot(uuid) /\ m.read_only = FALSE
    OBVIOUS
  <2>7. IF rest # EmptyString /\ Resolvable(rest)
        THEN got.ok /\ got.host = HostRoot(uuid) \o Kept(rest) /\ got.read_only = FALSE
        ELSE ~ got.ok
    <3> HIDE DEF got, rest
    <3> QED BY <2>5
  <2>4. Good(m)
    <3> HIDE DEF got, m
    <3> QED BY <2>6, <2>7, Zenon
  <2> HIDE DEF got, in, m, Good
  <2> QED BY <1>a, <2>1, <2>4
<1>4. CASE ~ IsPrefix(IosPrefix(uuid), abs) /\ trees = {}
  <2>1. got = Refused
    BY <1>4 DEF Translate, abs
  <2>2. in = {}
    BY <1>4 DEF Mounts, MountsOf
  <2>3. ~ got.ok
    BY <2>1 DEF Refused
  <2> HIDE DEF got, in, Good
  <2> QED BY <1>a, <2>2, <2>3
<1>5. CASE ~ IsPrefix(IosPrefix(uuid), abs) /\ trees # {}
  <2> DEFINE t == CHOOSE x \in trees : TRUE
             m == [at |-> t, root |-> SystemRoot \o Tail(t), read_only |-> TRUE]
  <2>1. t \in ReadOnlyTrees /\ IsPrefix(t, abs)
    BY <1>5
  <2>2. got = JoinChecked(SystemRoot \o Tail(t), RestAfter(t, abs), TRUE)
    BY <1>5 DEF Translate, abs
  <2> HIDE DEF t
  <2>3. CASE t # ApplicationsTree
    <3>1. m \in in
      BY <2>1, <2>3 DEF Mounts, MountsOf
    <3>2. RestAfter(t, abs) \in Seq(Component)
      BY <1>1, <1>2, <2>1, RestType
    <3> DEFINE rest == RestAfter(t, abs)
    <3>4. IF rest # EmptyString /\ Resolvable(rest)
          THEN got = [ok |-> TRUE, read_only |-> TRUE,
                      host |-> (SystemRoot \o Tail(t)) \o Kept(rest)]
          ELSE ~ got.ok
      BY <2>2, <3>2, JoinExact
    <3>5. m.at = t /\ m.root = SystemRoot \o Tail(t) /\ m.read_only = TRUE
      OBVIOUS
    <3>6. IF rest # EmptyString /\ Resolvable(rest)
          THEN got.ok /\ got.host = (SystemRoot \o Tail(t)) \o Kept(rest) /\ got.read_only = TRUE
          ELSE ~ got.ok
      <4> HIDE DEF got, rest
      <4> QED BY <3>4
    <3>3. Good(m)
      <4> HIDE DEF got, m
      <4> QED BY <3>5, <3>6, Zenon
    <3> HIDE DEF got, in, m, Good
    <3> QED BY <1>a, <3>1, <3>3
  <2>4. CASE t = ApplicationsTree
    <3>1. IsPrefix(ApplicationsTree, abs)
      BY <2>1, <2>4
    <3>2. in = {}
      <4> SUFFICES ASSUME NEW u \in ReadOnlyTrees \ {ApplicationsTree}, IsPrefix(u, abs)
                   PROVE  FALSE
        BY <1>5 DEF Mounts, MountsOf
      <4>1. \A r \in ReadOnlyTrees : r \in Seq(Component) /\ Len(r) >= 2
        <5>1. /\ \A a, b \in Component : <<a, b>> \in Seq(Component) /\ Len(<<a, b>>) >= 2
              /\ \A a, b, c, d \in Component :
                   <<a, b, c, d>> \in Seq(Component) /\ Len(<<a, b, c, d>>) >= 2
          OBVIOUS
        <5>2. {Empty, "var", "Applications", "System", "usr", "Library", "private", "db"}
                \subseteq Component
          BY NamesAssumption
        <5>3. /\ Empty \in Component /\ "var" \in Component /\ "Applications" \in Component
              /\ "System" \in Component /\ "usr" \in Component /\ "Library" \in Component
              /\ "private" \in Component /\ "db" \in Component
          BY <5>2
        <5> DEFINE Tree(r) == r \in Seq(Component) /\ Len(r) >= 2
        <5>4. /\ Tree(<<Empty, "System">>) /\ Tree(<<Empty, "usr">>) /\ Tree(<<Empty, "Library">>)
              /\ Tree(<<Empty, "Applications">>)
          BY <5>1, <5>3, Zenon
        <5>5. Tree(<<Empty, "private", "var", "db">>)
          BY <5>1, <5>3, Zenon
        <5> HIDE DEF Tree
        <5>6. \A r \in ReadOnlyTrees : Tree(r)
          BY <5>4, <5>5, Zenon DEF ReadOnlyTrees
        <5> QED BY <5>6 DEF Tree
      <4>2. abs[2] = "Applications"
        <5>1. /\ ApplicationsTree \in Seq(Component) /\ Len(ApplicationsTree) = 2
              /\ ApplicationsTree[2] = "Applications"
          BY NamesAssumption DEF ApplicationsTree
        <5> HIDE DEF abs
        <5> QED BY <1>1, <3>1, <5>1, PrefixIs
      <4>3. abs[2] = u[2]
        <5>1. u \in Seq(Component) /\ Len(u) >= 2 /\ Len(u) \in Nat
          BY <4>1, LenProperties
        <5> QED BY <1>1, <5>1, PrefixIs
      <4>4. u[2] # "Applications"
        BY DEF ReadOnlyTrees, ApplicationsTree
      <4> QED BY <4>2, <4>3, <4>4
    <3> HIDE DEF got, in, Good
    <3> QED BY <1>a, <3>1, <3>2
  <2> QED BY <2>3, <2>4
<1> QED BY <1>3, <1>4, <1>5

\* A sequence that has a length has an element.
LEMMA LongIsNotEmpty ==
  ASSUME NEW s, Len(s) > 0
  PROVE  s # << >>
<1>1. Len(<< >>) = 0
  OBVIOUS
<1>2. s = << >> => Len(s) = Len(<< >>)
  BY Zenon
<1> QED BY <1>1, <1>2

\* A prefix of a prefix is one.
LEMMA PrefixTransitive ==
  ASSUME NEW S, NEW s \in Seq(S), NEW t \in Seq(S), NEW u \in Seq(S),
         IsPrefix(s, t), IsPrefix(t, u)
  PROVE  IsPrefix(s, u)
<1>1. Len(s) \in Nat /\ Len(t) \in Nat /\ Len(u) \in Nat
  BY LenProperties
<1>2. Len(s) <= Len(t) /\ \A i \in 1 .. Len(s) : s[i] = t[i]
  BY PrefixIs
<1>3. Len(t) <= Len(u) /\ \A i \in 1 .. Len(t) : t[i] = u[i]
  BY PrefixIs
<1>4. Len(s) <= Len(u) /\ \A i \in 1 .. Len(s) : s[i] = u[i]
  BY <1>1, <1>2, <1>3
<1> QED BY <1>4, PrefixIs

\* A path joined to a directory is below it, and the rest is the path.
LEMMA PrefixOfConcat ==
  ASSUME NEW S, NEW s \in Seq(S), NEW t \in Seq(S)
  PROVE  /\ IsPrefix(s, s \o t)
         /\ Len(s \o t) = Len(s) + Len(t)
         /\ SubSeq(s \o t, Len(s) + 1, Len(s \o t)) = t
<1>1. /\ Len(s) \in Nat /\ Len(t) \in Nat
      /\ s \o t \in Seq(S) /\ Len(s \o t) = Len(s) + Len(t)
      /\ \A i \in 1 .. Len(s) + Len(t) :
           (s \o t)[i] = IF i <= Len(s) THEN s[i] ELSE t[i - Len(s)]
  BY LenProperties, ConcatProperties
<1>2. IsPrefix(s, s \o t)
  <2> DEFINE u == s \o t
  <2>1. u \in Seq(S) /\ Len(s) <= Len(u) /\ \A i \in 1 .. Len(s) : s[i] = u[i]
    BY <1>1
  <2> HIDE DEF u
  <2>2. IsPrefix(s, u)
    BY <2>1, PrefixIs
  <2> QED BY <2>2 DEF u
<1> DEFINE u == SubSeq(s \o t, Len(s) + 1, Len(s) + Len(t))
<1>3. /\ u \in Seq(S) /\ Len(u) = Len(t)
      /\ \A i \in 1 .. Len(t) : u[i] = (s \o t)[Len(s) + i]
  <2>1. \A i \in Len(s) + 1 .. Len(s) + Len(t) : (s \o t)[i] \in S
    BY <1>1, ElementOfSeq
  <2>2. /\ u \in Seq(S)
        /\ Len(u) = IF Len(s) + 1 <= Len(s) + Len(t) THEN (Len(s) + Len(t)) - (Len(s) + 1) + 1 ELSE 0
        /\ \A i \in 1 .. (Len(s) + Len(t)) - (Len(s) + 1) + 1 : u[i] = (s \o t)[Len(s) + 1 + i - 1]
    <3>1. Len(s) + 1 \in Int /\ Len(s) + Len(t) \in Int
      BY <1>1
    <3> QED BY <2>1, <3>1, SubSeqProperties
  <2> HIDE DEF u
  <2> QED BY <1>1, <2>2
<1> HIDE DEF u
<1>4. u = t
  <2>1. \A i \in 1 .. Len(t) : u[i] = t[i]
    BY <1>1, <1>3
  <2> QED BY <1>3, <2>1, SeqEqual
<1> QED BY <1>1, <1>2, <1>4 DEF u

\* A path of plain names is already normal.
LEMMA NormalizeStays ==
  ASSUME NEW path \in Seq(PlainNames), path # << >>
  PROVE  NormalizeIosPath(path) = [ok |-> TRUE, out |-> path]
<1> DEFINE n == Len(path)
           N == Normalized(path)
           P(k) == N[k] = [ok |-> TRUE, out |-> SubSeq(path, 1, k)]
           S == {k \in 0 .. n : P(k)}
<1>1. n \in Nat /\ \A k \in 1 .. n : path[k] \in PlainNames
  OBVIOUS
<1>2. path \in Seq(Component)
  <2>1. PlainNames \subseteq Component
    BY DEF PlainNames
  <2> QED BY <2>1, SeqMonotonic
<1>3. /\ N[0] = [ok |-> TRUE, out |-> << >>]
      /\ \A k \in 1 .. n : N[k] = PushComponent(N[k - 1], path[k])
  BY <1>2, NormalizedLoop
<1> HIDE DEF N
<1>4. 0 \in S
  <2>1. SubSeq(path, 1, 0) = << >>
    BY SubSeqEmpty
  <2>2. P(0)
    BY <1>3, <2>1, Zenon
  <2> HIDE DEF P, n
  <2> QED BY <1>1, <2>2
<1>5. ASSUME NEW k \in 1 .. n, k - 1 \in S PROVE k \in S
  <2> DEFINE acc == [ok |-> TRUE, out |-> SubSeq(path, 1, k - 1)]
  <2>1. path[k] \notin {Empty, ".", ".."} \cup NulNames
    BY <1>1 DEF PlainNames
  <2>2. PushComponent(acc, path[k]) = [ok |-> TRUE, out |-> Append(SubSeq(path, 1, k - 1), path[k])]
    BY <2>1 DEF PushComponent
  <2>3. Append(SubSeq(path, 1, k - 1), path[k]) = SubSeq(path, 1, k)
    BY <1>1, SubSeqRecursiveSecond
  <2>4. N[k] = PushComponent(acc, path[k])
    BY <1>3, <1>5
  <2>5. P(k)
    BY <2>2, <2>3, <2>4, Zenon
  <2> HIDE DEF P, n
  <2> QED BY <1>1, <2>5
<1>6. n \in S
  <2> HIDE DEF S, n
  <2>1. 0 .. n \subseteq S
    BY <1>1, <1>4, <1>5, Climb
  <2> QED BY <1>1, <2>1
<1>7. SubSeq(path, 1, n) = path
  BY SubSeqFull
<1>8. path # EmptyString
  <2>1. n > 0 /\ path[1] \in PlainNames
    BY <1>1
  <2> QED BY <2>1 DEF PlainNames, EmptyString
<1> QED BY <1>6, <1>7, <1>8 DEF NormalizeIosPath, N

\* A relative name is looked up below the bundle, and may stay in the container.
LEMMA TranslateRelative ==
  ASSUME NEW uuid \in Component, NEW app, BundleName(app) \in PlainNames,
         NEW exe \in Seq(Component), exe # << >>, Trim(exe) = exe, ~ IsAbsolute(exe)
  PROVE  LET rest == <<BundleName(app)>> \o exe
             got == Translate(uuid, app, exe)
         IN  /\ rest \in Seq(Component)
             /\ got.ok <=> Resolvable(rest)
             /\ got.ok => got.host = HostRoot(uuid) \o Kept(rest)
<1> DEFINE b == <<BundleName(app)>>
           abs == IosPrefix(uuid) \o (b \o exe)
           rest == b \o exe
<1>1. IosPrefix(uuid) \in Seq(Component) /\ Len(IosPrefix(uuid)) = 5
  BY PrefixType DEF IosPrefix
<1>2. b \in Seq(PlainNames) /\ b \in Seq(Component) /\ exe \in Seq(Component)
  <2>1. PlainNames \subseteq Component
    BY DEF PlainNames
  <2>2. b \in Seq(PlainNames)
    OBVIOUS
  <2> QED BY <2>1, <2>2, SeqMonotonic
<1>3. rest \in Seq(Component) /\ Len(rest) = 1 + Len(exe)
  BY <1>2, ConcatProperties
<1>a. rest # EmptyString
  <2>1. Len(exe) \in Nat \ {0}
    BY <1>2, LenProperties, EmptySeq
  <2>2. Len(EmptyString) = 1
    BY DEF EmptyString
  <2> HIDE DEF rest
  <2>3. rest = EmptyString => Len(rest) = Len(EmptyString)
    BY Zenon
  <2> QED BY <1>3, <2>1, <2>2, <2>3
<1>5. Absolute(uuid, app, exe) = abs
  <2>1. (IosPrefix(uuid) \o b) \o exe = abs
    BY <1>1, <1>2, ConcatAssociative
  <2> QED BY <2>1 DEF Absolute, BundleIosPath
<1> HIDE DEF b, rest
<1>6. abs = IosPrefix(uuid) \o rest
  BY DEF rest
<1> HIDE DEF abs
<1>7. /\ Len(abs) = 5 + Len(rest) /\ IsPrefix(IosPrefix(uuid), abs)
      /\ SubSeq(abs, 6, Len(abs)) = rest
  <2> DEFINE pre == IosPrefix(uuid)
  <2>1. pre \in Seq(Component) /\ Len(pre) = 5 /\ abs = pre \o rest
    BY <1>1, <1>6
  <2> HIDE DEF pre
  <2>2. /\ IsPrefix(pre, pre \o rest) /\ Len(pre \o rest) = Len(pre) + Len(rest)
        /\ SubSeq(pre \o rest, Len(pre) + 1, Len(pre \o rest)) = rest
    BY <1>3, <2>1, PrefixOfConcat
  <2>3. /\ Len(abs) = 5 + Len(rest) /\ IsPrefix(pre, abs)
        /\ SubSeq(abs, 6, Len(abs)) = rest
    BY <2>1, <2>2
  <2> QED BY <2>3 DEF pre
<1>8. abs # IosPrefix(uuid)
  <2>1. Len(rest) \in Nat \ {0} /\ Len(IosPrefix(uuid)) = 5
    BY <1>1, <1>3, LenProperties
  <2>2. Len(abs) # 5
    BY <1>7, <2>1
  <2>3. abs = IosPrefix(uuid) => Len(abs) = Len(IosPrefix(uuid))
    BY Zenon
  <2> QED BY <2>1, <2>2, <2>3
<1>9. RestAfter(IosPrefix(uuid), abs) = rest
  BY <1>1, <1>7, <1>8 DEF RestAfter
<1>10. Translate(uuid, app, exe) = JoinChecked(HostRoot(uuid), rest, FALSE)
  BY <1>5, <1>7, <1>9 DEF Translate
<1>11. /\ JoinChecked(HostRoot(uuid), rest, FALSE).ok <=> Resolvable(rest)
       /\ JoinChecked(HostRoot(uuid), rest, FALSE).ok =>
            JoinChecked(HostRoot(uuid), rest, FALSE).host = HostRoot(uuid) \o Kept(rest)
  <2> DEFINE j == JoinChecked(HostRoot(uuid), rest, FALSE)
  <2>1. IF Resolvable(rest)
        THEN j = [ok |-> TRUE, read_only |-> FALSE, host |-> HostRoot(uuid) \o Kept(rest)]
        ELSE ~ j.ok
    BY <1>3, <1>a, JoinExact
  <2> HIDE DEF j
  <2>2. (j.ok <=> Resolvable(rest)) /\ (j.ok => j.host = HostRoot(uuid) \o Kept(rest))
    BY <2>1
  <2> QED BY <2>2 DEF j
<1> QED BY <1>3, <1>10, <1>11 DEF rest, b

-----------------------------------------------------------------------------
(* The path of an entry on the host. *)

\* HostNames is the loop over the names of an entry, and gives a path.
LEMMA HostNamesType ==
  ASSUME NEW rel \in Seq(Component)
  PROVE  HostNames(rel)[Len(rel)] \in Seq(Component)
<1> DEFINE X == Seq(Component)
           n == Len(rel)
           a == << >>
           Add(x, c) == IF c \in {Empty, "."} THEN x ELSE Append(x, c)
           E(f) == f = [k \in 0 .. Len(rel) |->
                          IF k = 0 THEN << >>
                          ELSE IF rel[k] \in {Empty, "."} THEN f[k - 1] ELSE Append(f[k - 1], rel[k])]
           step == [k \in 1 .. n |-> [x \in X |-> Add(x, rel[k])]]
<1>1. n \in Nat /\ a \in X /\ \A k \in 1 .. n : rel[k] \in Component
  BY EmptySeq
<1>2. \A x \in X, c \in Component : Add(x, c) \in X
  BY AppendProperties
<1>3. step \in [1 .. n -> [X -> X]]
  <2> HIDE DEF Add, X
  <2> QED BY <1>1, <1>2
<1>4. PICK g \in [0 .. n -> X] : g[0] = a /\ \A k \in 1 .. n : g[k] = step[k][g[k - 1]]
  <2> HIDE DEF n, a, step, X
  <2>1. Iterable(n, X, a, step)
    BY <1>1, <1>3, Iterates
  <2> QED BY <2>1 DEF Iterable
<1>5. ASSUME NEW k \in 1 .. n PROVE g[k] = Add(g[k - 1], rel[k])
  <2> HIDE DEF Add, X
  <2>1. k - 1 \in 0 .. n
    BY <1>1
  <2>2. g[k - 1] \in X
    BY <2>1
  <2>3. step[k][g[k - 1]] = Add(g[k - 1], rel[k])
    BY <2>2
  <2> QED BY <1>4, <2>3, Zenon
<1>6. E(g)
  <2>1. g = [k \in 0 .. n |-> IF k = 0 THEN a ELSE Add(g[k - 1], rel[k])]
    <3> HIDE DEF Add, X, a, step
    <3> QED BY <1>1, <1>4, <1>5
  <2> QED BY <2>1, Zenon
<1>7. HostNames(rel) = CHOOSE f : E(f)
  BY Zenon DEF HostNames
<1>8. E(HostNames(rel))
  <2> HIDE DEF E
  <2> QED BY <1>6, <1>7, Zenon
<1> DEFINE N == HostNames(rel)
<1>9. N = [k \in 0 .. n |-> IF k = 0 THEN a ELSE Add(N[k - 1], rel[k])]
  BY <1>8
<1> HIDE DEF N, Add, a, X, n
<1>10. N[0] = a /\ \A k \in 1 .. n : N[k] = Add(N[k - 1], rel[k])
  <2>1. N[0] = a
    BY <1>1, <1>9
  <2>2. ASSUME NEW k \in 1 .. n PROVE N[k] = Add(N[k - 1], rel[k])
    <3>1. k \in 0 .. n /\ k # 0
      BY <1>1
    <3> QED BY <1>9, <3>1
  <2> QED BY <2>1, <2>2
<1> DEFINE S == {k \in 0 .. n : N[k] \in X}
<1>11. 0 \in S
  BY <1>1, <1>10
<1>12. ASSUME NEW k \in 1 .. n, k - 1 \in S PROVE k \in S
  <2>1. Add(N[k - 1], rel[k]) \in X
    BY <1>1, <1>2, <1>12
  <2>2. N[k] \in X
    BY <1>10, <2>1
  <2> QED BY <1>1, <2>2
<1>13. n \in S
  <2> HIDE DEF S
  <2>1. 0 .. n \subseteq S
    BY <1>1, <1>11, <1>12, Climb
  <2> QED BY <1>1, <2>1
<1> QED BY <1>13 DEF N, X, n

-----------------------------------------------------------------------------
(* The container id: generate_uuid. *)

\* A product with a number that has an inverse modulo w tells numbers below w
\* apart.
LEMMA OddProduct ==
  ASSUME NEW w \in Nat \ {0, 1}, NEW odd \in Nat, NEW v \in 0 .. w - 1, (odd * v) % w = 1,
         NEW s \in 0 .. w - 1, NEW r \in 0 .. w - 1, (s * odd) % w = (r * odd) % w
  PROVE  s = r
<1>1. \A x \in Nat : /\ x \div w \in Nat /\ x % w \in 0 .. w - 1
                     /\ x = w * (x \div w) + (x % w)
  OBVIOUS
<1>2. s * odd \in Nat /\ r * odd \in Nat /\ odd * v \in Nat
  OBVIOUS
<1> DEFINE p == (s * odd) \div w
           q == (r * odd) \div w
           i == (odd * v) \div w
           c == (s * odd) % w
<1>3. p \in Nat /\ q \in Nat /\ i \in Nat /\ c \in Nat
  BY <1>1, <1>2
<1>4. s * odd = w * p + c /\ r * odd = w * q + c /\ odd * v = w * i + 1
  BY <1>1, <1>2
<1> HIDE DEF p, q, i, c
<1> DEFINE d == s - r
           z == (p - q) * v - d * i
<1>5. d \in Int /\ z \in Int /\ d < w /\ - w < d
  BY <1>3
<1>6. d * odd = w * (p - q)
  BY <1>3, <1>4
<1>7. d * (odd * v) = w * ((p - q) * v)
  <2>1. d * (odd * v) = (d * odd) * v
    BY <1>5
  <2>2. (w * (p - q)) * v = w * ((p - q) * v)
    BY <1>3
  <2> QED BY <1>6, <2>1, <2>2
<1>8. d * (w * i + 1) = w * (d * i) + d
  BY <1>3, <1>5
<1>9. d = w * z
  <2>1. w * z = w * ((p - q) * v) - w * (d * i)
    BY <1>3, <1>5
  <2>2. d * (w * i + 1) = w * ((p - q) * v)
    BY <1>4, <1>7
  <2>3. w * (d * i) \in Int /\ w * ((p - q) * v) \in Int
    BY <1>3, <1>5
  <2> HIDE DEF d, z
  <2> QED BY <1>5, <1>8, <2>1, <2>2, <2>3
<1> HIDE DEF z
<1>10. z = 0
  <2>1. z >= 1 => w * z >= w
    BY <1>5
  <2>2. z <= -1 => w * z <= - w
    BY <1>5
  <2> HIDE DEF d
  <2> QED BY <1>5, <1>9, <2>1, <2>2
<1> QED BY <1>5, <1>9, <1>10

\* The words of an id are words.
LEMMA IdWords ==
  ASSUME NEW n \in Clock, NEW s \in Nat
  PROVE  /\ n \in Words /\ RotateLeft(n) \in Words
         /\ (Pid * 4) % UuidWord \in Words /\ (s * UuidOdd) % UuidWord \in Words
<1>1. UuidWord \in Nat \ {0, 1} /\ Pid \in Nat /\ UuidOdd \in Nat /\ n \in Words
  BY UuidAssumption
<1>2. \A x \in Nat : x % UuidWord \in Words
  BY <1>1 DEF Words
<1>3. Pid * 4 \in Nat /\ s * UuidOdd \in Nat
  BY <1>1
<1>4. 2 * n + n \div (UuidWord \div 2) \in Nat
  <2>1. UuidWord \div 2 \in Nat \ {0} /\ n \in Nat
    BY <1>1 DEF Words
  <2>2. n \div (UuidWord \div 2) \in Nat
    BY <2>1
  <2> QED BY <2>1, <2>2
<1> QED BY <1>1, <1>2, <1>3, <1>4 DEF RotateLeft

\* Launches that draw different turns of the counter get different ids, whatever
\* clock each reads.
LEMMA IdTellsTurn ==
  ASSUME NEW n \in Clock, NEW m \in Clock, NEW s \in Words, NEW r \in Words,
         ContainerId(n, s) = ContainerId(m, r)
  PROVE  s = r
<1>1. UuidWord \in Nat \ {0, 1} /\ Pid \in Nat /\ UuidOdd \in Nat /\ n \in Words /\ m \in Words
  BY UuidAssumption
<1> DEFINE p == (Pid * 4) % UuidWord
           x == (s * UuidOdd) % UuidWord
           y == (r * UuidOdd) % UuidWord
<1>3. /\ p \in Words /\ x \in Words /\ y \in Words
      /\ RotateLeft(n) \in Words /\ RotateLeft(m) \in Words
  <2>1. s \in Nat /\ r \in Nat
    BY <1>1 DEF Words
  <2> QED BY <2>1, IdWords
<1> HIDE DEF p, x, y
<1>5. /\ ContainerId(n, s) = FormatUuid(BitXor(n, p), BitXor(RotateLeft(n), x))
      /\ ContainerId(m, r) = FormatUuid(BitXor(m, p), BitXor(RotateLeft(m), y))
  BY DEF ContainerId, p, x, y
<1>6. /\ BitXor(n, p) \in Words /\ BitXor(RotateLeft(n), x) \in Words
      /\ BitXor(m, p) \in Words /\ BitXor(RotateLeft(m), y) \in Words
  BY <1>1, <1>3, UuidAssumption
<1>7. BitXor(n, p) = BitXor(m, p) /\ BitXor(RotateLeft(n), x) = BitXor(RotateLeft(m), y)
  <2>1. \A a, b, c, d \in Words : FormatUuid(a, b) = FormatUuid(c, d) => a = c /\ b = d
    BY UuidAssumption
  <2> QED BY <1>5, <1>6, <2>1, Zenon
<1>8. n = m
  BY <1>1, <1>3, <1>7, UuidAssumption
<1>9. x = y
  <2> DEFINE k == RotateLeft(n)
  <2>1. k \in Words
    BY <1>3
  <2> HIDE DEF k
  <2>2. BitXor(k, x) = BitXor(k, y)
    BY <1>7, <1>8 DEF k
  <2>3. BitXor(x, k) = BitXor(y, k)
    BY <1>3, <2>1, <2>2, UuidAssumption
  <2>4. BitXor(BitXor(x, k), k) = x /\ BitXor(BitXor(y, k), k) = y
    BY <1>3, <2>1, UuidAssumption
  <2> QED BY <2>3, <2>4
<1>10. PICK v \in Words : (UuidOdd * v) % UuidWord = 1
  BY UuidAssumption
<1>11. v \in 0 .. UuidWord - 1 /\ s \in 0 .. UuidWord - 1 /\ r \in 0 .. UuidWord - 1
  BY <1>10 DEF Words
<1> QED BY <1>1, <1>9, <1>10, <1>11, OddProduct DEF x, y

\* An id is a name, and not the one that says that there is none.
LEMMA IdType ==
  ASSUME NEW n \in Clock, NEW s \in Nat
  PROVE  ContainerId(n, s) \in Component /\ ContainerId(n, s) # NoUuid
BY IdWords, UuidAssumption DEF ContainerId

-----------------------------------------------------------------------------
(* The inductive invariant of the session, part by part. *)

Phases == {"idle", "inspect", "uuid", "prepare", "open", "extract", "read", "load",
           "running", "done"}
Begun == {"prepare", "open", "extract", "read", "load", "running"}
Datas == {e.data : e \in KnownEntries} \cup HostData \cup {Saved, Bytes(Empty)}
Locals == [phase : Phases, ipa : IpaPaths \cup {Empty}, bundle : Seq(Component),
           app : Seq(Component), exe : Seq(Component), uuid : Component,
           source : Seq(KnownEntries), i : Nat, code : Datas]

\* The locals of a launch: what each phase has in hand.
LocalOK(L) ==
  /\ L \in Locals
  /\ L.i \in 1 .. Len(L.source) + 1
  /\ L.phase \notin {"idle", "done"} => L.ipa \in IpaPaths
  /\ L.phase \in {"uuid"} \cup Begun =>
       L.exe # << >> /\ BundleName(L.app) \in PlainNames
  /\ L.phase \in {"idle", "inspect", "uuid"} => L.uuid = NoUuid
  /\ L.phase \in Begun => L.uuid # NoUuid

LaunchesTyped == launch \in [Launches -> Locals] /\ \A t \in Launches : LocalOK(launch[t])

ArchivesTyped ==
  archives \in [IpaPaths -> Known \cup {NoArchive}] /\ changes \in 0 .. MaxChanges

Listings == [ipa : IpaPaths, name : Seq(Component)]
ScanTyped ==
  /\ scan \in [phase : {"idle", "scanning", "done", "failed"}, todo : SUBSET IpaPaths,
               found : Seq(Listings), steady : SUBSET IpaPaths]
  /\ \A i \in DOMAIN scan.found : scan.found[i].ipa \notin scan.todo

\* The ids drawn so far: one turn of the counter each.
Drawn == {t \in Launches : launch[t].uuid # NoUuid}
IdsDistinct ==
  /\ counter = Cardinality(Drawn)
  /\ \A t \in Drawn : \E n \in Clock, s \in Words : s < counter /\ launch[t].uuid = ContainerId(n, s)
  /\ \A t, u \in Launches : t # u /\ launch[t].uuid # NoUuid => launch[t].uuid # launch[u].uuid

HostComponent ==
  Component \cup {"Containers", "Applications", "Documents", "Library", "Caches", "Preferences",
                  "tmp"}
HostPaths == Seq(HostComponent) \ {<< >>}

\* The host's tree: directories closed under parents, files below them, each in
\* the container of the launch that wrote it.
DirsClosed == dirs \subseteq HostPaths /\ \A d \in dirs : Parents(d) \subseteq dirs
FilesOwned ==
  /\ files \in [DOMAIN files -> [by : Launches, data : Datas]]
  /\ \A f \in DOMAIN files :
       /\ f \in HostPaths \ dirs /\ Parents(f) \subseteq dirs
       /\ launch[files[f].by].uuid # NoUuid
       /\ IsPrefix(HostRoot(launch[files[f].by].uuid), f)

SessionInv ==
  ArchivesTyped /\ LaunchesTyped /\ ScanTyped /\ IdsDistinct /\ DirsClosed /\ FilesOwned

\* What inspect_ipa answers is a bundle directory, a name and an executable.
LEMMA InspectionTyped ==
  ASSUME NEW a \in Known \cup {NoArchive}, NEW b \in Inspections(a)
  PROVE  /\ a \in Known \ {NoArchive}
         /\ b.bundle \in Seq(Component) /\ b.app \in Seq(Component)
         /\ b.exe \in Seq(Component) \ {<< >>}
         /\ BundleName(b.app) \in PlainNames /\ SortKey[b.app] \in Int
<1>1. PICK d \in MainBundles(a) : b = Metadata(InfoPlist(a, d), d)
  BY DEF Inspections
<1>2. PICK e \in Entries(a) : d = Front(e.path)
  BY DEF MainBundles, BundleDirs
<1>3. a # NoArchive /\ a \in Known
  BY <1>2 DEF Entries
<1>4. e \in KnownEntries
  BY <1>2, <1>3 DEF KnownEntries
<1>5. e.path \in Seq(Component)
  BY <1>4, ArchiveAssumption
<1>6. Front(e.path) \in Seq(Component)
  <2>1. Len(e.path) - 1 \in Int /\ \A i \in 1 .. Len(e.path) - 1 : e.path[i] \in Component
    BY <1>5
  <2> QED BY <2>1, SubSeqProperties DEF Front
<1>7. b.bundle = d
  BY <1>1 DEF Metadata
<1>8. /\ b.app \in Seq(Component) /\ b.exe \in Seq(Component) \ {<< >>}
      /\ BundleName(b.app) \in PlainNames /\ SortKey[b.app] \in Int
  BY <1>3, ArchiveAssumption
<1> QED BY <1>2, <1>3, <1>6, <1>7, <1>8

\* An archive that is there is a sequence of entries.
LEMMA SourceTyped ==
  ASSUME NEW a \in Known \cup {NoArchive}, a # NoArchive
  PROVE  a \in Seq(KnownEntries)
<1>1. a \in Seq(Range(a))
  BY ArchiveAssumption
<1>2. Range(a) \subseteq KnownEntries
  BY DEF KnownEntries, Entries
<1> QED BY <1>1, <1>2, SeqMonotonic

\* Where the locals L put an entry, and where they look for the executable.
OutIn(L, path) ==
  LET rel == RestAfter(L.bundle, path)
  IN  SandboxLayout(L.uuid, L.app)[1] \o HostNames(rel)[Len(rel)]
ExeRestIn(L) == <<BundleName(L.app)>> \o L.exe
ExeStays(L) == ~ IsAbsolute(L.exe) /\ Resolvable(ExeRestIn(L))
ExeIn(L) == HostRoot(L.uuid) \o Kept(ExeRestIn(L))

\* What is below the bundle directory is a path in the container.
LEMMA BundlePlace ==
  ASSUME NEW L, LocalOK(L), L.phase \in Begun, NEW rest \in Seq(Component)
  PROVE  LET p == SandboxLayout(L.uuid, L.app)[1] \o rest
         IN  p \in HostPaths /\ Len(p) >= 4 /\ IsPrefix(HostRoot(L.uuid), p)
<1> DEFINE r == HostRoot(L.uuid)
           bn == BundleName(L.app)
           c == <<bn>>
           base == SandboxLayout(L.uuid, L.app)[1]
           p == base \o rest
<1>1. L.uuid \in Component /\ bn \in Component
  BY DEF LocalOK, Locals, PlainNames
<1>2. r \in Seq(HostComponent) /\ Len(r) = 3
  BY <1>1 DEF HostRoot, HostComponent
<1>3. c \in Seq(HostComponent) /\ Len(c) = 1
  BY <1>1 DEF HostComponent
<1>4. base = r \o c
  BY DEF SandboxLayout
<1> HIDE DEF r, c, base
<1>5. r \o c \in Seq(HostComponent) /\ Len(r \o c) = Len(r) + Len(c) /\ IsPrefix(r, r \o c)
  BY <1>2, <1>3, PrefixOfConcat, ConcatProperties
<1>6. base \in Seq(HostComponent) /\ Len(base) = 4 /\ IsPrefix(r, base)
  BY <1>2, <1>3, <1>4, <1>5
<1>7. rest \in Seq(HostComponent) /\ Len(rest) \in Nat
  BY SeqMonotonic, LenProperties DEF HostComponent
<1>8. p \in Seq(HostComponent) /\ Len(p) = Len(base) + Len(rest) /\ IsPrefix(base, p)
  BY <1>6, <1>7, PrefixOfConcat, ConcatProperties
<1> HIDE DEF p
<1>9. IsPrefix(r, p)
  BY <1>2, <1>6, <1>8, PrefixTransitive
<1>10. Len(p) >= 4
  BY <1>6, <1>7, <1>8
<1>11. p # << >>
  BY <1>10, LongIsNotEmpty
<1> QED BY <1>8, <1>9, <1>10, <1>11 DEF HostPaths, r, p, base

LEMMA ExePlace ==
  ASSUME NEW L, LocalOK(L), L.phase \in Begun, ExeStays(L)
  PROVE  ExeIn(L) \in HostPaths /\ IsPrefix(HostRoot(L.uuid), ExeIn(L))
<1> DEFINE r == HostRoot(L.uuid)
           rest == ExeRestIn(L)
<1>1. /\ L.uuid \in Component /\ L.exe \in Seq(Component) /\ L.exe # << >>
      /\ BundleName(L.app) \in Component
  BY DEF LocalOK, Locals, PlainNames
<1>2. <<BundleName(L.app)>> \in Seq(Component) /\ Len(<<BundleName(L.app)>>) = 1
  BY <1>1
<1>3. rest \in Seq(Component) /\ Len(rest) = 1 + Len(L.exe)
  BY <1>1, <1>2, ConcatProperties DEF ExeRestIn
<1>4. rest # EmptyString
  <2>1. Len(L.exe) \in Nat \ {0}
    BY <1>1, LenProperties, EmptySeq
  <2>2. Len(EmptyString) = 1
    BY DEF EmptyString
  <2> HIDE DEF rest
  <2>3. rest = EmptyString => Len(rest) = Len(EmptyString)
    BY Zenon
  <2> QED BY <1>3, <2>1, <2>2, <2>3
<1>5. Kept(rest) \in Seq(PlainNames)
  <2>1. NormalizeIosPath(rest).ok /\ NormalizeIosPath(rest).out = Kept(rest)
    BY <1>3, <1>4, NormalizeExact DEF ExeStays, Resolvable
  <2> QED BY <1>3, <2>1, NormalizePlain
<1>6. r \in Seq(HostComponent) /\ Len(r) = 3
  BY <1>1 DEF HostRoot, HostComponent
<1>7. Kept(rest) \in Seq(HostComponent)
  <2>1. PlainNames \subseteq HostComponent
    BY DEF PlainNames, HostComponent
  <2> QED BY <1>5, <2>1, SeqMonotonic
<1>8. ExeIn(L) = r \o Kept(rest)
  BY DEF ExeIn
<1> DEFINE k == Kept(rest)
<1> HIDE DEF r, k
<1>9. k \in Seq(HostComponent) /\ ExeIn(L) = r \o k
  BY <1>7, <1>8 DEF k
<1>10. /\ r \o k \in Seq(HostComponent) /\ Len(r \o k) = Len(r) + Len(k)
       /\ IsPrefix(r, r \o k) /\ Len(k) \in Nat
  BY <1>6, <1>9, PrefixOfConcat, ConcatProperties, LenProperties
<1>11. Len(r \o k) > 0
  BY <1>6, <1>10
<1>12. r \o k # << >>
  BY <1>11, LongIsNotEmpty
<1> QED BY <1>9, <1>10, <1>12 DEF HostPaths, r

LEMMA EntryPlace ==
  ASSUME NEW L, LocalOK(L), NEW e \in KnownEntries, L.phase \in Begun
  PROVE  /\ e.path \in Seq(Component) \ {<< >>}
         /\ OutIn(L, e.path) \in HostPaths /\ Len(OutIn(L, e.path)) >= 4
         /\ IsPrefix(HostRoot(L.uuid), OutIn(L, e.path))
<1> DEFINE rel == RestAfter(L.bundle, e.path)
           names == HostNames(rel)[Len(rel)]
<1>1. e.path \in Seq(Component) \ {<< >>}
  BY ArchiveAssumption
<1>2. rel \in Seq(Component)
  <2>1. L.bundle \in Seq(Component)
    BY DEF LocalOK, Locals
  <2>2. Len(L.bundle) \in Nat
    BY <2>1, LenProperties
  <2> QED BY <1>1, <2>2, RestType
<1>3. names \in Seq(Component)
  BY <1>2, HostNamesType
<1>4. OutIn(L, e.path) = SandboxLayout(L.uuid, L.app)[1] \o names
  BY DEF OutIn
<1> HIDE DEF names
<1> QED BY <1>1, <1>3, <1>4, BundlePlace

\* An entry of the archive at hand, and where it goes.
LEMMA EntryTyped ==
  ASSUME NEW t \in Launches, LocalOK(launch[t]), NEW e \in KnownEntries,
         launch[t].phase \in Begun
  PROVE  /\ OutPath(t, Rel(t, e.path)) \in HostPaths /\ Len(OutPath(t, Rel(t, e.path))) >= 4
         /\ IsPrefix(HostRoot(launch[t].uuid), OutPath(t, Rel(t, e.path)))
<1> DEFINE L == launch[t]
<1>1. OutPath(t, Rel(t, e.path)) = OutIn(L, e.path)
  BY DEF OutPath, OutIn, Layout, Rel
<1>2. LocalOK(L) /\ L.phase \in Begun
  OBVIOUS
<1> HIDE DEF L
<1>3. OutIn(L, e.path) \in HostPaths /\ Len(OutIn(L, e.path)) >= 4 /\ IsPrefix(HostRoot(L.uuid), OutIn(L, e.path))
  BY <1>2, EntryPlace
<1> QED BY <1>1, <1>3 DEF L

-----------------------------------------------------------------------------
(* The steps of a thread on its own locals. *)

\* A step of t that changes its locals and draws no id.
OneMoves(t) ==
  /\ counter' = counter
  /\ \E L : LocalOK(L) /\ L.uuid = launch[t].uuid /\ launch' = [launch EXCEPT ![t] = L]

LEMMA ThreadMoves ==
  ASSUME ArchivesTyped, LaunchesTyped, ScanTyped, FilesOwned, NEW t \in Launches,
         \/ Tap(t) \/ Inspect(t) \/ InspectFails(t) \/ Prepare(t) \/ OpenArchive(t)
         \/ SkipEntry(t) \/ ExtractEntry(t) \/ ExtractFails(t) \/ ExtractDone(t)
         \/ ReadExecutable(t) \/ ReadExecutableFails(t) \/ Load(t) \/ LoadFails(t)
         \/ HostRefuses(t) \/ RunEnds(t)
  PROVE  OneMoves(t)
<1> DEFINE K == launch[t]
<1>1. launch \in [Launches -> Locals] /\ K \in Locals /\ LocalOK(K)
  BY DEF LaunchesTyped
<1>2. ASSUME NEW L, LocalOK(L), L.uuid = K.uuid, launch' = [launch EXCEPT ![t] = L],
             counter' = counter
      PROVE  OneMoves(t)
  BY <1>2, Zenon DEF OneMoves
<1>3. ASSUME Leave(t) PROVE OneMoves(t)
  <2> DEFINE L == [Idle EXCEPT !.phase = "done", !.uuid = K.uuid]
  <2>1. launch' = [launch EXCEPT ![t] = L] /\ counter' = counter
    BY <1>3 DEF Leave
  <2>2. /\ DOMAIN L = {"phase", "ipa", "bundle", "app", "exe", "uuid", "source", "i", "code"}
        /\ L.phase = "done" /\ L.ipa = Empty /\ L.uuid = K.uuid /\ L.i = 1
        /\ L.bundle = << >> /\ L.app = << >> /\ L.exe = << >> /\ L.source = << >>
        /\ L.code = Bytes(Empty)
    BY DEF Idle
  <2>3. << >> \in Seq(Component) /\ << >> \in Seq(KnownEntries) /\ Len(<< >>) = 0
    BY EmptySeq
  <2>4. K.uuid \in Component
    BY <1>1 DEF Locals
  <2>5. L \in Locals
    BY <2>3, <2>4 DEF Idle, Locals, Phases, Datas
  <2>6. LocalOK(L)
    BY <2>2, <2>3, <2>5 DEF LocalOK, Begun
  <2> HIDE DEF L
  <2> QED BY <1>2, <2>1, <2>2, <2>6
<1>4. CASE Tap(t)
  <2>1. PICK app \in Range(scan.found) :
          launch' = [launch EXCEPT ![t].phase = "inspect", ![t].ipa = app.ipa]
    BY <1>4 DEF Tap
  <2> DEFINE L == [K EXCEPT !.phase = "inspect", !.ipa = app.ipa]
  <2>2. app.ipa \in IpaPaths
    <3>1. scan.found \in Seq(Listings)
      BY DEF ScanTyped
    <3>2. app \in Listings
      BY <2>1, <3>1, RangeOfSeq
    <3> QED BY <3>2 DEF Listings
  <2>3. launch' = [launch EXCEPT ![t] = L] /\ counter' = counter
    BY <1>1, <1>4, <2>1 DEF Tap
  <2>4. K.phase = "idle"
    BY <1>4 DEF Tap, At
  <2>5. L \in Locals /\ L.uuid = K.uuid
    BY <1>1, <2>2 DEF Locals, Phases
  <2>6. LocalOK(L)
    BY <1>1, <2>2, <2>4, <2>5 DEF LocalOK, Locals, Begun
  <2> HIDE DEF L
  <2> QED BY <1>2, <2>3, <2>5, <2>6
<1>5. CASE Inspect(t)
  <2>1. PICK b \in Inspections(archives[K.ipa]) :
          launch' = [launch EXCEPT ![t].phase = "uuid", ![t].bundle = b.bundle,
                                   ![t].app = b.app, ![t].exe = b.exe]
    BY <1>5 DEF Inspect
  <2> DEFINE L == [K EXCEPT !.phase = "uuid", !.bundle = b.bundle, !.app = b.app, !.exe = b.exe]
  <2>2. K.phase = "inspect" /\ K.ipa \in IpaPaths
    BY <1>1, <1>5 DEF Inspect, At, LocalOK
  <2>3. archives[K.ipa] \in Known \cup {NoArchive}
    BY <2>2 DEF ArchivesTyped
  <2>4. /\ b.bundle \in Seq(Component) /\ b.app \in Seq(Component) /\ b.exe \in Seq(Component)
        /\ b.exe # << >> /\ BundleName(b.app) \in PlainNames
    BY <2>1, <2>3, InspectionTyped
  <2>5. launch' = [launch EXCEPT ![t] = L] /\ counter' = counter
    BY <1>1, <1>5, <2>1 DEF Inspect
  <2>6. L \in Locals /\ L.uuid = K.uuid
    BY <1>1, <2>4 DEF Locals, Phases
  <2>7. /\ L.phase = "uuid" /\ L.app = b.app /\ L.exe = b.exe /\ L.ipa = K.ipa
        /\ L.i = K.i /\ L.source = K.source
    BY <1>1 DEF Locals
  <2>8. K.i \in 1 .. Len(K.source) + 1 /\ K.uuid = NoUuid
    BY <1>1, <2>2 DEF LocalOK
  <2> HIDE DEF L
  <2>9. LocalOK(L)
    BY <2>2, <2>4, <2>6, <2>7, <2>8 DEF LocalOK, Begun
  <2> QED BY <1>2, <2>5, <2>6, <2>9
<1>6. CASE OpenArchive(t)
  <2> DEFINE L == [K EXCEPT !.phase = "extract", !.i = 1, !.source = archives[K.ipa]]
  <2>1. K.phase = "open" /\ K.ipa \in IpaPaths /\ archives[K.ipa] # NoArchive
    BY <1>1, <1>6 DEF OpenArchive, At, LocalOK
  <2>2. archives[K.ipa] \in Seq(KnownEntries)
    BY <2>1, SourceTyped DEF ArchivesTyped
  <2>3. launch' = [launch EXCEPT ![t] = L] /\ counter' = counter
    BY <1>1, <1>6 DEF OpenArchive
  <2>4. L \in Locals /\ L.uuid = K.uuid
    BY <1>1, <2>2 DEF Locals, Phases
  <2>5. /\ L.phase = "extract" /\ L.app = K.app /\ L.exe = K.exe /\ L.ipa = K.ipa
        /\ L.i = 1 /\ L.source = archives[K.ipa]
    BY <1>1 DEF Locals
  <2>6. 1 \in 1 .. Len(archives[K.ipa]) + 1
    BY <2>2, LenProperties
  <2>7. /\ K.exe # << >> /\ BundleName(K.app) \in PlainNames
        /\ K.uuid # NoUuid
    BY <1>1, <2>1 DEF LocalOK, Begun
  <2> HIDE DEF L
  <2>8. LocalOK(L)
    BY <2>1, <2>4, <2>5, <2>6, <2>7 DEF LocalOK, Begun
  <2> QED BY <1>2, <2>3, <2>4, <2>8
<1>7. CASE SkipEntry(t) \/ ExtractEntry(t)
  <2> DEFINE L == [K EXCEPT !.i = @ + 1]
  <2>1. K.phase = "extract" /\ K.i <= Len(K.source)
    BY <1>7 DEF SkipEntry, ExtractEntry, Extracting, At
  <2>2. launch' = [launch EXCEPT ![t] = L] /\ counter' = counter
    BY <1>1, <1>7 DEF SkipEntry, ExtractEntry
  <2>3. L \in Locals /\ L.uuid = K.uuid
    <3>1. L = [K EXCEPT !.i = K.i + 1] /\ K.i + 1 \in Nat
      BY <1>1 DEF Locals
    <3> HIDE DEF L
    <3> QED BY <1>1, <3>1 DEF Locals
  <2>4. /\ L.phase = K.phase /\ L.app = K.app /\ L.exe = K.exe /\ L.ipa = K.ipa
        /\ L.i = K.i + 1 /\ L.source = K.source
    BY <1>1 DEF Locals
  <2>5. K.i + 1 \in 1 .. Len(K.source) + 1
    <3>1. K.i \in 1 .. Len(K.source) + 1 /\ Len(K.source) \in Nat
      BY <1>1, LenProperties DEF LocalOK, Locals
    <3> QED BY <2>1, <3>1
  <2> HIDE DEF L
  <2>6. LocalOK(L)
    BY <1>1, <2>1, <2>3, <2>4, <2>5 DEF LocalOK
  <2> QED BY <1>2, <2>2, <2>3, <2>6
<1>8. CASE Prepare(t) \/ ExtractDone(t) \/ Load(t)
  <2>1. PICK p \in {"open", "read", "running"} : launch' = [launch EXCEPT ![t].phase = p]
    BY <1>8 DEF Prepare, ExtractDone, Load
  <2> DEFINE L == [K EXCEPT !.phase = p]
  <2>2. K.phase \in Begun
    BY <1>8 DEF Prepare, ExtractDone, Load, At, Begun
  <2>3. launch' = [launch EXCEPT ![t] = L] /\ counter' = counter
    BY <1>1, <1>8, <2>1 DEF Prepare, ExtractDone, Load
  <2>4. L \in Locals /\ L.uuid = K.uuid
    BY <1>1 DEF Locals, Phases
  <2>5. /\ L.phase = p /\ L.app = K.app /\ L.exe = K.exe /\ L.ipa = K.ipa
        /\ L.i = K.i /\ L.source = K.source
    BY <1>1 DEF Locals
  <2> HIDE DEF L
  <2>6. LocalOK(L)
    BY <1>1, <2>2, <2>4, <2>5 DEF LocalOK, Begun
  <2> QED BY <1>2, <2>3, <2>4, <2>6
<1>9. CASE ReadExecutable(t)
  <2>1. PICK data \in ReadableCode(t) :
          launch' = [launch EXCEPT ![t].phase = "load", ![t].code = data]
    BY <1>9 DEF ReadExecutable
  <2> DEFINE L == [K EXCEPT !.phase = "load", !.code = data]
  <2>2. data \in Datas /\ K.phase = "read"
    <3>1. data \in {files[f].data : f \in DOMAIN files} \cup HostData
      BY <2>1 DEF ReadableCode
    <3>2. \A f \in DOMAIN files : files[f].data \in Datas
      BY DEF FilesOwned
    <3> QED BY <1>9, <3>1, <3>2 DEF Datas, ReadExecutable, At
  <2>3. launch' = [launch EXCEPT ![t] = L] /\ counter' = counter
    BY <1>1, <1>9, <2>1 DEF ReadExecutable
  <2>4. L \in Locals /\ L.uuid = K.uuid
    BY <1>1, <2>2 DEF Locals, Phases
  <2>5. /\ L.phase = "load" /\ L.app = K.app /\ L.exe = K.exe /\ L.ipa = K.ipa
        /\ L.i = K.i /\ L.source = K.source
    BY <1>1 DEF Locals
  <2> HIDE DEF L
  <2>6. LocalOK(L)
    BY <1>1, <2>2, <2>4, <2>5 DEF LocalOK, Begun
  <2> QED BY <1>2, <2>3, <2>4, <2>6
<1>10. CASE InspectFails(t) \/ ExtractFails(t) \/ ReadExecutableFails(t) \/ LoadFails(t)
            \/ HostRefuses(t) \/ RunEnds(t)
  BY <1>3, <1>10 DEF InspectFails, ExtractFails, ReadExecutableFails, LoadFails, HostRefuses, RunEnds
<1> QED BY <1>4, <1>5, <1>6, <1>7, <1>8, <1>9, <1>10

\* Such a step keeps every id, and changes no other launch.
LEMMA MoveKeeps ==
  ASSUME LaunchesTyped, NEW t \in Launches, OneMoves(t)
  PROVE  /\ LaunchesTyped' /\ counter' = counter
         /\ \A u \in Launches : launch'[u].uuid = launch[u].uuid
         /\ \A u \in Launches \ {t} : launch'[u] = launch[u]
<1>1. PICK L : LocalOK(L) /\ L.uuid = launch[t].uuid /\ launch' = [launch EXCEPT ![t] = L]
  BY DEF OneMoves
<1>2. launch \in [Launches -> Locals] /\ L \in Locals /\ counter' = counter
  BY <1>1 DEF LaunchesTyped, LocalOK, OneMoves
<1>3. launch' \in [Launches -> Locals]
  BY <1>1, <1>2
<1>4. launch'[t] = L /\ \A u \in Launches \ {t} : launch'[u] = launch[u]
  BY <1>1, <1>2
<1>5. \A u \in Launches : LocalOK(launch'[u])
  BY <1>1, <1>4 DEF LaunchesTyped
<1>6. LaunchesTyped'
  BY <1>3, <1>5 DEF LaunchesTyped, LocalOK
<1> QED BY <1>1, <1>2, <1>4, <1>6

LEMMA IdsKeep ==
  ASSUME IdsDistinct, counter' = counter,
         \A u \in Launches : launch'[u].uuid = launch[u].uuid
  PROVE  IdsDistinct'
<1>1. Drawn' = Drawn
  BY DEF Drawn
<1>2. /\ counter = Cardinality(Drawn)
      /\ \A t \in Drawn : \E n \in Clock, s \in Words :
           s < counter /\ launch[t].uuid = ContainerId(n, s)
      /\ \A t, u \in Launches : t # u /\ launch[t].uuid # NoUuid => launch[t].uuid # launch[u].uuid
  BY DEF IdsDistinct
<1>3. \A t \in Drawn : t \in Launches
  BY DEF Drawn
<1>4. /\ counter' = Cardinality(Drawn')
      /\ \A t \in Drawn' : \E n \in Clock, s \in Words :
           s < counter' /\ launch'[t].uuid = ContainerId(n, s)
      /\ \A t, u \in Launches :
           t # u /\ launch'[t].uuid # NoUuid => launch'[t].uuid # launch'[u].uuid
  BY <1>1, <1>2, <1>3
<1> QED BY <1>4 DEF IdsDistinct

\* The id that a launch draws is new.
LEMMA DrawKeeps ==
  ASSUME LaunchesTyped, IdsDistinct, NEW t \in Launches, GenerateUuid(t)
  PROVE  /\ LaunchesTyped' /\ IdsDistinct'
         /\ \A u \in Launches : launch[u].uuid # NoUuid => launch'[u] = launch[u]
         /\ \A u \in Launches \ {t} : launch'[u] = launch[u]
<1> DEFINE K == launch[t]
<1>1. launch \in [Launches -> Locals] /\ K \in Locals /\ LocalOK(K)
  BY DEF LaunchesTyped
<1>2. K.phase = "uuid" /\ K.uuid = NoUuid
  BY <1>1 DEF GenerateUuid, At, LocalOK
<1>3. PICK nanos \in Clock :
        launch' = [launch EXCEPT ![t].phase = "prepare", ![t].uuid = ContainerId(nanos, counter)]
  BY DEF GenerateUuid
<1> DEFINE id == ContainerId(nanos, counter)
           L == [K EXCEPT !.phase = "prepare", !.uuid = id]
<1>4. IsFiniteSet(Drawn) /\ Cardinality(Drawn) < Cardinality(Launches) /\ Cardinality(Drawn) \in Nat
  <2>1. Drawn \subseteq Launches /\ t \in Launches \ Drawn /\ IsFiniteSet(Launches)
    BY <1>2, UuidAssumption DEF Drawn
  <2> QED BY <2>1, FS_Subset, FS_CardinalityType
<1>5. counter \in Nat /\ counter < UuidWord /\ counter \in Words
  <2>1. counter = Cardinality(Drawn)
    BY DEF IdsDistinct
  <2>2. UuidWord \in Nat /\ Cardinality(Launches) <= UuidWord
    BY UuidAssumption
  <2>3. Cardinality(Launches) \in Nat
    BY UuidAssumption, FS_CardinalityType
  <2> QED BY <1>4, <2>1, <2>2, <2>3 DEF Words
<1>6. id \in Component /\ id # NoUuid
  BY <1>5, IdType
<1>7. launch' = [launch EXCEPT ![t] = L]
  BY <1>1, <1>3
<1>8. /\ L \in Locals /\ L.uuid = id /\ L.phase = "prepare" /\ L.app = K.app /\ L.exe = K.exe
      /\ L.ipa = K.ipa /\ L.i = K.i /\ L.source = K.source
  <2> HIDE DEF id
  <2> QED BY <1>1, <1>6 DEF Locals, Phases
<1> HIDE DEF L, id
<1>9. LocalOK(L)
  BY <1>1, <1>2, <1>6, <1>8 DEF LocalOK, Begun
<1>10. launch'[t] = L /\ \A u \in Launches \ {t} : launch'[u] = launch[u]
  BY <1>1, <1>7
<1>11. LaunchesTyped'
  <2>1. launch' \in [Launches -> Locals] /\ \A u \in Launches : LocalOK(launch'[u])
    BY <1>1, <1>7, <1>8, <1>9, <1>10 DEF LaunchesTyped
  <2> QED BY <2>1 DEF LaunchesTyped, LocalOK
<1>12. counter' = counter + 1
  BY DEF GenerateUuid
<1>13. Drawn' = Drawn \cup {t} /\ t \notin Drawn
  BY <1>2, <1>6, <1>8, <1>10 DEF Drawn
<1>14. counter' = Cardinality(Drawn')
  <2>1. counter = Cardinality(Drawn)
    BY DEF IdsDistinct
  <2>2. Cardinality(Drawn \cup {t}) = Cardinality(Drawn) + 1
    BY <1>4, <1>13, FS_AddElement
  <2> QED BY <1>12, <1>13, <2>1, <2>2
<1>15. \A u \in Drawn : \E n \in Clock, s \in Words : s < counter /\ launch[u].uuid = ContainerId(n, s)
  BY DEF IdsDistinct
<1>16. ASSUME NEW u \in Drawn PROVE launch[u].uuid # id
  <2>1. PICK n \in Clock, s \in Words : s < counter /\ launch[u].uuid = ContainerId(n, s)
    BY <1>15
  <2> SUFFICES ASSUME launch[u].uuid = id PROVE FALSE
    OBVIOUS
  <2>2. ContainerId(n, s) = ContainerId(nanos, counter)
    BY <2>1 DEF id
  <2>3. s = counter
    BY <1>5, <2>2, IdTellsTurn
  <2> QED BY <1>5, <2>1, <2>3
<1>17. ASSUME NEW u \in Drawn'
       PROVE  \E n \in Clock, s \in Words : s < counter' /\ launch'[u].uuid = ContainerId(n, s)
  <2>1. CASE u = t
    <3>1. counter < counter' /\ launch'[u].uuid = ContainerId(nanos, counter)
      BY <1>5, <1>8, <1>10, <1>12, <2>1 DEF id
    <3> QED BY <1>5, <3>1
  <2>2. CASE u # t
    <3>1. u \in Drawn /\ launch'[u] = launch[u]
      BY <1>10, <1>13, <2>2 DEF Drawn
    <3>2. PICK n \in Clock, s \in Words : s < counter /\ launch[u].uuid = ContainerId(n, s)
      BY <1>15, <3>1
    <3>3. s < counter'
      <4>1. s \in Nat
        BY UuidAssumption DEF Words
      <4> QED BY <1>5, <1>12, <3>2, <4>1
    <3> QED BY <3>1, <3>2, <3>3
  <2> QED BY <2>1, <2>2
<1>18. ASSUME NEW u \in Launches, NEW v \in Launches, u # v, launch'[u].uuid # NoUuid
       PROVE  launch'[u].uuid # launch'[v].uuid
  <2>1. \A x, y \in Launches : x # y /\ launch[x].uuid # NoUuid => launch[x].uuid # launch[y].uuid
    BY DEF IdsDistinct
  <2>2. \A x \in Launches \ {t} : launch[x].uuid # id
    BY <1>6, <1>16 DEF Drawn
  <2> QED BY <1>8, <1>10, <1>18, <2>1, <2>2
<1>19. IdsDistinct'
  BY <1>14, <1>17, <1>18 DEF IdsDistinct
<1>20. \A u \in Launches : launch[u].uuid # NoUuid => launch'[u] = launch[u]
  BY <1>2, <1>10
<1> QED BY <1>10, <1>11, <1>19, <1>20

-----------------------------------------------------------------------------
(* The host's tree. *)

LEMMA ParentsAre ==
  ASSUME NEW p \in HostPaths, NEW q \in Parents(p)
  PROVE  /\ q \in HostPaths /\ Len(q) \in Nat /\ Len(p) \in Nat /\ Len(q) < Len(p)
         /\ Parents(q) \subseteq Parents(p)
<1>1. p \in Seq(HostComponent) /\ Len(p) \in Nat
  BY LenProperties DEF HostPaths
<1>2. PICK n \in 1 .. Len(p) - 1 : q = SubSeq(p, 1, n)
  BY DEF Parents
<1>3. n \in 1 .. Len(p) /\ n < Len(p) /\ n \in Nat /\ \A i \in 1 .. n : p[i] \in HostComponent
  BY <1>1, <1>2, ElementOfSeq
<1>4. q \in Seq(HostComponent) /\ Len(q) = n
  BY <1>2, <1>3, SubSeqProperties
<1>5. q # << >>
  BY <1>3, <1>4, LongIsNotEmpty
<1>6. ASSUME NEW r \in Parents(q) PROVE r \in Parents(p)
  <2>1. PICK m \in 1 .. Len(q) - 1 : r = SubSeq(q, 1, m)
    BY DEF Parents
  <2>2. 1 \in 1 .. Len(p) /\ 1 \in 1 .. n - 1 + 1 /\ m \in 1 .. n - 1 + 1
    BY <1>1, <1>3, <1>4, <2>1
  <2>3. SubSeq(SubSeq(p, 1, n), 1, m) = SubSeq(p, 1 + 1 - 1, 1 + m - 1)
    BY <1>1, <1>3, <2>2, SubSeqOfSubSeq
  <2>4. r = SubSeq(p, 1, m) /\ m \in 1 .. Len(p) - 1
    BY <1>1, <1>2, <1>3, <1>4, <2>1, <2>3
  <2> QED BY <2>4 DEF Parents
<1> QED BY <1>1, <1>3, <1>4, <1>5, <1>6 DEF HostPaths

LEMMA FrontIsParent ==
  ASSUME NEW p \in HostPaths, Len(p) >= 2
  PROVE  /\ Front(p) \in HostPaths /\ Front(p) \in Parents(p)
         /\ Parents(p) \subseteq Parents(Front(p)) \cup {Front(p)}
<1>1. p \in Seq(HostComponent) /\ Len(p) \in Nat
  BY LenProperties DEF HostPaths
<1> DEFINE n == Len(p) - 1
<1>2. n \in 1 .. Len(p) - 1
  BY <1>1
<1>3. Front(p) \in Parents(p)
  BY <1>2 DEF Parents, Front
<1>4. Front(p) \in HostPaths
  BY <1>3, ParentsAre
<1>5. n \in 1 .. Len(p) /\ \A i \in 1 .. n : p[i] \in HostComponent
  BY <1>1, <1>2, ElementOfSeq
<1>6. Len(Front(p)) = n
  BY <1>2, <1>5, SubSeqProperties DEF Front
<1>7. ASSUME NEW r \in Parents(p), r # Front(p) PROVE r \in Parents(Front(p))
  <2>1. PICK m \in 1 .. Len(p) - 1 : r = SubSeq(p, 1, m)
    BY DEF Parents
  <2>2. m # n
    BY <1>7, <2>1 DEF Front
  <2>3. m \in 1 .. n - 1 /\ m \in 1 .. n - 1 + 1 /\ 1 \in 1 .. Len(p) /\ 1 \in 1 .. n - 1 + 1
    BY <1>1, <2>1, <2>2
  <2> HIDE DEF n
  <2>4. SubSeq(SubSeq(p, 1, n), 1, m) = SubSeq(p, 1 + 1 - 1, 1 + m - 1)
    BY <1>1, <1>5, <2>3, SubSeqOfSubSeq
  <2>5. r = SubSeq(Front(p), 1, m)
    <3>1. Front(p) = SubSeq(p, 1, n)
      BY DEF Front, n
    <3>2. 1 + 1 - 1 = 1 /\ 1 + m - 1 = m
      BY <2>3
    <3> QED BY <2>1, <2>4, <3>1, <3>2
  <2> QED BY <1>6, <2>3, <2>5 DEF Parents
<1> QED BY <1>3, <1>4, <1>7

\* create_dir_all of the paths of D.
Created(D) == UNION {Parents(d) \cup {d} : d \in D}

LEMMA CreatedIs ==
  ASSUME NEW D, D \subseteq HostPaths
  PROVE  Created(D) \subseteq HostPaths /\ \A d \in Created(D) : Parents(d) \subseteq Created(D)
<1> SUFFICES ASSUME NEW d \in Created(D)
             PROVE  d \in HostPaths /\ Parents(d) \subseteq Created(D)
  OBVIOUS
<1>1. PICK e \in D : d \in Parents(e) \cup {e}
  BY DEF Created
<1>2. Parents(e) \subseteq Created(D)
  BY DEF Created
<1>3. CASE d = e
  BY <1>2, <1>3
<1>4. CASE d \in Parents(e)
  <2>1. d \in HostPaths /\ Parents(d) \subseteq Parents(e)
    BY <1>4, ParentsAre
  <2> QED BY <1>2, <2>1
<1> QED BY <1>1, <1>3, <1>4

LEMMA DirsKeep ==
  ASSUME DirsClosed, NEW D, D \subseteq HostPaths, dirs' = dirs \cup Created(D)
  PROVE  DirsClosed'
<1>1. Created(D) \subseteq HostPaths /\ \A d \in Created(D) : Parents(d) \subseteq Created(D)
  BY CreatedIs
<1>2. dirs \subseteq HostPaths /\ \A d \in dirs : Parents(d) \subseteq dirs
  BY DEF DirsClosed
<1>3. dirs' \subseteq HostPaths /\ \A d \in dirs' : Parents(d) \subseteq dirs'
  BY <1>1, <1>2
<1> QED BY <1>3 DEF DirsClosed

\* A file keeps its place and its owner while directories are added beside it.
FileOK(f) ==
  /\ f \in HostPaths \ dirs /\ Parents(f) \subseteq dirs
  /\ launch[files[f].by].uuid # NoUuid
  /\ IsPrefix(HostRoot(launch[files[f].by].uuid), f)

LEMMA FileKeeps ==
  ASSUME FilesOwned, NEW D, dirs' = dirs \cup Created(D), \A d \in D : CanCreateDir(d),
         NEW f \in DOMAIN files, f \in DOMAIN files', files'[f].by = files[f].by,
         \A u \in Launches : launch[u].uuid # NoUuid => launch'[u].uuid = launch[u].uuid
  PROVE  FileOK(f)'
<1>1. FileOK(f) /\ files[f].by \in Launches
  BY DEF FilesOwned, FileOK
<1>2. f \notin Created(D)
  BY DEF CanCreateDir, Created
<1>3. launch'[files'[f].by].uuid = launch[files[f].by].uuid
  BY <1>1 DEF FileOK
<1>4. /\ f \in HostPaths \ dirs' /\ Parents(f) \subseteq dirs'
      /\ launch'[files'[f].by].uuid # NoUuid
      /\ IsPrefix(HostRoot(launch'[files'[f].by].uuid), f)
  BY <1>1, <1>2, <1>3 DEF FileOK
<1> QED BY <1>4 DEF FileOK

LEMMA FilesKeep ==
  ASSUME FilesOwned, NEW D, dirs' = dirs \cup Created(D), \A d \in D : CanCreateDir(d),
         files' = files,
         \A u \in Launches : launch[u].uuid # NoUuid => launch'[u].uuid = launch[u].uuid
  PROVE  FilesOwned'
<1>1. \A f \in DOMAIN files : FileOK(f)'
  BY FileKeeps
<1>2. files \in [DOMAIN files -> [by : Launches, data : Datas]]
  BY DEF FilesOwned
<1> QED BY <1>1, <1>2 DEF FilesOwned, FileOK

LEMMA StoreKeeps ==
  ASSUME FilesOwned, NEW D, dirs' = dirs \cup Created(D), \A d \in D : CanCreateDir(d),
         NEW t \in Launches, NEW path, NEW data \in Datas, Store(path, t, data),
         path \in HostPaths, path \notin dirs', Parents(path) \subseteq dirs',
         launch[t].uuid # NoUuid, IsPrefix(HostRoot(launch[t].uuid), path),
         \A u \in Launches : launch[u].uuid # NoUuid => launch'[u].uuid = launch[u].uuid
  PROVE  FilesOwned'
<1> DEFINE rec == [by |-> t, data |-> data]
<1>1. /\ DOMAIN files' = DOMAIN files \cup {path} /\ files'[path] = rec
      /\ \A f \in DOMAIN files \ {path} : files'[f] = files[f]
      /\ files' = [f \in DOMAIN files' |-> files'[f]]
  BY DEF Store
<1>2. files \in [DOMAIN files -> [by : Launches, data : Datas]]
  BY DEF FilesOwned
<1>3. \A f \in DOMAIN files' : files'[f] \in [by : Launches, data : Datas]
  BY <1>1, <1>2
<1>4. files' \in [DOMAIN files' -> [by : Launches, data : Datas]]
  BY <1>1, <1>3
<1>5. FileOK(path)'
  <2>1. files'[path].by = t /\ launch'[t].uuid = launch[t].uuid
    BY <1>1
  <2>2. /\ path \in HostPaths \ dirs' /\ Parents(path) \subseteq dirs'
        /\ launch'[files'[path].by].uuid # NoUuid
        /\ IsPrefix(HostRoot(launch'[files'[path].by].uuid), path)
    BY <2>1
  <2> QED BY <2>2 DEF FileOK
<1>6. ASSUME NEW f \in DOMAIN files', f # path PROVE FileOK(f)'
  <2>1. f \in DOMAIN files /\ f \in DOMAIN files' /\ files'[f].by = files[f].by
    BY <1>1, <1>6
  <2> QED BY <2>1, FileKeeps
<1>7. \A f \in DOMAIN files' : FileOK(f)'
  BY <1>5, <1>6
<1> QED BY <1>4, <1>7 DEF FilesOwned, FileOK

\* prepare makes paths.
LEMMA LayoutPaths ==
  ASSUME NEW t \in Launches, LocalOK(launch[t]), launch[t].phase \in Begun
  PROVE  Range(Layout(t)) \subseteq HostPaths
<1> DEFINE r == HostRoot(launch[t].uuid)
           bn == BundleName(launch[t].app)
<1>1. launch[t].uuid \in Component /\ bn \in Component
  BY DEF LocalOK, Locals, PlainNames
<1>2. r \in Seq(HostComponent) /\ Len(r) = 3
  BY <1>1 DEF HostRoot, HostComponent
<1>3. Range(Layout(t)) = {r \o <<bn>>, r \o <<"Documents">>, r \o <<"Library", "Caches">>,
                          r \o <<"Library", "Preferences">>, r \o <<"tmp">>}
  <2> DEFINE a == r \o <<bn>>
             b == r \o <<"Documents">>
             c == r \o <<"Library", "Caches">>
             d == r \o <<"Library", "Preferences">>
             e == r \o <<"tmp">>
  <2>1. Layout(t) = <<a, b, c, d, e>>
    BY DEF Layout, SandboxLayout
  <2> HIDE DEF a, b, c, d, e
  <2>2. Range(Layout(t)) = {a, b, c, d, e}
    BY <2>1 DEF Range
  <2> QED BY <2>2 DEF a, b, c, d, e
<1>4. /\ <<bn>> \in Seq(HostComponent) /\ <<"Documents">> \in Seq(HostComponent)
      /\ <<"tmp">> \in Seq(HostComponent) /\ <<"Library", "Caches">> \in Seq(HostComponent)
      /\ <<"Library", "Preferences">> \in Seq(HostComponent)
  BY <1>1 DEF HostComponent
<1> HIDE DEF r, bn
<1>5. ASSUME NEW s \in Seq(HostComponent) PROVE r \o s \in HostPaths
  <2>1. r \o s \in Seq(HostComponent) /\ Len(r \o s) = Len(r) + Len(s) /\ Len(s) \in Nat
    BY <1>2, ConcatProperties, LenProperties
  <2>2. r \o s # << >>
    BY <1>2, <2>1, LongIsNotEmpty
  <2> QED BY <2>1, <2>2 DEF HostPaths
<1> QED BY <1>3, <1>4, <1>5

\* What translate answers is a path of plain names below the container, or
\* below a tree of the system image, and then read-only: Sandbox::translate
\* cannot be led out of its bases by any path of any length.
THEOREM TranslateStaysInside ==
  ASSUME NEW uuid \in Component, NEW app, BundleName(app) \in Component,
         NEW path \in Seq(Component), Translate(uuid, app, path).ok
  PROVE  \E names \in Seq(PlainNames) :
           IF Translate(uuid, app, path).read_only
           THEN \E tree \in ReadOnlyTrees :
                  Translate(uuid, app, path).host = (SystemRoot \o Tail(tree)) \o names
           ELSE Translate(uuid, app, path).host = HostRoot(uuid) \o names
<1> DEFINE abs == Absolute(uuid, app, path)
           got == Translate(uuid, app, path)
           trees == {x \in ReadOnlyTrees : IsPrefix(x, abs)}
<1>1. abs \in Seq(Component)
  BY AbsoluteType
<1>2. Len(IosPrefix(uuid)) \in Nat /\ \A x \in ReadOnlyTrees : Len(x) \in Nat
  BY DEF IosPrefix, ReadOnlyTrees
<1>3. ASSUME NEW base, NEW rest \in Seq(Component), NEW ro \in BOOLEAN, JoinChecked(base, rest, ro).ok
      PROVE  /\ JoinChecked(base, rest, ro).read_only = ro
             /\ \E names \in Seq(PlainNames) : JoinChecked(base, rest, ro).host = base \o names
  <2>1. NormalizeIosPath(rest).out \in Seq(PlainNames)
    BY NormalizePlain
  <2>2. NormalizeIosPath(rest).ok
    BY <1>3 DEF JoinChecked, Refused
  <2>3. JoinChecked(base, rest, ro)
          = [ok |-> TRUE, host |-> base \o NormalizeIosPath(rest).out, read_only |-> ro]
    BY <2>2 DEF JoinChecked
  <2>4. /\ JoinChecked(base, rest, ro).read_only = ro
        /\ JoinChecked(base, rest, ro).host = base \o NormalizeIosPath(rest).out
    BY <2>3
  <2> QED BY <2>1, <2>4, Zenon
<1> HIDE DEF abs
<1>4. CASE IsPrefix(IosPrefix(uuid), abs)
  <2>1. got = JoinChecked(HostRoot(uuid), RestAfter(IosPrefix(uuid), abs), FALSE)
    BY <1>4 DEF Translate, abs
  <2>2. RestAfter(IosPrefix(uuid), abs) \in Seq(Component)
    BY <1>1, <1>2, RestType
  <2> HIDE DEF got
  <2>3. got.ok
    BY DEF got
  <2>4. ~ got.read_only /\ \E names \in Seq(PlainNames) : got.host = HostRoot(uuid) \o names
    BY <1>3, <2>1, <2>2, <2>3
  <2> QED BY <2>4 DEF got
<1>5. CASE ~ IsPrefix(IosPrefix(uuid), abs) /\ trees # {}
  <2> DEFINE tree == CHOOSE x \in trees : TRUE
  <2>1. tree \in trees
    BY <1>5
  <2>2. got = JoinChecked(SystemRoot \o Tail(tree), RestAfter(tree, abs), TRUE)
    BY <1>5 DEF Translate, abs
  <2> HIDE DEF tree, got
  <2>3. RestAfter(tree, abs) \in Seq(Component) /\ tree \in ReadOnlyTrees
    BY <1>1, <1>2, <2>1, RestType
  <2>4. got.ok
    BY DEF got
  <2>5. /\ got.read_only
        /\ \E names \in Seq(PlainNames) : got.host = (SystemRoot \o Tail(tree)) \o names
    BY <1>3, <2>2, <2>3, <2>4
  <2> QED BY <2>3, <2>5 DEF got
<1>6. CASE ~ IsPrefix(IosPrefix(uuid), abs) /\ trees = {}
  <2>1. got = Refused
    BY <1>6 DEF Translate, abs
  <2> QED BY <2>1 DEF Refused
<1> QED BY <1>4, <1>5, <1>6

\* A path of the constants, with the id of the container filled in.
LEMMA NamedType ==
  ASSUME NEW t \in Launches, launch[t].uuid \in Component, NEW p \in GuestPaths \cup SavePaths
  PROVE  Named(t, p) \in Seq(Component)
<1>1. p \in Seq(Component)
  BY ArchiveAssumption
<1>2. Len(p) \in Nat /\ DOMAIN p = 1 .. Len(p) /\ \A i \in 1 .. Len(p) : p[i] \in Component
  BY <1>1
<1>3. Named(t, p) \in [1 .. Len(p) -> Component]
  BY <1>2 DEF Named
<1> QED BY <1>2, <1>3, FcnIsSeq

-----------------------------------------------------------------------------
(* The steps that write to the host, and the ones that do not. *)

\* Ids that are drawn stay.
UuidsStay == \A u \in Launches : launch[u].uuid # NoUuid => launch'[u].uuid = launch[u].uuid

LEMMA TreeSame ==
  ASSUME DirsClosed, FilesOwned, UuidsStay, UNCHANGED <<dirs, files>>
  PROVE  DirsClosed' /\ FilesOwned'
<1>1. dirs' = dirs \cup Created({}) /\ files' = files
  BY DEF Created
<1>2. DirsClosed'
  BY <1>1, DirsKeep
<1>3. FilesOwned'
  BY <1>1, FilesKeep DEF UuidsStay
<1> QED BY <1>2, <1>3

LEMMA TreePrepared ==
  ASSUME LaunchesTyped, DirsClosed, FilesOwned, UuidsStay, NEW t \in Launches, Prepare(t)
  PROVE  DirsClosed' /\ FilesOwned'
<1> DEFINE D == Range(Layout(t))
<1>1. D \subseteq HostPaths
  BY LayoutPaths DEF LaunchesTyped, Prepare, At, Begun
<1>2. dirs' = dirs \cup Created(D) /\ files' = files /\ \A d \in D : CanCreateDir(d)
  BY DEF Prepare, Created
<1> HIDE DEF D
<1>3. DirsClosed'
  BY <1>1, <1>2, DirsKeep
<1>4. FilesOwned'
  BY <1>2, FilesKeep DEF UuidsStay
<1> QED BY <1>3, <1>4

\* The entry at hand is one of the archive's, and where it goes.
LEMMA EntryAtHand ==
  ASSUME LaunchesTyped, NEW t \in Launches, Extracting(t)
  PROVE  /\ launch[t].phase = "extract" /\ launch[t].phase \in Begun /\ LocalOK(launch[t])
         /\ launch[t].i \in 1 .. Len(launch[t].source)
         /\ Entry(t) \in KnownEntries /\ Entry(t).data \in Datas
<1>1. launch[t].phase = "extract" /\ LocalOK(launch[t])
  BY DEF LaunchesTyped, Extracting, At
<1>2. launch[t].source \in Seq(KnownEntries) /\ launch[t].i \in 1 .. Len(launch[t].source) + 1
  BY <1>1 DEF LocalOK, Locals
<1>3. launch[t].i \in 1 .. Len(launch[t].source)
  <2>1. Len(launch[t].source) \in Nat
    BY <1>2, LenProperties
  <2> QED BY <1>2, <2>1 DEF Extracting
<1>4. Entry(t) \in KnownEntries
  BY <1>2, <1>3, ElementOfSeq DEF Entry
<1> QED BY <1>1, <1>3, <1>4 DEF Begun, Datas

LEMMA TreeExtracted ==
  ASSUME LaunchesTyped, DirsClosed, FilesOwned, UuidsStay, NEW t \in Launches, ExtractEntry(t)
  PROVE  DirsClosed' /\ FilesOwned'
<1> DEFINE e == Entry(t)
           out == OutPath(t, Rel(t, e.path))
<1>1. /\ launch[t].phase \in Begun /\ LocalOK(launch[t]) /\ e \in KnownEntries /\ e.data \in Datas
      /\ launch[t].uuid # NoUuid
  BY EntryAtHand DEF ExtractEntry, LocalOK
<1>2. out \in HostPaths /\ Len(out) >= 4 /\ IsPrefix(HostRoot(launch[t].uuid), out)
  BY <1>1, EntryTyped
<1>3. \/ CanCreateDir(out) /\ CreateDirAll(out) /\ files' = files
      \/ /\ CanCreateDir(Front(out)) /\ out \notin dirs
         /\ CreateDirAll(Front(out)) /\ Store(out, t, e.data)
  BY DEF ExtractEntry
<1> HIDE DEF e, out
<1>4. CASE CanCreateDir(out) /\ CreateDirAll(out) /\ files' = files
  <2>1. dirs' = dirs \cup Created({out}) /\ {out} \subseteq HostPaths /\ \A d \in {out} : CanCreateDir(d)
    BY <1>2, <1>4 DEF Created, CreateDirAll
  <2>2. DirsClosed'
    BY <2>1, DirsKeep
  <2>3. FilesOwned'
    BY <1>4, <2>1, FilesKeep DEF UuidsStay
  <2> QED BY <2>2, <2>3
<1>5. CASE /\ CanCreateDir(Front(out)) /\ out \notin dirs
           /\ CreateDirAll(Front(out)) /\ Store(out, t, e.data)
  <2> DEFINE D == {Front(out)}
  <2>1. /\ Front(out) \in HostPaths /\ Front(out) \in Parents(out)
        /\ Parents(out) \subseteq Parents(Front(out)) \cup {Front(out)}
    <3>1. Len(out) >= 2
      <4>1. Len(out) \in Nat
        BY <1>2, LenProperties DEF HostPaths
      <4> QED BY <1>2, <4>1
    <3> QED BY <1>2, <3>1, FrontIsParent
  <2>2. dirs' = dirs \cup Created(D) /\ D \subseteq HostPaths /\ \A d \in D : CanCreateDir(d)
    BY <1>5, <2>1 DEF Created, CreateDirAll
  <2>3. Parents(out) \subseteq dirs'
    BY <1>5, <2>1 DEF CreateDirAll
  <2>4. \A q \in Parents(Front(out)) \cup {Front(out)} : q # out
    <3>1. \A q \in Parents(out) : Len(q) \in Nat /\ Len(out) \in Nat /\ Len(q) < Len(out)
      BY <1>2, ParentsAre
    <3>2. Parents(Front(out)) \subseteq Parents(out)
      BY <1>2, <2>1, ParentsAre
    <3> QED BY <2>1, <3>1, <3>2
  <2>5. out \notin dirs'
    BY <1>5, <2>4 DEF CreateDirAll
  <2> HIDE DEF D
  <2>6. DirsClosed'
    BY <2>2, DirsKeep
  <2>7. Store(out, t, e.data)
    BY <1>5
  <2>8. FilesOwned'
    BY <1>1, <1>2, <2>2, <2>3, <2>5, <2>7, StoreKeeps DEF UuidsStay
  <2> QED BY <2>6, <2>8
<1> QED BY <1>3, <1>4, <1>5

\* Where a guest may write.
LEMMA SaveInside ==
  ASSUME LaunchesTyped, NEW t \in Launches, NEW p \in SavePaths, GuestSaves(t, p)
  PROVE  LET host == GuestPath(t, Named(t, p)).host
         IN  /\ host \in HostPaths /\ Len(host) >= 3 /\ IsPrefix(HostRoot(launch[t].uuid), host)
             /\ host \notin dirs /\ Front(host) \in dirs /\ Store(host, t, Saved)
             /\ launch[t].uuid # NoUuid
<1> DEFINE to == GuestPath(t, Named(t, p))
           u == launch[t].uuid
           r == HostRoot(u)
<1>1. /\ LocalOK(launch[t]) /\ launch[t].phase = "running" /\ u \in Component /\ u # NoUuid
      /\ BundleName(launch[t].app) \in Component
  BY DEF LaunchesTyped, LocalOK, Locals, Begun, PlainNames, GuestSaves, At
<1>2. Named(t, p) \in Seq(Component)
  BY <1>1, NamedType
<1>3. to.ok /\ ~ to.read_only /\ to.host \notin dirs /\ Front(to.host) \in dirs /\ Store(to.host, t, Saved)
  BY DEF GuestSaves
<1>4. PICK names \in Seq(PlainNames) : to.host = r \o names
  BY <1>1, <1>2, <1>3, TranslateStaysInside DEF GuestPath
<1>5. r \in Seq(HostComponent) /\ Len(r) = 3
  BY <1>1 DEF HostRoot, HostComponent
<1>6. names \in Seq(HostComponent)
  <2>1. PlainNames \subseteq HostComponent
    BY DEF PlainNames, HostComponent
  <2> QED BY <2>1, SeqMonotonic
<1> HIDE DEF r, to
<1>7. /\ r \o names \in Seq(HostComponent) /\ Len(r \o names) = Len(r) + Len(names)
      /\ Len(names) \in Nat /\ IsPrefix(r, r \o names)
  BY <1>5, <1>6, PrefixOfConcat, ConcatProperties, LenProperties
<1>8. Len(r \o names) >= 3 /\ r \o names # << >>
  BY <1>5, <1>7, LongIsNotEmpty
<1>9. to.host \in HostPaths /\ Len(to.host) >= 3 /\ IsPrefix(r, to.host)
  BY <1>4, <1>7, <1>8 DEF HostPaths
<1> QED BY <1>1, <1>3, <1>9 DEF to, r

LEMMA TreeSaved ==
  ASSUME LaunchesTyped, DirsClosed, FilesOwned, UuidsStay, NEW t \in Launches, NEW p \in SavePaths,
         GuestSaves(t, p)
  PROVE  DirsClosed' /\ FilesOwned'
<1> DEFINE host == GuestPath(t, Named(t, p)).host
<1>1. /\ host \in HostPaths /\ Len(host) >= 3 /\ IsPrefix(HostRoot(launch[t].uuid), host)
      /\ host \notin dirs /\ Front(host) \in dirs /\ Store(host, t, Saved)
      /\ launch[t].uuid # NoUuid
  BY SaveInside
<1> HIDE DEF host
<1>2. dirs' = dirs \cup Created({}) /\ dirs' = dirs
  BY DEF GuestSaves, Created
<1>3. Parents(host) \subseteq Parents(Front(host)) \cup {Front(host)}
  <2>1. Len(host) >= 2
    BY <1>1, LenProperties DEF HostPaths
  <2> QED BY <1>1, <2>1, FrontIsParent
<1>4. Parents(host) \subseteq dirs
  BY <1>1, <1>3 DEF DirsClosed
<1>5. DirsClosed'
  BY <1>2, DirsKeep
<1>6. Saved \in Datas
  BY DEF Datas
<1>7. FilesOwned'
  BY <1>1, <1>2, <1>4, <1>6, StoreKeeps DEF UuidsStay
<1> QED BY <1>5, <1>7

-----------------------------------------------------------------------------
(* The scan and the user. *)

\* Steps of the scan and of the user.
ScanStep ==
  \/ StartScan \/ ScanFails \/ ScanDone \/ ChangeArchive
  \/ \E p \in IpaPaths : ScanEntry(p) \/ ScanSkips(p)

LEMMA ScanKeepsTypes ==
  ASSUME ArchivesTyped, ScanTyped, ScanStep
  PROVE  ArchivesTyped' /\ ScanTyped' /\ UNCHANGED <<launch, counter, dirs, files>>
<1> DEFINE S == [phase : {"idle", "scanning", "done", "failed"}, todo : SUBSET IpaPaths,
                 found : Seq(Listings), steady : SUBSET IpaPaths]
           Fresh(s) == \A i \in DOMAIN s.found : s.found[i].ipa \notin s.todo
<1>1. scan \in S /\ Fresh(scan)
  BY DEF ScanTyped
<1>2. scan.found \in Seq(Listings) /\ DOMAIN scan.found = 1 .. Len(scan.found) /\ Len(scan.found) \in Nat
  BY <1>1, LenProperties
<1>3. ASSUME scan' \in S, Fresh(scan') PROVE ScanTyped'
  BY <1>3 DEF ScanTyped
<1>4. UNCHANGED <<archives, changes>> => ArchivesTyped'
  BY DEF ArchivesTyped
<1>5. << >> \in Seq(Listings) /\ DOMAIN << >> = {}
  BY EmptySeq
<1>6. CASE StartScan
  <2> DEFINE present == {p \in IpaPaths : archives[p] # NoArchive}
             s == [phase |-> "scanning", todo |-> present, found |-> << >>, steady |-> present]
  <2>1. scan' = s /\ UNCHANGED <<archives, changes, launch, counter, dirs, files>>
    BY <1>6 DEF StartScan
  <2>2. s \in S /\ Fresh(s)
    BY <1>5
  <2> QED BY <1>3, <1>4, <2>1, <2>2
<1>7. CASE ScanFails
  <2> DEFINE s == [scan EXCEPT !.phase = "failed", !.found = << >>]
  <2>1. scan' = s /\ UNCHANGED <<archives, changes, launch, counter, dirs, files>>
    BY <1>7 DEF ScanFails
  <2>2. s \in S /\ Fresh(s)
    BY <1>1, <1>5
  <2> QED BY <1>3, <1>4, <2>1, <2>2
<1>8. CASE ScanDone
  <2>1. PICK order \in SortOrders(scan.found) :
          scan' = [scan EXCEPT !.phase = "done",
                     !.found = [i \in DOMAIN scan.found |-> scan.found[order[i]]]]
    BY <1>8 DEF ScanDone
  <2> DEFINE g == [i \in DOMAIN scan.found |-> scan.found[order[i]]]
             s == [scan EXCEPT !.phase = "done", !.found = g]
  <2>2. order \in [DOMAIN scan.found -> DOMAIN scan.found]
    BY <2>1 DEF SortOrders, Bijection, Surjection
  <2>3. g \in [1 .. Len(scan.found) -> Listings]
    BY <1>2, <2>2, ElementOfSeq
  <2>4. g \in Seq(Listings)
    BY <1>2, <2>3, FcnIsSeq
  <2>5. \A i \in DOMAIN g : g[i].ipa \notin scan.todo
    BY <1>1, <2>2
  <2>6. DOMAIN g = DOMAIN scan.found
    OBVIOUS
  <2>7. UNCHANGED <<archives, changes, launch, counter, dirs, files>>
    BY <1>8 DEF ScanDone
  <2>8. scan' = s
    BY <2>1
  <2> HIDE DEF g
  <2>9. s \in S /\ s.found = g /\ s.todo = scan.todo
    BY <1>1, <2>4
  <2>10. Fresh(s)
    BY <2>5, <2>9
  <2> QED BY <1>3, <1>4, <2>7, <2>8, <2>9, <2>10
<1>9. CASE ChangeArchive
  <2>1. PICK p \in IpaPaths, a \in Archives \cup {NoArchive} :
          archives' = [archives EXCEPT ![p] = a] /\ scan' = [scan EXCEPT !.steady = @ \ {p}]
    BY <1>9 DEF ChangeArchive
  <2> DEFINE s == [scan EXCEPT !.steady = @ \ {p}]
  <2>2. UNCHANGED <<launch, counter, dirs, files>> /\ changes < MaxChanges /\ changes' = changes + 1
    BY <1>9 DEF ChangeArchive
  <2>3. changes' \in 0 .. MaxChanges
    BY <2>2, ArchiveAssumption DEF ArchivesTyped
  <2>4. a \in Known \cup {NoArchive}
    BY DEF Known
  <2>5. archives' \in [IpaPaths -> Known \cup {NoArchive}]
    BY <2>1, <2>4 DEF ArchivesTyped
  <2>6. s \in S /\ s.found = scan.found /\ s.todo = scan.todo
    BY <1>1
  <2>7. Fresh(s)
    BY <1>1, <2>6
  <2> QED BY <1>3, <2>1, <2>2, <2>3, <2>5, <2>6, <2>7 DEF ArchivesTyped
<1>10. ASSUME NEW p \in IpaPaths, ScanEntry(p)
       PROVE  ArchivesTyped' /\ ScanTyped' /\ UNCHANGED <<launch, counter, dirs, files>>
  <2>1. PICK b \in Inspections(archives[p]) :
          scan' = [scan EXCEPT !.todo = @ \ {p}, !.found = Append(@, Listed(p, b))]
    BY <1>10 DEF ScanEntry
  <2> DEFINE x == Listed(p, b)
             g == Append(scan.found, x)
             s == [scan EXCEPT !.todo = @ \ {p}, !.found = g]
  <2>2. x \in Listings /\ x.ipa = p
    <3>1. archives[p] \in Known \cup {NoArchive}
      BY DEF ArchivesTyped
    <3>2. b.app \in Seq(Component)
      BY <3>1, InspectionTyped
    <3> QED BY <3>2 DEF Listed, Listings
  <2>3. UNCHANGED <<archives, changes, launch, counter, dirs, files>> /\ scan' = s
    BY <1>10, <2>1 DEF ScanEntry
  <2> HIDE DEF x
  <2>4. /\ g \in Seq(Listings) /\ Len(g) = Len(scan.found) + 1 /\ g[Len(scan.found) + 1] = x
        /\ \A i \in 1 .. Len(scan.found) : g[i] = scan.found[i]
    BY <1>2, <2>2, AppendProperties
  <2> HIDE DEF g
  <2>5. DOMAIN g = 1 .. Len(scan.found) + 1
    BY <2>4, LenProperties
  <2>6. s \in S /\ s.found = g /\ s.todo = scan.todo \ {p}
    BY <1>1, <2>4
  <2>7. \A i \in DOMAIN g : g[i].ipa \notin scan.todo \ {p}
    BY <1>1, <1>2, <2>2, <2>4, <2>5
  <2> QED BY <1>3, <1>4, <2>3, <2>6, <2>7
<1>11. ASSUME NEW p \in IpaPaths, ScanSkips(p)
       PROVE  ArchivesTyped' /\ ScanTyped' /\ UNCHANGED <<launch, counter, dirs, files>>
  <2> DEFINE s == [scan EXCEPT !.todo = @ \ {p},
                               !.steady = IF MayBeRefused(archives[p]) THEN @ ELSE @ \ {p}]
  <2>1. scan' = s /\ UNCHANGED <<archives, changes, launch, counter, dirs, files>>
    BY <1>11 DEF ScanSkips
  <2>2. s \in S /\ s.found = scan.found /\ s.todo = scan.todo \ {p}
    BY <1>1
  <2>3. Fresh(s)
    BY <1>1, <2>2
  <2> QED BY <1>3, <1>4, <2>1, <2>2, <2>3
<1> QED BY <1>6, <1>7, <1>8, <1>9, <1>10, <1>11 DEF ScanStep

-----------------------------------------------------------------------------
(* The session invariant is inductive. *)

LEMMA SessionInit == Init => SessionInv
<1> SUFFICES ASSUME Init PROVE SessionInv
  OBVIOUS
<1>1. /\ archives \in Directories /\ changes = 0 /\ launch = [t \in Launches |-> Idle]
      /\ counter = 0 /\ dirs = {} /\ files = << >>
      /\ scan = [phase |-> "idle", todo |-> {}, found |-> << >>, steady |-> {}]
  BY DEF Init
<1>2. ArchivesTyped
  BY <1>1, ArchiveAssumption DEF ArchivesTyped
<1>3. /\ << >> \in Seq(Component) /\ << >> \in Seq(KnownEntries) /\ << >> \in Seq(Listings)
      /\ Len(<< >>) = 0 /\ DOMAIN << >> = {} /\ NoUuid \in Component
  BY EmptySeq, NamesAssumption DEF NoUuid
<1>4. Idle \in Locals
  BY <1>3 DEF Idle, Locals, Phases, Datas
<1>5. LocalOK(Idle)
  <2>1. Idle.phase = "idle" /\ Idle.uuid = NoUuid /\ Idle.i = 1 /\ Idle.source = << >>
    BY DEF Idle
  <2> QED BY <1>3, <1>4, <2>1 DEF LocalOK, Begun
<1>6. LaunchesTyped
  BY <1>1, <1>4, <1>5 DEF LaunchesTyped
<1>7. ScanTyped
  BY <1>1, <1>3 DEF ScanTyped
<1>8. IdsDistinct
  <2>1. \A t \in Launches : launch[t].uuid = NoUuid
    BY <1>1 DEF Idle
  <2>2. Drawn = {}
    BY <2>1 DEF Drawn
  <2>3. Cardinality(Drawn) = 0
    BY <2>2, FS_EmptySet
  <2> QED BY <1>1, <2>1, <2>2, <2>3 DEF IdsDistinct
<1>9. DirsClosed
  BY <1>1 DEF DirsClosed
<1>10. FilesOwned
  BY <1>1, <1>3 DEF FilesOwned
<1> QED BY <1>2, <1>6, <1>7, <1>8, <1>9, <1>10 DEF SessionInv

\* Steps of a thread: what it does to the locals, and what to the tree.
ThreadStep(t) ==
  \/ Tap(t) \/ LaunchStep(t) \/ HostRefuses(t) \/ RunEnds(t)
  \/ \E p \in SavePaths : GuestSaves(t, p)

LEMMA NextIs == Next <=> (\E t \in Launches : ThreadStep(t)) \/ ScanStep
BY DEF Next, ThreadStep, ScanStep

LEMMA ThreadFrame ==
  ASSUME SessionInv, NEW t \in Launches, ThreadStep(t)
  PROVE  /\ UNCHANGED <<archives, changes, scan>>
         /\ LaunchesTyped' /\ IdsDistinct' /\ UuidsStay
         /\ \A u \in Launches \ {t} : launch'[u] = launch[u]
<1> USE DEF SessionInv
<1>1. UNCHANGED <<archives, changes, scan>>
  BY DEF ThreadStep, Tap, LaunchStep, HostRefuses, RunEnds, GuestSaves, Inspect, InspectFails,
         GenerateUuid, Prepare, OpenArchive, SkipEntry, ExtractEntry, ExtractFails, ExtractDone,
         ReadExecutable, ReadExecutableFails, Load, LoadFails, Leave
<1>2. ASSUME OneMoves(t)
      PROVE  /\ LaunchesTyped' /\ IdsDistinct' /\ UuidsStay
             /\ \A u \in Launches \ {t} : launch'[u] = launch[u]
  <2>1. /\ LaunchesTyped' /\ counter' = counter
        /\ \A u \in Launches : launch'[u].uuid = launch[u].uuid
        /\ \A u \in Launches \ {t} : launch'[u] = launch[u]
    BY <1>2, MoveKeeps
  <2>2. IdsDistinct'
    BY <2>1, IdsKeep
  <2> QED BY <2>1, <2>2 DEF UuidsStay
<1>3. CASE GenerateUuid(t)
  BY <1>1, <1>3, DrawKeeps DEF UuidsStay
<1>4. CASE \E p \in SavePaths : GuestSaves(t, p)
  <2>1. UNCHANGED <<launch, counter>>
    BY <1>4 DEF GuestSaves
  <2>2. LaunchesTyped'
    BY <2>1 DEF LaunchesTyped, LocalOK
  <2>3. IdsDistinct'
    BY <2>1, IdsKeep
  <2> QED BY <1>1, <2>1, <2>2, <2>3 DEF UuidsStay
<1>5. CASE Tap(t) \/ (LaunchStep(t) /\ ~ GenerateUuid(t)) \/ HostRefuses(t) \/ RunEnds(t)
  <2>1. OneMoves(t)
    BY <1>5, ThreadMoves DEF LaunchStep
  <2> QED BY <1>1, <1>2, <2>1
<1> QED BY <1>3, <1>4, <1>5 DEF ThreadStep

LEMMA ThreadTree ==
  ASSUME SessionInv, NEW t \in Launches, ThreadStep(t)
  PROVE  DirsClosed' /\ FilesOwned'
<1> USE DEF SessionInv
<1>1. UuidsStay
  BY ThreadFrame
<1>2. CASE Prepare(t)
  BY <1>1, <1>2, TreePrepared
<1>3. CASE ExtractEntry(t)
  BY <1>1, <1>3, TreeExtracted
<1>4. CASE \E p \in SavePaths : GuestSaves(t, p)
  BY <1>1, <1>4, TreeSaved
<1>5. CASE \/ Tap(t) \/ HostRefuses(t) \/ RunEnds(t)
           \/ (LaunchStep(t) /\ ~ Prepare(t) /\ ~ ExtractEntry(t))
  <2>1. UNCHANGED <<dirs, files>>
    BY <1>5 DEF Tap, LaunchStep, HostRefuses, RunEnds, Inspect, InspectFails,
         GenerateUuid, OpenArchive, SkipEntry, ExtractFails, ExtractDone,
         ReadExecutable, ReadExecutableFails, Load, LoadFails, Leave
  <2> QED BY <1>1, <2>1, TreeSame
<1> QED BY <1>2, <1>3, <1>4, <1>5 DEF ThreadStep

LEMMA SessionNext == SessionInv /\ [Next]_vars => SessionInv'
<1> SUFFICES ASSUME SessionInv, [Next]_vars PROVE SessionInv'
  OBVIOUS
<1>1. ASSUME NEW t \in Launches, ThreadStep(t) PROVE SessionInv'
  <2>1. UNCHANGED <<archives, changes, scan>> /\ LaunchesTyped' /\ IdsDistinct'
    BY <1>1, ThreadFrame
  <2>2. DirsClosed' /\ FilesOwned'
    BY <1>1, ThreadTree
  <2>3. ArchivesTyped' /\ ScanTyped'
    BY <2>1 DEF SessionInv, ArchivesTyped, ScanTyped
  <2> QED BY <2>1, <2>2, <2>3 DEF SessionInv
<1>2. ASSUME UNCHANGED <<launch, counter, dirs, files>>
      PROVE  LaunchesTyped' /\ IdsDistinct' /\ DirsClosed' /\ FilesOwned'
  <2>1. LaunchesTyped'
    BY <1>2 DEF SessionInv, LaunchesTyped, LocalOK
  <2>2. IdsDistinct'
    BY <1>2, IdsKeep DEF SessionInv
  <2>3. DirsClosed' /\ FilesOwned'
    BY <1>2, TreeSame DEF SessionInv, UuidsStay
  <2> QED BY <2>1, <2>2, <2>3
<1>3. CASE ScanStep
  BY <1>2, <1>3, ScanKeepsTypes DEF SessionInv
<1>4. CASE UNCHANGED vars
  <2>1. ArchivesTyped' /\ ScanTyped' /\ UNCHANGED <<launch, counter, dirs, files>>
    BY <1>4 DEF SessionInv, ArchivesTyped, ScanTyped, vars
  <2> QED BY <1>2, <2>1 DEF SessionInv
<1> QED BY <1>1, <1>3, <1>4, NextIs

\* Types of every variable, and the parts that the theorems below need.
THEOREM SessionSafe == Spec => []SessionInv
BY SessionInit, SessionNext, PTL DEF Spec

\* The type invariant follows from it.
LEMMA SessionTypes == SessionInv => TypeOK
<1> SUFFICES ASSUME SessionInv PROVE TypeOK
  OBVIOUS
<1> USE DEF SessionInv
<1>1. counter \in 0 .. Cardinality(Launches)
  <2>1. Drawn \subseteq Launches /\ IsFiniteSet(Launches)
    BY UuidAssumption DEF Drawn
  <2>2. Cardinality(Drawn) <= Cardinality(Launches) /\ Cardinality(Drawn) \in Nat
        /\ Cardinality(Launches) \in Nat
    BY <2>1, FS_Subset, FS_CardinalityType
  <2> QED BY <2>2 DEF IdsDistinct
<1>2. ASSUME NEW t \in Launches
      PROVE  /\ DOMAIN launch[t] = DOMAIN Idle
             /\ launch[t].phase \in {"idle", "inspect", "uuid", "prepare", "open", "extract",
                                    "read", "load", "running", "done"}
             /\ launch[t].ipa \in IpaPaths \cup {Empty}
             /\ launch[t].i \in 1 .. Len(launch[t].source) + 1
             /\ launch[t].uuid = NoUuid => launch[t].phase \in {"idle", "inspect", "uuid", "done"}
  <2>1. LocalOK(launch[t]) /\ launch[t] \in Locals
    BY DEF LaunchesTyped, LocalOK
  <2>2. DOMAIN launch[t] = DOMAIN Idle
    BY <2>1 DEF Locals, Idle
  <2>3. launch[t].phase \in Phases /\ launch[t].ipa \in IpaPaths \cup {Empty}
    BY <2>1 DEF Locals
  <2> QED BY <2>1, <2>2, <2>3 DEF LocalOK, Begun, Phases
<1>3. \A f \in DOMAIN files : files[f].by \in Launches /\ Parents(f) \subseteq dirs
  BY DEF FilesOwned
<1>4. dirs \cap DOMAIN files = {}
  BY DEF FilesOwned
<1>5. /\ scan.phase \in {"idle", "scanning", "done", "failed"}
      /\ scan.todo \subseteq IpaPaths /\ scan.steady \subseteq IpaPaths
      /\ \A i \in DOMAIN scan.found : scan.found[i].ipa \in IpaPaths \ scan.todo
  <2>1. scan.found \in Seq(Listings)
    BY DEF ScanTyped
  <2>2. \A i \in DOMAIN scan.found : scan.found[i] \in Listings
    BY <2>1, LenProperties
  <2> QED BY <2>2 DEF ScanTyped, Listings
<1> QED BY <1>1, <1>2, <1>3, <1>4, <1>5 DEF TypeOK, ArchivesTyped

\* Launches at the same time keep to themselves, for any number of them and
\* whatever clocks they read: different containers, each file in the one of the
\* launch that wrote it (generate_uuid, Sandbox::prepare, extract_app, sys_open).
THEOREM ContainersAreIsolated == Spec => []ContainersIsolated
<1>1. SessionInv => ContainersIsolated
  BY SessionTypes DEF SessionInv, ContainersIsolated, IdsDistinct, FilesOwned
<1> QED BY <1>1, SessionSafe, PTL

\* translate gives a guest's path of any length below the container or below a
\* system tree the host path and the access that a kernel with these mounts would
\* give it, and refuses the ones that are elsewhere or that leave their mount.
THEOREM TranslateAgrees == Spec => []TranslateExact
<1>1. SessionInv => TranslateExact
  <2>1. ASSUME SessionInv, NEW t \in Launches, At(t, "load"), NEW g \in GuestPaths
        PROVE  Agrees(launch[t].uuid, launch[t].app, Named(t, g))
    <3>1. launch[t].uuid \in Component /\ BundleName(launch[t].app) \in Component
      BY <2>1 DEF SessionInv, LaunchesTyped, LocalOK, Locals, Begun, PlainNames, At
    <3>2. Named(t, g) \in Seq(Component)
      BY <3>1, NamedType
    <3> QED BY <3>1, <3>2, TranslateResolves
  <2>2. TranslateExact <=>
          \A t \in Launches : At(t, "load") =>
            \A p \in {Named(t, g) : g \in GuestPaths} :
              Agrees(launch[t].uuid, launch[t].app, p)
    BY Zenon DEF TranslateExact, Agrees, GuestPath, Layout
  <2> QED BY <2>1, <2>2
<1> QED BY <1>1, SessionSafe, PTL

-----------------------------------------------------------------------------
(* The list of a scan. *)

\* The entry of p is in the list, as one of the answers of inspect_ipa.
InList(found, p, archive) ==
  \E i \in DOMAIN found : found[i] \in {Listed(p, b) : b \in Inspections(archive)}
OncePerArchive(found) == \A i, j \in DOMAIN found : i # j => found[i].ipa # found[j].ipa
Sortable(found) == \A i \in DOMAIN found : SortKey[found[i].name] \in Int
Sorted(found) ==
  \A i, j \in DOMAIN found : i < j => SortKey[found[i].name] <= SortKey[found[j].name]

\* While the scan runs, an archive that nobody touched is still to be read, was
\* refused, or is in the list.
ScanInv ==
  /\ scan.phase \in {"scanning", "done"} =>
       \A p \in scan.steady :
         p \in scan.todo \/ MayBeRefused(archives[p]) \/ InList(scan.found, p, archives[p])
  /\ OncePerArchive(scan.found) /\ Sortable(scan.found)
  /\ scan.phase = "done" => scan.todo = {} /\ Sorted(scan.found)

\* Sorting moves the entries and keeps them.
LEMMA SortKeeps ==
  ASSUME NEW found \in Seq(Listings), NEW order \in SortOrders(found),
         OncePerArchive(found), Sortable(found)
  PROVE  LET g == [i \in DOMAIN found |-> found[order[i]]]
         IN  /\ OncePerArchive(g) /\ Sortable(g) /\ Sorted(g)
             /\ \A p, a : InList(found, p, a) => InList(g, p, a)
<1> DEFINE D == DOMAIN found
           g == [i \in D |-> found[order[i]]]
<1>1. order \in [D -> D] /\ \A j \in D : \E i \in D : order[i] = j
  BY DEF SortOrders, Bijection, Surjection
<1>2. \A i, j \in D : i < j => Before(found, order[i], order[j])
  BY DEF SortOrders
<1>3. D \subseteq Nat
  BY LenProperties
<1>4. DOMAIN g = D /\ \A i \in D : g[i] = found[order[i]] /\ order[i] \in D
  BY <1>1
<1> HIDE DEF g, D
<1>5. Sortable(g)
  BY <1>4 DEF Sortable, D
<1>6. \A k \in D : SortKey[found[k].name] \in Int
  BY DEF Sortable, D
<1>7. ASSUME NEW i \in D, NEW j \in D, i < j
      PROVE  /\ order[i] # order[j]
             /\ SortKey[found[order[i]].name] <= SortKey[found[order[j]].name]
  <2>1. Before(found, order[i], order[j]) /\ order[i] \in D /\ order[j] \in D
    BY <1>1, <1>2, <1>7
  <2>2. order[i] \in Nat /\ order[j] \in Nat
    BY <1>3, <2>1
  <2>3. SortKey[found[order[i]].name] \in Int /\ SortKey[found[order[j]].name] \in Int
    BY <1>6, <2>1
  <2> QED BY <2>1, <2>2, <2>3 DEF Before
<1>8. Sorted(g)
  BY <1>4, <1>7 DEF Sorted
<1>9. \A i, j \in D : i # j => order[i] # order[j]
  <2> SUFFICES ASSUME NEW i \in D, NEW j \in D, i # j PROVE order[i] # order[j]
    OBVIOUS
  <2>1. i < j \/ j < i
    BY <1>3
  <2> QED BY <1>7, <2>1
<1>10. OncePerArchive(g)
  <2>1. \A i, j \in D : i # j => found[i].ipa # found[j].ipa
    BY DEF OncePerArchive, D
  <2>2. \A i, j \in D : i # j => g[i].ipa # g[j].ipa
    BY <1>4, <1>9, <2>1
  <2> QED BY <1>4, <2>2 DEF OncePerArchive
<1>11. ASSUME NEW p, NEW a, InList(found, p, a) PROVE InList(g, p, a)
  <2>1. PICK j \in D : found[j] \in {Listed(p, b) : b \in Inspections(a)}
    BY <1>11 DEF InList, D
  <2>2. PICK i \in D : order[i] = j
    BY <1>1
  <2>3. g[i] = found[j] /\ i \in DOMAIN g
    BY <1>4, <2>2
  <2> QED BY <2>1, <2>3 DEF InList
<1> QED BY <1>5, <1>8, <1>10, <1>11 DEF g, D

LEMMA ScanInvInit == Init => ScanInv
<1> SUFFICES ASSUME Init PROVE ScanInv
  OBVIOUS
<1>1. scan.phase = "idle" /\ scan.found = << >>
  BY DEF Init
<1> QED BY <1>1 DEF ScanInv, OncePerArchive, Sortable

LEMMA ScanInvNext == ArchivesTyped /\ ScanTyped /\ ScanInv /\ ScanStep => ScanInv'
<1> SUFFICES ASSUME ArchivesTyped, ScanTyped, ScanInv, ScanStep PROVE ScanInv'
  OBVIOUS
<1> DEFINE S == [phase : {"idle", "scanning", "done", "failed"}, todo : SUBSET IpaPaths,
                 found : Seq(Listings), steady : SUBSET IpaPaths]
           Accounted(s, A) ==
             \A p \in s.steady :
               p \in s.todo \/ MayBeRefused(A[p]) \/ InList(s.found, p, A[p])
<1>1. scan \in S /\ \A i \in DOMAIN scan.found : scan.found[i].ipa \notin scan.todo
  BY DEF ScanTyped
<1>2. scan.found \in Seq(Listings) /\ DOMAIN scan.found = 1 .. Len(scan.found) /\ Len(scan.found) \in Nat
  BY <1>1, LenProperties
<1>3. OncePerArchive(scan.found) /\ Sortable(scan.found)
  BY DEF ScanInv
<1>4. ASSUME OncePerArchive(scan'.found), Sortable(scan'.found),
             scan'.phase \in {"scanning", "done"} => Accounted(scan', archives'),
             scan'.phase = "done" => scan'.todo = {} /\ Sorted(scan'.found)
      PROVE  ScanInv'
  BY <1>4 DEF ScanInv, OncePerArchive, Sortable, Sorted, InList, MayBeRefused
<1>5. scan.phase \in {"scanning", "done"} => Accounted(scan, archives)
  BY DEF ScanInv
<1> HIDE DEF Accounted
<1>6. OncePerArchive(<< >>) /\ Sortable(<< >>)
  BY DEF OncePerArchive, Sortable
<1>7. CASE StartScan
  <2>1. /\ scan'.phase = "scanning" /\ scan'.found = << >> /\ scan'.todo = scan'.steady
    BY <1>7 DEF StartScan
  <2>2. Accounted(scan', archives')
    BY <2>1 DEF Accounted
  <2> QED BY <1>4, <1>6, <2>1, <2>2
<1>8. CASE ScanFails
  <2>1. scan'.phase = "failed" /\ scan'.found = << >>
    BY <1>1, <1>8 DEF ScanFails
  <2> QED BY <1>4, <1>6, <2>1
<1>9. CASE ScanDone
  <2>1. PICK order \in SortOrders(scan.found) :
          scan' = [scan EXCEPT !.phase = "done",
                     !.found = [i \in DOMAIN scan.found |-> scan.found[order[i]]]]
    BY <1>9 DEF ScanDone
  <2> DEFINE g == [i \in DOMAIN scan.found |-> scan.found[order[i]]]
  <2>2. /\ OncePerArchive(g) /\ Sortable(g) /\ Sorted(g)
        /\ \A p, a : InList(scan.found, p, a) => InList(g, p, a)
    BY <1>2, <1>3, SortKeeps
  <2> HIDE DEF g
  <2>3. /\ scan'.phase = "done" /\ scan'.found = g /\ scan'.todo = scan.todo
        /\ scan'.steady = scan.steady
    BY <1>1, <2>1 DEF g
  <2>4. scan.phase = "scanning" /\ scan.todo = {} /\ archives' = archives
    BY <1>9 DEF ScanDone
  <2>5. Accounted(scan', archives')
    BY <1>5, <2>2, <2>3, <2>4 DEF Accounted
  <2> QED BY <1>4, <2>2, <2>3, <2>4, <2>5
<1>10. CASE ChangeArchive
  <2>1. PICK p \in IpaPaths, a \in Archives \cup {NoArchive} :
          archives' = [archives EXCEPT ![p] = a] /\ scan' = [scan EXCEPT !.steady = @ \ {p}]
    BY <1>10 DEF ChangeArchive
  <2>2. /\ scan'.phase = scan.phase /\ scan'.found = scan.found /\ scan'.todo = scan.todo
        /\ scan'.steady = scan.steady \ {p} /\ scan.steady \subseteq IpaPaths
    BY <1>1, <2>1
  <2>3. \A q \in scan'.steady : archives'[q] = archives[q]
    BY <2>1, <2>2 DEF ArchivesTyped
  <2>4. scan'.phase \in {"scanning", "done"} => Accounted(scan', archives')
    BY <1>5, <2>2, <2>3 DEF Accounted
  <2>5. scan'.phase = "done" => scan'.todo = {} /\ Sorted(scan'.found)
    BY <2>2 DEF ScanInv
  <2> QED BY <1>3, <1>4, <2>2, <2>4, <2>5
<1>11. ASSUME NEW p \in IpaPaths, ScanEntry(p) PROVE ScanInv'
  <2>1. PICK b \in Inspections(archives[p]) :
          scan' = [scan EXCEPT !.todo = @ \ {p}, !.found = Append(@, Listed(p, b))]
    BY <1>11 DEF ScanEntry
  <2> DEFINE x == Listed(p, b)
             g == Append(scan.found, x)
             n == Len(scan.found)
  <2>2. x \in Listings /\ x.ipa = p /\ SortKey[x.name] \in Int
    <3>1. archives[p] \in Known \cup {NoArchive}
      BY DEF ArchivesTyped
    <3>2. b.app \in Seq(Component) /\ SortKey[b.app] \in Int
      BY <3>1, InspectionTyped
    <3> QED BY <3>2 DEF Listed, Listings
  <2>3. x \in {Listed(p, c) : c \in Inspections(archives[p])}
    OBVIOUS
  <2>4. scan'.phase = "scanning" /\ scan'.found = g /\ scan'.todo = scan.todo \ {p}
        /\ scan'.steady = scan.steady /\ archives' = archives /\ scan.phase = "scanning"
        /\ p \in scan.todo
    BY <1>1, <1>11, <2>1 DEF ScanEntry
  <2> HIDE DEF x
  <2>5. /\ g \in Seq(Listings) /\ Len(g) = n + 1 /\ g[n + 1] = x
        /\ \A i \in 1 .. n : g[i] = scan.found[i]
    BY <1>2, <2>2, AppendProperties
  <2> HIDE DEF g
  <2>6. DOMAIN g = 1 .. n + 1 /\ n \in Nat /\ DOMAIN scan.found = 1 .. n
    BY <1>2, <2>5, LenProperties
  <2> HIDE DEF n
  <2>7. \A i \in DOMAIN g : i = n + 1 \/ i \in 1 .. n
    BY <2>6
  <2>8. Sortable(g)
    BY <1>3, <2>2, <2>5, <2>6, <2>7 DEF Sortable
  <2>9. OncePerArchive(g)
    <3>1. \A i \in 1 .. n : g[i].ipa # p
      BY <1>1, <2>4, <2>5, <2>6
    <3>2. \A i, j \in 1 .. n : i # j => g[i].ipa # g[j].ipa
      BY <1>3, <2>5, <2>6 DEF OncePerArchive
    <3>3. g[n + 1].ipa = p
      BY <2>2, <2>5
    <3> QED BY <2>7, <3>1, <3>2, <3>3 DEF OncePerArchive
  <2>10. ASSUME NEW q \in scan.steady, InList(scan.found, q, archives[q]) \/ q = p
         PROVE  InList(g, q, archives[q])
    <3>1. CASE q = p
      <4>1. n + 1 \in DOMAIN g /\ g[n + 1] \in {Listed(q, c) : c \in Inspections(archives[q])}
        BY <2>3, <2>5, <2>6, <3>1
      <4> QED BY <4>1 DEF InList
    <3>2. CASE InList(scan.found, q, archives[q])
      <4>1. PICK i \in DOMAIN scan.found : scan.found[i] \in {Listed(q, c) : c \in Inspections(archives[q])}
        BY <3>2 DEF InList
      <4>2. i \in DOMAIN g /\ g[i] = scan.found[i]
        BY <2>5, <2>6, <4>1
      <4> QED BY <4>1, <4>2 DEF InList
    <3> QED BY <2>10, <3>1, <3>2
  <2>11. Accounted(scan', archives')
    BY <1>5, <2>4, <2>10 DEF Accounted
  <2> QED BY <1>4, <2>4, <2>8, <2>9, <2>11
<1>12. ASSUME NEW p \in IpaPaths, ScanSkips(p) PROVE ScanInv'
  <2>1. /\ scan'.phase = "scanning" /\ scan'.found = scan.found /\ scan'.todo = scan.todo \ {p}
        /\ archives' = archives /\ scan.phase = "scanning" /\ scan'.steady \subseteq scan.steady
        /\ MayBeRefused(archives[p]) \/ p \notin scan'.steady
    BY <1>1, <1>12 DEF ScanSkips
  <2>2. Accounted(scan', archives')
    BY <1>5, <2>1 DEF Accounted
  <2> QED BY <1>3, <1>4, <2>1, <2>2
<1> QED BY <1>7, <1>8, <1>9, <1>10, <1>11, <1>12 DEF ScanStep

\* A bad archive hides no other, for any directory and any changes of it while
\* the scan runs: a finished list has every archive that could be read and that
\* nobody touched and the host did not refuse, once, and it is in order (scan_directory).
THEOREM ScanIsSteady == Spec => []ScanListsSteady
<1>1. Init => SessionInv /\ ScanInv
  BY SessionInit, ScanInvInit
<1>2. SessionInv /\ ScanInv /\ [Next]_vars => (SessionInv /\ ScanInv)'
  <2> SUFFICES ASSUME SessionInv, ScanInv, [Next]_vars PROVE SessionInv' /\ ScanInv'
    OBVIOUS
  <2>1. SessionInv'
    BY SessionNext
  <2>2. CASE ScanStep
    BY <2>1, <2>2, ScanInvNext DEF SessionInv
  <2>3. CASE UNCHANGED <<archives, scan>>
    BY <2>1, <2>3 DEF ScanInv
  <2>4. ASSUME NEW t \in Launches, ThreadStep(t) PROVE UNCHANGED <<archives, scan>>
    BY <2>4, ThreadFrame
  <2> QED BY <2>1, <2>2, <2>3, <2>4, NextIs DEF vars
<1>3. ScanInv => ScanListsSteady
  <2> SUFFICES ASSUME ScanInv, scan.phase = "done" PROVE ScanListsSteady
    BY DEF ScanListsSteady
  <2>1. ASSUME NEW p \in scan.steady, ~ MayBeRefused(archives[p])
        PROVE  \E i \in DOMAIN scan.found :
                 /\ scan.found[i] \in {Listed(p, b) : b \in Inspections(archives[p])}
                 /\ \A j \in DOMAIN scan.found \ {i} : scan.found[j].ipa # p
    <3>1. PICK i \in DOMAIN scan.found :
            scan.found[i] \in {Listed(p, b) : b \in Inspections(archives[p])}
      BY <2>1 DEF ScanInv, InList
    <3>2. scan.found[i].ipa = p
      BY <3>1 DEF Listed
    <3>3. \A j \in DOMAIN scan.found \ {i} : scan.found[j].ipa # p
      BY <3>2 DEF ScanInv, OncePerArchive
    <3> QED BY <3>1, <3>3
  <2> QED BY <2>1 DEF ScanListsSteady, ScanInv, Sorted
<1> QED BY <1>1, <1>2, <1>3, PTL DEF Spec

-----------------------------------------------------------------------------
(* The bundle on disk. *)

\* The files of the bundle among the first n entries, and the newest of those
\* that go where entry j goes.
FilesTo(L, n) ==
  {j \in 1 .. n : /\ IsPrefix(L.bundle, L.source[j].path) /\ Len(L.source[j].path) > Len(L.bundle)
                  /\ ~ IsDirEntry(L.source[j])}
SameOut(L, n, j) ==
  {k \in FilesTo(L, n) : OutIn(L, L.source[k].path) = OutIn(L, L.source[j].path)}

\* The first n entries are on the disk F.
Unzipped(F, L, n) ==
  \A j \in FilesTo(L, n) :
    /\ OutIn(L, L.source[j].path) \in DOMAIN F
    /\ F[OutIn(L, L.source[j].path)].data \in {L.source[Max(SameOut(L, n, j))].data, Saved}

BundleOK(F, L) ==
  /\ L.phase \in {"extract", "read", "load", "running"} => Unzipped(F, L, L.i - 1)
  /\ L.phase \in {"read", "load", "running"} => L.i = Len(L.source) + 1
  /\ L.phase \in {"load", "running"} /\ ExeStays(L) =>
       ExeIn(L) \in DOMAIN F /\ F[ExeIn(L)].data \in {L.code, Saved}
  /\ L.phase \in {"uuid"} \cup Begun => Trim(L.exe) = L.exe

BundleInv == TrimmedNames /\ \A t \in Launches : BundleOK(files, launch[t])

\* A launch past its extraction: everything BundleOK asks of it.
LEMMA BundleParts ==
  ASSUME NEW F, NEW L, Unzipped(F, L, L.i - 1), L.i = Len(L.source) + 1,
         Trim(L.exe) = L.exe,
         L.phase \in {"load", "running"} /\ ExeStays(L) =>
           ExeIn(L) \in DOMAIN F /\ F[ExeIn(L)].data \in {L.code, Saved}
  PROVE  BundleOK(F, L)
BY Zenon DEF BundleOK

\* Containers of different ids have no path in common.
LEMMA RootsApart ==
  ASSUME NEW a \in Component, NEW b \in Component, NEW f \in HostPaths,
         IsPrefix(HostRoot(a), f), IsPrefix(HostRoot(b), f)
  PROVE  a = b
<1>1. ASSUME NEW c \in Component, IsPrefix(HostRoot(c), f) PROVE f[3] = c
  <2> DEFINE r == HostRoot(c)
  <2>1. r \in Seq(HostComponent) /\ Len(r) = 3 /\ r[3] = c
    BY DEF HostRoot, HostComponent
  <2>2. IsPrefix(r, f) /\ f \in Seq(HostComponent)
    BY <1>1 DEF HostPaths
  <2> HIDE DEF r
  <2>3. \A i \in 1 .. Len(r) : r[i] = f[i]
    BY <2>1, <2>2, PrefixIs
  <2> QED BY <2>1, <2>3
<1> QED BY <1>1

\* What is in a container and in the way of no guest stays.
LEMMA BundleStays ==
  ASSUME NEW F, NEW G, NEW L, LocalOK(L), BundleOK(F, L), DOMAIN F \subseteq DOMAIN G,
         \A f \in DOMAIN F :
           f \in HostPaths /\ IsPrefix(HostRoot(L.uuid), f) /\ L.phase \in Begun =>
             G[f].data \in {F[f].data, Saved}
  PROVE  BundleOK(G, L)
<1>1. ASSUME L.phase \in {"extract", "read", "load", "running"} PROVE Unzipped(G, L, L.i - 1)
  <2> SUFFICES ASSUME NEW j \in FilesTo(L, L.i - 1)
               PROVE  /\ OutIn(L, L.source[j].path) \in DOMAIN G
                      /\ G[OutIn(L, L.source[j].path)].data
                           \in {L.source[Max(SameOut(L, L.i - 1, j))].data, Saved}
    BY DEF Unzipped
  <2> DEFINE o == OutIn(L, L.source[j].path)
             d == L.source[Max(SameOut(L, L.i - 1, j))].data
  <2>1. o \in DOMAIN F /\ F[o].data \in {d, Saved}
    BY <1>1 DEF BundleOK, Unzipped
  <2>2. L.phase \in Begun
    BY <1>1 DEF Begun
  <2>3. L.source[j] \in KnownEntries
    <3>1. L.source \in Seq(KnownEntries) /\ L.i \in 1 .. Len(L.source) + 1
      BY DEF LocalOK, Locals
    <3>2. j \in 1 .. Len(L.source)
      <4>1. j \in 1 .. L.i - 1 /\ Len(L.source) \in Nat
        BY <3>1, LenProperties DEF FilesTo
      <4> QED BY <3>1, <4>1
    <3> QED BY <3>1, <3>2, ElementOfSeq
  <2>4. o \in HostPaths /\ IsPrefix(HostRoot(L.uuid), o)
    BY <2>2, <2>3, EntryPlace
  <2> HIDE DEF o, d
  <2>5. o \in DOMAIN G /\ G[o].data \in {F[o].data, Saved}
    BY <2>1, <2>2, <2>4
  <2>6. o \in DOMAIN G /\ G[o].data \in {d, Saved}
    BY <2>1, <2>5
  <2> QED BY <2>6 DEF o, d
<1>2. ASSUME L.phase \in {"load", "running"}, ExeStays(L)
      PROVE  ExeIn(L) \in DOMAIN G /\ G[ExeIn(L)].data \in {L.code, Saved}
  <2>1. ExeIn(L) \in DOMAIN F /\ F[ExeIn(L)].data \in {L.code, Saved} /\ L.phase \in Begun
    BY <1>2 DEF BundleOK, Begun
  <2>2. ExeIn(L) \in HostPaths /\ IsPrefix(HostRoot(L.uuid), ExeIn(L))
    BY <1>2, <2>1, ExePlace
  <2>3. ExeIn(L) \in DOMAIN G /\ G[ExeIn(L)].data \in {F[ExeIn(L)].data, Saved}
    BY <2>1, <2>2
  <2> QED BY <2>1, <2>3
<1> QED BY <1>1, <1>2 DEF BundleOK

\* A thread writes in its own container.
LEMMA WritesInside ==
  ASSUME SessionInv, NEW t \in Launches, ThreadStep(t)
  PROVE  /\ DOMAIN files \subseteq DOMAIN files'
         /\ \A f \in DOMAIN files :
              files'[f] = files[f] \/ (launch[t].uuid # NoUuid /\ IsPrefix(HostRoot(launch[t].uuid), f))
<1> USE DEF SessionInv
<1>1. ASSUME NEW path, NEW data, Store(path, t, data), launch[t].uuid # NoUuid,
             IsPrefix(HostRoot(launch[t].uuid), path)
      PROVE  /\ DOMAIN files \subseteq DOMAIN files'
             /\ \A f \in DOMAIN files :
                  files'[f] = files[f]
                    \/ (launch[t].uuid # NoUuid /\ IsPrefix(HostRoot(launch[t].uuid), f))
  BY <1>1 DEF Store
<1>2. CASE ExtractEntry(t)
  <2> DEFINE e == Entry(t)
             out == OutPath(t, Rel(t, e.path))
  <2>1. LocalOK(launch[t]) /\ launch[t].phase \in Begun /\ e \in KnownEntries /\ launch[t].uuid # NoUuid
    BY <1>2, EntryAtHand DEF ExtractEntry, LocalOK
  <2>2. IsPrefix(HostRoot(launch[t].uuid), out)
    BY <2>1, EntryTyped
  <2>3. files' = files \/ Store(out, t, e.data)
    BY <1>2 DEF ExtractEntry
  <2> HIDE DEF out
  <2> QED BY <1>1, <2>1, <2>2, <2>3
<1>3. ASSUME NEW p \in SavePaths, GuestSaves(t, p)
      PROVE  /\ DOMAIN files \subseteq DOMAIN files'
             /\ \A f \in DOMAIN files :
                  files'[f] = files[f]
                    \/ (launch[t].uuid # NoUuid /\ IsPrefix(HostRoot(launch[t].uuid), f))
  <2> DEFINE host == GuestPath(t, Named(t, p)).host
  <2>1. IsPrefix(HostRoot(launch[t].uuid), host) /\ Store(host, t, Saved) /\ launch[t].uuid # NoUuid
    BY <1>3, SaveInside
  <2> HIDE DEF host
  <2> QED BY <1>1, <2>1
<1>4. CASE Tap(t) \/ HostRefuses(t) \/ RunEnds(t) \/ (LaunchStep(t) /\ ~ ExtractEntry(t))
  <2>1. UNCHANGED files
    BY <1>4 DEF Tap, LaunchStep, HostRefuses, RunEnds, Inspect, InspectFails, Prepare,
         GenerateUuid, OpenArchive, SkipEntry, ExtractFails, ExtractDone,
         ReadExecutable, ReadExecutableFails, Load, LoadFails, Leave
  <2> QED BY <2>1
<1> QED BY <1>2, <1>3, <1>4 DEF ThreadStep

\* What the locals say of the bundle does not depend on where the launch is.
LEMMA UnzippedSame ==
  ASSUME NEW K, NEW L, L.bundle = K.bundle, L.uuid = K.uuid, L.app = K.app, L.source = K.source,
         NEW F, NEW n
  PROVE  Unzipped(F, L, n) <=> Unzipped(F, K, n)
<1>1. \A path : OutIn(L, path) = OutIn(K, path)
  BY DEF OutIn
<1>2. FilesTo(L, n) = FilesTo(K, n)
  BY DEF FilesTo
<1>3. \A j : SameOut(L, n, j) = SameOut(K, n, j)
  BY <1>1, <1>2 DEF SameOut
<1> QED BY <1>1, <1>2, <1>3 DEF Unzipped

\* An entry that is skipped is no file of the bundle.
LEMMA SkippedIsNoFile ==
  ASSUME LaunchesTyped, NEW t \in Launches, Extracting(t), Skipped(t, Entry(t))
  PROVE  launch[t].i \notin FilesTo(launch[t], launch[t].i)
<1> DEFINE K == launch[t]
           path == Entry(t).path
<1>1. /\ K \in Locals /\ K.i \in 1 .. Len(K.source) /\ Entry(t) \in KnownEntries
      /\ Entry(t) = K.source[K.i]
  BY EntryAtHand DEF LocalOK, Entry
<1>2. path \in Seq(Component) /\ K.bundle \in Seq(Component)
  BY <1>1, ArchiveAssumption DEF Locals
<1>3. ASSUME InBundle(t, path), Rel(t, path) = EmptyString PROVE IsDirEntry(Entry(t))
  <2>1. Len(path) \in Nat /\ Len(K.bundle) \in Nat /\ Len(path) > Len(K.bundle)
    BY <1>2, <1>3, LenProperties DEF InBundle
  <2> DEFINE m == Len(K.bundle)
             n == Len(path)
             rest == SubSeq(path, m + 1, n)
  <2>2. path # K.bundle
    <3>1. path = K.bundle => Len(path) = Len(K.bundle)
      BY Zenon
    <3> QED BY <2>1, <3>1
  <2>3. rest = EmptyString
    BY <1>3, <2>2 DEF Rel, RestAfter
  <2>4. Len(EmptyString) = 1 /\ EmptyString[1] = Empty
    BY DEF EmptyString
  <2>5. \A k \in m + 1 .. n : path[k] \in Component
    BY <1>2, <2>1, ElementOfSeq
  <2>6. /\ Len(rest) = IF m + 1 <= n THEN n - (m + 1) + 1 ELSE 0
        /\ \A k \in 1 .. n - (m + 1) + 1 : rest[k] = path[m + 1 + k - 1]
    <3>1. m + 1 \in Int /\ n \in Int
      BY <2>1
    <3> HIDE DEF m, n
    <3> QED BY <2>5, <3>1, SubSeqProperties
  <2> HIDE DEF rest
  <2>7. n = m + 1
    <3>1. Len(rest) = Len(EmptyString)
      BY <2>3, Zenon
    <3>2. Len(rest) = 1
      BY <2>4, <3>1
    <3> HIDE DEF m, n
    <3>3. m \in Nat /\ n \in Nat /\ n > m
      BY <2>1 DEF m, n
    <3>4. Len(rest) = IF m + 1 <= n THEN n - (m + 1) + 1 ELSE 0
      BY <2>6
    <3>5. m + 1 <= n
      BY <3>3
    <3>6. 1 = n - (m + 1) + 1
      BY <3>2, <3>4, <3>5
    <3> QED BY <3>3, <3>6
  <2>8. rest[1] = path[n]
    BY <2>1, <2>6, <2>7
  <2> QED BY <2>3, <2>4, <2>8 DEF IsDirEntry, Last
<1>4. ~ InBundle(t, path) \/ IsDirEntry(Entry(t))
  BY <1>3 DEF Skipped
<1> QED BY <1>1, <1>4 DEF FilesTo, InBundle

\* One entry further, and none was a file.
LEMMA UnzipPasses ==
  ASSUME NEW F, NEW K, K.i \in Nat \ {0}, Unzipped(F, K, K.i - 1), K.i \notin FilesTo(K, K.i)
  PROVE  Unzipped(F, K, K.i)
<1>1. FilesTo(K, K.i) = FilesTo(K, K.i - 1)
  BY DEF FilesTo
<1>2. \A j : SameOut(K, K.i, j) = SameOut(K, K.i - 1, j)
  BY <1>1 DEF SameOut
<1> QED BY <1>1, <1>2 DEF Unzipped

\* One entry further, and it was a file: it is now the newest of its name.
LEMMA UnzipWrites ==
  ASSUME NEW F, NEW G, NEW K, K.i \in Nat \ {0}, Unzipped(F, K, K.i - 1),
         K.i \in FilesTo(K, K.i), DOMAIN F \subseteq DOMAIN G,
         OutIn(K, K.source[K.i].path) \in DOMAIN G,
         G[OutIn(K, K.source[K.i].path)].data = K.source[K.i].data,
         \A f \in DOMAIN F : f # OutIn(K, K.source[K.i].path) => G[f] = F[f]
  PROVE  Unzipped(G, K, K.i)
<1> DEFINE i == K.i
           Out(k) == OutIn(K, K.source[k].path)
<1>1. \A k \in FilesTo(K, i) : k \in 1 .. i /\ (k # i => k \in FilesTo(K, i - 1))
  BY DEF FilesTo
<1>2. FilesTo(K, i - 1) \subseteq FilesTo(K, i) /\ i \notin FilesTo(K, i - 1)
  BY DEF FilesTo
<1> SUFFICES ASSUME NEW j \in FilesTo(K, i)
             PROVE  Out(j) \in DOMAIN G /\ G[Out(j)].data \in {K.source[Max(SameOut(K, i, j))].data, Saved}
  BY DEF Unzipped
<1>3. CASE Out(j) = Out(i)
  <2> DEFINE S == SameOut(K, i, j)
  <2>1. i \in S /\ S \subseteq 0 .. i /\ i \in Nat
    BY <1>1, <1>3 DEF SameOut
  <2> HIDE DEF S
  <2>2. Max(S) \in S /\ \A x \in S : x <= Max(S)
    BY <2>1, MaxExists
  <2>3. Max(S) = i
    <3> DEFINE m == Max(S)
    <3>1. m \in S /\ i <= m
      BY <2>1, <2>2
    <3> HIDE DEF m
    <3>2. m \in 0 .. i
      BY <2>1, <3>1
    <3>3. m = i
      BY <2>1, <3>1, <3>2
    <3> QED BY <3>3 DEF m
  <2> QED BY <1>3, <2>3 DEF S
<1>4. CASE Out(j) # Out(i)
  <2>1. j \in FilesTo(K, i - 1)
    BY <1>1, <1>4
  <2>2. SameOut(K, i, j) = SameOut(K, i - 1, j)
    BY <1>1, <1>2, <1>4 DEF SameOut
  <2>3. Out(j) \in DOMAIN F /\ F[Out(j)].data \in {K.source[Max(SameOut(K, i - 1, j))].data, Saved}
    BY <2>1 DEF Unzipped
  <2> QED BY <1>4, <2>2, <2>3
<1> QED BY <1>3, <1>4

\* The step of the thread itself.
LEMMA BundleSelf ==
  ASSUME SessionInv, BundleInv, NEW t \in Launches, ThreadStep(t)
  PROVE  BundleOK(files', launch'[t])
<1> DEFINE K == launch[t]
           L == launch'[t]
<1>1. launch \in [Launches -> Locals] /\ K \in Locals /\ LocalOK(K) /\ BundleOK(files, K)
  BY DEF SessionInv, LaunchesTyped, BundleInv
<1>2. ASSUME Leave(t) PROVE BundleOK(files', L)
  <2>1. L.phase = "done"
    BY <1>1, <1>2 DEF Leave, Idle
  <2> QED BY <2>1 DEF BundleOK, Begun
<1>3. CASE Tap(t)
  <2>1. L.phase = "inspect"
    BY <1>1, <1>3 DEF Tap, Locals
  <2> QED BY <2>1 DEF BundleOK, Begun
<1>4. CASE Inspect(t)
  <2>1. PICK b \in Inspections(archives[K.ipa]) :
          launch' = [launch EXCEPT ![t].phase = "uuid", ![t].bundle = b.bundle,
                                   ![t].app = b.app, ![t].exe = b.exe]
    BY <1>4 DEF Inspect
  <2>2. archives[K.ipa] \in Known \cup {NoArchive}
    BY <1>1, <1>4 DEF SessionInv, ArchivesTyped, Inspect, At, LocalOK
  <2>3. archives[K.ipa] \in Known
    BY <2>1, <2>2, InspectionTyped
  <2>4. Trim(b.exe) = b.exe
    BY <2>1, <2>3 DEF BundleInv, TrimmedNames
  <2>5. L.phase = "uuid" /\ L.exe = b.exe
    BY <1>1, <2>1 DEF Locals
  <2> QED BY <2>4, <2>5 DEF BundleOK, Begun
<1>5. CASE GenerateUuid(t) \/ Prepare(t)
  <2>1. L.phase \in {"prepare", "open"} /\ L.exe = K.exe
    BY <1>1, <1>5 DEF GenerateUuid, Prepare, Locals
  <2>2. Trim(K.exe) = K.exe
    BY <1>1, <1>5 DEF GenerateUuid, Prepare, At, BundleOK, Begun
  <2> QED BY <2>1, <2>2 DEF BundleOK, Begun
<1>6. CASE OpenArchive(t)
  <2>1. L.phase = "extract" /\ L.exe = K.exe /\ L.i = 1
    BY <1>1, <1>6 DEF OpenArchive, Locals
  <2>2. Trim(K.exe) = K.exe
    BY <1>1, <1>6 DEF OpenArchive, At, BundleOK, Begun
  <2>3. FilesTo(L, 0) = {}
    BY DEF FilesTo
  <2>4. Unzipped(files', L, L.i - 1)
    <3>1. L.i - 1 = 0
      BY <2>1
    <3>2. Unzipped(files', L, 0)
      BY <2>3 DEF Unzipped
    <3> QED BY <3>1, <3>2
  <2> QED BY <2>1, <2>2, <2>4 DEF BundleOK, Begun
<1>7. CASE SkipEntry(t) \/ ExtractEntry(t)
  <2>1. /\ Extracting(t) /\ K.phase = "extract" /\ K.i \in Nat \ {0} /\ K.source[K.i] = Entry(t)
        /\ K.i \in 1 .. Len(K.source)
    <3>1. Extracting(t)
      BY <1>7 DEF SkipEntry, ExtractEntry
    <3> QED BY <1>1, <3>1, EntryAtHand DEF SessionInv, Locals, Entry
  <2>2. /\ L.phase = "extract" /\ L.exe = K.exe /\ L.i = K.i + 1 /\ L.bundle = K.bundle
        /\ L.uuid = K.uuid /\ L.app = K.app /\ L.source = K.source
    BY <1>1, <1>7, <2>1 DEF SkipEntry, ExtractEntry, Locals
  <2>3. Trim(K.exe) = K.exe /\ Unzipped(files, K, K.i - 1)
    BY <1>1, <2>1 DEF BundleOK, Begun
  <2>4. ASSUME Unzipped(files', K, K.i) PROVE BundleOK(files', L)
    <3>1. L.i - 1 = K.i
      BY <2>1, <2>2
    <3>2. Unzipped(files', L, K.i)
      BY <2>2, <2>4, UnzippedSame
    <3>3. Unzipped(files', L, L.i - 1)
      BY <3>1, <3>2
    <3> HIDE DEF L, K
    <3> QED BY <2>2, <2>3, <3>3 DEF BundleOK, Begun
  <2>5. CASE files' = files /\ K.i \notin FilesTo(K, K.i)
    <3>1. Unzipped(files, K, K.i)
      <4> HIDE DEF K
      <4> QED BY <2>1, <2>3, <2>5, UnzipPasses
    <3> QED BY <2>4, <2>5, <3>1
  <2>6. CASE SkipEntry(t)
    <3>1. K.i \notin FilesTo(K, K.i)
      BY <2>1, <2>6, SkippedIsNoFile DEF SessionInv, SkipEntry
    <3>2. files' = files
      BY <2>6 DEF SkipEntry
    <3> QED BY <2>5, <3>1, <3>2
  <2>7. CASE ExtractEntry(t) /\ IsDirEntry(Entry(t))
    <3>1. K.i \notin FilesTo(K, K.i)
      BY <2>1, <2>7 DEF FilesTo
    <3>2. files' = files
      BY <2>7 DEF ExtractEntry
    <3> QED BY <2>5, <3>1, <3>2
  <2>8. CASE ExtractEntry(t) /\ ~ IsDirEntry(Entry(t))
    <3> DEFINE out == OutIn(K, K.source[K.i].path)
    <3>1. out = OutPath(t, Rel(t, Entry(t).path))
      BY <2>1 DEF OutIn, OutPath, Layout, Rel
    <3>2. Store(OutPath(t, Rel(t, Entry(t).path)), t, Entry(t).data) /\ ~ Skipped(t, Entry(t))
      BY <2>8 DEF ExtractEntry
    <3>3. K.i \in FilesTo(K, K.i)
      BY <2>1, <2>8, <3>2 DEF FilesTo, Skipped, InBundle
    <3>4. Store(out, t, K.source[K.i].data)
      BY <2>1, <3>1, <3>2
    <3>5. /\ DOMAIN files \subseteq DOMAIN files' /\ out \in DOMAIN files'
          /\ files'[out].data = K.source[K.i].data
          /\ \A f \in DOMAIN files : f # out => files'[f] = files[f]
      <4> HIDE DEF out
      <4> QED BY <3>4 DEF Store
    <3>6. Unzipped(files', K, K.i)
      <4> HIDE DEF K
      <4> QED BY <2>1, <2>3, <3>3, <3>5, UnzipWrites
    <3> QED BY <2>4, <3>6
  <2> QED BY <1>7, <2>6, <2>7, <2>8
<1>8. CASE ExtractDone(t) \/ ReadExecutable(t) \/ Load(t)
  <2>1. /\ K.phase \in {"extract", "read", "load"} /\ L.phase \in {"read", "load", "running"}
        /\ L.exe = K.exe /\ L.i = K.i /\ L.bundle = K.bundle
        /\ L.uuid = K.uuid /\ L.app = K.app /\ L.source = K.source /\ files' = files
    BY <1>1, <1>8 DEF ExtractDone, ReadExecutable, Load, Locals, At
  <2>2. Trim(K.exe) = K.exe /\ Unzipped(files, K, K.i - 1)
    BY <1>1, <2>1 DEF BundleOK, Begun
  <2>3. Unzipped(files', L, L.i - 1)
    BY <2>1, <2>2, UnzippedSame
  <2>4. L.i = Len(L.source) + 1
    <3>1. CASE ExtractDone(t)
      <4>1. K.i \in 1 .. Len(K.source) + 1 /\ K.i > Len(K.source)
        BY <1>1, <3>1 DEF ExtractDone, LocalOK
      <4>2. Len(K.source) \in Nat
        BY <1>1, LenProperties DEF Locals
      <4>3. K.i = Len(K.source) + 1
        BY <4>1, <4>2
      <4> QED BY <2>1, <4>3
    <3>2. CASE ReadExecutable(t) \/ Load(t)
      <4>1. K.phase \in {"read", "load"}
        BY <3>2 DEF ReadExecutable, Load, At
      <4> QED BY <1>1, <2>1, <4>1 DEF BundleOK
    <3> QED BY <1>8, <3>1, <3>2
  <2>5. /\ ExeIn(L) = ExeIn(K) /\ ExeIn(K) = ExePath(t)
        /\ ExeStays(L) => ExeStays(K) /\ ExeInside(t)
    BY <2>1 DEF ExeIn, ExeStays, ExeRestIn, ExePath, ExeRest, ExeInside, Resolvable
  <2>6. ASSUME L.phase \in {"load", "running"}, ExeStays(L)
        PROVE  ExeIn(L) \in DOMAIN files' /\ files'[ExeIn(L)].data \in {L.code, Saved}
    <3>1. CASE ReadExecutable(t)
      <4>1. PICK data \in ReadableCode(t) :
              launch' = [launch EXCEPT ![t].phase = "load", ![t].code = data]
        BY <3>1 DEF ReadExecutable
      <4>2. ExePath(t) \in DOMAIN files /\ data = files[ExePath(t)].data
        BY <2>5, <2>6, <4>1 DEF ReadableCode
      <4>3. L.code = data
        BY <1>1, <4>1 DEF Locals
      <4> QED BY <2>1, <2>5, <4>2, <4>3
    <3>2. CASE Load(t)
      <4>1. K.phase = "load" /\ L.code = K.code
        BY <1>1, <3>2 DEF Load, At, Locals
      <4>2. ExeIn(K) \in DOMAIN files /\ files[ExeIn(K)].data \in {K.code, Saved}
        BY <1>1, <2>5, <2>6, <4>1 DEF BundleOK
      <4> QED BY <2>1, <2>5, <4>1, <4>2
    <3>3. CASE ExtractDone(t)
      BY <1>1, <2>6, <3>3 DEF ExtractDone, Locals
    <3> QED BY <1>8, <3>1, <3>2, <3>3
  <2>7. Trim(L.exe) = L.exe
    BY <2>1, <2>2
  <2>8. L.phase \in {"load", "running"} /\ ExeStays(L) =>
          ExeIn(L) \in DOMAIN files' /\ files'[ExeIn(L)].data \in {L.code, Saved}
    BY <2>6
  <2>9. BundleOK(files', L)
    <3> HIDE DEF L, K
    <3> QED BY <2>3, <2>4, <2>7, <2>8, BundleParts
  <2> QED BY <2>9
<1>9. CASE \E p \in SavePaths : GuestSaves(t, p)
  <2>1. PICK p \in SavePaths : GuestSaves(t, p)
    BY <1>9
  <2> DEFINE host == GuestPath(t, Named(t, p)).host
  <2>2. Store(host, t, Saved) /\ L = K
    BY <2>1 DEF GuestSaves
  <2> HIDE DEF host
  <2>3. /\ DOMAIN files \subseteq DOMAIN files'
        /\ \A f \in DOMAIN files : files'[f].data \in {files[f].data, Saved}
    BY <2>2 DEF Store
  <2>4. BundleOK(files', K)
    <3> HIDE DEF K
    <3> QED BY <1>1, <2>3, BundleStays
  <2> QED BY <2>2, <2>4
<1>10. CASE InspectFails(t) \/ ExtractFails(t) \/ ReadExecutableFails(t) \/ LoadFails(t)
            \/ HostRefuses(t) \/ RunEnds(t)
  BY <1>2, <1>10 DEF InspectFails, ExtractFails, ReadExecutableFails, LoadFails, HostRefuses, RunEnds
<1> QED BY <1>3, <1>4, <1>5, <1>6, <1>7, <1>8, <1>9, <1>10 DEF ThreadStep, LaunchStep

\* The steps of the others.
LEMMA BundleOthers ==
  ASSUME SessionInv, BundleInv, NEW t \in Launches, NEW u \in Launches, t # u, ThreadStep(u)
  PROVE  BundleOK(files', launch'[t])
<1> DEFINE L == launch[t]
<1>1. launch'[t] = L
  BY ThreadFrame
<1>2. LocalOK(L) /\ BundleOK(files, L) /\ L.uuid \in Component /\ launch[u].uuid \in Component
  BY DEF SessionInv, LaunchesTyped, LocalOK, Locals, BundleInv
<1>3. /\ DOMAIN files \subseteq DOMAIN files'
      /\ \A f \in DOMAIN files :
           files'[f] = files[f] \/ (launch[u].uuid # NoUuid /\ IsPrefix(HostRoot(launch[u].uuid), f))
  BY WritesInside
<1>4. launch[u].uuid # NoUuid => launch[u].uuid # L.uuid
  BY DEF SessionInv, IdsDistinct
<1>5. \A f \in DOMAIN files : f \in HostPaths /\ IsPrefix(HostRoot(L.uuid), f) => files'[f] = files[f]
  BY <1>2, <1>3, <1>4, RootsApart
<1>6. \A f \in DOMAIN files :
        f \in HostPaths /\ IsPrefix(HostRoot(L.uuid), f) /\ L.phase \in Begun =>
          files'[f].data \in {files[f].data, Saved}
  BY <1>5
<1>7. BundleOK(files', L)
  <2> HIDE DEF L
  <2> QED BY <1>2, <1>3, <1>6, BundleStays
<1> QED BY <1>1, <1>7

LEMMA BundleNext == SessionInv /\ BundleInv /\ [Next]_vars => BundleInv'
<1> SUFFICES ASSUME SessionInv, BundleInv, [Next]_vars,
                    NEW t \in Launches
             PROVE  BundleOK(files', launch'[t])
  <2>1. BundleInv' <=> TrimmedNames /\ \A t \in Launches : BundleOK(files', launch'[t])
    BY DEF BundleInv
  <2> QED BY <2>1 DEF BundleInv
<1>1. CASE UNCHANGED <<launch, files>>
  BY <1>1 DEF BundleInv
<1>2. CASE ScanStep
  BY <1>1, <1>2, ScanKeepsTypes DEF SessionInv
<1>3. ASSUME NEW u \in Launches, ThreadStep(u) PROVE BundleOK(files', launch'[t])
  BY <1>3, BundleSelf, BundleOthers
<1> QED BY <1>1, <1>2, <1>3, NextIs DEF vars

\* What the disk holds is what the property asks for.
LEMMA BundleGives == SessionInv /\ BundleInv => BundleComplete
<1> SUFFICES ASSUME SessionInv, BundleInv, NEW t \in Launches, launch[t].phase \in {"load", "running"}
             PROVE  LET source == launch[t].source
                        file == {i \in DOMAIN source :
                                   InBundle(t, source[i].path) /\ ~ IsDirEntry(source[i])}
                        out == [i \in file |-> OutPath(t, Rel(t, source[i].path))]
                        exe == GuestPath(t, launch[t].exe)
                    IN  /\ \A i \in file :
                             LET last == Max({j \in file : out[j] = out[i]})
                             IN  out[i] \in DOMAIN files /\ files[out[i]].data \in {source[last].data, Saved}
                        /\ launch[t].exe \in Seq(PlainNames) => exe.ok
                        /\ exe.ok /\ ~ IsAbsolute(launch[t].exe) =>
                             /\ exe.host \in DOMAIN files
                             /\ files[exe.host].data \in {launch[t].code, Saved}
  BY Zenon DEF BundleComplete
<1> DEFINE L == launch[t]
           n == Len(L.source)
           file == {i \in DOMAIN L.source :
                      InBundle(t, L.source[i].path) /\ ~ IsDirEntry(L.source[i])}
           out == [i \in file |-> OutPath(t, Rel(t, L.source[i].path))]
           exe == GuestPath(t, L.exe)
<1>1. LocalOK(L) /\ L \in Locals /\ BundleOK(files, L) /\ L.phase \in Begun
  BY DEF SessionInv, LaunchesTyped, LocalOK, BundleInv, Begun
<1>2. DOMAIN L.source = 1 .. n /\ n \in Nat /\ L.i = n + 1
  BY <1>1, LenProperties DEF Locals, BundleOK
<1>3. Unzipped(files, L, n)
  <2>1. L.i - 1 = n
    BY <1>2
  <2> QED BY <1>1, <2>1 DEF BundleOK
<1>4. file = FilesTo(L, n)
  BY <1>2 DEF FilesTo, InBundle
<1>5. \A i \in file : out[i] = OutIn(L, L.source[i].path)
  BY DEF OutIn, OutPath, Layout, Rel
<1>6. \A i \in file : {j \in file : out[j] = out[i]} = SameOut(L, n, i)
  <2> HIDE DEF out, file, L, n
  <2> QED BY <1>4, <1>5 DEF SameOut
<1>7. ASSUME NEW i \in file
      PROVE  /\ out[i] \in DOMAIN files
             /\ files[out[i]].data \in {L.source[Max({j \in file : out[j] = out[i]})].data, Saved}
  <2> HIDE DEF out, file, L, n
  <2>1. /\ OutIn(L, L.source[i].path) \in DOMAIN files
        /\ files[OutIn(L, L.source[i].path)].data \in {L.source[Max(SameOut(L, n, i))].data, Saved}
    BY <1>3, <1>4 DEF Unzipped
  <2> QED BY <1>5, <1>6, <2>1
<1>8. /\ L.uuid \in Component /\ BundleName(L.app) \in PlainNames
      /\ L.exe \in Seq(Component) /\ L.exe # << >> /\ Trim(L.exe) = L.exe
  BY <1>1 DEF LocalOK, Locals, BundleOK
<1>9. ASSUME ~ IsAbsolute(L.exe)
      PROVE  (exe.ok <=> ExeStays(L)) /\ (exe.ok => exe.host = ExeIn(L))
  <2> DEFINE got == Translate(L.uuid, L.app, L.exe)
  <2>1. /\ got.ok <=> Resolvable(ExeRestIn(L))
        /\ got.ok => got.host = HostRoot(L.uuid) \o Kept(ExeRestIn(L))
    <3> HIDE DEF L
    <3> QED BY <1>8, <1>9, TranslateRelative DEF ExeRestIn
  <2>2. exe = got
    BY DEF GuestPath
  <2> HIDE DEF exe, got, L
  <2> QED BY <1>9, <2>1, <2>2 DEF ExeStays, ExeIn
<1>10. ASSUME exe.ok, ~ IsAbsolute(L.exe)
       PROVE  exe.host \in DOMAIN files /\ files[exe.host].data \in {L.code, Saved}
  <2>1. ExeIn(L) \in DOMAIN files /\ files[ExeIn(L)].data \in {L.code, Saved}
    BY <1>1, <1>9, <1>10 DEF BundleOK
  <2> QED BY <1>9, <1>10, <2>1
<1>11. ASSUME L.exe \in Seq(PlainNames) PROVE exe.ok
  <2> DEFINE b == <<BundleName(L.app)>>
             rest == ExeRestIn(L)
  <2>1. ~ IsAbsolute(L.exe)
    <3>1. L.exe[1] \in PlainNames
      BY <1>8, <1>11, ElementOfSeq
    <3> QED BY <3>1 DEF IsAbsolute, PlainNames
  <2>2. b \in Seq(PlainNames) /\ Len(b) = 1
    BY <1>8
  <2>3. rest \in Seq(PlainNames) /\ Len(rest) = 1 + Len(L.exe) /\ Len(L.exe) \in Nat
    BY <1>11, <2>2, ConcatProperties, LenProperties DEF ExeRestIn
  <2>4. rest \in Seq(Component)
    <3>1. PlainNames \subseteq Component
      BY DEF PlainNames
    <3> QED BY <2>3, <3>1, SeqMonotonic
  <2> HIDE DEF rest, exe
  <2>5. rest # << >>
    <3>1. Len(rest) > 0
      BY <2>3
    <3> QED BY <3>1, LongIsNotEmpty
  <2>6. NormalizeIosPath(rest).ok
    BY <2>3, <2>5, NormalizeStays
  <2>7. Resolvable(rest)
    BY <2>4, <2>6, NormalizeExact DEF Resolvable
  <2> QED BY <1>9, <2>1, <2>7 DEF ExeStays, rest
<1> QED BY <1>7, <1>10, <1>11, Zenon

\* When the unzip is done, the container holds every file of the archive's
\* bundle, the last one of its name, and under a relative executable name that the
\* sandbox accepts the guest finds the code that is loaded; no other launch, and
\* no change of the archive, gets in the way (extract_app, launch_inner).  The
\* names have no blanks around them (translate trims a path, join does not), and
\* of an absolute name, or one that leaves the container, nothing is claimed.
THEOREM BundlesAreComplete == TrimmedNames /\ Spec => []BundleComplete
<1>1. TrimmedNames /\ Init => SessionInv /\ BundleInv
  <2> SUFFICES ASSUME TrimmedNames, Init PROVE SessionInv /\ BundleInv
    OBVIOUS
  <2>1. \A t \in Launches : launch[t].phase = "idle"
    BY DEF Init, Idle
  <2>2. \A t \in Launches : BundleOK(files, launch[t])
    BY <2>1 DEF BundleOK, Begun
  <2> QED BY <2>2, SessionInit DEF BundleInv
<1>2. SessionInv /\ BundleInv /\ [Next]_vars => (SessionInv /\ BundleInv)'
  BY SessionNext, BundleNext
<1> QED BY <1>1, <1>2, BundleGives, PTL DEF Spec

-----------------------------------------------------------------------------
(* The binary reader of property lists *)

\* The objects of a document, by number.
LEMMA ObjectsTyped ==
  ASSUME NEW doc, BinaryDocument(doc)
  PROVE  /\ Len(doc.objects) \in Nat /\ DOMAIN doc.objects = 1 .. Len(doc.objects)
         /\ \A k \in Indices(doc) :
              /\ k \in Nat /\ k + 1 \in DOMAIN doc.objects
              /\ doc.objects[k + 1] \in Range(doc.objects)
<1>1. doc.objects \in Seq(Range(doc.objects))
  BY DEF BinaryDocument
<1>2. Len(doc.objects) \in Nat /\ DOMAIN doc.objects = 1 .. Len(doc.objects)
  BY <1>1
<1> QED BY <1>2 DEF Indices, Range

\* One row of object_at: the values of all objects at a depth, from the row below.
Row(doc, depth, below) ==
  [index \in Indices(doc) |->
     IF TooDeep(depth) THEN Failed ELSE DecodeObject(doc.objects[index + 1], below)]

\* The rows from depth d down.
RowsFrom(doc, g, d) ==
  /\ g = [e \in d .. MaxDepth + 1 |-> g[e]]
  /\ \A e \in d .. MaxDepth + 1 : g[e] = Row(doc, e, g[e + 1])

LEMMA RowsExist ==
  ASSUME NEW doc
  PROVE  \E g : RowsFrom(doc, g, 0)
<1> DEFINE M == MaxDepth + 1
           Ok(d) == \E g : RowsFrom(doc, g, d)
           S == {h \in 0 .. M : Ok(M - h)}
<1>1. M \in Nat /\ M > 0
  BY DepthAssumption
<1>2. 0 \in S
  <2> DEFINE g == [e \in M .. M |-> [index \in Indices(doc) |-> Failed]]
  <2>1. M - 0 = M /\ \A e \in M .. M : e = M /\ TooDeep(e)
    BY <1>1, DepthAssumption DEF TooDeep
  <2>2. \A e \in M .. M : g[e] = Row(doc, e, g[e + 1])
    BY <2>1 DEF Row
  <2>3. g = [e \in M .. M |-> g[e]]
    OBVIOUS
  <2> HIDE DEF g
  <2>4. RowsFrom(doc, g, M)
    BY <2>2, <2>3 DEF RowsFrom
  <2>5. Ok(M - 0)
    BY <2>1, <2>4
  <2> HIDE DEF Ok
  <2> QED BY <1>1, <2>5
<1>3. ASSUME NEW h \in 1 .. M, h - 1 \in S PROVE h \in S
  <2> DEFINE d == M - h
  <2>1. d \in 0 .. M - 1 /\ M - (h - 1) = d + 1
    BY <1>1
  <2>2. PICK f : RowsFrom(doc, f, d + 1)
    <3>1. Ok(M - (h - 1))
      BY <1>3
    <3> QED BY <2>1, <3>1
  <2> HIDE DEF d
  <2> DEFINE g == [e \in d .. M |-> IF e = d THEN Row(doc, d, f[d + 1]) ELSE f[e]]
  <2>3. g = [e \in d .. M |-> g[e]] /\ g[d] = Row(doc, d, f[d + 1]) /\ \A e \in d + 1 .. M : g[e] = f[e]
    BY <1>1, <2>1
  <2> HIDE DEF g
  <2>4. ASSUME NEW e \in d .. M PROVE g[e] = Row(doc, e, g[e + 1])
    <3>1. CASE e = d
      <4>1. d + 1 \in d + 1 .. M
        BY <1>1, <2>1
      <4>2. g[d + 1] = f[d + 1]
        BY <2>3, <4>1
      <4> QED BY <2>3, <3>1, <4>2
    <3>2. CASE e # d
      <4>1. e \in d + 1 .. M
        BY <1>1, <2>1, <3>2
      <4>2. g[e] = Row(doc, e, f[e + 1])
        BY <2>2, <2>3, <4>1 DEF RowsFrom
      <4>3. CASE e = M
        <5>1. TooDeep(e)
          BY <4>3, DepthAssumption DEF TooDeep
        <5> QED BY <4>2, <5>1 DEF Row
      <4>4. CASE e # M
        <5>1. e + 1 \in d + 1 .. M
          BY <1>1, <2>1, <4>1, <4>4
        <5>2. g[e + 1] = f[e + 1]
          BY <2>3, <5>1
        <5> QED BY <4>2, <5>2
      <4> QED BY <4>3, <4>4
    <3> QED BY <3>1, <3>2
  <2>5. RowsFrom(doc, g, d)
    BY <2>3, <2>4 DEF RowsFrom
  <2>6. Ok(M - h)
    BY <2>5 DEF d
  <2> HIDE DEF Ok
  <2> QED BY <1>1, <2>6
<1>4. M \in S
  <2> HIDE DEF S, M
  <2>1. 0 .. M \subseteq S
    BY <1>1, <1>2, <1>3, Climb
  <2> QED BY <1>1, <2>1
<1>5. M - M = 0
  BY <1>1
<1> QED BY <1>4, <1>5

\* object_at is what its body says, at every depth.
LEMMA ObjectAtRows ==
  ASSUME NEW doc
  PROVE  /\ \A d \in 0 .. MaxDepth : ObjectAt(doc)[d] = Row(doc, d, ObjectAt(doc)[d + 1])
         /\ ObjectAt(doc)[MaxDepth + 1] = [index \in Indices(doc) |-> Failed]
<1> DEFINE E(f) == f = [depth \in 0 .. MaxDepth + 1 |->
                          [index \in Indices(doc) |->
                             IF TooDeep(depth) THEN Failed
                             ELSE DecodeObject(doc.objects[index + 1], f[depth + 1])]]
<1>1. PICK g : RowsFrom(doc, g, 0)
  BY RowsExist
<1>2. E(g)
  <2>1. /\ g = [e \in 0 .. MaxDepth + 1 |-> g[e]]
        /\ \A e \in 0 .. MaxDepth + 1 : g[e] = Row(doc, e, g[e + 1])
    BY <1>1 DEF RowsFrom
  <2>2. g = [e \in 0 .. MaxDepth + 1 |-> Row(doc, e, g[e + 1])]
    BY <2>1
  <2> QED BY <2>2 DEF Row
<1>3. ObjectAt(doc) = CHOOSE f : E(f)
  BY Zenon DEF ObjectAt
<1>4. E(ObjectAt(doc))
  <2> HIDE DEF E
  <2> QED BY <1>2, <1>3, Zenon
<1> DEFINE N == ObjectAt(doc)
<1>5. N = [depth \in 0 .. MaxDepth + 1 |-> Row(doc, depth, N[depth + 1])]
  BY <1>4 DEF Row
<1> HIDE DEF N
<1>6. ASSUME NEW d \in 0 .. MaxDepth PROVE N[d] = Row(doc, d, N[d + 1])
  <2>1. d \in 0 .. MaxDepth + 1
    BY DepthAssumption
  <2> QED BY <1>5, <2>1
<1>7. N[MaxDepth + 1] = [index \in Indices(doc) |-> Failed]
  <2>1. MaxDepth + 1 \in 0 .. MaxDepth + 1 /\ TooDeep(MaxDepth + 1)
    BY DepthAssumption DEF TooDeep
  <2> QED BY <1>5, <2>1 DEF Row
<1> QED BY <1>6, <1>7 DEF N

\* What DecodeObject answers, but for the value itself.
LEMMA DecodeTag ==
  ASSUME NEW o, NEW values, o.tag \in Scalars \cup {"array", "dict", "unsupported"}
  PROVE  /\ DecodeObject(o, values).tag \in {o.tag, "failed"}
         /\ DecodeObject(o, values).tag # "failed" <=>
              /\ o.tag # "unsupported"
              /\ o.tag \in {"array", "dict"} =>
                   \A i \in DOMAIN o.refs : ValueAt(values, o.refs[i]).tag # "failed"
              /\ o.tag = "dict" =>
                   \A i \in DOMAIN o.keys : ValueAt(values, o.keys[i]).tag = "string"
<1>1. Failed.tag = "failed" /\ \A x, y : Leaf(x, y).tag = x
  BY DEF Failed, Leaf
<1>2. \A x : Array(x).tag = "array" /\ Dict(x).tag = "dict"
  BY DEF Array, Dict
<1>3. \A refs : NoneFailed(ValuesAt(values, refs)) <=>
        \A i \in DOMAIN refs : ValueAt(values, refs[i]).tag # "failed"
  BY DEF NoneFailed, ValuesAt
<1>4. \A refs : AllStrings(ValuesAt(values, refs)) <=>
        \A i \in DOMAIN refs : ValueAt(values, refs[i]).tag = "string"
  BY DEF AllStrings, ValuesAt
<1>5. CASE o.tag \in Scalars
  <2>1. DecodeObject(o, values) = Leaf(o.tag, o.text)
    BY <1>5 DEF DecodeObject, Scalars
  <2> QED BY <1>1, <1>5, <2>1 DEF Scalars
<1>6. CASE o.tag = "array"
  <2>1. DecodeObject(o, values) =
          IF NoneFailed(ValuesAt(values, o.refs)) THEN Array(ValuesAt(values, o.refs)) ELSE Failed
    BY <1>6 DEF DecodeObject, Scalars
  <2> QED BY <1>1, <1>2, <1>3, <1>6, <2>1
<1>7. CASE o.tag = "dict"
  <2>1. DecodeObject(o, values) =
          IF AllStrings(ValuesAt(values, o.keys)) /\ NoneFailed(ValuesAt(values, o.refs))
          THEN Dict(Pairs(ValuesAt(values, o.keys), ValuesAt(values, o.refs))) ELSE Failed
    BY <1>7 DEF DecodeObject, Scalars
  <2> QED BY <1>1, <1>2, <1>3, <1>4, <1>7, <2>1
<1>8. CASE o.tag = "unsupported"
  <2>1. DecodeObject(o, values) = Failed
    BY <1>8 DEF DecodeObject, Scalars
  <2> QED BY <1>1, <1>8, <2>1
<1> QED BY <1>5, <1>6, <1>7, <1>8

\* Object k decodes at depth d.
Accepted(doc, d, k) == ValueAt(ObjectAt(doc)[d], k).tag # "failed"

\* At MaxDepth + 1 nothing does, and a number that is not in the table nowhere.
LEMMA NotAccepted ==
  ASSUME NEW doc, NEW d \in 0 .. MaxDepth + 1, NEW k, d = MaxDepth + 1 \/ k \notin Indices(doc)
  PROVE  ~ Accepted(doc, d, k)
<1>1. Failed.tag = "failed"
  BY DEF Failed
<1>2. CASE d = MaxDepth + 1
  <2>1. ObjectAt(doc)[d] = [index \in Indices(doc) |-> Failed]
    BY <1>2, ObjectAtRows
  <2>2. ValueAt(ObjectAt(doc)[d], k) = Failed
    BY <2>1 DEF ValueAt
  <2> QED BY <1>1, <2>2 DEF Accepted
<1>3. CASE d # MaxDepth + 1
  <2>1. d \in 0 .. MaxDepth
    BY <1>3, DepthAssumption
  <2>2. DOMAIN ObjectAt(doc)[d] = Indices(doc)
    BY <2>1, ObjectAtRows DEF Row
  <2> QED BY <1>1, <1>3, <2>2 DEF Accepted, ValueAt
<1> QED BY <1>2, <1>3

\* An object in the table, at a depth that is not too deep.
LEMMA RowEntry ==
  ASSUME NEW doc, NEW d \in 0 .. MaxDepth, NEW k \in Indices(doc)
  PROVE  ValueAt(ObjectAt(doc)[d], k) = DecodeObject(doc.objects[k + 1], ObjectAt(doc)[d + 1])
<1>1. ObjectAt(doc)[d] = Row(doc, d, ObjectAt(doc)[d + 1])
  BY ObjectAtRows
<1>2. ~ TooDeep(d)
  BY DepthAssumption DEF TooDeep
<1> QED BY <1>1, <1>2 DEF Row, ValueAt

\* The value of an object that decodes has the object's type.
LEMMA AcceptedTag ==
  ASSUME NEW doc, BinaryDocument(doc), NEW d \in 0 .. MaxDepth + 1, NEW k, Accepted(doc, d, k)
  PROVE  k \in Indices(doc) /\ ValueAt(ObjectAt(doc)[d], k).tag = doc.objects[k + 1].tag
<1>1. k \in Indices(doc) /\ d # MaxDepth + 1
  BY NotAccepted
<1>2. d \in 0 .. MaxDepth
  BY <1>1, DepthAssumption
<1>3. ValueAt(ObjectAt(doc)[d], k) = DecodeObject(doc.objects[k + 1], ObjectAt(doc)[d + 1])
  BY <1>1, <1>2, RowEntry
<1>4. doc.objects[k + 1].tag \in Scalars \cup {"array", "dict", "unsupported"}
  BY <1>1, ObjectsTyped DEF BinaryDocument
<1>5. DecodeObject(doc.objects[k + 1], ObjectAt(doc)[d + 1]).tag \in {doc.objects[k + 1].tag, "failed"}
  BY <1>4, DecodeTag
<1> QED BY <1>1, <1>3, <1>5 DEF Accepted

\* An object decodes exactly if it is sound and what it refers to decodes.
LEMMA AcceptedStep ==
  ASSUME NEW doc, BinaryDocument(doc), NEW d \in 0 .. MaxDepth, NEW k
  PROVE  Accepted(doc, d, k) <=>
           SoundObject(doc, k) /\ \A r \in RefsOf(doc, k) : Accepted(doc, d + 1, r)
<1>1. CASE k \notin Indices(doc)
  <2>1. d \in 0 .. MaxDepth + 1
    BY DepthAssumption
  <2> QED BY <1>1, <2>1, NotAccepted DEF SoundObject
<1>2. CASE k \in Indices(doc)
  <2> DEFINE o == doc.objects[k + 1]
             V == ObjectAt(doc)[d + 1]
  <2>1. /\ o.tag \in Scalars \cup {"array", "dict", "unsupported"}
        /\ o.tag \in {"array", "dict"} => o.refs \in Seq(Nat)
        /\ o.tag = "dict" => o.keys \in Seq(Nat)
    BY <1>2, ObjectsTyped DEF BinaryDocument
  <2>2. d + 1 \in 0 .. MaxDepth + 1
    BY DepthAssumption
  <2>3. \A r : Accepted(doc, d + 1, r) <=> ValueAt(V, r).tag # "failed"
    BY DEF Accepted
  <2>4. \A r : ValueAt(V, r).tag = "string" <=>
          /\ ValueAt(V, r).tag # "failed"
          /\ r \in Indices(doc) /\ doc.objects[r + 1].tag = "string"
    <3> SUFFICES ASSUME NEW r
                 PROVE  ValueAt(V, r).tag = "string" <=>
                          /\ ValueAt(V, r).tag # "failed"
                          /\ r \in Indices(doc) /\ doc.objects[r + 1].tag = "string"
      OBVIOUS
    <3>1. ValueAt(V, r).tag # "failed" =>
            r \in Indices(doc) /\ ValueAt(V, r).tag = doc.objects[r + 1].tag
      BY <2>2, <2>3, AcceptedTag
    <3> QED BY <3>1
  <2>5. Accepted(doc, d, k) <=> DecodeObject(o, V).tag # "failed"
    BY <1>2, RowEntry DEF Accepted
  <2>6. SoundObject(doc, k) <=>
          /\ o.tag # "unsupported"
          /\ o.tag = "dict" => \A key \in Range(o.keys) :
               key \in Indices(doc) /\ doc.objects[key + 1].tag = "string"
    BY <1>2 DEF SoundObject
  <2>7. RefsOf(doc, k) = IF o.tag \notin {"array", "dict"} THEN {}
                         ELSE Range(o.refs) \cup (IF o.tag = "dict" THEN Range(o.keys) ELSE {})
    BY <1>2 DEF RefsOf
  <2> HIDE DEF o, V
  <2>8. /\ \A r \in Range(o.refs) : \E i \in DOMAIN o.refs : r = o.refs[i]
        /\ \A i \in DOMAIN o.refs : o.refs[i] \in Range(o.refs)
        /\ \A r \in Range(o.keys) : \E i \in DOMAIN o.keys : r = o.keys[i]
        /\ \A i \in DOMAIN o.keys : o.keys[i] \in Range(o.keys)
    BY DEF Range
  <2>9. DecodeObject(o, V).tag # "failed" <=>
              /\ o.tag # "unsupported"
              /\ o.tag \in {"array", "dict"} =>
                   \A i \in DOMAIN o.refs : ValueAt(V, o.refs[i]).tag # "failed"
              /\ o.tag = "dict" =>
                   \A i \in DOMAIN o.keys : ValueAt(V, o.keys[i]).tag = "string"
    BY <2>1, DecodeTag
  <2>10. CASE o.tag \notin {"array", "dict"}
    BY <2>5, <2>6, <2>7, <2>9, <2>10
  <2>11. CASE o.tag = "array"
    BY <2>3, <2>5, <2>6, <2>7, <2>8, <2>9, <2>11
  <2>12. CASE o.tag = "dict"
    <3>1. RefsOf(doc, k) = Range(o.refs) \cup Range(o.keys)
      BY <2>7, <2>12
    <3>2. Accepted(doc, d, k) <=>
            /\ \A r \in Range(o.refs) : ValueAt(V, r).tag # "failed"
            /\ \A r \in Range(o.keys) : ValueAt(V, r).tag = "string"
      BY <2>5, <2>8, <2>9, <2>12
    <3>3. SoundObject(doc, k) <=>
            \A r \in Range(o.keys) : r \in Indices(doc) /\ doc.objects[r + 1].tag = "string"
      BY <2>6, <2>12
    <3> QED BY <2>3, <2>4, <3>1, <3>2, <3>3
  <2> QED BY <2>10, <2>11, <2>12
<1> QED BY <1>1, <1>2

\* The levels below the top.
LEMMA LevelLoop ==
  ASSUME NEW doc, BinaryDocument(doc)
  PROVE  /\ Level(doc)[0] = {doc.top}
         /\ \A n \in 1 .. MaxDepth + 1 :
              Level(doc)[n] = UNION {RefsOf(doc, k) : k \in Level(doc)[n - 1]}
<1> DEFINE M == MaxDepth + 1
           E(f) == f = [n \in 0 .. MaxDepth + 1 |->
                          IF n = 0 THEN {doc.top} ELSE UNION {RefsOf(doc, k) : k \in f[n - 1]}]
           X == SUBSET Nat
           each == [n \in 1 .. M |-> [x \in X |-> UNION {RefsOf(doc, k) : k \in x}]]
<1>1. M \in Nat
  BY DepthAssumption
<1>2. \A k : RefsOf(doc, k) \subseteq Nat
  <2> SUFFICES ASSUME NEW k PROVE RefsOf(doc, k) \subseteq Nat
    OBVIOUS
  <2>1. CASE k \notin Indices(doc) \/ doc.objects[k + 1].tag \notin {"array", "dict"}
    BY <2>1 DEF RefsOf
  <2>2. CASE k \in Indices(doc) /\ doc.objects[k + 1].tag \in {"array", "dict"}
    <3> DEFINE o == doc.objects[k + 1]
    <3>1. o.refs \in Seq(Nat) /\ (o.tag = "dict" => o.keys \in Seq(Nat))
      BY <2>2, ObjectsTyped DEF BinaryDocument
    <3>2. RefsOf(doc, k) = Range(o.refs) \cup (IF o.tag = "dict" THEN Range(o.keys) ELSE {})
      BY <2>2 DEF RefsOf
    <3> HIDE DEF o
    <3>3. \A s \in Seq(Nat) : Range(s) \subseteq Nat
      BY DEF Range
    <3> QED BY <3>1, <3>2, <3>3
  <2> QED BY <2>1, <2>2
<1>3. \A x \in X : UNION {RefsOf(doc, k) : k \in x} \in X
  BY <1>2
<1>4. each \in [1 .. M -> [X -> X]]
  <2> HIDE DEF X, M
  <2> QED BY <1>3
<1>5. {doc.top} \in X
  BY DEF BinaryDocument
<1>6. \A n \in 1 .. M, x \in X : each[n][x] = UNION {RefsOf(doc, k) : k \in x}
  OBVIOUS
<1>7. PICK g \in [0 .. M -> X] : g[0] = {doc.top} /\ \A n \in 1 .. M : g[n] = each[n][g[n - 1]]
  <2> HIDE DEF M, each, X
  <2>1. Iterable(M, X, {doc.top}, each)
    BY <1>1, <1>4, <1>5, Iterates
  <2> QED BY <2>1 DEF Iterable
<1>8. ASSUME NEW n \in 1 .. M PROVE g[n] = UNION {RefsOf(doc, k) : k \in g[n - 1]}
  <2>1. g[n - 1] \in X
    <3> HIDE DEF X
    <3> QED BY <1>1
  <2> HIDE DEF X, each
  <2> QED BY <1>6, <1>7, <2>1, Zenon
<1>9. E(g)
  <2> HIDE DEF X, each
  <2>1. g = [n \in 0 .. MaxDepth + 1 |-> g[n]]
    OBVIOUS
  <2>2. \A n \in 0 .. MaxDepth + 1 :
          g[n] = IF n = 0 THEN {doc.top} ELSE UNION {RefsOf(doc, k) : k \in g[n - 1]}
    BY <1>1, <1>7, <1>8
  <2> QED BY <2>1, <2>2
<1>10. Level(doc) = CHOOSE f : E(f)
  BY Zenon DEF Level
<1>11. E(Level(doc))
  <2> HIDE DEF E
  <2> QED BY <1>9, <1>10, Zenon
<1> DEFINE N == Level(doc)
<1>12. N = [n \in 0 .. MaxDepth + 1 |->
              IF n = 0 THEN {doc.top} ELSE UNION {RefsOf(doc, k) : k \in N[n - 1]}]
  BY <1>11
<1> HIDE DEF N
<1>13. N[0] = {doc.top}
  <2>1. 0 \in 0 .. MaxDepth + 1
    BY DepthAssumption
  <2> QED BY <1>12, <2>1
<1>14. ASSUME NEW n \in 1 .. MaxDepth + 1
       PROVE  N[n] = UNION {RefsOf(doc, k) : k \in N[n - 1]}
  <2>1. n \in 0 .. MaxDepth + 1 /\ n # 0
    BY DepthAssumption
  <2> QED BY <1>12, <2>1
<1> QED BY <1>13, <1>14 DEF N

\* The binary reader of property lists accepts exactly the documents whose
\* objects in reach are sound and nest no deeper than the bound: cycles, numbers
\* past the table and keys that are no strings are refused and nothing else is,
\* for every document and every bound.
THEOREM BinaryReaderExact ==
  ASSUME NEW doc, BinaryDocument(doc)
  PROVE  AcceptsWellFormed(doc)
<1> DEFINE M == MaxDepth + 1
           All(n) == \A k \in Level(doc)[n] : Accepted(doc, n, k)
<1>1. M \in Nat /\ M > 0
  BY DepthAssumption
<1>2. ParseBinary(doc).tag # "failed" <=> All(0)
  BY LevelLoop DEF ParseBinary, Accepted
<1>3. ASSUME NEW n \in 0 .. MaxDepth
      PROVE  All(n) <=> /\ \A k \in Level(doc)[n] : SoundObject(doc, k)
                        /\ All(n + 1)
  <2>1. n + 1 \in 1 .. MaxDepth + 1 /\ (n + 1) - 1 = n
    BY DepthAssumption
  <2>2. Level(doc)[n + 1] = UNION {RefsOf(doc, k) : k \in Level(doc)[n]}
    BY <2>1, LevelLoop
  <2>3. \A k : Accepted(doc, n, k) <=>
           SoundObject(doc, k) /\ \A r \in RefsOf(doc, k) : Accepted(doc, n + 1, r)
    BY AcceptedStep
  <2> QED BY <2>2, <2>3
<1>4. All(M) <=> Level(doc)[M] = {}
  BY <1>1, NotAccepted
<1>5. ASSUME All(0) PROVE WellFormed(doc)
  <2> DEFINE S == {n \in 0 .. M : All(n)}
  <2> HIDE DEF All
  <2>1. 0 \in S
    BY <1>1, <1>5
  <2>2. ASSUME NEW n \in 1 .. M, n - 1 \in S PROVE n \in S
    <3>1. n - 1 \in 0 .. MaxDepth /\ (n - 1) + 1 = n
      BY DepthAssumption
    <3> QED BY <1>3, <2>2, <3>1
  <2>3. 0 .. M \subseteq S
    <3> HIDE DEF S, M
    <3> QED BY <1>1, <2>1, <2>2, Climb
  <2>4. All(M) /\ \A n \in 0 .. MaxDepth : All(n)
    BY <1>1, <2>3, DepthAssumption
  <2> QED BY <1>3, <1>4, <2>4 DEF WellFormed
<1>6. ASSUME WellFormed(doc) PROVE All(0)
  <2> DEFINE S == {h \in 0 .. M : All(M - h)}
  <2>0. All(M) /\ \A n \in 0 .. MaxDepth : \A k \in Level(doc)[n] : SoundObject(doc, k)
    BY <1>4, <1>6 DEF WellFormed
  <2> HIDE DEF All
  <2>1. 0 \in S
    BY <1>1, <2>0
  <2>2. ASSUME NEW h \in 1 .. M, h - 1 \in S PROVE h \in S
    <3>1. M - h \in 0 .. MaxDepth /\ (M - h) + 1 = M - (h - 1) /\ All(M - (h - 1))
      BY <2>2, DepthAssumption
    <3>2. All(M - h)
      BY <1>3, <2>0, <3>1
    <3> QED BY <1>1, <3>2
  <2>3. 0 .. M \subseteq S
    <3> HIDE DEF S, M
    <3> QED BY <1>1, <2>1, <2>2, Climb
  <2>4. M \in 0 .. M /\ M - M = 0
    BY <1>1
  <2> HIDE DEF M
  <2> QED BY <2>3, <2>4
<1> QED BY <1>2, <1>5, <1>6 DEF AcceptsWellFormed

=============================================================================
