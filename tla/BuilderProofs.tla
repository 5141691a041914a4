--------------------------- MODULE BuilderProofs ----------------------------
(***************************************************************************)
(* Proofs about a caller of Build, whatever JSON text it reads and         *)
(* whatever inputs it has: first the reader of the text against its        *)
(* reference, then what Build makes of the text.                           *)
(***************************************************************************)
EXTENDS Builder, CapsuleProofs, FiniteSetTheorems

-----------------------------------------------------------------------------
\* The reader against its reference.  s is a text, lv its levels, and n of its
\* tokens have been read.

TokenText(s) == IsSeq(s) /\ \A i \in DOMAIN s : IsToken(s[i])

\* The tokens up to n that are members of the container opened at o, at level k.
MembersOf(s, lv, o, n, k) == {j \in (o + 1)..n : ~ Closes(s[j]) /\ lv[j] = k}

\* The k-th container that is open was opened by token op[k].
Placed(s, lv, n, op) ==
  /\ lv[n + 1] \in Nat
  /\ op \in [1..lv[n + 1] -> 1..n]
  /\ \A k \in DOMAIN op :
       /\ Opens(s[op[k]]) /\ lv[op[k]] = k - 1
       /\ \A j \in (op[k] + 1)..(n + 1) : lv[j] >= k

\* The delimiter of an object.
Braces(delim) == delim = "{"

\* The component of the member that comes next, or is being read.
Cur(f) == IF Braces(f.delim) THEN [key |-> f.key] ELSE [index |-> f.count]

\* The components of the members that have been read.
Done(f) ==
  {[key |-> x] : x \in f.keys \ {f.key}} \cup {[index |-> c] : c \in 0..(f.count - 1)}

\* The path of the k-th container, and of its member c.
OpenPath(s, lv, op, k) == [m \in 1..(k - 1) |-> Component(s, lv, op[m + 1])]
NextPath(s, lv, op, k, c) == [m \in 1..k |-> IF m < k THEN Component(s, lv, op[m + 1]) ELSE c]

\* What a frame has of its container.
FrameIs(s, lv, n, op, k, f) ==
  /\ DOMAIN f = {"delim", "path", "keys", "key", "count"} /\ f = [x \in DOMAIN f |-> f[x]]
  /\ f.delim = s[op[k]].delim
  /\ f.path = OpenPath(s, lv, op, k)
  /\ f.keys = {s[j].text : j \in {i \in MembersOf(s, lv, op[k], n, k) : IsKey(s, lv, i)}}
  /\ f.count \in Nat
  /\ f.key # Nil => Braces(f.delim) /\ f.key \in f.keys
  /\ Nil \notin f.keys

Busy(s, lv, n, op, k, f) ==
  LET c == Cardinality(MembersOf(s, lv, op[k], n, k))
  IN  /\ FrameIs(s, lv, n, op, k, f)
      /\ IF Braces(f.delim) THEN f.key # Nil /\ c = 2 * f.count + 2
                          ELSE f.key = Nil /\ c = f.count + 1

Idle(s, lv, n, op, k, f) ==
  LET c == Cardinality(MembersOf(s, lv, op[k], n, k))
  IN  /\ FrameIs(s, lv, n, op, k, f)
      /\ IF ~ Braces(f.delim) THEN f.key = Nil /\ c = f.count
         ELSE IF f.key = Nil THEN c = 2 * f.count
         ELSE c = 2 * f.count + 1 /\ s[n] = [text |-> f.key]

\* Each container is the member its parent is reading.
Threaded(s, lv, op, stack) ==
  \A k \in DOMAIN stack : k > 1 => Component(s, lv, op[k]) = Cur(stack[k - 1])

LeavesTo(s, lv, n) ==
  {i \in 1..n : /\ ~ IsKey(s, lv, i)
                /\ ~ Closes(s[i])
                /\ Opens(s[i]) => i < n /\ Closes(s[i + 1])}

DocSays(s, lv, L, doc) ==
  LET at == [i \in L |-> PathOf(s, lv, i)]
  IN  /\ doc = [p \in DOMAIN doc |-> doc[p]]
      /\ DOMAIN doc = {at[i] : i \in DOMAIN at}
      /\ \A i \in DOMAIN at : doc[at[i]] = Value(s[i])
      /\ \A i, j \in DOMAIN at : at[i] = at[j] => i = j

\* A path of the document that enters an open container goes on to a member of it
\* that has been read, or is being read.
Fresh(doc, stack, b) ==
  \A k \in DOMAIN stack : \A q \in DOMAIN doc :
    (1..(k - 1) \subseteq DOMAIN q /\ \A m \in 1..(k - 1) : q[m] = stack[k].path[m])
      => /\ k \in DOMAIN q
         /\ q[k] \in Done(stack[k]) \/ (k < b /\ q[k] = Cur(stack[k]))

Counted(doc, stack) == \A k \in DOMAIN stack : stack[k].count > 0 => DOMAIN doc # {}

ReadWith(s, lv, n, op, doc, stack) ==
  LET e == lv[n + 1]
  IN  /\ Placed(s, lv, n, op)
      /\ IsSeq(stack) /\ Len(stack) = e
      /\ \A k \in 1..e : IF k < e THEN Busy(s, lv, n, op, k, stack[k])
                                  ELSE Idle(s, lv, n, op, k, stack[k])
      /\ Threaded(s, lv, op, stack)
      /\ DocSays(s, lv, LeavesTo(s, lv, n), doc)
      /\ Fresh(doc, stack, e)
      /\ Counted(doc, stack)
      /\ n > 0 /\ e = 0 => DOMAIN doc # {}

ReadSoFar(s, lv, n, d) ==
  \E op, doc, stack :
    /\ ReadWith(s, lv, n, op, doc, stack)
    /\ d = [status |-> IF n = 0 \/ lv[n + 1] > 0 THEN "more" ELSE "value",
            doc |-> doc, stack |-> stack]

Reads(s, n, d) ==
  IF \A i \in 1..n : Fits(s, Levels(s), i) THEN ReadSoFar(s, Levels(s), n, d)
                                           ELSE d = Refused

-----------------------------------------------------------------------------
\* A set of positions is finite.
LEMMA PartOfRange ==
  ASSUME NEW a \in Int, NEW b \in Int, NEW S \in SUBSET (a..b)
  PROVE  IsFiniteSet(S) /\ Cardinality(S) \in Nat
<1>1. IsFiniteSet(a..b)
  BY FS_Interval
<1>2. IsFiniteSet(S)
  BY <1>1, FS_Subset
<1> QED BY <1>2, FS_CardinalityType

\* The greatest element, once it is known.
LEMMA MaxIs ==
  ASSUME NEW S, S \subseteq Int, NEW x \in S, \A y \in S : x >= y
  PROVE  Max(S) = x
<1>1. Max(S) \in S /\ \A y \in S : Max(S) >= y
  <2>1. \E z \in S : \A y \in S : z >= y
    OBVIOUS
  <2> QED BY <2>1, Zenon DEF Max
<1> DEFINE m == Max(S)
<1> HIDE DEF m
<1>2. m \in Int /\ m >= x /\ x >= m
  BY <1>1 DEF m
<1> QED BY <1>2 DEF m

\* One more position.
LEMMA OneMore ==
  ASSUME NEW S, IsFiniteSet(S), NEW x, x \notin S
  PROVE  Cardinality(S \cup {x}) = Cardinality(S) + 1
  BY FS_AddElement

\* No bracket both opens and closes.
LEMMA OpensOrCloses ==
  ASSUME NEW tok
  PROVE  ~ (Opens(tok) /\ Closes(tok))
<1>1. /\ [delim |-> "{"].delim = "{" /\ [delim |-> "["].delim = "["
      /\ [delim |-> "}"].delim = "}" /\ [delim |-> "]"].delim = "]"
  OBVIOUS
<1> QED BY <1>1 DEF Opens, Closes

\* How many of the first positions are in a set.
LEMMA CountUpTo ==
  ASSUME NEW B, NEW i \in Nat
  PROVE  /\ Cardinality((1..0) \cap B) = 0
         /\ Cardinality((1..i) \cap B) \in Nat
         /\ Cardinality((1..(i + 1)) \cap B)
              = IF i + 1 \in B THEN Cardinality((1..i) \cap B) + 1 ELSE Cardinality((1..i) \cap B)
<1> DEFINE S == (1..i) \cap B
           T == (1..(i + 1)) \cap B
<1>1. (1..0) \cap B = {}
  OBVIOUS
<1>2. T = IF i + 1 \in B THEN S \cup {i + 1} ELSE S
  OBVIOUS
<1>3. S \subseteq 1..i /\ i + 1 \notin S
  OBVIOUS
<1> HIDE DEF S, T
<1>4. IsFiniteSet(S) /\ Cardinality(S) \in Nat
  <2>1. S \in SUBSET (1..i) /\ 1 \in Int /\ i \in Int
    BY <1>3
  <2> QED BY <2>1, PartOfRange
<1>5. Cardinality(T) = IF i + 1 \in B THEN Cardinality(S) + 1 ELSE Cardinality(S)
  BY <1>2, <1>3, <1>4, OneMore
<1>6. Cardinality((1..0) \cap B) = 0
  <2> DEFINE E == (1..0) \cap B
  <2>1. E = {}
    BY <1>1
  <2> HIDE DEF E
  <2>2. Cardinality(E) = 0
    BY <2>1, FS_EmptySet
  <2> QED BY <2>2 DEF E
<1> QED BY <1>4, <1>5, <1>6 DEF S, T

\* An opening bracket adds a level, a closing bracket takes one.
LEMMA LevelsAre ==
  ASSUME NEW s, IsSeq(s)
  PROVE  LET lv == Levels(s)
         IN  /\ lv[1] = 0
             /\ \A i \in 1..(Len(s) + 1) : lv[i] \in Int
             /\ \A i \in 1..Len(s) :
                  lv[i + 1] = IF Opens(s[i]) THEN lv[i] + 1
                              ELSE IF Closes(s[i]) THEN lv[i] - 1 ELSE lv[i]
<1> DEFINE lv == Levels(s)
           A == {j \in Nat : Opens(s[j])}
           B == {j \in Nat : Closes(s[j])}
           o == [i \in Nat |-> Cardinality((1..i) \cap A)]
           c == [i \in Nat |-> Cardinality((1..i) \cap B)]
<1>1. Len(s) \in Nat
  BY DEF IsSeq
<1>2. ASSUME NEW i \in 1..(Len(s) + 1)
      PROVE  lv[i] = o[i - 1] - c[i - 1]
  <2>1. i - 1 \in Nat
    OBVIOUS
  <2>2. /\ {j \in 1..(i - 1) : Opens(s[j])} = (1..(i - 1)) \cap A
        /\ {j \in 1..(i - 1) : Closes(s[j])} = (1..(i - 1)) \cap B
    OBVIOUS
  <2> HIDE DEF A, B
  <2>3. lv[i] = Cardinality((1..(i - 1)) \cap A) - Cardinality((1..(i - 1)) \cap B)
    BY <1>1, <2>2 DEF Levels
  <2> QED BY <2>1, <2>3
<1>3. \A i \in Nat : (i \in A <=> Opens(s[i])) /\ (i \in B <=> Closes(s[i]))
  OBVIOUS
<1> HIDE DEF lv, A, B
<1>4. ASSUME NEW i \in Nat
      PROVE  /\ o[0] = 0 /\ o[i] \in Nat /\ o[i + 1] = IF i + 1 \in A THEN o[i] + 1 ELSE o[i]
             /\ c[0] = 0 /\ c[i] \in Nat /\ c[i + 1] = IF i + 1 \in B THEN c[i] + 1 ELSE c[i]
  BY CountUpTo
<1> HIDE DEF o, c
<1>5. lv[1] = 0
  <2>1. 1 \in 1..(Len(s) + 1) /\ 1 - 1 = 0
    BY <1>1
  <2>2. lv[1] = o[0] - c[0] /\ o[0] = 0 /\ c[0] = 0
    BY <1>2, <1>4, <2>1
  <2> QED BY <2>2
<1>6. ASSUME NEW i \in 1..(Len(s) + 1)
      PROVE  lv[i] \in Int
  <2>1. i - 1 \in Nat
    BY <1>1
  <2>2. o[i - 1] \in Nat /\ c[i - 1] \in Nat
    BY <1>4, <2>1
  <2> QED BY <1>2, <2>2
<1>7. ASSUME NEW i \in 1..Len(s)
      PROVE  lv[i + 1] = IF Opens(s[i]) THEN lv[i] + 1
                         ELSE IF Closes(s[i]) THEN lv[i] - 1 ELSE lv[i]
  <2> DEFINE m == i - 1
  <2>1. m \in Nat /\ m + 1 = i /\ (i + 1) - 1 = i /\ i \in 1..(Len(s) + 1) /\ i + 1 \in 1..(Len(s) + 1)
    BY <1>1
  <2>2. lv[i] = o[m] - c[m] /\ lv[i + 1] = o[i] - c[i]
    BY <1>2, <2>1
  <2> HIDE DEF m
  <2>3. /\ o[i] = IF i \in A THEN o[m] + 1 ELSE o[m]
        /\ c[i] = IF i \in B THEN c[m] + 1 ELSE c[m]
        /\ o[m] \in Nat /\ c[m] \in Nat
    BY <1>4, <2>1
  <2>4. (i \in A <=> Opens(s[i])) /\ (i \in B <=> Closes(s[i]))
    BY <1>3
  <2> QED BY <2>2, <2>3, <2>4, OpensOrCloses
<1> QED BY <1>5, <1>6, <1>7 DEF lv

\* The members of an open container after one more token.
LEMMA MembersStep ==
  ASSUME NEW s, NEW lv, NEW n \in Nat, NEW o \in 1..n, NEW k
  PROVE  LET M == MembersOf(s, lv, o, n, k)
             N == MembersOf(s, lv, o, n + 1, k)
             new == ~ Closes(s[n + 1]) /\ lv[n + 1] = k
         IN  /\ N = IF new THEN M \cup {n + 1} ELSE M
             /\ n + 1 \notin M /\ Cardinality(M) \in Nat
             /\ Cardinality(N) = IF new THEN Cardinality(M) + 1 ELSE Cardinality(M)
<1> DEFINE M == MembersOf(s, lv, o, n, k)
           N == MembersOf(s, lv, o, n + 1, k)
           new == ~ Closes(s[n + 1]) /\ lv[n + 1] = k
<1>1. N = IF new THEN M \cup {n + 1} ELSE M
  <2>1. \A j : j \in (o + 1)..(n + 1) <=> (j \in (o + 1)..n \/ j = n + 1)
    OBVIOUS
  <2> QED BY <2>1 DEF MembersOf
<1>2. M \subseteq (o + 1)..n /\ n + 1 \notin M
  BY DEF MembersOf
<1> HIDE DEF M, N
<1>3. IsFiniteSet(M) /\ Cardinality(M) \in Nat
  <2>1. M \in SUBSET ((o + 1)..n) /\ o + 1 \in Int /\ n \in Int
    BY <1>2
  <2> QED BY <2>1, PartOfRange
<1>4. Cardinality(N) = IF new THEN Cardinality(M) + 1 ELSE Cardinality(M)
  BY <1>1, <1>2, <1>3, OneMore
<1> QED BY <1>1, <1>2, <1>3, <1>4 DEF M, N

\* The containers that are open were opened one inside the other.
LEMMA PlacedInOrder ==
  ASSUME NEW s, NEW lv, NEW n \in Nat, NEW op, Placed(s, lv, n, op),
         NEW k \in DOMAIN op, NEW m \in DOMAIN op, k < m
  PROVE  op[k] < op[m]
<1>1. /\ lv[op[k]] = k - 1 /\ lv[op[m]] = m - 1
      /\ \A j \in (op[m] + 1)..(n + 1) : lv[j] >= m
  BY DEF Placed
<1>1a. k \in Nat /\ m \in Nat /\ op[k] \in 1..n /\ op[m] \in 1..n
  BY DEF Placed
<1>2. op[k] # op[m]
  BY <1>1, <1>1a
<1>3. ~ (op[m] < op[k])
  <2> SUFFICES ASSUME op[m] < op[k] PROVE FALSE
    OBVIOUS
  <2>1. op[k] \in (op[m] + 1)..(n + 1)
    BY <1>1a
  <2> QED BY <1>1, <1>1a, <2>1
<1> QED BY <1>1a, <1>2, <1>3

\* A token at level k after the k-th open bracket is in its container.
LEMMA PlacedParent ==
  ASSUME NEW s, IsSeq(s), NEW lv, lv = Levels(s), NEW n \in 0..Len(s),
         NEW op, Placed(s, lv, n, op), NEW k \in DOMAIN op,
         NEW i \in (op[k] + 1)..(n + 1), lv[i] = k
  PROVE  /\ Parent(s, lv, i) = op[k]
         /\ Before(s, lv, i) = MembersOf(s, lv, op[k], i - 1, k)
         /\ InObject(s, lv, i) <=> Braces(s[op[k]].delim)
<1>1. /\ Len(s) \in Nat /\ k \in Nat \ {0} /\ op[k] \in 1..n /\ Opens(s[op[k]])
      /\ lv[op[k]] = k - 1 /\ \A j \in (op[k] + 1)..(n + 1) : lv[j] >= k
  BY DEF Placed, IsSeq
<1> DEFINE S == {j \in 1..(i - 1) : Opens(s[j]) /\ lv[j] < lv[i]}
<1>2. op[k] \in S /\ S \subseteq Int
  BY <1>1
<1>3. \A j \in S : op[k] >= j
  <2> SUFFICES ASSUME NEW j \in S, j > op[k] PROVE FALSE
    BY <1>1
  <2>1. j \in (op[k] + 1)..(n + 1) /\ j \in 1..(Len(s) + 1)
    BY <1>1
  <2>2. lv[j] \in Int /\ lv[j] >= k /\ lv[j] < k
    BY <1>1, <2>1, LevelsAre
  <2> QED BY <1>1, <2>2
<1> HIDE DEF S
<1>4. Max(S) = op[k]
  BY <1>2, <1>3, MaxIs
<1>5. Parent(s, lv, i) = op[k]
  BY <1>4, Zenon DEF Parent, S
<1>6. Before(s, lv, i) = MembersOf(s, lv, op[k], i - 1, k)
  BY <1>5 DEF Before, MembersOf
<1>7. InObject(s, lv, i) <=> Braces(s[op[k]].delim)
  <2>1. lv[i] > 0
    BY <1>1
  <2> QED BY <1>5, <2>1, Zenon DEF InObject, Braces
<1> QED BY <1>5, <1>6, <1>7

\* The container around a token, at each level.
LEMMA AncestorIs ==
  ASSUME NEW s, IsSeq(s), NEW lv, lv = Levels(s), NEW n \in 0..Len(s),
         NEW op, Placed(s, lv, n, op), NEW k \in DOMAIN op, NEW i \in op[k]..(n + 1)
  PROVE  Ancestor(s, lv, i, k - 1) = op[k]
<1>1. /\ Len(s) \in Nat /\ k \in Nat \ {0} /\ op[k] \in 1..n /\ ~ Closes(s[op[k]])
      /\ lv[op[k]] = k - 1 /\ \A j \in (op[k] + 1)..(n + 1) : lv[j] >= k
  BY OpensOrCloses DEF Placed, IsSeq
<1> DEFINE S == {j \in 1..i : ~ Closes(s[j]) /\ lv[j] = k - 1}
<1>2. op[k] \in S /\ S \subseteq Int
  BY <1>1
<1>3. \A j \in S : op[k] >= j
  <2> SUFFICES ASSUME NEW j \in S, j > op[k] PROVE FALSE
    BY <1>1
  <2>1. j \in (op[k] + 1)..(n + 1)
    BY <1>1
  <2> QED BY <1>1, <2>1
<1> HIDE DEF S
<1>4. Max(S) = op[k]
  BY <1>2, <1>3, MaxIs
<1> QED BY <1>4, Zenon DEF Ancestor, S

\* The path of an open container, and of a token that closes none.
LEMMA PathIs ==
  ASSUME NEW s, IsSeq(s), NEW lv, lv = Levels(s), NEW n \in 0..Len(s),
         NEW op, Placed(s, lv, n, op)
  PROVE  /\ \A m \in DOMAIN op : PathOf(s, lv, op[m]) = OpenPath(s, lv, op, m)
         /\ n < Len(s) /\ ~ Closes(s[n + 1]) =>
              PathOf(s, lv, n + 1) = NextPath(s, lv, op, lv[n + 1], Component(s, lv, n + 1))
<1>1. /\ Len(s) \in Nat /\ lv[n + 1] \in Nat /\ DOMAIN op = 1..lv[n + 1]
      /\ \A k \in DOMAIN op : op[k] \in 1..n /\ lv[op[k]] = k - 1
  BY SMTT(30) DEF Placed, IsSeq
<1>2. ASSUME NEW m \in DOMAIN op
      PROVE  PathOf(s, lv, op[m]) = [k \in 1..(m - 1) |-> Component(s, lv, op[k + 1])]
  <2>1. \A k \in 1..(m - 1) : Ancestor(s, lv, op[m], k) = op[k + 1]
    <3> SUFFICES ASSUME NEW k \in 1..(m - 1)
                 PROVE  Ancestor(s, lv, op[m], k) = op[k + 1]
      OBVIOUS
    <3>1. k + 1 \in DOMAIN op /\ (k + 1) - 1 = k /\ (k + 1 = m \/ k + 1 < m)
      BY <1>1
    <3>2. op[k + 1] \in 1..n /\ op[m] \in 1..n
      BY <1>1, <3>1
    <3>2a. op[k + 1] <= op[m]
      <4>1. CASE k + 1 = m
        BY <3>2, <4>1
      <4>2. CASE k + 1 < m
        <5>1. n \in Nat
          BY <1>1
        <5>2. op[k + 1] < op[m]
          BY <3>1, <4>2, <5>1, PlacedInOrder
        <5> QED BY <3>2, <5>2
      <4> QED BY <3>1, <4>1, <4>2
    <3>3. op[m] \in op[k + 1]..(n + 1)
      BY <3>2, <3>2a
    <3> QED BY <3>1, <3>3, AncestorIs
  <2>2. lv[op[m]] = m - 1
    BY <1>1
  <2> QED BY <2>1, <2>2 DEF PathOf
<1>3. ASSUME n < Len(s), ~ Closes(s[n + 1])
      PROVE  PathOf(s, lv, n + 1) =
                [k \in 1..lv[n + 1] |-> IF k < lv[n + 1] THEN Component(s, lv, op[k + 1])
                                                         ELSE Component(s, lv, n + 1)]
  <2>1. \A k \in 1..lv[n + 1] :
          Ancestor(s, lv, n + 1, k) = IF k < lv[n + 1] THEN op[k + 1] ELSE n + 1
    <3> SUFFICES ASSUME NEW k \in 1..lv[n + 1]
                 PROVE  Ancestor(s, lv, n + 1, k)
                          = IF k < lv[n + 1] THEN op[k + 1] ELSE n + 1
      OBVIOUS
    <3>1. CASE k < lv[n + 1]
      <4>1. k + 1 \in DOMAIN op /\ (k + 1) - 1 = k
        BY <1>1, <3>1
      <4>2. n + 1 \in op[k + 1]..(n + 1)
        BY <1>1, <4>1
      <4> QED BY <3>1, <4>1, <4>2, AncestorIs
    <3>2. CASE ~ (k < lv[n + 1])
      <4>1. k = lv[n + 1]
        BY <1>1, <3>2
      <4> DEFINE S == {j \in 1..(n + 1) : ~ Closes(s[j]) /\ lv[j] = k}
      <4>2. n + 1 \in S /\ S \subseteq Int /\ \A j \in S : n + 1 >= j
        BY <1>1, <1>3, <4>1
      <4> HIDE DEF S
      <4>3. Max(S) = n + 1
        BY <4>2, MaxIs
      <4>4. Ancestor(s, lv, n + 1, k) = n + 1
        BY <4>3, Zenon DEF Ancestor, S
      <4> QED BY <3>2, <4>4
    <3> QED BY <3>1, <3>2
  <2> QED BY <2>1 DEF PathOf
<1> QED BY <1>2, <1>3, Zenon DEF OpenPath, NextPath

\* What is on a stack after a pop, a push, and both.
LEMMA StackOps ==
  ASSUME NEW st, IsSeq(st), NEW g
  PROVE  /\ LET a == Append(st, g)
            IN  /\ IsSeq(a) /\ Len(a) = Len(st) + 1 /\ a[Len(st) + 1] = g
                /\ \A k \in 1..Len(st) : a[k] = st[k]
         /\ st # <<>> =>
              LET b == Below(st)
                  a == Append(b, g)
              IN  /\ IsSeq(b) /\ Len(b) = Len(st) - 1
                  /\ \A k \in 1..(Len(st) - 1) : b[k] = st[k]
                  /\ IsSeq(a) /\ Len(a) = Len(st) /\ a[Len(st)] = g
                  /\ \A k \in 1..(Len(st) - 1) : a[k] = st[k]
         /\ Len(st) \in Nat /\ (Len(st) = 0 <=> st = <<>>) /\ DOMAIN st = 1..Len(st)
<1>1. PICK S : st \in Seq(S)
  BY DEF IsSeq
<1> DEFINE T == S \cup {g}
<1>2. ASSUME NEW u \in Seq(T)
      PROVE  /\ Append(u, g) \in Seq(T) /\ Len(Append(u, g)) = Len(u) + 1
             /\ Append(u, g)[Len(u) + 1] = g
             /\ \A k \in 1..Len(u) : Append(u, g)[k] = u[k]
  BY <1>2
<1>3. st \in Seq(T) /\ Len(st) \in Nat
  BY <1>1
<1>4. ASSUME st # <<>>
      PROVE  /\ Below(st) \in Seq(T) /\ Len(Below(st)) = Len(st) - 1 /\ Len(st) # 0
             /\ \A k \in 1..(Len(st) - 1) : Below(st)[k] = st[k]
  <2> HIDE DEF T
  <2>1. Len(st) \in Nat \ {0}
    BY <1>3, <1>4
  <2>2. st \in Seq(T)
    BY <1>3
  <2>3. Below(st) \in Seq(T)
    BY <2>1, <2>2 DEF Below
  <2>4. Len(Below(st)) = Len(st) - 1
    <3> DEFINE m == Len(st) - 1
    <3>1. m \in Nat /\ \A i \in 1..m : st[i] \in T
      BY <2>1, <2>2
    <3> HIDE DEF m
    <3>2. Len(SubSeq(st, 1, m)) = IF 1 <= m THEN m - 1 + 1 ELSE 0
      BY <3>1, SubSeqProperties
    <3>3. Len(SubSeq(st, 1, m)) = m
      BY <3>1, <3>2
    <3> QED BY <3>3 DEF Below, m
  <2>5. \A k \in 1..(Len(st) - 1) : Below(st)[k] = st[k]
    BY <2>1, <2>2 DEF Below
  <2> QED BY <2>1, <2>3, <2>4, <2>5
<1> HIDE DEF T
<1>5. /\ IsSeq(Append(st, g)) /\ Len(Append(st, g)) = Len(st) + 1
      /\ Append(st, g)[Len(st) + 1] = g
      /\ \A k \in 1..Len(st) : Append(st, g)[k] = st[k]
  BY <1>2, <1>3 DEF IsSeq
<1>6. ASSUME st # <<>>
      PROVE  LET b == Below(st)
                 a == Append(b, g)
             IN  /\ IsSeq(b) /\ Len(b) = Len(st) - 1
                 /\ \A k \in 1..(Len(st) - 1) : b[k] = st[k]
                 /\ IsSeq(a) /\ Len(a) = Len(st) /\ a[Len(st)] = g
                 /\ \A k \in 1..(Len(st) - 1) : a[k] = st[k]
  <2> DEFINE b == Below(st)
             a == Append(b, g)
  <2>1. /\ b \in Seq(T) /\ Len(b) = Len(st) - 1 /\ Len(st) # 0
        /\ \A k \in 1..(Len(st) - 1) : b[k] = st[k]
    BY <1>4, <1>6
  <2> HIDE DEF b
  <2>2. /\ a \in Seq(T) /\ Len(a) = Len(b) + 1 /\ a[Len(b) + 1] = g
        /\ \A k \in 1..Len(b) : a[k] = b[k]
    BY <1>2, <2>1
  <2> HIDE DEF a
  <2>3. Len(b) + 1 = Len(st) /\ Len(a) = Len(st) /\ a[Len(st)] = g
    BY <1>3, <2>1, <2>2
  <2>4. \A k \in 1..(Len(st) - 1) : a[k] = st[k]
    BY <2>1, <2>2
  <2> QED BY <2>1, <2>2, <2>3, <2>4 DEF a, b, IsSeq
<1>7. (Len(st) = 0 <=> st = <<>>) /\ DOMAIN st = 1..Len(st)
  BY <1>1
<1> QED BY <1>3, <1>5, <1>6, <1>7

\* The innermost container replaced.
LEMMA TopReplaced ==
  ASSUME NEW st, IsSeq(st), st # <<>>, NEW g, NEW a, a = Append(Below(st), g)
  PROVE  /\ IsSeq(a) /\ Len(a) = Len(st) /\ a[Len(st)] = g /\ DOMAIN a = 1..Len(st)
         /\ \A k \in 1..Len(st) : k # Len(st) => a[k] = st[k]
<1>1. /\ IsSeq(a) /\ Len(a) = Len(st) /\ a[Len(st)] = g
      /\ \A k \in 1..(Len(st) - 1) : a[k] = st[k]
  BY StackOps
<1>2. DOMAIN a = 1..Len(st)
  BY <1>1, StackOps
<1>3. Len(st) \in Nat
  BY StackOps
<1>4. \A k \in 1..Len(st) : k # Len(st) => k \in 1..(Len(st) - 1)
  BY <1>3
<1> QED BY <1>1, <1>2, <1>4

\* Whose turn it is: what the next token is, and at which place.
LEMMA TurnIs ==
  ASSUME NEW s, IsSeq(s), NEW lv, lv = Levels(s), NEW n \in 0..Len(s),
         NEW op, Placed(s, lv, n, op), lv[n + 1] > 0,
         NEW f, Idle(s, lv, n, op, lv[n + 1], f)
  PROVE  /\ InObject(s, lv, n + 1) <=> Braces(f.delim)
         /\ Before(s, lv, n + 1) = MembersOf(s, lv, op[lv[n + 1]], n, lv[n + 1])
         /\ IsKey(s, lv, n + 1) <=> Braces(f.delim) /\ f.key = Nil
         /\ ~ IsKey(s, lv, n + 1) => Component(s, lv, n + 1) = Cur(f)
<1> DEFINE e == lv[n + 1]
           M == MembersOf(s, lv, op[e], n, e)
<1>1. /\ e \in DOMAIN op /\ n \in Nat /\ op[e] \in 1..n /\ (n + 1) - 1 = n
      /\ n + 1 \in (op[e] + 1)..(n + 1) /\ e \in Nat
  BY DEF Placed, IsSeq
<1>2. /\ Before(s, lv, n + 1) = M
      /\ InObject(s, lv, n + 1) <=> Braces(s[op[e]].delim)
  BY <1>1, PlacedParent, SMTT(30)
<1>3. f.delim = s[op[e]].delim /\ f.count \in Nat
  BY DEF Idle, FrameIs
<1>4. IF ~ Braces(f.delim) THEN f.key = Nil /\ Cardinality(M) = f.count
      ELSE IF f.key = Nil THEN Cardinality(M) = 2 * f.count
      ELSE Cardinality(M) = 2 * f.count + 1 /\ s[n] = [text |-> f.key]
  BY DEF Idle
<1> HIDE DEF e, M
<1>5. InObject(s, lv, n + 1) <=> Braces(f.delim)
  BY <1>2, <1>3
<1>6. IsKey(s, lv, n + 1) <=> InObject(s, lv, n + 1) /\ Cardinality(M) % 2 = 0
  BY <1>2 DEF IsKey
<1>7. IsKey(s, lv, n + 1) <=> Braces(f.delim) /\ f.key = Nil
  <2>1. \A c \in Nat : (2 * c) % 2 = 0 /\ (2 * c + 1) % 2 = 1
    OBVIOUS
  <2> QED BY <1>3, <1>4, <1>5, <1>6, <2>1
<1>8. ASSUME ~ IsKey(s, lv, n + 1)
      PROVE  Component(s, lv, n + 1) = Cur(f)
  <2>1. CASE Braces(f.delim)
    <3>1. s[(n + 1) - 1].text = f.key
      BY <1>1, <1>4, <1>7, <1>8, <2>1
    <3> QED BY <1>5, <2>1, <3>1 DEF Component, Cur
  <2>2. CASE ~ Braces(f.delim)
    BY <1>2, <1>4, <1>5, <2>2 DEF Component, Cur
  <2> QED BY <2>1, <2>2
<1> QED BY <1>2, <1>5, <1>7, <1>8 DEF e, M

\* A token that is no member of a container leaves its frame true.
LEMMA BusyStep ==
  ASSUME NEW s, NEW lv, NEW n \in Nat, NEW op, NEW k, op[k] \in 1..n,
         NEW f, Busy(s, lv, n, op, k, f), Closes(s[n + 1]) \/ lv[n + 1] # k
  PROVE  Busy(s, lv, n + 1, op, k, f)
<1>1. MembersOf(s, lv, op[k], n + 1, k) = MembersOf(s, lv, op[k], n, k)
  <2> DEFINE o == op[k]
             new == ~ Closes(s[n + 1]) /\ lv[n + 1] = k
  <2>1. o \in 1..n /\ ~ new
    OBVIOUS
  <2> HIDE DEF o
  <2>2. MembersOf(s, lv, o, n + 1, k)
          = IF new THEN MembersOf(s, lv, o, n, k) \cup {n + 1} ELSE MembersOf(s, lv, o, n, k)
    BY <2>1, MembersStep, ZenonT(60)
  <2> QED BY <2>1, <2>2 DEF o
<1> DEFINE M == MembersOf(s, lv, op[k], n, k)
           N == MembersOf(s, lv, op[k], n + 1, k)
<1>2. M = N
  BY <1>1
<1>3. FrameIs(s, lv, n + 1, op, k, f)
  <2>1. FrameIs(s, lv, n, op, k, f)
    BY DEF Busy
  <2>2. f.keys = {s[j].text : j \in {i \in M : IsKey(s, lv, i)}}
    BY <2>1, Zenon DEF FrameIs
  <2> HIDE DEF M, N
  <2>3. f.keys = {s[j].text : j \in {i \in N : IsKey(s, lv, i)}}
    BY <1>2, <2>2
  <2> QED BY <2>1, <2>3, Zenon DEF FrameIs, N
<1>4. IF Braces(f.delim) THEN f.key # Nil /\ Cardinality(M) = 2 * f.count + 2
                         ELSE f.key = Nil /\ Cardinality(M) = f.count + 1
  BY DEF Busy
<1> HIDE DEF M, N
<1>5. IF Braces(f.delim) THEN f.key # Nil /\ Cardinality(N) = 2 * f.count + 2
                         ELSE f.key = Nil /\ Cardinality(N) = f.count + 1
  BY <1>2, <1>4
<1> QED BY <1>3, <1>5, Zenon DEF Busy, N

\* A token that begins a value.
LEMMA ValueBegins ==
  ASSUME NEW s, IsSeq(s), NEW lv, lv = Levels(s), NEW n \in 0..Len(s),
         NEW op, Placed(s, lv, n, op), lv[n + 1] > 0,
         NEW f, Idle(s, lv, n, op, lv[n + 1], f),
         ~ Closes(s[n + 1]), ~ IsKey(s, lv, n + 1)
  PROVE  Busy(s, lv, n + 1, op, lv[n + 1], f)
<1> DEFINE e == lv[n + 1]
           M == MembersOf(s, lv, op[e], n, e)
           N == MembersOf(s, lv, op[e], n + 1, e)
<1>1. e \in DOMAIN op /\ n \in Nat /\ op[e] \in 1..n
  BY DEF Placed, IsSeq
<1>2. N = M \cup {n + 1} /\ Cardinality(N) = Cardinality(M) + 1
  BY <1>1, MembersStep, ZenonT(60)
<1>3. ~ (Braces(f.delim) /\ f.key = Nil)
  BY TurnIs
<1>4. FrameIs(s, lv, n, op, e, f) /\ f.count \in Nat
  BY DEF Idle, FrameIs
<1>5. FrameIs(s, lv, n + 1, op, e, f)
  <2>1. {s[j].text : j \in {i \in N : IsKey(s, lv, i)}}
          = {s[j].text : j \in {i \in M : IsKey(s, lv, i)}}
    <3>1. {i \in N : IsKey(s, lv, i)} = {i \in M : IsKey(s, lv, i)}
      <4> HIDE DEF M, N
      <4> QED BY <1>2
    <3> QED BY <3>1
  <2> QED BY <1>4, <2>1, Zenon DEF FrameIs
<1>6. IF ~ Braces(f.delim) THEN f.key = Nil /\ Cardinality(M) = f.count
      ELSE f.key # Nil /\ Cardinality(M) = 2 * f.count + 1
  BY <1>3 DEF Idle
<1> HIDE DEF M, N
<1>7. IF Braces(f.delim) THEN f.key # Nil /\ Cardinality(N) = 2 * f.count + 2
                         ELSE f.key = Nil /\ Cardinality(N) = f.count + 1
  BY <1>2, <1>4, <1>6
<1>8. Busy(s, lv, n + 1, op, e, f)
  BY <1>5, <1>7, Zenon DEF Busy, N
<1> QED BY <1>8

\* The places of the open containers after an opening and a closing bracket.
Pushed(op, k, o) == [m \in 1..(k + 1) |-> IF m <= k THEN op[m] ELSE o]
Popped(op, k) == [m \in 1..(k - 1) |-> op[m]]

\* The open containers after a scalar or a key, an opening and a closing bracket.
LEMMA PlacedStep ==
  ASSUME NEW s, IsSeq(s), NEW lv, lv = Levels(s), NEW n \in Nat, n < Len(s),
         NEW op, Placed(s, lv, n, op)
  PROVE  LET e == lv[n + 1]
         IN  /\ ~ Opens(s[n + 1]) /\ ~ Closes(s[n + 1]) =>
                  lv[n + 2] = e /\ Placed(s, lv, n + 1, op)
             /\ Opens(s[n + 1]) => lv[n + 2] = e + 1 /\ Placed(s, lv, n + 1, Pushed(op, e, n + 1))
             /\ Closes(s[n + 1]) /\ e > 0 =>
                  lv[n + 2] = e - 1 /\ Placed(s, lv, n + 1, Popped(op, e))
<1> DEFINE e == lv[n + 1]
           pushed == Pushed(op, e, n + 1)
           popped == Popped(op, e)
<1>1. /\ e \in Nat /\ op \in [1..e -> 1..n]
      /\ \A k \in 1..e : /\ Opens(s[op[k]]) /\ lv[op[k]] = k - 1
                         /\ \A j \in (op[k] + 1)..(n + 1) : lv[j] >= k
  BY DEF Placed
<1>2. /\ (n + 1) + 1 = n + 2
      /\ lv[n + 2] = IF Opens(s[n + 1]) THEN e + 1 ELSE IF Closes(s[n + 1]) THEN e - 1 ELSE e
  BY LevelsAre
<1> HIDE DEF e
<1>3. \A k \in 1..e : op[k] \in 1..n
  BY <1>1
<1>4. ASSUME NEW k \in 1..e, lv[n + 2] >= k, NEW j \in (op[k] + 1)..(n + 2)
      PROVE  lv[j] >= k
  <2>1. op[k] \in 1..n
    BY <1>3
  <2>2. j \in (op[k] + 1)..(n + 1) \/ j = n + 2
    BY <2>1
  <2> QED BY <1>1, <1>4, <2>2
<1>5. ASSUME ~ Opens(s[n + 1]), ~ Closes(s[n + 1])
      PROVE  lv[n + 2] = e /\ Placed(s, lv, n + 1, op)
  <2>1. lv[n + 2] = e
    BY <1>2, <1>5
  <2>2. op \in [1..e -> 1..(n + 1)]
    BY <1>1, <1>3
  <2>3. \A k \in 1..e : \A j \in (op[k] + 1)..(n + 2) : lv[j] >= k
    BY <1>1, <1>4, <2>1
  <2> QED BY <1>1, <1>2, <2>1, <2>2, <2>3 DEF Placed
<1>6. ASSUME Opens(s[n + 1])
      PROVE  lv[n + 2] = e + 1 /\ Placed(s, lv, n + 1, pushed)
  <2>1. lv[n + 2] = e + 1 /\ e + 1 \in Nat
    BY <1>1, <1>2, <1>6
  <2>2. pushed \in [1..(e + 1) -> 1..(n + 1)]
    BY <1>1, <1>3 DEF Pushed
  <2>3. \A k \in 1..(e + 1) : pushed[k] = IF k \in 1..e THEN op[k] ELSE n + 1
    BY <1>1 DEF Pushed
  <2> HIDE DEF pushed
  <2>4. ASSUME NEW k \in 1..(e + 1)
        PROVE  /\ Opens(s[pushed[k]]) /\ lv[pushed[k]] = k - 1
               /\ \A j \in (pushed[k] + 1)..(n + 2) : lv[j] >= k
    <3>1. CASE k \in 1..e
      <4>1. pushed[k] = op[k] /\ lv[n + 2] >= k
        BY <1>1, <2>1, <2>3, <3>1
      <4> QED BY <1>1, <1>4, <3>1, <4>1
    <3>2. CASE k \notin 1..e
      <4>1. k = e + 1 /\ pushed[k] = n + 1 /\ lv[n + 1] = e
        BY <1>1, <2>3, <3>2 DEF e
      <4>2. \A j \in ((n + 1) + 1)..(n + 2) : j = n + 2
        OBVIOUS
      <4> QED BY <1>1, <1>6, <2>1, <4>1, <4>2
    <3> QED BY <3>1, <3>2
  <2> QED BY <1>2, <2>1, <2>2, <2>4 DEF Placed
<1>7. ASSUME Closes(s[n + 1]), e > 0
      PROVE  lv[n + 2] = e - 1 /\ Placed(s, lv, n + 1, popped)
  <2>1. lv[n + 2] = e - 1 /\ e - 1 \in Nat
    BY <1>1, <1>2, <1>7, OpensOrCloses
  <2>2. popped \in [1..(e - 1) -> 1..(n + 1)]
    BY <1>1, <1>3 DEF Popped
  <2>3. \A k \in 1..(e - 1) : popped[k] = op[k] /\ k \in 1..e
    BY <1>1 DEF Popped
  <2> HIDE DEF popped
  <2>4. ASSUME NEW k \in 1..(e - 1)
        PROVE  /\ Opens(s[popped[k]]) /\ lv[popped[k]] = k - 1
               /\ \A j \in (popped[k] + 1)..(n + 2) : lv[j] >= k
    <3>1. popped[k] = op[k] /\ lv[n + 2] >= k /\ k \in 1..e
      BY <1>1, <2>1, <2>3
    <3> QED BY <1>1, <1>4, <3>1
  <2> QED BY <1>2, <2>1, <2>2, <2>4 DEF Placed
<1> QED BY <1>5, <1>6, <1>7 DEF e

\* A document with one more leaf, at a new path.
LEMMA DocGrows ==
  ASSUME NEW s, NEW lv, NEW L, NEW doc, DocSays(s, lv, L, doc),
         NEW i, i \notin L, PathOf(s, lv, i) \notin DOMAIN doc
  PROVE  DocSays(s, lv, L \cup {i}, WithLeaf(doc, PathOf(s, lv, i), Value(s[i])))
<1> DEFINE K == L \cup {i}
           p == PathOf(s, lv, i)
           at == [j \in L |-> PathOf(s, lv, j)]
           to == [j \in K |-> PathOf(s, lv, j)]
           d == [q \in DOMAIN doc \cup {p} |-> IF q = p THEN Value(s[i]) ELSE doc[q]]
<1>1. /\ DOMAIN doc = {at[j] : j \in DOMAIN at}
      /\ \A j \in DOMAIN at : doc[at[j]] = Value(s[j])
      /\ \A j, k \in DOMAIN at : at[j] = at[k] => j = k
  BY Zenon DEF DocSays
<1>2. K = L \cup {i} /\ i \notin L /\ p \notin DOMAIN doc
  OBVIOUS
<1>3. DOMAIN at = L /\ DOMAIN to = K /\ (\A j \in L : to[j] = at[j]) /\ to[i] = p
  BY <1>2
<1>4. DOMAIN d = DOMAIN doc \cup {p} /\ d[p] = Value(s[i]) /\ \A q \in DOMAIN doc : d[q] = doc[q]
  BY <1>2
<1>5. d = [q \in DOMAIN d |-> d[q]]
  OBVIOUS
<1> HIDE DEF K, p, at, to, d
<1>6. DOMAIN d = {to[j] : j \in DOMAIN to}
  BY <1>1, <1>2, <1>3, <1>4
<1>7. \A j \in DOMAIN to : d[to[j]] = Value(s[j])
  BY <1>1, <1>2, <1>3, <1>4
<1>8. \A j, k \in DOMAIN to : to[j] = to[k] => j = k
  BY <1>1, <1>2, <1>3
<1>9. DocSays(s, lv, K, d)
  BY <1>5, <1>6, <1>7, <1>8, Zenon DEF DocSays, to
<1> QED BY <1>9, Zenon DEF WithLeaf, d, p, K

\* The leaves that one more token adds.
LEMMA LeavesStep ==
  ASSUME NEW s, NEW lv, NEW n \in Nat
  PROVE  /\ n + 1 \notin LeavesTo(s, lv, n)
         /\ ~ Closes(s[n + 1]) /\ ~ Opens(s[n + 1]) /\ ~ IsKey(s, lv, n + 1) =>
              LeavesTo(s, lv, n + 1) = LeavesTo(s, lv, n) \cup {n + 1}
         /\ ~ Closes(s[n + 1]) /\ (Opens(s[n + 1]) \/ IsKey(s, lv, n + 1)) =>
              LeavesTo(s, lv, n + 1) = LeavesTo(s, lv, n)
         /\ Closes(s[n + 1]) /\ n > 0 /\ Opens(s[n]) /\ ~ IsKey(s, lv, n) =>
              /\ n \notin LeavesTo(s, lv, n)
              /\ LeavesTo(s, lv, n + 1) = LeavesTo(s, lv, n) \cup {n}
         /\ Closes(s[n + 1]) /\ (n = 0 \/ ~ Opens(s[n])) =>
              LeavesTo(s, lv, n + 1) = LeavesTo(s, lv, n)
<1>1. \A i : i \in 1..(n + 1) <=> (i \in 1..n \/ i = n + 1)
  OBVIOUS
<1>2. \A i \in 1..n : i < n + 1 /\ (i < n \/ i = n) /\ i # n + 1
  OBVIOUS
<1>3. \A i : ~ (Opens(s[i]) /\ Closes(s[i]))
  BY OpensOrCloses
<1> DEFINE L == LeavesTo(s, lv, n)
           K == LeavesTo(s, lv, n + 1)
<1>4. /\ \A i : i \in L <=> i \in 1..n /\ ~ IsKey(s, lv, i) /\ ~ Closes(s[i])
                              /\ (Opens(s[i]) => i < n /\ Closes(s[i + 1]))
      /\ \A i : i \in K <=> i \in 1..(n + 1) /\ ~ IsKey(s, lv, i) /\ ~ Closes(s[i])
                              /\ (Opens(s[i]) => i < n + 1 /\ Closes(s[i + 1]))
  BY DEF LeavesTo
<1> HIDE DEF L, K
<1>5. ASSUME NEW i
      PROVE  i \in K <=> \/ i \in L
                         \/ i = n + 1 /\ ~ IsKey(s, lv, i) /\ ~ Closes(s[i]) /\ ~ Opens(s[i])
                         \/ i = n /\ n > 0 /\ ~ IsKey(s, lv, i) /\ Opens(s[i]) /\ Closes(s[n + 1])
  <2>1. CASE i \in 1..n
    BY <1>2, <1>3, <1>4, <2>1
  <2>2. CASE i = n + 1
    BY <1>3, <1>4, <2>2
  <2>3. CASE i \notin 1..(n + 1)
    BY <1>1, <1>4, <2>3
  <2> QED BY <1>1, <2>1, <2>2, <2>3
<1>6. n + 1 \notin L /\ (Opens(s[n]) => n \notin L)
  BY <1>4
<1> QED BY <1>5, <1>6 DEF L, K

\* A path one component longer.
LEMMA LongerPath ==
  ASSUME NEW n \in Nat, NEW F, NEW p, p = [m \in 1..n |-> F[m]], NEW x
  PROVE  Append(p, x) = [m \in 1..(n + 1) |-> IF m < n + 1 THEN F[m] ELSE x]
<1> DEFINE S == {F[m] : m \in 1..n} \cup {x}
           q == [m \in 1..(n + 1) |-> IF m < n + 1 THEN F[m] ELSE x]
<1>1. p \in [1..n -> S]
  OBVIOUS
<1>2. q \in [1..(n + 1) -> S]
  OBVIOUS
<1>3. /\ \A m \in 1..n : p[m] = F[m]
      /\ \A m \in 1..n : q[m] = F[m]
      /\ q[n + 1] = x /\ x \in S
  OBVIOUS
<1> HIDE DEF S, q
<1>4. p \in Seq(S) /\ Len(p) = n
  BY <1>1
<1>5. q \in Seq(S) /\ Len(q) = n + 1
  BY <1>2
<1> DEFINE a == Append(p, x)
<1>6. a \in Seq(S) /\ Len(a) = n + 1 /\ a[n + 1] = x /\ \A m \in 1..n : a[m] = p[m]
  BY <1>3, <1>4
<1> HIDE DEF a
<1>7. \A m \in 1..Len(a) : a[m] = q[m]
  BY <1>3, <1>6
<1>8. a = q
  BY <1>5, <1>6, <1>7, SeqEqual
<1> QED BY <1>8 DEF a, q

\* A member that is being read is none of those that have been.
LEMMA CurIsNotDone ==
  ASSUME NEW f, f.count \in Nat
  PROVE  Cur(f) \notin Done(f)
<1>1. \A x, y : [key |-> x] # [index |-> y]
  <2>1. \A x, y : DOMAIN [key |-> x] = {"key"} /\ DOMAIN [index |-> y] = {"index"}
    OBVIOUS
  <2> QED BY <2>1
<1>2. \A x, y : ([key |-> x] = [key |-> y] => x = y) /\ ([index |-> x] = [index |-> y] => x = y)
  <2>1. \A x : [key |-> x].key = x /\ [index |-> x].index = x
    OBVIOUS
  <2> QED BY <2>1
<1>3. \A z \in Done(f) : \/ \E x \in f.keys \ {f.key} : z = [key |-> x]
                         \/ \E c \in 0..(f.count - 1) : z = [index |-> c]
  BY DEF Done
<1>4. CASE Braces(f.delim)
  BY <1>1, <1>2, <1>3, <1>4 DEF Cur
<1>5. CASE ~ Braces(f.delim)
  BY <1>1, <1>2, <1>3, <1>5 DEF Cur
<1> QED BY <1>4, <1>5

\* Once it has been read, it is one of them.
LEMMA CurBecomesDone ==
  ASSUME NEW f, NEW g, f.count \in Nat, g.count = f.count + 1, g.keys = f.keys, g.key = Nil,
         Nil \notin f.keys, Braces(f.delim) => f.key \in f.keys
  PROVE  Done(f) \cup {Cur(f)} \subseteq Done(g)
<1>1. ASSUME NEW x \in f.keys
      PROVE  [key |-> x] \in Done(g)
  <2>1. x \in g.keys \ {g.key}
    BY <1>1
  <2> QED BY <2>1 DEF Done
<1>2. ASSUME NEW c \in 0..f.count
      PROVE  [index |-> c] \in Done(g)
  <2>1. c \in 0..(g.count - 1)
    BY <1>2
  <2> QED BY <2>1 DEF Done
<1>3. Done(f) \subseteq Done(g)
  <2>1. \A c \in 0..(f.count - 1) : c \in 0..f.count
    OBVIOUS
  <2>2. \A z \in Done(f) : \/ \E x \in f.keys \ {f.key} : z = [key |-> x]
                           \/ \E c \in 0..(f.count - 1) : z = [index |-> c]
    BY DEF Done
  <2> QED BY <1>1, <1>2, <2>1, <2>2
<1>4. Cur(f) \in Done(g)
  BY <1>1, <1>2 DEF Cur
<1> QED BY <1>3, <1>4

\* The path of the value that comes next.
LEMMA ValuePathIs ==
  ASSUME NEW s, NEW lv, NEW op, NEW e \in Nat \ {0}, NEW stack, IsSeq(stack), Len(stack) = e,
         stack[e].path = OpenPath(s, lv, op, e)
  PROVE  ValuePath(stack) = NextPath(s, lv, op, e, Cur(stack[e]))
<1> DEFINE p == stack[e].path
           F == [m \in 1..(e - 1) |-> Component(s, lv, op[m + 1])]
           c == Cur(stack[e])
<1>1. stack # <<>> /\ Top(stack) = stack[e]
  BY StackOps DEF Top
<1>2. ValuePath(stack) = Append(p, c)
  BY <1>1, Zenon DEF ValuePath, Cur, Braces
<1>3. e - 1 \in Nat /\ (e - 1) + 1 = e /\ p = [m \in 1..(e - 1) |-> F[m]]
  <2>1. p = F
    BY Zenon DEF OpenPath
  <2> QED BY <2>1
<1> HIDE DEF p, c
<1>4. Append(p, c) = [m \in 1..((e - 1) + 1) |-> IF m < (e - 1) + 1 THEN F[m] ELSE c]
  <2> HIDE DEF F
  <2> QED BY <1>3, LongerPath
<1>5. \A m \in 1..e : m < e => F[m] = Component(s, lv, op[m + 1])
  OBVIOUS
<1> HIDE DEF F
<1>6. Append(p, c) = [m \in 1..e |-> IF m < e THEN Component(s, lv, op[m + 1]) ELSE c]
  BY <1>3, <1>4, <1>5
<1> QED BY <1>2, <1>6, Zenon DEF c, NextPath

\* A leaf at the path that is being read.
LEMMA FreshLeaf ==
  ASSUME NEW doc, NEW stack, NEW b, Fresh(doc, stack, b), NEW p, NEW x,
         \A k \in DOMAIN stack : k \in DOMAIN p /\ k < b /\ p[k] = Cur(stack[k])
  PROVE  Fresh(WithLeaf(doc, p, x), stack, b)
<1>1. DOMAIN WithLeaf(doc, p, x) = DOMAIN doc \cup {p}
  BY DEF WithLeaf
<1> DEFINE d == WithLeaf(doc, p, x)
<1> HIDE DEF d
<1>2. DOMAIN d = DOMAIN doc \cup {p}
  BY <1>1 DEF d
<1>3. Fresh(d, stack, b)
  BY <1>2, Zenon DEF Fresh
<1> QED BY <1>3 DEF d

\* Reading one more member.
LEMMA FreshWider ==
  ASSUME NEW doc, NEW stack, IsSeq(stack), NEW e \in Nat, Fresh(doc, stack, e)
  PROVE  Fresh(doc, stack, e + 1)
<1>1. \A k \in DOMAIN stack : k < e => k < e + 1
  <2>1. DOMAIN stack = 1..Len(stack) /\ Len(stack) \in Nat
    BY StackOps
  <2> QED BY <2>1
<1> QED BY <1>1, Zenon DEF Fresh

\* The frame of a container after one more member, and with the key of the next.
LEMMA FrameEnds ==
  ASSUME NEW f, DOMAIN f = {"delim", "path", "keys", "key", "count"}
  PROVE  LET g == [f EXCEPT !.key = Nil, !.count = @ + 1]
         IN  /\ DOMAIN g = {"delim", "path", "keys", "key", "count"} /\ g = [x \in DOMAIN g |-> g[x]]
             /\ g.delim = f.delim /\ g.path = f.path /\ g.keys = f.keys
             /\ g.key = Nil /\ g.count = f.count + 1
<1> DEFINE g == [f EXCEPT !.key = Nil, !.count = @ + 1]
<1>1. DOMAIN g = DOMAIN f /\ g = [x \in DOMAIN g |-> g[x]]
  OBVIOUS
<1>2. g.delim = f.delim /\ g.path = f.path /\ g.keys = f.keys
  OBVIOUS
<1>3. g.key = Nil /\ g.count = f.count + 1
  OBVIOUS
<1> QED BY <1>1, <1>2, <1>3

\* What has been read when a value has just ended, at any depth.
ValueEnds(s, lv, n, op, doc, stack) ==
  /\ Placed(s, lv, n, op)
  /\ IsSeq(stack) /\ Len(stack) = lv[n + 1]
  /\ \A k \in 1..lv[n + 1] : Busy(s, lv, n, op, k, stack[k])
  /\ Threaded(s, lv, op, stack)
  /\ DocSays(s, lv, LeavesTo(s, lv, n), doc)
  /\ Fresh(doc, stack, lv[n + 1] + 1)
  /\ DOMAIN doc # {}

\* A value that has ended is one more member of its container.
LEMMA EndedIs ==
  ASSUME NEW s, NEW lv, NEW n \in Nat \ {0}, NEW op, NEW doc, NEW stack,
         ValueEnds(s, lv, n, op, doc, stack)
  PROVE  ReadSoFar(s, lv, n, Ended(doc, stack))
<1> DEFINE e == lv[n + 1]
           d == Ended(doc, stack)
<1>1. /\ Placed(s, lv, n, op) /\ IsSeq(stack) /\ Len(stack) = e
      /\ \A k \in 1..e : Busy(s, lv, n, op, k, stack[k])
      /\ Threaded(s, lv, op, stack)
      /\ DocSays(s, lv, LeavesTo(s, lv, n), doc)
      /\ Fresh(doc, stack, e + 1)
      /\ DOMAIN doc # {}
  BY DEF ValueEnds
<1>2. e \in Nat /\ DOMAIN stack = 1..e /\ (e = 0 <=> stack = <<>>)
  <2>1. DOMAIN stack = 1..Len(stack) /\ (Len(stack) = 0 <=> stack = <<>>)
    BY <1>1, StackOps
  <2> QED BY <1>1, <2>1 DEF Placed
<1> HIDE DEF e
<1>3. CASE e = 0
  <2>1. d = [status |-> "value", doc |-> doc, stack |-> stack]
    BY <1>2, <1>3, Zenon DEF Ended
  <2> HIDE DEF d
  <2>3. ~ (n = 0 \/ e > 0)
    BY <1>3
  <2>4. DOMAIN stack = {}
    BY <1>2, <1>3
  <2>5. Fresh(doc, stack, e) /\ Counted(doc, stack)
    BY <2>4 DEF Fresh, Counted
  <2>6. 1..e = {}
    BY <1>3
  <2>7. ReadWith(s, lv, n, op, doc, stack)
    BY <1>1, <1>3, <2>5, <2>6, Zenon DEF ReadWith, e
  <2> QED BY <2>1, <2>3, <2>7, Zenon DEF ReadSoFar, d, e
<1>4. CASE e # 0
  <2> DEFINE f == stack[e]
             g == [f EXCEPT !.key = Nil, !.count = @ + 1]
             st == Append(Below(stack), g)
  <2>1. d = [status |-> "more", doc |-> doc, stack |-> st]
    <3>1. Top(stack) = f
      BY <1>1, Zenon DEF Top
    <3> QED BY <1>2, <1>4, <3>1, Zenon DEF Ended
  <2> HIDE DEF d
  <2>3. e \in 1..e /\ e > 0
    BY <1>2, <1>4
  <2>4. Busy(s, lv, n, op, e, f)
    BY <1>1, <2>3
  <2>5. FrameIs(s, lv, n, op, e, f)
    BY <2>4, Zenon DEF Busy
  <2>6. DOMAIN f = {"delim", "path", "keys", "key", "count"}
    BY <2>5, Zenon DEF FrameIs
  <2>7. /\ f.count \in Nat /\ Nil \notin f.keys /\ (Braces(f.delim) => f.key \in f.keys)
    BY <2>4, <2>5, Zenon DEF Busy, FrameIs
  <2> HIDE DEF f
  <2>8. /\ DOMAIN g = {"delim", "path", "keys", "key", "count"} /\ g = [x \in DOMAIN g |-> g[x]]
        /\ g.delim = f.delim /\ g.path = f.path /\ g.keys = f.keys
        /\ g.key = Nil /\ g.count = f.count + 1
    BY <2>6, FrameEnds
  <2> HIDE DEF g
  <2>9. /\ IsSeq(st) /\ Len(st) = e /\ st[e] = g
        /\ \A k \in 1..(e - 1) : st[k] = stack[k]
    <3>1. IsSeq(stack) /\ stack # <<>> /\ Len(stack) = e
      BY <1>1, <1>2, <1>4
    <3>2. st = Append(Below(stack), g)
      OBVIOUS
    <3> HIDE DEF st
    <3>3. IsSeq(st) /\ Len(st) = Len(stack) /\ st[Len(stack)] = g
      BY <3>1, <3>2, TopReplaced
    <3>4. \A k \in 1..Len(stack) : k # Len(stack) => st[k] = stack[k]
      BY <3>1, <3>2, TopReplaced
    <3>5. \A k \in 1..(e - 1) : k \in 1..e /\ k # e
      BY <1>2
    <3> QED BY <3>1, <3>3, <3>5, <3>4, Zenon
  <2> HIDE DEF st
  <2>10. DOMAIN st = 1..e
    BY <2>9, StackOps
  <2>11. Idle(s, lv, n, op, e, g)
    <3>1. g.count \in Nat
      BY <2>7, <2>8
    <3>2. FrameIs(s, lv, n, op, e, g)
      BY <2>5, <2>7, <2>8, <3>1, Zenon DEF FrameIs
    <3> DEFINE c == Cardinality(MembersOf(s, lv, op[e], n, e))
    <3>3. IF Braces(f.delim) THEN f.key # Nil /\ c = 2 * f.count + 2
                             ELSE f.key = Nil /\ c = f.count + 1
      BY <2>4, Zenon DEF Busy
    <3> HIDE DEF c
    <3>4. IF ~ Braces(g.delim) THEN g.key = Nil /\ c = g.count
          ELSE IF g.key = Nil THEN c = 2 * g.count
          ELSE c = 2 * g.count + 1 /\ s[n] = [text |-> g.key]
      <4>1. 2 * (f.count + 1) = 2 * f.count + 2
        BY <2>7
      <4>2. Braces(g.delim) <=> Braces(f.delim)
        BY <2>8
      <4>3. CASE Braces(f.delim)
        <5>1. g.key = Nil /\ c = 2 * g.count
          BY <2>8, <3>3, <4>1, <4>3
        <5> QED BY <4>2, <4>3, <5>1
      <4>4. CASE ~ Braces(f.delim)
        BY <2>8, <3>3, <4>2, <4>4
      <4> QED BY <4>3, <4>4
    <3> QED BY <3>2, <3>4, Zenon DEF Idle, c
  <2>12. \A k \in 1..e : IF k < e THEN Busy(s, lv, n, op, k, st[k])
                                 ELSE Idle(s, lv, n, op, k, st[k])
    <3> SUFFICES ASSUME NEW k \in 1..e
                 PROVE  IF k < e THEN Busy(s, lv, n, op, k, st[k]) ELSE Idle(s, lv, n, op, k, st[k])
      OBVIOUS
    <3>1. CASE k < e
      <4>1. k \in 1..(e - 1)
        BY <1>2, <3>1
      <4>2. st[k] = stack[k] /\ Busy(s, lv, n, op, k, stack[k])
        BY <1>1, <2>9, <4>1
      <4> QED BY <3>1, <4>2, Zenon
    <3>2. CASE ~ (k < e)
      <4>1. k = e
        BY <1>2, <3>2
      <4> QED BY <2>9, <2>11, <3>2, <4>1, Zenon
    <3> QED BY <3>1, <3>2
  <2>13. Threaded(s, lv, op, st)
    <3> SUFFICES ASSUME NEW k \in 1..e, k > 1
                 PROVE  Component(s, lv, op[k]) = Cur(st[k - 1])
      BY <2>10 DEF Threaded
    <3>1. k - 1 \in 1..(e - 1)
      BY <1>2
    <3>2. st[k - 1] = stack[k - 1]
      BY <2>9, <3>1
    <3>3. Component(s, lv, op[k]) = Cur(stack[k - 1])
      BY <1>1, <1>2 DEF Threaded
    <3> QED BY <3>2, <3>3
  <2>14. Done(f) \cup {Cur(f)} \subseteq Done(g)
    BY <2>7, <2>8, CurBecomesDone
  <2>15. Fresh(doc, st, e)
    <3> SUFFICES ASSUME NEW k \in 1..e, NEW q \in DOMAIN doc, 1..(k - 1) \subseteq DOMAIN q,
                        \A m \in 1..(k - 1) : q[m] = st[k].path[m]
                 PROVE  k \in DOMAIN q /\ (q[k] \in Done(st[k]) \/ (k < e /\ q[k] = Cur(st[k])))
      BY <2>10, Zenon DEF Fresh
    <3>1. CASE k < e
      <4>1. k \in 1..(e - 1)
        BY <1>2, <3>1
      <4>2. st[k] = stack[k]
        BY <2>9, <4>1
      <4>3. k \in DOMAIN q /\ (q[k] \in Done(stack[k]) \/ q[k] = Cur(stack[k]))
        BY <1>1, <1>2, <4>2, Zenon DEF Fresh
      <4> QED BY <3>1, <4>2, <4>3, Zenon
    <3>2. CASE ~ (k < e)
      <4>1. k = e
        BY <1>2, <3>2
      <4>2. st[k] = g /\ stack[k] = f /\ g.path = f.path
        BY <2>8, <2>9, <4>1 DEF f
      <4>3. k \in DOMAIN q /\ (q[k] \in Done(stack[k]) \/ q[k] = Cur(stack[k]))
        BY <1>1, <1>2, <4>2, Zenon DEF Fresh
      <4> QED BY <2>14, <4>2, <4>3
    <3> QED BY <3>1, <3>2
  <2>16. Counted(doc, st) /\ (n > 0 /\ e = 0 => DOMAIN doc # {})
    BY <1>1 DEF Counted
  <2>17. ReadWith(s, lv, n, op, doc, st)
    BY <1>1, <2>9, <2>12, <2>13, <2>15, <2>16, Zenon DEF ReadWith, e
  <2> QED BY <2>1, <2>3, <2>17, Zenon DEF ReadSoFar, d, e
<1> QED BY <1>3, <1>4

\* The bracket that closes a container.
ClosesIt(tok, f) == Closes(tok) /\ ((tok.delim = "}") <=> Braces(f.delim))

\* How a token is read.
LEMMA TokenIs ==
  ASSUME NEW tok, IsToken(tok)
  PROVE  /\ IsDelim(tok) <=> Opens(tok) \/ Closes(tok)
         /\ Opens(tok) => ~ Closes(tok)
         /\ IsText(tok) => ~ IsDelim(tok) /\ tok = [text |-> tok.text] /\ tok.text # Nil
<1>1. \A x : DOMAIN [delim |-> x] = {"delim"} /\ DOMAIN [text |-> x] = {"text"}
  OBVIOUS
<1>2. Opens(tok) \/ Closes(tok) => DOMAIN tok = {"delim"}
  BY <1>1, Zenon DEF Opens, Closes
<1>3. /\ "delim" \in {"delim"} /\ "delim" \notin {"text"} /\ "delim" \notin {"num"} /\ "delim" \notin {"lit"}
      /\ "text" \notin {"delim"} /\ "text" \notin {"num"} /\ "text" \notin {"lit"}
  OBVIOUS
<1>4. CASE Opens(tok) \/ Closes(tok)
  BY <1>2, <1>3, <1>4, OpensOrCloses, Zenon DEF IsDelim, IsText
<1>5. CASE ~ (Opens(tok) \/ Closes(tok)) /\ IsText(tok) /\ tok = [text |-> tok.text] /\ tok.text # Nil
  <2>1. DOMAIN tok = {"text"}
    BY <1>1, <1>5
  <2> QED BY <1>3, <1>5, <2>1, Zenon DEF IsDelim, IsText
<1>6. CASE ~ (Opens(tok) \/ Closes(tok)) /\ DOMAIN tok \in {{"num"}, {"lit"}}
  BY <1>3, <1>6, Zenon DEF IsDelim, IsText
<1> QED BY <1>4, <1>5, <1>6, Zenon DEF IsToken

\* Which branch of the descent takes a token.
LEMMA StepIs ==
  ASSUME NEW doc, NEW stack, NEW tok,
         stack # <<>> => Opens([delim |-> Top(stack).delim])
  PROVE  LET d == [status |-> "more", doc |-> doc, stack |-> stack]
             f == Top(stack)
         IN  /\ stack = <<>> => Step(d, tok) = DecodeValue(d, tok)
             /\ stack # <<>> /\ ClosesIt(tok, f) /\ (Braces(f.delim) => f.key = Nil) =>
                  Step(d, tok) = DecodeClose(d)
             /\ stack # <<>> /\ ~ ClosesIt(tok, f) /\ ~ Braces(f.delim) =>
                  Step(d, tok) = DecodeValue(d, tok)
             /\ stack # <<>> /\ Braces(f.delim) /\ f.key # Nil => Step(d, tok) = DecodeValue(d, tok)
             /\ stack # <<>> /\ ~ ClosesIt(tok, f) /\ Braces(f.delim) /\ f.key = Nil =>
                  Step(d, tok) = DecodeKey(d, tok)
<1> DEFINE d == [status |-> "more", doc |-> doc, stack |-> stack]
           f == Top(stack)
<1>1. d.status = "more" /\ d.stack = stack
  OBVIOUS
<1> HIDE DEF d
<1>2. stack = <<>> => Step(d, tok) = DecodeValue(d, tok)
  BY <1>1, Zenon DEF Step
<1>3. \A x, y : [delim |-> x] = [delim |-> y] => x = y
  <2>1. \A x : [delim |-> x].delim = x
    OBVIOUS
  <2> QED BY <2>1
<1>4. ASSUME stack # <<>>
      PROVE  /\ f.delim = "[" <=> ~ Braces(f.delim)
             /\ f.delim = "{" <=> Braces(f.delim)
  <2>1. f.delim = "{" \/ f.delim = "["
    BY <1>3, <1>4, Zenon DEF Opens
  <2>2. "[" # "{"
    OBVIOUS
  <2> QED BY <2>1, <2>2, Zenon DEF Braces
<1>5. ClosesIt(tok, f) <=> tok = [delim |-> IF Braces(f.delim) THEN "}" ELSE "]"]
  <2>1. [delim |-> "}"].delim = "}" /\ [delim |-> "]"].delim = "]" /\ "]" # "}"
    OBVIOUS
  <2> QED BY <2>1, Zenon DEF ClosesIt, Closes
<1> HIDE DEF f
<1>6. ASSUME stack # <<>>, ~ Braces(f.delim)
      PROVE  Step(d, tok) = IF ClosesIt(tok, f) THEN DecodeClose(d) ELSE DecodeValue(d, tok)
  BY <1>1, <1>4, <1>5, <1>6, Zenon DEF Step, f
<1>7. ASSUME stack # <<>>, Braces(f.delim)
      PROVE  Step(d, tok) = IF f.key # Nil THEN DecodeValue(d, tok)
                            ELSE IF ClosesIt(tok, f) THEN DecodeClose(d) ELSE DecodeKey(d, tok)
  <2>1. f.delim # "["
    BY <1>4, <1>7, Zenon
  <2> QED BY <1>1, <1>5, <1>7, <2>1, Zenon DEF Step, f
<1> QED BY <1>2, <1>6, <1>7, Zenon DEF d, f

\* What Step makes of the token after the first n, which is s[n + 1].
StepsAs(s, lv, n, doc, stack) ==
  LET d == [status |-> "more", doc |-> doc, stack |-> stack]
      tok == s[n + 1]
      f == Top(stack)
  IN  /\ ~ Fits(s, lv, n + 1) => Step(d, tok) = Refused
      /\ Fits(s, lv, n + 1) /\ Closes(tok) =>
           lv[n + 1] > 0 /\ (Braces(f.delim) => f.key = Nil) /\ Step(d, tok) = DecodeClose(d)
      /\ Fits(s, lv, n + 1) /\ ~ Closes(tok) /\ IsKey(s, lv, n + 1) =>
           /\ lv[n + 1] > 0 /\ Braces(f.delim) /\ f.key = Nil
           /\ IsText(tok) /\ tok.text \notin f.keys
           /\ Step(d, tok) = DecodeKey(d, tok)
      /\ Fits(s, lv, n + 1) /\ Opens(tok) /\ ~ IsKey(s, lv, n + 1) =>
           Step(d, tok) = [d EXCEPT !.stack = Append(@, Frame(tok.delim, ValuePath(d.stack)))]
      /\ Fits(s, lv, n + 1) /\ ~ Opens(tok) /\ ~ Closes(tok) /\ ~ IsKey(s, lv, n + 1) =>
           Step(d, tok) = Ended(WithLeaf(doc, ValuePath(stack), Value(tok)), stack)

\* The next token is refused when it does not fit, and read in its turn when it does.
LEMMA StepFits ==
  ASSUME NEW s, TokenText(s), NEW lv, lv = Levels(s), NEW n \in Nat, n < Len(s),
         \A i \in 1..n : Fits(s, lv, i),
         NEW op, NEW doc, NEW stack, ReadWith(s, lv, n, op, doc, stack), n = 0 \/ lv[n + 1] > 0
  PROVE  StepsAs(s, lv, n, doc, stack)
<1> SUFFICES LET d == [status |-> "more", doc |-> doc, stack |-> stack]
                 tok == s[n + 1]
                 f == Top(stack)
             IN  /\ ~ Fits(s, lv, n + 1) => Step(d, tok) = Refused
                 /\ Fits(s, lv, n + 1) /\ Closes(tok) =>
                      lv[n + 1] > 0 /\ (Braces(f.delim) => f.key = Nil) /\ Step(d, tok) = DecodeClose(d)
                 /\ Fits(s, lv, n + 1) /\ ~ Closes(tok) /\ IsKey(s, lv, n + 1) =>
                      /\ lv[n + 1] > 0 /\ Braces(f.delim) /\ f.key = Nil
                      /\ IsText(tok) /\ tok.text \notin f.keys
                      /\ Step(d, tok) = DecodeKey(d, tok)
                 /\ Fits(s, lv, n + 1) /\ Opens(tok) /\ ~ IsKey(s, lv, n + 1) =>
                      Step(d, tok) = [d EXCEPT !.stack = Append(@, Frame(tok.delim, ValuePath(d.stack)))]
                 /\ Fits(s, lv, n + 1) /\ ~ Opens(tok) /\ ~ Closes(tok) /\ ~ IsKey(s, lv, n + 1) =>
                      Step(d, tok) = Ended(WithLeaf(doc, ValuePath(stack), Value(tok)), stack)
  BY Zenon DEF StepsAs
<1> DEFINE e == lv[n + 1]
           d == [status |-> "more", doc |-> doc, stack |-> stack]
           tok == s[n + 1]
           f == Top(stack)
<1>1. d.status = "more" /\ d.stack = stack /\ d.doc = doc
  OBVIOUS
<1>2. IsSeq(s) /\ IsToken(tok) /\ n \in 0..Len(s) /\ \A i \in 1..(n + 1) : IsToken(s[i])
  <2>1. IsSeq(s) /\ DOMAIN s = 1..Len(s) /\ Len(s) \in Nat
    BY StackOps DEF TokenText
  <2> QED BY <2>1 DEF TokenText
<1>3. /\ Placed(s, lv, n, op) /\ IsSeq(stack) /\ Len(stack) = e
      /\ \A k \in 1..e : IF k < e THEN Busy(s, lv, n, op, k, stack[k])
                                  ELSE Idle(s, lv, n, op, k, stack[k])
  BY Zenon DEF ReadWith
<1>4. e \in Nat /\ (e = 0 <=> stack = <<>>)
  BY <1>3, StackOps DEF Placed
<1>5. ASSUME e > 0
      PROVE  /\ Idle(s, lv, n, op, e, f) /\ f.delim = s[op[e]].delim
             /\ f.keys = {s[j].text : j \in {i \in MembersOf(s, lv, op[e], n, e) : IsKey(s, lv, i)}}
             /\ Opens([delim |-> f.delim])
  <2>1. e \in 1..e /\ ~ (e < e)
    BY <1>4, <1>5
  <2>2. Idle(s, lv, n, op, e, stack[e])
    BY <1>3, <2>1, Zenon
  <2>3. f = stack[e]
    BY <1>3, Zenon DEF Top
  <2>4. Idle(s, lv, n, op, e, f)
    BY <2>2, <2>3, Zenon
  <2>5. FrameIs(s, lv, n, op, e, f)
    BY <2>4, Zenon DEF Idle
  <2>6. f.delim = s[op[e]].delim
    BY <2>5, Zenon DEF FrameIs
  <2>7. Opens(s[op[e]])
    BY <1>3, <2>1 DEF Placed
  <2>8. Opens([delim |-> f.delim])
    <3>1. \A x : [delim |-> x].delim = x
      OBVIOUS
    <3> QED BY <2>6, <2>7, <3>1, Zenon DEF Opens
  <2>9. f.keys = {s[j].text : j \in {i \in MembersOf(s, lv, op[e], n, e) : IsKey(s, lv, i)}}
    BY <2>5, Zenon DEF FrameIs
  <2> QED BY <2>4, <2>6, <2>8, <2>9
<1>6. ASSUME e > 0
      PROVE  /\ InObject(s, lv, n + 1) <=> Braces(f.delim)
             /\ Before(s, lv, n + 1) = MembersOf(s, lv, op[e], n, e)
             /\ IsKey(s, lv, n + 1) <=> Braces(f.delim) /\ f.key = Nil
  BY <1>2, <1>3, <1>5, <1>6, TurnIs
<1>7. stack # <<>> => Opens([delim |-> f.delim])
  BY <1>4, <1>5
<1>8. ~ (e > 0) => ~ InObject(s, lv, n + 1) /\ ~ IsKey(s, lv, n + 1)
  BY DEF InObject, IsKey
<1>9. (n + 1 > 1 => e > 0) /\ (n + 1 > 1 <=> n # 0) /\ (e = 0 \/ e > 0)
  BY <1>4
<1>10. lv[1] = 0 /\ (n = 0 => e = 0)
  BY <1>2, LevelsAre
<1> HIDE DEF f
<1>11. Closes(tok) => (Fits(s, lv, n + 1) <=> e > 0 /\ ClosesIt(tok, f) /\ (Braces(f.delim) => f.key = Nil))
  <2>1. Closes(tok) => (Fits(s, lv, n + 1) <=>
           /\ n # 0
           /\ (tok.delim = "}") = InObject(s, lv, n + 1)
           /\ (InObject(s, lv, n + 1) => IsKey(s, lv, n + 1)))
    BY <1>9, Zenon DEF Fits
  <2>2. ((tok.delim = "}") = InObject(s, lv, n + 1)) <=> ((tok.delim = "}") <=> InObject(s, lv, n + 1))
    BY Zenon DEF InObject
  <2> DEFINE brace == tok.delim = "}"
             a == Fits(s, lv, n + 1)
             b == Closes(tok)
             object == InObject(s, lv, n + 1)
             key == IsKey(s, lv, n + 1)
  <2>3. ClosesIt(tok, f) <=> b /\ (brace <=> Braces(f.delim))
    BY Zenon DEF ClosesIt
  <2>4. b => (a <=> n # 0 /\ (brace <=> object) /\ (object => key))
    BY <2>1, <2>2, Zenon
  <2>5. ~ (e > 0) => n = 0
    BY <1>9
  <2>6. e > 0 => n # 0 /\ (object <=> Braces(f.delim)) /\ (key <=> Braces(f.delim) /\ f.key = Nil)
    BY <1>6, <1>9, <1>10
  <2> HIDE DEF brace, a, b, object, key
  <2>7. b => (a <=> e > 0 /\ ClosesIt(tok, f) /\ (Braces(f.delim) => f.key = Nil))
    BY <2>3, <2>4, <2>5, <2>6
  <2> QED BY <2>7 DEF a, b
<1>12. ~ Closes(tok) /\ IsKey(s, lv, n + 1) =>
         (Fits(s, lv, n + 1) <=> IsText(tok) /\ tok.text \notin f.keys)
  <2> SUFFICES ASSUME ~ Closes(tok), IsKey(s, lv, n + 1)
               PROVE  Fits(s, lv, n + 1) <=> IsText(tok) /\ tok.text \notin f.keys
    OBVIOUS
  <2>1. e > 0
    BY <1>8, <1>9
  <2> DEFINE M == MembersOf(s, lv, op[e], n, e)
  <2>2. Fits(s, lv, n + 1) <=>
          IsText(tok) /\ \A j \in M : IsKey(s, lv, j) => s[j] # tok
    <3>1. Before(s, lv, n + 1) = M
      BY <1>6, <2>1
    <3> HIDE DEF M
    <3> QED BY <1>9, <2>1, <3>1, Zenon DEF Fits
  <2>3. ASSUME NEW j \in M, IsKey(s, lv, j)
        PROVE  s[j] = [text |-> s[j].text]
    <3>1. j \in 1..n /\ ~ Closes(s[j])
      <4>1. e \in DOMAIN op /\ op[e] \in 1..n
        BY <1>3, <1>4, <2>1 DEF Placed
      <4> QED BY <2>3, <4>1 DEF MembersOf
    <3>2. IsToken(s[j]) /\ Fits(s, lv, j)
      BY <1>2, <3>1
    <3>3. IsText(s[j])
      BY <2>3, <3>1, <3>2, Zenon DEF Fits
    <3> QED BY <3>2, <3>3, TokenIs
  <2>4. f.keys = {s[j].text : j \in {i \in M : IsKey(s, lv, i)}}
    BY <1>5, <2>1
  <2> HIDE DEF M
  <2>5. ASSUME IsText(tok)
        PROVE  (tok.text \notin f.keys) <=> \A j \in M : IsKey(s, lv, j) => s[j] # tok
    <3>1. tok = [text |-> tok.text]
      BY <1>2, <2>5, TokenIs
    <3>2. ASSUME NEW j \in M, IsKey(s, lv, j)
          PROVE  s[j] = tok <=> s[j].text = tok.text
      BY <2>3, <3>1, <3>2, Zenon
    <3> QED BY <2>4, <3>2
  <2> QED BY <2>2, <2>5
<1>13. ~ Closes(tok) /\ ~ IsKey(s, lv, n + 1) => (Fits(s, lv, n + 1) <=> e < MaxDepth)
  BY <1>9, Zenon DEF Fits
<1>14. MaxDepth \in Nat /\ (Len(stack) >= MaxDepth <=> ~ (e < MaxDepth))
  BY <1>3, <1>4, DepthAssumption
<1>15. /\ IsDelim(tok) <=> Opens(tok) \/ Closes(tok)
       /\ Opens(tok) => ~ Closes(tok)
       /\ IsText(tok) => ~ IsDelim(tok)
  BY <1>2, TokenIs
<1>16. (stack # <<>> <=> e > 0)
  BY <1>4
<1> HIDE DEF e, tok
<1>17. /\ stack = <<>> => Step(d, tok) = DecodeValue(d, tok)
       /\ stack # <<>> /\ ClosesIt(tok, f) /\ (Braces(f.delim) => f.key = Nil) =>
            Step(d, tok) = DecodeClose(d)
       /\ stack # <<>> /\ ~ ClosesIt(tok, f) /\ ~ Braces(f.delim) =>
            Step(d, tok) = DecodeValue(d, tok)
       /\ stack # <<>> /\ Braces(f.delim) /\ f.key # Nil => Step(d, tok) = DecodeValue(d, tok)
       /\ stack # <<>> /\ ~ ClosesIt(tok, f) /\ Braces(f.delim) /\ f.key = Nil =>
            Step(d, tok) = DecodeKey(d, tok)
  BY <1>7, StepIs, Zenon DEF f
<1> HIDE DEF d
<1>18. /\ ~ (e < MaxDepth) => DecodeValue(d, tok) = Refused
       /\ Closes(tok) => DecodeValue(d, tok) = Refused
       /\ e < MaxDepth /\ Opens(tok) => DecodeValue(d, tok)
             = [d EXCEPT !.stack = Append(@, Frame(tok.delim, ValuePath(d.stack)))]
       /\ e < MaxDepth /\ ~ Opens(tok) /\ ~ Closes(tok) =>
             DecodeValue(d, tok) = Ended(WithLeaf(doc, ValuePath(stack), Scalar(tok)), stack)
  BY <1>1, <1>14, <1>15, Zenon DEF DecodeValue
<1>19. ~ Opens(tok) /\ ~ Closes(tok) => Value(tok) = Scalar(tok)
  BY <1>15, Zenon DEF Value, Scalar
<1>20. ~ (IsText(tok) /\ tok.text \notin f.keys) => DecodeKey(d, tok) = Refused
  BY <1>1, Zenon DEF DecodeKey, f
<1>21. ClosesIt(tok, f) => Closes(tok)
  BY DEF ClosesIt
<1> DEFINE fits == Fits(s, lv, n + 1)
           key == IsKey(s, lv, n + 1)
<1>22. key <=> e > 0 /\ Braces(f.delim) /\ f.key = Nil
  BY <1>6, <1>8
<1>23. /\ Closes(tok) => (fits <=> e > 0 /\ ClosesIt(tok, f) /\ (Braces(f.delim) => f.key = Nil))
       /\ ~ Closes(tok) /\ key => (fits <=> IsText(tok) /\ tok.text \notin f.keys)
       /\ ~ Closes(tok) /\ ~ key => (fits <=> e < MaxDepth)
  BY <1>11, <1>12, <1>13
<1> HIDE DEF fits, key
<1>24. CASE Closes(tok)
  <2>1. fits => Step(d, tok) = DecodeClose(d)
    BY <1>16, <1>17, <1>23, <1>24, Zenon
  <2>2. ~ fits => Step(d, tok) = Refused
    <3>1. CASE stack = <<>>
      BY <1>17, <1>18, <1>24, <3>1
    <3>2. CASE stack # <<>> /\ Braces(f.delim) /\ f.key # Nil
      BY <1>17, <1>18, <1>24, <3>2
    <3>3. CASE stack # <<>> /\ ~ ClosesIt(tok, f) /\ ~ Braces(f.delim)
      BY <1>17, <1>18, <1>24, <3>3
    <3>4. CASE stack # <<>> /\ ~ ClosesIt(tok, f) /\ Braces(f.delim) /\ f.key = Nil
      BY <1>15, <1>17, <1>20, <1>24, <3>4
    <3> QED BY <1>16, <1>23, <1>24, <3>1, <3>2, <3>3, <3>4
  <2> QED BY <1>15, <1>23, <1>24, <2>1, <2>2, Zenon DEF fits, key, d, tok, e, f
<1>25. CASE ~ Closes(tok) /\ key
  <2>1. Step(d, tok) = DecodeKey(d, tok)
    BY <1>16, <1>17, <1>21, <1>22, <1>25, Zenon
  <2>2. /\ fits => IsText(tok) /\ tok.text \notin f.keys
        /\ ~ fits => Step(d, tok) = Refused
    BY <1>20, <1>23, <1>25, <2>1, Zenon
  <2> QED BY <1>22, <1>25, <2>1, <2>2, Zenon DEF fits, key, d, tok, e, f
<1>26. CASE ~ Closes(tok) /\ ~ key
  <2>1. Step(d, tok) = DecodeValue(d, tok)
    <3>1. stack = <<>> \/ ~ Braces(f.delim) \/ f.key # Nil
      BY <1>16, <1>22, <1>26, Zenon
    <3> QED BY <1>17, <1>21, <1>26, <3>1, Zenon
  <2>2. /\ ~ fits => Step(d, tok) = Refused
        /\ fits /\ Opens(tok) =>
             Step(d, tok) = [d EXCEPT !.stack = Append(@, Frame(tok.delim, ValuePath(d.stack)))]
        /\ fits /\ ~ Opens(tok) =>
             Step(d, tok) = Ended(WithLeaf(doc, ValuePath(stack), Value(tok)), stack)
    <3>1. /\ fits => e < MaxDepth
          /\ ~ fits => ~ (e < MaxDepth)
      BY <1>23, <1>26
    <3> QED BY <1>18, <1>19, <1>26, <2>1, <3>1, Zenon
  <2> QED BY <1>26, <2>2, Zenon DEF fits, key, d, tok, e, f
<1> QED BY <1>24, <1>25, <1>26

\* A token that begins a value: where it goes, and what it makes of its containers.
LEMMA ValueNext ==
  ASSUME NEW s, TokenText(s), NEW lv, lv = Levels(s), NEW n \in Nat, n < Len(s),
         NEW op, NEW doc, NEW stack, ReadWith(s, lv, n, op, doc, stack), n = 0 \/ lv[n + 1] > 0,
         ~ Closes(s[n + 1]), ~ IsKey(s, lv, n + 1)
  PROVE  LET e == lv[n + 1]
             p == ValuePath(stack)
         IN  /\ p = PathOf(s, lv, n + 1)
             /\ p = NextPath(s, lv, op, e, Component(s, lv, n + 1))
             /\ \A k \in 1..e : k \in DOMAIN p /\ p[k] = Cur(stack[k])
             /\ \A q \in DOMAIN doc : ~ (1..e \subseteq DOMAIN q /\ \A m \in 1..e : q[m] = p[m])
             /\ \A k \in 1..e : Busy(s, lv, n + 1, op, k, stack[k])
<1> DEFINE e == lv[n + 1]
           p == ValuePath(stack)
           f == stack[e]
           F == NextPath(s, lv, op, e, Component(s, lv, n + 1))
<1>1. /\ Placed(s, lv, n, op) /\ IsSeq(stack) /\ Len(stack) = e
      /\ \A k \in 1..e : IF k < e THEN Busy(s, lv, n, op, k, stack[k])
                                  ELSE Idle(s, lv, n, op, k, stack[k])
      /\ Threaded(s, lv, op, stack)
      /\ DocSays(s, lv, LeavesTo(s, lv, n), doc)
      /\ Fresh(doc, stack, e)
  BY Zenon DEF ReadWith
<1>2. /\ IsSeq(s) /\ n \in 0..Len(s) /\ e \in Nat /\ DOMAIN stack = 1..e /\ (e = 0 <=> stack = <<>>)
      /\ \A k \in 1..e : op[k] \in 1..n
  <2>1. IsSeq(s) /\ Len(s) \in Nat
    BY StackOps DEF TokenText
  <2>2. DOMAIN stack = 1..Len(stack) /\ (Len(stack) = 0 <=> stack = <<>>)
    BY <1>1, StackOps
  <2>3. Placed(s, lv, n, op) /\ Len(stack) = e
    BY <1>1
  <2>4. e \in Nat /\ \A k \in 1..e : op[k] \in 1..n
    BY <2>3 DEF Placed
  <2>5. n \in 0..Len(s)
    BY <2>1
  <2> HIDE DEF e
  <2> QED BY <2>1, <2>2, <2>3, <2>4, <2>5, Zenon
<1>3. PathOf(s, lv, n + 1) = F
  <2>1. Placed(s, lv, n, op) /\ IsSeq(s) /\ n \in 0..Len(s)
    BY <1>1, <1>2
  <2> QED BY <2>1, PathIs
<1>4. CASE e = 0
  <2>1. p = <<>>
    BY <1>2, <1>4, Zenon DEF ValuePath
  <2>2. F = <<>>
    BY <1>4 DEF NextPath
  <2>3. n = 0
    BY <1>4
  <2>4. LeavesTo(s, lv, n) = {}
    BY <2>3 DEF LeavesTo
  <2>5. DOMAIN doc = {}
    BY <1>1, <2>4 DEF DocSays
  <2>6. 1..e = {}
    BY <1>4
  <2> QED BY <1>3, <2>1, <2>2, <2>5, <2>6, Zenon
<1>5. CASE e # 0
  <2>1. e > 0 /\ e \in 1..e /\ ~ (e < e) /\ e \in Nat \ {0}
    BY <1>2, <1>5
  <2>2. Idle(s, lv, n, op, e, f)
    BY <1>1, <2>1, Zenon
  <2>3. Component(s, lv, n + 1) = Cur(f)
    BY <1>1, <1>2, <2>1, <2>2, TurnIs
  <2>4. f.path = OpenPath(s, lv, op, e) /\ f.count \in Nat
    BY <2>2, Zenon DEF Idle, FrameIs
  <2>5. p = NextPath(s, lv, op, e, Cur(f))
    BY <1>1, <2>1, <2>4, ValuePathIs
  <2>6. p = F
    BY <2>3, <2>5
  <2>7. Busy(s, lv, n + 1, op, e, f)
    BY <1>1, <1>2, <2>1, <2>2, ValueBegins
  <2>8. ASSUME NEW k \in 1..e
        PROVE  Busy(s, lv, n + 1, op, k, stack[k])
    <3>1. CASE k < e
      <4>1. Busy(s, lv, n, op, k, stack[k]) /\ lv[n + 1] # k /\ op[k] \in 1..n
        BY <1>1, <1>2, <3>1
      <4> DEFINE g == stack[k]
      <4>2. Busy(s, lv, n, op, k, g)
        BY <4>1
      <4> HIDE DEF g
      <4>3. Busy(s, lv, n + 1, op, k, g)
        BY <4>1, <4>2, BusyStep
      <4> QED BY <4>3 DEF g
    <3>2. CASE ~ (k < e)
      <4>1. k = e
        BY <1>2, <3>2
      <4> QED BY <2>7, <4>1
    <3> QED BY <3>1, <3>2
  <2> HIDE DEF F
  <2>9. ASSUME NEW k \in 1..e
        PROVE  k \in DOMAIN p /\ p[k] = Cur(stack[k])
    <3>1. k \in DOMAIN p /\ p[k] = IF k < e THEN Component(s, lv, op[k + 1]) ELSE Cur(f)
      BY <2>5 DEF NextPath
    <3>2. CASE k < e
      <4>1. k + 1 \in 1..e /\ (k + 1) - 1 = k /\ k + 1 > 1
        BY <1>2, <3>2
      <4>2. Component(s, lv, op[k + 1]) = Cur(stack[k])
        BY <1>1, <1>2, <4>1 DEF Threaded
      <4> QED BY <3>1, <3>2, <4>2
    <3>3. CASE ~ (k < e)
      <4>1. k = e
        BY <1>2, <3>3
      <4> QED BY <3>1, <3>3, <4>1
    <3> QED BY <3>2, <3>3
  <2>10. ASSUME NEW q \in DOMAIN doc, 1..e \subseteq DOMAIN q, \A m \in 1..e : q[m] = p[m]
         PROVE  FALSE
    <3>1. /\ 1..(e - 1) \subseteq DOMAIN q /\ \A m \in 1..(e - 1) : q[m] = f.path[m]
      <4>1. \A m \in 1..(e - 1) : m \in 1..e /\ m < e
        BY <2>1
      <4>2. \A m \in 1..(e - 1) : p[m] = Component(s, lv, op[m + 1])
        BY <2>5, <4>1 DEF NextPath
      <4>3. \A m \in 1..(e - 1) : f.path[m] = Component(s, lv, op[m + 1])
        BY <2>4 DEF OpenPath
      <4> QED BY <2>10, <4>1, <4>2, <4>3
    <3>2. q[e] \in Done(f)
      <4>1. e \in DOMAIN stack
        BY <1>2, <2>1
      <4> QED BY <1>1, <2>1, <3>1, <4>1, Zenon DEF Fresh
    <3>3. q[e] = Cur(f)
      BY <2>1, <2>9, <2>10
    <3>4. Cur(f) \notin Done(f)
      BY <2>4, CurIsNotDone
    <3> QED BY <3>2, <3>3, <3>4
  <2> HIDE DEF p
  <2> QED BY <1>3, <2>6, <2>8, <2>9, <2>10 DEF F, p
<1> QED BY <1>4, <1>5

\* A scalar is a value by itself.
LEMMA ScalarStep ==
  ASSUME NEW s, TokenText(s), NEW lv, lv = Levels(s), NEW n \in Nat, n < Len(s),
         NEW op, NEW doc, NEW stack, ReadWith(s, lv, n, op, doc, stack), n = 0 \/ lv[n + 1] > 0,
         ~ Opens(s[n + 1]), ~ Closes(s[n + 1]), ~ IsKey(s, lv, n + 1)
  PROVE  ReadSoFar(s, lv, n + 1, Ended(WithLeaf(doc, ValuePath(stack), Value(s[n + 1])), stack))
<1> DEFINE e == lv[n + 1]
           p == ValuePath(stack)
           d == WithLeaf(doc, p, Value(s[n + 1]))
<1>1. /\ Placed(s, lv, n, op) /\ IsSeq(stack) /\ Len(stack) = e
      /\ Threaded(s, lv, op, stack)
      /\ DocSays(s, lv, LeavesTo(s, lv, n), doc)
      /\ Fresh(doc, stack, e)
  BY Zenon DEF ReadWith
<1>2. IsSeq(s) /\ e \in Nat /\ DOMAIN stack = 1..e
  <2>1. DOMAIN stack = 1..Len(stack)
    BY <1>1, StackOps
  <2> QED BY <1>1, <2>1 DEF Placed, TokenText
<1>3. /\ p = PathOf(s, lv, n + 1)
      /\ \A k \in 1..e : k \in DOMAIN p /\ p[k] = Cur(stack[k])
      /\ \A q \in DOMAIN doc : ~ (1..e \subseteq DOMAIN q /\ \A m \in 1..e : q[m] = p[m])
      /\ \A k \in 1..e : Busy(s, lv, n + 1, op, k, stack[k])
  BY ValueNext
<1>4. lv[(n + 1) + 1] = e /\ Placed(s, lv, n + 1, op)
  <2>1. (n + 1) + 1 = n + 2
    OBVIOUS
  <2> QED BY <1>1, <1>2, <2>1, PlacedStep
<1>5. p \notin DOMAIN doc
  BY <1>3
<1>6. LeavesTo(s, lv, n + 1) = LeavesTo(s, lv, n) \cup {n + 1} /\ n + 1 \notin LeavesTo(s, lv, n)
  BY LeavesStep
<1> HIDE DEF p
<1>7. DocSays(s, lv, LeavesTo(s, lv, n + 1), d)
  <2> DEFINE L == LeavesTo(s, lv, n)
             i == n + 1
  <2>1. DocSays(s, lv, L, doc) /\ i \notin L /\ LeavesTo(s, lv, n + 1) = L \cup {i}
    BY <1>1, <1>6
  <2>2. p = PathOf(s, lv, i) /\ PathOf(s, lv, i) \notin DOMAIN doc
    BY <1>3, <1>5
  <2> HIDE DEF L, i
  <2>3. DocSays(s, lv, L \cup {i}, WithLeaf(doc, PathOf(s, lv, i), Value(s[i])))
    BY <2>1, <2>2, DocGrows
  <2>4. d = WithLeaf(doc, PathOf(s, lv, i), Value(s[i]))
    BY <2>2 DEF i
  <2> HIDE DEF d
  <2> QED BY <2>1, <2>3, <2>4
<1>8. Fresh(d, stack, e + 1)
  <2>1. Fresh(doc, stack, e + 1)
    BY <1>1, <1>2, FreshWider
  <2>2. \A k \in DOMAIN stack : k \in DOMAIN p /\ k < e + 1 /\ p[k] = Cur(stack[k])
    BY <1>2, <1>3
  <2> QED BY <2>1, <2>2, FreshLeaf
<1>9. DOMAIN d # {}
  BY DEF WithLeaf
<1> HIDE DEF d
<1>10. ValueEnds(s, lv, n + 1, op, d, stack)
  BY <1>1, <1>3, <1>4, <1>7, <1>8, <1>9, Zenon DEF ValueEnds
<1>11. ReadSoFar(s, lv, n + 1, Ended(d, stack))
  <2>1. n + 1 \in Nat \ {0}
    OBVIOUS
  <2> QED BY <1>10, <2>1, EndedIs
<1> QED BY <1>11 DEF d, p

\* A frame only depends on the containers around its own.
LEMMA SameOpenings ==
  ASSUME NEW s, NEW lv, NEW n, NEW op, NEW to, NEW k \in Nat \ {0}, \A m \in 1..k : to[m] = op[m],
         NEW f, Busy(s, lv, n, op, k, f)
  PROVE  Busy(s, lv, n, to, k, f)
<1>1. OpenPath(s, lv, to, k) = OpenPath(s, lv, op, k)
  <2>1. \A m \in 1..(k - 1) : m + 1 \in 1..k
    OBVIOUS
  <2> QED BY <2>1 DEF OpenPath
<1>2. to[k] = op[k]
  OBVIOUS
<1> QED BY <1>1, <1>2, Zenon DEF Busy, FrameIs

\* A bracket opens one more container.
LEMMA OpenStep ==
  ASSUME NEW s, TokenText(s), NEW lv, lv = Levels(s), NEW n \in Nat, n < Len(s),
         NEW op, NEW doc, NEW stack, ReadWith(s, lv, n, op, doc, stack), n = 0 \/ lv[n + 1] > 0,
         Opens(s[n + 1]), ~ IsKey(s, lv, n + 1)
  PROVE  ReadSoFar(s, lv, n + 1,
                   [status |-> "more", doc |-> doc,
                    stack |-> Append(stack, Frame(s[n + 1].delim, ValuePath(stack)))])
<1> DEFINE e == lv[n + 1]
           p == ValuePath(stack)
           g == Frame(s[n + 1].delim, p)
           st == Append(stack, g)
           to == Pushed(op, e, n + 1)
<1>1. /\ Placed(s, lv, n, op) /\ IsSeq(stack) /\ Len(stack) = e
      /\ Threaded(s, lv, op, stack)
      /\ DocSays(s, lv, LeavesTo(s, lv, n), doc)
      /\ Fresh(doc, stack, e)
      /\ Counted(doc, stack)
  BY Zenon DEF ReadWith
<1>2. IsSeq(s) /\ e \in Nat /\ DOMAIN stack = 1..e /\ ~ Closes(s[n + 1])
  <2>1. DOMAIN stack = 1..Len(stack)
    BY <1>1, StackOps
  <2> QED BY <1>1, <2>1, OpensOrCloses DEF Placed, TokenText
<1>3. /\ p = NextPath(s, lv, op, e, Component(s, lv, n + 1))
      /\ \A k \in 1..e : k \in DOMAIN p /\ p[k] = Cur(stack[k])
      /\ \A q \in DOMAIN doc : ~ (1..e \subseteq DOMAIN q /\ \A m \in 1..e : q[m] = p[m])
      /\ \A k \in 1..e : Busy(s, lv, n + 1, op, k, stack[k])
  BY <1>2, ValueNext, SMTT(30)
<1>4. lv[(n + 1) + 1] = e + 1 /\ Placed(s, lv, n + 1, to)
  <2>1. (n + 1) + 1 = n + 2
    OBVIOUS
  <2> QED BY <1>1, <1>2, <2>1, PlacedStep
<1>5. LeavesTo(s, lv, n + 1) = LeavesTo(s, lv, n)
  BY <1>2, LeavesStep
<1>6. /\ DOMAIN g = {"delim", "path", "keys", "key", "count"} /\ g = [x \in DOMAIN g |-> g[x]]
      /\ g.delim = s[n + 1].delim /\ g.path = p /\ g.keys = {} /\ g.key = Nil /\ g.count = 0
  BY DEF Frame
<1> HIDE DEF g, p
<1>7. /\ IsSeq(st) /\ Len(st) = e + 1 /\ st[e + 1] = g /\ DOMAIN st = 1..(e + 1)
      /\ \A k \in 1..e : st[k] = stack[k]
  <2>1. /\ IsSeq(st) /\ Len(st) = e + 1 /\ st[e + 1] = g
        /\ \A k \in 1..e : st[k] = stack[k]
    BY <1>1, StackOps
  <2> HIDE DEF st
  <2>2. DOMAIN st = 1..(e + 1)
    BY <2>1, StackOps
  <2> QED BY <2>1, <2>2
<1> HIDE DEF st
<1>8. \A k \in 1..e : to[k] = op[k]
  BY <1>2 DEF Pushed
<1>9. to[e + 1] = n + 1 /\ e + 1 \in Nat \ {0}
  BY <1>2 DEF Pushed
<1>10. OpenPath(s, lv, to, e + 1) = p
  <2>1. (e + 1) - 1 = e
    BY <1>2
  <2>2. \A m \in 1..e : Component(s, lv, to[m + 1])
          = IF m < e THEN Component(s, lv, op[m + 1]) ELSE Component(s, lv, n + 1)
    <3> SUFFICES ASSUME NEW m \in 1..e
                 PROVE  Component(s, lv, to[m + 1])
                          = IF m < e THEN Component(s, lv, op[m + 1]) ELSE Component(s, lv, n + 1)
      OBVIOUS
    <3>1. m + 1 \in 1..(e + 1) /\ (m < e => m + 1 \in 1..e) /\ (~ (m < e) => m + 1 = e + 1)
      BY <1>2
    <3> HIDE DEF to
    <3> QED BY <1>8, <1>9, <3>1
  <2> HIDE DEF to, e
  <2>3. OpenPath(s, lv, to, e + 1) = NextPath(s, lv, op, e, Component(s, lv, n + 1))
    BY <2>1, <2>2 DEF OpenPath, NextPath
  <2> QED BY <1>3, <2>3
<1> HIDE DEF to
<1>11. Idle(s, lv, n + 1, to, e + 1, g)
  <2>1. MembersOf(s, lv, n + 1, n + 1, e + 1) = {}
    BY DEF MembersOf
  <2>2. Cardinality({}) = 0
    BY FS_EmptySet
  <2>3. FrameIs(s, lv, n + 1, to, e + 1, g)
    <3>1. {s[j].text : j \in {i \in {} : IsKey(s, lv, i)}} = {} /\ 0 \in Nat
      OBVIOUS
    <3> QED BY <1>6, <1>9, <1>10, <2>1, <3>1, Zenon DEF FrameIs
  <2>4. 2 * 0 = 0
    OBVIOUS
  <2> QED BY <1>6, <1>9, <2>1, <2>2, <2>3, <2>4, Zenon DEF Idle
<1>12. \A k \in 1..(e + 1) : IF k < e + 1 THEN Busy(s, lv, n + 1, to, k, st[k])
                                         ELSE Idle(s, lv, n + 1, to, k, st[k])
  <2> SUFFICES ASSUME NEW k \in 1..(e + 1)
               PROVE  IF k < e + 1 THEN Busy(s, lv, n + 1, to, k, st[k])
                                   ELSE Idle(s, lv, n + 1, to, k, st[k])
    OBVIOUS
  <2>1. CASE k < e + 1
    <3>1. k \in 1..e /\ k \in Nat \ {0} /\ \A m \in 1..k : m \in 1..e
      BY <1>2, <2>1
    <3>2. Busy(s, lv, n + 1, op, k, stack[k]) /\ \A m \in 1..k : to[m] = op[m]
      BY <1>3, <1>8, <3>1
    <3> DEFINE f == stack[k]
    <3>3. Busy(s, lv, n + 1, op, k, f) /\ st[k] = f
      BY <1>7, <3>1, <3>2
    <3> HIDE DEF f
    <3>4. Busy(s, lv, n + 1, to, k, f)
      BY <3>1, <3>2, <3>3, SameOpenings
    <3> QED BY <2>1, <3>3, <3>4
  <2>2. CASE ~ (k < e + 1)
    <3>1. k = e + 1
      BY <1>2, <2>2
    <3> QED BY <1>7, <1>11, <2>2, <3>1, Zenon
  <2> QED BY <2>1, <2>2
<1>13. Threaded(s, lv, to, st)
  <2> SUFFICES ASSUME NEW k \in 1..(e + 1), k > 1
               PROVE  Component(s, lv, to[k]) = Cur(st[k - 1])
    BY <1>7 DEF Threaded
  <2>1. k - 1 \in 1..e /\ (k \in 1..e \/ k = e + 1) /\ (k = e + 1 => k - 1 = e)
    BY <1>2
  <2>2. CASE k \in 1..e
    <3>1. Component(s, lv, op[k]) = Cur(stack[k - 1])
      BY <1>1, <1>2, <2>2 DEF Threaded
    <3> QED BY <1>7, <1>8, <2>1, <2>2, <3>1
  <2>3. CASE k = e + 1
    <3>1. p[e] = Cur(stack[e]) /\ e \in 1..e /\ ~ (e < e)
      BY <1>2, <1>3, <2>1, <2>3
    <3>2. p[e] = Component(s, lv, n + 1)
      BY <1>3, <3>1 DEF NextPath
    <3> QED BY <1>7, <1>9, <2>1, <2>3, <3>1, <3>2
  <2> QED BY <2>1, <2>2, <2>3
<1>14. Fresh(doc, st, e + 1)
  <2> SUFFICES ASSUME NEW k \in 1..(e + 1), NEW q \in DOMAIN doc, 1..(k - 1) \subseteq DOMAIN q,
                      \A m \in 1..(k - 1) : q[m] = st[k].path[m]
               PROVE  k \in DOMAIN q /\ (q[k] \in Done(st[k]) \/ (k < e + 1 /\ q[k] = Cur(st[k])))
    BY <1>7, Zenon DEF Fresh
  <2>1. CASE k \in 1..e
    <3>1. Fresh(doc, stack, e + 1)
      BY <1>1, <1>2, FreshWider
    <3>2. st[k] = stack[k]
      BY <1>7, <2>1
    <3> QED BY <1>2, <2>1, <3>1, <3>2, Zenon DEF Fresh
  <2>2. CASE k = e + 1
    <3>1. k - 1 = e /\ st[k].path = p
      BY <1>2, <1>6, <1>7, <2>2
    <3> QED BY <1>3, <3>1
  <2>3. k \in 1..e \/ k = e + 1
    BY <1>2
  <2> QED BY <2>1, <2>2, <2>3
<1>15. Counted(doc, st)
  <2> SUFFICES ASSUME NEW k \in 1..(e + 1), st[k].count > 0
               PROVE  DOMAIN doc # {}
    BY <1>7 DEF Counted
  <2>1. k \in 1..e
    <3>1. k # e + 1
      BY <1>6, <1>7
    <3> QED BY <1>2, <3>1
  <2> QED BY <1>1, <1>2, <1>7, <2>1 DEF Counted
<1> DEFINE l == lv[(n + 1) + 1]
<1>16. l = e + 1 /\ l # 0 /\ l > 0
  BY <1>2, <1>4
<1>17. ReadWith(s, lv, n + 1, to, doc, st)
  <2> HIDE DEF e
  <2>1. /\ Placed(s, lv, n + 1, to)
        /\ IsSeq(st) /\ Len(st) = l
        /\ \A k \in 1..l : IF k < l THEN Busy(s, lv, n + 1, to, k, st[k])
                                    ELSE Idle(s, lv, n + 1, to, k, st[k])
        /\ Threaded(s, lv, to, st)
        /\ DocSays(s, lv, LeavesTo(s, lv, n + 1), doc)
        /\ Fresh(doc, st, l)
        /\ Counted(doc, st)
        /\ l # 0
    BY <1>1, <1>4, <1>5, <1>7, <1>12, <1>13, <1>14, <1>15, <1>16, Zenon
  <2> QED BY <2>1, Zenon DEF ReadWith
<1>18. ReadSoFar(s, lv, n + 1, [status |-> "more", doc |-> doc, stack |-> st])
  BY <1>16, <1>17, Zenon DEF ReadSoFar
<1> QED BY <1>18, Zenon DEF st, g, p

\* Another stack.
LEMMA StackSet ==
  ASSUME NEW doc, NEW stack, NEW st
  PROVE  [[status |-> "more", doc |-> doc, stack |-> stack] EXCEPT !.stack = st]
           = [status |-> "more", doc |-> doc, stack |-> st]
  OBVIOUS

\* A token that is a key.
LEMMA KeyMember ==
  ASSUME NEW s, NEW lv, NEW n \in Nat, NEW op, op[lv[n + 1]] \in 1..n,
         NEW f, Idle(s, lv, n, op, lv[n + 1], f), Braces(f.delim), f.key = Nil,
         ~ Closes(s[n + 1]), IsKey(s, lv, n + 1)
  PROVE  LET N == MembersOf(s, lv, op[lv[n + 1]], n + 1, lv[n + 1])
         IN  /\ f.keys \cup {s[n + 1].text} = {s[j].text : j \in {i \in N : IsKey(s, lv, i)}}
             /\ Cardinality(N) = 2 * f.count + 1
<1> DEFINE e == lv[n + 1]
           M == MembersOf(s, lv, op[e], n, e)
           N == MembersOf(s, lv, op[e], n + 1, e)
<1>1. op[e] \in 1..n
  OBVIOUS
<1>2. /\ FrameIs(s, lv, n, op, e, f)
      /\ Cardinality(M) = 2 * f.count
  BY Zenon DEF Idle
<1>3. f.keys = {s[j].text : j \in {i \in M : IsKey(s, lv, i)}} /\ f.count \in Nat
  BY <1>2, Zenon DEF FrameIs
<1>4. N = M \cup {n + 1} /\ Cardinality(N) = Cardinality(M) + 1
  BY <1>1, MembersStep
<1> HIDE DEF M, N
<1>5. f.keys \cup {s[n + 1].text} = {s[j].text : j \in {i \in N : IsKey(s, lv, i)}}
  <2>1. {i \in N : IsKey(s, lv, i)} = {i \in M : IsKey(s, lv, i)} \cup {n + 1}
    BY <1>4
  <2> DEFINE A == {i \in M : IsKey(s, lv, i)}
  <2>2. f.keys = {s[j].text : j \in A}
    BY <1>3
  <2> HIDE DEF A
  <2>3. {s[j].text : j \in A \cup {n + 1}} = {s[j].text : j \in A} \cup {s[n + 1].text}
    OBVIOUS
  <2> QED BY <2>1, <2>2, <2>3, Zenon DEF A
<1>6. Cardinality(N) = 2 * f.count + 1
  BY <1>2, <1>3, <1>4
<1> QED BY <1>5, <1>6, Zenon DEF N

\* A frame that has taken the key is the one the object had, with the key.
LEMMA KeyBegins ==
  ASSUME NEW s, NEW lv, NEW n \in Nat, NEW op, NEW k, op[k] \in 1..n, k = lv[n + 1],
         NEW f, Idle(s, lv, n, op, k, f), Braces(f.delim), f.key = Nil,
         ~ Closes(s[n + 1]), IsKey(s, lv, n + 1),
         NEW x, s[n + 1] = [text |-> x], s[n + 1].text = x, x # Nil, x \notin f.keys,
         NEW g, DOMAIN g = {"delim", "path", "keys", "key", "count"}, g = [y \in DOMAIN g |-> g[y]],
         g.delim = f.delim, g.path = f.path, g.count = f.count,
         g.key = x, g.keys = f.keys \cup {x}
  PROVE  Idle(s, lv, n + 1, op, k, g)
<1> DEFINE o == op[k]
           N == MembersOf(s, lv, o, n + 1, k)
<1>1. FrameIs(s, lv, n, op, k, f)
  BY Zenon DEF Idle
<1>2. /\ f.count \in Nat /\ Nil \notin f.keys
      /\ f.delim = s[o].delim /\ f.path = OpenPath(s, lv, op, k)
  BY <1>1, Zenon DEF FrameIs
<1>3. /\ f.keys \cup {s[n + 1].text} = {s[j].text : j \in {i \in N : IsKey(s, lv, i)}}
      /\ Cardinality(N) = 2 * f.count + 1
  BY KeyMember
<1> HIDE DEF N, o
<1>4. /\ g.keys = {s[j].text : j \in {i \in N : IsKey(s, lv, i)}}
      /\ Cardinality(N) = 2 * g.count + 1 /\ g.count \in Nat
  BY <1>2, <1>3, Zenon
<1>5. g.key # Nil /\ g.key \in g.keys /\ Nil \notin g.keys
  BY <1>2
<1>6. g.delim = s[o].delim /\ g.path = OpenPath(s, lv, op, k) /\ Braces(g.delim)
  BY <1>2, Zenon
<1>7. FrameIs(s, lv, n + 1, op, k, g)
  BY <1>4, <1>5, <1>6, Zenon DEF FrameIs, N, o
<1>8. s[n + 1] = [text |-> g.key]
  BY Zenon
<1> QED BY <1>4, <1>5, <1>6, <1>7, <1>8, Zenon DEF Idle, N, o

\* A key: its value comes next.
LEMMA KeyStep ==
  ASSUME NEW s, TokenText(s), NEW lv, lv = Levels(s), NEW n \in Nat, n < Len(s),
         NEW op, NEW doc, NEW stack, ReadWith(s, lv, n, op, doc, stack), lv[n + 1] > 0,
         ~ Closes(s[n + 1]), IsKey(s, lv, n + 1), IsText(s[n + 1]),
         s[n + 1].text \notin Top(stack).keys, Braces(Top(stack).delim), Top(stack).key = Nil
  PROVE  ReadSoFar(s, lv, n + 1,
                   DecodeKey([status |-> "more", doc |-> doc, stack |-> stack], s[n + 1]))
<1> DEFINE e == lv[n + 1]
           f == Top(stack)
           x == s[n + 1].text
           g == [f EXCEPT !.key = x, !.keys = f.keys \cup {x}]
           st == Append(Below(stack), g)
           d == [status |-> "more", doc |-> doc, stack |-> stack]
<1>1. /\ Placed(s, lv, n, op) /\ IsSeq(stack) /\ Len(stack) = e
      /\ Threaded(s, lv, op, stack)
      /\ DocSays(s, lv, LeavesTo(s, lv, n), doc)
      /\ Fresh(doc, stack, e)
      /\ Counted(doc, stack)
  BY Zenon DEF ReadWith
<1>2. IsSeq(s) /\ e \in Nat /\ DOMAIN stack = 1..e /\ e \in 1..e
  <2>1. DOMAIN stack = 1..Len(stack)
    BY <1>1, StackOps
  <2>2. IsSeq(s)
    BY DEF TokenText
  <2>3. e \in Nat
    BY <1>1 DEF Placed
  <2> QED BY <1>1, <2>1, <2>2, <2>3
<1>3. \A k \in 1..e : IF k < e THEN Busy(s, lv, n, op, k, stack[k])
                               ELSE Idle(s, lv, n, op, k, stack[k])
  BY Zenon DEF ReadWith
<1>4. stack[e] = f /\ Idle(s, lv, n, op, e, f)
  <2>1. stack[e] = f
    BY <1>1, Zenon DEF Top
  <2>2. e \in 1..e /\ ~ (e < e)
    BY <1>2
  <2>3. Idle(s, lv, n, op, e, stack[e])
    BY <1>3, <2>2, Zenon
  <2> QED BY <2>1, <2>3, Zenon
<1>5. /\ FrameIs(s, lv, n, op, e, f)
      /\ Cardinality(MembersOf(s, lv, op[e], n, e)) = 2 * f.count
  BY <1>4, Zenon DEF Idle
<1>6. /\ DOMAIN f = {"delim", "path", "keys", "key", "count"}
      /\ f.count \in Nat /\ Nil \notin f.keys
      /\ f.keys = {s[j].text : j \in {i \in MembersOf(s, lv, op[e], n, e) : IsKey(s, lv, i)}}
  BY <1>5, Zenon DEF FrameIs
<1>7. s[n + 1] = [text |-> x] /\ x # Nil /\ ~ Opens(s[n + 1])
  <2>1. IsToken(s[n + 1])
    <3>1. DOMAIN s = 1..Len(s) /\ Len(s) \in Nat
      BY <1>2, StackOps
    <3> QED BY <3>1 DEF TokenText
  <2> QED BY <2>1, TokenIs
<1>8. lv[(n + 1) + 1] = e /\ Placed(s, lv, n + 1, op)
  <2>1. (n + 1) + 1 = n + 2
    OBVIOUS
  <2> QED BY <1>1, <1>2, <1>7, <2>1, PlacedStep
<1>9. LeavesTo(s, lv, n + 1) = LeavesTo(s, lv, n)
  BY LeavesStep
<1> HIDE DEF f, x
<1>10. /\ DOMAIN g = {"delim", "path", "keys", "key", "count"} /\ g = [y \in DOMAIN g |-> g[y]]
       /\ g.delim = f.delim /\ g.path = f.path /\ g.count = f.count
       /\ g.key = x /\ g.keys = f.keys \cup {x}
  <2>1. DOMAIN g = DOMAIN f /\ g = [y \in DOMAIN g |-> g[y]]
    OBVIOUS
  <2>2. g.delim = f.delim /\ g.path = f.path /\ g.count = f.count
    BY <1>6
  <2>3. g.key = x /\ g.keys = f.keys \cup {x}
    BY <1>6
  <2> QED BY <1>6, <2>1, <2>2, <2>3
<1>11. DecodeKey(d, s[n + 1]) = [status |-> "more", doc |-> doc, stack |-> st]
  <2>1. d.stack = stack
    OBVIOUS
  <2>2. IsText(s[n + 1]) /\ s[n + 1].text \notin Top(d.stack).keys
    BY <2>1
  <2> HIDE DEF d
  <2>3. DecodeKey(d, s[n + 1]) = [d EXCEPT !.stack = st]
    BY <2>1, <2>2, Zenon DEF DecodeKey, f, x
  <2> HIDE DEF st, g
  <2>4. [d EXCEPT !.stack = st] = [status |-> "more", doc |-> doc, stack |-> st]
    BY StackSet DEF d
  <2> QED BY <2>3, <2>4
<1> HIDE DEF d, g
<1>12. /\ IsSeq(st) /\ Len(st) = e /\ st[e] = g /\ DOMAIN st = 1..e
       /\ \A k \in 1..e : k # e => st[k] = stack[k]
  <2>1. Len(stack) = 0 <=> stack = <<>>
    BY <1>1, StackOps
  <2>2. IsSeq(stack) /\ Len(stack) = e /\ stack # <<>>
    BY <1>1, <1>2, <2>1
  <2>3. st = Append(Below(stack), g)
    OBVIOUS
  <2> HIDE DEF st, e
  <2>4. IsSeq(st) /\ Len(st) = Len(stack) /\ st[Len(stack)] = g
    BY <2>2, <2>3, TopReplaced
  <2>5. DOMAIN st = 1..Len(stack)
    BY <2>2, <2>3, TopReplaced
  <2>6. \A k \in 1..Len(stack) : k # Len(stack) => st[k] = stack[k]
    BY <2>2, <2>3, TopReplaced
  <2> QED BY <2>2, <2>4, <2>5, <2>6
<1> HIDE DEF st
<1>13. Idle(s, lv, n + 1, op, e, g)
  <2>1. op[e] \in 1..n /\ lv[n + 1] = e
    BY <1>1, <1>2 DEF Placed, e
  <2>2. Braces(f.delim) /\ f.key = Nil /\ x \notin f.keys /\ s[n + 1].text = x
    BY DEF f, x
  <2> HIDE DEF e
  <2> QED BY <1>4, <1>7, <1>10, <2>1, <2>2, KeyBegins, ZenonT(90)
<1>14. \A k \in 1..e : IF k < e THEN Busy(s, lv, n + 1, op, k, st[k])
                                ELSE Idle(s, lv, n + 1, op, k, st[k])
  <2> SUFFICES ASSUME NEW k \in 1..e
               PROVE  IF k < e THEN Busy(s, lv, n + 1, op, k, st[k])
                               ELSE Idle(s, lv, n + 1, op, k, st[k])
    OBVIOUS
  <2>1. CASE k < e
    <3>1. k # e /\ lv[n + 1] # k
      BY <1>2, <2>1
    <3>2. Busy(s, lv, n, op, k, stack[k])
      BY <1>3, <2>1
    <3>3. op[k] \in 1..n
      BY <1>1 DEF Placed
    <3> DEFINE h == stack[k]
    <3>4. Busy(s, lv, n, op, k, h) /\ st[k] = h
      BY <1>12, <3>1, <3>2
    <3> HIDE DEF h
    <3>5. Busy(s, lv, n + 1, op, k, h)
      BY <3>1, <3>3, <3>4, BusyStep
    <3> QED BY <2>1, <3>4, <3>5
  <2>2. CASE ~ (k < e)
    <3>1. k = e
      BY <1>2, <2>2
    <3> QED BY <1>12, <1>13, <2>2, <3>1, Zenon
  <2> QED BY <2>1, <2>2
<1>15. Threaded(s, lv, op, st)
  <2> SUFFICES ASSUME NEW k \in 1..e, k > 1
               PROVE  Component(s, lv, op[k]) = Cur(st[k - 1])
    BY <1>12 DEF Threaded
  <2>1. k - 1 \in 1..e /\ k - 1 # e
    BY <1>2
  <2>2. Component(s, lv, op[k]) = Cur(stack[k - 1])
    BY <1>1, <1>2 DEF Threaded
  <2> QED BY <1>12, <2>1, <2>2
<1>16. Done(f) = Done(g)
  <2>1. f.keys \ {f.key} = g.keys \ {g.key}
    <3>1. f.key = Nil /\ x \notin f.keys
      BY DEF f, x
    <3> QED BY <1>6, <1>10, <3>1
  <2> QED BY <1>10, <2>1, Zenon DEF Done
<1>17. Fresh(doc, st, e)
  <2> SUFFICES ASSUME NEW k \in 1..e, NEW q \in DOMAIN doc, 1..(k - 1) \subseteq DOMAIN q,
                      \A m \in 1..(k - 1) : q[m] = st[k].path[m]
               PROVE  k \in DOMAIN q /\ (q[k] \in Done(st[k]) \/ (k < e /\ q[k] = Cur(st[k])))
    BY <1>12, Zenon DEF Fresh
  <2>1. st[k].path = stack[k].path
    BY <1>4, <1>10, <1>12
  <2>2. k \in DOMAIN q /\ (q[k] \in Done(stack[k]) \/ (k < e /\ q[k] = Cur(stack[k])))
    BY <1>1, <1>2, <2>1, Zenon DEF Fresh
  <2>3. CASE k = e
    <3>1. ~ (e < e)
      BY <1>2
    <3> QED BY <1>4, <1>12, <1>16, <2>2, <2>3, <3>1, Zenon
  <2>4. CASE k # e
    BY <1>12, <2>2, <2>4, Zenon
  <2> QED BY <2>3, <2>4
<1>18. Counted(doc, st)
  <2> SUFFICES ASSUME NEW k \in 1..e, st[k].count > 0
               PROVE  DOMAIN doc # {}
    BY <1>12 DEF Counted
  <2>1. st[k].count = stack[k].count
    BY <1>4, <1>10, <1>12
  <2> QED BY <1>1, <1>2, <2>1 DEF Counted
<1> DEFINE l == lv[(n + 1) + 1]
<1>19. l = e /\ l # 0 /\ l > 0
  BY <1>2, <1>8
<1>20. ReadWith(s, lv, n + 1, op, doc, st)
  <2> HIDE DEF e
  <2>1. /\ Placed(s, lv, n + 1, op)
        /\ IsSeq(st) /\ Len(st) = l
        /\ \A k \in 1..l : IF k < l THEN Busy(s, lv, n + 1, op, k, st[k])
                                    ELSE Idle(s, lv, n + 1, op, k, st[k])
        /\ Threaded(s, lv, op, st)
        /\ DocSays(s, lv, LeavesTo(s, lv, n + 1), doc)
        /\ Fresh(doc, st, l)
        /\ Counted(doc, st)
        /\ l # 0
    BY <1>1, <1>8, <1>9, <1>12, <1>14, <1>15, <1>17, <1>18, <1>19, Zenon
  <2> QED BY <2>1, Zenon DEF ReadWith
<1>21. ReadSoFar(s, lv, n + 1, [status |-> "more", doc |-> doc, stack |-> st])
  BY <1>19, <1>20, Zenon DEF ReadSoFar
<1> QED BY <1>11, <1>21, Zenon DEF d

\* The innermost container has members unless its bracket was the last token.
LEMMA ContainerIsEmpty ==
  ASSUME NEW s, IsSeq(s), NEW lv, lv = Levels(s), NEW n \in Nat, n < Len(s), Closes(s[n + 1]),
         NEW op, Placed(s, lv, n, op), lv[n + 1] > 0
  PROVE  LET e == lv[n + 1]
             M == MembersOf(s, lv, op[e], n, e)
         IN  /\ op[e] \in 1..n
             /\ op[e] = n <=> Cardinality(M) = 0
             /\ op[e] = n <=> Opens(s[n])
<1> DEFINE e == lv[n + 1]
           o == op[e]
           M == MembersOf(s, lv, o, n, e)
<1>1. e \in DOMAIN op /\ op \in [1..e -> 1..n] /\ e \in Nat
  BY DEF Placed
<1>2. o \in 1..n /\ Opens(s[o]) /\ lv[o] = e - 1 /\ \A j \in (o + 1)..(n + 1) : lv[j] >= e
  BY <1>1 DEF Placed
<1>3. \A i \in 1..Len(s) : lv[i + 1] = IF Opens(s[i]) THEN lv[i] + 1
                                      ELSE IF Closes(s[i]) THEN lv[i] - 1 ELSE lv[i]
  BY LevelsAre
<1>4. \A i \in 1..(Len(s) + 1) : lv[i] \in Int
  BY LevelsAre
<1>5. Len(s) \in Nat
  BY StackOps
<1> HIDE DEF o
<1>6. o = n => M = {} /\ Opens(s[n])
  <2>1. (n + 1)..n = {}
    OBVIOUS
  <2> QED BY <1>2, <2>1 DEF MembersOf
<1>7. ASSUME o # n
      PROVE  M # {} /\ ~ Opens(s[n])
  <2>1. o + 1 \in (o + 1)..n /\ o \in 1..Len(s) /\ o + 1 \in 1..Len(s) /\ n \in (o + 1)..(n + 1)
    BY <1>2, <1>5, <1>7
  <2>2. lv[o + 1] = e
    BY <1>1, <1>2, <1>3, <2>1
  <2>3. ~ Closes(s[o + 1])
    <3> SUFFICES ASSUME Closes(s[o + 1]) PROVE FALSE
      OBVIOUS
    <3>1. lv[(o + 1) + 1] = e - 1
      <4>1. ~ Opens(s[o + 1])
        BY OpensOrCloses
      <4> QED BY <1>3, <2>1, <2>2, <4>1
    <3>2. (o + 1) + 1 \in (o + 1)..(n + 1)
      BY <1>2, <2>1
    <3>3. lv[(o + 1) + 1] >= e
      BY <1>2, <3>2
    <3> QED BY <1>1, <3>1, <3>3
  <2>4. o + 1 \in M
    BY <2>1, <2>2, <2>3 DEF MembersOf
  <2>5. ~ Opens(s[n])
    <3> SUFFICES ASSUME Opens(s[n]) PROVE FALSE
      OBVIOUS
    <3>1. n \in 1..Len(s) /\ n \in 1..(Len(s) + 1)
      BY <1>2, <1>5
    <3>2. lv[n] >= e /\ lv[n + 1] = lv[n] + 1 /\ lv[n] \in Int
      BY <1>2, <1>3, <1>4, <2>1, <3>1
    <3> QED BY <3>2
  <2> QED BY <2>4, <2>5
<1>8. IsFiniteSet(M)
  <2>1. M \in SUBSET ((o + 1)..n) /\ o + 1 \in Int /\ n \in Int
    BY <1>2 DEF MembersOf
  <2> HIDE DEF M
  <2> QED BY <2>1, PartOfRange
<1>9. Cardinality(M) = 0 <=> M = {}
  BY <1>8, FS_EmptySet
<1> HIDE DEF M
<1>10. (o = n <=> Cardinality(M) = 0) /\ (o = n <=> Opens(s[n]))
  BY <1>6, <1>7, <1>9
<1> QED BY <1>2, <1>10 DEF o, M

\* A closing bracket ends the value its container is.
LEMMA CloseStep ==
  ASSUME NEW s, TokenText(s), NEW lv, lv = Levels(s), NEW n \in Nat, n < Len(s),
         \A i \in 1..n : Fits(s, lv, i),
         NEW op, NEW doc, NEW stack, ReadWith(s, lv, n, op, doc, stack), lv[n + 1] > 0,
         Closes(s[n + 1]), Braces(Top(stack).delim) => Top(stack).key = Nil
  PROVE  ReadSoFar(s, lv, n + 1, DecodeClose([status |-> "more", doc |-> doc, stack |-> stack]))
<1> DEFINE e == lv[n + 1]
           f == Top(stack)
           to == Popped(op, e)
           st == Below(stack)
           L == LeavesTo(s, lv, n)
           d == IF f.count = 0 THEN WithLeaf(doc, f.path, [empty |-> f.delim]) ELSE doc
<1>1. Placed(s, lv, n, op) /\ IsSeq(stack) /\ Len(stack) = e
  BY Zenon DEF ReadWith
<1>2. Threaded(s, lv, op, stack)
  BY Zenon DEF ReadWith
<1>3. DocSays(s, lv, L, doc) /\ Fresh(doc, stack, e) /\ Counted(doc, stack)
  BY Zenon DEF ReadWith
<1>4. /\ IsSeq(s) /\ e \in Nat \ {0} /\ DOMAIN stack = 1..e /\ e \in 1..e /\ ~ (e < e)
      /\ stack # <<>>
  <2>1. DOMAIN stack = 1..Len(stack) /\ (Len(stack) = 0 <=> stack = <<>>)
    BY <1>1, StackOps
  <2>2. IsSeq(s)
    BY DEF TokenText
  <2>3. e \in Nat
    BY <1>1 DEF Placed
  <2> QED BY <1>1, <2>1, <2>2, <2>3
<1>5. \A k \in 1..e : IF k < e THEN Busy(s, lv, n, op, k, stack[k])
                               ELSE Idle(s, lv, n, op, k, stack[k])
  BY Zenon DEF ReadWith
<1>6. stack[e] = f /\ Idle(s, lv, n, op, e, f)
  <2>1. stack[e] = f
    BY <1>1, Zenon DEF Top
  <2>2. Idle(s, lv, n, op, e, stack[e])
    BY <1>4, <1>5, Zenon
  <2> QED BY <2>1, <2>2, Zenon
<1>7. DecodeClose([status |-> "more", doc |-> doc, stack |-> stack]) = Ended(d, st)
  <2> DEFINE w == [status |-> "more", doc |-> doc, stack |-> stack]
  <2>1. w.doc = doc /\ w.stack = stack
    OBVIOUS
  <2> HIDE DEF w
  <2>2. DecodeClose(w) = Ended(d, st)
    BY <2>1, Zenon DEF DecodeClose
  <2> QED BY <2>2 DEF w
<1>8. /\ f.delim = s[op[e]].delim /\ f.path = OpenPath(s, lv, op, e) /\ f.count \in Nat
  BY <1>6, Zenon DEF Idle, FrameIs
<1>9. Cardinality(MembersOf(s, lv, op[e], n, e)) = IF Braces(f.delim) THEN 2 * f.count ELSE f.count
  BY <1>6, Zenon DEF Idle
<1>10. op[e] \in 1..n /\ (op[e] = n <=> f.count = 0) /\ (op[e] = n <=> Opens(s[n]))
  <2> DEFINE M == MembersOf(s, lv, op[e], n, e)
  <2>a. Placed(s, lv, n, op) /\ IsSeq(s)
    BY <1>1, <1>4
  <2>1. op[e] \in 1..n
    BY <2>a, ContainerIsEmpty
  <2>2. op[e] = n <=> Cardinality(M) = 0
    BY <2>a, ContainerIsEmpty
  <2>4. op[e] = n <=> Opens(s[n])
    BY <2>a, ContainerIsEmpty
  <2>3. Cardinality(M) = 0 <=> f.count = 0
    BY <1>8, <1>9
  <2> HIDE DEF M
  <2> QED BY <2>1, <2>2, <2>3, <2>4
<1> HIDE DEF f
<1>11. lv[(n + 1) + 1] = e - 1 /\ Placed(s, lv, n + 1, to)
  <2>1. (n + 1) + 1 = n + 2
    OBVIOUS
  <2> QED BY <1>1, <1>4, <2>1, PlacedStep
<1>12. \A k \in 1..(e - 1) : to[k] = op[k]
  BY DEF Popped
<1>13. IsSeq(st) /\ Len(st) = e - 1
  BY <1>1, <1>4, StackOps, SMTT(30)
<1>14. \A k \in 1..(e - 1) : st[k] = stack[k]
  <2>1. IsSeq(stack) /\ stack # <<>>
    BY <1>1, <1>4
  <2>2. \A k \in 1..(Len(stack) - 1) : st[k] = stack[k]
    BY <2>1, StackOps
  <2> HIDE DEF st, e
  <2> QED BY <1>1, <2>2
<1> HIDE DEF to, st
<1>15. DOMAIN st = 1..(e - 1)
  BY <1>13, StackOps
<1>16. \A k \in 1..(e - 1) : k \in 1..e /\ k < e /\ k + 1 \in 1..e /\ k + 1 > 1 /\ (k + 1) - 1 = k
  BY <1>4
<1>17. \A k \in 1..(e - 1) : Busy(s, lv, n + 1, to, k, st[k])
  <2> SUFFICES ASSUME NEW k \in 1..(e - 1)
               PROVE  Busy(s, lv, n + 1, to, k, st[k])
    OBVIOUS
  <2>1. op[k] \in 1..n
    BY <1>1, <1>16 DEF Placed
  <2>2. Busy(s, lv, n, op, k, stack[k])
    BY <1>5, <1>16
  <2> DEFINE g == stack[k]
  <2>3. Busy(s, lv, n, op, k, g) /\ st[k] = g
    BY <1>14, <2>2
  <2> HIDE DEF g
  <2>4. Busy(s, lv, n + 1, op, k, g)
    BY <2>1, <2>3, BusyStep
  <2>5. k \in Nat \ {0} /\ \A m \in 1..k : m \in 1..(e - 1)
    BY <1>4
  <2>6. \A m \in 1..k : to[m] = op[m]
    BY <1>12, <2>5
  <2>7. Busy(s, lv, n + 1, to, k, g)
    BY <2>4, <2>5, <2>6, SameOpenings
  <2> QED BY <2>3, <2>7
<1>18. Threaded(s, lv, to, st)
  <2> SUFFICES ASSUME NEW k \in 1..(e - 1), k > 1
               PROVE  Component(s, lv, to[k]) = Cur(st[k - 1])
    BY <1>15 DEF Threaded
  <2>1. k - 1 \in 1..(e - 1)
    BY <1>4
  <2>2. Component(s, lv, op[k]) = Cur(stack[k - 1])
    BY <1>2, <1>4, <1>16 DEF Threaded
  <2> QED BY <1>12, <1>14, <2>1, <2>2
<1>19. Fresh(doc, st, e)
  <2> SUFFICES ASSUME NEW k \in 1..(e - 1), NEW q \in DOMAIN doc, 1..(k - 1) \subseteq DOMAIN q,
                      \A m \in 1..(k - 1) : q[m] = st[k].path[m]
               PROVE  k \in DOMAIN q /\ (q[k] \in Done(st[k]) \/ (k < e /\ q[k] = Cur(st[k])))
    BY <1>15, Zenon DEF Fresh
  <2>1. st[k] = stack[k] /\ k \in 1..e
    BY <1>14, <1>16
  <2>2. \A m \in 1..(k - 1) : q[m] = stack[k].path[m]
    BY <2>1
  <2>3. k \in DOMAIN stack /\ Fresh(doc, stack, e)
    BY <1>3, <1>4, <2>1
  <2>4. k \in DOMAIN q /\ (q[k] \in Done(stack[k]) \/ (k < e /\ q[k] = Cur(stack[k])))
    BY <2>2, <2>3, Zenon DEF Fresh
  <2> QED BY <2>1, <2>4, Zenon
<1>20. \A k \in 1..(e - 1) : k \in DOMAIN f.path /\ f.path[k] = Cur(st[k])
  <2> SUFFICES ASSUME NEW k \in 1..(e - 1)
               PROVE  k \in DOMAIN f.path /\ f.path[k] = Cur(st[k])
    OBVIOUS
  <2>1. k \in DOMAIN f.path /\ f.path[k] = Component(s, lv, op[k + 1])
    BY <1>8 DEF OpenPath
  <2>2. Component(s, lv, op[k + 1]) = Cur(stack[k])
    BY <1>2, <1>4, <1>16 DEF Threaded
  <2> QED BY <1>14, <2>1, <2>2
<1>21. DocSays(s, lv, LeavesTo(s, lv, n + 1), d) /\ Fresh(d, st, e) /\ DOMAIN d # {}
  <2>1. CASE op[e] = n
    <3>1. d = WithLeaf(doc, f.path, [empty |-> f.delim])
      BY <1>10, <2>1
    <3>2. n \in 1..n /\ Opens(s[n]) /\ n > 0
      BY <1>10, <2>1
    <3>3. ~ IsKey(s, lv, n)
      <4>1. Fits(s, lv, n) /\ IsToken(s[n])
        <5>1. DOMAIN s = 1..Len(s) /\ Len(s) \in Nat
          BY <1>4, StackOps
        <5> QED BY <3>2, <5>1 DEF TokenText
      <4>2. ~ Closes(s[n]) /\ ~ IsText(s[n])
        BY <3>2, <4>1, TokenIs
      <4> QED BY <4>1, <4>2, Zenon DEF Fits
    <3>4. n \notin L /\ LeavesTo(s, lv, n + 1) = L \cup {n}
      BY <3>2, <3>3, LeavesStep
    <3>5. PathOf(s, lv, n) = f.path
      <4>1. n \in 0..Len(s) /\ e \in DOMAIN op
        <5>1. Len(s) \in Nat
          BY <1>4, StackOps
        <5> QED BY <1>1, <1>4, <5>1 DEF Placed
      <4>2. PathOf(s, lv, op[e]) = OpenPath(s, lv, op, e)
        BY <1>1, <1>4, <4>1, PathIs
      <4> QED BY <1>8, <2>1, <4>2
    <3>6. Value(s[n]) = [empty |-> f.delim]
      <4>1. IsDelim(s[n])
        <5>1. IsToken(s[n])
          BY <3>2 DEF IsToken
        <5> QED BY <3>2, <5>1, TokenIs
      <4> QED BY <1>8, <2>1, <4>1, Zenon DEF Value
    <3>7. f.path \notin DOMAIN doc
      <4> SUFFICES ASSUME f.path \in DOMAIN doc PROVE FALSE
        OBVIOUS
      <4>1. DOMAIN f.path = 1..(e - 1)
        BY <1>8 DEF OpenPath
      <4>2. 1..(e - 1) \subseteq DOMAIN f.path /\ \A m \in 1..(e - 1) : f.path[m] = stack[e].path[m]
        BY <1>6, <4>1
      <4>3. e \in DOMAIN f.path
        BY <1>3, <1>4, <4>2, Zenon DEF Fresh
      <4> QED BY <1>4, <4>1, <4>3
    <3> DEFINE p == f.path
               x == [empty |-> f.delim]
    <3>8. p = PathOf(s, lv, n) /\ x = Value(s[n]) /\ p \notin DOMAIN doc /\ d = WithLeaf(doc, p, x)
      BY <3>1, <3>5, <3>6, <3>7
    <3>9. \A k \in 1..(e - 1) : k \in DOMAIN p /\ p[k] = Cur(st[k])
      BY <1>20
    <3> HIDE DEF p, x, d
    <3>10. DocSays(s, lv, L \cup {n}, WithLeaf(doc, PathOf(s, lv, n), Value(s[n])))
      <4>1. DocSays(s, lv, L, doc) /\ n \notin L /\ PathOf(s, lv, n) \notin DOMAIN doc
        BY <1>3, <3>4, <3>8
      <4> HIDE DEF L
      <4> QED BY <4>1, DocGrows
    <3>11. DocSays(s, lv, LeavesTo(s, lv, n + 1), d)
      BY <3>4, <3>8, <3>10
    <3>12. Fresh(WithLeaf(doc, p, x), st, e)
      <4>1. \A k \in DOMAIN st : k \in DOMAIN p /\ k < e /\ p[k] = Cur(st[k])
        BY <1>15, <1>16, <3>9
      <4> HIDE DEF e
      <4> QED BY <1>19, <4>1, FreshLeaf
    <3>13. DOMAIN WithLeaf(doc, p, x) # {}
      BY DEF WithLeaf
    <3> QED BY <3>8, <3>11, <3>12, <3>13
  <2>2. CASE op[e] # n
    <3>1. d = doc /\ f.count # 0
      BY <1>10, <2>2
    <3>2. LeavesTo(s, lv, n + 1) = L
      BY <1>10, <2>2, LeavesStep
    <3>3. DOMAIN doc # {}
      <4>1. stack[e].count > 0
        BY <1>6, <1>8, <3>1
      <4> QED BY <1>3, <1>4, <4>1 DEF Counted
    <3> HIDE DEF d, L
    <3> QED BY <1>3, <1>19, <3>1, <3>2, <3>3
  <2> QED BY <2>1, <2>2
<1> DEFINE l == lv[(n + 1) + 1]
<1>22. l = e - 1 /\ l + 1 = e
  BY <1>4, <1>11
<1> HIDE DEF d, e, l
<1>23. ValueEnds(s, lv, n + 1, to, d, st)
  <2>1. /\ Placed(s, lv, n + 1, to)
        /\ IsSeq(st) /\ Len(st) = l
        /\ \A k \in 1..l : Busy(s, lv, n + 1, to, k, st[k])
        /\ Threaded(s, lv, to, st)
        /\ DocSays(s, lv, LeavesTo(s, lv, n + 1), d)
        /\ Fresh(d, st, l + 1)
        /\ DOMAIN d # {}
    BY <1>11, <1>13, <1>17, <1>18, <1>21, <1>22, Zenon
  <2> QED BY <2>1, Zenon DEF ValueEnds, l
<1>24. ReadSoFar(s, lv, n + 1, Ended(d, st))
  <2>1. n + 1 \in Nat \ {0}
    OBVIOUS
  <2> QED BY <1>23, <2>1, EndedIs
<1> QED BY <1>7, <1>24, Zenon

\* One token of the descent.
LEMMA StepReads ==
  ASSUME NEW s, TokenText(s), NEW n \in Nat, n < Len(s), NEW d, Reads(s, n, d)
  PROVE  Reads(s, n + 1, Step(d, s[n + 1]))
<1> DEFINE lv == Levels(s)
           tok == s[n + 1]
           fits == Fits(s, lv, n + 1)
           r == Step(d, tok)
<1>1. (\A i \in 1..(n + 1) : Fits(s, lv, i)) <=> (\A i \in 1..n : Fits(s, lv, i)) /\ fits
  <2>1. \A i : i \in 1..(n + 1) <=> (i \in 1..n \/ i = n + 1)
    OBVIOUS
  <2> QED BY <2>1
<1>2. \A w : w.status # "more" => Step(w, tok) = Refused
  BY Zenon DEF Step
<1>3. "err" # "more" /\ "value" # "more"
  OBVIOUS
<1>4. Refused.status = "err"
  BY DEF Refused
<1>5. CASE ~ \A i \in 1..n : Fits(s, lv, i)
  <2>1. d = Refused
    BY <1>5, Zenon DEF Reads
  <2>2. r = Refused
    BY <1>2, <1>3, <1>4, <2>1, Zenon
  <2> QED BY <1>1, <1>5, <2>2, Zenon DEF Reads
<1>6. CASE \A i \in 1..n : Fits(s, lv, i)
  <2>1. ReadSoFar(s, lv, n, d)
    BY <1>6, Zenon DEF Reads
  <2>2. PICK op, doc, stack :
          /\ ReadWith(s, lv, n, op, doc, stack)
          /\ d = [status |-> IF n = 0 \/ lv[n + 1] > 0 THEN "more" ELSE "value",
                  doc |-> doc, stack |-> stack]
    BY <2>1, Zenon DEF ReadSoFar
  <2>3. CASE ~ (n = 0 \/ lv[n + 1] > 0)
    <3>1. d.status = "value"
      BY <2>2, <2>3
    <3>2. r = Refused
      BY <1>2, <1>3, <3>1, Zenon
    <3>3. ~ fits
      <4>1. n + 1 > 1
        BY <2>3
      <4> QED BY <2>3, <4>1, Zenon DEF Fits
    <3> QED BY <1>1, <3>2, <3>3, Zenon DEF Reads
  <2>4. CASE n = 0 \/ lv[n + 1] > 0
    <3> DEFINE w == [status |-> "more", doc |-> doc, stack |-> stack]
               f == Top(stack)
    <3>1. d = w
      BY <2>2, <2>4, Zenon
    <3>2. /\ ~ fits => Step(w, tok) = Refused
          /\ fits /\ Closes(tok) =>
               lv[n + 1] > 0 /\ (Braces(f.delim) => f.key = Nil) /\ Step(w, tok) = DecodeClose(w)
          /\ fits /\ ~ Closes(tok) /\ IsKey(s, lv, n + 1) =>
               /\ lv[n + 1] > 0 /\ Braces(f.delim) /\ f.key = Nil
               /\ IsText(tok) /\ tok.text \notin f.keys
               /\ Step(w, tok) = DecodeKey(w, tok)
          /\ fits /\ Opens(tok) /\ ~ IsKey(s, lv, n + 1) =>
               Step(w, tok) = [w EXCEPT !.stack = Append(@, Frame(tok.delim, ValuePath(w.stack)))]
          /\ fits /\ ~ Opens(tok) /\ ~ Closes(tok) /\ ~ IsKey(s, lv, n + 1) =>
               Step(w, tok) = Ended(WithLeaf(doc, ValuePath(stack), Value(tok)), stack)
      <4>0. StepsAs(s, lv, n, doc, stack)
        BY <1>6, <2>2, <2>4, StepFits, Zenon
      <4>1. ~ fits => Step(w, tok) = Refused
        BY <4>0, Zenon DEF StepsAs
      <4>2. fits /\ Closes(tok) =>
               lv[n + 1] > 0 /\ (Braces(f.delim) => f.key = Nil) /\ Step(w, tok) = DecodeClose(w)
        BY <4>0, Zenon DEF StepsAs
      <4>3. fits /\ ~ Closes(tok) /\ IsKey(s, lv, n + 1) =>
               /\ lv[n + 1] > 0 /\ Braces(f.delim) /\ f.key = Nil
               /\ IsText(tok) /\ tok.text \notin f.keys
               /\ Step(w, tok) = DecodeKey(w, tok)
        BY <4>0, Zenon DEF StepsAs
      <4>4. fits /\ Opens(tok) /\ ~ IsKey(s, lv, n + 1) =>
               Step(w, tok) = [w EXCEPT !.stack = Append(@, Frame(tok.delim, ValuePath(w.stack)))]
        BY <4>0, Zenon DEF StepsAs
      <4>5. fits /\ ~ Opens(tok) /\ ~ Closes(tok) /\ ~ IsKey(s, lv, n + 1) =>
               Step(w, tok) = Ended(WithLeaf(doc, ValuePath(stack), Value(tok)), stack)
        BY <4>0, Zenon DEF StepsAs
      <4> QED BY <4>1, <4>2, <4>3, <4>4, <4>5, Zenon
    <3>3. CASE ~ fits
      BY <1>1, <3>1, <3>2, <3>3, Zenon DEF Reads
    <3>4. CASE fits /\ Closes(tok)
      <4>1. lv[n + 1] > 0 /\ (Braces(f.delim) => f.key = Nil) /\ r = DecodeClose(w)
        BY <3>1, <3>2, <3>4, Zenon
      <4>2. ReadSoFar(s, lv, n + 1, DecodeClose(w))
        BY <1>6, <2>2, <3>4, <4>1, CloseStep, Zenon
      <4> QED BY <1>1, <1>6, <3>4, <4>1, <4>2, Zenon DEF Reads
    <3>5. CASE fits /\ ~ Closes(tok) /\ IsKey(s, lv, n + 1)
      <4>1. /\ lv[n + 1] > 0 /\ Braces(f.delim) /\ f.key = Nil
            /\ IsText(tok) /\ tok.text \notin f.keys
            /\ r = DecodeKey(w, tok)
        BY <3>1, <3>2, <3>5, Zenon
      <4>2. ReadSoFar(s, lv, n + 1, DecodeKey(w, tok))
        BY <2>2, <3>5, <4>1, KeyStep, Zenon
      <4> QED BY <1>1, <1>6, <3>5, <4>1, <4>2, Zenon DEF Reads
    <3>6. CASE fits /\ Opens(tok) /\ ~ IsKey(s, lv, n + 1)
      <4> DEFINE st == Append(stack, Frame(tok.delim, ValuePath(stack)))
      <4>1. r = [status |-> "more", doc |-> doc, stack |-> st]
        <5>1. w.stack = stack
          OBVIOUS
        <5> HIDE DEF w
        <5>2. Step(w, tok) = [w EXCEPT !.stack = st]
          BY <3>2, <3>6, <5>1, Zenon
        <5> HIDE DEF st
        <5>3. [w EXCEPT !.stack = st] = [status |-> "more", doc |-> doc, stack |-> st]
          BY StackSet, Zenon DEF w
        <5> QED BY <3>1, <5>2, <5>3, Zenon
      <4>2. ReadSoFar(s, lv, n + 1, [status |-> "more", doc |-> doc, stack |-> st])
        BY <2>2, <2>4, <3>6, OpenStep, Zenon
      <4> QED BY <1>1, <1>6, <3>6, <4>1, <4>2, Zenon DEF Reads
    <3>7. CASE fits /\ ~ Opens(tok) /\ ~ Closes(tok) /\ ~ IsKey(s, lv, n + 1)
      <4>1. r = Ended(WithLeaf(doc, ValuePath(stack), Value(tok)), stack)
        BY <3>1, <3>2, <3>7, Zenon
      <4>2. ReadSoFar(s, lv, n + 1, Ended(WithLeaf(doc, ValuePath(stack), Value(tok)), stack))
        BY <2>2, <2>4, <3>7, ScalarStep, Zenon
      <4> QED BY <1>1, <1>6, <3>7, <4>1, <4>2, Zenon DEF Reads
    <3> QED BY <3>3, <3>4, <3>5, <3>6, <3>7, OpensOrCloses
  <2> QED BY <2>3, <2>4
<1> QED BY <1>5, <1>6

\* Nothing has been read.
LEMMA StartReads ==
  ASSUME NEW s, TokenText(s)
  PROVE  Reads(s, 0, StartDecoding)
<1> DEFINE lv == Levels(s)
           no == [i \in {} |-> i]
<1>1. lv[1] = 0
  BY LevelsAre, Zenon DEF TokenText
<1>2. lv[0 + 1] = 0 /\ 1..0 = {}
  BY <1>1
<1> HIDE DEF lv
<1>3. DOMAIN <<>> = {} /\ Len(<<>>) = 0 /\ <<>> = no
  OBVIOUS
<1>4. IsSeq(<<>>)
  <2>1. <<>> \in Seq({})
    OBVIOUS
  <2> QED BY <2>1, Zenon DEF IsSeq
<1>5. Placed(s, lv, 0, <<>>)
  <2>1. lv[0 + 1] \in Nat
    BY <1>2
  <2>2. <<>> \in [1..lv[0 + 1] -> 1..0]
    BY <1>2, <1>3
  <2> QED BY <1>3, <2>1, <2>2, Zenon DEF Placed
<1>6. DocSays(s, lv, LeavesTo(s, lv, 0), <<>>)
  <2>1. LeavesTo(s, lv, 0) = {}
    BY <1>2, Zenon DEF LeavesTo
  <2> DEFINE at == [i \in LeavesTo(s, lv, 0) |-> PathOf(s, lv, i)]
  <2>2. DOMAIN at = {}
    BY <2>1
  <2>3. <<>> = [p \in DOMAIN <<>> |-> <<>>[p]]
    OBVIOUS
  <2>4. DOMAIN <<>> = {at[i] : i \in DOMAIN at}
    BY <1>3, <2>2, Zenon
  <2> QED BY <2>2, <2>3, <2>4, Zenon DEF DocSays
<1>7. Threaded(s, lv, <<>>, <<>>) /\ Fresh(<<>>, <<>>, lv[0 + 1]) /\ Counted(<<>>, <<>>)
  BY <1>3, Zenon DEF Threaded, Fresh, Counted
<1>8. ReadWith(s, lv, 0, <<>>, <<>>, <<>>)
  <2>1. \A k \in 1..lv[0 + 1] : FALSE
    BY <1>2, Zenon
  <2>2. ~ (0 > 0)
    OBVIOUS
  <2> QED BY <1>2, <1>3, <1>4, <1>5, <1>6, <1>7, <2>1, <2>2, Zenon DEF ReadWith
<1>9. ReadSoFar(s, lv, 0, StartDecoding)
  <2>1. StartDecoding = [status |-> IF 0 = 0 \/ lv[0 + 1] > 0 THEN "more" ELSE "value",
                         doc |-> <<>>, stack |-> <<>>]
    BY DEF StartDecoding
  <2> QED BY <1>8, <2>1, Zenon DEF ReadSoFar
<1>10. \A i \in 1..0 : Fits(s, lv, i)
  BY <1>2, Zenon
<1> QED BY <1>9, <1>10, Zenon DEF Reads, lv

\* The descent, by induction on the tokens read.
LEMMA DescentReads ==
  ASSUME NEW s, TokenText(s)
  PROVE  Reads(s, Len(s), Descent(s))
<1>1. IsSeq(s) /\ Len(s) \in Nat
  BY StackOps DEF TokenText
<1>2. PICK run : /\ Descent(s) = run[Len(s)]
                 /\ \A i \in 0..Len(s) :
                      run[i] = IF i = 0 THEN StartDecoding ELSE Step(run[i - 1], s[i])
  BY <1>1, DescentRuns
<1> DEFINE T == {n \in Nat : n \in 0..Len(s) => Reads(s, n, run[n])}
<1>3. 0 \in T
  BY <1>1, <1>2, StartReads
<1>4. ASSUME NEW n \in Nat, n \in T
      PROVE  n + 1 \in T
  <2>1. SUFFICES ASSUME n + 1 \in 0..Len(s)
                 PROVE  Reads(s, n + 1, run[n + 1])
    OBVIOUS
  <2>2. n \in 0..Len(s) /\ n < Len(s) /\ n + 1 # 0 /\ (n + 1) - 1 = n
    BY <1>1, <2>1
  <2>3. Reads(s, n, run[n])
    BY <1>4, <2>2
  <2>4. run[n + 1] = Step(run[n], s[n + 1])
    BY <1>2, <2>1, <2>2
  <2>5. Reads(s, n + 1, Step(run[n], s[n + 1]))
    BY <2>2, <2>3, StepReads, Zenon
  <2> QED BY <2>4, <2>5, Zenon
<1>5. Len(s) \in T
  <2> HIDE DEF T
  <2> QED BY <1>1, <1>3, <1>4, Induction
<1> QED BY <1>1, <1>2, <1>5

\* One more token is one more step.
LEMMA DescentSteps ==
  ASSUME NEW s, IsSeq(s), NEW tok
  PROVE  Descent(Append(s, tok)) = Step(Descent(s), tok)
<1> DEFINE t == Append(s, tok)
<1>1. /\ Len(s) \in Nat /\ IsSeq(t) /\ Len(t) = Len(s) + 1 /\ t[Len(s) + 1] = tok
      /\ \A k \in 1..Len(s) : t[k] = s[k]
  BY StackOps
<1>2. PICK run : /\ Descent(s) = run[Len(s)]
                 /\ \A i \in 0..Len(s) :
                      run[i] = IF i = 0 THEN StartDecoding ELSE Step(run[i - 1], s[i])
  BY DescentRuns
<1> HIDE DEF t
<1>3. PICK all : /\ Descent(t) = all[Len(t)]
                 /\ \A i \in 0..Len(t) :
                      all[i] = IF i = 0 THEN StartDecoding ELSE Step(all[i - 1], t[i])
  BY <1>1, DescentRuns
<1> DEFINE T == {n \in Nat : n \in 0..Len(s) => all[n] = run[n]}
<1>4. 0 \in T
  BY <1>1, <1>2, <1>3
<1>5. ASSUME NEW n \in Nat, n \in T
      PROVE  n + 1 \in T
  <2>1. SUFFICES ASSUME n + 1 \in 0..Len(s)
                 PROVE  all[n + 1] = run[n + 1]
    OBVIOUS
  <2>2. /\ n \in 0..Len(s) /\ n + 1 \in 1..Len(s) /\ n + 1 \in 0..Len(t)
        /\ n + 1 # 0 /\ (n + 1) - 1 = n
    BY <1>1, <2>1
  <2>3. all[n] = run[n]
    BY <1>5, <2>2
  <2>4. run[n + 1] = Step(run[n], s[n + 1])
    BY <1>2, <2>1, <2>2
  <2>5. all[n + 1] = Step(all[n], t[n + 1])
    BY <1>3, <2>2
  <2> QED BY <1>1, <2>2, <2>3, <2>4, <2>5
<1>6. Len(s) \in T
  <2> HIDE DEF T
  <2> QED BY <1>1, <1>4, <1>5, Induction
<1>7. all[Len(s)] = run[Len(s)]
  BY <1>1, <1>6
<1>8. all[Len(s) + 1] = Step(all[Len(s)], t[Len(s) + 1])
  <2>1. Len(s) + 1 \in 0..Len(t) /\ Len(s) + 1 # 0 /\ (Len(s) + 1) - 1 = Len(s)
    BY <1>1
  <2> QED BY <1>3, <2>1
<1> QED BY <1>1, <1>2, <1>3, <1>7, <1>8 DEF t

\* The leaves have paths of their own, so there is one document they make up.
LEMMA MeaningIs ==
  ASSUME NEW s, TokenText(s), NEW doc, DocSays(s, Levels(s), LeavesTo(s, Levels(s), Len(s)), doc)
  PROVE  doc = Meaning(s)
<1> DEFINE lv == Levels(s)
           L == Leaves(s, lv)
           at == [i \in L |-> PathOf(s, lv, i)]
<1>1. DOMAIN s = 1..Len(s)
  BY StackOps DEF TokenText
<1>2. LeavesTo(s, lv, Len(s)) = L
  BY <1>1, Zenon DEF LeavesTo, Leaves
<1>3. /\ doc = [p \in DOMAIN doc |-> doc[p]]
      /\ DOMAIN doc = {at[i] : i \in DOMAIN at}
      /\ \A i \in DOMAIN at : doc[at[i]] = Value(s[i])
      /\ \A i, j \in DOMAIN at : at[i] = at[j] => i = j
  <2>1. DocSays(s, lv, L, doc)
    <3> HIDE DEF L
    <3> QED BY <1>2, Zenon
  <2> QED BY <2>1, Zenon DEF DocSays
<1>4. Meaning(s) = [p \in {at[i] : i \in DOMAIN at} |-> Value(s[CHOOSE i \in DOMAIN at : at[i] = p])]
  BY Zenon DEF Meaning
<1> HIDE DEF at, L, lv
<1>5. ASSUME NEW p \in DOMAIN doc
      PROVE  doc[p] = Value(s[CHOOSE i \in DOMAIN at : at[i] = p])
  <2>1. PICK i \in DOMAIN at : at[i] = p
    BY <1>3, Zenon
  <2> DEFINE j == CHOOSE x \in DOMAIN at : at[x] = p
  <2>2. j \in DOMAIN at /\ at[j] = p
    BY <2>1, Zenon
  <2>3. j = i
    BY <1>3, <2>1, <2>2, Zenon
  <2> QED BY <1>3, <2>1, <2>3, Zenon
<1> DEFINE v(p) == Value(s[CHOOSE i \in DOMAIN at : at[i] = p])
<1>6. Meaning(s) = [p \in DOMAIN doc |-> v(p)]
  BY <1>3, <1>4, Zenon
<1>7. \A p \in DOMAIN doc : doc[p] = v(p)
  BY <1>5, Zenon
<1> HIDE DEF v
<1> QED BY <1>3, <1>6, <1>7

\* What the status and the document of the descent say of the text.
LEMMA DescentIs ==
  ASSUME NEW s, TokenText(s)
  PROVE  /\ Descent(s).status # "err" <=> Viable(s)
         /\ Descent(s).status = "value" <=> Viable(s) /\ Complete(s)
         /\ Descent(s).status # "err" => Descent(s).doc = Meaning(s)
<1> DEFINE lv == Levels(s)
           n == Len(s)
           d == Descent(s)
<1>1. DOMAIN s = 1..n /\ n \in Nat /\ (n = 0 <=> s = <<>>)
  BY StackOps DEF TokenText
<1>2. Viable(s) <=> \A i \in 1..n : Fits(s, lv, i)
  BY <1>1, Zenon DEF Viable
<1>3. Complete(s) <=> ~ (n = 0 \/ lv[n + 1] # 0)
  BY <1>1, Zenon DEF Complete
<1>4. Reads(s, n, d)
  BY DescentReads, Zenon
<1> HIDE DEF d
<1>5. CASE ~ Viable(s)
  <2>1. d = Refused
    BY <1>2, <1>4, <1>5, Zenon DEF Reads
  <2>2. d.status = "err"
    BY <2>1 DEF Refused
  <2>3. d.status # "value"
    BY <2>2
  <2> QED BY <1>5, <2>2, <2>3, Zenon DEF d
<1>6. CASE Viable(s)
  <2>1. ReadSoFar(s, lv, n, d)
    BY <1>2, <1>4, <1>6, Zenon DEF Reads
  <2>2. PICK op, doc, stack :
          /\ ReadWith(s, lv, n, op, doc, stack)
          /\ d = [status |-> IF n = 0 \/ lv[n + 1] > 0 THEN "more" ELSE "value",
                  doc |-> doc, stack |-> stack]
    BY <2>1, Zenon DEF ReadSoFar
  <2>3. lv[n + 1] \in Nat /\ DocSays(s, lv, LeavesTo(s, lv, n), doc)
    BY <2>2, Zenon DEF ReadWith, Placed
  <2>4. lv[n + 1] > 0 <=> lv[n + 1] # 0
    BY <2>3
  <2> HIDE DEF lv, n
  <2>5. d.doc = doc /\ d.status # "err" /\ (d.status = "value" <=> ~ (n = 0 \/ lv[n + 1] > 0))
    BY <2>2
  <2>6. doc = Meaning(s)
    BY <2>3, MeaningIs, Zenon DEF lv, n
  <2> QED BY <1>3, <1>6, <2>4, <2>5, <2>6, Zenon DEF d
<1> QED BY <1>5, <1>6, Zenon

-----------------------------------------------------------------------------
\* The reader has read toks, and its result is that of the descent.
ReaderInv ==
  /\ TokenText(toks)
  /\ dec = Descent(toks)
  /\ result \in {"none", "ok", "err"}
  /\ result = "ok" => dec.status = "value"
  /\ result = "err" => dec.status # "value"

\* Reading may start after opening brackets.
LEMMA BracketsText ==
  ASSUME NEW n \in Nat
  PROVE  TokenText(Brackets(n))
<1> DEFINE b == [delim |-> "["]
<1>1. IsToken(b)
  BY Zenon DEF IsToken, Opens
<1> HIDE DEF b
<1>2. Brackets(n) = [i \in 1..n |-> b]
  BY Zenon DEF Brackets, b
<1>3. Brackets(n) \in Seq({b})
  BY <1>2
<1>4. \A i \in DOMAIN Brackets(n) : IsToken(Brackets(n)[i])
  BY <1>1, <1>2, Zenon
<1> QED BY <1>3, <1>4 DEF TokenText, IsSeq

\* It is so before the first token.
LEMMA ReaderInvInit ==
  ASSUME Init
  PROVE  ReaderInv
<1>1. PICK n \in DOMAIN MaxTokens : toks = Brackets(n)
  BY DEF Init
<1>2. TokenText(toks)
  BY <1>1, StartAssumption, BracketsText
<1> QED BY <1>2 DEF Init, ReaderInv

\* It stays so with each token, and at the end of the text.
LEMMA ReaderInvNext ==
  ASSUME ReaderInv, ReadToken \/ ReadEnd \/ UNCHANGED vars
  PROVE  ReaderInv'
<1>1. CASE ReadToken
  <2>1. PICK tok \in Tokens :
          /\ toks' = Append(toks, tok)
          /\ dec' = Step(dec, tok)
          /\ result' = IF dec'.status = "err" THEN "err" ELSE "none"
    BY <1>1 DEF ReadToken
  <2>2. IsToken(tok)
    BY TokenAssumption
  <2>3. TokenText(toks')
    <3>1. IsSeq(toks) /\ \A i \in DOMAIN toks : IsToken(toks[i])
      BY DEF ReaderInv, TokenText
    <3>2. /\ IsSeq(toks') /\ Len(toks) \in Nat /\ DOMAIN toks = 1..Len(toks)
          /\ Len(toks') = Len(toks) + 1 /\ toks'[Len(toks) + 1] = tok
          /\ \A k \in 1..Len(toks) : toks'[k] = toks[k]
      BY <2>1, <3>1, StackOps
    <3>3. DOMAIN toks' = 1..Len(toks')
      BY <3>2, StackOps
    <3>4. ASSUME NEW i \in DOMAIN toks'
          PROVE  IsToken(toks'[i])
      <4>1. i \in DOMAIN toks \/ i = Len(toks) + 1
        BY <3>2, <3>3
      <4> QED BY <2>2, <3>1, <3>2, <4>1
    <3> QED BY <3>2, <3>4 DEF TokenText
  <2>4. dec' = Descent(toks')
    <3>1. IsSeq(toks) /\ dec = Descent(toks)
      BY DEF ReaderInv, TokenText
    <3> QED BY <2>1, <3>1, DescentSteps
  <2> QED BY <2>1, <2>3, <2>4 DEF ReaderInv
<1>2. CASE ReadEnd
  BY <1>2 DEF ReadEnd, ReaderInv
<1>3. CASE UNCHANGED vars
  BY <1>3 DEF vars, ReaderInv
<1> QED BY <1>1, <1>2, <1>3

\* What holds of the descent of every text holds of the reader.
LEMMA ReaderInvSays ==
  ASSUME ReaderInv
  PROVE  AcceptsExactly /\ DecodesMeaning
<1>1. /\ dec.status # "err" <=> Viable(toks)
      /\ dec.status = "value" <=> Viable(toks) /\ Complete(toks)
      /\ dec.status # "err" => dec.doc = Meaning(toks)
  <2>1. TokenText(toks) /\ dec = Descent(toks)
    BY DEF ReaderInv
  <2> QED BY <2>1, DescentIs
<1>2. (dec.status # "err") = Viable(toks)
  <2>1. Viable(toks) \in BOOLEAN
    BY Zenon DEF Viable
  <2> QED BY <1>1, <2>1
<1>3. AcceptsExactly
  BY <1>1, <1>2 DEF ReaderInv, AcceptsExactly
<1> QED BY <1>1, <1>3 DEF DecodesMeaning

\* The reader's part of every step of a caller of Build.
LEMMA ReaderInvStep ==
  ASSUME ReaderInv, [BuilderNext]_emitVars
  PROVE  ReaderInv'
<1>1. ReadToken \/ ReadEnd \/ UNCHANGED vars
  BY DEF BuilderNext, BuildWithText, BuildPlain, Returned, emitVars, vars
<1> QED BY <1>1, ReaderInvNext

\* Whatever the tokens are and however deep a text may be: the descent refuses a text
\* at the first token that cannot continue a JSON value without repeated keys, and
\* accepts exactly the complete ones (build.go:498-587).
THEOREM ReaderAcceptsExactly == BuilderSpec => []AcceptsExactly
<1>1. BuilderInit => ReaderInv
  BY ReaderInvInit DEF BuilderInit
<1> QED BY <1>1, ReaderInvStep, ReaderInvSays, PTL DEF BuilderSpec

\* Whatever the text, the document is what it says: every scalar and every empty
\* container at its own path, and nothing else (build.go:529-587).
THEOREM ReaderDecodesMeaning == BuilderSpec => []DecodesMeaning
<1>1. BuilderInit => ReaderInv
  BY ReaderInvInit DEF BuilderInit
<1> QED BY <1>1, ReaderInvStep, ReaderInvSays, PTL DEF BuilderSpec

-----------------------------------------------------------------------------
\* Reading a document back: what it has under the first component x of a path.

Inner(d, x) ==
  LET under == {p \in DOMAIN d : \E q : IsSeq(q) /\ p = <<x>> \o q}
  IN  IF under = {} THEN Nil ELSE [q \in {Tail(p) : p \in under} |-> d[<<x>> \o q]]

\* Documents with a leaf, and parts that may be missing.
Whole(d) == Doc(d) /\ DOMAIN d # {}
Piece(d) == d = Nil \/ Whole(d)

\* What has been put under a component is read back.
LEMMA InnerIs ==
  ASSUME NEW d, NEW x, NEW v, Whole(v),
         \A q : IsSeq(q) => (<<x>> \o q \in DOMAIN d <=> q \in DOMAIN v),
         \A q \in DOMAIN v : d[<<x>> \o q] = v[q]
  PROVE  Inner(d, x) = v
<1> DEFINE under == {p \in DOMAIN d : \E q : IsSeq(q) /\ p = <<x>> \o q}
<1>1. /\ v = [q \in DOMAIN v |-> v[q]]
      /\ \A q \in DOMAIN v : IsSeq(q)
      /\ DOMAIN v # {}
  BY DEF Whole, Doc
<1>2. \A q \in DOMAIN v : <<x>> \o q \in under
  BY <1>1
<1>3. under # {}
  BY <1>1, <1>2
<1>4. {Tail(p) : p \in under} = DOMAIN v
  <2>1. ASSUME NEW p \in under PROVE Tail(p) \in DOMAIN v
    <3>1. PICK q : IsSeq(q) /\ p = <<x>> \o q
      OBVIOUS
    <3>2. q \in DOMAIN v
      BY <3>1
    <3> QED BY <3>1, <3>2, Prefixed
  <2>2. ASSUME NEW q \in DOMAIN v PROVE \E p \in under : Tail(p) = q
    BY <1>1, <1>2, Prefixed
  <2> HIDE DEF under
  <2> QED BY <2>1, <2>2
<1>5. Inner(d, x) = [q \in {Tail(p) : p \in under} |-> d[<<x>> \o q]]
  BY <1>3, Zenon DEF Inner
<1> HIDE DEF under
<1> QED BY <1>1, <1>4, <1>5

\* Nothing has been put there.
LEMMA InnerIsNil ==
  ASSUME NEW d, NEW x, \A q : IsSeq(q) => <<x>> \o q \notin DOMAIN d
  PROVE  Inner(d, x) = Nil
  BY Zenon DEF Inner

\* A name or an index is told by its component.
LEMMA Components ==
  /\ \A k, l : [key |-> k] = [key |-> l] => k = l
  /\ \A i, j : [index |-> i] = [index |-> j] => i = j
<1>1. \A k : [key |-> k].key = k /\ [index |-> k].index = k
  OBVIOUS
<1> QED BY <1>1, Zenon

\* An object holds its members and nothing else.
LEMMA ObjectInner ==
  ASSUME NEW m, \A k \in DOMAIN m : Piece(m[k]), NEW k
  PROVE  Inner(Object(m), [key |-> k]) = IF k \in DOMAIN m THEN m[k] ELSE Nil
<1> DEFINE x == [key |-> k]
           d == Object(m)
<1>1. \A l \in DOMAIN m : m[l] = Nil \/ Doc(m[l])
  BY DEF Piece, Whole
<1>2. ASSUME NEW q, IsSeq(q), <<x>> \o q \in DOMAIN d
      PROVE  k \in DOMAIN m /\ m[k] # Nil /\ q \in DOMAIN m[k]
  <2>1. <<x>> \o q # <<>> /\ Head(<<x>> \o q) = x /\ Tail(<<x>> \o q) = q
    BY <1>2, Prefixed
  <2>2. PICK l \in DOMAIN m : m[l] # Nil /\ \E r \in DOMAIN m[l] : <<x>> \o q = <<[key |-> l]>> \o r
    BY <1>1, <1>2, <2>1, ObjectDoc
  <2>3. PICK r \in DOMAIN m[l] : <<x>> \o q = <<[key |-> l]>> \o r
    BY <2>2
  <2>4. IsSeq(r)
    BY <1>1, <2>2 DEF Doc
  <2>5. Head(<<x>> \o q) = [key |-> l] /\ Tail(<<x>> \o q) = r
    BY <2>3, <2>4, Prefixed
  <2>6. k = l /\ q = r
    BY <2>1, <2>5, Components
  <2> QED BY <2>2, <2>6
<1>3. CASE k \in DOMAIN m /\ m[k] # Nil
  <2>1. Whole(m[k])
    BY <1>3 DEF Piece
  <2>2. \A q \in DOMAIN m[k] : <<x>> \o q \in DOMAIN d /\ d[<<x>> \o q] = m[k][q]
    BY <1>1, <1>3, ObjectDoc
  <2> HIDE DEF d, x
  <2>3. Inner(d, x) = m[k]
    BY <1>2, <2>1, <2>2, InnerIs
  <2> QED BY <1>3, <2>3 DEF d, x
<1>4. CASE ~ (k \in DOMAIN m /\ m[k] # Nil)
  <2> HIDE DEF d, x
  <2>1. Inner(d, x) = Nil
    BY <1>2, <1>4, InnerIsNil
  <2> QED BY <1>4, <2>1 DEF d, x
<1> QED BY <1>3, <1>4

\* An object of such parts is one.
LEMMA ObjectWhole ==
  ASSUME NEW m, \A k \in DOMAIN m : Piece(m[k])
  PROVE  Whole(Object(m)) /\ Piece(ObjectIfAny(m))
<1> DEFINE d == Object(m)
<1>1. \A k \in DOMAIN m : m[k] = Nil \/ Doc(m[k])
  BY DEF Piece, Whole
<1>2. Doc(d)
  BY <1>1, ObjectDoc
<1>3. CASE \E k \in DOMAIN m : m[k] # Nil
  <2>1. PICK k \in DOMAIN m : m[k] # Nil
    BY <1>3
  <2>2. PICK q \in DOMAIN m[k] : TRUE
    BY <2>1 DEF Piece, Whole
  <2>3. <<[key |-> k]>> \o q \in DOMAIN d
    BY <1>1, <2>1, <2>2, ObjectDoc
  <2> QED BY <1>2, <2>3 DEF Whole, ObjectIfAny, Piece
<1>4. CASE ~ \E k \in DOMAIN m : m[k] # Nil
  <2>1. d = Leaf([empty |-> "{"])
    BY <1>4, Zenon DEF Object
  <2>2. DOMAIN d = {<<>>}
    BY <2>1, Zenon DEF Leaf
  <2> HIDE DEF d
  <2>3. Whole(d)
    BY <1>2, <2>2 DEF Whole
  <2> QED BY <2>3 DEF d, ObjectIfAny, Piece
<1> QED BY <1>3, <1>4

\* So two equal objects have equal members.
LEMMA SameObject ==
  ASSUME NEW m, NEW o, \A k \in DOMAIN m : Piece(m[k]), \A k \in DOMAIN o : Piece(o[k]),
         DOMAIN m = DOMAIN o, Object(m) = Object(o)
  PROVE  \A k \in DOMAIN m : m[k] = o[k]
<1> SUFFICES ASSUME NEW k \in DOMAIN m PROVE m[k] = o[k]
  OBVIOUS
<1>1. Inner(Object(m), [key |-> k]) = m[k]
  BY ObjectInner
<1>2. Inner(Object(o), [key |-> k]) = o[k]
  BY ObjectInner
<1> QED BY <1>1, <1>2

\* The same for objects that are left out when they are empty.
LEMMA SameObjectIfAny ==
  ASSUME NilIsNoValue, NEW m, NEW o,
         \A k \in DOMAIN m : Piece(m[k]), \A k \in DOMAIN o : Piece(o[k]),
         DOMAIN m = DOMAIN o, ObjectIfAny(m) = ObjectIfAny(o)
  PROVE  \A k \in DOMAIN m : m[k] = o[k]
<1>1. Object(m) # Nil /\ Object(o) # Nil
  BY ObjectWhole, DocIsNotNil DEF Whole
<1>2. CASE \A k \in DOMAIN m : m[k] = Nil
  <2>1. ObjectIfAny(o) = Nil
    BY <1>2 DEF ObjectIfAny
  <2>2. \A k \in DOMAIN o : o[k] = Nil
    BY <1>1, <2>1, Zenon DEF ObjectIfAny
  <2> QED BY <1>2, <2>2
<1>3. CASE ~ \A k \in DOMAIN m : m[k] = Nil
  <2>1. ObjectIfAny(m) = Object(m)
    BY <1>3, Zenon DEF ObjectIfAny
  <2>2. ObjectIfAny(o) = Object(o)
    BY <1>1, <2>1, Zenon DEF ObjectIfAny
  <2>3. Object(m) = Object(o)
    BY <2>1, <2>2
  <2> QED BY <2>3, SameObject
<1> QED BY <1>2, <1>3

\* An array holds its items and nothing else.
LEMMA ArrayInner ==
  ASSUME NEW s, IsSeq(s), \A i \in DOMAIN s : Whole(s[i]), NEW i \in Nat
  PROVE  Inner(Array(s), [index |-> i - 1]) = IF i \in DOMAIN s THEN s[i] ELSE Nil
<1> DEFINE x == [index |-> i - 1]
           a == Array(s)
           under(j) == {<<[index |-> j - 1]>> \o p : p \in DOMAIN s[j]}
           paths == UNION {under(j) : j \in DOMAIN s}
           d == [p \in paths |-> s[Head(p).index + 1][Tail(p)]]
<1>1. /\ \A j \in DOMAIN s : j \in Nat
      /\ \A j \in DOMAIN s : \A r \in DOMAIN s[j] : IsSeq(r)
  BY DEF IsSeq, Whole, Doc
<1>2. CASE s = <<>>
  <2>1. a = Leaf([empty |-> "["])
    BY <1>2, Zenon DEF Array
  <2>2. DOMAIN a = {<<>>}
    BY <2>1, Zenon DEF Leaf
  <2> HIDE DEF a, x
  <2>5. DOMAIN s = {}
    BY <1>2
  <2>3. \A q : IsSeq(q) => <<x>> \o q \notin DOMAIN a
    BY <2>2, Prefixed
  <2>4. Inner(a, x) = Nil
    BY <2>3, InnerIsNil
  <2> QED BY <2>4, <2>5 DEF a, x
<1>3. CASE s # <<>>
  <2>1. a = d
    BY <1>3, Zenon DEF Array
  <2>2. DOMAIN a = paths /\ \A p \in paths : a[p] = s[Head(p).index + 1][Tail(p)]
    BY <2>1
  <2>3. \A p \in paths : \E j \in DOMAIN s : \E r \in DOMAIN s[j] : p = <<[index |-> j - 1]>> \o r
    OBVIOUS
  <2>4. \A j \in DOMAIN s : \A r \in DOMAIN s[j] : <<[index |-> j - 1]>> \o r \in paths
    OBVIOUS
  <2> HIDE DEF a, d, paths
  <2>5. ASSUME NEW q, IsSeq(q), <<x>> \o q \in DOMAIN a
        PROVE  i \in DOMAIN s /\ q \in DOMAIN s[i]
    <3>1. Head(<<x>> \o q) = x /\ Tail(<<x>> \o q) = q
      BY <2>5, Prefixed
    <3>2. PICK j \in DOMAIN s : \E r \in DOMAIN s[j] : <<x>> \o q = <<[index |-> j - 1]>> \o r
      BY <2>2, <2>3, <2>5
    <3>3. PICK r \in DOMAIN s[j] : <<x>> \o q = <<[index |-> j - 1]>> \o r
      BY <3>2
    <3>4. Head(<<x>> \o q) = [index |-> j - 1] /\ Tail(<<x>> \o q) = r
      BY <1>1, <3>3, Prefixed
    <3>5. i - 1 = j - 1 /\ q = r
      BY <3>1, <3>4, Components
    <3>6. i = j
      BY <1>1, <3>5
    <3> QED BY <3>5, <3>6
  <2>6. CASE i \in DOMAIN s
    <3>1. Whole(s[i])
      BY <2>6
    <3>2. \A q \in DOMAIN s[i] : <<x>> \o q \in DOMAIN a /\ a[<<x>> \o q] = s[i][q]
      <4> SUFFICES ASSUME NEW q \in DOMAIN s[i]
                   PROVE  <<x>> \o q \in DOMAIN a /\ a[<<x>> \o q] = s[i][q]
        OBVIOUS
      <4>1. <<x>> \o q \in paths
        BY <2>4, <2>6
      <4>2. Head(<<x>> \o q) = x /\ Tail(<<x>> \o q) = q
        BY <1>1, <2>6, Prefixed
      <4>3. Head(<<x>> \o q).index + 1 = i
        BY <4>2
      <4> QED BY <2>2, <4>1, <4>2, <4>3
    <3> HIDE DEF x
    <3>3. Inner(a, x) = s[i]
      BY <2>5, <3>1, <3>2, InnerIs
    <3> QED BY <2>6, <3>3 DEF a, x
  <2>7. CASE i \notin DOMAIN s
    <3> HIDE DEF x
    <3>1. Inner(a, x) = Nil
      BY <2>5, <2>7, InnerIsNil
    <3> QED BY <2>7, <3>1 DEF a, x
  <2> QED BY <2>6, <2>7
<1> QED BY <1>2, <1>3

\* It is a document with a leaf.
LEMMA ArrayWhole ==
  ASSUME NilIsNoValue, NEW s, IsSeq(s), \A i \in DOMAIN s : Whole(s[i])
  PROVE  Whole(Array(s))
<1>1. Doc(Array(s))
  BY ArrayDoc DEF Whole
<1>2. CASE s = <<>>
  <2>1. Array(s) = Leaf([empty |-> "["])
    BY <1>2, Zenon DEF Array
  <2>2. DOMAIN Array(s) = {<<>>}
    BY <2>1, Zenon DEF Leaf
  <2> QED BY <1>1, <2>2 DEF Whole
<1>3. CASE s # <<>>
  <2>1. 1 \in DOMAIN s
    <3>1. Len(s) \in Nat /\ DOMAIN s = 1..Len(s) /\ (Len(s) = 0 <=> s = <<>>)
      BY StackOps
    <3> QED BY <1>3, <3>1
  <2>2. Inner(Array(s), [index |-> 1 - 1]) = s[1]
    BY <2>1, ArrayInner
  <2>3. CASE DOMAIN Array(s) = {}
    <3>1. \A q : IsSeq(q) => <<[index |-> 1 - 1]>> \o q \notin DOMAIN Array(s)
      BY <2>3
    <3>2. Inner(Array(s), [index |-> 1 - 1]) = Nil
      BY <3>1, InnerIsNil
    <3>3. Whole(s[1])
      BY <2>1
    <3> QED BY <2>2, <3>2, <3>3, DocIsNotNil DEF Whole
  <2> QED BY <1>1, <2>3 DEF Whole
<1> QED BY <1>2, <1>3

\* Two equal arrays have equal items.
LEMMA SameArray ==
  ASSUME NilIsNoValue, NEW s, NEW t, IsSeq(s), IsSeq(t),
         \A i \in DOMAIN s : Whole(s[i]), \A i \in DOMAIN t : Whole(t[i]),
         Array(s) = Array(t)
  PROVE  DOMAIN s = DOMAIN t /\ \A i \in DOMAIN s : s[i] = t[i]
<1>1. ASSUME NEW i \in Nat
      PROVE  (IF i \in DOMAIN s THEN s[i] ELSE Nil) = (IF i \in DOMAIN t THEN t[i] ELSE Nil)
  <2>1. Inner(Array(s), [index |-> i - 1]) = IF i \in DOMAIN s THEN s[i] ELSE Nil
    BY ArrayInner
  <2>2. Inner(Array(t), [index |-> i - 1]) = IF i \in DOMAIN t THEN t[i] ELSE Nil
    BY ArrayInner
  <2> QED BY <2>1, <2>2
<1>2. (\A i \in DOMAIN s : i \in Nat /\ s[i] # Nil) /\ (\A i \in DOMAIN t : i \in Nat /\ t[i] # Nil)
  BY DocIsNotNil DEF Whole, IsSeq
<1>3. \A i : i \in DOMAIN s <=> i \in DOMAIN t
  BY <1>1, <1>2
<1> QED BY <1>1, <1>2, <1>3

\* Texts and digests are told by their leaves.
LEMMA SameLeaf ==
  ASSUME NilIsNoValue, NEW x, NEW y
  PROVE  /\ Leaf(x) = Leaf(y) => x = y
         /\ Text(x) = Text(y) => x = y
         /\ Digest(x) = Digest(y) => x = y
         /\ Opt(x, Text) = Opt(y, Text) => x = y
         /\ Opt(x, Digest) = Opt(y, Digest) => x = y
         /\ Whole(Text(x)) /\ Whole(Digest(x)) /\ Text(x) # Nil
         /\ Piece(Opt(x, Text)) /\ Piece(Opt(x, Digest))
<1>1. \A u : DOMAIN Leaf(u) = {<<>>} /\ Leaf(u)[<<>>] = u
  BY DEF Leaf
<1>2. \A u, v : Leaf(u) = Leaf(v) => u = v
  BY <1>1
<1>3. \A u : [text |-> u].text = u /\ [digest |-> u].digest = u
  OBVIOUS
<1>4. \A u, v : Text(u) = Text(v) => u = v
  BY <1>2, <1>3, Zenon DEF Text
<1>5. \A u, v : Digest(u) = Digest(v) => u = v
  BY <1>2, <1>3, Zenon DEF Digest
<1>6. \A u : Whole(Text(u)) /\ Whole(Digest(u))
  BY <1>1, LeavesAreDocs DEF Whole, Text, Digest
<1>7. \A u : Text(u) # Nil /\ Digest(u) # Nil
  BY <1>6, DocIsNotNil DEF Whole
<1>8. Opt(x, Text) = Opt(y, Text) => x = y
  BY <1>4, <1>7 DEF Opt
<1>9. Opt(x, Digest) = Opt(y, Digest) => x = y
  BY <1>5, <1>7 DEF Opt
<1>10. Piece(Opt(x, Text)) /\ Piece(Opt(x, Digest))
  BY <1>6 DEF Opt, Piece
<1> QED BY <1>2, <1>4, <1>5, <1>6, <1>7, <1>8, <1>9, <1>10

\* A path that goes through a member.
Through(p, m) ==
  \E k \in DOMAIN m : m[k] # Nil /\ \E q \in DOMAIN m[k] : p = <<[key |-> k]>> \o q

\* With a member there, every path of an object goes through one.
LEMMA ObjectPaths ==
  ASSUME NEW m, \A k \in DOMAIN m : Piece(m[k]), \E k \in DOMAIN m : m[k] # Nil
  PROVE  /\ Doc(Object(m))
         /\ \A k \in DOMAIN m : \A q : m[k] # Nil /\ q \in DOMAIN m[k] =>
              /\ <<[key |-> k]>> \o q \in DOMAIN Object(m)
              /\ Object(m)[<<[key |-> k]>> \o q] = m[k][q]
         /\ \A p \in DOMAIN Object(m) : Through(p, m)
<1>1. \A k \in DOMAIN m : m[k] = Nil \/ Doc(m[k])
  BY DEF Piece, Whole
<1>2. <<>> \notin DOMAIN Object(m)
  <2> DEFINE present == {k \in DOMAIN m : m[k] # Nil}
             under(k) == {<<[key |-> k]>> \o p : p \in DOMAIN m[k]}
             paths == UNION {under(k) : k \in present}
             d == [p \in paths |-> m[Head(p).key][Tail(p)]]
  <2>1. present # {}
    OBVIOUS
  <2>2. Object(m) = d
    BY <2>1, Zenon DEF Object
  <2>3. DOMAIN Object(m) = paths
    BY <2>2
  <2>4. \A p \in paths : \E k \in DOMAIN m : m[k] # Nil /\ \E q \in DOMAIN m[k] : p = <<[key |-> k]>> \o q
    OBVIOUS
  <2> HIDE DEF paths, d
  <2>5. SUFFICES ASSUME <<>> \in paths PROVE FALSE
    BY <2>3
  <2>6. PICK k \in DOMAIN m : m[k] # Nil /\ \E q \in DOMAIN m[k] : <<>> = <<[key |-> k]>> \o q
    BY <2>4, <2>5
  <2>7. PICK q \in DOMAIN m[k] : <<>> = <<[key |-> k]>> \o q
    BY <2>6
  <2>8. IsSeq(q)
    BY <1>1, <2>6, <2>7 DEF Doc
  <2> QED BY <2>7, <2>8, Prefixed
<1>3. Doc(Object(m))
  BY <1>1, ObjectDoc
<1>4. \A k \in DOMAIN m : \A q : m[k] # Nil /\ q \in DOMAIN m[k] =>
        /\ <<[key |-> k]>> \o q \in DOMAIN Object(m)
        /\ Object(m)[<<[key |-> k]>> \o q] = m[k][q]
  BY <1>1, ObjectDoc
<1>5. ASSUME NEW p \in DOMAIN Object(m)
      PROVE  Through(p, m)
  <2>1. \E k \in DOMAIN m : m[k] # Nil /\ \E q \in DOMAIN m[k] : p = <<[key |-> k]>> \o q
    BY <1>1, <1>2, <1>5, ObjectDoc
  <2> QED BY <2>1, Zenon DEF Through
<1> QED BY <1>2, <1>3, <1>4, <1>5

\* m with member n.
Put(m, n, v) == [k \in DOMAIN m \cup {n} |-> IF k = n THEN v ELSE m[k]]

\* Adding a member to an object (extension.go:52).
LEMMA PutMember ==
  ASSUME NEW m, \A k \in DOMAIN m : Piece(m[k]), \E k \in DOMAIN m : m[k] # Nil,
         NEW n, n \notin DOMAIN m, NEW v, Whole(v), v # Nil
  PROVE  WithMember(Object(m), n, v) = Object(Put(m, n, v))
<1> DEFINE o == Put(m, n, v)
           d == Object(m)
           new == {<<[key |-> n]>> \o p : p \in DOMAIN v}
           kept == {p \in DOMAIN d : Head(p).key # n}
           w == [p \in kept \cup new |-> IF p \in kept THEN d[p] ELSE v[Tail(p)]]
<1>1. /\ DOMAIN o = DOMAIN m \cup {n} /\ o[n] = v
      /\ \A k \in DOMAIN m : o[k] = m[k]
  BY DEF Put
<1> HIDE DEF o
<1>2. \A k \in DOMAIN o : Piece(o[k])
  BY <1>1 DEF Piece
<1>3. \E k \in DOMAIN o : o[k] # Nil
  BY <1>1
<1>4. WithMember(d, n, v) = w
  BY Zenon DEF WithMember
<1>5. ASSUME NEW k, NEW q, IsSeq(q)
      PROVE  Head(<<[key |-> k]>> \o q).key = k /\ Tail(<<[key |-> k]>> \o q) = q
  BY <1>5, Prefixed
<1>6. \A k \in DOMAIN m : m[k] # Nil => \A q \in DOMAIN m[k] : IsSeq(q)
  BY DEF Piece, Whole, Doc
<1>7. \A q \in DOMAIN v : IsSeq(q)
  BY DEF Whole, Doc
<1>8. \A k \in DOMAIN m : \A q : m[k] # Nil /\ q \in DOMAIN m[k] =>
        <<[key |-> k]>> \o q \in DOMAIN d /\ d[<<[key |-> k]>> \o q] = m[k][q]
  BY ObjectPaths
<1>9. \A p \in DOMAIN d : Through(p, m)
  BY ObjectPaths
<1>10. Doc(Object(o))
  BY <1>2, <1>3, ObjectPaths
<1>11. \A k \in DOMAIN o : \A q : o[k] # Nil /\ q \in DOMAIN o[k] =>
         <<[key |-> k]>> \o q \in DOMAIN Object(o) /\ Object(o)[<<[key |-> k]>> \o q] = o[k][q]
  BY <1>2, <1>3, ObjectPaths
<1>12. \A p \in DOMAIN Object(o) : Through(p, o)
  BY <1>2, <1>3, ObjectPaths
<1>13. /\ \A q : q \in DOMAIN v => <<[key |-> n]>> \o q \in new
       /\ \A p \in new : \E q \in DOMAIN v : p = <<[key |-> n]>> \o q
  OBVIOUS
<1>14. DOMAIN w = kept \cup new /\ w = [p \in DOMAIN w |-> w[p]]
       /\ (\A p \in kept : w[p] = d[p])
       /\ (\A p \in new : p \notin kept => w[p] = v[Tail(p)])
  OBVIOUS
<1>15. \A p \in DOMAIN d : p \in kept
  <2> SUFFICES ASSUME NEW p \in DOMAIN d PROVE Head(p).key # n
    OBVIOUS
  <2> HIDE DEF d
  <2>1. PICK k \in DOMAIN m : m[k] # Nil /\ \E q \in DOMAIN m[k] : p = <<[key |-> k]>> \o q
    BY <1>9 DEF Through
  <2>2. PICK q \in DOMAIN m[k] : p = <<[key |-> k]>> \o q
    BY <2>1
  <2> QED BY <1>5, <1>6, <2>1, <2>2
<1>16. kept \subseteq DOMAIN d /\ \A p \in kept : Head(p).key # n
  OBVIOUS
<1> HIDE DEF kept, new, w, d
<1>17. ASSUME NEW k \in DOMAIN o, o[k] # Nil, NEW q \in DOMAIN o[k], NEW p, p = <<[key |-> k]>> \o q
       PROVE  p \in DOMAIN w /\ w[p] = o[k][q]
  <2>1. CASE k = n
    <3>1. q \in DOMAIN v /\ o[k] = v
      BY <1>1, <1>17, <2>1
    <3>2. Head(p).key = n /\ Tail(p) = q
      BY <1>5, <1>7, <1>17, <2>1, <3>1
    <3>3. p \in new /\ p \notin kept
      BY <1>13, <1>16, <1>17, <2>1, <3>1, <3>2
    <3> QED BY <1>14, <3>1, <3>2, <3>3
  <2>2. CASE k # n
    <3>1. k \in DOMAIN m /\ o[k] = m[k]
      BY <1>1, <2>2
    <3>2. p \in DOMAIN d /\ d[p] = m[k][q]
      BY <1>8, <1>17, <3>1
    <3> QED BY <1>14, <1>15, <3>1, <3>2
  <2> QED BY <2>1, <2>2
<1>18. ASSUME NEW p \in DOMAIN w
       PROVE  Through(p, o)
  <2>1. CASE p \in new
    BY <1>1, <1>13, <2>1 DEF Through
  <2>2. CASE p \in kept
    <3>1. Through(p, m)
      BY <1>9, <1>16, <2>2
    <3>2. PICK k \in DOMAIN m : m[k] # Nil /\ \E q \in DOMAIN m[k] : p = <<[key |-> k]>> \o q
      BY <3>1 DEF Through
    <3>3. k \in DOMAIN o /\ o[k] = m[k]
      BY <1>1, <3>2
    <3>4. \E q \in DOMAIN o[k] : p = <<[key |-> k]>> \o q
      BY <3>2, <3>3
    <3> QED BY <3>2, <3>3, <3>4 DEF Through
  <2> QED BY <1>14, <2>1, <2>2
<1>19. ASSUME NEW p, Through(p, o)
       PROVE  p \in DOMAIN w /\ p \in DOMAIN Object(o) /\ Object(o)[p] = w[p]
  <2>1. PICK k \in DOMAIN o : o[k] # Nil /\ \E q \in DOMAIN o[k] : p = <<[key |-> k]>> \o q
    BY <1>19 DEF Through
  <2>2. PICK q \in DOMAIN o[k] : p = <<[key |-> k]>> \o q
    BY <2>1
  <2>3. p \in DOMAIN w /\ w[p] = o[k][q]
    BY <1>17, <2>1, <2>2
  <2>4. p \in DOMAIN Object(o) /\ Object(o)[p] = o[k][q]
    BY <1>11, <2>1, <2>2
  <2> QED BY <2>3, <2>4
<1>20. \A p : p \in DOMAIN w <=> p \in DOMAIN Object(o)
  BY <1>12, <1>18, <1>19
<1>21. DOMAIN w = DOMAIN Object(o) /\ \A p \in DOMAIN w : w[p] = Object(o)[p]
  BY <1>18, <1>19, <1>20
<1>22. Object(o) = [p \in DOMAIN Object(o) |-> Object(o)[p]]
  BY <1>10 DEF Doc
<1>23. w = Object(o)
  BY <1>14, <1>21, <1>22
<1> QED BY <1>4, <1>23 DEF d, o

\* The id of an object without local-only members is of all of it (digest.go:40-48).
LEMMA IdOfObject ==
  ASSUME NEW m, \A k \in DOMAIN m : Piece(m[k]), \E k \in DOMAIN m : m[k] # Nil,
         DOMAIN m \cap LocalOnly = {}
  PROVE  ComputeCapsuleID(Object(m)) = [capsule |-> Object(m)]
<1> DEFINE d == Object(m)
           said == {q \in DOMAIN d : Head(q).key \notin LocalOnly}
<1>1. \A k \in DOMAIN m : k \notin LocalOnly
  OBVIOUS
<1>2. Doc(d) /\ \A p \in DOMAIN d : Through(p, m)
  BY ObjectPaths
<1> HIDE DEF d
<1>3. ASSUME NEW p \in DOMAIN d
      PROVE  p \in said
  <2>1. PICK k \in DOMAIN m : m[k] # Nil /\ \E q \in DOMAIN m[k] : p = <<[key |-> k]>> \o q
    BY <1>2 DEF Through
  <2>2. PICK q \in DOMAIN m[k] : p = <<[key |-> k]>> \o q
    BY <2>1
  <2>3. IsSeq(q)
    BY <2>1, <2>2 DEF Piece, Whole, Doc
  <2>4. Head(p) = [key |-> k]
    BY <2>2, <2>3, Prefixed
  <2>5. Head(p).key = k
    BY <2>4
  <2> QED BY <1>1, <2>5
<1>4. said = DOMAIN d
  BY <1>3
<1>5. d = [p \in DOMAIN d |-> d[p]]
  BY <1>2 DEF Doc
<1>6. ComputeCapsuleID(d) = [capsule |-> [p \in said |-> d[p]]]
  BY Zenon DEF ComputeCapsuleID
<1> HIDE DEF said
<1>7. [p \in said |-> d[p]] = d
  BY <1>4, <1>5
<1> QED BY <1>6, <1>7 DEF d

-----------------------------------------------------------------------------
\* Each part of a payload tells the struct it was made of.

\* A struct is its fields.
LEMMA SameStruct ==
  ASSUME NEW F, NEW x, NEW y, IsStruct(x, F), IsStruct(y, F), \A f \in F : x[f] = y[f]
  PROVE  x = y
  BY DEF IsStruct

\* The disposition (build.go: dispositionMap).
LEMMA DispositionTold ==
  ASSUME NilIsNoValue, NEW d, NEW e
  PROVE  /\ Whole(dispositionMap(d))
         /\ IsDisposition(d) /\ IsDisposition(e) /\ dispositionMap(d) = dispositionMap(e) => d = e
<1> DEFINE human(x) == [lit |-> IF x.HumanDisposed THEN "true" ELSE "false"]
           h(x) == Leaf(human(x))
           m(x) == [decision |-> Text(x.Decision), approver |-> Text(x.Approver),
                    human_disposed |-> h(x),
                    verdict_class |-> Opt(x.VerdictClass, Text),
                    reason_digest |-> Opt(x.ReasonDigest, Digest)]
<1>1. \A x : Whole(h(x))
  <2>1. \A x : Doc(h(x)) /\ DOMAIN h(x) = {<<>>}
    BY LeavesAreDocs, Zenon DEF Leaf
  <2> QED BY <2>1 DEF Whole
<1>2. IsDisposition(d) /\ IsDisposition(e) /\ human(d) = human(e) => d.HumanDisposed = e.HumanDisposed
  <2>1. \A x : human(x).lit = IF x.HumanDisposed THEN "true" ELSE "false"
    OBVIOUS
  <2> HIDE DEF human
  <2>2. "true" # "false"
    OBVIOUS
  <2>3. human(d) = human(e) => (d.HumanDisposed <=> e.HumanDisposed)
    BY <2>1, <2>2, Zenon
  <2>4. IsDisposition(d) /\ IsDisposition(e) => d.HumanDisposed \in BOOLEAN /\ e.HumanDisposed \in BOOLEAN
    BY Zenon DEF IsDisposition
  <2>5. \A a, b \in BOOLEAN : (a <=> b) => a = b
    BY Zenon
  <2> QED BY <2>3, <2>4, <2>5, Zenon
<1>3. h(d) = h(e) => human(d) = human(e)
  <2> HIDE DEF human
  <2> QED BY SameLeaf
<1> HIDE DEF h, human
<1>4. \A x : Piece(Text(x)) /\ Piece(Opt(x, Text)) /\ Piece(Opt(x, Digest))
  BY SameLeaf DEF Piece
<1>6. \A x : DOMAIN m(x) = {"decision", "approver", "human_disposed", "verdict_class", "reason_digest"}
  OBVIOUS
<1>7. \A x : /\ m(x)["decision"] = Text(x.Decision) /\ m(x)["approver"] = Text(x.Approver)
             /\ m(x)["human_disposed"] = h(x) /\ m(x)["verdict_class"] = Opt(x.VerdictClass, Text)
             /\ m(x)["reason_digest"] = Opt(x.ReasonDigest, Digest)
  OBVIOUS
<1>8. \A x : dispositionMap(x) = Object(m(x))
  BY Zenon DEF dispositionMap, h, human
<1> HIDE DEF m
<1>5. \A x : \A k \in DOMAIN m(x) : Piece(m(x)[k])
  BY <1>1, <1>4, <1>6, <1>7 DEF Piece
<1>9. Whole(dispositionMap(d))
  BY <1>5, <1>8, ObjectWhole
<1>10. ASSUME IsDisposition(d), IsDisposition(e), dispositionMap(d) = dispositionMap(e)
       PROVE  d = e
  <2>1. \A k \in DOMAIN m(d) : m(d)[k] = m(e)[k]
    BY <1>5, <1>6, <1>8, <1>10, SameObject
  <2>2. /\ Text(d.Decision) = Text(e.Decision) /\ Text(d.Approver) = Text(e.Approver)
        /\ h(d) = h(e) /\ Opt(d.VerdictClass, Text) = Opt(e.VerdictClass, Text)
        /\ Opt(d.ReasonDigest, Digest) = Opt(e.ReasonDigest, Digest)
    BY <1>6, <1>7, <2>1
  <2>3. /\ d.Decision = e.Decision /\ d.Approver = e.Approver
        /\ d.HumanDisposed = e.HumanDisposed
        /\ d.VerdictClass = e.VerdictClass /\ d.ReasonDigest = e.ReasonDigest
    BY <1>2, <1>3, <1>10, <2>2, SameLeaf
  <2> QED BY <1>10, <2>3, SameStruct DEF IsDisposition
<1> QED BY <1>9, <1>10

EffectFields ==
  {"Type", "Status", "IrreversibilityClass", "EffectAttestation", "RequestDigest",
   "ResponseDigest", "ExternalRef"}

\* The effect (build.go: effectMap).
LEMMA EffectTold ==
  ASSUME NilIsNoValue, NEW d, NEW e
  PROVE  /\ Whole(effectMap(d))
         /\ IsStruct(d, EffectFields) /\ IsStruct(e, EffectFields) /\ effectMap(d) = effectMap(e)
              => d = e
<1> DEFINE m(x) == [type |-> Text(x.Type), status |-> Text(x.Status),
                    irreversibility_class |-> Text(x.IrreversibilityClass),
                    effect_attestation |-> Opt(x.EffectAttestation, Text),
                    request_digest |-> Opt(x.RequestDigest, Digest),
                    response_digest |-> Opt(x.ResponseDigest, Digest),
                    external_ref |-> Opt(x.ExternalRef, Text)]
<1>4. \A x : Piece(Text(x)) /\ Piece(Opt(x, Text)) /\ Piece(Opt(x, Digest))
  BY SameLeaf DEF Piece
<1>6. \A x : DOMAIN m(x) = {"type", "status", "irreversibility_class", "effect_attestation",
                            "request_digest", "response_digest", "external_ref"}
  OBVIOUS
<1>7. \A x : /\ m(x)["type"] = Text(x.Type) /\ m(x)["status"] = Text(x.Status)
             /\ m(x)["irreversibility_class"] = Text(x.IrreversibilityClass)
             /\ m(x)["effect_attestation"] = Opt(x.EffectAttestation, Text)
             /\ m(x)["request_digest"] = Opt(x.RequestDigest, Digest)
             /\ m(x)["response_digest"] = Opt(x.ResponseDigest, Digest)
             /\ m(x)["external_ref"] = Opt(x.ExternalRef, Text)
  OBVIOUS
<1>8. \A x : effectMap(x) = Object(m(x))
  BY Zenon DEF effectMap
<1> HIDE DEF m
<1>5. \A x : \A k \in DOMAIN m(x) : Piece(m(x)[k])
  BY <1>4, <1>6, <1>7, ZenonT(60)
<1>9. Whole(effectMap(d))
  BY <1>5, <1>8, ObjectWhole
<1>10. ASSUME IsStruct(d, EffectFields), IsStruct(e, EffectFields), effectMap(d) = effectMap(e)
       PROVE  d = e
  <2>1. \A k \in DOMAIN m(d) : m(d)[k] = m(e)[k]
    BY <1>5, <1>6, <1>8, <1>10, SameObject
  <2>2. /\ Text(d.Type) = Text(e.Type) /\ Text(d.Status) = Text(e.Status)
        /\ Text(d.IrreversibilityClass) = Text(e.IrreversibilityClass)
        /\ Opt(d.EffectAttestation, Text) = Opt(e.EffectAttestation, Text)
        /\ Opt(d.RequestDigest, Digest) = Opt(e.RequestDigest, Digest)
        /\ Opt(d.ResponseDigest, Digest) = Opt(e.ResponseDigest, Digest)
        /\ Opt(d.ExternalRef, Text) = Opt(e.ExternalRef, Text)
    BY <1>6, <1>7, <2>1
  <2>3. /\ d.Type = e.Type /\ d.Status = e.Status
        /\ d.IrreversibilityClass = e.IrreversibilityClass
        /\ d.EffectAttestation = e.EffectAttestation /\ d.RequestDigest = e.RequestDigest
        /\ d.ResponseDigest = e.ResponseDigest /\ d.ExternalRef = e.ExternalRef
    BY <2>2, SameLeaf
  <2> QED BY <1>10, <2>3, SameStruct DEF EffectFields
<1> QED BY <1>9, <1>10

ChainFields == {"ParentCapsuleID", "Relation"}

\* The chain (build.go: chain).
LEMMA ChainTold ==
  ASSUME NilIsNoValue, NEW d, NEW e
  PROVE  /\ Whole(chainMap(d))
         /\ IsStruct(d, ChainFields) /\ IsStruct(e, ChainFields) /\ chainMap(d) = chainMap(e) => d = e
<1> DEFINE m(x) == [parent_capsule_id |-> Digest(x.ParentCapsuleID), relation |-> Text(x.Relation)]
<1>4. \A x : Piece(Text(x)) /\ Piece(Digest(x))
  BY SameLeaf DEF Piece
<1>6. \A x : DOMAIN m(x) = {"parent_capsule_id", "relation"}
  OBVIOUS
<1>7. \A x : /\ m(x)["parent_capsule_id"] = Digest(x.ParentCapsuleID)
             /\ m(x)["relation"] = Text(x.Relation)
  OBVIOUS
<1>8. \A x : chainMap(x) = Object(m(x))
  BY Zenon DEF chainMap
<1> HIDE DEF m
<1>5. \A x : \A k \in DOMAIN m(x) : Piece(m(x)[k])
  BY <1>4, <1>6, <1>7
<1>9. Whole(chainMap(d))
  BY <1>5, <1>8, ObjectWhole
<1>10. ASSUME IsStruct(d, ChainFields), IsStruct(e, ChainFields), chainMap(d) = chainMap(e)
       PROVE  d = e
  <2>1. \A k \in DOMAIN m(d) : m(d)[k] = m(e)[k]
    BY <1>5, <1>6, <1>8, <1>10, SameObject
  <2>2. /\ Digest(d.ParentCapsuleID) = Digest(e.ParentCapsuleID) /\ Text(d.Relation) = Text(e.Relation)
    BY <1>6, <1>7, <2>1
  <2>3. d.ParentCapsuleID = e.ParentCapsuleID /\ d.Relation = e.Relation
    BY <2>2, SameLeaf
  <2> QED BY <1>10, <2>3, SameStruct DEF ChainFields
<1> QED BY <1>9, <1>10

\* A reference (build.go: digestReferenceMap, and what Build adds to it).
LEMMA ReferenceTold ==
  ASSUME NilIsNoValue, NEW d, NEW e, NEW p, NEW q, NEW a, NEW b, Piece(a), Piece(b)
  PROVE  /\ Whole(referenceMap(d, Nil, p, a))
         /\ referenceMap(d, Nil, p, a) = referenceMap(e, Nil, q, b)
              => /\ d.Type = e.Type /\ d.DigestAlg = e.DigestAlg /\ d.Digest = e.Digest
                 /\ p = q /\ a = b
<1> DEFINE M == [type |-> Text(d.Type), digest_alg |-> Text(d.DigestAlg),
                 digest |-> Digest(d.Digest), slot |-> Opt(Nil, Text),
                 citation_purpose |-> Opt(p, Text), log_coordinates |-> a]
           N == [type |-> Text(e.Type), digest_alg |-> Text(e.DigestAlg),
                 digest |-> Digest(e.Digest), slot |-> Opt(Nil, Text),
                 citation_purpose |-> Opt(q, Text), log_coordinates |-> b]
           names == {"type", "digest_alg", "digest", "slot", "citation_purpose", "log_coordinates"}
<1>1. \A x : Piece(Text(x)) /\ Piece(Digest(x)) /\ Piece(Opt(x, Text))
  BY SameLeaf DEF Piece
<1>2. DOMAIN M = names /\ DOMAIN N = names
  OBVIOUS
<1>3. /\ M["type"] = Text(d.Type) /\ M["digest_alg"] = Text(d.DigestAlg)
      /\ M["digest"] = Digest(d.Digest) /\ M["slot"] = Opt(Nil, Text)
      /\ M["citation_purpose"] = Opt(p, Text) /\ M["log_coordinates"] = a
      /\ N["type"] = Text(e.Type) /\ N["digest_alg"] = Text(e.DigestAlg)
      /\ N["digest"] = Digest(e.Digest) /\ N["slot"] = Opt(Nil, Text)
      /\ N["citation_purpose"] = Opt(q, Text) /\ N["log_coordinates"] = b
  OBVIOUS
<1>4. referenceMap(d, Nil, p, a) = Object(M) /\ referenceMap(e, Nil, q, b) = Object(N)
  BY Zenon DEF referenceMap
<1> HIDE DEF M, N
<1>5. \A k \in names : Piece(M[k]) /\ Piece(N[k])
  BY <1>1, <1>3
<1>6. /\ \A k \in DOMAIN M : Piece(M[k])
      /\ \A k \in DOMAIN N : Piece(N[k])
      /\ DOMAIN M = DOMAIN N
  BY <1>2, <1>5
<1>7. Whole(referenceMap(d, Nil, p, a))
  BY <1>4, <1>6, ObjectWhole
<1>8. ASSUME referenceMap(d, Nil, p, a) = referenceMap(e, Nil, q, b)
      PROVE  /\ d.Type = e.Type /\ d.DigestAlg = e.DigestAlg /\ d.Digest = e.Digest
             /\ p = q /\ a = b
  <2>1. Object(M) = Object(N)
    BY <1>4, <1>8
  <2>2. \A k \in DOMAIN M : M[k] = N[k]
    BY <1>6, <2>1, SameObject
  <2>3. /\ M["type"] = N["type"] /\ M["digest_alg"] = N["digest_alg"] /\ M["digest"] = N["digest"]
        /\ M["citation_purpose"] = N["citation_purpose"]
        /\ M["log_coordinates"] = N["log_coordinates"]
    BY <1>2, <2>2
  <2>4. /\ Text(d.Type) = Text(e.Type) /\ Text(d.DigestAlg) = Text(e.DigestAlg)
        /\ Digest(d.Digest) = Digest(e.Digest)
        /\ Opt(p, Text) = Opt(q, Text) /\ a = b
    BY <1>3, <2>3
  <2> QED BY <2>4, SameLeaf
<1> QED BY <1>7, <1>8

\* The source of a backfilled capsule says no more than its digest does.
IsSource(ref) == IsReference(ref) /\ ref.CitationPurpose = Nil /\ ref.LogCoordinates = Nil
IsMode(m) == IsProvenanceMode(m) /\ (m.SourceRef # Nil => IsSource(m.SourceRef))

\* sourceRefMap tells its reference.
LEMMA SourceTold ==
  ASSUME NilIsNoValue, NEW d, NEW e
  PROVE  /\ Whole(sourceRefMap(d)) /\ Piece(Opt(d, sourceRefMap))
         /\ (d = Nil \/ IsSource(d)) /\ (e = Nil \/ IsSource(e))
              /\ Opt(d, sourceRefMap) = Opt(e, sourceRefMap) => d = e
<1>1. \A x : sourceRefMap(x) = referenceMap(x, Nil, Nil, Nil)
  BY Zenon DEF sourceRefMap
<1>2. Piece(Nil)
  BY DEF Piece
<1>3. \A x : Whole(sourceRefMap(x)) /\ sourceRefMap(x) # Nil
  BY <1>1, <1>2, ReferenceTold, DocIsNotNil DEF Whole
<1>4. ASSUME IsSource(d), IsSource(e), sourceRefMap(d) = sourceRefMap(e)
      PROVE  d = e
  <2>1. referenceMap(d, Nil, Nil, Nil) = referenceMap(e, Nil, Nil, Nil)
    BY <1>1, <1>4
  <2>2. d.Type = e.Type /\ d.DigestAlg = e.DigestAlg /\ d.Digest = e.Digest
    BY <1>2, <2>1, ReferenceTold
  <2>3. d.CitationPurpose = e.CitationPurpose /\ d.LogCoordinates = e.LogCoordinates
    BY <1>4 DEF IsSource
  <2> QED BY <1>4, <2>2, <2>3, SameStruct DEF IsSource, IsReference
<1>5. \A x : Opt(x, sourceRefMap) = IF x = Nil THEN Nil ELSE sourceRefMap(x)
  BY Zenon DEF Opt
<1> QED BY <1>3, <1>4, <1>5 DEF Piece

\* The provenance mode (build.go: provenanceModeMap).
LEMMA ModeTold ==
  ASSUME NilIsNoValue, NEW d, NEW e
  PROVE  /\ Whole(provenanceModeMap(d))
         /\ IsMode(d) /\ IsMode(e) /\ provenanceModeMap(d) = provenanceModeMap(e) => d = e
<1> DEFINE m(x) == [mode |-> Text(x.Mode),
                    source_ref |-> Opt(x.SourceRef, sourceRefMap),
                    source_asserted_at |-> Opt(x.SourceAssertedAt, Text),
                    import_batch |-> Opt(x.ImportBatch, Text),
                    imported_at |-> Opt(x.ImportedAt, Text),
                    time_rung |-> Opt(x.TimeRung, Text)]
<1>1. \A x : Piece(Text(x)) /\ Piece(Opt(x, Text)) /\ Piece(Opt(x, sourceRefMap))
  BY SameLeaf, SourceTold DEF Piece
<1>2. \A x : DOMAIN m(x) = {"mode", "source_ref", "source_asserted_at", "import_batch", "imported_at",
                            "time_rung"}
  OBVIOUS
<1>3. \A x : /\ m(x)["mode"] = Text(x.Mode) /\ m(x)["source_ref"] = Opt(x.SourceRef, sourceRefMap)
             /\ m(x)["source_asserted_at"] = Opt(x.SourceAssertedAt, Text)
             /\ m(x)["import_batch"] = Opt(x.ImportBatch, Text)
             /\ m(x)["imported_at"] = Opt(x.ImportedAt, Text)
             /\ m(x)["time_rung"] = Opt(x.TimeRung, Text)
  OBVIOUS
<1>4. \A x : provenanceModeMap(x) = Object(m(x))
  BY Zenon DEF provenanceModeMap
<1> HIDE DEF m
<1>5. \A x : \A k \in DOMAIN m(x) : Piece(m(x)[k])
  BY <1>1, <1>2, <1>3
<1>6. Whole(provenanceModeMap(d))
  BY <1>4, <1>5, ObjectWhole
<1>7. ASSUME IsMode(d), IsMode(e), provenanceModeMap(d) = provenanceModeMap(e)
      PROVE  d = e
  <2>1. \A k \in DOMAIN m(d) : m(d)[k] = m(e)[k]
    BY <1>2, <1>4, <1>5, <1>7, SameObject
  <2>2. /\ Text(d.Mode) = Text(e.Mode)
        /\ Opt(d.SourceRef, sourceRefMap) = Opt(e.SourceRef, sourceRefMap)
        /\ Opt(d.SourceAssertedAt, Text) = Opt(e.SourceAssertedAt, Text)
        /\ Opt(d.ImportBatch, Text) = Opt(e.ImportBatch, Text)
        /\ Opt(d.ImportedAt, Text) = Opt(e.ImportedAt, Text)
        /\ Opt(d.TimeRung, Text) = Opt(e.TimeRung, Text)
    BY <1>2, <1>3, <2>1
  <2>3. d.SourceRef = e.SourceRef
    BY <1>7, <2>2, SourceTold DEF IsMode
  <2>4. /\ d.Mode = e.Mode /\ d.SourceAssertedAt = e.SourceAssertedAt
        /\ d.ImportBatch = e.ImportBatch /\ d.ImportedAt = e.ImportedAt /\ d.TimeRung = e.TimeRung
    BY <2>2, SameLeaf
  <2> QED BY <1>7, <2>3, <2>4, SameStruct DEF IsMode, IsProvenanceMode
<1> QED BY <1>6, <1>7

\* A model or a compute attestation that is there says something (build.go:
\* validateAttestation).
IsModel(m) == IsStruct(m, {"Provider", "ModelID"}) /\ (m.Provider # Nil \/ m.ModelID # Nil)
IsCompute(c) ==
  /\ IsStruct(c, {"AgentInputDigest", "AgentOutputDigest", "Runtime"})
  /\ c.AgentInputDigest # Nil \/ c.AgentOutputDigest # Nil \/ c.Runtime # Nil

\* So a missing one is not mistaken for an empty one.
LEMMA ComputeTold ==
  ASSUME NilIsNoValue, NEW d, NEW e
  PROVE  /\ Piece(computeAttestationMap(d, Nil))
         /\ (d = Nil \/ IsCompute(d)) /\ (e = Nil \/ IsCompute(e))
              /\ computeAttestationMap(d, Nil) = computeAttestationMap(e, Nil) => d = e
<1> DEFINE C(x) == IF x = Nil THEN NoCompute ELSE x
           b == NoBinding
           s == b.ComposedMembers
           composed == IF s = <<>> THEN Nil
                       ELSE Array([i \in DOMAIN s |-> digestReferenceMap(s[i])])
           carried == Opt(b.CarriedArtifact, digestReferenceMap)
           input == Opt(b.CarriedInputDigest, Digest)
           m(x) == [agent_input_digest |-> Opt(C(x).AgentInputDigest, Digest),
                    agent_output_digest |-> Opt(C(x).AgentOutputDigest, Digest),
                    runtime |-> Opt(C(x).Runtime, Text),
                    carried_artifact |-> carried,
                    carried_input_digest |-> input,
                    composed_members |-> composed]
<1>1. composed = Nil /\ carried = Nil /\ input = Nil
  BY DEF NoBinding, Opt
<1>2. \A x : computeAttestationMap(x, Nil) = ObjectIfAny(m(x))
  BY Zenon DEF computeAttestationMap
<1> HIDE DEF composed, carried, input
<1>3. \A x : Piece(Opt(x, Text)) /\ Piece(Opt(x, Digest)) /\ Piece(Nil)
  BY SameLeaf DEF Piece
<1>4. \A x : DOMAIN m(x) = {"agent_input_digest", "agent_output_digest", "runtime", "carried_artifact",
                            "carried_input_digest", "composed_members"}
  OBVIOUS
<1>5. \A x : /\ m(x)["agent_input_digest"] = Opt(C(x).AgentInputDigest, Digest)
             /\ m(x)["agent_output_digest"] = Opt(C(x).AgentOutputDigest, Digest)
             /\ m(x)["runtime"] = Opt(C(x).Runtime, Text)
             /\ m(x)["carried_artifact"] = Nil
             /\ m(x)["carried_input_digest"] = Nil
             /\ m(x)["composed_members"] = Nil
  BY <1>1
<1> HIDE DEF m
<1>6. \A x : \A k \in DOMAIN m(x) : Piece(m(x)[k])
  <2> HIDE DEF C
  <2> QED BY <1>3, <1>4, <1>5
<1>7. Piece(computeAttestationMap(d, Nil))
  BY <1>2, <1>6, ObjectWhole
<1>8. ASSUME d = Nil \/ IsCompute(d), e = Nil \/ IsCompute(e),
             computeAttestationMap(d, Nil) = computeAttestationMap(e, Nil)
      PROVE  d = e
  <2>1. \A k \in DOMAIN m(d) : m(d)[k] = m(e)[k]
    BY <1>2, <1>4, <1>6, <1>8, SameObjectIfAny
  <2>2. /\ Opt(C(d).AgentInputDigest, Digest) = Opt(C(e).AgentInputDigest, Digest)
        /\ Opt(C(d).AgentOutputDigest, Digest) = Opt(C(e).AgentOutputDigest, Digest)
        /\ Opt(C(d).Runtime, Text) = Opt(C(e).Runtime, Text)
    <3> HIDE DEF C
    <3> QED BY <1>4, <1>5, <2>1
  <2>3. /\ C(d).AgentInputDigest = C(e).AgentInputDigest
        /\ C(d).AgentOutputDigest = C(e).AgentOutputDigest
        /\ C(d).Runtime = C(e).Runtime
    <3> HIDE DEF C
    <3> QED BY <2>2, SameLeaf
  <2>4. NoCompute.AgentInputDigest = Nil /\ NoCompute.AgentOutputDigest = Nil /\ NoCompute.Runtime = Nil
    BY DEF NoCompute
  <2>5. d = Nil <=> e = Nil
    BY <1>8, <2>3, <2>4 DEF IsCompute
  <2>6. CASE d # Nil
    BY <1>8, <2>3, <2>5, <2>6, SameStruct DEF IsCompute
  <2> QED BY <2>5, <2>6
<1> QED BY <1>7, <1>8

\* The model attestation (build.go: modelAttestationMap), of an input without binding.
LEMMA ModelTold ==
  ASSUME NilIsNoValue, NEW d, NEW e, d.compute = Nil, e.compute = Nil
  PROVE  /\ Piece(modelAttestationMap(d))
         /\ (d.Model = Nil \/ IsModel(d.Model)) /\ (e.Model = Nil \/ IsModel(e.Model))
              /\ (d.Compute = Nil \/ IsCompute(d.Compute)) /\ (e.Compute = Nil \/ IsCompute(e.Compute))
              /\ modelAttestationMap(d) = modelAttestationMap(e)
              => d.Model = e.Model /\ d.Compute = e.Compute
<1> DEFINE C(x) == IF x.Model = Nil THEN NoModel ELSE x.Model
           c(x) == computeAttestationMap(x.Compute, x.compute)
           m(x) == [model_id |-> Opt(C(x).ModelID, Text),
                    provider |-> Opt(C(x).Provider, Text),
                    compute_attestation |-> c(x)]
<1>1. \A x : modelAttestationMap(x) = ObjectIfAny(m(x))
  BY Zenon DEF modelAttestationMap
<1>2. Piece(c(d)) /\ Piece(c(e))
  BY ComputeTold
<1> HIDE DEF c
<1>3. \A x : Piece(Opt(x, Text))
  BY SameLeaf DEF Piece
<1>4. \A x : DOMAIN m(x) = {"model_id", "provider", "compute_attestation"}
  OBVIOUS
<1>5. \A x : /\ m(x)["model_id"] = Opt(C(x).ModelID, Text)
             /\ m(x)["provider"] = Opt(C(x).Provider, Text)
             /\ m(x)["compute_attestation"] = c(x)
  OBVIOUS
<1> HIDE DEF m
<1>6. (\A k \in DOMAIN m(d) : Piece(m(d)[k])) /\ (\A k \in DOMAIN m(e) : Piece(m(e)[k]))
  <2> HIDE DEF C
  <2> QED BY <1>2, <1>3, <1>4, <1>5
<1>7. Piece(modelAttestationMap(d))
  BY <1>1, <1>6, ObjectWhole
<1>8. ASSUME d.Model = Nil \/ IsModel(d.Model), e.Model = Nil \/ IsModel(e.Model),
             d.Compute = Nil \/ IsCompute(d.Compute), e.Compute = Nil \/ IsCompute(e.Compute),
             modelAttestationMap(d) = modelAttestationMap(e)
      PROVE  d.Model = e.Model /\ d.Compute = e.Compute
  <2>1. \A k \in DOMAIN m(d) : m(d)[k] = m(e)[k]
    BY <1>1, <1>4, <1>6, <1>8, SameObjectIfAny
  <2>2. /\ Opt(C(d).ModelID, Text) = Opt(C(e).ModelID, Text)
        /\ Opt(C(d).Provider, Text) = Opt(C(e).Provider, Text)
        /\ c(d) = c(e)
    <3> HIDE DEF C
    <3> QED BY <1>4, <1>5, <2>1
  <2>3. C(d).ModelID = C(e).ModelID /\ C(d).Provider = C(e).Provider
    <3> HIDE DEF C
    <3> QED BY <2>2, SameLeaf
  <2>4. NoModel.ModelID = Nil /\ NoModel.Provider = Nil
    BY DEF NoModel
  <2>5. d.Model = Nil <=> e.Model = Nil
    BY <1>8, <2>3, <2>4 DEF IsModel
  <2>6. ASSUME d.Model # Nil
        PROVE  d.Model = e.Model
    <3> DEFINE p == d.Model
               q == e.Model
    <3>1. IsModel(p) /\ IsModel(q) /\ p.ModelID = q.ModelID /\ p.Provider = q.Provider
      BY <1>8, <2>3, <2>5, <2>6
    <3> HIDE DEF p, q
    <3>2. p = q
      BY <3>1, SameStruct DEF IsModel
    <3> QED BY <3>2 DEF p, q
  <2>7. d.Model = e.Model
    BY <2>5, <2>6
  <2>8. computeAttestationMap(d.Compute, Nil) = computeAttestationMap(e.Compute, Nil)
    BY <2>2 DEF c
  <2>9. d.Compute = e.Compute
    <3> DEFINE p == d.Compute
               q == e.Compute
    <3>1. /\ (p = Nil \/ IsCompute(p)) /\ (q = Nil \/ IsCompute(q))
          /\ computeAttestationMap(p, Nil) = computeAttestationMap(q, Nil)
      BY <1>8, <2>8
    <3> HIDE DEF p, q
    <3>2. p = q
      BY <3>1, ComputeTold
    <3> QED BY <3>2 DEF p, q
  <2> QED BY <2>7, <2>9
<1> QED BY <1>7, <1>8

-----------------------------------------------------------------------------
\* What an input says tells its payload, and the payload tells it.

SaidReferences(refs) ==
  Array([i \in DOMAIN refs |->
           referenceMap(refs[i], Nil, refs[i].CitationPurpose, refs[i].LogCoordinates)])

IsCited(refs) ==
  /\ IsSeq(refs)
  /\ \A i \in DOMAIN refs : IsReference(refs[i]) /\ Piece(refs[i].LogCoordinates)

\* The references (build.go: Build).
LEMMA ReferencesTold ==
  ASSUME NilIsNoValue, NEW d, NEW e, IsCited(d), IsCited(e)
  PROVE  /\ Whole(SaidReferences(d))
         /\ SaidReferences(d) = SaidReferences(e) => d = e
<1> DEFINE item(x) == referenceMap(x, Nil, x.CitationPurpose, x.LogCoordinates)
           D == [i \in DOMAIN d |-> item(d[i])]
           E == [i \in DOMAIN e |-> item(e[i])]
<1>1. SaidReferences(d) = Array(D) /\ SaidReferences(e) = Array(E)
  BY Zenon DEF SaidReferences
<1>2. \A x : Piece(x.LogCoordinates) => Whole(item(x))
  BY ReferenceTold
<1>3. ASSUME NEW x, NEW y, IsReference(x), IsReference(y), Piece(x.LogCoordinates),
             Piece(y.LogCoordinates), item(x) = item(y)
      PROVE  x = y
  <2>1. /\ x.Type = y.Type /\ x.DigestAlg = y.DigestAlg /\ x.Digest = y.Digest
        /\ x.CitationPurpose = y.CitationPurpose /\ x.LogCoordinates = y.LogCoordinates
    BY <1>3, ReferenceTold
  <2> QED BY <1>3, <2>1, SameStruct DEF IsReference
<1> HIDE DEF item
<1>4. /\ DOMAIN D = DOMAIN d /\ D = [i \in DOMAIN D |-> D[i]]
      /\ DOMAIN E = DOMAIN e /\ E = [i \in DOMAIN E |-> E[i]]
      /\ (\A i \in DOMAIN d : D[i] = item(d[i])) /\ (\A i \in DOMAIN e : E[i] = item(e[i]))
  OBVIOUS
<1> HIDE DEF D, E
<1>5. IsSeq(D) /\ IsSeq(E)
  BY <1>4, MapSeq DEF IsCited
<1>6. (\A i \in DOMAIN D : Whole(D[i])) /\ (\A i \in DOMAIN E : Whole(E[i]))
  BY <1>2, <1>4 DEF IsCited
<1>7. Whole(SaidReferences(d))
  BY <1>1, <1>5, <1>6, ArrayWhole
<1>8. ASSUME SaidReferences(d) = SaidReferences(e)
      PROVE  d = e
  <2>1. DOMAIN D = DOMAIN E /\ \A i \in DOMAIN D : D[i] = E[i]
    BY <1>1, <1>5, <1>6, <1>8, SameArray
  <2>2. ASSUME NEW i \in DOMAIN d
        PROVE  i \in DOMAIN e /\ d[i] = e[i]
    <3>1. i \in DOMAIN e /\ item(d[i]) = item(e[i])
      BY <1>4, <2>1
    <3> QED BY <1>3, <3>1 DEF IsCited
  <2>3. d = [i \in DOMAIN d |-> d[i]] /\ e = [i \in DOMAIN e |-> e[i]]
    BY DEF IsCited, IsSeq
  <2>4. DOMAIN d = DOMAIN e
    BY <1>4, <2>1
  <2> QED BY <2>2, <2>3, <2>4
<1> QED BY <1>7, <1>8

\* The payload's members in terms of what the input says.
SaidMembers(s) ==
  [spec_version |-> Text("-05"), format_version |-> Text("4"),
   canonicalization_id |-> Text("jcs"),
   action_id |-> Text(s.ActionID), action_type |-> Text(s.ActionType),
   operator |-> Text(s.Operator), developer |-> Text(s.Developer),
   timestamp |-> Leaf([nanos |-> s.Timestamp * 1000]),
   assurance |-> assuranceMap(s.Effect, s.Chain),
   epoch_id |-> Opt(s.EpochID, Text), domain |-> Opt(s.Domain, Text),
   provenance |-> Opt(s.Provenance, Text),
   provenance_mode |-> Opt(s.ProvenanceMode, provenanceModeMap),
   disposition |-> Opt(s.Disposition, dispositionMap),
   effect |-> Opt(s.Effect, effectMap),
   chain |-> Opt(s.Chain, chainMap),
   model_attestation |-> modelAttestationMap(s),
   references |-> Opt(s.References, SaidReferences)]

MemberNames ==
  {"spec_version", "format_version", "canonicalization_id", "action_id", "action_type",
   "operator", "developer", "timestamp", "assurance", "epoch_id", "domain", "provenance",
   "provenance_mode", "disposition", "effect", "chain", "model_attestation", "references"}

IsSaying(s) ==
  /\ IsStruct(s, InputFields)
  /\ s.compute = Nil /\ s.Timestamp \in Int
  /\ s.Disposition = Nil \/ IsDisposition(s.Disposition)
  /\ s.Effect = Nil \/ IsStruct(s.Effect, EffectFields)
  /\ s.Chain = Nil \/ IsStruct(s.Chain, ChainFields)
  /\ s.Model = Nil \/ IsModel(s.Model)
  /\ s.Compute = Nil \/ IsCompute(s.Compute)
  /\ s.ProvenanceMode = Nil \/ IsMode(s.ProvenanceMode)
  /\ s.References = Nil \/ IsCited(s.References)

\* A pointer is told by its object, nil by its absence.
LEMMA PointerTold ==
  ASSUME NilIsNoValue, NEW x, NEW y
  PROVE  /\ Piece(Opt(x, dispositionMap)) /\ Piece(Opt(x, effectMap)) /\ Piece(Opt(x, chainMap))
         /\ Piece(Opt(x, provenanceModeMap))
         /\ (x = Nil \/ IsDisposition(x)) /\ (y = Nil \/ IsDisposition(y))
              /\ Opt(x, dispositionMap) = Opt(y, dispositionMap) => x = y
         /\ (x = Nil \/ IsStruct(x, EffectFields)) /\ (y = Nil \/ IsStruct(y, EffectFields))
              /\ Opt(x, effectMap) = Opt(y, effectMap) => x = y
         /\ (x = Nil \/ IsStruct(x, ChainFields)) /\ (y = Nil \/ IsStruct(y, ChainFields))
              /\ Opt(x, chainMap) = Opt(y, chainMap) => x = y
         /\ (x = Nil \/ IsMode(x)) /\ (y = Nil \/ IsMode(y))
              /\ Opt(x, provenanceModeMap) = Opt(y, provenanceModeMap) => x = y
<1>1. \A z : Whole(z) => z # Nil
  BY DocIsNotNil DEF Whole
<1>2. /\ Opt(x, dispositionMap) = IF x = Nil THEN Nil ELSE dispositionMap(x)
      /\ Opt(y, dispositionMap) = IF y = Nil THEN Nil ELSE dispositionMap(y)
      /\ Opt(x, effectMap) = IF x = Nil THEN Nil ELSE effectMap(x)
      /\ Opt(y, effectMap) = IF y = Nil THEN Nil ELSE effectMap(y)
      /\ Opt(x, chainMap) = IF x = Nil THEN Nil ELSE chainMap(x)
      /\ Opt(y, chainMap) = IF y = Nil THEN Nil ELSE chainMap(y)
      /\ Opt(x, provenanceModeMap) = IF x = Nil THEN Nil ELSE provenanceModeMap(x)
      /\ Opt(y, provenanceModeMap) = IF y = Nil THEN Nil ELSE provenanceModeMap(y)
  BY Zenon DEF Opt
<1>3. /\ Whole(dispositionMap(x)) /\ Whole(effectMap(x)) /\ Whole(chainMap(x))
      /\ Whole(provenanceModeMap(x))
      /\ Whole(dispositionMap(y)) /\ Whole(effectMap(y)) /\ Whole(chainMap(y))
      /\ Whole(provenanceModeMap(y))
  BY DispositionTold, EffectTold, ChainTold, ModeTold
<1>4. /\ Piece(Opt(x, dispositionMap)) /\ Piece(Opt(x, effectMap)) /\ Piece(Opt(x, chainMap))
      /\ Piece(Opt(x, provenanceModeMap))
  BY <1>2, <1>3 DEF Piece
<1>5. (x = Nil \/ IsDisposition(x)) /\ (y = Nil \/ IsDisposition(y))
        /\ Opt(x, dispositionMap) = Opt(y, dispositionMap) => x = y
  BY <1>1, <1>2, <1>3, DispositionTold
<1>6. (x = Nil \/ IsStruct(x, EffectFields)) /\ (y = Nil \/ IsStruct(y, EffectFields))
        /\ Opt(x, effectMap) = Opt(y, effectMap) => x = y
  BY <1>1, <1>2, <1>3, EffectTold
<1>7. (x = Nil \/ IsStruct(x, ChainFields)) /\ (y = Nil \/ IsStruct(y, ChainFields))
        /\ Opt(x, chainMap) = Opt(y, chainMap) => x = y
  BY <1>1, <1>2, <1>3, ChainTold
<1>8. (x = Nil \/ IsMode(x)) /\ (y = Nil \/ IsMode(y))
        /\ Opt(x, provenanceModeMap) = Opt(y, provenanceModeMap) => x = y
  BY <1>1, <1>2, <1>3, ModeTold
<1> QED BY <1>4, <1>5, <1>6, <1>7, <1>8

\* What each member of the payload is: the texts, and the objects and lists.
TextsSaid(s, m) ==
  /\ m["spec_version"] = Text("-05") /\ m["format_version"] = Text("4")
  /\ m["canonicalization_id"] = Text("jcs") /\ m["action_id"] = Text(s.ActionID)
  /\ m["action_type"] = Text(s.ActionType) /\ m["operator"] = Text(s.Operator)
  /\ m["developer"] = Text(s.Developer)
  /\ m["epoch_id"] = Opt(s.EpochID, Text) /\ m["domain"] = Opt(s.Domain, Text)
  /\ m["provenance"] = Opt(s.Provenance, Text)

PartsSaid(s, m) ==
  /\ m["timestamp"] = Leaf([nanos |-> s.Timestamp * 1000])
  /\ m["assurance"] = assuranceMap(s.Effect, s.Chain)
  /\ m["provenance_mode"] = Opt(s.ProvenanceMode, provenanceModeMap)
  /\ m["disposition"] = Opt(s.Disposition, dispositionMap)
  /\ m["effect"] = Opt(s.Effect, effectMap)
  /\ m["chain"] = Opt(s.Chain, chainMap)
  /\ m["model_attestation"] = modelAttestationMap(s)
  /\ m["references"] = Opt(s.References, SaidReferences)

\* The members are those.
LEMMA SaidMembersAre ==
  ASSUME NEW s
  PROVE  /\ DOMAIN SaidMembers(s) = MemberNames
         /\ TextsSaid(s, SaidMembers(s)) /\ PartsSaid(s, SaidMembers(s))
<1> DEFINE a == Leaf([nanos |-> s.Timestamp * 1000])
           b == assuranceMap(s.Effect, s.Chain)
           c == Opt(s.ProvenanceMode, provenanceModeMap)
           d == Opt(s.Disposition, dispositionMap)
           e == Opt(s.Effect, effectMap)
           f == Opt(s.Chain, chainMap)
           g == modelAttestationMap(s)
           h == Opt(s.References, SaidReferences)
           m == [spec_version |-> Text("-05"), format_version |-> Text("4"),
                 canonicalization_id |-> Text("jcs"),
                 action_id |-> Text(s.ActionID), action_type |-> Text(s.ActionType),
                 operator |-> Text(s.Operator), developer |-> Text(s.Developer),
                 timestamp |-> a, assurance |-> b,
                 epoch_id |-> Opt(s.EpochID, Text), domain |-> Opt(s.Domain, Text),
                 provenance |-> Opt(s.Provenance, Text),
                 provenance_mode |-> c, disposition |-> d, effect |-> e, chain |-> f,
                 model_attestation |-> g, references |-> h]
<1>1. SaidMembers(s) = m
  BY Zenon DEF SaidMembers
<1> HIDE DEF a, b, c, d, e, f, g, h
<1>2. DOMAIN m = MemberNames
  BY DEF MemberNames
<1>3. /\ m["spec_version"] = Text("-05") /\ m["format_version"] = Text("4")
      /\ m["canonicalization_id"] = Text("jcs") /\ m["action_id"] = Text(s.ActionID)
      /\ m["action_type"] = Text(s.ActionType) /\ m["operator"] = Text(s.Operator)
      /\ m["developer"] = Text(s.Developer) /\ m["timestamp"] = a /\ m["assurance"] = b
      /\ m["epoch_id"] = Opt(s.EpochID, Text) /\ m["domain"] = Opt(s.Domain, Text)
      /\ m["provenance"] = Opt(s.Provenance, Text)
      /\ m["provenance_mode"] = c /\ m["disposition"] = d /\ m["effect"] = e /\ m["chain"] = f
      /\ m["model_attestation"] = g /\ m["references"] = h
  OBVIOUS
<1> HIDE DEF m
<1>4. TextsSaid(s, m)
  BY <1>3, Zenon DEF TextsSaid
<1>5. PartsSaid(s, m)
  BY <1>3, Zenon DEF PartsSaid, a, b, c, d, e, f, g, h
<1> QED BY <1>1, <1>2, <1>4, <1>5

\* The assurance member is a document with a leaf.
LEMMA AssuranceWhole ==
  ASSUME NilIsNoValue, NEW e, NEW c
  PROVE  Whole(assuranceMap(e, c))
<1> DEFINE m == [effect_mode |-> Text(effectMode(e)),
                 attestation_mode |-> Text("self_attested"),
                 ledger_mode |-> Text(IF c = Nil THEN "standalone" ELSE "chained")]
<1>0. \A x : Piece(Text(x))
  BY SameLeaf DEF Piece
<1>1. \A k \in DOMAIN m : Piece(m[k])
  BY <1>0
<1> HIDE DEF m
<1>2. Whole(Object(m))
  BY <1>1, ObjectWhole
<1> QED BY <1>2, Zenon DEF assuranceMap, m

\* The instant.
LEMMA InstantTold ==
  ASSUME NilIsNoValue, NEW i, NEW j
  PROVE  /\ Whole(Leaf([nanos |-> i * 1000]))
         /\ i \in Int /\ j \in Int /\ Leaf([nanos |-> i * 1000]) = Leaf([nanos |-> j * 1000]) => i = j
<1>1. \A n : Doc(Leaf([nanos |-> n])) /\ DOMAIN Leaf([nanos |-> n]) = {<<>>}
  BY LeavesAreDocs DEF Leaf
<1>2. \A n, o : [nanos |-> n] = [nanos |-> o] => n = o
  <2>1. \A n : [nanos |-> n].nanos = n
    OBVIOUS
  <2> QED BY <2>1, Zenon
<1>3. \A n, o : Leaf([nanos |-> n]) = Leaf([nanos |-> o]) => n = o
  BY <1>2, SameLeaf, Zenon
<1>4. i \in Int /\ j \in Int /\ Leaf([nanos |-> i * 1000]) = Leaf([nanos |-> j * 1000]) => i = j
  <2>1. SUFFICES ASSUME i \in Int, j \in Int, Leaf([nanos |-> i * 1000]) = Leaf([nanos |-> j * 1000])
                 PROVE  i = j
    OBVIOUS
  <2> DEFINE a == i * 1000
             b == j * 1000
  <2>2. Leaf([nanos |-> a]) = Leaf([nanos |-> b])
    BY <2>1
  <2> HIDE DEF a, b
  <2>3. a = b
    BY <1>3, <2>2, Zenon
  <2> QED BY <2>1, <2>3 DEF a, b
<1>5. \A n : Whole(Leaf([nanos |-> n]))
  BY <1>1 DEF Whole
<1> QED BY <1>4, <1>5

\* All the members are parts, and there are some.
LEMMA SaidMembersPieces ==
  ASSUME NilIsNoValue, NEW s, IsSaying(s)
  PROVE  /\ \A k \in DOMAIN SaidMembers(s) : Piece(SaidMembers(s)[k])
         /\ \E k \in DOMAIN SaidMembers(s) : SaidMembers(s)[k] # Nil
<1> DEFINE m == SaidMembers(s)
<1>8. DOMAIN m = MemberNames
  BY SaidMembersAre, Zenon
<1>9. TextsSaid(s, m) /\ PartsSaid(s, m)
  BY SaidMembersAre, Zenon
<1> HIDE DEF m
<1>1. \A x : Piece(Text(x)) /\ Piece(Opt(x, Text)) /\ Text(x) # Nil
  BY SameLeaf DEF Piece
<1>2. /\ Piece(Leaf([nanos |-> s.Timestamp * 1000]))
      /\ Piece(assuranceMap(s.Effect, s.Chain))
  <2>1. Whole(Leaf([nanos |-> s.Timestamp * 1000]))
    <3> DEFINE i == s.Timestamp
    <3> HIDE DEF i
    <3>1. Whole(Leaf([nanos |-> i * 1000]))
      BY InstantTold
    <3> QED BY <3>1 DEF i
  <2>2. Whole(assuranceMap(s.Effect, s.Chain))
    BY AssuranceWhole, Zenon
  <2> QED BY <2>1, <2>2, ZenonT(60) DEF Piece
<1>3. /\ Piece(Opt(s.ProvenanceMode, provenanceModeMap)) /\ Piece(Opt(s.Disposition, dispositionMap))
      /\ Piece(Opt(s.Effect, effectMap)) /\ Piece(Opt(s.Chain, chainMap))
  BY PointerTold
<1>4. Piece(modelAttestationMap(s))
  BY ModelTold DEF IsSaying
<1>5. Piece(Opt(s.References, SaidReferences))
  BY ReferencesTold DEF IsSaying, Opt, Piece
<1>6. \A k \in MemberNames : Piece(m[k])
  <2> SUFFICES ASSUME NEW k \in MemberNames PROVE Piece(m[k])
    OBVIOUS
  <2>1. CASE k \in {"spec_version", "format_version", "canonicalization_id", "action_id",
                    "action_type", "operator", "developer", "epoch_id", "domain", "provenance"}
    BY <1>1, <1>9, <2>1 DEF TextsSaid
  <2>2. CASE k \in {"timestamp", "assurance", "provenance_mode", "disposition", "effect", "chain",
                    "model_attestation", "references"}
    BY <1>2, <1>3, <1>4, <1>5, <1>9, <2>2 DEF PartsSaid
  <2> QED BY <2>1, <2>2 DEF MemberNames
<1>7. "operator" \in DOMAIN m /\ m["operator"] # Nil
  BY <1>1, <1>8, <1>9 DEF MemberNames, TextsSaid
<1> QED BY <1>6, <1>7, <1>8 DEF m

\* All fields but the extensions are told by the members.
LEMMA SayingTold ==
  ASSUME NilIsNoValue, NEW s, NEW t, IsSaying(s), IsSaying(t),
         \A k \in MemberNames : SaidMembers(s)[k] = SaidMembers(t)[k]
  PROVE  \A f \in InputFields \ {"Extensions"} : s[f] = t[f]
<1> DEFINE m == SaidMembers(s)
           n == SaidMembers(t)
<1>12. TextsSaid(s, m) /\ PartsSaid(s, m) /\ TextsSaid(t, n) /\ PartsSaid(t, n)
  BY SaidMembersAre, Zenon
<1>16. \A k \in MemberNames : m[k] = n[k]
  OBVIOUS
<1> HIDE DEF m, n
<1>1. /\ Text(s.ActionID) = Text(t.ActionID) /\ Text(s.ActionType) = Text(t.ActionType)
      /\ Text(s.Operator) = Text(t.Operator) /\ Text(s.Developer) = Text(t.Developer)
      /\ Opt(s.EpochID, Text) = Opt(t.EpochID, Text) /\ Opt(s.Domain, Text) = Opt(t.Domain, Text)
      /\ Opt(s.Provenance, Text) = Opt(t.Provenance, Text)
  BY <1>12, <1>16 DEF MemberNames, TextsSaid
<1>2. /\ Leaf([nanos |-> s.Timestamp * 1000]) = Leaf([nanos |-> t.Timestamp * 1000])
      /\ Opt(s.ProvenanceMode, provenanceModeMap) = Opt(t.ProvenanceMode, provenanceModeMap)
      /\ Opt(s.Disposition, dispositionMap) = Opt(t.Disposition, dispositionMap)
      /\ Opt(s.Effect, effectMap) = Opt(t.Effect, effectMap)
      /\ Opt(s.Chain, chainMap) = Opt(t.Chain, chainMap)
      /\ modelAttestationMap(s) = modelAttestationMap(t)
      /\ Opt(s.References, SaidReferences) = Opt(t.References, SaidReferences)
  BY <1>12, <1>16 DEF MemberNames, PartsSaid
<1>3. /\ s.ActionID = t.ActionID /\ s.ActionType = t.ActionType
      /\ s.Operator = t.Operator /\ s.Developer = t.Developer
      /\ s.EpochID = t.EpochID /\ s.Domain = t.Domain /\ s.Provenance = t.Provenance
  BY <1>1, SameLeaf
<1>4. s.Timestamp = t.Timestamp
  BY <1>2, InstantTold DEF IsSaying
<1>5. s.ProvenanceMode = t.ProvenanceMode
  BY <1>2, PointerTold, ZenonT(60) DEF IsSaying
<1>6. s.Disposition = t.Disposition
  BY <1>2, PointerTold, ZenonT(60) DEF IsSaying
<1>7. s.Effect = t.Effect
  BY <1>2, PointerTold, ZenonT(60) DEF IsSaying
<1>8. s.Chain = t.Chain
  BY <1>2, PointerTold, ZenonT(60) DEF IsSaying
<1>9. s.Model = t.Model /\ s.Compute = t.Compute
  BY <1>2, ModelTold, ZenonT(60) DEF IsSaying
<1>10. s.References = t.References
  <2> DEFINE x == s.References
             y == t.References
  <2>1. (x = Nil \/ IsCited(x)) /\ (y = Nil \/ IsCited(y))
    BY DEF IsSaying
  <2>2. Opt(x, SaidReferences) = Opt(y, SaidReferences)
    BY <1>2
  <2> HIDE DEF x, y
  <2>3. \A z : Opt(z, SaidReferences) = IF z = Nil THEN Nil ELSE SaidReferences(z)
    BY Zenon DEF Opt
  <2>4. \A z : IsCited(z) => SaidReferences(z) # Nil
    BY ReferencesTold, DocIsNotNil DEF Whole
  <2>5. (x = Nil <=> y = Nil) /\ (x # Nil => SaidReferences(x) = SaidReferences(y))
    BY <2>1, <2>2, <2>3, <2>4
  <2>6. CASE IsCited(x) /\ IsCited(y) /\ x # Nil
    <3>1. x = y
      BY <2>5, <2>6, ReferencesTold
    <3> QED BY <3>1 DEF x, y
  <2> QED BY <2>1, <2>5, <2>6 DEF x, y
<1>11. s.compute = t.compute
  BY DEF IsSaying
<1> SUFFICES ASSUME NEW f \in InputFields \ {"Extensions"} PROVE s[f] = t[f]
  OBVIOUS
<1> QED BY <1>3, <1>4, <1>5, <1>6, <1>7, <1>8, <1>9, <1>10, <1>11 DEF InputFields

-----------------------------------------------------------------------------
\* What the caller's JSON comes to.

\* A text that is one JSON value has a leaf.
LEMMA DescentLeaves ==
  ASSUME NEW s, TokenText(s), Descent(s).status = "value"
  PROVE  DOMAIN Descent(s).doc # {}
<1> DEFINE lv == Levels(s)
           n == Len(s)
           d == Descent(s)
<1>1. n \in Nat
  BY StackOps DEF TokenText
<1>2. Reads(s, n, d)
  BY DescentReads, Zenon
<1> HIDE DEF d
<1>3. d # Refused
  <2>1. Refused.status # "value"
    BY DEF Refused
  <2> QED BY <2>1, Zenon DEF d
<1>4. ReadSoFar(s, lv, n, d)
  BY <1>2, <1>3, Zenon DEF Reads
<1>5. PICK op, doc, stack :
        /\ ReadWith(s, lv, n, op, doc, stack)
        /\ d = [status |-> IF n = 0 \/ lv[n + 1] > 0 THEN "more" ELSE "value",
                doc |-> doc, stack |-> stack]
  BY <1>4, Zenon DEF ReadSoFar
<1>6. lv[n + 1] \in Nat /\ (n > 0 /\ lv[n + 1] = 0 => DOMAIN doc # {})
  BY <1>5, Zenon DEF ReadWith, Placed
<1> HIDE DEF lv, n
<1>7. d.doc = doc /\ d.status = IF n = 0 \/ lv[n + 1] > 0 THEN "more" ELSE "value"
  BY <1>5
<1>8. d.status = "value"
  BY Zenon DEF d
<1>9. ~ (n = 0 \/ lv[n + 1] > 0)
  BY <1>7, <1>8
<1>10. DOMAIN d.doc # {}
  BY <1>1, <1>6, <1>7, <1>9
<1> QED BY <1>10, Zenon DEF d

\* What a text decodes to is what it means (build.go:508-527).
LEMMA DecodedMeans ==
  ASSUME NEW s, TokenText(s), decodeStrictJSON(s) # Nil
  PROVE  decodeStrictJSON(s) = Meaning(s) /\ Whole(Meaning(s))
<1> DEFINE d == Descent(s)
<1>1. decodeStrictJSON(s) = IF ValidUtf8(s) THEN IF d.status = "value" THEN d.doc ELSE Nil ELSE Nil
  BY Zenon DEF decodeStrictJSON, Decoded
<1>2. d.status = "value" /\ decodeStrictJSON(s) = d.doc
  BY <1>1
<1>3. d.doc = Meaning(s)
  BY <1>2, DescentIs
<1>4. DOMAIN d.doc # {}
  BY <1>2, DescentLeaves
<1>5. Doc(decodeStrictJSON(s))
  BY DecodedIsDoc DEF TokenText
<1> QED BY <1>2, <1>3, <1>4, <1>5 DEF Whole

\* What an input that Build accepts must have in it.
LEMMA AcceptedParts ==
  ASSUME NEW in, IsWritten(in, {}), validateInput(in)
  PROVE  /\ in.Timestamp # Nil /\ in.Timestamp.nanos \in Int
         /\ in.Model = Nil \/ IsModel(in.Model)
         /\ in.Compute = Nil \/ IsCompute(in.Compute)
         /\ in.ProvenanceMode = Nil \/ IsMode(in.ProvenanceMode)
<1>1. /\ in.Timestamp # Nil /\ validAttestation(in.Model, in.Compute)
      /\ in.ProvenanceMode # Nil => validProvenanceMode(in.ProvenanceMode)
  BY Zenon DEF validateInput
<1>2. /\ in.Timestamp # Nil => in.Timestamp.nanos \in Int
      /\ in.Model = Nil \/ IsStruct(in.Model, {"Provider", "ModelID"})
      /\ in.Compute = Nil
           \/ IsStruct(in.Compute, {"AgentInputDigest", "AgentOutputDigest", "Runtime"})
      /\ in.ProvenanceMode # Nil => IsProvenanceMode(in.ProvenanceMode)
  BY Zenon DEF IsWritten, IsPointer
<1>3. in.Model # Nil => in.Model.Provider # Nil \/ in.Model.ModelID # Nil
  BY <1>1, Zenon DEF validAttestation, IsBlank
<1>4. in.Compute # Nil => \/ in.Compute.AgentInputDigest # Nil \/ in.Compute.AgentOutputDigest # Nil
                          \/ in.Compute.Runtime # Nil
  BY <1>1, Zenon DEF validAttestation, hasComputeAttestation, hasAuthoredDigests
<1>5. in.ProvenanceMode = Nil \/ IsMode(in.ProvenanceMode)
  <2> DEFINE m == in.ProvenanceMode
  <2> SUFFICES ASSUME m # Nil PROVE IsMode(m)
    OBVIOUS
  <2>1. validProvenanceMode(m) /\ IsProvenanceMode(m)
    BY <1>1, <1>2
  <2> HIDE DEF m
  <2>2. m.SourceRef # Nil => m.SourceRef.CitationPurpose = Nil /\ m.SourceRef.LogCoordinates = Nil
    BY <2>1, Zenon DEF validProvenanceMode
  <2>3. m.SourceRef = Nil \/ IsReference(m.SourceRef)
    BY <2>1, Zenon DEF IsProvenanceMode
  <2> QED BY <2>1, <2>2, <2>3, Zenon DEF IsMode, IsSource
<1> QED BY <1>1, <1>2, <1>3, <1>4, <1>5 DEF IsModel, IsCompute

\* The references as they are said.
CitedAs(refs) ==
  LET coordinates(x) == IF x = Nil THEN Nil ELSE Meaning(x)
  IN  IF refs = Nil THEN Nil
      ELSE [i \in DOMAIN refs |-> [refs[i] EXCEPT !.LogCoordinates = coordinates(@)]]

\* The extensions as they are said.
SaidExtensions(exts) ==
  {[name |-> exts[i].Name, value |-> Meaning(exts[i].Value)] : i \in DOMAIN exts}

\* The references of an input that Build accepts.
LEMMA CitedTold ==
  ASSUME NilIsNoValue, NEW refs, refs # Nil, IsSeq(refs), coordinatesOk(refs),
         \A i \in DOMAIN refs :
           /\ IsReference(refs[i])
           /\ refs[i].LogCoordinates = Nil \/ TokenText(refs[i].LogCoordinates)
  PROVE  IsCited(CitedAs(refs)) /\ CitedAs(refs) # Nil
         /\ referencesMap(refs) = SaidReferences(CitedAs(refs))
<1> DEFINE coordinates(x) == IF x = Nil THEN Nil ELSE Meaning(x)
           entry(i) == [refs[i] EXCEPT !.LogCoordinates = coordinates(@)]
           s == [i \in DOMAIN refs |-> entry(i)]
<1>1. CitedAs(refs) = s
  BY Zenon DEF CitedAs
<1>2. \A i \in DOMAIN refs : refs[i].LogCoordinates # Nil
        => decodeStrictJSON(refs[i].LogCoordinates) # Nil
  BY Zenon DEF coordinatesOk, marshalDigestValue
<1>3. ASSUME NEW i \in DOMAIN refs
      PROVE  /\ Piece(coordinates(refs[i].LogCoordinates))
             /\ Opt(refs[i].LogCoordinates, marshalDigestValue) = coordinates(refs[i].LogCoordinates)
  <2> DEFINE x == refs[i].LogCoordinates
  <2>1. (x = Nil \/ TokenText(x)) /\ (x # Nil => decodeStrictJSON(x) # Nil)
    BY <1>2
  <2> HIDE DEF x
  <2>2. x # Nil => decodeStrictJSON(x) = Meaning(x) /\ Whole(Meaning(x))
    BY <2>1, DecodedMeans
  <2>3. Opt(x, marshalDigestValue) = IF x = Nil THEN Nil ELSE decodeStrictJSON(x)
    BY Zenon DEF Opt, marshalDigestValue
  <2>4. Piece(coordinates(x)) /\ Opt(x, marshalDigestValue) = coordinates(x)
    BY <2>2, <2>3 DEF Piece
  <2> QED BY <2>4 DEF x
<1> HIDE DEF coordinates
<1>4. ASSUME NEW i \in DOMAIN refs
      PROVE  /\ IsReference(entry(i))
             /\ entry(i).Type = refs[i].Type /\ entry(i).DigestAlg = refs[i].DigestAlg
             /\ entry(i).Digest = refs[i].Digest
             /\ entry(i).CitationPurpose = refs[i].CitationPurpose
             /\ entry(i).LogCoordinates = coordinates(refs[i].LogCoordinates)
  <2> DEFINE r == refs[i]
             c == coordinates(r.LogCoordinates)
             e == [r EXCEPT !.LogCoordinates = c]
  <2>1. IsReference(r)
    OBVIOUS
  <2>2. entry(i) = e
    OBVIOUS
  <2> HIDE DEF r, c
  <2>3. DOMAIN r = {"Type", "DigestAlg", "Digest", "CitationPurpose", "LogCoordinates"}
    BY <2>1 DEF IsReference, IsStruct
  <2>4. /\ IsReference(e) /\ e.Type = r.Type /\ e.DigestAlg = r.DigestAlg /\ e.Digest = r.Digest
        /\ e.CitationPurpose = r.CitationPurpose /\ e.LogCoordinates = c
    BY <2>3 DEF IsReference, IsStruct
  <2> HIDE DEF e
  <2> QED BY <2>2, <2>4 DEF r, c
<1> HIDE DEF entry
<1>5. DOMAIN s = DOMAIN refs /\ s = [i \in DOMAIN s |-> s[i]] /\ \A i \in DOMAIN refs : s[i] = entry(i)
  OBVIOUS
<1> HIDE DEF s
<1>6. IsSeq(s)
  BY <1>5, MapSeq
<1>7. IsCited(s)
  BY <1>3, <1>4, <1>5, <1>6 DEF IsCited
<1>8. s # Nil
  BY <1>5 DEF NilIsNoValue
<1>9. referencesMap(refs) = SaidReferences(s)
  <2> DEFINE a == [i \in DOMAIN refs |->
                     referenceMap(refs[i], Nil, refs[i].CitationPurpose,
                                  Opt(refs[i].LogCoordinates, marshalDigestValue))]
             b == [i \in DOMAIN s |->
                     referenceMap(s[i], Nil, s[i].CitationPurpose, s[i].LogCoordinates)]
  <2>1. referencesMap(refs) = Array(a) /\ SaidReferences(s) = Array(b)
    BY Zenon DEF referencesMap, SaidReferences
  <2>2. ASSUME NEW i \in DOMAIN refs
        PROVE  referenceMap(refs[i], Nil, refs[i].CitationPurpose,
                            Opt(refs[i].LogCoordinates, marshalDigestValue))
                 = referenceMap(s[i], Nil, s[i].CitationPurpose, s[i].LogCoordinates)
    <3>1. \A x, y, p, c : x.Type = y.Type /\ x.DigestAlg = y.DigestAlg /\ x.Digest = y.Digest
            => referenceMap(x, Nil, p, c) = referenceMap(y, Nil, p, c)
      BY Zenon DEF referenceMap
    <3>2. /\ s[i].Type = refs[i].Type /\ s[i].DigestAlg = refs[i].DigestAlg
          /\ s[i].Digest = refs[i].Digest /\ s[i].CitationPurpose = refs[i].CitationPurpose
          /\ s[i].LogCoordinates = Opt(refs[i].LogCoordinates, marshalDigestValue)
      BY <1>3, <1>4, <1>5
    <3> QED BY <3>1, <3>2
  <2>3. a = b
    BY <1>5, <2>2
  <2> QED BY <2>1, <2>3
<1> QED BY <1>1, <1>7, <1>8, <1>9

\* An input with its texts, of a caller.
Accepted(in) == TextsOK(in) /\ IsWritten(in, {}) /\ Build(in) # Nil

\* What Build accepts is a saying, and its members are made of it.
LEMMA SaysIs ==
  ASSUME NilIsNoValue, NEW in, Accepted(in)
  PROVE  /\ IsSaying(Says(in))
         /\ Members(in) = SaidMembers(Says(in))
         /\ Says(in).Extensions = SaidExtensions(in.Extensions)
<1> DEFINE stamp == in.Timestamp.nanos \div 1000
           exts == SaidExtensions(in.Extensions)
           cited == CitedAs(in.References)
           s == [in EXCEPT !.Timestamp = stamp, !.Extensions = exts, !.References = cited]
<1>1. validateInput(in) /\ coordinatesOk(in.References)
  BY Zenon DEF Accepted, Build
<1>2. Says(in) = s
  BY Zenon DEF Says, CitedAs, SaidExtensions
<1>3. /\ in.Timestamp # Nil /\ in.Timestamp.nanos \in Int
      /\ in.Model = Nil \/ IsModel(in.Model)
      /\ in.Compute = Nil \/ IsCompute(in.Compute)
      /\ in.ProvenanceMode = Nil \/ IsMode(in.ProvenanceMode)
  BY <1>1, AcceptedParts DEF Accepted
<1>4. /\ IsStruct(in, InputFields) /\ in.compute = Nil
      /\ in.Disposition = Nil \/ IsDisposition(in.Disposition)
      /\ in.Effect = Nil \/ IsStruct(in.Effect, EffectFields)
      /\ in.Chain = Nil \/ IsStruct(in.Chain, ChainFields)
  BY Zenon DEF Accepted, IsWritten, IsPointer, EffectFields, ChainFields
<1>5. stamp \in Int
  BY <1>3
<1>6. IF in.References = Nil THEN cited = Nil
      ELSE /\ IsCited(cited) /\ cited # Nil
           /\ referencesMap(in.References) = SaidReferences(cited)
  <2> DEFINE refs == in.References
  <2>1. CASE refs = Nil
    BY <2>1, Zenon DEF CitedAs
  <2>2. CASE refs # Nil
    <3>1. IsSeq(refs) /\ \A i \in DOMAIN refs : refs[i].LogCoordinates = Nil \/ IsSeq(refs[i].LogCoordinates)
      BY <2>2, Zenon DEF Accepted, TextsOK
    <3>2. \A i \in DOMAIN refs : IsReference(refs[i]) /\ IsJSON(refs[i].LogCoordinates, {} \cup {Nil})
      BY <2>2, Zenon DEF Accepted, IsWritten
    <3>3. \A x : IsJSON(x, {} \cup {Nil}) /\ (x = Nil \/ IsSeq(x)) => x = Nil \/ TokenText(x)
      BY DEF IsJSON, TokenText
    <3>4. coordinatesOk(refs)
      BY <1>1
    <3> HIDE DEF refs
    <3>5. \A i \in DOMAIN refs : /\ IsReference(refs[i])
                                 /\ refs[i].LogCoordinates = Nil \/ TokenText(refs[i].LogCoordinates)
      BY <3>1, <3>2, <3>3, Zenon
    <3>6. /\ IsCited(CitedAs(refs)) /\ CitedAs(refs) # Nil
          /\ referencesMap(refs) = SaidReferences(CitedAs(refs))
      BY <2>2, <3>1, <3>4, <3>5, CitedTold
    <3> QED BY <2>2, <3>6 DEF refs
  <2> QED BY <2>1, <2>2
<1> HIDE DEF stamp, exts, cited
<1>7. DOMAIN in = InputFields
  BY <1>4 DEF IsStruct
<1>8. /\ DOMAIN s = InputFields /\ s = [f \in InputFields |-> s[f]]
      /\ s.Timestamp = stamp /\ s.Extensions = exts /\ s.References = cited
      /\ \A f \in InputFields \ {"Timestamp", "Extensions", "References"} : s[f] = in[f]
  BY <1>7 DEF InputFields
<1> HIDE DEF s
<1>9. /\ s.ActionID = in.ActionID /\ s.ActionType = in.ActionType /\ s.Operator = in.Operator
      /\ s.Developer = in.Developer /\ s.EpochID = in.EpochID /\ s.Domain = in.Domain
      /\ s.Provenance = in.Provenance
  BY <1>8 DEF InputFields
<1>10. /\ s.Disposition = in.Disposition /\ s.Effect = in.Effect /\ s.Chain = in.Chain
       /\ s.Model = in.Model /\ s.Compute = in.Compute /\ s.compute = in.compute
       /\ s.ProvenanceMode = in.ProvenanceMode
  BY <1>8 DEF InputFields
<1>11. IsStruct(s, InputFields)
  BY <1>8 DEF IsStruct
<1>12. IsSaying(s)
  BY <1>3, <1>4, <1>5, <1>6, <1>8, <1>10, <1>11 DEF IsSaying
<1>13. Members(in) = SaidMembers(s)
  <2>1. Leaf(formatTimestamp(in.Timestamp)) = Leaf([nanos |-> s.Timestamp * 1000])
    <3>1. formatTimestamp(in.Timestamp) = [nanos |-> stamp * 1000]
      BY Zenon DEF formatTimestamp, stamp
    <3> QED BY <1>8, <3>1
  <2>2. modelAttestationMap(in) = modelAttestationMap(s)
    BY <1>10, Zenon DEF modelAttestationMap
  <2>3. Opt(in.References, referencesMap) = Opt(s.References, SaidReferences)
    <3>1. Opt(in.References, referencesMap) = IF in.References = Nil THEN Nil ELSE referencesMap(in.References)
      BY Zenon DEF Opt
    <3>2. Opt(cited, SaidReferences) = IF cited = Nil THEN Nil ELSE SaidReferences(cited)
      BY Zenon DEF Opt
    <3> QED BY <1>6, <1>8, <3>1, <3>2
  <2> QED BY <1>9, <1>10, <2>1, <2>2, <2>3, ZenonT(60) DEF Members, SaidMembers
<1> QED BY <1>2, <1>8, <1>12, <1>13 DEF exts

-----------------------------------------------------------------------------
\* The payload is an object of the members and the extensions.

Carries(m, base, exts) ==
  /\ m = [k \in DOMAIN m |-> m[k]]
  /\ DOMAIN m = DOMAIN base \cup {x.name : x \in exts}
  /\ \A k \in DOMAIN base : m[k] = base[k]
  /\ \A x \in exts : x.name \notin baseMembers /\ m[x.name] = x.value /\ Whole(x.value)

\* Members of the base profile, some of them there.
BaseOK(base) ==
  /\ DOMAIN base \subseteq baseMembers \ LocalOnly
  /\ \A k \in DOMAIN base : Piece(base[k])
  /\ \E k \in DOMAIN base : base[k] # Nil

\* So it is an object of parts.
LEMMA CarriedPieces ==
  ASSUME NEW m, NEW base, NEW exts, BaseOK(base), Carries(m, base, exts)
  PROVE  (\A k \in DOMAIN m : Piece(m[k])) /\ (\E k \in DOMAIN m : m[k] # Nil)
         /\ DOMAIN m \cap LocalOnly = {}
<1>1. /\ DOMAIN m = DOMAIN base \cup {x.name : x \in exts}
      /\ \A k \in DOMAIN base : m[k] = base[k]
      /\ \A x \in exts : x.name \notin baseMembers /\ m[x.name] = x.value /\ Whole(x.value)
  BY DEF Carries
<1>2. /\ DOMAIN base \subseteq baseMembers \ LocalOnly
      /\ \A k \in DOMAIN base : Piece(base[k])
      /\ \E k \in DOMAIN base : base[k] # Nil
  BY DEF BaseOK
<1>3. \A k \in DOMAIN m : Piece(m[k])
  BY <1>1, <1>2 DEF Piece
<1>4. \E k \in DOMAIN m : m[k] # Nil
  BY <1>1, <1>2
<1>5. LocalOnly \subseteq baseMembers
  BY DEF LocalOnly, baseMembers, WrittenMembers
<1>6. DOMAIN m \cap LocalOnly = {}
  BY <1>1, <1>2, <1>5
<1> QED BY <1>3, <1>4, <1>6

\* One extension more (extension.go:28-52).
LEMMA OneMoreMember ==
  ASSUME NilIsNoValue, NEW m, NEW base, NEW exts, BaseOK(base), Carries(m, base, exts),
         NEW ext, TokenText(ext.Value),
         WithExtension(Object(m), ext.Name, extensionValue(ext, Object(m))) # Nil
  PROVE  LET x == [name |-> ext.Name, value |-> Meaning(ext.Value)]
         IN  /\ Carries(Put(m, x.name, x.value), base, exts \cup {x})
             /\ WithExtension(Object(m), ext.Name, extensionValue(ext, Object(m)))
                  = Object(Put(m, x.name, x.value))
<1> DEFINE x == [name |-> ext.Name, value |-> Meaning(ext.Value)]
           d == Object(m)
           n == ext.Name
           w == Meaning(ext.Value)
           v == extensionValue(ext, d)
<1>1. v # Nil
  BY DEF WithExtension
<1>2. extensionName(ext, d) /\ v = UsableValue(decodeStrictJSON(ext.Value))
  BY <1>1 DEF extensionValue
<1>3. v = decodeStrictJSON(ext.Value)
  BY <1>1, <1>2 DEF UsableValue
<1>4. v = w /\ Whole(w)
  BY <1>1, <1>3, DecodedMeans
<1>5. n \notin baseMembers /\ n \notin Names(d)
  BY <1>2, Zenon DEF extensionName
<1>6. WithExtension(d, n, v) = WithMember(d, n, w)
  BY <1>1, <1>4 DEF WithExtension
<1>7. /\ DOMAIN m = DOMAIN base \cup {y.name : y \in exts}
      /\ \A k \in DOMAIN base : m[k] = base[k]
      /\ \A y \in exts : y.name \notin baseMembers /\ m[y.name] = y.value /\ Whole(y.value)
  BY DEF Carries
<1>8. DOMAIN base \subseteq baseMembers
  BY DEF BaseOK
<1>9. (\A k \in DOMAIN m : Piece(m[k])) /\ (\E k \in DOMAIN m : m[k] # Nil)
  BY CarriedPieces
<1>10. n \notin DOMAIN m
  <2>1. SUFFICES ASSUME n \in DOMAIN m PROVE FALSE
    OBVIOUS
  <2>2. PICK y \in exts : y.name = n
    BY <1>5, <1>7, <1>8, <2>1
  <2>3. m[n] = y.value /\ Whole(y.value)
    BY <1>7, <2>2
  <2>4. m[n] # Nil /\ Doc(m[n]) /\ DOMAIN m[n] # {}
    BY <2>3, DocIsNotNil DEF Whole
  <2>5. PICK q \in DOMAIN m[n] : TRUE
    BY <2>4
  <2>6. IsSeq(q)
    BY <2>4 DEF Doc
  <2> DEFINE p == <<[key |-> n]>> \o q
  <2>7. p \in DOMAIN d
    BY <1>9, <2>1, <2>4, ObjectPaths
  <2>8. Head(p) = [key |-> n]
    BY <2>6, Prefixed
  <2> HIDE DEF p
  <2>9. Head(p).key = n
    BY <2>8
  <2>10. n \in Names(d)
    BY <2>7, <2>9, Zenon DEF Names
  <2> QED BY <1>5, <2>10
<1>11. w # Nil
  BY <1>4, DocIsNotNil DEF Whole
<1>12. WithMember(d, n, w) = Object(Put(m, n, w))
  BY <1>4, <1>9, <1>10, <1>11, PutMember
<1>13. x.name = n /\ x.value = w
  OBVIOUS
<1> DEFINE o == Put(m, n, w)
<1>14. /\ DOMAIN o = DOMAIN m \cup {n} /\ o[n] = w /\ o = [k \in DOMAIN o |-> o[k]]
       /\ \A k \in DOMAIN m : k # n => o[k] = m[k]
  BY DEF Put
<1> HIDE DEF o, x, n, w, v, d
<1>15. DOMAIN o = DOMAIN base \cup {y.name : y \in exts \cup {x}}
  BY <1>7, <1>13, <1>14
<1>16. \A k \in DOMAIN base : o[k] = base[k]
  BY <1>7, <1>10, <1>14
<1>17. \A y \in exts \cup {x} : y.name \notin baseMembers /\ o[y.name] = y.value /\ Whole(y.value)
  BY <1>4, <1>5, <1>7, <1>10, <1>13, <1>14
<1>18. Carries(o, base, exts \cup {x})
  BY <1>14, <1>15, <1>16, <1>17 DEF Carries
<1>19. o = Put(m, x.name, x.value)
  BY <1>13, Zenon DEF o
<1>20. WithExtension(d, n, v) = Object(Put(m, x.name, x.value))
  BY <1>6, <1>12, <1>13, Zenon
<1>21. Carries(Put(m, x.name, x.value), base, exts \cup {x})
  BY <1>18, <1>19, Zenon
<1> QED BY <1>20, <1>21, Zenon DEF x, d, n, v, w

\* All of them, by induction on their number.
LEMMA ExtensionsCarried ==
  ASSUME NilIsNoValue, NEW base, BaseOK(base), base = [k \in DOMAIN base |-> base[k]],
         NEW exts, IsSeq(exts), \A i \in DOMAIN exts : TokenText(exts[i].Value),
         withExtensions(Object(base), exts) # Nil
  PROVE  \E m : /\ Carries(m, base, SaidExtensions(exts))
                /\ withExtensions(Object(base), exts) = Object(m)
<1> DEFINE Next1(d, i) ==
             IF d = Nil THEN Nil ELSE WithExtension(d, exts[i].Name, extensionValue(exts[i], d))
           item(i) == [name |-> exts[i].Name, value |-> Meaning(exts[i].Value)]
           Upto(n) == {item(i) : i \in 1..n}
           Holds(d, n) == \E m : Carries(m, base, Upto(n)) /\ d = Object(m)
<1>1. Len(exts) \in Nat /\ DOMAIN exts = 1..Len(exts)
  BY DEF IsSeq
<1>0. PICK after :
        /\ withExtensions(Object(base), exts) = after[Len(exts)]
        /\ \A i \in 0..Len(exts) :
             after[i] = IF i = 0 THEN Object(base)
                        ELSE IF after[i - 1] = Nil THEN Nil
                        ELSE WithExtension(after[i - 1], exts[i].Name,
                                           extensionValue(exts[i], after[i - 1]))
  BY ExtensionRuns
<1>2. /\ withExtensions(Object(base), exts) = after[Len(exts)]
      /\ \A i \in 0..Len(exts) : after[i] = IF i = 0 THEN Object(base) ELSE Next1(after[i - 1], i)
  BY <1>0, Zenon
<1>3. SaidExtensions(exts) = Upto(Len(exts))
  BY <1>1, Zenon DEF SaidExtensions
<1>4. Upto(0) = {}
  OBVIOUS
<1>5. \A n \in Nat : Upto(n + 1) = Upto(n) \cup {item(n + 1)}
  <2> HIDE DEF item
  <2>1. \A n \in Nat : 1..(n + 1) = 1..n \cup {n + 1}
    OBVIOUS
  <2> QED BY <2>1
<1>6. ASSUME NEW n \in Nat, n + 1 \in DOMAIN exts, NEW d, Holds(d, n), Next1(d, n + 1) # Nil
      PROVE  Holds(Next1(d, n + 1), n + 1)
  <2>1. PICK m : Carries(m, base, Upto(n)) /\ d = Object(m)
    BY <1>6, Zenon
  <2> DEFINE ext == exts[n + 1]
             x == item(n + 1)
             E == Upto(n)
             r == WithExtension(d, ext.Name, extensionValue(ext, d))
  <2>2. Next1(d, n + 1) = r
    BY <1>6, Zenon
  <2>3. TokenText(ext.Value) /\ r # Nil
    BY <1>6, <2>2
  <2>4. x = [name |-> ext.Name, value |-> Meaning(ext.Value)]
    BY Zenon
  <2> HIDE DEF ext, x, E, item, Upto, Next1, Holds
  <2>5. /\ Carries(Put(m, x.name, x.value), base, E \cup {x})
        /\ r = Object(Put(m, x.name, x.value))
    <3>1. Carries(m, base, E)
      BY <2>1, Zenon DEF E
    <3>2. WithExtension(Object(m), ext.Name, extensionValue(ext, Object(m))) # Nil
      BY <2>1, <2>3, Zenon
    <3>3. LET y == [name |-> ext.Name, value |-> Meaning(ext.Value)]
          IN  /\ Carries(Put(m, y.name, y.value), base, E \cup {y})
              /\ WithExtension(Object(m), ext.Name, extensionValue(ext, Object(m)))
                   = Object(Put(m, y.name, y.value))
      BY <2>3, <3>1, <3>2, OneMoreMember, Zenon
    <3> QED BY <2>1, <2>4, <3>3, Zenon
  <2>6. E \cup {x} = Upto(n + 1)
    BY <1>5, Zenon DEF E, x
  <2>7. Carries(Put(m, x.name, x.value), base, Upto(n + 1))
    BY <2>5, <2>6, Zenon
  <2> QED BY <2>2, <2>5, <2>7, Zenon DEF Holds
<1>7. Holds(Object(base), 0)
  <2>1. Carries(base, base, {})
    BY DEF Carries
  <2> HIDE DEF Upto
  <2> QED BY <1>4, <2>1, Zenon
<1> HIDE DEF Holds
<1> DEFINE T == {n \in Nat : n \in 0..Len(exts) => after[n] = Nil \/ Holds(after[n], n)}
<1>8. 0 \in T
  <2>1. after[0] = Object(base)
    BY <1>1, <1>2
  <2> QED BY <1>7, <2>1
<1>9. ASSUME NEW n \in Nat, n \in T
      PROVE  n + 1 \in T
  <2>1. SUFFICES ASSUME n + 1 \in 0..Len(exts), after[n + 1] # Nil
                 PROVE  Holds(after[n + 1], n + 1)
    OBVIOUS
  <2>2. n \in 0..Len(exts) /\ n + 1 # 0 /\ (n + 1) - 1 = n /\ n + 1 \in DOMAIN exts
    BY <1>1, <2>1
  <2>3. after[n + 1] = Next1(after[n], n + 1)
    BY <1>2, <2>1, <2>2
  <2>4. after[n] # Nil
    BY <2>1, <2>3
  <2>5. Holds(after[n], n)
    BY <1>9, <2>2, <2>4
  <2> HIDE DEF Next1
  <2> QED BY <1>6, <2>1, <2>2, <2>3, <2>5
<1>10. Len(exts) \in T
  <2> HIDE DEF T
  <2> QED BY <1>1, <1>8, <1>9, Induction
<1>11. Holds(after[Len(exts)], Len(exts))
  BY <1>1, <1>2, <1>10
<1> HIDE DEF Upto
<1> QED BY <1>2, <1>3, <1>11, Zenon DEF Holds

-----------------------------------------------------------------------------
\* Two accepted inputs have one id exactly when they say the same.

\* The members of a saying are a function of their names.
LEMMA MembersFunction ==
  ASSUME NEW s
  PROVE  SaidMembers(s) = [k \in DOMAIN SaidMembers(s) |-> SaidMembers(s)[k]]
<1> DEFINE a == Leaf([nanos |-> s.Timestamp * 1000])
           b == assuranceMap(s.Effect, s.Chain)
           c == Opt(s.ProvenanceMode, provenanceModeMap)
           d == Opt(s.Disposition, dispositionMap)
           e == Opt(s.Effect, effectMap)
           f == Opt(s.Chain, chainMap)
           g == modelAttestationMap(s)
           h == Opt(s.References, SaidReferences)
           t1 == Text("-05")
           t2 == Text("4")
           t3 == Text("jcs")
           t4 == Text(s.ActionID)
           t5 == Text(s.ActionType)
           t6 == Text(s.Operator)
           t7 == Text(s.Developer)
           t8 == Opt(s.EpochID, Text)
           t9 == Opt(s.Domain, Text)
           t10 == Opt(s.Provenance, Text)
           m == [spec_version |-> t1, format_version |-> t2, canonicalization_id |-> t3,
                 action_id |-> t4, action_type |-> t5, operator |-> t6, developer |-> t7,
                 timestamp |-> a, assurance |-> b, epoch_id |-> t8, domain |-> t9,
                 provenance |-> t10, provenance_mode |-> c, disposition |-> d, effect |-> e,
                 chain |-> f, model_attestation |-> g, references |-> h]
<1>1. SaidMembers(s) = m
  BY Zenon DEF SaidMembers
<1> HIDE DEF a, b, c, d, e, f, g, h, t1, t2, t3, t4, t5, t6, t7, t8, t9, t10
<1>2. m = [k \in DOMAIN m |-> m[k]]
  OBVIOUS
<1> HIDE DEF m
<1> QED BY <1>1, <1>2, Zenon

\* The members of a saying are no local-only ones, and base ones.
LEMMA MembersBase ==
  ASSUME NilIsNoValue, NEW s, IsSaying(s)
  PROVE  BaseOK(SaidMembers(s))
<1>1. MemberNames \subseteq baseMembers \ LocalOnly
  BY DEF MemberNames, baseMembers, WrittenMembers, LocalOnly
<1>2. DOMAIN SaidMembers(s) = MemberNames
  BY SaidMembersAre, Zenon
<1>3. /\ \A k \in DOMAIN SaidMembers(s) : Piece(SaidMembers(s)[k])
      /\ \E k \in DOMAIN SaidMembers(s) : SaidMembers(s)[k] # Nil
  BY SaidMembersPieces, Zenon
<1> QED BY <1>1, <1>2, <1>3, Zenon DEF BaseOK

\* The id of an accepted input (build.go:22-113): the object that carries its
\* members and its extensions.
LEMMA PayloadIs ==
  ASSUME NilIsNoValue, NEW in, Accepted(in)
  PROVE  \E m : /\ Carries(m, SaidMembers(Says(in)), SaidExtensions(in.Extensions))
                /\ Build(in).CapsuleID = [capsule |-> Object(m)]
<1> DEFINE s == Says(in)
           base == SaidMembers(s)
           exts == in.Extensions
           payload == withExtensions(Object(base), exts)
           id == ComputeCapsuleID(payload)
           b == Identified(payload, id)
<1>1. TextsOK(in) /\ IsWritten(in, {}) /\ Build(in) # Nil
  BY DEF Accepted
<1>2. IsSaying(s) /\ Members(in) = base
  BY SaysIs, Zenon
<1>3. basePayload(in) = Object(base)
  <2>1. basePayload(in) = Object(Members(in))
    BY Zenon DEF basePayload, Members
  <2> QED BY <1>2, <2>1, Zenon
<1>4. Build(in) = Completed(payload)
  BY <1>1, <1>3, Zenon DEF Build
<1>5. Build(in) = b /\ payload # Nil
  BY <1>1, <1>4 DEF Completed, Checked
<1>6. Build(in).CapsuleID = id
  BY <1>5 DEF Identified
<1>7. IsSeq(exts) /\ \A i \in DOMAIN exts : TokenText(exts[i].Value)
  <2>1. IsSeq(exts) /\ \A i \in DOMAIN exts : IsSeq(exts[i].Value)
    BY <1>1, Zenon DEF TextsOK
  <2>2. \A i \in DOMAIN exts : IsJSON(exts[i].Value, {})
    BY <1>1, Zenon DEF IsWritten
  <2>3. \A i \in DOMAIN exts : \A j \in DOMAIN exts[i].Value : IsToken(exts[i].Value[j])
    BY <2>2 DEF IsJSON
  <2> QED BY <2>1, <2>3, Zenon DEF TokenText
<1>8. BaseOK(base)
  BY <1>2, MembersBase, Zenon
<1>9. base = [k \in DOMAIN base |-> base[k]]
  BY MembersFunction, Zenon
<1>10. \E m : Carries(m, base, SaidExtensions(exts)) /\ payload = Object(m)
  <2> HIDE DEF base
  <2> QED BY <1>5, <1>7, <1>8, <1>9, ExtensionsCarried, Zenon
<1>11. PICK m : Carries(m, base, SaidExtensions(exts)) /\ payload = Object(m)
  BY <1>10
<1> HIDE DEF base
<1>12. ComputeCapsuleID(Object(m)) = [capsule |-> Object(m)]
  <2>1. (\A k \in DOMAIN m : Piece(m[k])) /\ (\E k \in DOMAIN m : m[k] # Nil)
         /\ DOMAIN m \cap LocalOnly = {}
    BY <1>8, <1>11, CarriedPieces
  <2> QED BY <2>1, IdOfObject
<1>13. Build(in).CapsuleID = [capsule |-> Object(m)]
  BY <1>6, <1>11, <1>12, Zenon
<1> QED BY <1>11, <1>13, Zenon DEF base

\* Two objects that carry the same are the same.
LEMMA SameCarried ==
  ASSUME NEW m, NEW n, NEW base, NEW exts, Carries(m, base, exts), Carries(n, base, exts)
  PROVE  m = n
<1>1. /\ m = [k \in DOMAIN m |-> m[k]]
      /\ DOMAIN m = DOMAIN base \cup {x.name : x \in exts}
      /\ \A k \in DOMAIN base : m[k] = base[k]
      /\ \A x \in exts : m[x.name] = x.value
  BY DEF Carries
<1>2. /\ n = [k \in DOMAIN n |-> n[k]]
      /\ DOMAIN n = DOMAIN base \cup {x.name : x \in exts}
      /\ \A k \in DOMAIN base : n[k] = base[k]
      /\ \A x \in exts : n[x.name] = x.value
  BY DEF Carries
<1>3. \A k \in DOMAIN m : m[k] = n[k]
  BY <1>1, <1>2
<1>4. DOMAIN m = DOMAIN n
  BY <1>1, <1>2
<1> QED BY <1>1, <1>2, <1>3, <1>4

\* What one object carries, another equal to it carries.
LEMMA PieceCarried ==
  ASSUME NilIsNoValue, NEW m, NEW n, \A k \in DOMAIN m : Piece(m[k]),
         \A k \in DOMAIN n : Piece(n[k]), Object(m) = Object(n), NEW k \in DOMAIN m, m[k] # Nil
  PROVE  k \in DOMAIN n /\ n[k] = m[k]
<1>1. Inner(Object(m), [key |-> k]) = m[k]
  BY ObjectInner
<1>2. Inner(Object(n), [key |-> k]) = IF k \in DOMAIN n THEN n[k] ELSE Nil
  BY ObjectInner
<1> QED BY <1>1, <1>2

\* So the extensions carried over one base are told by the object.
LEMMA ExtensionsTold ==
  ASSUME NilIsNoValue, NEW m, NEW n, NEW b, NEW c, NEW E, NEW F, BaseOK(b), BaseOK(c),
         Carries(m, b, E), Carries(n, c, F), Object(m) = Object(n),
         \A x \in E \cup F : x = [name |-> x.name, value |-> x.value]
  PROVE  E \subseteq F
<1> SUFFICES ASSUME NEW x \in E
             PROVE  x \in F
  OBVIOUS
<1>1. x.name \notin baseMembers /\ m[x.name] = x.value /\ Whole(x.value) /\ x.name \in DOMAIN m
  BY DEF Carries
<1>2. m[x.name] # Nil
  BY <1>1, DocIsNotNil DEF Whole
<1>3. \A k \in DOMAIN m : Piece(m[k])
  BY CarriedPieces
<1>4. \A k \in DOMAIN n : Piece(n[k])
  BY CarriedPieces
<1>5. x.name \in DOMAIN n /\ n[x.name] = x.value
  BY <1>1, <1>2, <1>3, <1>4, PieceCarried
<1>6. /\ DOMAIN n = DOMAIN c \cup {y.name : y \in F}
      /\ \A y \in F : n[y.name] = y.value
  BY DEF Carries
<1>7. DOMAIN c \subseteq baseMembers
  BY DEF BaseOK
<1>8. PICK y \in F : y.name = x.name
  BY <1>1, <1>5, <1>6, <1>7
<1>9. y.value = x.value
  BY <1>5, <1>6, <1>8
<1>10. y = x
  <2>1. y = [name |-> y.name, value |-> y.value] /\ x = [name |-> x.name, value |-> x.value]
    OBVIOUS
  <2> QED BY <1>8, <1>9, <2>1, Zenon
<1> QED BY <1>10

\* And so are the members.
LEMMA BasesTold ==
  ASSUME NilIsNoValue, NEW m, NEW n, NEW b, NEW c, NEW E, NEW F, BaseOK(b), BaseOK(c),
         Carries(m, b, E), Carries(n, c, F), Object(m) = Object(n), DOMAIN b = DOMAIN c
  PROVE  \A k \in DOMAIN b : b[k] = c[k]
<1> SUFFICES ASSUME NEW k \in DOMAIN b
             PROVE  b[k] = c[k]
  OBVIOUS
<1>1. k \in DOMAIN m /\ m[k] = b[k] /\ k \in DOMAIN n /\ n[k] = c[k]
  BY DEF Carries
<1>2. \A l \in DOMAIN m : Piece(m[l])
  BY CarriedPieces
<1>3. \A l \in DOMAIN n : Piece(n[l])
  BY CarriedPieces
<1>4. m[k] # Nil => n[k] = m[k]
  BY <1>1, <1>2, <1>3, PieceCarried
<1>5. n[k] # Nil => m[k] = n[k]
  BY <1>1, <1>2, <1>3, PieceCarried
<1> QED BY <1>1, <1>4, <1>5

\* Two accepted inputs have one id exactly when they say the same.
LEMMA IdsAndSayings ==
  ASSUME NilIsNoValue, NEW in, NEW on, Accepted(in), Accepted(on)
  PROVE  Build(in).CapsuleID = Build(on).CapsuleID <=> Says(in) = Says(on)
<1> DEFINE s == Says(in)
           t == Says(on)
           E == SaidExtensions(in.Extensions)
           F == SaidExtensions(on.Extensions)
<1>1. IsSaying(s) /\ s.Extensions = E
  BY SaysIs, Zenon
<1>2. IsSaying(t) /\ t.Extensions = F
  BY SaysIs, Zenon
<1>3. PICK m : Carries(m, SaidMembers(s), E) /\ Build(in).CapsuleID = [capsule |-> Object(m)]
  BY PayloadIs, Zenon
<1>4. PICK n : Carries(n, SaidMembers(t), F) /\ Build(on).CapsuleID = [capsule |-> Object(n)]
  BY PayloadIs, Zenon
<1>5. BaseOK(SaidMembers(s)) /\ BaseOK(SaidMembers(t))
  BY <1>1, <1>2, MembersBase, Zenon
<1>6. ASSUME s = t
      PROVE  Build(in).CapsuleID = Build(on).CapsuleID
  <2>1. Carries(n, SaidMembers(s), E)
    BY <1>1, <1>2, <1>4, <1>6, Zenon
  <2>2. m = n
    BY <1>3, <2>1, SameCarried, Zenon
  <2> QED BY <1>3, <1>4, <2>2, Zenon
<1>7. ASSUME Build(in).CapsuleID = Build(on).CapsuleID
      PROVE  s = t
  <2>1. Object(m) = Object(n)
    <3>1. \A x : [capsule |-> x].capsule = x
      OBVIOUS
    <3>2. [capsule |-> Object(m)] = [capsule |-> Object(n)]
      BY <1>3, <1>4, <1>7, Zenon
    <3> QED BY <3>1, <3>2, Zenon
  <2>2. DOMAIN SaidMembers(s) = MemberNames /\ DOMAIN SaidMembers(t) = MemberNames
    BY SaidMembersAre, Zenon
  <2>3. \A k \in MemberNames : SaidMembers(s)[k] = SaidMembers(t)[k]
    <3> DEFINE b == SaidMembers(s)
               c == SaidMembers(t)
    <3>1. BaseOK(b) /\ BaseOK(c) /\ Carries(m, b, E) /\ Carries(n, c, F)
          /\ DOMAIN b = MemberNames /\ DOMAIN c = MemberNames
      BY <1>3, <1>4, <1>5, <2>2, Zenon
    <3> HIDE DEF b, c, E, F
    <3>2. \A k \in DOMAIN b : b[k] = c[k]
      BY <2>1, <3>1, BasesTold
    <3> QED BY <3>1, <3>2, Zenon DEF b, c
  <2>4. \A f \in InputFields \ {"Extensions"} : s[f] = t[f]
    BY <1>1, <1>2, <2>3, SayingTold, Zenon
  <2>5. /\ \A x \in E : x = [name |-> x.name, value |-> x.value]
        /\ \A x \in F : x = [name |-> x.name, value |-> x.value]
    BY DEF SaidExtensions
  <2> HIDE DEF E, F
  <2>6. E = F
    <3>1. E \subseteq F
      BY <1>3, <1>4, <1>5, <2>1, <2>5, ExtensionsTold
    <3>2. F \subseteq E
      BY <1>3, <1>4, <1>5, <2>1, <2>5, ExtensionsTold
    <3> QED BY <3>1, <3>2
  <2>7. IsStruct(s, InputFields) /\ IsStruct(t, InputFields)
    BY <1>1, <1>2, Zenon DEF IsSaying
  <2> HIDE DEF s, t
  <2>8. \A f \in InputFields : s[f] = t[f]
    BY <1>1, <1>2, <2>4, <2>6
  <2> QED BY <2>7, <2>8, SameStruct
<1> QED BY <1>6, <1>7

-----------------------------------------------------------------------------
\* The inputs Build is given.

\* The inputs without text have their texts in order.
LEMMA PlainTexts ==
  ASSUME NEW in \in Inputs
  PROVE  TextsOK(in)
<1>1. IsInput(in, {})
  BY InputAssumption
<1>2. IsSeq(in.Extensions) /\ \A i \in DOMAIN in.Extensions : IsSeq(in.Extensions[i].Value)
  BY <1>1, SliceIsSeq DEF IsInput
<1>3. in.References # Nil =>
        /\ IsSeq(in.References)
        /\ \A i \in DOMAIN in.References :
             in.References[i].LogCoordinates = Nil \/ IsSeq(in.References[i].LogCoordinates)
  BY <1>1, SliceIsSeq DEF IsInput
<1>4. in.compute # Nil => IsSeq(in.compute.ComposedMembers)
  BY <1>1, SliceIsSeq DEF IsInput
<1> QED BY <1>2, <1>3, <1>4 DEF TextsOK

\* An input with a read text in its hole has them in order too.
LEMMA FilledTexts ==
  ASSUME NEW in \in Holes, NEW text, IsSeq(text)
  PROVE  TextsOK(Filled(in, text))
<1> DEFINE refs == in.References
           fill(x) == IF x = Hole THEN text ELSE x
           exts == [i \in DOMAIN in.Extensions |->
                      [in.Extensions[i] EXCEPT !.Value = fill(@)]]
           cited == IF refs = Nil THEN Nil
                    ELSE [i \in DOMAIN refs |->
                            [refs[i] EXCEPT !.LogCoordinates = fill(@)]]
           out == [in EXCEPT !.Extensions = exts, !.References = cited]
<1>1. IsInput(in, {Hole})
  BY InputAssumption
<1>2. Filled(in, text) = out
  BY Zenon DEF Filled
<1>3. {"Extensions", "References"} \subseteq DOMAIN in
  BY <1>1 DEF IsInput
<1>4. IsSeq(exts) /\ \A i \in DOMAIN exts : IsSeq(exts[i].Value)
  <2>1. /\ IsSeq(in.Extensions)
        /\ \A i \in DOMAIN in.Extensions :
             /\ "Value" \in DOMAIN in.Extensions[i]
             /\ in.Extensions[i].Value = Hole \/ IsSeq(in.Extensions[i].Value)
    BY <1>1, SliceIsSeq DEF IsInput
  <2>2. DOMAIN exts = DOMAIN in.Extensions /\ exts = [i \in DOMAIN exts |-> exts[i]]
    OBVIOUS
  <2>3. \A i \in DOMAIN exts : exts[i].Value = fill(in.Extensions[i].Value)
    BY <2>1
  <2>4. \A i \in DOMAIN exts : IsSeq(exts[i].Value)
    BY <2>1, <2>2, <2>3
  <2> HIDE DEF exts
  <2> QED BY <2>1, <2>2, <2>4, MapSeq
<1>5. cited # Nil =>
        /\ IsSeq(cited)
        /\ \A i \in DOMAIN cited : cited[i].LogCoordinates = Nil \/ IsSeq(cited[i].LogCoordinates)
  <2>1. SUFFICES ASSUME refs # Nil
                 PROVE  /\ IsSeq(cited)
                        /\ \A i \in DOMAIN cited :
                             cited[i].LogCoordinates = Nil \/ IsSeq(cited[i].LogCoordinates)
    OBVIOUS
  <2>2. /\ IsSeq(refs)
        /\ \A i \in DOMAIN refs :
             /\ "LogCoordinates" \in DOMAIN refs[i]
             /\ refs[i].LogCoordinates \in {Hole, Nil} \/ IsSeq(refs[i].LogCoordinates)
    BY <1>1, <2>1, SliceIsSeq DEF IsInput
  <2> DEFINE s == [i \in DOMAIN refs |-> [refs[i] EXCEPT !.LogCoordinates = fill(@)]]
  <2>3. cited = s /\ DOMAIN s = DOMAIN refs /\ s = [i \in DOMAIN s |-> s[i]]
    BY <2>1
  <2>4. \A i \in DOMAIN s : s[i].LogCoordinates = fill(refs[i].LogCoordinates)
    BY <2>2
  <2>5. \A i \in DOMAIN s : s[i].LogCoordinates = Nil \/ IsSeq(s[i].LogCoordinates)
    BY <2>2, <2>3, <2>4
  <2> HIDE DEF s, cited
  <2>6. IsSeq(s)
    BY <2>2, <2>3, MapSeq
  <2> QED BY <2>3, <2>5, <2>6
<1>6. in.compute # Nil => IsSeq(in.compute.ComposedMembers)
  BY <1>1, SliceIsSeq DEF IsInput
<1> HIDE DEF exts, cited
<1>7. out.Extensions = exts /\ out.References = cited /\ out.compute = in.compute
  BY <1>3
<1> HIDE DEF out
<1> QED BY <1>2, <1>4, <1>5, <1>6, <1>7 DEF TextsOK

\* An input with a JSON text in its hole is one a caller can write.
LEMMA FilledWritten ==
  ASSUME NEW in \in Holes, NEW text, TokenText(text)
  PROVE  IsWritten(Filled(in, text), {})
<1> DEFINE refs == in.References
           fill(x) == IF x = Hole THEN text ELSE x
           exts == [i \in DOMAIN in.Extensions |->
                      [in.Extensions[i] EXCEPT !.Value = fill(@)]]
           cited == IF refs = Nil THEN Nil
                    ELSE [i \in DOMAIN refs |->
                            [refs[i] EXCEPT !.LogCoordinates = fill(@)]]
           out == [in EXCEPT !.Extensions = exts, !.References = cited]
           ExtOK(x) == IsStruct(x, {"Name", "Value"}) /\ IsJSON(x.Value, {})
           RefOK(x) == IsReference(x) /\ IsJSON(x.LogCoordinates, {Nil})
<1>1. IsWritten(in, {Hole})
  BY InputAssumption
<1>2. Filled(in, text) = out
  BY Zenon DEF Filled
<1>3. IsJSON(text, {}) /\ IsJSON(text, {Nil})
  BY DEF TokenText, IsJSON
<1>4. \A i \in DOMAIN exts : ExtOK(exts[i])
  <2>1. \A i \in DOMAIN in.Extensions :
          /\ IsStruct(in.Extensions[i], {"Name", "Value"})
          /\ IsJSON(in.Extensions[i].Value, {Hole})
    BY <1>1, Zenon DEF IsWritten
  <2> SUFFICES ASSUME NEW i \in DOMAIN exts
               PROVE  ExtOK(exts[i])
    OBVIOUS
  <2> DEFINE x == in.Extensions[i]
             y == [x EXCEPT !.Value = fill(@)]
  <2>2. IsStruct(x, {"Name", "Value"}) /\ IsJSON(x.Value, {Hole}) /\ exts[i] = y
    BY <2>1
  <2>3. y.Value = fill(x.Value) /\ IsStruct(y, {"Name", "Value"})
    <3> HIDE DEF x, fill
    <3> QED BY <2>2 DEF IsStruct
  <2> HIDE DEF x, y
  <2>4. IsJSON(fill(x.Value), {})
    BY <1>3, <2>2 DEF IsJSON
  <2> QED BY <2>2, <2>3, <2>4
<1>5. cited # Nil => \A i \in DOMAIN cited : RefOK(cited[i])
  <2> SUFFICES ASSUME refs # Nil, NEW i \in DOMAIN cited
               PROVE  RefOK(cited[i])
    OBVIOUS
  <2>1. \A j \in DOMAIN refs :
          IsReference(refs[j]) /\ IsJSON(refs[j].LogCoordinates, {Hole} \cup {Nil})
    BY <1>1, Zenon DEF IsWritten
  <2> DEFINE x == refs[i]
             y == [x EXCEPT !.LogCoordinates = fill(@)]
  <2>2. IsReference(x) /\ IsJSON(x.LogCoordinates, {Hole} \cup {Nil}) /\ cited[i] = y
    BY <2>1
  <2>3. y.LogCoordinates = fill(x.LogCoordinates) /\ IsReference(y)
    <3> HIDE DEF x, fill
    <3> QED BY <2>2 DEF IsReference, IsStruct
  <2> HIDE DEF x, y
  <2>4. IsJSON(fill(x.LogCoordinates), {Nil})
    BY <1>3, <2>2 DEF IsJSON
  <2> QED BY <2>2, <2>3, <2>4
<1> HIDE DEF exts, cited
<1>6. IsStruct(in, InputFields)
  BY <1>1, Zenon DEF IsWritten
<1>7. IsStruct(out, InputFields)
  BY <1>6 DEF IsStruct
<1>8. /\ out.Extensions = exts /\ out.References = cited
      /\ \A f \in InputFields \ {"Extensions", "References"} : out[f] = in[f]
  BY <1>6 DEF IsStruct, InputFields
<1> HIDE DEF out
<1>9. /\ out.compute = in.compute /\ out.Timestamp = in.Timestamp
      /\ out.Disposition = in.Disposition /\ out.Effect = in.Effect /\ out.Chain = in.Chain
      /\ out.Model = in.Model /\ out.Compute = in.Compute
      /\ out.ProvenanceMode = in.ProvenanceMode
  BY <1>8 DEF InputFields
<1>10. \A i \in DOMAIN out.Extensions : ExtOK(out.Extensions[i])
  BY <1>4, <1>8, Zenon
<1>11. out.References # Nil => \A i \in DOMAIN out.References : RefOK(out.References[i])
  BY <1>5, <1>8, Zenon
<1>12. {} \cup {Nil} = {Nil}
  OBVIOUS
<1>13. IsWritten(out, {})
  BY <1>1, <1>7, <1>9, <1>10, <1>11, <1>12, Zenon DEF IsWritten
<1> QED BY <1>2, <1>13, Zenon

-----------------------------------------------------------------------------
\* What was read is JSON in tokens, and what was built is what Build returned for an
\* input that it accepts.
BuilderInv ==
  /\ ReaderInv
  /\ built # Nil =>
       \E in : /\ Accepted(in)
               /\ built = [input |-> in, CapsuleID |-> Build(in).CapsuleID,
                           JSON |-> Build(in).JSON]

\* Before anything is built.
LEMMA BuilderInvInit ==
  ASSUME BuilderInit
  PROVE  BuilderInv
  BY ReaderInvInit DEF BuilderInv, BuilderInit

\* A return of Build keeps the invariant.
LEMMA ReturnedInv ==
  ASSUME ReaderInv', NEW in, TextsOK(in), IsWritten(in, {}), Returned(in)
  PROVE  BuilderInv'
<1>1. /\ Build(in) # Nil
      /\ built' = [input |-> in, CapsuleID |-> Build(in).CapsuleID, JSON |-> Build(in).JSON]
  BY DEF Returned, Kept
<1>2. Accepted(in)
  BY <1>1 DEF Accepted
<1> QED BY <1>1, <1>2 DEF BuilderInv

\* Every step does.
LEMMA BuilderInvNext ==
  ASSUME BuilderInv, [BuilderNext]_emitVars
  PROVE  BuilderInv'
<1>0. ReaderInv /\ ReaderInv'
  BY ReaderInvStep DEF BuilderInv
<1>1. CASE ReadToken /\ built = Nil /\ UNCHANGED built
  BY <1>0, <1>1 DEF BuilderInv
<1>2. CASE ReadEnd /\ built = Nil /\ UNCHANGED built
  BY <1>0, <1>2 DEF BuilderInv
<1>3. CASE BuildWithText
  <2>1. PICK in \in Holes : Returned(Filled(in, toks))
    BY <1>3 DEF BuildWithText
  <2>2. TokenText(toks) /\ IsSeq(toks)
    BY <1>0 DEF ReaderInv, TokenText
  <2> DEFINE x == Filled(in, toks)
  <2>3. TextsOK(x) /\ IsWritten(x, {})
    BY <2>2, FilledTexts, FilledWritten
  <2> HIDE DEF x
  <2>4. Returned(x)
    BY <2>1 DEF x
  <2> QED BY <1>0, <2>3, <2>4, ReturnedInv
<1>4. CASE BuildPlain
  <2>1. PICK in \in Inputs : Returned(in)
    BY <1>4 DEF BuildPlain
  <2>2. TextsOK(in) /\ IsWritten(in, {})
    BY PlainTexts, InputAssumption
  <2> QED BY <1>0, <2>1, <2>2, ReturnedInv
<1>5. CASE UNCHANGED emitVars
  BY <1>0, <1>5 DEF emitVars, BuilderInv
<1> QED BY <1>1, <1>2, <1>3, <1>4, <1>5 DEF BuilderNext

\* What Build returns, VerifyCapsule accepts under the id Build returned if it is
\* within the depth limit as a whole, for any text, any extensions and references
\* and any limit (build.go:98-111, verify.go:85-100).
THEOREM BuiltCapsulesVerify ==
  ASSUME NilIsNoValue
  PROVE  BuilderSpec => []ShallowVerifies
<1>1. BuilderInv => ShallowVerifies
  <2> SUFFICES ASSUME BuilderInv, built # Nil, DepthOk(built.JSON)
               PROVE  VerifyCapsule(built.JSON) = built.CapsuleID
    BY DEF ShallowVerifies
  <2>1. PICK in : /\ TextsOK(in) /\ Build(in) # Nil
                  /\ built = [input |-> in, CapsuleID |-> Build(in).CapsuleID,
                              JSON |-> Build(in).JSON]
    BY DEF BuilderInv, Accepted
  <2>2. built.JSON = Build(in).JSON /\ built.CapsuleID = Build(in).CapsuleID
    BY <2>1
  <2> QED BY <2>1, <2>2, BuildVerifies
<1> QED BY <1>1, BuilderInvInit, BuilderInvNext, PTL DEF BuilderSpec

\* The assurance a capsule claims is backed by its own members, whatever the
\* caller's text and extensions are (build.go:477-494, extension.go:13-24).
THEOREM AssuranceIsBacked ==
  ASSUME NilIsNoValue
  PROVE  BuilderSpec => []AssuranceBacked
<1>1. BuilderInv => AssuranceBacked
  <2> SUFFICES ASSUME BuilderInv, built # Nil
               PROVE  AssuranceBacked
    BY DEF AssuranceBacked
  <2>1. PICK in : /\ TextsOK(in) /\ Build(in) # Nil
                  /\ built = [input |-> in, CapsuleID |-> Build(in).CapsuleID,
                              JSON |-> Build(in).JSON]
    BY DEF BuilderInv, Accepted
  <2>2. built.JSON = Build(in).JSON
    BY <2>1
  <2>3. \A k, l : Member(k, l) = At(Build(in).JSON, <<[key |-> k], [key |-> l]>>)
    BY <2>2, Zenon DEF Member, MemberOf
  <2> QED BY <2>1, <2>3, BuildBacked, Zenon DEF AssuranceBacked
<1> QED BY <1>1, BuilderInvInit, BuilderInvNext, PTL DEF BuilderSpec

\* The capsule id commits to the input (build.go:22-113, extension.go:13-52): the
\* capsule built, whatever text it carries, and any capsule Build makes of an input
\* without text have one id exactly when the two inputs say the same, whatever the
\* inputs, their extensions and references and the limits are.
THEOREM IdCommitsToInput ==
  ASSUME NilIsNoValue
  PROVE  BuilderSpec => []IdCommitsInput
<1>1. BuilderInv => IdCommitsInput
  <2> SUFFICES ASSUME BuilderInv, built # Nil, NEW c \in Catalogue
               PROVE  (c.id = built.CapsuleID) <=> (c.says = Says(built.input))
    BY Zenon DEF IdCommitsInput
  <2>1. PICK in : /\ Accepted(in)
                  /\ built = [input |-> in, CapsuleID |-> Build(in).CapsuleID,
                              JSON |-> Build(in).JSON]
    BY DEF BuilderInv
  <2>2. built.input = in /\ built.CapsuleID = Build(in).CapsuleID
    BY <2>1
  <2>3. PICK on \in Inputs : /\ Build(on) # Nil
                             /\ c = [id |-> Build(on).CapsuleID, says |-> Says(on)]
    BY DEF Catalogue
  <2>4. c.id = Build(on).CapsuleID /\ c.says = Says(on)
    BY <2>3
  <2>5. Accepted(on)
    BY <2>3, PlainTexts, InputAssumption DEF Accepted
  <2>6. Build(on).CapsuleID = Build(in).CapsuleID <=> Says(on) = Says(in)
    BY <2>1, <2>5, IdsAndSayings, Zenon
  <2> QED BY <2>2, <2>4, <2>6, Zenon
<1> QED BY <1>1, BuilderInvInit, BuilderInvNext, PTL DEF BuilderSpec
=============================================================================
