--------------------------- MODULE CapsuleProofs ----------------------------
(***************************************************************************)
(* Facts about what one capsule is made of: the documents Build writes and *)
(* decodes, the id it derives, and VerifyCapsule, for inputs with any      *)
(* number of extensions and references and JSON texts of any length.       *)
(***************************************************************************)
EXTENDS Capsule, TLAPS, WellFoundedInduction, SequenceTheorems

\* Nil stands for the nil pointer and for the error: it is no document, no
\* scalar and no record, which are functions.
NilIsNoValue == \A f : f = [x \in DOMAIN f |-> f[x]] => f # Nil

-----------------------------------------------------------------------------
\* Induction, in the form the provers can use: about a set of numbers.
LEMMA Induction ==
  ASSUME NEW S, 0 \in S, \A n \in Nat : n \in S => n + 1 \in S
  PROVE  Nat \subseteq S
<1> DEFINE R == {p \in Nat \X Nat : p[1] < p[2]}
           T == {n \in Nat : n \notin S}
<1>1. OpToRel(<, Nat) = R
  BY Zenon DEF OpToRel
<1>2. IsWellFoundedOn(R, Nat)
  BY NatLessThanWellFounded, <1>1
<1> HIDE DEF R
<1>3. SUFFICES ASSUME T # {} PROVE FALSE
  OBVIOUS
<1>4. PICK n \in T : \A m \in T : ~ (<<m, n>> \in R)
  BY <1>2, <1>3, WFMin
<1>5. n \in Nat /\ n # 0 /\ n - 1 \in Nat
  BY <1>4
<1>6. n - 1 \notin T
  <2>1. <<n - 1, n>> \in R
    BY <1>5 DEF R
  <2> QED BY <1>4, <2>1
<1> QED BY <1>4, <1>5, <1>6

-----------------------------------------------------------------------------
\* Slices, paths and documents.

IsSeq(s) == \E S : s \in Seq(S)

\* A slice of an input is a sequence.
LEMMA SliceIsSeq ==
  ASSUME NEW s, IsSlice(s)
  PROVE  IsSeq(s) /\ Len(s) \in Nat /\ DOMAIN s = 1..Len(s)
<1>1. PICK n \in 0..Cardinality(DOMAIN s) : s = [i \in 1..n |-> s[i]]
  BY DEF IsSlice
<1>2. n \in Nat
  OBVIOUS
<1> DEFINE S == {s[i] : i \in 1..n}
<1>3. s \in [1..n -> S]
  BY <1>1
<1>4. s \in Seq(S)
  BY <1>2, <1>3
<1> HIDE DEF S
<1> QED BY <1>4 DEF IsSeq

\* A path under a container, taken apart again.
LEMMA Prefixed ==
  ASSUME NEW x, NEW p, IsSeq(p)
  PROVE  /\ IsSeq(<<x>> \o p)
         /\ Head(<<x>> \o p) = x /\ Tail(<<x>> \o p) = p
         /\ <<x>> \o p # <<>>
<1>1. PICK S : p \in Seq(S)
  BY DEF IsSeq
<1>2. p \in Seq(S \cup {x}) /\ <<x>> \in Seq(S \cup {x})
  BY <1>1
<1>3. <<x>> \o p \in Seq(S \cup {x})
  BY <1>2
<1>4. Head(<<x>> \o p) = x /\ Tail(<<x>> \o p) = p /\ <<x>> \o p # <<>>
  BY <1>2
<1> QED BY <1>3, <1>4 DEF IsSeq

\* A document whose leaves the decoder leaves as they are.
Doc(d) ==
  /\ d = [p \in DOMAIN d |-> d[p]]
  /\ \A p \in DOMAIN d : IsSeq(p) /\ Scalar(d[p]) = d[p]

\* The path of the whole document.
LEMMA EmptyPath == IsSeq(<<>>)
<1>1. <<>> \in Seq({})
  OBVIOUS
<1> QED BY <1>1 DEF IsSeq

\* A document of one leaf.
LEMMA LeafDoc ==
  ASSUME NEW x, Scalar(x) = x
  PROVE  Doc(Leaf(x)) /\ DOMAIN Leaf(x) = {<<>>} /\ Leaf(x)[<<>>] = x
  BY EmptyPath DEF Doc, Leaf

\* Only a number is rewritten.
LEMMA ScalarIsKept ==
  ASSUME NEW x, DOMAIN x # {"num"}
  PROVE  Scalar(x) = x
<1>1. DOMAIN [num |-> "-0"] = {"num"}
  OBVIOUS
<1> QED BY <1>1 DEF Scalar

\* The leaves Build writes are not numbers, so decoding keeps them.
LEMMA LeavesAreDocs ==
  /\ \A s : Doc(Text(s)) /\ At(Text(s), <<>>) = [text |-> s]
  /\ \A s : Doc(Digest(s)) /\ At(Digest(s), <<>>) = [digest |-> s]
  /\ \A s : Doc(Leaf([lit |-> s])) /\ Doc(Leaf([nanos |-> s])) /\ Doc(Leaf([empty |-> s]))
<1>1. ASSUME NEW s
      PROVE  /\ Scalar([text |-> s]) = [text |-> s]
             /\ Scalar([digest |-> s]) = [digest |-> s]
             /\ Scalar([lit |-> s]) = [lit |-> s]
             /\ Scalar([nanos |-> s]) = [nanos |-> s]
             /\ Scalar([empty |-> s]) = [empty |-> s]
  <2>1. /\ DOMAIN [text |-> s] = {"text"} /\ DOMAIN [digest |-> s] = {"digest"}
        /\ DOMAIN [lit |-> s] = {"lit"} /\ DOMAIN [nanos |-> s] = {"nanos"}
        /\ DOMAIN [empty |-> s] = {"empty"}
    OBVIOUS
  <2>2. /\ {"text"} # {"num"} /\ {"digest"} # {"num"} /\ {"lit"} # {"num"}
        /\ {"nanos"} # {"num"} /\ {"empty"} # {"num"}
    OBVIOUS
  <2> QED BY <2>1, <2>2, ScalarIsKept
<1> QED BY <1>1, LeafDoc DEF Text, Digest, At

-----------------------------------------------------------------------------
\* Objects and arrays of documents are documents, and hold each part at its
\* place.

\* An object of documents is one, and every path of it goes through a member.
LEMMA ObjectDoc ==
  ASSUME NEW m, \A k \in DOMAIN m : m[k] = Nil \/ Doc(m[k])
  PROVE  /\ Doc(Object(m))
         /\ \A k \in DOMAIN m : \A q : m[k] # Nil /\ q \in DOMAIN m[k] =>
              /\ <<[key |-> k]>> \o q \in DOMAIN Object(m)
              /\ Object(m)[<<[key |-> k]>> \o q] = m[k][q]
         /\ \A p \in DOMAIN Object(m) : p # <<>> =>
              \E k \in DOMAIN m : m[k] # Nil /\ \E q \in DOMAIN m[k] : p = <<[key |-> k]>> \o q
<1> DEFINE present == {k \in DOMAIN m : m[k] # Nil}
           under(k) == {<<[key |-> k]>> \o p : p \in DOMAIN m[k]}
           paths == UNION {under(k) : k \in present}
           d == [p \in paths |-> m[Head(p).key][Tail(p)]]
<1>1. CASE present = {}
  <2>1. Object(m) = Leaf([empty |-> "{"])
    BY <1>1, Zenon DEF Object
  <2>2. DOMAIN Leaf([empty |-> "{"]) = {<<>>}
    BY DEF Leaf
  <2> QED BY <1>1, <2>1, <2>2, LeavesAreDocs
<1>2. CASE present # {}
  <2>1. Object(m) = d
    BY <1>2, Zenon DEF Object
  <2>2. ASSUME NEW k \in present, NEW q \in DOMAIN m[k]
        PROVE  LET p == <<[key |-> k]>> \o q
               IN  p \in paths /\ IsSeq(p) /\ d[p] = m[k][q] /\ Scalar(m[k][q]) = m[k][q]
    <3>1. IsSeq(q) /\ Scalar(m[k][q]) = m[k][q]
      BY DEF Doc
    <3> DEFINE p == <<[key |-> k]>> \o q
    <3>2. IsSeq(p) /\ Head(p).key = k /\ Tail(p) = q
      BY <3>1, Prefixed
    <3>3. p \in paths
      <4>1. p \in under(k)
        OBVIOUS
      <4> QED BY <4>1
    <3> HIDE DEF p, paths
    <3>4. d[p] = m[k][q]
      BY <3>2, <3>3
    <3> QED BY <3>1, <3>2, <3>3, <3>4 DEF p
  <2>3. \A p \in paths : \E k \in present : \E q \in DOMAIN m[k] : p = <<[key |-> k]>> \o q
    OBVIOUS
  <2>4. DOMAIN d = paths /\ d = [p \in DOMAIN d |-> d[p]]
    OBVIOUS
  <2> HIDE DEF d, paths
  <2>5. Doc(d)
    <3>1. ASSUME NEW p \in DOMAIN d
          PROVE  IsSeq(p) /\ Scalar(d[p]) = d[p]
      <4>1. PICK k \in present : \E q \in DOMAIN m[k] : p = <<[key |-> k]>> \o q
        BY <2>3, <2>4
      <4>2. PICK q \in DOMAIN m[k] : p = <<[key |-> k]>> \o q
        BY <4>1
      <4> QED BY <2>2, <4>2
    <3> QED BY <2>4, <3>1 DEF Doc
  <2> QED BY <2>1, <2>2, <2>3, <2>4, <2>5
<1> QED BY <1>1, <1>2

\* An array of documents is one.
LEMMA ArrayDoc ==
  ASSUME NEW s, IsSeq(s), \A i \in DOMAIN s : Doc(s[i])
  PROVE  Doc(Array(s))
<1> DEFINE under(i) == {<<[index |-> i - 1]>> \o p : p \in DOMAIN s[i]}
           paths == UNION {under(i) : i \in DOMAIN s}
           d == [p \in paths |-> s[Head(p).index + 1][Tail(p)]]
<1>1. CASE s = <<>>
  <2>1. Array(s) = Leaf([empty |-> "["])
    BY <1>1, Zenon DEF Array
  <2> QED BY <2>1, LeavesAreDocs
<1>2. CASE s # <<>>
  <2>1. Array(s) = d
    BY <1>2, Zenon DEF Array
  <2>2. ASSUME NEW i \in DOMAIN s, NEW q \in DOMAIN s[i]
        PROVE  LET p == <<[index |-> i - 1]>> \o q
               IN  p \in paths => IsSeq(p) /\ Scalar(d[p]) = d[p]
    <3>1. IsSeq(q) /\ Scalar(s[i][q]) = s[i][q] /\ (i - 1) + 1 = i
      <4>1. i \in Nat
        BY DEF IsSeq
      <4> QED BY <4>1 DEF Doc
    <3> DEFINE p == <<[index |-> i - 1]>> \o q
    <3>2. IsSeq(p) /\ Head(p).index = i - 1 /\ Tail(p) = q
      BY <3>1, Prefixed
    <3> HIDE DEF p, paths
    <3>3. p \in paths => d[p] = s[i][q]
      BY <3>1, <3>2
    <3> QED BY <3>1, <3>2, <3>3 DEF p
  <2>3. \A p \in paths : \E i \in DOMAIN s : \E q \in DOMAIN s[i] : p = <<[index |-> i - 1]>> \o q
    OBVIOUS
  <2>4. DOMAIN d = paths /\ d = [p \in DOMAIN d |-> d[p]]
    OBVIOUS
  <2> HIDE DEF d, paths
  <2>5. Doc(d)
    <3>1. ASSUME NEW p \in DOMAIN d
          PROVE  IsSeq(p) /\ Scalar(d[p]) = d[p]
      <4>1. PICK i \in DOMAIN s : \E q \in DOMAIN s[i] : p = <<[index |-> i - 1]>> \o q
        BY <2>3, <2>4
      <4>2. PICK q \in DOMAIN s[i] : p = <<[index |-> i - 1]>> \o q
        BY <4>1
      <4>3. p \in paths
        BY <2>4
      <4> QED BY <2>2, <4>2, <4>3
    <3> QED BY <2>4, <3>1 DEF Doc
  <2> QED BY <2>1, <2>5
<1> QED BY <1>1, <1>2

\* So is an object that is left out when it is empty.
LEMMA ObjectIfAnyDoc ==
  ASSUME NEW m, \A k \in DOMAIN m : m[k] = Nil \/ Doc(m[k])
  PROVE  ObjectIfAny(m) = Nil \/ Doc(ObjectIfAny(m))
  BY ObjectDoc DEF ObjectIfAny

\* A path under a member.
Under(k, q) == <<[key |-> k]>> \o q

\* What stands at a path of an object stands in its member, or nowhere.
LEMMA ObjectAt ==
  ASSUME NEW m, \A k \in DOMAIN m : m[k] = Nil \/ Doc(m[k]),
         NEW k \in DOMAIN m, NEW q, IsSeq(q)
  PROVE  At(Object(m), Under(k, q)) = IF m[k] = Nil THEN Nil ELSE At(m[k], q)
<1> DEFINE p == <<[key |-> k]>> \o q
           d == Object(m)
<1>1. Head(p).key = k /\ Tail(p) = q /\ p # <<>>
  BY Prefixed
<1>2. m[k] # Nil /\ q \in DOMAIN m[k] => p \in DOMAIN d /\ d[p] = m[k][q]
  BY ObjectDoc
<1>3. p \in DOMAIN d => m[k] # Nil /\ q \in DOMAIN m[k]
  <2>1. SUFFICES ASSUME p \in DOMAIN d PROVE m[k] # Nil /\ q \in DOMAIN m[k]
    OBVIOUS
  <2>2. PICK l \in DOMAIN m : m[l] # Nil /\ \E r \in DOMAIN m[l] : p = <<[key |-> l]>> \o r
    BY <1>1, <2>1, ObjectDoc
  <2>3. PICK r \in DOMAIN m[l] : p = <<[key |-> l]>> \o r
    BY <2>2
  <2>4. Head(p).key = l /\ Tail(p) = r
    BY <2>2, <2>3, Prefixed DEF Doc
  <2> QED BY <1>1, <2>2, <2>4
<1> HIDE DEF p, d
<1>4. At(d, p) = IF m[k] = Nil THEN Nil ELSE At(m[k], q)
  BY <1>2, <1>3 DEF At
<1> QED BY <1>4 DEF p, d, Under

-----------------------------------------------------------------------------
\* The decoder: whatever it is fed, what it has read so far is a document.

\* What is in a slice after append: the new element or an old one.
LEMMA SeqAppend ==
  ASSUME NEW s, IsSeq(s), NEW x
  PROVE  /\ IsSeq(Append(s, x))
         /\ \A i \in DOMAIN Append(s, x) : Append(s, x)[i] = x \/ (i \in DOMAIN s /\ Append(s, x)[i] = s[i])
<1>1. PICK S : s \in Seq(S)
  BY DEF IsSeq
<1>2. Append(s, x) \in Seq(S \cup {x})
  BY <1>1
<1>3. \A i \in DOMAIN Append(s, x) : Append(s, x)[i] = x \/ (i \in DOMAIN s /\ Append(s, x)[i] = s[i])
  BY <1>1
<1> QED BY <1>2, <1>3 DEF IsSeq

\* The stack below its top frame.
LEMMA SeqBelow ==
  ASSUME NEW s, IsSeq(s), s # <<>>
  PROVE  /\ IsSeq(Below(s)) /\ Len(s) \in DOMAIN s
         /\ \A i \in DOMAIN Below(s) : i \in DOMAIN s /\ Below(s)[i] = s[i]
<1>1. PICK S : s \in Seq(S)
  BY DEF IsSeq
<1>2. Len(s) \in Nat \ {0}
  BY <1>1
<1>3. Below(s) \in Seq(S)
  BY <1>1, <1>2 DEF Below
<1>4. Len(s) \in DOMAIN s
  BY <1>1, <1>2
<1>5. \A i \in DOMAIN Below(s) : i \in DOMAIN s /\ Below(s)[i] = s[i]
  BY <1>1, <1>2 DEF Below
<1> QED BY <1>3, <1>4, <1>5 DEF IsSeq

\* Overwriting an element leaves a sequence.
LEMMA SeqExcept ==
  ASSUME NEW s, IsSeq(s), NEW n, NEW x
  PROVE  IsSeq([s EXCEPT ![n] = x]) /\ DOMAIN [s EXCEPT ![n] = x] = DOMAIN s
<1>1. PICK S : s \in Seq(S)
  BY DEF IsSeq
<1> DEFINE e == [s EXCEPT ![n] = x]
<1>2. Len(s) \in Nat /\ s \in [1..Len(s) -> S] /\ DOMAIN s = 1..Len(s)
  BY <1>1
<1>3. e \in [1..Len(s) -> S \cup {x}] /\ DOMAIN e = DOMAIN s
  BY <1>2
<1> HIDE DEF e
<1>4. e \in Seq(S \cup {x})
  BY <1>2, <1>3
<1>5. IsSeq(e)
  BY <1>4 DEF IsSeq
<1> QED BY <1>3, <1>5 DEF e

FrameOK(f) == DOMAIN f = {"delim", "path", "keys", "key", "count"} /\ IsSeq(f.path)

DecOK(d) ==
  /\ DOMAIN d = {"status", "doc", "stack"}
  /\ Doc(d.doc)
  /\ IsSeq(d.stack) /\ \A i \in DOMAIN d.stack : FrameOK(d.stack[i])

\* Nothing read yet is a document without leaves.
LEMMA NoDoc == Doc(<<>>)
<1>1. <<>> = [p \in DOMAIN <<>> |-> <<>>[p]] /\ DOMAIN <<>> = {}
  OBVIOUS
<1> QED BY <1>1 DEF Doc

\* The decoder starts and refuses with nothing read.
LEMMA StartOK == DecOK(StartDecoding) /\ DecOK(Refused)
<1>1. DOMAIN <<>> = {}
  OBVIOUS
<1> QED BY <1>1, NoDoc, EmptyPath DEF DecOK, StartDecoding, Refused

\* Rewriting a number twice is rewriting it once.
LEMMA ScalarTwice ==
  ASSUME NEW tok
  PROVE  Scalar(Scalar(tok)) = Scalar(tok)
<1>1. [num |-> "0"] # [num |-> "-0"]
  OBVIOUS
<1> QED BY <1>1 DEF Scalar

\* One more leaf.
LEMMA WithLeafDoc ==
  ASSUME NEW d, Doc(d), NEW p, IsSeq(p), NEW x, Scalar(x) = x
  PROVE  Doc(WithLeaf(d, p, x))
  BY DEF Doc, WithLeaf

\* The end of a value counts it in its container (build.go:551-570).
LEMMA EndedOK ==
  ASSUME NEW doc, Doc(doc), NEW stack, IsSeq(stack), \A i \in DOMAIN stack : FrameOK(stack[i])
  PROVE  DecOK(Ended(doc, stack))
<1>1. CASE stack = <<>>
  BY <1>1 DEF Ended, DecOK
<1>2. CASE stack # <<>>
  <2> DEFINE f == [Top(stack) EXCEPT !.key = Nil, !.count = @ + 1]
             s == Append(Below(stack), f)
  <2>1. FrameOK(Top(stack))
    BY <1>2, SeqBelow DEF Top
  <2>2. FrameOK(f)
    BY <2>1 DEF FrameOK
  <2>3. Ended(doc, stack) = [status |-> "more", doc |-> doc, stack |-> s]
    BY <1>2, Zenon DEF Ended
  <2> HIDE DEF f
  <2>4. IsSeq(s) /\ \A i \in DOMAIN s : s[i] = f \/ (i \in DOMAIN Below(stack) /\ s[i] = Below(stack)[i])
    BY <1>2, SeqBelow, SeqAppend
  <2>5. \A i \in DOMAIN s : FrameOK(s[i])
    BY <1>2, <2>2, <2>4, SeqBelow
  <2> HIDE DEF s
  <2> QED BY <2>3, <2>4, <2>5 DEF DecOK
<1> QED BY <1>1, <1>2

\* A value goes under the path of its container.
LEMMA ValuePathOK ==
  ASSUME NEW stack, IsSeq(stack), \A i \in DOMAIN stack : FrameOK(stack[i])
  PROVE  IsSeq(ValuePath(stack))
<1>1. CASE stack = <<>>
  BY <1>1, EmptyPath DEF ValuePath
<1>2. CASE stack # <<>>
  <2>1. IsSeq(Top(stack).path)
    BY <1>2, SeqBelow DEF Top, FrameOK
  <2>2. \A x : IsSeq(Append(Top(stack).path, x))
    BY <2>1, SeqAppend
  <2> QED BY <1>2, <2>2 DEF ValuePath
<1> QED BY <1>1, <1>2

\* One token of the descent.
LEMMA StepOK ==
  ASSUME NEW d, DecOK(d), NEW tok
  PROVE  DecOK(Step(d, tok))
<1> DEFINE f == Top(d.stack)
<1>1. Doc(d.doc) /\ IsSeq(d.stack) /\ \A i \in DOMAIN d.stack : FrameOK(d.stack[i])
  BY DEF DecOK
<1>2. DecOK(DecodeValue(d, tok))
  <2>1. IsSeq(ValuePath(d.stack))
    BY <1>1, ValuePathOK
  <2>2. DecOK(Ended(WithLeaf(d.doc, ValuePath(d.stack), Scalar(tok)), d.stack))
    BY <1>1, <2>1, ScalarTwice, WithLeafDoc, EndedOK
  <2>3. DecOK([d EXCEPT !.stack = Append(@, Frame(tok.delim, ValuePath(d.stack)))])
    <3> DEFINE g == Frame(tok.delim, ValuePath(d.stack))
               s == Append(d.stack, g)
    <3>1. FrameOK(g)
      BY <2>1 DEF FrameOK, Frame
    <3> HIDE DEF g
    <3>2. IsSeq(s) /\ \A i \in DOMAIN s : s[i] = g \/ (i \in DOMAIN d.stack /\ s[i] = d.stack[i])
      BY <1>1, SeqAppend
    <3> HIDE DEF s
    <3>3. \A i \in DOMAIN s : FrameOK(s[i])
      BY <1>1, <3>1, <3>2
    <3>4. DecOK([d EXCEPT !.stack = s])
      BY <3>2, <3>3 DEF DecOK
    <3> QED BY <3>4 DEF s, g
  <2> QED BY <2>2, <2>3, StartOK, Zenon DEF DecodeValue
<1>3. ASSUME d.stack # <<>>
      PROVE  DecOK(DecodeClose(d)) /\ DecOK(DecodeKey(d, tok))
  <2>1. FrameOK(f) /\ Len(d.stack) \in DOMAIN d.stack
    BY <1>1, <1>3, SeqBelow DEF Top
  <2>2. DecOK(DecodeClose(d))
    <3> DEFINE doc == IF f.count = 0 THEN WithLeaf(d.doc, f.path, [empty |-> f.delim]) ELSE d.doc
    <3>1. Scalar([empty |-> f.delim]) = [empty |-> f.delim]
      <4>1. DOMAIN [empty |-> f.delim] = {"empty"} /\ {"empty"} # {"num"}
        OBVIOUS
      <4> QED BY <4>1, ScalarIsKept
    <3>2. Doc(WithLeaf(d.doc, f.path, [empty |-> f.delim]))
      BY <1>1, <2>1, <3>1, WithLeafDoc DEF FrameOK
    <3>3. Doc(doc)
      BY <1>1, <3>2
    <3>4. IsSeq(Below(d.stack)) /\ \A i \in DOMAIN Below(d.stack) : FrameOK(Below(d.stack)[i])
      BY <1>1, <1>3, SeqBelow
    <3> HIDE DEF doc
    <3>5. DecOK(Ended(doc, Below(d.stack)))
      BY <3>3, <3>4, EndedOK
    <3> QED BY <3>5, Zenon DEF DecodeClose, doc
  <2>3. DecOK(DecodeKey(d, tok))
    <3> DEFINE g == [f EXCEPT !.key = tok.text, !.keys = f.keys \cup {tok.text}]
               b == Below(d.stack)
               s == Append(b, g)
    <3>1. FrameOK(g)
      BY <2>1 DEF FrameOK
    <3>2. IsSeq(b) /\ \A i \in DOMAIN b : FrameOK(b[i])
      BY <1>1, <1>3, SeqBelow
    <3> HIDE DEF g, b
    <3>3. IsSeq(s) /\ \A i \in DOMAIN s : s[i] = g \/ (i \in DOMAIN b /\ s[i] = b[i])
      BY <3>2, SeqAppend
    <3> HIDE DEF s
    <3>4. \A i \in DOMAIN s : FrameOK(s[i])
      BY <3>1, <3>2, <3>3
    <3>5. DecOK([d EXCEPT !.stack = s])
      BY <3>3, <3>4, <1>1 DEF DecOK
    <3> QED BY <3>5, StartOK, Zenon DEF DecodeKey, f, s, b, g
  <2> QED BY <2>2, <2>3
<1> QED BY <1>2, <1>3, StartOK, Zenon DEF Step

\* The descent of a whole text reads one token after the other.
LEMMA DescentRuns ==
  ASSUME NEW text, IsSeq(text)
  PROVE  \E run : /\ Descent(text) = run[Len(text)]
                  /\ \A i \in 0..Len(text) :
                       run[i] = IF i = 0 THEN StartDecoding ELSE Step(run[i - 1], text[i])
<1> DEFINE Rule(f, n) ==
             f = [i \in 0..n |-> IF i = 0 THEN StartDecoding ELSE Step(f[i - 1], text[i])]
           S == {n \in Nat : \E f : Rule(f, n)}
           run == CHOOSE f : Rule(f, Len(text))
<1>1. Len(text) \in Nat
  BY DEF IsSeq
<1>2. 0 \in S
  <2> DEFINE f == [i \in 0..0 |-> StartDecoding]
  <2>1. Rule(f, 0)
    OBVIOUS
  <2> QED BY <2>1
<1>3. ASSUME NEW n \in Nat, n \in S
      PROVE  n + 1 \in S
  <2>1. PICK f : Rule(f, n)
    BY <1>3
  <2> DEFINE g == [i \in 0..(n + 1) |-> IF i = n + 1 THEN Step(f[n], text[n + 1]) ELSE f[i]]
  <2>2. \A i \in 0..n : f[i] = IF i = 0 THEN StartDecoding ELSE Step(f[i - 1], text[i])
    BY <2>1, Zenon
  <2>3. \A i \in 0..(n + 1) : g[i] = IF i = 0 THEN StartDecoding ELSE Step(g[i - 1], text[i])
    <3> SUFFICES ASSUME NEW i \in 0..(n + 1)
                 PROVE  g[i] = IF i = 0 THEN StartDecoding ELSE Step(g[i - 1], text[i])
      OBVIOUS
    <3>1. CASE i = n + 1
      BY <3>1
    <3>2. CASE i # n + 1
      BY <3>2, <2>2
    <3> QED BY <3>1, <3>2
  <2>4. g = [i \in 0..(n + 1) |-> g[i]]
    OBVIOUS
  <2> HIDE DEF g
  <2>5. Rule(g, n + 1)
    BY <2>3, <2>4
  <2> QED BY <2>5
<1>4. Len(text) \in S
  <2> HIDE DEF S
  <2> QED BY <1>1, <1>2, <1>3, Induction
<1>5. Rule(run, Len(text))
  BY <1>4, Zenon
<1>6. Descent(text) = run[Len(text)]
  BY Zenon DEF Descent
<1> HIDE DEF run
<1>7. \A i \in 0..Len(text) : run[i] = IF i = 0 THEN StartDecoding ELSE Step(run[i - 1], text[i])
  BY <1>5, Zenon
<1> QED BY <1>6, <1>7

\* By induction on the tokens read.
LEMMA DescentOK ==
  ASSUME NEW text, IsSeq(text)
  PROVE  DecOK(Descent(text))
<1>1. Len(text) \in Nat
  BY DEF IsSeq
<1>2. PICK run : /\ Descent(text) = run[Len(text)]
                 /\ \A i \in 0..Len(text) :
                      run[i] = IF i = 0 THEN StartDecoding ELSE Step(run[i - 1], text[i])
  BY DescentRuns
<1> DEFINE T == {n \in Nat : n \in 0..Len(text) => DecOK(run[n])}
<1>3. 0 \in T
  BY <1>2, <1>1, StartOK
<1>4. ASSUME NEW n \in Nat, n \in T
      PROVE  n + 1 \in T
  <2>1. SUFFICES ASSUME n + 1 \in 0..Len(text)
                 PROVE  DecOK(run[n + 1])
    OBVIOUS
  <2>2. n \in 0..Len(text) /\ n + 1 # 0 /\ (n + 1) - 1 = n
    BY <1>1, <2>1
  <2>3. DecOK(run[n])
    BY <1>4, <2>2
  <2>4. run[n + 1] = Step(run[n], text[n + 1])
    BY <1>2, <2>1, <2>2
  <2> QED BY <2>3, <2>4, StepOK
<1>5. Len(text) \in T
  <2> HIDE DEF T
  <2> QED BY <1>1, <1>3, <1>4, Induction
<1> QED BY <1>1, <1>2, <1>5

\* What the decoder accepts is a document.
LEMMA DecodedIsDoc ==
  ASSUME NEW text, IsSeq(text)
  PROVE  decodeStrictJSON(text) = Nil \/ Doc(decodeStrictJSON(text))
  BY DescentOK DEF decodeStrictJSON, Decoded, DecOK

-----------------------------------------------------------------------------
\* The parts of a payload.

Part(d) == d = Nil \/ Doc(d)

\* The same for parts that may be missing.
LEMMA ObjectPart ==
  ASSUME NEW m, \A k \in DOMAIN m : Part(m[k])
  PROVE  Doc(Object(m)) /\ Part(ObjectIfAny(m))
  BY ObjectDoc, ObjectIfAnyDoc DEF Part

\* dispositionMap writes a document.
LEMMA DispositionDoc == ASSUME NEW d PROVE Doc(dispositionMap(d))
<1> DEFINE human == Leaf([lit |-> IF d.HumanDisposed THEN "true" ELSE "false"])
           m == [decision |-> Text(d.Decision), approver |-> Text(d.Approver),
                 human_disposed |-> human,
                 verdict_class |-> Opt(d.VerdictClass, Text),
                 reason_digest |-> Opt(d.ReasonDigest, Digest)]
<1>0. Doc(human)
  BY LeavesAreDocs, Zenon
<1> HIDE DEF human
<1>1. \A k \in DOMAIN m : Part(m[k])
  BY <1>0, LeavesAreDocs DEF Part, Opt
<1> HIDE DEF m
<1>2. Doc(Object(m))
  BY <1>1, ObjectPart
<1> QED BY <1>2 DEF dispositionMap, m, human

\* effectMap writes a document.
LEMMA EffectDoc == ASSUME NEW e PROVE Doc(effectMap(e))
<1> DEFINE m == [type |-> Text(e.Type), status |-> Text(e.Status),
                 irreversibility_class |-> Text(e.IrreversibilityClass),
                 effect_attestation |-> Opt(e.EffectAttestation, Text),
                 request_digest |-> Opt(e.RequestDigest, Digest),
                 response_digest |-> Opt(e.ResponseDigest, Digest),
                 external_ref |-> Opt(e.ExternalRef, Text)]
<1>1. \A k \in DOMAIN m : Part(m[k])
  BY LeavesAreDocs DEF Part, Opt
<1> HIDE DEF m
<1>2. Doc(Object(m))
  BY <1>1, ObjectPart
<1> QED BY <1>2 DEF effectMap, m

\* The chain member is a document.
LEMMA ChainDoc == ASSUME NEW c PROVE Doc(chainMap(c))
<1> DEFINE m == [parent_capsule_id |-> Digest(c.ParentCapsuleID), relation |-> Text(c.Relation)]
<1>1. \A k \in DOMAIN m : Part(m[k])
  BY LeavesAreDocs DEF Part
<1> HIDE DEF m
<1>2. Doc(Object(m))
  BY <1>1, ObjectPart
<1> QED BY <1>2 DEF chainMap, m

\* assuranceMap writes a document.
LEMMA AssuranceDoc == ASSUME NEW e, NEW c PROVE Doc(assuranceMap(e, c))
<1> DEFINE m == [effect_mode |-> Text(effectMode(e)),
                 attestation_mode |-> Text("self_attested"),
                 ledger_mode |-> Text(IF c = Nil THEN "standalone" ELSE "chained")]
<1>1. \A k \in DOMAIN m : Part(m[k])
  BY LeavesAreDocs DEF Part
<1> HIDE DEF m
<1>2. Doc(Object(m))
  BY <1>1, ObjectPart
<1> QED BY <1>2 DEF assuranceMap, m

\* A reference is a document if its coordinates are one.
LEMMA ReferenceDoc ==
  ASSUME NEW ref, NEW slot, NEW purpose, NEW coordinates, Part(coordinates)
  PROVE  Doc(referenceMap(ref, slot, purpose, coordinates))
<1> DEFINE m == [type |-> Text(ref.Type), digest_alg |-> Text(ref.DigestAlg),
                 digest |-> Digest(ref.Digest), slot |-> Opt(slot, Text),
                 citation_purpose |-> Opt(purpose, Text), log_coordinates |-> coordinates]
<1>1. \A k \in DOMAIN m : Part(m[k])
  BY LeavesAreDocs DEF Part, Opt
<1> HIDE DEF m
<1>2. Doc(Object(m))
  BY <1>1, ObjectPart
<1> QED BY <1>2 DEF referenceMap, m

\* digestReferenceMap and the source reference write documents.
LEMMA DigestReferenceDoc ==
  ASSUME NEW ref
  PROVE  Doc(digestReferenceMap(ref)) /\ Doc(sourceRefMap(ref))
         /\ Part(Opt(ref, digestReferenceMap)) /\ Part(Opt(ref, sourceRefMap))
<1>1. Doc(digestReferenceMap(ref)) /\ Doc(sourceRefMap(ref))
  BY ReferenceDoc DEF digestReferenceMap, sourceRefMap, Part
<1> QED BY <1>1 DEF Opt, Part

\* provenanceModeMap writes a document.
LEMMA ProvenanceModeDoc == ASSUME NEW p PROVE Doc(provenanceModeMap(p))
<1> DEFINE m == [mode |-> Text(p.Mode),
                 source_ref |-> Opt(p.SourceRef, sourceRefMap),
                 source_asserted_at |-> Opt(p.SourceAssertedAt, Text),
                 import_batch |-> Opt(p.ImportBatch, Text),
                 imported_at |-> Opt(p.ImportedAt, Text),
                 time_rung |-> Opt(p.TimeRung, Text)]
<1>1. \A k \in DOMAIN m : Part(m[k])
  BY LeavesAreDocs, DigestReferenceDoc DEF Part, Opt
<1> HIDE DEF m
<1>2. Doc(Object(m))
  BY <1>1, ObjectPart
<1> QED BY <1>2 DEF provenanceModeMap, m

\* The texts of an input are token sequences, its slices are sequences.
TextsOK(in) ==
  LET refs == in.References
  IN  /\ IsSeq(in.Extensions)
      /\ \A i \in DOMAIN in.Extensions : IsSeq(in.Extensions[i].Value)
      /\ refs # Nil =>
           /\ IsSeq(refs)
           /\ \A i \in DOMAIN refs :
                refs[i].LogCoordinates = Nil \/ IsSeq(refs[i].LogCoordinates)
      /\ in.compute # Nil => IsSeq(in.compute.ComposedMembers)

\* A loop over a slice makes a slice.
LEMMA MapSeq ==
  ASSUME NEW s, IsSeq(s), NEW t, DOMAIN t = DOMAIN s, t = [i \in DOMAIN t |-> t[i]]
  PROVE  IsSeq(t)
<1> DEFINE S == {t[i] : i \in DOMAIN t}
<1>1. Len(s) \in Nat /\ DOMAIN s = 1..Len(s)
  BY DEF IsSeq
<1>2. t \in [1..Len(s) -> S]
  BY <1>1
<1> HIDE DEF S
<1>3. t \in Seq(S)
  BY <1>1, <1>2
<1> QED BY <1>3 DEF IsSeq

\* References with their decoded coordinates are a document.
LEMMA ReferencesDoc ==
  ASSUME NEW in, TextsOK(in), in.References # Nil
  PROVE  Doc(referencesMap(in.References))
<1> DEFINE refs == in.References
           s == [i \in DOMAIN refs |->
                   referenceMap(refs[i], Nil, refs[i].CitationPurpose,
                                Opt(refs[i].LogCoordinates, marshalDigestValue))]
<1>1. ASSUME NEW i \in DOMAIN refs
      PROVE  Doc(s[i])
  <2> DEFINE x == refs[i].LogCoordinates
             c == Opt(x, marshalDigestValue)
  <2>1. x = Nil \/ Part(decodeStrictJSON(x))
    BY DecodedIsDoc DEF TextsOK, Part
  <2>2. Part(c)
    BY <2>1 DEF Opt, marshalDigestValue, Part
  <2> HIDE DEF c
  <2>3. Doc(referenceMap(refs[i], Nil, refs[i].CitationPurpose, c))
    BY <2>2, ReferenceDoc
  <2> QED BY <2>3 DEF c
<1>2. DOMAIN s = DOMAIN refs /\ s = [i \in DOMAIN s |-> s[i]]
  OBVIOUS
<1>3. IsSeq(refs)
  BY DEF TextsOK
<1>4. referencesMap(refs) = Array(s)
  BY Zenon DEF referencesMap
<1> HIDE DEF s
<1>5. IsSeq(s)
  BY <1>2, <1>3, MapSeq
<1>6. Doc(Array(s))
  BY <1>1, <1>2, <1>5, ArrayDoc
<1> QED BY <1>4, <1>6

\* So are the composed members.
LEMMA ComposedDoc ==
  ASSUME NEW m, IsSeq(m)
  PROVE  Doc(Array([i \in DOMAIN m |-> digestReferenceMap(m[i])]))
<1> DEFINE s == [i \in DOMAIN m |-> digestReferenceMap(m[i])]
<1>1. \A i \in DOMAIN s : Doc(s[i])
  BY DigestReferenceDoc
<1>2. DOMAIN s = DOMAIN m /\ s = [i \in DOMAIN s |-> s[i]]
  OBVIOUS
<1> HIDE DEF s
<1>3. IsSeq(s)
  BY <1>2, MapSeq
<1>4. Doc(Array(s))
  BY <1>1, <1>3, ArrayDoc
<1> QED BY <1>4 DEF s

\* computeAttestationMap writes a document, or nothing.
LEMMA ComputeAttestationDoc ==
  ASSUME NEW compute, NEW binding, binding # Nil => IsSeq(binding.ComposedMembers)
  PROVE  Part(computeAttestationMap(compute, binding))
<1> DEFINE c == IF compute = Nil THEN NoCompute ELSE compute
           b == IF binding = Nil THEN NoBinding ELSE binding
           m == b.ComposedMembers
           composed == IF m = <<>> THEN Nil
                       ELSE Array([i \in DOMAIN m |-> digestReferenceMap(m[i])])
           o == [agent_input_digest |-> Opt(c.AgentInputDigest, Digest),
                 agent_output_digest |-> Opt(c.AgentOutputDigest, Digest),
                 runtime |-> Opt(c.Runtime, Text),
                 carried_artifact |-> Opt(b.CarriedArtifact, digestReferenceMap),
                 carried_input_digest |-> Opt(b.CarriedInputDigest, Digest),
                 composed_members |-> composed]
<1>1. IsSeq(m)
  BY EmptyPath DEF NoBinding
<1> HIDE DEF m
<1>2. Part(composed)
  BY <1>1, ComposedDoc DEF Part
<1> HIDE DEF composed, b, c
<1>3. \A k \in DOMAIN o : Part(o[k])
  BY <1>2, LeavesAreDocs, DigestReferenceDoc DEF Part, Opt
<1> HIDE DEF o
<1>4. Part(ObjectIfAny(o))
  BY <1>3, ObjectPart
<1> QED BY <1>4, Zenon DEF computeAttestationMap, o, b, c, m, composed

\* modelAttestationMap writes a document, or nothing.
LEMMA ModelAttestationDoc ==
  ASSUME NEW in, TextsOK(in)
  PROVE  Part(modelAttestationMap(in))
<1> DEFINE m == IF in.Model = Nil THEN NoModel ELSE in.Model
           c == computeAttestationMap(in.Compute, in.compute)
           o == [model_id |-> Opt(m.ModelID, Text), provider |-> Opt(m.Provider, Text),
                 compute_attestation |-> c]
<1>1. Part(c)
  BY ComputeAttestationDoc DEF TextsOK
<1> HIDE DEF c, m
<1>2. \A k \in DOMAIN o : Part(o[k])
  BY <1>1, LeavesAreDocs DEF Part, Opt
<1> HIDE DEF o
<1>3. Part(ObjectIfAny(o))
  BY <1>2, ObjectPart
<1> QED BY <1>3, Zenon DEF modelAttestationMap, o, c, m

\* The members of a base payload.
Members(in) ==
  [spec_version |-> Text("-05"), format_version |-> Text("4"),
   canonicalization_id |-> Text("jcs"),
   action_id |-> Text(in.ActionID), action_type |-> Text(in.ActionType),
   operator |-> Text(in.Operator), developer |-> Text(in.Developer),
   timestamp |-> Leaf(formatTimestamp(in.Timestamp)),
   assurance |-> assuranceMap(in.Effect, in.Chain),
   epoch_id |-> Opt(in.EpochID, Text), domain |-> Opt(in.Domain, Text),
   provenance |-> Opt(in.Provenance, Text),
   provenance_mode |-> Opt(in.ProvenanceMode, provenanceModeMap),
   disposition |-> Opt(in.Disposition, dispositionMap),
   effect |-> Opt(in.Effect, effectMap),
   chain |-> Opt(in.Chain, chainMap),
   model_attestation |-> modelAttestationMap(in),
   references |-> Opt(in.References, referencesMap)]

\* Every member is a document, or absent.
LEMMA MembersAreParts ==
  ASSUME NEW in, TextsOK(in), NEW k \in DOMAIN Members(in)
  PROVE  Members(in)[k] = Nil \/ Doc(Members(in)[k])
<1> DEFINE a == Leaf(formatTimestamp(in.Timestamp))
           b == assuranceMap(in.Effect, in.Chain)
           c == Opt(in.ProvenanceMode, provenanceModeMap)
           d == Opt(in.Disposition, dispositionMap)
           e == Opt(in.Effect, effectMap)
           f == Opt(in.Chain, chainMap)
           g == modelAttestationMap(in)
           h == Opt(in.References, referencesMap)
           i == Opt(in.EpochID, Text)
           j == Opt(in.Domain, Text)
           l == Opt(in.Provenance, Text)
           m == [spec_version |-> Text("-05"), format_version |-> Text("4"),
                 canonicalization_id |-> Text("jcs"),
                 action_id |-> Text(in.ActionID), action_type |-> Text(in.ActionType),
                 operator |-> Text(in.Operator), developer |-> Text(in.Developer),
                 timestamp |-> a, assurance |-> b,
                 epoch_id |-> i, domain |-> j, provenance |-> l,
                 provenance_mode |-> c, disposition |-> d, effect |-> e, chain |-> f,
                 model_attestation |-> g, references |-> h]
<1>1. Part(a) /\ Part(b)
  <2> DEFINE n == (in.Timestamp.nanos \div 1000) * 1000
  <2>1. a = Leaf([nanos |-> n])
    BY Zenon DEF formatTimestamp
  <2> HIDE DEF n, a
  <2>2. Doc(Leaf([nanos |-> n]))
    BY LeavesAreDocs
  <2> QED BY <2>1, <2>2, AssuranceDoc DEF Part
<1>2. Part(c) /\ Part(d) /\ Part(e) /\ Part(f)
  BY ProvenanceModeDoc, DispositionDoc, EffectDoc, ChainDoc DEF Opt, Part
<1>3. Part(g) /\ Part(h)
  BY ModelAttestationDoc, ReferencesDoc DEF Opt, Part
<1>4. Part(i) /\ Part(j) /\ Part(l) /\ \A x : Part(Text(x))
  BY LeavesAreDocs DEF Opt, Part
<1>5. Members(in) = m
  BY Zenon DEF Members
<1> HIDE DEF a, b, c, d, e, f, g, h, i, j, l
<1>6. \A n \in DOMAIN m : Part(m[n])
  BY <1>1, <1>2, <1>3, <1>4
<1> HIDE DEF m
<1> QED BY <1>5, <1>6 DEF Part

\* The base payload is a document with each member at its name.
LEMMA BasePayloadDoc ==
  ASSUME NEW in, TextsOK(in)
  PROVE  /\ Doc(basePayload(in))
         /\ \A k \in DOMAIN Members(in) : \A q : IsSeq(q) =>
              At(basePayload(in), Under(k, q)) =
                IF Members(in)[k] = Nil THEN Nil ELSE At(Members(in)[k], q)
<1>1. basePayload(in) = Object(Members(in))
  BY Zenon DEF basePayload, Members
<1>2. \A k \in DOMAIN Members(in) : Members(in)[k] = Nil \/ Doc(Members(in)[k])
  BY MembersAreParts
<1> QED BY <1>1, <1>2, ObjectDoc, ObjectAt

-----------------------------------------------------------------------------
\* A member is replaced, the others stay.
LEMMA WithMemberAt ==
  ASSUME NEW d, Doc(d), NEW n, NEW v, Doc(v)
  PROVE  /\ Doc(WithMember(d, n, v))
         /\ \A k, q : k # n /\ IsSeq(q) =>
              At(WithMember(d, n, v), Under(k, q)) = At(d, Under(k, q))
         /\ \A q : IsSeq(q) => At(WithMember(d, n, v), Under(n, q)) = At(v, q)
         /\ \A p \in DOMAIN WithMember(d, n, v) :
              (p \in DOMAIN d /\ WithMember(d, n, v)[p] = d[p])
                \/ \E q \in DOMAIN v : WithMember(d, n, v)[p] = v[q]
<1> DEFINE kept == {p \in DOMAIN d : Head(p).key # n}
           new == {<<[key |-> n]>> \o p : p \in DOMAIN v}
           w == [p \in kept \cup new |-> IF p \in kept THEN d[p] ELSE v[Tail(p)]]
<1>1. WithMember(d, n, v) = w
  BY Zenon DEF WithMember
<1>2. ASSUME NEW q, IsSeq(q), NEW k
      PROVE  /\ Head(<<[key |-> k]>> \o q).key = k
             /\ Tail(<<[key |-> k]>> \o q) = q /\ IsSeq(<<[key |-> k]>> \o q)
  BY <1>2, Prefixed
<1>3. \A q \in DOMAIN v : IsSeq(q) /\ Scalar(v[q]) = v[q]
  BY DEF Doc
<1>4. \A q : q \in DOMAIN v => <<[key |-> n]>> \o q \in new
  OBVIOUS
<1>5. \A p \in new : \E q \in DOMAIN v : p = <<[key |-> n]>> \o q
  OBVIOUS
<1>6. \A p \in kept : p \in DOMAIN d /\ Head(p).key # n /\ IsSeq(p) /\ Scalar(d[p]) = d[p]
  BY DEF Doc
<1>7. \A p \in DOMAIN d : Head(p).key # n => p \in kept
  OBVIOUS
<1>8. ASSUME NEW p \in new
      PROVE  p \notin kept /\ Tail(p) \in DOMAIN v /\ IsSeq(p)
  <2>1. PICK q \in DOMAIN v : p = <<[key |-> n]>> \o q
    BY <1>5
  <2>2. Head(p).key = n /\ Tail(p) = q /\ IsSeq(p)
    BY <1>2, <1>3, <2>1
  <2> QED BY <1>6, <2>2
<1> HIDE DEF kept, new
<1>9. /\ DOMAIN w = kept \cup new /\ w = [p \in DOMAIN w |-> w[p]]
      /\ \A p \in kept : w[p] = d[p]
      /\ \A p \in new : p \notin kept => w[p] = v[Tail(p)]
  OBVIOUS
<1> HIDE DEF w
<1>10. Doc(w)
  BY <1>3, <1>6, <1>8, <1>9 DEF Doc
<1>11. ASSUME NEW k, NEW q, k # n, IsSeq(q)
       PROVE  At(w, Under(k, q)) = At(d, Under(k, q))
  <2> DEFINE p == <<[key |-> k]>> \o q
  <2>1. Head(p).key = k
    BY <1>11, <1>2
  <2> HIDE DEF p
  <2>2. p \notin new
    <3>1. \A r \in DOMAIN v : Head(<<[key |-> n]>> \o r).key = n
      BY <1>2, <1>3
    <3> QED BY <1>5, <1>11, <2>1, <3>1
  <2>3. p \in kept <=> p \in DOMAIN d
    BY <1>6, <1>7, <1>11, <2>1
  <2>4. At(w, p) = At(d, p)
    BY <1>9, <2>2, <2>3 DEF At
  <2> QED BY <2>4 DEF p, Under
<1>12. ASSUME NEW q, IsSeq(q)
       PROVE  At(w, Under(n, q)) = At(v, q)
  <2> DEFINE p == <<[key |-> n]>> \o q
  <2>1. Head(p).key = n /\ Tail(p) = q
    BY <1>12, <1>2
  <2>2. q \in DOMAIN v => p \in new
    BY <1>4
  <2> HIDE DEF p
  <2>3. p \notin kept
    BY <1>6, <2>1
  <2>4. p \in DOMAIN w <=> q \in DOMAIN v
    BY <1>8, <1>9, <2>1, <2>2, <2>3
  <2>5. At(w, p) = At(v, q)
    BY <1>9, <2>1, <2>2, <2>3, <2>4 DEF At
  <2> QED BY <2>5 DEF p, Under
<1>13. \A p \in DOMAIN w : (p \in DOMAIN d /\ w[p] = d[p]) \/ \E q \in DOMAIN v : w[p] = v[q]
  BY <1>6, <1>8, <1>9
<1> QED BY <1>1, <1>10, <1>11, <1>12, <1>13

\* A payload that agrees with another on every member of the base profile.
Extends(d, base) ==
  /\ Doc(d)
  /\ \A k \in baseMembers : \A q : IsSeq(q) =>
       At(d, Under(k, q)) = At(base, Under(k, q))

\* An extension adds a member outside the base profile (extension.go:28-52).
LEMMA OneExtension ==
  ASSUME NEW base, NEW d, Extends(d, base), NEW ext, IsSeq(ext.Value),
         WithExtension(d, ext.Name, extensionValue(ext, d)) # Nil
  PROVE  Extends(WithExtension(d, ext.Name, extensionValue(ext, d)), base)
<1> DEFINE v == extensionValue(ext, d)
<1>1. v # Nil
  BY DEF WithExtension
<1>2. ext.Name \notin baseMembers /\ v = UsableValue(decodeStrictJSON(ext.Value))
  BY <1>1 DEF extensionValue, extensionName
<1>3. v = decodeStrictJSON(ext.Value)
  BY <1>1, <1>2 DEF UsableValue
<1>4. Doc(v)
  BY <1>1, <1>3, DecodedIsDoc
<1>5. WithExtension(d, ext.Name, v) = WithMember(d, ext.Name, v)
  BY <1>1 DEF WithExtension
<1> HIDE DEF v
<1>6. Extends(WithMember(d, ext.Name, v), base)
  <2> DEFINE n == ext.Name
             w == WithMember(d, n, v)
  <2>1. Doc(d) /\ n \notin baseMembers
    BY <1>2 DEF Extends
  <2> HIDE DEF n
  <2>2. Doc(w)
    BY <1>4, <2>1, WithMemberAt
  <2>3. ASSUME NEW k \in baseMembers, NEW q, IsSeq(q)
        PROVE  At(w, Under(k, q)) = At(base, Under(k, q))
    <3>1. k # n
      BY <2>1
    <3>2. At(w, Under(k, q)) = At(d, Under(k, q))
      BY <1>4, <2>1, <2>3, <3>1, WithMemberAt
    <3> QED BY <2>3, <3>2 DEF Extends
  <2> HIDE DEF w
  <2>4. Extends(w, base)
    BY <2>2, <2>3 DEF Extends
  <2> QED BY <2>4 DEF w, n
<1>7. Extends(WithExtension(d, ext.Name, v), base)
  BY <1>5, <1>6
<1> QED BY <1>7 DEF v

\* The loop over the extensions, payload by payload.
LEMMA ExtensionRuns ==
  ASSUME NEW base, NEW exts, IsSeq(exts)
  PROVE  \E after :
           /\ withExtensions(base, exts) = after[Len(exts)]
           /\ \A i \in 0..Len(exts) :
                after[i] = IF i = 0 THEN base
                           ELSE IF after[i - 1] = Nil THEN Nil
                           ELSE WithExtension(after[i - 1], exts[i].Name,
                                              extensionValue(exts[i], after[i - 1]))
<1> DEFINE Next1(d, i) ==
             IF d = Nil THEN Nil ELSE WithExtension(d, exts[i].Name, extensionValue(exts[i], d))
           Rule(f, n) ==
             f = [i \in 0..n |->
                    IF i = 0 THEN base
                    ELSE IF f[i - 1] = Nil THEN Nil
                    ELSE WithExtension(f[i - 1], exts[i].Name, extensionValue(exts[i], f[i - 1]))]
           S == {n \in Nat : \E f : Rule(f, n)}
           after == CHOOSE f : Rule(f, Len(exts))
<1>1. Len(exts) \in Nat /\ DOMAIN exts = 1..Len(exts)
  BY DEF IsSeq
<1>2. 0 \in S
  <2> DEFINE f == [i \in 0..0 |-> base]
  <2>1. Rule(f, 0)
    OBVIOUS
  <2> QED BY <2>1
<1>3. ASSUME NEW n \in Nat, n \in S
      PROVE  n + 1 \in S
  <2>1. PICK f : Rule(f, n)
    BY <1>3
  <2> DEFINE g == [i \in 0..(n + 1) |-> IF i = n + 1 THEN Next1(f[n], n + 1) ELSE f[i]]
  <2>2. \A i \in 0..n : f[i] = IF i = 0 THEN base ELSE Next1(f[i - 1], i)
    BY <2>1, Zenon
  <2> HIDE DEF Next1
  <2>3. \A i \in 0..(n + 1) : g[i] = IF i = 0 THEN base ELSE Next1(g[i - 1], i)
    <3> SUFFICES ASSUME NEW i \in 0..(n + 1)
                 PROVE  g[i] = IF i = 0 THEN base ELSE Next1(g[i - 1], i)
      OBVIOUS
    <3>1. CASE i = n + 1
      BY <3>1
    <3>2. CASE i # n + 1
      BY <3>2, <2>2
    <3> QED BY <3>1, <3>2
  <2>4. g = [i \in 0..(n + 1) |-> g[i]]
    OBVIOUS
  <2> HIDE DEF g
  <2>5. g = [i \in 0..(n + 1) |-> IF i = 0 THEN base ELSE Next1(g[i - 1], i)]
    BY <2>3, <2>4
  <2>6. Rule(g, n + 1)
    BY <2>5, Zenon DEF Next1
  <2> QED BY <2>6
<1>4. Len(exts) \in S
  <2> HIDE DEF S
  <2> QED BY <1>1, <1>2, <1>3, Induction
<1>5. Rule(after, Len(exts))
  BY <1>4, Zenon
<1>6. withExtensions(base, exts) = after[Len(exts)]
  BY Zenon DEF withExtensions
<1> HIDE DEF after
<1>7. \A i \in 0..Len(exts) : after[i] = IF i = 0 THEN base ELSE Next1(after[i - 1], i)
  BY <1>5, Zenon
<1> QED BY <1>6, <1>7, Zenon DEF Next1

\* So the base profile is kept, by induction on the number of extensions.
LEMMA ExtensionsKeepBase ==
  ASSUME NEW base, Doc(base), NEW exts, IsSeq(exts),
         \A i \in DOMAIN exts : IsSeq(exts[i].Value),
         withExtensions(base, exts) # Nil
  PROVE  Extends(withExtensions(base, exts), base)
<1> DEFINE Next1(d, i) ==
             IF d = Nil THEN Nil ELSE WithExtension(d, exts[i].Name, extensionValue(exts[i], d))
<1>1. Len(exts) \in Nat /\ DOMAIN exts = 1..Len(exts)
  BY DEF IsSeq
<1>2. PICK after :
        /\ withExtensions(base, exts) = after[Len(exts)]
        /\ \A i \in 0..Len(exts) :
             after[i] = IF i = 0 THEN base
                        ELSE IF after[i - 1] = Nil THEN Nil
                        ELSE WithExtension(after[i - 1], exts[i].Name,
                                           extensionValue(exts[i], after[i - 1]))
  BY ExtensionRuns
<1> DEFINE T == {n \in Nat : n \in 0..Len(exts) => after[n] = Nil \/ Extends(after[n], base)}
<1>6. withExtensions(base, exts) = after[Len(exts)]
  BY <1>2
<1>7. \A i \in 0..Len(exts) : after[i] = IF i = 0 THEN base ELSE Next1(after[i - 1], i)
  BY <1>2, Zenon
<1>8. 0 \in T
  <2>1. after[0] = base
    BY <1>1, <1>7
  <2>2. Extends(base, base)
    BY DEF Extends
  <2> QED BY <2>1, <2>2
<1>9. ASSUME NEW n \in Nat, n \in T
      PROVE  n + 1 \in T
  <2>1. SUFFICES ASSUME n + 1 \in 0..Len(exts), after[n + 1] # Nil
                 PROVE  Extends(after[n + 1], base)
    OBVIOUS
  <2>2. n \in 0..Len(exts) /\ n + 1 # 0 /\ (n + 1) - 1 = n /\ n + 1 \in DOMAIN exts
    BY <1>1, <2>1
  <2>3. after[n + 1] = Next1(after[n], n + 1)
    BY <1>7, <2>1, <2>2
  <2>4. Extends(after[n], base) /\ IsSeq(exts[n + 1].Value)
    BY <1>9, <2>1, <2>2, <2>3
  <2>5. after[n + 1]
          = WithExtension(after[n], exts[n + 1].Name, extensionValue(exts[n + 1], after[n]))
    BY <2>1, <2>3
  <2> QED BY <2>1, <2>4, <2>5, OneExtension
<1>10. Len(exts) \in T
  <2> HIDE DEF T
  <2> QED BY <1>1, <1>8, <1>9, Induction
<1> QED BY <1>1, <1>6, <1>10

-----------------------------------------------------------------------------
\* What Build returns.

\* What Build returns is its base payload, extended, under its id.
LEMMA BuildParts ==
  ASSUME NEW in, TextsOK(in), Build(in) # Nil
  PROVE  \E payload :
           /\ validateInput(in)
           /\ Extends(payload, basePayload(in))
           /\ ValidUtf8(payload)
           /\ Build(in).CapsuleID = ComputeCapsuleID(payload)
           /\ Build(in).JSON
                = WithMember(payload, "capsule_id", Digest(ComputeCapsuleID(payload)))
           /\ verifyClass1(Build(in).JSON)
<1> DEFINE payload == withExtensions(basePayload(in), in.Extensions)
           id == ComputeCapsuleID(payload)
           b == Identified(payload, id)
<1>1. validateInput(in) /\ Build(in) = Completed(payload)
  BY Zenon DEF Build
<1>2. Build(in) = b /\ payload # Nil /\ ValidUtf8(payload) /\ verifyClass1(b.JSON)
  BY <1>1 DEF Completed, Checked, validatePayloadText
<1>3. Extends(payload, basePayload(in))
  BY <1>2, BasePayloadDoc, ExtensionsKeepBase DEF TextsOK
<1> HIDE DEF payload
<1>4. b.CapsuleID = id /\ b.JSON = WithMember(payload, "capsule_id", Digest(id))
  BY DEF Identified
<1> HIDE DEF b
<1> QED BY <1>1, <1>2, <1>3, <1>4

\* The members of the base profile, read in what Build returns.
LEMMA BuiltMembers ==
  ASSUME NEW in, TextsOK(in), Build(in) # Nil,
         NEW k \in DOMAIN Members(in), NEW q, IsSeq(q)
  PROVE  At(Build(in).JSON, Under(k, q))
           = IF Members(in)[k] = Nil THEN Nil ELSE At(Members(in)[k], q)
<1>1. PICK payload :
        /\ Extends(payload, basePayload(in))
        /\ Build(in).JSON
             = WithMember(payload, "capsule_id", Digest(ComputeCapsuleID(payload)))
  BY BuildParts
<1>2. k \in baseMembers /\ k # "capsule_id"
  BY DEF Members, baseMembers, WrittenMembers
<1> DEFINE v == Digest(ComputeCapsuleID(payload))
<1>3. Doc(v)
  BY LeavesAreDocs
<1> HIDE DEF v
<1>4. Doc(payload)
  BY <1>1 DEF Extends
<1>5. At(WithMember(payload, "capsule_id", v), Under(k, q)) = At(payload, Under(k, q))
  BY <1>2, <1>3, <1>4, WithMemberAt
<1>6. At(payload, Under(k, q)) = At(basePayload(in), Under(k, q))
  BY <1>1, <1>2 DEF Extends
<1>7. At(basePayload(in), Under(k, q))
        = IF Members(in)[k] = Nil THEN Nil ELSE At(Members(in)[k], q)
  BY BasePayloadDoc
<1> QED BY <1>1, <1>5, <1>6, <1>7 DEF v

\* Paths of one and of two keys, built from below.
LEMMA Paths ==
  /\ \A k : <<[key |-> k]>> = Under(k, <<>>)
  /\ \A k, l : <<[key |-> k], [key |-> l]>> = Under(k, Under(l, <<>>)) /\ IsSeq(Under(l, <<>>))
<1>1. ASSUME NEW x, NEW y
      PROVE  <<x>> \o <<>> = <<x>> /\ <<x>> \o <<y>> = <<x, y>>
  <2>1. <<x>> \in Seq({x, y}) /\ <<y>> \in Seq({x, y}) /\ <<x, y>> \in Seq({x, y})
    OBVIOUS
  <2>2. <<x>> \o <<y>> = <<x, y>>
    <3> DEFINE s == <<x>> \o <<y>>
               u == <<x, y>>
    <3>1. s \in Seq({x, y}) /\ Len(s) = 2 /\ s[1] = x /\ s[2] = y
      BY <2>1
    <3>2. u \in Seq({x, y}) /\ Len(u) = 2 /\ u[1] = x /\ u[2] = y
      BY <2>1
    <3> HIDE DEF s, u
    <3>3. \A i \in 1..Len(s) : s[i] = u[i]
      BY <3>1, <3>2
    <3>4. s = u
      BY <3>1, <3>2, <3>3, SeqEqual
    <3> QED BY <3>4 DEF s, u
  <2>3. <<x>> \o <<>> = <<x>>
    BY <2>1, ConcatEmptySeq
  <2> QED BY <2>2, <2>3
<1>2. \A l : IsSeq(Under(l, <<>>))
  BY EmptyPath, Prefixed DEF Under
<1> QED BY <1>1, <1>2 DEF Under

\* A document is not the nil of an error.
LEMMA DocIsNotNil ==
  ASSUME NilIsNoValue, NEW d, Doc(d)
  PROVE  d # Nil
  BY DEF NilIsNoValue, Doc

\* VerifyCapsule accepts what Build returned, under the id it returned.
LEMMA BuildVerifies ==
  ASSUME NilIsNoValue, NEW in, TextsOK(in), Build(in) # Nil
  PROVE  VerifyCapsule(Build(in).JSON)
           = IF DepthOk(Build(in).JSON) THEN Build(in).CapsuleID ELSE Nil
<1>1. PICK payload :
        /\ Extends(payload, basePayload(in))
        /\ ValidUtf8(payload)
        /\ Build(in).CapsuleID = ComputeCapsuleID(payload)
        /\ Build(in).JSON
             = WithMember(payload, "capsule_id", Digest(ComputeCapsuleID(payload)))
        /\ verifyClass1(Build(in).JSON)
  BY BuildParts
<1> DEFINE id == ComputeCapsuleID(payload)
           json == WithMember(payload, "capsule_id", Digest(id))
<1>2. Build(in).CapsuleID = id /\ Build(in).JSON = json /\ verifyClass1(json)
  BY <1>1
<1>3. Doc(payload) /\ Doc(Digest(id)) /\ At(Digest(id), <<>>) = [digest |-> id]
      /\ \A q \in DOMAIN Digest(id) : Digest(id)[q] = [digest |-> id]
  BY <1>1, LeavesAreDocs DEF Extends, Digest, Leaf
<1> HIDE DEF id
<1>4. /\ Doc(json)
      /\ At(json, Under("capsule_id", <<>>)) = [digest |-> id]
      /\ \A p \in DOMAIN json :
           (p \in DOMAIN payload /\ json[p] = payload[p]) \/ json[p] = [digest |-> id]
  BY <1>3, WithMemberAt, EmptyPath
<1> HIDE DEF json
<1>5. ValidUtf8(json)
  <2>1. \A t : [digest |-> id] # [text |-> t]
    <3>1. DOMAIN [digest |-> id] = {"digest"} /\ \A t : DOMAIN [text |-> t] = {"text"}
      OBVIOUS
    <3> QED BY <3>1
  <2> QED BY <1>1, <1>4, <2>1 DEF ValidUtf8
<1>6. DecodePayload(json) = IF DepthOk(json) THEN json ELSE Nil
  <2>1. json # Nil
    BY <1>4, DocIsNotNil
  <2>2. [p \in DOMAIN json |-> Scalar(json[p])] = json
    BY <1>4 DEF Doc
  <2> QED BY <1>5, <2>1, <2>2 DEF DecodePayload
<1>7. VerifiedId(Nil) = Nil
  BY DEF VerifiedId
<1>8. VerifiedId(json) = id
  <2>1. /\ "format_version" \in DOMAIN Members(in)
        /\ Members(in)["format_version"] = Text("4")
        /\ "canonicalization_id" \in DOMAIN Members(in)
        /\ Members(in)["canonicalization_id"] = Text("jcs")
    BY DEF Members
  <2>2. \A s : Text(s) # Nil /\ At(Text(s), <<>>) = [text |-> s]
    BY LeavesAreDocs, DocIsNotNil
  <2>3. At(json, Under("format_version", <<>>)) = [text |-> "4"]
    BY <1>2, <2>1, <2>2, BuiltMembers, EmptyPath
  <2>4. At(json, Under("canonicalization_id", <<>>)) = [text |-> "jcs"]
    BY <1>2, <2>1, <2>2, BuiltMembers, EmptyPath
  <2>5. ComputeCapsuleID(json) = id
    <3>1. At(json, IdPath) = [digest |-> ComputeCapsuleID(json)]
      BY <1>2 DEF verifyClass1
    <3>2. [digest |-> id] = [digest |-> ComputeCapsuleID(json)]
      BY <1>4, <3>1, Paths DEF IdPath
    <3> QED BY <3>2
  <2>6. json # Nil
    BY <1>4, DocIsNotNil
  <2>7. /\ At(json, <<[key |-> "format_version"]>>) = [text |-> "4"]
        /\ At(json, <<[key |-> "canonicalization_id"]>>) = [text |-> "jcs"]
    BY <2>3, <2>4, Paths
  <2> QED BY <1>2, <2>5, <2>6, <2>7, Zenon DEF VerifiedId
<1>9. VerifyCapsule(json) = IF DepthOk(json) THEN id ELSE Nil
  BY <1>6, <1>7, <1>8, Zenon DEF VerifyCapsule
<1> QED BY <1>2, <1>9

\* The assurance a capsule claims is backed by its other members.
LEMMA BuildBacked ==
  ASSUME NilIsNoValue, NEW in, TextsOK(in), Build(in) # Nil
  PROVE  LET M(k, l) == At(Build(in).JSON, <<[key |-> k], [key |-> l]>>)
         IN  /\ M("assurance", "effect_mode") = [text |-> "confirmed"]
                  => /\ M("effect", "response_digest") # Nil
                     /\ M("effect", "effect_attestation") # Nil
             /\ M("assurance", "effect_mode") = [text |-> "not_applicable"]
                  <=> M("effect", "effect_attestation") = Nil
             /\ M("disposition", "verdict_class") \in {[text |-> v] : v \in NeverDispatched}
                  => M("assurance", "effect_mode") = [text |-> "not_applicable"]
             /\ M("assurance", "ledger_mode") = [text |-> "chained"]
                  <=> M("chain", "parent_capsule_id") # Nil
<1> DEFINE json == Build(in).JSON
           M(k, l) == At(json, <<[key |-> k], [key |-> l]>>)
           e == in.Effect
           c == in.Chain
           O(k) == Members(in)[k]
<1>1. validateInput(in) /\ verifyClass1(json)
  BY BuildParts
<1>0. M("disposition", "verdict_class") \in {[text |-> v] : v \in NeverDispatched}
        => M("effect", "status") \in {Nil, [text |-> "planned"]}
  BY <1>1, Zenon DEF verifyClass1, verdictAllowsEffect, MemberOf
<1>2. ASSUME NEW k \in DOMAIN Members(in), NEW l
      PROVE  M(k, l) = IF O(k) = Nil THEN Nil ELSE At(O(k), Under(l, <<>>))
  <2>1. <<[key |-> k], [key |-> l]>> = Under(k, Under(l, <<>>)) /\ IsSeq(Under(l, <<>>))
    BY Paths
  <2>2. M(k, l) = At(json, Under(k, Under(l, <<>>)))
    BY <2>1, Zenon
  <2> DEFINE q == Under(l, <<>>)
  <2> HIDE DEF q
  <2>3. IsSeq(q)
    BY <2>1 DEF q
  <2>4. At(Build(in).JSON, Under(k, q))
          = IF Members(in)[k] = Nil THEN Nil ELSE At(Members(in)[k], q)
    BY <2>3, BuiltMembers
  <2> QED BY <2>2, <2>4, Zenon DEF q
<1>3. /\ {"assurance", "effect", "chain"} \subseteq DOMAIN Members(in)
      /\ O("assurance") = assuranceMap(e, c)
      /\ O("effect") = IF e = Nil THEN Nil ELSE effectMap(e)
      /\ O("chain") = IF c = Nil THEN Nil ELSE chainMap(c)
  BY DEF Members, Opt
<1>4. \A s : /\ Text(s) # Nil /\ At(Text(s), <<>>) = [text |-> s] /\ [text |-> s] # Nil
             /\ Digest(s) # Nil /\ At(Digest(s), <<>>) = [digest |-> s] /\ [digest |-> s] # Nil
  <2>1. \A s : [text |-> s] # Nil /\ [digest |-> s] # Nil
    BY DEF NilIsNoValue
  <2> QED BY <2>1, LeavesAreDocs, DocIsNotNil
<1>5. /\ At(assuranceMap(e, c), Under("effect_mode", <<>>)) = [text |-> effectMode(e)]
      /\ At(assuranceMap(e, c), Under("ledger_mode", <<>>))
           = [text |-> IF c = Nil THEN "standalone" ELSE "chained"]
  <2> DEFINE x == Text(effectMode(e))
             y == Text(IF c = Nil THEN "standalone" ELSE "chained")
             m == [effect_mode |-> x, attestation_mode |-> Text("self_attested"), ledger_mode |-> y]
  <2>1. x # Nil /\ At(x, <<>>) = [text |-> effectMode(e)] /\ Doc(x)
    BY <1>4, LeavesAreDocs
  <2>2. y # Nil /\ At(y, <<>>) = [text |-> IF c = Nil THEN "standalone" ELSE "chained"] /\ Doc(y)
    BY <1>4, LeavesAreDocs, Zenon
  <2>3. assuranceMap(e, c) = Object(m)
    BY Zenon DEF assuranceMap
  <2> HIDE DEF x, y
  <2>4. /\ DOMAIN m = {"effect_mode", "attestation_mode", "ledger_mode"}
        /\ m["effect_mode"] = x /\ m["ledger_mode"] = y
        /\ \A k \in DOMAIN m : m[k] = Nil \/ Doc(m[k])
    BY <2>1, <2>2, LeavesAreDocs
  <2> HIDE DEF m
  <2>5. /\ At(Object(m), Under("effect_mode", <<>>)) = At(x, <<>>)
        /\ At(Object(m), Under("ledger_mode", <<>>)) = At(y, <<>>)
    BY <2>1, <2>2, <2>4, ObjectAt, EmptyPath
  <2> QED BY <2>1, <2>2, <2>3, <2>5
<1>6. ASSUME e # Nil
      PROVE  /\ effectMap(e) # Nil
             /\ At(effectMap(e), Under("response_digest", <<>>)) = Nil <=> e.ResponseDigest = Nil
             /\ At(effectMap(e), Under("effect_attestation", <<>>)) = Nil
                  <=> e.EffectAttestation = Nil
             /\ At(effectMap(e), Under("status", <<>>)) = [text |-> e.Status]
  <2> DEFINE x == Opt(e.ResponseDigest, Digest)
             z == Text(e.Status)
             y == Opt(e.EffectAttestation, Text)
             m == [type |-> Text(e.Type), status |-> z,
                   irreversibility_class |-> Text(e.IrreversibilityClass),
                   effect_attestation |-> y,
                   request_digest |-> Opt(e.RequestDigest, Digest),
                   response_digest |-> x,
                   external_ref |-> Opt(e.ExternalRef, Text)]
  <2>1. /\ x = Nil \/ Doc(x)
        /\ (IF x = Nil THEN Nil ELSE At(x, <<>>)) = Nil <=> e.ResponseDigest = Nil
    BY <1>4, LeavesAreDocs DEF Opt
  <2>2. /\ y = Nil \/ Doc(y)
        /\ (IF y = Nil THEN Nil ELSE At(y, <<>>)) = Nil <=> e.EffectAttestation = Nil
    BY <1>4, LeavesAreDocs DEF Opt
  <2>3. effectMap(e) = Object(m)
    BY Zenon DEF effectMap
  <2>8. z # Nil /\ Doc(z) /\ At(z, <<>>) = [text |-> e.Status]
    BY <1>4, LeavesAreDocs
  <2> HIDE DEF x, y, z
  <2>4. /\ "response_digest" \in DOMAIN m /\ "effect_attestation" \in DOMAIN m
        /\ m["response_digest"] = x /\ m["effect_attestation"] = y
        /\ "status" \in DOMAIN m /\ m["status"] = z
        /\ \A k \in DOMAIN m : m[k] = Nil \/ Doc(m[k])
    BY <2>1, <2>2, <2>8, LeavesAreDocs DEF Opt
  <2> HIDE DEF m
  <2>5. At(Object(m), Under("response_digest", <<>>)) = IF x = Nil THEN Nil ELSE At(x, <<>>)
    BY <2>4, ObjectAt, EmptyPath
  <2>6. At(Object(m), Under("effect_attestation", <<>>)) = IF y = Nil THEN Nil ELSE At(y, <<>>)
    BY <2>4, ObjectAt, EmptyPath
  <2>9. At(Object(m), Under("status", <<>>)) = [text |-> e.Status]
    BY <2>4, <2>8, ObjectAt, EmptyPath
  <2>7. Object(m) # Nil
    BY <2>4, ObjectDoc, DocIsNotNil
  <2> QED BY <2>1, <2>2, <2>3, <2>5, <2>6, <2>7, <2>9
<1>7. chainMap(c) # Nil /\ At(chainMap(c), Under("parent_capsule_id", <<>>)) # Nil
  <2> DEFINE m == [parent_capsule_id |-> Digest(c.ParentCapsuleID), relation |-> Text(c.Relation)]
  <2>1. /\ "parent_capsule_id" \in DOMAIN m
        /\ m["parent_capsule_id"] = Digest(c.ParentCapsuleID)
        /\ \A k \in DOMAIN m : m[k] = Nil \/ Doc(m[k])
    BY LeavesAreDocs
  <2> HIDE DEF m
  <2>2. At(Object(m), Under("parent_capsule_id", <<>>)) = At(Digest(c.ParentCapsuleID), <<>>)
    BY <1>4, <2>1, ObjectAt, EmptyPath
  <2>3. Object(m) # Nil
    BY <2>1, ObjectDoc, DocIsNotNil
  <2>4. chainMap(c) = Object(m)
    BY Zenon DEF chainMap, m
  <2> QED BY <1>4, <2>2, <2>3, <2>4
<1>8. /\ M("assurance", "effect_mode") = [text |-> effectMode(e)]
      /\ M("assurance", "ledger_mode") = [text |-> IF c = Nil THEN "standalone" ELSE "chained"]
  <2>1. assuranceMap(e, c) # Nil
    BY AssuranceDoc, DocIsNotNil
  <2> HIDE DEF M, O
  <2> QED BY <1>2, <1>3, <1>5, <2>1
<1>9. /\ M("effect", "response_digest") = Nil <=> e = Nil \/ e.ResponseDigest = Nil
      /\ M("effect", "effect_attestation") = Nil <=> e = Nil \/ e.EffectAttestation = Nil
      /\ M("chain", "parent_capsule_id") = Nil <=> c = Nil
      /\ M("effect", "status") = IF e = Nil THEN Nil ELSE [text |-> e.Status]
  <2> HIDE DEF M, O
  <2> QED BY <1>2, <1>3, <1>6, <1>7
<1>10. e # Nil => validEffect(e)
  BY <1>1 DEF validateInput
<1> HIDE DEF M
<1>11. /\ M("assurance", "effect_mode") = [text |-> "confirmed"]
            => M("effect", "response_digest") # Nil /\ M("effect", "effect_attestation") # Nil
       /\ M("assurance", "effect_mode") = [text |-> "not_applicable"]
            <=> M("effect", "effect_attestation") = Nil
  BY <1>8, <1>9, <1>10 DEF effectMode, validEffect
<1>12. M("assurance", "ledger_mode") = [text |-> "chained"] <=> M("chain", "parent_capsule_id") # Nil
  BY <1>8, <1>9
<1>13. M("disposition", "verdict_class") \in {[text |-> v] : v \in NeverDispatched}
         => M("assurance", "effect_mode") = [text |-> "not_applicable"]
  <2>1. M("effect", "status") \in {Nil, [text |-> "planned"]} => e = Nil \/ e.Status = "planned"
    <3>1. \A s : [text |-> s] # Nil /\ ([text |-> s] = [text |-> "planned"] => s = "planned")
      BY <1>4
    <3> QED BY <1>9, <3>1
  <2>2. e = Nil \/ e.Status = "planned" => effectMode(e) = "not_applicable"
    BY DEF effectMode
  <2> QED BY <1>0, <1>8, <2>1, <2>2
<1> QED BY <1>11, <1>12, <1>13 DEF M

-----------------------------------------------------------------------------
\* What stands at a path under a member of the base payload.
MemberPart(in, k, q) == IF Members(in)[k] = Nil THEN Nil ELSE At(Members(in)[k], q)

\* An id determines everything outside the members that it leaves out.
LEMMA IdDetermines ==
  ASSUME NEW d, NEW e, ComputeCapsuleID(d) = ComputeCapsuleID(e),
         NEW k, k \notin LocalOnly, NEW q, IsSeq(q)
  PROVE  At(d, Under(k, q)) = At(e, Under(k, q))
<1> DEFINE p == Under(k, q)
           left(x) == [r \in {s \in DOMAIN x : Head(s).key \notin LocalOnly} |-> x[r]]
<1>1. Head(p).key = k
  BY Prefixed DEF Under
<1>2. left(d) = left(e)
  <2>1. \A x : ComputeCapsuleID(x) = [capsule |-> left(x)]
    BY Zenon DEF ComputeCapsuleID
  <2> HIDE DEF left
  <2>2. [capsule |-> left(d)].capsule = [capsule |-> left(e)].capsule
    BY <2>1
  <2> QED BY <2>2
<1> HIDE DEF p
<1>3. \A x : /\ p \in DOMAIN left(x) <=> p \in DOMAIN x
             /\ p \in DOMAIN x => left(x)[p] = x[p]
  BY <1>1
<1> HIDE DEF left
<1>4. At(d, p) = At(e, p)
  BY <1>2, <1>3 DEF At
<1> QED BY <1>4 DEF p

\* Two inputs of one capsule id agree on every member of the base payload, and so
\* on the texts it carries, on the microsecond and on which structs are absent: no
\* extension passes for a member or hides one (build.go:22-113, extension.go:13-24).
THEOREM IdCommitsMembers ==
  ASSUME NilIsNoValue, NEW in1, NEW in2, TextsOK(in1), TextsOK(in2),
         Build(in1) # Nil, Build(in2) # Nil,
         Build(in1).CapsuleID = Build(in2).CapsuleID
  PROVE  /\ \A k \in DOMAIN Members(in1) : \A q : IsSeq(q) =>
              MemberPart(in1, k, q) = MemberPart(in2, k, q)
         /\ in1.ActionID = in2.ActionID /\ in1.ActionType = in2.ActionType
         /\ in1.Operator = in2.Operator /\ in1.Developer = in2.Developer
         /\ in1.EpochID = in2.EpochID /\ in1.Domain = in2.Domain
         /\ in1.Provenance = in2.Provenance
         /\ formatTimestamp(in1.Timestamp) = formatTimestamp(in2.Timestamp)
<1>1. PICK payload1 :
        /\ Extends(payload1, basePayload(in1))
        /\ Build(in1).CapsuleID = ComputeCapsuleID(payload1)
  BY BuildParts
<1>2. PICK payload2 :
        /\ Extends(payload2, basePayload(in2))
        /\ Build(in2).CapsuleID = ComputeCapsuleID(payload2)
  BY BuildParts
<1>3. DOMAIN Members(in1) = DOMAIN Members(in2)
  BY DEF Members
<1>4. ASSUME NEW k \in DOMAIN Members(in1), NEW q, IsSeq(q)
      PROVE  MemberPart(in1, k, q) = MemberPart(in2, k, q)
  <2>1. k \in baseMembers /\ k \notin LocalOnly
    BY DEF Members, baseMembers, WrittenMembers, LocalOnly
  <2>2. At(payload1, Under(k, q)) = At(payload2, Under(k, q))
    <3>1. ComputeCapsuleID(payload1) = ComputeCapsuleID(payload2)
      BY <1>1, <1>2
    <3>2. k \notin LocalOnly /\ IsSeq(q)
      BY <1>4, <2>1
    <3> QED BY <3>1, <3>2, IdDetermines
  <2>3. /\ At(payload1, Under(k, q)) = At(basePayload(in1), Under(k, q))
        /\ At(payload2, Under(k, q)) = At(basePayload(in2), Under(k, q))
    BY <1>1, <1>2, <1>4, <2>1 DEF Extends
  <2>4. At(basePayload(in1), Under(k, q)) = MemberPart(in1, k, q)
    BY <1>4, BasePayloadDoc DEF MemberPart
  <2>5. At(basePayload(in2), Under(k, q)) = MemberPart(in2, k, q)
    BY <1>3, <1>4, BasePayloadDoc DEF MemberPart
  <2> QED BY <2>2, <2>3, <2>4, <2>5
<1> DEFINE leaf(s) == [text |-> s]
<1>5. \A s : /\ Text(s) # Nil /\ At(Text(s), <<>>) = leaf(s) /\ leaf(s) # Nil
  <2>1. \A s : [text |-> s] # Nil
    BY DEF NilIsNoValue
  <2> QED BY <2>1, LeavesAreDocs, DocIsNotNil
<1>6. \A s, t : leaf(s) = leaf(t) => s = t
  <2>1. \A s : [text |-> s].text = s
    OBVIOUS
  <2> QED BY <2>1
<1> HIDE DEF leaf
<1>7. ASSUME NEW in
      PROVE  /\ MemberPart(in, "action_id", <<>>) = leaf(in.ActionID)
             /\ MemberPart(in, "action_type", <<>>) = leaf(in.ActionType)
             /\ MemberPart(in, "operator", <<>>) = leaf(in.Operator)
             /\ MemberPart(in, "developer", <<>>) = leaf(in.Developer)
  <2>1. /\ Members(in)["action_id"] = Text(in.ActionID)
        /\ Members(in)["action_type"] = Text(in.ActionType)
        /\ Members(in)["operator"] = Text(in.Operator)
        /\ Members(in)["developer"] = Text(in.Developer)
    BY DEF Members
  <2> QED BY <1>5, <2>1 DEF MemberPart
<1>8. ASSUME NEW in
      PROVE  /\ MemberPart(in, "epoch_id", <<>>)
                  = IF in.EpochID = Nil THEN Nil ELSE leaf(in.EpochID)
             /\ MemberPart(in, "domain", <<>>)
                  = IF in.Domain = Nil THEN Nil ELSE leaf(in.Domain)
             /\ MemberPart(in, "provenance", <<>>)
                  = IF in.Provenance = Nil THEN Nil ELSE leaf(in.Provenance)
  <2>1. /\ Members(in)["epoch_id"] = IF in.EpochID = Nil THEN Nil ELSE Text(in.EpochID)
        /\ Members(in)["domain"] = IF in.Domain = Nil THEN Nil ELSE Text(in.Domain)
        /\ Members(in)["provenance"] = IF in.Provenance = Nil THEN Nil ELSE Text(in.Provenance)
    BY DEF Members, Opt
  <2> QED BY <1>5, <2>1 DEF MemberPart
<1>9. ASSUME NEW in
      PROVE  MemberPart(in, "timestamp", <<>>) = formatTimestamp(in.Timestamp)
  <2> DEFINE x == formatTimestamp(in.Timestamp)
             l == Leaf(x)
  <2>1. Members(in)["timestamp"] = l
    BY DEF Members
  <2> HIDE DEF x
  <2>2. l = [p \in DOMAIN l |-> l[p]] /\ At(l, <<>>) = x
    BY DEF Leaf, At
  <2> HIDE DEF l
  <2>3. l # Nil
    BY <2>2 DEF NilIsNoValue
  <2>4. MemberPart(in, "timestamp", <<>>) = x
    BY <2>1, <2>2, <2>3 DEF MemberPart
  <2> QED BY <2>4 DEF x
<1>10. \A k \in {"action_id", "action_type", "operator", "developer", "timestamp",
                  "epoch_id", "domain", "provenance"} :
         MemberPart(in1, k, <<>>) = MemberPart(in2, k, <<>>)
  <2>1. {"action_id", "action_type", "operator", "developer", "timestamp",
         "epoch_id", "domain", "provenance"} \subseteq DOMAIN Members(in1)
    BY DEF Members
  <2> QED BY <1>4, <2>1, EmptyPath
<1>11. /\ in1.ActionID = in2.ActionID /\ in1.ActionType = in2.ActionType
       /\ in1.Operator = in2.Operator /\ in1.Developer = in2.Developer
  BY <1>6, <1>7, <1>10
<1>12. in1.EpochID = in2.EpochID /\ in1.Domain = in2.Domain /\ in1.Provenance = in2.Provenance
  BY <1>5, <1>6, <1>8, <1>10
<1>13. formatTimestamp(in1.Timestamp) = formatTimestamp(in2.Timestamp)
  BY <1>9, <1>10
<1> QED BY <1>4, <1>11, <1>12, <1>13

-----------------------------------------------------------------------------
\* VerifyCapsule of no JSON is an error.
LEMMA VerifyNothing == VerifyCapsule(Nil) = Nil
BY DEF VerifyCapsule, VerifiedId, DecodePayload

\* The member Build adds last is at its place in the payload (build.go:102).
LEMMA IdIsPlaced ==
  ASSUME NEW payload, NEW id
  PROVE  LET whole == WithMember(payload, "capsule_id", Digest(id))
         IN  IdPath \in DOMAIN whole /\ whole[IdPath] = [digest |-> id]
<1> DEFINE value == Digest(id)
           kept == {p \in DOMAIN payload : Head(p).key # "capsule_id"}
           new == {<<[key |-> "capsule_id"]>> \o p : p \in DOMAIN value}
<1>1. DOMAIN value = {<<>>} /\ value[<<>>] = [digest |-> id]
  BY DEF Digest, Leaf
<1>2. IdPath = <<[key |-> "capsule_id"]>> \o <<>>
  BY DEF IdPath
<1>3. IdPath \in new
  BY <1>1, <1>2
<1>4. Head(IdPath).key = "capsule_id" /\ Tail(IdPath) = <<>>
  BY DEF IdPath
<1>5. IdPath \notin kept
  BY <1>4
<1> QED
  BY <1>1, <1>3, <1>4, <1>5 DEF WithMember

\* The decoder leaves a digest as it is (build.go:541).
LEMMA ScalarKeepsDigests ==
  ASSUME NEW id
  PROVE  Scalar([digest |-> id]) = [digest |-> id]
<1>1. DOMAIN [digest |-> id] = {"digest"} /\ DOMAIN [num |-> "-0"] = {"num"}
  OBVIOUS
<1>2. [digest |-> id] # [num |-> "-0"]
  BY <1>1
<1> QED
  BY <1>2 DEF Scalar

\* Whatever Build returns, VerifyCapsule accepts under the id Build returned with
\* it or under none (build.go:98-111, verify.go:85-100).
THEOREM BuiltVerifiesAsItself ==
  ASSUME NEW in, Build(in) # Nil
  PROVE  VerifyCapsule(Build(in).JSON) \in {Build(in).CapsuleID, Nil}
<1> DEFINE payload == withExtensions(basePayload(in), in.Extensions)
           id == ComputeCapsuleID(payload)
           whole == WithMember(payload, "capsule_id", Digest(id))
           decoded == DecodePayload(whole)
<1>1. Build(in) = [CapsuleID |-> id, JSON |-> whole]
  BY DEF Build, Completed, Checked, Identified
<1>2. SUFFICES ASSUME VerifyCapsule(whole) # Nil
               PROVE  VerifyCapsule(whole) = id
  BY <1>1
<1>3. VerifyCapsule(whole) = ComputeCapsuleID(decoded) /\ verifyClass1(decoded)
      /\ decoded # Nil
  BY <1>2 DEF VerifyCapsule, VerifiedId
<1>4. decoded = [p \in DOMAIN whole |-> Scalar(whole[p])]
  BY <1>3 DEF DecodePayload
<1>5. IdPath \in DOMAIN whole /\ whole[IdPath] = [digest |-> id]
  BY IdIsPlaced
<1> HIDE DEF whole
<1>6. At(decoded, IdPath) = [digest |-> id]
  BY <1>4, <1>5, ScalarKeepsDigests DEF At
<1>7. At(decoded, IdPath) = [digest |-> ComputeCapsuleID(decoded)]
  BY <1>3 DEF verifyClass1
<1>8. [digest |-> id].digest = [digest |-> ComputeCapsuleID(decoded)].digest
  BY <1>6, <1>7
<1> QED
  BY <1>3, <1>8

-----------------------------------------------------------------------------
\* What stands at a path of a part that may be missing, and the path of an item.
Sub(d, q) == IF d = Nil THEN Nil ELSE At(d, q)
Item(i, q) == <<[index |-> i]>> \o q

\* What stands at a path of an array stands in its item, or nowhere.
LEMMA ArrayAt ==
  ASSUME NEW s, IsSeq(s), s # <<>>, \A i \in DOMAIN s : Doc(s[i]),
         NEW j \in Nat, NEW q, IsSeq(q)
  PROVE  At(Array(s), Item(j - 1, q)) = IF j \in DOMAIN s THEN At(s[j], q) ELSE Nil
<1> DEFINE under(i) == {<<[index |-> i - 1]>> \o p : p \in DOMAIN s[i]}
           paths == UNION {under(i) : i \in DOMAIN s}
           d == [p \in paths |-> s[Head(p).index + 1][Tail(p)]]
           r == <<[index |-> j - 1]>> \o q
<1>1. Array(s) = d
  BY Zenon DEF Array
<1>2. Head(r).index = j - 1 /\ Tail(r) = q
  BY Prefixed
<1>3. j \in DOMAIN s /\ q \in DOMAIN s[j] => r \in paths
  OBVIOUS
<1>4. \A p \in paths : \E i \in DOMAIN s : \E x \in DOMAIN s[i] : p = <<[index |-> i - 1]>> \o x
  OBVIOUS
<1>5. DOMAIN d = paths /\ (r \in paths => d[r] = s[Head(r).index + 1][Tail(r)])
  OBVIOUS
<1> HIDE DEF d, paths
<1>6. r \in paths => j \in DOMAIN s /\ q \in DOMAIN s[j]
  <2> SUFFICES ASSUME r \in paths PROVE j \in DOMAIN s /\ q \in DOMAIN s[j]
    OBVIOUS
  <2>1. PICK i \in DOMAIN s : \E x \in DOMAIN s[i] : r = <<[index |-> i - 1]>> \o x
    BY <1>4
  <2>2. PICK x \in DOMAIN s[i] : r = <<[index |-> i - 1]>> \o x
    BY <2>1
  <2>3. IsSeq(x) /\ i \in Nat
    BY DEF Doc, IsSeq
  <2>4. Head(r).index = i - 1 /\ Tail(r) = x
    BY <2>2, <2>3, Prefixed
  <2>5. i = j
    BY <1>2, <2>3, <2>4
  <2> QED BY <1>2, <2>4, <2>5
<1>7. r \in paths => d[r] = s[j][q]
  <2>1. (j - 1) + 1 = j
    OBVIOUS
  <2> QED BY <1>2, <1>5, <2>1
<1> HIDE DEF r
<1>8. At(d, r) = IF j \in DOMAIN s THEN At(s[j], q) ELSE Nil
  BY <1>3, <1>5, <1>6, <1>7 DEF At
<1> QED BY <1>1, <1>8 DEF Item, r

\* The same for an object that is left out when it is empty.
LEMMA ObjectIfAnyAt ==
  ASSUME NilIsNoValue, NEW m, \A k \in DOMAIN m : Part(m[k]),
         NEW k \in DOMAIN m, NEW q, IsSeq(q)
  PROVE  Sub(ObjectIfAny(m), Under(k, q)) = Sub(m[k], q)
<1>1. CASE \A l \in DOMAIN m : m[l] = Nil
  BY <1>1 DEF ObjectIfAny, Sub
<1>2. CASE ~ \A l \in DOMAIN m : m[l] = Nil
  <2>1. ObjectIfAny(m) = Object(m)
    BY <1>2, Zenon DEF ObjectIfAny
  <2>2. Object(m) # Nil
    BY ObjectPart, DocIsNotNil
  <2>3. At(Object(m), Under(k, q)) = IF m[k] = Nil THEN Nil ELSE At(m[k], q)
    BY ObjectAt DEF Part
  <2> QED BY <2>1, <2>2, <2>3 DEF Sub
<1> QED BY <1>1, <1>2

\* The id Build derives has the base payload in it.
LEMMA IdSays ==
  ASSUME NEW in, TextsOK(in), Build(in) # Nil,
         NEW k \in DOMAIN Members(in), NEW q, IsSeq(q)
  PROVE  At(Build(in).CapsuleID.capsule, Under(k, q)) = Sub(Members(in)[k], q)
<1>1. PICK payload :
        /\ Extends(payload, basePayload(in))
        /\ Build(in).CapsuleID = ComputeCapsuleID(payload)
  BY BuildParts
<1>2. k \in baseMembers /\ k \notin LocalOnly
  BY DEF Members, baseMembers, WrittenMembers, LocalOnly
<1> DEFINE p == Under(k, q)
           left == [r \in {s \in DOMAIN payload : Head(s).key \notin LocalOnly} |-> payload[r]]
<1>3. Head(p).key = k
  BY Prefixed DEF Under
<1>4. Build(in).CapsuleID.capsule = left
  <2>1. ComputeCapsuleID(payload) = [capsule |-> left]
    BY Zenon DEF ComputeCapsuleID
  <2> HIDE DEF left
  <2> QED BY <1>1, <2>1
<1> HIDE DEF p
<1>5. (p \in DOMAIN left <=> p \in DOMAIN payload) /\ (p \in DOMAIN payload => left[p] = payload[p])
  BY <1>2, <1>3
<1> HIDE DEF left
<1>6. At(left, p) = At(payload, p)
  BY <1>5 DEF At
<1>7. At(payload, Under(k, q)) = At(basePayload(in), Under(k, q))
  BY <1>1, <1>2 DEF Extends
<1>8. At(basePayload(in), Under(k, q)) = Sub(Members(in)[k], q)
  BY BasePayloadDoc DEF Sub
<1> QED BY <1>4, <1>6, <1>7, <1>8 DEF p

\* And with it the compute attestation.
LEMMA IdAttests ==
  ASSUME NilIsNoValue, NEW in, TextsOK(in), Build(in) # Nil, NEW q, IsSeq(q)
  PROVE  At(Build(in).CapsuleID.capsule,
            Under("model_attestation", Under("compute_attestation", q)))
           = Sub(computeAttestationMap(in.Compute, in.compute), q)
<1> DEFINE m == IF in.Model = Nil THEN NoModel ELSE in.Model
           c == computeAttestationMap(in.Compute, in.compute)
           o == [model_id |-> Opt(m.ModelID, Text), provider |-> Opt(m.Provider, Text),
                 compute_attestation |-> c]
           p == Under("compute_attestation", q)
<1>1. Members(in)["model_attestation"] = modelAttestationMap(in)
      /\ "model_attestation" \in DOMAIN Members(in)
  BY DEF Members
<1>2. modelAttestationMap(in) = ObjectIfAny(o)
  BY Zenon DEF modelAttestationMap
<1>3. Part(c)
  BY ComputeAttestationDoc DEF TextsOK
<1> HIDE DEF c, m
<1>4. \A k \in DOMAIN o : Part(o[k])
  BY <1>3, LeavesAreDocs DEF Part, Opt
<1>5. "compute_attestation" \in DOMAIN o /\ o["compute_attestation"] = c
  OBVIOUS
<1> HIDE DEF o
<1>6. Sub(ObjectIfAny(o), p) = Sub(c, q)
  BY <1>4, <1>5, ObjectIfAnyAt
<1>7. IsSeq(p)
  BY Prefixed DEF Under
<1> HIDE DEF p
<1>8. At(Build(in).CapsuleID.capsule, Under("model_attestation", p))
        = Sub(modelAttestationMap(in), p)
  BY <1>1, <1>7, IdSays
<1> QED BY <1>2, <1>6, <1>8 DEF c, p

\* A text or a digest that may be absent, at its own place.
LEMMA OptAt ==
  ASSUME NilIsNoValue, NEW x
  PROVE  /\ Sub(Opt(x, Text), <<>>) = IF x = Nil THEN Nil ELSE [text |-> x]
         /\ Sub(Opt(x, Digest), <<>>) = IF x = Nil THEN Nil ELSE [digest |-> x]
         /\ Part(Opt(x, Text)) /\ Part(Opt(x, Digest))
<1>1. Text(x) # Nil /\ Digest(x) # Nil
  BY LeavesAreDocs, DocIsNotNil
<1> QED BY <1>1, LeavesAreDocs DEF Opt, Sub, Part

\* What a reference says.
LEMMA ReferenceSays ==
  ASSUME NilIsNoValue, NEW ref
  PROVE  LET d == digestReferenceMap(ref)
         IN  /\ Doc(d) /\ d # Nil
             /\ At(d, Under("digest", <<>>)) = [digest |-> ref.Digest]
             /\ At(d, Under("slot", <<>>)) = IF ref.Slot = Nil THEN Nil ELSE [text |-> ref.Slot]
<1> DEFINE slot == Opt(ref.Slot, Text)
           none == Opt(Nil, Text)
           m == [type |-> Text(ref.Type), digest_alg |-> Text(ref.DigestAlg),
                 digest |-> Digest(ref.Digest), slot |-> slot,
                 citation_purpose |-> none, log_coordinates |-> Nil]
<1>1. digestReferenceMap(ref) = Object(m)
  BY Zenon DEF digestReferenceMap, referenceMap
<1>2. /\ Sub(slot, <<>>) = IF ref.Slot = Nil THEN Nil ELSE [text |-> ref.Slot]
      /\ Part(slot) /\ Part(none)
  BY OptAt
<1> HIDE DEF slot, none
<1>3. \A k \in DOMAIN m : Part(m[k])
  BY <1>2, LeavesAreDocs DEF Part
<1>4. /\ {"digest", "slot"} \subseteq DOMAIN m
      /\ m["digest"] = Digest(ref.Digest) /\ m["slot"] = slot
  OBVIOUS
<1> HIDE DEF m
<1>5. Doc(Object(m)) /\ Object(m) # Nil
  BY <1>3, ObjectPart, DocIsNotNil
<1>6. \A k \in DOMAIN m : At(Object(m), Under(k, <<>>)) = IF m[k] = Nil THEN Nil ELSE At(m[k], <<>>)
  BY <1>3, EmptyPath, ObjectAt DEF Part
<1>7. Digest(ref.Digest) # Nil /\ At(Digest(ref.Digest), <<>>) = [digest |-> ref.Digest]
  BY LeavesAreDocs, DocIsNotNil
<1> QED BY <1>1, <1>2, <1>4, <1>5, <1>6, <1>7 DEF Sub

\* A range from 1 determines its end.
LEMMA SameRange ==
  ASSUME NEW a \in Nat, NEW b \in Nat, 1..a = 1..b
  PROVE  a = b
<1>1. a # 0 => a \in 1..b
  OBVIOUS
<1>2. b # 0 => b \in 1..a
  OBVIOUS
<1> QED BY <1>1, <1>2

\* What a compute attestation says of the agent, of a carried artifact and of the
\* members of a composition (build.go:415-475).
LEMMA AttestationSays ==
  ASSUME NilIsNoValue, NEW compute, NEW binding,
         binding # Nil => IsSeq(binding.ComposedMembers)
  PROVE  LET a == computeAttestationMap(compute, binding)
             leaf(x) == IF x = Nil THEN Nil ELSE [digest |-> x]
             item(k, name) == Sub(a, Under("composed_members", Item(k - 1, Under(name, <<>>))))
         IN  /\ Sub(a, Under("agent_input_digest", <<>>))
                  = IF compute = Nil THEN Nil ELSE leaf(compute.AgentInputDigest)
             /\ Sub(a, Under("agent_output_digest", <<>>))
                  = IF compute = Nil THEN Nil ELSE leaf(compute.AgentOutputDigest)
             /\ Sub(a, Under("carried_input_digest", <<>>))
                  = IF binding = Nil THEN Nil ELSE leaf(binding.CarriedInputDigest)
             /\ Sub(a, Under("carried_artifact", Under("digest", <<>>)))
                  = IF binding = Nil \/ binding.CarriedArtifact = Nil THEN Nil
                    ELSE [digest |-> binding.CarriedArtifact.Digest]
             /\ \A k \in Nat :
                  LET ref == binding.ComposedMembers[k]
                  IN  IF binding = Nil \/ k \notin DOMAIN binding.ComposedMembers
                      THEN item(k, "slot") = Nil /\ item(k, "digest") = Nil
                      ELSE /\ item(k, "slot") = IF ref.Slot = Nil THEN Nil ELSE [text |-> ref.Slot]
                           /\ item(k, "digest") = [digest |-> ref.Digest]
<1> DEFINE a == computeAttestationMap(compute, binding)
           c == IF compute = Nil THEN NoCompute ELSE compute
           b == IF binding = Nil THEN NoBinding ELSE binding
           m == b.ComposedMembers
           s == [i \in DOMAIN m |-> digestReferenceMap(m[i])]
           composed == IF m = <<>> THEN Nil ELSE Array(s)
           o == [agent_input_digest |-> Opt(c.AgentInputDigest, Digest),
                 agent_output_digest |-> Opt(c.AgentOutputDigest, Digest),
                 runtime |-> Opt(c.Runtime, Text),
                 carried_artifact |-> Opt(b.CarriedArtifact, digestReferenceMap),
                 carried_input_digest |-> Opt(b.CarriedInputDigest, Digest),
                 composed_members |-> composed]
           leaf(x) == IF x = Nil THEN Nil ELSE [digest |-> x]
<1>1. /\ c.AgentInputDigest = IF compute = Nil THEN Nil ELSE compute.AgentInputDigest
      /\ c.AgentOutputDigest = IF compute = Nil THEN Nil ELSE compute.AgentOutputDigest
      /\ b.CarriedInputDigest = IF binding = Nil THEN Nil ELSE binding.CarriedInputDigest
      /\ b.CarriedArtifact = IF binding = Nil THEN Nil ELSE binding.CarriedArtifact
      /\ b.ComposedMembers = IF binding = Nil THEN <<>> ELSE binding.ComposedMembers
  BY DEF NoCompute, NoBinding
<1>2. IsSeq(m)
  BY <1>1, EmptyPath
<1>3. a = ObjectIfAny(o)
  BY Zenon DEF computeAttestationMap
<1>4. /\ DOMAIN s = DOMAIN m /\ s = [i \in DOMAIN s |-> s[i]]
      /\ \A i \in DOMAIN s : s[i] = digestReferenceMap(m[i])
  OBVIOUS
<1> HIDE DEF a, s, b, c, m
<1>5. IsSeq(s) /\ \A i \in DOMAIN s : Doc(s[i])
  BY <1>2, <1>4, MapSeq, DigestReferenceDoc
<1>6. s = <<>> <=> m = <<>>
  <2>1. Len(s) \in Nat /\ DOMAIN s = 1..Len(s) /\ Len(m) \in Nat /\ DOMAIN m = 1..Len(m)
    BY <1>2, <1>5 DEF IsSeq
  <2>2. s = <<>> <=> Len(s) = 0
    BY <1>5, EmptySeq DEF IsSeq
  <2>3. m = <<>> <=> Len(m) = 0
    BY <1>2, EmptySeq DEF IsSeq
  <2>4. DOMAIN s = DOMAIN m
    BY <1>4, SMTT(30)
  <2>5. Len(s) = Len(m)
    BY <2>1, <2>4, SameRange
  <2> QED BY <2>2, <2>3, <2>5
<1>7. Part(composed)
  BY <1>5, ArrayDoc DEF Part
<1> HIDE DEF composed
<1>8. \A k \in DOMAIN o : Part(o[k])
  BY <1>7, LeavesAreDocs, DigestReferenceDoc DEF Part, Opt
<1>9. /\ {"agent_input_digest", "agent_output_digest", "carried_input_digest",
          "carried_artifact", "composed_members"} \subseteq DOMAIN o
      /\ o["agent_input_digest"] = Opt(c.AgentInputDigest, Digest)
      /\ o["agent_output_digest"] = Opt(c.AgentOutputDigest, Digest)
      /\ o["carried_input_digest"] = Opt(b.CarriedInputDigest, Digest)
      /\ o["carried_artifact"] = Opt(b.CarriedArtifact, digestReferenceMap)
      /\ o["composed_members"] = composed
  OBVIOUS
<1> HIDE DEF o
<1>10. \A k \in DOMAIN o : \A q : IsSeq(q) => Sub(a, Under(k, q)) = Sub(o[k], q)
  BY <1>3, <1>8, ObjectIfAnyAt
<1>11. \A l : IsSeq(Under(l, <<>>))
  BY Paths
<1>12. /\ Sub(a, Under("agent_input_digest", <<>>)) = leaf(c.AgentInputDigest)
       /\ Sub(a, Under("agent_output_digest", <<>>)) = leaf(c.AgentOutputDigest)
       /\ Sub(a, Under("carried_input_digest", <<>>)) = leaf(b.CarriedInputDigest)
  BY <1>9, <1>10, EmptyPath, OptAt
<1>13. Sub(a, Under("carried_artifact", Under("digest", <<>>)))
         = IF b.CarriedArtifact = Nil THEN Nil ELSE [digest |-> b.CarriedArtifact.Digest]
  <2>1. Sub(a, Under("carried_artifact", Under("digest", <<>>)))
          = Sub(Opt(b.CarriedArtifact, digestReferenceMap), Under("digest", <<>>))
    BY <1>9, <1>10, <1>11
  <2> QED BY <2>1, ReferenceSays DEF Opt, Sub
<1>14. ASSUME NEW k \in Nat, NEW name
       PROVE  Sub(a, Under("composed_members", Item(k - 1, Under(name, <<>>))))
                = IF k \in DOMAIN m THEN At(digestReferenceMap(m[k]), Under(name, <<>>)) ELSE Nil
  <2> DEFINE q == Under(name, <<>>)
  <2>1. IsSeq(q)
    BY <1>11
  <2> HIDE DEF q
  <2>2. IsSeq(Item(k - 1, q))
    BY <2>1, Prefixed DEF Item
  <2>3. Sub(a, Under("composed_members", Item(k - 1, q))) = Sub(composed, Item(k - 1, q))
    BY <1>9, <1>10, <2>2
  <2>4. CASE m = <<>>
    <3>1. composed = Nil /\ DOMAIN m = {}
      BY <2>4 DEF composed
    <3> QED BY <2>3, <3>1 DEF Sub, q
  <2>5. CASE m # <<>>
    <3>1. composed = Array(s) /\ s # <<>>
      BY <1>6, <2>5 DEF composed
    <3>2. Array(s) # Nil
      BY <1>5, ArrayDoc, DocIsNotNil
    <3>3. At(Array(s), Item(k - 1, q)) = IF k \in DOMAIN s THEN At(s[k], q) ELSE Nil
      BY <1>5, <2>1, <3>1, ArrayAt
    <3> QED BY <1>4, <2>3, <3>1, <3>2, <3>3 DEF Sub, q
  <2> QED BY <2>4, <2>5
<1>15. \A k \in Nat :
         LET ref == m[k]
         IN  IF k \notin DOMAIN m
             THEN /\ Sub(a, Under("composed_members", Item(k - 1, Under("slot", <<>>)))) = Nil
                  /\ Sub(a, Under("composed_members", Item(k - 1, Under("digest", <<>>)))) = Nil
             ELSE /\ Sub(a, Under("composed_members", Item(k - 1, Under("slot", <<>>))))
                       = IF ref.Slot = Nil THEN Nil ELSE [text |-> ref.Slot]
                  /\ Sub(a, Under("composed_members", Item(k - 1, Under("digest", <<>>))))
                       = [digest |-> ref.Digest]
  BY <1>14, ReferenceSays
<1>16. /\ binding = Nil => DOMAIN m = {}
       /\ binding # Nil => m = binding.ComposedMembers
  BY <1>1 DEF m
<1> QED BY <1>1, <1>12, <1>13, <1>15, <1>16 DEF a

\* Longer paths, built from below.
LEMMA LongPaths ==
  ASSUME NEW x, NEW y, NEW q, IsSeq(q)
  PROVE  /\ <<x, y>> \o q = <<x>> \o (<<y>> \o q)
         /\ <<x>> \o <<>> = <<x>>
         /\ <<x>> \o <<y>> = <<x, y>>
<1>1. PICK S : q \in Seq(S)
  BY DEF IsSeq
<1> DEFINE T == S \cup {x, y}
<1>2. /\ q \in Seq(T) /\ <<x>> \in Seq(T) /\ <<y>> \in Seq(T)
      /\ <<x, y>> \in Seq(T)
  BY <1>1
<1> HIDE DEF T
<1>3. <<x>> \o <<>> = <<x>>
  BY <1>2, ConcatEmptySeq
<1>4. \A u, v : u \in T /\ v \in T => <<u>> \o <<v>> = <<u, v>>
  <2> SUFFICES ASSUME NEW u \in T, NEW v \in T PROVE <<u>> \o <<v>> = <<u, v>>
    OBVIOUS
  <2> DEFINE s == <<u>> \o <<v>>
             t == <<u, v>>
  <2>1. s \in Seq(T) /\ Len(s) = 2 /\ s[1] = u /\ s[2] = v
    OBVIOUS
  <2>2. t \in Seq(T) /\ Len(t) = 2 /\ t[1] = u /\ t[2] = v
    OBVIOUS
  <2> HIDE DEF s, t
  <2>3. \A i \in 1..Len(s) : s[i] = t[i]
    BY <2>1, <2>2
  <2>4. s = t
    BY <2>1, <2>2, <2>3, SeqEqual
  <2> QED BY <2>4 DEF s, t
<1>5. x \in T /\ y \in T
  BY DEF T
<1>6. <<x, y>> \o q = <<x>> \o (<<y>> \o q)
  <2>1. (<<x>> \o <<y>>) \o q = <<x>> \o (<<y>> \o q)
    BY <1>2, ConcatAssociative
  <2> QED BY <1>4, <1>5, <2>1
<1> QED BY <1>3, <1>4, <1>5, <1>6

\* And of three parts.
LEMMA PathOfThree ==
  ASSUME NEW x, NEW y, NEW z
  PROVE  <<x>> \o (<<y>> \o <<z>>) = <<x, y, z>>
<1> DEFINE T == {x, y, z}
           s == <<x>> \o <<y, z>>
           t == <<x, y, z>>
<1>1. s \in Seq(T) /\ Len(s) = 3 /\ s[1] = x /\ s[2] = y /\ s[3] = z
  OBVIOUS
<1>2. t \in Seq(T) /\ Len(t) = 3 /\ t[1] = x /\ t[2] = y /\ t[3] = z
  OBVIOUS
<1>3. <<y>> \o <<z>> = <<y, z>>
  BY EmptyPath, LongPaths
<1> HIDE DEF s, t
<1>4. \A i \in 1..Len(s) : s[i] = t[i]
  BY <1>1, <1>2
<1>5. s = t
  BY <1>1, <1>2, <1>4, SeqEqual
<1> QED BY <1>3, <1>5 DEF s, t
=============================================================================
