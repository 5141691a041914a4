----------------------------- MODULE JsonReader -----------------------------
(***************************************************************************)
(* decodeStrictJSON as a reader that is handed one token after the other,  *)
(* against a reference that looks at the whole text: which token sequences *)
(* are one JSON value without repeated keys and within the depth limit,    *)
(* and which leaf they put at which path.                                  *)
(***************************************************************************)
EXTENDS StrictJson, FiniteSets, FiniteSetsExt

CONSTANTS
  Tokens,     \* what json.Decoder may return
  MaxTokens   \* bound on the tokens that close nothing after n opening brackets,
              \* for each n with which reading may start

ASSUME StartAssumption == DOMAIN MaxTokens \subseteq Nat

ASSUME TokenAssumption == \A tok \in Tokens : IsToken(tok)

VARIABLES
  toks,     \* the tokens read so far
  dec,      \* the state of the descent
  result    \* "none" while reading, then "ok" or "err"

vars == <<toks, dec, result>>

\* To come near the depth limit with few tokens, reading may start after a
\* number of opening brackets.
Brackets(n) == [i \in 1..n |-> [delim |-> "["]]

Init ==
  /\ \E n \in DOMAIN MaxTokens : toks = Brackets(n)
  /\ dec = Descent(toks)
  /\ result = "none"

MayOpen ==
  LET n == Max({m \in DOMAIN MaxTokens :
                  m <= Len(toks) /\ SubSeq(toks, 1, m) = Brackets(m)})
  IN  Cardinality({i \in DOMAIN toks : ~ Closes(toks[i])}) < n + MaxTokens[n]

\* decoder.Token() returns a token; an error ends the call at once.
ReadToken ==
  /\ result = "none"
  /\ \E tok \in Tokens :
       /\ Closes(tok) \/ MayOpen
       /\ toks' = Append(toks, tok)
       /\ dec' = Step(dec, tok)
       /\ result' = IF dec'.status = "err" THEN "err" ELSE "none"

\* decoder.Token() returns io.EOF: only right after the value.
ReadEnd ==
  /\ result = "none"
  /\ result' = IF dec.status = "value" THEN "ok" ELSE "err"
  /\ UNCHANGED <<toks, dec>>

-----------------------------------------------------------------------------
\* The reference.  lv[i] containers are open around the token at i.
Levels(s) ==
  [i \in 1..(Len(s) + 1) |->
     Cardinality({j \in 1..(i - 1) : Opens(s[j])})
       - Cardinality({j \in 1..(i - 1) : Closes(s[j])})]

\* The container token i is in, and the tokens of its members before i.
Parent(s, lv, i) == Max({j \in 1..(i - 1) : Opens(s[j]) /\ lv[j] < lv[i]})

Before(s, lv, i) ==
  {j \in (Parent(s, lv, i) + 1)..(i - 1) : ~ Closes(s[j]) /\ lv[j] = lv[i]}

\* Every other token of an object is a key.
InObject(s, lv, i) == lv[i] > 0 /\ s[Parent(s, lv, i)].delim = "{"

IsKey(s, lv, i) == InObject(s, lv, i) /\ Cardinality(Before(s, lv, i)) % 2 = 0

\* Token i may follow the tokens before it.
Fits(s, lv, i) ==
  /\ i > 1 => lv[i] > 0
  /\ IF Closes(s[i])
     THEN /\ i > 1
          /\ (s[i].delim = "}") = InObject(s, lv, i)
          /\ InObject(s, lv, i) => IsKey(s, lv, i)
     ELSE IF IsKey(s, lv, i)
     THEN /\ IsText(s[i])
          /\ \A j \in Before(s, lv, i) : IsKey(s, lv, j) => s[j] # s[i]
     ELSE lv[i] < MaxDepth

\* s begins a JSON value; s is a whole one.
Viable(s) == LET lv == Levels(s) IN \A i \in DOMAIN s : Fits(s, lv, i)

Complete(s) == s # <<>> /\ Levels(s)[Len(s) + 1] = 0

\* The last token up to i with k containers around it is i or contains i.
Ancestor(s, lv, i, k) == Max({j \in 1..i : ~ Closes(s[j]) /\ lv[j] = k})

Component(s, lv, j) ==
  IF InObject(s, lv, j) THEN [key |-> s[j - 1].text]
                        ELSE [index |-> Cardinality(Before(s, lv, j))]

PathOf(s, lv, i) == [k \in 1..lv[i] |-> Component(s, lv, Ancestor(s, lv, i, k))]

\* The scalars, and the containers closed right after they were opened.
Leaves(s, lv) ==
  {i \in DOMAIN s : /\ ~ IsKey(s, lv, i)
                    /\ ~ Closes(s[i])
                    /\ Opens(s[i]) => i < Len(s) /\ Closes(s[i + 1])}

Value(tok) ==
  IF IsDelim(tok) THEN [empty |-> tok.delim]
  ELSE IF tok = [num |-> "-0"] THEN [num |-> "0"] ELSE tok

Meaning(s) ==
  LET lv == Levels(s)
      at == [i \in Leaves(s, lv) |-> PathOf(s, lv, i)]
  IN  [p \in {at[i] : i \in DOMAIN at} |-> Value(s[CHOOSE i \in DOMAIN at : at[i] = p])]

-----------------------------------------------------------------------------
(***************************************************************************)
(* The descent refuses an input at the first token that no JSON value      *)
(* without repeated keys and within the depth limit can continue, neither  *)
(* earlier nor later, and at the end of the input accepts exactly the      *)
(* complete ones (build.go:498-587: the depth, duplicate-key and trailing- *)
(* value errors).                                                          *)
(***************************************************************************)
AcceptsExactly ==
  /\ (dec.status # "err") = Viable(toks)
  /\ result = "ok" => Viable(toks) /\ Complete(toks)
  /\ result = "err" => ~ (Viable(toks) /\ Complete(toks))

(***************************************************************************)
(* What the descent hands to the canonicaliser is what the text says: each *)
(* scalar at its own path, no empty container lost, negative zero as 0, so *)
(* two spellings of a value have one digest (build.go:541-543).            *)
(***************************************************************************)
DecodesMeaning == dec.status # "err" => dec.doc = Meaning(toks)
=============================================================================
