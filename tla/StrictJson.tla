----------------------------- MODULE StrictJson -----------------------------
(***************************************************************************)
(* The strict JSON decoder every capsule and every caller's JSON goes      *)
(* through (src/build.go: decodeStrictJSON, decodeJSONValue,               *)
(* DecodePayload).                                                         *)
(*                                                                         *)
(* json.Decoder is external: it turns bytes into tokens and checks commas  *)
(* and colons.  A token is [delim |-> d], [text |-> s], [num |-> n] or     *)
(* [lit |-> l].  The recursive descent is a step per token over a stack of *)
(* open containers; the stack is the Go call stack.                        *)
(*                                                                         *)
(* A decoded document is flat: a function from the path of each leaf to    *)
(* the leaf.  A path has one [key |-> k] or [index |-> i] per container; a *)
(* leaf is a scalar token, or [empty |-> d] for a container without        *)
(* members.                                                                *)
(***************************************************************************)
EXTENDS Integers, Sequences

CONSTANTS
  Nil,       \* no value: a nil pointer, an empty string, an error's result
  BadText,   \* the texts that are not valid UTF-8
  MaxDepth   \* maxJSONDepth: 1000 in the code

ASSUME DepthAssumption == MaxDepth \in Nat \ {0}

-----------------------------------------------------------------------------
IsText(tok) == "text" \in DOMAIN tok
IsDelim(tok) == "delim" \in DOMAIN tok
Opens(tok) == tok \in {[delim |-> "{"], [delim |-> "["]}
Closes(tok) == tok \in {[delim |-> "}"], [delim |-> "]"]}

\* What json.Decoder.Token returns.  Every text is one, the empty one included; a
\* frame's Nil stands for no key at all.
IsToken(tok) ==
  \/ Opens(tok) \/ Closes(tok)
  \/ IsText(tok) /\ tok = [text |-> tok.text] /\ tok.text # Nil
  \/ DOMAIN tok \in {{"num"}, {"lit"}}

\* The document with leaf at path p as well.
WithLeaf(doc, p, leaf) ==
  [q \in DOMAIN doc \cup {p} |-> IF q = p THEN leaf ELSE doc[q]]

\* Depth of the innermost value: the payload itself is at depth 1.
DepthOk(doc) == \A p \in DOMAIN doc : Len(p) < MaxDepth

-----------------------------------------------------------------------------
\* An open container: its delimiter, its path, the keys it has, the key whose
\* value comes next (Nil: none) and the number of members it has.
Frame(delim, path) ==
  [delim |-> delim, path |-> path, keys |-> {}, key |-> Nil, count |-> 0]

\* status is "more" inside the value, "value" after it, "err" once refused.
StartDecoding == [status |-> "more", doc |-> <<>>, stack |-> <<>>]

Refused == [status |-> "err", doc |-> <<>>, stack |-> <<>>]

Top(stack) == stack[Len(stack)]
Below(stack) == SubSeq(stack, 1, Len(stack) - 1)

\* Where the value that starts now goes.
ValuePath(stack) ==
  IF stack = <<>> THEN <<>>
  ELSE LET f == Top(stack)
       IN  Append(f.path, IF f.delim = "{" THEN [key |-> f.key]
                                           ELSE [index |-> f.count])

\* A value has ended: its container has one more member.
Ended(doc, stack) ==
  IF stack = <<>>
  THEN [status |-> "value", doc |-> doc, stack |-> stack]
  ELSE [status |-> "more", doc |-> doc,
        stack |-> Append(Below(stack),
                         [Top(stack) EXCEPT !.key = Nil, !.count = @ + 1])]

\* Mutant: the negative zero of encoding/json's Number is kept.
ScalarVerbatim(tok) == tok

\* RFC 8785 writes negative zero as 0.
Scalar(tok) == IF tok = [num |-> "-0"] THEN [num |-> "0"] ELSE tok

\* decodeJSONValue at depth Len(stack) + 1, up to its first token.
DecodeValue(d, tok) ==
  IF Len(d.stack) >= MaxDepth THEN Refused
  ELSE IF ~ IsDelim(tok)
  THEN Ended(WithLeaf(d.doc, ValuePath(d.stack), Scalar(tok)), d.stack)
  ELSE IF Opens(tok)
  THEN [d EXCEPT !.stack = Append(@, Frame(tok.delim, ValuePath(d.stack)))]
  ELSE Refused

\* The token after the last member: decoder.More() was false.
DecodeClose(d) ==
  LET f == Top(d.stack)
  IN  Ended(IF f.count = 0 THEN WithLeaf(d.doc, f.path, [empty |-> f.delim])
                           ELSE d.doc,
            Below(d.stack))

\* Mutant: a repeated key is let through, the last value wins.
DecodeKeyRepeated(d, tok) ==
  IF IsText(tok)
  THEN [d EXCEPT !.stack[Len(d.stack)].key = tok.text]
  ELSE Refused

\* The key of an object's next member.
DecodeKey(d, tok) ==
  LET f == Top(d.stack)
  IN  IF IsText(tok) /\ tok.text \notin f.keys
      THEN [d EXCEPT !.stack =
             Append(Below(d.stack),
                    [f EXCEPT !.key = tok.text, !.keys = f.keys \cup {tok.text}])]
      ELSE Refused

\* One decoder.Token() of the descent.
Step(d, tok) ==
  IF d.status # "more" THEN Refused          \* trailing JSON value
  ELSE IF d.stack = <<>> THEN DecodeValue(d, tok)
  ELSE IF Top(d.stack).delim = "["
  THEN IF tok = [delim |-> "]"] THEN DecodeClose(d) ELSE DecodeValue(d, tok)
  ELSE IF Top(d.stack).key # Nil THEN DecodeValue(d, tok)
  ELSE IF tok = [delim |-> "}"] THEN DecodeClose(d) ELSE DecodeKey(d, tok)

\* utf8.Valid over all the bytes, which comes before the first token; of a
\* document as well.
ValidUtf8(f) == \A i \in DOMAIN f : f[i] \notin {[text |-> t] : t \in BadText}

\* The descent after all of toks.
Descent(toks) ==
  LET run[i \in 0..Len(toks)] ==
        IF i = 0 THEN StartDecoding ELSE Step(run[i - 1], toks[i])
  IN  run[Len(toks)]

\* decodeStrictJSON of a whole input: its document, Nil for an error.
Decoded(d) == IF d.status = "value" THEN d.doc ELSE Nil
decodeStrictJSON(toks) == IF ValidUtf8(toks) THEN Decoded(Descent(toks)) ELSE Nil
=============================================================================
