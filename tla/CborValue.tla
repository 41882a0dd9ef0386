------------------------------ MODULE CborValue ------------------------------
(***************************************************************************)
(* Records as the canonical CBOR layer (_crypto/cbor.py) hands them over:  *)
(* values with a type, and the number of bytes each of them encodes to.    *)
(* A byte string has a length and a name, the name saying what is in it.   *)
(***************************************************************************)
EXTENDS Integers, Sequences, FiniteSetsExt, Functions, TLC

Uint(n) == [type |-> "uint", n |-> n]
Nint == [type |-> "nint"]
Null == [type |-> "null"]
Absent == [type |-> "absent"]
Text(s) == [type |-> "text", s |-> s]
Bytes(n, id) == [type |-> "bytes", n |-> n, id |-> id]
List(seq) == [type |-> "array", of |-> seq]
Map(fields) == [type |-> "map", of |-> fields, odd |-> FALSE]   \* odd: has a non-text key

Has(map, key) == key \in DOMAIN map.of
Get(map, key) == IF map.type = "map" /\ Has(map, key) THEN map.of[key] ELSE Absent
IsNone(value) == value.type \in {"absent", "null"}      \* what .get() cannot tell apart
Entries(map, key) == IF Get(map, key).type = "array" THEN Get(map, key).of ELSE <<>>
IsText(value, names) == value.type = "text" /\ value.s \in names

-----------------------------------------------------------------------------
(* Changing one field of a tree.  A path is a sequence of keys; behind a   *)
(* list it goes on in the first element.                                   *)
First(value) == IF value.type # "array" THEN value ELSE IF value.of = <<>> THEN Absent ELSE value.of[1]

RECURSIVE At(_, _)
At(value, path) == IF path = <<>> THEN value ELSE At(First(Get(value, Head(path))), Tail(path))

RECURSIVE Put(_, _, _)
Put(value, path, new) ==
  IF path = <<>> THEN new
  ELSE LET below == value.of[Head(path)]
           changed == Put(First(below), Tail(path), new)
       IN [value EXCEPT !.of[Head(path)] =
             IF below.type = "array" THEN [below EXCEPT !.of[1] = changed] ELSE changed]

WithKey(map, key, value) == [map EXCEPT !.of = (key :> value) @@ map.of]
WithoutKey(map, key) == [map EXCEPT !.of = Restrict(map.of, DOMAIN map.of \ {key})]

RECURSIVE HasNull(_)
HasNull(value) ==
  CASE value.type = "null" -> TRUE
    [] value.type \in {"map", "array"} -> \E key \in DOMAIN value.of : HasNull(value.of[key])
    [] OTHER -> FALSE

-----------------------------------------------------------------------------
\* The bytes of an argument header, shortest form.  (TLC's integers stop
\* before the nine-byte form.)
HeaderBytes(n) == IF n <= 23 THEN 1 ELSE IF n <= 255 THEN 2 ELSE IF n <= 65535 THEN 3 ELSE 5

\* encode_canonical_cbor, its length.
RECURSIVE EncodedBytes(_)
EncodedBytes(value) ==
  CASE value.type = "uint" -> HeaderBytes(value.n)
    [] value.type = "text" -> HeaderBytes(Len(value.s)) + Len(value.s)
    [] value.type = "bytes" -> HeaderBytes(value.n) + value.n
    [] value.type = "array" ->
         HeaderBytes(Len(value.of)) + MapThenSumSet(LAMBDA i : EncodedBytes(value.of[i]), DOMAIN value.of)
    [] value.type = "map" ->
         HeaderBytes(Cardinality(DOMAIN value.of))
           + MapThenSumSet(LAMBDA key : EncodedBytes(Text(key)) + EncodedBytes(value.of[key]),
                           DOMAIN value.of)
    [] OTHER -> 1
=============================================================================
