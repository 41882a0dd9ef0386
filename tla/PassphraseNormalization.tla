---------------------- MODULE PassphraseNormalization ----------------------
(***************************************************************************)
(* Passphrases before key derivation: the library's own NFKC               *)
(* (_crypto/unicode_nfkc16.py) over a fragment of the Unicode tables, and  *)
(* the profile built on it (_crypto/passphrase.py).  A text is a sequence  *)
(* of code points.  A seal and an open happen on different machines, so    *)
(* two spellings of a passphrase must come out as the same bytes.          *)
(***************************************************************************)
EXTENDS Integers, Sequences, SequencesExt, Functions

CONSTANTS
  Decomposition,   \* code point -> its full compatibility decomposition
  Ccc,             \* code point -> its combining class, when not 0
  Composition,     \* pair of code points -> their primary composite
  Assigned, WhiteSpace,         \* properties of code points
  MAX_PASSPHRASE_INPUT_BYTES

TablesAssumption ==
  /\ \A c \in DOMAIN Ccc : Ccc[c] \in Nat \ {0}
  /\ WhiteSpace \subseteq Assigned /\ MAX_PASSPHRASE_INPUT_BYTES \in Nat

Surrogates == 55296 .. 57343
\* Hangul: bases and counts of syllables, lead, vowel and trail.
SBase == 44032
LBase == 4352
VBase == 4449
TBase == 4519
LCount == 19
VCount == 21
TCount == 28
NCount == VCount * TCount
Syllables == SBase .. (SBase + LCount * NCount - 1)

CombiningClass(cp) == IF cp \in DOMAIN Ccc THEN Ccc[cp] ELSE 0

Failed(code) == [code |-> code, text |-> <<>>]
Success(text) == [code |-> "ok", text |-> text]

\* _validated_scalar_values: the first code point that is a surrogate or
\* unassigned is what the error names.
Rejected(text) ==
  LET bad == SelectInSeq(text, LAMBDA cp : cp \in Surrogates \/ cp \notin Assigned)
  IN IF bad = 0 THEN "ok"
     ELSE IF text[bad] \in Surrogates THEN "UNPAIRED_SURROGATE" ELSE "UNASSIGNED_CODEPOINT"

\* _decompose for one code point; Hangul syllables by arithmetic.
Decomposed(cp) ==
  LET s == cp - SBase
      jamo == <<LBase + s \div NCount, VBase + (s % NCount) \div TCount>>
  IN IF cp \in Syllables
     THEN IF s % TCount = 0 THEN jamo ELSE Append(jamo, TBase + (s % TCount))
     ELSE IF cp \in DOMAIN Decomposition THEN Decomposition[cp] ELSE <<cp>>

Decompose(text) == FlattenSeq([i \in DOMAIN text |-> Decomposed(text[i])])

\* Mutated form: marks of one class change places as well.
CanonicalReorder_Unstable(text) ==
  FoldLeft(LAMBDA out, cp :
             IF CombiningClass(cp) = 0 THEN Append(out, cp)
             ELSE InsertAt(out, SelectLastInSeq(out, LAMBDA o : CombiningClass(o) < CombiningClass(cp)) + 1, cp),
           <<>>, text)

\* _canonical_reorder: each mark moves before the marks of a higher class
\* that precede it, and no further.
CanonicalReorder(text) ==
  FoldLeft(LAMBDA out, cp :
             IF CombiningClass(cp) = 0 THEN Append(out, cp)
             ELSE InsertAt(out, SelectLastInSeq(out, LAMBDA o : CombiningClass(o) <= CombiningClass(cp)) + 1, cp),
           <<>>, text)

NoComposite == -1

\* _compose_pair.
ComposePair(a, b) ==
  IF a \in LBase..(LBase + LCount - 1) /\ b \in VBase..(VBase + VCount - 1)
  THEN SBase + ((a - LBase) * VCount + (b - VBase)) * TCount
  ELSE IF a \in Syllables /\ (a - SBase) % TCount = 0 /\ b \in (TBase + 1)..(TBase + TCount - 1)
  THEN a + (b - TBase)
  ELSE IF <<a, b>> \in DOMAIN Composition THEN Composition[<<a, b>>] ELSE NoComposite

\* One turn of _compose: a code point joins the last starter unless a mark
\* between them blocks it.
ComposeStep(s, cp) ==
  LET open == s.starter > 0 /\ (s.starter = Len(s.out) \/ s.last < CombiningClass(cp))
      composed == IF open THEN ComposePair(s.out[s.starter], cp) ELSE NoComposite
  IN IF composed # NoComposite
     THEN [s EXCEPT !.out[s.starter] = composed]
     ELSE [out |-> Append(s.out, cp), last |-> CombiningClass(cp),
           starter |-> IF CombiningClass(cp) = 0 THEN Len(s.out) + 1 ELSE s.starter]

Compose(text) == FoldLeft(ComposeStep, [out |-> <<>>, last |-> 0, starter |-> 0], text).out

Nfkc16(text) ==
  IF Rejected(text) # "ok" THEN Failed(Rejected(text))
  ELSE Success(Compose(CanonicalReorder(Decompose(text))))

-----------------------------------------------------------------------------
Space == 32

\* The length of the UTF-8 encoding; a surrogate counts three.
Utf8Length(text) ==
  FoldLeft(LAMBDA n, cp : n + (IF cp < 128 THEN 1 ELSE IF cp < 2048 THEN 2
                               ELSE IF cp < 65536 THEN 3 ELSE 4), 0, text)

\* Each run of white space becomes one space.
Collapse(text) ==
  FoldLeft(LAMBDA out, cp :
             IF cp \notin WhiteSpace THEN Append(out, cp)
             ELSE IF out # <<>> /\ Last(out) = Space THEN out ELSE Append(out, Space),
           <<>>, text)

Strip(text) ==
  LET first == SelectInSeq(text, LAMBDA cp : cp # Space)
      last  == SelectLastInSeq(text, LAMBDA cp : cp # Space)
  IN IF first = 0 THEN <<>> ELSE SubSeq(text, first, last)

\* normalize_passphrase: the cap on the raw bytes comes before any work.
NormalizePassphrase(text) ==
  LET folded == Nfkc16(text)
      normalized == Strip(Collapse(folded.text))
  IN IF Utf8Length(text) > MAX_PASSPHRASE_INPUT_BYTES THEN Failed("PASSPHRASE_INPUT_TOO_LONG")
     ELSE IF folded.code # "ok" THEN Failed("ENC_PASSPHRASE_UNNORMALIZABLE")
     ELSE IF normalized = <<>> THEN Failed("ENC_PASSPHRASE_EMPTY")
     ELSE Success(normalized)

-----------------------------------------------------------------------------
\* The spellings of a text one step away: a code point taken apart, or two
\* adjacent marks of different classes swapped.
Respelled(text) ==
  {SubSeq(text, 1, i - 1) \o Decomposed(text[i]) \o SubSeq(text, i + 1, Len(text)) :
     i \in DOMAIN text}
  \cup {[text EXCEPT ![i] = text[i + 1], ![i + 1] = text[i]] :
     i \in {j \in 1..(Len(text) - 1) :
              /\ CombiningClass(text[j]) # CombiningClass(text[j + 1])
              /\ CombiningClass(text[j]) # 0 /\ CombiningClass(text[j + 1]) # 0}}

(* Composing loses nothing and stops at a form that stays: taken apart     *)
(* again a folded text is the ordered decomposition it came from, folding  *)
(* it changes nothing, nor does normalising a passphrase again, unless it  *)
(* has grown past the cap (nfkc16, normalize_passphrase).                  *)
FoldingIsLossless(text) ==
  LET folded == Nfkc16(text)
      password == NormalizePassphrase(text)
  IN /\ folded.code = "ok" =>
          /\ CanonicalReorder(Decompose(folded.text)) = CanonicalReorder(Decompose(text))
          /\ Nfkc16(folded.text) = folded
     /\ password.code = "ok" /\ Utf8Length(password.text) <= MAX_PASSPHRASE_INPUT_BYTES =>
          NormalizePassphrase(password.text) = password

(* Whichever equivalent spelling an input method produces, the password is *)
(* the same, unless the raw text passes the byte cap in one of them only   *)
(* (normalize_passphrase).                                                 *)
SpellingDoesNotMatter(text) ==
  \A other \in Respelled(text) :
    LET a == NormalizePassphrase(text)  b == NormalizePassphrase(other)
    IN "PASSPHRASE_INPUT_TOO_LONG" \in {a.code, b.code} \/ a = b
=============================================================================
