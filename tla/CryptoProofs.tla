-------------------------- MODULE CryptoProofs --------------------------
(***************************************************************************)
(* Proofs about StreamCipher, for any sizes of chunk, tag and header, any  *)
(* plaintext, any cutting and any damage: what an opener releases, when it *)
(* ends with "matched", and that the pieces change nothing.  About         *)
(* PassphraseEnvelope, for any tables of code points, parameters, salts    *)
(* and claims: which passphrase opens what.  And about RecordSignature,    *)
(* for any keys, records, networks and number of changes on the way: what  *)
(* an entry's verdict is worth.                                            *)
(***************************************************************************)
EXTENDS StreamCipher, PassphraseEnvelope, RecordSignature, SequenceTheorems, SetInduction

-----------------------------------------------------------------------------
(* Parts of sequences, and products                                        *)

\* A part of a part is a part.
LEMMA PartOfPart ==
  ASSUME NEW S, NEW s \in Seq(S), NEW a \in Nat, NEW b \in Nat, a <= b, b <= Len(s),
         NEW m \in Nat, NEW n \in Nat, m <= n, n <= b - a
  PROVE  SubSeq(SubSeq(s, a + 1, b), m + 1, n) = SubSeq(s, a + m + 1, a + n)
<1> DEFINE t == SubSeq(s, a + 1, b)
<1>1. t \in Seq(S) /\ Len(t) = b - a /\ \A i \in 1..(b - a) : t[i] = s[a + i]
  BY PartFacts
<1> HIDE DEF t
<1>2. /\ SubSeq(t, m + 1, n) \in Seq(S) /\ Len(SubSeq(t, m + 1, n)) = n - m
      /\ \A i \in 1..(n - m) : SubSeq(t, m + 1, n)[i] = t[m + i]
  BY <1>1, PartFacts
<1>3. /\ SubSeq(s, a + m + 1, a + n) \in Seq(S) /\ Len(SubSeq(s, a + m + 1, a + n)) = n - m
      /\ \A i \in 1..(n - m) : SubSeq(s, a + m + 1, a + n)[i] = s[a + m + i]
  <2>1. PICK c \in Nat, d \in Nat : c = a + m /\ d = a + n /\ c <= d /\ d <= Len(s) /\ d - c = n - m
    OBVIOUS
  <2>2. /\ SubSeq(s, c + 1, d) \in Seq(S) /\ Len(SubSeq(s, c + 1, d)) = d - c
        /\ \A i \in 1..(d - c) : SubSeq(s, c + 1, d)[i] = s[c + i]
    BY <2>1, PartFacts
  <2>3. QED
    BY <2>1, <2>2
<1>4. \A i \in 1..(n - m) : t[m + i] = s[a + m + i]
  BY <1>1
<1>5. SubSeq(t, m + 1, n) = SubSeq(s, a + m + 1, a + n)
  BY <1>2, <1>3, <1>4, SeqEqual
<1>6. QED
  BY <1>5 DEF t

-----------------------------------------------------------------------------
(* A pass over chunks                                                      *)

\* f is the function Steps recurs to.
IsAfter(f, pass, m, chunks) ==
  f = [n \in 0..Len(chunks) |->
         IF n = 0 THEN m ELSE Step(pass, f[n - 1], chunks[n], FALSE)]

\* What a pass keeps: every machine of M stays in M, and what a chunk makes of
\* the chunks before it holds of all of them.
LEMMA StepsKeep ==
  ASSUME NEW pass, NEW C, NEW chunks \in Seq(C), NEW M, NEW m \in M,
         \A x \in M, c \in C : Step(pass, x, c, FALSE) \in M,
         NEW T, <<0, m>> \in T,
         \A n \in 1..Len(chunks), x \in M :
           <<n - 1, x>> \in T => <<n, Step(pass, x, chunks[n], FALSE)>> \in T
  PROVE  Steps(pass, m, chunks) \in M /\ <<Len(chunks), Steps(pass, m, chunks)>> \in T
<1> DEFINE L == Len(chunks)
           h == [x \in (1..L) \X M |-> Step(pass, x[2], chunks[x[1]], FALSE)]
<1>1. L \in Nat /\ \A n \in 1..L : chunks[n] \in C
  OBVIOUS
<1>2. h \in [(1..L) \X M -> M]
  <2>1. \A x \in (1..L) \X M : x[1] \in 1..L /\ x[2] \in M
    OBVIOUS
  <2> HIDE DEF L
  <2>2. \A x \in (1..L) \X M : Step(pass, x[2], chunks[x[1]], FALSE) \in M
    BY <1>1, <2>1
  <2>3. QED
    BY <2>2
<1>3. \A n \in 1..L, x \in M : h[<<n, x>>] = Step(pass, x, chunks[n], FALSE)
  OBVIOUS
<1> HIDE DEF h
<1>4. PICK g \in [0..L -> M] : Recurs(g, m, h, L)
  BY <1>1, <1>2, RecursionOnInterval
<1>5. \E f : IsAfter(f, pass, m, chunks)
  <2>1. ASSUME NEW n \in 0..L
        PROVE  g[n] = IF n = 0 THEN m ELSE Step(pass, g[n - 1], chunks[n], FALSE)
    <3>1. CASE n = 0
      BY <3>1, <1>4 DEF Recurs
    <3>2. CASE n # 0
      <4>1. n \in 1..L /\ n - 1 \in 0..L
        BY <3>2, <1>1
      <4>2. g[n] = h[<<n, g[n - 1]>>] /\ g[n - 1] \in M
        BY <4>1, <1>4 DEF Recurs
      <4>3. QED
        BY <3>2, <4>1, <4>2, <1>3
    <3>3. QED
      BY <3>1, <3>2
  <2>2. g = [n \in 0..L |-> IF n = 0 THEN m ELSE Step(pass, g[n - 1], chunks[n], FALSE)]
    BY <2>1
  <2>3. QED
    BY <2>2 DEF IsAfter
<1> DEFINE after[n \in 0..Len(chunks)] ==
             IF n = 0 THEN m ELSE Step(pass, after[n - 1], chunks[n], FALSE)
<1>6. \A n \in 0..L : after[n] = IF n = 0 THEN m ELSE Step(pass, after[n - 1], chunks[n], FALSE)
  <2>1. \E f : f = [n \in 0..Len(chunks) |->
                      IF n = 0 THEN m ELSE Step(pass, f[n - 1], chunks[n], FALSE)]
    BY <1>5 DEF IsAfter
  <2>2. after = [n \in 0..Len(chunks) |->
                   IF n = 0 THEN m ELSE Step(pass, after[n - 1], chunks[n], FALSE)]
    BY <2>1, Zenon
  <2> HIDE DEF after
  <2>3. QED
    BY <2>2, Zenon
<1>7. Steps(pass, m, chunks) = after[L]
  BY DEF Steps
<1> HIDE DEF after
<1> DEFINE S == {n \in Nat : n <= L => after[n] \in M /\ <<n, after[n]>> \in T}
<1>8. 0 \in S
  <2>1. 0 \in 0..L
    BY <1>1
  <2>2. after[0] = IF 0 = 0 THEN m ELSE Step(pass, after[0 - 1], chunks[0], FALSE)
    BY <1>6, <2>1
  <2>3. after[0] = m
    BY <2>2
  <2>4. QED
    BY <2>3
<1>9. ASSUME NEW n \in Nat, n \in S
      PROVE  n + 1 \in S
  <2>1. SUFFICES ASSUME n + 1 <= L
                 PROVE  after[n + 1] \in M /\ <<n + 1, after[n + 1]>> \in T
    OBVIOUS
  <2>2. after[n] \in M /\ <<n, after[n]>> \in T
    BY <1>1, <1>9, <2>1
  <2>3. PICK k \in 1..L : k = n + 1 /\ k - 1 = n
    BY <1>1, <2>1
  <2>4. after[k] = Step(pass, after[n], chunks[k], FALSE)
    <3>1. k \in 0..L /\ k # 0
      BY <1>1, <2>3
    <3>2. after[k] = IF k = 0 THEN m ELSE Step(pass, after[k - 1], chunks[k], FALSE)
      BY <1>6, <3>1
    <3>3. QED
      BY <2>3, <3>1, <3>2
  <2>5. chunks[k] \in C
    BY <1>1
  <2> HIDE DEF L
  <2>6. after[k] \in M
    BY <2>2, <2>4, <2>5
  <2>7. <<k, after[k]>> \in T
    BY <2>2, <2>3, <2>4 DEF L
  <2>8. QED
    BY <2>3, <2>6, <2>7
<1>10. L \in S
  <2> HIDE DEF S
  <2>1. QED
    BY <1>1, <1>8, <1>9, SetInduction
<1>11. QED
  BY <1>1, <1>7, <1>10

-----------------------------------------------------------------------------
(* Chunks                                                                  *)

\* The chunks of a buffer are its parts, and so is what is left of it.
LEMMA ChunkFacts ==
  ASSUME NEW S, NEW buffer \in Seq(S), NEW size \in Nat, NEW n \in Nat, n * size <= Len(buffer)
  PROVE  /\ Chunks(buffer, size, n) \in Seq(Seq(S)) /\ Len(Chunks(buffer, size, n)) = n
         /\ \A j \in 1..n :
              /\ j * size \in Nat /\ (j - 1) * size \in Nat /\ (j - 1) * size <= j * size
              /\ j * size <= Len(buffer)
              /\ Chunks(buffer, size, n)[j] = SubSeq(buffer, (j - 1) * size + 1, j * size)
         /\ Rest(buffer, n * size) \in Seq(S)
         /\ Len(Rest(buffer, n * size)) = Len(buffer) - n * size
<1>1. ASSUME NEW j \in 1..n
      PROVE  /\ j * size \in Nat /\ (j - 1) * size \in Nat /\ (j - 1) * size <= j * size
             /\ j * size <= Len(buffer) /\ SubSeq(buffer, (j - 1) * size + 1, j * size) \in Seq(S)
  <2>1. j \in Nat /\ j - 1 \in Nat /\ j <= n /\ j - 1 <= j
    OBVIOUS
  <2>2. PICK a \in Nat, b \in Nat, c \in Nat : a = (j - 1) * size /\ b = j * size /\ c = n * size
    BY <2>1, Products
  <2>3. a <= b /\ b <= c
    BY <2>1, <2>2, Products
  <2>4. c <= Len(buffer) /\ Len(buffer) \in Nat
    BY <2>2
  <2>5. b <= Len(buffer)
    BY <2>3, <2>4
  <2>6. SubSeq(buffer, a + 1, b) \in Seq(S)
    BY <2>3, <2>5, PartFacts
  <2>7. QED
    BY <2>2, <2>3, <2>5, <2>6
<1>2. Chunks(buffer, size, n) = [j \in 1..n |-> SubSeq(buffer, (j - 1) * size + 1, j * size)]
  BY DEF Chunks
<1>3. \A j \in 1..n : Chunks(buffer, size, n)[j] = SubSeq(buffer, (j - 1) * size + 1, j * size)
  BY <1>2
<1>4. Chunks(buffer, size, n) \in [1..n -> Seq(S)]
  BY <1>1, <1>2
<1>5. PICK f : f = Chunks(buffer, size, n)
  OBVIOUS
<1>6. f \in Seq(Seq(S)) /\ Len(f) = n
  <2>1. f \in [1..n -> Seq(S)]
    BY <1>4, <1>5
  <2>2. PICK X : X = Seq(S)
    OBVIOUS
  <2>3. f \in [1..n -> X]
    BY <2>1, <2>2
  <2>4. f \in Seq(X) /\ Len(f) = n
    BY <2>3
  <2>5. QED
    BY <2>2, <2>4
<1>7. Rest(buffer, n * size) \in Seq(S) /\ Len(Rest(buffer, n * size)) = Len(buffer) - n * size
  <2>1. n * size \in Nat /\ Len(buffer) \in Nat
    BY Products
  <2>2. PICK a \in Nat : a = n * size /\ a <= Len(buffer)
    BY <2>1
  <2>3. PICK b \in Nat : b = Len(buffer) /\ a <= b /\ b <= Len(buffer)
    BY <2>1, <2>2
  <2>4. a <= b /\ b <= Len(buffer)
    BY <2>3
  <2>5. SubSeq(buffer, a + 1, b) \in Seq(S) /\ Len(SubSeq(buffer, a + 1, b)) = b - a
    BY <2>4, PartFacts
  <2>6. QED
    BY <2>2, <2>3, <2>5 DEF Rest
<1>8. QED
  BY <1>1, <1>3, <1>5, <1>6, <1>7

\* The same, one chunk at a time.
LEMMA ChunkAt ==
  ASSUME NEW S, NEW buffer \in Seq(S), NEW size \in Nat, NEW n \in Nat, n * size <= Len(buffer),
         NEW j \in 1..n
  PROVE  /\ j * size \in Nat /\ (j - 1) * size \in Nat /\ (j - 1) * size <= j * size
         /\ j * size <= Len(buffer)
         /\ Chunks(buffer, size, n)[j] = SubSeq(buffer, (j - 1) * size + 1, j * size)
BY ChunkFacts

\* The buffer is the part of the text s from a to b, and chunk j of its n chunks
\* the part from c to d of it.
ChunkPlace(S, s, a, b, buffer, size, n, j, c, d) ==
  /\ s \in Seq(S) /\ a \in Nat /\ b \in Nat /\ a <= b /\ b <= Len(s)
  /\ buffer = SubSeq(s, a + 1, b)
  /\ size \in Nat /\ n \in Nat /\ n * size <= b - a /\ j \in 1..n
  /\ c \in Nat /\ d \in Nat /\ c = (j - 1) * size /\ d = j * size
ChunkIs(buffer, size, n, j, s, a, c, d) ==
  Chunks(buffer, size, n)[j] = SubSeq(s, a + c + 1, a + d)

\* The chunks of a part of a text are parts of the text.
LEMMA ChunkOfPart ==
  ASSUME NEW S, NEW s, NEW a, NEW b, NEW buffer, NEW size, NEW n, NEW j, NEW c, NEW d,
         ChunkPlace(S, s, a, b, buffer, size, n, j, c, d)
  PROVE  ChunkIs(buffer, size, n, j, s, a, c, d)
<1>0. /\ s \in Seq(S) /\ a \in Nat /\ b \in Nat /\ a <= b /\ b <= Len(s)
      /\ buffer = SubSeq(s, a + 1, b)
      /\ size \in Nat /\ n \in Nat /\ n * size <= b - a /\ j \in 1..n
      /\ c \in Nat /\ d \in Nat /\ c = (j - 1) * size /\ d = j * size
  BY DEF ChunkPlace
<1>1. buffer \in Seq(S) /\ Len(buffer) = b - a
  BY <1>0, PartFacts
<1>2. n * size <= Len(buffer)
  BY <1>0, <1>1
<1>3. /\ j * size \in Nat /\ (j - 1) * size \in Nat /\ (j - 1) * size <= j * size
      /\ j * size <= Len(buffer)
      /\ Chunks(buffer, size, n)[j] = SubSeq(buffer, (j - 1) * size + 1, j * size)
  BY <1>0, <1>1, <1>2, ChunkAt
<1>4. /\ s \in Seq(S) /\ a \in Nat /\ b \in Nat /\ a <= b /\ b <= Len(s)
      /\ c \in Nat /\ d \in Nat /\ c <= d /\ d <= b - a
  BY <1>0, <1>1, <1>3
<1>5. SubSeq(SubSeq(s, a + 1, b), c + 1, d) = SubSeq(s, a + c + 1, a + d)
  BY <1>4, PartOfPart
<1>6. QED
  BY <1>0, <1>3, <1>5 DEF ChunkIs

\* And so is what is left.
LEMMA RestOfPart ==
  ASSUME NEW S, NEW s \in Seq(S), NEW a \in Nat, NEW b \in Nat, a <= b, b <= Len(s),
         NEW c \in Nat, c <= b - a
  PROVE  Rest(SubSeq(s, a + 1, b), c) = SubSeq(s, a + c + 1, b)
<1>1. PICK d \in Nat : d = b - a /\ a + d = b
  OBVIOUS
<1>2. Len(SubSeq(s, a + 1, b)) = d
  BY <1>1, PartFacts
<1>3. SubSeq(SubSeq(s, a + 1, b), c + 1, d) = SubSeq(s, a + c + 1, a + d)
  BY <1>1, PartOfPart
<1>4. QED
  BY <1>1, <1>2, <1>3 DEF Rest

\* Two lists one after the other.
LEMMA JoinFacts ==
  ASSUME NEW S, NEW s \in Seq(S), NEW t \in Seq(S)
  PROVE  /\ s \o t \in Seq(S) /\ Len(s \o t) = Len(s) + Len(t)
         /\ \A i \in 1..Len(s) : (s \o t)[i] = s[i]
         /\ \A i \in 1..Len(t) : (s \o t)[Len(s) + i] = t[i]
<1>1. /\ s \o t \in Seq(S) /\ Len(s \o t) = Len(s) + Len(t)
      /\ \A i \in 1..(Len(s) + Len(t)) :
           (s \o t)[i] = IF i <= Len(s) THEN s[i] ELSE t[i - Len(s)]
  BY ConcatProperties
<1>2. Len(s) \in Nat /\ Len(t) \in Nat
  OBVIOUS
<1>3. \A i \in 1..Len(s) : (s \o t)[i] = s[i]
  BY <1>1, <1>2
<1>4. ASSUME NEW i \in 1..Len(t) PROVE (s \o t)[Len(s) + i] = t[i]
  <2>1. PICK k \in 1..(Len(s) + Len(t)) : k = Len(s) + i /\ ~(k <= Len(s)) /\ k - Len(s) = i
    BY <1>2
  <2>2. (s \o t)[k] = IF k <= Len(s) THEN s[k] ELSE t[k - Len(s)]
    BY <1>1
  <2>3. QED
    BY <2>1, <2>2
<1>5. QED
  BY <1>1, <1>3, <1>4

\* All but the last, and the last, of a list.
LEMMA FrontAndLast ==
  ASSUME NEW S, NEW s \in Seq(S), s # <<>>
  PROVE  /\ Front(s) \in Seq(S) /\ Len(Front(s)) = Len(s) - 1
         /\ \A i \in 1..(Len(s) - 1) : Front(s)[i] = s[i]
         /\ Last(s) \in S /\ Last(s) = s[Len(s)] /\ Len(s) >= 1
<1>1. Len(s) \in Nat /\ Len(s) >= 1
  BY EmptySeq
<1>2. PICK n \in Nat : n = Len(s) - 1 /\ n <= Len(s)
  <2>1. Len(s) - 1 \in Nat /\ Len(s) - 1 <= Len(s)
    BY <1>1
  <2>2. QED
    BY <2>1
<1>3. /\ SubSeq(s, 0 + 1, n) \in Seq(S) /\ Len(SubSeq(s, 0 + 1, n)) = n - 0
      /\ \A i \in 1..(n - 0) : SubSeq(s, 0 + 1, n)[i] = s[0 + i]
  BY <1>2, PartFacts
<1>4. QED
  BY <1>1, <1>2, <1>3 DEF Front, Last

-----------------------------------------------------------------------------
(* One chunk                                                               *)

\* What is encrypted is a list of bytes of the one encryption.
LEMMA EncryptFacts ==
  ASSUME SizesAssumption, NEW key, NEW nonce, NEW text \in Seq(Nat), NEW G,
         \A i \in Nat : CipherByte(key, nonce, text, i) \in G
  PROVE  Encrypt(key, nonce, text) \in Seq(G)
<1>1. PICK n \in Nat : n = Len(text) + TAG_SIZE
  <2>1. Len(text) + TAG_SIZE \in Nat
    BY DEF SizesAssumption
  <2>2. QED
    BY <2>1
<1>2. [i \in 1..n |-> CipherByte(key, nonce, text, i)] \in [1..n -> G]
  OBVIOUS
<1>3. PICK f : f = [i \in 1..n |-> CipherByte(key, nonce, text, i)]
  OBVIOUS
<1>4. f \in [1..n -> G]
  BY <1>2, <1>3
<1>5. f \in Seq(G)
  BY <1>4
<1>6. Encrypt(key, nonce, text) = f
  BY <1>1, <1>3 DEF Encrypt
<1>7. QED
  BY <1>5, <1>6

\* What is authentic is the encryption its first byte is of.
LEMMA AuthenticFacts ==
  ASSUME SizesAssumption, NEW key, NEW nonce, NEW sealed \in Seq(Bytes),
         Authentic(key, nonce, sealed)
  PROVE  /\ sealed # <<>> /\ 1 \in DOMAIN sealed /\ sealed[1].text \in Seq(Nat)
         /\ sealed[1].key = key /\ sealed[1].nonce = nonce
<1>1. sealed # <<>> /\ sealed = Encrypt(key, nonce, sealed[1].text)
  BY DEF Authentic
<1>2. Len(sealed) \in Nat \ {0} /\ DOMAIN sealed = 1..Len(sealed)
  BY <1>1, EmptySeq
<1>3. 1 \in DOMAIN sealed
  BY <1>2
<1>4. sealed[1] \in Bytes
  BY <1>2
<1>5. PICK text : text = sealed[1].text
  OBVIOUS
<1>6. sealed = [i \in 1..(Len(text) + TAG_SIZE) |-> CipherByte(key, nonce, text, i)]
  BY <1>1, <1>5 DEF Encrypt
<1>7. 1 \in 1..(Len(text) + TAG_SIZE)
  BY <1>3, <1>6
<1>8. sealed[1] = CipherByte(key, nonce, text, 1)
  BY <1>6, <1>7
<1>9. QED
  BY <1>1, <1>3, <1>4, <1>8 DEF CipherByte, Bytes

\* An opener that is given genuine bytes releases a beginning of the plaintext.
LEMMA OpenChunkReleases ==
  ASSUME SizesAssumption, plain \in Seq(Nat), NEW m, Released(m), NEW final \in BOOLEAN,
         NEW sealed \in Seq(Genuine)
  PROVE  /\ Released(OpenChunk(Key, m, sealed, final))
         /\ OpenChunk(Key, m, sealed, final).raised
              \/ OpenChunk(Key, m, sealed, final).finished = final
<1> DEFINE nonce == ChunkNonce(m.counter, final)
           m1 == OpenChunk(Key, m, sealed, final)
<1>1. m \in Machines(Nat)
  BY DEF Released
<1>2. CASE m1 = Raise(m)
  <2>1. /\ Raise(m) \in Machines(Nat) /\ Raise(m).raised = TRUE /\ Raise(m).out = m.out
        /\ Raise(m).finished = m.finished /\ Raise(m).counter = m.counter
    BY <1>1 DEF Raise, Machines
  <2>2. QED
    BY <1>2, <2>1 DEF Released
<1>3. CASE m1 # Raise(m)
  <2>1. /\ ~m.raised /\ ~m.finished /\ Authentic(Key, nonce, sealed)
        /\ m1 = Emit(m, sealed[1].text, final)
    BY <1>3 DEF OpenChunk
  <2>2. sealed \in Seq(Bytes) /\ \A j \in DOMAIN sealed : Faithful(sealed[j])
    <3>1. \A j \in 1..Len(sealed) : sealed[j] \in Genuine
      OBVIOUS
    <3>2. Genuine \subseteq Bytes /\ \A b \in Genuine : Faithful(b)
      BY DEF Genuine
    <3>3. QED
      BY <3>1, <3>2
  <2>3. /\ 1 \in DOMAIN sealed /\ sealed[1].text \in Seq(Nat)
        /\ sealed[1].key = Key /\ sealed[1].nonce = nonce
    BY <2>1, <2>2, AuthenticFacts
  <2>4. PICK text \in Seq(Nat) : text = sealed[1].text
    BY <2>3
  <2>5. m.counter \in Nat /\ m.out \in Seq(Nat) /\ Len(m.out) \in Nat
    BY <1>1 DEF Machines
  <2>6. nonce \in Nat \X BOOLEAN /\ nonce[1] = m.counter /\ nonce[2] = final
    BY <2>5 DEF ChunkNonce
  <2>7. PICK from \in Nat : from = m.counter * CHUNK_SIZE /\ Len(m.out) = from
    BY <2>1, <2>5 DEF Released
  <2>8. PICK to \in Nat : to = from + Len(text) /\ from <= to
    <3>1. Len(text) \in Nat
      BY <2>4
    <3>2. QED
      BY <3>1
  <2>9. /\ to <= Len(plain) /\ text = SubSeq(plain, from + 1, to)
        /\ IF final THEN to = Len(plain) ELSE Len(text) = CHUNK_SIZE
    <3>1. Faithful(sealed[1])
      BY <2>2, <2>3
    <3> HIDE DEF nonce
    <3>2. QED
      BY <2>3, <2>4, <2>6, <2>7, <2>8, <3>1 DEF Faithful
  <2>10. m.out \o text = SubSeq(plain, 1, to)
    <3>1. m.out = SubSeq(plain, 0 + 1, from)
      BY <2>7 DEF Released
    <3>2. SubSeq(plain, 0 + 1, from) \o SubSeq(plain, from + 1, to) = SubSeq(plain, 0 + 1, to)
      <4>1. 0 <= from /\ from <= to /\ to <= Len(plain)
        BY <2>8, <2>9
      <4>2. QED
        BY <4>1, PartsJoin
    <3>3. 0 + 1 = 1
      OBVIOUS
    <3>4. text = SubSeq(plain, from + 1, to)
      BY <2>9
    <3>5. QED
      BY <3>1, <3>2, <3>3, <3>4, Zenon
  <2>11. /\ m.out \o text \in Seq(Nat) /\ Len(m.out \o text) = to
    <3>1. m.out \o text \in Seq(Nat) /\ Len(m.out \o text) = Len(m.out) + Len(text)
      BY <2>4, <2>5, JoinFacts
    <3>2. QED
      BY <2>7, <2>8, <3>1
  <2>12. /\ m1 = [counter |-> m.counter + 1, finished |-> final, raised |-> FALSE,
                 out |-> m.out \o text]
    BY <2>1, <2>4 DEF Emit
  <2>13. m1 \in Machines(Nat)
    BY <2>5, <2>11, <2>12 DEF Machines
  <2>14. ASSUME final PROVE m.out \o text = plain
    <3>1. to = Len(plain)
      BY <2>9, <2>14
    <3>2. SubSeq(plain, 1, Len(plain)) = plain
      BY SubSeqFull
    <3>3. QED
      BY <2>10, <3>1, <3>2
  <2>15. ASSUME ~final PROVE to = (m.counter + 1) * CHUNK_SIZE
    <3>1. Len(text) = CHUNK_SIZE /\ CHUNK_SIZE \in Nat
      BY <2>9, <2>15 DEF SizesAssumption
    <3>2. (m.counter + 1) * CHUNK_SIZE = m.counter * CHUNK_SIZE + CHUNK_SIZE
      BY <2>5, <3>1, Products
    <3>3. QED
      BY <2>7, <2>8, <3>1, <3>2
  <2> HIDE DEF m1
  <2>16. m1.out = m.out \o text /\ m1.finished = final /\ m1.counter = m.counter + 1
    BY <2>12
  <2>17. IF m1.finished THEN m1.out = plain ELSE Len(m1.out) = m1.counter * CHUNK_SIZE
    BY <2>11, <2>14, <2>15, <2>16
  <2>18. Len(m1.out) <= Len(plain) /\ m1.out = SubSeq(plain, 1, Len(m1.out))
    BY <2>9, <2>10, <2>11, <2>16
  <2>19. Released(m1) /\ m1.finished = final
    BY <2>13, <2>16, <2>17, <2>18 DEF Released
  <2>20. QED
    BY <2>19 DEF m1
<1>4. QED
  BY <1>2, <1>3

\* What a chunk makes of a sealer's machine m: it raises, or counts the chunk.
Counted(m, m1, final) ==
  /\ m1 \in Machines(Genuine)
  /\ m1.raised \/ (m1.counter = m.counter + 1 /\ (m1.finished <=> final) /\ ~m1.raised)

\* A sealer that is given the chunk its counter says emits genuine bytes.
LEMMA SealChunkIsFaithful ==
  ASSUME SizesAssumption, plain \in Seq(Nat), NEW m \in Machines(Genuine), NEW final \in BOOLEAN,
         NEW from \in Nat, NEW to \in Nat, from = m.counter * CHUNK_SIZE,
         from <= to, to <= Len(plain), final => to = Len(plain),
         NEW text, text = SubSeq(plain, from + 1, to)
  PROVE  Counted(m, SealChunk(Key, m, text, final), final)
<1> DEFINE nonce == ChunkNonce(m.counter, final)
           m1 == SealChunk(Key, m, text, final)
<1>1. CASE m1 = Raise(m)
  <2>1. Raise(m) \in Machines(Genuine) /\ Raise(m).raised = TRUE
    BY DEF Raise, Machines
  <2>2. QED
    BY <1>1, <2>1 DEF Counted
<1>2. CASE m1 # Raise(m)
  <2>1. /\ ~m.raised /\ m1 = Emit(m, Encrypt(Key, nonce, text), final)
        /\ ~final => Len(text) = CHUNK_SIZE
    BY <1>2 DEF SealChunk
  <2>2. m.counter \in Nat /\ m.out \in Seq(Genuine)
    BY DEF Machines
  <2>3. text \in Seq(Nat) /\ Len(text) = to - from
    BY PartFacts
  <2>4. ASSUME NEW i \in Nat PROVE CipherByte(Key, nonce, text, i) \in Genuine
    <3>1. PICK b : b = CipherByte(Key, nonce, text, i)
      OBVIOUS
    <3>2. b.key = Key /\ b.nonce = <<m.counter, final>> /\ b.text = text
      BY <3>1 DEF CipherByte, ChunkNonce
    <3>3. b \in Bytes
      BY <2>2, <2>3, <3>1 DEF CipherByte, ChunkNonce, Bytes, ChunkNonces
    <3>4. b.nonce[1] = m.counter /\ b.nonce[2] = final
      BY <3>2
    <3>5. from + Len(text) = to
      BY <2>3
    <3>6. Faithful(b)
      BY <2>1, <3>2, <3>4, <3>5 DEF Faithful
    <3>7. QED
      BY <3>1, <3>3, <3>6 DEF Genuine
  <2>5. Encrypt(Key, nonce, text) \in Seq(Genuine)
    <3> HIDE DEF nonce
    <3>1. QED
      BY <2>3, <2>4, EncryptFacts
  <2>6. PICK e \in Seq(Genuine) : e = Encrypt(Key, nonce, text)
    BY <2>5
  <2>7. m.out \o e \in Seq(Genuine)
    BY <2>2, JoinFacts
  <2>8. m1 = [counter |-> m.counter + 1, finished |-> final, raised |-> FALSE, out |-> m.out \o e]
    BY <2>1, <2>6 DEF Emit
  <2> HIDE DEF m1
  <2>9. m1 \in Machines(Genuine)
    BY <2>2, <2>7, <2>8 DEF Machines
  <2>10. QED
    BY <2>8, <2>9 DEF m1, Counted
<1>3. QED
  BY <1>1, <1>2

\* Sealing under another key leaves bytes under the other key.
LEMMA SealChunkOfOther ==
  ASSUME SizesAssumption, NEW G, NEW m \in Machines(G), NEW final \in BOOLEAN, NEW key,
         \A counter \in Nat, t \in Seq(Nat), i \in Nat :
            CipherByte(key, <<counter, final>>, t, i) \in G,
         NEW text \in Seq(Nat)
  PROVE  SealChunk(key, m, text, final) \in Machines(G)
<1> DEFINE nonce == ChunkNonce(m.counter, final)
           m1 == SealChunk(key, m, text, final)
<1>1. CASE m1 = Raise(m)
  BY <1>1 DEF Raise, Machines
<1>2. CASE m1 # Raise(m)
  <2>1. m1 = Emit(m, Encrypt(key, nonce, text), final)
    BY <1>2 DEF SealChunk
  <2>2. m.counter \in Nat /\ m.out \in Seq(G)
    BY DEF Machines
  <2>3. \A i \in Nat : CipherByte(key, nonce, text, i) \in G
    BY <2>2 DEF ChunkNonce
  <2>4. Encrypt(key, nonce, text) \in Seq(G)
    <3> HIDE DEF nonce
    <3>1. QED
      BY <2>3, EncryptFacts
  <2>5. PICK e \in Seq(G) : e = Encrypt(key, nonce, text)
    BY <2>4
  <2>6. m.out \o e \in Seq(G)
    BY <2>2, JoinFacts
  <2>7. m1 = [counter |-> m.counter + 1, finished |-> final, raised |-> FALSE, out |-> m.out \o e]
    BY <2>1, <2>5 DEF Emit
  <2> HIDE DEF m1
  <2>8. m1 \in Machines(G)
    BY <2>2, <2>6, <2>7 DEF Machines
  <2>9. QED
    BY <2>8 DEF m1
<1>3. QED
  BY <1>1, <1>2

-----------------------------------------------------------------------------
(* A pass                                                                  *)

Openers == {x \in Machines(Nat) : Released(x)}

\* An opener that goes through genuine chunks.
LEMMA OpenStepsRelease ==
  ASSUME SizesAssumption, plain \in Seq(Nat), NEW m \in Openers,
         NEW chunks \in Seq(Seq(Genuine))
  PROVE  Steps(Opening(Key), m, chunks) \in Openers
<1> DEFINE pass == Opening(Key)
           C == Seq(Genuine)
           T == Nat \X Openers
<1>1. ASSUME NEW x \in Openers, NEW c \in C
      PROVE  Step(pass, x, c, FALSE) \in Openers
  <2>1. Step(pass, x, c, FALSE) = OpenChunk(Key, x, c, FALSE)
    BY DEF Step, Opening
  <2>2. Released(OpenChunk(Key, x, c, FALSE))
    BY OpenChunkReleases DEF Openers
  <2>3. QED
    BY <2>1, <2>2 DEF Openers, Released
<1>2. Len(chunks) \in Nat /\ \A n \in 1..Len(chunks) : chunks[n] \in C
  OBVIOUS
<1>3. <<0, m>> \in T
  OBVIOUS
<1>4. \A n \in 1..Len(chunks), x \in Openers :
        <<n - 1, x>> \in T => <<n, Step(pass, x, chunks[n], FALSE)>> \in T
  <2> HIDE DEF pass, C
  <2>1. SUFFICES ASSUME NEW n \in 1..Len(chunks), NEW x \in Openers
                 PROVE  <<n, Step(pass, x, chunks[n], FALSE)>> \in T
    OBVIOUS
  <2>2. PICK c \in C : c = chunks[n]
    BY <1>2
  <2>3. Step(pass, x, c, FALSE) \in Openers
    BY <1>1
  <2>4. n \in Nat
    BY <1>2
  <2>5. QED
    BY <2>2, <2>3, <2>4
<1>5. chunks \in Seq(C)
  OBVIOUS
<1> HIDE DEF pass, C, T
<1>6. Steps(pass, m, chunks) \in Openers
  BY <1>1, <1>3, <1>4, <1>5, StepsKeep
<1>7. QED
  BY <1>6 DEF pass

\* The sealer of the plaintext that goes through its chunks in order.
LEMMA SealStepsAreFaithful ==
  ASSUME SizesAssumption, plain \in Seq(Nat),
         NEW m \in Machines(Genuine), ~m.raised, ~m.finished,
         NEW chunks \in Seq(Seq(Nat)),
         \A q \in 1..Len(chunks) :
            /\ (m.counter + q) * CHUNK_SIZE <= Len(plain)
            /\ chunks[q] = SubSeq(plain, (m.counter + q - 1) * CHUNK_SIZE + 1,
                                         (m.counter + q) * CHUNK_SIZE)
  PROVE  LET r == Steps(Sealing(Key), m, chunks)
         IN /\ r \in Machines(Genuine)
            /\ r.raised \/ (r.counter = m.counter + Len(chunks) /\ ~r.finished)
<1> DEFINE pass == Sealing(Key)
           C == Seq(Nat)
           M == Machines(Bytes)
           T == {p \in Nat \X Machines(Genuine) :
                   p[2].raised \/ (p[2].counter = m.counter + p[1] /\ ~p[2].finished)}
<1>1. \A x, c : Step(pass, x, c, FALSE) = SealChunk(Key, x, c, FALSE)
  BY DEF Step, Sealing
<1>2. ASSUME NEW x \in M, NEW c \in C
      PROVE  Step(pass, x, c, FALSE) \in M
  <2>1. \A counter \in Nat, t \in Seq(Nat), i \in Nat :
           CipherByte(Key, <<counter, FALSE>>, t, i) \in Bytes
    BY DEF CipherByte, Bytes, ChunkNonces
  <2>2. SealChunk(Key, x, c, FALSE) \in Machines(Bytes)
    BY <2>1, SealChunkOfOther
  <2>3. QED
    BY <1>1, <2>2
<1>3. Len(chunks) \in Nat /\ \A q \in 1..Len(chunks) : chunks[q] \in C
  OBVIOUS
<1>4. m \in M
  <2>1. Genuine \subseteq Bytes
    BY DEF Genuine
  <2>2. m.out \in Seq(Genuine)
    BY DEF Machines
  <2>3. m.out \in Seq(Bytes)
    BY <2>1, <2>2
  <2>4. QED
    BY <2>3 DEF Machines
<1>5. m.counter \in Nat /\ CHUNK_SIZE \in Nat
  BY DEF Machines, SizesAssumption
<1>6. <<0, m>> \in T
  <2>1. m.counter = m.counter + 0
    BY <1>5
  <2>2. QED
    BY <2>1
<1>7. ASSUME NEW q \in 1..Len(chunks), NEW x \in M, <<q - 1, x>> \in T
      PROVE  <<q, Step(pass, x, chunks[q], FALSE)>> \in T
  <2> DEFINE r == SealChunk(Key, x, chunks[q], FALSE)
  <2>1. /\ q \in Nat /\ q - 1 \in Nat /\ x \in Machines(Genuine)
        /\ x.raised \/ (x.counter = m.counter + (q - 1) /\ ~x.finished)
    BY <1>3, <1>7
  <2>2. CASE x.raised
    <3>1. r = Raise(x)
      BY <2>2 DEF SealChunk
    <3>2. Raise(x) \in Machines(Genuine) /\ Raise(x).raised
      BY <2>1 DEF Raise, Machines
    <3>3. QED
      BY <1>1, <2>1, <3>1, <3>2
  <2>3. CASE ~x.raised
    <3>1. x.counter = m.counter + q - 1 /\ m.counter + q \in Nat /\ m.counter + q - 1 \in Nat
          /\ m.counter + q - 1 <= m.counter + q
      <4>1. PICK c \in Nat : c = m.counter
        BY <1>5
      <4>2. x.counter = c + (q - 1)
        BY <2>1, <2>3, <4>1
      <4>3. c + (q - 1) = c + q - 1 /\ c + q \in Nat /\ c + q - 1 \in Nat /\ c + q - 1 <= c + q
        BY <2>1
      <4>4. QED
        BY <4>1, <4>2, <4>3
    <3>2. PICK from \in Nat, to \in Nat :
             /\ from = (m.counter + q - 1) * CHUNK_SIZE /\ to = (m.counter + q) * CHUNK_SIZE
             /\ from <= to
      <4>1. PICK a \in Nat, b \in Nat : a = m.counter + q - 1 /\ b = m.counter + q /\ a <= b
        BY <3>1
      <4>2. a * CHUNK_SIZE \in Nat /\ b * CHUNK_SIZE \in Nat /\ a * CHUNK_SIZE <= b * CHUNK_SIZE
        BY <1>5, <4>1, Products
      <4>3. QED
        BY <4>1, <4>2
    <3>3. to <= Len(plain) /\ chunks[q] = SubSeq(plain, from + 1, to)
      BY <3>2
    <3>4. from = x.counter * CHUNK_SIZE
      BY <3>1, <3>2
    <3>5. /\ r \in Machines(Genuine)
          /\ r.raised \/ (r.counter = x.counter + 1 /\ ~r.finished)
      <4>1. PICK text : text = chunks[q]
        OBVIOUS
      <4>2. from <= to
        BY <3>2
      <4>3. text = SubSeq(plain, from + 1, to)
        BY <3>3, <4>1
      <4>4. x \in Machines(Genuine)
        BY <2>1
      <4>5. to <= Len(plain) /\ FALSE \in BOOLEAN
        BY <3>3
      <4>6. Counted(x, SealChunk(Key, x, text, FALSE), FALSE)
        BY <3>4, <4>2, <4>3, <4>4, <4>5, SealChunkIsFaithful
      <4>7. Counted(x, r, FALSE)
        BY <4>1, <4>6
      <4> HIDE DEF r
      <4>8. QED
        BY <4>7 DEF Counted
    <3>6. m.counter + q - 1 + 1 = m.counter + q
      BY <1>5, <2>1
    <3> HIDE DEF r
    <3>7. <<q, r>> \in T
      BY <2>1, <3>1, <3>5, <3>6
    <3>8. QED
      BY <1>1, <3>7 DEF r
  <2>4. QED
    BY <2>2, <2>3
<1>8. chunks \in Seq(C)
  OBVIOUS
<1> HIDE DEF pass, C, M, T
<1>9. <<Len(chunks), Steps(pass, m, chunks)>> \in T
  BY <1>2, <1>4, <1>6, <1>7, <1>8, StepsKeep
<1>10. QED
  BY <1>9 DEF T, pass

-----------------------------------------------------------------------------
(* The generators                                                          *)

OpenStates ==
  {s \in [machine : Machines(Nat), buffer : Seq(Genuine), pending : Seq(Seq(Genuine))] :
     Released(s.machine)}

\* Opening a piece of genuine bytes, however it was cut, releases a beginning
\* of the plaintext.
LEMMA AbsorbOpening ==
  ASSUME SizesAssumption, plain \in Seq(Nat), NEW s \in OpenStates, NEW piece \in Seq(Genuine)
  PROVE  Absorb(Opening(Key), s, piece) \in OpenStates
<1> DEFINE pass == Opening(Key)
           size == SEALED_CHUNK_SIZE
           buffer == s.buffer \o piece
           full == Len(buffer) \div size
           queue == s.pending \o Chunks(buffer, size, full)
<1>1. size \in Nat \ {0} /\ pass.size = size
  BY DEF SizesAssumption, SEALED_CHUNK_SIZE, Opening
<1>2. s \in [machine : Machines(Nat), buffer : Seq(Genuine), pending : Seq(Seq(Genuine))]
      /\ Released(s.machine)
  BY DEF OpenStates
<1>3. buffer \in Seq(Genuine) /\ Len(buffer) \in Nat
  BY <1>2, JoinFacts
<1> HIDE DEF buffer, size
<1>4. full \in Nat /\ full * size <= Len(buffer)
  BY <1>1, <1>3, Divided
<1> HIDE DEF full
<1>5. /\ Chunks(buffer, size, full) \in Seq(Seq(Genuine)) /\ Len(Chunks(buffer, size, full)) = full
      /\ Rest(buffer, full * size) \in Seq(Genuine)
  <2>1. buffer \in Seq(Genuine) /\ size \in Nat /\ full \in Nat /\ full * size <= Len(buffer)
    BY <1>1, <1>3, <1>4
  <2> HIDE DEF pass
  <2>2. QED
    BY <2>1, ChunkFacts
<1>6. Absorb(pass, s, piece) =
        IF full = 0 THEN [s EXCEPT !.buffer = buffer]
        ELSE [machine |-> Steps(pass, s.machine, Front(queue)),
              buffer  |-> Rest(buffer, full * size), pending |-> <<Last(queue)>>]
  BY <1>1 DEF Absorb, full, buffer
<1>7. CASE full = 0
  <2>1. [s EXCEPT !.buffer = buffer] \in OpenStates
    BY <1>2, <1>3 DEF OpenStates
  <2>2. QED
    BY <1>6, <1>7, <2>1
<1>8. CASE full # 0
  <2>1. PICK cs \in Seq(Seq(Genuine)) : cs = Chunks(buffer, size, full) /\ Len(cs) = full
    BY <1>5
  <2>2. PICK C : C = Seq(Genuine)
    OBVIOUS
  <2>3. s.pending \in Seq(C) /\ cs \in Seq(C)
    BY <1>2, <2>2
  <2>4. s.pending \o cs \in Seq(C) /\ Len(s.pending \o cs) = Len(s.pending) + Len(cs)
    BY <2>3, JoinFacts
  <2>5. queue \in Seq(C) /\ queue # <<>>
    <3>1. queue = s.pending \o cs
      BY <2>1
    <3>2. Len(s.pending) \in Nat /\ Len(queue) # 0
      BY <1>4, <1>8, <2>1, <2>3, <2>4, <3>1
    <3> HIDE DEF queue
    <3>3. QED
      BY <2>4, <3>1, <3>2, EmptySeq
  <2> HIDE DEF queue
  <2>6. Front(queue) \in Seq(C) /\ Last(queue) \in C
    BY <2>5, FrontAndLast
  <2>7. Front(queue) \in Seq(Seq(Genuine)) /\ <<Last(queue)>> \in Seq(Seq(Genuine))
    BY <2>2, <2>6
  <2>8. s.machine \in Openers
    BY <1>2 DEF Openers
  <2>9. Steps(pass, s.machine, Front(queue)) \in Openers
    BY <2>7, <2>8, OpenStepsRelease
  <2>10. PICK m \in Openers : m = Steps(pass, s.machine, Front(queue))
    BY <2>9
  <2>11. Absorb(pass, s, piece) = [machine |-> m, buffer |-> Rest(buffer, full * size),
                                   pending |-> <<Last(queue)>>]
    BY <1>6, <1>8, <2>10 DEF queue
  <2> HIDE DEF pass
  <2>12. QED
    BY <1>5, <2>7, <2>11 DEF OpenStates, Openers, pass
<1>9. QED
  BY <1>7, <1>8

\* So does the end of the input, and when nothing failed there the opener has
\* seen the chunk that is flagged as the last.
LEMMA FinishOpening ==
  ASSUME SizesAssumption, plain \in Seq(Nat), NEW s \in OpenStates
  PROVE  /\ Released(Finish(Opening(Key), s))
         /\ Finish(Opening(Key), s).raised \/ Finish(Opening(Key), s).finished
<1> DEFINE pass == Opening(Key)
           Ends(r) == Released(r) /\ (r.raised \/ r.finished)
<1>1. s.buffer \in Seq(Genuine) /\ s.pending \in Seq(Seq(Genuine)) /\ s.machine \in Openers
  BY DEF OpenStates, Openers
<1>2. ASSUME NEW m \in Openers, NEW c \in Seq(Genuine)
      PROVE  Ends(Step(pass, m, c, TRUE))
  <2>1. Step(pass, m, c, TRUE) = OpenChunk(Key, m, c, TRUE)
    BY DEF Step, Opening
  <2>2. Released(m) /\ TRUE \in BOOLEAN
    BY DEF Openers
  <2>3. Released(OpenChunk(Key, m, c, TRUE))
    BY <2>2, OpenChunkReleases
  <2>4. OpenChunk(Key, m, c, TRUE).raised \/ OpenChunk(Key, m, c, TRUE).finished = TRUE
    BY <2>2, OpenChunkReleases
  <2>5. QED
    BY <2>1, <2>3, <2>4
<1>3. CASE s.buffer # <<>>
  <2>1. Steps(pass, s.machine, s.pending) \in Openers
    BY <1>1, OpenStepsRelease
  <2>2. Finish(pass, s) = Step(pass, Steps(pass, s.machine, s.pending), s.buffer, TRUE)
    BY <1>3 DEF Finish
  <2> HIDE DEF pass, Ends
  <2>3. Ends(Finish(pass, s))
    BY <1>1, <1>2, <2>1, <2>2
  <2>4. QED
    BY <2>3 DEF pass, Ends
<1>4. CASE s.buffer = <<>> /\ s.pending # <<>>
  <2>1. PICK C : C = Seq(Genuine)
    OBVIOUS
  <2>2. s.pending \in Seq(C) /\ Len(s.pending) \in Nat \ {0}
    BY <1>1, <1>4, <2>1, EmptySeq
  <2>3. s.pending[1] \in C
    BY <2>2
  <2>4. Finish(pass, s) = Step(pass, s.machine, s.pending[1], TRUE)
    BY <1>4 DEF Finish
  <2> HIDE DEF pass, Ends
  <2>5. Ends(Finish(pass, s))
    BY <1>1, <1>2, <2>1, <2>3, <2>4
  <2>6. QED
    BY <2>5 DEF pass, Ends
<1>5. CASE s.buffer = <<>> /\ s.pending = <<>>
  <2>1. Finish(pass, s) = Step(pass, s.machine, <<>>, TRUE)
    BY <1>5 DEF Finish
  <2>2. <<>> \in Seq(Genuine)
    BY EmptySeq
  <2> HIDE DEF pass, Ends
  <2>3. Ends(Finish(pass, s))
    BY <1>1, <1>2, <2>1, <2>2
  <2>4. QED
    BY <2>3 DEF pass, Ends
<1>6. QED
  BY <1>3, <1>4, <1>5

\* What SealedSoFar says, with the places in the plaintext named: after cnt
\* sealed chunks comes the one held back, if any, and then the buffer.
SealedAt(s, n, cnt, h, from, base) ==
  /\ cnt = s.machine.counter /\ h = Len(s.pending)
  /\ from = cnt * CHUNK_SIZE /\ base = (cnt + h) * CHUNK_SIZE
  /\ from <= base /\ base <= n /\ n \in Nat
  /\ h = 0 => s.pending = <<>> /\ base = from
  /\ h = 1 => s.pending = <<SubSeq(plain, from + 1, base)>> /\ base = from + CHUNK_SIZE
  /\ s.buffer = SubSeq(plain, base + 1, n) /\ Len(s.buffer) = n - base

\* What SealedSoFar says, with the places of the pending chunk and of the buffer
\* in the plaintext named.
LEMMA SealedFacts ==
  ASSUME SizesAssumption, plain \in Seq(Nat), NEW s, NEW n, SealedSoFar(s, n), n <= Len(plain)
  PROVE  \E cnt \in Nat, h \in {0, 1}, from \in Nat, base \in Nat :
           SealedAt(s, n, cnt, h, from, base)
<1>1. PICK cnt \in Nat : cnt = s.machine.counter
  BY DEF SealedSoFar, Machines
<1>2. CHUNK_SIZE \in Nat /\ n \in Nat
  BY DEF SizesAssumption, SealedSoFar
<1>3. PICK h \in {0, 1} : h = Len(s.pending) /\ (h = 0 => s.pending = <<>>)
                          /\ (h = 1 => s.pending = <<SubSeq(plain, cnt * CHUNK_SIZE + 1,
                                                            (cnt + 1) * CHUNK_SIZE)>>)
  <2>1. CASE s.pending = <<>>
    BY <2>1
  <2>2. CASE s.pending = <<SubSeq(plain, s.machine.counter * CHUNK_SIZE + 1,
                                  (s.machine.counter + 1) * CHUNK_SIZE)>>
    BY <1>1, <2>2
  <2>3. QED
    BY <2>1, <2>2 DEF SealedSoFar
<1>4. PICK from \in Nat, base \in Nat :
         /\ from = cnt * CHUNK_SIZE /\ base = (cnt + h) * CHUNK_SIZE /\ from <= base
         /\ (h = 0 => base = from) /\ (h = 1 => base = from + CHUNK_SIZE)
  <2>1. h \in Nat /\ cnt + h \in Nat /\ cnt <= cnt + h
    OBVIOUS
  <2>2. cnt * CHUNK_SIZE \in Nat /\ (cnt + h) * CHUNK_SIZE \in Nat
    BY <1>2, <2>1, Products
  <2>3. cnt * CHUNK_SIZE <= (cnt + h) * CHUNK_SIZE
    BY <1>2, <2>1, Products
  <2>4. (cnt + h) * CHUNK_SIZE = cnt * CHUNK_SIZE + h * CHUNK_SIZE
        /\ 0 * CHUNK_SIZE = 0 /\ 1 * CHUNK_SIZE = CHUNK_SIZE
    BY <1>2, <2>1, Products
  <2>5. (h = 0 => (cnt + h) * CHUNK_SIZE = cnt * CHUNK_SIZE)
        /\ (h = 1 => (cnt + h) * CHUNK_SIZE = cnt * CHUNK_SIZE + CHUNK_SIZE)
    BY <1>2, <2>2, <2>4
  <2>6. QED
    BY <2>2, <2>3, <2>5
<1>5. base <= n /\ s.buffer = SubSeq(plain, base + 1, n)
  BY <1>1, <1>3, <1>4 DEF SealedSoFar
<1>6. Len(s.buffer) = n - base
  BY <1>2, <1>5, PartFacts
<1>7. h = 1 => s.pending = <<SubSeq(plain, from + 1, base)>>
  BY <1>3, <1>4
<1>8. SealedAt(s, n, cnt, h, from, base)
  BY <1>1, <1>2, <1>3, <1>4, <1>5, <1>6, <1>7 DEF SealedAt
<1>9. QED
  BY <1>8

\* A piece of the plaintext is sealed in chunks, however it was cut.
LEMMA AbsorbSealing ==
  ASSUME SizesAssumption, plain \in Seq(Nat), NEW s, NEW n, SealedSoFar(s, n), n \in Nat,
         NEW k \in Nat, n + k <= Len(plain)
  PROVE  LET t == Absorb(Sealing(Key), s, SubSeq(plain, n + 1, n + k))
         IN t.machine.raised \/ SealedSoFar(t, n + k)
<1> DEFINE pass == Sealing(Key)
           C == CHUNK_SIZE
           piece == SubSeq(plain, n + 1, n + k)
           buffer == s.buffer \o piece
           full == Len(buffer) \div C
           cs == Chunks(buffer, C, full)
           queue == s.pending \o cs
           t == Absorb(pass, s, piece)
<1>1. C \in Nat \ {0} /\ pass.size = C
  BY DEF SizesAssumption, Sealing
<1>2. PICK end \in Nat : end = n + k /\ n <= end /\ end <= Len(plain) /\ n <= Len(plain)
  <2>1. n + k \in Nat /\ n <= n + k /\ n <= Len(plain)
    OBVIOUS
  <2>2. QED
    BY <2>1
<1>3. PICK cnt \in Nat, h \in {0, 1}, from \in Nat, base \in Nat :
        SealedAt(s, n, cnt, h, from, base)
  BY <1>2, SealedFacts
<1>3a. /\ cnt = s.machine.counter /\ h = Len(s.pending)
       /\ from = cnt * CHUNK_SIZE /\ base = (cnt + h) * CHUNK_SIZE
       /\ from <= base /\ base <= n
       /\ h = 1 => s.pending = <<SubSeq(plain, from + 1, base)>>
       /\ s.buffer = SubSeq(plain, base + 1, n)
  BY <1>3 DEF SealedAt
<1>4. buffer = SubSeq(plain, base + 1, end)
  <2>1. base <= n /\ n <= end /\ end <= Len(plain)
    BY <1>2, <1>3a
  <2>2. SubSeq(plain, base + 1, n) \o SubSeq(plain, n + 1, end) = SubSeq(plain, base + 1, end)
    BY <2>1, PartsJoin
  <2>3. QED
    BY <1>2, <1>3a, <2>2
<1>5. buffer \in Seq(Nat) /\ Len(buffer) = end - base /\ end - base \in Nat
  <2>1. base <= end /\ end <= Len(plain)
    BY <1>2, <1>3a
  <2>2. /\ SubSeq(plain, base + 1, end) \in Seq(Nat)
        /\ Len(SubSeq(plain, base + 1, end)) = end - base
    BY <2>1, PartFacts
  <2> HIDE DEF buffer
  <2>3. end - base \in Nat
    BY <2>1
  <2>4. QED
    BY <1>4, <2>2, <2>3
<1>6. PICK f \in Nat : f = full /\ f * C <= end - base /\ f * C \in Nat
  <2>1. Len(buffer) \in Nat
    BY <1>5
  <2> HIDE DEF buffer, C
  <2>2. full \in Nat /\ full * C <= Len(buffer)
    BY <1>1, <2>1, Divided
  <2>3. full * C \in Nat
    BY <1>1, <2>2, Products
  <2> HIDE DEF full
  <2>4. QED
    BY <1>5, <2>2, <2>3
<1>7. /\ cs \in Seq(Seq(Nat)) /\ Len(cs) = f
      /\ Rest(buffer, f * C) \in Seq(Nat)
  <2>1. buffer \in Seq(Nat) /\ C \in Nat /\ f * C <= Len(buffer) /\ cs = Chunks(buffer, C, f)
    BY <1>1, <1>5, <1>6
  <2> HIDE DEF cs, buffer, C
  <2>2. Chunks(buffer, C, f) \in Seq(Seq(Nat)) /\ Len(Chunks(buffer, C, f)) = f
        /\ Rest(buffer, f * C) \in Seq(Nat)
    BY <2>1, ChunkFacts
  <2>3. QED
    BY <2>1, <2>2
<1>8. /\ \A j \in 1..f : cs[j] = SubSeq(plain, base + (j - 1) * C + 1, base + j * C)
      /\ Rest(buffer, f * C) = SubSeq(plain, base + f * C + 1, end)
  <2>1. base <= end /\ end <= Len(plain) /\ C \in Nat
    BY <1>1, <1>2, <1>3a
  <2>2. f * C <= end - base
    BY <1>6
  <2> HIDE DEF C
  <2>3. Rest(SubSeq(plain, base + 1, end), f * C) = SubSeq(plain, base + f * C + 1, end)
    <3>1. PICK c \in Nat : c = f * C /\ c <= end - base
      BY <1>6
    <3>2. Rest(SubSeq(plain, base + 1, end), c) = SubSeq(plain, base + c + 1, end)
      BY <2>1, <3>1, RestOfPart
    <3>3. QED
      BY <3>1, <3>2
  <2>4. ASSUME NEW j \in 1..f
        PROVE  Chunks(SubSeq(plain, base + 1, end), C, f)[j]
                 = SubSeq(plain, base + (j - 1) * C + 1, base + j * C)
    <3>1. PICK size \in Nat : size = C
      BY <2>1
    <3>2. base <= end /\ end <= Len(plain) /\ f * size <= end - base
      BY <2>1, <2>2, <3>1
    <3>3. PICK b : b = SubSeq(plain, base + 1, end)
      OBVIOUS
    <3>4. PICK c \in Nat, d \in Nat : c = (j - 1) * size /\ d = j * size
      <4>1. j \in Nat /\ j - 1 \in Nat
        OBVIOUS
      <4>2. QED
        BY <4>1, Products
    <3>5. Chunks(b, size, f)[j] = SubSeq(plain, base + c + 1, base + d)
      <4>1. ChunkPlace(Nat, plain, base, end, b, size, f, j, c, d)
        BY <3>2, <3>3, <3>4 DEF ChunkPlace
      <4>2. ChunkIs(b, size, f, j, plain, base, c, d)
        BY <4>1, ChunkOfPart
      <4>3. QED
        BY <4>2 DEF ChunkIs
    <3>6. QED
      BY <3>1, <3>3, <3>4, <3>5
  <2> HIDE DEF buffer, full
  <2>5. cs = Chunks(SubSeq(plain, base + 1, end), C, f)
    BY <1>4, <1>6
  <2> HIDE DEF cs
  <2>6. QED
    BY <1>4, <2>3, <2>4, <2>5
<1>9. t = IF f = 0 THEN [s EXCEPT !.buffer = buffer]
          ELSE [machine |-> Steps(pass, s.machine, Front(queue)),
                buffer  |-> Rest(buffer, f * C), pending |-> <<Last(queue)>>]
  BY <1>1, <1>6 DEF Absorb
<1>10. /\ s \in [machine : Machines(Genuine), buffer : Seq(Nat), pending : Seq(Seq(Nat))]
       /\ ~s.machine.finished /\ ~s.machine.raised
  BY DEF SealedSoFar
<1> HIDE DEF pass, t, buffer, full, cs, C
<1>11. CASE f = 0
  <2>1. t = [s EXCEPT !.buffer = buffer]
    BY <1>9, <1>11
  <2>2. /\ t \in [machine : Machines(Genuine), buffer : Seq(Nat), pending : Seq(Seq(Nat))]
        /\ t.machine = s.machine /\ t.pending = s.pending /\ t.buffer = buffer
    BY <1>5, <1>10, <2>1
  <2>3. base <= end
    BY <1>2, <1>3a
  <2>4. t.buffer = SubSeq(plain, (t.machine.counter + Len(t.pending)) * CHUNK_SIZE + 1, end)
    BY <1>3a, <1>4, <2>2
  <2>5. SealedSoFar(t, end)
    <3>1. \/ t.pending = <<>>
          \/ t.pending = <<SubSeq(plain, t.machine.counter * CHUNK_SIZE + 1,
                                  (t.machine.counter + 1) * CHUNK_SIZE)>>
      BY <2>2 DEF SealedSoFar
    <3>2. (t.machine.counter + Len(t.pending)) * CHUNK_SIZE <= end
      BY <1>3a, <2>2, <2>3
    <3>3. QED
      BY <1>10, <2>2, <2>4, <3>1, <3>2 DEF SealedSoFar
  <2>6. QED
    BY <1>2, <2>5 DEF t, pass
<1>12. CASE f # 0
  <2>1. PICK X : X = Seq(Nat)
    OBVIOUS
  <2>2. s.pending \in Seq(X) /\ cs \in Seq(X)
    BY <1>7, <1>10, <2>1
  <2>3. /\ queue \in Seq(X) /\ Len(queue) = h + f
        /\ \A q \in 1..h : queue[q] = s.pending[q]
        /\ \A j \in 1..f : queue[h + j] = cs[j]
    <3>1. PICK p \in Seq(X) : p = s.pending
      BY <2>2
    <3>2. /\ p \o cs \in Seq(X) /\ Len(p \o cs) = Len(p) + Len(cs)
          /\ \A q \in 1..Len(p) : (p \o cs)[q] = p[q]
          /\ \A j \in 1..Len(cs) : (p \o cs)[Len(p) + j] = cs[j]
      BY <2>2, JoinFacts
    <3>3. Len(p) = h /\ Len(cs) = f /\ queue = p \o cs
      BY <1>3a, <1>7, <3>1
    <3> HIDE DEF queue
    <3>4. QED
      BY <3>1, <3>2, <3>3
  <2> HIDE DEF queue
  <2>4. h + f \in Nat /\ h + f >= 1 /\ cnt + (h + f) \in Nat
    BY <1>12
  <2>5. ASSUME NEW q \in 1..(h + f)
        PROVE  /\ queue[q] = SubSeq(plain, (cnt + q - 1) * C + 1, (cnt + q) * C)
               /\ (cnt + q) * C <= base + f * C
    <3>1. C \in Nat /\ q \in Nat
      BY <1>1, <2>4
    <3>2. CASE h = 1 /\ q = 1
      <4>1. queue[1] = SubSeq(plain, from + 1, base)
        <5>1. s.pending = <<SubSeq(plain, from + 1, base)>>
          BY <1>3a, <3>2
        <5>2. 1 \in 1..h
          BY <3>2
        <5>3. queue[1] = s.pending[1]
          BY <2>3, <5>2
        <5>4. PICK text : text = SubSeq(plain, from + 1, base)
          OBVIOUS
        <5>5. s.pending[1] = text
          BY <5>1, <5>4
        <5>6. QED
          BY <5>3, <5>4, <5>5
      <4>2. cnt + q - 1 = cnt /\ cnt + q = cnt + h
        BY <3>2
      <4>3. (cnt + q - 1) * C = from /\ (cnt + q) * C = base
        BY <1>3a, <4>2 DEF C
      <4>4. base <= base + f * C
        BY <1>6
      <4>5. QED
        BY <3>2, <4>1, <4>3, <4>4
    <3>3. CASE ~(h = 1 /\ q = 1)
      <4>1. PICK j \in 1..f : q = h + j
        <5>1. CASE h = 0
          <6>1. q \in 1..f /\ q = h + q
            BY <3>1, <5>1
          <6>2. QED
            BY <6>1
        <5>2. CASE h = 1
          <6>1. q - 1 \in 1..f /\ q = h + (q - 1)
            BY <3>1, <3>3, <5>2
          <6>2. QED
            BY <6>1
        <5>3. QED
          BY <5>1, <5>2
      <4>2. queue[q] = SubSeq(plain, base + (j - 1) * C + 1, base + j * C)
        BY <1>8, <2>3, <4>1
      <4>3. PICK a \in Nat : a = cnt + h
        OBVIOUS
      <4>4. cnt + q - 1 = a + (j - 1) /\ cnt + q = a + j /\ j - 1 \in Nat /\ j \in Nat /\ j <= f
        BY <4>1, <4>3
      <4>5. (a + (j - 1)) * C = a * C + (j - 1) * C /\ (a + j) * C = a * C + j * C
        BY <3>1, <4>4, Products
      <4>6. j * C <= f * C /\ j * C \in Nat
        BY <3>1, <4>4, Products
      <4>7. a * C = base
        BY <1>3a, <4>3 DEF C
      <4>8. (cnt + q - 1) * C = base + (j - 1) * C /\ (cnt + q) * C = base + j * C
        BY <4>4, <4>5, <4>7
      <4>9. base + j * C <= base + f * C
        BY <1>6, <4>6
      <4>10. QED
        BY <4>2, <4>8, <4>9
    <3>4. QED
      BY <3>2, <3>3
  <2>6. queue # <<>>
    BY <2>3, <2>4, EmptySeq
  <2>7. /\ Front(queue) \in Seq(X) /\ Len(Front(queue)) = h + f - 1
        /\ \A q \in 1..(h + f - 1) : Front(queue)[q] = queue[q]
        /\ Last(queue) \in X /\ Last(queue) = queue[h + f]
    <3>1. /\ Front(queue) \in Seq(X) /\ Len(Front(queue)) = Len(queue) - 1
          /\ \A q \in 1..(Len(queue) - 1) : Front(queue)[q] = queue[q]
          /\ Last(queue) \in X /\ Last(queue) = queue[Len(queue)]
      BY <2>3, <2>6, FrontAndLast
    <3>2. QED
      BY <2>3, <3>1
  <2>8. PICK cs1 \in Seq(Seq(Nat)) : cs1 = Front(queue)
    BY <2>1, <2>7
  <2>9. base + f * C <= end
    BY <1>5, <1>6
  <2>10. \A q \in 1..Len(cs1) :
           /\ (s.machine.counter + q) * CHUNK_SIZE <= Len(plain)
           /\ cs1[q] = SubSeq(plain, (s.machine.counter + q - 1) * CHUNK_SIZE + 1,
                                     (s.machine.counter + q) * CHUNK_SIZE)
    <3>1. SUFFICES ASSUME NEW q \in 1..Len(cs1)
                   PROVE  /\ (cnt + q) * C <= Len(plain)
                          /\ cs1[q] = SubSeq(plain, (cnt + q - 1) * C + 1, (cnt + q) * C)
      BY <1>3a DEF C
    <3>2. q \in 1..(h + f - 1) /\ q \in 1..(h + f) /\ q \in Nat
      BY <2>4, <2>7, <2>8
    <3>3. (cnt + q) * C \in Nat
      BY <1>1, <3>2, Products
    <3>4. (cnt + q) * C <= Len(plain)
      BY <1>2, <1>6, <2>5, <2>9, <3>2, <3>3
    <3>5. cs1[q] = queue[q]
      BY <2>7, <2>8, <3>2
    <3>6. QED
      BY <2>5, <3>2, <3>4, <3>5
  <2>11. LET r == Steps(Sealing(Key), s.machine, cs1)
         IN /\ r \in Machines(Genuine)
            /\ r.raised \/ (r.counter = s.machine.counter + Len(cs1) /\ ~r.finished)
    BY <1>10, <2>10, SealStepsAreFaithful
  <2>12. PICK r \in Machines(Genuine) :
           /\ r = Steps(pass, s.machine, Front(queue))
           /\ r.raised \/ (r.counter = cnt + (h + f - 1) /\ ~r.finished)
    BY <1>3a, <2>7, <2>8, <2>11 DEF pass
  <2>13. t = [machine |-> r, buffer |-> Rest(buffer, f * C), pending |-> <<Last(queue)>>]
    BY <1>9, <1>12, <2>12
  <2>14. t.machine = r /\ t.buffer = Rest(buffer, f * C) /\ t.pending = <<Last(queue)>>
    BY <2>13
  <2>15. ASSUME ~r.raised
         PROVE  SealedSoFar(t, end)
    <3>1. r.counter \in Nat /\ r.counter + 1 = cnt + (h + f) /\ r.counter = cnt + (h + f) - 1
      BY <2>4, <2>12, <2>15
    <3>2. h + f \in 1..(h + f)
      BY <2>4
    <3>3. Last(queue) = SubSeq(plain, r.counter * CHUNK_SIZE + 1, (r.counter + 1) * CHUNK_SIZE)
      BY <2>5, <2>7, <3>1, <3>2 DEF C
    <3>4. (r.counter + 1) * CHUNK_SIZE = base + f * C
      <4>1. PICK a \in Nat : a = cnt + h
        OBVIOUS
      <4>2. r.counter + 1 = a + f
        BY <3>1, <4>1
      <4>3. (a + f) * C = a * C + f * C
        BY <1>1, Products
      <4>4. a * C = base
        BY <1>3a, <4>1 DEF C
      <4>5. QED
        BY <4>2, <4>3, <4>4 DEF C
    <3>5. t \in [machine : Machines(Genuine), buffer : Seq(Nat), pending : Seq(Seq(Nat))]
      <4>1. <<Last(queue)>> \in Seq(Seq(Nat))
        BY <2>1, <2>7
      <4>2. QED
        BY <1>7, <2>13, <4>1
    <3>6. Len(t.pending) = 1
      BY <2>14
    <3>7. t.buffer = SubSeq(plain, (t.machine.counter + Len(t.pending)) * CHUNK_SIZE + 1, end)
      BY <1>8, <2>14, <3>4, <3>6
    <3>8. (t.machine.counter + Len(t.pending)) * CHUNK_SIZE <= end
      BY <2>9, <2>14, <3>4, <3>6
    <3>9. QED
      BY <2>12, <2>14, <2>15, <3>3, <3>5, <3>7, <3>8 DEF SealedSoFar
  <2>16. t.machine.raised \/ SealedSoFar(t, end)
    BY <2>14, <2>15
  <2>17. QED
    BY <1>2, <2>16 DEF t, pass
<1>13. QED
  BY <1>11, <1>12

\* The last chunk of the plaintext is sealed, unless the machine raises.
LEMMA FinishSealing ==
  ASSUME SizesAssumption, plain \in Seq(Nat), NEW s, SealedSoFar(s, Len(plain))
  PROVE  Finish(Sealing(Key), s) \in Machines(Genuine)
<1> DEFINE pass == Sealing(Key)
           N == Len(plain)
<1>1. PICK cnt \in Nat, h \in {0, 1}, from \in Nat, base \in Nat :
        SealedAt(s, N, cnt, h, from, base)
  <2>1. N <= Len(plain)
    OBVIOUS
  <2>2. QED
    BY <2>1, SealedFacts
<1>2. /\ cnt = s.machine.counter /\ h = Len(s.pending)
      /\ from = cnt * CHUNK_SIZE /\ base = (cnt + h) * CHUNK_SIZE
      /\ from <= base /\ base <= N /\ N \in Nat
      /\ h = 0 => s.pending = <<>> /\ base = from
      /\ h = 1 => s.pending = <<SubSeq(plain, from + 1, base)>> /\ base = from + CHUNK_SIZE
      /\ s.buffer = SubSeq(plain, base + 1, N) /\ Len(s.buffer) = N - base
  BY <1>1 DEF SealedAt
<1>3. /\ s \in [machine : Machines(Genuine), buffer : Seq(Nat), pending : Seq(Seq(Nat))]
      /\ ~s.machine.finished /\ ~s.machine.raised
  BY DEF SealedSoFar
\* The chunk from the end of those that machine m has sealed to the end.
<1>4. ASSUME NEW m \in Machines(Genuine), NEW a \in Nat, a = m.counter * CHUNK_SIZE, a <= N,
             NEW text, text = SubSeq(plain, a + 1, N)
      PROVE  Step(pass, m, text, TRUE) \in Machines(Genuine)
  <2>1. Counted(m, SealChunk(Key, m, text, TRUE), TRUE)
    <3>1. N \in Nat /\ N <= Len(plain) /\ TRUE \in BOOLEAN /\ N = Len(plain)
      BY <1>2
    <3> HIDE DEF N
    <3>2. QED
      BY <1>4, <3>1, SealChunkIsFaithful
  <2>2. Step(pass, m, text, TRUE) = SealChunk(Key, m, text, TRUE)
    BY DEF Step, Sealing
  <2>3. QED
    BY <2>1, <2>2 DEF Counted
<1>5. ASSUME NEW m \in Machines(Genuine), m.raised, NEW text
      PROVE  Step(pass, m, text, TRUE) \in Machines(Genuine)
  <2>1. Step(pass, m, text, TRUE) = Raise(m)
    BY <1>5 DEF Step, Sealing, SealChunk
  <2>2. QED
    BY <2>1 DEF Raise, Machines
<1> HIDE DEF pass, N
<1>6. CASE s.buffer # <<>>
  <2>1. PICK r \in Machines(Genuine) :
          /\ r = Steps(Sealing(Key), s.machine, s.pending)
          /\ r.raised \/ r.counter = s.machine.counter + Len(s.pending)
    <3>1. \A q \in 1..Len(s.pending) :
            /\ (s.machine.counter + q) * CHUNK_SIZE <= Len(plain)
            /\ s.pending[q] = SubSeq(plain, (s.machine.counter + q - 1) * CHUNK_SIZE + 1,
                                     (s.machine.counter + q) * CHUNK_SIZE)
      <4>1. SUFFICES ASSUME NEW q \in 1..h
                     PROVE  /\ (cnt + q) * CHUNK_SIZE <= N
                            /\ s.pending[q] = SubSeq(plain, (cnt + q - 1) * CHUNK_SIZE + 1,
                                                     (cnt + q) * CHUNK_SIZE)
        BY <1>2 DEF N
      <4>2. h = 1 /\ q = 1
        OBVIOUS
      <4>3. cnt + q - 1 = cnt /\ cnt + q = cnt + h
        BY <4>2
      <4>4. (cnt + q - 1) * CHUNK_SIZE = from /\ (cnt + q) * CHUNK_SIZE = base
        BY <1>2, <4>3
      <4>5. PICK text : text = SubSeq(plain, from + 1, base)
        OBVIOUS
      <4>6. s.pending = <<text>>
        BY <1>2, <4>2, <4>5
      <4>7. s.pending[q] = text
        BY <4>2, <4>6
      <4>8. QED
        BY <1>2, <4>4, <4>5, <4>7
    <3>2. s.machine \in Machines(Genuine) /\ s.pending \in Seq(Seq(Nat))
      BY <1>3
    <3>3. PICK m \in Machines(Genuine), cs \in Seq(Seq(Nat)) : m = s.machine /\ cs = s.pending
      BY <3>2
    <3>4. LET r == Steps(Sealing(Key), m, cs)
          IN /\ r \in Machines(Genuine)
             /\ r.raised \/ (r.counter = m.counter + Len(cs) /\ ~r.finished)
      BY <1>3, <3>1, <3>3, SealStepsAreFaithful
    <3>5. QED
      BY <3>3, <3>4
  <2>2. Finish(pass, s) = Step(pass, r, s.buffer, TRUE)
    BY <1>6, <2>1 DEF Finish, pass
  <2>3. CASE r.raised
    BY <1>5, <2>2, <2>3 DEF pass
  <2>4. CASE ~r.raised
    <3>1. base = r.counter * CHUNK_SIZE
      BY <1>2, <2>1, <2>4
    <3>2. Step(pass, r, s.buffer, TRUE) \in Machines(Genuine)
      BY <1>2, <1>4, <3>1
    <3>3. QED
      BY <2>2, <3>2 DEF pass
  <2>5. QED
    BY <2>3, <2>4
<1>7. CASE s.buffer = <<>> /\ s.pending # <<>>
  <2>1. h = 1 /\ base = N
    <3>1. Len(s.buffer) = 0
      BY <1>7
    <3>2. h # 0
      BY <1>2, <1>7
    <3>3. QED
      BY <1>2, <3>1, <3>2
  <2>2. PICK text : text = SubSeq(plain, from + 1, N)
    OBVIOUS
  <2>3. s.pending = <<text>>
    BY <1>2, <2>1, <2>2
  <2>4. s.pending[1] = text
    BY <2>3
  <2>5. Finish(pass, s) = Step(pass, s.machine, text, TRUE)
    BY <1>7, <2>4 DEF Finish
  <2>6. s.machine \in Machines(Genuine) /\ from = s.machine.counter * CHUNK_SIZE /\ from <= N
    BY <1>2, <1>3, <2>1
  <2>7. Step(pass, s.machine, text, TRUE) \in Machines(Genuine)
    BY <1>4, <2>2, <2>6
  <2>8. QED
    BY <2>5, <2>7 DEF pass
<1>8. CASE s.buffer = <<>> /\ s.pending = <<>>
  <2>1. h = 0 /\ base = from
    BY <1>2, <1>8
  <2>2. <<>> = SubSeq(plain, from + 1, N)
    BY <1>2, <1>8, <2>1
  <2>3. Finish(pass, s) = Step(pass, s.machine, <<>>, TRUE)
    BY <1>8 DEF Finish
  <2>4. s.machine \in Machines(Genuine) /\ from = s.machine.counter * CHUNK_SIZE /\ from <= N
    BY <1>2, <1>3, <2>1
  <2>5. Step(pass, s.machine, <<>>, TRUE) \in Machines(Genuine)
    BY <1>4, <2>2, <2>4
  <2>6. QED
    BY <2>3, <2>5 DEF pass
<1>9. QED
  BY <1>6, <1>7, <1>8

-----------------------------------------------------------------------------
(* The store                                                               *)

\* Bytes under no key of the payload, and the commitment, say nothing of the
\* plaintext.
LEMMA ForeignBytes ==
  /\ \A b \in Bytes : b.key # Key => b \in Genuine
  /\ Junk \in Genuine
  /\ SizesAssumption => BlobHeader \in Seq(Genuine)
<1>1. \A b \in Bytes : b.key # Key => b \in Genuine
  BY DEF Genuine, Faithful
<1>2. Junk \in Genuine
  <2>1. Junk \in Bytes /\ Junk.key # Key
    BY DEF Junk, CipherByte, Bytes, ChunkNonces, Key
  <2>2. QED
    BY <1>1, <2>1
<1>3. ASSUME SizesAssumption PROVE BlobHeader \in Seq(Genuine)
  <2>1. ASSUME NEW i \in 1..COMMITMENT_LENGTH
        PROVE  CipherByte(Key, <<"commitment">>, <<>>, i) \in Genuine
    <3>1. PICK b : b = CipherByte(Key, <<"commitment">>, <<>>, i)
      OBVIOUS
    <3>2. i \in Nat
      BY <1>3 DEF SizesAssumption
    <3>3. b \in Bytes /\ b.nonce = <<"commitment">>
      BY <3>1, <3>2 DEF CipherByte, Bytes, ChunkNonces
    <3>4. <<"commitment">> \notin Nat \X BOOLEAN
      OBVIOUS
    <3>5. Faithful(b)
      BY <3>3, <3>4 DEF Faithful
    <3>6. QED
      BY <3>1, <3>3, <3>5 DEF Genuine
  <2>2. COMMITMENT_LENGTH \in Nat
    BY <1>3 DEF SizesAssumption
  <2>3. PICK f : f = [i \in 1..COMMITMENT_LENGTH |-> CipherByte(Key, <<"commitment">>, <<>>, i)]
    OBVIOUS
  <2>4. f \in [1..COMMITMENT_LENGTH -> Genuine]
    BY <2>1, <2>3
  <2>5. f \in Seq(Genuine)
    BY <2>2, <2>4
  <2>6. <<>> \in Seq(Genuine)
    BY EmptySeq
  <2>7. QED
    BY <2>3, <2>5, <2>6 DEF BlobHeader, Commitment
<1>4. QED
  BY <1>1, <1>2, <1>3

\* The chunks before the last one of a buffer that is not empty.
LEMMA LeadingFacts ==
  ASSUME NEW length \in Nat, NEW size \in Nat \ {0}
  PROVE  /\ LeadingChunks(length, size) \in Nat
         /\ LeadingChunks(length, size) * size <= length
<1> DEFINE Q(n) == length <= (n + 1) * size /\ \A k \in 0..(n - 1) : length > (k + 1) * size
           T == {n \in 0..length : length <= (n + 1) * size}
<1>1. T \in SUBSET Nat /\ T # {}
  <2>1. length <= (length + 1) * size
    <3>1. PICK d \in Nat : size = d + 1
      <4>1. size - 1 \in Nat /\ size = (size - 1) + 1
        OBVIOUS
      <4>2. QED
        BY <4>1
    <3>2. (length + 1) * (d + 1) = (length + 1) * d + (length + 1) /\ (length + 1) * d \in Nat
      OBVIOUS
    <3>3. QED
      BY <3>1, <3>2
  <2>2. length \in T
    BY <2>1
  <2>3. QED
    BY <2>2
<1>2. PICK n \in T : \A y \in T : n <= y
  <2> HIDE DEF T
  <2>1. QED
    BY <1>1, SmallestMember
<1>3. n \in 0..length /\ Q(n)
  <2>1. n \in 0..length /\ length <= (n + 1) * size
    BY <1>2
  <2>2. ASSUME NEW k \in 0..(n - 1) PROVE length > (k + 1) * size
    <3>1. k \in 0..length /\ k \notin T
      BY <1>2, <2>1
    <3>2. (k + 1) * size \in Nat
      <4>1. k + 1 \in Nat /\ size \in Nat
        OBVIOUS
      <4>2. QED
        BY <4>1, Products
    <3>3. QED
      BY <3>1, <3>2
  <2>3. QED
    BY <2>1, <2>2
<1>4. LeadingChunks(length, size) = CHOOSE x \in 0..length : Q(x)
  BY DEF LeadingChunks
<1>5. PICK x \in 0..length : x = LeadingChunks(length, size) /\ Q(x)
  <2> HIDE DEF Q
  <2>1. QED
    BY <1>3, <1>4
<1>6. x * size <= length
  <2>1. CASE x = 0
    BY <2>1, Products
  <2>2. CASE x # 0
    <3>1. x - 1 \in 0..(x - 1) /\ (x - 1) + 1 = x
      BY <2>2
    <3>2. length > ((x - 1) + 1) * size
      BY <1>5, <3>1
    <3>3. x * size \in Nat
      <4>1. x \in Nat /\ size \in Nat
        OBVIOUS
      <4>2. QED
        BY <4>1, Products
    <3>4. QED
      BY <3>1, <3>2, <3>3
  <2>3. QED
    BY <2>1, <2>2
<1>7. QED
  BY <1>5, <1>6

\* The other upload of the store is under the other key.
LEMMA OtherBlobIsForeign ==
  ASSUME SizesAssumption
  PROVE  OtherBlob \in Seq(Genuine)
<1> DEFINE G == {b \in Bytes : b.key = "other"}
           M == Machines(G)
           pass == Sealing("other")
           text == [i \in 1..(CHUNK_SIZE + 1) |-> 0]
           n == LeadingChunks(Len(text), CHUNK_SIZE)
           T == Nat \X M
<1>1. CHUNK_SIZE \in Nat \ {0} /\ pass.size = CHUNK_SIZE
  BY DEF SizesAssumption, Sealing
<1>2. text \in Seq(Nat) /\ Len(text) \in Nat
  <2>1. PICK e \in Nat : e = CHUNK_SIZE + 1
    BY <1>1
  <2>2. PICK f : f = [i \in 1..e |-> 0]
    OBVIOUS
  <2>3. f \in [1..e -> Nat]
    BY <2>2
  <2>4. f \in Seq(Nat) /\ Len(f) \in Nat
    BY <2>3
  <2>5. QED
    BY <2>1, <2>2, <2>4
<1> HIDE DEF text
<1>3. ASSUME NEW m \in M, NEW final \in BOOLEAN, NEW c \in Seq(Nat)
      PROVE  Step(pass, m, c, final) \in M
  <2>1. \A counter \in Nat, t \in Seq(Nat), i \in Nat :
           CipherByte("other", <<counter, final>>, t, i) \in G
    BY DEF CipherByte, Bytes, ChunkNonces
  <2> HIDE DEF G
  <2>2. SealChunk("other", m, c, final) \in Machines(G)
    BY <2>1, SealChunkOfOther
  <2>3. Step(pass, m, c, final) = SealChunk("other", m, c, final)
    BY DEF Step, Sealing
  <2>4. QED
    BY <2>2, <2>3
<1>4. n \in Nat /\ n * CHUNK_SIZE <= Len(text)
  BY <1>1, <1>2, LeadingFacts
<1> HIDE DEF n
<1>5. PICK cs \in Seq(Seq(Nat)), rest \in Seq(Nat) :
         cs = Chunks(text, CHUNK_SIZE, n) /\ rest = Rest(text, n * CHUNK_SIZE)
  <2>1. CHUNK_SIZE \in Nat
    BY <1>1
  <2>2. Chunks(text, CHUNK_SIZE, n) \in Seq(Seq(Nat)) /\ Rest(text, n * CHUNK_SIZE) \in Seq(Nat)
    BY <1>2, <1>4, <2>1, ChunkFacts
  <2>3. QED
    BY <2>2
<1>6. Machine \in M
  <2>1. <<>> \in Seq(G)
    BY EmptySeq
  <2> HIDE DEF G
  <2>2. QED
    BY <2>1 DEF Machine, Machines
<1>7. Steps(pass, Machine, cs) \in M
  <2> DEFINE C == Seq(Nat)
  <2>1. cs \in Seq(C) /\ Len(cs) \in Nat /\ \A q \in 1..Len(cs) : cs[q] \in C
    OBVIOUS
  <2>2. \A x \in M, c \in C : Step(pass, x, c, FALSE) \in M
    <3>1. FALSE \in BOOLEAN
      OBVIOUS
    <3> HIDE DEF M, pass
    <3>2. QED
      BY <1>3, <3>1
  <2> HIDE DEF M, pass, C
  <2>3. <<0, Machine>> \in T
    BY <1>6
  <2>4. ASSUME NEW q \in 1..Len(cs), NEW x \in M, <<q - 1, x>> \in T
        PROVE  <<q, Step(pass, x, cs[q], FALSE)>> \in T
    <3>1. cs[q] \in C /\ q \in Nat
      BY <2>1
    <3>2. Step(pass, x, cs[q], FALSE) \in M
      BY <2>2, <3>1
    <3>3. QED
      BY <3>1, <3>2
  <2> HIDE DEF T
  <2>5. QED
    BY <1>6, <2>1, <2>2, <2>3, <2>4, StepsKeep
<1>8. Whole(pass, text) = Step(pass, Steps(pass, Machine, cs), rest, TRUE)
  BY <1>1, <1>5 DEF Whole, n
<1>9. Whole(pass, text) \in M
  <2>1. TRUE \in BOOLEAN
    OBVIOUS
  <2> HIDE DEF M, pass
  <2>2. QED
    BY <1>3, <1>5, <1>7, <1>8, <2>1
<1>10. Whole(pass, text).out \in Seq(G)
  <2> HIDE DEF G, pass
  <2>1. QED
    BY <1>9 DEF Machines
<1>11. G \subseteq Genuine
  BY ForeignBytes DEF Key
<1>12. OtherBlob = Whole(pass, text).out
  BY DEF OtherBlob, StreamSeal, text
<1> HIDE DEF G, pass
<1>13. QED
  BY <1>10, <1>11, <1>12

\* Whatever the store does to a blob of genuine bytes, the bytes stay genuine.
LEMMA DamagedFacts ==
  ASSUME SizesAssumption, NEW b \in Seq(Genuine), NEW d \in Damaged(b)
  PROVE  d \in Seq(Genuine)
<1> DEFINE First(i) == SubSeq(b, 1, i)
<1>1. Len(b) \in Nat /\ DOMAIN b = 1..Len(b) /\ \A i \in 1..Len(b) : b[i] \in Genuine
  OBVIOUS
<1>2. ASSUME NEW i \in 0..Len(b) PROVE First(i) \in Seq(Genuine)
  <2>1. 0 \in Nat /\ i \in Nat /\ 0 <= i /\ i <= Len(b)
    BY <1>1
  <2>2. SubSeq(b, 0 + 1, i) \in Seq(Genuine)
    BY <2>1, PartFacts
  <2>3. QED
    BY <2>2
<1>3. ASSUME NEW j \in 1..(Len(b) + 1) PROVE SubSeq(b, j, Len(b)) \in Seq(Genuine)
  <2>1. PICK c \in Nat : c + 1 = j /\ c <= Len(b)
    <3>1. j - 1 \in Nat /\ (j - 1) + 1 = j /\ j - 1 <= Len(b)
      BY <1>1
    <3>2. QED
      BY <3>1
  <2>2. SubSeq(b, c + 1, Len(b)) \in Seq(Genuine)
    BY <1>1, <2>1, PartFacts
  <2>3. QED
    BY <2>1, <2>2
<1> HIDE DEF First
<1>4. ASSUME \E i \in 0..Len(b), j \in 1..(Len(b) + 1) : d = First(i) \o SubSeq(b, j, Len(b))
      PROVE  d \in Seq(Genuine)
  <2>1. PICK i \in 0..Len(b), j \in 1..(Len(b) + 1) : d = First(i) \o SubSeq(b, j, Len(b))
    BY <1>4
  <2>2. PICK x \in Seq(Genuine), y \in Seq(Genuine) : x = First(i) /\ y = SubSeq(b, j, Len(b))
    BY <1>2, <1>3
  <2>3. QED
    BY <2>1, <2>2, JoinFacts
<1>5. ASSUME \E i \in 0..Len(b) : d = First(i) \o OtherBlob
      PROVE  d \in Seq(Genuine)
  <2>1. PICK i \in 0..Len(b) : d = First(i) \o OtherBlob
    BY <1>5
  <2>2. PICK x \in Seq(Genuine), y \in Seq(Genuine) : x = First(i) /\ y = OtherBlob
    BY <1>2, OtherBlobIsForeign
  <2>3. QED
    BY <2>1, <2>2, JoinFacts
<1>6. ASSUME \E i \in 1..Len(b) : d = [b EXCEPT ![i] = Junk]
      PROVE  d \in Seq(Genuine)
  <2>1. PICK i \in 1..Len(b) : d = [b EXCEPT ![i] = Junk]
    BY <1>6
  <2>2. Junk \in Genuine
    BY ForeignBytes
  <2>3. d \in [1..Len(b) -> Genuine]
    BY <1>1, <2>1, <2>2
  <2>4. QED
    BY <1>1, <2>3
<1>7. ASSUME \E i, j \in 1..Len(b) : d = [b EXCEPT ![i] = b[j], ![j] = b[i]]
      PROVE  d \in Seq(Genuine)
  <2>1. PICK i \in 1..Len(b), j \in 1..Len(b) : d = [b EXCEPT ![i] = b[j], ![j] = b[i]]
    BY <1>7
  <2>2. d \in [1..Len(b) -> Genuine]
    BY <1>1, <2>1
  <2>3. QED
    BY <1>1, <2>2
<1>8. \/ d \in Cut(b) \/ d \in Spliced(b) \/ d \in Spoilt(b) \/ d \in Swapped(b)
  BY DEF Damaged
<1>9. d \in Cut(b) => d \in Seq(Genuine)
  <2>1. SUFFICES ASSUME d \in Cut(b)
                 PROVE  d \in Seq(Genuine)
    OBVIOUS
  <2>2. PICK i \in 0..Len(b), j \in 1..(Len(b) + 1) : d = Resumed(b, i, j)
    BY <2>1 DEF Cut
  <2>3. d = First(i) \o SubSeq(b, j, Len(b))
    BY <2>2 DEF Resumed, First
  <2>4. QED
    BY <1>4, <2>3
<1>10. d \in Spliced(b) => d \in Seq(Genuine)
  BY <1>5 DEF Spliced, First
<1>11. d \in Spoilt(b) => d \in Seq(Genuine)
  BY <1>6 DEF Spoilt
<1>12. d \in Swapped(b) => d \in Seq(Genuine)
  BY <1>7 DEF Swapped
<1>13. QED
  BY <1>8, <1>9, <1>10, <1>11, <1>12

\* A piece of a source is its next part.
LEMMA PieceFacts ==
  ASSUME NEW S, NEW source \in Seq(S), fed \in Nat, NEW piece \in Piece(source)
  PROVE  \E n \in Nat : /\ fed + n <= Len(source) /\ piece = SubSeq(source, fed + 1, fed + n)
                        /\ Len(piece) = n /\ piece \in Seq(S)
<1>1. PICK n \in 1..MaxPiece : fed + n <= Len(source) /\ piece = SubSeq(source, fed + 1, fed + n)
  BY DEF Piece
<1>2. n \in Nat /\ fed + n \in Nat /\ fed <= fed + n
  OBVIOUS
<1>3. PICK a \in Nat, b \in Nat : a = fed /\ b = fed + n /\ a <= b /\ b <= Len(source) /\ b - a = n
  BY <1>1, <1>2
<1>4. SubSeq(source, a + 1, b) \in Seq(S) /\ Len(SubSeq(source, a + 1, b)) = b - a
  BY <1>3, PartFacts
<1>5. QED
  BY <1>1, <1>2, <1>3, <1>4

-----------------------------------------------------------------------------
(* The inductive invariant                                                 *)

\* What IInv says of the next state, as the plaintext does not change.
IInvNext ==
  /\ pc' \in {"sealing", "stored", "reading", "opening", "done"}
  /\ plain' = plain /\ fed' \in Nat
  /\ blob' \in Seq(Genuine) /\ ahead' \in Seq(Genuine)
  /\ pc' = "sealing" =>
       SealedSoFar(stream', fed') /\ fed' <= Len(plain) /\ blob' = <<>> /\ ahead' = <<>>
  /\ pc' = "stored" => ahead' = <<>>
  /\ pc' \in {"stored", "reading"} => stream' = Fresh
  /\ pc' = "opening" => stream' \in OpenStates
  /\ pc' = "done" /\ blob' # <<>> => Released(stream'.machine)
  /\ outcome' # "none" => pc' = "done"
  /\ outcome' = "matched" => Released(stream'.machine) /\ stream'.machine.finished

\* The inductive invariant after a step, from what the step leaves.
LEMMA NextHolds ==
  ASSUME IInv, IInvNext
  PROVE  IInv'
<1>1. plain' = plain
  BY DEF IInvNext
<1>2. Genuine' = Genuine
  BY <1>1 DEF Genuine, Faithful
<1>3. Released(stream.machine)' <=> Released(stream'.machine)
  BY <1>1 DEF Released
<1>4. SealedSoFar(stream, fed)' <=> SealedSoFar(stream', fed')
  BY <1>1, <1>2 DEF SealedSoFar, Machines
<1>5. stream' \in OpenStates =>
        /\ stream' \in [machine : Machines(Nat), buffer : Seq(Genuine), pending : Seq(Seq(Genuine))]
        /\ Released(stream'.machine)
  BY DEF OpenStates
<1>6. plain \in Seq(Nat)
  BY DEF IInv
<1>7. QED
  BY <1>1, <1>2, <1>3, <1>4, <1>5, <1>6 DEF IInv, IInvNext, Machines

\* A new sealer or opener has read nothing and released nothing.
LEMMA FreshFacts ==
  ASSUME SizesAssumption, plain \in Seq(Nat)
  PROVE  Fresh \in OpenStates /\ SealedSoFar(Fresh, 0) /\ Released(Fresh.machine)
<1>1. CHUNK_SIZE \in Nat /\ 0 * CHUNK_SIZE = 0
  BY Products DEF SizesAssumption
<1>2. \A S : <<>> \in Seq(S)
  BY EmptySeq
<1>3. Machine \in Machines(Nat) /\ Machine \in Machines(Genuine)
  BY <1>2 DEF Machine, Machines
<1>4. SubSeq(plain, 1, 0) = <<>>
  BY SubSeqEmpty
<1>5. Fresh.machine = Machine /\ Fresh.buffer = <<>> /\ Fresh.pending = <<>>
  BY DEF Fresh
<1>6. Released(Machine)
  <2>1. Machine.out = <<>> /\ Len(Machine.out) = 0 /\ ~Machine.finished /\ Machine.counter = 0
    BY DEF Machine
  <2>2. Len(plain) \in Nat
    OBVIOUS
  <2>3. QED
    BY <1>1, <1>3, <1>4, <2>1, <2>2 DEF Released
<1>7. Fresh \in OpenStates
  BY <1>2, <1>3, <1>5, <1>6 DEF OpenStates, Fresh
<1>8. SealedSoFar(Fresh, 0)
  <2>1. Machine.counter + Len(<<>>) = 0
    BY DEF Machine
  <2>2. (Fresh.machine.counter + Len(Fresh.pending)) * CHUNK_SIZE = 0
    BY <1>1, <1>5, <2>1
  <2>3. ~Machine.finished /\ ~Machine.raised
    BY DEF Machine
  <2>4. Fresh \in [machine : Machines(Genuine), buffer : Seq(Nat), pending : Seq(Seq(Nat))]
    BY <1>2, <1>3 DEF Fresh
  <2>5. QED
    BY <1>4, <1>5, <2>2, <2>3, <2>4 DEF SealedSoFar
<1>9. QED
  BY <1>5, <1>6, <1>7, <1>8

\* A sealing begins in the invariant.
LEMMA InitHolds ==
  ASSUME SizesAssumption, Init
  PROVE  IInv
<1>1. plain \in Seq(Nat)
  <2>1. PICK n \in 0..MaxPlain : plain = [i \in 1..n |-> i]
    BY DEF Init
  <2>2. plain \in [1..n -> Nat] /\ n \in Nat
    BY <2>1 DEF SizesAssumption
  <2>3. QED
    BY <2>2
<1>2. <<>> \in Seq(Genuine) /\ Len(plain) \in Nat
  BY <1>1, EmptySeq
<1>3. SealedSoFar(Fresh, 0)
  BY <1>1, FreshFacts
<1>4. QED
  BY <1>1, <1>2, <1>3 DEF Init, IInv

\* Reading a piece of the plaintext: what the sealer holds is what it has read.
LEMMA SealPieceHolds ==
  ASSUME SizesAssumption, IInv, SealPiece
  PROVE  IInvNext
<1>1. /\ plain \in Seq(Nat) /\ fed \in Nat /\ SealedSoFar(stream, fed) /\ blob = <<>>
      /\ blob \in Seq(Genuine) /\ ahead \in Seq(Genuine) /\ ahead = <<>> /\ outcome = "none"
  BY DEF IInv, SealPiece
<1>2. PICK piece \in Piece(plain) :
         stream' = Absorb(Sealing(Key), stream, piece) /\ fed' = fed + Len(piece)
  BY DEF SealPiece
<1>3. PICK n \in Nat : /\ fed + n <= Len(plain) /\ piece = SubSeq(plain, fed + 1, fed + n)
                       /\ Len(piece) = n
  BY <1>1, PieceFacts
<1>4. stream'.machine.raised \/ SealedSoFar(stream', fed + n)
  <2>1. LET t == Absorb(Sealing(Key), stream, SubSeq(plain, fed + 1, fed + n))
        IN t.machine.raised \/ SealedSoFar(t, fed + n)
    BY <1>1, <1>3, AbsorbSealing
  <2>2. QED
    BY <1>2, <1>3, <2>1
<1>5. /\ UNCHANGED <<path, plain, ahead, blob, faults>>
      /\ IF stream'.machine.raised THEN pc' = "done" /\ outcome' = "refused"
         ELSE pc' = "sealing" /\ outcome' = "none"
  BY <1>1 DEF SealPiece
<1>6. fed' = fed + n /\ fed' \in Nat /\ fed' <= Len(plain)
  BY <1>1, <1>2, <1>3
<1>7. QED
  BY <1>1, <1>4, <1>5, <1>6 DEF IInvNext

\* The end of the plaintext: what is stored is genuine.
LEMMA SealEndHolds ==
  ASSUME SizesAssumption, IInv, SealEnd
  PROVE  IInvNext
<1>1. /\ plain \in Seq(Nat) /\ SealedSoFar(stream, Len(plain)) /\ blob = <<>>
      /\ blob \in Seq(Genuine) /\ ahead \in Seq(Genuine) /\ ahead = <<>> /\ outcome = "none"
  BY DEF IInv, SealEnd
<1>2. PICK m : m = Finish(Sealing(Key), stream)
  OBVIOUS
<1>3. m \in Machines(Genuine)
  BY <1>1, <1>2, FinishSealing
<1>4. /\ IF m.raised THEN pc' = "done" /\ outcome' = "refused" /\ blob' = blob
         ELSE pc' = "stored" /\ blob' = BlobHeader \o m.out /\ outcome' = outcome
      /\ stream' = Fresh /\ fed' = 0 /\ UNCHANGED <<path, plain, ahead, faults>>
  BY <1>2 DEF SealEnd
<1>5. BlobHeader \o m.out \in Seq(Genuine)
  <2>1. BlobHeader \in Seq(Genuine) /\ m.out \in Seq(Genuine)
    BY <1>3, ForeignBytes DEF Machines
  <2>2. PICK a \in Seq(Genuine), b \in Seq(Genuine) : a = BlobHeader /\ b = m.out
    BY <2>1
  <2>3. a \o b \in Seq(Genuine)
    BY JoinFacts
  <2>4. QED
    BY <2>2, <2>3
<1>6. CASE m.raised
  BY <1>1, <1>4, <1>6 DEF IInvNext
<1>7. CASE ~m.raised
  BY <1>1, <1>4, <1>5, <1>7 DEF IInvNext
<1>8. QED
  BY <1>6, <1>7

\* The store damages a blob, and no byte of it becomes false.
LEMMA DamageHolds ==
  ASSUME SizesAssumption, IInv, Damage
  PROVE  IInvNext
<1>1. /\ plain \in Seq(Nat) /\ fed \in Nat /\ blob \in Seq(Genuine) /\ ahead \in Seq(Genuine)
      /\ ahead = <<>> /\ pc = "stored" /\ stream = Fresh /\ outcome = "none"
  BY DEF IInv, Damage
<1>2. PICK b \in Damaged(blob) : blob' = b
  BY DEF Damage
<1>3. blob' \in Seq(Genuine)
  BY <1>1, <1>2, DamagedFacts
<1>4. QED
  BY <1>1, <1>3 DEF Damage, IInvNext

\* An opener starts with nothing released.
LEMMA OpenCallHolds ==
  ASSUME SizesAssumption, IInv, OpenCall
  PROVE  IInvNext
<1>1. /\ plain \in Seq(Nat) /\ fed \in Nat /\ blob \in Seq(Genuine) /\ ahead \in Seq(Genuine)
      /\ stream = Fresh /\ outcome = "none"
  BY DEF IInv, OpenCall
<1>2. stream \in OpenStates
  BY <1>1, FreshFacts
<1>3. pc' \in {"reading", "opening"} /\ UNCHANGED <<path, plain, fed, stream, ahead, blob, outcome, faults>>
  BY DEF OpenCall
<1>4. QED
  BY <1>1, <1>2, <1>3 DEF IInvNext

\* The lookahead holds bytes of the blob, and so does what is replayed of it.
LEMMA ReadAheadHolds ==
  ASSUME SizesAssumption, IInv, ReadAhead
  PROVE  IInvNext
<1>1. /\ plain \in Seq(Nat) /\ fed \in Nat /\ blob \in Seq(Genuine) /\ ahead \in Seq(Genuine)
      /\ stream = Fresh /\ outcome = "none" /\ pc = "reading"
  BY DEF IInv, ReadAhead
<1>2. stream \in OpenStates /\ Released(stream.machine)
  BY <1>1, FreshFacts
<1>3. UNCHANGED <<path, plain, stream, blob, faults>>
  BY DEF ReadAhead
<1>4. CASE pc' = "done" /\ outcome' = "rejected" /\ UNCHANGED <<fed, ahead>>
  BY <1>1, <1>2, <1>3, <1>4 DEF IInvNext
<1>5. CASE /\ Len(ahead) >= COMMITMENT_LENGTH + TAG_SIZE
           /\ pc' = "opening" /\ ahead' = Replayed(ahead) /\ UNCHANGED <<fed, outcome>>
  <2>1. ahead' \in Seq(Genuine)
    <3>1. COMMITMENT_LENGTH \in Nat /\ TAG_SIZE \in Nat
      BY DEF SizesAssumption
    <3>2. PICK c \in Nat, e \in Nat : c = COMMITMENT_LENGTH /\ e = Len(ahead) /\ c <= e
      <4>1. Len(ahead) \in Nat
        BY <1>1
      <4>2. COMMITMENT_LENGTH <= Len(ahead)
        BY <1>5, <3>1, <4>1
      <4>3. QED
        BY <3>1, <4>1, <4>2
    <3>3. SubSeq(ahead, c + 1, e) \in Seq(Genuine)
      BY <1>1, <3>2, PartFacts
    <3>4. QED
      BY <1>5, <3>2, <3>3 DEF Replayed, Rest
  <2>2. QED
    BY <1>1, <1>2, <1>3, <1>5, <2>1 DEF IInvNext
<1>6. CASE /\ \E piece \in Piece(blob) : ahead' = ahead \o piece /\ fed' = fed + Len(piece)
           /\ UNCHANGED <<pc, outcome>>
  <2>1. PICK piece \in Piece(blob) : ahead' = ahead \o piece /\ fed' = fed + Len(piece)
    BY <1>6
  <2>2. piece \in Seq(Genuine) /\ Len(piece) \in Nat
    BY <1>1, PieceFacts
  <2>3. ahead' \in Seq(Genuine) /\ fed' \in Nat
    BY <1>1, <2>1, <2>2, JoinFacts
  <2>4. QED
    BY <1>1, <1>3, <1>6, <2>3 DEF IInvNext
<1>7. QED
  BY <1>4, <1>5, <1>6 DEF ReadAhead

\* Opening a piece: what is released stays a beginning of the plaintext.
LEMMA OpenPieceHolds ==
  ASSUME SizesAssumption, IInv, OpenPiece
  PROVE  IInvNext
<1>1. /\ plain \in Seq(Nat) /\ fed \in Nat /\ blob \in Seq(Genuine) /\ ahead \in Seq(Genuine)
      /\ outcome = "none" /\ pc = "opening" /\ stream \in OpenStates
  BY DEF IInv, OpenPiece, OpenStates
<1>2. Released(stream.machine)
  BY <1>1 DEF OpenStates
<1>3. UNCHANGED <<path, plain, blob, faults>>
  BY DEF OpenPiece
<1>4. CASE Reject /\ UNCHANGED <<fed, ahead, stream>>
  BY <1>1, <1>2, <1>3, <1>4 DEF IInvNext, Reject
<1>5. CASE \E piece \in IF ahead # <<>> THEN {ahead} ELSE Piece(blob) :
             /\ stream' = Absorb(Opening(Key), stream, piece)
             /\ fed' = IF ahead # <<>> THEN fed ELSE fed + Len(piece)
             /\ ahead' = <<>>
             /\ UNCHANGED <<pc, outcome>>
  <2>1. PICK piece \in IF ahead # <<>> THEN {ahead} ELSE Piece(blob) :
             /\ stream' = Absorb(Opening(Key), stream, piece)
             /\ fed' = IF ahead # <<>> THEN fed ELSE fed + Len(piece)
             /\ ahead' = <<>>
             /\ UNCHANGED <<pc, outcome>>
    BY <1>5
  <2>2. piece \in Seq(Genuine) /\ Len(piece) \in Nat
    <3>1. CASE piece = ahead
      BY <1>1, <3>1
    <3>2. CASE piece \in Piece(blob)
      BY <1>1, <3>2, PieceFacts
    <3>3. QED
      BY <2>1, <3>1, <3>2
  <2>3. stream' \in OpenStates
    BY <1>1, <2>1, <2>2, AbsorbOpening
  <2>4. fed' \in Nat /\ ahead' \in Seq(Genuine)
    BY <1>1, <2>1, <2>2, EmptySeq
  <2>5. pc' = "opening" /\ outcome' = "none"
    BY <1>1, <2>1
  <2>6. QED
    BY <1>1, <1>3, <2>3, <2>4, <2>5 DEF IInvNext
<1>6. QED
  BY <1>4, <1>5 DEF OpenPiece

\* The end of the ciphertext: "matched" only after the chunk flagged as the last.
LEMMA OpenEndHolds ==
  ASSUME SizesAssumption, IInv, OpenEnd
  PROVE  IInvNext
<1>1. /\ plain \in Seq(Nat) /\ fed \in Nat /\ blob \in Seq(Genuine) /\ ahead \in Seq(Genuine)
      /\ outcome = "none" /\ pc = "opening" /\ stream \in OpenStates
  BY DEF IInv, OpenEnd, OpenStates
<1>2. PICK m : m = Finish(Opening(Key), stream)
  OBVIOUS
<1>3. Released(m) /\ (m.raised \/ m.finished)
  BY <1>1, <1>2, FinishOpening
<1>4. /\ stream' = [stream EXCEPT !.machine = m]
      /\ IF stream'.machine.raised THEN Reject ELSE pc' = "done" /\ outcome' = "matched"
      /\ UNCHANGED <<path, plain, fed, ahead, blob, faults>>
  BY <1>2 DEF OpenEnd
<1>5. stream'.machine = m
  BY <1>1, <1>4 DEF OpenStates
<1>6. Released(stream'.machine) /\ (stream'.machine.raised \/ stream'.machine.finished)
  BY <1>3, <1>5
<1>7. pc' = "done" /\ (outcome' = "matched" => ~stream'.machine.raised)
  BY <1>4 DEF Reject
<1>8. QED
  BY <1>1, <1>4, <1>6, <1>7 DEF IInvNext

\* A cancelled call leaves what was released as it is.
LEMMA CancelHolds ==
  ASSUME SizesAssumption, IInv, Cancel
  PROVE  IInvNext
<1>1. /\ plain \in Seq(Nat) /\ fed \in Nat /\ blob \in Seq(Genuine) /\ ahead \in Seq(Genuine)
      /\ blob # <<>> => Released(stream.machine)
  BY DEF IInv, Cancel
<1>2. QED
  BY <1>1 DEF Cancel, IInvNext

\* The invariant of the stream: a sealer holds what it has read of the plaintext,
\* every byte under the payload key says of which chunk of it it is, and an opener
\* has released a beginning of it, all of it once it has finished (seal_chunk,
\* open_chunk, _seal_stream_body, _unwrap_stream_body).
THEOREM StreamInvariant ==
  ASSUME SizesAssumption
  PROVE  Spec => []IInv
<1>1. Init => IInv
  BY InitHolds
<1>2. IInv /\ [Next]_vars => IInv'
  <2>1. SUFFICES ASSUME IInv, [Next]_vars PROVE IInv'
    OBVIOUS
  <2>2. CASE Next
    <3>1. IInvNext
      BY <2>1, <2>2, SealPieceHolds, SealEndHolds, DamageHolds, OpenCallHolds, ReadAheadHolds,
         OpenPieceHolds, OpenEndHolds, CancelHolds DEF Next
    <3>2. QED
      BY <2>1, <3>1, NextHolds
  <2>3. CASE UNCHANGED vars
    BY <2>1, <2>3 DEF vars, IInv, SealedSoFar, Released, Genuine, Faithful, Machines
  <2>4. QED
    BY <2>1, <2>2, <2>3
<1>3. QED
  BY <1>1, <1>2, PTL DEF Spec

\* Whatever happened to a blob in the store, what the opener releases is a
\* beginning of the plaintext that was sealed, and it says "matched" only when that
\* is all of it: chunks cannot be reordered, dropped, or taken from elsewhere.
THEOREM StreamOpens ==
  ASSUME SizesAssumption
  PROVE  Spec => []OpensOnlyAsSealed
<1>1. IInv => OpensOnlyAsSealed
  <2>1. SUFFICES ASSUME IInv PROVE OpensOnlyAsSealed
    OBVIOUS
  <2>2. plain \in Seq(Nat)
    BY <2>1 DEF IInv
  <2>3. ASSUME Released(stream.machine)
        PROVE  /\ IsPrefix(stream.machine.out, plain)
               /\ stream.machine.finished => stream.machine.out = plain
    <3>1. PICK out \in Seq(Nat) : out = stream.machine.out
      BY <2>3 DEF Released, Machines
    <3>2. SubSeq(out, 1, Len(out)) = out
      BY SubSeqFull
    <3>3. Len(out) <= Len(plain) /\ out = SubSeq(plain, 1, Len(out))
      BY <2>3, <3>1 DEF Released
    <3>4. QED
      BY <2>3, <3>1, <3>2, <3>3 DEF IsPrefix, Released
  <2>4. pc \in {"opening", "done"} /\ blob # <<>> => Released(stream.machine)
    BY <2>1 DEF IInv
  <2>5. outcome = "matched" => Released(stream.machine) /\ stream.machine.finished
    BY <2>1 DEF IInv
  <2>6. QED
    BY <2>3, <2>4, <2>5 DEF OpensOnlyAsSealed
<1>2. QED
  BY <1>1, StreamInvariant, PTL

-----------------------------------------------------------------------------
(* Where the pieces were cut                                               *)

\* The one quotient that leaves less than the divisor.
LEMMA QuotientIs ==
  ASSUME NEW n \in Nat, NEW w \in Nat \ {0}, NEW q \in Nat, q * w <= n, n < q * w + w
  PROVE  n \div w = q
<1>1. PICK d \in Nat : d = n \div w /\ d * w <= n /\ n < d * w + w
  BY Divided
<1>2. w \in Nat /\ d * w \in Nat /\ q * w \in Nat
  BY Products
<1>3. ~(d < q)
  <2>1. SUFFICES ASSUME d < q PROVE FALSE
    OBVIOUS
  <2>2. d + 1 \in Nat /\ d + 1 <= q
    BY <2>1
  <2>3. (d + 1) * w <= q * w /\ (d + 1) * w = d * w + w
    BY <1>2, <2>2, Products
  <2>4. QED
    BY <1>1, <1>2, <2>3
<1>4. ~(q < d)
  <2>1. SUFFICES ASSUME q < d PROVE FALSE
    OBVIOUS
  <2>2. q + 1 \in Nat /\ q + 1 <= d
    BY <2>1
  <2>3. (q + 1) * w <= d * w /\ (q + 1) * w = q * w + w
    BY <1>2, <2>2, Products
  <2>4. QED
    BY <1>1, <1>2, <2>3
<1>5. QED
  BY <1>1, <1>3, <1>4

\* n chunks come before the one that holds the end of a buffer.
Leads(n, length, size) == n \in Nat /\ length <= (n + 1) * size /\ (n = 0 \/ n * size < length)

\* LeadingChunks is the one number of chunks that does.
LEMMA LeadingIs ==
  ASSUME NEW length \in Nat, NEW size \in Nat \ {0}, NEW n, Leads(n, length, size)
  PROVE  LeadingChunks(length, size) = n
<1> DEFINE Q(x) == length <= (x + 1) * size /\ \A k \in 0..(x - 1) : length > (k + 1) * size
<1>1. n \in Nat /\ size \in Nat /\ n * size \in Nat /\ (n + 1) * size \in Nat
  <2>1. n \in Nat /\ n + 1 \in Nat /\ size \in Nat
    BY DEF Leads
  <2>2. QED
    BY <2>1, Products
<1>2. n \in 0..length
  <2>1. CASE n = 0
    BY <2>1
  <2>2. CASE n # 0
    <3>1. PICK d \in Nat : size = d + 1
      <4>1. size - 1 \in Nat /\ size = (size - 1) + 1
        OBVIOUS
      <4>2. QED
        BY <4>1
    <3>2. n * (d + 1) = n * d + n /\ n * d \in Nat
      BY <1>1
    <3>3. QED
      BY <1>1, <2>2, <3>1, <3>2 DEF Leads
  <2>3. QED
    BY <2>1, <2>2
<1>3. ASSUME NEW x \in 0..length, NEW y \in 0..length, x < y, length <= (x + 1) * size
      PROVE  ~(y # 0 /\ y * size < length)
  <2>1. x + 1 \in Nat /\ y \in Nat /\ x + 1 <= y
    BY <1>3
  <2>2. (x + 1) * size <= y * size /\ (x + 1) * size \in Nat /\ y * size \in Nat
    BY <1>1, <2>1, Products
  <2>3. QED
    BY <1>3, <2>2
<1>4. Q(n)
  <2>1. ASSUME NEW k \in 0..(n - 1) PROVE length > (k + 1) * size
    <3>1. k + 1 \in Nat /\ k + 1 <= n /\ n # 0
      BY <1>1
    <3>2. (k + 1) * size <= n * size /\ (k + 1) * size \in Nat
      BY <1>1, <3>1, Products
    <3>3. QED
      BY <1>1, <3>1, <3>2 DEF Leads
  <2>2. QED
    BY <2>1 DEF Leads
<1>5. ASSUME NEW x \in 0..length, Q(x) PROVE x = n
  <2>1. ~(x < n)
    <3>1. length <= (x + 1) * size
      BY <1>5
    <3>2. QED
      BY <1>1, <1>2, <1>3, <3>1 DEF Leads
  <2>2. ~(n < x)
    <3>1. SUFFICES ASSUME n < x PROVE FALSE
      OBVIOUS
    <3>2. n \in 0..(x - 1)
      BY <1>1, <3>1
    <3>3. length > (n + 1) * size
      BY <1>5, <3>2
    <3>4. QED
      BY <1>1, <3>3 DEF Leads
  <2>3. QED
    BY <1>1, <2>1, <2>2
<1>6. LeadingChunks(length, size) = CHOOSE x \in 0..length : Q(x)
  BY DEF LeadingChunks
<1> HIDE DEF Q
<1>7. (CHOOSE x \in 0..length : Q(x)) \in 0..length /\ Q(CHOOSE x \in 0..length : Q(x))
  BY <1>2, <1>4
<1>8. QED
  BY <1>5, <1>6, <1>7

\* And there is one.
LEMMA LeadingLeads ==
  ASSUME NEW length \in Nat, NEW size \in Nat \ {0}
  PROVE  Leads(LeadingChunks(length, size), length, size)
<1>1. PICK d \in Nat : d = length \div size /\ d * size <= length /\ length < d * size + size
  BY Divided
<1>2. size \in Nat /\ d * size \in Nat /\ (d + 1) * size = d * size + size
  BY <1>1, Products
<1>3. \E n : Leads(n, length, size)
  <2>1. CASE d = 0 \/ d * size < length
    <3>1. length <= (d + 1) * size
      BY <1>1, <1>2
    <3>2. Leads(d, length, size)
      BY <1>1, <2>1, <3>1 DEF Leads
    <3>3. QED
      BY <3>2
  <2>2. CASE d # 0 /\ ~(d * size < length)
    <3>1. PICK e \in Nat : d = e + 1
      <4>1. d - 1 \in Nat /\ d = (d - 1) + 1
        BY <2>2
      <4>2. QED
        BY <4>1
    <3>2. (e + 1) * size = e * size + size /\ e * size \in Nat
      BY <1>2, Products
    <3>3. length = (e + 1) * size
      BY <1>1, <1>2, <2>2, <3>1
    <3>4. e * size < length /\ length <= (e + 1) * size
      BY <1>2, <3>2, <3>3
    <3>5. Leads(e, length, size)
      BY <3>4 DEF Leads
    <3>6. QED
      BY <3>5
  <2>3. QED
    BY <2>1, <2>2
<1>4. QED
  BY <1>3, LeadingIs

-----------------------------------------------------------------------------
(* A pass over the whole of a source                                       *)

\* The machines of M are closed under a pass over buffers of E.
PassOver(pass, E, M) ==
  /\ pass.size \in Nat \ {0} /\ Machine \in M
  /\ \A x \in M, c \in Seq(E), final \in BOOLEAN :
       /\ Step(pass, x, c, final) \in M
       /\ x.raised => Step(pass, x, c, final).raised

FullChunks(src, size) == Len(src) \div size
NthChunk(src, size, n) == SubSeq(src, (n - 1) * size + 1, n * size)

\* f[n] is the machine after the first n full chunks of the source.
Runs(f, pass, src) ==
  /\ f[0] = Machine
  /\ \A n \in 1..FullChunks(src, pass.size) :
       f[n] = Step(pass, f[n - 1], NthChunk(src, pass.size, n), FALSE)

\* Its full chunks are parts of the source.
LEMMA NthFacts ==
  ASSUME NEW E, NEW src \in Seq(E), NEW size \in Nat \ {0}
  PROVE  /\ FullChunks(src, size) \in Nat /\ FullChunks(src, size) * size <= Len(src)
         /\ Len(src) < FullChunks(src, size) * size + size
         /\ \A n \in 1..FullChunks(src, size) :
              NthChunk(src, size, n) \in Seq(E) /\ Len(NthChunk(src, size, n)) = size
<1>1. PICK N \in Nat : N = FullChunks(src, size) /\ N * size <= Len(src) /\ Len(src) < N * size + size
  <2>1. Len(src) \in Nat
    OBVIOUS
  <2>2. QED
    BY <2>1, Divided DEF FullChunks
<1>2. ASSUME NEW n \in 1..N
      PROVE  NthChunk(src, size, n) \in Seq(E) /\ Len(NthChunk(src, size, n)) = size
  <2>1. PICK k \in Nat : k = n - 1 /\ n = k + 1 /\ k + 1 <= N
    <3>1. n - 1 \in Nat /\ n = (n - 1) + 1 /\ (n - 1) + 1 <= N
      OBVIOUS
    <3>2. QED
      BY <3>1
  <2>2. PICK a \in Nat, b \in Nat, c \in Nat :
          a = k * size /\ b = (k + 1) * size /\ c = N * size /\ b = a + size /\ b <= c
    BY <2>1, Products
  <2>3. a <= b /\ b <= Len(src) /\ b - a = size
    BY <1>1, <2>2
  <2>4. SubSeq(src, a + 1, b) \in Seq(E) /\ Len(SubSeq(src, a + 1, b)) = b - a
    BY <2>3, PartFacts
  <2>5. NthChunk(src, size, n) = SubSeq(src, a + 1, b)
    BY <2>1, <2>2 DEF NthChunk
  <2>6. QED
    BY <2>3, <2>4, <2>5
<1>3. QED
  BY <1>1, <1>2

\* A pass comes by each of its machines, and there is one pass.
LEMMA RunExists ==
  ASSUME NEW pass, NEW E, NEW M, PassOver(pass, E, M), NEW src \in Seq(E)
  PROVE  \E f : Runs(f, pass, src)
<1> DEFINE N == FullChunks(src, pass.size)
           h == [x \in (1..N) \X M |-> Step(pass, x[2], NthChunk(src, pass.size, x[1]), FALSE)]
<1>1. N \in Nat /\ \A n \in 1..N : NthChunk(src, pass.size, n) \in Seq(E)
  BY NthFacts DEF PassOver
<1> HIDE DEF N
<1>2. h \in [(1..N) \X M -> M]
  <2>1. \A x \in (1..N) \X M : Step(pass, x[2], NthChunk(src, pass.size, x[1]), FALSE) \in M
    BY <1>1 DEF PassOver
  <2>2. QED
    BY <2>1
<1>3. \A n \in 1..N, x \in M : h[<<n, x>>] = Step(pass, x, NthChunk(src, pass.size, n), FALSE)
  OBVIOUS
<1>4. Machine \in M
  BY DEF PassOver
<1> HIDE DEF h
<1>5. PICK f \in [0..N -> M] : Recurs(f, Machine, h, N)
  BY <1>1, <1>2, <1>4, RecursionOnInterval
<1>6. ASSUME NEW n \in 1..N
      PROVE  f[n] = Step(pass, f[n - 1], NthChunk(src, pass.size, n), FALSE)
  <2>1. n - 1 \in 0..N
    BY <1>1
  <2>2. f[n] = h[<<n, f[n - 1]>>] /\ f[n - 1] \in M
    BY <2>1, <1>5 DEF Recurs
  <2>3. QED
    BY <2>2, <1>3
<1>7. f[0] = Machine
  BY <1>5 DEF Recurs
<1>8. Runs(f, pass, src)
  BY <1>6, <1>7 DEF Runs, N
<1>9. QED
  BY <1>8

\* Each of its machines is one of M, and once it has raised, so have the others.
LEMMA RunFacts ==
  ASSUME NEW pass, NEW E, NEW M, PassOver(pass, E, M), NEW src \in Seq(E),
         NEW f, Runs(f, pass, src)
  PROVE  /\ \A n \in 0..FullChunks(src, pass.size) : f[n] \in M
         /\ \A n \in 0..FullChunks(src, pass.size), k \in 0..FullChunks(src, pass.size) :
              n <= k /\ f[n].raised => f[k].raised
<1>1. PICK N \in Nat : /\ N = FullChunks(src, pass.size)
                       /\ \A n \in 1..N : NthChunk(src, pass.size, n) \in Seq(E)
  BY NthFacts DEF PassOver
<1>2. \A n \in 1..N : f[n] = Step(pass, f[n - 1], NthChunk(src, pass.size, n), FALSE)
  BY <1>1 DEF Runs
<1> DEFINE T == {n \in Nat : n <= N => f[n] \in M /\ \A k \in 0..n : f[k].raised => f[n].raised}
<1>3. 0 \in T
  BY DEF Runs, PassOver
<1>4. ASSUME NEW n \in Nat, n \in T
      PROVE  n + 1 \in T
  <2>1. SUFFICES ASSUME n + 1 <= N
                 PROVE  f[n + 1] \in M /\ \A k \in 0..(n + 1) : f[k].raised => f[n + 1].raised
    OBVIOUS
  <2>2. PICK i \in 1..N : i = n + 1 /\ i - 1 = n
    BY <2>1
  <2>3. f[n] \in M /\ \A k \in 0..n : f[k].raised => f[n].raised
    BY <1>4, <2>1
  <2>4. f[i] = Step(pass, f[n], NthChunk(src, pass.size, i), FALSE)
    BY <1>2, <2>2
  <2>5. f[i] \in M /\ (f[n].raised => f[i].raised)
    BY <1>1, <2>3, <2>4 DEF PassOver
  <2>6. \A k \in 0..(n + 1) : k \in 0..n \/ k = i
    BY <2>2
  <2>7. QED
    BY <2>2, <2>3, <2>5, <2>6
<1>5. \A n \in Nat : n \in T
  <2> HIDE DEF T
  <2>1. QED
    BY <1>3, <1>4, SetInduction
<1>6. ASSUME NEW n \in 0..N PROVE f[n] \in M /\ \A k \in 0..n : f[k].raised => f[n].raised
  BY <1>5
<1>7. QED
  BY <1>1, <1>6

\* What Steps makes of the next few chunks.
LEMMA RunSteps ==
  ASSUME NEW pass, NEW E, NEW M, PassOver(pass, E, M), NEW src \in Seq(E),
         NEW f, Runs(f, pass, src), NEW chunks \in Seq(Seq(E)), NEW c \in Nat,
         c + Len(chunks) <= FullChunks(src, pass.size),
         \A i \in 1..Len(chunks) : chunks[i] = NthChunk(src, pass.size, c + i)
  PROVE  Steps(pass, f[c], chunks) = f[c + Len(chunks)]
<1>1. PICK N \in Nat, L \in Nat : N = FullChunks(src, pass.size) /\ L = Len(chunks) /\ c + L <= N
  <2>1. FullChunks(src, pass.size) \in Nat
    BY NthFacts DEF PassOver
  <2>2. QED
    BY <2>1
<1> DEFINE T == {<<i, f[c + i]>> : i \in 0..L}
<1>2. f[c] \in M
  BY <1>1, RunFacts
<1>3. \A x \in M, b \in Seq(E) : Step(pass, x, b, FALSE) \in M
  BY DEF PassOver
<1>4. <<0, f[c]>> \in T
  <2>1. c + 0 = c /\ 0 \in 0..L
    OBVIOUS
  <2>2. QED
    BY <2>1
<1>5. ASSUME NEW n \in 1..L, NEW x \in M, <<n - 1, x>> \in T
      PROVE  <<n, Step(pass, x, chunks[n], FALSE)>> \in T
  <2>1. PICK i \in 0..L : i = n - 1 /\ x = f[c + i]
    BY <1>5
  <2>2. PICK k \in 1..N : k = c + n /\ k - 1 = c + i
    BY <1>1, <2>1
  <2>3. f[k] = Step(pass, f[k - 1], NthChunk(src, pass.size, k), FALSE)
    BY <1>1 DEF Runs
  <2>4. f[c + n] = Step(pass, x, chunks[n], FALSE)
    BY <1>1, <2>1, <2>2, <2>3
  <2>5. n \in 0..L /\ <<n, f[c + n]>> \in T
    OBVIOUS
  <2> HIDE DEF T
  <2>6. QED
    BY <2>4, <2>5
<1>6. \A n \in 1..Len(chunks), x \in M :
        <<n - 1, x>> \in T => <<n, Step(pass, x, chunks[n], FALSE)>> \in T
  BY <1>1, <1>5
<1> HIDE DEF T
<1>7. <<Len(chunks), Steps(pass, f[c], chunks)>> \in T
  <2>1. PICK C : C = Seq(E)
    OBVIOUS
  <2>2. chunks \in Seq(C) /\ \A x \in M, b \in C : Step(pass, x, b, FALSE) \in M
    BY <1>3, <2>1
  <2>3. QED
    BY <1>2, <1>4, <1>6, <2>2, StepsKeep
<1>8. QED
  BY <1>1, <1>7 DEF T

-----------------------------------------------------------------------------
(* What a generator holds                                                  *)

\* A generator that has read n bytes of the source, k full chunks and some more:
\* all but the last full chunk have gone through the machine.
Absorbed(pass, src, f, s, n) ==
  LET size == pass.size
      k == n \div size
  IN /\ DOMAIN s = {"machine", "buffer", "pending"}
     /\ s = [machine |-> s.machine, buffer |-> s.buffer, pending |-> s.pending]
     /\ s.buffer = SubSeq(src, k * size + 1, n)
     /\ IF k = 0 THEN s.pending = <<>> /\ s.machine = Machine
        ELSE s.pending = <<NthChunk(src, size, k)>> /\ s.machine = f[k - 1]

\* The same with the numbers named: h chunks are held back, the buffer starts at a.
AbsorbedAt(pass, src, f, s, n, k, h, a) ==
  /\ k = n \div pass.size /\ a = k * pass.size /\ a <= n /\ n < a + pass.size
  /\ h = (IF k = 0 THEN 0 ELSE 1) /\ s.machine = f[k - h] /\ k <= FullChunks(src, pass.size)
  /\ s.pending = (IF k = 0 THEN <<>> ELSE <<NthChunk(src, pass.size, k)>>)
  /\ s = [machine |-> s.machine, buffer |-> s.buffer, pending |-> s.pending]
  /\ s.buffer = SubSeq(src, a + 1, n)

LEMMA AbsorbedFacts ==
  ASSUME NEW pass, NEW E, NEW M, PassOver(pass, E, M), NEW src \in Seq(E),
         NEW f, Runs(f, pass, src), NEW s, NEW n \in Nat, n <= Len(src),
         Absorbed(pass, src, f, s, n)
  PROVE  \E k \in Nat, h \in {0, 1}, a \in Nat : AbsorbedAt(pass, src, f, s, n, k, h, a)
<1>1. pass.size \in Nat \ {0}
  BY DEF PassOver
<1>2. PICK k \in Nat, a \in Nat : k = n \div pass.size /\ a = k * pass.size /\ a <= n /\ n < a + pass.size
  <2>1. n \div pass.size \in Nat /\ (n \div pass.size) * pass.size <= n
        /\ n < (n \div pass.size) * pass.size + pass.size
    BY <1>1, Divided
  <2>2. (n \div pass.size) * pass.size \in Nat
    BY <1>1, <2>1, Products
  <2>3. QED
    BY <2>1, <2>2
<1>3. k <= FullChunks(src, pass.size)
  <2>1. PICK N \in Nat : N = FullChunks(src, pass.size) /\ Len(src) < N * pass.size + pass.size
    BY <1>1, NthFacts
  <2>2. SUFFICES ASSUME N < k PROVE FALSE
    BY <2>1
  <2>3. N + 1 \in Nat /\ N + 1 <= k
    BY <2>2
  <2>4. (N + 1) * pass.size <= k * pass.size /\ (N + 1) * pass.size = N * pass.size + pass.size
        /\ (N + 1) * pass.size \in Nat
    BY <1>1, <2>3, Products
  <2>5. Len(src) \in Nat
    OBVIOUS
  <2>6. QED
    BY <1>2, <2>1, <2>4, <2>5
<1>4. PICK h \in {0, 1} : h = IF k = 0 THEN 0 ELSE 1
  OBVIOUS
<1>5. s.machine = f[k - h]
  <2>1. CASE k = 0
    <3>1. k - h = 0
      BY <1>4, <2>1
    <3>2. QED
      BY <1>2, <2>1, <3>1 DEF Absorbed, Runs
  <2>2. CASE k # 0
    BY <1>2, <1>4, <2>2 DEF Absorbed
  <2>3. QED
    BY <2>1, <2>2
<1>6. AbsorbedAt(pass, src, f, s, n, k, h, a)
  BY <1>2, <1>3, <1>4, <1>5 DEF Absorbed, AbsorbedAt
<1>7. QED
  BY <1>6

\* A generator that has read nothing.
LEMMA FreshAbsorbed ==
  ASSUME NEW pass, NEW E, NEW M, PassOver(pass, E, M), NEW src \in Seq(E), NEW f
  PROVE  Absorbed(pass, src, f, Fresh, 0)
<1>1. pass.size \in Nat \ {0}
  BY DEF PassOver
<1>2. 0 * pass.size = 0
  BY <1>1, Products
<1>3. 0 \div pass.size = 0
  BY <1>1, <1>2, QuotientIs
<1>4. SubSeq(src, 0 * pass.size + 1, 0) = <<>>
  BY <1>2, SubSeqEmpty
<1>5. QED
  BY <1>3, <1>4 DEF Fresh, Absorbed

\* The next j bytes, however they were cut off, leave it with what it would hold
\* had it read them in other pieces.
LEMMA AbsorbKeeps ==
  ASSUME NEW pass, NEW E, NEW M, PassOver(pass, E, M), NEW src \in Seq(E),
         NEW f, Runs(f, pass, src), NEW s, NEW n \in Nat, NEW j \in Nat, n + j <= Len(src),
         Absorbed(pass, src, f, s, n)
  PROVE  Absorbed(pass, src, f, Absorb(pass, s, SubSeq(src, n + 1, n + j)), n + j)
<1>1. PICK size \in Nat \ {0} : size = pass.size
  BY DEF PassOver
<1> DEFINE piece == SubSeq(src, n + 1, n + j)
           buffer == s.buffer \o piece
           full == Len(buffer) \div size
           cs == Chunks(buffer, size, full)
           queue == s.pending \o cs
           t == Absorb(pass, s, piece)
<1>2. PICK end \in Nat : end = n + j /\ n <= end /\ end <= Len(src) /\ n <= Len(src)
  <2>1. n + j \in Nat /\ n <= n + j /\ n <= Len(src)
    OBVIOUS
  <2>2. QED
    BY <2>1
<1>3. PICK k \in Nat, h \in {0, 1}, a \in Nat : AbsorbedAt(pass, src, f, s, n, k, h, a)
  BY <1>2, AbsorbedFacts
<1>4. /\ k = n \div size /\ a = k * size /\ a <= n /\ n < a + size
      /\ h = (IF k = 0 THEN 0 ELSE 1) /\ s.machine = f[k - h] /\ k <= FullChunks(src, size)
      /\ s.pending = (IF k = 0 THEN <<>> ELSE <<NthChunk(src, size, k)>>)
      /\ s = [machine |-> s.machine, buffer |-> s.buffer, pending |-> s.pending]
      /\ s.buffer = SubSeq(src, a + 1, n)
      /\ size \in Nat /\ FullChunks(src, size) \in Nat
  BY <1>1, <1>3, NthFacts DEF AbsorbedAt
<1>5. a <= n /\ n < a + size /\ size \in Nat /\ a = k * size
  BY <1>4
<1>6. a <= end /\ end - a \in Nat
  BY <1>2, <1>5
<1>7. k - h \in Nat /\ (h = 1 <=> k # 0)
  <2>1. h = IF k = 0 THEN 0 ELSE 1
    BY <1>4
  <2>2. QED
    BY <2>1
<1>8. buffer = SubSeq(src, a + 1, end) /\ buffer \in Seq(E) /\ Len(buffer) = end - a
  <2>1. buffer = SubSeq(src, a + 1, end)
    <3>1. a <= n /\ n <= end /\ end <= Len(src)
      BY <1>2, <1>4
    <3>2. SubSeq(src, a + 1, n) \o SubSeq(src, n + 1, end) = SubSeq(src, a + 1, end)
      BY <3>1, PartsJoin
    <3>3. QED
      BY <1>2, <1>4, <3>2
  <2>2. a <= end
    BY <1>2, <1>4
  <2>3. SubSeq(src, a + 1, end) \in Seq(E) /\ Len(SubSeq(src, a + 1, end)) = end - a
    BY <1>2, <2>2, PartFacts
  <2>4. QED
    BY <2>1, <2>3
<1>9. PICK q \in Nat, b \in Nat : /\ q = full /\ b = q * size /\ b <= end - a /\ end - a < b + size
  <2>1. end - a \in Nat
    BY <1>6
  <2>2. full \in Nat /\ full * size <= end - a /\ end - a < full * size + size
    BY <1>1, <1>8, <2>1, Divided
  <2>3. full * size \in Nat
    BY <1>1, <2>2, Products
  <2>4. QED
    BY <2>2, <2>3
<1>10. /\ end \div size = k + q /\ (k + q) * size = a + b /\ k + q <= FullChunks(src, size)
  <2>1. k + q \in Nat /\ (k + q) * size = a + b
    <3>1. (k + q) * size = k * size + q * size
      BY <1>5, Products
    <3>2. k + q \in Nat /\ k * size = a /\ q * size = b
      <4>1. k + q \in Nat
        OBVIOUS
      <4>2. k * size = a /\ q * size = b
        BY <1>9, <1>5, Zenon
      <4>3. QED
        BY <4>1, <4>2
    <3>3. QED
      BY <3>1, <3>2
  <2>2. a + b <= end /\ end < (a + b) + size
    <3>1. b <= end - a /\ end - a < b + size
      BY <1>9
    <3>2. QED
      BY <1>5, <3>1
  <2>3. end \div size = k + q
    <3>1. (k + q) * size <= end /\ end < (k + q) * size + size
      BY <2>1, <2>2
    <3>2. QED
      BY <1>1, <2>1, <3>1, QuotientIs
  <2>4. PICK N \in Nat : N = FullChunks(src, size) /\ Len(src) < N * size + size
    BY <1>1, NthFacts
  <2>5. ~(N < k + q)
    <3>1. SUFFICES ASSUME N < k + q PROVE FALSE
      OBVIOUS
    <3>2. N + 1 \in Nat /\ N + 1 <= k + q
      BY <3>1
    <3>3. (N + 1) * size <= (k + q) * size /\ (N + 1) * size = N * size + size
          /\ (N + 1) * size \in Nat
      BY <1>5, <2>1, <3>2, Products
    <3>4. Len(src) \in Nat
      OBVIOUS
    <3>5. QED
      BY <1>2, <2>1, <2>2, <2>4, <3>3, <3>4
  <2>6. QED
    BY <2>1, <2>3, <2>4, <2>5
<1>11. t = IF full = 0 THEN [s EXCEPT !.buffer = buffer]
          ELSE [machine |-> Steps(pass, s.machine, Front(queue)),
                buffer  |-> Rest(buffer, full * size),
                pending |-> <<Last(queue)>>]
  BY <1>1 DEF Absorb
<1> HIDE DEF t
<1>12. CASE q = 0
  <2>1. t = [s EXCEPT !.buffer = buffer]
    BY <1>9, <1>11, <1>12
  <2> HIDE DEF buffer
  <2>2. t = [machine |-> s.machine, buffer |-> buffer, pending |-> s.pending]
    BY <1>4, <2>1
  <2>3. end \div size = k /\ k * size = a
    BY <1>4, <1>10, <1>12
  <2>4. k = 0 => s.machine = Machine
    <3>1. k = 0 => k - h = 0
      BY <1>4
    <3>2. QED
      BY <1>4, <3>1 DEF Runs
  <2>5. k # 0 => s.machine = f[k - 1]
    BY <1>4
  <2>6. Absorbed(pass, src, f, t, end)
    BY <1>1, <1>4, <1>8, <2>2, <2>3, <2>4, <2>5 DEF Absorbed
  <2>7. QED
    BY <1>2, <2>6 DEF t
<1>13. CASE q # 0
  <2>1. /\ t = [machine |-> Steps(pass, s.machine, Front(queue)), buffer |-> Rest(buffer, b),
                pending |-> <<Last(queue)>>]
    BY <1>9, <1>11, <1>13
  <2>2. cs \in Seq(Seq(E)) /\ Len(cs) = q
    <3>1. q * size <= Len(buffer)
      BY <1>8, <1>9
    <3>2. PICK u \in Seq(E) : u = buffer
      BY <1>8
    <3> HIDE DEF buffer
    <3>3. q * size <= Len(u)
      BY <3>1, <3>2
    <3>4. Chunks(u, size, q) \in Seq(Seq(E)) /\ Len(Chunks(u, size, q)) = q
      BY <1>5, <3>3, ChunkFacts
    <3>5. QED
      BY <1>9, <3>2, <3>4
  <2>3. ASSUME NEW i \in 1..q PROVE cs[i] = NthChunk(src, size, k + i)
    <3>1. PICK i0 \in Nat : i0 = i - 1 /\ i = i0 + 1 /\ i0 + 1 \in Nat /\ (k + i) - 1 = k + i0
      <4>1. i - 1 \in Nat /\ i = (i - 1) + 1 /\ i \in Nat /\ (k + i) - 1 = k + (i - 1)
        OBVIOUS
      <4>2. QED
        BY <4>1
    <3>2. PICK c \in Nat, d \in Nat : c = i0 * size /\ d = i * size /\ (k + i0) * size = a + c
                                      /\ (k + i) * size = a + d
      <4>1. i \in Nat
        OBVIOUS
      <4>2. QED
        BY <1>5, <3>1, <4>1, Products
    <3>3. ChunkPlace(E, src, a, end, buffer, size, q, i, c, d)
      <4>1. a <= end /\ i - 1 = i0
        BY <1>2, <1>4, <3>1
      <4> HIDE DEF buffer
      <4>2. QED
        BY <1>2, <1>4, <1>8, <1>9, <3>2, <4>1 DEF ChunkPlace
    <3>4. Chunks(buffer, size, q)[i] = SubSeq(src, a + c + 1, a + d)
      <4> HIDE DEF buffer
      <4>1. ChunkIs(buffer, size, q, i, src, a, c, d)
        BY <3>3, ChunkOfPart
      <4>2. QED
        BY <4>1 DEF ChunkIs
    <3>5. NthChunk(src, size, k + i) = SubSeq(src, (a + c) + 1, a + d)
      BY <3>1, <3>2 DEF NthChunk
    <3>6. QED
      BY <1>9, <3>4, <3>5
  <2>4. s.pending \in Seq(Seq(E)) /\ Len(s.pending) = h
        /\ (h = 1 => s.pending[1] = NthChunk(src, size, k))
    <3>1. CASE k = 0
      BY <1>4, <3>1
    <3>2. CASE k # 0
      <4>1. NthChunk(src, size, k) \in Seq(E)
        <5>1. k \in 1..FullChunks(src, size)
          <6>1. FullChunks(src, size) \in Nat
            BY <1>1, NthFacts
          <6>2. QED
            BY <1>4, <3>2, <6>1
        <5>2. QED
          BY <1>1, <5>1, NthFacts
      <4>2. PICK x \in Seq(E) : x = NthChunk(src, size, k)
        BY <4>1
      <4>3. s.pending = <<x>> /\ h = 1
        BY <1>4, <3>2, <4>2
      <4>4. <<x>> \in Seq(Seq(E)) /\ Len(<<x>>) = 1 /\ <<x>>[1] = x
        OBVIOUS
      <4>5. QED
        BY <4>2, <4>3, <4>4
    <3>3. QED
      BY <3>1, <3>2
  <2> HIDE DEF cs, buffer
  <2>5. /\ queue \in Seq(Seq(E)) /\ Len(queue) = h + q
        /\ \A i \in 1..h : queue[i] = s.pending[i]
        /\ \A i \in 1..q : queue[h + i] = cs[i]
    <3>1. PICK C : C = Seq(E)
      OBVIOUS
    <3>2. PICK u \in Seq(C), v \in Seq(C) : u = s.pending /\ v = cs
      BY <2>2, <2>4, <3>1
    <3>3. u \o v \in Seq(C) /\ Len(u \o v) = Len(u) + Len(v)
          /\ (\A i \in 1..Len(u) : (u \o v)[i] = u[i])
          /\ \A i \in 1..Len(v) : (u \o v)[Len(u) + i] = v[i]
      BY JoinFacts
    <3>4. QED
      BY <2>2, <2>4, <3>1, <3>2, <3>3
  <2>6. ASSUME NEW i \in 1..(h + q) PROVE queue[i] = NthChunk(src, size, (k - h) + i)
    <3>1. CASE i \in 1..h
      <4>1. h = 1 /\ i = 1 /\ (k - h) + i = k
        BY <1>7, <3>1
      <4>2. QED
        BY <2>4, <2>5, <3>1, <4>1
    <3>2. CASE i \notin 1..h
      <4>1. PICK e \in 1..q : e = i - h /\ h + e = i /\ (k - h) + i = k + e
        <5>1. i - h \in 1..q /\ h + (i - h) = i /\ (k - h) + i = k + (i - h)
          BY <3>2
        <5>2. QED
          BY <5>1
      <4>2. queue[h + e] = cs[e] /\ cs[e] = NthChunk(src, size, k + e)
        BY <2>3, <2>5
      <4>3. QED
        BY <4>1, <4>2
    <3>3. QED
      BY <3>1, <3>2
  <2> HIDE DEF queue
  <2>7. /\ Front(queue) \in Seq(Seq(E)) /\ Len(Front(queue)) = (h + q) - 1
        /\ \A i \in 1..((h + q) - 1) : Front(queue)[i] = queue[i]
        /\ Last(queue) = queue[h + q]
    <3>1. PICK C : C = Seq(E)
      OBVIOUS
    <3>2. queue # <<>>
      <4>1. Len(queue) # 0
        BY <1>13, <2>5
      <4>2. QED
        BY <4>1
    <3>3. PICK u \in Seq(C) : u = queue /\ u # <<>>
      BY <2>5, <3>1, <3>2
    <3>4. Front(u) \in Seq(C) /\ Len(Front(u)) = Len(u) - 1
          /\ (\A i \in 1..(Len(u) - 1) : Front(u)[i] = u[i]) /\ Last(u) = u[Len(u)]
      BY <3>3, FrontAndLast
    <3>5. QED
      BY <2>5, <3>1, <3>3, <3>4
  <2>8. PICK c \in Nat : c = k - h
    BY <1>7
  <2>9. PICK g : g = Front(queue)
    OBVIOUS
  <2>10. g \in Seq(Seq(E)) /\ Len(g) = (h + q) - 1 /\ c + Len(g) = (k + q) - 1
    <3>1. g \in Seq(Seq(E)) /\ Len(g) = (h + q) - 1
      BY <2>7, <2>9
    <3>2. c + ((h + q) - 1) = (k + q) - 1
      BY <2>8
    <3>3. QED
      BY <3>1, <3>2
  <2>11. c + Len(g) <= FullChunks(src, size)
    <3>1. FullChunks(src, size) \in Nat
      BY <1>1, NthFacts
    <3>2. QED
      BY <1>10, <2>10, <3>1
  <2>12. \A i \in 1..Len(g) : g[i] = NthChunk(src, size, c + i)
    <3>1. \A i \in 1..Len(g) : i \in 1..((h + q) - 1) /\ i \in 1..(h + q)
      BY <2>10
    <3>2. QED
      BY <2>6, <2>7, <2>8, <2>9, <3>1
  <2>13. Steps(pass, f[c], g) = f[c + Len(g)]
    <3>1. g \in Seq(Seq(E)) /\ c \in Nat
      BY <2>10
    <3>2. c + Len(g) <= FullChunks(src, pass.size)
      BY <1>1, <2>11
    <3>3. \A i \in 1..Len(g) : g[i] = NthChunk(src, pass.size, c + i)
      BY <1>1, <2>12
    <3>4. QED
      BY <3>2, <3>3, <3>1, RunSteps
  <2>14. t.machine = f[(k + q) - 1]
    BY <1>4, <2>1, <2>8, <2>10, <2>13, <2>9
  <2>15. t.pending = <<NthChunk(src, size, k + q)>>
    <3>1. h + q \in 1..(h + q) /\ (k - h) + (h + q) = k + q
      BY <1>13
    <3>2. Last(queue) = NthChunk(src, size, k + q)
      BY <2>6, <2>7, <3>1
    <3>3. QED
      BY <2>1, <3>2
  <2>16. t.buffer = SubSeq(src, (k + q) * size + 1, end)
    <3>1. Rest(SubSeq(src, a + 1, end), b) = SubSeq(src, a + b + 1, end)
      <4>1. a <= end /\ b <= end - a
        BY <1>2, <1>4, <1>9
      <4>2. QED
        BY <1>2, <4>1, RestOfPart
    <3>2. t.buffer = Rest(buffer, b)
      BY <2>1
    <3>3. QED
      BY <1>8, <1>10, <3>1, <3>2
  <2>17. k + q # 0
    BY <1>13
  <2>18. t = [machine |-> t.machine, buffer |-> t.buffer, pending |-> t.pending]
         /\ DOMAIN t = {"machine", "buffer", "pending"}
    BY <2>1
  <2>19. Absorbed(pass, src, f, t, end)
    BY <1>1, <1>10, <2>14, <2>15, <2>16, <2>17, <2>18 DEF Absorbed
  <2>20. QED
    BY <1>2, <2>19 DEF t
<1>14. QED
  BY <1>12, <1>13

\* At the end of the source a generator comes to what the buffered form does.
LEMMA FinishIsWhole ==
  ASSUME NEW pass, NEW E, NEW M, PassOver(pass, E, M), NEW src \in Seq(E),
         NEW f, Runs(f, pass, src), NEW n, Leads(n, Len(src), pass.size)
  PROVE  /\ n \in 0..FullChunks(src, pass.size)
         /\ Whole(pass, src) = Step(pass, f[n], SubSeq(src, n * pass.size + 1, Len(src)), TRUE)
         /\ \A s : Absorbed(pass, src, f, s, Len(src)) => Finish(pass, s) = Whole(pass, src)
<1>1. PICK size \in Nat \ {0} : size = pass.size
  BY DEF PassOver
<1>2. PICK L \in Nat, N \in Nat : /\ L = Len(src) /\ N = FullChunks(src, size) /\ N * size <= L
                                  /\ L < N * size + size
  <2>1. Len(src) \in Nat
    OBVIOUS
  <2>2. QED
    BY <2>1, NthFacts
<1>3. n \in Nat /\ L <= (n + 1) * size /\ (n = 0 \/ n * size < L)
  BY <1>1, <1>2 DEF Leads
<1>4. PICK a \in Nat, b \in Nat : /\ a = n * size /\ b = N * size /\ (n + 1) * size = a + size
                                  /\ (N + 1) * size = b + size
  <2>1. size \in Nat
    OBVIOUS
  <2>2. n * size \in Nat /\ N * size \in Nat /\ (n + 1) * size = n * size + size
        /\ (N + 1) * size = N * size + size
    BY <1>3, <2>1, Products
  <2>3. QED
    BY <2>2
<1>5. n <= N /\ a <= L
  <2>1. a <= L
    <3>1. CASE n = 0
      <4>1. a = 0
        BY <1>4, <3>1, Products
      <4>2. QED
        BY <4>1
    <3>2. CASE n # 0
      BY <1>3, <1>4, <3>2
    <3>3. QED
      BY <3>1, <3>2
  <2>2. ~(N < n)
    <3>1. SUFFICES ASSUME N < n PROVE FALSE
      OBVIOUS
    <3>2. N + 1 \in Nat /\ N + 1 <= n /\ size \in Nat
      BY <1>3, <3>1
    <3>3. (N + 1) * size <= n * size
      BY <1>3, <3>2, Products
    <3>4. b + size <= a
      BY <1>4, <3>3
    <3>5. L < b + size
      BY <1>2, <1>4
    <3>6. QED
      BY <2>1, <3>4, <3>5
  <2>3. QED
    BY <1>3, <2>1, <2>2
<1>6. Whole(pass, src) = Step(pass, f[n], SubSeq(src, a + 1, L), TRUE)
  <2>1. LeadingChunks(L, size) = n
    BY <1>1, <1>2, LeadingIs
  <2>2. n * size <= Len(src) /\ size \in Nat
    BY <1>2, <1>4, <1>5
  <2>3. PICK cs : cs = Chunks(src, size, n)
    OBVIOUS
  <2>4. cs \in Seq(Seq(E)) /\ Len(cs) = n
        /\ \A j \in 1..n : cs[j] = SubSeq(src, (j - 1) * size + 1, j * size)
    <3>1. n \in Nat
      BY <1>3
    <3>2. /\ Chunks(src, size, n) \in Seq(Seq(E)) /\ Len(Chunks(src, size, n)) = n
          /\ \A j \in 1..n : Chunks(src, size, n)[j] = SubSeq(src, (j - 1) * size + 1, j * size)
      <4>1. Chunks(src, size, n) \in Seq(Seq(E)) /\ Len(Chunks(src, size, n)) = n
        BY <2>2, <3>1, ChunkFacts
      <4>2. \A j \in 1..n : Chunks(src, size, n)[j] = SubSeq(src, (j - 1) * size + 1, j * size)
        BY <2>2, <3>1, ChunkAt
      <4>3. QED
        BY <4>1, <4>2
    <3>3. QED
      BY <2>3, <3>2
  <2>5. \A j \in 1..Len(cs) : cs[j] = NthChunk(src, pass.size, 0 + j)
    BY <1>1, <2>4 DEF NthChunk
  <2>6. 0 + Len(cs) <= FullChunks(src, pass.size)
    BY <1>1, <1>2, <1>3, <1>5, <2>4
  <2>7. Steps(pass, f[0], cs) = f[0 + Len(cs)]
    BY <2>4, <2>5, <2>6, RunSteps
  <2>8. f[0] = Machine /\ f[0 + Len(cs)] = f[n]
    BY <1>3, <2>4 DEF Runs
  <2>9. Rest(src, n * size) = SubSeq(src, a + 1, L)
    BY <1>2, <1>4 DEF Rest
  <2>10. QED
    BY <1>1, <1>2, <2>1, <2>3, <2>7, <2>8, <2>9 DEF Whole
<1>7. ASSUME NEW s, Absorbed(pass, src, f, s, L)
      PROVE  Finish(pass, s) = Whole(pass, src)
  <2>1. L \div size = N
    BY <1>2 DEF FullChunks
  <2>2. /\ s.buffer = SubSeq(src, b + 1, L)
        /\ IF N = 0 THEN s.pending = <<>> /\ s.machine = Machine
           ELSE s.pending = <<NthChunk(src, size, N)>> /\ s.machine = f[N - 1]
    BY <1>1, <1>4, <1>7, <2>1 DEF Absorbed
  <2>3. b <= L
    BY <1>2, <1>4
  <2>4. SubSeq(src, b + 1, L) \in Seq(E) /\ Len(SubSeq(src, b + 1, L)) = L - b
    BY <1>2, <2>3, PartFacts
  <2>5. (s.buffer = <<>>) <=> (L = b)
    <3>1. s.buffer \in Seq(E) /\ Len(s.buffer) = L - b
      BY <2>2, <2>4
    <3>2. (s.buffer = <<>>) <=> (Len(s.buffer) = 0)
      BY <3>1, EmptySeq
    <3>3. QED
      BY <3>1, <3>2
  <2>6. CASE L # b
    <3>1. n = N
      <4>1. ~(n < N)
        <5>1. SUFFICES ASSUME n < N PROVE FALSE
          OBVIOUS
        <5>2. n + 1 \in Nat /\ n + 1 <= N /\ size \in Nat
          BY <1>3, <5>1
        <5>3. (n + 1) * size <= N * size
          BY <5>2, Products
        <5>4. QED
          BY <1>3, <1>4, <2>3, <2>6, <5>3
      <4>2. QED
        BY <1>3, <1>5, <4>1
    <3>2. Steps(pass, s.machine, s.pending) = f[N]
      <4>1. PICK c \in Nat, g \in Seq(Seq(E)) :
               /\ s.machine = f[c] /\ s.pending = g /\ c + Len(g) = N
               /\ \A i \in 1..Len(g) : g[i] = NthChunk(src, pass.size, c + i)
        <5>1. CASE N = 0
          <6>1. s.machine = f[0] /\ s.pending = <<>> /\ <<>> \in Seq(Seq(E)) /\ Len(<<>>) = 0
            BY <2>2, <5>1, EmptySeq DEF Runs
          <6>2. 0 + Len(<<>>) = N /\ \A i \in 1..Len(<<>>) : <<>>[i] = NthChunk(src, pass.size, 0 + i)
            BY <5>1, <6>1
          <6>3. QED
            BY <6>1, <6>2
        <5>2. CASE N # 0
          <6>1. PICK x \in Seq(E) : x = NthChunk(src, size, N)
            <7>1. N \in 1..FullChunks(src, size)
              BY <1>2, <5>2
            <7>2. QED
              BY <7>1, NthFacts
          <6>2. <<x>> \in Seq(Seq(E)) /\ Len(<<x>>) = 1 /\ <<x>>[1] = x
            OBVIOUS
          <6>3. N - 1 \in Nat /\ (N - 1) + 1 = N
            BY <5>2
          <6>4. s.machine = f[N - 1] /\ s.pending = <<x>>
            BY <2>2, <5>2, <6>1
          <6>5. \A i \in 1..Len(<<x>>) : <<x>>[i] = NthChunk(src, pass.size, (N - 1) + i)
            <7>1. \A i \in 1..Len(<<x>>) : i = 1
              BY <6>2
            <7>2. QED
              BY <1>1, <6>1, <6>2, <6>3, <7>1
          <6>6. QED
            BY <6>2, <6>3, <6>4, <6>5
        <5>3. QED
          BY <5>1, <5>2
      <4>2. c + Len(g) <= FullChunks(src, pass.size)
        BY <1>1, <1>2, <4>1
      <4>3. Steps(pass, f[c], g) = f[c + Len(g)]
        BY <4>1, <4>2, RunSteps
      <4>4. QED
        BY <4>1, <4>3
    <3>3. Finish(pass, s) = Step(pass, f[N], s.buffer, TRUE)
      BY <2>5, <2>6, <3>2 DEF Finish
    <3>4. QED
      BY <1>4, <1>6, <2>2, <3>1, <3>3
  <2>7. CASE L = b /\ N # 0
    <3>1. PICK e \in Nat : N = e + 1 /\ e = N - 1
      <4>1. N - 1 \in Nat /\ N = (N - 1) + 1
        BY <2>7
      <4>2. QED
        BY <4>1
    <3>2. Leads(e, L, size)
      <4>1. (e + 1) * size = e * size + size /\ e * size \in Nat
        <5>1. size \in Nat
          OBVIOUS
        <5>2. QED
          BY <5>1, Products
      <4>2. L = (e + 1) * size
        BY <1>4, <2>7, <3>1
      <4>3. QED
        BY <4>1, <4>2 DEF Leads
    <3>3. e = n
      <4>1. LeadingChunks(L, size) = e
        BY <3>2, LeadingIs
      <4>2. LeadingChunks(L, size) = n
        BY <1>1, <1>2, LeadingIs
      <4>3. QED
        BY <4>1, <4>2
    <3>4. s.pending[1] = SubSeq(src, a + 1, L)
      <4>1. NthChunk(src, size, N) = SubSeq(src, a + 1, b)
        BY <1>4, <3>1, <3>3 DEF NthChunk
      <4>2. QED
        BY <2>2, <2>7, <4>1
    <3>5. s.pending # <<>> /\ s.machine = f[n]
      <4>1. s.pending = <<NthChunk(src, size, N)>> /\ s.machine = f[N - 1]
        BY <2>2, <2>7
      <4>2. N - 1 = n
        BY <3>1, <3>3
      <4>3. QED
        BY <4>1, <4>2
    <3>6. Finish(pass, s) = Step(pass, f[n], SubSeq(src, a + 1, L), TRUE)
      BY <2>5, <2>7, <3>4, <3>5 DEF Finish
    <3>7. QED
      BY <1>6, <3>6
  <2>8. CASE L = b /\ N = 0
    <3>1. n = 0
      BY <1>3, <1>5, <2>8
    <3>2. b = 0 /\ a = 0 /\ f[0] = Machine
      BY <1>4, <2>8, <3>1, Products DEF Runs
    <3>3. SubSeq(src, a + 1, L) = <<>>
      BY <2>8, <3>2, SubSeqEmpty
    <3>4. Finish(pass, s) = Step(pass, Machine, <<>>, TRUE)
      BY <2>2, <2>5, <2>8 DEF Finish
    <3>5. QED
      BY <1>6, <3>1, <3>2, <3>3, <3>4
  <2>9. QED
    BY <2>6, <2>7, <2>8
<1>8. n \in 0..FullChunks(src, pass.size)
  BY <1>1, <1>2, <1>3, <1>5
<1>9. QED
  BY <1>1, <1>2, <1>4, <1>6, <1>7, <1>8

-----------------------------------------------------------------------------
(* Sealing and opening are such passes                                     *)

LEMMA SealingPasses ==
  ASSUME SizesAssumption
  PROVE  PassOver(Sealing(Key), Nat, Machines(Bytes))
<1>1. CHUNK_SIZE \in Nat \ {0} /\ Sealing(Key).size = CHUNK_SIZE
  BY DEF SizesAssumption, Sealing
<1>2. <<>> \in Seq(Bytes)
  BY EmptySeq
<1>3. Machine \in Machines(Bytes)
  BY <1>2 DEF Machine, Machines
<1>4. ASSUME NEW x \in Machines(Bytes), NEW c \in Seq(Nat), NEW final \in BOOLEAN
      PROVE  /\ Step(Sealing(Key), x, c, final) \in Machines(Bytes)
             /\ x.raised => Step(Sealing(Key), x, c, final).raised
  <2>1. Step(Sealing(Key), x, c, final) = SealChunk(Key, x, c, final)
    BY DEF Step, Sealing
  <2>2. \A counter \in Nat, t \in Seq(Nat), i \in Nat :
           CipherByte(Key, <<counter, final>>, t, i) \in Bytes
    BY DEF CipherByte, Bytes, ChunkNonces
  <2>3. SealChunk(Key, x, c, final) \in Machines(Bytes)
    BY <2>2, SealChunkOfOther
  <2>4. x.raised => SealChunk(Key, x, c, final) = Raise(x)
    BY DEF SealChunk
  <2>5. Raise(x).raised
    BY DEF Raise, Machines
  <2>6. QED
    BY <2>1, <2>3, <2>4, <2>5
<1>5. QED
  BY <1>1, <1>3, <1>4 DEF PassOver

LEMMA OpeningPasses ==
  ASSUME SizesAssumption
  PROVE  PassOver(Opening(Key), Bytes, Machines(Nat))
<1>1. SEALED_CHUNK_SIZE \in Nat \ {0} /\ Opening(Key).size = SEALED_CHUNK_SIZE
  BY DEF SizesAssumption, Opening, SEALED_CHUNK_SIZE
<1>2. <<>> \in Seq(Nat)
  BY EmptySeq
<1>3. Machine \in Machines(Nat)
  BY <1>2 DEF Machine, Machines
<1>4. ASSUME NEW x \in Machines(Nat), NEW c \in Seq(Bytes), NEW final \in BOOLEAN
      PROVE  /\ Step(Opening(Key), x, c, final) \in Machines(Nat)
             /\ x.raised => Step(Opening(Key), x, c, final).raised
  <2>1. Step(Opening(Key), x, c, final) = OpenChunk(Key, x, c, final)
    BY DEF Step, Opening
  <2>2. Raise(x) \in Machines(Nat) /\ Raise(x).raised
    BY DEF Raise, Machines
  <2>3. x.raised => OpenChunk(Key, x, c, final) = Raise(x)
    BY DEF OpenChunk
  <2>4. CASE OpenChunk(Key, x, c, final) = Raise(x)
    BY <2>1, <2>2, <2>4
  <2>5. CASE OpenChunk(Key, x, c, final) # Raise(x)
    <3>1. PICK nonce : nonce = ChunkNonce(x.counter, final)
      OBVIOUS
    <3>2. Authentic(Key, nonce, c) /\ OpenChunk(Key, x, c, final) = Emit(x, c[1].text, final)
      BY <2>5, <3>1 DEF OpenChunk
    <3>3. PICK t \in Seq(Nat) : t = c[1].text
      BY <3>2, AuthenticFacts
    <3>4. x.counter + 1 \in Nat /\ x.out \o t \in Seq(Nat)
      <4>1. x.counter \in Nat /\ x.out \in Seq(Nat)
        BY DEF Machines
      <4>2. QED
        BY <4>1, JoinFacts
    <3>5. Emit(x, t, final) \in Machines(Nat)
      BY <3>4 DEF Emit, Machines
    <3>6. ~x.raised
      BY <2>3, <2>5
    <3>7. QED
      BY <2>1, <3>2, <3>3, <3>5, <3>6
  <2>6. QED
    BY <2>4, <2>5
<1>5. QED
  BY <1>1, <1>3, <1>4 DEF PassOver

\* The end of a pass raises when any machine on the way has.
LEMMA WholeRaises ==
  ASSUME NEW pass, NEW E, NEW M, PassOver(pass, E, M), NEW src \in Seq(E),
         NEW f, Runs(f, pass, src), NEW n, Leads(n, Len(src), pass.size),
         NEW k \in Nat, k <= n, f[k].raised
  PROVE  Whole(pass, src).raised
<1>1. n \in 0..FullChunks(src, pass.size) /\ FullChunks(src, pass.size) \in Nat
      /\ Whole(pass, src) = Step(pass, f[n], SubSeq(src, n * pass.size + 1, Len(src)), TRUE)
  BY FinishIsWhole, NthFacts DEF PassOver
<1>2. k \in 0..FullChunks(src, pass.size)
  BY <1>1
<1>3. f[n].raised /\ f[n] \in M
  BY <1>1, <1>2, RunFacts
<1>4. SubSeq(src, n * pass.size + 1, Len(src)) \in Seq(E)
  <2>1. PICK a \in Nat : a = n * pass.size
    BY <1>1, Products DEF PassOver
  <2>2. PICK L \in Nat : L = Len(src)
    OBVIOUS
  <2>3. a <= L
    <3>1. CASE n = 0
      BY <2>1, <3>1, Products DEF PassOver
    <3>2. CASE n # 0
      BY <2>1, <2>2, <3>2 DEF Leads
    <3>3. QED
      BY <3>1, <3>2
  <2>4. SubSeq(src, a + 1, L) \in Seq(E)
    BY <2>2, <2>3, PartFacts
  <2>5. QED
    BY <2>1, <2>2, <2>4
<1>5. QED
  BY <1>1, <1>3, <1>4 DEF PassOver

-----------------------------------------------------------------------------
(* What is intact                                                          *)

\* A list that grows keeps its parts, and ends with what was added.
LEMMA GrownFacts ==
  ASSUME NEW S, NEW s \in Seq(S), NEW t \in Seq(S)
  PROVE  /\ \A a \in Nat, b \in Nat : a <= b /\ b <= Len(s) =>
              SubSeq(s \o t, a + 1, b) = SubSeq(s, a + 1, b)
         /\ SubSeq(s \o t, Len(s) + 1, Len(s) + Len(t)) = t
<1>1. PICK u \in Seq(S), m \in Nat, n \in Nat :
         /\ u = s \o t /\ m = Len(s) /\ n = Len(t) /\ Len(u) = m + n
         /\ (\A i \in 1..m : u[i] = s[i]) /\ \A i \in 1..n : u[m + i] = t[i]
  <2>1. Len(s) \in Nat /\ Len(t) \in Nat
    OBVIOUS
  <2>2. /\ s \o t \in Seq(S) /\ Len(s \o t) = Len(s) + Len(t)
        /\ \A i \in 1..Len(s) : (s \o t)[i] = s[i]
        /\ \A i \in 1..Len(t) : (s \o t)[Len(s) + i] = t[i]
    BY JoinFacts
  <2> WITNESS s \o t \in Seq(S), Len(s) \in Nat, Len(t) \in Nat
  <2>3. QED
    BY <2>2
<1>2. ASSUME NEW a \in Nat, NEW b \in Nat, a <= b, b <= m
      PROVE  SubSeq(u, a + 1, b) = SubSeq(s, a + 1, b)
  <2>1. b <= Len(u) /\ b <= Len(s)
    BY <1>1, <1>2
  <2>2. SubSeq(u, a + 1, b) \in Seq(S) /\ Len(SubSeq(u, a + 1, b)) = b - a
        /\ \A i \in 1..(b - a) : SubSeq(u, a + 1, b)[i] = u[a + i]
    BY <1>2, <2>1, PartFacts
  <2>3. SubSeq(s, a + 1, b) \in Seq(S) /\ Len(SubSeq(s, a + 1, b)) = b - a
        /\ \A i \in 1..(b - a) : SubSeq(s, a + 1, b)[i] = s[a + i]
    BY <1>2, <2>1, PartFacts
  <2>4. ASSUME NEW i \in 1..(b - a) PROVE u[a + i] = s[a + i]
    <3>1. a + i \in 1..m
      BY <1>2
    <3>2. QED
      BY <1>1, <3>1
  <2>5. QED
    BY <2>2, <2>3, <2>4, SeqEqual
<1>3. SubSeq(u, m + 1, m + n) = t
  <2>1. PICK e \in Nat : e = m + n /\ m <= e /\ e - m = n
    <3>1. m + n \in Nat /\ m <= m + n /\ (m + n) - m = n
      OBVIOUS
    <3>2. QED
      BY <3>1
  <2>2. SubSeq(u, m + 1, e) \in Seq(S) /\ Len(SubSeq(u, m + 1, e)) = e - m
        /\ \A i \in 1..(e - m) : SubSeq(u, m + 1, e)[i] = u[m + i]
    <3>1. m <= e /\ e <= Len(u)
      BY <1>1, <2>1
    <3>2. QED
      BY <3>1, PartFacts
  <2>3. SubSeq(u, m + 1, e) = t
    <3>1. Len(t) = n /\ Len(SubSeq(u, m + 1, e)) = n
          /\ \A i \in 1..n : SubSeq(u, m + 1, e)[i] = t[i]
      BY <1>1, <2>1, <2>2
    <3>2. QED
      BY <2>2, <3>1, SeqEqual
  <2>4. QED
    BY <2>1, <2>3
<1>4. QED
  BY <1>1, <1>2, <1>3

\* One encryption, by its size and its first byte.
Encrypted(e, counter, final, text) ==
  /\ e = Encrypt(Key, ChunkNonce(counter, final), text)
  /\ e \in Seq(Bytes) /\ Len(e) = Len(text) + TAG_SIZE /\ Len(e) \in Nat /\ e # <<>>
  /\ e[1].text = text /\ Authentic(Key, ChunkNonce(counter, final), e)

LEMMA EncryptionFacts ==
  ASSUME SizesAssumption, NEW counter \in Nat, NEW final \in BOOLEAN, NEW text \in Seq(Nat)
  PROVE  Encrypted(Encrypt(Key, ChunkNonce(counter, final), text), counter, final, text)
<1>1. PICK n \in Nat \ {0} : n = Len(text) + TAG_SIZE
  <2>1. Len(text) + TAG_SIZE \in Nat \ {0}
    BY DEF SizesAssumption
  <2>2. QED
    BY <2>1
<1>2. PICK e : e = Encrypt(Key, ChunkNonce(counter, final), text)
  OBVIOUS
<1>3. PICK nonce : nonce = ChunkNonce(counter, final)
  OBVIOUS
<1>4. e = [i \in 1..n |-> CipherByte(Key, nonce, text, i)]
  BY <1>1, <1>3, <1>2 DEF Encrypt
<1>5. \A i \in Nat : CipherByte(Key, nonce, text, i) \in Bytes
  BY <1>3 DEF CipherByte, ChunkNonce, Bytes, ChunkNonces
<1>6. e \in Seq(Bytes)
  BY <1>3, <1>5, <1>2, EncryptFacts
<1>7. Len(e) = n
  BY <1>4, <1>6
<1>8. 1 \in 1..n
  BY <1>1
<1>9. e[1] = CipherByte(Key, nonce, text, 1)
  BY <1>4, <1>8
<1>10. e[1].text = text
  BY <1>9 DEF CipherByte
<1>11. e # <<>>
  BY <1>1, <1>7
<1>12. Authentic(Key, ChunkNonce(counter, final), e)
  BY <1>10, <1>11, <1>2 DEF Authentic
<1>13. QED
  BY <1>1, <1>6, <1>7, <1>10, <1>11, <1>12, <1>2 DEF Encrypted

\* A chunk that is sealed without raising.
LEMMA SealChunkEmits ==
  ASSUME SizesAssumption, NEW m \in Machines(Bytes), NEW text \in Seq(Nat), NEW final \in BOOLEAN,
         ~SealChunk(Key, m, text, final).raised
  PROVE  /\ ~m.raised /\ ~m.finished /\ m.counter <= MAX_COUNTER
         /\ (final => Len(text) <= CHUNK_SIZE) /\ (~final => Len(text) = CHUNK_SIZE)
         /\ ~(final /\ text = <<>> /\ m.counter # 0)
         /\ SealChunk(Key, m, text, final)
              = Emit(m, Encrypt(Key, ChunkNonce(m.counter, final), text), final)
<1>1. Raise(m).raised
  BY DEF Raise, Machines
<1>2. SealChunk(Key, m, text, final) # Raise(m)
  BY <1>1
<1>3. m.counter \in Nat /\ MAX_COUNTER \in Nat
  BY DEF Machines, SizesAssumption
<1>4. QED
  BY <1>2, <1>3 DEF SealChunk

\* Opening the encryption that a machine is to open next.
LEMMA OpenChunkEmits ==
  ASSUME SizesAssumption, NEW m \in Machines(Nat), NEW text \in Seq(Nat), NEW final \in BOOLEAN,
         ~m.raised, ~m.finished, m.counter <= MAX_COUNTER,
         final => Len(text) <= CHUNK_SIZE, ~final => Len(text) = CHUNK_SIZE,
         ~(final /\ text = <<>> /\ m.counter # 0),
         NEW e, e = Encrypt(Key, ChunkNonce(m.counter, final), text)
  PROVE  OpenChunk(Key, m, e, final) = Emit(m, text, final)
<1>1. m.counter \in Nat /\ MAX_COUNTER \in Nat /\ CHUNK_SIZE \in Nat /\ TAG_SIZE \in Nat
  BY DEF Machines, SizesAssumption
<1>2. /\ e \in Seq(Bytes) /\ Len(e) = Len(text) + TAG_SIZE /\ Len(e) \in Nat
      /\ e[1].text = text /\ Authentic(Key, ChunkNonce(m.counter, final), e)
  BY <1>1, EncryptionFacts DEF Encrypted
<1>3. IF final THEN Len(e) \in TAG_SIZE..SEALED_CHUNK_SIZE ELSE Len(e) = SEALED_CHUNK_SIZE
  <2>1. Len(text) \in Nat
    OBVIOUS
  <2>2. QED
    BY <1>1, <1>2, <2>1 DEF SEALED_CHUNK_SIZE
<1>4. QED
  BY <1>1, <1>2, <1>3 DEF OpenChunk

\* What sealing a text comes to when it does not raise: its chunks encrypted one
\* after the other, and the rest of it under the final flag.
SealedAs(text, W, n) ==
  /\ W \in Seq(Bytes) /\ Len(W) = n * SEALED_CHUNK_SIZE + ((Len(text) - n * CHUNK_SIZE) + TAG_SIZE)
  /\ n * CHUNK_SIZE <= Len(text)
  /\ \A i \in 1..n :
       /\ i - 1 <= MAX_COUNTER
       /\ NthChunk(W, SEALED_CHUNK_SIZE, i)
            = Encrypt(Key, ChunkNonce(i - 1, FALSE), NthChunk(text, CHUNK_SIZE, i))
  /\ n <= MAX_COUNTER
  /\ SubSeq(W, n * SEALED_CHUNK_SIZE + 1, Len(W))
       = Encrypt(Key, ChunkNonce(n, TRUE), SubSeq(text, n * CHUNK_SIZE + 1, Len(text)))

\* What the chunks sealed so far come to.
SealedUpTo(m, text, i) ==
  /\ m.counter = i /\ ~m.finished /\ Len(m.out) = i * SEALED_CHUNK_SIZE
  /\ \A j \in 1..i :
       /\ j - 1 <= MAX_COUNTER
       /\ NthChunk(m.out, SEALED_CHUNK_SIZE, j)
            = Encrypt(Key, ChunkNonce(j - 1, FALSE), NthChunk(text, CHUNK_SIZE, j))

LEMMA SealedUpToStep ==
  ASSUME SizesAssumption, NEW text \in Seq(Nat), NEW i \in Nat,
         i + 1 <= FullChunks(text, CHUNK_SIZE),
         NEW m \in Machines(Bytes), SealedUpTo(m, text, i),
         NEW m1, m1 = Step(Sealing(Key), m, NthChunk(text, CHUNK_SIZE, i + 1), FALSE), ~m1.raised
  PROVE  SealedUpTo(m1, text, i + 1)
<1> DEFINE S == SEALED_CHUNK_SIZE
<1>1. S \in Nat /\ CHUNK_SIZE \in Nat \ {0} /\ TAG_SIZE \in Nat /\ S = CHUNK_SIZE + TAG_SIZE
  BY DEF SizesAssumption, SEALED_CHUNK_SIZE
<1>2. PICK t \in Seq(Nat) : t = NthChunk(text, CHUNK_SIZE, i + 1) /\ Len(t) = CHUNK_SIZE
  <2>1. i + 1 \in 1..FullChunks(text, CHUNK_SIZE)
    BY <1>1, NthFacts
  <2>2. QED
    BY <1>1, <2>1, NthFacts
<1>3. m1 = SealChunk(Key, m, t, FALSE)
  BY <1>2 DEF Step, Sealing
<1>4. m.counter = i /\ m.out \in Seq(Bytes)
  BY DEF SealedUpTo, Machines
<1>5. PICK e : e = Encrypt(Key, ChunkNonce(i, FALSE), t)
  OBVIOUS
<1>6. e \in Seq(Bytes) /\ Len(e) = S
  <2>1. e \in Seq(Bytes) /\ Len(e) = Len(t) + TAG_SIZE
    <3>1. Encrypted(Encrypt(Key, ChunkNonce(i, FALSE), t), i, FALSE, t)
      BY EncryptionFacts
    <3>2. QED
      BY <1>5, <3>1 DEF Encrypted
  <2>2. QED
    BY <1>1, <1>2, <2>1
<1>7. i <= MAX_COUNTER /\ m1 = Emit(m, e, FALSE)
  BY <1>3, <1>4, <1>5, SealChunkEmits
<1>8. m1.counter = i + 1 /\ ~m1.finished /\ m1.out = m.out \o e
  <2>1. /\ Emit(m, e, FALSE).counter = m.counter + 1 /\ ~Emit(m, e, FALSE).finished
        /\ Emit(m, e, FALSE).out = m.out \o e
    BY DEF Emit
  <2>2. m1 = Emit(m, e, FALSE) /\ m.counter = i
    BY <1>4, <1>7
  <2>3. QED
    BY <2>1, <2>2, Zenon
<1>9. PICK o \in Seq(Bytes), a \in Nat : o = m.out /\ a = Len(o) /\ a = i * S /\ (i + 1) * S = a + S
  <2>1. Len(m.out) = i * S
    BY DEF SealedUpTo
  <2>2. i * S \in Nat /\ (i + 1) * S = i * S + S
    BY <1>1, Products
  <2>3. QED
    BY <1>4, <2>1, <2>2
<1>10. Len(m1.out) = (i + 1) * S
  <2>1. Len(o \o e) = Len(o) + Len(e)
    BY <1>6, <1>9, JoinFacts
  <2>2. QED
    BY <1>6, <1>8, <1>9, <2>1
<1>11. ASSUME NEW j \in 1..(i + 1)
       PROVE  /\ j - 1 <= MAX_COUNTER
              /\ NthChunk(m1.out, S, j)
                   = Encrypt(Key, ChunkNonce(j - 1, FALSE), NthChunk(text, CHUNK_SIZE, j))
  <2>1. CASE j = i + 1
    <3>1. j - 1 = i /\ j * S = a + S /\ (j - 1) * S = a
      BY <1>9, <2>1
    <3>2. NthChunk(m1.out, S, j) = SubSeq(o \o e, a + 1, a + S)
      BY <1>8, <1>9, <3>1 DEF NthChunk
    <3>3. SubSeq(o \o e, a + 1, a + S) = e
      <4>1. SubSeq(o \o e, Len(o) + 1, Len(o) + Len(e)) = e
        BY <1>6, GrownFacts
      <4>2. QED
        BY <1>6, <1>9, <4>1
    <3>4. QED
      BY <1>2, <1>5, <1>7, <2>1, <3>1, <3>2, <3>3
  <2>2. CASE j # i + 1
    <3>1. j \in 1..i
      BY <2>2
    <3>2. PICK c \in Nat, d \in Nat : c = (j - 1) * S /\ d = j * S /\ c <= d /\ d <= a
      <4>1. j - 1 \in Nat /\ j \in Nat /\ j - 1 <= j /\ j <= i
        BY <3>1
      <4>2. (j - 1) * S \in Nat /\ j * S \in Nat /\ (j - 1) * S <= j * S /\ j * S <= i * S
        BY <1>1, <4>1, Products
      <4>3. QED
        BY <1>9, <4>2
    <3>3. SubSeq(o \o e, c + 1, d) = SubSeq(o, c + 1, d)
      <4>1. \A x \in Nat, y \in Nat : x <= y /\ y <= Len(o) =>
              SubSeq(o \o e, x + 1, y) = SubSeq(o, x + 1, y)
        BY <1>6, GrownFacts
      <4>2. QED
        BY <1>9, <3>2, <4>1
    <3>4. NthChunk(m1.out, S, j) = NthChunk(m.out, S, j)
      BY <1>8, <1>9, <3>2, <3>3 DEF NthChunk
    <3>5. QED
      BY <3>1, <3>4 DEF SealedUpTo
  <2>3. QED
    BY <2>1, <2>2
<1>12. QED
  BY <1>8, <1>10, <1>11 DEF SealedUpTo

LEMMA SealedIs ==
  ASSUME SizesAssumption, NEW text \in Seq(Nat), ~StreamSeal(Key, text).raised,
         NEW n, Leads(n, Len(text), CHUNK_SIZE)
  PROVE  SealedAs(text, StreamSeal(Key, text).out, n)
<1> DEFINE S == SEALED_CHUNK_SIZE
           C == CHUNK_SIZE
           N == FullChunks(text, C)
           pass == Sealing(Key)
<1>1. S \in Nat /\ C \in Nat \ {0} /\ TAG_SIZE \in Nat /\ S = C + TAG_SIZE
  BY DEF SizesAssumption, SEALED_CHUNK_SIZE
<1>2. pass.size = C /\ PassOver(pass, Nat, Machines(Bytes))
  BY SealingPasses DEF Sealing
<1>3. PICK f : Runs(f, pass, text)
  BY <1>2, RunExists
<1>4. /\ n \in 0..N /\ N \in Nat
      /\ Whole(pass, text) = Step(pass, f[n], SubSeq(text, n * C + 1, Len(text)), TRUE)
  <2>1. Leads(n, Len(text), pass.size)
    BY <1>2
  <2>2. n \in 0..FullChunks(text, pass.size)
        /\ Whole(pass, text) = Step(pass, f[n], SubSeq(text, n * pass.size + 1, Len(text)), TRUE)
    BY <1>2, <1>3, <2>1, FinishIsWhole
  <2>3. N \in Nat
    BY <1>1, NthFacts
  <2>4. QED
    BY <1>2, <2>2, <2>3
<1> HIDE DEF N, pass
<1>5. ~Whole(pass, text).raised /\ StreamSeal(Key, text) = Whole(pass, text)
  BY DEF StreamSeal, pass
<1>6. ASSUME NEW i \in 0..n PROVE f[i] \in Machines(Bytes) /\ ~f[i].raised
  <2>1. i \in 0..FullChunks(text, pass.size)
    BY <1>2, <1>4 DEF N
  <2>2. f[i] \in Machines(Bytes)
    BY <1>2, <1>3, <2>1, RunFacts
  <2>3. i \in Nat /\ i <= n /\ Leads(n, Len(text), pass.size)
    BY <1>2, <1>4
  <2>4. QED
    BY <1>2, <1>3, <1>5, <2>2, <2>3, WholeRaises
<1> DEFINE T == {i \in Nat : i <= n => SealedUpTo(f[i], text, i)}
<1>7. 0 \in T
  <2>1. f[0] = Machine
    BY <1>3 DEF Runs
  <2>2. 0 * SEALED_CHUNK_SIZE = 0
    BY <1>1, Products
  <2>3. SealedUpTo(f[0], text, 0)
    BY <2>1, <2>2 DEF SealedUpTo, Machine
  <2>4. QED
    BY <2>3
<1>8. ASSUME NEW i \in Nat, i \in T
      PROVE  i + 1 \in T
  <2>1. SUFFICES ASSUME i + 1 <= n PROVE SealedUpTo(f[i + 1], text, i + 1)
    OBVIOUS
  <2>2. PICK k \in 1..N : k = i + 1 /\ k - 1 = i
    BY <1>4, <2>1
  <2>3. i \in 0..n /\ k \in 0..n /\ i + 1 <= N
    BY <1>4, <2>1, <2>2
  <2>4. SealedUpTo(f[i], text, i)
    BY <1>4, <1>8, <2>1
  <2>5. f[k] = Step(pass, f[i], NthChunk(text, C, k), FALSE)
    BY <1>2, <1>3, <2>2 DEF Runs, N
  <2>6. f[i] \in Machines(Bytes) /\ ~f[k].raised
    BY <1>6, <2>3
  <2>7. i + 1 <= FullChunks(text, CHUNK_SIZE)
        /\ f[k] = Step(Sealing(Key), f[i], NthChunk(text, CHUNK_SIZE, i + 1), FALSE)
    BY <2>2, <2>3, <2>5 DEF N, pass
  <2>8. SealedUpTo(f[k], text, i + 1)
    BY <2>4, <2>6, <2>7, SealedUpToStep
  <2>9. QED
    BY <2>2, <2>8
<1>9. SealedUpTo(f[n], text, n) /\ n \in Nat
  <2> HIDE DEF T
  <2>1. \A i \in Nat : i \in T
    BY <1>7, <1>8, SetInduction
  <2>2. n \in Nat
    BY <1>4
  <2>3. QED
    BY <2>1, <2>2 DEF T
<1>10. PICK a \in Nat, L \in Nat, b \in Nat : a = n * C /\ L = Len(text) /\ a <= L /\ b = n * S
  <2>1. n * C \in Nat /\ n * S \in Nat
    BY <1>1, <1>9, Products
  <2>2. n * C <= Len(text)
    <3>1. n = 0 => n * C = 0
      BY <1>1, Products
    <3>2. QED
      BY <1>1, <2>1, <3>1 DEF Leads
  <2>3. QED
    BY <2>1, <2>2
<1>11. PICK t \in Seq(Nat) : t = SubSeq(text, a + 1, L) /\ Len(t) = L - a
  <2>1. a <= L /\ L <= Len(text)
    BY <1>10
  <2>2. SubSeq(text, a + 1, L) \in Seq(Nat) /\ Len(SubSeq(text, a + 1, L)) = L - a
    BY <2>1, PartFacts
  <2>3. QED
    BY <2>2
<1>12. PICK m \in Machines(Bytes) : m = f[n] /\ ~m.raised
  <2>1. n \in 0..n
    BY <1>9
  <2>2. QED
    BY <1>6, <2>1
<1>13. Whole(pass, text) = SealChunk(Key, m, t, TRUE)
  <2>1. Whole(pass, text) = Step(pass, m, t, TRUE)
    BY <1>4, <1>10, <1>11, <1>12
  <2>2. QED
    BY <2>1 DEF Step, Sealing, pass
<1>14. PICK e \in Seq(Bytes) : e = Encrypt(Key, ChunkNonce(n, TRUE), t) /\ Len(e) = Len(t) + TAG_SIZE
  <2>1. Encrypted(Encrypt(Key, ChunkNonce(n, TRUE), t), n, TRUE, t)
    BY <1>9, EncryptionFacts
  <2>2. QED
    BY <2>1 DEF Encrypted
<1>15. m.counter = n /\ n <= MAX_COUNTER /\ Whole(pass, text) = Emit(m, e, TRUE)
  <2>1. m.counter = n
    BY <1>9, <1>12 DEF SealedUpTo
  <2>2. ~SealChunk(Key, m, t, TRUE).raised
    BY <1>5, <1>13
  <2>3. QED
    BY <1>13, <1>14, <2>1, <2>2, SealChunkEmits
<1>16. PICK o \in Seq(Bytes), W \in Seq(Bytes) :
         o = m.out /\ W = o \o e /\ W = StreamSeal(Key, text).out /\ Len(o) = b
  <2>1. m.out \in Seq(Bytes)
    BY DEF Machines
  <2>2. Len(m.out) = b
    BY <1>9, <1>10, <1>12 DEF SealedUpTo
  <2>3. m.out \o e \in Seq(Bytes)
    BY <2>1, JoinFacts
  <2>4. Emit(m, e, TRUE).out = m.out \o e
    BY DEF Emit
  <2>5. QED
    BY <1>5, <1>15, <2>1, <2>2, <2>3, <2>4
<1>17. W \in Seq(Bytes) /\ Len(W) = b + ((L - a) + TAG_SIZE)
  <2>1. W \in Seq(Bytes) /\ Len(W) = Len(o) + Len(e)
    BY <1>16, JoinFacts
  <2>2. QED
    BY <1>11, <1>14, <1>16, <2>1
<1>18. SubSeq(W, b + 1, Len(W)) = e
  <2>1. SubSeq(o \o e, Len(o) + 1, Len(o) + Len(e)) = e /\ Len(o \o e) = Len(o) + Len(e)
    BY GrownFacts, JoinFacts
  <2>2. QED
    BY <1>16, <2>1
<1>19. ASSUME NEW j \in 1..n
       PROVE  /\ j - 1 <= MAX_COUNTER
              /\ NthChunk(W, S, j)
                   = Encrypt(Key, ChunkNonce(j - 1, FALSE), NthChunk(text, CHUNK_SIZE, j))
  <2>1. PICK c \in Nat, d \in Nat : c = (j - 1) * S /\ d = j * S /\ c <= d /\ d <= b
    <3>1. j - 1 \in Nat /\ j \in Nat /\ j - 1 <= j /\ j <= n
      BY <1>9
    <3>2. (j - 1) * S \in Nat /\ j * S \in Nat /\ (j - 1) * S <= j * S /\ j * S <= n * S
      BY <1>1, <1>9, <3>1, Products
    <3>3. QED
      BY <1>10, <3>2
  <2>2. SubSeq(o \o e, c + 1, d) = SubSeq(o, c + 1, d)
    <3>1. \A x \in Nat, y \in Nat : x <= y /\ y <= Len(o) =>
            SubSeq(o \o e, x + 1, y) = SubSeq(o, x + 1, y)
      BY GrownFacts
    <3>2. QED
      BY <1>16, <2>1, <3>1
  <2>3. NthChunk(W, S, j) = NthChunk(m.out, S, j)
    BY <1>16, <2>1, <2>2 DEF NthChunk
  <2>4. QED
    BY <1>9, <1>12, <2>3 DEF SealedUpTo
<1>20. SealedAs(text, W, n)
  BY <1>10, <1>11, <1>14, <1>15, <1>17, <1>18, <1>19 DEF SealedAs
<1>21. QED
  BY <1>16, <1>20

\* An opener that goes through such a list finds every chunk in its place.
OpenedUpTo(m, i) == m.counter = i /\ ~m.finished /\ ~m.raised

\* What is sealed has the length that was predicted, and opens.
LEMMA SealedOpens ==
  ASSUME SizesAssumption, NEW text \in Seq(Nat), ~StreamSeal(Key, text).raised
  PROVE  /\ Len(StreamSeal(Key, text).out) = StreamSealedLength(Len(text))
         /\ StreamSeal(Key, text).out \in Seq(Bytes)
         /\ ~StreamOpen(Key, StreamSeal(Key, text).out).raised
<1> DEFINE S == SEALED_CHUNK_SIZE
           C == CHUNK_SIZE
           pass == Opening(Key)
<1>1. S \in Nat \ {0} /\ S \in Nat /\ C \in Nat \ {0} /\ C \in Nat /\ TAG_SIZE \in Nat \ {0}
      /\ S = C + TAG_SIZE
  BY DEF SizesAssumption, SEALED_CHUNK_SIZE
<1>2. PICK n, W : n = LeadingChunks(Len(text), C) /\ W = StreamSeal(Key, text).out
  OBVIOUS
<1>3. PICK L \in Nat : L = Len(text)
  OBVIOUS
<1>4. Leads(n, L, C) /\ n \in Nat
  <2>1. Leads(n, L, C)
    BY <1>1, <1>2, <1>3, LeadingLeads
  <2>2. QED
    BY <2>1 DEF Leads
<1>5. SealedAs(text, W, n)
  BY <1>2, <1>3, <1>4, SealedIs
<1>6. PICK a \in Nat, b \in Nat, c \in Nat :
         /\ a = n * C /\ b = n * S /\ c = n * TAG_SIZE /\ b = a + c
         /\ (n + 1) * C = a + C /\ (n + 1) * S = b + S
  <2>1. n * C \in Nat /\ n * S \in Nat /\ n * TAG_SIZE \in Nat
        /\ (n + 1) * C = n * C + C /\ (n + 1) * S = n * S + S
    BY <1>1, <1>4, Products
  <2>2. n * S = n * C + n * TAG_SIZE
    BY <1>1, <1>4
  <2>3. QED
    BY <2>1, <2>2
<1>7. /\ a <= L /\ L <= a + C /\ (n = 0 \/ a < L) /\ (n = 0 => a = 0 /\ b = 0)
  <2>1. L <= (n + 1) * C /\ (n = 0 \/ n * C < L)
    BY <1>4 DEF Leads
  <2>2. n = 0 => a = 0 /\ b = 0
    BY <1>1, <1>6, Products
  <2>3. QED
    BY <1>6, <2>1, <2>2
<1>8. W \in Seq(Bytes) /\ Len(W) = b + ((L - a) + TAG_SIZE) /\ n <= MAX_COUNTER
  BY <1>3, <1>5, <1>6 DEF SealedAs
<1>9. Len(W) <= b + S /\ b < Len(W) /\ ~(Len(W) < TAG_SIZE)
  <2>1. PICK w \in Nat, size \in Nat, tag \in Nat \ {0} :
           w = Len(W) /\ size = C /\ tag = TAG_SIZE /\ S = size + tag
    <3>1. Len(W) \in Nat
      BY <1>8
    <3>2. QED
      BY <1>1, <3>1
  <2>2. w = b + ((L - a) + tag) /\ a <= L /\ L <= a + size
    BY <1>7, <1>8, <2>1
  <2>3. w <= b + (size + tag) /\ b < w /\ ~(w < tag)
    BY <2>1, <2>2
  <2>4. QED
    BY <2>1, <2>3
<1>10. Len(W) = StreamSealedLength(L)
  <2>1. PICK count \in Nat : count = (L + C - 1) \div C /\ (count = 0 <=> L = 0)
                             /\ (L # 0 => count = n + 1)
    <3>1. L + C - 1 \in Nat
      BY <1>1
    <3>2. CASE L = 0
      <4>1. 0 * C <= L + C - 1 /\ L + C - 1 < 0 * C + C
        BY <1>1, <3>2, Products
      <4>2. (L + C - 1) \div C = 0
        BY <1>1, <3>1, <4>1, QuotientIs
      <4>3. QED
        BY <3>2, <4>2
    <3>3. CASE L # 0
      <4>1. PICK x \in Nat, q \in Nat : x = L + C - 1 /\ q = n + 1
        BY <1>4, <3>1
      <4>2. a < L
        BY <1>7, <3>3
      <4>3. a + C <= x /\ x < (a + C) + C
        BY <1>1, <1>7, <4>1, <4>2
      <4>4. q * C <= x /\ x < q * C + C
        BY <1>6, <4>1, <4>3
      <4>5. x \div C = q
        BY <1>1, <4>4, QuotientIs
      <4>6. (L + C - 1) \div C = n + 1
        BY <4>1, <4>5
      <4>7. QED
        BY <1>4, <3>3, <4>6
    <3>4. QED
      BY <3>2, <3>3
  <2>2. (n + 1) * TAG_SIZE = c + TAG_SIZE /\ 1 * TAG_SIZE = TAG_SIZE
    BY <1>1, <1>4, <1>6, Products
  <2>3. StreamSealedLength(L) = L + (IF count = 0 THEN 1 ELSE count) * TAG_SIZE
    BY <2>1 DEF StreamSealedLength
  <2>4. CASE L = 0
    <3>1. StreamSealedLength(L) = L + 1 * TAG_SIZE
      BY <2>1, <2>3, <2>4
    <3>2. n = 0
      BY <1>7, <2>4
    <3>3. QED
      BY <1>1, <1>7, <1>8, <2>2, <2>4, <3>1, <3>2
  <2>5. CASE L # 0
    <3>1. StreamSealedLength(L) = L + (n + 1) * TAG_SIZE
      BY <2>1, <2>3, <2>5
    <3>2. QED
      BY <1>1, <1>6, <1>7, <1>8, <2>2, <3>1
  <2>6. QED
    BY <2>4, <2>5
<1>11. PICK t \in Seq(Nat) : t = SubSeq(text, a + 1, L) /\ Len(t) = L - a
  <2>1. SubSeq(text, a + 1, L) \in Seq(Nat) /\ Len(SubSeq(text, a + 1, L)) = L - a
    BY <1>3, <1>7, PartFacts
  <2>2. QED
    BY <2>1
<1>12. Leads(n, Len(W), S)
  <2>1. Len(W) <= (n + 1) * S
    BY <1>6, <1>9
  <2>2. n * S < Len(W)
    BY <1>6, <1>9
  <2>3. QED
    BY <1>4, <2>1, <2>2 DEF Leads
<1>13. PassOver(pass, Bytes, Machines(Nat)) /\ pass.size = S
  BY OpeningPasses DEF Opening
<1>14. PICK g : Runs(g, pass, W)
  BY <1>8, <1>13, RunExists
<1>15. /\ n \in 0..FullChunks(W, S) /\ FullChunks(W, S) \in Nat
       /\ Whole(pass, W) = Step(pass, g[n], SubSeq(W, b + 1, Len(W)), TRUE)
  <2>1. Leads(n, Len(W), pass.size)
    BY <1>12, <1>13
  <2>2. n \in 0..FullChunks(W, pass.size)
        /\ Whole(pass, W) = Step(pass, g[n], SubSeq(W, n * pass.size + 1, Len(W)), TRUE)
    BY <1>8, <1>13, <1>14, <2>1, FinishIsWhole
  <2>3. QED
    BY <1>1, <1>6, <1>8, <1>13, <2>2, NthFacts
<1> HIDE DEF pass
<1>16. \A i \in 0..n : g[i] \in Machines(Nat)
  BY <1>8, <1>13, <1>14, <1>15, RunFacts
<1> DEFINE T == {i \in Nat : i <= n => OpenedUpTo(g[i], i)}
<1>17. 0 \in T
  <2>1. g[0] = Machine
    BY <1>14 DEF Runs
  <2>2. QED
    BY <2>1 DEF OpenedUpTo, Machine
<1>18. ASSUME NEW i \in Nat, i \in T
       PROVE  i + 1 \in T
  <2>1. SUFFICES ASSUME i + 1 <= n PROVE OpenedUpTo(g[i + 1], i + 1)
    OBVIOUS
  <2>2. PICK k \in 1..n : k = i + 1 /\ k - 1 = i
    BY <1>4, <2>1
  <2>3. i \in 0..n /\ k \in 1..FullChunks(W, S)
    BY <1>4, <1>15, <2>1, <2>2
  <2>4. PICK m \in Machines(Nat) : m = g[i] /\ OpenedUpTo(m, i)
    BY <1>4, <1>16, <1>18, <2>1, <2>3
  <2>5. PICK e : e = NthChunk(W, S, k)
    OBVIOUS
  <2>6. PICK u \in Seq(Nat) : u = NthChunk(text, C, k) /\ Len(u) = C
    <3>1. k \in 1..FullChunks(text, C)
      <4>1. FullChunks(text, C) \in Nat /\ Len(text) < FullChunks(text, C) * C + C
        BY <1>1, NthFacts
      <4>2. ~(FullChunks(text, C) < n)
        <5>1. SUFFICES ASSUME FullChunks(text, C) < n PROVE FALSE
          OBVIOUS
        <5>2. PICK F \in Nat : F = FullChunks(text, C) /\ F + 1 <= n /\ L < F * C + C
          BY <1>3, <1>4, <4>1, <5>1
        <5>3. PICK q \in Nat : q = F + 1 /\ q <= n
          BY <5>2
        <5>4. q * C <= n * C /\ (F + 1) * C = F * C + C /\ F * C \in Nat
          BY <1>1, <1>4, <5>3, Products
        <5>5. PICK x \in Nat, size \in Nat : x = F * C /\ size = C /\ x + size <= a
          BY <1>1, <1>6, <5>3, <5>4
        <5>6. L < x + size /\ (n = 0 \/ a < L)
          BY <1>7, <5>2, <5>5
        <5>7. n # 0
          BY <5>3
        <5>8. QED
          BY <5>5, <5>6, <5>7
      <4>3. QED
        BY <1>4, <4>1, <4>2
    <3>2. QED
      BY <1>1, <3>1, NthFacts
  <2>7. k - 1 <= MAX_COUNTER /\ e = Encrypt(Key, ChunkNonce(k - 1, FALSE), u)
    BY <1>5, <2>5, <2>6 DEF SealedAs
  <2>8. m.counter = i /\ ~m.finished /\ ~m.raised
    BY <2>4 DEF OpenedUpTo
  <2>9. OpenChunk(Key, m, e, FALSE) = Emit(m, u, FALSE)
    <3>1. m.counter <= MAX_COUNTER /\ e = Encrypt(Key, ChunkNonce(m.counter, FALSE), u)
      BY <2>2, <2>7, <2>8
    <3>2. QED
      BY <2>6, <2>8, <3>1, OpenChunkEmits
  <2>10. g[k] = Step(pass, m, e, FALSE)
    BY <1>13, <1>14, <2>2, <2>3, <2>4, <2>5 DEF Runs
  <2>11. g[k] = Emit(m, u, FALSE)
    BY <2>9, <2>10 DEF Step, Opening, pass
  <2>12. OpenedUpTo(g[k], i + 1)
    <3>1. Emit(m, u, FALSE).counter = m.counter + 1 /\ ~Emit(m, u, FALSE).finished
          /\ ~Emit(m, u, FALSE).raised
      BY DEF Emit
    <3>2. QED
      BY <2>8, <2>11, <3>1 DEF OpenedUpTo
  <2>13. QED
    BY <2>2, <2>12
<1>19. OpenedUpTo(g[n], n)
  <2> HIDE DEF T
  <2>1. \A i \in Nat : i \in T
    BY <1>17, <1>18, SetInduction
  <2>2. QED
    BY <1>4, <2>1 DEF T
<1>20. PICK m \in Machines(Nat) : m = g[n]
  BY <1>4, <1>16
<1>21. m.counter = n /\ ~m.finished /\ ~m.raised
  BY <1>19, <1>20 DEF OpenedUpTo
<1>22. PICK e : e = SubSeq(W, b + 1, Len(W)) /\ e = Encrypt(Key, ChunkNonce(n, TRUE), t)
  BY <1>3, <1>5, <1>6, <1>11 DEF SealedAs
<1>23. OpenChunk(Key, m, e, TRUE) = Emit(m, t, TRUE)
  <2>1. Len(t) <= C /\ ~(t = <<>> /\ m.counter # 0)
    <3>1. t = <<>> => Len(t) = 0
      OBVIOUS
    <3>2. QED
      BY <1>1, <1>7, <1>11, <1>21, <3>1
  <2>2. m.counter <= MAX_COUNTER /\ e = Encrypt(Key, ChunkNonce(m.counter, TRUE), t)
    BY <1>8, <1>21, <1>22
  <2>3. QED
    BY <1>21, <2>1, <2>2, OpenChunkEmits
<1>24. Whole(pass, W) = Emit(m, t, TRUE)
  BY <1>15, <1>20, <1>22, <1>23 DEF Step, Opening, pass
<1>25. ~Whole(pass, W).raised
  BY <1>24 DEF Emit
<1>26. ~(Len(W) < TAG_SIZE)
  BY <1>9
<1>27. ~StreamOpen(Key, W).raised
  BY <1>25, <1>26 DEF StreamOpen, pass
<1>28. QED
  BY <1>2, <1>3, <1>8, <1>10, <1>27

-----------------------------------------------------------------------------
(* The invariant of the pieces                                             *)

\* The part of a blob that is the stream, and what stands before it.
HeadLength == IF path = "slots" THEN 0 ELSE COMMITMENT_LENGTH
Body == IF path = "slots" THEN blob ELSE Rest(blob, COMMITMENT_LENGTH)

\* The blob that the buffered form seals.
IntactBlob(b) ==
  ~StreamSeal(Key, plain).raised /\ b = BlobHeader \o StreamSeal(Key, plain).out

\* A sealer that has read n bytes of the plaintext, in whatever pieces.
SealHeld(s, n) ==
  n <= Len(plain) /\ \E f : Runs(f, Sealing(Key), plain) /\ Absorbed(Sealing(Key), plain, f, s, n)

\* An opener that has read n bytes of the body and has the next ones, up to e, in
\* its lookahead.
OpenAt(s, a, upTo, f, n, e) ==
  /\ upTo = HeadLength + e /\ n <= e /\ e <= Len(Body)
  /\ Runs(f, Opening(Key), Body) /\ Absorbed(Opening(Key), Body, f, s, n)
  /\ a = SubSeq(Body, n + 1, e)
OpenHeld(s, a, upTo) == \E f : \E n \in Nat, e \in Nat : OpenAt(s, a, upTo, f, n, e)

\* A blob that has its header.
HeaderRead ==
  path = "slots" \/ /\ Len(blob) >= COMMITMENT_LENGTH + TAG_SIZE
                    /\ SubSeq(blob, 1, COMMITMENT_LENGTH) = Commitment

CutInv ==
  /\ path \in {"slots", "passphrase"} /\ faults \in Nat
  /\ pc = "sealing" => SealHeld(stream, fed)
  /\ pc = "stored" => fed = 0
  /\ pc \in {"stored", "reading", "opening"} \/ outcome = "rejected" =>
       (faults = 0 => IntactBlob(blob))
  /\ pc = "reading" => path = "passphrase" /\ fed <= Len(blob) /\ ahead = SubSeq(blob, 1, fed)
  /\ pc = "opening" => HeaderRead /\ OpenHeld(stream, ahead, fed)
  /\ outcome = "refused" => StreamSeal(Key, plain).raised
  /\ outcome = "matched" => ~BufferedOpen.raised /\ stream.machine.out = BufferedOpen.out
  /\ outcome = "rejected" => BufferedOpen.raised

\* What CutInv says of the next state.
CutInvNext ==
  /\ path' = path /\ plain' = plain /\ faults' \in Nat
  /\ pc' = "sealing" => SealHeld(stream', fed')
  /\ pc' = "stored" => fed' = 0
  /\ pc' \in {"stored", "reading", "opening"} \/ outcome' = "rejected" =>
       (faults' = 0 => IntactBlob(blob'))
  /\ pc' \in {"reading", "opening"} \/ outcome' \in {"matched", "rejected"} => blob' = blob
  /\ pc' = "reading" => path = "passphrase" /\ fed' <= Len(blob) /\ ahead' = SubSeq(blob, 1, fed')
  /\ pc' = "opening" => HeaderRead /\ OpenHeld(stream', ahead', fed')
  /\ outcome' = "refused" => StreamSeal(Key, plain).raised
  /\ outcome' = "matched" => ~BufferedOpen.raised /\ stream'.machine.out = BufferedOpen.out
  /\ outcome' = "rejected" => BufferedOpen.raised

LEMMA CutNextHolds ==
  ASSUME CutInv, CutInvNext
  PROVE  CutInv'
<1>1. path' = path /\ plain' = plain
  BY DEF CutInvNext
<1>2. ASSUME blob' = blob
      PROVE  /\ Body' = Body /\ (HeaderRead' <=> HeaderRead)
             /\ BufferedOpen' = BufferedOpen
             /\ (OpenHeld(stream, ahead, fed)' <=> OpenHeld(stream', ahead', fed'))
  <2>1. Body' = Body /\ HeadLength' = HeadLength
    BY <1>1, <1>2 DEF Body, HeadLength
  <2>2. BufferedOpen' = BufferedOpen /\ (HeaderRead' <=> HeaderRead)
    BY <1>1, <1>2 DEF BufferedOpen, HeaderRead
  <2>3. OpenHeld(stream, ahead, fed)' <=> OpenHeld(stream', ahead', fed')
    BY <2>1 DEF OpenHeld, OpenAt
  <2>4. QED
    BY <2>1, <2>2, <2>3
<1>3. SealHeld(stream, fed)' <=> SealHeld(stream', fed')
  BY <1>1 DEF SealHeld
<1>4. IntactBlob(blob)' <=> IntactBlob(blob')
  BY <1>1 DEF IntactBlob, BlobHeader
<1>5. StreamSeal(Key, plain)' = StreamSeal(Key, plain)
  BY <1>1
<1>6. path' \in {"slots", "passphrase"} /\ faults' \in Nat
  BY DEF CutInv, CutInvNext
<1>7. /\ pc' = "sealing" => SealHeld(stream, fed)'
      /\ pc' = "stored" => fed' = 0
      /\ pc' \in {"stored", "reading", "opening"} \/ outcome' = "rejected" =>
           (faults' = 0 => IntactBlob(blob)')
      /\ pc' = "reading" =>
           path' = "passphrase" /\ fed' <= Len(blob') /\ ahead' = SubSeq(blob', 1, fed')
      /\ outcome' = "refused" => StreamSeal(Key, plain)'.raised
  BY <1>1, <1>3, <1>4, <1>5 DEF CutInvNext
<1>8. /\ pc' = "opening" => HeaderRead' /\ OpenHeld(stream, ahead, fed)'
      /\ outcome' = "matched" => ~BufferedOpen'.raised /\ stream'.machine.out = BufferedOpen'.out
      /\ outcome' = "rejected" => BufferedOpen'.raised
  BY <1>2 DEF CutInvNext
<1>9. QED
  BY <1>6, <1>7, <1>8 DEF CutInv

\* The two ways to say that a buffer shorter than a tag does not open.
LEMMA WholeOpens ==
  ASSUME SizesAssumption, NEW b \in Seq(Bytes)
  PROVE  /\ StreamOpen(Key, b).raised <=> Whole(Opening(Key), b).raised
         /\ ~StreamOpen(Key, b).raised => StreamOpen(Key, b) = Whole(Opening(Key), b)
<1> DEFINE pass == Opening(Key)
<1>1. pass.size = SEALED_CHUNK_SIZE /\ SEALED_CHUNK_SIZE \in Nat \ {0} /\ TAG_SIZE \in Nat
      /\ TAG_SIZE <= SEALED_CHUNK_SIZE
  BY DEF Opening, SEALED_CHUNK_SIZE, SizesAssumption
<1>2. PassOver(pass, Bytes, Machines(Nat))
  BY OpeningPasses
<1>3. Len(b) \in Nat
  OBVIOUS
<1>4. ASSUME Len(b) < TAG_SIZE PROVE Whole(pass, b).raised
  <2>1. Leads(0, Len(b), pass.size)
    <3>1. (0 + 1) * pass.size = pass.size
      BY <1>1
    <3>2. QED
      BY <1>1, <1>3, <1>4, <3>1 DEF Leads
  <2>2. PICK f : Runs(f, pass, b)
    BY <1>2, RunExists
  <2>3. Whole(pass, b) = Step(pass, f[0], SubSeq(b, 0 * pass.size + 1, Len(b)), TRUE)
    BY <1>2, <2>1, <2>2, FinishIsWhole
  <2>4. 0 * pass.size + 1 = 1 /\ SubSeq(b, 1, Len(b)) = b /\ f[0] = Machine
    BY <1>1, <2>2, SubSeqFull DEF Runs
  <2>5. Whole(pass, b) = OpenChunk(Key, Machine, b, TRUE)
    BY <2>3, <2>4 DEF Step, Opening
  <2>6. ~(Len(b) \in TAG_SIZE..SEALED_CHUNK_SIZE)
    BY <1>1, <1>3, <1>4
  <2>7. Whole(pass, b) = Raise(Machine)
    BY <2>5, <2>6 DEF OpenChunk
  <2>8. QED
    BY <2>7 DEF Raise, Machine
<1>5. Raise(Machine).raised
  BY DEF Raise, Machine
<1> HIDE DEF pass
<1>6. QED
  BY <1>4, <1>5 DEF StreamOpen, pass

\* A sealer or opener that has raised on the way raises at the end.
LEMMA HeldRaises ==
  ASSUME NEW pass, NEW E, NEW M, PassOver(pass, E, M), NEW src \in Seq(E),
         NEW f, Runs(f, pass, src), NEW s, NEW n \in Nat, n <= Len(src),
         Absorbed(pass, src, f, s, n), s.machine.raised
  PROVE  Whole(pass, src).raised
<1>1. pass.size \in Nat \ {0} /\ Len(src) \in Nat
  BY DEF PassOver
<1>2. PICK k \in Nat, h \in {0, 1}, a \in Nat : AbsorbedAt(pass, src, f, s, n, k, h, a)
  BY AbsorbedFacts
<1>3. PICK lead : Leads(lead, Len(src), pass.size)
  BY <1>1, LeadingLeads
<1>4. lead \in Nat
  BY <1>3 DEF Leads
<1>5. PICK i \in Nat : i = k - h /\ (k = 0 => i = 0) /\ (k # 0 => k = i + 1)
  <2>1. CASE k = 0
    BY <1>2, <2>1 DEF AbsorbedAt
  <2>2. CASE k # 0
    BY <1>2, <2>2 DEF AbsorbedAt
  <2>3. QED
    BY <2>1, <2>2
<1>6. s.machine = f[i]
  BY <1>2, <1>5 DEF AbsorbedAt
<1>7. i <= lead
  <2>1. SUFFICES ASSUME lead + 1 <= i PROVE FALSE
    BY <1>4, <1>5
  <2>2. k = i + 1
    BY <1>4, <1>5, <2>1
  <2>3. PICK x \in Nat, y \in Nat, z \in Nat :
          x = (lead + 1) * pass.size /\ y = i * pass.size /\ z = k * pass.size /\ x <= y /\ z = y + pass.size
    <3>1. lead + 1 \in Nat
      BY <1>4
    <3>2. (lead + 1) * pass.size \in Nat /\ i * pass.size \in Nat /\ (i + 1) * pass.size \in Nat
          /\ (lead + 1) * pass.size <= i * pass.size /\ (i + 1) * pass.size = i * pass.size + pass.size
      BY <1>1, <1>5, <2>1, <3>1, Products
    <3>3. QED
      BY <2>2, <3>2
  <2>4. Len(src) <= x /\ z <= n
    BY <1>2, <1>3, <2>3 DEF Leads, AbsorbedAt
  <2>5. QED
    BY <1>1, <2>3, <2>4
<1>8. QED
  BY <1>3, <1>5, <1>6, <1>7, WholeRaises

\* The body is the blob without its header.
LEMMA BodyFacts ==
  ASSUME SizesAssumption, blob \in Seq(Bytes), HeaderRead
  PROVE  /\ HeadLength \in Nat /\ Body \in Seq(Bytes) /\ Len(blob) = HeadLength + Len(Body)
         /\ \A e \in Nat, g \in Nat : e <= g /\ g <= Len(Body) =>
              SubSeq(Body, e + 1, g) = SubSeq(blob, HeadLength + e + 1, HeadLength + g)
         /\ BufferedOpen = StreamOpen(Key, Body)
<1>1. CASE path = "slots"
  <2>1. HeadLength = 0 /\ Body = blob /\ BufferedOpen = StreamOpen(Key, Body)
    BY <1>1 DEF HeadLength, Body, BufferedOpen
  <2>2. Len(blob) \in Nat
    OBVIOUS
  <2>3. ASSUME NEW e \in Nat, NEW g \in Nat PROVE 0 + e + 1 = e + 1 /\ 0 + g = g
    OBVIOUS
  <2>4. QED
    BY <2>1, <2>2, <2>3
<1>2. CASE path # "slots"
  <2>1. PICK h \in Nat, L \in Nat : h = COMMITMENT_LENGTH /\ L = Len(blob) /\ h <= L
    <3>1. COMMITMENT_LENGTH \in Nat /\ TAG_SIZE \in Nat /\ Len(blob) \in Nat
      BY DEF SizesAssumption
    <3>2. COMMITMENT_LENGTH <= Len(blob)
      BY <1>2, <3>1 DEF HeaderRead
    <3>3. QED
      BY <3>1, <3>2
  <2>2. HeadLength = h /\ Body = SubSeq(blob, h + 1, L)
    BY <1>2, <2>1 DEF HeadLength, Body, Rest
  <2>3. Body \in Seq(Bytes) /\ Len(Body) = L - h
    BY <2>1, <2>2, PartFacts
  <2>4. ASSUME NEW e \in Nat, NEW g \in Nat, e <= g, g <= L - h
        PROVE  SubSeq(Body, e + 1, g) = SubSeq(blob, h + e + 1, h + g)
    BY <2>1, <2>2, <2>4, PartOfPart
  <2>5. BufferedOpen = StreamOpen(Key, Body)
    <3>1. ~(Len(blob) < COMMITMENT_LENGTH + TAG_SIZE) /\ SubSeq(blob, 1, COMMITMENT_LENGTH) = Commitment
      <4>1. Len(blob) >= COMMITMENT_LENGTH + TAG_SIZE /\ SubSeq(blob, 1, COMMITMENT_LENGTH) = Commitment
        BY <1>2 DEF HeaderRead
      <4>2. COMMITMENT_LENGTH + TAG_SIZE \in Nat
        BY DEF SizesAssumption
      <4>3. QED
        BY <2>1, <4>1, <4>2
    <3>2. QED
      BY <1>2, <3>1 DEF BufferedOpen, Body
  <2>6. L = h + (L - h)
    BY <2>1
  <2>7. QED
    BY <2>1, <2>2, <2>3, <2>4, <2>5, <2>6
<1>3. QED
  BY <1>1, <1>2

\* Intact blobs have the length that was predicted, and open.
LEMMA IntactFacts ==
  ASSUME SizesAssumption, plain \in Seq(Nat), path \in {"slots", "passphrase"}, IntactBlob(blob)
  PROVE  /\ Len(blob) = Len(BlobHeader) + StreamSealedLength(Len(plain))
         /\ ~BufferedOpen.raised
<1>1. PICK W \in Seq(Bytes) : W = StreamSeal(Key, plain).out /\ blob = BlobHeader \o W
  BY SealedOpens DEF IntactBlob
<1>2. Len(W) = StreamSealedLength(Len(plain)) /\ ~StreamOpen(Key, W).raised
  BY <1>1, SealedOpens DEF IntactBlob
<1>3. PICK w \in Nat : w = Len(W) /\ w >= TAG_SIZE
  <2>1. Len(W) \in Nat /\ TAG_SIZE \in Nat
    BY DEF SizesAssumption
  <2>2. ~(Len(W) < TAG_SIZE)
    BY <1>2 DEF StreamOpen, Raise, Machine
  <2>3. QED
    BY <2>1, <2>2
<1>4. CASE path = "slots"
  <2>1. BlobHeader = <<>> /\ Len(BlobHeader) = 0
    BY <1>4 DEF BlobHeader
  <2>2. blob = W
    BY <1>1, <2>1, ConcatEmptySeq
  <2>3. QED
    BY <1>2, <1>3, <1>4, <2>1, <2>2 DEF BufferedOpen
<1>5. CASE path = "passphrase"
  <2>1. PICK H \in Seq(Bytes) : H = Commitment /\ H = BlobHeader /\ Len(H) = COMMITMENT_LENGTH
    <3>1. Commitment \in Seq(Bytes) /\ Len(Commitment) = COMMITMENT_LENGTH
      <4>1. COMMITMENT_LENGTH \in Nat
        BY DEF SizesAssumption
      <4>2. \A i \in 1..COMMITMENT_LENGTH : CipherByte(Key, <<"commitment">>, <<>>, i) \in Bytes
        <5>1. <<>> \in Seq(Nat)
          BY EmptySeq
        <5>2. QED
          BY <4>1, <5>1 DEF CipherByte, Bytes, ChunkNonces
      <4>3. Commitment = [i \in 1..COMMITMENT_LENGTH |-> CipherByte(Key, <<"commitment">>, <<>>, i)]
        BY DEF Commitment
      <4>4. QED
        BY <4>1, <4>2, <4>3
    <3>2. QED
      BY <1>5, <3>1 DEF BlobHeader
  <2>2. PICK h \in Nat : h = Len(H)
    OBVIOUS
  <2>3. blob \in Seq(Bytes) /\ Len(blob) = h + w
    BY <1>1, <1>3, <2>1, <2>2, JoinFacts
  <2>4. SubSeq(blob, 1, h) = H
    <3>1. 0 \in Nat /\ 0 <= h /\ h <= Len(H) /\ 0 + 1 = 1
      BY <2>2
    <3>2. SubSeq(H \o W, 0 + 1, h) = SubSeq(H, 0 + 1, h)
      BY <3>1, GrownFacts
    <3>3. SubSeq(H, 1, Len(H)) = H
      BY SubSeqFull
    <3>4. QED
      BY <1>1, <2>1, <2>2, <3>1, <3>2, <3>3
  <2>5. SubSeq(blob, h + 1, h + w) = W
    <3>1. SubSeq(H \o W, Len(H) + 1, Len(H) + Len(W)) = W
      BY GrownFacts
    <3>2. QED
      BY <1>1, <1>3, <2>1, <2>2, <3>1
  <2>6. h + w >= COMMITMENT_LENGTH + TAG_SIZE
    BY <1>3, <2>1, <2>2 DEF SizesAssumption
  <2>7. Rest(blob, COMMITMENT_LENGTH) = W
    BY <2>1, <2>2, <2>3, <2>5 DEF Rest
  <2>8. SubSeq(blob, 1, COMMITMENT_LENGTH) = Commitment
    BY <2>1, <2>2, <2>4
  <2>9. ~(Len(blob) < COMMITMENT_LENGTH + TAG_SIZE)
    BY <2>3, <2>6 DEF SizesAssumption
  <2>10. BufferedOpen = StreamOpen(Key, W)
    BY <1>5, <2>7, <2>8, <2>9 DEF BufferedOpen
  <2>11. QED
    BY <1>2, <1>3, <2>1, <2>2, <2>3, <2>10
<1>6. QED
  BY <1>4, <1>5

\* A sealing begins with nothing read.
LEMMA CutInitHolds ==
  ASSUME SizesAssumption, Init
  PROVE  CutInv
<1>1. plain \in Seq(Nat)
  BY InitHolds DEF IInv
<1>2. SealHeld(Fresh, 0)
  <2>1. PICK f : Runs(f, Sealing(Key), plain)
    BY <1>1, SealingPasses, RunExists
  <2>2. Absorbed(Sealing(Key), plain, f, Fresh, 0)
    BY <1>1, SealingPasses, FreshAbsorbed
  <2>3. 0 <= Len(plain)
    BY <1>1
  <2>4. QED
    BY <2>1, <2>2, <2>3 DEF SealHeld
<1>3. QED
  BY <1>2 DEF Init, CutInv

\* A piece of the plaintext: what is held does not tell where it was cut.
LEMMA SealPieceCuts ==
  ASSUME SizesAssumption, IInv, CutInv, SealPiece
  PROVE  CutInvNext
<1>1. plain \in Seq(Nat) /\ fed \in Nat /\ pc = "sealing" /\ outcome = "none" /\ faults \in Nat
      /\ SealHeld(stream, fed)
  BY DEF IInv, CutInv, SealPiece
<1>2. PICK piece \in Piece(plain) :
         stream' = Absorb(Sealing(Key), stream, piece) /\ fed' = fed + Len(piece)
  BY DEF SealPiece
<1>3. PICK n \in Nat : /\ fed + n <= Len(plain) /\ piece = SubSeq(plain, fed + 1, fed + n)
                       /\ Len(piece) = n
  BY <1>1, <1>2, PieceFacts
<1>4. PICK f : Runs(f, Sealing(Key), plain) /\ Absorbed(Sealing(Key), plain, f, stream, fed)
  BY <1>1 DEF SealHeld
<1>5. Absorbed(Sealing(Key), plain, f, stream', fed')
  <2>1. Absorbed(Sealing(Key), plain, f,
                 Absorb(Sealing(Key), stream, SubSeq(plain, fed + 1, fed + n)), fed + n)
    BY <1>1, <1>3, <1>4, SealingPasses, AbsorbKeeps
  <2>2. QED
    BY <1>2, <1>3, <2>1
<1>6. fed' \in Nat /\ fed' <= Len(plain)
  BY <1>1, <1>2, <1>3
<1>7. SealHeld(stream', fed')
  BY <1>4, <1>5, <1>6 DEF SealHeld
<1>8. stream'.machine.raised => StreamSeal(Key, plain).raised
  BY <1>1, <1>4, <1>5, <1>6, SealingPasses, HeldRaises DEF StreamSeal
<1>9. /\ UNCHANGED <<path, plain, ahead, blob, faults>>
      /\ IF stream'.machine.raised THEN pc' = "done" /\ outcome' = "refused"
         ELSE pc' = "sealing" /\ outcome' = "none"
  BY <1>1 DEF SealPiece
<1>10. QED
  BY <1>1, <1>7, <1>8, <1>9 DEF CutInvNext

\* The end of the plaintext: what goes into the store, or the refusal, is that of
\* the buffered form.
LEMMA SealEndCuts ==
  ASSUME SizesAssumption, IInv, CutInv, SealEnd
  PROVE  CutInvNext
<1>1. plain \in Seq(Nat) /\ pc = "sealing" /\ outcome = "none" /\ faults \in Nat
      /\ SealHeld(stream, Len(plain)) /\ Len(plain) \in Nat
  BY DEF IInv, CutInv, SealEnd
<1>2. PICK f : /\ Runs(f, Sealing(Key), plain)
               /\ Absorbed(Sealing(Key), plain, f, stream, Len(plain))
  BY <1>1 DEF SealHeld
<1>3. Finish(Sealing(Key), stream) = StreamSeal(Key, plain)
  <2>1. Sealing(Key).size \in Nat \ {0}
    BY SealingPasses DEF PassOver
  <2>2. PICK lead : Leads(lead, Len(plain), Sealing(Key).size)
    BY <1>1, <2>1, LeadingLeads
  <2>3. QED
    BY <1>1, <1>2, <2>2, SealingPasses, FinishIsWhole DEF StreamSeal
<1>4. PICK m : m = StreamSeal(Key, plain)
  OBVIOUS
<1>5. /\ IF m.raised THEN pc' = "done" /\ outcome' = "refused"
         ELSE pc' = "stored" /\ blob' = BlobHeader \o m.out /\ outcome' = "none"
      /\ fed' = 0 /\ UNCHANGED <<path, plain, faults>>
  BY <1>1, <1>3, <1>4 DEF SealEnd
<1>6. ~m.raised => IntactBlob(blob')
  BY <1>4, <1>5 DEF IntactBlob
<1>7. QED
  BY <1>1, <1>4, <1>5, <1>6 DEF CutInvNext

\* A damaged blob is counted as one.
LEMMA DamageCuts ==
  ASSUME SizesAssumption, IInv, CutInv, Damage
  PROVE  CutInvNext
<1>1. faults \in Nat /\ fed = 0 /\ pc = "stored" /\ outcome = "none"
  BY DEF IInv, CutInv, Damage
<1>2. faults' \in Nat /\ faults' # 0
  BY <1>1 DEF Damage
<1>3. QED
  BY <1>1, <1>2 DEF Damage, CutInvNext

\* Cancelling decides nothing.
LEMMA CancelCuts ==
  ASSUME SizesAssumption, IInv, CutInv, Cancel
  PROVE  CutInvNext
<1>1. faults \in Nat
  BY DEF CutInv
<1>2. QED
  BY <1>1 DEF Cancel, CutInvNext

\* Genuine bytes are bytes.
LEMMA BlobFacts ==
  ASSUME IInv
  PROVE  plain \in Seq(Nat) /\ fed \in Nat /\ blob \in Seq(Bytes) /\ Len(blob) \in Nat
<1>1. blob \in Seq(Genuine) /\ plain \in Seq(Nat) /\ fed \in Nat
  BY DEF IInv
<1>2. \A i \in 1..Len(blob) : blob[i] \in Bytes
  BY <1>1 DEF Genuine
<1>3. blob \in Seq(Bytes)
  BY <1>1, <1>2
<1>4. QED
  BY <1>1, <1>3

\* An open starts at the beginning of the blob.
LEMMA OpenCallCuts ==
  ASSUME SizesAssumption, IInv, CutInv, OpenCall
  PROVE  CutInvNext
<1>1. /\ blob \in Seq(Bytes) /\ Len(blob) \in Nat /\ faults \in Nat /\ fed = 0 /\ pc = "stored"
      /\ outcome = "none" /\ stream = Fresh /\ ahead = <<>> /\ path \in {"slots", "passphrase"}
      /\ (faults = 0 => IntactBlob(blob))
  BY BlobFacts DEF IInv, CutInv, OpenCall
<1>2. /\ UNCHANGED <<path, plain, fed, stream, ahead, blob, outcome, faults>>
      /\ pc' = IF path = "passphrase" THEN "reading" ELSE "opening"
  BY DEF OpenCall
<1>3. \A b : SubSeq(b, 1, 0) = <<>>
  BY SubSeqEmpty
<1>4. CASE path = "passphrase"
  <2>1. ahead = SubSeq(blob, 1, 0) /\ 0 <= Len(blob)
    BY <1>1, <1>3
  <2>2. QED
    BY <1>1, <1>2, <1>4, <2>1 DEF CutInvNext
<1>5. CASE path = "slots"
  <2>1. HeaderRead /\ HeadLength = 0 /\ Body = blob
    BY <1>5 DEF HeaderRead, HeadLength, Body
  <2>2. PICK f : Runs(f, Opening(Key), blob)
    BY <1>1, OpeningPasses, RunExists
  <2>3. Absorbed(Opening(Key), blob, f, Fresh, 0)
    BY <1>1, OpeningPasses, FreshAbsorbed
  <2>4. OpenAt(Fresh, <<>>, 0, f, 0, 0)
    <3>1. 0 = 0 + 0 /\ 0 <= 0 /\ 0 <= Len(blob) /\ 0 + 1 = 1
      BY <1>1
    <3>2. QED
      BY <1>3, <2>1, <2>2, <2>3, <3>1 DEF OpenAt
  <2>5. OpenHeld(stream', ahead', fed')
    <3>1. OpenHeld(Fresh, <<>>, 0)
      BY <2>4 DEF OpenHeld
    <3>2. QED
      BY <1>1, <1>2, <3>1
  <2>6. QED
    BY <1>1, <1>2, <1>5, <2>1, <2>5 DEF CutInvNext
<1>6. QED
  BY <1>1, <1>4, <1>5

\* The lookahead of a passphrase open takes the header off, or refuses what the
\* buffered form refuses.
LEMMA ReadAheadCuts ==
  ASSUME SizesAssumption, IInv, CutInv, ReadAhead
  PROVE  CutInvNext
<1>1. /\ blob \in Seq(Bytes) /\ Len(blob) \in Nat /\ faults \in Nat /\ fed \in Nat /\ pc = "reading"
      /\ outcome = "none" /\ stream = Fresh /\ path = "passphrase"
      /\ fed <= Len(blob) /\ ahead = SubSeq(blob, 1, fed)
      /\ (faults = 0 => IntactBlob(blob))
  BY BlobFacts DEF IInv, CutInv, ReadAhead
<1>2. UNCHANGED <<path, plain, stream, blob, faults>>
  BY DEF ReadAhead
<1>3. COMMITMENT_LENGTH \in Nat /\ TAG_SIZE \in Nat /\ TAG_SIZE # 0
      /\ COMMITMENT_LENGTH + TAG_SIZE \in Nat
  BY DEF SizesAssumption
<1>4. ahead \in Seq(Bytes) /\ Len(ahead) = fed
  <2>1. 0 \in Nat /\ 0 <= fed /\ 0 + 1 = 1 /\ fed - 0 = fed
    BY <1>1
  <2>2. SubSeq(blob, 0 + 1, fed) \in Seq(Bytes) /\ Len(SubSeq(blob, 0 + 1, fed)) = fed - 0
    BY <1>1, <2>1, PartFacts
  <2>3. QED
    BY <1>1, <2>1, <2>2
<1>5. ASSUME Len(ahead) >= COMMITMENT_LENGTH + TAG_SIZE
      PROVE  /\ COMMITMENT_LENGTH <= fed
             /\ SubSeq(ahead, 1, COMMITMENT_LENGTH) = SubSeq(blob, 1, COMMITMENT_LENGTH)
             /\ Len(blob) >= COMMITMENT_LENGTH + TAG_SIZE
  <2>1. PICK h \in Nat : h = COMMITMENT_LENGTH /\ h <= fed /\ fed <= Len(blob)
    BY <1>1, <1>3, <1>4, <1>5
  <2>2. SubSeq(SubSeq(blob, 0 + 1, fed), 0 + 1, h) = SubSeq(blob, 0 + 0 + 1, 0 + h)
    <3>1. 0 \in Nat /\ 0 <= fed /\ 0 <= h /\ h <= fed - 0
      BY <1>1, <2>1
    <3>2. QED
      BY <1>1, <2>1, <3>1, PartOfPart
  <2>3. 0 + 1 = 1 /\ 0 + 0 + 1 = 1 /\ 0 + h = h
    BY <2>1
  <2>4. SubSeq(ahead, 1, h) = SubSeq(blob, 1, h)
    BY <1>1, <2>2, <2>3
  <2>5. QED
    BY <1>1, <1>3, <1>4, <1>5, <2>1, <2>4
<1>6. CASE /\ Len(ahead) >= COMMITMENT_LENGTH + TAG_SIZE
           /\ SubSeq(ahead, 1, COMMITMENT_LENGTH) # Commitment
           /\ pc' = "done" /\ outcome' = "rejected" /\ UNCHANGED <<fed, ahead>>
  <2>1. SubSeq(blob, 1, COMMITMENT_LENGTH) # Commitment
    BY <1>5, <1>6
  <2>2. BufferedOpen = Raise(Machine)
    BY <1>1, <2>1 DEF BufferedOpen
  <2>3. BufferedOpen.raised
    BY <2>2 DEF Raise, Machine
  <2>4. QED
    BY <1>1, <1>2, <1>6, <2>3 DEF CutInvNext
<1>7. CASE /\ Len(ahead) >= COMMITMENT_LENGTH + TAG_SIZE
           /\ SubSeq(ahead, 1, COMMITMENT_LENGTH) = Commitment
           /\ pc' = "opening" /\ ahead' = Replayed(ahead) /\ UNCHANGED <<fed, outcome>>
  <2>1. HeaderRead
    BY <1>5, <1>7 DEF HeaderRead
  <2>2. Body \in Seq(Bytes) /\ Len(blob) = HeadLength + Len(Body) /\ HeadLength = COMMITMENT_LENGTH
        /\ \A e \in Nat, g \in Nat : e <= g /\ g <= Len(Body) =>
              SubSeq(Body, e + 1, g) = SubSeq(blob, HeadLength + e + 1, HeadLength + g)
    BY <1>1, <2>1, BodyFacts DEF HeadLength
  <2>3. PICK h \in Nat, e \in Nat : h = COMMITMENT_LENGTH /\ fed = h + e /\ h <= fed
    <3>1. COMMITMENT_LENGTH <= fed
      BY <1>5, <1>7
    <3>2. fed - COMMITMENT_LENGTH \in Nat /\ fed = COMMITMENT_LENGTH + (fed - COMMITMENT_LENGTH)
      BY <1>1, <1>3, <3>1
    <3>3. QED
      BY <1>3, <3>1, <3>2
  <2>4. e <= Len(Body)
    <3>1. Len(Body) \in Nat
      BY <2>2
    <3>2. QED
      BY <1>1, <2>2, <2>3, <3>1
  <2>5. ahead' = SubSeq(Body, 0 + 1, e)
    <3>1. Replayed(ahead) = SubSeq(SubSeq(blob, 0 + 1, fed), h + 1, fed)
      <4>1. 0 + 1 = 1
        OBVIOUS
      <4>2. QED
        BY <1>1, <1>4, <2>3, <4>1 DEF Replayed, Rest
    <3>2. SubSeq(SubSeq(blob, 0 + 1, fed), h + 1, fed) = SubSeq(blob, 0 + h + 1, 0 + fed)
      <4>1. 0 \in Nat /\ 0 <= fed /\ fed <= fed - 0
        BY <1>1
      <4>2. QED
        BY <1>1, <2>3, <4>1, PartOfPart
    <3>3. SubSeq(Body, 0 + 1, e) = SubSeq(blob, h + 0 + 1, h + e)
      <4>1. 0 \in Nat /\ 0 <= e
        OBVIOUS
      <4>2. QED
        BY <2>2, <2>3, <2>4, <4>1
    <3>4. 0 + h + 1 = h + 0 + 1 /\ 0 + fed = h + e
      BY <1>1, <2>3
    <3>5. QED
      BY <1>7, <3>1, <3>2, <3>3, <3>4
  <2>6. PICK f : Runs(f, Opening(Key), Body)
    BY <2>2, OpeningPasses, RunExists
  <2>7. Absorbed(Opening(Key), Body, f, Fresh, 0)
    BY <2>2, OpeningPasses, FreshAbsorbed
  <2>8. OpenAt(stream', ahead', fed', f, 0, e)
    BY <1>1, <1>2, <1>7, <2>2, <2>3, <2>4, <2>5, <2>6, <2>7 DEF OpenAt
  <2>9. OpenHeld(stream', ahead', fed')
    BY <2>8 DEF OpenHeld
  <2>10. QED
    BY <1>1, <1>2, <1>7, <2>1, <2>9 DEF CutInvNext
<1>8. CASE /\ ~(Len(ahead) >= COMMITMENT_LENGTH + TAG_SIZE) /\ fed = Len(blob)
           /\ pc' = "done" /\ outcome' = "rejected" /\ UNCHANGED <<fed, ahead>>
  <2>1. Len(blob) < COMMITMENT_LENGTH + TAG_SIZE
    BY <1>1, <1>3, <1>4, <1>8
  <2>2. BufferedOpen = Raise(Machine)
    BY <1>1, <2>1 DEF BufferedOpen
  <2>3. BufferedOpen.raised
    BY <2>2 DEF Raise, Machine
  <2>4. QED
    BY <1>1, <1>2, <1>8, <2>3 DEF CutInvNext
<1>9. CASE /\ \E piece \in Piece(blob) : ahead' = ahead \o piece /\ fed' = fed + Len(piece)
           /\ UNCHANGED <<pc, outcome>>
  <2>1. PICK piece \in Piece(blob) : ahead' = ahead \o piece /\ fed' = fed + Len(piece)
    BY <1>9
  <2>2. PICK j \in Nat : /\ fed + j <= Len(blob) /\ piece = SubSeq(blob, fed + 1, fed + j)
                         /\ Len(piece) = j
    BY <1>1, <2>1, PieceFacts
  <2>3. PICK g \in Nat : g = fed + j /\ fed <= g /\ g <= Len(blob)
    BY <1>1, <2>2
  <2>4. SubSeq(blob, 1, fed) \o SubSeq(blob, fed + 1, g) = SubSeq(blob, 1, g)
    <3>1. 0 \in Nat /\ 0 <= fed /\ 0 + 1 = 1
      BY <1>1
    <3>2. SubSeq(blob, 0 + 1, fed) \o SubSeq(blob, fed + 1, g) = SubSeq(blob, 0 + 1, g)
      BY <1>1, <2>3, <3>1, PartsJoin
    <3>3. QED
      BY <3>1, <3>2
  <2>5. ahead' = SubSeq(blob, 1, fed') /\ fed' <= Len(blob)
    BY <1>1, <2>1, <2>2, <2>3, <2>4
  <2>6. QED
    BY <1>1, <1>2, <1>9, <2>5 DEF CutInvNext
<1>10. QED
  BY <1>6, <1>7, <1>8, <1>9 DEF ReadAhead

\* A piece of the body, from the lookahead or from the source: what is held does
\* not tell where it was cut, and a chunk that fails is one the buffered form fails.
LEMMA OpenPieceCuts ==
  ASSUME SizesAssumption, IInv, CutInv, OpenPiece
  PROVE  CutInvNext
<1>1. /\ blob \in Seq(Bytes) /\ Len(blob) \in Nat /\ faults \in Nat /\ fed \in Nat /\ pc = "opening"
      /\ outcome = "none" /\ HeaderRead /\ OpenHeld(stream, ahead, fed)
      /\ (faults = 0 => IntactBlob(blob))
  BY BlobFacts DEF IInv, CutInv, OpenPiece
<1>2. UNCHANGED <<path, plain, blob, faults>>
  BY DEF OpenPiece
<1>3. /\ HeadLength \in Nat /\ Body \in Seq(Bytes) /\ Len(blob) = HeadLength + Len(Body)
      /\ BufferedOpen = StreamOpen(Key, Body) /\ Len(Body) \in Nat
  BY <1>1, BodyFacts
<1>4. \A e \in Nat, g \in Nat : e <= g /\ g <= Len(Body) =>
              SubSeq(Body, e + 1, g) = SubSeq(blob, HeadLength + e + 1, HeadLength + g)
  BY <1>1, BodyFacts
<1>5. PICK f : \E n \in Nat, e \in Nat : OpenAt(stream, ahead, fed, f, n, e)
  BY <1>1 DEF OpenHeld
<1>6. PICK n \in Nat, e \in Nat : OpenAt(stream, ahead, fed, f, n, e)
  BY <1>5
<1>7. /\ fed = HeadLength + e /\ n <= e /\ e <= Len(Body) /\ n <= Len(Body)
      /\ Runs(f, Opening(Key), Body) /\ Absorbed(Opening(Key), Body, f, stream, n)
      /\ ahead = SubSeq(Body, n + 1, e)
  BY <1>3, <1>6 DEF OpenAt
<1>8. CASE stream.machine.raised /\ Reject /\ UNCHANGED <<fed, ahead, stream>>
  <2>1. Whole(Opening(Key), Body).raised
    BY <1>3, <1>7, <1>8, OpeningPasses, HeldRaises
  <2>2. BufferedOpen.raised
    BY <1>3, <2>1, WholeOpens
  <2>3. QED
    BY <1>1, <1>2, <1>8, <2>2 DEF Reject, CutInvNext
<1>9. ASSUME NEW piece, NEW m \in Nat, NEW j \in Nat, m + j <= Len(Body), fed' = HeadLength + (m + j),
             m = n, piece = SubSeq(Body, m + 1, m + j),
             stream' = Absorb(Opening(Key), stream, piece), ahead' = <<>>, UNCHANGED <<pc, outcome>>
      PROVE  CutInvNext
  <2>1. Absorbed(Opening(Key), Body, f, stream', m + j)
    BY <1>3, <1>7, <1>9, OpeningPasses, AbsorbKeeps
  <2>2. PICK g \in Nat : g = m + j
    OBVIOUS
  <2>3. ahead' = SubSeq(Body, g + 1, g)
    <3>1. SubSeq(Body, g + 1, g) = <<>>
      BY SubSeqEmpty
    <3>2. QED
      BY <1>9, <3>1
  <2>4. OpenAt(stream', ahead', fed', f, g, g)
    BY <1>7, <1>9, <2>1, <2>2, <2>3 DEF OpenAt
  <2>5. OpenHeld(stream', ahead', fed')
    BY <2>4 DEF OpenHeld
  <2>6. QED
    BY <1>1, <1>2, <1>9, <2>5 DEF CutInvNext
<1>10. CASE \E piece \in IF ahead # <<>> THEN {ahead} ELSE Piece(blob) :
             /\ stream' = Absorb(Opening(Key), stream, piece)
             /\ fed' = IF ahead # <<>> THEN fed ELSE fed + Len(piece)
             /\ ahead' = <<>>
             /\ UNCHANGED <<pc, outcome>>
  <2>1. PICK piece \in IF ahead # <<>> THEN {ahead} ELSE Piece(blob) :
             /\ stream' = Absorb(Opening(Key), stream, piece)
             /\ fed' = IF ahead # <<>> THEN fed ELSE fed + Len(piece)
             /\ ahead' = <<>>
             /\ UNCHANGED <<pc, outcome>>
    BY <1>10
  <2>2. CASE ahead # <<>>
    <3>1. PICK j \in Nat : e = n + j
      <4>1. e - n \in Nat /\ e = n + (e - n)
        BY <1>7
      <4>2. QED
        BY <4>1
    <3>2. /\ piece = SubSeq(Body, n + 1, n + j) /\ n + j <= Len(Body)
          /\ fed' = HeadLength + (n + j)
      BY <1>7, <2>1, <2>2, <3>1
    <3>3. QED
      BY <1>9, <2>1, <3>2
  <2>3. CASE ahead = <<>>
    <3>1. n = e
      <4>1. Len(SubSeq(Body, n + 1, e)) = e - n
        BY <1>3, <1>7, PartFacts
      <4>2. e - n = 0
        BY <1>7, <2>3, <4>1
      <4>3. QED
        BY <4>2
    <3>2. piece \in Piece(blob)
      BY <2>1, <2>3
    <3>3. PICK j \in Nat : /\ fed + j <= Len(blob) /\ piece = SubSeq(blob, fed + 1, fed + j)
                           /\ Len(piece) = j
      BY <1>1, <3>2, PieceFacts
    <3>4. PICK g \in Nat : g = n + j /\ n <= g
      OBVIOUS
    <3>5. /\ g <= Len(Body) /\ fed + 1 = HeadLength + n + 1 /\ fed + j = HeadLength + g
      BY <1>3, <1>7, <3>1, <3>3, <3>4
    <3>6. SubSeq(Body, n + 1, g) = SubSeq(blob, HeadLength + n + 1, HeadLength + g)
      BY <1>4, <3>4, <3>5
    <3>7. piece = SubSeq(Body, n + 1, n + j)
      BY <3>3, <3>4, <3>5, <3>6
    <3>8. fed' = HeadLength + (n + j)
      BY <2>1, <2>3, <3>3, <3>4, <3>5
    <3>9. QED
      BY <1>9, <2>1, <3>4, <3>5, <3>7, <3>8
  <2>4. QED
    BY <2>2, <2>3
<1>11. QED
  BY <1>8, <1>10 DEF OpenPiece

\* The end of the ciphertext: the answer is that of the buffered form.
LEMMA OpenEndCuts ==
  ASSUME SizesAssumption, IInv, CutInv, OpenEnd
  PROVE  CutInvNext
<1>1. /\ blob \in Seq(Bytes) /\ Len(blob) \in Nat /\ faults \in Nat /\ fed \in Nat /\ pc = "opening"
      /\ outcome = "none" /\ HeaderRead /\ OpenHeld(stream, ahead, fed) /\ ahead = <<>>
      /\ fed = Len(blob) /\ stream \in OpenStates /\ (faults = 0 => IntactBlob(blob))
  BY BlobFacts DEF IInv, CutInv, OpenEnd, OpenStates
<1>2. /\ HeadLength \in Nat /\ Body \in Seq(Bytes) /\ Len(blob) = HeadLength + Len(Body)
      /\ BufferedOpen = StreamOpen(Key, Body) /\ Len(Body) \in Nat
  BY <1>1, BodyFacts
<1>3. PICK f : \E n \in Nat, e \in Nat : OpenAt(stream, ahead, fed, f, n, e)
  BY <1>1 DEF OpenHeld
<1>4. PICK n \in Nat, e \in Nat : OpenAt(stream, ahead, fed, f, n, e)
  BY <1>3
<1>5. /\ fed = HeadLength + e /\ n <= e /\ e <= Len(Body)
      /\ Runs(f, Opening(Key), Body) /\ Absorbed(Opening(Key), Body, f, stream, n)
      /\ ahead = SubSeq(Body, n + 1, e)
  BY <1>4 DEF OpenAt
<1>6. n = Len(Body)
  <2>1. e = Len(Body)
    BY <1>1, <1>2, <1>5
  <2>2. Len(SubSeq(Body, n + 1, e)) = e - n
    BY <1>2, <1>5, PartFacts
  <2>3. Len(SubSeq(Body, n + 1, e)) = 0
    <3>1. SubSeq(Body, n + 1, e) = <<>>
      BY <1>1, <1>5
    <3>2. Len(<<>>) = 0
      BY EmptySeq
    <3>3. QED
      BY <3>1, <3>2, Zenon
  <2>4. QED
    BY <1>5, <2>1, <2>2, <2>3
<1>7. Finish(Opening(Key), stream) = Whole(Opening(Key), Body)
  <2>1. Opening(Key).size \in Nat \ {0}
    BY OpeningPasses DEF PassOver
  <2>2. PICK lead : Leads(lead, Len(Body), Opening(Key).size)
    BY <1>2, <2>1, LeadingLeads
  <2>3. QED
    BY <1>2, <1>5, <1>6, <2>2, OpeningPasses, FinishIsWhole
<1>8. PICK m : m = Whole(Opening(Key), Body)
  OBVIOUS
<1>9. /\ stream' = [stream EXCEPT !.machine = m]
      /\ IF stream'.machine.raised THEN Reject ELSE pc' = "done" /\ outcome' = "matched"
      /\ UNCHANGED <<path, plain, fed, ahead, blob, faults>>
  BY <1>7, <1>8 DEF OpenEnd
<1>10. stream'.machine = m
  BY <1>1, <1>9 DEF OpenStates
<1>11. /\ BufferedOpen.raised <=> m.raised
       /\ ~BufferedOpen.raised => BufferedOpen = m
  BY <1>2, <1>8, WholeOpens
<1>12. CASE m.raised
  BY <1>1, <1>9, <1>10, <1>11, <1>12 DEF Reject, CutInvNext
<1>13. CASE ~m.raised
  BY <1>1, <1>9, <1>10, <1>11, <1>13 DEF CutInvNext
<1>14. QED
  BY <1>12, <1>13

\* The invariant of the pieces: however source and store cut the bytes, a sealer
\* or opener holds what it would hold had they come in one piece, and what it ends
\* with is what the buffered form makes of the whole (_seal_stream_body,
\* _unwrap_stream_body, passphrase_sealed_poe_open_stream).
THEOREM PiecesInvariant ==
  ASSUME SizesAssumption
  PROVE  Spec => []CutInv
<1>1. Init => CutInv
  BY CutInitHolds
<1>2. IInv /\ CutInv /\ [Next]_vars => CutInv'
  <2>1. SUFFICES ASSUME IInv, CutInv, [Next]_vars PROVE CutInv'
    OBVIOUS
  <2>2. CASE Next
    <3>1. CutInvNext
      BY <2>1, <2>2, SealPieceCuts, SealEndCuts, DamageCuts, OpenCallCuts, ReadAheadCuts,
         OpenPieceCuts, OpenEndCuts, CancelCuts DEF Next
    <3>2. QED
      BY <2>1, <3>1, CutNextHolds
  <2>3. CASE UNCHANGED vars
    <3>1. CutInvNext
      BY <2>1, <2>3 DEF vars, CutInv, CutInvNext
    <3>2. QED
      BY <2>1, <3>1, CutNextHolds
  <2>4. QED
    BY <2>1, <2>2, <2>3
<1>3. QED
  BY <1>1, <1>2, StreamInvariant, PTL DEF Spec

\* However source and store cut the bytes into pieces, the streaming forms do what
\* the buffered ones do: the same blob of the predicted length, or the same refusal;
\* the same plaintext, or the same rejection.
THEOREM StreamingIsBuffered ==
  ASSUME SizesAssumption
  PROVE  Spec => []CuttingsAgree
<1>1. IInv /\ CutInv => CuttingsAgree
  <2>1. SUFFICES ASSUME IInv, CutInv PROVE CuttingsAgree
    OBVIOUS
  <2>2. plain \in Seq(Nat) /\ path \in {"slots", "passphrase"}
    BY <2>1 DEF IInv, CutInv
  <2>3. pc = "stored" /\ faults = 0 =>
          /\ ~StreamSeal(Key, plain).raised /\ blob = BlobHeader \o StreamSeal(Key, plain).out
          /\ Len(blob) = Len(BlobHeader) + StreamSealedLength(Len(plain))
    <3>1. SUFFICES ASSUME pc = "stored", faults = 0
                   PROVE  /\ ~StreamSeal(Key, plain).raised
                          /\ blob = BlobHeader \o StreamSeal(Key, plain).out
                          /\ Len(blob) = Len(BlobHeader) + StreamSealedLength(Len(plain))
      OBVIOUS
    <3>2. IntactBlob(blob)
      BY <2>1, <3>1 DEF CutInv
    <3>3. Len(blob) = Len(BlobHeader) + StreamSealedLength(Len(plain))
      BY <2>2, <3>2, IntactFacts
    <3>4. QED
      BY <3>2, <3>3 DEF IntactBlob
  <2>4. /\ outcome = "refused" => StreamSeal(Key, plain).raised
        /\ outcome = "matched" => ~BufferedOpen.raised /\ stream.machine.out = BufferedOpen.out
        /\ outcome = "rejected" => BufferedOpen.raised
    BY <2>1 DEF CutInv
  <2>5. QED
    BY <2>3, <2>4 DEF CuttingsAgree
<1>2. QED
  BY <1>1, StreamInvariant, PiecesInvariant, PTL

\* An untouched blob opens: no cutting, no length and no end on a chunk boundary
\* makes the opener reject what the sealer made.
THEOREM UntouchedBlobsOpen ==
  ASSUME SizesAssumption
  PROVE  Spec => []IntactOpens
<1>1. IInv /\ CutInv => IntactOpens
  <2>1. SUFFICES ASSUME IInv, CutInv, faults = 0, outcome = "rejected" PROVE FALSE
    BY DEF IntactOpens
  <2>2. plain \in Seq(Nat) /\ path \in {"slots", "passphrase"}
    BY <2>1 DEF IInv, CutInv
  <2>3. IntactBlob(blob) /\ BufferedOpen.raised
    BY <2>1 DEF CutInv
  <2>4. QED
    BY <2>2, <2>3, IntactFacts
<1>2. QED
  BY <1>1, StreamInvariant, PiecesInvariant, PTL

-----------------------------------------------------------------------------
(* Passphrases                                                             *)

\* An ordered list of checks, each of which names an error when it fails, passes
\* exactly when none of them fails.
LEMMA ChecksPass ==
  ASSUME NEW n \in Nat, NEW checks, DOMAIN checks = 1..n,
         \A c \in 1..n : checks[c][2] => checks[c][1] # OK
  PROVE  FirstFailing(checks) = OK <=> \A c \in 1..n : ~checks[c][2]
BY FirstFailingFacts

\* What it takes for parameters to be accepted: each at its floor or above.
LEMMA ParamsFacts ==
  ASSUME PassphraseAssumption, NEW params \in Params, ParamsRefusal(params) = OK
  PROVE  /\ params.m >= ARGON2_M_MIN /\ params.t >= ARGON2_T_MIN /\ params.p >= ARGON2_P_MIN
<1> DEFINE checks == <<
  <<"INVALID_PASSPHRASE_PARAMS", \E v \in ParamValues(params) : v < 0 \/ v > PARAM_MAX>>,
  <<"ENC_PASSPHRASE_ARGON2_PARAMS_TOO_LOW",
    params.m < ARGON2_M_MIN \/ params.t < ARGON2_T_MIN \/ params.p < ARGON2_P_MIN>> >>
<1>1. ParamsRefusal(params) = FirstFailing(checks)
  BY DEF ParamsRefusal
<1>2. DOMAIN checks = 1..2
  OBVIOUS
<1>3. /\ checks[1][1] = "INVALID_PASSPHRASE_PARAMS"
      /\ checks[2][1] = "ENC_PASSPHRASE_ARGON2_PARAMS_TOO_LOW"
      /\ checks[2][2] <=> \/ params.m < ARGON2_M_MIN \/ params.t < ARGON2_T_MIN
                          \/ params.p < ARGON2_P_MIN
  OBVIOUS
<1> HIDE DEF checks
<1>4. 2 \in Nat /\ \A c \in 1..2 : c \in {1, 2}
  OBVIOUS
<1>5. \A c \in 1..2 : checks[c][2] => checks[c][1] # OK
  BY <1>3, <1>4 DEF OK
<1>6. ~checks[2][2]
  <2>1. \A c \in 1..2 : ~checks[c][2]
    BY <1>1, <1>2, <1>4, <1>5, ChecksPass
  <2>2. 2 \in 1..2
    OBVIOUS
  <2>3. QED
    BY <2>1, <2>2
<1>7. /\ params.m \in Int /\ params.t \in Int /\ params.p \in Int
      /\ ARGON2_M_MIN \in Int /\ ARGON2_T_MIN \in Int /\ ARGON2_P_MIN \in Int
  BY DEF PassphraseAssumption
<1>8. QED
  BY <1>3, <1>6, <1>7

\* What it takes for the arguments of a seal to be accepted.
LEMMA SealFacts ==
  ASSUME NEW a
  PROVE  PwSealRefusal(a) = OK <=>
           /\ ParamsRefusal(a.params) = OK
           /\ SaltRefusal(a.salt) = OK
           /\ a.nonce \in PwNonces /\ a.hashes # NoPwHashes
           /\ NormalizePassphrase(a.passphrase).code = OK
<1>1. PICK params : params = ParamsRefusal(a.params)
  OBVIOUS
<1>2. PICK salt : salt = SaltRefusal(a.salt)
  OBVIOUS
<1>3. PICK code : code = NormalizePassphrase(a.passphrase).code
  OBVIOUS
<1> DEFINE checks == <<
       <<params, params # OK>>,
       <<salt, salt # OK>>,
       <<"NONCE_LENGTH_MISMATCH", a.nonce \notin PwNonces>>,
       <<"ENC_REQUIRES_CONTENT_HASH", a.hashes = NoPwHashes>>,
       <<code, code # OK>> >>
<1>4. PwSealRefusal(a) = FirstFailing(checks)
  BY <1>1, <1>2, <1>3 DEF PwSealRefusal
<1>5. DOMAIN checks = 1..5
  OBVIOUS
<1>6. /\ checks[1][1] = params /\ checks[2][1] = salt /\ checks[3][1] = "NONCE_LENGTH_MISMATCH"
      /\ checks[4][1] = "ENC_REQUIRES_CONTENT_HASH" /\ checks[5][1] = code
  OBVIOUS
<1>7. /\ checks[1][2] <=> params # OK
      /\ checks[2][2] <=> salt # OK
      /\ checks[3][2] <=> a.nonce \notin PwNonces
      /\ checks[4][2] <=> a.hashes = NoPwHashes
      /\ checks[5][2] <=> code # OK
  OBVIOUS
<1> HIDE DEF checks
<1>8. 5 \in Nat /\ \A c \in 1..5 : c \in {1, 2, 3, 4, 5}
  OBVIOUS
<1>9. \A c \in 1..5 : checks[c][2] => checks[c][1] # OK
  BY <1>6, <1>7, <1>8 DEF OK
<1>10. PwSealRefusal(a) = OK <=> \A c \in 1..5 : ~checks[c][2]
  BY <1>4, <1>5, <1>8, <1>9, ChecksPass
<1>11. (\A c \in 1..5 : ~checks[c][2]) <=>
         ~checks[1][2] /\ ~checks[2][2] /\ ~checks[3][2] /\ ~checks[4][2] /\ ~checks[5][2]
  BY <1>8
<1>12. QED
  BY <1>1, <1>2, <1>3, <1>7, <1>10, <1>11

\* What it takes for an envelope to be accepted.
LEMMA PhraseEnvelopeFacts ==
  ASSUME NEW e
  PROVE  EnvelopeRefusal(e) = OK <=>
           /\ e.scheme = 1 /\ e.aead = "stream64k" /\ e.alg = "argon2id"
           /\ e.nonce \in PwNonces
           /\ SaltRefusal(e.salt) = OK
           /\ ParamsRefusal(e.params) = OK
<1>1. PICK params : params = ParamsRefusal(e.params)
  OBVIOUS
<1>2. PICK salt : salt = SaltRefusal(e.salt)
  OBVIOUS
<1> DEFINE checks == <<
  <<"UNSUPPORTED_ENVELOPE_SCHEME", e.scheme # 1>>,
  <<"UNSUPPORTED_AEAD_ALG", e.aead # "stream64k">>,
  <<"ENC_PASSPHRASE_ALG_UNSUPPORTED", e.alg # "argon2id">>,
  <<"NONCE_LENGTH_MISMATCH", e.nonce \notin PwNonces>>,
  <<salt, salt # OK>>,
  <<params, params # OK>> >>
<1>3. EnvelopeRefusal(e) = FirstFailing(checks)
  BY <1>1, <1>2 DEF EnvelopeRefusal
<1>4. DOMAIN checks = 1..6
  OBVIOUS
<1>5. /\ checks[1][1] = "UNSUPPORTED_ENVELOPE_SCHEME" /\ checks[2][1] = "UNSUPPORTED_AEAD_ALG"
      /\ checks[3][1] = "ENC_PASSPHRASE_ALG_UNSUPPORTED" /\ checks[4][1] = "NONCE_LENGTH_MISMATCH"
      /\ checks[5][1] = salt /\ checks[6][1] = params
  OBVIOUS
<1>6. /\ checks[1][2] <=> e.scheme # 1
      /\ checks[2][2] <=> e.aead # "stream64k"
      /\ checks[3][2] <=> e.alg # "argon2id"
      /\ checks[4][2] <=> e.nonce \notin PwNonces
      /\ checks[5][2] <=> salt # OK
      /\ checks[6][2] <=> params # OK
  OBVIOUS
<1> HIDE DEF checks
<1>7. 6 \in Nat /\ \A c \in 1..6 : c \in {1, 2, 3, 4, 5, 6}
  OBVIOUS
<1>8. \A c \in 1..6 : checks[c][2] => checks[c][1] # OK
  BY <1>5, <1>6, <1>7 DEF OK
<1>9. EnvelopeRefusal(e) = OK <=> \A c \in 1..6 : ~checks[c][2]
  BY <1>3, <1>4, <1>7, <1>8, ChecksPass
<1>10. (\A c \in 1..6 : ~checks[c][2]) <=>
         /\ ~checks[1][2] /\ ~checks[2][2] /\ ~checks[3][2]
         /\ ~checks[4][2] /\ ~checks[5][2] /\ ~checks[6][2]
  BY <1>7
<1>11. QED
  BY <1>1, <1>2, <1>6, <1>9, <1>10

\* What it takes for the call of an open to be accepted.
LEMMA CallFacts ==
  ASSUME NEW e, NEW hashes, NEW passphrase
  PROVE  CallRefusal(e, hashes, passphrase) = OK <=>
           /\ hashes # NoPwHashes
           /\ NormalizePassphrase(passphrase).code = OK
           /\ EnvelopeRefusal(e) = OK
<1>1. PICK code : code = NormalizePassphrase(passphrase).code
  OBVIOUS
<1>2. PICK refusal : refusal = EnvelopeRefusal(e)
  OBVIOUS
<1> DEFINE checks == <<
       <<"ENC_REQUIRES_CONTENT_HASH", hashes = NoPwHashes>>,
       <<code, code # OK>>,
       <<refusal, refusal # OK>> >>
<1>3. CallRefusal(e, hashes, passphrase) = FirstFailing(checks)
  BY <1>1, <1>2 DEF CallRefusal
<1>4. DOMAIN checks = 1..3
  OBVIOUS
<1>5. /\ checks[1][1] = "ENC_REQUIRES_CONTENT_HASH" /\ checks[2][1] = code /\ checks[3][1] = refusal
      /\ checks[1][2] <=> hashes = NoPwHashes
      /\ checks[2][2] <=> code # OK
      /\ checks[3][2] <=> refusal # OK
  OBVIOUS
<1> HIDE DEF checks
<1>6. 3 \in Nat /\ \A c \in 1..3 : c \in {1, 2, 3}
  OBVIOUS
<1>7. \A c \in 1..3 : checks[c][2] => checks[c][1] # OK
  BY <1>5, <1>6 DEF OK
<1>8. CallRefusal(e, hashes, passphrase) = OK <=> \A c \in 1..3 : ~checks[c][2]
  BY <1>3, <1>4, <1>6, <1>7, ChecksPass
<1>9. QED
  BY <1>1, <1>2, <1>5, <1>6, <1>8

\* A normalised passphrase is its code and its text.
LEMMA PasswordFacts ==
  ASSUME NEW text
  PROVE  LET password == NormalizePassphrase(text)
         IN password = [code |-> password.code, text |-> password.text]
BY DEF NormalizePassphrase, Failed, Success

-----------------------------------------------------------------------------
\* Accepted arguments make an envelope and a blob in the invariant.
LEMMA SealedIsStored ==
  ASSUME NEW a \in Args, PwSealRefusal(a) = OK
  PROVE  LET b == BlobOf(a)
             e == EnvelopeOf(a)
         IN /\ b.args = a /\ b.short = FALSE /\ b.intact = TRUE
            /\ b = [commitment |-> b.commitment, key |-> b.key,
                    short |-> b.short, intact |-> b.intact, args |-> a]
            /\ e \in [scheme : {1, 2}, aead : {"stream64k", "gcm"}, alg : {"argon2id", "scrypt"},
                 nonce : PwNonces \cup {"short"}, salt : Salts, params : Params]
            /\ a.hashes \in PwHashes
BY DEF BlobOf, EnvelopeOf, Args

\* A seal stores what the invariant says, or ends without opening anything.
LEMMA PhraseSealHolds ==
  ASSUME PhraseInv, NEW a \in Args, PwSeal(a)
  PROVE  PhraseInv'
<1>1. pwAt = "choosing" /\ UNCHANGED <<typed, kdfRan>>
  BY DEF PwSeal
<1>2. ~HasOpened'
  BY <1>1 DEF PhraseInv, HasOpened
<1>3. CASE pwAt' = "done"
  BY <1>2, <1>3 DEF PhraseInv
<1>4. CASE pwAt' # "done" /\ PwSealRefusal(a) = OK
  <2>1. pwEnv' = EnvelopeOf(a) /\ pwClaim' = a.hashes /\ pwBlob' = BlobOf(a) /\ pwAt' = "sealed"
    BY <1>4 DEF PwSeal
  <2>2. pwBlob'.args = a
    BY <1>4, <2>1, SealedIsStored
  <2>3. StoredInv'
    BY <1>4, <2>1, <2>2, SealedIsStored DEF StoredInv
  <2>4. QED
    BY <1>2, <2>1, <2>3 DEF PhraseInv
<1>5. QED
  BY <1>3, <1>4 DEF PwSeal

\* Whatever changes in the store, what is stored stays in the invariant.
LEMMA AlterHolds ==
  ASSUME PhraseInv, NoPwHashes \in PwHashes, PwAlter
  PROVE  PhraseInv'
<1>1. pwAt = "sealed" /\ UNCHANGED <<pwAt, typed, kdfRan>>
  BY DEF PwAlter
<1>2. ~HasOpened /\ ~HasOpened'
  BY <1>1 DEF PhraseInv, HasOpened
<1>3. StoredInv
  BY <1>1 DEF PhraseInv
<1>4. ASSUME UNCHANGED <<pwClaim, pwBlob>> /\
           \/ pwEnv' = [pwEnv EXCEPT !.scheme = 2]
           \/ pwEnv' = [pwEnv EXCEPT !.aead = "gcm"]
           \/ pwEnv' = [pwEnv EXCEPT !.alg = "scrypt"]
           \/ \E n \in PwNonces \cup {"short"} : pwEnv' = [pwEnv EXCEPT !.nonce = n]
           \/ \E s \in Salts : pwEnv' = [pwEnv EXCEPT !.salt = s]
           \/ \E p \in Params : pwEnv' = [pwEnv EXCEPT !.params = p]
      PROVE  StoredInv'
  <2> DEFINE Envs == [scheme : {1, 2}, aead : {"stream64k", "gcm"}, alg : {"argon2id", "scrypt"},
                      nonce : PwNonces \cup {"short"}, salt : Salts, params : Params]
  <2>1. pwEnv \in Envs
    BY <1>3 DEF StoredInv
  <2>2. pwEnv' \in Envs
    BY <1>4, <2>1
  <2>3. QED
    BY <1>3, <1>4, <2>2 DEF StoredInv
<1>5. ASSUME pwClaim' \in PwHashes /\ UNCHANGED <<pwEnv, pwBlob>>
      PROVE  StoredInv'
  BY <1>3, <1>5 DEF StoredInv
<1>6. ASSUME pwBlob' \in {[pwBlob EXCEPT !.short = TRUE], [pwBlob EXCEPT !.intact = FALSE],
                      [pwBlob EXCEPT !.commitment.hashes = NoPwHashes]} /\ UNCHANGED <<pwEnv, pwClaim>>
      PROVE  StoredInv'
  <2>1. PICK a \in Args : a = pwBlob.args /\ PwSealRefusal(a) = OK
    BY <1>3 DEF StoredInv
  <2>2. PICK made, key : /\ BlobOf(a).commitment = made /\ BlobOf(a).key = key
                         /\ made = [cek |-> made.cek, nonce |-> made.nonce, salt |-> made.salt,
                                    params |-> made.params, hashes |-> made.hashes]
    BY DEF BlobOf, PwCommitment
  <2>3. PICK c, s, i : c = pwBlob.commitment /\ s = pwBlob.short /\ i = pwBlob.intact
    OBVIOUS
  <2>4. /\ pwBlob = [commitment |-> c, key |-> key, short |-> s, intact |-> i, args |-> a]
        /\ s \in BOOLEAN /\ i \in BOOLEAN /\ c \in {made, [made EXCEPT !.hashes = NoPwHashes]}
    BY <1>3, <2>1, <2>2, <2>3 DEF StoredInv
  <2>5. [c EXCEPT !.hashes = NoPwHashes] = [made EXCEPT !.hashes = NoPwHashes]
    BY <2>2, <2>4
  <2>6. \E c1 \in {made, [made EXCEPT !.hashes = NoPwHashes]}, s1 \in BOOLEAN, i1 \in BOOLEAN :
          pwBlob' = [commitment |-> c1, key |-> key, short |-> s1, intact |-> i1, args |-> a]
    <3>1. CASE pwBlob' = [pwBlob EXCEPT !.short = TRUE]
      BY <2>4, <3>1
    <3>2. CASE pwBlob' = [pwBlob EXCEPT !.intact = FALSE]
      BY <2>4, <3>2
    <3>3. CASE pwBlob' = [pwBlob EXCEPT !.commitment.hashes = NoPwHashes]
      BY <2>4, <2>5, <3>3
    <3>4. QED
      BY <1>6, <3>1, <3>2, <3>3
  <2>7. /\ pwBlob'.args = a /\ pwBlob'.short \in BOOLEAN /\ pwBlob'.intact \in BOOLEAN
        /\ pwBlob'.commitment \in {made, [made EXCEPT !.hashes = NoPwHashes]}
        /\ pwBlob' = [commitment |-> pwBlob'.commitment, key |-> key,
                    short |-> pwBlob'.short, intact |-> pwBlob'.intact, args |-> a]
    BY <2>6
  <2>8. QED
    BY <1>3, <1>6, <2>1, <2>2, <2>7 DEF StoredInv
<1>7. ASSUME pwBlob' \in {BlobOf(a) : a \in {b \in Args : PwSealRefusal(b) = OK}}
           /\ UNCHANGED <<pwEnv, pwClaim>>
      PROVE  StoredInv'
  <2>1. PICK a \in Args : PwSealRefusal(a) = OK /\ pwBlob' = BlobOf(a)
    BY <1>7
  <2>2. pwBlob'.args = a
    BY <2>1, SealedIsStored
  <2>3. QED
    BY <1>3, <1>7, <2>1, <2>2, SealedIsStored DEF StoredInv
<1>8. StoredInv'
  BY <1>4, <1>5, <1>6, <1>7 DEF PwAlter
<1>9. QED
  BY <1>1, <1>2, <1>8 DEF PhraseInv

\* An open says what Opened says of what is stored, or that the derivation failed.
LEMMA OpenHolds ==
  ASSUME PhraseInv, NEW passphrase \in Passphrases, Open(passphrase)
  PROVE  PhraseInv'
<1>1. /\ pwAt = "sealed" /\ pwAt' = "done" /\ typed' = passphrase /\ UNCHANGED <<pwEnv, pwClaim, pwBlob>>
      /\ kdfRan' = (~pwBlob.short /\ CallRefusal(pwEnv, pwClaim, passphrase) = OK)
      /\ \/ pwResult' = PwOpened(pwEnv, pwClaim, passphrase, pwBlob)
         \/ kdfRan' /\ pwResult' = PwReturned("raised", "KDF_DERIVATION_FAILED")
  BY DEF Open
<1>2. StoredInv'
  BY <1>1 DEF PhraseInv, StoredInv
<1>3. OpenedInv'
  BY <1>1 DEF OpenedInv
<1>4. QED
  BY <1>1, <1>2, <1>3 DEF PhraseInv

\* The invariant of the passphrase path: what is stored was sealed with accepted
\* arguments, but for the changes the store can make, and what an open says is
\* about what is stored (passphrase_sealed_poe_seal, passphrase_sealed_poe_open).
THEOREM PassphraseInvariant ==
  ASSUME PassphraseAssumption
  PROVE  PhraseSpec => []PhraseInv
<1>1. PhraseInit => PhraseInv
  BY DEF PhraseInit, PhraseInv, HasOpened
<1>2. PhraseInv /\ [PhraseNext]_(pwVars) => PhraseInv'
  <2>1. SUFFICES ASSUME PhraseInv, [PhraseNext]_(pwVars) PROVE PhraseInv'
    OBVIOUS
  <2>2. CASE PhraseNext
    BY <2>1, <2>2, PhraseSealHolds, AlterHolds, OpenHolds DEF PhraseNext, PassphraseAssumption
  <2>3. CASE UNCHANGED pwVars
    BY <2>1, <2>3 DEF pwVars, PhraseInv, HasOpened, StoredInv, OpenedInv
  <2>4. QED
    BY <2>1, <2>2, <2>3
<1>3. QED
  BY <1>1, <1>2, PTL DEF PhraseSpec

\* A blob opens exactly when record and blob belong together and the passphrase
\* is a spelling of the one it was sealed with, for any tables of code points,
\* parameters, salts, claims and number of changes (passphrase_sealed_poe_open).
THEOREM PassphraseOpens ==
  ASSUME PassphraseAssumption
  PROVE  PhraseSpec => []OpensOnlyThePassphrase
<1>1. ASSUME PhraseInv PROVE OpensOnlyThePassphrase
  <2>1. SUFFICES ASSUME pwAt = "done", typed # <<>>, pwResult.reason # "KDF_DERIVATION_FAILED"
                 PROVE  pwResult.kind = "match" <=>
                          /\ BelongsTogether
                          /\ Password(typed) = Password(pwBlob.args.passphrase)
    BY DEF OpensOnlyThePassphrase
  <2>2. StoredInv /\ pwResult = PwOpened(pwEnv, pwClaim, typed, pwBlob)
    BY <1>1, <2>1 DEF PhraseInv, HasOpened, OpenedInv, PwReturned
  <2>3. PICK a \in Args : a = pwBlob.args /\ PwSealRefusal(a) = OK
    BY <2>2 DEF StoredInv
  <2>4. PICK old, new : /\ old = NormalizePassphrase(a.passphrase)
                        /\ new = NormalizePassphrase(typed)
    OBVIOUS
  <2>5. /\ old = [code |-> old.code, text |-> old.text]
        /\ new = [code |-> new.code, text |-> new.text]
    BY <2>4, PasswordFacts
  <2>6. PICK sealed, read, made, wanted :
          /\ sealed = Cek(old.text, a.salt, a.params)
          /\ read = Cek(new.text, pwEnv.salt, pwEnv.params)
          /\ made = PwCommitment(sealed, a.nonce, a.salt, a.params, a.hashes)
          /\ wanted = PwCommitment(read, pwEnv.nonce, pwEnv.salt, pwEnv.params, pwClaim)
    OBVIOUS
  <2>7. BlobOf(a) = [commitment |-> made, key |-> [cek |-> sealed, nonce |-> a.nonce],
                            short |-> FALSE, intact |-> TRUE, args |-> a]
    BY <2>4, <2>6 DEF BlobOf
  <2>8. /\ pwBlob = [commitment |-> pwBlob.commitment, key |-> [cek |-> sealed, nonce |-> a.nonce],
                   short |-> pwBlob.short, intact |-> pwBlob.intact, args |-> a]
        /\ pwBlob.short \in BOOLEAN /\ pwBlob.intact \in BOOLEAN
        /\ pwBlob.commitment \in {made, [made EXCEPT !.hashes = NoPwHashes]}
    BY <2>2, <2>3, <2>7 DEF StoredInv
  <2>9. pwResult.kind = "match" <=>
          /\ CallRefusal(pwEnv, pwClaim, typed) = OK
          /\ ~pwBlob.short /\ pwBlob.commitment = wanted
          /\ pwBlob.intact /\ pwBlob.key = [cek |-> read, nonce |-> pwEnv.nonce]
    BY <2>2, <2>4, <2>6 DEF PwOpened, PwReturned
  <2>10. CallRefusal(pwEnv, pwClaim, typed) = OK <=>
          /\ pwClaim # NoPwHashes /\ new.code = OK
          /\ pwEnv.scheme = 1 /\ pwEnv.aead = "stream64k" /\ pwEnv.alg = "argon2id"
          /\ pwEnv.nonce \in PwNonces
          /\ SaltRefusal(pwEnv.salt) = OK
          /\ ParamsRefusal(pwEnv.params) = OK
    BY <2>4, CallFacts, PhraseEnvelopeFacts
  <2>11. /\ old.code = OK /\ a.hashes # NoPwHashes /\ a.nonce \in PwNonces
         /\ SaltRefusal(a.salt) = OK /\ ParamsRefusal(a.params) = OK
    BY <2>3, <2>4, SealFacts
  <2>12. /\ pwEnv = [scheme |-> pwEnv.scheme, aead |-> pwEnv.aead, alg |-> pwEnv.alg, nonce |-> pwEnv.nonce,
                   salt |-> pwEnv.salt, params |-> pwEnv.params]
    BY <2>2 DEF StoredInv
  <2>13. ASSUME pwResult.kind = "match"
         PROVE  BelongsTogether /\ new = old
    <3>1. pwBlob.commitment = wanted /\ pwClaim # NoPwHashes /\ pwBlob.short = FALSE /\ pwBlob.intact = TRUE
      BY <2>8, <2>9, <2>10, <2>13
    <3>2. wanted.hashes = pwClaim /\ [made EXCEPT !.hashes = NoPwHashes].hashes = NoPwHashes
      BY <2>6 DEF PwCommitment
    <3>3. pwBlob.commitment = made /\ made = wanted
      BY <2>8, <3>1, <3>2
    <3>4. /\ pwEnv.nonce = a.nonce /\ pwEnv.salt = a.salt /\ pwEnv.params = a.params
          /\ pwClaim = a.hashes /\ read = sealed
      BY <2>6, <3>3 DEF PwCommitment
    <3>5. new.text = old.text
      BY <2>6, <3>4 DEF Cek
    <3>6. new = old
      BY <2>5, <2>9, <2>10, <2>11, <2>13, <3>5
    <3>7. pwBlob = BlobOf(a)
      BY <2>7, <2>8, <3>1, <3>3
    <3>8. pwEnv = EnvelopeOf(a)
      BY <2>9, <2>10, <2>12, <2>13, <3>4 DEF EnvelopeOf
    <3>9. QED
      BY <2>3, <3>4, <3>6, <3>7, <3>8 DEF BelongsTogether
  <2>14. ASSUME BelongsTogether, new = old
         PROVE  pwResult.kind = "match"
    <3>1. pwBlob = BlobOf(a) /\ pwEnv = EnvelopeOf(a) /\ pwClaim = a.hashes
      BY <2>3, <2>14 DEF BelongsTogether
    <3>2. /\ pwEnv.scheme = 1 /\ pwEnv.aead = "stream64k" /\ pwEnv.alg = "argon2id"
          /\ pwEnv.nonce = a.nonce /\ pwEnv.salt = a.salt /\ pwEnv.params = a.params
      BY <3>1 DEF EnvelopeOf
    <3>3. CallRefusal(pwEnv, pwClaim, typed) = OK
      BY <2>10, <2>11, <2>14, <3>1, <3>2
    <3>4. read = sealed /\ made = wanted
      BY <2>6, <2>14, <3>1, <3>2
    <3>5. /\ pwBlob.commitment = made /\ pwBlob.key = [cek |-> sealed, nonce |-> a.nonce]
          /\ pwBlob.short = FALSE /\ pwBlob.intact = TRUE
      BY <2>7, <3>1
    <3>6. QED
      BY <2>9, <3>2, <3>3, <3>4, <3>5
  <2>15. QED
    BY <2>3, <2>4, <2>13, <2>14 DEF Password
<1>2. QED
  BY <1>1, PassphraseInvariant, PTL

\* No derivation runs below the floors, and what is wrong with a call is said
\* whatever the blob (_assert_argon2id_params, _assert_passphrase_envelope).
THEOREM PassphraseErrorsFirst ==
  ASSUME PassphraseAssumption
  PROVE  PhraseSpec => []ErrorsComeBeforeTheBlob
<1>1. ASSUME PhraseInv PROVE ErrorsComeBeforeTheBlob
  <2>1. ASSUME pwAt = "sealed" \/ kdfRan
        PROVE  LET params == IF kdfRan THEN pwEnv.params ELSE pwBlob.args.params
               IN /\ params.m >= ARGON2_M_MIN /\ params.t >= ARGON2_T_MIN
                  /\ params.p >= ARGON2_P_MIN
    <3>1. StoredInv
      BY <1>1, <2>1 DEF PhraseInv, HasOpened
    <3>2. CASE kdfRan
      <4>1. CallRefusal(pwEnv, pwClaim, typed) = OK
        BY <1>1, <3>2 DEF PhraseInv, HasOpened, OpenedInv
      <4>2. pwEnv.params \in Params /\ ParamsRefusal(pwEnv.params) = OK
        BY <3>1, <4>1, CallFacts, PhraseEnvelopeFacts DEF StoredInv
      <4>3. QED
        BY <3>2, <4>2, ParamsFacts
    <3>3. CASE ~kdfRan
      <4>1. pwBlob.args.params \in Params /\ ParamsRefusal(pwBlob.args.params) = OK
        BY <3>1, SealFacts DEF StoredInv, Args
      <4>2. QED
        BY <3>3, <4>1, ParamsFacts
    <3>4. QED
      BY <3>2, <3>3
  <2>2. ASSUME pwAt = "done", typed # <<>>, CallRefusal(pwEnv, pwClaim, typed) # OK, NEW b
        PROVE  PwOpened(pwEnv, pwClaim, typed, b) = pwResult
    <3>1. pwResult = PwOpened(pwEnv, pwClaim, typed, pwBlob)
      BY <1>1, <2>2 DEF PhraseInv, HasOpened, OpenedInv
    <3>2. QED
      BY <2>2, <3>1 DEF PwOpened
  <2>3. QED
    BY <2>1, <2>2 DEF ErrorsComeBeforeTheBlob
<1>2. QED
  BY <1>1, PassphraseInvariant, PTL

\* Whatever the tables, parameters and claims: a blob opens under its passphrase in
\* its own record only, and a call's faults are the same whatever the blob
\* (passphrase_sealed_poe_open).
THEOREM PassphrasesAlwaysOpenTheirOwn ==
  ASSUME PassphraseAssumption
  PROVE  PhraseSpec => []PassphrasesOpenTheirOwn
<1>1. PhraseInv /\ OpensOnlyThePassphrase /\ ErrorsComeBeforeTheBlob
        => PassphrasesOpenTheirOwn
  BY DEF PassphrasesOpenTheirOwn
<1>2. QED
  BY <1>1, PassphraseInvariant, PassphraseOpens, PassphraseErrorsFirst, PTL

-----------------------------------------------------------------------------
(* What the readings say                                                   *)

\* What the verifier's checks find: an error unless the blob decodes, its key is
\* the one expected and its signature is that key's over this record.
LEMMA VerifyFacts ==
  ASSUME NEW given, NEW x, NEW expected, NEW key,
         key = IF Sized(given.header.kid) THEN given.header.kid ELSE expected
  PROVE  LET code == Label309Verify(given, x, expected)
         IN /\ code = OK <=>
                 /\ Decodes(given) /\ given.payload = "null" /\ given.header.alg = EdDSA
                 /\ Sized(key) /\ (Sized(expected) => key = expected)
                 /\ given.sig = [by |-> key, over |-> SigStructure(given.header, x, given.hashed)]
            /\ Decodes(given) /\ given.payload = "null" =>
                 code \notin {"MALFORMED_SIG_COSE", "MALFORMED_SIG_COSE_SIGN1"}
<1> DEFINE genuine == given.sig = [by |-> key, over |-> SigStructure(given.header, x, given.hashed)]
           checks == <<
             <<"MALFORMED_SIG_COSE", ~Decodes(given)>>,
             <<"MALFORMED_SIG_COSE_SIGN1", given.payload # "null">>,
             <<"UNSUPPORTED_SIG_ALG", given.header.alg # EdDSA>>,
             <<"KID_UNRESOLVED", ~Sized(key)>>,
             <<"KID_UNRESOLVED", Sized(expected) /\ key # expected>>,
             <<"SIGNATURE_INVALID", ~genuine>> >>
<1>1. Label309Verify(given, x, expected) = FirstFailing(checks)
  BY DEF Label309Verify
<1>2. DOMAIN checks = 1..6
  OBVIOUS
<1>3. /\ checks[1][2] <=> ~Decodes(given)
      /\ checks[2][2] <=> given.payload # "null"
      /\ checks[3][2] <=> given.header.alg # EdDSA
      /\ checks[4][2] <=> ~Sized(key)
      /\ checks[5][2] <=> Sized(expected) /\ key # expected
      /\ checks[6][2] <=> ~genuine
  OBVIOUS
<1>4. /\ checks[1][1] = "MALFORMED_SIG_COSE"
      /\ checks[2][1] = "MALFORMED_SIG_COSE_SIGN1"
      /\ checks[3][1] = "UNSUPPORTED_SIG_ALG"
      /\ checks[4][1] = "KID_UNRESOLVED"
      /\ checks[5][1] = "KID_UNRESOLVED"
      /\ checks[6][1] = "SIGNATURE_INVALID"
  OBVIOUS
<1> HIDE DEF checks
<1>5. 6 \in Nat /\ \A c \in 1..6 : c \in {1, 2, 3, 4, 5, 6}
  OBVIOUS
<1>6. \/ (\A c \in 1..6 : ~checks[c][2]) /\ FirstFailing(checks) = OK
      \/ \E c \in 1..6 : checks[c][2] /\ FirstFailing(checks) = checks[c][1]
  BY <1>2, <1>5, FirstFailingFacts
<1>7. QED
  BY <1>1, <1>3, <1>4, <1>5, <1>6 DEF OK

\* The key the verifier takes an entry to be signed with is a key, or none.
LEMMA ResolvedFacts ==
  ASSUME KeysAssumption, SignatureTypeOK
  PROVE  /\ Resolved(entry) \in SignKeys \cup {"none"}
         /\ Resolved(entry) # "none" => Sized(Resolved(entry))
BY DEF SignatureTypeOK, KeysAssumption, Resolved, ParseCoseKey, Sized, Headers, CoseKeys

\* An entry is valid exactly when its signature is by the key it resolves to,
\* over the record under the entry's header, and an inline key is bound by the
\* wallet's address.
LEMMA ValidFacts ==
  ASSUME KeysAssumption, SignatureTypeOK, NEW net
  PROVE  LET key == Resolved(entry)
             read == VerifyOneSig(entry, record, net)
         IN /\ read.verdict = "valid" <=>
                 /\ Decodes(entry.cose) /\ entry.cose.payload = "null"
                 /\ entry.cose.header.alg = EdDSA /\ key # "none"
                 /\ Sized(entry.cose.header.kid) => key = entry.cose.header.kid
                 /\ entry.cose.sig =
                      [by |-> key, over |-> SigStructure(entry.cose.header, record, entry.cose.hashed)]
                 /\ entry.key.is # "absent" => AddressBinds(entry, key, net)
            /\ read.verdict = "valid" => read.signer = key
            /\ Decodes(entry.cose) /\ entry.cose.payload = "null" =>
                 read.reason # "MALFORMED_SIG_COSE_SIGN1"
<1> DEFINE key == Resolved(entry)
           kid == entry.cose.header.kid
           code == Label309Verify(entry.cose, record, key)
           read == VerifyOneSig(entry, record, net)
<1>1. key # "none" => Sized(key)
  BY ResolvedFacts
<1>2. ASSUME key # "none"
      PROVE  code = OK <=>
               /\ Decodes(entry.cose) /\ entry.cose.payload = "null"
               /\ entry.cose.header.alg = EdDSA
               /\ Sized(kid) => key = kid
               /\ entry.cose.sig =
                    [by |-> key, over |-> SigStructure(entry.cose.header, record, entry.cose.hashed)]
  <2>1. CASE Sized(kid)
    <3>1. kid = IF Sized(kid) THEN kid ELSE key
      BY <2>1
    <3>2. code = OK <=>
            /\ Decodes(entry.cose) /\ entry.cose.payload = "null"
            /\ entry.cose.header.alg = EdDSA /\ Sized(kid) /\ (Sized(key) => kid = key)
            /\ entry.cose.sig =
                 [by |-> kid, over |-> SigStructure(entry.cose.header, record, entry.cose.hashed)]
      BY <3>1, VerifyFacts
    <3>3. QED
      BY <1>1, <1>2, <2>1, <3>2
  <2>2. CASE ~Sized(kid)
    <3>1. key = IF Sized(kid) THEN kid ELSE key
      BY <2>2
    <3>2. QED
      BY <1>1, <1>2, <2>2, <3>1, VerifyFacts
  <2>3. QED
    BY <2>1, <2>2
<1>3. Decodes(entry.cose) /\ entry.cose.payload = "null" =>
        code \notin {"MALFORMED_SIG_COSE", "MALFORMED_SIG_COSE_SIGN1"}
  <2>1. PICK any : any = IF Sized(kid) THEN kid ELSE key
    OBVIOUS
  <2>2. QED
    BY <2>1, VerifyFacts
<1> HIDE DEF code
<1>4. \/ ~Decodes(entry.cose) /\ read = Verdict("invalid", "MALFORMED_SIG_COSE_SIGN1", "none")
      \/ Decodes(entry.cose) /\ key = "none" /\ read = Verdict("unresolved", "SIGNER_KEY_UNRESOLVED", "none")
      \/ /\ Decodes(entry.cose) /\ key # "none" /\ code # OK
         /\ \E v \in {"unsupported", "invalid"} : read = Verdict(v, Reason(code), key)
      \/ /\ Decodes(entry.cose) /\ key # "none" /\ code = OK
         /\ entry.key.is # "absent" /\ ~AddressBinds(entry, key, net)
         /\ read = Verdict("invalid", "WALLET_ADDRESS_MISMATCH", key)
      \/ /\ Decodes(entry.cose) /\ key # "none" /\ code = OK
         /\ entry.key.is # "absent" => AddressBinds(entry, key, net)
         /\ read = Verdict("valid", "none", key)
  BY DEF VerifyOneSig, code
<1>5. code \notin {"MALFORMED_SIG_COSE", "MALFORMED_SIG_COSE_SIGN1"} =>
        Reason(code) # "MALFORMED_SIG_COSE_SIGN1"
  BY DEF Reason
<1>6. \A v, r, k : /\ Verdict(v, r, k).verdict = v /\ Verdict(v, r, k).reason = r
                   /\ Verdict(v, r, k).signer = k
  BY DEF Verdict
<1> HIDE DEF read
<1>7. read.verdict = "valid" <=>
        /\ Decodes(entry.cose) /\ key # "none" /\ code = OK
        /\ entry.key.is # "absent" => AddressBinds(entry, key, net)
  BY <1>4, <1>6
<1>8. read.verdict = "valid" => read.signer = key
  BY <1>4, <1>6
<1>9. Decodes(entry.cose) /\ entry.cose.payload = "null" => read.reason # "MALFORMED_SIG_COSE_SIGN1"
  BY <1>3, <1>4, <1>5, <1>6
<1>10. QED
  BY <1>2, <1>7, <1>8, <1>9 DEF read

\* The validator names a private key in a map before anything else.
LEMMA CoseKeyFacts ==
  ASSUME NEW key
  PROVE  /\ CoseKeyIssue(key) \in {OK, "MALFORMED_SIG_COSE_SIGN1", "SIG_PRIVATE_KEY_LEAKED"}
         /\ key.private /\ key.is # "junk" => CoseKeyIssue(key) = "SIG_PRIVATE_KEY_LEAKED"
<1> DEFINE ill == key.kty # 1 \/ key.crv # 6 \/ ~Sized(key.x)
           junk == key.is = "junk"
           private == key.private
           checks == << <<"MALFORMED_SIG_COSE_SIGN1", junk>>, <<"SIG_PRIVATE_KEY_LEAKED", private>>,
                        <<"MALFORMED_SIG_COSE_SIGN1", ill>> >>
<1>1. CoseKeyIssue(key) = FirstFailing(checks)
  BY DEF CoseKeyIssue
<1> HIDE DEF ill, junk, private
<1>2. /\ DOMAIN checks = 1..3
      /\ checks[1][1] = "MALFORMED_SIG_COSE_SIGN1" /\ checks[1][2] = junk
      /\ checks[2][1] = "SIG_PRIVATE_KEY_LEAKED" /\ checks[2][2] = private
      /\ checks[3][1] = "MALFORMED_SIG_COSE_SIGN1" /\ checks[3][2] = ill
  OBVIOUS
<1> HIDE DEF checks
<1>3. 3 \in Nat /\ 1..3 = {1, 2, 3} /\ 1 \in 1..(3 - 1)
  OBVIOUS
<1>4. \/ (\A c \in 1..3 : ~checks[c][2]) /\ FirstFailing(checks) = OK
      \/ \E c \in 1..3 : /\ checks[c][2] /\ \A b \in 1..(c - 1) : ~checks[b][2]
                         /\ FirstFailing(checks) = checks[c][1]
  BY <1>2, <1>3, FirstFailingFacts
<1>5. CASE (\A c \in 1..3 : ~checks[c][2]) /\ FirstFailing(checks) = OK
  BY <1>1, <1>2, <1>3, <1>5 DEF private
<1>6. CASE \E c \in 1..3 : /\ checks[c][2] /\ \A b \in 1..(c - 1) : ~checks[b][2]
                           /\ FirstFailing(checks) = checks[c][1]
  <2>1. PICK c \in 1..3 : /\ checks[c][2] /\ \A b \in 1..(c - 1) : ~checks[b][2]
                          /\ FirstFailing(checks) = checks[c][1]
    BY <1>6
  <2>2. CASE c = 1
    BY <1>1, <1>2, <2>1, <2>2 DEF junk
  <2>3. CASE c = 2
    BY <1>1, <1>2, <2>1, <2>3
  <2>4. CASE c = 3
    <3>1. ~checks[2][2]
      BY <2>1, <2>4
    <3>2. QED
      BY <1>1, <1>2, <2>1, <2>4, <3>1 DEF private
  <2>5. QED
    BY <1>3, <2>2, <2>3, <2>4
<1>7. QED
  BY <1>4, <1>5, <1>6

-----------------------------------------------------------------------------
(* The properties follow from the invariant                                *)

\* A signature that verifies is one that was made, by the signer, over this
\* record.
LEMMA ValidSpeaks ==
  ASSUME KeysAssumption, SignatureInv
  PROVE  ValidSpeaksForTheRecord
<1>1. SUFFICES ASSUME verdict.verdict = "valid"
               PROVE  /\ \E sig \in signed : /\ sig.by = verdict.signer
                                             /\ sig.over.header = entry.cose.header
                                             /\ sig.over.toSign = record
                      /\ entry.key.is # "absent" =>
                           entry.cose.header.address = <<NetworkByte(network), verdict.signer>>
  BY DEF ValidSpeaksForTheRecord
<1> DEFINE key == Resolved(entry)
<1>2. /\ SignatureTypeOK /\ stage = "read" /\ verdict = VerifyOneSig(entry, record, network)
      /\ entry.cose.sig \in signed \cup {NoSig}
  BY <1>1 DEF SignatureInv, ReadingInv, HistoryInv
<1>3. /\ key # "none" /\ verdict.signer = key
      /\ entry.cose.sig =
           [by |-> key, over |-> SigStructure(entry.cose.header, record, entry.cose.hashed)]
      /\ entry.key.is # "absent" => AddressBinds(entry, key, network)
  BY <1>1, <1>2, ValidFacts
<1> HIDE DEF key
<1>4. /\ entry.cose.sig.by = key /\ entry.cose.sig.over.header = entry.cose.header
      /\ entry.cose.sig.over.toSign = record
  BY <1>3 DEF SigStructure
<1>5. entry.cose.sig # NoSig
  BY <1>3, <1>4 DEF NoSig
<1>6. QED
  BY <1>2, <1>3, <1>4, <1>5 DEF AddressBinds, StakeAddress

\* What the library assembled carries what it prepared, and is valid when the
\* key answered, in that mode and for the record as it is.
LEMMA LibraryVerifies ==
  ASSUME KeysAssumption, SignatureInv
  PROVE  LibrarySignaturesVerify
<1> DEFINE assembled == Detached(Path1(asked.key), entry.cose.hashed, asked.sig)
<1>1. SUFFICES ASSUME stage = "read",
                      entry = [cose |-> assembled, key |-> NoKey, maker |-> "library"]
               PROVE  verdict.verdict = "valid" <=>
                        /\ asked.sig.by = asked.key /\ asked.body = record
                        /\ asked.hashed = entry.cose.hashed
  BY DEF LibrarySignaturesVerify
<1>2. /\ SignatureTypeOK /\ verdict = VerifyOneSig(entry, record, network)
      /\ asked.key \in SignKeys /\ asked.answered
      /\ asked.sig.over = SigStructure(Path1(asked.key), asked.body, asked.hashed)
  BY <1>1 DEF SignatureInv, SignatureTypeOK, ReadingInv, HistoryInv
<1>3. entry.cose = assembled /\ entry.key = NoKey
  BY <1>1
<1>4. /\ Decodes(entry.cose) /\ entry.cose.payload = "null"
      /\ entry.cose.header = Path1(asked.key) /\ entry.cose.sig = asked.sig
  BY <1>3 DEF Detached, Blob, Decodes
<1> HIDE DEF assembled
<1>5. /\ entry.cose.header.alg = EdDSA /\ entry.cose.header.kid = asked.key
      /\ entry.key.is = "absent"
  BY <1>3, <1>4 DEF Path1, Header, NoKey
<1>6. Sized(asked.key) /\ asked.key # "none" /\ Resolved(entry) = asked.key
  BY <1>2, <1>5 DEF Sized, Resolved, KeysAssumption
<1>7. verdict.verdict = "valid" <=>
        asked.sig = [by |-> asked.key,
                     over |-> SigStructure(Path1(asked.key), record, entry.cose.hashed)]
  BY <1>2, <1>4, <1>5, <1>6, ValidFacts
<1>8. asked.sig \in [by : SignKeys \cup {"none"}, over : Structures]
  BY <1>2 DEF SignatureTypeOK, Sigs
<1>9. asked.sig = [by |-> asked.key,
                   over |-> SigStructure(Path1(asked.key), record, entry.cose.hashed)]
        <=> asked.sig.by = asked.key /\ asked.body = record /\ asked.hashed = entry.cose.hashed
  BY <1>2, <1>8 DEF SigStructure
<1>10. QED
  BY <1>7, <1>9

\* Where the validator finds no fault with an entry's shape, the verifier finds
\* none.
LEMMA RolesAgree ==
  ASSUME KeysAssumption, SignatureInv
  PROVE  RolesAgreeOnShape
<1>1. SUFFICES ASSUME stage = "read"
               PROVE  /\ issues \subseteq {"SIGNATURE_UNSUPPORTED"} =>
                           verdict.reason # "MALFORMED_SIG_COSE_SIGN1"
                      /\ entry.key.private => "SIG_PRIVATE_KEY_LEAKED" \in issues
  BY DEF RolesAgreeOnShape
<1>2. /\ SignatureTypeOK /\ verdict = VerifyOneSig(entry, record, network) /\ issues = SigEntryIssues(entry)
      /\ entry.key.private => entry.key.is = "key"
  BY <1>1 DEF SignatureInv, ReadingInv, HistoryInv
<1> DEFINE fault == CoseKeyIssue(entry.key)
<1>3. /\ fault \in {OK, "MALFORMED_SIG_COSE_SIGN1", "SIG_PRIVATE_KEY_LEAKED"}
      /\ entry.key.private => fault = "SIG_PRIVATE_KEY_LEAKED"
  BY <1>2, CoseKeyFacts
<1> HIDE DEF fault
<1>4. CASE entry.key.is # "absent" /\ fault # OK
  <2>1. issues = {fault} /\ fault # "SIGNATURE_UNSUPPORTED"
    BY <1>2, <1>3, <1>4 DEF SigEntryIssues, fault, OK
  <2>2. QED
    BY <1>3, <2>1
<1>5. CASE entry.key.is = "absent" \/ fault = OK
  <2>1. ~entry.key.private
    BY <1>2, <1>3, <1>5 DEF OK
  <2>2. CASE ~Decodes(entry.cose) \/ entry.cose.payload # "null"
    <3>1. issues = {"MALFORMED_SIG_COSE_SIGN1"}
      BY <1>2, <1>5, <2>2 DEF SigEntryIssues, fault
    <3>2. QED
      BY <2>1, <3>1
  <2>3. CASE Decodes(entry.cose) /\ entry.cose.payload = "null"
    <3>1. verdict.reason # "MALFORMED_SIG_COSE_SIGN1"
      BY <1>2, <2>3, ValidFacts
    <3>2. QED
      BY <2>1, <3>1
  <2>4. QED
    BY <2>2, <2>3
<1>6. QED
  BY <1>4, <1>5

-----------------------------------------------------------------------------
(* The invariant is inductive                                              *)

\* The values entries are made of have their types.
LEMMA ValueTypes ==
  ASSUME KeysAssumption
  PROVE  /\ NoHeader \in Headers /\ NoSig \in Sigs /\ NoKey \in CoseKeys
         /\ \A key \in SignKeys : CoseKey(key) \in CoseKeys /\ Path1(key) \in Headers
         /\ \A header \in Headers, x \in Bodies \cup {"none"}, hashed \in BOOLEAN :
              SigStructure(header, x, hashed) \in Structures
<1>1. NoHeader \in Headers
  BY DEF NoHeader, Header, Headers
<1>2. \A header \in Headers, x \in Bodies \cup {"none"}, hashed \in BOOLEAN :
        SigStructure(header, x, hashed) \in Structures
  BY DEF SigStructure, Structures
<1>3. NoSig \in Sigs
  BY <1>1, <1>2 DEF NoSig, Sigs
<1>4. NoKey \in CoseKeys
  BY DEF NoKey, CoseKeys
<1>5. \A key \in SignKeys : CoseKey(key) \in CoseKeys
  BY DEF CoseKey, CoseKeys
<1>6. \A key \in SignKeys : Path1(key) \in Headers
  BY DEF Path1, Header, Headers, EdDSA
<1>7. QED
  BY <1>1, <1>2, <1>3, <1>4, <1>5, <1>6

\* An entry's way begins in the invariant.
LEMMA SignatureInitHolds ==
  ASSUME KeysAssumption, SignatureInit
  PROVE  SignatureInv
<1>1. /\ Nobody \in [cose : [shape : Shapes, header : Headers, hashed : BOOLEAN,
                             payload : {"null", "attached"}, sig : Sigs],
                     key : CoseKeys, maker : {"none", "library", "wallet"}]
      /\ Nobody.cose.sig = NoSig /\ Nobody.maker = "none" /\ ~Nobody.key.private
  <2>1. Blob(NoHeader, FALSE, "null", NoSig)
          \in [shape : Shapes, header : Headers, hashed : BOOLEAN,
               payload : {"null", "attached"}, sig : Sigs]
    BY ValueTypes DEF Blob, Shapes
  <2>2. Blob(NoHeader, FALSE, "null", NoSig).sig = NoSig /\ ~NoKey.private
    BY DEF Blob, NoKey
  <2>3. QED
    BY <2>1, <2>2, ValueTypes DEF Nobody
<1>2. /\ Unasked \in [key : SignKeys \cup {"none"}, hashed : BOOLEAN, body : Bodies \cup {"none"},
                      structure : Structures, sig : Sigs, answered : BOOLEAN]
      /\ Unasked.key = "none" /\ Unasked.sig = NoSig /\ ~Unasked.answered
  <2>1. NoSig.over \in Structures
    BY ValueTypes DEF Sigs
  <2>2. QED
    BY <2>1, ValueTypes DEF Unasked
<1>3. SignatureTypeOK
  BY <1>1, <1>2 DEF SignatureInit, SignatureTypeOK, KeysAssumption
<1>4. HistoryInv
  BY <1>1, <1>2 DEF SignatureInit, HistoryInv
<1>5. ReadingInv
  BY DEF SignatureInit, ReadingInv, Verdict
<1>6. QED
  BY <1>3, <1>4, <1>5 DEF SignatureInv

\* What an alteration leaves: the entry's signature and its maker, and a key that
\* is still well-typed.
LEMMA AlteredEntries ==
  ASSUME KeysAssumption, SignatureInv, AlterEntry
  PROVE  /\ entry' \in [cose : [shape : Shapes, header : Headers, hashed : BOOLEAN,
                                payload : {"null", "attached"}, sig : Sigs],
                        key : CoseKeys, maker : {"none", "library", "wallet"}]
         /\ entry'.cose.sig = entry.cose.sig /\ entry'.maker = entry.maker
         /\ entry'.key.private => entry'.key.is = "key"
<1> DEFINE Coses == [shape : Shapes, header : Headers, hashed : BOOLEAN,
                     payload : {"null", "attached"}, sig : Sigs]
           Makers == {"none", "library", "wallet"}
           Good(e) == /\ e \in [cose : Coses, key : CoseKeys, maker : Makers]
                      /\ e.cose.sig = entry.cose.sig /\ e.maker = entry.maker
                      /\ e.key.private => e.key.is = "key"
<1>1. entry \in [cose : Coses, key : CoseKeys, maker : Makers]
  BY DEF SignatureInv, SignatureTypeOK
<1>2. entry.key.private => entry.key.is = "key"
  BY DEF SignatureInv, HistoryInv
<1>3. ASSUME NEW cose \in Coses, cose.sig = entry.cose.sig, entry' = [entry EXCEPT !.cose = cose]
      PROVE  Good(entry')
  <2> HIDE DEF Coses, Makers
  <2>1. QED
    BY <1>1, <1>2, <1>3
<1>4. ASSUME NEW key \in CoseKeys, key.private => key.is = "key",
             entry' = [entry EXCEPT !.key = key]
      PROVE  Good(entry')
  <2> HIDE DEF Coses, Makers
  <2>1. QED
    BY <1>1, <1>4
<1> HIDE DEF Good
<1>5. entry.cose \in Coses /\ entry.cose.header \in Headers
  BY <1>1
<1>6. ASSUME NEW shape \in Shapes, entry' = [entry EXCEPT !.cose.shape = shape]
      PROVE  Good(entry')
  <2>1. entry' = [entry EXCEPT !.cose = [entry.cose EXCEPT !.shape = shape]]
    BY <1>1, <1>6
  <2>2. /\ [entry.cose EXCEPT !.shape = shape] \in Coses
        /\ [entry.cose EXCEPT !.shape = shape].sig = entry.cose.sig
    BY <1>5
  <2>3. QED
    BY <1>3, <2>1, <2>2
<1>7. ASSUME NEW header \in Headers,
             entry' = [entry EXCEPT !.cose = [entry.cose EXCEPT !.header = header]]
      PROVE  Good(entry')
  <2>1. /\ [entry.cose EXCEPT !.header = header] \in Coses
        /\ [entry.cose EXCEPT !.header = header].sig = entry.cose.sig
    BY <1>5
  <2>2. QED
    BY <1>3, <1>7, <2>1
<1>8. ASSUME NEW alg \in {0, EdDSA, -19, -7}, entry' = [entry EXCEPT !.cose.header.alg = alg]
      PROVE  Good(entry')
  <2>1. [entry.cose.header EXCEPT !.alg = alg] \in Headers
    BY <1>5 DEF Headers
  <2>2. entry' = [entry EXCEPT !.cose = [entry.cose EXCEPT !.header =
                                           [entry.cose.header EXCEPT !.alg = alg]]]
    BY <1>1, <1>8
  <2>3. QED
    BY <1>7, <2>1, <2>2
<1>9. ASSUME NEW kid \in SignKeys \cup {"none", "short"},
             entry' = [entry EXCEPT !.cose.header.kid = kid]
      PROVE  Good(entry')
  <2>1. [entry.cose.header EXCEPT !.kid = kid] \in Headers
    BY <1>5 DEF Headers
  <2>2. entry' = [entry EXCEPT !.cose = [entry.cose EXCEPT !.header =
                                           [entry.cose.header EXCEPT !.kid = kid]]]
    BY <1>1, <1>9
  <2>3. QED
    BY <1>7, <2>1, <2>2
<1>10. ASSUME NEW key \in SignKeys, NEW net \in SigNetworks,
              entry' = [entry EXCEPT !.cose.header.address = StakeAddress(key, net)]
       PROVE  Good(entry')
  <2>1. [entry.cose.header EXCEPT !.address = StakeAddress(key, net)] \in Headers
    BY <1>5 DEF Headers
  <2>2. entry' = [entry EXCEPT !.cose = [entry.cose EXCEPT !.header =
                    [entry.cose.header EXCEPT !.address = StakeAddress(key, net)]]]
    BY <1>1, <1>10
  <2>3. QED
    BY <1>7, <2>1, <2>2
<1>11. ASSUME entry' = [entry EXCEPT !.cose.hashed = ~@]
       PROVE  Good(entry')
  <2>1. entry' = [entry EXCEPT !.cose = [entry.cose EXCEPT !.hashed = ~entry.cose.hashed]]
    BY <1>1, <1>11
  <2>2. /\ [entry.cose EXCEPT !.hashed = ~entry.cose.hashed] \in Coses
        /\ [entry.cose EXCEPT !.hashed = ~entry.cose.hashed].sig = entry.cose.sig
    BY <1>5
  <2>3. QED
    BY <1>3, <2>1, <2>2
<1>12. ASSUME entry' = [entry EXCEPT !.cose.payload = "attached"]
       PROVE  Good(entry')
  <2>1. entry' = [entry EXCEPT !.cose = [entry.cose EXCEPT !.payload = "attached"]]
    BY <1>1, <1>12
  <2>2. /\ [entry.cose EXCEPT !.payload = "attached"] \in Coses
        /\ [entry.cose EXCEPT !.payload = "attached"].sig = entry.cose.sig
    BY <1>5
  <2>3. QED
    BY <1>3, <2>1, <2>2
<1>13. ASSUME NEW key \in SignKeys, entry' = [entry EXCEPT !.key = CoseKey(key)]
       PROVE  Good(entry')
  <2>1. CoseKey(key) \in CoseKeys /\ ~CoseKey(key).private
    BY ValueTypes DEF CoseKey
  <2>2. QED
    BY <1>4, <1>13, <2>1
<1>14. ASSUME entry' = [entry EXCEPT !.key = NoKey]
       PROVE  Good(entry')
  <2>1. NoKey \in CoseKeys /\ ~NoKey.private
    BY ValueTypes DEF NoKey
  <2>2. QED
    BY <1>4, <1>14, <2>1
<1>15. ASSUME NEW key \in {[CoseKey("short") EXCEPT !.kty = kty] : kty \in {1, 2}}
                            \cup {[CoseKey(k) EXCEPT !.crv = 7] : k \in SignKeys}
                            \cup {[CoseKey(k) EXCEPT !.alg = -7] : k \in SignKeys}
                            \cup {[CoseKey(k) EXCEPT !.private = TRUE] : k \in SignKeys}
                            \cup {[NoKey EXCEPT !.is = "junk"]},
              entry' = [entry EXCEPT !.key = key]
       PROVE  Good(entry')
  <2>1. key \in CoseKeys /\ (key.private => key.is = "key")
    BY <1>15 DEF CoseKey, CoseKeys, NoKey
  <2>2. QED
    BY <1>4, <1>15, <2>1
<1>16. Good(entry')
  BY <1>6, <1>8, <1>9, <1>10, <1>11, <1>12, <1>13, <1>14, <1>15 DEF AlterEntry
<1>17. QED
  BY <1>16 DEF Good

\* Every step keeps the invariant: a signature is recorded when it is made, and
\* once the entry is read it stays as it is.
LEMMA SignatureNextHolds ==
  ASSUME KeysAssumption, SignatureInv, [SignatureNext]_(signatureVars)
  PROVE  SignatureInv'
<1> USE DEF SignatureInv
<1>1. ASSUME NEW key \in SignKeys, NEW hashed \in BOOLEAN, Prepare(key, hashed)
      PROVE  SignatureInv'
  <2> DEFINE structure == SigStructure(Path1(key), record, hashed)
  <2>1. structure \in Structures /\ NoSig \in Sigs /\ record \in Bodies
    BY ValueTypes DEF SignatureTypeOK
  <2>2. asked' = [key |-> key, hashed |-> hashed, body |-> record, sig |-> NoSig, answered |-> FALSE,
                  structure |-> structure]
    BY <1>1 DEF Prepare
  <2>3. /\ asked'.key = key /\ asked'.hashed = hashed /\ asked'.body = record
        /\ asked'.sig = NoSig /\ ~asked'.answered /\ asked'.structure = structure
    BY <2>2
  <2>4. asked' \in [key : SignKeys \cup {"none"}, hashed : BOOLEAN, body : Bodies \cup {"none"},
                    structure : Structures, sig : Sigs, answered : BOOLEAN]
    <3> HIDE DEF structure
    <3>1. QED
      BY <2>1, <2>2
  <2>5. SignatureTypeOK'
    BY <1>1, <2>4 DEF SignatureTypeOK, Prepare
  <2>6. entry.maker # "library"
    BY <1>1 DEF HistoryInv, Prepare, SignatureTypeOK
  <2>7. HistoryInv'
    BY <1>1, <2>3, <2>6 DEF HistoryInv, Prepare
  <2>8. ReadingInv'
    BY <1>1 DEF ReadingInv, Prepare
  <2>9. QED
    BY <2>5, <2>7, <2>8
<1>2. ASSUME NEW key \in SignKeys, Answer(key)
      PROVE  SignatureInv'
  <2> DEFINE sig == [by |-> key, over |-> asked.structure]
  <2>1. /\ asked' = [asked EXCEPT !.sig = sig, !.answered = TRUE]
        /\ signed' = signed \cup {sig} /\ asked.key # "none"
        /\ UNCHANGED <<stage, record, entry, steps, network, verdict, issues>>
    BY <1>2 DEF Answer
  <2>2. asked \in [key : SignKeys \cup {"none"}, hashed : BOOLEAN, body : Bodies \cup {"none"},
                   structure : Structures, sig : Sigs, answered : BOOLEAN]
    BY DEF SignatureTypeOK
  <2>3. sig \in Sigs /\ sig.over = asked.structure
    BY <2>2 DEF Sigs
  <2> HIDE DEF sig
  <2>4. /\ asked'.key = asked.key /\ asked'.hashed = asked.hashed /\ asked'.body = asked.body
        /\ asked'.structure = asked.structure /\ asked'.sig = sig /\ asked'.answered
    BY <2>1, <2>2
  <2>5. asked' \in [key : SignKeys \cup {"none"}, hashed : BOOLEAN, body : Bodies \cup {"none"},
                    structure : Structures, sig : Sigs, answered : BOOLEAN]
    BY <2>1, <2>2, <2>3
  <2>6. SignatureTypeOK'
    BY <2>1, <2>3, <2>5 DEF SignatureTypeOK
  <2>7. HistoryInv'
    BY <2>1, <2>3, <2>4 DEF HistoryInv
  <2>8. ReadingInv'
    BY <2>1 DEF ReadingInv
  <2>9. QED
    BY <2>6, <2>7, <2>8
<1>3. ASSUME NEW hashed \in BOOLEAN, Assemble(hashed)
      PROVE  SignatureInv'
  <2> DEFINE cose == Detached(Path1(asked.key), hashed, asked.sig)
  <2>1. /\ stage = "building" /\ asked.answered /\ stage' = "entered"
        /\ entry' = [cose |-> cose, key |-> NoKey, maker |-> "library"]
        /\ UNCHANGED <<record, asked, signed, steps, network, verdict, issues>>
    BY <1>3 DEF Assemble
  <2>2. asked.key \in SignKeys /\ asked.sig \in Sigs /\ asked.sig \in signed \cup {NoSig}
    BY <2>1 DEF SignatureTypeOK, HistoryInv
  <2>3. /\ cose \in [shape : Shapes, header : Headers, hashed : BOOLEAN,
                     payload : {"null", "attached"}, sig : Sigs]
        /\ cose.sig = asked.sig
    BY <2>2, ValueTypes DEF Detached, Blob, Shapes
  <2> HIDE DEF cose
  <2>4. entry'.cose = cose /\ entry'.key = NoKey
    BY <2>1
  <2>5. entry' \in [cose : [shape : Shapes, header : Headers, hashed : BOOLEAN,
                            payload : {"null", "attached"}, sig : Sigs],
                    key : CoseKeys, maker : {"none", "library", "wallet"}]
    BY <2>1, <2>3, ValueTypes
  <2>6. SignatureTypeOK'
    BY <2>1, <2>5 DEF SignatureTypeOK
  <2>7. ~NoKey.private
    BY DEF NoKey
  <2>8. HistoryInv'
    BY <2>1, <2>2, <2>3, <2>4, <2>7 DEF HistoryInv
  <2>9. ReadingInv'
    BY <2>1 DEF ReadingInv
  <2>10. QED
    BY <2>6, <2>8, <2>9
<1>4. ASSUME NEW key \in SignKeys, NEW alg \in {EdDSA, -7}, NEW address,
             NEW hashed \in BOOLEAN, NEW payload \in {"null", "attached"},
             address = NoAddress \/ \E holder \in SignKeys, net \in SigNetworks :
                                      address = StakeAddress(holder, net),
             WalletSigns(key, alg, address, hashed, payload)
      PROVE  SignatureInv'
  <2> DEFINE header == Header(alg, "none", address)
             sig == [by |-> key, over |-> SigStructure(header, record, hashed)]
             cose == Blob(header, hashed, payload, sig)
  <2>1. /\ stage = "building" /\ asked.key = "none" /\ stage' = "entered"
        /\ entry' = [cose |-> cose, key |-> CoseKey(key), maker |-> "wallet"]
        /\ signed' = signed \cup {sig}
        /\ UNCHANGED <<record, asked, steps, network, verdict, issues>>
    BY <1>4 DEF WalletSigns
  <2>2. header \in Headers
    BY <1>4 DEF Header, Headers
  <2> HIDE DEF header
  <2>3. SigStructure(header, record, hashed) \in Structures
    BY <2>2, ValueTypes DEF SignatureTypeOK
  <2>4. sig \in Sigs
    BY <2>3 DEF Sigs
  <2> HIDE DEF sig
  <2>5. /\ cose \in [shape : Shapes, header : Headers, hashed : BOOLEAN,
                     payload : {"null", "attached"}, sig : Sigs]
        /\ cose.sig = sig
    BY <2>2, <2>4 DEF Blob, Shapes
  <2> HIDE DEF cose
  <2>6. entry'.cose = cose /\ entry'.key = CoseKey(key) /\ entry'.maker = "wallet"
    BY <2>1
  <2>7. CoseKey(key) \in CoseKeys /\ ~CoseKey(key).private
    BY ValueTypes DEF CoseKey
  <2>8. entry' \in [cose : [shape : Shapes, header : Headers, hashed : BOOLEAN,
                            payload : {"null", "attached"}, sig : Sigs],
                    key : CoseKeys, maker : {"none", "library", "wallet"}]
    BY <2>1, <2>5, <2>7
  <2>9. SignatureTypeOK'
    BY <2>1, <2>4, <2>8 DEF SignatureTypeOK
  <2>10. HistoryInv'
    BY <2>1, <2>5, <2>6, <2>7 DEF HistoryInv
  <2>11. ReadingInv'
    BY <2>1 DEF ReadingInv
  <2>12. QED
    BY <2>9, <2>10, <2>11
<1>5. ASSUME ChangeBody
      PROVE  SignatureInv'
  <2>1. /\ stage # "read" /\ steps' = steps + 1 /\ steps < MaxSteps /\ record' \in Bodies
        /\ UNCHANGED <<stage, asked, entry, signed, network, verdict, issues>>
    BY <1>5 DEF ChangeBody
  <2>2. steps' \in 0..MaxSteps
    BY <2>1 DEF SignatureTypeOK, KeysAssumption
  <2>3. SignatureTypeOK' /\ HistoryInv' /\ ReadingInv'
    BY <2>1, <2>2 DEF SignatureTypeOK, HistoryInv, ReadingInv
  <2>4. QED
    BY <2>3
<1>6. ASSUME AlterEntry
      PROVE  SignatureInv'
  <2>1. /\ stage = "entered" /\ steps' = steps + 1 /\ steps < MaxSteps
        /\ UNCHANGED <<stage, record, asked, signed, network, verdict, issues>>
    BY <1>6 DEF AlterEntry
  <2>2. steps' \in 0..MaxSteps
    BY <2>1 DEF SignatureTypeOK, KeysAssumption
  <2>3. SignatureTypeOK'
    BY <1>6, <2>1, <2>2, AlteredEntries DEF SignatureTypeOK
  <2>4. HistoryInv'
    BY <1>6, <2>1, AlteredEntries DEF HistoryInv
  <2>5. ReadingInv'
    BY <2>1 DEF ReadingInv
  <2>6. QED
    BY <2>3, <2>4, <2>5
<1>7. ASSUME NEW net \in SigNetworks, ReadEntry(net)
      PROVE  SignatureInv'
  <2>1. /\ stage' = "read" /\ network' = net
        /\ verdict' = VerifyOneSig(entry, record, net) /\ issues' = SigEntryIssues(entry)
        /\ record' = record /\ asked' = asked /\ entry' = entry /\ signed' = signed /\ steps' = steps
    BY <1>7 DEF ReadEntry
  <2>2. SignatureTypeOK' /\ HistoryInv'
    BY <2>1 DEF SignatureTypeOK, HistoryInv
  <2>3. ReadingInv'
    BY <2>1 DEF ReadingInv
  <2>4. QED
    BY <2>2, <2>3
<1>8. CASE UNCHANGED signatureVars
  <2>1. SignatureTypeOK' /\ HistoryInv' /\ ReadingInv'
    BY <1>8 DEF signatureVars, SignatureTypeOK, HistoryInv, ReadingInv
  <2>2. QED
    BY <2>1
<1>9. ASSUME NEW key \in SignKeys, NEW holder \in SignKeys, NEW net \in SigNetworks,
             NEW alg \in {EdDSA, -7}, NEW hashed \in BOOLEAN, NEW payload \in {"null", "attached"},
             NEW named \in BOOLEAN,
             WalletSigns(key, alg, IF named THEN StakeAddress(holder, net) ELSE NoAddress,
                         hashed, payload)
      PROVE  SignatureInv'
  <2>1. PICK address : address = IF named THEN StakeAddress(holder, net) ELSE NoAddress
    OBVIOUS
  <2>2. WalletSigns(key, alg, address, hashed, payload)
    BY <1>9, <2>1
  <2>3. address = NoAddress \/ \E h \in SignKeys, n \in SigNetworks : address = StakeAddress(h, n)
    BY <2>1
  <2>4. QED
    BY <1>4, <2>2, <2>3
<1>10. QED
  BY <1>1, <1>2, <1>3, <1>5, <1>6, <1>7, <1>8, <1>9 DEF SignatureNext

-----------------------------------------------------------------------------
(* The theorems.  KeysAssumption: no key is called "none" or "short", the  *)
(* two marks of a key that is absent or of the wrong size.                 *)

\* The inductive invariant holds of every run.
THEOREM SignatureInvariant ==
  ASSUME KeysAssumption
  PROVE  SignatureSpec => []SignatureInv
<1>1. SignatureInit => SignatureInv
  BY SignatureInitHolds
<1>2. SignatureInv /\ [SignatureNext]_(signatureVars) => SignatureInv'
  BY SignatureNextHolds
<1>3. QED
  BY <1>1, <1>2, PTL DEF SignatureSpec

\* A valid verdict names a key whose holder signed this record's body under this
\* header, whatever was changed, copied or altered on the way, for any keys and
\* any number of changes (_verify_one_sig).
THEOREM ValidVerdictsAreGenuine ==
  ASSUME KeysAssumption
  PROVE  SignatureSpec => []ValidSpeaksForTheRecord
<1>1. SignatureInv => ValidSpeaksForTheRecord
  BY ValidSpeaks
<1>2. QED
  BY <1>1, SignatureInvariant, PTL

\* What the library prepared and assembled verifies exactly when the named key
\* answered, in the mode it was prepared for, over the record as it is read
\* (prepare_sig_structure, assemble_givensign1 and their hashed forms).
THEOREM AssembledSignaturesVerify ==
  ASSUME KeysAssumption
  PROVE  SignatureSpec => []LibrarySignaturesVerify
<1>1. SignatureInv => LibrarySignaturesVerify
  BY LibraryVerifies
<1>2. QED
  BY <1>1, SignatureInvariant, PTL

\* The validator and the verifier agree on which entries are malformed, and a
\* private key left in an entry is always named (_check_sig_entry).
THEOREM ValidatorAndVerifierAgree ==
  ASSUME KeysAssumption
  PROVE  SignatureSpec => []RolesAgreeOnShape
<1>1. SignatureInv => RolesAgreeOnShape
  BY RolesAgree
<1>2. QED
  BY <1>1, SignatureInvariant, PTL

\* Whatever the keys, records and changes on the way: a valid verdict speaks for
\* the record, the library's own signatures verify, and the two roles agree
\* (verify_record_signatures).
THEOREM SignaturesAlwaysSpeak ==
  ASSUME KeysAssumption
  PROVE  SignatureSpec => []SignaturesSpeakForTheirRecords
<1>1. SignatureInv /\ ValidSpeaksForTheRecord /\ LibrarySignaturesVerify /\ RolesAgreeOnShape
        => SignaturesSpeakForTheirRecords
  BY DEF SignaturesSpeakForTheirRecords
<1>2. QED
  BY <1>1, SignatureInvariant, ValidVerdictsAreGenuine, AssembledSignaturesVerify,
     ValidatorAndVerifierAgree, PTL
=============================================================================
