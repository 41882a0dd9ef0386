---------------------------- MODULE StreamCipher ----------------------------
(***************************************************************************)
(* The segmented content cipher (_crypto/stream.py) and the generators     *)
(* that drive it over bytes arriving in pieces (_crypto/sealed_poe.py).    *)
(*                                                                         *)
(* A plaintext is sealed piece by piece, put into a store that may damage  *)
(* it, and opened piece by piece, with either kind of envelope: "slots"    *)
(* blobs are the chunks alone, "passphrase" blobs have a commitment in     *)
(* front.  The cipher is ideal: a byte of ciphertext says what it is a     *)
(* byte of, and only the whole of one encryption decrypts.                 *)
(***************************************************************************)
EXTENDS Naturals, Sequences, SequencesExt

CONSTANTS
  CHUNK_SIZE, TAG_SIZE,   \* of a plaintext chunk and of its tag
  COMMITMENT_LENGTH,      \* of the passphrase blob's header
  MAX_COUNTER,            \* of the chunk counter in the nonce
  MaxPlain, MaxPiece, MaxFaults   \* bounds of the model

SizesAssumption ==
  /\ CHUNK_SIZE \in Nat \ {0} /\ TAG_SIZE \in Nat \ {0}
  /\ COMMITMENT_LENGTH \in Nat \ {0} /\ MAX_COUNTER \in Nat
  /\ MaxPlain \in Nat /\ MaxPiece \in Nat \ {0} /\ MaxFaults \in Nat

SEALED_CHUNK_SIZE == CHUNK_SIZE + TAG_SIZE

VARIABLES
  pc,       \* sealing, stored, reading, opening, done
  path,     \* "slots" or "passphrase"
  plain,    \* the plaintext
  fed,      \* bytes of the plaintext, then of the blob, consumed so far
  stream,   \* chunk machine, buffer and pending chunk of the generator
  ahead,    \* the lookahead of a passphrase open
  blob,     \* the ciphertext in the store
  outcome,  \* "none", "refused", "matched", "rejected" or "cancelled"
  faults    \* how often the store has damaged the blob
vars == <<pc, path, plain, fed, stream, ahead, blob, outcome, faults>>

-----------------------------------------------------------------------------
(* The cipher: external, ideal.                                            *)

\* The byte at place i of one encryption.
CipherByte(key, nonce, text, i) == [key |-> key, nonce |-> nonce, text |-> text, at |-> i]

Encrypt(key, nonce, text) ==
  [i \in 1..(Len(text) + TAG_SIZE) |-> CipherByte(key, nonce, text, i)]

Authentic(key, nonce, sealed) ==
  sealed # <<>> /\ sealed = Encrypt(key, nonce, sealed[1].text)

-----------------------------------------------------------------------------
(* The chunk machines.                                                     *)

\* Mutated form: the final flag is left out of the nonce.
ChunkNonce_NoFlag(counter, final) == <<counter, FALSE>>

\* _chunk_nonce: counter, then the final flag.
ChunkNonce(counter, final) == <<counter, final>>

\* A new StreamSealer or StreamOpener; out is what it has returned so far.
Machine == [counter |-> 0, finished |-> FALSE, raised |-> FALSE, out |-> <<>>]

Emit(m, bytes, final) ==
  [counter |-> m.counter + 1, finished |-> final, raised |-> FALSE, out |-> m.out \o bytes]

Raise(m) == [m EXCEPT !.raised = TRUE]

\* seal_chunk: misuse raises and seals nothing.
SealChunk(key, m, text, final) ==
  LET empty == final /\ text = <<>> /\ m.counter # 0
      sized == IF final THEN Len(text) <= CHUNK_SIZE ELSE Len(text) = CHUNK_SIZE
  IN IF m.raised \/ m.finished \/ m.counter > MAX_COUNTER \/ ~sized \/ empty
     THEN Raise(m)
     ELSE Emit(m, Encrypt(key, ChunkNonce(m.counter, final), text), final)

\* open_chunk: the plaintext of a chunk is returned once its tag verifies.
OpenChunk(key, m, sealed, final) ==
  LET sized == IF final THEN Len(sealed) \in TAG_SIZE..SEALED_CHUNK_SIZE
               ELSE Len(sealed) = SEALED_CHUNK_SIZE
      nonce == ChunkNonce(m.counter, final)
  IN IF \/ m.raised \/ m.finished \/ m.counter > MAX_COUNTER \/ ~sized
        \/ ~Authentic(key, nonce, sealed)
        \/ final /\ sealed[1].text = <<>> /\ m.counter # 0
     THEN Raise(m) ELSE Emit(m, sealed[1].text, final)

\* What a pass over a stream does to each of its chunks, and their size.
Sealing(key) == [seals |-> TRUE, key |-> key, size |-> CHUNK_SIZE]
Opening(key) == [seals |-> FALSE, key |-> key, size |-> SEALED_CHUNK_SIZE]
Step(pass, m, chunk, final) ==
  IF pass.seals THEN SealChunk(pass.key, m, chunk, final) ELSE OpenChunk(pass.key, m, chunk, final)
Steps(pass, m, chunks) ==
  LET after[n \in 0..Len(chunks)] ==
        IF n = 0 THEN m ELSE Step(pass, after[n - 1], chunks[n], FALSE)
  IN after[Len(chunks)]

\* The first n chunks of a buffer.
Chunks(buffer, size, n) ==
  [j \in 1..n |-> SubSeq(buffer, (j - 1) * size + 1, j * size)]

Rest(buffer, n) == SubSeq(buffer, n + 1, Len(buffer))

\* Chunks before the one that holds the end of a buffer of this length.
LeadingChunks(length, size) ==
  CHOOSE n \in 0..length : /\ length <= (n + 1) * size
                           /\ \A k \in 0..(n - 1) : length > (k + 1) * size

\* The whole of a buffer through a chunk machine.
Whole(pass, buffer) ==
  LET n == LeadingChunks(Len(buffer), pass.size)
  IN Step(pass, Steps(pass, Machine, Chunks(buffer, pass.size, n)), Rest(buffer, n * pass.size), TRUE)

\* stream_seal and stream_open.
StreamSeal(key, text) == Whole(Sealing(key), text)
StreamOpen(key, sealed) ==
  IF Len(sealed) < TAG_SIZE THEN Raise(Machine) ELSE Whole(Opening(key), sealed)

\* stream_sealed_length.
StreamSealedLength(length) ==
  LET count == (length + CHUNK_SIZE - 1) \div CHUNK_SIZE
  IN length + (IF count = 0 THEN 1 ELSE count) * TAG_SIZE

-----------------------------------------------------------------------------
(* The generators: one full chunk is held back until more data, or the end *)
(* of the input, tells whether it is the last.                             *)

Fresh == [machine |-> Machine, buffer |-> <<>>, pending |-> <<>>]

\* The body of _seal_stream_body and _unwrap_stream_body for one piece:
\* every completed chunk pushes the one before it through the machine.
Absorb(pass, s, piece) ==
  LET buffer == s.buffer \o piece
      full == Len(buffer) \div pass.size
      queue == s.pending \o Chunks(buffer, pass.size, full)
  IN IF full = 0 THEN [s EXCEPT !.buffer = buffer]
     ELSE [machine |-> Steps(pass, s.machine, Front(queue)),
           buffer  |-> Rest(buffer, full * pass.size),
           pending |-> <<Last(queue)>>]

\* What follows the end of the input.
Finish(pass, s) ==
  IF s.buffer # <<>> THEN Step(pass, Steps(pass, s.machine, s.pending), s.buffer, TRUE)
  ELSE IF s.pending # <<>> THEN Step(pass, s.machine, s.pending[1], TRUE)
  ELSE Step(pass, s.machine, <<>>, TRUE)

-----------------------------------------------------------------------------
Key == "payload"

\* The header of a passphrase blob: the commitment of the key and the header
\* fields, a value only they have.
Commitment == [i \in 1..COMMITMENT_LENGTH |-> CipherByte(Key, <<"commitment">>, <<>>, i)]
BlobHeader == IF path = "passphrase" THEN Commitment ELSE <<>>

\* Another upload of the same store, under another key.
OtherBlob == StreamSeal("other", [i \in 1..(CHUNK_SIZE + 1) |-> 0]).out
Junk == CipherByte("none", <<>>, <<>>, 0)

Init ==
  /\ pc = "sealing" /\ path \in {"slots", "passphrase"}
  /\ plain \in {[i \in 1..n |-> i] : n \in 0..MaxPlain}
  /\ fed = 0 /\ stream = Fresh /\ ahead = <<>> /\ blob = <<>>
  /\ outcome = "none" /\ faults = 0

\* The pieces a source may yield next; an empty one changes nothing.
Piece(source) ==
  {SubSeq(source, fed + 1, fed + n) : n \in {k \in 1..MaxPiece : fed + k <= Len(source)}}

\* One turn of the sealing loop.
SealPiece ==
  /\ pc = "sealing"
  /\ \E piece \in Piece(plain) :
       /\ stream' = Absorb(Sealing(Key), stream, piece)
       /\ fed' = fed + Len(piece)
  /\ IF stream'.machine.raised THEN pc' = "done" /\ outcome' = "refused"
     ELSE UNCHANGED <<pc, outcome>>
  /\ UNCHANGED <<path, plain, ahead, blob, faults>>

\* The end of the plaintext; _passphrase_seal_stream_body has put the
\* commitment in front.
SealEnd ==
  /\ pc = "sealing" /\ fed = Len(plain)
  /\ LET m == Finish(Sealing(Key), stream)
     IN IF m.raised
        THEN pc' = "done" /\ outcome' = "refused" /\ UNCHANGED blob
        ELSE pc' = "stored" /\ blob' = BlobHeader \o m.out /\ UNCHANGED outcome
  /\ stream' = Fresh /\ fed' = 0
  /\ UNCHANGED <<path, plain, ahead, faults>>

\* What the store may make of a blob: the first i bytes, then those from byte j
\* on; the end of another upload; a byte overwritten; two bytes exchanged.
Resumed(b, i, j) == SubSeq(b, 1, i) \o SubSeq(b, j, Len(b))
Cut(b)     == {Resumed(b, i, j) : i \in 0..Len(b), j \in 1..(Len(b) + 1)}
Spliced(b) == {SubSeq(b, 1, i) \o OtherBlob : i \in 0..Len(b)}
Spoilt(b)  == {[b EXCEPT ![i] = Junk] : i \in 1..Len(b)}
Swapped(b) == {[b EXCEPT ![i] = b[j], ![j] = b[i]] : i, j \in 1..Len(b)}
Damaged(b) == Cut(b) \cup Spliced(b) \cup Spoilt(b) \cup Swapped(b)

Damage ==
  /\ pc = "stored" /\ faults < MaxFaults
  /\ \E b \in Damaged(blob) \ {blob} : blob' = b
  /\ faults' = faults + 1
  /\ UNCHANGED <<pc, path, plain, fed, stream, ahead, outcome>>

\* The open is called: a slots blob goes straight to the body.
OpenCall ==
  /\ pc = "stored"
  /\ pc' = IF path = "passphrase" THEN "reading" ELSE "opening"
  /\ UNCHANGED <<path, plain, fed, stream, ahead, blob, outcome, faults>>

\* The bytes of the lookahead that belong to the body.
Replayed(bytes) == Rest(bytes, COMMITMENT_LENGTH)

\* passphrase_sealed_poe_open_stream: read until the shortest well-formed
\* blob is there, compare the commitment, then replay the rest as a piece.
ReadAhead ==
  /\ pc = "reading"
  /\ IF Len(ahead) >= COMMITMENT_LENGTH + TAG_SIZE
     THEN IF SubSeq(ahead, 1, COMMITMENT_LENGTH) # Commitment
          THEN pc' = "done" /\ outcome' = "rejected" /\ UNCHANGED <<fed, ahead>>
          ELSE pc' = "opening" /\ ahead' = Replayed(ahead) /\ UNCHANGED <<fed, outcome>>
     ELSE IF fed = Len(blob)
     THEN pc' = "done" /\ outcome' = "rejected" /\ UNCHANGED <<fed, ahead>>
     ELSE /\ \E piece \in Piece(blob) :
               ahead' = ahead \o piece /\ fed' = fed + Len(piece)
          /\ UNCHANGED <<pc, outcome>>
  /\ UNCHANGED <<path, plain, stream, blob, faults>>

Reject == pc' = "done" /\ outcome' = "rejected"

\* One turn of the opening loop, over what the lookahead left and then the
\* source: the first chunk that fails ends it.
OpenPiece ==
  /\ pc = "opening"
  /\ IF stream.machine.raised
     THEN Reject /\ UNCHANGED <<fed, ahead, stream>>
     ELSE \E piece \in IF ahead # <<>> THEN {ahead} ELSE Piece(blob) :
            /\ stream' = Absorb(Opening(Key), stream, piece)
            /\ fed' = IF ahead # <<>> THEN fed ELSE fed + Len(piece)
            /\ ahead' = <<>>
            /\ UNCHANGED <<pc, outcome>>
  /\ UNCHANGED <<path, plain, blob, faults>>

\* The end of the ciphertext.
OpenEnd ==
  /\ pc = "opening" /\ ~stream.machine.raised /\ ahead = <<>> /\ fed = Len(blob)
  /\ stream' = [stream EXCEPT !.machine = Finish(Opening(Key), stream)]
  /\ IF stream'.machine.raised THEN Reject ELSE pc' = "done" /\ outcome' = "matched"
  /\ UNCHANGED <<path, plain, fed, ahead, blob, faults>>

\* The caller's cancel callback: between pieces, both ways, and before the
\* last chunk.  The result stays unresolved.
Cancel ==
  /\ pc \in {"sealing", "opening"} /\ ~stream.machine.raised
  /\ pc' = "done" /\ outcome' = "cancelled"
  /\ UNCHANGED <<path, plain, fed, stream, ahead, blob, faults>>

Next ==
  \/ SealPiece \/ SealEnd \/ Damage \/ OpenCall \/ ReadAhead \/ OpenPiece \/ OpenEnd
  \/ Cancel

Spec == Init /\ [][Next]_vars

-----------------------------------------------------------------------------
(* The inductive invariant.                                                *)

ChunkNonces == {<<>>, <<"commitment">>} \cup (Nat \X BOOLEAN)
Bytes == [key : {Key, "other", "none"}, nonce : ChunkNonces, text : Seq(Nat), at : Nat]

\* A byte under the payload key is of a chunk of the plaintext: the one its
\* counter says, the last one if its flag says so, a full one if not.
Faithful(b) ==
  b.key = Key /\ b.nonce \in Nat \X BOOLEAN =>
    LET from == b.nonce[1] * CHUNK_SIZE
        to == from + Len(b.text)
    IN /\ to <= Len(plain) /\ b.text = SubSeq(plain, from + 1, to)
       /\ IF b.nonce[2] THEN to = Len(plain) ELSE Len(b.text) = CHUNK_SIZE

Genuine == {b \in Bytes : Faithful(b)}
Machines(S) == [counter : Nat, finished : BOOLEAN, raised : BOOLEAN, out : Seq(S)]

\* What a sealer that has read n bytes of the plaintext holds: the chunks
\* sealed, the one held back and the buffer are those bytes.
SealedSoFar(s, n) ==
  LET m == s.machine
      held == Len(s.pending)
  IN /\ s \in [machine : Machines(Genuine), buffer : Seq(Nat), pending : Seq(Seq(Nat))]
     /\ ~m.finished /\ ~m.raised
     /\ \/ s.pending = <<>>
        \/ s.pending = <<SubSeq(plain, m.counter * CHUNK_SIZE + 1, (m.counter + 1) * CHUNK_SIZE)>>
     /\ n \in Nat /\ (m.counter + held) * CHUNK_SIZE <= n
     /\ s.buffer = SubSeq(plain, (m.counter + held) * CHUNK_SIZE + 1, n)

\* What an opener has released: as many whole chunks of the plaintext as it has
\* counted, and all of it once it has finished.
Released(m) ==
  /\ m \in Machines(Nat)
  /\ Len(m.out) <= Len(plain) /\ m.out = SubSeq(plain, 1, Len(m.out))
  /\ IF m.finished THEN m.out = plain ELSE Len(m.out) = m.counter * CHUNK_SIZE

IInv ==
  /\ pc \in {"sealing", "stored", "reading", "opening", "done"}
  /\ plain \in Seq(Nat) /\ fed \in Nat
  /\ blob \in Seq(Genuine) /\ ahead \in Seq(Genuine)
  /\ pc = "sealing" => SealedSoFar(stream, fed) /\ fed <= Len(plain) /\ blob = <<>> /\ ahead = <<>>
  /\ pc = "stored" => ahead = <<>>
  /\ pc \in {"stored", "reading"} => stream = Fresh
  /\ pc = "opening" =>
       /\ stream \in [machine : Machines(Nat), buffer : Seq(Genuine), pending : Seq(Seq(Genuine))]
       /\ Released(stream.machine)
  /\ pc = "done" /\ blob # <<>> => Released(stream.machine)
  /\ outcome # "none" => pc = "done"
  /\ outcome = "matched" => Released(stream.machine) /\ stream.machine.finished

-----------------------------------------------------------------------------
\* ecies_sealed_poe_unwrap and passphrase_sealed_poe_open on the whole blob.
BufferedOpen ==
  IF path = "slots" THEN StreamOpen(Key, blob)
  ELSE IF \/ Len(blob) < COMMITMENT_LENGTH + TAG_SIZE
          \/ SubSeq(blob, 1, COMMITMENT_LENGTH) # Commitment
  THEN Raise(Machine) ELSE StreamOpen(Key, Rest(blob, COMMITMENT_LENGTH))

(* Whatever happened to the blob in the store, what the opener releases is *)
(* a beginning of the plaintext that was sealed, and it says "matched"     *)
(* only when that is all of it (open_chunk, _unwrap_stream_body).          *)
OpensOnlyAsSealed ==
  /\ pc \in {"opening", "done"} /\ blob # <<>> => IsPrefix(stream.machine.out, plain)
  /\ outcome = "matched" => stream.machine.out = plain

(* However source and store cut the bytes into pieces, the streaming forms *)
(* do what the buffered ones do: the same blob of the predicted length, or *)
(* the same refusal; the same plaintext, or the same rejection.            *)
CuttingsAgree ==
  LET whole == StreamSeal(Key, plain)
  IN /\ outcome = "refused" => whole.raised
     /\ pc = "stored" /\ faults = 0 =>
          /\ ~whole.raised /\ blob = BlobHeader \o whole.out
          /\ Len(blob) = Len(BlobHeader) + StreamSealedLength(Len(plain))
     /\ outcome = "matched" => ~BufferedOpen.raised /\ stream.machine.out = BufferedOpen.out
     /\ outcome = "rejected" => BufferedOpen.raised

(* An untouched blob opens: no cutting, no length and no end on a chunk    *)
(* boundary makes the opener reject what the sealer made.                  *)
IntactOpens == faults = 0 => outcome # "rejected"
=============================================================================
