--------------------------- MODULE RecordEstimate ---------------------------
(***************************************************************************)
(* estimate.py: the size a record is quoted at before it exists, from its  *)
(* shape.  A uri is counted by its width.  The sums below are the module's *)
(* own arithmetic, kept apart from CborValue's EncodedBytes, which is what *)
(* they promise to cover.                                                  *)
(***************************************************************************)
EXTENDS CborValue

AEAD_ID_BYTES == 27
KEM_ID_BYTES == 14
PATH1_BYTES == 109
SAFETY_MARGIN == 16
U64_MAX_BYTES == 9      \* the width of the largest leaf count

\* _str_bytes, and the width of a map or array header.
StrBytes(length) == HeaderBytes(length) + length
\* The key of a field and what it carries.
Field(key, bytes) == StrBytes(Len(key)) + bytes

SumOver(set, Bytes1(_)) == MapThenSumSet(Bytes1, set)

\* _uris_bytes, of the widths of the uris.
UrisBytes(uris) ==
  IF uris = <<>> THEN 0
  ELSE Field("uris", HeaderBytes(Len(uris))) + SumOver(DOMAIN uris, LAMBDA i : StrBytes(uris[i]))

\* What both key paths of an envelope have.
EnvelopeBase == Field("scheme", 1) + Field("aead", StrBytes(AEAD_ID_BYTES)) + Field("nonce", StrBytes(24))

\* Mutated form: every slot is a classical one.
EnvelopeBytes_Classical(enc) ==
  HeaderBytes(6) + EnvelopeBase + Field("kem", StrBytes(KEM_ID_BYTES)) + Field("slots_mac", StrBytes(32))
    + Field("slots", HeaderBytes(enc.recipients))
    + enc.recipients * (HeaderBytes(2) + Field("wrap", StrBytes(48)) + Field("epk", StrBytes(32)))

\* _envelope_bytes: of the recipients and their KEM, or of a passphrase block
\* at the producers' widths (16-byte salt, m at its floor, t and p below 24).
EnvelopeBytes(enc) ==
  IF enc.kem = "passphrase"
  THEN HeaderBytes(4) + EnvelopeBase
         + Field("passphrase", HeaderBytes(3) + Field("alg", StrBytes(8)) + Field("salt", StrBytes(16))
             + Field("params", HeaderBytes(3) + Field("m", HeaderBytes(65536)) + Field("t", 1) + Field("p", 1)))
  ELSE HeaderBytes(6) + EnvelopeBase + Field("kem", StrBytes(KEM_ID_BYTES)) + Field("slots_mac", StrBytes(32))
         + Field("slots", HeaderBytes(enc.recipients))
         + enc.recipients * (HeaderBytes(2) + Field("wrap", StrBytes(48))
             + IF enc.kem = "x25519" THEN Field("epk", StrBytes(32)) ELSE Field("kem_ct", StrBytes(1120)))

\* _item_bytes.  enc is NoEnc for an item in the open.
NoEnc == [kem |-> "none", recipients |-> 0]
ItemBytes(item) ==
  HeaderBytes(1 + (IF item.uris = <<>> THEN 0 ELSE 1) + (IF item.enc = NoEnc THEN 0 ELSE 1))
    + Field("hashes", HeaderBytes(Cardinality(item.algs)))
    + SumOver(item.algs, LAMBDA alg : Field(alg, StrBytes(32)))
    + UrisBytes(item.uris)
    + (IF item.enc = NoEnc THEN 0 ELSE Field("enc", EnvelopeBytes(item.enc)))

\* _merkle_bytes, of the uris of the one commitment.
MerkleBytes(uris) ==
  Field("merkle", HeaderBytes(1) + HeaderBytes(IF uris = <<>> THEN 3 ELSE 4)
    + Field("alg", StrBytes(14)) + Field("root", StrBytes(32))
    + Field("leaf_count", U64_MAX_BYTES) + UrisBytes(uris))

\* _sig_entry_bytes.
SigEntryBytes == HeaderBytes(1) + Field("cose_sign1", StrBytes(PATH1_BYTES))

\* estimate_record_bytes.  The shape's merkle is a sequence of no or one
\* commitment, each the widths of its uris.
EstimateRecordBytes(shape) ==
  LET Present(condition, bytes) == IF condition THEN bytes ELSE 0
      keys == 1 + Present(shape.items # <<>>, 1) + Present(shape.merkle # <<>>, 1)
                + Present(shape.supersedes, 1) + Present(shape.signed, 1)
  IN HeaderBytes(keys) + Field("v", 1)
       + Present(shape.items # <<>>, Field("items", HeaderBytes(Len(shape.items)))
           + SumOver(DOMAIN shape.items, LAMBDA i : ItemBytes(shape.items[i])))
       + SumOver(DOMAIN shape.merkle, LAMBDA i : MerkleBytes(shape.merkle[i]))
       + Present(shape.supersedes, Field("supersedes", StrBytes(32)))
       + Present(shape.signed, Field("sigs", HeaderBytes(1) + SigEntryBytes))
       + SAFETY_MARGIN
=============================================================================
