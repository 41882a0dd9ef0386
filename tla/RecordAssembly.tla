--------------------------- MODULE RecordAssembly ---------------------------
(***************************************************************************)
(* The records the producers assemble: publish_content, publish_prehashed  *)
(* and publish_merkle (client/publish.py), and the two-phase sealed paths  *)
(* (client/sealed.py) with the portable JSON form a prepared seal may be   *)
(* stored in between.  What is assembled goes to the structural validator, *)
(* and the size it was quoted at against the size it has.                  *)
(***************************************************************************)
EXTENDS Validator, RecordEstimate, HexTexts

CONSTANTS
  Contents, Prehashed, Batches, Seals, PassphraseSeals, Assemblies,
                          \* the arguments each producer may be called with
  JsonFields, JsonValues  \* what an edit of a stored document may change

VARIABLES
  stage,      \* "idle", "prepared", "stored" or "done"
  seal,       \* the prepared artifact
  doc,        \* its stored JSON document
  asked,      \* the uris and supersedes of the call
  out         \* the error, or the record and the bytes it was quoted at
vars == <<stage, seal, doc, asked, out>>

-----------------------------------------------------------------------------
(* Arguments.                                                              *)

\* parse_supersedes_hex: 64 characters that decode.
SupersedesParses(text) == text = NoText \/ (text.chars = 64 /\ FromHex(text) >= 0)

InFetchSet(uri) == uri \in DOMAIN UriOf /\ IsFetchSetUri(UriOf[uri])

\* _validate_uris and _validate_fetch_set_uris.
ValidateUris(uris) == \A i \in DOMAIN uris : InFetchSet(uris[i])

\* resolve_hash_algs: the union, one algorithm at least.
ResolveHashAlgs(algs) == IF algs = <<>> THEN {"sha2-256"} ELSE Range(algs)
HashAll(algs) == Map([alg \in algs |-> Bytes(32, alg)])

\* A record of this content; _sign_record adds the one path-1 entry.
RecordOf(content, args) ==
  Map([v |-> Uint(1)] @@ content
        @@ (IF args.supersedes = NoText THEN <<>> ELSE "supersedes" :> Bytes(FromHex(args.supersedes), "t"))
        @@ (IF args.signer = "none" THEN <<>>
            ELSE "sigs" :> List(<<Map([cose_sign1 |-> Bytes(PATH1_BYTES, "good")])>>)))
TextsOf(uris) == List([i \in DOMAIN uris |-> Text(uris[i])])

\* The refusals all producers share, before and after their own.
Refusal(args, own) == FirstError(<<
  FirstFailing(<< <<"INVALID_SIGNER_PUBKEY", args.signer = "ill_key">> >>),
  own,
  FirstFailing(<< <<"INVALID_SIGNER_SIGNATURE", args.signer = "short_signature">> >>) >>)

-----------------------------------------------------------------------------
Nothing == [error |-> OK, record |-> Absent, quoted |-> 0]
NoSeal == [kem |-> "none", items |-> <<>>]
NoDoc == [tree |-> Absent, canonical |-> TRUE, twice |-> FALSE, edited |-> FALSE]
NotAsked == [uris |-> <<>>, given |-> FALSE, supersedes |-> NoText]

Init == stage = "idle" /\ seal = NoSeal /\ doc = NoDoc /\ asked = NotAsked /\ out = Nothing

\* A call ends with an error, or with a record quoted at so many bytes
\* (0: the caller quoted).
Ends(args, error, record, quoted) ==
  /\ stage' = "done"
  /\ IF error # OK
     THEN out' = [Nothing EXCEPT !.error = error] /\ UNCHANGED asked
     ELSE /\ out' = [error |-> OK, record |-> record, quoted |-> quoted]
          /\ asked' = [uris |-> args.uris, given |-> args.given, supersedes |-> args.supersedes]
  /\ UNCHANGED <<seal, doc>>

\* The item of publish_content and publish_prehashed.
OpenItem(hashes, args) ==
  Map([hashes |-> hashes] @@ IF args.given THEN [uris |-> TextsOf(args.uris)] ELSE <<>>)

\* publish_content.
PublishContent(args) ==
  LET algs == ResolveHashAlgs(args.algs)
      error == Refusal(args, FirstFailing(<<
        <<"INVALID_URI", ~ValidateUris(args.uris)>>,
        <<"INVALID_SUPERSEDES", ~SupersedesParses(args.supersedes)>>,
        <<"UNSUPPORTED_HASH_ALG", ~(algs \subseteq HASH_ALGS)>> >>))
  IN /\ stage = "idle"
     /\ Ends(args, error, RecordOf([items |-> List(<<OpenItem(HashAll(algs), args)>>)], args), 0)

\* publish_prehashed.  Its digests are pairs of an algorithm and a text;
\* empty texts are dropped.
DigestRefusal(pair) == FirstFailing(<<
  <<"UNSUPPORTED_HASH_ALG", pair[1] \notin HASH_ALGS>>,
  <<"INVALID_DIGEST", FromHex(pair[2]) # 32>> >>)

PublishPrehashed(args) ==
  LET present == SelectSeq(args.digests, LAMBDA pair : pair[2].chars # 0)
      error == Refusal(args, FirstError(<<
        FirstFailing(<<
          <<"INVALID_URI", ~ValidateUris(args.uris)>>,
          <<"INVALID_SUPERSEDES", ~SupersedesParses(args.supersedes)>>,
          <<"INVALID_DIGEST", present = <<>> >> >>) >>
        \o [i \in DOMAIN present |-> DigestRefusal(present[i])]))
      hashes == HashAll({present[i][1] : i \in DOMAIN present})
  IN /\ stage = "idle"
     /\ Ends(args, error, RecordOf([items |-> List(<<OpenItem(hashes, args)>>)], args), 0)

PLACEHOLDER == 48      \* the width of _arweave_uri_placeholder()
Shape(items, merkle, args) ==
  [items |-> items, merkle |-> merkle, supersedes |-> args.supersedes # NoText, signed |-> args.signer # "none"]

\* publish_merkle, but for its calls to the gateway, whose answer to the
\* upload is args.uris[1].  Leaves are their lengths.
PublishMerkle(args) ==
  LET error == Refusal(args, FirstFailing(<<
        <<"UNSUPPORTED_HASH_ALG", args.alg # "sha2-256">>,
        <<"INVALID_LEAVES", args.leaves = <<>> >>,
        <<"INVALID_SUPERSEDES", ~SupersedesParses(args.supersedes)>>,
        <<"INVALID_LEAVES", \E i \in DOMAIN args.leaves : args.leaves[i] # 32>> >>))
      commit == Map([alg |-> Text("rfc9162-sha256"), root |-> Bytes(32, "root"),
                     leaf_count |-> Uint(Len(args.leaves)), uris |-> TextsOf(args.uris)])
  IN /\ stage = "idle"
     /\ Ends(args, error, RecordOf([merkle |-> List(<<commit>>)], args),
             EstimateRecordBytes(Shape(<<>>, <<<<PLACEHOLDER>>>>, args)))

-----------------------------------------------------------------------------
(* Preparing a seal.  A prepared item is kept as its JSON document, which  *)
(* holds the same fields; a digest in lowercase hexadecimal is the value   *)
(* it is of.                                                               *)
Fingerprint(value) == [type |-> "text", of |-> value]
IsHex64(value) == value.type = "text" /\ "of" \in DOMAIN value

PreparedItem(content, algs, envelope) ==
  Map([item_id |-> Fingerprint(Bytes(40, content)), ciphertext |-> Bytes(40, content),
       hashes |-> HashAll(algs), envelope |-> envelope])
PrepareAll(args, envelope) ==
  [i \in DOMAIN args.items |-> PreparedItem(args.items[i], ResolveHashAlgs(args.algs), envelope)]

Prepares(error, kem, items) ==
  /\ stage = "idle"
  /\ IF error # OK THEN stage' = "done" /\ out' = [Nothing EXCEPT !.error = error] /\ UNCHANGED seal
     ELSE stage' = "prepared" /\ seal' = [kem |-> kem, items |-> items] /\ UNCHANGED out
  /\ UNCHANGED <<doc, asked>>

\* seal_prepare (_prepare): no bound on the recipients.
SealPrepare(args) ==
  LET slot(i) == Map((MaterialField(args.kem) :> Bytes(MaterialLength(args.kem), ToString(i)))
                       @@ [wrap |-> Bytes(48, "w")])
      envelope == Map([scheme |-> Uint(1), aead |-> Text(AEAD), kem |-> Text(args.kem), nonce |-> Bytes(24, "n"),
                       slots |-> List([i \in 1..args.recipients |-> slot(i)]), slots_mac |-> Bytes(32, "m")])
  IN Prepares(FirstFailing(<<
       <<"INVALID_ITEMS", args.bare>>,
       <<"NO_ITEMS", args.items = <<>> >>,
       <<"INVALID_RECIPIENT", args.recipients = 0>>,
       <<"CRYPTO_FAILURE", args.kem \notin KEMS>>,
       <<"INVALID_RECIPIENT", args.keys = "ill_sized">>,
       <<"UNSUPPORTED_HASH_ALG", ~(ResolveHashAlgs(args.algs) \subseteq HASH_ALGS)>>,
       <<"CRYPTO_FAILURE", args.keys = "unsound">> >>), args.kem, PrepareAll(args, envelope))

\* passphrase_seal_prepare (_prepare_passphrase) and its wire envelope.
PassphraseSealPrepare(args) ==
  LET envelope == Map([scheme |-> Uint(1), aead |-> Text(AEAD), nonce |-> Bytes(24, "n"),
                       passphrase |-> Map([alg |-> Text("argon2id"), salt |-> Bytes(16, "s"),
                         params |-> Map([name \in {"m", "t", "p"} |-> Uint(args.params[name])])])])
  IN Prepares(FirstFailing(<<
       <<"INVALID_ITEMS", args.bare>>,
       <<"NO_ITEMS", args.items = <<>> >>,
       <<"UNSUPPORTED_HASH_ALG", ~(ResolveHashAlgs(args.algs) \subseteq HASH_ALGS)>>,
       <<"CRYPTO_FAILURE", args.empty \/ \E name \in {"m", "t", "p"} :
                                            args.params[name] \notin Floors[name]..UINT32_MAX>> >>),
       "passphrase", PrepareAll(args, envelope))

-----------------------------------------------------------------------------
(* prepared_seal_json_v1.  A string is a text, or the bytes it decodes to  *)
(* where it is base64url.  A document has a tree, and two properties of    *)
(* its text: written canonically, and a member written twice.              *)
DocumentOf(artifact) ==
  Map([version |-> Text("prepared_seal_json_v1"), kem |-> Text(artifact.kem), items |-> List(artifact.items)])
Fingerprinted(tree) == WithKey(tree, "prepared_sha256", Fingerprint(WithoutKey(tree, "prepared_sha256")))

ToJson ==
  /\ stage = "prepared" /\ seal.kem # "passphrase" /\ doc = NoDoc
  /\ stage' = "stored"
  /\ doc' = [NoDoc EXCEPT !.tree = Fingerprinted(DocumentOf(seal))]
  /\ seal' = NoSeal
  /\ UNCHANGED <<asked, out>>

\* The stored document is changed in one place, and may be given the
\* fingerprint it then has.
EditTree(tree) ==
  /\ stage = "stored" /\ ~doc.edited
  /\ \E sign \in BOOLEAN :
       doc' = [doc EXCEPT !.edited = TRUE,
                          !.tree = IF sign /\ Has(tree, "prepared_sha256") THEN Fingerprinted(tree) ELSE tree]
  /\ UNCHANGED <<stage, seal, asked, out>>
WriteMember(path, key, value) == EditTree(Put(doc.tree, path, WithKey(At(doc.tree, path), key, value)))
DropMember(path, key) == EditTree(Put(doc.tree, path, WithoutKey(At(doc.tree, path), key)))
EditText ==
  /\ stage = "stored" /\ ~doc.edited
  /\ \E how \in {"spaces", "twice"} :
       doc' = [doc EXCEPT !.edited = TRUE, !.canonical = FALSE, !.twice = (how = "twice")]
  /\ UNCHANGED <<stage, seal, asked, out>>

IsString(value) == value.type \in {"text", "bytes"}
Members(value, required, optional) ==
  value.type = "map" /\ required \subseteq DOMAIN value.of /\ DOMAIN value.of \subseteq required \cup optional
Strings(map, keys) == \A key \in keys : IsString(map.of[key])

\* _parse_document_shape and _parse_item_shape.
SlotShape(slot) ==
  /\ Members(slot, {"wrap"}, {"epk", "kem_ct"}) /\ Strings(slot, {"wrap"})
  /\ \A field \in {"epk", "kem_ct"} : IsNone(Get(slot, field)) \/ IsString(Get(slot, field))
ItemShape(item) ==
  /\ Members(item, {"item_id", "ciphertext", "hashes", "envelope"}, {})
  /\ Strings(item, {"item_id", "ciphertext"})
  /\ item.of["hashes"].type = "map" /\ Strings(item.of["hashes"], DOMAIN item.of["hashes"].of)
  /\ LET envelope == item.of["envelope"]
     IN /\ Members(envelope, {"scheme", "aead", "kem", "nonce", "slots", "slots_mac"}, {})
        /\ envelope.of["scheme"].type = "uint" /\ Strings(envelope, {"aead", "kem", "nonce", "slots_mac"})
        /\ envelope.of["slots"].type = "array"
        /\ \A i \in DOMAIN Entries(envelope, "slots") : SlotShape(Entries(envelope, "slots")[i])
DocumentShape(tree) ==
  /\ Members(tree, {"version", "kem", "items"}, {"prepared_sha256"}) /\ Strings(tree, {"version", "kem"})
  /\ IsNone(Get(tree, "prepared_sha256")) \/ IsString(Get(tree, "prepared_sha256"))
  /\ tree.of["items"].type = "array" /\ \A i \in DOMAIN Entries(tree, "items") : ItemShape(Entries(tree, "items")[i])

\* What the shape pass makes of explicit nulls.
RECURSIVE WithoutNulls(_)
WithoutNulls(value) ==
  IF value.type = "array" THEN List([i \in DOMAIN value.of |-> WithoutNulls(value.of[i])])
  ELSE IF value.type = "map"
  THEN [value EXCEPT !.of = [key \in {k \in DOMAIN value.of : value.of[k] # Null} |-> WithoutNulls(value.of[key])]]
  ELSE value

BytesOf(map, key, length) == Get(map, key).type = "bytes" /\ map.of[key].n = length

\* Mutated form: the slots' lengths are left to the validator.
SlotDocumentOk_AnyLength(slot, kem) == DOMAIN slot.of = {MaterialField(kem), "wrap"}

\* _decode_slot_documents.
SlotDocumentOk(slot, kem) ==
  /\ DOMAIN slot.of = {MaterialField(kem), "wrap"}
  /\ BytesOf(slot, "wrap", 48) /\ BytesOf(slot, MaterialField(kem), MaterialLength(kem))

\* _decode_item_document.
ItemDocumentOk(item, kem) ==
  LET envelope == item.of["envelope"]
      hashes == item.of["hashes"]
      slots == Entries(envelope, "slots")
  IN /\ item.of["ciphertext"].type = "bytes" /\ item.of["item_id"] = Fingerprint(item.of["ciphertext"])
     /\ DOMAIN hashes.of # {} /\ \A alg \in DOMAIN hashes.of : BytesOf(hashes, alg, 32)
     /\ envelope.of["scheme"] = Uint(1) /\ envelope.of["aead"] = Text(AEAD) /\ envelope.of["kem"] = Text(kem)
     /\ BytesOf(envelope, "nonce", 24) /\ BytesOf(envelope, "slots_mac", 32)
     /\ slots # <<>> /\ \A i \in DOMAIN slots : SlotDocumentOk(slots[i], kem)

\* from_json.
JsonRefusal(document) ==
  LET tree == WithoutNulls(document.tree)
      stored == Get(tree, "prepared_sha256")
      content == WithoutKey(tree, "prepared_sha256")
      items == Entries(tree, "items")
  IN IF document.twice \/ ~DocumentShape(document.tree) THEN "PARSE"
     ELSE FirstFailing(<<
       <<"UNSUPPORTED_VERSION", tree.of["version"] # Text("prepared_seal_json_v1")>>,
       <<"INVALID", ~IsHex64(stored)>>,
       <<"FINGERPRINT_MISMATCH", stored # Fingerprint(content)>>,
       <<"INVALID", ~IsText(tree.of["kem"], KEMS) \/ items = <<>> >>,
       <<"INVALID", \E i \in DOMAIN items : ~ItemDocumentOk(items[i], tree.of["kem"].s)>>,
       <<"INVALID", tree # document.tree \/ ~document.canonical>> >>)

FromJson ==
  /\ stage = "stored"
  /\ LET error == JsonRefusal(doc)
     IN IF error # OK THEN stage' = "done" /\ out' = [Nothing EXCEPT !.error = error] /\ UNCHANGED seal
        ELSE /\ stage' = "prepared" /\ UNCHANGED out
             /\ seal' = [kem |-> doc.tree.of["kem"].s, items |-> Entries(doc.tree, "items")]
  /\ UNCHANGED <<doc, asked>>

-----------------------------------------------------------------------------
(* Assembling the sealed record.                                           *)

\* sealed_record and passphrase_sealed_record, signed by _encode_record.
SealedRecord(args, uris) ==
  RecordOf([items |-> List([i \in DOMAIN seal.items |->
              Map([hashes |-> seal.items[i].of["hashes"], uris |-> List(<<Text(uris[i])>>),
                   enc |-> seal.items[i].of["envelope"]])])], args)

\* _prepared_quote_request estimates; _passphrase_quote_request measures the
\* record with placeholders of the same width.
Quoted(args) ==
  LET Item(item) == [algs |-> DOMAIN item.of["hashes"].of, uris |-> <<PLACEHOLDER>>,
                     enc |-> [kem |-> seal.kem, recipients |-> Len(Entries(item.of["envelope"], "slots"))]]
      placeholder == CHOOSE uri \in DOMAIN UriOf : Len(uri) = PLACEHOLDER
  IN IF seal.kem = "passphrase"
     THEN EncodedBytes(SealedRecord(args, [i \in DOMAIN seal.items |-> placeholder]))
     ELSE EstimateRecordBytes(Shape([i \in DOMAIN seal.items |-> Item(seal.items[i])], <<>>, args))

\* encode_sealed_record or encode_passphrase_sealed_record, after quoting.
Assemble(args) ==
  LET error == Refusal(args, FirstFailing(<<
        <<"URI_COUNT_MISMATCH", Len(args.uris) # Len(seal.items)>>,
        <<"INVALID_URI", ~ValidateUris(args.uris)>>,
        <<"INVALID_SUPERSEDES", ~SupersedesParses(args.supersedes)>> >>))
  IN /\ stage = "prepared"
     /\ Ends(args, error, IF error = OK THEN SealedRecord(args, args.uris) ELSE Absent,
             IF error = OK THEN Quoted(args) ELSE 0)

Next ==
  \/ \E args \in Contents : PublishContent(args)
  \/ \E args \in Prehashed : PublishPrehashed(args)
  \/ \E args \in Batches : PublishMerkle(args)
  \/ \E args \in Seals : SealPrepare(args)
  \/ \E args \in PassphraseSeals : PassphraseSealPrepare(args)
  \/ ToJson
  \/ \E path \in {p \in DOMAIN JsonFields : At(doc.tree, p).type = "map"} : \E key \in JsonFields[path] :
       \/ \E i \in DOMAIN JsonValues[key] : WriteMember(path, key, JsonValues[key][i])
       \/ DropMember(path, key)
  \/ EditText
  \/ FromJson
  \/ \E args \in Assemblies : Assemble(args)

Spec == Init /\ [][Next]_vars

-----------------------------------------------------------------------------
Produced == stage = "done" /\ out.error = OK

\* Codes a produced record may be rejected with, and when: what no producer
\* looks at.  An empty list of uris and a spaced supersedes pass; the number
\* of recipients and the cost of a passphrase have no upper bound; a stored
\* document may have been given other algorithm names or a slot twice.
Unguarded ==
  {code \in {"SCHEMA_TYPE_MISMATCH"} : asked.given /\ asked.uris = <<>>}
    \cup {code \in {"SUPERSEDES_TX_INVALID_LENGTH"} : asked.supersedes.spaces > 0}
    \cup {code \in {"ENC_SLOTS_TOO_MANY", "ENC_ENVELOPE_TOO_LARGE", "ENC_PASSPHRASE_PARAMS_EXCEED_POLICY"} :
            seal # NoSeal}
    \cup {code \in {"UNSUPPORTED_HASH_ALG", "ENC_SLOTS_DUPLICATE_KEM_MATERIAL",
                    "ENC_REQUIRES_CONTENT_HASH"} : doc.edited}

\* Whatever the arguments, and whatever became of the stored document, a
\* record a producer assembles is one the strict validator accepts, but for
\* the cases it does not look at (publish.py:326-341, sealed.py:988-1000).
ProducedRecordsValidate ==
  Produced => {issue.code : issue \in Validate(out.record, "strict").issues} \subseteq Unguarded

\* The quote covers the record, and by no more than the margin, the width of
\* the longer KEM name and that of the largest leaf count (estimate.py:1-22).
QuoteCoversRecord ==
  LET size == EncodedBytes(out.record)
      slack == IF seal.kem = "passphrase" THEN 0
               ELSE SAFETY_MARGIN + (IF seal = NoSeal THEN 8 ELSE 0)
                      + (IF seal.kem = "x25519" THEN 8 * Len(seal.items) ELSE 0)
      arweave == \A i \in DOMAIN asked.uris : UriOf[asked.uris[i]].scheme = "ar"
  IN Produced /\ out.quoted > 0 /\ arweave /\ asked.supersedes.spaces = 0
       => size <= out.quoted /\ out.quoted <= size + slack
=============================================================================
