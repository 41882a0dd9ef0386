------------------------------ MODULE Validator ------------------------------
(***************************************************************************)
(* The structural validator (poe_standard/validator.py): what it reports   *)
(* of any decoded record, in its two roles.  A record is a CBOR value, so  *)
(* any field may be absent, of a wrong type, of a wrong length or null.    *)
(* The order of issues (_sort_issues) and their wording are left out.      *)
(***************************************************************************)
EXTENDS CborValue, CoseSign1, TLC

CONSTANTS
  UriOf, CoseOf, KeyOf,     \* names -> the uri, blob or key of that name
  ExtensionKeys,     \* names of either extension namespace
  Supported,         \* supported_critical_extensions
  MAX_SLOTS, MAX_ENVELOPE_BYTES, UINT32_MAX,
  Floors, Ceiling    \* m, t, p -> the floor and the deployment ceiling

-----------------------------------------------------------------------------
Issue(code, at) == {[code |-> code, at |-> at]}
When(condition, code, at) == IF condition THEN Issue(code, at) ELSE {}
Seg(i) == ToString(i - 1)
EachOf(map, key, at, IssuesOf(_, _)) ==
  UNION {IssuesOf(Entries(map, key)[i], at \o <<key, Seg(i)>>) : i \in DOMAIN Entries(map, key)}

-----------------------------------------------------------------------------
(* Steps 1 and 2: the pre-guard and the schema parse.                      *)
NonText(value) == value.type = "map" /\ value.odd

\* _collect_non_text_key_map_issues.
NonTextKeyIssues(rec) ==
  LET Flag(value, at) == When(NonText(value), "SCHEMA_TYPE_MISMATCH", at)
      Entry(entry, at) == Flag(entry, at)
      Item(item, at) == IF NonText(item) THEN Flag(item, at)
                        ELSE Flag(Get(item, "hashes"), Append(at, "hashes"))
                               \cup Flag(Get(item, "enc"), Append(at, "enc"))
  IN IF NonText(rec) THEN Flag(rec, <<>>)
     ELSE EachOf(rec, "items", <<>>, Item) \cup EachOf(rec, "merkle", <<>>, Entry)
            \cup EachOf(rec, "sigs", <<>>, Entry)

Closed(map, keys, code, at) == UNION {Issue(code, Append(at, key)) : key \in DOMAIN map.of \ keys}
Optional(map, key, type, code, at) ==
  When(~IsNone(Get(map, key)) /\ Get(map, key).type # type, code, Append(at, key))
Required(map, key, types, at) ==
  IF ~Has(map, key) THEN Issue("SCHEMA_MISSING_REQUIRED", Append(at, key))
  ELSE When(Get(map, key).type \notin types, "SCHEMA_TYPE_MISMATCH", Append(at, key))

\* _schema_parse_uris, of the holder of the list.
SchemaUris(holder, at) ==
  Optional(holder, "uris", "array", "SCHEMA_TYPE_MISMATCH", at)
    \cup EachOf(holder, "uris", at, LAMBDA uri, p : When(uri.type # "text", "SCHEMA_TYPE_MISMATCH", p))

\* _schema_parse_item; enc is left to the domain pass.
SchemaItem(item, at) ==
  IF item.type # "map" THEN Issue("SCHEMA_TYPE_MISMATCH", at)
  ELSE Closed(item, {"hashes", "uris", "enc"}, "SCHEMA_UNKNOWN_FIELD", at)
         \cup Required(item, "hashes", {"map"}, at)
         \cup (IF Get(item, "hashes").type # "map" THEN {}
               ELSE UNION {When(item.of["hashes"].of[alg].type # "bytes", "SCHEMA_TYPE_MISMATCH",
                                at \o <<"hashes", alg>>) : alg \in DOMAIN item.of["hashes"].of})
         \cup SchemaUris(item, at)

\* _schema_parse_merkle_commit.
SchemaMerkle(commit, at) ==
  IF commit.type # "map" THEN Issue("SCHEMA_TYPE_MISMATCH", at)
  ELSE Closed(commit, {"alg", "root", "leaf_count", "uris"}, "SCHEMA_UNKNOWN_FIELD", at)
         \cup Required(commit, "alg", {"text"}, at) \cup Required(commit, "root", {"bytes"}, at)
         \cup Required(commit, "leaf_count", {"uint", "nint"}, at)
         \cup SchemaUris(commit, at)

\* _schema_parse_sig_entry: one code for every fault of shape.
SchemaSig(entry, at) ==
  IF entry.type # "map" THEN Issue("SIG_ENTRY_INVALID_SHAPE", at)
  ELSE Closed(entry, {"cose_sign1", "cose_key"}, "SIG_ENTRY_INVALID_SHAPE", at)
         \cup When(Get(entry, "cose_sign1").type # "bytes", "SIG_ENTRY_INVALID_SHAPE",
                   Append(at, "cose_sign1"))
         \cup Optional(entry, "cose_key", "bytes", "SIG_ENTRY_INVALID_SHAPE", at)

\* _schema_parse.
SchemaIssues(rec) ==
  IF rec.type # "map" THEN Issue("SCHEMA_TYPE_MISMATCH", <<>>)
  ELSE LET supersedes == Get(rec, "supersedes")
       IN When(~Has(rec, "v"), "SCHEMA_MISSING_REQUIRED", <<"v">>)
            \cup When(Has(rec, "v") /\ rec.of["v"] # Uint(1), "SCHEMA_INVALID_LITERAL", <<"v">>)
            \cup UNION {Optional(rec, key, "array", "SCHEMA_TYPE_MISMATCH", <<>>) :
                          key \in {"items", "merkle", "sigs", "crit"}}
            \cup EachOf(rec, "items", <<>>, SchemaItem)
            \cup EachOf(rec, "merkle", <<>>, SchemaMerkle)
            \cup EachOf(rec, "sigs", <<>>, SchemaSig)
            \cup EachOf(rec, "crit", <<>>,
                        LAMBDA name, p : When(name.type # "text", "SCHEMA_TYPE_MISMATCH", p))
            \cup Optional(rec, "supersedes", "bytes", "SCHEMA_TYPE_MISMATCH", <<>>)
            \cup When(supersedes.type = "bytes" /\ supersedes.n # 32,
                      "SUPERSEDES_TX_INVALID_LENGTH", <<"supersedes">>)

-----------------------------------------------------------------------------
(* Step 3: commitments, uris, extensions.                                  *)
BASE_KEYS == {"v", "items", "merkle", "supersedes", "sigs", "crit"}
HASH_ALGS == {"sha2-256", "blake2b-256"}       \* both of 32 bytes

\* _check_content_commitment_presence.
PresenceIssues(rec) ==
  LET Empty(key) == Get(rec, key).type = "array" /\ Entries(rec, key) = <<>>
  IN IF Entries(rec, "items") = <<>> /\ Entries(rec, "merkle") = <<>>
     THEN Issue("SCHEMA_EMPTY_RECORD", <<>>)
     ELSE UNION {When(Empty(key), "SCHEMA_TYPE_MISMATCH", <<key>>) : key \in {"items", "merkle"}}

\* _check_crit: shape, then whether the extension is supported.
CritIssues(rec) ==
  LET crit == Entries(rec, "crit")
      Bad(i) == \/ crit[i].s \in BASE_KEYS \/ crit[i].s \notin ExtensionKeys
                \/ ~Has(rec, crit[i].s) \/ \E j \in 1..(i - 1) : crit[j] = crit[i]
      Of(i) == IF Bad(i) THEN Issue("CRIT_SHAPE_INVALID", <<"crit", Seg(i)>>)
               ELSE When(crit[i].s \notin Supported, "EXTENSION_UNSUPPORTED_CRITICAL", <<"crit", Seg(i)>>)
  IN When(Get(rec, "crit").type = "array" /\ crit = <<>>, "SCHEMA_TYPE_MISMATCH", <<"crit">>)
       \cup UNION {Of(i) : i \in DOMAIN crit}

\* is_valid_cid (cid_profile.py): the multibase decodes in the case its
\* prefix names, and version, codec, hash and lengths are of the profile.
IsValidCid(cid) ==
  IF cid.base = "Qm" THEN cid.decodes /\ cid.hash = 18 /\ cid.says = 32 /\ cid.holds = 32
  ELSE /\ cid.base \in {"b", "B", "f", "F", "z"} /\ cid.decodes
       /\ cid.version = 1 /\ cid.codec \in {85, 112, 113}
       /\ cid.hash \in {18, 45600} /\ cid.says = 32 /\ cid.holds = cid.says

\* fetch_set_uri_rejection is None.  The scheme is case-folded, the body is
\* not; the path behind a CID is free, one behind a transaction id is not.
IsFetchSetUri(uri) ==
  /\ ~uri.fragment
  /\ \/ uri.scheme \in {"ar", "AR"} /\ uri.txid
     \/ uri.scheme \in {"ipfs", "IPFS"} /\ IsValidCid(uri.cid)

\* is_arweave_tx_uri.
IsArweaveTxUri(uri) == uri.scheme = "ar" /\ uri.txid /\ ~uri.fragment

\* _check_uris and _check_one_uri.
UriIssues(holder, at) ==
  When(Get(holder, "uris").type = "array" /\ Entries(holder, "uris") = <<>>,
       "SCHEMA_TYPE_MISMATCH", Append(at, "uris"))
    \cup EachOf(holder, "uris", at,
                LAMBDA uri, p : When(uri.s \notin DOMAIN UriOf \/ ~IsFetchSetUri(UriOf[uri.s]),
                                     "INVALID_URI", p))

\* _check_item_hashes.
HashIssues(item, at) ==
  LET hashes == item.of["hashes"].of
  IN When(DOMAIN hashes = {}, "SCHEMA_TYPE_MISMATCH", Append(at, "hashes"))
       \cup UNION {IF alg \notin HASH_ALGS THEN Issue("UNSUPPORTED_HASH_ALG", at \o <<"hashes", alg>>)
                   ELSE When(hashes[alg].n # 32, "HASH_DIGEST_LENGTH_MISMATCH", at \o <<"hashes", alg>>) :
                     alg \in DOMAIN hashes}

\* _check_merkle_commit.
MerkleIssues(commit, at) ==
  LET count == commit.of["leaf_count"]
  IN (IF commit.of["alg"].s # "rfc9162-sha256"
      THEN Issue("UNSUPPORTED_MERKLE_COMMIT_ALG", Append(at, "alg"))
      ELSE When(commit.of["root"].n # 32, "HASH_DIGEST_LENGTH_MISMATCH", Append(at, "root")))
     \cup (IF count.type # "uint" THEN Issue("SCHEMA_TYPE_MISMATCH", Append(at, "leaf_count"))
           ELSE When(count.n < 1 \/ count.n > UINT32_MAX, "SCHEMA_MERKLE_LEAF_COUNT_INVALID",
                     Append(at, "leaf_count")))
     \cup UriIssues(commit, at)

\* _check_sig_entry, whose reading of blob and key is CoseSign1's.
Junk == [Blob(NoHeader, FALSE, "null", "none") EXCEPT !.shape = "not_cbor"]
SigIssues(entry, at) ==
  LET blob == entry.of["cose_sign1"].id
      key == Get(entry, "cose_key")
  IN UNION {Issue(code, at) : code \in SigEntryIssues(
       [cose |-> IF blob \in DOMAIN CoseOf THEN CoseOf[blob] ELSE Junk,
        key |-> IF IsNone(key) THEN NoKey
                ELSE IF key.id \in DOMAIN KeyOf THEN KeyOf[key.id] ELSE [NoKey EXCEPT !.is = "junk"]])}

-----------------------------------------------------------------------------
(* Step 3: the encryption envelope.                                        *)
KEMS == {"x25519", "mlkem768x25519"}
AEAD == "chacha20-poly1305-stream64k"
FORBIDDEN_AEADS == {"aes-256-cbc"}    \* names UNAUTHENTICATED_CIPHER_RE matches
MaterialField(kem) == IF kem = "x25519" THEN "epk" ELSE "kem_ct"
MaterialLength(kem) == IF kem = "x25519" THEN 32 ELSE 1120

\* What a Python operation on a value it does not fit does to the call.
Raised(at) == Issue("RAISED", at)

\* _enc_internal_non_text_key_issues.
EncNonTextIssues(enc, at) ==
  LET pp == Get(enc, "passphrase")
      Flag(value, p) == When(NonText(value), "SCHEMA_TYPE_MISMATCH", p)
  IN EachOf(enc, "slots", at, Flag)
       \cup (IF NonText(pp) THEN Flag(pp, Append(at, "passphrase"))
             ELSE Flag(Get(pp, "params"), at \o <<"passphrase", "params">>))

\* The passphrase block's part of _enc_scheme1_schema_issues.
EncPassphraseSchema(pp, at) ==
  LET salt == Get(pp, "salt")
  IN IF pp.type # "map" THEN Issue("SCHEMA_TYPE_MISMATCH", at)
     ELSE Closed(pp, {"alg", "salt", "params"}, "SCHEMA_UNKNOWN_FIELD", at)
            \cup Required(pp, "alg", {"text"}, at) \cup Required(pp, "params", {"map"}, at)
            \cup (IF salt.type # "bytes" THEN Issue("SCHEMA_TYPE_MISMATCH", Append(at, "salt"))
                  ELSE When(salt.n < 16, "ENC_PASSPHRASE_SALT_TOO_SHORT", Append(at, "salt"))
                         \cup When(salt.n > 64, "ENC_PASSPHRASE_SALT_TOO_LONG", Append(at, "salt")))

\* Mutated form: a missing nonce is not noticed.
EncRequired_NoNonce(enc, at) == Required(enc, "aead", {"text"}, at)

\* What every envelope must have.
EncRequired(enc, at) == Required(enc, "aead", {"text"}, at) \cup Required(enc, "nonce", {"bytes"}, at)

\* _enc_scheme1_schema_issues.
EncSchemaIssues(enc, at) ==
  LET Slot(slot, p) ==
        IF slot.type # "map" THEN Issue("ENC_SLOT_INVALID_SHAPE", p)
        ELSE UNION {Optional(slot, field, "bytes", "ENC_SLOT_INVALID_SHAPE", p) :
                      field \in {"epk", "kem_ct", "wrap"}}
      mac == Get(enc, "slots_mac")
      pp == Get(enc, "passphrase")
  IN Closed(enc, {"scheme", "aead", "kem", "nonce", "slots", "slots_mac", "passphrase"},
            "SCHEMA_UNKNOWN_FIELD", at)
       \cup EncRequired(enc, at)
       \cup Optional(enc, "kem", "text", "SCHEMA_TYPE_MISMATCH", at)
       \cup Optional(enc, "slots", "array", "SCHEMA_TYPE_MISMATCH", at)
       \cup EachOf(enc, "slots", at, Slot)
       \cup Optional(enc, "slots_mac", "bytes", "SCHEMA_TYPE_MISMATCH", at)
       \cup When(mac.type = "bytes" /\ mac.n # 32, "ENC_SLOTS_MAC_INVALID_LENGTH", Append(at, "slots_mac"))
       \cup (IF IsNone(pp) THEN {} ELSE EncPassphraseSchema(pp, Append(at, "passphrase")))

\* _check_slot_shape.
SlotIssues(slot, kem, at) ==
  LET field == MaterialField(kem)
      Sizes(name, length, code) ==
        IF IsNone(Get(slot, name)) THEN Issue("ENC_SLOT_INVALID_SHAPE", Append(at, name))
        ELSE When(Get(slot, name).n # length, code, Append(at, name))
  IN Closed(slot, {field, "wrap"}, "ENC_SLOT_INVALID_SHAPE", at)
       \cup Sizes(field, MaterialLength(kem),
                  IF field = "epk" THEN "KEM_EPK_LENGTH_MISMATCH" ELSE "KEM_CT_LENGTH_MISMATCH")
       \cup Sizes("wrap", 48, "WRAP_LENGTH_MISMATCH")

\* Slot i repeats the KEM material of an earlier one.
Repeats(slots, field, i) ==
  Get(slots[i], field).type = "bytes" /\ \E j \in 1..(i - 1) : Get(slots[j], field) = Get(slots[i], field)

\* The slots part of _check_scheme1_envelope: the bound before any slot, then
\* every slot, and KEM material that repeats an earlier slot's.
SlotsIssues(enc, at) ==
  LET slots == Entries(enc, "slots")
      kem == enc.of["kem"].s
  IN IF enc.of["slots"].type = "null" THEN Raised(Append(at, "slots"))
     ELSE IF slots = <<>> THEN Issue("ENC_SLOTS_EMPTY", Append(at, "slots"))
     ELSE IF Len(slots) > MAX_SLOTS THEN Issue("ENC_SLOTS_TOO_MANY", Append(at, "slots"))
     ELSE IF ~Has(enc, "kem") THEN {}
     ELSE IF enc.of["kem"].type = "null" THEN Raised(Append(at, "kem"))
     ELSE UNION {SlotIssues(slots[i], kem, at \o <<"slots", Seg(i)>>)
                   \cup When(Repeats(slots, MaterialField(kem), i), "ENC_SLOTS_DUPLICATE_KEM_MATERIAL", at \o <<"slots", Seg(i)>>) :
                     i \in DOMAIN slots}

\* _check_passphrase_block: range, floor, ceiling, in this order.
PassphraseIssues(pp, at) ==
  LET params == pp.of["params"]
      Param(name) ==
        LET value == Get(params, name)
            p == at \o <<"params", name>>
        IN IF value = Absent THEN Issue("SCHEMA_MISSING_REQUIRED", p)
           ELSE IF value.type # "uint" THEN Issue("SCHEMA_TYPE_MISMATCH", p)
           ELSE IF value.n > UINT32_MAX THEN Issue("SCHEMA_TYPE_MISMATCH", p)
           ELSE IF value.n < Floors[name] THEN Issue("ENC_PASSPHRASE_ARGON2_PARAMS_TOO_LOW", p)
           ELSE When(value.n > Ceiling[name], "ENC_PASSPHRASE_PARAMS_EXCEED_POLICY", p)
  IN IF pp.type = "null" THEN Raised(at)
     ELSE IF pp.of["alg"].s # "argon2id" THEN Issue("ENC_PASSPHRASE_ALG_UNSUPPORTED", Append(at, "alg"))
     ELSE Closed(params, {"m", "t", "p"}, "SCHEMA_UNKNOWN_FIELD", Append(at, "params"))
            \cup UNION {Param(name) : name \in {"m", "t", "p"}}

\* _check_scheme1_envelope.
Scheme1Issues(enc, at) ==
  LET slots == Has(enc, "slots")
      mac == Has(enc, "slots_mac")
      pp == Has(enc, "passphrase")
      kem == Has(enc, "kem")
  IN IF Get(enc, "nonce").type # "bytes" THEN Raised(Append(at, "nonce"))
     ELSE When(enc.of["nonce"].n # 24, "NONCE_LENGTH_MISMATCH", Append(at, "nonce"))
            \cup When(pp /\ (slots \/ mac \/ kem), "ENC_EXCLUSIVITY_VIOLATION", at)
            \cup When(slots /\ ~mac, "ENC_SLOTS_MAC_REQUIRED", at)
            \cup When(mac /\ ~slots, "ENC_SLOTS_REQUIRED", at)
            \cup When(slots /\ ~kem, "ENC_KEM_REQUIRED", at)
            \cup When(~slots /\ ~pp, "ENC_NO_KEY_PATH", at)
            \cup (IF slots THEN SlotsIssues(enc, at) ELSE {})
            \cup (IF pp THEN PassphraseIssues(enc.of["passphrase"], Append(at, "passphrase")) ELSE {})

\* The identifiers outside the implemented set, with their codes.
Unsupported(enc) ==
  {pair \in {<<"scheme", "UNSUPPORTED_ENVELOPE_SCHEME">>, <<"kem", "UNSUPPORTED_KEM_ALG">>,
             <<"aead", "UNSUPPORTED_AEAD_ALG">>} :
     LET value == Get(enc, pair[1])
     IN CASE pair[1] = "scheme" -> value.n # 1
          [] pair[1] = "kem" -> value.type = "text" /\ value.s \notin KEMS
          [] OTHER -> value.type = "text" /\ value.s # AEAD}

\* The disposition of an envelope with a scheme (_check_item_enc): forbidden,
\* opaque, or held to the typed reading, which each layer forecloses.
EnvelopeIssues(enc, at, role) ==
  IF IsText(Get(enc, "aead"), FORBIDDEN_AEADS)
  THEN Issue("UNAUTHENTICATED_CIPHER_FORBIDDEN", Append(at, "aead"))
  ELSE IF Unsupported(enc) # {}
  THEN Issue("ENC_UNSUPPORTED", at)
         \cup (IF role = "public" THEN {}
               ELSE UNION {Issue(pair[2], Append(at, pair[1])) : pair \in Unsupported(enc)})
  ELSE IF EncNonTextIssues(enc, at) # {} THEN EncNonTextIssues(enc, at)
  ELSE IF EncSchemaIssues(enc, at) # {} THEN EncSchemaIssues(enc, at)
  ELSE Scheme1Issues(enc, at)

\* _check_item_enc.
ItemEncIssues(item, at, role) ==
  LET enc == item.of["enc"]
      p == Append(at, "enc")
  IN When(DOMAIN item.of["hashes"].of \cap HASH_ALGS = {}, "ENC_REQUIRES_CONTENT_HASH", p)
       \cup (IF enc.type # "map" THEN Issue("SCHEMA_TYPE_MISMATCH", p)
             ELSE When(EncodedBytes(enc) > MAX_ENVELOPE_BYTES, "ENC_ENVELOPE_TOO_LARGE", p)
                    \cup Required(enc, "scheme", {"uint"}, p)
                    \cup (IF Get(enc, "scheme").type # "uint" THEN {} ELSE EnvelopeIssues(enc, p, role)))

-----------------------------------------------------------------------------
(* validate.                                                               *)
DomainIssues(rec, role) ==
  LET Item(item, at) == HashIssues(item, at) \cup UriIssues(item, at)
                          \cup (IF Has(item, "enc") THEN ItemEncIssues(item, at, role) ELSE {})
  IN PresenceIssues(rec) \cup CritIssues(rec)
       \cup Closed(rec, BASE_KEYS \cup ExtensionKeys, "SCHEMA_UNKNOWN_FIELD", <<>>)
       \cup EachOf(rec, "items", <<>>, Item)
       \cup EachOf(rec, "merkle", <<>>, MerkleIssues)
       \cup When(Get(rec, "sigs").type = "array" /\ Entries(rec, "sigs") = <<>>,
                 "SCHEMA_TYPE_MISMATCH", <<"sigs">>)
       \cup EachOf(rec, "sigs", <<>>, SigIssues)

Informational(role) ==
  {"SIGNATURE_UNSUPPORTED"} \cup (IF role = "public" THEN {"ENC_UNSUPPORTED"} ELSE {})

Validate(rec, role) ==
  LET issues == IF NonTextKeyIssues(rec) # {} THEN NonTextKeyIssues(rec)
                ELSE IF SchemaIssues(rec) # {} THEN SchemaIssues(rec)
                ELSE DomainIssues(rec, role)
  IN [ok |-> {issue.code : issue \in issues} \subseteq Informational(role),
      raised |-> \E issue \in issues : issue.code = "RAISED",
      issues |-> issues]
=============================================================================
