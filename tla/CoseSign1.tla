------------------------------ MODULE CoseSign1 ------------------------------
(***************************************************************************)
(* Record signatures as values: detached COSE_Sign1 blobs                  *)
(* (_crypto/cose_sign1.py), inline wallet keys (_crypto/cose_key.py), what *)
(* the structural validator asks of a sigs[] entry and what the verifier   *)
(* makes of it (verifier/signatures.py).  Ed25519 is ideal: a signature    *)
(* verifies under the key that made it, over what it was made over.        *)
(***************************************************************************)
EXTENDS Integers, Sequences, Checks

EdDSA == -8
KNOWN_SIG_ALG_IDS == {-8, -19}

\* A protected header: the label 1, the 32-byte kid under label 4 (a key),
\* the wallet's address; "none" or 0 when absent, "short" when ill-sized.
\* A blob of shape "cose" passes the byte-level checks; any other shape
\* names the one it fails.
Shapes == {"cose", "not_cbor", "not_four", "header_type", "unprotected_type", "payload_type",
           "signature_length", "header_cbor", "header_empty_map", "header_not_canonical"}
Header(alg, kid, address) == [alg |-> alg, kid |-> kid, address |-> address]
NoAddress == <<"none", "none">>
NoHeader == Header(0, "none", NoAddress)
Blob(header, hashed, payload, sig) ==
  [shape |-> "cose", header |-> header, hashed |-> hashed, payload |-> payload, sig |-> sig]

\* A COSE_Key: its labels 1, -1, 3 (0 when absent), -2 and whether it has -4.
CoseKey(x) == [is |-> "key", kty |-> 1, crv |-> 6, alg |-> 0, x |-> x, private |-> FALSE]
NoKey == [is |-> "absent", kty |-> 0, crv |-> 0, alg |-> 0, x |-> "none", private |-> FALSE]

\* decode_cose_sign1 returns; every other shape is MALFORMED_SIG_COSE.
Decodes(blob) == blob.shape = "cose"

-----------------------------------------------------------------------------
\* Mutated form: the protected header is not signed.
SigStructure_NoHeader(header, body, hashed) ==
  [header |-> NoHeader, toSign |-> body, hashed |-> hashed]

\* build_label309_sig_structure over the domain-separated body, and its
\* hashed mode, where a digest of the whole takes the body's place.
SigStructure(header, body, hashed) == [header |-> header, toSign |-> body, hashed |-> hashed]

\* encode_cose_sign1, as both builders use it.
Detached(header, hashed, sig) == Blob(header, hashed, "null", sig)

\* Raised by a builder (cose_sign1_label309_build): a secret key or a
\* signer, one of them, and a signer that answers with 64 bytes.
BuildRefusal(seeds, signers, answers) == FirstFailing(<<
  <<"SIGNER_NOT_PROVIDED", seeds = 0 /\ signers = 0>>,
  <<"SIGNER_AND_SEED_BOTH_PROVIDED", seeds > 0 /\ signers > 0>>,
  <<"SIGNER_NOT_PROVIDED", signers > 0 /\ ~answers>> >>)

Sized(key) == key \notin {"none", "short"}

\* cose_sign1_label309_verify against an expected key, which may be "none".
Label309Verify(blob, body, expected) ==
  LET key == IF Sized(blob.header.kid) THEN blob.header.kid ELSE expected
  IN FirstFailing(<<
       <<"MALFORMED_SIG_COSE", ~Decodes(blob)>>,
       <<"MALFORMED_SIG_COSE_SIGN1", blob.payload # "null">>,
       <<"UNSUPPORTED_SIG_ALG", blob.header.alg # EdDSA>>,
       <<"KID_UNRESOLVED", ~Sized(key)>>,
       <<"KID_UNRESOLVED", Sized(expected) /\ key # expected>>,
       <<"SIGNATURE_INVALID",
         blob.sig # [by |-> key, over |-> SigStructure(blob.header, body, blob.hashed)]>> >>)

\* parse_cose_key_ed25519: the key, or "none".
ParseCoseKey(key) ==
  IF key.is = "key" /\ key.kty = 1 /\ key.crv = 6 /\ key.alg \in {0, EdDSA} /\ Sized(key.x)
  THEN key.x ELSE "none"

-----------------------------------------------------------------------------
(* The verifier's reading of one entry [cose, key].                        *)

\* _resolve_signer_key: the kid of the protected header when there is no
\* inline key, else the inline key.
Resolved(entry) ==
  IF entry.key.is = "absent" THEN IF Sized(entry.cose.header.kid) THEN entry.cose.header.kid ELSE "none"
  ELSE ParseCoseKey(entry.key)

\* _wallet_address_binds_pubkey: the stake address of the key on the network
\* of the transaction; preprod and preview share the testnet header.
NetworkByte(network) == IF network = "mainnet" THEN "e1" ELSE "e0"
StakeAddress(key, network) == <<NetworkByte(network), key>>

AddressBinds(entry, key, network) == entry.cose.header.address = StakeAddress(key, network)

Verdict(verdict, reason, signer) == [verdict |-> verdict, reason |-> reason, signer |-> signer]

\* _map_verify_error.
Reason(code) ==
  CASE code \in {"MALFORMED_SIG_COSE", "MALFORMED_SIG_COSE_SIGN1"} -> "MALFORMED_SIG_COSE_SIGN1"
    [] code = "UNSUPPORTED_SIG_ALG" -> "SIGNATURE_UNSUPPORTED"
    [] code = "KID_UNRESOLVED" -> "SIGNER_KEY_UNRESOLVED"
    [] OTHER -> "SIGNATURE_INVALID"

\* _verify_one_sig.
VerifyOneSig(entry, body, network) ==
  LET pub == Resolved(entry)
      code == Label309Verify(entry.cose, body, pub)
      verdict == IF code = "UNSUPPORTED_SIG_ALG" THEN "unsupported" ELSE "invalid"
  IN IF ~Decodes(entry.cose) THEN Verdict("invalid", "MALFORMED_SIG_COSE_SIGN1", "none")
     ELSE IF pub = "none" THEN Verdict("unresolved", "SIGNER_KEY_UNRESOLVED", "none")
     ELSE IF code # OK THEN Verdict(verdict, Reason(code), pub)
     ELSE IF entry.key.is # "absent" /\ ~AddressBinds(entry, pub, network)
     THEN Verdict("invalid", "WALLET_ADDRESS_MISMATCH", pub)
     ELSE Verdict("valid", "none", pub)

-----------------------------------------------------------------------------
(* The validator's reading of the same entry: its issues, as codes.        *)

\* _inspect_cose_key; labels are looked at only in a map.
CoseKeyIssue(key) == FirstFailing(<<
  <<"MALFORMED_SIG_COSE_SIGN1", key.is = "junk">>,
  <<"SIG_PRIVATE_KEY_LEAKED", key.private>>,
  <<"MALFORMED_SIG_COSE_SIGN1", key.kty # 1 \/ key.crv # 6 \/ ~Sized(key.x)>> >>)

\* _check_sig_entry: a leaked private key first, then the blob, then both
\* key paths at once.
SigEntryIssues(entry) ==
  IF entry.key.is # "absent" /\ CoseKeyIssue(entry.key) # OK THEN {CoseKeyIssue(entry.key)}
  ELSE IF ~Decodes(entry.cose) \/ entry.cose.payload # "null" THEN {"MALFORMED_SIG_COSE_SIGN1"}
  ELSE {code \in {"SIGNATURE_UNSUPPORTED", "SIG_ENTRY_KID_COSE_KEY_CONFLICT"} :
          IF code = "SIGNATURE_UNSUPPORTED" THEN entry.cose.header.alg \notin KNOWN_SIG_ALG_IDS
          ELSE Sized(entry.cose.header.kid) /\ entry.key.is # "absent"}
=============================================================================
