------------------------------ MODULE MCRecords ------------------------------
(***************************************************************************)
(* The records, arguments and stored documents that TLC starts from, and   *)
(* the changes it makes to them: for RecordDrafts and RecordAssembly.      *)
(***************************************************************************)
EXTENDS CborValue, CoseSign1, HexTexts

Ar == "ar://AAAAAAAAAAAAAAAAAAAAAAAAAAAAAAAAAAAAAAAAAAA"
IpfsUri == "ipfs://cid"

-----------------------------------------------------------------------------
\* Composing: RecordDrafts.
Aead == "chacha20-poly1305-stream64k"
ItemHashes == Map("sha2-256" :> Bytes(32, "d1"))
SlotOf(id) == Map([epk |-> Bytes(32, id), wrap |-> Bytes(48, "w")])
Hybrid(id) == Map([kem_ct |-> Bytes(1120, id), wrap |-> Bytes(48, "w")])
Base(kem, slots) == [scheme |-> Uint(1), aead |-> Text(Aead), kem |-> Text(kem), nonce |-> Bytes(24, "n"),
                    slots |-> List(slots), slots_mac |-> Bytes(32, "m")]
PassphraseBlock == Map([alg |-> Text("argon2id"), salt |-> Bytes(16, "s"),
                   params |-> Map([m |-> Uint(3), t |-> Uint(2), p |-> Uint(1)])])
SealedItem(enc) == Map([hashes |-> ItemHashes, uris |-> List(<<Text(Ar)>>), enc |-> Map(enc)])
Commit == Map([alg |-> Text("rfc9162-sha256"), root |-> Bytes(32, "r"), leaf_count |-> Uint(2)])
MCStarts == <<
  Map([v |-> Uint(1), items |-> List(<<SealedItem(Base("x25519", <<SlotOf("e1"), SlotOf("e2")>>))>>)]),
  Map([v |-> Uint(1), items |-> List(<<SealedItem(Base("mlkem768x25519", <<Hybrid("e1")>>))>>)]),
  Map([v |-> Uint(1), items |-> List(<<SealedItem([scheme |-> Uint(1), aead |-> Text(Aead), nonce |-> Bytes(24, "n"),
                                             passphrase |-> PassphraseBlock])>>)]),
  Map(("x-a" :> Uint(1)) @@ [v |-> Uint(1), merkle |-> List(<<Commit>>), supersedes |-> Bytes(32, "t"), crit |-> List(<<Text("x-a")>>),
       sigs |-> List(<<Map([cose_sign1 |-> Bytes(80, "good")])>>)]) >>
Enc == <<"items", "enc">>
MCFields ==
  (<<>> :> {"v", "items", "merkle", "supersedes", "crit", "sigs", "x-a", "zz"}) @@
  (<<"items">> :> {"hashes", "uris", "enc", "zz"}) @@
  (<<"items", "hashes">> :> {"sha2-256", "md5"}) @@
  (Enc :> {"scheme", "aead", "kem", "nonce", "slots", "slots_mac", "passphrase", "zz"}) @@
  (Append(Enc, "slots") :> {"epk", "kem_ct", "wrap", "zz"}) @@
  (Append(Enc, "passphrase") :> {"alg", "salt", "params", "zz"}) @@
  (Enc \o <<"passphrase", "params">> :> {"m", "t", "p", "zz"}) @@
  (<<"merkle">> :> {"alg", "root", "leaf_count", "uris", "zz"}) @@
  (<<"sigs">> :> {"cose_sign1", "cose_key", "zz"})
Param == <<Uint(0), Uint(2), Uint(5), Uint(41), Nint>>
Digest == <<Bytes(32, "d2"), Bytes(31, "d2"), Null>>
MCValues ==
  [v |-> <<Uint(2), Null>>, items |-> <<List(<<>>), Null, List(<<Null>>)>>, merkle |-> <<List(<<>>), List(<<Commit>>)>>,
   supersedes |-> <<Bytes(31, "t"), Null>>, crit |-> <<List(<<Text("x-a"), Text("x-a")>>), List(<<Text("v")>>), List(<<>>), List(<<Text("x-a")>>)>>,
   sigs |-> <<List(<<>>), Null>>, zz |-> <<Uint(1)>>,
   hashes |-> <<Map(<<>>), Null>>, uris |-> <<List(<<>>), List(<<Text(IpfsUri)>>), List(<<Text("ipfs://bad"), Text(Ar)>>)>>,
   enc |-> <<Null, Map(<<>>)>>,
   scheme |-> <<Uint(2), Null>>, aead |-> <<Text("aes-256-cbc"), Text("aes-256-gcm"), Null>>,
   kem |-> <<Text("x25519"), Text("mlkem768x25519"), Text("kyber"), Null, Uint(1)>>, nonce |-> <<Bytes(23, "n"), Null>>,
   slots |-> <<List(<<>>), List(<<SlotOf("e1"), SlotOf("e2"), SlotOf("e1")>>), List(<<Hybrid("e1"), Hybrid("e1")>>), List(<<Hybrid("e1"), Hybrid("e2")>>),
               List(<<SlotOf("e1"), SlotOf("e2"), SlotOf("e3"), SlotOf("e4")>>), List(<<Null>>), Null>>,
   slots_mac |-> <<Bytes(32, "m"), Bytes(31, "m"), Null>>, passphrase |-> <<PassphraseBlock, Null>>,
   epk |-> <<Bytes(32, "e2"), Bytes(31, "e1"), Null>>, kem_ct |-> <<Bytes(1120, "e2"), Bytes(32, "e1")>>, wrap |-> <<Bytes(47, "w"), Null>>,
   alg |-> <<Text("scrypt"), Null>>, salt |-> <<Bytes(15, "s"), Bytes(65, "s"), Null>>, params |-> <<Map(<<>>), Null>>,
   m |-> Param, t |-> Param, p |-> Param,
   root |-> <<Bytes(31, "r")>>, leaf_count |-> <<Uint(0), Uint(41), Nint>>,
   cose_sign1 |-> <<Bytes(80, "good"), Bytes(80, "junk"), Uint(1)>>, cose_key |-> <<Bytes(40, "key"), Null>>]
   @@ ("x-a" :> <<Uint(1)>>) @@ ("sha2-256" :> Digest) @@ ("md5" :> Digest)

-----------------------------------------------------------------------------
\* Producing and storing: RecordAssembly.
Hex64 == HexText(64, 0, TRUE)
HexTexts == {NoText, Hex64, HexText(64, 2, TRUE), HexText(64, 1, TRUE), HexText(63, 0, TRUE), HexText(64, 0, FALSE)}
Signers == {"none", "good", "ill_key", "short_signature"}
UriLists == {<<>>, <<Ar>>, <<IpfsUri, Ar>>, <<Ar, "ipfs://bad">>}
Call == [uris : UriLists, given : {TRUE}, supersedes : HexTexts, signer : Signers]
          \cup [uris : {<<>>}, given : {FALSE}, supersedes : HexTexts, signer : Signers]
AlgLists == {<<>>, <<"sha2-256">>, <<"blake2b-256", "sha2-256">>, <<"md5">>}
MCContents == {call @@ [algs |-> algs] : call \in Call, algs \in AlgLists}
DigestOf(alg, text) == <<alg, text>>
DigestLists == {<<>>, <<DigestOf("sha2-256", Hex64)>>, <<DigestOf("sha2-256", HexText(0, 0, TRUE)), DigestOf("blake2b-256", Hex64)>>,
                <<DigestOf("sha2-256", HexText(66, 2, TRUE))>>, <<DigestOf("sha2-256", HexText(64, 2, TRUE))>>, <<DigestOf("md5", Hex64)>>}
MCPrehashed == {call @@ [digests |-> digests] : call \in Call, digests \in DigestLists}
MCBatches == [uris : {<<Ar>>}, given : {TRUE}, supersedes : HexTexts, signer : Signers,
              alg : {"sha2-256", "blake2b-256"}, leaves : {<<>>, <<32>>, <<32, 31>>, [i \in 1..30 |-> 32]}]
MCSeals == [bare : BOOLEAN, items : {<<>>, <<"c1">>, <<"c1", "c2">>}, recipients : 0..4, kem : {"x25519", "mlkem768x25519", "kyber"},
            keys : {"sound", "ill_sized", "unsound"}, algs : AlgLists]
MCPassphraseSeals ==
  [bare : BOOLEAN, items : {<<>>, <<"c1">>, <<"c1", "c2">>}, empty : BOOLEAN, algs : AlgLists,
   params : {[m |-> m, t |-> 2, p |-> p] : m \in {1, 2, 6, 41}, p \in {0, 1}}]
MCAssemblies == [uris : {<<>>, <<Ar>>, <<IpfsUri>>, <<Ar, Ar>>, <<Ar, IpfsUri>>, <<Ar, "ipfs://bad">>}, given : {TRUE}, supersedes : HexTexts, signer : Signers]
JsonEnv == <<"items", "envelope">>
MCJsonFields ==
  (<<>> :> {"version", "kem", "items", "prepared_sha256", "zz"}) @@
  (<<"items">> :> {"item_id", "ciphertext", "hashes", "zz"}) @@
  (<<"items", "hashes">> :> {"sha2-256", "md5"}) @@
  (JsonEnv :> {"scheme", "aead", "kem", "nonce", "slots", "slots_mac"}) @@
  (Append(JsonEnv, "slots") :> {"epk", "kem_ct", "wrap"})
JsonSlot(id) == Map([epk |-> Bytes(32, id), wrap |-> Bytes(48, "w")])
MCJsonValues ==
  [version |-> <<Text("v2"), Null>>, kem |-> <<Text("mlkem768x25519"), Text("kyber")>>,
   items |-> <<List(<<>>), Null>>, prepared_sha256 |-> <<Text("beef"), Null>>, zz |-> <<Null>>,
   item_id |-> <<Text("beef")>>, ciphertext |-> <<Bytes(40, "c9"), Text("?")>>, hashes |-> <<Map(<<>>)>>,
   scheme |-> <<Uint(2), Text("1")>>, aead |-> <<Text("aes-256-gcm")>>, nonce |-> <<Bytes(23, "n"), Text("?")>>,
   slots |-> <<List(<<>>), List(<<JsonSlot("1"), JsonSlot("1")>>)>>, slots_mac |-> <<Bytes(31, "m")>>,
   epk |-> <<Bytes(31, "1"), Text("?"), Null>>, kem_ct |-> <<Bytes(1120, "9"), Null>>, wrap |-> <<Bytes(47, "w")>>]
   @@ ("sha2-256" :> <<Bytes(31, "d"), Text("?")>>) @@ ("md5" :> <<Bytes(32, "d"), Bytes(16, "d")>>)

-----------------------------------------------------------------------------
\* What the names stand for, and the bounds of the validator.
Cid == [base |-> "b", decodes |-> TRUE, version |-> 1, codec |-> 85, hash |-> 18, says |-> 32, holds |-> 32]
Uri(scheme, txid, cid) == [scheme |-> scheme, fragment |-> FALSE, txid |-> txid, cid |-> cid]
MCUris == (Ar :> Uri("ar", TRUE, Cid)) @@ (IpfsUri :> Uri("ipfs", FALSE, Cid)) @@ ("ipfs://bad" :> Uri("ipfs", FALSE, [Cid EXCEPT !.holds = 31]))
MCCose == [good |-> Blob(Header(EdDSA, "k1", NoAddress), FALSE, "null", "s1")]
MCKeys == [key |-> CoseKey("k1")]
MCFloors == [m |-> 2, t |-> 2, p |-> 1]
MCCeiling == [m |-> 5, t |-> 4, p |-> 4]
=============================================================================
