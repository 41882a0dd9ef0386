--------------------------- MODULE RecordSignature ---------------------------
(***************************************************************************)
(* One signature's way into a record: the library prepares what is to be   *)
(* signed and assembles the entry afterwards (client/off_host_sign.py,     *)
(* client/publish.py), the key itself being elsewhere; a wallet builds its *)
(* own entry.  Between the steps the record may change, the two modes of   *)
(* the helper may be mixed up, and an entry may be copied from another     *)
(* record or altered.  The validator and the verifier then read it.        *)
(***************************************************************************)
EXTENDS CoseSign1

CONSTANTS
  SignKeys, Bodies, SigNetworks,   \* keys, records without sigs, networks
  MaxSteps                         \* bound: changes between preparing and reading

KeysAssumption == SignKeys \cap {"none", "short"} = {} /\ MaxSteps \in Nat

VARIABLES
  stage,      \* building, entered, read
  record,     \* the record without its sigs
  asked,      \* what was prepared to be signed, for whom, and the answer
  entry,      \* the entry: its blob, its inline key, and who made it
  signed,     \* of the history: every signature ever made
  steps,
  network, verdict, issues
signatureVars == <<stage, record, asked, entry, signed, steps, network, verdict, issues>>

NoSig == [by |-> "none", over |-> SigStructure(NoHeader, "none", FALSE)]
Nobody == [cose |-> Blob(NoHeader, FALSE, "null", NoSig), key |-> NoKey, maker |-> "none"]
Unasked == [key |-> "none", hashed |-> FALSE, body |-> "none", structure |-> NoSig.over,
            sig |-> NoSig, answered |-> FALSE]

SignatureInit ==
  /\ stage = "building" /\ record \in Bodies /\ asked = Unasked /\ entry = Nobody
  /\ signed = {} /\ steps = 0
  /\ network = "none" /\ verdict = Verdict("none", "none", "none") /\ issues = {}

Path1(key) == Header(EdDSA, key, NoAddress)

\* prepare_sig_structure and prepare_sig_structure_hashed.
Prepare(key, hashed) ==
  /\ stage = "building" /\ asked.key = "none"
  /\ asked' = [key |-> key, hashed |-> hashed, body |-> record, sig |-> NoSig, answered |-> FALSE,
               structure |-> SigStructure(Path1(key), record, hashed)]
  /\ UNCHANGED <<stage, record, entry, signed, steps, network, verdict, issues>>

\* The signer, wherever it is, answers (_invoke_signer); with another key
\* than the one that was named, perhaps.
Answer(key) ==
  /\ asked.key # "none" /\ ~asked.answered
  /\ LET sig == [by |-> key, over |-> asked.structure]
     IN asked' = [asked EXCEPT !.sig = sig, !.answered = TRUE] /\ signed' = signed \cup {sig}
  /\ UNCHANGED <<stage, record, entry, steps, network, verdict, issues>>

\* assemble_cose_sign1 and assemble_cose_sign1_hashed: the record is not
\* looked at again.
Assemble(hashed) ==
  /\ stage = "building" /\ asked.answered /\ stage' = "entered"
  /\ entry' = [cose |-> Detached(Path1(asked.key), hashed, asked.sig), key |-> NoKey,
               maker |-> "library"]
  /\ UNCHANGED <<record, asked, signed, steps, network, verdict, issues>>

\* A wallet signs on its own and leaves its key beside the blob (external:
\* a CIP-30 wallet); it may know other algorithms, attach the payload, or
\* leave the address out.
WalletSigns(key, alg, address, hashed, payload) ==
  LET header == Header(alg, "none", address)
      sig == [by |-> key, over |-> SigStructure(header, record, hashed)]
  IN /\ stage = "building" /\ asked.key = "none" /\ stage' = "entered"
     /\ entry' = [cose |-> Blob(header, hashed, payload, sig), key |-> CoseKey(key),
                  maker |-> "wallet"]
     /\ signed' = signed \cup {sig}
     /\ UNCHANGED <<record, asked, steps, network, verdict, issues>>

\* The record changes under the signature, or the entry is put beside
\* another record.
ChangeBody ==
  /\ stage # "read" /\ steps < MaxSteps /\ steps' = steps + 1
  /\ record' \in Bodies \ {record}
  /\ UNCHANGED <<stage, asked, entry, signed, network, verdict, issues>>

\* The entry is altered: anything but a signature nobody made.
AlterEntry ==
  /\ stage = "entered" /\ steps < MaxSteps /\ steps' = steps + 1
  /\ \/ \E shape \in Shapes \ {"cose"} : entry' = [entry EXCEPT !.cose.shape = shape]
     \/ \E alg \in {0, EdDSA, -19, -7} \ {entry.cose.header.alg} :
          entry' = [entry EXCEPT !.cose.header.alg = alg]
     \/ \E kid \in (SignKeys \cup {"none", "short"}) \ {entry.cose.header.kid} :
          entry' = [entry EXCEPT !.cose.header.kid = kid]
     \/ \E key \in SignKeys, net \in SigNetworks :
          entry' = [entry EXCEPT !.cose.header.address = StakeAddress(key, net)]
     \/ entry' = [entry EXCEPT !.cose.hashed = ~@]
     \/ entry' = [entry EXCEPT !.cose.payload = "attached"]
     \/ \E key \in SignKeys : entry' = [entry EXCEPT !.key = CoseKey(key)]
     \/ entry' = [entry EXCEPT !.key = NoKey]
     \/ \E key \in {[CoseKey("short") EXCEPT !.kty = kty] : kty \in {1, 2}}
                    \cup {[CoseKey(k) EXCEPT !.crv = 7] : k \in SignKeys}
                    \cup {[CoseKey(k) EXCEPT !.alg = -7] : k \in SignKeys}
                    \cup {[CoseKey(k) EXCEPT !.private = TRUE] : k \in SignKeys}
                    \cup {[NoKey EXCEPT !.is = "junk"]} :
          entry' = [entry EXCEPT !.key = key]
  /\ UNCHANGED <<stage, record, asked, signed, network, verdict, issues>>

\* validate and verify_record_signatures, on the same entry.
ReadEntry(net) ==
  /\ stage = "entered" /\ stage' = "read" /\ network' = net
  /\ verdict' = VerifyOneSig(entry, record, net)
  /\ issues' = SigEntryIssues(entry)
  /\ UNCHANGED <<record, asked, entry, signed, steps>>

SignatureNext ==
  \/ \E key \in SignKeys, hashed \in BOOLEAN : Prepare(key, hashed)
  \/ \E key \in SignKeys : Answer(key)
  \/ \E hashed \in BOOLEAN : Assemble(hashed)
  \/ \E key, holder \in SignKeys, net \in SigNetworks, alg \in {EdDSA, -7}, hashed \in BOOLEAN,
        payload \in {"null", "attached"}, named \in BOOLEAN :
       WalletSigns(key, alg, IF named THEN StakeAddress(holder, net) ELSE NoAddress, hashed, payload)
  \/ ChangeBody
  \/ AlterEntry
  \/ \E net \in SigNetworks : ReadEntry(net)

SignatureSpec == SignatureInit /\ [][SignatureNext]_signatureVars

-----------------------------------------------------------------------------
Headers == [alg : {0, EdDSA, -19, -7}, kid : SignKeys \cup {"none", "short"},
            address : {NoAddress} \cup {StakeAddress(key, net) : key \in SignKeys, net \in SigNetworks}]
Structures == [header : Headers, toSign : Bodies \cup {"none"}, hashed : BOOLEAN]
Sigs == [by : SignKeys \cup {"none"}, over : Structures]
CoseKeys == [is : {"key", "absent", "junk"}, kty : {0, 1, 2}, crv : {0, 6, 7}, alg : {0, -7},
             x : SignKeys \cup {"none", "short"}, private : BOOLEAN]

\* Every variable but the two readings has its type.
SignatureTypeOK ==
  /\ stage \in {"building", "entered", "read"} /\ record \in Bodies
  /\ asked \in [key : SignKeys \cup {"none"}, hashed : BOOLEAN, body : Bodies \cup {"none"},
                structure : Structures, sig : Sigs, answered : BOOLEAN]
  /\ entry \in [cose : [shape : Shapes, header : Headers, hashed : BOOLEAN,
                        payload : {"null", "attached"}, sig : Sigs],
                key : CoseKeys, maker : {"none", "library", "wallet"}]
  /\ signed \subseteq Sigs /\ steps \in 0..MaxSteps /\ network \in SigNetworks \cup {"none"}

\* Nobody makes up a signature: what the entry and the answer hold was made by
\* someone, over what the library prepared if it prepared it.
HistoryInv ==
  /\ entry.cose.sig \in signed \cup {NoSig} /\ asked.sig \in signed \cup {NoSig}
  /\ asked.key # "none" =>
       asked.structure = SigStructure(Path1(asked.key), asked.body, asked.hashed)
  /\ asked.answered => asked.key # "none" /\ asked.sig.over = asked.structure
  /\ entry.maker = "library" => asked.answered
  /\ entry.key.private => entry.key.is = "key"

\* The readings are of the entry and the record as they are.
ReadingInv ==
  /\ stage = "read" => verdict = VerifyOneSig(entry, record, network) /\ issues = SigEntryIssues(entry)
  /\ stage # "read" => verdict.verdict = "none"

\* The inductive invariant, from which the properties below follow.
SignatureInv == SignatureTypeOK /\ HistoryInv /\ ReadingInv

(* A valid verdict names a key whose holder signed this record's body under *)
(* exactly this header, and a wallet's address is that key's on the network *)
(* of the transaction, however the entry came about (_verify_one_sig).      *)
ValidSpeaksForTheRecord ==
  verdict.verdict = "valid" =>
    /\ \E sig \in signed :
         /\ sig.by = verdict.signer
         /\ sig.over.header = entry.cose.header /\ sig.over.toSign = record
    /\ entry.key.is # "absent" =>
         entry.cose.header.address = <<NetworkByte(network), verdict.signer>>

(* What the library prepared and assembled in the same mode, over a record  *)
(* that has not changed and by the key that was named, verifies; and        *)
(* nothing else it assembles does (prepare_sig_structure, assemble_...).    *)
LibrarySignaturesVerify ==
  LET assembled == Detached(Path1(asked.key), entry.cose.hashed, asked.sig)
  IN stage = "read" /\ entry = [cose |-> assembled, key |-> NoKey, maker |-> "library"] =>
       (verdict.verdict = "valid"
         <=> asked.sig.by = asked.key /\ asked.body = record /\ asked.hashed = entry.cose.hashed)

(* The two roles agree on what is malformed: where the validator has no     *)
(* error for an entry, the verifier does not find a malformed one, and a    *)
(* leaked private key is always named (validator.py, _check_sig_entry).     *)
RolesAgreeOnShape ==
  stage = "read" =>
    /\ issues \subseteq {"SIGNATURE_UNSUPPORTED"} => verdict.reason # "MALFORMED_SIG_COSE_SIGN1"
    /\ entry.key.private => "SIG_PRIVATE_KEY_LEAKED" \in issues

\* verify_record_signatures: a valid verdict names a signer of this record, a
\* signature the library put together verifies, and validator and verifier
\* agree on the shape of an entry.
SignaturesSpeakForTheirRecords ==
  SignatureInv /\ ValidSpeaksForTheRecord /\ LibrarySignaturesVerify /\ RolesAgreeOnShape
=============================================================================
