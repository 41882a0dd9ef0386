---------------------------- MODULE MCDataLayers ----------------------------
(***************************************************************************)
(* The parts of the library that neither wait for anyone nor share state   *)
(* with each other, in one model: `which` says the part a behaviour is     *)
(* about, whose Init and Next are those of its module; the variables of    *)
(* the others stay as they are.  Parts whose properties are theorems are   *)
(* extended, the others instantiated.  Of those that are pure functions    *)
(* (passphrase texts, lists of leaves, years) each input is a state.       *)
(***************************************************************************)
EXTENDS FileObjectSource, SealedEnvelope, PassphraseEnvelope, RecordSignature,
        TransactionCarriage, MCRecords

VARIABLES
  which, input,
  parser, returned, received,                                     \* SseFraming
  cipherAt, path, plain, fed, stream, ahead, blob, outcome, faults, \* StreamCipher
  draft, edits,                                                   \* RecordDrafts
  assembling, seal, doc, request, out                             \* RecordAssembly

Idle == "idle"

-----------------------------------------------------------------------------
CONSTANTS
  Letters, MaxLine, MaxEvent, MaxChunk, MaxStream,
  CHUNK_SIZE, TAG_SIZE, COMMITMENT_LENGTH, MAX_COUNTER, MaxPlain, MaxPiece, MaxFaults,
  c1, c2, c3, n1, n2, h1, h2, NoClaim,
  MAX_TREE_SIZE,
  ExtensionKeys, Supported, MAX_ENVELOPE_BYTES, UINT32_MAX, MaxEdits

MCCeks == {c1, c2, c3}
MCNonces == {n1, n2}
MCHashes == {h1, h2, NoClaim}
\* c1 and c2 give the same MAC, c3 another one.
MCMacClass == (c1 :> 1) @@ (c2 :> 1) @@ (c3 :> 2) @@ (ZeroCek :> 0)
MCDrawn == [cek |-> c1, nonce |-> n1, hashes |-> {h1, NoClaim}]
MCSlotBytes == ("x25519" :> 1) @@ ("mlkem768x25519" :> 3)

\* s with a dot below and a dot above: 115 803 775; two Hangul syllables and
\* their letters; a character that has no decomposition, a surrogate, and one
\* that is unassigned.
MCDecomposition == (7779 :> <<115, 803>>) @@ (7777 :> <<115, 775>>) @@ (7785 :> <<115, 803, 775>>)
                   @@ (168 :> <<32, 776>>) @@ (12288 :> <<32>>)
MCCcc == (803 :> 220) @@ (775 :> 230) @@ (776 :> 230)
MCComposition == (<<115, 803>> :> 7779) @@ (<<115, 775>> :> 7777) @@ (<<7779, 775>> :> 7785)
Alphabet == {115, 7779, 7785, 803, 775, 776, 168, 12288, 44032, 44033, 4352, 4449, 4520, 55296, 888}
MCAssigned == (Alphabet \ {55296, 888}) \cup {32, 7777}
Texts == UNION {[1..n -> Alphabet] : n \in 0..3}
MCPassphrases == {<<115, 803>>, <<7779>>, <<115>>, <<115, 115, 115>>, <<888>>, <<>>}
MCParams == {[m |-> m, t |-> 1, p |-> 1] : m \in {1, 2, 3, 5}} \cup {[m |-> 2, t |-> 1, p |-> 0]}
MCSalts == {[bytes |-> 2, id |-> id] : id \in 1..2} \cup {[bytes |-> n, id |-> 1] : n \in {1, 4}}

LeafLists == {[l \in 1..n |-> <<l, 0, 0>>] : n \in 1..7}

\* Chunks within the limit and over it, an empty one, bytes that look like heads.
ChunkLists == {<<<<1, 2>>, <<3>>>>, <<<<>>, <<1>>>>, <<<<1, 2, 3>>>>, <<<<65, 1>>, <<2, 66>>>>}
MCTransactions ==
  [form : {"none", "map", "array", "tagged", "tagged without"}, elements : {4},
   others : {"none", "before", "after", "only"}, chunks : ChunkLists]
  \cup [form : {"map", "array"}, elements : {3}, others : {"after"}, chunks : {<<<<1, 2>>, <<3>>>>}]

Years == {0, 1, 4, 100, 400, 1600, 1899, 1900, 1904, 1969, 1970, 1972,
          1999, 2000, 2001, 2024, 2026, 2100, 2400, 9999}

-----------------------------------------------------------------------------
Framing == INSTANCE SseFraming
  WITH out <- returned, fed <- received
Cipher == INSTANCE StreamCipher
  WITH pc <- cipherAt
Merkle == INSTANCE MerkleTree
Clock == INSTANCE Rfc3339
Drafts == INSTANCE RecordDrafts
  WITH Starts <- MCStarts, Fields <- MCFields, Values <- MCValues,
       UriOf <- MCUris, CoseOf <- MCCose, KeyOf <- MCKeys, Floors <- MCFloors, Ceiling <- MCCeiling,
       record <- draft
Assembly == INSTANCE RecordAssembly
  WITH Contents <- MCContents, Prehashed <- MCPrehashed, Batches <- MCBatches, Seals <- MCSeals,
       PassphraseSeals <- MCPassphraseSeals, Assemblies <- MCAssemblies,
       JsonFields <- MCJsonFields, JsonValues <- MCJsonValues,
       UriOf <- MCUris, CoseOf <- MCCose, KeyOf <- MCKeys, Floors <- MCFloors, Ceiling <- MCCeiling,
       stage <- assembling, asked <- request

\* What each of them assumes of its constants.
ASSUME Framing!SizesAssumption
ASSUME Cipher!SizesAssumption
ASSUME EnvelopeAssumption
ASSUME KeysAssumption
ASSUME TablesAssumption
ASSUME PassphraseAssumption
ASSUME LedgerCommits
ASSUME LedgerOfBytes

-----------------------------------------------------------------------------
framing == <<parser, returned, received>>
cipher == <<cipherAt, path, plain, fed, stream, ahead, blob, outcome, faults>>
drafts == <<draft, edits>>
assembly == <<assembling, seal, doc, request, out>>
dataVars ==
  <<which, input, sourceVars, framing, cipher, vars, pwVars, signatureVars, drafts, assembly,
    carriageVars>>

FramingIdle == parser = Idle /\ returned = Idle /\ received = Idle
CipherIdle ==
  /\ cipherAt = Idle /\ path = Idle /\ plain = Idle /\ fed = Idle /\ stream = Idle /\ ahead = Idle
  /\ blob = Idle /\ outcome = Idle /\ faults = Idle
SignatureIdle == SignatureInit /\ record = CHOOSE b \in Bodies : TRUE
DraftsIdle == draft = Idle /\ edits = Idle
AssemblyIdle == assembling = Idle /\ seal = Idle /\ doc = Idle /\ request = Idle /\ out = Idle
CarriageIdle ==
  /\ hop = Idle /\ ledger = [form |-> "value"] /\ target = Idle /\ response = Idle /\ parts = Idle
  /\ carried = Idle /\ reading = Idle

DataInit ==
  /\ SourceInit
  /\ Init   \* of SealedEnvelope
  /\ PhraseInit
  /\ \/ which = "text" /\ input \in Texts
     \/ which = "leaves" /\ input \in LeafLists
     \/ which = "year" /\ input \in Years
     \/ /\ which \in {"file", "framing", "cipher", "sealed", "phrase", "signature", "drafts", "assembly",
                     "carriage"}
        /\ input = Idle
  /\ IF which = "framing" THEN Framing!Init ELSE FramingIdle
  /\ IF which = "cipher" THEN Cipher!Init ELSE CipherIdle
  /\ IF which = "signature" THEN SignatureInit ELSE SignatureIdle
  /\ IF which = "drafts" THEN Drafts!Init ELSE DraftsIdle
  /\ IF which = "assembly" THEN Assembly!Init ELSE AssemblyIdle
  /\ IF which = "carriage" THEN CarriageInit ELSE CarriageIdle

DataNext ==
  \/ /\ which = "file" /\ SourceNext
     /\ UNCHANGED <<which, input, framing, cipher, vars, pwVars, signatureVars,
                    drafts, assembly, carriageVars>>
  \/ /\ which = "framing" /\ Framing!FeedChunk
     /\ UNCHANGED <<which, input, sourceVars, cipher, vars, pwVars, signatureVars,
                    drafts, assembly, carriageVars>>
  \/ /\ which = "cipher" /\ Cipher!Next
     /\ UNCHANGED <<which, input, sourceVars, framing, vars, pwVars, signatureVars,
                    drafts, assembly, carriageVars>>
  \/ /\ which = "sealed" /\ Next
     /\ UNCHANGED <<which, input, sourceVars, framing, cipher, pwVars, signatureVars,
                    drafts, assembly, carriageVars>>
  \/ /\ which = "phrase" /\ PhraseNext
     /\ UNCHANGED <<which, input, sourceVars, framing, cipher, vars, signatureVars,
                    drafts, assembly, carriageVars>>
  \/ /\ which = "signature" /\ SignatureNext
     /\ UNCHANGED <<which, input, sourceVars, framing, cipher, vars, pwVars,
                    drafts, assembly, carriageVars>>
  \/ /\ which = "drafts" /\ Drafts!Next
     /\ UNCHANGED <<which, input, sourceVars, framing, cipher, vars, pwVars,
                    signatureVars, assembly, carriageVars>>
  \/ /\ which = "assembly" /\ Assembly!Next
     /\ UNCHANGED <<which, input, sourceVars, framing, cipher, vars, pwVars,
                    signatureVars, drafts, carriageVars>>
  \/ /\ which = "carriage" /\ CarriageNext
     /\ UNCHANGED <<which, input, sourceVars, framing, cipher, vars, pwVars,
                    signatureVars, drafts, assembly>>

DataSpec == DataInit /\ [][DataNext]_dataVars

-----------------------------------------------------------------------------
(* Properties, each about the part whose module says what it means.        *)

\* SlicesReadTheirRanges is FileObjectSource's own, EnvelopesOpenForTheirRecipients
\* and HeadersAreBound are SealedEnvelope's, PassphrasesOpenTheirOwn is
\* PassphraseEnvelope's, SignaturesSpeakForTheirRecords RecordSignature's,
\* CarriedRecordsAreWhole TransactionCarriage's.

\* _SseParser: the events are those of the stream wherever the network cuts
\* it, a line or event over its limit is refused, and fields within the
\* limits never are.
FramesSurviveCutting ==
  which = "framing" =>
    /\ Framing!TypeOK /\ Framing!CuttingDoesNotMatter /\ Framing!AsFedAtOnce
    /\ Framing!LimitsEnforced /\ Framing!FieldsAreNotBlamed

\* StreamSealer, StreamOpener and the generators over them: nothing opens but
\* what was sealed, whole; however the pieces are cut; and what is intact
\* does open.
CiphertextsOpenAsSealed ==
  which = "cipher" =>
    /\ Cipher!IInv
    /\ Cipher!OpensOnlyAsSealed
    /\ Cipher!CuttingsAgree
    /\ Cipher!IntactOpens

\* normalize_passphrase, nfkc16: equivalent spellings are one password, and
\* folding is lossless and final.
SpellingsAgree ==
  which = "text" => SpellingDoesNotMatter(input) /\ FoldingIsLossless(input)

\* merkle_sha2_256, build_inclusion_certificate and its re-verification: the
\* iterative fold is the recursive tree's, a document is accepted exactly for
\* the commitment to its leaves, and certificate and COSE export agree on what
\* is a leaf.
MerkleProofsAreSound ==
  which = "leaves" =>
    /\ Merkle!FoldMatchesTree(input)
    /\ Merkle!DocumentIsTheCommitment(input)
    /\ Merkle!CertificatesAreHonest(input)

\* _rfc3339_to_epoch_seconds, which decides when a price lock lapses: days
\* are counted as the calendar has them, and offsets and leap seconds cancel.
ClockIsTheCalendar == which = "year" => Clock!ClockIsTheCalendar(input)

\* validate: what it accepts strictly, the opening side takes; its two roles
\* differ in unsupported names only; it raises for a null key path only.
AcceptedRecordsOpen ==
  which = "drafts" => Drafts!StrictAcceptanceOpens /\ Drafts!RolesNest /\ Drafts!RaisesOnlyOnNull

\* publish_content and its siblings: a record they encode validates.
ProducedRecordsValidate == which = "assembly" => Assembly!ProducedRecordsValidate

\* estimate_record_bytes: the quote covers the record that is published.
QuoteCoversRecord == which = "assembly" => Assembly!QuoteCoversRecord
=============================================================================
