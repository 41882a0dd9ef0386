# Verification of label-309-py

This directory holds TLA+ models of `cardanowall` (`src/src/cardanowall`), the
client SDK, verifier and validator for Label 309 proofs of existence, with the
TLC configurations that check them and TLAPS proofs about twelve of them. Source
paths below are relative to `src/src/cardanowall`.

Every definition is translated from the source. Where a doc or a comment
disagrees with the code, the model follows the code, and a run shows the
difference ("Findings" below). `PROJECT.json` maps each definition to the lines
it stands for.

## 1. Inventory

### 1.1 Parts with state or concurrency

| Part | Source | State | Operations | Interacts with |
| --- | --- | --- | --- | --- |
| Two-phase sealed publishing | `client/sealed.py` | prepared artifact; per call: active quote, receipts resumed, receipts made, loop index | `prepare_sealed`, `quote_prepared_seal`, `submit_sealed` and their passphrase twins | gateway (quote, keyed upload, publish), caller (receipts, signer, retry) |
| Direct publishing | `client/publish.py`, `client/poe.py` | per call: quote, receipt | `publish_content`, `publish_prehashed`, `publish_merkle` | gateway, signer |
| Quote and cap helpers | `client/publish.py` | none | `_post_quote`, `_quote_is_fresh`, `_refresh_quote_if_stale`, `_enforce_max_usd_micros` | used by both of the above |
| Resumable upload | `client/resumable_upload.py` | per call: session id, shared cursor over the missing chunks, lanes, `bytes_sent`, loop counters | `upload_resumable`, `get_session_status`, `abandon_session` | gateway session, chunk source, caller (`cancel`, callbacks, task cancellation) |
| Upload sources | `client/resumable_source.py` | lock and position of an open handle | constructor, `slice` | lanes of the driver, worker threads |
| Waiting for a record | `client/poe_events.py` | last event id, ladder index, last snapshot | `wait_for_poe`, `_wait_loop` | event stream, deadline, cancellation |
| Event framing | `client/poe_events.py` | bytes buffered, event accumulated | `_SseParser.feed` | `_wait_loop` |
| Verification pipeline | `verifier/verify.py`, `resolve.py`, `items.py`, `merkle.py`, `decrypt.py`, `profile.py` | issues, per-claim checks, markers of unavailable leaves | `verify_tx`, `verify_record_bytes` | explorers, gateways |
| Acquisition and egress | `verifier/fetch.py`, `content_binding.py` | audit trail, source cursor, redirect chain | `acquire_and_bind`, the wrapped HTTP call | pipeline, hosts |

### 1.2 Data: records, cryptography, algorithms

| Part | Source | What makes it correct |
| --- | --- | --- |
| Transaction binding, carriage | `verifier/tx_binding.py`, `carriage.py`, `cbor_walker.py` | the bytes bound are the ones hashed; reassembly of 64-byte pieces |
| Structural validator | `poe_standard/*` | what it accepts can be opened; its roles nest; it never raises |
| Producing records | `client/publish.py`, `client/sealed.py` | whatever the arguments and however a prepared seal was stored, what is published validates |
| Size estimate | `estimate.py` | never below the encoder's length, and not far above |
| STREAM framing | `_crypto/stream.py`, the generators of `_crypto/sealed_poe.py` | no rearrangement of sealed chunks opens to another plaintext; pieces do not matter |
| Sealed envelopes | `_crypto/sealed_poe.py` | a recipient finds its slot; header and claim are bound; two different keys is a conflict |
| Passphrases | `_crypto/passphrase.py`, `unicode_nfkc16.py` | equivalent spellings are one password |
| Merkle trees, certificates | `_crypto/merkle_*.py`, `merkle/`, `certificate/` | the inclusion fold accepts exactly the audit paths of the tree |
| Record signatures | `verifier/signatures.py`, `_crypto/cose_*.py`, `_crypto/sig.py`, `client/off_host_sign.py` | a valid verdict names a signer of this record |
| Timestamps | `client/publish.py` | days and offsets as the calendar has them |
| Identifiers, seeds | `ids.py`, `recipient.py`, `seed_*.py` | decode is a left inverse of encode; no other text decodes |
| CBOR | `_crypto/cbor.py` | canonical; a library's |
| Cryptographic primitives | `_crypto/kem.py`, `mlkem768x25519.py`, `kdf.py`, `aead.py`, `compare_ct.py`, `hash.py`, `hash/` | thin layers over libraries |
| Gateway resources, errors | `client/account.py`, `records.py`, `http_error.py`, ... | one request, no state between calls |
| Transaction description, conformance runner | `verifier/tx_witnesses.py`, `serialize.py`, `conformance/` | display and harness |

### 1.3 How the parts interact, and what is hard about it

- The client talks to a gateway that charges money. A request may be lost, served
  and its answer lost, or served after the caller has given up and started
  another call. Idempotency keys are what makes a retry safe, and the receipts an
  error carries are the only memory between calls.
- A price lock goes stale while slow things happen (uploads, a signer), and the
  lock that replaces it has another price.
- `upload_resumable` runs lanes as tasks. `asyncio.gather` raises at the first
  failure and does not cancel the others: lanes outlive the call and share the
  caller's file handle with the next one.
- There are two kinds of cancellation, a callable that is polled and
  `CancelledError` at any await, and a clean-up request that may fail itself.
- The event stream is cut anywhere, broken, replayed and resumed from an id, and
  a deadline may fire at any await.
- A verdict is built from hosts that may all lie. Which failures speak against
  the record, which against the host, and which merely leave a check undone is
  the substance of `verifier/`.
- A sealed record and its ciphertext are stored apart, by others, for years. What
  ties them to each other, to the header and to the claim, is a transcript and a
  few nonces, and each piece left out is one that can be exchanged.
- A record is written by producers, checked by the validator and opened by a third
  body of code. Each asks in its own words whether a field is there and sound.

The hazards at their lines, with the properties that cover them, are in
`PROJECT.json`.

## 2. Plan

Models are written to be proved about as well as checked: parameters are
CONSTANTS with named assumptions, one action per await-to-await step, invariants
are conjunctions of named parts. The modules with theorems (`*Proofs`, and
`SetInduction`, which they share) and those they are about declare no RECURSIVE operator; `CborValue` and `MerkleTree`, whose data
are trees, do, and with them `Validator`, `RecordDrafts`, `RecordEstimate`,
`RecordAssembly` and `MCDataLayers`, which stay with TLC.

| Order | Module | Question | State |
| --- | --- | --- | --- |
| 1 | `SealedPublish`, `AnchorOnce` | what is charged and anchored, across calls | modelled, checked, proved |
| 2 | `ResumableUpload` | is the work shared out once, does the call end, is a session left behind | modelled, checked, safety proved |
| 3 | `FileObjectSource` | does a slice read its own range of a shared handle | modelled, checked, proved |
| 4 | `SseFraming`, `PoeWait` | does cutting matter; is the outcome of a wait true | modelled, checked; `PoeWait`'s safety and the cutting of `SseFraming` proved |
| 5 | `VerifyTx` | who can condemn a record, what does "valid" mean, who is asked | modelled, checked, safety proved |
| 6 | `StreamCipher`, `SealedEnvelope`, `PassphraseNormalization`, `PassphraseEnvelope` | does what is sealed, and only that, open | modelled, checked, proved but for `PassphraseNormalization` |
| 7 | `MerkleTree`, `TransactionCarriage`, `Rfc3339` | folds, walkers and parsers against a reference | modelled, checked; `Rfc3339` and most of `TransactionCarriage` proved |
| 8 | `CoseSign1`, `RecordSignature` | what does a valid signature say | modelled, checked, proved |
| 9 | `CborValue`, `Validator`, `RecordDrafts` | is what the validator accepts sound for the opener | modelled, checked |
| 10 | `RecordEstimate`, `RecordAssembly`, `HexTexts` | do producers make valid records, at the quoted size | modelled, checked |
| 11 | proofs about `StreamCipher` | `OpensOnlyAsSealed`, `CuttingsAgree` and `IntactOpens` for any plaintext, cutting and damage | proved, in `CryptoProofs` |
| 12 | proofs about `PassphraseEnvelope` | `OpensOnlyThePassphrase` for any tables and changes | proved, in `CryptoProofs` |
| 13 | the requests of direct publishing | instances of the sealed flow with one upload or none | planned |
| 14 | proofs about `SseFraming`, `TransactionCarriage`, `Rfc3339` | cutting and carriage for any length, the calendar for any year | proved, in `PoeWaitProofs`, `VerifyTxProofs`, `SealedPublishProofs` |
| 15 | identifiers | the codec against its inverse | planned, last |

Compositions: `SealedPublish` contains the gateway it talks to, since its
properties relate the client's receipts to the gateway's store and ledger, and is
shown to implement `AnchorOnce`. `PoeWait` takes frames as given; that they are
framed right, however the network cuts them, is `SseFraming`. `ResumableUpload`
takes a slice as one atomic read; `FileObjectSource` says when that is so.
`PassphraseEnvelope` contains `PassphraseNormalization`, and `Validator` contains
`CoseSign1`, since their properties cross the border: a seal and an open type the
passphrase in two spellings, and validator and verifier read one signature.
`RecordDrafts` puts the validator and the opening side next to each other,
`RecordAssembly` the producers, the stored document, the validator and the
estimate. What `SealedEnvelope` and `PassphraseEnvelope` take as one ciphertext is
`StreamCipher`'s chunks; what `VerifyTx` takes as an outcome of a host or of a record is
`TransactionCarriage`, `RecordSignature` and `Validator`.

New runs replace weaker ones: the project is kept at about a dozen runs with a
few deep properties each.

## 3. The modules and the code

### SealedPublish

One action per stretch of `submit_sealed` between two awaits. `pc` names the await:

| `pc` | Code | Actions |
| --- | --- | --- |
| resting | no call is running | `SubmitSealed`, `RejectReceipts`, `PreviewQuote`, `ForgetReceipt` |
| `quoting` | `_post_quote`, then the cap | `QuoteAnswered`, `QuoteFails` |
| `loop`, `uploading` | the upload loop; an item with a receipt is passed over | `TakeReceipt`, `SendUpload`, `UploadAnswered`, `UploadFails` |
| `refreshing` | `_refresh_quote_if_stale` | `UploadsDone`, `RefreshAnswered` |
| `signing` | the caller's signer in `encode_sealed_record` | `SignerReturns`, `SignerFails` |
| `publishing` | `_post_publish` | `PublishAnswered`, `PublishFails` |

`SealedPublish` also has the gateway (`ServeUpload`, `RefuseUpload`,
`ServePublish`, `RefusePublish`, modelled from how the client uses it) and the
failures (`Crash`, `Cancel`, a lost receipt, a lost answer). A request and its
answer are separate: `upReqs` and `pubReqs` outlive the call that sent them, so a
request of an earlier call may be served in the middle of a later one. The
gateway stores once per key and answers a record whose bytes it has already
published as a dedup hit. An upload's key is a function of the artifact and the
item index (`upload_idempotency_key`). A record's bytes are a function of its uris:
the artifact is the same in every call, the caller is taken to pass the same
`signer` and `supersedes`, and Ed25519 signatures are deterministic.
`ReceiptsValid` is the check of `resume_receipts`, first match by `item_id`
included. `Carried` is what an error carries.

### AnchorOnce

What the flow promises: items are stored, then the record is anchored once, at
an admitted price. `SealedPublish` maps to it with `Held`, `ledger # {}`
and `Paid`.

### ResumableUpload

`pc` names the await of `upload_resumable` and `_finish_session`; `lanes[c][l]` is
worker `l` of `_upload_chunks` in call `c`, so that the lanes of an earlier call go
on by themselves. `missing[c]` and `cursor[c]` are the list (`MissingIndices`, a
recursive function over the chunk numbers) and the shared iterator; `landed` and `sent` follow what was accepted and what `bytes_sent`
counts. A lane claims, puts, backs off and retries (`LaneNext`, `PutAccepted`,
`PutRefused`, `PutFails`, `LaneWakes`). `CompleteIncomplete` is the 409 that makes
the driver fetch the status and send what is missing again. `AskCancel` is the
cooperative callable returning true, `TaskCancelled` the cancelled task, and both
lead to `abandoning`. A task cancelled there, while the DELETE is awaited, goes on to
the caller with whatever has become of the session (`AbandonInterrupted`, `pc` is
`interrupted`): `_abandon_quietly` catches `Exception` only. `CommitAttempt` and `GatewayFault` are the gateway's side:
it may commit late, lose a chunk, fail or expire a session.

### FileObjectSource

`__init__` seeks to the end, measures and seeks back without the lock
(`SeekEnd`, `Measure`, `SeekBack`); a slice takes the lock of its source, then
seeks and reads in a worker thread (`RequestSlice`, `TakeLock`, `Seek`, `ReadUnits`). Reads
may be short. Cancelling a lane (`CancelLanes`) releases the lock while its thread still
runs. `Orphans` says whether a retry may overlap what the failed call left behind.

### PoeWait

`_wait_loop` with its ladder, its connections (`Connect`, `ConnectFails`,
`Rejected`), the frames of one chunk examined in order (`Receive`, `Examined`), and
`Closed`, the closing of the response that an outcome passes through. `Deadline` and
`Cancelled` may interrupt any await. The gateway's log of raw statuses is the
record's history; an event id is its index. `Lifecycle` is how a status may change;
`LifecycleAssumption` says that a publish only goes forward.

### SseFraming

`Feed` is `_SseParser.feed` byte by byte, with `Take` and `HandleLine` and `Dispatch`
as in the code. `EventsOf` and `TooLong` say what a whole stream means; they are
defined from its lines and blocks and do not use the parser.

### VerifyTx

`Resolve` is the walk over explorers: each is refused by the deny list, unusable,
negative, or binding and then asked for its depth and tip. `ReadRecord` is the
validator's outcome, the profile and the threshold. `CheckContent` is the walk over
claims (items, sealed items, Merkle commitments) and, inside a claim, over uris,
their gateways and redirects. `src` is the cursor of the acquisition loop
(`NextSource`, `NextUri`); `Consume` is what a claim makes of a blob, weighed by
`Attributable`; `FinalReport` adds the floors for commitments that stayed
unchecked and computes the verdict as `VerdictOf`. Honest hosts answer
faithfully; every other host answers anything. `verify_record_bytes` is the same
machine entered at `record`.

### TransactionCarriage

From the bytes a provider serves to the record, a byte at a time: `ReadHead` and
`Skip` are the walker's, `Slices` cuts the response, `BindingFailure` is the check
against the requested hash, `Label309` finds the label by the outermost type of the
auxiliary data, and `Reassemble` puts the pieces together. The four actions are the
four calls of `verify_tx`'s first steps. A behaviour starts from a transaction and a
response to a request for it (the transaction, one a byte away, one in another
form), or from a label value by itself.

### StreamCipher

`SealChunk` and `OpenChunk` are the chunk machines with their nonce of counter and
final flag; `Absorb` and `Finish` are the generators' loop, which holds back one full
chunk until it is known whether it is the last; `ReadAhead` is the passphrase
opener's lookahead for its header. Between sealing and opening the store may cut,
repeat, swap, overwrite or splice (`Damage`). `StreamSeal` and `StreamOpen` are the
buffered forms, the reference for the streaming ones.

### SealedEnvelope

`Seal` is `_build_sealed_envelope`: refusals in the code's order, a slot per recipient,
shuffle, MAC over `Transcript`. `Alter` changes the record or the content on its way,
`Extend` adds a slot as somebody who knows the content key can. `Read` is the start
of a call (`_resolve_unwrap_privs` and `StructureRefusal`, in its order), `ScanSlot` one
turn of the mask fold (`Fold`), `EndPass` the end of a key's pass and `OpenBody` the
content. The three read calls differ in what they say of a failure.

### PassphraseNormalization and PassphraseEnvelope

`Nfkc16` is the library's own decomposition, reordering and composition, Hangul
included, over tables that are constants; `NormalizePassphrase` adds the byte cap,
white space and the refusals. `PassphraseEnvelope` seals and opens with it, and either
derivation may fail (`KDF_DERIVATION_FAILED`): `PwOpened` is what both opens come to, with the checks of the call before any look at the blob.

### MerkleTree

Root and audit paths are recursive as in the code; `FoldSibling` is the verifier's
iterative fold. `DecodeLeaves` and `ValidateDocument` are the leaves-list document and
its check, `BuildCertificate`, `VerifyCertificate` and the COSE export the
certificates. There are no actions: the properties range over lists of leaves and
documents.

### Rfc3339

The parser's days-from-civil formula, offsets and refusals, against a calendar
counted day by day.

### CoseSign1 and RecordSignature

`CoseSign1` has the values: blobs, headers, keys, what the validator asks of an
entry (`SigEntryIssues`) and what the verifier makes of it (`VerifyOneSig`); `Checks`
has their common form, a list of which the first failing check names the code.
`RecordSignature` is an entry's way there: `Prepare`, an answer by the signer wherever
it is, `Assemble`, or a wallet's own entry; the record or the entry may change in
between.

### CborValue, Validator, RecordDrafts

Records are values with types and lengths (`CborValue`), so a field may be absent,
null, of another type or length. `Validator` is `validate`: the pre-guard, the schema
pass, then the semantic checks, each a set of issues, in both roles. `RecordDrafts`
composes records by writing and dropping fields from four sound ones, and has
what the opening side asks for before it opens (`OpensSlots`, `OpensPassphrase`).

### RecordEstimate, RecordAssembly, HexTexts

`RecordEstimate` is the estimator's own arithmetic. `RecordAssembly` has one action per
producer, `ToJson` and `FromJson` for the stored form of a prepared seal with what an
edit in between may do (`WriteMember`, `DropMember`, `EditText`), and `Assemble`.

### MCDataLayers

The parts above that wait for nobody are checked by one run: `which` selects the part
a behaviour is about, `DataNext` takes that part's steps, and the other parts' variables
stay idle. They share no state, so the union has the behaviours of each part and no
others; each property names its part. Parts whose properties are theorems under the
same names are extended, the others instantiated. What the proofs assume of constants
(`LedgerCommits`, `LedgerOfBytes` and the others) are ASSUMEs that TLC evaluates here.

## 4. Runs

Runs that must find no error:

| Run | Instance | States | Shows |
| --- | --- | --- | --- |
| `sealed_safety` | 2 items, prices around the cap, legible and illegible locks, signer, cancellation; 4 calls, 3 failures, time to 3 | 1.2 M | charged once, within the cap, with the right uris; nothing is stored twice; no receipt is lost; implements `AnchorOnce`; the proof's invariant |
| `sealed_live` | no signer, legible and illegible locks; 4 calls, 2 failures | 82 k | a retrying caller gets its record, unless it was handed a price preview that lapsed unseen |
| `upload_safety` | 3 chunks, 2 lanes, 1 retry; 2 calls, both cancellations, one after the other too, 2 failures | 2.5 M | each chunk has one sender, none is forgotten, a returned uri is stored whole, a cancelled session is abandoned or named, or known to the caller where a cancellation cut the clean-up short; the proof's invariant |
| `upload_live` | 1 call, 3 failures, 2 rounds of complete | 22 k | every call and every lane ends |
| `wait` | either target, both spellings of statuses and an unknown one, ladder of 5, 6 failures | 112 k | the outcome is true, the resume point loses nothing (the proof's invariant), a decided record ends the wait |
| `data_layers` | the parts of `MCDataLayers`, each with its own inputs (below) | 421 k | one property per promise, see the next table |
| `verify` | 19 records, 8 sets of options, 4 sets of honest hosts, 5 configured hosts, a redirect chain of up to 3 | 170 k | who can condemn, what "valid" has checked, who is asked, what one honest host gives |

Runs that find the disagreement they are about: `sealed_slow_signer`,
`upload_early_cancel`, `file_source_orphans`, `wait_deadline`, `validator_raises`
(section 6).

What `data_layers` shows, part by part:

| Property | Says |
| --- | --- |
| `SlicesReadTheirRanges` | each slice of a shared handle reads its own range, and the size is the file's, when no earlier source is at work (inductive as it stands) |
| `FramesSurviveCutting` | every cutting of a stream gives the same events; the limits hold for whole and partial lines and blame nothing within them |
| `CiphertextsOpenAsSealed` | whatever the store did, a beginning of the plaintext is all that is released and "matched" means all of it; streaming and buffered forms agree; the intact blob opens |
| `EnvelopesOpenForTheirRecipients` | an unchanged record opens for exactly the readers with a recipient's key, in any order of keys and slots; the fold selects the first accepted slot and reports a conflict exactly when there is one; the proof's invariant |
| `HeadersAreBound` | a changed header, slot list or hash claim matches nobody; an added slot decides nothing; no two slots share a wrapping key |
| `PassphrasesOpenTheirOwn` | a blob opens exactly with its own record and a spelling of its passphrase; the faults of a call are the same whatever the blob; no derivation below the floors |
| `SpellingsAgree` | canonically equivalent spellings are one password; folding loses nothing and is final |
| `MerkleProofsAreSound` | the iterative fold accepts exactly the recursive tree's audit paths; a document is accepted exactly for the commitment to its leaves; builder, verifier and COSE export agree on what is a leaf |
| `CarriedRecordsAreWhole` | what passes the binding carries the requested transaction's record or its absence; a record is the same however it was cut, and only canonical cuttings are read |
| `ClockIsTheCalendar` | the days of a year follow each other, impossible dates are refused, an instant is one number at any offset |
| `SignaturesSpeakForTheirRecords` | a valid verdict names a key that signed this record under this header; what the library assembles in one mode verifies, and nothing else it assembles does; validator and verifier agree on what is malformed; the proof's invariant |
| `AcceptedRecordsOpen` | what the strict role accepts, the opening side takes; the roles differ in unsupported names only; only a null key path raises |
| `ProducedRecordsValidate` | whatever the arguments and whatever became of the stored document, a produced record validates, but for the cases named in `Unguarded` |
| `QuoteCoversRecord` | the quote is at least the record's size and exceeds it by the margin and a few widths only |

### Bounds, and why they are enough

- Two items tell a wrong index from a right one and leave one uploaded while the
  other fails. Four calls and three failures give each of the hazards (a lost
  answer, a stray request, a crash) a call of its own. Two prices stand on both
  sides of the cap. A lock lives for two ticks and the skew is one, so it can be
  fresh, about to lapse or stale.
- Three chunks on two lanes leave one to claim while both are busy. Two calls are
  needed for orphans. Retries, complete rounds and polls are small because each
  loop's body is the same in every round.
- The wait's ladder has its real length. Six failures pass its end.
- A stream of seven letters holds two events with fields and a line or event that
  passes its limit; the real limits differ from 2 and 3 only in size.
- Records in `MCVerifyTx` are one of each kind of thing that may be wrong, with
  two claims where claims may mask each other. One Arweave gateway has a
  subdomain of its own, so a redirect can stay on a site, leave it, or reach a denied host.
- In `data_layers`: chunks of two bytes with tags of one and plaintexts up to 7 give
  zero to four chunks, full and short last ones, and a counter that runs out. One
  damage, of every kind at every place. Two keys, two recipients, two keys in a ring
  and a third slot added by an insider; two content keys that collide under the MAC
  and one that does not; one change on the way. All texts of up to three characters over
  an alphabet with marks of two classes, composites, Hangul, a surrogate and an
  unassigned character. Trees of up to 7 leaves have every shape of a right edge. All
  transactions a byte away from a sound one, and every cutting of a body in up to
  three pieces. One change between preparing and reading a signature. Two edits of a
  record reach what one field hides from another. The years have every kind of
  century and cycle edge.
- What time does is bounded by `MaxTime`. In `sealed_live` a larger bound lets a
  lock lapse between the check and the gateway more often than `MaxCalls`
  allows retries.

`CHECK_DEADLOCK FALSE` is set in every configuration since every model may stop:
a call returns, a wait ends, a stream is over, the bounds are used up.

### Fairness

- `SealedPublish!FairSpec`: the event loop runs what is ready and the gateway
  serves or refuses what reaches it; the caller retries. Failures are never
  obliged to happen, and are bounded.
- `ResumableUpload!FairSpec`: every request is answered or fails (httpx times
  out) and every task that is ready runs. Nothing is assumed of the caller or of
  when an accepted completion commits, so `CallReturns` rests on the driver's own
  bounds.
- `PoeWait!FairSpec`: connecting, receiving, waking and closing are not put off
  for ever. Nothing is assumed of when a status changes.
- `VerifyTx!FairSpec`: every request is answered or times out.

## 5. Proofs

TLAPS checks the following for every value of the constants that their
assumptions allow.

**`SealedPublishProofs`** (assumptions `ConstantsAssumption` and `ItemsDistinct`:
items have different ciphertexts, which a fresh seal gives by construction; no code checks
it, and what happens to two equal items is under "Findings").
`InductiveInvariant` is the core. What matters, `ChargedOnce`, is not inductive:
that one key anchors one record needs that a publish request carries an agreed
price and a full list of uris, each the upload made under its item's key
(`PublishInv`), which needs the same of receipts (`ReceiptsInv`), of the answer
awaited (`AnswerInv`), of the loop (`LoopInv`), of stray requests (`RequestsInv`)
and of the gateway's store (`StoreInv`). `CarriedInv` says that an error would
carry what the caller already has. The proof has one lemma per action. From it
follow `TypeCorrect`, `AnchoredOnce`, `CapIsRespected`, `RecordIsTrue`,
`NothingStoredTwice`, `ReturnMeansAnchored`, `ReceiptsAreKept`,
`ErrorsCarryReceipts` and `Refinement` (`Spec` implements `AnchorOnce`).

The same module proves the clock (`Rfc3339`, instantiated as `Clock`): `DayNumber` of
consecutive dates differs by one, month by month and over the turn of a year
(`NextDateFacts`), and by 146097 over 400 years, for every year (`CalendarIsRight`).
An offset moves an instant by what it says and a time that is not on a clock is
refused (`OffsetsAreOneInstant`). Together they are the run's property
(`ClockIsRight`).

**`VerifyTxProofs`** (assumptions `HostsAssumption`, `InputsAssumption`,
`BoundsAssumption`, which bound neither records nor chains). The invariant adds to
the properties `StageInv` (nothing is known of the content before the record is
read at its depth), `SourceInv` (the cursor is a source of the claim, a redirect
target is on its gateway's site and not denied) and `IssuesInv` (a condemning
issue has somebody else to blame, a refused call has left one, a settled claim is
accounted for). Steps fall into three classes: those that ask a host
(`AskedStep`), those that end the run (`ReportStep`) and those that work on a claim
(`ContentStep`, further into settling it, moving on and consuming a blob); a lemma
per class says what such a step preserves, and a lemma per action that it is of
its class. `verify` checks the whole of `IInv`, of which `TypeOK`,
`DeniedNeverReached`, `StaysOnConfiguredSites` and `PendingConcludesNothing` are
conjuncts; the theorems state those apart. Theorems: `InductiveInvariant`, `TypeCorrect`, `NeverCondemned`,
`ValidIsChecked`, `DenyListHolds`, `RedirectsStay`, `RefusalsShow`,
`PendingIsSilent`.

That one honest host is enough needs a second invariant on top of `IInv`, about
where a search has got to. While an explorer is asked, no faithful one has been
passed over (`ResolveInv`): a faithful one answers every question, so it is never
rotated away. While a claim's bytes are looked for, no gateway already passed was
both faithful and allowed, and a redirect of a faithful gateway leads to a faithful
host (`SearchInv`). A settled claim was then checked, or some body met the size
ceiling (`SettledInv`).
`FaithfulHostsAreKept` proves them, and from it follow `OneProviderIsEnough` and
`OneGatewayIsEnough`.

`VerifyTxProofs` also has the proofs about `TransactionCarriage`. `Occurs` says that some
bytes stand at a place of others and `Joins` what a sequence of sequences comes to, piece by
piece; with them a head of shortest form is read as what was written (`HeadIsRead`) and what is
accepted as a head is one (`HeadIsCanonical`), and the walk over the
chunks, a recursive function, goes through the concatenation one chunk at a time.
Theorems: `ChunksAreReadBack` (for any body, cutting and limit), `RecordsAreReadBack` (the
publisher's own cutting), `OnlyCuttingsAreRead` (whatever is accepted is the canonical
encoding of a cutting within the limit, for values shorter than `Long`), `CuttingsAreOne`
(hypothesis `LedgerOfBytes`: the ledger's chunks are bytes). `OnlyWhatWasAskedForIsRead`
(hypothesis `LedgerCommits`: a transaction's body commits to its auxiliary data, if it
has any) says that what passes the binding is read as the requested transaction would be.

**`SetInduction`** makes induction over the natural numbers usable. The library's
induction theorems quantify over a predicate, which none of the provers can
instantiate; `SetInduction` quantifies over a set instead, and rests on the
library's theorem that inclusion of finite sets is well founded. From it follow
`RecursionOnInterval` (a function defined by recursion on an interval exists),
which gives `MissingIndices` its meaning; `PartFacts` and `PartsJoin`, about a stretch of
a sequence; `Products` and `Divided`, the arithmetic of chunks; and `FirstFailingFacts` and
`AllChecksPass`, which say what the first failing check of a list of any length is.
They are lemmas; nothing in them is about this code.

**`ResumableUploadProofs`** (assumption `ConstantsAssumption`). One sender per chunk
is not inductive by itself: a lane may claim the next index because no index
occurs twice in a round and none left to claim has been sent (`RoundInv`); that a
new round, with a new list, finds no lane of its call at work is `LaneInv`; and that
there is a session for what the lanes do is `CallInv`. `CountInv` sharpens
`ProgressBounded` to what holds between rounds, and `StoredInv` says that a
completion is accepted for a whole file only. From `InductiveInvariant`:
`TypeCorrect`, `OneSender`, `ProgressIsBounded`. `NoneForgotten`,
`ReturnMeansStored` and `CancelledReclaims` are inductive relative to it.
`CancelledReclaims` has two halves. A cancelled call has abandoned its session or names
it. One that was cancelled again while it abandoned has promised neither: there may be
an open session that no error names; but the caller has been told its id, since
nothing is abandoned before `on_session_created` has returned or by a call that did not
resume it (`CallInv`).
`MissingAreTheRest` says what a round is given: exactly the indices the gateway
lacks, each once.

**`PoeWaitProofs`** (assumptions `ConstantsAssumption`, `LifecycleAssumption`). The
second is about the gateway and says that a status that has reached a target, or
failed, is followed by no other kind: the code calls both terminal
(`client/types.py:23`, `client/poe_events.py:258`) and a wait that
resumes after an id relies on it. `WaitInv` is inductive: what is under way repeats
the log (`WireTrue`), the log does not go back (`Forward`), nothing at or before
the resume point was decisive (`ResumePointSafe`), and a wait that ends has seen what
ended it (`Decided`). `WaitInvariant` and `OutcomesAreTrue` hold for any log, ladder
and number of failures.

The module also proves of `SseFraming` (instantiated as `Framing`, assumption
`SizesAssumption`) that cutting is invisible: for every stream, limits and cutting, what
`feed` has returned is what it would have returned had the stream come whole, and it
raises for the same streams (`CuttingIsInvisible`, the run's `AsFedAtOnce`). The point of the
argument is how `feed` goes through the letters of a chunk: taking a chunk letter by
letter and taking two chunks one after the other is the same (`Swallow`, a recursive
function over the positions of a chunk), so the invariant `FramingInv` compares the
parser with one that was fed the whole stream so far.

**`FileObjectSourceProofs`** (assumption `ConstantsAssumption`, hypothesis `~Orphans`).
`SlicesReadTheirRanges` is inductive: only the newest source is at work, under its
lock unless its call was cancelled, and never while another is built (`LocksHeld`);
so one thread at a time moves the handle (`OneReader`), which stands where that
thread left it (`PositionKept`), and a source measures the end of the file
(`BuildingKept`). The hypothesis is needed: the run
`file_source_orphans` is what happens without it.

**`CryptoProofs`** is about three components, all extended. The
theorems whose names have `Always` in them, here and in `SealedEnvelopeProofs`, state the very
properties of the run.

For `StreamCipher` the assumption is `SizesAssumption`: sizes are natural numbers,
those of chunk, tag and header not zero. It allows a tag longer than a chunk, any
limit of the counter, any plaintext and any cutting of it. The property,
`OpensOnlyAsSealed`, says nothing of how the blob came to be; the invariant has to.
`Faithful` says of a byte under the payload key that it is of the chunk its
counter names, a full one unless flagged and the end of the plaintext if flagged;
the store can move such bytes about but not make one (`DamagedFacts`), and
an opener that finds a chunk authentic under its own counter has the chunk that
belongs there (`OpenChunkReleases`), hence `Released`: the count times the chunk
size. On the sealing side `SealedSoFar` says that chunks sealed, chunk held back
and buffer are together what was read, which the generator's hold-back keeps through
a piece of any length (`AbsorbSealing`, `FinishSealing`). `Steps`, a recursive
function, is unfolded by `StepsKeep` with the induction of `SetInduction`. What
`passphrase_sealed_poe_open_stream` reads ahead and replays is part of the proof.

That streaming and buffered forms agree needs a second invariant, `CutInv`, inductive
relative to the first. A pass over the whole of a source comes by one chunk machine
after each full chunk (`RunExists`, `RunFacts`); a generator that has read n bytes holds
the machine one full chunk back, that chunk, and the bytes after it (`Absorbed`),
whatever the pieces were (`AbsorbKeeps`), and so at the end of the source comes to what
the buffered form does (`FinishIsWhole`); one that raises on the way raises at the end
(`WholeRaises`). For an open, the source is the blob without its header, of which the
lookahead holds the next part. Together with what sealing a text comes to, its chunks
encrypted one after the other (`SealedIs`), of the predicted length and opening chunk
by chunk (`SealedOpens`), this proves the other two parts of
`CiphertextsOpenAsSealed`. Theorems: `StreamInvariant`, `StreamOpens`,
`PiecesInvariant`, `StreamingIsBuffered`, `UntouchedBlobsOpen`.

For `PassphraseEnvelope` the assumption is `PassphraseAssumption`: lengths, parameters
and floors are integers, and having no hash claim is one of the claims. `StoredInv` says
that what is stored was sealed with accepted arguments, but for length, bytes and the
claim in its commitment; `OpenedInv` that what an open says is about that. An open
that matches has its own commitment equal to the blob's, hence the same key, header
and claim; so `PassphraseOpens`. Nothing is assumed of the Unicode tables: that two
spellings normalise alike is `SpellingsAgree`, which stays with TLC. Theorems:
`PassphraseInvariant`, `PassphraseOpens`, `PassphraseErrorsFirst`,
`PassphrasesAlwaysOpenTheirOwn`.

For `RecordSignature` the assumption is `KeysAssumption`: no key is called like the
marks of an absent or a short one. `HistoryInv` says that nobody makes up a
signature, and that what the library prepared is what it was asked to; `ReadingInv`
that a reading is of the entry and the record as they are. Theorems:
`SignatureInvariant`, `ValidVerdictsAreGenuine`, `AssembledSignaturesVerify`,
`ValidatorAndVerifierAgree`, `SignaturesAlwaysSpeak`.

**`SealedEnvelopeProofs`** (assumption `EnvelopeAssumption`: the small-order point is
nobody's ephemeral, the zero key is no content key, every content key has a MAC).
The primitives are ideal, but nothing is assumed of which MACs collide. `SealedInv`
says that the slots are the recipients', one each, in some order, and of different
material; `TravelInv` what may have become of them; `Reading` and `ScanInv` that
the running selection over the first slots is the first accepted one with the
conflict noted; `Ended` what each end of a call says of the whole scan. From it:
`EnvelopesOpen` (a slot accepts a key when it is its recipient's and, without
changes, no other), `HeadersBound` (the MAC of a slot that accepts is over the
transcript as read, hence as sealed), `ShadowsInert`, `FoldSelects`,
`KeksUnique`, and the run's properties `RecipientsAlwaysOpen` and
`HeadersAlwaysBound`. They hold for any number of keys, recipients, slots and changes.

**Model-checked only**: liveness everywhere (ENABLED and fairness are out of the
prover's reach), and of what `MCDataLayers` checks:

- of `FramesSurviveCutting`, that the events are those of the stream's own lines and
  blocks, and that the limits hold and blame nothing within them
  (`CuttingDoesNotMatter`, `LimitsEnforced`, `FieldsAreNotBlamed`);
- of `CarriedRecordsAreWhole`, that what is bound is the requested body and auxiliary data
  and read as the record of the ledger (`BoundMeansTheRecord`, which runs the walker over
  encoded transactions), and that a cutting accepted is among those enumerated;
- `SpellingsAgree`, about tables that are generated;
- `MerkleProofsAreSound`, `AcceptedRecordsOpen`, `ProducedRecordsValidate`,
  `QuoteCoversRecord`: `MerkleTree` and `CborValue` are recursive over data, and with them
  `Validator`, `RecordDrafts`, `RecordEstimate` and `RecordAssembly` lose the SMT prover.

## 6. Findings

| Run | What the code does | What it says |
| --- | --- | --- |
| `sealed_slow_signer` | checks the lock, then awaits the caller's signer, then posts against the lock it checked | "publish only against a live one" (`client/sealed.py:1225-1226`) |
| `upload_early_cancel` | knows a session only once its status has been read; a task cancelled before leaves it open and unnamed | "once a session exists, triggers a best-effort `abandon`" (`client/resumable_upload.py:17-19`) |
| `file_source_orphans` | a lane left by a failed call and the retry's own lanes have two locks over one handle; a slice returns another range | slices are serialised (`client/resumable_source.py:123-125`) |
| `validator_raises` | asks for a key path with `"slots" in enc` after the schema pass let null through, and takes the length of null (`poe_standard/validator.py:1328`) | "The validator NEVER raises" (`poe_standard/validator.py:26`) |
| `wait_deadline` | awaits the closing of the response after the deciding frame, inside the timeout | raised when the timeout "elapses before the record reaches the requested target" (`client/poe_wait_timeout_error.py:1-2`) |

Met while modelling, without a run of their own:

- `bytes_sent` may pass `total_bytes` after a 409 (`ProgressBounded` says by how much).
- With two equal items, receipts are credited by first match, and a caller that
  passes both receipts is refused as a duplicate (`client/sealed.py:1286-1288`). The
  runs and the theorems have distinct items, so no property covers this.
- A price preview whose `expires_at` cannot be read counts as fresh for ever
  (`client/publish.py:537`); a caller that keeps passing it on is refused by the gateway each
  time. `EventuallyDone` leaves such a caller out (`PreviewLapsedUnseen`).
- A task cancelled while a cancelled call awaits its DELETE leaves the session open and
  named by no error (`client/resumable_upload.py:629-638`), short of "triggers a
  best-effort `abandon`": the request is sent, and may be dropped.
- A certificate whose `tx_hash` is no hex verifies, and only the COSE export refuses it.
- Keepalive comments alone add up to the event limit (`client/poe_events.py:124`).
- `ids.py:125` says canonical 8-4-4-4-12 only, but four hyphens may stand anywhere.
- Redirect hops are not in the audit trail, though `verifier/fetch.py:7-9` says
  every outbound call is recorded.
- `items.py` says one mismatching URI condemns the record even if a sibling
  matches; the first match ends the walk, so it depends on the order of uris.
- `uris=[]` passes `_validate_uris` and makes a record that the validator rejects,
  though "a producer can never emit a record a verifier would reject on its content
  URIs" (`client/publish.py:329-330`).
- `parse_supersedes_hex` counts characters, and `bytes.fromhex` skips spaces between bytes: 64
  characters with two spaces give 31 bytes, a record that does not validate
  (`client/publish.py:299-309`). `Unguarded` lists this and the case above.
- The producers have no upper bound on recipients or on the cost of a passphrase; the
  validator has.
- A prepared seal priced for `ar://` uris and published with longer `ipfs://` ones may
  exceed its quote; `QuoteCoversRecord` is about the former.
- A signature with an unknown algorithm "never fails the record by itself"
  (`poe_standard/validator.py:135-136`), yet one whose signer key cannot be resolved is
  an error: the verifier resolves the key before it looks at the algorithm
  (`verifier/signatures.py:145-149`). And `-19` is known to the validator and
  unsupported to the verifier.
- A leaves list whose count differs from its leaves and whose root is wrong is named by
  its root when the decoder sees it first; `verifier/merkle.py:90-93` says the count.
- `slots_mac` may be null as far as the validator is concerned.
- `_skip_cbor_item` passes over one byte too many after `0xF8` (the argument has been
  read by then, `verifier/cbor_walker.py:102-105`); no transaction field is a simple value
  of that kind. Transactions with items of indefinite length are refused.
- A wrong key or a missing credential gives "failed" though the caller is to
  blame (`AtFault` counts them).

## 7. What is abstracted or left out

- **SealedPublish**: the quote round trip is shorter than TTL minus skew. The 409
  of an idempotency conflict is not modelled. A quote may be used twice, which
  allows more charges than the gateway does. `CancelledError` carries no receipts;
  the keys alone protect the next call, which `StoredOnce` covers. Preparing and
  encoding a record are data.
- **ResumableUpload**: a slice is read in the step that claims its chunk; digests
  are equality. `MaxFaults` bounds failures and interrupted clean-ups together. A request a
  cancellation drops is served at the moment of the cancellation or not at all. A resumed
  call's `bytes_sent` starts at 0, as in the code. The single-shot path is one
  request and is left out. Orphans may call `on_progress` after the call has
  returned; the callback is the caller's.
- **PoeWait**: delays, jitter and `retry-after` are a wait that ends. A 429, a 5xx
  and a broken network are one action, since the code treats them alike.
- **SseFraming**: a byte is a letter of its class (an unknown field behaves as a
  comment does); UTF-8 decoding and ids with NUL are left out.
- **StreamCipher, SealedEnvelope, PassphraseEnvelope**: AEAD, KEMs, HKDF, HMAC and
  Argon2id are ideal, except that two content keys may have one MAC, which the code
  provides for. Constant time is not a property of a trace. Lengths of byte strings
  are "right" or not.
- **PassphraseNormalization**: the generated tables are a fragment given as constants;
  UTF-8 is its lengths.
- **MerkleTree**: SHA-256 is ideal; CBOR and COSE bytes of documents and certificates are
  values with fields.
- **TransactionCarriage**: hashes are ideal and a digest is one byte; chunks hold two
  bytes instead of 64. Lengths of four and eight bytes are read, and any that pass the end of
  the input are one length, `Long`; none is written (`MinimalHead`), since a transaction is
  at most 16 KiB.
- **RecordSignature**: Ed25519 is ideal; a blob is its fields and, if it fails a
  byte-level check, the name of that check.
- **Validator, RecordDrafts**: the order of issues and their wording; uris and CIDs are
  attributes (scheme, what a CID says and holds); the conditions of the CBOR decoder
  are those of a decoded value; extension keys and critical names are one of each.
- **RecordAssembly**: a fingerprint is the value it is of; randomness is a name; the
  signer returns a sound or an unsound result at once.
- **VerifyTx**: a call's errors and timeouts are "unusable" or "fails"; the
  wrapper's own retry loop is not modelled, since `verify_tx` uses it without
  retries. Bytes are told apart by whether they are the uri's own and whether they
  satisfy the claim. Issue order, the transaction's description, and what a
  signature, a Merkle root or a decryption computes are outcomes of the record.
  `OneHonestGatewayIsEnough` leaves out claims that meet the size ceiling: the code
  ends such a claim at once, on the word of one gateway. The validator's codes are
  one code, `SCHEMA`.
- **Not modelled**: the requests of direct publishing (planned); identifiers and seeds,
  which are text codecs written character by character over library encodings
  (bech32, base64) and key derivations; the cryptographic primitives, layers over
  libraries; the generated Unicode table; resources of one request and the classes of
  their errors, which keep no state; display of a transaction and the conformance
  harness, which take no part in any result.
