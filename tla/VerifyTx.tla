------------------------------ MODULE VerifyTx ------------------------------
(***************************************************************************)
(* verify_tx (verifier/verify.py): resolve a transaction over a chain of   *)
(* explorers, read the record it carries, check each of the record's       *)
(* content claims against what storage gateways serve, and give a verdict. *)
(*                                                                         *)
(* A claim is an item, a sealed item or a Merkle commitment.  Bytes are    *)
(* told apart by two facts: do they satisfy the claim, and are they the    *)
(* bytes of the address they were fetched from?                            *)
(***************************************************************************)
EXTENDS Integers, Sequences, Functions

CONSTANTS
  Hosts,                    \* every host a call may reach
  Under,                    \* Under[h]: h and the hosts that are subdomains of it
  Koios, Blockfrost,        \* sequences of explorer hosts; the second at most one
  ArGateways,               \* sequence of gateway hosts
  Records,                  \* what the transaction may carry
  Inputs,                   \* the options of the caller
  HonestHosts,              \* which hosts answer faithfully
  Threshold, MaxHops,       \* confirmation_depth_threshold, MAX_REDIRECT_HOPS
  MaxHeight                 \* bound of the model: block heights and depths

Providers == Koios \o Blockfrost

Claims == [kind  : {"item", "sealed", "merkle"},
           uris  : Seq([scheme : {"ar", "raw", "dag"}, good : BOOLEAN]),
           given : {"none", "good", "bad"},
           seal  : {"none", "opens", "bad_plaintext", "header_failure", "input_failure",
                    "wrong_passphrase", "no_key"}]

ASSUME HostsAssumption ==
  /\ Under \in [Hosts -> SUBSET Hosts] /\ \A h \in Hosts : h \in Under[h]
  /\ Koios \in Seq(Hosts) /\ Blockfrost \in Seq(Hosts)
  /\ ArGateways \in Seq(Hosts) \ {<<>>}
  /\ HonestHosts \subseteq SUBSET Hosts

\* Only sealed items have a seal, and an item takes no bytes out of band.
ASSUME InputsAssumption ==
  /\ Records \subseteq [carried : BOOLEAN, form : {"valid", "invalid", "enc_unsupported"},
                       signed : {"no", "well", "badly"}, claims : Seq(Claims)]
  /\ \A r \in Records : \A claim \in Range(r.claims) :
       /\ claim.kind = "sealed" <=> claim.seal # "none"
       /\ claim.kind = "item" => claim.given = "none"
  /\ Inputs \subseteq [fetch : BOOLEAN, keyring : BOOLEAN,
                      profile : {"core", "signed", "sealed", "recipient-sealed"},
                      denied : SUBSET Hosts, ipfs : Seq(Hosts)]

ASSUME BoundsAssumption == Threshold \in Nat /\ MaxHops \in Nat /\ MaxHeight \in Nat

VARIABLES
  input,    \* the caller's options: fetch_content, keyring, profile,
            \* deny_hosts, ipfs_gateway_chain
  record,   \* what the requested transaction carries
  honest,   \* the hosts that answer faithfully in this run
  pc,       \* the step of the pipeline
  provider, \* index of the explorer being asked
  saw,      \* the evidence kept of explorers given up: saw_negative, ...
  height,   \* the transaction's block height, as this explorer has it
  depth,    \* confirmation_depth, 0 before
  checks,   \* content_check of the claims settled so far
  src,      \* the source of the claim being checked
  waiting,  \* the MerkleUnavailableMarkers
  issues,   \* the issue sink
  verdict,  \* "none" before the report
  calls     \* history: the hosts asked for, and whether a request went out

world == <<input, record, honest>>
vars == <<world, pc, provider, saw, height, depth, checks, src, waiting, issues, verdict, calls>>

-----------------------------------------------------------------------------
(* Issues and the verdict                                                  *)

Warnings == {"URI_PROVIDER_INTEGRITY_MISMATCH", "URI_FETCH_FAILED", "INSUFFICIENT_CONFIRMATIONS"}

\* NETWORK_CLASS_CODES: these never condemn a record.
NetworkClass ==
  {"TX_NOT_FOUND", "PROVIDER_UNAVAILABLE", "TX_INTEGRITY_MISMATCH", "CONTENT_UNAVAILABLE",
   "CONTENT_FETCH_LIMIT_EXCEEDED", "CIPHERTEXT_UNAVAILABLE", "MERKLE_LEAVES_UNAVAILABLE",
   "URI_TARGET_FORBIDDEN"}

\* An issue at a claim, 0 for the run or the record.
Issue(code, claim) == [code |-> code, claim |-> claim, error |-> code \notin Warnings]

Condemning(issue) == issue.error /\ issue.code \notin NetworkClass

VerdictOf(found) ==
  CASE \E i \in found : Condemning(i)                            -> "failed"
    [] (\E i \in found : i.error) /\ ~\E i \in found : Condemning(i) -> "unverifiable"
    [] ~\E i \in found : i.error                                 -> "valid"

Report(found) ==
  /\ pc' = "done"
  /\ issues' = found
  /\ verdict' = VerdictOf(found)

-----------------------------------------------------------------------------
(* The record and the caller                                               *)

Has(profiles) == input.profile \in profiles

WillDecrypt == input.keyring /\ Has({"recipient-sealed"})

\* What the structural validator lets through; a recipient verifier rejects an
\* envelope that a public one only notes.
Readable == record.carried /\ (record.form = "valid" \/ (record.form = "enc_unsupported" /\ ~WillDecrypt))

\* The gateway g of a claim's uri u; 0 stands for the bytes the caller gave.
Source(u, g) == [uri |-> u, gw |-> g, hop |-> 0, at |-> ""]

NoSource == Source(0, 1)

Init ==
  /\ input \in Inputs /\ record \in Records /\ honest \in HonestHosts
  /\ pc = "cbor" /\ provider = 1 /\ saw = {} /\ height = 0 /\ depth = 0
  /\ checks = <<>> /\ src = NoSource /\ waiting = {}
  /\ issues = {} /\ verdict = "none" /\ calls = {}

\* The egress wrapper: a call to a listed host is refused before it goes out.
Refused(host) ==
  /\ host \in input.denied
  /\ calls' = calls \cup {[host |-> host, reached |-> FALSE]}

Reached(host) == calls' = calls \cup {[host |-> host, reached |-> TRUE]}

-----------------------------------------------------------------------------
(* Resolving the transaction                                               *)

contentVars == <<checks, src, waiting>>

\* A call to the explorer whose turn it is goes out and is answered.
ProviderAsked(stages) ==
  /\ pc \in stages /\ provider <= Len(Providers)
  /\ Providers[provider] \notin input.denied
  /\ Reached(Providers[provider])
  /\ UNCHANGED <<world, contentVars, issues, verdict>>

Faithful == Providers[provider] \in honest

\* The explorer is given up, whatever it has answered so far.
GiveUp(evidence) ==
  /\ saw' = saw \cup {evidence}
  /\ provider' = provider + 1
  /\ pc' = "cbor" /\ height' = 0
  /\ UNCHANGED depth

\* Mutated form: a denied explorer is one more that is unavailable.
ProviderDenied_Rotates ==
  /\ pc = "cbor" /\ provider <= Len(Providers)
  /\ Refused(Providers[provider])
  /\ GiveUp("unusable")
  /\ UNCHANGED <<world, contentVars, issues, verdict>>

\* DenyHostError on the resolve path ends the run.
ProviderDenied ==
  /\ pc = "cbor" /\ provider <= Len(Providers)
  /\ Refused(Providers[provider])
  /\ Report({Issue("SERVICE_INDEPENDENCE_VIOLATION", 0)})
  /\ UNCHANGED <<world, contentVars, provider, saw, height, depth>>

\* Unreachable, an HTTP error, or an answer that cannot be used.
ProviderUnusable ==
  /\ ProviderAsked({"cbor", "info", "tip"}) /\ ~Faithful
  /\ GiveUp("unusable")

\* Mutated form: the first explorer that does not know the transaction is
\* believed.
ProviderNegative_IsFinal ==
  /\ pc = "cbor" /\ provider <= Len(Providers) /\ Providers[provider] \notin input.denied
  /\ Reached(Providers[provider]) /\ ~Faithful
  /\ Report({Issue("TX_NOT_FOUND", 0)})
  /\ UNCHANGED <<world, contentVars, provider, saw, height, depth>>

\* It does not know the transaction.
ProviderNegative ==
  /\ ProviderAsked({"cbor"}) /\ ~Faithful
  /\ GiveUp("negative")

\* It serves bytes that are not the transaction's: _bind_fetched_tx.
BindingFails ==
  /\ ProviderAsked({"cbor"}) /\ ~Faithful
  /\ GiveUp("wrong_bytes")

\* It serves the transaction: only its bytes pass the binding.
BindingHolds ==
  /\ ProviderAsked({"cbor"})
  /\ pc' = "info"
  /\ UNCHANGED <<provider, saw, height, depth>>

Resolved(confirmations) ==
  /\ pc' = "record" /\ depth' = confirmations
  /\ UNCHANGED <<provider, saw, height>>

\* tx_info: Koios may count the confirmations itself; otherwise the block's
\* height is held against the tip.
InfoAnswered ==
  /\ ProviderAsked({"info"})
  /\ \/ provider <= Len(Koios) /\ \E n \in 1..MaxHeight : Resolved(n)
     \/ /\ height' \in 1..MaxHeight
        /\ pc' = "tip"
        /\ UNCHANGED <<provider, saw, depth>>

\* Mutated form: a tip below the block is not noticed.
TipAnswered_Unchecked ==
  /\ ProviderAsked({"tip"})
  /\ \E tip \in 0..MaxHeight : Resolved(tip - height)

\* _depth_from_heights: a tip below the block makes the explorer unusable.
TipAnswered ==
  /\ ProviderAsked({"tip"})
  /\ \E tip \in 0..MaxHeight :
       \/ tip < height /\ ~Faithful /\ GiveUp("unusable")
       \/ tip >= height /\ Resolved(tip - height + 1)

\* Every explorer has been given up: the strongest evidence is reported.
ResolveFails ==
  /\ pc = "cbor" /\ provider > Len(Providers)
  /\ LET code == CASE "wrong_bytes" \in saw -> "TX_INTEGRITY_MISMATCH"
                   [] "wrong_bytes" \notin saw /\ "negative" \in saw -> "TX_NOT_FOUND"
                   [] saw \subseteq {"unusable"} -> "PROVIDER_UNAVAILABLE"
     IN Report({Issue(code, 0)})
  /\ UNCHANGED <<world, contentVars, provider, saw, height, depth, calls>>

-----------------------------------------------------------------------------
(* Reading the record                                                      *)

resolveVars == <<provider, saw, height, depth>>

\* No label 309, a malformed body, or a record the validator rejects.
RecordRejected ==
  /\ pc = "record" /\ ~Readable
  /\ Report({Issue(IF record.carried THEN "SCHEMA" ELSE "METADATA_NOT_FOUND", 0)})
  /\ UNCHANGED <<world, resolveVars, contentVars, calls>>

\* Below the threshold nothing more is computed.
TooShallow ==
  /\ pc = "record" /\ Readable /\ depth < Threshold
  /\ pc' = "done" /\ verdict' = "pending"
  /\ issues' = {Issue("INSUFFICIENT_CONFIRMATIONS", 0)}
  /\ checks' = [c \in DOMAIN record.claims |-> "not_checked"]
  /\ UNCHANGED <<world, resolveVars, src, waiting, calls>>

\* The signatures, from the signed profile on; then the first claim.
SignatureIssues ==
  IF record.signed = "badly" /\ ~Has({"core"}) THEN {Issue("SIGNATURE_INVALID", 0)} ELSE {}

StartContent ==
  /\ pc = "record" /\ Readable /\ depth >= Threshold
  /\ pc' = "content"
  /\ issues' = SignatureIssues
  /\ UNCHANGED <<world, resolveVars, contentVars, verdict, calls>>

-----------------------------------------------------------------------------
(* The claims                                                              *)

\* The claim being checked, and its number.
Number == Len(checks) + 1
Claim == record.claims[Number]

Settle(check, codes) ==
  /\ checks' = Append(checks, check)
  /\ src' = NoSource
  /\ issues' = issues \cup {Issue(code, Number) : code \in codes}

InClaim == pc = "content" /\ Number <= Len(record.claims)

\* Nothing is expected of the claim in this run.
Skipped(claim) ==
  \/ claim.kind = "item" /\ (~input.fetch \/ claim.uris = <<>>)
  \/ claim.kind = "sealed" /\ ~WillDecrypt
  \/ claim.kind = "merkle" /\ ~input.fetch /\ claim.given = "none"

SkipClaim ==
  /\ InClaim /\ Skipped(Claim)
  /\ Settle("not_checked", {})
  /\ UNCHANGED <<world, resolveVars, waiting, pc, verdict, calls>>

\* The keyring has no credential for this item's key path.
Keyless(claim) == claim.kind = "sealed" /\ claim.seal = "no_key"

NoCredential ==
  /\ InClaim /\ ~Skipped(Claim) /\ Keyless(Claim)
  /\ Settle("not_checked", {"WRONG_DECRYPTION_INPUT_SHAPE"})
  /\ UNCHANGED <<world, resolveVars, waiting, pc, verdict, calls>>

Acquiring == InClaim /\ ~Skipped(Claim) /\ ~Keyless(Claim)

\* iterate_blob_sources: bytes the caller gave, then each uri over its gateways.
Cursor == IF src.uri = 0 /\ Claim.given = "none" THEN [src EXCEPT !.uri = 1] ELSE src

Fetching == Acquiring /\ input.fetch /\ Cursor.uri \in DOMAIN Claim.uris

Uri == Claim.uris[Cursor.uri]

GatewaysOf(uri) == IF uri.scheme = "ar" THEN ArGateways ELSE input.ipfs

NextUri == Source(Cursor.uri + 1, 1)

\* Mutated form: one gateway per uri.
NextSource_FirstGatewayOnly == NextUri

NextSource ==
  IF Cursor.uri # 0 /\ Cursor.gw < Len(GatewaysOf(Uri))
  THEN Source(Cursor.uri, Cursor.gw + 1)
  ELSE NextUri

\* What the claim makes of a blob: an acceptance, a rejection that is weighed
\* by the blob's attribution, or a code that ends the claim at once.  A seal
\* says what its envelope and the keyring make of the genuine ciphertext.
Judgement(claim, satisfies) ==
  IF claim.kind = "sealed"
  THEN CASE claim.seal = "header_failure" -> "TAMPERED_HEADER"
         [] claim.seal = "input_failure"  -> "KDF_DERIVATION_FAILED"
         [] claim.seal = "wrong_passphrase" -> "rejected"
         [] claim.seal \in {"opens", "bad_plaintext"} /\ ~satisfies -> "rejected"
         [] claim.seal = "opens" /\ satisfies -> "checked"
         [] claim.seal = "bad_plaintext" /\ satisfies -> "URI_INTEGRITY_MISMATCH"
  ELSE IF satisfies THEN "checked" ELSE "rejected"

MismatchCode(claim) ==
  CASE claim.kind = "item"   -> "URI_INTEGRITY_MISMATCH"
    [] claim.kind = "sealed" -> "TAMPERED_CIPHERTEXT"
    [] claim.kind = "merkle" -> "MERKLE_ROOT_MISMATCH"

\* The loop body of check_item_content, check_merkle_commit and decrypt_item.
Consume(satisfies, attributable) ==
  LET judgement == Judgement(Claim, satisfies) IN
  CASE judgement = "checked" -> Settle("checked", {})
    [] judgement = "rejected" /\ attributable -> Settle("mismatched", {MismatchCode(Claim)})
    [] judgement = "rejected" /\ ~attributable ->
         /\ issues' = issues \cup {Issue("URI_PROVIDER_INTEGRITY_MISMATCH", Number)}
         /\ src' = NextSource
         /\ UNCHANGED checks
    [] judgement = "URI_INTEGRITY_MISMATCH" -> Settle("mismatched", {judgement})
    [] judgement \in {"TAMPERED_HEADER", "KDF_DERIVATION_FAILED"} ->
         Settle("not_checked", {judgement})

\* Bytes supplied out of band are attributable.
TakeGiven ==
  /\ Acquiring /\ Cursor.uri = 0
  /\ Consume(Claim.given = "good", TRUE)
  /\ UNCHANGED <<world, resolveVars, waiting, pc, verdict, calls>>

\* This deployment declines ipfs.
RefuseUri ==
  /\ Fetching /\ GatewaysOf(Uri) = <<>>
  /\ issues' = issues \cup {Issue("URI_TARGET_FORBIDDEN", Number)}
  /\ src' = NextUri
  /\ UNCHANGED <<world, resolveVars, checks, waiting, pc, verdict, calls>>

-----------------------------------------------------------------------------
(* The gateways                                                            *)

Gateway == GatewaysOf(Uri)[Cursor.gw]

\* The host of the request: the gateway, or where it has redirected to.
Host == IF Cursor.hop = 0 THEN Gateway ELSE Cursor.at

GatewayDenied ==
  /\ Fetching /\ GatewaysOf(Uri) # <<>> /\ Cursor.hop = 0
  /\ Refused(Host)
  /\ issues' = issues \cup {Issue("SERVICE_INDEPENDENCE_VIOLATION", Number)}
  /\ src' = NextSource
  /\ UNCHANGED <<world, resolveVars, checks, waiting, pc, verdict>>

\* A request goes out; the transport looks at the list again only to follow a
\* redirect.
GatewayAsked ==
  /\ Fetching /\ GatewaysOf(Uri) # <<>>
  /\ Cursor.hop = 0 => Host \notin input.denied
  /\ Reached(Host)
  /\ UNCHANGED <<world, resolveVars, pc, verdict>>

\* _resolve_same_domain_redirect: the gateway the fetch started from or a
\* subdomain of it, and not a listed host.
MayFollow(target) == target \in Under[Gateway] /\ target \notin input.denied

\* Mutated form: redirects are followed as long as they come.
Redirected_Uncounted ==
  /\ GatewayAsked /\ Uri.scheme = "ar"
  /\ \E target \in Hosts :
       /\ MayFollow(target)
       /\ Host \in honest => Cursor.hop = 0 /\ target \in honest
       /\ src' = [Cursor EXCEPT !.hop = 1, !.at = target]
  /\ UNCHANGED <<checks, waiting, issues>>

Redirected ==
  /\ GatewayAsked /\ Uri.scheme = "ar" /\ Cursor.hop < MaxHops
  /\ \E target \in Hosts :
       /\ MayFollow(target)
       /\ Host \in honest => Cursor.hop = 0 /\ target \in honest
       /\ src' = [Cursor EXCEPT !.hop = @ + 1, !.at = target]
  /\ UNCHANGED <<checks, waiting, issues>>

\* No answer, a status other than 200, or a redirect that is not followed.
GatewayFails ==
  /\ GatewayAsked /\ Host \notin honest
  /\ issues' = issues \cup {Issue("URI_FETCH_FAILED", Number)}
  /\ src' = NextSource
  /\ UNCHANGED <<checks, waiting>>

\* Mutated form: every address counts as bound to its bytes.
Attributable_AnyIpfs(uri, own) == uri.scheme # "ar"

\* verify_ipfs_cid_binding: only a raw CID binds, and only its own bytes; "dag"
\* stands for every other CID and for a path below one.
Attributable(uri, own) == uri.scheme = "raw" /\ own

\* A blob: the address's own bytes, or others, which satisfy a claim only when
\* the address's own do not.
GatewayServes ==
  /\ GatewayAsked
  /\ \E own, satisfies \in BOOLEAN :
       /\ own => satisfies = Uri.good
       /\ ~own => Host \notin honest /\ ~(satisfies /\ Uri.good)
       /\ Consume(satisfies, Attributable(Uri, own))
  /\ UNCHANGED waiting

\* The claim ends unchecked.  What it means for a Merkle commitment is decided
\* when every claim has been seen.
EndClaim(limitExceeded) ==
  IF Claim.kind = "merkle"
  THEN /\ waiting' = waiting \cup {[claim |-> Number, limit |-> limitExceeded]}
       /\ Settle("not_checked", {})
  ELSE /\ Settle("not_checked",
                 {CASE limitExceeded -> "CONTENT_FETCH_LIMIT_EXCEEDED"
                    [] ~limitExceeded /\ Claim.kind = "item"   -> "CONTENT_UNAVAILABLE"
                    [] ~limitExceeded /\ Claim.kind = "sealed" -> "CIPHERTEXT_UNAVAILABLE"})
       /\ UNCHANGED waiting

\* BodyTooLargeError: max_fetch_bytes ends the claim, not only this source.
TooLarge ==
  /\ GatewayAsked /\ Host \notin honest
  /\ EndClaim(TRUE)

Exhausted ==
  /\ Acquiring /\ Cursor.uri # 0 /\ ~Fetching
  /\ EndClaim(FALSE)
  /\ UNCHANGED <<world, resolveVars, pc, verdict, calls>>

\* Mutated form: missing leaves are a warning whatever else was checked.
FloorIssue_Warns(marker) ==
  IF marker.limit THEN Issue("CONTENT_FETCH_LIMIT_EXCEEDED", marker.claim)
  ELSE [code |-> "MERKLE_LEAVES_UNAVAILABLE", claim |-> marker.claim, error |-> FALSE]

\* The commitment floor: missing leaves are an error unless some other claim
\* was checked.
FloorIssue(marker) ==
  IF marker.limit THEN Issue("CONTENT_FETCH_LIMIT_EXCEEDED", marker.claim)
  ELSE [code |-> "MERKLE_LEAVES_UNAVAILABLE", claim |-> marker.claim,
        error |-> "checked" \notin Range(checks)]

FinalReport ==
  /\ pc = "content" /\ Number > Len(record.claims)
  /\ Report(issues \cup {FloorIssue(marker) : marker \in waiting})
  /\ UNCHANGED <<world, resolveVars, contentVars, calls>>

-----------------------------------------------------------------------------

Resolve ==
  \/ ProviderDenied \/ ProviderUnusable \/ ProviderNegative
  \/ BindingFails \/ BindingHolds \/ InfoAnswered \/ TipAnswered \/ ResolveFails

ReadRecord == RecordRejected \/ TooShallow \/ StartContent

CheckContent ==
  \/ SkipClaim \/ NoCredential \/ TakeGiven \/ RefuseUri
  \/ GatewayDenied \/ Redirected \/ GatewayFails \/ GatewayServes \/ TooLarge
  \/ Exhausted \/ FinalReport

Next == Resolve \/ ReadRecord \/ CheckContent

Spec == Init /\ [][Next]_vars

\* Every request is answered or times out.
FairSpec == Spec /\ WF_vars(Next)

-----------------------------------------------------------------------------
(* Properties                                                              *)

Sources == [uri : Nat, gw : Nat \ {0}, hop : 0..MaxHops, at : Hosts \cup {""}]

Codes ==
  Warnings \cup NetworkClass \cup
  {"METADATA_NOT_FOUND", "SCHEMA", "SIGNATURE_INVALID", "SERVICE_INDEPENDENCE_VIOLATION",
   "URI_INTEGRITY_MISMATCH", "TAMPERED_CIPHERTEXT", "MERKLE_ROOT_MISMATCH",
   "TAMPERED_HEADER", "KDF_DERIVATION_FAILED", "WRONG_DECRYPTION_INPUT_SHAPE"}

Issues == [code : Codes, claim : Nat, error : BOOLEAN]

Checks == {"checked", "mismatched", "not_checked"}

\* Every variable has its type; a depth is at least 1 once there is one.
TypeOK ==
  /\ input \in Inputs /\ record \in Records /\ honest \in HonestHosts
  /\ pc \in {"cbor", "info", "tip", "record", "content", "done"}
  /\ provider \in 1..(Len(Providers) + 1)
  /\ saw \subseteq {"unusable", "negative", "wrong_bytes"}
  /\ height \in Nat /\ depth \in Nat
  /\ pc \in {"record", "content"} => depth >= 1
  /\ checks \in Seq(Checks) /\ Len(checks) <= Len(record.claims)
  /\ src \in Sources
  /\ issues \subseteq Issues
  /\ waiting \subseteq [claim : DOMAIN checks, limit : BOOLEAN]
  /\ calls \subseteq [host : Hosts, reached : BOOLEAN]
  /\ verdict \in {"none", "valid", "pending", "unverifiable", "failed"}

\* The producer, or the caller's own input, is to blame for the claim.
AtFault(claim) ==
  \/ claim.given = "bad"
  \/ \E u \in Range(claim.uris) : u.scheme = "raw" /\ ~u.good
  \/ claim.kind = "sealed" /\ claim.seal # "opens"

Configured == Range(Providers) \cup Range(ArGateways) \cup Range(input.ipfs)

\* "failed is reserved for record-attributable outcomes": whatever explorers
\* and gateways serve, in whatever order they fail, they cannot condemn a
\* record whose addresses hold what it commits to, unless the caller denies a
\* host it has configured.
ProvidersCannotCondemn ==
  verdict = "failed" =>
    \/ ~Readable \/ record.signed = "badly"
    \/ \E claim \in Range(record.claims) : AtFault(claim)
    \/ Configured \cap input.denied # {}

\* A valid record has been read at its depth; every item with uris and every
\* sealed item in reach of the keyring has been checked, and so has some claim
\* if a Merkle commitment was to be.  An unchecked claim cannot hide.
ValidMeansChecked ==
  verdict = "valid" =>
    /\ Readable /\ depth >= Threshold /\ Len(checks) = Len(record.claims)
    /\ \A c \in DOMAIN checks :
         ~Skipped(record.claims[c]) =>
           \/ checks[c] = "checked"
           \/ record.claims[c].kind = "merkle" /\ "checked" \in Range(checks)

\* One faithful explorer is enough, wherever it stands in the chain and
\* whatever the others answer, if none of them is denied.
OneHonestProviderIsEnough ==
  pc = "done" /\ Range(Providers) \cap honest # {} /\ Range(Providers) \cap input.denied = {} =>
    depth >= 1

\* A claim that is to be checked, whose producer and caller are not at fault,
\* whose addresses are all good and one of which a faithful gateway serves.
Fetchable(claim) ==
  /\ ~Skipped(claim) /\ ~AtFault(claim)
  /\ input.fetch /\ \A u \in Range(claim.uris) : u.good
  /\ \E u \in Range(claim.uris) : Range(GatewaysOf(u)) \cap (honest \ input.denied) # {}

\* And one faithful gateway is enough for a claim whose uris are all good,
\* unless some gateway's answer passes the ceiling.
OneHonestGatewayIsEnough ==
  pc = "done" /\ verdict # "pending" =>
    \A c \in DOMAIN checks : Fetchable(record.claims[c]) =>
      \/ checks[c] = "checked"
      \/ Issue("CONTENT_FETCH_LIMIT_EXCEEDED", c) \in issues

\* No request reaches a host of the deny list, redirects included.
DeniedNeverReached == \A call \in calls : call.reached => call.host \notin input.denied

\* No request leaves the configured hosts and their subdomains.
StaysOnConfiguredSites == \A call \in calls : \E h \in Configured : call.host \in Under[h]

\* A call that was refused is never masked by what another host answers.
RefusalIsReported == pc = "done" /\ (\E call \in calls : ~call.reached) => verdict = "failed"

\* Nothing is fetched for, or concluded about, a transaction that may yet be
\* orphaned.
PendingConcludesNothing ==
  depth < Threshold =>
    /\ \A call \in calls : call.host \in Range(Providers)
    /\ \A c \in DOMAIN checks : checks[c] = "not_checked"

\* What a claim that has been settled has left behind.
Accounted(c) ==
  \/ checks[c] = "checked" \/ Skipped(record.claims[c])
  \/ \E issue \in issues : issue.error
  \/ record.claims[c].kind = "merkle" /\ \E marker \in waiting : marker.claim = c

\* There is somebody other than the explorers and gateways to blame.
Blame ==
  \/ ~Readable \/ record.signed = "badly"
  \/ \E claim \in Range(record.claims) : AtFault(claim)
  \/ Configured \cap input.denied # {}

\* The steps: nothing is known of the content before the record is read, and it
\* is read at its depth; the source is one of the claim's.
StageInv ==
  /\ pc # "done" => verdict = "none"
  /\ pc \notin {"content", "done"} =>
       issues = {} /\ checks = <<>> /\ \A call \in calls : call.host \in Range(Providers)
  /\ pc = "content" => Readable /\ depth >= Threshold

SourceInv ==
  /\ src.gw > 1 => /\ InClaim /\ src.uri \in DOMAIN Claim.uris
                   /\ src.gw <= Len(GatewaysOf(Claim.uris[src.uri]))
  /\ src.hop > 0 => /\ InClaim /\ src.uri \in DOMAIN Claim.uris
                    /\ src.at \in Under[GatewaysOf(Claim.uris[src.uri])[src.gw]] \ input.denied

IssuesInv ==
  /\ (\E issue \in issues : Condemning(issue)) => Blame
  /\ (\E call \in calls : ~call.reached) => \E issue \in issues : Condemning(issue)
  /\ pc = "content" => \A c \in DOMAIN checks : Accounted(c)

\* The inductive invariant.
IInv ==
  /\ TypeOK /\ StageInv /\ SourceInv /\ IssuesInv
  /\ ProvidersCannotCondemn /\ ValidMeansChecked /\ RefusalIsReported
  /\ DeniedNeverReached /\ StaysOnConfiguredSites /\ PendingConcludesNothing

\* No faithful explorer has been given up while another is asked.
ResolveInv ==
  pc \in {"cbor", "info", "tip"} => \A i \in 1..(provider - 1) : Providers[i] \notin honest

\* Where the search for the claim's bytes has got to: the gateways already
\* passed were denied or not faithful, and a redirect of a faithful gateway
\* leads to a faithful host.
Passed(u, g) == u < src.uri \/ (u = src.uri /\ g < src.gw)

SearchInv ==
  InClaim =>
    /\ Fetchable(Claim) =>
         \A u \in DOMAIN Claim.uris : \A g \in DOMAIN GatewaysOf(Claim.uris[u]) :
           Passed(u, g) => GatewaysOf(Claim.uris[u])[g] \notin honest \ input.denied
    /\ src.hop > 0 /\ GatewaysOf(Claim.uris[src.uri])[src.gw] \in honest => src.at \in honest

SettledInv ==
  pc = "content" =>
    \A c \in DOMAIN checks : Fetchable(record.claims[c]) =>
      \/ checks[c] = "checked"
      \/ Issue("CONTENT_FETCH_LIMIT_EXCEEDED", c) \in issues
      \/ [claim |-> c, limit |-> TRUE] \in waiting

\* What the results about faithful hosts rest on, besides IInv.
HonestInv ==
  /\ ResolveInv /\ SearchInv /\ SettledInv
  /\ pc \notin {"content", "done"} => src.uri = 0
  /\ OneHonestProviderIsEnough /\ OneHonestGatewayIsEnough

\* A run ends with a report.
Reports == <>(pc = "done" /\ verdict # "none")
=============================================================================
