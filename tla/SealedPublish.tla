--------------------------- MODULE SealedPublish ---------------------------
(***************************************************************************)
(* submit_sealed / submit_passphrase_sealed (client/sealed.py) over the    *)
(* quote, upload and publish calls of client/publish.py, driven by a       *)
(* caller that retries with the receipts of the last error, against a      *)
(* gateway that replays an upload it has seen under the same idempotency   *)
(* key and deduplicates identical records.                                 *)
(*                                                                         *)
(* Requests and answers travel separately: a request of a call that        *)
(* crashed, was cancelled or timed out stays in flight and may still be    *)
(* served, during or after the calls that follow.                          *)
(***************************************************************************)
EXTENDS Naturals, Sequences

CONSTANTS
  N,           \* number of prepared items
  ItemId,      \* item index -> item_id, the SHA-256 of its ciphertext
  Prices,      \* the amounts a quote may carry
  Cap, NoCap,  \* max_usd_micros, or NoCap when the caller gave none
  Legible,     \* is a quote's expires_at parseable? the answers that occur
  TTL, Skew,   \* a quote's lifetime, _QUOTE_EXPIRY_SKEW_SECONDS
  Signed,      \* does the caller pass a signer?
  Cancellable, \* may the caller's task be cancelled at an await?
  MaxTime, MaxCalls, MaxFaults   \* bounds of the model

Index == 1..N

ASSUME ConstantsAssumption ==
  /\ N \in Nat \ {0}
  /\ DOMAIN ItemId = Index
  /\ Prices \subseteq Nat
  /\ NoCap \notin Nat
  /\ Cap \in Nat \cup {NoCap}
  /\ Legible \subseteq BOOLEAN
  /\ TTL \in Nat /\ Skew \in Nat
  /\ Signed \in BOOLEAN /\ Cancellable \in BOOLEAN
  /\ MaxTime \in Nat /\ MaxCalls \in Nat /\ MaxFaults \in Nat

\* A fresh seal gives every item its own ciphertext, hence its own id; an
\* artifact built by hand (PreparedSeal(...), from_json) need not.
ItemsDistinct == \A i, j \in Index : ItemId[i] = ItemId[j] => i = j

VARIABLES
  pc,       \* where submit_sealed stands, or how its last call ended
  call,     \* calls of submit_sealed so far
  idx,      \* next item of the upload loop
  resumed,  \* index -> uri of a validated receipt, 0 when there is none
  uploads,  \* index -> uri of a receipt of this call, 0 when there is none
  quote,    \* active_quote
  reply,    \* the answer to the request being awaited
  saved,    \* caller: the receipts it persisted, by slot, 0 for none
  preview,  \* caller: the price preview it passes on, if it asked for one
  store,    \* gateway: uri -> idempotency key and item_id of an upload
  ledger,   \* gateway: records published and charged
  upReqs,   \* upload requests in flight
  pubReqs,  \* publish requests in flight
  now,      \* wall clock
  faults    \* failures injected so far

clientVars  == <<pc, call, idx, resumed, uploads, quote, reply>>
callerVars  == <<saved, preview>>
gatewayVars == <<store, ledger>>
netVars     == <<upReqs, pubReqs>>
envVars     == <<now, faults>>
vars == <<clientVars, callerVars, gatewayVars, netVars, envVars>>

NoUris  == [i \in Index |-> 0]
NoReply == [status |-> "none", uri |-> 0]
NoQuote == [price |-> 0, legible |-> FALSE, expires |-> 0]

Awaiting == {"quoting", "uploading", "refreshing", "signing", "publishing"}
Resting  == {"idle", "failed", "cancelled", "crashed"}
PC == Awaiting \cup Resting \cup {"loop", "done"}

Init ==
  /\ pc = "idle" /\ call = 0 /\ idx = 1
  /\ resumed = NoUris /\ uploads = NoUris
  /\ quote = NoQuote /\ reply = NoReply
  /\ saved = NoUris /\ preview = NoQuote
  /\ store = <<>> /\ ledger = {}
  /\ upReqs = {} /\ pubReqs = {}
  /\ now = 0 /\ faults = 0

-----------------------------------------------------------------------------
(* Quotes                                                                  *)

\* Mutated form: the cap is compared the wrong way round.
WithinCap_Reversed(price) == Cap # NoCap => Cap <= price

\* _enforce_max_usd_micros does not raise.
WithinCap(price) == Cap # NoCap => price <= Cap

\* _quote_is_fresh: an unparseable expires_at reads as fresh.
QuoteIsFresh(q) == q.legible => now + Skew < q.expires

\* The price locks the gateway may answer a quote request with now.
PriceLocks == [price : Prices, legible : Legible, expires : {now + TTL}]

-----------------------------------------------------------------------------
(* Receipts                                                                *)

\* The item a receipt resolves to: the first one with the receipt's item_id.
FirstIndex(i) == CHOOSE j \in Index : /\ ItemId[j] = ItemId[i]
                                      /\ \A k \in Index : ItemId[k] = ItemId[i] => j <= k

\* No two receipts may resolve to one item ("duplicate receipt").
ReceiptsValid(rs) ==
  \A i, j \in Index : rs[i] # 0 /\ rs[j] # 0 /\ FirstIndex(i) = FirstIndex(j) => i = j

\* Mutated form: a single receipt is taken for the first item.
ByIndex_Positional(rs) ==
  [i \in Index |-> IF i = 1 /\ \E j \in Index : rs[j] # 0
                   THEN rs[CHOOSE j \in Index : rs[j] # 0 /\ \A k \in 1..(j - 1) : rs[k] = 0]
                   ELSE rs[i]]

\* _validate_receipts: every receipt keyed by the index of the item it covers.
ByIndex(rs) ==
  [i \in Index |-> IF \E j \in Index : rs[j] # 0 /\ FirstIndex(j) = i
                   THEN rs[CHOOSE j \in Index : rs[j] # 0 /\ FirstIndex(j) = i]
                   ELSE 0]

\* Mutated form: the error carries what this call has folded in, and loses
\* the validated receipts of items the loop has not reached.
Carried_UploadsOnly == uploads

\* The receipts a SubmitSealedError carries: the finished uploads, then the
\* validated receipts the loop has not reached.
Carried == [i \in Index |-> IF uploads[i] # 0 THEN uploads[i] ELSE resumed[i]]

\* Mutated form: a key drawn per call.
UploadKey_PerCall(i) == <<call, i>>

\* Mutated form: the item index is left out of the key.
UploadKey_PerSeal(i) == 1

\* upload_idempotency_key: a function of the artifact and the item index.
UploadKey(i) == i

-----------------------------------------------------------------------------
(* Ends of a call                                                          *)

\* The call's local state goes.
Leave(how) ==
  /\ pc' = how
  /\ idx' = 1 /\ resumed' = NoUris /\ uploads' = NoUris
  /\ quote' = NoQuote /\ reply' = NoReply
  /\ UNCHANGED <<call, preview>>

\* A SubmitSealedError leaves the call; the caller persists what it carries.
Raise ==
  /\ Leave("failed")
  /\ saved' = Carried

\* One more failure of the network, the gateway or the signer.
Fault ==
  /\ faults < MaxFaults
  /\ faults' = faults + 1
  /\ UNCHANGED now

-----------------------------------------------------------------------------
(* Quoting                                                                 *)

\* quote_prepared_seal: the caller asks for a price before it submits.
PreviewQuote ==
  /\ pc = "idle" /\ preview = NoQuote
  /\ preview' \in PriceLocks
  /\ UNCHANGED <<clientVars, saved, gatewayVars, netVars, envVars>>

\* submit_sealed rejects the receipts it was passed and raises with none; the
\* caller keeps its own. A hand-altered receipt counts as a fault.
RejectReceipts ==
  /\ pc \in Resting /\ call < MaxCalls
  /\ \/ ~ReceiptsValid(saved) /\ UNCHANGED envVars
     \/ ReceiptsValid(saved) /\ saved # NoUris /\ Fault
  /\ call' = call + 1
  /\ pc' = "failed"
  /\ UNCHANGED <<idx, resumed, uploads, quote, reply, callerVars, gatewayVars, netVars>>

\* The cap admits q and the upload loop starts, or the call raises with the
\* receipts rs that were resumed.
AdoptQuote(q, rs) ==
  \/ /\ WithinCap(q.price)
     /\ pc' = "loop" /\ quote' = q /\ resumed' = rs
     /\ UNCHANGED <<idx, uploads, reply, saved>>
  \/ /\ ~WithinCap(q.price)
     /\ pc' = "failed" /\ saved' = rs /\ resumed' = NoUris
     /\ UNCHANGED <<idx, uploads, quote, reply>>

\* submit_sealed(prepared, quote=preview, uploaded=saved) up to its first await.
SubmitSealed ==
  /\ pc \in Resting /\ call < MaxCalls
  /\ ReceiptsValid(saved)
  /\ call' = call + 1
  /\ \/ /\ preview # NoQuote /\ QuoteIsFresh(preview)
        /\ AdoptQuote(preview, ByIndex(saved))
     \/ /\ preview = NoQuote \/ ~QuoteIsFresh(preview)
        /\ pc' = "quoting" /\ resumed' = ByIndex(saved)
        /\ UNCHANGED <<idx, uploads, quote, reply, saved>>
  /\ UNCHANGED <<preview, gatewayVars, netVars, envVars>>

\* The gateway's price lock arrives.
QuoteAnswered ==
  /\ pc = "quoting"
  /\ \E q \in PriceLocks : AdoptQuote(q, resumed)
  /\ UNCHANGED <<call, preview, gatewayVars, netVars, envVars>>

\* The quote request fails, first or refreshing: network, or an HTTP error.
QuoteFails ==
  /\ pc \in {"quoting", "refreshing"}
  /\ Fault /\ Raise
  /\ UNCHANGED <<gatewayVars, netVars>>

-----------------------------------------------------------------------------
(* The upload loop                                                         *)

\* An item a validated receipt covers is not uploaded again.
TakeReceipt ==
  /\ pc = "loop" /\ idx <= N /\ resumed[idx] # 0
  /\ uploads' = [uploads EXCEPT ![idx] = resumed[idx]]
  /\ resumed' = [resumed EXCEPT ![idx] = 0]
  /\ idx' = idx + 1
  /\ UNCHANGED <<pc, call, quote, reply, callerVars, gatewayVars, netVars, envVars>>

\* _upload_blob under the item's idempotency key.
SendUpload ==
  /\ pc = "loop" /\ idx <= N /\ resumed[idx] = 0
  /\ pc' = "uploading"
  /\ upReqs' = upReqs \cup {[call |-> call, item |-> idx, key |-> UploadKey(idx)]}
  /\ UNCHANGED <<call, idx, resumed, uploads, quote, reply, callerVars, gatewayVars, pubReqs, envVars>>

\* Is a call still waiting for the answer to r?
UploadAwaited(r) == pc = "uploading" /\ r.call = call /\ reply = NoReply

AnswerUpload(r, status, uri) ==
  /\ upReqs' = upReqs \ {r}
  /\ reply' = IF UploadAwaited(r) THEN [status |-> status, uri |-> uri] ELSE reply

\* The gateway serves an upload: it replays the one it has under the key, or
\* stores the bytes. (Other bytes under a known key are refused with 409; two
\* requests of one artifact share a key only when they share the bytes.)
ServeUpload(r) ==
  /\ LET known == {u \in 1..Len(store) : store[u].key = r.key} IN
       \/ \E u \in known : AnswerUpload(r, "ok", u) /\ UNCHANGED store
       \/ /\ known = {}
          /\ store' = Append(store, [key |-> r.key, id |-> ItemId[r.item]])
          /\ AnswerUpload(r, "ok", Len(store) + 1)
  /\ UNCHANGED <<pc, call, idx, resumed, uploads, quote, callerVars, ledger, pubReqs, envVars>>

\* The gateway refuses an upload, or the request never reaches it.
RefuseUpload(r) ==
  /\ Fault
  /\ AnswerUpload(r, "error", 0)
  /\ UNCHANGED <<pc, call, idx, resumed, uploads, quote, callerVars, gatewayVars, pubReqs>>

\* The upload's answer reaches the loop.
UploadAnswered ==
  /\ pc = "uploading"
  /\ \/ /\ reply.status = "ok"
        /\ uploads' = [uploads EXCEPT ![idx] = reply.uri]
        /\ idx' = idx + 1 /\ pc' = "loop" /\ reply' = NoReply
        /\ UNCHANGED <<call, resumed, quote, callerVars>>
     \/ reply.status = "error" /\ Raise
  /\ UNCHANGED <<gatewayVars, netVars, envVars>>

\* The connection fails while the answer is awaited or on its way.
UploadFails ==
  /\ pc = "uploading"
  /\ Fault /\ Raise
  /\ UNCHANGED <<gatewayVars, netVars>>

-----------------------------------------------------------------------------
(* Refreshing the quote, signing, publishing                               *)

\* _post_publish: the record names one uri per item, in order.
PostPublish(q) ==
  /\ pc' = "publishing"
  /\ pubReqs' = pubReqs \cup {[call |-> call, uris |-> uploads, quote |-> q]}

\* encode_sealed_record, then _post_publish. Without a signer nothing is
\* awaited in between.
EncodeAndPublish(q) ==
  \/ Signed /\ pc' = "signing" /\ UNCHANGED pubReqs
  \/ ~Signed /\ PostPublish(q)

\* _refresh_quote_if_stale once every item has a receipt.
UploadsDone ==
  /\ pc = "loop" /\ idx = N + 1
  /\ \/ QuoteIsFresh(quote) /\ EncodeAndPublish(quote)
     \/ ~QuoteIsFresh(quote) /\ pc' = "refreshing" /\ UNCHANGED pubReqs
  /\ UNCHANGED <<call, idx, resumed, uploads, quote, reply, callerVars, gatewayVars, upReqs, envVars>>

\* Mutated form: the refreshed price is not held against the cap again.
RefreshAnswered_Uncapped ==
  /\ pc = "refreshing"
  /\ \E q \in PriceLocks :
       /\ quote' = q
       /\ EncodeAndPublish(q)
       /\ UNCHANGED <<call, idx, resumed, uploads, reply, callerVars>>
  /\ UNCHANGED <<gatewayVars, upReqs, envVars>>

\* The refreshed price lock arrives and is held against the cap again.
RefreshAnswered ==
  /\ pc = "refreshing"
  /\ \E q \in PriceLocks :
       \/ /\ WithinCap(q.price)
          /\ quote' = q
          /\ EncodeAndPublish(q)
          /\ UNCHANGED <<call, idx, resumed, uploads, reply, callerVars>>
       \/ ~WithinCap(q.price) /\ Raise /\ UNCHANGED pubReqs
  /\ UNCHANGED <<gatewayVars, upReqs, envVars>>

\* The caller's signer returns a signature.
SignerReturns ==
  /\ pc = "signing"
  /\ PostPublish(quote)
  /\ UNCHANGED <<call, idx, resumed, uploads, quote, reply, callerVars, gatewayVars, upReqs, envVars>>

\* The signer raises, or returns no 64-byte signature.
SignerFails ==
  /\ pc = "signing"
  /\ Fault /\ Raise
  /\ UNCHANGED <<gatewayVars, netVars>>

AnswerPublish(r, status) ==
  /\ pubReqs' = pubReqs \ {r}
  /\ reply' = IF pc = "publishing" /\ r.call = call /\ reply = NoReply
              THEN [status |-> status, uri |-> 0] ELSE reply

\* The gateway serves a publish: identical record bytes are a dedup hit (200),
\* a lapsed lock is refused, anything else is anchored at the quoted price.
ServePublish(r) ==
  /\ \/ /\ \E e \in ledger : e.uris = r.uris
        /\ AnswerPublish(r, "ok")
        /\ UNCHANGED ledger
     \/ /\ now >= r.quote.expires
        /\ AnswerPublish(r, "error")
        /\ UNCHANGED ledger
     \/ /\ \A e \in ledger : e.uris # r.uris
        /\ now < r.quote.expires
        /\ ledger' = ledger \cup {[uris |-> r.uris, price |-> r.quote.price]}
        /\ AnswerPublish(r, "ok")
  /\ UNCHANGED <<pc, call, idx, resumed, uploads, quote, callerVars, store, upReqs, envVars>>

\* The gateway refuses a publish, or the request never reaches it.
RefusePublish(r) ==
  /\ Fault
  /\ AnswerPublish(r, "error")
  /\ UNCHANGED <<pc, call, idx, resumed, uploads, quote, callerVars, gatewayVars, upReqs>>

\* Mutated form: a refused publish is tried again in place, on the same lock.
PublishAnswered_RetryInPlace ==
  /\ pc = "publishing"
  /\ \/ reply.status = "ok" /\ Leave("done") /\ UNCHANGED <<saved, pubReqs>>
     \/ /\ reply.status = "error"
        /\ PostPublish(quote) /\ reply' = NoReply
        /\ UNCHANGED <<call, idx, resumed, uploads, quote, callerVars>>
  /\ UNCHANGED <<gatewayVars, upReqs, envVars>>

\* The publish answer reaches the call: it returns, or raises.
PublishAnswered ==
  /\ pc = "publishing"
  /\ \/ reply.status = "ok" /\ Leave("done") /\ UNCHANGED saved
     \/ reply.status = "error" /\ Raise
  /\ UNCHANGED <<gatewayVars, netVars, envVars>>

\* The connection fails while the answer is awaited or on its way.
PublishFails ==
  /\ pc = "publishing"
  /\ Fault /\ Raise
  /\ UNCHANGED <<gatewayVars, netVars>>

-----------------------------------------------------------------------------
(* The environment                                                         *)

\* The process dies: what the caller has not persisted is gone.
Crash ==
  /\ pc \in Awaiting \cup {"loop"}
  /\ Fault
  /\ Leave("crashed")
  /\ UNCHANGED <<saved, gatewayVars, netVars>>

\* The task is cancelled at an await. asyncio.CancelledError is no Exception:
\* the handlers around the awaits do not see it, and no receipts come with it.
Cancel ==
  /\ Cancellable /\ pc \in Awaiting
  /\ Fault
  /\ Leave("cancelled")
  /\ UNCHANGED <<saved, gatewayVars, netVars>>

\* The caller loses a receipt it had persisted.
ForgetReceipt ==
  /\ pc \in Resting
  /\ Fault
  /\ \E i \in Index : saved[i] # 0 /\ saved' = [saved EXCEPT ![i] = 0]
  /\ UNCHANGED <<clientVars, preview, gatewayVars, netVars>>

Tick ==
  /\ now < MaxTime /\ pc # "done"
  /\ now' = now + 1
  /\ UNCHANGED <<clientVars, callerVars, gatewayVars, netVars, faults>>

-----------------------------------------------------------------------------

Serve == \/ \E r \in upReqs : ServeUpload(r)
         \/ \E r \in pubReqs : ServePublish(r)

Client ==
  \/ SubmitSealed \/ QuoteAnswered \/ TakeReceipt \/ SendUpload \/ UploadAnswered
  \/ UploadsDone \/ RefreshAnswered \/ SignerReturns \/ PublishAnswered

Failure ==
  \/ RejectReceipts \/ QuoteFails \/ UploadFails \/ SignerFails \/ PublishFails
  \/ \E r \in upReqs : RefuseUpload(r)
  \/ \E r \in pubReqs : RefusePublish(r)
  \/ Crash \/ Cancel \/ ForgetReceipt

Next == Client \/ Serve \/ Failure \/ PreviewQuote \/ Tick

Spec == Init /\ [][Next]_vars

\* The caller keeps retrying, the event loop runs whatever is ready, and the
\* gateway answers what reaches it; nothing obliges a failure to happen.
FairSpec == Spec /\ WF_vars(Client) /\ WF_vars(Serve)

-----------------------------------------------------------------------------
(* Properties                                                              *)

Uri == 0..Len(store)
Uris == [Index -> Uri]
Quote == {NoQuote} \cup [price : Prices, legible : Legible, expires : 0..(MaxTime + TTL)]

\* Every variable stays in its type; a uri always names an upload the gateway
\* has stored, and an upload is only awaited for an item of the seal.
TypeOK ==
  /\ pc \in PC /\ call \in 0..MaxCalls /\ idx \in 1..(N + 1)
  /\ resumed \in Uris /\ uploads \in Uris /\ saved \in Uris
  /\ quote \in Quote /\ preview \in Quote
  /\ reply \in [status : {"none", "ok", "error"}, uri : Uri]
  /\ store \in Seq([key : Index, id : {ItemId[i] : i \in Index}])
  /\ ledger \subseteq [uris : Uris, price : Nat]
  /\ upReqs \subseteq [call : 0..MaxCalls, item : Index, key : Index]
  /\ pubReqs \subseteq [call : 0..MaxCalls, uris : Uris, quote : Quote]
  /\ now \in 0..MaxTime /\ faults \in 0..MaxFaults
  /\ pc = "uploading" => idx \in Index

\* A prepared seal is anchored and charged at most once, however many calls,
\* crashes, lost answers and stray requests of earlier calls there were.
ChargedOnce == \A a, b \in ledger : a = b

\* Nothing is ever charged above the caller's max_usd_micros, also when the
\* lock was refreshed after slow uploads.
CapRespected == \A e \in ledger : WithinCap(e.price)

\* The i-th uri of a published record names storage that holds the i-th
\* prepared item's ciphertext, through any mix of receipts and uploads.
RecordNamesItsItems ==
  \A e \in ledger : \A i \in Index :
    e.uris[i] \in 1..Len(store) /\ store[e.uris[i]].id = ItemId[i]

\* No ciphertext is ever stored, and paid for, a second time.
StoredOnce ==
  \A u, v \in 1..Len(store) : store[u].id = store[v].id => u = v

\* A receipt the caller holds survives every failing call that follows, and
\* keeps naming the same upload, unless the caller itself loses it.
ReceiptsKept == [][ForgetReceipt \/ \A i \in Index : saved[i] # 0 => saved'[i] = saved[i]]_vars

\* An error raised by the call carries every upload that had completed in it
\* and every receipt it resumed from (sealed.py module doc).
ErrorCarriesReceipts ==
  [][pc' = "failed" => \A i \in Index : uploads[i] # 0 \/ resumed[i] # 0 => saved'[i] # 0]_vars

\* The record is presented against a live lock: publish.py's "publish only
\* against a live one".
PublishesAgainstLiveQuote ==
  [][\A r \in pubReqs' \ pubReqs : QuoteIsFresh(r.quote)]_vars

\* submit_sealed returns only when the record is anchored.
DoneMeansAnchored == pc = "done" => ledger # {}

\* A price preview whose expires_at cannot be read reads as fresh for ever, so
\* a caller that keeps passing it on presents a lapsed lock.
PreviewLapsedUnseen ==
  preview # NoQuote /\ ~preview.legible /\ now >= preview.expires

\* With finitely many failures and a cap no price exceeds, a caller that
\* keeps retrying with its receipts gets its record published; locks that
\* lapse unseen, their expires_at unreadable, are refused by the gateway and
\* quoted anew by the next call, unless it was handed one (_quote_is_fresh).
EventuallyDone == <>(pc = "done" \/ PreviewLapsedUnseen)

-----------------------------------------------------------------------------
(* The inductive invariant                                                 *)

Active == pc \notin Resting \cup {"done"}

\* Slot i of rs, when taken, names the upload made under item i's key.
Names(rs, i) == rs[i] # 0 => store[rs[i]].key = i

\* A full list of uris, each the upload made under its item's key.
NamesAll(rs) == \A i \in Index : rs[i] # 0 /\ Names(rs, i)

StoreInv == /\ \A u, v \in 1..Len(store) : store[u].key = store[v].key => u = v
            /\ \A u \in 1..Len(store) : store[u].id = ItemId[store[u].key]

ReceiptsInv == \A i \in Index : Names(resumed, i) /\ Names(uploads, i) /\ Names(saved, i)

\* The one request of the running call is for the item it waits on, and gone
\* once it is answered; requests of earlier calls carry their item's key too.
RequestsInv ==
  \A r \in upReqs :
    /\ r.key = r.item /\ r.call <= call
    /\ r.call = call /\ Active => pc = "uploading" /\ r.item = idx /\ reply = NoReply

AnswerInv == /\ pc = "uploading" /\ reply.status = "ok" => reply.uri # 0 /\ store[reply.uri].key = idx
             /\ pc = "publishing" /\ reply.status = "ok" => ledger # {}
             /\ pc \notin {"uploading", "publishing"} => reply = NoReply

LoopInv == /\ pc = "quoting" \/ ~Active => idx = 1 /\ uploads = NoUris
           /\ ~Active => resumed = NoUris
           /\ pc \in {"refreshing", "signing", "publishing"} => idx = N + 1
           /\ \A i \in Index : i < idx => uploads[i] # 0

\* What the call would raise with contains what the caller already holds.
CarriedInv == Active => \A i \in Index : saved[i] # 0 => Carried[i] = saved[i]

\* A price the gateway quoted and the cap admitted.
Agreed(price) == price \in Prices /\ WithinCap(price)

PriceInv == pc \in {"loop", "uploading", "refreshing", "signing", "publishing"} => Agreed(quote.price)

PublishInv == /\ \A r \in pubReqs : Agreed(r.quote.price) /\ NamesAll(r.uris)
              /\ \A e \in ledger : Agreed(e.price) /\ NamesAll(e.uris)
              /\ ChargedOnce

\* Every part of the argument for the theorems of SealedPublishProofs.
IInv == /\ TypeOK /\ StoreInv /\ ReceiptsInv /\ RequestsInv /\ AnswerInv /\ LoopInv
        /\ CarriedInv /\ PriceInv /\ PublishInv /\ DoneMeansAnchored

-----------------------------------------------------------------------------
\* The caller's view of a sealed publish (module AnchorOnce).
Held == {i \in Index : \E u \in 1..Len(store) : store[u].id = ItemId[i]}
Paid == IF ledger = {} THEN 0 ELSE (CHOOSE e \in ledger : TRUE).price

Abstract == INSTANCE AnchorOnce WITH held <- Held, anchored <- (ledger # {}), paid <- Paid

\* Every behaviour of the two-phase flow is one of AnchorOnce.
ImplementsAnchorOnce == Abstract!Spec
=============================================================================
