------------------------ MODULE SealedPublishProofs ------------------------
(***************************************************************************)
(* Proofs about SealedPublish, for every number of items, calls, failures  *)
(* and every price, cap and clock bound.  And about Rfc3339, the clock its *)
(* quotes expire by, for every year.                                       *)
(***************************************************************************)
EXTENDS SealedPublish, FiniteSetTheorems, TLAPS

Clock == INSTANCE Rfc3339

USE DEF Index

-----------------------------------------------------------------------------
(* Facts about the gateway's store                                         *)

Entry == [key : Index, id : {ItemId[i] : i \in Index}]

\* Appending keeps what is stored and adds one entry at the end.
LEMMA AppendFacts ==
  ASSUME NEW T, NEW s \in Seq(T), NEW e \in T
  PROVE  /\ Append(s, e) \in Seq(T)
         /\ Len(s) \in Nat
         /\ Len(Append(s, e)) = Len(s) + 1
         /\ \A u \in 1..Len(s) : Append(s, e)[u] = s[u]
         /\ Append(s, e)[Len(s) + 1] = e
  OBVIOUS

\* The store holds entries.
LEMMA StoreType ==
  ASSUME TypeOK
  PROVE  store \in Seq(Entry) /\ Len(store) \in Nat /\ \A u \in 1..Len(store) : store[u] \in Entry
<1>1. store \in Seq(Entry)
  BY DEF TypeOK, Entry
<1>2. QED
  BY <1>1

\* A list of uris stays one when the store grows.
LEMMA UrisGrow ==
  ASSUME NEW m \in Nat, NEW n \in Nat, m <= n
  PROVE  /\ 0..m \subseteq 0..n
         /\ [Index -> 0..m] \subseteq [Index -> 0..n]
  OBVIOUS

\* Serving an upload leaves the store as it is or adds one new entry.
LEMMA ServeUploadStore ==
  ASSUME ConstantsAssumption, TypeOK, NEW r \in upReqs, ServeUpload(r)
  PROVE  \/ store' = store
         \/ /\ store' = Append(store, [key |-> r.key, id |-> ItemId[r.item]])
            /\ [key |-> r.key, id |-> ItemId[r.item]] \in Entry
            /\ \A u \in 1..Len(store) : store[u].key # r.key
  BY DEF ConstantsAssumption, TypeOK, ServeUpload, Entry

-----------------------------------------------------------------------------
(* Types                                                                   *)

LEMMA InitTypeOK ==
  ASSUME ConstantsAssumption, Init
  PROVE  TypeOK
<1>1. NoUris \in Uris /\ Len(store) = 0
  BY DEF Init, NoUris, Uris, Uri
<1>2. NoQuote \in Quote /\ NoReply \in [status : {"none", "ok", "error"}, uri : Uri]
  BY <1>1 DEF NoQuote, Quote, NoReply, Uri
<1>3. QED
  BY <1>1, <1>2 DEF Init, TypeOK, ConstantsAssumption, PC, Resting

\* The receipts that are kept, carried or keyed by item are lists of uris.
LEMMA CarriedType ==
  ASSUME ConstantsAssumption, TypeOK
  PROVE  Carried \in Uris /\ ByIndex(saved) \in Uris /\ NoUris \in Uris
<1>1. Len(store) \in Nat
  BY DEF TypeOK
<1>2. Carried \in Uris
  BY DEF TypeOK, Uris, Carried
<1>3. ByIndex(saved) \in Uris
  <2>2. ASSUME NEW i \in Index
        PROVE  ByIndex(saved)[i] \in Uri
    <3>1. CASE \E j \in Index : saved[j] # 0 /\ FirstIndex(j) = i
      BY <3>1 DEF TypeOK, Uris, ByIndex
    <3>2. CASE ~ \E j \in Index : saved[j] # 0 /\ FirstIndex(j) = i
      BY <1>1, <3>2 DEF Uri, ByIndex
    <3>3. QED
      BY <3>1, <3>2
  <2>3. QED
    BY <2>2 DEF ByIndex, Uris
<1>4. NoUris \in Uris
  BY <1>1 DEF NoUris, Uris, Uri
<1>5. QED
  BY <1>2, <1>3, <1>4

\* What the gateway answers a quote request with is a quote.
LEMMA PriceLockType ==
  ASSUME ConstantsAssumption, TypeOK, NEW q \in PriceLocks
  PROVE  q \in Quote /\ q.price \in Nat /\ q.expires = now + TTL
<1>1. /\ q = [price |-> q.price, legible |-> q.legible, expires |-> q.expires]
      /\ q.price \in Prices /\ q.legible \in Legible /\ q.expires = now + TTL
  BY DEF PriceLocks
<1>2. q.price \in Nat /\ now + TTL \in 0..(MaxTime + TTL)
  BY <1>1 DEF ConstantsAssumption, TypeOK
<1>3. QED
  BY <1>1, <1>2 DEF Quote

\* While the store stays, so do the uris that name something in it.
LEMMA UrisStay ==
  ASSUME UNCHANGED store
  PROVE  Uris' = Uris /\ Uri' = Uri
  BY DEF Uris, Uri

\* The end of a call leaves the call's own variables empty.
LEMMA LeaveType ==
  ASSUME ConstantsAssumption, TypeOK, UNCHANGED store, NEW how, Leave(how), how \in PC
  PROVE  /\ pc' \in PC /\ call' \in 0..MaxCalls /\ idx' \in 1..(N + 1)
         /\ resumed' \in Uris' /\ uploads' \in Uris'
         /\ quote' \in Quote /\ preview' \in Quote
         /\ reply' \in [status : {"none", "ok", "error"}, uri : Uri']
<1>1. NoUris \in Uris /\ Len(store) \in Nat
  BY CarriedType DEF TypeOK
<1>2. NoQuote \in Quote /\ NoReply \in [status : {"none", "ok", "error"}, uri : Uri]
  BY <1>1 DEF NoQuote, Quote, NoReply, Uri
<1>3. 1 \in 1..(N + 1)
  BY DEF ConstantsAssumption
<1>4. QED
  BY <1>1, <1>2, <1>3, UrisStay DEF Leave, TypeOK

LEMMA RaiseType ==
  ASSUME ConstantsAssumption, TypeOK, Raise,
         UNCHANGED <<store, ledger, netVars>>, now' \in 0..MaxTime, faults' \in 0..MaxFaults
  PROVE  TypeOK'
<1>1. Carried \in Uris /\ "failed" \in PC
  BY CarriedType DEF PC, Resting
<1>2. saved' \in Uris'
  BY <1>1, UrisStay DEF Raise
<1>3. QED
  BY <1>1, <1>2, LeaveType, UrisStay DEF Raise, Leave, TypeOK, netVars, Quote

LEMMA FaultType ==
  ASSUME ConstantsAssumption, TypeOK, Fault
  PROVE  now' \in 0..MaxTime /\ faults' \in 0..MaxFaults
  BY DEF ConstantsAssumption, TypeOK, Fault

\* One action at a time: every step of the specification keeps the types.
LEMMA NextTypeOK ==
  ASSUME ConstantsAssumption, TypeOK, [Next]_vars
  PROVE  TypeOK'
<1> USE DEF PC, Resting, Awaiting
<1>1. ASSUME PreviewQuote PROVE TypeOK'
  BY <1>1, PriceLockType, UrisStay
  DEF PreviewQuote, TypeOK, Quote, clientVars, gatewayVars, netVars, envVars
<1>2. ASSUME RejectReceipts PROVE TypeOK'
  <2>1. now' \in 0..MaxTime /\ faults' \in 0..MaxFaults
    BY <1>2, FaultType DEF RejectReceipts, TypeOK, envVars
  <2>2. call' \in 0..MaxCalls /\ UNCHANGED store
    BY <1>2 DEF RejectReceipts, TypeOK, ConstantsAssumption, gatewayVars
  <2>3. QED
    BY <1>2, <2>1, <2>2, UrisStay
    DEF RejectReceipts, TypeOK, Quote, callerVars, gatewayVars, netVars
<1>3. ASSUME SubmitSealed PROVE TypeOK'
  <2>1. call' \in 0..MaxCalls /\ UNCHANGED store
    BY <1>3 DEF SubmitSealed, TypeOK, ConstantsAssumption, gatewayVars
  <2>2. ByIndex(saved) \in Uris /\ NoUris \in Uris
    BY CarriedType
  <2>3. QED
    BY <1>3, <2>1, <2>2, UrisStay
    DEF SubmitSealed, AdoptQuote, TypeOK, Quote, gatewayVars, netVars, envVars
<1>4. ASSUME QuoteAnswered PROVE TypeOK'
  BY <1>4, PriceLockType, CarriedType, UrisStay
  DEF QuoteAnswered, AdoptQuote, TypeOK, Quote, gatewayVars, netVars, envVars
<1>5. ASSUME TakeReceipt PROVE TypeOK'
  <2>1. idx \in Index /\ idx' \in 1..(N + 1) /\ 0 \in Uri /\ UNCHANGED store
    BY <1>5 DEF TakeReceipt, TypeOK, ConstantsAssumption, Uri, gatewayVars
  <2>2. uploads' \in Uris /\ resumed' \in Uris
    BY <1>5, <2>1 DEF TakeReceipt, TypeOK, Uris
  <2>3. QED
    BY <1>5, <2>1, <2>2, UrisStay
    DEF TakeReceipt, TypeOK, Quote, callerVars, gatewayVars, netVars, envVars
<1>6. ASSUME SendUpload PROVE TypeOK'
  <2>1. idx \in Index /\ UNCHANGED store
    BY <1>6 DEF SendUpload, TypeOK, ConstantsAssumption, gatewayVars
  <2>2. QED
    BY <1>6, <2>1, UrisStay
    DEF SendUpload, TypeOK, UploadKey, Quote, callerVars, gatewayVars, envVars
<1>7. ASSUME NEW r \in upReqs, ServeUpload(r) PROVE TypeOK'
  <2>1. /\ Len(store) \in Nat /\ Len(store') \in Nat /\ Len(store) <= Len(store')
        /\ store' \in Seq([key : Index, id : {ItemId[i] : i \in Index}])
    <3>1. store \in Seq(Entry) /\ Len(store) \in Nat
      BY DEF TypeOK, Entry
    <3>2. CASE store' = store
      BY <3>1, <3>2 DEF Entry
    <3>3. ASSUME NEW e \in Entry, store' = Append(store, e)
          PROVE  /\ Len(store) \in Nat /\ Len(store') \in Nat /\ Len(store) <= Len(store')
                 /\ store' \in Seq([key : Index, id : {ItemId[i] : i \in Index}])
      BY <3>1, <3>3, AppendFacts DEF Entry
    <3>4. QED
      BY <1>7, <3>2, <3>3, ServeUploadStore
  <2>2. Uri \subseteq Uri' /\ Uris \subseteq Uris'
    BY <2>1, UrisGrow DEF Uri, Uris
  <2>3. reply' \in [status : {"none", "ok", "error"}, uri : Uri'] /\ upReqs' \subseteq upReqs
    <3>1. CASE \E u \in 1..Len(store) : AnswerUpload(r, "ok", u)
      BY <3>1, <2>1, <2>2 DEF AnswerUpload, TypeOK, Uri
    <3>2. CASE store' = Append(store, [key |-> r.key, id |-> ItemId[r.item]]) /\ AnswerUpload(r, "ok", Len(store) + 1)
      <4>1. Len(store') = Len(store) + 1
        BY <3>2, AppendFacts, ServeUploadStore, <1>7 DEF TypeOK, Entry
      <4>2. Len(store) + 1 \in Uri'
        BY <4>1, <2>1 DEF Uri
      <4>3. QED
        BY <3>2, <4>2, <2>2 DEF AnswerUpload, TypeOK
    <3>3. QED
      BY <1>7, <3>1, <3>2 DEF ServeUpload
  <2>4. QED
    BY <1>7, <2>1, <2>2, <2>3 DEF ServeUpload, TypeOK, Quote, callerVars, envVars
<1>8. ASSUME NEW r \in upReqs, RefuseUpload(r) PROVE TypeOK'
  <2>1. UNCHANGED store /\ 0 \in Uri
    BY <1>8 DEF RefuseUpload, gatewayVars, TypeOK, Uri
  <2>2. now' \in 0..MaxTime /\ faults' \in 0..MaxFaults
    BY <1>8, FaultType DEF RefuseUpload
  <2>3. QED
    BY <1>8, <2>1, <2>2, UrisStay
    DEF RefuseUpload, AnswerUpload, TypeOK, Quote, callerVars, gatewayVars
<1>9. ASSUME UploadAnswered PROVE TypeOK'
  <2>1. CASE reply.status = "ok"
    <3>1. UNCHANGED store /\ reply.uri \in Uri /\ NoReply \in [status : {"none", "ok", "error"}, uri : Uri]
      BY <1>9 DEF UploadAnswered, gatewayVars, TypeOK, NoReply, Uri
    <3>2. uploads' \in Uris
      BY <1>9, <2>1, <3>1 DEF UploadAnswered, TypeOK, Uris
    <3>3. idx' \in 1..(N + 1) /\ pc' \in PC /\ (pc' = "uploading" => idx' \in Index)
      BY <1>9, <2>1, ConstantsAssumption DEF UploadAnswered, TypeOK, Index, PC, Awaiting, Resting
    <3>4. QED
      BY <1>9, <2>1, <3>1, <3>2, <3>3, UrisStay
      DEF UploadAnswered, TypeOK, Quote, callerVars, gatewayVars, netVars, envVars
  <2>2. CASE reply.status = "error"
    BY <1>9, <2>2, RaiseType DEF UploadAnswered, gatewayVars, envVars, TypeOK
  <2>3. QED
    BY <1>9, <2>1, <2>2 DEF UploadAnswered
<1>10. ASSUME QuoteFails \/ UploadFails \/ SignerFails \/ PublishFails PROVE TypeOK'
  BY <1>10, RaiseType, FaultType DEF QuoteFails, UploadFails, SignerFails, PublishFails, gatewayVars
<1>11. ASSUME UploadsDone PROVE TypeOK'
  BY <1>11, UrisStay
  DEF UploadsDone, EncodeAndPublish, PostPublish, TypeOK, Quote, callerVars, gatewayVars, envVars
<1>12. ASSUME RefreshAnswered PROVE TypeOK'
  <2>1. ASSUME NEW q \in PriceLocks, quote' = q, EncodeAndPublish(q),
               UNCHANGED <<call, idx, resumed, uploads, reply, callerVars>>
        PROVE  TypeOK'
    <3>1. q \in Quote /\ UNCHANGED <<store, ledger, upReqs, envVars>>
      BY <1>12, PriceLockType DEF RefreshAnswered, gatewayVars
    <3>2. pc' \in {"signing", "publishing"}
      BY <2>1 DEF EncodeAndPublish, PostPublish
    <3>3. pubReqs' \subseteq [call : 0..MaxCalls, uris : Uris, quote : Quote]
      BY <2>1, <3>1 DEF EncodeAndPublish, PostPublish, TypeOK
    <3>4. QED
      BY <2>1, <3>1, <3>2, <3>3, UrisStay DEF TypeOK, Quote, callerVars, envVars
  <2>2. CASE Raise /\ UNCHANGED pubReqs
    BY <1>12, <2>2, RaiseType DEF RefreshAnswered, gatewayVars, netVars, envVars, TypeOK
  <2>3. QED
    BY <1>12, <2>1, <2>2 DEF RefreshAnswered
<1>13. ASSUME SignerReturns PROVE TypeOK'
  BY <1>13, UrisStay
  DEF SignerReturns, PostPublish, TypeOK, Quote, callerVars, gatewayVars, envVars
<1>14. ASSUME NEW r \in pubReqs, ServePublish(r) PROVE TypeOK'
  <2>1. UNCHANGED store /\ 0 \in Uri
    BY <1>14 DEF ServePublish, TypeOK, Uri
  <2>2. r.uris \in Uris /\ r.quote.price \in Nat
    <3>1. r.uris \in Uris /\ r.quote \in Quote
      BY DEF TypeOK
    <3>2. QED
      <4>1. CASE r.quote = NoQuote
        BY <3>1, <4>1 DEF NoQuote
      <4>2. CASE r.quote \in [price : Prices, legible : Legible, expires : 0..(MaxTime + TTL)]
        BY <3>1, <4>2 DEF ConstantsAssumption
      <4>3. QED
        BY <3>1, <4>1, <4>2 DEF Quote
  <2>3. ledger' \subseteq [uris : Uris, price : Nat] /\ pubReqs' \subseteq pubReqs
    BY <1>14, <2>2 DEF ServePublish, AnswerPublish, TypeOK
  <2>4. reply' \in [status : {"none", "ok", "error"}, uri : Uri]
    BY <1>14, <2>1 DEF ServePublish, AnswerPublish, TypeOK
  <2>5. QED
    BY <1>14, <2>1, <2>3, <2>4, UrisStay DEF ServePublish, TypeOK, Quote, callerVars, envVars
<1>15. ASSUME NEW r \in pubReqs, RefusePublish(r) PROVE TypeOK'
  <2>1. UNCHANGED store /\ 0 \in Uri
    BY <1>15 DEF RefusePublish, gatewayVars, TypeOK, Uri
  <2>2. now' \in 0..MaxTime /\ faults' \in 0..MaxFaults
    BY <1>15, FaultType DEF RefusePublish
  <2>3. QED
    BY <1>15, <2>1, <2>2, UrisStay
    DEF RefusePublish, AnswerPublish, TypeOK, Quote, callerVars, gatewayVars
<1>16. ASSUME PublishAnswered PROVE TypeOK'
  <2>1. CASE Leave("done") /\ UNCHANGED saved
    BY <1>16, <2>1, LeaveType, UrisStay
    DEF PublishAnswered, Leave, TypeOK, Quote, gatewayVars, netVars, envVars
  <2>2. CASE Raise
    BY <1>16, <2>2, RaiseType DEF PublishAnswered, gatewayVars, envVars, TypeOK
  <2>3. QED
    BY <1>16, <2>1, <2>2 DEF PublishAnswered
<1>17. ASSUME Crash \/ Cancel PROVE TypeOK'
  <2>1. PICK how \in {"crashed", "cancelled"} : Leave(how)
    BY <1>17 DEF Crash, Cancel
  <2>2. Fault /\ UNCHANGED <<saved, gatewayVars, netVars>>
    BY <1>17 DEF Crash, Cancel
  <2>3. QED
    BY <2>1, <2>2, LeaveType, FaultType, UrisStay
    DEF Leave, TypeOK, Quote, gatewayVars, netVars
<1>21. ASSUME ForgetReceipt PROVE TypeOK'
  <2>1. PICK i \in Index : saved' = [saved EXCEPT ![i] = 0]
    BY <1>21 DEF ForgetReceipt
  <2>2. saved' \in Uris /\ UNCHANGED store
    BY <1>21, <2>1, StoreType DEF ForgetReceipt, gatewayVars, TypeOK, Uris, Uri
  <2>3. QED
    BY <1>21, <2>2, FaultType, UrisStay
    DEF ForgetReceipt, TypeOK, Quote, clientVars, gatewayVars, netVars
<1>18. ASSUME Tick PROVE TypeOK'
  BY <1>18, UrisStay
  DEF Tick, TypeOK, Quote, ConstantsAssumption, clientVars, callerVars, gatewayVars, netVars
<1>19. ASSUME UNCHANGED vars PROVE TypeOK'
  BY <1>19, UrisStay
  DEF vars, TypeOK, Quote, clientVars, callerVars, gatewayVars, netVars, envVars
<1>20. QED
  BY <1>1, <1>2, <1>3, <1>4, <1>5, <1>6, <1>7, <1>8, <1>9, <1>10, <1>11, <1>12, <1>13, <1>14,
     <1>15, <1>16, <1>17, <1>18, <1>19, <1>21
  DEF Next, Client, Serve, Failure

\* Every variable keeps its type, and every uri keeps naming something stored.
THEOREM TypeCorrect == Spec => []TypeOK
<1>1. Init => TypeOK
  BY ConstantsAssumption, InitTypeOK
<1>2. TypeOK /\ [Next]_vars => TypeOK'
  BY ConstantsAssumption, NextTypeOK
<1>3. QED
  BY <1>1, <1>2, PTL DEF Spec

-----------------------------------------------------------------------------
(* Receipts and the store under a step                                     *)

\* With distinct ciphertexts a receipt resolves to the slot it was made for.
LEMMA FirstIndexDistinct ==
  ASSUME ItemsDistinct, NEW i \in Index
  PROVE  FirstIndex(i) = i
<1> DEFINE P(j) == ItemId[j] = ItemId[i] /\ \A k \in Index : ItemId[k] = ItemId[i] => j <= k
<1>1. P(i)
  BY DEF ItemsDistinct
<1>2. \A j \in Index : P(j) => j = i
  BY DEF ItemsDistinct
<1>3. (CHOOSE j \in Index : P(j)) = i
  BY <1>1, <1>2
<1>4. QED
  BY <1>3 DEF FirstIndex

LEMMA ByIndexDistinct ==
  ASSUME ItemsDistinct, NEW rs \in Uris
  PROVE  ByIndex(rs) = rs
<1>1. ASSUME NEW i \in Index PROVE ByIndex(rs)[i] = rs[i]
  <2>1. CASE rs[i] # 0
    <3>1. \A j \in Index : rs[j] # 0 /\ FirstIndex(j) = i => j = i
      BY FirstIndexDistinct
    <3>2. rs[i] # 0 /\ FirstIndex(i) = i
      BY <2>1, FirstIndexDistinct
    <3>3. (CHOOSE j \in Index : rs[j] # 0 /\ FirstIndex(j) = i) = i
      BY <3>1, <3>2
    <3>4. QED
      BY <3>2, <3>3 DEF ByIndex
  <2>2. CASE rs[i] = 0
    <3>1. ~ \E j \in Index : rs[j] # 0 /\ FirstIndex(j) = i
      BY <2>2, FirstIndexDistinct
    <3>2. QED
      BY <2>2, <3>1 DEF ByIndex
  <2>3. QED
    BY <2>1, <2>2
<1>2. QED
  BY <1>1 DEF ByIndex, Uris

\* What is stored stays stored, under its uri.
LEMMA StoreGrows ==
  ASSUME ConstantsAssumption, TypeOK, [Next]_vars
  PROVE  /\ Len(store) \in Nat /\ Len(store') \in Nat /\ Len(store) <= Len(store')
         /\ \A u \in 1..Len(store) : store'[u] = store[u]
         /\ \/ store' = store
            \/ \E r \in upReqs : ServeUpload(r)
<1>1. Len(store) \in Nat /\ store \in Seq(Entry)
  BY DEF TypeOK, Entry
<1>2. CASE store' = store
  BY <1>1, <1>2
<1>3. CASE \E r \in upReqs : ServeUpload(r)
  <2>1. PICK r \in upReqs : ServeUpload(r)
    BY <1>3
  <2>2. CASE store' = store
    BY <1>1, <1>3, <2>2
  <2>3. ASSUME NEW e \in Entry, store' = Append(store, e) PROVE Len(store') \in Nat /\ Len(store) <= Len(store') /\ \A u \in 1..Len(store) : store'[u] = store[u]
    BY <1>1, <2>3, AppendFacts
  <2>4. QED
    BY <1>1, <1>3, <2>1, <2>2, <2>3, ServeUploadStore
<1>4. QED
  <2>1. store' = store \/ \E r \in upReqs : ServeUpload(r)
    BY DEF vars, gatewayVars, Next, Client, Serve, Failure, Tick, PreviewQuote, SubmitSealed,
       QuoteAnswered, TakeReceipt, SendUpload, UploadAnswered, UploadsDone, RefreshAnswered,
       SignerReturns, PublishAnswered, RejectReceipts, QuoteFails, UploadFails, SignerFails,
       PublishFails, RefuseUpload, RefusePublish, ServePublish, Crash, Cancel, ForgetReceipt
  <2>2. QED
    BY <1>2, <1>3, <2>1

\* A uri that names item i's upload keeps naming it.
LEMMA NamesKept ==
  ASSUME ConstantsAssumption, TypeOK, [Next]_vars, NEW rs \in Uris, NEW i \in Index
  PROVE  rs[i] # 0 => store'[rs[i]] = store[rs[i]]
<1>1. Len(store) \in Nat /\ rs[i] \in 0..Len(store)
  BY StoreGrows DEF Uris, Uri
<1>2. rs[i] # 0 => rs[i] \in 1..Len(store)
  BY <1>1
<1>3. QED
  BY <1>2, StoreGrows

-----------------------------------------------------------------------------
(* The inductive invariant                                                 *)

LEMMA StoreInvStep ==
  ASSUME ConstantsAssumption, IInv, [Next]_vars
  PROVE  StoreInv'
<1>1. CASE store' = store
  BY <1>1 DEF IInv, StoreInv
<1>2. ASSUME NEW r \in upReqs, ServeUpload(r), store' # store
      PROVE  StoreInv'
  <2> DEFINE e == [key |-> r.key, id |-> ItemId[r.item]]
  <2>1. store' = Append(store, e) /\ e \in Entry /\ \A u \in 1..Len(store) : store[u].key # r.key
    BY <1>2, ServeUploadStore DEF IInv
  <2>2. /\ Len(store) \in Nat /\ Len(store') = Len(store) + 1
        /\ \A u \in 1..Len(store) : store'[u] = store[u]
        /\ store'[Len(store) + 1] = e
    <3>1. store \in Seq(Entry)
      BY DEF IInv, TypeOK, Entry
    <3>2. QED
      BY <2>1, <3>1, AppendFacts
  <2>3. e.key = r.key /\ e.id = ItemId[e.key]
    BY DEF IInv, RequestsInv
  <2>4. ASSUME NEW u \in 1..Len(store'), NEW v \in 1..Len(store'), store'[u].key = store'[v].key
        PROVE  u = v
    <3>1. u \in 1..Len(store) \/ u = Len(store) + 1
      BY <2>2
    <3>2. v \in 1..Len(store) \/ v = Len(store) + 1
      BY <2>2
    <3>3. QED
      BY <2>1, <2>2, <2>3, <2>4, <3>1, <3>2 DEF IInv, StoreInv
  <2>5. ASSUME NEW u \in 1..Len(store') PROVE store'[u].id = ItemId[store'[u].key]
    <3>1. u \in 1..Len(store) \/ u = Len(store) + 1
      BY <2>2
    <3>2. QED
      BY <2>2, <2>3, <3>1 DEF IInv, StoreInv
  <2>6. QED
    BY <2>4, <2>5 DEF StoreInv
<1>3. QED
  BY <1>1, <1>2, StoreGrows DEF IInv

\* What a call raises with, resumes from or starts with names its items'
\* uploads when the receipts it was computed from do.
LEMMA CarriedNames ==
  ASSUME ConstantsAssumption, ItemsDistinct, IInv, NEW i \in Index
  PROVE  Names(Carried, i) /\ Names(ByIndex(saved), i) /\ Names(NoUris, i)
<1>1. ByIndex(saved) = saved
  BY ByIndexDistinct DEF IInv, TypeOK
<1>2. Names(resumed, i) /\ Names(uploads, i) /\ Names(saved, i)
  BY DEF IInv, ReceiptsInv
<1>3. Carried[i] = uploads[i] \/ Carried[i] = resumed[i]
  BY DEF Carried
<1>4. QED
  BY <1>1, <1>2, <1>3 DEF Names, NoUris

\* Where the receipts after a step come from.
LEMMA ReceiptMoves ==
  ASSUME ConstantsAssumption, TypeOK, [Next]_vars
  PROVE  /\ \/ saved' \in {saved, Carried, ByIndex(saved), resumed}
            \/ \E i \in Index : saved' = [saved EXCEPT ![i] = 0]
         /\ \/ resumed' \in {resumed, NoUris, ByIndex(saved)}
            \/ idx \in Index /\ resumed' = [resumed EXCEPT ![idx] = 0]
         /\ \/ uploads' \in {uploads, NoUris}
            \/ idx \in Index /\ uploads' = [uploads EXCEPT ![idx] = resumed[idx]]
            \/ /\ pc = "uploading" /\ reply.status = "ok" /\ idx \in Index
               /\ uploads' = [uploads EXCEPT ![idx] = reply.uri]
<1>1. CASE Client
  <2>1. CASE TakeReceipt
    BY <2>1 DEF TakeReceipt, callerVars, TypeOK, ConstantsAssumption
  <2>2. CASE UploadAnswered
    BY <2>2 DEF UploadAnswered, Raise, Leave, callerVars, TypeOK
  <2>3. CASE SubmitSealed \/ QuoteAnswered
    BY <2>3 DEF SubmitSealed, QuoteAnswered, AdoptQuote
  <2>4. CASE SendUpload \/ UploadsDone \/ SignerReturns
    BY <2>4 DEF SendUpload, UploadsDone, SignerReturns, callerVars
  <2>5. CASE RefreshAnswered \/ PublishAnswered
    BY <2>5 DEF RefreshAnswered, PublishAnswered, Raise, Leave, callerVars
  <2>6. QED
    BY <1>1, <2>1, <2>2, <2>3, <2>4, <2>5 DEF Client
<1>2. CASE Serve
  BY <1>2 DEF Serve, ServeUpload, ServePublish, callerVars
<1>3. CASE Failure
  BY <1>3 DEF Failure, RejectReceipts, QuoteFails, UploadFails, SignerFails, PublishFails,
     RefuseUpload, RefusePublish, Crash, Cancel, ForgetReceipt, Raise, Leave, callerVars, clientVars
<1>4. CASE PreviewQuote \/ Tick \/ UNCHANGED vars
  BY <1>4 DEF PreviewQuote, Tick, vars, clientVars, callerVars
<1>5. QED
  BY <1>1, <1>2, <1>3, <1>4 DEF Next

LEMMA ReceiptsInvStep ==
  ASSUME ConstantsAssumption, ItemsDistinct, IInv, [Next]_vars
  PROVE  ReceiptsInv'
<1> SUFFICES ASSUME NEW i \in Index
             PROVE  /\ resumed'[i] # 0 => store'[resumed'[i]].key = i
                    /\ uploads'[i] # 0 => store'[uploads'[i]].key = i
                    /\ saved'[i] # 0 => store'[saved'[i]].key = i
  BY DEF ReceiptsInv, Names
<1> DEFINE Good(rs) == rs[i] # 0 => store'[rs[i]].key = i
<1>1. \A rs \in Uris : Names(rs, i) => Good(rs)
  BY NamesKept DEF IInv, Names
<1>2. Good(resumed) /\ Good(uploads) /\ Good(saved) /\ Good(Carried) /\ Good(ByIndex(saved)) /\ Good(NoUris)
  BY <1>1, CarriedNames, CarriedType DEF IInv, TypeOK, ReceiptsInv
<1>3. pc = "uploading" /\ reply.status = "ok" /\ idx = i => reply.uri # 0 /\ store'[reply.uri].key = i
  <2>1. reply.uri \in 0..Len(store) /\ Len(store) \in Nat
    BY StoreGrows DEF IInv, TypeOK, Uri
  <2>2. reply.uri # 0 => store'[reply.uri] = store[reply.uri]
    BY <2>1, StoreGrows DEF IInv
  <2>3. QED
    BY <2>2 DEF IInv, AnswerInv
<1>4. Good(saved')
  BY <1>2, ReceiptMoves DEF IInv, TypeOK, Uris
<1>5. Good(resumed')
  BY <1>2, ReceiptMoves DEF IInv, TypeOK, Uris
<1>6. Good(uploads')
  <2>1. uploads \in [Index -> Uri]
    BY DEF IInv, TypeOK, Uris
  <2>2. CASE uploads' \in {uploads, NoUris}
    BY <1>2, <2>2
  <2>3. CASE idx \in Index /\ uploads' = [uploads EXCEPT ![idx] = resumed[idx]]
    BY <1>2, <2>1, <2>3
  <2>4. CASE /\ pc = "uploading" /\ reply.status = "ok" /\ idx \in Index
             /\ uploads' = [uploads EXCEPT ![idx] = reply.uri]
    <3>1. CASE idx = i
      BY <1>3, <2>1, <2>4, <3>1
    <3>2. CASE idx # i
      BY <1>2, <2>1, <2>4, <3>2
    <3>3. QED
      BY <3>1, <3>2
  <2>5. QED
    BY <2>2, <2>3, <2>4, ReceiptMoves DEF IInv
<1>7. QED
  BY <1>4, <1>5, <1>6

LEMMA RequestsInvStep ==
  ASSUME ConstantsAssumption, IInv, [Next]_vars
  PROVE  RequestsInv'
<1> USE DEF RequestsInv, Active, Resting, IInv
<1> SUFFICES ASSUME NEW r \in upReqs'
             PROVE  /\ r.key = r.item /\ r.call <= call'
                    /\ r.call = call' /\ Active' => pc' = "uploading" /\ r.item = idx' /\ reply' = NoReply
  OBVIOUS
<1> DEFINE Kept == /\ r.key = r.item /\ r.call <= call'
                   /\ r.call = call' /\ Active' => pc' = "uploading" /\ r.item = idx' /\ reply' = NoReply
<1>1. CASE SubmitSealed \/ RejectReceipts
  <2>1. r \in upReqs /\ call' = call + 1
    BY <1>1 DEF SubmitSealed, RejectReceipts, netVars
  <2>2. r.call <= call /\ r.call \in Nat /\ call \in Nat
    BY <2>1 DEF TypeOK, ConstantsAssumption
  <2>3. QED
    BY <2>1, <2>2
<1>2. CASE SendUpload
  <2>1. /\ call' = call /\ idx' = idx /\ pc = "loop" /\ pc' = "uploading" /\ call \in Nat
        /\ reply' = NoReply
    BY <1>2 DEF SendUpload, TypeOK, ConstantsAssumption, AnswerInv
  <2>2. CASE r \in upReqs
    BY <1>2, <2>1, <2>2 DEF SendUpload
  <2>3. CASE r = [call |-> call, item |-> idx, key |-> UploadKey(idx)]
    BY <2>1, <2>3 DEF UploadKey
  <2>4. QED
    BY <1>2, <2>2, <2>3 DEF SendUpload
<1>3. ASSUME NEW q \in upReqs, ServeUpload(q) \/ RefuseUpload(q)
      PROVE  Kept
  <2>1. UNCHANGED <<pc, call, idx>> /\ r \in upReqs \ {q} /\ (~UploadAwaited(q) => reply' = reply)
    BY <1>3 DEF ServeUpload, RefuseUpload, AnswerUpload
  <2>2. q \in [call : 0..MaxCalls, item : Index, key : Index] /\ r \in [call : 0..MaxCalls, item : Index, key : Index]
    BY <2>1 DEF TypeOK
  <2>3. ~(r.call = call /\ q.call = call /\ Active)
    <3>1. SUFFICES ASSUME r.call = call /\ q.call = call /\ Active PROVE FALSE
      OBVIOUS
    <3>2. r.item = q.item /\ r.key = q.key /\ r.call = q.call
      BY <2>1, <3>1
    <3>3. QED
      BY <2>1, <2>2, <3>2
  <2>4. CASE r.call = call /\ Active
    BY <2>1, <2>3, <2>4 DEF UploadAwaited
  <2>5. CASE ~(r.call = call /\ Active)
    BY <2>1, <2>5
  <2>6. QED
    BY <2>4, <2>5
<1>4. CASE QuoteAnswered \/ TakeReceipt \/ UploadsDone \/ SignerReturns \/ RefreshAnswered
  <2>1. /\ UNCHANGED <<call, upReqs>>
        /\ pc \in {"quoting", "loop", "signing", "refreshing"}
    BY <1>4 DEF QuoteAnswered, TakeReceipt, UploadsDone, SignerReturns, RefreshAnswered, Raise,
       Leave, netVars
  <2>2. r \in upReqs /\ r.call # call
    BY <2>1
  <2>3. QED
    BY <2>1, <2>2
<1>5. CASE UploadAnswered
  <2>1. UNCHANGED <<call, upReqs>> /\ pc' \in {"loop", "failed"} /\ reply # NoReply
    BY <1>5 DEF UploadAnswered, Raise, Leave, netVars, NoReply
  <2>2. r.call # call
    BY <1>5, <2>1 DEF UploadAnswered
  <2>3. QED
    BY <2>1, <2>2
<1>6. ASSUME NEW how \in {"failed", "done", "crashed", "cancelled"}, Leave(how), UNCHANGED upReqs
      PROVE  Kept
  BY <1>6 DEF Leave
<1>7. CASE QuoteFails \/ UploadFails \/ SignerFails \/ PublishFails \/ PublishAnswered \/ Crash \/ Cancel
  BY <1>6, <1>7 DEF QuoteFails, UploadFails, SignerFails, PublishFails, PublishAnswered, Crash,
     Cancel, Raise, netVars
<1>8. ASSUME NEW q \in pubReqs, ServePublish(q) \/ RefusePublish(q)
      PROVE  Kept
  <2>1. UNCHANGED <<pc, call, idx, upReqs>> /\ (pc # "publishing" => reply' = reply)
    BY <1>8 DEF ServePublish, RefusePublish, AnswerPublish
  <2>2. QED
    BY <2>1
<1>9. CASE PreviewQuote \/ Tick \/ ForgetReceipt \/ UNCHANGED vars
  BY <1>9 DEF PreviewQuote, Tick, ForgetReceipt, vars, clientVars, netVars
<1>10. QED
  BY <1>1, <1>2, <1>3, <1>4, <1>5, <1>7, <1>8, <1>9 DEF Next, Client, Serve, Failure

LEMMA AnswerInvStep ==
  ASSUME ConstantsAssumption, IInv, [Next]_vars
  PROVE  AnswerInv'
<1> USE DEF AnswerInv, IInv
<1>1. ASSUME NEW r \in upReqs, ServeUpload(r) PROVE AnswerInv'
  <2>1. UNCHANGED <<pc, idx, ledger>>
    BY <1>1 DEF ServeUpload
  <2>2. CASE ~UploadAwaited(r)
    <3>1. reply' = reply
      BY <1>1, <2>2 DEF ServeUpload, AnswerUpload
    <3>2. pc = "uploading" /\ reply.status = "ok" => reply.uri \in 1..Len(store)
      BY StoreGrows DEF TypeOK, Uri
    <3>3. QED
      BY <2>1, <3>1, <3>2, StoreGrows
  <2>3. CASE UploadAwaited(r)
    <3>1. pc = "uploading" /\ r.item = idx /\ r.key = idx
      BY <2>3 DEF UploadAwaited, RequestsInv, Active, Resting
    <3>2. reply'.uri # 0 /\ store'[reply'.uri].key = r.key
      <4>1. ASSUME NEW u \in 1..Len(store), store[u].key = r.key, AnswerUpload(r, "ok", u), UNCHANGED store
            PROVE  reply'.uri # 0 /\ store'[reply'.uri].key = r.key
        BY <2>3, <4>1 DEF AnswerUpload
      <4>2. ASSUME store' = Append(store, [key |-> r.key, id |-> ItemId[r.item]]),
                   AnswerUpload(r, "ok", Len(store) + 1)
            PROVE  reply'.uri # 0 /\ store'[reply'.uri].key = r.key
        <5>1. store \in Seq(Entry) /\ [key |-> r.key, id |-> ItemId[r.item]] \in Entry
          BY DEF TypeOK, Entry
        <5>2. reply'.uri = Len(store) + 1
          BY <2>3, <4>2 DEF AnswerUpload
        <5>3. QED
          BY <4>2, <5>1, <5>2, AppendFacts
      <4>3. QED
        BY <1>1, <4>1, <4>2 DEF ServeUpload
    <3>3. QED
      BY <2>1, <3>1, <3>2
  <2>4. QED
    BY <2>2, <2>3
<1>2. CASE \E r \in upReqs : RefuseUpload(r)
  BY <1>2 DEF RefuseUpload, AnswerUpload, UploadAwaited, gatewayVars
<1>3. ASSUME NEW r \in pubReqs, ServePublish(r) \/ RefusePublish(r) PROVE AnswerInv'
  <2>1. UNCHANGED <<pc, idx, store>> /\ ledger \subseteq ledger'
    BY <1>3 DEF ServePublish, RefusePublish, gatewayVars
  <2>2. CASE reply' = reply
    BY <2>1, <2>2
  <2>3. CASE reply' # reply
    <3>1. pc = "publishing"
      BY <1>3, <2>3 DEF ServePublish, RefusePublish, AnswerPublish
    <3>2. reply'.status = "ok" => ledger' # {}
      <4>1. ASSUME AnswerPublish(r, "error") PROVE reply'.status # "ok"
        BY <2>3, <4>1 DEF AnswerPublish
      <4>2. ASSUME NEW e \in ledger PROVE ledger' # {}
        BY <2>1
      <4>3. QED
        BY <1>3, <4>1, <4>2 DEF ServePublish, RefusePublish
    <3>3. QED
      BY <2>1, <3>1, <3>2
  <2>4. QED
    BY <2>2, <2>3
<1>4. CASE Client
  BY <1>4 DEF Client, SubmitSealed, AdoptQuote, QuoteAnswered, TakeReceipt, SendUpload, UploadAnswered,
     UploadsDone, RefreshAnswered, EncodeAndPublish, PostPublish, SignerReturns, PublishAnswered,
     Raise, Leave, NoReply, Resting
<1>5. CASE \/ RejectReceipts \/ QuoteFails \/ UploadFails \/ SignerFails \/ PublishFails
           \/ Crash \/ Cancel
  BY <1>5 DEF RejectReceipts, QuoteFails, UploadFails, SignerFails, PublishFails, Crash, Cancel,
     Raise, Leave, Resting
<1>6. CASE PreviewQuote \/ Tick \/ ForgetReceipt \/ UNCHANGED vars
  BY <1>6 DEF PreviewQuote, Tick, ForgetReceipt, vars, clientVars, gatewayVars
<1>7. QED
  BY <1>1, <1>2, <1>3, <1>4, <1>5, <1>6 DEF Next, Serve, Failure

LEMMA LoopInvStep ==
  ASSUME ConstantsAssumption, IInv, [Next]_vars
  PROVE  LoopInv'
<1> USE DEF LoopInv, IInv, Active, Resting
<1>1. CASE TakeReceipt
  <2>1. /\ idx \in Index /\ idx' = idx + 1 /\ pc = "loop" /\ pc' = "loop"
        /\ uploads' = [uploads EXCEPT ![idx] = resumed[idx]] /\ resumed[idx] # 0
    BY <1>1 DEF TakeReceipt, TypeOK, ConstantsAssumption
  <2>2. uploads \in [Index -> Uri] /\ idx \in Nat
    BY <2>1 DEF TypeOK, Uris
  <2>3. \A i \in Index : i < idx' => i = idx \/ i < idx
    BY <2>1
  <2>4. QED
    BY <2>1, <2>2, <2>3
<1>2. CASE UploadAnswered /\ reply.status = "ok"
  <2>1. /\ idx \in Index /\ idx' = idx + 1 /\ pc' = "loop"
        /\ uploads' = [uploads EXCEPT ![idx] = reply.uri] /\ reply.uri # 0
    BY <1>2 DEF UploadAnswered, TypeOK, AnswerInv
  <2>2. uploads \in [Index -> Uri] /\ idx \in Nat
    BY <2>1 DEF TypeOK, Uris
  <2>3. \A i \in Index : i < idx' => i = idx \/ i < idx
    BY <2>1
  <2>4. QED
    BY <2>1, <2>2, <2>3
<1>3. ASSUME NEW how \in {"failed", "done", "crashed", "cancelled"}, Leave(how) PROVE LoopInv'
  BY <1>3 DEF Leave
<1>4. CASE \/ QuoteFails \/ UploadFails \/ SignerFails \/ PublishFails \/ PublishAnswered
           \/ Crash \/ Cancel \/ (UploadAnswered /\ reply.status # "ok")
  BY <1>3, <1>4 DEF QuoteFails, UploadFails, SignerFails, PublishFails, PublishAnswered, Crash,
     Cancel, UploadAnswered, Raise
<1>5. CASE SubmitSealed \/ RejectReceipts \/ QuoteAnswered
  BY <1>5 DEF SubmitSealed, RejectReceipts, QuoteAnswered, AdoptQuote
<1>6. CASE SendUpload \/ UploadsDone \/ SignerReturns
  BY <1>6 DEF SendUpload, UploadsDone, SignerReturns, EncodeAndPublish, PostPublish
<1>7. CASE RefreshAnswered
  BY <1>3, <1>7 DEF RefreshAnswered, EncodeAndPublish, PostPublish, Raise
<1>8. CASE Serve \/ (\E r \in upReqs : RefuseUpload(r)) \/ (\E r \in pubReqs : RefusePublish(r))
  BY <1>8 DEF Serve, ServeUpload, ServePublish, RefuseUpload, RefusePublish
<1>9. CASE PreviewQuote \/ Tick \/ ForgetReceipt \/ UNCHANGED vars
  BY <1>9 DEF PreviewQuote, Tick, ForgetReceipt, vars, clientVars
<1>10. QED
  BY <1>1, <1>2, <1>4, <1>5, <1>6, <1>7, <1>8, <1>9 DEF Next, Client, Failure

\* One key, one upload: two uris of item i's upload are the same uri.
LEMMA SameUri ==
  ASSUME IInv, NEW i \in Index, NEW u \in Uri, NEW v \in Uri,
         u # 0, v # 0, store[u].key = i, store[v].key = i
  PROVE  u = v
<1>1. Len(store) \in Nat
  BY DEF IInv, TypeOK
<1>2. u \in 1..Len(store) /\ v \in 1..Len(store)
  BY <1>1 DEF Uri
<1>3. QED
  BY <1>2 DEF IInv, StoreInv

LEMMA CarriedInvStep ==
  ASSUME ConstantsAssumption, ItemsDistinct, IInv, [Next]_vars
  PROVE  CarriedInv'
<1> USE DEF CarriedInv, IInv, Active, Resting
<1>1. CASE SubmitSealed
  <2>1. ByIndex(saved) = saved /\ uploads = NoUris /\ uploads' = uploads
    BY <1>1, ByIndexDistinct DEF TypeOK, LoopInv, SubmitSealed, AdoptQuote
  <2>2. Active' => saved' = saved /\ resumed' = saved
    BY <1>1, <2>1 DEF SubmitSealed, AdoptQuote
  <2>3. QED
    BY <2>1, <2>2 DEF Carried, NoUris
<1>2. CASE QuoteAnswered
  BY <1>2 DEF QuoteAnswered, AdoptQuote, Carried
<1>3. CASE TakeReceipt
  <2>1. /\ idx \in Index /\ saved' = saved /\ pc = "loop" /\ resumed[idx] # 0
        /\ uploads' = [uploads EXCEPT ![idx] = resumed[idx]]
        /\ resumed' = [resumed EXCEPT ![idx] = 0]
    BY <1>3 DEF TakeReceipt, TypeOK, ConstantsAssumption, callerVars
  <2>2. uploads \in [Index -> Uri] /\ resumed \in [Index -> Uri]
    BY DEF TypeOK, Uris
  <2>3. uploads[idx] = 0 \/ uploads[idx] = resumed[idx]
    BY <2>1, <2>2, SameUri DEF ReceiptsInv, Names
  <2>4. QED
    BY <2>1, <2>2, <2>3 DEF Carried
<1>4. CASE UploadAnswered /\ reply.status = "ok"
  <2>1. /\ idx \in Index /\ saved' = saved /\ resumed' = resumed /\ pc = "uploading"
        /\ uploads' = [uploads EXCEPT ![idx] = reply.uri] /\ reply.uri # 0 /\ store[reply.uri].key = idx
    BY <1>4 DEF UploadAnswered, TypeOK, AnswerInv, callerVars
  <2>2. uploads \in [Index -> Uri] /\ reply.uri \in Uri /\ saved \in [Index -> Uri]
    BY DEF TypeOK, Uris
  <2>3. saved[idx] = 0 \/ reply.uri = saved[idx]
    BY <2>1, <2>2, SameUri DEF ReceiptsInv, Names
  <2>4. ASSUME NEW i \in Index, saved[i] # 0 PROVE Carried'[i] = saved[i]
    <3>1. CASE i = idx
      BY <2>1, <2>2, <2>3, <2>4, <3>1 DEF Carried
    <3>2. CASE i # idx
      BY <2>1, <2>2, <2>4, <3>2 DEF Carried
    <3>3. QED
      BY <3>1, <3>2
  <2>5. QED
    BY <2>1, <2>4
<1>5. CASE SendUpload \/ UploadsDone \/ SignerReturns
  BY <1>5 DEF SendUpload, UploadsDone, SignerReturns, callerVars, Carried
<1>6. ASSUME NEW how \in {"failed", "done", "crashed", "cancelled"}, Leave(how) PROVE CarriedInv'
  BY <1>6 DEF Leave
<1>7. CASE \/ QuoteFails \/ UploadFails \/ SignerFails \/ PublishFails \/ PublishAnswered
           \/ Crash \/ Cancel \/ (UploadAnswered /\ reply.status # "ok")
  BY <1>6, <1>7 DEF QuoteFails, UploadFails, SignerFails, PublishFails, PublishAnswered, Crash,
     Cancel, UploadAnswered, Raise
<1>8. CASE RefreshAnswered
  <2>1. CASE Raise
    BY <1>6, <2>1 DEF Raise
  <2>2. CASE UNCHANGED <<resumed, uploads, callerVars>> /\ pc = "refreshing"
    BY <2>2 DEF callerVars, Carried
  <2>3. QED
    BY <1>8, <2>1, <2>2 DEF RefreshAnswered
<1>9. CASE Serve \/ (\E r \in upReqs : RefuseUpload(r)) \/ (\E r \in pubReqs : RefusePublish(r))
  BY <1>9 DEF Serve, ServeUpload, ServePublish, RefuseUpload, RefusePublish, callerVars, Carried
<1>10. CASE RejectReceipts
  BY <1>10 DEF RejectReceipts
<1>11. CASE PreviewQuote \/ Tick \/ ForgetReceipt \/ UNCHANGED vars
  BY <1>11 DEF PreviewQuote, Tick, ForgetReceipt, vars, clientVars, callerVars, Carried
<1>12. QED
  BY <1>1, <1>2, <1>3, <1>4, <1>5, <1>7, <1>8, <1>9, <1>10, <1>11 DEF Next, Client, Failure

LEMMA PriceInvStep ==
  ASSUME ConstantsAssumption, IInv, [Next]_vars
  PROVE  PriceInv'
<1> USE DEF PriceInv, IInv, Agreed
<1>1. CASE Client
  <2>1. \A q \in PriceLocks : q.price \in Prices
    BY DEF PriceLocks
  <2>2. preview # NoQuote => preview.price \in Prices
    BY DEF TypeOK, Quote
  <2>3. CASE SubmitSealed \/ QuoteAnswered
    BY <2>1, <2>2, <2>3 DEF SubmitSealed, AdoptQuote, QuoteAnswered
  <2>4. CASE TakeReceipt \/ SendUpload \/ UploadAnswered \/ PublishAnswered
    BY <2>4 DEF TakeReceipt, SendUpload, UploadAnswered, PublishAnswered, Raise, Leave
  <2>5. CASE UploadsDone \/ SignerReturns \/ RefreshAnswered
    BY <2>1, <2>5 DEF UploadsDone, RefreshAnswered, EncodeAndPublish, PostPublish, SignerReturns,
       Raise, Leave
  <2>6. QED
    BY <1>1, <2>3, <2>4, <2>5 DEF Client
<1>2. CASE Serve
  BY <1>2 DEF Serve, ServeUpload, ServePublish
<1>3. CASE Failure
  BY <1>3 DEF Failure, RejectReceipts, QuoteFails, UploadFails, SignerFails, PublishFails,
     RefuseUpload, RefusePublish, Crash, Cancel, ForgetReceipt, Raise, Leave, clientVars
<1>4. CASE PreviewQuote \/ Tick \/ UNCHANGED vars
  BY <1>4 DEF PreviewQuote, Tick, vars, clientVars
<1>5. QED
  BY <1>1, <1>2, <1>3, <1>4 DEF Next

LEMMA PublishInvStep ==
  ASSUME ConstantsAssumption, IInv, [Next]_vars
  PROVE  PublishInv'
<1> USE DEF PublishInv, IInv, ChargedOnce
<1> DEFINE Fine(rs) == \A i \in Index : rs[i] # 0 /\ (rs[i] # 0 => store'[rs[i]].key = i)
<1>1. \A rs \in Uris : NamesAll(rs) => Fine(rs)
  BY NamesKept DEF NamesAll, Names
<1>2. /\ \A r \in pubReqs : Agreed(r.quote.price) /\ Fine(r.uris)
      /\ \A e \in ledger : Agreed(e.price) /\ Fine(e.uris)
  BY <1>1 DEF TypeOK
<1>3. ASSUME /\ \A r \in pubReqs' : Agreed(r.quote.price) /\ Fine(r.uris)
             /\ \A e \in ledger' : Agreed(e.price) /\ Fine(e.uris)
             /\ \A a, b \in ledger' : a = b
      PROVE  PublishInv'
  BY <1>3 DEF NamesAll, Names
<1>4. ASSUME pubReqs' \subseteq pubReqs, ledger' = ledger PROVE PublishInv'
  BY <1>2, <1>3, <1>4
<1>5. ASSUME NEW q, Agreed(q.price), pc \in {"loop", "refreshing", "signing"}, idx = N + 1,
             PostPublish(q), ledger' = ledger
      PROVE  PublishInv'
  <2>1. \A i \in Index : i < idx
    BY <1>5 DEF ConstantsAssumption
  <2>2. Fine(uploads)
    BY <2>1, <1>1 DEF TypeOK, LoopInv, ReceiptsInv, NamesAll
  <2>3. \A r \in pubReqs' : r \in pubReqs \/ (r.uris = uploads /\ r.quote = q)
    BY <1>5 DEF PostPublish
  <2>4. QED
    BY <1>2, <1>3, <1>5, <2>2, <2>3
<1>6. CASE UploadsDone \/ SignerReturns \/ RefreshAnswered
  <2>1. ledger' = ledger
    BY <1>6 DEF UploadsDone, SignerReturns, RefreshAnswered, gatewayVars
  <2>2. CASE UploadsDone \/ SignerReturns
    <3>1. pc \in {"loop", "signing"} /\ idx = N + 1 /\ Agreed(quote.price)
      BY <2>2 DEF UploadsDone, SignerReturns, LoopInv, PriceInv
    <3>2. PostPublish(quote) \/ pubReqs' = pubReqs
      BY <2>2 DEF UploadsDone, SignerReturns, EncodeAndPublish
    <3>3. QED
      BY <1>4, <1>5, <2>1, <3>1, <3>2
  <2>3. CASE RefreshAnswered
    <3>1. pc = "refreshing" /\ idx = N + 1
      BY <2>3 DEF RefreshAnswered, LoopInv
    <3>2. pubReqs' = pubReqs \/ \E q \in PriceLocks : Agreed(q.price) /\ PostPublish(q)
      BY <2>3 DEF RefreshAnswered, EncodeAndPublish, PriceLocks, Agreed
    <3>3. QED
      BY <1>4, <1>5, <2>1, <3>1, <3>2
  <2>4. QED
    BY <1>6, <2>2, <2>3
<1>7. ASSUME NEW r \in pubReqs, ServePublish(r) PROVE PublishInv'
  <2>1. pubReqs' \subseteq pubReqs
    BY <1>7 DEF ServePublish, AnswerPublish
  <2>2. CASE ledger' = ledger
    BY <1>4, <2>1, <2>2
  <2>3. ASSUME \A e \in ledger : e.uris # r.uris,
               ledger' = ledger \cup {[uris |-> r.uris, price |-> r.quote.price]}
        PROVE  PublishInv'
    <3>1. ASSUME NEW e \in ledger PROVE FALSE
      <4>1. /\ e.uris \in [Index -> Uri] /\ r.uris \in [Index -> Uri]
            /\ NamesAll(e.uris) /\ NamesAll(r.uris)
        BY DEF TypeOK, Uris
      <4>2. \A i \in Index : e.uris[i] = r.uris[i]
        BY <4>1, SameUri DEF NamesAll, Names
      <4>3. QED
        BY <2>3, <4>1, <4>2
    <3>2. ledger' = {[uris |-> r.uris, price |-> r.quote.price]}
      BY <2>3, <3>1
    <3>3. QED
      BY <1>2, <1>3, <2>1, <3>2
  <2>4. QED
    BY <1>7, <2>2, <2>3 DEF ServePublish
<1>8. CASE \/ \E r \in upReqs : ServeUpload(r) \/ RefuseUpload(r)
           \/ \E r \in pubReqs : RefusePublish(r)
  BY <1>4, <1>8 DEF ServeUpload, RefuseUpload, RefusePublish, AnswerPublish, gatewayVars
<1>9. CASE \/ SubmitSealed \/ QuoteAnswered \/ TakeReceipt \/ SendUpload \/ UploadAnswered \/ PublishAnswered
  BY <1>4, <1>9 DEF SubmitSealed, QuoteAnswered, TakeReceipt, SendUpload, UploadAnswered,
     PublishAnswered, gatewayVars, netVars
<1>10. CASE \/ RejectReceipts \/ QuoteFails \/ UploadFails \/ SignerFails \/ PublishFails \/ Crash \/ Cancel
  BY <1>4, <1>10 DEF RejectReceipts, QuoteFails, UploadFails, SignerFails, PublishFails, Crash,
     Cancel, gatewayVars, netVars
<1>11. CASE PreviewQuote \/ Tick \/ ForgetReceipt \/ UNCHANGED vars
  BY <1>4, <1>11 DEF PreviewQuote, Tick, ForgetReceipt, vars, gatewayVars, netVars
<1>12. QED
  BY <1>6, <1>7, <1>8, <1>9, <1>10, <1>11 DEF Next, Client, Serve, Failure

LEMMA DoneMeansAnchoredStep ==
  ASSUME ConstantsAssumption, IInv, [Next]_vars
  PROVE  DoneMeansAnchored'
<1> USE DEF DoneMeansAnchored, IInv
<1>1. ledger \subseteq ledger'
  BY DEF Next, Client, Serve, Failure, vars, gatewayVars, PreviewQuote, Tick, SubmitSealed,
     QuoteAnswered, TakeReceipt, SendUpload, UploadAnswered, UploadsDone, RefreshAnswered,
     SignerReturns, PublishAnswered, ServeUpload, ServePublish, RejectReceipts, QuoteFails,
     UploadFails, SignerFails, PublishFails, RefuseUpload, RefusePublish, Crash, Cancel, ForgetReceipt
<1>2. CASE PublishAnswered
  BY <1>1, <1>2 DEF PublishAnswered, AnswerInv, Raise, Leave
<1>3. CASE ~PublishAnswered
  <2>1. pc' = "done" => pc = "done"
    BY <1>3 DEF Next, Client, Serve, Failure, vars, clientVars, PreviewQuote, Tick, SubmitSealed,
       AdoptQuote, QuoteAnswered, TakeReceipt, SendUpload, UploadAnswered, UploadsDone,
       EncodeAndPublish, PostPublish, RefreshAnswered, SignerReturns, ServeUpload, ServePublish,
       RejectReceipts, QuoteFails, UploadFails, SignerFails, PublishFails, RefuseUpload,
       RefusePublish, Crash, Cancel, ForgetReceipt, Raise, Leave
  <2>2. QED
    BY <1>1, <2>1
<1>4. QED
  BY <1>2, <1>3

\* The invariant holds initially and every step keeps it.
THEOREM InductiveInvariant == ItemsDistinct => (Spec => []IInv)
<1>1. Init => IInv
  BY ConstantsAssumption, InitTypeOK
  DEF Init, IInv, StoreInv, ReceiptsInv, Names, NoUris, RequestsInv, AnswerInv, LoopInv, CarriedInv,
      Active, Resting, PriceInv, PublishInv, ChargedOnce, DoneMeansAnchored, NoReply
<1>2. ItemsDistinct /\ IInv /\ [Next]_vars => IInv'
  <2> SUFFICES ASSUME ItemsDistinct, IInv, [Next]_vars PROVE IInv'
    OBVIOUS
  <2>1. TypeOK'
    BY ConstantsAssumption, NextTypeOK DEF IInv
  <2>2. StoreInv' /\ ReceiptsInv' /\ RequestsInv'
    BY ConstantsAssumption, StoreInvStep, ReceiptsInvStep, RequestsInvStep
  <2>3. AnswerInv' /\ LoopInv' /\ CarriedInv'
    BY ConstantsAssumption, AnswerInvStep, LoopInvStep, CarriedInvStep
  <2>4. PriceInv' /\ PublishInv' /\ DoneMeansAnchored'
    BY ConstantsAssumption, PriceInvStep, PublishInvStep, DoneMeansAnchoredStep
  <2>5. QED
    BY <2>1, <2>2, <2>3, <2>4 DEF IInv
<1>3. ASSUME ItemsDistinct PROVE Spec => []IInv
  <2>1. IInv /\ [Next]_vars => IInv'
    BY <1>2, <1>3
  <2>2. QED
    BY <1>1, <2>1, PTL DEF Spec
<1>4. QED
  BY <1>3

-----------------------------------------------------------------------------
(* Safety                                                                  *)

\* Whatever crashes, retries, lost answers and stray requests there are, one
\* prepared seal is anchored and charged at most once.
THEOREM AnchoredOnce == ItemsDistinct => (Spec => []ChargedOnce)
<1>1. IInv => ChargedOnce
  BY DEF IInv, PublishInv
<1>2. QED
  BY <1>1, InductiveInvariant, PTL

\* No charge exceeds the caller's cap, a refreshed price lock included.
THEOREM CapIsRespected == ItemsDistinct => (Spec => []CapRespected)
<1>1. IInv => CapRespected
  BY DEF IInv, PublishInv, CapRespected, Agreed
<1>2. QED
  BY <1>1, InductiveInvariant, PTL

\* Each uri of a published record names the ciphertext of its own item.
THEOREM RecordIsTrue == ItemsDistinct => (Spec => []RecordNamesItsItems)
<1>1. IInv => RecordNamesItsItems
  <2> SUFFICES ASSUME IInv, NEW e \in ledger, NEW i \in Index
               PROVE  e.uris[i] \in 1..Len(store) /\ store[e.uris[i]].id = ItemId[i]
    BY DEF RecordNamesItsItems
  <2>1. Len(store) \in Nat /\ e.uris[i] \in 0..Len(store)
    BY StoreType DEF IInv, TypeOK, Uris, Uri
  <2>2. e.uris[i] # 0 /\ store[e.uris[i]].key = i
    BY DEF IInv, PublishInv, NamesAll, Names
  <2>3. e.uris[i] \in 1..Len(store)
    BY <2>1, <2>2
  <2>4. QED
    BY <2>2, <2>3 DEF IInv, StoreInv
<1>2. QED
  BY <1>1, InductiveInvariant, PTL

\* No ciphertext is stored, and paid for, twice.
THEOREM NothingStoredTwice == ItemsDistinct => (Spec => []StoredOnce)
<1>1. ItemsDistinct /\ IInv => StoredOnce
  <2> SUFFICES ASSUME ItemsDistinct, IInv, NEW u \in 1..Len(store), NEW v \in 1..Len(store),
                      store[u].id = store[v].id
               PROVE  u = v
    BY DEF StoredOnce
  <2>1. store[u].key \in Index /\ store[v].key \in Index
    BY StoreType DEF IInv, Entry
  <2>2. store[u].key = store[v].key
    BY <2>1 DEF IInv, StoreInv, ItemsDistinct
  <2>3. QED
    BY <2>2 DEF IInv, StoreInv
<1>2. ASSUME ItemsDistinct PROVE Spec => []StoredOnce
  <2>1. IInv => StoredOnce
    BY <1>1, <1>2
  <2>2. Spec => []IInv
    BY <1>2, InductiveInvariant
  <2>3. QED
    BY <2>1, <2>2, PTL
<1>3. QED
  BY <1>2

\* submit_sealed returns only once the record is anchored.
THEOREM ReturnMeansAnchored == ItemsDistinct => (Spec => []DoneMeansAnchored)
<1>1. IInv => DoneMeansAnchored
  BY DEF IInv
<1>2. QED
  BY <1>1, InductiveInvariant, PTL

\* Where the caller's receipts go in a step: they stay, or the call that ends
\* replaces them by what it carries.
LEMMA SavedMoves ==
  ASSUME ConstantsAssumption, ItemsDistinct, IInv, [Next]_vars
  PROVE  \/ saved' = saved
         \/ saved' = Carried /\ Active
         \/ ForgetReceipt
<1> USE DEF IInv, Active, Resting
<1>1. CASE SubmitSealed
  <2>1. ByIndex(saved) = saved
    BY ByIndexDistinct DEF TypeOK
  <2>2. QED
    BY <1>1, <2>1 DEF SubmitSealed, AdoptQuote
<1>2. CASE QuoteAnswered
  <2>1. resumed = Carried
    BY <1>2 DEF QuoteAnswered, LoopInv, Carried, NoUris, TypeOK, Uris
  <2>2. QED
    BY <1>2, <2>1 DEF QuoteAnswered, AdoptQuote
<1>3. CASE TakeReceipt \/ SendUpload \/ UploadAnswered \/ UploadsDone \/ RefreshAnswered
           \/ SignerReturns \/ PublishAnswered
  BY <1>3 DEF TakeReceipt, SendUpload, UploadAnswered, UploadsDone, RefreshAnswered,
     SignerReturns, PublishAnswered, Raise, callerVars
<1>4. CASE Serve
  BY <1>4 DEF Serve, ServeUpload, ServePublish, callerVars
<1>5. CASE Failure
  BY <1>5 DEF Failure, RejectReceipts, QuoteFails, UploadFails, SignerFails, PublishFails,
     RefuseUpload, RefusePublish, Crash, Cancel, Raise, callerVars
<1>6. CASE PreviewQuote \/ Tick \/ UNCHANGED vars
  BY <1>6 DEF PreviewQuote, Tick, vars, callerVars
<1>7. QED
  BY <1>1, <1>2, <1>3, <1>4, <1>5, <1>6 DEF Next, Client

\* A receipt the caller holds survives every call that follows.
THEOREM ReceiptsAreKept == ItemsDistinct => (Spec => ReceiptsKept)
<1>1. ASSUME ItemsDistinct PROVE Spec => ReceiptsKept
  <2>1. IInv /\ [Next]_vars => [ForgetReceipt \/ \A i \in Index : saved[i] # 0 => saved'[i] = saved[i]]_vars
    BY <1>1, ConstantsAssumption, SavedMoves DEF IInv, CarriedInv
  <2>2. Spec => []IInv
    BY <1>1, InductiveInvariant
  <2>3. QED
    BY <2>1, <2>2, PTL DEF Spec, ReceiptsKept
<1>2. QED
  BY <1>1

\* An error carries every upload completed in its call, and every receipt the
\* call resumed from.
THEOREM ErrorsCarryReceipts == ItemsDistinct => (Spec => ErrorCarriesReceipts)
<1>1. ASSUME ItemsDistinct PROVE Spec => ErrorCarriesReceipts
  <2>1. IInv /\ [Next]_vars =>
          [pc' = "failed" => \A i \in Index : uploads[i] # 0 \/ resumed[i] # 0 => saved'[i] # 0]_vars
    <3> SUFFICES ASSUME IInv, [Next]_vars, pc' = "failed", Active,
                        NEW i \in Index, uploads[i] # 0 \/ resumed[i] # 0
                 PROVE  saved'[i] # 0
      BY DEF IInv, LoopInv, NoUris
    <3>1. saved' = Carried
      <4>1. CASE Raise
        BY <4>1 DEF Raise
      <4>2. CASE QuoteAnswered
        BY <4>2 DEF QuoteAnswered, AdoptQuote, IInv, LoopInv, Carried, NoUris, TypeOK, Uris
      <4>3. CASE Raise \/ QuoteAnswered
        BY <4>1, <4>2, <4>3
      <4>4. Raise \/ QuoteAnswered
        BY DEF Active, Resting, Next, Client, Serve, Failure, vars, clientVars, PreviewQuote, Tick,
           SubmitSealed, TakeReceipt, SendUpload, UploadAnswered, UploadsDone, EncodeAndPublish,
           PostPublish, RefreshAnswered, SignerReturns, PublishAnswered, Leave, ServeUpload,
           ServePublish, RejectReceipts, QuoteFails, UploadFails, SignerFails, PublishFails,
           RefuseUpload, RefusePublish, Crash, Cancel, ForgetReceipt
      <4>5. QED
        BY <4>3, <4>4
    <3>2. QED
      BY <3>1 DEF Carried
  <2>2. Spec => []IInv
    BY <1>1, InductiveInvariant
  <2>3. QED
    BY <2>1, <2>2, PTL DEF Spec, ErrorCarriesReceipts
<1>2. QED
  BY <1>1

-----------------------------------------------------------------------------
(* Refinement                                                              *)

LEMMA InitImplements == ConstantsAssumption /\ Init => Abstract!Init
<1>1. ConstantsAssumption /\ Init => Len(store) = 0 /\ ledger = {}
  BY DEF Init
<1>2. QED
  BY <1>1 DEF Abstract!Init, Held, Paid

LEMMA NextImplements ==
  ASSUME ConstantsAssumption, ItemsDistinct, IInv, IInv', [Next]_vars
  PROVE  [Abstract!Next]_(Abstract!vars)
<1>1. CASE UNCHANGED <<store, ledger>>
  BY <1>1 DEF Abstract!vars, Held, Paid
<1>2. ASSUME NEW r \in upReqs, ServeUpload(r), store' # store
      PROVE  Abstract!Store(r.item) /\ r.item \in Index
  <2> DEFINE e == [key |-> r.key, id |-> ItemId[r.item]]
  <2>1. store' = Append(store, e) /\ e \in Entry /\ r.item \in Index /\ ledger' = ledger
    BY <1>2, ServeUploadStore DEF IInv, TypeOK, ServeUpload
  <2>2. /\ Len(store') = Len(store) + 1 /\ store'[Len(store) + 1] = e /\ Len(store) \in Nat
        /\ \A u \in 1..Len(store) : store'[u] = store[u]
    BY <2>1, StoreType, AppendFacts DEF IInv
  <2>3. \A u \in 1..Len(store') : u \in 1..Len(store) \/ u = Len(store) + 1
    BY <2>2
  <2>4. \A i \in Index : e.id = ItemId[i] => i = r.item
    BY <2>1 DEF ItemsDistinct
  <2>5. Held' = Held \cup {r.item}
    <3>1. ASSUME NEW i \in Held' PROVE i \in Held \cup {r.item}
      BY <2>2, <2>3, <2>4, <3>1 DEF Held
    <3>2. ASSUME NEW i \in Held \cup {r.item} PROVE i \in Held'
      <4>1. CASE i = r.item
        <5>1. Len(store) + 1 \in 1..Len(store')
          BY <2>2
        <5>2. QED
          BY <2>1, <2>2, <4>1, <5>1 DEF Held
      <4>2. CASE i \in Held
        <5>1. PICK u \in 1..Len(store) : store[u].id = ItemId[i]
          BY <4>2 DEF Held
        <5>2. u \in 1..Len(store') /\ store'[u].id = ItemId[i]
          BY <2>2, <5>1
        <5>3. QED
          BY <4>2, <5>2 DEF Held
      <4>3. QED
        BY <3>2, <4>1, <4>2
    <3>3. QED
      BY <3>1, <3>2
  <2>6. QED
    BY <2>1, <2>5 DEF Abstract!Store, Paid
<1>3. ASSUME NEW r \in pubReqs, ServePublish(r), ledger' # ledger
      PROVE  Abstract!Anchor(r.quote.price) /\ r.quote.price \in Prices
  <2> DEFINE e == [uris |-> r.uris, price |-> r.quote.price]
  <2>1. /\ ledger' = ledger \cup {e} /\ store' = store
        /\ \A a \in ledger : a.uris # r.uris
    BY <1>3 DEF ServePublish
  <2>2. ledger = {}
    <3>1. ASSUME NEW a \in ledger PROVE FALSE
      <4>1. a = e
        BY <2>1, <3>1 DEF IInv, PublishInv, ChargedOnce
      <4>2. QED
        BY <2>1, <4>1
    <3>2. QED
      BY <3>1
  <2>3. ledger' = {e}
    BY <2>1, <2>2
  <2>4. Paid' = r.quote.price
    <3>1. (CHOOSE a \in ledger' : TRUE) = e
      BY <2>3
    <3>2. ledger' # {} /\ e.price = r.quote.price
      BY <2>3
    <3>3. QED
      BY <3>1, <3>2 DEF Paid
  <2>5. Held = Index
    <3>1. ASSUME NEW i \in Index PROVE i \in Held
      <4>1. r.uris[i] \in 0..Len(store) /\ Len(store) \in Nat
        BY StoreType DEF IInv, TypeOK, Uris, Uri
      <4>2. r.uris[i] # 0 /\ store[r.uris[i]].key = i
        BY DEF IInv, PublishInv, NamesAll, Names
      <4>3. r.uris[i] \in 1..Len(store) /\ store[r.uris[i]].id = ItemId[i]
        BY <4>1, <4>2 DEF IInv, StoreInv
      <4>4. QED
        BY <4>3 DEF Held
    <3>2. QED
      BY <3>1 DEF Held
  <2>6. r.quote.price \in Prices /\ WithinCap(r.quote.price)
    BY DEF IInv, PublishInv, Agreed
  <2>7. Held' = Held
    BY <2>1 DEF Held
  <2>8. QED
    BY <2>2, <2>3, <2>4, <2>5, <2>6, <2>7
    DEF Abstract!Anchor, Abstract!WithinCap, Abstract!Index, WithinCap
<1>4. \/ UNCHANGED <<store, ledger>>
      \/ \E r \in upReqs : ServeUpload(r) /\ store' # store
      \/ \E r \in pubReqs : ServePublish(r) /\ ledger' # ledger
  BY DEF Next, Client, Serve, Failure, vars, gatewayVars, PreviewQuote, Tick, SubmitSealed,
     QuoteAnswered, TakeReceipt, SendUpload, UploadAnswered, UploadsDone, RefreshAnswered,
     SignerReturns, PublishAnswered, ServeUpload, ServePublish, RejectReceipts, QuoteFails,
     UploadFails, SignerFails, PublishFails, RefuseUpload, RefusePublish, Crash, Cancel, ForgetReceipt
<1>5. QED
  BY <1>1, <1>2, <1>3, <1>4 DEF Abstract!Next, Abstract!Index

\* The two-phase flow implements AnchorOnce: seen through what is stored and
\* charged, every behaviour stores items and then anchors once, within the cap.
THEOREM Refinement == ItemsDistinct => (Spec => ImplementsAnchorOnce)
<1>1. ASSUME ItemsDistinct PROVE Spec => ImplementsAnchorOnce
  <2>1. Init => Abstract!Init
    BY ConstantsAssumption, InitImplements
  <2>2. IInv /\ IInv' /\ [Next]_vars => [Abstract!Next]_(Abstract!vars)
    BY <1>1, ConstantsAssumption, NextImplements
  <2>3. Spec => []IInv
    BY <1>1, InductiveInvariant
  <2>4. QED
    BY <2>1, <2>2, <2>3, PTL DEF Spec, ImplementsAnchorOnce, Abstract!Spec
<1>2. QED
  BY <1>1

-----------------------------------------------------------------------------
(* The clock a quote is read by                                            *)

\* The days of a year before its month, from the lengths of the months.
Before(year, month) ==
  LET leap == IF Clock!Leap(year) THEN 1 ELSE 0
  IN CASE month = 1 -> 0 [] month = 2 -> 31 [] month = 3 -> 59 + leap [] month = 4 -> 90 + leap
       [] month = 5 -> 120 + leap [] month = 6 -> 151 + leap [] month = 7 -> 181 + leap
       [] month = 8 -> 212 + leap [] month = 9 -> 243 + leap [] month = 10 -> 273 + leap
       [] month = 11 -> 304 + leap [] month = 12 -> 334 + leap [] OTHER -> 365 + leap

\* The years before a year, as days.
YearStart(year) == Clock!DaysFromCivil(year, 1, 1)

\* One division at a time: what the quotient and the rest are.
LEMMA Quotients ==
  ASSUME NEW n \in Int
  PROVE  /\ n \div 4 \in Int /\ n \div 100 \in Int /\ n \div 400 \in Int
         /\ n % 4 \in 0..3 /\ n % 100 \in 0..99 /\ n % 400 \in 0..399
         /\ n = 4 * (n \div 4) + (n % 4) /\ n = 100 * (n \div 100) + (n % 100)
         /\ n = 400 * (n \div 400) + (n % 400)
OBVIOUS

\* March to December count from the year they are in.
LEMMA LateMonths ==
  ASSUME NEW year \in Nat, NEW month \in 3..12, NEW day \in Int
  PROVE  Clock!DaysFromCivil(year, month, day) = Clock!DaysFromCivil(year, 3, 1) + Before(year, month) - Before(year, 3) + day - 1
<1>1. /\ Clock!DaysFromCivil(year, month, day) =
           Clock!DaysFromCivil(year, 3, 1) + (153 * ((month + 9) % 12) + 2) \div 5 + day - 1
  BY DEF Clock!DaysFromCivil
<1>2. month \in {3, 4, 5, 6, 7, 8, 9, 10, 11, 12}
  OBVIOUS
<1>3. (153 * ((month + 9) % 12) + 2) \div 5 = Before(year, month) - Before(year, 3)
  BY <1>2 DEF Before
<1>4. QED
  BY <1>1, <1>3

\* January and February count from the year before, so that the leap day of a
\* year comes last: from the first of March of one year to that of the next are
\* the days of the later one's February and 337.
LEMMA MarchToMarch ==
  ASSUME NEW year \in Nat
  PROVE  Clock!DaysFromCivil(year, 3, 1) = Clock!DaysFromCivil(year - 1, 3, 1) + (IF Clock!Leap(year) THEN 366 ELSE 365)
<1> DEFINE F(y) == (y \div 400) * 146097 + (y - (y \div 400) * 400) * 365
                    + (y - (y \div 400) * 400) \div 4 - (y - (y \div 400) * 400) \div 100
<1>1. /\ Clock!DaysFromCivil(year, 3, 1) = F(year) - 719468
      /\ Clock!DaysFromCivil(year - 1, 3, 1) = F(year - 1) - 719468
  BY DEF Clock!DaysFromCivil
<1>2. PICK e \in Int, r \in 0..399 : year = 400 * e + r
  <2>1. /\ year \div 400 \in Int /\ year % 400 \in 0..399
        /\ year = 400 * (year \div 400) + (year % 400)
    OBVIOUS
  <2>2. QED
    BY <2>1
<1>3. year \div 400 = e /\ F(year) = e * 146097 + r * 365 + r \div 4 - r \div 100
  BY <1>2
<1>4. Clock!Leap(year) <=> Clock!Leap(r)
  BY <1>2 DEF Clock!Leap
<1> HIDE DEF F
<1>5. CASE r = 0
  <2>1. (year - 1) \div 400 = e - 1 /\ F(year - 1) = (e - 1) * 146097 + 399 * 365 + 99 - 3
    BY <1>2, <1>5 DEF F
  <2>2. QED
    BY <1>1, <1>3, <1>4, <1>5, <2>1 DEF Clock!Leap
<1>6. CASE r # 0
  <2>1. (year - 1) \div 400 = e
        /\ F(year - 1) = e * 146097 + (r - 1) * 365 + (r - 1) \div 4 - (r - 1) \div 100
    BY <1>2, <1>6 DEF F
  <2>2. /\ r \div 4 - (r - 1) \div 4 = IF r % 4 = 0 THEN 1 ELSE 0
        /\ r \div 100 - (r - 1) \div 100 = IF r % 100 = 0 THEN 1 ELSE 0
        /\ r % 400 # 0 /\ (r % 100 = 0 => r % 4 = 0)
    BY <1>6
  <2>3. Clock!Leap(r) <=> r % 4 = 0 /\ r % 100 # 0
    BY <2>2 DEF Clock!Leap
  <2>4. QED
    BY <1>1, <1>2, <1>3, <1>4, <2>1, <2>2, <2>3
<1>7. QED
  BY <1>5, <1>6

\* The day of a date is the first of its year's January, the months before it
\* and the days of its own.
LEMMA DayOfYear ==
  ASSUME NEW year \in Nat, NEW month \in 1..12, NEW day \in Int
  PROVE  Clock!DaysFromCivil(year, month, day) = YearStart(year) + Before(year, month) + day - 1
<1>1. /\ Clock!DaysFromCivil(year, 1, day) = Clock!DaysFromCivil(year - 1, 3, 1) + 306 + day - 1
      /\ Clock!DaysFromCivil(year, 2, day) = Clock!DaysFromCivil(year - 1, 3, 1) + 337 + day - 1
      /\ Clock!DaysFromCivil(year, 1, 1) = Clock!DaysFromCivil(year - 1, 3, 1) + 306
  BY DEF Clock!DaysFromCivil
<1> DEFINE leap == IF Clock!Leap(year) THEN 1 ELSE 0
<1>2. /\ Before(year, 1) = 0 /\ Before(year, 2) = 31 /\ Before(year, 3) = 59 + leap
      /\ leap \in {0, 1}
  BY DEF Before
<1>3. Clock!DaysFromCivil(year, 3, 1) = Clock!DaysFromCivil(year - 1, 3, 1) + 365 + leap
      /\ Clock!DaysFromCivil(year - 1, 3, 1) \in Int
  BY MarchToMarch DEF Clock!DaysFromCivil
<1> HIDE DEF leap
<1>4. CASE month \in 3..12
  <2>1. Before(year, month) \in Int
    <3>1. month \in {3, 4, 5, 6, 7, 8, 9, 10, 11, 12}
      BY <1>4
    <3>2. QED
      BY <3>1 DEF Before
  <2>2. Clock!DaysFromCivil(year, month, day)
          = Clock!DaysFromCivil(year, 3, 1) + Before(year, month) - Before(year, 3) + day - 1
    BY <1>4, LateMonths
  <2>3. QED
    BY <1>1, <1>2, <1>3, <2>1, <2>2 DEF YearStart
<1>5. CASE month = 1
  BY <1>1, <1>2, <1>3, <1>5 DEF YearStart
<1>6. CASE month = 2
  BY <1>1, <1>2, <1>3, <1>6 DEF YearStart
<1>7. QED
  BY <1>4, <1>5, <1>6

\* The months follow each other, and the year has as many days as they have.
LEMMA MonthsFollow ==
  ASSUME NEW year \in Nat
  PROVE  /\ Before(year, 1) = 0
         /\ \A month \in 1..12 :
              /\ Before(year, month) \in Nat /\ Clock!DaysInMonth(year, month) \in 28..31
              /\ Before(year, month + 1) = Before(year, month) + Clock!DaysInMonth(year, month)
         /\ Before(year, 13) = (IF Clock!Leap(year) THEN 366 ELSE 365) /\ Before(year, 13) \in Nat
<1>1. SUFFICES ASSUME NEW month \in 1..12
               PROVE  /\ Before(year, month) \in Nat /\ Clock!DaysInMonth(year, month) \in 28..31
                      /\ Before(year, month + 1) = Before(year, month) + Clock!DaysInMonth(year, month)
  BY DEF Before
<1>2. month \in {1, 2, 3, 4, 5, 6, 7, 8, 9, 10, 11, 12}
  OBVIOUS
<1>3. QED
  BY <1>2 DEF Before, Clock!DaysInMonth

\* A year after the other.
LEMMA YearsFollow ==
  ASSUME NEW year \in Nat
  PROVE  YearStart(year) \in Int /\ YearStart(year + 1) = YearStart(year) + Before(year, 13)
<1>1. /\ YearStart(year) = Clock!DaysFromCivil(year - 1, 3, 1) + 306
      /\ YearStart(year + 1) = Clock!DaysFromCivil(year, 3, 1) + 306
      /\ Clock!DaysFromCivil(year - 1, 3, 1) \in Int
  BY DEF Clock!DaysFromCivil, YearStart
<1>2. Before(year, 13) = (IF Clock!Leap(year) THEN 366 ELSE 365) /\ Before(year, 13) \in Nat
  BY MonthsFollow
<1>3. Clock!DaysFromCivil(year, 3, 1) = Clock!DaysFromCivil(year - 1, 3, 1) + (IF Clock!Leap(year) THEN 366 ELSE 365)
  BY MarchToMarch
<1>4. QED
  BY <1>1, <1>2, <1>3

\* A date is its fields.
LEMMA DateFacts ==
  ASSUME NEW year \in Nat, NEW d \in Clock!Dates(year)
  PROVE  /\ d = [year |-> year, month |-> d.month, day |-> d.day]
         /\ d.month \in 1..12 /\ d.day \in 1..31 /\ d.day <= Clock!DaysInMonth(year, d.month)
         /\ Clock!DayNumber(d) = YearStart(year) + Before(year, d.month) + d.day - 1
         /\ Clock!DayNumber(d) \in Int
<1>1. /\ d = [year |-> year, month |-> d.month, day |-> d.day]
      /\ d.month \in 1..12 /\ d.day \in 1..31 /\ d.day <= Clock!DaysInMonth(year, d.month)
  BY DEF Clock!Dates
<1>2. Clock!DayNumber(d) = YearStart(year) + Before(year, d.month) + d.day - 1
  BY <1>1, DayOfYear DEF Clock!DayNumber
<1>3. YearStart(year) \in Int /\ Before(year, d.month) \in Nat
  BY <1>1, YearsFollow, MonthsFollow
<1>4. QED
  BY <1>1, <1>2, <1>3

\* The date after a date is one of the same year, or the first of the next.
LEMMA NextDateFacts ==
  ASSUME NEW year \in Nat, NEW d \in Clock!Dates(year)
  PROVE  /\ Clock!NextDate(d) \in Clock!Dates(year) \/ Clock!NextDate(d) \in Clock!Dates(year + 1)
         /\ Clock!DayNumber(Clock!NextDate(d)) = Clock!DayNumber(d) + 1
<1>1. PICK month \in 1..12, day \in 1..31 :
        /\ d = [year |-> year, month |-> month, day |-> day] /\ day <= Clock!DaysInMonth(year, month)
        /\ Clock!DayNumber(d) = YearStart(year) + Before(year, month) + day - 1
  BY DateFacts
<1>2. /\ Before(year, month) \in Nat /\ Clock!DaysInMonth(year, month) \in 28..31
      /\ Before(year, month + 1) = Before(year, month) + Clock!DaysInMonth(year, month)
      /\ YearStart(year) \in Int
  BY MonthsFollow, YearsFollow
<1>3. CASE day < Clock!DaysInMonth(year, month)
  <2>1. Clock!NextDate(d) = [year |-> year, month |-> month, day |-> day + 1]
    BY <1>1, <1>3 DEF Clock!NextDate
  <2>2. Clock!NextDate(d) \in Clock!Dates(year)
    BY <1>2, <1>3, <2>1 DEF Clock!Dates
  <2>3. Clock!DayNumber(Clock!NextDate(d)) = YearStart(year) + Before(year, month) + (day + 1) - 1
    BY <2>1, <2>2, DateFacts
  <2>4. QED
    BY <1>1, <1>2, <2>2, <2>3
<1>4. CASE day = Clock!DaysInMonth(year, month) /\ month < 12
  <2>1. Clock!NextDate(d) = [year |-> year, month |-> month + 1, day |-> 1]
    <3>1. ~(day < Clock!DaysInMonth(year, month)) /\ month < 12
      BY <1>2, <1>4
    <3>2. d.year = year /\ d.month = month /\ d.day = day
      BY <1>1
    <3>3. Clock!NextDate(d) = [d EXCEPT !.day = 1, !.month = @ + 1]
      BY <3>1, <3>2 DEF Clock!NextDate
    <3>4. QED
      BY <1>1, <3>3
  <2>2. month + 1 \in 1..12 /\ Clock!DaysInMonth(year, month + 1) \in 28..31
    <3>1. month + 1 \in 1..12
      BY <1>1, <1>4
    <3>2. PICK next \in 1..12 : next = month + 1
      BY <3>1
    <3>3. Clock!DaysInMonth(year, next) \in 28..31
      BY MonthsFollow
    <3>4. QED
      BY <3>1, <3>2, <3>3
  <2>3. Clock!NextDate(d) \in Clock!Dates(year)
    BY <2>1, <2>2 DEF Clock!Dates
  <2>4. Clock!DayNumber(Clock!NextDate(d)) = YearStart(year) + Before(year, month + 1) + 1 - 1
    BY <2>1, <2>3, DateFacts
  <2>5. Clock!DayNumber(Clock!NextDate(d)) = Clock!DayNumber(d) + 1
    <3>1. Clock!DayNumber(Clock!NextDate(d)) = YearStart(year) + (Before(year, month) + day) + 1 - 1
      BY <1>2, <1>4, <2>4
    <3>2. QED
      BY <1>1, <1>2, <3>1
  <2>6. QED
    BY <2>3, <2>5
<1>5. CASE day = Clock!DaysInMonth(year, month) /\ month = 12
  <2>1. Clock!NextDate(d) = [year |-> year + 1, month |-> 1, day |-> 1]
    BY <1>1, <1>2, <1>5 DEF Clock!NextDate
  <2>2. Clock!DaysInMonth(year + 1, 1) \in 28..31 /\ Before(year + 1, 1) = 0 /\ YearStart(year + 1) \in Int
    BY MonthsFollow, YearsFollow
  <2>3. Clock!NextDate(d) \in Clock!Dates(year + 1)
    BY <2>1, <2>2 DEF Clock!Dates
  <2>4. Clock!DayNumber(Clock!NextDate(d)) = YearStart(year + 1) + Before(year + 1, 1) + 1 - 1
    BY <2>1, <2>3, DateFacts
  <2>5. YearStart(year + 1) = YearStart(year) + Before(year, month + 1)
    BY <1>5, YearsFollow
  <2>6. QED
    BY <1>1, <1>2, <1>5, <2>2, <2>3, <2>4, <2>5
<1>6. \/ day < Clock!DaysInMonth(year, month)
      \/ day = Clock!DaysInMonth(year, month) /\ month < 12
      \/ day = Clock!DaysInMonth(year, month) /\ month = 12
  BY <1>1, <1>2
<1>7. QED
  BY <1>3, <1>4, <1>5, <1>6

\* Every number of a day of the year is one date's.
LEMMA DatesAreNumbered ==
  ASSUME NEW year \in Nat
  PROVE  Cardinality(Clock!Dates(year)) = Before(year, 13)
<1> DEFINE Days == Before(year, 13)
           At1(n) == CHOOSE d \in Clock!Dates(year) : Clock!DayNumber(d) = YearStart(year) + n - 1
           f == [n \in 1..Days |-> At1(n)]
<1>1. Days \in Nat /\ YearStart(year) \in Int
  BY MonthsFollow, YearsFollow
<1>2. ASSUME NEW n \in 1..Days
      PROVE  \E d \in Clock!Dates(year) : Clock!DayNumber(d) = YearStart(year) + n - 1
  <2>1. \E month \in 1..12 : Before(year, month) < n /\ n <= Before(year, month + 1)
    <3>1. /\ Before(year, 1) = 0 /\ Before(year, 2) \in Nat /\ Before(year, 3) \in Nat
          /\ Before(year, 4) \in Nat /\ Before(year, 5) \in Nat /\ Before(year, 6) \in Nat
          /\ Before(year, 7) \in Nat /\ Before(year, 8) \in Nat /\ Before(year, 9) \in Nat
          /\ Before(year, 10) \in Nat /\ Before(year, 11) \in Nat /\ Before(year, 12) \in Nat
      BY MonthsFollow
    <3>2. \/ Before(year, 1) < n /\ n <= Before(year, 1 + 1)
          \/ Before(year, 2) < n /\ n <= Before(year, 2 + 1)
          \/ Before(year, 3) < n /\ n <= Before(year, 3 + 1)
          \/ Before(year, 4) < n /\ n <= Before(year, 4 + 1)
          \/ Before(year, 5) < n /\ n <= Before(year, 5 + 1)
          \/ Before(year, 6) < n /\ n <= Before(year, 6 + 1)
          \/ Before(year, 7) < n /\ n <= Before(year, 7 + 1)
          \/ Before(year, 8) < n /\ n <= Before(year, 8 + 1)
          \/ Before(year, 9) < n /\ n <= Before(year, 9 + 1)
          \/ Before(year, 10) < n /\ n <= Before(year, 10 + 1)
          \/ Before(year, 11) < n /\ n <= Before(year, 11 + 1)
          \/ Before(year, 12) < n /\ n <= Before(year, 12 + 1)
      BY <1>1, <3>1
    <3>3. QED
      BY <3>2
  <2>2. PICK month \in 1..12 : Before(year, month) < n /\ n <= Before(year, month + 1)
    BY <2>1
  <2>3. /\ Before(year, month) \in Nat /\ Clock!DaysInMonth(year, month) \in 28..31
        /\ Before(year, month + 1) = Before(year, month) + Clock!DaysInMonth(year, month)
    BY MonthsFollow
  <2>4. PICK d : d = [year |-> year, month |-> month, day |-> n - Before(year, month)]
    OBVIOUS
  <2>5. d \in Clock!Dates(year)
    BY <2>2, <2>3, <2>4 DEF Clock!Dates
  <2>6. Clock!DayNumber(d) = YearStart(year) + Before(year, month) + (n - Before(year, month)) - 1
    BY <2>4, <2>5, DateFacts
  <2>7. QED
    BY <1>1, <2>3, <2>5, <2>6
<1>3. \A n \in 1..Days : At1(n) \in Clock!Dates(year) /\ Clock!DayNumber(At1(n)) = YearStart(year) + n - 1
  BY <1>2
<1>4. \A d \in Clock!Dates(year) : Clock!DayNumber(d) - YearStart(year) + 1 \in 1..Days
  <2>1. SUFFICES ASSUME NEW d \in Clock!Dates(year)
                 PROVE  Clock!DayNumber(d) - YearStart(year) + 1 \in 1..Days
    OBVIOUS
  <2>2. PICK month \in 1..12 : month = d.month
    BY DateFacts
  <2>3. /\ d.day \in 1..31 /\ d.day <= Clock!DaysInMonth(year, month)
        /\ Clock!DayNumber(d) = YearStart(year) + Before(year, month) + d.day - 1
    BY <2>2, DateFacts
  <2>4. /\ Before(year, month) \in Nat /\ Clock!DaysInMonth(year, month) \in 28..31
        /\ Before(year, month + 1) = Before(year, month) + Clock!DaysInMonth(year, month)
    BY MonthsFollow
  <2>5. Before(year, month + 1) <= Days
    <3>1. month \in {1, 2, 3, 4, 5, 6, 7, 8, 9, 10, 11, 12}
      OBVIOUS
    <3>2. QED
      BY <3>1 DEF Before
  <2>6. QED
    BY <1>1, <2>3, <2>4, <2>5
<1>5. \A c, d \in Clock!Dates(year) : Clock!DayNumber(c) = Clock!DayNumber(d) => c = d
  <2>1. SUFFICES ASSUME NEW c \in Clock!Dates(year), NEW d \in Clock!Dates(year), Clock!DayNumber(c) = Clock!DayNumber(d)
                 PROVE  c = d
    OBVIOUS
  <2>2. PICK p \in 1..12, q \in 1..12, u \in 1..31, v \in 1..31 :
              p = c.month /\ q = d.month /\ u = c.day /\ v = d.day
    BY DateFacts
  <2>3. /\ u <= Clock!DaysInMonth(year, p)
        /\ Clock!DayNumber(c) = YearStart(year) + Before(year, p) + u - 1
        /\ v <= Clock!DaysInMonth(year, q)
        /\ Clock!DayNumber(d) = YearStart(year) + Before(year, q) + v - 1
    BY <2>2, DateFacts
  <2>4. /\ Before(year, p) \in Nat /\ Before(year, p + 1) = Before(year, p) + Clock!DaysInMonth(year, p)
        /\ Before(year, q) \in Nat /\ Before(year, q + 1) = Before(year, q) + Clock!DaysInMonth(year, q)
        /\ Clock!DaysInMonth(year, p) \in 28..31 /\ Clock!DaysInMonth(year, q) \in 28..31
    <3>1. \A month \in 1..12 :
            /\ Before(year, month) \in Nat /\ Clock!DaysInMonth(year, month) \in 28..31
            /\ Before(year, month + 1) = Before(year, month) + Clock!DaysInMonth(year, month)
      BY MonthsFollow
    <3>2. p \in 1..12 /\ q \in 1..12
      BY <2>2
    <3>3. QED
      BY <3>1, <3>2
  <2>5. /\ p < q => Before(year, p + 1) <= Before(year, q)
        /\ q < p => Before(year, q + 1) <= Before(year, p)
    <3>1. /\ p \in {1, 2, 3, 4, 5, 6, 7, 8, 9, 10, 11, 12}
          /\ q \in {1, 2, 3, 4, 5, 6, 7, 8, 9, 10, 11, 12}
      OBVIOUS
    <3>2. QED
      BY <3>1 DEF Before
  <2>6. Before(year, p) + u = Before(year, q) + v
    <3>1. YearStart(year) + Before(year, p) + u - 1 = YearStart(year) + Before(year, q) + v - 1
      BY <2>1, <2>3
    <3>2. u \in Int /\ v \in Int
      BY <2>2
    <3>3. QED
      BY <1>1, <2>4, <3>1, <3>2
  <2>7. p = q
    <3>1. ~(p < q)
      <4>1. SUFFICES ASSUME p < q
                     PROVE  FALSE
        OBVIOUS
      <4>2. Before(year, p) + Clock!DaysInMonth(year, p) <= Before(year, q)
        BY <2>4, <2>5, <4>1
      <4>3. QED
        BY <2>3, <2>4, <2>6, <4>2
    <3>2. ~(q < p)
      <4>1. SUFFICES ASSUME q < p
                     PROVE  FALSE
        OBVIOUS
      <4>2. Before(year, q) + Clock!DaysInMonth(year, q) <= Before(year, p)
        BY <2>4, <2>5, <4>1
      <4>3. QED
        BY <2>3, <2>4, <2>6, <4>2
    <3>3. QED
      BY <2>2, <3>1, <3>2
  <2>8. u = v
    BY <2>3, <2>4, <2>6, <2>7
  <2>9. QED
    BY <2>2, <2>7, <2>8, DateFacts
<1> HIDE DEF At1, Days
<1>6. f \in Bijection(1..Days, Clock!Dates(year))
  <2>1. f \in [1..Days -> Clock!Dates(year)]
    BY <1>3
  <2>2. \A m, n \in 1..Days : f[m] = f[n] => m = n
    BY <1>1, <1>3
  <2>3. \A d \in Clock!Dates(year) : \E n \in 1..Days : f[n] = d
    <3>1. SUFFICES ASSUME NEW d \in Clock!Dates(year)
                   PROVE  \E n \in 1..Days : f[n] = d
      OBVIOUS
    <3>2. PICK n \in 1..Days : n = Clock!DayNumber(d) - YearStart(year) + 1
      BY <1>4
    <3>3. Clock!DayNumber(d) \in Int
      BY DateFacts
    <3>4. Clock!DayNumber(At1(n)) = Clock!DayNumber(d) /\ At1(n) \in Clock!Dates(year)
      BY <1>1, <1>3, <3>2, <3>3
    <3>5. QED
      BY <1>5, <3>4
  <2>4. QED
    BY <2>1, <2>2, <2>3 DEF Bijection, Injection, Surjection, IsInjective
<1>7. Cardinality(Clock!Dates(year)) = Days
  BY <1>1, <1>6, FS_CountingElements DEF ExistsBijection
<1>8. QED
  BY <1>7 DEF Days

\* A time of day at an offset, on a date.
TimeOn(d, ts) ==
  /\ ts.year = d.year /\ ts.month = d.month /\ ts.day = d.day
  /\ ts.hour \in 0..23 /\ ts.minute \in 0..59 /\ ts.second \in 0..60
  /\ ts.separated /\ ts.fraction = "none"
  /\ ts.offset.kind \in {"Z", "+", "-"} /\ ts.offset.hours \in 0..23 /\ ts.offset.minutes \in 0..59

\* It is an instant: the day of its date and the seconds of its time.
LEMMA InstantFacts ==
  ASSUME NEW year \in Nat, NEW d \in Clock!Dates(year), NEW ts, TimeOn(d, ts)
  PROVE  Clock!ToEpochSeconds(ts)
           = <<Clock!DayNumber(d), ts.hour * 3600 + ts.minute * 60 + ts.second - Clock!OffsetSeconds(ts.offset)>>
<1>1. /\ d.year = year /\ d.month \in 1..12 /\ d.day \in 1..31 /\ d.day <= Clock!DaysInMonth(year, d.month)
  BY DateFacts
<1>2. Clock!DaysInMonth(year, d.month) \in 28..31
  <2>1. \A month \in 1..12 : Clock!DaysInMonth(year, month) \in 28..31
    BY MonthsFollow
  <2>2. QED
    BY <1>1, <2>1
<1>3. /\ ts.year = year /\ ts.month = d.month /\ ts.day = d.day
      /\ ts.hour \in 0..23 /\ ts.minute \in 0..59 /\ ts.second \in 0..60
      /\ ts.separated /\ ts.fraction = "none"
      /\ ts.offset.kind \in {"Z", "+", "-"} /\ ts.offset.hours \in 0..23 /\ ts.offset.minutes \in 0..59
  BY <1>1 DEF TimeOn
<1>4. Clock!Legible(ts)
  BY <1>1, <1>2, <1>3 DEF Clock!Legible, Clock!NoDigits
<1>5. Clock!DayNumber(d) = Clock!DaysFromCivil(ts.year, ts.month, ts.day)
  BY <1>1, <1>3 DEF Clock!DayNumber
<1>6. QED
  BY <1>4, <1>5 DEF Clock!ToEpochSeconds, Clock!EpochOf

\* For every year the hand-written day count is the Gregorian calendar's: the days
\* follow each other one by one from 1970 on, the cycle is 400 years long, and a
\* date the calendar has not is refused (_days_from_civil, _days_in_month).
THEOREM CalendarIsRight ==
  ASSUME NEW year \in Nat
  PROVE  Clock!CalendarIsGregorian(year)
<1>1. Clock!DaysFromCivil(1970, 1, 1) = 0
  BY DEF Clock!DaysFromCivil
<1>2. \A d \in Clock!Dates(year) : Clock!DayNumber(Clock!NextDate(d)) = Clock!DayNumber(d) + 1
  BY NextDateFacts
<1>3. \A d \in Clock!Dates(year) : Clock!DayNumber(Clock!AfterACycle(d)) = Clock!DayNumber(d) + 146097
  <2>1. TAKE d \in Clock!Dates(year)
  <2>2. PICK month \in 1..12, day \in 1..31 : d = [year |-> year, month |-> month, day |-> day]
    BY DateFacts
  <2>3. Clock!DaysFromCivil(year + 400, month, day) = Clock!DaysFromCivil(year, month, day) + 146097
    <3>1. month \in {1, 2, 3, 4, 5, 6, 7, 8, 9, 10, 11, 12}
      OBVIOUS
    <3>2. QED
      BY <3>1 DEF Clock!DaysFromCivil
  <2>4. Clock!AfterACycle(d) = [year |-> year + 400, month |-> month, day |-> day]
    BY <2>2 DEF Clock!AfterACycle
  <2>5. QED
    BY <2>2, <2>3, <2>4 DEF Clock!DayNumber
<1>4. Clock!Cardinality(Clock!Dates(year)) = Clock!DaysFromCivil(year + 1, 1, 1) - Clock!DaysFromCivil(year, 1, 1)
  <2>1. /\ Cardinality(Clock!Dates(year)) = Before(year, 13) /\ Before(year, 13) \in Nat
        /\ YearStart(year) \in Int /\ YearStart(year + 1) = YearStart(year) + Before(year, 13)
    BY DatesAreNumbered, YearsFollow, MonthsFollow
  <2>2. Clock!Cardinality(Clock!Dates(year)) = Cardinality(Clock!Dates(year))
    BY Zenon DEF Clock!Cardinality, Cardinality
  <2>3. Clock!Cardinality(Clock!Dates(year)) = YearStart(year + 1) - YearStart(year)
    BY <2>1, <2>2
  <2>4. QED
    BY <2>3 DEF YearStart
<1>5. ASSUME NEW month \in Nat, NEW day \in Nat
      PROVE  Clock!OnlyDatesAreRead(year, month, day)
  <2> DEFINE t == [year |-> year, month |-> month, day |-> day]
  <2>0. PICK d : d = t
    OBVIOUS
  <2>1. CASE d \in Clock!Dates(year)
    <3>1. PICK ts : ts = Clock!At(d, 0, 0, 0, Clock!Zulu)
      OBVIOUS
    <3>2. TimeOn(d, ts)
      BY <3>1 DEF TimeOn, Clock!At, Clock!Zulu
    <3>3. Clock!ToEpochSeconds(ts) # Clock!NoInstant
      BY <2>1, <3>2, InstantFacts DEF Clock!NoInstant
    <3>4. QED
      BY <2>0, <2>1, <3>1, <3>3 DEF Clock!OnlyDatesAreRead
  <2>2. CASE d \notin Clock!Dates(year)
    <3>1. ~(month \in 1..12 /\ day \in 1..Clock!DaysInMonth(year, month))
      <4>1. SUFFICES ASSUME month \in 1..12, day \in 1..Clock!DaysInMonth(year, month)
                     PROVE  d \in Clock!Dates(year)
        BY <2>2
      <4>2. Clock!DaysInMonth(year, month) \in 28..31
        BY <4>1, MonthsFollow
      <4>3. QED
        BY <2>0, <4>1, <4>2 DEF Clock!Dates
    <3>2. ~Clock!Legible(Clock!At(d, 0, 0, 0, Clock!Zulu))
      BY <2>0, <3>1 DEF Clock!Legible, Clock!At
    <3>3. QED
      BY <2>0, <2>2, <3>2 DEF Clock!ToEpochSeconds, Clock!OnlyDatesAreRead
  <2>3. QED
    BY <2>1, <2>2
<1>6. \A d \in Clock!Dates(year) :
        /\ Clock!DayNumber(Clock!NextDate(d)) = Clock!DayNumber(d) + 1
        /\ Clock!DayNumber(Clock!AfterACycle(d)) = Clock!DayNumber(d) + 146097
  <2>1. TAKE d \in Clock!Dates(year)
  <2>2. QED
    BY <1>2, <1>3
<1>7. \A month \in 0..13, day \in 0..32 : Clock!OnlyDatesAreRead(year, month, day)
  <2>1. \A month, day \in Nat : Clock!OnlyDatesAreRead(year, month, day)
    BY <1>5
  <2>2. \A x : (x \in 0..13 => x \in Nat) /\ (x \in 0..32 => x \in Nat)
    OBVIOUS
  <2>3. QED
    BY <2>1, <2>2, Zenon
<1>8. QED
  BY <1>1, <1>4, <1>6, <1>7 DEF Clock!CalendarIsGregorian

\* For every date an instant written at two offsets is one number, and midnight is
\* the end of the day before it, a leap second included
\* (_rfc3339_to_epoch_seconds).
THEOREM OffsetsAreOneInstant ==
  ASSUME NEW year \in Nat
  PROVE  Clock!OffsetsAgree(year)
<1>1. SUFFICES ASSUME NEW d \in Clock!Dates(year)
               PROVE  /\ \A hours \in {0, 1, 14}, minutes \in {0, 30} :
                           LET utc == Clock!ToEpochSeconds(Clock!At(d, 9, 30, 0, Clock!Zulu))
                               east == Clock!At(d, 9 + hours, 30 + minutes, 0, Clock!Offset("+", hours, minutes))
                               west == Clock!At(d, 9 - hours, 30 - minutes, 0, Clock!Offset("-", hours, minutes))
                           IN /\ east.hour <= 23 /\ east.minute <= 59 => Clock!Same(Clock!ToEpochSeconds(east), utc)
                              /\ west.hour >= 0 => Clock!Same(Clock!ToEpochSeconds(west), utc)
                      /\ Clock!Same(Clock!ToEpochSeconds(Clock!At(d, 23, 59, 60, Clock!Zulu)),
                              Clock!ToEpochSeconds(Clock!At(Clock!NextDate(d), 0, 0, 0, Clock!Zulu)))
                      /\ Clock!Same(Clock!ToEpochSeconds(Clock!At(d, 22, 0, 0, Clock!Offset("-", 2, 0))),
                              Clock!ToEpochSeconds(Clock!At(Clock!NextDate(d), 0, 0, 0, Clock!Zulu)))
  BY DEF Clock!OffsetsAgree
<1> DEFINE D == Clock!DayNumber(d)
<1>2. D \in Int
  BY DateFacts
<1>3. Clock!ToEpochSeconds(Clock!At(d, 9, 30, 0, Clock!Zulu)) = <<D, 34200>>
  <2>1. PICK ts : ts = Clock!At(d, 9, 30, 0, Clock!Zulu)
    OBVIOUS
  <2>2. TimeOn(d, ts) /\ ts.hour = 9 /\ ts.minute = 30 /\ ts.second = 0 /\ Clock!OffsetSeconds(ts.offset) = 0
    BY <2>1 DEF TimeOn, Clock!At, Clock!Zulu, Clock!OffsetSeconds
  <2>3. ts.hour * 3600 + ts.minute * 60 + ts.second - Clock!OffsetSeconds(ts.offset) = 34200
    BY <2>2
  <2>4. QED
    BY <2>1, <2>2, <2>3, InstantFacts
<1>4. Clock!ToEpochSeconds(Clock!At(d, 23, 59, 60, Clock!Zulu)) = <<D, 86400>>
  <2>1. PICK ts : ts = Clock!At(d, 23, 59, 60, Clock!Zulu)
    OBVIOUS
  <2>2. TimeOn(d, ts) /\ ts.hour = 23 /\ ts.minute = 59 /\ ts.second = 60 /\ Clock!OffsetSeconds(ts.offset) = 0
    BY <2>1 DEF TimeOn, Clock!At, Clock!Zulu, Clock!OffsetSeconds
  <2>3. ts.hour * 3600 + ts.minute * 60 + ts.second - Clock!OffsetSeconds(ts.offset) = 86400
    BY <2>2
  <2>4. QED
    BY <2>1, <2>2, <2>3, InstantFacts
<1>5. Clock!ToEpochSeconds(Clock!At(d, 22, 0, 0, Clock!Offset("-", 2, 0))) = <<D, 86400>>
  <2>1. PICK ts : ts = Clock!At(d, 22, 0, 0, Clock!Offset("-", 2, 0))
    OBVIOUS
  <2>2. TimeOn(d, ts) /\ ts.hour = 22 /\ ts.minute = 0 /\ ts.second = 0 /\ Clock!OffsetSeconds(ts.offset) = -7200
    BY <2>1 DEF TimeOn, Clock!At, Clock!Offset, Clock!OffsetSeconds
  <2>3. ts.hour * 3600 + ts.minute * 60 + ts.second - Clock!OffsetSeconds(ts.offset) = 86400
    BY <2>2
  <2>4. QED
    BY <2>1, <2>2, <2>3, InstantFacts
<1>6. Clock!ToEpochSeconds(Clock!At(Clock!NextDate(d), 0, 0, 0, Clock!Zulu)) = <<D + 1, 0>>
  <2>1. PICK y \in Nat : \E next \in Clock!Dates(y) : next = Clock!NextDate(d)
    <3>1. year + 1 \in Nat
      OBVIOUS
    <3>2. QED
      BY <3>1, NextDateFacts
  <2>a. PICK next \in Clock!Dates(y) : next = Clock!NextDate(d)
    BY <2>1
  <2>2. PICK ts : ts = Clock!At(next, 0, 0, 0, Clock!Zulu)
    OBVIOUS
  <2>3. TimeOn(next, ts) /\ ts.hour = 0 /\ ts.minute = 0 /\ ts.second = 0 /\ Clock!OffsetSeconds(ts.offset) = 0
    BY <2>2 DEF TimeOn, Clock!At, Clock!Zulu, Clock!OffsetSeconds
  <2>4. ts.hour * 3600 + ts.minute * 60 + ts.second - Clock!OffsetSeconds(ts.offset) = 0
    BY <2>3
  <2>5. Clock!ToEpochSeconds(ts) = <<Clock!DayNumber(next), 0>>
    BY <2>3, <2>4, InstantFacts
  <2>6. Clock!DayNumber(next) = D + 1
    BY <2>a, NextDateFacts
  <2>7. QED
    BY <2>a, <2>2, <2>5, <2>6
<1>7. ASSUME NEW hours \in {0, 1, 14}, NEW minutes \in {0, 30}, NEW east,
             east = Clock!At(d, 9 + hours, 30 + minutes, 0, Clock!Offset("+", hours, minutes)),
             east.hour <= 23, east.minute <= 59
      PROVE  Clock!ToEpochSeconds(east) = <<D, 34200>>
  <2>1. /\ east.hour = 9 + hours /\ east.minute = 30 + minutes /\ east.second = 0
        /\ Clock!OffsetSeconds(east.offset) = hours * 3600 + minutes * 60
    BY <1>7 DEF Clock!At, Clock!Offset, Clock!OffsetSeconds
  <2>2. TimeOn(d, east)
    BY <1>7, <2>1 DEF TimeOn, Clock!At, Clock!Offset
  <2>3. east.hour * 3600 + east.minute * 60 + east.second - Clock!OffsetSeconds(east.offset) = 34200
    BY <2>1
  <2>4. QED
    BY <2>2, <2>3, InstantFacts
<1>8. ASSUME NEW hours \in {0, 1, 14}, NEW minutes \in {0, 30}, NEW west,
             west = Clock!At(d, 9 - hours, 30 - minutes, 0, Clock!Offset("-", hours, minutes)),
             west.hour >= 0
      PROVE  Clock!ToEpochSeconds(west) = <<D, 34200>>
  <2>1. /\ west.hour = 9 - hours /\ west.minute = 30 - minutes /\ west.second = 0
        /\ Clock!OffsetSeconds(west.offset) = -(hours * 3600 + minutes * 60)
    BY <1>8 DEF Clock!At, Clock!Offset, Clock!OffsetSeconds
  <2>2. TimeOn(d, west)
    BY <1>8, <2>1 DEF TimeOn, Clock!At, Clock!Offset
  <2>3. west.hour * 3600 + west.minute * 60 + west.second - Clock!OffsetSeconds(west.offset) = 34200
    BY <2>1
  <2>4. QED
    BY <2>2, <2>3, InstantFacts
<1> HIDE DEF D
<1>9. /\ Clock!Same(<<D, 34200>>, <<D, 34200>>) /\ Clock!Same(<<D, 86400>>, <<D + 1, 0>>)
  BY <1>2 DEF Clock!Same, Clock!NoInstant
<1>10. \A hours \in {0, 1, 14}, minutes \in {0, 30} :
         LET utc == Clock!ToEpochSeconds(Clock!At(d, 9, 30, 0, Clock!Zulu))
             east == Clock!At(d, 9 + hours, 30 + minutes, 0, Clock!Offset("+", hours, minutes))
             west == Clock!At(d, 9 - hours, 30 - minutes, 0, Clock!Offset("-", hours, minutes))
         IN /\ east.hour <= 23 /\ east.minute <= 59 => Clock!Same(Clock!ToEpochSeconds(east), utc)
            /\ west.hour >= 0 => Clock!Same(Clock!ToEpochSeconds(west), utc)
  <2>1. TAKE hours \in {0, 1, 14}, minutes \in {0, 30}
  <2>2. PICK east, west : /\ east = Clock!At(d, 9 + hours, 30 + minutes, 0, Clock!Offset("+", hours, minutes))
                          /\ west = Clock!At(d, 9 - hours, 30 - minutes, 0, Clock!Offset("-", hours, minutes))
    OBVIOUS
  <2>3. east.hour <= 23 /\ east.minute <= 59 => Clock!ToEpochSeconds(east) = <<D, 34200>>
    BY <1>7, <2>2
  <2>4. west.hour >= 0 => Clock!ToEpochSeconds(west) = <<D, 34200>>
    BY <1>8, <2>2
  <2>5. QED
    BY <1>3, <1>9, <2>2, <2>3, <2>4
<1>11. QED
  BY <1>4, <1>5, <1>6, <1>9, <1>10

\* Both, for every year: when a quote has lapsed is read as the calendar and the
\* clock have it (_rfc3339_to_epoch_seconds, _quote_is_fresh).
THEOREM ClockIsRight ==
  ASSUME NEW year \in Nat
  PROVE  Clock!ClockIsTheCalendar(year)
BY CalendarIsRight, OffsetsAreOneInstant, Zenon DEF Clock!ClockIsTheCalendar
=============================================================================
