--------------------------- MODULE VerifyTxProofs ---------------------------
(***************************************************************************)
(* Proofs about VerifyTx, for every chain of explorers and gateways, every *)
(* record, every deny list and every way the hosts may answer.  And about  *)
(* TransactionCarriage, which takes the record from what an explorer       *)
(* serves, for every response, transaction, chunk limit and cutting.       *)
(***************************************************************************)
EXTENDS VerifyTx, TransactionCarriage, SequenceTheorems, SetInduction

-----------------------------------------------------------------------------
(* The claim being checked and where its bytes come from                   *)

\* The claim being checked is one of the record's.
LEMMA ClaimFacts ==
  ASSUME TypeOK, InClaim
  PROVE  /\ Number \in DOMAIN record.claims /\ Number \in Nat
         /\ Claim \in Claims /\ Claim \in Range(record.claims)
         /\ Claim.kind = "sealed" <=> Claim.seal # "none"
         /\ Claim.kind = "item" => Claim.given = "none"
<1>1. record.claims \in Seq(Claims) /\ checks \in Seq(Checks)
  BY InputsAssumption DEF TypeOK
<1>2. Number \in 1..Len(record.claims)
  BY <1>1 DEF InClaim, Number
<1>3. Claim \in Claims /\ Claim \in Range(record.claims)
  BY <1>1, <1>2 DEF Claim, Range
<1>4. QED
  BY <1>1, <1>2, <1>3, InputsAssumption DEF TypeOK

\* A claim's uris and the gateways of a uri are finite sequences.
LEMMA UriFacts ==
  ASSUME TypeOK, InClaim
  PROVE  /\ Claim.uris \in Seq([scheme : {"ar", "raw", "dag"}, good : BOOLEAN])
         /\ DOMAIN Claim.uris = 1..Len(Claim.uris) /\ Len(Claim.uris) \in Nat
         /\ \A uri : /\ GatewaysOf(uri) \in Seq(Hosts)
                     /\ DOMAIN GatewaysOf(uri) = 1..Len(GatewaysOf(uri))
                     /\ Len(GatewaysOf(uri)) \in Nat
                     /\ Range(GatewaysOf(uri)) \subseteq Configured
<1>1. Claim \in Claims
  BY ClaimFacts
<1>2. Claim.uris \in Seq([scheme : {"ar", "raw", "dag"}, good : BOOLEAN])
  BY <1>1 DEF Claims
<1>3. input.ipfs \in Seq(Hosts)
  BY InputsAssumption DEF TypeOK
<1>4. \A uri : GatewaysOf(uri) \in Seq(Hosts) /\ Range(GatewaysOf(uri)) \subseteq Configured
  BY <1>3, HostsAssumption DEF GatewaysOf, Configured
<1>5. QED
  BY <1>2, <1>4

\* A fresh source is well formed.
LEMMA SourceFacts ==
  ASSUME NEW u \in Nat, NEW g \in Nat \ {0}
  PROVE  /\ Source(u, g) \in Sources
         /\ Source(u, g).uri = u /\ Source(u, g).gw = g /\ Source(u, g).hop = 0
<1>1. 0 \in 0..MaxHops
  BY BoundsAssumption
<1>2. QED
  BY <1>1 DEF Source, Sources

\* Sources are well formed, the next one included; the cursor differs from src
\* only before a claim's first uri.
LEMMA CursorFacts ==
  ASSUME TypeOK, SourceInv, Acquiring
  PROVE  /\ Cursor \in Sources /\ NextUri \in Sources /\ NextSource \in Sources
         /\ NoSource \in Sources
         /\ NextUri.gw = 1 /\ NextUri.hop = 0 /\ NextSource.hop = 0
         /\ NextSource.gw = 1 \/ (NextSource.uri = Cursor.uri /\ Cursor.uri # 0
                                   /\ NextSource.gw <= Len(GatewaysOf(Uri)))
         /\ Cursor.uri \in Nat /\ Cursor.gw \in Nat \ {0} /\ Cursor.hop \in 0..MaxHops
         /\ Cursor = src \/ (Cursor.uri = 1 /\ Cursor.gw = 1 /\ Cursor.hop = 0)
<1> InClaim
  BY DEF Acquiring
<1>1. src \in Sources /\ src.uri \in Nat /\ src.gw \in Nat \ {0} /\ src.hop \in 0..MaxHops
  BY DEF TypeOK, Sources
<1>3. src.uri = 0 => src.gw = 1 /\ src.hop = 0
  <2> SUFFICES ASSUME src.uri = 0
               PROVE  ~(src.gw > 1) /\ ~(src.hop > 0)
    BY <1>1
  <2> QED
    BY UriFacts DEF SourceInv
<1>4. NoSource \in Sources
  BY BoundsAssumption DEF NoSource, Source, Sources
<1>5. /\ Cursor \in Sources
      /\ Cursor.uri \in Nat /\ Cursor.gw \in Nat \ {0} /\ Cursor.hop \in 0..MaxHops
  BY <1>1, <1>3 DEF Cursor, Sources
<1>10. Cursor = src \/ (Cursor.uri = 1 /\ Cursor.gw = 1 /\ Cursor.hop = 0)
  BY <1>1, <1>3 DEF Cursor, Sources
<1>6. NextUri \in Sources /\ NextUri.gw = 1 /\ NextUri.hop = 0
  <2>1. Cursor.uri + 1 \in Nat
    BY <1>5
  <2>2. QED
    BY <2>1, SourceFacts DEF NextUri
<1>7. CASE Cursor.uri # 0 /\ Cursor.gw < Len(GatewaysOf(Uri))
  <2>1. NextSource = Source(Cursor.uri, Cursor.gw + 1)
    BY <1>7 DEF NextSource
  <2>2. Cursor.uri \in Nat /\ Cursor.gw + 1 \in Nat \ {0}
    BY <1>5
  <2>3. Len(GatewaysOf(Uri)) \in Nat
    BY UriFacts
  <2>4. /\ NextSource \in Sources /\ NextSource.uri = Cursor.uri
        /\ NextSource.gw = Cursor.gw + 1 /\ NextSource.hop = 0
    BY <2>1, <2>2, SourceFacts
  <2>5. NextSource.gw <= Len(GatewaysOf(Uri))
    BY <1>5, <1>7, <2>3, <2>4
  <2>6. QED
    BY <1>4, <1>5, <1>6, <1>7, <1>10, <2>4, <2>5
<1>8. CASE ~(Cursor.uri # 0 /\ Cursor.gw < Len(GatewaysOf(Uri)))
  BY <1>4, <1>5, <1>6, <1>8, <1>10 DEF NextSource
<1>9. QED
  BY <1>7, <1>8

\* The uri being fetched has a gateway to ask, which is configured; the request
\* goes to it or to one of its subdomains, never after a redirect to a host of
\* the deny list.
LEMMA HostFacts ==
  ASSUME TypeOK, SourceInv, Fetching, GatewaysOf(Uri) # <<>>
  PROVE  /\ Cursor.gw \in DOMAIN GatewaysOf(Uri)
         /\ Gateway \in Hosts /\ Gateway \in Configured
         /\ Host \in Hosts /\ Host \in Under[Gateway]
         /\ Cursor.hop > 0 => Host \notin input.denied
<1> InClaim /\ Acquiring /\ Cursor.uri \in DOMAIN Claim.uris
  BY DEF Fetching, Acquiring
<1>2. /\ Cursor.uri \in Nat /\ Cursor.gw \in Nat \ {0} /\ Cursor.hop \in 0..MaxHops
      /\ Cursor = src \/ (Cursor.uri = 1 /\ Cursor.gw = 1 /\ Cursor.hop = 0)
  BY CursorFacts
<1>3. /\ GatewaysOf(Uri) \in Seq(Hosts) /\ Len(GatewaysOf(Uri)) \in Nat \ {0}
      /\ DOMAIN GatewaysOf(Uri) = 1..Len(GatewaysOf(Uri))
      /\ Range(GatewaysOf(Uri)) \subseteq Configured
  BY UriFacts
<1>4. Cursor.gw \in DOMAIN GatewaysOf(Uri)
  <2>1. Cursor.gw \in Nat \ {0}
    BY <1>2
  <2>2. Cursor.gw > 1 => Cursor.gw <= Len(GatewaysOf(Uri))
    BY <1>2 DEF SourceInv, Uri
  <2>3. QED
    BY <2>1, <2>2, <1>3
<1>5. Gateway \in Hosts /\ Gateway \in Configured
  BY <1>3, <1>4 DEF Gateway, Range
<1>7. CASE Cursor.hop = 0
  BY <1>4, <1>5, <1>7, HostsAssumption DEF Host
<1>8. CASE Cursor.hop > 0
  <2>1. Cursor = src /\ src.at \in Under[Gateway] \ input.denied
    BY <1>2, <1>8 DEF SourceInv, Uri, Gateway
  <2>2. Host = src.at
    BY <1>8, <2>1 DEF Host
  <2>3. Host \in Hosts
    BY <2>1, <2>2, <1>5, HostsAssumption
  <2>4. QED
    BY <1>4, <1>5, <2>1, <2>2, <2>3
<1>9. QED
  BY <1>2, <1>7, <1>8, BoundsAssumption

-----------------------------------------------------------------------------
(* Issues, verdicts and steps                                              *)

\* The issues of a code, and what a verdict says of them.
LEMMA IssueFacts ==
  ASSUME NEW code \in Codes, NEW claim \in Nat
  PROVE  /\ Issue(code, claim) \in Issues
         /\ Issue(code, claim).error <=> code \notin Warnings
         /\ Condemning(Issue(code, claim)) <=> code \notin Warnings \cup NetworkClass
BY DEF Issue, Issues, Condemning

LEMMA VerdictFacts ==
  ASSUME NEW found
  PROVE  /\ VerdictOf(found) \in {"valid", "unverifiable", "failed"}
         /\ VerdictOf(found) = "failed" <=> \E i \in found : Condemning(i)
         /\ VerdictOf(found) = "valid" <=> ~\E i \in found : i.error
BY DEF VerdictOf, Condemning

\* The caller, the record and the hosts do not change.
LEMMA WorldFacts ==
  ASSUME UNCHANGED world
  PROVE  /\ input' = input /\ record' = record /\ honest' = honest
         /\ Readable' <=> Readable
         /\ Configured' = Configured
         /\ Blame' <=> Blame
         /\ \A claim : Skipped(claim)' <=> Skipped(claim)
BY DEF world, Readable, WillDecrypt, Has, Configured, Blame, Skipped

\* What IInv says of a run that reports, in terms of its issues.
LEMMA Reported ==
  ASSUME Blame \/ ~\E i \in issues : Condemning(i), verdict = VerdictOf(issues)
  PROVE  ProvidersCannotCondemn
BY VerdictFacts DEF ProvidersCannotCondemn, Blame

\* An answer of an explorer, whatever it says.
LEMMA AskedStep ==
  ASSUME IInv, ProviderAsked({"cbor", "info", "tip"}),
         pc' \in {"cbor", "info", "tip", "record"}, provider' \in 1..(Len(Providers) + 1),
         saw' \subseteq {"unusable", "negative", "wrong_bytes"},
         height' \in Nat, depth' \in Nat, pc' = "record" => depth' >= 1
  PROVE  IInv'
<1> DEFINE p == Providers[provider]
<1>1. /\ pc \in {"cbor", "info", "tip"} /\ UNCHANGED world
      /\ UNCHANGED <<checks, src, waiting>> /\ UNCHANGED <<issues, verdict>>
      /\ calls' = calls \cup {[host |-> p, reached |-> TRUE]} /\ p \notin input.denied
  BY DEF ProviderAsked, Reached, contentVars
<1>2. p \in Range(Providers) /\ p \in Hosts /\ p \in Configured /\ p \in Under[p]
  <2>1. Providers \in Seq(Hosts)
    BY HostsAssumption DEF Providers
  <2>2. provider \in 1..Len(Providers)
    BY <2>1 DEF IInv, TypeOK, ProviderAsked
  <2>3. QED
    BY <2>1, <2>2, HostsAssumption DEF Range, Configured
<1>3. issues = {} /\ checks = <<>> /\ verdict = "none"
      /\ \A call \in calls : call.host \in Range(Providers)
  BY <1>1 DEF IInv, StageInv
<1>4. TypeOK'
  <2>1. calls' \subseteq [host : Hosts, reached : BOOLEAN]
    <3>1. calls \subseteq [host : Hosts, reached : BOOLEAN]
      BY DEF IInv, TypeOK
    <3>2. [host |-> p, reached |-> TRUE] \in [host : Hosts, reached : BOOLEAN]
      BY <1>2
    <3>3. QED
      BY <1>1, <3>1, <3>2
  <2>2. input' = input /\ record' = record /\ honest' = honest
    BY <1>1, WorldFacts
  <2>3. QED
    BY <1>1, <2>1, <2>2 DEF IInv, TypeOK
<1>5. StageInv' /\ IssuesInv'
  <2>1. \A call \in calls : call.reached
    BY <1>3 DEF IInv, IssuesInv
  <2>2. QED
    BY <1>1, <1>2, <1>3, <2>1 DEF StageInv, IssuesInv
<1>6. SourceInv'
  <2>1. ~(src.gw > 1) /\ ~(src.hop > 0)
    BY <1>1 DEF IInv, SourceInv, InClaim
  <2>2. QED
    BY <1>1, <2>1 DEF SourceInv
<1>7. ProvidersCannotCondemn' /\ ValidMeansChecked' /\ RefusalIsReported'
  BY <1>1, <1>3 DEF ProvidersCannotCondemn, ValidMeansChecked, RefusalIsReported
<1>8. DeniedNeverReached' /\ StaysOnConfiguredSites' /\ PendingConcludesNothing'
  BY <1>1, <1>2, <1>3, WorldFacts
     DEF IInv, DeniedNeverReached, StaysOnConfiguredSites, PendingConcludesNothing, world
<1>9. QED
  BY <1>4, <1>5, <1>6, <1>7, <1>8 DEF IInv

\* What a report has to say: it blames nobody without reason, hides no refusal,
\* and finds no error only when everything has been checked.
FairReport ==
  /\ pc' = "done" /\ verdict' = VerdictOf(issues') /\ issues' \subseteq Issues
  /\ (\E i \in issues' : Condemning(i)) => Blame
  /\ (\E call \in calls' : ~call.reached) => \E i \in issues' : Condemning(i)
  /\ (~\E i \in issues' : i.error) =>
       /\ Readable /\ depth >= Threshold /\ Len(checks) = Len(record.claims)
       /\ \A c \in DOMAIN checks :
            ~Skipped(record.claims[c]) =>
              \/ checks[c] = "checked"
              \/ record.claims[c].kind = "merkle" /\ "checked" \in Range(checks)

\* The last call, if any, is one to an explorer that is refused.
RefusedCall ==
  /\ calls' \subseteq [host : Hosts, reached : BOOLEAN]
  /\ \A call \in calls' : call \in calls \/ (call.host \in Range(Providers) /\ ~call.reached)

\* A run that ends with a report.
LEMMA ReportStep ==
  ASSUME IInv, pc # "done", ~InClaim, FairReport, RefusedCall,
         UNCHANGED <<world, contentVars, resolveVars>>
  PROVE  IInv'
<1>1. /\ pc' = "done" /\ verdict' = VerdictOf(issues')
      /\ input' = input /\ record' = record /\ honest' = honest
      /\ checks' = checks /\ src' = src /\ waiting' = waiting
      /\ provider' = provider /\ saw' = saw /\ height' = height /\ depth' = depth
  BY DEF FairReport, world, contentVars, resolveVars
<1>2. /\ Readable' <=> Readable
      /\ Configured' = Configured
      /\ Blame' <=> Blame
      /\ \A claim : Skipped(claim)' <=> Skipped(claim)
  BY WorldFacts
<1>3. /\ verdict' \in {"valid", "unverifiable", "failed"}
      /\ verdict' = "failed" <=> \E i \in issues' : Condemning(i)
      /\ verdict' = "valid" <=> ~\E i \in issues' : i.error
  BY <1>1, VerdictFacts
<1>4. TypeOK'
  BY <1>1, <1>3 DEF IInv, TypeOK, FairReport, RefusedCall
<1>5. StageInv' /\ IssuesInv'
  BY <1>1, <1>2 DEF StageInv, IssuesInv, FairReport
<1>6. SourceInv'
  BY <1>1 DEF IInv, SourceInv
<1>7. ProvidersCannotCondemn'
  <2>1. verdict' = "failed" => Blame'
    BY <1>2, <1>3 DEF FairReport
  <2>2. QED
    BY <2>1 DEF ProvidersCannotCondemn, Blame
<1>8. ValidMeansChecked'
  BY <1>1, <1>2, <1>3 DEF ValidMeansChecked, FairReport
<1>9. RefusalIsReported'
  BY <1>1, <1>3 DEF RefusalIsReported, FairReport
<1>10. DeniedNeverReached'
  BY <1>1 DEF IInv, DeniedNeverReached, RefusedCall
<1>11. StaysOnConfiguredSites'
  <2>1. Providers \in Seq(Hosts) /\ Range(Providers) \subseteq Hosts
    BY HostsAssumption DEF Providers, Range
  <2>2. \A h \in Range(Providers) : h \in Configured /\ h \in Under[h]
    BY <2>1, HostsAssumption DEF Configured
  <2>3. QED
    BY <1>2, <2>2 DEF IInv, StaysOnConfiguredSites, RefusedCall
<1>12. PendingConcludesNothing'
  BY <1>1 DEF IInv, PendingConcludesNothing, RefusedCall
<1>13. QED
  BY <1>4, <1>5, <1>6, <1>7, <1>8, <1>9, <1>10, <1>11, <1>12 DEF IInv

-----------------------------------------------------------------------------
(* Steps of the content stage                                              *)

\* The step makes no call, one to a host that is not denied, or one that is
\* refused and reported.
OneCall ==
  \/ calls' = calls
  \/ \E host \in Hosts, h \in Configured :
       /\ host \in Under[h]
       /\ \/ /\ host \notin input.denied
             /\ calls' = calls \cup {[host |-> host, reached |-> TRUE]}
          \/ /\ \E issue \in issues' : Condemning(issue)
             /\ calls' = calls \cup {[host |-> host, reached |-> FALSE]}

\* The step goes on with the content stage, settling a claim at most.
Goes ==
  /\ UNCHANGED <<world, resolveVars, pc, verdict>>
  /\ issues \subseteq issues' /\ issues' \subseteq Issues
  /\ waiting \subseteq waiting'
  /\ \/ checks' = checks
     \/ \E check \in Checks : checks' = Append(checks, check)

\* A step of the content stage keeps the invariant if it calls no host it must
\* not, blames nobody without reason and accounts for the claim it settles.
LEMMA ContentStep ==
  ASSUME IInv, InClaim, Goes, OneCall,
         waiting' \subseteq [claim : DOMAIN checks', limit : BOOLEAN],
         src' \in Sources, SourceInv',
         \A issue \in issues' : issue \in issues \/ (Condemning(issue) => Blame),
         \A c \in DOMAIN checks' : c \in DOMAIN checks \/ Accounted(c)'
  PROVE  IInv'
<1>1. /\ pc = "content" /\ pc' = "content" /\ verdict = "none" /\ verdict' = "none"
      /\ input' = input /\ record' = record /\ honest' = honest
      /\ provider' = provider /\ saw' = saw /\ height' = height /\ depth' = depth
  BY DEF Goes, InClaim, IInv, StageInv, world, resolveVars
<1>2. /\ Readable' <=> Readable
      /\ Configured' = Configured
      /\ Blame' <=> Blame
      /\ \A claim : Skipped(claim)' <=> Skipped(claim)
  BY <1>1, WorldFacts DEF world
<1>3. Readable /\ depth >= Threshold /\ depth \in Nat
  BY <1>1 DEF IInv, StageInv, TypeOK
<1>4. /\ checks' \in Seq(Checks) /\ Len(checks') <= Len(record.claims)
      /\ DOMAIN checks \subseteq DOMAIN checks'
      /\ \A c \in DOMAIN checks : checks'[c] = checks[c]
  <2>1. record.claims \in Seq(Claims)
    BY InputsAssumption DEF IInv, TypeOK
  <2>2. /\ checks \in Seq(Checks) /\ Len(checks) \in Nat /\ Len(record.claims) \in Nat
        /\ Len(checks) + 1 <= Len(record.claims)
    BY <2>1 DEF IInv, TypeOK, InClaim, Number
  <2>3. CASE checks' = checks
    BY <2>2, <2>3
  <2>4. CASE \E check \in Checks : checks' = Append(checks, check)
    BY <2>2, <2>4
  <2>5. QED
    BY <2>3, <2>4 DEF Goes
<1> DEFINE CallsGood ==
      /\ calls' \subseteq [host : Hosts, reached : BOOLEAN]
      /\ \A call \in calls' : call.reached => call.host \notin input.denied
      /\ \A call \in calls' : \E h \in Configured : call.host \in Under[h]
      /\ (\E call \in calls' : ~call.reached) => \E issue \in issues' : Condemning(issue)
<1>5. CallsGood
  <2>1. /\ calls \subseteq [host : Hosts, reached : BOOLEAN]
        /\ \A call \in calls : call.reached => call.host \notin input.denied
        /\ \A call \in calls : \E h \in Configured : call.host \in Under[h]
        /\ (\E call \in calls : ~call.reached) => \E issue \in issues' : Condemning(issue)
    BY DEF IInv, TypeOK, DeniedNeverReached, StaysOnConfiguredSites, IssuesInv, Goes
  <2>2. CASE calls' = calls
    BY <2>1, <2>2
  <2>3. ASSUME NEW call \in [host : Hosts, reached : BOOLEAN], calls' = calls \cup {call},
               \E h \in Configured : call.host \in Under[h],
               call.reached => call.host \notin input.denied,
               ~call.reached => \E issue \in issues' : Condemning(issue)
        PROVE  CallsGood
    BY <2>1, <2>3
  <2> HIDE DEF CallsGood
  <2>4. ASSUME NEW host \in Hosts, NEW h \in Configured, host \in Under[h],
               host \notin input.denied,
               calls' = calls \cup {[host |-> host, reached |-> TRUE]}
        PROVE  CallsGood
    <3> DEFINE call == [host |-> host, reached |-> TRUE]
    <3>1. /\ call \in [host : Hosts, reached : BOOLEAN]
          /\ call.host = host /\ call.reached = TRUE /\ calls' = calls \cup {call}
      BY <2>4
    <3> HIDE DEF call
    <3>2. QED
      BY <2>3, <2>4, <3>1
  <2>5. ASSUME NEW host \in Hosts, NEW h \in Configured, host \in Under[h],
               \E issue \in issues' : Condemning(issue),
               calls' = calls \cup {[host |-> host, reached |-> FALSE]}
        PROVE  CallsGood
    <3> DEFINE call == [host |-> host, reached |-> FALSE]
    <3>1. /\ call \in [host : Hosts, reached : BOOLEAN]
          /\ call.host = host /\ call.reached = FALSE /\ calls' = calls \cup {call}
      BY <2>5
    <3> HIDE DEF call
    <3>2. QED
      BY <2>3, <2>5, <3>1
  <2>6. QED
    BY <2>2, <2>4, <2>5 DEF OneCall
<1>6. TypeOK'
  BY <1>1, <1>3, <1>4, <1>5 DEF IInv, TypeOK, Goes, StageInv
<1>7. StageInv'
  BY <1>1, <1>2, <1>3 DEF StageInv
<1>8. IssuesInv'
  <2>1. (\E issue \in issues' : Condemning(issue)) => Blame
    BY DEF IInv, IssuesInv
  <2>2. ASSUME NEW c \in DOMAIN checks
        PROVE  Accounted(c)'
    <3>1. Accounted(c)
      BY <1>1 DEF IInv, IssuesInv
    <3>2. QED
      BY <1>1, <1>2, <1>4, <3>1 DEF Accounted, Goes
  <2>3. QED
    BY <1>2, <1>5, <2>1, <2>2 DEF IssuesInv
<1>9. ProvidersCannotCondemn' /\ ValidMeansChecked' /\ RefusalIsReported'
  BY <1>1 DEF ProvidersCannotCondemn, ValidMeansChecked, RefusalIsReported
<1>10. DeniedNeverReached' /\ StaysOnConfiguredSites'
  BY <1>1, <1>2, <1>5 DEF DeniedNeverReached, StaysOnConfiguredSites
<1>11. PendingConcludesNothing'
  BY <1>1, <1>3, BoundsAssumption DEF PendingConcludesNothing
<1>12. QED
  BY <1>6, <1>7, <1>8, <1>9, <1>10, <1>11 DEF IInv

\* A step that settles the claim, and says why when it leaves it unchecked.
LEMMA SettleStep ==
  ASSUME IInv, InClaim, NEW check \in Checks, NEW codes \in SUBSET Codes,
         Settle(check, codes), OneCall, UNCHANGED <<world, resolveVars, pc, verdict>>,
         \/ waiting' = waiting
         \/ \E limit \in BOOLEAN : waiting' = waiting \cup {[claim |-> Number, limit |-> limit]},
         codes \subseteq Warnings \cup NetworkClass \/ Blame,
         \/ check = "checked" \/ Skipped(Claim) \/ \E code \in codes : code \notin Warnings
         \/ Claim.kind = "merkle" /\ \E marker \in waiting' : marker.claim = Number
  PROVE  IInv'
<1>1. /\ checks' = Append(checks, check) /\ src' = NoSource
      /\ issues' = issues \cup {Issue(code, Number) : code \in codes}
  BY DEF Settle
<1>2. Number \in Nat /\ Number = Len(checks) + 1 /\ checks \in Seq(Checks)
  BY ClaimFacts DEF IInv, TypeOK, Number
<1>3. /\ DOMAIN checks' = DOMAIN checks \cup {Number} /\ checks'[Number] = check
      /\ \A c \in DOMAIN checks : checks'[c] = checks[c]
  BY <1>1, <1>2
<1>4. \A code \in codes :
        /\ Issue(code, Number) \in Issues
        /\ Issue(code, Number).error <=> code \notin Warnings
        /\ Condemning(Issue(code, Number)) <=> code \notin Warnings \cup NetworkClass
  BY <1>2, IssueFacts
<1>5. Goes
  BY <1>1, <1>4 DEF Goes, IInv, TypeOK
<1>6. waiting' \subseteq [claim : DOMAIN checks', limit : BOOLEAN]
  <2>1. waiting \subseteq [claim : DOMAIN checks', limit : BOOLEAN]
    BY <1>3 DEF IInv, TypeOK
  <2>2. \A limit \in BOOLEAN :
          [claim |-> Number, limit |-> limit] \in [claim : DOMAIN checks', limit : BOOLEAN]
    BY <1>3
  <2>3. QED
    BY <2>1, <2>2
<1>7. src' \in Sources /\ SourceInv'
  <2>1. src' \in Sources /\ src'.gw = 1 /\ src'.hop = 0
    BY <1>1, SourceFacts DEF NoSource
  <2>2. QED
    BY <2>1 DEF SourceInv
<1>8. \A issue \in issues' : issue \in issues \/ (Condemning(issue) => Blame)
  BY <1>1, <1>4
<1>9. ASSUME NEW c \in DOMAIN checks', c \notin DOMAIN checks
      PROVE  Accounted(c)'
  <2>1. c = Number /\ checks'[c] = check /\ record'.claims[c] = Claim /\ record' = record
    BY <1>3, <1>9 DEF Claim, world
  <2>2. CASE check = "checked"
    BY <2>1, <2>2 DEF Accounted
  <2>3. CASE Skipped(Claim)
    <3>1. Skipped(record.claims[c])'
      BY <2>1, <2>3, WorldFacts
    <3>2. QED
      BY <3>1 DEF Accounted
  <2>4. CASE \E code \in codes : code \notin Warnings
    <3>1. \E issue \in issues' : issue.error
      BY <1>1, <1>4, <2>4
    <3>2. QED
      BY <3>1 DEF Accounted
  <2>5. CASE Claim.kind = "merkle" /\ \E marker \in waiting' : marker.claim = Number
    BY <2>1, <2>5 DEF Accounted
  <2>6. QED
    BY <2>2, <2>3, <2>4, <2>5
<1>10. QED
  BY <1>5, <1>6, <1>7, <1>8, <1>9, ContentStep

\* A step that leaves a source behind, with an issue.
LEMMA MoveStep ==
  ASSUME IInv, Acquiring, Fetching \/ Cursor.uri = 0, NEW code \in Codes,
         issues' = issues \cup {Issue(code, Number)}, src' \in {NextSource, NextUri}, OneCall,
         UNCHANGED <<world, resolveVars, pc, verdict, checks, waiting>>,
         code \in Warnings \cup NetworkClass \/ Blame
  PROVE  IInv'
<1>1. InClaim /\ TypeOK /\ SourceInv
  BY DEF Acquiring, IInv
<1>2. /\ Issue(code, Number) \in Issues
      /\ Condemning(Issue(code, Number)) <=> code \notin Warnings \cup NetworkClass
  BY <1>1, ClaimFacts, IssueFacts
<1>3. Goes
  BY <1>1, <1>2 DEF Goes, TypeOK
<1>4. /\ src' \in Sources /\ src'.hop = 0
      /\ src'.gw > 1 => /\ src'.uri = Cursor.uri /\ Cursor.uri # 0
                        /\ src'.gw <= Len(GatewaysOf(Uri))
  BY <1>1, CursorFacts
<1>5. SourceInv'
  <2>1. InClaim' /\ Claim' = Claim /\ input' = input
    BY <1>1 DEF InClaim, Number, Claim, world
  <2>2. \A uri : GatewaysOf(uri)' = GatewaysOf(uri)
    BY <2>1 DEF GatewaysOf
  <2>3. src'.gw > 1 => src'.uri \in DOMAIN Claim.uris /\ Uri = Claim.uris[src'.uri]
    BY <1>4 DEF Fetching, Uri
  <2>4. QED
    BY <1>4, <2>1, <2>2, <2>3 DEF SourceInv
<1>6. QED
  BY <1>1, <1>2, <1>3, <1>4, <1>5, ContentStep DEF TypeOK

\* What is made of a blob; a rejection or a refusal to open it that ends the
\* claim has somebody at fault.
LEMMA JudgementFacts ==
  ASSUME TypeOK, Acquiring, NEW satisfies \in BOOLEAN
  PROVE  /\ Judgement(Claim, satisfies) \in
              {"checked", "rejected", "URI_INTEGRITY_MISMATCH", "TAMPERED_HEADER",
               "KDF_DERIVATION_FAILED"}
         /\ Judgement(Claim, satisfies) \notin {"checked", "rejected"} => AtFault(Claim)
         /\ Judgement(Claim, satisfies) = "rejected" => ~satisfies \/ AtFault(Claim)
         /\ MismatchCode(Claim) \in
              {"URI_INTEGRITY_MISMATCH", "TAMPERED_CIPHERTEXT", "MERKLE_ROOT_MISMATCH"}
<1>1. /\ Claim \in Claims /\ ~Keyless(Claim)
      /\ Claim.kind = "sealed" <=> Claim.seal # "none"
  BY ClaimFacts DEF Acquiring
<1>2. Claim.kind \in {"item", "sealed", "merkle"}
  BY <1>1 DEF Claims
<1>3. Claim.kind = "sealed" =>
        Claim.seal \in {"opens", "bad_plaintext", "header_failure", "input_failure",
                        "wrong_passphrase"}
  BY <1>1 DEF Claims, Keyless
<1>4. CASE Claim.kind = "sealed"
  BY <1>3, <1>4 DEF Judgement, AtFault, MismatchCode
<1>5. CASE Claim.kind # "sealed"
  BY <1>2, <1>5 DEF Judgement, MismatchCode
<1>6. QED
  BY <1>4, <1>5

\* A claim that consumes a blob, if whoever vouches for a bad one is to blame.
LEMMA ConsumeStep ==
  ASSUME IInv, Acquiring, Fetching \/ Cursor.uri = 0,
         NEW satisfies \in BOOLEAN, NEW attributable \in BOOLEAN,
         Consume(satisfies, attributable), OneCall,
         UNCHANGED <<world, resolveVars, waiting, pc, verdict>>,
         attributable /\ ~satisfies => AtFault(Claim)
  PROVE  IInv'
<1> DEFINE judgement == Judgement(Claim, satisfies)
<1>1. InClaim /\ TypeOK
  BY DEF Acquiring, IInv
<1>2. /\ judgement \in {"checked", "rejected", "URI_INTEGRITY_MISMATCH", "TAMPERED_HEADER",
                        "KDF_DERIVATION_FAILED"}
      /\ judgement \notin {"checked", "rejected"} => AtFault(Claim)
      /\ judgement = "rejected" => ~satisfies \/ AtFault(Claim)
      /\ MismatchCode(Claim) \in
           {"URI_INTEGRITY_MISMATCH", "TAMPERED_CIPHERTEXT", "MERKLE_ROOT_MISMATCH"}
  BY <1>1, JudgementFacts
<1>3. AtFault(Claim) => Blame
  BY <1>1, ClaimFacts DEF Blame
<1>4. ASSUME NEW check \in Checks, NEW code \in Codes \ Warnings,
             Settle(check, {code}), AtFault(Claim)
      PROVE  IInv'
  BY <1>1, <1>3, <1>4, SettleStep
<1>5. CASE judgement = "checked"
  <2>1. Settle("checked", {}) /\ "checked" \in Checks
    BY <1>5 DEF Consume, Checks
  <2>2. QED
    BY <1>1, <2>1, SettleStep
<1>6. CASE judgement = "rejected" /\ attributable
  <2>1. Settle("mismatched", {MismatchCode(Claim)}) /\ "mismatched" \in Checks
    BY <1>6 DEF Consume, Checks
  <2>2. MismatchCode(Claim) \in Codes \ Warnings
    BY <1>2 DEF Warnings, Codes
  <2>3. QED
    BY <1>2, <1>4, <1>6, <2>1, <2>2
<1>7. CASE judgement = "rejected" /\ ~attributable
  <2>1. /\ issues' = issues \cup {Issue("URI_PROVIDER_INTEGRITY_MISMATCH", Number)}
        /\ src' = NextSource /\ UNCHANGED checks
    BY <1>7 DEF Consume
  <2>2. "URI_PROVIDER_INTEGRITY_MISMATCH" \in Codes \cap Warnings
    BY DEF Warnings, Codes
  <2>3. QED
    BY <2>1, <2>2, MoveStep
<1>8. CASE judgement \in {"URI_INTEGRITY_MISMATCH", "TAMPERED_HEADER", "KDF_DERIVATION_FAILED"}
  <2>1. \E check \in Checks : Settle(check, {judgement})
    BY <1>8 DEF Consume, Checks
  <2>2. judgement \in Codes \ Warnings
    BY <1>8 DEF Warnings, Codes
  <2>3. QED
    BY <1>2, <1>4, <1>8, <2>1, <2>2
<1>9. QED
  BY <1>2, <1>5, <1>6, <1>7, <1>8

-----------------------------------------------------------------------------
(* The actions                                                             *)

\* An explorer that is given up leaves its evidence and the turn to the next.
LEMMA GiveUpFacts ==
  ASSUME TypeOK, provider <= Len(Providers),
         NEW evidence \in {"unusable", "negative", "wrong_bytes"}, GiveUp(evidence)
  PROVE  /\ pc' = "cbor" /\ height' = 0 /\ depth' = depth /\ depth' \in Nat /\ height' \in Nat
         /\ provider' \in 1..(Len(Providers) + 1)
         /\ saw' \subseteq {"unusable", "negative", "wrong_bytes"}
<1>1. Len(Providers) \in Nat
  BY HostsAssumption DEF Providers
<1>2. /\ provider \in 1..(Len(Providers) + 1) /\ depth \in Nat
      /\ saw \subseteq {"unusable", "negative", "wrong_bytes"}
  BY DEF TypeOK
<1>3. QED
  BY <1>1, <1>2 DEF GiveUp

\* The invariant survives the steps of resolving.
LEMMA ResolveStep ==
  ASSUME IInv, Resolve
  PROVE  IInv'
<1>1. /\ TypeOK /\ provider \in 1..(Len(Providers) + 1) /\ Len(Providers) \in Nat
      /\ height \in Nat /\ depth \in Nat
      /\ saw \subseteq {"unusable", "negative", "wrong_bytes"}
      /\ calls \subseteq [host : Hosts, reached : BOOLEAN]
  BY HostsAssumption DEF IInv, TypeOK, Providers
<1>2. ASSUME pc = "cbor"
      PROVE  /\ issues = {} /\ \A call \in calls : call.reached
             /\ ~InClaim
  BY <1>2 DEF IInv, StageInv, IssuesInv, InClaim
<1>3. CASE ProviderDenied
  <2> DEFINE call == [host |-> Providers[provider], reached |-> FALSE]
             found == {Issue("SERVICE_INDEPENDENCE_VIOLATION", 0)}
  <2>1. /\ pc = "cbor" /\ provider \in 1..Len(Providers) /\ Providers[provider] \in input.denied
        /\ calls' = calls \cup {call} /\ Report(found)
        /\ UNCHANGED <<world, contentVars, resolveVars>>
    BY <1>1, <1>3 DEF ProviderDenied, Refused, resolveVars
  <2>2. Providers[provider] \in Hosts /\ Providers[provider] \in Range(Providers)
    <3>1. Providers \in Seq(Hosts)
      BY HostsAssumption DEF Providers
    <3>2. QED
      BY <2>1, <3>1 DEF Range
  <2>3. RefusedCall
    <3>1. /\ call \in [host : Hosts, reached : BOOLEAN]
          /\ call.host = Providers[provider] /\ call.reached = FALSE
      BY <2>2
    <3> HIDE DEF call
    <3>2. QED
      BY <1>1, <2>1, <2>2, <3>1 DEF RefusedCall
  <2>4. FairReport
    <3>1. Blame
      BY <2>1, <2>2 DEF Blame, Configured
    <3>2. /\ Issue("SERVICE_INDEPENDENCE_VIOLATION", 0) \in Issues
          /\ Condemning(Issue("SERVICE_INDEPENDENCE_VIOLATION", 0))
          /\ Issue("SERVICE_INDEPENDENCE_VIOLATION", 0).error
      BY IssueFacts DEF Codes, Warnings, NetworkClass
    <3>3. QED
      BY <2>1, <3>1, <3>2 DEF FairReport, Report
  <2>5. QED
    BY <1>2, <2>1, <2>3, <2>4, ReportStep
<1>4. CASE ResolveFails
  <2>1. PICK code \in {"TX_INTEGRITY_MISMATCH", "TX_NOT_FOUND", "PROVIDER_UNAVAILABLE"} :
          Report({Issue(code, 0)})
    <3>1. \/ "wrong_bytes" \in saw
          \/ "wrong_bytes" \notin saw /\ "negative" \in saw
          \/ saw \subseteq {"unusable"} /\ "wrong_bytes" \notin saw /\ "negative" \notin saw
      BY <1>1
    <3>2. QED
      BY <1>4, <3>1 DEF ResolveFails
  <2>2. /\ pc = "cbor" /\ calls' = calls
        /\ UNCHANGED <<world, contentVars, resolveVars>>
    BY <1>4 DEF ResolveFails, resolveVars
  <2>3. RefusedCall
    BY <1>1, <2>2 DEF RefusedCall
  <2>4. FairReport
    <3>1. code \in Codes /\ code \notin Warnings /\ code \in NetworkClass
      BY DEF Codes, Warnings, NetworkClass
    <3>2. /\ Issue(code, 0) \in Issues /\ ~Condemning(Issue(code, 0)) /\ Issue(code, 0).error
      BY <3>1, IssueFacts
    <3>3. QED
      BY <1>2, <2>1, <2>2, <3>2 DEF FairReport, Report
  <2>5. QED
    BY <1>2, <2>1, <2>2, <2>3, <2>4, ReportStep
<1>5. CASE ProviderUnusable \/ ProviderNegative \/ BindingFails
  <2>1. PICK evidence \in {"unusable", "negative", "wrong_bytes"} : GiveUp(evidence)
    BY <1>5 DEF ProviderUnusable, ProviderNegative, BindingFails
  <2>2. ProviderAsked({"cbor", "info", "tip"})
    BY <1>5 DEF ProviderUnusable, ProviderNegative, BindingFails, ProviderAsked
  <2>3. provider <= Len(Providers)
    BY <2>2 DEF ProviderAsked
  <2>4. QED
    BY <1>1, <2>1, <2>2, <2>3, GiveUpFacts, AskedStep
<1>6. CASE BindingHolds
  BY <1>1, <1>6, AskedStep DEF BindingHolds, ProviderAsked
<1>7. CASE InfoAnswered
  <2>1. ProviderAsked({"cbor", "info", "tip"})
    BY <1>7 DEF InfoAnswered, ProviderAsked
  <2>2. CASE \E n \in 1..MaxHeight : Resolved(n)
    BY <1>1, <2>1, <2>2, BoundsAssumption, AskedStep DEF Resolved
  <2>3. CASE /\ height' \in 1..MaxHeight /\ pc' = "tip"
             /\ UNCHANGED <<provider, saw, depth>>
    BY <1>1, <2>1, <2>3, BoundsAssumption, AskedStep
  <2>4. QED
    BY <1>7, <2>2, <2>3 DEF InfoAnswered
<1>8. CASE TipAnswered
  <2>1. ProviderAsked({"cbor", "info", "tip"}) /\ provider <= Len(Providers)
    BY <1>8 DEF TipAnswered, ProviderAsked
  <2>2. CASE GiveUp("unusable")
    BY <1>1, <2>1, <2>2, GiveUpFacts, AskedStep
  <2>3. ASSUME NEW tip \in 0..MaxHeight, tip >= height, Resolved(tip - height + 1)
        PROVE  IInv'
    <3>1. tip - height + 1 \in Nat /\ tip - height + 1 >= 1
      BY <1>1, <2>3, BoundsAssumption
    <3>2. QED
      BY <1>1, <2>1, <2>3, <3>1, AskedStep DEF Resolved
  <2>4. QED
    BY <1>8, <2>2, <2>3 DEF TipAnswered
<1>9. QED
  BY <1>3, <1>4, <1>5, <1>6, <1>7, <1>8 DEF Resolve

\* The invariant survives the reading of the record.
LEMMA ReadRecordStep ==
  ASSUME IInv, ReadRecord
  PROVE  IInv'
<1>1. /\ pc = "record" /\ verdict = "none" /\ issues = {} /\ checks = <<>>
      /\ ~InClaim /\ waiting = {} /\ ~(src.gw > 1) /\ ~(src.hop > 0)
      /\ \A call \in calls : call.reached /\ call.host \in Range(Providers)
  <2>1. pc = "record"
    BY DEF ReadRecord, RecordRejected, TooShallow, StartContent
  <2>2. /\ verdict = "none" /\ issues = {} /\ checks = <<>>
        /\ \A call \in calls : call.host \in Range(Providers)
    BY <2>1 DEF IInv, StageInv
  <2>3. ~InClaim /\ \A call \in calls : call.reached
    BY <2>1, <2>2 DEF InClaim, IInv, IssuesInv
  <2>4. waiting = {}
    <3>1. waiting \subseteq [claim : DOMAIN checks, limit : BOOLEAN] /\ DOMAIN checks = {}
      BY <2>2 DEF IInv, TypeOK
    <3>2. QED
      BY <3>1
  <2>5. QED
    BY <2>1, <2>2, <2>3, <2>4 DEF IInv, SourceInv
<1>2. /\ TypeOK /\ calls \subseteq [host : Hosts, reached : BOOLEAN]
      /\ record.claims \in Seq(Claims) /\ DOMAIN record.claims = 1..Len(record.claims)
      /\ Len(record.claims) \in Nat
  BY InputsAssumption DEF IInv, TypeOK
<1>3. CASE RecordRejected
  <2>1. PICK code \in {"SCHEMA", "METADATA_NOT_FOUND"} : Report({Issue(code, 0)})
    BY <1>3 DEF RecordRejected
  <2>2. ~Readable /\ calls' = calls /\ UNCHANGED <<world, contentVars, resolveVars>>
    BY <1>3 DEF RecordRejected
  <2>3. RefusedCall
    BY <1>2, <2>2 DEF RefusedCall
  <2>4. FairReport
    <3>1. code \in Codes /\ code \notin Warnings
      BY DEF Codes, Warnings, NetworkClass
    <3>2. Issue(code, 0) \in Issues /\ Issue(code, 0).error
      BY <3>1, IssueFacts
    <3>3. Blame
      BY <2>2 DEF Blame
    <3>4. QED
      BY <1>1, <2>1, <2>2, <3>2, <3>3 DEF FairReport, Report
  <2>5. QED
    BY <1>1, <2>2, <2>3, <2>4, ReportStep
<1>4. CASE TooShallow
  <2>1. /\ pc' = "done" /\ verdict' = "pending" /\ depth < Threshold
        /\ issues' = {Issue("INSUFFICIENT_CONFIRMATIONS", 0)}
        /\ checks' = [c \in DOMAIN record.claims |-> "not_checked"]
        /\ input' = input /\ record' = record /\ honest' = honest
        /\ provider' = provider /\ saw' = saw /\ height' = height /\ depth' = depth
        /\ src' = src /\ waiting' = {} /\ calls' = calls
    BY <1>1, <1>4 DEF TooShallow, world, resolveVars
  <2>2. /\ Issue("INSUFFICIENT_CONFIRMATIONS", 0) \in Issues
        /\ ~Condemning(Issue("INSUFFICIENT_CONFIRMATIONS", 0))
    BY IssueFacts DEF Codes, Warnings
  <2>3. checks' \in Seq(Checks) /\ Len(checks') = Len(record.claims)
        /\ \A c \in DOMAIN checks' : checks'[c] = "not_checked"
    BY <1>2, <2>1 DEF Checks
  <2>4. TypeOK'
    BY <1>2, <2>1, <2>2, <2>3 DEF TypeOK
  <2>5. StageInv' /\ SourceInv' /\ IssuesInv'
    BY <1>1, <2>1, <2>2 DEF StageInv, SourceInv, IssuesInv
  <2>6. ProvidersCannotCondemn' /\ ValidMeansChecked' /\ RefusalIsReported'
    BY <1>1, <2>1 DEF ProvidersCannotCondemn, ValidMeansChecked, RefusalIsReported
  <2>7. DeniedNeverReached' /\ StaysOnConfiguredSites'
    BY <2>1 DEF IInv, DeniedNeverReached, StaysOnConfiguredSites, Configured
  <2>8. PendingConcludesNothing'
    BY <1>1, <2>1, <2>3 DEF PendingConcludesNothing
  <2>9. QED
    BY <2>4, <2>5, <2>6, <2>7, <2>8 DEF IInv
<1>5. CASE StartContent
  <2>1. /\ pc' = "content" /\ verdict' = "none" /\ Readable /\ depth >= Threshold
        /\ issues' = SignatureIssues
        /\ input' = input /\ record' = record /\ honest' = honest
        /\ provider' = provider /\ saw' = saw /\ height' = height /\ depth' = depth
        /\ checks' = <<>> /\ src' = src /\ waiting' = {} /\ calls' = calls
    BY <1>1, <1>5 DEF StartContent, world, resolveVars, contentVars
  <2>2. /\ Readable' <=> Readable
        /\ Configured' = Configured
        /\ Blame' <=> Blame
    BY <2>1, WorldFacts DEF world
  <2>3. /\ Issue("SIGNATURE_INVALID", 0) \in Issues
    BY IssueFacts DEF Codes
  <2>4. issues' \subseteq Issues
    BY <2>1, <2>3 DEF SignatureIssues
  <2>5. (\E issue \in issues' : Condemning(issue)) => Blame
    BY <2>1 DEF SignatureIssues, Blame
  <2>6. TypeOK'
    <3>1. depth >= 1
      BY <1>1 DEF IInv, TypeOK
    <3>2. QED
      BY <1>1, <1>2, <2>1, <2>4, <3>1 DEF TypeOK
  <2>7. StageInv' /\ SourceInv' /\ IssuesInv'
    BY <1>1, <2>1, <2>2, <2>5 DEF StageInv, SourceInv, IssuesInv
  <2>8. ProvidersCannotCondemn' /\ ValidMeansChecked' /\ RefusalIsReported'
    BY <2>1 DEF ProvidersCannotCondemn, ValidMeansChecked, RefusalIsReported
  <2>9. DeniedNeverReached' /\ StaysOnConfiguredSites' /\ PendingConcludesNothing'
    BY <1>1, <2>1, <2>2
       DEF IInv, DeniedNeverReached, StaysOnConfiguredSites, PendingConcludesNothing
  <2>10. QED
    BY <2>6, <2>7, <2>8, <2>9 DEF IInv
<1>6. QED
  BY <1>3, <1>4, <1>5 DEF ReadRecord

\* A request to a gateway, or to where it has redirected to, is one the client
\* may make.
LEMMA GatewayCall ==
  ASSUME IInv, Fetching, GatewaysOf(Uri) # <<>>
  PROVE  /\ Reached(Host) /\ (Cursor.hop = 0 => Host \notin input.denied) => OneCall
         /\ Refused(Host) /\ (\E issue \in issues' : Condemning(issue)) => OneCall
<1>1. /\ Gateway \in Configured /\ Host \in Hosts /\ Host \in Under[Gateway]
      /\ Cursor.hop > 0 => Host \notin input.denied
  BY HostFacts DEF IInv
<1>2. Cursor.hop = 0 \/ Cursor.hop > 0
  BY CursorFacts, BoundsAssumption DEF IInv, Fetching
<1>3. QED
  BY <1>1, <1>2 DEF OneCall, Reached, Refused

\* A claim that ends unchecked.
LEMMA EndClaimStep ==
  ASSUME IInv, Acquiring, NEW limit \in BOOLEAN, EndClaim(limit), OneCall,
         UNCHANGED <<world, resolveVars, pc, verdict>>
  PROVE  IInv'
<1>1. InClaim /\ TypeOK /\ "not_checked" \in Checks
  BY DEF Acquiring, IInv, Checks
<1>2. Claim.kind \in {"item", "sealed", "merkle"}
  BY <1>1, ClaimFacts DEF Claims
<1>3. CASE Claim.kind = "merkle"
  <2>1. /\ Settle("not_checked", {})
        /\ waiting' = waiting \cup {[claim |-> Number, limit |-> limit]}
    BY <1>3 DEF EndClaim
  <2>2. \E marker \in waiting' : marker.claim = Number
    <3> DEFINE new == [claim |-> Number, limit |-> limit]
    <3>1. new \in waiting' /\ new.claim = Number
      BY <2>1
    <3> HIDE DEF new
    <3>2. QED
      BY <3>1
  <2>3. QED
    BY <1>1, <1>3, <2>1, <2>2, SettleStep
<1>4. CASE Claim.kind # "merkle"
  <2>1. PICK code \in {"CONTENT_FETCH_LIMIT_EXCEEDED", "CONTENT_UNAVAILABLE",
                       "CIPHERTEXT_UNAVAILABLE"} : Settle("not_checked", {code})
    <3>1. \/ limit
          \/ ~limit /\ Claim.kind = "item"
          \/ ~limit /\ Claim.kind = "sealed"
      BY <1>2, <1>4
    <3>2. QED
      BY <1>4, <3>1 DEF EndClaim
  <2>2. waiting' = waiting
    BY <1>4 DEF EndClaim
  <2>3. code \in Codes /\ code \notin Warnings /\ code \in NetworkClass
    BY DEF Codes, Warnings, NetworkClass
  <2>4. QED
    BY <1>1, <2>1, <2>2, <2>3, SettleStep
<1>5. QED
  BY <1>3, <1>4

\* The invariant survives the steps that need no gateway.
LEMMA LocalStep ==
  ASSUME IInv, SkipClaim \/ NoCredential \/ TakeGiven \/ RefuseUri \/ Exhausted
  PROVE  IInv'
<1> OneCall
  BY DEF SkipClaim, NoCredential, TakeGiven, RefuseUri, Exhausted, OneCall
<1>1. "not_checked" \in Checks
  BY DEF Checks
<1>2. CASE SkipClaim
  BY <1>1, <1>2, SettleStep DEF SkipClaim
<1>3. CASE NoCredential
  <2>1. InClaim /\ Claim \in Range(record.claims) /\ AtFault(Claim)
    BY <1>3, ClaimFacts DEF NoCredential, Keyless, AtFault, IInv
  <2>2. "WRONG_DECRYPTION_INPUT_SHAPE" \in Codes \ Warnings
    BY DEF Codes, Warnings
  <2>3. Blame
    BY <2>1 DEF Blame
  <2>4. QED
    BY <1>1, <1>3, <2>1, <2>2, <2>3, SettleStep DEF NoCredential
<1>4. CASE TakeGiven
  <2>1. /\ Acquiring /\ InClaim /\ Cursor.uri = 0
        /\ Consume(Claim.given = "good", TRUE)
        /\ UNCHANGED <<world, resolveVars, waiting, pc, verdict>>
    BY <1>4 DEF TakeGiven, Acquiring
  <2>2. Claim.given # "none" /\ Claim.given \in {"none", "good", "bad"}
    <3>1. Claim \in Claims
      BY <2>1, ClaimFacts DEF IInv
    <3>2. QED
      BY <2>1, <3>1 DEF Cursor, Claims
  <2>3. (Claim.given = "good") \in BOOLEAN /\ TRUE \in BOOLEAN
    OBVIOUS
  <2>4. Claim.given # "good" => AtFault(Claim)
    BY <2>2 DEF AtFault
  <2>5. QED
    BY <2>1, <2>3, <2>4, ConsumeStep
<1>5. CASE RefuseUri
  <2>1. "URI_TARGET_FORBIDDEN" \in Codes \cap NetworkClass
    BY DEF Codes, NetworkClass
  <2>2. QED
    BY <1>5, <2>1, MoveStep DEF RefuseUri, Fetching
<1>6. CASE Exhausted
  BY <1>6, EndClaimStep DEF Exhausted
<1>7. QED
  BY <1>2, <1>3, <1>4, <1>5, <1>6

\* The invariant survives the steps of a request to a gateway.
LEMMA GatewayStep ==
  ASSUME IInv, GatewayDenied \/ Redirected \/ GatewayFails \/ GatewayServes \/ TooLarge
  PROVE  IInv'
<1>1. /\ Fetching /\ Acquiring /\ InClaim /\ TypeOK /\ SourceInv /\ GatewaysOf(Uri) # <<>>
      /\ UNCHANGED <<world, resolveVars, pc, verdict>>
  BY DEF GatewayDenied, Redirected, GatewayFails, GatewayServes, TooLarge, GatewayAsked,
         Fetching, Acquiring, IInv
<1>2. /\ Gateway \in Configured /\ Host \in Hosts /\ Host \in Under[Gateway]
  BY <1>1, HostFacts
<1>3. CASE GatewayDenied
  <2>1. /\ Cursor.hop = 0 /\ Refused(Host) /\ src' = NextSource
        /\ issues' = issues \cup {Issue("SERVICE_INDEPENDENCE_VIOLATION", Number)}
        /\ UNCHANGED <<checks, waiting>>
    BY <1>3 DEF GatewayDenied
  <2>2. Blame
    <3>1. Host = Gateway /\ Host \in input.denied
      BY <2>1 DEF Host, Refused
    <3>2. QED
      BY <1>2, <3>1 DEF Blame
  <2>3. /\ "SERVICE_INDEPENDENCE_VIOLATION" \in Codes
        /\ "SERVICE_INDEPENDENCE_VIOLATION" \notin Warnings \cup NetworkClass
    BY DEF Codes, Warnings, NetworkClass
  <2>4. \E issue \in issues' : Condemning(issue)
    <3>1. Condemning(Issue("SERVICE_INDEPENDENCE_VIOLATION", Number))
      BY <1>1, <2>3, ClaimFacts, IssueFacts
    <3>2. QED
      BY <2>1, <3>1
  <2>5. OneCall
    BY <1>1, <2>1, <2>4, GatewayCall
  <2>6. QED
    BY <1>1, <2>1, <2>2, <2>3, <2>5, MoveStep
<1>4. CASE Redirected \/ GatewayFails \/ GatewayServes \/ TooLarge
  <2>1. OneCall
    <3>1. Reached(Host) /\ (Cursor.hop = 0 => Host \notin input.denied)
      BY <1>4 DEF Redirected, GatewayFails, GatewayServes, TooLarge, GatewayAsked
    <3>2. QED
      BY <1>1, <3>1, GatewayCall
  <2>2. CASE Redirected
    <3>1. PICK toHost \in Hosts : /\ MayFollow(toHost)
                                  /\ src' = [Cursor EXCEPT !.hop = @ + 1, !.at = toHost]
      BY <2>2 DEF Redirected
    <3>2. Cursor.hop < MaxHops /\ UNCHANGED <<checks, waiting, issues>>
      BY <2>2 DEF Redirected
    <3>3. /\ Cursor \in Sources /\ Cursor.gw \in DOMAIN GatewaysOf(Uri)
          /\ Cursor.uri \in Nat /\ Cursor.hop \in 0..MaxHops /\ Cursor.gw \in Nat \ {0}
      BY <1>1, CursorFacts, HostFacts
    <3>4. /\ src' \in Sources
          /\ src'.uri = Cursor.uri /\ src'.gw = Cursor.gw /\ src'.at = toHost
      <4>1. Cursor.hop + 1 \in 0..MaxHops
        BY <3>2, <3>3, BoundsAssumption
      <4>2. src' = [uri |-> Cursor.uri, gw |-> Cursor.gw, hop |-> Cursor.hop + 1, at |-> toHost]
        BY <3>1, <3>3 DEF Sources
      <4>3. QED
        BY <3>3, <4>1, <4>2 DEF Sources
    <3>5. SourceInv'
      <4>1. InClaim' /\ Claim' = Claim /\ input' = input
        BY <1>1, <3>2 DEF InClaim, Number, Claim, world
      <4>2. \A uri : GatewaysOf(uri)' = GatewaysOf(uri)
        BY <4>1 DEF GatewaysOf
      <4>3. /\ src'.uri \in DOMAIN Claim.uris /\ Uri = Claim.uris[src'.uri]
            /\ src'.gw <= Len(GatewaysOf(Uri))
        BY <1>1, <3>3, <3>4, UriFacts DEF Fetching, Uri
      <4>4. src'.at \in Under[GatewaysOf(Uri)[src'.gw]] \ input.denied
        BY <3>1, <3>4 DEF MayFollow, Gateway
      <4>5. QED
        BY <4>1, <4>2, <4>3, <4>4 DEF SourceInv
    <3>6. Goes /\ waiting' \subseteq [claim : DOMAIN checks', limit : BOOLEAN]
      BY <1>1, <3>2 DEF Goes, TypeOK
    <3>7. QED
      BY <1>1, <2>1, <3>2, <3>4, <3>5, <3>6, ContentStep
  <2>3. CASE GatewayFails
    <3>1. "URI_FETCH_FAILED" \in Codes \cap Warnings
      BY DEF Codes, Warnings
    <3>2. QED
      BY <1>1, <2>1, <2>3, <3>1, MoveStep DEF GatewayFails
  <2>4. CASE GatewayServes
    <3>1. PICK own \in BOOLEAN, satisfies \in BOOLEAN :
            (own => satisfies = Uri.good) /\ Consume(satisfies, Attributable(Uri, own))
      BY <2>4 DEF GatewayServes
    <3>2. Attributable(Uri, own) \in BOOLEAN
      BY DEF Attributable
    <3>3. Attributable(Uri, own) /\ ~satisfies => AtFault(Claim)
      <4>1. Uri \in Range(Claim.uris)
        BY <1>1 DEF Fetching, Uri, Range
      <4>2. QED
        BY <3>1, <4>1 DEF Attributable, AtFault
    <3>4. waiting' = waiting
      BY <2>4 DEF GatewayServes
    <3>5. QED
      BY <1>1, <2>1, <3>1, <3>2, <3>3, <3>4, ConsumeStep
  <2>5. CASE TooLarge
    <3>1. EndClaim(TRUE) /\ TRUE \in BOOLEAN
      BY <2>5 DEF TooLarge
    <3>2. QED
      BY <1>1, <2>1, <3>1, EndClaimStep
  <2>6. QED
    BY <1>4, <2>2, <2>3, <2>4, <2>5
<1>5. QED
  BY <1>3, <1>4

\* The invariant survives the final report.
LEMMA FinalReportStep ==
  ASSUME IInv, FinalReport
  PROVE  IInv'
<1>1. /\ pc = "content" /\ ~InClaim /\ Number > Len(record.claims)
      /\ pc' = "done" /\ verdict' = VerdictOf(issues')
      /\ issues' = issues \cup {FloorIssue(marker) : marker \in waiting}
      /\ calls' = calls /\ UNCHANGED <<world, contentVars, resolveVars>>
  <2>1. record.claims \in Seq(Claims) /\ checks \in Seq(Checks)
    BY InputsAssumption DEF IInv, TypeOK
  <2>2. QED
    BY <2>1 DEF FinalReport, Report, InClaim, Number
<1>2. /\ TypeOK /\ calls \subseteq [host : Hosts, reached : BOOLEAN]
      /\ issues \subseteq Issues /\ DOMAIN checks = 1..Len(checks) /\ Len(checks) \in Nat
      /\ \A marker \in waiting : marker.claim \in Nat /\ marker.limit \in BOOLEAN
  <2>1. checks \in Seq(Checks)
    BY DEF IInv, TypeOK
  <2>2. QED
    BY <2>1 DEF IInv, TypeOK
<1>3. /\ Readable /\ depth >= Threshold
      /\ (\E issue \in issues : Condemning(issue)) => Blame
      /\ (\E call \in calls : ~call.reached) => \E issue \in issues : Condemning(issue)
      /\ \A c \in DOMAIN checks : Accounted(c)
  BY <1>1 DEF IInv, StageInv, IssuesInv
<1>4. Len(checks) = Len(record.claims)
  <2>1. Len(checks) <= Len(record.claims) /\ Len(record.claims) \in Nat
    BY InputsAssumption DEF IInv, TypeOK
  <2>2. QED
    BY <1>1, <1>2, <2>1 DEF Number
<1>5. ASSUME NEW marker \in waiting
      PROVE  /\ FloorIssue(marker) \in Issues /\ ~Condemning(FloorIssue(marker))
             /\ ~FloorIssue(marker).error => "checked" \in Range(checks)
  <2>1. CASE marker.limit
    <3>1. "CONTENT_FETCH_LIMIT_EXCEEDED" \in (Codes \cap NetworkClass) \ Warnings
      BY DEF Codes, NetworkClass, Warnings
    <3>2. FloorIssue(marker) = Issue("CONTENT_FETCH_LIMIT_EXCEEDED", marker.claim)
      BY <2>1 DEF FloorIssue
    <3>3. QED
      BY <1>2, <1>5, <3>1, <3>2, IssueFacts
  <2>2. CASE ~marker.limit
    <3>1. "MERKLE_LEAVES_UNAVAILABLE" \in Codes \cap NetworkClass
      BY DEF Codes, NetworkClass
    <3> DEFINE missing == "checked" \notin Range(checks)
    <3>2. FloorIssue(marker) = [code |-> "MERKLE_LEAVES_UNAVAILABLE", claim |-> marker.claim,
                                error |-> missing]
      BY <2>2 DEF FloorIssue
    <3>3. missing \in BOOLEAN /\ (~missing => "checked" \in Range(checks))
      OBVIOUS
    <3> HIDE DEF missing
    <3>4. FloorIssue(marker) \in Issues
      BY <1>2, <1>5, <3>1, <3>2, <3>3 DEF Issues
    <3>5. FloorIssue(marker).error = missing /\ FloorIssue(marker).code \in NetworkClass
      BY <3>1, <3>2
    <3>6. QED
      BY <3>3, <3>4, <3>5 DEF Condemning
  <2>3. QED
    BY <1>2, <2>1, <2>2
<1>6. /\ issues' \subseteq Issues /\ issues \subseteq issues'
      /\ \A issue \in issues' : Condemning(issue) => issue \in issues
      /\ \A marker \in waiting : FloorIssue(marker) \in issues'
  BY <1>1, <1>2, <1>5
<1>7. RefusedCall
  BY <1>1, <1>2 DEF RefusedCall
<1>8. ASSUME ~\E issue \in issues' : issue.error, NEW c \in DOMAIN checks,
             ~Skipped(record.claims[c])
      PROVE  \/ checks[c] = "checked"
             \/ record.claims[c].kind = "merkle" /\ "checked" \in Range(checks)
  <2>1. Accounted(c)
    BY <1>3
  <2>2. \/ checks[c] = "checked"
        \/ record.claims[c].kind = "merkle" /\ \E marker \in waiting : marker.claim = c
    BY <1>6, <1>8, <2>1 DEF Accounted
  <2>3. QED
    BY <1>5, <1>6, <1>8, <2>2
<1>9. FairReport
  BY <1>1, <1>3, <1>4, <1>6, <1>8 DEF FairReport
<1>10. QED
  BY <1>1, <1>7, <1>9, ReportStep

\* The invariant survives a stutter, which changes nothing it speaks of.
LEMMA StutterStep ==
  ASSUME IInv, UNCHANGED vars
  PROVE  IInv'
<1>1. /\ input' = input /\ record' = record /\ honest' = honest
      /\ pc' = pc /\ provider' = provider /\ saw' = saw /\ height' = height /\ depth' = depth
      /\ checks' = checks /\ src' = src /\ waiting' = waiting
      /\ issues' = issues /\ verdict' = verdict /\ calls' = calls
  BY DEF vars, world
<1>2. /\ TypeOK' <=> TypeOK
      /\ StageInv' <=> StageInv
      /\ ProvidersCannotCondemn' <=> ProvidersCannotCondemn
      /\ ValidMeansChecked' <=> ValidMeansChecked
      /\ RefusalIsReported' <=> RefusalIsReported
  BY <1>1 DEF TypeOK, StageInv, ProvidersCannotCondemn, ValidMeansChecked, RefusalIsReported,
              Readable, WillDecrypt, Has, Configured, Skipped
<1>3. /\ SourceInv' <=> SourceInv
      /\ IssuesInv' <=> IssuesInv
      /\ DeniedNeverReached' <=> DeniedNeverReached
      /\ StaysOnConfiguredSites' <=> StaysOnConfiguredSites
      /\ PendingConcludesNothing' <=> PendingConcludesNothing
  BY <1>1 DEF SourceInv, IssuesInv, DeniedNeverReached, StaysOnConfiguredSites,
              PendingConcludesNothing, InClaim, Claim, Number, GatewaysOf, Blame, Accounted,
              Readable, WillDecrypt, Has, Configured, Skipped
<1>4. QED
  BY <1>2, <1>3 DEF IInv

\* The initial states satisfy the invariant.
LEMMA InitIInv ==
  ASSUME Init
  PROVE  IInv
<1>1. /\ input \in Inputs /\ record \in Records /\ honest \in HonestHosts
      /\ pc = "cbor" /\ provider = 1 /\ saw = {} /\ height = 0 /\ depth = 0
      /\ checks = <<>> /\ waiting = {} /\ issues = {} /\ verdict = "none" /\ calls = {}
      /\ src = NoSource
  BY DEF Init
<1>2. src \in Sources /\ src.gw = 1 /\ src.hop = 0
  BY <1>1, SourceFacts DEF NoSource
<1>3. 1 \in 1..(Len(Providers) + 1)
  BY HostsAssumption DEF Providers
<1>4. Len(checks) = 0 /\ checks \in Seq(Checks) /\ Len(record.claims) \in Nat
  BY <1>1, InputsAssumption
<1>5. TypeOK
  BY <1>1, <1>2, <1>3, <1>4 DEF TypeOK
<1>6. StageInv /\ SourceInv /\ IssuesInv
  BY <1>1, <1>2 DEF StageInv, SourceInv, IssuesInv
<1>7. /\ ProvidersCannotCondemn /\ ValidMeansChecked /\ RefusalIsReported
      /\ DeniedNeverReached /\ StaysOnConfiguredSites /\ PendingConcludesNothing
  BY <1>1 DEF ProvidersCannotCondemn, ValidMeansChecked, RefusalIsReported,
              DeniedNeverReached, StaysOnConfiguredSites, PendingConcludesNothing
<1>8. QED
  BY <1>5, <1>6, <1>7 DEF IInv

\* The invariant survives every step.
LEMMA NextIInv ==
  ASSUME IInv, [Next]_vars
  PROVE  IInv'
<1>1. CASE Resolve
  BY <1>1, ResolveStep
<1>2. CASE ReadRecord
  BY <1>2, ReadRecordStep
<1>3. CASE CheckContent
  BY <1>3, LocalStep, GatewayStep, FinalReportStep DEF CheckContent
<1>4. CASE UNCHANGED vars
  BY <1>4, StutterStep
<1>5. QED
  BY <1>1, <1>2, <1>3, <1>4 DEF Next

-----------------------------------------------------------------------------
(* The theorems                                                            *)

\* The inductive invariant holds of every run of verify_tx: it is true when the
\* pipeline starts, and each of its steps keeps it.
THEOREM InductiveInvariant == Spec => []IInv
<1>1. Init => IInv
  BY InitIInv
<1>2. IInv /\ [Next]_vars => IInv'
  BY NextIInv
<1>3. QED
  BY <1>1, <1>2, PTL DEF Spec

\* The pipeline's state keeps its types: the cursor names a source of the claim
\* being checked, a redirect chain is within its bound, a resolved depth is at
\* least 1 (_depth_from_heights, _positive_depth).
THEOREM TypeCorrect == Spec => []TypeOK
<1>1. IInv => TypeOK
  BY DEF IInv
<1>2. QED
  BY <1>1, InductiveInvariant, PTL

\* "failed is reserved for record-attributable outcomes": no explorer or gateway
\* can condemn a record, whatever it answers and whenever it fails.
THEOREM NeverCondemned == Spec => []ProvidersCannotCondemn
<1>1. IInv => ProvidersCannotCondemn
  BY DEF IInv
<1>2. QED
  BY <1>1, InductiveInvariant, PTL

\* A valid verdict hides no claim that was to be checked and was not.
THEOREM ValidIsChecked == Spec => []ValidMeansChecked
<1>1. IInv => ValidMeansChecked
  BY DEF IInv
<1>2. QED
  BY <1>1, InductiveInvariant, PTL

\* The deny list holds on every path, redirects included.
THEOREM DenyListHolds == Spec => []DeniedNeverReached
<1>1. IInv => DeniedNeverReached
  BY DEF IInv
<1>2. QED
  BY <1>1, InductiveInvariant, PTL

\* Redirects never take a request off the configured sites.
THEOREM RedirectsStay == Spec => []StaysOnConfiguredSites
<1>1. IInv => StaysOnConfiguredSites
  BY DEF IInv
<1>2. QED
  BY <1>1, InductiveInvariant, PTL

\* A refused call condemns the run, whatever other hosts answered.
THEOREM RefusalsShow == Spec => []RefusalIsReported
<1>1. IInv => RefusalIsReported
  BY DEF IInv
<1>2. QED
  BY <1>1, InductiveInvariant, PTL

\* Below the confirmation threshold no content is fetched and nothing is said of
\* it.
THEOREM PendingIsSilent == Spec => []PendingConcludesNothing
<1>1. IInv => PendingConcludesNothing
  BY DEF IInv
<1>2. QED
  BY <1>1, InductiveInvariant, PTL


-----------------------------------------------------------------------------
(* Faithful hosts                                                          *)

Limit == "CONTENT_FETCH_LIMIT_EXCEEDED"

\* What does not change with the caller, the record and the hosts.
LEMMA HonestWorld ==
  ASSUME UNCHANGED world
  PROVE  /\ input' = input /\ record' = record /\ honest' = honest
         /\ \A uri : GatewaysOf(uri)' = GatewaysOf(uri)
         /\ \A claim : Fetchable(claim)' <=> Fetchable(claim)
<1>1. input' = input /\ record' = record /\ honest' = honest
  BY DEF world
<1>2. \A uri : GatewaysOf(uri)' = GatewaysOf(uri)
  BY <1>1 DEF GatewaysOf
<1>3. \A claim : Skipped(claim)' <=> Skipped(claim)
  BY WorldFacts
<1>4. QED
  BY <1>1, <1>2, <1>3 DEF Fetchable

\* A claim that is settled, which one faithful gateway was enough for or a
\* body over the ceiling has ended.
LEMMA SettledHonest ==
  ASSUME IInv, HonestInv, InClaim, UNCHANGED <<world, pc>>,
         NEW check \in Checks, checks' = Append(checks, check), src' = NoSource,
         issues \subseteq issues', waiting \subseteq waiting',
         Fetchable(Claim) =>
           \/ check = "checked"
           \/ Issue(Limit, Number) \in issues'
           \/ [claim |-> Number, limit |-> TRUE] \in waiting'
  PROVE  HonestInv'
<1>1. /\ input' = input /\ record' = record /\ honest' = honest
      /\ \A uri : GatewaysOf(uri)' = GatewaysOf(uri)
      /\ \A claim : Fetchable(claim)' <=> Fetchable(claim)
  BY HonestWorld
<1>2. pc = "content" /\ pc' = "content"
  BY DEF InClaim
<1>3. src'.uri = 0 /\ src'.gw = 1 /\ src'.hop = 0
  BY DEF NoSource, Source
<1>4. /\ DOMAIN checks' = DOMAIN checks \cup {Number} /\ checks'[Number] = check
      /\ \A c \in DOMAIN checks : checks'[c] = checks[c]
  BY DEF IInv, TypeOK, Number
<1>5. SettledInv'
  <2>1. ASSUME NEW c \in DOMAIN checks', Fetchable(record.claims[c])
        PROVE  \/ checks'[c] = "checked"
               \/ Issue(Limit, c) \in issues'
               \/ [claim |-> c, limit |-> TRUE] \in waiting'
    <3>1. CASE c \in DOMAIN checks
      BY <1>2, <1>4, <2>1, <3>1 DEF HonestInv, SettledInv, Limit
    <3>2. CASE c = Number
      BY <1>4, <2>1, <3>2 DEF Claim
    <3>3. QED
      BY <1>4, <3>1, <3>2
  <2>2. \A c : Issue(Limit, c)' = Issue(Limit, c)
    BY DEF Issue
  <2>3. QED
    BY <1>1, <2>1, <2>2 DEF SettledInv, Limit
<1>6. SearchInv'
  <2>1. SUFFICES ASSUME InClaim'
                 PROVE  /\ \A u \in (DOMAIN Claim.uris)' :
                             \A g \in (DOMAIN GatewaysOf(Claim.uris[u]))' : ~Passed(u, g)'
                        /\ ~(src'.hop > 0)
    BY DEF SearchInv
  <2>2. (Claim \in Claims)'
    <3>1. (Number \in 1..Len(record.claims))' /\ record.claims \in Seq(Claims)
      BY <1>1, <1>4, <2>1, InputsAssumption DEF InClaim, Number, IInv, TypeOK
    <3>2. QED
      BY <1>1, <3>1 DEF Claim
  <2>3. \A u \in (DOMAIN Claim.uris)' : u \in Nat /\ u > 0
    BY <2>2 DEF Claims
  <2>4. QED
    BY <1>3, <2>3 DEF Passed
<1>7. ResolveInv' /\ OneHonestProviderIsEnough' /\ OneHonestGatewayIsEnough'
  BY <1>2 DEF ResolveInv, OneHonestProviderIsEnough, OneHonestGatewayIsEnough
<1>8. QED
  BY <1>2, <1>5, <1>6, <1>7 DEF HonestInv

\* The claim, its sources and what is known of the settled ones stay.
LEMMA SameClaim ==
  ASSUME IInv, HonestInv, InClaim, UNCHANGED <<world, pc, checks, waiting>>, issues \subseteq issues'
  PROVE  /\ pc = "content" /\ pc' = "content"
         /\ InClaim' /\ Number' = Number /\ Claim' = Claim
         /\ input' = input /\ record' = record /\ honest' = honest
         /\ \A uri : GatewaysOf(uri)' = GatewaysOf(uri)
         /\ \A claim : Fetchable(claim)' <=> Fetchable(claim)
         /\ SettledInv' /\ (SearchInv' => HonestInv')
<1>1. /\ input' = input /\ record' = record /\ honest' = honest
      /\ \A uri : GatewaysOf(uri)' = GatewaysOf(uri)
      /\ \A claim : Fetchable(claim)' <=> Fetchable(claim)
  BY HonestWorld
<1>2. pc = "content" /\ pc' = "content"
  BY DEF InClaim
<1>3. InClaim' /\ Number' = Number /\ Claim' = Claim
  BY <1>1 DEF InClaim, Number, Claim
<1>4. SettledInv'
  <2>1. \A c : Issue(Limit, c)' = Issue(Limit, c)
    BY DEF Issue
  <2>2. QED
    BY <1>1, <1>2, <2>1 DEF HonestInv, SettledInv, Limit
<1>5. ResolveInv' /\ OneHonestProviderIsEnough' /\ OneHonestGatewayIsEnough'
  BY <1>2 DEF ResolveInv, OneHonestProviderIsEnough, OneHonestGatewayIsEnough
<1>6. QED
  BY <1>1, <1>2, <1>3, <1>4, <1>5 DEF HonestInv

\* The search goes on past a gateway that was denied or not faithful, or past
\* an address without gateways.
LEMMA MovedHonest ==
  ASSUME IInv, HonestInv, Fetching, UNCHANGED <<world, pc, checks, waiting>>,
         issues \subseteq issues',
         \/ GatewaysOf(Uri) = <<>> /\ src' = NextUri
         \/ GatewaysOf(Uri) # <<>> /\ src' = NextSource,
         Fetchable(Claim) /\ GatewaysOf(Uri) # <<>> => Gateway \notin honest \ input.denied
  PROVE  HonestInv'
<1>1. /\ InClaim /\ Acquiring /\ TypeOK /\ SourceInv /\ Cursor.uri \in DOMAIN Claim.uris
      /\ Uri = Claim.uris[Cursor.uri]
  BY DEF Fetching, Acquiring, IInv, Uri
<1>2. /\ Cursor.uri \in Nat /\ Cursor.gw \in Nat \ {0}
      /\ Cursor = src \/ (Cursor.uri = 1 /\ Cursor.gw = 1 /\ Cursor.hop = 0)
      /\ NextSource.hop = 0 /\ NextUri.hop = 0
  BY <1>1, CursorFacts
<1>3. /\ DOMAIN Claim.uris = 1..Len(Claim.uris)
      /\ \A uri : /\ DOMAIN GatewaysOf(uri) = 1..Len(GatewaysOf(uri))
                  /\ Len(GatewaysOf(uri)) \in Nat
  BY <1>1, UriFacts
\* What is passed after the step is what was before it, or the gateway asked.
<1>4. ASSUME NEW u \in DOMAIN Claim.uris, NEW g \in DOMAIN GatewaysOf(Claim.uris[u]), Passed(u, g)'
      PROVE  Passed(u, g) \/ (u = Cursor.uri /\ g = Cursor.gw)
  <2>1. u \in Nat \ {0} /\ g \in Nat \ {0} /\ g <= Len(GatewaysOf(Claim.uris[u]))
    BY <1>3
  <2>2. u < src'.uri \/ (u = src'.uri /\ g < src'.gw)
    BY <1>4 DEF Passed
  <2>3. Passed(u, g) <=> u < Cursor.uri \/ (u = Cursor.uri /\ g < Cursor.gw)
    <3>1. CASE Cursor = src
      BY <3>1 DEF Passed
    <3>2. CASE Cursor # src
      <4>1. src.uri = 0 /\ Cursor.uri = 1 /\ Cursor.gw = 1
        BY <1>2, <3>2 DEF Cursor
      <4>2. QED
        BY <2>1, <4>1 DEF Passed
    <3>3. QED
      BY <3>1, <3>2
  <2>4. CASE src' = NextUri
    <3>1. src'.uri = Cursor.uri + 1 /\ src'.gw = 1
      BY <2>4 DEF NextUri, Source
    <3>2. Cursor.gw >= Len(GatewaysOf(Uri))
      <4>1. CASE GatewaysOf(Uri) = <<>>
        BY <1>2, <4>1
      <4>2. CASE GatewaysOf(Uri) # <<>> /\ Cursor.gw < Len(GatewaysOf(Uri))
        <5>1. NextSource = Source(Cursor.uri, Cursor.gw + 1)
          BY <1>1, <1>3, <4>2 DEF NextSource
        <5>2. NextSource.uri = Cursor.uri
          BY <5>1 DEF Source
        <5>3. QED
          BY <1>2, <2>4, <3>1, <4>2, <5>2
      <4>3. QED
        BY <1>2, <1>3, <4>1, <4>2
    <3>3. QED
      BY <1>1, <1>2, <1>3, <2>1, <2>2, <2>3, <3>1, <3>2
  <2>5. CASE src' # NextUri
    <3>1. src' = Source(Cursor.uri, Cursor.gw + 1)
      BY <2>5 DEF NextSource
    <3>2. src'.uri = Cursor.uri /\ src'.gw = Cursor.gw + 1
      BY <3>1 DEF Source
    <3>3. QED
      BY <1>2, <2>1, <2>2, <2>3, <3>2
  <2>6. QED
    BY <2>4, <2>5
<1>5. /\ InClaim' /\ Claim' = Claim /\ input' = input /\ honest' = honest
      /\ \A uri : GatewaysOf(uri)' = GatewaysOf(uri)
      /\ \A claim : Fetchable(claim)' <=> Fetchable(claim)
      /\ SearchInv' => HonestInv'
  BY <1>1, SameClaim
<1>6. ASSUME NEW u \in DOMAIN Claim.uris, NEW g \in DOMAIN GatewaysOf(Claim.uris[u]),
             Passed(u, g)', Fetchable(Claim)
      PROVE  GatewaysOf(Claim.uris[u])[g] \notin honest \ input.denied
  <2>1. CASE Passed(u, g)
    BY <1>1, <1>6, <2>1 DEF HonestInv, SearchInv
  <2>2. CASE u = Cursor.uri /\ g = Cursor.gw
    <3>1. GatewaysOf(Claim.uris[u])[g] = Gateway
      BY <1>1, <2>2 DEF Gateway
    <3>2. GatewaysOf(Uri) # <<>>
      BY <1>1, <1>3, <2>2
    <3>3. QED
      BY <1>6, <3>1, <3>2
  <2>3. QED
    BY <1>4, <1>6, <2>1, <2>2
<1>7. src'.hop = 0
  BY <1>2
<1>8. SearchInv'
  BY <1>5, <1>6, <1>7 DEF SearchInv
<1>9. QED
  BY <1>5, <1>8

\* What a blob makes of a claim one faithful gateway is enough for.
LEMMA ConsumeHonest ==
  ASSUME IInv, HonestInv, Acquiring, NEW satisfies \in BOOLEAN, NEW attributable \in BOOLEAN,
         Consume(satisfies, attributable), UNCHANGED <<world, pc, waiting>>,
         Fetchable(Claim) /\ ~satisfies => ~attributable,
         ~attributable => Fetching /\ GatewaysOf(Uri) # <<>>,
         Fetchable(Claim) /\ ~satisfies => Gateway \notin honest \ input.denied
  PROVE  HonestInv'
<1> DEFINE judgement == Judgement(Claim, satisfies)
<1>1. InClaim /\ TypeOK
  BY DEF Acquiring, IInv
<1>2. /\ judgement \in {"checked", "rejected", "URI_INTEGRITY_MISMATCH", "TAMPERED_HEADER",
                        "KDF_DERIVATION_FAILED"}
      /\ judgement \notin {"checked", "rejected"} => AtFault(Claim)
      /\ judgement = "rejected" => ~satisfies \/ AtFault(Claim)
  BY <1>1, JudgementFacts
<1>3. Fetchable(Claim) => ~AtFault(Claim)
  BY DEF Fetchable
<1>4. ASSUME NEW check \in Checks, NEW codes, Settle(check, codes), Fetchable(Claim) => check = "checked"
      PROVE  HonestInv'
  BY <1>1, <1>4, SettledHonest DEF Settle
<1>5. "checked" \in Checks /\ "mismatched" \in Checks /\ "not_checked" \in Checks
  BY DEF Checks
<1>6. CASE judgement = "checked"
  <2>1. Settle("checked", {})
    BY <1>6 DEF Consume
  <2>2. QED
    BY <1>4, <1>5, <2>1
<1>7. CASE judgement = "rejected" /\ attributable
  <2>1. Settle("mismatched", {MismatchCode(Claim)}) /\ ~Fetchable(Claim)
    BY <1>2, <1>3, <1>7 DEF Consume
  <2>2. QED
    BY <1>4, <1>5, <2>1
<1>8. CASE judgement = "rejected" /\ ~attributable
  <2>1. issues \subseteq issues' /\ src' = NextSource /\ UNCHANGED checks
    BY <1>8 DEF Consume
  <2>2. Fetchable(Claim) => Gateway \notin honest \ input.denied
    BY <1>2, <1>3, <1>8
  <2>3. QED
    BY <1>8, <2>1, <2>2, MovedHonest
<1>9. CASE judgement \in {"URI_INTEGRITY_MISMATCH", "TAMPERED_HEADER", "KDF_DERIVATION_FAILED"}
  <2>1. PICK check \in {"mismatched", "not_checked"} : Settle(check, {judgement})
    BY <1>9 DEF Consume
  <2>2. ~Fetchable(Claim)
    BY <1>2, <1>3, <1>9
  <2>3. QED
    BY <1>4, <1>5, <2>1, <2>2
<1>10. QED
  BY <1>2, <1>6, <1>7, <1>8, <1>9

\* A faithful gateway is answered for by a faithful host, after a redirect too.
LEMMA HonestHost ==
  ASSUME IInv, HonestInv, Fetching, GatewaysOf(Uri) # <<>>, Gateway \in honest
  PROVE  Host \in honest
<1>1. InClaim /\ Acquiring /\ TypeOK /\ SourceInv
  BY DEF Fetching, Acquiring, IInv
<1>2. CASE Cursor.hop = 0
  BY <1>2 DEF Host
<1>3. CASE Cursor.hop # 0
  <2>1. Cursor = src /\ src.hop > 0
    BY <1>1, <1>3, CursorFacts, BoundsAssumption
  <2>2. src.at \in honest
    BY <1>1, <2>1 DEF HonestInv, SearchInv, Gateway, Uri
  <2>3. QED
    BY <1>3, <2>1, <2>2 DEF Host
<1>4. QED
  BY <1>2, <1>3

LEMMA LocalHonest ==
  ASSUME IInv, HonestInv, SkipClaim \/ NoCredential \/ TakeGiven \/ RefuseUri \/ Exhausted
  PROVE  HonestInv'
<1>1. "not_checked" \in Checks
  BY DEF Checks
<1>2. CASE SkipClaim
  <2>1. InClaim /\ ~Fetchable(Claim) /\ Settle("not_checked", {}) /\ UNCHANGED <<world, waiting, pc>>
    BY <1>2 DEF SkipClaim, Fetchable
  <2>2. QED
    BY <1>1, <2>1, SettledHonest DEF Settle
<1>3. CASE NoCredential
  <2>1. /\ InClaim /\ Settle("not_checked", {"WRONG_DECRYPTION_INPUT_SHAPE"})
        /\ UNCHANGED <<world, waiting, pc>>
    BY <1>3 DEF NoCredential
  <2>2. ~Fetchable(Claim)
    BY <1>3 DEF NoCredential, Keyless, Fetchable, AtFault
  <2>3. QED
    BY <1>1, <2>1, <2>2, SettledHonest DEF Settle
<1>4. CASE TakeGiven
  <2>1. /\ Acquiring /\ InClaim /\ Cursor.uri = 0 /\ Consume(Claim.given = "good", TRUE)
        /\ UNCHANGED <<world, pc, waiting>>
    BY <1>4 DEF TakeGiven, Acquiring
  <2>2. Claim.given # "none" /\ Claim.given \in {"none", "good", "bad"}
    <3>1. Claim \in Claims
      BY <2>1, ClaimFacts DEF IInv
    <3>2. QED
      BY <2>1, <3>1 DEF Cursor, Claims
  <2>3. Fetchable(Claim) => Claim.given = "good"
    BY <2>2 DEF Fetchable, AtFault
  <2>4. (Claim.given = "good") \in BOOLEAN /\ TRUE \in BOOLEAN
    OBVIOUS
  <2>5. QED
    BY <2>1, <2>3, <2>4, ConsumeHonest
<1>5. CASE RefuseUri
  <2>1. /\ Fetching /\ GatewaysOf(Uri) = <<>> /\ src' = NextUri /\ issues \subseteq issues'
        /\ UNCHANGED <<world, checks, waiting, pc>>
    BY <1>5 DEF RefuseUri
  <2>2. QED
    BY <2>1, MovedHonest
<1>6. CASE Exhausted
  <2>1. /\ Acquiring /\ InClaim /\ Cursor.uri # 0 /\ ~Fetching /\ EndClaim(FALSE)
        /\ UNCHANGED <<world, pc>> /\ TypeOK /\ SourceInv
    BY <1>6 DEF Exhausted, Acquiring, IInv
  <2>2. PICK codes : Settle("not_checked", codes) /\ waiting \subseteq waiting'
    BY <2>1 DEF EndClaim
  \* Every gateway has been passed, and none was faithful.
  <2>3. ~Fetchable(Claim)
    <3>1. SUFFICES ASSUME Fetchable(Claim)
                   PROVE  FALSE
      OBVIOUS
    <3>2. Cursor.uri \notin DOMAIN Claim.uris
      BY <2>1, <3>1 DEF Fetching, Fetchable
    <3>3. /\ DOMAIN Claim.uris = 1..Len(Claim.uris) /\ Len(Claim.uris) \in Nat
          /\ Cursor.uri \in Nat
          /\ Cursor = src \/ (Cursor.uri = 1 /\ Cursor.gw = 1 /\ Cursor.hop = 0)
      BY <2>1, UriFacts, CursorFacts
    <3>4. PICK u \in DOMAIN Claim.uris :
            Range(GatewaysOf(Claim.uris[u])) \cap (honest \ input.denied) # {}
      BY <3>1 DEF Fetchable, Range
    <3>5. PICK g \in DOMAIN GatewaysOf(Claim.uris[u]) :
            GatewaysOf(Claim.uris[u])[g] \in honest \ input.denied
      BY <3>4 DEF Range
    <3>6. u < Cursor.uri
      BY <2>1, <3>2, <3>3
    <3>7. Cursor = src
      BY <3>3, <3>6
    <3>8. QED
      BY <2>1, <3>1, <3>5, <3>6, <3>7 DEF HonestInv, SearchInv, Passed
  <2>4. QED
    BY <1>1, <2>1, <2>2, <2>3, SettledHonest DEF Settle
<1>7. QED
  BY <1>2, <1>3, <1>4, <1>5, <1>6

\* The steps of a request to a gateway.
LEMMA GatewayHonest ==
  ASSUME IInv, HonestInv, GatewayDenied \/ Redirected \/ GatewayFails \/ GatewayServes \/ TooLarge
  PROVE  HonestInv'
<1>1. /\ Fetching /\ Acquiring /\ InClaim /\ TypeOK /\ SourceInv /\ GatewaysOf(Uri) # <<>>
      /\ UNCHANGED <<world, pc>>
      /\ Gateway \in honest => Host \in honest
  BY HonestHost DEF GatewayDenied, Redirected, GatewayFails, GatewayServes, TooLarge,
     GatewayAsked, Fetching, Acquiring, IInv
<1>2. CASE GatewayDenied
  <2>1. /\ Cursor.hop = 0 /\ Refused(Host) /\ src' = NextSource /\ issues \subseteq issues'
        /\ UNCHANGED <<checks, waiting>>
    BY <1>2 DEF GatewayDenied
  <2>2. Gateway \in input.denied
    BY <2>1 DEF Host, Refused
  <2>3. QED
    BY <1>1, <2>1, <2>2, MovedHonest
<1>3. CASE Redirected
  <2>1. PICK toHost \in Hosts : /\ MayFollow(toHost)
                                /\ Host \in honest => Cursor.hop = 0 /\ toHost \in honest
                                /\ src' = [Cursor EXCEPT !.hop = @ + 1, !.at = toHost]
    BY <1>3 DEF Redirected
  <2>2. UNCHANGED <<checks, waiting, issues>>
    BY <1>3 DEF Redirected
  <2>3. /\ Cursor \in Sources /\ Cursor.uri \in Nat /\ Cursor.gw \in Nat \ {0}
        /\ Cursor = src \/ (Cursor.uri = 1 /\ Cursor.gw = 1)
    BY <1>1, CursorFacts
  <2>4. src'.uri = Cursor.uri /\ src'.gw = Cursor.gw /\ src'.at = toHost
    BY <2>1, <2>3 DEF Sources
  <2>5. /\ InClaim' /\ Claim' = Claim /\ input' = input /\ honest' = honest
        /\ \A uri : GatewaysOf(uri)' = GatewaysOf(uri)
        /\ \A claim : Fetchable(claim)' <=> Fetchable(claim)
        /\ SearchInv' => HonestInv'
    BY <1>1, <2>2, SameClaim
  <2>6. ASSUME NEW u \in DOMAIN Claim.uris, NEW g \in DOMAIN GatewaysOf(Claim.uris[u]), Passed(u, g)'
        PROVE  Passed(u, g)
    <3>1. u \in Nat \ {0} /\ g \in Nat \ {0}
      BY <1>1, UriFacts
    <3>2. QED
      BY <2>3, <2>4, <2>6, <3>1 DEF Passed
  <2>7. GatewaysOf(Claim.uris[src'.uri])[src'.gw] = Gateway
    BY <2>4 DEF Gateway, Uri
  <2>8. Gateway \in honest => src'.at \in honest
    BY <1>1, <2>1, <2>4
  <2>9. SearchInv'
    BY <1>1, <2>5, <2>6, <2>7, <2>8 DEF HonestInv, SearchInv
  <2>10. QED
    BY <2>5, <2>9
<1>4. CASE GatewayFails
  <2>1. /\ Host \notin honest /\ src' = NextSource /\ issues \subseteq issues'
        /\ UNCHANGED <<checks, waiting>>
    BY <1>4 DEF GatewayFails
  <2>2. QED
    BY <1>1, <2>1, MovedHonest
<1>5. CASE GatewayServes
  <2>1. PICK own \in BOOLEAN, satisfies \in BOOLEAN :
          /\ own => satisfies = Uri.good
          /\ ~own => Host \notin honest /\ ~(satisfies /\ Uri.good)
          /\ Consume(satisfies, Attributable(Uri, own))
    BY <1>5 DEF GatewayServes
  <2>2. waiting' = waiting /\ Attributable(Uri, own) \in BOOLEAN
    BY <1>5 DEF GatewayServes, Attributable
  <2>3. Fetchable(Claim) => Uri.good
    BY <1>1 DEF Fetchable, Fetching, Uri, Range
  <2>4. Fetchable(Claim) /\ ~satisfies => ~own
    BY <2>1, <2>3
  <2>5. Fetchable(Claim) /\ ~satisfies => ~Attributable(Uri, own) /\ Gateway \notin honest
    BY <1>1, <2>1, <2>4 DEF Attributable
  <2>6. QED
    BY <1>1, <2>1, <2>2, <2>5, ConsumeHonest
<1>6. CASE TooLarge
  <2>1. EndClaim(TRUE) /\ "not_checked" \in Checks
    BY <1>6 DEF TooLarge, Checks
  <2>2. CASE Claim.kind = "merkle"
    <3>1. /\ Settle("not_checked", {})
          /\ waiting' = waiting \cup {[claim |-> Number, limit |-> TRUE]}
      BY <2>1, <2>2 DEF EndClaim
    <3>2. [claim |-> Number, limit |-> TRUE] \in waiting'
      BY <3>1
    <3>3. QED
      BY <1>1, <2>1, <3>1, <3>2, SettledHonest DEF Settle
  <2>3. CASE Claim.kind # "merkle"
    <3>1. Settle("not_checked", {Limit}) /\ waiting' = waiting
      BY <2>1, <2>3 DEF EndClaim, Limit
    <3>2. Issue(Limit, Number) \in issues'
      BY <3>1 DEF Settle
    <3>3. QED
      BY <1>1, <2>1, <3>1, <3>2, SettledHonest DEF Settle
  <2>4. QED
    BY <2>2, <2>3
<1>7. QED
  BY <1>2, <1>3, <1>4, <1>5, <1>6

\* The final report keeps what is known of each claim: a marker that waits for
\* it becomes an issue of its own.
LEMMA FinalReportHonest ==
  ASSUME IInv, HonestInv, FinalReport
  PROVE  HonestInv'
<1>1. /\ pc = "content" /\ pc' = "done" /\ UNCHANGED world
      /\ issues' = issues \cup {FloorIssue(marker) : marker \in waiting}
      /\ checks' = checks /\ src' = src /\ waiting' = waiting /\ depth' = depth
  BY DEF FinalReport, Report, contentVars, resolveVars
<1>2. /\ input' = input /\ record' = record /\ honest' = honest
      /\ \A claim : Fetchable(claim)' <=> Fetchable(claim)
  BY <1>1, HonestWorld
<1>3. ASSUME NEW c, [claim |-> c, limit |-> TRUE] \in waiting
      PROVE  Issue(Limit, c) \in issues'
  <2> DEFINE marker == [claim |-> c, limit |-> TRUE]
  <2>1. FloorIssue(marker) = Issue(Limit, c)
    BY DEF FloorIssue, Limit
  <2>2. FloorIssue(marker) \in issues'
    BY <1>1, <1>3
  <2>3. QED
    BY <2>1, <2>2
<1>4. ASSUME NEW c \in DOMAIN checks, Fetchable(record.claims[c])
      PROVE  checks[c] = "checked" \/ Issue(Limit, c) \in issues'
  BY <1>1, <1>3, <1>4 DEF HonestInv, SettledInv, Limit
<1>5. OneHonestGatewayIsEnough'
  <2>1. \A c : Issue(Limit, c)' = Issue(Limit, c)
    BY DEF Issue
  <2>2. QED
    BY <1>1, <1>2, <1>4, <2>1 DEF OneHonestGatewayIsEnough, Limit
<1>6. OneHonestProviderIsEnough'
  BY <1>1 DEF OneHonestProviderIsEnough, IInv, TypeOK
<1>7. ResolveInv' /\ SearchInv' /\ SettledInv'
  BY <1>1 DEF ResolveInv, SearchInv, SettledInv, InClaim
<1>8. QED
  BY <1>1, <1>5, <1>6, <1>7 DEF HonestInv

\* Only an explorer that is not faithful is given up.
LEMMA AskedHonest ==
  ASSUME IInv, HonestInv, ProviderAsked({"cbor", "info", "tip"}),
         pc' \in {"cbor", "info", "tip", "record"},
         provider' = provider \/ (provider' = provider + 1 /\ ~Faithful)
  PROVE  HonestInv'
<1>1. /\ pc \in {"cbor", "info", "tip"} /\ input' = input /\ honest' = honest /\ src' = src
      /\ provider \in Nat
  BY DEF ProviderAsked, world, contentVars, IInv, TypeOK
<1>2. ResolveInv'
  BY <1>1 DEF HonestInv, ResolveInv, Faithful
<1>3. QED
  BY <1>1, <1>2 DEF HonestInv, SearchInv, SettledInv, InClaim, OneHonestProviderIsEnough,
                    OneHonestGatewayIsEnough

LEMMA ResolveHonest ==
  ASSUME IInv, HonestInv, Resolve
  PROVE  HonestInv'
<1>1. CASE ProviderDenied \/ ResolveFails
  <2>1. /\ pc = "cbor" /\ pc' = "done" /\ UNCHANGED <<world, checks, src, waiting>>
        /\ input' = input /\ honest' = honest /\ checks' = <<>>
    BY <1>1 DEF ProviderDenied, ResolveFails, Report, contentVars, world, IInv, StageInv
  <2>2. Providers \in Seq(Hosts) /\ provider \in 1..(Len(Providers) + 1)
    BY HostsAssumption DEF Providers, IInv, TypeOK
  <2>3. Range(Providers) \cap honest = {} \/ Range(Providers) \cap input.denied # {}
    <3>1. CASE ProviderDenied
      BY <2>2, <3>1 DEF ProviderDenied, Refused, Range
    <3>2. CASE ResolveFails
      BY <2>1, <2>2, <3>2 DEF ResolveFails, HonestInv, ResolveInv, Range
    <3>3. QED
      BY <1>1, <3>1, <3>2
  <2>4. QED
    BY <2>1, <2>3 DEF HonestInv, ResolveInv, SearchInv, SettledInv, InClaim,
                      OneHonestProviderIsEnough, OneHonestGatewayIsEnough
<1>2. CASE ProviderUnusable \/ ProviderNegative \/ BindingFails
  <2>1. /\ ProviderAsked({"cbor", "info", "tip"}) /\ ~Faithful
        /\ pc' = "cbor" /\ provider' = provider + 1
    BY <1>2 DEF ProviderUnusable, ProviderNegative, BindingFails, ProviderAsked, GiveUp
  <2>2. QED
    BY <2>1, AskedHonest
<1>3. CASE BindingHolds \/ InfoAnswered
  <2>1. /\ ProviderAsked({"cbor", "info", "tip"}) /\ provider' = provider
        /\ pc' \in {"info", "tip", "record"}
    BY <1>3 DEF BindingHolds, InfoAnswered, ProviderAsked, Resolved
  <2>2. QED
    BY <2>1, AskedHonest
<1>4. CASE TipAnswered
  <2>1. /\ ProviderAsked({"cbor", "info", "tip"}) /\ pc' \in {"cbor", "record"}
        /\ provider' = provider \/ (provider' = provider + 1 /\ ~Faithful)
    BY <1>4 DEF TipAnswered, ProviderAsked, GiveUp, Resolved
  <2>2. QED
    BY <2>1, AskedHonest
<1>5. QED
  BY <1>1, <1>2, <1>3, <1>4 DEF Resolve

\* The record is read only from a transaction that has been found; its claims
\* start before their first source.
LEMMA ReadRecordHonest ==
  ASSUME IInv, HonestInv, ReadRecord
  PROVE  HonestInv'
<1>1. /\ pc = "record" /\ depth >= 1 /\ checks = <<>> /\ src.uri = 0
      /\ UNCHANGED <<world, depth, src>>
  BY DEF ReadRecord, RecordRejected, TooShallow, StartContent, IInv, TypeOK, StageInv, HonestInv,
         resolveVars, contentVars
<1>2. CASE RecordRejected \/ TooShallow
  <2>1. pc' = "done" /\ (checks' = <<>> \/ verdict' = "pending")
    BY <1>1, <1>2 DEF RecordRejected, TooShallow, Report, contentVars
  <2>2. QED
    BY <1>1, <2>1 DEF HonestInv, ResolveInv, SearchInv, SettledInv, InClaim,
                      OneHonestProviderIsEnough, OneHonestGatewayIsEnough
<1>3. CASE StartContent
  <2>1. pc' = "content" /\ checks' = <<>> /\ src' = src /\ src'.hop = 0 /\ src'.gw = 1
    <3>1. ~(src.hop > 0) /\ ~(src.gw > 1) /\ src.hop \in 0..MaxHops /\ src.gw \in Nat \ {0}
      BY <1>1 DEF IInv, SourceInv, InClaim, TypeOK, Sources
    <3>2. QED
      BY <1>1, <1>3, <3>1, BoundsAssumption DEF StartContent, contentVars
  <2>2. SearchInv'
    <3>1. SUFFICES ASSUME InClaim'
                   PROVE  \A u \in (DOMAIN Claim.uris)' :
                            \A g \in (DOMAIN GatewaysOf(Claim.uris[u]))' : ~Passed(u, g)'
      BY <2>1 DEF SearchInv
    <3>2. (Claim \in Claims)'
      <4>1. record' \in Records /\ record'.claims \in Seq(Claims)
        BY <1>1, InputsAssumption DEF IInv, TypeOK, world
      <4>2. Number' = 1 /\ Number' \in 1..Len(record'.claims)
        BY <2>1, <3>1, <4>1 DEF Number, InClaim
      <4>3. QED
        BY <4>1, <4>2 DEF Claim
    <3>3. \A u \in (DOMAIN Claim.uris)' : u \in Nat /\ u > 0
      BY <3>2 DEF Claims
    <3>4. QED
      BY <1>1, <2>1, <3>3 DEF Passed
  <2>3. QED
    BY <2>1, <2>2 DEF HonestInv, ResolveInv, SettledInv, OneHonestProviderIsEnough,
                      OneHonestGatewayIsEnough
<1>4. QED
  BY <1>2, <1>3 DEF ReadRecord

LEMMA StutterHonest ==
  ASSUME HonestInv, UNCHANGED vars
  PROVE  HonestInv'
<1>1. /\ input' = input /\ record' = record /\ honest' = honest
      /\ pc' = pc /\ provider' = provider /\ depth' = depth
      /\ checks' = checks /\ src' = src /\ waiting' = waiting
      /\ issues' = issues /\ verdict' = verdict
  BY DEF vars, world
<1>2. /\ ResolveInv' /\ OneHonestProviderIsEnough'
      /\ pc' \notin {"content", "done"} => src'.uri = 0
  BY <1>1 DEF HonestInv, ResolveInv, OneHonestProviderIsEnough
<1>3. SearchInv' <=> SearchInv
  BY <1>1 DEF SearchInv, InClaim, Claim, Number, Fetchable, Skipped, AtFault, GatewaysOf, Passed,
              WillDecrypt, Has
<1>4. SettledInv' <=> SettledInv
  BY <1>1 DEF SettledInv, Fetchable, Skipped, AtFault, GatewaysOf, WillDecrypt, Has, Issue
<1>5. OneHonestGatewayIsEnough' <=> OneHonestGatewayIsEnough
  BY <1>1 DEF OneHonestGatewayIsEnough, Fetchable, Skipped, AtFault, GatewaysOf, WillDecrypt, Has,
              Issue
<1>6. QED
  BY <1>2, <1>3, <1>4, <1>5 DEF HonestInv

LEMMA InitHonest ==
  ASSUME Init
  PROVE  HonestInv
<1>1. pc = "cbor" /\ provider = 1 /\ src.uri = 0
  BY DEF Init, NoSource, Source
<1>2. QED
  BY <1>1 DEF HonestInv, ResolveInv, SearchInv, SettledInv, InClaim, OneHonestProviderIsEnough,
              OneHonestGatewayIsEnough

\* No faithful host is given up, by the explorers' rotation or by the search
\* for a claim's bytes.
THEOREM FaithfulHostsAreKept == Spec => []HonestInv
<1>1. Init => HonestInv
  BY InitHonest
<1>2. IInv /\ HonestInv /\ [Next]_vars => HonestInv'
  <2> SUFFICES ASSUME IInv, HonestInv, [Next]_vars
               PROVE  HonestInv'
    OBVIOUS
  <2>1. CASE Resolve
    BY <2>1, ResolveHonest
  <2>2. CASE ReadRecord
    BY <2>2, ReadRecordHonest
  <2>3. CASE CheckContent
    BY <2>3, LocalHonest, GatewayHonest, FinalReportHonest DEF CheckContent
  <2>4. CASE UNCHANGED vars
    BY <2>4, StutterHonest
  <2>5. QED
    BY <2>1, <2>2, <2>3, <2>4 DEF Next
<1>3. QED
  BY <1>1, <1>2, InductiveInvariant, PTL DEF Spec

\* One faithful explorer in the chain finds the transaction, whatever the others
\* answer before it is asked.
THEOREM OneProviderIsEnough == Spec => []OneHonestProviderIsEnough
<1>1. HonestInv => OneHonestProviderIsEnough
  BY DEF HonestInv
<1>2. QED
  BY <1>1, FaithfulHostsAreKept, PTL

\* One faithful gateway of one good address checks the claim, whatever the other
\* gateways serve before it is asked, unless a body passes the ceiling.
THEOREM OneGatewayIsEnough == Spec => []OneHonestGatewayIsEnough
<1>1. HonestInv => OneHonestGatewayIsEnough
  BY DEF HonestInv
<1>2. QED
  BY <1>1, FaithfulHostsAreKept, PTL

-----------------------------------------------------------------------------
(* The response a transaction is read from                                 *)

\* s is the part of data after position a.
Occurs(s, data, a) == a + Len(s) <= Len(data) /\ \A k \in 1..Len(s) : data[a + k] = s[k]

\* A part of a part is a part.
LEMMA OccursWithin ==
  ASSUME NEW S, NEW s \in Seq(S), NEW t \in Seq(S), NEW u \in Seq(S), NEW a \in Nat, NEW b \in Nat,
         Occurs(s, t, a), Occurs(t, u, b)
  PROVE  Occurs(s, u, b + a)
<1>1. Len(s) \in Nat /\ Len(t) \in Nat /\ Len(u) \in Nat /\ a + Len(s) <= Len(t) /\ b + Len(t) <= Len(u)
  BY DEF Occurs
<1>2. ASSUME NEW k \in 1..Len(s)
      PROVE  u[(b + a) + k] = s[k]
  <2>1. PICK j \in 1..Len(t) : j = a + k
    <3>1. a + k \in 1..Len(t)
      BY <1>1
    <3>2. QED
      BY <3>1
  <2>2. t[j] = s[k] /\ u[b + j] = t[j] /\ b + j = (b + a) + k
    BY <2>1 DEF Occurs
  <2>3. QED
    BY <2>2
<1>3. QED
  BY <1>1, <1>2 DEF Occurs

\* The parts of a concatenation.
LEMMA OccursInConcat ==
  ASSUME NEW S, NEW s \in Seq(S), NEW t \in Seq(S)
  PROVE  /\ s \o t \in Seq(S) /\ Len(s \o t) = Len(s) + Len(t)
         /\ Occurs(s, s \o t, 0) /\ Occurs(t, s \o t, Len(s))
<1>1. s \o t \in Seq(S) /\ Len(s \o t) = Len(s) + Len(t) /\ Len(s) \in Nat /\ Len(t) \in Nat
  OBVIOUS
<1>2. \A k \in 1..Len(s) : (s \o t)[0 + k] = s[k]
  BY <1>1
<1>3. \A k \in 1..Len(t) : (s \o t)[Len(s) + k] = t[k]
  BY <1>1
<1>4. QED
  BY <1>1, <1>2, <1>3 DEF Occurs

\* Where a part begins and ends tells what it is.
LEMMA OccursIsSubSeq ==
  ASSUME NEW S, NEW s \in Seq(S), NEW data \in Seq(S), NEW a \in Nat, Occurs(s, data, a)
  PROVE  SubSeq(data, a + 1, a + Len(s)) = s
<1>1. PICK n \in Nat, b \in Nat : n = Len(s) /\ b = a + n
  OBVIOUS
<1>2. b <= Len(data) /\ \A k \in 1..n : data[a + k] = s[k]
  BY <1>1 DEF Occurs
<1>3. \A i \in (a + 1)..b : data[i] \in S
  BY <1>1, <1>2
<1>4. a + 1 \in Int /\ b \in Int
  OBVIOUS
<1>5. /\ SubSeq(data, a + 1, b) \in Seq(S) /\ Len(SubSeq(data, a + 1, b)) = n
      /\ \A i \in 1..n : SubSeq(data, a + 1, b)[i] = data[a + i]
  BY <1>1, <1>3, <1>4, SubSeqProperties
<1>6. SubSeq(data, a + 1, b) = s
  BY <1>1, <1>2, <1>5, SeqEqual
<1>7. QED
  BY <1>1, <1>6

-----------------------------------------------------------------------------
(* Joining                                                                 *)

\* f joins the sequences one after the other.
Joins(f, S, seqs) ==
  /\ f \in [0..Len(seqs) -> Seq(S)] /\ f[0] = <<>>
  /\ \A i \in 1..Len(seqs) : f[i] = f[i - 1] \o seqs[i]

\* Such a function there is.
LEMMA JoinsExist ==
  ASSUME NEW S, NEW seqs \in Seq(Seq(S))
  PROVE  \E f : Joins(f, S, seqs)
<1> DEFINE L == Len(seqs)
           h == [x \in (1..L) \X Seq(S) |-> x[2] \o seqs[x[1]]]
<1>1. L \in Nat /\ \A n \in 1..L : seqs[n] \in Seq(S)
  OBVIOUS
<1>2. \A x \in (1..L) \X Seq(S) : x[2] \o seqs[x[1]] \in Seq(S)
  <2>1. \A x \in (1..L) \X Seq(S) : x[1] \in 1..L /\ x[2] \in Seq(S)
    OBVIOUS
  <2> HIDE DEF L
  <2>2. \A n \in 1..L, s \in Seq(S) : s \o seqs[n] \in Seq(S)
    BY <1>1
  <2>3. QED
    BY <2>1, <2>2
<1>3. h \in [(1..L) \X Seq(S) -> Seq(S)]
  BY <1>2
<1>4. \A n \in 1..L, s \in Seq(S) : h[<<n, s>>] = s \o seqs[n]
  OBVIOUS
<1>5. <<>> \in Seq(S)
  OBVIOUS
<1> HIDE DEF h
<1>6. PICK g \in [0..L -> Seq(S)] : Recurs(g, <<>>, h, L)
  BY <1>1, <1>3, <1>5, RecursionOnInterval
<1>7. ASSUME NEW n \in 1..L
      PROVE  g[n] = g[n - 1] \o seqs[n]
  <2>1. n - 1 \in 0..L
    BY <1>1
  <2>2. g[n] = h[<<n, g[n - 1]>>] /\ g[n - 1] \in Seq(S)
    BY <2>1, <1>6 DEF Recurs
  <2>3. QED
    BY <2>2, <1>4
<1>8. g[0] = <<>>
  BY <1>6 DEF Recurs
<1>9. Joins(g, S, seqs)
  BY <1>6, <1>7, <1>8 DEF Joins
<1>10. QED
  BY <1>9

\* f is the function FlattenSeq is defined by.
FlattenedBy(f, seqs) == f = [i \in 1..Len(seqs) |-> IF i = 1 THEN seqs[i] ELSE f[i - 1] \o seqs[i]]

\* FlattenSeq joins them all, and there is but one way.
LEMMA JoinsFlatten ==
  ASSUME NEW S, NEW seqs \in Seq(Seq(S)), NEW f, Joins(f, S, seqs)
  PROVE  FlattenSeq(seqs) = f[Len(seqs)] /\ FlattenSeq(seqs) \in Seq(S)
<1> DEFINE L == Len(seqs)
<1>1. L \in Nat /\ \A n \in 1..L : seqs[n] \in Seq(S)
  OBVIOUS
<1>2. f[L] \in Seq(S)
  BY <1>1 DEF Joins
<1>3. CASE L = 0
  <2>1. seqs = <<>>
    BY <1>3
  <2>2. FlattenSeq(seqs) = seqs
    BY <1>3 DEF FlattenSeq
  <2>3. QED
    BY <1>2, <1>3, <2>1, <2>2 DEF Joins
<1>4. CASE L # 0
  <2>1. ASSUME NEW i \in 1..L
        PROVE  f[i] = IF i = 1 THEN seqs[i] ELSE f[i - 1] \o seqs[i]
    <3>1. f[i] = f[i - 1] \o seqs[i]
      BY DEF Joins
    <3>2. CASE i = 1
      <4>1. f[0] = <<>> /\ seqs[i] \in Seq(S)
        BY <1>1 DEF Joins
      <4>2. <<>> \o seqs[i] = seqs[i]
        BY <4>1
      <4>3. i - 1 = 0
        BY <3>2
      <4>4. f[i] = seqs[i]
        BY <3>1, <4>1, <4>2, <4>3
      <4>5. QED
        BY <3>2, <4>4
    <3>3. QED
      BY <3>1, <3>2
  <2>2. PICK g : g = [i \in 1..L |-> f[i]]
    OBVIOUS
  <2>3. /\ \A i \in 1..L : g[i] = f[i]
        /\ \A i \in 1..L : i # 1 => g[i - 1] = f[i - 1]
    <3>1. \A i \in 1..L : i # 1 => i - 1 \in 1..L
      BY <1>1
    <3>2. QED
      BY <2>2, <3>1
  <2>13. \A i \in 1..L : g[i] = IF i = 1 THEN seqs[i] ELSE g[i - 1] \o seqs[i]
    BY <2>1, <2>3
  <2>14. FlattenedBy(g, seqs)
    <3>1. g = [i \in 1..L |-> IF i = 1 THEN seqs[i] ELSE g[i - 1] \o seqs[i]]
      BY <2>2, <2>13
    <3>2. QED
      BY <3>1 DEF FlattenedBy
  <2> DEFINE flatten[i \in 1..Len(seqs)] == IF i = 1 THEN seqs[i] ELSE flatten[i - 1] \o seqs[i]
  <2>4. flatten = [i \in 1..Len(seqs) |-> IF i = 1 THEN seqs[i] ELSE flatten[i - 1] \o seqs[i]]
    <3>1. \E k : k = [i \in 1..Len(seqs) |-> IF i = 1 THEN seqs[i] ELSE k[i - 1] \o seqs[i]]
      BY <2>14 DEF FlattenedBy
    <3>2. QED
      BY <3>1, Zenon
  <2>5. FlattenSeq(seqs) = flatten[L]
    BY <1>4 DEF FlattenSeq
  <2> HIDE DEF flatten
  <2>6. \A i \in 1..L : flatten[i] = IF i = 1 THEN seqs[i] ELSE flatten[i - 1] \o seqs[i]
    BY <2>4, Zenon
  <2>7. \A i \in 1..L : g[i] = IF i = 1 THEN seqs[i] ELSE g[i - 1] \o seqs[i]
    BY <2>13
  <2> DEFINE T == {n \in Nat : n + 1 <= L => flatten[n + 1] = g[n + 1]}
  <2>8. 0 \in T
    <3>1. 1 \in 1..L
      BY <1>1, <1>4
    <3>2. flatten[1] = seqs[1] /\ g[1] = seqs[1]
      BY <2>6, <2>7, <3>1
    <3>3. QED
      BY <3>2
  <2>9. ASSUME NEW n \in Nat, n \in T
        PROVE  n + 1 \in T
    <3>1. SUFFICES ASSUME (n + 1) + 1 <= L
                   PROVE  flatten[(n + 1) + 1] = g[(n + 1) + 1]
      OBVIOUS
    <3>2. PICK k \in 1..L : k = (n + 1) + 1 /\ k - 1 = n + 1 /\ k # 1
      BY <1>1, <3>1
    <3>3. flatten[n + 1] = g[n + 1]
      BY <1>1, <2>9, <3>1
    <3>4. flatten[k] = flatten[k - 1] \o seqs[k] /\ g[k] = g[k - 1] \o seqs[k]
      BY <2>6, <2>7, <3>2
    <3>5. QED
      BY <3>2, <3>3, <3>4
  <2>10. L - 1 \in T
    <3>1. L - 1 \in Nat
      BY <1>1, <1>4
    <3> HIDE DEF T
    <3>2. QED
      BY <2>8, <2>9, <3>1, SetInduction
  <2>11. flatten[L] = g[L] /\ L \in 1..L
    <3>1. (L - 1) + 1 = L
      BY <1>1
    <3>2. QED
      BY <1>1, <1>4, <2>10, <3>1
  <2>12. QED
    BY <1>2, <2>3, <2>5, <2>11
<1>5. QED
  BY <1>3, <1>4

\* What is joined first stays in front, and what is joined is a part of the whole.
JoinedAt(f, seqs, c) ==
  /\ Len(f[c]) = Len(f[c - 1]) + Len(seqs[c])
  /\ Occurs(seqs[c], f[Len(seqs)], Len(f[c - 1]))

\* A joined sequence adds its length, and is a part of the whole where it was added.
LEMMA JoinsFacts ==
  ASSUME NEW S, NEW seqs \in Seq(Seq(S)), NEW f, Joins(f, S, seqs), NEW c \in 1..Len(seqs)
  PROVE  JoinedAt(f, seqs, c)
<1> DEFINE L == Len(seqs)
           T == {k \in Nat : c + k <= L => Occurs(f[c], f[c + k], 0)}
<1>1. L \in Nat /\ \A n \in 0..L : f[n] \in Seq(S)
  <2>1. f \in [0..L -> Seq(S)]
    BY DEF Joins
  <2>2. \A n \in 0..L : f[n] \in Seq(S)
    BY <2>1
  <2>3. L \in Nat
    OBVIOUS
  <2>4. QED
    BY <2>2, <2>3
<1>2. c \in 0..L /\ c - 1 \in 0..L /\ L \in 0..L /\ c \in Nat
  BY <1>1
<1>3. \A n \in 1..L : f[n] = f[n - 1] \o seqs[n] /\ seqs[n] \in Seq(S)
  <2>1. \A n \in 1..L : f[n] = f[n - 1] \o seqs[n]
    BY DEF Joins
  <2>2. \A n \in 1..L : seqs[n] \in Seq(S)
    OBVIOUS
  <2>3. QED
    BY <2>1, <2>2
<1>4. 0 \in T
  <2>1. f[c] \in Seq(S) /\ c + 0 = c
    BY <1>1, <1>2
  <2>2. Occurs(f[c], f[c], 0)
    BY <2>1 DEF Occurs
  <2>3. QED
    BY <2>1, <2>2
<1>5. ASSUME NEW k \in Nat, k \in T
      PROVE  k + 1 \in T
  <2>1. SUFFICES ASSUME c + (k + 1) <= L
                 PROVE  Occurs(f[c], f[c + (k + 1)], 0)
    OBVIOUS
  <2>2. PICK n \in 1..L : n = c + (k + 1) /\ n - 1 = c + k /\ n - 1 \in 0..L
    BY <1>1, <1>2, <2>1
  <2>3. Occurs(f[c], f[n - 1], 0)
    BY <1>1, <1>2, <1>5, <2>1, <2>2
  <2>4. PICK s \in Seq(S), t \in Seq(S), u \in Seq(S) : s = f[n - 1] /\ t = seqs[n] /\ u = f[c]
    BY <1>1, <1>2, <1>3, <2>2
  <2>5. Occurs(s, s \o t, 0) /\ s \o t \in Seq(S)
    BY OccursInConcat
  <2>6. Occurs(u, s \o t, 0 + 0)
    BY <2>3, <2>4, <2>5, OccursWithin
  <2>7. f[n] = s \o t
    BY <1>3, <2>2, <2>4
  <2>10. 0 + 0 = 0
    OBVIOUS
  <2>8. Occurs(f[c], f[n], 0)
    BY <2>4, <2>6, <2>7, <2>10
  <2>9. QED
    BY <2>2, <2>8
<1>6. L - c \in T
  <2>1. L - c \in Nat
    BY <1>1
  <2> HIDE DEF T
  <2>2. QED
    BY <1>4, <1>5, <2>1, SetInduction
<1>7. Occurs(f[c], f[L], 0)
  <2>1. c + (L - c) = L /\ c + (L - c) <= L
    BY <1>1, <1>2
  <2>2. QED
    BY <1>6, <2>1
<1>8. PICK s \in Seq(S), t \in Seq(S), u \in Seq(S), w \in Seq(S) :
        s = f[c - 1] /\ t = seqs[c] /\ u = f[c] /\ w = f[L]
  BY <1>1, <1>2, <1>3
<1>9. u = s \o t /\ Len(u) = Len(s) + Len(t) /\ Occurs(t, u, Len(s))
  <2>1. u = s \o t
    BY <1>3, <1>8
  <2>2. Len(s \o t) = Len(s) + Len(t) /\ Occurs(t, s \o t, Len(s))
    BY OccursInConcat
  <2>3. QED
    BY <2>1, <2>2
<1>10. Occurs(t, w, 0 + Len(s))
  <2>1. Len(s) \in Nat /\ Occurs(u, w, 0)
    BY <1>7, <1>8
  <2>2. QED
    BY <1>9, <2>1, OccursWithin
<1>11. Occurs(t, w, Len(s))
  <2>1. 0 + Len(s) = Len(s)
    OBVIOUS
  <2>2. QED
    BY <1>10, <2>1
<1>12. QED
  BY <1>8, <1>9, <1>11 DEF JoinedAt

-----------------------------------------------------------------------------
(* Heads                                                                   *)

\* A head of shortest form is one to three bytes.
LEMMA HeadBytes ==
  ASSUME NEW mt \in {0, 2, 4}, NEW n \in Nat
  PROVE  /\ MinimalHead(mt, n) \in Seq(Nat)
         /\ Len(MinimalHead(mt, n)) \in Nat /\ Len(MinimalHead(mt, n)) >= 1
<1>1. mt * 32 + n \in Nat /\ mt * 32 + 24 \in Nat /\ mt * 32 + 25 \in Nat
      /\ n \div 256 \in Nat /\ n % 256 \in Nat
  OBVIOUS
<1>2. QED
  BY <1>1 DEF MinimalHead

\* What the head of an item is read as.
IsHead(h, mt, n, start) == h.mt = mt /\ h.value = n /\ h.start = start

\* A head that is in shortest form is as it is read.
LEMMA StrictHeadOf ==
  ASSUME NEW data, NEW pos, NEW ai \in Nat, NEW value \in Nat, ai <= 25,
         ReadHead(data, pos).ai = ai, ReadHead(data, pos).value = value,
         ai = 24 => 24 <= value, ai = 25 => 256 <= value
  PROVE  StrictHead(data, pos) = ReadHead(data, pos)
<1> DEFINE least == [n \in 0..27 |-> CASE n < 24 -> 0 [] n = 24 -> 24 [] n = 25 -> 256 [] OTHER -> Long]
           h == ReadHead(data, pos)
           padded == h.ai = 27 /\ \A p \in (pos + 1)..(pos + 4) : data[p] = 0
<1>1. StrictHead(data, pos) = IF h.value < least[h.ai] \/ padded THEN NoHead ELSE h
  BY Zenon DEF StrictHead
<1>2. least[ai] <= value
  <2>1. ai \in 0..27
    OBVIOUS
  <2>2. CASE ai < 24
    <3>1. least[ai] = 0
      BY <2>1, <2>2
    <3>2. QED
      BY <3>1
  <2>3. CASE ai = 24
    <3>1. least[24] = 24
      OBVIOUS
    <3>2. QED
      BY <2>3, <3>1
  <2>4. CASE ai = 25
    <3>1. least[25] = 256
      OBVIOUS
    <3>2. QED
      BY <2>4, <3>1
  <2>5. QED
    BY <2>2, <2>3, <2>4
<1>3. PICK m : m = least[ai]
  OBVIOUS
<1>4. ~(value < m) /\ ai # 27
  <2>1. m \in Int
    <3>1. CASE ai < 24
      <4>1. least[ai] = 0
        BY <3>1
      <4>2. QED
        BY <1>3, <4>1
    <3>2. CASE ai \in {24, 25}
      BY <1>3, <3>2
    <3>3. QED
      BY <3>1, <3>2
  <2>2. QED
    BY <1>2, <1>3, <2>1
<1> HIDE DEF least, h
<1>5. h.ai = ai /\ h.value = value
  BY DEF h
<1>6. ~(h.value < least[h.ai] \/ padded)
  BY <1>3, <1>4, <1>5, Zenon
<1>7. QED
  BY <1>1, <1>6 DEF h
\* How many bytes the argument takes, and what it is read as.
WidthOf(ai) == IF ai \in DOMAIN ArgumentBytes THEN ArgumentBytes[ai] ELSE 0
\* The argument of a head.
ValueAt(data, pos, ai) ==
  IF WidthOf(ai) = 0 THEN ai ELSE Argument(data, pos + 1, pos + WidthOf(ai))

\* What a head is read as, once its first byte is known.
LEMMA ReadHeadAt ==
  ASSUME NEW data, NEW pos \in DOMAIN data, NEW ai, data[pos] % 32 = ai,
         ~(ai > 27 \/ pos + WidthOf(ai) > Len(data))
  PROVE  ReadHead(data, pos) =
           [mt |-> data[pos] \div 32, ai |-> ai, start |-> pos + 1 + WidthOf(ai),
            value |-> ValueAt(data, pos, ai)]
BY Zenon DEF ReadHead, WidthOf, ValueAt

\* The major type and the additional information of a first byte.
LEMMA FirstByte ==
  ASSUME NEW mt \in {2, 4}, NEW ai \in Nat, ai <= 25
  PROVE  (mt * 32 + ai) % 32 = ai /\ (mt * 32 + ai) \div 32 = mt
<1>1. CASE mt = 2
  BY <1>1
<1>2. CASE mt = 4
  BY <1>2
<1>3. QED
  BY <1>1, <1>2

\* A head whose first byte, width and argument are known.
KnownAt(data, pos, mt, ai) ==
  /\ pos \in DOMAIN data /\ pos + WidthOf(ai) <= Len(data) /\ data[pos] = mt * 32 + ai
  /\ WidthOf(ai) \in Nat /\ ValueAt(data, pos, ai) \in Nat
  /\ (ai = 24 => 24 <= ValueAt(data, pos, ai)) /\ (ai = 25 => 256 <= ValueAt(data, pos, ai))

\* A head that is known is read as what it is known to be: it is strict.
LEMMA KnownHead ==
  ASSUME NEW data \in Seq(Nat), NEW pos \in Nat, NEW mt \in {2, 4}, NEW ai \in Nat, ai <= 25,
         KnownAt(data, pos, mt, ai)
  PROVE  IsHead(StrictHead(data, pos), mt, ValueAt(data, pos, ai), pos + 1 + WidthOf(ai))
<1>1. pos \in DOMAIN data /\ pos + WidthOf(ai) <= Len(data) /\ data[pos] = mt * 32 + ai
  BY DEF KnownAt
<1>2. PICK width \in Nat : width = WidthOf(ai)
  BY DEF KnownAt
<1>3. PICK n \in Nat : n = ValueAt(data, pos, ai)
  BY DEF KnownAt
<1>4. (ai = 24 => 24 <= n) /\ (ai = 25 => 256 <= n)
  BY <1>3 DEF KnownAt
<1>5. data[pos] % 32 = ai /\ data[pos] \div 32 = mt
  BY <1>1, FirstByte
<1>7. ~(ai > 27 \/ pos + WidthOf(ai) > Len(data))
  <2>1. Len(data) \in Nat
    OBVIOUS
  <2>2. QED
    BY <1>1, <1>2, <2>1
<1>9. data[pos] % 32 = ai
  BY <1>5
<1>10. ReadHead(data, pos) =
        [mt |-> data[pos] \div 32, ai |-> ai, start |-> pos + 1 + WidthOf(ai),
         value |-> ValueAt(data, pos, ai)]
  BY <1>1, <1>7, <1>9, ReadHeadAt
<1>12. PICK h : h = ReadHead(data, pos)
  OBVIOUS
<1>13. h.mt = mt /\ h.ai = ai /\ h.start = pos + 1 + width /\ h.value = n
  BY <1>2, <1>3, <1>5, <1>10, <1>12
<1>14. StrictHead(data, pos) = h
  BY <1>4, <1>12, <1>13, StrictHeadOf
<1>15. QED
  BY <1>2, <1>3, <1>13, <1>14 DEF IsHead

\* A head of shortest form, wherever it stands, is read as what was written.
LEMMA HeadIsRead ==
  ASSUME NEW mt \in {2, 4}, NEW n \in Nat, NEW data \in Seq(Nat), NEW a \in Nat,
         Occurs(MinimalHead(mt, n), data, a)
  PROVE  IsHead(StrictHead(data, a + 1), mt, n, a + Len(MinimalHead(mt, n)) + 1)
<1>1. DOMAIN data = 1..Len(data) /\ Len(data) \in Nat
  OBVIOUS
<1>2. PICK pos \in Nat : pos = a + 1
  OBVIOUS
<1>3. PICK m \in Seq(Nat) : m = MinimalHead(mt, n)
  BY HeadBytes
<1>4. Occurs(m, data, a)
  BY <1>3
<1>5. a + Len(m) <= Len(data) /\ \A k \in 1..Len(m) : data[a + k] = m[k]
  BY <1>4 DEF Occurs
<1>6. Len(data) \in Nat /\ pos + 1 = a + 2 /\ pos + 2 = a + 3
  BY <1>2
<1>7. CASE n < 24
  <2>1. m = <<mt * 32 + n>>
    BY <1>3, <1>7 DEF MinimalHead
  <2>2. Len(m) = 1 /\ m[1] = mt * 32 + n
    BY <2>1
  <2>3. data[pos] = mt * 32 + n /\ pos <= Len(data)
    BY <1>2, <1>5, <2>2
  <2>4. WidthOf(n) = 0 /\ ValueAt(data, pos, n) = n
    <3>1. n \notin DOMAIN ArgumentBytes
      BY <1>7 DEF ArgumentBytes
    <3>2. WidthOf(n) = 0
      BY <3>1 DEF WidthOf
    <3>3. QED
      BY <3>2 DEF ValueAt
  <2>5. n <= 25 /\ n # 24 /\ n # 25
    BY <1>7
  <2>6. pos \in DOMAIN data /\ pos + 0 <= Len(data)
    BY <1>1, <1>2, <1>6, <2>3
  <2>7. IsHead(StrictHead(data, pos), mt, n, pos + 1 + WidthOf(n))
    <3>1. KnownAt(data, pos, mt, n)
      BY <2>3, <2>4, <2>5, <2>6 DEF KnownAt
    <3>2. IsHead(StrictHead(data, pos), mt, ValueAt(data, pos, n), pos + 1 + WidthOf(n))
      BY <2>5, <3>1, KnownHead
    <3>3. QED
      BY <2>4, <3>2
  <2>8. pos + 1 + WidthOf(n) = a + Len(m) + 1
    BY <1>2, <2>2, <2>4
  <2>9. QED
    BY <1>2, <1>3, <2>7, <2>8
<1>8. CASE ~(n < 24) /\ n < 256
  <2>1. m = <<mt * 32 + 24, n>>
    BY <1>3, <1>8 DEF MinimalHead
  <2>2. Len(m) = 2 /\ m[1] = mt * 32 + 24 /\ m[2] = n
    BY <2>1
  <2>3. data[a + 1] = m[1] /\ data[a + 2] = m[2] /\ a + 2 <= Len(data)
    BY <1>5, <2>2
  <2>4. data[pos] = mt * 32 + 24 /\ data[pos + 1] = n /\ pos + 1 <= Len(data)
    BY <1>2, <1>6, <2>2, <2>3
  <2>5. WidthOf(24) = 1 /\ ValueAt(data, pos, 24) = n
    <3>1. 24 \in DOMAIN ArgumentBytes /\ ArgumentBytes[24] = 1
      BY DEF ArgumentBytes
    <3>2. WidthOf(24) = 1
      BY <3>1 DEF WidthOf
    <3>3. Argument(data, pos + 1, pos + 1) = n
      <4>1. ~\E p \in (pos + 1)..((pos + 1) - 2) : data[p] # 0
        OBVIOUS
      <4>2. ~(pos + 1 < pos + 1)
        OBVIOUS
      <4>3. Argument(data, pos + 1, pos + 1) = 0 + data[pos + 1]
        BY <4>1, <4>2 DEF Argument
      <4>4. QED
        BY <2>4, <4>3
    <3>4. QED
      BY <3>2, <3>3 DEF ValueAt
  <2>6. pos \in DOMAIN data /\ 24 <= n
    BY <1>1, <1>2, <1>6, <1>8, <2>4
  <2>7. IsHead(StrictHead(data, pos), mt, ValueAt(data, pos, 24), pos + 1 + WidthOf(24))
    <3>1. KnownAt(data, pos, mt, 24)
      BY <2>4, <2>5, <2>6 DEF KnownAt
    <3>2. QED
      BY <3>1, KnownHead
  <2>8. pos + 1 + WidthOf(24) = a + Len(m) + 1
    BY <1>2, <2>2, <2>5
  <2>9. QED
    BY <1>2, <1>3, <2>5, <2>7, <2>8
<1>9. CASE ~(n < 256)
  <2>1. m = <<mt * 32 + 25, n \div 256, n % 256>>
    <3>1. ~(n < 24)
      BY <1>9
    <3>2. QED
      BY <1>3, <1>9, <3>1 DEF MinimalHead
  <2>2. Len(m) = 3 /\ m[1] = mt * 32 + 25 /\ m[2] = n \div 256 /\ m[3] = n % 256
    BY <2>1
  <2>3. data[a + 1] = m[1] /\ data[a + 2] = m[2] /\ data[a + 3] = m[3] /\ a + 3 <= Len(data)
    <3>1. \A k \in 1..3 : data[a + k] = m[k]
      BY <1>5, <2>2, Zenon
    <3>2. a + 3 <= Len(data)
      BY <1>5, <2>2, Zenon
    <3>3. 1 \in 1..3 /\ 2 \in 1..3 /\ 3 \in 1..3
      OBVIOUS
    <3>4. QED
      BY <3>1, <3>2, <3>3, Zenon
  <2>4. /\ data[pos] = mt * 32 + 25 /\ data[pos + 1] = n \div 256 /\ data[pos + 2] = n % 256
        /\ pos + 2 <= Len(data)
    BY <1>2, <1>6, <2>2, <2>3, Zenon
  <2>5. WidthOf(25) = 2 /\ ValueAt(data, pos, 25) = n
    <3>1. 25 \in DOMAIN ArgumentBytes /\ ArgumentBytes[25] = 2
      BY DEF ArgumentBytes
    <3>2. WidthOf(25) = 2
      BY <3>1 DEF WidthOf
    <3>3. Argument(data, pos + 1, pos + 2) = n
      <4>1. (n \div 256) * 256 + (n % 256) = n
        OBVIOUS
      <4>2. ~\E p \in (pos + 1)..((pos + 2) - 2) : data[p] # 0
        OBVIOUS
      <4>3. pos + 1 < pos + 2 /\ (pos + 2) - 1 = pos + 1
        OBVIOUS
      <4>4. Argument(data, pos + 1, pos + 2) = data[(pos + 2) - 1] * 256 + data[pos + 2]
        BY <4>2, <4>3 DEF Argument
      <4>5. QED
        BY <2>4, <4>1, <4>3, <4>4
    <3>4. QED
      BY <3>2, <3>3 DEF ValueAt
  <2>6. pos \in DOMAIN data /\ 256 <= n
    BY <1>1, <1>2, <1>6, <1>9, <2>4
  <2>7. IsHead(StrictHead(data, pos), mt, ValueAt(data, pos, 25), pos + 1 + WidthOf(25))
    <3>1. data[pos] = mt * 32 + 25 /\ pos + 2 <= Len(data)
      BY <2>4
    <3>2. KnownAt(data, pos, mt, 25)
      <4>1. pos + WidthOf(25) <= Len(data) /\ WidthOf(25) \in Nat
        <5>1. WidthOf(25) = 2 /\ 2 \in Nat
          BY <2>5
        <5>2. QED
          BY <3>1, <5>1, Zenon
      <4>2. ValueAt(data, pos, 25) \in Nat /\ 256 <= ValueAt(data, pos, 25)
        BY <2>5, <2>6
      <4>3. 25 # 24
        OBVIOUS
      <4>4. QED
        BY <2>6, <3>1, <4>1, <4>2, <4>3, Zenon DEF KnownAt
    <3>3. QED
      BY <3>2, KnownHead
  <2>8. pos + 1 + WidthOf(25) = a + Len(m) + 1
    BY <1>2, <2>2, <2>5
  <2>9. QED
    BY <1>2, <1>3, <2>5, <2>7, <2>8
<1>10. QED
  BY <1>7, <1>8, <1>9

-----------------------------------------------------------------------------
(* Chunks                                                                  *)

\* Where a walk over the array stands: before position a + 1, with a body read.
At(a, body) == [pos |-> a + 1, code |-> OK, body |-> body]

\* The byte string of a chunk after position a is read as what it holds, or it is
\* too long and refused for that.
IsReadAt(value, chunk, a, body) ==
  IF Len(chunk) <= TRANSPORT_CHUNK_MAX_BYTES
  THEN ReadChunk(value, At(a, body)) = At(a + Len(ByteString(chunk)), body \o chunk)
  ELSE ReadChunk(value, At(a, body)).code = "CHUNK_TOO_LARGE"

\* A byte string in the array is read as the chunk it is, or refused for its length.
LEMMA ChunkIsRead ==
  ASSUME TRANSPORT_CHUNK_MAX_BYTES \in Nat,
         NEW value \in Seq(Nat), NEW chunk \in Seq(Nat), NEW a \in Nat, NEW body \in Seq(Nat),
         Occurs(ByteString(chunk), value, a)
  PROVE  IsReadAt(value, chunk, a, body)
<1>1. PICK n \in Nat : n = Len(chunk)
  OBVIOUS
<1>2. PICK head \in Seq(Nat) : head = MinimalHead(2, n)
  BY HeadBytes
<1>3. /\ ByteString(chunk) = head \o chunk /\ head \o chunk \in Seq(Nat)
      /\ Len(head \o chunk) = Len(head) + n
      /\ Occurs(head, head \o chunk, 0) /\ Occurs(chunk, head \o chunk, Len(head))
  <2>1. ByteString(chunk) = head \o chunk
    BY <1>1, <1>2 DEF ByteString
  <2>2. QED
    BY <1>1, <2>1, OccursInConcat
<1>4. PICK item \in Seq(Nat) : item = head \o chunk /\ item = ByteString(chunk)
  BY <1>3
<1>5. Len(head) \in Nat /\ Len(item) = Len(head) + n /\ Len(value) \in Nat
  BY <1>3, <1>4
<1>6. Occurs(item, value, a) /\ a + Len(item) <= Len(value)
  BY <1>4 DEF Occurs
<1>7. Occurs(head, value, a)
  <2>1. Occurs(head, item, 0)
    BY <1>3, <1>4
  <2>2. Occurs(head, value, a + 0) /\ a + 0 = a
    BY <1>6, <2>1, OccursWithin
  <2>3. QED
    BY <2>2
<1>8. PICK b \in Nat : b = a + Len(head)
  BY <1>5
<1>9. Occurs(chunk, value, b)
  <2>1. Occurs(chunk, item, Len(head))
    BY <1>3, <1>4
  <2>2. QED
    BY <1>5, <1>6, <1>8, <2>1, OccursWithin
<1>10. PICK h : h = StrictHead(value, a + 1)
  OBVIOUS
<1>11. h.mt = 2 /\ h.value = n /\ h.start = b + 1
  <2>1. IsHead(StrictHead(value, a + 1), 2, n, a + Len(MinimalHead(2, n)) + 1)
    BY <1>2, <1>7, HeadIsRead
  <2>2. QED
    BY <1>2, <1>8, <1>10, <2>1 DEF IsHead
<1>12. SubSeq(value, b + 1, b + n) = chunk
  BY <1>1, <1>9, OccursIsSubSeq
<1>13. PICK end \in Nat : end = h.start + h.value /\ end = a + Len(item) + 1 /\ end - 1 = b + n
  BY <1>5, <1>8, <1>11
<1>14. ~(h.mt # 2 \/ end > Len(value) + 1)
  <2>1. a + Len(item) <= Len(value) /\ end = a + Len(item) + 1
    BY <1>6, <1>13
  <2>2. Len(item) \in Nat /\ Len(value) \in Nat
    OBVIOUS
  <2>3. ~(end > Len(value) + 1)
    BY <2>1, <2>2
  <2>4. QED
    BY <1>11, <2>3, Zenon
<1>15. PICK s : s = At(a, body)
  OBVIOUS
<1>16. s.pos = a + 1 /\ s.code = OK /\ s.body = body
  BY <1>15 DEF At
<1>17. s \in [pos : Nat, code : {OK}, body : Seq(Nat)] /\ body \o chunk \in Seq(Nat)
  BY <1>15 DEF At
<1>18. CASE n <= TRANSPORT_CHUNK_MAX_BYTES
  <2>1. ~(h.value > TRANSPORT_CHUNK_MAX_BYTES)
    BY <1>11, <1>18
  <2>2. ReadChunk(value, s) = [s EXCEPT !.pos = end, !.body = @ \o SubSeq(value, h.start, end - 1)]
    BY <1>10, <1>13, <1>14, <1>16, <2>1 DEF ReadChunk
  <2>3. ReadChunk(value, s) = [s EXCEPT !.pos = end, !.body = body \o chunk]
    BY <1>11, <1>12, <1>13, <1>16, <2>2
  <2>4. PICK r : r = [s EXCEPT !.pos = end, !.body = body \o chunk]
    OBVIOUS
  <2>5. r \in [pos : Nat, code : {OK}, body : Seq(Nat)]
    BY <1>17, <2>4
  <2>6. r.pos = end /\ r.body = body \o chunk /\ r.code = OK
    BY <1>17, <2>4
  <2>7. r = [pos |-> end, code |-> OK, body |-> body \o chunk]
    BY <2>5, <2>6
  <2>8. ReadChunk(value, At(a, body)) = At(a + Len(ByteString(chunk)), body \o chunk)
    BY <1>4, <1>13, <1>15, <2>3, <2>4, <2>7 DEF At
  <2>9. QED
    BY <1>1, <1>18, <2>8 DEF IsReadAt
<1>19. CASE ~(n <= TRANSPORT_CHUNK_MAX_BYTES)
  <2>1. h.value > TRANSPORT_CHUNK_MAX_BYTES
    BY <1>11, <1>19
  <2>2. ReadChunk(value, s) = [s EXCEPT !.code = "CHUNK_TOO_LARGE"]
    BY <1>10, <1>13, <1>14, <1>16, <2>1 DEF ReadChunk
  <2>3. [s EXCEPT !.code = "CHUNK_TOO_LARGE"].code = "CHUNK_TOO_LARGE"
    BY <1>17
  <2>4. ReadChunk(value, At(a, body)).code = "CHUNK_TOO_LARGE"
    BY <1>15, <2>2, <2>3, Zenon
  <2>5. QED
    BY <1>1, <1>19, <2>4 DEF IsReadAt
<1>20. QED
  BY <1>18, <1>19

\* Every chunk of an array of them, one after the other, and nothing is left.
InARow(value, e, g, chunks) ==
  /\ value = EncodeChunks(chunks) /\ g[Len(chunks)] = FlattenSeq(chunks)
  /\ At(e[0], g[0]) = [pos |-> StrictHead(value, 1).start, code |-> OK, body |-> <<>>]
  /\ StrictHead(value, 1).mt = 4 /\ StrictHead(value, 1).value = Len(chunks)
  /\ Len(chunks) <= Len(value) /\ e[Len(chunks)] = Len(value)
  /\ \A c \in 1..Len(chunks) :
       IF Len(chunks[c]) <= TRANSPORT_CHUNK_MAX_BYTES
       THEN ReadChunk(value, At(e[c - 1], g[c - 1])) = At(e[c], g[c])
       ELSE ReadChunk(value, At(e[c - 1], g[c - 1])).code = "CHUNK_TOO_LARGE"

\* An encoding of chunks is one array whose byte strings are read one after another.
LEMMA ChunksInARow ==
  ASSUME TRANSPORT_CHUNK_MAX_BYTES \in Nat, NEW chunks \in Seq(Seq(Nat))
  PROVE  \E value \in Seq(Nat), e \in [0..Len(chunks) -> Nat], g \in [0..Len(chunks) -> Seq(Nat)] :
           InARow(value, e, g, chunks)
<1>1. PICK L \in Nat : L = Len(chunks) /\ DOMAIN chunks = 1..L
  OBVIOUS
<1>2. \A c \in 1..L : chunks[c] \in Seq(Nat)
  BY <1>1
<1>3. PICK items \in Seq(Seq(Nat)) : items = [c \in DOMAIN chunks |-> ByteString(chunks[c])]
  <2>1. ASSUME NEW c \in 1..L
        PROVE  ByteString(chunks[c]) \in Seq(Nat)
    <3>1. PICK chunk \in Seq(Nat) : chunk = chunks[c]
      BY <1>2
    <3>2. PICK head \in Seq(Nat) : head = MinimalHead(2, Len(chunk))
      <4>1. Len(chunk) \in Nat
        OBVIOUS
      <4>2. QED
        BY <4>1, HeadBytes
    <3>3. QED
      BY <3>1, <3>2 DEF ByteString
  <2>2. [c \in 1..L |-> ByteString(chunks[c])] \in Seq(Seq(Nat))
    BY <2>1
  <2>3. QED
    BY <1>1, <2>2
<1>4. Len(items) = L /\ \A c \in 1..L : items[c] = ByteString(chunks[c]) /\ items[c] \in Seq(Nat)
  <2>1. DOMAIN items = 1..L
    BY <1>1, <1>3
  <2>2. Len(items) = L
    BY <2>1
  <2>3. \A c \in 1..L : items[c] = ByteString(chunks[c])
    BY <1>1, <1>3
  <2>4. \A c \in 1..L : items[c] \in Seq(Nat)
    BY <2>2
  <2>5. QED
    BY <2>2, <2>3, <2>4
<1>5. PICK f : Joins(f, Nat, items)
  BY JoinsExist
<1>6. PICK g : Joins(g, Nat, chunks)
  BY JoinsExist
<1>7. FlattenSeq(items) = f[L] /\ f[L] \in Seq(Nat) /\ FlattenSeq(chunks) = g[L]
  <2>1. FlattenSeq(items) = f[Len(items)] /\ FlattenSeq(items) \in Seq(Nat)
    BY <1>5, JoinsFlatten
  <2>2. FlattenSeq(chunks) = g[Len(chunks)]
    BY <1>6, JoinsFlatten
  <2>3. QED
    BY <1>1, <1>4, <2>1, <2>2
<1>8. PICK head \in Seq(Nat), rest \in Seq(Nat) : head = MinimalHead(4, L) /\ rest = f[L] /\ Len(head) >= 1
  BY <1>7, HeadBytes
<1>9. PICK value \in Seq(Nat) : value = head \o rest /\ value = EncodeChunks(chunks)
  <2>1. EncodeChunks(chunks) = ArrayOf(items)
    BY <1>3 DEF EncodeChunks
  <2>2. ArrayOf(items) = head \o rest
    BY <1>4, <1>7, <1>8 DEF ArrayOf
  <2>3. head \o rest \in Seq(Nat)
    OBVIOUS
  <2>4. QED
    BY <2>1, <2>2, <2>3, Zenon
<1>10. PICK H \in Nat : H = Len(head) /\ H >= 1
  BY <1>8
<1>11. Len(value) = H + Len(rest) /\ Occurs(head, value, 0) /\ Occurs(rest, value, H)
  BY <1>9, <1>10, OccursInConcat
<1>12. \A c \in 0..L : f[c] \in Seq(Nat) /\ Len(f[c]) \in Nat /\ g[c] \in Seq(Nat)
  <2>1. f \in [0..L -> Seq(Nat)] /\ g \in [0..L -> Seq(Nat)]
    BY <1>1, <1>4, <1>5, <1>6 DEF Joins
  <2>2. \A c \in 0..L : f[c] \in Seq(Nat) /\ g[c] \in Seq(Nat)
    BY <2>1
  <2>3. \A s \in Seq(Nat) : Len(s) \in Nat
    OBVIOUS
  <2>4. QED
    BY <2>2, <2>3, Zenon
<1>13. PICK e : e = [c \in 0..L |-> H + Len(f[c])]
  OBVIOUS
<1>14. e \in [0..L -> Nat] /\ \A c \in 0..L : e[c] = H + Len(f[c])
  BY <1>12, <1>13
<1>15. g \in [0..L -> Seq(Nat)]
  BY <1>1, <1>6 DEF Joins
<1>16. e[0] = H /\ g[0] = <<>>
  <2>1. f[0] = <<>> /\ g[0] = <<>> /\ 0 \in 0..L
    BY <1>5, <1>6 DEF Joins
  <2>2. e[0] = H + 0
    BY <1>14, <2>1
  <2>3. QED
    BY <2>1, <2>2
<1>17. /\ StrictHead(value, 1).mt = 4 /\ StrictHead(value, 1).value = L
       /\ StrictHead(value, 1).start = H + 1
  <2>1. IsHead(StrictHead(value, 0 + 1), 4, L, 0 + Len(MinimalHead(4, L)) + 1)
    BY <1>8, <1>11, HeadIsRead
  <2>2. 0 + 1 = 1 /\ 0 + Len(MinimalHead(4, L)) + 1 = H + 1
    BY <1>8, <1>10
  <2>3. QED
    BY <2>1, <2>2 DEF IsHead
<1>18. e[L] = Len(value)
  BY <1>8, <1>11, <1>14
<1>19. ASSUME NEW c \in 1..L
       PROVE  /\ Len(f[c]) = Len(f[c - 1]) + Len(items[c])
              /\ g[c] = g[c - 1] \o chunks[c]
              /\ Occurs(items[c], f[L], Len(f[c - 1]))
              /\ c - 1 \in 0..L /\ c \in 0..L
  <2>1. c \in 1..Len(items) /\ c \in 1..Len(chunks)
    BY <1>1, <1>4
  <2>2. JoinedAt(f, items, c)
    BY <1>5, <2>1, JoinsFacts
  <2>3. g[c] = g[c - 1] \o chunks[c]
    BY <1>6, <2>1 DEF Joins
  <2>4. c - 1 \in 0..L /\ c \in 0..L
    OBVIOUS
  <2>5. QED
    BY <1>4, <2>2, <2>3, <2>4 DEF JoinedAt
<1>20. ASSUME NEW c \in 1..L
       PROVE  IF Len(chunks[c]) <= TRANSPORT_CHUNK_MAX_BYTES
              THEN ReadChunk(value, At(e[c - 1], g[c - 1])) = At(e[c], g[c])
              ELSE ReadChunk(value, At(e[c - 1], g[c - 1])).code = "CHUNK_TOO_LARGE"
  <2>1. PICK chunk \in Seq(Nat), item \in Seq(Nat), a \in Nat, body \in Seq(Nat), before \in Nat :
          /\ chunk = chunks[c] /\ item = items[c] /\ a = e[c - 1] /\ body = g[c - 1]
          /\ before = Len(f[c - 1])
    BY <1>2, <1>4, <1>12, <1>14, <1>19
  <2>2. item = ByteString(chunk) /\ a = before + H
    <3>1. item = ByteString(chunk)
      BY <1>4, <2>1
    <3>2. a = H + before
      BY <1>14, <1>19, <2>1
    <3>3. QED
      BY <3>1, <3>2
  <2>3. Occurs(item, value, a)
    <3>1. Occurs(item, rest, before)
      BY <1>8, <1>19, <2>1
    <3>2. Occurs(item, value, before + H) \/ Occurs(item, value, H + before)
      BY <1>11, <3>1, OccursWithin
    <3>3. before + H = H + before
      OBVIOUS
    <3>4. QED
      BY <2>2, <3>2, <3>3
  <2>4. IsReadAt(value, chunk, a, body)
    <3>1. Occurs(ByteString(chunk), value, a)
      BY <2>2, <2>3
    <3>2. QED
      BY <1>9, <2>1, <2>2, <3>1, ChunkIsRead
  <2>5. e[c] = a + Len(item)
    <3>1. e[c] = H + (before + Len(item)) /\ Len(item) \in Nat
      <4>1. e[c] = H + Len(f[c]) /\ Len(f[c]) = before + Len(item)
        BY <1>14, <1>19, <2>1, Zenon
      <4>2. Len(item) \in Nat
        OBVIOUS
      <4>3. QED
        BY <4>1, <4>2, Zenon
    <3>2. QED
      BY <2>2, <3>1
  <2>6. g[c] = body \o chunk
    BY <1>19, <2>1
  <2>7. IF Len(chunk) <= TRANSPORT_CHUNK_MAX_BYTES
        THEN ReadChunk(value, At(a, body)) = At(e[c], g[c])
        ELSE ReadChunk(value, At(a, body)).code = "CHUNK_TOO_LARGE"
    BY <2>2, <2>4, <2>5, <2>6 DEF IsReadAt
  <2>8. QED
    BY <2>1, <2>7
<1>21. L <= Len(value)
  <2> DEFINE T == {n \in Nat : n <= L => n <= Len(f[n])}
  <2>1. 0 \in T
    <3>1. Len(f[0]) \in Nat
      BY <1>12
    <3>2. QED
      BY <3>1
  <2>2. ASSUME NEW n \in Nat, n \in T
        PROVE  n + 1 \in T
    <3>1. SUFFICES ASSUME n + 1 <= L
                   PROVE  n + 1 <= Len(f[n + 1])
      OBVIOUS
    <3>2. PICK c \in 1..L : c = n + 1 /\ c - 1 = n
      BY <3>1
    <3>3. n <= Len(f[n])
      BY <2>2, <3>1
    <3>4. Len(items[c]) >= 1
      <4>1. PICK chunk \in Seq(Nat) : chunk = chunks[c] /\ items[c] = ByteString(chunk)
        BY <1>2, <1>4
      <4>2. PICK m \in Nat : m = Len(chunk)
        OBVIOUS
      <4>3. PICK first \in Seq(Nat) : first = MinimalHead(2, m) /\ Len(first) >= 1
        BY HeadBytes
      <4>4. items[c] = first \o chunk
        BY <4>1, <4>2, <4>3 DEF ByteString
      <4>5. Len(first \o chunk) = Len(first) + m /\ Len(first) \in Nat
        BY <4>2
      <4>6. Len(first \o chunk) >= 1
        BY <4>3, <4>5
      <4>7. QED
        BY <4>4, <4>6
    <3>5. PICK x \in Nat, y \in Nat, z \in Nat : x = Len(f[c]) /\ y = Len(f[c - 1]) /\ z = Len(items[c])
      <4>1. Len(f[c]) \in Nat /\ Len(f[c - 1]) \in Nat
        BY <1>12, <1>19, Zenon
      <4>2. Len(items[c]) \in Nat
        BY <1>4
      <4>3. QED
        BY <4>1, <4>2, Zenon
    <3>6. x = y + z /\ n <= y /\ z >= 1
      BY <1>19, <3>2, <3>3, <3>4, <3>5
    <3>7. n + 1 <= x
      BY <3>6
    <3>8. QED
      BY <3>2, <3>5, <3>7
  <2>3. L \in T
    <3> HIDE DEF T
    <3>1. QED
      BY <2>1, <2>2, SetInduction
  <2>4. L <= Len(rest) /\ Len(rest) \in Nat
    BY <1>8, <2>3
  <2>5. QED
    BY <1>10, <1>11, <2>4
<1>22. At(e[0], g[0]) = [pos |-> StrictHead(value, 1).start, code |-> OK, body |-> <<>>]
  BY <1>16, <1>17 DEF At
<1>23. InARow(value, e, g, chunks)
  BY <1>1, <1>7, <1>9, <1>17, <1>18, <1>20, <1>21, <1>22 DEF InARow
<1>24. QED
  <2>1. e \in [0..Len(chunks) -> Nat] /\ g \in [0..Len(chunks) -> Seq(Nat)]
    BY <1>1, <1>14, <1>15
  <2>2. QED
    BY <1>23, <2>1, Zenon

\* w walks over so many byte strings of value from first on, as Reassemble does.
WalkOver(w, value, first, count) ==
  w = [c \in 0..count |-> IF c = 0 THEN [pos |-> first, code |-> OK, body |-> <<>>]
                          ELSE ReadChunk(value, w[c - 1])]

\* There is but one such walk.
LEMMA WalksAgree ==
  ASSUME NEW value, NEW first, NEW count \in Nat, NEW v, NEW w,
         WalkOver(v, value, first, count), WalkOver(w, value, first, count)
  PROVE  v[count] = w[count]
<1> DEFINE T == {n \in Nat : n <= count => v[n] = w[n]}
<1>1. \A c \in 0..count :
        /\ v[c] = IF c = 0 THEN [pos |-> first, code |-> OK, body |-> <<>>] ELSE ReadChunk(value, v[c - 1])
        /\ w[c] = IF c = 0 THEN [pos |-> first, code |-> OK, body |-> <<>>] ELSE ReadChunk(value, w[c - 1])
  BY Zenon DEF WalkOver
<1>2. 0 \in T
  <2>1. 0 \in 0..count
    OBVIOUS
  <2>2. v[0] = w[0]
    BY <1>1, <2>1
  <2>3. QED
    BY <2>2
<1>3. ASSUME NEW n \in Nat, n \in T
      PROVE  n + 1 \in T
  <2>1. SUFFICES ASSUME n + 1 <= count
                 PROVE  v[n + 1] = w[n + 1]
    OBVIOUS
  <2>2. PICK c \in 0..count : c = n + 1 /\ c - 1 = n /\ c # 0
    BY <2>1
  <2>3. v[n] = w[n]
    BY <1>3, <2>1
  <2>4. v[c] = ReadChunk(value, v[n]) /\ w[c] = ReadChunk(value, w[n])
    BY <1>1, <2>2
  <2>5. QED
    BY <2>2, <2>3, <2>4
<1>4. count \in T
  <2> HIDE DEF T
  <2>1. QED
    BY <1>2, <1>3, SetInduction
<1>5. QED
  BY <1>4

\* What reassemble_label_309_value makes of the end of the walk.
EndsAs(value, end) ==
  Reassemble(value) = IF end.code # OK THEN Failure(end.code)
                      ELSE IF end.pos # Len(value) + 1 THEN Failure("MALFORMED_CBOR")
                      ELSE [code |-> OK, body |-> end.body]

\* Any walk over an array is the one Reassemble makes.
LEMMA ReassembleByWalk ==
  ASSUME NEW value \in Seq(Nat), NEW w, NEW count \in Nat, NEW first,
         StrictHead(value, 1).mt = 4, StrictHead(value, 1).start = first,
         count = IF StrictHead(value, 1).value <= Len(value) THEN StrictHead(value, 1).value
                 ELSE Len(value) + 1,
         WalkOver(w, value, first, count)
  PROVE  EndsAs(value, w[count])
<1> DEFINE h == StrictHead(value, 1)
           total == IF h.value <= Len(value) THEN h.value ELSE Len(value) + 1
           walk[c \in 0..total] ==
             IF c = 0 THEN [pos |-> h.start, code |-> OK, body |-> <<>>]
             ELSE ReadChunk(value, walk[c - 1])
           end == walk[total]
<1>1. Reassemble(value) =
        IF h.mt # 4 THEN Failure("MALFORMED_CBOR")
        ELSE IF end.code # OK THEN Failure(end.code)
        ELSE IF end.pos # Len(value) + 1 THEN Failure("MALFORMED_CBOR")
        ELSE [code |-> OK, body |-> end.body]
  BY Zenon DEF Reassemble
<1>2. total = count /\ h.mt = 4 /\ h.start = first
  OBVIOUS
<1>3. \E k : k = [c \in 0..total |-> IF c = 0 THEN [pos |-> h.start, code |-> OK, body |-> <<>>]
                                     ELSE ReadChunk(value, k[c - 1])]
  <2>1. w = [c \in 0..count |-> IF c = 0 THEN [pos |-> first, code |-> OK, body |-> <<>>]
                                ELSE ReadChunk(value, w[c - 1])]
    BY DEF WalkOver
  <2>2. w = [c \in 0..total |-> IF c = 0 THEN [pos |-> h.start, code |-> OK, body |-> <<>>]
                                ELSE ReadChunk(value, w[c - 1])]
    BY <1>2, <2>1, Zenon
  <2>3. QED
    BY <2>2
<1>4. walk = [c \in 0..total |-> IF c = 0 THEN [pos |-> h.start, code |-> OK, body |-> <<>>]
                                 ELSE ReadChunk(value, walk[c - 1])]
  BY <1>3, Zenon
<1> HIDE DEF walk, total, h
<1>5. WalkOver(walk, value, first, count)
  BY <1>2, <1>4, Zenon DEF WalkOver
<1>6. end = w[count]
  <2>1. walk[count] = w[count]
    BY <1>5, WalksAgree
  <2>2. QED
    BY <1>2, <2>1, Zenon
<1>7. QED
  BY <1>1, <1>2, <1>6, Zenon DEF EndsAs

\* A body cut into chunks within the limit is put together again, and one with
\* a longer chunk is refused (reassemble_label_309_value, encode_label_309_value).
THEOREM ChunksAreReadBack ==
  ASSUME TRANSPORT_CHUNK_MAX_BYTES \in Nat, NEW chunks \in Seq(Seq(Nat))
  PROVE  Reassemble(EncodeChunks(chunks)) =
           IF \A c \in DOMAIN chunks : Len(chunks[c]) <= TRANSPORT_CHUNK_MAX_BYTES
           THEN [code |-> OK, body |-> FlattenSeq(chunks)] ELSE Failure("CHUNK_TOO_LARGE")
<1>1. PICK L \in Nat : L = Len(chunks) /\ DOMAIN chunks = 1..L
  OBVIOUS
<1>2. PICK value \in Seq(Nat), e \in [0..Len(chunks) -> Nat], g \in [0..Len(chunks) -> Seq(Nat)] :
        InARow(value, e, g, chunks)
  BY ChunksInARow
<1>3. PICK first : first = StrictHead(value, 1).start
  OBVIOUS
<1>4. /\ value = EncodeChunks(chunks) /\ g[L] = FlattenSeq(chunks) /\ e[L] = Len(value)
      /\ At(e[0], g[0]) = [pos |-> first, code |-> OK, body |-> <<>>]
      /\ StrictHead(value, 1).mt = 4 /\ StrictHead(value, 1).value = L /\ L <= Len(value)
  BY <1>1, <1>2, <1>3 DEF InARow
<1>5. \A c \in 1..L : IF Len(chunks[c]) <= TRANSPORT_CHUNK_MAX_BYTES
                      THEN ReadChunk(value, At(e[c - 1], g[c - 1])) = At(e[c], g[c])
                      ELSE ReadChunk(value, At(e[c - 1], g[c - 1])).code = "CHUNK_TOO_LARGE"
  BY <1>1, <1>2 DEF InARow
<1>6. CASE \A c \in DOMAIN chunks : Len(chunks[c]) <= TRANSPORT_CHUNK_MAX_BYTES
  <2>1. PICK w : w = [c \in 0..L |-> At(e[c], g[c])]
    OBVIOUS
  <2>2. ASSUME NEW c \in 0..L
        PROVE  w[c] = IF c = 0 THEN [pos |-> first, code |-> OK, body |-> <<>>]
                      ELSE ReadChunk(value, w[c - 1])
    <3>1. CASE c = 0
      BY <1>4, <2>1, <3>1
    <3>2. CASE c # 0
      <4>1. c \in 1..L /\ c - 1 \in 0..L
        BY <3>2
      <4>2. w[c] = At(e[c], g[c]) /\ w[c - 1] = At(e[c - 1], g[c - 1])
        BY <2>1, <4>1
      <4>3. ReadChunk(value, At(e[c - 1], g[c - 1])) = At(e[c], g[c])
        BY <1>1, <1>5, <1>6, <4>1
      <4>4. QED
        BY <3>2, <4>2, <4>3
    <3>3. QED
      BY <3>1, <3>2
  <2>3. WalkOver(w, value, first, L)
    BY <2>1, <2>2 DEF WalkOver
  <2>4. w[L] = At(e[L], g[L]) /\ w[L].code = OK /\ w[L].pos = Len(value) + 1 /\ w[L].body = g[L]
    BY <1>4, <2>1 DEF At
  <2>5. Reassemble(value) = [code |-> OK, body |-> g[L]]
    BY <1>3, <1>4, <2>3, <2>4, ReassembleByWalk DEF EndsAs
  <2>6. QED
    BY <1>4, <1>6, <2>5
<1>7. CASE ~\A c \in DOMAIN chunks : Len(chunks[c]) <= TRANSPORT_CHUNK_MAX_BYTES
  <2>1. PICK k \in 1..L : /\ ~(Len(chunks[k]) <= TRANSPORT_CHUNK_MAX_BYTES)
                          /\ \A c \in 1..L : c < k => Len(chunks[c]) <= TRANSPORT_CHUNK_MAX_BYTES
    <3> DEFINE Long1 == {c \in 1..L : ~(Len(chunks[c]) <= TRANSPORT_CHUNK_MAX_BYTES)}
    <3>1. Long1 # {} /\ Long1 \subseteq Nat
      BY <1>1, <1>7
    <3>2. PICK k \in Long1 : \A c \in Long1 : k <= c
      <4> HIDE DEF Long1
      <4>1. QED
        BY <3>1, SmallestMember
    <3>3. \A c \in 1..L : c < k => Len(chunks[c]) <= TRANSPORT_CHUNK_MAX_BYTES
      BY <3>2
    <3>4. QED
      BY <3>2, <3>3
  <2>2. PICK bad : bad = ReadChunk(value, At(e[k - 1], g[k - 1]))
    OBVIOUS
  <2>3. bad.code = "CHUNK_TOO_LARGE" /\ bad.code # OK
    BY <1>5, <2>1, <2>2 DEF OK
  <2>4. ReadChunk(value, bad) = bad
    BY <2>3 DEF ReadChunk
  <2>5. PICK w : w = [c \in 0..L |-> IF c < k THEN At(e[c], g[c]) ELSE bad]
    OBVIOUS
  <2>6. ASSUME NEW c \in 0..L
        PROVE  w[c] = IF c = 0 THEN [pos |-> first, code |-> OK, body |-> <<>>]
                      ELSE ReadChunk(value, w[c - 1])
    <3>1. CASE c = 0
      <4>1. c < k
        BY <2>1, <3>1
      <4>2. QED
        BY <1>4, <2>5, <3>1, <4>1
    <3>2. CASE c # 0 /\ c < k
      <4>1. c \in 1..L /\ c - 1 \in 0..L /\ c - 1 < k
        BY <2>1, <3>2
      <4>2. w[c] = At(e[c], g[c]) /\ w[c - 1] = At(e[c - 1], g[c - 1])
        BY <2>5, <3>2, <4>1
      <4>3. ReadChunk(value, At(e[c - 1], g[c - 1])) = At(e[c], g[c])
        BY <1>5, <2>1, <3>2, <4>1
      <4>4. QED
        BY <3>2, <4>2, <4>3
    <3>3. CASE c = k
      <4>1. c # 0 /\ c - 1 \in 0..L /\ c - 1 < k /\ ~(c < k)
        BY <2>1, <3>3
      <4>2. w[c] = bad /\ w[c - 1] = At(e[k - 1], g[k - 1])
        BY <2>5, <3>3, <4>1
      <4>3. QED
        BY <2>2, <4>1, <4>2
    <3>4. CASE c > k
      <4>1. c # 0 /\ c - 1 \in 0..L /\ ~(c - 1 < k) /\ ~(c < k)
        BY <2>1, <3>4
      <4>2. w[c] = bad /\ w[c - 1] = bad
        BY <2>5, <4>1
      <4>3. QED
        BY <2>4, <4>1, <4>2
    <3>5. QED
      BY <2>1, <3>1, <3>2, <3>3, <3>4
  <2>7. WalkOver(w, value, first, L)
    BY <2>5, <2>6 DEF WalkOver
  <2>8. w[L] = bad
    BY <2>1, <2>5
  <2>9. Reassemble(value) = Failure("CHUNK_TOO_LARGE")
    BY <1>3, <1>4, <2>3, <2>7, <2>8, ReassembleByWalk DEF EndsAs
  <2>10. QED
    BY <1>4, <1>7, <2>9
<1>8. QED
  BY <1>6, <1>7

\* The chunks of the publisher are within the limit and together the record, so
\* what is published is read back (chunk_record_body, encode_label_309_value,
\* reassemble_label_309_value).
THEOREM RecordsAreReadBack ==
  ASSUME TRANSPORT_CHUNK_MAX_BYTES \in Nat \ {0}, NEW bytes \in Seq(Nat), Chunkable(bytes)
  PROVE  /\ FlattenSeq(Chunks(bytes)) = bytes
         /\ \A c \in DOMAIN Chunks(bytes) : Len(Chunks(bytes)[c]) <= TRANSPORT_CHUNK_MAX_BYTES
         /\ Reassemble(EncodeChunks(Chunks(bytes))) = [code |-> OK, body |-> bytes]
<1>1. PICK w \in Nat \ {0}, n \in Nat, L \in Nat :
        /\ w = TRANSPORT_CHUNK_MAX_BYTES /\ L = Len(bytes) /\ n = (L + w - 1) \div w
        /\ n * w <= L + w - 1 /\ L + w - 1 < n * w + w
  <2>1. PICK w \in Nat \ {0}, L \in Nat, m \in Nat :
          w = TRANSPORT_CHUNK_MAX_BYTES /\ L = Len(bytes) /\ m = L + w - 1
    OBVIOUS
  <2>2. PICK n \in Nat : n = m \div w /\ n * w <= m /\ m < n * w + w
    BY Divided
  <2>3. QED
    BY <2>1, <2>2
<1>2. PICK to : to = [c \in 0..n |-> IF c * w < L THEN c * w ELSE L]
  OBVIOUS
<1>3. \A c \in 0..n : c * w \in Nat
  BY Products
<1>4. \A c \in 0..n : to[c] \in Nat /\ to[c] <= L
  <2>1. \A c \in 0..n : to[c] = IF c * w < L THEN c * w ELSE L
    BY <1>2
  <2>2. QED
    BY <1>3, <2>1
<1>5. to[0] = 0
  <2>1. 0 * w = 0
    OBVIOUS
  <2>2. to[0] = IF 0 < L THEN 0 ELSE L
    BY <1>2, <2>1
  <2>3. QED
    BY <2>2
<1>6. to[n] = L
  <2>1. PICK p \in Nat : p = n * w
    BY <1>3
  <2>2. L <= p
    BY <1>1, <2>1
  <2>3. to[n] = IF p < L THEN p ELSE L
    BY <1>2, <2>1
  <2>4. QED
    BY <2>2, <2>3
<1>7. ASSUME NEW c \in 1..n
      PROVE  to[c - 1] = (c - 1) * w /\ to[c - 1] <= to[c] /\ to[c] - to[c - 1] <= w /\ c - 1 \in 0..n
  <2>1. PICK b \in 0..n : b = c - 1 /\ c = b + 1 /\ b + 1 <= n
    OBVIOUS
  <2>2. PICK p \in Nat, q \in Nat, r \in Nat : p = b * w /\ q = c * w /\ r = n * w
    BY <1>3
  <2>3. q = p + w /\ q <= r
    BY <2>1, <2>2, Products
  <2>4. r <= L + w - 1
    BY <1>1, <2>2
  <2>5. p < L
    BY <2>3, <2>4
  <2>6. to[b] = p /\ to[c] = IF q < L THEN q ELSE L
    BY <1>2, <2>1, <2>2, <2>5
  <2>7. to[b] <= to[c] /\ to[c] - to[b] <= w
    BY <2>3, <2>5, <2>6
  <2>8. QED
    BY <2>1, <2>2, <2>6, <2>7
<1>8. PICK chunks : chunks = [c \in 1..n |-> SubSeq(bytes, to[c - 1] + 1, to[c])]
  OBVIOUS
<1>9. Chunks(bytes) = chunks
  <2>1. Chunks(bytes) = [c \in 1..n |-> SubSeq(bytes, (c - 1) * w + 1, IF c * w < L THEN c * w ELSE L)]
    BY <1>1 DEF Chunks
  <2>2. ASSUME NEW c \in 1..n
        PROVE  SubSeq(bytes, (c - 1) * w + 1, IF c * w < L THEN c * w ELSE L)
                 = SubSeq(bytes, to[c - 1] + 1, to[c])
    <3>1. to[c] = IF c * w < L THEN c * w ELSE L
      BY <1>2
    <3>2. to[c - 1] = (c - 1) * w
      BY <1>7
    <3>3. QED
      BY <3>1, <3>2
  <2>3. QED
    BY <1>8, <2>1, <2>2
<1>10. ASSUME NEW c \in 1..n
       PROVE  /\ chunks[c] \in Seq(Nat) /\ Len(chunks[c]) <= w
              /\ SubSeq(bytes, 1, to[c]) = SubSeq(bytes, 1, to[c - 1]) \o chunks[c]
  <2>1. PICK a \in Nat, b \in Nat : a = to[c - 1] /\ b = to[c] /\ a <= b /\ b <= Len(bytes) /\ b - a <= w
    <3>1. c \in 0..n /\ c - 1 \in 0..n
      BY <1>7
    <3>2. to[c - 1] \in Nat /\ to[c] \in Nat /\ to[c] <= L
      BY <1>4, <3>1, Zenon
    <3>3. L = Len(bytes)
      BY <1>1
    <3>4. QED
      BY <1>7, <3>2, <3>3, Zenon
  <2>2. chunks[c] = SubSeq(bytes, a + 1, b)
    BY <1>8, <2>1
  <2>7. a <= b /\ b <= Len(bytes) /\ 0 <= a
    BY <2>1
  <2>3. SubSeq(bytes, a + 1, b) \in Seq(Nat) /\ Len(SubSeq(bytes, a + 1, b)) = b - a
    BY <2>7, PartFacts
  <2>4. SubSeq(bytes, 0 + 1, a) \o SubSeq(bytes, a + 1, b) = SubSeq(bytes, 0 + 1, b)
    BY <2>7, PartsJoin
  <2>5. 0 + 1 = 1
    OBVIOUS
  <2>6. QED
    BY <2>1, <2>2, <2>3, <2>4, <2>5
<1>11. chunks \in Seq(Seq(Nat)) /\ Len(chunks) = n /\ DOMAIN chunks = 1..n
  <2>1. chunks \in [1..n -> Seq(Nat)]
    BY <1>8, <1>10
  <2>2. QED
    BY <2>1
<1>12. PICK f : f = [c \in 0..n |-> SubSeq(bytes, 1, to[c])]
  OBVIOUS
<1>13. Joins(f, Nat, chunks)
  <2>1. f \in [0..n -> Seq(Nat)]
    <3>1. ASSUME NEW c \in 0..n
          PROVE  SubSeq(bytes, 1, to[c]) \in Seq(Nat)
      <4>1. PICK b \in Nat : b = to[c] /\ b <= Len(bytes)
        BY <1>1, <1>4
      <4>2. SubSeq(bytes, 0 + 1, b) \in Seq(Nat)
        BY <4>1, PartFacts
      <4>3. QED
        BY <4>1, <4>2
    <3>2. QED
      BY <1>12, <3>1
  <2>2. f[0] = <<>>
    <3>1. f[0] = SubSeq(bytes, 1, 0)
      BY <1>5, <1>12
    <3>2. SubSeq(bytes, 0 + 1, 0) \in Seq(Nat) /\ Len(SubSeq(bytes, 0 + 1, 0)) = 0 - 0
      BY PartFacts
    <3>3. QED
      BY <3>1, <3>2
  <2>3. ASSUME NEW c \in 1..n
        PROVE  f[c] = f[c - 1] \o chunks[c]
    <3>1. f[c] = SubSeq(bytes, 1, to[c]) /\ f[c - 1] = SubSeq(bytes, 1, to[c - 1])
      <4>1. c \in 0..n /\ c - 1 \in 0..n
        BY <1>7
      <4>2. QED
        BY <1>12, <4>1, Zenon
    <3>2. QED
      BY <1>10, <3>1
  <2>4. QED
    BY <1>11, <2>1, <2>2, <2>3 DEF Joins
<1>14. FlattenSeq(chunks) = bytes
  <2>1. FlattenSeq(chunks) = f[n]
    BY <1>11, <1>13, JoinsFlatten
  <2>2. f[n] = SubSeq(bytes, 1, L)
    BY <1>6, <1>12
  <2>3. SubSeq(bytes, 1, Len(bytes)) = bytes
    OBVIOUS
  <2>4. QED
    BY <1>1, <2>1, <2>2, <2>3
<1>15. \A c \in DOMAIN chunks : Len(chunks[c]) <= TRANSPORT_CHUNK_MAX_BYTES
  BY <1>1, <1>10, <1>11
<1>16. Reassemble(EncodeChunks(chunks)) = [code |-> OK, body |-> FlattenSeq(chunks)]
  BY <1>11, <1>15, ChunksAreReadBack
<1>17. QED
  BY <1>9, <1>14, <1>15, <1>16
\* Bytes, fewer than the model can tell from too many.
IsBytes(value) ==
  value \in Seq(Nat) /\ Len(value) < Long /\ \A k \in DOMAIN value : value[k] < 256

\* What is taken for a head.
LEMMA HeadTaken ==
  ASSUME NEW value, IsBytes(value), NEW pos \in Nat, StrictHead(value, pos).mt \in {2, 4}
  PROVE  /\ StrictHead(value, pos) = ReadHead(value, pos)
         /\ pos \in DOMAIN value
         /\ \E ai \in Nat :
              /\ ai = value[pos] % 32 /\ ai <= 27 /\ pos + WidthOf(ai) <= Len(value)
              /\ ReadHead(value, pos) = [mt |-> value[pos] \div 32, ai |-> ai,
                                         start |-> pos + 1 + WidthOf(ai), value |-> ValueAt(value, pos, ai)]
              /\ ai = 24 => ~(ValueAt(value, pos, ai) < 24)
              /\ ai = 25 => ~(ValueAt(value, pos, ai) < 256)
              /\ ai \in {26, 27} => ~(ValueAt(value, pos, ai) < Long)
<1> DEFINE least == [n \in 0..27 |-> CASE n < 24 -> 0 [] n = 24 -> 24 [] n = 25 -> 256 [] OTHER -> Long]
           h == ReadHead(value, pos)
           padded == h.ai = 27 /\ \A p \in (pos + 1)..(pos + 4) : value[p] = 0
<1>0. value \in Seq(Nat) /\ Len(value) \in Nat /\ DOMAIN value = 1..Len(value)
  BY DEF IsBytes
<1>1. StrictHead(value, pos) = IF h.value < least[h.ai] \/ padded THEN NoHead ELSE h
  BY Zenon DEF StrictHead
<1>2. NoHead.mt \notin {2, 4}
  BY DEF NoHead
<1>3. StrictHead(value, pos) = h /\ ~(h.value < least[h.ai]) /\ h # NoHead
  <2> HIDE DEF h, least, padded
  <2>1. QED
    BY <1>1, <1>2
<1>4. pos \in DOMAIN value
  BY <1>3 DEF ReadHead
<1>5. PICK ai \in Nat : ai = value[pos] % 32 /\ value[pos] \in Nat
  <2>1. value[pos] \in Nat
    BY <1>0, <1>4
  <2>2. \A b \in Nat : b % 32 \in Nat
    OBVIOUS
  <2>3. QED
    BY <2>1, <2>2, Zenon
<1>6. ~(ai > 27 \/ pos + WidthOf(ai) > Len(value))
  <2>1. ASSUME ai > 27 \/ pos + WidthOf(ai) > Len(value)
        PROVE  FALSE
    <3>1. ReadHead(value, pos) = NoHead
      BY <1>4, <1>5, <2>1, Zenon DEF ReadHead, WidthOf
    <3>2. QED
      BY <1>3, <3>1
  <2>2. QED
    BY <2>1
<1>7. h = [mt |-> value[pos] \div 32, ai |-> ai,
           start |-> pos + 1 + WidthOf(ai), value |-> ValueAt(value, pos, ai)]
  BY <1>4, <1>5, <1>6, ReadHeadAt
<1>8. h.ai = ai /\ h.value = ValueAt(value, pos, ai)
  BY <1>7
<1>9. ~(ValueAt(value, pos, ai) < least[ai])
  <2> HIDE DEF h, least
  <2>1. QED
    BY <1>3, <1>8, Zenon
<1>10. ai <= 27
  <2>1. ~(ai > 27)
    BY <1>6, Zenon
  <2>2. QED
    BY <2>1
<1>11. pos + WidthOf(ai) <= Len(value)
  <2>1. WidthOf(ai) \in Nat
    <3>1. CASE ai < 24
      <4>1. ai \notin DOMAIN ArgumentBytes
        BY <3>1 DEF ArgumentBytes
      <4>2. QED
        BY <4>1 DEF WidthOf
    <3>2. CASE ai = 24
      BY <3>2 DEF WidthOf, ArgumentBytes
    <3>3. CASE ai = 25
      BY <3>3 DEF WidthOf, ArgumentBytes
    <3>4. CASE ai = 26
      BY <3>4 DEF WidthOf, ArgumentBytes
    <3>5. CASE ai = 27
      BY <3>5 DEF WidthOf, ArgumentBytes
    <3>6. QED
      BY <1>10, <3>1, <3>2, <3>3, <3>4, <3>5
  <2>2. QED
    BY <1>0, <1>6, <2>1
<1>12. least[24] = 24 /\ least[25] = 256 /\ least[26] = Long /\ least[27] = Long
  OBVIOUS
<1> HIDE DEF least
<1>13. /\ ai = 24 => ~(ValueAt(value, pos, ai) < 24)
       /\ ai = 25 => ~(ValueAt(value, pos, ai) < 256)
       /\ ai \in {26, 27} => ~(ValueAt(value, pos, ai) < Long)
  <2>1. ai = 24 => ~(ValueAt(value, pos, ai) < 24)
    BY <1>9, <1>12, Zenon
  <2>2. ai = 25 => ~(ValueAt(value, pos, ai) < 256)
    BY <1>9, <1>12, Zenon
  <2>3. ai = 26 => ~(ValueAt(value, pos, ai) < Long)
    BY <1>9, <1>12, Zenon
  <2>4. ai = 27 => ~(ValueAt(value, pos, ai) < Long)
    BY <1>9, <1>12, Zenon
  <2>5. QED
    BY <2>1, <2>2, <2>3, <2>4, Zenon
<1>14. QED
  BY <1>3, <1>4, <1>5, <1>7, <1>10, <1>11, <1>13

\* A head that is read is the one of shortest form.
LEMMA HeadIsCanonical ==
  ASSUME NEW value, IsBytes(value), NEW pos \in Nat, NEW mt \in {2, 4},
         StrictHead(value, pos).mt = mt, StrictHead(value, pos).value < Long
  PROVE  /\ StrictHead(value, pos).value \in Nat /\ pos >= 1
         /\ Occurs(MinimalHead(mt, StrictHead(value, pos).value), value, pos - 1)
         /\ StrictHead(value, pos).start = pos + Len(MinimalHead(mt, StrictHead(value, pos).value))
<1>1. value \in Seq(Nat) /\ Len(value) \in Nat /\ DOMAIN value = 1..Len(value)
      /\ \A k \in DOMAIN value : value[k] < 256 /\ value[k] \in Nat
  BY DEF IsBytes
<1>2. StrictHead(value, pos).mt \in {2, 4}
  OBVIOUS
<1>3. StrictHead(value, pos) = ReadHead(value, pos) /\ pos \in DOMAIN value
  BY <1>2, HeadTaken
<1>4. PICK ai \in Nat :
        /\ ai = value[pos] % 32 /\ ai <= 27 /\ pos + WidthOf(ai) <= Len(value)
        /\ ReadHead(value, pos) = [mt |-> value[pos] \div 32, ai |-> ai,
                                   start |-> pos + 1 + WidthOf(ai), value |-> ValueAt(value, pos, ai)]
        /\ ai = 24 => ~(ValueAt(value, pos, ai) < 24)
        /\ ai = 25 => ~(ValueAt(value, pos, ai) < 256)
        /\ ai \in {26, 27} => ~(ValueAt(value, pos, ai) < Long)
  BY <1>2, HeadTaken
<1>5. PICK h : h = StrictHead(value, pos)
  OBVIOUS
<1>6. h.mt = value[pos] \div 32 /\ h.start = pos + 1 + WidthOf(ai) /\ h.value = ValueAt(value, pos, ai)
  BY <1>3, <1>4, <1>5
<1>7. h.mt = mt /\ h.value < Long
  BY <1>5
<1>8. value[pos] = mt * 32 + ai /\ pos >= 1 /\ pos <= Len(value)
  <2>1. PICK b \in Nat : b = value[pos]
    BY <1>1, <1>3
  <2>2. b = (b \div 32) * 32 + (b % 32)
    OBVIOUS
  <2>3. b \div 32 = mt /\ b % 32 = ai
    BY <1>4, <1>6, <1>7, <2>1
  <2>4. b = mt * 32 + ai
    BY <2>2, <2>3
  <2>5. pos >= 1 /\ pos <= Len(value)
    BY <1>1, <1>3
  <2>6. QED
    BY <2>1, <2>4, <2>5
<1>9. PICK a \in Nat : a = pos - 1 /\ a + 1 = pos /\ a + 2 = pos + 1 /\ a + 3 = pos + 2
  BY <1>8
<1>10. ASSUME NEW n \in Nat, n = h.value, Occurs(MinimalHead(mt, n), value, a),
              h.start = pos + Len(MinimalHead(mt, n))
       PROVE  /\ StrictHead(value, pos).value \in Nat /\ pos >= 1
              /\ Occurs(MinimalHead(mt, StrictHead(value, pos).value), value, pos - 1)
              /\ StrictHead(value, pos).start = pos + Len(MinimalHead(mt, StrictHead(value, pos).value))
  BY <1>5, <1>8, <1>9, <1>10
<1>11. CASE ai < 24
  <2>1. WidthOf(ai) = 0 /\ ValueAt(value, pos, ai) = ai
    <3>1. ai \notin DOMAIN ArgumentBytes
      BY <1>11 DEF ArgumentBytes
    <3>2. WidthOf(ai) = 0
      BY <3>1 DEF WidthOf
    <3>3. QED
      BY <3>2 DEF ValueAt
  <2>2. PICK m : m = MinimalHead(mt, ai) /\ m = <<mt * 32 + ai>>
    BY <1>11 DEF MinimalHead
  <2>3. Len(m) = 1 /\ m[1] = mt * 32 + ai
    BY <2>2
  <2>4. Occurs(m, value, a)
    <3>1. \A k \in 1..1 : value[a + k] = m[k]
      BY <1>8, <1>9, <2>3
    <3>2. a + 1 <= Len(value)
      BY <1>8, <1>9
    <3>3. QED
      BY <2>3, <3>1, <3>2 DEF Occurs
  <2>5. h.start = pos + Len(m)
    BY <1>6, <2>1, <2>3
  <2>6. QED
    BY <1>6, <1>10, <2>1, <2>2, <2>4, <2>5
<1>12. CASE ai = 24
  <2>1. WidthOf(24) = 1
    BY DEF WidthOf, ArgumentBytes
  <2>2. pos + 1 <= Len(value)
    BY <1>4, <1>12, <2>1
  <2>3. PICK n \in Nat : n = value[pos + 1] /\ n < 256
    <3>1. pos + 1 \in DOMAIN value
      BY <1>1, <1>8, <2>2
    <3>2. QED
      BY <1>1, <3>1
  <2>4. ValueAt(value, pos, 24) = n
    <3>1. ~\E p \in (pos + 1)..((pos + 1) - 2) : value[p] # 0
      OBVIOUS
    <3>2. ~(pos + 1 < pos + 1)
      OBVIOUS
    <3>3. Argument(value, pos + 1, pos + 1) = 0 + value[pos + 1]
      BY <3>1, <3>2 DEF Argument
    <3>4. Argument(value, pos + 1, pos + 1) = n
      BY <2>3, <3>3
    <3>5. QED
      BY <2>1, <3>4 DEF ValueAt
  <2>5. ~(n < 24)
    BY <1>4, <1>12, <2>4
  <2>6. PICK m : m = MinimalHead(mt, n) /\ m = <<mt * 32 + 24, n>>
    BY <2>3, <2>5 DEF MinimalHead
  <2>7. Len(m) = 2 /\ m[1] = mt * 32 + 24 /\ m[2] = n
    BY <2>6
  <2>8. Occurs(m, value, a)
    <3>1. value[a + 1] = m[1] /\ value[a + 2] = m[2]
      BY <1>8, <1>9, <1>12, <2>3, <2>7
    <3>2. \A k \in 1..2 : value[a + k] = m[k]
      BY <3>1
    <3>3. a + 2 <= Len(value)
      BY <1>9, <2>2
    <3>4. QED
      BY <2>7, <3>2, <3>3 DEF Occurs
  <2>9. h.start = pos + Len(m)
    BY <1>6, <1>12, <2>1, <2>7
  <2>10. QED
    BY <1>6, <1>10, <1>12, <2>4, <2>6, <2>8, <2>9
<1>13. CASE ai = 25
  <2>1. WidthOf(25) = 2
    BY DEF WidthOf, ArgumentBytes
  <2>2. pos + 2 <= Len(value)
    BY <1>4, <1>13, <2>1
  <2>3. PICK x \in Nat, y \in Nat : x = value[pos + 1] /\ y = value[pos + 2] /\ y < 256
    <3>1. pos + 1 \in DOMAIN value /\ pos + 2 \in DOMAIN value
      BY <1>1, <1>8, <2>2
    <3>2. QED
      BY <1>1, <3>1
  <2>4. PICK n \in Nat : n = x * 256 + y /\ n \div 256 = x /\ n % 256 = y
    BY <2>3
  <2>5. ValueAt(value, pos, 25) = n
    <3>1. ~\E p \in (pos + 1)..((pos + 2) - 2) : value[p] # 0
      OBVIOUS
    <3>2. pos + 1 < pos + 2 /\ (pos + 2) - 1 = pos + 1
      OBVIOUS
    <3>3. Argument(value, pos + 1, pos + 2) = value[(pos + 2) - 1] * 256 + value[pos + 2]
      BY <3>1, <3>2 DEF Argument
    <3>4. Argument(value, pos + 1, pos + 2) = n
      BY <2>3, <2>4, <3>2, <3>3
    <3>5. QED
      BY <2>1, <3>4 DEF ValueAt
  <2>6. ~(n < 256)
    BY <1>4, <1>13, <2>5
  <2>7. PICK m : m = MinimalHead(mt, n) /\ m = <<mt * 32 + 25, x, y>>
    <3>1. ~(n < 24)
      BY <2>6
    <3>2. MinimalHead(mt, n) = <<mt * 32 + 25, n \div 256, n % 256>>
      BY <2>6, <3>1, Zenon DEF MinimalHead
    <3>3. QED
      BY <2>4, <3>2
  <2>8. Len(m) = 3 /\ m[1] = mt * 32 + 25 /\ m[2] = x /\ m[3] = y
    BY <2>7
  <2>9. Occurs(m, value, a)
    <3>1. value[a + 1] = m[1] /\ value[a + 2] = m[2] /\ value[a + 3] = m[3]
      BY <1>8, <1>9, <1>13, <2>3, <2>8, Zenon
    <3>2. \A k \in 1..3 : value[a + k] = m[k]
      BY <3>1
    <3>3. a + 3 <= Len(value)
      BY <1>9, <2>2
    <3>4. QED
      BY <2>8, <3>2, <3>3 DEF Occurs
  <2>10. h.start = pos + Len(m)
    <3>1. h.start = pos + 1 + 2 /\ Len(m) = 3
      BY <1>6, <1>13, <2>1, <2>8, Zenon
    <3>2. QED
      BY <3>1
  <2>11. QED
    BY <1>6, <1>10, <1>13, <2>5, <2>7, <2>9, <2>10
<1>14. CASE ai \in {26, 27}
  BY <1>4, <1>6, <1>7, <1>14
<1>15. QED
  BY <1>4, <1>11, <1>12, <1>13, <1>14

\* What a head says is a number, and there is something after its first byte.
LEMMA HeadTyped ==
  ASSUME NEW value, IsBytes(value), NEW pos \in Nat, StrictHead(value, pos).mt \in {2, 4}
  PROVE  /\ StrictHead(value, pos).value \in Nat /\ StrictHead(value, pos).start \in Nat
         /\ pos >= 1 /\ StrictHead(value, pos).start >= pos + 1
<1>1. /\ DOMAIN value = 1..Len(value) /\ Len(value) \in Nat
      /\ \A k \in 1..Len(value) : value[k] \in Nat
  BY DEF IsBytes
<1>2. StrictHead(value, pos) = ReadHead(value, pos) /\ pos \in 1..Len(value)
  BY <1>1, HeadTaken
<1>3. PICK ai \in Nat :
        /\ ai <= 27 /\ pos + WidthOf(ai) <= Len(value)
        /\ ReadHead(value, pos) = [mt |-> value[pos] \div 32, ai |-> ai,
                                   start |-> pos + 1 + WidthOf(ai), value |-> ValueAt(value, pos, ai)]
  BY HeadTaken
<1>4. WidthOf(ai) \in Nat /\ (WidthOf(ai) # 0 => WidthOf(ai) >= 1)
  <2>1. CASE ai < 24
    <3>1. ai \notin DOMAIN ArgumentBytes
      BY <2>1 DEF ArgumentBytes
    <3>2. QED
      BY <3>1 DEF WidthOf
  <2>2. CASE ai = 24
    BY <2>2 DEF WidthOf, ArgumentBytes
  <2>3. CASE ai = 25
    BY <2>3 DEF WidthOf, ArgumentBytes
  <2>4. CASE ai = 26
    BY <2>4 DEF WidthOf, ArgumentBytes
  <2>5. CASE ai = 27
    BY <2>5 DEF WidthOf, ArgumentBytes
  <2>6. QED
    BY <1>3, <2>1, <2>2, <2>3, <2>4, <2>5
<1>5. ValueAt(value, pos, ai) \in Nat
  <2>1. CASE WidthOf(ai) = 0
    BY <2>1 DEF ValueAt
  <2>2. CASE WidthOf(ai) # 0
    <3>1. PICK first \in 1..Len(value), last \in 1..Len(value) :
            first = pos + 1 /\ last = pos + WidthOf(ai) /\ first <= last
      <4>1. PICK d \in Nat, L \in Nat : d = WidthOf(ai) /\ L = Len(value) /\ d >= 1
        <5>1. WidthOf(ai) \in Nat /\ WidthOf(ai) >= 1
          BY <1>4, <2>2, Zenon
        <5>2. Len(value) \in Nat
          BY <1>1
        <5>3. QED
          BY <5>1, <5>2, Zenon
      <4>2. pos + d <= L /\ pos >= 1
        BY <1>2, <1>3, <4>1
      <4>3. pos + 1 \in 1..L /\ pos + d \in 1..L /\ pos + 1 <= pos + d
        BY <4>1, <4>2
      <4>4. QED
        BY <4>1, <4>3, Zenon
    <3>2. Argument(value, first, last) \in Nat
      <4>1. Long \in Nat
        BY DEF Long
      <4>2. CASE \E p \in first..(last - 2) : value[p] # 0
        BY <4>1, <4>2 DEF Argument
      <4>3. CASE ~(\E p \in first..(last - 2) : value[p] # 0) /\ first < last
        <5>1. last - 1 \in 1..Len(value)
          BY <4>3
        <5>2. PICK x \in Nat, y \in Nat : x = value[last - 1] /\ y = value[last]
          BY <1>1, <5>1
        <5>3. Argument(value, first, last) = x * 256 + y
          BY <4>3, <5>2 DEF Argument
        <5>4. QED
          BY <5>3
      <4>4. CASE ~(\E p \in first..(last - 2) : value[p] # 0) /\ ~(first < last)
        <5>1. PICK y \in Nat : y = value[last]
          BY <1>1
        <5>2. Argument(value, first, last) = 0 + y
          BY <4>4, <5>1 DEF Argument
        <5>3. QED
          BY <5>2
      <4>5. QED
        BY <4>2, <4>3, <4>4
    <3>3. QED
      BY <2>2, <3>1, <3>2 DEF ValueAt
  <2>3. QED
    BY <2>1, <2>2
<1>6. PICK h : h = StrictHead(value, pos)
  OBVIOUS
<1>7. h.start = pos + 1 + WidthOf(ai) /\ h.value = ValueAt(value, pos, ai)
  BY <1>2, <1>3, <1>6
<1>8. h.start \in Nat /\ h.start >= pos + 1 /\ pos >= 1
  <2>1. PICK d \in Nat : d = WidthOf(ai)
    BY <1>4
  <2>2. h.start = pos + 1 + d
    BY <1>7, <2>1
  <2>3. QED
    BY <1>2, <2>2
<1>9. QED
  BY <1>5, <1>6, <1>7, <1>8

-----------------------------------------------------------------------------
(* What a walk says about the bytes it has read                            *)

\* Where a walk may stand.
Walkers == [pos : Nat, code : {OK, "MALFORMED_CBOR", "CHUNK_TOO_LARGE"}, body : Seq(Nat)]

\* From s to r a chunk has been read.
Took(value, s, r, chunk) ==
  /\ s.code = OK /\ s.pos >= 1 /\ Len(chunk) <= TRANSPORT_CHUNK_MAX_BYTES
  /\ Occurs(ByteString(chunk), value, s.pos - 1)
  /\ r.pos = s.pos + Len(ByteString(chunk)) /\ r.body = s.body \o chunk

\* Either the walk fails, or what it has read is a chunk.
LEMMA ChunkMeans ==
  ASSUME TRANSPORT_CHUNK_MAX_BYTES \in Nat, NEW value, IsBytes(value), NEW s \in Walkers
  PROVE  /\ ReadChunk(value, s) \in Walkers
         /\ ReadChunk(value, s).code = OK =>
              \E chunk \in Seq(Nat) : Took(value, s, ReadChunk(value, s), chunk)
<1>1. s.pos \in Nat /\ s.code \in {OK, "MALFORMED_CBOR", "CHUNK_TOO_LARGE"} /\ s.body \in Seq(Nat)
  BY DEF Walkers
<1>2. PICK h : h = StrictHead(value, s.pos)
  OBVIOUS
<1>3. OK # "MALFORMED_CBOR" /\ OK # "CHUNK_TOO_LARGE"
  BY DEF OK
<1>4. value \in Seq(Nat) /\ Len(value) \in Nat /\ Len(value) < Long /\ Long \in Nat
  BY DEF IsBytes, Long
<1>5. CASE s.code # OK
  <2>1. ReadChunk(value, s) = s
    BY <1>5 DEF ReadChunk
  <2>2. QED
    BY <1>5, <2>1
<1>6. CASE s.code = OK /\ (h.mt # 2 \/ h.start + h.value > Len(value) + 1)
  <2>1. ReadChunk(value, s) = [s EXCEPT !.code = "MALFORMED_CBOR"]
    BY <1>2, <1>6 DEF ReadChunk
  <2>2. /\ [s EXCEPT !.code = "MALFORMED_CBOR"] \in Walkers
        /\ [s EXCEPT !.code = "MALFORMED_CBOR"].code = "MALFORMED_CBOR"
    BY DEF Walkers
  <2>3. QED
    BY <1>3, <2>1, <2>2
<1>7. CASE /\ s.code = OK /\ ~(h.mt # 2 \/ h.start + h.value > Len(value) + 1)
           /\ h.value > TRANSPORT_CHUNK_MAX_BYTES
  <2>1. ReadChunk(value, s) = [s EXCEPT !.code = "CHUNK_TOO_LARGE"]
    BY <1>2, <1>7 DEF ReadChunk
  <2>2. /\ [s EXCEPT !.code = "CHUNK_TOO_LARGE"] \in Walkers
        /\ [s EXCEPT !.code = "CHUNK_TOO_LARGE"].code = "CHUNK_TOO_LARGE"
    BY DEF Walkers
  <2>3. QED
    BY <1>3, <2>1, <2>2
<1>8. CASE /\ s.code = OK /\ ~(h.mt # 2 \/ h.start + h.value > Len(value) + 1)
           /\ ~(h.value > TRANSPORT_CHUNK_MAX_BYTES)
  <2>1. PICK end : end = h.start + h.value
    OBVIOUS
  <2>2. ReadChunk(value, s) = [s EXCEPT !.pos = end, !.body = @ \o SubSeq(value, h.start, end - 1)]
    BY <1>2, <1>8, <2>1 DEF ReadChunk
  <2>3. h.mt = 2
    BY <1>8
  <2>4. h.value \in Nat /\ h.start \in Nat /\ s.pos >= 1 /\ h.start >= s.pos + 1
    <3>1. StrictHead(value, s.pos).mt \in {2, 4}
      BY <1>2, <2>3
    <3>2. QED
      BY <1>1, <1>2, <3>1, HeadTyped
  <2>5. PICK n \in Nat, start \in Nat, pos \in Nat, L \in Nat, w \in Nat :
          /\ n = h.value /\ start = h.start /\ pos = s.pos /\ L = Len(value)
          /\ w = TRANSPORT_CHUNK_MAX_BYTES /\ pos >= 1 /\ start >= pos + 1
    BY <1>1, <1>4, <2>4
  <2>20. ~(start + n > L + 1) /\ ~(n > w)
    BY <1>8, <2>5, Zenon
  <2>21. PICK b \in Nat : b = start - 1 /\ start = b + 1 /\ b >= pos
    BY <2>5
  <2>22. b + n <= L /\ n <= w /\ (b + n + 1) - 1 = b + n /\ b + n + 1 \in Nat /\ n <= L
    BY <2>20, <2>21
  <2>6. end = b + n + 1 /\ end - 1 = b + n /\ end \in Nat
    <3>1. end = start + n
      BY <2>1, <2>5
    <3>2. QED
      BY <2>21, <3>1
  <2>7. n < Long
    <3>1. L < Long
      BY <1>4, <2>5
    <3>2. QED
      BY <1>4, <2>22, <3>1
  <2>8. PICK head \in Seq(Nat) : head = MinimalHead(2, n)
    BY HeadBytes
  <2>9. Occurs(head, value, pos - 1) /\ h.start = pos + Len(head)
    BY <1>2, <2>3, <2>5, <2>7, <2>8, HeadIsCanonical
  <2>10. PICK chunk \in Seq(Nat) : chunk = SubSeq(value, b + 1, b + n) /\ Len(chunk) = n
                                   /\ \A i \in 1..n : chunk[i] = value[b + i]
    <3>1. PICK c \in Nat : c = b + n /\ b <= c /\ c <= Len(value) /\ c - b = n
      <4>1. b + n \in Nat /\ b <= b + n /\ b + n <= L /\ (b + n) - b = n
        BY <2>22
      <4>2. QED
        BY <2>5, <4>1, Zenon
    <3>3. b <= c /\ c <= Len(value)
      BY <3>1
    <3>2. /\ SubSeq(value, b + 1, c) \in Seq(Nat) /\ Len(SubSeq(value, b + 1, c)) = c - b
          /\ \A i \in 1..(c - b) : SubSeq(value, b + 1, c)[i] = value[b + i]
      <4>1. value \in Seq(Nat)
        BY <1>4
      <4>2. SubSeq(value, b + 1, c) \in Seq(Nat) /\ Len(SubSeq(value, b + 1, c)) = c - b
        BY <3>3, <4>1, PartFacts
      <4>3. \A i \in 1..(c - b) : SubSeq(value, b + 1, c)[i] = value[b + i]
        BY <3>3, <4>1, PartFacts
      <4>4. QED
        BY <4>2, <4>3, Zenon
    <3>4. QED
      BY <3>1, <3>2
  <2>11. ByteString(chunk) = head \o chunk
    BY <2>8, <2>10 DEF ByteString
  <2>12. Occurs(head \o chunk, value, pos - 1) /\ Len(head \o chunk) = Len(head) + n
    <3>1. PICK a \in Nat, H \in Nat : a = pos - 1 /\ H = Len(head)
      BY <2>5
    <3>2. a + H = b
      <4>1. start = pos + H
        BY <2>5, <2>9, <3>1
      <4>2. QED
        BY <2>21, <3>1, <4>1
    <3>7. Len(head \o chunk) = Len(head) + Len(chunk)
      BY <2>8, <2>10
    <3>3. Len(head \o chunk) = H + n
      BY <2>10, <3>1, <3>7
    <3>4. a + (H + n) <= Len(value)
      <4>1. a + (H + n) = b + n
        BY <3>2
      <4>2. QED
        BY <2>5, <2>22, <4>1
    <3>5. ASSUME NEW k \in 1..(H + n)
          PROVE  value[a + k] = (head \o chunk)[k]
      <4>1. CASE k <= H
        <5>1. (head \o chunk)[k] = head[k]
          BY <2>8, <2>10, <3>1, <4>1
        <5>2. value[a + k] = head[k]
          <6>1. \A i \in 1..Len(head) : value[(pos - 1) + i] = head[i]
            BY <2>9 DEF Occurs
          <6>2. k \in 1..Len(head)
            BY <3>1, <4>1
          <6>3. QED
            BY <3>1, <6>1, <6>2, Zenon
        <5>3. QED
          BY <5>1, <5>2
      <4>2. CASE k > H
        <5>1. PICK j \in 1..n : j = k - H /\ k = H + j /\ a + k = b + j
          BY <3>2, <4>2
        <5>2. (head \o chunk)[k] = chunk[j]
          <6>1. PICK m \in Nat : m = Len(chunk) /\ m = n
            BY <2>10
          <6>2. \A i \in 1..Len(chunk) : (head \o chunk)[Len(head) + i] = chunk[i]
            BY <2>8, <2>10
          <6>3. QED
            BY <3>1, <5>1, <6>1, <6>2
        <5>3. chunk[j] = value[b + j]
          BY <2>10, <5>1, Zenon
        <5>4. QED
          BY <5>1, <5>2, <5>3, Zenon
      <4>3. k <= H \/ k > H
        BY <3>5
      <4>4. QED
        BY <4>1, <4>2, <4>3, Zenon
    <3>6. QED
      BY <3>1, <3>3, <3>4, <3>5 DEF Occurs
  <2>13. ReadChunk(value, s) = [s EXCEPT !.pos = end, !.body = s.body \o chunk]
    BY <1>1, <2>2, <2>5, <2>6, <2>10, <2>21
  <2>14. s.body \o chunk \in Seq(Nat)
    BY <1>1
  <2>15. PICK r : r = [s EXCEPT !.pos = end, !.body = s.body \o chunk]
    OBVIOUS
  <2>16. r \in Walkers /\ r.pos = end /\ r.body = s.body \o chunk
    BY <2>6, <2>14, <2>15 DEF Walkers
  <2>17. end = s.pos + Len(ByteString(chunk))
    <3>1. PICK H \in Nat : H = Len(head)
      OBVIOUS
    <3>2. start = pos + H /\ Len(ByteString(chunk)) = H + n
      BY <2>5, <2>9, <2>11, <2>12, <3>1
    <3>3. end = pos + (H + n)
      BY <2>6, <2>21, <3>2
    <3>4. QED
      BY <2>5, <3>2, <3>3
  <2>18. Took(value, s, r, chunk)
    BY <1>8, <2>5, <2>22, <2>10, <2>11, <2>12, <2>16, <2>17 DEF Took
  <2>19. QED
    BY <2>13, <2>15, <2>16, <2>18
<1>9. QED
  BY <1>5, <1>6, <1>7, <1>8

\* A walk over any number of elements stays one.
LEMMA WalkExists ==
  ASSUME TRANSPORT_CHUNK_MAX_BYTES \in Nat, NEW value, IsBytes(value), NEW first \in Nat, NEW count \in Nat
  PROVE  \E w \in [0..count -> Walkers] : WalkOver(w, value, first, count)
<1> DEFINE start == [pos |-> first, code |-> OK, body |-> <<>>]
           step == [x \in (1..count) \X Walkers |-> ReadChunk(value, x[2])]
<1>1. start \in Walkers
  BY DEF Walkers
<1>2. \A s \in Walkers : ReadChunk(value, s) \in Walkers
  BY ChunkMeans
<1>3. step \in [(1..count) \X Walkers -> Walkers]
  BY <1>2
<1>4. \A n \in 1..count, s \in Walkers : step[<<n, s>>] = ReadChunk(value, s)
  OBVIOUS
<1> HIDE DEF step, start
<1>5. PICK w \in [0..count -> Walkers] : Recurs(w, start, step, count)
  BY <1>1, <1>3, RecursionOnInterval
<1>6. ASSUME NEW c \in 0..count
      PROVE  w[c] = IF c = 0 THEN start ELSE ReadChunk(value, w[c - 1])
  <2>1. CASE c = 0
    BY <1>5, <2>1 DEF Recurs
  <2>2. CASE c # 0
    <3>1. c \in 1..count /\ c - 1 \in 0..count
      BY <2>2
    <3>2. w[c - 1] \in Walkers /\ w[c] = step[<<c, w[c - 1]>>]
      BY <1>5, <3>1 DEF Recurs
    <3>3. QED
      BY <1>4, <2>2, <3>1, <3>2
  <2>3. QED
    BY <2>1, <2>2
<1>7. w = [c \in 0..count |-> IF c = 0 THEN start ELSE ReadChunk(value, w[c - 1])]
  BY <1>5, <1>6
<1>8. WalkOver(w, value, first, count)
  BY <1>7, Zenon DEF WalkOver, start
<1>9. QED
  BY <1>8

\* A walk that has not failed has read a chunk at every step.
LEMMA WalkMeans ==
  ASSUME TRANSPORT_CHUNK_MAX_BYTES \in Nat, NEW value, IsBytes(value), NEW first \in Nat, NEW count \in Nat,
         NEW w \in [0..count -> Walkers], WalkOver(w, value, first, count), w[count].code = OK
  PROVE  /\ w[0] = [pos |-> first, code |-> OK, body |-> <<>>]
         /\ \A c \in 1..count : \E chunk \in Seq(Nat) : Took(value, w[c - 1], w[c], chunk)
<1>1. \A c \in 0..count :
        w[c] = IF c = 0 THEN [pos |-> first, code |-> OK, body |-> <<>>] ELSE ReadChunk(value, w[c - 1])
  BY Zenon DEF WalkOver
<1>2. w[0] = [pos |-> first, code |-> OK, body |-> <<>>]
  <2>1. 0 \in 0..count
    OBVIOUS
  <2>2. QED
    BY <1>1, <2>1
<1>3. ASSUME NEW c \in 1..count, w[c].code = OK
      PROVE  w[c - 1].code = OK /\ \E chunk \in Seq(Nat) : Took(value, w[c - 1], w[c], chunk)
  <2>1. PICK s \in Walkers, r \in Walkers : s = w[c - 1] /\ r = w[c]
    <3>1. c \in 0..count /\ c - 1 \in 0..count
      OBVIOUS
    <3>2. w[c - 1] \in Walkers /\ w[c] \in Walkers
      BY <3>1
    <3>3. QED
      BY <3>2
  <2>2. r = ReadChunk(value, s)
    <3>1. c \in 0..count /\ c # 0
      OBVIOUS
    <3>2. QED
      BY <1>1, <2>1, <3>1
  <2>3. ReadChunk(value, s).code = OK
    BY <1>3, <2>1, <2>2
  <2>4. PICK chunk \in Seq(Nat) : Took(value, s, ReadChunk(value, s), chunk)
    BY <2>3, ChunkMeans
  <2>5. Took(value, s, r, chunk)
    BY <2>2, <2>4
  <2>6. s.code = OK
    BY <2>5 DEF Took
  <2>7. QED
    BY <2>1, <2>5, <2>6
<1> DEFINE T == {n \in Nat : n <= count => w[count - n].code = OK}
<1>4. 0 \in T
  <2>1. count - 0 = count
    OBVIOUS
  <2>2. QED
    BY <2>1
<1>5. ASSUME NEW n \in Nat, n \in T
      PROVE  n + 1 \in T
  <2>1. SUFFICES ASSUME n + 1 <= count
                 PROVE  w[count - (n + 1)].code = OK
    OBVIOUS
  <2>2. PICK c \in 1..count : c = count - n /\ c - 1 = count - (n + 1)
    BY <2>1
  <2>3. w[c].code = OK
    BY <1>5, <2>1, <2>2
  <2>4. QED
    BY <1>3, <2>2, <2>3
<1>6. ASSUME NEW c \in 1..count
      PROVE  w[c].code = OK
  <2>1. count - c \in Nat /\ count - (count - c) = c /\ count - c <= count
    OBVIOUS
  <2>2. count - c \in T
    <3> HIDE DEF T
    <3>1. QED
      BY <1>4, <1>5, <2>1, SetInduction
  <2>3. QED
    BY <2>1, <2>2
<1>7. QED
  BY <1>2, <1>3, <1>6

\* A value is accepted only if it is the canonical encoding of a cutting within
\* the limit, whose chunks together are the body that is read
\* (reassemble_label_309_value).
THEOREM OnlyCuttingsAreRead ==
  ASSUME TRANSPORT_CHUNK_MAX_BYTES \in Nat, NEW value, IsBytes(value), Reassemble(value).code = OK
  PROVE  \E chunks \in Seq(Seq(Nat)) :
           /\ \A c \in DOMAIN chunks : Len(chunks[c]) <= TRANSPORT_CHUNK_MAX_BYTES
           /\ value = EncodeChunks(chunks) /\ Reassemble(value).body = FlattenSeq(chunks)
<1>1. value \in Seq(Nat) /\ Len(value) \in Nat /\ Len(value) < Long /\ Long \in Nat
  BY DEF IsBytes, Long
<1>2. PICK h : h = StrictHead(value, 1)
  OBVIOUS
<1>3. h.mt = 4
  <2>1. OK # "MALFORMED_CBOR" /\ Failure("MALFORMED_CBOR").code = "MALFORMED_CBOR"
    BY DEF OK, Failure
  <2>2. h.mt # 4 => Reassemble(value) = Failure("MALFORMED_CBOR")
    BY <1>2, Zenon DEF Reassemble
  <2>3. QED
    BY <2>1, <2>2
<1>4. h.value \in Nat /\ h.start \in Nat /\ h.start >= 2
  <2>1. StrictHead(value, 1).mt \in {2, 4} /\ 1 \in Nat
    BY <1>2, <1>3
  <2>2. StrictHead(value, 1).start >= 1 + 1
    BY <2>1, HeadTyped
  <2>3. h.value \in Nat /\ h.start \in Nat
    BY <1>2, <2>1, HeadTyped
  <2>4. QED
    BY <1>2, <2>2, <2>3
<1>5. PICK count \in Nat : count = IF h.value <= Len(value) THEN h.value ELSE Len(value) + 1
  BY <1>1, <1>4
<1>6. PICK first \in Nat, H \in Nat : first = h.start /\ H = first - 1 /\ first = H + 1 /\ H >= 1
  <2>1. PICK b \in Nat : b = h.start /\ b >= 2
    BY <1>4
  <2>2. b - 1 \in Nat /\ b = (b - 1) + 1 /\ b - 1 >= 1
    BY <2>1
  <2>3. QED
    BY <2>1, <2>2, Zenon
<1>7. PICK w \in [0..count -> Walkers] : WalkOver(w, value, first, count)
  BY WalkExists
<1>8. Reassemble(value) =
        IF w[count].code # OK THEN Failure(w[count].code)
        ELSE IF w[count].pos # Len(value) + 1 THEN Failure("MALFORMED_CBOR")
        ELSE [code |-> OK, body |-> w[count].body]
  <2>1. StrictHead(value, 1).mt = 4 /\ StrictHead(value, 1).start = first
    BY <1>2, <1>3, <1>6
  <2>2. count = IF StrictHead(value, 1).value <= Len(value) THEN StrictHead(value, 1).value ELSE Len(value) + 1
    BY <1>2, <1>5, Zenon
  <2>3. value \in Seq(Nat)
    BY <1>1
  <2>4. EndsAs(value, w[count])
    BY <1>7, <2>1, <2>2, <2>3, ReassembleByWalk
  <2>5. QED
    BY <2>4 DEF EndsAs
<1>9. w[count].code = OK /\ w[count].pos = Len(value) + 1
  <2>1. OK # "MALFORMED_CBOR" /\ \A code : Failure(code).code = code
    BY DEF OK, Failure
  <2>2. QED
    BY <1>8, <2>1
<1>10. /\ w[0] = [pos |-> first, code |-> OK, body |-> <<>>]
       /\ \A c \in 1..count : \E chunk \in Seq(Nat) : Took(value, w[c - 1], w[c], chunk)
  BY <1>7, <1>9, WalkMeans
<1>11. PICK chunks : chunks = [c \in 1..count |-> CHOOSE chunk \in Seq(Nat) : Took(value, w[c - 1], w[c], chunk)]
  OBVIOUS
<1>12. \A c \in 1..count : chunks[c] \in Seq(Nat) /\ Took(value, w[c - 1], w[c], chunks[c])
  BY <1>10, <1>11
<1>13. chunks \in Seq(Seq(Nat)) /\ Len(chunks) = count /\ DOMAIN chunks = 1..count
  <2>1. chunks \in [1..count -> Seq(Nat)]
    BY <1>11, <1>12
  <2>2. QED
    BY <2>1
<1>14. \A c \in DOMAIN chunks : Len(chunks[c]) <= TRANSPORT_CHUNK_MAX_BYTES
  BY <1>12, <1>13 DEF Took
<1>15. PICK items : items = [c \in 1..count |-> ByteString(chunks[c])]
  OBVIOUS
<1>16. ASSUME NEW c \in 1..count
       PROVE  items[c] = ByteString(chunks[c]) /\ items[c] \in Seq(Nat) /\ Len(items[c]) >= 1
  <2>1. PICK chunk \in Seq(Nat) : chunk = chunks[c]
    BY <1>12
  <2>2. PICK m \in Nat : m = Len(chunk)
    OBVIOUS
  <2>3. PICK head \in Seq(Nat) : head = MinimalHead(2, m) /\ Len(head) >= 1
    BY HeadBytes
  <2>4. ByteString(chunk) = head \o chunk
    BY <2>2, <2>3 DEF ByteString
  <2>5. Len(head \o chunk) = Len(head) + m /\ Len(head) \in Nat /\ head \o chunk \in Seq(Nat)
    BY <2>2
  <2>6. Len(head \o chunk) >= 1
    BY <2>3, <2>5
  <2>7. items[c] = ByteString(chunk)
    BY <1>15, <2>1
  <2>8. QED
    BY <2>1, <2>4, <2>5, <2>6, <2>7
<1>17. items \in Seq(Seq(Nat)) /\ Len(items) = count
  <2>1. items \in [1..count -> Seq(Nat)]
    BY <1>15, <1>16
  <2>2. QED
    BY <2>1
<1>18. PICK e : e = [c \in 0..count |-> w[c].pos - 1]
  OBVIOUS
<1>19. e[0] = H /\ e[count] = Len(value)
  <2>1. e[0] = w[0].pos - 1 /\ e[count] = w[count].pos - 1
    BY <1>18
  <2>2. w[0].pos = H + 1
    BY <1>6, <1>10
  <2>3. QED
    BY <1>1, <1>9, <2>1, <2>2
<1>20. ASSUME NEW c \in 1..count
       PROVE  /\ e[c - 1] \in Nat /\ e[c] \in Nat /\ Len(items[c]) \in Nat
              /\ e[c] = e[c - 1] + Len(items[c]) /\ e[c] >= e[c - 1] + 1 /\ e[c] <= Len(value)
              /\ Occurs(items[c], value, e[c - 1])
  <2>1. c \in 0..count /\ c - 1 \in 0..count
    OBVIOUS
  <2>2. PICK s \in Walkers, r \in Walkers : s = w[c - 1] /\ r = w[c]
    <3>1. w[c - 1] \in Walkers /\ w[c] \in Walkers
      BY <2>1
    <3>2. QED
      BY <3>1
  <2>3. e[c - 1] = s.pos - 1 /\ e[c] = r.pos - 1
    BY <1>18, <2>1, <2>2
  <2>4. s.pos >= 1 /\ Occurs(items[c], value, s.pos - 1) /\ r.pos = s.pos + Len(items[c])
    BY <1>12, <1>16, <2>2 DEF Took
  <2>5. PICK p \in Nat, q \in Nat, l \in Nat : p = s.pos /\ q = r.pos /\ l = Len(items[c])
    <3>1. s.pos \in Nat /\ r.pos \in Nat
      BY DEF Walkers
    <3>2. Len(items[c]) \in Nat
      BY <1>16
    <3>3. QED
      BY <3>1, <3>2, Zenon
  <2>6. p >= 1 /\ q = p + l /\ l >= 1
    BY <1>16, <2>4, <2>5
  <2>7. p - 1 \in Nat /\ q - 1 \in Nat /\ q - 1 = (p - 1) + l /\ q - 1 >= (p - 1) + 1
    BY <2>6
  <2>8. (p - 1) + l <= Len(value)
    BY <2>4, <2>5 DEF Occurs
  <2>9. QED
    BY <2>3, <2>4, <2>5, <2>7, <2>8
<1>21. \A c \in 0..count : e[c] \in Nat /\ c + H <= e[c]
  <2> DEFINE Y == {n \in Nat : n <= count => e[n] \in Nat /\ n + H <= e[n]}
  <2>1. 0 \in Y
    BY <1>19
  <2>2. ASSUME NEW n \in Nat, n \in Y
        PROVE  n + 1 \in Y
    <3>1. SUFFICES ASSUME n + 1 <= count
                   PROVE  e[n + 1] \in Nat /\ (n + 1) + H <= e[n + 1]
      OBVIOUS
    <3>2. PICK c \in 1..count : c = n + 1 /\ c - 1 = n
      BY <3>1
    <3>3. PICK x \in Nat, y \in Nat : x = e[n] /\ y = e[c] /\ y >= x + 1
      BY <1>20, <3>2
    <3>4. n + H <= x
      BY <2>2, <3>1, <3>3
    <3>5. (n + 1) + H <= y
      BY <3>3, <3>4
    <3>6. QED
      BY <3>2, <3>3, <3>5
  <2>3. ASSUME NEW n \in Nat
        PROVE  n \in Y
    <3> HIDE DEF Y
    <3>1. QED
      BY <2>1, <2>2, SetInduction
  <2>4. QED
    BY <2>3
<1>22. count = h.value /\ count < Long /\ H <= Len(value)
  <2>1. count + H <= Len(value)
    BY <1>19, <1>21
  <2>2. PICK L \in Nat : L = Len(value)
    BY <1>1
  <2>3. count < L /\ H <= L
    <3>1. count + H <= L /\ H >= 1
      BY <1>6, <2>1, <2>2
    <3>2. QED
      BY <3>1
  <2>4. count # L + 1
    BY <2>3
  <2>5. count = h.value
    BY <1>5, <2>2, <2>4
  <2>6. QED
    BY <1>1, <2>2, <2>3, <2>5
<1>23. PICK head \in Seq(Nat) : head = MinimalHead(4, count) /\ Occurs(head, value, 0) /\ Len(head) = H
  <2>1. PICK head \in Seq(Nat) : head = MinimalHead(4, count)
    BY HeadBytes
  <2>2. Occurs(head, value, 1 - 1) /\ h.start = 1 + Len(head)
    BY <1>2, <1>3, <1>22, <2>1, HeadIsCanonical
  <2>3. 1 - 1 = 0
    OBVIOUS
  <2>4. Len(head) = H
    <3>1. Len(head) \in Nat
      OBVIOUS
    <3>2. H + 1 = 1 + Len(head)
      BY <1>6, <2>2
    <3>3. QED
      BY <3>1, <3>2
  <2>5. QED
    BY <2>1, <2>2, <2>3, <2>4
<1>24. PICK f : f = [c \in 0..count |-> SubSeq(value, H + 1, e[c])]
  OBVIOUS
<1>25. ASSUME NEW c \in 0..count
       PROVE  e[c] \in Nat /\ H <= e[c] /\ e[c] <= Len(value)
  <2>1. e[c] \in Nat /\ c + H <= e[c]
    BY <1>21
  <2>2. H <= e[c]
    BY <2>1
  <2>3. CASE c = 0
    BY <1>19, <1>22, <2>1, <2>2, <2>3
  <2>4. CASE c # 0
    <3>1. c \in 1..count
      BY <2>4
    <3>2. QED
      BY <1>20, <2>1, <2>2, <3>1
  <2>5. QED
    BY <2>3, <2>4
<1>26. Joins(f, Nat, items)
  <2>1. f \in [0..count -> Seq(Nat)]
    <3>1. ASSUME NEW c \in 0..count
          PROVE  SubSeq(value, H + 1, e[c]) \in Seq(Nat)
      <4>1. PICK b \in Nat : b = e[c] /\ H <= b /\ b <= Len(value)
        BY <1>25
      <4>2. SubSeq(value, H + 1, b) \in Seq(Nat)
        BY <1>1, <4>1, PartFacts
      <4>3. QED
        BY <4>1, <4>2
    <3>2. QED
      BY <1>24, <3>1
  <2>2. f[0] = <<>>
    <3>1. f[0] = SubSeq(value, H + 1, H)
      BY <1>19, <1>24
    <3>2. SubSeq(value, H + 1, H) \in Seq(Nat) /\ Len(SubSeq(value, H + 1, H)) = H - H
      <4>1. H <= H /\ H <= Len(value)
        BY <1>22
      <4>2. QED
        BY <1>1, <4>1, PartFacts
    <3>3. QED
      BY <3>1, <3>2
  <2>3. ASSUME NEW c \in 1..count
        PROVE  f[c] = f[c - 1] \o items[c]
    <3>1. c \in 0..count /\ c - 1 \in 0..count
      OBVIOUS
    <3>2. PICK a \in Nat, b \in Nat, item \in Seq(Nat) : a = e[c - 1] /\ b = e[c] /\ item = items[c]
      BY <1>16, <1>20
    <3>3. H <= a /\ a <= b /\ b <= Len(value) /\ b = a + Len(item) /\ Occurs(item, value, a)
      <4>1. H <= a
        BY <1>25, <3>1, <3>2
      <4>2. b = a + Len(item) /\ b >= a + 1 /\ b <= Len(value) /\ Occurs(item, value, a)
        BY <1>20, <3>2
      <4>3. a <= b
        BY <4>2
      <4>4. QED
        BY <4>1, <4>2, <4>3
    <3>4. SubSeq(value, a + 1, b) = item
      BY <1>1, <3>3, OccursIsSubSeq
    <3>5. SubSeq(value, H + 1, a) \o SubSeq(value, a + 1, b) = SubSeq(value, H + 1, b)
      <4>1. H <= a /\ a <= b /\ b <= Len(value)
        BY <3>3
      <4>2. QED
        BY <1>1, <4>1, PartsJoin
    <3>6. f[c] = SubSeq(value, H + 1, b) /\ f[c - 1] = SubSeq(value, H + 1, a)
      BY <1>24, <3>1, <3>2
    <3>7. QED
      BY <3>2, <3>4, <3>5, <3>6
  <2>4. QED
    BY <1>17, <2>1, <2>2, <2>3 DEF Joins
<1>27. FlattenSeq(items) = SubSeq(value, H + 1, Len(value))
  <2>1. FlattenSeq(items) = f[count]
    BY <1>17, <1>26, JoinsFlatten
  <2>2. QED
    BY <1>19, <1>24, <2>1
<1>28. value = head \o FlattenSeq(items)
  <2>1. SubSeq(value, 0 + 1, 0 + Len(head)) = head
    BY <1>1, <1>23, OccursIsSubSeq
  <2>2. 0 + Len(head) = H
    BY <1>23
  <2>3. SubSeq(value, 0 + 1, H) \o SubSeq(value, H + 1, Len(value)) = SubSeq(value, 0 + 1, Len(value))
    <3>1. PICK L \in Nat : L = Len(value) /\ H <= L /\ L <= Len(value) /\ 0 <= H
      BY <1>1, <1>22
    <3>2. 0 <= H /\ H <= L /\ L <= Len(value)
      BY <3>1
    <3>3. SubSeq(value, 0 + 1, H) \o SubSeq(value, H + 1, L) = SubSeq(value, 0 + 1, L)
      BY <1>1, <3>2, PartsJoin
    <3>4. QED
      BY <3>1, <3>3
  <2>4. SubSeq(value, 0 + 1, Len(value)) = value
    <3>1. 0 + 1 = 1
      OBVIOUS
    <3>2. SubSeq(value, 1, Len(value)) = value
      BY <1>1
    <3>3. QED
      BY <3>1, <3>2
  <2>5. SubSeq(value, 0 + 1, H) = head
    BY <2>1, <2>2, Zenon
  <2>6. QED
    BY <1>27, <2>3, <2>4, <2>5, Zenon
<1>29. value = EncodeChunks(chunks)
  <2>1. items = [c \in DOMAIN chunks |-> ByteString(chunks[c])]
    BY <1>13, <1>15
  <2>2. EncodeChunks(chunks) = ArrayOf(items)
    BY <2>1 DEF EncodeChunks
  <2>3. ArrayOf(items) = head \o FlattenSeq(items)
    BY <1>17, <1>23 DEF ArrayOf
  <2>4. QED
    BY <1>28, <2>2, <2>3
<1>30. Reassemble(value).body = FlattenSeq(chunks)
  <2>1. Reassemble(value) = [code |-> OK, body |-> FlattenSeq(chunks)]
    BY <1>13, <1>14, <1>29, ChunksAreReadBack
  <2>2. QED
    BY <2>1
<1>31. QED
  BY <1>13, <1>14, <1>29, <1>30
-----------------------------------------------------------------------------
(* What passes the binding                                                 *)

\* The transaction that is read is the one that was asked for, and what is read
\* of it follows from its auxiliary data.
BoundInv ==
  /\ hop \in {"served", "sliced", "bound", "found", "done"}
  /\ ledger.form # "value" =>
       /\ ledger \in Transactions /\ target = Requested(ledger)
       /\ hop \in {"bound", "found"} => parts.body = target.body /\ parts.aux = target.aux
       /\ hop = "found" => ReadingOf(target.aux) = Reassemble(carried)
       /\ hop = "done" =>
            reading \in {Failure("unusable"), Failure("binding failed"), ReadingOf(target.aux)}

\* One transaction has one body, and its body one auxiliary data.
LEMMA BindingIsExact ==
  ASSUME LedgerCommits, NEW t \in Transactions, NEW slices,
         BindingFailure(Requested(t), slices) = OK
  PROVE  slices.body = Requested(t).body /\ slices.aux = Requested(t).aux
<1>1. PICK body, aux : body = Requested(t).body /\ aux = Requested(t).aux
  OBVIOUS
<1>2. slices.body = body /\ CommittedHash(body) = AuxDigest(Requested(t), slices.aux)
  BY <1>1 DEF BindingFailure, OK
<1>3. CommittedHash(body) = AuxDigest(Requested(t), aux)
  BY <1>1 DEF LedgerCommits
<1>4. slices.aux = aux
  <2>1. <<-1>> # <<170>> /\ <<-1>> # <<171>> /\ <<170>> # <<171>>
    <3>1. <<-1>>[1] = -1 /\ <<170>>[1] = 170 /\ <<171>>[1] = 171
      OBVIOUS
    <3>2. QED
      BY <3>1
  <2>2. QED
    BY <1>1, <1>2, <1>3, <2>1 DEF AuxDigest, Uncommitted
<1>5. QED
  BY <1>1, <1>2, <1>4

\* A response begins in the invariant.
LEMMA InitBoundInv ==
  ASSUME CarriageInit
  PROVE  BoundInv
<1>1. CASE hop = "served" /\ ledger \in Transactions /\ target = Requested(ledger)
  BY <1>1 DEF BoundInv
<1>2. CASE hop = "found" /\ ledger.form = "value"
  BY <1>2 DEF BoundInv
<1>3. QED
  BY <1>1, <1>2 DEF CarriageInit

\* Each hop keeps it: what is bound is what the ledger has.
LEMMA NextBoundInv ==
  ASSUME BoundInv, LedgerCommits, [CarriageNext]_(carriageVars)
  PROVE  BoundInv'
<1>1. CASE SliceResponse
  BY <1>1 DEF SliceResponse, BoundInv
<1>2. CASE BindSlices
  <2>1. CASE BindingFailure(target, parts) = OK
    <3>1. /\ hop' = "bound" /\ UNCHANGED <<ledger, target, response, parts, carried, reading>>
      BY <1>2, <2>1 DEF BindSlices
    <3>2. ledger.form # "value" => parts.body = target.body /\ parts.aux = target.aux
      BY <2>1, BindingIsExact DEF BoundInv
    <3>3. QED
      BY <3>1, <3>2 DEF BoundInv
  <2>2. CASE BindingFailure(target, parts) # OK
    <3>1. /\ hop' = "done" /\ reading' = Failure("binding failed")
          /\ UNCHANGED <<ledger, target>>
      BY <1>2, <2>2 DEF BindSlices
    <3>2. QED
      BY <3>1 DEF BoundInv
  <2>3. QED
    BY <2>1, <2>2
<1>3. CASE FindLabel
  <2>1. PICK label : /\ label = IF parts.aux # NoBytes THEN Label309(parts.aux)
                                ELSE [ok |-> TRUE, value |-> <<>>]
                     /\ IF label.ok /\ label.value # <<>>
                          THEN carried' = label.value /\ hop' = "found" /\ UNCHANGED reading
                          ELSE /\ reading' = Failure(IF label.ok THEN "METADATA_NOT_FOUND" ELSE "MALFORMED_CBOR")
                               /\ hop' = "done" /\ UNCHANGED carried
    BY <1>3 DEF FindLabel
  <2>2. hop = "bound" /\ UNCHANGED <<ledger, target, response, parts>>
    BY <1>3 DEF FindLabel
  <2>3. ledger.form # "value" =>
          ReadingOf(target.aux) = IF label.ok /\ label.value # <<>> THEN Reassemble(label.value)
                                  ELSE Failure(IF label.ok THEN "METADATA_NOT_FOUND" ELSE "MALFORMED_CBOR")
    BY <2>1, <2>2 DEF BoundInv, ReadingOf
  <2>4. CASE label.ok /\ label.value # <<>>
    BY <2>1, <2>2, <2>3, <2>4 DEF BoundInv
  <2>5. CASE ~(label.ok /\ label.value # <<>>)
    BY <2>1, <2>2, <2>3, <2>5 DEF BoundInv
  <2>6. QED
    BY <2>4, <2>5
<1>4. CASE ReadValue
  BY <1>4 DEF ReadValue, BoundInv
<1>5. CASE UNCHANGED carriageVars
  BY <1>5 DEF carriageVars, BoundInv
<1>6. QED
  BY <1>1, <1>2, <1>3, <1>4, <1>5 DEF CarriageNext

\* Whatever a provider serves for a transaction of a ledger whose bodies commit
\* to their auxiliary data, what passes the binding is read as that transaction
\* would be, and nothing else in the response counts (_bind_fetched_tx).
THEOREM OnlyWhatWasAskedForIsRead ==
  ASSUME LedgerCommits
  PROVE  CarriageSpec => []WhatIsReadWasAskedFor
<1>1. CarriageInit => BoundInv
  BY InitBoundInv
<1>2. BoundInv /\ [CarriageNext]_(carriageVars) => BoundInv'
  BY NextBoundInv
<1>3. BoundInv => WhatIsReadWasAskedFor
  BY DEF BoundInv, WhatIsReadWasAskedFor
<1>4. QED
  BY <1>1, <1>2, <1>3, PTL DEF CarriageSpec

\* The value that is read was cut from a record of the ledger.
CutInv ==
  ledger.form = "value" =>
    /\ hop \in {"found", "done"} /\ ledger.chunks \in Seq(Seq(Nat))
    /\ hop = "done" => reading = Reassemble(carried)

\* A cutting is chunks of bytes.
LEMMA CuttingsOfBytes ==
  ASSUME NEW bytes \in Seq(Nat), NEW n \in Nat \ {0}, NEW cutting \in Cuttings(bytes, n)
  PROVE  cutting \in Seq(Seq(Nat))
<1>1. PICK cut \in [0..n -> 0..Len(bytes)] :
        /\ cutting = [c \in 1..n |-> SubSeq(bytes, cut[c - 1] + 1, cut[c])]
        /\ \A c \in 1..n : cut[c - 1] <= cut[c]
  <2>1. n # 0
    OBVIOUS
  <2>2. QED
    BY <2>1 DEF Cuttings
<1>2. ASSUME NEW c \in 1..n
      PROVE  SubSeq(bytes, cut[c - 1] + 1, cut[c]) \in Seq(Nat)
  <2>1. c - 1 \in 0..n /\ c \in 0..n
    OBVIOUS
  <2>2. PICK a \in Nat, b \in Nat : a = cut[c - 1] /\ b = cut[c] /\ a <= b /\ b <= Len(bytes)
    <3>1. cut[c - 1] \in 0..Len(bytes) /\ cut[c] \in 0..Len(bytes)
      BY <2>1
    <3>2. \A i \in 0..Len(bytes) : i \in Nat /\ i <= Len(bytes)
      OBVIOUS
    <3>3. QED
      BY <1>1, <3>1, <3>2, Zenon
  <2>3. a <= b /\ b <= Len(bytes)
    BY <2>2
  <2>4. SubSeq(bytes, a + 1, b) \in Seq(Nat)
    BY <2>3, PartFacts
  <2>5. QED
    BY <2>2, <2>4
<1>3. cutting \in [1..n -> Seq(Nat)]
  BY <1>1, <1>2
<1>4. QED
  BY <1>3

\* The chunks of the ledger, and every cutting of a record in it, are bytes.
LEMMA InitCutInv ==
  ASSUME LedgerOfBytes, CarriageInit
  PROVE  CutInv
<1>1. CASE hop = "served" /\ ledger \in Transactions
  BY <1>1 DEF CutInv, LedgerOfBytes
<1>2. CASE /\ hop = "found"
           /\ \E body \in {FlattenSeq(t.chunks) : t \in Transactions}, n \in 1..3 :
                \E cutting \in Cuttings(body, n) :
                  ledger = [form |-> "value", elements |-> 1, others |-> "none", chunks |-> cutting]
  <2>1. PICK t \in Transactions, n \in 1..3 : \E cutting \in Cuttings(FlattenSeq(t.chunks), n) :
          ledger = [form |-> "value", elements |-> 1, others |-> "none", chunks |-> cutting]
    BY <1>2
  <2>2. PICK cutting \in Cuttings(FlattenSeq(t.chunks), n) :
          ledger = [form |-> "value", elements |-> 1, others |-> "none", chunks |-> cutting]
    BY <2>1
  <2>3. PICK chunks \in Seq(Seq(Nat)) : chunks = t.chunks
    BY DEF LedgerOfBytes
  <2>4. PICK f : Joins(f, Nat, chunks)
    BY JoinsExist
  <2>5. PICK bytes \in Seq(Nat) : bytes = FlattenSeq(t.chunks)
    BY <2>3, <2>4, JoinsFlatten
  <2>6. n \in Nat \ {0}
    OBVIOUS
  <2>7. cutting \in Seq(Seq(Nat))
    BY <2>2, <2>5, <2>6, CuttingsOfBytes
  <2>8. ledger.chunks = cutting
    BY <2>2
  <2>9. QED
    BY <1>2, <2>7, <2>8 DEF CutInv
<1>3. QED
  BY <1>1, <1>2 DEF CarriageInit

\* No hop changes the ledger.
LEMMA NextCutInv ==
  ASSUME CutInv, [CarriageNext]_(carriageVars)
  PROVE  CutInv'
<1>1. CASE SliceResponse
  BY <1>1 DEF SliceResponse, CutInv
<1>2. CASE BindSlices
  BY <1>2 DEF BindSlices, CutInv
<1>3. CASE FindLabel
  BY <1>3 DEF FindLabel, CutInv
<1>4. CASE ReadValue
  BY <1>4 DEF ReadValue, CutInv
<1>5. CASE UNCHANGED carriageVars
  BY <1>5 DEF carriageVars, CutInv
<1>6. QED
  BY <1>1, <1>2, <1>3, <1>4, <1>5 DEF CarriageNext

\* However a record of the ledger is cut, what is read of it is the record, or
\* that a chunk is too long (reassemble_label_309_value).
THEOREM CuttingsAreOne ==
  ASSUME LedgerOfBytes, TRANSPORT_CHUNK_MAX_BYTES \in Nat
  PROVE  CarriageSpec => []CuttingsAreReadBack
<1>1. CarriageInit => CutInv
  BY InitCutInv
<1>2. CutInv /\ [CarriageNext]_(carriageVars) => CutInv'
  BY NextCutInv
<1>3. CutInv => CuttingsAreReadBack
  <2>1. SUFFICES ASSUME CutInv, hop = "done", ledger.form = "value", carried = EncodeChunks(ledger.chunks)
                 PROVE  reading = IF WithinLimit(ledger.chunks)
                                  THEN [code |-> OK, body |-> FlattenSeq(ledger.chunks)]
                                  ELSE Failure("CHUNK_TOO_LARGE")
    BY DEF CuttingsAreReadBack
  <2>2. PICK chunks \in Seq(Seq(Nat)) : chunks = ledger.chunks
    BY <2>1 DEF CutInv
  <2>3. reading = Reassemble(EncodeChunks(chunks))
    BY <2>1, <2>2 DEF CutInv
  <2>4. Reassemble(EncodeChunks(chunks)) =
          IF \A c \in DOMAIN chunks : Len(chunks[c]) <= TRANSPORT_CHUNK_MAX_BYTES
          THEN [code |-> OK, body |-> FlattenSeq(chunks)] ELSE Failure("CHUNK_TOO_LARGE")
    BY ChunksAreReadBack
  <2>5. QED
    BY <2>2, <2>3, <2>4, Zenon DEF WithinLimit
<1>4. QED
  BY <1>1, <1>2, <1>3, PTL DEF CarriageSpec
=============================================================================
