--------------------------- MODULE SealedEnvelope ---------------------------
(***************************************************************************)
(* The slots path of a sealed record (_crypto/sealed_poe.py): a producer   *)
(* wraps one content key for every recipient and binds the slots, the      *)
(* header and the item's hash claim with a MAC; the record travels and may *)
(* change; a reader tries its private keys on every slot and opens the     *)
(* content with what it finds.                                             *)
(*                                                                         *)
(* Primitives are ideal: a shared secret, a KEK and a MAC are the records  *)
(* of what they are computed from, and a wrap opens under the KEK it was   *)
(* sealed with.  One thing is not ideal: MacClass lets two content keys    *)
(* give the same MAC, the collision the code fails closed on.              *)
(***************************************************************************)
EXTENDS Naturals, FiniteSets, Checks

CONSTANTS
  Keys,            \* private keys; 32 bytes each, so either KEM takes them
  Unsound,         \* keys whose X-Wing public key fails the validity check
  Ephemerals, LowOrder,   \* ephemeral secrets; a small-order epk
  Ceks, ZeroCek, MacClass,
  Nonces, Hashes, NoHashes,   \* envelope nonces; hash claims, the empty one
  Drawn,           \* the content key, nonce and claims a producer starts from:
                   \* any of each will do, the others are for what changes
  MAX_SLOTS, SlotBytes, OverheadBytes, MAX_DECODED_ENVELOPE_BYTES,
  MaxRecipients, MaxChanges   \* bounds of the model

KEMs == {"x25519", "mlkem768x25519"}

EnvelopeAssumption ==
  /\ Unsound \subseteq Keys /\ LowOrder \notin Ephemerals
  /\ ZeroCek \notin Ceks /\ DOMAIN MacClass = Ceks \cup {ZeroCek}
  /\ NoHashes \in Hashes
  /\ Drawn.cek \in Ceks /\ Drawn.nonce \in Nonces /\ Drawn.hashes \subseteq Hashes
  /\ MAX_SLOTS \in Nat /\ OverheadBytes \in Nat /\ MAX_DECODED_ENVELOPE_BYTES \in Nat
  /\ SlotBytes \in [KEMs -> Nat]
  /\ MaxRecipients \in Nat /\ MaxChanges \in Nat

VARIABLES
  pc,       \* choosing, sealed, scanning, opening, done
  made,     \* what the producer sealed: recipients, cek, envelope, hashes
  env,      \* the envelope as the reader has it
  claim,    \* the hashes map of the item it comes with
  body,     \* the ciphertext: the payload key it is under, and whether intact
  changes,  \* what has happened to the record on its way
  api,      \* "unwrap", "trial" or "stream"
  ring,     \* the reader's private keys, as it passes them
  privs,    \* those of them that are tried, newest first
  k, i,     \* the key being tried, the slot it is tried on
  scan,     \* _scan_slots' running selection
  opened,   \* a wrap has opened under an earlier key
  result    \* what the call returned or raised
vars == <<pc, made, env, claim, body, changes, api, ring, privs, k, i, scan, opened, result>>
readVars == <<api, ring, privs, k, i, scan, opened>>

-----------------------------------------------------------------------------
(* Key encapsulation and wrapping.                                         *)

\* A slot's KEM material: an epk is the ephemeral's alone, a kem_ct is also
\* bound to the key it was made for.
Material(kem, eph, key) == [kem |-> kem, eph |-> eph, sized |-> TRUE,
                            to |-> IF kem = "x25519" THEN "any" ELSE key]

\* What key and material agree on: a kem_ct made for another key gives an
\* unrelated secret, never an error (x25519_ecdh, xwing_decapsulate).
Shared(kem, key, mat) ==
  [eph |-> mat.eph, key |-> key, rejected |-> kem # "x25519" /\ mat.to # key]

ZeroShared == [eph |-> LowOrder, key |-> LowOrder, rejected |-> TRUE]

\* The per-slot KEK: HKDF of the secret, salted with nonce, material and
\* recipient key, labelled with the KEM.
Kek(kem, shared, nonce, mat, key) ==
  [kem |-> kem, shared |-> shared, nonce |-> nonce, mat |-> mat, key |-> key]

\* _wrap_slot_x25519 and _wrap_slot_mlkem768x25519.
WrapSlot(kem, nonce, key, eph, cek) ==
  LET mat == Material(kem, eph, key)
  IN [mat  |-> mat,
      wrap |-> [kek |-> Kek(kem, Shared(kem, key, mat), nonce, mat, key),
                cek |-> cek, sized |-> TRUE]]

\* Mutated form: the claim is left out of the transcript.
Transcript_NoClaim(kem, nonce, slots, hashes) == [kem |-> kem, nonce |-> nonce, slots |-> slots]

\* _slots_transcript over _slots_transcript_value and item_hashes_hash;
\* scheme and content format are the construction's own.
Transcript(kem, nonce, slots, hashes) ==
  [kem |-> kem, nonce |-> nonce, slots |-> slots, hashes |-> hashes]

\* _slots_mac_from_hash.
SlotsMac(cek, transcript) == [class |-> MacClass[cek], over |-> transcript, sized |-> TRUE]

\* _assert_unique_slot_kem_material finds one twice.
DuplicateMaterial(slots) ==
  \E a, b \in DOMAIN slots : a # b /\ slots[a].mat = slots[b].mat

-----------------------------------------------------------------------------
(* Sealing.                                                                *)

\* The errors of _build_sealed_envelope, in its order: KEM, recipients and
\* their lengths, overrides, cek and nonce lengths, the claim, the X-Wing
\* keys.  (Values of a wrong length are outside Ceks and Nonces.)
SealRefusal(a) == FirstFailing(<<
  <<"UNSUPPORTED_KEM_ALG", a.kem \notin KEMs>>,
  <<"ENC_SLOTS_EMPTY", a.recipients = <<>> >>,
  <<"KEM_EPK_LENGTH_MISMATCH", \E r \in DOMAIN a.recipients : a.recipients[r].kem # a.kem>>,
  <<"EPHEMERAL_SECRETS_COUNT_MISMATCH", Len(a.ephemerals) # Len(a.recipients)>>,
  <<"INVALID_CEK_LENGTH", a.cek \notin Ceks>>,
  <<"NONCE_LENGTH_MISMATCH", a.nonce \notin Nonces>>,
  <<"ENC_REQUIRES_CONTENT_HASH", a.hashes = NoHashes>>,
  <<"INVALID_RECIPIENT_KEY", a.kem = "mlkem768x25519" /\
       \E r \in DOMAIN a.recipients : a.recipients[r].key \in Unsound>> >>)

\* The slots in the order of the recipients, before the shuffle.
Wrapped(a) == [r \in DOMAIN a.recipients |->
                 WrapSlot(a.kem, a.nonce, a.recipients[r].key, a.ephemerals[r], a.cek)]

\* The orders _csprng_shuffle may give the slots.
Shuffles(slots) ==
  {[r \in DOMAIN slots |-> slots[p[r]]] :
     p \in {f \in [DOMAIN slots -> DOMAIN slots] :
              \A a, b \in DOMAIN slots : a # b => f[a] # f[b]}}

\* The envelope over these slots, its MAC computed last.
Envelope(a, slots) ==
  [scheme |-> 1, aead |-> "stream64k", kem |-> a.kem, nonce |-> a.nonce, slots |-> slots,
   mac |-> SlotsMac(a.cek, Transcript(a.kem, a.nonce, slots, a.hashes))]

Nothing == [scheme |-> 0, aead |-> "none", kem |-> "none", nonce |-> "none", slots |-> <<>>,
            mac |-> "none"]
NoArgs == [kem |-> "none", recipients |-> <<>>, ephemerals |-> <<>>, cek |-> ZeroCek,
           nonce |-> "none", hashes |-> NoHashes]
Unread == [form |-> "flat", list |-> <<>>]
NoScan == [found |-> FALSE, opened |-> FALSE, conflict |-> FALSE, cek |-> ZeroCek, slot |-> 0]
Returned(kind, reason) == [kind |-> kind, reason |-> reason, cek |-> ZeroCek, slot |-> 0]

Init ==
  /\ pc = "choosing" /\ made = [env |-> Nothing, args |-> NoArgs] /\ env = Nothing /\ claim = NoHashes
  /\ body = [cek |-> ZeroCek, nonce |-> "none", intact |-> TRUE] /\ changes = <<>>
  /\ api = "none" /\ ring = Unread /\ privs = <<>> /\ k = 1 /\ i = 1 /\ scan = NoScan /\ opened = FALSE
  /\ result = Returned("none", "none")

\* What a caller may pass: the key of a recipient, an ephemeral for each (the
\* deterministic override, or what the generator draws, repeats included).
Public == [kem : KEMs, key : Keys]
SeqsOf(S, n) == UNION {[1..m -> S] : m \in 0..n}

SealArgs ==
  [kem : KEMs \cup {"rsa"}, recipients : SeqsOf(Public, MaxRecipients),
   ephemerals : SeqsOf(Ephemerals, MaxRecipients), cek : {Drawn.cek}, nonce : {Drawn.nonce}, hashes : Drawn.hashes]

\* ecies_sealed_poe_wrap, ecies_sealed_poe_seal_stream: the envelope is
\* resolved before a byte of content is sealed.
Seal(a) ==
  LET refusal == SealRefusal(a)
      slots == Wrapped(a)
  IN /\ pc = "choosing"
     /\ IF refusal # OK
        THEN pc' = "done" /\ result' = Returned("raised", refusal)
             /\ UNCHANGED <<made, env, claim, body>>
        ELSE IF DuplicateMaterial(slots)
        THEN pc' = "done" /\ result' = Returned("raised", "ENC_SLOTS_DUPLICATE_KEM_MATERIAL")
             /\ UNCHANGED <<made, env, claim, body>>
        ELSE /\ \E order \in Shuffles(slots) : env' = Envelope(a, order)
             /\ made' = [env |-> env', args |-> a]
             /\ claim' = a.hashes
             /\ body' = [cek |-> a.cek, nonce |-> a.nonce, intact |-> TRUE]
             /\ pc' = "sealed" /\ UNCHANGED result
     /\ UNCHANGED <<changes, readVars>>

-----------------------------------------------------------------------------
(* On the way.                                                             *)

Without(seq, p) == SubSeq(seq, 1, p - 1) \o SubSeq(seq, p + 1, Len(seq))
With(seq, p, x) == SubSeq(seq, 1, p - 1) \o <<x>> \o SubSeq(seq, p, Len(seq))

\* The slot lists one change away: a slot lost, repeated, swapped with
\* another, or with other material or another wrap.
AlteredSlots(slots) ==
  LET n == Len(slots)
  IN {Without(slots, p) : p \in 1..n}
       \cup {With(slots, p, slots[q]) : p \in 1..(n + 1), q \in 1..n}
       \cup {[slots EXCEPT ![p] = slots[q], ![q] = slots[p]] : p, q \in 1..n}
       \cup {[slots EXCEPT ![p].mat.sized = FALSE] : p \in 1..n}
       \cup {[slots EXCEPT ![p].wrap.sized = FALSE] : p \in 1..n}
       \cup {[slots EXCEPT ![p].mat.eph = e] : p \in 1..n, e \in Ephemerals \cup {LowOrder}}
       \cup {[slots EXCEPT ![p].wrap.cek = c] : p \in 1..n, c \in Ceks}

\* The envelopes one change away from this one, its MAC not recomputed.
AlteredEnvelope(e) ==
  {[e EXCEPT !.scheme = 2], [e EXCEPT !.aead = "gcm"],
   [e EXCEPT !.mac.sized = FALSE], [e EXCEPT !.mac.over = Transcript(e.kem, e.nonce, <<>>, NoHashes)]}
    \cup {[e EXCEPT !.kem = kem] : kem \in KEMs \cup {"rsa"}}
    \cup {[e EXCEPT !.nonce = n] : n \in Nonces \cup {"short"}}
    \cup {[e EXCEPT !.slots = s] : s \in AlteredSlots(e.slots)}

\* The record or the stored content changes.
Alter ==
  /\ pc = "sealed" /\ Len(changes) < MaxChanges
  /\ \/ /\ \E e \in AlteredEnvelope(env) \ {env} : env' = e
        /\ UNCHANGED <<claim, body>>
     \/ /\ \E h \in Hashes \ {claim} : claim' = h
        /\ UNCHANGED <<env, body>>
     \/ /\ body.intact /\ body' = [body EXCEPT !.intact = FALSE]
        /\ UNCHANGED <<env, claim>>
  /\ changes' = Append(changes, "altered")
  /\ UNCHANGED <<pc, made, readVars, result>>

\* Whoever knows the content key, a recipient included, adds a slot, for any
\* key and with any content key in it, and computes the MAC anew.
Extend ==
  /\ pc = "sealed" /\ Len(changes) < MaxChanges
  /\ \E key \in Keys, e \in Ephemerals, c \in Ceks, p \in 1..(Len(env.slots) + 1) :
       LET slots == With(env.slots, p, WrapSlot(made.args.kem, env.nonce, key, e, c))
       IN env' = [env EXCEPT !.slots = slots,
                    !.mac = SlotsMac(made.args.cek,
                                     Transcript(env.kem, env.nonce, slots, claim))]
  /\ changes' = Append(changes, "extended")
  /\ UNCHANGED <<pc, made, claim, body, readVars, result>>

-----------------------------------------------------------------------------
(* Reading.                                                                *)

\* The errors of _assert_envelope_structure, in its order; lists of keys
\* may hold one of a wrong length.
StructureRefusal(e, keys) == FirstFailing(<<
  <<"UNSUPPORTED_ENVELOPE_SCHEME", e.scheme # 1>>,
  <<"UNSUPPORTED_AEAD_ALG", e.aead # "stream64k">>,
  <<"UNSUPPORTED_KEM_ALG", e.kem \notin KEMs>>,
  <<"ENC_SLOTS_EMPTY", e.slots = <<>> >>,
  <<"ENC_SLOTS_TOO_MANY", Len(e.slots) > MAX_SLOTS>>,
  <<"NONCE_LENGTH_MISMATCH", e.nonce \notin Nonces>>,
  <<"ENC_SLOTS_MAC_INVALID_LENGTH", ~e.mac.sized>>,
  <<"KEM_LENGTH_MISMATCH", \E p \in DOMAIN e.slots :
       e.slots[p].mat.kem # e.kem \/ ~e.slots[p].mat.sized>>,
  <<"WRAP_LENGTH_MISMATCH", \E p \in DOMAIN e.slots : ~e.slots[p].wrap.sized>>,
  <<"ENC_ENVELOPE_TOO_LARGE", e.kem \in KEMs /\
       OverheadBytes + Len(e.slots) * SlotBytes[e.kem] > MAX_DECODED_ENVELOPE_BYTES>>,
  <<"ENC_SLOTS_DUPLICATE_KEM_MATERIAL", DuplicateMaterial(e.slots)>>,
  <<"INVALID_RECIPIENT_KEY", \E p \in DOMAIN keys : keys[p] \notin Keys>> >>)

\* The forms in which a caller passes its keys: one, a list, or a bundle of
\* a list per KEM; "several" when it passes more than one of these.
Some == {<<>>} \cup {<<key>> : key \in Keys}
Rings == [form : {"single"}, list : Some \ {<<>>}]
           \cup [form : {"flat"}, list : SeqsOf(Keys \cup {"short"}, 2)]
           \cup [form : {"bundle"}, x25519 : Some, hybrid : Some]
           \cup {[form |-> "several", list |-> <<>>]}

\* _select_bundle_secrets.
Selected(keys) ==
  IF keys.form # "bundle" THEN keys.list
  ELSE IF env.kem = "x25519" THEN keys.x25519 ELSE keys.hybrid

\* The call up to its first slot: _resolve_unwrap_privs, the structure, the
\* item's claim.  A bundle without a key for this KEM is a clean no-match.
Read(call, passed) ==
  LET keys == Selected(passed)
      misused == passed.form = "several" \/ (passed.form = "flat" /\ keys = <<>>)
      refusal == IF misused THEN "INVALID_RECIPIENT_KEY" ELSE StructureRefusal(env, keys)
  IN /\ pc = "sealed"
     /\ call = "trial" => passed.form = "flat"
     /\ api' = call /\ ring' = passed /\ privs' = keys
     /\ IF ~misused /\ keys = <<>>
        THEN pc' = "done" /\ result' = Returned("nomatch", "WRONG_RECIPIENT_KEY")
        ELSE IF refusal # OK
        THEN pc' = "done" /\ result' = Returned("raised", refusal)
        ELSE IF claim = NoHashes
        THEN pc' = "done" /\ result' = Returned("raised", "ENC_REQUIRES_CONTENT_HASH")
        ELSE pc' = "scanning" /\ UNCHANGED result
     /\ k' = 1 /\ i' = 1 /\ scan' = NoScan /\ opened' = FALSE
     /\ UNCHANGED <<made, env, claim, body, changes>>

SlotsHash == Transcript(env.kem, env.nonce, env.slots, claim)

\* The secret of slot p under a key, and whether the KEM accepted it.
KemOk(p) == ~(env.kem = "x25519" /\ env.slots[p].mat.eph = LowOrder)
WrapOpens(key, p) ==
  LET mat == env.slots[p].mat
      shared == IF KemOk(p) THEN Shared(env.kem, key, mat) ELSE ZeroShared
  IN env.slots[p].wrap.kek = Kek(env.kem, shared, env.nonce, mat, key)

\* ok = kem_ok AND open_ok AND mac_ok.
SlotOk(key, p, candidate) ==
  KemOk(p) /\ WrapOpens(key, p) /\ SlotsMac(candidate, SlotsHash) = env.mac

\* Mutated form: the last accepted slot is selected.
Fold_Last(s, key, p) ==
  LET candidate == IF WrapOpens(key, p) THEN env.slots[p].wrap.cek ELSE ZeroCek
      ok == SlotOk(key, p, candidate)
  IN [found    |-> s.found \/ ok,
      opened   |-> s.opened \/ (KemOk(p) /\ WrapOpens(key, p)),
      conflict |-> s.conflict \/ (ok /\ s.found /\ candidate # s.cek),
      cek      |-> IF ok THEN candidate ELSE s.cek,
      slot     |-> IF ok THEN p ELSE s.slot]

\* The mask fold of _scan_slots for one slot.
Fold(s, key, p) ==
  LET candidate == IF WrapOpens(key, p) THEN env.slots[p].wrap.cek ELSE ZeroCek
      ok == SlotOk(key, p, candidate)
      first == ok /\ ~s.found
  IN [found    |-> s.found \/ ok,
      opened   |-> s.opened \/ (KemOk(p) /\ WrapOpens(key, p)),
      conflict |-> s.conflict \/ (ok /\ s.found /\ candidate # s.cek),
      cek      |-> IF first THEN candidate ELSE s.cek,
      slot     |-> IF first THEN p ELSE s.slot]

\* Every slot is visited, also after one has been accepted.
ScanSlot ==
  /\ pc = "scanning" /\ i <= Len(env.slots)
  /\ scan' = Fold(scan, privs[k], i)
  /\ i' = i + 1
  /\ UNCHANGED <<pc, made, env, claim, body, changes, api, ring, privs, k, opened, result>>

\* A scan that ends without a match for the record: trial decryption says no
\* more than that, and the stream reports it as another recipient's record.
HeaderFailure(reason) ==
  CASE api = "unwrap" -> Returned("nomatch", reason)
    [] api = "trial"  -> Returned("nomatch", "none")
    [] api = "stream" -> Returned("nomatch", "WRONG_RECIPIENT_KEY")

Matched(cek, slot) == [kind |-> "match", reason |-> "none", cek |-> cek, slot |-> slot]

\* The end of a key's pass: a conflict ends the call, an accepted slot ends
\* the scan, else the next key has its turn.
EndPass ==
  /\ pc = "scanning" /\ i > Len(env.slots)
  /\ opened' = (opened \/ scan.opened)
  /\ IF scan.conflict
     THEN pc' = "done" /\ result' = HeaderFailure("TAMPERED_HEADER") /\ UNCHANGED <<k, i, scan>>
     ELSE IF scan.found
     THEN IF api = "trial"
          THEN pc' = "done" /\ result' = Matched(scan.cek, scan.slot) /\ UNCHANGED <<k, i, scan>>
          ELSE pc' = "opening" /\ UNCHANGED <<k, i, scan, result>>
     ELSE IF k < Len(privs)
     THEN k' = k + 1 /\ i' = 1 /\ scan' = NoScan /\ UNCHANGED <<pc, result>>
     ELSE /\ pc' = "done"
          /\ result' = HeaderFailure(IF opened' THEN "TAMPERED_HEADER" ELSE "WRONG_RECIPIENT_KEY")
          /\ UNCHANGED <<k, i, scan>>
  /\ UNCHANGED <<made, env, claim, body, changes, api, ring, privs>>

\* The content opens under the payload key of cek and nonce, and only whole.
OpenBody ==
  /\ pc = "opening" /\ pc' = "done"
  /\ result' = IF body.intact /\ body.cek = scan.cek /\ body.nonce = env.nonce
               THEN Matched(scan.cek, scan.slot)
               ELSE Returned("nomatch", "TAMPERED_CIPHERTEXT")
  /\ UNCHANGED <<made, env, claim, body, changes, readVars>>

Next ==
  \/ \E a \in SealArgs : Seal(a)
  \/ Alter \/ Extend
  \/ \E call \in {"unwrap", "trial", "stream"}, keys \in Rings : Read(call, keys)
  \/ ScanSlot \/ EndPass \/ OpenBody

Spec == Init /\ [][Next]_vars

-----------------------------------------------------------------------------
(* The inductive invariant.                                                *)

Mats == [kem : KEMs, eph : Ephemerals \cup {LowOrder}, sized : BOOLEAN, to : Keys \cup {"any"}]
Secrets == [eph : Ephemerals, key : Keys, rejected : BOOLEAN]
Wraps == [kek : [kem : KEMs, shared : Secrets, nonce : Nonces \cup {"short"}, mat : Mats, key : Keys],
          cek : Ceks, sized : BOOLEAN]
Slots == [mat : Mats, wrap : Wraps]
Transcripts == [kem : KEMs \cup {"rsa"}, nonce : Nonces \cup {"short"}, slots : Seq(Slots),
                hashes : Hashes]
Macs == [class : {MacClass[c] : c \in Ceks \cup {ZeroCek}}, over : Transcripts, sized : BOOLEAN]
Envelopes == [scheme : {1, 2}, aead : {"stream64k", "gcm"}, kem : KEMs \cup {"rsa"},
              nonce : Nonces \cup {"short"}, slots : Seq(Slots), mac : Macs]

\* A record was sealed.
Arrived == pc \in {"sealed", "scanning", "opening"} \/ api # "none"

TypeOK ==
  /\ pc \in {"choosing", "sealed", "scanning", "opening", "done"}
  /\ api \in {"none", "unwrap", "trial", "stream"}
  /\ pc \in {"choosing", "sealed"} => api = "none"
  /\ pc \in {"scanning", "opening"} => api # "none"
  /\ changes \in Seq({"altered", "extended"})
  /\ Arrived => env \in Envelopes /\ made.env \in Envelopes /\ claim \in Hashes

\* What was sealed: the slots are the recipients', one each, in some order.
SealedInv ==
  LET a == made.args
      slots == made.env.slots
  IN Arrived =>
       /\ a.kem \in KEMs /\ a.cek \in Ceks /\ a.nonce \in Nonces
       /\ a.recipients \in Seq(Public) /\ a.ephemerals \in Seq(Ephemerals)
       /\ Len(a.ephemerals) = Len(a.recipients)
       /\ made.env = Envelope(a, slots) /\ ~DuplicateMaterial(slots)
       /\ \A p \in DOMAIN slots : \E r \in DOMAIN a.recipients : slots[p] = Wrapped(a)[r]
       /\ \A r \in DOMAIN a.recipients : \E p \in DOMAIN slots : slots[p] = Wrapped(a)[r]

\* What was sealed, with one slot more.
OneSlotMore ==
  \E key \in Keys, e \in Ephemerals, c \in Ceks, p \in 1..(Len(made.env.slots) + 1) :
    LET slots == With(made.env.slots, p, WrapSlot(made.args.kem, made.env.nonce, key, e, c))
    IN env = [made.env EXCEPT !.slots = slots,
                !.mac = SlotsMac(made.args.cek,
                                 Transcript(made.env.kem, made.env.nonce, slots, claim))]

\* What has become of it: without the content key the MAC stays that of what
\* was sealed, or of no slots at all; with it, one more slot is under the MAC.
TravelInv ==
  /\ ~Arrived => env.slots = <<>> /\ changes = <<>>
  /\ Arrived /\ changes = <<>> => env = made.env
  /\ Arrived /\ changes \in {<<>>, <<"extended">>} =>
       /\ claim = made.args.hashes
       /\ body = [cek |-> made.args.cek, nonce |-> made.args.nonce, intact |-> TRUE]
  /\ Arrived /\ (\A c \in DOMAIN changes : changes[c] # "extended") =>
       /\ env.mac.class = made.env.mac.class
       /\ env.mac.over = made.env.mac.over \/ env.mac.over.slots = <<>>
  /\ Arrived /\ changes = <<"extended">> => OneSlotMore

\* The slots whose wrap a key opens, and those it is accepted by.
Opened(key) == {p \in DOMAIN env.slots : KemOk(p) /\ WrapOpens(key, p)}
Accepted(key) ==
  {p \in DOMAIN env.slots : SlotOk(key, p, env.slots[p].wrap.cek)}

\* Of a call that got past its checks: what it holds, where it is, and that no
\* slot accepted an earlier key.
Reading ==
  /\ ring \in Rings /\ ring.form # "several" /\ privs = Selected(ring)
  /\ StructureRefusal(env, privs) = OK
  /\ k \in 1..Len(privs) /\ i \in 1..(Len(env.slots) + 1)
  /\ \A b \in 1..(k - 1) : Accepted(privs[b]) = {}

\* The running selection is the fold's meaning.
ScanInv ==
  LET seen == Accepted(privs[k]) \cap 1..(i - 1)
  IN /\ scan.found <=> seen # {}
     /\ scan.found => /\ scan.slot \in seen /\ \A p \in seen : scan.slot <= p
                      /\ scan.cek = env.slots[scan.slot].wrap.cek
     /\ scan.conflict <=> \E p, q \in seen : env.slots[p].wrap.cek # env.slots[q].wrap.cek
     /\ scan.opened <=> Opened(privs[k]) \cap 1..(i - 1) # {}

BodyOpens == body.intact /\ body.cek = scan.cek /\ body.nonce = env.nonce

\* How a call may end that did not raise.
Ended ==
  \/ /\ ring \in Rings /\ ring.form = "bundle" /\ Selected(ring) = <<>>
     /\ result = Returned("nomatch", "WRONG_RECIPIENT_KEY")
  \/ /\ Reading /\ ScanInv /\ i = Len(env.slots) + 1
     /\ \/ scan.conflict /\ result = HeaderFailure("TAMPERED_HEADER")
        \/ /\ ~scan.conflict /\ scan.found
           /\ \/ (api = "trial" \/ BodyOpens) /\ result = Matched(scan.cek, scan.slot)
              \/ api # "trial" /\ ~BodyOpens /\ result = Returned("nomatch", "TAMPERED_CIPHERTEXT")
        \/ /\ ~scan.conflict /\ ~scan.found /\ k = Len(privs)
           /\ result = HeaderFailure(IF opened THEN "TAMPERED_HEADER" ELSE "WRONG_RECIPIENT_KEY")
           /\ opened <=> \E b \in 1..k : Opened(privs[b]) # {}

ReadInv ==
  /\ pc \in {"scanning", "opening"} => Reading /\ ScanInv
  /\ pc = "scanning" => (opened <=> \E b \in 1..(k - 1) : Opened(privs[b]) # {})
  /\ pc = "opening" =>
       i = Len(env.slots) + 1 /\ scan.found /\ ~scan.conflict /\ api # "trial"
  /\ pc = "done" /\ api # "none" /\ result.kind # "raised" => Ended

IInv == TypeOK /\ SealedInv /\ TravelInv /\ ReadInv

-----------------------------------------------------------------------------
(* Properties.                                                             *)

Recipients == {made.args.recipients[r].key : r \in DOMAIN made.args.recipients}
\* The keys the reader holds for the KEM the record was sealed under.
Mine == LET list == IF ring.form # "bundle" THEN ring.list
                    ELSE [x25519 |-> ring.x25519, mlkem768x25519 |-> ring.hybrid][made.args.kem]
        IN {list[p] : p \in DOMAIN list}
Done == pc = "done" /\ api # "none" /\ result.kind # "raised"

(* A record that arrives as it was sealed opens for every reader that holds *)
(* one of its recipients' keys, wherever it stands among the reader's keys  *)
(* and its slot among the slots, and is nobody else's (unwrap,              *)
(* trial_decrypt, unwrap_stream).                                           *)
OpensForItsRecipients ==
  Done /\ changes = <<>> =>
    /\ result.kind = "match" <=> Mine \cap Recipients # {}
    /\ result.kind = "match" => result.cek = made.args.cek
    /\ result.kind = "nomatch" /\ api # "trial" => result.reason = "WRONG_RECIPIENT_KEY"

(* Nothing of the header can change on the way: a call that matches has    *)
(* read the slots in their order, the KEM, the nonce and the item's hash   *)
(* claim as they were sealed (slots_mac over the transcript).              *)
HeaderBound ==
  Done /\ result.kind = "match" /\ (\A c \in DOMAIN changes : changes[c] # "extended") =>
    env = made.env /\ claim = made.args.hashes

(* A slot that wraps another content key is passed over: with no collision *)
(* of the MAC the honest slots still open, wherever they stand, and no     *)
(* reader is given another key.  With a collision no key is returned that  *)
(* another accepted slot contradicts (the per-slot fold of _scan_slots).   *)
ShadowSlotsAreInert ==
  Done /\ changes = <<"extended">> =>
    LET collision == \E p \in DOMAIN env.slots : LET c == env.slots[p].wrap.cek IN
                       c # made.args.cek /\ MacClass[c] = MacClass[made.args.cek]
    IN /\ ~collision /\ Mine \cap Recipients # {} => result.kind = "match"
       /\ result.kind = "match" => \A p \in Accepted(privs[k]) : env.slots[p].wrap.cek = result.cek
       /\ result.kind = "match" /\ ~(collision /\ api = "trial") => result.cek = made.args.cek

(* After any number of slots the running selection is the fold's meaning:  *)
(* the first accepted slot and its key, and a conflict exactly when two    *)
(* accepted slots have different content keys (_scan_slots).               *)
SelectsTheFirst == pc \in {"scanning", "opening"} => ScanInv

(* The wraps share one nonce, so no two of them may have the same KEK: not *)
(* in a sealed envelope, however the ephemerals repeat, and not among the  *)
(* slots a reader tries a key on (_assert_unique_slot_kem_material).       *)
KeksAreUnique ==
  LET Derived(key, p) ==
        Kek(env.kem, Shared(env.kem, key, env.slots[p].mat), env.nonce, env.slots[p].mat, key)
  IN /\ changes = <<>> => \A p, q \in DOMAIN env.slots :
          p # q => env.slots[p].wrap.kek # env.slots[q].wrap.kek
     /\ pc = "scanning" => \A p, q \in DOMAIN env.slots :
          p # q => Derived(privs[k], p) # Derived(privs[k], q)

\* ecies_sealed_poe_unwrap and its siblings: an unchanged envelope opens for
\* each of its recipients, under the slot and key the fold selects first.
EnvelopesOpenForTheirRecipients == IInv /\ OpensForItsRecipients /\ SelectsTheFirst

\* And a changed one opens for nobody: the MAC binds header and hash claim,
\* a slot someone added decides nothing, no two slots share a wrapping key.
HeadersAreBound == HeaderBound /\ ShadowSlotsAreInert /\ KeksAreUnique
=============================================================================
