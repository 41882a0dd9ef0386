-------------------------- MODULE SealedEnvelopeProofs --------------------------
(***************************************************************************)
(* Proofs about SealedEnvelope, for any keys, recipients, ephemerals,      *)
(* collisions of the MAC and number of slots: who a sealed record opens    *)
(* for, and what may have changed on its way when it does.                 *)
(***************************************************************************)
EXTENDS SealedEnvelope, SequenceTheorems, SetInduction

-----------------------------------------------------------------------------
(* Sequences                                                               *)

\* The sequences of bounded length are sequences.
LEMMA BoundedSeqs ==
  ASSUME NEW S, NEW n \in Nat, NEW s \in SeqsOf(S, n)
  PROVE  s \in Seq(S) /\ Len(s) \in 0..n /\ DOMAIN s = 1..Len(s)
<1>1. PICK m \in 0..n : s \in [1..m -> S]
  BY DEF SeqsOf
<1>2. QED
  BY <1>1

\* An element is put into a sequence: the others keep their order.
LEMMA WithFacts ==
  ASSUME NEW S, NEW s \in Seq(S), NEW p \in 1..(Len(s) + 1), NEW x \in S
  PROVE  /\ With(s, p, x) \in Seq(S) /\ Len(With(s, p, x)) = Len(s) + 1
         /\ \A q \in 1..(Len(s) + 1) :
              With(s, p, x)[q] = IF q < p THEN s[q] ELSE IF q = p THEN x ELSE s[q - 1]
<1> DEFINE before == SubSeq(s, 1, p - 1)
           after == SubSeq(s, p, Len(s))
<1>1. /\ before \in Seq(S) /\ Len(before) = p - 1
      /\ \A q \in 1..(p - 1) : before[q] = s[q]
  OBVIOUS
<1>2. /\ after \in Seq(S) /\ Len(after) = Len(s) - p + 1
      /\ \A q \in 1..(Len(s) - p + 1) : after[q] = s[p + q - 1]
  OBVIOUS
<1> HIDE DEF before, after
<1>3. With(s, p, x) = before \o <<x>> \o after
  BY DEF With, before, after
<1>4. /\ before \o <<x>> \in Seq(S) /\ Len(before \o <<x>>) = p
      /\ \A q \in 1..p : (before \o <<x>>)[q] = IF q < p THEN s[q] ELSE x
  BY <1>1
<1>5. PICK front : front = before \o <<x>>
  OBVIOUS
<1>6. /\ front \in Seq(S) /\ Len(front) = p
      /\ \A q \in 1..p : front[q] = IF q < p THEN s[q] ELSE x
  BY <1>4, <1>5
<1>7. front \o after \in Seq(S) /\ Len(front \o after) = Len(s) + 1
  <2>1. front \o after \in Seq(S) /\ Len(front \o after) = Len(front) + Len(after)
    BY <1>2, <1>6, ConcatProperties
  <2>2. Len(s) \in Nat /\ p \in Nat
    OBVIOUS
  <2>3. QED
    BY <1>2, <1>6, <2>1, <2>2
<1>8. \A q \in 1..(Len(s) + 1) :
        (front \o after)[q] = IF q <= p THEN front[q] ELSE after[q - p]
  <2>1. Len(front) + Len(after) = Len(s) + 1
    BY <1>2, <1>6
  <2>2. \A q \in 1..(Len(front) + Len(after)) :
          (front \o after)[q] = IF q <= Len(front) THEN front[q] ELSE after[q - Len(front)]
    BY <1>2, <1>6, ConcatProperties
  <2>3. QED
    BY <1>6, <2>1, <2>2
<1>9. QED
  BY <1>2, <1>3, <1>5, <1>6, <1>7, <1>8

\* An element is taken out of a sequence.
LEMMA WithoutFacts ==
  ASSUME NEW S, NEW s \in Seq(S), NEW p \in 1..Len(s)
  PROVE  Without(s, p) \in Seq(S)
<1>1. SubSeq(s, 1, p - 1) \in Seq(S) /\ SubSeq(s, p + 1, Len(s)) \in Seq(S)
  OBVIOUS
<1>2. QED
  BY <1>1 DEF Without

-----------------------------------------------------------------------------
(* What the checks leave                                                   *)

\* A producer's arguments that pass the checks.
LEMMA SealFacts ==
  ASSUME NEW a, SealRefusal(a) = OK
  PROVE  /\ a.kem \in KEMs /\ a.recipients # <<>> /\ a.cek \in Ceks /\ a.nonce \in Nonces
         /\ \A r \in DOMAIN a.recipients : a.recipients[r].kem = a.kem
         /\ Len(a.ephemerals) = Len(a.recipients) /\ a.hashes # NoHashes
<1> DEFINE badKem == a.kem \notin KEMs
           noRecipient == a.recipients = <<>>
           otherKem == \E r \in DOMAIN a.recipients : a.recipients[r].kem # a.kem
           otherCount == Len(a.ephemerals) # Len(a.recipients)
           badCek == a.cek \notin Ceks
           badNonce == a.nonce \notin Nonces
           noHashes == a.hashes = NoHashes
           unsound == a.kem = "mlkem768x25519" /\
                        \E r \in DOMAIN a.recipients : a.recipients[r].key \in Unsound
           checks == <<
             <<"UNSUPPORTED_KEM_ALG", badKem>>, <<"ENC_SLOTS_EMPTY", noRecipient>>,
             <<"KEM_EPK_LENGTH_MISMATCH", otherKem>>,
             <<"EPHEMERAL_SECRETS_COUNT_MISMATCH", otherCount>>,
             <<"INVALID_CEK_LENGTH", badCek>>, <<"NONCE_LENGTH_MISMATCH", badNonce>>,
             <<"ENC_REQUIRES_CONTENT_HASH", noHashes>>, <<"INVALID_RECIPIENT_KEY", unsound>> >>
<1>1. FirstFailing(checks) = OK
  BY DEF SealRefusal
<1> HIDE DEF badKem, noRecipient, otherKem, otherCount, badCek, badNonce, noHashes, unsound
<1>2. DOMAIN checks = 1..8 /\ \A c \in 1..8 : checks[c][1] # OK
  BY DEF OK
<1>3. /\ checks[1][2] = badKem /\ checks[2][2] = noRecipient /\ checks[3][2] = otherKem
      /\ checks[4][2] = otherCount /\ checks[5][2] = badCek /\ checks[6][2] = badNonce
      /\ checks[7][2] = noHashes
  OBVIOUS
<1> HIDE DEF checks
<1>4. 8 \in Nat /\ 1 \in 1..8 /\ 2 \in 1..8 /\ 3 \in 1..8 /\ 4 \in 1..8 /\ 5 \in 1..8
      /\ 6 \in 1..8 /\ 7 \in 1..8
  OBVIOUS
<1>5. \A c \in 1..8 : ~checks[c][2]
  BY <1>1, <1>2, <1>4, AllChecksPass
<1>6. ~badKem /\ ~noRecipient /\ ~otherKem /\ ~otherCount /\ ~badCek /\ ~badNonce /\ ~noHashes
  BY <1>3, <1>4, <1>5
<1>7. QED
  BY <1>6 DEF badKem, noRecipient, otherKem, otherCount, badCek, badNonce, noHashes

\* An envelope that a reader tries its keys on.
LEMMA StructureFacts ==
  ASSUME NEW e, NEW keys, StructureRefusal(e, keys) = OK
  PROVE  /\ e.scheme = 1 /\ e.aead = "stream64k" /\ e.kem \in KEMs /\ e.slots # <<>>
         /\ ~DuplicateMaterial(e.slots)
         /\ \A p \in DOMAIN keys : keys[p] \in Keys
<1> DEFINE c1 == e.scheme # 1
           c2 == e.aead # "stream64k"
           c3 == e.kem \notin KEMs
           c4 == e.slots = <<>>
           c5 == Len(e.slots) > MAX_SLOTS
           c6 == e.nonce \notin Nonces
           c7 == ~e.mac.sized
           c8 == \E p \in DOMAIN e.slots : e.slots[p].mat.kem # e.kem \/ ~e.slots[p].mat.sized
           c9 == \E p \in DOMAIN e.slots : ~e.slots[p].wrap.sized
           c10 == e.kem \in KEMs /\
                    OverheadBytes + Len(e.slots) * SlotBytes[e.kem] > MAX_DECODED_ENVELOPE_BYTES
           c11 == DuplicateMaterial(e.slots)
           c12 == \E p \in DOMAIN keys : keys[p] \notin Keys
           checks == <<
             <<"UNSUPPORTED_ENVELOPE_SCHEME", c1>>, <<"UNSUPPORTED_AEAD_ALG", c2>>,
             <<"UNSUPPORTED_KEM_ALG", c3>>, <<"ENC_SLOTS_EMPTY", c4>>, <<"ENC_SLOTS_TOO_MANY", c5>>,
             <<"NONCE_LENGTH_MISMATCH", c6>>, <<"ENC_SLOTS_MAC_INVALID_LENGTH", c7>>,
             <<"KEM_LENGTH_MISMATCH", c8>>, <<"WRAP_LENGTH_MISMATCH", c9>>,
             <<"ENC_ENVELOPE_TOO_LARGE", c10>>, <<"ENC_SLOTS_DUPLICATE_KEM_MATERIAL", c11>>,
             <<"INVALID_RECIPIENT_KEY", c12>> >>
<1>1. FirstFailing(checks) = OK
  BY DEF StructureRefusal
<1> HIDE DEF c1, c2, c3, c4, c5, c6, c7, c8, c9, c10, c11, c12
<1>2. DOMAIN checks = 1..12 /\ \A c \in 1..12 : checks[c][1] # OK
  BY DEF OK
<1>3. /\ checks[1][2] = c1 /\ checks[2][2] = c2 /\ checks[3][2] = c3 /\ checks[4][2] = c4
      /\ checks[11][2] = c11 /\ checks[12][2] = c12
  OBVIOUS
<1> HIDE DEF checks
<1>4. 12 \in Nat /\ 1 \in 1..12 /\ 2 \in 1..12 /\ 3 \in 1..12 /\ 4 \in 1..12 /\ 11 \in 1..12
      /\ 12 \in 1..12
  OBVIOUS
<1>5. \A c \in 1..12 : ~checks[c][2]
  BY <1>1, <1>2, <1>4, AllChecksPass
<1>6. ~c1 /\ ~c2 /\ ~c3 /\ ~c4 /\ ~c11 /\ ~c12
  BY <1>3, <1>4, <1>5
<1>7. QED
  BY <1>6 DEF c1, c2, c3, c4, c11, c12

-----------------------------------------------------------------------------
(* Wraps                                                                   *)

\* Any key's KEK names the slot's own material, so slots of different material
\* have different ones.
LEMMA KekOfMaterial ==
  \A kem, shared, nonce, mat, key : Kek(kem, shared, nonce, mat, key).mat = mat
BY DEF Kek

\* A slot that was wrapped for a key opens under that key and no other.
LEMMA HonestSlot ==
  ASSUME EnvelopeAssumption, NEW p, NEW key, NEW e \in Ephemerals, NEW cek,
         env.slots[p] = WrapSlot(env.kem, env.nonce, key, e, cek)
  PROVE  /\ KemOk(p) /\ env.slots[p].wrap.cek = cek
         /\ \A other : WrapOpens(other, p) <=> other = key
<1> DEFINE mat == Material(env.kem, e, key)
<1>1. /\ env.slots[p].mat = mat /\ env.slots[p].wrap.cek = cek
      /\ env.slots[p].wrap.kek = Kek(env.kem, Shared(env.kem, key, mat), env.nonce, mat, key)
  BY DEF WrapSlot
<1>2. mat.eph # LowOrder
  BY DEF Material, EnvelopeAssumption
<1>3. KemOk(p)
  BY <1>1, <1>2 DEF KemOk
<1>4. \A other : WrapOpens(other, p)
                   <=> Kek(env.kem, Shared(env.kem, key, mat), env.nonce, mat, key)
                         = Kek(env.kem, Shared(env.kem, other, mat), env.nonce, mat, other)
  BY <1>1, <1>3 DEF WrapOpens
<1> HIDE DEF mat
<1>5. \A other : Kek(env.kem, Shared(env.kem, key, mat), env.nonce, mat, key)
                   = Kek(env.kem, Shared(env.kem, other, mat), env.nonce, mat, other)
                 <=> other = key
  BY DEF Kek
<1>6. QED
  BY <1>1, <1>3, <1>4, <1>5

\* A key is accepted by a slot whose wrap it opens and whose content key gives
\* the MAC of the header as it was read.
LEMMA AcceptedFacts ==
  ASSUME NEW key, NEW p
  PROVE  /\ p \in Accepted(key) <=>
              p \in Opened(key) /\ SlotsMac(env.slots[p].wrap.cek, SlotsHash) = env.mac
         /\ p \in Opened(key) <=> p \in DOMAIN env.slots /\ KemOk(p) /\ WrapOpens(key, p)
BY DEF Accepted, Opened, SlotOk

-----------------------------------------------------------------------------
(* What was sealed                                                         *)

\* The record as it was sealed: one honest slot per recipient.
LEMMA SealedFacts ==
  ASSUME EnvelopeAssumption, IInv, Arrived
  PROVE  LET a == made.args
             slots == made.env.slots
         IN /\ a.kem \in KEMs /\ a.nonce \in Nonces /\ a.cek \in Ceks
            /\ made.env.kem = a.kem /\ made.env.nonce = a.nonce
            /\ made.env.scheme = 1 /\ made.env.aead = "stream64k"
            /\ made.env.mac = SlotsMac(a.cek, Transcript(a.kem, a.nonce, slots, a.hashes))
            /\ slots \in Seq(Slots)
            /\ \A r \in DOMAIN a.recipients :
                 /\ a.ephemerals[r] \in Ephemerals /\ a.recipients[r].key \in Keys
                 /\ Wrapped(a)[r] = WrapSlot(a.kem, a.nonce, a.recipients[r].key, a.ephemerals[r], a.cek)
            /\ \A p \in DOMAIN slots : \E r \in DOMAIN a.recipients : slots[p] = Wrapped(a)[r]
            /\ \A r \in DOMAIN a.recipients : \E p \in DOMAIN slots : slots[p] = Wrapped(a)[r]
<1> DEFINE a == made.args
           slots == made.env.slots
<1>1. /\ a.kem \in KEMs /\ a.nonce \in Nonces /\ a.cek \in Ceks
      /\ a.recipients \in Seq(Public) /\ a.ephemerals \in Seq(Ephemerals)
      /\ Len(a.ephemerals) = Len(a.recipients) /\ made.env = Envelope(a, slots)
      /\ \A p \in DOMAIN slots : \E r \in DOMAIN a.recipients : slots[p] = Wrapped(a)[r]
      /\ \A r \in DOMAIN a.recipients : \E p \in DOMAIN slots : slots[p] = Wrapped(a)[r]
  BY DEF IInv, SealedInv
<1>2. slots \in Seq(Slots)
  BY DEF IInv, TypeOK, Envelopes
<1>3. DOMAIN a.recipients = 1..Len(a.recipients) /\ DOMAIN a.ephemerals = 1..Len(a.ephemerals)
  BY <1>1
<1>4. \A r \in DOMAIN a.recipients : a.ephemerals[r] \in Ephemerals /\ a.recipients[r].key \in Keys
  <2>1. PICK n : n = Len(a.recipients)
    OBVIOUS
  <2>2. a.recipients \in [1..n -> Public] /\ a.ephemerals \in [1..n -> Ephemerals]
    BY <1>1, <1>3, <2>1
  <2> HIDE DEF a
  <2>3. QED
    BY <2>2 DEF Public
<1>5. \A r \in DOMAIN a.recipients :
        Wrapped(a)[r] = WrapSlot(a.kem, a.nonce, a.recipients[r].key, a.ephemerals[r], a.cek)
  BY DEF Wrapped
<1>6. /\ made.env.kem = a.kem /\ made.env.nonce = a.nonce
      /\ made.env.scheme = 1 /\ made.env.aead = "stream64k"
      /\ made.env.mac = SlotsMac(a.cek, Transcript(a.kem, a.nonce, slots, a.hashes))
  <2> HIDE DEF a
  <2>1. PICK s : s = slots
    OBVIOUS
  <2>2. made.env = Envelope(a, s)
    BY <1>1, <2>1
  <2>3. QED
    BY <2>1, <2>2 DEF Envelope
<1>7. QED
  BY <1>1, <1>2, <1>4, <1>5, <1>6

\* Slots like those of an honest record accept its recipients' keys alone.
LEMMA HonestRecord ==
  ASSUME EnvelopeAssumption, IInv, Arrived, changes = <<>>
  PROVE  /\ env.kem = made.args.kem /\ env.nonce = made.args.nonce
         /\ \A p \in DOMAIN env.slots : env.slots[p].wrap.cek = made.args.cek
         /\ \A key : /\ Accepted(key) = Opened(key)
                     /\ Opened(key) # {} <=> key \in Recipients
<1> DEFINE a == made.args
<1>1. /\ env = made.env /\ claim = a.hashes
  BY DEF IInv, TravelInv
<1>2. /\ env.kem = a.kem /\ env.nonce = a.nonce /\ env.mac = SlotsMac(a.cek, SlotsHash)
      /\ \A r \in DOMAIN a.recipients : a.ephemerals[r] \in Ephemerals
      /\ \A p \in DOMAIN env.slots : \E r \in DOMAIN a.recipients : env.slots[p] =
           WrapSlot(env.kem, env.nonce, a.recipients[r].key, a.ephemerals[r], a.cek)
      /\ \A r \in DOMAIN a.recipients : \E p \in DOMAIN env.slots : env.slots[p] =
           WrapSlot(env.kem, env.nonce, a.recipients[r].key, a.ephemerals[r], a.cek)
  BY <1>1, SealedFacts DEF SlotsHash
<1> HIDE DEF a
<1>3. \A p \in DOMAIN env.slots : \E r \in DOMAIN a.recipients :
        /\ KemOk(p) /\ env.slots[p].wrap.cek = a.cek
        /\ \A other : WrapOpens(other, p) <=> other = a.recipients[r].key
  <2> TAKE p \in DOMAIN env.slots
  <2>1. PICK r \in DOMAIN a.recipients : env.slots[p] =
          WrapSlot(env.kem, env.nonce, a.recipients[r].key, a.ephemerals[r], a.cek)
    BY <1>2
  <2>2. a.ephemerals[r] \in Ephemerals
    BY <1>2
  <2>3. /\ KemOk(p) /\ env.slots[p].wrap.cek = a.cek
        /\ \A other : WrapOpens(other, p) <=> other = a.recipients[r].key
    BY <2>1, <2>2, HonestSlot
  <2>4. QED
    BY <2>3
<1>4. \A r \in DOMAIN a.recipients : \E p \in DOMAIN env.slots :
        KemOk(p) /\ WrapOpens(a.recipients[r].key, p)
  BY <1>2, HonestSlot
<1>5. Recipients = {a.recipients[r].key : r \in DOMAIN a.recipients}
  BY DEF Recipients, a
<1>6. ASSUME NEW key
      PROVE  Accepted(key) = Opened(key) /\ (Opened(key) # {} <=> key \in Recipients)
  <2>1. Accepted(key) = Opened(key)
    <3>1. \A p \in DOMAIN env.slots : SlotsMac(env.slots[p].wrap.cek, SlotsHash) = env.mac
      BY <1>2, <1>3
    <3>2. \A p : p \in Accepted(key) <=> p \in Opened(key)
      BY <3>1, AcceptedFacts
    <3>3. QED
      BY <3>2
  <2>2. ASSUME NEW p \in Opened(key)
        PROVE  key \in Recipients
    BY <1>3, <1>5, <2>2, AcceptedFacts
  <2>3. ASSUME key \in Recipients
        PROVE  Opened(key) # {}
    BY <1>4, <1>5, <2>3, AcceptedFacts
  <2>4. QED
    BY <2>1, <2>2, <2>3
<1>7. QED
  BY <1>2, <1>3, <1>6 DEF a

\* A slot added by whoever knows the content key leaves the others as they are,
\* and every slot that is accepted has a content key of the same MAC.
LEMMA ExtendedRecord ==
  ASSUME EnvelopeAssumption, IInv, Arrived, changes = <<"extended">>
  PROVE  /\ env.kem = made.args.kem /\ env.nonce = made.args.nonce
         /\ body = [cek |-> made.args.cek, nonce |-> made.args.nonce, intact |-> TRUE]
         /\ \A key \in Recipients : \E p \in Accepted(key) : env.slots[p].wrap.cek = made.args.cek
         /\ \A key : \A p \in Accepted(key) :
              MacClass[env.slots[p].wrap.cek] = MacClass[made.args.cek]
<1> DEFINE a == made.args
           sent == made.env.slots
<1>1. PICK key \in Keys, e \in Ephemerals, c \in Ceks, p \in 1..(Len(sent) + 1) :
        LET slots == With(sent, p, WrapSlot(a.kem, made.env.nonce, key, e, c))
        IN env = [made.env EXCEPT !.slots = slots,
                     !.mac = SlotsMac(a.cek, Transcript(made.env.kem, made.env.nonce, slots, claim))]
  BY DEF IInv, TravelInv, OneSlotMore
<1>2. /\ claim = a.hashes
      /\ body = [cek |-> a.cek, nonce |-> a.nonce, intact |-> TRUE]
  BY DEF IInv, TravelInv
<1> DEFINE new == WrapSlot(a.kem, made.env.nonce, key, e, c)
           slots == With(sent, p, new)
<1>3. /\ made.env.kem = a.kem /\ made.env.nonce = a.nonce /\ made.env \in Envelopes
      /\ sent \in Seq(Slots)
      /\ \A r \in DOMAIN a.recipients : a.ephemerals[r] \in Ephemerals
      /\ \A r \in DOMAIN a.recipients : \E q \in DOMAIN sent : sent[q] =
           WrapSlot(a.kem, a.nonce, a.recipients[r].key, a.ephemerals[r], a.cek)
  BY SealedFacts DEF IInv, TypeOK
<1>4. /\ env.slots = slots /\ env.kem = a.kem /\ env.nonce = a.nonce
      /\ env.mac = SlotsMac(a.cek, Transcript(a.kem, a.nonce, slots, claim))
  <2> HIDE DEF a, new
  <2>1. PICK s, m : /\ s = slots
                    /\ m = SlotsMac(a.cek, Transcript(made.env.kem, made.env.nonce, s, claim))
    OBVIOUS
  <2>2. env = [made.env EXCEPT !.slots = s, !.mac = m]
    BY <1>1, <2>1 DEF new
  <2>3. env.slots = s /\ env.mac = m /\ env.kem = made.env.kem /\ env.nonce = made.env.nonce
    BY <1>3, <2>2 DEF Envelopes
  <2>4. QED
    BY <1>3, <2>1, <2>3
<1>5. env.mac = SlotsMac(a.cek, SlotsHash)
  BY <1>4 DEF SlotsHash
<1> HIDE DEF a
<1>6. \A q \in DOMAIN sent : \E n \in DOMAIN slots : slots[n] = sent[q]
  <2>1. sent \in Seq(Slots \cup {new}) /\ new \in Slots \cup {new}
    BY <1>3
  <2> HIDE DEF new
  <2>2. /\ slots \in Seq(Slots \cup {new}) /\ Len(slots) = Len(sent) + 1
        /\ \A q \in 1..(Len(sent) + 1) :
             slots[q] = IF q < p THEN sent[q] ELSE IF q = p THEN new ELSE sent[q - 1]
    <3> HIDE DEF sent
    <3>1. PICK T : T = Slots \cup {new}
      OBVIOUS
    <3>2. sent \in Seq(T) /\ new \in T
      BY <2>1, <3>1
    <3>3. /\ With(sent, p, new) \in Seq(T) /\ Len(With(sent, p, new)) = Len(sent) + 1
          /\ \A q \in 1..(Len(sent) + 1) :
               With(sent, p, new)[q] = IF q < p THEN sent[q] ELSE IF q = p THEN new ELSE sent[q - 1]
      BY <3>2, WithFacts
    <3>4. QED
      BY <3>1, <3>3
  <2> HIDE DEF slots
  <2> TAKE q \in DOMAIN sent
  <2>3. q \in 1..Len(sent) /\ Len(sent) \in Nat /\ DOMAIN slots = 1..(Len(sent) + 1)
    BY <2>1, <2>2
  <2>4. CASE q < p
    <3>1. q \in DOMAIN slots /\ slots[q] = sent[q]
      BY <2>2, <2>3, <2>4
    <3>2. QED
      BY <3>1
  <2>5. CASE q >= p
    <3>1. /\ q + 1 \in 1..(Len(sent) + 1) /\ ~(q + 1 < p) /\ q + 1 # p /\ (q + 1) - 1 = q
      BY <2>3, <2>5
    <3>2. q + 1 \in DOMAIN slots /\ slots[q + 1] = sent[q]
      BY <2>2, <2>3, <3>1
    <3>3. QED
      BY <3>2
  <2>6. QED
    BY <2>3, <2>4, <2>5
<1>7. \A r \in DOMAIN a.recipients : \E q \in DOMAIN env.slots : env.slots[q] =
        WrapSlot(env.kem, env.nonce, a.recipients[r].key, a.ephemerals[r], a.cek)
  <2> TAKE r \in DOMAIN a.recipients
  <2>1. PICK q \in DOMAIN sent : sent[q] =
          WrapSlot(a.kem, a.nonce, a.recipients[r].key, a.ephemerals[r], a.cek)
    BY <1>3 DEF a
  <2>2. PICK n \in DOMAIN slots : slots[n] = sent[q]
    BY <1>6
  <2>3. n \in DOMAIN env.slots /\ env.slots[n] = sent[q]
    BY <1>4, <2>2
  <2>4. env.slots[n] = WrapSlot(env.kem, env.nonce, a.recipients[r].key, a.ephemerals[r], a.cek)
    BY <1>4, <2>1, <2>3
  <2>5. QED
    BY <2>3, <2>4
<1>8. ASSUME NEW mine \in Recipients
      PROVE  \E q \in Accepted(mine) : env.slots[q].wrap.cek = a.cek
  <2>1. PICK r \in DOMAIN a.recipients : mine = a.recipients[r].key
    BY DEF Recipients, a
  <2>2. PICK q \in DOMAIN env.slots : env.slots[q] =
          WrapSlot(env.kem, env.nonce, mine, a.ephemerals[r], a.cek)
    BY <1>7, <2>1
  <2>3. a.ephemerals[r] \in Ephemerals
    BY <1>3 DEF a
  <2>4. KemOk(q) /\ env.slots[q].wrap.cek = a.cek /\ WrapOpens(mine, q)
    BY <2>2, <2>3, HonestSlot
  <2>5. q \in Accepted(mine)
    BY <1>5, <2>4, AcceptedFacts
  <2>6. QED
    BY <2>4, <2>5
<1>9. ASSUME NEW other, NEW q \in Accepted(other)
      PROVE  MacClass[env.slots[q].wrap.cek] = MacClass[a.cek]
  <2>1. SlotsMac(env.slots[q].wrap.cek, SlotsHash) = SlotsMac(a.cek, SlotsHash)
    BY <1>5, <1>9, AcceptedFacts
  <2>2. QED
    BY <2>1 DEF SlotsMac
<1>10. QED
  BY <1>2, <1>4, <1>8, <1>9 DEF a

-----------------------------------------------------------------------------
(* What a call that ended found                                            *)

\* The keys a call tries are those the reader holds for the record's KEM.
LEMMA MineFacts ==
  ASSUME ring \in Rings, env.kem = made.args.kem, env.kem \in KEMs
  PROVE  Mine = {Selected(ring)[p] : p \in DOMAIN Selected(ring)}
<1> DEFINE lists == [x25519 |-> ring.x25519, mlkem768x25519 |-> ring.hybrid]
<1>1. CASE ring.form # "bundle"
  BY <1>1 DEF Mine, Selected
<1>2. CASE ring.form = "bundle"
  <2>1. lists["x25519"] = ring.x25519 /\ lists["mlkem768x25519"] = ring.hybrid
    OBVIOUS
  <2> HIDE DEF lists
  <2>2. Mine = {lists[env.kem][p] : p \in DOMAIN lists[env.kem]}
    BY <1>2 DEF Mine, lists
  <2>3. lists[env.kem] = Selected(ring)
    BY <1>2, <2>1 DEF Selected, KEMs
  <2>4. QED
    BY <2>2, <2>3
<1>3. QED
  BY <1>1, <1>2

\* The keys a call tries are a sequence.
LEMMA RingFacts ==
  ASSUME NEW keys, keys \in Rings
  PROVE  /\ Selected(keys) \in Seq(Keys \cup {"short"})
         /\ Len(Selected(keys)) \in Nat /\ DOMAIN Selected(keys) = 1..Len(Selected(keys))
<1> DEFINE S == Keys \cup {"short"}
<1>1. \A list \in Some : list \in Seq(S)
  <2>1. <<>> \in Seq(S)
    OBVIOUS
  <2>2. \A key \in Keys : <<key>> \in Seq(S)
    OBVIOUS
  <2>3. QED
    BY <2>1, <2>2 DEF Some
<1>2. \A list \in SeqsOf(Keys \cup {"short"}, 2) : list \in Seq(S)
  BY BoundedSeqs
<1>3. <<>> \in Seq(S)
  OBVIOUS
<1>4. \/ keys \in [form : {"single"}, list : Some \ {<<>>}]
      \/ keys \in [form : {"flat"}, list : SeqsOf(Keys \cup {"short"}, 2)]
      \/ keys \in [form : {"bundle"}, x25519 : Some, hybrid : Some]
      \/ keys = [form |-> "several", list |-> <<>>]
  BY DEF Rings
<1>5. Selected(keys) \in Seq(S)
  <2> HIDE DEF S
  <2>1. CASE keys \in [form : {"single"}, list : Some \ {<<>>}]
    BY <1>1, <2>1 DEF Selected
  <2>2. CASE keys \in [form : {"flat"}, list : SeqsOf(Keys \cup {"short"}, 2)]
    BY <1>2, <2>2 DEF Selected
  <2>3. CASE keys \in [form : {"bundle"}, x25519 : Some, hybrid : Some]
    BY <1>1, <2>3 DEF Selected
  <2>4. CASE keys = [form |-> "several", list |-> <<>>]
    BY <1>3, <2>4 DEF Selected
  <2>5. QED
    BY <1>4, <2>1, <2>2, <2>3, <2>4
<1>6. QED
  BY <1>5

\* A call that ended by itself found nothing to try, or went over the slots with
\* some key and matched, contradicted itself or found nothing.
LEMMA EndedFacts ==
  ASSUME IInv, Done
  PROVE  /\ Arrived /\ api \in {"unwrap", "trial", "stream"} /\ Ended
         /\ env.slots \in Seq(Slots)
         /\ result.kind = "match" =>
              /\ Reading /\ ScanInv /\ i = Len(env.slots) + 1 /\ ~scan.conflict /\ scan.found
              /\ api = "trial" \/ BodyOpens
              /\ result = Matched(scan.cek, scan.slot)
         /\ \A key : /\ Accepted(key) \cap 1..Len(env.slots) = Accepted(key)
                     /\ Opened(key) \cap 1..Len(env.slots) = Opened(key)
<1>1. Arrived /\ api \in {"unwrap", "trial", "stream"} /\ Ended /\ env.slots \in Seq(Slots)
  BY DEF IInv, TypeOK, ReadInv, Done, Arrived, Envelopes
<1>2. \A reason : HeaderFailure(reason).kind = "nomatch"
  BY <1>1 DEF HeaderFailure, Returned
<1>3. \A kind, reason : Returned(kind, reason).kind = kind
  BY DEF Returned
<1>4. result.kind = "match" =>
        /\ Reading /\ ScanInv /\ i = Len(env.slots) + 1 /\ ~scan.conflict /\ scan.found
        /\ api = "trial" \/ BodyOpens
        /\ result = Matched(scan.cek, scan.slot)
  BY <1>1, <1>2, <1>3 DEF Ended
<1>5. ASSUME NEW key
      PROVE  /\ Accepted(key) \cap 1..Len(env.slots) = Accepted(key)
             /\ Opened(key) \cap 1..Len(env.slots) = Opened(key)
  <2>1. DOMAIN env.slots = 1..Len(env.slots)
    BY <1>1
  <2>2. QED
    BY <2>1 DEF Accepted, Opened
<1>6. QED
  BY <1>1, <1>4, <1>5

-----------------------------------------------------------------------------
(* The properties follow from the invariant                                *)

LEMMA ScanSelectsTheFirst ==
  ASSUME IInv
  PROVE  SelectsTheFirst
BY DEF IInv, ReadInv, ScanInv, SelectsTheFirst

\* Slots of different material have different KEKs, and a sealed envelope, like
\* one that a reader accepts, has no two of the same.
LEMMA KeksDiffer ==
  ASSUME EnvelopeAssumption, IInv
  PROVE  KeksAreUnique
<1> DEFINE Derived(key, p) ==
      Kek(env.kem, Shared(env.kem, key, env.slots[p].mat), env.nonce, env.slots[p].mat, key)
<1>1. ASSUME changes = <<>>, NEW p \in DOMAIN env.slots, NEW q \in DOMAIN env.slots, p # q
      PROVE  env.slots[p].wrap.kek # env.slots[q].wrap.kek
  <2>1. Arrived
    <3>1. env.slots = <<>> => DOMAIN env.slots = {}
      OBVIOUS
    <3>2. QED
      BY <1>1, <3>1 DEF IInv, TravelInv
  <2>2. env = made.env /\ ~DuplicateMaterial(env.slots)
    BY <1>1, <2>1 DEF IInv, TravelInv, SealedInv
  <2>3. \A n \in DOMAIN env.slots : env.slots[n].wrap.kek.mat = env.slots[n].mat
    <3>1. \A n \in DOMAIN made.env.slots : \E r \in DOMAIN made.args.recipients :
            LET a == made.args IN made.env.slots[n] =
              WrapSlot(a.kem, a.nonce, a.recipients[r].key, a.ephemerals[r], a.cek)
      BY <2>1, SealedFacts
    <3>2. \A kem, nonce, key, e, cek :
            WrapSlot(kem, nonce, key, e, cek).wrap.kek.mat = WrapSlot(kem, nonce, key, e, cek).mat
      BY DEF WrapSlot, Kek
    <3>3. QED
      BY <2>2, <3>1, <3>2
  <2>4. env.slots[p].mat # env.slots[q].mat
    BY <1>1, <2>2 DEF DuplicateMaterial
  <2>5. QED
    BY <1>1, <2>3, <2>4
<1>2. ASSUME pc = "scanning", NEW p \in DOMAIN env.slots, NEW q \in DOMAIN env.slots, p # q
      PROVE  Derived(privs[k], p) # Derived(privs[k], q)
  <2>1. ~DuplicateMaterial(env.slots)
    BY <1>2, StructureFacts DEF IInv, ReadInv, Reading
  <2>2. env.slots[p].mat # env.slots[q].mat
    BY <1>2, <2>1 DEF DuplicateMaterial
  <2>3. /\ Derived(privs[k], p).mat = env.slots[p].mat
        /\ Derived(privs[k], q).mat = env.slots[q].mat
    BY KekOfMaterial
  <2>4. QED
    BY <2>2, <2>3
<1>3. QED
  BY <1>1, <1>2 DEF KeksAreUnique

\* An accepted slot's MAC is over the header as it was read; without the content
\* key that is the header as it was sealed, for a MAC over no slots accepts none.
LEMMA HeaderIsBound ==
  ASSUME EnvelopeAssumption, IInv
  PROVE  HeaderBound
<1>1. SUFFICES ASSUME Done, result.kind = "match", \A c \in DOMAIN changes : changes[c] # "extended"
               PROVE  env = made.env /\ claim = made.args.hashes
  BY DEF HeaderBound
<1> DEFINE a == made.args
<1>2. /\ Arrived /\ Reading /\ ScanInv /\ scan.found
      /\ env \in Envelopes /\ made.env \in Envelopes
  BY <1>1, EndedFacts DEF IInv, TypeOK
<1>3. scan.slot \in Accepted(privs[k])
  BY <1>2 DEF ScanInv
<1>4. PICK p \in DOMAIN env.slots : SlotsMac(env.slots[p].wrap.cek, SlotsHash) = env.mac
  BY <1>3, AcceptedFacts
<1>5. /\ env.mac.over = Transcript(env.kem, env.nonce, env.slots, claim)
      /\ env.mac.sized = TRUE
  BY <1>4 DEF SlotsMac, SlotsHash
<1>6. env.slots # <<>>
  <2>1. DOMAIN <<>> = {}
    OBVIOUS
  <2>2. QED
    BY <1>4, <2>1
<1>7. /\ env.mac.class = made.env.mac.class
      /\ env.mac.over = made.env.mac.over
  <2>1. env.mac.over.slots = env.slots
    BY <1>5 DEF Transcript
  <2>2. QED
    BY <1>1, <1>2, <1>6, <2>1 DEF IInv, TravelInv
<1>8. /\ made.env.mac = SlotsMac(a.cek, Transcript(a.kem, a.nonce, made.env.slots, a.hashes))
      /\ made.env.kem = a.kem /\ made.env.nonce = a.nonce
      /\ made.env.scheme = 1 /\ made.env.aead = "stream64k"
  BY <1>2, SealedFacts
<1> HIDE DEF a
<1>9. /\ made.env.mac.over = Transcript(a.kem, a.nonce, made.env.slots, a.hashes)
      /\ made.env.mac.sized = TRUE
  BY <1>8 DEF SlotsMac
<1>10. env.kem = a.kem /\ env.nonce = a.nonce /\ env.slots = made.env.slots /\ claim = a.hashes
  BY <1>5, <1>7, <1>9 DEF Transcript
<1>11. env.scheme = 1 /\ env.aead = "stream64k"
  BY <1>2, StructureFacts DEF Reading
<1>12. env.mac = made.env.mac
  <2>1. env.mac \in Macs /\ made.env.mac \in Macs
    BY <1>2 DEF Envelopes
  <2>2. QED
    BY <1>5, <1>7, <1>9, <2>1 DEF Macs
<1>13. env = made.env
  BY <1>2, <1>8, <1>10, <1>11, <1>12 DEF Envelopes
<1>14. QED
  BY <1>10, <1>13 DEF a

\* A record that arrives as it was sealed: the first of the reader's keys that
\* is a recipient's is accepted by its slot and by no other.
LEMMA RecipientsOpen ==
  ASSUME EnvelopeAssumption, IInv
  PROVE  OpensForItsRecipients
<1>1. SUFFICES ASSUME Done, changes = <<>>
               PROVE  /\ result.kind = "match" <=> Mine \cap Recipients # {}
                      /\ result.kind = "match" => result.cek = made.args.cek
                      /\ result.kind = "nomatch" /\ api # "trial" => result.reason = "WRONG_RECIPIENT_KEY"
  BY DEF OpensForItsRecipients
<1> DEFINE cek == made.args.cek
<1>2. /\ Arrived /\ api \in {"unwrap", "trial", "stream"} /\ Ended /\ env.slots \in Seq(Slots)
      /\ \A key : Accepted(key) \cap 1..Len(env.slots) = Accepted(key)
  BY <1>1, EndedFacts
<1>3. /\ env.kem = made.args.kem /\ env.nonce = made.args.nonce
      /\ \A p \in DOMAIN env.slots : env.slots[p].wrap.cek = cek
      /\ \A key : Accepted(key) = Opened(key) /\ (Opened(key) # {} <=> key \in Recipients)
  BY <1>1, <1>2, HonestRecord
<1>4. body = [cek |-> cek, nonce |-> made.args.nonce, intact |-> TRUE] /\ made.args.kem \in KEMs
  BY <1>1, <1>2, SealedFacts DEF IInv, TravelInv
<1>5. ring \in Rings
  BY <1>2 DEF Ended, Reading
<1>6. Mine = {Selected(ring)[p] : p \in DOMAIN Selected(ring)} /\ DOMAIN Selected(ring) = 1..Len(Selected(ring))
      /\ Len(Selected(ring)) \in Nat
  BY <1>3, <1>4, <1>5, MineFacts, RingFacts
<1> HIDE DEF cek
<1>7. /\ \A kind, reason : /\ Returned(kind, reason).kind = kind
                           /\ Returned(kind, reason).reason = reason
      /\ \A c, slot : Matched(c, slot).kind = "match" /\ Matched(c, slot).cek = c
  BY DEF Returned, Matched
<1>8. CASE Selected(ring) = <<>> /\ result = Returned("nomatch", "WRONG_RECIPIENT_KEY")
  <2>1. Mine = {}
    <3>1. DOMAIN <<>> = {}
      OBVIOUS
    <3>2. QED
      BY <1>6, <1>8, <3>1
  <2>2. QED
    BY <1>7, <1>8, <2>1
<1>9. ASSUME Reading, ScanInv, i = Len(env.slots) + 1
      PROVE  /\ ~scan.conflict
             /\ scan.found => /\ scan.cek = cek /\ BodyOpens /\ Mine \cap Recipients # {}
             /\ ~scan.found /\ k = Len(privs) => Mine \cap Recipients = {}
  <2>1. /\ privs = Selected(ring) /\ k \in 1..Len(privs)
        /\ \A b \in 1..(k - 1) : Accepted(privs[b]) = {}
    BY <1>9 DEF Reading
  <2>2. Accepted(privs[k]) \cap 1..(i - 1) = Accepted(privs[k])
    <3>1. i - 1 = Len(env.slots)
      BY <1>2, <1>9
    <3>2. QED
      BY <1>2, <3>1
  <2>3. /\ scan.found <=> Accepted(privs[k]) # {}
        /\ scan.found => scan.slot \in Accepted(privs[k]) /\ scan.cek = env.slots[scan.slot].wrap.cek
        /\ scan.conflict <=>
             \E p, q \in Accepted(privs[k]) : env.slots[p].wrap.cek # env.slots[q].wrap.cek
    BY <1>9, <2>2 DEF ScanInv
  <2>4. \A p \in Accepted(privs[k]) : env.slots[p].wrap.cek = cek
    BY <1>3 DEF Accepted
  <2>5. ~scan.conflict
    BY <2>3, <2>4
  <2>6. ASSUME scan.found
        PROVE  scan.cek = cek /\ BodyOpens /\ Mine \cap Recipients # {}
    <3>1. scan.cek = cek
      BY <2>3, <2>4, <2>6
    <3>2. BodyOpens
      BY <1>3, <1>4, <3>1 DEF BodyOpens
    <3>3. privs[k] \in Mine
      BY <1>6, <2>1
    <3>4. privs[k] \in Recipients
      BY <1>3, <2>3, <2>6
    <3>5. QED
      BY <3>1, <3>2, <3>3, <3>4
  <2>7. ASSUME ~scan.found, k = Len(privs)
        PROVE  Mine \cap Recipients = {}
    <3>1. ASSUME NEW b \in 1..Len(privs)
          PROVE  privs[b] \notin Recipients
      <4>1. Accepted(privs[b]) = {}
        <5>1. b \in 1..(k - 1) \/ b = k
          BY <2>1, <2>7, <3>1
        <5>2. QED
          BY <2>1, <2>3, <2>7, <5>1
      <4>2. QED
        BY <1>3, <4>1
    <3>2. QED
      BY <1>6, <2>1, <3>1
  <2>8. QED
    BY <2>5, <2>6, <2>7
<1>10. CASE /\ Reading /\ ScanInv /\ i = Len(env.slots) + 1
            /\ ~scan.conflict /\ scan.found
            /\ \/ (api = "trial" \/ BodyOpens) /\ result = Matched(scan.cek, scan.slot)
               \/ api # "trial" /\ ~BodyOpens /\ result = Returned("nomatch", "TAMPERED_CIPHERTEXT")
  BY <1>7, <1>9, <1>10 DEF cek
<1>11. CASE /\ Reading /\ ScanInv /\ i = Len(env.slots) + 1
            /\ ~scan.conflict /\ ~scan.found /\ k = Len(privs)
            /\ result = HeaderFailure(IF opened THEN "TAMPERED_HEADER" ELSE "WRONG_RECIPIENT_KEY")
            /\ opened <=> \E b \in 1..k : Opened(privs[b]) # {}
  <2>1. Mine \cap Recipients = {}
    BY <1>9, <1>11
  <2>2. privs = Selected(ring)
    BY <1>11 DEF Reading
  <2>3. ~opened
    BY <1>3, <1>6, <1>11, <2>1, <2>2
  <2>4. result = HeaderFailure("WRONG_RECIPIENT_KEY")
    BY <1>11, <2>3
  <2>5. result.kind = "nomatch" /\ (api # "trial" => result.reason = "WRONG_RECIPIENT_KEY")
    BY <1>2, <1>7, <2>4 DEF HeaderFailure
  <2>6. QED
    BY <2>1, <2>5
<1>12. QED
  BY <1>2, <1>8, <1>9, <1>10, <1>11 DEF Ended

\* The added slot: with another MAC it is accepted for nobody, with the same it
\* contradicts an honest slot or stands alone.
LEMMA ShadowsAreInert ==
  ASSUME EnvelopeAssumption, IInv
  PROVE  ShadowSlotsAreInert
<1> DEFINE cek == made.args.cek
           Collides(c) == c # cek /\ MacClass[c] = MacClass[cek]
           collision == \E p \in DOMAIN env.slots : Collides(env.slots[p].wrap.cek)
<1>1. SUFFICES ASSUME Done, changes = <<"extended">>
               PROVE  /\ ~collision /\ Mine \cap Recipients # {} => result.kind = "match"
                      /\ result.kind = "match" =>
                           \A p \in Accepted(privs[k]) : env.slots[p].wrap.cek = result.cek
                      /\ result.kind = "match" /\ ~(collision /\ api = "trial") => result.cek = cek
  BY DEF ShadowSlotsAreInert
<1>2. /\ Arrived /\ api \in {"unwrap", "trial", "stream"} /\ Ended /\ env.slots \in Seq(Slots)
      /\ \A key : Accepted(key) \cap 1..Len(env.slots) = Accepted(key)
      /\ result.kind = "match" =>
           /\ Reading /\ ScanInv /\ i = Len(env.slots) + 1 /\ ~scan.conflict /\ scan.found
           /\ api = "trial" \/ BodyOpens
           /\ result = Matched(scan.cek, scan.slot)
  BY <1>1, EndedFacts
<1>3. /\ env.kem = made.args.kem /\ env.nonce = made.args.nonce
      /\ body = [cek |-> cek, nonce |-> made.args.nonce, intact |-> TRUE]
      /\ \A key \in Recipients : \E p \in Accepted(key) : env.slots[p].wrap.cek = cek
      /\ \A key : \A p \in Accepted(key) : MacClass[env.slots[p].wrap.cek] = MacClass[cek]
  BY <1>1, <1>2, ExtendedRecord
<1>4. made.args.kem \in KEMs
  BY <1>2, SealedFacts
<1> HIDE DEF cek
<1>5. ASSUME Reading, ScanInv, i = Len(env.slots) + 1
      PROVE  /\ scan.found <=> Accepted(privs[k]) # {}
             /\ scan.found => scan.slot \in Accepted(privs[k]) /\ scan.cek = env.slots[scan.slot].wrap.cek
             /\ scan.conflict <=>
                  \E p, q \in Accepted(privs[k]) : env.slots[p].wrap.cek # env.slots[q].wrap.cek
  <2>1. i - 1 = Len(env.slots)
    BY <1>2, <1>5
  <2>2. Accepted(privs[k]) \cap 1..(i - 1) = Accepted(privs[k])
    BY <1>2, <2>1
  <2>3. QED
    BY <1>5, <2>2 DEF ScanInv
<1>6. ASSUME ~collision, NEW key, NEW p \in Accepted(key)
      PROVE  env.slots[p].wrap.cek = cek
  BY <1>3, <1>6 DEF Accepted
<1> HIDE DEF collision
<1>7. \A c, slot : Matched(c, slot).kind = "match" /\ Matched(c, slot).cek = c
  BY DEF Matched
<1>8. ASSUME result.kind = "match"
      PROVE  /\ \A p \in Accepted(privs[k]) : env.slots[p].wrap.cek = result.cek
             /\ ~(collision /\ api = "trial") => result.cek = cek
  <2>1. /\ result.cek = scan.cek /\ ~scan.conflict /\ scan.found
        /\ scan.slot \in Accepted(privs[k]) /\ scan.cek = env.slots[scan.slot].wrap.cek
    BY <1>2, <1>5, <1>7, <1>8
  <2>2. \A p \in Accepted(privs[k]) : env.slots[p].wrap.cek = result.cek
    BY <1>2, <1>5, <1>8, <2>1
  <2>3. CASE ~collision
    BY <1>6, <2>1, <2>2, <2>3
  <2>4. CASE api # "trial"
    <3>1. body.cek = scan.cek
      BY <1>2, <1>8, <2>4 DEF BodyOpens
    <3>2. QED
      BY <1>3, <2>1, <2>2, <3>1
  <2>5. QED
    BY <2>2, <2>3, <2>4
<1>9. ASSUME ~collision, Mine \cap Recipients # {}
      PROVE  result.kind = "match"
  <2>1. ring \in Rings
    BY <1>2 DEF Ended, Reading
  <2>2. /\ Mine = {Selected(ring)[p] : p \in DOMAIN Selected(ring)}
        /\ DOMAIN Selected(ring) = 1..Len(Selected(ring)) /\ Len(Selected(ring)) \in Nat
    BY <1>3, <1>4, <2>1, MineFacts, RingFacts
  <2>3. PICK n \in 1..Len(Selected(ring)) : Selected(ring)[n] \in Recipients
    BY <1>9, <2>2
  <2>4. Selected(ring) # <<>>
    <3>1. DOMAIN <<>> = {}
      OBVIOUS
    <3>2. QED
      BY <2>2, <2>3, <3>1
  <2>5. /\ Reading /\ ScanInv /\ i = Len(env.slots) + 1
        /\ \/ scan.conflict
           \/ /\ ~scan.conflict /\ scan.found
              /\ (api = "trial" \/ BodyOpens) => result = Matched(scan.cek, scan.slot)
           \/ ~scan.conflict /\ ~scan.found /\ k = Len(privs)
    BY <1>2, <2>4 DEF Ended
  <2>6. privs = Selected(ring) /\ k \in 1..Len(privs) /\ \A b \in 1..(k - 1) : Accepted(privs[b]) = {}
    BY <2>5 DEF Reading
  <2>7. ~scan.conflict
    BY <1>5, <1>6, <1>9, <2>5
  <2>8. scan.found
    <3>1. Accepted(privs[n]) # {}
      BY <1>3, <2>3, <2>6
    <3>2. ASSUME ~scan.found, k = Len(privs)
          PROVE  FALSE
      <4>1. PICK m \in Nat : m = Len(Selected(ring))
        BY <2>2
      <4>2. n \in 1..m /\ k = m
        BY <2>3, <2>6, <3>2, <4>1
      <4>3. n \in 1..(k - 1) \/ n = k
        BY <4>1, <4>2
      <4>4. QED
        BY <1>5, <2>5, <2>6, <3>1, <3>2, <4>3
    <3>3. QED
      BY <2>5, <2>7, <3>2
  <2>9. BodyOpens
    <3>1. scan.cek = cek
      BY <1>5, <1>6, <1>9, <2>5, <2>8
    <3>2. QED
      BY <1>3, <3>1 DEF BodyOpens
  <2>10. QED
    BY <1>7, <2>5, <2>7, <2>8, <2>9
<1>10. QED
  BY <1>8, <1>9

-----------------------------------------------------------------------------
(* The invariant is inductive: sealing                                     *)

LEMMA InitIInv ==
  ASSUME Init
  PROVE  IInv
<1>1. <<>> \in Seq({"altered", "extended"}) /\ Nothing.slots = <<>>
  BY DEF Nothing
<1>2. TypeOK /\ SealedInv /\ TravelInv /\ ReadInv
  BY <1>1 DEF Init, TypeOK, SealedInv, TravelInv, ReadInv, Arrived
<1>3. QED
  BY <1>2 DEF IInv

\* A slot that wraps a content key for a key has a slot's type.
LEMMA WrapSlotType ==
  ASSUME NEW kem \in KEMs, NEW nonce \in Nonces \cup {"short"}, NEW key \in Keys,
         NEW e \in Ephemerals, NEW cek \in Ceks
  PROVE  WrapSlot(kem, nonce, key, e, cek) \in Slots
<1> DEFINE mat == Material(kem, e, key)
<1>1. mat \in Mats
  BY DEF Material, Mats, KEMs
<1>2. Shared(kem, key, mat) \in Secrets
  BY DEF Shared, Material, Secrets
<1> HIDE DEF mat
<1>3. [kek |-> Kek(kem, Shared(kem, key, mat), nonce, mat, key), cek |-> cek, sized |-> TRUE] \in Wraps
  BY <1>1, <1>2 DEF Kek, Wraps
<1>4. QED
  BY <1>1, <1>3 DEF WrapSlot, Slots, mat

\* A shuffle of a list of slots is a list of the same slots, each once.
LEMMA ShuffleFacts ==
  ASSUME NEW n \in Nat, NEW slots \in [1..n -> Slots], NEW order \in Shuffles(slots),
         ~DuplicateMaterial(slots)
  PROVE  /\ order \in Seq(Slots) /\ DOMAIN order = 1..n /\ ~DuplicateMaterial(order)
         /\ \A p \in 1..n : \E r \in 1..n : order[p] = slots[r]
         /\ \A r \in 1..n : \E p \in 1..n : order[p] = slots[r]
<1>1. PICK f \in [1..n -> 1..n] : /\ \A a, b \in 1..n : a # b => f[a] # f[b]
                                  /\ order = [r \in 1..n |-> slots[f[r]]]
  <2>1. PICK D : D = DOMAIN slots
    OBVIOUS
  <2>2. order \in {[r \in D |-> slots[p[r]]] :
                     p \in {f \in [D -> D] : \A a, b \in D : a # b => f[a] # f[b]}}
    BY <2>1 DEF Shuffles
  <2>3. D = 1..n
    BY <2>1
  <2>4. \E f \in [D -> D] : /\ \A a, b \in D : a # b => f[a] # f[b]
                           /\ order = [r \in D |-> slots[f[r]]]
    BY <2>2
  <2>5. QED
    BY <2>3, <2>4
<1>2. order \in [1..n -> Slots] /\ \A p \in 1..n : order[p] = slots[f[p]]
  BY <1>1
<1>3. f \in Injection(1..n, 1..n)
  BY <1>1 DEF Injection, IsInjective
<1>4. IsFiniteSet(1..n)
  BY FS_Interval
<1>5. f \in Surjection(1..n, 1..n)
  BY <1>3, <1>4, FS_Injection
<1>6. \A r \in 1..n : \E p \in 1..n : f[p] = r
  BY <1>5 DEF Surjection
<1>7. \A r \in 1..n : \E p \in 1..n : order[p] = slots[r]
  <2> TAKE r \in 1..n
  <2>1. PICK p \in 1..n : f[p] = r
    BY <1>6
  <2>2. QED
    BY <1>2, <2>1
<1>8. ~DuplicateMaterial(order)
  <2>1. SUFFICES ASSUME NEW a \in 1..n, NEW b \in 1..n, a # b, order[a].mat = order[b].mat
                 PROVE  FALSE
    BY <1>2 DEF DuplicateMaterial
  <2>2. f[a] \in 1..n /\ f[b] \in 1..n /\ f[a] # f[b] /\ slots[f[a]].mat = slots[f[b]].mat
    BY <1>1, <1>2, <2>1
  <2>3. QED
    BY <2>2 DEF DuplicateMaterial
<1>9. \A p \in 1..n : \E r \in 1..n : order[p] = slots[r]
  BY <1>1, <1>2
<1>10. order \in Seq(Slots) /\ DOMAIN order = 1..n
  BY <1>2
<1>11. QED
  BY <1>7, <1>8, <1>9, <1>10

\* The parts of an envelope that was put together from slots.
LEMMA EnvelopeType ==
  ASSUME EnvelopeAssumption, NEW a, a.kem \in KEMs, a.nonce \in Nonces, a.cek \in Ceks,
         a.hashes \in Hashes, NEW slots \in Seq(Slots)
  PROVE  Envelope(a, slots) \in Envelopes /\ Envelope(a, slots).slots = slots
<1> DEFINE over == Transcript(a.kem, a.nonce, slots, a.hashes)
<1>1. over \in Transcripts
  BY DEF Transcript, Transcripts
<1> HIDE DEF over
<1>2. SlotsMac(a.cek, over) \in Macs
  BY <1>1 DEF SlotsMac, Macs
<1>3. QED
  BY <1>2 DEF Envelope, Envelopes, over

LEMMA SealKeepsIInv ==
  ASSUME EnvelopeAssumption, IInv, NEW a \in SealArgs, Seal(a)
  PROVE  IInv'
<1>1. /\ pc = "choosing" /\ api = "none" /\ ~Arrived /\ env.slots = <<>> /\ changes = <<>>
      /\ UNCHANGED <<changes, api, ring, privs, k, i, scan, opened>>
  BY DEF IInv, TypeOK, TravelInv, Seal, Arrived, readVars
<1>2. changes \in Seq({"altered", "extended"})
  BY DEF IInv, TypeOK
<1>3. CASE pc' = "done" /\ env' = env
  <2>1. ~Arrived'
    BY <1>1, <1>3 DEF Arrived
  <2>2. TypeOK' /\ SealedInv' /\ TravelInv' /\ ReadInv'
    BY <1>1, <1>2, <1>3, <2>1 DEF TypeOK, SealedInv, TravelInv, ReadInv
  <2>3. QED
    BY <2>2 DEF IInv
<1>4. CASE /\ SealRefusal(a) = OK /\ ~DuplicateMaterial(Wrapped(a))
           /\ \E order \in Shuffles(Wrapped(a)) : env' = Envelope(a, order)
           /\ made' = [env |-> env', args |-> a] /\ claim' = a.hashes
           /\ body' = [cek |-> a.cek, nonce |-> a.nonce, intact |-> TRUE]
           /\ pc' = "sealed"
  <2>1. PICK order \in Shuffles(Wrapped(a)) : env' = Envelope(a, order)
    BY <1>4
  <2>2. /\ a.kem \in KEMs /\ a.nonce \in Nonces /\ a.cek \in Ceks
        /\ Len(a.ephemerals) = Len(a.recipients)
    BY <1>4, SealFacts
  <2>3. a.hashes \in Hashes
    BY DEF SealArgs, EnvelopeAssumption
  <2>4. a.recipients \in SeqsOf(Public, MaxRecipients) /\ a.ephemerals \in SeqsOf(Ephemerals, MaxRecipients)
    BY DEF SealArgs
  <2>5. PICK n \in Nat : /\ n = Len(a.recipients)
                         /\ a.recipients \in [1..n -> Public] /\ a.ephemerals \in [1..n -> Ephemerals]
    <3>1. /\ a.recipients \in Seq(Public) /\ Len(a.recipients) \in Nat
          /\ DOMAIN a.recipients = 1..Len(a.recipients)
      BY <2>4, BoundedSeqs DEF EnvelopeAssumption
    <3>2. /\ a.ephemerals \in Seq(Ephemerals) /\ DOMAIN a.ephemerals = 1..Len(a.ephemerals)
      BY <2>4, BoundedSeqs DEF EnvelopeAssumption
    <3>3. QED
      BY <2>2, <3>1, <3>2
  <2>6. DOMAIN a.recipients = 1..n
    BY <2>5
  <2>7. Wrapped(a) \in [1..n -> Slots]
    <3>1. \A r \in 1..n : a.recipients[r].key \in Keys /\ a.ephemerals[r] \in Ephemerals
      BY <2>5 DEF Public
    <3>2. \A r \in 1..n :
            WrapSlot(a.kem, a.nonce, a.recipients[r].key, a.ephemerals[r], a.cek) \in Slots
      BY <2>2, <3>1, WrapSlotType
    <3>3. QED
      BY <2>6, <3>2 DEF Wrapped
  <2>8. /\ order \in Seq(Slots) /\ DOMAIN order = 1..n /\ ~DuplicateMaterial(order)
        /\ \A p \in 1..n : \E r \in 1..n : order[p] = Wrapped(a)[r]
        /\ \A r \in 1..n : \E p \in 1..n : order[p] = Wrapped(a)[r]
    BY <1>4, <2>1, <2>7, ShuffleFacts
  <2>9. env' \in Envelopes /\ env'.slots = order
    BY <2>1, <2>2, <2>3, <2>8, EnvelopeType
  <2>10. made'.env = env' /\ made'.args = a
    BY <1>4
  <2>11. TypeOK'
    BY <1>1, <1>2, <1>4, <2>3, <2>9, <2>10 DEF TypeOK
  <2>12. SealedInv'
    <3>1. /\ made'.env = Envelope(a, made'.env.slots) /\ ~DuplicateMaterial(made'.env.slots)
          /\ \A p \in DOMAIN made'.env.slots : \E r \in DOMAIN a.recipients :
               made'.env.slots[p] = Wrapped(a)[r]
          /\ \A r \in DOMAIN a.recipients : \E p \in DOMAIN made'.env.slots :
               made'.env.slots[p] = Wrapped(a)[r]
      <4>1. made'.env.slots = order
        BY <2>9, <2>10
      <4>2. made'.env = Envelope(a, order)
        BY <2>1, <2>10
      <4>3. PICK w, D : w = Wrapped(a) /\ D = DOMAIN a.recipients
        OBVIOUS
      <4>4. /\ \A p \in DOMAIN order : \E r \in D : order[p] = w[r]
            /\ \A r \in D : \E p \in DOMAIN order : order[p] = w[r]
        BY <2>6, <2>8, <4>3
      <4>5. QED
        BY <1>4, <2>8, <4>1, <4>2, <4>3, <4>4
    <3>2. a.recipients \in Seq(Public) /\ a.ephemerals \in Seq(Ephemerals)
      BY <2>5
    <3>3. QED
      BY <2>2, <2>10, <3>1, <3>2 DEF SealedInv
  <2>13. TravelInv'
    <3>1. Arrived'
      BY <1>4 DEF Arrived
    <3>2. changes' = <<>> /\ changes' # <<"extended">>
      BY <1>1
    <3>3. QED
      BY <1>4, <2>10, <3>1, <3>2 DEF TravelInv
  <2>14. ReadInv'
    BY <1>4 DEF ReadInv
  <2>15. QED
    BY <2>11, <2>12, <2>13, <2>14 DEF IInv
<1>5. QED
  BY <1>3, <1>4 DEF Seal

-----------------------------------------------------------------------------
(* The invariant is inductive: on the way                                  *)

\* One more change at the end of the changes.
LEMMA ChangesFacts ==
  ASSUME NEW s \in Seq({"altered", "extended"}), NEW x \in {"altered", "extended"}
  PROVE  /\ Append(s, x) \in Seq({"altered", "extended"}) /\ Append(s, x) # <<>>
         /\ Append(s, x) = <<"extended">> => s = <<>> /\ x = "extended"
         /\ (\A c \in DOMAIN Append(s, x) : Append(s, x)[c] # "extended") =>
              x # "extended" /\ \A c \in DOMAIN s : s[c] # "extended"
<1>1. /\ Append(s, x) \in Seq({"altered", "extended"}) /\ Len(Append(s, x)) = Len(s) + 1
      /\ Append(s, x)[Len(s) + 1] = x /\ \A c \in 1..Len(s) : Append(s, x)[c] = s[c]
  OBVIOUS
<1>2. Append(s, x) # <<>>
  BY <1>1
<1>3. ASSUME Append(s, x) = <<"extended">>
      PROVE  s = <<>> /\ x = "extended"
  <2>1. Len(s) = 0
    BY <1>1, <1>3
  <2>2. QED
    BY <1>1, <1>3, <2>1
<1>4. DOMAIN s = 1..Len(s) /\ DOMAIN Append(s, x) = 1..(Len(s) + 1) /\ Len(s) \in Nat
  BY <1>1
<1>5. QED
  BY <1>1, <1>2, <1>3, <1>4

\* Whatever every alteration of a list of slots is in, its alterations are in.
LEMMA AlterationsOfSlots ==
  ASSUME NEW slots, NEW S,
         \A p \in 1..Len(slots) : Without(slots, p) \in S,
         \A p \in 1..(Len(slots) + 1), q \in 1..Len(slots) : With(slots, p, slots[q]) \in S,
         \A p, q \in 1..Len(slots) : [slots EXCEPT ![p] = slots[q], ![q] = slots[p]] \in S,
         \A p \in 1..Len(slots) : [slots EXCEPT ![p].mat.sized = FALSE] \in S,
         \A p \in 1..Len(slots) : [slots EXCEPT ![p].wrap.sized = FALSE] \in S,
         \A p \in 1..Len(slots), e \in Ephemerals \cup {LowOrder} :
           [slots EXCEPT ![p].mat.eph = e] \in S,
         \A p \in 1..Len(slots), c \in Ceks : [slots EXCEPT ![p].wrap.cek = c] \in S
  PROVE  AlteredSlots(slots) \subseteq S
BY DEF AlteredSlots

\* An altered list of slots is a list of slots.
LEMMA AlteredSlotsType ==
  ASSUME NEW slots \in Seq(Slots)
  PROVE  AlteredSlots(slots) \subseteq Seq(Slots)
<1>1. Len(slots) \in Nat /\ DOMAIN slots = 1..Len(slots) /\ slots \in [1..Len(slots) -> Slots]
  OBVIOUS
<1>2. \A p \in 1..Len(slots) :
        slots[p] \in Slots /\ slots[p].mat \in Mats /\ slots[p].wrap \in Wraps
  <2>1. \A p \in 1..Len(slots) : slots[p] \in Slots
    BY <1>1
  <2>2. QED
    BY <2>1 DEF Slots
<1>3. \A p \in 1..Len(slots) : Without(slots, p) \in Seq(Slots)
  BY WithoutFacts
<1>4. \A p \in 1..(Len(slots) + 1), q \in 1..Len(slots) : With(slots, p, slots[q]) \in Seq(Slots)
  BY <1>2, WithFacts
<1>5. \A p, q \in 1..Len(slots) : [slots EXCEPT ![p] = slots[q], ![q] = slots[p]] \in Seq(Slots)
  <2> TAKE p, q \in 1..Len(slots)
  <2>1. [slots EXCEPT ![p] = slots[q], ![q] = slots[p]] \in [1..Len(slots) -> Slots]
    BY <1>1, <1>2
  <2>2. QED
    BY <1>1, <2>1
<1>6. ASSUME NEW p \in 1..Len(slots), NEW x \in Slots
      PROVE  [slots EXCEPT ![p] = x] \in Seq(Slots)
  OBVIOUS
<1>7. ASSUME NEW p \in 1..Len(slots), NEW m \in Mats
      PROVE  [slots EXCEPT ![p].mat = m] \in Seq(Slots)
  <2>1. [slots[p] EXCEPT !.mat = m] \in Slots
    BY <1>2 DEF Slots
  <2>2. [slots EXCEPT ![p].mat = m] = [slots EXCEPT ![p] = [slots[p] EXCEPT !.mat = m]]
    OBVIOUS
  <2>3. QED
    BY <1>6, <2>1, <2>2
<1>8. ASSUME NEW p \in 1..Len(slots), NEW w \in Wraps
      PROVE  [slots EXCEPT ![p].wrap = w] \in Seq(Slots)
  <2>1. [slots[p] EXCEPT !.wrap = w] \in Slots
    BY <1>2 DEF Slots
  <2>2. [slots EXCEPT ![p].wrap = w] = [slots EXCEPT ![p] = [slots[p] EXCEPT !.wrap = w]]
    OBVIOUS
  <2>3. QED
    BY <1>6, <2>1, <2>2
<1>9. \A p \in 1..Len(slots) : [slots EXCEPT ![p].mat.sized = FALSE] \in Seq(Slots)
  <2> TAKE p \in 1..Len(slots)
  <2>1. [slots EXCEPT ![p].mat.sized = FALSE]
          = [slots EXCEPT ![p].mat = [slots[p].mat EXCEPT !.sized = FALSE]]
    OBVIOUS
  <2>2. [slots[p].mat EXCEPT !.sized = FALSE] \in Mats
    BY <1>2 DEF Mats
  <2>3. QED
    BY <1>7, <2>1, <2>2
<1>10. \A p \in 1..Len(slots) : [slots EXCEPT ![p].wrap.sized = FALSE] \in Seq(Slots)
  <2> TAKE p \in 1..Len(slots)
  <2>1. [slots EXCEPT ![p].wrap.sized = FALSE]
          = [slots EXCEPT ![p].wrap = [slots[p].wrap EXCEPT !.sized = FALSE]]
    OBVIOUS
  <2>2. [slots[p].wrap EXCEPT !.sized = FALSE] \in Wraps
    BY <1>2 DEF Wraps
  <2>3. QED
    BY <1>8, <2>1, <2>2
<1>11. \A p \in 1..Len(slots), e \in Ephemerals \cup {LowOrder} :
         [slots EXCEPT ![p].mat.eph = e] \in Seq(Slots)
  <2> TAKE p \in 1..Len(slots), e \in Ephemerals \cup {LowOrder}
  <2>1. [slots EXCEPT ![p].mat.eph = e]
          = [slots EXCEPT ![p].mat = [slots[p].mat EXCEPT !.eph = e]]
    OBVIOUS
  <2>2. [slots[p].mat EXCEPT !.eph = e] \in Mats
    BY <1>2 DEF Mats
  <2>3. QED
    BY <1>7, <2>1, <2>2
<1>12. \A p \in 1..Len(slots), c \in Ceks : [slots EXCEPT ![p].wrap.cek = c] \in Seq(Slots)
  <2> TAKE p \in 1..Len(slots), c \in Ceks
  <2>1. [slots EXCEPT ![p].wrap.cek = c]
          = [slots EXCEPT ![p].wrap = [slots[p].wrap EXCEPT !.cek = c]]
    OBVIOUS
  <2>2. [slots[p].wrap EXCEPT !.cek = c] \in Wraps
    BY <1>2 DEF Wraps
  <2>3. QED
    BY <1>8, <2>1, <2>2
<1>13. QED
  BY <1>3, <1>4, <1>5, <1>9, <1>10, <1>11, <1>12, AlterationsOfSlots, Zenon

\* An altered envelope is an envelope, whose MAC is the old one, or of no slots.
LEMMA AlteredFacts ==
  ASSUME EnvelopeAssumption, NEW e \in Envelopes, NEW f \in AlteredEnvelope(e)
  PROVE  /\ f \in Envelopes /\ f.mac.class = e.mac.class
         /\ f.mac.over = e.mac.over \/ f.mac.over.slots = <<>>
<1>1. /\ e.slots \in Seq(Slots) /\ e.mac \in Macs /\ e.kem \in KEMs \cup {"rsa"}
      /\ e.nonce \in Nonces \cup {"short"}
  BY DEF Envelopes
<1>2. CASE f = [e EXCEPT !.scheme = 2] \/ f = [e EXCEPT !.aead = "gcm"]
  BY <1>2 DEF Envelopes
<1>3. CASE f = [e EXCEPT !.mac.sized = FALSE]
  <2>1. f = [e EXCEPT !.mac = [e.mac EXCEPT !.sized = FALSE]]
    BY <1>3 DEF Envelopes
  <2>2. /\ [e.mac EXCEPT !.sized = FALSE] \in Macs
        /\ [e.mac EXCEPT !.sized = FALSE].class = e.mac.class
        /\ [e.mac EXCEPT !.sized = FALSE].over = e.mac.over
    BY <1>1 DEF Macs
  <2>3. QED
    BY <2>1, <2>2 DEF Envelopes
<1>4. CASE f = [e EXCEPT !.mac.over = Transcript(e.kem, e.nonce, <<>>, NoHashes)]
  <2>1. PICK over : over = Transcript(e.kem, e.nonce, <<>>, NoHashes)
    OBVIOUS
  <2>2. over \in Transcripts /\ over.slots = <<>>
    <3>1. <<>> \in Seq(Slots) /\ NoHashes \in Hashes
      BY DEF EnvelopeAssumption
    <3>2. QED
      BY <1>1, <2>1, <3>1 DEF Transcript, Transcripts
  <2>3. f = [e EXCEPT !.mac = [e.mac EXCEPT !.over = over]]
    BY <1>4, <2>1 DEF Envelopes
  <2>4. /\ [e.mac EXCEPT !.over = over] \in Macs
        /\ [e.mac EXCEPT !.over = over].class = e.mac.class
        /\ [e.mac EXCEPT !.over = over].over = over
    BY <1>1, <2>2 DEF Macs
  <2>5. PICK m : m = [e.mac EXCEPT !.over = over]
    OBVIOUS
  <2>6. QED
    BY <2>2, <2>3, <2>4, <2>5 DEF Envelopes
<1>5. CASE \E kem \in KEMs \cup {"rsa"} : f = [e EXCEPT !.kem = kem]
  BY <1>5 DEF Envelopes
<1>6. CASE \E n \in Nonces \cup {"short"} : f = [e EXCEPT !.nonce = n]
  BY <1>6 DEF Envelopes
<1>7. CASE \E s \in AlteredSlots(e.slots) : f = [e EXCEPT !.slots = s]
  <2>1. PICK s \in AlteredSlots(e.slots) : f = [e EXCEPT !.slots = s]
    BY <1>7
  <2>2. s \in Seq(Slots)
    BY <1>1, <2>1, AlteredSlotsType
  <2>3. QED
    BY <2>1, <2>2 DEF Envelopes
<1>8. QED
  BY <1>2, <1>3, <1>4, <1>5, <1>6, <1>7 DEF AlteredEnvelope

LEMMA AlterKeepsIInv ==
  ASSUME EnvelopeAssumption, IInv, Alter
  PROVE  IInv'
<1>1. /\ pc = "sealed" /\ pc' = "sealed" /\ made' = made /\ api' = api /\ api = "none"
      /\ Arrived /\ changes' = Append(changes, "altered")
  BY DEF Alter, readVars, Arrived, IInv, TypeOK
<1>2. /\ changes' \in Seq({"altered", "extended"}) /\ changes' # <<>> /\ changes' # <<"extended">>
      /\ (\A c \in DOMAIN changes' : changes'[c] # "extended") =>
           \A c \in DOMAIN changes : changes[c] # "extended"
  BY <1>1, ChangesFacts DEF IInv, TypeOK
<1>3. env \in Envelopes /\ claim \in Hashes /\ made.env \in Envelopes
  BY <1>1 DEF IInv, TypeOK
<1>4. /\ env' \in Envelopes /\ claim' \in Hashes /\ env'.mac.class = env.mac.class
      /\ env'.mac.over = env.mac.over \/ env'.mac.over.slots = <<>>
  <2>1. CASE env' = env /\ claim' \in Hashes
    BY <1>3, <2>1
  <2>2. CASE env' \in AlteredEnvelope(env) /\ claim' = claim
    BY <1>3, <2>2, AlteredFacts
  <2>3. QED
    BY <1>3, <2>1, <2>2 DEF Alter
<1>5. Arrived'
  BY <1>1 DEF Arrived
<1>6. TypeOK'
  BY <1>1, <1>2, <1>3, <1>4 DEF TypeOK
<1>7. SealedInv'
  BY <1>1 DEF IInv, SealedInv
<1>8. TravelInv'
  BY <1>1, <1>2, <1>4, <1>5 DEF IInv, TravelInv
<1>9. ReadInv'
  BY <1>1 DEF ReadInv
<1>10. QED
  BY <1>6, <1>7, <1>8, <1>9 DEF IInv

LEMMA ExtendKeepsIInv ==
  ASSUME EnvelopeAssumption, IInv, Extend
  PROVE  IInv'
<1>1. /\ pc = "sealed" /\ pc' = "sealed" /\ made' = made /\ api' = api /\ api = "none"
      /\ claim' = claim /\ body' = body
      /\ Arrived /\ changes' = Append(changes, "extended")
  BY DEF Extend, readVars, Arrived, IInv, TypeOK
<1>2. /\ changes' \in Seq({"altered", "extended"}) /\ changes' # <<>>
      /\ changes' = <<"extended">> => changes = <<>>
      /\ ~\A c \in DOMAIN changes' : changes'[c] # "extended"
  BY <1>1, ChangesFacts DEF IInv, TypeOK
<1>3. env \in Envelopes /\ claim \in Hashes /\ made.env \in Envelopes
  BY <1>1 DEF IInv, TypeOK
<1>4. /\ env.slots \in Seq(Slots) /\ env.kem \in KEMs \cup {"rsa"} /\ env.nonce \in Nonces \cup {"short"}
  BY <1>3 DEF Envelopes
<1>5. made.args.kem \in KEMs /\ made.args.cek \in Ceks
  BY <1>1, SealedFacts
<1>6. PICK key \in Keys, e \in Ephemerals, c \in Ceks, p \in 1..(Len(env.slots) + 1) :
        LET slots == With(env.slots, p, WrapSlot(made.args.kem, env.nonce, key, e, c))
        IN env' = [env EXCEPT !.slots = slots,
                     !.mac = SlotsMac(made.args.cek,
                                      Transcript(env.kem, env.nonce, slots, claim))]
  BY DEF Extend
<1> DEFINE new == WrapSlot(made.args.kem, env.nonce, key, e, c)
           slots == With(env.slots, p, new)
           over == Transcript(env.kem, env.nonce, slots, claim)
<1>7. slots \in Seq(Slots)
  <2>1. new \in Slots
    BY <1>4, <1>5, WrapSlotType
  <2>2. QED
    BY <1>4, <2>1, WithFacts
<1>8. env' \in Envelopes
  <2>1. PICK s : s = slots
    OBVIOUS
  <2>2. Transcript(env.kem, env.nonce, s, claim) \in Transcripts
    BY <1>3, <1>4, <1>7, <2>1 DEF Transcript, Transcripts
  <2>3. SlotsMac(made.args.cek, Transcript(env.kem, env.nonce, s, claim)) \in Macs
    BY <1>5, <2>2 DEF SlotsMac, Macs
  <2>4. PICK m : m = SlotsMac(made.args.cek, Transcript(env.kem, env.nonce, s, claim))
    OBVIOUS
  <2>5. env' = [env EXCEPT !.slots = s, !.mac = m]
    BY <1>6, <2>1, <2>4
  <2>6. QED
    BY <1>3, <1>7, <2>1, <2>3, <2>4, <2>5 DEF Envelopes
<1>9. Arrived'
  BY <1>1 DEF Arrived
<1>10. TypeOK'
  BY <1>1, <1>2, <1>3, <1>8 DEF TypeOK
<1>11. SealedInv'
  BY <1>1 DEF IInv, SealedInv
<1>12. TravelInv'
  <2>1. ASSUME changes' = <<"extended">>
        PROVE  /\ claim' = made'.args.hashes
               /\ body' = [cek |-> made'.args.cek, nonce |-> made'.args.nonce, intact |-> TRUE]
               /\ OneSlotMore'
    <3>1. /\ env = made.env /\ claim = made.args.hashes
          /\ body = [cek |-> made.args.cek, nonce |-> made.args.nonce, intact |-> TRUE]
      BY <1>1, <1>2, <2>1 DEF IInv, TravelInv
    <3>2. /\ p \in 1..(Len(made'.env.slots) + 1)
          /\ LET s == With(made'.env.slots, p, WrapSlot(made'.args.kem, made'.env.nonce, key, e, c))
             IN env' = [made'.env EXCEPT !.slots = s,
                          !.mac = SlotsMac(made'.args.cek,
                                           Transcript(made'.env.kem, made'.env.nonce, s, claim'))]
      BY <1>1, <1>6, <3>1
    <3>3. OneSlotMore'
      BY <3>2 DEF OneSlotMore
    <3>4. QED
      BY <1>1, <3>1, <3>3
  <2>2. QED
    BY <1>2, <1>9, <2>1 DEF TravelInv
<1>13. ReadInv'
  BY <1>1 DEF ReadInv
<1>14. QED
  BY <1>10, <1>11, <1>12, <1>13 DEF IInv

-----------------------------------------------------------------------------
(* The invariant is inductive: reading                                     *)

\* A reader changes nothing of the record, and what is said of the record stays
\* said.
LEMMA ReadersChangeNothing ==
  ASSUME IInv, Arrived, Arrived', UNCHANGED <<made, env, claim, body, changes>>
  PROVE  /\ SealedInv' /\ TravelInv'
         /\ env' \in Envelopes /\ made'.env \in Envelopes /\ claim' \in Hashes
         /\ changes' \in Seq({"altered", "extended"})
<1>1. SealedInv'
  BY DEF IInv, SealedInv
<1>2. TravelInv'
  <2>1. OneSlotMore' <=> OneSlotMore
    BY DEF OneSlotMore
  <2>2. QED
    BY <2>1 DEF IInv, TravelInv
<1>3. /\ env' \in Envelopes /\ made'.env \in Envelopes /\ claim' \in Hashes
      /\ changes' \in Seq({"altered", "extended"})
  BY DEF IInv, TypeOK
<1>4. QED
  BY <1>1, <1>2, <1>3

\* What a key opens depends on the record alone.
LEMMA OpenedFrame ==
  ASSUME UNCHANGED <<env, claim>>, NEW key
  PROVE  Opened(key)' = Opened(key) /\ Accepted(key)' = Accepted(key)
BY DEF Opened, Accepted, SlotOk, KemOk, WrapOpens, SlotsHash

LEMMA ReadKeepsIInv ==
  ASSUME IInv, NEW call \in {"unwrap", "trial", "stream"}, NEW keys \in Rings, Read(call, keys)
  PROVE  IInv'
<1> DEFINE list == Selected(keys)
           misused == keys.form = "several" \/ (keys.form = "flat" /\ list = <<>>)
<1>1. /\ pc = "sealed" /\ api' = call /\ ring' = keys /\ privs' = list
      /\ UNCHANGED <<made, env, claim, body, changes>>
      /\ k' = 1 /\ i' = 1 /\ scan' = NoScan /\ opened' = FALSE
  BY DEF Read
<1>2. /\ pc' \in {"done", "scanning"}
      /\ pc' = "done" /\ result'.kind # "raised" =>
           ~misused /\ list = <<>> /\ result' = Returned("nomatch", "WRONG_RECIPIENT_KEY")
      /\ pc' = "scanning" => list # <<>> /\ ~misused /\ StructureRefusal(env, list) = OK
  <2>1. \A reason : Returned("raised", reason).kind = "raised"
    BY DEF Returned
  <2>2. "INVALID_RECIPIENT_KEY" # OK
    BY DEF OK
  <2>3. QED
    BY <2>1, <2>2 DEF Read
<1>3. Arrived /\ Arrived'
  BY <1>1 DEF Arrived
<1>4. SealedInv' /\ TravelInv' /\ TypeOK'
  BY <1>1, <1>2, <1>3, ReadersChangeNothing DEF TypeOK
<1>5. list \in Seq(Keys \cup {"short"}) /\ Len(list) \in Nat /\ Selected(ring)' = list
  BY <1>1, RingFacts DEF Selected
<1>6. ASSUME pc' = "scanning"
      PROVE  Reading' /\ ScanInv' /\ (opened' <=> \E b \in 1..(k' - 1) : (Opened(privs[b]))' # {})
  <2>1. Len(list) >= 1
    BY <1>2, <1>5, <1>6
  <2>2. Len(env.slots) \in Nat
    BY <1>3 DEF IInv, TypeOK, Envelopes
  <2>3. 1 \in 1..Len(list) /\ 1 \in 1..(Len(env.slots) + 1) /\ 1..(1 - 1) = {}
    BY <1>5, <2>1, <2>2
  <2>4. StructureRefusal(env', privs') = OK
    BY <1>1, <1>2, <1>6
  <2> HIDE DEF list
  <2>5. Reading'
    <3>1. keys.form # "several"
      BY <1>2, <1>6
    <3>2. k' \in 1..Len(privs)' /\ i' \in 1..(Len(env.slots)' + 1)
      BY <1>1, <2>3
    <3>3. \A b \in 1..(k' - 1) : (Accepted(privs[b]))' = {}
      BY <1>1, <2>3
    <3>4. privs' = Selected(ring)'
      BY <1>1, <1>5
    <3>5. QED
      BY <1>1, <2>4, <3>1, <3>2, <3>3, <3>4 DEF Reading
  <2>6. ScanInv'
    <3>1. 1..(i' - 1) = {}
      BY <1>1, <2>3
    <3>2. ~scan'.found /\ ~scan'.conflict /\ ~scan'.opened
      BY <1>1 DEF NoScan
    <3>3. QED
      BY <3>1, <3>2 DEF ScanInv
  <2>7. QED
    BY <1>1, <2>3, <2>5, <2>6
<1>7. ASSUME pc' = "done", result'.kind # "raised"
      PROVE  Ended'
  <2>1. keys.form = "bundle"
    <3>1. \A one \in Some \ {<<>>} : one # <<>>
      OBVIOUS
    <3>2. QED
      BY <1>2, <1>7, <3>1 DEF Rings, Selected
  <2>2. Selected(ring)' = <<>> /\ result' = Returned("nomatch", "WRONG_RECIPIENT_KEY")
    BY <1>2, <1>5, <1>7
  <2>3. QED
    BY <1>1, <2>1, <2>2 DEF Ended
<1>8. ReadInv'
  <2>1. pc' # "opening"
    BY <1>2
  <2>2. QED
    BY <1>6, <1>7, <2>1 DEF ReadInv
<1>9. QED
  BY <1>4, <1>8 DEF IInv

\* What a scan has found after one slot more.
LEMMA FoldFacts ==
  ASSUME NEW key, NEW p \in DOMAIN env.slots, NEW s
  PROVE  LET next == Fold(s, key, p)
             accepted == p \in Accepted(key)
         IN /\ next.found <=> s.found \/ accepted
            /\ next.opened <=> s.opened \/ p \in Opened(key)
            /\ next.conflict <=> s.conflict \/ (accepted /\ s.found /\ env.slots[p].wrap.cek # s.cek)
            /\ next.cek = IF accepted /\ ~s.found THEN env.slots[p].wrap.cek ELSE s.cek
            /\ next.slot = IF accepted /\ ~s.found THEN p ELSE s.slot
<1>1. PICK candidate : candidate = IF WrapOpens(key, p) THEN env.slots[p].wrap.cek ELSE ZeroCek
  OBVIOUS
<1>2. PICK ok \in BOOLEAN : ok <=> SlotOk(key, p, candidate)
  OBVIOUS
<1>3. /\ ok <=> p \in Accepted(key)
      /\ ok => candidate = env.slots[p].wrap.cek
  BY <1>1, <1>2 DEF Accepted, SlotOk
<1>4. p \in Opened(key) <=> KemOk(p) /\ WrapOpens(key, p)
  BY DEF Opened
<1>5. /\ Fold(s, key, p).found <=> s.found \/ ok
      /\ Fold(s, key, p).opened <=> s.opened \/ (KemOk(p) /\ WrapOpens(key, p))
      /\ Fold(s, key, p).conflict <=> s.conflict \/ (ok /\ s.found /\ candidate # s.cek)
      /\ Fold(s, key, p).cek = IF ok /\ ~s.found THEN candidate ELSE s.cek
      /\ Fold(s, key, p).slot = IF ok /\ ~s.found THEN p ELSE s.slot
  BY <1>1, <1>2 DEF Fold
<1>6. QED
  BY <1>3, <1>4, <1>5

LEMMA ScanSlotKeepsIInv ==
  ASSUME IInv, ScanSlot
  PROVE  IInv'
<1>1. /\ pc = "scanning" /\ pc' = "scanning" /\ i <= Len(env.slots) /\ i' = i + 1
      /\ scan' = Fold(scan, privs[k], i)
      /\ UNCHANGED <<made, env, claim, body, changes, api, ring, privs, k, opened, result>>
  BY DEF ScanSlot
<1>2. /\ Arrived /\ Arrived' /\ Reading /\ ScanInv
      /\ opened <=> \E b \in 1..(k - 1) : Opened(privs[b]) # {}
      /\ env.slots \in Seq(Slots)
  BY <1>1 DEF Arrived, IInv, TypeOK, ReadInv, Envelopes
<1>3. SealedInv' /\ TravelInv' /\ TypeOK'
  BY <1>1, <1>2, ReadersChangeNothing DEF TypeOK, IInv
<1>4. i \in 1..Len(env.slots) /\ Len(env.slots) \in Nat /\ DOMAIN env.slots = 1..Len(env.slots)
  BY <1>1, <1>2 DEF Reading
<1>5. \A b : (Opened(privs[b]))' = Opened(privs[b]) /\ (Accepted(privs[b]))' = Accepted(privs[b])
  BY <1>1 DEF Opened, Accepted, SlotOk, KemOk, WrapOpens, SlotsHash
<1>6. (Opened(privs[k]))' = Opened(privs[k]) /\ (Accepted(privs[k]))' = Accepted(privs[k])
  BY <1>1 DEF Opened, Accepted, SlotOk, KemOk, WrapOpens, SlotsHash
<1>7. Reading'
  <2>1. i + 1 \in 1..(Len(env.slots) + 1)
    BY <1>4
  <2>2. Selected(ring)' = Selected(ring)
    BY <1>1 DEF Selected
  <2>3. QED
    BY <1>1, <1>2, <1>5, <2>1, <2>2 DEF Reading
<1>8. ScanInv'
  <2> DEFINE accepted == Accepted(privs[k])
             seen == accepted \cap 1..(i - 1)
             now == accepted \cap 1..i
  <2>1. /\ scan.found <=> seen # {}
        /\ scan.found => /\ scan.slot \in seen /\ \A p \in seen : scan.slot <= p
                         /\ scan.cek = env.slots[scan.slot].wrap.cek
        /\ scan.conflict <=> \E p, q \in seen : env.slots[p].wrap.cek # env.slots[q].wrap.cek
        /\ scan.opened <=> Opened(privs[k]) \cap 1..(i - 1) # {}
    BY <1>2 DEF ScanInv
  <2>2. /\ scan'.found <=> scan.found \/ i \in accepted
        /\ scan'.opened <=> scan.opened \/ i \in Opened(privs[k])
        /\ scan'.conflict <=>
             scan.conflict \/ (i \in accepted /\ scan.found /\ env.slots[i].wrap.cek # scan.cek)
        /\ scan'.cek = IF i \in accepted /\ ~scan.found THEN env.slots[i].wrap.cek ELSE scan.cek
        /\ scan'.slot = IF i \in accepted /\ ~scan.found THEN i ELSE scan.slot
    <3>1. PICK key : key = privs[k]
      OBVIOUS
    <3>2. PICK s : s = scan
      OBVIOUS
    <3>3. PICK p \in DOMAIN env.slots : p = i
      BY <1>4
    <3>4. PICK next : next = Fold(s, key, p)
      OBVIOUS
    <3>5. scan' = next
      BY <1>1, <3>1, <3>2, <3>3, <3>4
    <3>6. /\ next.found <=> s.found \/ p \in Accepted(key)
          /\ next.opened <=> s.opened \/ p \in Opened(key)
          /\ next.conflict <=>
               s.conflict \/ (p \in Accepted(key) /\ s.found /\ env.slots[p].wrap.cek # s.cek)
          /\ next.cek = IF p \in Accepted(key) /\ ~s.found THEN env.slots[p].wrap.cek ELSE s.cek
          /\ next.slot = IF p \in Accepted(key) /\ ~s.found THEN p ELSE s.slot
      BY <3>3, <3>4, FoldFacts
    <3>7. QED
      BY <3>1, <3>2, <3>3, <3>5, <3>6
  <2>3. i \in Nat /\ i' - 1 = i /\ 1..i = 1..(i - 1) \cup {i} /\ \A p \in 1..(i - 1) : p <= i
    BY <1>1, <1>4
  <2> HIDE DEF accepted
  <2>4. now = IF i \in accepted THEN seen \cup {i} ELSE seen
    BY <2>3
  <2>5. \A p \in seen : p <= i /\ p \in Nat
    BY <2>3
  <2> HIDE DEF seen, now
  <2>6. scan'.found <=> now # {}
    BY <2>1, <2>2, <2>4
  <2>7. ASSUME scan'.found
        PROVE  /\ scan'.slot \in now /\ \A p \in now : scan'.slot <= p
               /\ scan'.cek = env.slots[scan'.slot].wrap.cek
    <3>1. CASE scan.found
      BY <2>1, <2>2, <2>3, <2>4, <2>5, <3>1
    <3>2. CASE ~scan.found
      BY <2>1, <2>2, <2>3, <2>4, <2>7, <3>2
    <3>3. QED
      BY <3>1, <3>2
  <2>8. scan'.conflict <=> \E p, q \in now : env.slots[p].wrap.cek # env.slots[q].wrap.cek
    <3>1. CASE i \notin accepted
      BY <2>1, <2>2, <2>4, <3>1
    <3>2. CASE i \in accepted /\ ~scan.found
      <4>1. seen = {} /\ now = {i} /\ ~scan.conflict
        BY <2>1, <2>4, <3>2
      <4>2. QED
        BY <2>2, <3>2, <4>1
    <3>3. CASE i \in accepted /\ scan.found
      <4>1. scan.slot \in seen /\ scan.cek = env.slots[scan.slot].wrap.cek
        BY <2>1, <3>3
      <4>2. ASSUME scan'.conflict
            PROVE  \E p, q \in now : env.slots[p].wrap.cek # env.slots[q].wrap.cek
        BY <2>1, <2>2, <2>4, <3>3, <4>1, <4>2
      <4>3. ASSUME ~scan'.conflict, NEW p \in now
            PROVE  env.slots[p].wrap.cek = scan.cek
        BY <2>1, <2>2, <2>4, <3>3, <4>1, <4>3
      <4>4. QED
        BY <4>2, <4>3
    <3>4. QED
      BY <3>1, <3>2, <3>3
  <2>9. scan'.opened <=> Opened(privs[k]) \cap 1..i # {}
    <3>1. Opened(privs[k]) \cap 1..i # {}
            <=> Opened(privs[k]) \cap 1..(i - 1) # {} \/ i \in Opened(privs[k])
      BY <2>3
    <3>2. QED
      BY <2>1, <2>2, <3>1
  <2>10. (Accepted(privs[k]) \cap 1..(i - 1))' = now
    BY <1>6, <2>3 DEF now, accepted
  <2>11. (Opened(privs[k]) \cap 1..(i - 1))' = Opened(privs[k]) \cap 1..i
    BY <1>6, <2>3
  <2>12. QED
    BY <1>1, <2>6, <2>7, <2>8, <2>9, <2>10, <2>11 DEF ScanInv
<1>9. ReadInv'
  <2>1. opened' <=> \E b \in 1..(k' - 1) : (Opened(privs[b]))' # {}
    BY <1>1, <1>2, <1>5
  <2>2. QED
    BY <1>1, <1>7, <1>8, <2>1 DEF ReadInv
<1>10. QED
  BY <1>3, <1>9 DEF IInv

\* What is left of a call when only its place, its selection or its answer change.
LEMMA ReadingFrame ==
  ASSUME UNCHANGED <<env, claim, api, ring, privs>>
  PROVE  /\ Selected(ring)' = Selected(ring)
         /\ \A b : (Opened(privs[b]))' = Opened(privs[b]) /\ (Accepted(privs[b]))' = Accepted(privs[b])
         /\ k' = k => /\ (Opened(privs[k]))' = Opened(privs[k])
                      /\ (Accepted(privs[k]))' = Accepted(privs[k])
         /\ Reading /\ k' = k /\ i' = i => Reading'
         /\ ScanInv /\ k' = k /\ i' = i /\ scan' = scan => ScanInv'
<1>1. \A b : (Opened(privs[b]))' = Opened(privs[b]) /\ (Accepted(privs[b]))' = Accepted(privs[b])
  BY DEF Opened, Accepted, SlotOk, KemOk, WrapOpens, SlotsHash
<1>2. k' = k => (Opened(privs[k]))' = Opened(privs[k]) /\ (Accepted(privs[k]))' = Accepted(privs[k])
  BY DEF Opened, Accepted, SlotOk, KemOk, WrapOpens, SlotsHash
<1>3. Selected(ring)' = Selected(ring)
  BY DEF Selected
<1>4. Reading /\ k' = k /\ i' = i => Reading'
  BY <1>1, <1>3 DEF Reading
<1>5. ScanInv /\ k' = k /\ i' = i /\ scan' = scan => ScanInv'
  BY <1>2 DEF ScanInv
<1>6. QED
  BY <1>1, <1>2, <1>3, <1>4, <1>5

LEMMA EndPassKeepsIInv ==
  ASSUME IInv, EndPass
  PROVE  IInv'
<1>1. /\ pc = "scanning" /\ i > Len(env.slots) /\ opened' = (opened \/ scan.opened)
      /\ UNCHANGED <<made, env, claim, body, changes, api, ring, privs>>
  BY DEF EndPass
<1>2. /\ Arrived /\ Reading /\ ScanInv /\ env.slots \in Seq(Slots) /\ api # "none"
      /\ opened <=> \E b \in 1..(k - 1) : Opened(privs[b]) # {}
  BY <1>1 DEF Arrived, IInv, TypeOK, ReadInv, Envelopes
<1>3. /\ Len(env.slots) \in Nat /\ i = Len(env.slots) + 1 /\ DOMAIN env.slots = 1..Len(env.slots)
  BY <1>1, <1>2 DEF Reading
<1>4. Arrived'
  BY <1>1, <1>2 DEF Arrived
<1>5. /\ Selected(ring)' = Selected(ring)
      /\ \A b : (Opened(privs[b]))' = Opened(privs[b]) /\ (Accepted(privs[b]))' = Accepted(privs[b])
      /\ k' = k /\ i' = i => Reading'
      /\ k' = k /\ i' = i /\ scan' = scan => ScanInv'
  BY <1>1, <1>2, ReadingFrame
<1>6. /\ privs = Selected(ring) /\ ring \in Rings /\ ring.form # "several" /\ StructureRefusal(env, privs) = OK
      /\ k \in 1..Len(privs)
      /\ \A b \in 1..(k - 1) : Accepted(privs[b]) = {}
  BY <1>2 DEF Reading
<1>7. Len(privs) \in Nat
  BY <1>6, RingFacts
<1>8. /\ scan.found <=> Accepted(privs[k]) # {}
      /\ scan.opened <=> Opened(privs[k]) # {}
  <2>1. i - 1 = Len(env.slots)
    BY <1>3
  <2>2. Accepted(privs[k]) \cap 1..(i - 1) = Accepted(privs[k])
    BY <1>3, <2>1 DEF Accepted
  <2>3. Opened(privs[k]) \cap 1..(i - 1) = Opened(privs[k])
    BY <1>3, <2>1 DEF Opened
  <2>4. QED
    BY <1>2, <2>2, <2>3 DEF ScanInv
<1>9. opened' <=> \E b \in 1..k : Opened(privs[b]) # {}
  <2>1. 1..k = 1..(k - 1) \cup {k}
    BY <1>6, <1>7
  <2>2. QED
    BY <1>1, <1>2, <1>8, <2>1
<1>10. SealedInv' /\ TravelInv'
  BY <1>1, <1>2, <1>4, ReadersChangeNothing
<1>11. ASSUME pc' \in {"scanning", "opening", "done"}
       PROVE  TypeOK'
  BY <1>1, <1>2, <1>4, <1>11, ReadersChangeNothing DEF TypeOK, IInv
<1>12. CASE scan.conflict
  <2>1. pc' = "done" /\ result' = HeaderFailure("TAMPERED_HEADER") /\ k' = k /\ i' = i /\ scan' = scan
    BY <1>12 DEF EndPass
  <2>2. Reading' /\ ScanInv' /\ i' = Len(env.slots)' + 1
    BY <1>1, <1>3, <1>5, <2>1
  <2>3. scan'.conflict /\ result' = HeaderFailure("TAMPERED_HEADER")'
    BY <1>1, <1>12, <2>1 DEF HeaderFailure, Returned
  <2>4. Ended'
    BY <2>2, <2>3 DEF Ended
  <2>5. ReadInv'
    BY <2>1, <2>4 DEF ReadInv
  <2>6. QED
    BY <1>10, <1>11, <2>1, <2>5 DEF IInv
<1>13. CASE ~scan.conflict /\ scan.found /\ api = "trial"
  <2>1. pc' = "done" /\ result' = Matched(scan.cek, scan.slot) /\ k' = k /\ i' = i /\ scan' = scan
    BY <1>13 DEF EndPass
  <2>2. Reading' /\ ScanInv' /\ i' = Len(env.slots)' + 1
    BY <1>1, <1>3, <1>5, <2>1
  <2>3. ~scan'.conflict /\ scan'.found /\ api' = "trial" /\ result' = Matched(scan'.cek, scan'.slot)
    BY <1>1, <1>13, <2>1
  <2>4. Ended'
    BY <2>2, <2>3 DEF Ended, Matched
  <2>5. ReadInv'
    BY <2>1, <2>4 DEF ReadInv
  <2>6. QED
    BY <1>10, <1>11, <2>1, <2>5 DEF IInv
<1>14. CASE ~scan.conflict /\ scan.found /\ api # "trial"
  <2>1. pc' = "opening" /\ k' = k /\ i' = i /\ scan' = scan
    BY <1>14 DEF EndPass
  <2>2. Reading' /\ ScanInv' /\ i' = Len(env.slots)' + 1
    BY <1>1, <1>3, <1>5, <2>1
  <2>3. ReadInv'
    BY <1>1, <1>14, <2>1, <2>2 DEF ReadInv
  <2>4. QED
    BY <1>10, <1>11, <2>1, <2>3 DEF IInv
<1>15. CASE ~scan.conflict /\ ~scan.found /\ k < Len(privs)
  <2>1. pc' = "scanning" /\ k' = k + 1 /\ i' = 1 /\ scan' = NoScan
    BY <1>1, <1>15 DEF EndPass
  <2>2. /\ k + 1 \in 1..Len(privs) /\ (k + 1) - 1 = k /\ 1 \in 1..(Len(env.slots) + 1)
        /\ 1..(1 - 1) = {} /\ 1..k = 1..(k - 1) \cup {k}
    BY <1>3, <1>6, <1>7, <1>15
  <2>3. \A b \in 1..k : Accepted(privs[b]) = {}
    BY <1>6, <1>8, <1>15, <2>2
  <2>4. \A b \in 1..(k' - 1) : (Accepted(privs[b]))' = {}
    BY <1>5, <2>1, <2>2, <2>3
  <2>5. k' \in 1..Len(privs)' /\ i' \in 1..(Len(env.slots)' + 1)
    BY <1>1, <2>1, <2>2
  <2>6. StructureRefusal(env', privs') = OK /\ ring' \in Rings /\ ring'.form # "several"
        /\ privs' = Selected(ring)'
    BY <1>1, <1>5, <1>6
  <2>7. Reading'
    BY <2>4, <2>5, <2>6 DEF Reading
  <2>8. ScanInv'
    <3>1. 1..(i' - 1) = {}
      BY <2>1, <2>2
    <3>2. ~scan'.found /\ ~scan'.conflict /\ ~scan'.opened
      BY <2>1 DEF NoScan
    <3>3. QED
      BY <3>1, <3>2 DEF ScanInv
  <2>9. opened' <=> \E b \in 1..(k' - 1) : (Opened(privs[b]))' # {}
    BY <1>5, <1>9, <2>1, <2>2
  <2>10. ReadInv'
    BY <2>1, <2>7, <2>8, <2>9 DEF ReadInv
  <2>11. QED
    BY <1>10, <1>11, <2>1, <2>10 DEF IInv
<1>16. CASE ~scan.conflict /\ ~scan.found /\ ~(k < Len(privs))
  <2>1. /\ pc' = "done" /\ k' = k /\ i' = i /\ scan' = scan
        /\ result' = HeaderFailure(IF opened' THEN "TAMPERED_HEADER" ELSE "WRONG_RECIPIENT_KEY")
    BY <1>16 DEF EndPass
  <2>2. Reading' /\ ScanInv' /\ i' = Len(env.slots)' + 1
    BY <1>1, <1>3, <1>5, <2>1
  <2>3. k' = Len(privs)'
    BY <1>1, <1>6, <1>7, <1>16, <2>1
  <2>4. result' = HeaderFailure(IF opened THEN "TAMPERED_HEADER" ELSE "WRONG_RECIPIENT_KEY")'
    BY <1>1, <2>1 DEF HeaderFailure
  <2>5. opened' <=> \E b \in 1..k' : (Opened(privs[b]))' # {}
    BY <1>5, <1>9, <2>1
  <2>6. ~scan'.conflict /\ ~scan'.found
    BY <1>16, <2>1
  <2>7. Ended'
    BY <2>2, <2>3, <2>4, <2>5, <2>6 DEF Ended
  <2>8. ReadInv'
    BY <2>1, <2>7 DEF ReadInv
  <2>9. QED
    BY <1>10, <1>11, <2>1, <2>8 DEF IInv
<1>17. QED
  BY <1>12, <1>13, <1>14, <1>15, <1>16

LEMMA OpenBodyKeepsIInv ==
  ASSUME IInv, OpenBody
  PROVE  IInv'
<1>1. /\ pc = "opening" /\ pc' = "done"
      /\ UNCHANGED <<made, env, claim, body, changes, api, ring, privs, k, i, scan, opened>>
  BY DEF OpenBody, readVars
<1>2. /\ Arrived /\ Reading /\ ScanInv /\ api # "none" /\ api # "trial"
      /\ i = Len(env.slots) + 1 /\ scan.found /\ ~scan.conflict
  BY <1>1 DEF Arrived, IInv, TypeOK, ReadInv
<1>3. Arrived'
  BY <1>1, <1>2 DEF Arrived
<1>4. SealedInv' /\ TravelInv' /\ TypeOK'
  BY <1>1, <1>2, <1>3, ReadersChangeNothing DEF TypeOK, IInv
<1>5. Reading' /\ ScanInv'
  BY <1>1, <1>2, ReadingFrame
<1>6. \/ BodyOpens /\ result' = Matched(scan.cek, scan.slot)
      \/ ~BodyOpens /\ result' = Returned("nomatch", "TAMPERED_CIPHERTEXT")
  BY DEF OpenBody, BodyOpens
<1>7. BodyOpens' <=> BodyOpens
  BY <1>1 DEF BodyOpens
<1>8. Ended'
  <2>1. /\ i' = Len(env.slots)' + 1 /\ ~scan'.conflict /\ scan'.found /\ api' # "trial"
    BY <1>1, <1>2
  <2>2. \/ BodyOpens' /\ result' = Matched(scan'.cek, scan'.slot)
        \/ ~BodyOpens' /\ result' = Returned("nomatch", "TAMPERED_CIPHERTEXT")
    BY <1>1, <1>6, <1>7
  <2>3. QED
    BY <1>5, <2>1, <2>2 DEF Ended, Matched, Returned
<1>9. ReadInv'
  BY <1>1, <1>8 DEF ReadInv
<1>10. QED
  BY <1>4, <1>9 DEF IInv

LEMMA NextIInv ==
  ASSUME EnvelopeAssumption, IInv, [Next]_vars
  PROVE  IInv'
<1>1. CASE UNCHANGED vars
  <2>1. UNCHANGED <<made, env, claim, body, changes, api, ring, privs, k, i, scan, opened, pc, result>>
    BY <1>1 DEF vars
  <2>2. TypeOK' /\ SealedInv'
    BY <2>1 DEF IInv, TypeOK, SealedInv, Arrived
  <2>3. TravelInv'
    <3>1. OneSlotMore' <=> OneSlotMore
      BY <2>1 DEF OneSlotMore
    <3>2. QED
      BY <2>1, <3>1 DEF IInv, TravelInv, Arrived
  <2>4. ReadInv'
    <3>1. /\ Reading => Reading'
          /\ ScanInv => ScanInv'
          /\ \A b : (Opened(privs[b]))' = Opened(privs[b])
          /\ Selected(ring)' = Selected(ring)
      BY <2>1, ReadingFrame
    <3>2. Ended => Ended'
      BY <2>1, <3>1 DEF Ended, BodyOpens, HeaderFailure, Matched, Returned
    <3>3. QED
      BY <2>1, <3>1, <3>2 DEF IInv, ReadInv
  <2>5. QED
    BY <2>2, <2>3, <2>4 DEF IInv
<1>2. CASE Next
  BY <1>2, SealKeepsIInv, AlterKeepsIInv, ExtendKeepsIInv, ReadKeepsIInv, ScanSlotKeepsIInv,
     EndPassKeepsIInv, OpenBodyKeepsIInv DEF Next
<1>3. QED
  BY <1>1, <1>2

-----------------------------------------------------------------------------
(* The theorems.  EnvelopeAssumption is what the code has of its constants: *)
(* the small-order point is no honest ephemeral's, the zero key is no       *)
(* content key, every content key has a MAC; it says nothing of which MACs  *)
(* collide.                                                                *)

\* The inductive invariant holds of every run.
THEOREM InductiveInvariant ==
  ASSUME EnvelopeAssumption
  PROVE  Spec => []IInv
<1>1. Init => IInv
  BY InitIInv
<1>2. IInv /\ [Next]_vars => IInv'
  BY NextIInv
<1>3. QED
  BY <1>1, <1>2, PTL DEF Spec

\* A record that arrives as it was sealed opens for every reader with one of its
\* recipients' keys, and for nobody else, however many recipients and keys there
\* are and in whatever order (ecies_sealed_poe_unwrap and its siblings).
THEOREM EnvelopesOpen ==
  ASSUME EnvelopeAssumption
  PROVE  Spec => []OpensForItsRecipients
<1>1. IInv => OpensForItsRecipients
  BY RecipientsOpen
<1>2. QED
  BY <1>1, InductiveInvariant, PTL

\* A call that matches has read the header and the hash claim that were sealed,
\* whatever was changed without the content key (_slots_transcript, slots_mac).
THEOREM HeadersBound ==
  ASSUME EnvelopeAssumption
  PROVE  Spec => []HeaderBound
<1>1. IInv => HeaderBound
  BY HeaderIsBound
<1>2. QED
  BY <1>1, InductiveInvariant, PTL

\* A slot that a holder of the content key added decides nothing for the others,
\* and where its content key collides no key is returned that another accepted
\* slot contradicts (_scan_slots).
THEOREM ShadowsInert ==
  ASSUME EnvelopeAssumption
  PROVE  Spec => []ShadowSlotsAreInert
<1>1. IInv => ShadowSlotsAreInert
  BY ShadowsAreInert
<1>2. QED
  BY <1>1, InductiveInvariant, PTL

\* After any number of slots the masked fold has selected the first accepted slot
\* and noted a conflict exactly when two accepted slots disagree (_scan_slots).
THEOREM FoldSelects ==
  ASSUME EnvelopeAssumption
  PROVE  Spec => []SelectsTheFirst
<1>1. IInv => SelectsTheFirst
  BY ScanSelectsTheFirst
<1>2. QED
  BY <1>1, InductiveInvariant, PTL

\* No two slots of a sealed envelope, and no two that a reader tries a key on,
\* are wrapped under one KEK (_assert_unique_slot_kem_material).
THEOREM KeksUnique ==
  ASSUME EnvelopeAssumption
  PROVE  Spec => []KeksAreUnique
<1>1. IInv => KeksAreUnique
  BY KeksDiffer
<1>2. QED
  BY <1>1, InductiveInvariant, PTL

\* Whatever the keys, recipients and slots: an unchanged envelope opens for exactly
\* its recipients, under the slot and key the fold selects first
\* (ecies_sealed_poe_unwrap and its siblings).
THEOREM RecipientsAlwaysOpen ==
  ASSUME EnvelopeAssumption
  PROVE  Spec => []EnvelopesOpenForTheirRecipients
<1>1. IInv /\ OpensForItsRecipients /\ SelectsTheFirst => EnvelopesOpenForTheirRecipients
  BY DEF EnvelopesOpenForTheirRecipients
<1>2. QED
  BY <1>1, InductiveInvariant, EnvelopesOpen, FoldSelects, PTL

\* And a changed one opens for nobody, whatever was changed
\* (_scan_slots, _assert_unique_slot_kem_material).
THEOREM HeadersAlwaysBound ==
  ASSUME EnvelopeAssumption
  PROVE  Spec => []HeadersAreBound
<1>1. HeaderBound /\ ShadowSlotsAreInert /\ KeksAreUnique => HeadersAreBound
  BY DEF HeadersAreBound
<1>2. QED
  BY <1>1, HeadersBound, ShadowsInert, KeksUnique, PTL
=============================================================================
