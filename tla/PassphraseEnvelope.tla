------------------------- MODULE PassphraseEnvelope -------------------------
(***************************************************************************)
(* The passphrase path of a sealed record (_crypto/sealed_poe.py): a       *)
(* content key derived from a normalised passphrase, and a commitment at   *)
(* the head of the blob that binds it to the header and the item's hash    *)
(* claim.  The record and the blob are stored apart and may change; the    *)
(* passphrase is typed again, in whatever spelling.  The key derivation,   *)
(* the MAC and the cipher are ideal; the chunks are StreamCipher's.        *)
(***************************************************************************)
EXTENDS PassphraseNormalization, Checks

CONSTANTS
  Passphrases,            \* the texts that are typed
  Params,                 \* work factors a caller or a record may have
  Salts, PwNonces, PwHashes, NoPwHashes,
  PARAM_MAX, ARGON2_M_MIN, ARGON2_T_MIN, ARGON2_P_MIN,
  SALT_MIN_BYTES, SALT_MAX_BYTES,
  PwMaxChanges            \* bound of the model

\* A salt is its length and which one it is.
PassphraseAssumption ==
  /\ \A salt \in Salts : salt.bytes \in Nat
  /\ Params \subseteq [m : Int, t : Int, p : Int]
  /\ {PARAM_MAX, ARGON2_M_MIN, ARGON2_T_MIN, ARGON2_P_MIN} \subseteq Int
  /\ NoPwHashes \in PwHashes /\ PwMaxChanges \in Nat

VARIABLES
  pwAt,      \* choosing, sealed, done
  pwEnv, pwClaim, pwBlob,   \* the envelope, the hash claim and the blob as stored
  typed,     \* the passphrase given to the open
  pwChanges, \* how often the stored things have changed
  kdfRan,    \* an open has derived a key
  pwResult
pwVars == <<pwAt, pwEnv, pwClaim, pwBlob, typed, pwChanges, kdfRan, pwResult>>

PwReturned(kind, reason) == [kind |-> kind, reason |-> reason]

-----------------------------------------------------------------------------
ParamValues(params) == {params.m, params.t, params.p}

\* _assert_argon2id_params: the wire range of each value, then the floors.
ParamsRefusal(params) == FirstFailing(<<
  <<"INVALID_PASSPHRASE_PARAMS", \E v \in ParamValues(params) : v < 0 \/ v > PARAM_MAX>>,
  <<"ENC_PASSPHRASE_ARGON2_PARAMS_TOO_LOW",
    params.m < ARGON2_M_MIN \/ params.t < ARGON2_T_MIN \/ params.p < ARGON2_P_MIN>> >>)

\* _assert_passphrase_salt.
SaltRefusal(salt) == FirstFailing(<<
  <<"ENC_PASSPHRASE_SALT_TOO_SHORT", salt.bytes < SALT_MIN_BYTES>>,
  <<"ENC_PASSPHRASE_SALT_TOO_LONG", salt.bytes > SALT_MAX_BYTES>> >>)

\* _argon2id_cek, over the normalised passphrase.
Cek(password, salt, params) == [password |-> password, salt |-> salt, params |-> params]

\* Mutated form: the item's claim is not in the transcript.
PwCommitment_NoClaim(cek, nonce, salt, params, hashes) ==
  [cek |-> cek, nonce |-> nonce, salt |-> salt, params |-> params]

\* _passphrase_commitment over _compute_pw_hash and _passphrase_transcript.
PwCommitment(cek, nonce, salt, params, hashes) ==
  [cek |-> cek, nonce |-> nonce, salt |-> salt, params |-> params, hashes |-> hashes]

-----------------------------------------------------------------------------
\* The errors of both seals, in their order; the envelope and the
\* commitment come before any content.
PwSealRefusal(a) ==
  LET password == NormalizePassphrase(a.passphrase)
  IN FirstFailing(<<
       <<ParamsRefusal(a.params), ParamsRefusal(a.params) # OK>>,
       <<SaltRefusal(a.salt), SaltRefusal(a.salt) # OK>>,
       <<"NONCE_LENGTH_MISMATCH", a.nonce \notin PwNonces>>,
       <<"ENC_REQUIRES_CONTENT_HASH", a.hashes = NoPwHashes>>,
       <<password.code, password.code # OK>> >>)

EnvelopeOf(a) ==
  [scheme |-> 1, aead |-> "stream64k", alg |-> "argon2id",
   nonce |-> a.nonce, salt |-> a.salt, params |-> a.params]

BlobOf(a) ==
  LET cek == Cek(NormalizePassphrase(a.passphrase).text, a.salt, a.params)
  IN [commitment |-> PwCommitment(cek, a.nonce, a.salt, a.params, a.hashes),
      key |-> [cek |-> cek, nonce |-> a.nonce], short |-> FALSE, intact |-> TRUE,
      args |-> a]   \* of the history: no step reads it

Args == [passphrase : Passphrases, params : Params, salt : Salts, nonce : PwNonces, hashes : PwHashes]
Chosen == CHOOSE a \in Args : PwSealRefusal(a) = OK

\* Nothing is stored yet: the fields have some values of their shapes.
PhraseInit ==
  /\ pwAt = "choosing" /\ pwChanges = 0 /\ kdfRan = FALSE
  /\ pwEnv = EnvelopeOf(Chosen) /\ pwBlob = BlobOf(Chosen) /\ pwClaim = Chosen.hashes
  /\ typed = <<>> /\ pwResult = PwReturned("none", "none")

\* passphrase_sealed_poe_seal and passphrase_sealed_poe_seal_stream.  With good
\* arguments the derivation of the key may still fail, before any content.
PwSeal(a) ==
  LET code == PwSealRefusal(a)
      Raises(reason) == /\ pwAt' = "done" /\ pwResult' = PwReturned("raised", reason)
                        /\ UNCHANGED <<pwEnv, pwClaim, pwBlob>>
  IN /\ pwAt = "choosing"
     /\ \/ code # OK /\ Raises(code)
        \/ code = OK /\ Raises("KDF_DERIVATION_FAILED")
        \/ /\ code = OK /\ pwAt' = "sealed"
           /\ pwEnv' = EnvelopeOf(a) /\ pwClaim' = a.hashes /\ pwBlob' = BlobOf(a)
           /\ UNCHANGED pwResult
     /\ UNCHANGED <<typed, pwChanges, kdfRan>>

\* The record, or the blob beside it, changes; the blob may be another's.
PwAlter ==
  /\ pwAt = "sealed" /\ pwChanges < PwMaxChanges
  /\ \/ /\ \/ pwEnv' = [pwEnv EXCEPT !.scheme = 2]
           \/ pwEnv' = [pwEnv EXCEPT !.aead = "gcm"]
           \/ pwEnv' = [pwEnv EXCEPT !.alg = "scrypt"]
           \/ \E n \in PwNonces \cup {"short"} : pwEnv' = [pwEnv EXCEPT !.nonce = n]
           \/ \E s \in Salts : pwEnv' = [pwEnv EXCEPT !.salt = s]
           \/ \E p \in Params : pwEnv' = [pwEnv EXCEPT !.params = p]
        /\ UNCHANGED <<pwClaim, pwBlob>>
     \/ pwClaim' \in PwHashes /\ UNCHANGED <<pwEnv, pwBlob>>
     \/ /\ pwBlob' \in {[pwBlob EXCEPT !.short = TRUE], [pwBlob EXCEPT !.intact = FALSE],
                      [pwBlob EXCEPT !.commitment.hashes = NoPwHashes]}
                       \cup {BlobOf(a) : a \in {b \in Args : PwSealRefusal(b) = OK}}
        /\ UNCHANGED <<pwEnv, pwClaim>>
  /\ pwChanges' = pwChanges + 1
  /\ UNCHANGED <<pwAt, typed, kdfRan, pwResult>>

\* _assert_passphrase_envelope.
EnvelopeRefusal(e) == FirstFailing(<<
  <<"UNSUPPORTED_ENVELOPE_SCHEME", e.scheme # 1>>,
  <<"UNSUPPORTED_AEAD_ALG", e.aead # "stream64k">>,
  <<"ENC_PASSPHRASE_ALG_UNSUPPORTED", e.alg # "argon2id">>,
  <<"NONCE_LENGTH_MISMATCH", e.nonce \notin PwNonces>>,
  <<SaltRefusal(e.salt), SaltRefusal(e.salt) # OK>>,
  <<ParamsRefusal(e.params), ParamsRefusal(e.params) # OK>> >>)

\* The errors both opens raise before they look at the blob.
CallRefusal(e, hashes, passphrase) ==
  LET password == NormalizePassphrase(passphrase)
  IN FirstFailing(<<
       <<"ENC_REQUIRES_CONTENT_HASH", hashes = NoPwHashes>>,
       <<password.code, password.code # OK>>,
       <<EnvelopeRefusal(e), EnvelopeRefusal(e) # OK>> >>)

\* What passphrase_sealed_poe_open and, once its generator has run out,
\* passphrase_sealed_poe_open_stream come to.
PwOpened(e, hashes, passphrase, b) ==
  LET cek == Cek(NormalizePassphrase(passphrase).text, e.salt, e.params)
  IN IF CallRefusal(e, hashes, passphrase) # OK
     THEN PwReturned("raised", CallRefusal(e, hashes, passphrase))
     ELSE IF \/ b.short
             \/ b.commitment # PwCommitment(cek, e.nonce, e.salt, e.params, hashes)
             \/ ~b.intact \/ b.key # [cek |-> cek, nonce |-> e.nonce]
     THEN PwReturned("nomatch", "TAMPERED_CIPHERTEXT")
     ELSE PwReturned("match", "none")

\* The derivation runs for well-formed calls over blobs that are not too
\* short; it may fail, for want of memory for instance.
Open(passphrase) ==
  /\ pwAt = "sealed" /\ pwAt' = "done" /\ typed' = passphrase
  /\ kdfRan' = (~pwBlob.short /\ CallRefusal(pwEnv, pwClaim, passphrase) = OK)
  /\ \/ pwResult' = PwOpened(pwEnv, pwClaim, passphrase, pwBlob)
     \/ kdfRan' /\ pwResult' = PwReturned("raised", "KDF_DERIVATION_FAILED")
  /\ UNCHANGED <<pwEnv, pwClaim, pwBlob, pwChanges>>

PhraseNext ==
  \/ \E a \in Args : PwSeal(a)
  \/ PwAlter
  \/ \E passphrase \in Passphrases : Open(passphrase)

PhraseSpec == PhraseInit /\ [][PhraseNext]_pwVars

-----------------------------------------------------------------------------
(* The inductive invariant.                                                *)

\* What is stored: an envelope of some values, and a blob that was sealed with
\* good arguments, but for its length, its bytes and the claim in its commitment.
StoredInv ==
  LET a == pwBlob.args
  IN /\ a \in Args /\ PwSealRefusal(a) = OK
     /\ pwBlob = [commitment |-> pwBlob.commitment, key |-> BlobOf(a).key,
                short |-> pwBlob.short, intact |-> pwBlob.intact, args |-> a]
     /\ pwBlob.short \in BOOLEAN /\ pwBlob.intact \in BOOLEAN
     /\ pwBlob.commitment \in {BlobOf(a).commitment,
                              [BlobOf(a).commitment EXCEPT !.hashes = NoPwHashes]}
     /\ pwEnv \in [scheme : {1, 2}, aead : {"stream64k", "gcm"}, alg : {"argon2id", "scrypt"},
                 nonce : PwNonces \cup {"short"}, salt : Salts, params : Params]
     /\ pwClaim \in PwHashes

\* What an open has said is about what is stored.
OpenedInv ==
  /\ kdfRan = (~pwBlob.short /\ CallRefusal(pwEnv, pwClaim, typed) = OK)
  /\ \/ pwResult = PwOpened(pwEnv, pwClaim, typed, pwBlob)
     \/ kdfRan /\ pwResult = PwReturned("raised", "KDF_DERIVATION_FAILED")

HasOpened == typed # <<>> \/ kdfRan

PhraseInv ==
  /\ pwAt \in {"choosing", "sealed", "done"}
  /\ HasOpened => pwAt = "done" /\ OpenedInv
  /\ pwAt = "sealed" \/ HasOpened => StoredInv

-----------------------------------------------------------------------------
Password(text) == NormalizePassphrase(text)

\* The stored blob is a whole one, sealed for the stored header and claim.
BelongsTogether ==
  pwBlob = BlobOf(pwBlob.args) /\ pwEnv = EnvelopeOf(pwBlob.args) /\ pwClaim = pwBlob.args.hashes

(* A blob opens exactly when record and blob belong together and the       *)
(* passphrase is a spelling of the one the blob was sealed with; anything  *)
(* else is an error of the call or the one generic rejection               *)
(* (passphrase_sealed_poe_open).                                           *)
OpensOnlyThePassphrase ==
  pwAt = "done" /\ typed # <<>> /\ pwResult.reason # "KDF_DERIVATION_FAILED" =>
    (pwResult.kind = "match"
      <=> BelongsTogether /\ Password(typed) = Password(pwBlob.args.passphrase))

(* A weak record never circulates and no blob changes what is wrong with a *)
(* call: a derivation runs with parameters at or above the floors only, in *)
(* a seal as in an open, and an error is the same whatever the blob.       *)
ErrorsComeBeforeTheBlob ==
  /\ pwAt = "sealed" \/ kdfRan =>
       LET params == IF kdfRan THEN pwEnv.params ELSE pwBlob.args.params
       IN params.m >= ARGON2_M_MIN /\ params.t >= ARGON2_T_MIN /\ params.p >= ARGON2_P_MIN
  /\ pwAt = "done" /\ typed # <<>> /\ CallRefusal(pwEnv, pwClaim, typed) # OK =>
       \A b \in {pwBlob, [pwBlob EXCEPT !.short = TRUE], BlobOf(pwBlob.args)} :
         PwOpened(pwEnv, pwClaim, typed, b) = pwResult

\* passphrase_sealed_poe_open: a blob opens under its passphrase in its own
\* record only, and what is wrong with a call is said whatever the blob.
PassphrasesOpenTheirOwn == PhraseInv /\ OpensOnlyThePassphrase /\ ErrorsComeBeforeTheBlob
=============================================================================
