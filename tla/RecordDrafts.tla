---------------------------- MODULE RecordDrafts ----------------------------
(***************************************************************************)
(* Records composed one field at a time, right or wrong, and what the      *)
(* structural validator's two roles and the opening side                   *)
(* (verifier/decrypt.py, _crypto/sealed_poe.py) make of them.              *)
(***************************************************************************)
EXTENDS Validator

CONSTANTS
  Starts,            \* the records the composing starts from, in a sequence
  Fields,            \* path of a map -> the keys it may be given
  Values,            \* key -> the values it may be given, in a sequence
  MaxEdits           \* bound of the model

VARIABLES record, edits
vars == <<record, edits>>

-----------------------------------------------------------------------------
(* Composing a record.                                                     *)
Init == edits = 0 /\ \E i \in DOMAIN Starts : record = Starts[i]

Edit(path, new) ==
  /\ edits < MaxEdits
  /\ edits' = edits + 1
  /\ record' = Put(record, path, new)
  /\ record' # record

\* A field is given a value, of whatever kind.
Write(path, key, value) ==
  Edit(path, WithKey(At(record, path), key, value))

Drop(path, key) ==
  Has(At(record, path), key) /\ Edit(path, WithoutKey(At(record, path), key))

\* A map gets a key that is no text.
AddNonTextKey(path) == Edit(path, [At(record, path) EXCEPT !.odd = TRUE])

Next ==
  \E path \in {p \in DOMAIN Fields : At(record, p).type = "map"} :
    \/ \E key \in Fields[path] : \/ \E i \in DOMAIN Values[key] : Write(path, key, Values[key][i])
                                 \/ Drop(path, key)
    \/ AddNonTextKey(path)

Spec == Init /\ [][Next]_vars

-----------------------------------------------------------------------------
(* What the opening side asks of an envelope before it opens anything.     *)

\* _sealed_envelope_from_parsed and _assert_envelope_structure.
OpensSlots(enc) ==
  LET slots == Entries(enc, "slots")
      kem == enc.of["kem"].s
      Material(i) == slots[i].of[MaterialField(kem)]
  IN /\ enc.of["scheme"] = Uint(1) /\ IsText(Get(enc, "aead"), {AEAD}) /\ IsText(Get(enc, "kem"), KEMS)
     /\ Len(slots) \in 1..MAX_SLOTS
     /\ Get(enc, "nonce").type = "bytes" /\ enc.of["nonce"].n = 24
     /\ Get(enc, "slots_mac").type = "bytes" /\ enc.of["slots_mac"].n = 32
     /\ \A i \in DOMAIN slots : /\ {MaterialField(kem), "wrap"} \subseteq DOMAIN slots[i].of
                               /\ Material(i).n = MaterialLength(kem) /\ slots[i].of["wrap"].n = 48
     /\ 24 + 32 + Len(slots) * (MaterialLength(kem) + 48) <= MAX_ENVELOPE_BYTES
     /\ \A i, j \in DOMAIN slots : i # j => Material(i) # Material(j)

\* _passphrase_envelope_from_parsed and _assert_passphrase_envelope.
OpensPassphrase(enc) ==
  LET pp == enc.of["passphrase"]
  IN /\ enc.of["scheme"] = Uint(1) /\ IsText(Get(enc, "aead"), {AEAD}) /\ IsText(Get(pp, "alg"), {"argon2id"})
     /\ Get(enc, "nonce").type = "bytes" /\ enc.of["nonce"].n = 24
     /\ Get(pp, "salt").n \in 16..64
     /\ \A name \in {"m", "t", "p"} : /\ Get(pp.of["params"], name).type = "uint"
                                     /\ pp.of["params"].of[name].n \in Floors[name]..UINT32_MAX

-----------------------------------------------------------------------------
Encs == {Get(Entries(record, "items")[i], "enc") : i \in DOMAIN Entries(record, "items")} \ {Absent}

\* An envelope the strict role accepts is one the opening side takes: every
\* bound and length it asks for has been asked for.  (Nulls apart: the
\* validator reads a null field as an absent one where .get() does.)
StrictAcceptanceOpens ==
  Validate(record, "strict").ok /\ ~HasNull(record)
    => \A enc \in Encs : IF Has(enc, "passphrase") THEN OpensPassphrase(enc) ELSE OpensSlots(enc)

\* The roles differ in one thing: a record that only the strict role rejects
\* is one whose envelope names what this implementation does not know, and
\* the strict role rejects whatever the public one does.
RolesNest ==
  \A public \in {Validate(record, "public")}, strict \in {Validate(record, "strict")} :
    /\ strict.ok => public.ok
    /\ public.ok /\ ~strict.ok
         => \A issue \in strict.issues \ public.issues :
              \E enc \in Encs : \E pair \in Unsupported(enc) : issue.code = pair[2]

\* The call fails with something other than issues only for a null where a
\* key path of the envelope was expected.
RaisesOnlyOnNull ==
  \A role \in {"public", "strict"} :
    Validate(record, role).raised
      => \E enc \in Encs : \E key \in {"slots", "kem", "passphrase"} : Get(enc, key) = Null

\* "The validator NEVER raises" (validator.py:26).
ValidatorNeverRaises ==
  \A role \in {"public", "strict"} : ~Validate(record, role).raised
=============================================================================
