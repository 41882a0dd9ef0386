------------------------ MODULE TransactionCarriage ------------------------
(***************************************************************************)
(* How a record travels in a transaction: the chunk array under metadata   *)
(* label 309 (verifier/carriage.py), the walker that slices a fetched      *)
(* transaction without decoding it (verifier/cbor_walker.py), and the      *)
(* binding of the slices to the requested hash (verifier/tx_binding.py).   *)
(* Data are sequences of bytes, positions count from 1, and 0 is where a   *)
(* walk that raised ends.  Hashes are ideal: those of two values are equal *)
(* when the values are; one byte stands for the 32 of a digest.            *)
(***************************************************************************)
EXTENDS Integers, Sequences, SequencesExt, Checks

CONSTANTS
  TRANSPORT_CHUNK_MAX_BYTES,   \* 64 in the code
  Transactions                 \* those of the ledger, see Requested

VARIABLES
  hop,         \* how far the response has been read
  ledger,      \* the transaction that has the requested hash
  target,      \* its body and auxiliary data
  response,    \* what the provider serves
  parts,       \* the components of the response
  carried,     \* what it has under label 309
  reading      \* what verify_tx makes of it: a code, and the record's body

carriageVars == <<hop, ledger, target, response, parts, carried, reading>>

-----------------------------------------------------------------------------
(* Heads and items.                                                        *)

\* The argument that ends at `last`; Long is longer than any input.
ArgumentBytes == [ai \in 24..27 |-> <<1, 2, 4, 8>>[ai - 23]]
Long == 65536
Argument(data, first, last) ==
  IF \E p \in first..(last - 2) : data[p] # 0 THEN Long
  ELSE (IF first < last THEN data[last - 1] * 256 ELSE 0) + data[last]

NoHead == [mt |-> -1, ai |-> 0, value |-> 0, start |-> 0]

\* _read_head: major type, additional information, argument, and where the
\* payload starts; NoHead where it raises.
ReadHead(data, pos) ==
  IF pos \notin DOMAIN data THEN NoHead
  ELSE LET ai == data[pos] % 32
           width == IF ai \in DOMAIN ArgumentBytes THEN ArgumentBytes[ai] ELSE 0
       IN IF ai > 27 \/ pos + width > Len(data) THEN NoHead
          ELSE [mt |-> data[pos] \div 32, ai |-> ai, start |-> pos + 1 + width,
                value |-> IF width = 0 THEN ai ELSE Argument(data, pos + 1, pos + width)]

\* _read_strict_head: shortest form only, of eight bytes too.
StrictHead(data, pos) ==
  LET h == ReadHead(data, pos)
      least == [ai \in 0..27 |-> CASE ai < 24 -> 0 [] ai = 24 -> 24 [] ai = 25 -> 256 [] OTHER -> Long]
      padded == h.ai = 27 /\ \A p \in (pos + 1)..(pos + 4) : data[p] = 0
  IN IF h.value < least[h.ai] \/ padded THEN NoHead ELSE h

\* Where the payload of a head ends, without the items inside it: past the end
\* of the input is 0.  A simple value of one byte is skipped with the byte after
\* it, since its head has taken that byte already.
PayloadEnd(h, limit) ==
  LET end == h.start + (CASE h.mt \in {2, 3} -> h.value [] h.mt = 7 /\ h.ai = 24 -> 1 [] OTHER -> 0)
  IN IF end > limit THEN 0 ELSE end
ItemsInside(h) == CASE h.mt = 4 -> h.value [] h.mt = 5 -> 2 * h.value [] h.mt = 6 -> 1 [] OTHER -> 0

\* _skip_cbor_item, `items` times in a row: where the last item ends.  What is
\* inside an item comes before what is left to skip.
Skip(data, first, items) ==
  LET walk[pos \in 0..(Len(data) + 1), count \in Nat] ==
        IF pos = 0 \/ count = 0 THEN pos
        ELSE LET h == ReadHead(data, pos)
             IN IF h = NoHead THEN 0
                ELSE walk[PayloadEnd(h, Len(data) + 1), count - 1 + ItemsInside(h)]
  IN walk[first, items]

-----------------------------------------------------------------------------
(* Slicing a transaction.                                                  *)

Malformed == [ok |-> FALSE]
NoBytes == <<>>

\* slice_tx_components; aux is NoBytes for null or undefined.
Slices(tx) ==
  LET h == ReadHead(tx, 1)
      pos == Skip(tx, h.start, h.value - 1)
      absent == pos \in DOMAIN tx /\ tx[pos] \in {246, 247}
      end == IF absent THEN pos ELSE Skip(tx, pos, 1)
  IN IF h.mt # 4 \/ h.value \notin {3, 4} \/ end = 0 THEN Malformed
     ELSE [ok |-> TRUE, body |-> SubSeq(tx, h.start, Skip(tx, h.start, 1) - 1),
           aux |-> SubSeq(tx, pos, end - 1)]

\* The entries of a map that a walk has passed: the value slices by key, with
\* Raised for where it raises.
Raised == <<[key |-> -1, from |-> 0, to |-> 0]>>

MapEntries(data, first, pairs) ==
  LET walk[pos \in 0..(Len(data) + 1), count \in Nat] ==
        LET key == ReadHead(data, pos)
            to == Skip(data, pos, 2)
        IN IF count = 0 THEN <<>>
           ELSE IF to = 0 THEN Raised
           ELSE <<[key |-> IF key.mt = 0 THEN key.value ELSE -2,
                   from |-> Skip(data, pos, 1), to |-> to]>> \o walk[to, count - 1]
  IN walk[first, pairs]

\* The first entry of a key, unless the walk raises before it is reached.
Lookup(entries, key) ==
  LET at == SelectInSeq(entries, LAMBDA e : e.key \in {key, -1})
  IN IF at = 0 THEN [key |-> -2, from |-> 0, to |-> 0] ELSE entries[at]

AUX_DATA_HASH_KEY == 7

\* auxiliary_data_hash_from_tx_body: the bytes under the key, or why there are none.
Uncommitted == <<-1>>
Illegible == <<-2>>
CommittedHash(body) ==
  LET h == ReadHead(body, 1)
      hashAt[from \in 1..Len(body), to \in 1..(Len(body) + 1)] ==
        LET v == ReadHead(body, from)
        IN IF v.mt = 2 THEN SubSeq(body, v.start, to - 1) ELSE Illegible
      entry == Lookup(MapEntries(body, h.start, h.value), AUX_DATA_HASH_KEY)
  IN IF h.mt # 5 \/ entry.key = -1 THEN Illegible
     ELSE IF entry.key = AUX_DATA_HASH_KEY THEN hashAt[entry.from, entry.to]
     ELSE Uncommitted

\* What a body must commit to: nothing, the hash of the requested transaction's
\* auxiliary data, or another one.
AuxDigest(requested, aux) ==
  IF aux = NoBytes THEN Uncommitted ELSE IF aux = requested.aux THEN <<170>> ELSE <<171>>

\* Mutated form: auxiliary data the body does not mention is let through.
BindingFailure_Uncommitted(requested, slices) ==
  IF slices.body # requested.body THEN "tx_hash"
  ELSE IF CommittedHash(slices.body) \notin {Uncommitted, AuxDigest(requested, slices.aux)}
  THEN "auxiliary_data_hash" ELSE OK

\* bind_transaction_bytes; `requested` is the transaction that has the hash.
BindingFailure(requested, slices) ==
  IF slices.body # requested.body THEN "tx_hash"
  ELSE IF CommittedHash(slices.body) # AuxDigest(requested, slices.aux) THEN "auxiliary_data_hash"
  ELSE OK

\* unwrap_auxiliary_data: the metadata map sits where the outermost type and
\* tag say, never where its keys look like it; 0 if there is none, -1 if this
\* is no auxiliary data.
MetadataMap(aux) ==
  LET h == ReadHead(aux, 1)
      inner == ReadHead(aux, h.start)
      keyed == Lookup(MapEntries(aux, inner.start, inner.value), 0)
  IN CASE h.mt = 6 -> IF h.value # 259 \/ inner.mt # 5 \/ keyed.key = -1 THEN -1 ELSE keyed.from
       [] h.mt = 4 -> IF h.value # 2 \/ inner.mt # 5 THEN -1 ELSE h.start
       [] h.mt = 5 -> 1
       [] OTHER    -> -1

\* _walk_metadata_map: every label is an integer, the last entry of 309 wins.
Label309(aux) ==
  LET walked[map \in Int] ==
        LET h == ReadHead(aux, map)
        IN IF map = 0 THEN <<>> ELSE IF h.mt = 5 THEN MapEntries(aux, h.start, h.value) ELSE Raised
      found[entries \in Seq([key : Int, from : Int, to : Int])] ==
        LET entry == Lookup(Reverse(entries), 309)
        IN IF \E e \in ToSet(entries) : e.key < 0 THEN Malformed
           ELSE [ok |-> TRUE, value |-> SubSeq(aux, entry.from, entry.to - 1)]
  IN found[walked[MetadataMap(aux)]]

-----------------------------------------------------------------------------
(* The chunk array.                                                        *)

\* The head of shortest form, as encode_canonical_cbor writes it, of a length
\* that a transaction can have: its forms of four and eight bytes do not occur.
MinimalHead(mt, n) ==
  IF n < 24 THEN <<mt * 32 + n>>
  ELSE IF n < 256 THEN <<mt * 32 + 24, n>> ELSE <<mt * 32 + 25, n \div 256, n % 256>>
ByteString(bytes) == MinimalHead(2, Len(bytes)) \o bytes
ArrayOf(items) == MinimalHead(4, Len(items)) \o FlattenSeq(items)

\* chunk_record_body, and what it raises ValueError for.
Chunkable(body) == body # <<>>
Chunks(body) ==
  LET max == TRANSPORT_CHUNK_MAX_BYTES
  IN [c \in 1..((Len(body) + max - 1) \div max) |->
        SubSeq(body, (c - 1) * max + 1, IF c * max < Len(body) THEN c * max ELSE Len(body))]

\* encode_label_309_value, for any chunks.
EncodeChunks(chunks) == ArrayOf([c \in DOMAIN chunks |-> ByteString(chunks[c])])

Failure(code) == [code |-> code, body |-> <<>>]

\* One element of the array; `pos` is where the next one starts.
ReadChunk(value, s) ==
  LET h == StrictHead(value, s.pos)
      end == h.start + h.value
  IN IF s.code # OK THEN s
     ELSE IF h.mt # 2 \/ end > Len(value) + 1 THEN [s EXCEPT !.code = "MALFORMED_CBOR"]
     ELSE IF h.value > TRANSPORT_CHUNK_MAX_BYTES THEN [s EXCEPT !.code = "CHUNK_TOO_LARGE"]
     ELSE [s EXCEPT !.pos = end, !.body = @ \o SubSeq(value, h.start, end - 1)]

\* reassemble_label_309_value.  An array of more elements than bytes fails at
\* the end of the input.
Reassemble(value) ==
  LET h == StrictHead(value, 1)
      count == IF h.value <= Len(value) THEN h.value ELSE Len(value) + 1
      walk[c \in 0..count] ==
        IF c = 0 THEN [pos |-> h.start, code |-> OK, body |-> <<>>]
        ELSE ReadChunk(value, walk[c - 1])
      end == walk[count]
  IN IF h.mt # 4 THEN Failure("MALFORMED_CBOR")
     ELSE IF end.code # OK THEN Failure(end.code)
     ELSE IF end.pos # Len(value) + 1 THEN Failure("MALFORMED_CBOR")
     ELSE [code |-> OK, body |-> end.body]

-----------------------------------------------------------------------------
(* Transactions of the ledger, and responses that are not quite them.      *)

UintItem(n) == MinimalHead(0, n)
MapOf(pairs) == MinimalHead(5, Len(pairs)) \o FlattenSeq(pairs)
\* Metadata: label 309 with a value, among other labels.
Metadata(value, others) ==
  LET poe == <<UintItem(309) \o value>>
      other == <<UintItem(7) \o ArrayOf(<<ByteString(<<1>>), MapOf(<<>>)>>)>>
  IN MapOf(CASE others = "before" -> other \o poe [] others = "after" -> poe \o other
             [] others = "only" -> other [] OTHER -> poe)

AuxiliaryData(t) ==
  LET metadata == Metadata(EncodeChunks(t.chunks), t.others)
  IN CASE t.form = "none"   -> NoBytes
       [] t.form = "map"    -> metadata
       [] t.form = "array"  -> ArrayOf(<<metadata, ArrayOf(<<>>)>>)
       [] t.form = "tagged" ->
            MinimalHead(6, 259) \o MapOf(<<UintItem(1) \o ArrayOf(<<>>), UintItem(0) \o metadata>>)
       [] OTHER             -> MinimalHead(6, 259) \o MapOf(<<UintItem(1) \o ArrayOf(<<>>)>>)

Requested(t) ==
  LET aux == AuxiliaryData(t)
      hash == IF aux = NoBytes THEN <<>> ELSE <<UintItem(AUX_DATA_HASH_KEY) \o ByteString(<<170>>)>>
  IN [body |-> MapOf(<<UintItem(0) \o ArrayOf(<<UintItem(30)>>)>> \o hash), aux |-> aux]

\* What the ledger asks of its transactions: the body commits to the auxiliary
\* data, and to nothing when there are none.
LedgerCommits ==
  \A t \in Transactions :
    CommittedHash(Requested(t).body) = AuxDigest(Requested(t), Requested(t).aux)

\* And their chunks are bytes.
LedgerOfBytes == \A t \in Transactions : t.form # "value" /\ t.chunks \in Seq(Seq(Nat))

Transaction(t, aux) ==
  LET witnesses == MapOf(<<UintItem(0) \o ArrayOf(<<>>)>>)
      slot == IF aux = NoBytes THEN <<246>> ELSE aux
      valid == IF t.elements = 4 THEN <<<<245>>>> ELSE <<>>
  IN ArrayOf(<<Requested(t).body, witnesses>> \o valid \o <<slot>>)

\* The record in it, if its chunks are the ledger's.
Expected(t) ==
  IF t.form \in {"none", "tagged without"} \/ t.others = "only" THEN Failure("METADATA_NOT_FOUND")
  ELSE IF \E c \in DOMAIN t.chunks : Len(t.chunks[c]) > TRANSPORT_CHUNK_MAX_BYTES
  THEN Failure("CHUNK_TOO_LARGE")
  ELSE [code |-> OK, body |-> FlattenSeq(t.chunks)]

\* Data one byte away from these.
Altered(data) ==
  {SubSeq(data, 1, n) : n \in 0..(Len(data) - 1)} \cup {Append(data, 64)}
    \cup {RemoveAt(data, p) : p \in DOMAIN data}
    \cup {[data EXCEPT ![p] = v] : p \in DOMAIN data, v \in {0, 64, 88, 129, 160, 246}}
    \cup {[data EXCEPT ![p] = (@ + 1) % 256] : p \in DOMAIN data}
    \cup {[data EXCEPT ![p] = (@ + 255) % 256] : p \in DOMAIN data}

\* Every way to cut a body into n chunks, empty ones included.
Cuttings(body, n) ==
  IF n = 0 THEN {<<>>}
  ELSE {[c \in 1..n |-> SubSeq(body, cut[c - 1] + 1, cut[c])] :
          cut \in {f \in [0..n -> 0..Len(body)] :
                     f[0] = 0 /\ f[n] = Len(body) /\ \A c \in 1..n : f[c - 1] <= f[c]}}

\* Responses to a request for t: the transaction itself, one with its parts
\* carried in another way, and what is a byte away.
Responses(t) ==
  LET honest == Transaction(t, AuxiliaryData(t))
  IN {honest} \cup Altered(honest)
       \cup {Transaction(t, AuxiliaryData([t EXCEPT !.form = form])) :
               form \in {"none", "map", "array", "tagged"}}

\* Label values: the chunks of a cutting, and what is a byte away.
LabelValues(cutting) ==
  LET encoded == EncodeChunks(cutting)
  IN {encoded} \cup Altered(encoded) \cup {<<152>> \o encoded, <<129, 88>> \o Tail(encoded)}
       \cup {<<155, 0, 0, 0, v, 0, 0, 0, w>> \o Tail(encoded) : v \in 0..1, w \in 0..1}

-----------------------------------------------------------------------------
NoSlices == [body |-> NoBytes, aux |-> NoBytes]
UnreadValue == Failure("unread")

\* A response to the request for a transaction, or a label value by itself.
CarriageInit ==
  /\ parts = NoSlices /\ reading = UnreadValue
  /\ \/ /\ hop = "served" /\ carried = <<>>
        /\ ledger \in Transactions
        /\ target = Requested(ledger)
        /\ response \in Responses(ledger)
     \/ /\ hop = "found" /\ target = NoSlices /\ response = <<>>
        /\ \E body \in {FlattenSeq(t.chunks) : t \in Transactions}, n \in 1..3 :
             \E cutting \in Cuttings(body, n) :
               /\ ledger = [form |-> "value", elements |-> 1, others |-> "none", chunks |-> cutting]
               /\ carried \in LabelValues(cutting)

\* _bind_fetched_tx: slice, or the response is no transaction.
SliceResponse ==
  /\ hop = "served"
  /\ LET sliced == Slices(response)
     IN \/ /\ sliced.ok
           /\ parts' = [body |-> sliced.body, aux |-> sliced.aux] /\ hop' = "sliced"
           /\ UNCHANGED reading
        \/ /\ ~sliced.ok
           /\ reading' = Failure("unusable") /\ hop' = "done"
           /\ UNCHANGED parts
  /\ UNCHANGED <<ledger, target, response, carried>>

\* _bind_fetched_tx: bind, or the provider is at fault.
BindSlices ==
  /\ hop = "sliced"
  /\ IF BindingFailure(target, parts) = OK THEN hop' = "bound" /\ UNCHANGED reading
     ELSE reading' = Failure("binding failed") /\ hop' = "done"
  /\ UNCHANGED <<ledger, target, response, parts, carried>>

\* verify_tx: look up label 309 in the auxiliary data.
FindLabel ==
  /\ hop = "bound"
  /\ \E label \in {IF parts.aux # NoBytes THEN Label309(parts.aux)
                    ELSE [ok |-> TRUE, value |-> <<>>]} :
       IF label.ok /\ label.value # <<>>
         THEN carried' = label.value /\ hop' = "found" /\ UNCHANGED reading
         ELSE /\ reading' = Failure(IF label.ok THEN "METADATA_NOT_FOUND" ELSE "MALFORMED_CBOR")
              /\ hop' = "done" /\ UNCHANGED carried
  /\ UNCHANGED <<ledger, target, response, parts>>

\* verify_tx: put its chunks together.
ReadValue ==
  /\ hop = "found"
  /\ reading' = Reassemble(carried) /\ hop' = "done"
  /\ UNCHANGED <<ledger, target, response, parts, carried>>

CarriageNext == SliceResponse \/ BindSlices \/ FindLabel \/ ReadValue

CarriageSpec == CarriageInit /\ [][CarriageNext]_carriageVars

-----------------------------------------------------------------------------
(* Whatever a provider serves, what passes the binding carries the record  *)
(* of the requested transaction or its absence, and the transaction itself *)
(* passes (_bind_fetched_tx, verify_tx step 3).                            *)
BoundMeansTheRecord ==
  hop = "done" /\ ledger.form # "value" =>
    /\ reading \in {Failure("unusable"), Failure("binding failed"), Expected(ledger)}
    /\ response = Transaction(ledger, target.aux) => reading = Expected(ledger)

(* What passes the binding is the body and the auxiliary data asked for,   *)
(* and what is read follows from them alone: nothing else in the response  *)
(* counts (bind_transaction_bytes, verify_tx step 3).                      *)
ReadingOf(aux) ==
  LET label == IF aux # NoBytes THEN Label309(aux) ELSE [ok |-> TRUE, value |-> <<>>]
  IN IF label.ok /\ label.value # <<>> THEN Reassemble(label.value)
     ELSE Failure(IF label.ok THEN "METADATA_NOT_FOUND" ELSE "MALFORMED_CBOR")

WhatIsReadWasAskedFor ==
  ledger.form # "value" =>
    /\ hop \in {"bound", "found"} => parts.body = target.body /\ parts.aux = target.aux
    /\ hop = "done" =>
         reading \in {Failure("unusable"), Failure("binding failed"), ReadingOf(target.aux)}

(* Where the body was cut says nothing: every cutting within the limit is  *)
(* the same record, whichever the publisher chose                          *)
(* (encode_label_309_value, reassemble_label_309_value).                   *)
WithinLimit(cutting) == \A c \in DOMAIN cutting : Len(cutting[c]) <= TRANSPORT_CHUNK_MAX_BYTES

CuttingsAreReadBack ==
  hop = "done" /\ ledger.form = "value" /\ carried = EncodeChunks(ledger.chunks) =>
    reading = IF WithinLimit(ledger.chunks) THEN [code |-> OK, body |-> FlattenSeq(ledger.chunks)]
              ELSE Failure("CHUNK_TOO_LARGE")

(* And a value is accepted only if it is the canonical encoding of such a  *)
(* cutting; the publisher's own is one                                     *)
(* (chunk_record_body, reassemble_label_309_value).                        *)
CuttingsAreOneRecord ==
  /\ CuttingsAreReadBack
  /\ hop = "done" /\ ledger.form = "value" /\ reading.code = OK =>
       /\ \E n \in 0..4 : \E cutting \in Cuttings(reading.body, n) :
            WithinLimit(cutting) /\ carried = EncodeChunks(cutting)
       /\ Chunkable(reading.body) =>
            WithinLimit(Chunks(reading.body)) /\ FlattenSeq(Chunks(reading.body)) = reading.body

\* slice_tx_components, bind_transaction_bytes, reassemble_label_309_value:
\* what passes the binding carries the requested transaction's record, and a
\* record is the same wherever its body was cut.
CarriedRecordsAreWhole == BoundMeansTheRecord /\ WhatIsReadWasAskedFor /\ CuttingsAreOneRecord
=============================================================================
