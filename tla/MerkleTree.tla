----------------------------- MODULE MerkleTree -----------------------------
(***************************************************************************)
(* The RFC 9162 tree of a list commitment (_crypto/merkle_sha2_256.py),    *)
(* the leaves-list document (_crypto/merkle_leaves_list.py), its check     *)
(* against a record (verifier/merkle.py), and inclusion certificates       *)
(* (certificate/).  Pure functions: the properties range over their        *)
(* inputs.  SHA-256 is ideal: a hash is the value that was hashed, <<d>>   *)
(* for a leaf and <<l, r>> for a node.  All values are sequences: a datum  *)
(* has three entries, <<>> is a value that is not 32 bytes long, and a     *)
(* hexadecimal field is the value it stands for, or NotHex.                *)
(***************************************************************************)
EXTENDS Integers, Sequences, SequencesExt, Checks

CONSTANT MAX_TREE_SIZE   \* 2^32 - 1 in the code

\* _hash_leaf and _hash_node; the prefixes keep them apart.
HashLeaf(d) == <<d>>
HashNode(l, r) == <<l, r>>
Malformed == <<>>
NotHex == <<0, 0, 0, 0>>

-----------------------------------------------------------------------------
(* The tree.                                                               *)

\* _largest_pow2_lt, for n >= 2.
LargestPow2Lt(n) == CHOOSE k \in {2^j : j \in 0..n} : k < n /\ 2 * k >= n

\* merkle_sha2_256_root; of no leaves there is none.
RECURSIVE Root(_)
Root(leaves) ==
  LET n == Len(leaves)  k == LargestPow2Lt(n)
  IN IF n = 0 THEN Malformed
     ELSE IF n = 1 THEN HashLeaf(leaves[1])
     ELSE HashNode(Root(SubSeq(leaves, 1, k)), Root(SubSeq(leaves, k + 1, n)))

\* _audit_path of the leaf at index i, from the leaf to the root.
RECURSIVE AuditPath(_, _)
AuditPath(leaves, i) ==
  LET n == Len(leaves)  k == LargestPow2Lt(n)
      left == SubSeq(leaves, 1, k)  right == SubSeq(leaves, k + 1, n)
  IN IF n = 1 THEN <<>>
     ELSE IF i < k THEN Append(AuditPath(left, i), Root(right))
     ELSE Append(AuditPath(right, i - k), Root(left))

\* The inner loop of the fold: up to where the node is a right child.
RECURSIVE Ascend(_, _)
Ascend(fn, sn) == IF fn % 2 = 0 /\ fn # 0 THEN Ascend(fn \div 2, sn \div 2) ELSE <<fn, sn>>

\* Mutated form: the carried node is not walked up.
FoldSibling_NoCarry(s, sibling) ==
  IF s.rejected \/ s.sn = 0 THEN [s EXCEPT !.rejected = TRUE]
  ELSE IF s.fn % 2 = 1 \/ s.fn = s.sn
  THEN [s EXCEPT !.r = HashNode(sibling, s.r), !.fn = s.fn \div 2, !.sn = s.sn \div 2]
  ELSE [s EXCEPT !.r = HashNode(s.r, sibling), !.fn = s.fn \div 2, !.sn = s.sn \div 2]

\* One turn of the fold over the proof.
FoldSibling(s, sibling) ==
  IF s.rejected \/ s.sn = 0 THEN [s EXCEPT !.rejected = TRUE]
  ELSE IF s.fn % 2 = 1 \/ s.fn = s.sn
  THEN LET up == Ascend(s.fn, s.sn)
       IN [s EXCEPT !.r = HashNode(sibling, s.r), !.fn = up[1] \div 2, !.sn = up[2] \div 2]
  ELSE [s EXCEPT !.r = HashNode(s.r, sibling), !.fn = s.fn \div 2, !.sn = s.sn \div 2]

InRange(index, size) == size \in 1..MAX_TREE_SIZE /\ index \in 0..(size - 1)

\* merkle_sha2_256_verify_inclusion: "raised", "yes" or "no".
VerifyInclusion(leaf, index, size, proof, root) ==
  LET start == [r |-> HashLeaf(leaf), fn |-> index, sn |-> size - 1, rejected |-> FALSE]
      end == FoldLeft(FoldSibling, start, proof)
      shaped == Malformed \notin {leaf, root} \cup ToSet(proof)
  IN IF ~InRange(index, size) THEN "raised"
     ELSE IF /\ shaped
             /\ size = 1 => proof = <<>>
             /\ ~end.rejected /\ end.sn = 0 /\ end.r = root
     THEN "yes" ELSE "no"

-----------------------------------------------------------------------------
(* The leaves-list document.                                               *)

\* encode_leaves_list; the root is the caller's and is not recomputed.
EncodeLeaves(leaves, root) ==
  [format |-> "v1", treeAlg |-> "rfc9162", root |-> root, leaves |-> leaves,
   leafCount |-> Len(leaves), leafAlg |-> "text"]

EncodeRefused(leaves, root) ==
  root = Malformed \/ leaves = <<>> \/ Malformed \in ToSet(leaves)

\* decode_leaves_list, whose last check is the document's own root.
DecodeLeaves(doc) == FirstFailing(<<
  <<"SCHEMA_MERKLE_LEAVES_MALFORMED", doc.format = "not text">>,
  <<"SCHEMA_MERKLE_LEAVES_FORMAT_UNSUPPORTED", doc.format # "v1">>,
  <<"SCHEMA_MERKLE_LEAVES_MALFORMED",
    \/ doc.treeAlg # "rfc9162" \/ doc.root = Malformed
    \/ doc.leaves = <<>> \/ Malformed \in ToSet(doc.leaves)
    \/ doc.leafCount < 0>>,
  <<"SCHEMA_MERKLE_LEAF_COUNT_MISMATCH", doc.leafCount # Len(doc.leaves)>>,
  <<"SCHEMA_MERKLE_LEAVES_MALFORMED", doc.leafAlg = "not text">>,
  <<"MERKLE_ROOT_MISMATCH", Root(doc.leaves) # doc.root>> >>)

\* _validate_leaves_document, against the commitment of the record.
ValidateDocument(doc, commit) == FirstFailing(<<
  <<DecodeLeaves(doc), DecodeLeaves(doc) # OK>>,
  <<"SCHEMA_MERKLE_LEAF_COUNT_MISMATCH", doc.leafCount # commit.leafCount>>,
  <<"MERKLE_ROOT_MISMATCH", Root(doc.leaves) # commit.root>> >>)

-----------------------------------------------------------------------------
(* Inclusion certificates.                                                 *)

\* The errors of build_inclusion_certificate, in its order.
BuildRefusal(anchor, merkle, leaves) == FirstFailing(<<
  <<"unsupported tree_alg", merkle.treeAlg # "rfc9162">>,
  <<"malformed root", merkle.root = Malformed>>,
  <<"tree_size", merkle.size # Len(leaves)>>,
  <<"malformed leaves", leaves = <<>> \/ Malformed \in ToSet(leaves)>>,
  <<"root mismatch", Root(leaves) # merkle.root>>,
  <<"block_time", ~anchor.timeInRange>> >>)

\* _find_leaf_index: the first leaf that is the target, or -1.
FindLeafIndex(leaves, target) == SelectInSeq(leaves, LAMBDA d : d = target) - 1

\* _build_item: a target that is not there stays in the certificate as a miss.
BuildItem(leaves, root, target) ==
  LET index == IF target = Malformed THEN -1 ELSE FindLeafIndex(leaves, target)
      proof == IF index < 0 THEN <<>> ELSE AuditPath(leaves, index)
  IN [leaf |-> target, index |-> index, proof |-> proof, error |-> index < 0,
      verified |-> index >= 0 /\ VerifyInclusion(target, index, Len(leaves), proof, root) = "yes"]

BuildCertificate(anchor, merkle, leaves, targets) ==
  [format |-> "v1", treeAlg |-> merkle.treeAlg, size |-> merkle.size, root |-> merkle.root,
   anchor |-> [present |-> TRUE, chain |-> anchor.chain, label |-> 309],
   items |-> [t \in DOMAIN targets |-> BuildItem(leaves, merkle.root, targets[t])]]

\* _verify_item: the stored verdict is not looked at.
VerifyItem(item, size, root) ==
  /\ ~item.error /\ item.index \in 0..(size - 1)
  /\ NotHex \notin {item.leaf} \cup ToSet(item.proof)
  /\ VerifyInclusion(item.leaf, item.index, size, item.proof, root) = "yes"

\* What verify_inclusion_certificate rejects a certificate as a whole for.
CertificateRefusal(cert) == FirstFailing(<<
  <<"unsupported format", cert.format # "v1">>,
  <<"unsupported tree_alg", cert.treeAlg # "rfc9162">>,
  <<"missing anchor", ~cert.anchor.present>>,
  <<"unsupported chain", cert.anchor.chain # "cardano">>,
  <<"unsupported label", cert.anchor.label # 309>>,
  <<"tree_size", cert.size \notin 1..MAX_TREE_SIZE>>,
  <<"malformed root", cert.root = NotHex>> >>)

\* verify_inclusion_certificate: a certificate without items is not ok.
VerifyCertificate(cert) ==
  /\ CertificateRefusal(cert) = OK /\ cert.items # <<>>
  /\ \A i \in DOMAIN cert.items : VerifyItem(cert.items[i], cert.size, cert.root)

\* _decode_proven_item and encode_cose_inclusion_proof: only an item that is
\* marked as proven is encoded, under an anchor whose hash is hex.
CoseRefused(item, merkle, anchor) ==
  \/ item.error \/ ~item.verified
  \/ ~InRange(item.index, merkle.size)
  \/ {NotHex, Malformed} \cap ({item.leaf} \cup ToSet(item.proof)) # {}
  \/ merkle.root = Malformed
  \/ anchor.txHash = NotHex

EncodeCose(item, merkle) ==
  [size |-> merkle.size, index |-> item.index, proof |-> item.proof,
   root |-> merkle.root, leaf |-> item.leaf]

-----------------------------------------------------------------------------
Indices(leaves) == 0..(Len(leaves) - 1)

\* The audit paths of a tree, and what is one fault away from them.
Proofs(leaves) ==
  LET paths == {AuditPath(leaves, i) : i \in Indices(leaves)}
      siblings == UNION {ToSet(p) : p \in paths} \cup {Malformed, HashLeaf(leaves[1])}
  IN paths \cup {Append(p, s) : p \in paths, s \in siblings}
           \cup UNION {{Front(p), Tail(p), Reverse(p)} : p \in paths \ {<<>>}}
           \cup {[p EXCEPT ![1] = s] : p \in paths \ {<<>>}, s \in siblings}

(* The iterative fold is the recursive tree's: at its size it accepts, for *)
(* each index, the leaf there with its audit path and nothing else.  For   *)
(* any claimed size it accepts no datum that is not a leaf, and it raises  *)
(* only out of range (merkle_sha2_256_verify_inclusion).                   *)
FoldMatchesTree(leaves) ==
  LET n == Len(leaves)  root == Root(leaves)
  IN \A proof \in Proofs(leaves), leaf \in ToSet(leaves) \cup {Malformed, root}, index \in -1..n :
       /\ index \in 0..(n - 1) =>
            (VerifyInclusion(leaf, index, n, proof, root) = "yes"
               <=> leaf = leaves[index + 1] /\ proof = AuditPath(leaves, index))
       /\ \A size \in 0..(MAX_TREE_SIZE + 1) :
            LET verdict == VerifyInclusion(leaf, index, size, proof, root)
            IN /\ verdict = "yes" => leaf \in ToSet(leaves)
               /\ verdict = "raised" <=> ~InRange(index, size)

\* Leaves-list documents one fault away from the one of these leaves.
Documents(leaves) ==
  LET honest == EncodeLeaves(leaves, Root(leaves))
      other == Append(leaves, leaves[1])
  IN {honest, EncodeLeaves(other, Root(other)), EncodeLeaves(other, Root(leaves)),
      EncodeLeaves(Reverse(leaves), Root(leaves)),
      [honest EXCEPT !.leafCount = @ + 1], [honest EXCEPT !.root = Malformed],
      [honest EXCEPT !.leaves[1] = Malformed], [honest EXCEPT !.format = "v2"],
      [honest EXCEPT !.leaves = <<>>], [honest EXCEPT !.leafAlg = "not text"]}

(* A document is accepted for a commitment exactly when it is well formed, *)
(* of the committed length, and its leaves have the committed root,        *)
(* whatever root and count it declares itself; and what the encoder writes *)
(* is read back unless its root is not that of the leaves.                 *)
DocumentIsTheCommitment(leaves) ==
  LET commit == [root |-> Root(leaves), leafCount |-> Len(leaves)]
  IN /\ \A doc \in Documents(leaves), count \in {Len(leaves), Len(leaves) + 1} :
          ValidateDocument(doc, [commit EXCEPT !.leafCount = count]) = OK
            <=> doc = EncodeLeaves(leaves, commit.root) /\ count = Len(leaves)
     /\ \A root \in {commit.root, HashLeaf(leaves[1]), Malformed} :
          LET refused == EncodeRefused(leaves, root)
          IN DecodeLeaves(EncodeLeaves(leaves, root)) = OK <=> ~refused /\ root = commit.root

(* A certificate says of each target whether it is a leaf: the builder's   *)
(* verdict, the re-verification and the COSE export agree, a certificate   *)
(* that hides nothing verifies as a whole, and one whose items have been   *)
(* changed only where they still prove a leaf at its index.  Only the      *)
(* export reads the anchor's hash, so it alone refuses one that is no hex. *)
CertificatesAreHonest(leaves) ==
  LET merkle == [treeAlg |-> "rfc9162", root |-> Root(leaves), size |-> Len(leaves)]
      anchor == [chain |-> "cardano", txHash |-> <<3>>, timeInRange |-> TRUE]
      others == {<<9, 9, 9>>, Malformed}
      Cert(targets) == BuildCertificate(anchor, merkle, leaves, targets)
  IN /\ BuildRefusal(anchor, merkle, leaves) = OK
     /\ BuildRefusal(anchor, [merkle EXCEPT !.root = HashLeaf(@)], leaves) # OK
     /\ \A a, b \in ToSet(leaves) \cup others :
          LET cert == Cert(<<a, b>>)
          IN /\ VerifyCertificate(cert) <=> {a, b} \cap others = {}
             /\ ~VerifyCertificate([cert EXCEPT !.anchor.chain = "other"])
             /\ \A i \in 1..2 :
                  LET item == cert.items[i]
                  IN /\ item.verified <=> item.leaf \in ToSet(leaves)
                     /\ item.verified <=> VerifyItem(item, cert.size, cert.root)
                     /\ item.verified <=> ~CoseRefused(item, merkle, anchor)
                     /\ CoseRefused(item, merkle, [anchor EXCEPT !.txHash = NotHex])
                     /\ ~CoseRefused(item, merkle, anchor) =>
                          LET c == EncodeCose(item, merkle)
                          IN VerifyInclusion(c.leaf, c.index, c.size, c.proof, c.root) = "yes"
             /\ \A other \in Indices(leaves), leaf \in ToSet(leaves) \cup others \cup {NotHex} :
                  LET changed == [cert.items[1] EXCEPT !.index = other, !.leaf = leaf,
                                    !.verified = TRUE, !.error = FALSE]
                  IN VerifyItem(changed, cert.size, cert.root) => leaf = leaves[other + 1]
=============================================================================
