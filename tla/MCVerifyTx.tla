----------------------------- MODULE MCVerifyTx -----------------------------
(* A small deployment for TLC: an explorer of each kind, two Arweave       *)
(* gateways, one of which has a sandbox subdomain, and an IPFS gateway.    *)
EXTENDS VerifyTx

TheHosts == {"koios", "blockfrost", "ar1", "sandbox.ar1", "ar2", "ip1", "elsewhere"}
TheSubdomains == [h \in TheHosts |-> IF h = "ar1" THEN {"ar1", "sandbox.ar1"} ELSE {h}]
TheKoios == <<"koios">>
TheBlockfrost == <<"blockfrost">>
TheArGateways == <<"ar1", "ar2">>

Ar(good) == [scheme |-> "ar", good |-> good]
Raw(good) == [scheme |-> "raw", good |-> good]
Dag(good) == [scheme |-> "dag", good |-> good]

Item(uris) == [kind |-> "item", uris |-> uris, given |-> "none", seal |-> "none"]
Sealed(uris, given, seal) == [kind |-> "sealed", uris |-> uris, given |-> given, seal |-> seal]
Merkle(uris, given) == [kind |-> "merkle", uris |-> uris, given |-> given, seal |-> "none"]

Carrying(form, signed, claims) ==
  [carried |-> TRUE, form |-> form, signed |-> signed, claims |-> claims]

\* Sound records, and one with each thing that can be wrong.
TheRecords ==
  {[carried |-> FALSE, form |-> "valid", signed |-> "no", claims |-> <<>>]} \cup
  {Carrying("invalid", "no", <<Item(<<>>)>>),
   Carrying("enc_unsupported", "no", <<Sealed(<<Ar(TRUE)>>, "none", "opens")>>),
   Carrying("valid", "badly", <<Item(<<>>)>>),
   Carrying("valid", "well", <<Item(<<Ar(TRUE), Raw(TRUE)>>), Merkle(<<Ar(TRUE)>>, "none")>>),
   Carrying("valid", "no", <<Item(<<Dag(FALSE), Ar(TRUE)>>)>>),
   Carrying("valid", "no", <<Item(<<Ar(TRUE), Raw(FALSE)>>)>>),
   Carrying("valid", "no", <<Item(<<>>), Merkle(<<Dag(TRUE)>>, "none"), Merkle(<<>>, "good")>>),
   Carrying("valid", "no", <<Item(<<>>), Merkle(<<Ar(TRUE)>>, "none")>>),
   Carrying("valid", "no", <<Merkle(<<>>, "bad")>>)} \cup
  {Carrying("valid", "no", <<Sealed(<<Raw(TRUE)>>, "none", seal)>>) :
     seal \in {"opens", "bad_plaintext", "header_failure", "input_failure", "wrong_passphrase", "no_key"}} \cup
  {Carrying("valid", "no", <<Sealed(<<Ar(TRUE)>>, given, "opens")>>) : given \in {"none", "good", "bad"}}

Options(fetch, keyring, profile, denied, ipfs) ==
  [fetch |-> fetch, keyring |-> keyring, profile |-> profile, denied |-> denied, ipfs |-> ipfs]

TheInputs ==
  {Options(TRUE, TRUE, "recipient-sealed", denied, <<"ip1">>) :
     denied \in {{}, {"koios"}, {"ar1"}, {"sandbox.ar1"}}} \cup
  {Options(TRUE, FALSE, "recipient-sealed", {}, <<>>), Options(TRUE, TRUE, "core", {"ar2"}, <<"ip1">>),
   Options(FALSE, TRUE, "recipient-sealed", {}, <<"ip1">>),
   Options(FALSE, FALSE, "signed", {"koios"}, <<"ip1">>)}

TheHonest == {{}, {"blockfrost"}, {"blockfrost", "ar2"}, {"koios", "ar1", "sandbox.ar1", "ip1"}}
=============================================================================
