----------------------------- MODULE AnchorOnce -----------------------------
(***************************************************************************)
(* What a sealed publish promises its caller, whatever crashes, retries    *)
(* and lost answers lie in between: the ciphertexts of one prepared seal   *)
(* reach storage, the record that names them is anchored once, never       *)
(* before every ciphertext is stored, and never above the caller's cap.    *)
(***************************************************************************)
EXTENDS Naturals

CONSTANTS
  N,        \* number of items in the prepared seal
  Prices,   \* what publishing may cost
  Cap,      \* max_usd_micros, or NoCap
  NoCap

Index == 1..N

WithinCap(price) == Cap # NoCap => price <= Cap

VARIABLES
  held,     \* the items whose ciphertext storage holds
  anchored, \* has a record been published (and charged for)?
  paid      \* the price charged, 0 before

vars == <<held, anchored, paid>>

Init ==
  /\ held = {}
  /\ anchored = FALSE
  /\ paid = 0

Store(i) ==
  /\ held' = held \cup {i}
  /\ UNCHANGED <<anchored, paid>>

Anchor(price) ==
  /\ held = Index
  /\ ~anchored
  /\ WithinCap(price)
  /\ anchored' = TRUE
  /\ paid' = price
  /\ UNCHANGED held

Next ==
  \/ \E i \in Index : Store(i)
  \/ \E price \in Prices : Anchor(price)

Spec == Init /\ [][Next]_vars
=============================================================================
