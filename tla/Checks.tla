------------------------------- MODULE Checks -------------------------------
(***************************************************************************)
(* An ordered list of checks, as the library writes them: the first one    *)
(* that fails names the error.  A check is a pair of its error code and    *)
(* the condition under which it fails.                                     *)
(***************************************************************************)
EXTENDS Naturals, Sequences

OK == "ok"

\* The error of the first of the codes that is one.
FirstError(codes) ==
  IF \A c \in DOMAIN codes : codes[c] = OK THEN OK
  ELSE codes[CHOOSE c \in DOMAIN codes : codes[c] # OK /\ \A b \in 1..(c - 1) : codes[b] = OK]

FirstFailing(checks) ==
  IF \A c \in DOMAIN checks : ~checks[c][2] THEN OK
  ELSE checks[CHOOSE c \in DOMAIN checks :
                checks[c][2] /\ \A b \in 1..(c - 1) : ~checks[b][2]][1]
=============================================================================
