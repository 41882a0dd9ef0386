------------------------------ MODULE HexTexts ------------------------------
(***************************************************************************)
(* Hexadecimal arguments (_hex_to_bytes and its callers in                 *)
(* client/publish.py).  A text has a length, of which some characters are  *)
(* spaces between bytes; bytes.fromhex skips them.                         *)
(***************************************************************************)
EXTENDS Integers

HexText(chars, spaces, hex) == [chars |-> chars, spaces |-> spaces, hex |-> hex]
NoText == HexText(-1, 0, TRUE)

\* bytes.fromhex: the number of bytes, or -1.
FromHex(text) ==
  IF text.hex /\ (text.chars - text.spaces) % 2 = 0 THEN (text.chars - text.spaces) \div 2 ELSE -1
=============================================================================
