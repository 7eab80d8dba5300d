--------------------------- MODULE MCKeyringVault ---------------------------
(* A short secret, two of two pieces and one of three. *)
EXTENDS KeyringVault
CONSTANTS short, two, other, three
MCSize == [s \in Secrets |-> IF s = short THEN 1 ELSE IF s = three THEN 3 ELSE 2]
=============================================================================
