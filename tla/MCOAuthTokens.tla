--------------------------- MODULE MCOAuthTokens ---------------------------
(* The tokens, and the keyring below the vault that keeps them.  OAuthTokens
   takes a call of the vault as one step, which is what ImplementsVault says of
   the calls of one caller; the two share no state, and each is checked with
   the other at rest.  Secrets: a short one, two of two pieces and one of three. *)
EXTENDS OAuthTokens, KeyringVault, TLC

CONSTANTS short, two, other, three
MCSize == [s \in Secrets |-> IF s = short THEN 1 ELSE IF s = three THEN 3 ELSE 2]
AnyNames == Permutations(Requests) \cup Permutations(Logins)

SecretsVars == <<tokenVars, vars>>
TokensRest == now = 0 /\ \A r \in Requests : req[r] = NoRequest /\ \A l \in Logins : login[l] = NoLogin /\ approved[l] = Never
KeyringRests == main = NoEntry /\ \A i \in DOMAIN chunks : chunks[i] = NoPiece /\ \A c \in Clients : call[c] = Idle /\ answer[c] = Err /\ before[c] = NoSecret
SecretsNext ==
  \/ KeyringRests /\ TokensNext /\ UNCHANGED vars
  \/ TokensRest /\ Next /\ UNCHANGED tokenVars
SecretsInit == TokensInit /\ Init
SecretsSpec == SecretsInit /\ [][SecretsNext]_SecretsVars
=============================================================================
