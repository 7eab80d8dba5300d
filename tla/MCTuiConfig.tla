----------------------------- MODULE MCTuiConfig -----------------------------
(* One edit, one refresh, one device login and one Codex login, of which the *)
(* user starts MaxStarted, at the same time or not, besides the load of the  *)
(* start-up; the edit and the device login only when one command starts both.*)
(* It is keys that are held back, to which no fairness applies.              *)
EXTENDS TuiConfig

CONSTANT MaxStarted

OneFile == {{OAuthProvider}}

Started == issued \cap (Edits \cup Refreshes \cup Logins \cup CodexLogins)

FewStarted ==
    /\ Cardinality(Started') <= MaxStarted
    /\ \A e \in Edits, l \in Logins :
          {e, l} \subseteq issued' => (e \in issued <=> l \in issued)

FewSpec == Init /\ [][Next /\ FewStarted]_vars /\ Fairness
=============================================================================
