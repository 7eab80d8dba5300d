--------------------------- MODULE Secrets_proofs ---------------------------
(* The vault on the operating system's keyring, and the tokens that the logins
   and requests of the OAuth providers keep in it. *)
EXTENDS OAuthTokens, KeyringVault, TLAPS

(***************************************************************************)
(* The vault.  A caller that is alone sees the vault of the trait, whatever*)
(* the secrets, their sizes and the failures.                              *)
(*                                                                         *)
(* The abstract vault holds what could be read from the entries, or damage *)
(* while a store or delete is under way.  What has to be known of the      *)
(* entries: a store has written the pieces it has passed (Written); a      *)
(* retrieve has gathered a prefix of the row the marker names (Gathered);  *)
(* and while a store or delete is under way the entries still read as      *)
(* before it, or the first piece is gone or already the new secret's       *)
(* (Replacing), so that the row can stand for no third secret.             *)
(***************************************************************************)
Matches(s, n) == \A j \in 0 .. n - 1 : chunks[j] = [secret |-> s, index |-> j]

Shape ==
  LET k == call[client] IN
  /\ k.op = "idle" => k = Idle
  /\ k.op = "idle" => k.secret = NoSecret
  /\ k.op = "retrieve" => k.secret = NoSecret /\ k.step \in {"look", "read"}
  /\ k.op = "delete" => k.secret = NoSecret
  /\ k.op = "store" => k.secret \in Secrets
  /\ k.step = "look" => k.index = 0 /\ k.combined = <<>>

Written ==
  LET k == call[client] IN
  /\ (k.op = "store" /\ k.step = "chunk")
       => k.index < Size[k.secret] /\ Size[k.secret] > 1
          /\ Matches(k.secret, k.index)
  /\ (k.op = "store" /\ k.step = "main" /\ Size[k.secret] > 1)
       => Matches(k.secret, Size[k.secret])

Gathered ==
  LET k == call[client] IN
  k.op = "retrieve" =>
    /\ Readable = before[client]
    /\ k.step = "read" =>
         /\ k.count = main.chunks
         /\ k.index < k.count
         /\ k.combined = [i \in 1 .. k.index |-> chunks[i - 1]]

Replacing ==
  LET k == call[client] IN
  Writing(client) =>
    \/ Readable = before[client]
    \/ chunks[0] = NoPiece /\ IsMarker(main)
    \/ chunks[0] = [secret |-> k.secret, index |-> 0] /\ IsMarker(main)

Steps ==
  LET k == call[client] IN
  Writing(client) =>
    /\ k.step \in {"look", "drop", "chunk", "main"}
    /\ k.step = "drop" => k.index < k.count /\ k.count = main.chunks
    /\ k.step = "drop" /\ k.index > 0 => chunks[0] = NoPiece
    /\ k.step \in {"look", "main"} => k.index = 0

IInv == TypeOK /\ Shape /\ Written /\ Gathered /\ Replacing /\ Steps
-----------------------------------------------------------------------------
(* Rows of pieces. *)

(* Two secrets never have the same row. *)
LEMMA RowOfSecret ==
  ASSUME NEW s \in Secrets
  PROVE  Meaning(secret_chunks(s)) = s
<1>1. Size[s] \in 1 .. MaxSize /\ 1 \in 1 .. Size[s]
  BY SizeAssumption
<1>2. ASSUME NEW t \in Secrets, secret_chunks(t) = secret_chunks(s)
      PROVE  t = s
  <2>1. Size[t] \in 1 .. MaxSize /\ 1 \in 1 .. Size[t]
    BY SizeAssumption
  <2>2. secret_chunks(t)[1].secret = t
    BY <2>1 DEF secret_chunks
  <2>3. secret_chunks(s)[1].secret = s
    BY <1>1 DEF secret_chunks
  <2> QED BY <2>2, <2>3, <1>2
<1> QED BY <1>2 DEF Meaning

(* A row means the secret its first piece is of, or nothing. *)
LEMMA RowMeaning ==
  ASSUME NEW row
  PROVE  /\ Meaning(row) \in Secrets \cup {Damaged}
         /\ Meaning(row) \in {row[1].secret, Damaged}
<1>1. CASE \E s \in Secrets : row = secret_chunks(s)
  <2>1. PICK s \in Secrets : row = secret_chunks(s)
    BY <1>1
  <2>2. Meaning(row) = s
    BY <2>1, RowOfSecret
  <2>3. Size[s] \in 1 .. MaxSize /\ 1 \in 1 .. Size[s]
    BY SizeAssumption
  <2>4. row[1].secret = s
    BY <2>1, <2>3 DEF secret_chunks
  <2> QED BY <2>2, <2>4
<1>2. CASE ~ \E s \in Secrets : row = secret_chunks(s)
  BY <1>2 DEF Meaning
<1> QED BY <1>1, <1>2

(* Entries that start with no piece, or with a piece of one secret, read as
   that secret or as damage. *)
LEMMA FirstPieceDecides ==
  ASSUME IsMarker(main), main \in Entry, NEW s \in Secrets \cup {NoSecret},
         \/ chunks[0] = NoPiece
         \/ chunks[0] = [secret |-> s, index |-> 0]
  PROVE  Readable \in {s, Damaged}
<1> DEFINE row == [i \in 1 .. main.chunks |-> chunks[i - 1]]
<1>1. main # NoEntry
  BY DEF IsMarker, NoEntry
<1>2. Readable = Meaning(row)
  BY <1>1 DEF Readable, Read
<1>3. main.chunks \in Nat /\ main.chunks > 0
  BY SizeAssumption DEF Entry, IsMarker
<1>4. row[1] = chunks[0]
  BY <1>3
<1>5. row[1].secret \in {s, NoSecret}
  BY <1>4 DEF NoPiece
<1>6. Meaning(row) \in Secrets \cup {Damaged} /\ Meaning(row) \in {row[1].secret, Damaged}
  BY RowMeaning
<1> QED BY <1>2, <1>5, <1>6, DistinctAnswers

LEMMA ReadableType ==
  ASSUME main \in Entry
  PROVE  Readable \in Secrets \cup {NoSecret, Damaged}
BY RowMeaning DEF Readable, Read, Entry

(* What is read when the entry is a marker and the row is the secret's. *)
LEMMA ReadsBack ==
  ASSUME NEW s \in Secrets, NEW entry, NEW pieces,
         \/ entry = Plain(s)
         \/ /\ entry = chunk_marker(Size[s])
            /\ \A j \in 0 .. Size[s] - 1 : pieces[j] = [secret |-> s, index |-> j]
  PROVE  Read(entry, pieces) = s
<1>1. Size[s] \in Nat /\ Size[s] > 0
  BY SizeAssumption
<1>2. CASE entry = Plain(s)
  BY <1>2, DistinctAnswers DEF Plain, NoEntry, Read, IsMarker
<1>3. CASE /\ entry = chunk_marker(Size[s])
           /\ \A j \in 0 .. Size[s] - 1 : pieces[j] = [secret |-> s, index |-> j]
  <2>1. entry.chunks = Size[s] /\ entry # NoEntry /\ IsMarker(entry)
    BY <1>1, <1>3 DEF chunk_marker, NoEntry, IsMarker
  <2>2. [i \in 1 .. entry.chunks |-> pieces[i - 1]] = secret_chunks(s)
    <3>1. \A i \in 1 .. Size[s] : i - 1 \in 0 .. Size[s] - 1
      BY <1>1
    <3> QED BY <1>3, <2>1, <3>1 DEF secret_chunks
  <2> QED BY <2>1, <2>2, RowOfSecret DEF Read
<1> QED BY <1>2, <1>3
-----------------------------------------------------------------------------
(* The steps. *)

LEMMA InitInv == Clients = {client} /\ Init => IInv
<1> SUFFICES ASSUME Clients = {client}, Init PROVE IInv
  OBVIOUS
<1>1. TypeOK
  BY SizeAssumption DEF TypeOK, Init, Entry, NoEntry, Piece, NoPiece, Call, Idle, Err
<1>2. call[client] = Idle
  BY DEF Init
<1> QED BY <1>1, <1>2 DEF IInv, Shape, Written, Gathered, Replacing, Steps, Idle, Writing

(* A step of the client that leaves the entries alone and goes on. *)
LEMMA BeginStep ==
  ASSUME Clients = {client}, IInv,
         Store(client) \/ Retrieve(client) \/ Delete(client)
  PROVE  IInv' /\ (Vault!BeginWrite \/ Vault!BeginRetrieve)
<1>1. PICK op \in {"store", "retrieve", "delete"}, s \in Secrets \cup {NoSecret} :
        /\ Begin(client, op, s)
        /\ op = "store" <=> s \in Secrets
  BY DistinctAnswers DEF Store, Retrieve, Delete
<1> DEFINE k == [op |-> op, secret |-> s, step |-> "look", index |-> 0,
                 count |-> 0, combined |-> <<>>]
<1>2. /\ call[client] = Idle
      /\ call'[client] = k
      /\ UNCHANGED <<main, chunks, answer>>
      /\ before'[client] = Readable
  BY <1>1 DEF Begin, IInv, TypeOK, Idle
<1>3. main \in Entry /\ Readable' = Readable
  BY <1>2 DEF IInv, TypeOK, Readable, Read
<1>4. TypeOK'
  <2>1. k \in Call
    <3>1. <<>> \in Seq(Piece)
      OBVIOUS
    <3> QED BY <3>1, SizeAssumption DEF Call
  <2>2. call' \in [Clients -> Call]
    BY <2>1, <1>1, <1>2 DEF Begin, IInv, TypeOK
  <2>3. before' \in [Clients -> Secrets \cup {NoSecret, Damaged}]
    BY <1>1, <1>3, ReadableType DEF Begin, IInv, TypeOK
  <2> QED BY <2>2, <2>3, <1>2 DEF IInv, TypeOK
<1>5. Shape' /\ Written' /\ Gathered' /\ Replacing' /\ Steps'
  BY <1>1, <1>2, <1>3, DistinctAnswers
     DEF Shape, Written, Gathered, Replacing, Steps, Writing, Idle
<1>6. Vault!BeginWrite \/ Vault!BeginRetrieve
  BY <1>1, <1>2, <1>3, DistinctAnswers
     DEF Vault!BeginWrite, Vault!BeginRetrieve, Vault!Begin, Vault!Idle, Idle, Writing
<1> QED BY <1>4, <1>5, <1>6 DEF IInv

LEMMA LookStep ==
  ASSUME Clients = {client}, IInv, Look(client)
  PROVE  IInv' /\ UNCHANGED Vault!vars
<1> DEFINE k == call[client]
           k2 == call'[client]
<1>1. /\ k.op \in {"store", "delete"} /\ k.step = "look"
      /\ UNCHANGED <<main, chunks, before, answer>>
      /\ k \in Call /\ main \in Entry
  BY DEF IInv, TypeOK, Look, At
<1>2. PICK count \in {main.chunks, 0} :
        call' = [call EXCEPT ![client].count = count,
                             ![client].step = IF count > 0 THEN "drop" ELSE AfterDrop(client)]
  BY DEF Look
<1>3. k2 = [k EXCEPT !.count = count, !.step = IF count > 0 THEN "drop" ELSE AfterDrop(client)]
  BY <1>2 DEF IInv, TypeOK
<1>4. TypeOK'
  <2>1. /\ k.secret \in Secrets \cup {NoSecret} /\ k.index \in 0 .. MaxSize
        /\ k.combined \in Seq(Piece) /\ count \in 0 .. MaxSize
    BY <1>1, SizeAssumption DEF Call, Entry
  <2>2. k2 = [op |-> k.op, secret |-> k.secret, index |-> k.index,
              step |-> IF count > 0 THEN "drop" ELSE AfterDrop(client),
              count |-> count, combined |-> k.combined]
    BY <1>1, <1>3 DEF Call
  <2>3. (IF count > 0 THEN "drop" ELSE AfterDrop(client)) \in {"drop", "chunk", "main"}
    BY DEF AfterDrop
  <2>4. k2 \in Call
    BY <1>1, <2>1, <2>2, <2>3 DEF Call
  <2> QED BY <2>4, <1>1, <1>2 DEF IInv, TypeOK
<1>5. Readable' = Readable
  BY <1>1 DEF Readable, Read
<1>6. k.index = 0 /\ count \in Nat
  BY <1>1, SizeAssumption DEF IInv, Shape, Entry
<1>7. Shape' /\ Gathered' /\ Replacing' /\ Steps'
  BY <1>1, <1>3, <1>5, <1>6 DEF IInv, Shape, Gathered, Replacing, Steps, Writing, AfterDrop, Call
<1>8. Written'
  <2>1. k.op = "store" => Size[k.secret] \in Nat /\ Size[k.secret] > 0
    BY SizeAssumption DEF IInv, Shape
  <2> QED BY <2>1, <1>1, <1>3, <1>6 DEF Written, AfterDrop, Call, Matches
<1>9. UNCHANGED Vault!vars
  BY <1>1, <1>3, <1>5 DEF Vault!vars, Writing, Call
<1> QED BY <1>4, <1>7, <1>8, <1>9 DEF IInv

LEMMA DropChunkStep ==
  ASSUME Clients = {client}, IInv, DropChunk(client)
  PROVE  IInv' /\ UNCHANGED Vault!vars
<1> DEFINE k == call[client]
           k2 == call'[client]
           i == k.index
           final == ~ (i + 1 < k.count)
<1>1. /\ k.op \in {"store", "delete"} /\ k.step = "drop"
      /\ UNCHANGED <<main, before, answer>>
      /\ k \in Call /\ main \in Entry /\ chunks \in [0 .. MaxSize - 1 -> Piece]
      /\ i \in Nat /\ k.count \in 0 .. MaxSize /\ i < k.count /\ k.count = main.chunks
      /\ i > 0 => chunks[0] = NoPiece
  BY SizeAssumption DEF IInv, TypeOK, Steps, Writing, DropChunk, At, Call
<1>2. chunks' = [chunks EXCEPT ![i] = NoPiece]
  BY DEF DropChunk
<1>3. call' = [call EXCEPT ![client].step = IF final THEN AfterDrop(client) ELSE "drop",
                           ![client].index = IF final THEN 0 ELSE i + 1]
  BY DEF DropChunk, Go
<1>4. k2 = [op |-> k.op, secret |-> k.secret,
            step |-> IF final THEN AfterDrop(client) ELSE "drop",
            index |-> IF final THEN 0 ELSE i + 1,
            count |-> k.count, combined |-> k.combined]
  BY <1>1, <1>3 DEF IInv, TypeOK, Call
<1>5. AfterDrop(client) \in {"chunk", "main"}
  BY DEF AfterDrop
<1>6. TypeOK'
  <2>1. k2 \in Call
    <3>1. (IF final THEN AfterDrop(client) ELSE "drop") \in {"drop", "chunk", "main"}
      BY <1>5
    <3>2. (IF final THEN 0 ELSE i + 1) \in 0 .. MaxSize
      BY <1>1, SizeAssumption
    <3>3. k.secret \in Secrets \cup {NoSecret} /\ k.combined \in Seq(Piece)
      BY <1>1 DEF Call
    <3> QED BY <1>1, <1>4, <3>1, <3>2, <3>3 DEF Call
  <2>2. NoPiece \in Piece
    BY SizeAssumption DEF NoPiece, Piece
  <2>3. chunks' \in [0 .. MaxSize - 1 -> Piece]
    BY <1>1, <1>2, <2>2
  <2> QED BY <2>1, <2>3, <1>1, <1>3 DEF IInv, TypeOK
<1>7. IsMarker(main) /\ chunks'[0] = NoPiece
  BY <1>1, <1>2, SizeAssumption DEF IsMarker
<1>8. Shape' /\ Gathered' /\ Replacing' /\ Steps'
  BY <1>1, <1>4, <1>5, <1>7 DEF IInv, Shape, Gathered, Replacing, Steps, Writing, IsMarker
<1>9. Written'
  <2>1. k.op = "store" => Size[k.secret] \in Nat /\ Size[k.secret] > 0
    BY SizeAssumption DEF IInv, Shape
  <2> QED BY <2>1, <1>1, <1>4 DEF Written, AfterDrop, Matches
<1>10. UNCHANGED Vault!vars
  BY <1>1, <1>4 DEF Vault!vars, Writing
<1> QED BY <1>6, <1>8, <1>9, <1>10 DEF IInv

LEMMA StoreChunkStep ==
  ASSUME Clients = {client}, IInv, StoreChunk(client)
  PROVE  IInv' /\ UNCHANGED Vault!vars
<1> DEFINE k == call[client]
           k2 == call'[client]
           s == k.secret
           i == k.index
           final == ~ (i + 1 < Size[s])
<1>1. /\ k.op = "store" /\ k.step = "chunk" /\ s \in Secrets
      /\ UNCHANGED <<main, before, answer>>
      /\ k \in Call /\ main \in Entry /\ chunks \in [0 .. MaxSize - 1 -> Piece]
      /\ i \in Nat /\ i < Size[s] /\ Size[s] > 1 /\ Matches(s, i)
  BY SizeAssumption DEF IInv, TypeOK, Shape, Written, StoreChunk, At, Call
<1>2. Size[s] \in 1 .. MaxSize
  BY <1>1, SizeAssumption
<1>3. /\ Len(secret_chunks(s)) = Size[s]
      /\ secret_chunks(s)[i + 1] = [secret |-> s, index |-> i]
  BY <1>1, <1>2 DEF secret_chunks
<1>4. chunks' = [chunks EXCEPT ![i] = [secret |-> s, index |-> i]]
  BY <1>3 DEF StoreChunk
<1>5. call' = [call EXCEPT ![client].step = IF final THEN "main" ELSE "chunk",
                           ![client].index = IF final THEN 0 ELSE i + 1]
  BY <1>3 DEF StoreChunk, Go
<1>6. k2 = [op |-> k.op, secret |-> s,
            step |-> IF final THEN "main" ELSE "chunk",
            index |-> IF final THEN 0 ELSE i + 1,
            count |-> k.count, combined |-> k.combined]
  BY <1>1, <1>5 DEF IInv, TypeOK, Call
<1>7. TypeOK'
  <2>1. k2 \in Call
    <3>1. (IF final THEN "main" ELSE "chunk") \in {"chunk", "main"}
      OBVIOUS
    <3>2. (IF final THEN 0 ELSE i + 1) \in 0 .. MaxSize
      BY <1>1, <1>2, SizeAssumption
    <3>3. k.count \in 0 .. MaxSize /\ k.combined \in Seq(Piece)
      BY <1>1 DEF Call
    <3> QED BY <1>1, <1>6, <3>1, <3>2, <3>3 DEF Call
  <2>2. [secret |-> s, index |-> i] \in Piece
    BY <1>1, <1>2, SizeAssumption DEF Piece
  <2>3. chunks' \in [0 .. MaxSize - 1 -> Piece]
    BY <1>1, <1>4, <2>2
  <2> QED BY <2>1, <2>3, <1>1, <1>5 DEF IInv, TypeOK
<1>8. \A j \in 0 .. i : chunks'[j] = [secret |-> s, index |-> j]
  BY <1>1, <1>2, <1>4, SizeAssumption DEF Matches
<1>9. Written'
  BY <1>1, <1>2, <1>6, <1>8 DEF Written, Matches
<1>10. Replacing'
  <2>1. CASE IsMarker(main)
    <3>1. chunks'[0] = [secret |-> s, index |-> 0]
      BY <1>1, <1>8
    <3> QED BY <3>1, <2>1, <1>1, <1>6 DEF Replacing, IsMarker
  <2>2. CASE ~ IsMarker(main)
    <3>1. Readable = before[client]
      BY <2>2, <1>1 DEF IInv, Replacing, Writing
    <3>2. Readable' = Readable
      BY <2>2, <1>1 DEF Readable, Read, IsMarker
    <3> QED BY <3>1, <3>2, <1>1 DEF Replacing
  <2> QED BY <2>1, <2>2
<1>11. Shape' /\ Gathered' /\ Steps'
  BY <1>1, <1>6 DEF Shape, Gathered, Steps, Writing
<1>12. UNCHANGED Vault!vars
  BY <1>1, <1>6 DEF Vault!vars, Writing
<1> QED BY <1>7, <1>9, <1>10, <1>11, <1>12 DEF IInv

(* The client's call is over: little of the invariant is left to be shown. *)
LEMMA CallIsOver ==
  ASSUME Clients = {client}, IInv, NEW a, Answer(client, a), UNCHANGED before,
         a \in [ok : BOOLEAN, secret : Secrets \cup {NoSecret, Damaged}],
         main' \in Entry, chunks' \in [0 .. MaxSize - 1 -> Piece]
  PROVE  /\ IInv'
         /\ call'[client] = Idle /\ answer'[client] = a
<1>1. call'[client] = Idle /\ answer'[client] = a
  BY DEF Answer, IInv, TypeOK
<1>2. Idle \in Call
  <2>1. <<>> \in Seq(Piece)
    OBVIOUS
  <2> QED BY <2>1, SizeAssumption DEF Call, Idle
<1>3. TypeOK'
  BY <1>2 DEF Answer, IInv, TypeOK
<1>4. Shape' /\ Written' /\ Gathered' /\ Replacing' /\ Steps'
  BY <1>1 DEF Shape, Written, Gathered, Replacing, Steps, Writing, Idle
<1> QED BY <1>1, <1>3, <1>4 DEF IInv

LEMMA StoreMainStep ==
  ASSUME Clients = {client}, IInv, StoreMain(client)
  PROVE  IInv' /\ Vault!EndWrite
<1> DEFINE s == call[client].secret
<1>1. /\ call[client].op = "store" /\ call[client].step = "main" /\ s \in Secrets
      /\ UNCHANGED <<chunks, before>>
      /\ main' = IF Size[s] = 1 THEN Plain(s) ELSE chunk_marker(Size[s])
      /\ Answer(client, Ok(NoSecret))
      /\ Size[s] > 1 => Matches(s, Size[s])
      /\ chunks \in [0 .. MaxSize - 1 -> Piece]
  BY DEF StoreMain, At, IInv, Shape, Written, TypeOK
<1>2. Size[s] \in 1 .. MaxSize
  BY <1>1, SizeAssumption
<1>3. main' \in Entry
  BY <1>1, <1>2, SizeAssumption DEF Entry, Plain, chunk_marker
<1>4. IInv' /\ call'[client] = Idle /\ answer'[client] = Ok(NoSecret)
  BY <1>1, <1>3, CallIsOver DEF Ok
<1>5. Readable' = s
  <2>1. \/ main' = Plain(s)
        \/ /\ main' = chunk_marker(Size[s])
           /\ \A j \in 0 .. Size[s] - 1 : chunks[j] = [secret |-> s, index |-> j]
    BY <1>1, <1>2 DEF Matches
  <2>2. ASSUME NEW entry, NEW pieces, entry = main', pieces = chunks
        PROVE  Read(entry, pieces) = s
    <3> HIDE DEF s
    <3>1. s \in Secrets
      BY <1>1
    <3>2. \/ entry = Plain(s)
          \/ /\ entry = chunk_marker(Size[s])
             /\ \A j \in 0 .. Size[s] - 1 : pieces[j] = [secret |-> s, index |-> j]
      BY <2>1, <2>2
    <3> QED BY <3>1, <3>2, ReadsBack
  <2> QED BY <2>2, <1>1 DEF Readable
<1>6. Vault!EndWrite
  BY <1>1, <1>4, <1>5
     DEF Vault!EndWrite, Vault!Answer, Vault!Idle, Vault!Ok, Ok, Idle, Writing
<1> QED BY <1>4, <1>6

LEMMA DeleteMainStep ==
  ASSUME Clients = {client}, IInv, DeleteMain(client)
  PROVE  IInv' /\ Vault!EndWrite
<1>1. /\ call[client].op = "delete" /\ call[client].secret = NoSecret
      /\ UNCHANGED <<chunks, before>>
      /\ main' = NoEntry
      /\ Answer(client, Ok(NoSecret))
      /\ chunks \in [0 .. MaxSize - 1 -> Piece]
  BY DEF DeleteMain, At, IInv, Shape, TypeOK
<1>2. main' \in Entry
  BY <1>1, SizeAssumption DEF Entry, NoEntry
<1>3. IInv' /\ call'[client] = Idle /\ answer'[client] = Ok(NoSecret)
  BY <1>1, <1>2, CallIsOver DEF Ok
<1>4. Readable' = NoSecret
  BY <1>1 DEF Readable, Read
<1>5. Vault!EndWrite
  BY <1>1, <1>3, <1>4
     DEF Vault!EndWrite, Vault!Answer, Vault!Idle, Vault!Ok, Ok, Idle, Writing
<1> QED BY <1>3, <1>5

LEMMA RetrieveMainStep ==
  ASSUME Clients = {client}, IInv, RetrieveMain(client)
  PROVE  IInv' /\ (Vault!EndRetrieve \/ Vault!Fail \/ UNCHANGED Vault!vars)
<1> DEFINE k == call[client]
           k2 == call'[client]
<1>1. /\ k.op = "retrieve" /\ k.step = "look" /\ k.secret = NoSecret
      /\ k.index = 0 /\ k.combined = <<>>
      /\ UNCHANGED <<main, chunks, before>>
      /\ Readable' = Readable /\ Readable = before[client]
      /\ k \in Call /\ main \in Entry /\ chunks \in [0 .. MaxSize - 1 -> Piece]
  BY DEF RetrieveMain, At, IInv, Shape, Gathered, TypeOK, Readable, Read
<1>2. CASE IsMarker(main)
  <2>1. /\ call' = [call EXCEPT ![client].step = "read", ![client].count = main.chunks]
        /\ UNCHANGED answer
    BY <1>2 DEF RetrieveMain
  <2>2. k2 = [op |-> "retrieve", secret |-> NoSecret, step |-> "read", index |-> 0,
              count |-> main.chunks, combined |-> <<>>]
    BY <1>1, <2>1 DEF IInv, TypeOK, Call
  <2>3. main.chunks \in 0 .. MaxSize /\ main.chunks > 0
    BY <1>1, <1>2 DEF Entry, IsMarker
  <2>4. k2 \in Call
    BY <1>1, <2>2, <2>3, SizeAssumption DEF Call
  <2>5. TypeOK'
    BY <2>1, <2>4, <1>1 DEF IInv, TypeOK
  <2>6. [i \in 1 .. 0 |-> chunks[i - 1]] = <<>>
    OBVIOUS
  <2>7. Gathered'
    BY <1>1, <2>2, <2>3, <2>6 DEF Gathered
  <2>8. Shape' /\ Written' /\ Replacing' /\ Steps'
    BY <2>2 DEF Shape, Written, Replacing, Steps, Writing
  <2>9. UNCHANGED Vault!vars
    <3>1. k.op = "retrieve" /\ k2.op = k.op /\ k2.secret = k.secret
      BY <1>1, <2>2
    <3> QED BY <3>1, <1>1, <2>1 DEF Vault!vars, Writing
  <2> QED BY <2>5, <2>7, <2>8, <2>9 DEF IInv
<1>3. CASE ~ IsMarker(main)
  <2> DEFINE a == IF main = NoEntry THEN Err ELSE Ok(main.secret)
  <2>1. Answer(client, a)
    BY <1>3 DEF RetrieveMain
  <2>2. a \in [ok : BOOLEAN, secret : Secrets \cup {NoSecret, Damaged}]
    BY <1>1 DEF Err, Ok, Entry
  <2>3. IInv' /\ call'[client] = Idle /\ answer'[client] = a
    BY <2>1, <2>2, <1>1, CallIsOver
  <2>4. CASE main = NoEntry
    BY <2>3, <2>4, <1>1
       DEF Vault!Fail, Vault!Answer, Vault!Idle, Vault!Err, Err, Idle, Writing
  <2>5. CASE main # NoEntry
    <3>1. main.chunks = 0
      BY <1>1, <1>3, SizeAssumption DEF Entry, IsMarker
    <3>2. main.secret # NoSecret
      BY <3>1, <2>5, <1>1 DEF Entry, NoEntry
    <3>3. Readable = main.secret
      BY <2>5, <1>3 DEF Readable, Read
    <3> QED BY <2>3, <2>5, <3>2, <3>3, <1>1
        DEF Vault!EndRetrieve, Vault!Answer, Vault!Idle, Vault!Ok, Ok, Idle, Writing
  <2> QED BY <2>3, <2>4, <2>5
<1> QED BY <1>2, <1>3

LEMMA RetrieveChunkStep ==
  ASSUME Clients = {client}, IInv, RetrieveChunk(client)
  PROVE  IInv' /\ (Vault!EndRetrieve \/ Vault!Fail \/ UNCHANGED Vault!vars)
<1> DEFINE k == call[client]
           k2 == call'[client]
           i == k.index
           combined == Append(k.combined, chunks[i])
<1>1. /\ k.op = "retrieve" /\ k.step = "read" /\ k.secret = NoSecret
      /\ k.count = main.chunks /\ i < k.count /\ i \in Nat
      /\ k.combined = [j \in 1 .. i |-> chunks[j - 1]]
      /\ UNCHANGED <<main, chunks, before>>
      /\ Readable' = Readable /\ Readable = before[client]
      /\ k \in Call /\ main \in Entry /\ chunks \in [0 .. MaxSize - 1 -> Piece]
  BY SizeAssumption DEF RetrieveChunk, At, IInv, Shape, Gathered, TypeOK, Readable, Read, Call
<1>2. main.chunks \in 1 .. MaxSize
  BY <1>1, SizeAssumption DEF Entry
<1>3. combined = [j \in 1 .. i + 1 |-> chunks[j - 1]] /\ combined \in Seq(Piece)
  <2>1. i \in 0 .. MaxSize - 1 /\ chunks[i] \in Piece
    BY <1>1, <1>2, SizeAssumption
  <2>2. k.combined \in Seq(Piece) /\ Len(k.combined) = i
    BY <1>1 DEF Call
  <2> QED BY <2>1, <2>2, <1>1
<1>4. CASE chunks[i] = NoPiece
  <2>1. Answer(client, Err)
    BY <1>4 DEF RetrieveChunk
  <2>2. IInv' /\ call'[client] = Idle /\ answer'[client] = Err
    BY <2>1, <1>1, CallIsOver DEF Err
  <2> QED BY <2>2, <1>1
      DEF Vault!Fail, Vault!Answer, Vault!Idle, Vault!Err, Err, Idle, Writing
<1>5. CASE chunks[i] # NoPiece /\ i + 1 = k.count
  <2>1. Answer(client, Ok(Meaning(combined)))
    BY <1>5 DEF RetrieveChunk
  <2>2. Meaning(combined) \in Secrets \cup {Damaged}
    BY RowMeaning
  <2>3. IInv' /\ call'[client] = Idle /\ answer'[client] = Ok(Meaning(combined))
    BY <2>1, <2>2, <1>1, CallIsOver DEF Ok
  <2>4. Readable = Meaning(combined)
    <3>1. IsMarker(main) /\ main # NoEntry
      BY <1>2 DEF IsMarker, NoEntry
    <3> QED BY <3>1, <1>1, <1>3, <1>5 DEF Readable, Read
  <2> QED BY <2>2, <2>3, <2>4, <1>1, DistinctAnswers
      DEF Vault!EndRetrieve, Vault!Answer, Vault!Idle, Vault!Ok, Ok, Idle, Writing
<1>6. CASE chunks[i] # NoPiece /\ i + 1 # k.count
  <2>1. /\ call' = [call EXCEPT ![client].index = i + 1, ![client].combined = combined]
        /\ UNCHANGED answer
    BY <1>6 DEF RetrieveChunk
  <2>2. k2 = [op |-> "retrieve", secret |-> NoSecret, step |-> "read", index |-> i + 1,
              count |-> k.count, combined |-> combined]
    BY <1>1, <2>1 DEF IInv, TypeOK, Call
  <2>3. k2 \in Call
    <3>1. i + 1 \in 0 .. MaxSize /\ k.count \in 0 .. MaxSize
      BY <1>1, <1>2, SizeAssumption
    <3> QED BY <3>1, <1>3, <2>2 DEF Call
  <2>4. TypeOK'
    BY <2>1, <2>3, <1>1 DEF IInv, TypeOK
  <2>5. Gathered'
    BY <1>1, <1>2, <1>3, <1>6, <2>2 DEF Gathered
  <2>6. Shape' /\ Written' /\ Replacing' /\ Steps'
    BY <2>2 DEF Shape, Written, Replacing, Steps, Writing
  <2>7. UNCHANGED Vault!vars
    <3>1. k.op = "retrieve" /\ k2.op = k.op /\ k2.secret = k.secret
      BY <1>1, <2>2
    <3> QED BY <3>1, <1>1, <2>1 DEF Vault!vars, Writing
  <2> QED BY <2>4, <2>5, <2>6, <2>7 DEF IInv
<1> QED BY <1>4, <1>5, <1>6

LEMMA AbortStep ==
  ASSUME Clients = {client}, IInv, Abort(client)
  PROVE  IInv' /\ Vault!Fail
<1> DEFINE k == call[client]
<1>1. /\ k # Idle /\ Answer(client, Err)
      /\ UNCHANGED <<main, chunks, before>>
      /\ Readable' = Readable
      /\ main \in Entry /\ chunks \in [0 .. MaxSize - 1 -> Piece]
  BY DEF Abort, IInv, TypeOK, Readable
<1>2. IInv' /\ call'[client] = Idle /\ answer'[client] = Err
  BY <1>1, CallIsOver DEF Err
<1>3. k.op # "idle" /\ k.op \in {"idle", "store", "retrieve", "delete"}
      /\ k.secret \in Secrets \cup {NoSecret}
  BY <1>1 DEF IInv, Shape, TypeOK, Call
<1>4. Writing(client) => Readable \in {before[client], k.secret, Damaged}
  BY <1>1, <1>3, FirstPieceDecides DEF IInv, Replacing
<1>5. Vault!Fail
  BY <1>1, <1>2, <1>3, <1>4
     DEF Vault!Fail, Vault!Answer, Vault!Idle, Vault!Err, Err, Idle, Writing
<1> QED BY <1>2, <1>5
-----------------------------------------------------------------------------
(* The theorem. *)

LEMMA NextStep ==
  ASSUME Clients = {client}, IInv, [Next]_vars
  PROVE  IInv' /\ [Vault!Next]_(Vault!vars)
<1>1. CASE UNCHANGED vars
  BY <1>1 DEF vars, IInv, TypeOK, Shape, Written, Gathered, Replacing, Steps,
              Writing, Matches, Readable, Vault!vars
<1>2. CASE Next
  <2>1. CASE Store(client) \/ Retrieve(client) \/ Delete(client)
    BY <2>1, BeginStep DEF Vault!Next
  <2>2. CASE Look(client)
    BY <2>2, LookStep
  <2>3. CASE DropChunk(client)
    BY <2>3, DropChunkStep
  <2>4. CASE StoreChunk(client)
    BY <2>4, StoreChunkStep
  <2>5. CASE StoreMain(client)
    BY <2>5, StoreMainStep DEF Vault!Next
  <2>6. CASE DeleteMain(client)
    BY <2>6, DeleteMainStep DEF Vault!Next
  <2>7. CASE RetrieveMain(client)
    BY <2>7, RetrieveMainStep DEF Vault!Next
  <2>8. CASE RetrieveChunk(client)
    BY <2>8, RetrieveChunkStep DEF Vault!Next
  <2>9. CASE Abort(client)
    BY <2>9, AbortStep DEF Vault!Next
  <2> QED BY <1>2, <2>1, <2>2, <2>3, <2>4, <2>5, <2>6, <2>7, <2>8, <2>9 DEF Next
<1> QED BY <1>1, <1>2

LEMMA InitStep == Clients = {client} /\ Init => Vault!Init
BY DEF Init, Vault!Init, Vault!Idle, Vault!Err, Idle, Err, Writing, Readable, Read

(* For a caller that is alone the entries of the keyring are the vault of the
   trait, whatever is stored, however long it is, and wherever calls of the
   keyring fail or the process ends. *)
THEOREM KeyringImplementsVault == Clients = {client} /\ Spec => ImplementsVault
<1> SUFFICES ASSUME Clients = {client}
             PROVE  Spec => ImplementsVault
  OBVIOUS
<1>1. Init => IInv /\ Vault!Init
  BY InitInv, InitStep
<1>2. IInv /\ [Next]_vars => IInv' /\ [Vault!Next]_(Vault!vars)
  BY NextStep
<1> QED BY <1>1, <1>2, PTL DEF Spec, ImplementsVault, Vault!Spec
-----------------------------------------------------------------------------
(***************************************************************************)
(* The tokens, for any number of logins and requests, any times, and a     *)
(* server that rotates its refresh tokens or does not.  The invariant says *)
(* where a token of a login may be, and that of the tokens of one login    *)
(* only one is live.                                                       *)
(***************************************************************************)
TokensTypeOK ==
  /\ now \in Nat /\ vault \in [Refs -> SUBSET Token] /\ api_key \in {"nobody"} \cup Logins
  /\ grant \in [Logins -> Nat] /\ approved \in [Logins -> {Never} \cup Nat]
  /\ req \in [Requests -> Request] /\ login \in [Logins -> Login]
  /\ last \in [Refs -> {"nobody"} \cup Logins] /\ mishaps \in [Refs -> SUBSET {"dropped", "overtaken"}]

RequestSteps == {"idle", "key", "token", "refresh", "answered", "bearer", "failed"}
LoginSteps == {"idle", "loop", "sleep", "slow", "wait", "exchange", "answered", "key", "key.", "done", "keyed", "timed out", "failed"}

LEMMA TimeFacts ==
  /\ SKEW \in Nat /\ TIMEOUT \in Nat /\ Interval \in Nat /\ Life \in Nat /\ MaxDelay \in Nat /\ MaxTime \in Nat
  /\ Interval > 0 /\ MaxDelay <= SKEW /\ MaxDelay < Life
BY TimeAssumption

LEMMA TokenFields ==
  ASSUME NEW t \in Token
  PROVE  t.login \in Logins /\ t.gen \in Nat /\ t.expires \in Nat /\ t.real \in Nat
BY DEF Token

LEMMA IssuedFacts ==
  ASSUME NEW l \in Logins, NEW g \in Nat, now \in Nat
  PROVE  /\ issued(l, g) \in Token /\ issued(l, g).login = l /\ issued(l, g).gen = g /\ issued(l, g).real = now + Life
<1>1. now + Life \in Nat /\ 0 \in Nat
  BY TimeFacts
<1> QED BY <1>1 DEF issued, Token

LEMMA ReadFacts ==
  ASSUME NEW t \in Token, now \in Nat
  PROVE  /\ token_from_response(t) \in Token /\ token_from_response(t).login = t.login
         /\ token_from_response(t).gen = t.gen /\ token_from_response(t).real = t.real
         /\ token_from_response(t).expires = now + Life
<1>1. now + Life \in Nat
  BY TimeFacts
<1> QED BY <1>1 DEF token_from_response, Token

(* What a request becomes, and a login. *)
Asks(r, pc, ref, token, left) ==
  /\ req'[r].pc = pc /\ req'[r].ref = ref /\ req'[r].token = token /\ req'[r].left = left
  /\ \A q \in Requests \ {r} : req'[q] = req[q]
  /\ req' \in [Requests -> Request]

LogsIn(l, pc, ref, token, deadline, wake) ==
  /\ login'[l].pc = pc /\ login'[l].ref = ref /\ login'[l].token = token
  /\ login'[l].deadline = deadline /\ login'[l].wake = wake
  /\ \A k \in Logins \ {l} : login'[k] = login[k]
  /\ login' \in [Logins -> Login]

LEMMA RequestUpdate ==
  ASSUME req \in [Requests -> Request], NEW r \in Requests, NEW o \in Request, req' = [req EXCEPT ![r] = o]
  PROVE  Asks(r, o.pc, o.ref, o.token, o.left)
BY DEF Asks

LEMMA LoginUpdate ==
  ASSUME login \in [Logins -> Login], NEW l \in Logins, NEW o \in Login, login' = [login EXCEPT ![l] = o]
  PROVE  LogsIn(l, o.pc, o.ref, o.token, o.deadline, o.wake)
BY DEF LogsIn

LEMMA RequestFields ==
  ASSUME req \in [Requests -> Request], NEW r \in Requests
  PROVE  /\ req[r] \in Request /\ req[r].pc \in RequestSteps /\ req[r].ref \in Refs
         /\ req[r].token \subseteq Token /\ req[r].left \in Int
BY DEF Request, RequestSteps

LEMMA LoginFields ==
  ASSUME login \in [Logins -> Login], NEW l \in Logins
  PROVE  /\ login[l] \in Login /\ login[l].pc \in LoginSteps /\ login[l].ref \in Refs
         /\ login[l].token \subseteq Token /\ login[l].deadline \in Nat /\ login[l].wake \in Nat
BY DEF Login, LoginSteps

LEMMA NoRequestType ==
  NoRequest \in Request /\ NoRequest.pc = "idle" /\ NoRequest.ref = "openai" /\ NoRequest.token = {} /\ NoRequest.left = 0
BY DEF NoRequest, Request, Refs

LEMMA NoLoginType ==
  /\ NoLogin \in Login /\ NoLogin.pc = "idle" /\ NoLogin.ref = "openai" /\ NoLogin.token = {}
  /\ NoLogin.deadline = 0 /\ NoLogin.wake = 0
BY DEF NoLogin, Login, Refs

LEMMA REndFacts ==
  ASSUME req \in [Requests -> Request], NEW r \in Requests, REnd(r)
  PROVE  Asks(r, "failed", "openai", {}, 0)
<1> DEFINE o == [NoRequest EXCEPT !.pc = "failed"]
<1>1. o \in Request /\ o.pc = "failed" /\ o.ref = "openai" /\ o.token = {} /\ o.left = 0
  BY NoRequestType DEF Request
<1>2. req' = [req EXCEPT ![r] = o]
  BY DEF REnd
<1> HIDE DEF o
<1> QED BY <1>1, <1>2, RequestUpdate DEF Asks

LEMMA HandFacts ==
  ASSUME req \in [Requests -> Request], NEW r \in Requests, NEW l \in Logins, NEW left \in Int, Hand(r, l, left)
  PROVE  Asks(r, "bearer", "openai", {}, left)
<1> DEFINE o == [NoRequest EXCEPT !.pc = "bearer", !.bearer = l, !.left = left]
<1>1. o \in Request /\ o.pc = "bearer" /\ o.ref = "openai" /\ o.token = {} /\ o.left = left
  BY NoRequestType DEF Request
<1>2. req' = [req EXCEPT ![r] = o]
  BY DEF Hand
<1> HIDE DEF o
<1> QED BY <1>1, <1>2, RequestUpdate DEF Asks

LEMMA GoesFacts ==
  ASSUME req \in [Requests -> Request], NEW r \in Requests, NEW pc \in RequestSteps, NEW token \in SUBSET Token,
         req' = [req EXCEPT ![r].pc = pc, ![r].token = token]
  PROVE  Asks(r, pc, req[r].ref, token, req[r].left)
<1> DEFINE o == [req[r] EXCEPT !.pc = pc, !.token = token]
<1>1. o \in Request /\ o.pc = pc /\ o.ref = req[r].ref /\ o.token = token /\ o.left = req[r].left
  BY DEF Request, RequestSteps
<1>2. req' = [req EXCEPT ![r] = o]
  BY DEF Request
<1> HIDE DEF o
<1> QED BY <1>1, <1>2, RequestUpdate DEF Asks

LEMMA AskFacts ==
  ASSUME req \in [Requests -> Request], NEW r \in Requests, NEW ref \in Refs, Ask(r, ref)
  PROVE  \E pc \in {"key", "token"} : Asks(r, pc, ref, req[r].token, req[r].left)
<1> DEFINE pc == IF ref = "codex" THEN "key" ELSE "token"
           o == [req[r] EXCEPT !.pc = pc, !.ref = ref]
<1>1. o \in Request /\ o.pc = pc /\ o.ref = ref /\ o.token = req[r].token /\ o.left = req[r].left
  BY DEF Request
<1>2. req' = [req EXCEPT ![r] = o]
  BY DEF Ask, Request
<1>3. pc \in {"key", "token"}
  OBVIOUS
<1> HIDE DEF o, pc
<1> QED BY <1>1, <1>2, <1>3, RequestUpdate DEF Asks

LEMMA KeyFacts ==
  ASSUME TokensTypeOK, NEW r \in Requests, ReadKey(r)
  PROVE  Asks(r, "bearer", "openai", {}, Life) \/ Asks(r, "token", req[r].ref, req[r].token, req[r].left)
<1>1. req \in [Requests -> Request] /\ api_key \in {"nobody"} \cup Logins
  BY DEF TokensTypeOK
<1>2. CASE api_key # "nobody" /\ Hand(r, api_key, Life)
  <2>1. api_key \in Logins /\ Life \in Int
    BY <1>1, <1>2, TimeFacts
  <2> QED BY <1>1, <1>2, <2>1, HandFacts
<1>3. CASE req' = [req EXCEPT ![r].pc = "token"]
  <2> DEFINE o == [req[r] EXCEPT !.pc = "token"]
  <2>1. o \in Request /\ o.pc = "token" /\ o.ref = req[r].ref /\ o.token = req[r].token /\ o.left = req[r].left
    BY <1>1 DEF Request
  <2>2. req' = [req EXCEPT ![r] = o]
    BY <1>3
  <2> HIDE DEF o
  <2> QED BY <1>1, <2>1, <2>2, RequestUpdate DEF Asks
<1> QED BY <1>2, <1>3 DEF ReadKey

LEMMA LGoFacts ==
  ASSUME login \in [Logins -> Login], NEW l \in Logins, NEW pc \in LoginSteps, LGo(l, pc)
  PROVE  LogsIn(l, pc, login[l].ref, {}, login[l].deadline, 0)
<1> DEFINE o == [login[l] EXCEPT !.pc = pc, !.wake = 0, !.token = {}]
<1>1. /\ o \in Login /\ o.pc = pc /\ o.ref = login[l].ref /\ o.token = {}
      /\ o.deadline = login[l].deadline /\ o.wake = 0
  BY DEF Login, LoginSteps
<1>2. login' = [login EXCEPT ![l] = o]
  BY DEF LGo, Login
<1> HIDE DEF o
<1> QED BY <1>1, <1>2, LoginUpdate DEF LogsIn

LEMMA SleepFacts ==
  ASSUME login \in [Logins -> Login], now \in Nat, NEW l \in Logins, NEW pc \in LoginSteps, Sleep(l, pc)
  PROVE  LogsIn(l, pc, login[l].ref, login[l].token, login[l].deadline, now + Interval)
<1> DEFINE o == [login[l] EXCEPT !.pc = pc, !.wake = now + Interval]
<1>1. now + Interval \in Nat
  BY TimeFacts
<1>2. /\ o \in Login /\ o.pc = pc /\ o.ref = login[l].ref /\ o.token = login[l].token
      /\ o.deadline = login[l].deadline /\ o.wake = now + Interval
  BY <1>1 DEF Login, LoginSteps
<1>3. login' = [login EXCEPT ![l] = o]
  BY DEF Sleep, Login
<1> HIDE DEF o
<1> QED BY <1>2, <1>3, LoginUpdate DEF LogsIn

LEMMA StartDeviceFacts ==
  ASSUME login \in [Logins -> Login], now \in Nat, NEW l \in Logins, StartDevice(l)
  PROVE  LogsIn(l, "loop", login[l].ref, login[l].token, now + TIMEOUT, login[l].wake)
<1> DEFINE o == [login[l] EXCEPT !.pc = "loop", !.deadline = now + TIMEOUT]
<1>1. now + TIMEOUT \in Nat
  BY TimeFacts
<1>2. /\ o \in Login /\ o.pc = "loop" /\ o.ref = login[l].ref /\ o.token = login[l].token
      /\ o.deadline = now + TIMEOUT /\ o.wake = login[l].wake
  BY <1>1 DEF Login
<1>3. login' = [login EXCEPT ![l] = o]
  BY DEF StartDevice, Login
<1> HIDE DEF o
<1> QED BY <1>2, <1>3, LoginUpdate DEF LogsIn

LEMMA StartCodexFacts ==
  ASSUME login \in [Logins -> Login], now \in Nat, NEW l \in Logins, StartCodex(l)
  PROVE  \/ PortTaken /\ LogsIn(l, "failed", "codex", {}, 0, 0)
         \/ ~PortTaken /\ LogsIn(l, "wait", "codex", {}, now + TIMEOUT, 0)
<1> DEFINE pc == IF PortTaken THEN "failed" ELSE "wait"
           deadline == IF PortTaken THEN 0 ELSE now + TIMEOUT
           o == [NoLogin EXCEPT !.pc = pc, !.ref = "codex", !.deadline = deadline]
<1>1. deadline \in Nat /\ "codex" \in Refs /\ pc \in {"failed", "wait"}
  BY TimeFacts DEF Refs
<1>2. login' = [login EXCEPT ![l] = o]
  BY DEF StartCodex
<1> HIDE DEF pc, deadline
<1>3. o \in Login /\ o.pc = pc /\ o.ref = "codex" /\ o.token = {} /\ o.deadline = deadline /\ o.wake = 0
  BY <1>1, NoLoginType DEF Login
<1> HIDE DEF o
<1>4. LogsIn(l, pc, "codex", {}, deadline, 0)
  BY <1>2, <1>3, LoginUpdate DEF LogsIn
<1> QED BY <1>4 DEF pc, deadline

LEMMA ExchangeFacts ==
  ASSUME login \in [Logins -> Login], now \in Nat, NEW l \in Logins, Exchange(l)
  PROVE  LogsIn(l, "answered", login[l].ref, {issued(l, 1)}, login[l].deadline, login[l].wake)
<1> DEFINE o == [login[l] EXCEPT !.pc = "answered", !.token = {issued(l, 1)}]
<1>1. issued(l, 1) \in Token
  BY IssuedFacts
<1>2. /\ o \in Login /\ o.pc = "answered" /\ o.ref = login[l].ref /\ o.token = {issued(l, 1)}
      /\ o.deadline = login[l].deadline /\ o.wake = login[l].wake
  BY <1>1 DEF Login
<1>3. login' = [login EXCEPT ![l] = o]
  BY DEF Exchange, Login
<1> HIDE DEF o
<1> QED BY <1>2, <1>3, LoginUpdate DEF LogsIn

-----------------------------------------------------------------------------
(* The invariant.  A login is settled once it has stored its token, or failed:
   only then may the vault or a request have a token of it. *)
Settled == {"key", "key.", "done", "keyed", "failed"}
InTime(t) == now <= t.real - Life + MaxDelay

LoginInv ==
  \A l \in Logins :
    /\ login[l].pc = "idle" => login[l].ref = "openai" /\ approved[l] = Never
    /\ login[l].pc \in {"loop", "sleep", "slow"} => login[l].ref = "openai"
    /\ login[l].pc \in {"wait", "key", "key.", "keyed"} => login[l].ref = "codex"
    /\ login[l].pc = "answered" =>
         grant[l] = 1 /\ \E t \in Token : login[l].token = {t} /\ t.login = l /\ t.gen = 1 /\ InTime(t)
    /\ login[l].pc # "answered" => login[l].token = {}

(* A request has a token while it refreshes it, and what the server has
   answered it is the live one. *)
RequestInv ==
  \A r \in Requests :
    /\ req[r].pc \in {"refresh", "answered"} => \E t \in Token : req[r].token = {t}
    /\ req[r].pc \notin {"refresh", "answered"} => req[r].token = {}
    /\ req[r].pc = "answered" => \A t \in req[r].token : t.gen = grant[t.login] /\ InTime(t)
    /\ req[r].pc = "bearer" => req[r].left > 0

Fits(t, ref) ==
  /\ login[t.login].ref = ref /\ login[t.login].pc \in Settled
  /\ t.gen <= grant[t.login] /\ (Rotates \/ t.gen = grant[t.login])
  /\ ("overtaken" \in mishaps[ref] \/ t.login = last[ref])
HeldInv ==
  /\ \A ref \in Refs : \A t \in vault[ref] : Fits(t, ref)
  /\ \A r \in Requests : \A t \in req[r].token : Fits(t, req[r].ref)

GoodInv == \A ref \in Refs : \A t \in vault[ref] : t.expires <= t.real + MaxDelay

(* With a server that rotates, an answered token is the newest of its login. *)
Newer(t, u) == u.login = t.login => u.gen < t.gen
NewestInv ==
  Rotates =>
    \A r \in Requests : req[r].pc = "answered" =>
      \A t \in req[r].token :
        /\ \A ref \in Refs : \A u \in vault[ref] : Newer(t, u)
        /\ \A q \in Requests \ {r} : \A u \in req[q].token : Newer(t, u)

(* One login to Codex runs at a time, so no other stores its token between the
   token of this one and its key. *)
PortInv ==
  /\ \A k, l \in Running : login[k].ref = "codex" /\ login[l].ref = "codex" => k = l
  /\ \A l \in Logins : login[l].pc \in {"key", "key."} => last["codex"] = l

TokensInv ==
  /\ TokensTypeOK /\ LoginInv /\ RequestInv /\ HeldInv /\ GoodInv /\ NewestInv /\ PortInv
  /\ KeyAndTokenAgree /\ VaultHoldsTheLastLogin /\ StoredTokenIsLive

LEMMA FitsStays ==
  ASSUME NEW t, NEW ref, Fits(t, ref),
         login'[t.login].ref = login[t.login].ref, login'[t.login].pc \in Settled,
         grant'[t.login] = grant[t.login], mishaps[ref] \subseteq mishaps'[ref], last'[ref] = last[ref]
  PROVE  Fits(t, ref)'
BY DEF Fits

LEMMA TokensInitInv == TokensInit => TokensInv
<1> SUFFICES ASSUME TokensInit PROVE TokensInv
  OBVIOUS
<1>1. TokensTypeOK
  <2>1. Never \in {Never} \cup Nat /\ 0 \in Nat /\ now = 0
    BY DEF TokensInit
  <2>2. vault = [ref \in Refs |-> {}] /\ api_key = "nobody"
    BY DEF TokensInit
  <2>3. grant = [l \in Logins |-> 0] /\ approved = [l \in Logins |-> Never]
    BY DEF TokensInit
  <2>4. req = [r \in Requests |-> NoRequest] /\ login = [l \in Logins |-> NoLogin]
    BY DEF TokensInit
  <2>5. last = [ref \in Refs |-> "nobody"] /\ mishaps = [ref \in Refs |-> {}]
    BY DEF TokensInit
  <2> QED BY <2>1, <2>2, <2>3, <2>4, <2>5, NoRequestType, NoLoginType DEF TokensTypeOK
<1>2. \A r \in Requests : req[r].pc = "idle" /\ req[r].token = {}
  BY NoRequestType DEF TokensInit
<1>3. \A l \in Logins : login[l].pc = "idle" /\ login[l].token = {} /\ login[l].ref = "openai" /\ approved[l] = Never
  BY NoLoginType DEF TokensInit
<1>4. \A ref \in Refs : vault[ref] = {} /\ last[ref] = "nobody"
  BY DEF TokensInit
<1>5. LoginInv /\ RequestInv /\ HeldInv /\ GoodInv /\ NewestInv
  BY <1>2, <1>3, <1>4 DEF LoginInv, RequestInv, HeldInv, GoodInv, NewestInv
<1>6. PortInv /\ KeyAndTokenAgree
  BY <1>3 DEF PortInv, KeyAndTokenAgree, Running
<1>7. VaultHoldsTheLastLogin /\ StoredTokenIsLive
  BY <1>4 DEF VaultHoldsTheLastLogin, StoredTokenIsLive
<1> QED BY <1>1, <1>5, <1>6, <1>7 DEF TokensInv

-----------------------------------------------------------------------------
(* Steps of a request. *)
QuietRequest(r, pc, ref, left) ==
  /\ Asks(r, pc, ref, {}, left) /\ pc \in {"key", "token", "bearer", "failed"} /\ (pc = "bearer" => left > 0)
  /\ mishaps' \in [Refs -> SUBSET {"dropped", "overtaken"}] /\ \A x \in Refs : mishaps[x] \subseteq mishaps'[x]
  /\ \A x \in Refs : "overtaken" \in mishaps'[x] => "overtaken" \in mishaps[x]
  /\ req[r].pc = "answered" => "dropped" \in mishaps'[req[r].ref]
  /\ UNCHANGED <<now, vault, api_key, grant, approved, login, last>>

LEMMA QuietRequestStep ==
  ASSUME TokensInv, NEW r \in Requests, NEW pc, NEW ref, NEW left, QuietRequest(r, pc, ref, left)
  PROVE  TokensInv'
<1>1. /\ TokensTypeOK /\ LoginInv /\ RequestInv /\ HeldInv /\ GoodInv /\ NewestInv /\ PortInv
      /\ KeyAndTokenAgree /\ VaultHoldsTheLastLogin /\ StoredTokenIsLive
  BY DEF TokensInv
<1>2. /\ now' = now /\ vault' = vault /\ api_key' = api_key /\ grant' = grant /\ approved' = approved
      /\ login' = login /\ last' = last
  BY DEF QuietRequest
<1>3. /\ req'[r].pc = pc /\ req'[r].token = {} /\ req'[r].left = left
      /\ \A q \in Requests \ {r} : req'[q] = req[q]
  BY DEF QuietRequest, Asks
<1>4. /\ pc \in {"key", "token", "bearer", "failed"} /\ (pc = "bearer" => left > 0)
      /\ \A x \in Refs : mishaps[x] \subseteq mishaps'[x]
      /\ req[r].pc = "answered" => "dropped" \in mishaps'[req[r].ref]
  BY DEF QuietRequest
<1>a. TokensTypeOK'
  BY <1>1, <1>2 DEF TokensTypeOK, QuietRequest, Asks
<1>b. LoginInv'
  BY <1>1, <1>2 DEF LoginInv, InTime
<1>c. RequestInv'
  BY <1>1, <1>2, <1>3, <1>4 DEF RequestInv, InTime
<1>d. HeldInv'
  <2>1. ASSUME NEW x \in Refs, NEW t, Fits(t, x)
        PROVE  Fits(t, x)'
    BY <1>2, <1>4, <2>1, FitsStays DEF Fits
  <2>2. ASSUME NEW q \in Requests
        PROVE  req[q].ref \in Refs
    BY <1>1, RequestFields DEF TokensTypeOK
  <2>3. \A x \in Refs : \A t \in vault'[x] : Fits(t, x)'
    BY <1>1, <1>2, <2>1 DEF HeldInv
  <2>4. \A q \in Requests : \A t \in req'[q].token : Fits(t, req[q].ref)'
    BY <1>1, <1>3, <2>1, <2>2 DEF HeldInv
  <2> QED BY <2>3, <2>4 DEF HeldInv
<1>e. GoodInv'
  BY <1>1, <1>2 DEF GoodInv
<1>f. NewestInv'
  BY <1>1, <1>2, <1>3, <1>4 DEF NewestInv, Newer
<1>g. PortInv' /\ KeyAndTokenAgree'
  BY <1>1, <1>2 DEF PortInv, KeyAndTokenAgree, Running
<1>h. VaultHoldsTheLastLogin'
  BY <1>1, <1>2, <1>4 DEF VaultHoldsTheLastLogin
<1>i. StoredTokenIsLive'
  <2> SUFFICES ASSUME NEW x \in Refs, NEW t \in vault[x], t.gen # grant[t.login]
               PROVE  /\ Rotates
                      /\ "dropped" \in mishaps'[x] \/ \E q \in Requests : req'[q].ref = x /\ req'[q].pc = "answered"
    BY <1>2 DEF StoredTokenIsLive
  <2>1. Rotates /\ ("dropped" \in mishaps[x] \/ \E q \in Requests : req[q].ref = x /\ req[q].pc = "answered")
    BY <1>1 DEF StoredTokenIsLive
  <2> QED BY <2>1, <1>3, <1>4
<1> QED BY <1>a, <1>b, <1>c, <1>d, <1>e, <1>f, <1>g, <1>h, <1>i DEF TokensInv

LEMMA TakeStep ==
  ASSUME TokensInv, NEW r \in Requests, NEW t \in Token, NEW left, req[r].pc = "token",
         t \in vault[req[r].ref], Asks(r, "refresh", req[r].ref, {t}, left),
         UNCHANGED <<now, vault, api_key, grant, approved, login, last, mishaps>>
  PROVE  TokensInv'
<1>1. /\ TokensTypeOK /\ LoginInv /\ RequestInv /\ HeldInv /\ GoodInv /\ NewestInv /\ PortInv
      /\ KeyAndTokenAgree /\ VaultHoldsTheLastLogin /\ StoredTokenIsLive
  BY DEF TokensInv
<1>2. /\ now' = now /\ vault' = vault /\ api_key' = api_key /\ grant' = grant /\ approved' = approved
      /\ login' = login /\ last' = last /\ mishaps' = mishaps
  OBVIOUS
<1>3. /\ req'[r].pc = "refresh" /\ req'[r].ref = req[r].ref /\ req'[r].token = {t}
      /\ \A q \in Requests \ {r} : req'[q] = req[q]
  BY DEF Asks
<1>a. TokensTypeOK'
  BY <1>1, <1>2 DEF TokensTypeOK, Asks
<1>b. LoginInv'
  BY <1>1, <1>2 DEF LoginInv, InTime
<1>c. RequestInv'
  BY <1>1, <1>2, <1>3 DEF RequestInv, InTime
<1>d. HeldInv'
  <2>1. ASSUME NEW x \in Refs, NEW u, Fits(u, x)
        PROVE  Fits(u, x)'
    BY <1>2, <2>1, FitsStays DEF Fits
  <2>2. ASSUME NEW q \in Requests
        PROVE  req[q].ref \in Refs
    BY <1>1, RequestFields DEF TokensTypeOK
  <2>3. \A x \in Refs : \A u \in vault'[x] : Fits(u, x)'
    BY <1>1, <1>2, <2>1 DEF HeldInv
  <2>4. \A q \in Requests : \A u \in req'[q].token : Fits(u, req[q].ref)'
    BY <1>1, <1>3, <2>1, <2>2 DEF HeldInv
  <2> QED BY <2>3, <2>4 DEF HeldInv
<1>e. GoodInv'
  BY <1>1, <1>2 DEF GoodInv
<1>f. NewestInv'
  <2>1. req[r].ref \in Refs
    BY <1>1, RequestFields DEF TokensTypeOK
  <2> QED BY <1>1, <1>2, <1>3, <2>1 DEF NewestInv, Newer
<1>g. PortInv' /\ KeyAndTokenAgree'
  BY <1>1, <1>2 DEF PortInv, KeyAndTokenAgree, Running
<1>h. VaultHoldsTheLastLogin'
  BY <1>1, <1>2 DEF VaultHoldsTheLastLogin
<1>i. StoredTokenIsLive'
  <2> SUFFICES ASSUME NEW x \in Refs, NEW u \in vault[x], u.gen # grant[u.login]
               PROVE  /\ Rotates
                      /\ "dropped" \in mishaps[x] \/ \E q \in Requests : req'[q].ref = x /\ req'[q].pc = "answered"
    BY <1>2 DEF StoredTokenIsLive
  <2>1. Rotates /\ ("dropped" \in mishaps[x] \/ \E q \in Requests : req[q].ref = x /\ req[q].pc = "answered")
    BY <1>1 DEF StoredTokenIsLive
  <2> QED BY <2>1, <1>3
<1> QED BY <1>a, <1>b, <1>c, <1>d, <1>e, <1>f, <1>g, <1>h, <1>i DEF TokensInv

(* The server answers: the token it gives is the newest of its login, and no
   other answer of that login can be on its way. *)
LEMMA AnswerStep ==
  ASSUME TokensInv, NEW r \in Requests, NEW t \in Token, NEW g \in Nat, NEW left, req[r].pc = "refresh",
         req[r].token = {t}, grant[t.login] = t.gen, g = IF Rotates THEN t.gen + 1 ELSE t.gen,
         Asks(r, "answered", req[r].ref, {issued(t.login, g)}, left), grant' = [grant EXCEPT ![t.login] = g],
         UNCHANGED <<now, vault, api_key, approved, login, last, mishaps>>
  PROVE  TokensInv'
<1>1. /\ TokensTypeOK /\ LoginInv /\ RequestInv /\ HeldInv /\ GoodInv /\ NewestInv /\ PortInv
      /\ KeyAndTokenAgree /\ VaultHoldsTheLastLogin /\ StoredTokenIsLive
  BY DEF TokensInv
<1>2. /\ now' = now /\ vault' = vault /\ api_key' = api_key /\ approved' = approved
      /\ login' = login /\ last' = last /\ mishaps' = mishaps
  OBVIOUS
<1>4. t.login \in Logins /\ t.gen \in Nat /\ now \in Nat /\ grant \in [Logins -> Nat] /\ req[r].ref \in Refs
  BY <1>1, TokenFields, RequestFields DEF TokensTypeOK
<1>5. PICK n \in Token : n = issued(t.login, g) /\ n.login = t.login /\ n.gen = g /\ n.real = now + Life
  BY <1>4, IssuedFacts
<1>3. /\ req'[r].pc = "answered" /\ req'[r].ref = req[r].ref /\ req'[r].token = {n}
      /\ \A q \in Requests \ {r} : req'[q] = req[q]
  BY <1>5 DEF Asks
<1>6. grant'[t.login] = g /\ \A l \in Logins \ {t.login} : grant'[l] = grant[l]
  BY <1>4
<1>7. (Rotates => g = t.gen + 1) /\ (~Rotates => g = t.gen) /\ t.gen <= g
  BY <1>4, LoginAssumption
<1>8. Fits(t, req[r].ref)
  BY <1>1 DEF HeldInv
<1>9. ASSUME NEW q \in Requests \ {r}
      PROVE  /\ req[q].token \subseteq Token /\ req[q].ref \in Refs
             /\ req[q].pc = "answered" /\ Rotates => \A u \in req[q].token : u.login # t.login
  <2>1. req[q].token \subseteq Token /\ req[q].ref \in Refs
    BY <1>1, RequestFields DEF TokensTypeOK
  <2>2. ASSUME req[q].pc = "answered", Rotates, NEW u \in req[q].token, u.login = t.login
        PROVE  FALSE
    <3>1. u.gen = grant[t.login] /\ u.gen \in Nat
      BY <1>1, <2>1, <2>2, TokenFields DEF RequestInv
    <3>2. t.gen < u.gen
      BY <1>1, <2>2 DEF NewestInv, Newer
    <3> QED BY <3>1, <3>2
  <2> QED BY <2>1, <2>2
<1>10. \A x \in Refs : vault[x] \subseteq Token
  BY <1>1 DEF TokensTypeOK
<1>a. TokensTypeOK'
  BY <1>1, <1>2, <1>4 DEF TokensTypeOK, Asks
<1>b. LoginInv'
  <2>1. ASSUME NEW l \in Logins, login[l].pc = "answered" PROVE l # t.login
    BY <1>8, <2>1 DEF Fits, Settled
  <2> QED BY <1>1, <1>2, <1>6, <2>1 DEF LoginInv, InTime
<1>c. RequestInv'
  <2> SUFFICES ASSUME NEW q \in Requests
               PROVE  /\ req'[q].pc \in {"refresh", "answered"} => \E u \in Token : req'[q].token = {u}
                      /\ req'[q].pc \notin {"refresh", "answered"} => req'[q].token = {}
                      /\ req'[q].pc = "answered" => \A u \in req'[q].token : u.gen = grant'[u.login] /\ InTime(u)'
                      /\ req'[q].pc = "bearer" => req'[q].left > 0
    BY DEF RequestInv
  <2>1. CASE q = r
    <3>1. now <= n.real - Life + MaxDelay
      BY <1>4, <1>5, TimeFacts
    <3> QED BY <2>1, <1>2, <1>3, <1>5, <1>6, <3>1 DEF InTime
  <2>2. CASE q # r
    <3>1. req'[q] = req[q]
      BY <1>3, <2>2
    <3>2. ASSUME req[q].pc = "answered", NEW u \in req[q].token
          PROVE  u.gen = grant'[u.login] /\ InTime(u)'
      <4>1. u.gen = grant[u.login] /\ InTime(u) /\ u.login \in Logins
        BY <1>1, <1>9, <2>2, <3>2, TokenFields DEF RequestInv
      <4>2. InTime(u)'
        BY <4>1, <1>2 DEF InTime
      <4>3. CASE Rotates
        BY <4>1, <4>2, <4>3, <1>6, <1>9, <2>2, <3>2
      <4>4. CASE ~Rotates
        BY <4>1, <4>2, <4>4, <1>6, <1>7
      <4> QED BY <4>3, <4>4
    <3> QED BY <1>1, <3>1, <3>2 DEF RequestInv
  <2> QED BY <2>1, <2>2
<1>d. HeldInv'
  <2>1. ASSUME NEW x \in Refs, NEW u \in Token, Fits(u, x)
        PROVE  Fits(u, x)'
    <3>1. /\ login[u.login].ref = x /\ login[u.login].pc \in Settled
          /\ u.gen <= grant[u.login] /\ (Rotates \/ u.gen = grant[u.login])
          /\ ("overtaken" \in mishaps[x] \/ u.login = last[x])
      BY <2>1 DEF Fits
    <3>2. u.gen <= grant'[u.login] /\ (Rotates \/ u.gen = grant'[u.login])
      BY <3>1, <1>4, <1>6, <1>7, TokenFields
    <3> QED BY <3>1, <3>2, <1>2 DEF Fits
  <2>2. Fits(n, req[r].ref)'
    BY <1>2, <1>3, <1>4, <1>5, <1>6, <1>8 DEF Fits
  <2>3. \A x \in Refs : \A u \in vault'[x] : Fits(u, x)'
    BY <1>1, <1>2, <1>10, <2>1 DEF HeldInv
  <2>4. \A q \in Requests : \A u \in req'[q].token : Fits(u, req[q].ref)'
    BY <1>1, <1>3, <1>9, <2>1, <2>2 DEF HeldInv
  <2> QED BY <2>3, <2>4 DEF HeldInv
<1>e. GoodInv'
  BY <1>1, <1>2 DEF GoodInv
<1>f. NewestInv'
  <2>1. ASSUME Rotates, NEW x \in Refs, NEW u \in Token, Fits(u, x) PROVE Newer(n, u)
    BY <2>1, <1>4, <1>5, <1>7, TokenFields DEF Fits, Newer
  <2>2. ASSUME Rotates, NEW q \in Requests \ {r}, req[q].pc = "answered", NEW u \in req[q].token PROVE Newer(u, n)
    BY <2>2, <1>5, <1>9 DEF Newer
  <2> SUFFICES ASSUME Rotates, NEW q \in Requests, req'[q].pc = "answered", NEW v \in req'[q].token
               PROVE  /\ \A x \in Refs : \A u \in vault[x] : Newer(v, u)
                      /\ \A p \in Requests \ {q} : \A u \in req'[p].token : Newer(v, u)
    BY <1>2 DEF NewestInv, Newer
  <2>3. CASE q = r
    BY <2>3, <2>1, <1>1, <1>3, <1>9, <1>10 DEF HeldInv
  <2>4. CASE q # r
    <3>1. /\ \A x \in Refs : \A u \in vault[x] : Newer(v, u)
          /\ \A p \in Requests \ {q} : \A u \in req[p].token : Newer(v, u)
      BY <2>4, <1>1, <1>3 DEF NewestInv
    <3> QED BY <2>4, <2>2, <3>1, <1>3
  <2> QED BY <2>3, <2>4
<1>g. PortInv' /\ KeyAndTokenAgree'
  BY <1>1, <1>2 DEF PortInv, KeyAndTokenAgree, Running
<1>h. VaultHoldsTheLastLogin'
  BY <1>1, <1>2 DEF VaultHoldsTheLastLogin
<1>i. StoredTokenIsLive'
  <2> SUFFICES ASSUME NEW x \in Refs, NEW u \in vault[x], u.gen # grant'[u.login]
               PROVE  /\ Rotates
                      /\ "dropped" \in mishaps[x] \/ \E q \in Requests : req'[q].ref = x /\ req'[q].pc = "answered"
    BY <1>2 DEF StoredTokenIsLive
  <2>1. u \in Token /\ u.login \in Logins /\ Fits(u, x)
    BY <1>1, <1>10, TokenFields DEF HeldInv
  <2>2. CASE u.login = t.login
    <3>1. x = req[r].ref
      BY <2>1, <2>2, <1>8 DEF Fits
    <3>2. Rotates
      BY <2>1, <2>2, <1>6, <1>7 DEF Fits
    <3> QED BY <3>1, <3>2, <1>3
  <2>3. CASE u.login # t.login
    <3>1. Rotates /\ ("dropped" \in mishaps[x] \/ \E q \in Requests : req[q].ref = x /\ req[q].pc = "answered")
      BY <1>1, <1>6, <2>1, <2>3 DEF StoredTokenIsLive
    <3> QED BY <3>1, <1>3
  <2> QED BY <2>2, <2>3
<1> QED BY <1>a, <1>b, <1>c, <1>d, <1>e, <1>f, <1>g, <1>h, <1>i DEF TokensInv

LEMMA KeepStep ==
  ASSUME TokensInv, NEW r \in Requests, NEW t \in Token, NEW n \in Token, NEW left, req[r].pc = "answered",
         req[r].token = {t}, n.login = t.login, n.gen = t.gen, n.expires <= n.real + MaxDelay,
         Asks(r, "bearer", "openai", {}, left), left > 0, vault' = [vault EXCEPT ![req[r].ref] = {n}],
         UNCHANGED <<now, api_key, grant, approved, login, last, mishaps>>
  PROVE  TokensInv'
<1>1. /\ TokensTypeOK /\ LoginInv /\ RequestInv /\ HeldInv /\ GoodInv /\ NewestInv /\ PortInv
      /\ KeyAndTokenAgree /\ VaultHoldsTheLastLogin /\ StoredTokenIsLive
  BY DEF TokensInv
<1>2. /\ now' = now /\ grant' = grant /\ api_key' = api_key /\ approved' = approved
      /\ login' = login /\ last' = last /\ mishaps' = mishaps
  OBVIOUS
<1>3. /\ req'[r].pc = "bearer" /\ req'[r].token = {} /\ req'[r].left > 0
      /\ \A q \in Requests \ {r} : req'[q] = req[q]
  BY DEF Asks
<1>4. /\ t.login \in Logins /\ t.gen \in Nat /\ grant \in [Logins -> Nat] /\ req[r].ref \in Refs
      /\ vault \in [Refs -> SUBSET Token]
  BY <1>1, TokenFields, RequestFields DEF TokensTypeOK
<1>5. vault'[req[r].ref] = {n} /\ \A x \in Refs \ {req[r].ref} : vault'[x] = vault[x]
  BY <1>4
<1>6. Fits(n, req[r].ref) /\ n.gen = grant[n.login]
  <2>1. Fits(t, req[r].ref) /\ t.gen = grant[t.login]
    BY <1>1 DEF HeldInv, RequestInv
  <2> QED BY <2>1 DEF Fits
<1>7. ASSUME NEW x \in Refs, NEW u, Fits(u, x)
      PROVE  Fits(u, x)'
  BY <1>2, <1>7, FitsStays DEF Fits
<1>a. TokensTypeOK'
  BY <1>1, <1>2, <1>4 DEF TokensTypeOK, Asks
<1>b. LoginInv'
  BY <1>1, <1>2 DEF LoginInv, InTime
<1>c. RequestInv'
  BY <1>1, <1>2, <1>3 DEF RequestInv, InTime
<1>d. HeldInv'
  <2>2. ASSUME NEW q \in Requests
        PROVE  req[q].ref \in Refs
    BY <1>1, RequestFields DEF TokensTypeOK
  <2>3. \A x \in Refs : \A u \in vault'[x] : Fits(u, x)'
    BY <1>1, <1>4, <1>5, <1>6, <1>7 DEF HeldInv
  <2>4. \A q \in Requests : \A u \in req'[q].token : Fits(u, req[q].ref)'
    BY <1>1, <1>3, <1>7, <2>2 DEF HeldInv
  <2> QED BY <2>3, <2>4 DEF HeldInv
<1>e. GoodInv'
  BY <1>1, <1>5 DEF GoodInv
<1>f. NewestInv'
  <2> SUFFICES ASSUME Rotates, NEW q \in Requests, req'[q].pc = "answered", NEW v \in req'[q].token
               PROVE  /\ \A x \in Refs : \A u \in vault'[x] : Newer(v, u)
                      /\ \A p \in Requests \ {q} : \A u \in req'[p].token : Newer(v, u)
    BY DEF NewestInv, Newer
  <2>1. q # r /\ req[q].pc = "answered" /\ v \in req[q].token
    BY <1>3
  <2>2. /\ \A x \in Refs : \A u \in vault[x] : Newer(v, u)
        /\ \A p \in Requests \ {q} : \A u \in req[p].token : Newer(v, u)
    BY <2>1, <1>1 DEF NewestInv
  <2>3. Newer(v, n)
    BY <2>1, <2>2 DEF Newer
  <2> QED BY <2>2, <2>3, <1>3, <1>5
<1>g. PortInv' /\ KeyAndTokenAgree'
  BY <1>1, <1>2 DEF PortInv, KeyAndTokenAgree, Running
<1>h. VaultHoldsTheLastLogin'
  <2> SUFFICES ASSUME NEW x \in Refs, "overtaken" \notin mishaps[x]
               PROVE  {u.login : u \in vault'[x]} = {last[x]} \ {"nobody"}
    BY <1>2 DEF VaultHoldsTheLastLogin
  <2>1. CASE x = req[r].ref
    <3>1. {u.login : u \in vault'[x]} = {n.login}
      BY <2>1, <1>5
    <3>2. n.login = last[x] /\ n.login \in Logins
      BY <2>1, <1>4, <1>6 DEF Fits
    <3> QED BY <3>1, <3>2, LoginAssumption
  <2>2. CASE x # req[r].ref
    BY <2>2, <1>1, <1>5 DEF VaultHoldsTheLastLogin
  <2> QED BY <2>1, <2>2
<1>i. StoredTokenIsLive'
  <2> SUFFICES ASSUME NEW x \in Refs, NEW u \in vault'[x], u.gen # grant[u.login]
               PROVE  /\ Rotates
                      /\ "dropped" \in mishaps[x] \/ \E q \in Requests : req'[q].ref = x /\ req'[q].pc = "answered"
    BY <1>2 DEF StoredTokenIsLive
  <2>1. x # req[r].ref /\ u \in vault[x]
    BY <1>5, <1>6
  <2>2. Rotates /\ ("dropped" \in mishaps[x] \/ \E q \in Requests : req[q].ref = x /\ req[q].pc = "answered")
    BY <2>1, <1>1 DEF StoredTokenIsLive
  <2> QED BY <2>1, <2>2, <1>3
<1> QED BY <1>a, <1>b, <1>c, <1>d, <1>e, <1>f, <1>g, <1>h, <1>i DEF TokensInv

(* Every step of a request is one of these. *)
LEMMA RequestInvStep ==
  ASSUME TokensInv, NEW r \in Requests,
         (\E ref \in Refs : Ask(r, ref)) \/ RequestStep(r) \/ DropRefreshed(r) \/ FailRequest(r)
  PROVE  TokensInv'
<1>1. /\ TokensTypeOK /\ RequestInv /\ HeldInv /\ GoodInv
  BY DEF TokensInv
<1>2. /\ now \in Nat /\ vault \in [Refs -> SUBSET Token] /\ req \in [Requests -> Request] /\ grant \in [Logins -> Nat]
      /\ mishaps \in [Refs -> SUBSET {"dropped", "overtaken"}] /\ req[r].ref \in Refs /\ req[r].token \subseteq Token
  BY <1>1, RequestFields DEF TokensTypeOK
<1>3. ASSUME NEW pc, NEW ref, NEW left, Asks(r, pc, ref, {}, left), pc \in {"key", "token", "bearer", "failed"},
             pc = "bearer" => left > 0, req[r].pc # "answered",
             UNCHANGED <<now, vault, api_key, grant, approved, login, last, mishaps>>
      PROVE  TokensInv'
  <2>1. QuietRequest(r, pc, ref, left)
    BY <1>2, <1>3 DEF QuietRequest
  <2> QED BY <2>1, QuietRequestStep
<1>4. CASE \E ref \in Refs : Ask(r, ref)
  <2>1. PICK ref \in Refs : Ask(r, ref)
    BY <1>4
  <2>2. PICK pc \in {"key", "token"} : Asks(r, pc, ref, req[r].token, req[r].left)
    BY <2>1, <1>2, AskFacts
  <2>3. req[r].token = {} /\ req[r].pc = "idle"
    BY <2>1, <1>1 DEF Ask, RequestInv
  <2>4. UNCHANGED <<now, vault, api_key, grant, approved, login, last, mishaps>>
    BY <2>1 DEF Ask, server, history
  <2> QED BY <2>2, <2>3, <2>4, <1>3
<1>5. CASE ReadKey(r)
  <2>1. Asks(r, "bearer", "openai", {}, Life) \/ Asks(r, "token", req[r].ref, req[r].token, req[r].left)
    BY <1>5, <1>1, KeyFacts
  <2>2. req[r].token = {} /\ req[r].pc = "key"
    BY <1>5, <1>1 DEF ReadKey, RequestInv
  <2>3. UNCHANGED <<now, vault, api_key, grant, approved, login, last, mishaps>>
    BY <1>5 DEF ReadKey, server, history
  <2>4. Life > 0
    BY TimeFacts
  <2> QED BY <2>1, <2>2, <2>3, <2>4, <1>3
<1>6. CASE retrieve_openai_oauth_bearer(r)
  <2>1. req[r].pc = "token"
    BY <1>6 DEF retrieve_openai_oauth_bearer
  <2>2. UNCHANGED <<now, vault, api_key, grant, approved, login, last, mishaps>>
    BY <1>6 DEF retrieve_openai_oauth_bearer, server, history
  <2>3. CASE REnd(r)
    BY <2>1, <2>2, <2>3, <1>2, <1>3, REndFacts
  <2>4. ASSUME NEW t \in vault[req[r].ref], oauth_token_needs_refresh(t),
               req' = [req EXCEPT ![r].pc = "refresh", ![r].token = {t}]
        PROVE  TokensInv'
    <3>1. t \in Token /\ {t} \in SUBSET Token /\ "refresh" \in RequestSteps
      BY <1>2, <2>4 DEF RequestSteps
    <3>2. Asks(r, "refresh", req[r].ref, {t}, req[r].left)
      BY <3>1, <2>4, <1>2, GoesFacts
    <3> QED BY <3>1, <3>2, <2>1, <2>2, <2>4, TakeStep
  <2>5. ASSUME NEW t \in vault[req[r].ref], ~oauth_token_needs_refresh(t), Hand(r, t.login, t.real - now)
        PROVE  TokensInv'
    <3>1. t \in Token /\ t.login \in Logins /\ t.real \in Nat /\ t.expires \in Nat
      BY <1>2, <2>5, TokenFields
    <3>2. t.expires <= t.real + MaxDelay
      BY <1>1, <1>2, <2>5 DEF GoodInv
    <3>3. t.real - now \in Int /\ t.real - now > 0
      BY <3>1, <3>2, <2>5, <1>2, TimeFacts DEF oauth_token_needs_refresh
    <3>4. Asks(r, "bearer", "openai", {}, t.real - now)
      BY <3>1, <3>3, <2>5, <1>2, HandFacts
    <3> QED BY <3>3, <3>4, <2>1, <2>2, <1>3
  <2>6. \/ REnd(r)
        \/ \E t \in vault[req[r].ref] : oauth_token_needs_refresh(t) /\ req' = [req EXCEPT ![r].pc = "refresh", ![r].token = {t}]
        \/ \E t \in vault[req[r].ref] : ~oauth_token_needs_refresh(t) /\ Hand(r, t.login, t.real - now)
    BY <1>6 DEF retrieve_openai_oauth_bearer
  <2> QED BY <2>3, <2>4, <2>5, <2>6
<1>7. CASE Refresh(r)
  <2>1. req[r].pc = "refresh" /\ req[r].pc # "answered"
    BY <1>7 DEF Refresh
  <2>2. UNCHANGED <<now, vault, api_key, approved, login, last, mishaps>>
    BY <1>7 DEF Refresh, history
  <2>3. PICK t \in Token : req[r].token = {t}
    BY <2>1, <1>1 DEF RequestInv
  <2>4. t.login \in Logins /\ t.gen \in Nat
    BY TokenFields
  <2>5. CASE grant[t.login] = t.gen
    <3>1. PICK g \in Nat : g = IF Rotates THEN t.gen + 1 ELSE t.gen
      BY <2>4
    <3>2. /\ grant' = [grant EXCEPT ![t.login] = g]
          /\ req' = [req EXCEPT ![r].pc = "answered", ![r].token = {issued(t.login, g)}]
      BY <1>7, <2>3, <2>5, <3>1 DEF Refresh
    <3>3. {issued(t.login, g)} \in SUBSET Token /\ "answered" \in RequestSteps
      BY <1>2, <2>4, IssuedFacts DEF RequestSteps
    <3>4. Asks(r, "answered", req[r].ref, {issued(t.login, g)}, req[r].left)
      BY <3>2, <3>3, <1>2, GoesFacts
    <3> QED BY <3>1, <3>2, <3>4, <2>1, <2>2, <2>3, <2>5, AnswerStep
  <2>6. CASE grant[t.login] # t.gen
    <3>1. REnd(r) /\ grant' = grant
      BY <1>7, <2>3, <2>6 DEF Refresh
    <3>2. UNCHANGED <<now, vault, api_key, grant, approved, login, last, mishaps>>
      BY <3>1, <2>2
    <3> QED BY <3>1, <3>2, <2>1, <1>2, <1>3, REndFacts
  <2> QED BY <2>5, <2>6
<1>8. CASE StoreRefreshed(r)
  <2>1. req[r].pc = "answered"
    BY <1>8 DEF StoreRefreshed
  <2>2. UNCHANGED <<now, api_key, grant, approved, login, last, mishaps>>
    BY <1>8 DEF StoreRefreshed, server, history
  <2>3. PICK t \in Token : req[r].token = {t}
    BY <2>1, <1>1 DEF RequestInv
  <2>4. /\ vault' = [vault EXCEPT ![req[r].ref] = {token_from_response(t)}]
        /\ Hand(r, t.login, t.real - now)
    BY <1>8, <2>3 DEF StoreRefreshed
  <2>5. now <= t.real - Life + MaxDelay /\ t.login \in Logins /\ t.real \in Nat
    BY <1>1, <2>1, <2>3, TokenFields DEF RequestInv, InTime
  <2>6. t.real - now \in Int /\ t.real - now > 0
    BY <2>5, <1>2, TimeFacts
  <2>7. PICK n \in Token : /\ n = token_from_response(t) /\ n.login = t.login /\ n.gen = t.gen
                           /\ n.real = t.real /\ n.expires = now + Life
    BY <1>2, ReadFacts
  <2>8. n.expires <= n.real + MaxDelay
    BY <2>5, <2>7, <1>2, TimeFacts
  <2>9. Asks(r, "bearer", "openai", {}, t.real - now)
    BY <2>4, <2>5, <2>6, <1>2, HandFacts
  <2>10. vault' = [vault EXCEPT ![req[r].ref] = {n}]
    BY <2>4, <2>7
  <2> QED BY <2>1, <2>2, <2>3, <2>6, <2>7, <2>8, <2>9, <2>10, KeepStep
<1>9. CASE DropRefreshed(r)
  <2>1. /\ REnd(r) /\ mishaps' = [mishaps EXCEPT ![req[r].ref] = @ \cup {"dropped"}]
        /\ UNCHANGED <<now, vault, api_key, grant, approved, login, last>>
    BY <1>9 DEF DropRefreshed, server
  <2>2. Asks(r, "failed", "openai", {}, 0)
    BY <2>1, <1>2, REndFacts
  <2>3. /\ mishaps' \in [Refs -> SUBSET {"dropped", "overtaken"}] /\ \A x \in Refs : mishaps[x] \subseteq mishaps'[x]
        /\ "dropped" \in mishaps'[req[r].ref] /\ \A x \in Refs : "overtaken" \in mishaps'[x] => "overtaken" \in mishaps[x]
    BY <2>1, <1>2
  <2>4. QuietRequest(r, "failed", "openai", 0)
    BY <2>1, <2>2, <2>3 DEF QuietRequest
  <2> QED BY <2>4, QuietRequestStep
<1>10. CASE FailRequest(r)
  <2>1. REnd(r) /\ req[r].pc # "answered"
    BY <1>10 DEF FailRequest
  <2>2. UNCHANGED <<now, vault, api_key, grant, approved, login, last, mishaps>>
    BY <1>10 DEF FailRequest, server, history
  <2> QED BY <2>1, <2>2, <1>2, <1>3, REndFacts
<1> QED BY <1>4, <1>5, <1>6, <1>7, <1>8, <1>9, <1>10 DEF RequestStep

-----------------------------------------------------------------------------
(* Steps of a login. *)
QuietLogin(l, pc, ref, deadline, wake) ==
  /\ LogsIn(l, pc, ref, {}, deadline, wake)
  /\ pc \notin {"idle", "answered", "keyed"}
  /\ (pc \in {"loop", "sleep", "slow"} => ref = "openai") /\ (pc \in {"wait", "key", "key."} => ref = "codex")
  /\ (login[l].pc \in Settled => pc \in Settled /\ ref = login[l].ref) /\ (pc \in {"key", "key."} => login[l].pc = "key")
  /\ (ref = "codex" /\ pc \notin {"idle"} \cup Over => (login[l].ref = "codex" /\ l \in Running) \/ ~PortTaken)
  /\ approved' \in [Logins -> {Never} \cup Nat]
  /\ \A x \in Logins \ {l} : login[x].pc = "idle" => approved'[x] = approved[x]
  /\ UNCHANGED <<now, vault, api_key, grant, req, last, mishaps>>

LEMMA QuietLoginStep ==
  ASSUME TokensInv, NEW l \in Logins, NEW pc, NEW ref, NEW deadline, NEW wake, QuietLogin(l, pc, ref, deadline, wake)
  PROVE  TokensInv'
<1>1. /\ TokensTypeOK /\ LoginInv /\ RequestInv /\ HeldInv /\ GoodInv /\ NewestInv /\ PortInv
      /\ KeyAndTokenAgree /\ VaultHoldsTheLastLogin /\ StoredTokenIsLive
  BY DEF TokensInv
<1>2. /\ now' = now /\ vault' = vault /\ api_key' = api_key /\ grant' = grant /\ req' = req
      /\ last' = last /\ mishaps' = mishaps
  BY DEF QuietLogin
<1>3. /\ login'[l].pc = pc /\ login'[l].ref = ref /\ login'[l].token = {}
      /\ \A x \in Logins \ {l} : login'[x] = login[x]
  BY DEF QuietLogin, LogsIn
<1>4. /\ pc \notin {"idle", "answered", "keyed"}
      /\ (pc \in {"loop", "sleep", "slow"} => ref = "openai") /\ (pc \in {"wait", "key", "key."} => ref = "codex")
      /\ (login[l].pc \in Settled => pc \in Settled /\ ref = login[l].ref) /\ (pc \in {"key", "key."} => login[l].pc = "key")
      /\ (ref = "codex" /\ pc \notin {"idle"} \cup Over => (login[l].ref = "codex" /\ l \in Running) \/ ~PortTaken)
      /\ \A x \in Logins \ {l} : login[x].pc = "idle" => approved'[x] = approved[x]
  BY DEF QuietLogin
<1>a. TokensTypeOK'
  BY <1>1, <1>2 DEF TokensTypeOK, QuietLogin, LogsIn
<1>b. LoginInv'
  <2> SUFFICES ASSUME NEW x \in Logins
               PROVE  /\ login'[x].pc = "idle" => login'[x].ref = "openai" /\ approved'[x] = Never
                      /\ login'[x].pc \in {"loop", "sleep", "slow"} => login'[x].ref = "openai"
                      /\ login'[x].pc \in {"wait", "key", "key.", "keyed"} => login'[x].ref = "codex"
                      /\ login'[x].pc = "answered" =>
                           /\ grant[x] = 1
                           /\ \E t \in Token : login'[x].token = {t} /\ t.login = x /\ t.gen = 1 /\ InTime(t)
                      /\ login'[x].pc # "answered" => login'[x].token = {}
    BY <1>2 DEF LoginInv, InTime
  <2>1. CASE x = l
    BY <2>1, <1>3, <1>4
  <2>2. CASE x # l
    BY <2>2, <1>1, <1>3, <1>4 DEF LoginInv
  <2> QED BY <2>1, <2>2
<1>c. RequestInv'
  BY <1>1, <1>2 DEF RequestInv, InTime
<1>d. HeldInv'
  <2>1. ASSUME NEW x \in Refs, NEW u \in Token, Fits(u, x)
        PROVE  Fits(u, x)'
    <3>1. u.login \in Logins
      BY TokenFields
    <3>2. login'[u.login].ref = login[u.login].ref /\ login'[u.login].pc \in Settled
      BY <2>1, <3>1, <1>3, <1>4 DEF Fits
    <3> QED BY <2>1, <3>2, <1>2, FitsStays
  <2>2. ASSUME NEW q \in Requests
        PROVE  req[q].ref \in Refs /\ req[q].token \subseteq Token
    BY <1>1, RequestFields DEF TokensTypeOK
  <2>3. \A x \in Refs : \A u \in vault'[x] : Fits(u, x)'
    BY <1>1, <1>2, <2>1 DEF HeldInv, TokensTypeOK
  <2>4. \A q \in Requests : \A u \in req'[q].token : Fits(u, req[q].ref)'
    BY <1>1, <1>2, <2>1, <2>2 DEF HeldInv
  <2> QED BY <2>3, <2>4 DEF HeldInv
<1>e. GoodInv'
  BY <1>1, <1>2 DEF GoodInv
<1>f. NewestInv'
  BY <1>1, <1>2 DEF NewestInv, Newer
<1>g. PortInv'
  <2>1. ASSUME NEW x \in Logins, x # l, x \in Running', login'[x].ref = "codex"
        PROVE  x \in Running /\ login[x].ref = "codex"
    BY <2>1, <1>3 DEF Running
  <2>2. ASSUME NEW x \in Logins, x # l, x \in Running', login'[x].ref = "codex", l \in Running', login'[l].ref = "codex"
        PROVE  FALSE
    <3>1. login[l].ref = "codex" /\ l \in Running
      <4>1. PortTaken
        BY <2>1, <2>2 DEF PortTaken
      <4>2. ref = "codex" /\ pc \notin {"idle"} \cup Over
        BY <2>2, <1>3 DEF Running
      <4> QED BY <4>1, <4>2, <1>4
    <3> QED BY <2>1, <2>2, <3>1, <1>1 DEF PortInv
  <2>3. \A x, y \in Running' : login'[x].ref = "codex" /\ login'[y].ref = "codex" => x = y
    <3> SUFFICES ASSUME NEW x \in Running', NEW y \in Running', login'[x].ref = "codex", login'[y].ref = "codex"
                 PROVE  x = y
      OBVIOUS
    <3>1. x \in Logins /\ y \in Logins
      BY DEF Running
    <3> QED BY <2>1, <2>2, <3>1, <1>1 DEF PortInv
  <2>4. \A x \in Logins : login'[x].pc \in {"key", "key."} => last["codex"] = x
    BY <1>1, <1>3, <1>4 DEF PortInv
  <2> QED BY <2>3, <2>4, <1>2 DEF PortInv
<1>h. KeyAndTokenAgree'
  BY <1>1, <1>2, <1>3, <1>4 DEF KeyAndTokenAgree
<1>i. VaultHoldsTheLastLogin' /\ StoredTokenIsLive'
  BY <1>1, <1>2 DEF VaultHoldsTheLastLogin, StoredTokenIsLive
<1> QED BY <1>a, <1>b, <1>c, <1>d, <1>e, <1>f, <1>g, <1>h, <1>i DEF TokensInv

LEMMA ApprovedStep ==
  ASSUME TokensInv, approved' \in [Logins -> {Never} \cup Nat],
         \A x \in Logins : login[x].pc = "idle" => approved'[x] = approved[x],
         UNCHANGED <<now, vault, api_key, grant, req, login, last, mishaps>>
  PROVE  TokensInv'
<1>1. /\ TokensTypeOK /\ LoginInv /\ RequestInv /\ HeldInv /\ GoodInv /\ NewestInv /\ PortInv
      /\ KeyAndTokenAgree /\ VaultHoldsTheLastLogin /\ StoredTokenIsLive
  BY DEF TokensInv
<1>2. /\ now' = now /\ vault' = vault /\ api_key' = api_key /\ grant' = grant /\ req' = req
      /\ login' = login /\ last' = last /\ mishaps' = mishaps
  OBVIOUS
<1>3. TokensTypeOK'
  BY <1>1, <1>2 DEF TokensTypeOK
<1>4. LoginInv'
  BY <1>1, <1>2 DEF LoginInv, InTime
<1>5. RequestInv' /\ GoodInv' /\ NewestInv' /\ PortInv'
  BY <1>1, <1>2 DEF RequestInv, InTime, GoodInv, NewestInv, Newer, PortInv, Running
<1>6. HeldInv'
  BY <1>1, <1>2 DEF HeldInv, Fits
<1>7. KeyAndTokenAgree' /\ VaultHoldsTheLastLogin' /\ StoredTokenIsLive'
  BY <1>1, <1>2 DEF KeyAndTokenAgree, VaultHoldsTheLastLogin, StoredTokenIsLive
<1> QED BY <1>3, <1>4, <1>5, <1>6, <1>7 DEF TokensInv

(* A login is answered by the server: nothing has a token of it yet. *)
LEMMA ExchangeStep ==
  ASSUME TokensInv, NEW l \in Logins, Exchange(l)
  PROVE  TokensInv'
<1>1. /\ TokensTypeOK /\ LoginInv /\ RequestInv /\ HeldInv /\ GoodInv /\ NewestInv /\ PortInv
      /\ KeyAndTokenAgree /\ VaultHoldsTheLastLogin /\ StoredTokenIsLive
  BY DEF TokensInv
<1>2. /\ now' = now /\ vault' = vault /\ api_key' = api_key /\ approved' = approved /\ req' = req
      /\ last' = last /\ mishaps' = mishaps /\ grant' = [grant EXCEPT ![l] = 1] /\ login[l].pc = "exchange"
  BY DEF Exchange, history
<1>3. now \in Nat /\ grant \in [Logins -> Nat] /\ login \in [Logins -> Login] /\ 1 \in Nat
  BY <1>1 DEF TokensTypeOK
<1>4. PICK n \in Token : n = issued(l, 1) /\ n.login = l /\ n.gen = 1 /\ n.real = now + Life
  BY <1>3, IssuedFacts
<1>5. LogsIn(l, "answered", login[l].ref, {n}, login[l].deadline, login[l].wake)
  BY <1>3, <1>4, ExchangeFacts
<1>6. /\ login'[l].pc = "answered" /\ login'[l].ref = login[l].ref /\ login'[l].token = {n}
      /\ \A x \in Logins \ {l} : login'[x] = login[x]
  BY <1>5 DEF LogsIn
<1>7. grant'[l] = 1 /\ \A x \in Logins \ {l} : grant'[x] = grant[x]
  BY <1>2, <1>3
<1>8. ASSUME NEW x \in Refs, NEW u \in Token, Fits(u, x)
      PROVE  u.login # l /\ grant'[u.login] = grant[u.login] /\ Fits(u, x)'
  <2>1. u.login \in Logins /\ u.login # l
    BY <1>8, <1>2, TokenFields DEF Fits, Settled
  <2>2. grant'[u.login] = grant[u.login] /\ login'[u.login] = login[u.login] /\ login[u.login].pc \in Settled
    BY <1>8, <2>1, <1>6, <1>7 DEF Fits
  <2> QED BY <2>1, <2>2, <1>2, <1>8, FitsStays
<1>9. \A x \in Refs : \A u \in vault[x] : u \in Token /\ Fits(u, x)
  BY <1>1 DEF HeldInv, TokensTypeOK
<1>10. \A q \in Requests : req[q].ref \in Refs /\ \A u \in req[q].token : u \in Token /\ Fits(u, req[q].ref)
  BY <1>1, RequestFields DEF HeldInv, TokensTypeOK
<1>a. TokensTypeOK'
  BY <1>1, <1>2, <1>3, <1>5 DEF TokensTypeOK, LogsIn
<1>b. LoginInv'
  <2>1. InTime(n)'
    BY <1>2, <1>3, <1>4, TimeFacts DEF InTime
  <2>2. login[l].pc # "idle" /\ \A u \in Token : InTime(u) => InTime(u)'
    BY <1>2 DEF InTime
  <2> QED BY <1>1, <1>2, <1>4, <1>6, <1>7, <2>1, <2>2 DEF LoginInv
<1>c. RequestInv'
  <2>1. ASSUME NEW q \in Requests, NEW u \in req[q].token PROVE grant'[u.login] = grant[u.login]
    BY <1>8, <1>10, <2>1
  <2> QED BY <1>1, <1>2, <2>1 DEF RequestInv, InTime
<1>d. HeldInv'
  <2>1. \A x \in Refs : \A u \in vault'[x] : Fits(u, x)'
    BY <1>2, <1>8, <1>9
  <2>2. \A q \in Requests : \A u \in req'[q].token : Fits(u, req[q].ref)'
    BY <1>2, <1>8, <1>10
  <2> QED BY <2>1, <2>2 DEF HeldInv
<1>e. GoodInv' /\ NewestInv'
  BY <1>1, <1>2 DEF GoodInv, NewestInv, Newer
<1>f. PortInv'
  <2>1. Running' = Running
    BY <1>2, <1>6 DEF Running, Over
  <2>2. \A x \in Running : login'[x].ref = login[x].ref
    BY <1>6 DEF Running
  <2>3. \A x \in Logins : login'[x].pc \in {"key", "key."} => last["codex"] = x
    BY <1>1, <1>6 DEF PortInv
  <2> QED BY <1>1, <1>2, <2>1, <2>2, <2>3 DEF PortInv
<1>g. KeyAndTokenAgree' /\ VaultHoldsTheLastLogin'
  BY <1>1, <1>2, <1>6 DEF KeyAndTokenAgree, VaultHoldsTheLastLogin
<1>h. StoredTokenIsLive'
  <2>1. ASSUME NEW x \in Refs, NEW u \in vault[x] PROVE grant'[u.login] = grant[u.login]
    BY <1>8, <1>9, <2>1
  <2> QED BY <1>1, <1>2, <2>1 DEF StoredTokenIsLive
<1> QED BY <1>a, <1>b, <1>c, <1>d, <1>e, <1>f, <1>g, <1>h DEF TokensInv

(* A login stores its token: a request that has another one for the same
   reference is refreshing it, and may yet store that one over it. *)
LEMMA StoreTokenStep ==
  ASSUME TokensInv, NEW l \in Logins, StoreToken(l)
  PROVE  TokensInv'
<1>1. /\ TokensTypeOK /\ LoginInv /\ RequestInv /\ HeldInv /\ GoodInv /\ NewestInv /\ PortInv
      /\ KeyAndTokenAgree /\ VaultHoldsTheLastLogin /\ StoredTokenIsLive
  BY DEF TokensInv
<1>2. /\ now' = now /\ api_key' = api_key /\ grant' = grant /\ approved' = approved /\ req' = req
      /\ login[l].pc = "answered"
  BY DEF StoreToken, server
<1>19. PICK ref \in Refs : ref = login[l].ref
  BY <1>1, LoginFields DEF TokensTypeOK
<1>20. PICK pc \in {"key", "done"} : pc = IF ref = "codex" THEN "key" ELSE "done"
  OBVIOUS
<1>3. /\ now \in Nat /\ grant \in [Logins -> Nat] /\ login \in [Logins -> Login] /\ ref \in Refs
      /\ vault \in [Refs -> SUBSET Token] /\ last \in [Refs -> {"nobody"} \cup Logins]
      /\ mishaps \in [Refs -> SUBSET {"dropped", "overtaken"}]
  BY <1>1, LoginFields DEF TokensTypeOK
<1>4. /\ vault' = [vault EXCEPT ![ref] = {token_from_response(t) : t \in login[l].token}]
      /\ last' = [last EXCEPT ![ref] = l] /\ LGo(l, pc)
      /\ mishaps' = IF RefreshingOther(ref, l) THEN [mishaps EXCEPT ![ref] = @ \cup {"overtaken"}] ELSE mishaps
  BY <1>19, <1>20 DEF StoreToken
<1>5. PICK t \in Token : login[l].token = {t} /\ t.login = l /\ t.gen = 1 /\ InTime(t) /\ grant[l] = 1
  BY <1>1, <1>2 DEF LoginInv
<1>6. PICK n \in Token : n = token_from_response(t) /\ n.login = l /\ n.gen = 1 /\ n.real = t.real /\ n.expires = now + Life
  BY <1>3, <1>5, ReadFacts
<1>7. vault'[ref] = {n} /\ \A x \in Refs \ {ref} : vault'[x] = vault[x]
  BY <1>3, <1>4, <1>5, <1>6
<1>8. last'[ref] = l /\ \A x \in Refs \ {ref} : last'[x] = last[x]
  BY <1>3, <1>4
<1>9. \A x \in Refs : mishaps[x] \subseteq mishaps'[x]
  BY <1>3, <1>4
<1>10. RefreshingOther(ref, l) => "overtaken" \in mishaps'[ref]
  BY <1>3, <1>4
<1>11. \A x \in Refs \ {ref} : mishaps'[x] = mishaps[x]
  BY <1>3, <1>4
<1>12. mishaps' \in [Refs -> SUBSET {"dropped", "overtaken"}] /\ last' \in [Refs -> {"nobody"} \cup Logins]
       /\ vault' \in [Refs -> SUBSET Token]
  <2>1. {n} \in SUBSET Token /\ vault' = [vault EXCEPT ![ref] = {n}]
    BY <1>4, <1>5, <1>6
  <2>2. mishaps' \in [Refs -> SUBSET {"dropped", "overtaken"}]
    BY <1>3, <1>4
  <2>3. last' \in [Refs -> {"nobody"} \cup Logins]
    BY <1>3, <1>4
  <2> QED BY <1>3, <2>1, <2>2, <2>3
<1>13. pc \in LoginSteps /\ pc \in {"key", "done"} /\ (pc = "key" <=> ref = "codex")
  BY <1>20 DEF LoginSteps
<1>14. LogsIn(l, pc, ref, {}, login[l].deadline, 0)
  BY <1>3, <1>4, <1>13, <1>19, LGoFacts
<1>15. /\ login'[l].pc = pc /\ login'[l].ref = ref /\ login'[l].token = {}
       /\ \A x \in Logins \ {l} : login'[x] = login[x]
  BY <1>14 DEF LogsIn
<1>16. ASSUME NEW x \in Refs, NEW u \in Token, Fits(u, x)
       PROVE  /\ u.login \in Logins /\ u.login # l
              /\ login'[u.login].ref = x /\ login'[u.login].pc \in Settled
              /\ u.gen <= grant[u.login] /\ (Rotates \/ u.gen = grant[u.login])
  <2>1. u.login \in Logins /\ u.login # l
    BY <1>16, <1>2, TokenFields DEF Fits, Settled
  <2> QED BY <1>16, <2>1, <1>15 DEF Fits
<1>17. \A x \in Refs : \A u \in vault[x] : u \in Token /\ Fits(u, x)
  BY <1>1 DEF HeldInv, TokensTypeOK
<1>18. \A q \in Requests : req[q].ref \in Refs /\ \A u \in req[q].token : u \in Token /\ Fits(u, req[q].ref)
  BY <1>1, RequestFields DEF HeldInv, TokensTypeOK
<1>a. TokensTypeOK'
  BY <1>1, <1>2, <1>12, <1>14 DEF TokensTypeOK, LogsIn
<1>b. LoginInv'
  <2>1. \A u \in Token : InTime(u) => InTime(u)'
    BY <1>2 DEF InTime
  <2> QED BY <1>1, <1>2, <1>13, <1>15, <2>1 DEF LoginInv
<1>c. RequestInv'
  BY <1>1, <1>2 DEF RequestInv, InTime
<1>d. HeldInv'
  <2>1. Fits(n, ref)'
    BY <1>2, <1>3, <1>5, <1>6, <1>8, <1>13, <1>15 DEF Fits, Settled
  <2>2. ASSUME NEW x \in Refs \ {ref}, NEW u \in Token, Fits(u, x)
        PROVE  Fits(u, x)'
    <3>1. login'[u.login].ref = login[u.login].ref /\ login'[u.login].pc \in Settled
      BY <2>2, <1>16 DEF Fits
    <3>2. grant'[u.login] = grant[u.login] /\ mishaps[x] \subseteq mishaps'[x] /\ last'[x] = last[x]
      BY <1>2, <1>8, <1>9
    <3> QED BY <2>2, <3>1, <3>2, FitsStays
  <2>3. ASSUME NEW q \in Requests, NEW u \in req[q].token, req[q].ref = ref
        PROVE  Fits(u, ref)'
    <3>1. u \in Token /\ Fits(u, ref) /\ req[q].pc \in {"refresh", "answered"}
      BY <2>3, <1>1, <1>18 DEF RequestInv
    <3>2. \A v \in req[q].token : v.login # l
      BY <2>3, <1>3, <1>16, <1>18
    <3>3. "overtaken" \in mishaps'[ref]
      BY <2>3, <3>1, <3>2, <1>10 DEF RefreshingOther
    <3> QED BY <3>1, <3>3, <1>2, <1>3, <1>16 DEF Fits
  <2>4. \A x \in Refs : \A u \in vault'[x] : Fits(u, x)'
    BY <2>1, <2>2, <1>7, <1>17
  <2>5. \A q \in Requests : \A u \in req'[q].token : Fits(u, req[q].ref)'
    BY <1>2, <2>2, <2>3, <1>18
  <2> QED BY <2>4, <2>5, <1>2 DEF HeldInv
<1>e. GoodInv'
  <2>1. n.expires <= n.real + MaxDelay
    BY <1>3, <1>5, <1>6, TokenFields, TimeFacts DEF InTime
  <2> QED BY <1>1, <1>7, <2>1 DEF GoodInv
<1>f. NewestInv'
  <2>1. ASSUME NEW q \in Requests, NEW v \in req[q].token PROVE Newer(v, n)
    BY <2>1, <1>6, <1>16, <1>18 DEF Newer
  <2> QED BY <1>1, <1>2, <1>7, <2>1 DEF NewestInv, Newer
<1>g. PortInv'
  <2>1. login[l].ref = ref /\ l \in Running
    BY <1>2, <1>19 DEF Running, Over
  <2>2. ASSUME NEW x \in Running' PROVE x \in Running /\ login[x].ref = login'[x].ref
    BY <2>1, <1>15 DEF Running
  <2>3. ASSUME NEW x \in Logins, login'[x].pc \in {"key", "key."} PROVE last'["codex"] = x
    <3>1. CASE x = l
      BY <2>3, <3>1, <1>8, <1>13, <1>15
    <3>2. CASE x # l
      <4>1. login[x].pc \in {"key", "key."} /\ login[x].ref = "codex" /\ last["codex"] = x
        BY <2>3, <3>2, <1>1, <1>15 DEF PortInv, LoginInv
      <4>2. x \in Running
        BY <4>1 DEF Running, Over
      <4>3. ref # "codex"
        BY <3>2, <4>1, <4>2, <2>1, <1>1 DEF PortInv
      <4> QED BY <4>1, <4>3, <1>8 DEF Refs
    <3> QED BY <3>1, <3>2
  <2>4. \A x, y \in Running' : login'[x].ref = "codex" /\ login'[y].ref = "codex" => x = y
    BY <2>2, <1>1 DEF PortInv
  <2> QED BY <2>3, <2>4 DEF PortInv
<1>h. KeyAndTokenAgree'
  BY <1>1, <1>2, <1>8, <1>13, <1>15 DEF KeyAndTokenAgree, Refs
<1>i. VaultHoldsTheLastLogin'
  <2> SUFFICES ASSUME NEW x \in Refs, "overtaken" \notin mishaps'[x]
               PROVE  {u.login : u \in vault'[x]} = {last'[x]} \ {"nobody"}
    BY DEF VaultHoldsTheLastLogin
  <2>1. CASE x = ref
    <3>1. {u.login : u \in vault'[x]} = {l}
      BY <2>1, <1>6, <1>7
    <3> QED BY <2>1, <3>1, <1>8, LoginAssumption
  <2>2. CASE x # ref
    BY <2>2, <1>1, <1>7, <1>8, <1>11 DEF VaultHoldsTheLastLogin
  <2> QED BY <2>1, <2>2
<1>j. StoredTokenIsLive'
  <2>1. n.gen = grant[n.login]
    BY <1>5, <1>6
  <2> QED BY <2>1, <1>1, <1>2, <1>7, <1>9 DEF StoredTokenIsLive
<1> QED BY <1>a, <1>b, <1>c, <1>d, <1>e, <1>f, <1>g, <1>h, <1>i, <1>j DEF TokensInv

LEMMA StoreKeyStep ==
  ASSUME TokensInv, NEW l \in Logins, StoreKey(l)
  PROVE  TokensInv'
<1>1. /\ TokensTypeOK /\ LoginInv /\ RequestInv /\ HeldInv /\ GoodInv /\ NewestInv /\ PortInv
      /\ KeyAndTokenAgree /\ VaultHoldsTheLastLogin /\ StoredTokenIsLive
  BY DEF TokensInv
<1>2. /\ now' = now /\ vault' = vault /\ grant' = grant /\ approved' = approved /\ req' = req
      /\ last' = last /\ mishaps' = mishaps /\ api_key' = l /\ login[l].pc = "key." /\ LGo(l, "keyed")
  BY DEF StoreKey, server, history
<1>3. login \in [Logins -> Login] /\ "keyed" \in LoginSteps /\ login[l].ref = "codex"
  BY <1>1, <1>2 DEF TokensTypeOK, LoginSteps, LoginInv
<1>4. LogsIn(l, "keyed", login[l].ref, {}, login[l].deadline, 0)
  BY <1>2, <1>3, LGoFacts
<1>5. /\ login'[l].pc = "keyed" /\ login'[l].ref = login[l].ref /\ login'[l].token = {}
      /\ \A x \in Logins \ {l} : login'[x] = login[x]
  BY <1>4 DEF LogsIn
<1>a. TokensTypeOK'
  BY <1>1, <1>2, <1>4 DEF TokensTypeOK, LogsIn
<1>b. LoginInv'
  <2>1. \A u \in Token : InTime(u) => InTime(u)'
    BY <1>2 DEF InTime
  <2> QED BY <1>1, <1>2, <1>3, <1>5, <2>1 DEF LoginInv
<1>c. RequestInv'
  BY <1>1, <1>2 DEF RequestInv, InTime
<1>d. HeldInv'
  <2>1. ASSUME NEW x \in Refs, NEW u \in Token, Fits(u, x)
        PROVE  Fits(u, x)'
    <3>1. u.login \in Logins
      BY TokenFields
    <3>2. login'[u.login].ref = login[u.login].ref /\ login'[u.login].pc \in Settled
      BY <2>1, <3>1, <1>5 DEF Fits, Settled
    <3> QED BY <2>1, <3>2, <1>2, FitsStays
  <2>2. \A q \in Requests : req[q].ref \in Refs /\ \A u \in req[q].token : u \in Token /\ Fits(u, req[q].ref)
    BY <1>1, RequestFields DEF HeldInv, TokensTypeOK
  <2>3. \A x \in Refs : \A u \in vault'[x] : Fits(u, x)'
    BY <1>1, <1>2, <2>1 DEF HeldInv, TokensTypeOK
  <2>4. \A q \in Requests : \A u \in req'[q].token : Fits(u, req[q].ref)'
    BY <1>2, <2>1, <2>2
  <2> QED BY <2>3, <2>4, <1>2 DEF HeldInv
<1>e. GoodInv' /\ NewestInv'
  BY <1>1, <1>2 DEF GoodInv, NewestInv, Newer
<1>f. PortInv'
  <2>1. ASSUME NEW x \in Running' PROVE x \in Running /\ login[x].ref = login'[x].ref
    BY <2>1, <1>5 DEF Running, Over
  <2>2. \A x, y \in Running' : login'[x].ref = "codex" /\ login'[y].ref = "codex" => x = y
    BY <2>1, <1>1 DEF PortInv
  <2>3. \A x \in Logins : login'[x].pc \in {"key", "key."} => last["codex"] = x
    BY <1>1, <1>5 DEF PortInv
  <2> QED BY <2>2, <2>3, <1>2 DEF PortInv
<1>g. KeyAndTokenAgree'
  <2>1. last["codex"] = l
    BY <1>1, <1>2 DEF PortInv
  <2> QED BY <2>1, <1>2, <1>5 DEF KeyAndTokenAgree
<1>h. VaultHoldsTheLastLogin' /\ StoredTokenIsLive'
  BY <1>1, <1>2 DEF VaultHoldsTheLastLogin, StoredTokenIsLive
<1> QED BY <1>a, <1>b, <1>c, <1>d, <1>e, <1>f, <1>g, <1>h DEF TokensInv

LEMMA TickStep ==
  ASSUME TokensInv, Tick
  PROVE  TokensInv'
<1>1. /\ TokensTypeOK /\ LoginInv /\ RequestInv /\ HeldInv /\ GoodInv /\ NewestInv /\ PortInv
      /\ KeyAndTokenAgree /\ VaultHoldsTheLastLogin /\ StoredTokenIsLive
  BY DEF TokensInv
<1>2. /\ vault' = vault /\ api_key' = api_key /\ grant' = grant /\ approved' = approved /\ req' = req
      /\ login' = login /\ last' = last /\ mishaps' = mishaps /\ now' = now + 1
  BY DEF Tick, server, history
<1>3. now \in Nat
  BY <1>1 DEF TokensTypeOK
<1>4. ASSUME NEW u \in Token, now < u.real - Life + MaxDelay PROVE InTime(u)'
  BY <1>2, <1>3, <1>4, TokenFields, TimeFacts DEF InTime
<1>5. /\ \A l \in Logins : login[l].pc = "answered" => \A u \in login[l].token : now < u.real - Life + MaxDelay
      /\ \A r \in Requests : req[r].pc = "answered" => \A u \in req[r].token : now < u.real - Life + MaxDelay
  BY DEF Tick, Travels
<1>a. TokensTypeOK'
  BY <1>1, <1>2, <1>3 DEF TokensTypeOK
<1>b. LoginInv'
  BY <1>1, <1>2, <1>4, <1>5 DEF LoginInv
<1>c. RequestInv'
  <2>1. \A r \in Requests : req[r].token \subseteq Token
    BY <1>1, RequestFields DEF TokensTypeOK
  <2> QED BY <1>1, <1>2, <1>4, <1>5, <2>1 DEF RequestInv
<1>d. HeldInv'
  BY <1>1, <1>2 DEF HeldInv, Fits
<1>e. GoodInv' /\ NewestInv' /\ PortInv'
  BY <1>1, <1>2 DEF GoodInv, NewestInv, Newer, PortInv, Running
<1>f. KeyAndTokenAgree' /\ VaultHoldsTheLastLogin' /\ StoredTokenIsLive'
  BY <1>1, <1>2 DEF KeyAndTokenAgree, VaultHoldsTheLastLogin, StoredTokenIsLive
<1> QED BY <1>a, <1>b, <1>c, <1>d, <1>e, <1>f DEF TokensInv

LEMMA LoginInvStep ==
  ASSUME TokensInv, NEW l \in Logins,
         StartDevice(l) \/ StartCodex(l) \/ Approve(l) \/ Callback(l) \/ LoginStep(l) \/ Fail(l)
  PROVE  TokensInv'
<1>1. TokensTypeOK /\ LoginInv
  BY DEF TokensInv
<1>2. now \in Nat /\ login \in [Logins -> Login] /\ approved \in [Logins -> {Never} \cup Nat]
  BY <1>1 DEF TokensTypeOK
<1>3. ASSUME NEW k \in Logins, k \in Running, NEW pc, NEW wake, LogsIn(k, pc, login[k].ref, {}, login[k].deadline, wake),
             pc \notin {"idle", "answered", "keyed"},
             pc \in {"loop", "sleep", "slow"} => login[k].ref = "openai", pc # "wait",
             login[k].pc \in Settled => pc \in Settled, pc \in {"key", "key."} => login[k].pc = "key",
             approved' \in [Logins -> {Never} \cup Nat], \A x \in Logins \ {k} : login[x].pc = "idle" => approved'[x] = approved[x],
             UNCHANGED <<now, vault, api_key, grant, req, last, mishaps>>
      PROVE  TokensInv'
  <2>1. pc \in {"key", "key."} => login[k].ref = "codex"
    BY <1>1, <1>3 DEF LoginInv
  <2>2. QuietLogin(k, pc, login[k].ref, login[k].deadline, wake)
    BY <1>3, <2>1 DEF QuietLogin
  <2> QED BY <2>2, QuietLoginStep
<1>4. ASSUME UNCHANGED approved
      PROVE  approved' \in [Logins -> {Never} \cup Nat] /\ \A x \in Logins : approved'[x] = approved[x]
  BY <1>2, <1>4
<1>5. CASE StartDevice(l)
  <2>1. login[l].pc = "idle" /\ login[l].token = {} /\ login[l].ref = "openai"
    BY <1>1, <1>5 DEF StartDevice, LoginInv
  <2>2. UNCHANGED <<now, vault, api_key, grant, approved, req, last, mishaps>>
    BY <1>5 DEF StartDevice, server, history
  <2>3. LogsIn(l, "loop", "openai", {}, now + TIMEOUT, login[l].wake)
    BY <1>2, <1>5, <2>1, StartDeviceFacts
  <2>4. QuietLogin(l, "loop", "openai", now + TIMEOUT, login[l].wake)
    BY <2>1, <2>2, <2>3, <1>4 DEF QuietLogin, Settled
  <2> QED BY <2>4, QuietLoginStep
<1>6. CASE StartCodex(l)
  <2>1. login[l].pc = "idle"
    BY <1>6 DEF StartCodex
  <2>2. UNCHANGED <<now, vault, api_key, grant, approved, req, last, mishaps>>
    BY <1>6 DEF StartCodex, server, history
  <2>3. CASE PortTaken /\ LogsIn(l, "failed", "codex", {}, 0, 0)
    <3>1. QuietLogin(l, "failed", "codex", 0, 0)
      BY <2>1, <2>2, <2>3, <1>4 DEF QuietLogin, Settled, Over
    <3> QED BY <3>1, QuietLoginStep
  <2>4. CASE ~PortTaken /\ LogsIn(l, "wait", "codex", {}, now + TIMEOUT, 0)
    <3>1. QuietLogin(l, "wait", "codex", now + TIMEOUT, 0)
      BY <2>1, <2>2, <2>4, <1>4 DEF QuietLogin, Settled
    <3> QED BY <3>1, QuietLoginStep
  <2> QED BY <2>3, <2>4, <1>2, <1>6, StartCodexFacts
<1>7. CASE Approve(l)
  <2>1. /\ login[l].pc # "idle" /\ approved' = [approved EXCEPT ![l] = now]
        /\ UNCHANGED <<now, vault, api_key, grant, req, login, last, mishaps>>
    BY <1>7 DEF Approve, history
  <2>2. approved' \in [Logins -> {Never} \cup Nat] /\ \A x \in Logins \ {l} : approved'[x] = approved[x]
    BY <2>1, <1>2
  <2> QED BY <2>1, <2>2, ApprovedStep
<1>8. CASE Callback(l)
  <2>1. /\ login[l].ref = "codex" /\ approved' = [approved EXCEPT ![l] = 0]
        /\ UNCHANGED <<now, vault, api_key, grant, req, last, mishaps>>
    BY <1>8 DEF Callback, history
  <2>2. 0 \in Nat /\ login[l].pc # "idle"
    BY <2>1, <1>1 DEF LoginInv
  <2>3. approved' \in [Logins -> {Never} \cup Nat] /\ \A x \in Logins : login[x].pc = "idle" => approved'[x] = approved[x]
    BY <2>1, <2>2, <1>2
  <2>4. CASE login' = login
    BY <2>1, <2>3, <2>4, ApprovedStep
  <2>5. ASSUME NEW k \in Logins, LoginAt(k, "codex", "wait"), NEW pc \in {"exchange", "failed"}, LGo(k, pc)
        PROVE  TokensInv'
    <3>1. pc \in LoginSteps /\ k \in Running /\ login[k].pc = "wait"
      BY <2>5 DEF LoginSteps, LoginAt, Running, Over
    <3>2. LogsIn(k, pc, login[k].ref, {}, login[k].deadline, 0)
      BY <2>5, <3>1, <1>2, LGoFacts
    <3> QED BY <2>1, <2>3, <2>5, <3>1, <3>2, <1>3 DEF Settled
  <2>6. login' = login \/ \E k \in Logins : \E pc \in {"exchange", "failed"} : LoginAt(k, "codex", "wait") /\ LGo(k, pc)
    BY <1>8 DEF Callback
  <2> QED BY <2>4, <2>5, <2>6
<1>9. ASSUME NEW pc \in LoginSteps \ {"idle", "answered", "keyed", "wait", "slow", "sleep", "key"}, LGo(l, pc), l \in Running,
             pc = "loop" => login[l].ref = "openai", login[l].pc \in Settled => pc \in Settled, pc = "key." => login[l].pc = "key",
             UNCHANGED <<now, vault, api_key, grant, approved, req, last, mishaps>>
      PROVE  TokensInv'
  <2>1. LogsIn(l, pc, login[l].ref, {}, login[l].deadline, 0)
    BY <1>2, <1>9, LGoFacts
  <2> QED BY <2>1, <1>3, <1>4, <1>9
<1>10. ASSUME NEW pc \in {"sleep", "slow"}, Sleep(l, pc), login[l].pc \in {"loop", "sleep"},
              UNCHANGED <<now, vault, api_key, grant, approved, req, last, mishaps>>
       PROVE  TokensInv'
  <2>1. login[l].token = {} /\ login[l].ref = "openai" /\ l \in Running /\ pc \in LoginSteps
    BY <1>1, <1>10 DEF LoginInv, Running, Over, LoginSteps
  <2>2. LogsIn(l, pc, login[l].ref, {}, login[l].deadline, now + Interval)
    BY <1>2, <1>10, <2>1, SleepFacts
  <2> QED BY <2>1, <2>2, <1>3, <1>4, <1>10 DEF Settled
<1>11. CASE PollLoop(l)
  <2>1. login[l].pc = "loop" /\ l \in Running /\ UNCHANGED <<now, vault, api_key, grant, approved, req, last, mishaps>>
    BY <1>11 DEF PollLoop, server, history, Running, Over
  <2>2. Sleep(l, "sleep") \/ LGo(l, "timed out")
    BY <1>11 DEF PollLoop
  <2> QED BY <2>1, <2>2, <1>9, <1>10 DEF LoginSteps, Settled
<1>12. CASE poll_device_authorization(l)
  <2>1. login[l].pc = "sleep" /\ l \in Running /\ UNCHANGED <<now, vault, api_key, grant, approved, req, last, mishaps>>
    BY <1>12 DEF poll_device_authorization, server, history, Running, Over
  <2>2. LGo(l, "exchange") \/ LGo(l, "loop") \/ Sleep(l, "slow")
    BY <1>12 DEF poll_device_authorization
  <2>3. login[l].ref = "openai"
    BY <2>1, <1>1 DEF LoginInv
  <2> QED BY <2>1, <2>2, <2>3, <1>9, <1>10 DEF LoginSteps, Settled
<1>13. CASE EndSlowDown(l)
  <2>1. login[l].pc = "slow" /\ l \in Running /\ UNCHANGED <<now, vault, api_key, grant, approved, req, last, mishaps>>
    BY <1>13 DEF EndSlowDown, server, history, Running, Over
  <2>2. LGo(l, "loop")
    BY <1>13 DEF EndSlowDown
  <2>3. login[l].ref = "openai"
    BY <2>1, <1>1 DEF LoginInv
  <2> QED BY <2>1, <2>2, <2>3, <1>9 DEF LoginSteps, Settled
<1>14. CASE TimeOut(l)
  <2>1. login[l].pc = "wait" /\ l \in Running /\ UNCHANGED <<now, vault, api_key, grant, approved, req, last, mishaps>>
    BY <1>14 DEF TimeOut, server, history, Running, Over
  <2>2. LGo(l, "timed out")
    BY <1>14 DEF TimeOut
  <2> QED BY <2>1, <2>2, <1>9 DEF LoginSteps, Settled
<1>15. CASE Exchange(l)
  BY <1>15, ExchangeStep
<1>16. CASE StoreToken(l)
  BY <1>16, StoreTokenStep
<1>17. CASE ExchangeKey(l)
  <2>1. login[l].pc = "key" /\ l \in Running /\ UNCHANGED <<now, vault, api_key, grant, approved, req, last, mishaps>>
    BY <1>17 DEF ExchangeKey, server, history, Running, Over
  <2>2. LGo(l, "key.") \/ LGo(l, "done")
    BY <1>17 DEF ExchangeKey
  <2> QED BY <2>1, <2>2, <1>9 DEF LoginSteps, Settled
<1>18. CASE StoreKey(l)
  BY <1>18, StoreKeyStep
<1>19. CASE Fail(l)
  <2>1. l \in Running /\ LGo(l, "failed") /\ UNCHANGED <<now, vault, api_key, grant, approved, req, last, mishaps>>
    BY <1>19 DEF Fail, server, history
  <2> QED BY <2>1, <1>9 DEF LoginSteps, Settled
<1> QED BY <1>5, <1>6, <1>7, <1>8, <1>11, <1>12, <1>13, <1>14, <1>15, <1>16, <1>17, <1>18, <1>19 DEF LoginStep

LEMMA TokensStep == TokensInv /\ [TokensNext]_tokenVars => TokensInv'
<1> SUFFICES ASSUME TokensInv, [TokensNext]_tokenVars PROVE TokensInv'
  OBVIOUS
<1>1. CASE Tick
  BY <1>1, TickStep
<1>2. ASSUME NEW r \in Requests, (\E ref \in Refs : Ask(r, ref)) \/ RequestStep(r) \/ DropRefreshed(r) \/ FailRequest(r)
      PROVE  TokensInv'
  BY <1>2, RequestInvStep
<1>3. ASSUME NEW l \in Logins, StartDevice(l) \/ StartCodex(l) \/ Approve(l) \/ Callback(l) \/ LoginStep(l) \/ Fail(l)
      PROVE  TokensInv'
  BY <1>3, LoginInvStep
<1>4. CASE UNCHANGED tokenVars
  <2>1. UNCHANGED <<now, vault, api_key, grant, approved, req, login, last, mishaps>>
    BY <1>4 DEF tokenVars, server, history
  <2>2. TokensTypeOK /\ \A x \in Logins : approved'[x] = approved[x]
    BY <2>1 DEF TokensInv
  <2> QED BY <2>1, <2>2, ApprovedStep DEF TokensTypeOK
<1> QED BY <1>1, <1>2, <1>3, <1>4 DEF TokensNext

LEMMA TokensInvHolds == TokensSpec => []TokensInv
BY TokensInitInv, TokensStep, PTL DEF TokensSpec

-----------------------------------------------------------------------------
(* The device login.  No sleeper oversleeps, so an approval that a poll did not
   see is at most one interval old when the loop looks at the clock again. *)
Seen(l) ==
  login[l].ref = "openai" =>
    /\ login[l].pc \in {"sleep", "slow"} => now <= login[l].wake
    /\ login[l].pc = "slow" =>
         login[l].wake <= now + Interval /\ (approved[l] # Never => approved[l] + Interval >= login[l].wake)
    /\ login[l].pc = "loop" /\ approved[l] # Never => approved[l] + Interval >= now
    /\ login[l].pc = "timed out" /\ approved[l] # Never => approved[l] + Interval >= login[l].deadline
SeenInv == \A l \in Logins : Seen(l)

LEMMA SeenStays ==
  ASSUME NEW l, Seen(l), login'[l] = login[l], approved'[l] = approved[l], now' = now
  PROVE  Seen(l)'
BY DEF Seen

LEMMA SeenStep == TokensInv /\ SeenInv /\ [TokensNext]_tokenVars => SeenInv'
<1> SUFFICES ASSUME TokensInv, SeenInv, [TokensNext]_tokenVars, NEW x \in Logins PROVE Seen(x)'
  BY DEF SeenInv
<1>1. /\ now \in Nat /\ login \in [Logins -> Login] /\ approved \in [Logins -> {Never} \cup Nat]
      /\ Seen(x) /\ LoginInv
  BY DEF TokensInv, TokensTypeOK, SeenInv
<1>2. login[x].deadline \in Nat /\ login[x].wake \in Nat /\ (approved[x] # Never => approved[x] \in Nat)
  BY <1>1, LoginFields
<1>3. ASSUME UNCHANGED <<now, approved, login>> PROVE Seen(x)'
  BY <1>1, <1>3, SeenStays
<1>4. CASE Tick
  <2>1. now' = now + 1 /\ login' = login /\ approved' = approved
    BY <1>4 DEF Tick, server
  <2>2. login[x].pc # "loop" /\ (login[x].pc \in {"sleep", "slow"} => now < login[x].wake)
    BY <1>4 DEF Tick
  <2> SUFFICES ASSUME login[x].ref = "openai"
               PROVE  /\ login[x].pc \in {"sleep", "slow"} => now + 1 <= login[x].wake
                      /\ login[x].pc = "slow" =>
                           /\ login[x].wake <= now + 1 + Interval
                           /\ approved[x] # Never => approved[x] + Interval >= login[x].wake
                      /\ login[x].pc = "timed out" /\ approved[x] # Never => approved[x] + Interval >= login[x].deadline
    BY <2>1, <2>2 DEF Seen
  <2>3. login[x].pc \in {"sleep", "slow"} => now + 1 <= login[x].wake
    BY <2>2, <1>1, <1>2
  <2>4. login[x].pc = "slow" => login[x].wake <= now + Interval
    BY <1>1 DEF Seen
  <2>5. login[x].pc = "slow" => login[x].wake <= now + 1 + Interval
    BY <2>4, <1>1, <1>2, TimeFacts
  <2> QED BY <2>3, <2>5, <1>1 DEF Seen
<1>5. ASSUME NEW r \in Requests, (\E ref \in Refs : Ask(r, ref)) \/ RequestStep(r) \/ DropRefreshed(r) \/ FailRequest(r)
      PROVE  Seen(x)'
  <2>1. CASE \E ref \in Refs : Ask(r, ref)
    BY <2>1, <1>3 DEF Ask, server
  <2>2. CASE ReadKey(r)
    BY <2>2, <1>3 DEF ReadKey, server
  <2>3. CASE retrieve_openai_oauth_bearer(r)
    BY <2>3, <1>3 DEF retrieve_openai_oauth_bearer, server
  <2>4. CASE Refresh(r)
    BY <2>4, <1>3 DEF Refresh
  <2>5. CASE StoreRefreshed(r)
    BY <2>5, <1>3 DEF StoreRefreshed, server
  <2>6. CASE DropRefreshed(r)
    BY <2>6, <1>3 DEF DropRefreshed, server
  <2>7. CASE FailRequest(r)
    BY <2>7, <1>3 DEF FailRequest, server
  <2> QED BY <2>1, <2>2, <2>3, <2>4, <2>5, <2>6, <2>7, <1>5 DEF RequestStep
<1>6. ASSUME NEW l \in Logins, NEW pc, NEW ref, NEW token, NEW deadline, NEW wake, LogsIn(l, pc, ref, token, deadline, wake),
             now' = now, approved' = approved,
             pc \in {"loop", "sleep", "slow", "timed out"} =>
               ref # "openai" \/ (pc = "loop" /\ approved[l] = Never)
      PROVE  Seen(x)'
  <2>1. /\ login'[l].pc = pc /\ login'[l].ref = ref /\ \A k \in Logins \ {l} : login'[k] = login[k]
    BY <1>6 DEF LogsIn
  <2>2. CASE x = l
    BY <2>1, <2>2, <1>6 DEF Seen
  <2>3. CASE x # l
    BY <2>1, <2>3, <1>1, <1>6, SeenStays
  <2> QED BY <2>2, <2>3
<1>7. ASSUME NEW l \in Logins, NEW pc \in LoginSteps \ {"loop", "sleep", "slow", "timed out"}, LGo(l, pc), now' = now, approved' = approved
      PROVE  Seen(x)'
  BY <1>1, <1>6, <1>7, LGoFacts
<1>8. ASSUME NEW l \in Logins, StartDevice(l) \/ StartCodex(l) \/ Approve(l) \/ Callback(l)
      PROVE  Seen(x)'
  <2>1. CASE StartDevice(l)
    <3>1. approved[l] = Never /\ now' = now /\ approved' = approved
      BY <2>1, <1>1 DEF StartDevice, LoginInv, server
    <3> QED BY <2>1, <3>1, <1>1, <1>6, StartDeviceFacts
  <2>2. CASE StartCodex(l)
    <3>1. now' = now /\ approved' = approved
      BY <2>2 DEF StartCodex, server
    <3> QED BY <2>2, <3>1, <1>1, <1>6, StartCodexFacts
  <2>3. CASE Approve(l)
    <3>1. login' = login /\ now' = now /\ approved' = [approved EXCEPT ![l] = now] /\ login[l].pc \in {"loop", "sleep", "slow"}
      BY <2>3 DEF Approve
    <3>2. CASE x = l
      <4>1. approved'[x] = now
        BY <3>1, <3>2, <1>1
      <4>2. now + Interval >= now
        BY <1>1, TimeFacts
      <4>3. login[x].pc = "slow" => now + Interval >= login[x].wake
        <5> SUFFICES ASSUME login[x].pc = "slow" PROVE login[x].wake <= now + Interval
          BY <1>1, <1>2, TimeFacts
        <5>1. login[x].ref = "openai"
          BY <1>1 DEF LoginInv
        <5> QED BY <5>1, <1>1 DEF Seen
      <4> QED BY <3>1, <3>2, <4>1, <4>2, <4>3, <1>1 DEF Seen
    <3>3. CASE x # l
      BY <3>1, <3>3, <1>1, SeenStays
    <3> QED BY <3>2, <3>3
  <2>4. CASE Callback(l)
    <3>1. now' = now /\ approved' = [approved EXCEPT ![l] = 0] /\ login[l].ref = "codex"
      BY <2>4 DEF Callback
    <3>2. \/ login' = login
          \/ \E k \in Logins : \E pc \in {"exchange", "failed"} : LoginAt(k, "codex", "wait") /\ LGo(k, pc)
      BY <2>4 DEF Callback
    <3>3. ASSUME NEW k \in Logins, NEW pc \in {"exchange", "failed"}, LoginAt(k, "codex", "wait"), LGo(k, pc)
          PROVE  login'[x] = login[x] \/ login'[x].ref = "codex"
      <4>1. pc \in LoginSteps /\ login[k].ref = "codex"
        BY <3>3 DEF LoginSteps, LoginAt
      <4>2. LogsIn(k, pc, login[k].ref, {}, login[k].deadline, 0)
        BY <3>3, <4>1, <1>1, LGoFacts
      <4> QED BY <4>1, <4>2 DEF LogsIn
    <3>4. login'[x] = login[x] \/ login'[x].ref = "codex"
      BY <3>2, <3>3
    <3>5. CASE login'[x].ref = "openai"
      <4>1. x # l /\ login'[x] = login[x]
        BY <3>1, <3>4, <3>5
      <4> QED BY <4>1, <3>1, <1>1, SeenStays
    <3> QED BY <3>5 DEF Seen
  <2> QED BY <2>1, <2>2, <2>3, <2>4, <1>8
<1>9. ASSUME NEW l \in Logins, PollLoop(l)
      PROVE  Seen(x)'
  <2>1. login[l].pc = "loop" /\ now' = now /\ approved' = approved /\ login[l].ref = "openai"
    BY <1>1, <1>9 DEF PollLoop, server, LoginInv
  <2>2. CASE x # l
    <3>1. Sleep(l, "sleep") \/ LGo(l, "timed out")
      BY <1>9 DEF PollLoop
    <3>2. login'[x] = login[x]
      BY <2>2, <3>1, <1>1, SleepFacts, LGoFacts DEF LogsIn, LoginSteps
    <3> QED BY <3>2, <2>1, <1>1, SeenStays
  <2>3. CASE x = l /\ now < login[l].deadline
    <3>1. Sleep(l, "sleep") /\ "sleep" \in LoginSteps
      BY <1>9, <2>3 DEF PollLoop, LoginSteps
    <3>2. login'[l].pc = "sleep" /\ login'[l].wake = now + Interval
      BY <3>1, <1>1, SleepFacts DEF LogsIn
    <3>3. now <= now + Interval
      BY <1>1, TimeFacts
    <3> QED BY <2>1, <2>3, <3>2, <3>3 DEF Seen
  <2>4. CASE x = l /\ ~(now < login[l].deadline)
    <3>1. LGo(l, "timed out") /\ "timed out" \in LoginSteps
      BY <1>9, <2>4 DEF PollLoop, LoginSteps
    <3>2. login'[l].pc = "timed out" /\ login'[l].deadline = login[l].deadline
      BY <3>1, <1>1, LGoFacts DEF LogsIn
    <3>3. approved[l] # Never => approved[l] + Interval >= now
      BY <2>1, <2>4, <1>1 DEF Seen
    <3>4. approved[l] # Never => approved[l] + Interval >= login[l].deadline
      BY <2>4, <3>3, <1>1, <1>2, TimeFacts
    <3> QED BY <2>1, <2>4, <3>2, <3>4 DEF Seen
  <2> QED BY <2>2, <2>3, <2>4
<1>10. ASSUME NEW l \in Logins, poll_device_authorization(l)
       PROVE  Seen(x)'
  <2>1. login[l].pc = "sleep" /\ now' = now /\ approved' = approved
    BY <1>10 DEF poll_device_authorization, server
  <2>2. \/ LGo(l, "exchange")
        \/ approved[l] = Never /\ LGo(l, "loop")
        \/ approved[l] = Never /\ Sleep(l, "slow")
    BY <1>10 DEF poll_device_authorization
  <2>3. CASE LGo(l, "exchange")
    BY <2>1, <2>3, <1>7 DEF LoginSteps
  <2>4. CASE approved[l] = Never /\ LGo(l, "loop")
    <3>1. LogsIn(l, "loop", login[l].ref, {}, login[l].deadline, 0)
      BY <2>4, <1>1, LGoFacts DEF LoginSteps
    <3> QED BY <2>1, <2>4, <3>1, <1>6
  <2>5. CASE approved[l] = Never /\ Sleep(l, "slow")
    <3>1. "slow" \in LoginSteps
      BY DEF LoginSteps
    <3>2. /\ login'[l].pc = "slow" /\ login'[l].wake = now + Interval
          /\ \A k \in Logins \ {l} : login'[k] = login[k]
      BY <2>5, <3>1, <1>1, SleepFacts DEF LogsIn
    <3>5. now <= now + Interval /\ now + Interval <= now + Interval
      BY <1>1, TimeFacts
    <3>3. CASE x = l
      BY <2>1, <2>5, <3>2, <3>3, <3>5 DEF Seen
    <3>4. CASE x # l
      BY <2>1, <3>2, <3>4, <1>1, SeenStays
    <3> QED BY <3>3, <3>4
  <2> QED BY <2>2, <2>3, <2>4, <2>5
<1>11. ASSUME NEW l \in Logins, EndSlowDown(l)
       PROVE  Seen(x)'
  <2>1. login[l].pc = "slow" /\ now >= login[l].wake /\ now' = now /\ approved' = approved /\ LGo(l, "loop")
    BY <1>11 DEF EndSlowDown, server
  <2>2. /\ login'[l].pc = "loop" /\ login'[l].ref = login[l].ref
        /\ \A k \in Logins \ {l} : login'[k] = login[k]
    BY <2>1, <1>1, LGoFacts DEF LogsIn, LoginSteps
  <2>3. CASE x = l
    <3> SUFFICES ASSUME login[x].ref = "openai", approved[x] # Never PROVE approved[x] + Interval >= now
      BY <2>1, <2>2, <2>3 DEF Seen
    <3>1. now <= login[x].wake /\ approved[x] + Interval >= login[x].wake
      BY <2>1, <2>3, <1>1 DEF Seen
    <3> QED BY <3>1, <1>1, <1>2, TimeFacts
  <2>4. CASE x # l
    BY <2>1, <2>2, <2>4, <1>1, SeenStays
  <2> QED BY <2>3, <2>4
<1>12. ASSUME NEW l \in Logins,
              TimeOut(l) \/ Exchange(l) \/ StoreToken(l) \/ ExchangeKey(l) \/ StoreKey(l) \/ Fail(l)
       PROVE  Seen(x)'
  <2>1. CASE TimeOut(l)
    <3>1. login[l].ref = "codex" /\ now' = now /\ approved' = approved /\ LGo(l, "timed out")
      BY <2>1, <1>1 DEF TimeOut, LoginInv, server
    <3>2. LogsIn(l, "timed out", login[l].ref, {}, login[l].deadline, 0)
      BY <3>1, <1>1, LGoFacts DEF LoginSteps
    <3> QED BY <3>1, <3>2, <1>6
  <2>2. CASE Exchange(l)
    <3>1. now' = now /\ approved' = approved
      BY <2>2 DEF Exchange
    <3> QED BY <2>2, <3>1, <1>1, <1>6, ExchangeFacts
  <2>3. CASE StoreToken(l)
    <3>1. now' = now /\ approved' = approved /\ (LGo(l, "key") \/ LGo(l, "done"))
      BY <2>3 DEF StoreToken, server
    <3> QED BY <3>1, <1>7 DEF LoginSteps
  <2>4. CASE ExchangeKey(l)
    <3>1. now' = now /\ approved' = approved /\ (LGo(l, "key.") \/ LGo(l, "done"))
      BY <2>4 DEF ExchangeKey, server
    <3> QED BY <3>1, <1>7 DEF LoginSteps
  <2>5. CASE StoreKey(l)
    <3>1. now' = now /\ approved' = approved /\ LGo(l, "keyed")
      BY <2>5 DEF StoreKey, server
    <3> QED BY <3>1, <1>7 DEF LoginSteps
  <2>6. CASE Fail(l)
    <3>1. now' = now /\ approved' = approved /\ LGo(l, "failed")
      BY <2>6 DEF Fail, server
    <3> QED BY <3>1, <1>7 DEF LoginSteps
  <2> QED BY <2>1, <2>2, <2>3, <2>4, <2>5, <2>6, <1>12
<1>13. CASE UNCHANGED tokenVars
  BY <1>13, <1>3 DEF tokenVars, server
<1> QED BY <1>4, <1>5, <1>8, <1>9, <1>10, <1>11, <1>12, <1>13 DEF TokensNext, LoginStep

-----------------------------------------------------------------------------
(* Every variable keeps its type: whatever the logins and the requests do, the
   vault has tokens and the server generations. *)
THEOREM TokensTypeCorrect == TokensSpec => []TokensTypeOK
BY TokensInvHolds, PTL DEF TokensInv

(* Two requests that refresh one token at once, or a request and a login, never
   cost the token (services.rs:845): what the vault holds is the server's live
   one, unless an answer was lost or is on its way to the vault.  The invariant
   adds that of several answers for one login only the newest can be pending. *)
THEOREM StoredIsLive == TokensSpec => []StoredTokenIsLive
BY TokensInvHolds, PTL DEF TokensInv

(* What the vault holds for an account is of the login that stored last, and its
   API key with it (services.rs:739, 1151, 1265): the port that start_codex_login
   holds keeps a second login from coming between token and key. *)
THEOREM AccountsApart == TokensSpec => []AccountsKeepApart
<1>1. TokensInv => AccountsKeepApart
  BY DEF TokensInv, AccountsKeepApart
<1> QED BY <1>1, TokensInvHolds, PTL

(* A bearer is good when it is handed out (services.rs:841, 901), provided no
   answer of the token endpoint travels longer than the refresh skew. *)
THEOREM BearersAreGood == TokensSpec => []BearerIsGood
<1>1. TokensInv => BearerIsGood
  BY DEF TokensInv, RequestInv, BearerIsGood
<1> QED BY <1>1, TokensInvHolds, PTL

(* A device login that was approved in time does not time out (services.rs:728),
   unless the approval came within the last interval before its deadline. *)
THEOREM ApprovalsAreSeen == TokensSpec => []ApprovalIsSeen
<1>1. TokensInit => SeenInv
  BY NoLoginType DEF TokensInit, SeenInv, Seen
<1>2. SeenInv => ApprovalIsSeen
  BY DEF SeenInv, Seen, ApprovalIsSeen, LoginAt
<1> QED BY <1>1, <1>2, SeenStep, TokensInvHolds, PTL DEF TokensSpec
=============================================================================
