----------------------------- MODULE SmeRecords -----------------------------
(***************************************************************************)
(* What a record of the register holds and shows (internal/sme with        *)
(* pkg/crypto).  Names, phone, email and ID number are cleaned of HTML,    *)
(* encrypted, and stored beside a keyed hash of their folded form, the     *)
(* blind index a search compares with.  CreateSME is one statement;        *)
(* UpdateSME and DeleteSME read the row first and run their statement      *)
(* later.  The keys come from the environment and may change when the      *)
(* server restarts; a text that cannot be decrypted is shown as it is      *)
(* stored.  The requests here are those that pass the permission guards.   *)
(*                                                                         *)
(* A ciphertext is the key and the text it was made from.  One shown to a  *)
(* client is the text Garbled, whatever it was made from.                  *)
(***************************************************************************)
EXTENDS Integers

CONSTANTS
  Ids,         \* uuids, of present and future records
  Requests,    \* slots for requests
  Columns,     \* the encrypted columns
  Optional,    \* those that may be NULL
  Sanitised,   \* those cleaned of HTML
  Texts,       \* what is typed, stored and shown
  Blank,       \* the empty text
  Garbled,     \* a ciphertext
  None,        \* NULL
  Typed,       \* the texts clients fill in for each column
  Valid,       \* the texts that pass a column's validation
  Clean,       \* what bluemonday leaves of a text
  Folded,      \* a text trimmed and in lower case
  Statuses,    \* any string
  NoStatus,    \* the empty one
  Active,      \* the status of a fresh record
  Secrets,     \* values of ENCRYPTION_SECRET_KEY
  Length,      \* how many bytes each decodes to
  Head,        \* the first 32 of them, or all
  IndexKeys,   \* values of the key of blind indexes
  NoKey, NoRow, Free, Down

Forms == {f \in [Columns -> Texts \cup {None}] :
            \A c \in Columns : f[c] \in Typed[c] \/ (c \in Optional /\ f[c] = None)}
Keys == {Head[s] : s \in Secrets} \cup {NoKey}

ASSUME SmeRecordsAssumption ==
  /\ Optional \subseteq Columns /\ Sanitised \subseteq Columns
  /\ {Blank, Garbled} \subseteq Texts /\ None \notin Texts /\ Blank # Garbled
  /\ Typed \in [Columns -> SUBSET (Texts \ {Garbled})]
  /\ Valid \in [Columns -> SUBSET (Texts \ {Blank})]
  /\ Clean \in [Texts -> Texts]
  /\ \A t \in Texts : Clean[t] = Garbled <=> t = Garbled
  /\ \A c \in Optional : \A t \in Valid[c] : Clean[t] = Blank \/ Folded[Clean[t]] # Blank
  /\ Folded \in [Texts -> Texts] /\ Folded[Blank] = Blank
  /\ NoStatus \notin Statuses /\ Active \in Statuses
  /\ Length \in [Secrets -> Nat]
  /\ \A s, r \in Secrets : Head[s] = Head[r] =>
       Length[s] = Length[r] \/ (Length[s] >= 32 /\ Length[r] >= 32)
  /\ NoKey \notin {Head[s] : s \in Secrets} /\ NoKey \notin IndexKeys

Sealed == [key : Keys, text : Texts \cup {None}]
Indexes == [key : IndexKeys \cup {NoKey}, text : Texts \cup {None}]
Rows == [sealed : [Columns -> Sealed], index : [Columns -> Indexes], status : Statuses]
Storable == {f \in [Columns -> Texts \cup {None}] :
               \A c \in Optional : f[c] # None => Folded[f[c]] # Blank}
Jobs == [op : {"update", "delete"}, id : Ids, text : Storable, status : Statuses,
         given : BOOLEAN, stale : BOOLEAN]

VARIABLES
  server,   \* the keys of the running server
  rows,     \* the table
  jobs,     \* requests that have read a row
  used,     \* the uuids that have been drawn
  last,     \* history: what the last statement on each record was asked to store
  stale,    \* history: the records whose status one of them took from an overtaken row
  thanked,  \* history: the requests told that they have deleted a record
  heads     \* history: the encryption keys there have been, as far as they are used

vars == <<server, rows, jobs, used, last, stale, thanked, heads>>

TypeOK ==
  /\ server \in [secret : Secrets, index : IndexKeys] \cup {Down}
  /\ rows \in [Ids -> Rows \cup {NoRow}]
  /\ jobs \in [Requests -> Jobs \cup {Free}]
  /\ used \subseteq Ids
  /\ last \in [Ids -> [text : Storable, status : Statuses]]
  /\ stale \subseteq Ids
  /\ thanked \in [Ids -> SUBSET Requests]
  /\ heads \subseteq {Head[s] : s \in Secrets}

-----------------------------------------------------------------------------
(* pkg/crypto.                                                             *)

\* Variant: a longer key is hashed, not cut to 32 bytes, and a key of its own.
HashedKey(s) ==
  IF Length[s] \in {16, 24, 32} THEN Head[s] ELSE IF Length[s] > 32 THEN s ELSE NoKey

\* parseKey: the bytes AES is keyed with, unless the length is refused.
ParsedKey(s) == IF Length[s] \in {16, 24, 32} \/ Length[s] > 32 THEN Head[s] ELSE NoKey

\* Encrypt, encryptPtr: NULL and the empty text stay as they are.
Encrypt(s, t) == [key |-> IF t \in {None, Blank} THEN NoKey ELSE ParsedKey(s), text |-> t]

\* Decrypt, with the fallback of decryptPtr and decryptEntity.
Decrypt(s, sealed) == IF sealed.key \in {NoKey, ParsedKey(s)} THEN sealed.text ELSE Garbled

\* Variant: the hash is of the text as it is.
ExactIndex(k, t) == [key |-> IF t \in {None, Blank} THEN NoKey ELSE k, text |-> t]

\* GenerateBlindIndex, blindIndexPtr.
BlindIndex(k, t) ==
  IF t \in {None, Blank} THEN [key |-> NoKey, text |-> t] ELSE [key |-> k, text |-> Folded[t]]

-----------------------------------------------------------------------------
(* The server and its keys.                                                *)

Init ==
  /\ server = Down
  /\ rows = [i \in Ids |-> NoRow]
  /\ jobs = [r \in Requests |-> Free]
  /\ used = {}
  /\ last = [i \in Ids |-> [text |-> [c \in Columns |-> None], status |-> Active]]
  /\ stale = {}
  /\ thanked = [i \in Ids |-> {}]
  /\ heads = {}

\* main, unless ValidateKey refuses the key.
Start(s, k) ==
  /\ server = Down
  /\ ParsedKey(s) # NoKey
  /\ server' = [secret |-> s, index |-> k]
  /\ heads' = heads \cup {Head[s]}
  /\ UNCHANGED <<rows, jobs, used, last, stale, thanked>>

\* The process ends, and its requests with it.
Stop ==
  /\ server # Down
  /\ server' = Down
  /\ jobs' = [r \in Requests |-> Free]
  /\ UNCHANGED <<rows, used, last, stale, thanked, heads>>

-----------------------------------------------------------------------------
(* Requests.                                                               *)

Live == {i \in Ids : rows[i] # NoRow}

\* normalizeOptionalFields: a blank is none.
Normal(c, t) == IF c \in Optional /\ t # None /\ Folded[t] = Blank THEN None ELSE t

\* The validation of SmeRequest.
Accepted(text) ==
  \A c \in Columns : LET t == Normal(c, text[c])
                     IN IF t = None THEN c \in Optional ELSE t \in Valid[c]

\* Variant: blanks are kept.
BlanksKept(c, t) == IF t # None /\ c \in Sanitised THEN Clean[t] ELSE t

\* What is stored of a text: normalised, sanitised, and NULL when nothing is left of an
\* optional one (nilIfEmpty).
Kept(c, t) ==
  LET n == Normal(c, t)
      clean == IF n # None /\ c \in Sanitised THEN Clean[n] ELSE n
  IN IF c \in Optional /\ clean = Blank THEN None ELSE clean

KeptTexts(text) == [c \in Columns |-> Kept(c, text[c])]

\* The columns CreateSME and UpdateSME store.
RowOf(text, status) ==
  [sealed |-> [c \in Columns |-> Encrypt(server.secret, text[c])],
   index |-> [c \in Columns |-> BlindIndex(server.index, text[c])],
   status |-> status]

\* mapToResponse and decryptEntity: what a client is shown.
Shown(i) == [c \in Columns |-> Decrypt(server.secret, rows[i].sealed[c])]

\* SearchSMEs with the email or the phone asked for; "" is no filter.
Found(c, t) ==
  {i \in Live : t = Blank \/ rows[i].index[c] = BlindIndex(server.index, t)}

\* Others that have read the row are overtaken, and so is the status they took from it.
Overtake(r, i) ==
  [q \in Requests |->
     IF q = r THEN Free
     ELSE IF jobs[q] # Free /\ jobs[q].id = i THEN [jobs[q] EXCEPT !.stale = ~jobs[q].given]
     ELSE jobs[q]]

Ready(r) == server # Down /\ jobs[r] = Free
Doing(r, op) == jobs[r] # Free /\ jobs[r].op = op

\* A fresh uuid; the status asked for is ignored.
CreateSME(r, i, text) ==
  /\ Ready(r)
  /\ Accepted(text)
  /\ i \notin used
  /\ rows' = [rows EXCEPT ![i] = RowOf(KeptTexts(text), Active)]
  /\ used' = used \cup {i}
  /\ last' = [last EXCEPT ![i] = [text |-> KeptTexts(text), status |-> Active]]
  /\ UNCHANGED <<server, jobs, stale, thanked, heads>>

\* UpdateSME up to FindByID: the status is that of the row as it was read when none is
\* asked for.
FindForUpdate(r, i, text, asked) ==
  /\ Ready(r)
  /\ Accepted(text)
  /\ i \in Live
  /\ jobs' = [jobs EXCEPT ![r] =
       [op |-> "update", id |-> i, text |-> KeptTexts(text),
        status |-> IF asked # NoStatus THEN asked ELSE rows[i].status,
        given |-> asked # NoStatus, stale |-> FALSE]]
  /\ UNCHANGED <<server, rows, used, last, stale, thanked, heads>>

\* History: what statement j was asked to store.
Ask(j) ==
  /\ last' = [last EXCEPT ![j.id] =
       [text |-> j.text, status |-> IF j.given THEN j.status ELSE @.status]]
  /\ stale' = IF j.given THEN stale \ {j.id}
              ELSE IF j.stale THEN stale \cup {j.id} ELSE stale

\* Variant: a column left out of the request keeps what it holds.
UpdateKeepsOptional(r) ==
  /\ Doing(r, "update")
  /\ LET j == jobs[r] new == RowOf(j.text, j.status)
     IN  /\ j.id \in Live
         /\ rows' = [rows EXCEPT ![j.id] = [new EXCEPT !.sealed =
              [c \in Columns |-> IF new.sealed[c].text = None THEN rows[j.id].sealed[c]
                                                              ELSE new.sealed[c]]]]
         /\ Ask(j)
         /\ jobs' = Overtake(r, j.id)
  /\ UNCHANGED <<server, used, thanked, heads>>

\* UPDATE ... WHERE id, and the answer.
UpdateSME(r) ==
  /\ Doing(r, "update")
  /\ LET j == jobs[r]
     IN  /\ j.id \in Live
         /\ rows' = [rows EXCEPT ![j.id] = RowOf(j.text, j.status)]
         /\ Ask(j)
         /\ jobs' = Overtake(r, j.id)
  /\ UNCHANGED <<server, used, thanked, heads>>

\* DeleteSME up to FindByID.
FindForDelete(r, i) ==
  /\ Ready(r)
  /\ i \in Live
  /\ jobs' = [jobs EXCEPT ![r] =
       [op |-> "delete", id |-> i, text |-> [c \in Columns |-> None],
        status |-> Active, given |-> TRUE, stale |-> FALSE]]
  /\ UNCHANGED <<server, rows, used, last, stale, thanked, heads>>

\* Variant: the rows affected are not looked at.
DeleteAnything(r) ==
  /\ Doing(r, "delete")
  /\ LET i == jobs[r].id
     IN  /\ rows' = [rows EXCEPT ![i] = NoRow]
         /\ thanked' = [thanked EXCEPT ![i] = @ \cup {r}]
         /\ jobs' = Overtake(r, i)
  /\ UNCHANGED <<server, used, last, stale, heads>>

\* DELETE ... WHERE id, when it affects a row.
DeleteSME(r) ==
  /\ Doing(r, "delete")
  /\ LET i == jobs[r].id
     IN  /\ i \in Live
         /\ rows' = [rows EXCEPT ![i] = NoRow]
         /\ thanked' = [thanked EXCEPT ![i] = @ \cup {r}]
         /\ jobs' = Overtake(r, i)
  /\ UNCHANGED <<server, used, last, stale, heads>>

\* The statement changes nothing: an error, or the row has gone (sql.ErrNoRows).
Fail(r) ==
  /\ jobs[r] # Free
  /\ jobs' = [jobs EXCEPT ![r] = Free]
  /\ UNCHANGED <<server, rows, used, last, stale, thanked, heads>>

\* A client edits a record: it keeps some of what it is shown and types the rest.
Edited(i, kept, form) == [c \in Columns |-> IF c \in kept THEN Shown(i)[c] ELSE form[c]]

Next ==
  \/ \E s \in Secrets, k \in IndexKeys : Start(s, k)
  \/ Stop
  \/ \E r \in Requests, i \in Ids :
       \/ \E form \in Forms :
            \/ CreateSME(r, i, form)
            \/ \E kept \in SUBSET Columns, asked \in Statuses \cup {NoStatus} :
                 /\ i \in Live /\ Ready(r)
                 /\ FindForUpdate(r, i, Edited(i, kept, form), asked)
       \/ FindForDelete(r, i)
  \/ \E r \in Requests : UpdateSME(r) \/ DeleteSME(r) \/ Fail(r)

Spec == Init /\ [][Next]_vars

-----------------------------------------------------------------------------
(* Properties.                                                             *)

\* A search finds the records that show the text asked for, up to case and blanks around
\* it, and no others, among those that are readable and were stored with the same key of
\* blind indexes: hash and ciphertext are always of one text and one request.
FoundAsShown ==
  server # Down =>
    \A i \in Live, c \in Columns, t \in Texts \ {Blank} :
      LET shown == Shown(i)[c]
      IN  /\ shown \notin {None, Blank, Garbled}
          /\ rows[i].index[c].key = server.index
          => (i \in Found(c, t) <=> Folded[t] = Folded[shown])

\* As long as the first 32 bytes of the encryption key stay the same, every record shows
\* what it was given, and that is no ciphertext a client was shown in place of a text:
\* through restarts, edits of what is shown, and keys that are longer.
ReadableWhileSameKey ==
  server # Down /\ (\A g, h \in heads : g = h) =>
    \A i \in Live : /\ Shown(i) = last[i].text
                    /\ \A c \in Columns : last[i].text[c] # Garbled

\* A record holds what the last statement on it was asked to store, none of it from an
\* earlier one; also its status, unless that came from a row overtaken by another request.
LastWriteStored ==
  \A i \in Live :
    /\ \A c \in Columns : rows[i].sealed[c].text = last[i].text[c]
    /\ i \notin stale => rows[i].status = last[i].status

\* Two requests that delete the same record are not both told that they have.
DeletedOnce ==
  \A i \in Ids : /\ i \in Live => thanked[i] = {}
                 /\ \A p, q \in thanked[i] : p = q
=============================================================================
