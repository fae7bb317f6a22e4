-------------------------- MODULE SmeRecordsProofs --------------------------
(* What a record of the register holds and shows, for every set of columns, *)
(* keys and texts, and any number of requests and restarts.                 *)
EXTENDS SmeRecords, TLAPS

SameKey == \A g, h \in heads : g = h

\* Ciphertext and hash of a row are of one text, the one the last statement had; all keys
\* texts are encrypted with have been those of a server.
StoredInv ==
  /\ Live \subseteq used
  /\ \A i \in Live, c \in Columns :
       /\ rows[i].sealed[c].text = last[i].text[c]
       /\ rows[i].sealed[c].key \in heads \cup {NoKey}
       /\ rows[i].index[c].text =
            IF last[i].text[c] \in {None, Blank} THEN last[i].text[c] ELSE Folded[last[i].text[c]]
  /\ server # Down => ParsedKey(server.secret) = Head[server.secret]
                      /\ Head[server.secret] \in heads

\* The statuses, and those that requests have taken from a row nobody has changed since.
StatusInv ==
  /\ \A i \in Live : i \notin stale => rows[i].status = last[i].status
  /\ \A r \in Requests : jobs[r] # Free => jobs[r].id \in used
  /\ \A r \in Requests :
       /\ jobs[r] # Free
       /\ ~jobs[r].given /\ ~jobs[r].stale
       /\ jobs[r].id \in Live
       /\ jobs[r].id \notin stale
       => jobs[r].status = last[jobs[r].id].status

\* Nobody has been shown a ciphertext while the key has been the same.
ReadableInv ==
  SameKey =>
    /\ \A i \in Live, c \in Columns : last[i].text[c] # Garbled
    /\ \A r \in Requests : jobs[r] # Free => \A c \in Columns : jobs[r].text[c] # Garbled

\* A record that was deleted was there before, and is not now.
ThankedInv ==
  /\ \A i \in Ids : i \notin used => thanked[i] = {}
  /\ DeletedOnce

-----------------------------------------------------------------------------
(* Operators.                                                              *)

LEMMA KeysType ==
  /\ \A s \in Secrets : ParsedKey(s) \in Keys /\ Head[s] \in Keys \ {NoKey}
  /\ \A s \in Secrets : ParsedKey(s) \in {Head[s], NoKey}
  BY SmeRecordsAssumption DEF Keys, ParsedKey

LEMMA EncryptType ==
  ASSUME NEW s \in Secrets, NEW t \in Texts \cup {None}
  PROVE  /\ Encrypt(s, t) \in Sealed
         /\ Encrypt(s, t).text = t
         /\ Encrypt(s, t).key \in {ParsedKey(s), NoKey}
<1>1. ParsedKey(s) \in Keys /\ NoKey \in Keys  BY KeysType DEF Keys
<1> QED  BY <1>1 DEF Encrypt, Sealed

LEMMA BlindIndexType ==
  ASSUME NEW k \in IndexKeys, NEW t \in Texts \cup {None}
  PROVE  /\ BlindIndex(k, t) \in Indexes
         /\ BlindIndex(k, t).text = IF t \in {None, Blank} THEN t ELSE Folded[t]
<1>1. t \notin {None, Blank} => Folded[t] \in Texts  BY SmeRecordsAssumption
<1> QED  BY <1>1 DEF BlindIndex, Indexes

LEMMA KeptType ==
  ASSUME NEW c \in Columns, NEW t \in Texts \cup {None},
         IF Normal(c, t) = None THEN c \in Optional ELSE Normal(c, t) \in Valid[c]
  PROVE  /\ Kept(c, t) \in Texts \cup {None}
         /\ c \in Optional /\ Kept(c, t) # None => Folded[Kept(c, t)] # Blank
         /\ t # Garbled => Kept(c, t) # Garbled
<1> DEFINE n == Normal(c, t)
           clean == IF n # None /\ c \in Sanitised THEN Clean[n] ELSE n
<1>1. n \in Texts \cup {None} /\ (t # Garbled => n # Garbled)
  BY SmeRecordsAssumption DEF Normal
<1>2. clean \in Texts \cup {None} /\ (n # Garbled => clean # Garbled)
  BY <1>1, SmeRecordsAssumption
<1>3. Kept(c, t) = IF c \in Optional /\ clean = Blank THEN None ELSE clean  BY DEF Kept
<1>4. ASSUME c \in Optional, clean \notin {None, Blank}  PROVE Folded[clean] # Blank
  <2>1. n # None /\ n \in Valid[c] /\ n \in Texts  BY <1>1, <1>4
  <2>2. Folded[n] # Blank  BY <1>4, <2>1 DEF Normal
  <2> QED  BY <1>4, <2>1, <2>2, SmeRecordsAssumption
<1> HIDE DEF n, clean
<1> QED  BY <1>1, <1>2, <1>3, <1>4, SmeRecordsAssumption

LEMMA KeptTextsType ==
  ASSUME NEW text \in [Columns -> Texts \cup {None}], Accepted(text)
  PROVE  /\ KeptTexts(text) \in Storable
         /\ \A c \in Columns : text[c] # Garbled => KeptTexts(text)[c] # Garbled
<1>1. KeptTexts(text) = [c \in Columns |-> Kept(c, text[c])]  BY DEF KeptTexts
<1>2. \A c \in Columns : KeptTexts(text)[c] = Kept(c, text[c])  BY <1>1
<1>3. \A c \in Columns : text[c] \in Texts \cup {None} /\
        IF Normal(c, text[c]) = None THEN c \in Optional ELSE Normal(c, text[c]) \in Valid[c]
  BY DEF Accepted
<1>4. \A c \in Columns :
        /\ Kept(c, text[c]) \in Texts \cup {None}
        /\ c \in Optional /\ Kept(c, text[c]) # None => Folded[Kept(c, text[c])] # Blank
        /\ text[c] # Garbled => Kept(c, text[c]) # Garbled
  BY <1>3, KeptType
<1>5. KeptTexts(text) \in [Columns -> Texts \cup {None}]  BY <1>1, <1>4
<1>6. Optional \subseteq Columns  BY SmeRecordsAssumption
<1> QED  BY <1>2, <1>4, <1>5, <1>6 DEF Storable

LEMMA RowOfType ==
  ASSUME NEW text \in Storable, NEW status \in Statuses,
         server \in [secret : Secrets, index : IndexKeys]
  PROVE  /\ RowOf(text, status) \in Rows
         /\ RowOf(text, status).status = status
         /\ \A c \in Columns :
              /\ RowOf(text, status).sealed[c].text = text[c]
              /\ RowOf(text, status).sealed[c].key \in {ParsedKey(server.secret), NoKey}
              /\ RowOf(text, status).index[c].text =
                   IF text[c] \in {None, Blank} THEN text[c] ELSE Folded[text[c]]
<1>1. server.secret \in Secrets /\ server.index \in IndexKeys  OBVIOUS
<1>2. text \in [Columns -> Texts \cup {None}]  BY DEF Storable
<1> DEFINE sealed == [c \in Columns |-> Encrypt(server.secret, text[c])]
           index == [c \in Columns |-> BlindIndex(server.index, text[c])]
<1>3. sealed \in [Columns -> Sealed]  BY <1>1, <1>2, EncryptType
<1>4. index \in [Columns -> Indexes]  BY <1>1, <1>2, BlindIndexType
<1>5. RowOf(text, status) = [sealed |-> sealed, index |-> index, status |-> status]
  BY DEF RowOf
<1>6. ASSUME NEW c \in Columns
      PROVE  /\ sealed[c].text = text[c]
             /\ sealed[c].key \in {ParsedKey(server.secret), NoKey}
             /\ index[c].text = IF text[c] \in {None, Blank} THEN text[c] ELSE Folded[text[c]]
  BY <1>1, <1>2, EncryptType, BlindIndexType
<1> HIDE DEF sealed, index
<1> QED  BY <1>3, <1>4, <1>5, <1>6 DEF Rows

LEMMA ShownType ==
  ASSUME TypeOK, NEW i \in Live, server # Down
  PROVE  Shown(i) \in [Columns -> Texts \cup {None}]
<1>1. rows[i].sealed \in [Columns -> Sealed]  BY DEF TypeOK, Live, Rows
<1>2. \A c \in Columns : rows[i].sealed[c].text \in Texts \cup {None}  BY <1>1 DEF Sealed
<1> QED  BY <1>2, SmeRecordsAssumption DEF Shown, Decrypt

LEMMA EditedType ==
  ASSUME TypeOK, NEW i \in Live, server # Down, NEW kept \in SUBSET Columns, NEW form \in Forms
  PROVE  Edited(i, kept, form) \in [Columns -> Texts \cup {None}]
  BY ShownType DEF Edited, Forms

LEMMA OvertakeType ==
  ASSUME TypeOK, NEW r \in Requests, NEW i \in Ids
  PROVE  /\ Overtake(r, i) \in [Requests -> Jobs \cup {Free}]
         /\ \A q \in Requests : Overtake(r, i)[q] # Free =>
              /\ jobs[q] # Free
              /\ Overtake(r, i)[q].id = jobs[q].id
              /\ Overtake(r, i)[q].text = jobs[q].text
              /\ Overtake(r, i)[q].status = jobs[q].status
              /\ Overtake(r, i)[q].given = jobs[q].given
              /\ jobs[q].id = i => Overtake(r, i)[q].stale = ~jobs[q].given
              /\ jobs[q].id # i => Overtake(r, i)[q] = jobs[q]
<1> DEFINE late(q) == [jobs[q] EXCEPT !.stale = ~jobs[q].given]
<1>1. ASSUME NEW q \in Requests, jobs[q] # Free
      PROVE  /\ late(q) \in Jobs
             /\ late(q).id = jobs[q].id /\ late(q).text = jobs[q].text
             /\ late(q).status = jobs[q].status /\ late(q).given = jobs[q].given
             /\ late(q).stale = ~jobs[q].given
  <2>1. jobs[q] \in Jobs  BY <1>1 DEF TypeOK
  <2> QED  BY <2>1 DEF Jobs
<1>2. \A q \in Requests : Overtake(r, i)[q] =
        IF q = r THEN Free
        ELSE IF jobs[q] # Free /\ jobs[q].id = i THEN late(q) ELSE jobs[q]
  BY DEF Overtake
<1>3. \A q \in Requests : jobs[q] \in Jobs \cup {Free}  BY DEF TypeOK
<1>4. Overtake(r, i) = [q \in Requests |->
        IF q = r THEN Free
        ELSE IF jobs[q] # Free /\ jobs[q].id = i THEN late(q) ELSE jobs[q]]
  BY DEF Overtake
<1> HIDE DEF late
<1>5. Overtake(r, i) \in [Requests -> Jobs \cup {Free}]  BY <1>1, <1>3, <1>4
<1> QED  BY <1>1, <1>2, <1>5

-----------------------------------------------------------------------------
(* Types.                                                                  *)

LEMMA NoneStorable == [c \in Columns |-> None] \in Storable
  BY SmeRecordsAssumption DEF Storable

LEMMA TypeInit == Init => TypeOK
<1> SUFFICES ASSUME Init PROVE TypeOK  OBVIOUS
<1>1. [text |-> [c \in Columns |-> None], status |-> Active] \in [text : Storable, status : Statuses]
  BY NoneStorable, SmeRecordsAssumption
<1> QED  BY <1>1 DEF Init, TypeOK

\* Requests under way are those of a running server.
ServerInv == server = Down => \A r \in Requests : jobs[r] = Free

LEMMA ServerInit == Init => ServerInv
  BY DEF Init, ServerInv

LEMMA ServerStep == TypeOK /\ ServerInv /\ [Next]_vars => ServerInv'
<1> SUFFICES ASSUME TypeOK, ServerInv, [Next]_vars PROVE ServerInv'  OBVIOUS
<1>1. ASSUME NEW s \in Secrets, NEW k \in IndexKeys, Start(s, k)  PROVE ServerInv'
  BY <1>1 DEF Start, ServerInv
<1>2. CASE Stop  BY <1>2 DEF Stop, ServerInv
<1>3. ASSUME NEW r \in Requests, NEW i \in Ids, NEW form \in Forms, CreateSME(r, i, form)
      PROVE  ServerInv'
  BY <1>3 DEF CreateSME, ServerInv
<1>4. ASSUME NEW r \in Requests, NEW i \in Ids, NEW form \in Forms, NEW kept \in SUBSET Columns,
             NEW asked \in Statuses \cup {NoStatus},
             FindForUpdate(r, i, Edited(i, kept, form), asked)
      PROVE  ServerInv'
  BY <1>4 DEF FindForUpdate, Ready, ServerInv
<1>5. ASSUME NEW r \in Requests, NEW i \in Ids, FindForDelete(r, i)  PROVE ServerInv'
  BY <1>5 DEF FindForDelete, Ready, ServerInv
<1>6. ASSUME NEW r \in Requests, UpdateSME(r)  PROVE ServerInv'
  BY <1>6 DEF UpdateSME, Doing, ServerInv
<1>7. ASSUME NEW r \in Requests, DeleteSME(r)  PROVE ServerInv'
  BY <1>7 DEF DeleteSME, Doing, ServerInv
<1>8. ASSUME NEW r \in Requests, Fail(r)  PROVE ServerInv'
  BY <1>8 DEF Fail, ServerInv
<1>9. CASE UNCHANGED vars  BY <1>9 DEF vars, ServerInv
<1> QED  BY <1>1, <1>2, <1>3, <1>4, <1>5, <1>6, <1>7, <1>8, <1>9 DEF Next

LEMMA Running ==
  ASSUME TypeOK, ServerInv, NEW r \in Requests, jobs[r] # Free \/ server # Down
  PROVE  server # Down /\ server \in [secret : Secrets, index : IndexKeys]
  BY DEF TypeOK, ServerInv

LEMMA TypeStep == TypeOK /\ ServerInv /\ [Next]_vars => TypeOK'
<1> SUFFICES ASSUME TypeOK, ServerInv, [Next]_vars PROVE TypeOK'  OBVIOUS
<1>1. ASSUME NEW s \in Secrets, NEW k \in IndexKeys, Start(s, k)  PROVE TypeOK'
  BY <1>1 DEF Start, TypeOK
<1>2. CASE Stop  BY <1>2 DEF Stop, TypeOK
<1>3. ASSUME NEW r \in Requests, NEW i \in Ids, NEW form \in Forms, CreateSME(r, i, form)
      PROVE  TypeOK'
  <2>1. server \in [secret : Secrets, index : IndexKeys]
    BY <1>3, Running DEF CreateSME, Ready
  <2>2. form \in [Columns -> Texts \cup {None}] /\ Accepted(form)
    BY <1>3 DEF Forms, CreateSME
  <2>3. KeptTexts(form) \in Storable /\ Active \in Statuses
    BY <2>2, KeptTextsType, SmeRecordsAssumption
  <2>4. RowOf(KeptTexts(form), Active) \in Rows  BY <2>1, <2>3, RowOfType
  <2>5. [text |-> KeptTexts(form), status |-> Active] \in [text : Storable, status : Statuses]
    BY <2>3
  <2> QED  BY <1>3, <2>4, <2>5 DEF CreateSME, TypeOK
<1>4. ASSUME NEW r \in Requests, NEW i \in Ids, NEW form \in Forms, NEW kept \in SUBSET Columns,
             NEW asked \in Statuses \cup {NoStatus},
             FindForUpdate(r, i, Edited(i, kept, form), asked)
      PROVE  TypeOK'
  <2>1. i \in Live /\ server # Down  BY <1>4 DEF FindForUpdate, Ready
  <2>2. Edited(i, kept, form) \in [Columns -> Texts \cup {None}]  BY <2>1, EditedType
  <2>a. Accepted(Edited(i, kept, form))  BY <1>4 DEF FindForUpdate
  <2>3. KeptTexts(Edited(i, kept, form)) \in Storable  BY <2>2, <2>a, KeptTextsType
  <2>4. rows[i].status \in Statuses  BY <2>1 DEF TypeOK, Live, Rows
  <2>5. jobs'[r] \in Jobs
    BY <1>4, <2>3, <2>4 DEF FindForUpdate, TypeOK, Jobs
  <2> QED  BY <1>4, <2>5 DEF FindForUpdate, TypeOK
<1>5. ASSUME NEW r \in Requests, NEW i \in Ids, FindForDelete(r, i)  PROVE TypeOK'
  <2>1. jobs'[r] \in Jobs
    BY <1>5, NoneStorable, SmeRecordsAssumption DEF FindForDelete, TypeOK, Jobs
  <2> QED  BY <1>5, <2>1 DEF FindForDelete, TypeOK
<1>6. ASSUME NEW r \in Requests, UpdateSME(r)  PROVE TypeOK'
  <2> DEFINE j == jobs[r]
  <2>1. j \in Jobs /\ j.id \in Ids /\ j.text \in Storable /\ j.status \in Statuses
    BY <1>6 DEF UpdateSME, Doing, TypeOK, Jobs
  <2>2. server \in [secret : Secrets, index : IndexKeys]
    BY <1>6, Running DEF UpdateSME, Doing
  <2>3. RowOf(j.text, j.status) \in Rows  BY <2>1, <2>2, RowOfType
  <2>4. last[j.id].status \in Statuses  BY <2>1 DEF TypeOK
  <2>5. last' \in [Ids -> [text : Storable, status : Statuses]] /\ stale' \subseteq Ids
    BY <1>6, <2>1, <2>4 DEF UpdateSME, Ask, TypeOK
  <2> QED  BY <1>6, <2>1, <2>3, <2>5, OvertakeType DEF UpdateSME, TypeOK
<1>7. ASSUME NEW r \in Requests, DeleteSME(r)  PROVE TypeOK'
  <2>1. jobs[r].id \in Ids  BY <1>7 DEF DeleteSME, Doing, TypeOK, Jobs
  <2> QED  BY <1>7, <2>1, OvertakeType DEF DeleteSME, TypeOK
<1>8. ASSUME NEW r \in Requests, Fail(r)  PROVE TypeOK'
  BY <1>8 DEF Fail, TypeOK
<1>9. CASE UNCHANGED vars  BY <1>9 DEF vars, TypeOK
<1> QED  BY <1>1, <1>2, <1>3, <1>4, <1>5, <1>6, <1>7, <1>8, <1>9 DEF Next

\* Keys, rows and requests of SmeRecords stay well typed; what is to be stored in an
\* optional column is never blank.
THEOREM TypeCorrect == Spec => []TypeOK
<1>1. Init => TypeOK /\ ServerInv  BY TypeInit, ServerInit
<1>2. TypeOK /\ ServerInv /\ [Next]_vars => (TypeOK /\ ServerInv)'  BY TypeStep, ServerStep
<1> QED  BY <1>1, <1>2, PTL DEF Spec

-----------------------------------------------------------------------------
(* Ciphertexts and hashes.                                                 *)

LEMMA StoredInit == Init => StoredInv
  BY DEF Init, StoredInv, Live

\* A statement that stores a text in a row stores it in both columns, under the key of the
\* server.
LEMMA StoreStep ==
  ASSUME TypeOK, StoredInv, NEW i \in Ids, NEW text \in Storable, NEW status \in Statuses,
         server # Down, rows' = [rows EXCEPT ![i] = RowOf(text, status)],
         last'[i].text = text, \A k \in Ids \ {i} : last'[k] = last[k],
         used' \in SUBSET Ids, used \cup {i} \subseteq used', UNCHANGED <<server, heads>>
  PROVE  StoredInv'
<1>1. server \in [secret : Secrets, index : IndexKeys]  BY DEF TypeOK
<1>2. ParsedKey(server.secret) \in heads  BY DEF StoredInv
<1>3. rows'[i] = RowOf(text, status) /\ \A k \in Ids \ {i} : rows'[k] = rows[k]
  BY DEF TypeOK
<1>4. Live' \subseteq Live \cup {i}  BY <1>3 DEF Live
<1>5. ASSUME NEW c \in Columns
      PROVE  /\ rows'[i].sealed[c].text = last'[i].text[c]
             /\ rows'[i].sealed[c].key \in heads \cup {NoKey}
             /\ rows'[i].index[c].text =
                  IF last'[i].text[c] \in {None, Blank} THEN last'[i].text[c]
                                                         ELSE Folded[last'[i].text[c]]
  BY <1>1, <1>2, <1>3, RowOfType
<1>6. ASSUME NEW k \in Live', NEW c \in Columns, k # i
      PROVE  /\ rows'[k].sealed[c].text = last'[k].text[c]
             /\ rows'[k].sealed[c].key \in heads \cup {NoKey}
             /\ rows'[k].index[c].text =
                  IF last'[k].text[c] \in {None, Blank} THEN last'[k].text[c]
                                                         ELSE Folded[last'[k].text[c]]
  <2>1. k \in Live /\ rows'[k] = rows[k] /\ last'[k] = last[k]
    BY <1>3, <1>4, <1>6 DEF Live
  <2> QED  BY <2>1 DEF StoredInv
<1> QED  BY <1>4, <1>5, <1>6 DEF StoredInv

LEMMA StoredStep == TypeOK /\ ServerInv /\ StoredInv /\ [Next]_vars => StoredInv'
<1> SUFFICES ASSUME TypeOK, ServerInv, StoredInv, [Next]_vars PROVE StoredInv'  OBVIOUS
<1>0. ASSUME UNCHANGED <<server, rows, last, used, heads>>  PROVE StoredInv'
  BY <1>0 DEF StoredInv, Live
<1>1. ASSUME NEW s \in Secrets, NEW k \in IndexKeys, Start(s, k)  PROVE StoredInv'
  <2>1. server' = [secret |-> s, index |-> k] /\ heads' = heads \cup {Head[s]}
        /\ ParsedKey(s) # NoKey /\ UNCHANGED <<rows, last, used>>
    BY <1>1 DEF Start
  <2>2. ParsedKey(s) = Head[s]  BY <2>1, KeysType
  <2> QED  BY <2>1, <2>2 DEF StoredInv, Live
<1>2. CASE Stop  BY <1>2 DEF Stop, StoredInv, Live
<1>3. ASSUME NEW r \in Requests, NEW i \in Ids, NEW form \in Forms, CreateSME(r, i, form)
      PROVE  StoredInv'
  <2>1. form \in [Columns -> Texts \cup {None}] /\ Accepted(form)
    BY <1>3 DEF Forms, CreateSME
  <2>2. KeptTexts(form) \in Storable /\ Active \in Statuses
    BY <2>1, KeptTextsType, SmeRecordsAssumption
  <2>3. /\ last'[i].text = KeptTexts(form) /\ \A k \in Ids \ {i} : last'[k] = last[k]
        /\ used' \in SUBSET Ids /\ used \cup {i} \subseteq used'
    BY <1>3 DEF CreateSME, TypeOK
  <2> QED  BY <1>3, <2>2, <2>3, StoreStep DEF CreateSME, Ready
<1>4. ASSUME NEW r \in Requests, NEW i \in Ids, NEW form \in Forms, NEW kept \in SUBSET Columns,
             NEW asked \in Statuses \cup {NoStatus},
             FindForUpdate(r, i, Edited(i, kept, form), asked)
      PROVE  StoredInv'
  BY <1>0, <1>4 DEF FindForUpdate
<1>5. ASSUME NEW r \in Requests, NEW i \in Ids, FindForDelete(r, i)  PROVE StoredInv'
  BY <1>0, <1>5 DEF FindForDelete
<1>6. ASSUME NEW r \in Requests, UpdateSME(r)  PROVE StoredInv'
  <2> DEFINE j == jobs[r]
  <2>1. j \in Jobs /\ j.id \in Ids /\ j.text \in Storable /\ j.status \in Statuses
    BY <1>6 DEF UpdateSME, Doing, TypeOK, Jobs
  <2>2. server # Down /\ j.id \in Live  BY <1>6, Running DEF UpdateSME, Doing
  <2>3. /\ last'[j.id].text = j.text /\ \A k \in Ids \ {j.id} : last'[k] = last[k]
        /\ used' \in SUBSET Ids /\ used \cup {j.id} \subseteq used'
    BY <1>6, <2>1, <2>2 DEF UpdateSME, Ask, TypeOK, StoredInv
  <2>4. /\ rows' = [rows EXCEPT ![j.id] = RowOf(j.text, j.status)]
        /\ UNCHANGED <<server, heads>>
    BY <1>6 DEF UpdateSME
  <2> HIDE DEF j
  <2> QED  BY <2>1, <2>2, <2>3, <2>4, StoreStep
<1>7. ASSUME NEW r \in Requests, DeleteSME(r)  PROVE StoredInv'
  <2>1. \A k \in Ids : rows'[k] \in {rows[k], NoRow}  BY <1>7 DEF DeleteSME, TypeOK
  <2>2. \A k \in Live' : k \in Live /\ rows'[k] = rows[k]  BY <2>1 DEF Live
  <2>3. UNCHANGED <<server, last, used, heads>>  BY <1>7 DEF DeleteSME
  <2> QED  BY <2>2, <2>3 DEF StoredInv
<1>8. ASSUME NEW r \in Requests, Fail(r)  PROVE StoredInv'
  BY <1>0, <1>8 DEF Fail
<1>9. CASE UNCHANGED vars  BY <1>0, <1>9 DEF vars
<1> QED  BY <1>1, <1>2, <1>3, <1>4, <1>5, <1>6, <1>7, <1>8, <1>9 DEF Next

LEMMA StoredMatches == TypeOK /\ StoredInv => FoundAsShown
<1> SUFFICES ASSUME TypeOK, StoredInv, server # Down,
                    NEW i \in Live, NEW c \in Columns, NEW t \in Texts \ {Blank},
                    Shown(i)[c] \notin {None, Blank, Garbled},
                    rows[i].index[c].key = server.index
             PROVE  i \in Found(c, t) <=> Folded[t] = Folded[Shown(i)[c]]
  BY DEF FoundAsShown
<1>1. Shown(i)[c] = Decrypt(server.secret, rows[i].sealed[c])  BY DEF Shown
<1>2. Shown(i)[c] = last[i].text[c]  BY <1>1 DEF Decrypt, StoredInv
<1>3. rows[i].index \in [Columns -> Indexes]  BY DEF TypeOK, Live, Rows
<1>4. rows[i].index[c] = [key |-> server.index, text |-> Folded[Shown(i)[c]]]
  <2>1. rows[i].index[c].text = Folded[Shown(i)[c]]  BY <1>2 DEF StoredInv
  <2> QED  BY <1>3, <2>1 DEF Indexes
<1>5. BlindIndex(server.index, t) = [key |-> server.index, text |-> Folded[t]]
  BY SmeRecordsAssumption DEF BlindIndex
<1>6. rows[i].index[c] = BlindIndex(server.index, t) <=> Folded[t] = Folded[Shown(i)[c]]
  BY <1>4, <1>5
<1> QED  BY <1>6 DEF Found

\* A search of the register finds what shows the text asked for, whatever the columns, the
\* keys and the number of concurrent updates.
THEOREM SearchesMatch == Spec => []FoundAsShown
<1>1. Init => TypeOK /\ ServerInv /\ StoredInv  BY TypeInit, ServerInit, StoredInit
<1>2. TypeOK /\ ServerInv /\ StoredInv /\ [Next]_vars => (TypeOK /\ ServerInv /\ StoredInv)'
  BY TypeStep, ServerStep, StoredStep
<1>3. TypeOK /\ StoredInv => FoundAsShown  BY StoredMatches
<1> QED  BY <1>1, <1>2, <1>3, PTL DEF Spec

-----------------------------------------------------------------------------
(* Statuses.                                                               *)

LEMMA StatusInit == Init => StatusInv
  BY DEF Init, StatusInv, Live

LEMMA StatusStep ==
  TypeOK /\ ServerInv /\ StoredInv /\ StatusInv /\ [Next]_vars => StatusInv'
<1> SUFFICES ASSUME TypeOK, ServerInv, StoredInv, StatusInv, [Next]_vars PROVE StatusInv'
  OBVIOUS
<1>0. ASSUME UNCHANGED <<rows, last, used, stale>>, \A r \in Requests : jobs'[r] \in {jobs[r], Free}
      PROVE  StatusInv'
  BY <1>0 DEF StatusInv, Live
<1>1. ASSUME NEW s \in Secrets, NEW k \in IndexKeys, Start(s, k)  PROVE StatusInv'
  BY <1>0, <1>1 DEF Start
<1>2. CASE Stop  BY <1>0, <1>2 DEF Stop
<1>3. ASSUME NEW r \in Requests, NEW i \in Ids, NEW form \in Forms, CreateSME(r, i, form)
      PROVE  StatusInv'
  <2> DEFINE new == RowOf(KeptTexts(form), Active)
  <2>1. new.status = Active  BY DEF RowOf
  <2>2. rows' = [rows EXCEPT ![i] = new] /\ UNCHANGED <<jobs, stale>> /\ i \notin used
        /\ used' = used \cup {i}
        /\ last' = [last EXCEPT ![i] = [text |-> KeptTexts(form), status |-> Active]]
    BY <1>3 DEF CreateSME
  <2> HIDE DEF new
  <2>3. rows'[i] = new /\ \A k \in Ids \ {i} : rows'[k] = rows[k]  BY <2>2 DEF TypeOK
  <2>4. last'[i].status = Active /\ \A k \in Ids \ {i} : last'[k] = last[k]
    BY <2>2 DEF TypeOK
  <2>5. \A k \in Live' : k \in Live \/ k = i  BY <2>3 DEF Live
  <2>6. i \in stale \/ rows'[i].status = last'[i].status  BY <2>1, <2>3, <2>4
  <2>7. ASSUME NEW q \in Requests, jobs[q] # Free, ~jobs[q].given, ~jobs[q].stale,
               jobs[q].id \in Live', jobs[q].id \notin stale
        PROVE  jobs[q].status = last'[jobs[q].id].status
    <3>1. jobs[q].id \in Ids  BY <2>7 DEF Live
    <3>2. CASE jobs[q].id # i
      BY <2>4, <2>5, <2>7, <3>1, <3>2 DEF StatusInv
    <3>3. CASE jobs[q].id = i
      BY <2>2, <2>7, <3>3 DEF StatusInv
    <3> QED  BY <3>2, <3>3
  <2>8. ASSUME NEW k \in Live', k \notin stale  PROVE rows'[k].status = last'[k].status
    BY <2>3, <2>4, <2>5, <2>6, <2>8 DEF StatusInv, Live
  <2> QED  BY <2>2, <2>7, <2>8 DEF StatusInv
<1>4. ASSUME NEW r \in Requests, NEW i \in Ids, NEW form \in Forms, NEW kept \in SUBSET Columns,
             NEW asked \in Statuses \cup {NoStatus},
             FindForUpdate(r, i, Edited(i, kept, form), asked)
      PROVE  StatusInv'
  <2>1. i \in Live /\ i \in used /\ UNCHANGED <<rows, last, used, stale>>
    BY <1>4 DEF FindForUpdate, StoredInv
  <2>2. \A q \in Requests \ {r} : jobs'[q] = jobs[q]  BY <1>4 DEF FindForUpdate, TypeOK
  <2>3. /\ jobs'[r].id = i
        /\ ~jobs'[r].given => jobs'[r].status = rows[i].status
    BY <1>4 DEF FindForUpdate, TypeOK
  <2>4. i \notin stale => rows[i].status = last[i].status  BY <2>1 DEF StatusInv
  <2> QED  BY <2>1, <2>2, <2>3, <2>4 DEF StatusInv, Live
<1>5. ASSUME NEW r \in Requests, NEW i \in Ids, FindForDelete(r, i)  PROVE StatusInv'
  <2>1. i \in used /\ UNCHANGED <<rows, last, used, stale>>
    BY <1>5 DEF FindForDelete, StoredInv
  <2>2. \A q \in Requests \ {r} : jobs'[q] = jobs[q]  BY <1>5 DEF FindForDelete, TypeOK
  <2>3. jobs'[r].id = i /\ jobs'[r].given  BY <1>5 DEF FindForDelete, TypeOK
  <2> QED  BY <2>1, <2>2, <2>3 DEF StatusInv, Live
<1>6. ASSUME NEW r \in Requests, UpdateSME(r)  PROVE StatusInv'
  <2> DEFINE j == jobs[r]
  <2>1. j \in Jobs /\ j.id \in Live /\ j.id \in Ids /\ j # Free
    BY <1>6 DEF UpdateSME, Doing, TypeOK, Jobs
  <2>2. /\ rows' = [rows EXCEPT ![j.id] = RowOf(j.text, j.status)]
        /\ last' = [last EXCEPT ![j.id] =
             [text |-> j.text, status |-> IF j.given THEN j.status ELSE last[j.id].status]]
        /\ stale' = (IF j.given THEN stale \ {j.id}
                     ELSE IF j.stale THEN stale \cup {j.id} ELSE stale)
        /\ jobs' = Overtake(r, j.id)
        /\ used' = used
    BY <1>6 DEF UpdateSME, Ask
  <2>3. RowOf(j.text, j.status).status = j.status  BY DEF RowOf
  <2>4. rows'[j.id].status = j.status /\ \A k \in Ids \ {j.id} : rows'[k] = rows[k]
    BY <2>1, <2>2, <2>3 DEF TypeOK
  <2>5. /\ last'[j.id].status = IF j.given THEN j.status ELSE last[j.id].status
        /\ \A k \in Ids \ {j.id} : last'[k] = last[k] /\ (k \in stale' <=> k \in stale)
    BY <2>1, <2>2 DEF TypeOK
  <2>6. \A k \in Live' : k \in Live  BY <2>1, <2>4 DEF Live
  <2>7. j.id \notin stale' => rows'[j.id].status = last'[j.id].status
    <3>1. CASE j.given  BY <2>4, <2>5, <3>1
    <3>2. CASE ~j.given /\ j.stale  BY <2>2, <3>2
    <3>3. CASE ~j.given /\ ~j.stale
      <4>1. j.id \notin stale => j.status = last[j.id].status
        BY <2>1, <3>3 DEF StatusInv
      <4> QED  BY <2>2, <2>4, <2>5, <3>3, <4>1
    <3> QED  BY <2>1, <3>1, <3>2, <3>3 DEF Jobs
  <2>8. ASSUME NEW k \in Live', k \notin stale'  PROVE rows'[k].status = last'[k].status
    BY <2>4, <2>5, <2>6, <2>7, <2>8 DEF StatusInv, Live
  <2>9. ASSUME NEW q \in Requests, jobs'[q] # Free
        PROVE  /\ jobs'[q].id \in used'
               /\ ~jobs'[q].given /\ ~jobs'[q].stale /\ jobs'[q].id \in Live'
                  /\ jobs'[q].id \notin stale' => jobs'[q].status = last'[jobs'[q].id].status
    <3>1. /\ jobs[q] # Free /\ jobs'[q].id = jobs[q].id /\ jobs'[q].given = jobs[q].given
          /\ jobs'[q].status = jobs[q].status
          /\ jobs[q].id = j.id => jobs'[q].stale = ~jobs[q].given
          /\ jobs[q].id # j.id => jobs'[q] = jobs[q]
      BY <2>1, <2>2, <2>9, OvertakeType
    <3>2. jobs[q].id \in used /\ jobs[q].id \in Ids
      BY <3>1 DEF StatusInv, TypeOK, Jobs
    <3>3. CASE jobs[q].id = j.id  BY <2>2, <3>1, <3>2, <3>3
    <3>4. CASE jobs[q].id # j.id
      BY <2>2, <2>5, <2>6, <3>1, <3>2, <3>4 DEF StatusInv
    <3> QED  BY <3>3, <3>4
  <2> QED  BY <2>8, <2>9 DEF StatusInv
<1>7. ASSUME NEW r \in Requests, DeleteSME(r)  PROVE StatusInv'
  <2>1. jobs[r].id \in Ids /\ jobs' = Overtake(r, jobs[r].id)
    BY <1>7 DEF DeleteSME, Doing, TypeOK, Jobs
  <2>2. \A k \in Ids : rows'[k] \in {rows[k], NoRow}  BY <1>7 DEF DeleteSME, TypeOK
  <2>3. \A k \in Live' : k \in Live /\ rows'[k] = rows[k]  BY <2>2 DEF Live
  <2>4. UNCHANGED <<last, used, stale>>  BY <1>7 DEF DeleteSME
  <2>5. \A q \in Requests : jobs'[q] # Free =>
          /\ jobs[q] # Free /\ jobs'[q].id = jobs[q].id /\ jobs'[q].given = jobs[q].given
          /\ jobs'[q].status = jobs[q].status
          /\ jobs[q].id = jobs[r].id => jobs'[q].stale = ~jobs[q].given
          /\ jobs[q].id # jobs[r].id => jobs'[q] = jobs[q]
    BY <2>1, OvertakeType
  <2>6. ASSUME NEW q \in Requests, jobs'[q] # Free
        PROVE  /\ jobs'[q].id \in used'
               /\ ~jobs'[q].given /\ ~jobs'[q].stale /\ jobs'[q].id \in Live'
                  /\ jobs'[q].id \notin stale' => jobs'[q].status = last'[jobs'[q].id].status
    BY <2>3, <2>4, <2>5, <2>6 DEF StatusInv
  <2>7. \A k \in Live' : k \notin stale' => rows'[k].status = last'[k].status
    BY <2>3, <2>4 DEF StatusInv
  <2> QED  BY <2>6, <2>7 DEF StatusInv
<1>8. ASSUME NEW r \in Requests, Fail(r)  PROVE StatusInv'
  <2>1. \A q \in Requests : jobs'[q] \in {jobs[q], Free}  BY <1>8 DEF Fail, TypeOK
  <2> QED  BY <1>0, <1>8, <2>1 DEF Fail
<1>9. CASE UNCHANGED vars  BY <1>0, <1>9 DEF vars
<1> QED  BY <1>1, <1>2, <1>3, <1>4, <1>5, <1>6, <1>7, <1>8, <1>9 DEF Next

\* A record holds what the last statement was asked to store, and the status unless it
\* came from an overtaken row.
THEOREM LastWriteIsStored == Spec => []LastWriteStored
<1>1. Init => TypeOK /\ ServerInv /\ StoredInv /\ StatusInv
  BY TypeInit, ServerInit, StoredInit, StatusInit
<1>2. TypeOK /\ ServerInv /\ StoredInv /\ StatusInv /\ [Next]_vars
        => (TypeOK /\ ServerInv /\ StoredInv /\ StatusInv)'
  BY TypeStep, ServerStep, StoredStep, StatusStep
<1>3. StoredInv /\ StatusInv => LastWriteStored  BY DEF StoredInv, StatusInv, LastWriteStored
<1> QED  BY <1>1, <1>2, <1>3, PTL DEF Spec

-----------------------------------------------------------------------------
(* Readable texts.                                                         *)

\* While the key has been the same, what is shown is what is stored.
LEMMA ShownIsStored ==
  ASSUME TypeOK, StoredInv, SameKey, server # Down, NEW i \in Live
  PROVE  Shown(i) = last[i].text
<1>1. ASSUME NEW c \in Columns  PROVE Shown(i)[c] = last[i].text[c]
  <2>1. rows[i].sealed[c].key \in {NoKey, ParsedKey(server.secret)}
    BY DEF StoredInv, SameKey
  <2> QED  BY <2>1 DEF Shown, Decrypt, StoredInv
<1>2. Shown(i) = [c \in Columns |-> Shown(i)[c]]  BY DEF Shown
<1>3. last[i].text = [c \in Columns |-> last[i].text[c]]  BY DEF TypeOK, Live, Storable
<1> QED  BY <1>1, <1>2, <1>3

LEMMA ReadableInit == Init => ReadableInv
  BY DEF Init, ReadableInv, Live

LEMMA ReadableStep ==
  TypeOK /\ ServerInv /\ StoredInv /\ ReadableInv /\ [Next]_vars => ReadableInv'
<1> SUFFICES ASSUME TypeOK, ServerInv, StoredInv, ReadableInv, [Next]_vars, SameKey'
             PROVE  /\ \A i \in Live', c \in Columns : last'[i].text[c] # Garbled
                    /\ \A r \in Requests : jobs'[r] # Free =>
                         \A c \in Columns : jobs'[r].text[c] # Garbled
  BY DEF ReadableInv
<1> DEFINE Goal == /\ \A i \in Live', c \in Columns : last'[i].text[c] # Garbled
                   /\ \A r \in Requests : jobs'[r] # Free =>
                        \A c \in Columns : jobs'[r].text[c] # Garbled
<1>a. heads \subseteq heads'
  BY DEF Next, Start, Stop, CreateSME, FindForUpdate, FindForDelete, UpdateSME, DeleteSME,
         Fail, vars
<1>b. SameKey  BY <1>a DEF SameKey
<1>c. /\ \A i \in Live, c \in Columns : last[i].text[c] # Garbled
      /\ \A r \in Requests : jobs[r] # Free => \A c \in Columns : jobs[r].text[c] # Garbled
  BY <1>b DEF ReadableInv
<1>0. ASSUME UNCHANGED <<rows, last>>, \A r \in Requests : jobs'[r] \in {jobs[r], Free}
      PROVE  Goal
  BY <1>0, <1>c DEF Live
<1>1. ASSUME NEW s \in Secrets, NEW k \in IndexKeys, Start(s, k)  PROVE Goal
  BY <1>0, <1>1 DEF Start
<1>2. CASE Stop  BY <1>0, <1>2 DEF Stop
<1>3. ASSUME NEW r \in Requests, NEW i \in Ids, NEW form \in Forms, CreateSME(r, i, form)
      PROVE  Goal
  <2>1. /\ form \in [Columns -> Texts \cup {None}] /\ \A c \in Columns : form[c] # Garbled
        /\ Accepted(form)
    BY <1>3, SmeRecordsAssumption DEF Forms, CreateSME
  <2>2. \A c \in Columns : KeptTexts(form)[c] # Garbled  BY <2>1, KeptTextsType
  <2>3. /\ last'[i].text = KeptTexts(form) /\ \A k \in Ids \ {i} : last'[k] = last[k]
        /\ \A k \in Ids \ {i} : rows'[k] = rows[k]
        /\ UNCHANGED jobs
    BY <1>3 DEF CreateSME, TypeOK
  <2>4. \A k \in Live' : k \in Live \/ k = i  BY <2>3 DEF Live
  <2> QED  BY <1>c, <2>2, <2>3, <2>4 DEF Live
<1>4. ASSUME NEW r \in Requests, NEW i \in Ids, NEW form \in Forms, NEW kept \in SUBSET Columns,
             NEW asked \in Statuses \cup {NoStatus},
             FindForUpdate(r, i, Edited(i, kept, form), asked)
      PROVE  Goal
  <2>1. i \in Live /\ server # Down /\ UNCHANGED <<rows, last>>
    BY <1>4 DEF FindForUpdate, Ready
  <2>2. Edited(i, kept, form) \in [Columns -> Texts \cup {None}]  BY <2>1, EditedType
  <2>a. Accepted(Edited(i, kept, form))  BY <1>4 DEF FindForUpdate
  <2>3. \A c \in Columns : form[c] # Garbled  BY SmeRecordsAssumption DEF Forms
  <2>4. Shown(i) = last[i].text  BY <1>b, <2>1, ShownIsStored
  <2>5. \A c \in Columns : Edited(i, kept, form)[c] # Garbled
    BY <1>c, <2>1, <2>3, <2>4 DEF Edited
  <2>6. \A c \in Columns : KeptTexts(Edited(i, kept, form))[c] # Garbled
    BY <2>2, <2>a, <2>5, KeptTextsType
  <2>7. jobs'[r].text = KeptTexts(Edited(i, kept, form))
        /\ \A q \in Requests \ {r} : jobs'[q] = jobs[q]
    BY <1>4 DEF FindForUpdate, TypeOK
  <2> QED  BY <1>c, <2>1, <2>6, <2>7 DEF Live
<1>5. ASSUME NEW r \in Requests, NEW i \in Ids, FindForDelete(r, i)  PROVE Goal
  <2>1. UNCHANGED <<rows, last>> /\ jobs'[r].text = [c \in Columns |-> None]
        /\ \A q \in Requests \ {r} : jobs'[q] = jobs[q]
    BY <1>5 DEF FindForDelete, TypeOK
  <2> QED  BY <1>c, <2>1, SmeRecordsAssumption DEF Live
<1>6. ASSUME NEW r \in Requests, UpdateSME(r)  PROVE Goal
  <2> DEFINE j == jobs[r]
  <2>1. j \in Jobs /\ j.id \in Live /\ j.id \in Ids /\ j # Free
    BY <1>6 DEF UpdateSME, Doing, TypeOK, Jobs
  <2>2. /\ last'[j.id].text = j.text /\ \A k \in Ids \ {j.id} : last'[k] = last[k]
        /\ \A k \in Ids \ {j.id} : rows'[k] = rows[k]
        /\ jobs' = Overtake(r, j.id)
    BY <1>6, <2>1 DEF UpdateSME, Ask, TypeOK
  <2>3. \A q \in Requests : jobs'[q] # Free => jobs[q] # Free /\ jobs'[q].text = jobs[q].text
    BY <2>1, <2>2, OvertakeType
  <2>4. \A k \in Live' : k \in Live  BY <2>1, <2>2 DEF Live
  <2> QED  BY <1>c, <2>1, <2>2, <2>3, <2>4 DEF Live
<1>7. ASSUME NEW r \in Requests, DeleteSME(r)  PROVE Goal
  <2>1. jobs[r].id \in Ids /\ jobs' = Overtake(r, jobs[r].id) /\ UNCHANGED last
    BY <1>7 DEF DeleteSME, Doing, TypeOK, Jobs
  <2>2. \A k \in Ids : rows'[k] \in {rows[k], NoRow}  BY <1>7 DEF DeleteSME, TypeOK
  <2>3. \A k \in Live' : k \in Live  BY <2>2 DEF Live
  <2>4. \A q \in Requests : jobs'[q] # Free => jobs[q] # Free /\ jobs'[q].text = jobs[q].text
    BY <2>1, OvertakeType
  <2> QED  BY <1>c, <2>1, <2>3, <2>4
<1>8. ASSUME NEW r \in Requests, Fail(r)  PROVE Goal
  <2>1. \A q \in Requests : jobs'[q] \in {jobs[q], Free}  BY <1>8 DEF Fail, TypeOK
  <2> QED  BY <1>0, <1>8, <2>1 DEF Fail
<1>9. CASE UNCHANGED vars  BY <1>0, <1>9 DEF vars
<1> QED  BY <1>1, <1>2, <1>3, <1>4, <1>5, <1>6, <1>7, <1>8, <1>9 DEF Next

\* Through any number of restarts, every record can be read while the first 32 bytes of
\* the encryption key stay the same.
THEOREM RecordsReadable == Spec => []ReadableWhileSameKey
<1>1. Init => TypeOK /\ ServerInv /\ StoredInv /\ ReadableInv
  BY TypeInit, ServerInit, StoredInit, ReadableInit
<1>2. TypeOK /\ ServerInv /\ StoredInv /\ ReadableInv /\ [Next]_vars
        => (TypeOK /\ ServerInv /\ StoredInv /\ ReadableInv)'
  BY TypeStep, ServerStep, StoredStep, ReadableStep
<1>3. TypeOK /\ StoredInv /\ ReadableInv => ReadableWhileSameKey
  BY ShownIsStored DEF ReadableWhileSameKey, SameKey, ReadableInv
<1> QED  BY <1>1, <1>2, <1>3, PTL DEF Spec

-----------------------------------------------------------------------------
(* Deletions.                                                              *)

LEMMA ThankedInit == Init => ThankedInv
  BY DEF Init, ThankedInv, DeletedOnce, Live

LEMMA ThankedStep ==
  TypeOK /\ StoredInv /\ ThankedInv /\ [Next]_vars => ThankedInv'
<1> SUFFICES ASSUME TypeOK, StoredInv, ThankedInv, [Next]_vars PROVE ThankedInv'  OBVIOUS
<1>0. ASSUME UNCHANGED <<rows, used, thanked>>  PROVE ThankedInv'
  BY <1>0 DEF ThankedInv, DeletedOnce, Live
<1>1. ASSUME NEW r \in Requests, NEW i \in Ids, NEW form \in Forms, CreateSME(r, i, form)
      PROVE  ThankedInv'
  <2>1. thanked[i] = {}  BY <1>1 DEF CreateSME, ThankedInv
  <2>2. /\ used' = used \cup {i} /\ thanked' = thanked
        /\ \A k \in Ids \ {i} : rows'[k] = rows[k]
    BY <1>1 DEF CreateSME, TypeOK
  <2>3. \A k \in Live' : k \in Live \/ k = i  BY <2>2 DEF Live
  <2> QED  BY <2>1, <2>2, <2>3 DEF ThankedInv, DeletedOnce
<1>2. ASSUME NEW r \in Requests, UpdateSME(r)  PROVE ThankedInv'
  <2>1. jobs[r].id \in Live /\ UNCHANGED <<used, thanked>>
        /\ \A k \in Ids \ {jobs[r].id} : rows'[k] = rows[k]
    BY <1>2 DEF UpdateSME, TypeOK
  <2>2. \A k \in Live' : k \in Live  BY <2>1 DEF Live
  <2> QED  BY <2>1, <2>2 DEF ThankedInv, DeletedOnce
<1>3. ASSUME NEW r \in Requests, DeleteSME(r)  PROVE ThankedInv'
  <2> DEFINE i == jobs[r].id
  <2>1. i \in Live /\ i \in Ids /\ used' = used
    BY <1>3 DEF DeleteSME, Live
  <2>2. thanked[i] = {} /\ i \in used  BY <2>1 DEF ThankedInv, DeletedOnce, StoredInv
  <2>3. /\ rows'[i] = NoRow /\ \A k \in Ids \ {i} : rows'[k] = rows[k]
        /\ thanked'[i] = {r} /\ \A k \in Ids \ {i} : thanked'[k] = thanked[k]
    BY <1>3, <2>1, <2>2 DEF DeleteSME, TypeOK
  <2>4. \A k \in Live' : k \in Live /\ k # i  BY <2>3 DEF Live
  <2> QED  BY <2>1, <2>2, <2>3, <2>4 DEF ThankedInv, DeletedOnce
<1>4. ASSUME NEW r \in Requests, NEW i \in Ids, FindForDelete(r, i)  PROVE ThankedInv'
  BY <1>0, <1>4 DEF FindForDelete
<1>5. ASSUME NEW r \in Requests, NEW i \in Ids, NEW form \in Forms, NEW kept \in SUBSET Columns,
             NEW asked \in Statuses \cup {NoStatus},
             FindForUpdate(r, i, Edited(i, kept, form), asked)
      PROVE  ThankedInv'
  BY <1>0, <1>5 DEF FindForUpdate
<1>6. ASSUME NEW s \in Secrets, NEW k \in IndexKeys, Start(s, k)  PROVE ThankedInv'
  BY <1>0, <1>6 DEF Start
<1>7. CASE Stop  BY <1>0, <1>7 DEF Stop
<1>8. ASSUME NEW r \in Requests, Fail(r)  PROVE ThankedInv'
  BY <1>0, <1>8 DEF Fail
<1>9. CASE UNCHANGED vars  BY <1>0, <1>9 DEF vars
<1> QED  BY <1>1, <1>2, <1>3, <1>4, <1>5, <1>6, <1>7, <1>8, <1>9 DEF Next

\* However many requests delete a record, one of them is told that it has.
THEOREM DeletionsOnce == Spec => []DeletedOnce
<1>1. Init => TypeOK /\ ServerInv /\ StoredInv /\ ThankedInv
  BY TypeInit, ServerInit, StoredInit, ThankedInit
<1>2. TypeOK /\ ServerInv /\ StoredInv /\ ThankedInv /\ [Next]_vars
        => (TypeOK /\ ServerInv /\ StoredInv /\ ThankedInv)'
  BY TypeStep, ServerStep, StoredStep, ThankedStep
<1>3. ThankedInv => DeletedOnce  BY DEF ThankedInv
<1> QED  BY <1>1, <1>2, <1>3, PTL DEF Spec
=============================================================================
