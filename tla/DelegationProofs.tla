-------------------------- MODULE DelegationProofs --------------------------
(* Where authority comes from, for every set of accounts, roles, permissions*)
(* and requests, and any number of tokens.                                  *)
EXTENDS Delegation, TLAPS

\* The tables: who is a SUPER_ADMIN has been one, and roles given out are rooted.
TablesRooted ==
  \A u \in Users : /\ role[u] = SUPER => u \in crowned
                   /\ RolePerms[role[u]] \subseteq rooted

\* A calculation has read rooted permissions only, or is for an account that has been
\* SUPER_ADMIN.
CalcRooted(c) ==
  /\ c.user \notin crowned => c.role # SUPER /\ c.row.role # SUPER /\ c.spare \subseteq rooted
  /\ c.stage # "row" => RolePerms[c.row.role] \cup c.row.custom \subseteq rooted

CalcsRooted == \A r \in Readers : calcs[r] # Free => CalcRooted(calcs[r])

WritesRooted == \A w \in Writers : writes[w] # Free => writes[w].list \subseteq rooted

RootedInv == TablesRooted /\ CalcsRooted /\ WritesRooted /\ Rooted

\* What a row, as read, entitles to, whatever the dictionary says.
Entitled(row) == IF row.role = SUPER THEN Perms ELSE RolePerms[row.role] \cup row.custom

\* What a calculation has read agrees with its history.
CalcFair(c) ==
  /\ c.always \subseteq Effective[c.user] /\ Effective[c.user] \subseteq c.ever
  /\ c.stage # "row" =>
       c.always \subseteq Entitled(c.row) /\ active \cap Entitled(c.row) \subseteq c.ever
  /\ c.stage = "role" => c.always \subseteq c.dict /\ c.dict \cap Entitled(c.row) \subseteq c.ever

CalcsFair == \A r \in Readers : calcs[r] # Free => CalcFair(calcs[r])

-----------------------------------------------------------------------------
(* Types.                                                                  *)

\* No record of a request or of a pair is the free slot.
LEMMA Distinct ==
  /\ Free \notin Calculations
  /\ Free \notin Delegations
  /\ Free \notin Pairs
<1>1. Free.op = "none"  BY DEF Free
<1>2. \A c \in Calculations : c.op # "none"  BY DEF Calculations
<1>3. \A d \in Delegations : d.op # "none"  BY DEF Delegations
<1>4. \A t \in Pairs : DOMAIN t = {"user", "role", "perms", "access", "refresh"}  BY DEF Pairs
<1>5. DOMAIN Free = {"op"}  BY DEF Free
<1> QED  BY <1>1, <1>2, <1>3, <1>4, <1>5

\* What is effective is in the dictionary.
LEMMA EffectiveType == TypeOK => Effective \in [Users -> SUBSET Perms]
  BY DEF TypeOK, Effective

\* Calculations that see the tables change stay what they are.
LEMMA WitnessedType ==
  ASSUME TypeOK, role' \in [Users -> Roles], custom' \in [Users -> SUBSET Perms],
         active' \subseteq Perms, calcs' = Witnessed
  PROVE  /\ calcs' \in [Readers -> Calculations \cup {Free}]
         /\ \A r \in Readers : calcs[r] = Free => calcs'[r] = Free
         /\ \A r \in Readers : calcs[r] # Free =>
              /\ calcs'[r] # Free
              /\ calcs'[r].user = calcs[r].user /\ calcs'[r].role = calcs[r].role
              /\ calcs'[r].row = calcs[r].row /\ calcs'[r].spare = calcs[r].spare
              /\ calcs'[r].stage = calcs[r].stage /\ calcs'[r].dict = calcs[r].dict
              /\ calcs'[r].ever =
                   IF active' = active THEN calcs[r].ever \cup Effective'[calcs[r].user] ELSE Perms
              /\ calcs'[r].always = calcs[r].always \cap Effective'[calcs[r].user]
<1>1. Effective' \in [Users -> SUBSET Perms]  BY DEF Effective
<1>2. ASSUME NEW r \in Readers, calcs[r] # Free
      PROVE  LET c == [calcs[r] EXCEPT
                   !.ever = IF active' = active THEN @ \cup Effective'[calcs[r].user] ELSE Perms,
                   !.always = @ \cap Effective'[calcs[r].user]]
             IN  /\ c \in Calculations
                 /\ c.user = calcs[r].user /\ c.role = calcs[r].role
                 /\ c.row = calcs[r].row /\ c.spare = calcs[r].spare
                 /\ c.stage = calcs[r].stage /\ c.dict = calcs[r].dict
                 /\ c.ever = IF active' = active THEN calcs[r].ever \cup Effective'[calcs[r].user]
                                               ELSE Perms
                 /\ c.always = calcs[r].always \cap Effective'[calcs[r].user]
  <2>1. calcs[r] \in Calculations  BY <1>2 DEF TypeOK
  <2>2. Effective'[calcs[r].user] \subseteq Perms  BY <1>1, <2>1 DEF Calculations
  <2> QED  BY <2>1, <2>2 DEF Calculations
<1> QED  BY <1>2, Distinct DEF Witnessed

LEMMA TypeInit == Init => TypeOK
  BY DelegationAssumption DEF Init, TypeOK

\* A calculation begins well typed.
LEMMA BeginTypes ==
  ASSUME TypeOK, NEW r \in Readers, NEW op \in {"login", "refresh", "show"}, NEW x \in Slots,
         NEW u \in Users, NEW claimed \in Roles, NEW spare \in SUBSET Perms,
         Begin(r, op, x, u, claimed, spare)
  PROVE  calcs' \in [Readers -> Calculations \cup {Free}]
<1>1. Effective[u] \subseteq Perms  BY EffectiveType
<1> QED  BY <1>1 DEF Begin, TypeOK, Calculations

\* A calculation ends well typed.
LEMMA FinishTypes ==
  ASSUME TypeOK, NEW r \in Readers, calcs[r] # Free, NEW names \in SUBSET Perms,
         Finish(r, names)
  PROVE  TypeOK'
<1>1. calcs[r] \in Calculations  BY DEF TypeOK
<1>2. [user |-> calcs[r].user, role |-> calcs[r].role, perms |-> names,
       access |-> TRUE, refresh |-> TRUE] \in Pairs
  BY <1>1 DEF Calculations, Pairs
<1>3. pairs' \in [Slots -> Pairs \cup {Free}]  BY <1>2 DEF Finish, TypeOK
<1> QED  BY <1>3 DEF Finish, TypeOK, tables

LEMMA FoundType ==
  ASSUME TypeOK, NEW r \in Readers, calcs[r] # Free
  PROVE  Found(r) \subseteq Perms
<1>1. calcs[r] \in Calculations  BY DEF TypeOK
<1> QED  BY <1>1 DEF Found, Names, Calculations

LEMMA TypeStep == TypeOK /\ [Next]_vars => TypeOK'
<1> SUFFICES ASSUME TypeOK, [Next]_vars PROVE TypeOK'  OBVIOUS
<1>1. ASSUME NEW r \in Readers, NEW x \in Slots, NEW u \in Users, Login(r, x, u)
      PROVE  TypeOK'
  <2>1. role[u] \in Roles  BY DEF TypeOK
  <2>2. Begin(r, "login", x, u, role[u], {})  BY <1>1 DEF Login
  <2>3. calcs' \in [Readers -> Calculations \cup {Free}]  BY <2>1, <2>2, BeginTypes
  <2> QED  BY <1>1, <2>2, <2>3 DEF Login, Begin, TypeOK, tables
<1>2. ASSUME NEW r \in Readers, NEW y \in Slots, NEW x \in Slots, Refresh(r, y, x)
      PROVE  TypeOK'
  <2>1. pairs[y] \in Pairs  BY <1>2 DEF Refresh, TypeOK
  <2>2. Begin(r, "refresh", x, pairs[y].user, pairs[y].role, pairs[y].perms)
    BY <1>2 DEF Refresh
  <2>3. calcs' \in [Readers -> Calculations \cup {Free}]
    BY <2>1, <2>2, BeginTypes DEF Pairs
  <2>4. pairs' \in [Slots -> Pairs \cup {Free}]  BY <1>2, <2>1 DEF Refresh, TypeOK, Pairs
  <2> QED  BY <2>2, <2>3, <2>4 DEF Begin, TypeOK, tables
<1>3. ASSUME NEW r \in Readers, NEW y \in Slots, NEW u \in Users, Show(r, y, u)
      PROVE  TypeOK'
  <2>1. role[u] \in Roles  BY DEF TypeOK
  <2>2. Begin(r, "show", y, u, role[u], {})  BY <1>3 DEF Show
  <2>3. calcs' \in [Readers -> Calculations \cup {Free}]  BY <2>1, <2>2, BeginTypes
  <2> QED  BY <1>3, <2>2, <2>3 DEF Show, Begin, TypeOK, tables
<1>4. ASSUME NEW r \in Readers, ReadRow(r)  PROVE TypeOK'
  <2>1. calcs[r] \in Calculations  BY <1>4 DEF ReadRow, At, TypeOK
  <2>2. [role |-> role[calcs[r].user], custom |-> custom[calcs[r].user]]
          \in [role : Roles, custom : SUBSET Perms]
    BY <2>1 DEF TypeOK, Calculations
  <2>3. calcs' \in [Readers -> Calculations \cup {Free}]
    BY <1>4, <2>1, <2>2 DEF ReadRow, TypeOK, Calculations
  <2> QED  BY <1>4, <2>3 DEF ReadRow, TypeOK, tables
<1>5. ASSUME NEW r \in Readers, ReadDictionary(r)  PROVE TypeOK'
  <2>1. calcs[r] \in Calculations  BY <1>5 DEF ReadDictionary, At, TypeOK
  <2>2. calcs' \in [Readers -> Calculations \cup {Free}]
    BY <1>5, <2>1 DEF ReadDictionary, TypeOK, Calculations
  <2> QED  BY <1>5, <2>2 DEF ReadDictionary, TypeOK, tables
<1>6. ASSUME NEW r \in Readers, ReadRole(r)  PROVE TypeOK'
  BY <1>6, FoundType, FinishTypes DEF ReadRole, At
<1>7. ASSUME NEW r \in Readers, FailRead(r)  PROVE TypeOK'
  <2>1. calcs[r].spare \subseteq Perms  BY <1>7 DEF FailRead, TypeOK, Calculations
  <2> QED  BY <1>7, <2>1, FinishTypes DEF FailRead
<1>8. ASSUME NEW w \in Writers, NEW y \in Slots, NEW u \in Users, NEW op \in {"add", "remove"},
             NEW ps \in SUBSET Perms, UpdateUserPermissions(w, y, u, op, ps)
      PROVE  TypeOK'
  <2>1. custom[u] \subseteq Perms  BY DEF TypeOK
  <2>2. writes' \in [Writers -> Delegations \cup {Free}]
    BY <1>8, <2>1 DEF UpdateUserPermissions, TypeOK, Delegations
  <2>3. rooted' \subseteq Perms  BY <1>8 DEF UpdateUserPermissions, TypeOK
  <2> QED  BY <1>8, <2>2, <2>3 DEF UpdateUserPermissions, TypeOK, tables
<1>9. ASSUME NEW w \in Writers, WriteList(w)  PROVE TypeOK'
  <2>1. writes[w] \in Delegations  BY <1>9 DEF WriteList, TypeOK
  <2>2. custom' \in [Users -> SUBSET Perms]
    BY <1>9, <2>1 DEF WriteList, TypeOK, Delegations
  <2>3. calcs' \in [Readers -> Calculations \cup {Free}]
    BY <1>9, <2>2, WitnessedType DEF WriteList, TypeOK
  <2> QED  BY <1>9, <2>2, <2>3 DEF WriteList, TypeOK
<1>10. ASSUME NEW w \in Writers, FailDelegation(w)  PROVE TypeOK'
  BY <1>10 DEF FailDelegation, TypeOK, tables
<1>11. ASSUME NEW x \in Slots, Expire(x)  PROVE TypeOK'
  <2>1. pairs[x] \in Pairs  BY <1>11 DEF Expire, TypeOK
  <2>2. pairs' \in [Slots -> Pairs \cup {Free}]  BY <1>11, <2>1 DEF Expire, TypeOK, Pairs
  <2> QED  BY <1>11, <2>2 DEF Expire, TypeOK, tables
<1>12. ASSUME NEW u \in Users, NEW to \in Roles, SetRole(u, to)  PROVE TypeOK'
  <2>1. role' \in [Users -> Roles]  BY <1>12 DEF SetRole, TypeOK
  <2>2. calcs' \in [Readers -> Calculations \cup {Free}]
    BY <1>12, <2>1, WitnessedType DEF SetRole, TypeOK
  <2>3. RolePerms[to] \subseteq Perms  BY DelegationAssumption
  <2> QED  BY <1>12, <2>1, <2>2, <2>3 DEF SetRole, TypeOK
<1>13. ASSUME NEW p \in Perms, Switch(p)  PROVE TypeOK'
  <2>1. active' \subseteq Perms  BY <1>13 DEF Switch, TypeOK
  <2>2. calcs' \in [Readers -> Calculations \cup {Free}]
    BY <1>13, <2>1, WitnessedType DEF Switch, TypeOK
  <2> QED  BY <1>13, <2>1, <2>2 DEF Switch, TypeOK
<1>14. CASE UNCHANGED vars  BY <1>14 DEF vars, tables, TypeOK
<1> QED
  BY <1>1, <1>2, <1>3, <1>4, <1>5, <1>6, <1>7, <1>8, <1>9, <1>10, <1>11, <1>12, <1>13, <1>14,
     DelegationAssumption DEF Next, Ask, Calculate, Delegate, Write

\* The rows, the claims and the requests of Delegation stay well typed.
THEOREM TypeCorrect == Spec => []TypeOK
<1>1. Init => TypeOK  BY TypeInit
<1> QED  BY <1>1, TypeStep, PTL DEF Spec

-----------------------------------------------------------------------------
(* The root of authority.                                                  *)

LEMMA RootedInit == Init => RootedInv
<1> SUFFICES ASSUME Init PROVE RootedInv  OBVIOUS
<1>1. TablesRooted  BY DelegationAssumption DEF Init, TablesRooted
<1>2. CalcsRooted /\ WritesRooted  BY DEF Init, CalcsRooted, WritesRooted
<1>3. Rooted  BY DEF Init, Rooted
<1> QED  BY <1>1, <1>2, <1>3 DEF RootedInv

\* A calculation begins for an account of whose claims so far the same is true.
LEMMA BeginRooted ==
  ASSUME TypeOK, CalcsRooted, NEW r \in Readers, NEW op, NEW x, NEW u \in Users,
         NEW claimed, NEW spare, Begin(r, op, x, u, claimed, spare),
         u \notin crowned => claimed # SUPER /\ spare \subseteq rooted
  PROVE  CalcsRooted'
<1> DEFINE c == [op |-> op, stage |-> "row", slot |-> x, user |-> u, role |-> claimed,
                 spare |-> spare, row |-> [role |-> claimed, custom |-> {}], dict |-> {},
                 ever |-> Effective[u], always |-> Effective[u]]
<1>1. CalcRooted(c)'  BY DEF Begin, CalcRooted
<1>2. calcs' = [calcs EXCEPT ![r] = c]  BY DEF Begin
<1>3. ASSUME NEW q \in Readers, q # r, calcs'[q] # Free  PROVE CalcRooted(calcs[q])'
  <2>1. calcs'[q] = calcs[q]  BY <1>2, <1>3 DEF TypeOK
  <2> QED  BY <1>3, <2>1 DEF Begin, CalcsRooted, CalcRooted
<1>4. calcs'[r] = c  BY <1>2 DEF TypeOK
<1> QED  BY <1>1, <1>3, <1>4 DEF CalcsRooted, CalcRooted

\* A calculation that reads and goes on.
LEMMA ReadRooted ==
  ASSUME TypeOK, CalcsRooted, NEW r \in Readers, NEW c, calcs' = [calcs EXCEPT ![r] = c],
         UNCHANGED <<crowned, rooted>>, CalcRooted(c)
  PROVE  CalcsRooted'
<1>1. calcs'[r] = c  BY DEF TypeOK
<1>2. ASSUME NEW q \in Readers, q # r  PROVE calcs'[q] = calcs[q]  BY <1>2 DEF TypeOK
<1> QED  BY <1>1, <1>2 DEF CalcsRooted, CalcRooted

\* Changing tables leave the calculations rooted.
LEMMA WitnessedRooted ==
  ASSUME TypeOK, CalcsRooted, role' \in [Users -> Roles], custom' \in [Users -> SUBSET Perms],
         active' \subseteq Perms, calcs' = Witnessed,
         crowned \subseteq crowned', rooted \subseteq rooted'
  PROVE  CalcsRooted'
<1>1. ASSUME NEW r \in Readers, calcs'[r] # Free  PROVE CalcRooted(calcs[r])'
  <2>1. calcs[r] # Free /\ CalcRooted(calcs[r])  BY <1>1, WitnessedType DEF CalcsRooted
  <2>2. /\ calcs'[r].user = calcs[r].user /\ calcs'[r].role = calcs[r].role
        /\ calcs'[r].row = calcs[r].row /\ calcs'[r].spare = calcs[r].spare
        /\ calcs'[r].stage = calcs[r].stage
    BY <2>1, WitnessedType
  <2> QED  BY <2>1, <2>2 DEF CalcRooted
<1> QED  BY <1>1 DEF CalcsRooted

\* What is answered with is rooted, or for an account that has been SUPER_ADMIN.
LEMMA FinishRooted ==
  ASSUME TypeOK, RootedInv, NEW r \in Readers, calcs[r] # Free, NEW names, Finish(r, names),
         calcs[r].user \notin crowned => names \subseteq rooted
  PROVE  RootedInv'
<1> DEFINE c == calcs[r]
           t == [user |-> c.user, role |-> c.role, perms |-> names, access |-> TRUE,
                 refresh |-> TRUE]
<1>1. c.user \notin crowned => c.role # SUPER  BY DEF RootedInv, CalcsRooted, CalcRooted
<1>2. TablesRooted'  BY DEF Finish, RootedInv, TablesRooted, tables
<1>3. WritesRooted'  BY DEF Finish, RootedInv, WritesRooted
<1>4. CalcsRooted'
  <2>1. ASSUME NEW q \in Readers, calcs'[q] # Free  PROVE calcs'[q] = calcs[q]
    BY <2>1 DEF Finish, TypeOK
  <2> QED  BY <2>1 DEF Finish, RootedInv, CalcsRooted, CalcRooted
<1>5. ASSUME NEW x \in Slots, pairs'[x] # Free, pairs'[x].user \notin crowned
      PROVE  pairs'[x].role # SUPER /\ pairs'[x].perms \subseteq rooted
  <2>1. pairs'[x] = pairs[x] \/ pairs'[x] = t  BY DEF Finish, TypeOK
  <2>2. CASE pairs'[x] = pairs[x]  BY <1>5, <2>2 DEF RootedInv, Rooted
  <2>3. CASE pairs'[x] = t  BY <1>1, <1>5, <2>3
  <2> QED  BY <2>1, <2>2, <2>3
<1>6. Rooted'  BY <1>5 DEF Finish, RootedInv, Rooted, tables
<1> QED  BY <1>2, <1>3, <1>4, <1>6 DEF RootedInv

LEMMA RootedStep == TypeOK /\ RootedInv /\ [Next]_vars => RootedInv'
<1> SUFFICES ASSUME TypeOK, RootedInv, [Next]_vars PROVE RootedInv'  OBVIOUS
<1>1. ASSUME NEW r \in Readers, NEW x \in Slots, NEW u \in Users, Login(r, x, u)
      PROVE  RootedInv'
  <2>1. Begin(r, "login", x, u, role[u], {})  BY <1>1 DEF Login
  <2>2. u \notin crowned => role[u] # SUPER  BY DEF RootedInv, TablesRooted
  <2>3. CalcsRooted'  BY <2>1, <2>2, BeginRooted DEF RootedInv
  <2> QED  BY <1>1, <2>1, <2>3
           DEF Login, Begin, RootedInv, TablesRooted, WritesRooted, Rooted, tables
<1>2. ASSUME NEW r \in Readers, NEW y \in Slots, NEW x \in Slots, Refresh(r, y, x)
      PROVE  RootedInv'
  <2>1. pairs[y] # Free /\ pairs[y] \in Pairs  BY <1>2 DEF Refresh, TypeOK
  <2>2. Begin(r, "refresh", x, pairs[y].user, pairs[y].role, pairs[y].perms)
    BY <1>2 DEF Refresh
  <2>3. pairs[y].user \notin crowned =>
          pairs[y].role # SUPER /\ pairs[y].perms \subseteq rooted
    BY <2>1 DEF RootedInv, Rooted
  <2>4. CalcsRooted'  BY <2>1, <2>2, <2>3, BeginRooted DEF RootedInv, Pairs
  <2>5. ASSUME NEW z \in Slots, pairs'[z] # Free
        PROVE  /\ pairs[z] # Free /\ pairs'[z].user = pairs[z].user
               /\ pairs'[z].role = pairs[z].role /\ pairs'[z].perms = pairs[z].perms
    BY <1>2, <2>1, <2>5 DEF Refresh, TypeOK, Pairs
  <2>6. Rooted'  BY <2>2, <2>5 DEF Begin, RootedInv, Rooted, tables
  <2> QED  BY <2>2, <2>4, <2>6, <1>2
           DEF Refresh, Begin, RootedInv, TablesRooted, WritesRooted, tables
<1>3. ASSUME NEW r \in Readers, NEW y \in Slots, NEW u \in Users, Show(r, y, u)
      PROVE  RootedInv'
  <2>1. Begin(r, "show", y, u, role[u], {})  BY <1>3 DEF Show
  <2>2. u \notin crowned => role[u] # SUPER  BY DEF RootedInv, TablesRooted
  <2>3. CalcsRooted'  BY <2>1, <2>2, BeginRooted DEF RootedInv
  <2> QED  BY <1>3, <2>1, <2>3
           DEF Show, Begin, RootedInv, TablesRooted, WritesRooted, Rooted, tables
<1>4. ASSUME NEW r \in Readers, ReadRow(r)  PROVE RootedInv'
  <2> DEFINE c == [calcs[r] EXCEPT !.stage = "dictionary",
                     !.row = [role |-> role[calcs[r].user], custom |-> custom[calcs[r].user]]]
  <2>1. calcs[r] \in Calculations /\ calcs[r] # Free  BY <1>4 DEF ReadRow, At, TypeOK
  <2>2. CalcRooted(calcs[r])  BY <2>1 DEF RootedInv, CalcsRooted
  <2>3. calcs[r].user \in Users  BY <2>1 DEF Calculations
  <2>4. CalcRooted(c)
    BY <2>1, <2>2, <2>3 DEF CalcRooted, Calculations, RootedInv, TablesRooted, Rooted
  <2>5. calcs' = [calcs EXCEPT ![r] = c]  BY <1>4 DEF ReadRow
  <2>6. CalcsRooted'  BY <1>4, <2>4, <2>5, ReadRooted DEF ReadRow, RootedInv
  <2> QED  BY <1>4, <2>6 DEF ReadRow, RootedInv, TablesRooted, WritesRooted, Rooted, tables
<1>5. ASSUME NEW r \in Readers, ReadDictionary(r)  PROVE RootedInv'
  <2> DEFINE c == [calcs[r] EXCEPT !.stage = "role", !.dict = active]
  <2>1. calcs[r] \in Calculations /\ calcs[r] # Free /\ calcs[r].stage = "dictionary"
    BY <1>5 DEF ReadDictionary, At, TypeOK
  <2>2. CalcRooted(calcs[r])  BY <2>1 DEF RootedInv, CalcsRooted
  <2>3. CalcRooted(c)  BY <2>1, <2>2 DEF CalcRooted, Calculations
  <2>4. calcs' = [calcs EXCEPT ![r] = c]  BY <1>5 DEF ReadDictionary
  <2>5. CalcsRooted'  BY <1>5, <2>3, <2>4, ReadRooted DEF ReadDictionary, RootedInv
  <2> QED  BY <1>5, <2>5
           DEF ReadDictionary, RootedInv, TablesRooted, WritesRooted, Rooted, tables
<1>6. ASSUME NEW r \in Readers, ReadRole(r)  PROVE RootedInv'
  <2>1. calcs[r] # Free /\ calcs[r].stage = "role"  BY <1>6 DEF ReadRole, At
  <2>2. CalcRooted(calcs[r])  BY <2>1 DEF RootedInv, CalcsRooted
  <2>3. calcs[r].user \notin crowned => Found(r) \subseteq rooted
    BY <2>1, <2>2 DEF CalcRooted, Found, Names
  <2> QED  BY <1>6, <2>1, <2>3, FinishRooted DEF ReadRole
<1>7. ASSUME NEW r \in Readers, FailRead(r)  PROVE RootedInv'
  <2>1. calcs[r] # Free  BY <1>7 DEF FailRead
  <2>2. calcs[r].user \notin crowned => calcs[r].spare \subseteq rooted
    BY <2>1 DEF RootedInv, CalcsRooted, CalcRooted
  <2> QED  BY <1>7, <2>1, <2>2, FinishRooted DEF FailRead
<1>8. ASSUME NEW w \in Writers, NEW y \in Slots, NEW u \in Users, NEW op \in {"add", "remove"},
             NEW ps \in SUBSET Perms, UpdateUserPermissions(w, y, u, op, ps)
      PROVE  RootedInv'
  <2> DEFINE list == IF op = "add" THEN custom[u] \cup ps ELSE custom[u] \ ps
  <2>1. pairs[y] # Free /\ MayHandOn(pairs[y], ps)  BY <1>8 DEF UpdateUserPermissions
  <2>2. rooted \subseteq rooted' /\ crowned' = crowned  BY <1>8 DEF UpdateUserPermissions
  <2>3. custom[u] \subseteq rooted  BY DEF RootedInv, Rooted
  <2>4. op = "add" => ps \subseteq rooted'
    BY <1>8, <2>1 DEF UpdateUserPermissions, MayHandOn, RootedInv, Rooted
  <2>5. list \subseteq rooted'  BY <2>2, <2>3, <2>4
  <2>6. ASSUME NEW v \in Writers, writes'[v] # Free  PROVE writes'[v].list \subseteq rooted'
    <3>1. writes' = [writes EXCEPT ![w] = [op |-> "write", user |-> u, list |-> list]]
      BY <1>8 DEF UpdateUserPermissions
    <3>2. CASE v = w  BY <2>5, <3>1, <3>2 DEF TypeOK
    <3>3. CASE v # w
      <4>1. writes'[v] = writes[v]  BY <3>1, <3>3 DEF TypeOK
      <4> QED  BY <2>2, <2>6, <4>1 DEF RootedInv, WritesRooted
    <3> QED  BY <3>2, <3>3
  <2>7. WritesRooted'  BY <2>6 DEF WritesRooted
  <2>8. TablesRooted'  BY <1>8, <2>2 DEF UpdateUserPermissions, RootedInv, TablesRooted, tables
  <2>9. CalcsRooted'
    BY <1>8, <2>2 DEF UpdateUserPermissions, RootedInv, CalcsRooted, CalcRooted
  <2>10. Rooted'  BY <1>8, <2>2 DEF UpdateUserPermissions, RootedInv, Rooted, tables
  <2> QED  BY <2>7, <2>8, <2>9, <2>10 DEF RootedInv
<1>9. ASSUME NEW w \in Writers, WriteList(w)  PROVE RootedInv'
  <2>1. writes[w] \in Delegations /\ writes[w] # Free  BY <1>9 DEF WriteList, TypeOK
  <2>2. custom' \in [Users -> SUBSET Perms]
    BY <1>9, <2>1 DEF WriteList, TypeOK, Delegations
  <2>3. CalcsRooted'  BY <1>9, <2>2, WitnessedRooted DEF WriteList, TypeOK, RootedInv
  <2>4. \A u \in Users : custom'[u] \subseteq rooted
    BY <1>9, <2>1 DEF WriteList, TypeOK, RootedInv, WritesRooted, Rooted
  <2>5. WritesRooted'  BY <1>9 DEF WriteList, TypeOK, RootedInv, WritesRooted
  <2>6. TablesRooted'  BY <1>9 DEF WriteList, RootedInv, TablesRooted
  <2>7. Rooted'  BY <1>9, <2>4 DEF WriteList, RootedInv, Rooted
  <2> QED  BY <2>3, <2>5, <2>6, <2>7 DEF RootedInv
<1>10. ASSUME NEW w \in Writers, FailDelegation(w)  PROVE RootedInv'
  <2>1. WritesRooted'  BY <1>10 DEF FailDelegation, TypeOK, RootedInv, WritesRooted
  <2> QED  BY <1>10, <2>1
           DEF FailDelegation, RootedInv, TablesRooted, CalcsRooted, CalcRooted, Rooted, tables
<1>11. ASSUME NEW x \in Slots, Expire(x)  PROVE RootedInv'
  <2>1. pairs[x] \in Pairs  BY <1>11 DEF Expire, TypeOK
  <2>2. ASSUME NEW z \in Slots, pairs'[z] # Free
        PROVE  /\ pairs[z] # Free /\ pairs'[z].user = pairs[z].user
               /\ pairs'[z].role = pairs[z].role /\ pairs'[z].perms = pairs[z].perms
    BY <1>11, <2>1, <2>2 DEF Expire, TypeOK, Pairs
  <2>3. Rooted'  BY <1>11, <2>2 DEF Expire, RootedInv, Rooted, tables
  <2> QED  BY <1>11, <2>3
           DEF Expire, RootedInv, TablesRooted, CalcsRooted, CalcRooted, WritesRooted, tables
<1>12. ASSUME NEW u \in Users, NEW to \in Roles, SetRole(u, to)  PROVE RootedInv'
  <2>1. crowned \subseteq crowned' /\ rooted \subseteq rooted'  BY <1>12 DEF SetRole
  <2>2. role' \in [Users -> Roles]  BY <1>12 DEF SetRole, TypeOK
  <2>3. CalcsRooted'
    BY <1>12, <2>1, <2>2, WitnessedRooted DEF SetRole, TypeOK, RootedInv
  <2>4. TablesRooted'  BY <1>12 DEF SetRole, TypeOK, RootedInv, TablesRooted
  <2>5. WritesRooted'  BY <1>12, <2>1 DEF SetRole, RootedInv, WritesRooted
  <2>6. Rooted'  BY <1>12, <2>1 DEF SetRole, RootedInv, Rooted
  <2> QED  BY <2>3, <2>4, <2>5, <2>6 DEF RootedInv
<1>13. ASSUME NEW p \in Perms, Switch(p)  PROVE RootedInv'
  <2>1. active' \subseteq Perms  BY <1>13 DEF Switch, TypeOK
  <2>2. CalcsRooted'  BY <1>13, <2>1, WitnessedRooted DEF Switch, TypeOK, RootedInv
  <2> QED  BY <1>13, <2>2 DEF Switch, RootedInv, TablesRooted, WritesRooted, Rooted
<1>14. CASE UNCHANGED vars
  BY <1>14 DEF vars, tables, RootedInv, TablesRooted, CalcsRooted, CalcRooted, WritesRooted,
               Rooted
<1> QED
  BY <1>1, <1>2, <1>3, <1>4, <1>5, <1>6, <1>7, <1>8, <1>9, <1>10, <1>11, <1>12, <1>13, <1>14,
     DelegationAssumption DEF Next, Ask, Calculate, Delegate, Write

\* No chain of delegations, stale tokens and refreshes makes authority out of nothing
\* (MayHandOn in UpdateUserPermissions, and the three queries behind the claims).
THEOREM AuthorityHasARoot == Spec => []Rooted
<1>1. Init => TypeOK  BY TypeInit
<1>2. RootedInv => Rooted  BY DEF RootedInv
<1> QED  BY <1>1, <1>2, TypeStep, RootedInit, RootedStep, PTL DEF Spec

-----------------------------------------------------------------------------
(* Three queries without a snapshot.                                       *)

\* A calculation begins with what is effective.
LEMMA BeginFair ==
  ASSUME TypeOK, CalcsFair, NEW r \in Readers, NEW op, NEW x, NEW u \in Users,
         NEW claimed, NEW spare, Begin(r, op, x, u, claimed, spare)
  PROVE  CalcsFair'
<1>1. Effective' = Effective /\ active' = active  BY DEF Begin, tables, Effective
<1>2. CalcFair(calcs[r])'
  <2>1. /\ calcs'[r].user = u /\ calcs'[r].stage = "row"
        /\ calcs'[r].ever = Effective[u] /\ calcs'[r].always = Effective[u]
    BY DEF Begin, TypeOK
  <2> QED  BY <1>1, <2>1 DEF CalcFair
<1>3. ASSUME NEW q \in Readers, q # r, calcs'[q] # Free  PROVE CalcFair(calcs[q])'
  <2>1. calcs'[q] = calcs[q]  BY <1>3 DEF Begin, TypeOK
  <2> QED  BY <1>1, <1>3, <2>1 DEF CalcsFair, CalcFair, Entitled
<1> QED  BY <1>2, <1>3 DEF CalcsFair

\* One that ends, or any other step that leaves the tables and the other calculations.
LEMMA OthersFair ==
  ASSUME TypeOK, CalcsFair, UNCHANGED tables,
         \A q \in Readers : calcs'[q] = calcs[q] \/ calcs'[q] = Free
  PROVE  CalcsFair'
<1>1. Effective' = Effective /\ active' = active  BY DEF tables, Effective
<1> QED  BY <1>1 DEF CalcsFair, CalcFair, Entitled

\* Changing tables are noted.
LEMMA WitnessedFair ==
  ASSUME TypeOK, CalcsFair, role' \in [Users -> Roles], custom' \in [Users -> SUBSET Perms],
         active' \subseteq Perms, calcs' = Witnessed
  PROVE  CalcsFair'
<1> SUFFICES ASSUME NEW r \in Readers, calcs'[r] # Free PROVE CalcFair(calcs[r])'
  BY DEF CalcsFair
<1> DEFINE now == Effective'[calcs[r].user]
<1>1. calcs[r] \in Calculations /\ CalcFair(calcs[r])
  BY WitnessedType DEF CalcsFair, TypeOK
<1>2. calcs[r] # Free  BY WitnessedType
<1>3. /\ calcs'[r].user = calcs[r].user /\ calcs'[r].row = calcs[r].row
      /\ calcs'[r].stage = calcs[r].stage /\ calcs'[r].dict = calcs[r].dict
      /\ calcs'[r].ever = IF active' = active THEN calcs[r].ever \cup now ELSE Perms
      /\ calcs'[r].always = calcs[r].always \cap now
  BY <1>2, WitnessedType
<1>4. now \subseteq Perms  BY <1>1 DEF Calculations, Effective
<1>5. calcs[r].dict \subseteq Perms  BY <1>1 DEF Calculations
<1>6. CASE active' = active  BY <1>1, <1>3, <1>6 DEF CalcFair, Entitled
<1>7. CASE active' # active  BY <1>1, <1>3, <1>4, <1>5, <1>7 DEF CalcFair, Entitled
<1> QED  BY <1>6, <1>7

LEMMA FairInit == Init => CalcsFair
  BY DEF Init, CalcsFair

LEMMA FairStep == TypeOK /\ CalcsFair /\ [Next]_vars => CalcsFair'
<1> SUFFICES ASSUME TypeOK, CalcsFair, [Next]_vars PROVE CalcsFair'  OBVIOUS
<1>1. ASSUME NEW r \in Readers, NEW x \in Slots, NEW u \in Users, Login(r, x, u) \/ Show(r, x, u)
      PROVE  CalcsFair'
  BY <1>1, BeginFair DEF Login, Show
<1>2. ASSUME NEW r \in Readers, NEW y \in Slots, NEW x \in Slots, Refresh(r, y, x)
      PROVE  CalcsFair'
  <2>1. pairs[y] \in Pairs  BY <1>2 DEF Refresh, TypeOK
  <2>2. pairs[y].user \in Users  BY <2>1 DEF Pairs
  <2> QED  BY <1>2, <2>2, BeginFair DEF Refresh
<1>3. ASSUME NEW r \in Readers, ReadRow(r)  PROVE CalcsFair'
  <2>1. calcs[r] # Free /\ calcs[r] \in Calculations  BY <1>3 DEF ReadRow, At, TypeOK
  <2>2. Effective' = Effective /\ active' = active  BY <1>3 DEF ReadRow, tables, Effective
  <2>3. /\ calcs'[r].user = calcs[r].user /\ calcs'[r].stage = "dictionary"
        /\ calcs'[r].row = [role |-> role[calcs[r].user], custom |-> custom[calcs[r].user]]
        /\ calcs'[r].ever = calcs[r].ever /\ calcs'[r].always = calcs[r].always
    BY <1>3, <2>1 DEF ReadRow, TypeOK, Calculations
  <2>4. calcs[r].user \in Users  BY <2>1 DEF Calculations
  <2>5. Effective[calcs[r].user] = active \cap Entitled(calcs'[r].row)
    BY <2>3, <2>4 DEF Effective, Entitled
  <2>6. CalcFair(calcs[r])  BY <2>1 DEF CalcsFair
  <2>7. CalcFair(calcs[r])'  BY <2>2, <2>3, <2>5, <2>6 DEF CalcFair, Entitled
  <2>8. ASSUME NEW q \in Readers, q # r, calcs'[q] # Free  PROVE CalcFair(calcs[q])'
    <3>1. calcs'[q] = calcs[q]  BY <1>3, <2>8 DEF ReadRow, TypeOK
    <3> QED  BY <2>2, <2>8, <3>1 DEF CalcsFair, CalcFair, Entitled
  <2> QED  BY <2>7, <2>8 DEF CalcsFair
<1>4. ASSUME NEW r \in Readers, ReadDictionary(r)  PROVE CalcsFair'
  <2>1. calcs[r] # Free /\ calcs[r] \in Calculations /\ calcs[r].stage = "dictionary"
    BY <1>4 DEF ReadDictionary, At, TypeOK
  <2>2. Effective' = Effective /\ active' = active
    BY <1>4 DEF ReadDictionary, tables, Effective
  <2>3. /\ calcs'[r].user = calcs[r].user /\ calcs'[r].stage = "role"
        /\ calcs'[r].row = calcs[r].row /\ calcs'[r].dict = active
        /\ calcs'[r].ever = calcs[r].ever /\ calcs'[r].always = calcs[r].always
    BY <1>4, <2>1 DEF ReadDictionary, TypeOK, Calculations
  <2>4. calcs[r].user \in Users  BY <2>1 DEF Calculations
  <2>5. Effective[calcs[r].user] \subseteq active  BY <2>4 DEF Effective
  <2>6. CalcFair(calcs[r])  BY <2>1 DEF CalcsFair
  <2>7. CalcFair(calcs[r])'  BY <2>1, <2>2, <2>3, <2>5, <2>6 DEF CalcFair, Entitled
  <2>8. ASSUME NEW q \in Readers, q # r, calcs'[q] # Free  PROVE CalcFair(calcs[q])'
    <3>1. calcs'[q] = calcs[q]  BY <1>4, <2>8 DEF ReadDictionary, TypeOK
    <3> QED  BY <2>2, <2>8, <3>1 DEF CalcsFair, CalcFair, Entitled
  <2> QED  BY <2>7, <2>8 DEF CalcsFair
<1>5. ASSUME NEW r \in Readers, ReadRole(r) \/ FailRead(r)  PROVE CalcsFair'
  <2>1. /\ UNCHANGED tables
        /\ \A q \in Readers : calcs'[q] = calcs[q] \/ calcs'[q] = Free
    BY <1>5 DEF ReadRole, FailRead, Finish, TypeOK
  <2> QED  BY <2>1, OthersFair
<1>6. ASSUME NEW w \in Writers, NEW y \in Slots, NEW u \in Users, NEW op \in {"add", "remove"},
             NEW ps \in SUBSET Perms, UpdateUserPermissions(w, y, u, op, ps)
      PROVE  CalcsFair'
  BY <1>6, OthersFair DEF UpdateUserPermissions
<1>7. ASSUME NEW w \in Writers, WriteList(w)  PROVE CalcsFair'
  <2>1. writes[w] \in Delegations  BY <1>7 DEF WriteList, TypeOK
  <2>2. custom' \in [Users -> SUBSET Perms]
    BY <1>7, <2>1 DEF WriteList, TypeOK, Delegations
  <2> QED  BY <1>7, <2>2, WitnessedFair DEF WriteList, TypeOK
<1>8. ASSUME NEW w \in Writers, FailDelegation(w)  PROVE CalcsFair'
  BY <1>8, OthersFair DEF FailDelegation
<1>9. ASSUME NEW x \in Slots, Expire(x)  PROVE CalcsFair'
  BY <1>9, OthersFair DEF Expire
<1>10. ASSUME NEW u \in Users, NEW to \in Roles, SetRole(u, to)  PROVE CalcsFair'
  <2>1. role' \in [Users -> Roles]  BY <1>10 DEF SetRole, TypeOK
  <2> QED  BY <1>10, <2>1, WitnessedFair DEF SetRole, TypeOK
<1>11. ASSUME NEW p \in Perms, Switch(p)  PROVE CalcsFair'
  <2>1. active' \subseteq Perms  BY <1>11 DEF Switch, TypeOK
  <2> QED  BY <1>11, <2>1, WitnessedFair DEF Switch, TypeOK
<1>12. CASE UNCHANGED vars  BY <1>12, OthersFair DEF vars
<1> QED
  BY <1>1, <1>2, <1>3, <1>4, <1>5, <1>6, <1>7, <1>8, <1>9, <1>10, <1>11, <1>12,
     DelegationAssumption DEF Next, Ask, Calculate, Delegate, Write

\* When the third query has been made, what was read makes a fair answer.
LEMMA FairAnswers == TypeOK /\ CalcsFair => CalculatedFairly
<1> SUFFICES ASSUME TypeOK, CalcsFair, NEW r \in Readers, At(r, "role")
             PROVE  calcs[r].always \subseteq Found(r) /\ Found(r) \subseteq calcs[r].ever
  BY DEF CalculatedFairly
<1>1. calcs[r] \in Calculations /\ CalcFair(calcs[r])  BY DEF At, TypeOK, CalcsFair
<1>2. calcs[r].user \in Users  BY <1>1 DEF Calculations
<1>3. Effective[calcs[r].user] \subseteq active  BY <1>2 DEF Effective
<1>4. calcs[r].stage = "role"  BY DEF At
<1> QED  BY <1>1, <1>3, <1>4 DEF CalcFair, Entitled, Found, Names, Calculations

\* GetUserPermissions misses no permission that was effective throughout, and makes none up,
\* without a transaction around its queries.
THEOREM FairWithoutSnapshot == Spec => []CalculatedFairly
<1>1. Init => TypeOK  BY TypeInit
<1> QED  BY <1>1, TypeStep, FairInit, FairStep, FairAnswers, PTL DEF Spec

-----------------------------------------------------------------------------
(* Permissions taken away.  A permission that is no longer effective goes   *)
(* from the tokens of an account as they run out; what could bring it back  *)
(* is a refresh that keeps the claims of an older token.                    *)

\* The calculation cannot come to an answer that has p.
WithoutPerm(c, p) ==
  /\ p \notin c.spare
  /\ c.stage = "dictionary" => p \notin active \cap Entitled(c.row)
  /\ c.stage = "role" => p \notin c.dict \cap Entitled(c.row)

\* No token of u has p, and none that is being made will.
Gone(u, p) ==
  /\ \A x \in Slots : pairs[x] # Free /\ pairs[x].user = u => p \notin pairs[x].perms
  /\ \A r \in Readers : calcs[r] # Free /\ calcs[r].user = u => WithoutPerm(calcs[r], p)

\* What the row entitles to is effective when the dictionary has it.
LEMMA EntitledNow ==
  ASSUME TypeOK, NEW u \in Users
  PROVE  Effective[u] = active \cap Entitled([role |-> role[u], custom |-> custom[u]])
BY DEF Effective, Entitled, TypeOK

\* What is found is what the dictionary, as read, has of what the row, as read, entitles to.
LEMMA FoundEntitled ==
  ASSUME NEW r \in Readers
  PROVE  Found(r) \subseteq calcs[r].dict \cap Entitled(calcs[r].row)
BY DEF Found, Names, Entitled

\* A calculation begins without p when the claims it starts from have none.
LEMMA BeginGone ==
  ASSUME TypeOK, NEW u \in Users, NEW p, Gone(u, p),
         NEW r \in Readers, NEW op, NEW x, NEW v, NEW claimed, NEW spare,
         Begin(r, op, x, v, claimed, spare), v = u => p \notin spare,
         \A y \in Slots : pairs'[y] # Free =>
           pairs[y] # Free /\ pairs'[y].user = pairs[y].user /\ pairs'[y].perms = pairs[y].perms
  PROVE  Gone(u, p)'
<1>1. /\ calcs'[r].stage = "row" /\ calcs'[r].user = v /\ calcs'[r].spare = spare
      /\ \A q \in Readers \ {r} : calcs'[q] = calcs[q]
  BY DEF Begin, TypeOK
<1>2. active' = active
  BY DEF Begin, tables
<1>3. ASSUME NEW y \in Slots, pairs'[y] # Free, pairs'[y].user = u
      PROVE  p \notin pairs'[y].perms
  BY <1>3 DEF Gone
<1>4. ASSUME NEW q \in Readers, calcs'[q] # Free, calcs'[q].user = u
      PROVE  WithoutPerm(calcs[q], p)'
  <2>1. CASE q = r
    BY <1>1, <1>4, <2>1 DEF WithoutPerm
  <2>2. CASE q # r
    <3>1. calcs'[q] = calcs[q]  BY <1>1, <2>2
    <3>2. WithoutPerm(calcs[q], p)  BY <1>4, <3>1 DEF Gone
    <3> QED  BY <1>2, <3>1, <3>2 DEF WithoutPerm, Entitled
  <2> QED  BY <2>1, <2>2
<1> QED  BY <1>3, <1>4 DEF Gone

\* A calculation that goes on without p, and one that ends without it.
LEMMA ReadGone ==
  ASSUME TypeOK, NEW u \in Users, NEW p, Gone(u, p), NEW r \in Readers, NEW c,
         calcs' = [calcs EXCEPT ![r] = c], UNCHANGED <<active, pairs>>,
         c.user = u => WithoutPerm(c, p)
  PROVE  Gone(u, p)'
<1>1. calcs'[r] = c /\ \A q \in Readers \ {r} : calcs'[q] = calcs[q]
  BY DEF TypeOK
<1> QED  BY <1>1 DEF Gone, WithoutPerm

LEMMA FinishGone ==
  ASSUME TypeOK, NEW u \in Users, NEW p, Gone(u, p), NEW r \in Readers, calcs[r] # Free,
         NEW names, Finish(r, names), calcs[r].user = u => p \notin names
  PROVE  Gone(u, p)'
<1> DEFINE t == [user |-> calcs[r].user, role |-> calcs[r].role, perms |-> names,
                 access |-> TRUE, refresh |-> TRUE]
<1>1. \A x \in Slots : pairs'[x] = pairs[x] \/ pairs'[x] = t
  BY DEF Finish, TypeOK
<1>2. \A q \in Readers : calcs'[q] # Free => calcs'[q] = calcs[q]
  BY DEF Finish, TypeOK
<1>3. t.user = u => p \notin t.perms
  OBVIOUS
<1>4. active' = active
  BY DEF Finish, tables
<1> HIDE DEF t
<1> QED  BY <1>1, <1>2, <1>3, <1>4 DEF Gone, WithoutPerm

\* Changes of roles and rows make no difference to what was read before.
LEMMA WitnessedGone ==
  ASSUME TypeOK, role' \in [Users -> Roles], custom' \in [Users -> SUBSET Perms],
         active' = active, calcs' = Witnessed, pairs' = pairs,
         NEW u \in Users, NEW p, Gone(u, p)
  PROVE  Gone(u, p)'
<1>1. active' \subseteq Perms
  BY DEF TypeOK
<1>2. \A r \in Readers : calcs'[r] # Free =>
        /\ calcs[r] # Free
        /\ calcs'[r].user = calcs[r].user /\ calcs'[r].row = calcs[r].row
        /\ calcs'[r].spare = calcs[r].spare /\ calcs'[r].stage = calcs[r].stage
        /\ calcs'[r].dict = calcs[r].dict
  BY <1>1, WitnessedType
<1> QED  BY <1>2 DEF Gone, WithoutPerm

StaysGone ==
  \A u \in Users, p \in Perms :
    Gone(u, p) /\ p \notin Effective[u] /\ active' = active => Gone(u, p)'

LEMMA GoneStep == TypeOK /\ [Next]_vars => StaysGone
<1> SUFFICES ASSUME TypeOK, [Next]_vars, NEW u \in Users, NEW p \in Perms,
                    Gone(u, p), p \notin Effective[u], active' = active
             PROVE  Gone(u, p)'
  BY DEF StaysGone
<1>1. ASSUME NEW r \in Readers, NEW x \in Slots, NEW v \in Users, Login(r, x, v) \/ Show(r, x, v)
      PROVE  Gone(u, p)'
  <2>1. PICK op : Begin(r, op, x, v, role[v], {}) /\ pairs' = pairs
    BY <1>1 DEF Login, Show
  <2> QED  BY <2>1, BeginGone
<1>2. ASSUME NEW r \in Readers, NEW y \in Slots, NEW x \in Slots, Refresh(r, y, x)
      PROVE  Gone(u, p)'
  <2>1. pairs[y] \in Pairs /\ pairs[y] # Free
    BY <1>2 DEF Refresh, TypeOK
  <2>2. \A z \in Slots : pairs'[z] # Free =>
          pairs[z] # Free /\ pairs'[z].user = pairs[z].user /\ pairs'[z].perms = pairs[z].perms
    BY <1>2, <2>1 DEF Refresh, TypeOK, Pairs
  <2>3. pairs[y].user = u => p \notin pairs[y].perms
    BY <2>1 DEF Gone
  <2>4. Begin(r, "refresh", x, pairs[y].user, pairs[y].role, pairs[y].perms)
    BY <1>2 DEF Refresh
  <2> QED  BY <2>2, <2>3, <2>4, BeginGone
<1>3. ASSUME NEW r \in Readers, ReadRow(r)  PROVE Gone(u, p)'
  <2> DEFINE row == [role |-> role[calcs[r].user], custom |-> custom[calcs[r].user]]
             c == [calcs[r] EXCEPT !.stage = "dictionary", !.row = row]
  <2>1. calcs[r] \in Calculations /\ calcs[r] # Free
    BY <1>3 DEF ReadRow, At, TypeOK
  <2>2. c.user = calcs[r].user /\ c.spare = calcs[r].spare /\ c.stage = "dictionary" /\ c.row = row
    BY <2>1 DEF Calculations
  <2>3. c.user = u => p \notin active \cap Entitled(row)
    BY <2>2, EntitledNow
  <2>4. c.user = u => WithoutPerm(c, p)
    BY <2>1, <2>2, <2>3 DEF Gone, WithoutPerm
  <2>5. calcs' = [calcs EXCEPT ![r] = c] /\ UNCHANGED <<active, pairs>>
    BY <1>3 DEF ReadRow, tables
  <2> HIDE DEF c
  <2> QED  BY <2>4, <2>5, ReadGone
<1>4. ASSUME NEW r \in Readers, ReadDictionary(r)  PROVE Gone(u, p)'
  <2> DEFINE c == [calcs[r] EXCEPT !.stage = "role", !.dict = active]
  <2>1. calcs[r] \in Calculations /\ calcs[r] # Free /\ calcs[r].stage = "dictionary"
    BY <1>4 DEF ReadDictionary, At, TypeOK
  <2>2. /\ c.user = calcs[r].user /\ c.spare = calcs[r].spare /\ c.stage = "role"
        /\ c.row = calcs[r].row /\ c.dict = active
    BY <2>1 DEF Calculations
  <2>3. c.user = u => WithoutPerm(c, p)
    BY <2>1, <2>2 DEF Gone, WithoutPerm
  <2>4. calcs' = [calcs EXCEPT ![r] = c] /\ UNCHANGED <<active, pairs>>
    BY <1>4 DEF ReadDictionary, tables
  <2> HIDE DEF c
  <2> QED  BY <2>3, <2>4, ReadGone
<1>5. ASSUME NEW r \in Readers, ReadRole(r)  PROVE Gone(u, p)'
  <2>1. calcs[r] # Free /\ calcs[r].stage = "role" /\ Finish(r, Found(r))
    BY <1>5 DEF ReadRole, At
  <2>2. calcs[r].user = u => p \notin Found(r)
    BY <2>1, FoundEntitled DEF Gone, WithoutPerm
  <2> QED  BY <2>1, <2>2, FinishGone
<1>6. ASSUME NEW r \in Readers, FailRead(r)  PROVE Gone(u, p)'
  <2>1. calcs[r] # Free /\ Finish(r, calcs[r].spare)
    BY <1>6 DEF FailRead
  <2>2. calcs[r].user = u => p \notin calcs[r].spare
    BY <2>1 DEF Gone, WithoutPerm
  <2> QED  BY <2>1, <2>2, FinishGone
<1>7. ASSUME NEW x \in Slots, Expire(x)  PROVE Gone(u, p)'
  <2>1. pairs[x] \in Pairs
    BY <1>7 DEF Expire, TypeOK
  <2>2. \A z \in Slots : pairs'[z] # Free =>
          pairs[z] # Free /\ pairs'[z].user = pairs[z].user /\ pairs'[z].perms = pairs[z].perms
    BY <1>7, <2>1 DEF Expire, TypeOK, Pairs
  <2> QED  BY <1>7, <2>2 DEF Expire, tables, Gone, WithoutPerm
<1>8. ASSUME NEW v \in Users, NEW to \in Roles, SetRole(v, to)  PROVE Gone(u, p)'
  <2>1. role' \in [Users -> Roles] /\ custom' \in [Users -> SUBSET Perms]
    BY <1>8 DEF SetRole, TypeOK
  <2> QED  BY <1>8, <2>1, WitnessedGone DEF SetRole
<1>9. ASSUME NEW w \in Writers, WriteList(w)  PROVE Gone(u, p)'
  <2>1. writes[w] \in Delegations
    BY <1>9 DEF WriteList, TypeOK
  <2>2. role' \in [Users -> Roles] /\ custom' \in [Users -> SUBSET Perms]
    BY <1>9, <2>1 DEF WriteList, TypeOK, Delegations
  <2> QED  BY <1>9, <2>2, WitnessedGone DEF WriteList
<1>10. ASSUME pairs' = pairs, calcs' = calcs  PROVE Gone(u, p)'
  BY <1>10 DEF Gone, WithoutPerm
<1>11. ASSUME NEW q \in Perms, Switch(q)  PROVE FALSE
  BY <1>11 DEF Switch
<1>12. ASSUME NEW w \in Writers, Delegate(w) \/ FailDelegation(w)  PROVE Gone(u, p)'
  BY <1>10, <1>12 DEF Delegate, UpdateUserPermissions, FailDelegation
<1>13. CASE UNCHANGED vars
  BY <1>10, <1>13 DEF vars
<1> QED
  BY <1>1, <1>2, <1>3, <1>4, <1>5, <1>6, <1>7, <1>8, <1>9, <1>11, <1>12, <1>13,
     DelegationAssumption DEF Next, Ask, Calculate, Write

\* A permission that is not effective for an account, and that no token of it has or is about
\* to get, comes into none of its tokens, by no refresh, failing query or delegation, unless
\* the dictionary is changed: what TakenAwayInTheEnd needs besides tokens running out.
THEOREM GoneForGood == Spec => [][StaysGone]_vars
<1>1. TypeOK /\ [Next]_vars => [StaysGone]_vars
  BY GoneStep
<1> QED  BY <1>1, TypeInit, TypeStep, PTL DEF Spec
=============================================================================
