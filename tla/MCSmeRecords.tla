---------------------------- MODULE MCSmeRecords ----------------------------
(* SmeRecords with one record, two requests at a time and four secrets, for *)
(* TLC.  Of the columns, the name stands for the required ones and the     *)
(* email for the optional ones.                                            *)
EXTENDS SmeRecords, TLC

CONSTANTS i1, r1, r2, blank, garbled

OneId == {i1}
TwoRequests == {r1, r2}
NameAndEmail == {"name", "email"}
JustEmail == {"email"}

\* A name, one that is nothing but tags, an email with an apostrophe, the same with the
\* apostrophe escaped and without a capital, another nobody has,
\* and blanks.
SomeTexts ==
  {"name", "tags", "O'Neil@x", "O&#39;Neil@x", "o&#39;neil@x", "ann@x", " ", blank, garbled}
TypedTexts == [c \in NameAndEmail |->
  IF c = "name" THEN {"name", "tags"} ELSE {"O'Neil@x", " "}]
ValidTexts == [c \in NameAndEmail |->
  IF c = "name" THEN {"name", "tags", garbled} ELSE {"O'Neil@x"}]
Bluemonday == [t \in SomeTexts |->
  CASE t = "tags" -> blank [] t = "O'Neil@x" -> "O&#39;Neil@x" [] OTHER -> t]
TrimmedLower == [t \in SomeTexts |->
  CASE t = " " -> blank [] t = "O&#39;Neil@x" -> "o&#39;neil@x" [] OTHER -> t]

TwoStatuses == {"ACTIVE", "INACTIVE"}

\* The second begins with the bytes of the first; the last has a length AES does not know.
SomeSecrets == {"a32", "a64", "b16", "c20"}
SecretLength == [s \in SomeSecrets |->
  CASE s = "a32" -> 32 [] s = "a64" -> 64 [] s = "b16" -> 16 [] s = "c20" -> 20]
SecretHead == [s \in SomeSecrets |->
  CASE s \in {"a32", "a64"} -> "a" [] s = "b16" -> "b" [] s = "c20" -> "c"]
TwoIndexKeys == {"x", "y"}

Symmetry == Permutations(Requests)
=============================================================================
