----------------------------- MODULE LeadMerge -----------------------------
(***************************************************************************)
(* How an imported workbook becomes leads (services/lead_importer.py): the *)
(* rows are read, and the union-find of merge_records puts rows of the     *)
(* same company into one group, first by telephone number and e-mail       *)
(* address and then by name.                                               *)
(*                                                                         *)
(* Abstracted: normalisation, after which a telephone number is valid or   *)
(* missing; e-mail addresses that are not valid and name keys of less than *)
(* three characters count as missing, as they do in the code; what a group *)
(* is reduced to, of which the model keeps what its key can be.            *)
(***************************************************************************)
EXTENDS Naturals, Sequences

CONSTANTS
  Phones, Emails, Names,
  Blank,
  MaxRows     \* bound: rows of the workbook

ASSUME MergeAssumption == MaxRows \in Nat /\ Blank \notin Phones \cup Emails \cup Names

VARIABLES
  sheet,   \* the records
  group,   \* find: the root of each record
  first,   \* phone_first, email_first, name_first: the first record of each value, 0: none
  phase,
  at       \* the record the loop has come to

mergeVars == <<sheet, group, first, phase, at>>

Fields == {"phone", "email", "name"}
Values == Phones \cup Emails \cup Names
SheetRow == [phone : Phones \cup {Blank}, email : Emails \cup {Blank}, name : Names \cup {Blank}]

SheetRows == 1..Len(sheet)

MergeTypeOK ==
  /\ sheet \in Seq(SheetRow) /\ first \in [Fields -> [Values -> 0..Len(sheet)]]
  /\ phase \in {"read", "exact", "names", "done"} /\ at \in 1..(Len(sheet) + 1)
  /\ phase # "read" => group \in [SheetRows -> SheetRows]

MergeInit ==
  /\ sheet = << >> /\ group = << >> /\ first = [f \in Fields |-> [v \in Values |-> 0]]
  /\ phase = "read" /\ at = 1

\* extract_records: the next row of a worksheet.
ReadRow(r) ==
  /\ phase = "read" /\ Len(sheet) < MaxRows
  /\ sheet' = Append(sheet, r) /\ UNCHANGED <<group, first, phase, at>>

RowsRead ==
  /\ phase = "read" /\ phase' = "exact"
  /\ group' = [i \in SheetRows |-> i] /\ UNCHANGED <<sheet, first, at>>

\* union: the root of the second record's group gets the first one's root.
Relink(g, i, j) == [g EXCEPT ![j] = g[i]]  \* mutant: the record alone is relinked
Union(g, i, j) == [k \in DOMAIN g |-> IF g[k] = g[j] THEN g[i] ELSE g[k]]

\* The first record with the value of record i, 0 when there is none or no value.
FirstOf(field, i) == IF sheet[i][field] = Blank THEN 0 ELSE first[field][sheet[i][field]]
Grouped(g, field, i) == IF FirstOf(field, i) = 0 THEN g ELSE Union(g, i, FirstOf(field, i))
Noted(field, i) ==
  IF FirstOf(field, i) = 0 /\ sheet[i][field] # Blank
  THEN [first[field] EXCEPT ![sheet[i][field]] = i] ELSE first[field]

\* The first loop.
MatchExact ==
  /\ phase = "exact" /\ at <= Len(sheet)
  /\ group' = Grouped(Grouped(group, "phone", at), "email", at)
  /\ first' = [first EXCEPT !["phone"] = Noted("phone", at), !["email"] = Noted("email", at)]
  /\ at' = at + 1 /\ UNCHANGED <<sheet, phase>>

ExactMatched ==
  /\ phase = "exact" /\ at > Len(sheet)
  /\ phase' = "names" /\ at' = 1 /\ UNCHANGED <<sheet, group, first>>

NameAlone(i, j) == TRUE  \* mutant: a name is enough
Numberless(i) == sheet[i]["phone"] = Blank
NameSuffices(i, j) == Numberless(i) \/ Numberless(j)

\* The second loop.
MatchName ==
  /\ phase = "names" /\ at <= Len(sheet)
  /\ group' = IF FirstOf("name", at) # 0 /\ NameSuffices(at, FirstOf("name", at))
              THEN Grouped(group, "name", at) ELSE group
  /\ first' = [first EXCEPT !["name"] = Noted("name", at)]
  /\ at' = at + 1 /\ UNCHANGED <<sheet, phase>>

NamesMatched ==
  /\ phase = "names" /\ at > Len(sheet)
  /\ phase' = "done" /\ UNCHANGED <<sheet, group, first, at>>

MergeNext ==
  \/ \E r \in SheetRow : ReadRow(r)
  \/ RowsRead \/ MatchExact \/ ExactMatched \/ MatchName \/ NamesMatched

MergeSpec == MergeInit /\ [][MergeNext]_mergeVars

-----------------------------------------------------------------------------
Bears(j, field, i) == sheet[i][field] # Blank /\ sheet[j][field] = sheet[i][field]
FirstBearer(j, field, i) == Bears(j, field, i) /\ \A k \in 1..(j - 1) : ~Bears(k, field, i)

\* What identifies two records with each other: a number, an address, or the name of the first
\* record of that name when one of the two has no number.
Linked(i, j) ==
  \/ Bears(j, "phone", i) \/ Bears(j, "email", i)
  \/ FirstBearer(j, "name", i) /\ (Numberless(i) \/ Numberless(j))
  \/ FirstBearer(i, "name", j) /\ (Numberless(i) \/ Numberless(j))

\* No group is larger than the links justify: what no link enters or leaves, no group does.
Separate(S) == \A i \in S, j \in SheetRows \ S : ~Linked(i, j)
GroupsAreLinked ==
  \A S \in SUBSET SheetRows : Separate(S) =>
    \A i \in S, j \in SheetRows \ S : group[i] # group[j]

\* And none smaller: linked records are one company.
LinkedAreGrouped == \A i, j \in SheetRows : Linked(i, j) => group[i] = group[j]

\* dedup_key: two leads of one import never share a key, which is the number of a record, failing
\* that an address, failing that a name (names of less than three characters excepted).
Unreachable(i) == \A k \in SheetRows :
  group[k] = group[i] => Numberless(k) /\ sheet[k]["email"] = Blank
KeysDiffer == \A i, j \in SheetRows : group[i] # group[j] =>
  /\ ~Bears(j, "phone", i) /\ ~Bears(j, "email", i)
  /\ Unreachable(i) /\ Unreachable(j) => ~Bears(j, "name", i)

\* merge_records never merges two records of different numbers for their name: only where an
\* address they share, or a record without a number, stands between.
TwoNumbersExplained == \A i, j \in SheetRows :
  group[i] = group[j] /\ ~Numberless(i) /\ ~Numberless(j) /\ ~Bears(j, "phone", i) =>
  \E k, l \in SheetRows : group[k] = group[i] /\ group[l] = group[i] /\
    (Numberless(k) \/ (Bears(l, "email", k) /\ ~Bears(l, "phone", k)))

\* merge_records: the leads of an import are the connected components of what identifies
\* records, have keys of their own and join no two numbers by name alone.
MergeSafe == phase = "done" =>
  GroupsAreLinked /\ LinkedAreGrouped /\ KeysDiffer /\ TwoNumbersExplained
=============================================================================
