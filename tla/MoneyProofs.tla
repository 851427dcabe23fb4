----------------------------- MODULE MoneyProofs -----------------------------
(***************************************************************************)
(* Proofs about the tax documents and the invoice e-mail, for any number   *)
(* of payments and clerks and any amounts.                                 *)
(*                                                                         *)
(* The numbers have no gap because a clerk that has drawn one holds the    *)
(* row of the series, which therefore still stands one below it.  Credit   *)
(* notes stay within the invoice because a clerk whose sequence number is  *)
(* still free has seen every other note of the payment.                    *)
(*                                                                         *)
(* About the founding offer, for any number of projects, orders, handlers  *)
(* and seats.  The bound on the seats is inductive once a granted seat     *)
(* counts as taken from the moment the seats were counted.                 *)
(*                                                                         *)
(* And about reminders and overage bills, for any number of recorders,     *)
(* passes, uses and windows.  A bill is for no more than what was used     *)
(* because no counter, nor what a recorder or a pass has read of one,      *)
(* exceeds the events; where recorders took turns, each equals them.       *)
(***************************************************************************)
EXTENDS Books, Founding, Collections, FiniteSetTheorems, TLAPS

Drawing == {"select", "insert", "issue"}
Posting == {"send", "release"}

\* What a clerk may rely on, of the documents.
Sound(c, r) ==
  /\ r \in Clerk
  /\ r.pc # "idle" => r.pay \in Payments
  /\ r.pc = "issue" => holder[r.kind] = c /\ r.number = series[r.kind] + 1
  /\ r.pc = "notes" => invoice[r.pay] # 0
  /\ r.pc \in Drawing /\ r.kind = "credit_note" =>
       /\ r.seq \in 1..(Len(notes[r.pay]) + 1) /\ invoice[r.pay] # 0
       /\ r.seq = Len(notes[r.pay]) + 1 => credited[r.pay] + r.amount <= Subtotal[r.pay]

DocumentTypes ==
  /\ series \in [Kinds -> Nat] /\ holder \in [Kinds -> Clerks \cup {NoClerk}]
  /\ invoice \in [Payments -> Nat] /\ notes \in [Payments -> Seq(Nat)]
  /\ credited \in [Payments -> Nat]

DocumentsInv ==
  /\ DocumentTypes /\ clerk \in [Clerks -> Clerk]
  /\ \A c \in Clerks : Sound(c, clerk[c])
  /\ InvoicesNumbered /\ NotesNumbered /\ CreditsBounded

\* A payment has at most one clerk at its letter, and has not got it while it has one.
LetterInv ==
  /\ emailed \subseteq Payments /\ unsure \subseteq Payments /\ cut \subseteq Payments
  /\ letters \in [Payments -> Nat]
  /\ \A c \in Clerks : clerk[c].pc \in Posting => clerk[c].pay \in emailed
  /\ \A c, d \in Clerks : clerk[c].pc \in Posting /\ clerk[d].pc \in Posting
                            /\ clerk[c].pay = clerk[d].pay => c = d
  /\ \A p \in Payments : \/ letters[p] = 0 \/ p \in unsure
                         \/ letters[p] = 1 /\ p \in emailed /\ ~Mailing(p)
  /\ \A p \in emailed : Mailing(p) \/ letters[p] >= 1 \/ p \in cut

OtherTypes == paid \subseteq Payments /\ errands \in Nat

-----------------------------------------------------------------------------
(* The documents.                                                          *)

LEMMA FreeClerkSound ==
  ASSUME NEW c PROVE Sound(c, FreeClerk) /\ FreeClerk \in Clerk /\ FreeClerk.pc = "idle"
BY DEF Sound, FreeClerk, Clerk, Kinds, Drawing

\* A clerk that moves and leaves the documents alone disturbs nobody.
LEMMA DeskStep ==
  ASSUME DocumentsInv, NEW c \in Clerks, NEW r, Does(c, r), Sound(c, r), UNCHANGED documents
  PROVE  DocumentsInv'
<1>1. r \in Clerk
  BY DEF Sound
<1>2. clerk' \in [Clerks -> Clerk]
  BY <1>1 DEF Does, DocumentsInv
<1>3. ASSUME NEW d \in Clerks PROVE Sound(d, clerk[d])'
  BY DEF Does, DocumentsInv, Sound, documents
<1>4. (DocumentTypes /\ InvoicesNumbered /\ NotesNumbered /\ CreditsBounded)'
  BY DEF DocumentsInv, DocumentTypes, InvoicesNumbered, NotesNumbered, CreditsBounded, documents
<1> QED BY <1>2, <1>3, <1>4 DEF DocumentsInv

LEMMA Beginning ==
  ASSUME DocumentsInv, NEW c \in Clerks, NEW p \in Payments,
         VisitInvoice(c, p) \/ ClaimLetter(c, p)
  PROVE  DocumentsInv'
<1> DEFINE s == [FreeClerk EXCEPT !.pc = "select", !.pay = p]
           l == [FreeClerk EXCEPT !.pc = "send", !.pay = p]
<1>1. /\ s \in Clerk /\ s.pc = "select" /\ s.pay = p /\ s.kind = "invoice"
      /\ l \in Clerk /\ l.pc = "send" /\ l.pay = p
  BY DEF FreeClerk, Clerk, Kinds
<1>2. UNCHANGED documents /\ (Does(c, s) \/ Does(c, l))
  BY DEF VisitInvoice, ClaimLetter
<1> HIDE DEF s, l
<1>3. Sound(c, s) /\ Sound(c, l)
  BY <1>1 DEF Sound, Drawing
<1> QED BY <1>2, <1>3, DeskStep

LEMMA AskingCredit ==
  ASSUME DocumentsInv, NEW c \in Clerks, NEW p \in Payments, NEW want \in Nat,
         AskCredit(c, p, want)
  PROVE  DocumentsInv'
<1> DEFINE pc == IF invoice[p] # 0 THEN "notes" ELSE "select"
           a == [FreeClerk EXCEPT !.pc = pc, !.pay = p, !.want = want, !.credit = TRUE]
<1>1. a \in Clerk /\ a.pc = pc /\ a.pay = p /\ a.kind = "invoice"
  BY DEF FreeClerk, Clerk, Kinds
<1>2. UNCHANGED documents /\ Does(c, a)
  BY DEF AskCredit
<1> HIDE DEF a
<1>3. Sound(c, a)
  BY <1>1 DEF Sound, Drawing
<1> QED BY <1>2, <1>3, DeskStep

LEMMA ReadingNotes ==
  ASSUME DocumentsInv, NEW c \in Clerks, ReadNotes(c)
  PROVE  DocumentsInv'
<1> DEFINE r == clerk[c]
           left == Subtotal[r.pay] - credited[r.pay]
           amount == IF r.want = 0 THEN left ELSE r.want
           next == Len(notes[r.pay]) + 1
           n == [r EXCEPT !.pc = "select", !.kind = "credit_note", !.credit = FALSE,
                          !.seq = next, !.amount = amount]
<1>1. r \in Clerk /\ r.pay \in Payments /\ invoice[r.pay] # 0
  BY DEF DocumentsInv, Sound, ReadNotes, AtDesk
<1>2. /\ Len(notes[r.pay]) \in Nat /\ credited[r.pay] \in Nat /\ Subtotal[r.pay] \in Nat
      /\ credited[r.pay] <= Subtotal[r.pay]
  BY <1>1, BooksAssumption DEF DocumentsInv, DocumentTypes, CreditsBounded
<1>3. CASE amount \in 1..left
  <2>1. amount \in Nat /\ credited[r.pay] + amount <= Subtotal[r.pay]
    BY <1>2, <1>3
  <2>2. UNCHANGED documents /\ Does(c, n)
    BY <1>3 DEF ReadNotes
  <2>3. next \in Nat /\ r \in Clerk
    BY <1>1, <1>2
  <2> HIDE DEF amount, next, r
  <2>4. /\ n \in Clerk /\ n.pc = "select" /\ n.pay = r.pay /\ n.kind = "credit_note"
        /\ n.seq = next /\ n.amount = amount
    BY <2>1, <2>3 DEF Clerk, Kinds
  <2> HIDE DEF n
  <2>5. Sound(c, n)
    BY <1>1, <1>2, <2>1, <2>4 DEF Sound, Drawing, next
  <2> QED BY <2>2, <2>5, DeskStep
<1>4. CASE ~(amount \in 1..left)
  BY <1>4, FreeClerkSound, DeskStep DEF ReadNotes
<1> QED BY <1>3, <1>4

LEMMA DrawingNumber ==
  ASSUME DocumentsInv, NEW c \in Clerks, clerk[c].pc \in {"select", "insert"},
         Unlocked(clerk[c].kind), Draws(c), UNCHANGED <<series, invoice, notes, credited>>
  PROVE  DocumentsInv'
<1> DEFINE r == clerk[c]
           n == [r EXCEPT !.pc = "issue", !.number = series[r.kind] + 1]
<1>1. r \in Clerk /\ r.kind \in Kinds /\ Sound(c, r) /\ r.pc \in Drawing /\ r.pc # "idle"
  BY DEF DocumentsInv, Sound, Clerk, Drawing
<1>2. series[r.kind] + 1 \in Nat
  BY <1>1 DEF DocumentsInv, DocumentTypes
<1>3. /\ n \in Clerk /\ n.pc = "issue" /\ n.kind = r.kind /\ n.pay = r.pay
      /\ n.seq = r.seq /\ n.amount = r.amount /\ n.number = series[r.kind] + 1
  BY <1>1, <1>2 DEF Clerk
<1>4. holder' = [holder EXCEPT ![r.kind] = c] /\ Does(c, n)
  BY DEF Draws
<1> HIDE DEF n
<1>5. holder' \in [Kinds -> Clerks \cup {NoClerk}] /\ holder'[r.kind] = c
      /\ \A k \in Kinds : k # r.kind => holder'[k] = holder[k]
  BY <1>1, <1>4 DEF DocumentsInv, DocumentTypes
<1>6. clerk' \in [Clerks -> Clerk] /\ clerk'[c] = n /\ \A d \in Clerks \ {c} : clerk'[d] = clerk[d]
  BY <1>3, <1>4 DEF Does, DocumentsInv
<1>7. ASSUME NEW d \in Clerks PROVE Sound(d, clerk[d])'
  <2>1. CASE d = c
    <3> HIDE DEF r
    <3> QED BY <1>1, <1>3, <1>5, <1>6, <2>1 DEF Sound, Drawing
  <2>2. CASE d # c
    <3>1. clerk'[d] = clerk[d] /\ Sound(d, clerk[d]) /\ clerk[d].kind \in Kinds
      BY <1>6, <2>2 DEF DocumentsInv, Sound, Clerk
    <3>2. clerk[d].pc = "issue" => clerk[d].kind # r.kind
      BY <3>1, BooksAssumption DEF Sound, Unlocked
    <3> QED BY <1>5, <3>1, <3>2 DEF Sound
  <2> QED BY <2>1, <2>2
<1>8. (InvoicesNumbered /\ NotesNumbered /\ CreditsBounded)'
  BY DEF DocumentsInv, InvoicesNumbered, NotesNumbered, CreditsBounded
<1> QED BY <1>5, <1>6, <1>7, <1>8 DEF DocumentsInv, DocumentTypes

LEMMA Selecting ==
  ASSUME DocumentsInv, NEW c \in Clerks, SelectSeries(c)
  PROVE  DocumentsInv'
<1> DEFINE r == clerk[c]
           n == [r EXCEPT !.pc = "insert"]
<1>1. CASE series[r.kind] = 0
  <2>1. r \in Clerk /\ Sound(c, r) /\ r.pc = "select"
    BY DEF DocumentsInv, Sound, SelectSeries, AtDesk
  <2>2. /\ n \in Clerk /\ n.pc = "insert" /\ n.kind = r.kind /\ n.pay = r.pay
        /\ n.seq = r.seq /\ n.amount = r.amount
    BY <2>1 DEF Clerk
  <2>3. Does(c, n) /\ UNCHANGED documents
    BY <1>1 DEF SelectSeries, documents
  <2> HIDE DEF n
  <2>4. Sound(c, n)
    BY <2>1, <2>2 DEF Sound, Drawing
  <2> QED BY <2>3, <2>4, DeskStep
<1>2. CASE series[r.kind] # 0
  BY <1>2, DrawingNumber DEF SelectSeries, AtDesk
<1> QED BY <1>1, <1>2

LEMMA Inserting ==
  ASSUME DocumentsInv, NEW c \in Clerks, InsertSeries(c)
  PROVE  DocumentsInv'
<1>1. CASE series[clerk[c].kind] = 0
  BY <1>1, DrawingNumber DEF InsertSeries, AtDesk
<1>2. CASE series[clerk[c].kind] # 0
  BY <1>2, FreeClerkSound, DeskStep DEF InsertSeries, documents
<1> QED BY <1>1, <1>2

\* A clerk at "issue" has the row of its series for itself.
LEMMA RowHeldOnce ==
  ASSUME DocumentsInv, NEW c \in Clerks, clerk[c].pc = "issue",
         NEW d \in Clerks \ {c}, clerk[d].pc = "issue"
  PROVE  clerk[d].kind # clerk[c].kind
BY DEF DocumentsInv, Sound

\* What an issued invoice leaves behind.
LEMMA InvoiceIssued ==
  ASSUME DocumentsInv, NEW p \in Payments, invoice[p] = 0,
         series' = [series EXCEPT !["invoice"] = series["invoice"] + 1],
         invoice' = [invoice EXCEPT ![p] = series["invoice"] + 1],
         UNCHANGED <<notes, credited>>
  PROVE  /\ (InvoicesNumbered /\ NotesNumbered /\ CreditsBounded)'
         /\ series' \in [Kinds -> Nat] /\ invoice' \in [Payments -> Nat]
         /\ series'["credit_note"] = series["credit_note"]
         /\ \A q \in Payments : invoice[q] # 0 => invoice'[q] # 0
         /\ invoice'[p] # 0
<1> DEFINE n == series["invoice"]
<1>1. /\ n \in Nat /\ series' \in [Kinds -> Nat] /\ series'["invoice"] = n + 1
      /\ series'["credit_note"] = series["credit_note"]
  BY DEF DocumentsInv, DocumentTypes, Kinds
<1>2. /\ invoice' \in [Payments -> Nat] /\ invoice'[p] = n + 1
      /\ \A q \in Payments : q # p => invoice'[q] = invoice[q]
      /\ \A q \in Payments : invoice[q] \in Nat
  BY <1>1 DEF DocumentsInv, DocumentTypes
<1>3. InvoicesNumbered'
  <2>1. \A q \in Payments : invoice'[q] <= n + 1
    BY <1>1, <1>2 DEF DocumentsInv, InvoicesNumbered
  <2>2. ASSUME NEW m \in 1..(n + 1) PROVE \E q \in Payments : invoice'[q] = m
    <3>1. CASE m = n + 1
      BY <1>2, <3>1
    <3>2. CASE m # n + 1
      <4>1. m \in 1..n /\ m # 0
        BY <1>1, <3>2
      <4>2. PICK q \in Payments : invoice[q] = m
        BY <4>1 DEF DocumentsInv, InvoicesNumbered
      <4> QED BY <1>2, <4>1, <4>2
    <3> QED BY <3>1, <3>2
  <2>3. ASSUME NEW q \in Payments, NEW s \in Payments, invoice'[q] = invoice'[s]
        PROVE  q = s \/ invoice'[q] = 0
    <3>1. \A u \in Payments : invoice[u] # n + 1
      BY <1>1, <1>2 DEF DocumentsInv, InvoicesNumbered
    <3> QED BY <1>2, <2>3, <3>1 DEF DocumentsInv, InvoicesNumbered
  <2> QED BY <1>1, <2>1, <2>2, <2>3 DEF InvoicesNumbered
<1>4. (NotesNumbered /\ CreditsBounded)'
  BY <1>1, <1>2 DEF DocumentsInv, NotesNumbered, CreditsBounded
<1> QED BY <1>1, <1>2, <1>3, <1>4

\* What a credit note leaves behind that takes the next place of its payment.
LEMMA NoteIssued ==
  ASSUME DocumentsInv, NEW p \in Payments, NEW amount \in Nat,
         invoice[p] # 0, credited[p] + amount <= Subtotal[p],
         series' = [series EXCEPT !["credit_note"] = series["credit_note"] + 1],
         notes' = [notes EXCEPT ![p] = Append(notes[p], series["credit_note"] + 1)],
         credited' = [credited EXCEPT ![p] = credited[p] + amount], UNCHANGED invoice
  PROVE  /\ (InvoicesNumbered /\ NotesNumbered /\ CreditsBounded)'
         /\ series' \in [Kinds -> Nat] /\ notes' \in [Payments -> Seq(Nat)]
         /\ credited' \in [Payments -> Nat]
         /\ series'["invoice"] = series["invoice"]
         /\ Len(notes'[p]) = Len(notes[p]) + 1
         /\ \A q \in Payments : q # p => notes'[q] = notes[q] /\ credited'[q] = credited[q]
<1> DEFINE n == series["credit_note"]
<1>1. /\ n \in Nat /\ series' \in [Kinds -> Nat] /\ series'["credit_note"] = n + 1
      /\ series'["invoice"] = series["invoice"]
  BY DEF DocumentsInv, DocumentTypes, Kinds
<1>2. /\ \A q \in Payments : notes[q] \in Seq(Nat)
      /\ \A q \in Payments : q # p => notes'[q] = notes[q]
      /\ notes'[p] = Append(notes[p], n + 1) /\ notes' \in [Payments -> Seq(Nat)]
  BY <1>1 DEF DocumentsInv, DocumentTypes
<1>3. /\ Len(notes[p]) \in Nat /\ DOMAIN notes[p] = 1..Len(notes[p])
      /\ Len(notes'[p]) = Len(notes[p]) + 1 /\ DOMAIN notes'[p] = 1..(Len(notes[p]) + 1)
      /\ notes'[p][Len(notes[p]) + 1] = n + 1
      /\ \A i \in DOMAIN notes[p] : notes'[p][i] = notes[p][i]
  BY <1>1, <1>2
<1> DEFINE last == Len(notes[p]) + 1
<1>4. /\ DOMAIN notes'[p] = DOMAIN notes[p] \cup {last} /\ notes'[p][last] = n + 1
      /\ last \notin DOMAIN notes[p]
  BY <1>3
<1>5. NotesNumbered'
  <2>1. ASSUME NEW q \in Payments, NEW i \in DOMAIN notes'[q]
        PROVE  /\ notes'[q][i] \in 1..(n + 1)
               /\ notes'[q][i] = n + 1 => q = p /\ i = last
               /\ ~(q = p /\ i = last) => i \in DOMAIN notes[q] /\ notes'[q][i] = notes[q][i]
    <3>1. CASE q = p /\ i = last
      BY <1>1, <1>4, <3>1
    <3>2. CASE ~(q = p /\ i = last)
      <4>1. i \in DOMAIN notes[q] /\ notes'[q][i] = notes[q][i]
        BY <1>2, <1>3, <1>4, <3>2
      <4>2. notes[q][i] \in 1..n
        BY <4>1 DEF DocumentsInv, NotesNumbered
      <4> QED BY <1>1, <3>2, <4>1, <4>2
    <3> QED BY <3>1, <3>2
  <2>2. ASSUME NEW m \in 1..(n + 1)
        PROVE  \E q \in Payments : \E i \in DOMAIN notes'[q] : notes'[q][i] = m
    <3>1. CASE m = n + 1
      BY <1>4, <3>1
    <3>2. CASE m # n + 1
      <4>1. m \in 1..n
        BY <1>1, <3>2
      <4>2. PICK q \in Payments : \E i \in DOMAIN notes[q] : notes[q][i] = m
        BY <4>1 DEF DocumentsInv, NotesNumbered
      <4>3. PICK i \in DOMAIN notes[q] : notes[q][i] = m
        BY <4>2
      <4>4. i \in DOMAIN notes'[q] /\ notes'[q][i] = m
        BY <1>2, <1>3, <1>4, <4>3
      <4> QED BY <4>4
    <3> QED BY <3>1, <3>2
  <2>3. ASSUME NEW q \in Payments, NEW s \in Payments, NEW i \in DOMAIN notes'[q],
               NEW j \in DOMAIN notes'[s], notes'[q][i] = notes'[s][j]
        PROVE  q = s /\ i = j
    <3>1. CASE notes'[q][i] = n + 1
      BY <2>1, <2>3, <3>1
    <3>2. CASE notes'[q][i] # n + 1
      <4>1. ~(q = p /\ i = last) /\ ~(s = p /\ j = last)
        BY <1>4, <2>3, <3>2
      <4>2. /\ i \in DOMAIN notes[q] /\ j \in DOMAIN notes[s] /\ notes[q][i] = notes[s][j]
        BY <2>1, <2>3, <4>1
      <4> QED BY <4>2 DEF DocumentsInv, NotesNumbered
    <3> QED BY <3>1, <3>2
  <2> QED BY <1>1, <2>1, <2>2, <2>3 DEF NotesNumbered
<1>6. /\ credited' \in [Payments -> Nat] /\ credited'[p] = credited[p] + amount
      /\ \A q \in Payments : q # p => credited'[q] = credited[q]
  BY DEF DocumentsInv, DocumentTypes
<1>7. CreditsBounded' /\ InvoicesNumbered'
  BY <1>1, <1>6 DEF DocumentsInv, CreditsBounded, InvoicesNumbered
<1> QED BY <1>1, <1>2, <1>3, <1>5, <1>6, <1>7 DEF DocumentsInv, DocumentTypes

\* What the clerks rely on survives a document of somebody else.
LEMMA OthersSound ==
  ASSUME DocumentsInv, NEW c \in Clerks, clerk[c].pc = "issue",
         NEW d \in Clerks \ {c}, clerk'[d] = clerk[d],
         \A k \in Kinds : k # clerk[c].kind => series'[k] = series[k] /\ holder'[k] = holder[k],
         \A q \in Payments : invoice[q] # 0 => invoice'[q] # 0,
         \A q \in Payments :
           \/ Len(notes'[q]) = Len(notes[q]) /\ credited'[q] = credited[q]
           \/ Len(notes'[q]) = Len(notes[q]) + 1
  PROVE  Sound(d, clerk[d])'
<1> DEFINE r == clerk[d]
<1>1. Sound(d, r) /\ r.kind \in Kinds /\ (r.pc = "issue" => r.kind # clerk[c].kind)
  BY RowHeldOnce DEF DocumentsInv, Sound, Clerk
<1>2. r.pc \in Drawing => r.pay \in Payments /\ Len(notes[r.pay]) \in Nat
  BY <1>1 DEF Sound, Drawing, DocumentsInv, DocumentTypes
<1>3. r.pc = "notes" => r.pay \in Payments
  BY <1>1 DEF Sound
<1>4. clerk'[d] = r
  OBVIOUS
<1> HIDE DEF r
<1>5. r.pc = "issue" => holder'[r.kind] = d /\ r.number = series'[r.kind] + 1
  BY <1>1 DEF Sound
<1>6. r.pc = "notes" => invoice'[r.pay] # 0
  BY <1>1, <1>3 DEF Sound
<1>7. r.pc \in Drawing /\ r.kind = "credit_note" =>
        /\ r.seq \in 1..(Len(notes'[r.pay]) + 1) /\ invoice'[r.pay] # 0
        /\ r.seq = Len(notes'[r.pay]) + 1 => credited'[r.pay] + r.amount <= Subtotal[r.pay]
  <2> SUFFICES ASSUME r.pc \in Drawing, r.kind = "credit_note"
               PROVE  /\ r.seq \in 1..(Len(notes'[r.pay]) + 1) /\ invoice'[r.pay] # 0
                      /\ r.seq = Len(notes'[r.pay]) + 1 =>
                           credited'[r.pay] + r.amount <= Subtotal[r.pay]
    OBVIOUS
  <2>1. /\ r.pay \in Payments /\ Len(notes[r.pay]) \in Nat /\ invoice'[r.pay] # 0
        /\ r.seq \in 1..(Len(notes[r.pay]) + 1)
        /\ r.seq = Len(notes[r.pay]) + 1 => credited[r.pay] + r.amount <= Subtotal[r.pay]
    BY <1>1, <1>2 DEF Sound
  <2>2. CASE Len(notes'[r.pay]) = Len(notes[r.pay]) /\ credited'[r.pay] = credited[r.pay]
    BY <2>1, <2>2
  <2>3. CASE Len(notes'[r.pay]) = Len(notes[r.pay]) + 1
    BY <2>1, <2>3
  <2> QED BY <2>1, <2>2, <2>3
<1> QED BY <1>1, <1>4, <1>5, <1>6, <1>7 DEF Sound

LEMMA Issuing ==
  ASSUME DocumentsInv, NEW c \in Clerks, Issue(c)
  PROVE  DocumentsInv'
<1> DEFINE r == clerk[c]
           n == [r EXCEPT !.pc = "notes"]
<1>1. /\ r \in Clerk /\ r.kind \in Kinds /\ r.pay \in Payments /\ r.pc = "issue"
      /\ holder[r.kind] = c /\ r.number = series[r.kind] + 1 /\ r.amount \in Nat
      /\ r.kind = "credit_note" =>
           /\ r.seq \in 1..(Len(notes[r.pay]) + 1) /\ invoice[r.pay] # 0
           /\ r.seq = Len(notes[r.pay]) + 1 => credited[r.pay] + r.amount <= Subtotal[r.pay]
  BY DEF DocumentsInv, Sound, Clerk, Issue, AtDesk, Drawing
<1>2. n \in Clerk /\ n.pc = "notes" /\ n.pay = r.pay
  BY <1>1 DEF Clerk
<1>3. /\ holder' \in [Kinds -> Clerks \cup {NoClerk}]
      /\ \A k \in Kinds : k # r.kind => holder'[k] = holder[k]
  BY <1>1 DEF Issue, DocumentsInv, DocumentTypes
<1>4. Does(c, FreeClerk) \/ (Does(c, n) /\ ~Taken(r))
  BY DEF Issue
<1> HIDE DEF n
<1>5. /\ clerk' \in [Clerks -> Clerk] /\ (clerk'[c] = FreeClerk \/ (clerk'[c] = n /\ ~Taken(r)))
      /\ \A d \in Clerks \ {c} : clerk'[d] = clerk[d]
  BY <1>2, <1>4, FreeClerkSound DEF Does, DocumentsInv
<1> DEFINE Left == /\ (InvoicesNumbered /\ NotesNumbered /\ CreditsBounded)'
                   /\ series' \in [Kinds -> Nat] /\ invoice' \in [Payments -> Nat]
                   /\ notes' \in [Payments -> Seq(Nat)] /\ credited' \in [Payments -> Nat]
                   /\ \A k \in Kinds : k # r.kind => series'[k] = series[k]
                   /\ \A q \in Payments : invoice[q] # 0 => invoice'[q] # 0
                   /\ \A q \in Payments :
                        \/ Len(notes'[q]) = Len(notes[q]) /\ credited'[q] = credited[q]
                        \/ Len(notes'[q]) = Len(notes[q]) + 1
                   /\ Taken(r) \/ invoice'[r.pay] # 0
<1>6. Left
  <2>1. CASE Taken(r)
    <3>1. UNCHANGED <<series, invoice, notes, credited>>
      BY <2>1 DEF Issue
    <3>2. (InvoicesNumbered /\ NotesNumbered /\ CreditsBounded)'
      BY <3>1 DEF DocumentsInv, InvoicesNumbered, NotesNumbered, CreditsBounded
    <3>3. DocumentTypes
      BY DEF DocumentsInv
    <3> QED BY <2>1, <3>1, <3>2, <3>3 DEF DocumentTypes
  <2>2. CASE ~Taken(r) /\ r.kind = "invoice"
    <3>1. /\ series' = [series EXCEPT !["invoice"] = series["invoice"] + 1]
          /\ invoice' = [invoice EXCEPT ![r.pay] = series["invoice"] + 1]
          /\ UNCHANGED <<notes, credited>> /\ invoice[r.pay] = 0
      BY <1>1, <2>2 DEF Issue, Taken
    <3> HIDE DEF r
    <3>2. /\ (InvoicesNumbered /\ NotesNumbered /\ CreditsBounded)'
          /\ series' \in [Kinds -> Nat] /\ invoice' \in [Payments -> Nat]
          /\ series'["credit_note"] = series["credit_note"]
          /\ \A q \in Payments : invoice[q] # 0 => invoice'[q] # 0
          /\ invoice'[r.pay] # 0
      BY <1>1, <3>1, InvoiceIssued
    <3> QED BY <2>2, <3>1, <3>2 DEF DocumentsInv, DocumentTypes, Kinds
  <2>3. CASE ~Taken(r) /\ r.kind = "credit_note"
    <3>1. /\ series' = [series EXCEPT !["credit_note"] = series["credit_note"] + 1]
          /\ notes' = [notes EXCEPT ![r.pay] = Append(notes[r.pay], series["credit_note"] + 1)]
          /\ credited' = [credited EXCEPT ![r.pay] = credited[r.pay] + r.amount]
          /\ UNCHANGED invoice /\ r.seq \notin DOMAIN notes[r.pay]
      BY <1>1, <2>3 DEF Issue, Taken
    <3> HIDE DEF r
    <3>2. Len(notes[r.pay]) \in Nat /\ DOMAIN notes[r.pay] = 1..Len(notes[r.pay])
      BY <1>1 DEF DocumentsInv, DocumentTypes
    <3>3. invoice[r.pay] # 0 /\ credited[r.pay] + r.amount <= Subtotal[r.pay]
      BY <1>1, <2>3, <3>1, <3>2
    <3>4. /\ (InvoicesNumbered /\ NotesNumbered /\ CreditsBounded)'
          /\ series' \in [Kinds -> Nat] /\ notes' \in [Payments -> Seq(Nat)]
          /\ credited' \in [Payments -> Nat]
          /\ series'["invoice"] = series["invoice"]
          /\ Len(notes'[r.pay]) = Len(notes[r.pay]) + 1
          /\ \A q \in Payments : q # r.pay => notes'[q] = notes[q] /\ credited'[q] = credited[q]
      BY <1>1, <3>1, <3>3, NoteIssued
    <3>5. \A q \in Payments : \/ Len(notes'[q]) = Len(notes[q]) /\ credited'[q] = credited[q]
                              \/ Len(notes'[q]) = Len(notes[q]) + 1
      BY <3>4
    <3>6. invoice' \in [Payments -> Nat] /\ \A k \in Kinds : k # r.kind => series'[k] = series[k]
      BY <2>3, <3>1, <3>4 DEF DocumentsInv, DocumentTypes, Kinds
    <3> QED BY <3>1, <3>3, <3>4, <3>5, <3>6
  <2> QED BY <1>1, <2>1, <2>2, <2>3 DEF Kinds
<1>7. ASSUME NEW d \in Clerks PROVE Sound(d, clerk[d])'
  <2>1. CASE d = c
    <3>1. CASE clerk'[c] = FreeClerk
      BY <2>1, <3>1, FreeClerkSound DEF Sound, FreeClerk, Drawing
    <3>2. CASE clerk'[c] = n /\ ~Taken(r)
      <4>1. invoice'[r.pay] # 0
        BY <1>6, <3>2
      <4> QED BY <1>1, <1>2, <2>1, <3>2, <4>1 DEF Sound, Drawing
    <3> QED BY <1>5, <3>1, <3>2
  <2>2. CASE d # c
    BY <1>1, <1>3, <1>5, <1>6, <2>2, OthersSound
  <2> QED BY <2>1, <2>2
<1> QED BY <1>3, <1>5, <1>6, <1>7 DEF DocumentsInv, DocumentTypes

LEMMA PostingLetters ==
  ASSUME DocumentsInv, NEW c \in Clerks, SendLetter(c) \/ LetterFails(c) \/ ReleaseLetter(c)
  PROVE  DocumentsInv'
<1> DEFINE r == clerk[c]
           n == [r EXCEPT !.pc = "release"]
<1>1. r \in Clerk /\ r.pc \in Posting /\ r.pay \in Payments
  BY DEF DocumentsInv, Sound, SendLetter, LetterFails, ReleaseLetter, AtDesk, Posting
<1>2. n \in Clerk /\ n.pc = "release" /\ n.pay = r.pay
  BY <1>1 DEF Clerk
<1>3. UNCHANGED documents /\ (Does(c, n) \/ Does(c, FreeClerk))
  BY DEF SendLetter, LetterFails, ReleaseLetter
<1> HIDE DEF n
<1>4. Sound(c, n)
  BY <1>1, <1>2 DEF Sound, Drawing
<1> QED BY <1>3, <1>4, FreeClerkSound, DeskStep

LEMMA RestartingDesk ==
  ASSUME DocumentsInv, BooksRestart
  PROVE  DocumentsInv'
<1>1. \A d \in Clerks : Sound(d, clerk[d])'
  BY FreeClerkSound DEF BooksRestart, Sound, FreeClerk, Drawing
<1>2. clerk' \in [Clerks -> Clerk] /\ DocumentTypes'
  BY FreeClerkSound DEF BooksRestart, DocumentsInv, DocumentTypes
<1>3. (InvoicesNumbered /\ NotesNumbered /\ CreditsBounded)'
  BY DEF BooksRestart, DocumentsInv, InvoicesNumbered, NotesNumbered, CreditsBounded
<1> QED BY <1>1, <1>2, <1>3 DEF DocumentsInv

LEMMA DocumentsKept == DocumentsInv /\ [BooksNext]_booksVars => DocumentsInv'
<1> SUFFICES ASSUME DocumentsInv, [BooksNext]_booksVars PROVE DocumentsInv'
  OBVIOUS
<1>1. ASSUME NEW p \in Payments, Settle(p) PROVE DocumentsInv'
  BY <1>1 DEF Settle, documents, DocumentsInv, DocumentTypes, Sound, InvoicesNumbered,
     NotesNumbered, CreditsBounded
<1>2. CASE UNCHANGED booksVars
  BY <1>2 DEF booksVars, DocumentsInv, DocumentTypes, Sound, InvoicesNumbered, NotesNumbered,
     CreditsBounded
<1>3. ASSUME NEW c \in Clerks, NEW p \in Payments, NEW want \in 0..Subtotal[p],
             AskCredit(c, p, want)
      PROVE  DocumentsInv'
  <2>1. want \in Nat
    BY BooksAssumption
  <2> QED BY <1>3, <2>1, AskingCredit
<1>4. ASSUME NEW c \in Clerks, NEW p \in Payments, VisitInvoice(c, p) \/ ClaimLetter(c, p)
      PROVE  DocumentsInv'
  BY <1>4, Beginning
<1>5. ASSUME NEW c \in Clerks,
             \/ ReadNotes(c) \/ SelectSeries(c) \/ InsertSeries(c) \/ Issue(c)
             \/ SendLetter(c) \/ LetterFails(c) \/ ReleaseLetter(c)
      PROVE  DocumentsInv'
  BY <1>5, ReadingNotes, Selecting, Inserting, Issuing, PostingLetters
<1> QED BY <1>1, <1>2, <1>3, <1>4, <1>5, RestartingDesk DEF BooksNext

-----------------------------------------------------------------------------
(* The letter.                                                             *)

\* A clerk that neither had a letter at hand nor has one now disturbs no other.
LEMMA NoLetter ==
  ASSUME LetterInv, clerk \in [Clerks -> Clerk], NEW c \in Clerks, NEW r, Does(c, r),
         clerk[c].pc \notin Posting, r.pc \notin Posting, UNCHANGED mailing
  PROVE  LetterInv'
<1>1. \A d \in Clerks : clerk'[d] = clerk[d] \/ (clerk'[d].pc \notin Posting /\ clerk[d].pc \notin Posting)
  BY DEF Does
<1>2. \A p : Mailing(p)' <=> Mailing(p)
  BY <1>1 DEF Mailing, Posting
<1> QED BY <1>1, <1>2 DEF LetterInv, mailing

LEMMA AtOtherDesks ==
  ASSUME LetterInv, DocumentsInv, NEW c \in Clerks,
         \/ \E p \in Payments : \/ VisitInvoice(c, p)
                               \/ \E want \in 0..Subtotal[p] : AskCredit(c, p, want)
         \/ ReadNotes(c) \/ SelectSeries(c) \/ InsertSeries(c) \/ Issue(c)
  PROVE  LetterInv'
<1> DEFINE r == clerk[c]
<1>1. r \in Clerk /\ clerk \in [Clerks -> Clerk]
  BY DEF DocumentsInv
<1>2. UNCHANGED mailing /\ r.pc \notin Posting
  BY DEF VisitInvoice, AskCredit, ReadNotes, SelectSeries, InsertSeries, Issue, Errand, AtDesk, Posting
<1>3. \E n : Does(c, n) /\ n.pc \notin Posting
  <2>1. FreeClerk.pc \notin Posting /\ FreeClerk \in Clerk
    BY FreeClerkSound DEF Posting
  <2>2. CASE \E p \in Payments : VisitInvoice(c, p)
    <3>1. \A p : [FreeClerk EXCEPT !.pc = "select", !.pay = p].pc = "select"
      BY DEF FreeClerk
    <3> QED BY <2>2, <3>1 DEF VisitInvoice, Posting
  <2>3. ASSUME NEW p \in Payments, NEW want \in 0..Subtotal[p], AskCredit(c, p, want)
        PROVE  \E n : Does(c, n) /\ n.pc \notin Posting
    <3> DEFINE pc == IF invoice[p] # 0 THEN "notes" ELSE "select"
               n == [FreeClerk EXCEPT !.pc = pc, !.pay = p, !.want = want, !.credit = TRUE]
    <3>1. n.pc = pc /\ Does(c, n)
      BY <2>3 DEF AskCredit, FreeClerk
    <3> HIDE DEF n
    <3> QED BY <3>1 DEF Posting
  <2>4. CASE ReadNotes(c)
    <3>1. \A s, a : [r EXCEPT !.pc = "select", !.kind = "credit_note", !.credit = FALSE,
                              !.seq = s, !.amount = a].pc = "select"
      BY <1>1 DEF Clerk
    <3> QED BY <2>1, <2>4, <3>1 DEF ReadNotes, Posting
  <2>5. \A m : [r EXCEPT !.pc = "issue", !.number = m].pc = "issue"
    BY <1>1 DEF Clerk
  <2>6. [r EXCEPT !.pc = "insert"].pc = "insert" /\ [r EXCEPT !.pc = "notes"].pc = "notes"
    BY <1>1 DEF Clerk
  <2>7. CASE SelectSeries(c)
    BY <2>5, <2>6, <2>7 DEF SelectSeries, Draws, Posting
  <2>8. CASE InsertSeries(c)
    BY <2>1, <2>5, <2>8 DEF InsertSeries, Draws, Posting
  <2>9. CASE Issue(c)
    BY <2>1, <2>6, <2>9 DEF Issue, Posting
  <2> QED BY <2>2, <2>3, <2>4, <2>7, <2>8, <2>9
<1> QED BY <1>1, <1>2, <1>3, NoLetter

LEMMA Claiming ==
  ASSUME LetterInv, DocumentsInv, NEW c \in Clerks, NEW p \in Payments, ClaimLetter(c, p)
  PROVE  LetterInv'
<1> DEFINE n == [FreeClerk EXCEPT !.pc = "send", !.pay = p]
<1>1. n.pc = "send" /\ n.pay = p /\ Does(c, n) /\ emailed' = emailed \cup {p}
  BY DEF FreeClerk, ClaimLetter
<1> HIDE DEF n
<1>2. clerk[c].pc \notin Posting /\ p \notin emailed /\ UNCHANGED <<letters, unsure, cut>>
  BY DEF ClaimLetter, Errand, AtDesk, Posting, Claimable
<1>3. clerk'[c] = n /\ \A d \in Clerks \ {c} : clerk'[d] = clerk[d]
  BY <1>1 DEF Does, DocumentsInv
<1>4. \A d \in Clerks : clerk[d].pc \in Posting => clerk[d].pay # p
  BY <1>2 DEF LetterInv
<1>5. \A q : Mailing(q)' <=> Mailing(q) \/ q = p
  BY <1>1, <1>2, <1>3 DEF Mailing, Posting
<1>6. letters[p] = 0 \/ p \in unsure
  BY <1>2 DEF LetterInv
<1>7. \A d \in Clerks : clerk'[d].pc \in Posting => clerk'[d].pay \in emailed'
  BY <1>1, <1>3 DEF LetterInv
<1>8. \A d, e \in Clerks : clerk'[d].pc \in Posting /\ clerk'[e].pc \in Posting
                            /\ clerk'[d].pay = clerk'[e].pay => d = e
  BY <1>1, <1>3, <1>4 DEF LetterInv
<1> QED BY <1>1, <1>2, <1>5, <1>6, <1>7, <1>8 DEF LetterInv

\* The letter of a clerk goes out, or does not.
LEMMA Sending ==
  ASSUME LetterInv, DocumentsInv, NEW c \in Clerks, SendLetter(c) \/ LetterFails(c)
  PROVE  LetterInv'
<1> DEFINE p == clerk[c].pay
           n == [clerk[c] EXCEPT !.pc = "release"]
<1>1. /\ clerk[c] \in Clerk /\ clerk[c].pc = "send" /\ clerk[c].pay = p
      /\ p \in Payments /\ p \in emailed
  BY DEF DocumentsInv, Sound, LetterInv, SendLetter, LetterFails, AtDesk, Posting
<1>2. n.pc = "release" /\ n.pay = p
  BY <1>1 DEF Clerk
<1>3. UNCHANGED <<emailed, cut>>
  BY DEF SendLetter, LetterFails, mailing
<1>4. \/ Does(c, n) /\ UNCHANGED <<letters, unsure>>
      \/ Does(c, n) /\ letters' = [letters EXCEPT ![p] = @ + 1] /\ unsure' = unsure \cup {p}
      \/ Does(c, FreeClerk) /\ letters' = [letters EXCEPT ![p] = @ + 1] /\ UNCHANGED unsure
  BY DEF SendLetter, LetterFails, mailing
<1> HIDE DEF n, p
<1>5. Mailing(p)
  BY <1>1 DEF Mailing
<1>6. letters[p] = 0 \/ p \in unsure
  BY <1>1, <1>5 DEF LetterInv
<1>7. \A d \in Clerks \ {c} : /\ clerk'[d] = clerk[d]
                              /\ clerk[d].pc \in Posting => clerk[d].pay # p
  BY <1>1, <1>4 DEF Does, DocumentsInv, LetterInv, Posting
<1>8. ASSUME Does(c, n),
             \/ UNCHANGED <<letters, unsure>>
             \/ letters' = [letters EXCEPT ![p] = @ + 1] /\ unsure' = unsure \cup {p}
      PROVE  LetterInv'
  <2>1. clerk'[c] = n
    BY <1>8 DEF Does, DocumentsInv
  <2>2. \A d \in Clerks : /\ clerk'[d].pc \in Posting <=> clerk[d].pc \in Posting
                          /\ clerk'[d].pay = clerk[d].pay
    <3> SUFFICES ASSUME NEW d \in Clerks
                 PROVE  /\ clerk'[d].pc \in Posting <=> clerk[d].pc \in Posting
                        /\ clerk'[d].pay = clerk[d].pay
      OBVIOUS
    <3>1. CASE d = c
      BY <1>1, <1>2, <2>1, <3>1 DEF Posting
    <3>2. CASE d # c
      <4>1. d \in Clerks \ {c}
        BY <3>2
      <4>2. clerk'[d] = clerk[d] /\ (clerk[d].pc \in Posting => clerk[d].pay # p)
        BY <1>7, <4>1
      <4> QED BY <4>2
    <3> QED BY <3>1, <3>2
  <2>3. \A q : Mailing(q)' <=> Mailing(q)
    BY <2>2 DEF Mailing, Posting
  <2>4. /\ letters' \in [Payments -> Nat] /\ unsure' \subseteq Payments
        /\ \A q \in Payments : q # p => letters'[q] = letters[q] /\ (q \in unsure => q \in unsure')
        /\ letters'[p] = 0 \/ p \in unsure'
        /\ letters'[p] >= letters[p]
    <3>1. CASE UNCHANGED <<letters, unsure>>
      BY <1>1, <1>6, <3>1 DEF LetterInv
    <3>2. CASE letters' = [letters EXCEPT ![p] = @ + 1] /\ unsure' = unsure \cup {p}
      BY <1>1, <3>2 DEF LetterInv
    <3> QED BY <1>8, <3>1, <3>2
  <2>5. /\ \A d \in Clerks : clerk'[d].pc \in Posting => clerk'[d].pay \in emailed
        /\ \A d, e \in Clerks : clerk'[d].pc \in Posting /\ clerk'[e].pc \in Posting
                                /\ clerk'[d].pay = clerk'[e].pay => d = e
    BY <2>2 DEF LetterInv
  <2>6. ASSUME NEW q \in Payments
        PROVE  \/ letters'[q] = 0 \/ q \in unsure'
               \/ letters'[q] = 1 /\ q \in emailed /\ ~Mailing(q)'
    <3>1. letters[q] = 0 \/ q \in unsure \/ (letters[q] = 1 /\ q \in emailed /\ ~Mailing(q))
      BY DEF LetterInv
    <3>2. ~Mailing(q) => ~Mailing(q)'
      BY <2>3
    <3> QED BY <2>4, <3>1, <3>2
  <2>7. \A q \in emailed : Mailing(q)' \/ letters'[q] >= 1 \/ q \in cut
    BY <1>5, <2>3, <2>4 DEF LetterInv
  <2> QED BY <1>3, <2>4, <2>5, <2>6, <2>7 DEF LetterInv
<1>9. ASSUME Does(c, FreeClerk), letters' = [letters EXCEPT ![p] = @ + 1], UNCHANGED unsure
      PROVE  LetterInv'
  <2>1. clerk'[c].pc \notin Posting
    BY <1>9, FreeClerkSound DEF Does, DocumentsInv, Posting
  <2>2. \A d \in Clerks : /\ clerk'[d].pc \in Posting => clerk[d].pc \in Posting /\ clerk'[d].pay = clerk[d].pay
                          /\ clerk[d].pc \in Posting /\ clerk[d].pay # p =>
                               clerk'[d].pc \in Posting /\ clerk'[d].pay = clerk[d].pay
                          /\ clerk'[d].pc \in Posting => clerk'[d].pay # p
    <3> SUFFICES ASSUME NEW d \in Clerks
                 PROVE  /\ clerk'[d].pc \in Posting =>
                             clerk[d].pc \in Posting /\ clerk'[d].pay = clerk[d].pay
                        /\ clerk[d].pc \in Posting /\ clerk[d].pay # p =>
                             clerk'[d].pc \in Posting /\ clerk'[d].pay = clerk[d].pay
                        /\ clerk'[d].pc \in Posting => clerk'[d].pay # p
      OBVIOUS
    <3>1. CASE d = c
      BY <1>1, <2>1, <3>1
    <3>2. CASE d # c
      <4>1. d \in Clerks \ {c}
        BY <3>2
      <4>2. clerk'[d] = clerk[d] /\ (clerk[d].pc \in Posting => clerk[d].pay # p)
        BY <1>7, <4>1
      <4> QED BY <4>2
    <3> QED BY <3>1, <3>2
  <2>3. \A q : Mailing(q)' <=> Mailing(q) /\ q # p
    BY <2>2 DEF Mailing, Posting
  <2>4. /\ letters' \in [Payments -> Nat] /\ letters'[p] = letters[p] + 1 /\ letters[p] \in Nat
        /\ \A q \in Payments : q # p => letters'[q] = letters[q]
    BY <1>1, <1>9 DEF LetterInv
  <2>5. /\ \A d \in Clerks : clerk'[d].pc \in Posting => clerk'[d].pay \in emailed
        /\ \A d, e \in Clerks : clerk'[d].pc \in Posting /\ clerk'[e].pc \in Posting
                                /\ clerk'[d].pay = clerk'[e].pay => d = e
    BY <2>2 DEF LetterInv
  <2>6. letters'[p] = 1 \/ p \in unsure
    BY <1>6, <2>4
  <2>7. ASSUME NEW q \in Payments
        PROVE  \/ letters'[q] = 0 \/ q \in unsure
               \/ letters'[q] = 1 /\ q \in emailed /\ ~Mailing(q)'
    <3>1. letters[q] = 0 \/ q \in unsure \/ (letters[q] = 1 /\ q \in emailed /\ ~Mailing(q))
      BY DEF LetterInv
    <3>2. ~Mailing(q) \/ q = p => ~Mailing(q)'
      BY <2>3
    <3> QED BY <1>1, <2>4, <2>6, <3>1, <3>2
  <2>8. \A q \in emailed : Mailing(q)' \/ letters'[q] >= 1 \/ q \in cut
    BY <2>3, <2>4 DEF LetterInv
  <2> QED BY <1>3, <1>9, <2>4, <2>5, <2>7, <2>8 DEF LetterInv
<1> QED BY <1>4, <1>8, <1>9

LEMMA Releasing ==
  ASSUME LetterInv, DocumentsInv, NEW c \in Clerks, ReleaseLetter(c)
  PROVE  LetterInv'
<1> DEFINE p == clerk[c].pay
<1>1. /\ clerk[c].pc = "release" /\ p \in emailed /\ emailed' = emailed \ {p}
      /\ UNCHANGED <<letters, unsure, cut>>
  BY DEF ReleaseLetter, AtDesk, LetterInv, Posting
<1>2. /\ clerk'[c].pc \notin Posting
      /\ \A d \in Clerks \ {c} : /\ clerk'[d] = clerk[d]
                                 /\ clerk[d].pc \in Posting => clerk[d].pay # p
  BY <1>1, FreeClerkSound DEF ReleaseLetter, Does, DocumentsInv, LetterInv, Posting
<1>3. \A q : Mailing(q)' <=> Mailing(q) /\ q # p
  BY <1>1, <1>2 DEF Mailing, Posting
<1>4. letters[p] = 0 \/ p \in unsure
  BY <1>1 DEF LetterInv, Mailing
<1> HIDE DEF p
<1>5. \A d \in Clerks : clerk'[d].pc \in Posting => clerk'[d].pay \in emailed'
  BY <1>1, <1>2 DEF LetterInv
<1>6. \A d, e \in Clerks : clerk'[d].pc \in Posting /\ clerk'[e].pc \in Posting
                            /\ clerk'[d].pay = clerk'[e].pay => d = e
  BY <1>2 DEF LetterInv
<1> QED BY <1>1, <1>3, <1>4, <1>5, <1>6 DEF LetterInv

LEMMA RestartingLetters ==
  ASSUME LetterInv, DocumentsInv, BooksRestart
  PROVE  LetterInv'
<1>1. \A d \in Clerks : clerk'[d].pc \notin Posting
  BY FreeClerkSound DEF BooksRestart, Posting
<1>2. \A q : ~Mailing(q)'
  BY <1>1 DEF Mailing, Posting
<1>3. UNCHANGED <<emailed, letters, unsure>> /\ cut \subseteq cut' /\ cut' \subseteq Payments
      /\ \A q \in Payments : Mailing(q) => q \in cut'
  BY DEF BooksRestart, LetterInv, Mailing
<1> QED BY <1>1, <1>2, <1>3 DEF LetterInv

LEMMA LettersKept == DocumentsInv /\ LetterInv /\ [BooksNext]_booksVars => LetterInv'
<1> SUFFICES ASSUME DocumentsInv, LetterInv, [BooksNext]_booksVars PROVE LetterInv'
  OBVIOUS
<1>1. ASSUME NEW p \in Payments, Settle(p) PROVE LetterInv'
  BY <1>1 DEF Settle, mailing, LetterInv, Mailing
<1>2. CASE UNCHANGED booksVars
  BY <1>2 DEF booksVars, LetterInv, Mailing
<1>3. ASSUME NEW c \in Clerks, SendLetter(c) \/ LetterFails(c) \/ ReleaseLetter(c) PROVE LetterInv'
  BY <1>3, Sending, Releasing
<1>4. ASSUME NEW c \in Clerks, NEW p \in Payments, ClaimLetter(c, p) PROVE LetterInv'
  BY <1>4, Claiming
<1> QED BY <1>1, <1>2, <1>3, <1>4, AtOtherDesks, RestartingLetters DEF BooksNext

-----------------------------------------------------------------------------
LEMMA BooksInvariant == BooksSpec => [](DocumentsInv /\ LetterInv)
<1>1. BooksInit => DocumentsInv
  <2> SUFFICES ASSUME BooksInit PROVE DocumentsInv
    OBVIOUS
  <2>1. /\ series["invoice"] = 0 /\ series["credit_note"] = 0
        /\ \A p \in Payments : invoice[p] = 0 /\ notes[p] = <<>> /\ credited[p] = 0
    BY DEF BooksInit, Kinds
  <2>2. DOMAIN <<>> = {} /\ 1..0 = {}
    OBVIOUS
  <2>3. InvoicesNumbered /\ NotesNumbered
    BY <2>1, <2>2 DEF InvoicesNumbered, NotesNumbered
  <2>4. CreditsBounded
    <3>1. \A q \in Payments : Subtotal[q] \in Nat /\ credited[q] = 0
      BY <2>1, BooksAssumption
    <3> QED BY <3>1 DEF CreditsBounded
  <2>5. DocumentTypes /\ clerk \in [Clerks -> Clerk]
    BY FreeClerkSound DEF BooksInit, DocumentTypes
  <2>6. \A c \in Clerks : Sound(c, clerk[c])
    BY FreeClerkSound DEF BooksInit
  <2> QED BY <2>3, <2>4, <2>5, <2>6 DEF DocumentsInv
<1>2. BooksInit => LetterInv
  BY FreeClerkSound DEF BooksInit, LetterInv, Posting
<1>3. DocumentsInv /\ LetterInv /\ [BooksNext]_booksVars => (DocumentsInv /\ LetterInv)'
  BY DocumentsKept, LettersKept
<1> QED BY <1>1, <1>2, <1>3, PTL DEF BooksSpec

\* The type invariant of the model of the tax documents (zatca.py:249, main.py:3629).
THEOREM BooksTypeCorrect == BooksSpec => []BooksTypeOK
<1>1. BooksInit => OtherTypes
  BY DEF BooksInit, OtherTypes
<1>2. OtherTypes /\ [BooksNext]_booksVars => OtherTypes'
  <2> SUFFICES ASSUME OtherTypes, [BooksNext]_booksVars PROVE OtherTypes'
    OBVIOUS
  <2>1. UNCHANGED paid \/ \E p \in Payments : Settle(p)
    BY DEF BooksNext, VisitInvoice, ClaimLetter, AskCredit, ReadNotes, SelectSeries, InsertSeries,
       Issue, SendLetter, LetterFails, ReleaseLetter, BooksRestart, booksVars
  <2>2. errands' \in {errands, errands + 1}
    BY DEF BooksNext, VisitInvoice, ClaimLetter, AskCredit, ReadNotes, SelectSeries, InsertSeries,
       Issue, SendLetter, LetterFails, ReleaseLetter, BooksRestart, booksVars, Settle, Errand
  <2> QED BY <2>1, <2>2 DEF OtherTypes, Settle
<1>3. DocumentsInv /\ LetterInv /\ OtherTypes => BooksTypeOK
  BY DEF DocumentsInv, DocumentTypes, LetterInv, OtherTypes, BooksTypeOK
<1>4. BooksSpec => []OtherTypes
  BY <1>1, <1>2, PTL DEF BooksSpec
<1> QED BY <1>3, <1>4, BooksInvariant, PTL

\* Gapless numbers, credit notes within the invoice, and one letter per payment unless the
\* mail server's answer was lost (zatca.py:249, zatca.py:316, main.py:3629).
THEOREM BooksCorrect == BooksSpec => []BooksSafe
<1>1. DocumentsInv => BooksBalance
  BY DEF DocumentsInv, BooksBalance
<1>2. LetterInv => InvoiceMailedOnce
  <2> SUFFICES ASSUME LetterInv, NEW p \in Payments
               PROVE  /\ letters[p] <= 1 \/ p \in unsure
                      /\ p \in emailed /\ ~Mailing(p) => letters[p] >= 1 \/ p \in cut
    BY DEF InvoiceMailedOnce
  <2>1. letters[p] \in Nat
    BY DEF LetterInv
  <2> QED BY <2>1 DEF LetterInv
<1> QED BY <1>1, <1>2, BooksInvariant, PTL DEF BooksSafe

-----------------------------------------------------------------------------
(* The founding offer *)

\* What a handler knows while it works, and what an order that came too late will never get.
HandlerWorks == \A h \in Handlers : handler[h].pc # "idle" => handler[h].order \in Orders

LateOrders ==
  /\ \A o \in Orders : order[o].status = "none" => ~order[o].founding
  /\ \A o \in spurned : ProjectOf[o] \in revoked /\ ~order[o].founding
  /\ \A h \in Handlers : handler[h].pc = "save" /\ handler[h].order \in spurned => ~handler[h].granted

SeatsReserved ==
  /\ Cardinality(Seated) + Cardinality(Granted) < Seats + Cardinality(Handlers)
  /\ ~hurried => Cardinality(Granted) <= 1 /\ Cardinality(Seated) + Cardinality(Granted) <= Seats

FoundingInv == FoundingTypeOK /\ HandlerWorks /\ LateOrders /\ SeatsReserved

-----------------------------------------------------------------------------
\* The seats taken, and the ones granted, are finite in number.
LEMMA SeatsFinite ==
  ASSUME FoundingTypeOK
  PROVE  /\ IsFiniteSet(Seated) /\ Cardinality(Seated) \in Nat
         /\ IsFiniteSet(Granted) /\ Cardinality(Granted) \in Nat
         /\ Cardinality(Handlers) \in Nat /\ Cardinality(Granted) <= Cardinality(Handlers)
<1>1. Seated \subseteq Projects /\ Granted \subseteq Handlers
  BY DEF FoundingTypeOK, Seated, Granted
<1> QED BY <1>1, FoundingAssumption, FS_Subset, FS_CardinalityType

LEMMA OfferOpens == FoundingInit => FoundingInv
<1> SUFFICES ASSUME FoundingInit PROVE FoundingInv
  OBVIOUS
<1>1. FoundingTypeOK /\ HandlerWorks /\ LateOrders
  BY FoundingAssumption DEF FoundingInit, FoundingTypeOK, HandlerWorks, LateOrders, Order, Handler, IdleHandler
<1>2. Seated = {} /\ Granted = {}
  BY DEF FoundingInit, Seated, Granted, IdleHandler
<1>3. Cardinality(Handlers) \in Nat \ {0}
  BY FoundingAssumption, FS_CardinalityType, FS_EmptySet
<1>4. SeatsReserved
  BY <1>2, <1>3, FoundingAssumption, FS_EmptySet DEF SeatsReserved
<1> QED BY <1>1, <1>4 DEF FoundingInv

\* The types, and the orders of revoked projects.
LEMMA OffersKept == FoundingInv /\ [FoundingNext]_foundingVars => (FoundingTypeOK /\ HandlerWorks /\ LateOrders)'
<1> SUFFICES ASSUME FoundingInv, [FoundingNext]_foundingVars PROVE (FoundingTypeOK /\ HandlerWorks /\ LateOrders)'
  OBVIOUS
<1> USE FoundingAssumption DEF FoundingInv, FoundingTypeOK, HandlerWorks, LateOrders, Order, Handler,
        IdleHandler, Moves
<1>1. ASSUME NEW h \in Handlers, NEW o \in Orders, OpenOrder(h, o) PROVE (FoundingTypeOK /\ HandlerWorks /\ LateOrders)'
  BY <1>1 DEF OpenOrder
<1>2. ASSUME NEW h \in Handlers, PriceOrder(h) PROVE (FoundingTypeOK /\ HandlerWorks /\ LateOrders)'
  <2>1. PICK granted \in BOOLEAN : /\ Moves(h, "save", handler[h].order, granted)
                                   /\ ProjectOf[handler[h].order] \in revoked => ~granted
    <3> DEFINE p == ProjectOf[handler[h].order]
               grant(r, l) == IF p \in founder THEN HasFoundingPrice(p, l)
                              ELSE ~r /\ p \notin revoked /\ Vacancy
    <3>1. PICK r \in BOOLEAN, l \in BOOLEAN : Moves(h, "save", handler[h].order, grant(r, l))
      BY <1>2, Zenon DEF PriceOrder
    <3>2. grant(r, l) \in BOOLEAN /\ (p \in revoked => ~grant(r, l))
      BY Zenon DEF HasFoundingPrice, Vacancy
    <3> HIDE DEF grant, Moves
    <3> QED BY <3>1, <3>2
  <2> QED BY <1>2, <2>1 DEF PriceOrder
<1>3. ASSUME NEW h \in Handlers, SaveOrder(h) PROVE (FoundingTypeOK /\ HandlerWorks /\ LateOrders)'
  BY <1>3 DEF SaveOrder
<1>4. ASSUME NEW h \in Handlers, NEW o \in Orders, Activate(h, o) PROVE (FoundingTypeOK /\ HandlerWorks /\ LateOrders)'
  BY <1>4 DEF Activate
<1>5. ASSUME NEW h \in Handlers, CountSeats(h) PROVE (FoundingTypeOK /\ HandlerWorks /\ LateOrders)'
  BY <1>5 DEF CountSeats, Vacancy
<1>6. ASSUME NEW h \in Handlers, CommitActivation(h) PROVE (FoundingTypeOK /\ HandlerWorks /\ LateOrders)'
  BY <1>6 DEF CommitActivation
<1>7. ASSUME NEW o \in Orders, PayOrder(o) PROVE (FoundingTypeOK /\ HandlerWorks /\ LateOrders)'
  BY <1>7 DEF PayOrder
<1>8. ASSUME NEW p \in Projects, Revoke(p) PROVE (FoundingTypeOK /\ HandlerWorks /\ LateOrders)'
  BY <1>8 DEF Revoke
<1>9. CASE FoundingRestart
  BY <1>9 DEF FoundingRestart
<1>10. CASE UNCHANGED foundingVars
  BY <1>10 DEF foundingVars
<1> QED BY <1>1, <1>2, <1>3, <1>4, <1>5, <1>6, <1>7, <1>8, <1>9, <1>10 DEF FoundingNext

\* How a step moves the seats.
LEMMA SeatsMove ==
  ASSUME FoundingInv, [FoundingNext]_foundingVars, FoundingTypeOK'
  PROVE  \/ Seated' \subseteq Seated /\ Granted' \subseteq Granted /\ (hurried => hurried')
         \/ \E h \in Handlers :
              /\ Vacancy /\ Granted' = Granted \cup {h} /\ Seated' = Seated
              /\ ~hurried' => ~hurried /\ Granted = {}
         \/ \E h \in Granted, p \in Projects :
              /\ Granted' = Granted \ {h} /\ Seated' \subseteq Seated \cup {p} /\ hurried' = hurried
<1> USE DEF FoundingInv, FoundingTypeOK, HandlerWorks, Handler, IdleHandler, Moves, Granted, Seated
<1>1. ASSUME NEW h \in Handlers, NEW o \in Orders, OpenOrder(h, o)
      PROVE  Seated' = Seated /\ Granted' \subseteq Granted /\ hurried' = hurried
  BY <1>1 DEF OpenOrder
<1>2. ASSUME NEW h \in Handlers, PriceOrder(h)
      PROVE  Seated' = Seated /\ Granted' \subseteq Granted /\ hurried' = hurried
  <2>1. \A g \in Handlers : handler'[g].pc = "commit" => handler'[g] = handler[g]
    BY <1>2 DEF PriceOrder
  <2> QED BY <1>2, <2>1 DEF PriceOrder
<1>3. ASSUME NEW h \in Handlers, SaveOrder(h)
      PROVE  Seated' = Seated /\ Granted' \subseteq Granted /\ hurried' = hurried
  BY <1>3 DEF SaveOrder
<1>4. ASSUME NEW h \in Handlers, NEW o \in Orders, Activate(h, o)
      PROVE  Seated' = Seated /\ Granted' \subseteq Granted /\ hurried' = hurried
  BY <1>4 DEF Activate
<1>5. ASSUME NEW h \in Handlers, CountSeats(h)
      PROVE  \/ Seated' = Seated /\ Granted' \subseteq Granted /\ (hurried => hurried')
             \/ /\ Vacancy /\ Granted' = Granted \cup {h} /\ Seated' = Seated
                /\ ~hurried' => ~hurried /\ Granted = {}
  <2>0. Vacancy \in BOOLEAN
    BY DEF Vacancy
  <2>1. PICK granted \in BOOLEAN : granted = Vacancy
    BY <2>0, Zenon
  <2>2. handler' = [handler EXCEPT ![h] = [pc |-> "commit", order |-> handler[h].order, granted |-> granted]]
    BY <1>5, <2>1, Zenon DEF CountSeats
  <2>3. Seated' = Seated /\ (hurried => hurried')
    BY <1>5 DEF CountSeats
  <2>4. CASE ~granted
    BY <2>2, <2>3, <2>4
  <2>5. CASE granted
    <3>1. Granted' = Granted \cup {h}
      BY <2>2, <2>5
    <3>2. Vacancy /\ (~hurried' => ~hurried /\ Granted = {})
      BY <1>5, <2>1, <2>5, Zenon DEF CountSeats
    <3> QED BY <2>3, <3>1, <3>2
  <2> QED BY <2>4, <2>5
<1>6. ASSUME NEW h \in Handlers, CommitActivation(h)
      PROVE  \/ Seated' = Seated /\ Granted' \subseteq Granted /\ hurried' = hurried
             \/ \E p \in Projects : /\ h \in Granted /\ Granted' = Granted \ {h}
                                    /\ Seated' \subseteq Seated \cup {p} /\ hurried' = hurried
  <2>1. Granted' = Granted \ {h} /\ ProjectOf[handler[h].order] \in Projects
    BY <1>6, FoundingAssumption DEF CommitActivation
  <2>2. CASE handler[h].granted
    BY <1>6, <2>1, <2>2 DEF CommitActivation
  <2>3. CASE ~handler[h].granted
    BY <1>6, <2>1, <2>3 DEF CommitActivation
  <2> QED BY <2>2, <2>3
<1>7. ASSUME NEW o \in Orders, PayOrder(o)
      PROVE  Seated' = Seated /\ Granted' \subseteq Granted /\ hurried' = hurried
  BY <1>7 DEF PayOrder
<1>8. ASSUME NEW p \in Projects, Revoke(p)
      PROVE  Seated' \subseteq Seated /\ Granted' \subseteq Granted /\ hurried' = hurried
  BY <1>8 DEF Revoke
<1>9. FoundingRestart => Seated' = Seated /\ Granted' \subseteq Granted /\ hurried' = hurried
  BY DEF FoundingRestart
<1>10. UNCHANGED foundingVars => Seated' = Seated /\ Granted' \subseteq Granted /\ hurried' = hurried
  BY DEF foundingVars
<1> HIDE DEF FoundingInv, FoundingTypeOK, HandlerWorks, Handler, IdleHandler, Moves, Granted, Seated
<1>11. FoundingNext \/ UNCHANGED foundingVars
  BY DEF foundingVars
<1> QED BY <1>1, <1>2, <1>3, <1>4, <1>5, <1>6, <1>7, <1>8, <1>9, <1>10, <1>11, Zenon DEF FoundingNext

LEMMA SeatsKeptByStep == FoundingInv /\ [FoundingNext]_foundingVars => SeatsReserved'
<1> SUFFICES ASSUME FoundingInv, [FoundingNext]_foundingVars PROVE SeatsReserved'
  OBVIOUS
<1>1. FoundingTypeOK /\ FoundingTypeOK' /\ SeatsReserved
  BY OffersKept DEF FoundingInv
<1>2. /\ IsFiniteSet(Seated) /\ Cardinality(Seated) \in Nat /\ IsFiniteSet(Granted)
      /\ Cardinality(Granted) \in Nat /\ Cardinality(Handlers) \in Nat
  BY <1>1, SeatsFinite
<1>3. /\ IsFiniteSet(Seated') /\ Cardinality(Seated') \in Nat /\ IsFiniteSet(Granted')
      /\ Cardinality(Granted') \in Nat /\ Cardinality(Granted') <= Cardinality(Handlers)
  <2>1. Seated' \subseteq Projects /\ Granted' \subseteq Handlers
    BY <1>1 DEF FoundingTypeOK, Seated, Granted
  <2> QED BY <2>1, FoundingAssumption, FS_Subset, FS_CardinalityType
<1>4. CASE Seated' \subseteq Seated /\ Granted' \subseteq Granted /\ (hurried => hurried')
  <2>1. Cardinality(Seated') <= Cardinality(Seated) /\ Cardinality(Granted') <= Cardinality(Granted)
    BY <1>2, <1>4, FS_Subset
  <2> QED BY <1>1, <1>2, <1>3, <1>4, <2>1, FoundingAssumption DEF SeatsReserved
<1>5. ASSUME NEW h \in Handlers, Vacancy, Granted' = Granted \cup {h}, Seated' = Seated,
             ~hurried' => ~hurried /\ Granted = {}
      PROVE  SeatsReserved'
  <2>1. Cardinality(Seated') < Seats
    BY <1>5 DEF Vacancy
  <2>2. ~hurried' => Cardinality(Granted') = 1
    BY <1>5, FS_EmptySet, FS_AddElement
  <2> QED BY <1>2, <1>3, <2>1, <2>2, FoundingAssumption DEF SeatsReserved
<1>6. ASSUME NEW h \in Granted, NEW p \in Projects, Granted' = Granted \ {h},
             Seated' \subseteq Seated \cup {p}, hurried' = hurried
      PROVE  SeatsReserved'
  <2>1. Cardinality(Granted') = Cardinality(Granted) - 1
    BY <1>2, <1>6, FS_RemoveElement
  <2>2. Cardinality(Seated') <= Cardinality(Seated) + 1
    <3>1. IsFiniteSet(Seated \cup {p}) /\ Cardinality(Seated \cup {p}) \in Nat
          /\ Cardinality(Seated \cup {p}) <= Cardinality(Seated) + 1
      BY <1>2, FS_AddElement
    <3>2. Cardinality(Seated') <= Cardinality(Seated \cup {p})
      BY <1>6, <3>1, FS_Subset
    <3> QED BY <1>2, <1>3, <3>1, <3>2
  <2> QED BY <1>1, <1>2, <1>3, <1>6, <2>1, <2>2, FoundingAssumption DEF SeatsReserved
<1> QED BY <1>1, <1>4, <1>5, <1>6, SeatsMove

-----------------------------------------------------------------------------
LEMMA FoundingInvariant == FoundingSpec => []FoundingInv
<1>1. FoundingInv /\ [FoundingNext]_foundingVars => FoundingInv'
  BY OffersKept, SeatsKeptByStep DEF FoundingInv
<1> QED BY <1>1, OfferOpens, PTL DEF FoundingSpec

\* The variables keep their types (founding.py, payments.py:980).
THEOREM FoundingTypeCorrect == FoundingSpec => []FoundingTypeOK
<1>1. FoundingInv => FoundingTypeOK
  BY DEF FoundingInv
<1> QED BY <1>1, FoundingInvariant, PTL

\* For any number of seats, projects, orders and handlers: never more seats than the offer has
\* when activations take them in turn, at most one more for each handler but one when they do
\* not, and no price for a project that was revoked before (founding.py:6, 87).
THEOREM FoundingCorrect == FoundingSpec => []FoundingSafe
<1>1. FoundingInv => FoundingSafe
  <2> SUFFICES ASSUME FoundingInv PROVE FoundingSafe
    OBVIOUS
  <2>1. Cardinality(Seated) \in Nat /\ Cardinality(Granted) \in Nat /\ Cardinality(Handlers) \in Nat
    BY SeatsFinite DEF FoundingInv
  <2>2. SeatsKept /\ SeatsBounded
    BY <2>1, FoundingAssumption DEF FoundingInv, SeatsReserved, SeatsKept, SeatsBounded
  <2>3. RevokedStays
    BY DEF FoundingInv, LateOrders, RevokedStays
  <2> QED BY <2>2, <2>3 DEF FoundingSafe
<1> QED BY <1>1, FoundingInvariant, PTL

-----------------------------------------------------------------------------
(***************************************************************************)
(* Reminders and overage bills.                                            *)
(***************************************************************************)

\* What a recorder has read, and what it is about to count.
RecorderOK(x) ==
  /\ x \in Recorder
  /\ x.pc = "idle" <=> x.window = 0
  /\ x.pc # "idle" => x.use \in Uses

\* A pass demands what is owed for the windows closed before it.
PassOK(x) ==
  /\ x \in Pass
  /\ x.pc = "mark" => x.stage \in Stages
  /\ x.pc \in {"bill", "charge"} => \A w \in x.todo : w < x.window /\ x.saw[w] > Allowance
  /\ x.pc = "charge" => x.bill \in Windows /\ x.bill < x.window /\ x.saw[x.bill] > Allowance

CollectionsShape ==
  /\ CollectionsTypeOK
  /\ \A r \in Recorders : RecorderOK(recorder[r])
  /\ \A p \in Passes : PassOK(pass[p])

\* Windows and stages are small numbers, and a counter is one.
LEMMA Counting ==
  /\ Allowance \in Nat /\ MaxWindow \in Nat /\ 1 \in Windows /\ Windows \subseteq Nat /\ 0 \notin Windows
  /\ \A w \in Windows : w \in 0..MaxWindow
  /\ \A w \in 0..MaxWindow : w # 0 => w \in Windows
  /\ \A s \in 0..MaxStage : s # 0 => s \in Stages
  /\ 0 \in 0..MaxStage /\ 0 \in 0..MaxWindow /\ 0 \in 0..MaxRecords /\ 0 \in 0..MaxRounds
BY CollectionsAssumption DEF Windows, Stages

\* Whoever rests has read nothing.
LEMMA FreeOK == RecorderOK(FreeRecorder) /\ PassOK(FreePass)
BY Counting DEF RecorderOK, FreeRecorder, Recorder, PassOK, FreePass, Pass

LEMMA CollectionsShapeInit == CollectionsInit => CollectionsShape
<1> SUFFICES ASSUME CollectionsInit PROVE CollectionsShape
  OBVIOUS
<1>1. (\A r \in Recorders : RecorderOK(recorder[r])) /\ (\A p \in Passes : PassOK(pass[p]))
  BY FreeOK DEF CollectionsInit
<1>2. recorder \in [Recorders -> Recorder] /\ pass \in [Passes -> Pass]
  BY FreeOK DEF CollectionsInit, RecorderOK, PassOK
<1> QED BY <1>1, <1>2, Counting DEF CollectionsInit, CollectionsShape, CollectionsTypeOK

\* A step moves one recorder or one pass, or frees them all.
LEMMA RecorderMoves ==
  ASSUME CollectionsShape, NEW r \in Recorders, NEW x, RecorderOK(x), Records(r, x)
  PROVE  recorder' \in [Recorders -> Recorder] /\ \A q \in Recorders : RecorderOK(recorder'[q])
BY DEF CollectionsShape, CollectionsTypeOK, Records, RecorderOK

LEMMA PassMoves ==
  ASSUME CollectionsShape, NEW p \in Passes, NEW x, PassOK(x), Passing(p, x)
  PROVE  pass' \in [Passes -> Pass] /\ \A q \in Passes : PassOK(pass'[q])
BY DEF CollectionsShape, CollectionsTypeOK, Passing, PassOK

\* The types, and what recorders and passes have read, last through every step.
LEMMA CollectionsShapeStep ==
  ASSUME CollectionsShape, [CollectionsNext]_collVars PROVE CollectionsShape'
<1> DEFINE Others == /\ window \in Windows /\ stage \in 0..MaxStage /\ owed \in BOOLEAN /\ reminded \subseteq Stages
                     /\ demanded \in [Stages -> Nat] /\ records \in 0..MaxRecords /\ rounds \in 0..MaxRounds
           Counters == /\ opened \subseteq Windows /\ used \in [Windows -> Nat] /\ events \in [Windows -> SUBSET Uses]
                       /\ raced \subseteq Windows /\ doubled \subseteq Windows
           Bills == bills \in [Windows -> Nat] /\ charged \in [Windows -> Nat] /\ crowded \in BOOLEAN
           RecordersOK == recorder \in [Recorders -> Recorder] /\ \A q \in Recorders : RecorderOK(recorder[q])
           PassesOK == pass \in [Passes -> Pass] /\ \A q \in Passes : PassOK(pass[q])
<1>0. Others /\ Counters /\ Bills /\ RecordersOK /\ PassesOK
  BY DEF CollectionsShape, CollectionsTypeOK
<1>a. SUFFICES Others' /\ Counters' /\ Bills' /\ RecordersOK' /\ PassesOK'
  BY DEF CollectionsShape, CollectionsTypeOK
<1>1. ASSUME NEW r \in Recorders, NEW u \in Uses, NEW w \in Windows, BeginRecord(r, u, w)
      PROVE  Others' /\ Counters' /\ Bills' /\ RecordersOK' /\ PassesOK'
  <2>1. RecorderOK([FreeRecorder EXCEPT !.pc = "read", !.use = u, !.window = w])
    BY FreeOK, Counting DEF RecorderOK, Recorder, FreeRecorder
  <2>2. RecordersOK'
    BY <1>1, <2>1, RecorderMoves DEF BeginRecord
  <2>3. records' \in 0..MaxRecords
    BY <1>0, <1>1, CollectionsAssumption DEF BeginRecord
  <2> QED BY <1>0, <1>1, <2>2, <2>3 DEF BeginRecord, counters, demands
<1>2. ASSUME NEW r \in Recorders, ReadUsage(r)
      PROVE  Others' /\ Counters' /\ Bills' /\ RecordersOK' /\ PassesOK'
  <2> DEFINE w == recorder[r].window
  <2>1. RecorderOK([recorder[r] EXCEPT !.pc = "count", !.fresh = w \notin opened, !.saw = used[w]])
    BY <1>0, <1>2, Counting DEF ReadUsage, RecorderOK, Recorder
  <2>2. RecordersOK'
    BY <1>2, <2>1, RecorderMoves DEF ReadUsage
  <2> QED BY <1>0, <1>2, <2>2 DEF ReadUsage, counters, demands
<1>3. ASSUME NEW r \in Recorders, Count(r)
      PROVE  Others' /\ Counters' /\ Bills' /\ RecordersOK' /\ PassesOK'
  <2>1. RecordersOK'
    BY <1>3, FreeOK, RecorderMoves DEF Count
  <2>2. recorder[r].window \in Windows /\ recorder[r].use \in Uses /\ recorder[r].saw \in Nat
    BY <1>0, <1>3, Counting DEF Count, RecorderOK, Recorder
  <2>3. CASE UNCHANGED <<counters, raced>>
    BY <1>0, <1>3, <2>1, <2>3 DEF Count, counters, demands
  <2>4. CASE ~UNCHANGED <<counters, raced>>
    <3>1. Counters'
      BY <1>0, <1>3, <2>2, <2>4 DEF Count, counters
    <3> QED BY <1>0, <1>3, <2>1, <3>1 DEF Count, demands
  <2> QED BY <2>3, <2>4
<1>4. ASSUME NEW p \in Passes, BeginPass(p)
      PROVE  Others' /\ Counters' /\ Bills' /\ RecordersOK' /\ PassesOK'
  <2>1. PassOK([FreePass EXCEPT !.pc = "remind", !.stage = stage, !.window = window])
    BY <1>0, FreeOK, Counting DEF PassOK, Pass, FreePass
  <2>2. PassesOK' /\ rounds' \in 0..MaxRounds
    BY <1>0, <1>4, <2>1, PassMoves, CollectionsAssumption DEF BeginPass
  <2> QED BY <1>0, <1>4, <2>2 DEF BeginPass, counters, demands
<1>5. ASSUME NEW p \in Passes, Remind(p)
      PROVE  Others' /\ Counters' /\ Bills' /\ RecordersOK' /\ PassesOK'
  <2>1. PassOK([pass[p] EXCEPT !.pc = "list"])
    BY <1>0 DEF PassOK, Pass
  <2>2. pass[p].stage # 0 => pass[p].stage \in Stages /\ PassOK([pass[p] EXCEPT !.pc = "mark"])
    BY <1>0, Counting DEF PassOK, Pass
  <2>3. PassesOK' /\ demanded' \in [Stages -> Nat]
    BY <1>0, <1>5, <2>1, <2>2, PassMoves DEF Remind
  <2> QED BY <1>0, <1>5, <2>3 DEF Remind, counters
<1>6. ASSUME NEW p \in Passes, Mark(p)
      PROVE  Others' /\ Counters' /\ Bills' /\ RecordersOK' /\ PassesOK'
  <2>1. PassOK([pass[p] EXCEPT !.pc = "list"]) /\ pass[p].stage \in Stages
    BY <1>0, <1>6 DEF PassOK, Pass, Mark
  <2>2. PassesOK' /\ reminded' \subseteq Stages
    BY <1>0, <1>6, <2>1, FreeOK, PassMoves DEF Mark
  <2> QED BY <1>0, <1>6, <2>2 DEF Mark, counters
<1>7. ASSUME NEW p \in Passes, ListOverage(p)
      PROVE  Others' /\ Counters' /\ Bills' /\ RecordersOK' /\ PassesOK'
  <2> DEFINE todo == {w \in 1..(pass[p].window - 1) : w \in opened /\ used[w] > Allowance}
  <2>0. pass[p].window \in 0..MaxWindow
    BY <1>0 DEF Pass
  <2>1. \A w \in todo : w \in Windows /\ w < pass[p].window /\ used[w] > Allowance
    BY <2>0, CollectionsAssumption DEF Windows
  <2>2. PassOK([pass[p] EXCEPT !.pc = "bill", !.saw = used, !.todo = todo])
    <3> HIDE DEF todo
    <3> QED BY <1>0, <2>1 DEF PassOK, Pass
  <2>3. PassesOK'
    BY <1>7, <2>2, PassMoves DEF ListOverage
  <2> QED BY <1>0, <1>7, <2>3 DEF ListOverage, counters, demands
<1>8. ASSUME NEW p \in Passes, NEW w \in Windows, BillOverage(p, w)
      PROVE  Others' /\ Counters' /\ Bills' /\ RecordersOK' /\ PassesOK'
  <2>1. PassOK([pass[p] EXCEPT !.todo = @ \ {w}, !.bill = w, !.pc = IF NotBilled(w) THEN "charge" ELSE "bill"])
    BY <1>0, <1>8, Counting DEF BillOverage, PassOK, Pass
  <2>2. PassesOK'
    BY <1>8, <2>1, PassMoves DEF BillOverage
  <2> QED BY <1>0, <1>8, <2>2 DEF BillOverage, counters, demands
<1>9. ASSUME NEW p \in Passes, Charge(p)
      PROVE  Others' /\ Counters' /\ Bills' /\ RecordersOK' /\ PassesOK'
  <2>1. PassOK([pass[p] EXCEPT !.pc = "bill"])
    BY <1>0, <1>9 DEF Charge, PassOK, Pass
  <2>2. PassesOK'
    BY <1>9, <2>1, PassMoves DEF Charge
  <2>3. pass[p].bill \in Windows /\ pass[p].saw[pass[p].bill] - Allowance \in Nat
    BY <1>0, <1>9, Counting DEF Charge, PassOK, Pass
  <2>4. Bills'
    BY <1>0, <1>9, <2>3 DEF Charge
  <2> QED BY <1>0, <1>9, <2>2, <2>4 DEF Charge, counters
<1>10. ASSUME NEW p \in Passes, EndPass(p)
      PROVE  Others' /\ Counters' /\ Bills' /\ RecordersOK' /\ PassesOK'
  <2>1. PassesOK'
    BY <1>10, FreeOK, PassMoves DEF EndPass
  <2> QED BY <1>0, <1>10, <2>1 DEF EndPass, counters, demands
<1>11. ASSUME NextWindow \/ NextStage \/ PayRenewal
      PROVE  Others' /\ Counters' /\ Bills' /\ RecordersOK' /\ PassesOK'
  <2>1. window' \in Windows /\ stage' \in 0..MaxStage
    <3>1. window \in 1..MaxWindow /\ stage \in 0..MaxStage
      BY <1>0 DEF Windows
    <3>2. window' = window \/ (window < MaxWindow /\ window' = window + 1)
      BY <1>11 DEF NextWindow, NextStage, PayRenewal
    <3>3. stage' = stage \/ (stage < MaxStage /\ stage' = stage + 1)
      BY <1>11 DEF NextWindow, NextStage, PayRenewal, counters, demands
    <3> QED BY <3>1, <3>2, <3>3, CollectionsAssumption DEF Windows
  <2> QED BY <1>0, <1>11, <2>1 DEF NextWindow, NextStage, PayRenewal, counters, demands
<1>12. CASE CollectionsRestart
  <2>1. RecordersOK' /\ PassesOK'
    BY <1>12, FreeOK DEF CollectionsRestart, RecorderOK, PassOK
  <2> QED BY <1>0, <1>12, <2>1 DEF CollectionsRestart, counters, demands
<1>13. CASE UNCHANGED collVars
  BY <1>0, <1>13 DEF collVars, counters, demands
<1> QED BY <1>1, <1>2, <1>3, <1>4, <1>5, <1>6, <1>7, <1>8, <1>9, <1>10, <1>11, <1>12, <1>13 DEF CollectionsNext

-----------------------------------------------------------------------------
(* One pass at a time demands everything once. *)

DemandsInv ==
  \/ crowded
  \/ /\ \A p, q \in Passes : pass[p].pc # "idle" /\ pass[q].pc # "idle" => p = q
     /\ \A s \in Stages :
          /\ demanded[s] <= 1
          /\ demanded[s] # 0 => s \in reminded \/ \E p \in Passes : pass[p].pc = "mark" /\ pass[p].stage = s
     /\ \A w \in Windows : bills[w] <= 1
     /\ \A p \in Passes : pass[p].pc = "charge" => bills[pass[p].bill] = 0

LEMMA DemandsInit == CollectionsInit => DemandsInv
BY Counting DEF CollectionsInit, DemandsInv, FreePass

\* collections.run keeps it: a stage is demanded before it is marked, a window charged by the
\* pass that created its bill.
LEMMA DemandsStep ==
  ASSUME CollectionsShape, DemandsInv, [CollectionsNext]_collVars PROVE DemandsInv'
<1> USE DEF DemandsInv
<1>a. /\ pass \in [Passes -> Pass] /\ demanded \in [Stages -> Nat] /\ bills \in [Windows -> Nat] /\ crowded \in BOOLEAN
      /\ \A p \in Passes : /\ pass[p].pc = "mark" => pass[p].stage \in Stages
                          /\ pass[p].pc = "charge" => pass[p].bill \in Windows
  BY DEF CollectionsShape, CollectionsTypeOK, PassOK
<1>0. ASSUME UNCHANGED <<pass, demanded, reminded, bills, crowded>> PROVE DemandsInv'
  BY <1>0
<1>1. ASSUME NEW r \in Recorders, (\E u \in Uses, w \in Windows : BeginRecord(r, u, w)) \/ ReadUsage(r) \/ Count(r)
      PROVE  DemandsInv'
  BY <1>0, <1>1 DEF BeginRecord, ReadUsage, Count, demands
<1>2. ASSUME NEW p \in Passes, BeginPass(p) PROVE DemandsInv'
  BY <1>a, <1>2 DEF BeginPass, Passing, FreePass, demands
<1>3. ASSUME NEW p \in Passes, Remind(p), ~crowded PROVE DemandsInv'
  <2>1. /\ \A q \in Passes : q # p => pass[q].pc = "idle" /\ pass'[q] = pass[q]
        /\ UNCHANGED <<reminded, bills, crowded>> /\ pass'[p].pc \in {"mark", "list"}
        /\ pass'[p].stage = pass[p].stage
    BY <1>a, <1>3 DEF Remind, Passing, Pass
  <2>2. CASE demanded' = demanded
    <3>1. \A q \in Passes : pass[q].pc # "mark"
      BY <1>3, <2>1 DEF Remind
    <3> QED BY <1>3, <2>1, <2>2, <3>1
  <2>3. CASE /\ pass[p].stage # 0 /\ NotReminded(pass[p].stage) /\ pass'[p].pc = "mark"
             /\ demanded' = [demanded EXCEPT ![pass[p].stage] = @ + 1]
    <3>1. ASSUME pass[p].stage \in Stages PROVE demanded[pass[p].stage] = 0
      BY <1>a, <1>3, <2>1, <2>3, <3>1 DEF Remind, NotReminded
    <3> QED BY <1>a, <1>3, <2>1, <2>3, <3>1
  <2> QED BY <1>a, <1>3, <2>2, <2>3 DEF Remind, Passing, Pass
<1>4. ASSUME NEW p \in Passes, Mark(p) PROVE DemandsInv'
  BY <1>a, <1>4 DEF Mark, Passing, FreePass, Pass
<1>5. ASSUME NEW p \in Passes, ListOverage(p) PROVE DemandsInv'
  BY <1>a, <1>5 DEF ListOverage, Passing, Pass, demands
<1>6. ASSUME NEW p \in Passes, NEW w \in Windows, BillOverage(p, w) PROVE DemandsInv'
  BY <1>a, <1>6 DEF BillOverage, Passing, NotBilled, Pass, demands
<1>7. ASSUME NEW p \in Passes, Charge(p), ~crowded PROVE DemandsInv'
  <2>1. /\ \A q \in Passes : q # p => pass[q].pc = "idle" /\ pass'[q] = pass[q]
        /\ UNCHANGED <<reminded, demanded, crowded>> /\ pass'[p].pc = "bill" /\ pass[p].pc = "charge"
        /\ pass[p].bill \in Windows /\ bills[pass[p].bill] = 0
        /\ bills' = [bills EXCEPT ![pass[p].bill] = @ + 1]
    BY <1>a, <1>7 DEF Charge, Passing, Pass
  <2> QED BY <1>a, <1>7, <2>1
<1>8. ASSUME NEW p \in Passes, EndPass(p) PROVE DemandsInv'
  BY <1>a, <1>8 DEF EndPass, Passing, FreePass, demands
<1>9. ASSUME NextWindow \/ NextStage \/ PayRenewal PROVE DemandsInv'
  BY <1>0, <1>9 DEF NextWindow, NextStage, PayRenewal, demands
<1>10. CASE CollectionsRestart
  BY <1>a, <1>10 DEF CollectionsRestart, FreePass, demands
<1>11. CASE UNCHANGED collVars
  BY <1>0, <1>11 DEF collVars, demands
<1>12. CASE crowded
  <2>1. crowded'
    BY <1>12 DEF CollectionsNext, BeginRecord, ReadUsage, Count, BeginPass, Remind, Mark, ListOverage, BillOverage, Charge,
       EndPass, NextWindow, NextStage, PayRenewal, CollectionsRestart, collVars
  <2> QED BY <2>1
<1> QED BY <1>1, <1>2, <1>3, <1>4, <1>5, <1>6, <1>7, <1>8, <1>9, <1>10, <1>11, <1>12 DEF CollectionsNext

-----------------------------------------------------------------------------
(* A counter against its events. *)

Recording(r, w) == recorder[r].window = w
Counted(w) == Cardinality(events[w])

\* Of a window where no use was taken for new twice: every use under way is new, and no
\* counter, nor what was read of it, exceeds the events.
NotTooMuch(w) ==
  /\ used[w] <= Counted(w)
  /\ \A r \in Recorders : Recording(r, w) =>
       /\ \A v \in Windows : recorder[r].use \notin events[v]
       /\ \A q \in Recorders : recorder[q].use = recorder[r].use => q = r
       /\ recorder[r].pc = "count" => recorder[r].saw <= Counted(w)
  /\ \A p \in Passes : pass[p].pc \in {"bill", "charge"} => pass[p].saw[w] <= Counted(w)
  /\ bills[w] > 0 => charged[w] <= Counted(w) - Allowance

\* And where recorders took turns, and none came after the window's bill: it is exact.
JustRight(w) ==
  /\ used[w] = Counted(w)
  /\ \A q, r \in Recorders : Recording(q, w) /\ Recording(r, w) => q = r
  /\ \A r \in Recorders : Recording(r, w) /\ recorder[r].pc = "count" => recorder[r].saw = used[w]
  /\ \A p \in Passes : pass[p].pc \in {"bill", "charge"} /\ w < pass[p].window => pass[p].saw[w] = used[w]
  /\ bills[w] > 0 => charged[w] = Counted(w) - Allowance

WindowOK(w) ==
  /\ IsFiniteSet(events[w])
  /\ w \notin doubled => NotTooMuch(w)
  /\ w \notin raced \cup doubled => JustRight(w)

CountersInv == \A w \in Windows : WindowOK(w)

LEMMA CountersInit == CollectionsInit => CountersInv
<1> SUFFICES ASSUME CollectionsInit, NEW w \in Windows PROVE WindowOK(w)
  BY DEF CountersInv
<1>1. events[w] = {} /\ IsFiniteSet(events[w]) /\ Counted(w) = 0
  BY FS_EmptySet DEF CollectionsInit, Counted
<1> QED BY <1>1, Counting DEF CollectionsInit, WindowOK, NotTooMuch, JustRight, Recording, FreeRecorder, FreePass

\* A step of the passes, the clock and a restart leaves the counters alone.
LEMMA CountersKept ==
  ASSUME CollectionsShape, NEW w \in Windows, WindowOK(w), UNCHANGED <<used, events, raced, doubled>>,
         recorder' = recorder \/ recorder' = [r \in Recorders |-> FreeRecorder],
         \A p \in Passes : pass'[p].pc \in {"bill", "charge"} =>
            \/ pass[p].pc \in {"bill", "charge"} /\ pass'[p].saw = pass[p].saw /\ pass'[p].window = pass[p].window
            \/ pass'[p].saw = used,
         \/ bills'[w] = bills[w] /\ charged'[w] = charged[w]
         \/ \E p \in Passes : /\ pass[p].pc = "charge" /\ w < pass[p].window /\ pass[p].saw[w] > Allowance
                              /\ charged'[w] = pass[p].saw[w] - Allowance
  PROVE  WindowOK(w)'
<1> USE Counting DEF CollectionsShape, CollectionsTypeOK, Recorder, Pass, FreeRecorder, Recording, RecorderOK
<1>1. IsFiniteSet(events[w])' /\ Counted(w)' = Counted(w) /\ Counted(w) \in Nat
  BY FS_CardinalityType DEF WindowOK, Counted
<1>2. ASSUME NotTooMuch(w) PROVE NotTooMuch(w)'
  <2>1. \A r \in Recorders : Recording(r, w)' => recorder' = recorder
    OBVIOUS
  <2>2. \A r, q \in Recorders : recorder' = recorder \/ ~Recording(r, w)'
    BY <2>1
  <2>3. bills'[w] > 0 => charged'[w] <= Counted(w) - Allowance
    <3>1. \A p \in Passes : pass[p].saw[w] \in Nat /\ (pass[p].pc = "charge" => pass[p].saw[w] <= Counted(w))
      <4> SUFFICES ASSUME NEW p \in Passes
                   PROVE  pass[p].saw[w] \in Nat /\ (pass[p].pc = "charge" => pass[p].saw[w] <= Counted(w))
        OBVIOUS
      <4>1. pass[p] \in Pass
        OBVIOUS
      <4>2. pass[p].saw \in [Windows -> Nat]
        BY <4>1
      <4> QED BY <1>2, <4>2 DEF NotTooMuch
    <3>2. Allowance \in Nat /\ (bills[w] > 0 => charged[w] <= Counted(w) - Allowance)
      BY <1>2 DEF NotTooMuch
    <3> QED BY <1>1, <3>1, <3>2
  <2>4. \A p \in Passes : pass'[p].pc \in {"bill", "charge"} => pass'[p].saw[w] <= Counted(w)
    BY <1>1, <1>2 DEF NotTooMuch
  <2> QED BY <1>1, <1>2, <2>1, <2>3, <2>4 DEF NotTooMuch
<1>3. ASSUME JustRight(w) PROVE JustRight(w)'
  BY <1>1, <1>3 DEF JustRight
<1> QED BY <1>1, <1>2, <1>3 DEF WindowOK

\* usage.record_usage: the counter, and whoever has read it, follow the events.
LEMMA CountersStep ==
  ASSUME CollectionsShape, CountersInv, [CollectionsNext]_collVars PROVE CountersInv'
<1> SUFFICES ASSUME NEW w \in Windows PROVE WindowOK(w)'
  BY DEF CountersInv
<1>0. WindowOK(w) /\ IsFiniteSet(events[w]) /\ Counted(w) \in Nat /\ CollectionsShape'
  BY FS_CardinalityType, CollectionsShapeStep DEF CountersInv, WindowOK, Counted
<1>1. ASSUME NEW r \in Recorders, NEW u \in Uses, NEW v \in Windows, BeginRecord(r, u, v) PROVE WindowOK(w)'
  <2> USE <1>0, <1>1 DEF BeginRecord, Records, counters, demands, CollectionsShape, CollectionsTypeOK, FreeRecorder, Recorder, RecorderOK, Recording
  <2>1. IsFiniteSet(events[w])' /\ Counted(w)' = Counted(w)
    BY DEF Counted
  <2>2. ASSUME w \notin doubled', NotTooMuch(w) PROVE NotTooMuch(w)'
    BY <2>1, <2>2 DEF NotTooMuch, NewUse
  <2>3. ASSUME w \notin raced' \cup doubled', JustRight(w) PROVE JustRight(w)'
    BY <2>1, <2>3 DEF JustRight
  <2> QED BY <2>1, <2>2, <2>3 DEF WindowOK
<1>2. ASSUME NEW r \in Recorders, ReadUsage(r) PROVE WindowOK(w)'
  <2> USE <1>0, <1>2 DEF ReadUsage, Records, counters, demands, CollectionsShape, CollectionsTypeOK, Recorder, RecorderOK, Recording
  <2>1. IsFiniteSet(events[w])' /\ Counted(w)' = Counted(w)
    BY DEF Counted
  <2>2. ASSUME NotTooMuch(w) PROVE NotTooMuch(w)'
    BY <2>1, <2>2 DEF NotTooMuch
  <2>3. ASSUME JustRight(w) PROVE JustRight(w)'
    BY <2>1, <2>3 DEF JustRight
  <2> QED BY <2>1, <2>2, <2>3 DEF WindowOK
<1>3. ASSUME NEW r \in Recorders, Count(r) PROVE WindowOK(w)'
  <2> DEFINE x == recorder[r]
  <2>0. /\ x.pc = "count" /\ x.window \in Windows /\ x.use \in Uses /\ x.saw \in Nat
        /\ used \in [Windows -> Nat] /\ events \in [Windows -> SUBSET Uses]
        /\ UNCHANGED <<bills, charged, pass, doubled>>
    BY <1>0, <1>3, Counting DEF Count, demands, CollectionsShape, CollectionsTypeOK, Recorder, RecorderOK
  <2>1. \A q \in Recorders : Recording(q, w)' => q # r /\ recorder'[q] = recorder[q] /\ Recording(q, w)
    BY <1>0, <1>3, Counting DEF Count, Records, FreeRecorder, CollectionsShape, CollectionsTypeOK, Recording
  <2>2. \/ UNCHANGED <<used, events, raced>>
        \/ /\ used' = [used EXCEPT ![x.window] = x.saw + 1]
           /\ events' = [events EXCEPT ![x.window] = @ \cup {x.use}]
           /\ raced' = raced \cup {v \in {x.window} : bills[v] > 0 \/ \E p \in Passes : pass[p].window > v}
    BY <1>3 DEF Count, counters
  <2>3. /\ bills \in [Windows -> Nat] /\ pass \in [Passes -> Pass]
        /\ \A p \in Passes : pass[p].saw \in [Windows -> Nat] /\ pass[p].window \in Nat
        /\ \A q \in Recorders : recorder[q].saw \in Nat
        /\ charged \in [Windows -> Nat] /\ Allowance \in Nat
    BY <1>0, Counting DEF CollectionsShape, CollectionsTypeOK, Pass, Recorder
  <2>4. ASSUME NotTooMuch(w), w \notin doubled, NEW q \in Recorders, Recording(q, w)', NEW v \in Windows
        PROVE  recorder'[q].use \notin events'[v]
    <3>1. recorder[q].use \notin events[v] /\ recorder[q].use # x.use
      BY <2>1, <2>4 DEF NotTooMuch
    <3>2. events'[v] \subseteq events[v] \cup {x.use}
      BY <2>0, <2>2
    <3> QED BY <2>1, <2>4, <3>1, <3>2
  <2>7. ASSUME NotTooMuch(w), w \notin doubled, NEW q \in Recorders, Recording(q, w)'
        PROVE  /\ \A v \in Windows : recorder'[q].use \notin events'[v]
               /\ \A o \in Recorders : recorder'[o].use = recorder'[q].use => o = q
               /\ recorder'[q] = recorder[q]
               /\ recorder'[q].pc = "count" => recorder'[q].saw <= Counted(w)
    <3>1. recorder'[q] = recorder[q] /\ Recording(q, w) /\ recorder[q].use \in Uses
      BY <1>0, <2>1, <2>7, Counting DEF CollectionsShape, RecorderOK, Recording
    <3>2. \A o \in Recorders : recorder'[o] = recorder[o] \/ recorder'[o] = FreeRecorder
      BY <1>0, <1>3 DEF Count, Records, CollectionsShape, CollectionsTypeOK
    <3>3. FreeRecorder.use \notin Uses
      BY CollectionsAssumption DEF FreeRecorder
    <3> QED BY <2>4, <2>7, <3>1, <3>2, <3>3 DEF NotTooMuch
  <2>5. CASE used'[w] = used[w] /\ events'[w] = events[w]
    <3>1. Counted(w)' = Counted(w)
      BY <2>5 DEF Counted
    <3>2. ASSUME NotTooMuch(w), w \notin doubled PROVE NotTooMuch(w)'
      BY <2>0, <2>5, <2>7, <3>1, <3>2 DEF NotTooMuch
    <3>3. ASSUME JustRight(w) PROVE JustRight(w)'
      BY <2>0, <2>1, <2>5, <3>1, <3>3 DEF JustRight
    <3> QED BY <1>0, <2>0, <2>2, <2>5, <3>1, <3>2, <3>3 DEF WindowOK
  <2>6. CASE w = x.window /\ events'[w] = events[w] \cup {x.use} /\ used'[w] = x.saw + 1
             /\ raced' = raced \cup {v \in {w} : bills[v] > 0 \/ \E p \in Passes : pass[p].window > v}
    <3>1. /\ IsFiniteSet(events'[w]) /\ Counted(w)' = IF x.use \in events[w] THEN Counted(w) ELSE Counted(w) + 1
      <4>1. IsFiniteSet(events[w] \cup {x.use})
            /\ Cardinality(events[w] \cup {x.use}) = IF x.use \in events[w] THEN Counted(w) ELSE Counted(w) + 1
        BY <1>0, FS_AddElement DEF Counted
      <4> QED BY <2>6, <4>1 DEF Counted
    <3>2. ASSUME NotTooMuch(w), w \notin doubled
          PROVE  Counted(w)' = Counted(w) + 1 /\ NotTooMuch(w)'
      <4>1. x.use \notin events[w] /\ x.saw <= Counted(w)
        BY <2>0, <2>6, <3>2 DEF NotTooMuch, Recording
      <4>2. Counted(w)' = Counted(w) + 1
        BY <3>1, <4>1
      <4>3. used'[w] <= Counted(w)'
        BY <1>0, <2>0, <2>6, <4>1, <4>2
      <4>4. ASSUME NEW q \in Recorders, Recording(q, w)'
            PROVE  /\ \A v \in Windows : recorder'[q].use \notin events'[v]
                   /\ \A o \in Recorders : recorder'[o].use = recorder'[q].use => o = q
                   /\ recorder'[q].pc = "count" => recorder'[q].saw <= Counted(w)'
        BY <1>0, <2>3, <2>7, <3>2, <4>2, <4>4
      <4>5. \A p \in Passes : pass'[p].pc \in {"bill", "charge"} => pass'[p].saw[w] <= Counted(w)'
        BY <1>0, <2>0, <2>3, <3>2, <4>2 DEF NotTooMuch
      <4>6. bills'[w] > 0 => charged'[w] <= Counted(w)' - Allowance
        BY <1>0, <2>0, <2>3, <3>2, <4>2 DEF NotTooMuch
      <4> QED BY <4>2, <4>3, <4>4, <4>5, <4>6 DEF NotTooMuch
    <3>3. ASSUME JustRight(w), NotTooMuch(w), w \notin raced' \cup doubled PROVE JustRight(w)'
      <4>1. bills[w] = 0 /\ \A p \in Passes : ~(w < pass[p].window)
        BY <2>3, <2>6, <3>3, Counting
      <4>2. x.saw = Counted(w)
        BY <2>0, <2>6, <3>3 DEF JustRight, Recording
      <4>3. \A q \in Recorders : ~Recording(q, w)'
        BY <2>0, <2>1, <2>6, <3>3 DEF JustRight, Recording
      <4> QED BY <2>0, <2>3, <2>6, <3>2, <3>3, <4>1, <4>2, <4>3 DEF JustRight
    <3> QED BY <1>0, <2>0, <2>6, <3>1, <3>2, <3>3 DEF WindowOK
  <2> QED BY <2>0, <2>2, <2>5, <2>6
<1>4. ASSUME NEW p \in Passes, \/ BeginPass(p) \/ Remind(p) \/ Mark(p) \/ ListOverage(p) \/ Charge(p) \/ EndPass(p)
                               \/ \E v \in Windows : BillOverage(p, v)
      PROVE  WindowOK(w)'
  <2>1. UNCHANGED <<used, events, raced, doubled, recorder>>
    BY <1>4 DEF BeginPass, Remind, Mark, ListOverage, Charge, EndPass, BillOverage, counters
  <2>2. ASSUME NEW q \in Passes, pass'[q].pc \in {"bill", "charge"}
        PROVE  \/ pass[q].pc \in {"bill", "charge"} /\ pass'[q].saw = pass[q].saw /\ pass'[q].window = pass[q].window
               \/ pass'[q].saw = used
    <3>1. pass \in [Passes -> Pass]
      BY <1>0 DEF CollectionsShape, CollectionsTypeOK
    <3>2. CASE Charge(p) \/ EndPass(p) \/ \E v \in Windows : BillOverage(p, v)
      <4> DEFINE SameList(y) == y.pc \in {"bill", "charge"} => /\ pass[p].pc \in {"bill", "charge"}
                                                               /\ y.saw = pass[p].saw /\ y.window = pass[p].window
      <4>1. \E y : pass' = [pass EXCEPT ![p] = y] /\ SameList(y)
        <5>1. CASE Charge(p)
          BY <3>1, <5>1 DEF Charge, Passing, Pass
        <5>2. CASE EndPass(p)
          <6>1. pass' = [pass EXCEPT ![p] = FreePass] /\ SameList(FreePass)
            BY <5>2 DEF EndPass, Passing, FreePass
          <6> QED BY <6>1
        <5>3. ASSUME NEW v \in Windows, BillOverage(p, v) PROVE \E y : pass' = [pass EXCEPT ![p] = y] /\ SameList(y)
          <6> DEFINE y == [pass[p] EXCEPT !.todo = @ \ {v}, !.bill = v, !.pc = IF NotBilled(v) THEN "charge" ELSE "bill"]
          <6>1. pass[p] \in Pass
            BY <3>1
          <6>2. y.saw = pass[p].saw /\ y.window = pass[p].window
            BY <6>1 DEF Pass
          <6>3. pass' = [pass EXCEPT ![p] = y] /\ pass[p].pc = "bill"
            BY <5>3 DEF BillOverage, Passing
          <6> HIDE DEF y
          <6> QED BY <6>2, <6>3
        <5> QED BY <3>2, <5>1, <5>2, <5>3
      <4> QED BY <2>2, <3>1, <4>1
    <3>3. CASE ListOverage(p)
      BY <2>2, <3>1, <3>3 DEF ListOverage, Passing, Pass
    <3>4. CASE BeginPass(p) \/ Remind(p) \/ Mark(p)
      <4>1. PICK y : pass' = [pass EXCEPT ![p] = y] /\ y.pc \in {"idle", "remind", "mark", "list"}
        <5> DEFINE Early(y) == y.pc \in {"idle", "remind", "mark", "list"}
        <5>1. Early(FreePass) /\ Early([FreePass EXCEPT !.pc = "remind", !.stage = stage, !.window = window])
              /\ Early([pass[p] EXCEPT !.pc = "mark"]) /\ Early([pass[p] EXCEPT !.pc = "list"])
          <6>1. pass[p] \in Pass
            BY <3>1
          <6> QED BY <6>1 DEF Pass, FreePass
        <5> HIDE DEF Early
        <5>2. \E y : pass' = [pass EXCEPT ![p] = y] /\ Early(y)
          BY <3>4, <5>1 DEF BeginPass, Remind, Mark, Passing
        <5> QED BY <5>2 DEF Early
      <4> QED BY <2>2, <3>1, <4>1
    <3> QED BY <1>4, <3>2, <3>3, <3>4
  <2>3. \/ bills'[w] = bills[w] /\ charged'[w] = charged[w]
        \/ \E q \in Passes : /\ pass[q].pc = "charge" /\ w < pass[q].window /\ pass[q].saw[w] > Allowance
                             /\ charged'[w] = pass[q].saw[w] - Allowance
    BY <1>4 DEF BeginPass, Remind, Mark, ListOverage, Charge, EndPass, BillOverage, demands, CollectionsShape,
       CollectionsTypeOK, PassOK
  <2> QED BY <1>0, <2>1, <2>2, <2>3, CountersKept
<1>5. ASSUME NextWindow \/ NextStage \/ PayRenewal \/ CollectionsRestart \/ UNCHANGED collVars PROVE WindowOK(w)'
  <2>1. /\ UNCHANGED <<used, events, raced, doubled, bills, charged>>
        /\ recorder' = recorder \/ recorder' = [r \in Recorders |-> FreeRecorder]
        /\ pass' = pass \/ pass' = [p \in Passes |-> FreePass]
    BY <1>5 DEF NextWindow, NextStage, PayRenewal, CollectionsRestart, collVars, counters, demands
  <2> QED BY <1>0, <2>1, CountersKept DEF FreePass
<1> QED BY <1>1, <1>2, <1>3, <1>4, <1>5 DEF CollectionsNext

-----------------------------------------------------------------------------
\* The variables keep their types (usage.py, collections.py).
THEOREM CollectionsTypeCorrect == CollectionsSpec => []CollectionsTypeOK
<1>1. CollectionsShape => CollectionsTypeOK
  BY DEF CollectionsShape
<1> QED BY <1>1, CollectionsShapeInit, CollectionsShapeStep, PTL DEF CollectionsSpec

\* Each reminder and each overage bill happens once unless two passes ran at once, and a bill is
\* for what was used beyond the allowance, for less only when recorders met or came late, for
\* more only when one use was counted twice (models/billing.py:10, usage.py:177,
\* collections.py:241).
THEOREM CollectionsCorrect == CollectionsSpec => []Collected
<1>1. DemandsInv => DemandedOnce
  BY DEF DemandsInv, DemandedOnce
<1>2. CountersInv => BilledForUse
  BY DEF CountersInv, WindowOK, NotTooMuch, JustRight, BilledForUse, Counted
<1> QED BY <1>1, <1>2, CollectionsShapeInit, CollectionsShapeStep, DemandsInit, DemandsStep, CountersInit, CountersStep, PTL
       DEF CollectionsSpec, Collected
=============================================================================
