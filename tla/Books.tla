------------------------------- MODULE Books -------------------------------
(***************************************************************************)
(* Tax invoices, credit notes and the invoice e-mail (services/zatca.py,   *)
(* main.py).  A clerk is a request with a database session of its own: the *)
(* invoice page, the owner's credit note or the end of a checkout.  What a *)
(* clerk has not committed nobody else sees; a number is drawn under the   *)
(* lock of its series' row and becomes visible with the document.          *)
(*                                                                         *)
(* Abstracted: lines, VAT, seller and QR code; of a document the model     *)
(* keeps its number, and of the credit notes of a payment their sum.       *)
(***************************************************************************)
EXTENDS Naturals, Sequences

CONSTANTS
  Payments,
  Subtotal,      \* [Payments -> Nat]: what the invoice of a payment is over
  Clerks,
  MaxErrands,    \* bound: requests begun
  NoPayment, NoClerk

Kinds == {"invoice", "credit_note"}  \* INVOICE_SERIES, CREDIT_SERIES

ASSUME BooksAssumption ==
  /\ Subtotal \in [Payments -> Nat] /\ MaxErrands \in Nat
  /\ NoPayment \notin Payments /\ NoClerk \notin Clerks

VARIABLES
  paid,      \* payments whose status is paid
  series,    \* invoice_sequences: last_value; 0: the row does not exist
  holder,    \* who holds the row of a series, or has inserted it and not committed
  invoice,   \* tax_invoices of kind invoice: the number, 0 if there is none
  notes,     \* tax_invoices of kind credit_note: the numbers, in order of credit_seq
  credited,  \* the sum of their subtotals
  emailed,   \* payments whose invoice_emailed_at is set
  clerk,
  errands,   \* begun so far
  letters,   \* external: how often the customer got the invoice
  unsure,    \* history: payments whose e-mail went out and was reported as failed
  cut        \* history: payments whose e-mail was interrupted by a restart

documents == <<series, holder, invoice, notes, credited>>
mailing == <<emailed, letters, unsure, cut>>
booksVars == <<paid, series, holder, invoice, notes, credited, emailed, clerk, errands,
               letters, unsure, cut>>

Clerk == [pc : {"idle", "select", "insert", "issue", "notes", "send", "release"},
          pay : Payments \cup {NoPayment}, kind : Kinds,
          want : Nat,       \* the amount to credit, 0: all that is left
          credit : BOOLEAN, \* after the invoice, a credit note
          seq : Nat, amount : Nat, number : Nat]
FreeClerk == [pc |-> "idle", pay |-> NoPayment, kind |-> "invoice", want |-> 0, credit |-> FALSE,
              seq |-> 0, amount |-> 0, number |-> 0]

BooksTypeOK ==
  /\ paid \subseteq Payments
  /\ series \in [Kinds -> Nat] /\ holder \in [Kinds -> Clerks \cup {NoClerk}]
  /\ invoice \in [Payments -> Nat] /\ notes \in [Payments -> Seq(Nat)]
  /\ credited \in [Payments -> Nat] /\ emailed \subseteq Payments
  /\ clerk \in [Clerks -> Clerk] /\ errands \in Nat
  /\ letters \in [Payments -> Nat] /\ unsure \subseteq Payments /\ cut \subseteq Payments

BooksInit ==
  /\ paid = {} /\ series = [k \in Kinds |-> 0] /\ holder = [k \in Kinds |-> NoClerk]
  /\ invoice = [p \in Payments |-> 0] /\ notes = [p \in Payments |-> <<>>]
  /\ credited = [p \in Payments |-> 0] /\ emailed = {} /\ clerk = [c \in Clerks |-> FreeClerk]
  /\ errands = 0 /\ letters = [p \in Payments |-> 0] /\ unsure = {} /\ cut = {}

AtDesk(c, pc) == clerk[c].pc = pc
Does(c, r) == clerk' = [clerk EXCEPT ![c] = r]
Errand(c) == AtDesk(c, "idle") /\ errands < MaxErrands /\ errands' = errands + 1

\* Whether an order is paid is decided elsewhere (Settlement), and may be taken back.
Settle(p) ==
  /\ paid' = IF p \in paid THEN paid \ {p} ELSE paid \cup {p}
  /\ UNCHANGED <<documents, mailing, clerk, errands>>

-----------------------------------------------------------------------------
(* ensure_invoice, issue_credit_note and next_number.                      *)

\* The invoice page: the first visit after the payment issues the invoice.
VisitInvoice(c, p) ==
  /\ Errand(c) /\ p \in paid /\ invoice[p] = 0
  /\ Does(c, [FreeClerk EXCEPT !.pc = "select", !.pay = p])
  /\ UNCHANGED <<paid, documents, mailing>>

\* owner_credit_note: the invoice is issued first when it is missing and the order is paid.
AskCredit(c, p, want) ==
  /\ Errand(c) /\ (p \in paid \/ invoice[p] # 0)
  /\ Does(c, [FreeClerk EXCEPT !.pc = IF invoice[p] # 0 THEN "notes" ELSE "select",
                               !.pay = p, !.want = want, !.credit = TRUE])
  /\ UNCHANGED <<paid, documents, mailing>>

\* What is left to credit; a wrong amount is refused.
ReadNotes(c) ==
  /\ AtDesk(c, "notes")
  /\ LET r == clerk[c]
         left == Subtotal[r.pay] - credited[r.pay]
         amount == IF r.want = 0 THEN left ELSE r.want
     IN Does(c, IF amount \in 1..left
                THEN [r EXCEPT !.pc = "select", !.kind = "credit_note", !.credit = FALSE,
                               !.seq = Len(notes[r.pay]) + 1, !.amount = amount]
                ELSE FreeClerk)
  /\ UNCHANGED <<paid, documents, mailing, errands>>

Unlocked(k) == holder[k] = NoClerk

Draws(c) ==
  /\ holder' = [holder EXCEPT ![clerk[c].kind] = c]
  /\ Does(c, [clerk[c] EXCEPT !.pc = "issue", !.number = series[clerk[c].kind] + 1])

\* SELECT ... FOR UPDATE: waits for the holder, then sees what it committed.  A row that is
\* not committed yet is not seen at all.
SelectSeries(c) ==
  /\ AtDesk(c, "select")
  /\ IF series[clerk[c].kind] = 0
     THEN Does(c, [clerk[c] EXCEPT !.pc = "insert"]) /\ holder' = holder
     ELSE Unlocked(clerk[c].kind) /\ Draws(c)
  /\ UNCHANGED <<paid, series, invoice, notes, credited, mailing, errands>>

\* The first number of a series: the insert waits for another one, and fails if that commits.
InsertSeries(c) ==
  /\ AtDesk(c, "insert") /\ Unlocked(clerk[c].kind)
  /\ IF series[clerk[c].kind] = 0 THEN Draws(c) ELSE Does(c, FreeClerk) /\ holder' = holder
  /\ UNCHANGED <<paid, series, invoice, notes, credited, mailing, errands>>

NoUniqueKey(r) == FALSE  \* mutant: no uq_tax_invoice_payment_kind

\* uq_tax_invoice_payment_kind (payment, kind, credit_seq).
Taken(r) == IF r.kind = "invoice" THEN invoice[r.pay] # 0 ELSE r.seq \in DOMAIN notes[r.pay]

\* The document and the number are committed together, or neither is.
Issue(c) ==
  /\ AtDesk(c, "issue")
  /\ LET r == clerk[c]
     IN /\ holder' = [holder EXCEPT ![r.kind] = NoClerk]
        /\ IF Taken(r) THEN UNCHANGED <<series, invoice, notes, credited>> /\ Does(c, FreeClerk)
           ELSE /\ series' = [series EXCEPT ![r.kind] = r.number]
                /\ IF r.kind = "invoice"
                   THEN invoice' = [invoice EXCEPT ![r.pay] = r.number] /\ UNCHANGED <<notes, credited>>
                   ELSE /\ notes' = [notes EXCEPT ![r.pay] = Append(@, r.number)]
                        /\ credited' = [credited EXCEPT ![r.pay] = @ + r.amount]
                        /\ UNCHANGED invoice
                /\ Does(c, IF r.credit THEN [r EXCEPT !.pc = "notes"] ELSE FreeClerk)
  /\ UNCHANGED <<paid, mailing, errands>>

-----------------------------------------------------------------------------
(* _send_invoice_once.                                                     *)

AnyClaim(p) == TRUE  \* mutant: sent without looking at the claim
Claimable(p) == p \notin emailed

\* One UPDATE ... WHERE invoice_emailed_at IS NULL claims the payment.
ClaimLetter(c, p) ==
  /\ Errand(c) /\ p \in paid /\ Claimable(p)
  /\ emailed' = emailed \cup {p}
  /\ Does(c, [FreeClerk EXCEPT !.pc = "send", !.pay = p])
  /\ UNCHANGED <<paid, documents, letters, unsure, cut>>

SendLetter(c) ==
  /\ AtDesk(c, "send")
  /\ letters' = [letters EXCEPT ![clerk[c].pay] = @ + 1]
  /\ \/ Does(c, FreeClerk) /\ unsure' = unsure
     \/ Does(c, [clerk[c] EXCEPT !.pc = "release"]) /\ unsure' = unsure \cup {clerk[c].pay}
  /\ UNCHANGED <<paid, documents, emailed, cut, errands>>

LetterFails(c) ==
  /\ AtDesk(c, "send") /\ Does(c, [clerk[c] EXCEPT !.pc = "release"])
  /\ UNCHANGED <<paid, documents, mailing, errands>>

ReleaseLetter(c) ==
  /\ AtDesk(c, "release") /\ emailed' = emailed \ {clerk[c].pay} /\ Does(c, FreeClerk)
  /\ UNCHANGED <<paid, documents, letters, unsure, cut, errands>>

-----------------------------------------------------------------------------
\* The process restarts, or loses its database: open transactions are rolled back.
BooksRestart ==
  /\ \E c \in Clerks : ~AtDesk(c, "idle")
  /\ clerk' = [c \in Clerks |-> FreeClerk]
  /\ holder' = [k \in Kinds |-> NoClerk]
  /\ cut' = cut \cup {p \in Payments : \E c \in Clerks : clerk[c].pay = p
                                         /\ clerk[c].pc \in {"send", "release"}}
  /\ UNCHANGED <<paid, series, invoice, notes, credited, emailed, errands, letters, unsure>>

BooksNext ==
  \/ \E c \in Clerks :
       \/ \E p \in Payments : \/ VisitInvoice(c, p) \/ ClaimLetter(c, p)
                              \/ \E want \in 0..Subtotal[p] : AskCredit(c, p, want)
       \/ ReadNotes(c) \/ SelectSeries(c) \/ InsertSeries(c) \/ Issue(c)
       \/ SendLetter(c) \/ LetterFails(c) \/ ReleaseLetter(c)
  \/ \E p \in Payments : Settle(p)
  \/ BooksRestart

BooksSpec == BooksInit /\ [][BooksNext]_booksVars

-----------------------------------------------------------------------------
(* Gapless numbers.                                                        *)

InvoicesNumbered ==
  /\ \A p \in Payments : invoice[p] <= series["invoice"]
  /\ \A n \in 1..series["invoice"] : \E p \in Payments : invoice[p] = n
  /\ \A p, q \in Payments : invoice[p] = invoice[q] => p = q \/ invoice[p] = 0

NotesNumbered ==
  /\ \A p \in Payments : \A i \in DOMAIN notes[p] : notes[p][i] \in 1..series["credit_note"]
  /\ \A n \in 1..series["credit_note"] : \E p \in Payments : \E i \in DOMAIN notes[p] : notes[p][i] = n
  /\ \A p, q \in Payments : \A i \in DOMAIN notes[p], j \in DOMAIN notes[q] :
       notes[p][i] = notes[q][j] => p = q /\ i = j

CreditsBounded ==
  \A p \in Payments : /\ credited[p] <= Subtotal[p]
                      /\ credited[p] # 0 => invoice[p] # 0

\* The documents of each series are numbered 1, 2, ... without a gap and without a number
\* used twice, whoever collides or is rolled back (next_number, zatca.py:249), and the credit
\* notes of an invoice never exceed it ("Never credits more than the original invoice",
\* zatca.py:316).
BooksBalance == InvoicesNumbered /\ NotesNumbered /\ CreditsBounded

Mailing(p) == \E c \in Clerks : clerk[c].pay = p /\ clerk[c].pc \in {"send", "release"}

\* "Email the paid invoice at most once" (main.py:3629), unless the mail server's answer was
\* lost; and a payment that stays claimed has got its letter, unless a restart interrupted it.
InvoiceMailedOnce ==
  \A p \in Payments : /\ letters[p] <= 1 \/ p \in unsure
                      /\ p \in emailed /\ ~Mailing(p) => letters[p] >= 1 \/ p \in cut

\* The hazards of invoicing together: clerks who collide, roll back and restart.
BooksSafe == BooksBalance /\ InvoiceMailedOnce
=============================================================================
