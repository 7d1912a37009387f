----------------------------- MODULE Receivables -----------------------------
(***************************************************************************)
(* Money on customers' invoices: purchase orders and what draws on them,   *)
(* proformas and tax invoices, payments, received amounts and what of them *)
(* is mapped to invoices, TDS the customer withheld, credit notes and      *)
(* change requests (routers/crm/finance.py, customer_receipts.py,          *)
(* credit_notes.py, invoice_revisions.py, services/tax.py, tds.py,         *)
(* finance.py, invoice_payments.py, proforma.py, crm_delete.py).           *)
(*                                                                         *)
(* The same money is kept in several places: an invoice carries what was   *)
(* paid, what was withheld and what is left; a receipt what is left on     *)
(* account; a purchase order what was drawn.  No handler locks a row: each *)
(* reads (READ COMMITTED), computes absolute values, and at commit writes  *)
(* the columns that differ from what it read.                              *)
(*                                                                         *)
(* Abstractions.  One customer with one branch; amounts are whole; the     *)
(* total of an invoice is a function of its base value (GST); invoice      *)
(* dates are free, so "oldest first" is any order.  A request reads at one *)
(* moment.  Numbers, round-off, returned proformas, allocations of an      *)
(* order to projects, a receipt's copy of the TDS booked with it and       *)
(* payment_status, which follows the balance, are left out.                *)
(***************************************************************************)
EXTENDS Integers, FiniteSets, FiniteSetsExt, Functions

CONSTANTS
  Invoice, Po, Receipt, Payment, Note, Revision,  \* the ids of rows
  Txn,          \* database sessions that may be open at once
  Base,         \* values of invoices before GST
  Total,        \* Total[s]: what the customer pays for base value s
  Cash,         \* amounts that are entered
  Orders,       \* values of purchase orders
  MaxMoney,     \* bound: sums of payments
  Opening,      \* the books at the start
  MaxOps,       \* bound: requests
  MaxOverlaps,  \* bound: those that arrive while another is open
  NoPo, NoReceipt, NoInvoice

Money == 0..MaxMoney

(* open: the customer approved and the e-invoice number is recorded;        *)
(* credit: a credit note was taken off the balance since it was last worked *)
(* out (history).                                                           *)
InvoiceRow == [kind : {"none", "proforma", "tax", "gone"}, sub : Base, po : Po \cup {NoPo},
               paid : Int, tds : Nat, balance : Nat, open : BOOLEAN, credit : BOOLEAN]
PoRow == [status : {"Active", "Exhausted", "Cancelled", "gone"},
          total : Orders, consumed : Int, balance : Nat]
ReceiptRow == [st : {"none", "live", "gone"}, amount : Nat, left : Nat]
PaymentRow ==
  {pay \in [st : {"none", "live", "gone"}, inv : Invoice \cup {NoInvoice},
            rc : Receipt \cup {NoReceipt}, amount : Nat] :
     pay.st = "live" => pay.inv \in Invoice}
(* got: TDS payments were recorded on it.                                   *)
TdsRow == [live : BOOLEAN, amount : Nat, rc : Receipt \cup {NoReceipt}, got : BOOLEAN]
NoteRow == [status : {"none", "Draft", "Approved", "Settled", "Cancelled"},
            inv : Invoice \cup {NoInvoice}, amount : Nat]
(* sub = 0: the lines stay; po = NoPo: the order stays.                     *)
RevisionRow ==
  {rev \in [status : {"none", "Pending", "Decided"}, inv : Invoice \cup {NoInvoice},
            sub : Base \cup {0}, po : Po \cup {NoPo}] :
     rev.status = "Pending" => rev.inv \in Invoice}

Books == [inv : [Invoice -> InvoiceRow], po : [Po -> PoRow], rc : [Receipt -> ReceiptRow],
          pay : [Payment -> PaymentRow], tds : [Invoice -> TdsRow],
          note : [Note -> NoteRow], rev : [Revision -> RevisionRow]]

Floor(x) == IF x > 0 THEN x ELSE 0
Due(row) == Total[row.sub] - row.paid - row.tds

ASSUME BooksAssumption ==
  /\ IsFiniteSet(Invoice) /\ IsFiniteSet(Payment)
  /\ Base \subseteq Nat \ {0} /\ Cash \subseteq Nat \ {0} /\ Orders \subseteq Nat
  /\ MaxMoney \in Nat /\ MaxOps \in Nat /\ MaxOverlaps \in Nat
  /\ Total \in [Base -> Nat]
  /\ NoPo \notin Po /\ NoReceipt \notin Receipt /\ NoInvoice \notin Invoice

ASSUME OpeningAssumption ==
  /\ Opening \in Books
  /\ \A i \in Invoice : /\ Opening.inv[i].balance = Floor(Due(Opening.inv[i]))
                        /\ ~Opening.inv[i].credit
  /\ \A p \in Po : /\ Opening.po[p].consumed <= Opening.po[p].total
                   /\ Opening.po[p].balance = Opening.po[p].total - Opening.po[p].consumed

(* A TDS record that is not there was booked with no receipt.               *)
ASSUME AbsentTds == \A i \in Invoice : Opening.tds[i].live \/ Opening.tds[i].rc = NoReceipt

VARIABLES
  books,   \* the committed tables
  txn,     \* txn[t]: what an open session read, and what it will make of it
  torn,    \* rows a session wrote across another's change (history)
  undone,  \* receipts that paid an invoice that was undone (history)
  used     \* requests so far, and overlaps among them

vars == <<books, txn, torn, undone, used>>

Closed == [open |-> FALSE, was |-> Opening, new |-> Opening, undoes |-> {}]
Session == [open : BOOLEAN, was : Books, new : Books, undoes : SUBSET Receipt]

TypeOK ==
  /\ books \in Books
  /\ txn \in [Txn -> Session]
  /\ torn \subseteq Invoice \cup Po \cup Receipt
  /\ undone \subseteq Receipt
  /\ used \in [ops : 0..MaxOps, overlaps : 0..MaxOverlaps]

Init ==
  /\ books = Opening
  /\ txn = [t \in Txn |-> Closed]
  /\ torn = {} /\ undone = {}
  /\ used = [ops |-> 0, overlaps |-> 0]

------------------------------------------------------------------------------
(* Sessions.                                                                *)

Issued(b, i) == b.inv[i].kind \in {"proforma", "tax"}
PaymentsOn(b, i) == {k \in Payment : b.pay[k].st = "live" /\ b.pay[k].inv = i}
PaymentsOf(b, r) == {k \in Payment : b.pay[k].st = "live" /\ b.pay[k].rc = r}
DrawnOn(b, p) == {i \in Invoice : b.inv[i].kind = "tax" /\ b.inv[i].po = p}

Busy == \E t \in Txn : txn[t].open
MayAsk == used.ops < MaxOps /\ (Busy => used.overlaps < MaxOverlaps)
Counted ==
  /\ MayAsk
  /\ used' = [ops |-> used.ops + 1,
              overlaps |-> IF Busy THEN used.overlaps + 1 ELSE used.overlaps]

(* A request turns the books it read into c; it commits at once, or while   *)
(* others do.                                                               *)
Ask(c, undoes) ==
  /\ Counted
  /\ \/ /\ books' = c /\ undone' = undone \cup undoes
        /\ UNCHANGED <<txn, torn>>
     \/ \E t \in Txn :
          /\ ~txn[t].open /\ used'.overlaps < MaxOverlaps
          /\ txn' = [txn EXCEPT ![t] = [open |-> TRUE, was |-> books, new |-> c,
                                        undoes |-> undoes]]
          /\ UNCHANGED <<books, torn, undone>>

Asks(c) == Ask(c, {})

(* Ids come from sequences: no two sessions draw the same one.              *)
Unused(seen(_)) == seen(books) /\ \A t \in Txn : txn[t].open => seen(txn[t].new)
FreshInvoice(i) == LET none(b) == b.inv[i].kind = "none" IN Unused(none)
FreshReceipt(r) == LET none(b) == b.rc[r].st = "none" IN Unused(none)
FreshPayment(k) == LET none(b) == b.pay[k].st = "none" IN Unused(none)
FreshNote(n) == LET none(b) == b.note[n].status = "none" IN Unused(none)
FreshRevision(v) == LET none(b) == b.rev[v].status = "none" IN Unused(none)

(* SQLAlchemy writes a column only if it differs from what the session read. *)
Written(new, read, now) == IF new # read THEN new ELSE now

MergedInvoice(w, n, now) ==
  [kind |-> Written(n.kind, w.kind, now.kind), sub |-> Written(n.sub, w.sub, now.sub),
   po |-> Written(n.po, w.po, now.po), paid |-> Written(n.paid, w.paid, now.paid),
   tds |-> Written(n.tds, w.tds, now.tds),
   balance |-> Written(n.balance, w.balance, now.balance),
   open |-> Written(n.open, w.open, now.open),
   credit |-> Written(n.credit, w.credit, now.credit)]
MergedPo(w, n, now) ==
  [status |-> Written(n.status, w.status, now.status),
   total |-> Written(n.total, w.total, now.total),
   consumed |-> Written(n.consumed, w.consumed, now.consumed),
   balance |-> Written(n.balance, w.balance, now.balance)]
MergedReceipt(w, n, now) ==
  [st |-> Written(n.st, w.st, now.st), amount |-> Written(n.amount, w.amount, now.amount),
   left |-> Written(n.left, w.left, now.left)]

(* ON DELETE SET NULL: what others booked with a receipt this session       *)
(* deletes stays, without it.  ON DELETE CASCADE: change requests others    *)
(* made on an invoice it deletes go.                                        *)
Removed(w, n) == {r \in Receipt : w.rc[r].st = "live" /\ n.rc[r].st = "gone"}
Kept(row, w, n) == IF row.rc \in Removed(w, n) THEN [row EXCEPT !.rc = NoReceipt] ELSE row
Ended(row, w, n) ==
  IF \E i \in Invoice : row.inv = i /\ Issued(w, i) /\ ~Issued(n, i)
    THEN [row EXCEPT !.status = "Decided"] ELSE row

Merged(w, n) ==
  [inv |-> [i \in Invoice |-> MergedInvoice(w.inv[i], n.inv[i], books.inv[i])],
   po |-> [p \in Po |-> MergedPo(w.po[p], n.po[p], books.po[p])],
   rc |-> [r \in Receipt |-> MergedReceipt(w.rc[r], n.rc[r], books.rc[r])],
   pay |-> [k \in Payment |-> Kept(Written(n.pay[k], w.pay[k], books.pay[k]), w, n)],
   tds |-> [i \in Invoice |-> Kept(Written(n.tds[i], w.tds[i], books.tds[i]), w, n)],
   note |-> [m \in Note |-> Written(n.note[m], w.note[m], books.note[m])],
   rev |-> [v \in Revision |-> Ended(Written(n.rev[v], w.rev[v], books.rev[v]), w, n)]]

(* Foreign keys hold in b.                                                  *)
Referred(b) ==
  /\ \A k \in Payment : b.pay[k].st = "live" =>
       /\ Issued(b, b.pay[k].inv)
       /\ b.pay[k].rc # NoReceipt => b.rc[b.pay[k].rc].st = "live"
  /\ \A i \in Invoice :
       /\ b.tds[i].live => /\ Issued(b, i)
                           /\ b.tds[i].rc # NoReceipt => b.rc[b.tds[i].rc].st = "live"
       /\ Issued(b, i) /\ b.inv[i].po # NoPo => b.po[b.inv[i].po].status # "gone"
  /\ \A m \in Note : b.note[m].status # "none" => Issued(b, b.note[m].inv)
  /\ \A v \in Revision : b.rev[v].status = "Pending" => Issued(b, b.rev[v].inv)

(* A row that is updated is still there: else StaleDataError.  The TDS of   *)
(* an invoice is unique; one that was received meanwhile cannot be deleted. *)
Present(w, n) ==
  /\ \A i \in Invoice : n.inv[i] # w.inv[i] /\ Issued(w, i) /\ Issued(n, i) => Issued(books, i)
  /\ \A p \in Po : n.po[p] # w.po[p] /\ n.po[p].status # "gone" => books.po[p].status # "gone"
  /\ \A r \in Receipt : n.rc[r] # w.rc[r] /\ w.rc[r].st = "live" /\ n.rc[r].st = "live"
                          => books.rc[r].st = "live"
  /\ \A i \in Invoice :
       /\ n.tds[i].live /\ ~w.tds[i].live => ~books.tds[i].live
       /\ n.tds[i] # w.tds[i] /\ w.tds[i].live => books.tds[i].got = w.tds[i].got
       /\ n.tds[i].live /\ w.tds[i].live /\ n.tds[i] # w.tds[i] => books.tds[i].live

(* What a row is accounted with.                                            *)
InvoiceView(b, i) == <<b.inv[i], b.tds[i], PaymentsOn(b, i)>>
PoView(b, p) == <<b.po[p], [i \in DrawnOn(b, p) |-> b.inv[i].sub]>>
ReceiptView(b, r) == <<b.rc[r], PaymentsOf(b, r)>>

(* Torn, unless the session left the row alone, or it stood as read and is  *)
(* now what the session made of it.                                         *)
Clean(was, new, now, then) == (was = new /\ then = now) \/ (was = now /\ then = new)

Torn(w, n, m) ==
  {i \in Invoice : ~Clean(InvoiceView(w, i), InvoiceView(n, i),
                         InvoiceView(books, i), InvoiceView(m, i))}
    \cup {p \in Po : ~Clean(PoView(w, p), PoView(n, p), PoView(books, p), PoView(m, p))}
    \cup {r \in Receipt : ~Clean(ReceiptView(w, r), ReceiptView(n, r),
                                 ReceiptView(books, r), ReceiptView(m, r))}

Commit(t) ==
  LET w == txn[t].was
      n == txn[t].new
      m == Merged(w, n) IN
  /\ txn[t].open /\ Present(w, n) /\ Referred(m)
  /\ books' = m
  /\ torn' = torn \cup Torn(w, n, m)
  /\ undone' = undone \cup txn[t].undoes
  /\ txn' = [txn EXCEPT ![t] = Closed]
  /\ UNCHANGED used

(* A constraint fails, two numbers drawn at once clash, the connection      *)
(* breaks.                                                                  *)
RollBack(t) ==
  /\ txn[t].open
  /\ txn' = [txn EXCEPT ![t] = Closed]
  /\ UNCHANGED <<books, torn, undone, used>>

------------------------------------------------------------------------------
(* services/tax.py: figures of one row.                                     *)

\* Mutant: an overpaid invoice shows a negative balance.
Unfloored(row) == [row EXCEPT !.balance = Due(row), !.credit = FALSE]

(* refresh_invoice_balance, apply_round_off: credits are not in it.         *)
Refreshed(row) == [row EXCEPT !.balance = Floor(Due(row)), !.credit = FALSE]

\* Mutant: TDS is followed on its record only.
OnRecordOnly(row, a) == [row EXCEPT !.tds = Floor(@ + a)]

PaidMore(row, a) == Refreshed([row EXCEPT !.paid = @ + a])
Withheld(row, a) == Refreshed([row EXCEPT !.tds = Floor(@ + a)])

(* apply_po_consumption; a Cancelled order is not recognised as such.       *)
Consumed(row, d) ==
  LET left == row.total - row.consumed - d IN
  [row EXCEPT !.consumed = @ + d, !.balance = Floor(left),
              !.status = IF left <= 0 THEN "Exhausted" ELSE "Active"]

(* move_po_drawdown.                                                        *)
Moved(orders, p, d) ==
  IF p = NoPo \/ d = 0 THEN orders ELSE [orders EXCEPT ![p] = Consumed(@, d)]

\* Mutant: any balance covers.
AnyBalance(orders, p, need) == p # NoPo => orders[p].balance > 0

(* ensure_po_covers.                                                        *)
Covers(orders, p, need) == p # NoPo => orders[p].balance >= need

NoTds == [live |-> FALSE, amount |-> 0, rc |-> NoReceipt, got |-> FALSE]
Tds(a, r) == [live |-> TRUE, amount |-> a, rc |-> r, got |-> FALSE]
Payments(i, r, a) == [st |-> "live", inv |-> i, rc |-> r, amount |-> a]

(* What payments of r on i come to.                                         *)
Mapped(b, r, i) ==
  LET amount(k) == b.pay[k].amount IN
  MapThenSumSet(amount, PaymentsOn(b, i) \cap PaymentsOf(b, r))

------------------------------------------------------------------------------
(* Purchase orders: update, cancel, delete.                                 *)

UpdatePo(p, total) ==
  LET row == books.po[p] IN
  /\ row.status \notin {"Cancelled", "gone"} /\ total >= row.consumed
  /\ Asks([books EXCEPT !.po[p] = Consumed([row EXCEPT !.total = total], 0)])

RaisedOn(b, p) == {i \in Invoice : Issued(b, i) /\ b.inv[i].po = p}

CancelPo(p) ==
  /\ books.po[p].status # "gone" /\ RaisedOn(books, p) = {}
  /\ Asks([books EXCEPT !.po[p].status = "Cancelled"])

------------------------------------------------------------------------------
(* Invoices.                                                                *)

Blank(p, s, kind) == [kind |-> kind, sub |-> s, po |-> p, paid |-> 0, tds |-> 0,
                      balance |-> Total[s], open |-> FALSE, credit |-> FALSE]

(* POST /invoices, and the scheduler's recurring billing.  Dates are left    *)
(* out, and with them the refusal of an expired order.                      *)
CreateInvoice(i, p, s) ==
  /\ FreshInvoice(i)
  /\ p # NoPo => (books.po[p].status = "Active" /\ books.po[p].balance > 0)
  /\ Covers(books.po, p, s)
  /\ Asks([books EXCEPT !.inv[i] = Blank(p, s, "tax"), !.po = Moved(@, p, s)])

(* generate_timesheet_invoice: an order is covered, not drawn.              *)
RaiseProforma(i, p, s) ==
  /\ FreshInvoice(i)
  /\ p # NoPo => books.po[p].status \notin {"Cancelled", "gone"}
  /\ Covers(books.po, p, s)
  /\ Asks([books EXCEPT !.inv[i] = Blank(p, s, "proforma")])

(* convert_to_tax_invoice: now it draws.                                    *)
Convert(i) ==
  LET row == books.inv[i] IN
  /\ row.kind = "proforma" /\ Covers(books.po, row.po, row.sub)
  /\ Asks([books EXCEPT !.inv[i].kind = "tax", !.po = Moved(@, row.po, row.sub)])

(* Customer approval, then the IRN: payments open.                          *)
Confirm(i) ==
  /\ books.inv[i].kind = "tax" /\ ~books.inv[i].open
  /\ books' = [books EXCEPT !.inv[i].open = TRUE]
  /\ UNCHANGED <<txn, torn, undone, used>>

(* The buyer's state code: GST and the balance are worked out again.        *)
UpdateInvoice(i) ==
  /\ Issued(books, i)
  /\ Asks([books EXCEPT !.inv[i] = Refreshed(@)])

\* Mutant: a proforma gives back what it never drew.
ReleasedAlways(b, i) == Moved(b.po, b.inv[i].po, -b.inv[i].sub)

(* release_invoice_from_po: a proforma never drew.                          *)
Released(b, i) ==
  IF b.inv[i].kind = "tax" THEN Moved(b.po, b.inv[i].po, -b.inv[i].sub) ELSE b.po

Noted(b, i) == \E m \in Note : b.note[m].status # "none" /\ b.note[m].inv = i

(* invoice_hard_delete_blockers, credit_note_count.                         *)
Deletable(b, i) ==
  /\ Issued(b, i) /\ PaymentsOn(b, i) = {} /\ ~Noted(b, i)
  /\ ~(b.tds[i].live /\ b.tds[i].got)

(* What goes with the rows of the invoices S.                               *)
Cascaded(b, S) ==
  [b EXCEPT
     !.inv = [i \in Invoice |-> IF i \in S THEN [@[i] EXCEPT !.kind = "gone"] ELSE @[i]],
     !.tds = [i \in Invoice |-> IF i \in S THEN NoTds ELSE @[i]],
     !.pay = [k \in Payment |-> IF @[k].st = "live" /\ @[k].inv \in S
                                  THEN [@[k] EXCEPT !.st = "gone"] ELSE @[k]],
     !.rev = [v \in Revision |-> IF @[v].inv \in S THEN [@[v] EXCEPT !.status = "Decided"]
                                                   ELSE @[v]]]

DeleteInvoice(i) ==
  /\ Deletable(books, i)
  /\ Asks([Cascaded(books, {i}) EXCEPT !.po = Released(books, i)])

(* undo_invoice_admin: the payments go with the invoice; what they took of  *)
(* receipts does not go back.                                               *)
UndoInvoice(i) ==
  /\ Issued(books, i) /\ ~Noted(books, i)
  /\ Ask([Cascaded(books, {i}) EXCEPT !.po = Released(books, i)],
         {books.pay[k].rc : k \in PaymentsOn(books, i)} \ {NoReceipt})

(* cascade_delete_invoices, then the order itself.                          *)
DeletePo(p) ==
  /\ books.po[p].status # "gone"
  /\ \A i \in RaisedOn(books, p) : Deletable(books, i)
  /\ Asks([Cascaded(books, RaisedOn(books, p)) EXCEPT !.po[p].status = "gone"])

------------------------------------------------------------------------------
(* A payment or the TDS of one invoice.                                     *)

(* payment_block: a proforma is not stopped here.                           *)
PaymentOpen(b, i) ==
  \/ b.inv[i].kind = "proforma"
  \/ b.inv[i].kind = "tax" /\ (b.inv[i].open \/ PaymentsOn(b, i) # {} \/ b.tds[i].live)

Payable(i) == books.inv[i].kind = "tax" /\ PaymentOpen(books, i)

(* Stand-alone, or out of what receipt r holds on account.                  *)
RecordPayment(i, k, a, r) ==
  /\ Payable(i) /\ FreshPayment(k) /\ a <= books.inv[i].balance
  /\ \/ /\ r = NoReceipt
        /\ Asks([books EXCEPT !.inv[i] = PaidMore(@, a), !.pay[k] = Payments(i, r, a)])
     \/ /\ r # NoReceipt /\ books.rc[r].st = "live" /\ a <= books.rc[r].left
        /\ Asks([books EXCEPT !.inv[i] = PaidMore(@, a), !.pay[k] = Payments(i, r, a),
                              !.rc[r].left = @ - a])

(* add_to_received: the payment is a received amount of its own.            *)
RecordReceived(i, k, a, r) ==
  /\ Payable(i) /\ FreshPayment(k) /\ FreshReceipt(r) /\ a <= books.inv[i].balance
  /\ Asks([books EXCEPT !.inv[i] = PaidMore(@, a), !.pay[k] = Payments(i, r, a),
                        !.rc[r] = [st |-> "live", amount |-> a, left |-> 0]])

\* Mutant: a reversal forgets the receipt.
NotPutBack(row, a) == row

(* reverse_payment: the money goes back on account.                         *)
PutBack(row, a) == [row EXCEPT !.left = @ + a]

ReversePayment(k, remove) ==
  LET pay == books.pay[k]
      c == [books EXCEPT !.inv[pay.inv] = PaidMore(@, -pay.amount), !.pay[k].st = "gone"] IN
  /\ pay.st = "live"
  /\ \/ pay.rc = NoReceipt /\ ~remove /\ Asks(c)
     \/ pay.rc # NoReceipt /\ ~remove /\ Asks([c EXCEPT !.rc[pay.rc] = PutBack(@, pay.amount)])
     \/ /\ pay.rc # NoReceipt /\ remove /\ PaymentsOf(books, pay.rc) = {k}
        /\ \A i \in Invoice : ~(books.tds[i].live /\ books.tds[i].rc = pay.rc)
        /\ Asks([c EXCEPT !.rc[pay.rc].st = "gone"])

(* services/tds.py book.                                                    *)
RecordTds(i, a) ==
  /\ Payable(i) /\ ~books.tds[i].live /\ a <= books.inv[i].balance
  /\ Asks([books EXCEPT !.inv[i] = Withheld(@, a), !.tds[i] = Tds(a, NoReceipt)])

(* The customer's certificate is in.                                        *)
TdsReceived(i) ==
  /\ books.tds[i].live /\ ~books.tds[i].got
  /\ Asks([books EXCEPT !.tds[i].got = TRUE])

(* unbook.                                                                  *)
DeleteTds(i) ==
  /\ books.tds[i].live /\ ~books.tds[i].got
  /\ Asks([books EXCEPT !.inv[i] = Withheld(@, -books.tds[i].amount), !.tds[i] = NoTds])

------------------------------------------------------------------------------
(* Received amounts.                                                        *)

Sum(take, S) == LET amount(i) == take[i] IN MapThenSumSet(amount, S)

(* Withholding w[i] on, then paying take[i] of, each i of S.                *)
WithTds(row, a) == IF a > 0 THEN Withheld(row, a) ELSE row
WithCash(row, a) == IF a > 0 THEN PaidMore(row, a) ELSE row
Paying(take) == {i \in DOMAIN take : take[i] > 0}
MayWithhold(w) == \A i \in DOMAIN w : w[i] > 0 => ~books.tds[i].live /\ w[i] <= books.inv[i].balance
Owed(i, w) == WithTds(books.inv[i], w[i]).balance

(* Payments of r on the invoices of take; o: the rows they become.          *)
Settled(r, w, take, o) ==
  [books EXCEPT
     !.inv = [i \in Invoice |-> IF i \in DOMAIN w THEN WithCash(WithTds(@[i], w[i]), take[i])
                                                  ELSE @[i]],
     !.tds = [i \in Invoice |-> IF i \in DOMAIN w /\ w[i] > 0 THEN Tds(w[i], r) ELSE @[i]],
     !.pay = [k \in Payment |-> IF k \in DOMAIN o THEN Payments(o[k], r, take[o[k]]) ELSE @[k]]]

RowsFor(take) ==
  UNION {Bijection(F, Paying(take)) : F \in SUBSET {k \in Payment : FreshPayment(k)}}

(* create_receipt: the oldest invoices first, as far as the cash goes.      *)
CreateReceipt(r, cash, S, w) ==
  /\ FreshReceipt(r) /\ MayWithhold(w)
  /\ \A i \in S : Issued(books, i) /\ PaymentOpen(books, i)
  /\ \E take \in [S -> 0..cash], left \in 0..cash :
       LET part == {i \in S : take[i] < Owed(i, w)} IN
       /\ left + Sum(take, S) = cash
       /\ \A i \in S : take[i] <= Owed(i, w)
       /\ left > 0 => part = {}
       /\ Cardinality(part \cap Paying(take)) <= 1
       /\ \E o \in RowsFor(take) :
            Asks([Settled(r, w, take, o) EXCEPT
                    !.rc[r] = [st |-> "live", amount |-> cash, left |-> left]])

(* allocate_receipt: any amounts, or the oldest first.                      *)
Allocate(r, S, w) ==
  /\ books.rc[r].st = "live" /\ S # {} /\ MayWithhold(w)
  /\ \A i \in S : Payable(i)
  /\ \E take \in [S -> 0..books.rc[r].left], left \in 0..books.rc[r].left :
       /\ left + Sum(take, S) = books.rc[r].left
       /\ \A i \in S : take[i] <= Owed(i, w)
       /\ Paying(take) # {} \/ Paying(w) # {}
       /\ \E o \in RowsFor(take) :
            Asks([Settled(r, w, take, o) EXCEPT !.rc[r].left = left])

OfReceipt(b, r, i) == b.tds[i].live /\ b.tds[i].rc = r

(* What r did to the invoices of S, taken back.                             *)
Unsettled(r, S) ==
  [books EXCEPT
     !.inv = [i \in Invoice |->
                IF i \notin S THEN @[i]
                ELSE LET row == IF OfReceipt(books, r, i)
                                  THEN Withheld(@[i], -books.tds[i].amount) ELSE @[i] IN
                     IF Mapped(books, r, i) > 0 THEN PaidMore(row, -Mapped(books, r, i)) ELSE row],
     !.tds = [i \in Invoice |-> IF i \in S /\ OfReceipt(books, r, i) THEN NoTds ELSE @[i]],
     !.pay = [k \in Payment |-> IF @[k].st = "live" /\ @[k].rc = r /\ @[k].inv \in S
                                  THEN [@[k] EXCEPT !.st = "gone"] ELSE @[k]]]

UnmapInvoice(r, i) ==
  /\ books.rc[r].st = "live"
  /\ PaymentsOn(books, i) \cap PaymentsOf(books, r) # {} \/ OfReceipt(books, r, i)
  /\ ~(OfReceipt(books, r, i) /\ books.tds[i].got)
  /\ Mapped(books, r, i) \in Money
  /\ Asks([Unsettled(r, {i}) EXCEPT !.rc[r] = PutBack(@, Mapped(books, r, i))])

(* update_receipt: what is left follows the new amount.                     *)
UpdateReceipt(r, a) ==
  LET amount(k) == books.pay[k].amount
      applied == MapThenSumSet(amount, PaymentsOf(books, r)) IN
  /\ books.rc[r].st = "live" /\ applied \in 0..a
  /\ Asks([books EXCEPT !.rc[r].amount = a, !.rc[r].left = a - applied])

DeleteReceipt(r) ==
  /\ books.rc[r].st = "live"
  /\ \A i \in Invoice : ~(OfReceipt(books, r, i) /\ books.tds[i].got)
  /\ \A i \in Invoice : Mapped(books, r, i) \in Money
  /\ Asks([Unsettled(r, Invoice) EXCEPT !.rc[r].st = "gone"])

------------------------------------------------------------------------------
(* Credit notes.                                                            *)

CreateNote(m, i, a) ==
  /\ FreshNote(m) /\ books.inv[i].kind = "tax" /\ a <= Total[books.inv[i].sub]
  /\ Asks([books EXCEPT !.note[m] = [status |-> "Draft", inv |-> i, amount |-> a]])

ApproveNote(m) ==
  /\ books.note[m].status = "Draft"
  /\ books' = [books EXCEPT !.note[m].status = "Approved"]
  /\ UNCHANGED <<txn, torn, undone, used>>

CancelNote(m) ==
  /\ books.note[m].status \in {"Draft", "Approved"}
  /\ Asks([books EXCEPT !.note[m].status = "Cancelled"])

Credited(row, a) == [row EXCEPT !.balance = Floor(@ - a), !.credit = TRUE]

(* Refund leaves the balance alone, Adjust_Balance takes the note off it.   *)
SettleNote(m, adjust) ==
  LET note == books.note[m]
      c == [books EXCEPT !.note[m].status = "Settled"] IN
  /\ note.status = "Approved"
  /\ \/ ~adjust /\ Asks(c)
     \/ adjust /\ Asks([c EXCEPT !.inv[note.inv] = Credited(@, note.amount)])

------------------------------------------------------------------------------
(* Change requests.                                                         *)

NewSub(row, s) == IF s = 0 THEN row.sub ELSE s

(* _apply refuses to go below what was paid; TDS is not looked at, nor      *)
(* whether the order was cancelled since.                                   *)
Applies(i, s, p) ==
  LET row == books.inv[i]
      n == NewSub(row, s) IN
  /\ row.paid <= Total[n]
  /\ IF p # NoPo THEN books.po[p].status # "gone" /\ Covers(books.po, p, n)
                 ELSE n > row.sub => Covers(books.po, row.po, n - row.sub)

Revised(i, s, p) ==
  LET row == books.inv[i]
      n == NewSub(row, s) IN
  [books EXCEPT
     !.inv[i] = Refreshed([row EXCEPT !.sub = n, !.po = IF p # NoPo THEN p ELSE @]),
     !.po = IF p # NoPo THEN Moved(Moved(@, row.po, -row.sub), p, n)
                        ELSE Moved(@, row.po, n - row.sub)]

PendingOn(i) == \E v \in Revision : books.rev[v].status = "Pending" /\ books.rev[v].inv = i

(* Of an Admin it applies at once.                                          *)
RequestRevision(v, i, s, p, admin) ==
  LET row(status) == [status |-> status, inv |-> i, sub |-> s, po |-> p] IN
  /\ FreshRevision(v) /\ books.inv[i].kind = "tax" /\ ~PendingOn(i)
  /\ s # books.inv[i].sub
  /\ p # NoPo => (p # books.inv[i].po /\ books.po[p].status \notin {"Cancelled", "gone"})
  /\ \/ ~admin /\ Asks([books EXCEPT !.rev[v] = row("Pending")])
     \/ /\ admin /\ Applies(i, s, p)
        /\ Asks([Revised(i, s, p) EXCEPT !.rev[v] = row("Decided")])

ApproveRevision(v) ==
  LET rev == books.rev[v] IN
  /\ rev.status = "Pending" /\ Applies(rev.inv, rev.sub, rev.po)
  /\ Asks([Revised(rev.inv, rev.sub, rev.po) EXCEPT !.rev[v].status = "Decided"])

(* Rejected, or withdrawn.                                                  *)
RejectRevision(v) ==
  /\ books.rev[v].status = "Pending"
  /\ Asks([books EXCEPT !.rev[v].status = "Decided"])

------------------------------------------------------------------------------
Ordering ==
  \E p \in Po : CancelPo(p) \/ DeletePo(p) \/ \E total \in Orders : UpdatePo(p, total)

Issuing ==
  \E i \in Invoice :
    \/ \E p \in Po \cup {NoPo}, s \in Base : CreateInvoice(i, p, s) \/ RaiseProforma(i, p, s)
    \/ Convert(i) \/ Confirm(i) \/ UpdateInvoice(i) \/ DeleteInvoice(i) \/ UndoInvoice(i)

Collecting ==
  \/ \E i \in Invoice, k \in Payment, a \in Cash, r \in Receipt \cup {NoReceipt} :
       RecordPayment(i, k, a, r) \/ (r # NoReceipt /\ RecordReceived(i, k, a, r))
  \/ \E k \in Payment, remove \in BOOLEAN : ReversePayment(k, remove)
  \/ \E i \in Invoice : TdsReceived(i) \/ DeleteTds(i) \/ \E a \in Cash : RecordTds(i, a)

Receiving ==
  \E r \in Receipt :
    \/ \E S \in SUBSET Invoice : \E w \in [S -> Cash \cup {0}] :
         Allocate(r, S, w) \/ \E cash \in Cash : CreateReceipt(r, cash, S, w)
    \/ \E i \in Invoice : UnmapInvoice(r, i)
    \/ \E a \in Cash : UpdateReceipt(r, a)
    \/ DeleteReceipt(r)

Crediting ==
  \E m \in Note :
    \/ \E i \in Invoice, a \in Cash : CreateNote(m, i, a)
    \/ ApproveNote(m) \/ CancelNote(m) \/ \E adjust \in BOOLEAN : SettleNote(m, adjust)

Changing ==
  \E v \in Revision :
    \/ \E i \in Invoice, s \in Base \cup {0}, p \in Po \cup {NoPo}, admin \in BOOLEAN :
         RequestRevision(v, i, s, p, admin)
    \/ ApproveRevision(v) \/ RejectRevision(v)

Request == Ordering \/ Issuing \/ Collecting \/ Receiving \/ Crediting \/ Changing

Next ==
  \/ MayAsk /\ Request
  \/ \E t \in Txn : Commit(t) \/ RollBack(t)

Spec == Init /\ [][Next]_vars

------------------------------------------------------------------------------
(* What a receipt holds on account and what was mapped of it make up its    *)
(* amount.                                                                  *)
ReceiptAddsUp(b, r) ==
  LET amount(k) == b.pay[k].amount IN
  b.rc[r].st = "live" =>
    b.rc[r].amount = b.rc[r].left + MapThenSumSet(amount, PaymentsOf(b, r))

(* An invoice counts as paid and withheld what its payments and TDS say.    *)
InvoiceAddsUp(b, i) ==
  LET amount(k) == b.pay[k].amount IN
  Issued(b, i) =>
    /\ b.inv[i].paid = MapThenSumSet(amount, PaymentsOn(b, i))
    /\ b.inv[i].tds = IF b.tds[i].live THEN b.tds[i].amount ELSE 0

(* An order has given out the base value of the tax invoices on it.         *)
OrderAddsUp(b, p) ==
  LET sub(i) == b.inv[i].sub IN
  b.po[p].status # "gone" => b.po[p].consumed = MapThenSumSet(sub, DrawnOn(b, p))

ASSUME OpeningAddsUp ==
  /\ Referred(Opening)
  /\ \A v \in Revision : LET rev == Opening.rev[v] IN
       rev.status = "Pending" => Opening.inv[rev.inv].kind = "tax"
  /\ \A r \in Receipt : ReceiptAddsUp(Opening, r)
  /\ \A i \in Invoice : InvoiceAddsUp(Opening, i)
  /\ \A p \in Po : OrderAddsUp(Opening, p)

(* Every payment is accounted for on both sides, however often it was       *)
(* mapped, taken back, reversed or edited.  Excepted are rows two sessions  *)
(* wrote across each other, and receipts of an undone invoice               *)
(* (customer_receipts.py, invoice_payments.py, services/tds.py).            *)
PaymentsAddUp ==
  /\ \A r \in Receipt \ (torn \cup undone) : ReceiptAddsUp(books, r)
  /\ \A i \in Invoice \ torn : InvoiceAddsUp(books, i)

(* The balance of an invoice no two sessions wrote across each other is     *)
(* what is due on it, never below zero, unless a credit note was taken off  *)
(* since (services/tax.py refresh_invoice_balance, and who forgets it).     *)
BalanceDue ==
  \A i \in Invoice \ torn :
    books.inv[i].credit \/ books.inv[i].balance = Floor(Due(books.inv[i]))

(* A purchase order no two sessions wrote across each other has given out   *)
(* exactly the base value of the tax invoices on it: through conversion,    *)
(* revision to another order or value, deletion and undo                    *)
(* (services/finance.py move_po_drawdown).                                  *)
PoAccounts == \A p \in Po \ torn : OrderAddsUp(books, p)

(* An order no two sessions wrote across each other is never drawn beyond   *)
(* its value, and shows what is left (ensure_po_covers before every draw).  *)
NeverOverdrawn ==
  \A p \in Po \ torn :
    /\ books.po[p].consumed <= books.po[p].total
    /\ books.po[p].balance = books.po[p].total - books.po[p].consumed
==============================================================================
