-------------------------- MODULE ReceivablesProofs --------------------------
(***************************************************************************)
(* Proofs about Receivables, for every number of rows, sessions, requests  *)
(* and overlaps, and every rate of GST.                                    *)
(***************************************************************************)
EXTENDS Receivables, TLAPS

RowDue(row) == row.credit \/ row.balance = Floor(Due(row))
Sound(row) == row.consumed <= row.total /\ row.balance = row.total - row.consumed

(* What is true of a row that is not torn is true of what an open session   *)
(* will make of it.                                                         *)
OpenHolds ==
  \A t \in Txn : txn[t].open =>
    /\ \A i \in Invoice \ torn : RowDue(txn[t].new.inv[i])
    /\ \A p \in Po \ torn : Sound(txn[t].new.po[p])

IInv == TypeOK /\ BalanceDue /\ NeverOverdrawn /\ OpenHolds

(* Books a request may ask for: of the right type, no row spoilt.           *)
Fine(c) ==
  /\ c \in Books
  /\ \A i \in Invoice : RowDue(books.inv[i]) => RowDue(c.inv[i])
  /\ \A p \in Po : Sound(books.po[p]) => Sound(c.po[p])

------------------------------------------------------------------------------
(* The helpers of services/tax.py on one row.                               *)

(* An amount due that is negative counts as nothing.                        *)
LEMMA FloorNat == ASSUME NEW x \in Int PROVE Floor(x) \in Nat
BY DEF Floor

(* What is due on an invoice is a whole number.                             *)
LEMMA DueInt ==
  ASSUME NEW row, row.sub \in Base, row.paid \in Int, row.tds \in Nat
  PROVE  Due(row) \in Int
<1>1. Total \in [Base -> Nat] BY BooksAssumption DEF BooksAssumption
<1>2. Total[row.sub] \in Nat BY <1>1
<1> QED BY <1>2 DEF Due

(* refresh_invoice_balance leaves the balance that is due.                  *)
LEMMA RefreshedRow ==
  ASSUME NEW row \in InvoiceRow
  PROVE  Refreshed(row) \in InvoiceRow /\ RowDue(Refreshed(row))
<1>1. Due(row) \in Int /\ Floor(Due(row)) \in Nat BY DueInt, FloorNat DEF InvoiceRow
<1>2. Refreshed(row) \in InvoiceRow BY <1>1 DEF Refreshed, InvoiceRow
<1>3. Due(Refreshed(row)) = Due(row) BY DEF Due, Refreshed, InvoiceRow
<1>4. Refreshed(row).balance = Floor(Due(row)) BY DEF Refreshed, InvoiceRow
<1> QED BY <1>2, <1>3, <1>4 DEF RowDue

(* Paying, or taking a payment back, leaves the balance that is due.        *)
LEMMA PaidMoreRow ==
  ASSUME NEW row \in InvoiceRow, NEW a \in Int
  PROVE  PaidMore(row, a) \in InvoiceRow /\ RowDue(PaidMore(row, a))
<1>1. [row EXCEPT !.paid = @ + a] \in InvoiceRow BY DEF InvoiceRow
<1> QED BY <1>1, RefreshedRow DEF PaidMore

(* Withholding TDS, or undoing it, leaves the balance that is due.          *)
LEMMA WithheldRow ==
  ASSUME NEW row \in InvoiceRow, NEW a \in Int
  PROVE  Withheld(row, a) \in InvoiceRow /\ RowDue(Withheld(row, a))
<1>1. Floor(row.tds + a) \in Nat BY FloorNat DEF InvoiceRow
<1>2. [row EXCEPT !.tds = Floor(@ + a)] \in InvoiceRow BY <1>1 DEF InvoiceRow
<1> QED BY <1>2, RefreshedRow DEF Withheld

(* A draw that the balance covers keeps an order sound, and so does a       *)
(* release.                                                                 *)
LEMMA ConsumedRow ==
  ASSUME NEW row \in PoRow, NEW d \in Int
  PROVE  /\ Consumed(row, d) \in PoRow
         /\ Sound(row) /\ d <= row.balance => Sound(Consumed(row, d))
         /\ Sound(row) /\ d <= row.balance => Consumed(row, d).balance = row.balance - d
<1>1. row.total \in Int /\ row.consumed \in Int /\ row.balance \in Nat
  <2>1. Orders \subseteq Nat BY BooksAssumption DEF BooksAssumption
  <2>2. row.total \in Orders BY DEF PoRow
  <2>3. row.consumed \in Int /\ row.balance \in Nat BY DEF PoRow
  <2>4. row.total \in Nat BY <2>1, <2>2
  <2> QED BY <2>3, <2>4
<1>2. Floor(row.total - row.consumed - d) \in Nat BY <1>1, FloorNat
<1>3. Consumed(row, d) \in PoRow
  <2>1. row.consumed + d \in Int BY <1>1
  <2>2. Consumed(row, d) =
          [row EXCEPT !.consumed = row.consumed + d,
                      !.balance = Floor(row.total - row.consumed - d),
                      !.status = IF row.total - row.consumed - d <= 0
                                   THEN "Exhausted" ELSE "Active"]
    BY DEF Consumed
  <2> QED BY <1>2, <2>1, <2>2 DEF PoRow
<1>4. /\ Consumed(row, d).total = row.total
      /\ Consumed(row, d).consumed = row.consumed + d
      /\ Consumed(row, d).balance = Floor(row.total - row.consumed - d)
  BY DEF Consumed, PoRow
<1> QED BY <1>1, <1>3, <1>4 DEF Sound, Floor

(* move_po_drawdown keeps every order sound if the one it draws on covers.  *)
LEMMA MovedOrders ==
  ASSUME NEW orders \in [Po -> PoRow], NEW p \in Po \cup {NoPo}, NEW d \in Int
  PROVE  /\ Moved(orders, p, d) \in [Po -> PoRow]
         /\ (p # NoPo => d <= orders[p].balance) =>
              \A q \in Po : Sound(orders[q]) => Sound(Moved(orders, p, d)[q])
<1>1. CASE p = NoPo \/ d = 0 BY <1>1 DEF Moved
<1>2. CASE p # NoPo /\ d # 0
  <2>1. Moved(orders, p, d) = [orders EXCEPT ![p] = Consumed(@, d)] BY <1>2 DEF Moved
  <2> QED BY <1>2, <2>1, ConsumedRow
<1> QED BY <1>1, <1>2

(* Giving back what an order never drew cannot spoil it either.             *)
LEMMA ReleasedOrders ==
  ASSUME NEW orders \in [Po -> PoRow], NEW p \in Po \cup {NoPo}, NEW d \in Int, d <= 0
  PROVE  /\ Moved(orders, p, d) \in [Po -> PoRow]
         /\ \A q \in Po : Sound(orders[q]) => Sound(Moved(orders, p, d)[q])
<1>1. p # NoPo => d <= orders[p].balance BY DEF PoRow
<1> QED BY <1>1, MovedOrders

------------------------------------------------------------------------------
(* Sessions.                                                                *)

(* A request for fine books keeps the invariant, at once or in a session.   *)
LEMMA AskKeeps ==
  ASSUME IInv, NEW c, Fine(c), NEW undoes \in SUBSET Receipt, Ask(c, undoes)
  PROVE  IInv'
<1>1. used' \in [ops : 0..MaxOps, overlaps : 0..MaxOverlaps]
  <2>1. used.ops \in 0..MaxOps /\ used.overlaps \in 0..MaxOverlaps BY DEF IInv, TypeOK
  <2>2. used.ops < MaxOps /\ (Busy => used.overlaps < MaxOverlaps)
    BY DEF Ask, Counted, MayAsk
  <2>3. used' = [ops |-> used.ops + 1,
                 overlaps |-> IF Busy THEN used.overlaps + 1 ELSE used.overlaps]
    BY DEF Ask, Counted
  <2>4. MaxOps \in Nat /\ MaxOverlaps \in Nat BY BooksAssumption DEF BooksAssumption
  <2> QED BY <2>1, <2>2, <2>3, <2>4
<1>2. /\ \A i \in Invoice \ torn : RowDue(c.inv[i])
      /\ \A p \in Po \ torn : Sound(c.po[p])
  BY DEF IInv, BalanceDue, NeverOverdrawn, Fine, RowDue, Sound
<1>3. CASE books' = c /\ undone' = undone \cup undoes /\ UNCHANGED <<txn, torn>>
  <2>1. TypeOK' BY <1>1, <1>3 DEF IInv, TypeOK, Fine
  <2>2. BalanceDue' BY <1>2, <1>3 DEF BalanceDue, RowDue
  <2>3. NeverOverdrawn' BY <1>2, <1>3 DEF NeverOverdrawn, Sound
  <2>4. OpenHolds' BY <1>3 DEF IInv, OpenHolds
  <2> QED BY <2>1, <2>2, <2>3, <2>4 DEF IInv
<1>4. ASSUME NEW t \in Txn,
             txn' = [txn EXCEPT ![t] = [open |-> TRUE, was |-> books, new |-> c,
                                        undoes |-> undoes]],
             UNCHANGED <<books, torn, undone>>
      PROVE  IInv'
  <2>1. txn' \in [Txn -> Session] BY <1>4 DEF IInv, TypeOK, Session, Fine
  <2>2. TypeOK' BY <1>1, <1>4, <2>1 DEF IInv, TypeOK
  <2>3. BalanceDue' /\ NeverOverdrawn' BY <1>4 DEF IInv, BalanceDue, NeverOverdrawn
  <2>4. OpenHolds' BY <1>2, <1>4 DEF IInv, TypeOK, OpenHolds
  <2> QED BY <2>2, <2>3, <2>4 DEF IInv
<1> QED BY <1>3, <1>4 DEF Ask

(* A column is one of the two values it is merged from.                     *)
LEMMA MergedTypes ==
  ASSUME NEW w \in Books, NEW n \in Books, books \in Books
  PROVE  Merged(w, n) \in Books
<1>1. \A i \in Invoice : MergedInvoice(w.inv[i], n.inv[i], books.inv[i]) \in InvoiceRow
  BY DEF MergedInvoice, Written, Books, InvoiceRow
<1>2. \A p \in Po : MergedPo(w.po[p], n.po[p], books.po[p]) \in PoRow
  BY DEF MergedPo, Written, Books, PoRow
<1>3. \A r \in Receipt : MergedReceipt(w.rc[r], n.rc[r], books.rc[r]) \in ReceiptRow
  BY DEF MergedReceipt, Written, Books, ReceiptRow
<1>4. \A k \in Payment : Kept(Written(n.pay[k], w.pay[k], books.pay[k]), w, n) \in PaymentRow
  <2>1. \A row \in PaymentRow : Kept(row, w, n) \in PaymentRow BY DEF Kept, PaymentRow
  <2>2. \A k \in Payment : Written(n.pay[k], w.pay[k], books.pay[k]) \in PaymentRow
    BY DEF Written, Books
  <2> QED BY <2>1, <2>2
<1>5. \A i \in Invoice : Kept(Written(n.tds[i], w.tds[i], books.tds[i]), w, n) \in TdsRow
  <2>1. \A row \in TdsRow : Kept(row, w, n) \in TdsRow BY DEF Kept, TdsRow
  <2>2. \A i \in Invoice : Written(n.tds[i], w.tds[i], books.tds[i]) \in TdsRow
    BY DEF Written, Books
  <2> QED BY <2>1, <2>2
<1>6. \A m \in Note : Written(n.note[m], w.note[m], books.note[m]) \in NoteRow
  BY DEF Written, Books
<1>7. \A v \in Revision :
        Ended(Written(n.rev[v], w.rev[v], books.rev[v]), w, n) \in RevisionRow
  <2>1. \A row \in RevisionRow : Ended(row, w, n) \in RevisionRow BY DEF Ended, RevisionRow
  <2>2. \A v \in Revision : Written(n.rev[v], w.rev[v], books.rev[v]) \in RevisionRow
    BY DEF Written, Books
  <2> QED BY <2>1, <2>2
<1> QED BY <1>1, <1>2, <1>3, <1>4, <1>5, <1>6, <1>7 DEF Merged, Books

(* A row that a commit leaves clean is the one that stood, or the one the   *)
(* session made.                                                            *)
LEMMA CommitKeeps == ASSUME IInv, NEW t \in Txn, Commit(t) PROVE IInv'
<1> DEFINE w == txn[t].was
           n == txn[t].new
           m == Merged(w, n)
<1>1. txn[t] \in Session /\ books \in Books BY DEF IInv, TypeOK
<1>2. w \in Books /\ n \in Books /\ m \in Books BY <1>1, MergedTypes DEF Session
<1>3. /\ books' = m /\ torn' = torn \cup Torn(w, n, m) /\ undone' = undone \cup txn[t].undoes
      /\ txn' = [txn EXCEPT ![t] = Closed] /\ used' = used /\ txn[t].open
  BY DEF Commit
<1>4. Closed \in Session BY OpeningAssumption DEF OpeningAssumption, Closed, Session
<1>5. Torn(w, n, m) \subseteq Invoice \cup Po \cup Receipt BY DEF Torn
<1>6. TypeOK' BY <1>1, <1>2, <1>3, <1>4, <1>5 DEF IInv, TypeOK, Session
<1>7. ASSUME NEW i \in Invoice, i \notin torn' PROVE RowDue(m.inv[i])
  <2>1. i \notin torn /\ i \notin Torn(w, n, m) BY <1>3, <1>7
  <2>2. m.inv[i] = books.inv[i] \/ m.inv[i] = n.inv[i]
    <3>1. Clean(InvoiceView(w, i), InvoiceView(n, i), InvoiceView(books, i), InvoiceView(m, i))
      BY <2>1 DEF Torn
    <3> QED BY <3>1 DEF Clean, InvoiceView
  <2> QED BY <1>3, <2>1, <2>2 DEF IInv, BalanceDue, RowDue, OpenHolds
<1>8. ASSUME NEW p \in Po, p \notin torn' PROVE Sound(m.po[p])
  <2>1. p \notin torn /\ p \notin Torn(w, n, m) BY <1>3, <1>8
  <2>2. m.po[p] = books.po[p] \/ m.po[p] = n.po[p]
    <3>1. Clean(PoView(w, p), PoView(n, p), PoView(books, p), PoView(m, p))
      BY <2>1 DEF Torn
    <3> QED BY <3>1 DEF Clean, PoView
  <2> QED BY <1>3, <2>1, <2>2 DEF IInv, NeverOverdrawn, Sound, OpenHolds
<1>9. BalanceDue' BY <1>3, <1>7 DEF BalanceDue, RowDue
<1>10. NeverOverdrawn' BY <1>3, <1>8 DEF NeverOverdrawn, Sound
<1>11. OpenHolds' BY <1>3, <1>1 DEF IInv, TypeOK, OpenHolds, Closed
<1> QED BY <1>6, <1>9, <1>10, <1>11 DEF IInv

(* A session that is rolled back leaves no trace.                           *)
LEMMA RollBackKeeps == ASSUME IInv, NEW t \in Txn, RollBack(t) PROVE IInv'
<1>1. /\ txn' = [txn EXCEPT ![t] = Closed]
      /\ UNCHANGED <<books, torn, undone, used>>
  BY DEF RollBack
<1>2. Closed \in Session BY OpeningAssumption DEF OpeningAssumption, Closed, Session
<1>3. TypeOK' BY <1>1, <1>2 DEF IInv, TypeOK
<1>4. BalanceDue' /\ NeverOverdrawn' BY <1>1 DEF IInv, BalanceDue, NeverOverdrawn
<1>5. OpenHolds' BY <1>1 DEF IInv, TypeOK, OpenHolds, Closed
<1> QED BY <1>3, <1>4, <1>5 DEF IInv

------------------------------------------------------------------------------
(* Orders and invoices.                                                     *)

(* PUT /purchase-orders.                                                    *)
LEMMA UpdatePoKeeps ==
  ASSUME IInv, NEW p \in Po, NEW total \in Orders, UpdatePo(p, total) PROVE IInv'
<1> DEFINE row == [books.po[p] EXCEPT !.total = total]
           c == [books EXCEPT !.po[p] = Consumed(row, 0)]
<1>1. books \in Books /\ books.po[p] \in PoRow BY DEF IInv, TypeOK, Books
<1>2. row \in PoRow BY <1>1 DEF PoRow
<1>3. Consumed(row, 0) \in PoRow BY <1>2, ConsumedRow
<1>4. total \in Nat BY BooksAssumption DEF BooksAssumption
<1>5. Sound(Consumed(row, 0))
  <2>1. books.po[p].consumed \in Int /\ total >= books.po[p].consumed
    BY <1>1 DEF PoRow, UpdatePo
  <2>2. row.total = total /\ row.consumed = books.po[p].consumed BY <1>1 DEF PoRow
  <2>3. /\ Consumed(row, 0).total = total
        /\ Consumed(row, 0).consumed = row.consumed + 0
        /\ Consumed(row, 0).balance = Floor(total - row.consumed - 0)
    BY <1>2, <2>2 DEF Consumed, PoRow
  <2> QED BY <1>4, <2>1, <2>2, <2>3 DEF Sound, Floor
<1>6. Fine(c) BY <1>1, <1>3, <1>5 DEF Fine, Books
<1>7. Ask(c, {}) BY DEF UpdatePo, Asks
<1> QED BY <1>6, <1>7, AskKeeps

(* POST /purchase-orders/{id}/cancel.                                       *)
LEMMA CancelPoKeeps == ASSUME IInv, NEW p \in Po, CancelPo(p) PROVE IInv'
<1> DEFINE c == [books EXCEPT !.po[p].status = "Cancelled"]
<1>1. books \in Books /\ books.po[p] \in PoRow BY DEF IInv, TypeOK, Books
<1>2. [books.po[p] EXCEPT !.status = "Cancelled"] \in PoRow BY <1>1 DEF PoRow
<1>3. Sound(books.po[p]) => Sound([books.po[p] EXCEPT !.status = "Cancelled"])
  BY <1>1 DEF Sound, PoRow
<1>4. Fine(c) BY <1>1, <1>2, <1>3 DEF Fine, Books
<1>5. Ask(c, {}) BY DEF CancelPo, Asks
<1> QED BY <1>4, <1>5, AskKeeps

(* A new invoice owes its whole total.                                      *)
LEMMA BlankRow ==
  ASSUME NEW p \in Po \cup {NoPo}, NEW s \in Base, NEW kind \in {"tax", "proforma"}
  PROVE  Blank(p, s, kind) \in InvoiceRow /\ RowDue(Blank(p, s, kind))
<1>1. Total[s] \in Nat
  <2>1. Total \in [Base -> Nat] BY BooksAssumption DEF BooksAssumption
  <2> QED BY <2>1
<1>2. Blank(p, s, kind) \in InvoiceRow BY <1>1 DEF Blank, InvoiceRow
<1>3. Due(Blank(p, s, kind)) = Total[s] BY <1>1 DEF Due, Blank
<1>4. Floor(Total[s]) = Total[s] BY <1>1 DEF Floor
<1> QED BY <1>2, <1>3, <1>4 DEF RowDue, Blank

(* POST /invoices and recurring billing.                                    *)
LEMMA CreateInvoiceKeeps ==
  ASSUME IInv, NEW i \in Invoice, NEW p \in Po \cup {NoPo}, NEW s \in Base,
         CreateInvoice(i, p, s)
  PROVE  IInv'
<1> DEFINE c == [books EXCEPT !.inv[i] = Blank(p, s, "tax"), !.po = Moved(@, p, s)]
<1>1. books \in Books /\ books.po \in [Po -> PoRow] BY DEF IInv, TypeOK, Books
<1>2. s \in Int BY BooksAssumption DEF BooksAssumption
<1>3. p # NoPo => s <= books.po[p].balance
  BY <1>1, <1>2 DEF CreateInvoice, Covers, PoRow
<1>4. /\ Moved(books.po, p, s) \in [Po -> PoRow]
      /\ \A q \in Po : Sound(books.po[q]) => Sound(Moved(books.po, p, s)[q])
  BY <1>1, <1>2, <1>3, MovedOrders
<1>5. Fine(c) BY <1>1, <1>4, BlankRow DEF Fine, Books
<1>6. Ask(c, {}) BY DEF CreateInvoice, Asks
<1> QED BY <1>5, <1>6, AskKeeps

(* generate_timesheet_invoice.                                              *)
LEMMA RaiseProformaKeeps ==
  ASSUME IInv, NEW i \in Invoice, NEW p \in Po \cup {NoPo}, NEW s \in Base,
         RaiseProforma(i, p, s)
  PROVE  IInv'
<1> DEFINE c == [books EXCEPT !.inv[i] = Blank(p, s, "proforma")]
<1>1. books \in Books BY DEF IInv, TypeOK
<1>2. Fine(c) BY <1>1, BlankRow DEF Fine, Books
<1>3. Ask(c, {}) BY DEF RaiseProforma, Asks
<1> QED BY <1>2, <1>3, AskKeeps

(* convert_to_tax_invoice.                                                  *)
LEMMA ConvertKeeps == ASSUME IInv, NEW i \in Invoice, Convert(i) PROVE IInv'
<1> DEFINE row == books.inv[i]
           c == [books EXCEPT !.inv[i].kind = "tax", !.po = Moved(@, row.po, row.sub)]
<1>1. books \in Books /\ books.po \in [Po -> PoRow] /\ row \in InvoiceRow
  BY DEF IInv, TypeOK, Books
<1>2. row.po \in Po \cup {NoPo} /\ row.sub \in Int
  <2>1. Base \subseteq Nat BY BooksAssumption DEF BooksAssumption
  <2>2. row.po \in Po \cup {NoPo} /\ row.sub \in Base BY <1>1 DEF InvoiceRow
  <2>3. row.sub \in Nat BY <2>1, <2>2
  <2> QED BY <2>2, <2>3
<1>3. row.po # NoPo => row.sub <= books.po[row.po].balance
  BY <1>1, <1>2 DEF Convert, Covers, PoRow
<1>4. /\ Moved(books.po, row.po, row.sub) \in [Po -> PoRow]
      /\ \A q \in Po : Sound(books.po[q]) => Sound(Moved(books.po, row.po, row.sub)[q])
  BY <1>1, <1>2, <1>3, MovedOrders
<1>5. [row EXCEPT !.kind = "tax"] \in InvoiceRow BY <1>1 DEF InvoiceRow
<1>6. RowDue(row) => RowDue([row EXCEPT !.kind = "tax"]) BY <1>1 DEF RowDue, Due, InvoiceRow
<1>7. Fine(c) BY <1>1, <1>4, <1>5, <1>6 DEF Fine, Books
<1>8. Ask(c, {}) BY DEF Convert, Asks
<1> QED BY <1>7, <1>8, AskKeeps

(* Customer approval and IRN.                                               *)
LEMMA ConfirmKeeps == ASSUME IInv, NEW i \in Invoice, Confirm(i) PROVE IInv'
<1> DEFINE c == [books EXCEPT !.inv[i].open = TRUE]
<1>1. books \in Books /\ books.inv[i] \in InvoiceRow BY DEF IInv, TypeOK, Books
<1>2. [books.inv[i] EXCEPT !.open = TRUE] \in InvoiceRow BY <1>1 DEF InvoiceRow
<1>3. RowDue(books.inv[i]) => RowDue([books.inv[i] EXCEPT !.open = TRUE])
  BY <1>1 DEF RowDue, Due, InvoiceRow
<1>4. Fine(c) BY <1>1, <1>2, <1>3 DEF Fine, Books
<1>5. books' = c /\ UNCHANGED <<txn, torn, undone, used>> BY DEF Confirm
<1>6. TypeOK' BY <1>4, <1>5 DEF IInv, TypeOK, Fine
<1>7. BalanceDue' /\ NeverOverdrawn'
  BY <1>4, <1>5 DEF IInv, BalanceDue, NeverOverdrawn, Fine, RowDue, Sound
<1>8. OpenHolds' BY <1>5 DEF IInv, OpenHolds
<1> QED BY <1>6, <1>7, <1>8 DEF IInv

(* The buyer's state code.                                                  *)
LEMMA UpdateInvoiceKeeps == ASSUME IInv, NEW i \in Invoice, UpdateInvoice(i) PROVE IInv'
<1> DEFINE c == [books EXCEPT !.inv[i] = Refreshed(@)]
<1>1. books \in Books /\ books.inv[i] \in InvoiceRow BY DEF IInv, TypeOK, Books
<1>2. Fine(c) BY <1>1, RefreshedRow DEF Fine, Books
<1>3. Ask(c, {}) BY DEF UpdateInvoice, Asks
<1> QED BY <1>2, <1>3, AskKeeps

(* Rows that go with an invoice are still rows; no balance changes.         *)
LEMMA CascadedBooks ==
  ASSUME books \in Books, NEW S \in SUBSET Invoice
  PROVE  /\ Cascaded(books, S) \in Books
         /\ Cascaded(books, S).po = books.po
         /\ \A i \in Invoice : RowDue(books.inv[i]) => RowDue(Cascaded(books, S).inv[i])
<1> DEFINE inv == [i \in Invoice |-> IF i \in S THEN [books.inv[i] EXCEPT !.kind = "gone"]
                                                ELSE books.inv[i]]
           tds == [i \in Invoice |-> IF i \in S THEN NoTds ELSE books.tds[i]]
           pay == [k \in Payment |-> IF books.pay[k].st = "live" /\ books.pay[k].inv \in S
                                       THEN [books.pay[k] EXCEPT !.st = "gone"]
                                       ELSE books.pay[k]]
           rev == [v \in Revision |-> IF books.rev[v].inv \in S
                                        THEN [books.rev[v] EXCEPT !.status = "Decided"]
                                        ELSE books.rev[v]]
<1>1. inv \in [Invoice -> InvoiceRow]
  <2>1. \A row \in InvoiceRow : [row EXCEPT !.kind = "gone"] \in InvoiceRow BY DEF InvoiceRow
  <2> QED BY <2>1 DEF Books
<1>2. tds \in [Invoice -> TdsRow]
  <2>1. NoTds \in TdsRow BY DEF NoTds, TdsRow
  <2> QED BY <2>1 DEF Books
<1>3. pay \in [Payment -> PaymentRow]
  <2>1. \A row \in PaymentRow : [row EXCEPT !.st = "gone"] \in PaymentRow BY DEF PaymentRow
  <2> QED BY <2>1 DEF Books
<1>4. rev \in [Revision -> RevisionRow]
  <2>1. \A row \in RevisionRow : [row EXCEPT !.status = "Decided"] \in RevisionRow
    BY DEF RevisionRow
  <2> QED BY <2>1 DEF Books
<1>5. Cascaded(books, S) = [books EXCEPT !.inv = inv, !.tds = tds, !.pay = pay, !.rev = rev]
  BY DEF Cascaded
<1>6. Cascaded(books, S) \in Books BY <1>1, <1>2, <1>3, <1>4, <1>5 DEF Books
<1>7. Cascaded(books, S).po = books.po /\ Cascaded(books, S).inv = inv BY <1>5 DEF Books
<1>8. \A row \in InvoiceRow : RowDue(row) => RowDue([row EXCEPT !.kind = "gone"])
  BY DEF RowDue, Due, InvoiceRow
<1> QED BY <1>6, <1>7, <1>8 DEF Books

(* A deleted invoice gives back what it drew, if it drew.                   *)
LEMMA ReleasedFine ==
  ASSUME books \in Books, NEW i \in Invoice
  PROVE  Fine([Cascaded(books, {i}) EXCEPT !.po = Released(books, i)])
<1>1. books.po \in [Po -> PoRow] /\ books.inv[i] \in InvoiceRow BY DEF Books
<1>2. books.inv[i].po \in Po \cup {NoPo} /\ -books.inv[i].sub \in Int /\ -books.inv[i].sub <= 0
  <2>1. Base \subseteq Nat BY BooksAssumption DEF BooksAssumption
  <2>2. books.inv[i].po \in Po \cup {NoPo} /\ books.inv[i].sub \in Base
    BY <1>1 DEF InvoiceRow
  <2>3. books.inv[i].sub \in Nat BY <2>1, <2>2
  <2>4. -books.inv[i].sub \in Int /\ -books.inv[i].sub <= 0 BY <2>3
  <2> QED BY <2>2, <2>4
<1>3. /\ Released(books, i) \in [Po -> PoRow]
      /\ \A q \in Po : Sound(books.po[q]) => Sound(Released(books, i)[q])
  BY <1>1, <1>2, ReleasedOrders DEF Released
<1>4. /\ Cascaded(books, {i}) \in Books
      /\ \A j \in Invoice : RowDue(books.inv[j]) => RowDue(Cascaded(books, {i}).inv[j])
  BY CascadedBooks
<1> QED BY <1>3, <1>4 DEF Fine, Books

(* DELETE /invoices.                                                        *)
LEMMA DeleteInvoiceKeeps == ASSUME IInv, NEW i \in Invoice, DeleteInvoice(i) PROVE IInv'
<1>1. Fine([Cascaded(books, {i}) EXCEPT !.po = Released(books, i)])
  BY ReleasedFine DEF IInv, TypeOK
<1>2. Ask([Cascaded(books, {i}) EXCEPT !.po = Released(books, i)], {})
  BY DEF DeleteInvoice, Asks
<1> QED BY <1>1, <1>2, AskKeeps

(* undo_invoice_admin.                                                      *)
LEMMA UndoInvoiceKeeps == ASSUME IInv, NEW i \in Invoice, UndoInvoice(i) PROVE IInv'
<1> DEFINE undoes == {books.pay[k].rc : k \in PaymentsOn(books, i)} \ {NoReceipt}
<1>1. Fine([Cascaded(books, {i}) EXCEPT !.po = Released(books, i)])
  BY ReleasedFine DEF IInv, TypeOK
<1>2. Ask([Cascaded(books, {i}) EXCEPT !.po = Released(books, i)], undoes)
  BY DEF UndoInvoice
<1>3. undoes \subseteq Receipt
  <2>1. \A k \in Payment : books.pay[k] \in PaymentRow BY DEF IInv, TypeOK, Books
  <2>2. \A k \in Payment : books.pay[k].rc \in Receipt \cup {NoReceipt} BY <2>1 DEF PaymentRow
  <2> QED BY <2>2 DEF PaymentsOn
<1> QED BY <1>1, <1>2, <1>3, AskKeeps

(* DELETE /purchase-orders.                                                 *)
LEMMA DeletePoKeeps == ASSUME IInv, NEW p \in Po, DeletePo(p) PROVE IInv'
<1> DEFINE S == RaisedOn(books, p)
           c == [Cascaded(books, S) EXCEPT !.po[p].status = "gone"]
<1>1. books \in Books /\ books.po[p] \in PoRow BY DEF IInv, TypeOK, Books
<1>2. S \in SUBSET Invoice BY DEF RaisedOn
<1>3. /\ Cascaded(books, S) \in Books /\ Cascaded(books, S).po = books.po
      /\ \A i \in Invoice : RowDue(books.inv[i]) => RowDue(Cascaded(books, S).inv[i])
  BY <1>1, <1>2, CascadedBooks
<1>4. [books.po[p] EXCEPT !.status = "gone"] \in PoRow BY <1>1 DEF PoRow
<1>5. Sound(books.po[p]) => Sound([books.po[p] EXCEPT !.status = "gone"])
  BY <1>1 DEF Sound, PoRow
<1>6. c = [Cascaded(books, S) EXCEPT
             !.po = [books.po EXCEPT ![p] = [books.po[p] EXCEPT !.status = "gone"]]]
  BY <1>3 DEF Books
<1>7. Fine(c) BY <1>1, <1>3, <1>4, <1>5, <1>6 DEF Fine, Books
<1>8. Ask(c, {}) BY DEF DeletePo, Asks
<1> QED BY <1>7, <1>8, AskKeeps

------------------------------------------------------------------------------
(* Payments and TDS of one invoice.                                         *)

(* A payment of a on i, live.                                               *)
LEMMA PaymentsRow ==
  ASSUME NEW i \in Invoice, NEW r \in Receipt \cup {NoReceipt}, NEW a \in Nat
  PROVE  Payments(i, r, a) \in PaymentRow
BY DEF Payments, PaymentRow

(* The amounts that are entered are natural numbers.                        *)
LEMMA CashNat == Cash \subseteq Nat BY BooksAssumption DEF BooksAssumption

(* POST /invoices/{id}/record-payment, stand-alone or from a receipt.       *)
LEMMA RecordPaymentKeeps ==
  ASSUME IInv, NEW i \in Invoice, NEW k \in Payment, NEW a \in Cash,
         NEW r \in Receipt \cup {NoReceipt}, RecordPayment(i, k, a, r)
  PROVE  IInv'
<1>1. books \in Books /\ books.inv[i] \in InvoiceRow /\ a \in Nat
  BY CashNat DEF IInv, TypeOK, Books
<1>2. PaidMore(books.inv[i], a) \in InvoiceRow /\ RowDue(PaidMore(books.inv[i], a))
  BY <1>1, PaidMoreRow
<1>3. Payments(i, r, a) \in PaymentRow BY <1>1, PaymentsRow
<1> DEFINE c == [books EXCEPT !.inv[i] = PaidMore(@, a), !.pay[k] = Payments(i, r, a)]
           d == [books EXCEPT !.inv[i] = PaidMore(@, a), !.pay[k] = Payments(i, r, a),
                              !.rc[r].left = @ - a]
<1>4. CASE r = NoReceipt /\ Ask(c, {})
  <2>1. Fine(c) BY <1>1, <1>2, <1>3 DEF Fine, Books
  <2> QED BY <1>4, <2>1, AskKeeps
<1>5. CASE r \in Receipt /\ a <= books.rc[r].left /\ Ask(d, {})
  <2>1. books.rc[r] \in ReceiptRow BY <1>1, <1>5 DEF Books
  <2>2. books.rc[r].left \in Nat BY <2>1 DEF ReceiptRow
  <2>3. books.rc[r].left - a \in Nat BY <1>1, <1>5, <2>2
  <2>4. [books.rc[r] EXCEPT !.left = @ - a] \in ReceiptRow BY <2>1, <2>3 DEF ReceiptRow
  <2>5. Fine(d) BY <1>1, <1>2, <1>3, <1>5, <2>4 DEF Fine, Books
  <2> QED BY <1>5, <2>5, AskKeeps
<1> QED BY <1>4, <1>5 DEF RecordPayment, Asks

(* ... or as a receipt of its own.                                          *)
LEMMA RecordReceivedKeeps ==
  ASSUME IInv, NEW i \in Invoice, NEW k \in Payment, NEW a \in Cash,
         NEW r \in Receipt, RecordReceived(i, k, a, r)
  PROVE  IInv'
<1> DEFINE c == [books EXCEPT !.inv[i] = PaidMore(@, a), !.pay[k] = Payments(i, r, a),
                              !.rc[r] = [st |-> "live", amount |-> a, left |-> 0]]
<1>1. books \in Books /\ books.inv[i] \in InvoiceRow /\ a \in Nat
  BY CashNat DEF IInv, TypeOK, Books
<1>2. PaidMore(books.inv[i], a) \in InvoiceRow /\ RowDue(PaidMore(books.inv[i], a))
  BY <1>1, PaidMoreRow
<1>3. Payments(i, r, a) \in PaymentRow BY <1>1, PaymentsRow
<1>4. [st |-> "live", amount |-> a, left |-> 0] \in ReceiptRow BY <1>1 DEF ReceiptRow
<1>5. Fine(c) BY <1>1, <1>2, <1>3, <1>4 DEF Fine, Books
<1>6. Ask(c, {}) BY DEF RecordReceived, Asks
<1> QED BY <1>5, <1>6, AskKeeps

(* Money goes back on account of a receipt.                                 *)
LEMMA PutBackRow ==
  ASSUME NEW row \in ReceiptRow, NEW a \in Nat PROVE PutBack(row, a) \in ReceiptRow
<1>1. row.left + a \in Nat BY DEF ReceiptRow
<1> QED BY <1>1 DEF PutBack, ReceiptRow

(* services/invoice_payments.py reverse_payment.                            *)
LEMMA ReversePaymentKeeps ==
  ASSUME IInv, NEW k \in Payment, NEW remove \in BOOLEAN, ReversePayment(k, remove)
  PROVE  IInv'
<1> DEFINE pay == books.pay[k]
           c == [books EXCEPT !.inv[pay.inv] = PaidMore(@, -pay.amount), !.pay[k].st = "gone"]
<1>1. books \in Books /\ pay \in PaymentRow BY DEF IInv, TypeOK, Books
<1>2. pay.rc \in Receipt \cup {NoReceipt} /\ pay.amount \in Nat BY <1>1 DEF PaymentRow
<1>3. \A row \in InvoiceRow : /\ PaidMore(row, -pay.amount) \in InvoiceRow
                              /\ RowDue(PaidMore(row, -pay.amount))
  <2>1. -pay.amount \in Int BY <1>2
  <2> QED BY <2>1, PaidMoreRow
<1>4. [pay EXCEPT !.st = "gone"] \in PaymentRow BY <1>1 DEF PaymentRow
<1>5. Fine(c) /\ c.rc = books.rc /\ c.po = books.po BY <1>1, <1>3, <1>4 DEF Fine, Books
<1>6. CASE Ask(c, {}) BY <1>5, <1>6, AskKeeps
<1>7. CASE pay.rc # NoReceipt /\ Ask([c EXCEPT !.rc[pay.rc] = PutBack(@, pay.amount)], {})
  <2>1. PutBack(books.rc[pay.rc], pay.amount) \in ReceiptRow
    BY <1>1, <1>2, <1>7, PutBackRow DEF Books
  <2>2. Fine([c EXCEPT !.rc[pay.rc] = PutBack(@, pay.amount)])
    BY <1>2, <1>5, <1>7, <2>1 DEF Fine, Books
  <2> QED BY <1>7, <2>2, AskKeeps
<1>8. CASE pay.rc # NoReceipt /\ Ask([c EXCEPT !.rc[pay.rc].st = "gone"], {})
  <2>1. books.rc[pay.rc] \in ReceiptRow BY <1>1, <1>2, <1>8 DEF Books
  <2>2. [books.rc[pay.rc] EXCEPT !.st = "gone"] \in ReceiptRow BY <2>1 DEF ReceiptRow
  <2>3. Fine([c EXCEPT !.rc[pay.rc].st = "gone"]) BY <1>2, <1>5, <1>8, <2>2 DEF Fine, Books
  <2> QED BY <1>8, <2>3, AskKeeps
<1> QED BY <1>6, <1>7, <1>8 DEF ReversePayment, Asks

(* A TDS record of a.                                                       *)
LEMMA TdsOf ==
  ASSUME NEW r \in Receipt \cup {NoReceipt}, NEW a \in Nat PROVE Tds(a, r) \in TdsRow
BY DEF Tds, TdsRow

(* An invoice without TDS.                                                  *)
LEMMA NoTdsRow == NoTds \in TdsRow
BY DEF NoTds, TdsRow

(* POST /invoices/{id}/tds.                                                 *)
LEMMA RecordTdsKeeps ==
  ASSUME IInv, NEW i \in Invoice, NEW a \in Cash, RecordTds(i, a) PROVE IInv'
<1> DEFINE c == [books EXCEPT !.inv[i] = Withheld(@, a), !.tds[i] = Tds(a, NoReceipt)]
<1>1. books \in Books /\ books.inv[i] \in InvoiceRow /\ a \in Nat
  BY CashNat DEF IInv, TypeOK, Books
<1>2. Withheld(books.inv[i], a) \in InvoiceRow /\ RowDue(Withheld(books.inv[i], a))
  BY <1>1, WithheldRow
<1>3. Fine(c) BY <1>1, <1>2, TdsOf DEF Fine, Books
<1>4. Ask(c, {}) BY DEF RecordTds, Asks
<1> QED BY <1>3, <1>4, AskKeeps

(* POST /tds/{id}/payments.                                                 *)
LEMMA TdsReceivedKeeps == ASSUME IInv, NEW i \in Invoice, TdsReceived(i) PROVE IInv'
<1> DEFINE c == [books EXCEPT !.tds[i].got = TRUE]
<1>1. books \in Books /\ books.tds[i] \in TdsRow BY DEF IInv, TypeOK, Books
<1>2. [books.tds[i] EXCEPT !.got = TRUE] \in TdsRow BY <1>1 DEF TdsRow
<1>3. Fine(c) BY <1>1, <1>2 DEF Fine, Books
<1>4. Ask(c, {}) BY DEF TdsReceived, Asks
<1> QED BY <1>3, <1>4, AskKeeps

(* DELETE /tds/{id}.                                                        *)
LEMMA DeleteTdsKeeps == ASSUME IInv, NEW i \in Invoice, DeleteTds(i) PROVE IInv'
<1> DEFINE a == -books.tds[i].amount
           c == [books EXCEPT !.inv[i] = Withheld(@, a), !.tds[i] = NoTds]
<1>1. books \in Books /\ books.inv[i] \in InvoiceRow /\ books.tds[i] \in TdsRow
  BY DEF IInv, TypeOK, Books
<1>2. a \in Int BY <1>1 DEF TdsRow
<1>3. Withheld(books.inv[i], a) \in InvoiceRow /\ RowDue(Withheld(books.inv[i], a))
  BY <1>1, <1>2, WithheldRow
<1>4. Fine(c) BY <1>1, <1>3, NoTdsRow DEF Fine, Books
<1>5. Ask(c, {}) BY DEF DeleteTds, Asks
<1> QED BY <1>4, <1>5, AskKeeps

------------------------------------------------------------------------------
(* Received amounts.                                                        *)

(* Mapping a receipt to invoices leaves on each the balance that is due.    *)
LEMMA SettledFine ==
  ASSUME books \in Books, NEW r \in Receipt, NEW S \in SUBSET Invoice, NEW most \in Nat,
         NEW w \in [S -> Cash \cup {0}], NEW take \in [S -> 0..most],
         NEW o \in RowsFor(take)
  PROVE  /\ Fine(Settled(r, w, take, o))
         /\ Settled(r, w, take, o).rc = books.rc
<1> DEFINE inv == [i \in Invoice |-> IF i \in DOMAIN w
                                       THEN WithCash(WithTds(books.inv[i], w[i]), take[i])
                                       ELSE books.inv[i]]
           tds == [i \in Invoice |-> IF i \in DOMAIN w /\ w[i] > 0 THEN Tds(w[i], r)
                                                                  ELSE books.tds[i]]
           pay == [k \in Payment |-> IF k \in DOMAIN o THEN Payments(o[k], r, take[o[k]])
                                                      ELSE books.pay[k]]
<1>1. DOMAIN w = S /\ \A i \in S : w[i] \in Nat /\ take[i] \in Nat
  <2>1. DOMAIN w = S OBVIOUS
  <2>2. Cash \cup {0} \subseteq Nat BY CashNat
  <2>3. ASSUME NEW i \in S PROVE w[i] \in Nat
    <3>1. w[i] \in Cash \cup {0} OBVIOUS
    <3> QED BY <2>2, <3>1
  <2>4. \A i \in S : take[i] \in 0..most OBVIOUS
  <2> QED BY <2>1, <2>3, <2>4
<1>2. ASSUME NEW row \in InvoiceRow, NEW a \in Nat
      PROVE  /\ WithTds(row, a) \in InvoiceRow /\ WithCash(row, a) \in InvoiceRow
             /\ RowDue(row) => RowDue(WithTds(row, a)) /\ RowDue(WithCash(row, a))
  BY WithheldRow, PaidMoreRow DEF WithTds, WithCash
<1>3. \A i \in Invoice : /\ inv[i] \in InvoiceRow
                         /\ RowDue(books.inv[i]) => RowDue(inv[i])
  <2>1. \A i \in Invoice : books.inv[i] \in InvoiceRow BY DEF Books
  <2>2. ASSUME NEW i \in S
        PROVE  /\ WithCash(WithTds(books.inv[i], w[i]), take[i]) \in InvoiceRow
               /\ RowDue(books.inv[i]) =>
                    RowDue(WithCash(WithTds(books.inv[i], w[i]), take[i]))
    <3>1. /\ WithTds(books.inv[i], w[i]) \in InvoiceRow
          /\ RowDue(books.inv[i]) => RowDue(WithTds(books.inv[i], w[i]))
      BY <1>1, <1>2, <2>1
    <3> QED BY <1>1, <1>2, <3>1
  <2> QED BY <1>1, <2>1, <2>2
<1>4. \A i \in Invoice : tds[i] \in TdsRow
  <2>1. \A i \in Invoice : books.tds[i] \in TdsRow BY DEF Books
  <2> QED BY <1>1, <2>1, TdsOf
<1>5. \A k \in Payment : pay[k] \in PaymentRow
  <2>1. \A k \in Payment : books.pay[k] \in PaymentRow BY DEF Books
  <2>2. PICK F \in SUBSET {k \in Payment : FreshPayment(k)} : o \in Bijection(F, Paying(take))
    BY DEF RowsFor
  <2>3. o \in [F -> Paying(take)] BY <2>2 DEF Bijection, Surjection, Injection
  <2>4. \A k \in DOMAIN o : o[k] \in S /\ o[k] \in Invoice /\ take[o[k]] \in Nat
    BY <1>1, <2>3 DEF Paying
  <2> QED BY <2>1, <2>4, PaymentsRow
<1>6. Settled(r, w, take, o) = [books EXCEPT !.inv = inv, !.tds = tds, !.pay = pay]
  BY DEF Settled
<1> HIDE DEF inv, tds, pay
<1>7. Settled(r, w, take, o) = [inv |-> inv, po |-> books.po, rc |-> books.rc, pay |-> pay,
                                tds |-> tds, note |-> books.note, rev |-> books.rev]
  BY <1>6 DEF Books
<1>8. inv \in [Invoice -> InvoiceRow] /\ tds \in [Invoice -> TdsRow]
        /\ pay \in [Payment -> PaymentRow]
  BY <1>3, <1>4, <1>5 DEF inv, tds, pay
<1>9. Settled(r, w, take, o) \in Books BY <1>7, <1>8 DEF Books
<1> QED BY <1>3, <1>7, <1>9 DEF Fine

(* POST /customer-receipts.                                                 *)
LEMMA CreateReceiptKeeps ==
  ASSUME IInv, NEW r \in Receipt, NEW cash \in Cash, NEW S \in SUBSET Invoice,
         NEW w \in [S -> Cash \cup {0}], CreateReceipt(r, cash, S, w)
  PROVE  IInv'
<1>1. books \in Books /\ cash \in Nat BY CashNat DEF IInv, TypeOK
<1>2. PICK take \in [S -> 0..cash], left \in 0..cash :
        \E o \in RowsFor(take) :
          Ask([Settled(r, w, take, o) EXCEPT
                 !.rc[r] = [st |-> "live", amount |-> cash, left |-> left]], {})
  BY DEF CreateReceipt, Asks
<1>2a. PICK o \in RowsFor(take) :
        Ask([Settled(r, w, take, o) EXCEPT
               !.rc[r] = [st |-> "live", amount |-> cash, left |-> left]], {})
  BY <1>2
<1> DEFINE d == Settled(r, w, take, o)
           c == [d EXCEPT !.rc[r] = [st |-> "live", amount |-> cash, left |-> left]]
<1>3. Fine(d) BY <1>1, SettledFine
<1>4. [st |-> "live", amount |-> cash, left |-> left] \in ReceiptRow BY <1>1 DEF ReceiptRow
<1> HIDE DEF d
<1>5. Fine(c) BY <1>3, <1>4 DEF Fine, Books
<1> QED BY <1>2a, <1>5, AskKeeps DEF d

(* POST /customer-receipts/{id}/allocate.                                   *)
LEMMA AllocateKeeps ==
  ASSUME IInv, NEW r \in Receipt, NEW S \in SUBSET Invoice,
         NEW w \in [S -> Cash \cup {0}], Allocate(r, S, w)
  PROVE  IInv'
<1>1. books \in Books /\ books.rc[r] \in ReceiptRow BY DEF IInv, TypeOK, Books
<1>2. books.rc[r].left \in Nat BY <1>1 DEF ReceiptRow
<1>3. PICK take \in [S -> 0..books.rc[r].left], left \in 0..books.rc[r].left :
        \E o \in RowsFor(take) : Ask([Settled(r, w, take, o) EXCEPT !.rc[r].left = left], {})
  BY DEF Allocate, Asks
<1>3a. PICK o \in RowsFor(take) : Ask([Settled(r, w, take, o) EXCEPT !.rc[r].left = left], {})
  BY <1>3
<1> DEFINE d == Settled(r, w, take, o)
           c == [d EXCEPT !.rc[r].left = left]
<1>4. Fine(d) /\ d.rc = books.rc BY <1>1, <1>2, SettledFine
<1>5. [books.rc[r] EXCEPT !.left = left] \in ReceiptRow BY <1>1, <1>2 DEF ReceiptRow
<1> HIDE DEF d
<1>6. Fine(c) BY <1>4, <1>5 DEF Fine, Books
<1> QED BY <1>3a, <1>6, AskKeeps DEF d

(* Taking a mapping back leaves on each invoice the balance that is due.    *)
LEMMA UnsettledFine ==
  ASSUME books \in Books, NEW r \in Receipt, NEW S \in SUBSET Invoice,
         \A i \in S : Mapped(books, r, i) \in Nat
  PROVE  /\ Fine(Unsettled(r, S))
         /\ Unsettled(r, S).rc = books.rc
<1> DEFINE held(i) == IF OfReceipt(books, r, i)
                        THEN Withheld(books.inv[i], -books.tds[i].amount) ELSE books.inv[i]
           inv == [i \in Invoice |->
                     IF i \notin S THEN books.inv[i]
                     ELSE IF Mapped(books, r, i) > 0
                            THEN PaidMore(held(i), -Mapped(books, r, i)) ELSE held(i)]
           tds == [i \in Invoice |-> IF i \in S /\ OfReceipt(books, r, i) THEN NoTds
                                                                         ELSE books.tds[i]]
           pay == [k \in Payment |->
                     IF books.pay[k].st = "live" /\ books.pay[k].rc = r
                          /\ books.pay[k].inv \in S
                       THEN [books.pay[k] EXCEPT !.st = "gone"] ELSE books.pay[k]]
<1>1. \A i \in Invoice : books.inv[i] \in InvoiceRow /\ books.tds[i] \in TdsRow BY DEF Books
<1>2. \A i \in Invoice : held(i) \in InvoiceRow /\ (RowDue(books.inv[i]) => RowDue(held(i)))
  <2>1. \A i \in Invoice : -books.tds[i].amount \in Int BY <1>1 DEF TdsRow
  <2> QED BY <1>1, <2>1, WithheldRow
<1>3. \A i \in Invoice : inv[i] \in InvoiceRow /\ (RowDue(books.inv[i]) => RowDue(inv[i]))
  <2> HIDE DEF held
  <2>1. \A i \in S : -Mapped(books, r, i) \in Int OBVIOUS
  <2> QED BY <1>1, <1>2, <2>1, PaidMoreRow
<1>4. tds \in [Invoice -> TdsRow] BY <1>1, NoTdsRow
<1>5. pay \in [Payment -> PaymentRow]
  <2>1. \A row \in PaymentRow : [row EXCEPT !.st = "gone"] \in PaymentRow BY DEF PaymentRow
  <2> QED BY <2>1 DEF Books
<1>6. Unsettled(r, S) = [books EXCEPT !.inv = inv, !.tds = tds, !.pay = pay]
  BY DEF Unsettled
<1>7. inv \in [Invoice -> InvoiceRow] BY <1>3
<1> HIDE DEF inv, tds, pay
<1>8. Unsettled(r, S) = [inv |-> inv, po |-> books.po, rc |-> books.rc, pay |-> pay,
                         tds |-> tds, note |-> books.note, rev |-> books.rev]
  BY <1>6 DEF Books
<1>9. Unsettled(r, S) \in Books BY <1>4, <1>5, <1>7, <1>8 DEF Books
<1> QED BY <1>3, <1>8, <1>9 DEF Fine

(* DELETE /customer-receipts/{id}/invoices/{id}.                            *)
LEMMA UnmapInvoiceKeeps ==
  ASSUME IInv, NEW r \in Receipt, NEW i \in Invoice, UnmapInvoice(r, i) PROVE IInv'
<1> DEFINE a == Mapped(books, r, i)
           d == Unsettled(r, {i})
           c == [d EXCEPT !.rc[r] = PutBack(@, a)]
<1>1. books \in Books /\ books.rc[r] \in ReceiptRow BY DEF IInv, TypeOK, Books
<1>2. a \in Nat BY DEF UnmapInvoice, Money
<1>3. Fine(d) /\ d.rc = books.rc BY <1>1, <1>2, UnsettledFine
<1>4. PutBack(books.rc[r], a) \in ReceiptRow BY <1>1, <1>2, PutBackRow
<1>5. Ask(c, {}) BY DEF UnmapInvoice, Asks
<1> HIDE DEF d, a
<1>6. Fine(c) BY <1>3, <1>4 DEF Fine, Books
<1> QED BY <1>5, <1>6, AskKeeps

(* PUT /customer-receipts/{id}.                                             *)
LEMMA UpdateReceiptKeeps ==
  ASSUME IInv, NEW r \in Receipt, NEW a \in Cash, UpdateReceipt(r, a) PROVE IInv'
<1>1. books \in Books /\ books.rc[r] \in ReceiptRow /\ a \in Nat
  BY CashNat DEF IInv, TypeOK, Books
<1>2. PICK applied \in 0..a :
        Ask([books EXCEPT !.rc[r].amount = a, !.rc[r].left = a - applied], {})
  BY DEF UpdateReceipt, Asks
<1>3. a - applied \in Nat BY <1>1, <1>2
<1> DEFINE c == [books EXCEPT !.rc[r].amount = a, !.rc[r].left = a - applied]
<1>4. [[books.rc[r] EXCEPT !.amount = a] EXCEPT !.left = a - applied] \in ReceiptRow
  BY <1>1, <1>3 DEF ReceiptRow
<1>5. Fine(c) BY <1>1, <1>4 DEF Fine, Books
<1> QED BY <1>2, <1>5, AskKeeps

(* DELETE /customer-receipts/{id}.                                          *)
LEMMA DeleteReceiptKeeps == ASSUME IInv, NEW r \in Receipt, DeleteReceipt(r) PROVE IInv'
<1> DEFINE d == Unsettled(r, Invoice)
           c == [d EXCEPT !.rc[r].st = "gone"]
<1>1. books \in Books /\ books.rc[r] \in ReceiptRow BY DEF IInv, TypeOK, Books
<1>2. \A i \in Invoice : Mapped(books, r, i) \in Nat
  <2>1. Money \subseteq Nat BY DEF Money
  <2>2. \A i \in Invoice : Mapped(books, r, i) \in Money BY DEF DeleteReceipt
  <2> QED BY <2>1, <2>2
<1>3. Fine(d) /\ d.rc = books.rc BY <1>1, <1>2, UnsettledFine
<1>4. [books.rc[r] EXCEPT !.st = "gone"] \in ReceiptRow BY <1>1 DEF ReceiptRow
<1>5. Ask(c, {}) BY DEF DeleteReceipt, Asks
<1> HIDE DEF d
<1>6. Fine(c) BY <1>3, <1>4 DEF Fine, Books
<1> QED BY <1>5, <1>6, AskKeeps

------------------------------------------------------------------------------
(* Credit notes.                                                            *)

(* POST /credit-notes.                                                      *)
LEMMA CreateNoteKeeps ==
  ASSUME IInv, NEW m \in Note, NEW i \in Invoice, NEW a \in Cash, CreateNote(m, i, a)
  PROVE  IInv'
<1> DEFINE c == [books EXCEPT !.note[m] = [status |-> "Draft", inv |-> i, amount |-> a]]
<1>1. books \in Books /\ a \in Nat BY CashNat DEF IInv, TypeOK
<1>2. [status |-> "Draft", inv |-> i, amount |-> a] \in NoteRow BY <1>1 DEF NoteRow
<1>3. Fine(c) BY <1>1, <1>2 DEF Fine, Books
<1>4. Ask(c, {}) BY DEF CreateNote, Asks
<1> QED BY <1>3, <1>4, AskKeeps

(* POST /credit-notes/{id}/approve.                                         *)
LEMMA ApproveNoteKeeps == ASSUME IInv, NEW m \in Note, ApproveNote(m) PROVE IInv'
<1> DEFINE c == [books EXCEPT !.note[m].status = "Approved"]
<1>1. books \in Books /\ books.note[m] \in NoteRow BY DEF IInv, TypeOK, Books
<1>2. [books.note[m] EXCEPT !.status = "Approved"] \in NoteRow BY <1>1 DEF NoteRow
<1>3. Fine(c) BY <1>1, <1>2 DEF Fine, Books
<1>4. books' = c /\ UNCHANGED <<txn, torn, undone, used>> BY DEF ApproveNote
<1>5. TypeOK' BY <1>3, <1>4 DEF IInv, TypeOK, Fine
<1>6. BalanceDue' /\ NeverOverdrawn'
  BY <1>3, <1>4 DEF IInv, BalanceDue, NeverOverdrawn, Fine, RowDue, Sound
<1>7. OpenHolds' BY <1>4 DEF IInv, OpenHolds
<1> QED BY <1>5, <1>6, <1>7 DEF IInv

(* POST /credit-notes/{id}/cancel.                                          *)
LEMMA CancelNoteKeeps == ASSUME IInv, NEW m \in Note, CancelNote(m) PROVE IInv'
<1> DEFINE c == [books EXCEPT !.note[m].status = "Cancelled"]
<1>1. books \in Books /\ books.note[m] \in NoteRow BY DEF IInv, TypeOK, Books
<1>2. [books.note[m] EXCEPT !.status = "Cancelled"] \in NoteRow BY <1>1 DEF NoteRow
<1>3. Fine(c) BY <1>1, <1>2 DEF Fine, Books
<1>4. Ask(c, {}) BY DEF CancelNote, Asks
<1> QED BY <1>3, <1>4, AskKeeps

(* POST /credit-notes/{id}/settle: a credit that was taken is marked.       *)
LEMMA SettleNoteKeeps ==
  ASSUME IInv, NEW m \in Note, NEW adjust \in BOOLEAN, SettleNote(m, adjust) PROVE IInv'
<1> DEFINE note == books.note[m]
           c == [books EXCEPT !.note[m].status = "Settled"]
           d == [c EXCEPT !.inv[note.inv] = Credited(@, note.amount)]
<1>1. books \in Books /\ note \in NoteRow BY DEF IInv, TypeOK, Books
<1>2. [note EXCEPT !.status = "Settled"] \in NoteRow BY <1>1 DEF NoteRow
<1>3. Fine(c) /\ c.inv = books.inv BY <1>1, <1>2 DEF Fine, Books
<1>4. \A row \in InvoiceRow : /\ Credited(row, note.amount) \in InvoiceRow
                              /\ RowDue(Credited(row, note.amount))
  <2>1. note.amount \in Nat BY <1>1 DEF NoteRow
  <2>2. \A row \in InvoiceRow : Floor(row.balance - note.amount) \in Nat
    BY <2>1, FloorNat DEF InvoiceRow
  <2> QED BY <2>2 DEF Credited, InvoiceRow, RowDue
<1>5. CASE Ask(c, {}) BY <1>3, <1>5, AskKeeps
<1>6. CASE Ask(d, {})
  <2>1. \A i \in Invoice : books.inv[i] \in InvoiceRow BY <1>1 DEF Books
  <2> HIDE DEF c
  <2>2. Fine(d) BY <1>3, <1>4, <2>1 DEF Fine, Books
  <2> QED BY <1>6, <2>2, AskKeeps
<1> QED BY <1>5, <1>6 DEF SettleNote, Asks

------------------------------------------------------------------------------
(* Change requests.                                                         *)

(* What one order gives back, another that covers it takes over; both may   *)
(* be the same.                                                             *)
LEMMA RedrawnOrders ==
  ASSUME NEW orders \in [Po -> PoRow], NEW o \in Po \cup {NoPo}, NEW given \in Nat,
         NEW p \in Po, NEW n \in Nat, n <= orders[p].balance
  PROVE  /\ Moved(Moved(orders, o, -given), p, n) \in [Po -> PoRow]
         /\ \A q \in Po : Sound(orders[q]) => Sound(Moved(Moved(orders, o, -given), p, n)[q])
<1> DEFINE back == Moved(orders, o, -given)
<1>1. -given \in Int /\ -given <= 0 OBVIOUS
<1>2. back \in [Po -> PoRow] /\ \A q \in Po : Sound(orders[q]) => Sound(back[q])
  BY <1>1, ReleasedOrders
<1>3. orders[p] \in PoRow BY DEF PoRow
<1>4. orders[p].balance \in Nat BY <1>3 DEF PoRow
<1>5. ASSUME Sound(orders[p]) PROVE n <= back[p].balance
  <2>1. CASE back = [orders EXCEPT ![o] = Consumed(@, -given)] /\ o = p
    <3>1. back[p] = Consumed(orders[p], -given) BY <2>1
    <3>2. -given <= orders[p].balance BY <1>1, <1>4
    <3>3. Consumed(orders[p], -given).balance = orders[p].balance - (-given)
      BY <1>1, <1>3, <1>5, <3>2, ConsumedRow
    <3> QED BY <1>4, <3>1, <3>3
  <2>2. CASE back = orders BY <2>2
  <2>3. CASE back = [orders EXCEPT ![o] = Consumed(@, -given)] /\ o # p
    <3>1. back[p] = orders[p] BY <2>3
    <3> QED BY <3>1
  <2> QED BY <2>1, <2>2, <2>3 DEF Moved
<1> HIDE DEF back
<1>6. n \in Int /\ p \in Po \cup {NoPo} OBVIOUS
<1>7. Moved(back, p, n) \in [Po -> PoRow] BY <1>2, <1>6, MovedOrders
<1>8. ASSUME NEW q \in Po, Sound(orders[q]) PROVE Sound(Moved(back, p, n)[q])
  <2>1. CASE Sound(orders[p])
    <3>1. n <= back[p].balance BY <1>5, <2>1
    <3>2. Sound(back[q]) BY <1>2, <1>8
    <3> QED BY <1>2, <1>6, <3>1, <3>2, MovedOrders
  <2>2. CASE ~Sound(orders[p])
    <3>1. q # p BY <1>8, <2>2
    <3>2. Moved(back, p, n)[q] = back[q] BY <1>2, <3>1 DEF Moved
    <3> QED BY <1>2, <1>8, <3>2
  <2> QED BY <2>1, <2>2
<1> QED BY <1>7, <1>8 DEF back

(* services/invoice_revisions.py _apply: to another order only what that    *)
(* one covers, on the same one only what it still has.                      *)
LEMMA RevisedFine ==
  ASSUME books \in Books, NEW i \in Invoice, NEW s \in Base \cup {0},
         NEW p \in Po \cup {NoPo}, Applies(i, s, p)
  PROVE  Fine(Revised(i, s, p)) /\ Revised(i, s, p).rev = books.rev
<1> DEFINE row == books.inv[i]
           n == NewSub(row, s)
           new == [row EXCEPT !.sub = n, !.po = IF p # NoPo THEN p ELSE row.po]
           po == IF p # NoPo THEN Moved(Moved(books.po, row.po, -row.sub), p, n)
                             ELSE Moved(books.po, row.po, n - row.sub)
<1>1. books.po \in [Po -> PoRow] /\ row \in InvoiceRow BY DEF Books
<1>2. row.po \in Po \cup {NoPo} /\ row.sub \in Nat /\ n \in Base /\ n \in Nat
  <2>1. Base \subseteq Nat BY BooksAssumption DEF BooksAssumption
  <2>2. row.po \in Po \cup {NoPo} /\ row.sub \in Base BY <1>1 DEF InvoiceRow
  <2>3. n \in Base BY <2>2 DEF NewSub
  <2>4. row.sub \in Nat /\ n \in Nat BY <2>1, <2>2, <2>3
  <2> QED BY <2>2, <2>3, <2>4
<1> HIDE DEF n
<1>3. Refreshed(new) \in InvoiceRow /\ RowDue(Refreshed(new))
  <2>1. new \in InvoiceRow BY <1>1, <1>2 DEF InvoiceRow
  <2> QED BY <2>1, RefreshedRow
<1>4. po \in [Po -> PoRow] /\ \A q \in Po : Sound(books.po[q]) => Sound(po[q])
  <2>1. CASE p # NoPo
    <3>1. p \in Po /\ n <= books.po[p].balance
      <4>1. books.po[p] \in PoRow BY <1>1, <2>1
      <4>2. books.po[p].balance >= n BY <2>1 DEF Applies, Covers, n
      <4> QED BY <1>2, <2>1, <4>1, <4>2 DEF PoRow
    <3>2. po = Moved(Moved(books.po, row.po, -row.sub), p, n) BY <2>1
    <3> QED BY <1>1, <1>2, <3>1, <3>2, RedrawnOrders
  <2>2. CASE p = NoPo
    <3>1. n - row.sub \in Int BY <1>2
    <3>2. row.po # NoPo => n - row.sub <= books.po[row.po].balance
      <4>1. ASSUME row.po # NoPo PROVE books.po[row.po].balance \in Nat
        BY <1>1, <1>2, <4>1 DEF PoRow
      <4>2. n > row.sub => (row.po # NoPo => books.po[row.po].balance >= n - row.sub)
        BY <2>2 DEF Applies, Covers, n
      <4> QED BY <1>2, <4>1, <4>2
    <3>3. po = Moved(books.po, row.po, n - row.sub) BY <2>2
    <3> QED BY <1>1, <1>2, <3>1, <3>2, <3>3, MovedOrders
  <2> QED BY <2>1, <2>2
<1>5. Revised(i, s, p) = [books EXCEPT !.inv[i] = Refreshed(new), !.po = po]
  BY DEF Revised, n
<1> HIDE DEF po, new
<1>6. Revised(i, s, p) = [inv |-> [books.inv EXCEPT ![i] = Refreshed(new)], po |-> po,
                          rc |-> books.rc, pay |-> books.pay, tds |-> books.tds,
                          note |-> books.note, rev |-> books.rev]
  BY <1>5 DEF Books
<1>7. Revised(i, s, p) \in Books BY <1>3, <1>4, <1>6 DEF Books
<1>8. \A j \in Invoice : RowDue(books.inv[j]) => RowDue(Revised(i, s, p).inv[j])
  BY <1>3, <1>6 DEF Books
<1> QED BY <1>4, <1>6, <1>7, <1>8 DEF Fine

(* POST /invoices/{id}/revisions.                                           *)
LEMMA RequestRevisionKeeps ==
  ASSUME IInv, NEW v \in Revision, NEW i \in Invoice, NEW s \in Base \cup {0},
         NEW p \in Po \cup {NoPo}, NEW admin \in BOOLEAN, RequestRevision(v, i, s, p, admin)
  PROVE  IInv'
<1> DEFINE row(status) == [status |-> status, inv |-> i, sub |-> s, po |-> p]
           c == [books EXCEPT !.rev[v] = row("Pending")]
           d == Revised(i, s, p)
           e == [d EXCEPT !.rev[v] = row("Decided")]
<1>1. books \in Books BY DEF IInv, TypeOK
<1>2. row("Pending") \in RevisionRow /\ row("Decided") \in RevisionRow BY DEF RevisionRow
<1>3. CASE Ask(c, {})
  <2>1. Fine(c) BY <1>1, <1>2 DEF Fine, Books
  <2> QED BY <1>3, <2>1, AskKeeps
<1>4. CASE Applies(i, s, p) /\ Ask(e, {})
  <2>1. Fine(d) BY <1>1, <1>4, RevisedFine
  <2> HIDE DEF d
  <2>2. Fine(e) BY <1>2, <2>1 DEF Fine, Books
  <2> QED BY <1>4, <2>2, AskKeeps
<1> QED BY <1>3, <1>4 DEF RequestRevision, Asks

(* POST /invoice-revisions/{id}/approve.                                    *)
LEMMA ApproveRevisionKeeps ==
  ASSUME IInv, NEW v \in Revision, ApproveRevision(v) PROVE IInv'
<1> DEFINE rev == books.rev[v]
           d == Revised(rev.inv, rev.sub, rev.po)
           c == [d EXCEPT !.rev[v].status = "Decided"]
<1>1. books \in Books /\ rev \in RevisionRow BY DEF IInv, TypeOK, Books
<1>2. rev.sub \in Base \cup {0} /\ rev.po \in Po \cup {NoPo} BY <1>1 DEF RevisionRow
<1>3. [rev EXCEPT !.status = "Decided"] \in RevisionRow BY <1>1 DEF RevisionRow
<1>4. Applies(rev.inv, rev.sub, rev.po) /\ Ask(c, {}) BY DEF ApproveRevision, Asks
<1>5. rev.inv \in Invoice
  <2>1. rev.status = "Pending" BY DEF ApproveRevision
  <2> QED BY <1>1, <2>1 DEF RevisionRow
<1>6. Fine(d) /\ d.rev = books.rev BY <1>1, <1>2, <1>4, <1>5, RevisedFine
<1> HIDE DEF d
<1>7. Fine(c) BY <1>3, <1>6 DEF Fine, Books
<1> QED BY <1>4, <1>7, AskKeeps

(* POST /invoice-revisions/{id}/reject and /cancel.                         *)
LEMMA RejectRevisionKeeps == ASSUME IInv, NEW v \in Revision, RejectRevision(v) PROVE IInv'
<1> DEFINE c == [books EXCEPT !.rev[v].status = "Decided"]
<1>1. books \in Books /\ books.rev[v] \in RevisionRow BY DEF IInv, TypeOK, Books
<1>2. [books.rev[v] EXCEPT !.status = "Decided"] \in RevisionRow BY <1>1 DEF RevisionRow
<1>3. Fine(c) BY <1>1, <1>2 DEF Fine, Books
<1>4. Ask(c, {}) BY DEF RejectRevision, Asks
<1> QED BY <1>3, <1>4, AskKeeps

------------------------------------------------------------------------------
(* The books as opened are in order.                                        *)
LEMMA InitHolds == Init => IInv
<1> SUFFICES ASSUME Init PROVE IInv OBVIOUS
<1>1. books = Opening /\ torn = {} /\ txn = [t \in Txn |-> Closed] BY DEF Init
<1>2. Opening \in Books BY OpeningAssumption DEF OpeningAssumption
<1>3. Closed \in Session BY <1>2 DEF Closed, Session
<1>4. used \in [ops : 0..MaxOps, overlaps : 0..MaxOverlaps]
  <2>1. MaxOps \in Nat /\ MaxOverlaps \in Nat BY BooksAssumption DEF BooksAssumption
  <2> QED BY <2>1 DEF Init
<1>5. TypeOK BY <1>1, <1>2, <1>3, <1>4 DEF Init, TypeOK
<1>6. BalanceDue BY <1>1, OpeningAssumption DEF OpeningAssumption, BalanceDue
<1>7. NeverOverdrawn BY <1>1, OpeningAssumption DEF OpeningAssumption, NeverOverdrawn
<1>8. OpenHolds BY <1>1 DEF OpenHolds, Closed
<1> QED BY <1>5, <1>6, <1>7, <1>8 DEF IInv

(* Every request keeps the invariant.                                       *)
LEMMA RequestKeeps == ASSUME IInv, Request PROVE IInv'
<1>1. CASE Ordering
  BY <1>1, UpdatePoKeeps, CancelPoKeeps, DeletePoKeeps DEF Ordering
<1>2. CASE Issuing
  BY <1>2, CreateInvoiceKeeps, RaiseProformaKeeps, ConvertKeeps, ConfirmKeeps,
     UpdateInvoiceKeeps, DeleteInvoiceKeeps, UndoInvoiceKeeps DEF Issuing
<1>3. CASE Collecting
  BY <1>3, RecordPaymentKeeps, RecordReceivedKeeps, ReversePaymentKeeps, TdsReceivedKeeps,
     DeleteTdsKeeps, RecordTdsKeeps DEF Collecting
<1>4. CASE Receiving
  BY <1>4, AllocateKeeps, CreateReceiptKeeps, UnmapInvoiceKeeps, UpdateReceiptKeeps,
     DeleteReceiptKeeps DEF Receiving
<1>5. CASE Crediting
  BY <1>5, CreateNoteKeeps, ApproveNoteKeeps, CancelNoteKeeps, SettleNoteKeeps DEF Crediting
<1>6. CASE Changing
  BY <1>6, RequestRevisionKeeps, ApproveRevisionKeeps, RejectRevisionKeeps DEF Changing
<1> QED BY <1>1, <1>2, <1>3, <1>4, <1>5, <1>6 DEF Request

(* So does every step, stutters included.                                   *)
LEMMA NextHolds == IInv /\ [Next]_vars => IInv'
<1> SUFFICES ASSUME IInv, [Next]_vars PROVE IInv' OBVIOUS
<1>1. CASE Request BY <1>1, RequestKeeps
<1>2. CASE \E t \in Txn : Commit(t) \/ RollBack(t) BY <1>2, CommitKeeps, RollBackKeeps
<1>3. CASE UNCHANGED vars
  BY <1>3 DEF vars, IInv, TypeOK, BalanceDue, NeverOverdrawn, OpenHolds
<1> QED BY <1>1, <1>2, <1>3 DEF Next

------------------------------------------------------------------------------
(* The tables hold rows of their types: no balance and no receipt goes      *)
(* below zero, even when sessions overwrite each other.                     *)
THEOREM Typed == Spec => []TypeOK
<1>1. IInv => TypeOK BY DEF IInv
<1> QED BY <1>1, InitHolds, NextHolds, PTL DEF Spec

(* The balance of an invoice is what is due on it, unless two sessions      *)
(* wrote across each other or a credit was taken off since.                 *)
THEOREM BalancesAreDue == Spec => []BalanceDue
<1>1. IInv => BalanceDue BY DEF IInv
<1> QED BY <1>1, InitHolds, NextHolds, PTL DEF Spec

(* No order is drawn beyond its value, unless two sessions drew at once.    *)
THEOREM OrdersCover == Spec => []NeverOverdrawn
<1>1. IInv => NeverOverdrawn BY DEF IInv
<1> QED BY <1>1, InitHolds, NextHolds, PTL DEF Spec
==============================================================================
