------------------------- MODULE ReceivablesSumProofs -------------------------
(***************************************************************************)
(* Proofs about the sums of Receivables: payments against received amounts *)
(* and invoices, and invoices against purchase orders, for any number of   *)
(* rows, sessions and overlaps.                                            *)
(***************************************************************************)
EXTENDS ReceivablesProofs, Sums

(* What an invoice may become.                                              *)
After(kind) == {"gone"} \cup
  (IF kind = "none" THEN {"none", "proforma", "tax"}
   ELSE IF kind = "proforma" THEN {"proforma", "tax"}
   ELSE IF kind = "tax" THEN {"tax"} ELSE {})

(* Rows hang together: what is paid or withheld is so on an invoice, an     *)
(* invoice is on an order that is there, only a tax invoice is revised.     *)
Tied(b) ==
  /\ \A k \in Payment : b.pay[k].st = "live" =>
       /\ Issued(b, b.pay[k].inv)
       /\ b.pay[k].rc # NoReceipt => b.rc[b.pay[k].rc].st = "live"
  /\ \A i \in Invoice :
       /\ b.tds[i].live => Issued(b, i)
       /\ Issued(b, i) /\ b.inv[i].po # NoPo => b.po[b.inv[i].po].status # "gone"

RevisesTax(b) ==
  \A v \in Revision : b.rev[v].status = "Pending" => b.inv[b.rev[v].inv].kind = "tax"

(* From w to n: invoices move on, amounts stay as they were entered.        *)
Follows(w, n) ==
  /\ \A i \in Invoice : n.inv[i].kind \in After(w.inv[i].kind)
  /\ \A k \in Payment : w.pay[k].st # "none" =>
       n.pay[k].st # "none" /\ n.pay[k].amount = w.pay[k].amount

(* The rows an open session will insert.                                    *)
NewInvoices(t) == {i \in Invoice : txn[t].was.inv[i].kind = "none" /\ txn[t].new.inv[i].kind # "none"}
NewPayments(t) == {k \in Payment : txn[t].was.pay[k].st = "none" /\ txn[t].new.pay[k].st # "none"}

(* What is so of an open session, whoever commits meanwhile.                *)
OpenFollows ==
  \A t \in Txn : txn[t].open =>
    /\ Follows(txn[t].was, books) /\ Follows(txn[t].was, txn[t].new)
    /\ RevisesTax(txn[t].new)
    /\ \A k \in Payment : txn[t].was.pay[k].st = "none" /\ txn[t].new.pay[k].st = "none" =>
         txn[t].new.pay[k] = txn[t].was.pay[k]
    /\ \A i \in NewInvoices(t) : books.inv[i].kind = "none"
    /\ \A k \in NewPayments(t) : books.pay[k].st = "none"
    /\ \A u \in Txn \ {t} : txn[u].open =>
         NewInvoices(t) \cap NewInvoices(u) = {} /\ NewPayments(t) \cap NewPayments(u) = {}

(* What an open session makes adds up, but for rows torn by now.            *)
OpenAddsUp ==
  \A t \in Txn : txn[t].open =>
    /\ \A p \in Po \ torn : OrderAddsUp(txn[t].new, p)
    /\ \A r \in Receipt \ (torn \cup undone \cup txn[t].undoes) : ReceiptAddsUp(txn[t].new, r)
    /\ \A i \in Invoice \ torn : InvoiceAddsUp(txn[t].new, i)

SumInv ==
  /\ Tied(books) /\ RevisesTax(books) /\ OpenFollows
  /\ PoAccounts /\ PaymentsAddUp /\ OpenAddsUp

------------------------------------------------------------------------------
(* Sums over rows as sums of functions.                                     *)

Subs(b) == [i \in Invoice |-> b.inv[i].sub]
Amounts(b) == [k \in Payment |-> b.pay[k].amount]

DrawnSum(b, T) == LET sub(i) == b.inv[i].sub IN MapThenSumSet(sub, T)
PaidSum(b, T) == LET amount(k) == b.pay[k].amount IN MapThenSumSet(amount, T)

(* There are finitely many invoices and payments.                           *)
LEMMA FiniteRows ==
  /\ IsFiniteSet(Invoice) /\ IsFiniteSet(Payment)
  /\ \A T \in SUBSET Invoice : IsFiniteSet(T)
  /\ \A T \in SUBSET Payment : IsFiniteSet(T)
<1>1. IsFiniteSet(Invoice) /\ IsFiniteSet(Payment)
  BY BooksAssumption DEF BooksAssumption
<1> QED BY <1>1, FS_Subset

(* The base values of the invoices of T add up.                             *)
LEMMA DrawnIsSum ==
  ASSUME NEW b, NEW T \in SUBSET Invoice PROVE DrawnSum(b, T) = SumOf(Subs(b), T)
<1> DEFINE f == Subs(b)
           RowPartial(g, s) == IF s = {} THEN 0
                               ELSE b.inv[FirstOf(s)].sub + g[s \ {FirstOf(s)}]
           RowSums(g) == g = [s \in SUBSET T |-> RowPartial(g, s)]
           chosen == CHOOSE g : RowSums(g)
<1>1. DrawnSum(b, T) = chosen[T]
  BY DEF DrawnSum, MapThenSumSet, MapThenFoldSet, FirstOf
<1>2. \A g, s : s \in SUBSET T => RowPartial(g, s) = PartialSum(f, g, s)
  <2> TAKE g, s
  <2> HAVE s \in SUBSET T
  <2>1. s # {} => f[FirstOf(s)] = b.inv[FirstOf(s)].sub
    BY FirstIsIn DEF Subs
  <2> HIDE DEF f
  <2> QED BY <2>1 DEF PartialSum
<1> HIDE DEF RowPartial, f
<1>3. \A g : RowSums(g) <=> AreSums(f, g, T)
  <2> TAKE g
  <2>1. [s \in SUBSET T |-> RowPartial(g, s)] = [s \in SUBSET T |-> PartialSum(f, g, s)]
    BY <1>2
  <2> QED BY <2>1 DEF AreSums
<1> HIDE DEF RowSums
<1>4. IsFiniteSet(T) /\ T \in SUBSET T BY FiniteRows
<1>5. AreSums(f, chosen, T) /\ AreSums(f, SumsOver(f, T), T)
  <2>1. \E g : AreSums(f, g, T) BY <1>4, SumsExist
  <2>2. \E g : RowSums(g) BY <1>3, <2>1
  <2>3. RowSums(chosen) BY <2>2
  <2> HIDE DEF chosen
  <2> QED BY <1>3, <2>1, <2>3 DEF SumsOver
<1> HIDE DEF chosen
<1>6. chosen[T] = SumsOver(f, T)[T] BY <1>4, <1>5, OneSum
<1> QED BY <1>1, <1>6, Unfold DEF f

(* The amounts of the payments of T add up.                                 *)
LEMMA PaidIsSum ==
  ASSUME NEW b, NEW T \in SUBSET Payment PROVE PaidSum(b, T) = SumOf(Amounts(b), T)
<1> DEFINE f == Amounts(b)
           RowPartial(g, s) == IF s = {} THEN 0
                               ELSE b.pay[FirstOf(s)].amount + g[s \ {FirstOf(s)}]
           RowSums(g) == g = [s \in SUBSET T |-> RowPartial(g, s)]
           chosen == CHOOSE g : RowSums(g)
<1>1. PaidSum(b, T) = chosen[T]
  BY DEF PaidSum, MapThenSumSet, MapThenFoldSet, FirstOf
<1>2. \A g, s : s \in SUBSET T => RowPartial(g, s) = PartialSum(f, g, s)
  <2> TAKE g, s
  <2> HAVE s \in SUBSET T
  <2>1. s # {} => f[FirstOf(s)] = b.pay[FirstOf(s)].amount
    BY FirstIsIn DEF Amounts
  <2> HIDE DEF f
  <2> QED BY <2>1 DEF PartialSum
<1> HIDE DEF RowPartial, f
<1>3. \A g : RowSums(g) <=> AreSums(f, g, T)
  <2> TAKE g
  <2>1. [s \in SUBSET T |-> RowPartial(g, s)] = [s \in SUBSET T |-> PartialSum(f, g, s)]
    BY <1>2
  <2> QED BY <2>1 DEF AreSums
<1> HIDE DEF RowSums
<1>4. IsFiniteSet(T) /\ T \in SUBSET T BY FiniteRows
<1>5. AreSums(f, chosen, T) /\ AreSums(f, SumsOver(f, T), T)
  <2>1. \E g : AreSums(f, g, T) BY <1>4, SumsExist
  <2>2. \E g : RowSums(g) BY <1>3, <2>1
  <2>3. RowSums(chosen) BY <2>2
  <2> HIDE DEF chosen
  <2> QED BY <1>3, <2>1, <2>3 DEF SumsOver
<1> HIDE DEF chosen
<1>6. chosen[T] = SumsOver(f, T)[T] BY <1>4, <1>5, OneSum
<1> QED BY <1>1, <1>6, Unfold DEF f

(* What it means for a row to add up.                                       *)
LEMMA OrderSum ==
  ASSUME NEW b, NEW p
  PROVE  OrderAddsUp(b, p) <=>
           (b.po[p].status # "gone" => b.po[p].consumed = SumOf(Subs(b), DrawnOn(b, p)))
<1>1. OrderAddsUp(b, p) <=>
        (b.po[p].status # "gone" => b.po[p].consumed = DrawnSum(b, DrawnOn(b, p)))
  BY DEF OrderAddsUp, DrawnSum, MapThenSumSet, MapThenFoldSet
<1>2. DrawnOn(b, p) \in SUBSET Invoice BY DEF DrawnOn
<1> QED BY <1>1, <1>2, DrawnIsSum

(* A receipt: what is left and what its payments come to.                   *)
LEMMA ReceiptSum ==
  ASSUME NEW b, NEW r
  PROVE  ReceiptAddsUp(b, r) <=>
           (b.rc[r].st = "live" =>
              b.rc[r].amount = b.rc[r].left + SumOf(Amounts(b), PaymentsOf(b, r)))
<1>1. ReceiptAddsUp(b, r) <=>
        (b.rc[r].st = "live" => b.rc[r].amount = b.rc[r].left + PaidSum(b, PaymentsOf(b, r)))
  BY DEF ReceiptAddsUp, PaidSum, MapThenSumSet, MapThenFoldSet
<1>2. PaymentsOf(b, r) \in SUBSET Payment BY DEF PaymentsOf
<1> QED BY <1>1, <1>2, PaidIsSum

(* An invoice: what the payments on it come to, and its TDS.                *)
LEMMA InvoiceSum ==
  ASSUME NEW b, NEW i
  PROVE  InvoiceAddsUp(b, i) <=>
           (Issued(b, i) =>
              /\ b.inv[i].paid = SumOf(Amounts(b), PaymentsOn(b, i))
              /\ b.inv[i].tds = IF b.tds[i].live THEN b.tds[i].amount ELSE 0)
<1>1. InvoiceAddsUp(b, i) <=>
        (Issued(b, i) => /\ b.inv[i].paid = PaidSum(b, PaymentsOn(b, i))
                         /\ b.inv[i].tds = IF b.tds[i].live THEN b.tds[i].amount ELSE 0)
  BY DEF InvoiceAddsUp, PaidSum, MapThenSumSet, MapThenFoldSet
<1>2. PaymentsOn(b, i) \in SUBSET Payment BY DEF PaymentsOn
<1> QED BY <1>1, <1>2, PaidIsSum

------------------------------------------------------------------------------
(* The same sums over all rows: a row that does not count adds nothing.     *)

Draws(b, p) ==
  [i \in Invoice |-> IF b.inv[i].kind = "tax" /\ b.inv[i].po = p THEN b.inv[i].sub ELSE 0]
PaysOn(b, i) ==
  [k \in Payment |-> IF b.pay[k].st = "live" /\ b.pay[k].inv = i THEN b.pay[k].amount ELSE 0]
PaysOf(b, r) ==
  [k \in Payment |-> IF b.pay[k].st = "live" /\ b.pay[k].rc = r THEN b.pay[k].amount ELSE 0]

(* Base values and amounts are whole numbers.                               *)
LEMMA WholeNumbers ==
  ASSUME NEW b \in Books
  PROVE  /\ Subs(b) \in [Invoice -> Int] /\ Amounts(b) \in [Payment -> Int]
         /\ \A p : Draws(b, p) \in [Invoice -> Int]
         /\ \A i : PaysOn(b, i) \in [Payment -> Int]
         /\ \A r : PaysOf(b, r) \in [Payment -> Int]
<1>1. \A i \in Invoice : b.inv[i].sub \in Int
  <2>1. \A i \in Invoice : b.inv[i] \in InvoiceRow BY DEF Books
  <2>2. \A i \in Invoice : b.inv[i].sub \in Base BY <2>1 DEF InvoiceRow
  <2>3. Base \subseteq Int BY BooksAssumption DEF BooksAssumption
  <2> QED BY <2>2, <2>3
<1>2. \A k \in Payment : b.pay[k].amount \in Int
  <2>1. \A k \in Payment : b.pay[k] \in PaymentRow BY DEF Books
  <2> QED BY <2>1 DEF PaymentRow
<1> QED BY <1>1, <1>2 DEF Subs, Amounts, Draws, PaysOn, PaysOf

(* An order that is there has given out what the tax invoices on it draw.   *)
LEMMA OrderAdds ==
  ASSUME NEW b \in Books, NEW p
  PROVE  OrderAddsUp(b, p) <=>
           (b.po[p].status # "gone" => b.po[p].consumed = SumOf(Draws(b, p), Invoice))
<1> DEFINE f == Subs(b)  g == Draws(b, p)  U == DrawnOn(b, p)
<1>1. f \in [Invoice -> Int] /\ g \in [Invoice -> Int] BY WholeNumbers
<1>2. U \in SUBSET Invoice BY DEF DrawnOn
<1>3. (\A x \in U : g[x] = f[x]) /\ (\A x \in Invoice \ U : g[x] = 0)
  BY DEF Draws, Subs, DrawnOn
<1>4. OrderAddsUp(b, p) <=> (b.po[p].status # "gone" => b.po[p].consumed = SumOf(f, U))
  BY OrderSum
<1> HIDE DEF f, g, U
<1>5. SumOf(f, U) = SumOf(g, Invoice) BY <1>1, <1>2, <1>3, FiniteRows, SumOfPart
<1>6. OrderAddsUp(b, p) <=>
        (b.po[p].status # "gone" => b.po[p].consumed = SumOf(g, Invoice))
  BY <1>4, <1>5
<1> QED BY <1>6 DEF g

(* A received amount is what is left of it and its payments.                *)
LEMMA ReceiptAdds ==
  ASSUME NEW b \in Books, NEW r
  PROVE  ReceiptAddsUp(b, r) <=>
           (b.rc[r].st = "live" =>
              b.rc[r].amount = b.rc[r].left + SumOf(PaysOf(b, r), Payment))
<1> DEFINE f == Amounts(b)  g == PaysOf(b, r)  U == PaymentsOf(b, r)
<1>1. f \in [Payment -> Int] /\ g \in [Payment -> Int] BY WholeNumbers
<1>2. U \in SUBSET Payment BY DEF PaymentsOf
<1>3. (\A x \in U : g[x] = f[x]) /\ (\A x \in Payment \ U : g[x] = 0)
  BY DEF PaysOf, Amounts, PaymentsOf
<1>4. ReceiptAddsUp(b, r) <=>
        (b.rc[r].st = "live" => b.rc[r].amount = b.rc[r].left + SumOf(f, U))
  BY ReceiptSum
<1> HIDE DEF f, g, U
<1>5. SumOf(f, U) = SumOf(g, Payment) BY <1>1, <1>2, <1>3, FiniteRows, SumOfPart
<1>6. ReceiptAddsUp(b, r) <=>
        (b.rc[r].st = "live" => b.rc[r].amount = b.rc[r].left + SumOf(g, Payment))
  BY <1>4, <1>5
<1> QED BY <1>6 DEF g

(* An invoice counts the payments on it.                                    *)
LEMMA InvoiceAdds ==
  ASSUME NEW b \in Books, NEW i
  PROVE  InvoiceAddsUp(b, i) <=>
           (Issued(b, i) =>
              /\ b.inv[i].paid = SumOf(PaysOn(b, i), Payment)
              /\ b.inv[i].tds = IF b.tds[i].live THEN b.tds[i].amount ELSE 0)
<1> DEFINE f == Amounts(b)  g == PaysOn(b, i)  U == PaymentsOn(b, i)
           tds == b.inv[i].tds = IF b.tds[i].live THEN b.tds[i].amount ELSE 0
<1>1. f \in [Payment -> Int] /\ g \in [Payment -> Int] BY WholeNumbers
<1>2. U \in SUBSET Payment BY DEF PaymentsOn
<1>3. (\A x \in U : g[x] = f[x]) /\ (\A x \in Payment \ U : g[x] = 0)
  BY DEF PaysOn, Amounts, PaymentsOn
<1>4. InvoiceAddsUp(b, i) <=> (Issued(b, i) => b.inv[i].paid = SumOf(f, U) /\ tds)
  BY InvoiceSum
<1> HIDE DEF f, g, U, tds
<1>5. SumOf(f, U) = SumOf(g, Payment) BY <1>1, <1>2, <1>3, FiniteRows, SumOfPart
<1>6. InvoiceAddsUp(b, i) <=> (Issued(b, i) => b.inv[i].paid = SumOf(g, Payment) /\ tds)
  BY <1>4, <1>5
<1> QED BY <1>6 DEF g, tds

------------------------------------------------------------------------------
(* Sessions.                                                                *)

(* An id that is drawn is in no committed row and in no open session.       *)
LEMMA FreshIds ==
  /\ \A i \in Invoice : FreshInvoice(i) =>
       /\ books.inv[i].kind = "none"
       /\ \A t \in Txn : txn[t].open => txn[t].new.inv[i].kind = "none"
  /\ \A k \in Payment : FreshPayment(k) =>
       /\ books.pay[k].st = "none"
       /\ \A t \in Txn : txn[t].open => txn[t].new.pay[k].st = "none"
BY DEF FreshInvoice, FreshPayment, Unused

(* Books a request asks for follow on those it read, and draw fresh ids.    *)
Grown(c) ==
  /\ Tied(c) /\ RevisesTax(c) /\ Follows(books, c)
  /\ \A i \in Invoice :
       books.inv[i].kind = "none" => c.inv[i].kind = "none" \/ FreshInvoice(i)
  /\ \A k \in Payment : books.pay[k].st = "none" =>
       c.pay[k] = books.pay[k] \/ (c.pay[k].st # "none" /\ FreshPayment(k))

(* They add up where those did, but for receipts that an undoing passes by. *)
AddsUp(c, undoes) ==
  /\ \A p \in Po : OrderAddsUp(books, p) => OrderAddsUp(c, p)
  /\ \A r \in Receipt \ undoes : ReceiptAddsUp(books, r) => ReceiptAddsUp(c, r)
  /\ \A i \in Invoice : InvoiceAddsUp(books, i) => InvoiceAddsUp(c, i)

(* To follow is transitive.                                                 *)
LEMMA FollowsOn ==
  ASSUME NEW a, NEW b, NEW c, Follows(a, b), Follows(b, c) PROVE Follows(a, c)
<1>1. \A k, l, m : l \in After(k) /\ m \in After(l) => m \in After(k) BY DEF After
<1> QED BY <1>1 DEF Follows

(* What a request makes of the rows that are not torn adds up.              *)
LEMMA RowsAdd ==
  ASSUME SumInv, NEW c, NEW undoes, AddsUp(c, undoes)
  PROVE  /\ \A p \in Po \ torn : OrderAddsUp(c, p)
         /\ \A r \in Receipt \ (torn \cup undone \cup undoes) : ReceiptAddsUp(c, r)
         /\ \A i \in Invoice \ torn : InvoiceAddsUp(c, i)
BY DEF SumInv, PoAccounts, PaymentsAddUp, AddsUp

(* Books that add up may be written at once.                                *)
LEMMA NowAdds ==
  ASSUME TypeOK, SumInv, NEW c, NEW undoes \in SUBSET Receipt,
         Grown(c), AddsUp(c, undoes),
         books' = c, undone' = undone \cup undoes, UNCHANGED <<txn, torn>>
  PROVE  SumInv'
<1>1. Tied(books)' /\ RevisesTax(books)' BY DEF Grown
<1>2. PoAccounts' /\ PaymentsAddUp' BY RowsAdd DEF PoAccounts, PaymentsAddUp
<1>3. OpenAddsUp' BY DEF SumInv, OpenAddsUp
<1>4. ASSUME NEW t \in Txn, txn[t].open
      PROVE  /\ Follows(txn[t].was, c)
             /\ \A i \in NewInvoices(t) : c.inv[i].kind = "none"
             /\ \A k \in NewPayments(t) : c.pay[k].st = "none"
  <2>1. Follows(txn[t].was, books) /\ Follows(books, c)
    BY <1>4 DEF SumInv, OpenFollows, Grown
  <2>2. \A i \in NewInvoices(t) : books.inv[i].kind = "none"
    BY <1>4 DEF SumInv, OpenFollows
  <2>3. \A k \in NewPayments(t) : books.pay[k].st = "none"
    BY <1>4 DEF SumInv, OpenFollows
  <2> QED BY <1>4, <2>1, <2>2, <2>3, FollowsOn, FreshIds DEF Grown, NewInvoices, NewPayments
<1>5. OpenFollows' BY <1>4 DEF SumInv, OpenFollows, NewInvoices, NewPayments
<1> QED BY <1>1, <1>2, <1>3, <1>5 DEF SumInv

(* A request for books that add up keeps the sums, at once or in a session. *)
LEMMA AskAdds ==
  ASSUME TypeOK, SumInv, NEW c, NEW undoes \in SUBSET Receipt,
         Grown(c), AddsUp(c, undoes), Ask(c, undoes)
  PROVE  SumInv'
<1>1. /\ \A p \in Po \ torn : OrderAddsUp(c, p)
      /\ \A r \in Receipt \ (torn \cup undone \cup undoes) : ReceiptAddsUp(c, r)
      /\ \A i \in Invoice \ torn : InvoiceAddsUp(c, i)
  BY RowsAdd
<1>2. CASE books' = c /\ undone' = undone \cup undoes /\ UNCHANGED <<txn, torn>>
  BY <1>2, NowAdds
<1>3. ASSUME NEW t \in Txn, ~txn[t].open,
             txn' = [txn EXCEPT ![t] = [open |-> TRUE, was |-> books, new |-> c,
                                        undoes |-> undoes]],
             UNCHANGED <<books, torn, undone>>
      PROVE  SumInv'
  <2>1. /\ txn'[t].open /\ txn'[t].was = books /\ txn'[t].new = c /\ txn'[t].undoes = undoes
        /\ \A u \in Txn \ {t} : txn'[u] = txn[u]
    BY <1>3 DEF TypeOK
  <2>2. Tied(books)' /\ RevisesTax(books)' BY <1>3 DEF SumInv, Tied, RevisesTax, Issued
  <2>3. PoAccounts' /\ PaymentsAddUp'
    BY <1>3 DEF SumInv, PoAccounts, PaymentsAddUp
  <2>4. OpenAddsUp' BY <1>1, <1>3, <2>1 DEF SumInv, OpenAddsUp
  <2>5. /\ \A u \in Txn \ {t} :
             NewInvoices(u)' = NewInvoices(u) /\ NewPayments(u)' = NewPayments(u)
        /\ NewInvoices(t)' = {i \in Invoice : books.inv[i].kind = "none" /\ c.inv[i].kind # "none"}
        /\ NewPayments(t)' = {k \in Payment : books.pay[k].st = "none" /\ c.pay[k].st # "none"}
    BY <2>1 DEF NewInvoices, NewPayments
  <2>6. /\ \A i \in NewInvoices(t)' : FreshInvoice(i) /\ i \in Invoice
        /\ \A k \in NewPayments(t)' : FreshPayment(k) /\ k \in Payment
    BY <2>5 DEF Grown
  <2>7. ASSUME NEW u \in Txn \ {t}, txn[u].open
        PROVE  /\ NewInvoices(t)' \cap NewInvoices(u) = {}
               /\ NewPayments(t)' \cap NewPayments(u) = {}
    BY <2>6, <2>7, FreshIds DEF NewInvoices, NewPayments
  <2>8. Follows(books, books) /\ Follows(books, c) /\ RevisesTax(c)
    <3>1. \A i \in Invoice : books.inv[i].kind \in {"none", "proforma", "tax", "gone"}
      BY DEF TypeOK, Books, InvoiceRow
    <3> QED BY <3>1 DEF Grown, Follows, After
  <2>9. \A k \in Payment : books.pay[k].st = "none" /\ c.pay[k].st = "none" =>
          c.pay[k] = books.pay[k]
    BY DEF Grown
  <2>10. OpenFollows'
    <3> SUFFICES ASSUME NEW u \in Txn, txn'[u].open
        PROVE  (/\ Follows(txn[u].was, books) /\ Follows(txn[u].was, txn[u].new)
                /\ RevisesTax(txn[u].new)
                /\ \A k \in Payment :
                     txn[u].was.pay[k].st = "none" /\ txn[u].new.pay[k].st = "none" =>
                       txn[u].new.pay[k] = txn[u].was.pay[k]
                /\ \A i \in NewInvoices(u) : books.inv[i].kind = "none"
                /\ \A k \in NewPayments(u) : books.pay[k].st = "none"
                /\ \A v \in Txn \ {u} : txn[v].open =>
                     /\ NewInvoices(u) \cap NewInvoices(v) = {}
                     /\ NewPayments(u) \cap NewPayments(v) = {})'
      BY DEF OpenFollows
    <3>1. CASE u = t
      <4>1. /\ \A i \in NewInvoices(t)' : books.inv[i].kind = "none"
            /\ \A k \in NewPayments(t)' : books.pay[k].st = "none"
        BY <2>5
      <4> QED BY <1>3, <2>1, <2>5, <2>7, <2>8, <2>9, <3>1, <4>1
    <3>2. CASE u # t
      <4>1. txn[u].open /\ txn'[u] = txn[u] BY <2>1, <3>2
      <4>2. /\ Follows(txn[u].was, books) /\ Follows(txn[u].was, txn[u].new)
            /\ RevisesTax(txn[u].new)
            /\ \A k \in Payment :
                 txn[u].was.pay[k].st = "none" /\ txn[u].new.pay[k].st = "none" =>
                   txn[u].new.pay[k] = txn[u].was.pay[k]
            /\ \A i \in NewInvoices(u) : books.inv[i].kind = "none"
            /\ \A k \in NewPayments(u) : books.pay[k].st = "none"
        BY <4>1 DEF SumInv, OpenFollows
      <4>3. \A v \in Txn \ {u} : txn'[v].open =>
               /\ NewInvoices(u) \cap NewInvoices(v)' = {}
               /\ NewPayments(u) \cap NewPayments(v)' = {}
        <5>1. \A v \in Txn \ {u, t} : txn[v].open =>
                /\ NewInvoices(u) \cap NewInvoices(v) = {}
                /\ NewPayments(u) \cap NewPayments(v) = {}
          BY <4>1 DEF SumInv, OpenFollows
        <5> QED BY <5>1, <4>1, <2>1, <2>5, <2>7, <3>2
      <4> QED BY <1>3, <2>5, <3>2, <4>1, <4>2, <4>3
    <3> QED BY <3>1, <3>2
  <2> QED BY <2>2, <2>3, <2>4, <2>10 DEF SumInv
<1> QED BY <1>2, <1>3 DEF Ask

(* What a session with w read and n made commits, when it was alone to      *)
(* insert its rows.                                                         *)
Mergeable(w, n) ==
  /\ w \in Books /\ n \in Books /\ Follows(w, books) /\ Follows(w, n)
  /\ \A i \in Invoice : w.inv[i].kind = "none" /\ n.inv[i].kind # "none" =>
       books.inv[i].kind = "none"
  /\ \A k \in Payment : w.pay[k].st = "none" /\ n.pay[k].st # "none" => books.pay[k].st = "none"
  /\ \A k \in Payment : w.pay[k].st = "none" /\ n.pay[k].st = "none" => n.pay[k] = w.pay[k]

(* Columns of what is committed.                                            *)
LEMMA MergedColumns ==
  ASSUME NEW w, NEW n
  PROVE  /\ \A i \in Invoice :
              Merged(w, n).inv[i].kind =
                IF n.inv[i].kind # w.inv[i].kind THEN n.inv[i].kind ELSE books.inv[i].kind
         /\ \A k \in Payment :
              Merged(w, n).pay[k] =
                Kept(IF n.pay[k] # w.pay[k] THEN n.pay[k] ELSE books.pay[k], w, n)
         /\ \A v \in Revision :
              Merged(w, n).rev[v] =
                Ended(IF n.rev[v] # w.rev[v] THEN n.rev[v] ELSE books.rev[v], w, n)
<1>1. \A i \in Invoice : MergedInvoice(w.inv[i], n.inv[i], books.inv[i]).kind =
        IF n.inv[i].kind # w.inv[i].kind THEN n.inv[i].kind ELSE books.inv[i].kind
  BY DEF MergedInvoice, Written
<1> QED BY <1>1 DEF Merged, Written

(* Losing its receipt changes neither state nor amount of a payment.        *)
LEMMA KeptColumns ==
  ASSUME NEW row \in PaymentRow, NEW w, NEW n
  PROVE  /\ Kept(row, w, n).st = row.st /\ Kept(row, w, n).amount = row.amount
         /\ Kept(row, w, n).inv = row.inv
BY DEF Kept, PaymentRow

(* A commit moves every invoice and payment on.                             *)
LEMMA MergedFollows ==
  ASSUME books \in Books, NEW w, NEW n, Mergeable(w, n), Present(w, n)
  PROVE  Follows(books, Merged(w, n))
<1> DEFINE m == Merged(w, n)
<1>1. ASSUME NEW i \in Invoice PROVE m.inv[i].kind \in After(books.inv[i].kind)
  <2>1. m.inv[i].kind =
          IF n.inv[i].kind # w.inv[i].kind THEN n.inv[i].kind ELSE books.inv[i].kind
    BY MergedColumns
  <2>2. /\ n.inv[i].kind \in After(w.inv[i].kind)
        /\ books.inv[i].kind \in After(w.inv[i].kind)
        /\ w.inv[i].kind = "none" /\ n.inv[i].kind # "none" => books.inv[i].kind = "none"
    BY DEF Mergeable, Follows
  <2>3. books.inv[i].kind \in {"none", "proforma", "tax", "gone"} BY DEF Books, InvoiceRow
  <2>4. n.inv[i].kind # w.inv[i].kind /\ Issued(w, i) /\ Issued(n, i) => Issued(books, i)
    BY DEF Present
  <2> HIDE DEF m
  <2> QED BY <2>1, <2>2, <2>3, <2>4 DEF After, Issued
<1>2. ASSUME NEW k \in Payment, books.pay[k].st # "none"
      PROVE  m.pay[k].st # "none" /\ m.pay[k].amount = books.pay[k].amount
  <2> DEFINE row == IF n.pay[k] # w.pay[k] THEN n.pay[k] ELSE books.pay[k]
  <2>1. m.pay[k] = Kept(row, w, n) BY MergedColumns
  <2>2. row \in PaymentRow BY DEF Mergeable, Books
  <2>3. row.st # "none" /\ row.amount = books.pay[k].amount
    BY <1>2 DEF Mergeable, Follows
  <2> HIDE DEF m, row
  <2> QED BY <2>1, <2>2, <2>3, KeptColumns
<1> QED BY <1>1, <1>2 DEF Follows

(* A payment that is live on both sides of a commit has one amount.         *)
LEMMA MergedAmounts ==
  ASSUME books \in Books, NEW w, NEW n, Mergeable(w, n), NEW k \in Payment,
         Merged(w, n).pay[k].st = "live"
  PROVE  /\ books.pay[k].st = "live" => Merged(w, n).pay[k].amount = books.pay[k].amount
         /\ n.pay[k].st = "live" => Merged(w, n).pay[k].amount = n.pay[k].amount
<1> DEFINE row == IF n.pay[k] # w.pay[k] THEN n.pay[k] ELSE books.pay[k]
<1>1. Merged(w, n).pay[k] = Kept(row, w, n) BY MergedColumns
<1>2. row \in PaymentRow BY DEF Mergeable, Books
<1>3. Merged(w, n).pay[k].st = row.st /\ Merged(w, n).pay[k].amount = row.amount
  BY <1>1, <1>2, KeptColumns
<1>4. row.st = "live" BY <1>3
<1>5. /\ books.pay[k].st = "live" => row.amount = books.pay[k].amount
      /\ n.pay[k].st = "live" => row.amount = n.pay[k].amount
  BY <1>4 DEF Mergeable, Follows
<1> QED BY <1>3, <1>5

(* A change request that is pending after a commit is on a tax invoice.     *)
LEMMA MergedRevises ==
  ASSUME books \in Books, NEW w, NEW n, Mergeable(w, n), Present(w, n), Referred(Merged(w, n)),
         RevisesTax(books), RevisesTax(n)
  PROVE  RevisesTax(Merged(w, n))
<1> DEFINE m == Merged(w, n)
<1> SUFFICES ASSUME NEW v \in Revision, m.rev[v].status = "Pending"
             PROVE  m.inv[m.rev[v].inv].kind = "tax"
  BY DEF RevisesTax
<1> DEFINE row == IF n.rev[v] # w.rev[v] THEN n.rev[v] ELSE books.rev[v]
           i == m.rev[v].inv
<1>1. m.rev[v] = Ended(row, w, n) BY MergedColumns
<1>2. row \in RevisionRow BY DEF Mergeable, Books
<1>3. m.rev[v] = row
  <2>1. [row EXCEPT !.status = "Decided"].status = "Decided" BY <1>2 DEF RevisionRow
  <2> QED BY <1>1, <2>1 DEF Ended
<1>4. i \in Invoice BY <1>2, <1>3 DEF RevisionRow
<1>5. m.inv[i].kind \in {"proforma", "tax"}
  BY DEF Referred, Issued
<1>6. n.inv[i].kind = "tax" \/ books.inv[i].kind = "tax"
  BY <1>3 DEF RevisesTax
<1>7. m.inv[i].kind =
        IF n.inv[i].kind # w.inv[i].kind THEN n.inv[i].kind ELSE books.inv[i].kind
  BY <1>4, MergedColumns
<1>8. /\ n.inv[i].kind \in After(w.inv[i].kind)
      /\ books.inv[i].kind \in After(w.inv[i].kind)
      /\ w.inv[i].kind = "none" /\ n.inv[i].kind # "none" => books.inv[i].kind = "none"
  BY <1>4 DEF Mergeable, Follows
<1> HIDE DEF m, row, i
<1>9. m.inv[i].kind = "tax" BY <1>5, <1>6, <1>7, <1>8 DEF After
<1> QED BY <1>9 DEF i, m

(* What is committed hangs together: the foreign keys.                      *)
LEMMA ReferredTied == ASSUME NEW b, Referred(b) PROVE Tied(b)
BY DEF Referred, Tied

(* An order with the same view adds up the same.                            *)
LEMMA SameOrder ==
  ASSUME NEW a \in Books, NEW b \in Books, NEW p \in Po, PoView(a, p) = PoView(b, p),
         OrderAddsUp(a, p)
  PROVE  OrderAddsUp(b, p)
<1> DEFINE f == [i \in DrawnOn(a, p) |-> a.inv[i].sub]
           g == [i \in DrawnOn(b, p) |-> b.inv[i].sub]
<1>1. a.po[p] = b.po[p] /\ f = g BY DEF PoView
<1>2. DrawnOn(a, p) = DrawnOn(b, p)
  <2>1. DOMAIN f = DrawnOn(a, p) /\ DOMAIN g = DrawnOn(b, p) OBVIOUS
  <2> HIDE DEF f, g
  <2> QED BY <1>1, <2>1
<1>3. \A i \in DrawnOn(a, p) : a.inv[i].sub = b.inv[i].sub
  <2>1. \A i \in DrawnOn(a, p) : f[i] = a.inv[i].sub OBVIOUS
  <2>2. \A i \in DrawnOn(b, p) : g[i] = b.inv[i].sub OBVIOUS
  <2> HIDE DEF f, g
  <2> QED BY <1>1, <1>2, <2>1, <2>2
<1> HIDE DEF f, g
<1>4. Draws(a, p) = Draws(b, p) BY <1>2, <1>3 DEF Draws, DrawnOn
<1> QED BY <1>1, <1>4, OrderAdds

(* Likewise a receipt ...                                                   *)
LEMMA SameReceipt ==
  ASSUME NEW a \in Books, NEW b \in Books, NEW r \in Receipt, ReceiptView(a, r) = ReceiptView(b, r),
         \A k \in Payment : a.pay[k].st = "live" /\ b.pay[k].st = "live" =>
           a.pay[k].amount = b.pay[k].amount,
         ReceiptAddsUp(a, r)
  PROVE  ReceiptAddsUp(b, r)
<1>1. a.rc[r] = b.rc[r] /\ PaymentsOf(a, r) = PaymentsOf(b, r) BY DEF ReceiptView
<1>2. PaysOf(a, r) = PaysOf(b, r) BY <1>1 DEF PaysOf, PaymentsOf
<1> QED BY <1>1, <1>2, ReceiptAdds

(* ... and an invoice.                                                      *)
LEMMA SameInvoice ==
  ASSUME NEW a \in Books, NEW b \in Books, NEW i \in Invoice, InvoiceView(a, i) = InvoiceView(b, i),
         \A k \in Payment : a.pay[k].st = "live" /\ b.pay[k].st = "live" =>
           a.pay[k].amount = b.pay[k].amount,
         InvoiceAddsUp(a, i)
  PROVE  InvoiceAddsUp(b, i)
<1>1. /\ a.inv[i] = b.inv[i] /\ a.tds[i] = b.tds[i]
      /\ PaymentsOn(a, i) = PaymentsOn(b, i)
  BY DEF InvoiceView
<1>2. PaysOn(a, i) = PaysOn(b, i) BY <1>1 DEF PaysOn, PaymentsOn
<1> QED BY <1>1, <1>2, InvoiceAdds DEF Issued

(* A row that a commit leaves clean adds up as it did, or as the session    *)
(* made it.                                                                 *)
LEMMA CommitAdds == ASSUME TypeOK, SumInv, NEW t \in Txn, Commit(t) PROVE SumInv'
<1> DEFINE w == txn[t].was
           n == txn[t].new
           m == Merged(w, n)
<1>1. /\ books' = m /\ torn' = torn \cup Torn(w, n, m) /\ undone' = undone \cup txn[t].undoes
      /\ txn' = [txn EXCEPT ![t] = Closed] /\ txn[t].open /\ Present(w, n) /\ Referred(m)
  BY DEF Commit
<1>2. books \in Books /\ w \in Books /\ n \in Books
  <2>1. txn[t] \in Session /\ books \in Books BY DEF TypeOK
  <2> QED BY <2>1 DEF Session
<1>3. m \in Books BY <1>2, MergedTypes
<1>4. Mergeable(w, n) /\ RevisesTax(n)
  BY <1>1, <1>2 DEF SumInv, OpenFollows, Mergeable, NewInvoices, NewPayments
<1>5. Tied(m) /\ RevisesTax(m) /\ Follows(books, m)
  BY <1>1, <1>2, <1>4, MergedFollows, MergedRevises, ReferredTied DEF SumInv
<1>6. \A k \in Payment : m.pay[k].st = "live" =>
        /\ books.pay[k].st = "live" => m.pay[k].amount = books.pay[k].amount
        /\ n.pay[k].st = "live" => m.pay[k].amount = n.pay[k].amount
  BY <1>2, <1>4, MergedAmounts
<1>7. /\ \A p \in Po \ torn : OrderAddsUp(books, p) /\ OrderAddsUp(n, p)
      /\ \A r \in Receipt \ (torn \cup undone) : ReceiptAddsUp(books, r)
      /\ \A r \in Receipt \ (torn \cup undone \cup txn[t].undoes) : ReceiptAddsUp(n, r)
      /\ \A i \in Invoice \ torn : InvoiceAddsUp(books, i) /\ InvoiceAddsUp(n, i)
  BY <1>1 DEF SumInv, PoAccounts, PaymentsAddUp, OpenAddsUp
<1>8. \A u \in Txn : txn'[u].open => u # t /\ txn[u].open /\ txn'[u] = txn[u]
  BY <1>1 DEF TypeOK, Closed
<1> HIDE DEF w, n, m
<1>9. ASSUME NEW p \in Po \ torn' PROVE OrderAddsUp(m, p)
  <2>1. Clean(PoView(w, p), PoView(n, p), PoView(books, p), PoView(m, p))
    BY <1>1, <1>9 DEF Torn
  <2>2. p \in Po \ torn BY <1>1
  <2> QED BY <1>2, <1>3, <1>7, <2>1, <2>2, SameOrder DEF Clean
<1>10. ASSUME NEW r \in Receipt \ (torn' \cup undone') PROVE ReceiptAddsUp(m, r)
  <2>1. Clean(ReceiptView(w, r), ReceiptView(n, r), ReceiptView(books, r), ReceiptView(m, r))
    BY <1>1, <1>10 DEF Torn
  <2>2. ReceiptAddsUp(books, r) /\ ReceiptAddsUp(n, r) BY <1>1, <1>7
  <2>3. CASE ReceiptView(m, r) = ReceiptView(books, r)
    BY <1>2, <1>3, <1>6, <2>2, <2>3, SameReceipt
  <2>4. CASE ReceiptView(m, r) = ReceiptView(n, r)
    BY <1>2, <1>3, <1>6, <2>2, <2>4, SameReceipt
  <2> QED BY <2>1, <2>3, <2>4 DEF Clean
<1>11. ASSUME NEW i \in Invoice \ torn' PROVE InvoiceAddsUp(m, i)
  <2>1. Clean(InvoiceView(w, i), InvoiceView(n, i), InvoiceView(books, i), InvoiceView(m, i))
    BY <1>1, <1>11 DEF Torn
  <2>2. InvoiceAddsUp(books, i) /\ InvoiceAddsUp(n, i) BY <1>1, <1>7
  <2>3. CASE InvoiceView(m, i) = InvoiceView(books, i)
    BY <1>2, <1>3, <1>6, <2>2, <2>3, SameInvoice
  <2>4. CASE InvoiceView(m, i) = InvoiceView(n, i)
    BY <1>2, <1>3, <1>6, <2>2, <2>4, SameInvoice
  <2> QED BY <2>1, <2>3, <2>4 DEF Clean
<1>12. PoAccounts' /\ PaymentsAddUp' BY <1>1, <1>9, <1>10, <1>11 DEF PoAccounts, PaymentsAddUp
<1>13. OpenAddsUp' BY <1>1, <1>8 DEF SumInv, OpenAddsUp
<1>14. ASSUME NEW u \in Txn, u # t, txn[u].open
       PROVE  /\ Follows(txn[u].was, m)
              /\ \A i \in NewInvoices(u) : m.inv[i].kind = "none"
              /\ \A k \in NewPayments(u) : m.pay[k].st = "none"
  <2>1. Follows(txn[u].was, books) BY <1>14 DEF SumInv, OpenFollows
  <2>2. ASSUME NEW i \in NewInvoices(u) PROVE m.inv[i].kind = "none"
    <3>1. i \in Invoice /\ books.inv[i].kind = "none" /\ i \notin NewInvoices(t)
      BY <1>1, <1>14 DEF SumInv, OpenFollows, NewInvoices
    <3>2. w.inv[i].kind = "none"
      <4>1. books.inv[i].kind \in After(w.inv[i].kind) BY <1>4, <3>1 DEF Mergeable, Follows
      <4> QED BY <3>1, <4>1 DEF After
    <3>3. n.inv[i].kind = "none" BY <3>1, <3>2 DEF NewInvoices, w, n
    <3> QED BY <3>1, <3>2, <3>3, MergedColumns DEF m
  <2>3. ASSUME NEW k \in NewPayments(u) PROVE m.pay[k].st = "none"
    <3>1. k \in Payment /\ books.pay[k].st = "none" /\ k \notin NewPayments(t)
      BY <1>1, <1>14 DEF SumInv, OpenFollows, NewPayments
    <3>2. w.pay[k].st = "none" BY <1>4, <3>1 DEF Mergeable, Follows
    <3>3. n.pay[k] = w.pay[k]
      <4>1. n.pay[k].st = "none" BY <3>1, <3>2 DEF NewPayments, w, n
      <4> QED BY <1>4, <3>1, <3>2, <4>1 DEF Mergeable
    <3>4. m.pay[k] = Kept(books.pay[k], w, n) BY <3>1, <3>3, MergedColumns DEF m
    <3>5. books.pay[k] \in PaymentRow BY <1>2, <3>1 DEF Books
    <3> QED BY <3>1, <3>4, <3>5, KeptColumns
  <2> QED BY <1>5, <2>1, <2>2, <2>3, FollowsOn
<1>15. OpenFollows'
  BY <1>1, <1>8, <1>14 DEF SumInv, OpenFollows, NewInvoices, NewPayments
<1>16. Tied(books)' /\ RevisesTax(books)' BY <1>1, <1>5
<1> QED BY <1>12, <1>13, <1>15, <1>16 DEF SumInv

(* A session that is rolled back leaves no trace.                           *)
LEMMA RollBackAdds == ASSUME TypeOK, SumInv, NEW t \in Txn, RollBack(t) PROVE SumInv'
<1>1. /\ txn' = [txn EXCEPT ![t] = Closed]
      /\ UNCHANGED <<books, torn, undone>>
  BY DEF RollBack
<1>2. \A u \in Txn : txn'[u].open => txn[u].open /\ txn'[u] = txn[u]
  BY <1>1 DEF TypeOK, Closed
<1>3. PoAccounts' /\ PaymentsAddUp' /\ OpenAddsUp'
  BY <1>1, <1>2 DEF SumInv, PoAccounts, PaymentsAddUp, OpenAddsUp
<1>4. OpenFollows' BY <1>1, <1>2 DEF SumInv, OpenFollows, NewInvoices, NewPayments
<1>5. Tied(books)' /\ RevisesTax(books)' BY <1>1 DEF SumInv
<1> QED BY <1>3, <1>4, <1>5 DEF SumInv

------------------------------------------------------------------------------
(* What a request must leave for a sum to stand.                            *)

(* The books of a request are well typed, as the next state is.             *)
LEMMA AskBooks ==
  ASSUME TypeOK, TypeOK', NEW c, NEW undoes, Ask(c, undoes) PROVE books \in Books /\ c \in Books
<1>1. books \in Books /\ books' \in Books /\ txn' \in [Txn -> Session] BY DEF TypeOK
<1>2. CASE books' = c BY <1>1, <1>2
<1>3. ASSUME NEW t \in Txn,
             txn' = [txn EXCEPT ![t] = [open |-> TRUE, was |-> books, new |-> c,
                                        undoes |-> undoes]]
      PROVE  c \in Books
  <2>1. txn'[t] \in Session /\ txn'[t].new = c BY <1>1, <1>3 DEF TypeOK
  <2> QED BY <2>1 DEF Session
<1> QED BY <1>1, <1>2, <1>3 DEF Ask

(* i draws from p in c what it drew.                                        *)
DrawsAsBefore(c, i) ==
  /\ c.inv[i].kind = "tax" <=> books.inv[i].kind = "tax"
  /\ c.inv[i].kind = "tax" => c.inv[i].po = books.inv[i].po /\ c.inv[i].sub = books.inv[i].sub

(* Orders add up if one invoice is redrawn and its orders follow.           *)
LEMMA OrdersRedrawn ==
  ASSUME books \in Books, NEW c \in Books, NEW i \in Invoice,
         \A j \in Invoice \ {i} : DrawsAsBefore(c, j),
         NEW p \in Po, c.po[p].status # "gone" => books.po[p].status # "gone",
         c.po[p].status # "gone" =>
           c.po[p].consumed = books.po[p].consumed - Draws(books, p)[i] + Draws(c, p)[i],
         OrderAddsUp(books, p)
  PROVE  OrderAddsUp(c, p)
<1> DEFINE f == Draws(books, p)  g == Draws(c, p)
<1>1. f \in [Invoice -> Int] /\ g \in [Invoice -> Int] BY WholeNumbers
<1>2. \A j \in Invoice \ {i} : f[j] = g[j] BY DEF Draws, DrawsAsBefore
<1>3. books.po[p].status # "gone" => books.po[p].consumed = SumOf(f, Invoice) BY OrderAdds
<1> HIDE DEF f, g
<1>4. SumOf(g, Invoice) = SumOf(f, Invoice) - f[i] + g[i]
  BY <1>1, <1>2, FiniteRows, SumChanges
<1>5. c.po[p].status # "gone" => c.po[p].consumed = SumOf(g, Invoice)
  BY <1>3, <1>4 DEF f, g
<1> QED BY <1>5, OrderAdds DEF g

(* Orders add up if no invoice is redrawn.                                  *)
LEMMA OrdersStand ==
  ASSUME books \in Books, NEW c \in Books, \A i \in Invoice : DrawsAsBefore(c, i),
         NEW p \in Po, c.po[p].status # "gone" => books.po[p].status # "gone",
         c.po[p].status # "gone" => c.po[p].consumed = books.po[p].consumed,
         OrderAddsUp(books, p)
  PROVE  OrderAddsUp(c, p)
<1>1. Draws(c, p) = Draws(books, p) BY DEF Draws, DrawsAsBefore
<1> QED BY <1>1, OrderAdds

(* Receipts and invoices add up if no payment changes.                      *)
LEMMA PaymentsStand ==
  ASSUME books \in Books, NEW c \in Books, c.pay = books.pay
  PROVE  /\ \A r \in Receipt : c.rc[r] = books.rc[r] /\ ReceiptAddsUp(books, r) => ReceiptAddsUp(c, r)
         /\ \A i \in Invoice :
              /\ Issued(c, i) => Issued(books, i)
              /\ c.inv[i].paid = books.inv[i].paid /\ c.inv[i].tds = books.inv[i].tds
              /\ c.tds[i].live = books.tds[i].live /\ c.tds[i].amount = books.tds[i].amount
              /\ InvoiceAddsUp(books, i)
              => InvoiceAddsUp(c, i)
<1>1. \A r : PaysOf(c, r) = PaysOf(books, r) BY DEF PaysOf
<1>2. \A i : PaysOn(c, i) = PaysOn(books, i) BY DEF PaysOn
<1>3. \A r \in Receipt : c.rc[r] = books.rc[r] /\ ReceiptAddsUp(books, r) => ReceiptAddsUp(c, r)
  BY <1>1, ReceiptAdds
<1> QED BY <1>2, <1>3, InvoiceAdds

------------------------------------------------------------------------------
(* Requests that no sum depends on.                                         *)

(* Neither kind, order, base value, paid or withheld amount of an invoice   *)
(* changes, nor what an order has given out, nor payments and receipts.     *)
Quiet(c) ==
  /\ c.pay = books.pay /\ c.rc = books.rc
  /\ \A i \in Invoice :
       /\ c.inv[i].kind = books.inv[i].kind /\ c.inv[i].po = books.inv[i].po
       /\ c.inv[i].sub = books.inv[i].sub
       /\ c.inv[i].paid = books.inv[i].paid /\ c.inv[i].tds = books.inv[i].tds
       /\ c.tds[i].live = books.tds[i].live /\ c.tds[i].amount = books.tds[i].amount
  /\ \A p \in Po :
       /\ c.po[p].consumed = books.po[p].consumed
       /\ c.po[p].status = "gone" <=> books.po[p].status = "gone"

(* To keep a kind is to move on.                                            *)
LEMMA SameKind ==
  ASSUME NEW b \in Books, NEW i \in Invoice PROVE b.inv[i].kind \in After(b.inv[i].kind)
<1>1. b.inv[i].kind \in {"none", "proforma", "tax", "gone"} BY DEF Books, InvoiceRow
<1> QED BY <1>1 DEF After

(* Such a request keeps the sums.                                           *)
LEMMA QuietAdds ==
  ASSUME SumInv, books \in Books, NEW c \in Books, Quiet(c), RevisesTax(c)
  PROVE  Grown(c) /\ AddsUp(c, {})
<1>1. Tied(c)
  <2>1. Tied(books) /\ \A i : i \in Invoice => (Issued(c, i) <=> Issued(books, i))
    BY DEF SumInv, Quiet, Issued
  <2>2. \A k \in Payment : books.pay[k].st = "live" => books.pay[k].inv \in Invoice
    <3>1. \A k \in Payment : books.pay[k] \in PaymentRow BY DEF Books
    <3> QED BY <3>1 DEF PaymentRow
  <2>3. \A i \in Invoice : books.inv[i].po \in Po \cup {NoPo}
    BY DEF Books, InvoiceRow
  <2> QED BY <2>1, <2>2, <2>3 DEF Tied, Quiet
<1>2. Follows(books, c) BY SameKind DEF Follows, Quiet
<1>3. Grown(c) BY <1>1, <1>2 DEF Grown, Quiet
<1>4. \A p \in Po : OrderAddsUp(books, p) => OrderAddsUp(c, p)
  BY OrdersStand DEF Quiet, DrawsAsBefore
<1>5. \A r \in Receipt : ReceiptAddsUp(books, r) => ReceiptAddsUp(c, r)
  BY PaymentsStand DEF Quiet
<1>6. \A i \in Invoice : InvoiceAddsUp(books, i) => InvoiceAddsUp(c, i)
  BY PaymentsStand DEF Quiet, Issued
<1> QED BY <1>3, <1>4, <1>5, <1>6 DEF AddsUp

(* What is pending stays on tax invoices if no request is added and no kind *)
(* changes.                                                                 *)
LEMMA RevisesAsBefore ==
  ASSUME RevisesTax(books), NEW c, books \in Books,
         \A i \in Invoice : books.inv[i].kind = "tax" => c.inv[i].kind = "tax",
         \A v \in Revision : c.rev[v].status = "Pending" => c.rev[v] = books.rev[v]
  PROVE  RevisesTax(c)
<1>1. \A v \in Revision : books.rev[v].status = "Pending" => books.rev[v].inv \in Invoice
  BY DEF Books, RevisionRow
<1> QED BY <1>1 DEF RevisesTax

(* Asking for quiet books keeps the sums.                                   *)
LEMMA AskQuiet ==
  ASSUME TypeOK, SumInv, NEW c \in Books, Quiet(c), Ask(c, {}),
         \A v \in Revision : c.rev[v].status = "Pending" => c.rev[v] = books.rev[v]
  PROVE  SumInv'
<1>1. books \in Books BY DEF TypeOK
<1>2. RevisesTax(c) BY <1>1, RevisesAsBefore DEF SumInv, Quiet
<1> QED BY <1>1, <1>2, QuietAdds, AskAdds

(* PUT /purchase-orders: value and balance only.                            *)
LEMMA UpdatePoAdds ==
  ASSUME TypeOK, TypeOK', SumInv, NEW p \in Po, NEW total \in Orders, UpdatePo(p, total)
  PROVE  SumInv'
<1> DEFINE row == [books.po[p] EXCEPT !.total = total]
           c == [books EXCEPT !.po[p] = Consumed(row, 0)]
<1>1. Ask(c, {}) /\ books.po[p].status # "gone" BY DEF UpdatePo, Asks
<1>2. books \in Books /\ c \in Books BY <1>1, AskBooks
<1>3. books.po[p] \in PoRow BY <1>2 DEF Books
<1>4. Consumed(row, 0).consumed = books.po[p].consumed /\ Consumed(row, 0).status # "gone"
  BY <1>3 DEF Consumed, PoRow
<1>5. Quiet(c) BY <1>1, <1>2, <1>4 DEF Quiet, Books
<1>6. c.rev = books.rev BY <1>2 DEF Books
<1> HIDE DEF c
<1> QED BY <1>1, <1>2, <1>5, <1>6, AskQuiet

(* POST /purchase-orders/{id}/cancel.                                       *)
LEMMA CancelPoAdds ==
  ASSUME TypeOK, TypeOK', SumInv, NEW p \in Po, CancelPo(p) PROVE SumInv'
<1> DEFINE c == [books EXCEPT !.po[p].status = "Cancelled"]
<1>1. Ask(c, {}) /\ books.po[p].status # "gone" BY DEF CancelPo, Asks
<1>2. books \in Books /\ c \in Books BY <1>1, AskBooks
<1>3. books.po[p] \in PoRow BY <1>2 DEF Books
<1>4. Quiet(c) /\ c.rev = books.rev BY <1>1, <1>2, <1>3 DEF Quiet, Books, PoRow
<1> HIDE DEF c
<1> QED BY <1>1, <1>2, <1>4, AskQuiet

(* The buyer's state code: the balance only.                                *)
LEMMA UpdateInvoiceAdds ==
  ASSUME TypeOK, TypeOK', SumInv, NEW i \in Invoice, UpdateInvoice(i) PROVE SumInv'
<1> DEFINE c == [books EXCEPT !.inv[i] = Refreshed(@)]
<1>1. Ask(c, {}) BY DEF UpdateInvoice, Asks
<1>2. books \in Books /\ c \in Books BY <1>1, AskBooks
<1>3. books.inv[i] \in InvoiceRow BY <1>2 DEF Books
<1>4. LET row == Refreshed(books.inv[i]) IN
      /\ row.kind = books.inv[i].kind /\ row.po = books.inv[i].po /\ row.sub = books.inv[i].sub
      /\ row.paid = books.inv[i].paid /\ row.tds = books.inv[i].tds
  BY <1>3 DEF Refreshed, InvoiceRow
<1>5. Quiet(c) /\ c.rev = books.rev BY <1>2, <1>4 DEF Quiet, Books
<1> HIDE DEF c
<1> QED BY <1>1, <1>2, <1>5, AskQuiet

(* Customer approval and IRN.                                               *)
LEMMA ConfirmAdds ==
  ASSUME TypeOK, TypeOK', SumInv, NEW i \in Invoice, Confirm(i) PROVE SumInv'
<1> DEFINE c == [books EXCEPT !.inv[i].open = TRUE]
<1>1. books' = c /\ UNCHANGED <<txn, torn, undone>> BY DEF Confirm
<1>2. books \in Books /\ c \in Books BY <1>1 DEF TypeOK
<1>3. books.inv[i] \in InvoiceRow BY <1>2 DEF Books
<1>4. Quiet(c) /\ c.rev = books.rev BY <1>2, <1>3 DEF Quiet, Books, InvoiceRow
<1> HIDE DEF c
<1>5. RevisesTax(c) BY <1>2, <1>4, RevisesAsBefore DEF SumInv, Quiet
<1>6. undone' = undone \cup {} BY <1>1
<1> QED BY <1>1, <1>2, <1>4, <1>5, <1>6, QuietAdds, NowAdds

(* POST /tds/{id}/payments.                                                 *)
LEMMA TdsReceivedAdds ==
  ASSUME TypeOK, TypeOK', SumInv, NEW i \in Invoice, TdsReceived(i) PROVE SumInv'
<1> DEFINE c == [books EXCEPT !.tds[i].got = TRUE]
<1>1. Ask(c, {}) BY DEF TdsReceived, Asks
<1>2. books \in Books /\ c \in Books BY <1>1, AskBooks
<1>3. books.tds[i] \in TdsRow BY <1>2 DEF Books
<1>4. Quiet(c) /\ c.rev = books.rev BY <1>2, <1>3 DEF Quiet, Books, TdsRow
<1> HIDE DEF c
<1> QED BY <1>1, <1>2, <1>4, AskQuiet

(* Credit notes that are not settled are kept apart ...                     *)
LEMMA NoteAdds ==
  ASSUME TypeOK, TypeOK', SumInv, NEW m \in Note, NEW row, Ask([books EXCEPT !.note[m] = row], {})
  PROVE  SumInv'
<1> DEFINE c == [books EXCEPT !.note[m] = row]
<1>1. books \in Books /\ c \in Books BY AskBooks
<1>2. Quiet(c) /\ c.rev = books.rev BY <1>1 DEF Quiet, Books
<1> HIDE DEF c
<1>3. Ask(c, {}) BY DEF c
<1> QED BY <1>1, <1>2, <1>3, AskQuiet

(* ... an approved one too ...                                              *)
LEMMA ApproveNoteAdds ==
  ASSUME TypeOK, TypeOK', SumInv, NEW m \in Note, ApproveNote(m) PROVE SumInv'
<1> DEFINE c == [books EXCEPT !.note[m].status = "Approved"]
<1>1. books' = c /\ UNCHANGED <<txn, torn, undone>> BY DEF ApproveNote
<1>2. books \in Books /\ c \in Books BY <1>1 DEF TypeOK
<1>3. Quiet(c) /\ c.rev = books.rev BY <1>2 DEF Quiet, Books
<1> HIDE DEF c
<1>4. RevisesTax(c) BY <1>2, <1>3, RevisesAsBefore DEF SumInv, Quiet
<1>5. undone' = undone \cup {} BY <1>1
<1> QED BY <1>1, <1>2, <1>3, <1>4, <1>5, QuietAdds, NowAdds

(* ... and a settled one is taken off a balance.                            *)
LEMMA SettleNoteAdds ==
  ASSUME TypeOK, TypeOK', SumInv, NEW m \in Note, NEW adjust \in BOOLEAN, SettleNote(m, adjust)
  PROVE  SumInv'
<1> DEFINE note == books.note[m]
           c == [books EXCEPT !.note[m].status = "Settled"]
           d == [c EXCEPT !.inv[note.inv] = Credited(@, note.amount)]
<1>1. books \in Books BY DEF TypeOK
<1>2. Quiet(c) /\ c.rev = books.rev BY <1>1 DEF Quiet, Books
<1>3. CASE Ask(c, {})
  <2>1. c \in Books BY <1>3, AskBooks
  <2> HIDE DEF c
  <2> QED BY <1>2, <1>3, <2>1, AskQuiet
<1>4. CASE Ask(d, {})
  <2>1. d \in Books BY <1>4, AskBooks
  <2>2. \A i \in Invoice : LET row == Credited(books.inv[i], note.amount) IN
          /\ row.kind = books.inv[i].kind /\ row.po = books.inv[i].po
          /\ row.sub = books.inv[i].sub
          /\ row.paid = books.inv[i].paid /\ row.tds = books.inv[i].tds
    <3>1. \A i \in Invoice : books.inv[i] \in InvoiceRow BY <1>1 DEF Books
    <3> QED BY <3>1 DEF Credited, InvoiceRow
  <2>3. /\ d.pay = books.pay /\ d.rc = books.rc /\ d.rev = books.rev /\ d.po = books.po
        /\ d.tds = books.tds
        /\ d.inv = [books.inv EXCEPT ![note.inv] = Credited(@, note.amount)]
    BY <1>1 DEF Books
  <2>4. \A i \in Invoice : d.inv[i] = books.inv[i] \/ d.inv[i] = Credited(books.inv[i], note.amount)
    BY <1>1, <2>3 DEF Books
  <2> HIDE DEF d
  <2>5. Quiet(d) BY <2>2, <2>3, <2>4 DEF Quiet
  <2> QED BY <1>4, <2>1, <2>3, <2>5, AskQuiet
<1> QED BY <1>3, <1>4 DEF SettleNote, Asks

(* POST /invoice-revisions/{id}/reject and /cancel.                         *)
LEMMA RejectRevisionAdds ==
  ASSUME TypeOK, TypeOK', SumInv, NEW v \in Revision, RejectRevision(v) PROVE SumInv'
<1> DEFINE c == [books EXCEPT !.rev[v].status = "Decided"]
<1>1. Ask(c, {}) BY DEF RejectRevision, Asks
<1>2. books \in Books /\ c \in Books BY <1>1, AskBooks
<1>3. books.rev[v] \in RevisionRow BY <1>2 DEF Books
<1>4. Quiet(c) BY <1>2 DEF Quiet, Books
<1>5. \A u \in Revision : c.rev[u].status = "Pending" => c.rev[u] = books.rev[u]
  BY <1>2, <1>3 DEF Books, RevisionRow
<1> HIDE DEF c
<1> QED BY <1>1, <1>2, <1>4, <1>5, AskQuiet

------------------------------------------------------------------------------
(* Requests on one invoice that draw on orders.                             *)

(* Invoice i moves on, and orders have given out what it draws instead of   *)
(* what it drew.                                                            *)
Redrawn(c, i) ==
  /\ c.pay = books.pay /\ c.rc = books.rc /\ c.tds = books.tds
  /\ \A j \in Invoice \ {i} : c.inv[j] = books.inv[j]
  /\ c.inv[i].kind \in After(books.inv[i].kind) /\ Issued(c, i)
  /\ books.inv[i].kind = "none" => FreshInvoice(i)
  /\ c.inv[i].po # NoPo => c.po[c.inv[i].po].status # "gone"
  /\ \A p \in Po :
       /\ c.po[p].status = "gone" <=> books.po[p].status = "gone"
       /\ c.po[p].consumed = books.po[p].consumed - Draws(books, p)[i] + Draws(c, p)[i]

(* Such a request keeps the sums.                                           *)
LEMMA RedrawnAdds ==
  ASSUME TypeOK, SumInv, NEW c \in Books, NEW i \in Invoice, Redrawn(c, i),
         InvoiceAddsUp(books, i) => InvoiceAddsUp(c, i), RevisesTax(c), Ask(c, {})
  PROVE  SumInv'
<1>1. books \in Books BY DEF TypeOK
<1>2. Tied(c)
  <2>1. Tied(books) /\ \A j \in Invoice : Issued(books, j) => Issued(c, j)
    BY DEF SumInv, Redrawn, Issued
  <2>2. \A k \in Payment : books.pay[k].st = "live" => books.pay[k].inv \in Invoice
    <3>1. \A k \in Payment : books.pay[k] \in PaymentRow BY <1>1 DEF Books
    <3> QED BY <3>1 DEF PaymentRow
  <2>3. \A j \in Invoice : books.inv[j].po \in Po \cup {NoPo} BY <1>1 DEF Books, InvoiceRow
  <2> QED BY <2>1, <2>2, <2>3 DEF Tied, Redrawn, Issued
<1>3. Follows(books, c) BY <1>1, SameKind DEF Follows, Redrawn
<1>4. Grown(c) BY <1>2, <1>3 DEF Grown, Redrawn
<1>5. \A p \in Po : OrderAddsUp(books, p) => OrderAddsUp(c, p)
  BY <1>1, OrdersRedrawn DEF Redrawn, DrawsAsBefore
<1>6. \A r \in Receipt : ReceiptAddsUp(books, r) => ReceiptAddsUp(c, r)
  BY <1>1, PaymentsStand DEF Redrawn
<1>7. \A j \in Invoice : InvoiceAddsUp(books, j) => InvoiceAddsUp(c, j)
  BY <1>1, PaymentsStand DEF Redrawn, Issued
<1> QED BY <1>4, <1>5, <1>6, <1>7, AskAdds DEF AddsUp

(* move_po_drawdown adds to what one order has given out.                   *)
LEMMA MovedConsumes ==
  ASSUME NEW orders \in [Po -> PoRow], NEW p \in Po \cup {NoPo}, NEW d \in Int,
         p # NoPo => orders[p].status # "gone", NEW q \in Po
  PROVE  /\ Moved(orders, p, d)[q].consumed = orders[q].consumed + (IF q = p THEN d ELSE 0)
         /\ Moved(orders, p, d)[q].status = "gone" <=> orders[q].status = "gone"
<1>1. NoPo \notin Po BY BooksAssumption DEF BooksAssumption
<1>2. orders[q] \in PoRow /\ orders[q].consumed \in Int BY DEF PoRow
<1>3. CASE p = NoPo \/ d = 0 BY <1>1, <1>2, <1>3 DEF Moved
<1>4. CASE p # NoPo /\ d # 0
  <2>1. Moved(orders, p, d) = [orders EXCEPT ![p] = Consumed(@, d)] BY <1>4 DEF Moved
  <2>2. CASE q = p
    <3>1. Moved(orders, p, d)[q] = Consumed(orders[q], d) BY <2>1, <2>2
    <3>2. Consumed(orders[q], d).consumed = orders[q].consumed + d
          /\ Consumed(orders[q], d).status # "gone"
      BY <1>2 DEF Consumed, PoRow
    <3> QED BY <1>4, <2>2, <3>1, <3>2
  <2>3. CASE q # p
    <3>1. Moved(orders, p, d)[q] = orders[q] BY <2>1, <2>3
    <3> QED BY <1>2, <2>3, <3>1
  <2> QED BY <2>2, <2>3
<1> QED BY <1>3, <1>4

(* Nothing was paid on an invoice that is not there yet.                    *)
LEMMA NewInvoiceAdds ==
  ASSUME books \in Books, Tied(books), NEW c \in Books, NEW i \in Invoice, ~Issued(books, i),
         c.pay = books.pay, c.tds = books.tds, c.inv[i].paid = 0, c.inv[i].tds = 0
  PROVE  InvoiceAddsUp(c, i)
<1> DEFINE f == PaysOn(c, i)
<1>1. f \in [Payment -> Int] BY WholeNumbers
<1>2. \A k \in Payment : f[k] = 0 BY DEF PaysOn, Tied
<1>3. ~c.tds[i].live BY DEF Tied
<1> HIDE DEF f
<1>4. SumOf(f, Payment) = 0 BY <1>1, <1>2, FiniteRows, SumOfZeros
<1> QED BY <1>3, <1>4, InvoiceAdds DEF f

(* Base values are whole numbers.                                           *)
LEMMA BaseInt == \A s \in Base : s \in Int
BY BooksAssumption DEF BooksAssumption

(* POST /invoices: the order gives out what the invoice bills.              *)
LEMMA CreateInvoiceAdds ==
  ASSUME TypeOK, TypeOK', SumInv, NEW i \in Invoice, NEW p \in Po \cup {NoPo}, NEW s \in Base,
         CreateInvoice(i, p, s)
  PROVE  SumInv'
<1> DEFINE c == [books EXCEPT !.inv[i] = Blank(p, s, "tax"), !.po = Moved(@, p, s)]
<1>1. Ask(c, {}) /\ FreshInvoice(i) /\ (p # NoPo => books.po[p].status # "gone")
  BY DEF CreateInvoice, Asks
<1>2. books \in Books /\ c \in Books BY <1>1, AskBooks
<1>3. books.inv[i].kind = "none" /\ NoPo \notin Po
  BY <1>1, FreshIds, BooksAssumption DEF BooksAssumption
<1>4. /\ c.pay = books.pay /\ c.rc = books.rc /\ c.tds = books.tds /\ c.rev = books.rev
      /\ c.po = Moved(books.po, p, s)
      /\ c.inv[i] = Blank(p, s, "tax") /\ \A j \in Invoice \ {i} : c.inv[j] = books.inv[j]
      /\ books.po \in [Po -> PoRow] /\ s \in Int
  BY <1>2, BaseInt DEF Books
<1> HIDE DEF c
<1>5. \A q \in Po :
        /\ c.po[q].consumed = books.po[q].consumed + (IF q = p THEN s ELSE 0)
        /\ c.po[q].status = "gone" <=> books.po[q].status = "gone"
  <2>1. \A q \in Po :
          /\ Moved(books.po, p, s)[q].consumed = books.po[q].consumed + (IF q = p THEN s ELSE 0)
          /\ Moved(books.po, p, s)[q].status = "gone" <=> books.po[q].status = "gone"
    BY <1>1, <1>4, MovedConsumes
  <2> QED BY <2>1, <1>4
<1>6. \A q \in Po : Draws(books, q)[i] = 0 /\ Draws(c, q)[i] = IF q = p THEN s ELSE 0
  BY <1>3, <1>4 DEF Draws, Blank
<1>7. \A q \in Po : books.po[q].consumed \in Int BY <1>4 DEF PoRow
<1>8. Redrawn(c, i) BY <1>1, <1>3, <1>4, <1>5, <1>6, <1>7 DEF Redrawn, After, Issued, Blank
<1>9. InvoiceAddsUp(c, i)
  BY <1>2, <1>3, <1>4, NewInvoiceAdds DEF SumInv, Issued, Blank
<1>10. RevisesTax(c)
  <2>1. \A j \in Invoice : books.inv[j].kind = "tax" => c.inv[j].kind = "tax" BY <1>3, <1>4
  <2> QED BY <1>2, <1>4, <2>1, RevisesAsBefore DEF SumInv
<1> QED BY <1>1, <1>2, <1>8, <1>9, <1>10, RedrawnAdds

(* generate_timesheet_invoice: a proforma draws nothing.                    *)
LEMMA RaiseProformaAdds ==
  ASSUME TypeOK, TypeOK', SumInv, NEW i \in Invoice, NEW p \in Po \cup {NoPo}, NEW s \in Base,
         RaiseProforma(i, p, s)
  PROVE  SumInv'
<1> DEFINE c == [books EXCEPT !.inv[i] = Blank(p, s, "proforma")]
<1>1. Ask(c, {}) /\ FreshInvoice(i) /\ (p # NoPo => books.po[p].status # "gone")
  BY DEF RaiseProforma, Asks
<1>2. books \in Books /\ c \in Books BY <1>1, AskBooks
<1>3. books.inv[i].kind = "none" BY <1>1, FreshIds
<1>4. /\ c.pay = books.pay /\ c.rc = books.rc /\ c.tds = books.tds /\ c.rev = books.rev
      /\ c.po = books.po
      /\ c.inv[i] = Blank(p, s, "proforma") /\ \A j \in Invoice \ {i} : c.inv[j] = books.inv[j]
      /\ books.po \in [Po -> PoRow]
  BY <1>2 DEF Books
<1> HIDE DEF c
<1>5. \A q \in Po : Draws(books, q)[i] = 0 /\ Draws(c, q)[i] = 0
  BY <1>3, <1>4 DEF Draws, Blank
<1>6. \A q \in Po : books.po[q].consumed \in Int BY <1>4 DEF PoRow
<1>7. Redrawn(c, i) BY <1>1, <1>3, <1>4, <1>5, <1>6 DEF Redrawn, After, Issued, Blank
<1>8. InvoiceAddsUp(c, i)
  BY <1>2, <1>3, <1>4, NewInvoiceAdds DEF SumInv, Issued, Blank
<1>9. RevisesTax(c)
  <2>1. \A j \in Invoice : books.inv[j].kind = "tax" => c.inv[j].kind = "tax" BY <1>3, <1>4
  <2> QED BY <1>2, <1>4, <2>1, RevisesAsBefore DEF SumInv
<1> QED BY <1>1, <1>2, <1>7, <1>8, <1>9, RedrawnAdds

(* An invoice that stays, with what was paid and withheld, adds up.         *)
LEMMA StandingInvoiceAdds ==
  ASSUME books \in Books, NEW c \in Books, NEW i \in Invoice, Issued(books, i),
         c.pay = books.pay, c.tds = books.tds,
         c.inv[i].paid = books.inv[i].paid, c.inv[i].tds = books.inv[i].tds
  PROVE  InvoiceAddsUp(books, i) => InvoiceAddsUp(c, i)
BY PaymentsStand

(* convert_to_tax_invoice: now it draws.                                    *)
LEMMA ConvertAdds ==
  ASSUME TypeOK, TypeOK', SumInv, NEW i \in Invoice, Convert(i) PROVE SumInv'
<1> DEFINE row == books.inv[i]
           c == [books EXCEPT !.inv[i].kind = "tax", !.po = Moved(@, row.po, row.sub)]
<1>1. Ask(c, {}) /\ row.kind = "proforma" BY DEF Convert, Asks
<1>2. books \in Books /\ c \in Books BY <1>1, AskBooks
<1>3. NoPo \notin Po BY BooksAssumption DEF BooksAssumption
<1>4. /\ c.pay = books.pay /\ c.rc = books.rc /\ c.tds = books.tds /\ c.rev = books.rev
      /\ c.po = Moved(books.po, row.po, row.sub)
      /\ c.inv[i] = [row EXCEPT !.kind = "tax"]
      /\ \A j \in Invoice \ {i} : c.inv[j] = books.inv[j]
      /\ books.po \in [Po -> PoRow] /\ row \in InvoiceRow
  BY <1>2 DEF Books
<1>5. /\ row.po \in Po \cup {NoPo} /\ row.sub \in Int
      /\ row.po # NoPo => books.po[row.po].status # "gone"
  BY <1>1, <1>4, BaseInt DEF InvoiceRow, SumInv, Tied, Issued
<1> HIDE DEF c
<1>6. \A q \in Po :
        /\ c.po[q].consumed = books.po[q].consumed + (IF q = row.po THEN row.sub ELSE 0)
        /\ c.po[q].status = "gone" <=> books.po[q].status = "gone"
  <2>1. books.po \in [Po -> PoRow] BY <1>4
  <2> HIDE DEF row
  <2>2. \A q \in Po :
          /\ Moved(books.po, row.po, row.sub)[q].consumed =
               books.po[q].consumed + (IF q = row.po THEN row.sub ELSE 0)
          /\ Moved(books.po, row.po, row.sub)[q].status = "gone" <=> books.po[q].status = "gone"
    BY <1>5, <2>1, MovedConsumes
  <2> QED BY <1>4, <2>2
<1>7. /\ c.inv[i].kind = "tax" /\ c.inv[i].po = row.po /\ c.inv[i].sub = row.sub
      /\ c.inv[i].paid = row.paid /\ c.inv[i].tds = row.tds
  BY <1>4 DEF InvoiceRow
<1>8. \A q \in Po : Draws(books, q)[i] = 0 /\ Draws(c, q)[i] = IF q = row.po THEN row.sub ELSE 0
  BY <1>1, <1>7 DEF Draws
<1>9. \A q \in Po : books.po[q].consumed \in Int BY <1>4 DEF PoRow
<1>10. Redrawn(c, i) BY <1>1, <1>3, <1>4, <1>5, <1>6, <1>7, <1>8, <1>9 DEF Redrawn, After, Issued
<1>11. InvoiceAddsUp(books, i) => InvoiceAddsUp(c, i)
  BY <1>1, <1>2, <1>4, <1>7, StandingInvoiceAdds DEF Issued
<1>12. RevisesTax(c)
  <2>1. \A j \in Invoice : books.inv[j].kind = "tax" => c.inv[j].kind = "tax" BY <1>4, <1>7
  <2> QED BY <1>2, <1>4, <2>1, RevisesAsBefore DEF SumInv
<1> QED BY <1>1, <1>2, <1>10, <1>11, <1>12, RedrawnAdds

(* services/invoice_revisions.py _apply: what one order gives back another, *)
(* or the same, gives out.                                                  *)
LEMMA RevisedAdds ==
  ASSUME TypeOK, SumInv, NEW i \in Invoice, NEW s \in Base \cup {0}, NEW p \in Po \cup {NoPo},
         Applies(i, s, p), books.inv[i].kind = "tax", NEW rev, NEW c \in Books,
         c = [Revised(i, s, p) EXCEPT !.rev = rev],
         \A v \in Revision : rev[v].status = "Pending" => rev[v] = books.rev[v],
         Ask(c, {})
  PROVE  SumInv'
<1> DEFINE row == books.inv[i]
           n == NewSub(row, s)
           to == IF p # NoPo THEN p ELSE row.po
           back == Moved(books.po, row.po, -row.sub)
           new == Refreshed([row EXCEPT !.sub = n, !.po = to])
           po == IF p # NoPo THEN Moved(back, p, n) ELSE Moved(books.po, row.po, n - row.sub)
<1>1. books \in Books BY DEF TypeOK
<1>2. books.po \in [Po -> PoRow] /\ row \in InvoiceRow /\ NoPo \notin Po
  BY <1>1, BooksAssumption DEF Books, BooksAssumption
<1>3. /\ row.po \in Po \cup {NoPo} /\ row.sub \in Int /\ n \in Int
      /\ row.po # NoPo => books.po[row.po].status # "gone"
      /\ p # NoPo => books.po[p].status # "gone"
  <2>1. row.sub \in Base /\ n \in Base BY <1>2 DEF InvoiceRow, NewSub
  <2> QED BY <1>2, <2>1, BaseInt DEF InvoiceRow, SumInv, Tied, Issued, Applies
<1>4. Revised(i, s, p) = [books EXCEPT !.inv[i] = new, !.po = po] BY DEF Revised
<1>5. new.kind = "tax" /\ new.po = to /\ new.sub = n /\ new.paid = row.paid /\ new.tds = row.tds
  BY <1>2 DEF Refreshed, InvoiceRow
<1> HIDE DEF n, po, new
<1>6. /\ c.pay = books.pay /\ c.rc = books.rc /\ c.tds = books.tds /\ c.rev = rev /\ c.po = po
      /\ c.inv[i] = new /\ \A j \in Invoice \ {i} : c.inv[j] = books.inv[j]
  BY <1>1, <1>4 DEF Books
<1>7. \A q \in Po : books.po[q].consumed \in Int BY <1>2 DEF PoRow
<1>8. ASSUME NEW q \in Po
      PROVE  /\ po[q].consumed = books.po[q].consumed - (IF q = row.po THEN row.sub ELSE 0)
                                                      + (IF q = to THEN n ELSE 0)
             /\ po[q].status = "gone" <=> books.po[q].status = "gone"
  <2>1. CASE p = NoPo
    <3>1. po = Moved(books.po, row.po, n - row.sub) /\ to = row.po /\ n - row.sub \in Int
      BY <1>3, <2>1 DEF po
    <3>2. /\ po[q].consumed = books.po[q].consumed + (IF q = row.po THEN n - row.sub ELSE 0)
          /\ po[q].status = "gone" <=> books.po[q].status = "gone"
      BY <1>2, <1>3, <3>1, MovedConsumes
    <3> QED BY <1>3, <1>7, <3>1, <3>2
  <2>2. CASE p # NoPo
    <3>1. po = Moved(back, p, n) /\ to = p /\ -row.sub \in Int BY <1>3, <2>2 DEF po
    <3>2. \A o \in Po :
            /\ back[o].consumed = books.po[o].consumed + (IF o = row.po THEN -row.sub ELSE 0)
            /\ back[o].status = "gone" <=> books.po[o].status = "gone"
      BY <1>2, <1>3, <3>1, MovedConsumes
    <3>3. back \in [Po -> PoRow] BY <1>2, <1>3, <3>1, MovedOrders
    <3> HIDE DEF back, to
    <3>4. p # NoPo => back[p].status # "gone" BY <1>3, <3>2
    <3>5. /\ po[q].consumed = back[q].consumed + (IF q = p THEN n ELSE 0)
          /\ po[q].status = "gone" <=> back[q].status = "gone"
      <4>1. /\ Moved(back, p, n)[q].consumed = back[q].consumed + (IF q = p THEN n ELSE 0)
            /\ Moved(back, p, n)[q].status = "gone" <=> back[q].status = "gone"
        BY <1>3, <3>3, <3>4, MovedConsumes
      <4> QED BY <3>1, <4>1
    <3> QED BY <1>3, <1>7, <3>1, <3>2, <3>5
  <2> QED BY <2>1, <2>2
<1>9. \A q \in Po : /\ Draws(books, q)[i] = IF q = row.po THEN row.sub ELSE 0
                    /\ Draws(c, q)[i] = IF q = to THEN n ELSE 0
  BY <1>5, <1>6 DEF Draws
<1>10. to \in Po \cup {NoPo} /\ (to # NoPo => books.po[to].status # "gone") BY <1>3
<1> HIDE DEF to
<1>11. Redrawn(c, i)
  <2>1. c.inv[i].kind = "tax" /\ c.inv[i].po = to BY <1>5, <1>6
  <2>2. \A q \in Po :
          /\ c.po[q].status = "gone" <=> books.po[q].status = "gone"
          /\ c.po[q].consumed = books.po[q].consumed - Draws(books, q)[i] + Draws(c, q)[i]
    BY <1>6, <1>8, <1>9
  <2> QED BY <1>6, <1>10, <2>1, <2>2 DEF Redrawn, After, Issued
<1>12. InvoiceAddsUp(books, i) => InvoiceAddsUp(c, i)
  BY <1>1, <1>5, <1>6, StandingInvoiceAdds DEF Issued
<1>13. RevisesTax(c)
  <2>1. \A j \in Invoice : books.inv[j].kind = "tax" => c.inv[j].kind = "tax" BY <1>5, <1>6
  <2> QED BY <1>1, <1>6, <2>1, RevisesAsBefore DEF SumInv
<1> QED BY <1>11, <1>12, <1>13, RedrawnAdds

(* POST /invoices/{id}/revisions.                                           *)
LEMMA RequestRevisionAdds ==
  ASSUME TypeOK, TypeOK', SumInv, NEW v \in Revision, NEW i \in Invoice, NEW s \in Base \cup {0},
         NEW p \in Po \cup {NoPo}, NEW admin \in BOOLEAN, RequestRevision(v, i, s, p, admin)
  PROVE  SumInv'
<1> DEFINE row(status) == [status |-> status, inv |-> i, sub |-> s, po |-> p]
           c == [books EXCEPT !.rev[v] = row("Pending")]
           d == [Revised(i, s, p) EXCEPT !.rev[v] = row("Decided")]
<1>1. books \in Books /\ books.inv[i].kind = "tax" BY DEF TypeOK, RequestRevision
<1>2. CASE Ask(c, {})
  <2>1. c \in Books BY <1>2, AskBooks
  <2>2. Quiet(c) BY <1>1 DEF Quiet, Books
  <2>3. /\ \A u \in Revision \ {v} : c.rev[u] = books.rev[u]
        /\ c.rev[v].inv = i /\ \A j \in Invoice : c.inv[j].kind = books.inv[j].kind
    BY <1>1 DEF Books
  <2> HIDE DEF c
  <2>4. RevisesTax(c)
    <3>1. \A u \in Revision : books.rev[u].status = "Pending" => books.rev[u].inv \in Invoice
      BY <1>1 DEF Books, RevisionRow
    <3> QED BY <1>1, <2>3, <3>1 DEF SumInv, RevisesTax
  <2> QED BY <1>1, <1>2, <2>1, <2>2, <2>4, QuietAdds, AskAdds
<1>3. CASE Applies(i, s, p) /\ Ask(d, {})
  <2>1. d \in Books BY <1>3, AskBooks
  <2>2. Revised(i, s, p).rev = books.rev /\ Revised(i, s, p) \in Books
    BY <1>1, <1>3, RevisedFine DEF Fine
  <2> DEFINE rev == [books.rev EXCEPT ![v] = row("Decided")]
  <2>3. d = [Revised(i, s, p) EXCEPT !.rev = rev] BY <2>2 DEF Books
  <2>4. \A u \in Revision : rev[u].status = "Pending" => rev[u] = books.rev[u]
    BY <1>1 DEF Books
  <2> HIDE DEF d, rev
  <2> QED BY <1>1, <1>3, <2>1, <2>3, <2>4, RevisedAdds
<1> QED BY <1>2, <1>3 DEF RequestRevision, Asks

(* POST /invoice-revisions/{id}/approve.                                    *)
LEMMA ApproveRevisionAdds ==
  ASSUME TypeOK, TypeOK', SumInv, NEW v \in Revision, ApproveRevision(v) PROVE SumInv'
<1> DEFINE r == books.rev[v]
           d == [Revised(r.inv, r.sub, r.po) EXCEPT !.rev[v].status = "Decided"]
<1>1. Ask(d, {}) /\ Applies(r.inv, r.sub, r.po) /\ r.status = "Pending"
  BY DEF ApproveRevision, Asks
<1>2. books \in Books /\ d \in Books BY <1>1, AskBooks
<1>3. r \in RevisionRow BY <1>2 DEF Books
<1>4. r.inv \in Invoice /\ r.sub \in Base \cup {0} /\ r.po \in Po \cup {NoPo}
  BY <1>1, <1>3 DEF RevisionRow
<1>5. books.inv[r.inv].kind = "tax" BY <1>1 DEF SumInv, RevisesTax
<1>6. Revised(r.inv, r.sub, r.po).rev = books.rev /\ Revised(r.inv, r.sub, r.po) \in Books
  BY <1>1, <1>2, <1>4, RevisedFine DEF Fine
<1> DEFINE rev == [books.rev EXCEPT ![v].status = "Decided"]
<1>7. d = [Revised(r.inv, r.sub, r.po) EXCEPT !.rev = rev] BY <1>6 DEF Books
<1>8. \A u \in Revision : rev[u].status = "Pending" => rev[u] = books.rev[u]
  BY <1>2, <1>3 DEF Books, RevisionRow
<1> HIDE DEF d, rev, r
<1> QED BY <1>1, <1>2, <1>4, <1>5, <1>7, <1>8, RevisedAdds

------------------------------------------------------------------------------
(* Invoices that go, with their payments, TDS and change requests.          *)

Removes(c, S) ==
  /\ c.rc = books.rc
  /\ \A i \in Invoice :
       IF i \in S THEN c.inv[i].kind = "gone" /\ ~c.tds[i].live
                  ELSE c.inv[i] = books.inv[i] /\ c.tds[i] = books.tds[i]
  /\ \A k \in Payment :
       IF books.pay[k].st = "live" /\ books.pay[k].inv \in S
         THEN c.pay[k].st = "gone" /\ c.pay[k].amount = books.pay[k].amount
         ELSE c.pay[k] = books.pay[k]
  /\ \A v \in Revision : c.rev[v].status = "Pending" =>
       c.rev[v] = books.rev[v] /\ c.rev[v].inv \notin S

(* services/crm_delete.py removes the rows of S.                            *)
LEMMA CascadedRemoves ==
  ASSUME books \in Books, NEW S \in SUBSET Invoice, NEW c,
         c.inv = Cascaded(books, S).inv, c.tds = Cascaded(books, S).tds,
         c.pay = Cascaded(books, S).pay, c.rev = Cascaded(books, S).rev, c.rc = books.rc
  PROVE  Removes(c, S)
<1>1. /\ \A i \in Invoice : books.inv[i] \in InvoiceRow
      /\ \A k \in Payment : books.pay[k] \in PaymentRow
      /\ \A v \in Revision : books.rev[v] \in RevisionRow
  BY DEF Books
<1>2. ASSUME NEW i \in Invoice
      PROVE  IF i \in S THEN c.inv[i].kind = "gone" /\ ~c.tds[i].live
                        ELSE c.inv[i] = books.inv[i] /\ c.tds[i] = books.tds[i]
  <2>1. /\ c.inv[i] = IF i \in S THEN [books.inv[i] EXCEPT !.kind = "gone"] ELSE books.inv[i]
        /\ c.tds[i] = IF i \in S THEN NoTds ELSE books.tds[i]
    BY DEF Cascaded, Books
  <2> QED BY <1>1, <2>1 DEF NoTds, InvoiceRow
<1>3. ASSUME NEW k \in Payment
      PROVE  IF books.pay[k].st = "live" /\ books.pay[k].inv \in S
               THEN c.pay[k].st = "gone" /\ c.pay[k].amount = books.pay[k].amount
               ELSE c.pay[k] = books.pay[k]
  <2>1. c.pay[k] = IF books.pay[k].st = "live" /\ books.pay[k].inv \in S
                     THEN [books.pay[k] EXCEPT !.st = "gone"] ELSE books.pay[k]
    BY DEF Cascaded, Books
  <2> QED BY <1>1, <2>1 DEF PaymentRow
<1>4. ASSUME NEW v \in Revision, c.rev[v].status = "Pending"
      PROVE  c.rev[v] = books.rev[v] /\ c.rev[v].inv \notin S
  <2>1. c.rev[v] = IF books.rev[v].inv \in S THEN [books.rev[v] EXCEPT !.status = "Decided"]
                                             ELSE books.rev[v]
    BY DEF Cascaded, Books
  <2> QED BY <1>1, <1>4, <2>1 DEF RevisionRow
<1> QED BY <1>2, <1>3, <1>4 DEF Removes

(* Such a request keeps the sums if orders follow, but for the receipts the *)
(* payments were made of.                                                   *)
LEMMA RemovesAdds ==
  ASSUME TypeOK, SumInv, NEW c \in Books, NEW S \in SUBSET Invoice, Removes(c, S),
         \A i \in S : Issued(books, i), NEW undoes \in SUBSET Receipt,
         \A k \in Payment : books.pay[k].st = "live" /\ books.pay[k].inv \in S =>
           books.pay[k].rc = NoReceipt \/ books.pay[k].rc \in undoes,
         \A i \in Invoice \ S : Issued(books, i) /\ books.inv[i].po # NoPo =>
           c.po[books.inv[i].po].status # "gone",
         \A p \in Po : OrderAddsUp(books, p) => OrderAddsUp(c, p),
         Ask(c, undoes)
  PROVE  SumInv'
<1>1. books \in Books /\ NoReceipt \notin Receipt
  BY BooksAssumption DEF TypeOK, BooksAssumption
<1>2. \A k \in Payment : books.pay[k].st = "live" => books.pay[k].inv \in Invoice
  <2>1. \A k \in Payment : books.pay[k] \in PaymentRow BY <1>1 DEF Books
  <2> QED BY <2>1 DEF PaymentRow
<1>3. Tied(c)
  <2>1. Tied(books) BY DEF SumInv
  <2>2. \A i \in Invoice : Issued(c, i) <=> Issued(books, i) /\ i \notin S
    BY DEF Removes, Issued
  <2>3. \A k \in Payment : c.pay[k].st = "live" =>
          c.pay[k] = books.pay[k] /\ books.pay[k].inv \notin S
    BY DEF Removes
  <2> QED BY <1>2, <2>1, <2>2, <2>3 DEF Tied, Removes
<1>4. RevisesTax(c)
  <2>1. \A v \in Revision : books.rev[v].status = "Pending" => books.rev[v].inv \in Invoice
    BY <1>1 DEF Books, RevisionRow
  <2> QED BY <2>1 DEF SumInv, RevisesTax, Removes
<1>5. Follows(books, c)
  <2>1. \A i \in S : "gone" \in After(books.inv[i].kind) BY DEF After
  <2>2. \A i \in Invoice \ S : c.inv[i].kind \in After(books.inv[i].kind)
    BY <1>1, SameKind DEF Removes
  <2> QED BY <2>1, <2>2 DEF Follows, Removes
<1>6. Grown(c)
  <2>1. \A i \in Invoice : books.inv[i].kind = "none" => c.inv[i].kind = "none"
    BY DEF Removes, Issued
  <2> QED BY <1>3, <1>4, <1>5, <2>1 DEF Grown, Removes
<1>7. ASSUME NEW r \in Receipt \ undoes, ReceiptAddsUp(books, r) PROVE ReceiptAddsUp(c, r)
  <2>1. PaysOf(c, r) = PaysOf(books, r)
    <3>1. \A k \in Payment : c.pay[k].st = "live" /\ c.pay[k].rc = r <=>
            books.pay[k].st = "live" /\ books.pay[k].rc = r
      BY <1>1, <1>7 DEF Removes
    <3>2. \A k \in Payment : c.pay[k].amount = books.pay[k].amount BY DEF Removes
    <3> QED BY <3>1, <3>2 DEF PaysOf
  <2> QED BY <1>1, <1>7, <2>1, ReceiptAdds DEF Removes
<1>8. ASSUME NEW i \in Invoice, InvoiceAddsUp(books, i) PROVE InvoiceAddsUp(c, i)
  <2>1. CASE i \in S BY <2>1, InvoiceAdds DEF Removes, Issued
  <2>2. CASE i \notin S
    <3>1. \A k \in Payment : c.pay[k].st = "live" /\ c.pay[k].inv = i <=>
            books.pay[k].st = "live" /\ books.pay[k].inv = i
      BY <2>2 DEF Removes
    <3>2. \A k \in Payment : c.pay[k].amount = books.pay[k].amount BY DEF Removes
    <3>3. PaysOn(c, i) = PaysOn(books, i) BY <3>1, <3>2 DEF PaysOn
    <3> QED BY <1>1, <1>8, <2>2, <3>3, InvoiceAdds DEF Removes, Issued
  <2> QED BY <2>1, <2>2
<1>9. AddsUp(c, undoes) BY <1>7, <1>8 DEF AddsUp
<1> QED BY <1>6, <1>9, AskAdds

(* A deleted tax invoice gives back what it drew.                           *)
LEMMA ReleasedAdds ==
  ASSUME TypeOK, SumInv, NEW i \in Invoice, Issued(books, i), NEW c \in Books,
         c = [Cascaded(books, {i}) EXCEPT !.po = Released(books, i)]
  PROVE  /\ Removes(c, {i})
         /\ \A j \in Invoice \ {i} : Issued(books, j) /\ books.inv[j].po # NoPo =>
              c.po[books.inv[j].po].status # "gone"
         /\ \A p \in Po : OrderAddsUp(books, p) => OrderAddsUp(c, p)
<1> DEFINE row == books.inv[i]
<1>1. books \in Books BY DEF TypeOK
<1>2. Cascaded(books, {i}) \in Books BY <1>1, CascadedBooks
<1>3. /\ c.inv = Cascaded(books, {i}).inv /\ c.tds = Cascaded(books, {i}).tds
      /\ c.pay = Cascaded(books, {i}).pay /\ c.rev = Cascaded(books, {i}).rev
      /\ c.rc = Cascaded(books, {i}).rc /\ c.po = Released(books, i)
  BY <1>2 DEF Books
<1>4. Cascaded(books, {i}).rc = books.rc BY <1>1 DEF Cascaded, Books
<1>5. Removes(c, {i}) BY <1>1, <1>3, <1>4, CascadedRemoves
<1>6. books.po \in [Po -> PoRow] /\ row \in InvoiceRow BY <1>1 DEF Books
<1>7. /\ row.po \in Po \cup {NoPo} /\ row.sub \in Int /\ -row.sub \in Int
      /\ row.po # NoPo => books.po[row.po].status # "gone"
  BY <1>6, BaseInt DEF InvoiceRow, SumInv, Tied
<1>8. \A q \in Po : books.po[q].consumed \in Int BY <1>6 DEF PoRow
<1>9. ASSUME NEW q \in Po
      PROVE  /\ c.po[q].consumed = books.po[q].consumed - Draws(books, q)[i] + Draws(c, q)[i]
             /\ c.po[q].status = "gone" <=> books.po[q].status = "gone"
  <2>1. Draws(c, q)[i] = 0 BY <1>5 DEF Draws, Removes
  <2>2. CASE row.kind = "tax"
    <3>1. Draws(books, q)[i] = IF row.po = q THEN row.sub ELSE 0 BY <2>2 DEF Draws
    <3>2. c.po = Moved(books.po, row.po, -row.sub) BY <1>3, <2>2 DEF Released
    <3>3. /\ Moved(books.po, row.po, -row.sub)[q].consumed =
               books.po[q].consumed + (IF q = row.po THEN -row.sub ELSE 0)
          /\ Moved(books.po, row.po, -row.sub)[q].status = "gone" <=> books.po[q].status = "gone"
      <4> DEFINE d == -row.sub  o == row.po
      <4>1. books.po \in [Po -> PoRow] /\ d \in Int /\ o \in Po \cup {NoPo}
        BY <1>6, <1>7
      <4>2. o # NoPo => books.po[o].status # "gone" BY <1>7
      <4> HIDE DEF d, o
      <4>3. /\ Moved(books.po, o, d)[q].consumed = books.po[q].consumed + (IF q = o THEN d ELSE 0)
            /\ Moved(books.po, o, d)[q].status = "gone" <=> books.po[q].status = "gone"
        BY <4>1, <4>2, MovedConsumes
      <4> QED BY <4>3 DEF d, o
    <3> QED BY <1>7, <1>8, <2>1, <3>1, <3>2, <3>3
  <2>3. CASE row.kind # "tax"
    <3>1. Draws(books, q)[i] = 0 /\ c.po = books.po BY <1>3, <2>3 DEF Draws, Released
    <3> QED BY <1>8, <2>1, <3>1
  <2> QED BY <2>2, <2>3
<1>10. \A j \in Invoice \ {i} : DrawsAsBefore(c, j) BY <1>5 DEF Removes, DrawsAsBefore
<1>11. \A p \in Po : OrderAddsUp(books, p) => OrderAddsUp(c, p)
  BY <1>1, <1>9, <1>10, OrdersRedrawn
<1>12. \A j \in Invoice : books.inv[j].po \in Po \cup {NoPo} BY <1>1 DEF Books, InvoiceRow
<1> QED BY <1>5, <1>9, <1>11, <1>12 DEF SumInv, Tied

(* DELETE /invoices: only without payments.                                 *)
LEMMA DeleteInvoiceAdds ==
  ASSUME TypeOK, TypeOK', SumInv, NEW i \in Invoice, DeleteInvoice(i) PROVE SumInv'
<1> DEFINE c == [Cascaded(books, {i}) EXCEPT !.po = Released(books, i)]
<1>1. Ask(c, {}) /\ Issued(books, i) /\ PaymentsOn(books, i) = {}
  BY DEF DeleteInvoice, Deletable, Asks
<1>2. c \in Books BY <1>1, AskBooks
<1> HIDE DEF c
<1>3. \A k \in Payment : ~(books.pay[k].st = "live" /\ books.pay[k].inv \in {i})
  BY <1>1 DEF PaymentsOn
<1>4. /\ Removes(c, {i})
      /\ \A j \in Invoice \ {i} : Issued(books, j) /\ books.inv[j].po # NoPo =>
           c.po[books.inv[j].po].status # "gone"
      /\ \A p \in Po : OrderAddsUp(books, p) => OrderAddsUp(c, p)
  BY <1>1, <1>2, ReleasedAdds DEF c
<1>5. {i} \in SUBSET Invoice /\ \A j \in {i} : Issued(books, j) BY <1>1
<1> QED BY <1>1, <1>2, <1>3, <1>4, <1>5, RemovesAdds

(* undo_invoice_admin: receipts of its payments are passed by.              *)
LEMMA UndoInvoiceAdds ==
  ASSUME TypeOK, TypeOK', SumInv, NEW i \in Invoice, UndoInvoice(i) PROVE SumInv'
<1> DEFINE c == [Cascaded(books, {i}) EXCEPT !.po = Released(books, i)]
           undoes == {books.pay[k].rc : k \in PaymentsOn(books, i)} \ {NoReceipt}
<1>1. Ask(c, undoes) /\ Issued(books, i) BY DEF UndoInvoice
<1>2. books \in Books /\ c \in Books BY <1>1, AskBooks
<1> HIDE DEF c
<1>3. undoes \in SUBSET Receipt
  <2>1. \A k \in Payment : books.pay[k] \in PaymentRow BY <1>2 DEF Books
  <2>2. \A k \in Payment : books.pay[k].rc \in Receipt \cup {NoReceipt} BY <2>1 DEF PaymentRow
  <2> QED BY <2>2 DEF PaymentsOn
<1>4. \A k \in Payment : books.pay[k].st = "live" /\ books.pay[k].inv \in {i} =>
        books.pay[k].rc = NoReceipt \/ books.pay[k].rc \in undoes
  BY DEF PaymentsOn
<1>5. /\ Removes(c, {i})
      /\ \A j \in Invoice \ {i} : Issued(books, j) /\ books.inv[j].po # NoPo =>
           c.po[books.inv[j].po].status # "gone"
      /\ \A p \in Po : OrderAddsUp(books, p) => OrderAddsUp(c, p)
  BY <1>1, <1>2, ReleasedAdds DEF c
<1>6. {i} \in SUBSET Invoice /\ \A j \in {i} : Issued(books, j) BY <1>1
<1> HIDE DEF undoes
<1> QED BY <1>1, <1>2, <1>3, <1>4, <1>5, <1>6, RemovesAdds

(* DELETE /purchase-orders: with all invoices raised on it.                 *)
LEMMA DeletePoAdds ==
  ASSUME TypeOK, TypeOK', SumInv, NEW p \in Po, DeletePo(p) PROVE SumInv'
<1> DEFINE S == RaisedOn(books, p)
           c == [Cascaded(books, S) EXCEPT !.po[p].status = "gone"]
<1>1. Ask(c, {}) /\ \A i \in S : Issued(books, i) /\ PaymentsOn(books, i) = {}
  BY DEF DeletePo, Deletable, Asks
<1>2. books \in Books /\ c \in Books BY <1>1, AskBooks
<1>3. S \in SUBSET Invoice BY DEF RaisedOn
<1>4. Cascaded(books, S) \in Books /\ Cascaded(books, S).po = books.po
  BY <1>2, <1>3, CascadedBooks
<1>5. Cascaded(books, S).rc = books.rc BY <1>2 DEF Cascaded, Books
<1>6. /\ c.inv = Cascaded(books, S).inv /\ c.tds = Cascaded(books, S).tds
      /\ c.pay = Cascaded(books, S).pay /\ c.rev = Cascaded(books, S).rev
      /\ c.rc = books.rc
      /\ c.po[p].status = "gone" /\ \A q \in Po \ {p} : c.po[q] = books.po[q]
  BY <1>4, <1>5 DEF Books, PoRow
<1> HIDE DEF c
<1>7. Removes(c, S) BY <1>2, <1>3, <1>6, CascadedRemoves
<1>8. ASSUME NEW q \in Po, OrderAddsUp(books, q) PROVE OrderAddsUp(c, q)
  <2>1. CASE q = p BY <1>2, <1>6, <2>1, OrderAdds
  <2>2. CASE q # p
    <3>1. Draws(c, q) = Draws(books, q)
      <4>1. \A i \in Invoice : c.inv[i].kind = "tax" /\ c.inv[i].po = q <=>
              books.inv[i].kind = "tax" /\ books.inv[i].po = q
        BY <1>7, <2>2 DEF Removes, RaisedOn
      <4>2. \A i \in Invoice : c.inv[i].kind = "tax" => c.inv[i].sub = books.inv[i].sub
        BY <1>7 DEF Removes
      <4> QED BY <4>1, <4>2 DEF Draws
    <3> QED BY <1>2, <1>6, <1>8, <2>2, <3>1, OrderAdds
  <2> QED BY <2>1, <2>2
<1>9. \A i \in Invoice \ S : Issued(books, i) /\ books.inv[i].po # NoPo =>
        c.po[books.inv[i].po].status # "gone"
  <2>1. \A i \in Invoice : books.inv[i].po \in Po \cup {NoPo} BY <1>2 DEF Books, InvoiceRow
  <2> QED BY <1>6, <2>1 DEF SumInv, Tied, RaisedOn
<1>10. \A k \in Payment : ~(books.pay[k].st = "live" /\ books.pay[k].inv \in S)
  BY <1>1 DEF PaymentsOn
<1> HIDE DEF S
<1> QED BY <1>1, <1>2, <1>3, <1>7, <1>8, <1>9, <1>10, RemovesAdds

------------------------------------------------------------------------------
(* Requests on payments, TDS and received amounts.                          *)

(* Orders and what draws on them stay; a payment that is there keeps its    *)
(* amount, and what is paid or withheld is so on an invoice.                *)
Collects(c) ==
  /\ c.po = books.po /\ c.rev = books.rev
  /\ \A i \in Invoice :
       /\ c.inv[i].kind = books.inv[i].kind /\ c.inv[i].po = books.inv[i].po
       /\ c.inv[i].sub = books.inv[i].sub
       /\ c.tds[i].live => Issued(books, i)
  /\ \A k \in Payment :
       /\ books.pay[k].st # "none" =>
            c.pay[k].st # "none" /\ c.pay[k].amount = books.pay[k].amount
       /\ books.pay[k].st = "none" =>
            c.pay[k] = books.pay[k] \/ (c.pay[k].st # "none" /\ FreshPayment(k))
       /\ c.pay[k].st = "live" =>
            /\ Issued(books, c.pay[k].inv)
            /\ c.pay[k].rc # NoReceipt => c.rc[c.pay[k].rc].st = "live"

(* A live payment is on an invoice.                                         *)
LEMMA PaidOnInvoice ==
  ASSUME NEW b \in Books
  PROVE  /\ \A k \in Payment : b.pay[k].st = "live" => b.pay[k].inv \in Invoice
         /\ \A k \in Payment : b.pay[k].rc \in Receipt \cup {NoReceipt}
         /\ \A k \in Payment : b.pay[k].amount \in Nat
         /\ NoReceipt \notin Receipt
<1>1. \A k \in Payment : b.pay[k] \in PaymentRow BY DEF Books
<1> QED BY <1>1, BooksAssumption DEF PaymentRow, BooksAssumption

(* Such a request keeps the sums if invoices and receipts add up.           *)
LEMMA CollectsAdds ==
  ASSUME TypeOK, SumInv, NEW c \in Books, Collects(c),
         \A r \in Receipt : ReceiptAddsUp(books, r) => ReceiptAddsUp(c, r),
         \A i \in Invoice : InvoiceAddsUp(books, i) => InvoiceAddsUp(c, i),
         Ask(c, {})
  PROVE  SumInv'
<1>1. books \in Books BY DEF TypeOK
<1>2. Tied(c)
  <2>1. Tied(books) /\ \A i \in Invoice : Issued(books, i) => Issued(c, i)
    BY DEF SumInv, Collects, Issued
  <2>2. \A i \in Invoice : Issued(c, i) => Issued(books, i) BY DEF Collects, Issued
  <2>3. \A k \in Payment : c.pay[k].st = "live" => c.pay[k].inv \in Invoice BY PaidOnInvoice
  <2> QED BY <2>1, <2>2, <2>3 DEF Tied, Collects
<1>3. RevisesTax(c)
  <2>1. \A i \in Invoice : books.inv[i].kind = "tax" => c.inv[i].kind = "tax" BY DEF Collects
  <2>2. \A v \in Revision : c.rev[v] = books.rev[v] BY DEF Collects
  <2> QED BY <1>1, <2>1, <2>2, RevisesAsBefore DEF SumInv
<1>4. Follows(books, c) BY <1>1, SameKind DEF Follows, Collects
<1>5. Grown(c) BY <1>2, <1>3, <1>4 DEF Grown, Collects
<1>6. \A p \in Po : OrderAddsUp(books, p) => OrderAddsUp(c, p)
  <2>1. \A i \in Invoice : DrawsAsBefore(c, i) BY DEF Collects, DrawsAsBefore
  <2> QED BY <1>1, <2>1, OrdersStand DEF Collects
<1>7. AddsUp(c, {}) BY <1>6 DEF AddsUp
<1> QED BY <1>5, <1>7, AskAdds

(* What is paid and the payments change alike.                              *)
LEMMA InvoiceMoves ==
  ASSUME books \in Books, NEW c \in Books, NEW i \in Invoice, Issued(c, i) => Issued(books, i),
         NEW d \in Int, c.inv[i].paid = books.inv[i].paid + d,
         SumOf(PaysOn(c, i), Payment) = SumOf(PaysOn(books, i), Payment) + d,
         Issued(books, i) /\ books.inv[i].tds = (IF books.tds[i].live THEN books.tds[i].amount ELSE 0) =>
           c.inv[i].tds = IF c.tds[i].live THEN c.tds[i].amount ELSE 0
  PROVE  InvoiceAddsUp(books, i) => InvoiceAddsUp(c, i)
BY InvoiceAdds

(* What is left and the payments change opposite.                           *)
LEMMA ReceiptMoves ==
  ASSUME books \in Books, NEW c \in Books, NEW r \in Receipt, NEW d \in Int,
         c.rc[r].st = "live" => /\ books.rc[r].st = "live" /\ c.rc[r].amount = books.rc[r].amount
                                /\ c.rc[r].left = books.rc[r].left - d,
         SumOf(PaysOf(c, r), Payment) = SumOf(PaysOf(books, r), Payment) + d
  PROVE  ReceiptAddsUp(books, r) => ReceiptAddsUp(c, r)
<1>1. books.rc[r].left \in Int
  <2>1. books.rc[r] \in ReceiptRow BY DEF Books
  <2> QED BY <2>1 DEF ReceiptRow
<1>2. SumOf(PaysOf(books, r), Payment) \in Int
  <2>1. PaysOf(books, r) \in [Payment -> Int] BY WholeNumbers
  <2> QED BY <2>1, FiniteRows, SumType
<1> QED BY <1>1, <1>2, ReceiptAdds

(* Sums when one payment changes.                                           *)
LEMMA OnePayment ==
  ASSUME books \in Books, NEW c \in Books, NEW k \in Payment,
         \A j \in Payment \ {k} : c.pay[j] = books.pay[j]
  PROVE  /\ \A i : SumOf(PaysOn(c, i), Payment) =
                     SumOf(PaysOn(books, i), Payment) + (PaysOn(c, i)[k] - PaysOn(books, i)[k])
         /\ \A r : SumOf(PaysOf(c, r), Payment) =
                     SumOf(PaysOf(books, r), Payment) + (PaysOf(c, r)[k] - PaysOf(books, r)[k])
<1>1. ASSUME NEW f \in [Payment -> Int], NEW g \in [Payment -> Int],
             \A j \in Payment \ {k} : f[j] = g[j]
      PROVE  SumOf(g, Payment) = SumOf(f, Payment) + (g[k] - f[k])
  <2>1. SumOf(g, Payment) = SumOf(f, Payment) - f[k] + g[k]
    BY <1>1, FiniteRows, SumChanges
  <2>2. SumOf(f, Payment) \in Int BY FiniteRows, SumType
  <2>3. f[k] \in Int /\ g[k] \in Int OBVIOUS
  <2> QED BY <2>1, <2>2, <2>3
<1>2. ASSUME NEW i
      PROVE  SumOf(PaysOn(c, i), Payment) =
               SumOf(PaysOn(books, i), Payment) + (PaysOn(c, i)[k] - PaysOn(books, i)[k])
  <2>1. \A j \in Payment \ {k} : PaysOn(books, i)[j] = PaysOn(c, i)[j] BY DEF PaysOn
  <2>2. PaysOn(books, i) \in [Payment -> Int] /\ PaysOn(c, i) \in [Payment -> Int]
    BY WholeNumbers
  <2> QED BY <1>1, <2>1, <2>2
<1>3. ASSUME NEW r
      PROVE  SumOf(PaysOf(c, r), Payment) =
               SumOf(PaysOf(books, r), Payment) + (PaysOf(c, r)[k] - PaysOf(books, r)[k])
  <2>1. \A j \in Payment \ {k} : PaysOf(books, r)[j] = PaysOf(c, r)[j] BY DEF PaysOf
  <2>2. PaysOf(books, r) \in [Payment -> Int] /\ PaysOf(c, r) \in [Payment -> Int]
    BY WholeNumbers
  <2> QED BY <1>1, <2>1, <2>2
<1> QED BY <1>2, <1>3

(* apply a payment: only what is paid, the balance and its mark change.     *)
LEMMA PaidMoreColumns ==
  ASSUME NEW row \in InvoiceRow, NEW a
  PROVE  LET new == PaidMore(row, a) IN
         /\ new.kind = row.kind /\ new.po = row.po /\ new.sub = row.sub /\ new.tds = row.tds
         /\ new.paid = row.paid + a
BY DEF PaidMore, Refreshed, InvoiceRow

(* TDS: only what is withheld.                                              *)
LEMMA WithheldColumns ==
  ASSUME NEW row \in InvoiceRow, NEW a
  PROVE  LET new == Withheld(row, a) IN
         /\ new.kind = row.kind /\ new.po = row.po /\ new.sub = row.sub /\ new.paid = row.paid
         /\ new.tds = Floor(row.tds + a)
BY DEF Withheld, Refreshed, InvoiceRow

(* One payment, on invoice i and of receipt o if there is one, counts d     *)
(* more, and the invoice with it.                                           *)
Counts(c, k, i, o, d) ==
  /\ \A j \in Payment \ {k} : c.pay[j] = books.pay[j]
  /\ c.tds = books.tds
  /\ \A j \in Invoice :
       /\ PaysOn(c, j)[k] = PaysOn(books, j)[k] + (IF j = i THEN d ELSE 0)
       /\ c.inv[j].paid = books.inv[j].paid + (IF j = i THEN d ELSE 0)
       /\ c.inv[j].tds = books.inv[j].tds
  /\ \A r \in Receipt : PaysOf(c, r)[k] = PaysOf(books, r)[k] + (IF r = o THEN d ELSE 0)

(* d more of receipt o is used; another receipt stands, adds up or is gone. *)
Uses(c, o, d) ==
  \A r \in Receipt : c.rc[r].st = "live" =>
    \/ ReceiptAddsUp(c, r)
    \/ /\ books.rc[r].st = "live" /\ c.rc[r].amount = books.rc[r].amount
       /\ c.rc[r].left = books.rc[r].left - (IF r = o THEN d ELSE 0)

(* A request that enters or takes back one payment keeps the sums.          *)
LEMMA OnePaymentAdds ==
  ASSUME TypeOK, SumInv, NEW c \in Books, Collects(c), Ask(c, {}),
         NEW k \in Payment, NEW i \in Invoice, NEW o, NEW d \in Int,
         Counts(c, k, i, o, d), Uses(c, o, d)
  PROVE  SumInv'
<1>1. books \in Books BY DEF TypeOK
<1>2. ASSUME NEW j \in Invoice, InvoiceAddsUp(books, j) PROVE InvoiceAddsUp(c, j)
  <2> DEFINE e == IF j = i THEN d ELSE 0
  <2>1. e \in Int OBVIOUS
  <2>2. PaysOn(books, j)[k] \in Int
    <3>1. PaysOn(books, j) \in [Payment -> Int] BY <1>1, WholeNumbers
    <3> QED BY <3>1
  <2>3. SumOf(PaysOn(c, j), Payment) =
          SumOf(PaysOn(books, j), Payment) + (PaysOn(c, j)[k] - PaysOn(books, j)[k])
    BY <1>1, OnePayment DEF Counts
  <2>4. PaysOn(c, j)[k] = PaysOn(books, j)[k] + e /\ c.inv[j].paid = books.inv[j].paid + e
        /\ c.inv[j].tds = books.inv[j].tds /\ c.tds = books.tds
    BY DEF Counts
  <2>5. Issued(c, j) => Issued(books, j) BY DEF Collects, Issued
  <2> HIDE DEF e
  <2>6. PaysOn(c, j)[k] - PaysOn(books, j)[k] = e BY <2>1, <2>2, <2>4
  <2>7. SumOf(PaysOn(c, j), Payment) = SumOf(PaysOn(books, j), Payment) + e BY <2>3, <2>6
  <2> QED BY <1>1, <1>2, <2>1, <2>4, <2>5, <2>7, InvoiceMoves
<1>3. ASSUME NEW r \in Receipt, ReceiptAddsUp(books, r) PROVE ReceiptAddsUp(c, r)
  <2> DEFINE e == IF r = o THEN d ELSE 0
  <2>1. e \in Int OBVIOUS
  <2>2. PaysOf(books, r)[k] \in Int
    <3>1. PaysOf(books, r) \in [Payment -> Int] BY <1>1, WholeNumbers
    <3> QED BY <3>1
  <2>3. SumOf(PaysOf(c, r), Payment) =
          SumOf(PaysOf(books, r), Payment) + (PaysOf(c, r)[k] - PaysOf(books, r)[k])
    BY <1>1, OnePayment DEF Counts
  <2>4. PaysOf(c, r)[k] = PaysOf(books, r)[k] + e BY DEF Counts
  <2>5. \/ ReceiptAddsUp(c, r)
        \/ c.rc[r].st = "live" => /\ books.rc[r].st = "live"
                                  /\ c.rc[r].amount = books.rc[r].amount
                                  /\ c.rc[r].left = books.rc[r].left - e
    BY DEF Uses
  <2> HIDE DEF e
  <2>6. PaysOf(c, r)[k] - PaysOf(books, r)[k] = e BY <2>1, <2>2, <2>4
  <2>7. SumOf(PaysOf(c, r), Payment) = SumOf(PaysOf(books, r), Payment) + e BY <2>3, <2>6
  <2> QED BY <1>1, <1>3, <2>1, <2>5, <2>7, ReceiptMoves
<1> QED BY <1>2, <1>3, CollectsAdds

(* A payment entered on an invoice, of receipt r or stand-alone.            *)
Enters(c, i, k, r, a) ==
  /\ c.po = books.po /\ c.rev = books.rev /\ c.tds = books.tds
  /\ c.inv[i] = PaidMore(books.inv[i], a) /\ \A j \in Invoice \ {i} : c.inv[j] = books.inv[j]
  /\ c.pay[k] = Payments(i, r, a) /\ \A j \in Payment \ {k} : c.pay[j] = books.pay[j]

(* It keeps the sums, if the receipts add up.                               *)
LEMMA EnteredAdds ==
  ASSUME TypeOK, SumInv, NEW i \in Invoice, NEW k \in Payment, NEW a \in Cash,
         NEW r \in Receipt \cup {NoReceipt}, FreshPayment(k), Issued(books, i),
         NEW c \in Books, Ask(c, {}), Enters(c, i, k, r, a),
         \A q \in Receipt : books.rc[q].st = "live" => c.rc[q].st = "live",
         r # NoReceipt => c.rc[r].st = "live",
         Uses(c, r, a)
  PROVE  SumInv'
<1>1. books \in Books BY DEF TypeOK
<1>2. books.inv[i] \in InvoiceRow /\ \A j \in Invoice : books.inv[j].paid \in Int
  BY <1>1 DEF Books, InvoiceRow
<1>3. a \in Int /\ NoReceipt \notin Receipt
  BY BooksAssumption DEF BooksAssumption
<1>4. books.pay[k].st = "none" BY FreshIds
<1>5. /\ c.po = books.po /\ c.rev = books.rev /\ c.tds = books.tds
      /\ c.inv[i] = PaidMore(books.inv[i], a) /\ \A j \in Invoice \ {i} : c.inv[j] = books.inv[j]
      /\ c.pay[k] = Payments(i, r, a) /\ \A j \in Payment \ {k} : c.pay[j] = books.pay[j]
  BY DEF Enters
<1>6. /\ c.inv[i].kind = books.inv[i].kind /\ c.inv[i].po = books.inv[i].po
      /\ c.inv[i].sub = books.inv[i].sub /\ c.inv[i].tds = books.inv[i].tds
      /\ c.inv[i].paid = books.inv[i].paid + a
  BY <1>2, <1>5, PaidMoreColumns
<1>7. /\ c.pay[k].st = "live" /\ c.pay[k].inv = i /\ c.pay[k].rc = r /\ c.pay[k].amount = a
  BY <1>5 DEF Payments
<1>8. Collects(c)
  <2>1. \A j \in Invoice : /\ c.inv[j].kind = books.inv[j].kind /\ c.inv[j].po = books.inv[j].po
                           /\ c.inv[j].sub = books.inv[j].sub
    BY <1>5, <1>6
  <2>2. \A j \in Invoice : c.tds[j].live => Issued(books, j) BY <1>5 DEF SumInv, Tied
  <2>3. \A j \in Payment \ {k} : c.pay[j].st = "live" =>
            /\ Issued(books, c.pay[j].inv)
            /\ c.pay[j].rc # NoReceipt => c.rc[c.pay[j].rc].st = "live"
    BY <1>1, <1>5, PaidOnInvoice DEF SumInv, Tied
  <2> QED BY <1>4, <1>5, <1>7, <2>1, <2>2, <2>3 DEF Collects
<1>9. \A j \in Invoice : PaysOn(c, j)[k] = PaysOn(books, j)[k] + (IF j = i THEN a ELSE 0)
  BY <1>3, <1>4, <1>7 DEF PaysOn
<1>10. \A q \in Receipt : PaysOf(c, q)[k] = PaysOf(books, q)[k] + (IF q = r THEN a ELSE 0)
  BY <1>3, <1>4, <1>7 DEF PaysOf
<1>11. \A j \in Invoice : /\ c.inv[j].paid = books.inv[j].paid + (IF j = i THEN a ELSE 0)
                          /\ c.inv[j].tds = books.inv[j].tds
  BY <1>2, <1>5, <1>6
<1> HIDE DEF Collects
<1>12. Counts(c, k, i, r, a) BY <1>5, <1>9, <1>10, <1>11 DEF Counts
<1> QED BY <1>3, <1>8, <1>12, OnePaymentAdds

(* POST /payments: out of what a received amount holds, or stand-alone.     *)
LEMMA RecordPaymentAdds ==
  ASSUME TypeOK, TypeOK', SumInv, NEW i \in Invoice, NEW k \in Payment, NEW a \in Cash,
         NEW r \in Receipt \cup {NoReceipt}, RecordPayment(i, k, a, r)
  PROVE  SumInv'
<1> DEFINE c == [books EXCEPT !.inv[i] = PaidMore(@, a), !.pay[k] = Payments(i, r, a)]
           d == [books EXCEPT !.inv[i] = PaidMore(@, a), !.pay[k] = Payments(i, r, a),
                              !.rc[r].left = @ - a]
<1>1. books \in Books /\ books.rc \in [Receipt -> ReceiptRow] BY DEF TypeOK, Books
<1>2. FreshPayment(k) /\ Issued(books, i) BY DEF RecordPayment, Payable, Issued
<1>3. a \in Int /\ NoReceipt \notin Receipt
  BY BooksAssumption DEF BooksAssumption
<1>4. \A q \in Receipt : books.rc[q].left \in Int BY <1>1 DEF ReceiptRow
<1>5. CASE r = NoReceipt /\ Ask(c, {})
  <2>1. c \in Books BY <1>5, AskBooks
  <2>2. Enters(c, i, k, r, a) /\ c.rc = books.rc BY <1>1 DEF Books, Enters
  <2> HIDE DEF c
  <2>3. \A q \in Receipt :
          /\ c.rc[q].amount = books.rc[q].amount
          /\ c.rc[q].left = books.rc[q].left - (IF q = r THEN a ELSE 0)
    BY <1>3, <1>4, <1>5, <2>2
  <2>4. Uses(c, r, a) BY <2>2, <2>3 DEF Uses
  <2> QED BY <1>2, <1>5, <2>1, <2>2, <2>4, EnteredAdds
<1>6. CASE r # NoReceipt /\ books.rc[r].st = "live" /\ Ask(d, {})
  <2>1. d \in Books BY <1>6, AskBooks
  <2>2. r \in Receipt BY <1>6
  <2>3. Enters(d, i, k, r, a) /\ d.rc = [books.rc EXCEPT ![r].left = @ - a]
    BY <1>1 DEF Books, Enters
  <2> HIDE DEF d
  <2>4. \A q \in Receipt : /\ d.rc[q].st = books.rc[q].st /\ d.rc[q].amount = books.rc[q].amount
                           /\ d.rc[q].left = books.rc[q].left - (IF q = r THEN a ELSE 0)
    BY <1>1, <1>3, <1>4, <2>2, <2>3 DEF ReceiptRow
  <2>5. d.rc[r].st = "live" BY <1>6, <2>2, <2>4
  <2>6. Uses(d, r, a) BY <2>4 DEF Uses
  <2>7. \A q \in Receipt : books.rc[q].st = "live" => d.rc[q].st = "live" BY <2>4
  <2> QED BY <1>2, <1>6, <2>1, <2>3, <2>5, <2>6, <2>7, EnteredAdds
<1> QED BY <1>5, <1>6 DEF RecordPayment, Asks

(* add_to_received: a received amount of its own, all of it used.           *)
LEMMA RecordReceivedAdds ==
  ASSUME TypeOK, TypeOK', SumInv, NEW i \in Invoice, NEW k \in Payment, NEW a \in Cash,
         NEW r \in Receipt, RecordReceived(i, k, a, r)
  PROVE  SumInv'
<1> DEFINE c == [books EXCEPT !.inv[i] = PaidMore(@, a), !.pay[k] = Payments(i, r, a),
                              !.rc[r] = [st |-> "live", amount |-> a, left |-> 0]]
<1>1. Ask(c, {}) BY DEF RecordReceived, Asks
<1>2. books \in Books /\ c \in Books /\ books.rc \in [Receipt -> ReceiptRow]
  BY <1>1, AskBooks DEF Books
<1>3. FreshPayment(k) /\ Issued(books, i) /\ books.rc[r].st = "none"
  BY DEF RecordReceived, Payable, Issued, FreshReceipt, Unused
<1>4. a \in Int /\ r # NoReceipt
  BY BooksAssumption DEF BooksAssumption
<1>5. /\ Enters(c, i, k, r, a) /\ \A q \in Receipt \ {r} : c.rc[q] = books.rc[q]
      /\ c.rc[r] = [st |-> "live", amount |-> a, left |-> 0]
  BY <1>2 DEF Books, Enters
<1> HIDE DEF c
<1>6. ReceiptAddsUp(c, r)
  <2>1. SumOf(PaysOf(books, r), Payment) = 0
    <3>1. PaysOf(books, r) \in [Payment -> Int] BY <1>2, WholeNumbers
    <3>2. \A j \in Payment : PaysOf(books, r)[j] = 0 BY <1>3, <1>4 DEF PaysOf, SumInv, Tied
    <3> QED BY <3>1, <3>2, FiniteRows, SumOfZeros
  <2>2. PaysOf(books, r)[k] = 0 /\ PaysOf(c, r)[k] = a
    BY <1>3, <1>5, FreshIds DEF PaysOf, Enters, Payments
  <2>3. SumOf(PaysOf(c, r), Payment) =
          SumOf(PaysOf(books, r), Payment) + (PaysOf(c, r)[k] - PaysOf(books, r)[k])
    BY <1>2, <1>5, OnePayment DEF Enters
  <2>4. SumOf(PaysOf(c, r), Payment) = a BY <1>4, <2>1, <2>2, <2>3
  <2>5. c.rc[r].amount = a /\ c.rc[r].left = 0 BY <1>5
  <2> QED BY <1>2, <1>4, <2>4, <2>5, ReceiptAdds
<1>7. \A q \in Receipt : books.rc[q].left \in Int BY <1>2 DEF ReceiptRow
<1>8. Uses(c, r, a) BY <1>5, <1>6, <1>7 DEF Uses
<1>9. /\ \A q \in Receipt : books.rc[q].st = "live" => c.rc[q].st = "live"
      /\ c.rc[r].st = "live"
  BY <1>5
<1> QED BY <1>1, <1>2, <1>3, <1>5, <1>8, <1>9, EnteredAdds

(* DELETE /payments: the money goes back on account, or is gone with its    *)
(* receipt.                                                                 *)
LEMMA ReversePaymentAdds ==
  ASSUME TypeOK, TypeOK', SumInv, NEW k \in Payment, NEW remove \in BOOLEAN,
         ReversePayment(k, remove)
  PROVE  SumInv'
<1> DEFINE pay == books.pay[k]
           e == [books EXCEPT !.inv[pay.inv] = PaidMore(@, -pay.amount), !.pay[k].st = "gone"]
<1>1. books \in Books BY DEF TypeOK
<1>2. /\ pay.st = "live" /\ pay \in PaymentRow /\ pay.inv \in Invoice
      /\ pay.amount \in Nat /\ -pay.amount \in Int /\ NoReceipt \notin Receipt
      /\ pay.rc \in Receipt \cup {NoReceipt}
  BY <1>1, BooksAssumption DEF ReversePayment, Books, PaymentRow, BooksAssumption
<1>3. Issued(books, pay.inv) BY <1>2 DEF SumInv, Tied
<1>4. ASSUME NEW c \in Books, c.inv = e.inv, c.pay = e.pay, c.tds = books.tds, c.po = books.po,
             c.rev = books.rev, Ask(c, {}), Uses(c, pay.rc, -pay.amount),
             \A j \in Payment \ {k} : books.pay[j].st = "live" /\ books.pay[j].rc # NoReceipt =>
               c.rc[books.pay[j].rc].st = "live"
      PROVE  SumInv'
  <2>1. /\ c.inv[pay.inv] = PaidMore(books.inv[pay.inv], -pay.amount)
        /\ \A j \in Invoice \ {pay.inv} : c.inv[j] = books.inv[j]
        /\ c.pay[k] = [pay EXCEPT !.st = "gone"]
        /\ \A j \in Payment \ {k} : c.pay[j] = books.pay[j]
    BY <1>1, <1>2, <1>4 DEF Books
  <2>2. \A j \in Invoice : books.inv[j] \in InvoiceRow /\ books.inv[j].paid \in Int
    BY <1>1 DEF Books, InvoiceRow
  <2>3. /\ c.pay[k].st = "gone" /\ c.pay[k].inv = pay.inv /\ c.pay[k].rc = pay.rc
        /\ c.pay[k].amount = pay.amount
    BY <1>2, <2>1 DEF PaymentRow
  <2> DEFINE i == pay.inv  d == -pay.amount
  <2>4. /\ c.inv[i].kind = books.inv[i].kind /\ c.inv[i].po = books.inv[i].po
        /\ c.inv[i].sub = books.inv[i].sub /\ c.inv[i].tds = books.inv[i].tds
        /\ c.inv[i].paid = books.inv[i].paid + d
    <3>1. books.inv[i] \in InvoiceRow BY <1>2, <2>2
    <3>2. c.inv[i] = PaidMore(books.inv[i], d) BY <2>1
    <3> HIDE DEF i, d
    <3> QED BY <3>1, <3>2, PaidMoreColumns
  <2>5. i \in Invoice /\ d \in Int /\ \A j \in Invoice \ {i} : c.inv[j] = books.inv[j]
    BY <1>2, <2>1
  <2>6. Collects(c)
    <3>1. \A j \in Invoice : /\ c.inv[j].kind = books.inv[j].kind /\ c.inv[j].po = books.inv[j].po
                             /\ c.inv[j].sub = books.inv[j].sub
      BY <2>4, <2>5
    <3>2. \A j \in Invoice : c.tds[j].live => Issued(books, j) BY <1>4 DEF SumInv, Tied
    <3>3. \A j \in Payment : c.pay[j].st = "live" =>
            /\ Issued(books, c.pay[j].inv)
            /\ c.pay[j].rc # NoReceipt => c.rc[c.pay[j].rc].st = "live"
      BY <1>4, <2>1, <2>3 DEF SumInv, Tied
    <3> QED BY <1>2, <1>4, <2>1, <2>3, <3>1, <3>2, <3>3 DEF Collects
  <2>7. \A j \in Invoice : PaysOn(c, j)[k] = PaysOn(books, j)[k] + (IF j = i THEN d ELSE 0)
    BY <1>2, <2>3 DEF PaysOn
  <2>8. \A q \in Receipt : PaysOf(c, q)[k] = PaysOf(books, q)[k] + (IF q = pay.rc THEN d ELSE 0)
    BY <1>2, <2>3 DEF PaysOf
  <2>9. \A j \in Invoice : /\ c.inv[j].paid = books.inv[j].paid + (IF j = i THEN d ELSE 0)
                           /\ c.inv[j].tds = books.inv[j].tds
    BY <2>2, <2>4, <2>5
  <2>10. Counts(c, k, i, pay.rc, d) BY <1>4, <2>1, <2>7, <2>8, <2>9 DEF Counts
  <2>11. Uses(c, pay.rc, d) BY <1>4
  <2> HIDE DEF i, d
  <2> QED BY <1>4, <2>5, <2>6, <2>10, <2>11, OnePaymentAdds
<1>5. books.rc \in [Receipt -> ReceiptRow] /\ \A q \in Receipt : books.rc[q].left \in Int
  BY <1>1 DEF Books, ReceiptRow
<1>6. /\ e.tds = books.tds /\ e.po = books.po /\ e.rev = books.rev /\ e.rc = books.rc
      /\ \A rc : LET f == [e EXCEPT !.rc = rc] IN
           /\ f.inv = e.inv /\ f.pay = e.pay /\ f.tds = books.tds /\ f.po = books.po
           /\ f.rev = books.rev /\ f.rc = rc
  BY <1>1 DEF Books
<1>7. \A j \in Payment : books.pay[j].st = "live" /\ books.pay[j].rc # NoReceipt =>
        books.rc[books.pay[j].rc].st = "live" /\ books.pay[j].rc \in Receipt
  BY <1>1, PaidOnInvoice DEF SumInv, Tied
<1>8. CASE pay.rc = NoReceipt /\ Ask(e, {})
  <2>1. e \in Books BY <1>8, AskBooks
  <2>2. Uses(e, pay.rc, -pay.amount) BY <1>2, <1>5, <1>6, <1>8 DEF Uses
  <2> HIDE DEF e
  <2> QED BY <1>4, <1>6, <1>7, <1>8, <2>1, <2>2
<1>9. CASE pay.rc # NoReceipt /\ Ask([e EXCEPT !.rc[pay.rc] = PutBack(@, pay.amount)], {})
  <2> DEFINE rc == [books.rc EXCEPT ![pay.rc] = PutBack(@, pay.amount)]
             f == [e EXCEPT !.rc = rc]
  <2>1. f = [e EXCEPT !.rc[pay.rc] = PutBack(@, pay.amount)] BY <1>1 DEF Books
  <2>2. Ask(f, {}) BY <1>9, <2>1
  <2>3. f \in Books BY <2>2, AskBooks
  <2>4. /\ f.inv = e.inv /\ f.pay = e.pay /\ f.tds = books.tds /\ f.po = books.po
        /\ f.rev = books.rev /\ f.rc = rc
    BY <1>6
  <2>5. \A q \in Receipt : /\ rc[q].st = books.rc[q].st /\ rc[q].amount = books.rc[q].amount
                           /\ rc[q].left = books.rc[q].left - (IF q = pay.rc THEN -pay.amount ELSE 0)
    BY <1>2, <1>5, <1>9 DEF PutBack, ReceiptRow
  <2> HIDE DEF f, rc, e
  <2>6. Uses(f, pay.rc, -pay.amount) BY <2>4, <2>5 DEF Uses
  <2>7. \A j \in Payment : books.pay[j].st = "live" /\ books.pay[j].rc # NoReceipt =>
          f.rc[books.pay[j].rc].st = "live"
    BY <1>7, <2>4, <2>5
  <2> QED BY <1>4, <2>2, <2>3, <2>4, <2>6, <2>7
<1>10. CASE pay.rc # NoReceipt /\ PaymentsOf(books, pay.rc) = {k}
            /\ Ask([e EXCEPT !.rc[pay.rc].st = "gone"], {})
  <2> DEFINE rc == [books.rc EXCEPT ![pay.rc].st = "gone"]
             f == [e EXCEPT !.rc = rc]
  <2>1. f = [e EXCEPT !.rc[pay.rc].st = "gone"] BY <1>1 DEF Books
  <2>2. Ask(f, {}) BY <1>10, <2>1
  <2>3. f \in Books BY <2>2, AskBooks
  <2>4. /\ f.inv = e.inv /\ f.pay = e.pay /\ f.tds = books.tds /\ f.po = books.po
        /\ f.rev = books.rev /\ f.rc = rc
    BY <1>6
  <2>5. \A q \in Receipt : IF q = pay.rc THEN rc[q].st = "gone" ELSE rc[q] = books.rc[q]
    BY <1>5 DEF ReceiptRow
  <2>6. \A j \in Payment \ {k} : books.pay[j].st = "live" => books.pay[j].rc # pay.rc
    BY <1>10 DEF PaymentsOf
  <2> HIDE DEF f, rc, e
  <2>7. Uses(f, pay.rc, -pay.amount) BY <1>5, <2>4, <2>5 DEF Uses
  <2>8. \A j \in Payment \ {k} : books.pay[j].st = "live" /\ books.pay[j].rc # NoReceipt =>
          f.rc[books.pay[j].rc].st = "live"
    BY <1>7, <2>4, <2>5, <2>6
  <2> QED BY <1>4, <2>2, <2>3, <2>4, <2>7, <2>8
<1> QED BY <1>8, <1>9, <1>10 DEF ReversePayment, Asks

(* TDS that is entered or taken back on one invoice keeps the sums.         *)
LEMMA WithheldAdds ==
  ASSUME TypeOK, SumInv, NEW c \in Books, NEW i \in Invoice, NEW a, Ask(c, {}),
         c.pay = books.pay, c.rc = books.rc, c.po = books.po, c.rev = books.rev,
         Issued(books, i), c.inv[i] = Withheld(books.inv[i], a),
         \A j \in Invoice \ {i} : c.inv[j] = books.inv[j] /\ c.tds[j] = books.tds[j],
         books.inv[i].tds = (IF books.tds[i].live THEN books.tds[i].amount ELSE 0) =>
           Floor(books.inv[i].tds + a) = IF c.tds[i].live THEN c.tds[i].amount ELSE 0
  PROVE  SumInv'
<1>1. books \in Books BY DEF TypeOK
<1>2. books.inv[i] \in InvoiceRow BY <1>1 DEF Books
<1>3. /\ c.inv[i].kind = books.inv[i].kind /\ c.inv[i].po = books.inv[i].po
      /\ c.inv[i].sub = books.inv[i].sub /\ c.inv[i].paid = books.inv[i].paid
      /\ c.inv[i].tds = Floor(books.inv[i].tds + a)
  BY <1>2, WithheldColumns
<1>4. \A r \in Receipt : ReceiptAddsUp(books, r) => ReceiptAddsUp(c, r)
  BY <1>1, PaymentsStand
<1>5. \A j \in Invoice \ {i} : InvoiceAddsUp(books, j) => InvoiceAddsUp(c, j)
  BY <1>1, PaymentsStand DEF Issued
<1>6. InvoiceAddsUp(books, i) => InvoiceAddsUp(c, i)
  <2>1. PaysOn(c, i) = PaysOn(books, i) BY DEF PaysOn
  <2> QED BY <1>1, <1>3, <2>1, InvoiceAdds
<1>7. Collects(c)
  <2>1. \A j \in Invoice : /\ c.inv[j].kind = books.inv[j].kind /\ c.inv[j].po = books.inv[j].po
                           /\ c.inv[j].sub = books.inv[j].sub
    BY <1>3
  <2>2. \A j \in Invoice : c.tds[j].live => Issued(books, j) BY DEF SumInv, Tied
  <2> QED BY <2>1, <2>2 DEF Collects, SumInv, Tied
<1>8. \A j \in Invoice : InvoiceAddsUp(books, j) => InvoiceAddsUp(c, j) BY <1>5, <1>6
<1> QED BY <1>4, <1>7, <1>8, CollectsAdds

(* services/tds.py book.                                                    *)
LEMMA RecordTdsAdds ==
  ASSUME TypeOK, TypeOK', SumInv, NEW i \in Invoice, NEW a \in Cash, RecordTds(i, a)
  PROVE  SumInv'
<1> DEFINE c == [books EXCEPT !.inv[i] = Withheld(@, a), !.tds[i] = Tds(a, NoReceipt)]
<1>1. Ask(c, {}) /\ Issued(books, i) /\ ~books.tds[i].live
  BY DEF RecordTds, Payable, Issued, Asks
<1>2. books \in Books /\ c \in Books BY <1>1, AskBooks
<1>3. a \in Nat \ {0} BY BooksAssumption DEF BooksAssumption
<1>4. /\ c.pay = books.pay /\ c.rc = books.rc /\ c.po = books.po /\ c.rev = books.rev
      /\ c.inv[i] = Withheld(books.inv[i], a)
      /\ \A j \in Invoice \ {i} : c.inv[j] = books.inv[j] /\ c.tds[j] = books.tds[j]
      /\ c.tds[i] = Tds(a, NoReceipt)
  BY <1>2 DEF Books
<1>5. books.inv[i].tds = 0 =>
        Floor(books.inv[i].tds + a) = IF c.tds[i].live THEN c.tds[i].amount ELSE 0
  BY <1>3, <1>4 DEF Floor, Tds
<1> HIDE DEF c
<1> QED BY <1>1, <1>2, <1>4, <1>5, WithheldAdds

(* services/tds.py unbook.                                                  *)
LEMMA DeleteTdsAdds ==
  ASSUME TypeOK, TypeOK', SumInv, NEW i \in Invoice, DeleteTds(i)
  PROVE  SumInv'
<1> DEFINE a == -books.tds[i].amount
           c == [books EXCEPT !.inv[i] = Withheld(@, a), !.tds[i] = NoTds]
<1>1. Ask(c, {}) /\ books.tds[i].live BY DEF DeleteTds, Asks
<1>2. books \in Books /\ c \in Books BY <1>1, AskBooks
<1>3. Issued(books, i) BY <1>1 DEF SumInv, Tied
<1>4. books.tds[i].amount \in Nat BY <1>2 DEF Books, TdsRow
<1>5. /\ c.pay = books.pay /\ c.rc = books.rc /\ c.po = books.po /\ c.rev = books.rev
      /\ c.inv[i] = Withheld(books.inv[i], a)
      /\ \A j \in Invoice \ {i} : c.inv[j] = books.inv[j] /\ c.tds[j] = books.tds[j]
      /\ c.tds[i] = NoTds
  BY <1>2 DEF Books
<1>6. books.inv[i].tds = books.tds[i].amount =>
        Floor(books.inv[i].tds + a) = IF c.tds[i].live THEN c.tds[i].amount ELSE 0
  BY <1>4, <1>5 DEF Floor, NoTds
<1> HIDE DEF c, a
<1> QED BY <1>1, <1>2, <1>3, <1>5, <1>6, WithheldAdds

(* update_receipt: what is left follows the new amount.                     *)
LEMMA UpdateReceiptAdds ==
  ASSUME TypeOK, TypeOK', SumInv, NEW r \in Receipt, NEW a \in Cash, UpdateReceipt(r, a)
  PROVE  SumInv'
<1> DEFINE applied == PaidSum(books, PaymentsOf(books, r))
           c == [books EXCEPT !.rc[r].amount = a, !.rc[r].left = a - applied]
<1>1. Ask(c, {}) /\ books.rc[r].st = "live"
  BY DEF UpdateReceipt, PaidSum, MapThenSumSet, MapThenFoldSet, Asks
<1> HIDE DEF applied
<1>2. books \in Books /\ c \in Books BY <1>1, AskBooks
<1>3. a \in Nat BY BooksAssumption DEF BooksAssumption
<1>4. /\ c.pay = books.pay /\ c.tds = books.tds /\ c.po = books.po /\ c.rev = books.rev
      /\ c.inv = books.inv
      /\ c.rc = [books.rc EXCEPT ![r].amount = a, ![r].left = a - applied]
      /\ books.rc \in [Receipt -> ReceiptRow]
  BY <1>2 DEF Books
<1> HIDE DEF c
<1>5. /\ \A q \in Receipt \ {r} : c.rc[q] = books.rc[q]
      /\ \A q \in Receipt : c.rc[q].st = books.rc[q].st
      /\ c.rc[r].amount = a /\ c.rc[r].left = a - applied
  BY <1>4 DEF ReceiptRow
<1>6. ReceiptAddsUp(c, r)
  <2>1. PaymentsOf(c, r) = PaymentsOf(books, r) /\ Amounts(c) = Amounts(books)
    BY <1>4 DEF PaymentsOf, Amounts
  <2>2. applied = SumOf(Amounts(c), PaymentsOf(c, r))
    BY <2>1, PaidIsSum DEF applied, PaymentsOf
  <2>3. applied \in Int
    <3>1. Amounts(c) \in [Payment -> Int] /\ PaymentsOf(c, r) \in SUBSET Payment
      BY <1>2, WholeNumbers DEF PaymentsOf
    <3> QED BY <2>2, <3>1, FiniteRows, SumType
  <2>4. a = (a - applied) + applied BY <1>3, <2>3
  <2> QED BY <1>5, <2>2, <2>4, ReceiptSum
<1>7. \A q \in Receipt : ReceiptAddsUp(books, q) => ReceiptAddsUp(c, q)
  BY <1>2, <1>4, <1>5, <1>6, PaymentsStand
<1>8. \A i \in Invoice : InvoiceAddsUp(books, i) => InvoiceAddsUp(c, i)
  BY <1>2, <1>4, PaymentsStand DEF Issued
<1>9. Collects(c)
  <2>1. \A k \in Payment : books.pay[k].rc \in Receipt \cup {NoReceipt} BY <1>2, PaidOnInvoice
  <2> QED BY <1>4, <1>5, <2>1 DEF Collects, SumInv, Tied
<1> QED BY <1>1, <1>2, <1>7, <1>8, <1>9, CollectsAdds

------------------------------------------------------------------------------
(* Mapping a received amount to invoices.                                   *)

(* Rows F become payments of r, one on each invoice that take pays; w is    *)
(* withheld where nothing was.                                              *)
Settles(c, r, S, w, take, F, o) ==
  /\ c.po = books.po /\ c.rev = books.rev
  /\ c.rc[r].st = "live" /\ \A q \in Receipt \ {r} : c.rc[q] = books.rc[q]
  /\ \A i \in S : Issued(books, i)
  /\ \A i \in Invoice \ S : c.inv[i] = books.inv[i] /\ c.tds[i] = books.tds[i]
  /\ \A i \in S : c.inv[i] = WithCash(WithTds(books.inv[i], w[i]), take[i])
  /\ \A i \in S : IF w[i] > 0 THEN c.tds[i] = Tds(w[i], r) /\ ~books.tds[i].live
                              ELSE c.tds[i] = books.tds[i]
  /\ F \in SUBSET Payment /\ o \in Bijection(F, Paying(take))
  /\ \A k \in F : FreshPayment(k) /\ c.pay[k] = Payments(o[k], r, take[o[k]])
  /\ \A k \in Payment \ F : c.pay[k] = books.pay[k]

(* What is paid and withheld goes up by what was entered.                   *)
LEMMA SettledColumns ==
  ASSUME NEW row \in InvoiceRow, NEW a \in Nat, NEW d \in Nat
  PROVE  LET new == WithCash(WithTds(row, a), d) IN
         /\ new.kind = row.kind /\ new.po = row.po /\ new.sub = row.sub
         /\ new.paid = row.paid + d /\ new.tds = row.tds + a
<1> DEFINE mid == WithTds(row, a)
           new == WithCash(mid, d)
<1>1. row.paid \in Int /\ row.tds \in Nat /\ row.sub \in Base BY DEF InvoiceRow
<1>2. /\ mid.kind = row.kind /\ mid.po = row.po /\ mid.sub = row.sub
      /\ mid.paid = row.paid /\ mid.tds = row.tds + a
  <2>1. CASE a > 0 BY <1>1, <2>1, WithheldColumns DEF WithTds, Floor
  <2>2. CASE ~(a > 0) BY <1>1, <2>2 DEF WithTds
  <2> QED BY <2>1, <2>2
<1>3. CASE d > 0
  <2>1. new = PaidMore(mid, d) BY <1>3 DEF WithCash
  <2>2. new = [mid EXCEPT !.paid = @ + d, !.balance = Floor(Due([mid EXCEPT !.paid = @ + d])),
                          !.credit = FALSE]
    BY <2>1 DEF PaidMore, Refreshed
  <2>3. DOMAIN mid = DOMAIN row
    BY DEF WithTds, Withheld, Refreshed
  <2>4. DOMAIN row = {"kind", "sub", "po", "paid", "tds", "balance", "open", "credit"}
    BY DEF InvoiceRow
  <2>5. new.kind = mid.kind /\ new.po = mid.po /\ new.sub = mid.sub /\ new.tds = mid.tds
        /\ new.paid = mid.paid + d
    <3> HIDE DEF mid
    <3> QED BY <2>2, <2>3, <2>4
  <2> HIDE DEF new, mid
  <2> QED BY <1>2, <2>5 DEF new, mid
<1>4. CASE ~(d > 0)
  <2>1. new = mid /\ row.paid + d = row.paid BY <1>1, <1>4 DEF WithCash
  <2> QED BY <1>2, <2>1
<1> QED BY <1>3, <1>4

(* The rows it enters were not there.                                       *)
LEMMA SettledRows ==
  ASSUME NEW c, NEW r, NEW S, NEW w, NEW take, NEW F, NEW o, Settles(c, r, S, w, take, F, o)
  PROVE  /\ F \in SUBSET Payment /\ o \in Bijection(F, Paying(take))
         /\ \A k \in F : /\ books.pay[k].st = "none"
                         /\ c.pay[k].st = "live" /\ c.pay[k].inv = o[k] /\ c.pay[k].rc = r
                         /\ c.pay[k].amount = take[o[k]]
         /\ \A k \in Payment \ F : c.pay[k] = books.pay[k]
<1>1. F \in SUBSET Payment BY DEF Settles
<1>2. \A k \in F : FreshPayment(k) /\ c.pay[k] = Payments(o[k], r, take[o[k]]) BY DEF Settles
<1>3. \A k \in F : books.pay[k].st = "none" BY <1>1, <1>2, FreshIds
<1>4. o \in Bijection(F, Paying(take)) /\ \A k \in Payment \ F : c.pay[k] = books.pay[k]
  BY DEF Settles
<1>5. \A k \in F : LET row == Payments(o[k], r, take[o[k]]) IN
        /\ row.st = "live" /\ row.inv = o[k] /\ row.rc = r /\ row.amount = take[o[k]]
  BY DEF Payments
<1> QED BY ONLY <1>1, <1>2, <1>3, <1>4, <1>5

(* Every invoice it pays counts its payment.                                *)
LEMMA SettledInvoices ==
  ASSUME books \in Books, NEW c \in Books, NEW r \in Receipt, NEW S \in SUBSET Invoice,
         NEW w \in [S -> Nat], NEW take \in [S -> Nat], NEW F, NEW o,
         Settles(c, r, S, w, take, F, o),
         NEW j \in Invoice
  PROVE  InvoiceAddsUp(books, j) => InvoiceAddsUp(c, j)
<1>1. /\ o \in [F -> Paying(take)] /\ Paying(take) \subseteq S /\ F \in SUBSET Payment
      /\ \A k, l \in F : o[k] = o[l] => k = l
      /\ \A i \in Paying(take) : \E k \in F : o[k] = i
  BY DEF Settles, Bijection, Injection, Surjection, IsInjective, Paying
<1>2. \A k \in F : /\ books.pay[k].st = "none"
                   /\ c.pay[k].st = "live" /\ c.pay[k].inv = o[k] /\ c.pay[k].amount = take[o[k]]
  BY SettledRows
<1>3. \A k \in Payment \ F : c.pay[k] = books.pay[k] BY SettledRows
<1>4. books.inv[j] \in InvoiceRow BY DEF Books
<1>5. PaysOn(books, j) \in [Payment -> Int] /\ PaysOn(c, j) \in [Payment -> Int]
  BY WholeNumbers
<1>6. SumOf(PaysOn(books, j), Payment) \in Int BY <1>5, FiniteRows, SumType
<1>7. CASE j \notin S
  <2>1. PaysOn(c, j) = PaysOn(books, j)
    <3>1. \A k \in F : PaysOn(c, j)[k] = 0 /\ PaysOn(books, j)[k] = 0
      BY <1>1, <1>2, <1>7 DEF PaysOn
    <3>2. \A k \in Payment \ F : PaysOn(c, j)[k] = PaysOn(books, j)[k] BY <1>3 DEF PaysOn
    <3> QED BY <1>5, <3>1, <3>2
  <2>2. c.inv[j] = books.inv[j] /\ c.tds[j] = books.tds[j] BY <1>7 DEF Settles
  <2> QED BY <2>1, <2>2, InvoiceAdds DEF Issued
<1>8. CASE j \in S
  <2>1. take[j] \in Nat /\ w[j] \in Nat BY <1>8
  <2>2. SumOf(PaysOn(c, j), Payment) = SumOf(PaysOn(books, j), Payment) + take[j]
    <3>1. CASE take[j] > 0
      <4>1. PICK k \in F : o[k] = j BY <1>1, <1>8, <3>1 DEF Paying
      <4>2. PaysOn(books, j)[k] = 0 /\ PaysOn(c, j)[k] = take[j]
        BY <1>1, <1>2, <4>1 DEF PaysOn
      <4>3. \A l \in Payment \ {k} : PaysOn(books, j)[l] = PaysOn(c, j)[l]
        <5>1. \A l \in F \ {k} : PaysOn(c, j)[l] = 0 /\ PaysOn(books, j)[l] = 0
          BY <1>1, <1>2, <4>1 DEF PaysOn
        <5>2. \A l \in Payment \ F : PaysOn(c, j)[l] = PaysOn(books, j)[l] BY <1>3 DEF PaysOn
        <5> QED BY <5>1, <5>2
      <4>4. k \in Payment BY <1>1, <4>1
      <4>5. SumOf(PaysOn(c, j), Payment) =
              SumOf(PaysOn(books, j), Payment) - PaysOn(books, j)[k] + PaysOn(c, j)[k]
        BY <1>5, <4>3, <4>4, FiniteRows, SumChanges
      <4> QED BY <1>6, <2>1, <4>2, <4>5
    <3>2. CASE ~(take[j] > 0)
      <4>1. PaysOn(c, j) = PaysOn(books, j)
        <5>1. \A k \in F : PaysOn(c, j)[k] = 0 /\ PaysOn(books, j)[k] = 0
          BY <1>1, <1>2, <3>2 DEF PaysOn, Paying
        <5>2. \A k \in Payment \ F : PaysOn(c, j)[k] = PaysOn(books, j)[k] BY <1>3 DEF PaysOn
        <5> QED BY <1>5, <5>1, <5>2
      <4> QED BY <1>6, <2>1, <3>2, <4>1
    <3> QED BY <3>1, <3>2
  <2>3. c.inv[j] = WithCash(WithTds(books.inv[j], w[j]), take[j]) BY <1>8 DEF Settles
  <2>4. c.inv[j].paid = books.inv[j].paid + take[j] /\ c.inv[j].tds = books.inv[j].tds + w[j]
    BY <1>4, <2>1, <2>3, SettledColumns
  <2>5. Issued(books, j) BY <1>8 DEF Settles
  <2>6. books.inv[j].tds = (IF books.tds[j].live THEN books.tds[j].amount ELSE 0) =>
          c.inv[j].tds = IF c.tds[j].live THEN c.tds[j].amount ELSE 0
    <3>1. books.inv[j].tds \in Nat BY <1>4 DEF InvoiceRow
    <3>2. CASE w[j] > 0
      <4>1. c.tds[j] = Tds(w[j], r) /\ ~books.tds[j].live BY <1>8, <3>2 DEF Settles
      <4>2. c.tds[j].live /\ c.tds[j].amount = w[j] BY <4>1 DEF Tds
      <4> QED BY <2>1, <2>4, <4>1, <4>2
    <3>3. CASE ~(w[j] > 0)
      <4>1. c.tds[j] = books.tds[j] BY <1>8, <3>3 DEF Settles
      <4> QED BY <2>1, <2>4, <3>1, <3>3, <4>1
    <3> QED BY <3>2, <3>3
  <2> QED BY <2>1, <2>2, <2>4, <2>5, <2>6, InvoiceMoves
<1> QED BY <1>7, <1>8

(* Sums of what is taken.                                                   *)
LEMMA TakenSum == ASSUME NEW take, NEW S PROVE Sum(take, S) = SumOf(take, S)
BY DEF Sum, SumOf, MapThenSumSet, MapThenFoldSet

(* The receipt has as much more payments as it pays.                        *)
LEMMA SettledReceipt ==
  ASSUME books \in Books, NEW c \in Books, NEW r \in Receipt, NEW S \in SUBSET Invoice,
         NEW w, NEW take \in [S -> Nat], NEW F, NEW o, Settles(c, r, S, w, take, F, o)
  PROVE  SumOf(PaysOf(c, r), Payment) = SumOf(PaysOf(books, r), Payment) + Sum(take, S)
<1> DEFINE f == PaysOf(books, r)  g == PaysOf(c, r)  R == Payment \ F  T == Paying(take)
<1>1. F \in SUBSET Payment /\ o \in Bijection(F, T) BY DEF Settles
<1>2. o \in [F -> T] /\ T \subseteq S BY <1>1 DEF Bijection, Injection, Paying
<1>3. f \in [Payment -> Int] /\ g \in [Payment -> Int] BY WholeNumbers
<1>4. \A k \in F : f[k] = 0 /\ g[k] = take[o[k]]
  BY <1>1, SettledRows DEF PaysOf
<1>5. \A k \in R : g[k] = f[k] BY SettledRows DEF PaysOf
<1>6. \A i \in S \ T : take[i] = 0 BY DEF Paying
<1> HIDE DEF f, g, R, T
<1>7. /\ R \in SUBSET Payment /\ F \cup R = Payment /\ F \cap R = {}
      /\ \A k \in Payment \ R : k \in F
  BY <1>1 DEF R
<1>8. SumOf(g, Payment) = SumOf(g, F) + SumOf(g, R)
  <2>1. SumOf(g, F \cup R) = SumOf(g, F) + SumOf(g, R)
    BY <1>1, <1>3, <1>7, FiniteRows, SumOfUnion
  <2> QED BY <1>7, <2>1
<1>9. SumOf(g, R) = SumOf(f, Payment)
  <2>1. (\A k \in R : f[k] = g[k]) /\ (\A k \in Payment \ R : f[k] = 0) BY <1>4, <1>5, <1>7
  <2> QED BY <1>3, <1>7, <2>1, FiniteRows, SumOfPart
<1>10. SumOf(g, F) = SumOf(take, S)
  <2>1. IsFiniteSet(S) /\ IsFiniteSet(T) /\ IsFiniteSet(F)
    BY <1>1, <1>2, FiniteRows
  <2>2. take \in [S -> Int] OBVIOUS
  <2> DEFINE part == [i \in T |-> take[i]]
             paid == [k \in F |-> part[o[k]]]
  <2>3. part \in [T -> Int] /\ \A i \in T : part[i] = take[i] BY <1>2, <2>2
  <2>4. \A k \in F : g[k] = paid[k] BY <1>2, <1>4, <2>3
  <2> HIDE DEF part
  <2>5. SumOf(paid, F) = SumOf(part, T) BY <1>1, <2>1, <2>3, SumOfImage
  <2> HIDE DEF paid
  <2>6. SumOf(g, F) = SumOf(paid, F) BY <2>1, <2>4, SumSame
  <2>7. SumOf(part, T) = SumOf(take, T) BY <2>1, <2>3, SumSame
  <2>8. SumOf(take, T) = SumOf(take, S) BY <1>2, <1>6, <2>1, <2>2, SumOfPart
  <2> QED BY <2>5, <2>6, <2>7, <2>8
<1>11. SumOf(take, S) \in Int /\ SumOf(f, Payment) \in Int
  <2>1. IsFiniteSet(S) /\ take \in [S -> Int] BY FiniteRows
  <2>2. SumOf(take, S) \in Int BY <2>1, SumType
  <2> QED BY <1>3, <2>2, FiniteRows, SumType
<1>12. SumOf(g, Payment) = SumOf(f, Payment) + Sum(take, S) BY <1>8, <1>9, <1>10, <1>11, TakenSum
<1> QED BY <1>12 DEF f, g

(* Mapping keeps the sums, if the receipt adds up.                          *)
LEMMA SettledAdds ==
  ASSUME TypeOK, SumInv, NEW c \in Books, NEW r \in Receipt, NEW S \in SUBSET Invoice,
         NEW w \in [S -> Nat], NEW take \in [S -> Nat], NEW F, NEW o,
         Settles(c, r, S, w, take, F, o), Ask(c, {}),
         ReceiptAddsUp(books, r) => ReceiptAddsUp(c, r)
  PROVE  SumInv'
<1>1. books \in Books BY DEF TypeOK
<1>2. \A j \in Invoice : InvoiceAddsUp(books, j) => InvoiceAddsUp(c, j)
  BY <1>1, SettledInvoices
<1>3. /\ F \in SUBSET Payment /\ o \in Bijection(F, Paying(take))
      /\ \A k \in F : /\ books.pay[k].st = "none"
                      /\ c.pay[k].st = "live" /\ c.pay[k].inv = o[k] /\ c.pay[k].rc = r
      /\ \A k \in Payment \ F : c.pay[k] = books.pay[k]
  BY SettledRows
<1>4. \A k \in F : o[k] \in S BY <1>3 DEF Bijection, Injection, Paying
<1>5. /\ c.po = books.po /\ c.rev = books.rev
      /\ c.rc[r].st = "live" /\ \A q \in Receipt \ {r} : c.rc[q] = books.rc[q]
      /\ \A i \in S : Issued(books, i)
      /\ \A i \in Invoice \ S : c.inv[i] = books.inv[i] /\ c.tds[i] = books.tds[i]
      /\ \A k \in F : FreshPayment(k)
  BY DEF Settles
<1>6. \A i \in S : c.inv[i] = WithCash(WithTds(books.inv[i], w[i]), take[i]) BY DEF Settles
<1>7. ASSUME NEW q \in Receipt, q # r, ReceiptAddsUp(books, q) PROVE ReceiptAddsUp(c, q)
  <2>1. PaysOf(c, q) = PaysOf(books, q)
    <3>1. \A k \in F : PaysOf(c, q)[k] = 0 /\ PaysOf(books, q)[k] = 0
      BY <1>3, <1>7 DEF PaysOf
    <3>2. \A k \in Payment \ F : PaysOf(c, q)[k] = PaysOf(books, q)[k] BY <1>3 DEF PaysOf
    <3>3. PaysOf(c, q) \in [Payment -> Int] /\ PaysOf(books, q) \in [Payment -> Int]
      BY <1>1, WholeNumbers
    <3> QED BY <3>1, <3>2, <3>3
  <2>2. c.rc[q] = books.rc[q] BY <1>5, <1>7
  <2> QED BY <1>1, <1>7, <2>1, <2>2, ReceiptAdds
<1>8. Collects(c)
  <2>1. ASSUME NEW i \in Invoice
        PROVE  /\ c.inv[i].kind = books.inv[i].kind /\ c.inv[i].po = books.inv[i].po
               /\ c.inv[i].sub = books.inv[i].sub
               /\ c.tds[i].live => Issued(books, i)
    <3>1. CASE i \in S
      <4>1. books.inv[i] \in InvoiceRow BY <1>1 DEF Books
      <4>2. w[i] \in Nat /\ take[i] \in Nat BY <3>1
      <4>3. c.inv[i] = WithCash(WithTds(books.inv[i], w[i]), take[i]) BY <1>6, <3>1
      <4> QED BY <1>5, <3>1, <4>1, <4>2, <4>3, SettledColumns
    <3>2. CASE i \notin S BY <1>5, <3>2 DEF SumInv, Tied
    <3> QED BY <3>1, <3>2
  <2>2. ASSUME NEW k \in Payment, c.pay[k].st = "live"
        PROVE  /\ Issued(books, c.pay[k].inv)
               /\ c.pay[k].rc # NoReceipt => c.rc[c.pay[k].rc].st = "live"
    <3>1. CASE k \in F BY <1>3, <1>4, <1>5, <3>1
    <3>2. CASE k \notin F
      <4>1. c.pay[k] = books.pay[k] /\ books.pay[k].rc \in Receipt \cup {NoReceipt}
        BY <1>1, <1>3, <3>2, PaidOnInvoice
      <4> QED BY <1>5, <2>2, <4>1 DEF SumInv, Tied
    <3> QED BY <3>1, <3>2
  <2>3. \A k \in Payment :
          /\ books.pay[k].st # "none" =>
               c.pay[k].st # "none" /\ c.pay[k].amount = books.pay[k].amount
          /\ books.pay[k].st = "none" =>
               c.pay[k] = books.pay[k] \/ (c.pay[k].st # "none" /\ FreshPayment(k))
    BY <1>3, <1>5
  <2> QED BY <1>5, <2>1, <2>2, <2>3 DEF Collects
<1>9. \A q \in Receipt : ReceiptAddsUp(books, q) => ReceiptAddsUp(c, q) BY <1>7
<1> QED BY <1>2, <1>8, <1>9, CollectsAdds

(* A function into a set is one into a larger set.                          *)
LEMMA Widened == ASSUME NEW S, NEW A, NEW B, A \subseteq B, NEW f \in [S -> A] PROVE f \in [S -> B]
OBVIOUS

(* What Settled makes of the books; row is the receipt's.                   *)
SettledWith(r, w, take, o, row) == [Settled(r, w, take, o) EXCEPT !.rc[r] = row]

(* It settles, with rows that were not there.                               *)
LEMMA SettledSettles ==
  ASSUME books \in Books, NEW r \in Receipt, NEW S \in SUBSET Invoice,
         NEW w \in [S -> Nat], NEW take \in [S -> Nat], MayWithhold(w),
         \A i \in S : Issued(books, i), NEW o \in RowsFor(take),
         NEW row, row.st = "live", NEW c, c = SettledWith(r, w, take, o, row)
  PROVE  c.rc[r] = row /\ \E F : Settles(c, r, S, w, take, F, o)
<1>1. PICK F \in SUBSET {k \in Payment : FreshPayment(k)} : o \in Bijection(F, Paying(take))
  BY DEF RowsFor
<1>2. DOMAIN o = F /\ DOMAIN w = S BY <1>1 DEF Bijection, Injection
<1> DEFINE inv == [i \in Invoice |-> IF i \in S THEN WithCash(WithTds(books.inv[i], w[i]), take[i])
                                                ELSE books.inv[i]]
           tds == [i \in Invoice |-> IF i \in S /\ w[i] > 0 THEN Tds(w[i], r) ELSE books.tds[i]]
           pay == [k \in Payment |-> IF k \in F THEN Payments(o[k], r, take[o[k]])
                                                ELSE books.pay[k]]
<1>3. Settled(r, w, take, o) = [books EXCEPT !.inv = inv, !.tds = tds, !.pay = pay]
  BY <1>2 DEF Settled
<1> HIDE DEF inv, tds, pay
<1>4. /\ c.inv = inv /\ c.tds = tds /\ c.pay = pay /\ c.po = books.po /\ c.rev = books.rev
      /\ c.rc = [books.rc EXCEPT ![r] = row] /\ books.rc \in [Receipt -> ReceiptRow]
  BY <1>3 DEF Books, SettledWith
<1>5. c.rc[r] = row /\ \A q \in Receipt \ {r} : c.rc[q] = books.rc[q] BY <1>4
<1>6. /\ \A i \in Invoice \ S : c.inv[i] = books.inv[i] /\ c.tds[i] = books.tds[i]
      /\ \A i \in S : c.inv[i] = WithCash(WithTds(books.inv[i], w[i]), take[i])
  BY <1>4 DEF inv, tds
<1>7. \A i \in S : IF w[i] > 0 THEN c.tds[i] = Tds(w[i], r) /\ ~books.tds[i].live
                               ELSE c.tds[i] = books.tds[i]
  <2>1. \A i \in S : w[i] > 0 => ~books.tds[i].live BY <1>2 DEF MayWithhold
  <2>2. \A i \in S : IF w[i] > 0 THEN c.tds[i] = Tds(w[i], r) ELSE c.tds[i] = books.tds[i]
    BY <1>4 DEF tds
  <2> QED BY <2>1, <2>2
<1>8. /\ F \in SUBSET Payment
      /\ \A k \in F : FreshPayment(k) /\ c.pay[k] = Payments(o[k], r, take[o[k]])
      /\ \A k \in Payment \ F : c.pay[k] = books.pay[k]
  BY <1>1, <1>4 DEF pay
<1>9. Settles(c, r, S, w, take, F, o)
  BY <1>1, <1>4, <1>5, <1>6, <1>7, <1>8 DEF Settles
<1> QED BY <1>5, <1>9

(* POST /receipts/{id}/allocate: what is taken of it leaves the account.    *)
LEMMA AllocateAdds ==
  ASSUME TypeOK, TypeOK', SumInv, NEW r \in Receipt, NEW S \in SUBSET Invoice,
         NEW w \in [S -> Cash \cup {0}], Allocate(r, S, w)
  PROVE  SumInv'
<1>1. /\ books.rc[r].st = "live" /\ MayWithhold(w) /\ \A i \in S : Issued(books, i)
      /\ books \in Books
  BY DEF Allocate, Payable, Issued, TypeOK
<1>2. PICK take \in [S -> 0..books.rc[r].left], left \in 0..books.rc[r].left :
        /\ left + Sum(take, S) = books.rc[r].left
        /\ \E o \in RowsFor(take) : Asks([Settled(r, w, take, o) EXCEPT !.rc[r].left = left])
  BY DEF Allocate
<1>3. PICK o \in RowsFor(take) : Ask([Settled(r, w, take, o) EXCEPT !.rc[r].left = left], {})
  BY <1>2 DEF Asks
<1>4. books.rc[r] \in ReceiptRow /\ books.rc[r].left \in Nat /\ books.rc \in [Receipt -> ReceiptRow]
  BY <1>1 DEF Books, ReceiptRow
<1>5. w \in [S -> Nat] /\ take \in [S -> Nat] /\ left \in Int
  <2>1. Cash \cup {0} \subseteq Nat /\ 0..books.rc[r].left \subseteq Nat
    BY <1>4, BooksAssumption DEF BooksAssumption
  <2> QED BY <2>1, Widened
<1> DEFINE row == [books.rc[r] EXCEPT !.left = left]
           c == SettledWith(r, w, take, o, row)
<1>6. c = [Settled(r, w, take, o) EXCEPT !.rc[r].left = left]
  <2>1. Settled(r, w, take, o).rc = books.rc BY <1>1 DEF Settled, Books
  <2> QED BY <2>1 DEF SettledWith
<1>7. Ask(c, {}) BY <1>3, <1>6
<1>8. c \in Books BY <1>7, AskBooks
<1>9. row.st = "live" /\ row.amount = books.rc[r].amount /\ row.left = left
  BY <1>1, <1>4 DEF ReceiptRow
<1>10. c.rc[r] = row /\ \E F : Settles(c, r, S, w, take, F, o)
  <2>1. c = SettledWith(r, w, take, o, row) OBVIOUS
  <2> HIDE DEF c, row
  <2> QED BY <1>1, <1>5, <1>9, <2>1, SettledSettles
<1> HIDE DEF c, row
<1>11. PICK F : Settles(c, r, S, w, take, F, o) BY <1>10
<1>12. ReceiptAddsUp(books, r) => ReceiptAddsUp(c, r)
  <2>1. SumOf(PaysOf(c, r), Payment) = SumOf(PaysOf(books, r), Payment) + Sum(take, S)
    BY <1>1, <1>5, <1>8, <1>11, SettledReceipt
  <2>2. SumOf(PaysOf(books, r), Payment) \in Int /\ Sum(take, S) \in Int
    <3>1. PaysOf(books, r) \in [Payment -> Int] /\ take \in [S -> Int] BY <1>1, <1>5, WholeNumbers
    <3> QED BY <3>1, FiniteRows, TakenSum, SumType
  <2>3. books.rc[r].amount = books.rc[r].left + SumOf(PaysOf(books, r), Payment) =>
          c.rc[r].amount = c.rc[r].left + SumOf(PaysOf(c, r), Payment)
    BY <1>2, <1>5, <1>9, <1>10, <2>1, <2>2
  <2> QED BY <1>1, <1>8, <2>3, ReceiptAdds
<1> QED BY <1>5, <1>7, <1>8, <1>11, <1>12, SettledAdds

(* POST /receipts: what is not mapped is left.                              *)
LEMMA CreateReceiptAdds ==
  ASSUME TypeOK, TypeOK', SumInv, NEW r \in Receipt, NEW cash \in Cash, NEW S \in SUBSET Invoice,
         NEW w \in [S -> Cash \cup {0}], CreateReceipt(r, cash, S, w)
  PROVE  SumInv'
<1>1. /\ books.rc[r].st = "none" /\ MayWithhold(w) /\ \A i \in S : Issued(books, i)
      /\ books \in Books
  BY DEF CreateReceipt, FreshReceipt, Unused, TypeOK
<1>2. PICK take \in [S -> 0..cash], left \in 0..cash :
        /\ left + Sum(take, S) = cash
        /\ \E o \in RowsFor(take) :
             Asks([Settled(r, w, take, o) EXCEPT
                     !.rc[r] = [st |-> "live", amount |-> cash, left |-> left]])
  BY DEF CreateReceipt
<1> DEFINE row == [st |-> "live", amount |-> cash, left |-> left]
<1>3. PICK o \in RowsFor(take) : Ask([Settled(r, w, take, o) EXCEPT !.rc[r] = row], {})
  BY <1>2 DEF Asks
<1>4. cash \in Nat /\ w \in [S -> Nat] /\ r # NoReceipt
  <2>1. Cash \cup {0} \subseteq Nat /\ NoReceipt \notin Receipt
    BY BooksAssumption DEF BooksAssumption
  <2> QED BY <2>1, Widened
<1>5. take \in [S -> Nat] /\ left \in Int
  <2>1. 0..cash \subseteq Nat BY <1>4
  <2> QED BY <2>1, Widened
<1> DEFINE c == SettledWith(r, w, take, o, row)
<1>6. Ask(c, {}) BY <1>3 DEF SettledWith
<1>7. c \in Books BY <1>6, AskBooks
<1>8. row.st = "live" /\ row.amount = cash /\ row.left = left OBVIOUS
<1>9. c.rc[r] = row /\ \E F : Settles(c, r, S, w, take, F, o)
  <2>1. c = SettledWith(r, w, take, o, row) OBVIOUS
  <2> HIDE DEF c, row
  <2> QED BY <1>1, <1>4, <1>5, <1>8, <2>1, SettledSettles
<1> HIDE DEF c, row
<1>10. PICK F : Settles(c, r, S, w, take, F, o) BY <1>9
<1>11. ReceiptAddsUp(c, r)
  <2>1. SumOf(PaysOf(c, r), Payment) = SumOf(PaysOf(books, r), Payment) + Sum(take, S)
    BY <1>1, <1>5, <1>7, <1>10, SettledReceipt
  <2>2. SumOf(PaysOf(books, r), Payment) = 0
    <3>1. PaysOf(books, r) \in [Payment -> Int] BY <1>1, WholeNumbers
    <3>2. \A j \in Payment : PaysOf(books, r)[j] = 0 BY <1>1, <1>4 DEF PaysOf, SumInv, Tied
    <3> QED BY <3>1, <3>2, FiniteRows, SumOfZeros
  <2>3. Sum(take, S) \in Int
    <3>1. take \in [S -> Int] BY <1>5
    <3> QED BY <3>1, FiniteRows, TakenSum, SumType
  <2>4. c.rc[r].amount = c.rc[r].left + SumOf(PaysOf(c, r), Payment)
    BY <1>2, <1>5, <1>8, <1>9, <2>1, <2>2, <2>3
  <2> QED BY <1>7, <2>4, ReceiptAdds
<1> QED BY <1>4, <1>5, <1>6, <1>7, <1>10, <1>11, SettledAdds

------------------------------------------------------------------------------
(* Taking back what a received amount paid.                                 *)

(* What is withheld, if part, and what is paid of it go off an invoice.     *)
Untaken(row, part, a, m) ==
  LET mid == IF part THEN Withheld(row, -a) ELSE row IN IF m > 0 THEN PaidMore(mid, -m) ELSE mid

(* The invoices of S lose what r paid and withheld on them.                 *)
Unsettles(c, r, S) ==
  /\ c.po = books.po /\ c.rev = books.rev /\ \A q \in Receipt \ {r} : c.rc[q] = books.rc[q]
  /\ \A i \in Invoice \ S : c.inv[i] = books.inv[i] /\ c.tds[i] = books.tds[i]
  /\ \A i \in S : /\ c.inv[i] = Untaken(books.inv[i], OfReceipt(books, r, i), books.tds[i].amount,
                                        Mapped(books, r, i))
                  /\ IF OfReceipt(books, r, i) THEN c.tds[i] = NoTds ELSE c.tds[i] = books.tds[i]
  /\ \A k \in Payment :
       IF books.pay[k].st = "live" /\ books.pay[k].rc = r /\ books.pay[k].inv \in S
         THEN c.pay[k] = [books.pay[k] EXCEPT !.st = "gone"] ELSE c.pay[k] = books.pay[k]

(* Columns it changes.                                                      *)
LEMMA UntakenColumns ==
  ASSUME NEW row \in InvoiceRow, NEW part \in BOOLEAN, NEW a \in Nat, NEW m \in Nat
  PROVE  LET new == Untaken(row, part, a, m) IN
         /\ new.kind = row.kind /\ new.po = row.po /\ new.sub = row.sub
         /\ new.paid = row.paid - m
         /\ new.tds = IF part THEN Floor(row.tds - a) ELSE row.tds
<1> DEFINE mid == IF part THEN Withheld(row, -a) ELSE row
           new == Untaken(row, part, a, m)
<1>1. row.paid \in Int /\ row.tds \in Nat BY DEF InvoiceRow
<1>2. /\ mid.kind = row.kind /\ mid.po = row.po /\ mid.sub = row.sub /\ mid.paid = row.paid
      /\ mid.tds = IF part THEN Floor(row.tds - a) ELSE row.tds
  <2>1. CASE part
    <3>1. mid = Withheld(row, -a) BY <2>1
    <3>2. /\ Withheld(row, -a).kind = row.kind /\ Withheld(row, -a).po = row.po
          /\ Withheld(row, -a).sub = row.sub /\ Withheld(row, -a).paid = row.paid
          /\ Withheld(row, -a).tds = Floor(row.tds + (-a))
      BY WithheldColumns
    <3>3. row.tds + (-a) = row.tds - a BY <1>1
    <3> QED BY <2>1, <3>1, <3>2, <3>3
  <2>2. CASE ~part BY <2>2
  <2> QED BY <2>1, <2>2
<1>3. DOMAIN mid = {"kind", "sub", "po", "paid", "tds", "balance", "open", "credit"}
  <2>1. DOMAIN row = {"kind", "sub", "po", "paid", "tds", "balance", "open", "credit"}
    BY DEF InvoiceRow
  <2> QED BY <2>1 DEF Withheld, Refreshed
<1>4. new = IF m > 0 THEN PaidMore(mid, -m) ELSE mid BY DEF Untaken
<1> HIDE DEF mid, new
<1>5. CASE m > 0
  <2>1. new = [mid EXCEPT !.paid = @ + (-m),
                          !.balance = Floor(Due([mid EXCEPT !.paid = @ + (-m)])), !.credit = FALSE]
    BY <1>4, <1>5 DEF PaidMore, Refreshed
  <2>2. new.kind = mid.kind /\ new.po = mid.po /\ new.sub = mid.sub /\ new.tds = mid.tds
        /\ new.paid = mid.paid + (-m)
    BY <1>3, <2>1
  <2>3. row.paid + (-m) = row.paid - m BY <1>1
  <2> QED BY <1>2, <2>2, <2>3 DEF new
<1>6. CASE ~(m > 0)
  <2>1. new = mid /\ row.paid - m = row.paid BY <1>1, <1>4, <1>6
  <2> QED BY <1>2, <2>1 DEF new
<1> QED BY <1>5, <1>6

(* What r paid of i.                                                        *)
LEMMA MappedSum ==
  ASSUME NEW r, NEW i
  PROVE  Mapped(books, r, i) = SumOf(Amounts(books), PaymentsOn(books, i) \cap PaymentsOf(books, r))
<1>1. Mapped(books, r, i) = PaidSum(books, PaymentsOn(books, i) \cap PaymentsOf(books, r))
  BY DEF Mapped, PaidSum, MapThenSumSet, MapThenFoldSet
<1>2. PaymentsOn(books, i) \cap PaymentsOf(books, r) \in SUBSET Payment BY DEF PaymentsOn
<1> QED BY <1>1, <1>2, PaidIsSum

(* Columns of the payments.                                                 *)
LEMMA UnsettledRows ==
  ASSUME books \in Books, NEW c, NEW r, NEW S, Unsettles(c, r, S), NEW k \in Payment
  PROVE  /\ c.pay[k].inv = books.pay[k].inv /\ c.pay[k].rc = books.pay[k].rc
         /\ c.pay[k].amount = books.pay[k].amount
         /\ c.pay[k].st = IF books.pay[k].st = "live" /\ books.pay[k].rc = r /\ books.pay[k].inv \in S
                            THEN "gone" ELSE books.pay[k].st
<1>1. books.pay[k] \in PaymentRow BY DEF Books
<1>2. CASE books.pay[k].st = "live" /\ books.pay[k].rc = r /\ books.pay[k].inv \in S
  <2>1. c.pay[k] = [books.pay[k] EXCEPT !.st = "gone"] BY <1>2 DEF Unsettles
  <2> QED BY <1>1, <1>2, <2>1 DEF PaymentRow
<1>3. CASE ~(books.pay[k].st = "live" /\ books.pay[k].rc = r /\ books.pay[k].inv \in S)
  <2>1. c.pay[k] = books.pay[k] BY <1>3 DEF Unsettles
  <2> QED BY <1>3, <2>1
<1> QED BY <1>2, <1>3

(* An invoice counts the payments it has left.                              *)
LEMMA UnsettledInvoices ==
  ASSUME books \in Books, NEW c \in Books, NEW r \in Receipt, NEW S \in SUBSET Invoice,
         Unsettles(c, r, S), \A i \in S : Mapped(books, r, i) \in Nat,
         NEW j \in Invoice
  PROVE  InvoiceAddsUp(books, j) => InvoiceAddsUp(c, j)
<1> DEFINE f == PaysOn(books, j)  g == PaysOn(c, j)
           U == PaymentsOn(books, j) \cap PaymentsOf(books, r)
<1>1. f \in [Payment -> Int] /\ g \in [Payment -> Int] /\ Amounts(books) \in [Payment -> Int]
  BY WholeNumbers
<1>2. U \in SUBSET Payment BY DEF PaymentsOn
<1>3. CASE j \notin S
  <2>1. \A k \in Payment : g[k] = f[k]
    BY <1>3, UnsettledRows DEF PaysOn
  <2>2. g = f BY <1>1, <2>1
  <2>3. c.inv[j] = books.inv[j] /\ c.tds[j] = books.tds[j] BY <1>3 DEF Unsettles
  <2> QED BY <2>2, <2>3, InvoiceAdds DEF Issued
<1>4. CASE j \in S
  <2> DEFINE m == Mapped(books, r, j)
  <2>1. /\ \A k \in U : g[k] = 0 /\ f[k] = Amounts(books)[k]
        /\ \A k \in Payment \ U : g[k] = f[k]
    BY <1>4, UnsettledRows DEF PaysOn, PaymentsOn, PaymentsOf, Amounts
  <2>2. m \in Nat BY <1>4
  <2>3. books.inv[j] \in InvoiceRow /\ books.tds[j] \in TdsRow BY DEF Books
  <2>4. c.inv[j] = Untaken(books.inv[j], OfReceipt(books, r, j), books.tds[j].amount, m)
    BY <1>4 DEF Unsettles
  <2>5. OfReceipt(books, r, j) \in BOOLEAN /\ books.tds[j].amount \in Nat
    BY <2>3 DEF OfReceipt, TdsRow
  <2>6. m = SumOf(Amounts(books), U) BY MappedSum
  <2> HIDE DEF f, g, U, m
  <2>7. SumOf(g, Payment) = SumOf(f, Payment) - SumOf(f, U)
    BY <1>1, <1>2, <2>1, FiniteRows, SumWithout
  <2>8. SumOf(f, U) = m BY <1>2, <2>1, <2>6, FiniteRows, SumSame
  <2>9. SumOf(f, Payment) \in Int BY <1>1, FiniteRows, SumType
  <2>10. /\ c.inv[j].kind = books.inv[j].kind /\ c.inv[j].paid = books.inv[j].paid - m
         /\ c.inv[j].tds = IF OfReceipt(books, r, j)
                             THEN Floor(books.inv[j].tds - books.tds[j].amount) ELSE books.inv[j].tds
    BY <2>2, <2>3, <2>4, <2>5, UntakenColumns
  <2>11. Issued(c, j) => Issued(books, j) BY <2>10 DEF Issued
  <2>12. books.inv[j].tds = (IF books.tds[j].live THEN books.tds[j].amount ELSE 0) =>
           c.inv[j].tds = IF c.tds[j].live THEN c.tds[j].amount ELSE 0
    <3>1. CASE OfReceipt(books, r, j)
      <4>1. c.tds[j] = NoTds /\ books.tds[j].live BY <1>4, <3>1 DEF Unsettles, OfReceipt
      <4>2. ~c.tds[j].live BY <4>1 DEF NoTds
      <4>3. Floor(books.tds[j].amount - books.tds[j].amount) = 0 BY <2>5 DEF Floor
      <4> QED BY <2>10, <3>1, <4>1, <4>2, <4>3
    <3>2. CASE ~OfReceipt(books, r, j)
      <4>1. c.tds[j] = books.tds[j] BY <1>4, <3>2 DEF Unsettles
      <4> QED BY <2>10, <3>2, <4>1
    <3> QED BY <3>1, <3>2
  <2>13. SumOf(g, Payment) = SumOf(f, Payment) + (-m) /\ -m \in Int BY <2>2, <2>7, <2>8, <2>9
  <2>14. c.inv[j].paid = books.inv[j].paid + (-m)
    <3>1. books.inv[j].paid \in Int BY <2>3 DEF InvoiceRow
    <3> QED BY <2>2, <2>10, <3>1
  <2> DEFINE d == -m
  <2>15. /\ SumOf(PaysOn(c, j), Payment) = SumOf(PaysOn(books, j), Payment) + d /\ d \in Int
         /\ c.inv[j].paid = books.inv[j].paid + d
    BY <2>13, <2>14 DEF f, g
  <2> HIDE DEF d
  <2> QED BY <2>11, <2>12, <2>15, InvoiceMoves
<1> QED BY <1>3, <1>4

(* Taking back keeps the sums, if the receipt adds up.                      *)
LEMMA UnsettledAdds ==
  ASSUME TypeOK, SumInv, NEW c \in Books, NEW r \in Receipt, NEW S \in SUBSET Invoice,
         Unsettles(c, r, S), \A i \in S : Mapped(books, r, i) \in Nat,
         c.rc[r].st = "live" \/ S = Invoice, Ask(c, {}),
         ReceiptAddsUp(books, r) => ReceiptAddsUp(c, r)
  PROVE  SumInv'
<1>1. books \in Books BY DEF TypeOK
<1>2. \A j \in Invoice : InvoiceAddsUp(books, j) => InvoiceAddsUp(c, j)
  BY <1>1, UnsettledInvoices
<1>3. \A k \in Payment :
        /\ c.pay[k].inv = books.pay[k].inv /\ c.pay[k].rc = books.pay[k].rc
        /\ c.pay[k].amount = books.pay[k].amount
        /\ c.pay[k].st = IF books.pay[k].st = "live" /\ books.pay[k].rc = r /\ books.pay[k].inv \in S
                           THEN "gone" ELSE books.pay[k].st
  BY <1>1, UnsettledRows
<1>4. /\ c.po = books.po /\ c.rev = books.rev
      /\ \A q \in Receipt \ {r} : c.rc[q] = books.rc[q]
      /\ \A i \in Invoice \ S : c.inv[i] = books.inv[i] /\ c.tds[i] = books.tds[i]
      /\ \A k \in Payment : books.pay[k].st # "live" => c.pay[k] = books.pay[k]
  BY DEF Unsettles
<1>5. ASSUME NEW q \in Receipt, q # r, ReceiptAddsUp(books, q) PROVE ReceiptAddsUp(c, q)
  <2>1. PaysOf(c, q) = PaysOf(books, q)
    <3>1. \A k \in Payment : PaysOf(c, q)[k] = PaysOf(books, q)[k] BY <1>3, <1>5 DEF PaysOf
    <3>2. PaysOf(c, q) \in [Payment -> Int] /\ PaysOf(books, q) \in [Payment -> Int]
      BY <1>1, WholeNumbers
    <3> QED BY <3>1, <3>2
  <2>2. c.rc[q] = books.rc[q] BY <1>4, <1>5
  <2> QED BY <1>1, <1>5, <2>1, <2>2, ReceiptAdds
<1>6. Collects(c)
  <2>1. ASSUME NEW i \in Invoice
        PROVE  /\ c.inv[i].kind = books.inv[i].kind /\ c.inv[i].po = books.inv[i].po
               /\ c.inv[i].sub = books.inv[i].sub
               /\ c.tds[i].live => Issued(books, i)
    <3>1. CASE i \in S
      <4>1. books.inv[i] \in InvoiceRow /\ books.tds[i] \in TdsRow BY <1>1 DEF Books
      <4>2. OfReceipt(books, r, i) \in BOOLEAN /\ books.tds[i].amount \in Nat
        BY <4>1 DEF OfReceipt, TdsRow
      <4>3. Mapped(books, r, i) \in Nat BY <3>1
      <4>4. c.inv[i] = Untaken(books.inv[i], OfReceipt(books, r, i), books.tds[i].amount,
                               Mapped(books, r, i))
        BY <3>1 DEF Unsettles
      <4>5. c.inv[i].kind = books.inv[i].kind /\ c.inv[i].po = books.inv[i].po
            /\ c.inv[i].sub = books.inv[i].sub
        BY <4>1, <4>2, <4>3, <4>4, UntakenColumns
      <4>6. c.tds[i] = NoTds \/ c.tds[i] = books.tds[i] BY <3>1 DEF Unsettles
      <4>7. c.tds[i].live => books.tds[i].live BY <4>6 DEF NoTds
      <4> QED BY <4>5, <4>7 DEF SumInv, Tied
    <3>2. CASE i \notin S BY <1>4, <3>2 DEF SumInv, Tied
    <3> QED BY <3>1, <3>2
  <2>2. ASSUME NEW k \in Payment, c.pay[k].st = "live"
        PROVE  /\ Issued(books, c.pay[k].inv)
               /\ c.pay[k].rc # NoReceipt => c.rc[c.pay[k].rc].st = "live"
    <3>1. /\ books.pay[k].st = "live" /\ books.pay[k].inv \in Invoice
          /\ books.pay[k].rc \in Receipt \cup {NoReceipt}
          /\ ~(books.pay[k].rc = r /\ books.pay[k].inv \in S)
      BY <1>1, <1>3, <2>2, PaidOnInvoice
    <3>2. /\ Issued(books, books.pay[k].inv)
          /\ books.pay[k].rc # NoReceipt => books.rc[books.pay[k].rc].st = "live"
      BY <3>1 DEF SumInv, Tied
    <3> QED BY <1>3, <1>4, <3>1, <3>2
  <2>3. \A k \in Payment : books.pay[k].st # "none" =>
          c.pay[k].st # "none" /\ c.pay[k].amount = books.pay[k].amount
    BY <1>3
  <2>4. \A k \in Payment : books.pay[k].st = "none" => c.pay[k] = books.pay[k] BY <1>4
  <2> QED BY <1>4, <2>1, <2>2, <2>3, <2>4 DEF Collects
<1>7. \A q \in Receipt : ReceiptAddsUp(books, q) => ReceiptAddsUp(c, q) BY <1>5
<1> QED BY <1>2, <1>6, <1>7, CollectsAdds

(* What Unsettled makes of the books; row is the receipt's.                 *)
UnsettledWith(r, S, row) == [Unsettled(r, S) EXCEPT !.rc[r] = row]

(* It takes back all of r on S.                                             *)
LEMMA UnsettledUnsettles ==
  ASSUME books \in Books, NEW r \in Receipt, NEW S \in SUBSET Invoice, NEW row,
         NEW c, c = UnsettledWith(r, S, row)
  PROVE  c.rc[r] = row /\ Unsettles(c, r, S)
<1> DEFINE inv == [i \in Invoice |->
                     IF i \notin S THEN books.inv[i]
                     ELSE Untaken(books.inv[i], OfReceipt(books, r, i), books.tds[i].amount,
                                  Mapped(books, r, i))]
           tds == [i \in Invoice |-> IF i \in S /\ OfReceipt(books, r, i) THEN NoTds ELSE books.tds[i]]
           pay == [k \in Payment |->
                     IF books.pay[k].st = "live" /\ books.pay[k].rc = r /\ books.pay[k].inv \in S
                       THEN [books.pay[k] EXCEPT !.st = "gone"] ELSE books.pay[k]]
<1>1. Unsettled(r, S) = [books EXCEPT !.inv = inv, !.tds = tds, !.pay = pay]
  BY DEF Unsettled, Untaken
<1> HIDE DEF inv, tds, pay
<1>2. /\ c.inv = inv /\ c.tds = tds /\ c.pay = pay /\ c.po = books.po /\ c.rev = books.rev
      /\ c.rc = [books.rc EXCEPT ![r] = row] /\ books.rc \in [Receipt -> ReceiptRow]
  BY <1>1 DEF Books, UnsettledWith
<1>3. c.rc[r] = row /\ \A q \in Receipt \ {r} : c.rc[q] = books.rc[q] BY <1>2
<1>4. /\ \A i \in Invoice \ S : c.inv[i] = books.inv[i] /\ c.tds[i] = books.tds[i]
      /\ \A i \in S : c.inv[i] = Untaken(books.inv[i], OfReceipt(books, r, i), books.tds[i].amount,
                                         Mapped(books, r, i))
  BY <1>2 DEF inv, tds
<1>5. \A i \in S : IF OfReceipt(books, r, i) THEN c.tds[i] = NoTds ELSE c.tds[i] = books.tds[i]
  BY <1>2 DEF tds
<1>6. \A k \in Payment :
        IF books.pay[k].st = "live" /\ books.pay[k].rc = r /\ books.pay[k].inv \in S
          THEN c.pay[k] = [books.pay[k] EXCEPT !.st = "gone"] ELSE c.pay[k] = books.pay[k]
  BY <1>2 DEF pay
<1> QED BY <1>2, <1>3, <1>4, <1>5, <1>6 DEF Unsettles

(* DELETE /receipts/{id}/allocations/{invoice}: the money goes back.        *)
LEMMA UnmapInvoiceAdds ==
  ASSUME TypeOK, TypeOK', SumInv, NEW r \in Receipt, NEW i \in Invoice, UnmapInvoice(r, i)
  PROVE  SumInv'
<1> DEFINE m == Mapped(books, r, i)
           row == PutBack(books.rc[r], m)
           c == UnsettledWith(r, {i}, row)
<1>1. books.rc[r].st = "live" /\ m \in Nat /\ books \in Books
  BY BooksAssumption DEF UnmapInvoice, Money, BooksAssumption, TypeOK
<1>2. Ask([Unsettled(r, {i}) EXCEPT !.rc[r] = PutBack(@, m)], {}) BY DEF UnmapInvoice, Asks
<1>3. c = [Unsettled(r, {i}) EXCEPT !.rc[r] = PutBack(@, m)]
  <2>1. Unsettled(r, {i}).rc = books.rc BY <1>1 DEF Unsettled, Books
  <2> QED BY <2>1 DEF UnsettledWith
<1>4. Ask(c, {}) BY <1>2, <1>3
<1>5. c \in Books BY <1>4, AskBooks
<1>6. books.rc[r] \in ReceiptRow BY <1>1 DEF Books
<1>7. row.st = "live" /\ row.amount = books.rc[r].amount /\ row.left = books.rc[r].left + m
  BY <1>1, <1>6 DEF PutBack, ReceiptRow
<1> HIDE DEF row
<1>8. c.rc[r] = row /\ Unsettles(c, r, {i})
  <2>1. c = UnsettledWith(r, {i}, row) /\ {i} \in SUBSET Invoice OBVIOUS
  <2> HIDE DEF c
  <2> QED BY <1>1, <2>1, UnsettledUnsettles
<1> HIDE DEF c
<1>9. ReceiptAddsUp(books, r) => ReceiptAddsUp(c, r)
  <2> DEFINE f == PaysOf(books, r)  g == PaysOf(c, r)
             U == PaymentsOn(books, i) \cap PaymentsOf(books, r)
  <2>1. f \in [Payment -> Int] /\ g \in [Payment -> Int] /\ Amounts(books) \in [Payment -> Int]
    BY <1>1, <1>5, WholeNumbers
  <2>2. U \in SUBSET Payment BY DEF PaymentsOn
  <2>3. /\ \A k \in U : g[k] = 0 /\ f[k] = Amounts(books)[k]
        /\ \A k \in Payment \ U : g[k] = f[k]
    BY <1>1, <1>8, UnsettledRows DEF PaysOf, PaymentsOn, PaymentsOf, Amounts
  <2>4. m = SumOf(Amounts(books), U) BY MappedSum
  <2> HIDE DEF f, g, U, m
  <2>5. SumOf(g, Payment) = SumOf(f, Payment) - SumOf(f, U)
    BY <2>1, <2>2, <2>3, FiniteRows, SumWithout
  <2>6. SumOf(f, U) = m BY <2>2, <2>3, <2>4, FiniteRows, SumSame
  <2>7. SumOf(f, Payment) \in Int BY <2>1, FiniteRows, SumType
  <2>8. books.rc[r].left \in Int BY <1>6 DEF ReceiptRow
  <2>9. books.rc[r].amount = books.rc[r].left + SumOf(f, Payment) =>
          c.rc[r].amount = c.rc[r].left + SumOf(g, Payment)
    BY ONLY <1>1, <1>7, <1>8, <2>5, <2>6, <2>7, <2>8
  <2> QED BY <1>1, <1>5, <2>9, ReceiptAdds DEF f, g
<1>10. /\ {i} \in SUBSET Invoice /\ \A j \in {i} : Mapped(books, r, j) \in Nat
       /\ c.rc[r].st = "live"
  BY <1>1, <1>7, <1>8
<1> HIDE DEF m
<1> QED BY <1>4, <1>5, <1>8, <1>9, <1>10, UnsettledAdds

(* DELETE /receipts: with all it paid and withheld.                         *)
LEMMA DeleteReceiptAdds ==
  ASSUME TypeOK, TypeOK', SumInv, NEW r \in Receipt, DeleteReceipt(r)
  PROVE  SumInv'
<1> DEFINE row == [books.rc[r] EXCEPT !.st = "gone"]
           c == UnsettledWith(r, Invoice, row)
<1>1. books \in Books /\ \A i \in Invoice : Mapped(books, r, i) \in Nat
  BY BooksAssumption DEF DeleteReceipt, Money, BooksAssumption, TypeOK
<1>2. Ask([Unsettled(r, Invoice) EXCEPT !.rc[r].st = "gone"], {}) BY DEF DeleteReceipt, Asks
<1>3. c = [Unsettled(r, Invoice) EXCEPT !.rc[r].st = "gone"]
  <2>1. Unsettled(r, Invoice).rc = books.rc BY <1>1 DEF Unsettled, Books
  <2> QED BY <2>1 DEF UnsettledWith
<1>4. Ask(c, {}) BY <1>2, <1>3
<1>5. c \in Books BY <1>4, AskBooks
<1>6. books.rc[r] \in ReceiptRow BY <1>1 DEF Books
<1>7. row.st = "gone" BY <1>6 DEF ReceiptRow
<1>8. c.rc[r] = row /\ Unsettles(c, r, Invoice)
  <2>1. c = UnsettledWith(r, Invoice, row) /\ Invoice \in SUBSET Invoice OBVIOUS
  <2> HIDE DEF c, row
  <2> QED BY <1>1, <2>1, UnsettledUnsettles
<1> HIDE DEF c, row
<1>9. ReceiptAddsUp(c, r) BY <1>5, <1>7, <1>8, ReceiptAdds
<1>10. Invoice \in SUBSET Invoice OBVIOUS
<1> QED BY <1>1, <1>4, <1>5, <1>8, <1>9, <1>10, UnsettledAdds

------------------------------------------------------------------------------
(* Every step.                                                              *)

(* The books add up at the start, with no session open.                     *)
LEMMA InitAdds == Init => SumInv
<1> SUFFICES ASSUME Init PROVE SumInv OBVIOUS
<1>1. /\ books = Opening /\ torn = {} /\ undone = {} /\ \A t \in Txn : ~txn[t].open
  BY DEF Init, Closed
<1>2. Tied(books) /\ RevisesTax(books)
  <2>1. Tied(Opening) BY OpeningAddsUp, ReferredTied DEF OpeningAddsUp
  <2>2. RevisesTax(Opening) BY OpeningAddsUp DEF OpeningAddsUp, RevisesTax
  <2> QED BY <1>1, <2>1, <2>2
<1>3. PoAccounts /\ PaymentsAddUp
  <2>1. /\ \A r \in Receipt : ReceiptAddsUp(Opening, r)
        /\ \A i \in Invoice : InvoiceAddsUp(Opening, i)
        /\ \A p \in Po : OrderAddsUp(Opening, p)
    BY OpeningAddsUp DEF OpeningAddsUp
  <2> QED BY <1>1, <2>1 DEF PoAccounts, PaymentsAddUp
<1>4. OpenFollows /\ OpenAddsUp BY <1>1 DEF OpenFollows, OpenAddsUp
<1> QED BY <1>2, <1>3, <1>4 DEF SumInv

(* Every request keeps the sums.                                            *)
LEMMA RequestAdds == ASSUME TypeOK, TypeOK', SumInv, Request PROVE SumInv'
<1>1. CASE Ordering
  BY <1>1, UpdatePoAdds, CancelPoAdds, DeletePoAdds DEF Ordering
<1>2. CASE Issuing
  BY <1>2, CreateInvoiceAdds, RaiseProformaAdds, ConvertAdds, ConfirmAdds, UpdateInvoiceAdds,
     DeleteInvoiceAdds, UndoInvoiceAdds DEF Issuing
<1>3. CASE Collecting
  BY <1>3, RecordPaymentAdds, RecordReceivedAdds, ReversePaymentAdds, TdsReceivedAdds,
     DeleteTdsAdds, RecordTdsAdds DEF Collecting
<1>4. CASE Receiving
  BY <1>4, AllocateAdds, CreateReceiptAdds, UnmapInvoiceAdds, UpdateReceiptAdds,
     DeleteReceiptAdds DEF Receiving
<1>5. CASE Crediting
  <2>1. ASSUME NEW m \in Note, NEW i \in Invoice, NEW a \in Cash, CreateNote(m, i, a) PROVE SumInv'
    BY <2>1, NoteAdds DEF CreateNote, Asks
  <2>2. ASSUME NEW m \in Note, CancelNote(m) PROVE SumInv'
    <3>1. Ask([books EXCEPT !.note[m].status = "Cancelled"], {}) BY <2>2 DEF CancelNote, Asks
    <3> QED BY <3>1, NoteAdds
  <2> QED BY <1>5, <2>1, <2>2, ApproveNoteAdds, SettleNoteAdds DEF Crediting
<1>6. CASE Changing
  BY <1>6, RequestRevisionAdds, ApproveRevisionAdds, RejectRevisionAdds DEF Changing
<1> QED BY <1>1, <1>2, <1>3, <1>4, <1>5, <1>6 DEF Request

(* So does every step, stutters included.                                   *)
LEMMA NextAdds == TypeOK /\ TypeOK' /\ SumInv /\ [Next]_vars => SumInv'
<1> SUFFICES ASSUME TypeOK, TypeOK', SumInv, [Next]_vars PROVE SumInv' OBVIOUS
<1>1. CASE Request BY <1>1, RequestAdds
<1>2. CASE \E t \in Txn : Commit(t) \/ RollBack(t) BY <1>2, CommitAdds, RollBackAdds
<1>3. CASE UNCHANGED vars
  <2>1. UNCHANGED <<books, txn, torn, undone>> BY <1>3 DEF vars
  <2>2. Tied(books)' /\ RevisesTax(books)' BY <2>1 DEF SumInv, Tied, RevisesTax, Issued
  <2>3. PoAccounts' /\ PaymentsAddUp' /\ OpenAddsUp'
    BY <2>1 DEF SumInv, PoAccounts, PaymentsAddUp, OpenAddsUp
  <2>4. OpenFollows'
    BY <2>1 DEF SumInv, OpenFollows, NewInvoices, NewPayments, Follows, RevisesTax
  <2> QED BY <2>2, <2>3, <2>4 DEF SumInv
<1> QED BY <1>1, <1>2, <1>3 DEF Next

(* A purchase order no two sessions wrote across each other has given out   *)
(* the base value of the tax invoices on it, for any number of rows,        *)
(* requests and sessions.                                                   *)
THEOREM OrdersAddUp == Spec => []PoAccounts
<1>1. Init => IInv /\ SumInv BY InitHolds, InitAdds
<1>2. IInv => TypeOK BY DEF IInv
<1>3. SumInv => PoAccounts BY DEF SumInv
<1> QED BY <1>1, <1>2, <1>3, NextHolds, NextAdds, PTL DEF Spec

(* A received amount is what is left of it and its payments, an invoice     *)
(* counts its payments and TDS: but for rows two sessions wrote across each *)
(* other and receipts an undone invoice was paid of.                        *)
THEOREM PaymentsAreAccounted == Spec => []PaymentsAddUp
<1>1. Init => IInv /\ SumInv BY InitHolds, InitAdds
<1>2. IInv => TypeOK BY DEF IInv
<1>3. SumInv => PaymentsAddUp BY DEF SumInv
<1> QED BY <1>1, <1>2, <1>3, NextHolds, NextAdds, PTL DEF Spec

------------------------------------------------------------------------------
(* Without overlap nothing is exempt: only sessions that overlap tear rows. *)

(* While a session is open nothing happens but its end.                     *)
OneAtATime == Busy => \E t \in Txn : Commit(t) \/ RollBack(t)

(* A TDS record that is gone names no receipt, and a receipt that a request *)
(* deletes is named by nothing in what it makes of the books.               *)
NoDeadTds(b) == \A i \in Invoice : b.tds[i].live \/ b.tds[i].rc = NoReceipt
Frees(c) ==
  \A r \in Receipt : books.rc[r].st = "live" /\ c.rc[r].st = "gone" =>
    /\ \A k \in Payment : c.pay[k].st = "live" => c.pay[k].rc # r
    /\ \A i \in Invoice : c.tds[i].rc # r
Lone(c) == NoDeadTds(c) /\ Frees(c)

SerialInv ==
  /\ torn = {} /\ NoDeadTds(books)
  /\ \A t \in Txn : txn[t].open => txn[t].was = books /\ Lone(txn[t].new)
  /\ \A t, u \in Txn : txn[t].open /\ txn[u].open => t = u

(* Most requests touch no TDS record and delete no receipt.                 *)
Stays(c) ==
  /\ c.tds = books.tds
  /\ \A r \in Receipt : books.rc[r].st = "live" => c.rc[r].st = "live"

\* Such a request frees no receipt.
LEMMA StaysLone == ASSUME NEW c, NoDeadTds(books), Stays(c) PROVE Lone(c)
  BY DEF Stays, Lone, NoDeadTds, Frees

\* So does one whose receipts stay and whose TDS records are booked, gone or
\* as they were.
LEMMA RebooksLone ==
  ASSUME NEW c, NoDeadTds(books),
         \A r \in Receipt : books.rc[r].st = "live" => c.rc[r].st = "live",
         \A i \in Invoice : c.tds[i].live \/ c.tds[i] \in {NoTds, books.tds[i]}
  PROVE  Lone(c)
<1>1. NoDeadTds(c)
  BY DEF NoDeadTds, NoTds
<1> QED BY <1>1 DEF Lone, Frees

\* A request that arrives alone keeps the books apart from others.
LEMMA AskSerial ==
  ASSUME TypeOK, SerialInv, ~Busy, NEW c, NEW undoes, Ask(c, undoes), Lone(c)
  PROVE  SerialInv'
<1>1. \A t \in Txn : ~txn[t].open
  BY DEF Busy
<1>2. CASE books' = c /\ UNCHANGED <<txn, torn>>
  BY <1>1, <1>2 DEF SerialInv, Lone
<1>3. ASSUME NEW t \in Txn,
             txn' = [txn EXCEPT ![t] = [open |-> TRUE, was |-> books, new |-> c,
                                        undoes |-> undoes]],
             UNCHANGED <<books, torn, undone>>
      PROVE  SerialInv'
  <2>1. /\ txn'[t].open /\ txn'[t].was = books /\ txn'[t].new = c
        /\ \A u \in Txn \ {t} : txn'[u] = txn[u]
    BY <1>3 DEF TypeOK
  <2>2. Lone(c)'
    BY <1>3 DEF Lone, Frees, NoDeadTds
  <2>3. \A u \in Txn : txn'[u].open => u = t
    BY <1>1, <2>1
  <2>4. Lone(txn[t].new)'
    BY <2>1, <2>2
  <2> QED BY <1>3, <2>1, <2>3, <2>4 DEF SerialInv
<1> QED BY <1>2, <1>3 DEF Ask

\* A session that was alone writes what it made of the books, and tears none.
LEMMA LoneCommit ==
  ASSUME books \in Books, NEW n \in Books, Lone(n)
  PROVE  /\ Torn(books, n, Merged(books, n)) = {}
         /\ NoDeadTds(Merged(books, n))
<1> DEFINE m == Merged(books, n)
<1>1. \A i \in Invoice : m.inv[i] = n.inv[i]
  <2>1. \A i \in Invoice : m.inv[i] = MergedInvoice(books.inv[i], n.inv[i], books.inv[i])
    BY DEF Merged
  <2>2. \A i \in Invoice : n.inv[i] \in InvoiceRow
    BY DEF Books
  <2>3. \A x, y \in InvoiceRow : MergedInvoice(y, x, y) = x
    BY DEF MergedInvoice, Written, InvoiceRow
  <2>4. \A i \in Invoice : books.inv[i] \in InvoiceRow
    BY DEF Books
  <2> HIDE DEF m
  <2> QED BY <2>1, <2>2, <2>3, <2>4
<1>2. \A p \in Po : m.po[p] = n.po[p]
  <2>1. \A p \in Po : m.po[p] = MergedPo(books.po[p], n.po[p], books.po[p])
    BY DEF Merged
  <2>2. \A p \in Po : n.po[p] \in PoRow /\ books.po[p] \in PoRow
    BY DEF Books
  <2>3. \A x, y \in PoRow : MergedPo(y, x, y) = x
    BY DEF MergedPo, Written, PoRow
  <2> HIDE DEF m
  <2> QED BY <2>1, <2>2, <2>3
<1>3. \A r \in Receipt : m.rc[r] = n.rc[r]
  <2>1. \A r \in Receipt : m.rc[r] = MergedReceipt(books.rc[r], n.rc[r], books.rc[r])
    BY DEF Merged
  <2>2. \A r \in Receipt : n.rc[r] \in ReceiptRow /\ books.rc[r] \in ReceiptRow
    BY DEF Books
  <2>3. \A x, y \in ReceiptRow : MergedReceipt(y, x, y) = x
    BY DEF MergedReceipt, Written, ReceiptRow
  <2> HIDE DEF m
  <2> QED BY <2>1, <2>2, <2>3
<1>4. \A i \in Invoice : m.tds[i] = n.tds[i]
  <2>1. \A i \in Invoice : m.tds[i] = Kept(n.tds[i], books, n)
    BY DEF Merged, Written
  <2>2. \A i \in Invoice : n.tds[i].rc \notin Removed(books, n)
    BY DEF Lone, Frees, Removed
  <2> HIDE DEF m
  <2> QED BY <2>1, <2>2 DEF Kept
<1>5. \A k \in Payment : /\ m.pay[k].st = n.pay[k].st /\ m.pay[k].inv = n.pay[k].inv
                         /\ n.pay[k].st = "live" => m.pay[k].rc = n.pay[k].rc
  <2>1. \A k \in Payment : m.pay[k] = Kept(n.pay[k], books, n)
    BY DEF Merged, Written
  <2>2. \A k \in Payment : n.pay[k].st = "live" => n.pay[k].rc \notin Removed(books, n)
    BY DEF Lone, Frees, Removed
  <2>3. \A k \in Payment : n.pay[k] \in PaymentRow
    BY DEF Books
  <2>4. ASSUME NEW k \in Payment
        PROVE  Kept(n.pay[k], books, n).st = n.pay[k].st /\ Kept(n.pay[k], books, n).inv = n.pay[k].inv
    BY <2>3, KeptColumns
  <2> HIDE DEF m
  <2> QED BY <2>1, <2>2, <2>4 DEF Kept
<1> HIDE DEF m
<1>6. ASSUME NEW i \in Invoice PROVE InvoiceView(m, i) = InvoiceView(n, i)
  <2>1. PaymentsOn(m, i) = PaymentsOn(n, i)
    BY <1>5 DEF PaymentsOn
  <2> QED BY <1>1, <1>4, <2>1 DEF InvoiceView
<1>7. ASSUME NEW p \in Po PROVE PoView(m, p) = PoView(n, p)
  <2>1. DrawnOn(m, p) = DrawnOn(n, p)
    BY <1>1 DEF DrawnOn
  <2>2. \A i \in DrawnOn(n, p) : m.inv[i].sub = n.inv[i].sub
    BY <1>1 DEF DrawnOn
  <2>3. [i \in DrawnOn(m, p) |-> m.inv[i].sub] = [i \in DrawnOn(n, p) |-> n.inv[i].sub]
    BY <2>1, <2>2
  <2> QED BY <1>2, <2>3 DEF PoView
<1>8. ASSUME NEW r \in Receipt PROVE ReceiptView(m, r) = ReceiptView(n, r)
  <2>1. PaymentsOf(m, r) = PaymentsOf(n, r)
    BY <1>5 DEF PaymentsOf
  <2> QED BY <1>3, <2>1 DEF ReceiptView
<1>9. Torn(books, n, m) = {}
  BY <1>6, <1>7, <1>8 DEF Torn, Clean
<1>10. NoDeadTds(m)
  BY <1>4 DEF Lone, NoDeadTds
<1> QED BY <1>9, <1>10 DEF m

\* The session that ends was the only one.
LEMMA EndSerial ==
  ASSUME TypeOK, SerialInv, NEW t \in Txn, Commit(t) \/ RollBack(t)
  PROVE  SerialInv'
<1>1. /\ txn[t].open /\ txn' = [txn EXCEPT ![t] = Closed] /\ ~Closed.open
      /\ txn[t] \in Session /\ books \in Books
  BY DEF Commit, RollBack, Closed, TypeOK
<1>2. \A u \in Txn : ~txn'[u].open
  BY <1>1 DEF SerialInv, TypeOK
<1>3. CASE Commit(t)
  <2>1. /\ books' = Merged(books, txn[t].new)
        /\ torn' = torn \cup Torn(books, txn[t].new, Merged(books, txn[t].new))
    BY <1>1, <1>3 DEF Commit, SerialInv
  <2>2. torn' = {} /\ NoDeadTds(books)'
    <3>1. txn[t].new \in Books /\ Lone(txn[t].new) /\ torn = {}
      BY <1>1 DEF Session, SerialInv
    <3>2. /\ Torn(books, txn[t].new, Merged(books, txn[t].new)) = {}
          /\ NoDeadTds(Merged(books, txn[t].new))
      BY <1>1, <3>1, LoneCommit
    <3> QED BY <2>1, <3>1, <3>2 DEF NoDeadTds
  <2> QED BY <1>2, <2>2 DEF SerialInv
<1>4. CASE RollBack(t)
  BY <1>2, <1>4 DEF RollBack, SerialInv, NoDeadTds
<1> QED BY <1>3, <1>4

\* A request that leaves TDS records and deletes no receipt.
LEMMA AskStays ==
  ASSUME TypeOK, SerialInv, ~Busy, NEW c, NEW undoes, Ask(c, undoes), Stays(c)
  PROVE  SerialInv'
<1>1. Lone(c)
  BY StaysLone DEF SerialInv
<1> QED BY <1>1, AskSerial

\* One that books or unbooks TDS, and deletes no receipt.
LEMMA AskRebooks ==
  ASSUME TypeOK, SerialInv, ~Busy, NEW c, NEW undoes, Ask(c, undoes),
         \A r \in Receipt : books.rc[r].st = "live" => c.rc[r].st = "live",
         \A i \in Invoice : c.tds[i].live \/ c.tds[i] \in {NoTds, books.tds[i]}
  PROVE  SerialInv'
<1>1. Lone(c)
  BY RebooksLone DEF SerialInv
<1> QED BY <1>1, AskSerial

\* One that only opens an invoice for payment or approves a credit note.
LEMMA MarkSerial ==
  ASSUME SerialInv, ~Busy, books'.tds = books.tds, UNCHANGED <<txn, torn>> PROVE SerialInv'
  BY DEF SerialInv, Busy, NoDeadTds

\* Orders.
LEMMA OrderingSerial == ASSUME TypeOK, SerialInv, ~Busy, Ordering PROVE SerialInv'
<1>1. PICK p \in Po : CancelPo(p) \/ DeletePo(p) \/ \E total \in Orders : UpdatePo(p, total)
  BY DEF Ordering
<1>2. CASE CancelPo(p)
  <2>1. Stays([books EXCEPT !.po[p].status = "Cancelled"])
    BY DEF Stays
  <2> QED BY <1>2, <2>1, AskStays DEF CancelPo, Asks
<1>3. CASE DeletePo(p)
  <2> DEFINE S == RaisedOn(books, p)
             c == [Cascaded(books, S) EXCEPT !.po[p].status = "gone"]
  <2>1. Ask(c, {})
    BY <1>3 DEF DeletePo, Asks
  <2>2. \A i \in Invoice : c.tds[i] \in {NoTds, books.tds[i]}
    BY DEF Cascaded
  <2>3. c.rc = books.rc
    BY DEF Cascaded
  <2> HIDE DEF c
  <2> QED BY <2>1, <2>2, <2>3, AskRebooks
<1>4. CASE \E total \in Orders : UpdatePo(p, total)
  <2>1. PICK total \in Orders : UpdatePo(p, total)
    BY <1>4
  <2> DEFINE c == [books EXCEPT !.po[p] = Consumed([books.po[p] EXCEPT !.total = total], 0)]
  <2>2. Ask(c, {}) /\ Stays(c)
    BY <2>1 DEF UpdatePo, Asks, Stays
  <2> HIDE DEF c
  <2> QED BY <2>2, AskStays
<1> QED BY <1>1, <1>2, <1>3, <1>4

\* Invoices.
LEMMA IssuingSerial == ASSUME TypeOK, SerialInv, ~Busy, Issuing PROVE SerialInv'
<1>1. PICK i \in Invoice :
        \/ \E p \in Po \cup {NoPo}, s \in Base : CreateInvoice(i, p, s) \/ RaiseProforma(i, p, s)
        \/ Convert(i) \/ Confirm(i) \/ UpdateInvoice(i) \/ DeleteInvoice(i) \/ UndoInvoice(i)
  BY DEF Issuing
<1>2. ASSUME NEW p, NEW s, CreateInvoice(i, p, s) PROVE SerialInv'
  <2> DEFINE c == [books EXCEPT !.inv[i] = Blank(p, s, "tax"), !.po = Moved(@, p, s)]
  <2>1. Ask(c, {}) /\ Stays(c)
    BY <1>2 DEF CreateInvoice, Asks, Stays
  <2> HIDE DEF c
  <2> QED BY <2>1, AskStays
<1>3. ASSUME NEW p, NEW s, RaiseProforma(i, p, s) PROVE SerialInv'
  <2> DEFINE c == [books EXCEPT !.inv[i] = Blank(p, s, "proforma")]
  <2>1. Ask(c, {}) /\ Stays(c)
    BY <1>3 DEF RaiseProforma, Asks, Stays
  <2> HIDE DEF c
  <2> QED BY <2>1, AskStays
<1>4. CASE Convert(i)
  <2> DEFINE c == [books EXCEPT !.inv[i].kind = "tax",
                                !.po = Moved(@, books.inv[i].po, books.inv[i].sub)]
  <2>1. Ask(c, {}) /\ Stays(c)
    BY <1>4 DEF Convert, Asks, Stays
  <2> HIDE DEF c
  <2> QED BY <2>1, AskStays
<1>5. CASE Confirm(i)
  <2>1. books'.tds = books.tds /\ UNCHANGED <<txn, torn>>
    BY <1>5 DEF Confirm
  <2> QED BY <2>1, MarkSerial
<1>6. CASE UpdateInvoice(i)
  <2> DEFINE c == [books EXCEPT !.inv[i] = Refreshed(@)]
  <2>1. Ask(c, {}) /\ Stays(c)
    BY <1>6 DEF UpdateInvoice, Asks, Stays
  <2> HIDE DEF c
  <2> QED BY <2>1, AskStays
<1>7. CASE DeleteInvoice(i) \/ UndoInvoice(i)
  <2> DEFINE c == [Cascaded(books, {i}) EXCEPT !.po = Released(books, i)]
  <2>1. \E undoes : Ask(c, undoes)
    BY <1>7 DEF DeleteInvoice, UndoInvoice, Asks
  <2>2. \A j \in Invoice : c.tds[j] \in {NoTds, books.tds[j]}
    BY DEF Cascaded
  <2>3. c.rc = books.rc
    BY DEF Cascaded
  <2> HIDE DEF c
  <2> QED BY <2>1, <2>2, <2>3, AskRebooks
<1> QED BY <1>1, <1>2, <1>3, <1>4, <1>5, <1>6, <1>7

\* Payments: a removed receipt had the one payment, and no TDS.
LEMMA ReverseSerial ==
  ASSUME TypeOK, SerialInv, ~Busy, NEW k \in Payment, NEW remove \in BOOLEAN,
         ReversePayment(k, remove)
  PROVE  SerialInv'
<1> DEFINE pay == books.pay[k]
           c == [books EXCEPT !.inv[pay.inv] = PaidMore(@, -pay.amount), !.pay[k].st = "gone"]
           back == [c EXCEPT !.rc[pay.rc] = PutBack(@, pay.amount)]
           gone == [c EXCEPT !.rc[pay.rc].st = "gone"]
<1>1. books \in Books
  BY DEF TypeOK
<1>2. CASE Asks(c)
  <2>1. Stays(c)
    BY DEF Stays
  <2> HIDE DEF c
  <2> QED BY <1>2, <2>1, AskStays DEF Asks
<1>3. CASE Asks(back)
  <2>1. books.rc \in [Receipt -> ReceiptRow]
    BY <1>1 DEF Books
  <2>2. back.tds = books.tds /\ back.rc = [books.rc EXCEPT ![pay.rc] = PutBack(@, pay.amount)]
    OBVIOUS
  <2>3. \A row \in ReceiptRow : PutBack(row, pay.amount).st = row.st
    BY DEF PutBack, ReceiptRow
  <2>4. Stays(back)
    <3> HIDE DEF back, pay
    <3> QED BY <2>1, <2>2, <2>3 DEF Stays
  <2> HIDE DEF back
  <2> QED BY <1>3, <2>4, AskStays DEF Asks
<1>4. CASE /\ pay.rc # NoReceipt /\ PaymentsOf(books, pay.rc) = {k}
           /\ \A i \in Invoice : ~(books.tds[i].live /\ books.tds[i].rc = pay.rc)
           /\ Asks(gone)
  <2>1. pay.rc \in Receipt
    BY <1>1, <1>4 DEF Books, PaymentRow
  <2>2. gone.tds = books.tds /\ \A r \in Receipt \ {pay.rc} : gone.rc[r] = books.rc[r]
    BY <1>1 DEF Books
  <2>3. \A j \in Payment : j # k => gone.pay[j] = books.pay[j]
    BY <1>1 DEF Books
  <2>4. gone.pay[k].st = "gone"
    BY <1>1 DEF Books, PaymentRow
  <2>5. NoDeadTds(gone)
    BY <2>2 DEF SerialInv, NoDeadTds
  <2>6. Frees(gone)
    <3> SUFFICES ASSUME NEW r \in Receipt, books.rc[r].st = "live", gone.rc[r].st = "gone"
                 PROVE  /\ \A j \in Payment : gone.pay[j].st = "live" => gone.pay[j].rc # r
                        /\ \A i \in Invoice : gone.tds[i].rc # r
      BY DEF Frees
    <3>1. r = pay.rc
      <4> HIDE DEF gone, pay
      <4> QED BY <2>2
    <3>2. \A j \in Payment : gone.pay[j].st = "live" => gone.pay[j].rc # r
      <4>1. \A j \in Payment : books.pay[j].st = "live" /\ books.pay[j].rc = pay.rc => j = k
        BY <1>4 DEF PaymentsOf
      <4> HIDE DEF gone, pay
      <4> QED BY <2>3, <2>4, <3>1, <4>1
    <3>3. \A i \in Invoice : gone.tds[i].rc # r
      <4>1. pay.rc # NoReceipt
        BY <1>4
      <4> HIDE DEF gone, pay
      <4> QED BY <1>4, <2>2, <3>1, <4>1 DEF SerialInv, NoDeadTds
    <3> QED BY <3>2, <3>3
  <2> HIDE DEF gone
  <2> QED BY <1>4, <2>5, <2>6, AskSerial DEF Asks, Lone
<1> QED BY <1>2, <1>3, <1>4 DEF ReversePayment

\* Payments and TDS of one invoice.
LEMMA CollectingSerial == ASSUME TypeOK, SerialInv, ~Busy, Collecting PROVE SerialInv'
<1>0. books \in Books /\ books.rc \in [Receipt -> ReceiptRow] /\ books.tds \in [Invoice -> TdsRow]
  BY DEF TypeOK, Books
<1>1. ASSUME NEW i \in Invoice, NEW k \in Payment, NEW a \in Cash, NEW r \in Receipt \cup {NoReceipt},
             RecordPayment(i, k, a, r)
      PROVE  SerialInv'
  <2> DEFINE c == [books EXCEPT !.inv[i] = PaidMore(@, a), !.pay[k] = Payments(i, r, a)]
             d == [books EXCEPT !.inv[i] = PaidMore(@, a), !.pay[k] = Payments(i, r, a),
                                !.rc[r].left = @ - a]
  <2>1. Ask(c, {}) \/ (Ask(d, {}) /\ r # NoReceipt)
    BY <1>1 DEF RecordPayment, Asks
  <2>2. Stays(c)
    BY DEF Stays
  <2>3. r # NoReceipt => Stays(d)
    <3>1. d.tds = books.tds /\ d.rc = [books.rc EXCEPT ![r].left = @ - a]
      OBVIOUS
    <3> HIDE DEF d
    <3> QED BY <1>0, <3>1 DEF Stays, ReceiptRow
  <2> HIDE DEF c, d
  <2> QED BY <2>1, <2>2, <2>3, AskStays
<1>2. ASSUME NEW i \in Invoice, NEW k \in Payment, NEW a \in Cash, NEW r \in Receipt,
             RecordReceived(i, k, a, r)
      PROVE  SerialInv'
  <2> DEFINE c == [books EXCEPT !.inv[i] = PaidMore(@, a), !.pay[k] = Payments(i, r, a),
                                !.rc[r] = [st |-> "live", amount |-> a, left |-> 0]]
  <2>1. Ask(c, {})
    BY <1>2 DEF RecordReceived, Asks
  <2>2. c.tds = books.tds /\ c.rc = [books.rc EXCEPT ![r] = [st |-> "live", amount |-> a, left |-> 0]]
    OBVIOUS
  <2> HIDE DEF c
  <2>3. Stays(c)
    BY <1>0, <2>2 DEF Stays
  <2> QED BY <2>1, <2>3, AskStays
<1>3. ASSUME NEW i \in Invoice, TdsReceived(i) PROVE SerialInv'
  <2> DEFINE c == [books EXCEPT !.tds[i].got = TRUE]
  <2>1. Ask(c, {}) /\ books.tds[i].live
    BY <1>3 DEF TdsReceived, Asks
  <2>2. c.rc = books.rc /\ \A j \in Invoice : c.tds[j].live = books.tds[j].live /\ (j # i => c.tds[j] = books.tds[j])
    BY <1>0 DEF TdsRow
  <2> HIDE DEF c
  <2> QED BY <2>1, <2>2, AskRebooks
<1>4. ASSUME NEW i \in Invoice, DeleteTds(i) PROVE SerialInv'
  <2> DEFINE c == [books EXCEPT !.inv[i] = Withheld(@, -books.tds[i].amount), !.tds[i] = NoTds]
  <2>1. Ask(c, {})
    BY <1>4 DEF DeleteTds, Asks
  <2>2. c.rc = books.rc /\ \A j \in Invoice : c.tds[j] \in {NoTds, books.tds[j]}
    BY <1>0
  <2> HIDE DEF c
  <2> QED BY <2>1, <2>2, AskRebooks
<1>5. ASSUME NEW i \in Invoice, NEW a \in Cash, RecordTds(i, a) PROVE SerialInv'
  <2> DEFINE c == [books EXCEPT !.inv[i] = Withheld(@, a), !.tds[i] = Tds(a, NoReceipt)]
  <2>1. Ask(c, {})
    BY <1>5 DEF RecordTds, Asks
  <2>2. c.rc = books.rc /\ \A j \in Invoice : c.tds[j] = books.tds[j] \/ c.tds[j] = Tds(a, NoReceipt)
    BY <1>0
  <2>3. Tds(a, NoReceipt).live
    BY DEF Tds
  <2> HIDE DEF c
  <2>4. \A j \in Invoice : c.tds[j].live \/ c.tds[j] \in {NoTds, books.tds[j]}
    BY <2>2, <2>3
  <2> QED BY <2>1, <2>2, <2>4, AskRebooks
<1> QED BY <1>1, <1>2, <1>3, <1>4, <1>5, ReverseSerial DEF Collecting

\* Mapping a received amount books TDS and takes payments of it.
LEMMA SettledSerial ==
  ASSUME TypeOK, SerialInv, ~Busy, NEW r \in Receipt, NEW w, NEW take, NEW o, NEW row,
         row.st = "live", Ask([Settled(r, w, take, o) EXCEPT !.rc[r] = row], {})
  PROVE  SerialInv'
<1> DEFINE c == [Settled(r, w, take, o) EXCEPT !.rc[r] = row]
<1>1. c.rc = [books.rc EXCEPT ![r] = row]
  BY DEF Settled
<1>2. \A i \in Invoice : c.tds[i] = books.tds[i] \/ c.tds[i] = Tds(w[i], r)
  BY DEF Settled
<1>3. \A i \in Invoice : Tds(w[i], r).live
  BY DEF Tds
<1>4. books.rc \in [Receipt -> ReceiptRow] /\ Ask(c, {})
  BY DEF TypeOK, Books
<1> HIDE DEF c
<1>5. \A q \in Receipt : books.rc[q].st = "live" => c.rc[q].st = "live"
  BY <1>1, <1>4
<1>6. \A i \in Invoice : c.tds[i].live \/ c.tds[i] \in {NoTds, books.tds[i]}
  BY <1>2, <1>3
<1> QED BY <1>4, <1>5, <1>6, AskRebooks

\* A received amount taken off invoices takes its TDS and payments along.
LEMMA UnsettledIs ==
  ASSUME books \in Books, NoDeadTds(books), NEW r \in Receipt, NEW S \in SUBSET Invoice
  PROVE  /\ Unsettled(r, S).rc = books.rc
         /\ \A i \in Invoice : Unsettled(r, S).tds[i] \in {NoTds, books.tds[i]}
         /\ \A i \in S : Unsettled(r, S).tds[i].rc # r
         /\ \A k \in Payment : /\ Unsettled(r, S).pay[k].st = "live" => books.pay[k].st = "live"
                               /\ Unsettled(r, S).pay[k].rc = books.pay[k].rc
                               /\ books.pay[k].rc = r /\ books.pay[k].inv \in S
                                    => Unsettled(r, S).pay[k].st # "live"
<1> DEFINE u == Unsettled(r, S)
<1>1. u.rc = books.rc
  BY DEF Unsettled
<1>2. \A i \in Invoice :
        u.tds[i] = IF i \in S /\ OfReceipt(books, r, i) THEN NoTds ELSE books.tds[i]
  BY DEF Unsettled
<1>3. \A k \in Payment :
        u.pay[k] = IF books.pay[k].st = "live" /\ books.pay[k].rc = r /\ books.pay[k].inv \in S
                     THEN [books.pay[k] EXCEPT !.st = "gone"] ELSE books.pay[k]
  BY DEF Unsettled
<1>4. \A row \in PaymentRow :
        [row EXCEPT !.st = "gone"].st = "gone" /\ [row EXCEPT !.st = "gone"].rc = row.rc
  BY DEF PaymentRow
<1>5. books.pay \in [Payment -> PaymentRow] /\ NoTds.rc # r
  BY BooksAssumption DEF Books, NoTds
<1>6. \A i \in S : u.tds[i].rc # r
  <2>1. \A i \in Invoice : ~books.tds[i].live => books.tds[i].rc # r
    BY BooksAssumption DEF NoDeadTds
  <2> HIDE DEF u
  <2> QED BY <1>2, <1>5, <2>1 DEF OfReceipt
<1>7. \A i \in Invoice : u.tds[i] \in {NoTds, books.tds[i]}
  BY <1>2
<1> HIDE DEF u
<1>8. \A k \in Payment : /\ u.pay[k].st = "live" => books.pay[k].st = "live"
                         /\ u.pay[k].rc = books.pay[k].rc
                         /\ books.pay[k].rc = r /\ books.pay[k].inv \in S => u.pay[k].st # "live"
  BY <1>3, <1>4, <1>5
<1> QED BY <1>1, <1>6, <1>7, <1>8 DEF u

\* A received amount that is deleted leaves nothing that names it.
LEMMA DeleteReceiptSerial ==
  ASSUME TypeOK, SerialInv, ~Busy, NEW r \in Receipt, DeleteReceipt(r) PROVE SerialInv'
<1> DEFINE u == Unsettled(r, Invoice)
           c == [u EXCEPT !.rc[r].st = "gone"]
<1>1. Ask(c, {}) /\ books \in Books /\ NoDeadTds(books)
  BY DEF DeleteReceipt, Asks, TypeOK, SerialInv
<1>2. /\ u.rc = books.rc
      /\ \A i \in Invoice : u.tds[i] \in {NoTds, books.tds[i]} /\ u.tds[i].rc # r
      /\ \A k \in Payment : /\ u.pay[k].st = "live" => books.pay[k].st = "live"
                            /\ u.pay[k].rc = books.pay[k].rc
                            /\ books.pay[k].rc = r /\ books.pay[k].inv \in Invoice
                                 => u.pay[k].st # "live"
  BY <1>1, UnsettledIs
<1>3. c.tds = u.tds /\ c.pay = u.pay /\ c.rc = [u.rc EXCEPT ![r].st = "gone"]
  BY DEF Unsettled
<1>4. books.rc \in [Receipt -> ReceiptRow] /\ books.pay \in [Payment -> PaymentRow]
  BY <1>1 DEF Books
<1> HIDE DEF c, u
<1>5. NoDeadTds(c)
  BY <1>1, <1>2, <1>3 DEF NoDeadTds, NoTds
<1>6. Frees(c)
  <2> SUFFICES ASSUME NEW q \in Receipt, books.rc[q].st = "live", c.rc[q].st = "gone"
               PROVE  /\ \A k \in Payment : c.pay[k].st = "live" => c.pay[k].rc # q
                      /\ \A i \in Invoice : c.tds[i].rc # q
    BY DEF Frees
  <2>1. q = r
    BY <1>2, <1>3, <1>4
  <2>2. \A k \in Payment : books.pay[k].st = "live" => books.pay[k].inv \in Invoice
    BY <1>4 DEF PaymentRow
  <2> QED BY <1>2, <1>3, <2>1, <2>2
<1> QED BY <1>1, <1>5, <1>6, AskSerial DEF Lone

\* Received amounts.
LEMMA ReceivingSerial == ASSUME TypeOK, SerialInv, ~Busy, Receiving PROVE SerialInv'
<1>0. books \in Books /\ books.rc \in [Receipt -> ReceiptRow] /\ NoDeadTds(books)
  BY DEF TypeOK, Books, SerialInv
<1>1. ASSUME NEW r \in Receipt, NEW S \in SUBSET Invoice, NEW w, Allocate(r, S, w) PROVE SerialInv'
  <2>1. PICK take, o, left :
          Ask([Settled(r, w, take, o) EXCEPT !.rc[r].left = left], {})
    BY <1>1 DEF Allocate, Asks
  <2> DEFINE row == [books.rc[r] EXCEPT !.left = left]
  <2>2. Settled(r, w, take, o).rc = books.rc
    BY DEF Settled
  <2>3. [Settled(r, w, take, o) EXCEPT !.rc[r].left = left]
          = [Settled(r, w, take, o) EXCEPT !.rc[r] = row]
    BY <2>2
  <2>4. row.st = "live"
    BY <1>0, <1>1 DEF Allocate, ReceiptRow
  <2> HIDE DEF row
  <2> QED BY <2>1, <2>3, <2>4, SettledSerial
<1>2. ASSUME NEW r \in Receipt, NEW S \in SUBSET Invoice, NEW w, NEW cash \in Cash,
             CreateReceipt(r, cash, S, w)
      PROVE  SerialInv'
  <2>1. PICK take, o, left :
          Ask([Settled(r, w, take, o) EXCEPT
                 !.rc[r] = [st |-> "live", amount |-> cash, left |-> left]], {})
    BY <1>2 DEF CreateReceipt, Asks
  <2>2. [st |-> "live", amount |-> cash, left |-> left].st = "live"
    OBVIOUS
  <2> QED BY <2>1, <2>2, SettledSerial
<1>3. ASSUME NEW r \in Receipt, NEW i \in Invoice, UnmapInvoice(r, i) PROVE SerialInv'
  <2> DEFINE u == Unsettled(r, {i})
             c == [u EXCEPT !.rc[r] = PutBack(@, Mapped(books, r, i))]
  <2>1. Ask(c, {})
    BY <1>3 DEF UnmapInvoice, Asks
  <2>2. u.rc = books.rc /\ \A j \in Invoice : u.tds[j] \in {NoTds, books.tds[j]}
    BY <1>0, UnsettledIs
  <2>3. c.tds = u.tds /\ c.rc = [u.rc EXCEPT ![r] = PutBack(@, Mapped(books, r, i))]
    BY DEF Unsettled
  <2>4. \A row \in ReceiptRow : PutBack(row, Mapped(books, r, i)).st = row.st
    BY DEF PutBack, ReceiptRow
  <2> HIDE DEF c, u
  <2>5. \A q \in Receipt : books.rc[q].st = "live" => c.rc[q].st = "live"
    BY <1>0, <2>2, <2>3, <2>4
  <2> QED BY <2>1, <2>2, <2>3, <2>5, AskRebooks
<1>4. ASSUME NEW r \in Receipt, NEW a \in Cash, UpdateReceipt(r, a) PROVE SerialInv'
  <2>1. PICK left : Ask([books EXCEPT !.rc[r].amount = a, !.rc[r].left = left], {})
    BY <1>4 DEF UpdateReceipt, Asks
  <2> DEFINE c == [books EXCEPT !.rc[r].amount = a, !.rc[r].left = left]
  <2>2. c.tds = books.tds /\ \A q \in Receipt : c.rc[q].st = books.rc[q].st
    BY <1>0 DEF Books, ReceiptRow
  <2>3. Ask(c, {})
    BY <2>1
  <2> HIDE DEF c
  <2> QED BY <2>2, <2>3, AskStays DEF Stays
<1> QED BY <1>1, <1>2, <1>3, <1>4, DeleteReceiptSerial DEF Receiving

\* Credit notes.
LEMMA CreditingSerial == ASSUME TypeOK, SerialInv, ~Busy, Crediting PROVE SerialInv'
<1>1. ASSUME NEW m \in Note, ApproveNote(m) PROVE SerialInv'
  <2>1. books'.tds = books.tds /\ UNCHANGED <<txn, torn>>
    BY <1>1 DEF ApproveNote
  <2> QED BY <2>1, MarkSerial
<1>2. ASSUME NEW m \in Note, NEW i, NEW a, CreateNote(m, i, a) PROVE SerialInv'
  <2> DEFINE c == [books EXCEPT !.note[m] = [status |-> "Draft", inv |-> i, amount |-> a]]
  <2>1. Ask(c, {}) /\ Stays(c)
    BY <1>2 DEF CreateNote, Asks, Stays
  <2> HIDE DEF c
  <2> QED BY <2>1, AskStays
<1>3. ASSUME NEW m \in Note, CancelNote(m) PROVE SerialInv'
  <2> DEFINE c == [books EXCEPT !.note[m].status = "Cancelled"]
  <2>1. Ask(c, {}) /\ Stays(c)
    BY <1>3 DEF CancelNote, Asks, Stays
  <2> HIDE DEF c
  <2> QED BY <2>1, AskStays
<1>4. ASSUME NEW m \in Note, NEW adjust \in BOOLEAN, SettleNote(m, adjust) PROVE SerialInv'
  <2> DEFINE c == [books EXCEPT !.note[m].status = "Settled"]
             d == [c EXCEPT !.inv[books.note[m].inv] = Credited(@, books.note[m].amount)]
  <2>1. (Ask(c, {}) \/ Ask(d, {})) /\ Stays(c) /\ Stays(d)
    BY <1>4 DEF SettleNote, Asks, Stays
  <2> HIDE DEF c, d
  <2> QED BY <2>1, AskStays
<1> QED BY <1>1, <1>2, <1>3, <1>4 DEF Crediting

\* Change requests.
LEMMA ChangingSerial == ASSUME TypeOK, SerialInv, ~Busy, Changing PROVE SerialInv'
<1>1. ASSUME NEW v \in Revision, NEW i, NEW s, NEW p, NEW admin \in BOOLEAN,
             RequestRevision(v, i, s, p, admin)
      PROVE  SerialInv'
  <2> DEFINE row(status) == [status |-> status, inv |-> i, sub |-> s, po |-> p]
             c == [books EXCEPT !.rev[v] = row("Pending")]
             d == [Revised(i, s, p) EXCEPT !.rev[v] = row("Decided")]
  <2>1. Ask(c, {}) \/ Ask(d, {})
    BY <1>1 DEF RequestRevision, Asks
  <2>2. Stays(c) /\ Stays(d)
    BY DEF Stays, Revised
  <2> HIDE DEF c, d
  <2> QED BY <2>1, <2>2, AskStays
<1>2. ASSUME NEW v \in Revision, ApproveRevision(v) PROVE SerialInv'
  <2> DEFINE rev == books.rev[v]
             revised == Revised(rev.inv, rev.sub, rev.po)
             c == [revised EXCEPT !.rev[v].status = "Decided"]
  <2>1. Ask(c, {})
    BY <1>2 DEF ApproveRevision, Asks
  <2>2. revised.tds = books.tds /\ revised.rc = books.rc
    BY DEF Revised
  <2>3. c.tds = revised.tds /\ c.rc = revised.rc
    BY DEF Revised
  <2> HIDE DEF c, revised
  <2> QED BY <2>1, <2>2, <2>3, AskStays DEF Stays
<1>3. ASSUME NEW v \in Revision, RejectRevision(v) PROVE SerialInv'
  <2> DEFINE c == [books EXCEPT !.rev[v].status = "Decided"]
  <2>1. Ask(c, {}) /\ Stays(c)
    BY <1>3 DEF RejectRevision, Asks, Stays
  <2> HIDE DEF c
  <2> QED BY <2>1, AskStays
<1> QED BY <1>1, <1>2, <1>3 DEF Changing

\* At first no session is open.
LEMMA InitSerial == Init => SerialInv
  BY AbsentTds DEF Init, AbsentTds, SerialInv, NoDeadTds, Closed

\* Sessions one at a time stay so, and tear nothing.
LEMMA NextSerial == TypeOK /\ SerialInv /\ [Next]_vars /\ [OneAtATime]_vars => SerialInv'
<1> SUFFICES ASSUME TypeOK, SerialInv, [Next]_vars, [OneAtATime]_vars PROVE SerialInv'
  OBVIOUS
<1>1. CASE UNCHANGED vars
  BY <1>1 DEF vars, SerialInv, NoDeadTds, Lone, Frees
<1>2. CASE \E t \in Txn : Commit(t) \/ RollBack(t)
  BY <1>2, EndSerial
<1>3. CASE ~Busy /\ Request
  BY <1>3, OrderingSerial, IssuingSerial, CollectingSerial, ReceivingSerial, CreditingSerial,
     ChangingSerial DEF Request
<1> QED BY <1>1, <1>2, <1>3 DEF Next, OneAtATime

\* Rows are torn by overlapping sessions and by nothing else.
THEOREM OnlyOverlapTears == Spec /\ [][OneAtATime]_vars => [](torn = {})
<1>1. Init => IInv /\ SerialInv BY InitHolds, InitSerial
<1>2. IInv => TypeOK BY DEF IInv
<1>3. SerialInv => torn = {} BY DEF SerialInv
<1> QED BY <1>1, <1>2, <1>3, NextHolds, NextSerial, PTL DEF Spec

(* Every account, with no row excepted for overlap.                         *)
AccountsAgree ==
  /\ \A r \in Receipt \ undone : ReceiptAddsUp(books, r)
  /\ \A i \in Invoice :
       /\ InvoiceAddsUp(books, i)
       /\ books.inv[i].credit \/ books.inv[i].balance = Floor(Due(books.inv[i]))
  /\ \A p \in Po :
       /\ OrderAddsUp(books, p)
       /\ books.po[p].consumed <= books.po[p].total
       /\ books.po[p].balance = books.po[p].total - books.po[p].consumed

\* As long as sessions come one at a time all the books agree, for any number
\* of requests, but for the received amounts of an undone invoice and the
\* balances a credit note was taken off.
THEOREM OneAtATimeBooksAgree == Spec /\ [][OneAtATime]_vars => []AccountsAgree
<1>1. /\ torn = {} /\ PoAccounts /\ PaymentsAddUp /\ BalanceDue /\ NeverOverdrawn
      => AccountsAgree
  BY DEF AccountsAgree, PoAccounts, PaymentsAddUp, BalanceDue, NeverOverdrawn
<1> QED BY <1>1, OnlyOverlapTears, OrdersAddUp, PaymentsAreAccounted, BalancesAreDue, OrdersCover, PTL
==============================================================================
