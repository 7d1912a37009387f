---------------------------- MODULE MCReceivables ----------------------------
(* A small instance of Receivables: one tax invoice, part of it paid out of *)
(* a receipt that holds more, and room for a second one.                    *)
EXTENDS Receivables, TLC

CONSTANTS i1, i2, p1, p2, r1, r2, k1, k2, k3, m1, v1, t1

(* GST on top: a tax invoice draws less from an order than it bills.        *)
MCTotal == [s \in Base |-> s + 1]

Row(kind, p, paid) == [kind |-> kind, sub |-> 2, po |-> p, paid |-> paid, tds |-> 0,
                       balance |-> 3 - paid, open |-> kind = "tax", credit |-> FALSE]
OrderRow(consumed) ==
  [status |-> "Active", total |-> 3, consumed |-> consumed, balance |-> 3 - consumed]

MCOpening ==
  [inv |-> i1 :> Row("tax", p1, 1) @@ i2 :> Row("none", NoPo, 0),
   po |-> p1 :> OrderRow(2) @@ p2 :> OrderRow(0),
   rc |-> r1 :> [st |-> "live", amount |-> 2, left |-> 1]
            @@ r2 :> [st |-> "none", amount |-> 0, left |-> 0],
   pay |-> k1 :> Payments(i1, r1, 1)
             @@ [k \in Payment |-> [st |-> "none", inv |-> NoInvoice,
                                    rc |-> NoReceipt, amount |-> 0]],
   tds |-> [i \in Invoice |-> NoTds],
   note |-> [m \in Note |-> [status |-> "none", inv |-> NoInvoice, amount |-> 0]],
   rev |-> [v \in Revision |-> [status |-> "none", inv |-> NoInvoice, sub |-> 0, po |-> NoPo]]]

FreshPayments == Permutations(Payment \ {k1})
==============================================================================
