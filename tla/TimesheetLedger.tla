---------------------------- MODULE TimesheetLedger ----------------------------
(***************************************************************************)
(* The leave ledger of timesheets (backend/services/timesheets.py,         *)
(* services/project_employees.py, routers/crm/timesheets.py).              *)
(*                                                                         *)
(* The monthly sheets of one project assignment draw on the balances in    *)
(* project_employee_leave_details.  Saving a sheet credits the comp-off    *)
(* its weekend work earned; submitting, approving and recalculating apply  *)
(* the difference between what its leave days need and what the ledger     *)
(* says was taken; rejecting and deleting take everything back.            *)
(*                                                                         *)
(* A request reads the sheet and its entries without a lock.  When it      *)
(* changes leave it then takes FOR UPDATE locks on the balance rows and    *)
(* holds them to its commit.  Nothing between the lock and the commit is   *)
(* visible to others, so both are one action here (Finish).                *)
(*                                                                         *)
(* Sessions run with autoflush off: a query sees the objects the session   *)
(* has changed (the balance rows), and of the ledger only rows that were   *)
(* committed before.  A row the session read and did not change is no      *)
(* longer referenced and is read again.                                    *)
(*                                                                         *)
(* Abstractions.  Days are integers.  Leave is of two types, one paid      *)
(* policy type and Comp-Off; Loss of Pay has a ledger but no limit.  The   *)
(* balance rows exist.  Invoices are not modelled: a sheet with a live one *)
(* takes no Recalculate and no Reject.  Crediting leave each month and     *)
(* leave applications, which also move the balances, are not modelled.     *)
(***************************************************************************)
EXTENDS Integers, FiniteSets, FiniteSetsExt

CONSTANTS
  Sheet,          \* the timesheets of one assignment
  User,           \* sessions that work on them
  Opening,        \* Opening[t]: balance of type t to begin with
  Contents,       \* what a sheet can be filled with
  NoEntries,      \* the entries of a new sheet
  CompOffLimit,   \* comp_off_max_limit of the customer; any high number for NULL
  NoFigures,      \* approved_figures = NULL
  NoSheet,
  Policies        \* billing policies, a change of policy picks any of them

CONSTANTS         \* bounds
  MaxRequests,    \* requests handled in all
  MaxOverlaps,    \* requests that begin while another one is handled
  MaxPolicies     \* changes of the billing policy

Paid == {"leave", "compoff"}

\* leave, compoff: days of leave of a type; worked: weekend days worked.
Content == [leave : Nat, compoff : Nat, worked : Nat]
\* credit: weekend work is credited, not billed; covers: it first makes up LOP.
Policy == [credit : BOOLEAN, covers : BOOLEAN]
Blank == [leave |-> 0, compoff |-> 0, worked |-> 0]

ASSUME LedgerAssumption ==
  /\ IsFiniteSet(Sheet) /\ Opening \in [Paid -> Nat]
  /\ Contents \subseteq Content /\ NoEntries \in Content \ Contents
  /\ Policies \subseteq Policy
  /\ CompOffLimit \in Nat /\ {MaxRequests, MaxOverlaps, MaxPolicies} \subseteq Nat
  /\ NoSheet \notin Sheet /\ NoFigures \notin [Paid -> Nat]

VARIABLES
  status,     \* status[s]: timesheets.status
  entries,    \* entries[s]: timesheet_entries
  accrued,    \* accrued[s]: timesheets.comp_off_accrued
  figures,    \* figures[s]: the paid leave days frozen in approved_figures
  balance,    \* balance[t]: project_employee_leave_details.leave_balance
  taken,      \* taken[s][t]: days of paid leave consumed, by the ledger
  lop,        \* lop[s]: days of Loss of Pay, by the ledger
  granted,    \* granted[s]: comp-off credited minus withdrawn, by the ledger
  policy,     \* the billing policy in force
  req,        \* req[u]: the request u is handling
  forgiven,   \* days of comp-off the floor at zero gave away (history)
  overtaken,  \* sheets a recalculation finished on after they left Approved (history)
  used        \* what was used of the bounds

tables == <<status, entries, accrued, figures, balance, taken, lop, granted>>
vars == <<status, entries, accrued, figures, balance, taken, lop, granted,
          policy, req, forgiven, overtaken, used>>

Op == {"save", "submit", "approve", "recalculate", "reject", "delete"}
AccruesFirst == {"save", "approve", "recalculate"}
Reversing == {"reject", "delete"}

Idle == [at |-> "idle", op |-> "save", sheet |-> NoSheet, accrued |-> 0,
         frozen |-> FALSE, entries |-> Blank, read |-> Opening, earned |-> 0,
         prior |-> [t \in Paid |-> 0]]
Request == [at : {"idle", "opened", "read", "waiting"}, op : Op, sheet : Sheet \cup {NoSheet},
            accrued : Nat, frozen : BOOLEAN, entries : Content, read : [Paid -> Int],
            earned : Nat, prior : [Paid -> Nat]]

Init ==
  /\ status = [s \in Sheet |-> "Draft"]
  /\ entries = [s \in Sheet |-> NoEntries]
  /\ accrued = [s \in Sheet |-> 0]
  /\ figures = [s \in Sheet |-> NoFigures]
  /\ balance = Opening
  /\ taken = [s \in Sheet |-> [t \in Paid |-> 0]]
  /\ lop = [s \in Sheet |-> 0]
  /\ granted = [s \in Sheet |-> 0]
  /\ policy \in Policies
  /\ req = [u \in User |-> Idle]
  /\ forgiven = 0 /\ overtaken = {}
  /\ used = [requests |-> 0, overlaps |-> 0, policies |-> 0]

-----------------------------------------------------------------------------
(* Arithmetic of the ledger.                                                *)

Least(a, b) == IF a < b THEN a ELSE b
Most(a, b) == IF a > b THEN a ELSE b
Plus(f, g) == [t \in Paid |-> f[t] + g[t]]

\* Mutant: the available balance is not cut at zero.
Overdrawn(content, avail) == [t \in Paid |-> Least(content[t], avail[t])]
\* classify_timesheet_leave_paid_vs_lop: the paid days of each type, out of what
\* is available before the sheet's own consumption; the rest is Loss of Pay.
PaidDays(content, avail) ==
  [t \in Paid |-> Least(content[t], Most(avail[t], 0))]

LopDays(content, avail) ==
  content.leave + content.compoff
    - PaidDays(content, avail).leave - PaidDays(content, avail).compoff

\* comp_off_earned, less the part that makes up for Loss of Pay.
\* Left out of timesheet_summary: Loss of Pay of absent and half days, and days
\* above a monthly cap, which earn comp-off as well.
Earned(content, avail) ==
  IF ~policy.credit THEN 0
  ELSE content.worked
         - (IF policy.covers THEN Least(LopDays(content, avail), content.worked) ELSE 0)

\* Mutant: what the sheet was already granted is ignored.
EarnedAgain(earned, prior) == earned
\* accrue_comp_off applies the difference to what the sheet was granted.
Difference(earned, prior) == earned - prior

\* The customer's limit cuts a credit; a withdrawal is never cut.
Credit(delta, bal) ==
  IF delta > 0 THEN Least(delta, Most(CompOffLimit - bal, 0)) ELSE delta

-----------------------------------------------------------------------------
(* The first part of a request: unlocked reads.                             *)

Allowed(op) ==
  CASE op \in {"save", "submit"} -> {"Draft", "Rejected"}
    [] op = "approve"            -> {"Submitted"}
    [] op = "recalculate"        -> {"Approved"}
    [] op = "reject"             -> {"Submitted", "Approved"}
    [] op = "delete"             -> {"Draft", "Rejected", "Submitted", "Approved"}

\* The handler loads the sheet and checks its status; the object stays in the
\* session, so its columns are not read again.
Open(u, op, s) ==
  /\ req[u].at = "idle" /\ used.requests < MaxRequests
  /\ status[s] \in Allowed(op)
  /\ req' = [req EXCEPT ![u] = [Idle EXCEPT !.at = "opened", !.op = op, !.sheet = s,
                                  !.accrued = accrued[s], !.frozen = figures[s] # NoFigures]]
  /\ IF \A v \in User : req[v].at = "idle"
     THEN used' = [used EXCEPT !.requests = @ + 1]
     ELSE /\ used.overlaps < MaxOverlaps
          /\ used' = [used EXCEPT !.requests = @ + 1, !.overlaps = @ + 1]
  /\ UNCHANGED <<tables, policy, forgiven, overtaken>>

\* The entries (the posted ones of a save) and the balances are read, for the
\* billable days or, when the handler accrues first, for the comp-off earned.
Read(u, content) ==
  LET s == req[u].sheet
      avail == Plus(balance, taken[s])
  IN
  /\ req[u].at = "opened" /\ req[u].op \notin Reversing
  /\ IF req[u].op = "save" THEN content \in Contents ELSE content = entries[s]
  /\ content # NoEntries
  /\ req' = [req EXCEPT ![u].at = "read", ![u].entries = content, ![u].read = balance,
                        ![u].earned = IF req[u].op \in AccruesFirst
                                      THEN Earned(content, avail) ELSE 0]
  /\ UNCHANGED <<tables, policy, forgiven, overtaken, used>>

\* consume_timesheet_leaves reads the sheet's own consumption, then asks for the
\* locks of the balance rows.
Wait(u) ==
  /\ \/ req[u].at = "read" /\ req[u].op # "save"
     \/ req[u].at = "opened" /\ req[u].op \in Reversing
  /\ req' = [req EXCEPT ![u].at = "waiting", ![u].prior = taken[req[u].sheet]]
  /\ UNCHANGED <<tables, policy, forgiven, overtaken, used>>

Done(u) == req' = [req EXCEPT ![u] = Idle]

\* The sheet was deleted in between.  An UPDATE that finds no row fails; a DELETE
\* that finds none is only warned about.
Gone(u) == status[req[u].sheet] = "deleted" /\ req[u].op # "delete"

\* The handler's transaction fails: the sheet is gone, or the balance is short.
Abort(u) ==
  /\ Done(u)
  /\ UNCHANGED <<tables, policy, forgiven, overtaken, used>>

-----------------------------------------------------------------------------
(* Comp-off, read without a lock and written as an absolute value.          *)

AccrualOf(u) ==
  IF req[u].op \in AccruesFirst
  THEN Difference(req[u].earned, req[u].accrued) ELSE 0

\* A column that ends at the value it was loaded with is not updated.
Written(u, value) ==
  IF AccrualOf(u) # 0 /\ value = req[u].read.compoff THEN balance.compoff ELSE value

\* upsert_entries: the posted entries and the comp-off they earn.
Save(u) ==
  LET s == req[u].sheet
      delta == AccrualOf(u)
      credit == Credit(delta, req[u].read.compoff)
  IN
  /\ req[u].at = "read" /\ req[u].op = "save" /\ ~Gone(u)
  /\ entries' = [entries EXCEPT ![s] = req[u].entries]
  /\ IF delta = 0 THEN UNCHANGED <<accrued, balance, granted>>
     ELSE /\ accrued' = [accrued EXCEPT ![s] = req[u].earned]
          /\ balance' = [balance EXCEPT !.compoff = Written(u, req[u].read.compoff + credit)]
          /\ granted' = [granted EXCEPT ![s] = @ + credit]
  /\ Done(u)
  /\ UNCHANGED <<status, figures, taken, lop, policy, forgiven, overtaken, used>>

-----------------------------------------------------------------------------
(* Consumption, under the row locks.                                        *)

\* Mutant: no FOR UPDATE, the balances are those of the first read.
UnlockedBalance(u) == req[u].read
\* Under the lock the rows are read afresh.
LockedBalance(u) == balance

\* Mutant: the locking query refreshes the row and drops the accrual made in it.
Refreshed(u) == LockedBalance(u)
\* What the session holds of the balance rows: an accrual made before the lock
\* has changed the comp-off row, which the locking query does not refresh.
SessionBalance(u) ==
  IF AccrualOf(u) = 0 THEN LockedBalance(u)
  ELSE [LockedBalance(u) EXCEPT !.compoff =
          req[u].read.compoff + Credit(AccrualOf(u), req[u].read.compoff)]

\* Mutant: a reversal leaves the days of the entries consumed.
StillNeeded(u) == IF req[u].op \in Reversing THEN entries[req[u].sheet] ELSE req[u].entries
\* Reversals consume for an empty list of entries.
Needed(u) == IF req[u].op \in Reversing THEN Blank ELSE req[u].entries

Split(u) == PaidDays(Needed(u), Plus(SessionBalance(u), req[u].prior))

\* Mutant: what the sheet consumed before is ignored.
NothingTaken(u) == [t \in Paid |-> 0]
\* The ledger is queried again under the lock.
Already(u) == taken[req[u].sheet]

Delta(u) == [t \in Paid |-> Split(u)[t] - Already(u)[t]]

\* consume_pe_leave answers 400 when a paid type is short.
Short(u) == \E t \in Paid : Delta(u)[t] > 0 /\ Delta(u)[t] > SessionBalance(u)[t]

\* The rows after consumption; a row that moved is floored at zero.
AfterDebit(u) ==
  [t \in Paid |-> IF Delta(u)[t] = 0 THEN SessionBalance(u)[t]
                  ELSE Most(SessionBalance(u)[t] - Delta(u)[t], 0)]

Forgiven(u) ==
  AfterDebit(u).compoff - (SessionBalance(u).compoff - Delta(u).compoff)

\* What a classification inside the transaction takes as available: the rows
\* are already debited, the new ledger rows are not flushed.
AvailableInSession(u) == Plus(AfterDebit(u), taken[req[u].sheet])

\* submit and the reversals accrue last.
EarnedLast(u) ==
  IF req[u].op \in Reversing THEN 0 ELSE Earned(Needed(u), AvailableInSession(u))

LastAccrual(u) ==
  IF req[u].op \in AccruesFirst THEN 0 ELSE Difference(EarnedLast(u), req[u].accrued)

StatusAfter(op) ==
  CASE op = "submit"  -> "Submitted"
    [] op = "approve" -> "Approved"
    [] op = "reject"  -> "Rejected"
    [] op = "delete"  -> "deleted"

\* freeze_invoice_figures runs the classification once more; a reversal clears
\* the column when the session had read a value in it.
\* An approval that cannot work them out clears it too: only without an assignment,
\* and every sheet here has one.
FiguresAfter(u) ==
  LET s == req[u].sheet IN
  IF req[u].op \in {"approve", "recalculate"}
  THEN PaidDays(Needed(u), AvailableInSession(u))
  ELSE IF req[u].op \in Reversing /\ req[u].frozen THEN NoFigures
  ELSE figures[s]

Finish(u) ==
  LET s == req[u].sheet
      op == req[u].op
      first == IF AccrualOf(u) = 0 THEN 0 ELSE Credit(AccrualOf(u), req[u].read.compoff)
      last == Credit(LastAccrual(u), AfterDebit(u).compoff)
  IN
  /\ req[u].at = "waiting" /\ ~Gone(u) /\ ~Short(u)
  /\ status' = IF op = "recalculate" THEN status
               ELSE [status EXCEPT ![s] = StatusAfter(op)]
  /\ figures' = [figures EXCEPT ![s] = FiguresAfter(u)]
  /\ taken' = [taken EXCEPT ![s] = Plus(@, Delta(u))]
  /\ lop' = [lop EXCEPT ![s] = LopDays(Needed(u), Plus(SessionBalance(u), req[u].prior))]
  /\ balance' = [AfterDebit(u) EXCEPT !.compoff = Written(u, @ + last)]
  /\ granted' = [granted EXCEPT ![s] = @ + first + last]
  /\ accrued' = [accrued EXCEPT ![s] =
                   IF AccrualOf(u) # 0 THEN req[u].earned
                   ELSE IF LastAccrual(u) # 0 THEN EarnedLast(u) ELSE @]
  /\ forgiven' = forgiven + Forgiven(u)
  /\ overtaken' = IF op = "recalculate" /\ status[s] # "Approved"
                  THEN overtaken \cup {s}
                  ELSE IF op # "recalculate" THEN overtaken \ {s} ELSE overtaken
  /\ Done(u)
  /\ UNCHANGED <<entries, policy, used>>

Fail(u) ==
  /\ \/ req[u].at = "read" /\ req[u].op = "save" /\ Gone(u)
     \/ req[u].at = "waiting" /\ (Gone(u) \/ Short(u))
     \/ /\ req[u].at = "opened" /\ req[u].op \notin Reversing \cup {"save"}
        /\ entries[req[u].sheet] = NoEntries
  /\ Abort(u)

ChangePolicy(p) ==
  /\ p # policy /\ used.policies < MaxPolicies
  /\ policy' = p
  /\ used' = [used EXCEPT !.policies = @ + 1]
  /\ UNCHANGED <<tables, req, forgiven, overtaken>>

-----------------------------------------------------------------------------
Handle(u) ==
  \/ \E op \in Op, s \in Sheet : Open(u, op, s)
  \/ \E content \in Contents : Read(u, content)
  \/ Wait(u)
  \/ Save(u)
  \/ Finish(u)
  \/ Fail(u)

Next ==
  \/ \E u \in User : Handle(u)
  \/ \E p \in Policies : ChangePolicy(p)

Spec == Init /\ [][Next]_vars
-----------------------------------------------------------------------------
(* Properties.                                                              *)

\* The types of the tables, of the requests and of the history; the ledger never
\* holds a negative consumption.
TypeOK ==
  /\ status \in [Sheet -> {"Draft", "Submitted", "Approved", "Rejected", "deleted"}]
  /\ entries \in [Sheet -> Content] /\ accrued \in [Sheet -> Nat]
  /\ figures \in [Sheet -> {NoFigures} \cup [Paid -> Nat]]
  /\ balance \in [Paid -> Int]
  /\ taken \in [Sheet -> [Paid -> Nat]] /\ lop \in [Sheet -> Nat]
  /\ granted \in [Sheet -> Int]
  /\ policy \in Policy /\ req \in [User -> Request]
  /\ forgiven \in Nat /\ overtaken \subseteq Sheet
  /\ used \in [requests : Nat, overlaps : Nat, policies : Nat]

\* No request ever began while another was handled.
Serial == used.overlaps = 0

TakenOf(t) == MapThenSumSet(LAMBDA s : taken[s][t], Sheet)

\* Concurrent requests on the sheets of one assignment never consume more paid
\* leave than there is, and the balance is always what the ledger leaves of it.
PaidLeaveConserved ==
  balance["leave"] >= 0 /\ balance["leave"] + TakenOf("leave") = Opening["leave"]

\* A sheet that is back in its owner's hands, or gone, holds no leave, whatever
\* order approvals, rejections and submissions of it end in.  The one exception
\* is a recalculation that a rejection overtakes: it takes the leave again.
ReleasedWithStatus ==
  \A s \in Sheet \ overtaken :
    status[s] \notin {"Submitted", "Approved"} =>
      lop[s] = 0 /\ \A t \in Paid : taken[s][t] = 0

\* When requests do not overlap: every leave day of a sheet under approval or
\* approved is paid or Loss of Pay, once, however balances moved in between.
FullyCharged ==
  Serial => \A s \in Sheet :
    status[s] \in {"Submitted", "Approved"} =>
      taken[s].leave + taken[s].compoff + lop[s] = entries[s].leave + entries[s].compoff

\* When requests do not overlap: the comp-off balance is what the ledger says of
\* it, except for the days the floor at zero gave away.
CompOffAccounted ==
  Serial => balance["compoff"] =
              Opening["compoff"] - TakenOf("compoff") + forgiven
                + MapThenSumSet(LAMBDA s : granted[s], Sheet)

\* When requests do not overlap: saves, submissions, approvals, changes of policy
\* and rejections in any order never credit a weekend day twice.
CreditedOnce ==
  Serial => \A s \in Sheet : granted[s] <= accrued[s] /\ accrued[s] <= entries[s].worked

-----------------------------------------------------------------------------
(* A statement of the source that the code does not keep.                   *)

\* approve_timesheet: the figures are frozen "AFTER consume_timesheet_leaves so
\* the frozen paid-vs-LOP split is final".
FrozenSplitIsFinal ==
  \A s \in Sheet : Serial /\ status[s] = "Approved" => figures[s] = taken[s]
=============================================================================
