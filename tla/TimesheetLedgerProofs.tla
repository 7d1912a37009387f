------------------------- MODULE TimesheetLedgerProofs -------------------------
(***************************************************************************)
(* Proofs about TimesheetLedger, for every number of sheets, of concurrent *)
(* requests and of days, and every billing policy.                         *)
(***************************************************************************)
EXTENDS TimesheetLedger, Sums, TLAPS

\* A classification pays for a natural number of days of each type, and no more
\* than the sheet asks for.
LEMMA PaidDaysType ==
  ASSUME NEW c \in Content, NEW a \in [Paid -> Int]
  PROVE  /\ PaidDays(c, a) \in [Paid -> Nat]
         /\ PaidDays(c, a).leave <= c.leave /\ PaidDays(c, a).compoff <= c.compoff
<1>1. \A t \in Paid : a[t] \in Int /\ c[t] \in Nat
  BY DEF Content, Paid
<1>2. \A t \in Paid : Least(c[t], Most(a[t], 0)) \in Nat
                        /\ Least(c[t], Most(a[t], 0)) <= c[t]
  BY <1>1 DEF Least, Most
<1> QED BY <1>2 DEF PaidDays, Paid

\* The days that are not paid are a natural number.
LEMMA LopDaysType ==
  ASSUME NEW c \in Content, NEW a \in [Paid -> Int] PROVE LopDays(c, a) \in Nat
<1>1. PaidDays(c, a).leave \in Nat /\ PaidDays(c, a).compoff \in Nat
  BY PaidDaysType DEF Paid
<1>2. c.leave \in Nat /\ c.compoff \in Nat
  BY DEF Content
<1>3. \A i, j, k, l \in Nat : k <= i /\ l <= j => i + j - k - l \in Nat
  OBVIOUS
<1> QED BY <1>1, <1>2, <1>3, PaidDaysType DEF LopDays

\* Comp-off earned is never negative: covering a day uses a day that was worked.
LEMMA EarnedType ==
  ASSUME NEW c \in Content, NEW a \in [Paid -> Int] PROVE Earned(c, a) \in Nat
<1>1. c.worked \in Nat /\ LopDays(c, a) \in Nat
  BY LopDaysType DEF Content
<1> QED BY <1>1 DEF Earned, Least

\* A credit is a whole number.
LEMMA CreditType ==
  ASSUME NEW d \in Int, NEW b \in Int PROVE Credit(d, b) \in Int
  BY LedgerAssumption DEF Credit, Least, Most

\* The sum of two balances is a balance.
LEMMA PlusType ==
  ASSUME NEW f \in [Paid -> Int], NEW g \in [Paid -> Int]
  PROVE  Plus(f, g) \in [Paid -> Int]
  BY DEF Plus

\* The handler of a request knows its sheet, and only what takes locks waits.
Busy ==
  \A u \in User :
    /\ req[u].at # "idle" => req[u].sheet \in Sheet
    /\ req[u].at = "waiting" => req[u].op # "save"

\* The balance of a paid leave type is never negative.
NoOverdraft == balance["leave"] >= 0

\* The inductive invariant of the ledger.
IInv == TypeOK /\ Busy /\ ReleasedWithStatus /\ NoOverdraft

\* What a waiting request will write, by type.
LEMMA SplitType ==
  ASSUME TypeOK, NEW u \in User, req[u].sheet \in Sheet
  PROVE  /\ AccrualOf(u) \in Int /\ Needed(u) \in Content
         /\ SessionBalance(u) \in [Paid -> Int]
         /\ SessionBalance(u)["leave"] = balance["leave"]
         /\ Plus(SessionBalance(u), req[u].prior) \in [Paid -> Int]
         /\ Split(u) \in [Paid -> Nat] /\ Delta(u) \in [Paid -> Int]
         /\ AfterDebit(u) \in [Paid -> Int]
         /\ AvailableInSession(u) \in [Paid -> Int]
         /\ EarnedLast(u) \in Nat /\ LastAccrual(u) \in Int
         /\ Forgiven(u) \in Nat
<1>0. req[u] \in Request /\ balance \in [Paid -> Int] /\ taken[req[u].sheet] \in [Paid -> Nat]
  BY DEF TypeOK
<1>1. AccrualOf(u) \in Int
  BY <1>0 DEF AccrualOf, Difference, Request
<1>2. Needed(u) \in Content
  BY <1>0 DEF Needed, Request, Blank, Content
<1>3. /\ SessionBalance(u) \in [Paid -> Int]
      /\ SessionBalance(u)["leave"] = balance["leave"]
  <2>1. req[u].read["compoff"] \in Int
    BY <1>0 DEF Request, Paid
  <2>2. Credit(AccrualOf(u), req[u].read["compoff"]) \in Int
    BY <1>1, <2>1, CreditType
  <2> QED BY <1>0, <2>1, <2>2 DEF SessionBalance, LockedBalance, Paid
<1>4. req[u].prior \in [Paid -> Int]
  BY <1>0 DEF Request
<1>5. Plus(SessionBalance(u), req[u].prior) \in [Paid -> Int]
  BY <1>3, <1>4, PlusType
<1>6. Split(u) \in [Paid -> Nat]
  BY <1>2, <1>5, PaidDaysType DEF Split
<1>7. Delta(u) \in [Paid -> Int]
  BY <1>0, <1>6 DEF Delta, Already
<1>8. AfterDebit(u) \in [Paid -> Int]
  BY <1>3, <1>7 DEF AfterDebit, Most
<1>9. AvailableInSession(u) \in [Paid -> Int]
  BY <1>0, <1>8, PlusType DEF AvailableInSession
<1>10. EarnedLast(u) \in Nat
  BY <1>2, <1>9, EarnedType DEF EarnedLast
<1>11. LastAccrual(u) \in Int
  BY <1>0, <1>10 DEF LastAccrual, Difference, Request
<1>12. Forgiven(u) \in Nat
  <2>1. /\ SessionBalance(u)["compoff"] \in Int /\ Delta(u)["compoff"] \in Int
        /\ AfterDebit(u)["compoff"] = IF Delta(u)["compoff"] = 0 THEN SessionBalance(u)["compoff"]
             ELSE Most(SessionBalance(u)["compoff"] - Delta(u)["compoff"], 0)
    BY <1>3, <1>7 DEF AfterDebit, Paid
  <2> QED BY <2>1 DEF Forgiven, Most
<1> QED BY <1>1, <1>2, <1>3, <1>5, <1>6, <1>7, <1>8, <1>9, <1>10, <1>11, <1>12

\* What is written to the comp-off row is a whole number.
LEMMA WrittenType ==
  ASSUME TypeOK, NEW u \in User, NEW v \in Int PROVE Written(u, v) \in Int
<1>1. balance["compoff"] \in Int
  BY DEF TypeOK, Paid
<1> QED BY <1>1 DEF Written

\* The initial state satisfies the invariant.
LEMMA InitIInv == Init => IInv
<1> SUFFICES ASSUME Init PROVE IInv
  OBVIOUS
<1>1. NoEntries \in Content /\ Opening \in [Paid -> Nat] /\ policy \in Policy
  BY LedgerAssumption DEF Init
<1>2. Idle \in Request
  BY <1>1 DEF Idle, Request, Op, Blank, Content
<1>3. TypeOK
  BY <1>1, <1>2 DEF Init, TypeOK
<1>4. Busy
  BY DEF Init, Busy, Idle
<1>5. ReleasedWithStatus
  BY DEF Init, ReleasedWithStatus
<1>6. NoOverdraft
  BY <1>1 DEF Init, NoOverdraft, Paid
<1> QED BY <1>3, <1>4, <1>5, <1>6 DEF IInv

\* An idle request is well typed.
LEMMA IdleType == Idle \in Request /\ Idle.at = "idle"
  BY LedgerAssumption DEF Idle, Request, Op, Blank, Content

\* What a request does before it writes, and what it does when it fails, leaves
\* the tables alone.
LEMMA QuietStep ==
  ASSUME IInv, TypeOK', Busy', UNCHANGED <<tables, overtaken>> PROVE IInv'
  BY DEF IInv, ReleasedWithStatus, NoOverdraft, tables

\* Opening a request.
LEMMA OpenStep ==
  ASSUME IInv, NEW u \in User, NEW op \in Op, NEW s \in Sheet, Open(u, op, s) PROVE IInv'
<1> DEFINE r == [Idle EXCEPT !.at = "opened", !.op = op, !.sheet = s,
                   !.accrued = accrued[s], !.frozen = figures[s] # NoFigures]
<1>1. r \in Request /\ r.sheet = s /\ r.at = "opened"
  BY IdleType DEF IInv, TypeOK, Request
<1>2. req' = [req EXCEPT ![u] = r]
  BY DEF Open
<1>3. req' \in [User -> Request] /\ Busy'
  BY <1>1, <1>2 DEF IInv, TypeOK, Busy
<1>4. used' \in [requests : Nat, overlaps : Nat, policies : Nat]
  <2>1. /\ used \in [requests : Nat, overlaps : Nat, policies : Nat]
        /\ used.requests + 1 \in Nat /\ used.overlaps + 1 \in Nat
    BY DEF IInv, TypeOK
  <2>2. CASE used' = [used EXCEPT !.requests = used.requests + 1]
    BY <2>1, <2>2
  <2>3. CASE used' = [used EXCEPT !.requests = used.requests + 1,
                                  !.overlaps = used.overlaps + 1]
    BY <2>1, <2>3
  <2> QED BY <2>2, <2>3 DEF Open
<1>5. TypeOK'
  BY <1>3, <1>4 DEF Open, IInv, TypeOK, tables
<1> QED BY <1>3, <1>5, QuietStep DEF Open

\* Reading the entries and the balances.
LEMMA ReadStep ==
  ASSUME IInv, NEW u \in User, NEW content \in Contents, Read(u, content) PROVE IInv'
<1> DEFINE avail == Plus(balance, taken[req[u].sheet])
<1>1. req[u] \in Request /\ req[u].sheet \in Sheet /\ content \in Content
  BY LedgerAssumption DEF IInv, TypeOK, Busy, Read
<1>2. avail \in [Paid -> Int] /\ balance \in [Paid -> Int]
  BY <1>1, PlusType DEF IInv, TypeOK
<1>3. Earned(content, avail) \in Nat
  BY <1>1, <1>2, EarnedType
<1>4. PICK e \in Nat : req' = [req EXCEPT ![u].at = "read", ![u].entries = content,
                                           ![u].read = balance, ![u].earned = e]
  BY <1>3 DEF Read
<1>5. req' \in [User -> Request] /\ Busy'
  BY <1>1, <1>2, <1>4 DEF IInv, TypeOK, Busy, Request
<1>6. TypeOK'
  BY <1>5 DEF Read, IInv, TypeOK, tables
<1> QED BY <1>5, <1>6, QuietStep DEF Read

\* Waiting for the locks.
LEMMA WaitStep == ASSUME IInv, NEW u \in User, Wait(u) PROVE IInv'
<1>1. req[u] \in Request /\ req[u].sheet \in Sheet /\ req[u].op # "save"
  BY DEF IInv, TypeOK, Busy, Wait, Reversing
<1>2. taken[req[u].sheet] \in [Paid -> Nat]
  BY <1>1 DEF IInv, TypeOK
<1>3. req' \in [User -> Request] /\ Busy'
  BY <1>1, <1>2 DEF Wait, IInv, TypeOK, Busy, Request
<1>4. TypeOK'
  BY <1>3 DEF Wait, IInv, TypeOK, tables
<1> QED BY <1>3, <1>4, QuietStep DEF Wait

\* The end of a request, however it ends.
LEMMA DoneType == ASSUME IInv, NEW u \in User, Done(u) PROVE req' \in [User -> Request] /\ Busy'
  BY IdleType DEF Done, IInv, TypeOK, Busy

\* A failed request.
LEMMA AbortStep == ASSUME IInv, NEW u \in User, Abort(u) PROVE IInv'
<1>1. req' \in [User -> Request] /\ Busy'
  BY DoneType DEF Abort
<1>2. TypeOK'
  BY <1>1 DEF Abort, IInv, TypeOK, tables
<1> QED BY <1>1, <1>2, QuietStep DEF Abort

\* Saving a sheet moves its entries and the comp-off balance only.
LEMMA SaveStep == ASSUME IInv, NEW u \in User, Save(u) PROVE IInv'
<1> DEFINE s == req[u].sheet
           credit == Credit(AccrualOf(u), req[u].read.compoff)
<1>1. req[u] \in Request /\ s \in Sheet
  BY DEF IInv, TypeOK, Busy, Save
<1>2. AccrualOf(u) \in Int /\ req[u].read["compoff"] \in Int
  BY <1>1, SplitType DEF IInv, Request, Paid
<1>3. credit \in Int
  BY <1>2, CreditType
<1>4. req' \in [User -> Request] /\ Busy'
  BY DoneType DEF Save
<1>5. entries' \in [Sheet -> Content] /\ accrued' \in [Sheet -> Nat]
  BY <1>1 DEF Save, IInv, TypeOK, Request
<1>6. balance' \in [Paid -> Int] /\ balance'["leave"] = balance["leave"]
  <2>1. CASE AccrualOf(u) = 0
    BY <2>1 DEF Save, IInv, TypeOK
  <2>2. CASE AccrualOf(u) # 0
    <3>1. balance' = [balance EXCEPT !["compoff"] = Written(u, req[u].read["compoff"] + credit)]
      BY <2>2 DEF Save
    <3>2. Written(u, req[u].read["compoff"] + credit) \in Int
      BY <1>2, <1>3, WrittenType DEF IInv
    <3> HIDE DEF credit
    <3> QED BY <3>1, <3>2 DEF IInv, TypeOK, Paid
  <2> QED BY <2>1, <2>2
<1>7. granted' \in [Sheet -> Int]
  BY <1>1, <1>3 DEF Save, IInv, TypeOK
<1>8. TypeOK'
  BY <1>4, <1>5, <1>6, <1>7 DEF Save, IInv, TypeOK
<1>9. ReleasedWithStatus'
  BY DEF Save, IInv, ReleasedWithStatus
<1>10. NoOverdraft'
  BY <1>6 DEF IInv, NoOverdraft
<1> QED BY <1>4, <1>8, <1>9, <1>10 DEF IInv

\* Finishing a request: the debit keeps the types.
LEMMA FinishTypeOK == ASSUME IInv, NEW u \in User, Finish(u) PROVE TypeOK' /\ Busy'
<1> DEFINE s == req[u].sheet
           first == IF AccrualOf(u) = 0 THEN 0 ELSE Credit(AccrualOf(u), req[u].read.compoff)
           last == Credit(LastAccrual(u), AfterDebit(u).compoff)
<1>1. req[u] \in Request /\ s \in Sheet /\ req[u].op \in Op \ {"save"} /\ TypeOK
  BY DEF IInv, TypeOK, Busy, Finish, Request
<1>2. /\ AccrualOf(u) \in Int /\ Needed(u) \in Content
      /\ Plus(SessionBalance(u), req[u].prior) \in [Paid -> Int]
      /\ Split(u) \in [Paid -> Nat] /\ AfterDebit(u) \in [Paid -> Int]
      /\ AvailableInSession(u) \in [Paid -> Int]
      /\ EarnedLast(u) \in Nat /\ LastAccrual(u) \in Int /\ Forgiven(u) \in Nat
  BY <1>1, SplitType
<1>3. first \in Int /\ last \in Int
  <2>1. req[u].read["compoff"] \in Int /\ AfterDebit(u)["compoff"] \in Int
    BY <1>1, <1>2 DEF Request, Paid
  <2> QED BY <1>2, <2>1, CreditType
<1>4. req' \in [User -> Request] /\ Busy'
  BY DoneType DEF Finish
<1>5. status' \in [Sheet -> {"Draft", "Submitted", "Approved", "Rejected", "deleted"}]
  BY <1>1 DEF Finish, TypeOK, StatusAfter, Op
<1>6. figures' \in [Sheet -> {NoFigures} \cup [Paid -> Nat]]
  <2>1. PaidDays(Needed(u), AvailableInSession(u)) \in [Paid -> Nat]
    BY <1>2, PaidDaysType
  <2>2. FiguresAfter(u) \in {NoFigures} \cup [Paid -> Nat]
    BY <1>1, <2>1 DEF FiguresAfter, TypeOK
  <2> QED BY <1>1, <2>2 DEF Finish, TypeOK
<1>7. taken' \in [Sheet -> [Paid -> Nat]]
  <2>1. Plus(taken[s], Delta(u)) = Split(u)
    <3>1. taken[s] \in [Paid -> Nat]
      BY <1>1 DEF TypeOK
    <3>2. \A t \in Paid : taken[s][t] + (Split(u)[t] - taken[s][t]) = Split(u)[t]
      BY <1>2, <3>1
    <3> QED BY <1>2, <3>2 DEF Plus, Delta, Already
  <2> QED BY <1>1, <1>2, <2>1 DEF Finish, TypeOK
<1>8. lop' \in [Sheet -> Nat]
  BY <1>1, <1>2, LopDaysType DEF Finish, TypeOK
<1>9. balance' \in [Paid -> Int]
  <2>1. Written(u, AfterDebit(u)["compoff"] + last) \in Int
    BY <1>1, <1>2, <1>3, WrittenType DEF Paid
  <2>2. balance' = [AfterDebit(u) EXCEPT
                      !["compoff"] = Written(u, AfterDebit(u)["compoff"] + last)]
    BY DEF Finish
  <2> HIDE DEF last
  <2> QED BY <1>2, <2>1, <2>2
<1>10. granted' \in [Sheet -> Int]
  <2>1. granted' = [granted EXCEPT ![s] = granted[s] + first + last]
    BY DEF Finish
  <2>2. granted[s] + first + last \in Int
    BY <1>1, <1>3 DEF TypeOK
  <2> HIDE DEF first, last
  <2> QED BY <2>1, <2>2, <1>1 DEF TypeOK
<1>11. accrued' \in [Sheet -> Nat]
  BY <1>1, <1>2 DEF Finish, TypeOK, Request
<1>12. forgiven' \in Nat /\ overtaken' \subseteq Sheet
  BY <1>1, <1>2 DEF Finish, TypeOK
<1> QED BY <1>1, <1>4, <1>5, <1>6, <1>7, <1>8, <1>9, <1>10, <1>11, <1>12 DEF Finish, TypeOK

\* A sheet that stops being submitted or approved gives its leave back, and only
\* a recalculation can take leave for such a sheet.
LEMMA FinishReleases == ASSUME IInv, NEW u \in User, Finish(u) PROVE ReleasedWithStatus'
<1> DEFINE s == req[u].sheet
<1>1. s \in Sheet /\ req[u].op \in Op \ {"save"} /\ TypeOK
  BY DEF IInv, TypeOK, Busy, Finish, Request
<1>2. ASSUME NEW z \in Sheet \ overtaken', z # s
      PROVE  status'[z] \notin {"Submitted", "Approved"} =>
               lop'[z] = 0 /\ \A t \in Paid : taken'[z][t] = 0
  <2>1. status'[z] = status[z] /\ lop'[z] = lop[z] /\ taken'[z] = taken[z] /\ z \notin overtaken
    BY <1>1, <1>2 DEF Finish, TypeOK
  <2> QED BY <2>1 DEF IInv, ReleasedWithStatus
<1>3. ASSUME s \notin overtaken', status'[s] \notin {"Submitted", "Approved"}
      PROVE  lop'[s] = 0 /\ \A t \in Paid : taken'[s][t] = 0
  <2>1. CASE req[u].op \in Reversing
    <3> DEFINE avail == Plus(SessionBalance(u), req[u].prior)
    <3>1. avail \in [Paid -> Int] /\ taken[s] \in [Paid -> Nat] /\ Needed(u) = Blank
      BY <1>1, <2>1, SplitType DEF Needed, TypeOK
    <3>2. \A t \in Paid : PaidDays(Blank, avail)[t] = 0
      <4>1. \A t \in Paid : avail[t] \in Int /\ Blank[t] = 0
        BY <3>1 DEF Blank, Paid
      <4> HIDE DEF avail
      <4> QED BY <4>1 DEF PaidDays, Least, Most
    <3>3. \A t \in Paid : Split(u)[t] = 0
      BY <3>1, <3>2 DEF Split
    <3>4. LopDays(Blank, avail) = 0
      BY <3>2 DEF LopDays, Blank, Paid
    <3>5. \A t \in Paid : taken'[s][t] = taken[s][t] + (0 - taken[s][t])
      BY <1>1, <3>3 DEF Finish, TypeOK, Plus, Delta, Already
    <3>6. \A t \in Paid : taken'[s][t] = 0
      BY <3>1, <3>5
    <3>7. lop'[s] = 0
      BY <1>1, <3>1, <3>4 DEF Finish, TypeOK
    <3> QED BY <3>6, <3>7
  <2>2. CASE req[u].op \in {"submit", "approve"}
    BY <1>1, <1>3, <2>2 DEF Finish, TypeOK, StatusAfter
  <2>3. CASE req[u].op = "recalculate"
    BY <1>1, <1>3, <2>3 DEF Finish, TypeOK
  <2> QED BY <1>1, <2>1, <2>2, <2>3 DEF Op, Reversing
<1> QED BY <1>2, <1>3 DEF ReleasedWithStatus

\* Under the lock nothing is debited that is not there.
LEMMA FinishNoOverdraft == ASSUME IInv, NEW u \in User, Finish(u) PROVE NoOverdraft'
<1>1. req[u].sheet \in Sheet /\ TypeOK /\ balance["leave"] >= 0
  BY DEF IInv, Busy, Finish, NoOverdraft
<1>2. /\ SessionBalance(u)["leave"] = balance["leave"] /\ balance["leave"] \in Int
      /\ Delta(u)["leave"] \in Int /\ AfterDebit(u) \in [Paid -> Int]
  BY <1>1, SplitType DEF Paid, TypeOK
<1>3. AfterDebit(u)["leave"] >= 0
  <2>1. AfterDebit(u)["leave"] = IF Delta(u)["leave"] = 0 THEN balance["leave"]
                                 ELSE Most(balance["leave"] - Delta(u)["leave"], 0)
    BY <1>2 DEF AfterDebit, Paid
  <2> QED BY <1>1, <1>2, <2>1 DEF Most
<1>4. balance'["leave"] = AfterDebit(u)["leave"]
  BY <1>2 DEF Finish, Paid
<1> QED BY <1>3, <1>4 DEF NoOverdraft

\* Every step preserves the invariant.
LEMMA NextIInv == IInv /\ [Next]_vars => IInv'
<1> SUFFICES ASSUME IInv, [Next]_vars PROVE IInv'
  OBVIOUS
<1>1. ASSUME NEW u \in User, Finish(u) PROVE IInv'
  BY <1>1, FinishTypeOK, FinishReleases, FinishNoOverdraft DEF IInv
<1>2. ASSUME NEW u \in User, Fail(u) PROVE IInv'
  BY <1>2, AbortStep DEF Fail
<1>3. ASSUME NEW u \in User, Handle(u) PROVE IInv'
  BY <1>1, <1>2, <1>3, OpenStep, ReadStep, WaitStep, SaveStep DEF Handle
<1>4. ASSUME NEW p \in Policies, ChangePolicy(p) PROVE IInv'
  <2>1. TypeOK' /\ Busy'
    BY <1>4, LedgerAssumption DEF ChangePolicy, IInv, TypeOK, Busy, tables
  <2> QED BY <1>4, <2>1, QuietStep DEF ChangePolicy
<1>5. CASE UNCHANGED vars
  <2>1. TypeOK' /\ Busy'
    BY <1>5 DEF vars, IInv, TypeOK, Busy
  <2> QED BY <1>5, <2>1, QuietStep DEF vars, tables
<1> QED BY <1>3, <1>4, <1>5 DEF Next

\* Paid leave moves between the balance and one sheet, days for days.
LeaveMoves ==
  \/ taken' = taken /\ balance'["leave"] = balance["leave"]
  \/ \E s \in Sheet :
       /\ \A z \in Sheet \ {s} : taken'[z] = taken[z]
       /\ balance'["leave"] + taken'[s]["leave"] = balance["leave"] + taken[s]["leave"]

\* What a request debits is what it records: the floor at zero is not reached.
LEMMA FinishMoves == ASSUME IInv, NEW u \in User, Finish(u) PROVE LeaveMoves
<1> DEFINE s == req[u].sheet
<1>1. s \in Sheet /\ TypeOK /\ balance["leave"] >= 0
  BY DEF IInv, Busy, Finish, NoOverdraft
<1>2. /\ SessionBalance(u)["leave"] = balance["leave"] /\ balance["leave"] \in Int
      /\ Delta(u)["leave"] \in Int /\ AfterDebit(u) \in [Paid -> Int]
      /\ taken[s]["leave"] \in Int
  BY <1>1, SplitType DEF Paid, TypeOK
<1>3. AfterDebit(u)["leave"] = balance["leave"] - Delta(u)["leave"]
  <2>1. AfterDebit(u)["leave"] = IF Delta(u)["leave"] = 0 THEN balance["leave"]
                                 ELSE Most(balance["leave"] - Delta(u)["leave"], 0)
    BY <1>2 DEF AfterDebit, Paid
  <2>2. ~(Delta(u)["leave"] > 0 /\ Delta(u)["leave"] > balance["leave"])
    BY <1>2 DEF Finish, Short, Paid
  <2> QED BY <1>1, <1>2, <2>1, <2>2 DEF Most
<1>4. balance'["leave"] = AfterDebit(u)["leave"]
  BY <1>2 DEF Finish, Paid
<1>5. taken'[s]["leave"] = taken[s]["leave"] + Delta(u)["leave"]
  <2>1. taken' = [taken EXCEPT ![s] = Plus(taken[s], Delta(u))]
    BY DEF Finish
  <2> QED BY <1>1, <2>1 DEF TypeOK, Plus, Paid
<1>6. \A z \in Sheet \ {s} : taken'[z] = taken[z]
  BY <1>1 DEF Finish, TypeOK
<1> QED BY <1>1, <1>2, <1>3, <1>4, <1>5, <1>6 DEF LeaveMoves

\* A save moves comp-off only.
LEMMA SaveMoves == ASSUME IInv, NEW u \in User, Save(u) PROVE LeaveMoves
<1>1. taken' = taken
  BY DEF Save
<1>2. balance'["leave"] = balance["leave"]
  BY DEF Save, IInv, TypeOK, Paid
<1> QED BY <1>1, <1>2 DEF LeaveMoves

\* Every step moves paid leave without loss.
LEMMA NextMoves == IInv /\ [Next]_vars => [LeaveMoves]_vars
<1> SUFFICES ASSUME IInv, [Next]_vars PROVE [LeaveMoves]_vars
  OBVIOUS
<1>1. ASSUME NEW u \in User, Handle(u) PROVE LeaveMoves
  <2>1. ASSUME UNCHANGED tables PROVE LeaveMoves
    BY <2>1 DEF tables, LeaveMoves
  <2>2. CASE Wait(u) \/ Fail(u)
    BY <2>1, <2>2 DEF Wait, Fail, Abort
  <2>3. ASSUME NEW op \in Op, NEW s \in Sheet, Open(u, op, s) PROVE LeaveMoves
    BY <2>1, <2>3 DEF Open
  <2>4. ASSUME NEW content \in Contents, Read(u, content) PROVE LeaveMoves
    BY <2>1, <2>4 DEF Read
  <2> QED BY <1>1, <2>2, <2>3, <2>4, FinishMoves, SaveMoves DEF Handle
<1>2. ASSUME NEW p \in Policies, ChangePolicy(p) PROVE LeaveMoves
  BY <1>2 DEF ChangePolicy, tables, LeaveMoves
<1> QED BY <1>1, <1>2 DEF Next

\* The inductive invariant holds of every reachable state.
THEOREM LedgerIInvHolds == Spec => []IInv
  BY InitIInv, NextIInv, PTL DEF Spec

\* The tables and the sessions keep their types: in particular no sheet is ever
\* charged a negative number of days.
THEOREM LedgerTypes == Spec => []TypeOK
<1>1. IInv => TypeOK
  BY DEF IInv
<1> QED BY <1>1, LedgerIInvHolds, PTL

\* A rejected, deleted or draft sheet holds no leave, for any number of requests
\* on it at once, unless a recalculation was overtaken.
THEOREM LeaveIsReleased == Spec => []ReleasedWithStatus
<1>1. IInv => ReleasedWithStatus
  BY DEF IInv
<1> QED BY <1>1, LedgerIInvHolds, PTL

\* Every step moves paid leave between the balance and one sheet, and no step
\* makes or loses any: "lock PE leave detail ... so concurrent submit/approve of
\* two sheets cannot over-consume the same balance" keeps the floor at zero in
\* consume_pe_leave from ever being used for a paid type.
THEOREM PaidLeaveMoves == Spec => [][LeaveMoves]_vars
<1>1. IInv /\ [Next]_vars => [LeaveMoves]_vars
  BY NextMoves
<1> QED BY <1>1, LedgerIInvHolds, PTL DEF Spec
-----------------------------------------------------------------------------
(* Requests that do not overlap.                                            *)

\* One request is handled at a time.
Alone == \A u, v \in User : req[u].at # "idle" /\ req[v].at # "idle" => u = v

\* What the handler knows of its sheet is what the tables say of it.
Current ==
  \A u \in User : req[u].at # "idle" =>
    /\ status[req[u].sheet] \in Allowed(req[u].op)
    /\ req[u].accrued = accrued[req[u].sheet]
    /\ req[u].at \in {"read", "waiting"} =>
         /\ req[u].op \notin Reversing \cup {"save"} => req[u].entries = entries[req[u].sheet]
         /\ req[u].op \in AccruesFirst => req[u].earned <= req[u].entries.worked
         /\ req[u].op \notin Reversing => req[u].read = balance

Charged(s) ==
  status[s] \in {"Submitted", "Approved"} =>
    taken[s].leave + taken[s].compoff + lop[s] = entries[s].leave + entries[s].compoff
CreditOf(s) == granted[s] <= accrued[s] /\ accrued[s] <= entries[s].worked

SerialInv ==
  Serial => Alone /\ Current /\ \A s \in Sheet : Charged(s) /\ CreditOf(s)

\* No more comp-off is earned than days were worked.
LEMMA EarnedBound ==
  ASSUME NEW c \in Content, NEW a \in [Paid -> Int] PROVE Earned(c, a) <= c.worked
<1>1. c.worked \in Nat /\ LopDays(c, a) \in Nat
  BY LopDaysType DEF Content
<1> QED BY <1>1 DEF Earned, Least

\* A credit is at most the difference it is made for, and none for no difference.
LEMMA CreditBound ==
  ASSUME NEW d \in Int, NEW b \in Int PROVE Credit(d, b) <= d /\ Credit(0, b) = 0
  BY LedgerAssumption DEF Credit, Least, Most

\* When the only request ends, none is left.
LEMMA DoneSerial ==
  ASSUME IInv, Alone, NEW u \in User, req[u].at # "idle", Done(u) PROVE Alone' /\ Current'
<1>1. \A v \in User : req'[v].at = "idle"
  BY IdleType DEF Done, Alone, IInv, TypeOK
<1> QED BY <1>1 DEF Alone, Current

\* Steps that leave the tables alone leave the books in order.
LEMMA QuietSerial ==
  ASSUME UNCHANGED tables, NEW s \in Sheet, Charged(s), CreditOf(s)
  PROVE  Charged(s)' /\ CreditOf(s)'
  BY DEF tables, Charged, CreditOf

\* Opening, reading and waiting.
LEMMA EarlySerial ==
  ASSUME IInv, Serial, Alone, Current, Serial', NEW u \in User,
         \/ \E op \in Op, s \in Sheet : Open(u, op, s)
         \/ \E content \in Contents : Read(u, content)
         \/ Wait(u)
  PROVE  Alone' /\ Current'
<1>1. CASE \E op \in Op, s \in Sheet : Open(u, op, s)
  <2> PICK op \in Op, s \in Sheet : Open(u, op, s)
    BY <1>1
  <2> DEFINE r == [Idle EXCEPT !.at = "opened", !.op = op, !.sheet = s,
                     !.accrued = accrued[s], !.frozen = figures[s] # NoFigures]
  <2>1. r.at = "opened" /\ r.op = op /\ r.sheet = s /\ r.accrued = accrued[s]
    BY IdleType DEF Request
  <2>2. req' = [req EXCEPT ![u] = r]
    BY DEF Open
  <2>3. \A v \in User : req[v].at = "idle"
    <3>1. used.overlaps \in Nat /\ used \in [requests : Nat, overlaps : Nat, policies : Nat]
      BY DEF IInv, TypeOK
    <3>2. ~(used' = [used EXCEPT !.requests = used.requests + 1,
                                 !.overlaps = used.overlaps + 1])
      <4> SUFFICES ASSUME used' = [used EXCEPT !.requests = used.requests + 1,
                                               !.overlaps = used.overlaps + 1]
                   PROVE  FALSE
        OBVIOUS
      <4>1. used'.overlaps = used.overlaps + 1
        BY <3>1
      <4>2. used'.overlaps = 0
        BY DEF Serial
      <4> QED BY <3>1, <4>1, <4>2
    <3> QED BY <3>2 DEF Open
  <2> HIDE DEF r
  <2>4. req'[u] = r /\ \A v \in User \ {u} : req'[v].at = "idle"
    BY <2>2, <2>3 DEF IInv, TypeOK
  <2>5. Alone'
    BY <2>4 DEF Alone
  <2>6. Current'
    BY <2>1, <2>4 DEF Current, Open, tables
  <2> QED BY <2>5, <2>6
<1>2. CASE \E content \in Contents : Read(u, content)
  <2> PICK content \in Contents : Read(u, content)
    BY <1>2
  <2> DEFINE s == req[u].sheet
             e == IF req[u].op \in AccruesFirst
                  THEN Earned(content, Plus(balance, taken[s])) ELSE 0
             r == [req[u] EXCEPT !.at = "read", !.entries = content, !.read = balance,
                                 !.earned = e]
  <2>1. req[u] \in Request /\ s \in Sheet /\ content \in Content /\ req[u].at = "opened"
    BY LedgerAssumption DEF IInv, TypeOK, Busy, Read
  <2>2. r.at = "read" /\ r.op = req[u].op /\ r.sheet = s /\ r.accrued = req[u].accrued
          /\ r.entries = content /\ r.earned = e /\ r.read = balance
    BY <2>1 DEF Request
  <2>3. req[u].op \in AccruesFirst => e <= content.worked
    <3> HIDE DEF r
    <3>1. balance \in [Paid -> Int] /\ taken[s] \in [Paid -> Int]
      BY <2>1 DEF IInv, TypeOK
    <3>2. Plus(balance, taken[s]) \in [Paid -> Int]
      BY <3>1, PlusType
    <3> QED BY <2>1, <3>2, EarnedBound
  <2>4. req[u].op # "save" => content = entries[s]
    BY DEF Read
  <2>5. req' = [req EXCEPT ![u] = r] /\ UNCHANGED tables
    BY DEF Read
  <2> HIDE DEF r, e
  <2>6. req'[u] = r /\ \A v \in User \ {u} : req'[v] = req[v]
    BY <2>5 DEF IInv, TypeOK
  <2>7. \A v \in User \ {u} : req[v].at = "idle"
    BY <2>1 DEF Alone
  <2>8. Alone'
    BY <2>6, <2>7 DEF Alone
  <2>9. Current'
    BY <2>1, <2>2, <2>3, <2>4, <2>5, <2>6, <2>7 DEF Current, tables
  <2> QED BY <2>8, <2>9
<1>3. CASE Wait(u)
  <2>1. req[u] \in Request /\ req[u].at \in {"opened", "read"}
          /\ (req[u].at = "opened" => req[u].op \in Reversing)
    BY <1>3 DEF IInv, TypeOK, Wait
  <2> DEFINE r == [req[u] EXCEPT !.at = "waiting", !.prior = taken[req[u].sheet]]
  <2>2. r.at = "waiting" /\ r.op = req[u].op /\ r.sheet = req[u].sheet /\ r.accrued = req[u].accrued
          /\ r.entries = req[u].entries /\ r.earned = req[u].earned /\ r.read = req[u].read
    BY <2>1 DEF Request
  <2>3. req' = [req EXCEPT ![u] = r] /\ UNCHANGED tables
    BY <1>3 DEF Wait
  <2> HIDE DEF r
  <2>4. req'[u] = r /\ \A v \in User \ {u} : req'[v] = req[v]
    BY <2>3 DEF IInv, TypeOK
  <2>5. \A v \in User \ {u} : req[v].at = "idle"
    BY <2>1 DEF Alone
  <2>6. Alone'
    BY <2>4, <2>5 DEF Alone
  <2>7. Current'
    BY <2>1, <2>2, <2>3, <2>4, <2>5 DEF Current, tables, Reversing, AccruesFirst
  <2> QED BY <2>6, <2>7
<1> QED BY <1>1, <1>2, <1>3

\* A save is of a sheet nobody is charged for, and credits the difference.
LEMMA SaveSerial ==
  ASSUME IInv, Current, NEW u \in User, Save(u), NEW z \in Sheet, Charged(z), CreditOf(z)
  PROVE  Charged(z)' /\ CreditOf(z)'
<1> DEFINE s == req[u].sheet
           credit == Credit(AccrualOf(u), req[u].read.compoff)
<1>1. req[u] \in Request /\ s \in Sheet /\ req[u].at = "read" /\ req[u].op = "save" /\ TypeOK
  BY DEF IInv, TypeOK, Busy, Save
<1>2. CASE z # s
  <2>1. /\ entries'[z] = entries[z] /\ accrued'[z] = accrued[z] /\ granted'[z] = granted[z]
        /\ UNCHANGED <<status, taken, lop>>
    BY <1>1, <1>2 DEF Save, TypeOK
  <2> QED BY <2>1 DEF Charged, CreditOf
<1>3. CASE z = s
  <2>1. /\ status[s] \in {"Draft", "Rejected"} /\ req[u].accrued = accrued[s]
        /\ req[u].earned <= req[u].entries.worked
    BY <1>1 DEF Current, Allowed, AccruesFirst
  <2>2. Charged(z)'
    BY <1>3, <2>1 DEF Charged, Save
  <2>3. AccrualOf(u) = req[u].earned - accrued[s] /\ req[u].earned \in Nat
          /\ accrued[s] \in Nat /\ granted[s] \in Int
    BY <1>1, <2>1 DEF AccrualOf, AccruesFirst, Difference, Request, TypeOK
  <2>4. credit \in Int /\ credit <= AccrualOf(u)
    <3>1. req[u].read["compoff"] \in Int
      BY <1>1 DEF Request, Paid
    <3>2. AccrualOf(u) \in Int
      BY <2>3
    <3> QED BY <3>1, <3>2, CreditType, CreditBound
  <2>5. entries'[s] = req[u].entries
    BY <1>1 DEF Save, TypeOK
  <2>6. CASE AccrualOf(u) = 0
    BY <1>1, <1>3, <2>1, <2>2, <2>3, <2>5, <2>6 DEF Save, CreditOf
  <2>7. CASE AccrualOf(u) # 0
    <3>1. accrued'[s] = req[u].earned /\ granted'[s] = granted[s] + credit
      BY <1>1, <2>7 DEF Save, TypeOK
    <3> HIDE DEF credit
    <3>2. granted'[s] <= accrued'[s]
      BY <1>3, <2>3, <2>4, <3>1 DEF CreditOf
    <3> QED BY <1>3, <2>1, <2>2, <2>5, <3>1, <3>2 DEF CreditOf
  <2> QED BY <2>6, <2>7
<1> QED BY <1>2, <1>3

\* What is not paid of a sheet is Loss of Pay.
LEMMA FinishCharges ==
  ASSUME IInv, Current, NEW u \in User, Finish(u), NEW z \in Sheet, Charged(z)
  PROVE  Charged(z)'
<1> DEFINE s == req[u].sheet
<1>1. req[u] \in Request /\ s \in Sheet /\ req[u].at = "waiting" /\ req[u].op \in Op \ {"save"}
        /\ TypeOK
  BY DEF IInv, TypeOK, Busy, Finish, Request
<1>2. CASE z # s
  <2>1. /\ status'[z] = status[z] /\ taken'[z] = taken[z] /\ lop'[z] = lop[z]
        /\ entries' = entries
    BY <1>1, <1>2 DEF Finish, TypeOK
  <2> QED BY <2>1 DEF Charged
<1>3. CASE z = s /\ req[u].op \in Reversing
  BY <1>1, <1>3 DEF Charged, Finish, StatusAfter, Reversing, TypeOK
<1>4. CASE z = s /\ req[u].op \notin Reversing
  <2> DEFINE avail == Plus(SessionBalance(u), req[u].prior)
             c == entries[s]
  <2>1. Needed(u) = c /\ c \in Content
    BY <1>1, <1>4 DEF Current, Needed, TypeOK
  <2>2. avail \in [Paid -> Int] /\ Split(u) = PaidDays(c, avail) /\ Split(u) \in [Paid -> Nat]
    BY <1>1, <2>1, SplitType DEF Split
  <2>3. lop'[s] = c.leave + c.compoff - Split(u)["leave"] - Split(u)["compoff"]
    BY <1>1, <2>1, <2>2 DEF Finish, TypeOK, LopDays
  <2>4. taken'[s]["leave"] = Split(u)["leave"] /\ taken'[s]["compoff"] = Split(u)["compoff"]
    <3>1. taken[s] \in [Paid -> Nat] /\ taken'[s] = Plus(taken[s], Delta(u))
      BY <1>1 DEF Finish, TypeOK
    <3>2. \A t \in Paid : taken'[s][t] = taken[s][t] + (Split(u)[t] - taken[s][t])
      BY <3>1 DEF Plus, Delta, Already
    <3>3. \A t \in Paid : taken[s][t] \in Nat /\ Split(u)[t] \in Nat
      BY <2>2, <3>1
    <3> QED BY <3>2, <3>3 DEF Paid
  <2>5. c.leave \in Nat /\ c.compoff \in Nat
          /\ Split(u)["leave"] \in Nat /\ Split(u)["compoff"] \in Nat
    BY <2>1, <2>2 DEF Content, Paid
  <2>6. entries' = entries
    BY DEF Finish
  <2> QED BY <1>4, <2>3, <2>4, <2>5, <2>6 DEF Charged
<1> QED BY <1>2, <1>3, <1>4

\* Before or after the debit, the difference to what was credited is credited.
LEMMA FinishCredits ==
  ASSUME IInv, Current, NEW u \in User, Finish(u), NEW z \in Sheet, CreditOf(z)
  PROVE  CreditOf(z)'
<1> DEFINE s == req[u].sheet
           first == IF AccrualOf(u) = 0 THEN 0 ELSE Credit(AccrualOf(u), req[u].read.compoff)
           last == Credit(LastAccrual(u), AfterDebit(u).compoff)
           a == IF AccrualOf(u) # 0 THEN req[u].earned
                ELSE IF LastAccrual(u) # 0 THEN EarnedLast(u) ELSE accrued[s]
<1>1. req[u] \in Request /\ s \in Sheet /\ req[u].at = "waiting" /\ req[u].op \in Op \ {"save"}
        /\ TypeOK
  BY DEF IInv, TypeOK, Busy, Finish, Request
<1>2. entries' = entries
  BY DEF Finish
<1>3. CASE z # s
  <2>1. accrued'[z] = accrued[z] /\ granted'[z] = granted[z]
    BY <1>1, <1>3 DEF Finish, TypeOK
  <2> QED BY <1>2, <2>1 DEF CreditOf
<1>4. CASE z = s
  <2>1. /\ granted'[s] = granted[s] + first + last
        /\ accrued'[s] = a
    BY <1>1 DEF Finish, TypeOK
  <2>2. /\ req[u].accrued = accrued[s]
        /\ req[u].op \notin Reversing => req[u].entries = entries[s]
        /\ req[u].op \in AccruesFirst => req[u].earned <= req[u].entries.worked
    BY <1>1 DEF Current
  <2>3. /\ accrued[s] \in Nat /\ granted[s] \in Int /\ req[u].earned \in Nat
        /\ EarnedLast(u) \in Nat /\ LastAccrual(u) \in Int /\ AccrualOf(u) \in Int
        /\ entries[s].worked \in Nat /\ AfterDebit(u)["compoff"] \in Int
        /\ req[u].read["compoff"] \in Int
    BY <1>1, SplitType DEF TypeOK, Request, Content, Paid
  <2>4. granted[s] <= accrued[s] /\ accrued[s] <= entries[s].worked
    BY <1>4 DEF CreditOf
  <2>5. first \in Int /\ first <= AccrualOf(u) /\ last \in Int /\ last <= LastAccrual(u)
          /\ (LastAccrual(u) = 0 => last = 0)
    BY <2>3, CreditType, CreditBound
  <2> HIDE DEF first, last
  <2>6. CASE req[u].op \in AccruesFirst
    <3>1. AccrualOf(u) = req[u].earned - accrued[s] /\ LastAccrual(u) = 0
      BY <2>2, <2>6 DEF AccrualOf, Difference, LastAccrual
    <3>2. req[u].earned <= entries[s].worked
      BY <2>2, <2>6 DEF AccruesFirst, Reversing
    <3>3. a = req[u].earned
      BY <2>3, <3>1
    <3> HIDE DEF a
    <3>4. granted'[s] <= accrued'[s]
      BY <2>1, <2>3, <2>4, <2>5, <3>1, <3>3
    <3> QED BY <1>2, <1>4, <2>1, <3>2, <3>3, <3>4 DEF CreditOf
  <2>7. CASE req[u].op \notin AccruesFirst
    <3>1. AccrualOf(u) = 0 /\ LastAccrual(u) = EarnedLast(u) - accrued[s] /\ first = 0
      BY <2>2, <2>7 DEF AccrualOf, Difference, LastAccrual, first
    <3>2. EarnedLast(u) <= entries[s].worked
      <4>1. CASE req[u].op \in Reversing
        BY <2>3, <4>1 DEF EarnedLast
      <4>2. CASE req[u].op \notin Reversing
        <5>1. Needed(u) = entries[s] /\ entries[s] \in Content
                /\ AvailableInSession(u) \in [Paid -> Int]
          BY <1>1, <2>2, <4>2, SplitType DEF Needed, TypeOK
        <5> QED BY <4>2, <5>1, EarnedBound DEF EarnedLast
      <4> QED BY <4>1, <4>2
    <3>3. a = EarnedLast(u)
      BY <2>3, <3>1
    <3> HIDE DEF a
    <3>4. granted'[s] <= accrued'[s]
      BY <2>1, <2>3, <2>4, <2>5, <3>1, <3>3
    <3> QED BY <1>2, <1>4, <2>1, <3>2, <3>3, <3>4 DEF CreditOf
  <2> QED BY <2>6, <2>7
<1> QED BY <1>3, <1>4

\* Every step keeps the books in order as long as requests do not overlap.
LEMMA NextSerialInv == IInv /\ SerialInv /\ [Next]_vars => SerialInv'
<1> SUFFICES ASSUME IInv, SerialInv, [Next]_vars, Serial'
             PROVE  Alone' /\ Current' /\ \A s \in Sheet : Charged(s)' /\ CreditOf(s)'
  BY DEF SerialInv
<1>1. Serial
  <2>1. used \in [requests : Nat, overlaps : Nat, policies : Nat]
    BY DEF IInv, TypeOK
  <2>2. UNCHANGED used \/ used'.overlaps = used.overlaps \/ used'.overlaps = used.overlaps + 1
    BY <2>1 DEF Next, vars, Handle, Open, Read, Wait, Save, Finish, Fail, Abort, ChangePolicy
  <2> QED BY <2>1, <2>2 DEF Serial
<1>2. Alone /\ Current /\ \A s \in Sheet : Charged(s) /\ CreditOf(s)
  BY <1>1 DEF SerialInv
<1>3. ASSUME NEW u \in User,
             \/ \E op \in Op, s \in Sheet : Open(u, op, s)
             \/ \E content \in Contents : Read(u, content)
             \/ Wait(u)
      PROVE  Alone' /\ Current' /\ \A s \in Sheet : Charged(s)' /\ CreditOf(s)'
  <2>1. UNCHANGED tables
    BY <1>3 DEF Open, Read, Wait
  <2> QED BY <1>1, <1>2, <1>3, <2>1, EarlySerial, QuietSerial
<1>4. ASSUME NEW u \in User, Save(u)
      PROVE  Alone' /\ Current' /\ \A s \in Sheet : Charged(s)' /\ CreditOf(s)'
  <2>1. req[u].at # "idle" /\ Done(u)
    BY <1>4 DEF Save
  <2> QED BY <1>2, <1>4, <2>1, DoneSerial, SaveSerial
<1>5. ASSUME NEW u \in User, Finish(u)
      PROVE  Alone' /\ Current' /\ \A s \in Sheet : Charged(s)' /\ CreditOf(s)'
  <2>1. req[u].at # "idle" /\ Done(u)
    BY <1>5 DEF Finish
  <2> QED BY <1>2, <1>5, <2>1, DoneSerial, FinishCharges, FinishCredits
<1>6. ASSUME NEW u \in User, Fail(u)
      PROVE  Alone' /\ Current' /\ \A s \in Sheet : Charged(s)' /\ CreditOf(s)'
  <2>1. req[u].at # "idle" /\ Done(u) /\ UNCHANGED tables
    BY <1>6 DEF Fail, Abort
  <2> QED BY <1>2, <2>1, DoneSerial, QuietSerial
<1>7. ASSUME UNCHANGED <<tables, req>>
      PROVE  Alone' /\ Current' /\ \A s \in Sheet : Charged(s)' /\ CreditOf(s)'
  <2>1. Alone' /\ Current'
    BY <1>2, <1>7 DEF Alone, Current, tables
  <2> QED BY <1>2, <1>7, <2>1, QuietSerial
<1>8. ASSUME NEW p \in Policies, ChangePolicy(p)
      PROVE  Alone' /\ Current' /\ \A s \in Sheet : Charged(s)' /\ CreditOf(s)'
  BY <1>7, <1>8 DEF ChangePolicy
<1>9. CASE UNCHANGED vars
  BY <1>7, <1>9 DEF vars, tables
<1> QED BY <1>3, <1>4, <1>5, <1>6, <1>8, <1>9 DEF Next, Handle

\* The books are in order as long as requests do not overlap.
THEOREM SerialHolds == Spec => []SerialInv
<1>1. Init => SerialInv
  <2> SUFFICES ASSUME Init PROVE Alone /\ Current /\ \A s \in Sheet : Charged(s) /\ CreditOf(s)
    BY DEF SerialInv
  <2>1. Alone /\ Current
    BY IdleType DEF Init, Alone, Current
  <2>2. NoEntries.worked \in Nat
    BY LedgerAssumption DEF Content
  <2> QED BY <2>1, <2>2 DEF Init, Charged, CreditOf
<1> QED BY <1>1, NextSerialInv, LedgerIInvHolds, PTL DEF Spec

\* When requests do not overlap, every leave day of a sheet under approval or
\* approved is paid or Loss of Pay, once: for any number of sheets, any entries
\* and any changes of policy between the steps.
THEOREM LeaveIsChargedOnce == Spec => []FullyCharged
<1>1. SerialInv => FullyCharged
  BY DEF SerialInv, FullyCharged, Charged
<1> QED BY <1>1, SerialHolds, PTL

\* When requests do not overlap, no weekend day is credited twice, however often
\* the sheet is saved, submitted, approved, recalculated and rejected.
THEOREM CompOffIsCreditedOnce == Spec => []CreditedOnce
<1>1. SerialInv => CreditedOnce
  BY DEF SerialInv, CreditedOnce, CreditOf
<1> QED BY <1>1, SerialHolds, PTL

\* Comp-off moves between the balance, what a sheet took, what it was granted and
\* what the floor at zero gave away.
CompOffMoves ==
  \/ taken' = taken /\ granted' = granted /\ forgiven' = forgiven
       /\ balance'["compoff"] = balance["compoff"]
  \/ \E s \in Sheet :
       /\ \A z \in Sheet \ {s} : taken'[z] = taken[z] /\ granted'[z] = granted[z]
       /\ balance'["compoff"] + taken'[s]["compoff"] - granted'[s] - forgiven'
            = balance["compoff"] + taken[s]["compoff"] - granted[s] - forgiven

\* A save moves the credit from the ledger to the balance.
LEMMA SaveMovesCompOff ==
  ASSUME IInv, Current, NEW u \in User, Save(u) PROVE CompOffMoves
<1> DEFINE s == req[u].sheet
           credit == Credit(AccrualOf(u), req[u].read.compoff)
<1>1. req[u] \in Request /\ s \in Sheet /\ req[u].at = "read" /\ req[u].op = "save" /\ TypeOK
  BY DEF IInv, TypeOK, Busy, Save
<1>2. req[u].read = balance /\ balance["compoff"] \in Int /\ taken[s]["compoff"] \in Int
        /\ granted[s] \in Int /\ forgiven \in Int
  BY <1>1 DEF Current, TypeOK, Paid, Reversing
<1>3. taken' = taken /\ forgiven' = forgiven
  BY DEF Save
<1>4. CASE AccrualOf(u) = 0
  BY <1>3, <1>4 DEF Save, CompOffMoves
<1>5. CASE AccrualOf(u) # 0
  <2>1. AccrualOf(u) \in Int
    BY <1>1, SplitType
  <2>2. credit \in Int
    BY <1>2, <2>1, CreditType
  <2>3. granted' = [granted EXCEPT ![s] = granted[s] + credit]
          /\ balance' = [balance EXCEPT !["compoff"] = Written(u, req[u].read.compoff + credit)]
    BY <1>5 DEF Save
  <2> HIDE DEF credit
  <2>4. Written(u, req[u].read.compoff + credit) = balance["compoff"] + credit
    BY <1>2 DEF Written
  <2>5. balance'["compoff"] = balance["compoff"] + credit
    BY <1>1, <2>3, <2>4 DEF TypeOK, Paid
  <2>6. granted'[s] = granted[s] + credit /\ \A z \in Sheet \ {s} : granted'[z] = granted[z]
    BY <1>1, <2>3 DEF TypeOK
  <2>7. balance'["compoff"] + taken'[s]["compoff"] - granted'[s] - forgiven'
          = balance["compoff"] + taken[s]["compoff"] - granted[s] - forgiven
    BY <1>2, <1>3, <2>2, <2>5, <2>6
  <2> QED BY <1>1, <1>3, <2>6, <2>7 DEF CompOffMoves
<1> QED BY <1>4, <1>5

\* The debit, both accruals and the floor add up.
LEMMA FinishMovesCompOff ==
  ASSUME IInv, Current, NEW u \in User, Finish(u) PROVE CompOffMoves
<1> DEFINE s == req[u].sheet
           first == IF AccrualOf(u) = 0 THEN 0 ELSE Credit(AccrualOf(u), req[u].read.compoff)
           last == Credit(LastAccrual(u), AfterDebit(u).compoff)
           debit == Delta(u)["compoff"]
           after == AfterDebit(u)["compoff"]
           held == SessionBalance(u)["compoff"]
<1>1. req[u] \in Request /\ s \in Sheet /\ req[u].at = "waiting" /\ TypeOK
  BY DEF IInv, TypeOK, Busy, Finish
<1>2. /\ AccrualOf(u) \in Int /\ LastAccrual(u) \in Int /\ Forgiven(u) \in Int
      /\ held \in Int /\ debit \in Int /\ after \in Int /\ AfterDebit(u) \in [Paid -> Int]
      /\ balance["compoff"] \in Int /\ taken[s]["compoff"] \in Int
      /\ granted[s] \in Int /\ forgiven \in Int /\ req[u].read["compoff"] \in Int
  BY <1>1, SplitType DEF TypeOK, Request, Paid
<1>3. first \in Int /\ last \in Int
  BY <1>2, CreditType
<1>4. AccrualOf(u) # 0 => req[u].read = balance
  BY <1>1 DEF Current, AccrualOf, AccruesFirst, Reversing
<1>5. held = balance["compoff"] + first
  BY <1>1, <1>2, <1>4 DEF SessionBalance, LockedBalance, TypeOK, Paid
<1>6. after = held - debit + Forgiven(u)
  <2>1. Forgiven(u) = after - (held - debit)
    BY DEF Forgiven
  <2> HIDE DEF after, held, debit
  <2> QED BY <1>2, <2>1
<1>7. balance'["compoff"] = after + last
  <2>1. balance' = [AfterDebit(u) EXCEPT !["compoff"] = Written(u, AfterDebit(u)["compoff"] + last)]
    BY DEF Finish
  <2> HIDE DEF last
  <2>2. Written(u, AfterDebit(u)["compoff"] + last) = after + last
    BY <1>4 DEF Written
  <2> QED BY <1>2, <2>1, <2>2 DEF Paid
<1>8. taken'[s]["compoff"] = taken[s]["compoff"] + debit
        /\ \A z \in Sheet \ {s} : taken'[z] = taken[z]
  <2>1. taken' = [taken EXCEPT ![s] = Plus(taken[s], Delta(u))]
    BY DEF Finish
  <2> QED BY <1>1, <2>1 DEF TypeOK, Plus, Paid
<1>9. granted'[s] = granted[s] + first + last /\ \A z \in Sheet \ {s} : granted'[z] = granted[z]
  BY <1>1 DEF Finish, TypeOK
<1>10. forgiven' = forgiven + Forgiven(u)
  BY DEF Finish
<1> HIDE DEF first, last, debit, after, held
<1>11. balance'["compoff"] + taken'[s]["compoff"] - granted'[s] - forgiven'
         = balance["compoff"] + taken[s]["compoff"] - granted[s] - forgiven
  BY <1>2, <1>3, <1>5, <1>6, <1>7, <1>8, <1>9, <1>10
<1> QED BY <1>1, <1>8, <1>9, <1>11 DEF CompOffMoves

\* When requests do not overlap, every step accounts for the comp-off it moves:
\* added up over the sheets, that is CompOffAccounted.
THEOREM CompOffIsAccounted == Spec => [][Serial => CompOffMoves]_vars
<1>1. IInv /\ SerialInv /\ [Next]_vars => [Serial => CompOffMoves]_vars
  <2> SUFFICES ASSUME IInv, Current, Next PROVE CompOffMoves
    BY DEF SerialInv
  <2>1. ASSUME UNCHANGED <<tables, forgiven>> PROVE CompOffMoves
    BY <2>1 DEF tables, CompOffMoves
  <2>2. ASSUME NEW u \in User, Handle(u) PROVE CompOffMoves
    <3>1. CASE Wait(u) \/ Fail(u)
      BY <2>1, <3>1 DEF Wait, Fail, Abort
    <3>2. ASSUME NEW op \in Op, NEW s \in Sheet, Open(u, op, s) PROVE CompOffMoves
      BY <2>1, <3>2 DEF Open
    <3>3. ASSUME NEW content \in Contents, Read(u, content) PROVE CompOffMoves
      BY <2>1, <3>3 DEF Read
    <3> QED BY <2>2, <3>1, <3>2, <3>3, SaveMovesCompOff, FinishMovesCompOff DEF Handle
  <2>3. ASSUME NEW p \in Policies, ChangePolicy(p) PROVE CompOffMoves
    BY <2>1, <2>3 DEF ChangePolicy
  <2> QED BY <2>2, <2>3 DEF Next
<1> QED BY <1>1, SerialHolds, LedgerIInvHolds, PTL DEF Spec
-----------------------------------------------------------------------------
(* The sums over all sheets.                                                *)

\* Days of type t that the ledger tk says each sheet took, and their sum.
DaysOf(tk, t) == [s \in Sheet |-> tk[s][t]]
TakenIn(tk, t) == MapThenSumSet(LAMBDA s : tk[s][t], Sheet)

\* The sum of the ledger is a sum of a function of the sheets.
LEMMA TakenIsSum ==
  ASSUME NEW tk, NEW t PROVE TakenIn(tk, t) = SumOf(DaysOf(tk, t), Sheet)
<1> DEFINE f == DaysOf(tk, t)
           DayPartial(g, s) == IF s = {} THEN 0
                               ELSE tk[FirstOf(s)][t] + g[s \ {FirstOf(s)}]
           DaySums(g) == g = [s \in SUBSET Sheet |-> DayPartial(g, s)]
           chosen == CHOOSE g : DaySums(g)
<1>1. TakenIn(tk, t) = chosen[Sheet]
  BY DEF TakenIn, MapThenSumSet, MapThenFoldSet, FirstOf
<1>2. \A g, s : s \in SUBSET Sheet => DayPartial(g, s) = PartialSum(f, g, s)
  BY FirstIsIn DEF PartialSum, DaysOf
<1>3. \A g : DaySums(g) <=> AreSums(f, g, Sheet)
  <2> TAKE g
  <2>1. [s \in SUBSET Sheet |-> DayPartial(g, s)] = [s \in SUBSET Sheet |-> PartialSum(f, g, s)]
    <3> HIDE DEF f, DayPartial
    <3> QED BY <1>2
  <2> QED BY <2>1 DEF AreSums
<1>4. \E g : DaySums(g)
  <2> HIDE DEF DaySums, f
  <2> QED BY <1>3, SumsExist, LedgerAssumption
<1>5. DaySums(chosen)
  <2> HIDE DEF DaySums
  <2> QED BY <1>4
<1>6. AreSums(f, chosen, Sheet) /\ AreSums(f, SumsOver(f, Sheet), Sheet)
  <2> HIDE DEF DaySums, chosen, f
  <2> QED BY <1>3, <1>5, SumsExist, LedgerAssumption DEF SumsOver
<1>7. chosen[Sheet] = SumsOver(f, Sheet)[Sheet]
  <2> HIDE DEF DaySums, chosen, f
  <2> QED BY <1>6, OneSum, LedgerAssumption
<1> HIDE DEF f, chosen
<1> QED BY <1>1, <1>7, Unfold DEF f

\* The sums of the ledger, now and after a step.
LEMMA LedgerSums ==
  /\ \A t : TakenOf(t) = TakenIn(taken, t)
  /\ \A t : TakenOf(t)' = TakenIn(taken', t)
BY DEF TakenOf, TakenIn, MapThenSumSet, MapThenFoldSet

\* When one sheet changes, the sum changes by what that sheet changed by.
LEMMA DaysChange ==
  ASSUME NEW f \in [Sheet -> Int], NEW g \in [Sheet -> Int], NEW s \in Sheet,
         \A z \in Sheet \ {s} : f[z] = g[z]
  PROVE  /\ SumOf(f, Sheet) \in Int
         /\ SumOf(g, Sheet) = SumOf(f, Sheet) - f[s] + g[s]
<1>1. IsFiniteSet(Sheet) /\ Sheet \in SUBSET Sheet
  BY LedgerAssumption
<1> QED BY <1>1, SumType, SumChanges

LEMMA TakenChanges ==
  ASSUME NEW tk, NEW tk2, NEW t \in Paid, NEW s \in Sheet,
         \A z \in Sheet : tk[z][t] \in Int /\ tk2[z][t] \in Int,
         \A z \in Sheet \ {s} : tk2[z][t] = tk[z][t]
  PROVE  /\ TakenIn(tk, t) \in Int
         /\ TakenIn(tk2, t) = TakenIn(tk, t) - tk[s][t] + tk2[s][t]
<1> DEFINE f == DaysOf(tk, t)
           g == DaysOf(tk2, t)
<1>1. /\ f \in [Sheet -> Int] /\ g \in [Sheet -> Int]
      /\ \A z \in Sheet \ {s} : f[z] = g[z]
      /\ f[s] = tk[s][t] /\ g[s] = tk2[s][t]
  BY DEF DaysOf
<1>2. TakenIn(tk, t) = SumOf(f, Sheet) /\ TakenIn(tk2, t) = SumOf(g, Sheet)
  BY TakenIsSum
<1> HIDE DEF f, g
<1>3. /\ SumOf(f, Sheet) \in Int
      /\ SumOf(g, Sheet) = SumOf(f, Sheet) - f[s] + g[s]
  BY <1>1, DaysChange
<1> QED BY <1>1, <1>2, <1>3

\* At the start nothing is taken.
LEMMA NoneTakenYet ==
  ASSUME Init, NEW t \in Paid PROVE TakenIn(taken, t) = 0
<1> DEFINE f == DaysOf(taken, t)
<1>1. f \in [Sheet -> Int] /\ \A s \in Sheet : f[s] = 0
  BY DEF Init, DaysOf
<1>2. IsFiniteSet(Sheet) /\ Sheet \in SUBSET Sheet
  BY LedgerAssumption
<1>3. TakenIn(taken, t) = SumOf(f, Sheet)
  BY TakenIsSum
<1> HIDE DEF f
<1> QED BY <1>1, <1>2, <1>3, SumOfZeros

\* The two books in terms of those sums.
LEMMA PaidLeaveInSums ==
  /\ PaidLeaveConserved <=>
       balance["leave"] >= 0 /\ balance["leave"] + TakenIn(taken, "leave") = Opening["leave"]
  /\ PaidLeaveConserved' <=>
       balance'["leave"] >= 0 /\ balance'["leave"] + TakenIn(taken', "leave") = Opening["leave"]
BY LedgerSums DEF PaidLeaveConserved

LEMMA CompOffInSums ==
  /\ CompOffAccounted <=>
       (Serial => balance["compoff"] = Opening["compoff"] - TakenIn(taken, "compoff")
                                         + forgiven + SumOf(granted, Sheet))
  /\ CompOffAccounted' <=>
       (Serial' => balance'["compoff"] = Opening["compoff"] - TakenIn(taken', "compoff")
                                           + forgiven' + SumOf(granted', Sheet))
BY LedgerSums DEF CompOffAccounted, SumOf, MapThenSumSet, MapThenFoldSet

\* Whatever requests overlap on the sheets of an assignment, the balance of paid
\* leave is the opening balance less what the ledger says was taken, and is never
\* negative (consume_pe_leave, restore_leaves, under the lock of the balance row).
THEOREM PaidLeaveIsConserved == Spec => []PaidLeaveConserved
<1>1. Init => PaidLeaveConserved
  <2> SUFFICES ASSUME Init
               PROVE  balance["leave"] >= 0
                        /\ balance["leave"] + TakenIn(taken, "leave") = Opening["leave"]
    BY PaidLeaveInSums
  <2>1. TakenIn(taken, "leave") = 0
    BY NoneTakenYet DEF Paid
  <2> QED BY <2>1, LedgerAssumption DEF Init, Paid
<1>2. IInv /\ IInv' /\ PaidLeaveConserved /\ [LeaveMoves]_vars => PaidLeaveConserved'
  <2> SUFFICES ASSUME IInv, IInv', PaidLeaveConserved, [LeaveMoves]_vars
               PROVE  PaidLeaveConserved'
    OBVIOUS
  <2>1. /\ balance["leave"] \in Int /\ balance'["leave"] \in Int /\ balance'["leave"] >= 0
        /\ \A s \in Sheet : taken[s]["leave"] \in Int /\ taken'[s]["leave"] \in Int
        /\ Opening["leave"] \in Int
    BY LedgerAssumption DEF IInv, TypeOK, NoOverdraft, Paid
  <2>2. balance["leave"] + TakenIn(taken, "leave") = Opening["leave"]
    BY PaidLeaveInSums
  <2>3. CASE taken' = taken /\ balance'["leave"] = balance["leave"]
    BY <2>1, <2>2, <2>3, PaidLeaveInSums
  <2>4. ASSUME NEW s \in Sheet, \A z \in Sheet \ {s} : taken'[z] = taken[z],
               balance'["leave"] + taken'[s]["leave"] = balance["leave"] + taken[s]["leave"]
        PROVE  PaidLeaveConserved'
    <3>1. \A z \in Sheet \ {s} : taken'[z]["leave"] = taken[z]["leave"]
      BY <2>4
    <3>2. /\ TakenIn(taken, "leave") \in Int
          /\ TakenIn(taken', "leave")
               = TakenIn(taken, "leave") - taken[s]["leave"] + taken'[s]["leave"]
      BY <2>1, <3>1, TakenChanges DEF Paid
    <3>3. taken[s]["leave"] \in Int /\ taken'[s]["leave"] \in Int
      BY <2>1
    <3>4. balance'["leave"] + TakenIn(taken', "leave") = Opening["leave"]
      BY <2>1, <2>2, <2>4, <3>2, <3>3
    <3> QED BY <2>1, <3>4, PaidLeaveInSums
  <2>5. CASE UNCHANGED vars
    BY <2>3, <2>5 DEF vars, tables
  <2> QED BY <2>3, <2>4, <2>5 DEF LeaveMoves
<1> QED BY <1>1, <1>2, LedgerIInvHolds, PaidLeaveMoves, PTL DEF Spec

\* A step that leaves requests apart found them so.
LEMMA SerialBefore ==
  ASSUME TypeOK, Serial', [Next]_vars PROVE Serial
<1>1. used.overlaps \in Nat /\ used \in [requests : Nat, overlaps : Nat, policies : Nat]
  BY DEF TypeOK
<1>2. CASE used' = used
  BY <1>2 DEF Serial
<1>3. CASE used' = [used EXCEPT !.requests = used.requests + 1]
  BY <1>1, <1>3 DEF Serial
<1>4. CASE used' = [used EXCEPT !.requests = used.requests + 1, !.overlaps = used.overlaps + 1]
  <2>1. used'.overlaps = used.overlaps + 1
    BY <1>1, <1>4
  <2> QED BY <1>1, <2>1 DEF Serial
<1>5. CASE used' = [used EXCEPT !.policies = used.policies + 1]
  BY <1>1, <1>5 DEF Serial
<1>6. CASE UNCHANGED vars
  BY <1>2, <1>6 DEF vars
<1>7. ASSUME NEW u \in User, Handle(u) PROVE Serial
  <2>1. CASE Save(u) \/ Finish(u) \/ Wait(u) \/ Fail(u)
    BY <1>2, <2>1 DEF Save, Finish, Wait, Fail, Abort
  <2>2. ASSUME NEW op \in Op, NEW s \in Sheet, Open(u, op, s) PROVE Serial
    BY <1>3, <1>4, <2>2 DEF Open
  <2>3. ASSUME NEW content \in Contents, Read(u, content) PROVE Serial
    BY <1>2, <2>3 DEF Read
  <2> QED BY <1>7, <2>1, <2>2, <2>3 DEF Handle
<1>8. ASSUME NEW p \in Policies, ChangePolicy(p) PROVE Serial
  BY <1>5, <1>8 DEF ChangePolicy
<1> QED BY <1>6, <1>7, <1>8 DEF Next

\* While requests do not overlap, the comp-off balance is the opening balance less
\* what sheets took, plus what they were granted and what the floor gave away.
THEOREM CompOffAddsUp == Spec => []CompOffAccounted
<1>1. Init => CompOffAccounted
  <2> SUFFICES ASSUME Init
               PROVE  balance["compoff"] = Opening["compoff"] - TakenIn(taken, "compoff")
                                             + forgiven + SumOf(granted, Sheet)
    BY CompOffInSums
  <2>1. TakenIn(taken, "compoff") = 0
    BY NoneTakenYet DEF Paid
  <2>2. SumOf(granted, Sheet) = 0
    <3>1. granted \in [Sheet -> Int] /\ \A s \in Sheet : granted[s] = 0
      BY DEF Init
    <3>2. IsFiniteSet(Sheet) /\ Sheet \in SUBSET Sheet
      BY LedgerAssumption
    <3> QED BY <3>1, <3>2, SumOfZeros
  <2>3. Opening["compoff"] \in Int /\ balance["compoff"] = Opening["compoff"] /\ forgiven = 0
    BY LedgerAssumption DEF Paid, Init
  <2> QED BY <2>1, <2>2, <2>3
<1>2. IInv /\ IInv' /\ CompOffAccounted /\ [Next]_vars /\ [Serial => CompOffMoves]_vars
        => CompOffAccounted'
  <2> SUFFICES ASSUME IInv, IInv', CompOffAccounted, Serial, [Serial => CompOffMoves]_vars
               PROVE  balance'["compoff"] = Opening["compoff"] - TakenIn(taken', "compoff")
                                              + forgiven' + SumOf(granted', Sheet)
    BY SerialBefore, CompOffInSums DEF IInv
  <2>1. /\ balance["compoff"] \in Int /\ balance'["compoff"] \in Int
        /\ \A s \in Sheet : taken[s]["compoff"] \in Int /\ taken'[s]["compoff"] \in Int
        /\ granted \in [Sheet -> Int] /\ granted' \in [Sheet -> Int]
        /\ Opening["compoff"] \in Int /\ forgiven \in Int /\ forgiven' \in Int
    BY LedgerAssumption DEF IInv, TypeOK, Paid
  <2>2. balance["compoff"] = Opening["compoff"] - TakenIn(taken, "compoff")
                               + forgiven + SumOf(granted, Sheet)
    BY CompOffInSums
  <2>3. CASE /\ taken' = taken /\ granted' = granted /\ forgiven' = forgiven
             /\ balance'["compoff"] = balance["compoff"]
    BY <2>2, <2>3
  <2>4. ASSUME NEW s \in Sheet,
               \A z \in Sheet \ {s} : taken'[z] = taken[z] /\ granted'[z] = granted[z],
               balance'["compoff"] + taken'[s]["compoff"] - granted'[s] - forgiven'
                 = balance["compoff"] + taken[s]["compoff"] - granted[s] - forgiven
        PROVE  balance'["compoff"] = Opening["compoff"] - TakenIn(taken', "compoff")
                                       + forgiven' + SumOf(granted', Sheet)
    <3>1. \A z \in Sheet \ {s} : taken'[z]["compoff"] = taken[z]["compoff"]
      BY <2>4
    <3>2. /\ TakenIn(taken, "compoff") \in Int
          /\ TakenIn(taken', "compoff")
               = TakenIn(taken, "compoff") - taken[s]["compoff"] + taken'[s]["compoff"]
      BY <2>1, <3>1, TakenChanges DEF Paid
    <3>3. /\ SumOf(granted, Sheet) \in Int
          /\ SumOf(granted', Sheet) = SumOf(granted, Sheet) - granted[s] + granted'[s]
      <4>1. \A z \in Sheet \ {s} : granted[z] = granted'[z]
        BY <2>4
      <4> QED BY <2>1, <4>1, DaysChange
    <3>4. /\ taken[s]["compoff"] \in Int /\ taken'[s]["compoff"] \in Int
          /\ granted[s] \in Int /\ granted'[s] \in Int
      BY <2>1
    <3> QED BY <2>1, <2>2, <2>4, <3>2, <3>3, <3>4
  <2>5. CASE UNCHANGED vars
    BY <2>3, <2>5 DEF vars, tables
  <2> QED BY <2>3, <2>4, <2>5 DEF CompOffMoves
<1> QED BY <1>1, <1>2, LedgerIInvHolds, CompOffIsAccounted, PTL DEF Spec
-----------------------------------------------------------------------------
(* When a frozen split is final.  The figures are worked out once more from *)
(* balances that are debited and a ledger that is not flushed, so they      *)
(* repeat the split only if there was nothing to debit, or as much again is *)
(* left: run LedgerFrozen shows a sheet where they do not.                  *)

\* u is about to freeze the figures of its sheet.
Freezing(u) == req[u].at = "waiting" /\ req[u].op \in {"approve", "recalculate"}

\* The sheet needs no more days of t, or they are all paid and the balance could
\* pay for them again.
Room(u, t) ==
  Delta(u)[t] = 0 \/ (Split(u)[t] = Needed(u)[t] /\ AfterDebit(u)[t] >= Delta(u)[t])

\* What a handler read of the ledger is what the ledger says.
PriorCurrent == \A u \in User : req[u].at = "waiting" => req[u].prior = taken[req[u].sheet]

\* The figures a request freezes are what the ledger says of its sheet exactly
\* when there is room.
LEMMA FinishFreezes ==
  ASSUME IInv, PriorCurrent, NEW u \in User, Freezing(u), Finish(u)
  PROVE  figures'[req[u].sheet] = taken'[req[u].sheet] <=> \A t \in Paid : Room(u, t)
<1>1. PICK s \in Sheet : s = req[u].sheet
  BY DEF Freezing, IInv, Busy
<1>2. /\ Needed(u) \in Content /\ SessionBalance(u) \in [Paid -> Int]
      /\ AfterDebit(u) \in [Paid -> Int] /\ AvailableInSession(u) \in [Paid -> Int]
      /\ Split(u) \in [Paid -> Nat] /\ taken[s] \in [Paid -> Nat] /\ req[u].prior = taken[s]
  BY <1>1, SplitType DEF Freezing, IInv, TypeOK, PriorCurrent
<1>3. figures'[s] = PaidDays(Needed(u), AvailableInSession(u))
  BY <1>1 DEF Finish, FiguresAfter, Freezing, IInv, TypeOK
<1>4. taken'[s] = Plus(taken[s], Delta(u))
  BY <1>1 DEF Finish, IInv, TypeOK
<1>5. figures'[s] \in [Paid -> Nat]
  BY <1>2, <1>3, PaidDaysType
<1>6. \A t \in Paid : taken'[s][t] = Split(u)[t]
  <2>1. \A t \in Paid : taken'[s][t] = taken[s][t] + (Split(u)[t] - taken[s][t])
    BY <1>1, <1>4 DEF Plus, Delta, Already
  <2>2. \A t \in Paid : taken[s][t] \in Nat /\ Split(u)[t] \in Nat
    BY <1>2
  <2> QED BY <2>1, <2>2
<1>7. taken'[s] \in [Paid -> Nat]
  <2>1. taken'[s] = [t \in Paid |-> taken[s][t] + Delta(u)[t]]
    BY <1>4 DEF Plus
  <2> QED BY <1>2, <1>6, <2>1
<1>8. ASSUME NEW t \in Paid PROVE figures'[s][t] = taken'[s][t] <=> Room(u, t)
  <2>1. Needed(u)[t] \in Nat /\ SessionBalance(u)[t] \in Int /\ taken[s][t] \in Nat
    BY <1>2 DEF Content, Paid
  <2>2. Split(u)[t] = Least(Needed(u)[t], Most(SessionBalance(u)[t] + taken[s][t], 0))
    BY <1>2 DEF Split, PaidDays, Plus
  <2>3. Delta(u)[t] = Split(u)[t] - taken[s][t]
    BY <1>1 DEF Delta, Already
  <2>4. AfterDebit(u)[t] = IF Delta(u)[t] = 0 THEN SessionBalance(u)[t]
                           ELSE Most(SessionBalance(u)[t] - Delta(u)[t], 0)
    BY DEF AfterDebit
  <2>5. figures'[s][t] = Least(Needed(u)[t], Most(AfterDebit(u)[t] + taken[s][t], 0))
    BY <1>1, <1>3 DEF PaidDays, AvailableInSession, Plus
  <2>6. figures'[s][t] = Split(u)[t] <=> Room(u, t)
    <3>1. (figures'[s][t] = Split(u)[t]) <=>
            (Delta(u)[t] = 0 \/ (Split(u)[t] = Needed(u)[t] /\ AfterDebit(u)[t] >= Delta(u)[t]))
      BY ONLY <2>1, <2>2, <2>3, <2>4, <2>5 DEF Least, Most
    <3> QED BY <3>1 DEF Room
  <2> QED BY <1>6, <2>6
<1>9. figures'[s] = taken'[s] <=> \A t \in Paid : figures'[s][t] = taken'[s][t]
  BY <1>5, <1>7
<1> QED BY <1>1, <1>8, <1>9

\* An earlier step did not overlap either.
LEMMA SerialWas == IInv /\ [Next]_vars /\ Serial' => Serial
<1> SUFFICES ASSUME IInv, [Next]_vars, Serial' PROVE Serial
  OBVIOUS
<1>1. used \in [requests : Nat, overlaps : Nat, policies : Nat]
  BY DEF IInv, TypeOK
<1>2. UNCHANGED used \/ used'.overlaps = used.overlaps \/ used'.overlaps = used.overlaps + 1
  BY <1>1 DEF Next, vars, Handle, Open, Read, Wait, Save, Finish, Fail, Abort, ChangePolicy
<1> QED BY <1>1, <1>2 DEF Serial

\* What a handler read of the ledger stays true while it works alone.
LEMMA NextPrior ==
  IInv /\ SerialInv /\ (Serial => PriorCurrent) /\ [Next]_vars => (Serial => PriorCurrent)'
<1> SUFFICES ASSUME IInv, SerialInv, Serial => PriorCurrent, [Next]_vars, Serial'
             PROVE  PriorCurrent'
  OBVIOUS
<1>1. Alone /\ PriorCurrent /\ req \in [User -> Request]
  BY SerialWas DEF SerialInv, IInv, TypeOK
<1>2. ASSUME NEW u \in User, UNCHANGED taken, req'[u].at # "waiting",
             \A v \in User : v # u => req'[v] = req[v]
      PROVE  PriorCurrent'
  BY <1>1, <1>2 DEF PriorCurrent
<1>3. ASSUME NEW u \in User, req[u].at # "idle", Done(u) PROVE PriorCurrent'
  <2>1. \A v \in User : req'[v].at = "idle"
    BY <1>1, <1>3, IdleType DEF Done, Alone
  <2> QED BY <2>1 DEF PriorCurrent
<1>4. ASSUME NEW u \in User, NEW op \in Op, NEW s \in Sheet, Open(u, op, s)
      PROVE  PriorCurrent'
  <2>1. req'[u].at = "opened" /\ UNCHANGED taken /\ \A v \in User : v # u => req'[v] = req[v]
    BY <1>1, <1>4, IdleType DEF Open, tables, Request
  <2> QED BY <1>2, <2>1
<1>5. ASSUME NEW u \in User, NEW content \in Contents, Read(u, content)
      PROVE  PriorCurrent'
  <2>1. req'[u].at = "read" /\ UNCHANGED taken /\ \A v \in User : v # u => req'[v] = req[v]
    BY <1>1, <1>5 DEF Read, tables, Request
  <2> QED BY <1>2, <2>1
<1>6. ASSUME NEW u \in User, Wait(u) PROVE PriorCurrent'
  <2>1. /\ req'[u].prior = taken[req[u].sheet] /\ req'[u].sheet = req[u].sheet
        /\ UNCHANGED taken /\ \A v \in User : v # u => req'[v] = req[v]
    BY <1>1, <1>6 DEF Wait, tables, Request
  <2> QED BY <1>1, <2>1 DEF PriorCurrent
<1>7. ASSUME NEW u \in User, Save(u) \/ Finish(u) \/ Fail(u) PROVE PriorCurrent'
  BY <1>3, <1>7 DEF Save, Finish, Fail, Abort
<1>8. (UNCHANGED vars \/ \E p \in Policies : ChangePolicy(p)) => UNCHANGED <<req, taken>>
  BY DEF vars, ChangePolicy, tables
<1>9. UNCHANGED <<req, taken>> => PriorCurrent'
  BY <1>1 DEF PriorCurrent
<1> QED BY <1>4, <1>5, <1>6, <1>7, <1>8, <1>9 DEF Next, Handle

\* The ledger a handler works from is current when requests do not overlap.
LEMMA PriorHolds == Spec => [](Serial => PriorCurrent)
<1>1. Init => (Serial => PriorCurrent)
  BY IdleType DEF Init, PriorCurrent
<1> QED BY <1>1, NextPrior, LedgerIInvHolds, SerialHolds, PTL DEF Spec

\* approve_timesheet and the recalculation freeze what the ledger says exactly
\* when the sheet needs no more days, or its days are all paid and the balance
\* left would pay for the new ones again.
FreezesIfRoom ==
  Serial => \A u \in User : Freezing(u) /\ Finish(u) =>
    (figures'[req[u].sheet] = taken'[req[u].sheet] <=> \A t \in Paid : Room(u, t))

THEOREM SplitIsFrozenIfRoom == Spec => [][FreezesIfRoom]_vars
<1>1. IInv /\ (Serial => PriorCurrent) /\ [Next]_vars => [FreezesIfRoom]_vars
  BY FinishFreezes DEF FreezesIfRoom
<1> QED BY <1>1, LedgerIInvHolds, PriorHolds, PTL DEF Spec

\* Every sheet that is about to be frozen has room.
RoomToFreeze == \A u \in User : Freezing(u) => \A t \in Paid : Room(u, t)

\* The split of an approved sheet stays final.
LEMMA NextFrozen ==
  IInv /\ SerialInv /\ (Serial => PriorCurrent) /\ RoomToFreeze /\ FrozenSplitIsFinal /\ [Next]_vars
    => FrozenSplitIsFinal'
<1> SUFFICES ASSUME IInv, SerialInv, Serial => PriorCurrent, RoomToFreeze, FrozenSplitIsFinal,
                    [Next]_vars, Serial', NEW z \in Sheet, status'[z] = "Approved"
             PROVE  figures'[z] = taken'[z]
  BY DEF FrozenSplitIsFinal
<1>1. Serial /\ PriorCurrent /\ Current /\ TypeOK
  BY SerialWas DEF SerialInv, IInv
<1>2. ASSUME UNCHANGED <<status, figures, taken>> PROVE figures'[z] = taken'[z]
  BY <1>1, <1>2 DEF FrozenSplitIsFinal
<1>3. ASSUME NEW u \in User, Finish(u) PROVE figures'[z] = taken'[z]
  <2>1. req[u] \in Request /\ req[u].sheet \in Sheet /\ req[u].at = "waiting"
          /\ req[u].op \in Op \ {"save"}
    BY <1>1, <1>3 DEF IInv, TypeOK, Busy, Finish, Request
  <2>2. CASE z # req[u].sheet
    <3>1. status'[z] = status[z] /\ figures'[z] = figures[z] /\ taken'[z] = taken[z]
      BY <1>1, <1>3, <2>1, <2>2 DEF Finish, TypeOK
    <3> QED BY <1>1, <3>1 DEF FrozenSplitIsFinal
  <2>3. CASE z = req[u].sheet
    <3>1. req[u].op \in {"approve", "recalculate"}
      BY <1>1, <1>3, <2>1, <2>3 DEF Finish, StatusAfter, TypeOK, Op
    <3>2. Freezing(u)
      BY <2>1, <3>1 DEF Freezing
    <3> QED BY <1>1, <1>3, <2>3, <3>2, FinishFreezes DEF RoomToFreeze
  <2> QED BY <2>2, <2>3
<1>4. ASSUME NEW u \in User, Handle(u), ~Finish(u) PROVE UNCHANGED <<status, figures, taken>>
  BY <1>4 DEF Handle, Open, Read, Wait, Save, Fail, Abort, tables
<1>5. (UNCHANGED vars \/ \E p \in Policies : ChangePolicy(p)) => UNCHANGED <<status, figures, taken>>
  BY DEF vars, ChangePolicy, tables
<1> QED BY <1>2, <1>3, <1>4, <1>5 DEF Next

\* "So the frozen paid-vs-LOP split is final": it is, for any number of sheets and
\* any changes of policy, as long as every sheet that is approved or recalculated
\* has room.
THEOREM RoomMakesSplitFinal == Spec /\ []RoomToFreeze => []FrozenSplitIsFinal
<1>1. Init => FrozenSplitIsFinal
  BY DEF Init, FrozenSplitIsFinal
<1> QED BY <1>1, NextFrozen, LedgerIInvHolds, SerialHolds, PriorHolds, PTL DEF Spec
=============================================================================
