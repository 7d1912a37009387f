--------------------------- MODULE EmailOutboxProofs ---------------------------
(***************************************************************************)
(* Proofs about EmailOutbox, for every set of requests, mails, workers and *)
(* administrators and every value of the bounds.                           *)
(***************************************************************************)
EXTENDS EmailOutbox, TLAPS

-----------------------------------------------------------------------------
(* The type invariant.                                                      *)

\* The initial state is well typed.
LEMMA InitTypeOK == Init => TypeOK
  BY ConstantsAssumption
  DEF Init, Budget, TypeOK, NoRow, RowRec, Stage, Status, NoWork, Work, At, Blank, Columns

\* The constants queue_email and Init put into the table are rows.
LEMMA NewRowType == NewRow \in RowRec /\ NoRow \in RowRec
  BY DEF NewRow, NoRow, RowRec, Stage, Status

\* What a step may change in a row keeps it a row.
LEMMA RowUpdates ==
  ASSUME NEW row \in RowRec
  PROVE  /\ \A s \in Stage : [row EXCEPT !.stage = s] \in RowRec
         /\ \A b \in BOOLEAN : [row EXCEPT !.due = b] \in RowRec
         /\ \A b \in BOOLEAN : [row EXCEPT !.recent = b] \in RowRec
         /\ \A s \in Status, n \in Nat, b \in BOOLEAN :
              Write(row, s, n, b) \in RowRec
  BY DEF RowRec, Write

\* A message a request asks for is a row of that request.
LEMMA RowOfRequest == ASSUME NEW r \in Request, NEW m \in Asks[r] PROVE <<r, m>> \in Row
  BY ConstantsAssumption DEF Row

\* A rollback keeps the types.
LEMMA UndoTypeOK ==
  ASSUME TypeOK, NEW r \in Request, NEW how \in {"rolledback", "conflict"}, Undo(r, how)
  PROVE  TypeOK'
<1> USE DEF TypeOK
<1>1. phase' \in [Request -> {"open", "committed", "rolledback", "conflict"}]
  BY DEF Undo
<1>2. outbox' \in [Row -> RowRec]
  BY NewRowType DEF Undo
<1>3. excused' \in [Row -> Nat]
  BY DEF Undo
<1> QED BY <1>1, <1>2, <1>3 DEF Undo, drainVars, adminVars

\* An inline mail that is not recorded touches only what was asked and, when it
\* has gone out, its two counts.
LEMMA UnrecordedStep ==
  ASSUME TypeOK, NEW r \in Request, NEW m \in Asks[r], NEW sent \in BOOLEAN,
         RecordingFails(r, m, sent)
  PROVE  /\ <<r, m>> \in Row /\ phase[r] = "open" /\ asked[<<r, m>>] = "todo"
         /\ UNCHANGED <<phase, outbox, switch, drainVars, adminVars, used>>
         /\ asked' \in [Row -> {"todo", "queued", "muted", "duplicate", "unrecorded"}]
         /\ asked'[<<r, m>>] = "unrecorded"
         /\ \A x \in Row : x # <<r, m>> => asked'[x] = asked[x]
         /\ delivered' \in [Row -> Nat] /\ excused' \in [Row -> Nat]
         /\ \A x \in Row : delivered[x] = excused[x] => delivered'[x] = excused'[x]
         /\ \A x \in Row : x # <<r, m>> =>
              delivered'[x] = delivered[x] /\ excused'[x] = excused[x]
<1>1. <<r, m>> \in Row
  BY RowOfRequest
<1>2. /\ asked' \in [Row -> {"todo", "queued", "muted", "duplicate", "unrecorded"}]
      /\ asked'[<<r, m>>] = "unrecorded"
      /\ \A x \in Row : x # <<r, m>> => asked'[x] = asked[x]
  BY <1>1 DEF RecordingFails, TypeOK
<1>3. CASE sent
  <2>1. /\ delivered' = [delivered EXCEPT ![<<r, m>>] = @ + 1]
        /\ excused' = [excused EXCEPT ![<<r, m>>] = @ + 1]
    BY <1>3 DEF RecordingFails
  <2>2. delivered \in [Row -> Nat] /\ excused \in [Row -> Nat]
    BY DEF TypeOK
  <2> QED BY <1>1, <1>2, <2>1, <2>2 DEF RecordingFails
<1>4. CASE ~sent
  BY <1>1, <1>2, <1>4 DEF RecordingFails, TypeOK, history
<1> QED BY <1>3, <1>4

\* Every step of a business request keeps the types.
LEMMA RequestTypeOK ==
  ASSUME TypeOK, NEW r \in Request, RequestStep(r) PROVE TypeOK'
<1> USE DEF requestVars, drainVars, adminVars, history
<1>1. CASE \E m \in Asks[r], fails \in Failing : QueueEmail(r, m, fails)
  <2> PICK m \in Asks[r], fails \in Failing : QueueEmail(r, m, fails)
    BY <1>1
  <2>1. outbox' \in [Row -> RowRec]
    BY NewRowType DEF QueueEmail, TypeOK
  <2>2. asked' \in [Row -> {"todo", "queued", "muted", "duplicate", "unrecorded"}]
    BY DEF QueueEmail, TypeOK
  <2> QED BY <2>1, <2>2 DEF QueueEmail, TypeOK
<1>2. CASE \E m \in Asks[r], sent \in BOOLEAN : RecordInline(r, m, sent)
  <2> PICK m \in Asks[r], sent \in BOOLEAN : RecordInline(r, m, sent)
    BY <1>2
  <2> DEFINE new == [NewRow EXCEPT !.stage = "inserted", !.attempts = 1,
                                   !.status = IF sent THEN "Sent" ELSE "Failed"]
  <2>1. new \in RowRec
    BY DEF NewRow, NoRow, RowRec, Stage, Status
  <2>2. outbox' \in [Row -> RowRec]
    BY <2>1 DEF RecordInline, TypeOK
  <2>3. asked' \in [Row -> {"todo", "queued", "muted", "duplicate", "unrecorded"}]
    BY DEF RecordInline, TypeOK
  <2>0. <<r, m>> \in Row
    BY RowOfRequest
  <2>4. delivered' \in [Row -> Nat]
    BY <2>0 DEF RecordInline, TypeOK
  <2> QED BY <2>2, <2>3, <2>4 DEF RecordInline, TypeOK
<1>3. CASE \E x \in RowsOf(r) : Flush(r, x)
  <2> PICK x \in RowsOf(r) : Flush(r, x)
    BY <1>3
  <2>1. outbox' \in [Row -> RowRec]
    BY RowUpdates DEF Flush, TypeOK, RowsOf, Stage
  <2> QED BY <2>1 DEF Flush, TypeOK
<1>4. CASE \E x \in RowsOf(r) : KeyConflict(r, x)
  BY <1>4, UndoTypeOK DEF KeyConflict
<1>5. CASE DeadlockVictim(r)
  BY <1>5, UndoTypeOK DEF DeadlockVictim
<1>6. CASE CommitRequest(r)
  <2>1. outbox' \in [Row -> RowRec]
    BY <1>6, RowUpdates DEF CommitRequest, TypeOK, Stage
  <2>2. phase' \in [Request -> {"open", "committed", "rolledback", "conflict"}]
    BY <1>6 DEF CommitRequest, TypeOK
  <2> QED BY <1>6, <2>1, <2>2 DEF CommitRequest, TypeOK
<1>7. CASE \E m \in Asks[r], sent \in BOOLEAN : RecordingFails(r, m, sent)
  <2> PICK m \in Asks[r], sent \in BOOLEAN : RecordingFails(r, m, sent)
    BY <1>7
  <2>1. /\ asked' \in [Row -> {"todo", "queued", "muted", "duplicate", "unrecorded"}]
        /\ delivered' \in [Row -> Nat] /\ excused' \in [Row -> Nat]
    BY UnrecordedStep
  <2>2. UNCHANGED <<phase, outbox, switch, drainVars, adminVars, used>>
    BY DEF RecordingFails
  <2> QED BY <2>1, <2>2 DEF TypeOK
<1> QED BY <1>1, <1>2, <1>3, <1>4, <1>5, <1>6, <1>7 DEF RequestStep

\* The fields of what a drain records for a row have their types.
LEMMA WorkFields ==
  ASSUME NEW work \in Work
  PROVE  /\ work.at \in At /\ work.status \in Status /\ work.attempts \in Nat
         /\ \A p \in At, s \in Status :
              [at |-> p, status |-> s, attempts |-> work.attempts] \in Work
         /\ \A p \in At :
              [at |-> p, status |-> work.status, attempts |-> work.attempts + 1] \in Work
  BY DEF Work

\* The blank entry of a drain is well typed.
LEMMA NoWorkType == NoWork \in Work
  BY DEF Work, NoWork, At, Status

\* Using up one unit of a bound leaves a record of bounds.
LEMMA BudgetUse ==
  ASSUME NEW b \in Budget
  PROVE  /\ [b EXCEPT !.lost = @ + 1] \in Budget
         /\ [b EXCEPT !.ambiguous = @ + 1] \in Budget
         /\ [b EXCEPT !.toggles = @ + 1] \in Budget
         /\ [b EXCEPT !.retries = @ + 1] \in Budget
  BY DEF Budget

\* Recording the outcome of a row keeps the image well typed.
LEMMA OutcomeType ==
  ASSUME TypeOK, NEW w \in Worker, NEW x \in Row, NEW s \in Status, Outcome(w, x, s)
  PROVE  image' \in [Worker -> [Row -> Work]]
<1>0. image[w][x] \in Work
  BY DEF TypeOK
<1>1. [at |-> "done", status |-> s, attempts |-> image[w][x].attempts] \in Work
  BY <1>0, WorkFields DEF At
<1> QED BY <1>1 DEF Outcome, TypeOK

\* Every action of a draining session rewrites the image of one row or of none.
LEMMA DrainTypeOK ==
  ASSUME TypeOK, NEW w \in Worker, DrainStep(w) \/ LoseBatch(w) PROVE TypeOK'
<1> USE DEF requestVars, adminVars, history
<1>1. CASE \E S \in SUBSET Claimable, fails \in LookupFails : Claim(w, S, fails)
  <2> PICK S \in SUBSET Claimable, fails \in LookupFails : Claim(w, S, fails)
    BY <1>1
  <2>1. batch' \in [Worker -> SUBSET Row]
    BY DEF Claim, Claimable, TypeOK
  <2>2. image' \in [Worker -> [Row -> Work]]
    <3>1. \A x \in Row : [at |-> "claimed", status |-> outbox[x].status,
                          attempts |-> outbox[x].attempts] \in Work
      BY DEF TypeOK, RowRec, Work, At
    <3>2. NoWork \in Work
      BY DEF NoWork, Work, At, Status
    <3> QED BY <3>1, <3>2 DEF Claim, TypeOK
  <2>3. masterOn' \in [Worker -> BOOLEAN]
    <3>1. Enabled(Master, fails) \in BOOLEAN
      BY DEF Enabled
    <3> QED BY <3>1 DEF Claim, TypeOK
  <2> QED BY <2>1, <2>2, <2>3 DEF Claim, TypeOK
<1>2. CASE \E x \in batch[w], fails \in LookupFails : Suppress(w, x, fails)
  <2> PICK x \in batch[w], fails \in LookupFails : Suppress(w, x, fails)
    BY <1>2
  <2>1. image[w][x] \in Work /\ x \in Row
    BY DEF TypeOK
  <2>2. image' \in [Worker -> [Row -> Work]]
    BY <2>1, OutcomeType DEF Suppress, Status
  <2> QED BY <2>2 DEF Suppress, TypeOK
<1>3. CASE \E x \in batch[w], fails \in LookupFails : StartSend(w, x, fails)
  <2> PICK x \in batch[w], fails \in LookupFails : StartSend(w, x, fails)
    BY <1>3
  <2>1. image[w][x] \in Work /\ x \in Row
    BY DEF TypeOK
  <2>2. image' \in [Worker -> [Row -> Work]]
    <3>1. [at |-> "sending", status |-> image[w][x].status,
           attempts |-> image[w][x].attempts + 1] \in Work
      BY <2>1, WorkFields DEF At
    <3> QED BY <2>1, <3>1 DEF StartSend, TypeOK
  <2> QED BY <2>2 DEF StartSend, TypeOK
<1>4. CASE \E x \in batch[w] : SendOk(w, x)
  <2> PICK x \in batch[w] : SendOk(w, x)
    BY <1>4
  <2>1. image[w][x] \in Work /\ x \in Row
    BY DEF TypeOK
  <2>2. image' \in [Worker -> [Row -> Work]]
    BY <2>1, OutcomeType DEF SendOk, Status
  <2>3. delivered' \in [Row -> Nat]
    BY <2>1 DEF SendOk, TypeOK
  <2> QED BY <2>2, <2>3 DEF SendOk, TypeOK
<1>5. CASE \E x \in batch[w], accepted \in BOOLEAN : SendError(w, x, accepted)
  <2> PICK x \in batch[w], accepted \in BOOLEAN : SendError(w, x, accepted)
    BY <1>5
  <2>1. image[w][x] \in Work /\ x \in Row
    BY DEF TypeOK
  <2>2. image' \in [Worker -> [Row -> Work]]
    <3>1. (IF GivesUp(image[w][x].attempts) THEN "Failed" ELSE "Queued") \in Status
      BY DEF Status
    <3> QED BY <2>1, <3>1, OutcomeType DEF SendError
  <2>3. delivered' \in [Row -> Nat] /\ excused' \in [Row -> Nat]
    <3>1. CASE accepted
      BY <2>1, <3>1 DEF SendError, TypeOK
    <3>2. CASE ~accepted
      BY <3>2 DEF SendError, TypeOK
    <3> QED BY <3>1, <3>2
  <2>4. used' \in Budget
    BY BudgetUse DEF SendError, TypeOK
  <2> QED BY <2>2, <2>3, <2>4 DEF SendError, TypeOK
<1>6. CASE CommitBatch(w)
  <2>1. outbox' \in [Row -> RowRec]
    <3>1. \A x \in Row : image[w][x].status \in Status /\ image[w][x].attempts \in Nat
      BY DEF TypeOK, Work
    <3> QED BY <1>6, <3>1, RowUpdates DEF CommitBatch, TypeOK
  <2>2. image' \in [Worker -> [Row -> Work]]
    BY <1>6 DEF CommitBatch, TypeOK, NoWork, Work, At, Status
  <2>3. batch' \in [Worker -> SUBSET Row] /\ masterOn' \in [Worker -> BOOLEAN]
    BY <1>6 DEF CommitBatch, TypeOK
  <2> QED BY <1>6, <2>1, <2>2, <2>3 DEF CommitBatch, TypeOK
<1>7. CASE LoseBatch(w)
  <2>1. image' \in [Worker -> [Row -> Work]]
    BY <1>7 DEF LoseBatch, TypeOK, NoWork, Work, At, Status
  <2>2. batch' \in [Worker -> SUBSET Row] /\ masterOn' \in [Worker -> BOOLEAN]
    BY <1>7 DEF LoseBatch, ReleasedByCrash, TypeOK
  <2>3. excused' \in [Row -> Nat]
    BY <1>7 DEF LoseBatch, TypeOK
  <2>4. used' \in Budget
    BY <1>7, BudgetUse DEF LoseBatch, TypeOK
  <2> QED BY <1>7, <2>1, <2>2, <2>3, <2>4 DEF LoseBatch, TypeOK
<1> QED BY <1>1, <1>2, <1>3, <1>4, <1>5, <1>6, <1>7 DEF DrainStep

\* Drains, administrators, switches and time keep the types.
LEMMA RestTypeOK ==
  ASSUME TypeOK,
         \/ \E a \in Admin : AdminStep(a)
         \/ \E e \in Event \cup {Master} : Toggle(e)
         \/ \E x \in Row : BackoffPasses(x) \/ WindowPasses(x)
  PROVE  TypeOK'
<1> USE DEF requestVars, drainVars, history
<1>1. ASSUME NEW a \in Admin, NEW S \in SUBSET Row, RetryRead(a, S) PROVE TypeOK'
  <2>1. picked' \in [Admin -> SUBSET Row]
    BY <1>1 DEF RetryRead, TypeOK
  <2>2. seen' \in [Admin -> [Row -> Columns]]
    <3>1. \A x \in Row :
            [status |-> outbox[x].status, attempts |-> outbox[x].attempts] \in Columns
      BY DEF TypeOK, RowRec, Columns
    <3>2. Blank \in Columns
      BY DEF Blank, Columns, Status
    <3> QED BY <1>1, <3>1, <3>2 DEF RetryRead, TypeOK
  <2>3. used' \in Budget
    BY <1>1, BudgetUse DEF RetryRead, TypeOK
  <2> QED BY <1>1, <2>1, <2>2, <2>3 DEF RetryRead, TypeOK
<1>2. ASSUME NEW a \in Admin, RetryWrite(a) PROVE TypeOK'
  <2>1. outbox' \in [Row -> RowRec]
    <3> DEFINE new(x) ==
          Write(outbox[x],
                IF seen[a][x].status = "Queued" THEN outbox[x].status ELSE "Queued",
                IF seen[a][x].attempts = 0 THEN outbox[x].attempts ELSE 0, TRUE)
    <3>1. ASSUME NEW x \in Row PROVE new(x) \in RowRec
      <4>1. outbox[x] \in RowRec
        BY DEF TypeOK
      <4>2. outbox[x].status \in Status /\ outbox[x].attempts \in Nat
        BY <4>1 DEF RowRec
      <4>3. (IF seen[a][x].status = "Queued" THEN outbox[x].status ELSE "Queued") \in Status
        BY <4>2 DEF Status
      <4>4. (IF seen[a][x].attempts = 0 THEN outbox[x].attempts ELSE 0) \in Nat
        BY <4>2
      <4> QED BY <4>1, <4>3, <4>4, RowUpdates
    <3> QED BY <1>2, <3>1 DEF RetryWrite, TypeOK
  <2>2. picked' \in [Admin -> SUBSET Row]
    BY <1>2 DEF RetryWrite, TypeOK
  <2>3. seen' \in [Admin -> [Row -> Columns]]
    <3>1. [x \in Row |-> Blank] \in [Row -> Columns]
      BY DEF Blank, Columns, Status
    <3> QED BY <1>2, <3>1 DEF RetryWrite, TypeOK
  <2>4. excused' \in [Row -> Nat]
    <3> DEFINE stale(x) == /\ x \in picked[a] /\ outbox[x].status = "Sent"
                           /\ seen[a][x].status \in {"Failed", "Skipped"}
    <3>1. \A x \in Row : excused[x] \in Nat /\ excused[x] + 1 \in Nat
      BY DEF TypeOK
    <3>2. excused' = [x \in Row |-> IF stale(x) THEN excused[x] + 1 ELSE excused[x]]
      BY <1>2 DEF RetryWrite
    <3> HIDE DEF stale
    <3> QED BY <3>1, <3>2
  <2> QED BY <1>2, <2>1, <2>2, <2>3, <2>4 DEF RetryWrite, TypeOK
<1>3. ASSUME NEW e \in Event \cup {Master}, Toggle(e) PROVE TypeOK'
  <2>1. switch' \in [Event \cup {Master} -> BOOLEAN]
    BY <1>3 DEF Toggle, TypeOK
  <2>2. used' \in Budget
    BY <1>3, BudgetUse DEF Toggle, TypeOK
  <2> QED BY <1>3, <2>1, <2>2 DEF Toggle, TypeOK, adminVars
<1>4. ASSUME NEW x \in Row, BackoffPasses(x) \/ WindowPasses(x) PROVE TypeOK'
  <2>1. outbox' \in [Row -> RowRec]
    <3>1. outbox[x] \in RowRec
      BY DEF TypeOK
    <3>2. [outbox[x] EXCEPT !.due = TRUE] \in RowRec
          /\ [outbox[x] EXCEPT !.recent = FALSE] \in RowRec
      BY <3>1, RowUpdates
    <3> QED BY <1>4, <3>2 DEF BackoffPasses, WindowPasses, TypeOK
  <2> QED BY <1>4, <2>1 DEF BackoffPasses, WindowPasses, TypeOK, adminVars
<1>5. ASSUME NEW a \in Admin, AdminStep(a) PROVE TypeOK'
  <2>1. CASE \E x \in Row : RetryOne(a, x)
    BY <1>1, <2>1 DEF RetryOne
  <2>2. CASE RetryAllFailed(a)
    BY <1>1, <2>2 DEF RetryAllFailed
  <2>3. CASE RetryWrite(a)
    BY <1>2, <2>3
  <2> QED BY <1>5, <2>1, <2>2, <2>3 DEF AdminStep
<1> QED BY <1>3, <1>4, <1>5

\* TypeOK is inductive.
LEMMA NextTypeOK == TypeOK /\ [Next]_vars => TypeOK'
<1> SUFFICES ASSUME TypeOK, [Next]_vars PROVE TypeOK'
  OBVIOUS
<1>1. ASSUME NEW r \in Request, RollbackRequest(r) PROVE TypeOK'
  BY <1>1, UndoTypeOK DEF RollbackRequest
<1>2. CASE UNCHANGED vars
  BY <1>2 DEF vars, TypeOK
<1>3. ASSUME NEW w \in Worker, DrainNothing(w) PROVE TypeOK'
  BY <1>2, <1>3 DEF DrainNothing
<1> QED BY <1>1, <1>2, <1>3, RequestTypeOK, DrainTypeOK, RestTypeOK DEF Next

\* Every reachable state is well typed: in particular a row's status is one of
\* the enum's and no EXCEPT ever adds a row that no request asked for.
THEOREM TypeCorrect == Spec => []TypeOK
  BY InitTypeOK, NextTypeOK, PTL DEF Spec
-----------------------------------------------------------------------------
(* The inductive invariant.  The properties of the runs are not inductive   *)
(* by themselves: they need to know what each stage of a request and of a   *)
(* draining session has already done.                                       *)

\* Where a row stands follows from its request: an open request has queued it
\* or not, a committed one has published every row it queued, any other one
\* has left nothing behind.
Follows ==
  \A x \in Row :
    /\ outbox[x].stage = "none" => outbox[x].status = "Queued"
    /\ phase[x[1]] = "open" =>
         IF asked[x] = "queued" THEN outbox[x].stage \in {"pending", "inserted"}
         ELSE outbox[x].stage = "none"
    /\ phase[x[1]] = "committed" =>
         IF asked[x] = "queued" THEN outbox[x].stage = "committed"
         ELSE outbox[x].stage = "none"
    /\ phase[x[1]] \in {"rolledback", "conflict"} => outbox[x].stage = "none"

\* Of two rows with one dedupe key at most one is in the table, visible or not.
Held(x) == outbox[x].stage \in {"inserted", "committed"}
UniqueKeys == \A x, y \in Row : Held(x) /\ Held(y) => ~SameKey(x, y)

\* A claimed row has one owner, is unchanged in the table, and its image says
\* how far the owner has come.
Claims ==
  \A w \in Worker : \A x \in batch[w] :
    /\ \A v \in Worker \ {w} : x \notin batch[v]
    /\ Committed(x) /\ outbox[x].status = "Queued"
    /\ image[w][x].attempts \in {outbox[x].attempts, outbox[x].attempts + 1}
    /\ image[w][x].at = "claimed" => image[w][x].attempts = outbox[x].attempts
    /\ image[w][x].at \in {"claimed", "sending"} => image[w][x].status = "Queued"

\* A retry request has only picked rows of the table it did not read as Sent.
Picks ==
  \A a \in Admin : \A x \in picked[a] : Committed(x) /\ seen[a][x].status # "Sent"

IInv == TypeOK /\ Follows /\ UniqueKeys /\ Claims /\ Picks /\ SendsAccounted

\* The inductive invariant holds initially.
LEMMA InitIInv == Init => IInv
<1> SUFFICES ASSUME Init PROVE IInv
  OBVIOUS
<1>1. TypeOK
  BY InitTypeOK
<1>2. Follows /\ UniqueKeys
  <2>1. \A x \in Row : outbox[x] = NoRow /\ asked[x] = "todo" /\ phase[x[1]] = "open"
    BY DEF Init, Row
  <2> QED BY <2>1 DEF Follows, UniqueKeys, Held, NoRow
<1>3. Claims /\ Picks
  BY DEF Init, Claims, Picks
<1>4. SendsAccounted
  BY DEF Init, SendsAccounted, KnownSent, NoRow
<1> QED BY <1>1, <1>2, <1>3, <1>4 DEF IInv

\* What is not a step of a request leaves requests alone and moves no row from
\* one stage to another.
OtherStep ==
  \/ \E w \in Worker : DrainStep(w) \/ LoseBatch(w)
  \/ \E a \in Admin : AdminStep(a)
  \/ \E e \in Event \cup {Master} : Toggle(e)
  \/ \E x \in Row : BackoffPasses(x) \/ WindowPasses(x)

\* No step but those of requests moves a row between stages.
LEMMA OtherStepStages ==
  ASSUME TypeOK, OtherStep
  PROVE  /\ UNCHANGED <<phase, asked>>
         /\ \A x \in Row : outbox'[x].stage = outbox[x].stage
<1> USE DEF requestVars
<1>0. \A x \in Row : outbox[x] \in RowRec
  BY DEF TypeOK
<1>1. ASSUME NEW w \in Worker, DrainStep(w) \/ LoseBatch(w)
      PROVE  UNCHANGED <<phase, asked>> /\ (CommitBatch(w) \/ UNCHANGED outbox)
  BY <1>1 DEF DrainStep, Claim, Suppress, StartSend, SendOk, SendError, CommitBatch, LoseBatch
<1>2. ASSUME NEW w \in Worker, CommitBatch(w)
      PROVE  \A x \in Row : outbox'[x].stage = outbox[x].stage
  BY <1>0, <1>2 DEF CommitBatch, Write, RowRec
<1>3. ASSUME NEW a \in Admin, AdminStep(a)
      PROVE  UNCHANGED <<phase, asked>> /\ (RetryWrite(a) \/ UNCHANGED outbox)
  BY <1>3 DEF AdminStep, RetryOne, RetryAllFailed, RetryRead, RetryWrite
<1>4. ASSUME NEW a \in Admin, RetryWrite(a)
      PROVE  \A x \in Row : outbox'[x].stage = outbox[x].stage
  BY <1>0, <1>4 DEF RetryWrite, Write, RowRec
<1>5. ASSUME NEW e \in Event \cup {Master}, Toggle(e) PROVE UNCHANGED <<phase, asked, outbox>>
  BY <1>5 DEF Toggle
<1>6. ASSUME NEW x \in Row, BackoffPasses(x) \/ WindowPasses(x)
      PROVE  /\ UNCHANGED <<phase, asked>>
             /\ \A y \in Row : outbox'[y].stage = outbox[y].stage
  <2>1. CASE BackoffPasses(x)
    BY <1>0, <2>1 DEF BackoffPasses, TypeOK, RowRec
  <2>2. CASE WindowPasses(x)
    BY <1>0, <2>2 DEF WindowPasses, TypeOK, RowRec
  <2> QED BY <1>6, <2>1, <2>2
<1> QED BY <1>1, <1>2, <1>3, <1>4, <1>5, <1>6 DEF OtherStep
\* A drain settles committed rows only, so no settled row is without a stage.
LEMMA OtherStepFollows ==
  ASSUME TypeOK, Follows, Claims, OtherStep
  PROVE  Follows'
<1>0. \A x \in Row : outbox[x] \in RowRec
  BY DEF TypeOK
<1> SUFFICES \A x \in Row : outbox'[x].stage = "none" => outbox'[x].status = "Queued"
  BY OtherStepStages DEF Follows
<1>1. ASSUME NEW w \in Worker, DrainStep(w) \/ LoseBatch(w)
      PROVE  CommitBatch(w) \/ UNCHANGED outbox
  BY <1>1 DEF DrainStep, Claim, Suppress, StartSend, SendOk, SendError, LoseBatch, requestVars
<1>2. ASSUME NEW w \in Worker, CommitBatch(w), NEW x \in Row, outbox'[x].stage = "none"
      PROVE  outbox'[x].status = "Queued"
  <2>1. outbox[x].stage = "none"
    BY <1>0, <1>2 DEF CommitBatch, Write, RowRec
  <2>2. x \notin batch[w]
    BY <2>1 DEF Claims, Committed
  <2> QED BY <1>2, <2>1, <2>2 DEF CommitBatch, Follows
<1>3. ASSUME NEW a \in Admin, AdminStep(a)
      PROVE  RetryWrite(a) \/ UNCHANGED outbox
  BY <1>3 DEF AdminStep, RetryOne, RetryAllFailed, RetryRead
<1>4. ASSUME NEW a \in Admin, RetryWrite(a), NEW x \in Row, outbox'[x].stage = "none"
      PROVE  outbox'[x].status = "Queued"
  <2>1. outbox[x].stage = "none" /\ outbox[x].status = "Queued"
    BY <1>0, <1>4 DEF RetryWrite, Write, RowRec, Follows
  <2> QED BY <1>0, <1>4, <2>1 DEF RetryWrite, Write, RowRec
<1>5. ASSUME NEW e \in Event \cup {Master}, Toggle(e) PROVE UNCHANGED outbox
  BY <1>5 DEF Toggle
<1>6. ASSUME NEW x \in Row, BackoffPasses(x) \/ WindowPasses(x)
      PROVE  \A y \in Row : outbox'[y].stage = outbox[y].stage
                           /\ outbox'[y].status = outbox[y].status
  <2>1. CASE BackoffPasses(x)
    BY <1>0, <2>1 DEF BackoffPasses, TypeOK, RowRec
  <2>2. CASE WindowPasses(x)
    BY <1>0, <2>2 DEF WindowPasses, TypeOK, RowRec
  <2> QED BY <1>6, <2>1, <2>2
<1> QED BY <1>1, <1>2, <1>3, <1>4, <1>5, <1>6 DEF OtherStep, Follows

\* The end of a transaction that fails removes exactly its own rows.
LEMMA UndoRows ==
  ASSUME TypeOK, NEW r \in Request, NEW how, Undo(r, how), NEW x \in Row
  PROVE  /\ outbox'[x] = IF x[1] = r THEN NoRow ELSE outbox[x]
         /\ phase'[x[1]] = IF x[1] = r THEN how ELSE phase[x[1]]
         /\ UNCHANGED asked
  BY DEF Undo, TypeOK, Row

\* After a rollback no row of the request is left.
LEMMA UndoFollows ==
  ASSUME TypeOK, Follows, NEW r \in Request,
         NEW how \in {"rolledback", "conflict"}, Undo(r, how)
  PROVE  Follows'
<1> SUFFICES ASSUME NEW x \in Row
             PROVE  /\ outbox'[x].stage = "none" => outbox'[x].status = "Queued"
                    /\ phase'[x[1]] = "open" =>
                         IF asked'[x] = "queued" THEN outbox'[x].stage \in {"pending", "inserted"}
                         ELSE outbox'[x].stage = "none"
                    /\ phase'[x[1]] = "committed" =>
                         IF asked'[x] = "queued" THEN outbox'[x].stage = "committed"
                         ELSE outbox'[x].stage = "none"
                    /\ phase'[x[1]] \in {"rolledback", "conflict"} => outbox'[x].stage = "none"
  BY DEF Follows
<1>1. CASE x[1] = r
  BY <1>1, UndoRows DEF NoRow
<1>2. CASE x[1] # r
  BY <1>2, UndoRows DEF Follows
<1> QED BY <1>1, <1>2

\* Rows keep following the transaction that queued them.
LEMMA RequestFollows ==
  ASSUME TypeOK, Follows, NEW r \in Request, RequestStep(r)
  PROVE  Follows'
<1> USE DEF requestVars
<1>0. \A x \in Row : outbox[x] \in RowRec
  BY DEF TypeOK
<1>1. CASE \E m \in Asks[r], fails \in Failing : QueueEmail(r, m, fails)
  <2> PICK m \in Asks[r], fails \in Failing : QueueEmail(r, m, fails)
    BY <1>1
  <2>1. <<r, m>> \in Row /\ <<r, m>>[1] = r
    BY RowOfRequest
  <2>2. \A x \in Row : x # <<r, m>> => outbox'[x] = outbox[x] /\ asked'[x] = asked[x]
    BY <2>1 DEF QueueEmail, TypeOK
  <2>3. IF asked'[<<r, m>>] = "queued" THEN outbox'[<<r, m>>] = NewRow
        ELSE outbox'[<<r, m>>] = outbox[<<r, m>>]
    BY <2>1 DEF QueueEmail, TypeOK
  <2>4. phase[r] = "open" /\ asked[<<r, m>>] = "todo" /\ phase' = phase
    BY DEF QueueEmail
  <2>5. outbox[<<r, m>>].stage = "none" /\ outbox[<<r, m>>].status = "Queued"
    BY <2>1, <2>4 DEF Follows
  <2>6. NewRow.stage = "pending" /\ NewRow.status = "Queued"
    BY DEF NewRow, NoRow
  <2> QED BY <2>1, <2>2, <2>3, <2>4, <2>5, <2>6 DEF Follows
<1>2. CASE \E m \in Asks[r], sent \in BOOLEAN : RecordInline(r, m, sent)
  <2> PICK m \in Asks[r], sent \in BOOLEAN : RecordInline(r, m, sent)
    BY <1>2
  <2>1. <<r, m>> \in Row /\ <<r, m>>[1] = r
    BY RowOfRequest
  <2>2. \A x \in Row : x # <<r, m>> => outbox'[x] = outbox[x] /\ asked'[x] = asked[x]
    BY <2>1 DEF RecordInline, TypeOK
  <2>3. asked'[<<r, m>>] = "queued" /\ outbox'[<<r, m>>].stage = "inserted"
    BY <2>1 DEF RecordInline, TypeOK, NewRow, NoRow
  <2>4. phase[r] = "open" /\ phase' = phase
    BY DEF RecordInline
  <2> QED BY <2>1, <2>2, <2>3, <2>4 DEF Follows
<1>3. CASE \E x \in RowsOf(r) : Flush(r, x)
  <2> PICK x \in RowsOf(r) : Flush(r, x)
    BY <1>3
  <2>1. x \in Row /\ x[1] = r
    BY DEF RowsOf
  <2>2. \A y \in Row : y # x => outbox'[y] = outbox[y]
    BY <2>1 DEF Flush, TypeOK
  <2>3. outbox[x].stage = "pending" /\ outbox'[x].stage = "inserted"
    BY <1>0, <2>1 DEF Flush, Pending, TypeOK, RowRec
  <2>4. phase[r] = "open" /\ UNCHANGED <<phase, asked>>
    BY DEF Flush
  <2> QED BY <2>1, <2>2, <2>3, <2>4 DEF Follows
<1>4. CASE \E x \in RowsOf(r) : KeyConflict(r, x)
  BY <1>4, UndoFollows DEF KeyConflict
<1>5. CASE DeadlockVictim(r)
  BY <1>5, UndoFollows DEF DeadlockVictim
<1>6. CASE CommitRequest(r)
  <2>1. phase[r] = "open" /\ asked' = asked
    BY <1>6 DEF CommitRequest
  <2>2. \A x \in Row : phase'[x[1]] = IF x[1] = r THEN "committed" ELSE phase[x[1]]
    BY <1>6 DEF CommitRequest, TypeOK, Row
  <2>3. \A x \in Row : x[1] # r => outbox'[x] = outbox[x]
    BY <1>6 DEF CommitRequest
  <2>4. ASSUME NEW x \in Row, x[1] = r
        PROVE  /\ outbox'[x].status = outbox[x].status
               /\ outbox'[x].stage = IF asked[x] = "queued" THEN "committed" ELSE "none"
    <3>1. ~Pending(x)
      BY <1>6, <2>4 DEF CommitRequest, Flushed, RowsOf
    <3>2. IF asked[x] = "queued" THEN outbox[x].stage = "inserted"
          ELSE outbox[x].stage = "none"
      BY <2>1, <2>4, <3>1 DEF Follows, Pending
    <3>3. CASE Inserted(x)
      <4>1. outbox'[x] = [outbox[x] EXCEPT !.stage = "committed"]
        BY <1>6, <2>4, <3>3 DEF CommitRequest
      <4> QED BY <1>0, <3>2, <3>3, <4>1 DEF RowRec, Inserted
    <3>4. CASE ~Inserted(x)
      <4>1. outbox'[x] = outbox[x]
        BY <1>6, <2>4, <3>4 DEF CommitRequest
      <4> QED BY <3>2, <3>4, <4>1 DEF Inserted
    <3> QED BY <3>3, <3>4
  <2> QED BY <2>1, <2>2, <2>3, <2>4 DEF Follows
<1>7. CASE \E m \in Asks[r], sent \in BOOLEAN : RecordingFails(r, m, sent)
  <2> PICK m \in Asks[r], sent \in BOOLEAN : RecordingFails(r, m, sent)
    BY <1>7
  <2>1. outbox[<<r, m>>].stage = "none"
    BY UnrecordedStep DEF Follows
  <2> QED BY <2>1, UnrecordedStep DEF Follows
<1> QED BY <1>1, <1>2, <1>3, <1>4, <1>5, <1>6, <1>7 DEF RequestStep
\* A flush is what could break key uniqueness; the index refuses it.
LEMMA RequestUniqueKeys ==
  ASSUME TypeOK, Follows, UniqueKeys, NEW r \in Request, RequestStep(r)
  PROVE  UniqueKeys'
<1>0. \A x \in Row : outbox[x] \in RowRec
  BY DEF TypeOK
<1>a. ASSUME \A x \in Row : Held(x)' => Held(x) PROVE UniqueKeys'
  BY <1>a DEF UniqueKeys, SameKey
<1>1. CASE \E m \in Asks[r], fails \in Failing : QueueEmail(r, m, fails)
  <2> PICK m \in Asks[r], fails \in Failing : QueueEmail(r, m, fails)
    BY <1>1
  <2>1. \A x \in Row : outbox'[x] = NewRow \/ outbox'[x] = outbox[x]
    BY DEF QueueEmail, TypeOK
  <2>2. \A x \in Row : Held(x)' => Held(x)
    BY <2>1 DEF Held, NewRow, NoRow
  <2> QED BY <1>a, <2>2
<1>2. CASE \E m \in Asks[r], sent \in BOOLEAN : RecordInline(r, m, sent)
  <2> PICK m \in Asks[r], sent \in BOOLEAN : RecordInline(r, m, sent)
    BY <1>2
  <2>1. \A x \in Row : x # <<r, m>> => outbox'[x] = outbox[x]
    BY RowOfRequest DEF RecordInline, TypeOK
  <2>2. Key(<<r, m>>) = NoKey
    BY ConstantsAssumption DEF RecordInline, Key
  <2>3. \A x \in Row : x # <<r, m>> /\ Held(x)' => Held(x)
    BY <2>1 DEF Held
  <2> QED BY <2>2, <2>3 DEF UniqueKeys, SameKey
<1>3. CASE \E x \in RowsOf(r) : Flush(r, x)
  <2> PICK x \in RowsOf(r) : Flush(r, x)
    BY <1>3
  <2>1. x \in Row
    BY DEF RowsOf
  <2>2. \A y \in Row : y # x /\ Held(y)' => Held(y)
    BY <2>1 DEF Flush, TypeOK, Held
  <2>3. ASSUME NEW y \in Row, y # x, Held(y) PROVE ~SameKey(x, y)
    <3>1. CASE y \in Visible(r)
      BY <3>1 DEF Flush
    <3>2. CASE y \notin Visible(r)
      <4>1. Inserted(y) /\ y[1] # r
        BY <2>3, <3>2 DEF Visible, Held, Inserted, Committed
      <4>2. y[1] \in Request /\ y \in RowsOf(y[1])
        BY DEF Row, RowsOf
      <4>3. ~WaitsFor(r, y[1]) /\ phase[r] = "open" /\ Pending(x)
        BY <4>2 DEF Flush
      <4> QED BY <4>1, <4>2, <4>3 DEF WaitsFor
    <3> QED BY <3>1, <3>2
  <2> QED BY <2>2, <2>3 DEF UniqueKeys, SameKey
<1>4. ASSUME NEW how, Undo(r, how) PROVE UniqueKeys'
  <2>1. \A x \in Row : outbox'[x] = NoRow \/ outbox'[x] = outbox[x]
    BY <1>4, UndoRows
  <2>2. \A x \in Row : Held(x)' => Held(x)
    BY <2>1 DEF Held, NoRow
  <2> QED BY <1>a, <2>2
<1>5. CASE CommitRequest(r)
  <2>1. \A x \in Row : Held(x)' => Held(x)
    BY <1>0, <1>5 DEF CommitRequest, Held, Inserted, RowRec
  <2> QED BY <1>a, <2>1
<1>6. CASE \E m \in Asks[r], sent \in BOOLEAN : RecordingFails(r, m, sent)
  <2> PICK m \in Asks[r], sent \in BOOLEAN : RecordingFails(r, m, sent)
    BY <1>6
  <2> QED BY <1>a, UnrecordedStep DEF Held
<1> QED BY <1>1, <1>2, <1>3, <1>4, <1>5, <1>6 DEF RequestStep, KeyConflict, DeadlockVictim

\* A rollback only removes rows from the index.
LEMMA RollbackUniqueKeys ==
  ASSUME TypeOK, UniqueKeys, NEW r \in Request, RollbackRequest(r)
  PROVE  UniqueKeys'
<1>1. \A x \in Row : outbox'[x] = NoRow \/ outbox'[x] = outbox[x]
  BY UndoRows DEF RollbackRequest
<1>2. \A x \in Row : Held(x)' => Held(x)
  BY <1>1 DEF Held, NoRow
<1> QED BY <1>2 DEF UniqueKeys, SameKey

\* Keys stay unique when no row enters the index.
LEMMA OtherStepUniqueKeys ==
  ASSUME TypeOK, UniqueKeys, OtherStep PROVE UniqueKeys'
<1>1. \A x \in Row : Held(x)' => Held(x)
  BY OtherStepStages DEF Held
<1> QED BY <1>1 DEF UniqueKeys, SameKey
-----------------------------------------------------------------------------
(* Claims and picks.                                                        *)

\* Nothing a request does - not even its rollback - touches a committed row, a
\* draining session or an administrator.
LEMMA RequestsKeepCommitted ==
  ASSUME TypeOK, Follows, NEW r \in Request, RequestStep(r) \/ RollbackRequest(r)
  PROVE  /\ \A x \in Row : Committed(x) => outbox'[x] = outbox[x]
         /\ UNCHANGED <<drainVars, adminVars>>
<1>1. CASE \E m \in Asks[r], fails \in Failing : QueueEmail(r, m, fails)
  <2> PICK m \in Asks[r], fails \in Failing : QueueEmail(r, m, fails)
    BY <1>1
  <2>1. <<r, m>> \in Row /\ <<r, m>>[1] = r
    BY RowOfRequest
  <2>2. outbox[<<r, m>>].stage = "none"
    BY <2>1 DEF QueueEmail, Follows
  <2> QED BY <2>1, <2>2 DEF QueueEmail, TypeOK, Committed
<1>2. CASE \E m \in Asks[r], sent \in BOOLEAN : RecordInline(r, m, sent)
  <2> PICK m \in Asks[r], sent \in BOOLEAN : RecordInline(r, m, sent)
    BY <1>2
  <2>1. <<r, m>> \in Row /\ <<r, m>>[1] = r
    BY RowOfRequest
  <2>2. outbox[<<r, m>>].stage = "none"
    BY <2>1 DEF RecordInline, Follows
  <2> QED BY <2>1, <2>2 DEF RecordInline, TypeOK, Committed
<1>3. CASE \E x \in RowsOf(r) : Flush(r, x)
  <2> PICK x \in RowsOf(r) : Flush(r, x)
    BY <1>3
  <2> QED BY DEF Flush, TypeOK, RowsOf, Pending, Committed
<1>4. ASSUME NEW how, Undo(r, how), phase[r] = "open"
      PROVE  /\ \A x \in Row : Committed(x) => outbox'[x] = outbox[x]
             /\ UNCHANGED <<drainVars, adminVars>>
  <2>1. \A x \in Row : x[1] = r => ~Committed(x)
    BY <1>4 DEF Follows, Committed
  <2> QED BY <1>4, <2>1 DEF Undo
<1>5. CASE CommitRequest(r)
  BY <1>5 DEF CommitRequest, Inserted, Committed
<1>6. InWaitCycle(r) => phase[r] = "open"
  BY DEF InWaitCycle, WaitsFor
<1>7. CASE \E m \in Asks[r], sent \in BOOLEAN : RecordingFails(r, m, sent)
  <2> PICK m \in Asks[r], sent \in BOOLEAN : RecordingFails(r, m, sent)
    BY <1>7
  <2> QED BY UnrecordedStep
<1> QED BY <1>1, <1>2, <1>3, <1>4, <1>5, <1>6, <1>7
        DEF RequestStep, KeyConflict, DeadlockVictim, RollbackRequest

\* A request touches no claimed row.
LEMMA RequestClaims ==
  ASSUME TypeOK, Follows, Claims, Picks, NEW r \in Request,
         RequestStep(r) \/ RollbackRequest(r)
  PROVE  Claims' /\ Picks'
<1>1. Claims'
  <2>1. \A w \in Worker : \A x \in batch[w] : x \in Row /\ outbox'[x] = outbox[x]
    BY RequestsKeepCommitted DEF Claims, TypeOK
  <2> QED BY <2>1, RequestsKeepCommitted DEF Claims, Committed, drainVars
<1>2. Picks'
  <2>1. \A a \in Admin : \A x \in picked[a] : x \in Row /\ outbox'[x] = outbox[x]
    BY RequestsKeepCommitted DEF Picks, TypeOK
  <2> QED BY <2>1, RequestsKeepCommitted DEF Picks, Committed, adminVars
<1> QED BY <1>1, <1>2

\* The steps of a session that only advance its image of one claimed row.
LEMMA ImageStepClaims ==
  ASSUME TypeOK, Claims, NEW w \in Worker, NEW x \in batch[w], NEW new,
         image' = [image EXCEPT ![w][x] = new],
         new.attempts \in {outbox[x].attempts, outbox[x].attempts + 1},
         new.at = "claimed" => new.attempts = outbox[x].attempts,
         new.at \in {"claimed", "sending"} => new.status = "Queued",
         UNCHANGED <<batch, outbox>>
  PROVE  Claims'
<1>1. x \in Row
  BY DEF TypeOK
<1>2. ASSUME NEW v \in Worker, NEW y \in batch[v]
      PROVE  image'[v][y] = IF v = w /\ y = x THEN new ELSE image[v][y]
  BY <1>1, <1>2 DEF TypeOK
<1> QED BY <1>2 DEF Claims, Committed

\* Claiming skips locked rows, and a drain works only on its own batch.
LEMMA DrainClaims ==
  ASSUME TypeOK, Claims, Picks, NEW w \in Worker, DrainStep(w) \/ LoseBatch(w)
  PROVE  Claims' /\ Picks'
<1>0. \A x \in Row : outbox[x] \in RowRec
  BY DEF TypeOK
<1>1. ASSUME NEW S \in SUBSET Claimable, NEW fails, Claim(w, S, fails) PROVE Claims'
  <2>1. \A v \in Worker : batch'[v] = IF v = w THEN S ELSE batch[v]
    BY <1>1 DEF Claim, TypeOK
  <2>2. \A v \in Worker : v # w => image'[v] = image[v]
    BY <1>1 DEF Claim, TypeOK
  <2>3. \A x \in S : image'[w][x] = [at |-> "claimed", status |-> outbox[x].status,
                                     attempts |-> outbox[x].attempts]
    BY <1>1 DEF Claim, TypeOK, Claimable
  <2>4. \A x \in S : Committed(x) /\ outbox[x].status = "Queued"
                     /\ \A v \in Worker : x \notin batch[v]
    BY DEF Claimable, Locked
  <2>5. outbox' = outbox
    BY <1>1 DEF Claim
  <2>6. ASSUME NEW v \in Worker, v # w, NEW x \in batch[v]
        PROVE  x \notin batch'[w] /\ batch'[v] = batch[v] /\ image'[v][x] = image[v][x]
    BY <2>1, <2>2, <2>4, <2>6
  <2>7. ASSUME NEW x \in S
        PROVE  /\ image'[w][x].at = "claimed" /\ image'[w][x].status = "Queued"
               /\ image'[w][x].attempts = outbox[x].attempts
    <3>1. image'[w][x] = [at |-> "claimed", status |-> outbox[x].status,
                          attempts |-> outbox[x].attempts]
      BY <2>3, <2>7
    <3>2. outbox[x].status = "Queued"
      BY <2>4, <2>7
    <3> QED BY <3>1, <3>2
  <2>8. ASSUME NEW v \in Worker, NEW x \in batch'[v], v = w
        PROVE  /\ \A u \in Worker \ {v} : x \notin batch'[u]
               /\ outbox[x].stage = "committed" /\ outbox[x].status = "Queued"
               /\ image'[v][x].at = "claimed" /\ image'[v][x].status = "Queued"
               /\ image'[v][x].attempts = outbox[x].attempts
    BY <2>1, <2>4, <2>7, <2>8 DEF Committed
  <2>9. ASSUME NEW v \in Worker, NEW x \in batch'[v], v # w
        PROVE  /\ x \in batch[v] /\ image'[v][x] = image[v][x]
               /\ \A u \in Worker \ {v} : x \notin batch'[u]
    BY <2>1, <2>6, <2>9 DEF Claims
  <2> QED BY <2>5, <2>8, <2>9 DEF Claims, Committed
<1>2. ASSUME NEW x \in batch[w], NEW s, Outcome(w, x, s), image[w][x].at \in {"claimed", "sending"},
             UNCHANGED <<batch, outbox>>
      PROVE  Claims'
  <2> DEFINE new == [at |-> "done", status |-> s, attempts |-> image[w][x].attempts]
  <2>1. new.at = "done" /\ new.attempts \in {outbox[x].attempts, outbox[x].attempts + 1}
    BY DEF Claims
  <2>2. image' = [image EXCEPT ![w][x] = new]
    BY <1>2 DEF Outcome
  <2> HIDE DEF new
  <2> QED BY <1>2, <2>1, <2>2, ImageStepClaims
<1>3. ASSUME NEW x \in batch[w], NEW fails, StartSend(w, x, fails) PROVE Claims'
  <2> DEFINE new == [at |-> "sending", status |-> image[w][x].status,
                     attempts |-> image[w][x].attempts + 1]
  <2>1. /\ new.at = "sending" /\ new.status = "Queued"
        /\ new.attempts = outbox[x].attempts + 1
    BY <1>3 DEF Claims, StartSend
  <2>2. image' = [image EXCEPT ![w][x] = new] /\ UNCHANGED <<batch, outbox>>
    BY <1>3 DEF StartSend
  <2> HIDE DEF new
  <2> QED BY <2>1, <2>2, ImageStepClaims
<1>4. ASSUME CommitBatch(w) PROVE Claims' /\ Picks'
  <2>1. \A v \in Worker : batch'[v] = IF v = w THEN {} ELSE batch[v]
    BY <1>4 DEF CommitBatch, TypeOK
  <2>2. \A v \in Worker : v # w => image'[v] = image[v]
    BY <1>4 DEF CommitBatch, TypeOK
  <2>3. ASSUME NEW v \in Worker, v # w, NEW x \in batch[v] PROVE outbox'[x] = outbox[x]
    <3>1. x \in Row /\ x \notin batch[w]
      BY <2>3 DEF Claims, TypeOK
    <3> QED BY <1>4, <3>1 DEF CommitBatch
  <2>4. Claims'
    BY <2>1, <2>2, <2>3 DEF Claims, Committed
  <2>5. \A x \in Row : outbox'[x].stage = outbox[x].stage
    BY <1>0, <1>4 DEF CommitBatch, Write, RowRec
  <2>6. Picks'
    BY <1>4, <2>5 DEF CommitBatch, Picks, Committed, TypeOK, adminVars
  <2> QED BY <2>4, <2>6
<1>5. ASSUME LoseBatch(w) PROVE Claims'
  <2>1. \A v \in Worker : batch'[v] = IF v = w THEN {} ELSE batch[v]
    BY <1>5 DEF LoseBatch, ReleasedByCrash, TypeOK
  <2>2. \A v \in Worker : v # w => image'[v] = image[v]
    BY <1>5 DEF LoseBatch, TypeOK
  <2> QED BY <1>5, <2>1, <2>2 DEF LoseBatch, Claims, Committed
<1>6. CommitBatch(w) \/ UNCHANGED <<outbox, picked, seen>>
  BY DEF DrainStep, Claim, Suppress, StartSend, SendOk, SendError, LoseBatch, adminVars
<1>7. UNCHANGED <<outbox, picked, seen>> => Picks'
  BY DEF Picks, Committed
<1>8. ASSUME NEW x \in batch[w], NEW fails, Suppress(w, x, fails) PROVE Claims'
  BY <1>2, <1>8 DEF Suppress
<1>9. ASSUME NEW x \in batch[w], SendOk(w, x) PROVE Claims'
  BY <1>2, <1>9 DEF SendOk
<1>10. ASSUME NEW x \in batch[w], NEW accepted, SendError(w, x, accepted) PROVE Claims'
  BY <1>2, <1>10 DEF SendError
<1> QED BY <1>1, <1>3, <1>4, <1>5, <1>6, <1>7, <1>8, <1>9, <1>10 DEF DrainStep
\* Retries wait for the lock of a claimed row; settings and clocks touch
\* neither the status nor the attempts of a row.
RestStep ==
  \/ \E a \in Admin : AdminStep(a)
  \/ \E e \in Event \cup {Master} : Toggle(e)
  \/ \E x \in Row : BackoffPasses(x) \/ WindowPasses(x)

\* Time changes no column a claim or a delivery count depends on.
LEMMA ClockRows ==
  ASSUME TypeOK, NEW x \in Row, BackoffPasses(x) \/ WindowPasses(x), NEW y \in Row
  PROVE  /\ outbox'[y].stage = outbox[y].stage
         /\ outbox'[y].status = outbox[y].status
         /\ outbox'[y].attempts = outbox[y].attempts
<1>0. outbox[x] \in RowRec
  BY DEF TypeOK
<1>1. CASE BackoffPasses(x)
  BY <1>0, <1>1 DEF BackoffPasses, TypeOK, RowRec
<1>2. CASE WindowPasses(x)
  BY <1>0, <1>2 DEF WindowPasses, TypeOK, RowRec
<1> QED BY <1>1, <1>2

\* Administrators, switches and time touch no claimed row.
LEMMA RestClaims ==
  ASSUME TypeOK, Claims, Picks, RestStep PROVE Claims' /\ Picks'
<1>0. \A x \in Row : outbox[x] \in RowRec
  BY DEF TypeOK
<1>1. ASSUME NEW a \in Admin, NEW S \in SUBSET Row, RetryRead(a, S),
             \A x \in S : Committed(x) /\ outbox[x].status # "Sent"
      PROVE  Claims' /\ Picks'
  <2>1. Claims'
    BY <1>1 DEF RetryRead, Claims, Committed, drainVars
  <2>2. ASSUME NEW b \in Admin, NEW x \in picked'[b]
        PROVE  outbox'[x].stage = "committed" /\ seen'[b][x].status # "Sent"
    <3>1. CASE b = a
      <4>1. x \in S
        BY <1>1, <2>2, <3>1 DEF RetryRead, TypeOK
      <4>2. seen'[b][x] = [status |-> outbox[x].status, attempts |-> outbox[x].attempts]
        BY <1>1, <3>1, <4>1 DEF RetryRead, TypeOK
      <4>3. Committed(x) /\ outbox[x].status # "Sent" /\ outbox' = outbox
        BY <1>1, <4>1 DEF RetryRead
      <4> QED BY <4>2, <4>3 DEF Committed
    <3>2. CASE b # a
      BY <1>1, <2>2, <3>2 DEF RetryRead, TypeOK, Picks, Committed
    <3> QED BY <3>1, <3>2
  <2> QED BY <2>1, <2>2 DEF Picks, Committed
<1>2. ASSUME NEW a \in Admin, RetryWrite(a) PROVE Claims' /\ Picks'
  <2>1. ASSUME NEW w \in Worker, NEW x \in batch[w] PROVE outbox'[x] = outbox[x]
    <3>1. x \in Row /\ x \notin picked[a]
      BY <1>2, <2>1 DEF RetryWrite, Locked, TypeOK
    <3> QED BY <1>2, <3>1 DEF RetryWrite
  <2>2. Claims'
    <3>1. UNCHANGED <<batch, image>>
      BY <1>2 DEF RetryWrite, drainVars
    <3> QED BY <2>1, <3>1 DEF Claims, Committed
  <2>3. \A x \in Row : outbox'[x].stage = outbox[x].stage
    BY <1>0, <1>2 DEF RetryWrite, Write, RowRec
  <2>4. ASSUME NEW b \in Admin, NEW x \in picked'[b]
        PROVE  b # a /\ picked'[b] = picked[b] /\ seen'[b] = seen[b] /\ x \in Row
    <3>1. picked' = [picked EXCEPT ![a] = {}]
          /\ seen' = [seen EXCEPT ![a] = [y \in Row |-> Blank]]
      BY <1>2 DEF RetryWrite
    <3>2. b # a
      BY <2>4, <3>1 DEF TypeOK
    <3> QED BY <2>4, <3>1, <3>2 DEF TypeOK
  <2>5. Picks'
    BY <2>3, <2>4 DEF Picks, Committed
  <2> QED BY <2>2, <2>5
<1>3. ASSUME NEW e \in Event \cup {Master}, Toggle(e) PROVE Claims' /\ Picks'
  BY <1>3 DEF Toggle, Claims, Picks, Committed, drainVars, adminVars
<1>4. ASSUME NEW x \in Row, BackoffPasses(x) \/ WindowPasses(x) PROVE Claims' /\ Picks'
  <2>1. UNCHANGED <<batch, image, picked, seen>>
    BY <1>4 DEF BackoffPasses, WindowPasses, drainVars, adminVars
  <2>2. \A w \in Worker : \A y \in batch[w] : y \in Row
    BY DEF TypeOK
  <2>3. \A a \in Admin : \A y \in picked[a] : y \in Row
    BY DEF TypeOK
  <2>4. Claims'
    BY <1>4, <2>1, <2>2, ClockRows DEF Claims, Committed
  <2>5. Picks'
    BY <1>4, <2>1, <2>3, ClockRows DEF Picks, Committed
  <2> QED BY <2>4, <2>5
<1>5. ASSUME NEW a \in Admin, AdminStep(a) PROVE Claims' /\ Picks'
  <2>1. CASE \E x \in Row : RetryOne(a, x)
    BY <1>1, <2>1 DEF RetryOne, NotSent
  <2>2. CASE RetryAllFailed(a)
    <3> DEFINE S == {x \in Row : Committed(x) /\ outbox[x].status = "Failed"}
    <3>1. RetryRead(a, S) /\ S \in SUBSET Row
      BY <2>2 DEF RetryAllFailed
    <3>2. \A x \in S : Committed(x) /\ outbox[x].status # "Sent"
      OBVIOUS
    <3> HIDE DEF S
    <3> QED BY <1>1, <3>1, <3>2
  <2>3. CASE RetryWrite(a)
    BY <1>2, <2>3
  <2> QED BY <1>5, <2>1, <2>2, <2>3 DEF AdminStep
<1> QED BY <1>3, <1>4, <1>5 DEF RestStep
-----------------------------------------------------------------------------
(* Deliveries.                                                              *)

\* A row outside the table is in nobody's batch, so what is known of its mail
\* is the status of the row itself.
LEMMA KnownOutside ==
  ASSUME Claims, NEW x \in Row, ~Committed(x)
  PROVE  KnownSent(x) <=> outbox[x].status = "Sent"
  BY DEF Claims, KnownSent

\* Inline mails and their rollbacks are accounted for.
LEMMA RequestSends ==
  ASSUME TypeOK, Follows, Claims, SendsAccounted,
         NEW r \in Request, RequestStep(r) \/ RollbackRequest(r)
  PROVE  SendsAccounted'
<1>0. \A x \in Row : outbox[x] \in RowRec /\ delivered[x] \in Nat /\ excused[x] \in Nat
  BY DEF TypeOK
<1>a. UNCHANGED <<batch, image>>
  BY RequestsKeepCommitted DEF drainVars
<1>b. ASSUME UNCHANGED <<delivered, excused>>,
             \A x \in Row : (outbox'[x].status = "Sent") <=> (outbox[x].status = "Sent")
      PROVE  SendsAccounted'
  BY <1>a, <1>b DEF SendsAccounted, KnownSent
<1>1. CASE \E m \in Asks[r], fails \in Failing : QueueEmail(r, m, fails)
  <2> PICK m \in Asks[r], fails \in Failing : QueueEmail(r, m, fails)
    BY <1>1
  <2>1. <<r, m>> \in Row /\ <<r, m>>[1] = r
    BY RowOfRequest
  <2>2. outbox[<<r, m>>].status = "Queued"
    BY <2>1 DEF QueueEmail, Follows
  <2>3. NewRow.status = "Queued"
    BY DEF NewRow, NoRow
  <2>4. \A x \in Row : outbox'[x] = outbox[x] \/ (x = <<r, m>> /\ outbox'[x] = NewRow)
    BY <2>1 DEF QueueEmail, TypeOK
  <2>5. UNCHANGED <<delivered, excused>>
    BY DEF QueueEmail, history
  <2> QED BY <1>b, <2>2, <2>3, <2>4, <2>5
<1>2. CASE \E m \in Asks[r], sent \in BOOLEAN : RecordInline(r, m, sent)
  <2> PICK m \in Asks[r], sent \in BOOLEAN : RecordInline(r, m, sent)
    BY <1>2
  <2> DEFINE x == <<r, m>>
  <2>1. x \in Row /\ x[1] = r
    BY RowOfRequest
  <2>2. outbox[x].status = "Queued" /\ outbox[x].stage = "none"
    BY <2>1 DEF RecordInline, Follows
  <2>3. ~KnownSent(x) /\ \A w \in Worker : x \notin batch[w]
    BY <2>1, <2>2, KnownOutside DEF Committed, Claims
  <2>4. outbox'[x].status = IF sent THEN "Sent" ELSE "Failed"
    BY <2>1 DEF RecordInline, TypeOK, NewRow, NoRow
  <2>5. \A y \in Row : y # x => outbox'[y] = outbox[y] /\ delivered'[y] = delivered[y]
    BY <2>1 DEF RecordInline, TypeOK
  <2>6. delivered'[x] = IF sent THEN delivered[x] + 1 ELSE delivered[x]
    BY <2>1 DEF RecordInline, TypeOK
  <2>7. excused' = excused
    BY DEF RecordInline
  <2>8. KnownSent(x)' <=> sent
    BY <1>a, <2>3, <2>4 DEF KnownSent
  <2>9. ASSUME NEW y \in Row, y # x PROVE KnownSent(y)' <=> KnownSent(y)
    BY <1>a, <2>5, <2>9 DEF KnownSent
  <2>10. delivered[x] = excused[x]
    BY <1>0, <2>1, <2>3 DEF SendsAccounted
  <2>11. delivered'[x] = excused'[x] + (IF KnownSent(x)' THEN 1 ELSE 0)
    BY <1>0, <2>1, <2>6, <2>7, <2>8, <2>10
  <2>12. \A y \in Row : y # x =>
            delivered'[y] = excused'[y] + (IF KnownSent(y)' THEN 1 ELSE 0)
    BY <2>5, <2>7, <2>9 DEF SendsAccounted
  <2> QED BY <2>11, <2>12 DEF SendsAccounted
<1>3. CASE \E x \in RowsOf(r) : Flush(r, x)
  <2> PICK x \in RowsOf(r) : Flush(r, x)
    BY <1>3
  <2>1. x \in Row /\ outbox[x] \in RowRec
    BY <1>0 DEF RowsOf
  <2>2. \A y \in Row : outbox'[y].status = outbox[y].status
    BY <2>1 DEF Flush, TypeOK, RowRec
  <2>3. UNCHANGED <<delivered, excused>>
    BY DEF Flush, history
  <2> QED BY <1>b, <2>2, <2>3
<1>4. ASSUME NEW how, Undo(r, how), phase[r] = "open" PROVE SendsAccounted'
  <2>1. UNCHANGED delivered
    BY <1>4 DEF Undo
  <2>2. ASSUME NEW x \in Row, x[1] = r
        PROVE  delivered'[x] = excused'[x] + (IF KnownSent(x)' THEN 1 ELSE 0)
    <3>1. ~Committed(x)
      BY <1>4, <2>2 DEF Follows, Committed
    <3>2. \A w \in Worker : x \notin batch[w]
      BY <3>1 DEF Claims
    <3>3. outbox'[x].status = "Queued"
      BY <1>4, <2>2, UndoRows DEF NoRow
    <3>4. ~KnownSent(x)'
      BY <1>a, <3>2, <3>3 DEF KnownSent
    <3>5. excused'[x] = IF outbox[x].status = "Sent" THEN excused[x] + 1 ELSE excused[x]
      BY <1>4, <2>2 DEF Undo
    <3>6. delivered[x] = IF outbox[x].status = "Sent" THEN excused[x] + 1 ELSE excused[x]
      BY <1>0, <3>1, KnownOutside DEF SendsAccounted
    <3> QED BY <1>0, <2>1, <3>4, <3>5, <3>6
  <2>3. ASSUME NEW x \in Row, x[1] # r
        PROVE  delivered'[x] = excused'[x] + (IF KnownSent(x)' THEN 1 ELSE 0)
    <3>1. outbox'[x] = outbox[x] /\ excused'[x] = excused[x]
      BY <1>4, <2>3 DEF Undo
    <3>2. KnownSent(x)' <=> KnownSent(x)
      BY <1>a, <3>1 DEF KnownSent
    <3> QED BY <2>1, <3>1, <3>2 DEF SendsAccounted
  <2> QED BY <2>2, <2>3 DEF SendsAccounted
<1>5. CASE CommitRequest(r)
  <2>1. \A x \in Row : outbox'[x].status = outbox[x].status
    BY <1>0, <1>5 DEF CommitRequest, RowRec
  <2>2. UNCHANGED <<delivered, excused>>
    BY <1>5 DEF CommitRequest, history
  <2> QED BY <1>b, <2>1, <2>2
<1>6. InWaitCycle(r) => phase[r] = "open"
  BY DEF InWaitCycle, WaitsFor
<1>7. CASE \E m \in Asks[r], sent \in BOOLEAN : RecordingFails(r, m, sent)
  <2> PICK m \in Asks[r], sent \in BOOLEAN : RecordingFails(r, m, sent)
    BY <1>7
  <2> DEFINE x == <<r, m>>
  <2>1. x \in Row /\ x[1] = r /\ outbox' = outbox
    BY UnrecordedStep
  <2>2. outbox[x].status = "Queued" /\ ~Committed(x)
    BY <2>1, UnrecordedStep DEF Follows, Committed
  <2>3. ~KnownSent(x)
    BY <2>1, <2>2, KnownOutside
  <2>4. \A y \in Row : KnownSent(y)' <=> KnownSent(y)
    BY <1>a, <2>1 DEF KnownSent
  <2>5. delivered[x] = excused[x]
    BY <1>0, <2>1, <2>3 DEF SendsAccounted
  <2>6. delivered'[x] = excused'[x] /\ excused'[x] \in Nat
    BY <2>1, <2>5, UnrecordedStep
  <2>7. delivered'[x] = excused'[x] + (IF KnownSent(x)' THEN 1 ELSE 0)
    BY <2>1, <2>3, <2>4, <2>6
  <2>8. \A y \in Row : y # x =>
           delivered'[y] = excused'[y] + (IF KnownSent(y)' THEN 1 ELSE 0)
    BY <2>4, UnrecordedStep DEF SendsAccounted
  <2> QED BY <2>7, <2>8 DEF SendsAccounted
<1> QED BY <1>1, <1>2, <1>3, <1>4, <1>5, <1>6, <1>7
        DEF RequestStep, KeyConflict, DeadlockVictim, RollbackRequest
\* One claimed row of w gets its outcome; nothing is known of it before.
LEMMA OutcomeSends ==
  ASSUME TypeOK, Claims, SendsAccounted, NEW w \in Worker, NEW x \in batch[w],
         image[w][x].at \in {"claimed", "sending"}, NEW s, Outcome(w, x, s),
         UNCHANGED <<batch, outbox>>
  PROVE  /\ x \in Row /\ delivered[x] = excused[x]
         /\ KnownSent(x)' <=> s = "Sent"
         /\ \A y \in Row : y # x => (KnownSent(y)' <=> KnownSent(y))
<1>1. x \in Row
  BY DEF TypeOK
<1>2. outbox[x].status = "Queued" /\ image[w][x].status = "Queued"
      /\ \A v \in Worker : v # w => x \notin batch[v]
  BY DEF Claims
<1>3. ~KnownSent(x)
  BY <1>2 DEF KnownSent
<1>4. delivered[x] = excused[x]
  BY <1>1, <1>3 DEF SendsAccounted, TypeOK
<1>5. image'[w][x].status = s
  BY <1>1 DEF Outcome, TypeOK
<1>6. \A v \in Worker, y \in Row : y # x \/ v # w => image'[v][y] = image[v][y]
  BY <1>1 DEF Outcome, TypeOK
<1>7. KnownSent(x)' <=> s = "Sent"
  BY <1>2, <1>5 DEF KnownSent
<1>8. \A y \in Row : y # x => (KnownSent(y)' <=> KnownSent(y))
  BY <1>6 DEF KnownSent
<1> QED BY <1>1, <1>4, <1>7, <1>8

\* Sends, their outcomes and lost batches are accounted for.
LEMMA DrainSends ==
  ASSUME TypeOK, Claims, SendsAccounted, NEW w \in Worker, DrainStep(w) \/ LoseBatch(w)
  PROVE  SendsAccounted'
<1>0. \A x \in Row : outbox[x] \in RowRec /\ delivered[x] \in Nat /\ excused[x] \in Nat
  BY DEF TypeOK
<1>1. ASSUME NEW S \in SUBSET Claimable, NEW fails, Claim(w, S, fails) PROVE SendsAccounted'
  <2>1. \A v \in Worker : v # w => batch'[v] = batch[v] /\ image'[v] = image[v]
    BY <1>1 DEF Claim, TypeOK
  <2>2. batch[w] = {}
    BY <1>1 DEF Claim
  <2>3. \A x \in Row : x \in batch'[w] => image'[w][x].status = "Queued"
    <3> SUFFICES ASSUME NEW x \in Row, x \in batch'[w] PROVE image'[w][x].status = "Queued"
      OBVIOUS
    <3>1. x \in S
      BY <1>1 DEF Claim, TypeOK
    <3>2. image'[w][x] = [at |-> "claimed", status |-> outbox[x].status,
                          attempts |-> outbox[x].attempts]
      BY <1>1, <3>1 DEF Claim, TypeOK
    <3>3. outbox[x].status = "Queued"
      BY <3>1 DEF Claimable
    <3> QED BY <3>2, <3>3
  <2>4. UNCHANGED <<outbox, delivered, excused>>
    BY <1>1 DEF Claim, history
  <2>5. \A x \in Row : KnownSent(x)' <=> KnownSent(x)
    BY <2>1, <2>2, <2>3, <2>4 DEF KnownSent
  <2> QED BY <2>4, <2>5 DEF SendsAccounted
<1>2. ASSUME NEW x \in batch[w], NEW fails, Suppress(w, x, fails) PROVE SendsAccounted'
  <2>1. UNCHANGED <<delivered, excused, batch, outbox>>
    BY <1>2 DEF Suppress, history
  <2>2. \A y \in Row : y # x => (KnownSent(y)' <=> KnownSent(y))
    BY <1>2, <2>1, OutcomeSends DEF Suppress
  <2>3. ~KnownSent(x)' /\ delivered[x] = excused[x] /\ x \in Row
    BY <1>2, <2>1, OutcomeSends DEF Suppress
  <2> QED BY <1>0, <2>1, <2>2, <2>3 DEF SendsAccounted
<1>3. ASSUME NEW x \in batch[w], NEW fails, StartSend(w, x, fails) PROVE SendsAccounted'
  <2>1. x \in Row /\ image' \in [Worker -> [Row -> Work]]
    BY <1>3, NextTypeOK DEF TypeOK, Next, DrainStep
  <2>2. \A v \in Worker, y \in Row : image'[v][y].status = image[v][y].status
    BY <1>3, <2>1 DEF StartSend, TypeOK
  <2>3. UNCHANGED <<outbox, batch, delivered, excused>>
    BY <1>3 DEF StartSend, history
  <2>4. \A y \in Row : KnownSent(y)' <=> KnownSent(y)
    BY <2>2, <2>3 DEF KnownSent
  <2> QED BY <2>3, <2>4 DEF SendsAccounted
<1>4. ASSUME NEW x \in batch[w], SendOk(w, x) PROVE SendsAccounted'
  <2>1. x \in Row /\ UNCHANGED <<excused, batch, outbox>>
    BY <1>4 DEF SendOk, TypeOK
  <2>2. \A y \in Row : y # x => (KnownSent(y)' <=> KnownSent(y))
    BY <1>4, <2>1, OutcomeSends DEF SendOk
  <2>3. KnownSent(x)' /\ delivered[x] = excused[x]
    BY <1>4, <2>1, OutcomeSends DEF SendOk
  <2>4. delivered'[x] = delivered[x] + 1
        /\ \A y \in Row : y # x => delivered'[y] = delivered[y]
    BY <1>4, <2>1 DEF SendOk, TypeOK
  <2> QED BY <1>0, <2>1, <2>2, <2>3, <2>4 DEF SendsAccounted
<1>5. ASSUME NEW x \in batch[w], NEW accepted \in BOOLEAN, SendError(w, x, accepted)
      PROVE  SendsAccounted'
  <2>1. x \in Row /\ UNCHANGED <<batch, outbox>>
    BY <1>5 DEF SendError, TypeOK
  <2> DEFINE s == IF GivesUp(image[w][x].attempts) THEN "Failed" ELSE "Queued"
  <2>2. Outcome(w, x, s) /\ s # "Sent" /\ image[w][x].at = "sending"
    BY <1>5 DEF SendError
  <2> HIDE DEF s
  <2>3. \A y \in Row : y # x => (KnownSent(y)' <=> KnownSent(y))
    BY <2>1, <2>2, OutcomeSends
  <2>4. ~KnownSent(x)' /\ delivered[x] = excused[x]
    BY <2>1, <2>2, OutcomeSends
  <2>5. CASE accepted
    <3>1. delivered' = [delivered EXCEPT ![x] = @ + 1] /\ excused' = [excused EXCEPT ![x] = @ + 1]
      BY <1>5, <2>5 DEF SendError
    <3>2. delivered'[x] = delivered[x] + 1 /\ excused'[x] = excused[x] + 1
      BY <2>1, <3>1 DEF TypeOK
    <3>3. \A y \in Row : y # x => delivered'[y] = delivered[y] /\ excused'[y] = excused[y]
      BY <2>1, <3>1 DEF TypeOK
    <3> QED BY <1>0, <2>1, <2>3, <2>4, <3>2, <3>3 DEF SendsAccounted
  <2>6. CASE ~accepted
    <3>1. UNCHANGED <<delivered, excused>>
      BY <1>5, <2>6 DEF SendError
    <3> QED BY <1>0, <2>1, <2>3, <2>4, <3>1 DEF SendsAccounted
  <2> QED BY <2>5, <2>6
<1>6. ASSUME CommitBatch(w) PROVE SendsAccounted'
  <2>1. UNCHANGED <<delivered, excused>>
    BY <1>6 DEF CommitBatch, history
  <2>2. batch'[w] = {} /\ \A v \in Worker : v # w => batch'[v] = batch[v] /\ image'[v] = image[v]
    BY <1>6 DEF CommitBatch, TypeOK
  <2>3. ASSUME NEW x \in Row, x \in batch[w] PROVE KnownSent(x)' <=> KnownSent(x)
    <3>1. outbox'[x].status = image[w][x].status
      BY <1>0, <1>6, <2>3 DEF CommitBatch, Write, RowRec
    <3>2. outbox[x].status = "Queued" /\ \A v \in Worker : v # w => x \notin batch[v]
      BY <2>3 DEF Claims
    <3> QED BY <2>2, <2>3, <3>1, <3>2 DEF KnownSent
  <2>4. ASSUME NEW x \in Row, x \notin batch[w] PROVE KnownSent(x)' <=> KnownSent(x)
    <3>1. outbox'[x] = outbox[x]
      BY <1>6, <2>4 DEF CommitBatch
    <3> QED BY <2>2, <2>4, <3>1 DEF KnownSent
  <2> QED BY <2>1, <2>3, <2>4 DEF SendsAccounted
<1>7. ASSUME LoseBatch(w) PROVE SendsAccounted'
  <2>1. UNCHANGED <<outbox, delivered>>
    BY <1>7 DEF LoseBatch
  <2>2. batch'[w] = {} /\ \A v \in Worker : v # w => batch'[v] = batch[v] /\ image'[v] = image[v]
    BY <1>7 DEF LoseBatch, ReleasedByCrash, TypeOK
  <2>3. ASSUME NEW x \in Row, x \in batch[w]
        PROVE  delivered'[x] = excused'[x] + (IF KnownSent(x)' THEN 1 ELSE 0)
    <3>1. outbox[x].status = "Queued" /\ \A v \in Worker : v # w => x \notin batch[v]
      BY <2>3 DEF Claims
    <3>2. KnownSent(x) <=> image[w][x].status = "Sent"
      BY <2>3, <3>1 DEF KnownSent
    <3>3. ~KnownSent(x)'
      BY <2>1, <2>2, <3>1 DEF KnownSent
    <3>4. excused'[x] = IF image[w][x].status = "Sent" THEN excused[x] + 1 ELSE excused[x]
      BY <1>7, <2>3 DEF LoseBatch
    <3>5. delivered[x] = IF image[w][x].status = "Sent" THEN excused[x] + 1 ELSE excused[x]
      BY <1>0, <3>2 DEF SendsAccounted
    <3> QED BY <1>0, <2>1, <3>3, <3>4, <3>5
  <2>4. ASSUME NEW x \in Row, x \notin batch[w]
        PROVE  delivered'[x] = excused'[x] + (IF KnownSent(x)' THEN 1 ELSE 0)
    <3>1. excused'[x] = excused[x]
      BY <1>7, <2>4 DEF LoseBatch
    <3>2. KnownSent(x)' <=> KnownSent(x)
      BY <2>1, <2>2, <2>4 DEF KnownSent
    <3> QED BY <2>1, <3>1, <3>2 DEF SendsAccounted
  <2> QED BY <2>3, <2>4 DEF SendsAccounted
<1> QED BY <1>1, <1>2, <1>3, <1>4, <1>5, <1>6, <1>7 DEF DrainStep

\* Retries of rows sent meanwhile are accounted for.
LEMMA RestSends ==
  ASSUME TypeOK, Claims, Picks, SendsAccounted, RestStep PROVE SendsAccounted'
<1>0. \A x \in Row : outbox[x] \in RowRec /\ delivered[x] \in Nat /\ excused[x] \in Nat
  BY DEF TypeOK
<1>b. ASSUME UNCHANGED <<batch, image, delivered, excused>>,
             \A x \in Row : outbox'[x].status = outbox[x].status
      PROVE  SendsAccounted'
  BY <1>b DEF SendsAccounted, KnownSent
<1>1. ASSUME NEW a \in Admin, RetryWrite(a) PROVE SendsAccounted'
  <2>1. UNCHANGED <<delivered, batch, image>>
    BY <1>1 DEF RetryWrite, drainVars
  <2>2. ASSUME NEW x \in Row, x \notin picked[a]
        PROVE  delivered'[x] = excused'[x] + (IF KnownSent(x)' THEN 1 ELSE 0)
    <3>1. outbox'[x] = outbox[x] /\ excused'[x] = excused[x]
      BY <1>1, <2>2 DEF RetryWrite
    <3> QED BY <2>1, <3>1 DEF SendsAccounted, KnownSent
  <2>3. ASSUME NEW x \in Row, x \in picked[a]
        PROVE  delivered'[x] = excused'[x] + (IF KnownSent(x)' THEN 1 ELSE 0)
    <3>1. \A w \in Worker : x \notin batch[w]
      BY <1>1, <2>3 DEF RetryWrite, Locked
    <3>2. (KnownSent(x) <=> outbox[x].status = "Sent")
          /\ (KnownSent(x)' <=> outbox'[x].status = "Sent")
      BY <2>1, <3>1 DEF KnownSent
    <3>3. seen[a][x].status \in {"Queued", "Failed", "Skipped"}
      BY <2>3 DEF Picks, TypeOK, Columns, Status
    <3>4. outbox'[x].status = IF seen[a][x].status = "Queued" THEN outbox[x].status ELSE "Queued"
      BY <1>0, <1>1, <2>3 DEF RetryWrite, Write, RowRec
    <3>5. excused'[x] = IF outbox[x].status = "Sent" /\ seen[a][x].status # "Queued"
                        THEN excused[x] + 1 ELSE excused[x]
      BY <1>1, <2>3, <3>3 DEF RetryWrite
    <3>6. delivered[x] = IF outbox[x].status = "Sent" THEN excused[x] + 1 ELSE excused[x]
      BY <1>0, <3>2 DEF SendsAccounted
    <3> QED BY <1>0, <2>1, <3>2, <3>4, <3>5, <3>6
  <2> QED BY <2>2, <2>3 DEF SendsAccounted
<1>2. ASSUME NEW a \in Admin, AdminStep(a)
      PROVE  RetryWrite(a) \/ UNCHANGED <<outbox, batch, image, delivered, excused>>
  BY <1>2 DEF AdminStep, RetryOne, RetryAllFailed, RetryRead, drainVars, history
<1>3. ASSUME NEW e \in Event \cup {Master}, Toggle(e)
      PROVE  UNCHANGED <<outbox, batch, image, delivered, excused>>
  BY <1>3 DEF Toggle, drainVars, history
<1>4. ASSUME NEW x \in Row, BackoffPasses(x) \/ WindowPasses(x) PROVE SendsAccounted'
  <2>1. UNCHANGED <<batch, image, delivered, excused>>
    BY <1>4 DEF BackoffPasses, WindowPasses, drainVars, history
  <2> QED BY <1>4, <1>b, <2>1, ClockRows
<1> QED BY <1>1, <1>2, <1>3, <1>4, <1>b DEF RestStep
-----------------------------------------------------------------------------
(* The theorems.                                                            *)

\* A failed business operation leaves no row behind.
LEMMA RollbackFollows ==
  ASSUME TypeOK, Follows, NEW r \in Request, RollbackRequest(r) PROVE Follows'
  BY UndoFollows DEF RollbackRequest

\* The invariant is inductive: one step per group of actions.
LEMMA NextIInv == IInv /\ [Next]_vars => IInv'
<1> SUFFICES ASSUME IInv, [Next]_vars PROVE IInv'
  OBVIOUS
<1> USE DEF IInv
<1>1. TypeOK'
  BY NextTypeOK
<1>2. ASSUME NEW r \in Request, RequestStep(r) \/ RollbackRequest(r) PROVE IInv'
  BY <1>1, <1>2, RequestFollows, RollbackFollows, RequestUniqueKeys, RollbackUniqueKeys,
     RequestClaims, RequestSends
<1>3. ASSUME NEW w \in Worker, DrainStep(w) \/ LoseBatch(w) PROVE IInv'
  <2>1. OtherStep
    BY <1>3 DEF OtherStep
  <2> QED BY <1>1, <1>3, <2>1, OtherStepFollows, OtherStepUniqueKeys, DrainClaims, DrainSends
<1>4. ASSUME RestStep PROVE IInv'
  <2>1. OtherStep
    BY <1>4 DEF RestStep, OtherStep
  <2> QED BY <1>1, <1>4, <2>1, OtherStepFollows, OtherStepUniqueKeys, RestClaims, RestSends
<1>5. CASE UNCHANGED vars
  <2>1. Follows' /\ UniqueKeys'
    BY <1>5 DEF vars, Follows, UniqueKeys, Held, SameKey
  <2>2. Claims' /\ Picks'
    BY <1>5 DEF vars, Claims, Picks, Committed
  <2>3. SendsAccounted'
    BY <1>5 DEF vars, SendsAccounted, KnownSent
  <2> QED BY <1>1, <2>1, <2>2, <2>3
<1>6. ASSUME NEW w \in Worker, DrainNothing(w) PROVE IInv'
  BY <1>5, <1>6 DEF DrainNothing
<1> QED BY <1>2, <1>3, <1>4, <1>5, <1>6 DEF Next, RestStep

\* The invariant holds in every reachable state.
THEOREM IInvHolds == Spec => []IInv
  BY InitIInv, NextIInv, PTL DEF Spec

\* A mail becomes visible exactly with the commit of the change it announces:
\* no row of an open or failed request is ever in the table, and no row a
\* committed request queued is missing from it.
THEOREM MailFollowsTheChange == Spec => []QueuedWithTheChange
<1>1. IInv => QueuedWithTheChange
  <2> SUFFICES ASSUME IInv PROVE QueuedWithTheChange
    OBVIOUS
  <2>1. \A x \in Row : phase[x[1]] \in {"open", "committed", "rolledback", "conflict"}
    BY DEF IInv, TypeOK, Row
  <2> QED BY <2>1 DEF IInv, Follows, QueuedWithTheChange, Committed
<1> QED BY <1>1, IInvHolds, PTL

\* Whatever requests check, insert, wait for and roll back, no two rows of the
\* table share a dedupe key.
THEOREM KeysAreUnique == Spec => []OneRowPerKey
<1>1. IInv => OneRowPerKey
  BY DEF IInv, UniqueKeys, OneRowPerKey, Held, Committed
<1> QED BY <1>1, IInvHolds, PTL

\* Any number of draining sessions, with crashes at any point and retries by
\* any number of administrators: a row has one owner, and the owner's image of
\* it is based on what the table still says.
THEOREM ClaimsAreExclusive == Spec => []ExclusiveClaim
<1>1. IInv => ExclusiveClaim
  BY DEF IInv, Claims, ExclusiveClaim
<1> QED BY <1>1, IInvHolds, PTL

\* Every delivery of a mail is the one its Sent status stands for, or was lost
\* track of by a crash, an ambiguous SMTP answer, a stale retry or a rollback
\* after an inline send; and every Sent row was delivered.
THEOREM DeliveriesAreAccounted == Spec => []SendsAccounted
<1>1. IInv => SendsAccounted
  BY DEF IInv
<1> QED BY <1>1, IInvHolds, PTL
-----------------------------------------------------------------------------
(* The refinement.                                                          *)

\* A row not yet committed was never suppressed: Skipped is a drain's verdict.
Drafts ==
  \A x \in Row : outbox[x].stage \in {"pending", "inserted"} => outbox[x].status # "Skipped"

\* An uncommitted row stays as it was first written.
LEMMA DraftsInv == IInv /\ Drafts /\ [Next]_vars => Drafts'
<1> SUFFICES ASSUME IInv, Drafts, [Next]_vars PROVE Drafts'
  OBVIOUS
<1>0. /\ TypeOK /\ Follows /\ Claims /\ Picks
      /\ \A x \in Row : outbox[x] \in RowRec
  BY DEF IInv, TypeOK
<1>1. ASSUME NEW r \in Request, NEW m \in Asks[r], NEW fails, QueueEmail(r, m, fails)
      PROVE  Drafts'
  <2>1. \A x \in Row : outbox'[x] = outbox[x] \/ outbox'[x] = NewRow
    BY <1>0, <1>1 DEF QueueEmail, TypeOK
  <2> QED BY <2>1 DEF Drafts, NewRow, NoRow
<1>2. ASSUME NEW r \in Request, NEW m \in Asks[r], NEW sent, RecordInline(r, m, sent)
      PROVE  Drafts'
  <2> DEFINE new == [NewRow EXCEPT !.stage = "inserted", !.attempts = 1,
                                   !.status = IF sent THEN "Sent" ELSE "Failed"]
  <2>1. \A x \in Row : outbox'[x] = outbox[x] \/ outbox'[x] = new
    BY <1>0, <1>2 DEF RecordInline, TypeOK
  <2>2. new.status # "Skipped"
    BY DEF NewRow, NoRow
  <2> HIDE DEF new
  <2> QED BY <2>1, <2>2 DEF Drafts
<1>3. ASSUME NEW r \in Request, NEW x \in RowsOf(r), Flush(r, x) PROVE Drafts'
  <2>1. x \in Row /\ outbox[x].stage = "pending"
    BY <1>3 DEF Flush, RowsOf, Pending
  <2>2. \A y \in Row : outbox'[y].status = outbox[y].status /\ (y # x => outbox'[y] = outbox[y])
    BY <1>0, <1>3, <2>1 DEF Flush, TypeOK, RowRec
  <2> QED BY <2>1, <2>2 DEF Drafts
<1>4. ASSUME NEW r \in Request, NEW how, Undo(r, how) PROVE Drafts'
  <2>1. \A x \in Row : outbox'[x] = outbox[x] \/ outbox'[x] = NoRow
    BY <1>0, <1>4, UndoRows
  <2> QED BY <2>1 DEF Drafts, NoRow
<1>5. ASSUME NEW r \in Request, CommitRequest(r) PROVE Drafts'
  <2>1. \A x \in Row : outbox'[x] = outbox[x] \/ outbox'[x].stage = "committed"
    BY <1>0, <1>5 DEF CommitRequest, RowRec
  <2> QED BY <2>1 DEF Drafts
<1>6. ASSUME NEW w \in Worker, CommitBatch(w) PROVE Drafts'
  <2>1. \A x \in Row : ~Committed(x) => outbox'[x] = outbox[x]
    BY <1>0, <1>6 DEF CommitBatch, Claims
  <2>2. \A x \in Row : outbox'[x].stage = outbox[x].stage
    BY <1>0, <1>6 DEF CommitBatch, Write, RowRec
  <2> QED BY <2>1, <2>2 DEF Drafts, Committed
<1>7. ASSUME NEW a \in Admin, RetryWrite(a) PROVE Drafts'
  <2>1. \A x \in Row : ~Committed(x) => outbox'[x] = outbox[x]
    BY <1>0, <1>7 DEF RetryWrite, Picks
  <2>2. \A x \in Row : outbox'[x].stage = outbox[x].stage
    BY <1>0, <1>7 DEF RetryWrite, Write, RowRec
  <2> QED BY <2>1, <2>2 DEF Drafts, Committed
<1>8. ASSUME NEW x \in Row, BackoffPasses(x) \/ WindowPasses(x) PROVE Drafts'
  BY <1>0, <1>8, ClockRows DEF Drafts
<1>9. ASSUME UNCHANGED outbox PROVE Drafts'
  BY <1>9 DEF Drafts
<1>10. ASSUME NEW r \in Request, RequestStep(r) \/ RollbackRequest(r) PROVE Drafts'
  BY <1>1, <1>2, <1>3, <1>4, <1>5, <1>9, <1>10
     DEF RecordingFails, RequestStep, KeyConflict, DeadlockVictim, RollbackRequest
<1>11. ASSUME NEW w \in Worker, DrainStep(w) \/ DrainNothing(w) \/ LoseBatch(w)
       PROVE  CommitBatch(w) \/ UNCHANGED outbox
  BY <1>11 DEF DrainStep, DrainNothing, Claim, Suppress, StartSend, SendOk, SendError,
               LoseBatch, vars
<1>12. ASSUME NEW a \in Admin, AdminStep(a) PROVE RetryWrite(a) \/ UNCHANGED outbox
  BY <1>12 DEF AdminStep, RetryOne, RetryAllFailed, RetryRead
<1>13. ASSUME NEW e \in Event \cup {Master}, Toggle(e) PROVE UNCHANGED outbox
  BY <1>13 DEF Toggle
<1>14. UNCHANGED vars => UNCHANGED outbox
  BY DEF vars
<1> QED BY <1>6, <1>7, <1>8, <1>9, <1>10, <1>11, <1>12, <1>13, <1>14 DEF Next
\* Initial states map to initial states of the promise.
LEMMA PromiseInit == Init => Promise!Init
  BY DEF Init, Promise!Init, Committed, NoRow

\* What the promise sees of a row: nothing until it is committed.
Shown(x) == IF Committed(x) THEN outbox[x].status ELSE "none"

Business(r) ==
  CASE phase[r] = "open" -> "open"
    [] phase[r] = "committed" -> "committed"
    [] OTHER -> "aborted"

\* A step that shows no change is a stutter of the promise.
LEMMA PromiseStutter ==
  ASSUME \A r \in Request : Business(r)' = Business(r),
         \A x \in Row : Shown(x)' = Shown(x)
  PROVE  UNCHANGED Promise!vars
  BY DEF Promise!vars, Business, Shown

\* A rollback is an abort of the promise.
LEMMA UndoPromise ==
  ASSUME IInv, NEW r \in Request, NEW how \in {"rolledback", "conflict"},
         Undo(r, how), phase[r] = "open"
  PROVE  Promise!Abort(r)
<1>1. \A x \in Row : Shown(x)' = Shown(x)
  <2> SUFFICES ASSUME NEW x \in Row PROVE Shown(x)' = Shown(x)
    OBVIOUS
  <2>1. CASE x[1] = r
    <3>1. outbox'[x].stage = "none"
      BY <2>1, UndoRows DEF IInv, NoRow
    <3>2. outbox[x].stage # "committed"
      BY <2>1 DEF IInv, Follows
    <3> QED BY <3>1, <3>2 DEF Shown, Committed
  <2>2. CASE x[1] # r
    BY <2>2, UndoRows DEF IInv, Shown, Committed
  <2> QED BY <2>1, <2>2
<1>2. \A s \in Request : Business(s)' = IF s = r THEN "aborted" ELSE Business(s)
  BY DEF Undo, IInv, TypeOK, Business
<1>3. Business(r) = "open"
  BY DEF Business
<1> QED BY <1>1, <1>2, <1>3 DEF Promise!Abort, Shown, Business

\* The commit of a request shows all its rows in one step.
LEMMA CommitPromise ==
  ASSUME IInv, Drafts, NEW r \in Request, CommitRequest(r)
  PROVE  \E S \in SUBSET Row : Promise!Commit(r, S)
<1> DEFINE S == {x \in Row : x[1] = r /\ Inserted(x)}
           new == [x \in S |-> outbox[x].status]
<1>0. \A x \in Row : outbox[x] \in RowRec
  BY DEF IInv, TypeOK
<1>1. Business(r) = "open" /\ \A s \in Request :
        Business(s)' = IF s = r THEN "committed" ELSE Business(s)
  BY DEF CommitRequest, IInv, TypeOK, Business
<1>2. \A x \in S : x \in Row /\ x[1] = r
  OBVIOUS
<1>3. ASSUME NEW x \in S, NEW y \in Row, SameKey(x, y) PROVE Shown(y) = "none" /\ y \notin S
  <2>1. Held(x) /\ ~Held(y)
    BY <1>3 DEF IInv, UniqueKeys, Held, Inserted
  <2> QED BY <2>1 DEF Held, Shown, Committed, Inserted
<1>4. new \in [S -> {"Queued", "Sent", "Failed"}]
  <2>1. \A x \in S : outbox[x].status \in {"Queued", "Sent", "Failed"}
    BY <1>0 DEF Drafts, Inserted, RowRec, Status
  <2> QED BY <2>1
<1>5. ASSUME NEW x \in Row PROVE Shown(x)' = IF x \in S THEN new[x] ELSE Shown(x)
  <2>1. CASE x \in S
    <3>1. outbox'[x] = [outbox[x] EXCEPT !.stage = "committed"]
      BY <2>1 DEF CommitRequest
    <3>2. outbox'[x].stage = "committed" /\ outbox'[x].status = outbox[x].status
      BY <1>0, <3>1 DEF RowRec
    <3> QED BY <2>1, <3>2 DEF Shown, Committed
  <2>2. CASE x \notin S
    <3>0. ~(x[1] = r /\ Inserted(x))
      BY <2>2
    <3>1. outbox'[x] = outbox[x]
      BY <3>0 DEF CommitRequest
    <3>2. Shown(x)' = Shown(x)
      BY <3>1 DEF Shown, Committed
    <3> HIDE DEF S, new
    <3> QED BY <2>2, <3>2
  <2> HIDE DEF S, new
  <2> QED BY <2>1, <2>2
<1>6. S \in SUBSET Row
  OBVIOUS
<1> HIDE DEF S, new
<1>7. Promise!Commit(r, S)
  <2>1. \A x \in S, y \in Row : Promise!Clash(x, y) => SameKey(x, y)
    BY <1>2 DEF Promise!Clash, SameKey
  <2>2. \A x \in S : [z \in Row |-> z[1]][x] = r
    BY <1>2
  <2> QED BY <1>1, <1>3, <1>4, <1>5, <2>1, <2>2 DEF Promise!Commit, Shown, Business
<1> QED BY <1>6, <1>7, Zenon DEF Promise!Commit

\* The commit of a batch settles queued rows, or shows nothing.
LEMMA CommitBatchPromise ==
  ASSUME IInv, NEW w \in Worker, CommitBatch(w)
  PROVE  \E S \in SUBSET Row : Promise!Settle(S)
<1> DEFINE S == {x \in batch[w] : image[w][x].status \in Settled}
           new == [x \in S |-> image[w][x].status]
<1>0. (\A x \in Row : outbox[x] \in RowRec) /\ batch[w] \subseteq Row
      /\ \A x \in batch[w] : image[w][x].status \in Status
  BY DEF IInv, TypeOK, Work
<1>1. \A x \in batch[w] : Shown(x) = "Queued"
  BY DEF IInv, Claims, Shown
<1>2. \A r \in Request : Business(r)' = Business(r)
  BY DEF CommitBatch, Business, requestVars
<1>3. ASSUME NEW x \in Row PROVE Shown(x)' = IF x \in S THEN new[x] ELSE Shown(x)
  <2>1. CASE x \in batch[w]
    <3>1. outbox'[x].stage = outbox[x].stage /\ outbox'[x].status = image[w][x].status
      BY <1>0, <2>1 DEF CommitBatch, Write, RowRec
    <3>2. Shown(x)' = image[w][x].status
      BY <1>1, <2>1, <3>1 DEF Shown, Committed, IInv, Claims
    <3> QED BY <1>0, <1>1, <2>1, <3>2 DEF Settled, Status
  <2>2. CASE x \notin batch[w]
    <3>1. outbox'[x] = outbox[x]
      BY <2>2 DEF CommitBatch
    <3>2. Shown(x)' = Shown(x)
      BY <3>1 DEF Shown, Committed
    <3>3. x \notin S
      BY <2>2
    <3> HIDE DEF S, new
    <3> QED BY <3>2, <3>3
  <2> HIDE DEF S, new
  <2> QED BY <2>1, <2>2
<1>4. new \in [S -> Settled] /\ S \in SUBSET Row /\ \A x \in S : x \in Row /\ Shown(x) = "Queued"
  BY <1>0, <1>1
<1> HIDE DEF S, new
<1>5. Promise!Settle(S)
  BY <1>2, <1>3, <1>4 DEF Promise!Settle, Promise!Settled, Settled, Shown, Business
<1> QED BY <1>4, <1>5, Zenon DEF Promise!Settle

\* A retry requeues settled rows, or shows nothing.
LEMMA RetryPromise ==
  ASSUME IInv, NEW a \in Admin, RetryWrite(a)
  PROVE  \E S \in SUBSET Row : Promise!Requeue(S)
<1> DEFINE S == {x \in picked[a] : outbox[x].status \in Settled /\ seen[a][x].status # "Queued"}
<1>0. (\A x \in Row : outbox[x] \in RowRec) /\ picked[a] \subseteq Row
  BY DEF IInv, TypeOK
<1>1. \A x \in picked[a] : Committed(x)
  BY DEF IInv, Picks
<1>2. \A r \in Request : Business(r)' = Business(r)
  BY DEF RetryWrite, Business, requestVars
<1>3. ASSUME NEW x \in Row PROVE Shown(x)' = IF x \in S THEN "Queued" ELSE Shown(x)
  <2>1. CASE x \in picked[a]
    <3>1. /\ outbox'[x].stage = "committed" /\ outbox[x].stage = "committed"
          /\ outbox'[x].status = IF seen[a][x].status = "Queued" THEN outbox[x].status
                                 ELSE "Queued"
      BY <1>0, <1>1, <2>1 DEF RetryWrite, Write, RowRec, Committed
    <3>2. outbox[x].status \in Status
      BY <1>0 DEF RowRec
    <3> QED BY <2>1, <3>1, <3>2 DEF Shown, Committed, Settled, Status
  <2>2. CASE x \notin picked[a]
    <3>1. outbox'[x] = outbox[x]
      BY <2>2 DEF RetryWrite
    <3>2. Shown(x)' = Shown(x)
      BY <3>1 DEF Shown, Committed
    <3>3. x \notin S
      BY <2>2
    <3> HIDE DEF S
    <3> QED BY <3>2, <3>3
  <2> HIDE DEF S
  <2> QED BY <2>1, <2>2
<1>4. S \in SUBSET Row /\ \A x \in S : x \in Row /\ Shown(x) \in Settled
  BY <1>0, <1>1 DEF Shown
<1> HIDE DEF S
<1>5. Promise!Requeue(S)
  BY <1>2, <1>3, <1>4 DEF Promise!Requeue, Promise!Settled, Settled, Shown, Business
<1> QED BY <1>4, <1>5, Zenon DEF Promise!Requeue

\* What the promise sees of a row depends on its stage and status.
LEMMA ShownUnchanged ==
  ASSUME NEW x \in Row, outbox'[x].stage = outbox[x].stage,
         outbox'[x].status = outbox[x].status
  PROVE  Shown(x)' = Shown(x)
  BY DEF Shown, Committed

\* A draft changes: no row the promise can see is involved.
LEMMA DraftPromise ==
  ASSUME IInv, NEW r \in Request, NEW x \in Row, x[1] = r, phase[r] = "open",
         UNCHANGED phase, NEW row \in RowRec, row.stage # "committed",
         outbox' = [outbox EXCEPT ![x] = row]
  PROVE  UNCHANGED Promise!vars
<1>1. outbox[x].stage # "committed"
  BY DEF IInv, Follows, Committed
<1>2. outbox'[x] = row
  BY DEF IInv, TypeOK
<1>3. Shown(x)' = Shown(x)
  BY <1>1, <1>2 DEF Shown, Committed
<1>4. \A y \in Row : y # x => outbox'[y] = outbox[y]
  BY DEF IInv, TypeOK
<1>5. \A y \in Row : y # x => Shown(y)' = Shown(y)
  BY <1>4 DEF Shown, Committed
<1>6. \A s \in Request : Business(s)' = Business(s)
  BY DEF Business
<1> QED BY <1>3, <1>5, <1>6, PromiseStutter

\* Every step of a request is a step of the promise or a stutter.
LEMMA RequestPromise ==
  ASSUME IInv, Drafts, NEW r \in Request, RequestStep(r) \/ RollbackRequest(r)
  PROVE  \/ Promise!Abort(r)
         \/ \E S \in SUBSET Row : Promise!Commit(r, S)
         \/ UNCHANGED Promise!vars
<1>1. ASSUME NEW m \in Asks[r], NEW fails \in Failing, QueueEmail(r, m, fails)
      PROVE  UNCHANGED Promise!vars
  <2>1. <<r, m>> \in Row /\ <<r, m>>[1] = r
    BY ConstantsAssumption DEF Row
  <2>2. phase[r] = "open" /\ UNCHANGED phase
    BY <1>1 DEF QueueEmail
  <2>3. NewRow \in RowRec /\ NewRow.stage # "committed"
    BY DEF NewRow, NoRow, RowRec, Stage, Status
  <2>4. outbox' = outbox \/ outbox' = [outbox EXCEPT ![<<r, m>>] = NewRow]
    BY <1>1 DEF QueueEmail
  <2>5. CASE outbox' = outbox
    BY <2>2, <2>5, PromiseStutter DEF Shown, Committed, Business
  <2>6. CASE outbox' = [outbox EXCEPT ![<<r, m>>] = NewRow]
    BY <2>1, <2>2, <2>3, <2>6, DraftPromise
  <2> QED BY <2>4, <2>5, <2>6
<1>2. ASSUME NEW m \in Asks[r], NEW sent \in BOOLEAN, RecordInline(r, m, sent)
      PROVE  UNCHANGED Promise!vars
  <2> DEFINE row == [NewRow EXCEPT !.stage = "inserted", !.attempts = 1,
                                   !.status = IF sent THEN "Sent" ELSE "Failed"]
  <2>1. <<r, m>> \in Row /\ <<r, m>>[1] = r
    BY ConstantsAssumption DEF Row
  <2>2. phase[r] = "open" /\ UNCHANGED phase
    BY <1>2 DEF RecordInline, requestVars
  <2>3. row \in RowRec /\ row.stage # "committed"
    BY DEF NewRow, NoRow, RowRec, Stage, Status
  <2>4. outbox' = [outbox EXCEPT ![<<r, m>>] = row]
    BY <1>2 DEF RecordInline
  <2> HIDE DEF row
  <2> QED BY <2>1, <2>2, <2>3, <2>4, DraftPromise
<1>3. ASSUME NEW x \in RowsOf(r), Flush(r, x) PROVE UNCHANGED Promise!vars
  <2> DEFINE row == [outbox[x] EXCEPT !.stage = "inserted"]
  <2>1. x \in Row /\ x[1] = r
    BY DEF RowsOf
  <2>2. phase[r] = "open" /\ UNCHANGED phase
    BY <1>3 DEF Flush, requestVars
  <2>3. outbox[x] \in RowRec
    BY <2>1 DEF IInv, TypeOK
  <2>4. row \in RowRec /\ row.stage # "committed"
    BY <2>3 DEF RowRec, Stage
  <2>5. outbox' = [outbox EXCEPT ![x] = row]
    BY <1>3 DEF Flush
  <2> HIDE DEF row
  <2> QED BY <2>1, <2>2, <2>4, <2>5, DraftPromise
<1>4. ASSUME NEW x \in RowsOf(r), KeyConflict(r, x) PROVE Promise!Abort(r)
  BY <1>4, UndoPromise DEF KeyConflict
<1>5. ASSUME DeadlockVictim(r) PROVE Promise!Abort(r)
  <2>1. phase[r] = "open"
    BY <1>5 DEF DeadlockVictim, InWaitCycle, WaitsFor
  <2> QED BY <1>5, <2>1, UndoPromise DEF DeadlockVictim
<1>6. ASSUME RollbackRequest(r) PROVE Promise!Abort(r)
  BY <1>6, UndoPromise DEF RollbackRequest
<1>7. ASSUME CommitRequest(r) PROVE \E S \in SUBSET Row : Promise!Commit(r, S)
  BY <1>7, CommitPromise
<1>8. ASSUME NEW m \in Asks[r], NEW sent \in BOOLEAN, RecordingFails(r, m, sent)
      PROVE  UNCHANGED Promise!vars
  <2>1. UNCHANGED <<phase, outbox>>
    BY <1>8 DEF RecordingFails
  <2> QED BY <2>1, PromiseStutter DEF Shown, Committed, Business
<1> QED BY <1>1, <1>2, <1>3, <1>4, <1>5, <1>6, <1>7, <1>8 DEF RequestStep

\* Every step of the outbox is a step of the promise or a stutter.
LEMMA PromiseStep ==
  ASSUME IInv, Drafts, [Next]_vars
  PROVE  [Promise!Next]_(Promise!vars)
<1>1. ASSUME UNCHANGED <<phase, outbox>> PROVE UNCHANGED Promise!vars
  BY <1>1, PromiseStutter DEF Shown, Committed, Business
<1>2. ASSUME NEW r \in Request, Promise!Abort(r) PROVE Promise!Next
  BY <1>2, Zenon DEF Promise!Next, Promise!Abort
<1>3. ASSUME NEW r \in Request, \E S \in SUBSET Row : Promise!Commit(r, S)
      PROVE  Promise!Next
  BY <1>3, Zenon DEF Promise!Next, Promise!Commit
<1>4. ASSUME \E S \in SUBSET Row : Promise!Settle(S) PROVE Promise!Next
  BY <1>4, Zenon DEF Promise!Next, Promise!Settle
<1>5. ASSUME \E S \in SUBSET Row : Promise!Requeue(S) PROVE Promise!Next
  BY <1>5, Zenon DEF Promise!Next, Promise!Requeue
<1>6. ASSUME NEW r \in Request, RequestStep(r) \/ RollbackRequest(r)
      PROVE  [Promise!Next]_(Promise!vars)
  BY <1>2, <1>3, <1>6, RequestPromise
<1>7. ASSUME NEW w \in Worker, DrainStep(w) \/ DrainNothing(w) \/ LoseBatch(w)
      PROVE  [Promise!Next]_(Promise!vars)
  <2>1. CommitBatch(w) \/ UNCHANGED <<phase, outbox>>
    BY <1>7 DEF DrainStep, DrainNothing, Claim, Suppress, StartSend, SendOk, SendError,
                LoseBatch, vars, requestVars
  <2> QED BY <1>1, <1>4, <2>1, CommitBatchPromise
<1>8. ASSUME NEW a \in Admin, AdminStep(a) PROVE [Promise!Next]_(Promise!vars)
  <2>1. RetryWrite(a) \/ UNCHANGED <<phase, outbox>>
    BY <1>8 DEF AdminStep, RetryOne, RetryAllFailed, RetryRead, requestVars
  <2> QED BY <1>1, <1>5, <2>1, RetryPromise
<1>9. ASSUME NEW e \in Event \cup {Master}, Toggle(e) PROVE UNCHANGED Promise!vars
  BY <1>1, <1>9 DEF Toggle, requestVars
<1>10. ASSUME NEW y \in Row, BackoffPasses(y) \/ WindowPasses(y)
       PROVE  UNCHANGED Promise!vars
  <2>0. TypeOK
    BY DEF IInv
  <2>1. \A x \in Row : outbox'[x].stage = outbox[x].stage
                       /\ outbox'[x].status = outbox[x].status
    BY <1>10, <2>0, ClockRows
  <2>2. \A x \in Row : Shown(x)' = Shown(x)
    BY <2>1 DEF Shown, Committed
  <2>3. \A r \in Request : Business(r)' = Business(r)
    BY <1>10 DEF BackoffPasses, WindowPasses, requestVars, Business
  <2> QED BY <2>2, <2>3, PromiseStutter
<1>11. UNCHANGED vars => UNCHANGED <<phase, outbox>>
  BY DEF vars
<1> QED BY <1>1, <1>6, <1>7, <1>8, <1>9, <1>10, <1>11 DEF Next

\* There are no drafts at first.
LEMMA InitDrafts == Init => Drafts
  BY DEF Init, Drafts, NoRow, Committed

\* Refinement, for every number of requests, rows, workers and administrators:
\* seen from outside, the outbox does nothing but commit a request's rows with
\* the request, settle queued rows once and requeue settled ones.
THEOREM OutboxKeepsPromise == Spec => KeepsPromise
<1>1. Init => Promise!Init
  BY PromiseInit
<1>2. IInv /\ Drafts /\ [Next]_vars => [Promise!Next]_(Promise!vars)
  BY PromiseStep
<1>3. Spec => [](IInv /\ Drafts)
  <2>1. Init => IInv /\ Drafts
    BY InitIInv, InitDrafts
  <2>2. IInv /\ Drafts /\ [Next]_vars => IInv' /\ Drafts'
    BY NextIInv, DraftsInv
  <2> QED BY <2>1, <2>2, PTL DEF Spec
<1> QED BY <1>1, <1>2, <1>3, PTL DEF Spec, KeepsPromise, Promise!Spec
-----------------------------------------------------------------------------
(* Dropped duplicates.                                                      *)

\* Two messages a lookup takes for one another.
Alike(x, y) == SameKey(x, y) \/ Text(x) = Text(y)

\* What a request dropped as a duplicate is represented by a row the request
\* reads: a published one, or one it will itself publish with its commit.
Backed ==
  \A x \in Row :
    asked[x] = "duplicate" /\ phase[x[1]] \in {"open", "committed"} =>
      \E y \in Row \ {x} : y \in Visible(x[1]) /\ Alike(x, y)

\* A request goes on from open only, and loses no row it reads unless it fails.
LEMMA VisibleStays ==
  ASSUME TypeOK, Follows, NEW r \in Request, RequestStep(r) \/ RollbackRequest(r),
         NEW s \in Request, phase'[s] \in {"open", "committed"}
  PROVE  /\ phase[s] \in {"open", "committed"}
         /\ \A y \in Visible(s) : y \in Visible(s)'
<1> DEFINE Goal == /\ phase[s] \in {"open", "committed"}
                   /\ \A y \in Visible(s) : y \in Visible(s)'
<1>1. ASSUME NEW m \in Asks[r], outbox[<<r, m>>].stage = "none", UNCHANGED phase,
             \A y \in Row \ {<<r, m>>} : outbox'[y] = outbox[y]
      PROVE  Goal
  <2>1. \A y \in Visible(s) : y \in Row \ {<<r, m>>}
    BY <1>1 DEF Visible, Committed, Inserted
  <2> QED BY <1>1, <2>1 DEF Visible, Committed, Inserted
<1>2. CASE \E m \in Asks[r], fails \in Failing : QueueEmail(r, m, fails)
  <2> PICK m \in Asks[r], fails \in Failing : QueueEmail(r, m, fails)
    BY <1>2
  <2>1. <<r, m>> \in Row /\ <<r, m>>[1] = r
    BY RowOfRequest
  <2>2. outbox[<<r, m>>].stage = "none"
    BY <2>1 DEF QueueEmail, Follows
  <2>3. \A y \in Row \ {<<r, m>>} : outbox'[y] = outbox[y]
    BY DEF QueueEmail, TypeOK
  <2> QED BY <1>1, <2>2, <2>3 DEF QueueEmail
<1>3. CASE \E m \in Asks[r], sent \in BOOLEAN : RecordInline(r, m, sent)
  <2> PICK m \in Asks[r], sent \in BOOLEAN : RecordInline(r, m, sent)
    BY <1>3
  <2>1. <<r, m>> \in Row /\ <<r, m>>[1] = r
    BY RowOfRequest
  <2>2. outbox[<<r, m>>].stage = "none"
    BY <2>1 DEF RecordInline, Follows
  <2>3. \A y \in Row \ {<<r, m>>} : outbox'[y] = outbox[y]
    BY DEF RecordInline, TypeOK
  <2> QED BY <1>1, <2>2, <2>3 DEF RecordInline
<1>4. CASE \E x \in RowsOf(r) : Flush(r, x)
  <2> PICK x \in RowsOf(r) : Flush(r, x)
    BY <1>4
  <2>1. \A y \in Row \ {x} : outbox'[y] = outbox[y]
    BY DEF Flush, TypeOK
  <2>2. \A y \in Visible(s) : y \in Row \ {x}
    BY DEF Flush, Visible, Committed, Inserted, Pending
  <2> QED BY <2>1, <2>2 DEF Flush, Visible, Committed, Inserted, requestVars
<1>5. ASSUME NEW how \in {"rolledback", "conflict"}, Undo(r, how) PROVE Goal
  <2>1. s # r /\ phase'[s] = phase[s]
    BY <1>5 DEF Undo, TypeOK
  <2>2. \A y \in Row : y[1] = s => outbox'[y] = outbox[y]
    BY <1>5, <2>1 DEF Undo
  <2> QED BY <2>1, <2>2, RequestsKeepCommitted DEF Visible, Committed, Inserted
<1>6. CASE CommitRequest(r)
  <2>1. phase[r] = "open" /\ (s # r => phase'[s] = phase[s])
    BY <1>6 DEF CommitRequest, TypeOK
  <2>2. ASSUME NEW y \in Visible(s) PROVE y \in Visible(s)'
    <3>1. y \in Row /\ outbox[y] \in RowRec
      BY DEF Visible, TypeOK
    <3>2. CASE y[1] = r /\ Inserted(y)
      <4>1. outbox'[y] = [outbox[y] EXCEPT !.stage = "committed"]
        BY <1>6, <3>1, <3>2 DEF CommitRequest
      <4>2. outbox'[y].stage = "committed"
        BY <3>1, <4>1 DEF RowRec
      <4> QED BY <3>1, <4>2 DEF Visible, Committed
    <3>3. CASE ~(y[1] = r /\ Inserted(y))
      <4>1. outbox'[y] = outbox[y]
        BY <1>6, <3>1, <3>3 DEF CommitRequest
      <4> QED BY <3>1, <4>1 DEF Visible, Committed, Inserted
    <3> QED BY <3>2, <3>3
  <2> QED BY <2>1, <2>2
<1>7. CASE \E m \in Asks[r], sent \in BOOLEAN : RecordingFails(r, m, sent)
  BY <1>7 DEF RecordingFails, Visible, Committed, Inserted
<1> QED BY <1>2, <1>3, <1>4, <1>5, <1>6, <1>7
        DEF RequestStep, KeyConflict, DeadlockVictim, RollbackRequest

\* A message is dropped only for a row its request reads.
LEMMA NewDuplicate ==
  ASSUME TypeOK, Follows, NEW r \in Request, RequestStep(r) \/ RollbackRequest(r),
         NEW x \in Row, asked'[x] = "duplicate", asked[x] # "duplicate"
  PROVE  \E y \in Row \ {x} : y \in Visible(x[1])' /\ Alike(x, y)
<1>1. \E m \in Asks[r], fails \in Failing : QueueEmail(r, m, fails)
  BY DEF RequestStep, RollbackRequest, RecordInline, RecordingFails, Flush, KeyConflict, DeadlockVictim,
         CommitRequest, Undo, TypeOK, requestVars
<1> PICK m \in Asks[r], fails \in Failing : QueueEmail(r, m, fails)
  BY <1>1
<1>2. x = <<r, m>> /\ Duplicate(r, m, fails) /\ UNCHANGED outbox
  BY DEF QueueEmail, TypeOK
<1>3. x[1] = r /\ x[2] = m
  BY <1>2
<1>4. outbox[x].stage = "none"
  BY <1>2, <1>3 DEF QueueEmail, Follows
<1>5. PICK y \in Visible(r) : (KeyOf[m] # NoKey /\ Key(y) = KeyOf[m]) \/ Text(y) = TextOf[m]
  BY <1>2 DEF Duplicate, KeyKnown, RecentRepeat
<1>6. y \in Row \ {x}
  BY <1>4 DEF Visible, Committed, Inserted
<1>7. Alike(x, y)
  BY <1>3, <1>5, <1>6 DEF Alike, SameKey, Key, Text
<1>8. y \in Visible(x[1])'
  BY <1>2, <1>3 DEF Visible, Committed, Inserted
<1> QED BY <1>6, <1>7, <1>8

\* Duplicates stay backed.
LEMMA BackedInv == IInv /\ Backed /\ [Next]_vars => Backed'
<1> SUFFICES ASSUME IInv, Backed, [Next]_vars PROVE Backed'
  OBVIOUS
<1> USE DEF IInv
<1>1. ASSUME NEW r \in Request, RequestStep(r) \/ RollbackRequest(r) PROVE Backed'
  <2> SUFFICES ASSUME NEW x \in Row, asked'[x] = "duplicate",
                      phase'[x[1]] \in {"open", "committed"}
               PROVE  \E y \in Row \ {x} : y \in Visible(x[1])' /\ Alike(x, y)
    BY DEF Backed, Alike, SameKey
  <2>1. x[1] \in Request
    BY DEF Row
  <2>2. CASE asked[x] = "duplicate"
    <3>1. phase[x[1]] \in {"open", "committed"} /\ \A y \in Visible(x[1]) : y \in Visible(x[1])'
      BY <1>1, <2>1, VisibleStays
    <3> QED BY <2>2, <3>1 DEF Backed
  <2>3. CASE asked[x] # "duplicate"
    BY <1>1, <2>3, NewDuplicate
  <2> QED BY <2>2, <2>3
<1>2. ASSUME UNCHANGED <<phase, asked>>, \A x \in Row : outbox'[x].stage = outbox[x].stage
      PROVE  Backed'
  BY <1>2 DEF Backed, Visible, Committed, Inserted, Alike, SameKey
<1>3. CASE OtherStep
  BY <1>2, <1>3, OtherStepStages
<1>4. CASE UNCHANGED vars
  BY <1>2, <1>4 DEF vars
<1> QED BY <1>1, <1>3, <1>4 DEF Next, OtherStep, DrainNothing

\* Whatever requests check, drop, roll back and commit: a message dropped as a
\* duplicate by a request that committed has a published row in its place.
THEOREM NoDuplicateIsLost == Spec => []NoMailLost
<1>1. Init => Backed
  BY DEF Init, Backed
<1>2. IInv /\ Backed => NoMailLost
  <2> SUFFICES ASSUME IInv, Backed, NEW x \in Row,
                      phase[x[1]] = "committed", asked[x] = "duplicate"
               PROVE  \E y \in Row \ {x} : Committed(y) /\ (SameKey(x, y) \/ Text(x) = Text(y))
    BY DEF NoMailLost
  <2>1. PICK y \in Row \ {x} : y \in Visible(x[1]) /\ Alike(x, y)
    BY DEF Backed
  <2>2. Committed(y)
    BY <2>1 DEF IInv, Follows, Visible, Committed, Inserted
  <2> QED BY <2>1, <2>2 DEF Alike
<1> QED BY <1>1, <1>2, BackedInv, IInvHolds, PTL DEF Spec
-----------------------------------------------------------------------------
(* Attempts.  AttemptsBounded is about rows two kinds of session write: a   *)
(* drain what its image says, a retry what it read.  The lock ties the      *)
(* image to the row.  Nothing ties what a retry read to the row but that no *)
(* other retry works on it, and without that the bound fails: a retry that  *)
(* read a row as Skipped and unattempted puts it back without touching its  *)
(* attempts, although another retry and a drain used them up meanwhile.     *)

\* No two administrators have a retry of the same row in flight.
RetriesApart == \A a, b \in Admin : a # b => picked[a] \cap picked[b] = {}

\* What a drain will write is within the bound.
ImagesBounded ==
  \A w \in Worker : \A x \in batch[w] :
    /\ image[w][x].attempts <= MAX_ATTEMPTS
    /\ image[w][x].at = "done" /\ image[w][x].status = "Queued" =>
         image[w][x].attempts < MAX_ATTEMPTS

\* A settled row stays as a retry read it until the retry writes.
SettledAsRead ==
  \A a \in Admin : \A x \in picked[a] :
    seen[a][x].status # "Queued" =>
      /\ outbox[x].status = seen[a][x].status
      /\ outbox[x].attempts = seen[a][x].attempts

AttemptsInv == AttemptsBounded /\ ImagesBounded /\ SettledAsRead

\* The bound, of one row.
Bounded(row) ==
  /\ row.attempts <= MAX_ATTEMPTS
  /\ row.status = "Queued" => row.attempts < MAX_ATTEMPTS

\* AttemptsBounded is that every row is bounded.
LEMMA BoundedRows == AttemptsBounded <=> \A x \in Row : Bounded(outbox[x])
  BY DEF AttemptsBounded, Bounded

\* What requests insert is bounded: a queued row has no attempt behind it, a
\* row recorded after an inline send has one and is settled.
LEMMA FreshBounded ==
  /\ Bounded(NoRow) /\ Bounded(NewRow)
  /\ \A sent \in BOOLEAN :
       Bounded([NewRow EXCEPT !.stage = "inserted", !.attempts = 1,
                              !.status = IF sent THEN "Sent" ELSE "Failed"])
  BY ConstantsAssumption DEF Bounded, NewRow, NoRow

\* A change of a row's stage does not touch the bound.
LEMMA StageBounded ==
  ASSUME NEW row \in RowRec, Bounded(row), NEW s
  PROVE  Bounded([row EXCEPT !.stage = s])
  BY DEF Bounded, RowRec

\* Requests insert bounded rows and change no other.
LEMMA RequestAttempts ==
  ASSUME IInv, AttemptsInv, NEW r \in Request, RequestStep(r) \/ RollbackRequest(r)
  PROVE  AttemptsInv'
<1>0. /\ TypeOK /\ Follows /\ Claims /\ Picks
      /\ \A x \in Row : outbox[x] \in RowRec /\ Bounded(outbox[x])
  BY BoundedRows DEF IInv, TypeOK, AttemptsInv
<1>1. /\ \A x \in Row : Committed(x) => outbox'[x] = outbox[x]
      /\ UNCHANGED <<batch, image, picked, seen>>
  BY <1>0, RequestsKeepCommitted DEF drainVars, adminVars
<1>2. ImagesBounded'
  BY <1>1 DEF AttemptsInv, ImagesBounded
<1>3. SettledAsRead'
  <2>1. \A a \in Admin : \A x \in picked[a] : outbox'[x] = outbox[x]
    BY <1>0, <1>1 DEF Picks, TypeOK
  <2> QED BY <1>1, <2>1 DEF AttemptsInv, SettledAsRead
<1>4. \A x \in Row : Bounded(outbox'[x])
  <2>1. ASSUME NEW m \in Asks[r], NEW fails \in Failing, QueueEmail(r, m, fails),
               NEW x \in Row
        PROVE  Bounded(outbox'[x])
    <3>1. outbox'[x] = NewRow \/ outbox'[x] = outbox[x]
      BY <1>0, <2>1 DEF QueueEmail, TypeOK
    <3> QED BY <1>0, <3>1, FreshBounded
  <2>2. ASSUME NEW m \in Asks[r], NEW sent \in BOOLEAN, RecordInline(r, m, sent),
               NEW x \in Row
        PROVE  Bounded(outbox'[x])
    <3> DEFINE row == [NewRow EXCEPT !.stage = "inserted", !.attempts = 1,
                                     !.status = IF sent THEN "Sent" ELSE "Failed"]
    <3>1. outbox'[x] = row \/ outbox'[x] = outbox[x]
      BY <1>0, <2>2 DEF RecordInline, TypeOK
    <3>2. Bounded(row)
      BY FreshBounded
    <3> HIDE DEF row
    <3> QED BY <1>0, <3>1, <3>2
  <2>3. ASSUME NEW y \in RowsOf(r), Flush(r, y), NEW x \in Row PROVE Bounded(outbox'[x])
    <3>1. outbox'[x] = [outbox[x] EXCEPT !.stage = "inserted"] \/ outbox'[x] = outbox[x]
      BY <1>0, <2>3 DEF Flush, TypeOK
    <3> QED BY <1>0, <3>1, StageBounded
  <2>4. ASSUME NEW how, Undo(r, how), NEW x \in Row PROVE Bounded(outbox'[x])
    BY <1>0, <2>4, UndoRows, FreshBounded
  <2>5. ASSUME CommitRequest(r), NEW x \in Row PROVE Bounded(outbox'[x])
    <3>1. outbox'[x] = [outbox[x] EXCEPT !.stage = "committed"] \/ outbox'[x] = outbox[x]
      BY <2>5 DEF CommitRequest
    <3> QED BY <1>0, <3>1, StageBounded
  <2>6. ASSUME NEW m \in Asks[r], NEW sent \in BOOLEAN, RecordingFails(r, m, sent),
               NEW x \in Row
        PROVE  Bounded(outbox'[x])
    BY <1>0, <2>6 DEF RecordingFails
  <2> QED BY <2>1, <2>2, <2>3, <2>4, <2>5, <2>6
          DEF RequestStep, KeyConflict, DeadlockVictim, RollbackRequest
<1>5. AttemptsBounded'
  BY <1>4 DEF AttemptsBounded, Bounded
<1> QED BY <1>2, <1>3, <1>5 DEF AttemptsInv

\* The steps of a drain that advance its image of one claimed row.
LEMMA ImageStepBounded ==
  ASSUME TypeOK, ImagesBounded, NEW w \in Worker, NEW x \in batch[w], NEW new,
         image' = [image EXCEPT ![w][x] = new], UNCHANGED batch,
         new.attempts <= MAX_ATTEMPTS,
         new.at = "done" /\ new.status = "Queued" => new.attempts < MAX_ATTEMPTS
  PROVE  ImagesBounded'
<1>1. x \in Row
  BY DEF TypeOK
<1>2. ASSUME NEW v \in Worker, NEW y \in batch[v]
      PROVE  image'[v][y] = IF v = w /\ y = x THEN new ELSE image[v][y]
  BY <1>1, <1>2 DEF TypeOK
<1> QED BY <1>2 DEF ImagesBounded

\* A drain counts an attempt only on a row that has one left, and leaves a row
\* Queued only if one is left after it.
LEMMA DrainImages ==
  ASSUME IInv, AttemptsInv, NEW w \in Worker, DrainStep(w) \/ LoseBatch(w)
  PROVE  ImagesBounded'
<1>0. /\ TypeOK /\ Claims /\ ImagesBounded /\ MAX_ATTEMPTS \in Nat
      /\ \A x \in Row : outbox[x] \in RowRec /\ Bounded(outbox[x])
  BY BoundedRows, ConstantsAssumption DEF IInv, TypeOK, AttemptsInv
<1>a. \A x \in batch[w] : x \in Row /\ image[w][x] \in Work /\ image[w][x].attempts \in Nat
  BY <1>0 DEF TypeOK, Work
<1>1. ASSUME NEW S \in SUBSET Claimable, NEW fails, Claim(w, S, fails) PROVE ImagesBounded'
  <2>1. ASSUME NEW x \in S
        PROVE  image'[w][x].at = "claimed" /\ image'[w][x].attempts = outbox[x].attempts
    <3>1. x \in Row
      BY DEF Claimable
    <3>2. image'[w][x] = [at |-> "claimed", status |-> outbox[x].status,
                          attempts |-> outbox[x].attempts]
      BY <1>0, <1>1, <3>1 DEF Claim, TypeOK
    <3> QED BY <3>2
  <2>2. \A x \in S : outbox[x].attempts <= MAX_ATTEMPTS
    BY <1>0 DEF Claimable, Bounded
  <2>3. batch' = [batch EXCEPT ![w] = S] /\ \A v \in Worker : v # w => image'[v] = image[v]
    BY <1>0, <1>1 DEF Claim, TypeOK
  <2> QED BY <1>0, <2>1, <2>2, <2>3 DEF ImagesBounded, TypeOK
<1>2. ASSUME NEW x \in batch[w], NEW s, Outcome(w, x, s), UNCHANGED batch,
             s = "Queued" => image[w][x].attempts < MAX_ATTEMPTS
      PROVE  ImagesBounded'
  <2> DEFINE new == [at |-> "done", status |-> s, attempts |-> image[w][x].attempts]
  <2>1. /\ new.attempts <= MAX_ATTEMPTS
        /\ new.at = "done" /\ new.status = "Queued" => new.attempts < MAX_ATTEMPTS
    BY <1>0, <1>2 DEF ImagesBounded
  <2>2. image' = [image EXCEPT ![w][x] = new]
    BY <1>2 DEF Outcome
  <2> HIDE DEF new
  <2> QED BY <1>0, <1>2, <2>1, <2>2, ImageStepBounded
<1>3. ASSUME NEW x \in batch[w], NEW fails, StartSend(w, x, fails) PROVE ImagesBounded'
  <2> DEFINE new == [at |-> "sending", status |-> image[w][x].status,
                     attempts |-> image[w][x].attempts + 1]
  <2>1. image[w][x].attempts = outbox[x].attempts /\ outbox[x].attempts < MAX_ATTEMPTS
    BY <1>0, <1>a, <1>3 DEF StartSend, Claims, Bounded
  <2>2. new.attempts <= MAX_ATTEMPTS /\ new.at = "sending"
    BY <1>0, <1>a, <2>1
  <2>3. image' = [image EXCEPT ![w][x] = new] /\ UNCHANGED batch
    BY <1>3 DEF StartSend
  <2> HIDE DEF new
  <2> QED BY <1>0, <2>2, <2>3, ImageStepBounded
<1>4. ASSUME NEW x \in batch[w], NEW fails, Suppress(w, x, fails) PROVE ImagesBounded'
  BY <1>2, <1>4 DEF Suppress
<1>5. ASSUME NEW x \in batch[w], SendOk(w, x) PROVE ImagesBounded'
  BY <1>2, <1>5 DEF SendOk
<1>6. ASSUME NEW x \in batch[w], NEW accepted, SendError(w, x, accepted)
      PROVE  ImagesBounded'
  <2> DEFINE s == IF GivesUp(image[w][x].attempts) THEN "Failed" ELSE "Queued"
  <2>1. s = "Queued" => image[w][x].attempts < MAX_ATTEMPTS
    BY <1>0, <1>a DEF GivesUp
  <2>2. Outcome(w, x, s) /\ UNCHANGED batch
    BY <1>6 DEF SendError
  <2> HIDE DEF s
  <2> QED BY <1>2, <2>1, <2>2
<1>7. ASSUME CommitBatch(w) \/ LoseBatch(w) PROVE ImagesBounded'
  <2>1. \A v \in Worker : /\ batch'[v] = IF v = w THEN {} ELSE batch[v]
                          /\ v # w => image'[v] = image[v]
    BY <1>0, <1>7 DEF CommitBatch, LoseBatch, ReleasedByCrash, TypeOK
  <2> QED BY <1>0, <2>1 DEF ImagesBounded
<1> QED BY <1>1, <1>3, <1>4, <1>5, <1>6, <1>7 DEF DrainStep

\* A drain commits what its image says, to rows no retry has read as settled.
LEMMA DrainAttempts ==
  ASSUME IInv, AttemptsInv, NEW w \in Worker, DrainStep(w) \/ LoseBatch(w)
  PROVE  AttemptsInv'
<1>0. /\ TypeOK /\ Claims /\ Picks /\ ImagesBounded /\ SettledAsRead
      /\ \A x \in Row : outbox[x] \in RowRec /\ Bounded(outbox[x])
  BY BoundedRows DEF IInv, TypeOK, AttemptsInv
<1>1. ImagesBounded'
  BY DrainImages
<1>2. CASE UNCHANGED <<outbox, picked, seen>>
  BY <1>1, <1>2 DEF AttemptsInv, AttemptsBounded, SettledAsRead
<1>3. CASE CommitBatch(w)
  <2>1. UNCHANGED <<picked, seen>> /\ \A x \in batch[w] : image[w][x].at = "done"
    BY <1>3 DEF CommitBatch, adminVars
  <2>2. \A x \in Row : x \notin batch[w] => outbox'[x] = outbox[x]
    BY <1>3 DEF CommitBatch
  <2>3. ASSUME NEW x \in batch[w] PROVE Bounded(outbox'[x])
    <3>1. x \in Row /\ outbox[x] \in RowRec
      BY <1>0 DEF TypeOK
    <3>2. /\ outbox'[x].attempts = image[w][x].attempts
          /\ outbox'[x].status = image[w][x].status
      BY <1>3, <3>1 DEF CommitBatch, Write, RowRec
    <3> QED BY <1>0, <2>1, <3>2 DEF ImagesBounded, Bounded
  <2>4. AttemptsBounded'
    BY <1>0, <2>2, <2>3 DEF AttemptsBounded, Bounded
  <2>5. SettledAsRead'
    <3>1. ASSUME NEW a \in Admin, NEW x \in picked[a], seen[a][x].status # "Queued"
          PROVE  outbox'[x] = outbox[x]
      <4>1. outbox[x].status # "Queued" /\ x \in Row
        BY <1>0, <3>1 DEF SettledAsRead, TypeOK
      <4>2. x \notin batch[w]
        BY <1>0, <4>1 DEF Claims
      <4> QED BY <2>2, <4>1, <4>2
    <3> QED BY <1>0, <2>1, <3>1 DEF SettledAsRead
  <2> QED BY <1>1, <2>4, <2>5 DEF AttemptsInv
<1>4. CommitBatch(w) \/ UNCHANGED <<outbox, picked, seen>>
  BY DEF DrainStep, Claim, Suppress, StartSend, SendOk, SendError, LoseBatch, adminVars
<1> QED BY <1>2, <1>3, <1>4

\* What a retry writes to one row is bounded: the attempts are reset, or the
\* row keeps the status and the attempts it has, or it was read, and still is,
\* settled and unattempted.
LEMMA RetryBounded ==
  ASSUME NEW row \in RowRec, Bounded(row), NEW read \in Columns,
         read.status # "Queued" => row.attempts = read.attempts,
         NEW due \in BOOLEAN
  PROVE  Bounded(Write(row, IF read.status = "Queued" THEN row.status ELSE "Queued",
                            IF read.attempts = 0 THEN row.attempts ELSE 0, due))
<1> DEFINE status == IF read.status = "Queued" THEN row.status ELSE "Queued"
           attempts == IF read.attempts = 0 THEN row.attempts ELSE 0
           new == Write(row, status, attempts, due)
<1>1. new.status = status /\ new.attempts = attempts
  BY DEF Write, RowRec
<1>2. MAX_ATTEMPTS \in Nat \ {0} /\ row.attempts \in Nat /\ read.attempts \in Nat
  BY ConstantsAssumption DEF RowRec, Columns
<1>3. attempts <= MAX_ATTEMPTS
  BY <1>2 DEF Bounded
<1>4. status = "Queued" => attempts < MAX_ATTEMPTS
  BY <1>2 DEF Bounded
<1> HIDE DEF new, status, attempts
<1>5. Bounded(new)
  BY <1>1, <1>3, <1>4 DEF Bounded
<1> QED BY <1>5 DEF new, status, attempts

\* Administrators, switches and time keep the bound while retries are apart.
LEMMA RestAttempts ==
  ASSUME IInv, AttemptsInv, RetriesApart, RestStep
  PROVE  AttemptsInv'
<1>0. /\ TypeOK /\ Claims /\ Picks /\ ImagesBounded /\ SettledAsRead
      /\ \A x \in Row : outbox[x] \in RowRec /\ Bounded(outbox[x])
  BY BoundedRows DEF IInv, TypeOK, AttemptsInv
<1>1. UNCHANGED <<batch, image>> => ImagesBounded'
  BY <1>0 DEF ImagesBounded
<1>2. ASSUME NEW a \in Admin, NEW S \in SUBSET Row, RetryRead(a, S) PROVE AttemptsInv'
  <2>1. UNCHANGED <<outbox, batch, image>>
    BY <1>2 DEF RetryRead, drainVars
  <2>2. ASSUME NEW b \in Admin, NEW x \in picked'[b], seen'[b][x].status # "Queued"
        PROVE  outbox[x].status = seen'[b][x].status /\ outbox[x].attempts = seen'[b][x].attempts
    <3>1. CASE b = a
      <4>1. x \in S
        BY <1>0, <1>2, <2>2, <3>1 DEF RetryRead, TypeOK
      <4>2. seen'[b][x] = [status |-> outbox[x].status, attempts |-> outbox[x].attempts]
        BY <1>0, <1>2, <3>1, <4>1 DEF RetryRead, TypeOK
      <4> QED BY <4>2
    <3>2. CASE b # a
      <4>1. x \in picked[b] /\ seen'[b] = seen[b]
        BY <1>0, <1>2, <2>2, <3>2 DEF RetryRead, TypeOK
      <4> QED BY <1>0, <2>2, <4>1 DEF SettledAsRead
    <3> QED BY <3>1, <3>2
  <2>3. SettledAsRead'
    BY <2>1, <2>2 DEF SettledAsRead
  <2> QED BY <1>1, <2>1, <2>3 DEF AttemptsInv, AttemptsBounded
<1>3. ASSUME NEW a \in Admin, RetryWrite(a) PROVE AttemptsInv'
  <2>1. \A x \in Row : x \notin picked[a] => outbox'[x] = outbox[x]
    BY <1>3 DEF RetryWrite
  <2>2. ASSUME NEW x \in picked[a] PROVE Bounded(outbox'[x])
    <3>1. x \in Row /\ outbox[x] \in RowRec /\ seen[a][x] \in Columns /\ Bounded(outbox[x])
      BY <1>0 DEF TypeOK
    <3>2. outbox'[x] = Write(outbox[x],
                  IF seen[a][x].status = "Queued" THEN outbox[x].status ELSE "Queued",
                  IF seen[a][x].attempts = 0 THEN outbox[x].attempts ELSE 0, TRUE)
      BY <1>3, <3>1 DEF RetryWrite
    <3>3. seen[a][x].status # "Queued" => outbox[x].attempts = seen[a][x].attempts
      BY <1>0 DEF SettledAsRead
    <3> QED BY <3>1, <3>2, <3>3, RetryBounded
  <2>3. \A x \in Row : Bounded(outbox'[x])
    BY <1>0, <2>1, <2>2
  <2>4. SettledAsRead'
    <3>1. ASSUME NEW b \in Admin, NEW x \in picked'[b]
          PROVE  /\ x \in picked[b] /\ seen'[b] = seen[b] /\ outbox'[x] = outbox[x]
      <4>1. b # a /\ picked'[b] = picked[b] /\ seen'[b] = seen[b] /\ x \in Row
        BY <1>0, <1>3, <3>1 DEF RetryWrite, TypeOK
      <4>2. x \notin picked[a]
        BY <3>1, <4>1 DEF RetriesApart
      <4> QED BY <2>1, <3>1, <4>1, <4>2
    <3> QED BY <1>0, <3>1 DEF SettledAsRead
  <2>5. UNCHANGED <<batch, image>>
    BY <1>3 DEF RetryWrite, drainVars
  <2>6. AttemptsBounded'
    BY <2>3 DEF AttemptsBounded, Bounded
  <2> QED BY <1>1, <2>4, <2>5, <2>6 DEF AttemptsInv
<1>4. ASSUME NEW a \in Admin, AdminStep(a) PROVE AttemptsInv'
  <2>1. CASE \E x \in Row : RetryOne(a, x)
    BY <1>2, <2>1 DEF RetryOne
  <2>2. CASE RetryAllFailed(a)
    BY <1>2, <2>2 DEF RetryAllFailed
  <2> QED BY <1>3, <1>4, <2>1, <2>2 DEF AdminStep
<1>5. ASSUME NEW e \in Event \cup {Master}, Toggle(e) PROVE AttemptsInv'
  BY <1>1, <1>5 DEF Toggle, AttemptsInv, AttemptsBounded, SettledAsRead, drainVars, adminVars
<1>6. ASSUME NEW x \in Row, BackoffPasses(x) \/ WindowPasses(x) PROVE AttemptsInv'
  <2>1. UNCHANGED <<batch, image, picked, seen>>
    BY <1>6 DEF BackoffPasses, WindowPasses, drainVars, adminVars
  <2>2. AttemptsBounded'
    BY <1>0, <1>6, ClockRows DEF AttemptsInv, AttemptsBounded
  <2>3. SettledAsRead'
    <3>1. \A a \in Admin : picked[a] \subseteq Row
      BY <1>0 DEF TypeOK
    <3> QED BY <1>0, <1>6, <2>1, <3>1, ClockRows DEF SettledAsRead
  <2> QED BY <1>1, <2>1, <2>2, <2>3 DEF AttemptsInv
<1> QED BY <1>4, <1>5, <1>6 DEF RestStep

\* While retries are apart every step keeps the bound.
LEMMA NextAttempts == IInv /\ AttemptsInv /\ RetriesApart /\ [Next]_vars => AttemptsInv'
<1> SUFFICES ASSUME IInv, AttemptsInv, RetriesApart, [Next]_vars PROVE AttemptsInv'
  OBVIOUS
<1>1. UNCHANGED vars => AttemptsInv'
  BY DEF vars, AttemptsInv, AttemptsBounded, ImagesBounded, SettledAsRead
<1> QED BY <1>1, RequestAttempts, DrainAttempts, RestAttempts
        DEF Next, RestStep, DrainNothing

\* Nothing is attempted at first.
LEMMA InitAttempts == Init => AttemptsInv
<1>1. Init => AttemptsBounded
  BY ConstantsAssumption DEF Init, AttemptsBounded, NoRow
<1> QED BY <1>1 DEF Init, AttemptsInv, ImagesBounded, SettledAsRead

\* As long as no two administrators retry one row at once, no row is attempted
\* more than MAX_ATTEMPTS times between two resets and a Queued row has an
\* attempt left: whatever drains crash, whatever switches mute and however
\* stale the reads of the retries are.
THEOREM AttemptsAreBounded == Spec /\ []RetriesApart => []AttemptsBounded
<1>1. AttemptsInv => AttemptsBounded
  BY DEF AttemptsInv
<1> QED BY <1>1, InitAttempts, NextAttempts, IInvHolds, PTL DEF Spec

\* With one administrator the bound holds unconditionally: it takes two to
\* break it.
THEOREM OneAdministratorSuffices ==
  ASSUME \A a, b \in Admin : a = b
  PROVE  Spec => []AttemptsBounded
<1>1. RetriesApart
  BY DEF RetriesApart
<1>2. []RetriesApart
  BY <1>1, PTL
<1> QED BY <1>2, AttemptsAreBounded, PTL
-----------------------------------------------------------------------------
(* When a notification cannot fail the action that triggered it.  The       *)
(* docstring of queue_email promises that it never does; OutboxConflict     *)
(* shows it can.  Two things are to blame and no third: a lookup that       *)
(* failed, and two transactions that hold one key uncommitted at once.      *)

\* No two transactions hold uncommitted rows with one dedupe key.
Uncommitted(x) == outbox[x].stage \in {"pending", "inserted"}
KeysApart ==
  \A x, y \in Row : SameKey(x, y) /\ x[1] # y[1] => ~(Uncommitted(x) /\ Uncommitted(y))

\* A request has at most one row that is not flushed, and that row clashes with
\* none in the table.
OneDraft == \A x, y \in Row : Pending(x) /\ Pending(y) /\ x[1] = y[1] => x = y
NoTwin == \A x, y \in Row : Pending(x) /\ Held(y) => ~SameKey(x, y)

\* SameKey is symmetric.
LEMMA SameKeySymmetric == ASSUME NEW x, NEW y, SameKey(x, y) PROVE SameKey(y, x)
  BY DEF SameKey

\* A step that makes no row pending and puts no row into the table keeps both.
LEMMA DraftsFade ==
  ASSUME OneDraft, NoTwin,
         \A x \in Row : (Pending(x)' => Pending(x)) /\ (Held(x)' => Held(x))
  PROVE  OneDraft' /\ NoTwin'
  BY DEF OneDraft, NoTwin, SameKey

\* Requests queue a row only after they looked for its twin, and flush it
\* before they queue the next.
LEMMA RequestTwins ==
  ASSUME LookupFails = {FALSE}, IInv, OneDraft, NoTwin, KeysApart, KeysApart',
         NEW r \in Request, RequestStep(r) \/ RollbackRequest(r)
  PROVE  OneDraft' /\ NoTwin'
<1>0. TypeOK /\ Follows /\ \A x \in Row : outbox[x] \in RowRec
  BY DEF IInv, TypeOK
<1>1. ASSUME NEW m \in Asks[r], NEW fails \in Failing, QueueEmail(r, m, fails)
      PROVE  OneDraft' /\ NoTwin'
  <2> DEFINE z == <<r, m>>
  <2>1. z \in Row /\ z[1] = r /\ Key(z) = KeyOf[m] /\ fails = {}
    BY <1>1, RowOfRequest DEF Key, Failing
  <2>2. CASE asked'[z] = "queued"
    <3>1. /\ Flushed(r) /\ ~Duplicate(r, m, fails) /\ outbox' = [outbox EXCEPT ![z] = NewRow]
      BY <1>0, <1>1, <2>1, <2>2 DEF QueueEmail, TypeOK
    <3>2. /\ outbox'[z].stage = "pending"
          /\ \A y \in Row : y # z => outbox'[y] = outbox[y]
      BY <1>0, <2>1, <3>1 DEF TypeOK, NewRow, NoRow
    <3>3. OneDraft'
      BY <2>1, <3>1, <3>2 DEF OneDraft, Pending, Flushed, RowsOf
    <3>4. ASSUME NEW y \in Row, y # z, Held(y) PROVE ~SameKey(z, y)
      <4>1. CASE y \in Visible(r)
        BY <2>1, <3>1, <4>1 DEF Duplicate, KeyKnown, SameKey
      <4>2. CASE y \notin Visible(r)
        <5>1. outbox'[y].stage = "inserted" /\ y[1] # r
          BY <3>2, <3>4, <4>2 DEF Visible, Held, Committed, Inserted
        <5>2. Uncommitted(y)' /\ Uncommitted(z)'
          BY <3>2, <5>1 DEF Uncommitted
        <5>3. SameKey(z, y)' <=> SameKey(z, y)
          BY DEF SameKey
        <5> QED BY <2>1, <3>4, <5>1, <5>2, <5>3 DEF KeysApart
      <4> QED BY <4>1, <4>2
    <3>5. NoTwin'
      <4> SUFFICES ASSUME NEW x \in Row, NEW y \in Row, Pending(x)', Held(y)', SameKey(x, y)
                   PROVE  FALSE
        BY DEF NoTwin, SameKey
      <4>1. y # z /\ x # y
        BY <3>2 DEF Held, SameKey
      <4>2. Held(y)
        BY <3>2, <4>1 DEF Held
      <4>3. x # z
        BY <3>4, <4>1, <4>2
      <4> QED BY <3>2, <4>2, <4>3 DEF NoTwin, Pending
    <3> QED BY <3>3, <3>5
  <2>3. CASE asked'[z] # "queued"
    <3>1. outbox' = outbox
      BY <1>1, <2>3 DEF QueueEmail
    <3> QED BY <3>1, DraftsFade DEF Pending, Held
  <2> QED BY <2>2, <2>3
<1>2. ASSUME NEW m \in Asks[r], NEW sent \in BOOLEAN, RecordInline(r, m, sent)
      PROVE  OneDraft' /\ NoTwin'
  <2> DEFINE z == <<r, m>>
  <2>1. z \in Row /\ Key(z) = NoKey
    BY <1>2, RowOfRequest, ConstantsAssumption DEF Key, RecordInline
  <2>2. /\ outbox'[z].stage = "inserted"
        /\ \A y \in Row : y # z => outbox'[y] = outbox[y]
    BY <1>0, <1>2, <2>1 DEF RecordInline, TypeOK, NewRow, NoRow
  <2>3. OneDraft'
    BY <2>2 DEF OneDraft, Pending
  <2>4. \A x \in Row : ~SameKey(x, z) /\ ~SameKey(z, x)
    BY <2>1 DEF SameKey
  <2>5. NoTwin'
    <3> SUFFICES ASSUME NEW x \in Row, NEW y \in Row, Pending(x)', Held(y)', SameKey(x, y)
                 PROVE  FALSE
      BY DEF NoTwin, SameKey
    <3>1. x # z /\ y # z
      BY <2>4
    <3> QED BY <2>2, <3>1 DEF NoTwin, Pending, Held
  <2> QED BY <2>3, <2>5
<1>3. ASSUME NEW z \in RowsOf(r), Flush(r, z) PROVE OneDraft' /\ NoTwin'
  <2>1. z \in Row /\ z[1] = r /\ Pending(z)
    BY <1>3 DEF RowsOf, Flush
  <2>2. /\ outbox'[z].stage = "inserted"
        /\ \A y \in Row : y # z => outbox'[y] = outbox[y]
    BY <1>0, <1>3, <2>1 DEF Flush, TypeOK, RowRec
  <2>3. OneDraft'
    BY <2>2 DEF OneDraft, Pending
  <2>4. NoTwin'
    <3> SUFFICES ASSUME NEW x \in Row, NEW y \in Row, Pending(x)', Held(y)', SameKey(x, y)
                 PROVE  FALSE
      BY DEF NoTwin, SameKey
    <3>1. x # z /\ Pending(x)
      BY <2>2 DEF Pending
    <3>2. CASE y # z
      BY <2>2, <3>1, <3>2 DEF NoTwin, Held
    <3>3. CASE y = z
      <4>1. x[1] # r
        BY <2>1, <3>1 DEF OneDraft
      <4>2. Uncommitted(x) /\ Uncommitted(z)
        BY <2>1, <3>1 DEF Uncommitted, Pending
      <4> QED BY <2>1, <3>3, <4>1, <4>2 DEF KeysApart
    <3> QED BY <3>2, <3>3
  <2> QED BY <2>3, <2>4
<1>4. ASSUME NEW how, Undo(r, how) PROVE OneDraft' /\ NoTwin'
  <2>1. \A x \in Row : outbox'[x] = NoRow \/ outbox'[x] = outbox[x]
    BY <1>0, <1>4, UndoRows
  <2> QED BY <2>1, DraftsFade DEF Pending, Held, NoRow
<1>5. ASSUME CommitRequest(r) PROVE OneDraft' /\ NoTwin'
  <2>1. \A x \in Row : (Pending(x)' => Pending(x)) /\ (Held(x)' => Held(x))
    BY <1>0, <1>5 DEF CommitRequest, Pending, Held, Inserted, RowRec
  <2> QED BY <2>1, DraftsFade
<1>6. ASSUME NEW m \in Asks[r], NEW sent \in BOOLEAN, RecordingFails(r, m, sent)
      PROVE  FALSE
  BY <1>6 DEF RecordingFails
<1> QED BY <1>1, <1>2, <1>3, <1>4, <1>5, <1>6
        DEF RequestStep, KeyConflict, DeadlockVictim, RollbackRequest

\* Nothing but a request touches drafts.
LEMMA NextTwins ==
  ASSUME LookupFails = {FALSE}, IInv, OneDraft, NoTwin, KeysApart, KeysApart', [Next]_vars
  PROVE  OneDraft' /\ NoTwin'
<1>1. CASE OtherStep
  <2>1. \A x \in Row : outbox'[x].stage = outbox[x].stage
    BY <1>1, OtherStepStages DEF IInv
  <2> QED BY <2>1, DraftsFade DEF Pending, Held
<1>2. CASE UNCHANGED vars
  BY <1>2, DraftsFade DEF vars, Pending, Held
<1> QED BY <1>1, <1>2, RequestTwins DEF Next, OtherStep, DrainNothing

\* With no twin about, neither the index nor the deadlock detector fails a
\* request.
LEMMA NextNoConflict ==
  ASSUME IInv, NoTwin, KeysApart, NotificationNeverFailsAction, [Next]_vars
  PROVE  NotificationNeverFailsAction'
<1>0. TypeOK
  BY DEF IInv
<1>1. ASSUME NEW r \in Request, NEW x \in RowsOf(r), KeyConflict(r, x) PROVE FALSE
  <2>1. PICK y \in Visible(r) : SameKey(x, y)
    BY <1>1 DEF KeyConflict
  <2>2. y \in Row /\ Held(y) /\ x \in Row /\ Pending(x)
    BY <1>1 DEF Visible, Held, Committed, Inserted, RowsOf, KeyConflict
  <2> QED BY <2>1, <2>2 DEF NoTwin
<1>2. ASSUME NEW r \in Request, DeadlockVictim(r) PROVE FALSE
  <2>1. PICK s \in Request, t \in Request : WaitsFor(s, t)
    BY <1>2 DEF DeadlockVictim, InWaitCycle
  <2>2. PICK x \in RowsOf(s), y \in RowsOf(t) : Pending(x) /\ Inserted(y) /\ SameKey(x, y)
    BY <2>1 DEF WaitsFor
  <2>3. x \in Row /\ y \in Row /\ x[1] # y[1] /\ Uncommitted(x) /\ Uncommitted(y)
    BY <2>1, <2>2 DEF WaitsFor, RowsOf, Uncommitted, Pending, Inserted
  <2> QED BY <2>2, <2>3 DEF KeysApart
<1>3. ASSUME NEW r \in Request, RollbackRequest(r) PROVE NotificationNeverFailsAction'
  BY <1>0, <1>3 DEF RollbackRequest, Undo, NotificationNeverFailsAction, TypeOK
<1>4. ASSUME NEW r \in Request, RequestStep(r) PROVE NotificationNeverFailsAction'
  <2>1. CASE CommitRequest(r)
    BY <1>0, <2>1 DEF CommitRequest, NotificationNeverFailsAction, TypeOK
  <2>2. CASE UNCHANGED phase
    BY <2>2 DEF NotificationNeverFailsAction
  <2>3. CommitRequest(r) \/ UNCHANGED phase
    BY <1>1, <1>2, <1>4 DEF RequestStep, QueueEmail, RecordInline, RecordingFails, Flush,
       requestVars
  <2> QED BY <2>1, <2>2, <2>3
<1>5. CASE OtherStep
  BY <1>0, <1>5, OtherStepStages DEF NotificationNeverFailsAction
<1>6. CASE UNCHANGED vars
  BY <1>6 DEF vars, NotificationNeverFailsAction
<1> QED BY <1>3, <1>4, <1>5, <1>6 DEF Next, OtherStep, DrainNothing

\* As long as every lookup answers and no two transactions hold one dedupe key
\* uncommitted at once, queueing mail fails no business request: not for a key
\* committed at any time before, not for repeats within one request, and not by
\* deadlock.
THEOREM QueueingIsHarmless ==
  ASSUME LookupFails = {FALSE}
  PROVE  Spec /\ []KeysApart => []NotificationNeverFailsAction
<1>1. Init => OneDraft /\ NoTwin /\ NotificationNeverFailsAction
  <2>1. Init => \A x \in Row : outbox[x].stage = "none"
    BY DEF Init, NoRow
  <2> QED BY <2>1 DEF Init, OneDraft, NoTwin, Pending, Held, NotificationNeverFailsAction
<1>2. IInv /\ OneDraft /\ NoTwin /\ KeysApart /\ KeysApart' /\ [Next]_vars
        => OneDraft' /\ NoTwin'
  BY NextTwins
<1>3. IInv /\ NoTwin /\ KeysApart /\ NotificationNeverFailsAction /\ [Next]_vars
        => NotificationNeverFailsAction'
  BY NextNoConflict
<1> QED BY <1>1, <1>2, <1>3, IInvHolds, PTL DEF Spec
=============================================================================
