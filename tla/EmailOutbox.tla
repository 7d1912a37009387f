------------------------------ MODULE EmailOutbox ------------------------------
(***************************************************************************)
(* The durable outbox of notification mail                                 *)
(* (backend/services/email_outbox.py, routers/crm/email_outbox.py).        *)
(*                                                                         *)
(* Business requests insert rows into email_outbox inside their own        *)
(* PostgreSQL transaction (READ COMMITTED).  Draining sessions - the       *)
(* daemon thread of each server process and the inline drains of the admin *)
(* console - claim due rows with FOR UPDATE SKIP LOCKED, send them over    *)
(* SMTP and write all outcomes in ONE commit.  Administrators requeue rows *)
(* with an unlocked read followed by a write.                              *)
(*                                                                         *)
(* Abstractions.  A mail is a model value with its dedupe key, its text    *)
(* (recipient and final subject) and its event.  Clock time is two flags   *)
(* of a row: due (next_attempt_at has passed) and recent (created less     *)
(* than REPEAT_WINDOW_MINUTES ago).  ORDER BY next_attempt_at is not kept: *)
(* a claim takes any due rows, which includes the order of the code.       *)
(***************************************************************************)
EXTENDS Naturals, FiniteSets

CONSTANTS
  Request,        \* business transactions
  Mail,           \* the messages requests ask for
  Asks,           \* Asks[r]: the messages request r queues, in any order
  Inline,         \* messages sent over SMTP by the request itself (.ics invites)
  NeverCollapse,  \* messages whose event is in NEVER_COLLAPSE_EVENTS
  KeyOf, NoKey,   \* KeyOf[m]: dedupe_key of m, NoKey when it has none
  TextOf,         \* TextOf[m]: recipient and subject of m
  EventOf,        \* EventOf[m]: the event whose switch can mute m
  Event, Master,  \* the event switches and the master switch
  Worker,         \* sessions that run drain_once
  Admin,          \* administrators on the outbox console
  MAX_ATTEMPTS,   \* attempts before a row is given up
  Limit,          \* rows one drain claims at most
  LookupFails     \* {FALSE}, or BOOLEAN when a statement on a savepoint may fail

CONSTANTS         \* bounds of what the environment does
  MaxLost,        \* batches lost to a crash or a failed commit
  MaxAmbiguous,   \* sends reported as failed although the mail was accepted
  MaxToggles,     \* flips of a switch
  MaxRetries      \* retry requests of administrators

Row == {x \in Request \X Mail : x[2] \in Asks[x[1]]}
Key(x) == KeyOf[x[2]]
Text(x) == TextOf[x[2]]
RowsOf(r) == {x \in Row : x[1] = r}

ASSUME ConstantsAssumption ==
  /\ Asks \in [Request -> SUBSET Mail]
  /\ Inline \subseteq Mail /\ NeverCollapse \subseteq Mail
  /\ EventOf \in [Mail -> Event] /\ Master \notin Event
  /\ \A m \in Inline : KeyOf[m] = NoKey
  /\ MAX_ATTEMPTS \in Nat \ {0} /\ Limit \in Nat \ {0}
  /\ LookupFails \subseteq BOOLEAN /\ LookupFails # {}
  /\ {MaxLost, MaxAmbiguous, MaxToggles, MaxRetries} \subseteq Nat

VARIABLES
  phase,      \* phase[r]: where the business transaction of r stands
  asked,      \* asked[x]: what queue_email did with the message of row x
  outbox,     \* outbox[x]: the table row, or the uncommitted row of its request
  switch,     \* app_settings: the master switch and the event switches
  batch,      \* batch[w]: the rows w has locked
  image,      \* image[w][x]: what w will write for x when it commits
  masterOn,   \* masterOn[w]: the master switch as w read it for its batch
  picked,     \* picked[a]: rows an administrator's request has read
  seen,       \* seen[a][x]: the column values that request read
  delivered,  \* delivered[x]: times the mail of x was accepted by SMTP (history)
  excused,    \* excused[x]: deliveries the system lost track of (history)
  used        \* what the environment has used of its bounds

requestVars == <<phase, asked>>
drainVars   == <<batch, image, masterOn>>
adminVars   == <<picked, seen>>
history     == <<delivered, excused>>
vars == <<phase, asked, outbox, switch, batch, image, masterOn, picked, seen,
          delivered, excused, used>>

Status  == {"Queued", "Sent", "Failed", "Skipped"}
Settled == {"Sent", "Failed", "Skipped"}
Stage   == {"none", "pending", "inserted", "committed"}

RowRec  == [stage : Stage, status : Status, attempts : Nat,
            due : BOOLEAN, recent : BOOLEAN]
NoRow   == [stage |-> "none", status |-> "Queued", attempts |-> 0,
            due |-> FALSE, recent |-> FALSE]
\* Mutant: the row is inserted on a session of its own, which commits at once.
OwnSessionRow == [NoRow EXCEPT !.stage = "committed", !.due = TRUE, !.recent = TRUE]
\* Mutant: the status column gets a value outside the enum.
UnknownStatusRow == [NoRow EXCEPT !.stage = "pending", !.status = "Pending",
                                  !.due = TRUE, !.recent = TRUE]
NewRow  == [NoRow EXCEPT !.stage = "pending", !.due = TRUE, !.recent = TRUE]
\* The columns a drain or a retry writes.
Write(row, status, attempts, due) ==
  [row EXCEPT !.status = status, !.attempts = attempts, !.due = due]
Columns == [status : Status, attempts : Nat]
Blank   == [status |-> "Queued", attempts |-> 0]
At      == {"idle", "claimed", "sending", "done"}
Work    == [at : At, status : Status, attempts : Nat]
NoWork  == [at |-> "idle", status |-> "Queued", attempts |-> 0]

Budget  == [lost : Nat, ambiguous : Nat, toggles : Nat, retries : Nat]

Committed(x) == outbox[x].stage = "committed"
Inserted(x)  == outbox[x].stage = "inserted"
Pending(x)   == outbox[x].stage = "pending"

Init ==
  /\ phase = [r \in Request |-> "open"]
  /\ asked = [x \in Row |-> "todo"]
  /\ outbox = [x \in Row |-> NoRow]
  /\ switch = [e \in Event \cup {Master} |-> TRUE]
  /\ batch = [w \in Worker |-> {}]
  /\ image = [w \in Worker |-> [x \in Row |-> NoWork]]
  /\ masterOn = [w \in Worker |-> TRUE]
  /\ picked = [a \in Admin |-> {}]
  /\ seen = [a \in Admin |-> [x \in Row |-> Blank]]
  /\ delivered = [x \in Row |-> 0]
  /\ excused = [x \in Row |-> 0]
  /\ used = [lost |-> 0, ambiguous |-> 0, toggles |-> 0, retries |-> 0]

-----------------------------------------------------------------------------
(* Lookups: every one runs on a savepoint; a failed one answers None, which *)
(* the callers read as "enabled", "no such key" and "not a repeat".         *)

Enabled(e, fails) == fails \/ switch[e]

\* fails: which of the lookups that queue one message fail, each on its own.
Lookup == {"master", "event", "key", "repeat"}
Failing == {fails \in SUBSET Lookup : fails = {} \/ TRUE \in LookupFails}

Muted(m, fails) ==
  ~ Enabled(Master, "master" \in fails) \/ ~ Enabled(EventOf[m], "event" \in fails)

\* Mutant: the lookups also see rows other requests have not committed.
DirtyRead(r) == {y \in Row : Committed(y) \/ Inserted(y)}
\* Rows a statement of request r reads: committed ones and its own inserts.
Visible(r) == {y \in Row : Committed(y) \/ (Inserted(y) /\ y[1] = r)}

KeyKnown(r, m) ==
  KeyOf[m] # NoKey /\ \E y \in Visible(r) : Key(y) = KeyOf[m]

RecentRepeat(r, m) ==
  m \notin NeverCollapse
    /\ \E y \in Visible(r) : outbox[y].recent /\ Text(y) = TextOf[m]

Duplicate(r, m, fails) ==
  \/ "key" \notin fails /\ KeyKnown(r, m)
  \/ "repeat" \notin fails /\ RecentRepeat(r, m)

-----------------------------------------------------------------------------
(* Business requests.                                                       *)

Flushed(r) == \A x \in RowsOf(r) : ~Pending(x)

\* queue_email.  Its lookups open savepoints, which first flush the rows
\* queued before; the new row itself stays in the session.
QueueEmail(r, m, fails) ==
  LET x == <<r, m>> IN
  /\ phase[r] = "open" /\ asked[x] = "todo" /\ m \notin Inline
  /\ Flushed(r)
  /\ asked' = [asked EXCEPT ![x] = IF Muted(m, fails) THEN "muted"
                                   ELSE IF Duplicate(r, m, fails) THEN "duplicate"
                                   ELSE "queued"]
  /\ outbox' = IF asked'[x] = "queued" THEN [outbox EXCEPT ![x] = NewRow] ELSE outbox
  /\ UNCHANGED <<phase, switch, drainVars, adminVars, history, used>>

\* record_inline_email: the mail has already gone out; its row is inserted in
\* its final state and flushed at once by the savepoint.
RecordInline(r, m, sent) ==
  LET x == <<r, m>> IN
  /\ phase[r] = "open" /\ asked[x] = "todo" /\ m \in Inline
  /\ Flushed(r)
  /\ asked' = [asked EXCEPT ![x] = "queued"]
  /\ outbox' = [outbox EXCEPT ![x] =
                  [NewRow EXCEPT !.stage = "inserted", !.attempts = 1,
                                 !.status = IF sent THEN "Sent" ELSE "Failed"]]
  /\ delivered' = IF sent THEN [delivered EXCEPT ![x] = @ + 1] ELSE delivered
  /\ UNCHANGED <<phase, switch, drainVars, adminVars, excused, used>>

\* The savepoint of record_inline_email fails: the mail has gone out, or been
\* refused, and no row tells of it.
RecordingFails(r, m, sent) ==
  LET x == <<r, m>> IN
  /\ phase[r] = "open" /\ asked[x] = "todo" /\ m \in Inline
  /\ Flushed(r) /\ TRUE \in LookupFails
  /\ asked' = [asked EXCEPT ![x] = "unrecorded"]
  /\ IF sent THEN /\ delivered' = [delivered EXCEPT ![x] = @ + 1]
                  /\ excused' = [excused EXCEPT ![x] = @ + 1]
             ELSE UNCHANGED history
  /\ UNCHANGED <<phase, outbox, switch, drainVars, adminVars, used>>

SameKey(x, y) == x # y /\ Key(x) # NoKey /\ Key(x) = Key(y)

\* Mutant: no unique index on dedupe_key, so no insert ever waits.
NeverWaits(r, s) == FALSE
\* The unique index makes an insert wait for an uncommitted row with its key.
WaitsFor(r, s) ==
  /\ r # s /\ phase[r] = "open"
  /\ \E x \in RowsOf(r), y \in RowsOf(s) : Pending(x) /\ Inserted(y) /\ SameKey(x, y)

\* Mutant: the session of a failed request is neither rolled back nor closed.
LeftOpen(r, how) == UNCHANGED vars
\* The transaction of r ends without a trace; an inline mail cannot be unsent.
Undo(r, how) ==
  /\ phase' = [phase EXCEPT ![r] = how]
  /\ outbox' = [x \in Row |-> IF x[1] = r THEN NoRow ELSE outbox[x]]
  /\ excused' = [x \in Row |-> IF x[1] = r /\ outbox[x].status = "Sent"
                               THEN excused[x] + 1 ELSE excused[x]]
  /\ UNCHANGED <<asked, switch, drainVars, adminVars, delivered, used>>

\* The INSERT of a pending row, by the next savepoint or by commit.
Flush(r, x) ==
  /\ phase[r] = "open" /\ x \in RowsOf(r) /\ Pending(x)
  /\ \A s \in Request : ~WaitsFor(r, s)
  /\ ~ \E y \in Visible(r) : SameKey(x, y)
  /\ outbox' = [outbox EXCEPT ![x].stage = "inserted"]
  /\ UNCHANGED <<requestVars, switch, drainVars, adminVars, history, used>>

\* IntegrityError on the INSERT: the flush rolls the whole transaction back and
\* the commit of the business change fails.
KeyConflict(r, x) ==
  /\ phase[r] = "open" /\ x \in RowsOf(r) /\ Pending(x)
  /\ \E y \in Visible(r) : SameKey(x, y)
  /\ Undo(r, "conflict")

InWaitCycle(r) ==
  \E C \in SUBSET Request : r \in C /\ \A s \in C : \E t \in C : WaitsFor(s, t)

\* PostgreSQL aborts one member of a cycle of waiting transactions.
DeadlockVictim(r) == InWaitCycle(r) /\ Undo(r, "conflict")

CommitRequest(r) ==
  /\ phase[r] = "open" /\ Flushed(r)
  /\ \A x \in RowsOf(r) : asked[x] # "todo"
  /\ phase' = [phase EXCEPT ![r] = "committed"]
  /\ outbox' = [x \in Row |-> IF x[1] = r /\ Inserted(x)
                              THEN [outbox[x] EXCEPT !.stage = "committed"] ELSE outbox[x]]
  /\ UNCHANGED <<asked, switch, drainVars, adminVars, history, used>>

\* The business operation itself fails (an HTTPException, a lost connection).
RollbackRequest(r) == phase[r] = "open" /\ Undo(r, "rolledback")

-----------------------------------------------------------------------------
(* drain_once.                                                              *)

\* Mutant: the claim does not skip locked rows.
LocksIgnored(x) == FALSE
Locked(x) == \E w \in Worker : x \in batch[w]

Claimable == {x \in Row : Committed(x) /\ outbox[x].status = "Queued"
                            /\ outbox[x].due /\ ~Locked(x)}

\* _CLAIM_SQL, the reload of the rows and the one read of the master switch.
Claim(w, S, fails) ==
  /\ batch[w] = {}
  /\ S \in SUBSET Claimable /\ S # {}
  /\ Cardinality(S) = Limit \/ (Cardinality(S) < Limit /\ S = Claimable)
  /\ batch' = [batch EXCEPT ![w] = S]
  /\ image' = [image EXCEPT ![w] =
                 [x \in Row |-> IF x \in S
                                THEN [at |-> "claimed", status |-> outbox[x].status,
                                      attempts |-> outbox[x].attempts]
                                ELSE NoWork]]
  /\ masterOn' = [masterOn EXCEPT ![w] = Enabled(Master, fails)]
  /\ UNCHANGED <<requestVars, outbox, switch, adminVars, history, used>>

\* Nothing is due: drain_once rolls back and the worker sleeps.  SMTP is
\* configured: without it drain_once returns before it claims anything.
DrainNothing(w) == batch[w] = {} /\ Claimable = {} /\ UNCHANGED vars

\* What w records for x, in the session only, once the outcome of x is known.
Outcome(w, x, status) ==
  image' = [image EXCEPT ![w][x] = [at |-> "done", status |-> status,
                                    attempts |-> image[w][x].attempts]]

Sending(w) == \E x \in batch[w] : image[w][x].at = "sending"

\* The event switch is read again for every row; a muted row is skipped.
Suppress(w, x, fails) ==
  /\ x \in batch[w] /\ image[w][x].at = "claimed" /\ ~Sending(w)
  /\ ~masterOn[w] \/ ~Enabled(EventOf[x[2]], fails)
  /\ Outcome(w, x, "Skipped")
  /\ UNCHANGED <<requestVars, outbox, switch, batch, masterOn, adminVars, history, used>>

StartSend(w, x, fails) ==
  /\ x \in batch[w] /\ image[w][x].at = "claimed" /\ ~Sending(w)
  /\ masterOn[w] /\ Enabled(EventOf[x[2]], fails)
  /\ image' = [image EXCEPT ![w][x] = [at |-> "sending", status |-> image[w][x].status,
                                       attempts |-> image[w][x].attempts + 1]]
  /\ UNCHANGED <<requestVars, outbox, switch, batch, masterOn, adminVars, history, used>>

SendOk(w, x) ==
  /\ x \in batch[w] /\ image[w][x].at = "sending"
  /\ Outcome(w, x, "Sent")
  /\ delivered' = [delivered EXCEPT ![x] = @ + 1]
  /\ UNCHANGED <<requestVars, outbox, switch, batch, masterOn, adminVars, excused, used>>

\* Mutant: one attempt too many.
GivesUpLate(attempts) == attempts > MAX_ATTEMPTS
GivesUp(attempts) == attempts >= MAX_ATTEMPTS

\* send_email answers ok = False.  accepted: the error came after the server
\* had taken the message (a timeout on the answer, a failure in QUIT).
SendError(w, x, accepted) ==
  /\ x \in batch[w] /\ image[w][x].at = "sending"
  /\ accepted => used.ambiguous < MaxAmbiguous
  /\ Outcome(w, x, IF GivesUp(image[w][x].attempts) THEN "Failed" ELSE "Queued")
  /\ IF accepted
     THEN /\ delivered' = [delivered EXCEPT ![x] = @ + 1]
          /\ excused' = [excused EXCEPT ![x] = @ + 1]
          /\ used' = [used EXCEPT !.ambiguous = @ + 1]
     ELSE UNCHANGED <<delivered, excused, used>>
  /\ UNCHANGED <<requestVars, outbox, switch, batch, masterOn, adminVars>>

\* One commit writes every row of the batch and releases its locks.  A row that
\* stays Queued is not due again before its backoff.
CommitBatch(w) ==
  /\ batch[w] # {} /\ \A x \in batch[w] : image[w][x].at = "done"
  /\ outbox' = [x \in Row |-> IF x \in batch[w]
                              THEN Write(outbox[x], image[w][x].status,
                                         image[w][x].attempts, FALSE)
                              ELSE outbox[x]]
  /\ batch' = [batch EXCEPT ![w] = {}]
  /\ image' = [image EXCEPT ![w] = [x \in Row |-> NoWork]]
  /\ masterOn' = [masterOn EXCEPT ![w] = TRUE]
  /\ UNCHANGED <<requestVars, switch, adminVars, history, used>>

\* Mutant: the claim is persistent and nobody takes it back after a crash.
StillClaimed(w) == batch[w]
ReleasedByCrash(w) == {}

\* The process dies, the connection drops or the commit fails: PostgreSQL
\* releases the locks and every outcome of the batch is lost.
LoseBatch(w) ==
  /\ batch[w] # {} /\ used.lost < MaxLost
  /\ used' = [used EXCEPT !.lost = @ + 1]
  /\ excused' = [x \in Row |-> IF x \in batch[w] /\ image[w][x].status = "Sent"
                               THEN excused[x] + 1 ELSE excused[x]]
  /\ batch' = [batch EXCEPT ![w] = ReleasedByCrash(w)]
  /\ image' = [image EXCEPT ![w] = [x \in Row |-> NoWork]]
  /\ masterOn' = [masterOn EXCEPT ![w] = TRUE]
  /\ UNCHANGED <<requestVars, outbox, switch, adminVars, delivered>>

-----------------------------------------------------------------------------
(* The admin console: rows are read without a lock and written later; the   *)
(* ORM writes only the columns whose value changed since that read.         *)

RetryRead(a, S) ==
  /\ picked[a] = {} /\ S # {} /\ used.retries < MaxRetries
  /\ picked' = [picked EXCEPT ![a] = S]
  /\ seen' = [seen EXCEPT ![a] = [x \in Row |-> IF x \in S
                THEN [status |-> outbox[x].status, attempts |-> outbox[x].attempts]
                ELSE Blank]]
  /\ used' = [used EXCEPT !.retries = @ + 1]
  /\ UNCHANGED <<requestVars, outbox, switch, drainVars, history>>

\* Mutant: without the 400 "Already sent".
AnyStatus(x) == TRUE
NotSent(x) == outbox[x].status # "Sent"

\* retry_one refuses a row it reads as Sent.
RetryOne(a, x) == Committed(x) /\ NotSent(x) /\ RetryRead(a, {x})

RetryAllFailed(a) ==
  RetryRead(a, {x \in Row : Committed(x) /\ outbox[x].status = "Failed"})

\* The UPDATE waits for the lock of a draining session, then overwrites.
RetryWrite(a) ==
  /\ picked[a] # {} /\ \A x \in picked[a] : ~Locked(x)
  /\ outbox' = [x \in Row |->
       IF x \in picked[a]
       THEN Write(outbox[x],
                  IF seen[a][x].status = "Queued" THEN outbox[x].status ELSE "Queued",
                  IF seen[a][x].attempts = 0 THEN outbox[x].attempts ELSE 0, TRUE)
       ELSE outbox[x]]
  /\ excused' = [x \in Row |->
       IF /\ x \in picked[a] /\ outbox[x].status = "Sent"
          /\ seen[a][x].status \in {"Failed", "Skipped"}
       THEN excused[x] + 1 ELSE excused[x]]
  /\ picked' = [picked EXCEPT ![a] = {}]
  /\ seen' = [seen EXCEPT ![a] = [x \in Row |-> Blank]]
  /\ UNCHANGED <<requestVars, switch, drainVars, delivered, used>>

-----------------------------------------------------------------------------
(* Settings and time.                                                       *)

Toggle(e) ==
  /\ used.toggles < MaxToggles
  /\ switch' = [switch EXCEPT ![e] = ~@]
  /\ used' = [used EXCEPT !.toggles = @ + 1]
  /\ UNCHANGED <<requestVars, outbox, drainVars, adminVars, history>>

BackoffPasses(x) ==
  /\ Committed(x) /\ outbox[x].status = "Queued" /\ ~outbox[x].due
  /\ outbox' = [outbox EXCEPT ![x].due = TRUE]
  /\ UNCHANGED <<requestVars, switch, drainVars, adminVars, history, used>>

WindowPasses(x) ==
  /\ Committed(x) /\ outbox[x].recent
  /\ outbox' = [outbox EXCEPT ![x].recent = FALSE]
  /\ UNCHANGED <<requestVars, switch, drainVars, adminVars, history, used>>

-----------------------------------------------------------------------------
RequestStep(r) ==
  \/ \E m \in Asks[r], fails \in Failing : QueueEmail(r, m, fails)
  \/ \E m \in Asks[r], sent \in BOOLEAN : RecordInline(r, m, sent)
  \/ \E m \in Asks[r], sent \in BOOLEAN : RecordingFails(r, m, sent)
  \/ \E x \in RowsOf(r) : Flush(r, x) \/ KeyConflict(r, x)
  \/ DeadlockVictim(r)
  \/ CommitRequest(r)

DrainStep(w) ==
  \/ \E S \in SUBSET Claimable, fails \in LookupFails : Claim(w, S, fails)
  \/ \E x \in batch[w] :
       \/ \E fails \in LookupFails : Suppress(w, x, fails) \/ StartSend(w, x, fails)
       \/ SendOk(w, x)
       \/ \E accepted \in BOOLEAN : SendError(w, x, accepted)
  \/ CommitBatch(w)

AdminStep(a) ==
  \/ \E x \in Row : RetryOne(a, x)
  \/ RetryAllFailed(a)
  \/ RetryWrite(a)

Next ==
  \/ \E r \in Request : RequestStep(r) \/ RollbackRequest(r)
  \/ \E w \in Worker : DrainStep(w) \/ DrainNothing(w) \/ LoseBatch(w)
  \/ \E a \in Admin : AdminStep(a)
  \/ \E e \in Event \cup {Master} : Toggle(e)
  \/ \E x \in Row : BackoffPasses(x) \/ WindowPasses(x)

Spec == Init /\ [][Next]_vars

(* A request handler runs to its end, the worker loop never dies for good   *)
(* (start_outbox_worker, _worker_loop), and time passes.                    *)
Fairness ==
  /\ \A r \in Request : WF_vars(RequestStep(r))
  /\ \A w \in Worker : WF_vars(DrainStep(w))
  /\ \A x \in Row : WF_vars(BackoffPasses(x))

FairSpec == Spec /\ Fairness
-----------------------------------------------------------------------------
(* Properties.                                                              *)

\* The types of the tables, of what sessions hold of them and of the history.
TypeOK ==
  /\ phase \in [Request -> {"open", "committed", "rolledback", "conflict"}]
  /\ asked \in [Row -> {"todo", "queued", "muted", "duplicate", "unrecorded"}]
  /\ outbox \in [Row -> RowRec]
  /\ switch \in [Event \cup {Master} -> BOOLEAN]
  /\ batch \in [Worker -> SUBSET Row]
  /\ image \in [Worker -> [Row -> Work]]
  /\ masterOn \in [Worker -> BOOLEAN]
  /\ picked \in [Admin -> SUBSET Row]
  /\ seen \in [Admin -> [Row -> Columns]]
  /\ delivered \in [Row -> Nat] /\ excused \in [Row -> Nat]
  /\ used \in Budget

\* A mail exists for the outside world exactly when the business change it
\* announces is committed: "a rollback takes the email with it", and a commit
\* never loses a row it queued.
QueuedWithTheChange ==
  \A x \in Row :
    /\ Committed(x) => phase[x[1]] = "committed"
    /\ phase[x[1]] = "committed" /\ asked[x] = "queued" => Committed(x)
    /\ phase[x[1]] \in {"rolledback", "conflict"} => outbox[x].stage = "none"

\* A message dropped as a duplicate by a request that committed is represented
\* by another committed row with its key or its text: never by a row whose
\* transaction was rolled back after it was seen.
NoMailLost ==
  \A x \in Row :
    phase[x[1]] = "committed" /\ asked[x] = "duplicate" =>
      \E y \in Row \ {x} : Committed(y) /\ (SameKey(x, y) \/ Text(x) = Text(y))

\* However requests interleave between the lookup of a dedupe key and the
\* insert, the table never holds two rows with one key.
OneRowPerKey ==
  \A x, y \in Row : Committed(x) /\ Committed(y) => ~SameKey(x, y)

\* Two drains never work on one row, and nobody changes a row under its claim:
\* the image a drain will write was made from the values still in the table.
ExclusiveClaim ==
  \A w \in Worker : \A x \in batch[w] :
    /\ \A v \in Worker \ {w} : x \notin batch[v]
    /\ Committed(x) /\ outbox[x].status = "Queued"
    /\ image[w][x].attempts \in {outbox[x].attempts, outbox[x].attempts + 1}

\* The outcome of x the system knows or is about to commit is "Sent".
KnownSent(x) ==
  \/ outbox[x].status = "Sent"
  \/ \E w \in Worker : x \in batch[w] /\ image[w][x].status = "Sent"

\* Every delivery of a mail is either the one its Sent status stands for or one
\* of the deliveries the system lost track of: a batch lost after a send, an
\* error reported for an accepted mail, a stale retry of a Sent row, an inline
\* mail that was not recorded or whose request rolled back.  Nothing else sends
\* a mail twice, and no row is Sent without a delivery.
SendsAccounted ==
  \A x \in Row : delivered[x] = excused[x] + (IF KnownSent(x) THEN 1 ELSE 0)

\* No row is attempted more than MAX_ATTEMPTS times between two resets, and a
\* row still Queued has an attempt left.
AttemptsBounded ==
  \A x \in Row :
    /\ outbox[x].attempts <= MAX_ATTEMPTS
    /\ outbox[x].status = "Queued" => outbox[x].attempts < MAX_ATTEMPTS

\* A queued mail is sent, given up or suppressed in the end, whatever crashes.
EveryRowSettles ==
  \A x \in Row : (Committed(x) /\ outbox[x].status = "Queued")
                    ~> (outbox[x].status \in Settled)

\* Waiting for one another on dedupe keys never hangs a business request.
EveryRequestEnds == \A r \in Request : (phase[r] = "open") ~> (phase[r] # "open")

\* The outbox keeps the promise of NotificationPromise to its callers.
Promise == INSTANCE NotificationPromise WITH
  OwnerOf  <- [x \in Row |-> x[1]],
  RowKey   <- [x \in Row |-> Key(x)],
  business <- [r \in Request |->
                 CASE phase[r] = "open" -> "open"
                   [] phase[r] = "committed" -> "committed"
                   [] OTHER -> "aborted"],
  mail     <- [x \in Row |-> IF Committed(x) THEN outbox[x].status ELSE "none"]

\* Refinement: every step of requests, drains and administrators is a step of
\* the promise or changes nothing it speaks about.
KeepsPromise == Promise!Spec

-----------------------------------------------------------------------------
(* Statements of the documentation that the code does not keep.             *)

\* queue_email: "Never raises - a notification must not fail the action that
\* triggered it."
NotificationNeverFailsAction == \A r \in Request : phase[r] # "conflict"

\* retry_one: "Reset a Failed or Skipped row so the worker picks it up again",
\* answered with "Queued for retry".
RetryRequeues ==
  [][\A a \in Admin, x \in Row :
       x \in picked[a] /\ x \notin picked'[a] /\ outbox[x].status # "Sent"
         => outbox'[x].status = "Queued"]_vars
=============================================================================
