# Verification of AI-CRM-Backend

TLA+ models of the parts of this backend where requests, background threads and
two databases meet, TLC runs on small instances of them, and TLAPS proofs for
every size. Source paths are relative to `src/backend/`.

## 1. The system

A FastAPI monolith (`main.py`, `routers/crm/*`, `services/*`) on two PostgreSQL
databases: the *CRM* database (SQLAlchemy, `crm_db.py`, sessions with
`autoflush=False`, READ COMMITTED) and the *legacy* interview database
(`auth_db.py`, its own connections). Several server processes may run at once;
each runs request handlers on a thread pool and daemon threads that drain the
email outbox and recover interviews that were left. The sessions of candidates in an
AI interview are in the memory of one process.

| Part | State it keeps | Operations | Interacts with | Hard behaviour |
|---|---|---|---|---|
| Email outbox (`services/email_outbox.py`, `routers/crm/email_outbox.py`) | `email_outbox` rows, switches in `app_settings` | queue, record an inline mail, drain, retry one / all failed | every business request, worker threads, SMTP, admin console | lookups and insert in other people's transactions, unique keys, concurrent drains, crash between send and commit, retries from stale reads |
| Slot booking (`routers/crm/slots.py`, `services/slot_booking.py`) | `interview_slots`, `slot_bookings`, `ai_interview_links` | publish / delete a slot, invite, re-invite, confirm | candidates on a public link, recruiters, legacy DB, outbox | last seat, double submission, two databases, check-then-delete, stale reset |
| Interview report life cycle (`main.py`, `auth_db.py`, `session.py`) | sessions in memory, `interview_progress`, `interview_records` | sign-in, answer, submit, background upgrade, recovery, stale finalization, re-score, edit | the CRM link through threads, language models | restart between quick report and upgrade, recovery beside a submission, stale edits, threads in any order |
| AI interview scheduling, sync and decisions (`services/ai_interview_bridge.py`, `services/admin_corrections.py`) | `ai_interview_links`, pipeline stage, manual round | invite and re-invite, sync a report, decide (report page, row button, manual round), heal on load, Re-apply, correct | legacy interview API, candidate pipeline, outbox | repeated and reordered saves, announce once, decision against late verdict, healing a reopened candidacy |
| Timesheets and leave ledger (`services/timesheets.py`, `routers/crm/timesheets.py`, `services/project_employees.py`) | sheet status, leave balances, accrual events | fill, submit, approve, recalculate, reject, reopen | leave balances shared by sheets, invoices | idempotent deltas, balance locks, approve against reject |
| Candidate pipeline (`services/candidate_profiles.py`, `candidate_status.py`) | `pipeline_status` | stage changes by role | sync, decisions, offers | concurrent moves of one profile |
| Opportunities, requirements | status, assignments | drafts, approvals, publishing | pipeline | single-row workflows |
| Receivables (`routers/crm/finance.py`, `customer_receipts.py`, `credit_notes.py`, `invoice_revisions.py`, `services/tax.py`, `tds.py`, `finance.py`, `invoice_payments.py`, `proforma.py`, `crm_delete.py`) | invoices, purchase orders, received amounts, payments, TDS records, credit notes, change requests | raise, convert, pay, map and unmap, withhold, reverse, credit, change, delete, undo | timesheets (a sheet is billed), scheduler (recurring billing) | one amount kept in several rows, no row locks, many ways to take the same money back |
| Projects, employees, separation, scheduler | status, dates | daily sweeps | leave credit | repeated sweeps |
| Access control, auth, sessions | grants, sessions | decide, log in | all | pure decisions |
| Recording, parsing, scoring, dashboards, backup | media, files | calls to language models, queries | legacy DB | I/O |

What makes the modelled parts correct:

* **Outbox**: a mail exists exactly when the change it announces is committed; no
  message is dropped in favour of one that never comes; one row per dedupe key; one
  drain at a time works on a row; a mail is sent once unless the system lost track
  of it (crash, ambiguous SMTP answer, stale retry, failed record); every row is settled.
* **Slots**: a slot is never overbooked; `booked_count` misses no confirmation; a
  confirmed booking has its slot, interview and link; a future booking is left alone.
* **Report**: an interview with an answer gets a report that scores every recorded
  answer; no checkpoint is closed without one; what HR sees reaches the CRM link.
* **AI sync**: the result of a link belongs to its score and was announced; a rejected
  candidacy stays closed, and a passed one is handed to RMG, until somebody reopens it.
* **Ledger**: what a sheet has taken from a balance is what its ledger rows say, and a
  rejected sheet has taken nothing.
* **Receivables**: payments, received amounts, TDS and balances say the same thing
  after any sequence of requests, and a purchase order has given out exactly what its
  tax invoices bill, never more than its value.

## 2. Plan

1. `EmailOutbox`, refined to `NotificationPromise` - done, with proofs.
2. `SlotBooking` - done, with proofs.
3. The leave and comp-off ledger of timesheets (`TimesheetLedger`): save, submit,
   approve, recalculate, reject and delete by concurrent handlers over shared
   balances - done, with proofs. Left of it: the monthly credit and leave
   applications, changes of a sheet's period, sheets without an assignment.
4. `InterviewReport`: from sign-in to re-score, with restarts - done, with proofs.
5. `AiInterviewSync`: repeated and reordered report saves, announce-once through the
   outbox's dedupe keys, decisions, heals and pipeline moves - done, with proofs.
   Left of it: cancelling an AI interview, *Send for screening*.
6. `Receivables`: invoices, purchase orders, payments, received amounts, TDS, credit
   notes and change requests by overlapping sessions - done, with proofs. Left of it:
   splits of a sheet over several invoices, allocations of an order to projects.
7. Refinement of `SlotBooking` to an abstract seat allocator, `SeatPromise` - done,
   with proof.

Left of the proofs: abstract specifications of the other four state machines, and where
a finding has no theorem yet that says exactly when the documentation is right (the
moves of comp-off under overlap, the lost updates of two mappings).

## 3. Modules

### `EmailOutbox` (checked through `MCEmailOutbox`)

| TLA+ | Code |
|---|---|
| `Request`, `phase` | a business request and its CRM transaction |
| `outbox[x].stage` | `pending`: added to the session; `inserted`: flushed, visible only to its transaction; `committed` |
| `asked` | what `queue_email` returned for a message |
| `QueueEmail` | `queue_email`: switches, dedupe lookup, repeat lookup, `db.add` |
| `RecordInline`, `RecordingFails` | `record_inline_email` after a synchronous send; its savepoint fails and no row tells of the mail (`asked` is "unrecorded") |
| `Flush`, `KeyConflict`, `WaitsFor`, `DeadlockVictim` | the INSERT, forced by the next savepoint or the commit, against the unique index |
| `Claim` ... `CommitBatch`, `LoseBatch` | `drain_once`: claim SQL, one step per row and outcome, one commit; `image` is the session's copy of the rows |
| `RetryOne`, `RetryAllFailed`, `RetryWrite` | the admin endpoints: unlocked read, later UPDATE of the columns that changed since the read |
| `Toggle`, `BackoffPasses`, `WindowPasses` | settings and time |
| `delivered`, `excused` | history: mails SMTP accepted, and those the system lost track of or has no row for |

The lookups that fail (`fails`, any set of those a call makes) are part of the action that
makes them, because `_safe_scalar` swallows the error. `retry_all_failed` and `send_slot_invite_manual`
also drain inline; that drain is one more `Worker`.

### `NotificationPromise`

What the business code may rely on, with no sessions, locks or batches: a request's
rows appear in one step with its commit, at most one per key; queued rows are settled
once; only an administrator puts settled rows back. `KeepsPromise` is the refinement.

### `SlotBooking` (checked through `MCSlotBooking`)

| TLA+ | Code |
|---|---|
| `slot`, `booking` | `interview_slots` (booked_count, capacity), `slot_bookings` |
| `interview`, `link` | interviews in the legacy database, `ai_interview_links` |
| `conf[c]` | one run of `confirm_booking`: `read` (status checked, unlocked), `held` (slot locked or minted), `scheduled` (legacy commit done) |
| `TakeSlot`, `Refused`, `ProposeTime`, `RefusedTime`, `Schedule`, `Confirm`, `Abort` | the steps and early returns of `confirm_booking` |
| `CreateSlot`, `CheckUnused` + `DeleteSlot`, `Invite`, `ReadMissed` + `Reopen`, `DeleteResume` | the recruiter endpoints; a check and its write are two steps |
| `leaked` | history: seats counted in `booked_count` that no booking holds |

### `SeatPromise`

What recruiters and candidates may rely on, with no sessions, locks, counters or second
database: a seat is handed out once, in one step with the booking that gets it, and only
while one is left; a slot with a booking is not withdrawn. It does not promise that a seat
comes back, nor that a second submission keeps the first seat. `KeepsSeatPromise` is the
refinement: a slot is offered while it is open (one minted for a confirmation that is not
committed is not), what is left is its capacity less its counter, and a confirmation maps to
`TakeSeat` or `TakeOwnTime` at its commit and to a stutter before.

### `TimesheetLedger` (checked through `MCTimesheetLedger`)

| TLA+ | Code |
|---|---|
| `status`, `entries`, `accrued`, `figures` | `timesheets.status`, its entries, `comp_off_accrued`, the paid days in `approved_figures` |
| `balance` | `project_employee_leave_details.leave_balance` of the assignment |
| `taken`, `lop`, `granted` | sums of the `LeaveAccrualEvent` rows with source `timesheet:{id}` |
| `req[u]` | one request: what its session holds of the sheet, the balances and the ledger |
| `Open` | `get_timesheet_or_404` and the status guard, both without a lock |
| `Read` | the entries (posted or stored), the balances and what the comp-off of the sheet comes to |
| `Wait` | the sheet's own consumption, read before the lock is asked for |
| `Save` | the end of `upsert_entries`: entries and `accrue_comp_off`, no lock |
| `Finish` | the rest of submit, approve, recalculate, reject and delete: `consume_timesheet_leaves` under the locks, `accrue_comp_off`, the freeze, the commit |
| `Fail` | 400 for an empty sheet or a short balance, or the sheet was deleted meanwhile |
| `ChangePolicy` | the billing policy is edited (comp-off credited or billed, covering LOP or not) |
| `forgiven`, `overtaken` | history: days the floor at zero gave away; sheets a recalculation finished on after they left Approved |

How a session works here is the heart of the model. Autoflush is off, so a query
inside the transaction sees what is committed, not the events the transaction has
added; but a balance row the transaction has changed stays in its identity map as
changed, and the locking query does not refresh it (`SessionBalance`). A row that
was only read is no longer referenced and is read again (`LockedBalance`). A column
that ends at the value it was loaded with is not written (`Written`). The lock is
taken and the transaction is committed in one action, because nothing in between
is visible and every other writer of paid leave needs the same lock; saves, which
take none, may still fall before or after it.

### `InterviewReport` (checked through `MCInterviewReport`)

| TLA+ | Code |
|---|---|
| `session` | `sessions[sk]`, the interview in memory: answers, `completed`, `finalizing`, `submitted`, the report it holds |
| `progress` | the `interview_progress` row: payload, over, `report_status`, attempts, backoff, time since the last activity |
| `record`, `link` | the report in `interview_records`; the report whose verdict `ai_interview_links` holds |
| `jobs[t]` | a background task, recovery thread or reviewer's request and the snapshot it works on |
| `syncs[r]` | threads of `_crm_sync_interview_async` that carry report `r` |
| `SignIn`, `Answer`, `RunOut`, `Terminate`, `Submit` | the candidate's endpoints |
| `FastReport`, `FastReportFails`, `Submitted` | the part of a submission before its answer, and its failure before or after the report is stored |
| `Evaluate`, `StoreAgain`, `FallBack`, `EvaluationFails`, `Close`, `CloseFails`, `Count` | the steps of `_upgrade_interview_report_background`, `_finalize_interview_snapshot` and re-score, every save with its sync |
| `Recover`, `Park`, `FinalizeStale`, `RecoverFails` | one row of a recovery pass, the pass a page load starts; `FinalizeStale` works on the session in memory ("stale") or on one made from the checkpoint ("cold"), and puts a placeholder where there is no answer |
| `Rescore`, `Edit` + `WriteEdit`, `View` | reviewers: exclusions and strengths write back the record they read |
| `Deliver`, `Tick`, `Restart` | a sync thread ends; time; the process restarts |
| `given`, `late`, `unsaved`, `lost`, `raced` | history |

A report is its evaluator, the number of answers it scores and whether a question is
excluded: as much as tells a stale or partial report from the one that should be there.

### `AiInterviewSync` (checked through `MCAiInterviewSync`)

| TLA+ | Code |
|---|---|
| `link[l]` | rows of `ai_interview_links` of one candidacy: score, result, HR decision, `voided_at` |
| `stage`, `origin`, `round` | `pipeline_status`, the activity log's `from` of the move to RMG_Rejected, the manual L1 verdict |
| `reopened` | decisions older than the last `REAPPLIED` or correction on the activity log |
| `mails` | notices queued, one per dedupe key |
| `txn[t]` | one database session: what it read, and which columns others committed since |
| `SyncLoads`, `SyncFlushes`, `SyncAnnounces`, `SyncQuietly` | `sync_completed_interview`; announcing flushes and so locks the link row |
| `ReportPage`/`ReportDecision`, `RowButton`/`RowDecision` | `sync_hr_decision`, `ai_l1_decision` |
| `ListLoad`, `PageLoad`, `Heal` | loads that repair the stage of old rows |
| `RoundVerdict`, `Transition`, `Reapply`, `Correction`, `Invite` | the other requests that move the candidacy or add a link; a correction sets the stage, or leaves it where the screening or the archive is put right, clears the decision, or both |
| `aged`, `torn` | history: links with no new verdict since the reopening; columns written across another session's commit |

`Commit` is the unit of work of a session without a version check: it writes the
columns that differ from what the session read, over whatever is there now.

### `Receivables` (checked through `MCReceivables`)

| TLA+ | Code |
|---|---|
| `books` | the committed tables: `inv` (`invoices`), `po` (`purchase_orders`), `rc` (`customer_receipts`), `pay` (`invoice_payments`), `tds` (`tds_records`), `note` (`credit_notes`), `rev` (`invoice_revisions`) |
| `Ask`, `Commit`, `RollBack` | a request reads the books and makes others of them; it commits at once, or stays open while others commit |
| `Merged`, `Referred`, `Present` | what a late commit writes (the columns it changed), and the foreign keys, the unique TDS record and the missing rows that make it fail instead |
| `Refreshed`, `PaidMore`, `Withheld`, `Consumed`, `Moved`, `Covers` | the figures of one row in `services/tax.py` and `services/finance.py`, which every handler uses |
| `CreateInvoice`, `RaiseProforma`, `Convert`, `Confirm`, `UpdateInvoice`, `DeleteInvoice`, `UndoInvoice` | from a draft to the e-invoice number that opens payments, and the two ways to take an invoice away |
| `UpdatePo`, `CancelPo`, `DeletePo` | purchase orders |
| `RecordPayment`, `RecordReceived`, `ReversePayment`, `RecordTds`, `TdsReceived`, `DeleteTds` | one invoice at a time |
| `CreateReceipt`, `Allocate`, `UnmapInvoice`, `UpdateReceipt`, `DeleteReceipt` | one received amount over several invoices, TDS first; `take` is the share of each |
| `CreateNote`, `ApproveNote`, `CancelNote`, `SettleNote` | credit notes |
| `RequestRevision`, `ApproveRevision`, `RejectRevision` | change requests: new lines, or another order |
| `torn`, `undone`, `InvoiceRow.credit` | history: rows two sessions wrote across each other, received amounts that paid an undone invoice, invoices with a credit not worked in since |

No handler locks a row, so two that overlap on one row lose an update, and the
properties cannot hold there: a row is `torn` when a session that wrote it, or
changed what it is accounted with, found it other than it had read. All properties
are about the other rows: overlap must not spoil a row that only one session at a
time worked on, and without overlap nothing is exempt (`OneAtATimeBooksAgree`).

## 4. Runs

| Run | Bounds | What it shows |
|---|---|---|
| `OutboxQueue` | 3 requests, 2 keys, 1 repeated text, 1 toggle, failing lookups | with every interleaving of lookup, insert, wait, conflict, deadlock and rollback: mail follows its change, no duplicate is dropped for a row that vanishes, keys are unique, each request ends |
| `OutboxLive` | 1 request with a queued and an inline mail, 2 workers, 1 administrator, batch of 2, 2 attempts, 1 lost batch, 1 ambiguous send, 1 toggle, 1 retry | claims are exclusive, every delivery is accounted for, attempts are bounded, the promise is kept, every queued row is settled |
| `OutboxConflict` | 2 requests, 1 key | **violation**: a notification fails the action that triggered it |
| `SlotSeats` | 2 bookings, 2 slots of one seat, 3 submissions (two of one link), 1 recruiter, 1 deleted application | seats are neither oversold nor lost; confirmed bookings are whole; every commit is a step of the seat promise; each confirmation gets its answer |
| `SlotTwice` | 1 link submitted twice | **violation**: a booking with two interviews |
| `LedgerDays` | 2 sheets, 2 sessions, 6 requests of which 1 may overlap, 1 day of leave, 3 fillings, 3 policies and 1 change, comp-off limit 2 | paid leave is conserved and released sheets hold none, under overlap; every day is charged, comp-off is accounted for and credited once, without |
| `LedgerFrozen` | 2 sheets with a day of leave each, 1 day to take, 6 requests in a row | **violation**: an approval takes a paid day and freezes it as Loss of Pay |
| `ReportDays` | 1 question, 2 tasks at once, 2 recovery attempts, 1 request, 1 restart or failure | no checkpoint is closed without its report, no recorded answer goes unscored, a stored report is owed to the CRM until it is there, the CRM ends with the verdict HR sees; a left interview is reported, and the report reaches the CRM unless work was lost |
| `ReportUnsynced` | as `ReportDays` | **violation**: after a restart the link stays Pending forever |
| `SyncDays` | 2 invitations, 2 sessions, 5 requests of which 1 may overlap | every verdict is announced and is that of its score; a rejection closes the candidacy, a pass hands it on, and it leaves RMG_Rejected only by a reopening |
| `LinkVoided` | 2 invitations, 4 requests in a row | **violation**: the pass of a voided interview moves the candidacy on |
| `ReceivableDays` | 3 requests of which 1 may overlap, on 2 invoices, 2 orders, 2 received amounts, 3 payments, 1 credit note, 1 change request | both sides of every payment add up, balances are what is due, orders have given out what their invoices bill and no more |

Why the bounds are enough. Three requests with two keys are the smallest in which a
wait cycle and a bystander coexist; a dedupe race needs two. Two workers and an
administrator give every kind of pair of sessions that can meet on one row. Two attempts
distinguish a retry from giving up. Two bookings and two slots cover the fight for a
last seat and the move to another; two submissions of one link and a third candidate
cover double submission together with competition. `SlotSeats` forces no failure of a
confirmation (`MaxAborts` 0): one fails all the same when its application is deleted under it, and
the safety properties are proved for every bound. Six requests take
two sheets through save, submit and one further step each, or one sheet through
save, submit, approve, reject, submit and approve; one overlap lets any two of them
race, and one day of leave for two sheets makes every race one for the last day.
With those bounds the cut by the comp-off limit, a negative comp-off balance, the
floor at zero, a short balance and an overtaken recalculation all occur.
One question suffices for an interview, because an answer can be missing from a report or not; a
submission, the recovery of the same interview and a re-score can meet two by two, and the
restart or failure may fall between any two steps. Five requests on a candidacy are a score, a
decision, a reopening, another invitation and its score.
`ReceivableDays` starts from books with history, a tax invoice that is open for payment, draws
on an order and is part paid out of a received amount with money left, so three requests
reach what would take six or seven from nothing: a second receipt and its undoing, a change
request that is approved after its order changed, a conversion and a deletion. Values 1 and
2 against orders of 2 and 3 make orders just cover, just fail to, and run out. `MaxMoney`
only bounds sums and is never reached.

Environment bounds are CONSTANTS (`MaxLost`, `MaxAmbiguous`, `MaxToggles`,
`MaxRetries`, `MaxAborts`, `MaxDeletes`, `MaxRequests`, `MaxOverlaps`, `MaxPolicies`,
`MaxCalls`, `MaxFaults`, `MaxOps`, `MaxLinks`, `MaxMoney`) and appear as guards. `AttemptsBounded` is
checked with one administrator. Two whose reads straddle a muted
and a failed outcome can leave a row Queued with its attempts at the maximum, and it
is then sent once more; it is proved as long as no two of them retry one row at once.

Deadlock is checked in `OutboxLive` (an idle worker can always poll). The other runs
really stop: requests end, bookings are decided, the requests of a run are used up.

**Fairness.** A request handler that has started runs to its end (`RequestStep`,
`Progress`, `Finish`); rolling back is not forced. The worker loops catch every
exception and are restarted with their process: weak fairness of `DrainStep`
(`_worker_loop`, `start_outbox_worker`) and of `Pass` (the recovery loop of `main.py`, every five minutes). A sync
thread that was started ends (`Deliver`), unless the process restarts. Time passes: weak fairness of
`BackoffPasses` and `Tick`. Administrators, recruiters, candidates, reviewers,
switches, crashes, restarts and the repeat window have none.

## 5. Proofs

The seven `...Proofs` modules hold for any constants that satisfy the assumptions named in
the modules (`ConstantsAssumption`, `BookingAssumption`, `LedgerAssumption`,
`ReportAssumption` with `NoReportAssumption`, `SyncAssumption`, `BooksAssumption` with
`OpeningAssumption` and `AbsentTds`): any number of
requests, mails, workers, administrators, slots, candidates, concurrent submissions,
sheets and days, questions, tasks, invitations, invoices, orders, receipts and open
sessions, any policies, amounts and opening books, with or without
the advisory lock, and any bounds. Sheets, invoices and payments are finitely many,
as rows of a table are; the books at the start add up (`OpeningAddsUp`).

Where a property fails for an ordinary sequence of requests, a theorem says when it
holds. Its condition is a hypothesis about the whole behaviour (`[]RetriesApart`, say): it
excludes the overlap, or the kind of row, that the counterexample rests on. Only `QueueingIsHarmless`, which needs
lookups that answer, and the corollaries for a single administrator or recruiter restrict a constant. That such a condition is needed was seen with TLC: without it the property
is violated. Of the five findings four have such a theorem; the fifth, `LinkNeverStuck`, is a
liveness property, of which the safety half is proved.

*Sums.* Balances that must agree with a sum over rows need facts about
`MapThenSumSet` for any finite set: that a sum changes by what one of its terms changes
(`SumChanges`), that sums over disjoint sets add up (`SumOfUnion`), that terms may be renamed
(`SumOfImage`), that a part may be left out (`SumOfPart`, `SumWithout`). `Sums` proves them
by a minimal counterexample: strict inclusion is well founded on the subsets of a finite
set, so a false statement would be false of a smallest set, from which one element can be
taken away.

*Outbox.* The checked invariants are not inductive: that a flushed row clashes with
none needs the index to cover uncommitted rows, that a batch may be committed needs
its image to match the table, and that a retry is accounted for needs what was read
to bound what may have happened since. `IInv` is the conjunction of `TypeOK`;
`Follows` (stage of a row against phase and outcome of its request); `UniqueKeys`
(at most one row per key is in the table, visible or not); `Claims` (batches are disjoint, claimed rows are committed and
Queued, images agree); `Picks` (administrators have read committed rows that were not Sent)
and `SendsAccounted`. From it: `TypeCorrect`, `MailFollowsTheChange`,
`KeysAreUnique`, `ClaimsAreExclusive`, `DeliveriesAreAccounted`. With `Drafts`
(an uncommitted row is never Skipped) it also gives the refinement
`OutboxKeepsPromise`: a commit maps to `Commit`, a rollback of any kind to `Abort`,
the commit of a batch to `Settle` or a stutter, a retry to `Requeue` or a stutter. `NoDuplicateIsLost` proves `NoMailLost` with one more invariant, `Backed`:
a message that an open or committed request dropped as a repeat has a row alike that this request reads. It
holds because a row once committed stays in the table (`VisibleStays`) and a message is
dropped only for such a row (`NewDuplicate`).
`AttemptsAreBounded` proves `AttemptsBounded` under `RetriesApart`: no two administrators
have a retry of one row in flight. It adds `ImagesBounded` (what a drain will write is
within the bound) and `SettledAsRead` (a settled row stays as a retry read it). The
condition holds with a single administrator (`OneAdministratorSuffices`).
`QueueingIsHarmless` proves that queueing never fails the action that triggers it as long as
lookups answer and no two transactions hold one dedupe key uncommitted at once
(`KeysApart`): then a request has one unflushed row and it has no twin in the table
(`OneDraft`, `NoTwin`), so there is no conflict and no cycle of waits.

*Slots.* `IInv` is `TypeOK`; `Custody` (a session past the lock holds it, what it
loaded is still the row's counter, and there is a seat left); `Ahead` (between
scheduling and commit the legacy database is one interview ahead of the links);
`Stages` (no counter above its capacity); `Whole` (bookings against slots and links) and `SeatsAccounted`.
The counter is compared with a cardinality, so the proof rests on how `Holders`
changes when one booking changes (`HoldersChange`). From it: `SlotTypeCorrect`,
`SeatsAreAccounted`, `NeverOverbooked`, `ConfirmedBookingsAreWhole`.
`SlotBookingKeepsSeatPromise` is the refinement, for every value of the constants. A step of
the code is a step of the promise only because of `Known`: the booking a session or a reset
read exists, and the slot a deletion found unused was published, although neither
holds a lock on it; both stay true because no row is ever forgotten (`Remembered`).
`ApartBookingsMeetOnce` and `ApartResetsTouchNoFuture` prove what the code promises of
double submissions and of resets (`OneInterviewPerBooking`, `FutureBookingUntouched`) as
long as no booking is confirmed twice or reopened twice at a time (`SubmittedOnce`,
`ResetOnce`). Then what was read without a lock is still so when it is acted on: a
reset and a confirmation of one booking cannot meet, because the one starts from
Confirmed and missed and the other from Pending.

*Ledger.* `IInv` is `TypeOK`; `Busy` (a request that waits for the locks is one that
takes them, and knows its sheet); `ReleasedWithStatus`; `NoOverdraft` (the balance of
paid leave is not negative). Its use is in the locked step: with the balance not
negative and the test of `consume_pe_leave`, the debit equals what the ledger
records and the floor at zero is never reached for a paid type. From it:
`LedgerTypes`, `LeaveIsReleased`, and `PaidLeaveMoves`: every step moves paid leave
between the balance and one sheet, day for day. `PaidLeaveIsConserved` adds that up over
the sheets: `PaidLeaveConserved`. `FullyCharged` and
`CreditedOnce` speak of histories without overlapping requests, and rest on `SerialInv`:
at most one request is open (`Alone`), what it read is still what is stored (`Current`), and
then every submitted or approved sheet is charged in full (`Charged`), and
no credit exceeds what accrued and no accrual the days worked (`CreditOf`). From it: `LeaveIsChargedOnce`, `CompOffIsCreditedOnce`, and
`CompOffIsAccounted`: while requests do not overlap every step moves comp-off between the balance and one sheet,
whose sum over the sheets, `CompOffAddsUp`, is `CompOffAccounted`.
`SplitIsFrozenIfRoom` says exactly when an approval or recalculation freezes the split its ledger
holds (`FrozenSplitIsFinal`): the sheet needs no more days of the type, or all of them are
paid and the balance after the debit would pay for the new ones again (`Room`). The figures are
worked out once more from balances that are debited and a ledger that is not flushed, so new
days are asked for twice. Both are about requests that do not overlap, and `RoomMakesSplitFinal` follows
from the first.

*Report.* `IInv` is `TypeOK`; `Shapes` (which task is at which step with which
report in hand); `Unstored` (while no report is stored, no checkpoint is closed and no task
is past its first save); `SentOn` (a finished evaluation is stored and on its way); `PendingIsOwed`; `Scored`
(session, checkpoint, snapshots and record cover the answers given, each under the history
that excuses it) and `Carried` (with one writer at a time, the report in flight or
delivered is the one stored). The difficulty is `AnswersScored`: nine kinds of step copy
the interview between memory, row and task, so each copy needs its own bound. From it:
`TypeCorrect`, `ReadyHasReport`, `EveryAnswerScored`, `PendingHasOwner`, `CrmFollowsReport`.
`OnlyPeopleUnstick`: a link that is `Stuck` (a report is stored, the link has no verdict, no thread
carries one and no task is at work on it) stays so through any restarts, recovery passes and page
loads of the candidate; it takes a person who submits again, re-scores, edits or views. So
`ReportUnsynced` does not depend on its bounds.

*AI sync.* `Invariant` adds to the properties what an open session knows: that what it read is what is
there now, except in the columns marked `stale`, and that a session which announces
still holds its link. From it all six properties: `TypeCorrect`, `VerdictIsAnnounced`,
`VerdictIsOfScore`, `RejectionCloses`, `PassHandsOff`, `ClosedNeedsReopening`.
With `HealInv` (the decision an open session read is still the link's unless another
committed one, and a heal began from a link that passed) it gives `OnlyPassesMove`: a sync or load
moves a candidacy to RMG only if a link of it passed or was selected, unless the heal was
overtaken by a new verdict or decision. `UnvoidedPassesCount` is what is promised of
voided links, `VoidedPassDoesNotCount`, as long as no link is voided
and no heal overtaken.

*Receivables.* `IInv` is `TypeOK`, `BalanceDue`, `NeverOverdrawn` and `OpenHolds`: the
rows an open session will write satisfy the same two properties, except those torn by now.
Without `OpenHolds` nothing is known of what a late commit writes. After a commit a row is
torn, or untouched, or entirely what the session made of it, and then `OpenHolds` gives the
property. Each request has one lemma about the books it makes; those of an order rest on
lemmas about `Moved`. From it: `Typed`, `BalancesAreDue`, `OrdersCover`.
`ReceivablesSumProofs` proves `PoAccounts` and `PaymentsAddUp` (`OrdersAddUp`,
`PaymentsAreAccounted`) with `SumInv` on top of `TypeOK`. It adds to the two properties
`Tied` (what is paid or withheld is so on an invoice and of a receipt that are there, an
invoice is on an order that is there; foreign keys see to it at every commit),
`RevisesTax` (only a tax invoice has a pending change request),
`OpenFollows` (since a session read, invoices only moved on and payments kept their
amounts, and the ids it drew are in no other row or session) and
`OpenAddsUp` (what it will write adds up, but for torn rows). Without `OpenFollows` a
commit could change an amount in a sum whose row it leaves alone. A sum over the rows that
count is taken as one over all rows, with zero for the others (`OrderAdds`, `ReceiptAdds`,
`InvoiceAdds`), so a request changes a few terms; mapping an amount to many invoices at
once renames terms (`SettledReceipt`), and taking it back leaves a part out
(`SumWithout`).
All these except torn rows. `OnlyOverlapTears` proves that there are none as long as an open session
ends before anything else commits (`OneAtATime`): by `SerialInv`, what the open
session read is what is there, and a received amount that is deleted is named by no
payment or TDS record left, so no foreign key refers to a torn row.
`OneAtATimeBooksAgree` states all the accounts at once, `AccountsAgree`, with no row excepted for
overlap. Confirming an invoice and approving a note count as overlap here although the run does not
count them as requests.

Only model-checked: liveness (`EveryRequestEnds`, `EveryRowSettles`, `ConfirmEnds`,
`FinishedIsReported`, `ReportReachesLink`), which is out of the prover's reach. Every
safety property of a passing run is proved; `AttemptsBounded`, `FullyCharged`,
`CompOffAccounted` and `CreditedOnce` under the conditions above, which they need.

## 6. Disagreements between documentation and code

`OutboxConflict`, `SlotTwice`, `LedgerFrozen`, `ReportUnsynced` and `LinkVoided`
each refute one sentence of a docstring or of an answer the program gives; the sentence
and the line are in `PROJECT.json` under `findings`. None of them is a matter of the
model's abstractions: each trace is a sequence of ordinary requests.

The models of the outbox and of the slots also showed these, which no run states:

* A retry whose read precedes a worker's commit answers "Queued for retry", yet the row
  stays Failed, because only columns that differ from what was read are written
  (`routers/crm/email_outbox.py:176-188`); two such retries can send a mail once more.
* A calendar invite that failed inline is sent without its attachment when retried
  (`routers/crm/email_outbox.py:158`); a repeat is dropped for a recent row with the
  same text even when that row is Failed (`services/email_outbox.py:219`).
* A late reset of a missed booking cancels one that was confirmed for the future
  meanwhile (`routers/crm/slots.py:236`), and a deleted application keeps its seat
  counted (`services/slot_booking.py:411`).

The report model:

* `/report` of a session in memory stores and syncs the quick report early, and can write it over
  the AI report before the session is dropped, which the comment at `main.py:2498` rules out.
* Strengths and exclusions write back a record read before an AI call, over a re-score made since.
* A recovery beside a late answer or submission loses that answer; its attempts are never reset;
  `recovery_failed` can be overwritten by a later answer and the row is then never recovered.
* A second save that fails in a recovery replaces the AI report with the fallback one.
* A re-score sends the raw and then the excluded verdict in two threads with no order.

The sync model:

* Two overlapping syncs of one link leave a result that is not that of the score,
  although `models/ai_links.py:29` says they are written once.
* Passed, Failed, Passed again: the third notice is swallowed by its dedupe key; a change
  from not attempted to Failed is not announced.
* The loads that heal a pass ignore a reopening, unlike those that heal a rejection;
  a sync moves a candidacy that was put on hold.
* A corrected No Hire of the manual round can reopen a candidacy that the AI round rejected
  (`services/admin_corrections.py:105`).

The receivables model:

* The credit of a settled note (`Adjust_Balance`, `routers/crm/credit_notes.py:170`) is taken
  off the stored balance only. The next payment, TDS or change request works the balance out
  again without it (`services/tax.py:76`), and the customer owes it once more.
* Two sessions on one row lose an update: two mappings of one received amount hand out the
  same money twice, two draws overdraw an order that covers either.
* Undoing an invoice deletes its payments, but what they took of received amounts does not
  come back on account (`services/crm_delete.py:87`).
* A received amount may settle a Proforma (`payment_block` does not stop it in
  `create_receipt`), while mapping one later is refused, as `models/finance.py:47` says.
* A change request compares the new total with what was paid, not with TDS, so the
  balance stops at zero; approved after its target order was cancelled, it draws on it and makes
  it Active, because the text of an Enum is compared (`services/tax.py:138`).
* Removing a TDS record leaves it counted in `tds_total` of the received amount it came with.

The ledger model:

* A credit cut by the customer's limit is recorded in `comp_off_accrued` in full
  (`services/timesheets.py:2079`), so a rejection takes back more than was given.
* Two saves of one sheet at once credit its weekend twice, although
  `routers/crm/timesheets.py:1311` calls the credit "Safe on every save";
  comp-off is read without a lock and written as an absolute value, so an update of
  another transaction can also be lost.
* With `comp_off_covers_lop`, the accrual of submit follows its own unflushed
  consumption and may find a delta although line 1316 of the router expects a zero one.
* A recalculation that waits behind a rejection takes the leave again for the
  Rejected sheet.
* A save that passed its check before a submission changes the entries of the
  Submitted sheet; the leave taken follows at the next approval or recalculation.
* Of two deletions of one sheet the second withdraws the comp-off once more.

`FullyCharged`, `CompOffAccounted` and `CreditedOnce` are therefore stated for
requests that do not overlap.

## 7. Not modelled

Wording, templates, recipients and HTML of mails; candidate and profile creation
inside a confirmation; contact details; uploads. SMTP is configured, and is an answer
(accepted, refused, refused although accepted); without it a drain returns at once and
changes nothing. PostgreSQL is its row locks, its unique index
and foreign key, its deadlock detector and the release of locks at the end of a
session. The order of a claim (`next_attempt_at`) is not kept: a claim may take any
due rows, which includes the order of the code. In the ledger days are whole, leave
has one paid type besides Comp-Off, the balance rows exist, and invoices appear
only as sheets that take no Recalculate and no Reject; Loss of Pay of absent and half days
and comp-off for days above a customer's monthly cap (`services/timesheets.py:2326`, `2350`) are
left out, and so are sheets without an assignment, for which an approval freezes nothing; `reopen_for_correction` is
Reject. Among the receivables there is one customer with one branch, GST is a function of
the base value, amounts are whole and dates are free, so "oldest first" is any order
and no order expires (`services/finance.py:521`); numbers, round-off, returned proformas (and with them their refusal, and the payments a reissue deletes), splits of a sheet over several invoices, allocations
of an order to projects, the creation and renewal of orders, bank accounts and PDFs are left out.

Most of the repository is not modelled, and most of that would gain nothing from it. The
larger files (`main.py`, `auth_db.py`, `ai.py`, `candidate_profiles.py`, `work_desk.py`) are
calls to language models and their prompts, parsing and scoring of texts, reports and
dashboards that only read, schema set-up, and single-row edits behind a permission check:
sequential code without shared state beyond the row it edits, whose errors a unit test
finds. What remains and could be modelled: the stages of a candidacy after the hand-over to
Sales, cancelling an AI interview, the monthly leave credit, splits of an invoice. `PROJECT.json`
gives the reason for each component.
