--------------------------- MODULE InterviewReport ---------------------------
(***************************************************************************)
(* How one AI interview gets its report, and the CRM its verdict           *)
(* (backend/main.py, auth_db.py, session.py).                              *)
(*                                                                         *)
(* The candidate's session lives in the memory of the one server process   *)
(* and is checkpointed to interview_progress.  A submission writes a quick *)
(* fallback report and leaves the AI evaluation to a background task; the  *)
(* recovery worker and page loads finalize interviews that were left; a    *)
(* reviewer re-scores or edits a finished report.  Each of them writes the *)
(* whole interview_records row, and a thread of its own carries what was   *)
(* written to the CRM link.  A restart of the server loses the sessions,   *)
(* the tasks and the threads.                                              *)
(*                                                                         *)
(* Abstractions.  A report is its evaluator, the number of answers it      *)
(* scores and whether a question is excluded from the score.  The time     *)
(* since the last activity is 0 (inside the 10 minutes an upgrade is       *)
(* given), 1, or 2 (left: 35 minutes, 60 without an answer).  The mirror   *)
(* file and the schedule row are left out.  Submissions by HR itself have  *)
(* no invite and no CRM link and are not modelled.                         *)
(***************************************************************************)
EXTENDS Naturals

CONSTANTS
  Thread,        \* background tasks and worker threads that may run at once
  MaxAnswers,    \* questions of the interview
  MaxAttempts,   \* INTERVIEW_RECOVERY_MAX_ATTEMPTS
  AdvisoryLock,  \* recovery passes exclude each other: on PostgreSQL, unless
                 \* the lock query fails; never on SQLite
  MaxCalls,      \* bound: submissions, edits and report requests
  MaxFaults,     \* bound: restarts and database or CRM failures
  NoReport, NoSession

ASSUME ReportAssumption ==
  MaxAnswers \in Nat /\ MaxAttempts \in Nat \ {0}
    /\ MaxCalls \in Nat /\ MaxFaults \in Nat /\ AdvisoryLock \in BOOLEAN

Report == [kind : {"fallback", "ai"}, n : 0..MaxAnswers, ex : BOOLEAN]
Fallback(n) == [kind |-> "fallback", n |-> n, ex |-> FALSE]
Evaluated(n) == [kind |-> "ai", n |-> n, ex |-> FALSE]

ASSUME NoReportAssumption == NoReport \notin Report

VARIABLES
  session,    \* sessions[sk]: the interview in memory
  progress,   \* the interview_progress row
  begun,      \* the candidate has signed in (the schedule row)
  record,     \* the report in interview_records
  link,       \* the report whose verdict the CRM link holds
  jobs,       \* jobs[t]: what thread t is doing
  syncs,      \* syncs[r]: threads that carry report r to the CRM
  given,      \* answers the candidate was told are recorded (history)
  late,       \* one, or a placeholder, came beside or after a finalization
              \* (history)
  unsaved,    \* a checkpoint failed or was not reached (history)
  lost,       \* a restart or a failure hit work in flight (history)
  raced,      \* two reports were written or synced side by side (history)
  used        \* what the environment has used of its bounds

history == <<given, late, unsaved, lost, raced>>
vars == <<session, progress, begun, record, link, jobs, syncs, history, used>>

(* comp, fin and sub are the session's completed, finalizing and submitted. *)
Sess == [n : 0..MaxAnswers, comp : BOOLEAN, fin : BOOLEAN, sub : BOOLEAN,
         rep : Report \cup {NoReport}]
Empty == [n |-> 0, comp |-> FALSE, fin |-> FALSE, sub |-> FALSE, rep |-> NoReport]

Final == {"ready", "no_report_needed", "recovery_failed"}
RowRec == [over : BOOLEAN, rs : {"", "pending", "generating"} \cup Final,
           s : Sess, tries : Nat, age : 0..2, wait : BOOLEAN]

(* task: what the thread runs; pc: its next step; s: its snapshot of the     *)
(* session; rep: the report it holds and will write.                        *)
Idle == [task |-> "none", pc |-> "idle", s |-> Empty, rep |-> NoReport]
Recovery == {"recover", "stale", "cold"}
Job == [task : Recovery \cup {"none", "submit", "rescore", "view", "edit"},
        pc : {"idle", "fast", "mark", "eval", "again", "close", "count", "write"},
        s : Sess, rep : Report \cup {NoReport}]

TypeOK ==
  /\ session \in Sess \cup {NoSession}
  /\ progress \in RowRec
  /\ record \in Report \cup {NoReport} /\ link \in Report \cup {NoReport}
  /\ jobs \in [Thread -> Job]
  /\ syncs \in [Report -> Nat]
  /\ given \in 0..MaxAnswers
  /\ {begun, late, unsaved, lost, raced} \subseteq BOOLEAN
  /\ used \in [calls : 0..MaxCalls, faults : 0..MaxFaults]

Init ==
  /\ session = Empty
  /\ progress = [over |-> FALSE, rs |-> "", s |-> Empty, tries |-> 0,
                 age |-> 0, wait |-> FALSE]
  /\ begun = FALSE /\ record = NoReport /\ link = NoReport
  /\ jobs = [t \in Thread |-> Idle]
  /\ syncs = [r \in Report |-> 0]
  /\ given = 0
  /\ late = FALSE /\ unsaved = FALSE /\ lost = FALSE /\ raced = FALSE
  /\ used = [calls |-> 0, faults |-> 0]

------------------------------------------------------------------------------
(* Helpers.                                                                 *)

Working(t) == jobs[t].pc # "idle"
Resting == (\A t \in Thread : ~Working(t)) /\ (\A r \in Report : syncs[r] = 0)
Passes == {t \in Thread : jobs[t].task \in Recovery}

Call == used.calls < MaxCalls /\ used' = [used EXCEPT !.calls = @ + 1]
Fault == used.faults < MaxFaults /\ used' = [used EXCEPT !.faults = @ + 1]

\* Mutant: an interview that is over counts as reported.
ReadyWhenOver(s, over) == IF over THEN "ready" ELSE ""
\* Mutant: a status of the record, which the checkpoint does not know.
RecordStatus(s, over) == IF over THEN "fallback" ELSE ""

DefaultStatus(s, over) ==
  IF s.rep # NoReport THEN "ready" ELSE IF over THEN "pending" ELSE ""

\* Mutant: the payload of the first checkpoint is kept.
FirstPayload(s, over, rs) == [progress EXCEPT !.over = over, !.rs = rs, !.age = 0]

(* _persist_interview_progress: best effort, and it leaves the recovery     *)
(* attempts alone.                                                          *)
Saved(s, over, rs) == [progress EXCEPT !.over = over, !.rs = rs, !.s = s, !.age = 0]
Persist(s, over, rs) ==
  \/ progress' = Saved(s, over, rs) /\ UNCHANGED <<unsaved, used>>
  \/ Fault /\ unsaved' = TRUE /\ UNCHANGED progress

(* sessions.get(sk), or the session rebuilt from the checkpoint.            *)
Current == IF session = NoSession THEN progress.s ELSE session

(* session_lock: the part of a submission that runs before its answer.      *)
Locked == \E t \in Thread : jobs[t].pc \in {"fast", "mark"}
Refused(s) == s.fin \/ s.comp

(* t writes r beside other work, or while another report is in flight.      *)
Races(t, r) == (\E u \in Thread \ {t} : Working(u)) \/ (\E x \in Report : x # r /\ syncs[x] > 0)
Store(t, r) == record' = r /\ raced' = (raced \/ Races(t, r))

\* Mutant: a link that has a verdict is left alone.
FirstSync(r) == syncs' = IF link = NoReport THEN [syncs EXCEPT ![r] = @ + 1] ELSE syncs

(* _crm_sync_interview_async of report r.                                   *)
Sync(r) == syncs' = [syncs EXCEPT ![r] = @ + 1]

(* An answer that arrives beside a finalization, or after it, comes late.    *)
Late(arrives) == late' = (late \/ (arrives /\ (record # NoReport \/ \E t \in Thread : Working(t))))

------------------------------------------------------------------------------
(* The candidate.                                                           *)

SignIn ==
  /\ ~begun /\ ~Refused(Current) /\ ~Locked
  /\ begun' = TRUE /\ session' = Current
  /\ Persist(Current, FALSE, DefaultStatus(Current, FALSE))
  /\ UNCHANGED <<record, link, jobs, syncs, given, late, lost, raced>>

Answer ==
  LET s == [Current EXCEPT !.n = @ + 1] IN
  /\ begun /\ ~Refused(Current) /\ ~Locked /\ Current.n < MaxAnswers
  /\ session' = s
  /\ Persist(s, FALSE, DefaultStatus(s, FALSE))
  /\ given' = s.n /\ Late(TRUE)
  /\ UNCHANGED <<begun, record, link, jobs, syncs, lost, raced>>

(* /answer past the last question or the time limit.                        *)
RunOut ==
  LET s == [Current EXCEPT !.comp = TRUE] IN
  /\ begun /\ ~Refused(Current) /\ ~Locked
  /\ session' = s
  /\ Persist(s, TRUE, DefaultStatus(s, TRUE))
  /\ UNCHANGED <<begun, record, link, jobs, syncs, given, late, lost, raced>>

(* Too many policy violations: the session itself stays answerable.         *)
Terminate ==
  /\ begun /\ session # NoSession /\ ~progress.over
  /\ Persist(session, TRUE, DefaultStatus(session, TRUE))
  /\ UNCHANGED <<session, begun, record, link, jobs, syncs, given, late, lost, raced>>

(* /submit, with an answer typed but not sent or without one.  A repeat     *)
(* finds the report that was made; a record that exists is reused, and the  *)
(* AI evaluation is queued all the same.  A closed interview takes no answer.*)
Submit(t) == \E pending \in {0, 1} :
  LET s == [Current EXCEPT !.n = @ + pending, !.fin = TRUE] IN
  /\ begun /\ ~Locked /\ ~Working(t) /\ s.n <= MaxAnswers
  /\ Current.comp => pending = 0
  /\ ~(Current.fin /\ Current.rep # NoReport)
  /\ \/ /\ record # NoReport
        /\ session' = s
        /\ jobs' = [jobs EXCEPT ![t] = [task |-> "submit", pc |-> "mark", s |-> s, rep |-> NoReport]]
     \/ /\ record = NoReport
        /\ session' = [s EXCEPT !.comp = TRUE, !.sub = TRUE]
        /\ jobs' = [jobs EXCEPT ![t] = [task |-> "submit", pc |-> "fast", s |-> s, rep |-> NoReport]]
  /\ Call /\ Late(pending = 1)
  /\ UNCHANGED <<progress, begun, record, link, syncs, given, unsaved, lost, raced>>

(* The quick report: stored, mirrored for HR, not sent to the CRM.          *)
FastReport(t) ==
  LET j == jobs[t]
      r == Fallback(j.s.n) IN
  /\ j.pc = "fast"
  /\ Store(t, r)
  /\ session' = IF session = NoSession THEN session ELSE [session EXCEPT !.rep = r]
  /\ jobs' = [jobs EXCEPT ![t] = [@ EXCEPT !.pc = "mark", !.rep = r]]
  /\ UNCHANGED <<progress, begun, link, syncs, given, late, unsaved, lost, used>>

(* The quick report fails, before it is stored or after, or the look for    *)
(* one to reuse: the submission is answered with an error, no task starts.  *)
FastReportFails(t) ==
  LET j == jobs[t] IN
  /\ j.pc = "fast" \/ (j.pc = "mark" /\ j.rep = NoReport)
  /\ Fault
  /\ (j.pc = "fast" /\ Store(t, Fallback(j.s.n))) \/ UNCHANGED <<record, raced>>
  /\ jobs' = [jobs EXCEPT ![t] = Idle]
  /\ lost' = (lost \/ record' # NoReport)
  /\ unsaved' = (unsaved \/ j.s.n # progress.s.n)
  /\ UNCHANGED <<session, progress, begun, link, syncs, given, late>>

(* The checkpoint and the answer to the candidate; the task starts.         *)
Submitted(t) ==
  LET j == jobs[t]
      s == IF j.rep = NoReport THEN j.s
           ELSE [j.s EXCEPT !.comp = TRUE, !.sub = TRUE, !.rep = j.rep] IN
  /\ j.pc = "mark"
  /\ Persist(s, TRUE, IF j.rep = NoReport THEN "ready" ELSE "generating")
  /\ given' = j.s.n
  /\ jobs' = [jobs EXCEPT ![t] = [@ EXCEPT !.pc = "eval", !.rep = NoReport]]
  /\ UNCHANGED <<session, begun, record, link, syncs, late, lost, raced>>

------------------------------------------------------------------------------
(* Recovery of interviews that were left.                                   *)

(* _finalize_interview_snapshot up to its evaluation: an existing report    *)
(* only closes the checkpoint.                                              *)
Start(t, task, s, added) ==
  LET closed == [s EXCEPT !.comp = TRUE, !.sub = TRUE]
      next(pc, x) == [task |-> task, pc |-> pc, s |-> x, rep |-> NoReport] IN
  /\ Late(Locked \/ added)
  /\ \/ /\ record # NoReport
        /\ Persist(s, TRUE, "ready")
        /\ jobs' = [jobs EXCEPT ![t] = next("count", s)]
     \/ /\ record = NoReport
        /\ Persist(closed, TRUE, "generating")
        /\ jobs' = [jobs EXCEPT ![t] = next("eval", closed)]

MayPass(t) == ~Working(t) /\ (Passes = {} \/ ~AdvisoryLock)

\* Mutant: only interviews that ended are recovered.
OverOnly(p) ==
  p.rs \notin Final /\ p.tries < MaxAttempts /\ ~p.wait
    /\ p.over /\ ~(p.rs = "generating" /\ p.age = 0)

Recoverable(p) ==
  /\ p.rs \notin Final /\ p.tries < MaxAttempts /\ ~p.wait
  /\ IF p.over THEN ~(p.rs = "generating" /\ p.age = 0) ELSE p.age = 2

NeverStarted(p) == ~p.over /\ p.s.n = 0 /\ ~begun

Recover(t) ==
  /\ MayPass(t) /\ Recoverable(progress) /\ ~NeverStarted(progress)
  /\ Start(t, "recover", progress.s, FALSE)
  /\ UNCHANGED <<session, begun, record, link, syncs, given, lost, raced>>

(* Prepared when the link was opened, not begun: parked until the sign-in.  *)
Park ==
  /\ Recoverable(progress) /\ NeverStarted(progress)
  /\ progress' = [progress EXCEPT !.rs = "no_report_needed"]
  /\ UNCHANGED <<session, begun, record, link, jobs, syncs, history, used>>

(* A page load queued an interview past its time limit, and the pass        *)
(* finalizes the session in memory itself, or out of memory its checkpoint. *)
(* An interview without an answer is given a placeholder for one.           *)
FinalizeStale(t) ==
  LET added == Current.n = 0 /\ ~Current.comp /\ MaxAnswers > 0
      s == [Current EXCEPT !.n = IF added THEN 1 ELSE @] IN
  /\ MayPass(t) /\ begun /\ ~progress.over
  /\ Start(t, IF session = NoSession THEN "cold" ELSE "stale", s, added)
  /\ session' = IF session = NoSession THEN NoSession
                ELSE IF record = NoReport THEN [s EXCEPT !.comp = TRUE, !.sub = TRUE] ELSE s
  /\ UNCHANGED <<begun, record, link, syncs, given, lost, raced>>

(* record_interview_recovery_attempt after a success; the session is popped.*)
Count(t) ==
  /\ jobs[t].pc = "count"
  /\ progress' = IF jobs[t].task # "recover" THEN progress
                 ELSE [progress EXCEPT !.tries = @ + 1, !.rs = IF @ \in Final THEN @ ELSE "ready"]
  /\ session' = NoSession
  /\ jobs' = [jobs EXCEPT ![t] = Idle]
  /\ UNCHANGED <<begun, record, link, syncs, history, used>>

(* The pass fails on a row: counted, with a backoff, and given up at last.  *)
(* Not even the fallback report is stored, or what follows a report raises. *)
RecoverFails(t) ==
  /\ jobs[t].pc \in {"eval", "again", "close"} /\ jobs[t].task \in Recovery
  /\ Fault
  /\ progress' = IF jobs[t].task # "recover" THEN progress
                 ELSE [progress EXCEPT
                         !.tries = @ + 1, !.wait = TRUE,
                         !.rs = IF progress.tries + 1 >= MaxAttempts /\ @ \notin Final
                                THEN "recovery_failed" ELSE @]
  /\ jobs' = [jobs EXCEPT ![t] = Idle]
  /\ UNCHANGED <<session, begun, record, link, syncs, history>>

------------------------------------------------------------------------------
(* Evaluation.                                                              *)

(* Where a task goes when its evaluation is stored, and when it is stored   *)
(* again with its final status.                                             *)
AfterEval(task) == IF task = "view" THEN "idle" ELSE "again"
AfterAgain(task) == IF task = "rescore" THEN "idle" ELSE "close"
Advance(t, pc, r) ==
  LET s == [jobs[t].s EXCEPT !.rep = r] IN
  jobs' = [jobs EXCEPT ![t] = IF pc = "idle" THEN Idle ELSE [@ EXCEPT !.pc = pc, !.s = s]]

(* The tasks that work on the session in memory, not on a copy of it.       *)
InMemory(t, r) ==
  IF jobs[t].task \in {"stale", "view"} /\ session # NoSession
  THEN [session EXCEPT !.rep = r] ELSE session

(* _evaluate_and_store_report.                                              *)
Evaluate(t) ==
  LET r == Evaluated(jobs[t].s.n) IN
  /\ jobs[t].pc = "eval"
  /\ Store(t, r) /\ Sync(r)
  /\ Advance(t, AfterEval(jobs[t].task), r)
  /\ session' = InMemory(t, r)
  /\ UNCHANGED <<progress, begun, link, given, late, unsaved, lost, used>>

(* The second save, with the exclusions a re-score read at its start.       *)
StoreAgain(t) ==
  LET j == jobs[t]
      r == IF j.task = "rescore" THEN [j.s.rep EXCEPT !.ex = j.rep.ex] ELSE j.s.rep IN
  /\ j.pc = "again"
  /\ Store(t, r) /\ Sync(r)
  /\ Advance(t, AfterAgain(j.task), r)
  /\ UNCHANGED <<session, progress, begun, link, given, late, unsaved, lost, used>>

Breaks(t) == \/ jobs[t].pc = "eval" /\ UNCHANGED used
             \/ jobs[t].pc = "again" /\ Fault

(* The evaluation, or the save after it, raises in a recovery: the fallback *)
(* report is stored.                                                        *)
FallBack(t) ==
  LET r == Fallback(jobs[t].s.n) IN
  /\ jobs[t].task \in Recovery /\ Breaks(t)
  /\ Store(t, r) /\ Sync(r)
  /\ Advance(t, "close", r)
  /\ session' = InMemory(t, r)
  /\ UNCHANGED <<progress, begun, link, given, late, unsaved, lost>>

\* Mutant: a failed background task sends nothing.
NoSalvage(t) == syncs

(* It raises in the background task: the report that is stored goes to the  *)
(* CRM.  It raises elsewhere: nothing is sent.                              *)
Salvage(t) == IF jobs[t].task = "submit" /\ record # NoReport
              THEN [syncs EXCEPT ![record] = @ + 1] ELSE syncs

EvaluationFails(t) ==
  /\ jobs[t].task \in {"submit", "rescore", "view"} /\ Breaks(t)
  /\ syncs' = Salvage(t)
  /\ raced' = (raced \/ \E u \in Thread \ {t} : Working(u))
  /\ jobs' = [jobs EXCEPT ![t] = Idle]
  /\ UNCHANGED <<session, progress, begun, record, link, given, late, unsaved, lost>>

(* The closing checkpoint, and sessions.pop.                                *)
Close(t) ==
  LET j == jobs[t] IN
  /\ j.pc = "close"
  /\ Persist(j.s, TRUE, "ready")
  /\ jobs' = [jobs EXCEPT ![t] = IF j.task = "recover" THEN [@ EXCEPT !.pc = "count"] ELSE Idle]
  /\ session' = IF j.task = "recover" THEN session ELSE NoSession
  /\ UNCHANGED <<begun, record, link, syncs, given, late, lost, raced>>

(* The statistics raise after the closing checkpoint of the background task: *)
(* the session stays, and the report goes to the CRM once more.             *)
CloseFails(t) ==
  /\ jobs[t].pc = "close" /\ jobs[t].task = "submit" /\ Fault
  /\ progress' = Saved(jobs[t].s, TRUE, "ready")
  /\ syncs' = Salvage(t)
  /\ raced' = (raced \/ \E u \in Thread \ {t} : Working(u))
  /\ jobs' = [jobs EXCEPT ![t] = Idle]
  /\ UNCHANGED <<session, begun, record, link, given, late, unsaved, lost>>

------------------------------------------------------------------------------
(* Reviewers.                                                               *)

(* Re-score a finished interview from its saved transcript.                 *)
Rescore(t) ==
  /\ record # NoReport /\ progress.s.n > 0 /\ ~Working(t) /\ Call
  /\ \A u \in Thread : jobs[u].task # "rescore"
  /\ jobs' = [jobs EXCEPT ![t] = [task |-> "rescore", pc |-> "eval", s |-> progress.s, rep |-> record]]
  /\ late' = (late \/ Locked)
  /\ UNCHANGED <<session, progress, begun, record, link, syncs, given, unsaved, lost, raced>>

(* Exclude a question from the score or include it again, or have strengths *)
(* or L2 questions written: the record that was read is written back after  *)
(* an AI call.                                                              *)
Edit(t) ==
  /\ record # NoReport /\ ~Working(t) /\ Call
  /\ \E ex \in BOOLEAN :
       jobs' = [jobs EXCEPT ![t] = [task |-> "edit", pc |-> "write", s |-> Empty,
                                    rep |-> [record EXCEPT !.ex = ex]]]
  /\ UNCHANGED <<session, progress, begun, record, link, syncs, history>>

WriteEdit(t) ==
  /\ jobs[t].pc = "write"
  /\ Store(t, jobs[t].rep) /\ Sync(jobs[t].rep)
  /\ jobs' = [jobs EXCEPT ![t] = Idle]
  /\ UNCHANGED <<session, progress, begun, link, given, late, unsaved, lost, used>>

(* /report of a session still in memory: the report it holds is stored and  *)
(* synced once more, or made.                                               *)
View(t) ==
  /\ session # NoSession /\ ~Working(t) /\ Call
  /\ session.sub
  /\ \/ /\ session.rep # NoReport
        /\ Store(t, session.rep) /\ Sync(session.rep)
        /\ UNCHANGED jobs
     \/ /\ session.rep = NoReport
        /\ jobs' = [jobs EXCEPT ![t] = [task |-> "view", pc |-> "eval", s |-> session, rep |-> NoReport]]
        /\ UNCHANGED <<record, syncs, raced>>
  /\ UNCHANGED <<session, progress, begun, link, given, late, unsaved, lost>>

------------------------------------------------------------------------------
(* The threads to the CRM, the clock and the server.                        *)

Deliver(r) ==
  /\ syncs[r] > 0
  /\ syncs' = [syncs EXCEPT ![r] = @ - 1]
  /\ \/ link' = r /\ UNCHANGED <<lost, used>>
     \/ Fault /\ lost' = TRUE /\ UNCHANGED link
  /\ UNCHANGED <<session, progress, begun, record, jobs, given, late, unsaved, raced>>

Tick ==
  /\ progress.age < 2 \/ progress.wait
  /\ progress' = [progress EXCEPT !.age = IF @ = 2 THEN 2 ELSE @ + 1, !.wait = FALSE]
  /\ UNCHANGED <<session, begun, record, link, jobs, syncs, history, used>>

Restart ==
  /\ Fault
  /\ session' = NoSession
  /\ jobs' = [t \in Thread |-> Idle]
  /\ syncs' = [r \in Report |-> 0]
  /\ lost' = (lost \/ ~Resting)
  /\ UNCHANGED <<progress, begun, record, link, given, late, unsaved, raced>>

Candidate == SignIn \/ Answer \/ RunOut \/ Terminate \/ \E t \in Thread : Submit(t)
Finish(t) == FastReport(t) \/ Submitted(t) \/ Evaluate(t) \/ StoreAgain(t)
             \/ FallBack(t) \/ EvaluationFails(t) \/ Close(t) \/ Count(t) \/ WriteEdit(t)
Fail(t) == FastReportFails(t) \/ RecoverFails(t) \/ CloseFails(t)
Pass == Park \/ \E t \in Thread : Recover(t)
Reviewer == \E t \in Thread : Rescore(t) \/ Edit(t) \/ View(t)

Next ==
  \/ Candidate \/ Pass \/ Reviewer \/ Tick \/ Restart
  \/ \E t \in Thread : Finish(t) \/ Fail(t) \/ FinalizeStale(t)
  \/ \E r \in Report : Deliver(r)

Spec == Init /\ [][Next]_vars

(* The recovery worker runs every five minutes, an evaluation returns or    *)
(* fails, a started thread runs, time passes.                               *)
Fairness ==
  /\ WF_vars(Pass) /\ WF_vars(Tick)
  /\ \A t \in Thread : WF_vars(Finish(t))
  /\ \A r \in Report : WF_vars(Deliver(r))

FairSpec == Spec /\ Fairness

------------------------------------------------------------------------------
(* Properties.                                                              *)

(* A checkpoint closed as ready has its report: no path through submission, *)
(* upgrade or recovery, with restarts and failures between its steps, tells *)
(* the worker to leave an interview alone whose report was never stored.    *)
ReportBehindReady == progress.rs = "ready" => record # NoReport

(* The report scores every answer the candidate was told is recorded, at    *)
(* every moment, whichever of submission, upgrade, recovery or re-score     *)
(* wrote it and whatever restarts happened, unless an answer arrived beside *)
(* or after a finalization or a checkpoint could not be saved.              *)
AnswersScored == record # NoReport /\ ~late /\ ~unsaved => record.n >= given

(* A link that has no verdict yet, with a report stored and nothing lost,   *)
(* is owed one by work that is still under way.                             *)
PendingIsOwed ==
  record # NoReport /\ link = NoReport /\ ~lost =>
    \/ \E t \in Thread : jobs[t].task = "submit"
    \/ \E r \in Report : syncs[r] > 0

(* With nothing lost and writers one at a time, the verdict in the CRM is   *)
(* that of the report HR sees, through re-scores and exclusions.            *)
CrmMatchesReport ==
  record # NoReport /\ Resting /\ ~lost /\ ~raced => link = record

(* An interview with an answer gets a report, though the candidate leaves   *)
(* and the server restarts, unless recovery used up its attempts or a       *)
(* checkpoint was not saved.                                                *)
FinishedIsReported ==
  (given > 0) ~> (record # NoReport \/ progress.tries >= MaxAttempts \/ unsaved)

(* Unless something was lost, a stored report reaches the CRM link.         *)
ReportReachesLink == (record # NoReport) ~> (link # NoReport \/ lost)

(* "so the CRM link does not stay Pending forever" (backend/main.py,        *)
(* _upgrade_interview_report_background): a stored report always reaches    *)
(* the link.                                                                *)
LinkNeverStuck == (record # NoReport) ~> (link # NoReport)
==============================================================================
