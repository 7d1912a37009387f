------------------------ MODULE InterviewReportProofs ------------------------
(***************************************************************************)
(* Proofs about InterviewReport, for every number of threads, questions,   *)
(* attempts and faults, with or without the advisory lock.                 *)
(***************************************************************************)
EXTENDS InterviewReport, TLAPS

(* What a thread at each step is about and holds.                           *)
Shape(j) ==
  /\ j.pc = "idle" => j = Idle
  /\ j.task = "submit" => j.pc \in {"fast", "mark", "eval", "again", "close"}
  /\ j.pc \in {"fast", "mark"} => j.task = "submit"
  /\ j.pc \in {"again", "close"} => j.s.rep # NoReport
  /\ j.task = "rescore" \/ j.pc = "write" => j.rep # NoReport
Shapes == \A t \in Thread : Shape(jobs[t])

(* Before a report is stored nothing claims there is one.                   *)
Unstored ==
  record = NoReport =>
    /\ link = NoReport /\ \A r \in Report : syncs[r] = 0
    /\ session # NoSession => session.rep = NoReport
    /\ progress.s.rep = NoReport /\ progress.rs # "ready"
    /\ \A t \in Thread :
         /\ jobs[t].s.rep = NoReport /\ jobs[t].rep = NoReport
         /\ jobs[t].pc \notin {"mark", "again", "close", "count", "write"}

(* A task that has stored its evaluation has sent it on.                    *)
SentOn ==
  link = NoReport /\ ~lost /\ (\E t \in Thread : jobs[t].pc \in {"again", "close"})
    => \E r \in Report : syncs[r] > 0

(* The threads that carry a transcript, and the submissions under way.      *)
Carries(t) == jobs[t].pc \in {"fast", "mark", "eval", "again", "close", "count"}
Submits(t) == jobs[t].pc \in {"fast", "mark"}

(* The number of answers the interview has: what the memory and the threads *)
(* know agrees, and so does the checkpoint, but for a submission under way, *)
(* which it trails.                                                         *)
Live(n) == \/ session # NoSession /\ n = session.n
           \/ \E t \in Thread : Carries(t) /\ n = jobs[t].s.n
Reaches(n) == progress.s.n <= n /\ \A x \in Nat : Live(x) => x <= n
Settled(n) == Live(n) \/ (n = progress.s.n /\ \A t \in Thread : ~Submits(t))
Agree == given <= progress.s.n /\ \A x \in Nat : Settled(x) => Reaches(x)

(* No report, stored or held anywhere, scores fewer.                        *)
Held(r) == \/ r \in {record, progress.s.rep}
           \/ session # NoSession /\ r = session.rep
           \/ \E t \in Thread : r \in {jobs[t].rep, jobs[t].s.rep}
Covered == \A r \in Report : Held(r) => Reaches(r.n)
Scored == ~late /\ ~unsaved => Agree /\ Covered

(* With writers one at a time only the stored report is on its way, and it  *)
(* is on its way or will be.                                                *)
Carried ==
  ~lost /\ ~raced =>
    /\ \A r \in Report : syncs[r] > 0 => r = record
    /\ record # NoReport /\ link # record =>
         \/ syncs[record] > 0
         \/ \E t \in Thread : jobs[t].task = "submit" /\ jobs[t].pc \in {"mark", "eval"}

IInv == TypeOK /\ Shapes /\ Unstored /\ SentOn /\ PendingIsOwed /\ Scored /\ Carried

------------------------------------------------------------------------------
(* Types.                                                                   *)

Status == {"", "pending", "generating"} \cup Final
Used == [calls : 0..MaxCalls, faults : 0..MaxFaults]

\* The constant records.
LEMMA Constant ==
  /\ Empty \in Sess /\ Empty.rep = NoReport /\ Empty.n = 0
  /\ Idle \in Job /\ Idle.pc = "idle" /\ Idle.task = "none" /\ Idle.rep = NoReport
  /\ Idle.s = Empty
<1>1. Empty \in Sess /\ Empty.rep = NoReport /\ Empty.n = 0
  BY ReportAssumption DEF Empty, Sess
<1> QED BY <1>1 DEF Idle, Job

\* A report made of answers of the interview is a report.
LEMMA Made ==
  ASSUME NEW n \in 0..MaxAnswers
  PROVE  /\ Fallback(n) \in Report /\ Evaluated(n) \in Report
         /\ Fallback(n) # NoReport /\ Evaluated(n) # NoReport
         /\ Fallback(n).n = n /\ Evaluated(n).n = n
<1>1. Fallback(n) \in Report /\ Evaluated(n) \in Report
  BY DEF Fallback, Evaluated, Report
<1> QED BY <1>1, NoReportAssumption DEF Fallback, Evaluated

\* A report is not the absence of one.
LEMMA Reports == \A r \in Report : r # NoReport /\ r.n \in 0..MaxAnswers
  BY NoReportAssumption DEF Report

\* A bounded step of the environment stays in its bounds.
LEMMA Spent == ASSUME used \in Used, Call \/ Fault PROVE used' \in Used
<1>1. /\ used.calls \in 0..MaxCalls /\ used.faults \in 0..MaxFaults
      /\ used = [calls |-> used.calls, faults |-> used.faults]
  BY DEF Used
<1>2. CASE Call
  <2>1. used' = [calls |-> used.calls + 1, faults |-> used.faults] /\ used.calls < MaxCalls
    BY <1>1, <1>2 DEF Call
  <2>2. used.calls + 1 \in 0..MaxCalls
    BY <1>1, <2>1, ReportAssumption
  <2> QED BY <1>1, <2>1, <2>2 DEF Used
<1>3. CASE Fault
  <2>1. used' = [calls |-> used.calls, faults |-> used.faults + 1] /\ used.faults < MaxFaults
    BY <1>1, <1>3 DEF Fault
  <2>2. used.faults + 1 \in 0..MaxFaults
    BY <1>1, <2>1, ReportAssumption
  <2> QED BY <1>1, <2>1, <2>2 DEF Used
<1> QED BY <1>2, <1>3

\* A checkpoint is saved with what it was given, or noted as unsaved.
LEMMA Persisted ==
  ASSUME TypeOK, NEW s \in Sess, NEW over \in BOOLEAN, NEW rs \in Status,
         Persist(s, over, rs)
  PROVE  /\ progress' \in RowRec /\ used' \in Used /\ unsaved' \in BOOLEAN
         /\ \/ progress'.s = s /\ progress'.rs = rs /\ unsaved' = unsaved
            \/ progress' = progress /\ unsaved'
<1>1. progress \in RowRec /\ used \in Used /\ unsaved \in BOOLEAN
  BY DEF TypeOK, Used
<1>2. CASE progress' = Saved(s, over, rs) /\ UNCHANGED <<unsaved, used>>
  <2>1. /\ progress.tries \in Nat /\ progress.wait \in BOOLEAN
        /\ progress = [over |-> progress.over, rs |-> progress.rs, s |-> progress.s,
                       tries |-> progress.tries, age |-> progress.age, wait |-> progress.wait]
    BY <1>1 DEF RowRec
  <2>2. progress' = [over |-> over, rs |-> rs, s |-> s, tries |-> progress.tries,
                     age |-> 0, wait |-> progress.wait]
    BY <1>2, <2>1 DEF Saved
  <2>3. progress' \in RowRec
    <3>1. 0 \in 0..2
      OBVIOUS
    <3> QED BY <2>1, <2>2, <3>1 DEF RowRec, Status
  <2>4. progress'.s = s /\ progress'.rs = rs
    BY <2>2
  <2> QED BY <1>1, <1>2, <2>3, <2>4
<1>3. CASE Fault /\ unsaved' = TRUE /\ UNCHANGED progress
  BY <1>1, <1>3, Spent
<1> QED BY <1>2, <1>3 DEF Persist

\* The default status of a session.
LEMMA Defaults ==
  ASSUME NEW s, NEW over \in BOOLEAN
  PROVE  /\ DefaultStatus(s, over) \in Status
         /\ s.rep = NoReport => DefaultStatus(s, over) # "ready"
  BY DEF DefaultStatus, Status, Final

\* The session a request works on.
LEMMA CurrentIs ==
  ASSUME TypeOK
  PROVE  /\ Current \in Sess /\ progress.s \in Sess /\ progress.s.rep \in Report \cup {NoReport}
         /\ session # NoSession => session \in Sess
  BY DEF TypeOK, Current, RowRec, Sess

\* The fields of a session and of a thread.
LEMMA SessFields ==
  ASSUME NEW s \in Sess
  PROVE  /\ s.n \in 0..MaxAnswers /\ s.comp \in BOOLEAN /\ s.fin \in BOOLEAN
         /\ s.sub \in BOOLEAN /\ s.rep \in Report \cup {NoReport}
  BY DEF Sess
LEMMA JobFields ==
  ASSUME TypeOK, NEW t \in Thread
  PROVE  /\ jobs[t] \in Job /\ jobs[t].s \in Sess /\ jobs[t].s.n \in 0..MaxAnswers
         /\ jobs[t].s.rep \in Report \cup {NoReport} /\ jobs[t].rep \in Report \cup {NoReport}
<1>1. jobs[t] \in Job
  BY DEF TypeOK
<1> QED BY <1>1, SessFields DEF Job

\* A thread that moves on with its report.
LEMMA Advanced ==
  ASSUME TypeOK, NEW t \in Thread, NEW r \in Report, NEW pc \in {"idle", "again", "close"},
         Advance(t, pc, r)
  PROVE  /\ jobs' \in [Thread -> Job]
         /\ \A u \in Thread \ {t} : jobs'[u] = jobs[u]
         /\ pc = "idle" => jobs'[t] = Idle
         /\ pc # "idle" => /\ jobs'[t].task = jobs[t].task /\ jobs'[t].pc = pc
                           /\ jobs'[t].s.n = jobs[t].s.n /\ jobs'[t].s.rep = r
                           /\ jobs'[t].rep = jobs[t].rep
<1>1. jobs \in [Thread -> Job]
  BY DEF TypeOK
<1>2. CASE pc = "idle"
  BY <1>1, <1>2, Constant DEF Advance
<1>3. CASE pc # "idle"
  <2> DEFINE s == [jobs[t].s EXCEPT !.rep = r]
             j == [task |-> jobs[t].task, pc |-> pc, s |-> s, rep |-> jobs[t].rep]
  <2>1. s \in Sess /\ s.n = jobs[t].s.n /\ s.rep = r
    BY JobFields DEF Sess
  <2>2. j \in Job
    BY <2>1, <1>1, <1>3 DEF Job
  <2>3. jobs[t] = [task |-> jobs[t].task, pc |-> jobs[t].pc, s |-> jobs[t].s, rep |-> jobs[t].rep]
    BY <1>1 DEF Job
  <2>4. jobs' = [jobs EXCEPT ![t] = j]
    <3>1. jobs' = [jobs EXCEPT ![t] = [@ EXCEPT !.pc = pc, !.s = s]]
      BY <1>3 DEF Advance
    <3> HIDE DEF s
    <3>2. jobs'[t] = [jobs[t] EXCEPT !.pc = pc, !.s = s]
      BY <1>1, <3>1
    <3>3. jobs'[t] = j
      BY <2>3, <3>2
    <3> QED BY <1>1, <3>1, <3>3
  <2>5. j.task = jobs[t].task /\ j.pc = pc /\ j.s = s /\ j.rep = jobs[t].rep
    OBVIOUS
  <2> HIDE DEF s, j
  <2> QED BY <1>1, <1>3, <2>1, <2>2, <2>4, <2>5
<1> QED BY <1>2, <1>3

\* Sessions that were changed are sessions still.
LEMMA Changed ==
  ASSUME NEW s \in Sess, NEW k
  PROVE  /\ k = [s EXCEPT !.comp = TRUE] => k \in Sess /\ k.n = s.n /\ k.rep = s.rep
         /\ k = [s EXCEPT !.comp = TRUE, !.sub = TRUE] =>
              k \in Sess /\ k.n = s.n /\ k.rep = s.rep
         /\ \A r \in Report :
              /\ k = [s EXCEPT !.rep = r] => k \in Sess /\ k.n = s.n /\ k.rep = r
              /\ k = [s EXCEPT !.comp = TRUE, !.sub = TRUE, !.rep = r] =>
                   k \in Sess /\ k.n = s.n /\ k.rep = r
<1>1. s = [n |-> s.n, comp |-> s.comp, fin |-> s.fin, sub |-> s.sub, rep |-> s.rep]
  BY DEF Sess
<1>2. ASSUME k = [s EXCEPT !.comp = TRUE] PROVE k \in Sess /\ k.n = s.n /\ k.rep = s.rep
  <2>1. k = [n |-> s.n, comp |-> TRUE, fin |-> s.fin, sub |-> s.sub, rep |-> s.rep]
    BY <1>1, <1>2
  <2> QED BY <2>1, SessFields DEF Sess
<1>3. ASSUME k = [s EXCEPT !.comp = TRUE, !.sub = TRUE] PROVE k \in Sess /\ k.n = s.n /\ k.rep = s.rep
  <2>1. k = [n |-> s.n, comp |-> TRUE, fin |-> s.fin, sub |-> TRUE, rep |-> s.rep]
    BY <1>1, <1>3
  <2> QED BY <2>1, SessFields DEF Sess
<1>4. ASSUME NEW r \in Report, k = [s EXCEPT !.rep = r] PROVE k \in Sess /\ k.n = s.n /\ k.rep = r
  <2>1. k = [n |-> s.n, comp |-> s.comp, fin |-> s.fin, sub |-> s.sub, rep |-> r]
    BY <1>1, <1>4
  <2> QED BY <2>1, SessFields DEF Sess
<1>5. ASSUME NEW r \in Report, k = [s EXCEPT !.comp = TRUE, !.sub = TRUE, !.rep = r]
      PROVE  k \in Sess /\ k.n = s.n /\ k.rep = r
  <2>1. k = [n |-> s.n, comp |-> TRUE, fin |-> s.fin, sub |-> TRUE, rep |-> r]
    BY <1>1, <1>5
  <2> QED BY <2>1, SessFields DEF Sess
<1> QED BY <1>2, <1>3, <1>4, <1>5

\* A session with an answer more, or with a submission begun.
LEMMA Grown ==
  ASSUME NEW s \in Sess, NEW k, NEW p \in {0, 1}, s.n + p <= MaxAnswers
  PROVE  /\ k = [s EXCEPT !.n = @ + p] => k \in Sess /\ k.n = s.n + p /\ k.rep = s.rep
         /\ k = [s EXCEPT !.n = @ + p, !.fin = TRUE] =>
              k \in Sess /\ k.n = s.n + p /\ k.rep = s.rep
<1>1. s = [n |-> s.n, comp |-> s.comp, fin |-> s.fin, sub |-> s.sub, rep |-> s.rep]
  BY DEF Sess
<1>2. s.n + p \in 0..MaxAnswers
  BY SessFields, ReportAssumption
<1>3. ASSUME k = [s EXCEPT !.n = @ + p] PROVE k \in Sess /\ k.n = s.n + p /\ k.rep = s.rep
  <2>1. k = [n |-> s.n + p, comp |-> s.comp, fin |-> s.fin, sub |-> s.sub, rep |-> s.rep]
    BY <1>1, <1>3
  <2> QED BY <2>1, <1>2, SessFields DEF Sess
<1>4. ASSUME k = [s EXCEPT !.n = @ + p, !.fin = TRUE] PROVE k \in Sess /\ k.n = s.n + p /\ k.rep = s.rep
  <2>1. k = [n |-> s.n + p, comp |-> s.comp, fin |-> TRUE, sub |-> s.sub, rep |-> s.rep]
    BY <1>1, <1>4
  <2> QED BY <2>1, <1>2, SessFields DEF Sess
<1> QED BY <1>3, <1>4

\* A thread is given something else to do.
LEMMA Put ==
  ASSUME TypeOK, NEW t \in Thread, NEW j \in Job, jobs' = [jobs EXCEPT ![t] = j]
  PROVE  jobs' \in [Thread -> Job] /\ jobs'[t] = j /\ \A u \in Thread \ {t} : jobs'[u] = jobs[u]
  BY DEF TypeOK

\* Known numbers of answers are numbers.
LEMMA Numbers ==
  ASSUME TypeOK
  PROVE  /\ progress.s.n \in Nat /\ given \in Nat
         /\ session # NoSession => session.n \in Nat
         /\ \A t \in Thread : jobs[t].s.n \in Nat
<1>1. \A n \in 0..MaxAnswers : n \in Nat
  BY ReportAssumption
<1> QED BY <1>1, CurrentIs, SessFields, JobFields DEF TypeOK

------------------------------------------------------------------------------
(* The initial state, and the steps that leave the threads alone.           *)

\* The initial state satisfies the invariant.
LEMMA InitIInv == Init => IInv
<1> SUFFICES ASSUME Init PROVE IInv
  OBVIOUS
<1>1. progress = [over |-> FALSE, rs |-> "", s |-> Empty, tries |-> 0, age |-> 0, wait |-> FALSE]
      /\ session = Empty /\ record = NoReport /\ link = NoReport /\ given = 0
      /\ \A t \in Thread : jobs[t] = Idle
  BY DEF Init
<1>11. \A r \in Report : syncs[r] = 0
  BY DEF Init
<1>2. progress.s = Empty /\ progress.rs = ""
  BY <1>1
<1>3. TypeOK
  <2>1. 0 \in 0..2 /\ 0 \in 0..MaxAnswers /\ 0 \in Nat /\ "" \in Status
    BY ReportAssumption DEF Status
  <2>2. progress \in RowRec
    BY <1>1, <2>1, Constant DEF RowRec, Status
  <2>3. used \in [calls : 0..MaxCalls, faults : 0..MaxFaults]
    <3>1. 0 \in 0..MaxCalls /\ 0 \in 0..MaxFaults
      BY ReportAssumption
    <3> QED BY <3>1 DEF Init
  <2>4. jobs \in [Thread -> Job] /\ syncs \in [Report -> Nat]
    BY Constant DEF Init
  <2> QED BY <2>1, <2>2, <2>3, <2>4, Constant DEF Init, TypeOK
<1>4. \A t \in Thread : jobs[t].pc = "idle" /\ jobs[t].task = "none" /\ jobs[t].rep = NoReport
        /\ jobs[t].s.rep = NoReport
  BY <1>1, Constant
<1>5. Shapes
  BY <1>1, <1>4 DEF Shapes, Shape
<1>. HIDE DEF Init
<1>6. session = Empty /\ record = NoReport /\ link = NoReport /\ given = 0 /\ progress.s = Empty
      /\ progress.rs = ""
  BY <1>1, <1>2
<1>9. Unstored
  BY <1>4, <1>6, <1>11, Constant DEF Unstored
<1>10. SentOn /\ PendingIsOwed
  BY <1>4, <1>6 DEF SentOn, PendingIsOwed
<1>7. Scored
  <2>1. Agree
    <3>1. session.n = 0 /\ progress.s.n = 0 /\ \A t \in Thread : ~Carries(t)
      BY <1>4, <1>6, Constant DEF Carries
    <3>2. 0 \in Nat /\ 0 <= 0
      OBVIOUS
    <3> QED BY <1>3, <1>6, <3>1, <3>2, Numbers DEF Agree, Reaches, Live, Settled
  <2>2. Covered
    BY <1>4, <1>6, Constant, Reports DEF Covered, Held
  <2> QED BY <2>1, <2>2 DEF Scored
<1>8. Carried
  <2>1. \A r \in Report : ~(syncs[r] > 0)
    BY <1>11
  <2> QED BY <1>6, <2>1 DEF Carried
<1> QED BY <1>3, <1>5, <1>9, <1>10, <1>7, <1>8 DEF IInv

\* A step that leaves the threads, the report and the link alone keeps the
\* invariant if the session and the checkpoint stay true to them.
LEMMA QuietKeeps ==
  ASSUME IInv, TypeOK', Scored', UNCHANGED <<record, link, jobs, syncs, lost, raced>>,
         record = NoReport =>
           /\ session' # NoSession => session'.rep = NoReport
           /\ progress'.s.rep = NoReport /\ progress'.rs # "ready"
  PROVE  IInv'
<1>1. Shapes'
  BY DEF IInv, Shapes, Shape
<1>2. Unstored'
  BY DEF IInv, Unstored
<1>3. SentOn' /\ PendingIsOwed'
  BY DEF IInv, SentOn, PendingIsOwed
<1>4. Carried'
  BY DEF IInv, Carried
<1> QED BY <1>1, <1>2, <1>3, <1>4 DEF IInv

\* The candidate signs in, or runs out of questions or time, or is
\* terminated: the session keeps its answers and its report.
LEMMA SessionKeeps ==
  ASSUME IInv, NEW s \in Sess, s.n = Current.n, s.rep = Current.rep, NEW over \in BOOLEAN,
         session' = s, UNCHANGED <<record, link, jobs, syncs, given, late, lost, raced>>,
         begun' \in BOOLEAN, Persist(s, over, DefaultStatus(s, over)),
         ~Locked \/ session # NoSession
  PROVE  IInv'
<1>1. TypeOK /\ Shapes /\ Unstored
  BY DEF IInv
<1>2. /\ progress' \in RowRec /\ used' \in Used /\ unsaved' \in BOOLEAN
      /\ \/ progress'.s = s /\ progress'.rs = DefaultStatus(s, over) /\ unsaved' = unsaved
         \/ progress' = progress /\ unsaved'
  BY <1>1, Persisted, Defaults
<1>3. TypeOK'
  BY <1>1, <1>2 DEF TypeOK, Used
<1>4. record = NoReport => session'.rep = NoReport /\ progress'.s.rep = NoReport /\ progress'.rs # "ready"
  BY <1>1, <1>2, Defaults DEF Unstored, Current
<1>5. Scored'
  <2> SUFFICES ASSUME ~late, ~unsaved' PROVE (Agree /\ Covered)'
    BY DEF Scored
  <2>1. progress'.s = s /\ Agree /\ Covered
    BY <1>2 DEF IInv, Scored
  <2>2. Current.n \in Nat /\ Reaches(Current.n)
    BY <1>1, <2>1, Numbers DEF Agree, Settled, Live, Current, Locked, Submits
  <2>3. /\ \A t \in Thread : Carries(t)' <=> Carries(t)
        /\ \A x \in Nat : Live(x)' => Live(x) \/ x = Current.n
    BY DEF Carries, Live
  <2>4. ASSUME NEW n, Reaches(n) PROVE Reaches(n)'
    BY <1>1, <2>1, <2>2, <2>3, <2>4, Numbers DEF Reaches, Live, Current, Carries
  <2>5. Agree'
    <3>1. \A x \in Nat : Settled(x)' => Settled(x) \/ x = Current.n
      BY <2>1, <2>3 DEF Settled, Submits
    <3>2. progress.s.n <= Current.n /\ given <= progress.s.n
      BY <2>1, <2>2 DEF Agree, Reaches
    <3>3. given' <= progress'.s.n
      BY <1>1, <2>1, <2>2, <3>2, Numbers
    <3> QED BY <2>1, <2>2, <2>4, <3>1, <3>3 DEF Agree
  <2>6. Covered'
    <3>1. \A r \in Report : Held(r)' => Held(r)
      BY <2>1 DEF Held, Current
    <3> QED BY <2>1, <2>4, <3>1 DEF Covered
  <2> QED BY <2>5, <2>6
<1> QED BY <1>3, <1>4, <1>5, QuietKeeps

\* Sign-in, the end of the questions or the time, and a termination.
LEMMA SignInKeeps == ASSUME IInv, SignIn PROVE IInv'
<1>1. Current \in Sess
  BY CurrentIs DEF IInv
<1>2. begun' \in BOOLEAN
  BY DEF SignIn
<1> QED BY <1>1, <1>2, SessionKeeps DEF SignIn

LEMMA RunOutKeeps == ASSUME IInv, RunOut PROVE IInv'
<1> DEFINE s == [Current EXCEPT !.comp = TRUE]
<1>1. s \in Sess /\ s.n = Current.n /\ s.rep = Current.rep
  BY CurrentIs, Changed DEF IInv
<1>2. /\ session' = s /\ Persist(s, TRUE, DefaultStatus(s, TRUE)) /\ ~Locked
      /\ UNCHANGED <<begun, record, link, jobs, syncs, given, late, lost, raced>>
  BY DEF RunOut
<1>3. begun' \in BOOLEAN
  BY <1>2 DEF IInv, TypeOK
<1> HIDE DEF s
<1> QED BY <1>1, <1>2, <1>3, SessionKeeps

LEMMA TerminateKeeps == ASSUME IInv, Terminate PROVE IInv'
<1>1. session \in Sess /\ session.n = Current.n /\ session.rep = Current.rep
  BY CurrentIs DEF IInv, Terminate, Current
<1>2. begun' \in BOOLEAN
  BY DEF IInv, TypeOK, Terminate
<1> QED BY <1>1, <1>2, SessionKeeps DEF Terminate

\* An answer in time finds nothing written and nobody at work.
LEMMA AnswerKeeps == ASSUME IInv, Answer PROVE IInv'
<1> DEFINE s == [Current EXCEPT !.n = @ + 1]
<1>1. TypeOK /\ Shapes /\ Unstored /\ Current \in Sess
  BY CurrentIs DEF IInv
<1>2. /\ session' = s /\ Persist(s, FALSE, DefaultStatus(s, FALSE)) /\ ~Locked
      /\ given' = s.n /\ Late(TRUE) /\ Current.n < MaxAnswers
      /\ UNCHANGED <<begun, record, link, jobs, syncs, lost, raced>>
  BY DEF Answer
<1>3. Current.n \in 0..MaxAnswers /\ Current.n + 1 <= MaxAnswers
  BY <1>1, <1>2, SessFields, ReportAssumption
<1>4. s \in Sess /\ s.n = Current.n + 1 /\ s.rep = Current.rep
  BY <1>1, <1>3, Grown
<1> HIDE DEF s
<1>5. /\ progress' \in RowRec /\ used' \in Used /\ unsaved' \in BOOLEAN
      /\ \/ progress'.s = s /\ progress'.rs = DefaultStatus(s, FALSE) /\ unsaved' = unsaved
         \/ progress' = progress /\ unsaved'
  BY <1>1, <1>2, <1>4, Persisted, Defaults
<1>6. TypeOK'
  <2>1. given' \in 0..MaxAnswers
    BY <1>2, <1>4, SessFields
  <2>2. late' \in BOOLEAN
    BY <1>1, <1>2 DEF TypeOK, Late
  <2> QED BY <1>1, <1>2, <1>4, <1>5, <2>1, <2>2 DEF TypeOK, Used
<1>7. record = NoReport => session'.rep = NoReport /\ progress'.s.rep = NoReport /\ progress'.rs # "ready"
  BY <1>1, <1>2, <1>4, <1>5, Defaults DEF Unstored, Current
<1>8. Scored'
  <2> SUFFICES ASSUME ~late', ~unsaved' PROVE (Agree /\ Covered)'
    BY DEF Scored
  <2>1. /\ progress'.s = s /\ session' = s /\ given' = s.n /\ record' = NoReport
        /\ record = NoReport /\ \A t \in Thread : ~Working(t)
    BY <1>2, <1>5 DEF Late
  <2>2. \A t \in Thread : jobs'[t] = Idle
    BY <1>1, <1>2, <2>1 DEF Shapes, Shape, Working
  <2>3. \A t \in Thread : ~Carries(t)' /\ ~Submits(t)' /\ jobs'[t].rep = NoReport /\ jobs'[t].s.rep = NoReport
    BY <2>2, Constant DEF Carries, Submits
  <2>4. s.n \in Nat /\ s.n <= s.n
    BY <1>4, SessFields, ReportAssumption
  <2>5. Agree'
    BY <2>1, <2>3, <2>4 DEF Agree, Reaches, Live, Settled
  <2>6. Covered'
    BY <1>4, <1>7, <2>1, <2>3, Reports DEF Covered, Held
  <2> QED BY <2>5, <2>6
<1> QED BY <1>2, <1>6, <1>7, <1>8, QuietKeeps

\* The checkpoint is parked, or gets older.
LEMMA RowKeeps ==
  ASSUME IInv, progress' \in RowRec, progress'.s = progress.s, progress'.rs # "ready" \/ progress'.rs = progress.rs,
         UNCHANGED <<session, begun, record, link, jobs, syncs, history, used>>
  PROVE  IInv'
<1>1. TypeOK'
  BY DEF IInv, TypeOK, history
<1>2. Scored'
  BY DEF IInv, Scored, Agree, Covered, Held, Settled, Reaches, Live, Carries, Submits, history
<1>3. record = NoReport =>
        /\ session' # NoSession => session'.rep = NoReport
        /\ progress'.s.rep = NoReport /\ progress'.rs # "ready"
  BY DEF IInv, Unstored
<1> QED BY <1>1, <1>2, <1>3, QuietKeeps DEF history

\* The fields of the checkpoint.
LEMMA RowFields ==
  ASSUME TypeOK
  PROVE  /\ progress.over \in BOOLEAN /\ progress.rs \in Status /\ progress.s \in Sess
         /\ progress.tries \in Nat /\ progress.age \in 0..2 /\ progress.wait \in BOOLEAN
         /\ progress = [over |-> progress.over, rs |-> progress.rs, s |-> progress.s,
                        tries |-> progress.tries, age |-> progress.age, wait |-> progress.wait]
  BY DEF TypeOK, RowRec, Status

LEMMA ParkKeeps == ASSUME IInv, Park PROVE IInv'
<1>1. TypeOK
  BY DEF IInv
<1>2. progress' = [over |-> progress.over, rs |-> "no_report_needed", s |-> progress.s,
                   tries |-> progress.tries, age |-> progress.age, wait |-> progress.wait]
  BY <1>1, RowFields DEF Park
<1>3. "no_report_needed" \in Status
  BY DEF Status, Final
<1>4. progress' \in RowRec /\ progress'.s = progress.s /\ progress'.rs # "ready"
  BY <1>1, <1>2, <1>3, RowFields DEF RowRec, Status
<1> QED BY <1>4, RowKeeps DEF Park

LEMMA TickKeeps == ASSUME IInv, Tick PROVE IInv'
<1>1. TypeOK
  BY DEF IInv
<1>2. PICK age \in 0..2 :
        progress' = [over |-> progress.over, rs |-> progress.rs, s |-> progress.s,
                     tries |-> progress.tries, age |-> age, wait |-> FALSE]
  <2>1. (IF progress.age = 2 THEN 2 ELSE progress.age + 1) \in 0..2
    BY <1>1, RowFields
  <2> QED BY <1>1, <2>1, RowFields DEF Tick
<1>3. progress' \in RowRec
  BY <1>1, <1>2, RowFields DEF RowRec, Status
<1>4. progress'.s = progress.s /\ progress'.rs = progress.rs
  BY <1>2
<1> QED BY <1>3, <1>4, RowKeeps DEF Tick

------------------------------------------------------------------------------
(* The steps that write a report.                                           *)

\* What thread t, the session and the checkpoint become in a step that
\* brings in no answer, and no report but r.
Onward(t, r) ==
  /\ \A u \in Thread \ {t} : jobs'[u] = jobs[u]
  /\ Submits(t) => Submits(t)' \/ Settled(progress'.s.n)
  /\ Carries(t)' => Settled(jobs'[t].s.n)
  /\ \A x \in {jobs'[t].rep, jobs'[t].s.rep} : x \in {NoReport, r} \/ Held(x)
Memory(r) ==
  session' # NoSession =>
    Settled(session'.n) /\ (session'.rep \in {NoReport, r} \/ Held(session'.rep))
Row(r) ==
  /\ progress'.s.n = progress.s.n \/ Settled(progress'.s.n)
  /\ progress'.s.rep \in {NoReport, r} \/ Held(progress'.s.rep)
  /\ Agree => given' <= progress'.s.n

\* The transcripts and reports still agree after such a step.
LEMMA StillScored ==
  ASSUME TypeOK, TypeOK', NEW t \in Thread, NEW r, r # NoReport => Reaches(r.n),
         Onward(t, r), Memory(r), Row(r), record' \in {record, r}, Agree, Covered
  PROVE  (Agree /\ Covered)'
<1>1. \A x \in Nat : Live(x)' => Settled(x)
  <2> SUFFICES ASSUME NEW x \in Nat, Live(x)' PROVE Settled(x)
    OBVIOUS
  <2>1. CASE session' # NoSession /\ x = session'.n
    BY <2>1 DEF Memory
  <2>2. ASSUME NEW u \in Thread, Carries(u)', x = jobs'[u].s.n PROVE Settled(x)
    <3>1. CASE u = t
      BY <2>2, <3>1 DEF Onward
    <3>2. CASE u # t
      BY <2>2, <3>2 DEF Onward, Carries, Settled, Live
    <3> QED BY <3>1, <3>2
  <2> QED BY <2>1, <2>2 DEF Live
<1>2. ASSUME NEW n, Reaches(n) PROVE Reaches(n)'
  <2>1. progress.s.n <= n /\ progress'.s.n \in Nat
    <3>1. progress' \in RowRec
      BY DEF TypeOK
    <3>2. progress'.s \in Sess
      BY <3>1 DEF RowRec
    <3> QED BY <1>2, <3>2, SessFields, ReportAssumption DEF Reaches
  <2>2. \A x \in Nat : Settled(x) => x <= n
    BY <1>2, <2>1 DEF Reaches, Settled
  <2> QED BY <1>1, <2>1, <2>2 DEF Reaches, Row
<1>3. \A x \in Nat : Settled(x)' => Settled(x)
  <2>1. ASSUME \A u \in Thread : ~Submits(u)' PROVE Settled(progress'.s.n)
    <3>1. CASE \E u \in Thread : Submits(u)
      <4>1. PICK u \in Thread : Submits(u)
        BY <3>1
      <4>2. u = t
        BY <2>1, <4>1 DEF Onward, Submits
      <4> QED BY <2>1, <4>1, <4>2 DEF Onward
    <3>2. CASE ~\E u \in Thread : Submits(u)
      BY <3>2 DEF Row, Settled
    <3> QED BY <3>1, <3>2
  <2> QED BY <1>1, <2>1 DEF Settled
<1>4. Agree'
  BY <1>2, <1>3 DEF Agree, Row
<1>5. Covered'
  <2>1. ASSUME NEW x \in Report, Held(x)' PROVE x = r \/ Held(x)
    <3>1. CASE x \in {record', progress'.s.rep}
      BY <3>1, Reports DEF Row, Held
    <3>2. CASE session' # NoSession /\ x = session'.rep
      BY <3>2, Reports DEF Memory
    <3>3. ASSUME NEW u \in Thread, x \in {jobs'[u].rep, jobs'[u].s.rep} PROVE x = r \/ Held(x)
      <4>1. CASE u = t
        BY <3>3, <4>1, Reports DEF Onward
      <4>2. CASE u # t
        BY <3>3, <4>2 DEF Onward, Held
      <4> QED BY <4>1, <4>2
    <3> QED BY <2>1, <3>1, <3>2, <3>3 DEF Held
  <2> QED BY <1>2, <2>1, Reports DEF Covered
<1> QED BY <1>4, <1>5

\* A report that is stored and sent on keeps the invariant.
LEMMA WriteKeeps ==
  ASSUME IInv, TypeOK', Shapes', NEW t \in Thread, NEW r \in Report, Store(t, r), Sync(r),
         Onward(t, r), Memory(r), UNCHANGED <<progress, link, given, late, unsaved, lost>>,
         Agree /\ Covered => Reaches(r.n)
  PROVE  IInv'
<1>1. TypeOK /\ Carried /\ record' = r /\ r # NoReport
  BY Reports DEF IInv, Store
<1>2. /\ syncs'[r] > 0 /\ \A x \in Report \ {r} : syncs'[x] = syncs[x]
  BY <1>1 DEF TypeOK, Sync
<1>3. Unstored' /\ SentOn' /\ PendingIsOwed'
  BY <1>1, <1>2 DEF Unstored, SentOn, PendingIsOwed
<1>4. Scored'
  <2>1. Row(r)
    BY DEF Row, Held, Agree
  <2> QED BY <1>1, <2>1, StillScored DEF IInv, Scored
<1>5. Carried'
  <2>1. ASSUME ~raced', NEW x \in Report, syncs'[x] > 0 PROVE x = r
    BY <1>2, <2>1 DEF Store, Races
  <2> QED BY <1>1, <1>2, <2>1 DEF Carried
<1> QED BY <1>3, <1>4, <1>5 DEF IInv

\* The types of what a write changes.
LEMMA WriteTypes ==
  ASSUME TypeOK, NEW t \in Thread, NEW r \in Report, Store(t, r), Sync(r)
  PROVE  record' \in Report \cup {NoReport} /\ raced' \in BOOLEAN /\ syncs' \in [Report -> Nat]
<1>1. raced' \in BOOLEAN
  BY DEF Store
<1>2. syncs' \in [Report -> Nat]
  BY DEF TypeOK, Sync
<1> QED BY <1>1, <1>2 DEF Store

\* Threads keep their shapes when the one that moved has one.
LEMMA ShapesKept ==
  ASSUME Shapes, NEW t \in Thread, \A u \in Thread \ {t} : jobs'[u] = jobs[u], Shape(jobs'[t])
  PROVE  Shapes'
  BY DEF Shapes

\* The idle thread has its shape.
LEMMA IdleShape == Shape(Idle)
  BY Constant DEF Shape

\* What a thread carries, and what is in memory, is settled.
LEMMA Settles ==
  /\ \A t \in Thread : Carries(t) => Settled(jobs[t].s.n)
  /\ session # NoSession => Settled(session.n)
  /\ ~Locked => Settled(Current.n) /\ Settled(progress.s.n)
  /\ Held(record) /\ Held(Current.rep) /\ Held(progress.s.rep)
  /\ \A t \in Thread : Held(jobs[t].rep) /\ Held(jobs[t].s.rep)
  BY DEF Settled, Live, Held, Locked, Submits, Current

\* Writing a report from memory.
LEMMA InMemoryIs ==
  ASSUME TypeOK, NEW t \in Thread, NEW r \in Report, session' = InMemory(t, r)
  PROVE  session' \in Sess \cup {NoSession} /\ Memory(r)
<1>1. CASE session # NoSession
  <2>1. session \in Sess
    BY <1>1 DEF TypeOK
  <2>2. CASE session' = session
    BY <1>1, <2>2, CurrentIs, Settles DEF Memory, Held
  <2>3. CASE session' = [session EXCEPT !.rep = r]
    <3>1. session' \in Sess /\ session'.n = session.n /\ session'.rep = r
      <4>1. session = [n |-> session.n, comp |-> session.comp, fin |-> session.fin,
                       sub |-> session.sub, rep |-> session.rep]
        BY <2>1 DEF Sess
      <4>2. session' = [n |-> session.n, comp |-> session.comp, fin |-> session.fin,
                        sub |-> session.sub, rep |-> r]
        BY <2>3, <4>1
      <4> QED BY <2>1, <4>2, SessFields DEF Sess
    <3>2. Settled(session.n)
      BY <1>1, Settles
    <3> QED BY <3>1, <3>2 DEF Memory
  <2>4. session' = session \/ session' = [session EXCEPT !.rep = r]
    BY DEF InMemory
  <2> QED BY <2>2, <2>3, <2>4
<1>2. CASE session = NoSession
  BY <1>2 DEF InMemory, Memory
<1> QED BY <1>1, <1>2

\* A thread that advances moves onward.
LEMMA AdvancesOnward ==
  ASSUME IInv, NEW t \in Thread, NEW r \in Report, NEW pc \in {"idle", "again", "close"},
         Advance(t, pc, r), Carries(t), ~Submits(t)
  PROVE  jobs' \in [Thread -> Job] /\ Shapes' /\ Onward(t, r)
<1>1. TypeOK /\ Shapes
  BY DEF IInv
<1>2. /\ jobs' \in [Thread -> Job]
      /\ \A u \in Thread \ {t} : jobs'[u] = jobs[u]
      /\ pc = "idle" => jobs'[t] = Idle
      /\ pc # "idle" => /\ jobs'[t].task = jobs[t].task /\ jobs'[t].pc = pc
                        /\ jobs'[t].s.n = jobs[t].s.n /\ jobs'[t].s.rep = r
                        /\ jobs'[t].rep = jobs[t].rep
  BY <1>1, Advanced
<1>3. CASE pc = "idle"
  <2>1. Shapes'
    BY <1>1, <1>2, <1>3, IdleShape, ShapesKept
  <2> QED BY <1>2, <1>3, <2>1, Constant DEF Onward, Carries
<1>4. CASE pc # "idle"
  <2>1. Shape(jobs'[t])
    BY <1>1, <1>2, <1>4, Reports DEF Shapes, Shape
  <2>2. Shapes'
    BY <1>1, <1>2, <2>1, ShapesKept
  <2> QED BY <1>2, <1>4, <2>2, Settles DEF Onward
<1> QED BY <1>3, <1>4

LEMMA EvaluateKeeps == ASSUME IInv, NEW t \in Thread, Evaluate(t) PROVE IInv'
<1> DEFINE r == Evaluated(jobs[t].s.n)
           pc == AfterEval(jobs[t].task)
<1>1. TypeOK /\ jobs[t].s.n \in 0..MaxAnswers
  BY JobFields DEF IInv
<1>2. r \in Report /\ r.n = jobs[t].s.n
  BY <1>1, Made
<1>3. pc \in {"idle", "again", "close"}
  BY DEF AfterEval
<1>4. /\ jobs[t].pc = "eval" /\ Store(t, r) /\ Sync(r) /\ Advance(t, pc, r)
      /\ session' = InMemory(t, r)
      /\ UNCHANGED <<progress, begun, link, given, late, unsaved, lost, used>>
  BY DEF Evaluate
<1>5. Carries(t) /\ ~Submits(t)
  BY <1>4 DEF Carries, Submits
<1>6. Agree => Reaches(jobs[t].s.n)
  BY <1>1, <1>5, Numbers, Settles DEF Agree
<1> HIDE DEF r, pc
<1>7. jobs' \in [Thread -> Job] /\ Shapes' /\ Onward(t, r)
  BY <1>2, <1>3, <1>4, <1>5, AdvancesOnward
<1>8. session' \in Sess \cup {NoSession} /\ Memory(r)
  BY <1>1, <1>2, <1>4, InMemoryIs
<1>9. TypeOK'
  BY <1>1, <1>2, <1>4, <1>7, <1>8, WriteTypes DEF TypeOK
<1> QED BY <1>2, <1>4, <1>5, <1>6, <1>7, <1>8, <1>9, WriteKeeps

LEMMA StoreAgainKeeps == ASSUME IInv, NEW t \in Thread, StoreAgain(t) PROVE IInv'
<1> DEFINE r == IF jobs[t].task = "rescore" THEN [jobs[t].s.rep EXCEPT !.ex = jobs[t].rep.ex]
                ELSE jobs[t].s.rep
           pc == AfterAgain(jobs[t].task)
<1>1. TypeOK /\ Shapes
  BY DEF IInv
<1>2. /\ jobs[t].pc = "again" /\ Store(t, r) /\ Sync(r) /\ Advance(t, pc, r)
      /\ UNCHANGED <<session, progress, begun, link, given, late, unsaved, lost, used>>
  BY DEF StoreAgain
<1>3. jobs[t].s.rep \in Report /\ (jobs[t].task = "rescore" => jobs[t].rep \in Report)
  BY <1>1, <1>2, JobFields DEF Shapes, Shape
<1>4. r \in Report /\ r.n = jobs[t].s.rep.n
  <2>1. CASE jobs[t].task = "rescore"
    <3> DEFINE a == jobs[t].s.rep
               ex == jobs[t].rep.ex
    <3>1. a = [kind |-> a.kind, n |-> a.n, ex |-> a.ex] /\ ex \in BOOLEAN
      BY <1>3, <2>1 DEF Report
    <3>2. r = [a EXCEPT !.ex = ex]
      BY <2>1
    <3>3. a \in Report
      BY <1>3
    <3> HIDE DEF a, ex, r
    <3>4. r = [kind |-> a.kind, n |-> a.n, ex |-> ex]
      BY <3>1, <3>2
    <3>5. r \in Report /\ r.n = a.n
      BY <3>1, <3>3, <3>4 DEF Report
    <3> QED BY <3>5 DEF a
  <2> QED BY <1>3, <2>1
<1>5. pc \in {"idle", "again", "close"}
  BY DEF AfterAgain
<1>6. Carries(t) /\ ~Submits(t)
  BY <1>2 DEF Carries, Submits
<1> HIDE DEF r, pc
<1>7. Covered => Reaches(r.n)
  BY <1>3, <1>4, Settles DEF Covered
<1>8. jobs' \in [Thread -> Job] /\ Shapes' /\ Onward(t, r)
  BY <1>2, <1>4, <1>5, <1>6, AdvancesOnward
<1>9. Memory(r)
  BY <1>2, Settles DEF Memory, Current
<1>10. TypeOK'
  BY <1>1, <1>2, <1>4, <1>8, WriteTypes DEF TypeOK
<1> QED BY <1>2, <1>4, <1>6, <1>7, <1>8, <1>9, <1>10, WriteKeeps

LEMMA FallBackKeeps == ASSUME IInv, NEW t \in Thread, FallBack(t) PROVE IInv'
<1> DEFINE r == Fallback(jobs[t].s.n)
<1>1. TypeOK /\ jobs[t].s.n \in 0..MaxAnswers
  BY JobFields DEF IInv
<1>2. r \in Report /\ r.n = jobs[t].s.n
  BY <1>1, Made
<1>3. /\ jobs[t].pc \in {"eval", "again"} /\ jobs[t].task # "submit"
      /\ Store(t, r) /\ Sync(r) /\ Advance(t, "close", r)
      /\ session' = InMemory(t, r)
      /\ UNCHANGED <<progress, begun, link, given, late, unsaved, lost>>
  BY DEF FallBack, Breaks, Recovery
<1>4. Carries(t) /\ ~Submits(t)
  BY <1>3 DEF Carries, Submits
<1>5. Agree => Reaches(jobs[t].s.n)
  BY <1>1, <1>4, Numbers, Settles DEF Agree
<1>6. used' \in Used
  BY <1>1, Spent DEF FallBack, Breaks, TypeOK, Used
<1> HIDE DEF r
<1>7. jobs' \in [Thread -> Job] /\ Shapes' /\ Onward(t, r)
  BY <1>2, <1>3, <1>4, AdvancesOnward
<1>8. session' \in Sess \cup {NoSession} /\ Memory(r)
  BY <1>1, <1>2, <1>3, InMemoryIs
<1>9. TypeOK'
  BY <1>1, <1>2, <1>3, <1>6, <1>7, <1>8, WriteTypes DEF TypeOK, Used
<1> QED BY <1>2, <1>3, <1>4, <1>5, <1>7, <1>8, <1>9, WriteKeeps

LEMMA WriteEditKeeps == ASSUME IInv, NEW t \in Thread, WriteEdit(t) PROVE IInv'
<1> DEFINE r == jobs[t].rep
<1>1. TypeOK /\ Shapes
  BY DEF IInv
<1>2. /\ jobs[t].pc = "write" /\ Store(t, r) /\ Sync(r) /\ jobs' = [jobs EXCEPT ![t] = Idle]
      /\ UNCHANGED <<session, progress, begun, link, given, late, unsaved, lost, used>>
  BY DEF WriteEdit
<1>3. r \in Report
  BY <1>1, <1>2, JobFields DEF Shapes, Shape
<1>4. /\ jobs' \in [Thread -> Job] /\ jobs'[t] = Idle
      /\ \A u \in Thread \ {t} : jobs'[u] = jobs[u]
  BY <1>1, <1>2, Constant, Put
<1>5. Shapes'
  BY <1>1, <1>4, IdleShape, ShapesKept
<1>6. Onward(t, r) /\ Memory(r)
  BY <1>2, <1>4, Constant, Settles DEF Onward, Memory, Carries, Submits, Current
<1>7. Covered => Reaches(r.n)
  BY <1>3, Settles DEF Covered
<1>8. TypeOK'
  BY <1>1, <1>2, <1>3, <1>4, WriteTypes DEF TypeOK
<1> HIDE DEF r
<1> QED BY <1>2, <1>3, <1>5, <1>6, <1>7, <1>8, WriteKeeps

------------------------------------------------------------------------------
(* The steps that write no report.                                          *)

\* Transcripts and reports still agree, when nothing came late or unsaved.
LEMMA StepScored ==
  ASSUME IInv, TypeOK', NEW t \in Thread, NEW r, record' \in {record, r},
         ~late' => ~late, ~unsaved' => ~unsaved,
         Agree /\ Covered /\ ~late' /\ ~unsaved' =>
           Onward(t, r) /\ Memory(r) /\ Row(r) /\ (r # NoReport => Reaches(r.n))
  PROVE  Scored'
<1> SUFFICES ASSUME ~late', ~unsaved' PROVE (Agree /\ Covered)'
  BY DEF Scored
<1>1. TypeOK /\ Agree /\ Covered
  BY DEF IInv, Scored
<1> QED BY <1>1, StillScored

\* A step of one thread that neither writes nor sends keeps the invariant.
LEMMA StepKeeps ==
  ASSUME IInv, TypeOK', Scored', NEW t \in Thread,
         \A u \in Thread \ {t} : jobs'[u] = jobs[u], Shape(jobs'[t]),
         UNCHANGED <<record, link, syncs, lost, raced>>,
         record = NoReport =>
           /\ session' # NoSession => session'.rep = NoReport
           /\ progress'.s.rep = NoReport /\ progress'.rs # "ready"
           /\ jobs'[t].s.rep = NoReport /\ jobs'[t].rep = NoReport
           /\ jobs'[t].pc \notin {"mark", "again", "close", "count", "write"},
         jobs'[t].pc \in {"again", "close"} => jobs[t].pc \in {"again", "close"},
         jobs[t].task = "submit" =>
           \/ jobs[t].pc = "close"
           \/ /\ jobs'[t].task = "submit"
              /\ jobs[t].pc \in {"mark", "eval"} => jobs'[t].pc \in {"mark", "eval"}
  PROVE  IInv'
<1>1. Shapes'
  BY ShapesKept DEF IInv
<1>2. Unstored'
  BY DEF IInv, Unstored
<1>3. SentOn'
  BY DEF IInv, SentOn
<1>4. PendingIsOwed'
  <2> SUFFICES ASSUME record # NoReport, link = NoReport, ~lost
               PROVE  (\E u \in Thread : jobs'[u].task = "submit") \/ (\E r \in Report : syncs[r] > 0)
    BY DEF PendingIsOwed
  <2>1. CASE \E r \in Report : syncs[r] > 0
    BY <2>1
  <2>2. ASSUME NEW u \in Thread, jobs[u].task = "submit"
        PROVE  (\E v \in Thread : jobs'[v].task = "submit") \/ (\E r \in Report : syncs[r] > 0)
    <3>1. CASE u = t /\ jobs[t].pc = "close"
      BY <3>1 DEF IInv, SentOn
    <3>2. CASE ~(u = t /\ jobs[t].pc = "close")
      BY <2>2, <3>2
    <3> QED BY <3>1, <3>2
  <2> QED BY <2>1, <2>2 DEF IInv, PendingIsOwed
<1>5. Carried'
  <2> SUFFICES ASSUME ~lost, ~raced,
                      ~(record # NoReport /\ link # record) \/ syncs[record] > 0
                        \/ \E u \in Thread : jobs[u].task = "submit" /\ jobs[u].pc \in {"mark", "eval"}
               PROVE  ~(record # NoReport /\ link # record) \/ syncs[record] > 0
                        \/ \E u \in Thread : jobs'[u].task = "submit" /\ jobs'[u].pc \in {"mark", "eval"}
    BY DEF IInv, Carried
  <2>1. ASSUME NEW u \in Thread, jobs[u].task = "submit" /\ jobs[u].pc \in {"mark", "eval"}
        PROVE  jobs'[u].task = "submit" /\ jobs'[u].pc \in {"mark", "eval"}
    BY <2>1
  <2> QED BY <2>1
<1> QED BY <1>1, <1>2, <1>3, <1>4, <1>5 DEF IInv

\* An idle thread.
LEMMA Free ==
  ASSUME IInv, NEW t \in Thread, ~Working(t)
  PROVE  jobs[t].pc = "idle" /\ jobs[t].task = "none" /\ ~Submits(t)
  BY Constant DEF IInv, Shapes, Shape, Working, Submits

LEMMA RescoreKeeps == ASSUME IInv, NEW t \in Thread, Rescore(t) PROVE IInv'
<1> DEFINE j == [task |-> "rescore", pc |-> "eval", s |-> progress.s, rep |-> record]
<1>1. TypeOK /\ progress.s \in Sess /\ jobs[t].task = "none" /\ ~Submits(t)
  BY CurrentIs, Free DEF IInv, Rescore
<1>2. /\ jobs' = [jobs EXCEPT ![t] = j] /\ record # NoReport /\ late' = (late \/ Locked) /\ Call
      /\ UNCHANGED <<session, progress, begun, record, link, syncs, given, unsaved, lost, raced>>
  BY DEF Rescore
<1>3. j \in Job /\ j.task = "rescore" /\ j.pc = "eval" /\ j.s = progress.s /\ j.rep = record
  BY <1>1 DEF Job, TypeOK
<1> HIDE DEF j
<1>4. /\ jobs' \in [Thread -> Job] /\ jobs'[t] = j
      /\ \A u \in Thread \ {t} : jobs'[u] = jobs[u]
  BY <1>1, <1>2, <1>3, Put
<1>5. TypeOK'
  <2>1. used' \in Used /\ late' \in BOOLEAN
    BY <1>1, <1>2, Spent DEF TypeOK, Used
  <2> QED BY <1>1, <1>2, <1>4, <2>1 DEF TypeOK, Used
<1>6. Scored'
  <2>1. ASSUME ~late' PROVE Onward(t, NoReport) /\ Memory(NoReport) /\ Row(NoReport)
    <3>1. ~Locked
      BY <1>2, <2>1
    <3>2. Onward(t, NoReport)
      BY <1>1, <1>3, <1>4, <3>1, Settles DEF Onward
    <3> QED BY <1>2, <3>2, Settles DEF Memory, Row, Agree, Current
  <2>2. ~late' => ~late
    BY <1>2
  <2>3. record' = record /\ (~unsaved' => ~unsaved)
    BY <1>2
  <2> QED BY <1>5, <2>1, <2>2, <2>3, StepScored
<1>7. Shape(jobs'[t])
  BY <1>2, <1>3, <1>4 DEF Shape
<1> QED BY <1>1, <1>2, <1>3, <1>4, <1>5, <1>6, <1>7, StepKeeps

LEMMA EditKeeps == ASSUME IInv, NEW t \in Thread, Edit(t) PROVE IInv'
<1>1. TypeOK /\ jobs[t].task = "none" /\ ~Submits(t)
  BY Free DEF IInv, Edit
<1>2. PICK ex \in BOOLEAN :
        jobs' = [jobs EXCEPT ![t] = [task |-> "edit", pc |-> "write", s |-> Empty,
                                     rep |-> [record EXCEPT !.ex = ex]]]
  BY DEF Edit
<1> DEFINE r == [record EXCEPT !.ex = ex]
           j == [task |-> "edit", pc |-> "write", s |-> Empty, rep |-> r]
<1>3. /\ jobs' = [jobs EXCEPT ![t] = j] /\ record # NoReport /\ Call
      /\ UNCHANGED <<session, progress, begun, record, link, syncs, history>>
  BY <1>2 DEF Edit
<1>4. r \in Report /\ r.n = record.n
  <2>1. record \in Report /\ record = [kind |-> record.kind, n |-> record.n, ex |-> record.ex]
    BY <1>1, <1>3 DEF TypeOK, Report
  <2>2. r = [kind |-> record.kind, n |-> record.n, ex |-> ex]
    <3>1. ASSUME NEW k, k = [record EXCEPT !.ex = ex] PROVE k = [kind |-> record.kind, n |-> record.n, ex |-> ex]
      BY <2>1, <3>1
    <3> QED BY <3>1
  <2> QED BY <2>1, <2>2 DEF Report
<1> HIDE DEF r
<1>5. j \in Job /\ j.task = "edit" /\ j.pc = "write" /\ j.s = Empty /\ j.rep = r
  BY <1>4, Constant DEF Job
<1> HIDE DEF j
<1>6. /\ jobs' \in [Thread -> Job] /\ jobs'[t] = j
      /\ \A u \in Thread \ {t} : jobs'[u] = jobs[u]
  BY <1>1, <1>3, <1>5, Put
<1>7. TypeOK'
  <2>1. used' \in Used
    BY <1>1, <1>3, Spent DEF TypeOK, Used
  <2> QED BY <1>1, <1>3, <1>6, <2>1 DEF TypeOK, Used, history
<1>8. Scored'
  <2>1. Onward(t, r)
    BY <1>1, <1>5, <1>6, Constant DEF Onward, Carries
  <2>2. Memory(r) /\ Row(r)
    BY <1>3, Settles DEF Memory, Row, Agree, Current, history
  <2>3. Covered => Reaches(r.n)
    BY <1>1, <1>3, <1>4, Settles DEF Covered, TypeOK
  <2>4. (~late' => ~late) /\ (~unsaved' => ~unsaved)
    BY <1>3 DEF history
  <2>5. record' \in {record, r}
    BY <1>3
  <2>6. Agree /\ Covered /\ ~late' /\ ~unsaved' =>
          Onward(t, r) /\ Memory(r) /\ Row(r) /\ (r # NoReport => Reaches(r.n))
    BY <2>1, <2>2, <2>3
  <2> QED BY <1>7, <2>4, <2>5, <2>6, StepScored
<1>9. Shape(jobs'[t])
  BY <1>4, <1>5, <1>6, Reports DEF Shape
<1> QED BY <1>1, <1>3, <1>5, <1>6, <1>7, <1>8, <1>9, StepKeeps DEF history

LEMMA ViewKeeps == ASSUME IInv, NEW t \in Thread, View(t) PROVE IInv'
<1>1. TypeOK /\ Shapes /\ session \in Sess /\ jobs[t].task = "none" /\ jobs[t].pc = "idle" /\ ~Submits(t)
  BY Free, CurrentIs DEF IInv, View
<1>2. /\ session # NoSession /\ Call
      /\ UNCHANGED <<session, progress, begun, link, given, late, unsaved, lost>>
  BY DEF View
<1>3. used' \in Used
  BY <1>1, <1>2, Spent DEF TypeOK, Used
<1>4. CASE /\ session.rep # NoReport /\ Store(t, session.rep) /\ Sync(session.rep)
           /\ UNCHANGED jobs
  <2> DEFINE r == session.rep
  <2>1. r \in Report
    BY <1>1, <1>4, SessFields
  <2>2. TypeOK'
    BY <1>1, <1>2, <1>3, <1>4, <2>1, WriteTypes DEF TypeOK, Used
  <2>3. Shapes'
    BY <1>1, <1>4 DEF Shapes, Shape
  <2>4. Onward(t, r)
    BY <1>1, <1>4, Settles DEF Onward, Carries
  <2>5. Memory(r)
    BY <1>2, Settles DEF Memory
  <2>6. Covered => Reaches(r.n)
    BY <1>2, <2>1 DEF Covered, Held
  <2> HIDE DEF r
  <2>7. Store(t, r) /\ Sync(r)
    BY <1>4 DEF r
  <2> QED BY <1>2, <2>1, <2>2, <2>3, <2>4, <2>5, <2>6, <2>7, WriteKeeps
<1>5. CASE /\ session.rep = NoReport
           /\ jobs' = [jobs EXCEPT ![t] = [task |-> "view", pc |-> "eval", s |-> session, rep |-> NoReport]]
           /\ UNCHANGED <<record, syncs, raced>>
  <2> DEFINE j == [task |-> "view", pc |-> "eval", s |-> session, rep |-> NoReport]
  <2>1. j \in Job /\ j.task = "view" /\ j.pc = "eval" /\ j.s = session /\ j.rep = NoReport
    BY <1>1 DEF Job
  <2> HIDE DEF j
  <2>2. /\ jobs' \in [Thread -> Job] /\ jobs'[t] = j
        /\ \A u \in Thread \ {t} : jobs'[u] = jobs[u]
    BY <1>1, <1>5, <2>1, Put DEF j
  <2>3. TypeOK'
    BY <1>1, <1>2, <1>3, <1>5, <2>2 DEF TypeOK, Used
  <2>4. Scored'
    <3>1. Onward(t, NoReport)
      BY <1>1, <1>2, <1>5, <2>1, <2>2, Settles DEF Onward
    <3>2. Memory(NoReport) /\ Row(NoReport)
      BY <1>2, Settles DEF Memory, Row, Agree, Current
    <3> QED BY <1>2, <1>5, <2>3, <3>1, <3>2, StepScored
  <2>5. Shape(jobs'[t])
    BY <2>1, <2>2 DEF Shape
  <2>6. record = NoReport => session'.rep = NoReport /\ progress'.s.rep = NoReport /\ progress'.rs # "ready"
    BY <1>2, <1>5 DEF IInv, Unstored
  <2> QED BY <1>1, <1>2, <1>5, <2>1, <2>2, <2>3, <2>4, <2>5, <2>6, StepKeeps
<1> QED BY <1>4, <1>5 DEF View

\* Recovery starts on an idle thread, with a session that is settled or has
\* a placeholder more than the settled one.
LEMMA StartKeeps ==
  ASSUME IInv, NEW t \in Thread, ~Working(t), NEW task \in Recovery, NEW s \in Sess,
         NEW added \in BOOLEAN, ~added /\ ~Locked => Settled(s.n),
         added => s.n = Current.n + 1 /\ (session' # NoSession => session'.n = s.n),
         Held(s.rep), record = NoReport => s.rep = NoReport,
         Start(t, task, s, added), session' \in Sess \cup {NoSession},
         session' # NoSession => /\ session # NoSession /\ session'.rep = session.rep
                                 /\ ~added => session'.n = session.n,
         UNCHANGED <<begun, record, link, syncs, given, lost, raced>>
  PROVE  IInv'
<1> DEFINE closed == [s EXCEPT !.comp = TRUE, !.sub = TRUE]
           next(pc, x) == [task |-> task, pc |-> pc, s |-> x, rep |-> NoReport]
<1>1. TypeOK /\ Shapes /\ Unstored /\ jobs[t].task = "none" /\ ~Submits(t)
  BY Free DEF IInv
<1>2. closed \in Sess /\ closed.n = s.n /\ closed.rep = s.rep
  BY Changed
<1>3. Late(Locked \/ added)
  BY DEF Start
<1>13. /\ late' \in BOOLEAN /\ (~late' => ~late)
       /\ ~late' => ~Locked
       /\ ~late' /\ added => record = NoReport /\ \A u \in Thread : ~Working(u)
  BY <1>1, <1>3 DEF Late, Locked, Working, TypeOK
<1> HIDE DEF closed
<1>4. PICK x \in Sess, pc \in {"count", "eval"}, rs \in {"ready", "generating"} :
        /\ Persist(x, TRUE, rs) /\ jobs' = [jobs EXCEPT ![t] = next(pc, x)]
        /\ x.n = s.n /\ x.rep = s.rep
        /\ record = NoReport => pc = "eval" /\ rs = "generating"
  BY <1>2 DEF Start, closed
<1>5. next(pc, x) \in Job /\ next(pc, x).task = task /\ next(pc, x).pc = pc
      /\ next(pc, x).s = x /\ next(pc, x).rep = NoReport
  BY DEF Job, Recovery
<1> HIDE DEF next
<1>6. /\ jobs' \in [Thread -> Job] /\ jobs'[t] = next(pc, x)
      /\ \A u \in Thread \ {t} : jobs'[u] = jobs[u]
  BY <1>1, <1>4, <1>5, Put
<1>7. rs \in Status
  BY DEF Status, Final
<1>8. /\ progress' \in RowRec /\ used' \in Used /\ unsaved' \in BOOLEAN
      /\ \/ progress'.s = x /\ progress'.rs = rs /\ unsaved' = unsaved
         \/ progress' = progress /\ unsaved'
  BY <1>1, <1>4, <1>7, Persisted
<1>9. TypeOK'
  BY <1>1, <1>6, <1>8, <1>13 DEF TypeOK, Used
<1>10. ASSUME ~added PROVE Scored'
  <2>1. ASSUME Agree, ~late', ~unsaved' PROVE Onward(t, NoReport) /\ Memory(NoReport) /\ Row(NoReport)
    <3>1. Settled(s.n) /\ progress'.s = x
      BY <1>8, <1>10, <1>13, <2>1
    <3>2. Onward(t, NoReport)
      BY <1>1, <1>4, <1>5, <1>6, <3>1 DEF Onward
    <3>3. Memory(NoReport)
      BY <1>10, Settles DEF Memory, Held
    <3>4. given <= s.n
      <4>1. progress.s.n <= s.n /\ given <= progress.s.n /\ s.n \in Nat
        BY <2>1, <3>1, SessFields, ReportAssumption DEF Agree, Reaches
      <4> QED BY <1>1, <4>1, Numbers
    <3>5. Row(NoReport)
      BY <1>4, <3>1, <3>4 DEF Row
    <3> QED BY <3>2, <3>3, <3>5
  <2>4. ~late' => ~late
    BY <1>13
  <2>2. ~unsaved' => ~unsaved
    BY <1>8
  <2>3. record' \in {record, NoReport}
    OBVIOUS
  <2> QED BY <1>9, <2>1, <2>2, <2>3, <2>4, StepScored
<1>14. ASSUME added PROVE Scored'
  <2> SUFFICES ASSUME ~late', ~unsaved' PROVE (Agree /\ Covered)'
    BY DEF Scored
  <2>1. /\ progress'.s = x /\ record = NoReport /\ record' = NoReport /\ given' = given
        /\ \A u \in Thread : ~Working(u)
    BY <1>8, <1>13, <1>14
  <2>2. \A u \in Thread \ {t} : jobs'[u] = Idle
    BY <1>1, <1>6, <2>1 DEF Shapes, Shape, Working
  <2>3. \A u \in Thread \ {t} : /\ ~Carries(u)' /\ ~Submits(u)'
                                 /\ jobs'[u].rep = NoReport /\ jobs'[u].s.rep = NoReport
    BY <2>2, Constant DEF Carries, Submits
  <2>4. jobs'[t].s.n = s.n /\ Carries(t)' /\ ~Submits(t)' /\ progress'.s.n = s.n
    BY <1>4, <1>5, <1>6, <2>1 DEF Carries, Submits
  <2>5. given <= s.n /\ s.n \in Nat /\ s.n <= s.n
    <3>1. ~late /\ ~unsaved /\ ~Locked
      BY <1>8, <1>13
    <3>2. Agree /\ Settled(Current.n) /\ Current.n \in Nat
      BY <1>1, <3>1, CurrentIs, SessFields, Settles, ReportAssumption DEF IInv, Scored
    <3>3. given <= progress.s.n /\ progress.s.n <= Current.n
      BY <3>2 DEF Agree, Reaches
    <3> QED BY <1>1, <1>14, <3>2, <3>3, Numbers
  <2>6. \A y \in Nat : Settled(y)' => y = s.n
    BY <1>14, <2>3, <2>4 DEF Settled, Live
  <2>7. Agree'
    BY <2>1, <2>4, <2>5, <2>6 DEF Agree, Reaches, Settled
  <2>8. Covered'
    <3>1. progress'.s.rep = NoReport /\ jobs'[t].s.rep = NoReport /\ jobs'[t].rep = NoReport
      BY <1>4, <1>5, <1>6, <2>1
    <3>2. session' # NoSession => session'.rep = NoReport
      BY <1>1, <2>1 DEF Unstored
    <3> QED BY <2>1, <2>3, <3>1, <3>2, Reports DEF Covered, Held
  <2> QED BY <2>7, <2>8
<1>11. Shape(jobs'[t])
  BY <1>5, <1>6 DEF Shape, Recovery
<1>12. record = NoReport =>
         /\ session' # NoSession => session'.rep = NoReport
         /\ progress'.s.rep = NoReport /\ progress'.rs # "ready"
         /\ jobs'[t].s.rep = NoReport /\ jobs'[t].rep = NoReport
         /\ jobs'[t].pc \notin {"mark", "again", "close", "count", "write"}
  BY <1>4, <1>5, <1>6, <1>8 DEF IInv, Unstored
<1> QED BY <1>1, <1>5, <1>6, <1>9, <1>10, <1>14, <1>11, <1>12, StepKeeps

LEMMA RecoverKeeps == ASSUME IInv, NEW t \in Thread, Recover(t) PROVE IInv'
<1>1. progress.s \in Sess /\ (session # NoSession => session \in Sess)
  BY CurrentIs DEF IInv
<1>2. /\ ~Working(t) /\ Start(t, "recover", progress.s, FALSE)
      /\ UNCHANGED <<session, begun, record, link, syncs, given, lost, raced>>
  BY DEF Recover, MayPass
<1>3. record = NoReport => progress.s.rep = NoReport
  BY DEF IInv, Unstored
<1> QED BY <1>1, <1>2, <1>3, Settles, StartKeeps DEF Recovery

LEMMA FinalizeStaleKeeps == ASSUME IInv, NEW t \in Thread, FinalizeStale(t) PROVE IInv'
<1> DEFINE added == Current.n = 0 /\ ~Current.comp /\ MaxAnswers > 0
           s == [Current EXCEPT !.n = IF added THEN 1 ELSE @]
           task == IF session = NoSession THEN "cold" ELSE "stale"
<1>1. /\ ~Working(t) /\ Start(t, task, s, added)
      /\ session' = (IF session = NoSession THEN NoSession
                     ELSE IF record = NoReport THEN [s EXCEPT !.comp = TRUE, !.sub = TRUE] ELSE s)
      /\ UNCHANGED <<begun, record, link, syncs, given, lost, raced>>
  BY DEF FinalizeStale, MayPass
<1>2. TypeOK /\ Current \in Sess /\ Current.n \in 0..MaxAnswers
  BY CurrentIs, SessFields DEF IInv
<1>3. /\ s \in Sess /\ s.rep = Current.rep
      /\ s.n = IF added THEN Current.n + 1 ELSE Current.n
  <2>1. (IF added THEN 1 ELSE Current.n) \in 0..MaxAnswers
    BY <1>2, ReportAssumption
  <2>2. Current = [n |-> Current.n, comp |-> Current.comp, fin |-> Current.fin,
                   sub |-> Current.sub, rep |-> Current.rep]
    BY <1>2 DEF Sess
  <2>3. s = [n |-> IF added THEN 1 ELSE Current.n, comp |-> Current.comp,
             fin |-> Current.fin, sub |-> Current.sub, rep |-> Current.rep]
    BY <2>2
  <2> HIDE DEF s
  <2>4. s \in Sess
    BY <1>2, <2>1, <2>3, SessFields DEF Sess
  <2> QED BY <1>2, <2>3, <2>4, ReportAssumption
<1>4. added \in BOOLEAN /\ task \in Recovery
  BY DEF Recovery
<1>5. ~Locked => Settled(Current.n)
  BY Settles
<1>6. Held(Current.rep) /\ (record = NoReport => Current.rep = NoReport)
  BY Settles DEF IInv, Unstored, Current
<1>7. session # NoSession => Current = session
  BY DEF Current
<1> HIDE DEF s, added, task
<1>8. session' # NoSession => /\ session # NoSession /\ session' \in Sess
                              /\ session'.n = s.n /\ session'.rep = s.rep
  BY <1>1, <1>3, Changed
<1>9. session' \in Sess \cup {NoSession}
  BY <1>8
<1> QED BY <1>1, <1>3, <1>4, <1>5, <1>6, <1>7, <1>8, <1>9, StartKeeps

\* A submission: with a typed answer it is in time only when nothing is
\* written and nobody at work.
LEMMA SubmitKeeps == ASSUME IInv, NEW t \in Thread, Submit(t) PROVE IInv'
<1>1. /\ TypeOK /\ Shapes /\ Unstored /\ Current \in Sess /\ jobs[t].task = "none"
      /\ jobs[t].pc = "idle" /\ ~Submits(t)
  BY Free, CurrentIs DEF IInv, Submit
<1>2. PICK pending \in {0, 1}, s \in Sess, pc \in {"mark", "fast"} :
        /\ s.n = Current.n + pending /\ s.rep = Current.rep /\ ~Locked
        /\ session' \in Sess /\ session'.n = s.n /\ session'.rep = s.rep
        /\ jobs' = [jobs EXCEPT ![t] = [task |-> "submit", pc |-> pc, s |-> s, rep |-> NoReport]]
        /\ record = NoReport => pc = "fast"
        /\ Call /\ Late(pending = 1)
        /\ UNCHANGED <<progress, begun, record, link, syncs, given, unsaved, lost, raced>>
  <2>1. PICK p \in {0, 1} :
          LET s == [Current EXCEPT !.n = @ + p, !.fin = TRUE] IN
          /\ ~Locked /\ s.n <= MaxAnswers
          /\ \/ /\ record # NoReport /\ session' = s
                /\ jobs' = [jobs EXCEPT ![t] = [task |-> "submit", pc |-> "mark", s |-> s, rep |-> NoReport]]
             \/ /\ record = NoReport /\ session' = [s EXCEPT !.comp = TRUE, !.sub = TRUE]
                /\ jobs' = [jobs EXCEPT ![t] = [task |-> "submit", pc |-> "fast", s |-> s, rep |-> NoReport]]
          /\ Call /\ Late(p = 1)
          /\ UNCHANGED <<progress, begun, record, link, syncs, given, unsaved, lost, raced>>
    BY DEF Submit
  <2> DEFINE s == [Current EXCEPT !.n = @ + p, !.fin = TRUE]
  <2>2. /\ ~Locked /\ s.n <= MaxAnswers
        /\ \/ /\ record # NoReport /\ session' = s
              /\ jobs' = [jobs EXCEPT ![t] = [task |-> "submit", pc |-> "mark", s |-> s, rep |-> NoReport]]
           \/ /\ record = NoReport /\ session' = [s EXCEPT !.comp = TRUE, !.sub = TRUE]
              /\ jobs' = [jobs EXCEPT ![t] = [task |-> "submit", pc |-> "fast", s |-> s, rep |-> NoReport]]
        /\ Call /\ Late(p = 1)
        /\ UNCHANGED <<progress, begun, record, link, syncs, given, unsaved, lost, raced>>
    BY <2>1
  <2>3. s = [Current EXCEPT !.n = @ + p, !.fin = TRUE]
    OBVIOUS
  <2> HIDE DEF s
  <2>4. s.n = Current.n + p
    BY <1>1, <2>3 DEF Sess
  <2>5. s \in Sess /\ s.n = Current.n + p /\ s.rep = Current.rep
    <3>1. Current = [n |-> Current.n, comp |-> Current.comp, fin |-> Current.fin,
                     sub |-> Current.sub, rep |-> Current.rep]
      BY <1>1 DEF Sess
    <3>2. s = [n |-> Current.n + p, comp |-> Current.comp, fin |-> TRUE,
               sub |-> Current.sub, rep |-> Current.rep]
      BY <2>3, <3>1
    <3>3. Current.n + p \in 0..MaxAnswers
      BY <1>1, <2>2, <2>4, SessFields, ReportAssumption
    <3> QED BY <1>1, <3>2, <3>3, SessFields DEF Sess
  <2>6. session' \in Sess /\ session'.n = s.n /\ session'.rep = s.rep
    BY <2>2, <2>5, Changed
  <2>7. \E pc \in {"mark", "fast"} :
          /\ jobs' = [jobs EXCEPT ![t] = [task |-> "submit", pc |-> pc, s |-> s, rep |-> NoReport]]
          /\ record = NoReport => pc = "fast"
    BY <2>2
  <2> QED BY <2>2, <2>5, <2>6, <2>7
<1>3. s \in Sess /\ s.n = Current.n + pending /\ s.rep = Current.rep
  BY <1>2
<1>4. session' \in Sess /\ session'.n = s.n /\ session'.rep = s.rep
  BY <1>2
<1>5. /\ jobs' = [jobs EXCEPT ![t] = [task |-> "submit", pc |-> pc, s |-> s, rep |-> NoReport]]
      /\ record = NoReport => pc = "fast"
  BY <1>2
<1> DEFINE j == [task |-> "submit", pc |-> pc, s |-> s, rep |-> NoReport]
<1>6. j \in Job /\ j.task = "submit" /\ j.pc = pc /\ j.s = s /\ j.rep = NoReport
  BY <1>3 DEF Job
<1> HIDE DEF j
<1>7. /\ jobs' \in [Thread -> Job] /\ jobs'[t] = j
      /\ \A u \in Thread \ {t} : jobs'[u] = jobs[u]
  BY <1>1, <1>5, <1>6, Put DEF j
<1>8. TypeOK'
  <2>1. used' \in Used /\ late' \in BOOLEAN
    BY <1>1, <1>2, Spent DEF TypeOK, Used, Late
  <2> QED BY <1>1, <1>2, <1>4, <1>7, <2>1 DEF TypeOK, Used
<1>9. Scored'
  <2>1. CASE pending = 0
    <3>1. s.n = Current.n /\ Settled(Current.n) /\ Held(Current.rep)
      BY <1>1, <1>2, <1>3, <2>1, Settles, SessFields, ReportAssumption
    <3>2. Onward(t, NoReport)
      BY <1>1, <1>3, <1>6, <1>7, <3>1 DEF Onward
    <3>3. Memory(NoReport)
      BY <1>3, <1>4, <3>1 DEF Memory
    <3>4. Row(NoReport)
      BY <1>2, Settles DEF Row, Agree
    <3>5. ~late' => ~late
      BY <1>2 DEF Late
    <3>6. record' = record /\ (~unsaved' => ~unsaved)
      BY <1>2
    <3> QED BY <1>8, <3>2, <3>3, <3>4, <3>5, <3>6, StepScored
  <2>2. CASE pending = 1
    <3> SUFFICES ASSUME ~late', ~unsaved' PROVE (Agree /\ Covered)'
      BY DEF Scored
    <3>1. record = NoReport /\ record' = NoReport /\ (\A u \in Thread : ~Working(u)) /\ ~late /\ ~unsaved
      BY <1>2, <2>2 DEF Late
    <3>2. \A u \in Thread \ {t} : jobs'[u] = Idle
      BY <1>1, <1>7, <3>1 DEF Shapes, Shape, Working
    <3>3. \A u \in Thread \ {t} : ~Carries(u)' /\ jobs'[u].rep = NoReport /\ jobs'[u].s.rep = NoReport
      BY <3>2, Constant DEF Carries
    <3>4. Submits(t)'
      BY <1>6, <1>7 DEF Submits
    <3>5. \A x \in Nat : Live(x)' => x = s.n
      BY <1>4, <1>6, <1>7, <3>3 DEF Live
    <3>6. progress.s.n <= s.n /\ given <= progress.s.n /\ s.n \in Nat
      <4>1. Agree /\ Settled(Current.n) /\ Current.n \in Nat /\ progress.s.n \in Nat
        BY <1>1, <1>2, <3>1, Settles, SessFields, ReportAssumption, Numbers DEF IInv, Scored
      <4>2. progress.s.n <= Current.n /\ given <= progress.s.n
        BY <4>1 DEF Agree, Reaches
      <4> QED BY <1>3, <2>2, <4>1, <4>2
    <3>7. Agree'
      BY <1>2, <3>4, <3>5, <3>6 DEF Agree, Settled, Reaches
    <3>8. s.rep = NoReport /\ progress'.s.rep = NoReport
      BY <1>1, <1>2, <1>3, <3>1 DEF Unstored, Current
    <3>9. Covered'
      BY <1>4, <1>6, <1>7, <3>1, <3>3, <3>8, Reports DEF Covered, Held
    <3> QED BY <3>7, <3>9
  <2> QED BY <2>1, <2>2
<1>10. Shape(jobs'[t])
  BY <1>6, <1>7 DEF Shape
<1>11. record = NoReport =>
         /\ session'.rep = NoReport
         /\ progress'.s.rep = NoReport /\ progress'.rs # "ready"
         /\ jobs'[t].s.rep = NoReport /\ jobs'[t].rep = NoReport
         /\ jobs'[t].pc \notin {"mark", "again", "close", "count", "write"}
  BY <1>1, <1>2, <1>3, <1>4, <1>5, <1>6, <1>7 DEF Unstored, Current
<1>12. jobs'[t].pc \notin {"again", "close"}
  BY <1>6, <1>7
<1> QED BY <1>1, <1>2, <1>7, <1>8, <1>9, <1>10, <1>11, <1>12, StepKeeps

\* The quick report is stored; its submission will send an evaluation on.
LEMMA FastReportKeeps == ASSUME IInv, NEW t \in Thread, FastReport(t) PROVE IInv'
<1> DEFINE r == Fallback(jobs[t].s.n)
           j == [task |-> jobs[t].task, pc |-> "mark", s |-> jobs[t].s, rep |-> r]
<1>1. TypeOK /\ Shapes /\ jobs[t] \in Job /\ jobs[t].s \in Sess /\ jobs[t].s.n \in 0..MaxAnswers
  BY JobFields DEF IInv
<1>2. /\ jobs[t].pc = "fast" /\ Store(t, r)
      /\ session' = (IF session = NoSession THEN session ELSE [session EXCEPT !.rep = r])
      /\ jobs' = [jobs EXCEPT ![t] = [@ EXCEPT !.pc = "mark", !.rep = r]]
      /\ UNCHANGED <<progress, begun, link, syncs, given, late, unsaved, lost, used>>
  BY DEF FastReport
<1>3. r \in Report /\ r.n = jobs[t].s.n /\ r # NoReport
  BY <1>1, Made
<1> HIDE DEF r
<1>4. j \in Job /\ j.task = jobs[t].task /\ j.pc = "mark" /\ j.s = jobs[t].s /\ j.rep = r
  BY <1>1, <1>3 DEF Job
<1>5. jobs' = [jobs EXCEPT ![t] = j]
  <2>1. jobs'[t] = [jobs[t] EXCEPT !.pc = "mark", !.rep = r]
    BY <1>1, <1>2 DEF TypeOK
  <2>2. jobs[t] = [task |-> jobs[t].task, pc |-> jobs[t].pc, s |-> jobs[t].s, rep |-> jobs[t].rep]
    BY <1>1 DEF Job
  <2>3. jobs'[t] = j
    BY <2>1, <2>2
  <2> QED BY <1>1, <1>2, <2>3 DEF TypeOK
<1> HIDE DEF j
<1>6. /\ jobs' \in [Thread -> Job] /\ jobs'[t] = j
      /\ \A u \in Thread \ {t} : jobs'[u] = jobs[u]
  BY <1>1, <1>4, <1>5, Put
<1>7. session' \in Sess \cup {NoSession} /\ Memory(r)
  <2>1. CASE session = NoSession
    BY <1>2, <2>1 DEF Memory
  <2>2. CASE session # NoSession
    <3>1. session \in Sess /\ session' = [session EXCEPT !.rep = r]
      BY <1>1, <1>2, <2>2, CurrentIs
    <3>2. session = [n |-> session.n, comp |-> session.comp, fin |-> session.fin,
                     sub |-> session.sub, rep |-> session.rep]
      BY <3>1 DEF Sess
    <3>3. session' = [n |-> session.n, comp |-> session.comp, fin |-> session.fin,
                      sub |-> session.sub, rep |-> r]
      BY <3>1, <3>2
    <3>4. session' \in Sess /\ session'.n = session.n /\ session'.rep = r
      BY <1>3, <3>1, <3>3, SessFields DEF Sess
    <3>5. Settled(session.n)
      BY <2>2, Settles
    <3> QED BY <3>4, <3>5 DEF Memory
  <2> QED BY <2>1, <2>2
<1>8. record' = r /\ raced' \in BOOLEAN
  BY <1>2 DEF Store
<1>9. TypeOK'
  BY <1>1, <1>2, <1>3, <1>6, <1>7, <1>8 DEF TypeOK
<1>10. jobs[t].task = "submit" /\ jobs'[t].task = "submit" /\ jobs'[t].pc = "mark"
  BY <1>1, <1>2, <1>4, <1>6 DEF Shapes, Shape
<1>11. Shapes'
  <2>1. Shape(jobs'[t])
    BY <1>10 DEF Shape
  <2> QED BY <1>1, <1>6, <2>1, ShapesKept
<1>12. Unstored' /\ PendingIsOwed'
  BY <1>3, <1>8, <1>10 DEF Unstored, PendingIsOwed
<1>13. SentOn'
  BY <1>2, <1>6, <1>10 DEF IInv, SentOn
<1>14. Scored'
  <2>1. Carries(t) /\ Submits(t)'
    BY <1>2, <1>10 DEF Carries, Submits
  <2>2. Settled(jobs[t].s.n)
    BY <2>1, Settles
  <2>3. Onward(t, r)
    BY <1>4, <1>6, <2>1, <2>2, Settles DEF Onward
  <2>4. Row(r)
    BY <1>2, Settles DEF Row, Agree
  <2>5. Agree => Reaches(r.n)
    BY <1>1, <1>3, <2>2, Numbers DEF Agree
  <2>6. record' \in {record, r} /\ (~late' => ~late) /\ (~unsaved' => ~unsaved)
    BY <1>2, <1>8
  <2> QED BY <1>7, <1>9, <2>3, <2>4, <2>5, <2>6, StepScored
<1>15. Carried'
  <2>1. ASSUME ~raced', NEW x \in Report, syncs'[x] > 0 PROVE x = r
    BY <1>2, <2>1 DEF Store, Races
  <2> QED BY <1>8, <1>10, <2>1 DEF Carried
<1> QED BY <1>9, <1>11, <1>12, <1>13, <1>14, <1>15 DEF IInv

\* The checkpoint of a submission takes in its answers.
LEMMA SubmittedKeeps == ASSUME IInv, NEW t \in Thread, Submitted(t) PROVE IInv'
<1>1. TypeOK /\ Shapes /\ jobs[t] \in Job /\ jobs[t].s \in Sess /\ jobs[t].s.n \in 0..MaxAnswers
      /\ jobs[t].rep \in Report \cup {NoReport}
  BY JobFields DEF IInv
<1> DEFINE s == IF jobs[t].rep = NoReport THEN jobs[t].s
                ELSE [jobs[t].s EXCEPT !.comp = TRUE, !.sub = TRUE, !.rep = jobs[t].rep]
<1>2. PICK rs \in {"ready", "generating"} :
        /\ jobs[t].pc = "mark" /\ Persist(s, TRUE, rs) /\ given' = jobs[t].s.n
        /\ jobs' = [jobs EXCEPT ![t] = [@ EXCEPT !.pc = "eval", !.rep = NoReport]]
        /\ UNCHANGED <<session, begun, record, link, syncs, late, lost, raced>>
  BY DEF Submitted
<1>3. ASSUME NEW k, k = s
      PROVE  k \in Sess /\ k.n = jobs[t].s.n /\ k.rep \in {jobs[t].rep, jobs[t].s.rep}
  <2>1. CASE jobs[t].rep = NoReport
    BY <1>1, <1>3, <2>1
  <2>2. CASE jobs[t].rep # NoReport
    <3>1. jobs[t].rep \in Report /\ k = [jobs[t].s EXCEPT !.comp = TRUE, !.sub = TRUE, !.rep = jobs[t].rep]
      BY <1>1, <1>3, <2>2
    <3>2. jobs[t].s = [n |-> jobs[t].s.n, comp |-> jobs[t].s.comp, fin |-> jobs[t].s.fin,
                       sub |-> jobs[t].s.sub, rep |-> jobs[t].s.rep]
      BY <1>1 DEF Sess
    <3>3. k = [n |-> jobs[t].s.n, comp |-> TRUE, fin |-> jobs[t].s.fin, sub |-> TRUE, rep |-> jobs[t].rep]
      BY <3>1, <3>2
    <3> QED BY <1>1, <3>1, <3>3, SessFields DEF Sess
  <2> QED BY <2>1, <2>2
<1> HIDE DEF s
<1>14. s \in Sess /\ s.n = jobs[t].s.n /\ s.rep \in {jobs[t].rep, jobs[t].s.rep}
  BY <1>3
<1> DEFINE j == [task |-> jobs[t].task, pc |-> "eval", s |-> jobs[t].s, rep |-> NoReport]
<1>4. j \in Job /\ j.task = jobs[t].task /\ j.pc = "eval" /\ j.s = jobs[t].s /\ j.rep = NoReport
  BY <1>1 DEF Job
<1>5. jobs' = [jobs EXCEPT ![t] = j]
  <2>1. jobs'[t] = [jobs[t] EXCEPT !.pc = "eval", !.rep = NoReport]
    BY <1>1, <1>2 DEF TypeOK
  <2>2. jobs[t] = [task |-> jobs[t].task, pc |-> jobs[t].pc, s |-> jobs[t].s, rep |-> jobs[t].rep]
    BY <1>1 DEF Job
  <2>3. jobs'[t] = j
    BY <2>1, <2>2
  <2> QED BY <1>1, <1>2, <2>3 DEF TypeOK
<1> HIDE DEF j
<1>6. /\ jobs' \in [Thread -> Job] /\ jobs'[t] = j
      /\ \A u \in Thread \ {t} : jobs'[u] = jobs[u]
  BY <1>1, <1>4, <1>5, Put
<1>7. rs \in Status
  BY DEF Status, Final
<1>8. /\ progress' \in RowRec /\ used' \in Used /\ unsaved' \in BOOLEAN
      /\ \/ progress'.s = s /\ progress'.rs = rs /\ unsaved' = unsaved
         \/ progress' = progress /\ unsaved'
  BY <1>1, <1>2, <1>14, <1>7, Persisted
<1>9. TypeOK'
  BY <1>1, <1>2, <1>6, <1>8 DEF TypeOK, Used
<1>10. jobs[t].task = "submit" /\ Carries(t)
  BY <1>1, <1>2 DEF Shapes, Shape, Carries
<1>11. Shape(jobs'[t])
  BY <1>4, <1>6, <1>10 DEF Shape
<1>12. Scored'
  <2>1. ASSUME ~unsaved' PROVE Onward(t, NoReport) /\ Memory(NoReport) /\ Row(NoReport)
    <3>1. progress'.s = s /\ progress'.s.n = jobs[t].s.n /\ given' = jobs[t].s.n
      BY <1>2, <1>14, <1>8, <2>1
    <3>2. Settled(jobs[t].s.n)
      BY <1>10, Settles
    <3>3. Onward(t, NoReport)
      BY <1>4, <1>6, <3>1, <3>2, Settles DEF Onward
    <3>4. Memory(NoReport)
      BY <1>2, Settles DEF Memory, Current
    <3>5. Row(NoReport)
      <4>1. jobs[t].s.n <= jobs[t].s.n
        BY <1>1, ReportAssumption
      <4> QED BY <1>14, <3>1, <3>2, <4>1, Settles DEF Row
    <3> QED BY <3>3, <3>4, <3>5
  <2>2. ~late' => ~late
    BY <1>2
  <2>3. ~unsaved' => ~unsaved
    BY <1>8
  <2>4. record' = record
    BY <1>2
  <2> QED BY <1>9, <2>1, <2>2, <2>3, <2>4, StepScored
<1>13. record # NoReport
  BY <1>2 DEF IInv, Unstored
<1> QED BY <1>2, <1>4, <1>6, <1>9, <1>10, <1>11, <1>12, <1>13, StepKeeps

\* The closing checkpoint.
LEMMA CloseKeeps == ASSUME IInv, NEW t \in Thread, Close(t) PROVE IInv'
<1>1. TypeOK /\ Shapes /\ jobs[t] \in Job /\ jobs[t].s \in Sess /\ jobs[t].s.n \in 0..MaxAnswers
  BY JobFields DEF IInv
<1>2. /\ jobs[t].pc = "close" /\ Persist(jobs[t].s, TRUE, "ready")
      /\ jobs' = [jobs EXCEPT ![t] = IF jobs[t].task = "recover" THEN [@ EXCEPT !.pc = "count"] ELSE Idle]
      /\ session' \in {session, NoSession}
      /\ UNCHANGED <<begun, record, link, syncs, given, late, lost, raced>>
  BY DEF Close
<1>3. PICK j \in Job : /\ jobs' = [jobs EXCEPT ![t] = j] /\ j.pc \in {"count", "idle"} /\ Shape(j)
                       /\ j.rep \in {NoReport, jobs[t].rep}
                       /\ j.s.rep \in {NoReport, jobs[t].s.rep} /\ (j.pc = "count" => j.s.n = jobs[t].s.n)
  <2>1. CASE jobs[t].task = "recover"
    <3> DEFINE k == [task |-> jobs[t].task, pc |-> "count", s |-> jobs[t].s, rep |-> jobs[t].rep]
    <3>1. jobs[t] = [task |-> jobs[t].task, pc |-> jobs[t].pc, s |-> jobs[t].s, rep |-> jobs[t].rep]
      BY <1>1 DEF Job
    <3>2. jobs'[t] = [jobs[t] EXCEPT !.pc = "count"]
      BY <1>1, <1>2, <2>1 DEF TypeOK
    <3>3. jobs'[t] = k
      BY <3>1, <3>2
    <3>4. jobs' = [jobs EXCEPT ![t] = k]
      BY <1>1, <1>2, <3>3 DEF TypeOK
    <3>5. k \in Job /\ k.pc = "count" /\ k.task = "recover" /\ k.rep = jobs[t].rep /\ k.s = jobs[t].s
      BY <1>1, <2>1 DEF Job
    <3>6. Shape(k)
      BY <3>5 DEF Shape
    <3> HIDE DEF k
    <3> QED BY <3>4, <3>5, <3>6
  <2>2. CASE jobs[t].task # "recover"
    BY <1>2, <2>2, Constant, IdleShape
  <2> QED BY <2>1, <2>2
<1>4. /\ jobs' \in [Thread -> Job] /\ jobs'[t] = j
      /\ \A u \in Thread \ {t} : jobs'[u] = jobs[u]
  BY <1>1, <1>3, Put
<1>5. "ready" \in Status
  BY DEF Status, Final
<1>6. /\ progress' \in RowRec /\ used' \in Used /\ unsaved' \in BOOLEAN
      /\ \/ progress'.s = jobs[t].s /\ unsaved' = unsaved
         \/ progress' = progress /\ unsaved'
  BY <1>1, <1>2, <1>5, Persisted
<1>7. TypeOK'
  BY <1>1, <1>2, <1>4, <1>6 DEF TypeOK, Used
<1>8. Scored'
  <2>1. ASSUME Agree, ~unsaved' PROVE Onward(t, NoReport) /\ Memory(NoReport) /\ Row(NoReport)
    <3>1. progress'.s = jobs[t].s
      BY <1>6, <2>1
    <3>2. Settled(jobs[t].s.n)
      BY <1>2, Settles DEF Carries
    <3>3. Onward(t, NoReport)
      BY <1>3, <1>4, <3>1, <3>2, Settles DEF Onward, Carries
    <3>4. Memory(NoReport)
      BY <1>2, Settles DEF Memory, Current
    <3>5. given <= jobs[t].s.n
      <4>1. progress.s.n <= jobs[t].s.n /\ given <= progress.s.n
        BY <1>1, <2>1, <3>2, Numbers DEF Agree, Reaches
      <4> QED BY <1>1, <4>1, Numbers
    <3>6. Row(NoReport)
      BY <1>2, <3>1, <3>2, <3>5, Settles DEF Row
    <3> QED BY <3>3, <3>4, <3>6
  <2>2. ~late' => ~late
    BY <1>2
  <2>3. ~unsaved' => ~unsaved
    BY <1>6
  <2>4. record' = record
    BY <1>2
  <2> QED BY <1>7, <2>1, <2>2, <2>3, <2>4, StepScored
<1>9. record # NoReport
  BY <1>2 DEF IInv, Unstored
<1> QED BY <1>2, <1>3, <1>4, <1>7, <1>8, <1>9, StepKeeps

\* An attempt is counted: the answers and the report of the checkpoint stay.
LEMMA CountKeeps == ASSUME IInv, NEW t \in Thread, Count(t) PROVE IInv'
<1>1. TypeOK /\ Shapes /\ jobs[t] \in Job
  BY JobFields DEF IInv
<1>2. /\ jobs[t].pc = "count" /\ session' = NoSession /\ jobs' = [jobs EXCEPT ![t] = Idle]
      /\ UNCHANGED <<begun, record, link, syncs, history, used>>
  BY DEF Count
<1>3. progress' \in RowRec /\ progress'.s = progress.s
  <2>1. CASE jobs[t].task # "recover"
    BY <1>1, <2>1 DEF Count, TypeOK
  <2>2. CASE jobs[t].task = "recover"
    <3>1. PICK rs \in Status :
            progress' = [over |-> progress.over, rs |-> rs, s |-> progress.s,
                         tries |-> progress.tries + 1, age |-> progress.age, wait |-> progress.wait]
      <4>1. "ready" \in Status
        BY DEF Status, Final
      <4> QED BY <1>1, <2>2, <4>1, RowFields DEF Count
    <3>2. progress'.s = progress.s
      BY <3>1
    <3>3. progress.tries + 1 \in Nat
      BY <1>1, RowFields
    <3> QED BY <1>1, <3>1, <3>2, <3>3, RowFields DEF RowRec, Status
  <2> QED BY <2>1, <2>2
<1>4. /\ jobs' \in [Thread -> Job] /\ jobs'[t] = Idle
      /\ \A u \in Thread \ {t} : jobs'[u] = jobs[u]
  BY <1>1, <1>2, Constant, Put
<1>5. TypeOK'
  BY <1>1, <1>2, <1>3, <1>4 DEF TypeOK, history
<1>6. Scored'
  <2>1. ~Carries(t)' /\ ~Submits(t)
    BY <1>2, <1>4, Constant DEF Carries, Submits
  <2>2. Onward(t, NoReport)
    BY <1>4, <2>1, Constant DEF Onward
  <2>3. Memory(NoReport) /\ Row(NoReport)
    BY <1>2, <1>3, Settles DEF Memory, Row, Agree, history
  <2>4. (~late' => ~late) /\ (~unsaved' => ~unsaved)
    BY <1>2 DEF history
  <2>5. record' = record
    BY <1>2
  <2> QED BY <1>5, <2>2, <2>3, <2>4, <2>5, StepScored
<1>7. record # NoReport /\ jobs[t].task # "submit"
  BY <1>1, <1>2 DEF IInv, Unstored, Shapes, Shape
<1> QED BY <1>2, <1>4, <1>5, <1>6, <1>7, IdleShape, Constant, StepKeeps DEF history

LEMMA RecoverFailsKeeps == ASSUME IInv, NEW t \in Thread, RecoverFails(t) PROVE IInv'
<1>1. TypeOK /\ Shapes /\ jobs[t] \in Job
  BY JobFields DEF IInv
<1>2. /\ jobs[t].pc \notin {"fast", "mark"} /\ jobs[t].task # "submit" /\ Fault /\ jobs' = [jobs EXCEPT ![t] = Idle]
      /\ UNCHANGED <<session, begun, record, link, syncs, history>>
  BY DEF RecoverFails, Recovery
<1>3. progress' \in RowRec /\ progress'.s = progress.s /\ progress'.rs \in {progress.rs, "recovery_failed"}
  <2>1. CASE jobs[t].task # "recover"
    BY <1>1, <2>1 DEF RecoverFails, TypeOK
  <2>2. CASE jobs[t].task = "recover"
    <3>1. PICK rs \in {progress.rs, "recovery_failed"} :
            progress' = [over |-> progress.over, rs |-> rs, s |-> progress.s,
                         tries |-> progress.tries + 1, age |-> progress.age, wait |-> TRUE]
      BY <1>1, <2>2, RowFields DEF RecoverFails
    <3>2. progress'.s = progress.s /\ progress'.rs = rs
      BY <3>1
    <3>3. progress.tries + 1 \in Nat /\ rs \in Status
      <4>1. progress.tries + 1 \in Nat
        BY <1>1, RowFields
      <4>2. "recovery_failed" \in Status
        BY DEF Status, Final
      <4> QED BY <1>1, <4>1, <4>2, RowFields
    <3> QED BY <1>1, <3>1, <3>2, <3>3, RowFields DEF RowRec, Status
  <2> QED BY <2>1, <2>2
<1>4. /\ jobs' \in [Thread -> Job] /\ jobs'[t] = Idle
      /\ \A u \in Thread \ {t} : jobs'[u] = jobs[u]
  BY <1>1, <1>2, Constant, Put
<1>5. TypeOK'
  <2>1. used' \in Used
    BY <1>1, <1>2, Spent DEF TypeOK, Used
  <2> QED BY <1>1, <1>2, <1>3, <1>4, <2>1 DEF TypeOK, Used, history
<1>6. Scored'
  <2>1. ~Carries(t)' /\ ~Submits(t)
    BY <1>2, <1>4, Constant DEF Carries, Submits
  <2>2. Onward(t, NoReport)
    BY <1>4, <2>1, Constant DEF Onward
  <2>3. Memory(NoReport) /\ Row(NoReport)
    BY <1>2, <1>3, Settles DEF Memory, Row, Agree, Current, history
  <2>4. (~late' => ~late) /\ (~unsaved' => ~unsaved)
    BY <1>2 DEF history
  <2>5. record' = record
    BY <1>2
  <2> QED BY <1>5, <2>2, <2>3, <2>4, <2>5, StepScored
<1>7. record = NoReport =>
        /\ session' # NoSession => session'.rep = NoReport
        /\ progress'.s.rep = NoReport /\ progress'.rs # "ready"
  BY <1>2, <1>3 DEF IInv, Unstored
<1> QED BY <1>2, <1>4, <1>5, <1>6, <1>7, IdleShape, Constant, StepKeeps DEF history

\* A task that fails in the background sends on the report that is stored.
LEMMA SalvageKeeps ==
  ASSUME IInv, NEW t \in Thread, jobs[t].pc \in {"eval", "again", "close"},
         syncs' = Salvage(t), jobs' = [jobs EXCEPT ![t] = Idle],
         raced' = (raced \/ \E u \in Thread \ {t} : Working(u)),
         progress' \in RowRec, progress' = progress \/ progress'.s = jobs[t].s,
         progress'.rs = progress.rs \/ record # NoReport,
         used' \in Used,
         UNCHANGED <<session, begun, record, link, given, late, unsaved, lost>>
  PROVE  IInv'
<1>1. TypeOK /\ Shapes /\ Unstored /\ Carried /\ SentOn /\ PendingIsOwed
  BY DEF IInv
<1>2. /\ jobs[t].pc \in {"eval", "again", "close"} /\ syncs' = Salvage(t)
      /\ jobs' = [jobs EXCEPT ![t] = Idle]
      /\ raced' = (raced \/ \E u \in Thread \ {t} : Working(u))
      /\ UNCHANGED <<session, begun, record, link, given, late, unsaved, lost>>
  OBVIOUS
<1>3. /\ jobs' \in [Thread -> Job] /\ jobs'[t] = Idle
      /\ \A u \in Thread \ {t} : jobs'[u] = jobs[u]
  BY <1>1, <1>2, Constant, Put
<1>4. \/ /\ record \in Report /\ syncs'[record] > 0
         /\ \A x \in Report \ {record} : syncs'[x] = syncs[x]
      \/ syncs' = syncs /\ (jobs[t].task = "submit" => record = NoReport)
  BY <1>1, <1>2 DEF Salvage, TypeOK
<1>5. TypeOK'
  <2>1. syncs' \in [Report -> Nat]
    BY <1>1, <1>2 DEF Salvage, TypeOK
  <2>2. raced' \in BOOLEAN
    BY <1>2
  <2> QED BY <1>1, <1>2, <1>3, <2>1, <2>2 DEF TypeOK, Used
<1>6. Shapes'
  BY <1>1, <1>3, IdleShape, ShapesKept
<1>7. Unstored'
  <2>1. record = NoReport => progress'.s.rep = NoReport /\ progress'.rs # "ready"
    BY <1>1 DEF Unstored
  <2> QED BY <1>1, <1>2, <1>3, <1>4, <2>1, Constant, Reports DEF Unstored
<1>8. SentOn' /\ PendingIsOwed'
  BY <1>1, <1>2, <1>3, <1>4, Constant DEF SentOn, PendingIsOwed, Unstored
<1>9. Carried'
  <2> SUFFICES ASSUME ~lost', ~raced'
               PROVE  /\ \A r \in Report : syncs'[r] > 0 => r = record
                      /\ record # NoReport /\ link # record =>
                           \/ syncs'[record] > 0
                           \/ \E u \in Thread : jobs'[u].task = "submit" /\ jobs'[u].pc \in {"mark", "eval"}
    BY <1>2 DEF Carried
  <2>1. ~lost /\ ~raced
    BY ONLY <1>2, ~lost', ~raced', Zenon
  <2> QED BY <1>1, <1>3, <1>4, <2>1 DEF Carried
<1>10. Scored'
  <2>1. ~Carries(t)' /\ ~Submits(t)
    BY <1>2, <1>3, Constant DEF Carries, Submits
  <2>2. Onward(t, NoReport)
    BY <1>3, <2>1, Constant DEF Onward
  <2>3. Memory(NoReport)
    BY <1>2, Settles DEF Memory, Current
  <2>6. Settled(jobs[t].s.n)
    BY <1>2, Settles DEF Carries
  <2>7. Agree => given <= progress'.s.n
    <3>1. jobs[t].s.n \in Nat
      BY <1>1, Numbers
    <3>2. Agree => given <= progress.s.n /\ progress.s.n <= jobs[t].s.n
      BY <2>6, <3>1 DEF Agree, Reaches
    <3> QED BY <1>1, <3>1, <3>2, Numbers
  <2>8. Row(NoReport)
    BY <1>2, <2>6, <2>7, Settles DEF Row
  <2>4. (~late' => ~late) /\ (~unsaved' => ~unsaved)
    BY <1>2
  <2>5. record' = record
    BY <1>2
  <2> QED BY <1>5, <2>2, <2>3, <2>4, <2>5, <2>8, StepScored
<1> QED BY <1>5, <1>6, <1>7, <1>8, <1>9, <1>10 DEF IInv

LEMMA EvaluationFailsKeeps == ASSUME IInv, NEW t \in Thread, EvaluationFails(t) PROVE IInv'
<1>1. progress \in RowRec /\ used' \in Used
  BY Spent DEF IInv, TypeOK, Used, EvaluationFails, Breaks
<1>2. /\ jobs[t].pc \in {"eval", "again", "close"} /\ syncs' = Salvage(t)
      /\ jobs' = [jobs EXCEPT ![t] = Idle]
      /\ raced' = (raced \/ \E u \in Thread \ {t} : Working(u))
      /\ UNCHANGED <<session, progress, begun, record, link, given, late, unsaved, lost>>
  BY DEF EvaluationFails, Breaks
<1> QED BY <1>1, <1>2, SalvageKeeps

LEMMA CloseFailsKeeps == ASSUME IInv, NEW t \in Thread, CloseFails(t) PROVE IInv'
<1>1. TypeOK /\ jobs[t].s \in Sess /\ jobs[t].pc = "close" /\ record # NoReport
  BY JobFields DEF IInv, CloseFails, Unstored
<1>2. used' \in Used
  BY <1>1, Spent DEF TypeOK, Used, CloseFails
<1>3. /\ progress.tries \in Nat /\ progress.wait \in BOOLEAN
      /\ progress' = [over |-> TRUE, rs |-> "ready", s |-> jobs[t].s, tries |-> progress.tries,
                      age |-> 0, wait |-> progress.wait]
  BY <1>1, RowFields DEF CloseFails, Saved
<1>4. progress' \in RowRec /\ progress'.s = jobs[t].s
  <2>1. 0 \in 0..2 /\ "ready" \in Status
    BY DEF Status, Final
  <2> QED BY <1>1, <1>3, <2>1 DEF RowRec, Status
<1>5. /\ syncs' = Salvage(t) /\ jobs' = [jobs EXCEPT ![t] = Idle]
      /\ raced' = (raced \/ \E u \in Thread \ {t} : Working(u))
      /\ UNCHANGED <<session, begun, record, link, given, late, unsaved, lost>>
  BY DEF CloseFails
<1> QED BY <1>1, <1>2, <1>4, <1>5, SalvageKeeps

\* A quick report that fails leaves its session, and at most a report nobody
\* will send on.
LEMMA FastReportFailsKeeps == ASSUME IInv, NEW t \in Thread, FastReportFails(t) PROVE IInv'
<1> DEFINE r == Fallback(jobs[t].s.n)
<1>1. TypeOK /\ Shapes /\ Unstored /\ jobs[t].s.n \in 0..MaxAnswers
  BY JobFields DEF IInv
<1>2. /\ jobs[t].pc \in {"fast", "mark"} /\ Fault /\ jobs' = [jobs EXCEPT ![t] = Idle]
      /\ Store(t, r) \/ UNCHANGED <<record, raced>>
      /\ lost' = (lost \/ record' # NoReport)
      /\ unsaved' = (unsaved \/ jobs[t].s.n # progress.s.n)
      /\ UNCHANGED <<session, progress, begun, link, syncs, given, late>>
  BY DEF FastReportFails
<1>3. r \in Report /\ r.n = jobs[t].s.n /\ r # NoReport
  BY <1>1, Made
<1> HIDE DEF r
<1>4. /\ jobs' \in [Thread -> Job] /\ jobs'[t] = Idle
      /\ \A u \in Thread \ {t} : jobs'[u] = jobs[u]
  BY <1>1, <1>2, Constant, Put
<1>5. record' \in {record, r} /\ raced' \in BOOLEAN
  BY <1>1, <1>2 DEF Store, TypeOK
<1>6. TypeOK'
  <2>1. used' \in Used
    BY <1>1, <1>2, Spent DEF TypeOK, Used
  <2>2. lost' \in BOOLEAN /\ unsaved' \in BOOLEAN
    BY <1>1, <1>2 DEF TypeOK
  <2> QED BY <1>1, <1>2, <1>3, <1>4, <1>5, <2>1, <2>2 DEF TypeOK, Used
<1>7. Shapes'
  BY <1>1, <1>4, IdleShape, ShapesKept
<1>8. Unstored'
  BY <1>1, <1>2, <1>3, <1>4, <1>5, Constant DEF Unstored
<1>9. SentOn' /\ PendingIsOwed'
  <2>1. (\E u \in Thread : jobs'[u].pc \in {"again", "close"}) => record' # NoReport
    BY <1>8 DEF Unstored
  <2> QED BY <1>2, <2>1 DEF SentOn, PendingIsOwed
<1>10. Carried'
  <2>1. ~lost' => record' = NoReport
    BY ONLY <1>2, Zenon
  <2>2. record' = NoReport => \A x \in Report : ~(syncs'[x] > 0)
    BY <1>8 DEF Unstored
  <2> QED BY <2>1, <2>2 DEF Carried
<1>11. Scored'
  <2>1. Carries(t) /\ ~Carries(t)'
    BY <1>2, <1>4, Constant DEF Carries
  <2>2. Settled(jobs[t].s.n)
    BY <2>1, Settles
  <2>3. ~unsaved' => Onward(t, r)
    BY <1>2, <1>4, <2>1, <2>2, Constant DEF Onward
  <2>4. Memory(r) /\ Row(r)
    BY <1>2, Settles DEF Memory, Row, Agree, Current
  <2>5. Agree => Reaches(r.n)
    BY <1>1, <1>3, <2>2, Numbers DEF Agree
  <2>6. (~late' => ~late) /\ (~unsaved' => ~unsaved)
    BY <1>2
  <2> QED BY <1>5, <1>6, <2>3, <2>4, <2>5, <2>6, StepScored
<1> QED BY <1>6, <1>7, <1>8, <1>9, <1>10, <1>11 DEF IInv

------------------------------------------------------------------------------
(* The threads to the CRM, restarts, and the theorems.                      *)

\* A report that arrives gives the link a verdict; one that does not is lost.
LEMMA DeliverKeeps == ASSUME IInv, NEW r \in Report, Deliver(r) PROVE IInv'
<1>1. TypeOK /\ Shapes /\ Unstored /\ Carried
  BY DEF IInv
<1>2. /\ syncs[r] > 0 /\ syncs' = [syncs EXCEPT ![r] = @ - 1]
      /\ (link' = r /\ UNCHANGED <<lost, used>>) \/ (Fault /\ lost' = TRUE /\ UNCHANGED link)
      /\ UNCHANGED <<session, progress, begun, record, jobs, given, late, unsaved, raced>>
  BY DEF Deliver
<1>3. syncs' \in [Report -> Nat] /\ \A x \in Report : syncs'[x] > 0 => syncs[x] > 0
  <2>1. syncs[r] \in Nat /\ syncs[r] - 1 \in Nat
    BY <1>1, <1>2 DEF TypeOK
  <2> QED BY <1>1, <1>2, <2>1 DEF TypeOK
<1>4. TypeOK'
  <2>1. used' \in Used
    BY <1>1, <1>2, Spent DEF TypeOK, Used
  <2>2. lost' \in BOOLEAN /\ link' \in Report \cup {NoReport}
    BY <1>1, <1>2 DEF TypeOK
  <2> QED BY <1>1, <1>2, <1>3, <2>1, <2>2 DEF TypeOK, Used
<1>5. record # NoReport
  BY <1>1, <1>2 DEF Unstored
<1>6. link' # NoReport \/ lost'
  BY <1>2, Reports
<1>7. Shapes' /\ Unstored' /\ SentOn' /\ PendingIsOwed'
  BY <1>1, <1>2, <1>5, <1>6 DEF Shapes, Shape, Unstored, SentOn, PendingIsOwed
<1>8. Scored'
  BY <1>2 DEF IInv, Scored, Agree, Covered, Held, Settled, Reaches, Live, Carries, Submits
<1>9. Carried'
  <2> SUFFICES ASSUME ~lost', ~raced'
               PROVE  (\A x \in Report : syncs'[x] > 0 => x = record) /\ link' = record
    BY <1>2 DEF Carried
  <2>1. ~lost /\ ~raced /\ link' = r
    BY <1>2
  <2> QED BY <1>1, <1>2, <1>3, <2>1 DEF Carried
<1> QED BY <1>4, <1>7, <1>8, <1>9 DEF IInv

\* A restart of the server: what was in flight is lost.
LEMMA RestartKeeps == ASSUME IInv, Restart PROVE IInv'
<1>1. TypeOK /\ Unstored /\ PendingIsOwed /\ Carried /\ Shapes
  BY DEF IInv
<1>2. /\ Fault /\ session' = NoSession /\ lost' = (lost \/ ~Resting)
      /\ UNCHANGED <<progress, begun, record, link, given, late, unsaved, raced>>
  BY DEF Restart
<1>3. (\A t \in Thread : jobs'[t] = Idle) /\ jobs' \in [Thread -> Job]
      /\ (\A r \in Report : syncs'[r] = 0) /\ syncs' \in [Report -> Nat]
  BY Constant DEF Restart
<1>4. TypeOK'
  <2>1. used' \in Used /\ lost' \in BOOLEAN
    BY <1>1, <1>2, Spent DEF TypeOK, Used
  <2> QED BY <1>1, <1>2, <1>3, <2>1 DEF TypeOK, Used
<1>5. Shapes' /\ SentOn'
  BY <1>3, IdleShape, Constant DEF Shapes, SentOn
<1>6. Unstored'
  BY <1>1, <1>2, <1>3, Constant DEF Unstored
<1>7. ~lost' => /\ ~lost /\ \A t \in Thread : jobs[t].task # "submit"
                /\ \A r \in Report : ~(syncs[r] > 0)
  <2> SUFFICES ASSUME ~lost' PROVE /\ ~lost /\ \A t \in Thread : jobs[t].task # "submit"
                                   /\ \A r \in Report : ~(syncs[r] > 0)
    OBVIOUS
  <2>1. ~lost /\ Resting
    BY <1>2
  <2>2. \A t \in Thread : jobs[t].task # "submit"
    BY <1>1, <2>1 DEF Resting, Working, Shapes, Shape
  <2>3. \A r \in Report : ~(syncs[r] > 0)
    BY <2>1 DEF Resting
  <2> QED BY <2>1, <2>2, <2>3
<1>8. PendingIsOwed'
  BY <1>1, <1>2, <1>7 DEF PendingIsOwed
<1>9. Carried'
  <2>1. \A r \in Report : ~(syncs'[r] > 0)
    BY <1>3
  <2>2. ~lost' /\ ~raced' /\ record # NoReport => link = record
    <3> SUFFICES ASSUME ~lost', ~raced', record # NoReport PROVE link = record
      OBVIOUS
    <3>1. ~(syncs[record] > 0) /\ ~raced /\ ~lost
      BY <1>1, <1>2, <1>7 DEF TypeOK
    <3> QED BY <1>1, <1>7, <3>1 DEF Carried
  <2> QED BY <1>2, <2>1, <2>2 DEF Carried
<1>10. Scored'
  <2> SUFFICES ASSUME ~late', ~unsaved' PROVE (Agree /\ Covered)'
    BY DEF Scored
  <2>1. Agree /\ Covered
    BY <1>2 DEF IInv, Scored
  <2>2. \A t \in Thread : ~Carries(t)' /\ jobs'[t].rep = NoReport /\ jobs'[t].s.rep = NoReport
    BY <1>3, Constant DEF Carries
  <2>3. \A x \in Nat : ~Live(x)'
    BY <1>2, <2>2 DEF Live
  <2>4. progress.s.n \in Nat /\ progress.s.n <= progress.s.n
    BY <1>1, Numbers
  <2>5. Agree'
    BY <1>2, <2>1, <2>3, <2>4 DEF Agree, Settled, Reaches
  <2>6. \A r \in Report : Held(r)' => Held(r)
    BY <1>2, <2>2, Reports DEF Held
  <2>7. \A n : Reaches(n) => Reaches(n)'
    BY <1>2, <2>3 DEF Reaches
  <2>8. Covered'
    BY <2>1, <2>6, <2>7 DEF Covered
  <2> QED BY <2>5, <2>8
<1> QED BY <1>4, <1>5, <1>6, <1>8, <1>9, <1>10 DEF IInv

\* Every step keeps the invariant.
LEMMA NextKeeps == IInv /\ [Next]_vars => IInv'
<1> SUFFICES ASSUME IInv, [Next]_vars PROVE IInv'
  OBVIOUS
<1>1. CASE UNCHANGED vars
  <2>1. UNCHANGED <<session, progress, begun, record, link, jobs, syncs, given, late, unsaved,
                    lost, raced, used>>
    BY <1>1 DEF vars, history
  <2>2. (TypeOK /\ Shapes /\ Unstored)'
    BY <2>1 DEF IInv, TypeOK, Shapes, Shape, Unstored
  <2>3. (SentOn /\ PendingIsOwed /\ Carried)'
    BY <2>1 DEF IInv, SentOn, PendingIsOwed, Carried
  <2>4. Scored'
    BY <2>1 DEF IInv, Scored, Agree, Covered, Held, Settled, Reaches, Live, Carries, Submits
  <2> QED BY <2>2, <2>3, <2>4 DEF IInv
<1>2. CASE Candidate
  BY <1>2, SignInKeeps, AnswerKeeps, RunOutKeeps, TerminateKeeps, SubmitKeeps DEF Candidate
<1>3. CASE Pass
  BY <1>3, ParkKeeps, RecoverKeeps DEF Pass
<1>4. CASE Reviewer
  BY <1>4, RescoreKeeps, EditKeeps, ViewKeeps DEF Reviewer
<1>5. CASE Tick \/ Restart
  BY <1>5, TickKeeps, RestartKeeps
<1>6. ASSUME NEW t \in Thread, Finish(t) \/ Fail(t) \/ FinalizeStale(t) PROVE IInv'
  BY <1>6, FastReportKeeps, SubmittedKeeps, EvaluateKeeps, StoreAgainKeeps, FallBackKeeps,
     EvaluationFailsKeeps, CloseKeeps, CountKeeps, WriteEditKeeps, FinalizeStaleKeeps,
     RecoverFailsKeeps, FastReportFailsKeeps, CloseFailsKeeps DEF Finish, Fail
<1>7. ASSUME NEW r \in Report, Deliver(r) PROVE IInv'
  BY <1>7, DeliverKeeps
<1> QED BY <1>1, <1>2, <1>3, <1>4, <1>5, <1>6, <1>7 DEF Next

(* The inductive invariant: what every thread, the checkpoint and the two   *)
(* stores agree on between any two steps of the handlers, the workers and   *)
(* the restarts.                                                            *)
THEOREM Invariant == Spec => []IInv
<1>1. Init => IInv
  BY InitIInv
<1>2. IInv /\ [Next]_vars => IInv'
  BY NextKeeps
<1> QED BY <1>1, <1>2, PTL DEF Spec

(* Sessions, checkpoints, reports and threads only ever hold what the code  *)
(* can put there.                                                           *)
THEOREM TypeCorrect == Spec => []TypeOK
<1>1. IInv => TypeOK
  BY DEF IInv
<1> QED BY <1>1, Invariant, PTL

(* A checkpoint closed as ready has its report in interview_records,        *)
(* whatever submissions, recoveries and restarts came before.               *)
THEOREM ReadyHasReport == Spec => []ReportBehindReady
<1>1. IInv => ReportBehindReady
  BY DEF IInv, Unstored, ReportBehindReady
<1> QED BY <1>1, Invariant, PTL

(* No recorded answer is missing from the stored report unless it came      *)
(* beside a finalization or its checkpoint failed.                          *)
THEOREM EveryAnswerScored == Spec => []AnswersScored
<1>1. IInv => AnswersScored
  <2> SUFFICES ASSUME IInv, record # NoReport, ~late, ~unsaved PROVE record.n >= given
    BY DEF AnswersScored
  <2>1. TypeOK /\ Agree /\ Covered /\ record \in Report
    BY DEF IInv, Scored, TypeOK
  <2>2. progress.s.n <= record.n /\ given <= progress.s.n
    BY <2>1 DEF Agree, Covered, Held, Reaches
  <2>3. record.n \in Nat /\ given \in Nat /\ progress.s.n \in Nat
    BY <2>1, Numbers, Reports, ReportAssumption
  <2> QED BY <2>2, <2>3
<1> QED BY <1>1, Invariant, PTL

(* While a link waits for a verdict somebody still works on bringing it,    *)
(* unless something was lost.                                               *)
THEOREM PendingHasOwner == Spec => []PendingIsOwed
<1>1. IInv => PendingIsOwed
  BY DEF IInv
<1> QED BY <1>1, Invariant, PTL

(* At rest the CRM holds the verdict of the stored report, unless something *)
(* was lost or two writers overlapped.                                      *)
THEOREM CrmFollowsReport == Spec => []CrmMatchesReport
<1>1. IInv => CrmMatchesReport
  <2> SUFFICES ASSUME IInv, record # NoReport, Resting, ~lost, ~raced PROVE link = record
    BY DEF CrmMatchesReport
  <2>1. Shapes /\ Carried /\ record \in Report
    BY DEF IInv, TypeOK
  <2>2. ~(syncs[record] > 0)
    BY <2>1 DEF Resting
  <2>3. \A t \in Thread : jobs[t].pc = "idle"
    BY DEF Resting, Working
  <2> QED BY <2>1, <2>2, <2>3 DEF Carried
<1> QED BY <1>1, Invariant, PTL

------------------------------------------------------------------------------
(* A link that stays Pending: why ReportReachesLink has to say "unless      *)
(* something was lost".                                                     *)

(* A report is stored, its link has no verdict, nothing carries one there,  *)
(* and no thread does more than count a recovery.  A restart between the    *)
(* quick report and its upgrade leaves the interview so.                    *)
Stuck ==
  /\ record # NoReport /\ link = NoReport /\ \A r \in Report : syncs[r] = 0
  /\ \A t \in Thread : jobs[t].pc \in {"idle", "count"}

\* What a recovery pass does of an interview that has a report: nothing that
\* reaches the link.
LEMMA PassLeavesStuck ==
  ASSUME IInv, Stuck, NEW t \in Thread, Recover(t) \/ FinalizeStale(t)
  PROVE  Stuck'
<1>1. PICK s, task, added : Start(t, task, s, added)
  BY DEF Recover, FinalizeStale
<1>2. PICK j : jobs' = [jobs EXCEPT ![t] = j] /\ j.pc = "count"
  BY <1>1 DEF Start, Stuck
<1>3. UNCHANGED <<record, link, syncs>>
  BY DEF Recover, FinalizeStale
<1>4. jobs \in [Thread -> Job]
  BY DEF IInv, TypeOK
<1> QED BY <1>2, <1>3, <1>4 DEF Stuck

\* Nor does a thread that only has its recovery to count.
LEMMA FinishLeavesStuck ==
  ASSUME IInv, Stuck, NEW t \in Thread, Finish(t) \/ Fail(t)
  PROVE  Stuck'
<1>1. jobs \in [Thread -> Job] /\ Shape(jobs[t]) /\ jobs[t].pc \in {"idle", "count"}
  BY DEF IInv, TypeOK, Shapes, Stuck
<1>2. jobs[t].pc # "eval" /\ jobs[t].pc # "again"
  BY <1>1
<1>3. Count(t)
  BY <1>1, <1>2 DEF Finish, FastReport, Submitted, Evaluate, StoreAgain, FallBack, Breaks,
     EvaluationFails, Close, WriteEdit, Fail, FastReportFails, RecoverFails, CloseFails
<1>4. jobs' = [jobs EXCEPT ![t] = Idle] /\ UNCHANGED <<record, link, syncs>>
  BY <1>3 DEF Count
<1> QED BY <1>1, <1>4, Constant DEF Stuck

(* Without a request of a person (used.calls counts them).                  *)
StaysStuck == Stuck /\ used'.calls = used.calls => Stuck'

\* No recovery pass, restart, answer or page of the candidate ever fills a link
\* that is stuck, however often they come: only a person who submits again,
\* re-scores, edits or views the report does.  (What ReportUnsynced finds, for
\* every number of threads, attempts and faults.)
THEOREM OnlyPeopleUnstick == Spec => [][StaysStuck]_vars
<1>1. IInv /\ [Next]_vars => [StaysStuck]_vars
  <2> SUFFICES ASSUME IInv, Next, Stuck, used'.calls = used.calls PROVE Stuck'
    BY DEF StaysStuck
  <2>1. ~Call
    <3>1. used.calls \in Nat /\ used \in Used
      BY ReportAssumption DEF IInv, TypeOK, Used
    <3>2. Call => used'.calls = used.calls + 1
      BY <3>1 DEF Call, Used
    <3> QED BY <3>1, <3>2
  <2>2. CASE SignIn \/ Answer \/ RunOut \/ Terminate \/ Park \/ Tick
    BY <2>2 DEF SignIn, Answer, RunOut, Terminate, Park, Tick, Stuck
  <2>3. CASE \E t \in Thread : Submit(t) \/ Rescore(t) \/ Edit(t) \/ View(t)
    BY <2>1, <2>3 DEF Submit, Rescore, Edit, View
  <2>4. CASE \E t \in Thread : Recover(t) \/ FinalizeStale(t)
    BY <2>4, PassLeavesStuck
  <2>5. CASE \E t \in Thread : Finish(t) \/ Fail(t)
    BY <2>5, FinishLeavesStuck
  <2>6. CASE Restart
    BY <2>6, Constant DEF Restart, Stuck
  <2>7. CASE \E r \in Report : Deliver(r)
    BY <2>7 DEF Deliver, Stuck
  <2> QED BY <2>2, <2>3, <2>4, <2>5, <2>6, <2>7 DEF Next, Candidate, Pass, Reviewer
<1> QED BY <1>1, Invariant, PTL DEF Spec
==============================================================================
