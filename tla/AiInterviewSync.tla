--------------------------- MODULE AiInterviewSync ---------------------------
(***************************************************************************)
(* What the results of a candidate's AI interviews, and the decisions      *)
(* people take on them, do to the candidacy                                *)
(* (services/ai_interview_bridge.py, services/admin_corrections.py,        *)
(* services/candidate_profiles.py and their routers).                      *)
(*                                                                         *)
(* A candidacy has one AI interview link per invitation.  Every save of an *)
(* interview report syncs its score onto the link; a report-page decision, *)
(* the screeners' row buttons, the verdict of a manual round, list and     *)
(* page loads that heal old rows, Re-apply and Admin corrections all move  *)
(* the same pipeline stage.  Each is a database transaction of its own     *)
(* with no version check: it reads rows (READ COMMITTED), decides, and at  *)
(* commit writes the columns that differ from what it read.                *)
(*                                                                         *)
(* Abstractions.  Sales_Screening stands for every later stage, Rejected   *)
(* for every closed stage but RMG_Rejected.  A score is a member of a      *)
(* small set; "na" is a report without an answer (not_attempted).          *)
(* on_hold stands for pending_review too.  What a request reads beside     *)
(* the link and the stage, notes, roles, the RMG screening gate and the    *)
(* archive flag are left out; a request other than a sync reads at one     *)
(* moment.                                                                 *)
(***************************************************************************)
EXTENDS Naturals

CONSTANTS
  Txn,         \* database sessions that may be open at once
  MaxLinks,    \* bound: invitations of the candidacy
  MaxOps,      \* bound: requests and syncs in a behaviour
  MaxOverlaps  \* bound: those that arrive while another is open

ASSUME SyncAssumption ==
  MaxLinks \in Nat \ {0} /\ MaxOps \in Nat /\ MaxOverlaps \in Nat

VARIABLES
  link,      \* link[l]: the rows of ai_interview_links, oldest first
  made,      \* how many of them exist
  stage,     \* candidate_profiles.pipeline_status
  origin,    \* the stage of the last logged move into RMG_Rejected
  round,     \* the verdict of the manual L1 round
  reopened,  \* links with no decision since the candidacy was last reopened
  mails,     \* notices queued: <<kind, link, outcome>>
  txn,       \* what each open session does and has read
  aged,      \* links with no new verdict since the last reopening (history)
  torn,      \* columns a session read and wrote across another's (history)
  used       \* requests so far, and overlaps among them

vars == <<link, made, stage, origin, round, reopened, mails, txn, aged, torn, used>>

Link == 1..MaxLinks
Stage == {"Sourcing", "Technical_Screening", "RMG_Review", "Sales_Screening",
          "RMG_Rejected", "Rejected"}
PreRmg == {"Sourcing", "Technical_Screening"}  \* AI_HEAL_FROM, _PRE_RMG_STAGES
AiRejectFrom == PreRmg \cup {"RMG_Review"}
Terminal == {"RMG_Rejected", "Rejected"}

Score == {"na", "low", "fair", "high"}
Verdict(sc) == IF sc = "high" THEN "Passed" ELSE "Failed"
\* Mutant: the dedupe key of a notice holds the score.
ScoreItself(sc) == sc
Outcome(sc) == IF sc = "na" THEN "not_attempted" ELSE Verdict(sc)

Decision == {"", "selected", "rejected", "on_hold"}
LinkRow == [score : Score \cup {""}, result : {"Pending", "Passed", "Failed"},
            decision : Decision, voided : BOOLEAN]
Fresh == [score |-> "", result |-> "Pending", decision |-> "", voided |-> FALSE]
Round == {"", "No Hire", "Hire"}
Column == {"verdict", "decision", "stage"}

(* effective_result counts as a pass: AI_L1_PASSED.                         *)
Passing(row) == row.decision = "selected" \/ (row.decision = "" /\ row.result = "Passed")

(* l, arg: what the request is about; seen, at, was: the link, the stage    *)
(* and the round it read; stale: columns committed by others since.         *)
Kind == {"sync", "page", "row", "round", "move", "reapply", "correct", "clear",
         "invite", "list", "open"}
Arg == Score \cup Decision \cup Stage \cup Round \cup {"first", "void", "again"}
Work == [kind : Kind \cup {"none"}, pc : {"idle", "read", "write"}, l : Link, arg : Arg,
         seen : LinkRow, at : Stage, was : Round, stale : SUBSET Column]
Idle == [kind |-> "none", pc |-> "idle", l |-> 1, arg |-> "", seen |-> Fresh,
         at |-> "Sourcing", was |-> "", stale |-> {}]

TypeOK ==
  /\ link \in [Link -> LinkRow] /\ made \in Link
  /\ stage \in Stage /\ origin \in Stage /\ round \in Round
  /\ reopened \subseteq Link /\ aged \subseteq Link
  /\ mails \subseteq {"done", "review"} \X Link \X {"Passed", "Failed", "not_attempted"}
  /\ txn \in [Txn -> Work]
  /\ torn \subseteq Column
  /\ used \in [ops : 0..MaxOps, overlaps : 0..MaxOverlaps]

Init ==
  /\ link = [l \in Link |-> Fresh] /\ made = 1
  /\ stage \in PreRmg /\ origin = "RMG_Review" /\ round = ""
  /\ reopened = {} /\ mails = {}
  /\ txn = [t \in Txn |-> Idle]
  /\ aged = {} /\ torn = {}
  /\ used = [ops |-> 0, overlaps |-> 0]

------------------------------------------------------------------------------
(* Sessions: what a request reads, and what its commit writes.              *)

Counted(t) ==
  /\ used.ops < MaxOps
  /\ IF \A u \in Txn \ {t} : txn[u].kind = "none"
     THEN used' = [used EXCEPT !.ops = @ + 1]
     ELSE /\ used.overlaps < MaxOverlaps
          /\ used' = [used EXCEPT !.ops = @ + 1, !.overlaps = @ + 1]

Begin(t, kind, l, arg) ==
  /\ txn[t].kind = "none" /\ Counted(t)
  /\ txn' = [txn EXCEPT ![t] = [kind |-> kind, pc |-> IF kind = "sync" THEN "read" ELSE "write",
                                l |-> l, arg |-> arg, seen |-> link[l], at |-> stage,
                                was |-> round, stale |-> {}]]
  /\ UNCHANGED <<link, made, stage, origin, round, reopened, mails, aged, torn>>

Doing(t, kind) == txn[t].kind = kind /\ txn[t].pc = "write"

(* A sync that announces has flushed: it holds the row lock of its link.    *)
Announces(w) == w.seen.result # Verdict(w.arg)
Holds(u, l) == Doing(u, "sync") /\ txn[u].l = l

Dirty(w, row, st) ==
  {c \in Column : \/ c = "verdict" /\ (row.score # w.seen.score \/ row.result # w.seen.result)
                  \/ c = "decision" /\ row.decision # w.seen.decision
                  \/ c = "stage" /\ st # w.at}

(* SQLAlchemy writes a column only if it differs from what the session read. *)
Written(new, read, now) == IF new # read THEN new ELSE now
Merge(w, row) ==
  [score |-> Written(row.score, w.seen.score, link[w.l].score),
   result |-> Written(row.result, w.seen.result, link[w.l].result),
   decision |-> Written(row.decision, w.seen.decision, link[w.l].decision),
   voided |-> Written(row.voided, w.seen.voided, link[w.l].voided)]

Affects(u, l, c) == c = "stage" \/ txn[u].l = l

(* t commits row for its link and st for the stage.                         *)
Commit(t, row, st) ==
  LET w == txn[t]  dirty == Dirty(w, row, st) IN
  /\ \A u \in Txn \ {t} : row # w.seen => ~Holds(u, w.l)
  /\ link' = [link EXCEPT ![w.l] = Merge(w, row)]
  /\ stage' = Written(st, w.at, stage)
  /\ origin' = IF st = "RMG_Rejected" /\ w.at # st THEN w.at ELSE origin
  /\ txn' = [u \in Txn |->
       IF u = t THEN Idle
       ELSE IF txn[u].kind = "none" THEN txn[u]
       ELSE [txn[u] EXCEPT !.stale = @ \cup {c \in dirty : Affects(u, w.l, c)}]]
  /\ torn' = IF dirty = {} THEN torn
             ELSE torn \cup {c \in w.stale : c = "stage" \/ c \in dirty}
  /\ UNCHANGED used

Decided(w, row) == IF row.decision # w.seen.decision THEN reopened \ {w.l} ELSE reopened

(* REAPPLIED, ADMIN_CORRECTION and VERDICT_CORRECTED on the activity log.   *)
Reopens == reopened' = 1..made /\ aged' = 1..made

------------------------------------------------------------------------------
(* sync_completed_interview.                                                *)

(* The link is loaded; a report is saved at any time, of any invitation.    *)
SyncLoads(t) == \E l \in 1..made, sc \in Score : Begin(t, "sync", l, sc)

\* Mutant: the pass moves the candidacy whatever its stage.
HandedAlways(w) == IF w.arg = "high" THEN "RMG_Review" ELSE w.at
\* Mutant: only a candidacy at Technical_Screening is handed to RMG.
HandedLate(w) ==
  IF w.arg = "high" /\ w.at = "Technical_Screening" THEN "RMG_Review" ELSE w.at

HandedOff(w) == IF w.arg = "high" /\ w.at \in PreRmg THEN "RMG_Review" ELSE w.at

\* Mutant: the result of the first completion is kept beside a new score.
FirstResult(w) ==
  [w.seen EXCEPT !.score = w.arg,
                 !.result = IF @ = "Pending" THEN Verdict(w.arg) ELSE @]

Synced(w) == [w.seen EXCEPT !.score = w.arg, !.result = Verdict(w.arg)]

\* Mutant: people are told at the first completion only.
FirstNotices(w, st) ==
  IF w.seen.result # "Pending" THEN {} ELSE {<<"done", w.l, Outcome(w.arg)>>}

(* notify_roles: its dedupe key holds the link and the outcome.             *)
Notices(w, st) ==
  {<<"done", w.l, Outcome(w.arg)>>} \cup
    IF w.arg = "high" /\ st # "RMG_Review" THEN {} ELSE {<<"review", w.l, Outcome(w.arg)>>}

(* The first notice flushes the link and locks its row; then the stage is   *)
(* read.                                                                    *)
SyncFlushes(t) ==
  /\ txn[t].pc = "read" /\ Announces(txn[t])
  /\ \A u \in Txn : ~Holds(u, txn[t].l)
  /\ txn' = [txn EXCEPT ![t].pc = "write", ![t].at = stage, ![t].stale = @ \ {"stage"}]
  /\ UNCHANGED <<link, made, stage, origin, round, reopened, mails, aged, torn, used>>

SyncAnnounces(t) ==
  LET w == txn[t]  st == HandedOff(w) IN
  /\ Doing(t, "sync")
  /\ Commit(t, Synced(w), st)
  /\ mails' = mails \cup Notices(w, st)
  /\ aged' = aged \ {w.l}
  /\ UNCHANGED <<made, round, reopened>>

(* Already synced, or a new score with the same verdict.                    *)
SyncQuietly(t) ==
  /\ txn[t].pc = "read" /\ ~Announces(txn[t])
  /\ Commit(t, Synced(txn[t]), txn[t].at)
  /\ UNCHANGED <<made, round, reopened, mails, aged>>

------------------------------------------------------------------------------
(* Decisions on an AI interview.                                            *)

\* Mutant: a rejection closes the candidacy only before RMG review.
ClosedEarlyOnly(at) == IF at \in PreRmg THEN "RMG_Rejected" ELSE at

ClosedByAi(at) == IF at \in AiRejectFrom THEN "RMG_Rejected" ELSE at
ForwardedByAi(at) == IF at \in PreRmg THEN "RMG_Review" ELSE at

(* sync_hr_decision: the report page, about any interview; pressing the     *)
(* same decision again does nothing.                                        *)
ReportPage(t) == \E l \in 1..made, d \in Decision : Begin(t, "page", l, d)

ReportDecision(t) ==
  LET w == txn[t]  d == w.arg  row == [w.seen EXCEPT !.decision = d] IN
  /\ Doing(t, "page")
  /\ Commit(t, row, IF d = w.seen.decision THEN w.at
                    ELSE IF d = "rejected" THEN ClosedByAi(w.at)
                    ELSE IF d = "selected" THEN ForwardedByAi(w.at) ELSE w.at)
  /\ reopened' = Decided(w, row)
  /\ UNCHANGED <<made, round, mails, aged>>

(* ai_l1_decision: the screeners' row buttons, about the latest interview.  *)
RowButton(t) ==
  \E d \in Decision :
    /\ d = "selected" => stage \in PreRmg /\ link[made].result # "Pending"
    /\ d = "rejected" => stage \in AiRejectFrom /\ link[made].result # "Pending"
    /\ Begin(t, "row", made, d)

RowDecision(t) ==
  LET w == txn[t]  row == [w.seen EXCEPT !.decision = w.arg] IN
  /\ Doing(t, "row")
  /\ Commit(t, row, IF w.arg = "rejected" THEN ClosedByAi(w.at)
                    ELSE IF w.arg = "selected" THEN ForwardedByAi(w.at) ELSE w.at)
  /\ reopened' = Decided(w, row)
  /\ UNCHANGED <<made, round, mails, aged>>

------------------------------------------------------------------------------
(* Loads that heal old rows.                                                *)

(* A list of candidates: the latest link decides.  A pass moves the         *)
(* candidacy on, whether it was reopened or the link voided; a rejection    *)
(* closes it unless it was reopened later.                                  *)
ListLoad(t) ==
  /\ stage \in PreRmg
  /\ \/ Passing(link[made]) /\ Begin(t, "list", made, "RMG_Review")
     \/ /\ link[made].decision = "rejected" /\ ~link[made].voided /\ made \notin reopened
        /\ Begin(t, "list", made, "RMG_Rejected")

(* The page of one candidate: any link that passed.                         *)
PageLoad(t) ==
  /\ stage = "Technical_Screening"
  /\ \E l \in 1..made : link[l].result = "Passed" /\ Begin(t, "open", l, "RMG_Review")

Heal(t) ==
  /\ Doing(t, "list") \/ Doing(t, "open")
  /\ Commit(t, txn[t].seen, txn[t].arg)
  /\ UNCHANGED <<made, round, reopened, mails, aged>>

------------------------------------------------------------------------------
(* Other moves of the candidacy.                                            *)

(* apply_round_verdict for the manual L1: a corrected No Hire reopens the   *)
(* candidacy where it was closed from, a No Hire closes it.                 *)
RoundSaved(t) == \E r \in Round : Begin(t, "round", made, r)

RoundVerdict(t) ==
  LET w == txn[t]
      again == w.was = "No Hire" /\ w.arg # "No Hire" /\ w.at = "RMG_Rejected" IN
  /\ Doing(t, "round")
  /\ round' = Written(w.arg, w.was, round)
  /\ Commit(t, w.seen, IF again THEN origin
                       ELSE IF w.arg = "No Hire" THEN ClosedByAi(w.at) ELSE w.at)
  /\ IF again THEN Reopens ELSE UNCHANGED <<reopened, aged>>
  /\ UNCHANGED <<made, mails>>

(* TRANSITION_MAP, the hand-offs that skip the AI L1 or go straight to      *)
(* Sales, the slot booking, and the rejection of a resume at Sourcing.      *)
MoveTo(at) ==
  CASE at = "Sourcing" -> {"Technical_Screening", "RMG_Review", "Sales_Screening", "Rejected"}
    [] at = "Technical_Screening" -> {"RMG_Review", "Sales_Screening", "Rejected"}
    [] at = "RMG_Review" -> {"Sales_Screening", "RMG_Rejected", "Rejected"}
    [] at = "Sales_Screening" -> {"Rejected"}
    [] OTHER -> {}

MoveAsked(t) == \E st \in MoveTo(stage) : Begin(t, "move", made, st)

Transition(t) ==
  /\ Doing(t, "move")
  /\ Commit(t, txn[t].seen, txn[t].arg)
  /\ UNCHANGED <<made, round, reopened, mails, aged>>

ReapplyAsked(t) == stage \in Terminal /\ Begin(t, "reapply", made, "Sourcing")

(* reapply_candidacy.                                                       *)
Reapply(t) ==
  /\ Doing(t, "reapply")
  /\ Commit(t, txn[t].seen, txn[t].arg)
  /\ Reopens
  /\ UNCHANGED <<made, round, mails>>

(* admin_correct: another stage, or the same one when it is the screening   *)
(* or the archive that is put right; with either the decision of the latest *)
(* link may be cleared, which is enough to ask for.                         *)
CorrectionAsked(t) == \E st \in Stage :
  \/ Begin(t, "correct", made, st)
  \/ link[made].decision # "" /\ Begin(t, "clear", made, st)

Correction(t) ==
  LET w == txn[t] IN
  /\ \/ Doing(t, "correct") /\ Commit(t, w.seen, w.arg)
     \/ Doing(t, "clear") /\ Commit(t, [w.seen EXCEPT !.decision = ""], w.arg)
  /\ Reopens
  /\ UNCHANGED <<made, round, mails>>

(* trigger_ai_interview: no link is pending; over a finished one it is a    *)
(* reschedule, which may void the old link.                                 *)
Finished == {l \in 1..made : link[l].result # "Pending" /\ ~link[l].voided}
Previous(l) == l \in Finished /\ \A k \in Finished : k <= l

InviteAsked(t) ==
  /\ \A l \in 1..made : link[l].result # "Pending"
  /\ made < MaxLinks
  /\ \/ Finished = {} /\ Begin(t, "invite", made, "first")
     \/ \E l \in 1..made :
          /\ Previous(l)
          /\ \/ Begin(t, "invite", l, "void")
             \/ ~Passing(link[l]) /\ Begin(t, "invite", l, "again")

Invite(t) ==
  LET w == txn[t] IN
  /\ Doing(t, "invite") /\ made < MaxLinks
  /\ made' = made + 1
  /\ Commit(t, IF w.arg = "void" THEN [w.seen EXCEPT !.voided = TRUE] ELSE w.seen, w.at)
  /\ UNCHANGED <<round, reopened, mails, aged>>

(* A request or a sync fails: its session rolls back.                       *)
RollBack(t) ==
  /\ txn[t].kind # "none"
  /\ txn' = [txn EXCEPT ![t] = Idle]
  /\ UNCHANGED <<link, made, stage, origin, round, reopened, mails, aged, torn, used>>

Arrives(t) ==
  \/ SyncLoads(t) \/ ReportPage(t) \/ RowButton(t) \/ ListLoad(t) \/ PageLoad(t)
  \/ RoundSaved(t) \/ MoveAsked(t) \/ ReapplyAsked(t) \/ CorrectionAsked(t) \/ InviteAsked(t)

Commits(t) ==
  \/ SyncAnnounces(t) \/ SyncQuietly(t) \/ ReportDecision(t) \/ RowDecision(t) \/ Heal(t)
  \/ RoundVerdict(t) \/ Transition(t) \/ Reapply(t) \/ Correction(t) \/ Invite(t)

Next == \E t \in Txn : Arrives(t) \/ SyncFlushes(t) \/ Commits(t) \/ RollBack(t)

Spec == Init /\ [][Next]_vars

------------------------------------------------------------------------------
(* Properties.                                                              *)

Latest == link[made]

(* Whatever syncs, decisions and roll-backs overlap, the verdict a link     *)
(* shows is one people were told: the change and its notice commit as one.  *)
VerdictAnnounced ==
  \A l \in Link : link[l].result # "Pending" =>
    \E o \in {"Passed", "Failed", "not_attempted"} :
      /\ <<"done", l, o>> \in mails
      /\ (o = "Passed") = (link[l].result = "Passed")

(* The result of a link is the verdict on the score beside it, unless two   *)
(* syncs of that link overlapped; no decision or heal that overlaps a sync  *)
(* can part them.                                                           *)
VerdictMatchesScore ==
  "verdict" \notin torn =>
    \A l \in Link : link[l].result # "Pending" => link[l].result = Verdict(link[l].score)

(* A candidacy whose latest interview is rejected stays closed or beyond    *)
(* RMG until somebody reopens it, if no other move of its stage overlapped. *)
RejectedIsClosed ==
  /\ "stage" \notin torn /\ Latest.decision = "rejected" /\ ~Latest.voided
  /\ made \notin reopened
  => stage \notin AiRejectFrom

(* A pass of the latest interview hands the candidacy to RMG or finds it    *)
(* there, beyond, or closed.                                                *)
PassedIsHandedOff ==
  /\ "stage" \notin torn /\ Latest.result = "Passed" /\ made \notin aged
  => stage \notin PreRmg

(* Only a reopening takes a candidacy out of RMG_Rejected: no late score,   *)
(* decision or heal revives it, unless it read the stage before.            *)
ClosedStaysClosed ==
  [][stage = "RMG_Rejected" /\ stage' # stage /\ "stage" \notin torn'
       => reopened' = 1..made]_vars

(* "its verdict — even a pass — must not count" (models/ai_links.py, of a   *)
(* voided link): a sync or a page load moves a candidacy on to RMG only     *)
(* for a pass that stands.                                                  *)
Automatic(t) == txn[t].kind \in {"sync", "open", "list"}
VoidedPassDoesNotCount ==
  [][(\E t \in Txn : Automatic(t) /\ txn'[t].kind = "none")
        /\ stage \in PreRmg /\ stage' = "RMG_Review"
      => \E l \in 1..made : /\ link'[l].result = "Passed" \/ link'[l].decision = "selected"
                            /\ ~link'[l].voided]_vars
==============================================================================
