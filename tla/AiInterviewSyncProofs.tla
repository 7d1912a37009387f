------------------------ MODULE AiInterviewSyncProofs ------------------------
(***************************************************************************)
(* Proofs about AiInterviewSync, for every number of database sessions,    *)
(* invitations and requests.                                               *)
(***************************************************************************)
EXTENDS AiInterviewSync, TLAPS

(* A session that has not gone stale still sees what it read.               *)
SnapshotsHold ==
  \A t \in Txn : txn[t].kind # "none" =>
    /\ txn[t].l <= made
    /\ "stage" \notin txn[t].stale => txn[t].at = stage
    /\ "verdict" \notin txn[t].stale =>
         /\ txn[t].seen.score = link[txn[t].l].score
         /\ txn[t].seen.result = link[txn[t].l].result

(* What each kind of request asks for, and what it had read to ask it.      *)
Asked(w) ==
  /\ w.kind = "sync" => w.arg \in Score
  /\ w.pc = "read" => w.kind = "sync"
  /\ w.kind = "sync" /\ w.pc = "write" => Announces(w)
  /\ w.kind \in {"page", "row"} => w.arg \in Decision
  /\ w.kind = "list" => w.at \in PreRmg /\ w.arg \in {"RMG_Review", "RMG_Rejected"}
  /\ w.kind = "open" => w.at \in PreRmg /\ w.arg = "RMG_Review"
  /\ w.kind = "round" => w.arg \in Round
  /\ w.kind = "move" => w.arg \in MoveTo(w.at)
  /\ w.kind = "reapply" => w.at \in Terminal /\ w.arg = "Sourcing"
  /\ w.kind \in {"correct", "clear"} => w.arg \in Stage

(* Every open session asks what its kind of request may ask.                *)
AsksHold == \A t \in Txn : Asked(txn[t])

(* A link that was not sent yet is untouched.                               *)
Unsent == \A l \in Link : l > made => link[l] = Fresh

IInv ==
  /\ TypeOK /\ SnapshotsHold /\ AsksHold /\ Unsent
  /\ VerdictAnnounced /\ VerdictMatchesScore /\ RejectedIsClosed /\ PassedIsHandedOff

(* What every commit has in common: row and st are what it makes of the     *)
(* link and the stage it read.                                              *)
Outline(t, row, st) ==
  LET w == txn[t] IN
  /\ w.kind # "none" /\ row \in LinkRow /\ st \in Stage
  /\ w.seen.voided => row.voided
  /\ row.score # w.seen.score \/ row.result # w.seen.result =>
       row.result = Verdict(row.score) /\ row.score # ""
  /\ row.decision # w.seen.decision /\ row.decision = "rejected" => st = ClosedByAi(w.at)
  /\ row.result # w.seen.result =>
       /\ \E o \in {"Passed", "Failed", "not_attempted"} :
            <<"done", w.l, o>> \in mails' /\ ((o = "Passed") = (row.result = "Passed"))
       /\ row.result = "Passed" => st \notin PreRmg
  /\ mails \subseteq mails'
  /\ mails' \subseteq {"done", "review"} \X Link \X {"Passed", "Failed", "not_attempted"}
  /\ round' \in Round
  /\ \/ st \notin AiRejectFrom \/ w.at \in AiRejectFrom
     \/ reopened' = 1..made
  /\ st \notin PreRmg \/ w.at \in PreRmg \/ aged' = 1..made
  /\ w.at # "RMG_Rejected" \/ st = w.at \/ reopened' = 1..made
  /\ reopened' \in {reopened, 1..made}
       \/ (row.decision # w.seen.decision /\ reopened' = reopened \ {w.l})
  /\ aged' \in {aged, 1..made}
       \/ (row.result # w.seen.result /\ aged' = aged \ {w.l})
  /\ made' = made \/ (made' = made + 1 /\ made' \in Link)

\* The invitations that exist are invitations.
LEMMA MadeAreLinks == ASSUME TypeOK PROVE 1..made \subseteq Link /\ made \in 1..made /\ made \in Nat
  BY SyncAssumption DEF TypeOK, Link

\* The idle session and the fresh link.
LEMMA Typed == 1 \in Link /\ Fresh \in LinkRow /\ Idle \in Work
<1>1. 1 \in Link
  BY SyncAssumption DEF Link
<1>2. Fresh \in LinkRow
  BY DEF Fresh, LinkRow, Decision
<1>3. Idle \in Work
  BY <1>1, <1>2 DEF Idle, Work, Kind, Arg, Stage, Round
<1> QED BY <1>1, <1>2, <1>3

\* Their fields.
LEMMA Fields ==
  /\ Idle.kind = "none" /\ Asked(Idle)
  /\ Fresh.result = "Pending" /\ Fresh.decision = "" /\ Fresh.score = ""
  BY DEF Idle, Fresh, Asked

\* The initial state satisfies the invariant.
LEMMA InitIInv == Init => IInv
<1> SUFFICES ASSUME Init PROVE IInv
  OBVIOUS
<1>4. [ops |-> 0, overlaps |-> 0] \in [ops : 0..MaxOps, overlaps : 0..MaxOverlaps]
  BY SyncAssumption
<1> USE DEF Init
<1>5. TypeOK
  BY <1>4, Typed DEF TypeOK, PreRmg, Stage, Round
<1>6. SnapshotsHold /\ AsksHold
  BY DEF SnapshotsHold, AsksHold, Asked, Idle
<1>7. Unsent /\ VerdictAnnounced /\ VerdictMatchesScore
  BY DEF Unsent, VerdictAnnounced, VerdictMatchesScore, Fresh
<1>8. RejectedIsClosed /\ PassedIsHandedOff
  BY Typed DEF RejectedIsClosed, PassedIsHandedOff, Latest, Fresh
<1> QED BY <1>5, <1>6, <1>7, <1>8 DEF IInv

------------------------------------------------------------------------------
(* A request arrives, reads, or rolls back.                                 *)

\* A request that arrives with a fair question keeps the invariant.
LEMMA BeginKeeps ==
  ASSUME IInv, NEW t \in Txn, NEW kind \in Kind, NEW l \in 1..made, NEW arg \in Arg,
         Begin(t, kind, l, arg), Asked(txn'[t])
  PROVE  IInv'
<1> DEFINE w == [kind |-> kind, pc |-> IF kind = "sync" THEN "read" ELSE "write",
                 l |-> l, arg |-> arg, seen |-> link[l], at |-> stage,
                 was |-> round, stale |-> {}]
<1>1. TypeOK /\ txn' = [txn EXCEPT ![t] = w]
      /\ UNCHANGED <<link, made, stage, origin, round, reopened, mails, aged, torn>>
  BY DEF IInv, Begin
<1>2. w \in Work
  <2>1. l \in Link /\ link[l] \in LinkRow /\ stage \in Stage /\ round \in Round
    BY <1>1, MadeAreLinks DEF TypeOK
  <2> QED BY <2>1 DEF Work
<1>3. used' \in [ops : 0..MaxOps, overlaps : 0..MaxOverlaps]
  <2>1. used.ops \in 0..MaxOps /\ used.overlaps \in 0..MaxOverlaps
        /\ used = [ops |-> used.ops, overlaps |-> used.overlaps]
    BY <1>1 DEF TypeOK
  <2>2. CASE used' = [used EXCEPT !.ops = @ + 1] /\ used.ops < MaxOps
    <3>1. used' = [ops |-> used.ops + 1, overlaps |-> used.overlaps]
      BY <2>1, <2>2
    <3>2. used.ops + 1 \in 0..MaxOps
      BY <2>1, <2>2, SyncAssumption
    <3> QED BY <2>1, <3>1, <3>2
  <2>3. CASE /\ used' = [used EXCEPT !.ops = @ + 1, !.overlaps = @ + 1]
             /\ used.ops < MaxOps /\ used.overlaps < MaxOverlaps
    <3>1. used' = [ops |-> used.ops + 1, overlaps |-> used.overlaps + 1]
      BY <2>1, <2>3
    <3>2. used.ops + 1 \in 0..MaxOps /\ used.overlaps + 1 \in 0..MaxOverlaps
      BY <2>1, <2>3, SyncAssumption
    <3> QED BY <3>1, <3>2
  <2> QED BY <2>2, <2>3 DEF Begin, Counted
<1>4. txn' \in [Txn -> Work] /\ txn'[t] = w /\ \A u \in Txn \ {t} : txn'[u] = txn[u]
  <2> HIDE DEF w
  <2> QED BY <1>1, <1>2 DEF TypeOK
<1>5. TypeOK'
  BY <1>1, <1>3, <1>4 DEF TypeOK
<1>6. SnapshotsHold'
  <2>1. w.l <= made /\ w.at = stage /\ w.seen = link[w.l]
    BY <1>1, MadeAreLinks
  <2> QED BY <1>1, <1>4, <2>1 DEF IInv, SnapshotsHold
<1>7. AsksHold'
  BY <1>4 DEF IInv, AsksHold
<1>8. Unsent' /\ VerdictAnnounced' /\ VerdictMatchesScore'
  BY <1>1 DEF IInv, Unsent, VerdictAnnounced, VerdictMatchesScore
<1>9. RejectedIsClosed' /\ PassedIsHandedOff'
  BY <1>1 DEF IInv, RejectedIsClosed, PassedIsHandedOff, Latest
<1> QED BY <1>5, <1>6, <1>7, <1>8, <1>9 DEF IInv

\* A sync that flushes reads the stage afresh.
LEMMA FlushKeeps == ASSUME IInv, NEW t \in Txn, SyncFlushes(t) PROVE IInv'
<1> DEFINE w == [txn[t] EXCEPT !.pc = "write", !.at = stage, !.stale = @ \ {"stage"}]
<1>1. TypeOK /\ txn' = [txn EXCEPT ![t] = w]
      /\ UNCHANGED <<link, made, stage, origin, round, reopened, mails, aged, torn, used>>
  BY DEF IInv, SyncFlushes
<1>2. txn[t] \in Work /\ stage \in Stage /\ txn[t].stale \subseteq Column
  BY <1>1 DEF TypeOK, Work
<1>3. w \in Work /\ w.kind = txn[t].kind /\ w.arg = txn[t].arg /\ w.seen = txn[t].seen
      /\ w.l = txn[t].l /\ w.at = stage /\ w.stale = txn[t].stale \ {"stage"}
  BY <1>2 DEF Work
<1>4. txn' \in [Txn -> Work] /\ txn'[t] = w /\ \A u \in Txn \ {t} : txn'[u] = txn[u]
  <2> HIDE DEF w
  <2> QED BY <1>1, <1>3 DEF TypeOK
<1>5. TypeOK'
  BY <1>1, <1>4 DEF TypeOK
<1>6. SnapshotsHold'
  BY <1>1, <1>3, <1>4 DEF IInv, SnapshotsHold
<1>7. AsksHold'
  <2>1. txn[t].kind = "sync" /\ Announces(txn[t]) /\ txn[t].arg \in Score
    BY DEF SyncFlushes, IInv, AsksHold, Asked
  <2>2. Asked(w)
    <3> HIDE DEF w
    <3> QED BY <1>3, <2>1 DEF Asked, Announces
  <2> HIDE DEF w
  <2> QED BY <1>4, <2>2 DEF IInv, AsksHold
<1>8. Unsent' /\ VerdictAnnounced' /\ VerdictMatchesScore'
  BY <1>1 DEF IInv, Unsent, VerdictAnnounced, VerdictMatchesScore
<1>9. RejectedIsClosed' /\ PassedIsHandedOff'
  BY <1>1 DEF IInv, RejectedIsClosed, PassedIsHandedOff, Latest
<1> QED BY <1>5, <1>6, <1>7, <1>8, <1>9 DEF IInv

\* A roll-back forgets what the session read.
LEMMA RollBackKeeps == ASSUME IInv, NEW t \in Txn, RollBack(t) PROVE IInv'
<1>1. TypeOK /\ txn' = [txn EXCEPT ![t] = Idle]
      /\ UNCHANGED <<link, made, stage, origin, round, reopened, mails, aged, torn, used>>
  BY DEF IInv, RollBack
<1>2. txn' \in [Txn -> Work] /\ txn'[t] = Idle /\ \A u \in Txn \ {t} : txn'[u] = txn[u]
  BY <1>1, Typed DEF TypeOK
<1>3. TypeOK'
  BY <1>1, <1>2 DEF TypeOK
<1>4. SnapshotsHold' /\ AsksHold'
  <2>1. Idle.kind = "none" /\ Asked(Idle)
    BY DEF Idle, Asked
  <2> QED BY <1>1, <1>2, <2>1 DEF IInv, SnapshotsHold, AsksHold
<1>5. Unsent' /\ VerdictAnnounced' /\ VerdictMatchesScore'
  BY <1>1 DEF IInv, Unsent, VerdictAnnounced, VerdictMatchesScore
<1>6. RejectedIsClosed' /\ PassedIsHandedOff'
  BY <1>1 DEF IInv, RejectedIsClosed, PassedIsHandedOff, Latest
<1> QED BY <1>3, <1>4, <1>5, <1>6 DEF IInv

------------------------------------------------------------------------------
(* A session commits.                                                       *)

\* What a commit does to one link row and the stage.
LEMMA CommitWrites ==
  ASSUME TypeOK, NEW t \in Txn, NEW row \in LinkRow, NEW st \in Stage, Commit(t, row, st)
  PROVE  LET w == txn[t] IN
         /\ w \in Work
         /\ link' \in [Link -> LinkRow] /\ link'[w.l] = Merge(w, row)
         /\ \A l \in Link \ {w.l} : link'[l] = link[l]
         /\ stage' \in Stage /\ origin' \in Stage /\ torn' \subseteq Column
         /\ txn' \in [Txn -> Work] /\ txn'[t] = Idle
<1> DEFINE w == txn[t]
<1>1. w \in Work /\ w.l \in Link /\ w.seen \in LinkRow /\ w.at \in Stage
      /\ w.stale \subseteq Column
  BY DEF TypeOK, Work
<1>2. link[w.l] \in LinkRow
  BY <1>1 DEF TypeOK
<1>3. Merge(w, row) \in LinkRow
  BY <1>1, <1>2 DEF Merge, Written, LinkRow
<1>4. link' = [link EXCEPT ![w.l] = Merge(w, row)] /\ stage' = Written(st, w.at, stage)
      /\ origin' = IF st = "RMG_Rejected" /\ w.at # st THEN w.at ELSE origin
  BY DEF Commit
<1>5. torn' \subseteq Column
  BY <1>1 DEF Commit, TypeOK
<1>6. txn' \in [Txn -> Work] /\ txn'[t] = Idle
  <2> DEFINE more(u) == {c \in Dirty(w, row, st) : Affects(u, w.l, c)}
             new(u) == IF u = t THEN Idle
                       ELSE IF txn[u].kind = "none" THEN txn[u]
                       ELSE [txn[u] EXCEPT !.stale = @ \cup more(u)]
  <2>1. txn' = [u \in Txn |-> new(u)]
    BY DEF Commit
  <2>2. \A u \in Txn : more(u) \subseteq Column
    BY DEF Dirty
  <2>3. ASSUME NEW u \in Txn PROVE new(u) \in Work
    <3> HIDE DEF more
    <3>1. txn[u] \in Work /\ txn[u].stale \cup more(u) \subseteq Column
      BY <2>2 DEF TypeOK, Work
    <3>2. [txn[u] EXCEPT !.stale = @ \cup more(u)] \in Work
      BY <3>1 DEF Work
    <3> QED BY <3>1, <3>2, Typed
  <2> HIDE DEF new
  <2>4. txn'[t] = Idle
    BY <2>1 DEF new
  <2> QED BY <2>1, <2>3, <2>4
<1>7. stage' \in Stage /\ origin' \in Stage
  BY <1>1, <1>4 DEF Written, TypeOK
<1> HIDE DEF w
<1>8. link' \in [Link -> LinkRow] /\ link'[w.l] = Merge(w, row)
      /\ \A l \in Link \ {w.l} : link'[l] = link[l]
  BY <1>1, <1>3, <1>4 DEF TypeOK
<1> QED BY <1>1, <1>5, <1>6, <1>7, <1>8 DEF w

\* What the other sessions know of it.
LEMMA CommitMarks ==
  ASSUME TypeOK, NEW t \in Txn, NEW row \in LinkRow, NEW st \in Stage, Commit(t, row, st),
         NEW u \in Txn \ {t}
  PROVE  /\ txn'[u].kind = txn[u].kind /\ txn'[u].l = txn[u].l /\ txn'[u].at = txn[u].at
         /\ txn'[u].seen = txn[u].seen /\ txn'[u].arg = txn[u].arg /\ txn'[u].pc = txn[u].pc
         /\ txn[u].kind # "none" =>
              /\ txn[u].stale \subseteq txn'[u].stale
              /\ st # txn[t].at => "stage" \in txn'[u].stale
              /\ txn[u].l = txn[t].l
                   /\ (row.score # txn[t].seen.score \/ row.result # txn[t].seen.result)
                   => "verdict" \in txn'[u].stale
<1> DEFINE w == txn[t]
           more == {c \in Dirty(w, row, st) : Affects(u, w.l, c)}
<1>1. txn'[u] = IF txn[u].kind = "none" THEN txn[u]
                ELSE [txn[u] EXCEPT !.stale = @ \cup more]
  BY DEF Commit
<1>2. txn[u] \in Work
  BY DEF TypeOK
<1>3. /\ st # w.at => "stage" \in more
      /\ txn[u].l = w.l /\ (row.score # w.seen.score \/ row.result # w.seen.result)
           => "verdict" \in more
  BY DEF Dirty, Affects, Column
<1> HIDE DEF more
<1> QED BY <1>1, <1>2, <1>3 DEF Work

\* When a commit writes something, what it wrote across others is torn.
LEMMA CommitTears ==
  ASSUME TypeOK, NEW t \in Txn, NEW row \in LinkRow, NEW st \in Stage, Commit(t, row, st)
  PROVE  LET w == txn[t]
             verdict == row.score # w.seen.score \/ row.result # w.seen.result IN
         /\ torn \subseteq torn'
         /\ verdict /\ "verdict" \in w.stale => "verdict" \in torn'
         /\ (verdict \/ row.decision # w.seen.decision \/ st # w.at) /\ "stage" \in w.stale
              => "stage" \in torn'
<1> DEFINE w == txn[t]
           dirty == Dirty(w, row, st)
<1>1. torn' = IF dirty = {} THEN torn
              ELSE torn \cup {c \in w.stale : c = "stage" \/ c \in dirty}
  BY DEF Commit
<1>2. /\ row.score # w.seen.score \/ row.result # w.seen.result => "verdict" \in dirty
      /\ row.decision # w.seen.decision => "decision" \in dirty
      /\ st # w.at => "stage" \in dirty
  BY DEF Dirty, Column
<1> HIDE DEF dirty
<1> QED BY <1>1, <1>2

\* A commit that follows the outline keeps the invariant.
LEMMA CommitKeeps ==
  ASSUME IInv, NEW t \in Txn, NEW row, NEW st, Commit(t, row, st), Outline(t, row, st)
  PROVE  IInv'
<1> DEFINE w == txn[t]
           verdict == row.score # w.seen.score \/ row.result # w.seen.result
<1>0. TypeOK /\ row \in LinkRow /\ st \in Stage /\ w.kind # "none" /\ w.l \in Link /\ w.l <= made
  BY DEF IInv, Outline, SnapshotsHold, TypeOK, Work
<1>1. /\ w \in Work
      /\ link' \in [Link -> LinkRow] /\ link'[w.l] = Merge(w, row)
      /\ \A l \in Link \ {w.l} : link'[l] = link[l]
      /\ stage' \in Stage /\ origin' \in Stage /\ torn' \subseteq Column
      /\ txn' \in [Txn -> Work] /\ txn'[t] = Idle
  BY <1>0, CommitWrites
<1>2. stage' = IF st # w.at THEN st ELSE stage
  BY DEF Commit, Written
<1>3. /\ torn \subseteq torn'
      /\ verdict /\ "verdict" \in w.stale => "verdict" \in torn'
      /\ (verdict \/ row.decision # w.seen.decision \/ st # w.at) /\ "stage" \in w.stale
              => "stage" \in torn'
  BY <1>0, CommitTears
<1>4. /\ "stage" \notin w.stale => w.at = stage
      /\ "verdict" \notin w.stale => w.seen.score = link[w.l].score /\ w.seen.result = link[w.l].result
  BY <1>0 DEF IInv, SnapshotsHold
<1>5. /\ link'[w.l].score = IF row.score # w.seen.score THEN row.score ELSE link[w.l].score
      /\ link'[w.l].result = IF row.result # w.seen.result THEN row.result ELSE link[w.l].result
      /\ link'[w.l].decision = IF row.decision # w.seen.decision THEN row.decision ELSE link[w.l].decision
      /\ link'[w.l].voided = IF row.voided # w.seen.voided THEN row.voided ELSE link[w.l].voided
  BY <1>1 DEF Merge, Written
<1>6. made' \in Link /\ made \in Nat /\ made' \in Nat /\ made <= made'
      /\ (made' = made \/ made' = made + 1) /\ 1..made \subseteq Link
  <2>1. made \in Link /\ made \in Nat /\ 1..made \subseteq Link
    BY <1>0, MadeAreLinks DEF TypeOK
  <2>2. made' = made \/ (made' = made + 1 /\ made' \in Link)
    BY DEF Outline
  <2> QED BY <2>1, <2>2
<1> HIDE DEF w
<1>a. txn'[t].kind = "none"
  BY <1>1, Fields
<1>b. made' # made => link'[made'] = Fresh
  <2> SUFFICES ASSUME made' # made PROVE link'[made'] = Fresh
    OBVIOUS
  <2>1. made' \in Link \ {w.l} /\ made' > made
    BY <1>0, <1>6 DEF Link
  <2>2. link'[made'] = link[made']
    BY <1>1, <2>1
  <2> QED BY <2>1, <2>2 DEF IInv, Unsent
<1>7. TypeOK'
  <2>1. reopened' \subseteq Link /\ aged' \subseteq Link
    BY <1>0, <1>6 DEF Outline, TypeOK
  <2>2. used' = used /\ round' \in Round
        /\ mails' \subseteq {"done", "review"} \X Link \X {"Passed", "Failed", "not_attempted"}
    BY DEF Outline, Commit
  <2> QED BY <1>0, <1>1, <1>6, <2>1, <2>2 DEF TypeOK
<1>8. SnapshotsHold'
  <2> SUFFICES ASSUME NEW u \in Txn, txn'[u].kind # "none"
               PROVE  /\ txn'[u].l <= made'
                      /\ "stage" \notin txn'[u].stale => txn'[u].at = stage'
                      /\ "verdict" \notin txn'[u].stale =>
                           /\ txn'[u].seen.score = link'[txn'[u].l].score
                           /\ txn'[u].seen.result = link'[txn'[u].l].result
    BY DEF SnapshotsHold
  <2>1. u # t
    BY <1>a
  <2>2. /\ txn'[u].kind = txn[u].kind /\ txn'[u].l = txn[u].l /\ txn'[u].at = txn[u].at
        /\ txn'[u].seen = txn[u].seen
        /\ txn[u].stale \subseteq txn'[u].stale
        /\ st # w.at => "stage" \in txn'[u].stale
        /\ txn[u].l = w.l /\ verdict => "verdict" \in txn'[u].stale
    BY <1>0, <2>1, CommitMarks DEF w
  <2>3. /\ txn[u].l <= made /\ txn[u].l \in Link
        /\ "stage" \notin txn[u].stale => txn[u].at = stage
        /\ "verdict" \notin txn[u].stale =>
             /\ txn[u].seen.score = link[txn[u].l].score
             /\ txn[u].seen.result = link[txn[u].l].result
    BY <1>0, <2>2 DEF IInv, SnapshotsHold, TypeOK, Work
  <2>4. txn'[u].l <= made'
    BY <1>6, <2>2, <2>3 DEF Link
  <2>5. "stage" \notin txn'[u].stale => txn'[u].at = stage'
    BY <1>2, <2>2, <2>3
  <2>6. ASSUME "verdict" \notin txn'[u].stale
        PROVE  link'[txn[u].l].score = link[txn[u].l].score
               /\ link'[txn[u].l].result = link[txn[u].l].result
    <3>1. CASE txn[u].l = w.l
      BY <1>5, <2>2, <2>6, <3>1
    <3>2. CASE txn[u].l # w.l
      BY <1>1, <2>3, <3>2
    <3> QED BY <3>1, <3>2
  <2> QED BY <2>2, <2>3, <2>4, <2>5, <2>6
<1>9. AsksHold'
  <2> SUFFICES ASSUME NEW u \in Txn PROVE Asked(txn'[u])
    BY DEF AsksHold
  <2>1. CASE u = t
    BY <1>1, <2>1, Fields
  <2>2. CASE u # t
    <3>1. /\ txn'[u].kind = txn[u].kind /\ txn'[u].at = txn[u].at /\ txn'[u].seen = txn[u].seen
          /\ txn'[u].arg = txn[u].arg /\ txn'[u].pc = txn[u].pc
      BY <1>0, <2>2, CommitMarks
    <3>2. Asked(txn[u])
      BY DEF IInv, AsksHold
    <3> QED BY <3>1, <3>2 DEF Asked, Announces
  <2> QED BY <2>1, <2>2
<1>10. Unsent'
  BY <1>0, <1>1, <1>6 DEF IInv, Unsent, Link
<1>11. VerdictAnnounced'
  <2> SUFFICES ASSUME NEW l \in Link, link'[l].result # "Pending"
               PROVE  \E o \in {"Passed", "Failed", "not_attempted"} :
                        <<"done", l, o>> \in mails' /\ ((o = "Passed") = (link'[l].result = "Passed"))
    BY DEF VerdictAnnounced
  <2>1. CASE l = w.l /\ row.result # w.seen.result
    BY <1>5, <2>1 DEF Outline, w
  <2>2. CASE link'[l].result = link[l].result
    <3>1. PICK o \in {"Passed", "Failed", "not_attempted"} :
            <<"done", l, o>> \in mails /\ ((o = "Passed") = (link[l].result = "Passed"))
      BY <2>2 DEF IInv, VerdictAnnounced
    <3>2. mails \subseteq mails'
      BY DEF Outline
    <3> QED BY <2>2, <3>1, <3>2
  <2> QED BY <1>1, <1>5, <2>1, <2>2
<1>12. VerdictMatchesScore'
  <2> SUFFICES ASSUME "verdict" \notin torn', NEW l \in Link, link'[l].result # "Pending"
               PROVE  link'[l].result = Verdict(link'[l].score)
    BY DEF VerdictMatchesScore
  <2>1. link[l].result # "Pending" => link[l].result = Verdict(link[l].score)
    BY <1>3 DEF IInv, VerdictMatchesScore
  <2>2. CASE l = w.l /\ verdict
    <3>1. row.result = Verdict(row.score)
      BY <2>2 DEF Outline, w
    <3>2. link'[l].result = row.result /\ link'[l].score = row.score
      BY <1>3, <1>4, <1>5, <2>2
    <3> QED BY <3>1, <3>2
  <2>3. CASE l # w.l \/ ~verdict
    BY <1>1, <1>5, <2>1, <2>3
  <2> QED BY <2>2, <2>3
<1>13. RejectedIsClosed'
  <2> SUFFICES ASSUME "stage" \notin torn', link'[made'].decision = "rejected",
                      ~link'[made'].voided, made' \notin reopened'
               PROVE  stage' \notin AiRejectFrom
    BY DEF RejectedIsClosed, Latest
  <2>1. made' = made /\ made \in Link
    BY <1>0, <1>b, Fields DEF TypeOK
  <2>2. reopened' # 1..made
    BY <1>6, <2>1 DEF Link
  <2>3. st \in AiRejectFrom => w.at \in AiRejectFrom
    BY <2>2 DEF Outline, w
  <2>4. CASE w.l = made /\ row.decision # w.seen.decision
    <3>1. st = ClosedByAi(w.at) /\ w.at = stage
      BY <1>3, <1>4, <1>5, <2>1, <2>4 DEF Outline, w
    <3> QED BY <1>2, <3>1 DEF ClosedByAi, AiRejectFrom, PreRmg
  <2>5. CASE w.l # made \/ row.decision = w.seen.decision
    <3>1. link'[made].decision = link[made].decision
      BY <1>1, <1>5, <2>1, <2>5
    <3>2. ~link[made].voided
      <4>1. w.seen.voided => row.voided
        BY DEF Outline, w
      <4>2. link[made].voided \in BOOLEAN /\ row.voided \in BOOLEAN /\ w.seen.voided \in BOOLEAN
        BY <1>0, <1>1, <2>1 DEF TypeOK, LinkRow, Work
      <4> QED BY <1>1, <1>5, <2>1, <4>1, <4>2
    <3>3. made \notin reopened
      BY <2>1, <2>2, <2>5 DEF Outline, w
    <3>4. stage \notin AiRejectFrom
      BY <1>3, <2>1, <3>1, <3>2, <3>3 DEF IInv, RejectedIsClosed, Latest
    <3> QED BY <1>2, <1>3, <1>4, <2>3, <3>4
  <2> QED BY <2>4, <2>5
<1>14. PassedIsHandedOff'
  <2> SUFFICES ASSUME "stage" \notin torn', link'[made'].result = "Passed", made' \notin aged'
               PROVE  stage' \notin PreRmg
    BY DEF PassedIsHandedOff, Latest
  <2>1. made' = made /\ made \in Link
    BY <1>0, <1>b, Fields DEF TypeOK
  <2>2. aged' # 1..made
    BY <1>6, <2>1 DEF Link
  <2>3. st \in PreRmg => w.at \in PreRmg
    BY <2>2 DEF Outline, w
  <2>4. CASE w.l = made /\ row.result # w.seen.result
    <3>1. st \notin PreRmg /\ w.at = stage
      BY <1>3, <1>4, <1>5, <2>1, <2>4 DEF Outline, w
    <3> QED BY <1>2, <3>1
  <2>5. CASE w.l # made \/ row.result = w.seen.result
    <3>1. link'[made].result = link[made].result /\ made \notin aged
      BY <1>1, <1>5, <2>1, <2>2, <2>5 DEF Outline, w
    <3>2. stage \notin PreRmg
      BY <1>3, <2>1, <3>1 DEF IInv, PassedIsHandedOff, Latest
    <3> QED BY <1>2, <1>3, <1>4, <2>3, <3>2
  <2> QED BY <2>4, <2>5
<1> QED BY <1>7, <1>8, <1>9, <1>10, <1>11, <1>12, <1>13, <1>14 DEF IInv

------------------------------------------------------------------------------
(* The requests.                                                            *)

\* Every request asks about an invitation that was sent, from what it reads.
LEMMA ArrivesKeeps == ASSUME IInv, NEW t \in Txn, Arrives(t) PROVE IInv'
<1> DEFINE W(kind, l, arg) ==
             [kind |-> kind, pc |-> IF kind = "sync" THEN "read" ELSE "write",
              l |-> l, arg |-> arg, seen |-> link[l], at |-> stage,
              was |-> round, stale |-> {}]
<1>1. made \in 1..made /\ stage \in Stage
  BY MadeAreLinks DEF IInv, TypeOK
<1>2. ASSUME NEW kind \in Kind, NEW l \in 1..made, NEW arg \in Arg, Begin(t, kind, l, arg),
             Asked(W(kind, l, arg))
      PROVE  IInv'
  <2>1. txn'[t] = W(kind, l, arg)
    <3> HIDE DEF W
    <3>1. txn \in [Txn -> Work]
      BY DEF IInv, TypeOK
    <3>2. txn' = [txn EXCEPT ![t] = W(kind, l, arg)]
      BY <1>2 DEF Begin, W
    <3> QED BY <3>1, <3>2
  <2>2. Asked(txn'[t])
    BY <1>2, <2>1
  <2> QED BY <1>2, <2>2, BeginKeeps
<1>3. CASE SyncLoads(t)
  <2>1. PICK l \in 1..made, sc \in Score : Begin(t, "sync", l, sc)
    BY <1>3 DEF SyncLoads
  <2>2. Asked(W("sync", l, sc)) /\ sc \in Arg /\ "sync" \in Kind
    BY DEF Asked, Arg, Kind
  <2> QED BY <1>2, <2>1, <2>2
<1>4. CASE ReportPage(t)
  <2>1. PICK l \in 1..made, d \in Decision : Begin(t, "page", l, d)
    BY <1>4 DEF ReportPage
  <2>2. Asked(W("page", l, d)) /\ d \in Arg /\ "page" \in Kind
    BY DEF Asked, Arg, Kind
  <2> QED BY <1>2, <2>1, <2>2
<1>5. CASE RowButton(t)
  <2>1. PICK d \in Decision : Begin(t, "row", made, d)
    BY <1>5 DEF RowButton
  <2>2. Asked(W("row", made, d)) /\ d \in Arg /\ "row" \in Kind
    BY DEF Asked, Arg, Kind
  <2> QED BY <1>1, <1>2, <2>1, <2>2
<1>6. CASE ListLoad(t)
  <2>1. PICK st \in {"RMG_Review", "RMG_Rejected"} : stage \in PreRmg /\ Begin(t, "list", made, st)
    BY <1>6 DEF ListLoad
  <2>2. Asked(W("list", made, st)) /\ st \in Arg /\ "list" \in Kind
    BY <2>1 DEF Asked, Arg, Kind, Stage
  <2> QED BY <1>1, <1>2, <2>1, <2>2
<1>7. CASE PageLoad(t)
  <2>1. PICK l \in 1..made : stage \in PreRmg /\ Begin(t, "open", l, "RMG_Review")
    BY <1>7 DEF PageLoad, PreRmg
  <2>2. Asked(W("open", l, "RMG_Review")) /\ "RMG_Review" \in Arg /\ "open" \in Kind
    BY <2>1 DEF Asked, Arg, Kind, Stage
  <2> QED BY <1>2, <2>1, <2>2
<1>8. CASE RoundSaved(t)
  <2>1. PICK r \in Round : Begin(t, "round", made, r)
    BY <1>8 DEF RoundSaved
  <2>2. Asked(W("round", made, r)) /\ r \in Arg /\ "round" \in Kind
    BY DEF Asked, Arg, Kind
  <2> QED BY <1>1, <1>2, <2>1, <2>2
<1>9. CASE MoveAsked(t)
  <2>1. PICK st \in MoveTo(stage) : Begin(t, "move", made, st)
    BY <1>9 DEF MoveAsked
  <2>2. Asked(W("move", made, st)) /\ st \in Arg /\ "move" \in Kind
    BY <1>1 DEF Asked, Arg, Kind, MoveTo, Stage
  <2> QED BY <1>1, <1>2, <2>1, <2>2
<1>10. CASE ReapplyAsked(t)
  <2>1. stage \in Terminal /\ Begin(t, "reapply", made, "Sourcing")
    BY <1>10 DEF ReapplyAsked
  <2>2. Asked(W("reapply", made, "Sourcing")) /\ "Sourcing" \in Arg /\ "reapply" \in Kind
    BY <2>1 DEF Asked, Arg, Kind, Stage
  <2> QED BY <1>1, <1>2, <2>1, <2>2
<1>11. CASE CorrectionAsked(t)
  <2>1. PICK kind \in {"correct", "clear"}, a \in Stage : Begin(t, kind, made, a)
    BY <1>11 DEF CorrectionAsked
  <2>2. Asked(W(kind, made, a)) /\ a \in Arg /\ kind \in Kind
    BY DEF Asked, Arg, Kind
  <2> QED BY <1>1, <1>2, <2>1, <2>2
<1>12. CASE InviteAsked(t)
  <2>1. PICK l \in 1..made, a \in {"first", "void", "again"} : Begin(t, "invite", l, a)
    BY <1>1, <1>12 DEF InviteAsked
  <2>2. Asked(W("invite", l, a)) /\ a \in Arg /\ "invite" \in Kind
    BY DEF Asked, Arg, Kind
  <2> QED BY <1>2, <2>1, <2>2
<1> HIDE DEF W
<1> QED BY <1>3, <1>4, <1>5, <1>6, <1>7, <1>8, <1>9, <1>10, <1>11, <1>12 DEF Arrives

------------------------------------------------------------------------------
(* The commits.                                                             *)

\* One more invitation is an invitation.
LEMMA NextLink == ASSUME made \in Link, made < MaxLinks PROVE made + 1 \in Link
  BY SyncAssumption DEF Link

\* The notices of a sync, by type; people hear of its outcome.
LEMMA NoticesTyped ==
  ASSUME NEW w \in Work, NEW st, w.arg \in Score
  PROVE  /\ <<"done", w.l, Outcome(w.arg)>> \in Notices(w, st)
         /\ Notices(w, st)
              \subseteq {"done", "review"} \X Link \X {"Passed", "Failed", "not_attempted"}
<1>1. w.l \in Link /\ Outcome(w.arg) \in {"Passed", "Failed", "not_attempted"}
  BY DEF Work, Outcome, Verdict
<1> QED BY <1>1 DEF Notices

\* Every commit follows the outline.
LEMMA CommitsFollow ==
  ASSUME IInv, NEW t \in Txn, Commits(t)
  PROVE  \E row, st : Commit(t, row, st) /\ Outline(t, row, st)
<1> DEFINE w == txn[t]
<1>0. /\ w \in Work /\ w.kind \in Kind \cup {"none"} /\ w.arg \in Arg /\ w.seen \in LinkRow
      /\ w.at \in Stage /\ w.was \in Round /\ w.l \in Link
      /\ w.seen.score \in Score \cup {""} /\ w.seen.result \in {"Pending", "Passed", "Failed"}
      /\ w.seen.decision \in Decision /\ w.seen.voided \in BOOLEAN
      /\ Asked(w) /\ origin \in Stage /\ round \in Round /\ made \in Link
      /\ mails \subseteq {"done", "review"} \X Link \X {"Passed", "Failed", "not_attempted"}
  BY DEF IInv, TypeOK, Work, AsksHold, LinkRow
<1> USE <1>0
<1>1. CASE SyncAnnounces(t)
  <2> DEFINE row == Synced(w)
             st == HandedOff(w)
  <2>1. w.kind = "sync" /\ w.arg \in Score /\ Announces(w)
    BY <1>1 DEF SyncAnnounces, Doing, Asked
  <2>2. /\ Commit(t, row, st) /\ mails' = mails \cup Notices(w, st) /\ aged' = aged \ {w.l}
        /\ made' = made /\ round' = round /\ reopened' = reopened
    BY <1>1 DEF SyncAnnounces
  <2>3. /\ row \in LinkRow /\ row.score = w.arg /\ row.result = Verdict(w.arg)
        /\ row.decision = w.seen.decision /\ row.voided = w.seen.voided
    BY <2>1 DEF Synced, LinkRow, Verdict
  <2>4. st \in Stage /\ (st # w.at => st = "RMG_Review" /\ w.at \in PreRmg)
        /\ (w.arg = "high" => st \notin PreRmg)
    BY DEF HandedOff, Stage, PreRmg
  <2>5. row.result # w.seen.result
    BY <2>1, <2>3 DEF Announces
  <2>6. /\ Outcome(w.arg) \in {"Passed", "Failed", "not_attempted"}
        /\ (Outcome(w.arg) = "Passed") = (row.result = "Passed")
        /\ row.result = "Passed" => w.arg = "high"
    BY <2>1, <2>3 DEF Outcome, Verdict, Score
  <2>7. /\ <<"done", w.l, Outcome(w.arg)>> \in mails' /\ mails \subseteq mails'
        /\ mails' \subseteq {"done", "review"} \X Link \X {"Passed", "Failed", "not_attempted"}
    BY <2>1, <2>2, NoticesTyped
  <2>8. w.kind # "none" /\ row.score # ""
    BY <2>1, <2>3 DEF Score
  <2> HIDE DEF row, st, w
  <2>9. Outline(t, row, st)
    BY <2>1, <2>2, <2>3, <2>4, <2>5, <2>6, <2>7, <2>8 DEF Outline, w, AiRejectFrom, PreRmg
  <2> QED BY <2>2, <2>9
<1>2. CASE SyncQuietly(t)
  <2> DEFINE row == Synced(w)
  <2>1. w.kind = "sync" /\ w.arg \in Score /\ ~Announces(w)
    BY <1>2 DEF SyncQuietly, Asked
  <2>2. /\ Commit(t, row, w.at)
        /\ UNCHANGED <<made, round, reopened, mails, aged>>
    BY <1>2 DEF SyncQuietly
  <2>3. /\ row \in LinkRow /\ row.score = w.arg /\ row.result = Verdict(w.arg)
        /\ row.decision = w.seen.decision /\ row.voided = w.seen.voided
    BY <2>1 DEF Synced, LinkRow, Verdict
  <2>4. row.result = w.seen.result /\ row.score # "" /\ w.kind # "none"
    BY <2>1, <2>3 DEF Announces, Score
  <2> HIDE DEF row, w
  <2>5. Outline(t, row, w.at)
    BY <2>2, <2>3, <2>4 DEF Outline, w
  <2> QED BY <2>2, <2>5
<1>3. CASE ReportDecision(t) \/ RowDecision(t)
  <2> DEFINE row == [w.seen EXCEPT !.decision = w.arg]
  <2>1. w.kind # "none" /\ w.arg \in Decision
    BY <1>3 DEF ReportDecision, RowDecision, Doing, Asked
  <2>2. PICK st : /\ Commit(t, row, st)
                  /\ \/ st = w.at /\ (w.arg = "rejected" => w.arg = w.seen.decision)
                     \/ w.arg = "rejected" /\ st = ClosedByAi(w.at)
                     \/ w.arg = "selected" /\ st = ForwardedByAi(w.at)
    BY <1>3 DEF ReportDecision, RowDecision
  <2>3. reopened' = Decided(w, row) /\ UNCHANGED <<made, round, mails, aged>>
    BY <1>3 DEF ReportDecision, RowDecision
  <2>4. /\ row \in LinkRow /\ row.score = w.seen.score /\ row.result = w.seen.result
        /\ row.decision = w.arg /\ row.voided = w.seen.voided
    BY <2>1 DEF LinkRow
  <2>5. st \in Stage /\ (st \in AiRejectFrom => w.at \in AiRejectFrom)
        /\ (st \in PreRmg => w.at \in PreRmg) /\ (w.at = "RMG_Rejected" => st = w.at)
    BY <2>2 DEF ClosedByAi, ForwardedByAi, Stage, AiRejectFrom, PreRmg
  <2>6. w.arg = "rejected" /\ w.arg # w.seen.decision => st = ClosedByAi(w.at)
    BY <2>2
  <2> HIDE DEF row, w
  <2>7. Outline(t, row, st)
    BY <2>1, <2>3, <2>4, <2>5, <2>6 DEF Outline, w, Decided
  <2> QED BY <2>2, <2>7
<1>4. CASE Heal(t) \/ Transition(t)
  <2> DEFINE st == w.arg
  <2>1. /\ w.kind # "none" /\ st \in Stage /\ w.at # "RMG_Rejected"
        /\ st \in AiRejectFrom => w.at \in AiRejectFrom
        /\ st \in PreRmg => w.at \in PreRmg
    BY <1>4 DEF Heal, Transition, Doing, Asked, MoveTo, Stage, AiRejectFrom, PreRmg
  <2>2. Commit(t, w.seen, st) /\ UNCHANGED <<made, round, reopened, mails, aged>>
    BY <1>4 DEF Heal, Transition
  <2> HIDE DEF st, w
  <2>3. Outline(t, w.seen, st)
    BY <2>1, <2>2 DEF Outline, w
  <2> QED BY <2>2, <2>3
<1>5. CASE RoundVerdict(t)
  <2> DEFINE again == w.was = "No Hire" /\ w.arg # "No Hire" /\ w.at = "RMG_Rejected"
             st == IF again THEN origin
                   ELSE IF w.arg = "No Hire" THEN ClosedByAi(w.at) ELSE w.at
  <2>1. w.kind # "none" /\ w.arg \in Round
    BY <1>5 DEF RoundVerdict, Doing, Asked
  <2>2. /\ Commit(t, w.seen, st) /\ round' = Written(w.arg, w.was, round)
        /\ made' = made /\ mails' = mails
        /\ again => reopened' = 1..made /\ aged' = 1..made
        /\ ~again => reopened' = reopened /\ aged' = aged
    BY <1>5 DEF RoundVerdict, Reopens
  <2>3. /\ st \in Stage /\ round' \in Round
        /\ ~again => /\ st \in AiRejectFrom => w.at \in AiRejectFrom
                     /\ st \in PreRmg => w.at \in PreRmg
                     /\ w.at = "RMG_Rejected" => st = w.at
    BY <2>1, <2>2 DEF ClosedByAi, Stage, AiRejectFrom, PreRmg, Written
  <2> HIDE DEF st, w, again
  <2>4. Outline(t, w.seen, st)
    BY <2>1, <2>2, <2>3 DEF Outline, w
  <2> QED BY <2>2, <2>4
<1>6. CASE Reapply(t)
  <2>1. w.kind # "none" /\ w.arg \in Stage
    BY <1>6 DEF Reapply, Doing, Asked, Stage
  <2>2. /\ Commit(t, w.seen, w.arg) /\ reopened' = 1..made /\ aged' = 1..made
        /\ UNCHANGED <<made, round, mails>>
    BY <1>6 DEF Reapply, Reopens
  <2> HIDE DEF w
  <2>3. Outline(t, w.seen, w.arg)
    BY <2>1, <2>2 DEF Outline, w
  <2> QED BY <2>2, <2>3
<1>7. CASE Correction(t)
  <2>1. w.kind # "none" /\ w.arg \in Stage
    BY <1>7 DEF Correction, Doing, Asked
  <2>2. reopened' = 1..made /\ aged' = 1..made /\ UNCHANGED <<made, round, mails>>
    BY <1>7 DEF Correction, Reopens
  <2>3. PICK row \in {w.seen, [w.seen EXCEPT !.decision = ""]} : Commit(t, row, w.arg)
    BY <1>7 DEF Correction
  <2>4. /\ row \in LinkRow /\ row.score = w.seen.score /\ row.result = w.seen.result
        /\ row.decision \in {w.seen.decision, ""} /\ row.voided = w.seen.voided
    BY DEF LinkRow, Decision
  <2> HIDE DEF w
  <2>5. Outline(t, row, w.arg)
    BY <2>1, <2>2, <2>4 DEF Outline, w
  <2> QED BY <2>3, <2>5
<1>8. CASE Invite(t)
  <2> DEFINE row == IF w.arg = "void" THEN [w.seen EXCEPT !.voided = TRUE] ELSE w.seen
  <2>1. w.kind # "none" /\ made < MaxLinks /\ made' = made + 1 /\ Commit(t, row, w.at)
        /\ UNCHANGED <<round, reopened, mails, aged>>
    BY <1>8 DEF Invite, Doing
  <2>2. /\ row \in LinkRow /\ row.score = w.seen.score /\ row.result = w.seen.result
        /\ row.decision = w.seen.decision /\ (w.seen.voided => row.voided)
    BY DEF LinkRow
  <2>3. made' \in Link
    BY <2>1, NextLink
  <2> HIDE DEF row, w
  <2>4. Outline(t, row, w.at)
    BY <2>1, <2>2, <2>3 DEF Outline, w
  <2> QED BY <2>1, <2>4
<1> QED BY <1>1, <1>2, <1>3, <1>4, <1>5, <1>6, <1>7, <1>8 DEF Commits

------------------------------------------------------------------------------
(* The theorems.                                                            *)

\* Every step keeps the invariant.
LEMMA NextKeeps == IInv /\ [Next]_vars => IInv'
<1> SUFFICES ASSUME IInv, [Next]_vars PROVE IInv'
  OBVIOUS
<1>1. ASSUME NEW t \in Txn, Commits(t) PROVE IInv'
  <2>1. PICK row, st : Commit(t, row, st) /\ Outline(t, row, st)
    BY <1>1, CommitsFollow
  <2> QED BY <2>1, CommitKeeps
<1>2. CASE Next
  BY <1>1, <1>2, ArrivesKeeps, FlushKeeps, RollBackKeeps DEF Next
<1>3. CASE UNCHANGED vars
  <2> USE <1>3 DEF vars
  <2>1. TypeOK' /\ Unsent' /\ VerdictAnnounced' /\ VerdictMatchesScore'
    BY DEF IInv, TypeOK, Unsent, VerdictAnnounced, VerdictMatchesScore
  <2>2. SnapshotsHold' /\ AsksHold'
    BY DEF IInv, SnapshotsHold, AsksHold
  <2>3. RejectedIsClosed' /\ PassedIsHandedOff'
    BY DEF IInv, RejectedIsClosed, PassedIsHandedOff, Latest
  <2> QED BY <2>1, <2>2, <2>3 DEF IInv
<1> QED BY <1>2, <1>3

\* The inductive invariant.
THEOREM Invariant == Spec => []IInv
<1> QED BY InitIInv, NextKeeps, PTL DEF Spec

\* Every state is well typed.
THEOREM TypeCorrect == Spec => []TypeOK
<1>1. IInv => TypeOK
  BY DEF IInv
<1> QED BY <1>1, Invariant, PTL

\* However syncs, decisions and roll-backs overlap, people were told the
\* verdict a link shows.
THEOREM VerdictIsAnnounced == Spec => []VerdictAnnounced
<1>1. IInv => VerdictAnnounced
  BY DEF IInv
<1> QED BY <1>1, Invariant, PTL

\* Only two overlapping syncs of one link can part its result from its score.
THEOREM VerdictIsOfScore == Spec => []VerdictMatchesScore
<1>1. IInv => VerdictMatchesScore
  BY DEF IInv
<1> QED BY <1>1, Invariant, PTL

\* A rejected candidacy stays closed until somebody reopens it.
THEOREM RejectionCloses == Spec => []RejectedIsClosed
<1>1. IInv => RejectedIsClosed
  BY DEF IInv
<1> QED BY <1>1, Invariant, PTL

\* A pass takes the candidacy to RMG or finds it there.
THEOREM PassHandsOff == Spec => []PassedIsHandedOff
<1>1. IInv => PassedIsHandedOff
  BY DEF IInv
<1> QED BY <1>1, Invariant, PTL

\* Only a reopening takes a candidacy out of RMG_Rejected.
THEOREM ClosedNeedsReopening == Spec => ClosedStaysClosed
<1> DEFINE Step == stage = "RMG_Rejected" /\ stage' # stage /\ "stage" \notin torn'
                     => reopened' = 1..made
<1>1. IInv /\ [Next]_vars => [Step]_vars
  <2> SUFFICES ASSUME IInv, Next, stage = "RMG_Rejected", stage' # stage, "stage" \notin torn'
               PROVE  reopened' = 1..made
    OBVIOUS
  <2>1. PICK t \in Txn : Commits(t)
    BY DEF Next, Arrives, SyncLoads, ReportPage, RowButton, ListLoad, PageLoad, RoundSaved,
           MoveAsked, ReapplyAsked, CorrectionAsked, InviteAsked, Begin, SyncFlushes, RollBack
  <2>2. PICK row, st : Commit(t, row, st) /\ Outline(t, row, st)
    BY <2>1, CommitsFollow
  <2>3. TypeOK /\ row \in LinkRow /\ st \in Stage
    BY <2>2 DEF IInv, Outline
  <2>4. stage' = IF st # txn[t].at THEN st ELSE stage
    BY <2>2 DEF Commit, Written
  <2>5. st # txn[t].at /\ "stage" \notin txn[t].stale
    BY <2>2, <2>3, <2>4, CommitTears
  <2>6. txn[t].at = stage
    BY <2>2, <2>5 DEF IInv, SnapshotsHold, Outline
  <2> QED BY <2>2, <2>5, <2>6 DEF Outline
<1> QED BY <1>1, Invariant, PTL DEF Spec, ClosedStaysClosed

------------------------------------------------------------------------------
(* When a voided pass counts.  models/ai_links.py promises that it never    *)
(* does (VoidedPassDoesNotCount); list and page loads that heal old rows    *)
(* do not look.                                                             *)

(* The decision a session read is the link's until another commits one.     *)
DecisionSeen ==
  \A t \in Txn : txn[t].kind # "none" /\ "decision" \notin txn[t].stale =>
    txn[t].seen.decision = link[txn[t].l].decision

(* What a heal had read to hand the candidacy to RMG.                       *)
HealsAPass(w) ==
  /\ w.kind = "list" /\ w.arg = "RMG_Review" => Passing(w.seen)
  /\ w.kind = "open" => w.seen.result = "Passed"

HealInv == DecisionSeen /\ \A t \in Txn : HealsAPass(txn[t])

(* The link a session is about shows a pass once the session has committed. *)
Counts(l) == link'[l].result = "Passed" \/ link'[l].decision = "selected"

(* Nobody scored or decided the link between a heal's read and its commit.  *)
HealCurrent(w) == w.kind \in {"list", "open"} => w.stale \cap {"verdict", "decision"} = {}

\* At first no session is open.
LEMMA InitHeal == Init => HealInv
  BY Fields DEF Init, HealInv, DecisionSeen, HealsAPass

\* A request that arrives has just read what it asks about.
LEMMA BeginHeal ==
  ASSUME TypeOK, HealInv, NEW t \in Txn, NEW kind, NEW l, NEW arg, Begin(t, kind, l, arg),
         kind = "list" /\ arg = "RMG_Review" => Passing(link[l]),
         kind = "open" => link[l].result = "Passed"
  PROVE  HealInv'
<1> DEFINE w == [kind |-> kind, pc |-> IF kind = "sync" THEN "read" ELSE "write",
                 l |-> l, arg |-> arg, seen |-> link[l], at |-> stage,
                 was |-> round, stale |-> {}]
<1>1. txn' = [txn EXCEPT ![t] = w] /\ link' = link
  BY DEF Begin
<1>2. w.kind = kind /\ w.l = l /\ w.arg = arg /\ w.seen = link[l]
  OBVIOUS
<1> HIDE DEF w
<1>3. txn'[t] = w /\ \A u \in Txn \ {t} : txn'[u] = txn[u]
  BY <1>1 DEF TypeOK
<1>4. HealsAPass(w)
  BY <1>2 DEF HealsAPass
<1>5. DecisionSeen'
  BY <1>1, <1>2, <1>3 DEF HealInv, DecisionSeen
<1> QED BY <1>3, <1>4, <1>5 DEF HealInv

\* Every request arrives so.
LEMMA ArrivesHeal == ASSUME IInv, HealInv, NEW t \in Txn, Arrives(t) PROVE HealInv'
<1>0. TypeOK
  BY DEF IInv
<1>1. CASE ListLoad(t)
  <2>1. \/ Passing(link[made]) /\ Begin(t, "list", made, "RMG_Review")
        \/ Begin(t, "list", made, "RMG_Rejected")
    BY <1>1 DEF ListLoad
  <2> QED BY <1>0, <2>1, BeginHeal
<1>2. CASE PageLoad(t)
  <2>1. PICK l \in 1..made : link[l].result = "Passed" /\ Begin(t, "open", l, "RMG_Review")
    BY <1>2 DEF PageLoad
  <2> QED BY <1>0, <2>1, BeginHeal
<1>3. CASE ~ListLoad(t) /\ ~PageLoad(t)
  <2>1. \E kind \in Kind \ {"list", "open"} : \E l, arg : Begin(t, kind, l, arg)
    BY <1>3 DEF Arrives, SyncLoads, ReportPage, RowButton, RoundSaved, MoveAsked, ReapplyAsked,
       CorrectionAsked, InviteAsked, Kind
  <2> QED BY <1>0, <2>1, BeginHeal
<1> QED BY <1>1, <1>2, <1>3

\* A commit that changes a decision is known to the others.
LEMMA CommitDecides ==
  ASSUME TypeOK, NEW t \in Txn, NEW row \in LinkRow, NEW st \in Stage, Commit(t, row, st),
         NEW u \in Txn \ {t}, txn[u].kind # "none", txn[u].l = txn[t].l,
         row.decision # txn[t].seen.decision
  PROVE  "decision" \in txn'[u].stale
<1> DEFINE more == {c \in Dirty(txn[t], row, st) : Affects(u, txn[t].l, c)}
<1>1. txn'[u] = [txn[u] EXCEPT !.stale = @ \cup more]
  BY DEF Commit
<1>2. txn[u] \in Work
  BY DEF TypeOK
<1>3. "decision" \in more
  BY DEF Dirty, Affects, Column
<1> HIDE DEF more
<1> QED BY <1>1, <1>2, <1>3 DEF Work

\* A commit leaves the other sessions' reads as good as they say.
LEMMA CommitHeal ==
  ASSUME IInv, HealInv, NEW t \in Txn, NEW row \in LinkRow, NEW st \in Stage,
         Commit(t, row, st)
  PROVE  HealInv'
<1>0. TypeOK
  BY DEF IInv
<1>1. /\ link'[txn[t].l] = Merge(txn[t], row)
      /\ \A l \in Link \ {txn[t].l} : link'[l] = link[l]
      /\ txn'[t] = Idle
  BY <1>0, CommitWrites
<1>2. ASSUME NEW u \in Txn \ {t} PROVE HealsAPass(txn'[u])
  <2>1. txn'[u].kind = txn[u].kind /\ txn'[u].arg = txn[u].arg /\ txn'[u].seen = txn[u].seen
    BY <1>0, CommitMarks
  <2> QED BY <2>1 DEF HealInv, HealsAPass
<1>3. ASSUME NEW u \in Txn \ {t}, txn'[u].kind # "none", "decision" \notin txn'[u].stale
      PROVE  txn'[u].seen.decision = link'[txn'[u].l].decision
  <2>1. /\ txn'[u].l = txn[u].l /\ txn'[u].seen = txn[u].seen /\ txn[u].kind # "none"
        /\ "decision" \notin txn[u].stale
    BY <1>0, <1>3, CommitMarks
  <2>2. txn[u].seen.decision = link[txn[u].l].decision /\ txn[u].l \in Link
    BY <1>0, <2>1 DEF HealInv, DecisionSeen, TypeOK, Work
  <2>3. CASE txn[u].l # txn[t].l
    BY <1>1, <2>1, <2>2, <2>3
  <2>4. CASE txn[u].l = txn[t].l
    <3>1. row.decision = txn[t].seen.decision
      BY <1>0, <1>3, <2>1, <2>4, CommitDecides
    <3>2. Merge(txn[t], row).decision = link[txn[t].l].decision
      BY <3>1 DEF Merge, Written
    <3> QED BY <1>1, <2>1, <2>2, <2>4, <3>2
  <2> QED BY <2>3, <2>4
<1>4. HealsAPass(txn'[t]) /\ txn'[t].kind = "none"
  BY <1>1, Fields DEF HealsAPass
<1>5. DecisionSeen'
  BY <1>3, <1>4 DEF DecisionSeen
<1> QED BY <1>2, <1>4, <1>5 DEF HealInv

\* Every step keeps what heals and decisions read.
LEMMA NextHeal == IInv /\ HealInv /\ [Next]_vars => HealInv'
<1> SUFFICES ASSUME IInv, HealInv, [Next]_vars PROVE HealInv'
  OBVIOUS
<1>0. TypeOK
  BY DEF IInv
<1>1. ASSUME NEW t \in Txn, Commits(t) PROVE HealInv'
  <2>1. PICK row, st : Commit(t, row, st) /\ Outline(t, row, st)
    BY <1>1, CommitsFollow
  <2> QED BY <2>1, CommitHeal DEF Outline
<1>2. ASSUME NEW t \in Txn, SyncFlushes(t) PROVE HealInv'
  <2> DEFINE w == [txn[t] EXCEPT !.pc = "write", !.at = stage, !.stale = @ \ {"stage"}]
  <2>1. txn' = [txn EXCEPT ![t] = w] /\ link' = link
    BY <1>2 DEF SyncFlushes
  <2>2. /\ w.kind = txn[t].kind /\ w.arg = txn[t].arg /\ w.seen = txn[t].seen
        /\ w.l = txn[t].l /\ w.stale = txn[t].stale \ {"stage"}
    BY <1>0 DEF TypeOK, Work
  <2> HIDE DEF w
  <2>3. txn'[t] = w /\ \A u \in Txn \ {t} : txn'[u] = txn[u]
    BY <1>0, <2>1 DEF TypeOK
  <2>4. DecisionSeen'
    BY <2>1, <2>2, <2>3 DEF HealInv, DecisionSeen
  <2>5. \A u \in Txn : HealsAPass(txn'[u])
    BY <2>2, <2>3 DEF HealInv, HealsAPass
  <2> QED BY <2>4, <2>5 DEF HealInv
<1>3. ASSUME NEW t \in Txn, RollBack(t) PROVE HealInv'
  <2>1. link' = link /\ txn'[t] = Idle /\ \A u \in Txn \ {t} : txn'[u] = txn[u]
    BY <1>0, <1>3 DEF RollBack, TypeOK
  <2>2. DecisionSeen'
    BY <2>1, Fields DEF HealInv, DecisionSeen
  <2>3. \A u \in Txn : HealsAPass(txn'[u])
    BY <2>1, Fields DEF HealInv, HealsAPass
  <2> QED BY <2>2, <2>3 DEF HealInv
<1>4. CASE UNCHANGED vars
  BY <1>4 DEF vars, HealInv, DecisionSeen
<1> QED BY <1>1, <1>2, <1>3, <1>4, ArrivesHeal DEF Next

\* Heals and decisions act on what they read.
LEMMA HealHolds == Spec => []HealInv
<1> QED BY InitHeal, NextHeal, Invariant, PTL DEF Spec

(* A sync or a load that takes a candidacy on to RMG leaves a link of it    *)
(* that passed or was selected, unless it is a heal that went stale: not    *)
(* one moves the stage on its own.                                          *)
OnlyAPassMoves ==
  \A t \in Txn :
    /\ Automatic(t) /\ txn'[t].kind = "none" /\ HealCurrent(txn[t])
    /\ stage \in PreRmg /\ stage' = "RMG_Review"
    => \E l \in 1..made : Counts(l)

\* The step that ends an automatic session and moves the stage is its commit.
LEMMA PassMoves ==
  ASSUME IInv, HealInv, Next, NEW t \in Txn, Automatic(t), txn'[t].kind = "none",
         HealCurrent(txn[t]), stage \in PreRmg, stage' = "RMG_Review"
  PROVE  \E l \in 1..made : Counts(l)
<1> DEFINE w == txn[t]
<1>0. TypeOK /\ stage' # stage
  BY DEF IInv, PreRmg
<1>1. PICK u \in Txn : Commits(u)
  BY <1>0 DEF Next, Arrives, SyncLoads, ReportPage, RowButton, ListLoad, PageLoad, RoundSaved,
         MoveAsked, ReapplyAsked, CorrectionAsked, InviteAsked, Begin, SyncFlushes, RollBack
<1>2. PICK r0, s0 : Commit(u, r0, s0) /\ Outline(u, r0, s0)
  BY <1>1, CommitsFollow
<1>3. u = t
  <2> SUFFICES ASSUME u # t PROVE FALSE
    OBVIOUS
  <2>1. r0 \in LinkRow /\ s0 \in Stage /\ t \in Txn \ {u}
    BY <1>2 DEF Outline
  <2>2. txn'[t].kind = txn[t].kind
    BY ONLY <1>0, <1>2, <2>1, CommitMarks, u \in Txn
  <2> QED BY <2>2 DEF Automatic
<1>4. /\ w \in Work /\ w.l \in Link /\ w.l \in 1..made /\ w.seen \in LinkRow /\ w.at \in Stage
      /\ Asked(w) /\ w.kind \in {"sync", "open", "list"}
  BY <1>0, MadeAreLinks DEF IInv, TypeOK, Work, SnapshotsHold, AsksHold, Automatic, Link
<1>5. ~(ReportDecision(t) \/ RowDecision(t) \/ RoundVerdict(t) \/ Transition(t) \/ Reapply(t)
        \/ Correction(t) \/ Invite(t))
  BY <1>4 DEF ReportDecision, RowDecision, RoundVerdict, Transition, Reapply, Correction,
     Invite, Doing
<1>6. CASE SyncAnnounces(t)
  <2>1. Commit(t, Synced(w), HandedOff(w)) /\ w.arg \in Score /\ Announces(w)
    BY <1>4, <1>6 DEF SyncAnnounces, Doing, Asked
  <2>2. HandedOff(w) # w.at
    BY <1>0, <2>1 DEF Commit, Written
  <2>3. w.arg = "high"
    BY <2>2 DEF HandedOff
  <2>4. Synced(w) \in LinkRow /\ Synced(w).result = "Passed" /\ w.seen.result # "Passed"
    BY <1>4, <2>1, <2>3 DEF Synced, LinkRow, Verdict, Announces
  <2>5. HandedOff(w) \in Stage
    BY <1>4 DEF HandedOff, Stage
  <2>6. link'[w.l] = Merge(w, Synced(w))
    BY <1>0, <2>1, <2>4, <2>5, CommitWrites
  <2>7. link'[w.l].result = "Passed"
    BY <2>4, <2>6 DEF Merge, Written
  <2> QED BY <1>4, <2>7 DEF Counts
<1>7. CASE SyncQuietly(t)
  BY <1>0, <1>7 DEF SyncQuietly, Commit, Written
<1>8. CASE Heal(t)
  <2>1. Commit(t, w.seen, w.arg) /\ w.kind \in {"list", "open"}
    BY <1>8 DEF Heal, Doing
  <2>2. w.arg = "RMG_Review"
    BY <1>0, <2>1 DEF Commit, Written
  <2>3. Passing(w.seen)  \/ w.seen.result = "Passed"
    BY <2>1, <2>2 DEF HealInv, HealsAPass
  <2>4. w.seen.result = link[w.l].result /\ w.seen.decision = link[w.l].decision
    BY <2>1 DEF HealCurrent, IInv, SnapshotsHold, HealInv, DecisionSeen
  <2>5. link'[w.l] = Merge(w, w.seen)
    BY <1>0, <1>4, <2>1, <2>2, CommitWrites DEF Stage
  <2>6. link'[w.l].result = link[w.l].result /\ link'[w.l].decision = link[w.l].decision
    BY <2>5 DEF Merge, Written
  <2> QED BY <1>4, <2>3, <2>4, <2>6 DEF Counts, Passing
<1> QED BY <1>1, <1>3, <1>5, <1>6, <1>7, <1>8 DEF Commits

\* No sync and no load hands a candidacy to RMG on its own: a link passed, or
\* was selected, unless a heal acts on a verdict or decision changed since.
THEOREM OnlyPassesMove == Spec => [][OnlyAPassMoves]_vars
<1>1. IInv /\ HealInv /\ [Next]_vars => [OnlyAPassMoves]_vars
  <2> SUFFICES ASSUME IInv, HealInv, Next PROVE OnlyAPassMoves
    OBVIOUS
  <2> QED BY PassMoves DEF OnlyAPassMoves
<1> QED BY <1>1, Invariant, HealHolds, PTL DEF Spec

(* No invitation replaced a finished interview as void.                     *)
Unvoided == \A l \in Link : ~link[l].voided
HealsCurrent == \A t \in Txn : HealCurrent(txn[t])

\* The promise about voided links holds as long as no link is voided and no
\* heal is overtaken: loads and syncs never take a candidacy on to RMG
\* without a pass or a selection that stands.
THEOREM UnvoidedPassesCount ==
  Spec /\ [](Unvoided /\ HealsCurrent) => VoidedPassDoesNotCount
<1> DEFINE Step ==
      (\E t \in Txn : Automatic(t) /\ txn'[t].kind = "none")
        /\ stage \in PreRmg /\ stage' = "RMG_Review"
      => \E l \in 1..made : /\ link'[l].result = "Passed" \/ link'[l].decision = "selected"
                            /\ ~link'[l].voided
<1>1. IInv /\ HealInv /\ Unvoided' /\ HealsCurrent /\ [Next]_vars => [Step]_vars
  <2> SUFFICES ASSUME IInv, HealInv, Unvoided', HealsCurrent, Next,
                      NEW t \in Txn, Automatic(t), txn'[t].kind = "none",
                      stage \in PreRmg, stage' = "RMG_Review"
               PROVE  \E l \in 1..made : /\ link'[l].result = "Passed" \/ link'[l].decision = "selected"
                                         /\ ~link'[l].voided
    OBVIOUS
  <2>1. PICK l \in 1..made : Counts(l)
    BY PassMoves DEF HealsCurrent
  <2>2. l \in Link
    BY MadeAreLinks DEF IInv
  <2> QED BY <2>1, <2>2 DEF Counts, Unvoided
<1> QED BY <1>1, Invariant, HealHolds, PTL DEF Spec, VoidedPassDoesNotCount
==============================================================================
