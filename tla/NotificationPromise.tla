-------------------------- MODULE NotificationPromise --------------------------
(***************************************************************************)
(* What the email outbox promises the business code that queues mail, with *)
(* no sessions, locks, batches or lookups: the rows of a request appear    *)
(* with its commit, in one step, at most one per dedupe key; a queued row  *)
(* is settled once; only an administrator puts a settled row back.         *)
(***************************************************************************)
CONSTANTS
  Request,        \* business transactions
  Row,            \* rows they may queue
  OwnerOf,        \* OwnerOf[x]: the request that queues x
  RowKey, NoKey   \* RowKey[x]: dedupe key of x, NoKey when it has none

VARIABLES
  business,       \* business[r]: the change of r is open, committed or aborted
  mail            \* mail[x]: "none", or the status of the row

vars == <<business, mail>>

Settled == {"Sent", "Failed", "Skipped"}

Init ==
  /\ business = [r \in Request |-> "open"]
  /\ mail = [x \in Row |-> "none"]

Clash(x, y) == x # y /\ RowKey[x] # NoKey /\ RowKey[x] = RowKey[y]

\* The change of r and the rows S it queued become visible together.
Commit(r, S) ==
  /\ business[r] = "open"
  /\ \A x \in S : OwnerOf[x] = r
  /\ \A x \in S, y \in Row : Clash(x, y) => mail[y] = "none" /\ y \notin S
  /\ business' = [business EXCEPT ![r] = "committed"]
  /\ \E new \in [S -> {"Queued", "Sent", "Failed"}] :
       mail' = [x \in Row |-> IF x \in S THEN new[x] ELSE mail[x]]

Abort(r) ==
  /\ business[r] = "open"
  /\ business' = [business EXCEPT ![r] = "aborted"]
  /\ UNCHANGED mail

\* A drain decides some queued rows; a decided row is not decided again.
Settle(S) ==
  /\ \A x \in S : mail[x] = "Queued"
  /\ \E new \in [S -> Settled] :
       mail' = [x \in Row |-> IF x \in S THEN new[x] ELSE mail[x]]
  /\ UNCHANGED business

\* An administrator's retry, which may also hit a row that was sent meanwhile.
Requeue(S) ==
  /\ \A x \in S : mail[x] \in Settled
  /\ mail' = [x \in Row |-> IF x \in S THEN "Queued" ELSE mail[x]]
  /\ UNCHANGED business

Next ==
  \/ \E r \in Request : Abort(r) \/ \E S \in SUBSET Row : Commit(r, S)
  \/ \E S \in SUBSET Row : Settle(S) \/ Requeue(S)

Spec == Init /\ [][Next]_vars
=============================================================================
