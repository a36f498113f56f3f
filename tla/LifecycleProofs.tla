-------------------------- MODULE LifecycleProofs --------------------------
(***************************************************************************)
(* Proofs about Lifecycle, for any rows, requests, wallets and addresses,  *)
(* any number of rounds, crashes and payout faults.                        *)
(***************************************************************************)
EXTENDS Lifecycle, TLAPS

\* Every step keeps the type invariant.
LEMMA TypeStep == TypeOK /\ [Next]_vars => TypeOK'
<1> SUFFICES ASSUME TypeOK, [Next]_vars PROVE TypeOK'
    OBVIOUS
<1> USE ConstAssumption DEF TypeOK
<1>1. CASE Crash
    BY <1>1 DEF Crash, Outcomes, dbVars, chainVars
<1>2. CASE Startup
    BY <1>2 DEF Startup, Outcomes, dbVars, chainVars, revealVars, payVars, histVars
<1>3. CASE Serve
    BY <1>3 DEF Serve, dbVars, chainVars, commitVars, revealVars, payVars, histVars
<1>4. ASSUME NEW s \in Rows, NEW spawned \in BOOLEAN, Receive(s, spawned) PROVE TypeOK'
    BY <1>4 DEF Receive, Statuses, Outcomes, chainVars, revealVars, payVars, histVars
<1>5. ASSUME NEW s \in Rows, NEW a \in Addrs, CommitCall(s, a) PROVE TypeOK'
  <2>1. outcome' \in [Pairs -> Outcomes] /\ chainCommit' \subseteq Pairs
    BY <1>5 DEF CommitCall, Outcomes, Pairs
  <2> QED
    BY <1>5, <2>1 DEF CommitCall, dbVars, revealVars, payVars, histVars
<1>6. ASSUME NEW s \in Rows, NEW a \in Addrs, CommitStore(s, a) PROVE TypeOK'
  <2>1. outcome' \in [Pairs -> Outcomes] /\ closed' \subseteq Pairs
    BY <1>6 DEF CommitStore, Outcomes
  <2>2. attempt' \in [Pairs -> {"none", "COMMITTED", "REVEALED", "FAILED"}]
    BY <1>6 DEF CommitStore
  <2>3. won' \in [Rows -> BOOLEAN]
    BY <1>6 DEF CommitStore
  <2> QED
    BY <1>6, <2>1, <2>2, <2>3 DEF CommitStore, chainVars, revealVars, payVars, histVars
<1>7. ASSUME NEW s \in Rows, CommitSucceeds(s) PROVE TypeOK'
    BY <1>7 DEF CommitSucceeds, Statuses, chainVars, revealVars, payVars, histVars
<1>8. ASSUME NEW s \in Rows, CommitRetries(s) PROVE TypeOK'
    BY <1>8 DEF CommitRetries, Outcomes, dbVars, chainVars, revealVars, payVars, histVars
<1>9. ASSUME NEW s \in Rows, CommitGivesUp(s) PROVE TypeOK'
    BY <1>9 DEF CommitGivesUp, Statuses, chainVars, revealVars, payVars, histVars
<1>10. ASSUME NEW p \in Pairs, WindowCloses(p) PROVE TypeOK'
    BY <1>10 DEF WindowCloses, chainVars, commitVars, revealVars, payVars, histVars
<1>11. ASSUME NEW q \in Requests, Withhold(q) PROVE TypeOK'
    BY <1>11 DEF Withhold, chainVars, commitVars, revealVars, payVars, histVars
<1>12. CASE RevealStart
    BY <1>12 DEF RevealStart, RevealReady, dbVars, chainVars, commitVars, payVars, histVars
<1>13. ASSUME NEW p \in Pairs, RevealAccepted(p) PROVE TypeOK'
    BY <1>13 DEF RevealAccepted, dbVars, commitVars, payVars, histVars
<1>14. ASSUME NEW p \in Pairs, RevealRefused(p) PROVE TypeOK'
    BY <1>14 DEF RevealRefused, dbVars, commitVars, payVars, histVars
<1>15. CASE MarkAttemptRevealed
    BY <1>15 DEF MarkAttemptRevealed, chainVars, commitVars, payVars, histVars
<1>16. CASE MarkRevealed
    BY <1>16 DEF MarkRevealed, Statuses, chainVars, commitVars, payVars, histVars
<1>17. CASE PublishStart
    BY <1>17 DEF PublishStart, dbVars, chainVars, commitVars, payVars, histVars
<1>18. ASSUME NEW s \in Rows, PublishAccepted(s) PROVE TypeOK'
    BY <1>18 DEF PublishAccepted, dbVars, chainVars, commitVars, payVars, histVars
<1>19. ASSUME NEW s \in Rows, PublishRefused(s) PROVE TypeOK'
    BY <1>19 DEF PublishRefused, PublishNext, dbVars, chainVars, commitVars, payVars, histVars
<1>20. CASE MarkPublished
    BY <1>20 DEF MarkPublished, PublishNext, Statuses, chainVars, commitVars, payVars, histVars
<1>21. CASE PayoutStart
    BY <1>21 DEF PayoutStart, Payable, UnpaidPublished, dbVars, chainVars, commitVars,
       revealVars, histVars
<1>22. CASE PayoutSent \/ PayoutReplyLost
  <2>1. payouts' \in [Rows -> Nat]
    BY <1>22 DEF PayoutSent, PayoutReplyLost, Sent
  <2> QED
    BY <1>22, <2>1 DEF PayoutSent, PayoutReplyLost, dbVars, commitVars, revealVars, histVars
<1>23. CASE PayoutFails \/ MarkPaidFails
    BY <1>23 DEF PayoutFails, MarkPaidFails, dbVars, chainVars, commitVars, revealVars, histVars
<1>24. CASE MarkPaid
    BY <1>24 DEF MarkPaid, chainVars, commitVars, revealVars, histVars
<1>25. CASE UNCHANGED vars
    BY <1>25 DEF vars, dbVars, chainVars, commitVars, revealVars, payVars, histVars
<1> QED
    BY <1>1, <1>2, <1>3, <1>4, <1>5, <1>6, <1>7, <1>8, <1>9, <1>10, <1>11, <1>12, <1>13,
       <1>14, <1>15, <1>16, <1>17, <1>18, <1>19, <1>20, <1>21, <1>22, <1>23, <1>24, <1>25
       DEF Next, Commit, Reveal, Payout

\* Lifecycle keeps its type invariant.
THEOREM TypeCorrect == Spec => []TypeOK
<1>1. Init => TypeOK
    BY ConstAssumption DEF Init, TypeOK, Statuses, Outcomes
<1> QED
    BY <1>1, TypeStep, PTL DEF Spec

-----------------------------------------------------------------------------
(* No row is paid twice but for a lost record                              *)

\* A row is ahead by one payout exactly while its batch waits to be marked,
\* and for good once it is marked; a batch about to be sent is unpaid.
PayInv ==
    /\ \A s \in Rows : payouts[s] <=
            payFaults + (IF paid[s] \/ (payAt = "mark" /\ s \in batch) THEN 1 ELSE 0)
    /\ payAt = "send" => \A s \in batch : ~paid[s]
    /\ payAt # "idle" => \A s \in batch : status[s] # "none"

\* Every step keeps PayInv.
LEMMA PayStep == TypeOK /\ PayInv /\ [Next]_vars => PayInv'
<1> SUFFICES ASSUME TypeOK, PayInv, [Next]_vars PROVE PayInv'
    OBVIOUS
<1> USE ConstAssumption
<1>1. ASSUME UNCHANGED <<paid, payouts, payFaults, payAt, batch>>,
             \A s \in Rows : status[s] # "none" => status'[s] # "none"
      PROVE  PayInv'
    BY <1>1 DEF PayInv, TypeOK
<1>2. CASE Crash
  <2>1. /\ UNCHANGED <<paid, payouts, status>> /\ payAt' = "idle"
        /\ payFaults' = payFaults + (IF payAt = "mark" THEN 1 ELSE 0)
    BY <1>2 DEF Crash, dbVars, chainVars
  <2> QED
    BY <2>1 DEF PayInv, TypeOK
<1>3. CASE \/ Startup \/ Serve \/ RevealStart \/ MarkAttemptRevealed \/ PublishStart
           \/ \E s \in Rows, a \in Addrs : CommitCall(s, a) \/ CommitStore(s, a)
           \/ \E s \in Rows : CommitRetries(s) \/ PublishAccepted(s) \/ PublishRefused(s)
           \/ \E p \in Pairs : WindowCloses(p) \/ RevealAccepted(p) \/ RevealRefused(p)
           \/ \E q \in Requests : Withhold(q)
  <2>1. UNCHANGED <<paid, payouts, payFaults, payAt, batch, status>>
    BY <1>3 DEF Startup, Serve, RevealStart, MarkAttemptRevealed, PublishStart, CommitCall,
       CommitStore, CommitRetries, PublishAccepted, PublishRefused, WindowCloses,
       RevealAccepted, RevealRefused, Withhold, dbVars, chainVars, payVars, histVars
  <2> QED
    BY <1>1, <2>1
<1>4. CASE \/ \E s \in Rows, spawned \in BOOLEAN : Receive(s, spawned)
           \/ \E s \in Rows : CommitSucceeds(s) \/ CommitGivesUp(s)
           \/ MarkRevealed \/ MarkPublished
  <2>1. UNCHANGED <<paid, payouts, payFaults, payAt, batch>>
    BY <1>4 DEF Receive, CommitSucceeds, CommitGivesUp, MarkRevealed, MarkPublished,
       chainVars, payVars, histVars
  <2>2. \A s \in Rows : status[s] # "none" => status'[s] # "none"
    BY <1>4 DEF Receive, CommitSucceeds, CommitGivesUp, MarkRevealed, MarkPublished, TypeOK
  <2> QED
    BY <1>1, <2>1, <2>2
<1>5. CASE PayoutStart
  <2>1. /\ UNCHANGED <<paid, payouts, payFaults, status>>
        /\ payAt = "idle" /\ payAt' = "send"
        /\ \A s \in batch' : s \in Rows /\ ~paid[s] /\ status[s] = "PUBLISHED"
    BY <1>5 DEF PayoutStart, Payable, UnpaidPublished, dbVars, chainVars, histVars
  <2> QED
    BY <2>1 DEF PayInv, TypeOK
<1>6. CASE PayoutSent
  <2>1. /\ UNCHANGED <<paid, payFaults, status, batch>>
        /\ payAt = "send" /\ payAt' = "mark"
        /\ payouts' = [s \in Rows |-> payouts[s] + (IF s \in batch THEN 1 ELSE 0)]
    BY <1>6 DEF PayoutSent, Sent, dbVars, histVars
  <2> QED
    BY <2>1 DEF PayInv, TypeOK
<1>7. CASE PayoutReplyLost
  <2>1. /\ UNCHANGED <<paid, status>> /\ payFaults' = payFaults + 1
        /\ payAt = "send" /\ payAt' = "idle"
        /\ payouts' = [s \in Rows |-> payouts[s] + (IF s \in batch THEN 1 ELSE 0)]
    BY <1>7 DEF PayoutReplyLost, Sent, dbVars
  <2> QED
    BY <2>1 DEF PayInv, TypeOK
<1>8. CASE PayoutFails
  <2>1. UNCHANGED <<paid, status, payouts, payFaults>> /\ payAt = "send" /\ payAt' = "idle"
    BY <1>8 DEF PayoutFails, dbVars, chainVars, histVars
  <2> QED
    BY <2>1 DEF PayInv, TypeOK
<1>9. CASE MarkPaid
  <2>1. /\ UNCHANGED <<payouts, payFaults>> /\ payAt = "mark" /\ payAt' = "idle"
        /\ \A s \in Rows : paid[s] => paid'[s]
        /\ \A s \in Rows : s \in batch /\ status[s] # "none" => paid'[s]
    BY <1>9 DEF MarkPaid, chainVars, histVars
  <2> QED
    BY <2>1 DEF PayInv, TypeOK
<1>10. CASE MarkPaidFails
  <2>1. /\ UNCHANGED <<paid, status, payouts>> /\ payFaults' = payFaults + 1
        /\ payAt = "mark" /\ payAt' = "idle"
    BY <1>10 DEF MarkPaidFails, dbVars, chainVars
  <2> QED
    BY <2>1 DEF PayInv, TypeOK
<1>11. CASE UNCHANGED vars
    BY <1>1, <1>11 DEF vars, dbVars, chainVars, payVars, histVars
<1> QED
    BY <1>2, <1>3, <1>4, <1>5, <1>6, <1>7, <1>8, <1>9, <1>10, <1>11
       DEF Next, Commit, Reveal, Payout

\* The payout module's accepted risk is the only one: a row is covered by at
\* most one payout more than there were payouts whose record was lost.
THEOREM PaidOnce == Spec => []PaidOnceButForFaults
<1>1. Init => PayInv
    BY DEF Init, PayInv
<1>2. TypeOK /\ PayInv => PaidOnceButForFaults
    BY DEF PayInv, TypeOK, PaidOnceButForFaults
<1> QED
    BY <1>1, <1>2, PayStep, TypeCorrect, PTL DEF Spec

-----------------------------------------------------------------------------
(* Every row a task holds in memory still has the status it was read with  *)

\* The statuses of a row that is past its commit.
PastCommit == {"COMMITTED", "REVEALED", "PUBLISHED"}

\* Each conjunct ties what a task remembers (the row do_commit drives, the
\* candidates, the rows to publish, the payout batch) to the database and the
\* chain; the UPDATEs of repo.rs check none of it.
StatusInv ==
    /\ \A s \in Rows : round[s] > 0 => status[s] = "RECEIVED"
    /\ \A p \in candidates : status[p[1]] = "COMMITTED"
    /\ revealAt \in {"markAttempt", "markRevealed"} =>
            status[cur[1]] = "COMMITTED" /\ cur \in chainReveal \cap chainCommit
    /\ \A s \in publishing : status[s] = "REVEALED"
    /\ revealAt = "markPublished" => pub \in publishing
    /\ payAt # "idle" => \A s \in batch : status[s] = "PUBLISHED"
    /\ payAt = "mark" => \A s \in batch : payouts[s] > 0
    /\ \A s, t \in Rows : RequestOf[s] = RequestOf[t] /\ IsLive(s) /\ IsLive(t) => s = t
    /\ \A p \in chainReveal : status[p[1]] \in PastCommit
    /\ RevealedOnChain

\* Every step keeps StatusInv.
LEMMA StatusStep == TypeOK /\ StatusInv /\ [Next]_vars => StatusInv'
<1> SUFFICES ASSUME TypeOK, StatusInv, [Next]_vars PROVE StatusInv'
    OBVIOUS
<1> USE ConstAssumption DEF PastCommit
<1>1. CASE Crash
  <2>1. /\ UNCHANGED <<status, chainCommit, chainReveal, payouts>>
        /\ round' = [s \in Rows |-> 0] /\ candidates' = {} /\ revealAt' = "idle"
        /\ publishing' = {} /\ payAt' = "idle"
    BY <1>1 DEF Crash, dbVars, chainVars
  <2> QED
    BY <2>1 DEF StatusInv, RevealedOnChain, IsLive
<1>2. CASE Startup
  <2>1. /\ UNCHANGED <<status, chainVars, revealVars, payVars>>
        /\ round' = [s \in Rows |-> IF status[s] = "RECEIVED" THEN 1 ELSE 0]
    BY <1>2 DEF Startup, dbVars
  <2> QED
    BY <2>1 DEF StatusInv, RevealedOnChain, IsLive, chainVars, revealVars, payVars
<1>3. CASE \/ Serve \/ \E s \in Rows, a \in Addrs : CommitStore(s, a)
           \/ \E p \in Pairs : WindowCloses(p)
           \/ \E q \in Requests : Withhold(q)
           \/ UNCHANGED vars
  <2>1. UNCHANGED <<status, chainVars, round, revealVars, payVars>>
    BY <1>3 DEF Serve, CommitStore, WindowCloses, Withhold, vars, dbVars, commitVars
  <2> QED
    BY <2>1 DEF StatusInv, RevealedOnChain, IsLive, chainVars, revealVars, payVars
<1>4. ASSUME NEW s \in Rows, NEW spawned \in BOOLEAN, Receive(s, spawned) PROVE StatusInv'
  <2>1. /\ UNCHANGED <<chainVars, revealVars, payVars>> /\ status[s] = "none"
        /\ status' = [status EXCEPT ![s] = "RECEIVED"]
        /\ round' \in {round, [round EXCEPT ![s] = 1]}
        /\ \A t \in Rows : RequestOf[t] = RequestOf[s] => ~IsLive(t)
    BY <1>4 DEF Receive
  <2>2. \A t \in Rows : t # s => status'[t] = status[t]
    BY <2>1 DEF TypeOK
  <2>3. status'[s] = "RECEIVED"
    BY <2>1 DEF TypeOK
  <2>4. \A t \in Rows : round'[t] > 0 => status'[t] = "RECEIVED"
    BY <2>1, <2>2, <2>3 DEF StatusInv, TypeOK
  <2>5. \A t, u \in Rows : RequestOf[t] = RequestOf[u] /\ IsLive(t)' /\ IsLive(u)' => t = u
    BY <2>1, <2>2, <2>3 DEF StatusInv, IsLive
  <2>6. \A p \in Pairs : status[p[1]] \in PastCommit => status'[p[1]] = status[p[1]]
    BY <2>1, <2>2 DEF Pairs
  <2> QED
    BY <2>1, <2>2, <2>3, <2>4, <2>5, <2>6 DEF StatusInv, RevealedOnChain, TypeOK,
       chainVars, revealVars, payVars
<1>5. ASSUME NEW s \in Rows, NEW a \in Addrs, CommitCall(s, a) PROVE StatusInv'
  <2>1. /\ UNCHANGED <<status, chainReveal, payouts, round, revealVars, payVars>>
        /\ chainCommit \subseteq chainCommit'
    BY <1>5 DEF CommitCall, dbVars
  <2> QED
    BY <2>1 DEF StatusInv, RevealedOnChain, IsLive, revealVars, payVars
<1>6. ASSUME NEW s \in Rows, CommitSucceeds(s) \/ CommitGivesUp(s) PROVE StatusInv'
  <2>1. /\ UNCHANGED <<chainVars, revealVars, payVars>> /\ round[s] > 0
        /\ round' = [round EXCEPT ![s] = 0]
        /\ \/ UNCHANGED status
           \/ status' = [status EXCEPT ![s] = "COMMITTED"]
           \/ status' = [status EXCEPT ![s] = "FAILED"]
    BY <1>6 DEF CommitSucceeds, CommitGivesUp, Stored
  <2>2. status[s] = "RECEIVED"
    BY <2>1 DEF StatusInv
  <2>3. \A t \in Rows : t # s => status'[t] = status[t]
    BY <2>1 DEF TypeOK
  <2>4. status'[s] \in {"RECEIVED", "COMMITTED", "FAILED"}
    BY <2>1, <2>2 DEF TypeOK
  <2>5. \A t \in Rows : round'[t] > 0 => status'[t] = "RECEIVED"
    BY <2>1, <2>3 DEF StatusInv, TypeOK
  <2>6. \A t, u \in Rows : RequestOf[t] = RequestOf[u] /\ IsLive(t)' /\ IsLive(u)' => t = u
    BY <2>2, <2>3, <2>4 DEF StatusInv, IsLive
  <2>7. \A p \in Pairs : status[p[1]] \in PastCommit => status'[p[1]] = status[p[1]]
    BY <2>2, <2>3 DEF Pairs
  <2> QED
    BY <2>1, <2>2, <2>3, <2>4, <2>5, <2>6, <2>7 DEF StatusInv, RevealedOnChain, TypeOK,
       chainVars, revealVars, payVars
<1>7. ASSUME NEW s \in Rows, CommitRetries(s) PROVE StatusInv'
  <2>1. /\ UNCHANGED <<status, chainVars, revealVars, payVars>> /\ round[s] > 0
        /\ round' = [round EXCEPT ![s] = @ + 1]
    BY <1>7 DEF CommitRetries, Stored, dbVars
  <2> QED
    BY <2>1 DEF StatusInv, RevealedOnChain, IsLive, TypeOK, chainVars, revealVars, payVars
<1>8. CASE RevealStart
  <2>1. /\ UNCHANGED <<status, chainVars, round, publishing, payVars>> /\ revealAt' = "reveal"
        /\ \A p \in candidates' : status[p[1]] = "COMMITTED"
    BY <1>8 DEF RevealStart, RevealReady, dbVars, commitVars
  <2> QED
    BY <2>1 DEF StatusInv, RevealedOnChain, IsLive, chainVars, payVars
<1>9. ASSUME NEW p \in Pairs, RevealAccepted(p) PROVE StatusInv'
  <2>1. /\ UNCHANGED <<status, chainCommit, payouts, round, candidates, publishing, payVars>>
        /\ p \in candidates /\ p \in chainCommit /\ chainReveal' = chainReveal \cup {p}
        /\ cur' = p /\ revealAt' = "markAttempt"
    BY <1>9 DEF RevealAccepted, dbVars, commitVars
  <2> QED
    BY <2>1 DEF StatusInv, RevealedOnChain, IsLive, payVars
<1>10. ASSUME NEW p \in Pairs, RevealRefused(p) PROVE StatusInv'
  <2>1. /\ UNCHANGED <<status, chainCommit, payouts, round, revealAt, cur, publishing,
                       pub, payVars>>
        /\ p \in candidates /\ candidates' \subseteq candidates
        /\ chainReveal \subseteq chainReveal' /\ chainReveal' \subseteq chainReveal \cup {p}
    BY <1>10 DEF RevealRefused, dbVars, commitVars
  <2> QED
    BY <2>1 DEF StatusInv, RevealedOnChain, IsLive, payVars
<1>11. CASE MarkAttemptRevealed
  <2>1. /\ UNCHANGED <<status, chainVars, round, candidates, cur, publishing, payVars>>
        /\ revealAt = "markAttempt" /\ revealAt' = "markRevealed"
    BY <1>11 DEF MarkAttemptRevealed, commitVars
  <2> QED
    BY <2>1 DEF StatusInv, RevealedOnChain, IsLive, chainVars, payVars
<1>12. CASE MarkRevealed
  <2> DEFINE s == cur[1]
  <2>1. /\ UNCHANGED <<chainVars, round, publishing, payVars>>
        /\ revealAt = "markRevealed" /\ revealAt' = "reveal"
        /\ \A p \in candidates' : p \in candidates /\ p[1] # s
        /\ UNCHANGED status \/ status' = [status EXCEPT ![s] = "REVEALED"]
    BY <1>12 DEF MarkRevealed, commitVars
  <2>2. /\ cur \in Pairs /\ s \in Rows /\ cur = <<s, cur[2]>> /\ cur[2] \in Addrs
        /\ status[s] = "COMMITTED" /\ cur \in chainReveal \cap chainCommit
    BY <2>1 DEF StatusInv, TypeOK, Pairs
  <2>3. /\ \A t \in Rows : t # s => status'[t] = status[t]
        /\ status'[s] \in {"COMMITTED", "REVEALED"}
    BY <2>1, <2>2 DEF TypeOK
  <2>4. /\ \A t \in Rows : round'[t] > 0 => status'[t] = "RECEIVED"
        /\ \A t \in publishing' : status'[t] = "REVEALED"
        /\ payAt' # "idle" => \A t \in batch' : status'[t] = "PUBLISHED"
    BY <2>1, <2>2, <2>3 DEF StatusInv, TypeOK, payVars
  <2>5. \A t, u \in Rows : RequestOf[t] = RequestOf[u] /\ IsLive(t)' /\ IsLive(u)' => t = u
    BY <2>2, <2>3 DEF StatusInv, IsLive
  <2>6. \A p \in chainReveal' : status'[p[1]] \in PastCommit
    BY <2>1, <2>3 DEF StatusInv, TypeOK, Pairs, chainVars
  <2>7. \A p \in candidates' : status'[p[1]] = "COMMITTED"
    BY <2>1, <2>3 DEF StatusInv, TypeOK, Pairs
  <2>8. RevealedOnChain'
    BY <2>1, <2>2, <2>3 DEF StatusInv, RevealedOnChain, chainVars
  <2> QED
    BY <2>1, <2>4, <2>5, <2>6, <2>7, <2>8 DEF StatusInv, chainVars, payVars
<1>13. CASE PublishStart
  <2>1. /\ UNCHANGED <<status, chainVars, round, candidates, payVars>>
        /\ revealAt' \in {"idle", "publish"}
        /\ \A s \in publishing' : status[s] = "REVEALED"
    BY <1>13 DEF PublishStart, dbVars, commitVars
  <2> QED
    BY <2>1 DEF StatusInv, RevealedOnChain, IsLive, chainVars, payVars
<1>14. ASSUME NEW s \in Rows, PublishAccepted(s) PROVE StatusInv'
  <2>1. /\ UNCHANGED <<status, chainVars, round, candidates, publishing, payVars>>
        /\ revealAt' = "markPublished" /\ pub' \in publishing
    BY <1>14 DEF PublishAccepted, dbVars, commitVars
  <2> QED
    BY <2>1 DEF StatusInv, RevealedOnChain, IsLive, chainVars, payVars
<1>15. ASSUME NEW s \in Rows, PublishRefused(s) PROVE StatusInv'
  <2>1. /\ UNCHANGED <<status, chainVars, round, candidates, payVars>>
        /\ revealAt' \in {"idle", "publish"} /\ publishing' \subseteq publishing
    BY <1>15 DEF PublishRefused, PublishNext, dbVars, commitVars
  <2> QED
    BY <2>1 DEF StatusInv, RevealedOnChain, IsLive, chainVars, payVars
<1>16. CASE MarkPublished
  <2>1. /\ UNCHANGED <<chainVars, round, candidates, payVars>>
        /\ revealAt = "markPublished" /\ revealAt' \in {"idle", "publish"}
        /\ publishing' = publishing \ {pub}
        /\ UNCHANGED status \/ status' = [status EXCEPT ![pub] = "PUBLISHED"]
    BY <1>16 DEF MarkPublished, PublishNext, commitVars
  <2>2. pub \in Rows /\ status[pub] = "REVEALED"
    BY <2>1 DEF StatusInv, TypeOK
  <2>3. /\ \A t \in Rows : t # pub => status'[t] = status[t]
        /\ status'[pub] \in {"REVEALED", "PUBLISHED"}
    BY <2>1, <2>2 DEF TypeOK
  <2>4. /\ \A t \in Rows : round'[t] > 0 => status'[t] = "RECEIVED"
        /\ \A t \in publishing' : status'[t] = "REVEALED"
        /\ payAt' # "idle" => \A t \in batch' : status'[t] = "PUBLISHED"
    BY <2>1, <2>2, <2>3 DEF StatusInv, TypeOK, payVars
  <2>5. \A t, u \in Rows : RequestOf[t] = RequestOf[u] /\ IsLive(t)' /\ IsLive(u)' => t = u
    BY <2>2, <2>3 DEF StatusInv, IsLive
  <2>6. /\ \A p \in chainReveal' : status'[p[1]] \in PastCommit
        /\ \A p \in candidates' : status'[p[1]] = "COMMITTED"
    BY <2>1, <2>2, <2>3 DEF StatusInv, TypeOK, Pairs, chainVars
  <2>7. RevealedOnChain'
    BY <2>1, <2>2, <2>3 DEF StatusInv, RevealedOnChain, chainVars
  <2> QED
    BY <2>1, <2>4, <2>5, <2>6, <2>7 DEF StatusInv, chainVars, payVars
<1>17. CASE PayoutStart
  <2>1. /\ UNCHANGED <<status, chainVars, round, revealVars>> /\ payAt' = "send"
        /\ \A s \in batch' : status[s] = "PUBLISHED"
    BY <1>17 DEF PayoutStart, Payable, UnpaidPublished, dbVars, commitVars
  <2> QED
    BY <2>1 DEF StatusInv, RevealedOnChain, IsLive, chainVars, revealVars
<1>18. CASE PayoutSent
  <2>1. /\ UNCHANGED <<status, chainCommit, chainReveal, round, revealVars, batch>>
        /\ payAt = "send" /\ payAt' = "mark"
        /\ payouts' = [s \in Rows |-> payouts[s] + (IF s \in batch THEN 1 ELSE 0)]
    BY <1>18 DEF PayoutSent, Sent, dbVars, commitVars
  <2>2. \A s \in batch : payouts'[s] > 0
    BY <2>1 DEF TypeOK
  <2> QED
    BY <2>1, <2>2 DEF StatusInv, RevealedOnChain, IsLive, revealVars
<1>19. CASE PayoutFails \/ PayoutReplyLost \/ MarkPaid \/ MarkPaidFails
  <2>1. /\ UNCHANGED <<status, chainCommit, chainReveal, round, revealVars>>
        /\ payAt' = "idle"
    BY <1>19 DEF PayoutFails, PayoutReplyLost, MarkPaid, MarkPaidFails, dbVars, chainVars,
       commitVars
  <2> QED
    BY <2>1 DEF StatusInv, RevealedOnChain, IsLive, revealVars
<1> QED
    BY <1>1, <1>2, <1>3, <1>4, <1>5, <1>6, <1>7, <1>8, <1>9, <1>10, <1>11, <1>12, <1>13,
       <1>14, <1>15, <1>16, <1>17, <1>18, <1>19 DEF Next, Commit, Reveal, Payout

\* StatusInv holds in every reachable state.
LEMMA StatusInvariant == Spec => []StatusInv
<1>1. Init => StatusInv
    BY DEF Init, StatusInv, RevealedOnChain, IsLive
<1> QED
    BY <1>1, StatusStep, TypeCorrect, PTL DEF Spec

\* A row says REVEALED or PUBLISHED only if the chain accepted its reveal by
\* an address that had committed to it.
THEOREM RevealsAreReal == Spec => []RevealedOnChain
<1>1. StatusInv => RevealedOnChain
    BY DEF StatusInv
<1> QED
    BY <1>1, StatusInvariant, PTL

\* Two different answers to one request are never both revealed, although a
\* request may be answered again after its first answer FAILED.
THEOREM OneAnswerRevealed == Spec => []OneRowPerRequestRevealed
<1>1. TypeOK /\ StatusInv => OneRowPerRequestRevealed
  <2> SUFFICES ASSUME TypeOK, StatusInv, NEW p \in chainReveal, NEW q \in chainReveal,
                      RequestOf[p[1]] = RequestOf[q[1]]
               PROVE  p[1] = q[1]
    BY DEF OneRowPerRequestRevealed
  <2>1. p[1] \in Rows /\ q[1] \in Rows
    BY DEF TypeOK, Pairs
  <2>2. IsLive(p[1]) /\ IsLive(q[1])
    BY DEF StatusInv, PastCommit, IsLive
  <2> QED
    BY <2>1, <2>2 DEF StatusInv
<1> QED
    BY <1>1, StatusInvariant, TypeCorrect, PTL

-----------------------------------------------------------------------------
(* The bridge implements Submission                                        *)

\* Every step of the bridge is a step of Submission or leaves it alone.
LEMMA SubmissionStep ==
    TypeOK /\ StatusInv /\ [Next]_vars => [Abstract!Next]_(Abstract!subVars)
<1> SUFFICES ASSUME TypeOK, StatusInv, [Next]_vars
             PROVE  [Abstract!Next]_(Abstract!subVars)
    OBVIOUS
<1> USE ConstAssumption
<1>1. CASE UNCHANGED <<status, payouts, paid>>
    BY <1>1 DEF Abstract!subVars
<1>2. CASE \/ Crash \/ Startup \/ Serve
           \/ \E s \in Rows, a \in Addrs : CommitCall(s, a) \/ CommitStore(s, a)
           \/ \E s \in Rows : CommitRetries(s) \/ PublishAccepted(s) \/ PublishRefused(s)
           \/ \E p \in Pairs : WindowCloses(p) \/ RevealAccepted(p) \/ RevealRefused(p)
           \/ \E q \in Requests : Withhold(q)
           \/ RevealStart \/ MarkAttemptRevealed \/ PublishStart
           \/ PayoutStart \/ PayoutFails \/ MarkPaidFails
           \/ UNCHANGED vars
    BY <1>1, <1>2 DEF Crash, Startup, Serve, CommitCall, CommitStore, CommitRetries,
       PublishAccepted, PublishRefused, WindowCloses, RevealAccepted, RevealRefused,
       Withhold, RevealStart, MarkAttemptRevealed, PublishStart, PayoutStart, PayoutFails,
       MarkPaidFails, vars, dbVars, chainVars
<1>3. ASSUME NEW s \in Rows, NEW spawned \in BOOLEAN, Receive(s, spawned)
      PROVE  Abstract!Next
  <2>1. Abstract!Record(s)
    BY <1>3 DEF Receive, IsLive, Abstract!Record, Abstract!IsLive, chainVars
  <2> QED
    BY <2>1 DEF Abstract!Next
<1>4. ASSUME NEW s \in Rows, NEW m \in Abstract!Moves, status[s] = m[1],
             status' = [status EXCEPT ![s] = m[2]], UNCHANGED <<payouts, paid>>
      PROVE  Abstract!Next
  <2>1. Abstract!Advance(s)
    BY <1>4 DEF Abstract!Advance
  <2> QED
    BY <2>1 DEF Abstract!Next
<1>5. ASSUME NEW s \in Rows, CommitSucceeds(s) \/ CommitGivesUp(s)
      PROVE  [Abstract!Next]_(Abstract!subVars)
  <2>1. /\ status[s] = "RECEIVED" /\ UNCHANGED <<payouts, paid>>
        /\ \/ UNCHANGED status
           \/ status' = [status EXCEPT ![s] = "COMMITTED"]
           \/ status' = [status EXCEPT ![s] = "FAILED"]
    BY <1>5 DEF CommitSucceeds, CommitGivesUp, Stored, StatusInv, chainVars
  <2>2. /\ <<"RECEIVED", "COMMITTED">> \in Abstract!Moves
        /\ <<"RECEIVED", "FAILED">> \in Abstract!Moves
    BY DEF Abstract!Moves
  <2> QED
    BY <1>1, <1>4, <2>1, <2>2
<1>6. CASE MarkRevealed
  <2>1. /\ cur[1] \in Rows /\ status[cur[1]] = "COMMITTED" /\ UNCHANGED <<payouts, paid>>
        /\ UNCHANGED status \/ status' = [status EXCEPT ![cur[1]] = "REVEALED"]
    BY <1>6 DEF MarkRevealed, StatusInv, TypeOK, Pairs, chainVars
  <2>2. <<"COMMITTED", "REVEALED">> \in Abstract!Moves
    BY DEF Abstract!Moves
  <2> QED
    BY <1>1, <1>4, <2>1, <2>2
<1>7. CASE MarkPublished
  <2>1. /\ pub \in Rows /\ status[pub] = "REVEALED" /\ UNCHANGED <<payouts, paid>>
        /\ UNCHANGED status \/ status' = [status EXCEPT ![pub] = "PUBLISHED"]
    BY <1>7 DEF MarkPublished, StatusInv, TypeOK, chainVars
  <2>2. <<"REVEALED", "PUBLISHED">> \in Abstract!Moves
    BY DEF Abstract!Moves
  <2> QED
    BY <1>1, <1>4, <2>1, <2>2
<1>8. CASE PayoutSent \/ PayoutReplyLost
  <2>1. /\ payAt = "send" /\ UNCHANGED <<status, paid>>
        /\ payouts' = [s \in Rows |-> payouts[s] + (IF s \in batch THEN 1 ELSE 0)]
    BY <1>8 DEF PayoutSent, PayoutReplyLost, Sent, dbVars
  <2>2. batch \in SUBSET Rows /\ \A s \in batch : status[s] = "PUBLISHED"
    BY <2>1 DEF TypeOK, StatusInv
  <2>3. {s \in Rows : payouts'[s] > 0} = {s \in Rows : payouts[s] > 0} \cup batch
    BY <2>1, <2>2 DEF TypeOK
  <2>4. PICK b \in SUBSET Rows : b = batch
    BY <2>2
  <2>5. Abstract!Pay(b)
    BY <2>1, <2>2, <2>3, <2>4 DEF Abstract!Pay
  <2> QED
    BY <2>5 DEF Abstract!Next
<1>9. CASE MarkPaid
  <2> DEFINE marked == {s \in Rows : status[s] # "none" /\
                                     RequestOf[s] \in {RequestOf[t] : t \in batch}}
  <2>1. /\ payAt = "mark" /\ UNCHANGED <<status, payouts>>
        /\ paid' = [s \in Rows |-> paid[s] \/ s \in marked]
    BY <1>9 DEF MarkPaid, chainVars
  <2>2. \A s \in marked : status[s] = "FAILED" \/ (status[s] = "PUBLISHED" /\ payouts[s] > 0)
    <3> SUFFICES ASSUME NEW s \in marked, status[s] # "FAILED"
                 PROVE  status[s] = "PUBLISHED" /\ payouts[s] > 0
      OBVIOUS
    <3>1. PICK t \in batch : RequestOf[s] = RequestOf[t]
      OBVIOUS
    <3>2. t \in Rows /\ status[t] = "PUBLISHED" /\ payouts[t] > 0
      BY <2>1 DEF StatusInv, TypeOK
    <3>3. s = t
      BY <3>1, <3>2 DEF StatusInv, IsLive
    <3> QED
      BY <3>2, <3>3
  <2>3. {s \in Rows : paid'[s]} = {s \in Rows : paid[s]} \cup marked
    BY <2>1
  <2>4. PICK b \in SUBSET Rows : b = marked
    OBVIOUS
  <2>5. Abstract!Settle(b)
    BY <2>1, <2>2, <2>3, <2>4 DEF Abstract!Settle
  <2> QED
    BY <2>5 DEF Abstract!Next
<1> QED
    BY <1>2, <1>3, <1>5, <1>6, <1>7, <1>8, <1>9 DEF Next, Commit, Reveal, Payout

\* The database rows the bridge writes go through the life cycle Submission
\* describes: no status moves backwards, no request has two live rows, and no
\* live row is settled before a payout covered it.
THEOREM ImplementsSubmission == Spec => RefinesSubmission
<1>1. Init => Abstract!Init
    BY DEF Init, Abstract!Init
<1> QED
    BY <1>1, SubmissionStep, StatusInvariant, TypeCorrect, PTL
    DEF Spec, RefinesSubmission, Abstract!Spec

-----------------------------------------------------------------------------
(* A row that is never offered again was revealed                          *)

\* A round that is won has a stored COMMITTED attempt, which nothing overwrites
\* before the row is COMMITTED; from then on only the reveal's bookkeeping does.
StrandInv ==
    /\ \A s \in Rows : status[s] = "COMMITTED" /\ ~Offered(s) =>
            \E a \in Addrs : <<s, a>> \in chainReveal
    /\ \A s \in Rows : won[s] =>
            /\ round[s] > 0
            /\ \E a \in Addrs : outcome[<<s, a>>] = "stored" /\ attempt[<<s, a>>] = "COMMITTED"
    /\ proc = "down" => \A s \in Rows : round[s] = 0

\* While no database write fails, every step keeps StrandInv.
LEMMA StrandStep ==
    ASSUME ~DbFails, TypeOK, StatusInv, StrandInv, [Next]_vars PROVE StrandInv'
<1>1. \A s \in Rows : won[s] => status[s] = "RECEIVED"
    BY DEF StrandInv, StatusInv
<1>2. \A s \in Rows, a \in Addrs : <<s, a>> \in Pairs
    BY DEF Pairs
<1> DEFINE Quiet == UNCHANGED <<status, attempt, won, round, outcome, proc>>
                    /\ chainReveal \subseteq chainReveal'
<1>3. Quiet => StrandInv'
    BY DEF StrandInv, Offered
<1>4. CASE Crash
    BY <1>4 DEF Crash, dbVars, chainVars, StrandInv, Offered
<1>5. CASE Startup
    BY <1>5 DEF Startup, dbVars, chainVars, StrandInv, Offered
<1>6. CASE Serve
    BY <1>6 DEF Serve, dbVars, chainVars, commitVars, StrandInv, Offered
<1>7. ASSUME NEW s \in Rows, NEW spawned \in BOOLEAN, Receive(s, spawned) PROVE StrandInv'
  <2>1. /\ UNCHANGED <<attempt, chainReveal, won, proc>> /\ status[s] = "none" /\ ~won[s]
        /\ proc = "running"
        /\ \A t \in Rows : t # s => status'[t] = status[t] /\ round'[t] = round[t]
                                    /\ \A a \in Addrs : outcome'[<<t, a>>] = outcome[<<t, a>>]
        /\ status'[s] = "RECEIVED"
    BY <1>1, <1>2, <1>7 DEF Receive, chainVars, TypeOK
  <2> QED
    BY <2>1 DEF StrandInv, Offered
<1>8. ASSUME NEW s \in Rows, NEW a \in Addrs, CommitCall(s, a) PROVE StrandInv'
  <2>1. UNCHANGED <<status, attempt, chainReveal, won, round, proc>>
    BY <1>8 DEF CommitCall, dbVars
  <2>2. \A t \in Rows, b \in Addrs : outcome[<<t, b>>] = "stored" => outcome'[<<t, b>>] = "stored"
    BY <1>2, <1>8 DEF CommitCall, TypeOK
  <2> QED
    BY <2>1, <2>2 DEF StrandInv, Offered
<1>9. ASSUME NEW s \in Rows, NEW a \in Addrs, CommitStore(s, a) PROVE StrandInv'
  <2>1. /\ UNCHANGED <<status, chainReveal, proc, round>> /\ round[s] > 0
        /\ outcome[<<s, a>>] \in {"ok", "err"}
        /\ won' = [won EXCEPT ![s] = @ \/ outcome[<<s, a>>] = "ok"]
        /\ outcome' = [outcome EXCEPT ![<<s, a>>] = "stored"]
        /\ attempt' = [attempt EXCEPT ![<<s, a>>] =
                            IF outcome[<<s, a>>] = "ok" THEN "COMMITTED" ELSE "FAILED"]
    BY <1>9 DEF CommitStore, DbCall, chainVars
  <2>2. status[s] = "RECEIVED"
    BY <2>1 DEF StatusInv
  <2>3. /\ outcome'[<<s, a>>] = "stored"
        /\ attempt'[<<s, a>>] = IF outcome[<<s, a>>] = "ok" THEN "COMMITTED" ELSE "FAILED"
        /\ \A p \in Pairs : p # <<s, a>> => outcome'[p] = outcome[p] /\ attempt'[p] = attempt[p]
    BY <1>2, <2>1 DEF TypeOK
  <2>4. \A t \in Rows, b \in Addrs : outcome[<<t, b>>] = "stored" => <<t, b>> # <<s, a>>
    BY <2>1
  <2>5. \A t \in Rows : t # s => won'[t] = won[t]
    BY <2>1 DEF TypeOK
  <2>6. won'[s] => won[s] \/ outcome[<<s, a>>] = "ok"
    BY <2>1 DEF TypeOK
  <2>7. ASSUME NEW t \in Rows, won'[t]
        PROVE  /\ round[t] > 0
               /\ \E b \in Addrs : outcome'[<<t, b>>] = "stored" /\ attempt'[<<t, b>>] = "COMMITTED"
    <3>1. CASE won[t]
      <4>1. PICK b \in Addrs : outcome[<<t, b>>] = "stored" /\ attempt[<<t, b>>] = "COMMITTED"
        BY <3>1 DEF StrandInv
      <4>2. outcome'[<<t, b>>] = "stored" /\ attempt'[<<t, b>>] = "COMMITTED"
        BY <1>2, <2>3, <2>4, <4>1
      <4> QED
        BY <3>1, <4>2 DEF StrandInv
    <3>2. CASE ~won[t]
      BY <2>1, <2>3, <2>5, <2>6, <2>7, <3>2
    <3> QED
      BY <3>1, <3>2
  <2>8. ASSUME NEW t \in Rows, status'[t] = "COMMITTED", ~Offered(t)'
        PROVE  \E b \in Addrs : <<t, b>> \in chainReveal'
    <3>1. t # s /\ status[t] = "COMMITTED"
      BY <2>1, <2>2, <2>8
    <3>2. \A b \in Addrs : attempt'[<<t, b>>] = attempt[<<t, b>>]
      BY <1>2, <2>3, <3>1
    <3> QED
      BY <2>1, <2>8, <3>1, <3>2 DEF StrandInv, Offered
  <2> QED
    BY <2>1, <2>7, <2>8 DEF StrandInv
<1>10. ASSUME NEW s \in Rows, CommitSucceeds(s) PROVE StrandInv'
  <2>1. /\ UNCHANGED <<attempt, chainReveal, proc, outcome>> /\ round[s] > 0 /\ won[s]
        /\ status' = [status EXCEPT ![s] = "COMMITTED"]
        /\ round' = [round EXCEPT ![s] = 0] /\ won' = [won EXCEPT ![s] = FALSE]
    BY <1>10 DEF CommitSucceeds, Stored, DbCall, chainVars
  <2>2. /\ \A t \in Rows : t # s => status'[t] = status[t] /\ round'[t] = round[t]
                                    /\ won'[t] = won[t]
        /\ ~won'[s]
    BY <2>1 DEF TypeOK
  <2>3. Offered(s)'
    BY <2>1 DEF StrandInv, Offered
  <2>4. proc # "down"
    BY <2>1 DEF StrandInv
  <2> QED
    BY <2>1, <2>2, <2>3, <2>4 DEF StrandInv, Offered
<1>11. ASSUME NEW s \in Rows, CommitRetries(s) PROVE StrandInv'
  <2>1. /\ UNCHANGED <<status, attempt, chainReveal, proc, won>> /\ round[s] > 0 /\ ~won[s]
        /\ round' = [round EXCEPT ![s] = @ + 1]
        /\ outcome' = [p \in Pairs |-> IF p[1] = s THEN "todo" ELSE outcome[p]]
    BY <1>11 DEF CommitRetries, Stored, dbVars, chainVars
  <2>2. \A t \in Rows : t # s => round'[t] = round[t]
                                 /\ \A a \in Addrs : outcome'[<<t, a>>] = outcome[<<t, a>>]
    BY <1>2, <2>1 DEF TypeOK
  <2>3. proc # "down"
    BY <2>1 DEF StrandInv
  <2> QED
    BY <2>1, <2>2, <2>3 DEF StrandInv, Offered
<1>12. ASSUME NEW s \in Rows, CommitGivesUp(s) PROVE StrandInv'
  <2>1. /\ UNCHANGED <<attempt, chainReveal, proc, outcome, won>> /\ round[s] > 0 /\ ~won[s]
        /\ status' = [status EXCEPT ![s] = "FAILED"]
        /\ round' = [round EXCEPT ![s] = 0]
    BY <1>12 DEF CommitGivesUp, Stored, DbCall, chainVars
  <2>2. /\ \A t \in Rows : t # s => status'[t] = status[t] /\ round'[t] = round[t]
        /\ status'[s] = "FAILED"
    BY <2>1 DEF TypeOK
  <2>3. proc # "down"
    BY <2>1 DEF StrandInv
  <2> QED
    BY <2>1, <2>2, <2>3 DEF StrandInv, Offered
<1>13. CASE MarkAttemptRevealed
  <2>1. /\ UNCHANGED <<status, chainReveal, proc, outcome, won, round>>
        /\ attempt' = [attempt EXCEPT ![cur] = "REVEALED"]
    BY <1>13 DEF MarkAttemptRevealed, DbCall, chainVars, commitVars
  <2>2. cur \in Pairs /\ cur \in chainReveal /\ status[cur[1]] = "COMMITTED"
    BY <1>13 DEF MarkAttemptRevealed, TypeOK, StatusInv
  <2>3. PICK s \in Rows, a \in Addrs : cur = <<s, a>>
    BY <2>2 DEF Pairs
  <2>4. status[s] = "COMMITTED" /\ ~won[s]
    BY <1>1, <2>2, <2>3
  <2>5. \A t \in Rows : t # s => \A b \in Addrs : attempt'[<<t, b>>] = attempt[<<t, b>>]
    BY <1>2, <2>1, <2>3 DEF TypeOK
  <2>6. <<s, a>> \in chainReveal'
    BY <2>1, <2>2, <2>3
  <2> QED
    BY <2>1, <2>4, <2>5, <2>6 DEF StrandInv, Offered
<1>14. CASE MarkRevealed
  <2>1. /\ UNCHANGED <<attempt, chainReveal, proc, outcome, won, round>>
        /\ status' = [status EXCEPT ![cur[1]] = "REVEALED"]
    BY <1>14 DEF MarkRevealed, DbCall, chainVars, commitVars
  <2>2. \A t \in Rows : status'[t] = "COMMITTED" => status[t] = "COMMITTED"
    BY <2>1 DEF TypeOK
  <2> QED
    BY <2>1, <2>2 DEF StrandInv, Offered
<1>15. CASE MarkPublished
  <2>1. /\ UNCHANGED <<attempt, chainReveal, proc, outcome, won, round>>
        /\ status' = [status EXCEPT ![pub] = "PUBLISHED"]
    BY <1>15 DEF MarkPublished, DbCall, chainVars, commitVars
  <2>2. \A t \in Rows : status'[t] = "COMMITTED" => status[t] = "COMMITTED"
    BY <2>1 DEF TypeOK
  <2> QED
    BY <2>1, <2>2 DEF StrandInv, Offered
<1>16. CASE \/ \E p \in Pairs : WindowCloses(p) \/ RevealAccepted(p) \/ RevealRefused(p)
            \/ \E q \in Requests : Withhold(q)
            \/ RevealStart \/ PublishStart
            \/ \E s \in Rows : PublishAccepted(s) \/ PublishRefused(s)
            \/ Payout \/ UNCHANGED vars
  <2>1. Quiet
    BY <1>16 DEF WindowCloses, RevealAccepted, RevealRefused, Withhold, RevealStart,
       PublishStart, PublishAccepted, PublishRefused, Payout, PayoutStart, PayoutSent,
       PayoutFails, PayoutReplyLost, MarkPaid, MarkPaidFails, vars, dbVars, chainVars,
       commitVars
  <2> QED
    BY <1>3, <2>1
<1> QED
    BY <1>4, <1>5, <1>6, <1>7, <1>8, <1>9, <1>10, <1>11, <1>12, <1>13, <1>14, <1>15, <1>16
       DEF Next, Commit, Reveal

\* While no database write fails, a COMMITTED row that list_reveal_ready_candidates
\* will never return has been revealed on the chain, whatever crashes come between
\* do_commit's and the reveal's writes.
THEOREM StrandedIsOnChain == Spec => []StrandedWasRevealed
<1>1. CASE DbFails
  <2>1. StrandedWasRevealed
    BY <1>1 DEF StrandedWasRevealed
  <2> QED
    BY <2>1, PTL
<1>2. CASE ~DbFails
  <2>1. Init => StrandInv
    BY DEF Init, StrandInv
  <2>2. StrandInv => StrandedWasRevealed
    BY DEF StrandInv, StrandedWasRevealed
  <2>3. TypeOK /\ StatusInv /\ StrandInv /\ [Next]_vars => StrandInv'
    BY <1>2, StrandStep
  <2> QED
    BY <2>1, <2>2, <2>3, TypeCorrect, StatusInvariant, PTL DEF Spec
<1> QED
    BY <1>1, <1>2
=============================================================================
