----------------------------- MODULE Lifecycle -----------------------------
(***************************************************************************)
(* A recorded answer on its way to the chain and to the miner's wallet:    *)
(* do_commit, poll_reveal_tick, do_publish and recover_on_startup of       *)
(* opoi/engine.rs, payout/mod.rs, and the queries of db/repo.rs they use.  *)
(*                                                                         *)
(* Concurrent activities: one do_commit task per row, the reveal/publish   *)
(* loop and the payout loop (each one tick at a time).  All of them die in *)
(* a crash; the database and the chain stay.  A call to csd may fail, or   *)
(* fail although it took effect (the HTTP client gives up after 10 s); a   *)
(* database write may fail where the code only logs that it did.           *)
(***************************************************************************)
EXTENDS Naturals, FiniteSetsExt

CONSTANTS
    Rows,          \* ids of opoi_submissions rows
    Requests, Wallets,
    RequestOf,     \* request_id of a row
    WalletOf,      \* miner_wallet of a row
    Addrs,         \* the stake pool's addresses
    None,          \* no row
    MaxRounds,     \* MAX_ROUNDS of do_commit
    Due,           \* reward of an answer
    MinPayout,     \* min_payout_cs
    DbFails,       \* may a database call fail?
    MaxCrashes,    \* bound on crashes
    MaxPayFaults   \* bound on payouts sent but not recorded without a crash

ASSUME ConstAssumption ==
    /\ None \notin Rows
    /\ RequestOf \in [Rows -> Requests]
    /\ WalletOf \in [Rows -> Wallets]
    /\ MaxRounds \in Nat \ {0}
    /\ Due \in Nat /\ MinPayout \in Nat
    /\ DbFails \in BOOLEAN
    /\ MaxCrashes \in Nat /\ MaxPayFaults \in Nat

VARIABLES
    \* opoi_submissions: status, paid, reward_amount
    status, paid, reward,
    \* opoi_commit_attempts: status, and the attempts whose window has closed
    attempt, closed,
    \* b3lite_consequences: requests under WITHHOLD_PAY
    withheld,
    \* the chain: commits and reveals accepted, payouts that covered a row
    chainCommit, chainReveal, payouts,
    \* the process, and per row the do_commit task: its round (0: no task),
    \* the outcome per address, and whether one address succeeded
    proc, round, outcome, won,
    \* poll_reveal_tick: step, candidates left, the one being marked,
    \* revealed rows left to publish, the one being marked
    revealAt, candidates, cur, publishing, pub,
    \* payout run: step and rows of the batch
    payAt, batch,
    \* history: crashes, and payouts sent but not recorded
    crashes, payFaults

dbVars     == <<status, paid, reward, attempt, closed, withheld>>
chainVars  == <<chainCommit, chainReveal, payouts>>
commitVars == <<round, outcome, won>>
revealVars == <<revealAt, candidates, cur, publishing, pub>>
payVars    == <<payAt, batch>>
histVars   == <<crashes, payFaults>>
vars == <<dbVars, chainVars, proc, commitVars, revealVars, payVars, histVars>>

Statuses == {"none", "RECEIVED", "COMMITTED", "REVEALED", "PUBLISHED", "FAILED"}
Outcomes == {"todo", "ok", "err", "stored"}
Pairs    == Rows \X Addrs

\* The value of every variable, and which locals are set at which step.
TypeOK ==
    /\ status \in [Rows -> Statuses]
    /\ paid \in [Rows -> BOOLEAN]
    /\ reward \in [Rows -> Nat]
    /\ attempt \in [Pairs -> {"none", "COMMITTED", "REVEALED", "FAILED"}]
    /\ closed \subseteq Pairs
    /\ withheld \subseteq Requests
    /\ chainCommit \subseteq Pairs /\ chainReveal \subseteq Pairs
    /\ payouts \in [Rows -> Nat]
    /\ proc \in {"down", "recovering", "running"}
    /\ round \in [Rows -> 0 .. MaxRounds]
    /\ outcome \in [Pairs -> Outcomes]
    /\ won \in [Rows -> BOOLEAN]
    /\ revealAt \in {"idle", "reveal", "markAttempt", "markRevealed",
                     "publish", "markPublished"}
    /\ candidates \subseteq Pairs
    /\ cur \in Pairs \cup {None}
    /\ revealAt \in {"markAttempt", "markRevealed"} => cur \in Pairs
    /\ publishing \subseteq Rows
    /\ pub \in Rows \cup {None}
    /\ revealAt = "markPublished" => pub \in Rows
    /\ payAt \in {"idle", "send", "mark"}
    /\ batch \subseteq Rows
    /\ crashes \in Nat /\ payFaults \in Nat

Init ==
    /\ status = [s \in Rows |-> "none"]
    /\ paid = [s \in Rows |-> FALSE]
    /\ reward = [s \in Rows |-> 0]
    /\ attempt = [p \in Pairs |-> "none"]
    /\ closed = {} /\ withheld = {}
    /\ chainCommit = {} /\ chainReveal = {}
    /\ payouts = [s \in Rows |-> 0]
    /\ proc = "down"
    /\ round = [s \in Rows |-> 0]
    /\ outcome = [p \in Pairs |-> "stored"]
    /\ won = [s \in Rows |-> FALSE]
    /\ revealAt = "idle" /\ candidates = {} /\ cur = None
    /\ publishing = {} /\ pub = None
    /\ payAt = "idle" /\ batch = {}
    /\ crashes = 0 /\ payFaults = 0

\* The rows the partial unique index covers.
IsLive(s) == status[s] \notin {"none", "FAILED"}

\* A database call either succeeds or, where failures are allowed, does not.
DbCall(ok) == ok \/ DbFails

-----------------------------------------------------------------------------
(* The process                                                             *)

\* Everything in memory is gone.  A payout that was sent and not yet marked
\* will be sent again.
Crash ==
    /\ proc # "down" /\ crashes < MaxCrashes
    /\ proc' = "down"
    /\ round' = [s \in Rows |-> 0]
    /\ outcome' = [p \in Pairs |-> "stored"]
    /\ won' = [s \in Rows |-> FALSE]
    /\ revealAt' = "idle" /\ candidates' = {} /\ cur' = None
    /\ publishing' = {} /\ pub' = None
    /\ payAt' = "idle" /\ batch' = {}
    /\ crashes' = crashes + 1
    /\ payFaults' = payFaults + (IF payAt = "mark" THEN 1 ELSE 0)
    /\ UNCHANGED <<dbVars, chainVars>>

\* Mutant of Startup: the loops start without recovery.
StartupNoRecovery ==
    /\ proc = "down"
    /\ proc' = "recovering"
    /\ UNCHANGED <<dbVars, chainVars, commitVars, revealVars, payVars, histVars>>

\* Mutant of Startup: rows that are committed already are re-driven as well.
StartupRedrivesCommitted ==
    /\ proc = "down"
    /\ proc' = "recovering"
    /\ LET redriven(s) == status[s] \in {"RECEIVED", "COMMITTED"}
       IN  /\ round' = [s \in Rows |-> IF redriven(s) THEN 1 ELSE 0]
           /\ outcome' = [p \in Pairs |-> IF redriven(p[1]) THEN "todo" ELSE "stored"]
    /\ UNCHANGED <<dbVars, chainVars, won, revealVars, payVars, histVars>>

\* recover_on_startup: do_commit is run again for every RECEIVED row.
Startup ==
    /\ proc = "down"
    /\ proc' = "recovering"
    /\ round' = [s \in Rows |-> IF status[s] = "RECEIVED" THEN 1 ELSE 0]
    /\ outcome' = [p \in Pairs |-> IF status[p[1]] = "RECEIVED" THEN "todo" ELSE "stored"]
    /\ UNCHANGED <<dbVars, chainVars, won, revealVars, payVars, histVars>>

\* Recovery is awaited before the loops and the listener start.
Serve ==
    /\ proc = "recovering" /\ \A s \in Rows : round[s] = 0
    /\ proc' = "running"
    /\ UNCHANGED <<dbVars, chainVars, commitVars, revealVars, payVars, histVars>>

\* handle_submit_result: create_submission, then do_commit is spawned, unless
\* the session is dropped (or the reply to the INSERT lost) in between.
Receive(s, spawned) ==
    /\ proc = "running" /\ status[s] = "none"
    /\ \A t \in Rows : RequestOf[t] = RequestOf[s] => ~IsLive(t)
    /\ status' = [status EXCEPT ![s] = "RECEIVED"]
    /\ IF spawned
       THEN /\ round' = [round EXCEPT ![s] = 1]
            /\ outcome' = [p \in Pairs |-> IF p[1] = s THEN "todo" ELSE outcome[p]]
       ELSE UNCHANGED <<round, outcome>>
    /\ UNCHANGED <<paid, reward, attempt, closed, withheld, chainVars, proc, won,
                   revealVars, payVars, histVars>>

-----------------------------------------------------------------------------
(* do_commit                                                               *)

Calling(s) == round[s] > 0 /\ \E a \in Addrs : outcome[<<s, a>>] = "todo"
Stored(s)  == round[s] > 0 /\ \A a \in Addrs : outcome[<<s, a>>] = "stored"

\* submit_response_commit by one address; every address is tried.
CommitCall(s, a) ==
    /\ round[s] > 0 /\ outcome[<<s, a>>] = "todo"
    /\ \/ /\ outcome' = [outcome EXCEPT ![<<s, a>>] = "ok"]
          /\ chainCommit' = chainCommit \cup {<<s, a>>}
       \/ /\ outcome' = [outcome EXCEPT ![<<s, a>>] = "err"]
          /\ chainCommit' \in {chainCommit, chainCommit \cup {<<s, a>>}}
    /\ UNCHANGED <<dbVars, chainReveal, payouts, proc, round, won,
                   revealVars, payVars, histVars>>

\* upsert_commit_attempt_success / _failure, once every address has answered.
\* A failed write is only logged: the success counts all the same.
CommitStore(s, a) ==
    /\ round[s] > 0 /\ ~Calling(s) /\ outcome[<<s, a>>] \in {"ok", "err"}
    /\ \E ok \in BOOLEAN :
        /\ DbCall(ok)
        /\ LET new == IF outcome[<<s, a>>] = "ok" THEN "COMMITTED" ELSE "FAILED"
           IN  /\ attempt' = IF ok THEN [attempt EXCEPT ![<<s, a>>] = new] ELSE attempt
               /\ closed' = IF ok /\ new = "COMMITTED" THEN closed \ {<<s, a>>} ELSE closed
    /\ won' = [won EXCEPT ![s] = @ \/ outcome[<<s, a>>] = "ok"]
    /\ outcome' = [outcome EXCEPT ![<<s, a>>] = "stored"]
    /\ UNCHANGED <<status, paid, reward, withheld, chainVars, proc, round,
                   revealVars, payVars, histVars>>

\* One address committed: mark_committed, and the task is over.
CommitSucceeds(s) ==
    /\ Stored(s) /\ won[s]
    /\ \E ok \in BOOLEAN :
        /\ DbCall(ok)
        /\ status' = IF ok THEN [status EXCEPT ![s] = "COMMITTED"] ELSE status
    /\ round' = [round EXCEPT ![s] = 0]
    /\ won' = [won EXCEPT ![s] = FALSE]
    /\ UNCHANGED <<paid, reward, attempt, closed, withheld, chainVars, proc,
                   outcome, revealVars, payVars, histVars>>

\* Mutant of CommitRetries: one round too many.
CommitRetriesPastLimit(s) ==
    /\ Stored(s) /\ ~won[s] /\ round[s] <= MaxRounds
    /\ round' = [round EXCEPT ![s] = @ + 1]
    /\ outcome' = [p \in Pairs |-> IF p[1] = s THEN "todo" ELSE outcome[p]]
    /\ UNCHANGED <<dbVars, chainVars, proc, won, revealVars, payVars, histVars>>

\* None did: suspended stakes are renewed, and after a pause all are tried again.
CommitRetries(s) ==
    /\ Stored(s) /\ ~won[s] /\ round[s] < MaxRounds
    /\ round' = [round EXCEPT ![s] = @ + 1]
    /\ outcome' = [p \in Pairs |-> IF p[1] = s THEN "todo" ELSE outcome[p]]
    /\ UNCHANGED <<dbVars, chainVars, proc, won, revealVars, payVars, histVars>>

\* None did in the last round: mark_failed.
CommitGivesUp(s) ==
    /\ Stored(s) /\ ~won[s] /\ round[s] = MaxRounds
    /\ \E ok \in BOOLEAN :
        /\ DbCall(ok)
        /\ status' = IF ok THEN [status EXCEPT ![s] = "FAILED"] ELSE status
    /\ round' = [round EXCEPT ![s] = 0]
    /\ UNCHANGED <<paid, reward, attempt, closed, withheld, chainVars, proc,
                   outcome, won, revealVars, payVars, histVars>>

-----------------------------------------------------------------------------
(* poll_reveal_tick                                                        *)

\* The chain passes the height at which an attempt's commit window closes.
WindowCloses(p) ==
    /\ attempt[p] = "COMMITTED" /\ p \notin closed
    /\ closed' = closed \cup {p}
    /\ UNCHANGED <<status, paid, reward, attempt, withheld, chainVars, proc,
                   commitVars, revealVars, payVars, histVars>>

\* Mutants of RevealReady: the join on the row's status is dropped, or the
\* heights are compared the wrong way round.
RevealReadyAnyStatus == {p \in Pairs : attempt[p] = "COMMITTED" /\ p \in closed}

RevealReadyWhileOpen == {p \in Pairs : attempt[p] = "COMMITTED" /\ p \notin closed
                                       /\ status[p[1]] = "COMMITTED"}

\* list_reveal_ready_candidates.
RevealReady == {p \in Pairs : attempt[p] = "COMMITTED" /\ p \in closed
                              /\ status[p[1]] = "COMMITTED"}

RevealStart ==
    /\ proc = "running" /\ revealAt = "idle"
    /\ revealAt' = "reveal"
    /\ candidates' = RevealReady
    /\ UNCHANGED <<dbVars, chainVars, proc, commitVars, cur, publishing, pub,
                   payVars, histVars>>

\* submit_response_reveal with one candidate, accepted.  The rows of a tick
\* are independent, so their candidates may be taken in any order.
RevealAccepted(p) ==
    /\ revealAt = "reveal" /\ p \in candidates
    /\ p \in chainCommit
    /\ chainReveal' = chainReveal \cup {p}
    /\ cur' = p /\ revealAt' = "markAttempt"
    /\ UNCHANGED <<dbVars, chainCommit, payouts, proc, commitVars, candidates,
                   publishing, pub, payVars, histVars>>

\* Mutant of RevealRefused: the error arm falls through to the bookkeeping.
RevealRefusedFallsThrough(p) ==
    /\ revealAt = "reveal" /\ p \in candidates
    /\ cur' = p /\ revealAt' = "markAttempt"
    /\ UNCHANGED <<dbVars, chainVars, proc, commitVars, candidates,
                   publishing, pub, payVars, histVars>>

\* Mutant of RevealRefused: a refused attempt is given up.
RevealRefusedForGood(p) ==
    /\ revealAt = "reveal" /\ p \in candidates
    /\ chainReveal' \in {chainReveal, chainReveal \cup ({p} \cap chainCommit)}
    /\ candidates' = candidates \ {p}
    /\ attempt' = [attempt EXCEPT ![p] = "FAILED"]
    /\ UNCHANGED <<status, paid, reward, closed, withheld, chainCommit, payouts, proc,
                   commitVars, revealAt, cur, publishing, pub, payVars, histVars>>

\* Not eligible, or failed (perhaps after taking effect): try the next one.
RevealRefused(p) ==
    /\ revealAt = "reveal" /\ p \in candidates
    /\ chainReveal' \in {chainReveal, chainReveal \cup ({p} \cap chainCommit)}
    /\ candidates' = candidates \ {p}
    /\ UNCHANGED <<dbVars, chainCommit, payouts, proc, commitVars, revealAt, cur,
                   publishing, pub, payVars, histVars>>

\* mark_attempt_revealed; an error is logged.
MarkAttemptRevealed ==
    /\ revealAt = "markAttempt"
    /\ \E ok \in BOOLEAN :
        /\ DbCall(ok)
        /\ attempt' = IF ok THEN [attempt EXCEPT ![cur] = "REVEALED"] ELSE attempt
    /\ revealAt' = "markRevealed"
    /\ UNCHANGED <<status, paid, reward, closed, withheld, chainVars, proc,
                   commitVars, candidates, cur, publishing, pub, payVars, histVars>>

\* mark_revealed; the row's other candidates are left alone.
MarkRevealed ==
    /\ revealAt = "markRevealed"
    /\ \E ok \in BOOLEAN :
        /\ DbCall(ok)
        /\ status' = IF ok THEN [status EXCEPT ![cur[1]] = "REVEALED"] ELSE status
    /\ candidates' = {p \in candidates : p[1] # cur[1]}
    /\ revealAt' = "reveal" /\ cur' = None
    /\ UNCHANGED <<paid, reward, attempt, closed, withheld, chainVars, proc,
                   commitVars, publishing, pub, payVars, histVars>>

\* Mutant of PublishStart: the tick ends with the reveals.
PublishStartSkipped ==
    /\ revealAt = "reveal" /\ candidates = {}
    /\ publishing' = {} /\ revealAt' = "idle"
    /\ UNCHANGED <<dbVars, chainVars, proc, commitVars, candidates, cur,
                   pub, payVars, histVars>>

\* list_revealed_unpublished; if it fails the tick is over.
PublishStart ==
    /\ revealAt = "reveal" /\ candidates = {}
    /\ \E ok \in BOOLEAN :
        /\ DbCall(ok)
        /\ publishing' = {s \in Rows : ok /\ status[s] = "REVEALED"}
    /\ revealAt' = IF publishing' = {} THEN "idle" ELSE "publish"
    /\ UNCHANGED <<dbVars, chainVars, proc, commitVars, candidates, cur,
                   pub, payVars, histVars>>

\* do_publish: submit_content accepted; the reward is then looked up.
PublishAccepted(s) ==
    /\ revealAt = "publish" /\ s \in publishing
    /\ pub' = s /\ revealAt' = "markPublished"
    /\ UNCHANGED <<dbVars, chainVars, proc, commitVars, candidates, cur, publishing,
                   payVars, histVars>>

\* The row is done with; after the last one the tick is over.
PublishNext(s) ==
    /\ publishing' = publishing \ {s}
    /\ revealAt' = IF publishing' = {} THEN "idle" ELSE "publish"
    /\ pub' = None

\* submit_content failed: the row stays REVEALED for the next tick.
PublishRefused(s) ==
    /\ revealAt = "publish" /\ s \in publishing
    /\ PublishNext(s)
    /\ UNCHANGED <<dbVars, chainVars, proc, commitVars, candidates, cur,
                   payVars, histVars>>

\* mark_published with the reward, or with 0.0 when get_request failed.
MarkPublished ==
    /\ revealAt = "markPublished"
    /\ \E ok \in BOOLEAN, amount \in {0, Due} :
        /\ DbCall(ok)
        /\ status' = IF ok THEN [status EXCEPT ![pub] = "PUBLISHED"] ELSE status
        /\ reward' = IF ok THEN [reward EXCEPT ![pub] = amount] ELSE reward
    /\ PublishNext(pub)
    /\ UNCHANGED <<paid, attempt, closed, withheld, chainVars, proc, commitVars,
                   candidates, cur, payVars, histVars>>

-----------------------------------------------------------------------------
(* Payout                                                                  *)

\* Mutant of UnpaidPublished: rows that were paid are listed again.
EveryPublished == {s \in Rows : status[s] = "PUBLISHED" /\ RequestOf[s] \notin withheld}

\* list_unpaid_published: rows under WITHHOLD_PAY are left out.
UnpaidPublished == {s \in Rows : status[s] = "PUBLISHED" /\ ~paid[s]
                                 /\ RequestOf[s] \notin withheld}

\* What those rows owe a wallet.
Balance(w) ==
    MapThenSumSet(LAMBDA s : reward[s], {s \in UnpaidPublished : WalletOf[s] = w})

\* The rows of the wallets that have reached the minimum (and are owed at all).
Payable == {s \in UnpaidPublished : /\ Balance(WalletOf[s]) >= MinPayout
                                    /\ Balance(WalletOf[s]) > 0}

PayoutStart ==
    /\ proc = "running" /\ payAt = "idle"
    /\ Payable # {}
    /\ batch' = Payable
    /\ payAt' = "send"
    /\ UNCHANGED <<dbVars, chainVars, proc, commitVars, revealVars, histVars>>

\* sendmany took effect.
Sent == payouts' = [s \in Rows |-> payouts[s] + (IF s \in batch THEN 1 ELSE 0)]

PayoutSent ==
    /\ payAt = "send"
    /\ Sent
    /\ payAt' = "mark"
    /\ UNCHANGED <<dbVars, chainCommit, chainReveal, proc, commitVars, revealVars,
                   batch, histVars>>

\* sendmany failed and nothing was sent.
PayoutFails ==
    /\ payAt = "send"
    /\ payAt' = "idle" /\ batch' = {}
    /\ UNCHANGED <<dbVars, chainVars, proc, commitVars, revealVars, histVars>>

\* sendmany took effect but its reply was lost: the tick ends with an error.
PayoutReplyLost ==
    /\ payAt = "send" /\ payFaults < MaxPayFaults
    /\ Sent
    /\ payAt' = "idle" /\ batch' = {}
    /\ payFaults' = payFaults + 1
    /\ UNCHANGED <<dbVars, chainCommit, chainReveal, proc, commitVars, revealVars,
                   crashes>>

\* mark_paid: every row, live or FAILED, of the requests in the batch.
MarkPaid ==
    /\ payAt = "mark"
    /\ paid' = [s \in Rows |-> paid[s] \/ (status[s] # "none" /\
                    RequestOf[s] \in {RequestOf[t] : t \in batch})]
    /\ payAt' = "idle" /\ batch' = {}
    /\ UNCHANGED <<status, reward, attempt, closed, withheld, chainVars, proc,
                   commitVars, revealVars, histVars>>

\* mark_paid fails.
MarkPaidFails ==
    /\ payAt = "mark" /\ DbFails /\ payFaults < MaxPayFaults
    /\ payAt' = "idle" /\ batch' = {}
    /\ payFaults' = payFaults + 1
    /\ UNCHANGED <<dbVars, chainVars, proc, commitVars, revealVars, crashes>>

\* B3LiteAuditor confirms a divergence (insert_b3lite_consequence).
Withhold(q) ==
    /\ proc = "running" /\ q \notin withheld
    /\ withheld' = withheld \cup {q}
    /\ UNCHANGED <<status, paid, reward, attempt, closed, chainVars, proc,
                   commitVars, revealVars, payVars, histVars>>

-----------------------------------------------------------------------------
Commit(s) ==
    \/ \E a \in Addrs : CommitCall(s, a) \/ CommitStore(s, a)
    \/ CommitSucceeds(s) \/ CommitRetries(s) \/ CommitGivesUp(s)

Reveal ==
    \/ RevealStart
    \/ \E p \in Pairs : RevealAccepted(p) \/ RevealRefused(p)
    \/ MarkAttemptRevealed \/ MarkRevealed \/ PublishStart
    \/ \E s \in Rows : PublishAccepted(s) \/ PublishRefused(s)
    \/ MarkPublished

Payout ==
    \/ PayoutStart \/ PayoutSent \/ PayoutFails \/ PayoutReplyLost
    \/ MarkPaid \/ MarkPaidFails

Next ==
    \/ Crash \/ Startup \/ Serve
    \/ \E s \in Rows, spawned \in BOOLEAN : Receive(s, spawned)
    \/ \E s \in Rows : Commit(s)
    \/ \E p \in Pairs : WindowCloses(p)
    \/ \E q \in Requests : Withhold(q)
    \/ Reveal \/ Payout

Spec == Init /\ [][Next]_vars

-----------------------------------------------------------------------------
(* Safety                                                                  *)

\* The rows keep the promise of Submission, although every UPDATE of repo.rs
\* is unconditional (WHERE id = ..): no status ever moves backwards, whatever
\* is re-driven after a crash, and no live row is marked paid unpaid-for.
Abstract == INSTANCE Submission WITH
    phase   <- status,
    sent    <- {s \in Rows : payouts[s] > 0},
    settled <- {s \in Rows : paid[s]}

RefinesSubmission == Abstract!Spec

\* At most one payout covers a row, plus one for each payout whose record was
\* lost (crash, lost reply or failed mark_paid after sendmany): the payout
\* module's "known accepted risk" is the only way to pay twice.
PaidOnceButForFaults == \A s \in Rows : payouts[s] <= 1 + payFaults

\* A row is REVEALED or PUBLISHED only if the chain accepted a reveal of it by
\* an address that had committed to it.
RevealedOnChain ==
    \A s \in Rows : status[s] \in {"REVEALED", "PUBLISHED"} =>
        \E a \in Addrs : <<s, a>> \in chainReveal \cap chainCommit

\* An answer given up as FAILED was never revealed, so that a second answer to
\* the same request is the only one on the chain.
OneRowPerRequestRevealed ==
    \A p, q \in chainReveal : RequestOf[p[1]] = RequestOf[q[1]] => p[1] = q[1]

\* The reveal loop has an attempt of the row to offer, now or once its commit
\* window closes.
Offered(s) == \E a \in Addrs : attempt[<<s, a>>] = "COMMITTED"

\* "COMMITTED/REVEALED rows already self-heal via the normal poll loop": they do
\* not if the process stops between mark_attempt_revealed and mark_revealed;
\* but, while no database write fails, the COMMITTED row that is never offered
\* again is one the chain has accepted a reveal of.
StrandedWasRevealed ==
    ~DbFails => \A s \in Rows : status[s] = "COMMITTED" /\ ~Offered(s) =>
        \E a \in Addrs : <<s, a>> \in chainReveal

-----------------------------------------------------------------------------
(* Liveness.  The runtime keeps every task going and restarts a stopped    *)
(* process (weak fairness); if they are asked again and again, csd accepts *)
(* the reveal of some address of the pool (VRF eligibility), the content   *)
(* and a payout (strong fairness of the successful answers).               *)

Fairness ==
    /\ WF_vars(Startup) /\ WF_vars(Serve)
    /\ \A s \in Rows :
        /\ WF_vars(CommitSucceeds(s)) /\ WF_vars(CommitRetries(s))
        /\ WF_vars(CommitGivesUp(s))
        /\ SF_vars(\E a \in Addrs : RevealAccepted(<<s, a>>))
        /\ SF_vars(PublishAccepted(s))
        /\ \A a \in Addrs : WF_vars(CommitCall(s, a)) /\ WF_vars(CommitStore(s, a))
    /\ \A p \in Pairs : WF_vars(WindowCloses(p))
    /\ WF_vars(RevealStart) /\ WF_vars(MarkAttemptRevealed)
    /\ WF_vars(MarkRevealed) /\ WF_vars(PublishStart) /\ WF_vars(MarkPublished)
    /\ WF_vars(\E p \in Pairs : RevealRefused(p))
    /\ WF_vars(\E s \in Rows : PublishRefused(s))
    /\ WF_vars(PayoutStart) /\ SF_vars(PayoutSent) /\ WF_vars(MarkPaid)

FairSpec == Spec /\ Fairness

\* A row whose do_commit runs leaves RECEIVED, a crash in between or not.
ReceivedIsDecided ==
    \A s \in Rows : (status[s] = "RECEIVED" /\ round[s] > 0)
                        ~> status[s] \in {"COMMITTED", "REVEALED", "PUBLISHED", "FAILED"}

\* A REVEALED row is published and, unless its reward is 0 or too small or its
\* request withheld, paid out.
RevealedIsPaid ==
    \A s \in Rows : status[s] = "REVEALED" ~>
        \/ paid[s] \/ RequestOf[s] \in withheld
        \/ status[s] = "PUBLISHED" /\ Balance(WalletOf[s]) < MinPayout
        \/ status[s] = "PUBLISHED" /\ reward[s] = 0

\* "Deliberate retry-forever across ticks": no row stays COMMITTED for ever with
\* an attempt to offer, however often addresses are refused, and in spite of a
\* crash between the reveal and its bookkeeping.
CommittedIsRevealed ==
    \A s \in Rows : []<>(status[s] # "COMMITTED" \/ ~Offered(s))
=============================================================================
