---------------------------- MODULE B3LiteAudit ----------------------------
(***************************************************************************)
(* The B3-lite auditor (opoi/b3lite_audit.rs): sampled receipts are        *)
(* replayed by a trusted wallet over stratum or, failing that, by a local  *)
(* subprocess; a divergence withholds the request's pay, and enough of     *)
(* them eject the wallet (registry.ban, restored from the database when    *)
(* the process starts).                                                    *)
(*                                                                         *)
(* Concurrent activities: the audit loop (one receipt at a time), sessions *)
(* that come and go and may send opoi.audit_result at any time, and        *)
(* crashes.  A database call may fail where the code only logs it.         *)
(***************************************************************************)
EXTENDS Naturals, Sequences, FiniteSets

CONSTANTS
    Receipts,      \* receipts sampled for audit; each has its own request_id
    Wallets,
    MinerOf,       \* miner_wallet of a receipt
    Trusted,       \* AUDITOR_TRUSTED_WALLETS, in order
    None,          \* no wallet, no receipt, no verdict
    EjectAfter,    \* EJECT_AFTER_DIVERGENCES
    MaxDbFaults,   \* bound on failed database writes
    MaxCrashes     \* bound on crashes

ASSUME ConstAssumption ==
    /\ None \notin Receipts /\ None \notin Wallets
    /\ MinerOf \in [Receipts -> Wallets]
    /\ Trusted \in Seq(Wallets)
    /\ EjectAfter \in Nat \ {0}
    /\ MaxDbFaults \in Nat /\ MaxCrashes \in Nat

VARIABLES
    \* b3lite_receipts.audit_status; b3lite_consequences: the number of
    \* WITHHOLD_PAY rows per receipt, and the wallets with an EJECTED row
    status, withholds, ejected,
    \* the process; MinerRegistry: registered, auditor-capable, banned
    proc, online, capable, banned,
    \* sessions that have unregistered their wallet but not yet run the
    \* auditor's on_disconnect; and the audit_result each wallet has in
    \* handle_audit_result, its assignment checked
    leaving, reply,
    \* audit_assignments, and pending: the senders waiting for a result
    assignment, pending,
    \* the audit loop: step, receipts left, the one at hand, the wallet it is
    \* dispatched to, what came through the oneshot (and, for the record, from
    \* whom), the resulting status
    at, todo, cur, wal, inbox, verdict,
    \* history: the receipts some verdict went against, lost audit results,
    \* database faults, crashes
    divergent, lost, dbFaults, crashes

dbVars      == <<status, withholds, ejected>>
sessionVars == <<online, capable, leaving, reply>>
mapVars     == <<assignment, pending>>
loopVars    == <<at, todo, cur, wal, inbox, verdict>>
histVars    == <<divergent, lost>>
faultVars   == <<dbFaults, crashes>>
vars == <<dbVars, proc, banned, sessionVars, mapVars, loopVars, histVars, faultVars>>

\* What an auditor may report about the positions of a response.
Reports  == {"allAdmissible", "someInadmissible", "noPositions"}
Outcomes == {"ADMISSIBLE", "DIVERGENT", "INCONCLUSIVE"}
Steps    == {"idle", "next", "get", "assign", "pend", "send", "wait", "cleanup",
             "local", "mark", "withhold", "count", "eject"}

\* The value of every variable, and which locals are set at which step.
TypeOK ==
    /\ status \in [Receipts -> {"none", "PENDING"} \cup Outcomes]
    /\ withholds \in [Receipts -> Nat]
    /\ ejected \subseteq Wallets
    /\ proc \in {"down", "running"}
    /\ online \subseteq Wallets /\ capable \subseteq Wallets
    /\ banned \subseteq Wallets /\ leaving \subseteq Wallets
    /\ reply \in [Wallets -> Receipts \cup {None}]
    /\ assignment \in [Receipts -> Wallets \cup {None}]
    /\ pending \subseteq Receipts
    /\ at \in Steps
    /\ todo \subseteq Receipts
    /\ cur \in Receipts \cup {None}
    /\ at \notin {"idle", "next"} => cur \in Receipts
    /\ wal \in Wallets \cup {None}
    /\ at \in {"get", "assign", "pend", "send", "wait", "cleanup"} => wal \in Wallets
    /\ inbox \in [from : Wallets, report : Reports] \cup {None}
    /\ verdict \in Outcomes \cup {None}
    /\ at = "mark" => verdict \in Outcomes
    /\ divergent \subseteq Receipts
    /\ lost \in Nat /\ dbFaults \in Nat /\ crashes \in Nat

NobodyWaits == assignment = [r \in Receipts |-> None] /\ pending = {}

Init ==
    /\ status = [r \in Receipts |-> "none"]
    /\ withholds = [r \in Receipts |-> 0]
    /\ ejected = {}
    /\ proc = "down"
    /\ online = {} /\ capable = {} /\ banned = {} /\ leaving = {}
    /\ reply = [w \in Wallets |-> None]
    /\ NobodyWaits
    /\ at = "idle" /\ todo = {} /\ cur = None /\ wal = None
    /\ inbox = None /\ verdict = None
    /\ divergent = {}
    /\ lost = 0 /\ dbFaults = 0 /\ crashes = 0

\* A database write succeeds, or fails and is only logged.
DbWrite(ok) ==
    \/ ok /\ UNCHANGED dbFaults
    \/ ~ok /\ dbFaults < MaxDbFaults /\ dbFaults' = dbFaults + 1

-----------------------------------------------------------------------------
(* The process and its sessions                                            *)

Crash ==
    /\ proc = "running" /\ crashes < MaxCrashes
    /\ proc' = "down"
    /\ online' = {} /\ capable' = {} /\ banned' = {} /\ leaving' = {}
    /\ reply' = [w \in Wallets |-> None]
    /\ assignment' = [r \in Receipts |-> None] /\ pending' = {}
    /\ at' = "idle" /\ todo' = {} /\ cur' = None /\ wal' = None
    /\ inbox' = None /\ verdict' = None
    /\ crashes' = crashes + 1
    /\ UNCHANGED <<dbVars, histVars, dbFaults>>

\* main: the bans are restored from the EJECTED rows; if they cannot be read,
\* the bridge starts without them.
Startup ==
    /\ proc = "down"
    /\ proc' = "running"
    /\ \E ok \in BOOLEAN : DbWrite(ok) /\ banned' = IF ok THEN ejected ELSE {}
    /\ UNCHANGED <<dbVars, sessionVars, mapVars, loopVars, histVars, crashes>>

\* record_b3lite_receipt: a served response is sampled for audit.
Sample(r) ==
    /\ proc = "running" /\ status[r] = "none"
    /\ status' = [status EXCEPT ![r] = "PENDING"]
    /\ UNCHANGED <<withholds, ejected, proc, banned, sessionVars, mapVars, loopVars,
                   histVars, faultVars>>

\* A wallet is authorized and registered.
Join(w) ==
    /\ proc = "running" /\ w \notin online
    /\ online' = online \cup {w}
    /\ UNCHANGED <<dbVars, proc, banned, capable, leaving, reply, mapVars,
                   loopVars, histVars, faultVars>>

\* opoi.capabilities with "auditor": mark_auditor_capable.  The check and the
\* insertion hold different locks, so the wallet may have been unregistered,
\* by the cleanup of its older connection, in between.
Announce(w) ==
    /\ w \in (online \cup leaving) \ capable
    /\ capable' = capable \cup {w}
    /\ UNCHANGED <<dbVars, proc, banned, online, leaving, reply, mapVars, loopVars,
                   histVars, faultVars>>

\* A session's cleanup: first registry.unregister, which is by wallet: a newer
\* connection of the wallet may still be open and send results ..
Leave(w) ==
    /\ w \in online
    /\ online' = online \ {w} /\ capable' = capable \ {w}
    /\ leaving' = leaving \cup {w}
    /\ UNCHANGED <<dbVars, proc, banned, reply, mapVars, loopVars,
                   histVars, faultVars>>

\* .. later the auditor's on_disconnect: its dispatches are dropped.
OnDisconnect(w) ==
    /\ w \in leaving
    /\ leaving' = leaving \ {w}
    /\ LET stale == {r \in Receipts : assignment[r] = w}
       IN  /\ assignment' = [r \in Receipts |-> IF r \in stale THEN None ELSE assignment[r]]
           /\ pending' = pending \ stale
    /\ UNCHANGED <<dbVars, proc, banned, online, capable, reply, loopVars,
                   histVars, faultVars>>

\* Mutant of HandleAuditResult: whoever knows a request_id may answer it.
HandleAnyAuditResult(w, r) ==
    /\ reply[w] = None
    /\ assignment[r] # None
    /\ reply' = [reply EXCEPT ![w] = r]
    /\ UNCHANGED <<dbVars, proc, banned, online, capable, leaving, mapVars,
                   loopVars, histVars, faultVars>>

\* handle_audit_result: the sender is the wallet the request is dispatched to
\* (a message that fails this check changes nothing) ..
HandleAuditResult(w, r) ==
    /\ reply[w] = None
    /\ assignment[r] = w
    /\ reply' = [reply EXCEPT ![w] = r]
    /\ UNCHANGED <<dbVars, proc, banned, online, capable, leaving, mapVars,
                   loopVars, histVars, faultVars>>

\* .. and the sender of the oneshot is taken, unless it is gone by now.  The
\* result only reaches a loop that is still waiting for it.
DeliverAuditResult(w) ==
    /\ reply[w] # None
    /\ reply' = [reply EXCEPT ![w] = None]
    /\ pending' = pending \ {reply[w]}
    /\ IF reply[w] \in pending /\ at \in {"send", "wait"} /\ cur = reply[w]
       THEN inbox' \in [from : {w}, report : Reports]
       ELSE UNCHANGED inbox
    /\ UNCHANGED <<dbVars, proc, banned, online, capable, leaving, assignment,
                   at, todo, cur, wal, verdict, histVars, faultVars>>

-----------------------------------------------------------------------------
(* audit_tick and run_one                                                  *)

\* list_pending_b3lite_audits.
TickStart ==
    /\ proc = "running" /\ at = "idle"
    /\ \E r \in Receipts : status[r] = "PENDING"
    /\ todo' = {r \in Receipts : status[r] = "PENDING"}
    /\ at' = "next"
    /\ UNCHANGED <<dbVars, proc, banned, sessionVars, mapVars, cur, wal, inbox, verdict,
                   histVars, faultVars>>

\* The model source, the prompt or the token ids cannot be resolved.
Unresolvable(r) ==
    /\ at = "next" /\ r \in todo
    /\ cur' = r /\ verdict' = "INCONCLUSIVE" /\ at' = "mark"
    /\ UNCHANGED <<dbVars, proc, banned, sessionVars, mapVars, todo, wal, inbox,
                   histVars, faultVars>>

\* pick_auditor_capable would take w for an audit of miner m.
Eligible(w, m) == w # m /\ w \in (online \cap capable) \ banned

\* They are, and pick_auditor_capable returns the first eligible trusted wallet.
Pick(r) ==
    /\ at = "next" /\ r \in todo
    /\ cur' = r
    /\ \E i \in DOMAIN Trusted :
        /\ Eligible(Trusted[i], MinerOf[r])
        /\ \A j \in 1 .. i - 1 : ~Eligible(Trusted[j], MinerOf[r])
        /\ wal' = Trusted[i]
    /\ at' = "get"
    /\ UNCHANGED <<dbVars, proc, banned, sessionVars, mapVars, todo, inbox, verdict,
                   histVars, faultVars>>

\* Mutant of PickNobody: the missing wallet is dispatched to all the same.
PickNobodyDispatches(r) ==
    /\ at = "next" /\ r \in todo
    /\ \A i \in DOMAIN Trusted : ~Eligible(Trusted[i], MinerOf[r])
    /\ cur' = r /\ at' = "get"
    /\ UNCHANGED <<dbVars, proc, banned, sessionVars, mapVars, todo, wal, inbox, verdict,
                   histVars, faultVars>>

\* It returns None.
PickNobody(r) ==
    /\ at = "next" /\ r \in todo
    /\ \A i \in DOMAIN Trusted : ~Eligible(Trusted[i], MinerOf[r])
    /\ cur' = r /\ at' = "local"
    /\ UNCHANGED <<dbVars, proc, banned, sessionVars, mapVars, todo, wal, inbox, verdict,
                   histVars, faultVars>>

-----------------------------------------------------------------------------
(* dispatch_via_stratum and dispatch_via_subprocess                        *)

\* registry.get: the wallet may have gone since it was picked.
Get ==
    /\ at = "get"
    /\ at' = IF wal \in online THEN "assign" ELSE "local"
    /\ UNCHANGED <<dbVars, proc, banned, sessionVars, mapVars, todo, cur, wal, inbox,
                   verdict, histVars, faultVars>>

Assign ==
    /\ at = "assign"
    /\ assignment' = [assignment EXCEPT ![cur] = wal]
    /\ at' = "pend"
    /\ UNCHANGED <<dbVars, proc, banned, sessionVars, pending, todo, cur, wal, inbox,
                   verdict, histVars, faultVars>>

Pend ==
    /\ at = "pend"
    /\ pending' = pending \cup {cur}
    /\ at' = "send"
    /\ UNCHANGED <<dbVars, proc, banned, sessionVars, assignment, todo, cur, wal, inbox,
                   verdict, histVars, faultVars>>

\* Both entries of the dispatch are removed.
Forget ==
    /\ assignment' = [assignment EXCEPT ![cur] = None]
    /\ pending' = pending \ {cur}

\* tx.send succeeds; the line may still be lost with its connection.
Send ==
    /\ at = "send"
    /\ at' = "wait"
    /\ UNCHANGED <<dbVars, proc, banned, sessionVars, mapVars, todo, cur, wal, inbox,
                   verdict, histVars, faultVars>>

\* tx.send fails: the writer is gone.  A result that came early is dropped
\* with its receiver.
SendFails ==
    /\ at = "send"
    /\ Forget
    /\ inbox' = None /\ wal' = None /\ at' = "local"
    /\ UNCHANGED <<dbVars, proc, banned, sessionVars, todo, cur, verdict,
                   histVars, faultVars>>

\* all_admissible: no position at all is not admissible.
all_admissible(report) == report = "allAdmissible"

\* run_one's status for a report.
StatusOf(report) == IF all_admissible(report) THEN "ADMISSIBLE" ELSE "DIVERGENT"

Against(report) == IF all_admissible(report) THEN divergent ELSE divergent \cup {cur}

\* The result arrived in time, and both entries are removed.
WaitDelivered ==
    /\ at = "wait" /\ inbox # None
    /\ Forget
    /\ verdict' = StatusOf(inbox.report)
    /\ divergent' = Against(inbox.report)
    /\ inbox' = None /\ wal' = None /\ at' = "mark"
    /\ UNCHANGED <<dbVars, proc, banned, sessionVars, todo, cur, lost, faultVars>>

\* Mutant of WaitGivenUp: the entries outlive the dispatch.
WaitGivenUpNoCleanup ==
    /\ at = "wait" /\ inbox = None
    /\ wal' = None /\ at' = "local"
    /\ UNCHANGED <<dbVars, proc, banned, sessionVars, mapVars, todo, cur, inbox, verdict,
                   histVars, faultVars>>

\* Mutant of WaitGivenUp: no STRATUM_AUDIT_TIMEOUT.
WaitGivenUpOnDropOnly ==
    /\ at = "wait" /\ inbox = None /\ cur \notin pending
    /\ at' = "cleanup"
    /\ UNCHANGED <<dbVars, proc, banned, sessionVars, mapVars, todo, cur, wal, inbox,
                   verdict, histVars, faultVars>>

\* STRATUM_AUDIT_TIMEOUT has passed, or on_disconnect dropped the sender.
WaitGivenUp ==
    /\ at = "wait" /\ inbox = None
    /\ at' = "cleanup"
    /\ UNCHANGED <<dbVars, proc, banned, sessionVars, mapVars, todo, cur, wal, inbox,
                   verdict, histVars, faultVars>>

\* Both entries are removed, and the subprocess takes over.
Cleanup ==
    /\ at = "cleanup"
    /\ Forget
    /\ wal' = None /\ at' = "local"
    /\ UNCHANGED <<dbVars, proc, banned, sessionVars, todo, cur, inbox, verdict,
                   histVars, faultVars>>

\* The subprocess reports, or cannot be run or understood.
Subprocess ==
    /\ at = "local"
    /\ \/ \E report \in Reports :
            /\ verdict' = StatusOf(report)
            /\ divergent' = Against(report)
       \/ verdict' = "INCONCLUSIVE" /\ UNCHANGED divergent
    /\ wal' = None /\ at' = "mark"
    /\ UNCHANGED <<dbVars, proc, banned, sessionVars, mapVars, todo, cur, inbox, lost,
                   faultVars>>

-----------------------------------------------------------------------------
(* The verdict and its consequences                                        *)

\* The receipt is done with; after the last one the tick is over.
NextReceipt ==
    /\ todo' = todo \ {cur}
    /\ at' = IF todo' = {} THEN "idle" ELSE "next"
    /\ cur' = None /\ verdict' = None

\* Mutant of MarkAuditResult: only ADMISSIBLE spares the miner.
MarkAuditResultPunishesInconclusive ==
    /\ at = "mark"
    /\ \E ok \in BOOLEAN :
        /\ DbWrite(ok)
        /\ status' = IF ok THEN [status EXCEPT ![cur] = verdict] ELSE status
        /\ lost' = IF ok THEN lost ELSE lost + 1
    /\ IF verdict # "ADMISSIBLE"
       THEN at' = "withhold" /\ UNCHANGED <<todo, cur, verdict>>
       ELSE NextReceipt
    /\ UNCHANGED <<withholds, ejected, proc, banned, sessionVars, mapVars, wal, inbox,
                   divergent, crashes>>

\* Mutant of MarkAuditResult: the verdict is recorded, its consequence forgotten.
MarkAuditResultForgets ==
    /\ at = "mark"
    /\ \E ok \in BOOLEAN :
        /\ DbWrite(ok)
        /\ status' = IF ok THEN [status EXCEPT ![cur] = verdict] ELSE status
        /\ lost' = IF ok THEN lost ELSE lost + 1
    /\ NextReceipt
    /\ UNCHANGED <<withholds, ejected, proc, banned, sessionVars, mapVars, wal, inbox,
                   divergent, crashes>>

\* mark_b3lite_audit_result; a divergence has consequences, its record lost or not.
MarkAuditResult ==
    /\ at = "mark"
    /\ \E ok \in BOOLEAN :
        /\ DbWrite(ok)
        /\ status' = IF ok THEN [status EXCEPT ![cur] = verdict] ELSE status
        /\ lost' = IF ok THEN lost ELSE lost + 1
    /\ IF verdict = "DIVERGENT"
       THEN at' = "withhold" /\ UNCHANGED <<todo, cur, verdict>>
       ELSE NextReceipt
    /\ UNCHANGED <<withholds, ejected, proc, banned, sessionVars, mapVars, wal, inbox,
                   divergent, crashes>>

\* apply_consequence: WITHHOLD_PAY (and REPUTATION_FLAG, which nothing reads).
Withhold ==
    /\ at = "withhold"
    /\ \E ok \in BOOLEAN :
        /\ DbWrite(ok)
        /\ withholds' = IF ok THEN [withholds EXCEPT ![cur] = @ + 1] ELSE withholds
    /\ at' = "count"
    /\ UNCHANGED <<status, ejected, proc, banned, sessionVars, mapVars, todo, cur, wal,
                   inbox, verdict, histVars, crashes>>

\* The WITHHOLD_PAY rows of a wallet: which receipt, and its how manieth.
WithholdRows(w) ==
    UNION {{r} \X (1 .. withholds[r]) : r \in {q \in Receipts : MinerOf[q] = w}}

\* count_withhold_consequences.
WithholdsOf(w) == Cardinality(WithholdRows(w))

\* Mutant of CountEjects: one divergence too early.
CountEjectsEarly ==
    /\ at = "count" /\ WithholdsOf(MinerOf[cur]) + 1 >= EjectAfter
    /\ banned' = banned \cup {MinerOf[cur]}
    /\ at' = "eject"
    /\ UNCHANGED <<dbVars, proc, sessionVars, mapVars, todo, cur, wal, inbox, verdict,
                   histVars, faultVars>>

\* The threshold is reached: registry.ban, before the EJECTED row is written.
CountEjects ==
    /\ at = "count" /\ WithholdsOf(MinerOf[cur]) >= EjectAfter
    /\ banned' = banned \cup {MinerOf[cur]}
    /\ at' = "eject"
    /\ UNCHANGED <<dbVars, proc, sessionVars, mapVars, todo, cur, wal, inbox, verdict,
                   histVars, faultVars>>

\* It is not, or the count fails.
CountSpares ==
    /\ at = "count"
    /\ \E ok \in BOOLEAN :
        /\ DbWrite(ok)
        /\ ok => WithholdsOf(MinerOf[cur]) < EjectAfter
    /\ NextReceipt
    /\ UNCHANGED <<dbVars, proc, banned, sessionVars, mapVars, wal, inbox,
                   histVars, crashes>>

\* The EJECTED row.
Eject ==
    /\ at = "eject"
    /\ \E ok \in BOOLEAN :
        /\ DbWrite(ok)
        /\ ejected' = IF ok THEN ejected \cup {MinerOf[cur]} ELSE ejected
    /\ NextReceipt
    /\ UNCHANGED <<status, withholds, proc, banned, sessionVars, mapVars, wal, inbox,
                   histVars, crashes>>

-----------------------------------------------------------------------------
Sessions ==
    \E w \in Wallets :
        \/ Join(w) \/ Announce(w) \/ Leave(w) \/ OnDisconnect(w)
        \/ DeliverAuditResult(w)
        \/ \E r \in Receipts : HandleAuditResult(w, r)

Loop ==
    \/ TickStart
    \/ \E r \in Receipts : Unresolvable(r) \/ Pick(r) \/ PickNobody(r)
    \/ Get \/ Assign \/ Pend \/ Send \/ SendFails
    \/ WaitDelivered \/ WaitGivenUp \/ Cleanup \/ Subprocess
    \/ MarkAuditResult \/ Withhold \/ CountEjects \/ CountSpares \/ Eject

Next ==
    \/ Crash \/ Startup \/ \E r \in Receipts : Sample(r)
    \/ Sessions \/ Loop

\* The loop runs on (spawn_interval), a stopped process is started again, and
\* the subprocess ends; nobody is obliged to connect or to answer.
Fairness == WF_vars(Startup) /\ WF_vars(Loop)

Spec == Init /\ [][Next]_vars
FairSpec == Spec /\ Fairness

-----------------------------------------------------------------------------
(* Properties                                                              *)

\* "An audit only ever runs somewhere THIS bridge operator trusts", and
\* "auditing yourself proves nothing": whichever results arrive, late, twice
\* or from whomever, the one that reaches the loop comes from a trusted wallet
\* other than the audited one.
VerdictsAreTrusted ==
    inbox # None =>
        /\ \E i \in DOMAIN Trusted : Trusted[i] = inbox.from
        /\ inbox.from # MinerOf[cur]

\* "Always clean up both maps regardless of outcome": no entry outlives the
\* dispatch that made it, so no late result is taken for another dispatch's.
NoStaleDispatch ==
    \A r \in Receipts : assignment[r] # None \/ r \in pending =>
        cur = r /\ at \in {"pend", "send", "wait", "cleanup"}

\* INCONCLUSIVE is "NOT itself a fraud signal" (0003_b3lite.sql): pay is only
\* withheld for a receipt that some verdict went against.
PunishedWasDivergent == \A r \in Receipts : withholds[r] > 0 => r \in divergent

\* "A wallet accumulating 3 or more confirmed divergences ever is additionally
\* ejected": nobody is ejected for fewer divergent responses, except that a
\* response whose audit result was lost is audited, and counted, again.
EjectedIsRepeatOffender ==
    \A w \in banned \cup ejected :
        Cardinality({r \in divergent : MinerOf[r] = w}) + lost >= EjectAfter

\* The receipts found DIVERGENT whose pay nobody has withheld or is about to.
Escaped == {r \in Receipts : status[r] = "DIVERGENT" /\ withholds[r] = 0
                             /\ ~(cur = r /\ at = "withhold")}

\* "Every confirmed DIVERGENT audit withholds pay for that one request": the
\* verdict and its consequence are two writes, and a receipt that is no longer
\* PENDING is not audited again, but each crash and each failed write lets at
\* most one divergent response escape.
EscapesOnlyByFault == Cardinality(Escaped) <= crashes + dbFaults

\* Every sampled receipt is audited ("replay every receipt sampled for audit"),
\* although auditors disconnect or never answer and the process crashes: no
\* receipt stays PENDING for ever.
SampledIsAudited == \A r \in Receipts : []<>(status[r] # "PENDING")
=============================================================================
