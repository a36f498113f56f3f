------------------------- MODULE B3LiteAuditProofs -------------------------
(***************************************************************************)
(* Proofs about B3LiteAudit, for any receipts, wallets and trusted list,   *)
(* any ejection threshold and any number of crashes and database faults.   *)
(***************************************************************************)
EXTENDS B3LiteAudit, FiniteSetTheorems, TLAPS

\* The type part that every other invariant uses, step by step of Next.
LEMMA TypeStep == TypeOK /\ [Next]_vars => TypeOK'
<1> SUFFICES ASSUME TypeOK, [Next]_vars PROVE TypeOK'
    OBVIOUS
<1> USE ConstAssumption DEF TypeOK
<1>1. CASE Crash
    BY <1>1 DEF Crash, Steps, dbVars, histVars
<1>2. CASE Startup
    BY <1>2 DEF Startup, DbWrite, dbVars, sessionVars, mapVars, loopVars, histVars
<1>3. ASSUME NEW r \in Receipts, Sample(r) PROVE TypeOK'
    BY <1>3 DEF Sample, sessionVars, mapVars, loopVars, histVars, faultVars
<1>4. ASSUME NEW w \in Wallets, Join(w) \/ Announce(w) \/ Leave(w) PROVE TypeOK'
    BY <1>4 DEF Join, Announce, Leave, dbVars, mapVars, loopVars, histVars, faultVars
<1>5. ASSUME NEW w \in Wallets, OnDisconnect(w) PROVE TypeOK'
    BY <1>5 DEF OnDisconnect, dbVars, loopVars, histVars, faultVars
<1>6. ASSUME NEW w \in Wallets, NEW r \in Receipts, HandleAuditResult(w, r) PROVE TypeOK'
    BY <1>6 DEF HandleAuditResult, dbVars, mapVars, loopVars, histVars, faultVars
<1>7. ASSUME NEW w \in Wallets, DeliverAuditResult(w) PROVE TypeOK'
    BY <1>7 DEF DeliverAuditResult, dbVars, histVars, faultVars
<1>8. CASE TickStart
    BY <1>8 DEF TickStart, Steps, dbVars, sessionVars, mapVars, histVars, faultVars
<1>9. ASSUME NEW r \in Receipts, Unresolvable(r) \/ PickNobody(r) PROVE TypeOK'
    BY <1>9 DEF Unresolvable, PickNobody, Steps, Outcomes, dbVars, sessionVars, mapVars,
       histVars, faultVars
<1>10. ASSUME NEW r \in Receipts, Pick(r) PROVE TypeOK'
  <2>1. wal' \in Wallets
    BY <1>10 DEF Pick
  <2> QED
    BY <1>10, <2>1 DEF Pick, Steps, dbVars, sessionVars, mapVars, histVars, faultVars
<1>11. CASE Get \/ Send \/ WaitGivenUp
    BY <1>11 DEF Get, Send, WaitGivenUp, Steps, dbVars, sessionVars, mapVars, histVars,
       faultVars
<1>12. CASE Assign \/ Pend
  <2>1. cur \in Receipts /\ wal \in Wallets /\ at' \in {"pend", "send"}
    BY <1>12 DEF Assign, Pend
  <2>2. assignment' \in [Receipts -> Wallets \cup {None}]
    BY <1>12, <2>1 DEF Assign, Pend
  <2>3. pending' \subseteq Receipts
    BY <1>12, <2>1, Zenon DEF Assign, Pend
  <2> QED
    BY <1>12, <2>1, <2>2, <2>3 DEF Assign, Pend, Steps, dbVars, sessionVars, histVars,
       faultVars
<1>13. CASE SendFails \/ Cleanup
    BY <1>13 DEF SendFails, Cleanup, Forget, Steps, dbVars, sessionVars, histVars, faultVars
<1>14. CASE WaitDelivered
    BY <1>14 DEF WaitDelivered, Forget, StatusOf, Against, Steps, Outcomes, dbVars,
       sessionVars, faultVars
<1>15. CASE Subprocess
    BY <1>15 DEF Subprocess, StatusOf, Against, Steps, Outcomes, dbVars, sessionVars,
       mapVars, faultVars
<1>16. CASE MarkAuditResult
    BY <1>16 DEF MarkAuditResult, DbWrite, NextReceipt, Steps, sessionVars, mapVars
<1>17. CASE Withhold
    BY <1>17 DEF Withhold, DbWrite, Steps, sessionVars, mapVars, histVars
<1>18. CASE CountEjects
    BY <1>18 DEF CountEjects, Steps, dbVars, sessionVars, mapVars, histVars, faultVars
<1>19. CASE CountSpares \/ Eject
    BY <1>19 DEF CountSpares, Eject, DbWrite, NextReceipt, Steps, dbVars, sessionVars,
       mapVars, histVars
<1>20. CASE UNCHANGED vars
    BY <1>20 DEF vars, dbVars, sessionVars, mapVars, loopVars, histVars, faultVars
<1> QED
    BY <1>1, <1>2, <1>3, <1>4, <1>5, <1>6, <1>7, <1>8, <1>9, <1>10, <1>11, <1>12, <1>13,
       <1>14, <1>15, <1>16, <1>17, <1>18, <1>19, <1>20 DEF Next, Sessions, Loop

\* B3LiteAudit keeps its type invariant.
THEOREM TypeCorrect == Spec => []TypeOK
<1>1. Init => TypeOK
    BY ConstAssumption DEF Init, NobodyWaits, TypeOK, Steps
<1> QED
    BY <1>1, TypeStep, PTL DEF Spec

-----------------------------------------------------------------------------
(* No entry outlives its dispatch                                          *)

\* Every step keeps NoStaleDispatch.
LEMMA StaleStep == TypeOK /\ NoStaleDispatch /\ [Next]_vars => NoStaleDispatch'
<1> SUFFICES ASSUME TypeOK, NoStaleDispatch, [Next]_vars PROVE NoStaleDispatch'
    OBVIOUS
<1> USE DEF TypeOK, NoStaleDispatch
<1>1. CASE Crash
    BY <1>1 DEF Crash
<1>2. CASE Startup \/ \E r \in Receipts : Sample(r)
    BY <1>2 DEF Startup, Sample, mapVars, loopVars
<1>3. ASSUME NEW w \in Wallets, Join(w) \/ Announce(w) \/ Leave(w) PROVE NoStaleDispatch'
    BY <1>3 DEF Join, Announce, Leave, mapVars, loopVars
<1>4. ASSUME NEW w \in Wallets, OnDisconnect(w) PROVE NoStaleDispatch'
    BY <1>4 DEF OnDisconnect, loopVars
<1>5. ASSUME NEW w \in Wallets, NEW r \in Receipts, HandleAuditResult(w, r)
      PROVE  NoStaleDispatch'
    BY <1>5 DEF HandleAuditResult, mapVars, loopVars
<1>6. ASSUME NEW w \in Wallets, DeliverAuditResult(w) PROVE NoStaleDispatch'
    BY <1>6 DEF DeliverAuditResult
<1>7. CASE TickStart \/ \E r \in Receipts : Unresolvable(r) \/ Pick(r) \/ PickNobody(r)
    BY <1>7 DEF TickStart, Unresolvable, Pick, PickNobody, mapVars
<1>8. CASE Get \/ Send \/ WaitGivenUp \/ Subprocess
    BY <1>8 DEF Get, Send, WaitGivenUp, Subprocess, mapVars
<1>9. CASE Assign \/ Pend
    BY <1>9 DEF Assign, Pend
<1>10. CASE SendFails \/ WaitDelivered \/ Cleanup
    BY <1>10 DEF SendFails, WaitDelivered, Cleanup, Forget
<1>11. CASE MarkAuditResult \/ Withhold \/ CountEjects \/ CountSpares \/ Eject
    BY <1>11 DEF MarkAuditResult, Withhold, CountEjects, CountSpares, Eject, NextReceipt,
       mapVars
<1>12. CASE UNCHANGED vars
    BY <1>12 DEF vars, mapVars, loopVars
<1> QED
    BY <1>1, <1>2, <1>3, <1>4, <1>5, <1>6, <1>7, <1>8, <1>9, <1>10, <1>11, <1>12
       DEF Next, Sessions, Loop

\* dispatch_via_stratum's two maps hold nothing but the dispatch under way,
\* whatever disconnects, late results and crashes come in between.
THEOREM DispatchIsForgotten == Spec => []NoStaleDispatch
<1>1. Init => NoStaleDispatch
    BY DEF Init, NobodyWaits, NoStaleDispatch
<1> QED
    BY <1>1, StaleStep, TypeCorrect, PTL DEF Spec

-----------------------------------------------------------------------------
(* Only trusted verdicts count                                             *)

\* w may judge receipt r.
MayJudge(w, r) == w # MinerOf[r] /\ \E i \in DOMAIN Trusted : Trusted[i] = w

\* Whoever is picked, expected to answer, past the check of its answer, or has
\* answered, may judge the receipt in question.
TrustInv ==
    /\ at \in {"get", "assign"} => MayJudge(wal, cur)
    /\ \A r \in Receipts : assignment[r] # None => MayJudge(assignment[r], r)
    /\ \A w \in Wallets : reply[w] # None => MayJudge(w, reply[w])
    /\ inbox # None => at \in {"send", "wait"} /\ MayJudge(inbox.from, cur)

\* Every step keeps TrustInv.
LEMMA TrustStep == TypeOK /\ TrustInv /\ [Next]_vars => TrustInv'
<1> SUFFICES ASSUME TypeOK, TrustInv, [Next]_vars PROVE TrustInv'
    OBVIOUS
<1> USE ConstAssumption DEF TypeOK, TrustInv
<1>1. CASE Crash
    BY <1>1 DEF Crash
<1>2. CASE Startup \/ \E r \in Receipts : Sample(r)
    BY <1>2 DEF Startup, Sample, sessionVars, mapVars, loopVars
<1>3. ASSUME NEW w \in Wallets, Join(w) \/ Announce(w) \/ Leave(w) PROVE TrustInv'
    BY <1>3 DEF Join, Announce, Leave, mapVars, loopVars
<1>4. ASSUME NEW w \in Wallets, OnDisconnect(w) PROVE TrustInv'
    BY <1>4 DEF OnDisconnect, loopVars
<1>5. ASSUME NEW w \in Wallets, NEW r \in Receipts, HandleAuditResult(w, r)
      PROVE  TrustInv'
    BY <1>5 DEF HandleAuditResult, mapVars, loopVars
<1>6. ASSUME NEW w \in Wallets, DeliverAuditResult(w) PROVE TrustInv'
  <2>1. UNCHANGED <<at, wal, cur, assignment>>
    BY <1>6 DEF DeliverAuditResult
  <2>2. \A v \in Wallets : reply'[v] # None => MayJudge(v, reply'[v])
    BY <1>6 DEF DeliverAuditResult
  <2>3. inbox' # None => at' \in {"send", "wait"} /\ MayJudge(inbox'.from, cur')
    BY <1>6, <2>1 DEF DeliverAuditResult
  <2> QED
    BY <2>1, <2>2, <2>3
<1>7. ASSUME NEW r \in Receipts, Pick(r) PROVE TrustInv'
  <2>1. MayJudge(wal', cur')
    BY <1>7 DEF Pick, Eligible, MayJudge
  <2> QED
    BY <1>7, <2>1 DEF Pick, sessionVars, mapVars
<1>8. CASE TickStart \/ \E r \in Receipts : Unresolvable(r) \/ PickNobody(r)
    BY <1>8 DEF TickStart, Unresolvable, PickNobody, sessionVars, mapVars
<1>9. CASE Get \/ Send \/ WaitGivenUp \/ Subprocess
    BY <1>9 DEF Get, Send, WaitGivenUp, Subprocess, sessionVars, mapVars
<1>10. CASE Assign \/ Pend
    BY <1>10 DEF Assign, Pend, sessionVars
<1>11. CASE SendFails \/ WaitDelivered \/ Cleanup
    BY <1>11 DEF SendFails, WaitDelivered, Cleanup, Forget, sessionVars
<1>12. CASE MarkAuditResult \/ Withhold \/ CountEjects \/ CountSpares \/ Eject
    BY <1>12 DEF MarkAuditResult, Withhold, CountEjects, CountSpares, Eject, NextReceipt,
       sessionVars, mapVars
<1>13. CASE UNCHANGED vars
    BY <1>13 DEF vars, sessionVars, mapVars, loopVars
<1> QED
    BY <1>1, <1>2, <1>3, <1>4, <1>5, <1>6, <1>7, <1>8, <1>9, <1>10, <1>11, <1>12, <1>13
       DEF Next, Sessions, Loop

\* A result that reaches the audit loop over stratum was sent by a wallet on
\* the operator's list, never by the wallet under audit.
THEOREM OnlyTrustedJudge == Spec => []VerdictsAreTrusted
<1>1. Init => TrustInv
    BY DEF Init, NobodyWaits, TrustInv
<1>2. TrustInv => VerdictsAreTrusted
    BY DEF TrustInv, VerdictsAreTrusted, MayJudge
<1> QED
    BY <1>1, <1>2, TrustStep, TypeCorrect, PTL DEF Spec

-----------------------------------------------------------------------------
(* Only divergent responses are punished                                   *)

\* A divergence on its way to a consequence has been seen.
PunishInv ==
    /\ PunishedWasDivergent
    /\ at = "mark" /\ verdict = "DIVERGENT" => cur \in divergent
    /\ at = "withhold" => cur \in divergent

\* Every step keeps PunishInv.
LEMMA PunishStep == TypeOK /\ PunishInv /\ [Next]_vars => PunishInv'
<1> SUFFICES ASSUME TypeOK, PunishInv, [Next]_vars PROVE PunishInv'
    OBVIOUS
<1> USE DEF TypeOK, PunishInv, PunishedWasDivergent
<1>1. CASE Crash
    BY <1>1 DEF Crash, dbVars, histVars
<1>2. CASE Startup \/ \E r \in Receipts : Sample(r)
    BY <1>2 DEF Startup, Sample, dbVars, loopVars, histVars
<1>3. ASSUME NEW w \in Wallets,
             Join(w) \/ Announce(w) \/ Leave(w) \/ OnDisconnect(w) \/ DeliverAuditResult(w)
      PROVE  PunishInv'
    BY <1>3 DEF Join, Announce, Leave, OnDisconnect, DeliverAuditResult, dbVars, loopVars,
       histVars
<1>4. ASSUME NEW w \in Wallets, NEW r \in Receipts, HandleAuditResult(w, r)
      PROVE  PunishInv'
    BY <1>4 DEF HandleAuditResult, dbVars, loopVars, histVars
<1>5. CASE TickStart \/ \E r \in Receipts : Unresolvable(r) \/ Pick(r) \/ PickNobody(r)
    BY <1>5 DEF TickStart, Unresolvable, Pick, PickNobody, dbVars, histVars
<1>6. CASE Get \/ Assign \/ Pend \/ Send \/ SendFails \/ WaitGivenUp \/ Cleanup
    BY <1>6 DEF Get, Assign, Pend, Send, SendFails, WaitGivenUp, Cleanup, dbVars, histVars
<1>7. CASE WaitDelivered \/ Subprocess
    BY <1>7 DEF WaitDelivered, Subprocess, StatusOf, Against, dbVars
<1>8. CASE MarkAuditResult
    BY <1>8 DEF MarkAuditResult, NextReceipt
<1>9. CASE Withhold
    BY <1>9 DEF Withhold, histVars
<1>10. CASE CountEjects \/ CountSpares \/ Eject
    BY <1>10 DEF CountEjects, CountSpares, Eject, NextReceipt, dbVars, histVars
<1>11. CASE UNCHANGED vars
    BY <1>11 DEF vars, dbVars, loopVars, histVars
<1> QED
    BY <1>1, <1>2, <1>3, <1>4, <1>5, <1>6, <1>7, <1>8, <1>9, <1>10, <1>11
       DEF Next, Sessions, Loop

\* Pay is withheld only for a response that an auditor found divergent, never
\* for one whose audit was inconclusive.
THEOREM OnlyDivergentPunished == Spec => []PunishedWasDivergent
<1>1. Init => PunishInv
    BY DEF Init, PunishInv, PunishedWasDivergent
<1>2. PunishInv => PunishedWasDivergent
    BY DEF PunishInv
<1> QED
    BY <1>1, <1>2, PunishStep, TypeCorrect, PTL DEF Spec

-----------------------------------------------------------------------------
(* A divergent response escapes only through a fault                       *)

\* Nobody escapes in this step, and no fault is forgotten ..
NoneEscapes == Escaped' \subseteq Escaped /\ crashes' + dbFaults' >= crashes + dbFaults

\* .. or the receipt under audit may, and there was a fault.
OneEscapes ==
    Escaped' \subseteq Escaped \cup {cur} /\ crashes' + dbFaults' = crashes + dbFaults + 1

EscapeInv == IsFiniteSet(Escaped) /\ EscapesOnlyByFault

LEMMA DbWriteCounts ==
    ASSUME TypeOK, NEW ok \in BOOLEAN, DbWrite(ok), crashes' = crashes
    PROVE  /\ crashes' + dbFaults' >= crashes + dbFaults
           /\ ~ok => crashes' + dbFaults' = crashes + dbFaults + 1
BY DEF TypeOK, DbWrite

\* What a step does to the escaped.
LEMMA EscapeMove == TypeOK /\ [Next]_vars => NoneEscapes \/ OneEscapes
<1> SUFFICES ASSUME TypeOK, [Next]_vars PROVE NoneEscapes \/ OneEscapes
    OBVIOUS
<1>1. crashes \in Nat /\ dbFaults \in Nat
    BY DEF TypeOK
<1> DEFINE Quiet == UNCHANGED <<status, withholds, crashes, dbFaults>>
                    /\ (at = "withhold" => UNCHANGED <<at, cur>>)
<1>2. Quiet => NoneEscapes
    BY <1>1 DEF NoneEscapes, Escaped
<1>3. CASE Crash
  <2>1. UNCHANGED <<status, withholds, dbFaults>> /\ crashes' = crashes + 1
    BY <1>3 DEF Crash, dbVars
  <2> QED
    BY <1>1, <2>1 DEF OneEscapes, Escaped
<1>4. CASE Startup
  <2>1. PICK ok \in BOOLEAN : DbWrite(ok)
    BY <1>4 DEF Startup
  <2>2. UNCHANGED <<status, withholds, at, cur, crashes>>
    BY <1>4 DEF Startup, dbVars, loopVars
  <2> QED
    BY <2>1, <2>2, DbWriteCounts DEF NoneEscapes, Escaped
<1>5. ASSUME NEW r \in Receipts, Sample(r) PROVE NoneEscapes
  <2>1. UNCHANGED <<withholds, at, cur, crashes, dbFaults>>
        /\ status' = [status EXCEPT ![r] = "PENDING"]
    BY <1>5 DEF Sample, loopVars, faultVars
  <2> QED
    BY <1>1, <2>1 DEF NoneEscapes, Escaped, TypeOK
<1>6. ASSUME NEW w \in Wallets,
             \/ Join(w) \/ Announce(w) \/ Leave(w) \/ OnDisconnect(w) \/ DeliverAuditResult(w)
             \/ \E r \in Receipts : HandleAuditResult(w, r)
      PROVE  Quiet
    BY <1>6 DEF Join, Announce, Leave, OnDisconnect, DeliverAuditResult, HandleAuditResult,
       dbVars, loopVars, faultVars
<1>7. CASE \/ TickStart \/ \E r \in Receipts : Unresolvable(r) \/ Pick(r) \/ PickNobody(r)
           \/ Get \/ Assign \/ Pend \/ Send \/ SendFails
           \/ WaitDelivered \/ WaitGivenUp \/ Cleanup \/ Subprocess \/ CountEjects
  <2>1. Quiet
    BY <1>7 DEF TickStart, Unresolvable, Pick, PickNobody, Get, Assign, Pend, Send, SendFails,
       WaitDelivered, WaitGivenUp, Cleanup, Subprocess, CountEjects, dbVars, faultVars
  <2> QED
    BY <1>2, <2>1
<1>8. CASE MarkAuditResult
  <2>1. PICK ok \in BOOLEAN :
            /\ DbWrite(ok)
            /\ status' = IF ok THEN [status EXCEPT ![cur] = verdict] ELSE status
    BY <1>8 DEF MarkAuditResult
  <2>2. /\ at = "mark" /\ UNCHANGED <<withholds, crashes>>
        /\ verdict = "DIVERGENT" => at' = "withhold" /\ cur' = cur
    BY <1>8 DEF MarkAuditResult
  <2>3. Escaped' \subseteq Escaped
    BY <2>1, <2>2 DEF Escaped, TypeOK
  <2> QED
    BY <2>1, <2>2, <2>3, DbWriteCounts DEF NoneEscapes
<1>9. CASE Withhold
  <2>1. PICK ok \in BOOLEAN :
            /\ DbWrite(ok)
            /\ withholds' = IF ok THEN [withholds EXCEPT ![cur] = @ + 1] ELSE withholds
    BY <1>9 DEF Withhold
  <2>2. at = "withhold" /\ UNCHANGED <<status, cur, crashes>>
    BY <1>9 DEF Withhold
  <2>3. CASE ok
    <3>1. withholds'[cur] > 0 /\ \A r \in Receipts : r # cur => withholds'[r] = withholds[r]
      BY <2>1, <2>2, <2>3 DEF TypeOK
    <3>2. Escaped' \subseteq Escaped
      BY <2>2, <3>1 DEF Escaped
    <3> QED
      BY <2>1, <2>2, <3>2, DbWriteCounts DEF NoneEscapes
  <2>4. CASE ~ok
    <3>1. Escaped' \subseteq Escaped \cup {cur}
      BY <2>1, <2>2, <2>4 DEF Escaped
    <3> QED
      BY <2>1, <2>2, <2>4, <3>1, DbWriteCounts DEF OneEscapes
  <2> QED
    BY <2>3, <2>4
<1>10. CASE CountSpares \/ Eject
  <2>1. PICK ok \in BOOLEAN : DbWrite(ok)
    BY <1>10 DEF CountSpares, Eject
  <2>2. at # "withhold" /\ UNCHANGED <<status, withholds, crashes>>
    BY <1>10 DEF CountSpares, Eject, dbVars
  <2> QED
    BY <2>1, <2>2, DbWriteCounts DEF NoneEscapes, Escaped
<1>11. CASE UNCHANGED vars
    BY <1>2, <1>11 DEF vars, dbVars, loopVars, faultVars
<1> QED
    BY <1>2, <1>3, <1>4, <1>5, <1>6, <1>7, <1>8, <1>9, <1>10, <1>11 DEF Next, Sessions, Loop

LEMMA EscapeStep == TypeOK /\ TypeOK' /\ EscapeInv /\ [Next]_vars => EscapeInv'
<1> SUFFICES ASSUME TypeOK, TypeOK', EscapeInv, [Next]_vars PROVE EscapeInv'
    OBVIOUS
<1> DEFINE n == Cardinality(Escaped)
           m == Cardinality(Escaped')
<1>1. IsFiniteSet(Escaped) /\ n \in Nat /\ n <= crashes + dbFaults
    BY FS_CardinalityType DEF EscapeInv, EscapesOnlyByFault
<1>2. crashes + dbFaults \in Nat /\ crashes' + dbFaults' \in Nat
  <2>1. crashes \in Nat /\ dbFaults \in Nat /\ crashes' \in Nat /\ dbFaults' \in Nat
    BY DEF TypeOK
  <2>2. \A a, b \in Nat : a + b \in Nat
    OBVIOUS
  <2> QED
    BY <2>1, <2>2, Zenon
<1>3. CASE NoneEscapes
  <2>1. Escaped' \subseteq Escaped /\ crashes' + dbFaults' >= crashes + dbFaults
    BY <1>3 DEF NoneEscapes
  <2>2. IsFiniteSet(Escaped') /\ m <= n /\ m \in Nat
    BY <1>1, <2>1, FS_Subset, FS_CardinalityType
  <2> HIDE DEF n, m
  <2>3. m <= crashes' + dbFaults'
    <3>1. \A a, b, x, y \in Nat : a <= b /\ b <= x /\ y >= x => a <= y
      OBVIOUS
    <3> QED
      BY <1>1, <1>2, <2>1, <2>2, <3>1, Zenon
  <2> QED
    BY <2>2, <2>3 DEF EscapeInv, EscapesOnlyByFault, m
<1>4. CASE OneEscapes
  <2>1. Escaped' \subseteq Escaped \cup {cur} /\ crashes' + dbFaults' = crashes + dbFaults + 1
    BY <1>4 DEF OneEscapes
  <2> DEFINE k == Cardinality(Escaped \cup {cur})
  <2>2. IsFiniteSet(Escaped \cup {cur}) /\ k \in Nat /\ (k = n \/ k = n + 1)
    BY <1>1, FS_AddElement, FS_CardinalityType
  <2>3. IsFiniteSet(Escaped') /\ m <= k /\ m \in Nat
    BY <2>1, <2>2, FS_Subset, FS_CardinalityType
  <2> HIDE DEF n, m, k
  <2>4. m <= crashes' + dbFaults'
    <3>1. \A a, b, c, x \in Nat : a <= b /\ (b = c \/ b = c + 1) /\ c <= x => a <= x + 1
      OBVIOUS
    <3> QED
      BY <1>1, <1>2, <2>1, <2>2, <2>3, <3>1, Zenon
  <2> QED
    BY <2>3, <2>4 DEF EscapeInv, EscapesOnlyByFault, m
<1> QED
    BY <1>3, <1>4, EscapeMove

\* Each divergent response whose pay is not withheld cost a crash or a failed
\* database write, for any number of receipts: apply_consequence follows every
\* DIVERGENT that mark_b3lite_audit_result recorded.
THEOREM EscapesCostFaults == Spec => []EscapesOnlyByFault
<1>1. Init => EscapeInv
  <2> SUFFICES ASSUME Init PROVE EscapeInv
    OBVIOUS
  <2>1. Escaped = {} /\ crashes + dbFaults = 0
    BY DEF Init, Escaped
  <2> QED
    BY <2>1, FS_EmptySet DEF EscapeInv, EscapesOnlyByFault
<1>2. EscapeInv => EscapesOnlyByFault
    BY DEF EscapeInv
<1>3. Spec => [](TypeOK /\ EscapeInv)
  <2>1. Init => TypeOK
    BY ConstAssumption DEF Init, NobodyWaits, TypeOK, Steps
  <2> QED
    BY <1>1, <2>1, TypeStep, EscapeStep, PTL DEF Spec
<1> QED
    BY <1>2, <1>3, PTL

-----------------------------------------------------------------------------
(* Nobody is ejected for less than the threshold                           *)

\* The rows a receipt has, is about to get, and may get from another audit.
Due(r) == withholds[r] + (IF cur = r /\ at = "withhold" THEN 1 ELSE 0)
                       + (IF status[r] \in {"none", "PENDING"} THEN 1 ELSE 0)

\* Those of them that are not a receipt's first.
Again == UNION {{r} \X (2 .. Due(r)) : r \in Receipts}

\* What is audited is PENDING until its result is recorded ..
TodoInv ==
    /\ \A r \in todo : status[r] = "PENDING" \/ (r = cur /\ at \in {"withhold", "count", "eject"})
    /\ at \notin {"idle", "next"} => cur \in todo
    /\ proc = "down" => at = "idle" /\ todo = {}

\* .. so that a receipt is punished again only after its result was lost.
RepeatInv ==
    /\ TodoInv
    /\ IsFiniteSet(divergent) /\ IsFiniteSet(Again)
    /\ Cardinality(Again) <= lost
    /\ at = "eject" => MinerOf[cur] \in banned
    /\ EjectedIsRepeatOffender

\* Every step keeps TodoInv.
LEMMA TodoStep == TypeOK /\ TodoInv /\ [Next]_vars => TodoInv'
<1> SUFFICES ASSUME TypeOK, TodoInv, [Next]_vars PROVE TodoInv'
    OBVIOUS
<1> USE DEF TypeOK, TodoInv
<1>1. CASE Crash
    BY <1>1 DEF Crash
<1>2. CASE Startup \/ \E r \in Receipts : Sample(r)
    BY <1>2 DEF Startup, Sample, dbVars, loopVars
<1>3. ASSUME NEW w \in Wallets,
             \/ Join(w) \/ Announce(w) \/ Leave(w) \/ OnDisconnect(w) \/ DeliverAuditResult(w)
             \/ \E r \in Receipts : HandleAuditResult(w, r)
      PROVE  TodoInv'
    BY <1>3 DEF Join, Announce, Leave, OnDisconnect, DeliverAuditResult, HandleAuditResult,
       dbVars, loopVars
<1>4. CASE TickStart
    BY <1>4 DEF TickStart, dbVars
<1>5. ASSUME NEW r \in Receipts, Unresolvable(r) \/ Pick(r) \/ PickNobody(r) PROVE TodoInv'
    BY <1>5 DEF Unresolvable, Pick, PickNobody, dbVars
<1>6. CASE Get \/ Assign \/ Pend \/ Send \/ SendFails
    BY <1>6 DEF Get, Assign, Pend, Send, SendFails, dbVars
<1>7. CASE WaitDelivered \/ WaitGivenUp \/ Cleanup \/ Subprocess
    BY <1>7 DEF WaitDelivered, WaitGivenUp, Cleanup, Subprocess, dbVars
<1>8. CASE MarkAuditResult
    BY <1>8 DEF MarkAuditResult, NextReceipt
<1>9. CASE Withhold \/ CountEjects
    BY <1>9 DEF Withhold, CountEjects, dbVars
<1>10. CASE CountSpares \/ Eject
    BY <1>10 DEF CountSpares, Eject, NextReceipt, dbVars
<1>11. CASE UNCHANGED vars
    BY <1>11 DEF vars, dbVars, loopVars
<1> QED
    BY <1>1, <1>2, <1>3, <1>4, <1>5, <1>6, <1>7, <1>8, <1>9, <1>10, <1>11
       DEF Next, Sessions, Loop

\* No receipt may get more rows than before, and no loss is forgotten ..
NoMoreDue == lost' = lost /\ \A r \in Receipts : Due(r)' <= Due(r)

\* .. or the one under audit may get one more, and its result was lost.
OneMoreDue ==
    /\ lost' = lost + 1
    /\ \A r \in Receipts : Due(r)' <= IF r = cur THEN withholds[r] + 2 ELSE Due(r)
    /\ Due(cur) = withholds[cur] + 1

LEMMA DueType == TypeOK => \A r \in Receipts : Due(r) \in Nat
BY DEF TypeOK, Due

\* What a step does to the rows that may come.
LEMMA DueMove == TypeOK /\ TypeOK' /\ TodoInv /\ [Next]_vars => NoMoreDue \/ OneMoreDue
<1> SUFFICES ASSUME TypeOK, TypeOK', TodoInv, [Next]_vars PROVE NoMoreDue \/ OneMoreDue
    OBVIOUS
<1> DEFINE Quiet == UNCHANGED <<status, withholds, lost>>
                    /\ (at' = "withhold" => UNCHANGED <<at, cur>>)
<1>1. ASSUME Quiet PROVE NoMoreDue
  <2>1. ASSUME NEW r \in Receipts PROVE Due(r)' <= Due(r)
    BY <1>1 DEF Due, TypeOK
  <2> QED
    BY <1>1, <2>1 DEF NoMoreDue
<1>2. CASE Crash \/ Startup
    BY <1>1, <1>2 DEF Crash, Startup, dbVars, loopVars, histVars
<1>3. ASSUME NEW r \in Receipts, Sample(r) PROVE NoMoreDue
  <2>1. UNCHANGED <<withholds, at, cur, lost>> /\ status[r] = "none"
        /\ status' = [status EXCEPT ![r] = "PENDING"]
    BY <1>3 DEF Sample, loopVars, histVars
  <2> QED
    BY <2>1 DEF NoMoreDue, Due, TypeOK
<1>4. ASSUME NEW w \in Wallets,
             \/ Join(w) \/ Announce(w) \/ Leave(w) \/ OnDisconnect(w) \/ DeliverAuditResult(w)
             \/ \E r \in Receipts : HandleAuditResult(w, r)
      PROVE  Quiet
    BY <1>4 DEF Join, Announce, Leave, OnDisconnect, DeliverAuditResult, HandleAuditResult,
       dbVars, loopVars, histVars
<1>5. CASE \/ TickStart \/ \E r \in Receipts : Unresolvable(r) \/ Pick(r) \/ PickNobody(r)
           \/ Get \/ Assign \/ Pend \/ Send \/ SendFails
           \/ WaitDelivered \/ WaitGivenUp \/ Cleanup \/ Subprocess
           \/ CountEjects \/ CountSpares \/ Eject
  <2>1. Quiet
    BY <1>5 DEF TickStart, Unresolvable, Pick, PickNobody, Get, Assign, Pend, Send, SendFails,
       WaitDelivered, WaitGivenUp, Cleanup, Subprocess, CountEjects, CountSpares, Eject,
       NextReceipt, dbVars, histVars
  <2> QED
    BY <1>1, <2>1
<1>6. CASE MarkAuditResult
  <2>1. PICK ok \in BOOLEAN :
            /\ status' = IF ok THEN [status EXCEPT ![cur] = verdict] ELSE status
            /\ lost' = IF ok THEN lost ELSE lost + 1
    BY <1>6 DEF MarkAuditResult
  <2>2. /\ at = "mark" /\ withholds' = withholds /\ verdict \in Outcomes
        /\ at' = "withhold" => cur' = cur
    BY <1>6 DEF MarkAuditResult, NextReceipt, TypeOK
  <2>3. cur \in Receipts /\ status[cur] = "PENDING" /\ Due(cur) = withholds[cur] + 1
    BY <2>2 DEF TypeOK, TodoInv, Due
  <2>4. CASE ok
    <3>1. status'[cur] \notin {"none", "PENDING"}
          /\ \A r \in Receipts : r # cur => status'[r] = status[r]
      BY <2>1, <2>2, <2>3, <2>4 DEF TypeOK, Outcomes
    <3>2. ASSUME NEW r \in Receipts PROVE Due(r)' <= Due(r)
      BY <2>2, <2>3, <3>1 DEF Due, TypeOK
    <3> QED
      BY <2>1, <2>4, <3>2 DEF NoMoreDue
  <2>5. CASE ~ok
    <3>1. ASSUME NEW r \in Receipts
          PROVE  Due(r)' <= IF r = cur THEN withholds[r] + 2 ELSE Due(r)
      BY <2>1, <2>2, <2>3, <2>5 DEF Due, TypeOK
    <3> QED
      BY <2>1, <2>3, <2>5, <3>1 DEF OneMoreDue
  <2> QED
    BY <2>4, <2>5
<1>7. CASE Withhold
  <2>1. /\ at = "withhold" /\ at' = "count" /\ cur \in Receipts
        /\ UNCHANGED <<status, cur, lost>>
        /\ withholds' = withholds \/ withholds' = [withholds EXCEPT ![cur] = @ + 1]
    BY <1>7 DEF Withhold, histVars, TypeOK
  <2>2. ASSUME NEW r \in Receipts PROVE Due(r)' <= Due(r)
    BY <2>1 DEF Due, TypeOK
  <2> QED
    BY <2>1, <2>2 DEF NoMoreDue
<1>8. CASE UNCHANGED vars
    BY <1>1, <1>8 DEF vars, dbVars, loopVars, histVars
<1> QED
    BY <1>1, <1>2, <1>3, <1>4, <1>5, <1>6, <1>7, <1>8 DEF Next, Sessions, Loop

\* .. and so to Again.
LEMMA AgainMove ==
    ASSUME TypeOK, TypeOK', TodoInv, [Next]_vars
    PROVE  \/ Again' \subseteq Again /\ lost' = lost
           \/ Again' \subseteq Again \cup {<<cur, withholds[cur] + 2>>} /\ lost' = lost + 1
<1>1. \A r \in Receipts : Due(r) \in Nat /\ Due(r)' \in Nat
    BY DueType, DueType DEF TypeOK, Due
<1>2. CASE NoMoreDue
  <2> SUFFICES ASSUME NEW r \in Receipts, NEW n \in 2 .. Due(r)' PROVE n \in 2 .. Due(r)
    BY <1>2 DEF NoMoreDue, Again
  <2> QED
    BY <1>1, <1>2 DEF NoMoreDue
<1>3. CASE OneMoreDue
  <2> SUFFICES ASSUME NEW r \in Receipts, NEW n \in 2 .. Due(r)'
               PROVE  n \in 2 .. Due(r) \/ (r = cur /\ n = withholds[cur] + 2)
    BY <1>3 DEF OneMoreDue, Again
  <2>1. withholds[r] \in Nat
    BY DEF TypeOK
  <2> QED
    BY <1>1, <1>3, <2>1 DEF OneMoreDue
<1> QED
    BY <1>2, <1>3, DueMove

\* What is held against a wallet.
Offences(w) == Cardinality({r \in divergent : MinerOf[r] = w})

\* The rows of a wallet are the first ones of its divergent receipts, and others.
LEMMA RowsAreFew ==
    ASSUME TypeOK, PunishInv, IsFiniteSet(divergent), IsFiniteSet(Again), NEW w \in Wallets
    PROVE  WithholdsOf(w) \in Nat /\ WithholdsOf(w) <= Offences(w) + Cardinality(Again)
<1> DEFINE D == {r \in divergent : MinerOf[r] = w}
           F == {<<r, 1>> : r \in D}
           W == WithholdRows(w)
           f == [r \in D |-> <<r, 1>>]
<1>1. IsFiniteSet(D) /\ Cardinality(D) \in Nat
    BY FS_Subset, FS_CardinalityType
<1>2. f \in Surjection(D, F)
    BY DEF Surjection
<1>3. IsFiniteSet(F) /\ Cardinality(F) <= Cardinality(D)
    BY <1>1, <1>2, FS_Surjection DEF ExistsSurjection
<1>4. W \subseteq F \cup Again
  <2> SUFFICES ASSUME NEW r \in Receipts, MinerOf[r] = w, NEW n \in 1 .. withholds[r]
               PROVE  <<r, n>> \in F \cup Again
    BY DEF WithholdRows
  <2>1. withholds[r] \in Nat /\ withholds[r] > 0 /\ Due(r) \in Nat /\ withholds[r] <= Due(r)
    BY DEF TypeOK, Due
  <2>2. r \in D
    BY <2>1 DEF PunishInv, PunishedWasDivergent
  <2>3. n = 1 \/ n \in 2 .. Due(r)
    BY <2>1
  <2> QED
    BY <2>2, <2>3 DEF Again
<1>5. IsFiniteSet(F \cup Again)
      /\ Cardinality(F \cup Again) = Cardinality(F) + Cardinality(Again) - Cardinality(F \cap Again)
    BY <1>3, FS_Union
<1>6. IsFiniteSet(W) /\ Cardinality(W) <= Cardinality(F \cup Again)
    BY <1>4, <1>5, FS_Subset
<1>7. IsFiniteSet(F \cap Again)
    BY <1>3, FS_Subset
<1>8. /\ Cardinality(F) \in Nat /\ Cardinality(Again) \in Nat /\ Cardinality(W) \in Nat
      /\ Cardinality(F \cap Again) \in Nat /\ Cardinality(F \cup Again) \in Nat
    BY <1>3, <1>5, <1>6, <1>7, FS_CardinalityType
<1> HIDE DEF D, F, W
<1>9. Cardinality(W) <= Cardinality(D) + Cardinality(Again)
    BY <1>1, <1>3, <1>5, <1>6, <1>8
<1> QED
    BY <1>8, <1>9 DEF WithholdsOf, Offences, W, D

\* That never gets less.
LEMMA OffencesStay ==
    ASSUME TypeOK, TypeOK', [Next]_vars, IsFiniteSet(divergent)
    PROVE  /\ IsFiniteSet(divergent') /\ lost <= lost'
           /\ \A w \in Wallets : Offences(w) \in Nat /\ Offences(w)' \in Nat
                                 /\ Offences(w) <= Offences(w)'
<1>1. divergent \subseteq divergent' /\ (divergent' = divergent \/ divergent' = divergent \cup {cur})
    BY DEF Next, Sessions, Loop, Crash, Startup, Sample, Join, Announce, Leave, OnDisconnect,
       DeliverAuditResult, HandleAuditResult, TickStart, Unresolvable, Pick, PickNobody, Get,
       Assign, Pend, Send, SendFails, WaitDelivered, WaitGivenUp, Cleanup, Subprocess, Against,
       MarkAuditResult, Withhold, CountEjects, CountSpares, Eject, histVars, vars
<1>2. lost' = lost \/ lost' = lost + 1
    BY DEF Next, Sessions, Loop, Crash, Startup, Sample, Join, Announce, Leave, OnDisconnect,
       DeliverAuditResult, HandleAuditResult, TickStart, Unresolvable, Pick, PickNobody, Get,
       Assign, Pend, Send, SendFails, WaitDelivered, WaitGivenUp, Cleanup, Subprocess,
       MarkAuditResult, Withhold, CountEjects, CountSpares, Eject, histVars, vars
<1>3. IsFiniteSet(divergent')
    BY <1>1, FS_AddElement
<1>4. ASSUME NEW w \in Wallets
      PROVE  Offences(w) \in Nat /\ Offences(w)' \in Nat /\ Offences(w) <= Offences(w)'
  <2> DEFINE D == {r \in divergent : MinerOf[r] = w}
  <2>1. D \subseteq D' /\ D' \subseteq divergent'
    BY <1>1
  <2>2. IsFiniteSet(D')
    BY <1>3, <2>1, FS_Subset
  <2>3. IsFiniteSet(D) /\ Cardinality(D) <= Cardinality(D')
    BY <2>1, <2>2, FS_Subset
  <2> QED
    BY <2>2, <2>3, FS_CardinalityType DEF Offences
<1>5. lost <= lost'
    BY <1>2 DEF TypeOK
<1> QED
    BY <1>3, <1>4, <1>5

\* Who is banned or ejected was so before, or has just been counted.
LEMMA BansMove ==
    ASSUME TypeOK, RepeatInv, [Next]_vars
    PROVE  /\ \A w \in banned' \cup ejected' :
                w \in banned \cup ejected \/ WithholdsOf(w) >= EjectAfter
           /\ at' = "eject" => MinerOf[cur'] \in banned'
<1> USE DEF TypeOK, RepeatInv
<1>1. CASE CountEjects
    BY <1>1 DEF CountEjects, dbVars
<1>2. CASE Eject
    BY <1>2 DEF Eject, NextReceipt
<1>3. CASE Startup
    BY <1>3 DEF TodoInv, Startup, dbVars, loopVars
<1>4. CASE Crash
    BY <1>4 DEF Crash, dbVars
<1>5. CASE \/ TickStart \/ \E r \in Receipts : Unresolvable(r) \/ Pick(r) \/ PickNobody(r)
           \/ Get \/ Assign \/ Pend \/ Send \/ SendFails
           \/ WaitDelivered \/ WaitGivenUp \/ Cleanup \/ Subprocess
           \/ MarkAuditResult \/ Withhold \/ CountSpares
  <2>1. UNCHANGED <<banned, ejected>> /\ at' # "eject"
    BY <1>5 DEF TickStart, Unresolvable, Pick, PickNobody, Get, Assign, Pend, Send, SendFails,
       WaitDelivered, WaitGivenUp, Cleanup, Subprocess, MarkAuditResult, Withhold, CountSpares,
       NextReceipt, dbVars
  <2> QED
    BY <2>1
<1>6. CASE Sessions \/ \E r \in Receipts : Sample(r)
  <2>1. UNCHANGED <<banned, ejected, at, cur>>
    BY <1>6 DEF Sessions, Join, Announce, Leave, OnDisconnect, DeliverAuditResult,
       HandleAuditResult, Sample, dbVars, loopVars
  <2> QED
    BY <2>1
<1>7. CASE UNCHANGED vars
    BY <1>7 DEF vars, dbVars, loopVars
<1> QED
    BY <1>1, <1>2, <1>3, <1>4, <1>5, <1>6, <1>7 DEF Next, Loop

LEMMA RepeatStep ==
    TypeOK /\ TypeOK' /\ PunishInv /\ RepeatInv /\ [Next]_vars => RepeatInv'
<1> SUFFICES ASSUME TypeOK, TypeOK', PunishInv, RepeatInv, [Next]_vars PROVE RepeatInv'
    OBVIOUS
<1>1. TodoInv'
    BY TodoStep DEF RepeatInv
<1>2. lost \in Nat /\ lost' \in Nat
    BY DEF TypeOK
<1>3. IsFiniteSet(Again) /\ Cardinality(Again) \in Nat /\ Cardinality(Again) <= lost
    BY FS_CardinalityType DEF RepeatInv
<1>4. IsFiniteSet(Again') /\ Cardinality(Again') <= lost'
  <2>1. CASE Again' \subseteq Again /\ lost' = lost
    <3>1. IsFiniteSet(Again') /\ Cardinality(Again') <= Cardinality(Again)
      BY <1>3, <2>1, FS_Subset
    <3>2. Cardinality(Again') \in Nat
      BY <3>1, FS_CardinalityType
    <3> QED
      BY <1>2, <1>3, <2>1, <3>1, <3>2
  <2>2. CASE Again' \subseteq Again \cup {<<cur, withholds[cur] + 2>>} /\ lost' = lost + 1
    <3> DEFINE B == Again \cup {<<cur, withholds[cur] + 2>>}
    <3>1. IsFiniteSet(B) /\ Cardinality(B) <= Cardinality(Again) + 1
      BY <1>3, FS_AddElement
    <3>2. IsFiniteSet(Again') /\ Cardinality(Again') <= Cardinality(B)
      BY <2>2, <3>1, FS_Subset
    <3>3. Cardinality(Again') \in Nat /\ Cardinality(B) \in Nat
      BY <3>1, <3>2, FS_CardinalityType
    <3> HIDE DEF B
    <3> QED
      BY <1>2, <1>3, <2>2, <3>1, <3>2, <3>3
  <2> QED
    BY <2>1, <2>2, AgainMove DEF RepeatInv
<1>5. IsFiniteSet(divergent) /\ IsFiniteSet(divergent') /\ lost <= lost'
    BY OffencesStay DEF RepeatInv
<1>6. ASSUME NEW w \in banned' \cup ejected' PROVE Offences(w)' + lost' >= EjectAfter
  <2>1. w \in Wallets
    BY DEF TypeOK
  <2>2. Offences(w) \in Nat /\ Offences(w)' \in Nat /\ Offences(w) <= Offences(w)'
    BY <1>5, <2>1, OffencesStay
  <2>3. Offences(w) + lost >= EjectAfter
    <3>1. CASE w \in banned \cup ejected
      BY <3>1 DEF RepeatInv, EjectedIsRepeatOffender, Offences
    <3>2. CASE WithholdsOf(w) >= EjectAfter
      <4>1. WithholdsOf(w) \in Nat /\ WithholdsOf(w) <= Offences(w) + Cardinality(Again)
        BY <1>3, <1>5, <2>1, RowsAreFew
      <4> QED
        BY <1>2, <1>3, <2>2, <3>2, <4>1, ConstAssumption
    <3> QED
      BY <3>1, <3>2, BansMove
  <2> QED
    BY <1>2, <1>5, <2>2, <2>3, ConstAssumption
<1> QED
    BY <1>1, <1>4, <1>5, <1>6, BansMove DEF RepeatInv, EjectedIsRepeatOffender, Offences

\* A wallet is ejected only for as many divergent responses as the threshold
\* says, less the audit results that were lost: a response whose verdict was
\* recorded is never counted twice by count_withhold_consequences.
THEOREM EjectionIsEarned == Spec => []EjectedIsRepeatOffender
<1>1. Init => TypeOK /\ PunishInv /\ RepeatInv
  <2> SUFFICES ASSUME Init PROVE TypeOK /\ PunishInv /\ RepeatInv
    OBVIOUS
  <2>1. TypeOK /\ PunishInv
    BY ConstAssumption DEF Init, NobodyWaits, TypeOK, Steps, PunishInv, PunishedWasDivergent
  <2>2. \A r \in Receipts : Due(r) = 1
    BY DEF Init, Due
  <2>3. Again = {}
    BY <2>2 DEF Again
  <2> QED
    BY <2>1, <2>3, FS_EmptySet DEF Init, RepeatInv, TodoInv, EjectedIsRepeatOffender
<1>2. TypeOK /\ PunishInv /\ RepeatInv /\ [Next]_vars => TypeOK' /\ PunishInv' /\ RepeatInv'
    BY TypeStep, PunishStep, RepeatStep
<1>3. RepeatInv => EjectedIsRepeatOffender
    BY DEF RepeatInv
<1> QED
    BY <1>1, <1>2, <1>3, PTL DEF Spec
=============================================================================
