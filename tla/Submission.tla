----------------------------- MODULE Submission -----------------------------
(***************************************************************************)
(* What the bridge promises about one row of opoi_submissions, whatever    *)
(* crashes, timeouts and retries happen underneath: the life cycle the     *)
(* schema documents (migrations/0001_init.sql: RECEIVED -> COMMITTED ->    *)
(* REVEALED -> PUBLISHED, or FAILED), one live row per request, and a row  *)
(* marked paid only after a payout for it left the wallet.                 *)
(***************************************************************************)
CONSTANTS Rows, Requests, RequestOf

VARIABLES phase, sent, settled

subVars == <<phase, sent, settled>>

Phases == {"none", "RECEIVED", "COMMITTED", "REVEALED", "PUBLISHED", "FAILED"}

IsLive(s) == phase[s] \notin {"none", "FAILED"}

Init ==
    /\ phase = [s \in Rows |-> "none"]
    /\ sent = {}
    /\ settled = {}

\* A miner's answer is recorded, unless the request has a live row.
Record(s) ==
    /\ phase[s] = "none"
    /\ \A t \in Rows : RequestOf[t] = RequestOf[s] => ~IsLive(t)
    /\ phase' = [phase EXCEPT ![s] = "RECEIVED"]
    /\ UNCHANGED <<sent, settled>>

\* The only moves of a recorded row; FAILED and PUBLISHED are final.
Moves == {<<"RECEIVED", "COMMITTED">>, <<"RECEIVED", "FAILED">>,
          <<"COMMITTED", "REVEALED">>, <<"REVEALED", "PUBLISHED">>}

Advance(s) ==
    /\ \E m \in Moves : phase[s] = m[1] /\ phase' = [phase EXCEPT ![s] = m[2]]
    /\ UNCHANGED <<sent, settled>>

\* A payout covers published rows only.
Pay(batch) ==
    /\ \A s \in batch : phase[s] = "PUBLISHED"
    /\ sent' = sent \cup batch
    /\ UNCHANGED <<phase, settled>>

\* Rows become settled; a live one only once a payout covered it.
Settle(batch) ==
    /\ \A s \in batch : phase[s] = "FAILED" \/ (phase[s] = "PUBLISHED" /\ s \in sent)
    /\ settled' = settled \cup batch
    /\ UNCHANGED <<phase, sent>>

Next ==
    \/ \E s \in Rows : Record(s) \/ Advance(s)
    \/ \E batch \in SUBSET Rows : Pay(batch) \/ Settle(batch)

Spec == Init /\ [][Next]_subVars
=============================================================================
