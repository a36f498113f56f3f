------------------------------ MODULE Dispatch ------------------------------
(***************************************************************************)
(* How a whole-model OPoI request reaches a miner and how the miner's      *)
(* answer becomes a submission row: proxy/session.rs (one session per      *)
(* stratum connection), miner_registry.rs, opoi/assignment.rs, and the     *)
(* part of opoi/engine.rs that runs before do_commit.                      *)
(*                                                                         *)
(* Concurrent activities: one session per connection (its reader handles   *)
(* one line at a time; its select! drops a pending handler when the        *)
(* upstream side ends), the poll_and_assign loop (one tick at a time), and *)
(* any number of HTTP prompt posts.  A step ends where the code awaits or  *)
(* releases a lock, so every step is one atomic access to the shared maps  *)
(* or to the database.                                                     *)
(***************************************************************************)
EXTENDS MinerRegistry

CONSTANTS
    Requests,      \* request ids
    Wallets,       \* miner wallet addresses
    Conns,         \* stratum connections; each one is used once
    None,          \* no wallet, no request, no connection
    ShardRouted,   \* requests whose model has an ACTIVE manifest
    PriorRows,     \* requests with a live submission row from an earlier run
    Ejectable,     \* wallets the auditor may eject
    Described,     \* requests whose prompt comes with model and max_tokens
    Reauthorize,   \* may a connection authorize a second, different wallet?
    MaxPosts       \* bound on the prompt posts per request

ASSUME ConstAssumption ==
    /\ None \notin Requests /\ None \notin Wallets /\ None \notin Conns
    /\ ShardRouted \subseteq Requests
    /\ PriorRows \subseteq Requests
    /\ Ejectable \subseteq Wallets
    /\ Described \subseteq Requests
    /\ Reauthorize \in BOOLEAN
    /\ MaxPosts \in Nat

VARIABLES
    \* MinerRegistry: key order, the channel under each key, ejected wallets
    miners, channel, banned,
    \* OpoiEngine: last_assigned, the pending cache, the AssignmentTracker
    last, pending, assigned,
    \* sessions: progress, auth.pending, auth.confirmed, is the writer alive,
    \* and the handle_submit_result call in flight
    stage, candidate, confirmed, writer, call,
    \* the poll_and_assign tick in flight
    pc, todo, cur, wal, tx,
    \* receive_prompt calls awaiting get_request, and posts made so far
    fetching, posts,
    \* the database: miner_wallet of the live (non-FAILED) row; and the
    \* requests whose submission was handed over to do_commit
    active, recorded,
    \* the chain, as csd reports it
    chain,
    \* history: who was ever assigned what
    offered

registryVars == <<miners, channel, banned>>
engineVars   == <<last, pending, assigned>>
sessionVars  == <<stage, candidate, confirmed, writer, call>>
pollVars     == <<pc, todo, cur, wal, tx>>
promptVars   == <<fetching, posts>>
worldVars    == <<active, recorded, chain, offered>>
vars == <<registryVars, engineVars, sessionVars, pollVars, promptVars, worldVars>>

Stages    == {"fresh", "open", "ending", "unregistered", "released", "closed"}
CallSteps == {"idle", "findActive", "insert", "inserted", "unassigned"}
PollSteps == {"idle", "cache", "find", "insert",
              "assign", "manifest", "pick", "try", "get", "send"}

Calls  == [at : CallSteps, req : Requests \cup {None}, wallet : Wallets \cup {None}]
NoCall == [at |-> "idle", req |-> None, wallet |-> None]

\* The value of every variable, and which locals are set at which step.
TypeOK ==
    /\ miners \in Seq(Wallets)
    /\ channel \in [Wallets -> Conns \cup {None}]
    /\ banned \subseteq Wallets
    /\ last \in Wallets \cup {None}
    /\ pending \in [Requests -> {"absent", "noPrompt", "prompt", "provisional"}]
    /\ assigned \in [Requests -> Wallets \cup {None}]
    /\ stage \in [Conns -> Stages]
    /\ candidate \in [Conns -> Wallets \cup {None}]
    /\ confirmed \in [Conns -> Wallets \cup {None}]
    /\ writer \in [Conns -> BOOLEAN]
    /\ call \in [Conns -> Calls]
    /\ pc \in PollSteps
    /\ todo \subseteq Requests
    /\ cur \in Requests \cup {None}
    /\ wal \in Wallets \cup {None}
    /\ tx \in Conns \cup {None}
    /\ fetching \subseteq Requests
    /\ posts \in [Requests -> Nat]
    /\ active \in [Requests -> Wallets \cup {None}]
    /\ recorded \subseteq Requests
    /\ chain \in [Requests -> {"unknown", "pending", "done"}]
    /\ offered \subseteq Requests \X Wallets
    /\ pc \in {"find", "insert", "manifest", "pick", "try", "get", "send"}
          => cur \in Requests
    /\ pc \in {"try", "get", "send"} => wal \in Wallets
    /\ pc = "send" => tx \in Conns
    /\ \A c \in Conns :
        /\ call[c].at # "idle" => call[c].req # None /\ call[c].wallet # None
        /\ stage[c] \in {"ending", "unregistered"} => confirmed[c] # None

\* The process has just started: recover_on_startup has driven every row of
\* an earlier run out of RECEIVED, nobody is connected, nothing is cached.
Init ==
    /\ miners = <<>>
    /\ channel = [w \in Wallets |-> None]
    /\ banned = {}
    /\ last = None
    /\ pending = [r \in Requests |-> "absent"]
    /\ assigned = [r \in Requests |-> None]
    /\ stage = [c \in Conns |-> "fresh"]
    /\ candidate = [c \in Conns |-> None]
    /\ confirmed = [c \in Conns |-> None]
    /\ writer = [c \in Conns |-> FALSE]
    /\ call = [c \in Conns |-> NoCall]
    /\ pc = "idle" /\ todo = {} /\ cur = None /\ wal = None /\ tx = None
    /\ fetching = {}
    /\ posts = [r \in Requests |-> 0]
    /\ active \in [Requests -> Wallets \cup {None}]
    /\ \A r \in Requests : active[r] # None <=> r \in PriorRows
    /\ recorded = PriorRows
    /\ chain \in [Requests -> {"unknown", "pending"}]
    /\ offered = {p \in Requests \X Wallets : p[2] = active[p[1]]}

-----------------------------------------------------------------------------
(* AssignmentTracker (opoi/assignment.rs)                                  *)

remove(r) == assigned' = [assigned EXCEPT ![r] = None]

release_for_wallet(w) ==
    assigned' = [r \in Requests |-> IF assigned[r] = w THEN None ELSE assigned[r]]

-----------------------------------------------------------------------------
(* Sessions (proxy/session.rs)                                             *)

\* run_session: the upstream pool was dialled, the writers are running.
Connect(c) ==
    /\ stage[c] = "fresh"
    /\ stage' = [stage EXCEPT ![c] = "open"]
    /\ writer' = [writer EXCEPT ![c] = TRUE]
    /\ UNCHANGED <<registryVars, engineVars, candidate, confirmed, call,
                   pollVars, promptVars, worldVars>>

\* down_reader_loop, mining.authorize: stash the candidate wallet.  The
\* reader handles one line at a time, so no submit is being handled.
MiningAuthorize(c, w) ==
    /\ stage[c] = "open" /\ call[c] = NoCall
    /\ Reauthorize \/ confirmed[c] \in {None, w}
    /\ candidate' = [candidate EXCEPT ![c] = w]
    /\ UNCHANGED <<registryVars, engineVars, stage, confirmed, writer, call,
                   pollVars, promptVars, worldVars>>

\* up_reader_loop: the pool accepted the authorize (id 2, result true).  The
\* candidate is taken, confirmed, and registered under its wallet.
AuthorizeAccepted(c) ==
    /\ stage[c] = "open" /\ candidate[c] # None
    /\ confirmed' = [confirmed EXCEPT ![c] = candidate[c]]
    /\ candidate' = [candidate EXCEPT ![c] = None]
    /\ miners' = register(miners, candidate[c])
    /\ channel' = [channel EXCEPT ![candidate[c]] = c]
    /\ UNCHANGED <<banned, engineVars, stage, writer, call,
                   pollVars, promptVars, worldVars>>

\* writer_task: a write fails, the task ends and drops the receiver while the
\* readers (and the registry entry) are still there.
WriterFails(c) ==
    /\ stage[c] = "open" /\ writer[c]
    /\ writer' = [writer EXCEPT ![c] = FALSE]
    /\ UNCHANGED <<registryVars, engineVars, stage, candidate, confirmed, call,
                   pollVars, promptVars, worldVars>>

\* run_session's select!: one reader ended.  When it is the upstream one, a
\* submit being handled is dropped at its await; the code from the removal
\* of the assignment to the spawn of do_commit has no await to be dropped at.
SessionEnds(c) ==
    /\ stage[c] = "open" /\ call[c].at # "unassigned"
    /\ stage' = [stage EXCEPT ![c] =
                    IF confirmed[c] = None THEN "released" ELSE "ending"]
    /\ call' = [call EXCEPT ![c] = NoCall]
    /\ candidate' = [candidate EXCEPT ![c] = None]
    /\ UNCHANGED <<registryVars, engineVars, confirmed, writer,
                   pollVars, promptVars, worldVars>>

\* Mutant of Unregister: the registry entry survives its session.
UnregisterSkipped(c) ==
    /\ stage[c] = "ending"
    /\ stage' = [stage EXCEPT ![c] = "unregistered"]
    /\ UNCHANGED <<registryVars, engineVars, candidate, confirmed, writer, call,
                   pollVars, promptVars, worldVars>>

\* Cleanup, first call: registry.unregister(wallet).
Unregister(c) ==
    /\ stage[c] = "ending"
    /\ miners' = unregister(miners, confirmed[c])
    /\ channel' = [channel EXCEPT ![confirmed[c]] = None]
    /\ stage' = [stage EXCEPT ![c] = "unregistered"]
    /\ UNCHANGED <<banned, engineVars, candidate, confirmed, writer, call,
                   pollVars, promptVars, worldVars>>

\* Mutant of OnDisconnect: the engine keeps the assignments.
OnDisconnectKeeps(c) ==
    /\ stage[c] = "unregistered"
    /\ stage' = [stage EXCEPT ![c] = "released"]
    /\ UNCHANGED <<registryVars, engineVars, candidate, confirmed, writer,
                   call, pollVars, promptVars, worldVars>>

\* Cleanup, second call: handler.on_disconnect(wallet).
OnDisconnect(c) ==
    /\ stage[c] = "unregistered"
    /\ release_for_wallet(confirmed[c])
    /\ stage' = [stage EXCEPT ![c] = "released"]
    /\ UNCHANGED <<registryVars, last, pending, candidate, confirmed, writer,
                   call, pollVars, promptVars, worldVars>>

\* Cleanup, end: the other engines' on_disconnect, then the writers abort.
AbortWriters(c) ==
    /\ stage[c] = "released"
    /\ stage' = [stage EXCEPT ![c] = "closed"]
    /\ writer' = [writer EXCEPT ![c] = FALSE]
    /\ confirmed' = [confirmed EXCEPT ![c] = None]
    /\ UNCHANGED <<registryVars, engineVars, candidate, call,
                   pollVars, promptVars, worldVars>>

\* B3LiteAuditor ejects a wallet (registry.ban); nothing ever lifts it.
Ban(w) ==
    /\ w \in Ejectable \ banned
    /\ banned' = banned \cup {w}
    /\ UNCHANGED <<miners, channel, engineVars, sessionVars,
                   pollVars, promptVars, worldVars>>

-----------------------------------------------------------------------------
(* receive_prompt (opoi/engine.rs, called by POST /cscoin/opoi/prompt)     *)

\* The entry is cached with a prompt, be its data csd's or made up.
HasPrompt(r) == pending[r] \in {"prompt", "provisional"}

\* A cached request gets its prompt at once; otherwise csd is asked.
PostPrompt(r) ==
    /\ posts[r] < MaxPosts
    /\ posts' = [posts EXCEPT ![r] = @ + 1]
    /\ IF pending[r] # "absent"
       THEN /\ pending' = [pending EXCEPT ![r] =
                              IF @ = "provisional" THEN @ ELSE "prompt"]
            /\ UNCHANGED fetching
       ELSE /\ fetching' = fetching \cup {r}
            /\ UNCHANGED pending
    /\ UNCHANGED <<registryVars, last, assigned, sessionVars, pollVars, worldVars>>

\* get_request answered with the request: the entry is written, over whatever
\* was cached meanwhile.
PromptCached(r) ==
    /\ r \in fetching
    /\ fetching' = fetching \ {r}
    /\ pending' = [pending EXCEPT ![r] = "prompt"]
    /\ UNCHANGED <<registryVars, last, assigned, sessionVars, pollVars,
                   posts, worldVars>>

\* get_request failed, but the caller described the request (optimistic
\* dispatch): the entry is written with no prompt_hash and no payment.
PromptProvisional(r) ==
    /\ r \in fetching \cap Described
    /\ fetching' = fetching \ {r}
    /\ pending' = [pending EXCEPT ![r] = "provisional"]
    /\ UNCHANGED <<registryVars, last, assigned, sessionVars, pollVars,
                   posts, worldVars>>

\* get_request failed and the caller did not: 404, nothing changes.
PromptRefused(r) ==
    /\ r \in fetching \ Described
    /\ fetching' = fetching \ {r}
    /\ UNCHANGED <<registryVars, engineVars, sessionVars, pollVars,
                   posts, worldVars>>

-----------------------------------------------------------------------------
(* poll_and_assign_tick (opoi/engine.rs)                                   *)

\* list_pending_requests succeeded (if it fails, the tick ends where it began).
PollStart ==
    /\ pc = "idle"
    /\ pc' = "cache"
    /\ todo' = {r \in Requests : chain[r] = "pending"}
    /\ UNCHANGED <<registryVars, engineVars, sessionVars, cur, wal, tx,
                   promptVars, worldVars>>

\* The entry is cached already, or its lookup in the database begins.
PollContainsKey(r) ==
    /\ pc = "cache" /\ r \in todo
    /\ IF pending[r] # "absent"
       THEN todo' = todo \ {r} /\ UNCHANGED <<pc, cur>>
       ELSE cur' = r /\ pc' = "find" /\ UNCHANGED todo
    /\ UNCHANGED <<registryVars, engineVars, sessionVars, wal, tx,
                   promptVars, worldVars>>

\* find_active_by_request_id answers.
PollFindActive ==
    /\ pc = "find"
    /\ IF active[cur] # None
       THEN pc' = "cache" /\ todo' = todo \ {cur} /\ cur' = None
       ELSE pc' = "insert" /\ UNCHANGED <<todo, cur>>
    /\ UNCHANGED <<registryVars, engineVars, sessionVars, wal, tx,
                   promptVars, worldVars>>

\* find_active_by_request_id fails: `?` gives up the whole tick.
PollFindFails ==
    /\ pc = "find"
    /\ pc' = "idle" /\ todo' = {} /\ cur' = None
    /\ UNCHANGED <<registryVars, engineVars, sessionVars, wal, tx,
                   promptVars, worldVars>>

\* entry(..).or_insert_with(..): a concurrently written entry stays.
PollInsert ==
    /\ pc = "insert"
    /\ pending' = [pending EXCEPT ![cur] = IF @ = "absent" THEN "noPrompt" ELSE @]
    /\ pc' = "cache" /\ todo' = todo \ {cur} /\ cur' = None
    /\ UNCHANGED <<registryVars, last, assigned, sessionVars, wal, tx,
                   promptVars, worldVars>>

\* Collect the candidates: cached with a prompt, assigned to nobody.
PollCollect ==
    /\ pc = "cache" /\ todo = {}
    /\ todo' = {r \in Requests : HasPrompt(r) /\ assigned[r] = None}
    /\ pc' = IF todo' = {} THEN "idle" ELSE "assign"
    /\ UNCHANGED <<registryVars, engineVars, sessionVars, cur, wal, tx,
                   promptVars, worldVars>>

\* Candidate r is dealt with; after the last one the tick is over.
Continue(r) ==
    /\ todo' = todo \ {r}
    /\ pc' = IF todo' = {} THEN "idle" ELSE "assign"
    /\ cur' = None /\ wal' = None /\ tx' = None

\* The next candidate is looked up again; its prompt is unwrapped here.
PollTake(r) ==
    /\ pc = "assign" /\ r \in todo
    /\ IF pending[r] = "absent"
       THEN Continue(r)
       ELSE cur' = r /\ pc' = "manifest" /\ UNCHANGED <<todo, wal, tx>>
    /\ UNCHANGED <<registryVars, engineVars, sessionVars, promptVars, worldVars>>

\* Mutant of PollManifestInactive: a failed manifest check fails open.
PollManifestFailsOpen ==
    /\ pc = "manifest"
    /\ pc' = "pick"
    /\ UNCHANGED <<registryVars, engineVars, sessionVars, todo, cur, wal, tx,
                   promptVars, worldVars>>

\* get_model_manifest says not ACTIVE, or "not found".
PollManifestInactive ==
    /\ pc = "manifest" /\ cur \notin ShardRouted
    /\ pc' = "pick"
    /\ UNCHANGED <<registryVars, engineVars, sessionVars, todo, cur, wal, tx,
                   promptVars, worldVars>>

\* ACTIVE, or any other error: the candidate is skipped in this tick.
PollManifestSkip ==
    /\ pc = "manifest"
    /\ Continue(cur)
    /\ UNCHANGED <<registryVars, engineVars, sessionVars, promptVars, worldVars>>

\* pick_next under the last_assigned lock.
PollPick ==
    /\ pc = "pick"
    /\ \E w \in Wallets :
        /\ PicksNext(miners, last, banned, w)
        /\ last' = w /\ wal' = w
    /\ pc' = "try"
    /\ UNCHANGED <<registryVars, pending, assigned, sessionVars, todo, cur, tx,
                   promptVars, worldVars>>

\* Nobody to assign to: break out of the tick.
PollPickNobody ==
    /\ pc = "pick" /\ PicksNobody(miners, banned)
    /\ pc' = "idle" /\ todo' = {} /\ cur' = None
    /\ UNCHANGED <<registryVars, engineVars, sessionVars, wal, tx,
                   promptVars, worldVars>>

\* try_assign: atomic check-and-insert in the AssignmentTracker.
PollTryAssign ==
    /\ pc = "try"
    /\ IF assigned[cur] = None
       THEN /\ assigned' = [assigned EXCEPT ![cur] = wal]
            /\ offered' = offered \cup {<<cur, wal>>}
            /\ pc' = "get"
            /\ UNCHANGED <<todo, cur, wal, tx>>
       ELSE Continue(cur) /\ UNCHANGED <<assigned, offered>>
    /\ UNCHANGED <<registryVars, last, pending, sessionVars, promptVars,
                   active, recorded, chain>>

\* Mutant of PollGet: a vanished entry is skipped without releasing.
PollGetNoRelease ==
    /\ pc = "get"
    /\ IF channel[wal] = None
       THEN Continue(cur)
       ELSE /\ tx' = channel[wal] /\ pc' = "send"
            /\ UNCHANGED <<todo, cur, wal>>
    /\ UNCHANGED <<registryVars, engineVars, sessionVars, promptVars, worldVars>>

\* Mutant of PollGet: the entry is taken for granted after pick_next.
PollGetUnchecked ==
    /\ pc = "get"
    /\ tx' = channel[wal] /\ pc' = "send"
    /\ UNCHANGED <<registryVars, engineVars, sessionVars, todo, cur, wal,
                   promptVars, worldVars>>

\* registry.get: the channel, or the entry vanished and the request is released.
PollGet ==
    /\ pc = "get"
    /\ IF channel[wal] = None
       THEN remove(cur) /\ Continue(cur)
       ELSE /\ tx' = channel[wal] /\ pc' = "send"
            /\ UNCHANGED <<assigned, todo, cur, wal>>
    /\ UNCHANGED <<registryVars, last, pending, sessionVars, promptVars, worldVars>>

\* Mutant of PollSend: the two arms of the match are swapped.
PollSendSwapped ==
    /\ pc = "send"
    /\ IF writer[tx] THEN remove(cur) ELSE UNCHANGED assigned
    /\ Continue(cur)
    /\ UNCHANGED <<registryVars, last, pending, sessionVars, promptVars, worldVars>>

\* tx.send(opoi.assign): fails, and releases, when the receiver is gone.
PollSend ==
    /\ pc = "send"
    /\ IF writer[tx] THEN UNCHANGED assigned ELSE remove(cur)
    /\ Continue(cur)
    /\ UNCHANGED <<registryVars, last, pending, sessionVars, promptVars, worldVars>>

-----------------------------------------------------------------------------
(* handle_submit_result (opoi/engine.rs, called by the down reader)        *)

\* Mutant of SubmitAssigned: any authorized miner may answer any request.
SubmitUnverified(c, r) ==
    /\ stage[c] = "open" /\ call[c] = NoCall
    /\ confirmed[c] # None
    /\ call' = [call EXCEPT ![c] =
                   [at |-> "findActive", req |-> r, wallet |-> confirmed[c]]]
    /\ UNCHANGED <<registryVars, engineVars, stage, candidate, confirmed, writer,
                   pollVars, promptVars, worldVars>>

\* opoi.submit_result arrives on an authorized connection and passes the
\* assignee check (a call that does not pass it changes nothing).
SubmitAssigned(c, r) ==
    /\ stage[c] = "open" /\ call[c] = NoCall
    /\ confirmed[c] # None /\ assigned[r] = confirmed[c]
    /\ call' = [call EXCEPT ![c] =
                   [at |-> "findActive", req |-> r, wallet |-> confirmed[c]]]
    /\ UNCHANGED <<registryVars, engineVars, stage, candidate, confirmed, writer,
                   pollVars, promptVars, worldVars>>

\* find_active_by_request_id finds no live row, and the hash matches.
SubmitFindActive(c) ==
    /\ call[c].at = "findActive" /\ active[call[c].req] = None
    /\ call' = [call EXCEPT ![c].at = "insert"]
    /\ UNCHANGED <<registryVars, engineVars, stage, candidate, confirmed, writer,
                   pollVars, promptVars, worldVars>>

\* create_submission commits: the partial unique index admits one live row.
SubmitInsert(c) ==
    /\ call[c].at = "insert" /\ active[call[c].req] = None
    /\ active' = [active EXCEPT ![call[c].req] = call[c].wallet]
    /\ call' = [call EXCEPT ![c].at = "inserted"]
    /\ UNCHANGED <<registryVars, engineVars, stage, candidate, confirmed, writer,
                   pollVars, promptVars, recorded, chain, offered>>

\* The call returns an error: a live row exists, the hash does not match, the
\* index refuses the row, or the database fails, even after the INSERT.
SubmitError(c) ==
    /\ call[c].at \in {"findActive", "insert", "inserted"}
    /\ call' = [call EXCEPT ![c] = NoCall]
    /\ UNCHANGED <<registryVars, engineVars, stage, candidate, confirmed, writer,
                   pollVars, promptVars, worldVars>>

\* assignments.remove: the request is spoken for.
SubmitUnassign(c) ==
    /\ call[c].at = "inserted"
    /\ remove(call[c].req)
    /\ call' = [call EXCEPT ![c].at = "unassigned"]
    /\ UNCHANGED <<registryVars, last, pending, stage, candidate, confirmed,
                   writer, pollVars, promptVars, worldVars>>

\* Mutant of SubmitSpawn: the entry is kept, only its prompt is dropped.
SubmitSpawnKeepsEntry(c) ==
    /\ call[c].at = "unassigned"
    /\ pending' = [pending EXCEPT ![call[c].req] = "noPrompt"]
    /\ recorded' = recorded \cup {call[c].req}
    /\ call' = [call EXCEPT ![c] = NoCall]
    /\ UNCHANGED <<registryVars, last, assigned, stage, candidate, confirmed,
                   writer, pollVars, promptVars, active, chain, offered>>

\* pending.remove, then do_commit is spawned.
SubmitSpawn(c) ==
    /\ call[c].at = "unassigned"
    /\ pending' = [pending EXCEPT ![call[c].req] = "absent"]
    /\ recorded' = recorded \cup {call[c].req}
    /\ call' = [call EXCEPT ![c] = NoCall]
    /\ UNCHANGED <<registryVars, last, assigned, stage, candidate, confirmed,
                   writer, pollVars, promptVars, active, chain, offered>>

-----------------------------------------------------------------------------
(* The rest of the bridge and the chain                                    *)

\* do_commit gives up: the row is FAILED, the request may be answered again.
\* Rows of an earlier run are past their commit.
CommitFails(r) ==
    /\ r \in recorded \ PriorRows
    /\ active' = [active EXCEPT ![r] = None]
    /\ recorded' = recorded \ {r}
    /\ UNCHANGED <<registryVars, engineVars, sessionVars, pollVars, promptVars,
                   chain, offered>>

\* A request is confirmed on-chain; later csd stops listing it as PENDING.
ChainConfirms(r) ==
    /\ chain[r] = "unknown"
    /\ chain' = [chain EXCEPT ![r] = "pending"]
    /\ UNCHANGED <<registryVars, engineVars, sessionVars, pollVars, promptVars,
                   active, recorded, offered>>

ChainSettles(r) ==
    /\ chain[r] = "pending"
    /\ chain' = [chain EXCEPT ![r] = "done"]
    /\ UNCHANGED <<registryVars, engineVars, sessionVars, pollVars, promptVars,
                   active, recorded, offered>>

-----------------------------------------------------------------------------
Session(c) ==
    \/ Connect(c) \/ \E w \in Wallets : MiningAuthorize(c, w)
    \/ AuthorizeAccepted(c) \/ WriterFails(c) \/ SessionEnds(c)
    \/ Unregister(c) \/ OnDisconnect(c) \/ AbortWriters(c)

Submit(c) ==
    \/ \E r \in Requests : SubmitAssigned(c, r)
    \/ SubmitFindActive(c) \/ SubmitInsert(c) \/ SubmitError(c)
    \/ SubmitUnassign(c) \/ SubmitSpawn(c)

Prompt(r) ==
    \/ PostPrompt(r) \/ PromptCached(r) \/ PromptProvisional(r) \/ PromptRefused(r)

Poll ==
    \/ PollStart \/ \E r \in Requests : PollContainsKey(r) \/ PollTake(r)
    \/ PollFindActive \/ PollFindFails \/ PollInsert \/ PollCollect
    \/ PollManifestInactive \/ PollManifestSkip \/ PollPick \/ PollPickNobody
    \/ PollTryAssign \/ PollGet \/ PollSend

World(r) == CommitFails(r) \/ ChainConfirms(r) \/ ChainSettles(r)

Next ==
    \/ \E c \in Conns : Session(c) \/ Submit(c)
    \/ \E r \in Requests : Prompt(r) \/ World(r)
    \/ \E w \in Wallets : Ban(w)
    \/ Poll

Spec == Init /\ [][Next]_vars

-----------------------------------------------------------------------------
(* Safety                                                                  *)

\* The session will still run the cleanup that releases its assignments.
WillRelease(c) == stage[c] \in {"open", "ending", "unregistered"}

\* "Otherwise a mid-flight disconnect would strand that request_id forever"
\* (run_session's cleanup): whoever a request is assigned to still has a
\* session whose cleanup will release it, unless the tick that assigned it
\* has yet to look the channel up (and releases it itself if it is gone).
\* Rests on the orders try_assign -> get and unregister -> release.
NoStrandedAssignment ==
    \A r \in Requests : assigned[r] # None =>
        \/ pc = "get" /\ cur = r
        \/ \E c \in Conns : confirmed[c] = assigned[r] /\ WillRelease(c)

\* MinerRegistry never leads to a channel of a session that has ended its
\* cleanup, nor to the session of another wallet.
RegistryLive ==
    \A w \in Wallets : channel[w] # None =>
        /\ confirmed[channel[w]] = w
        /\ stage[channel[w]] \in {"open", "ending"}

\* The assignee check of handle_submit_result, across its awaits and across
\* reassignments meanwhile: the wallet a live row credits was assigned that
\* request at some time ("any miner can answer any request_id" is gone).
CreditedWasOffered ==
    \A r \in Requests : active[r] # None => <<r, active[r]>> \in offered

\* poll_and_assign_tick unwraps the prompt of a candidate it collected before
\* earlier candidates' RPCs; a None there would panic and end the loop.
UnwrapNeverPanics ==
    pc = "assign" => \A r \in todo : pending[r] # "noPrompt"

\* A request of a model with an ACTIVE manifest is ShardEngine's: the manifest
\* check fails closed, so it is never assigned here, whatever csd answers.
ShardRoutedNotAssigned == \A r \in ShardRouted : assigned[r] = None

\* "Tracks currently-connected, authorized downstream miners": a wallet with
\* an open, authorized connection is registered.
ConnectedIsRegistered ==
    \A c \in Conns : stage[c] = "open" /\ confirmed[c] # None
                        => channel[confirmed[c]] # None

-----------------------------------------------------------------------------
(* Liveness.  Every spawned loop and every session's cleanup runs on (weak *)
(* fairness); csd and the database do not fail for ever on a call that is  *)
(* made again and again (strong fairness of the successful answers).       *)

Fairness ==
    /\ WF_vars(PollStart) /\ WF_vars(PollInsert) /\ WF_vars(PollCollect)
    /\ WF_vars(PollPick) /\ WF_vars(PollPickNobody) /\ WF_vars(PollTryAssign)
    /\ WF_vars(PollGet) /\ WF_vars(PollSend)
    /\ WF_vars(PollManifestSkip)
    /\ \A r \in Requests :
        /\ WF_vars(PollContainsKey(r)) /\ WF_vars(PollTake(r))
        /\ SF_vars(PollFindActive /\ cur = r)
        /\ SF_vars(PollManifestInactive /\ cur = r)
    /\ \A c \in Conns :
        /\ WF_vars(Unregister(c)) /\ WF_vars(OnDisconnect(c))
        /\ WF_vars(AbortWriters(c))

FairSpec == Spec /\ Fairness

\* A wallet none of whose connections is open.
Gone(w) == \A c \in Conns : confirmed[c] = w => stage[c] # "open"

\* on_disconnect's purpose: what a vanished miner held becomes free again.
VanishedMinerReleased ==
    \A r \in Requests, w \in Wallets :
        (assigned[r] = w /\ Gone(w)) ~> (assigned[r] # w \/ ~Gone(w))

\* The assignment survived the tick that made it: the line was sent.
Held(r) == assigned[r] # None /\ ~(cur = r /\ pc \in {"get", "send"})

\* A request whose prompt is known is handed to a miner, as long as some
\* registered miner is not banned and no registered channel is dead.
PromptIsOffered ==
    \A r \in Requests \ ShardRouted :
        (HasPrompt(r) /\ assigned[r] = None) ~>
            \/ Held(r) \/ ~HasPrompt(r)
            \/ PicksNobody(miners, banned)
            \/ \E w \in ToSet(miners) : ~writer[channel[w]]
=============================================================================
