--------------------------- MODULE ExpertDispatch ---------------------------
(***************************************************************************)
(* The expert dispatcher (opoi/expert_dispatch.rs): the selected experts   *)
(* of one token's MoE layer are sent to one host each, retried on other    *)
(* hosts, joined, and their outputs combined; and the expert roster of     *)
(* miner_registry.rs it picks hosts from.  shard_engine.rs awaits          *)
(* dispatch_and_join inside the handler of the primary's shard result, and *)
(* a session handles one line at a time: while the join lasts the primary  *)
(* is not read, and when the primary's session ends the join is dropped.   *)
(*                                                                         *)
(* A request stands for one layer of one request, so that an expert of it  *)
(* is an ExpertAssignmentKey.  The branches of one join run on one task    *)
(* and only give way to each other where they await; sessions, pickers and *)
(* other joins run beside it.                                              *)
(***************************************************************************)
EXTENDS Naturals, Sequences, FiniteSets

CONSTANTS
    Requests,      \* (request, layer) pairs with a fan-out
    Experts,       \* expert ids
    Selections,    \* what a router may select: sequences of experts
    Wallets,       \* numbers: wallet addresses are ordered
    None,          \* no wallet, no message
    VramOf,        \* expert_vram_mb a wallet announces
    Form,          \* shape of a wallet's outputs; "broken" does not decode
    Primaries,     \* wallets that run the dense shards
    Settled,       \* wallets registered and announced before the first join
    Rogue,         \* wallets that report experts nobody asked them for
    Flaky,         \* wallets whose connection may end
    Ejectable,     \* wallets the auditor may eject
    MinVram,       \* what min_vram_mb_for answers
    MaxRetries,    \* MAX_RETRIES_PER_EXPERT
    MaxTokens,     \* bound on the tokens of a request
    MaxCalls,      \* bound on the joins of a request
    MaxLeaves      \* bound on disconnections

ASSUME ConstAssumption ==
    /\ Wallets \subseteq Nat /\ None \notin Wallets
    /\ Selections \subseteq Seq(Experts)
    /\ VramOf \in [Wallets -> Nat]
    /\ UNION {Primaries, Settled, Rogue, Flaky, Ejectable} \subseteq Wallets
    /\ MinVram \in Nat /\ MaxRetries \in Nat /\ MaxTokens \in Nat
    /\ MaxCalls \in Nat /\ MaxLeaves \in Nat

VARIABLES
    \* MinerRegistry: registered, expert-capable, banned wallets
    online, capable, banned,
    \* sessions that unregistered and have yet to call on_disconnect, the
    \* keys on_disconnect has collected, the result whose assignment
    \* handle_expert_result has checked, departures so far
    leaving, stale, reading, leaves,
    \* ExpertDispatcher: assignments, pending (the branch whose oneshot sender
    \* it holds), recent
    assignment, pending, recent,
    \* the dispatch_and_join under way for a request: its primary, the
    \* selection, used_wallets, the branches; and the joins made so far
    primary, sel, used, branch, calls,
    \* the caller: token_index, and what the latest join returned
    token, joined,
    \* the assignments a wallet received and has not answered; history: the
    \* keys recorded for it
    asked, chosen

registryVars == <<online, capable, banned>>
sessionVars  == <<leaving, stale, reading, leaves>>
mapVars      == <<assignment, pending, recent>>
joinVars     == <<primary, sel, used, branch, calls>>
callerVars   == <<token, joined>>
minerVars    == <<asked, chosen>>
vars == <<registryVars, sessionVars, mapVars, joinVars, callerVars, minerVars>>

Keys == Requests \X Experts

\* A result a wallet computed: for which key, and for which token.
Results == [key : Keys, token : 0 .. MaxTokens]

\* A term of the weighted sum.
Terms == [from : Wallets, token : 0 .. MaxTokens]

\* Where a branch (dispatch_one_with_retry) stands.  At the steps of Inside it
\* holds its task.
Inside == {"retry", "get", "assign", "pend", "send"}
Steps  == Inside \cup {"plan", "planned", "wait", "ok", "err"}

Branches == [at : Steps, wallet : Wallets \cup {None}, tried : SUBSET Wallets,
             inbox : Terms \cup {None}]

Planless == [at |-> "plan", wallet |-> None, tried |-> {}, inbox |-> None]

\* The value of every variable; a branch that is past its plan has a host, a
\* successful one a result, and it was never tried more often than allowed.
TypeOK ==
    /\ online \subseteq Wallets /\ capable \subseteq Wallets /\ banned \subseteq Wallets
    /\ leaving \subseteq Wallets
    /\ stale \in [Wallets -> SUBSET Keys]
    /\ reading \in [Wallets -> Results \cup {None}]
    /\ assignment \in [Keys -> Wallets \cup {None}]
    /\ pending \in [Keys -> Nat]
    /\ recent \in [Keys -> Wallets \cup {None}]
    /\ primary \in [Requests -> Wallets \cup {None}]
    /\ used \in [Requests -> SUBSET Wallets]
    /\ token \in [Requests -> 0 .. MaxTokens]
    /\ asked \subseteq Wallets \X Results /\ chosen \subseteq Wallets \X Keys
    /\ calls \in [Requests -> Nat] /\ leaves \in Nat
    /\ sel \in [Requests -> Selections \cup {<<>>}]
    /\ DOMAIN joined = Requests /\ DOMAIN branch = Requests
    /\ \A r \in Requests :
        /\ branch[r] \in [DOMAIN sel[r] -> Branches]
        /\ \A i \in DOMAIN sel[r] :
            /\ branch[r][i].at # "plan" => branch[r][i].wallet \in Wallets
            /\ branch[r][i].at = "ok" => branch[r][i].inbox # None
            /\ Cardinality(branch[r][i].tried) <= MaxRetries + 1

Init ==
    /\ online = Settled /\ capable = Settled /\ banned = {} /\ leaving = {} /\ leaves = 0
    /\ stale = [w \in Wallets |-> {}]
    /\ reading = [w \in Wallets |-> None]
    /\ assignment = [k \in Keys |-> None]
    /\ pending = [k \in Keys |-> 0]
    /\ recent = [k \in Keys |-> None]
    /\ primary = [r \in Requests |-> None]
    /\ sel = [r \in Requests |-> <<>>]
    /\ used = [r \in Requests |-> {}]
    /\ branch = [r \in Requests |-> <<>>]
    /\ calls = [r \in Requests |-> 0]
    /\ token = [r \in Requests |-> 0]
    /\ joined = [r \in Requests |-> None]
    /\ asked = {} /\ chosen = {}

-----------------------------------------------------------------------------
(* The registry and the sessions                                           *)

\* register, once the wallet is authorized.
Register(w) ==
    /\ w \notin online
    /\ online' = online \cup {w}
    /\ UNCHANGED <<capable, banned, sessionVars, mapVars, joinVars, callerVars, minerVars>>

\* opoi.capabilities with "expert": mark_expert_capable.  The check and the
\* insertion hold different locks; an older session of the wallet may
\* unregister it in between.
MarkExpertCapable(w) ==
    /\ w \in (online \cup leaving) \ capable
    /\ capable' = capable \cup {w}
    /\ UNCHANGED <<online, banned, sessionVars, mapVars, joinVars, callerVars, minerVars>>

Ban(w) ==
    /\ w \in Ejectable \ banned
    /\ banned' = banned \cup {w}
    /\ UNCHANGED <<online, capable, sessionVars, mapVars, joinVars, callerVars, minerVars>>

\* The join is over: the caller's handler goes on, or was dropped.
JoinOver(r) ==
    /\ primary' = [primary EXCEPT ![r] = None]
    /\ sel' = [sel EXCEPT ![r] = <<>>]
    /\ used' = [used EXCEPT ![r] = {}]
    /\ branch' = [branch EXCEPT ![r] = <<>>]
    /\ UNCHANGED calls

\* A session ends: the join awaited in its reader is dropped where it stands,
\* and leaves its entries in the maps; the wallet is unregistered ..
Leave(w) ==
    /\ w \in online \cap Flaky /\ reading[w] = None /\ leaves < MaxLeaves
    /\ leaves' = leaves + 1
    /\ online' = online \ {w} /\ capable' = capable \ {w}
    /\ leaving' = leaving \cup {w}
    /\ \/ \E r \in Requests : primary[r] = w /\ JoinOver(r)
       \/ (\A r \in Requests : primary[r] # w) /\ UNCHANGED joinVars
    /\ UNCHANGED <<banned, stale, reading, mapVars, callerVars, minerVars>>

\* .. on_disconnect collects the keys assigned to it ..
CollectStale(w) ==
    /\ w \in leaving
    /\ leaving' = leaving \ {w}
    /\ stale' = [stale EXCEPT ![w] = {k \in Keys : assignment[k] = w}]
    /\ UNCHANGED <<registryVars, reading, leaves, mapVars, joinVars, callerVars, minerVars>>

\* The entries of key k are removed from both maps.
Forget(k) ==
    /\ assignment' = [assignment EXCEPT ![k] = None]
    /\ pending' = [pending EXCEPT ![k] = 0]
    /\ UNCHANGED recent

\* .. and removes each, whoever has it by now.
DropStale(w, k) ==
    /\ k \in stale[w]
    /\ stale' = [stale EXCEPT ![w] = @ \ {k}]
    /\ Forget(k)
    /\ UNCHANGED <<registryVars, leaving, reading, leaves, joinVars, callerVars, minerVars>>

\* The wallet's reader can take a line: it is neither in a result nor in a join.
Reads(w) == w \in online /\ reading[w] = None /\ \A r \in Requests : primary[r] # w

\* What a wallet may report: each assignment it received once, whenever it
\* likes; a rogue one, anything.
MayReport(w, res) == <<w, res>> \in asked \/ (w \in Rogue /\ res.token = 0)

\* Mutant of CheckResult: whoever names a key in flight may answer it.
CheckAnyResult(w, res) ==
    /\ Reads(w) /\ MayReport(w, res)
    /\ assignment[res.key] # None
    /\ reading' = [reading EXCEPT ![w] = res]
    /\ asked' = asked \ {<<w, res>>}
    /\ UNCHANGED <<registryVars, leaving, stale, leaves, mapVars, joinVars, callerVars, chosen>>

\* handle_expert_result: the key is assigned to the sender; token_index is not
\* looked at ..
CheckResult(w, res) ==
    /\ Reads(w) /\ MayReport(w, res)
    /\ assignment[res.key] = w
    /\ reading' = [reading EXCEPT ![w] = res]
    /\ asked' = asked \ {<<w, res>>}
    /\ UNCHANGED <<registryVars, leaving, stale, leaves, mapVars, joinVars, callerVars, chosen>>

\* .. or the result is refused, as unknown or as somebody else's ..
RefuseResult(w, res) ==
    /\ Reads(w) /\ <<w, res>> \in asked
    /\ assignment[res.key] # w
    /\ asked' = asked \ {<<w, res>>}
    /\ UNCHANGED <<registryVars, sessionVars, mapVars, joinVars, callerVars, chosen>>

\* The branch of request r whose receiver belongs to the sender under key k.
Awaits(r, i, k) ==
    /\ pending[k] = i
    /\ i \in DOMAIN sel[r] /\ k = <<r, sel[r][i]>>
    /\ branch[r][i].at \in {"send", "wait"}

\* .. and the sender under the key, if there still is one, gets the result.
DeliverResult(w) ==
    /\ reading[w] # None
    /\ reading' = [reading EXCEPT ![w] = None]
    /\ LET k == reading[w].key
           r == k[1]
           term == [from |-> w, token |-> reading[w].token]
       IN  /\ pending' = [pending EXCEPT ![k] = 0]
           /\ branch' = [branch EXCEPT ![r] = [i \in DOMAIN @ |->
                            IF Awaits(r, i, k) THEN [@[i] EXCEPT !.inbox = term] ELSE @[i]]]
    /\ UNCHANGED <<registryVars, leaving, stale, leaves, assignment, recent,
                   primary, sel, used, calls, callerVars, minerVars>>

-----------------------------------------------------------------------------
(* pick_expert_host and dispatch_and_join                                  *)

Eligible(floor, excluded) ==
    {w \in (online \cap capable) \ (banned \cup excluded) : VramOf[w] >= floor}

\* The eligible wallet with the most VRAM, the lowest address among equals.
PicksHost(floor, excluded, w) ==
    /\ w \in Eligible(floor, excluded)
    /\ \A v \in Eligible(floor, excluded) :
        VramOf[v] < VramOf[w] \/ (VramOf[v] = VramOf[w] /\ w <= v)

Update(r, i, b) == branch' = [branch EXCEPT ![r][i] = b]

\* The handler of a shard result of w calls dispatch_and_join (again, with the
\* same token, when an earlier call failed).
DispatchAndJoin(r, w) ==
    /\ primary[r] = None /\ w \in Primaries /\ Reads(w)
    /\ token[r] < MaxTokens /\ calls[r] < MaxCalls
    /\ primary' = [primary EXCEPT ![r] = w]
    /\ \E s \in Selections :
        /\ s # <<>>
        /\ sel' = [sel EXCEPT ![r] = s]
        /\ branch' = [branch EXCEPT ![r] = [i \in DOMAIN s |-> Planless]]
    /\ used' = [used EXCEPT ![r] = {w}]
    /\ calls' = [calls EXCEPT ![r] = @ + 1]
    /\ joined' = [joined EXCEPT ![r] = None]
    /\ UNCHANGED <<registryVars, sessionVars, mapVars, token, minerVars>>

\* The first expert still without a host.
NextToPlan(r, i) ==
    /\ i \in DOMAIN sel[r] /\ branch[r][i].at = "plan"
    /\ \A j \in 1 .. i - 1 : branch[r][j].at # "plan"

\* Host selection up front, one expert after the other.
Plan(r, i) ==
    /\ NextToPlan(r, i)
    /\ \E w \in Wallets :
        /\ PicksHost(MinVram, used[r], w)
        /\ used' = [used EXCEPT ![r] = @ \cup {w}]
        /\ Update(r, i, [branch[r][i] EXCEPT !.at = "planned", !.wallet = w])
    /\ UNCHANGED <<registryVars, sessionVars, mapVars, primary, sel, calls,
                   callerVars, minerVars>>

\* No host for an expert: the whole group is abandoned.
PlanFails(r, i) ==
    /\ NextToPlan(r, i)
    /\ Eligible(MinVram, used[r]) = {}
    /\ JoinOver(r)
    /\ UNCHANGED <<registryVars, sessionVars, mapVars, callerVars, minerVars>>

-----------------------------------------------------------------------------
(* dispatch_one_with_retry and dispatch_one, for the i-th selected expert  *)

Key(r, i) == <<r, sel[r][i]>>

At(r, i, steps) == i \in DOMAIN sel[r] /\ branch[r][i].at \in steps

Planned(r) == \A j \in DOMAIN sel[r] : branch[r][j].at # "plan"

\* No branch of the join holds the task.
TaskFree(r) == \A j \in DOMAIN sel[r] : branch[r][j].at \notin Inside

\* registry.get, at the first attempt or after a retry picked a host.
LookUp(r, i) ==
    /\ Planned(r)
    /\ (At(r, i, {"planned"}) /\ TaskFree(r)) \/ At(r, i, {"get"})
    /\ Update(r, i, [branch[r][i] EXCEPT
            !.at = IF branch[r][i].wallet \in online THEN "assign" ELSE "retry"])
    /\ UNCHANGED <<registryVars, sessionVars, mapVars, primary, sel, used, calls,
                   callerVars, minerVars>>

Assign(r, i) ==
    /\ At(r, i, {"assign"})
    /\ assignment' = [assignment EXCEPT ![Key(r, i)] = branch[r][i].wallet]
    /\ Update(r, i, [branch[r][i] EXCEPT !.at = "pend"])
    /\ chosen' = chosen \cup {<<branch[r][i].wallet, Key(r, i)>>}
    /\ UNCHANGED <<registryVars, sessionVars, pending, recent, primary, sel, used, calls,
                   callerVars, asked>>

Pend(r, i) ==
    /\ At(r, i, {"pend"})
    /\ pending' = [pending EXCEPT ![Key(r, i)] = i]
    /\ recent' = [recent EXCEPT ![Key(r, i)] = branch[r][i].wallet]
    /\ Update(r, i, [branch[r][i] EXCEPT !.at = "send"])
    /\ UNCHANGED <<registryVars, sessionVars, assignment, primary, sel, used, calls,
                   callerVars, minerVars>>

\* tx.send succeeds.  The line reaches the host, or is lost with its connection.
Send(r, i) ==
    /\ At(r, i, {"send"})
    /\ Update(r, i, [branch[r][i] EXCEPT !.at = "wait"])
    /\ \/ /\ branch[r][i].wallet \in online
          /\ asked' = asked \cup {<<branch[r][i].wallet,
                                    [key |-> Key(r, i), token |-> token[r]]>>}
       \/ UNCHANGED asked
    /\ UNCHANGED <<registryVars, sessionVars, mapVars, primary, sel, used, calls, callerVars,
                   chosen>>

\* tx.send fails: the host's writer is gone.
SendFails(r, i) ==
    /\ At(r, i, {"send"})
    /\ Forget(Key(r, i))
    /\ Update(r, i, [branch[r][i] EXCEPT !.at = "retry", !.inbox = None])
    /\ UNCHANGED <<registryVars, sessionVars, primary, sel, used, calls, callerVars, minerVars>>

\* The result came before the timeout.
Received(r, i) ==
    /\ At(r, i, {"wait"}) /\ TaskFree(r)
    /\ branch[r][i].inbox # None
    /\ Forget(Key(r, i))
    /\ Update(r, i, [branch[r][i] EXCEPT !.at = "ok"])
    /\ UNCHANGED <<registryVars, sessionVars, primary, sel, used, calls, callerVars, minerVars>>

\* Mutant of GiveUp: no timeout, only a dropped sender ends the wait.
WaitForSender(r, i) ==
    /\ At(r, i, {"wait"}) /\ TaskFree(r)
    /\ branch[r][i].inbox = None /\ pending[Key(r, i)] # i
    /\ Forget(Key(r, i))
    /\ Update(r, i, [branch[r][i] EXCEPT !.at = "retry"])
    /\ UNCHANGED <<registryVars, sessionVars, primary, sel, used, calls, callerVars, minerVars>>

\* EXPERT_DISPATCH_TIMEOUT passed, or the sender was dropped.
GiveUp(r, i) ==
    /\ At(r, i, {"wait"}) /\ TaskFree(r)
    /\ branch[r][i].inbox = None
    /\ Forget(Key(r, i))
    /\ Update(r, i, [branch[r][i] EXCEPT !.at = "retry"])
    /\ UNCHANGED <<registryVars, sessionVars, primary, sel, used, calls, callerVars, minerVars>>

\* Mutant of RetryExcludes: the group's hosts are not excluded.
ExcludesOnlyTried(r, i) == {primary[r]} \cup branch[r][i].tried \cup {branch[r][i].wallet}

\* Whom a retry may not pick: what the group had planned, and what this expert
\* has tried.  (group_used_wallets is each branch's own copy.)
RetryExcludes(r, i) == used[r] \cup branch[r][i].tried \cup {branch[r][i].wallet}

Attempts(b) == Cardinality(b.tried \cup {b.wallet})

\* Mutant of Retry: one attempt too many.
RetryOnceMore(r, i) ==
    /\ At(r, i, {"retry"})
    /\ Attempts(branch[r][i]) <= MaxRetries + 1
    /\ \E w \in Wallets :
        /\ PicksHost(0, RetryExcludes(r, i), w)
        /\ Update(r, i, [branch[r][i] EXCEPT
                !.at = "get", !.tried = @ \cup {branch[r][i].wallet}, !.wallet = w])
    /\ UNCHANGED <<registryVars, sessionVars, mapVars, primary, sel, used, calls,
                   callerVars, minerVars>>

\* The attempt failed: another host, with no VRAM floor ..
Retry(r, i) ==
    /\ At(r, i, {"retry"})
    /\ Attempts(branch[r][i]) <= MaxRetries
    /\ \E w \in Wallets :
        /\ PicksHost(0, RetryExcludes(r, i), w)
        /\ Update(r, i, [branch[r][i] EXCEPT
                !.at = "get", !.tried = @ \cup {branch[r][i].wallet}, !.wallet = w])
    /\ UNCHANGED <<registryVars, sessionVars, mapVars, primary, sel, used, calls,
                   callerVars, minerVars>>

\* .. or none: the retries are spent, or nobody is left.
Exhausted(r, i) ==
    /\ At(r, i, {"retry"})
    /\ \/ Attempts(branch[r][i]) > MaxRetries
       \/ Eligible(0, RetryExcludes(r, i)) = {}
    /\ Update(r, i, [branch[r][i] EXCEPT !.at = "err", !.tried = @ \cup {branch[r][i].wallet}])
    /\ UNCHANGED <<registryVars, sessionVars, mapVars, primary, sel, used, calls,
                   callerVars, minerVars>>

-----------------------------------------------------------------------------
(* join_all and combine_weighted                                           *)

AllOk(r) == \A i \in DOMAIN sel[r] : branch[r][i].at = "ok"

\* Every output has the first one's shape, and as many floats as it says.
Combinable(r) ==
    \A i \in DOMAIN sel[r] :
        /\ Form[branch[r][i].inbox.from] = Form[branch[r][1].inbox.from]
        /\ Form[branch[r][i].inbox.from] # "broken"

AllDone(r) ==
    /\ primary[r] # None
    /\ \A i \in DOMAIN sel[r] : branch[r][i].at \in {"ok", "err"}

\* The sum goes to the caller, who moves on.
JoinSucceeds(r) ==
    /\ AllDone(r) /\ AllOk(r) /\ Combinable(r)
    /\ joined' = [joined EXCEPT ![r] =
            [primary |-> primary[r], experts |-> sel[r], token |-> token[r],
             terms |-> [i \in DOMAIN sel[r] |-> branch[r][i].inbox]]]
    /\ token' = [token EXCEPT ![r] = @ + 1]
    /\ JoinOver(r)
    /\ UNCHANGED <<registryVars, sessionVars, mapVars, minerVars>>

\* One missing or odd term fails the whole group; the token is tried again later.
JoinFails(r) ==
    /\ AllDone(r) /\ ~(AllOk(r) /\ Combinable(r))
    /\ JoinOver(r)
    /\ UNCHANGED <<registryVars, sessionVars, mapVars, callerVars, minerVars>>

-----------------------------------------------------------------------------
Branch(r, i) ==
    \/ Plan(r, i) \/ PlanFails(r, i)
    \/ LookUp(r, i) \/ Assign(r, i) \/ Pend(r, i) \/ Send(r, i) \/ SendFails(r, i)
    \/ Received(r, i) \/ GiveUp(r, i) \/ Retry(r, i) \/ Exhausted(r, i)

Slots(r) == DOMAIN sel[r]

Session(w) ==
    \/ Register(w) \/ MarkExpertCapable(w) \/ Ban(w) \/ Leave(w)
    \/ CollectStale(w) \/ (\E k \in Keys : DropStale(w, k))
    \/ (\E res \in Results : CheckResult(w, res) \/ RefuseResult(w, res))
    \/ DeliverResult(w)

Join(r) == JoinSucceeds(r) \/ JoinFails(r)

Next ==
    \/ \E w \in Wallets : Session(w)
    \/ \E r \in Requests : Join(r)
    \/ \E r \in Requests, w \in Wallets : DispatchAndJoin(r, w)
    \/ \E r \in Requests : \E i \in Slots(r) : Branch(r, i)

Spec == Init /\ [][Next]_vars

\* The join's task is scheduled, timers fire, and a handler runs to its end.
FairSpec ==
    /\ Spec
    /\ \A r \in Requests : WF_vars((\E i \in Slots(r) : Branch(r, i)) \/ Join(r))
    /\ \A w \in Wallets : WF_vars(DeliverResult(w))
-----------------------------------------------------------------------------
(* Properties                                                              *)

\* Two experts of one group share a host only when both were retried.
SharedHostMeansRetries ==
    \A r \in Requests : \A i, j \in DOMAIN sel[r] :
        (/\ i # j
         /\ branch[r][i].at # "plan" /\ branch[r][j].at # "plan"
         /\ branch[r][i].wallet = branch[r][j].wallet)
        => branch[r][i].tried # {} /\ branch[r][j].tried # {}

\* A combined output has a term per selected expert, each from a wallet that
\* was sent this expert, never from the primary.
TermsWereAsked ==
    \A r \in Requests : joined[r] # None =>
        \A i \in DOMAIN joined[r].experts :
            LET term == joined[r].terms[i]
            IN  /\ term.from # joined[r].primary
                /\ <<term.from, <<r, joined[r].experts[i]>>>> \in chosen

\* Every join ends: it succeeds, fails or is dropped.
JoinEnds == \A r \in Requests : primary[r] # None ~> primary[r] = None

\* A late result must not be taken for the answer to a later dispatch under
\* the same key: every combined term was computed for the token at hand.
TermsAreCurrent ==
    \A r \in Requests : joined[r] # None =>
        \A i \in DOMAIN joined[r].experts : joined[r].terms[i].token = joined[r].token
=============================================================================
