--------------------------- MODULE ShardPipeline ---------------------------
(***************************************************************************)
(* The pipeline of one shard-routed request (opoi/shard_engine.rs): every  *)
(* token walks through the model's DENSE shards, each on some connected    *)
(* miner; a shard whose layer range has EXPERT nodes is walked layer by    *)
(* layer on one pinned miner, the experts of each layer being fanned out   *)
(* and joined in between.  Requests share nothing but the round-robin      *)
(* pointer, so that pick_next returns any connected miner here.            *)
(*                                                                         *)
(* Concurrent activities: one session per wallet (its reader handles one   *)
(* opoi.shard_result at a time, and drops the handler when the session     *)
(* ends at one of its awaits), and poll_and_start_tick.  A step ends where *)
(* the code awaits; dispatch_current, which never does, is split between   *)
(* picking the miner, looking its channel up and recording the assignment. *)
(* A wallet has one connection at a time (Dispatch has the general case).  *)
(***************************************************************************)
EXTENDS Naturals, FiniteSets

CONSTANTS
    Wallets,
    None,          \* no wallet, pipeline, assignment, layer or input
    Tick,          \* poll_and_start_tick, as a caller of dispatch_current
    NumShards,     \* DENSE shards of the model graph
    LayerStart, LayerEnd,   \* their layer ranges
    Moe,           \* the shards with an EXPERT group at their range
    MaxTokens,     \* max_tokens of the request
    Ejectable,     \* wallets the auditor may eject
    MaxPosts,      \* bound on prompt posts
    PromptRpc,     \* does no tick fall into a handler's calls to csd, to the
                   \* marketplace or for the GGUF header?
    Repeats        \* may a miner send a result again while its busy marker
                   \* stands?

Shards == 1 .. NumShards
Layers == 0 .. LayerEnd[NumShards]

ASSUME ConstAssumption ==
    /\ None \notin Wallets /\ Tick \notin Wallets
    /\ NumShards \in Nat \ {0} /\ MaxTokens \in Nat \ {0} /\ MaxPosts \in Nat
    /\ LayerStart \in [Shards -> Nat] /\ LayerEnd \in [Shards -> Nat]
    /\ \A p \in Shards : LayerStart[p] < LayerEnd[p] /\ LayerEnd[p] <= LayerEnd[NumShards]
    /\ \A p \in Shards : p > 1 => LayerStart[p] = LayerEnd[p - 1]
    /\ None \notin Layers
    /\ Moe \subseteq Shards /\ Ejectable \subseteq Wallets
    /\ PromptRpc \in BOOLEAN /\ Repeats \in BOOLEAN

VARIABLES
    \* MinerRegistry: registered and ejected wallets; and the wallets that are
    \* unregistered but not yet on_disconnected
    online, banned, leaving,
    \* csd lists the request as PENDING; prompt_cache; prompts posted
    listed, prompt, posts,
    \* pipelines and assignments, at the request
    pipe, asg,
    \* what each session's handler and the tick are doing
    task,
    \* the request's row in opoi_submissions
    row,
    \* history: the shards whose result this pipeline has submitted on-chain
    submitted

vars == <<online, banned, leaving, listed, prompt, posts, pipe, asg, task, row, submitted>>

Callers == Wallets \cup {Tick}

\* A step of the pipeline: token_index, shard, moe_layer_step.
StepIds == [tok : Nat, pos : Shards, lay : Layers \cup {None}]

\* PipelineState: token_index, pos, moe_layer_walk (layer and pinned wallet),
\* current_input (as the step and the miner whose output it is; None for the
\* prompt), the number of generated_token_ids, the wallets in contributions.
Pipelines == [tok : Nat, pos : Shards, walk : Layers \cup {None},
              pin : Wallets \cup {None},
              input : [step : StepIds, by : Wallets] \cup {None},
              gen : Nat, helpers : SUBSET Wallets]

Fresh == [tok |-> 0, pos |-> 1, walk |-> None, pin |-> None, input |-> None,
          gen |-> 0, helpers |-> {}]

\* ShardAssignment, and whether its line was sent and is not yet answered (for
\* the record; FALSE for a busy marker).
Assignments == [wallet : Wallets, step : StepIds, open : BOOLEAN]

ASSUME NoneAssumption ==
    None \notin StepIds /\ None \notin Pipelines /\ None \notin Assignments
    /\ None \notin [step : StepIds, by : Wallets]

Inner == {"vramInner", "joinInner"}     \* handle_moe_interior_layer_result
Outer == {"vramOuter", "joinOuter"}     \* handle_expert_group_result
Ats   == {"idle", "checked", "resolve", "submit", "choose", "lookup", "insert"} \cup Inner \cup Outer

\* The task's step is the one of the result it handles or, at "lookup" and
\* "insert", the one it dispatches to wallet `to`; tok is the token_index read
\* before the VRAM floor is looked up.
Tasks == [at : Ats, step : StepIds \cup {None}, to : Wallets \cup {None}, tok : Nat]
Idle  == [at |-> "idle", step |-> None, to |-> None, tok |-> 0]

\* The value of every variable, and which locals are set at which step.
TypeOK ==
    /\ online \subseteq Wallets /\ banned \subseteq Wallets /\ leaving \subseteq Wallets
    /\ listed \in BOOLEAN /\ prompt \in BOOLEAN /\ posts \in Nat
    /\ pipe \in Pipelines \cup {None}
    /\ pipe # None => (pipe.walk = None <=> pipe.pin = None)
    /\ asg \in Assignments \cup {None}
    /\ task \in [Callers -> Tasks]
    /\ \A c \in Callers :
        /\ task[c].at \in {"lookup", "insert"} => task[c].step # None /\ task[c].to # None
        /\ c # Tick /\ task[c].at \notin {"idle", "choose"} => task[c].step # None
    /\ task[Tick].at \in {"idle", "resolve", "choose", "lookup", "insert"}
    /\ row \in [wallet : Wallets, gen : Nat] \cup {None}
    /\ submitted \subseteq Shards

Init ==
    /\ online = {} /\ banned = {} /\ leaving = {}
    /\ listed = TRUE /\ prompt = FALSE /\ posts = 0
    /\ pipe = None /\ asg = None
    /\ task = [c \in Callers |-> Idle]
    /\ row = None
    /\ submitted = {}

-----------------------------------------------------------------------------
(* Steps of a pipeline                                                     *)

\* The moe_layer_step of a shard's first dispatch.
FirstLayer(p) == IF p \in Moe THEN LayerStart[p] ELSE None

\* The step the pipeline is at.
Current(P) == [tok |-> P.tok, pos |-> P.pos,
               lay |-> IF P.walk # None THEN P.walk ELSE FirstLayer(P.pos)]

\* The result of layer lay goes to the experts and back to the pinned miner:
\* an interior layer, or the model's last one.
IsInterior(lay, p) ==
    \/ lay + 1 < LayerEnd[p]
    \/ lay + 1 = LayerEnd[p] /\ LayerEnd[p] = LayerEnd[NumShards]

\* Mutant of IsLastToken: one token too early.
IsLastTokenEarly(P) == P.tok + 2 >= MaxTokens

IsLastToken(P) == P.tok + 1 >= MaxTokens

\* Mutant of IsLastShard: pos compared with the number of shards.
IsLastShardLate(P) == P.pos = NumShards + 1

IsLastShard(P) == P.pos = NumShards

\* The pipeline after the result of step s by w: on to the next shard, ..
NextShard(P, s, w) ==
    [P EXCEPT !.pos = @ + 1, !.input = [step |-> s, by |-> w], !.walk = None, !.pin = None]

\* .. to the next layer of the walk, ..
NextLayer(P, s, w) ==
    [P EXCEPT !.input = [step |-> s, by |-> w],
              !.walk = IF @ = None THEN None ELSE s.lay + 1]

\* .. or to the next token.
NextToken(P, s, w) ==
    [P EXCEPT !.pos = 1, !.tok = @ + 1, !.gen = @ + 1,
              !.input = [step |-> s, by |-> w], !.walk = None, !.pin = None]

Goto(c, at) == task' = [task EXCEPT ![c].at = at]
Finish(c)   == task' = [task EXCEPT ![c] = Idle]

\* dispatch_current is next.
Dispatch(c) == task' = [task EXCEPT ![c] = [Idle EXCEPT !.at = "choose"]]

-----------------------------------------------------------------------------
(* Sessions and the chain                                                  *)

Join(w) ==
    /\ w \notin online \cup leaving
    /\ online' = online \cup {w}
    /\ UNCHANGED <<banned, leaving, listed, prompt, posts, pipe, asg, task, row, submitted>>

\* The session ends; a handler is dropped at its await.  registry.unregister ..
Leave(w) ==
    /\ w \in online
    /\ task[w].at \in {"idle", "resolve", "submit"} \cup Inner \cup Outer
    /\ online' = online \ {w} /\ leaving' = leaving \cup {w}
    /\ Finish(w)
    /\ UNCHANGED <<banned, listed, prompt, posts, pipe, asg, row, submitted>>

\* .. and on_disconnect.
OnDisconnect(w) ==
    /\ w \in leaving
    /\ leaving' = leaving \ {w}
    /\ asg' = IF asg # None /\ asg.wallet = w THEN None ELSE asg
    /\ UNCHANGED <<online, banned, listed, prompt, posts, pipe, task, row, submitted>>

\* registry.ban: pick_next passes the wallet over from now on.
Ban(w) ==
    /\ w \in Ejectable \ banned
    /\ banned' = banned \cup {w}
    /\ UNCHANGED <<online, leaving, listed, prompt, posts, pipe, asg, task, row, submitted>>

ReceivePrompt ==
    /\ posts < MaxPosts
    /\ posts' = posts + 1 /\ prompt' = TRUE
    /\ UNCHANGED <<online, banned, leaving, listed, pipe, asg, task, row, submitted>>

\* csd no longer lists the request.
ChainSettles ==
    /\ listed /\ listed' = FALSE
    /\ UNCHANGED <<online, banned, leaving, prompt, posts, pipe, asg, task, row, submitted>>

-----------------------------------------------------------------------------
(* poll_and_start_tick                                                     *)

\* The steps of a handler at which the request has no assignment.
Unguarded == {"resolve", "submit", "vramInner", "vramOuter", "choose", "lookup", "insert"}

\* Mutant of TickRetry: a pipeline in the middle of a walk is left alone.
TickRetryFreshOnly ==
    /\ task[Tick].at = "idle"
    /\ pipe # None /\ asg = None /\ pipe.walk = None
    /\ PromptRpc => \A w \in Wallets : task[w].at \notin Unguarded
    /\ Goto(Tick, "resolve")
    /\ UNCHANGED <<online, banned, leaving, listed, prompt, posts, pipe, asg, row, submitted>>

\* retry_stalled_pipelines: a pipeline without an assignment is stalled; its
\* model source is resolved ..
TickRetry ==
    /\ task[Tick].at = "idle"
    /\ pipe # None /\ asg = None
    /\ PromptRpc => \A w \in Wallets : task[w].at \notin Unguarded
    /\ Goto(Tick, "resolve")
    /\ UNCHANGED <<online, banned, leaving, listed, prompt, posts, pipe, asg, row, submitted>>

\* .. and it is dispatched again, or the source is unknown.
TickResolved(ok) ==
    /\ task[Tick].at = "resolve"
    /\ IF ok THEN Dispatch(Tick) ELSE Finish(Tick)
    /\ UNCHANGED <<online, banned, leaving, listed, prompt, posts, pipe, asg, row, submitted>>

\* A PENDING request with a prompt and no pipeline; manifest, graph and source
\* are there, and some address of the pool may coordinate.
StartPipeline ==
    /\ task[Tick].at = "idle"
    /\ listed /\ pipe = None /\ prompt
    /\ pipe' = Fresh /\ prompt' = FALSE /\ submitted' = {}
    /\ Dispatch(Tick)
    /\ UNCHANGED <<online, banned, leaving, listed, posts, asg, row>>

-----------------------------------------------------------------------------
(* dispatch_current                                                        *)

\* There is no pipeline any more, or nobody to pick.
ChooseNobody(c) ==
    /\ task[c].at = "choose"
    /\ pipe # None => pipe.walk = None /\ online \subseteq banned
    /\ Finish(c)
    /\ UNCHANGED <<online, banned, leaving, listed, prompt, posts, pipe, asg, row, submitted>>

\* The miner holding the walk's session is gone: the pipeline is dropped.
ChooseDrops(c) ==
    /\ task[c].at = "choose" /\ pipe # None
    /\ pipe.walk # None /\ pipe.pin \notin online
    /\ pipe' = None /\ asg' = None
    /\ Finish(c)
    /\ UNCHANGED <<online, banned, leaving, listed, prompt, posts, row, submitted>>

\* Mutant of Choose: a walk is resumed on whichever miner is next.
ChooseRoundRobin(c) ==
    /\ task[c].at = "choose" /\ pipe # None
    /\ \E w \in online :
        /\ task' = [task EXCEPT ![c] = [Idle EXCEPT !.at = "lookup", !.step = Current(pipe), !.to = w]]
        /\ pipe' = IF pipe.pos \in Moe
                   THEN [pipe EXCEPT !.walk = Current(pipe).lay, !.pin = w] ELSE pipe
    /\ UNCHANGED <<online, banned, leaving, listed, prompt, posts, asg, row, submitted>>

\* A resume goes to the pinned miner, anything else to the next one in turn,
\* which is pinned if the shard has experts ..
Choose(c) ==
    /\ task[c].at = "choose" /\ pipe # None
    /\ \E w \in online :
        /\ IF pipe.walk # None THEN w = pipe.pin ELSE w \notin banned
        /\ task' = [task EXCEPT ![c] = [Idle EXCEPT !.at = "lookup", !.step = Current(pipe), !.to = w]]
        /\ pipe' = IF pipe.pos \in Moe
                   THEN [pipe EXCEPT !.walk = Current(pipe).lay, !.pin = w] ELSE pipe
    /\ UNCHANGED <<online, banned, leaving, listed, prompt, posts, asg, row, submitted>>

\* .. its channel is looked up, unless it has just been unregistered ..
LookUp(c) ==
    /\ task[c].at = "lookup"
    /\ IF task[c].to \in online THEN Goto(c, "insert") ELSE Finish(c)
    /\ UNCHANGED <<online, banned, leaving, listed, prompt, posts, pipe, asg, row, submitted>>

\* .. and the assignment is recorded, whatever has happened since, and the
\* line sent (a failure to send is ignored).
Insert(c) ==
    /\ task[c].at = "insert"
    /\ asg' = [wallet |-> task[c].to, step |-> task[c].step, open |-> TRUE]
    /\ Finish(c)
    /\ UNCHANGED <<online, banned, leaving, listed, prompt, posts, pipe, row, submitted>>

-----------------------------------------------------------------------------
(* handle_shard_result_inner                                               *)

\* Mutant of ShardResult: only the sender is compared with the assignment.
ShardResultAnyStep(w, s) ==
    /\ w \in online /\ task[w].at = "idle"
    /\ asg # None /\ asg.wallet = w /\ (asg.open \/ Repeats)
    /\ task' = [task EXCEPT ![w] = [Idle EXCEPT !.at = "checked", !.step = s]]
    /\ UNCHANGED <<online, banned, leaving, listed, prompt, posts, pipe, asg, row, submitted>>

\* A result for step s; one that is not the assigned step is refused.
ShardResult(w, s) ==
    /\ w \in online /\ task[w].at = "idle"
    /\ asg # None /\ asg.wallet = w /\ asg.step = s
    /\ asg.open \/ Repeats
    /\ task' = [task EXCEPT ![w] = [Idle EXCEPT !.at = "checked", !.step = s]]
    /\ UNCHANGED <<online, banned, leaving, listed, prompt, posts, pipe, asg, row, submitted>>

\* assignments.remove; without a pipeline the result is refused.
TakeAssignment(w) ==
    /\ task[w].at = "checked"
    /\ asg' = None
    /\ IF pipe = None THEN Finish(w) ELSE Goto(w, "resolve")
    /\ UNCHANGED <<online, banned, leaving, listed, prompt, posts, pipe, row, submitted>>

\* The model source is unknown, or the pipeline gone: the result is lost.
Refuse(w) ==
    /\ task[w].at = "resolve"
    /\ Finish(w)
    /\ UNCHANGED <<online, banned, leaving, listed, prompt, posts, pipe, asg, row, submitted>>

\* The pipeline with w among its contributions.
Helped(w) == [pipe EXCEPT !.helpers = @ \cup {w}]

\* The result goes to the experts: its router_selection is there and valid
\* (the VRAM floor is looked up next), missing (the pipeline stalls), or names
\* an unregistered expert or cannot be decoded (the pipeline is dropped).
ToExperts(w, P, at) ==
    \/ pipe' = P /\ task' = [task EXCEPT ![w].at = at, ![w].tok = P.tok]
    \/ pipe' = P /\ Finish(w)
    \/ pipe' = None /\ Finish(w)

\* One layer of a walk.
RouteInterior(w) ==
    /\ task[w].at = "resolve" /\ pipe # None
    /\ task[w].step.lay # None /\ IsInterior(task[w].step.lay, pipe.pos)
    /\ IF pipe.pos \in Moe THEN ToExperts(w, Helped(w), "vramInner")
                           ELSE pipe' = None /\ Finish(w)
    /\ UNCHANGED <<online, banned, leaving, listed, prompt, posts, asg, row, submitted>>

\* A shard's whole result.
IsWhole(w) == ~(task[w].step.lay # None /\ IsInterior(task[w].step.lay, pipe.pos))

\* finalize_pipeline: the row of the answer is recorded, unless the request
\* has one, the database fails or the session ends meanwhile.
Finalize(w, P) ==
    /\ pipe' = None
    /\ \/ row = None /\ \E v \in P.helpers : row' = [wallet |-> v, gen |-> P.gen + 1]
       \/ UNCHANGED row
    /\ Finish(w)

\* The pipeline P advances by the result of w, the last token's or not; a last
\* shard's result without next_token_id drops it.
Advance(w, P, lastToken) ==
    \/ ~IsLastShard(P) /\ P.pos \in Moe
       /\ ToExperts(w, P, "vramOuter") /\ UNCHANGED row
    \/ ~IsLastShard(P) /\ P.pos \notin Moe
       /\ pipe' = NextShard(P, task[w].step, w) /\ Dispatch(w) /\ UNCHANGED row
    \/ IsLastShard(P) /\ pipe' = None /\ Finish(w) /\ UNCHANGED row
    \/ IsLastShard(P) /\ ~lastToken
       /\ pipe' = NextToken(P, task[w].step, w) /\ Dispatch(w) /\ UNCHANGED row
    \/ IsLastShard(P) /\ lastToken /\ Finalize(w, P)

\* Not the last token: the pipeline advances at once.
RouteWhole(w) ==
    /\ task[w].at = "resolve" /\ pipe # None /\ IsWhole(w)
    /\ ~IsLastToken(pipe)
    /\ Advance(w, Helped(w), FALSE)
    /\ UNCHANGED <<online, banned, leaving, listed, prompt, posts, asg, submitted>>

\* The last token: the shard's result is submitted on-chain first ..
RouteSubmit(w) ==
    /\ task[w].at = "resolve" /\ pipe # None /\ IsWhole(w)
    /\ IsLastToken(pipe)
    /\ pipe' = Helped(w)
    /\ Goto(w, "submit")
    /\ UNCHANGED <<online, banned, leaving, listed, prompt, posts, asg, row, submitted>>

\* .. by some address of the pool; the pipeline, if it is still there, advances.
SubmitAccepted(w) ==
    /\ task[w].at = "submit"
    /\ submitted' = submitted \cup {task[w].step.pos}
    /\ IF pipe = None THEN Finish(w) /\ UNCHANGED <<pipe, row>>
                      ELSE Advance(w, pipe, TRUE)
    /\ UNCHANGED <<online, banned, leaving, listed, prompt, posts, asg>>

\* Mutant of SubmitRefused: the pipeline goes on without the submission.
SubmitRefusedGoesOn(w) ==
    /\ task[w].at = "submit" /\ pipe # None
    /\ Advance(w, pipe, TRUE)
    /\ UNCHANGED <<online, banned, leaving, listed, prompt, posts, asg, submitted>>

\* No address may submit: the pipeline stalls.
SubmitRefused(w) ==
    /\ task[w].at = "submit"
    /\ Finish(w)
    /\ UNCHANGED <<online, banned, leaving, listed, prompt, posts, pipe, asg, row, submitted>>

\* Mutant of FanOut: no busy marker.
FanOutUnmarked(w) ==
    /\ task[w].at \in {"vramInner", "vramOuter"}
    /\ Goto(w, IF task[w].at = "vramInner" THEN "joinInner" ELSE "joinOuter")
    /\ UNCHANGED <<online, banned, leaving, listed, prompt, posts, pipe, asg, row, submitted>>

\* The busy marker takes the assignment's place while dispatch_and_join runs.
FanOut(w) ==
    /\ task[w].at \in {"vramInner", "vramOuter"}
    /\ asg' = IF pipe = None \/ pipe.walk = None THEN asg
              ELSE [wallet |-> pipe.pin, step |-> [task[w].step EXCEPT !.tok = task[w].tok],
                    open |-> FALSE]
    /\ Goto(w, IF task[w].at = "vramInner" THEN "joinInner" ELSE "joinOuter")
    /\ UNCHANGED <<online, banned, leaving, listed, prompt, posts, pipe, row, submitted>>

\* The experts' outputs are combined: on to the next layer, or the next shard.
JoinSucceeds(w) ==
    /\ \/ /\ task[w].at = "joinInner"
          /\ pipe' = IF pipe = None THEN None ELSE NextLayer(pipe, task[w].step, w)
       \/ /\ task[w].at = "joinOuter"
          /\ pipe' = IF pipe = None THEN None ELSE NextShard(pipe, task[w].step, w)
    /\ Dispatch(w)
    /\ UNCHANGED <<online, banned, leaving, listed, prompt, posts, asg, row, submitted>>

\* They are not: the marker is removed, the pipeline stalls.
JoinFails(w) ==
    /\ task[w].at \in {"joinInner", "joinOuter"}
    /\ asg' = None
    /\ Finish(w)
    /\ UNCHANGED <<online, banned, leaving, listed, prompt, posts, pipe, row, submitted>>

-----------------------------------------------------------------------------
\* The steps a miner of this model may report.
Reportable == [tok : 0 .. MaxTokens, pos : Shards, lay : Layers \cup {None}]

Session(w) ==
    \/ Join(w) \/ Leave(w) \/ OnDisconnect(w) \/ Ban(w)
    \/ \E s \in Reportable : ShardResult(w, s)

Handler(w) ==
    \/ TakeAssignment(w) \/ Refuse(w)
    \/ RouteInterior(w) \/ RouteWhole(w) \/ RouteSubmit(w)
    \/ SubmitAccepted(w) \/ SubmitRefused(w)
    \/ FanOut(w) \/ JoinSucceeds(w) \/ JoinFails(w)

Poll == TickRetry \/ StartPipeline \/ \E ok \in BOOLEAN : TickResolved(ok)

DispatchCurrent(c) == ChooseNobody(c) \/ ChooseDrops(c) \/ Choose(c) \/ LookUp(c) \/ Insert(c)

Next ==
    \/ \E w \in Wallets : Session(w) \/ Handler(w)
    \/ \E c \in Callers : DispatchCurrent(c)
    \/ Poll \/ ReceivePrompt \/ ChainSettles

\* The loop and the handlers run on; a model source asked for again and again
\* is found.
Fairness ==
    /\ WF_vars(TickRetry)
    /\ SF_vars(TickResolved(TRUE)) /\ WF_vars(\E ok \in BOOLEAN : TickResolved(ok))
    /\ \A c \in Callers : WF_vars(DispatchCurrent(c))
    /\ \A w \in Wallets : WF_vars(Handler(w)) /\ WF_vars(OnDisconnect(w))

Spec == Init /\ [][Next]_vars
FairSpec == Spec /\ Fairness

-----------------------------------------------------------------------------
(* Properties                                                              *)

\* The last moe_layer_step of a shard; the model's last shard has one more,
\* the finalize step.
LastLayer(p) ==
    IF p \notin Moe THEN None
    ELSE IF LayerEnd[p] = LayerEnd[NumShards] THEN LayerEnd[p] ELSE LayerEnd[p] - 1

\* s is the step right after step r (None: the prompt): the next layer of the
\* walk, the next shard's first step, or the next token's.
Follows(s, r) ==
    IF r = None THEN s.tok = 0 /\ s.pos = 1 /\ s.lay = FirstLayer(1)
    ELSE IF r.lay # LastLayer(r.pos)
         THEN s.tok = r.tok /\ s.pos = r.pos /\ s.lay = r.lay + 1
         ELSE /\ s.lay = FirstLayer(s.pos)
              /\ IF r.pos # NumShards THEN s.tok = r.tok /\ s.pos = r.pos + 1
                                      ELSE s.tok = r.tok + 1 /\ s.pos = 1

\* The step guard of ShardAssignment "guards against a stale/duplicate
\* submission answering a step that's no longer the current one": the input
\* of the current step is the output of the step before it, so that no layer,
\* shard or token is skipped or run twice.
StepsInOrder ==
    pipe # None =>
        Follows(Current(pipe), IF pipe.input = None THEN None ELSE pipe.input.step)

\* "A dense pipeline only ever has ONE shard in flight per request at a time":
\* a miner at work on its assignment, or one caller handling its result and
\* dispatching the next step, the busy marker standing in for the assignment
\* while the experts work.
OneInFlight ==
    \A c \in Callers : task[c].at # "idle" =>
        /\ \A d \in Callers \ {c} : task[d].at = "idle"
        /\ asg # None => task[c].at \in {"checked", "joinInner", "joinOuter", "choose", "lookup", "insert"}

\* "A resume step MUST go back to the EXACT wallet already holding that walk's
\* open session": whoever is assigned the next layer of a walk computed the
\* one before it.
ResumeIsPinned ==
    asg # None /\ pipe # None /\ asg.step = Current(pipe)
        /\ asg.step.lay # FirstLayer(asg.step.pos)
            => pipe.input.by = asg.wallet

\* "shard pipeline finished (max_tokens reached)": the answer recorded for the
\* request has max_tokens tokens, whatever was retried, dropped and restarted
\* on the way.
RowIsComplete == row # None => row.gen = MaxTokens

\* "Every shard gets exactly ONE on-chain submission per request - at the end
\* of the WHOLE generation": on the last token, no shard is passed without its
\* result being submitted.
EverySubmitted ==
    pipe # None /\ IsLastToken(pipe) => \A p \in Shards : p < pipe.pos => p \in submitted

\* A pipeline "whose current shard has no live assignment" is "retried here
\* too": once miners stop disconnecting, no pipeline stays without an
\* assignment while somebody is connected.
StalledIsRetried ==
    <>[][online \subseteq online']_online => []<>(pipe = None \/ asg # None \/ online \subseteq banned)
=============================================================================
