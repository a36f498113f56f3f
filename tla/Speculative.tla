---------------------------- MODULE Speculative ----------------------------
(***************************************************************************)
(* The speculative engine (opoi/speculative_engine.rs), for one request:   *)
(* the prompt pass through the shards, then rounds of drafting, verifying  *)
(* the batch, accepting what the target itself predicts, and rolling every *)
(* session's KV cache back to what was committed; with the miners that     *)
(* connect, leave and answer, and the tick that retries.                   *)
(*                                                                         *)
(* pick_next and pick_draft_capable choose some wallet here: their cursor  *)
(* is shared with the other requests.  The target model is the sequence    *)
(* Greedy that begins what it would decode on its own: a session whose     *)
(* context is the prompt and the first tokens of Greedy predicts the next  *)
(* token of Greedy, any other context predicts anything.                   *)
(***************************************************************************)
EXTENDS Naturals, Sequences, FiniteSetsExt

CONSTANTS
    Wallets, None,
    Tokens,        \* token ids
    Greedy,        \* the beginning of what the target decodes after the prompt
    NumShards,     \* DENSE shards of the model
    PromptLen,     \* tokens of the prompt
    EmptyLen,      \* tokens the tokenizer finds in an empty prompt
    MaxTokens,     \* max_tokens of the request
    MaxDraft,      \* bound on the candidates of one draft
    Early,         \* wallets connected and draft-capable from the start
    MaxTrouble     \* bound on the disturbances: a miner joins, leaves or answers
                   \* nonsense, the prompt is POSTed again, the tick comes
                   \* while an answer is handled

ASSUME ConstAssumption ==
    /\ None \notin Wallets
    /\ 0 \in Tokens /\ Greedy \in Seq(Tokens)
    /\ NumShards \in Nat \ {0} /\ PromptLen \in Nat /\ EmptyLen \in Nat
    /\ MaxTokens \in Nat /\ MaxDraft \in Nat \ {0} /\ Early \subseteq Wallets
    /\ MaxTrouble \in Nat

\* None is no assignment of a shard, and no answer a session is handling.
ASSUME NoneAssumption ==
    /\ None \notin [wallet : Wallets, shard : Nat]
    /\ None \notin [at : {"apply", "count"}, tag : Nat \X Nat \X Nat,
                    out : [pass : {"prompt", "verify"}, raw : BOOLEAN, toks : Seq(Tokens),
                           ctx : Nat, clean : BOOLEAN],
                    base : Nat]

VARIABLES
    \* the registry; wallets that unregistered and have yet to call
    \* on_disconnect; wallets whose session panicked, registered still
    online, capable, leaving, zombie,
    \* pipelines, shard_assignments and draft_assignments, for this request
    pipe, shardAt, draftAt,
    \* per connection: the lines the miner has not answered, and the shard
    \* result its session is in the middle of handling
    lines, hold,
    \* a miner's KV cache per shard: its length, and how much of it is the
    \* prompt and the beginning of Greedy
    kv,
    \* the opoi_submissions row, and the shards whose hash was submitted
    row, submitted,
    \* pipelines started, disturbances so far
    starts, trouble,
    \* history: the wallets that were ever registered, whether a session ever
    \* panicked, whether the tick sent a step again while a session held the
    \* answer to it, whether an answer was applied to a step it was not
    \* computed for
    seen, panicked, overlapped, tainted

registryVars == <<online, capable, leaving, zombie>>
outcomeVars  == <<row, submitted>>
countVars    == <<starts, trouble>>
historyVars  == <<seen, panicked, overlapped, tainted>>
vars == <<registryVars, pipe, shardAt, draftAt, lines, hold, kv, outcomeVars,
          countVars, historyVars>>

Shards == 1 .. NumShards

\* DRAFT_SESSION_SHARD_INDEX
DraftSession == 0

\* current_input: the prompt or a batch of token ids (raw), or the tensor the
\* previous shard made of it, which remembers the context it was computed in.
RawInput(pass, toks) == [pass |-> pass, raw |-> TRUE, toks |-> toks, ctx |-> 0, clean |-> TRUE]

\* A fresh SpecPipeline; the second and third line are the fields of a relay
\* phase and of RollbackState.
NewPipe ==
    [phase |-> "prompt",
     pos |-> 1, input |-> RawInput("prompt", <<>>), drafts |-> <<>>,
     pending |-> {}, accepted |-> 0, settle |-> None, keep |-> 0, final |-> FALSE,
     draft_wallet |-> None, base |-> 0, carry |-> <<>>, expected0 |-> 0, k |-> 4,
     round |-> 0, generated |-> <<>>, contributions |-> [w \in Wallets |-> 0]]

\* A phase's fields are gone once the phase is.
AwaitingDraft(p) ==
    [p EXCEPT !.phase = "draft", !.pos = 1, !.input = NewPipe.input, !.drafts = <<>>,
              !.pending = {}, !.accepted = 0, !.settle = None, !.keep = 0, !.final = FALSE]

Init ==
    /\ online = Early /\ capable = Early /\ leaving = {} /\ zombie = {}
    /\ pipe = None /\ shardAt = None /\ draftAt = None
    /\ lines = [w \in Wallets |-> <<>>]
    /\ hold = [w \in Wallets |-> None]
    /\ kv = [w \in Wallets |-> [s \in Shards |-> [len |-> 0, good |-> 0]]]
    /\ row = None /\ submitted = {}
    /\ starts = 0 /\ trouble = 0
    /\ seen = Early /\ panicked = FALSE /\ overlapped = FALSE /\ tainted = FALSE

\* A disturbance the bound has room for.
Trouble == trouble < MaxTrouble /\ trouble' = trouble + 1

-----------------------------------------------------------------------------
(* The target, and the miners' sessions                                    *)

\* Can tok be the target's token at a position, the prompt's positions included?
\* Past the end of Greedy any token can.
OnPath(position, tok) ==
    /\ position > PromptLen
    /\ position - PromptLen \in DOMAIN Greedy => tok = Greedy[position - PromptLen]

\* The context of length ctx followed by the first i tokens of a batch.
PathUpTo(ctx, toks, i) == \A j \in 1 .. i : OnPath(ctx + j, toks[j])

\* Can tok be what the target predicts after a context of this length?
Predicted(len, tok) == OnPath(len + 1, tok)

\* Is a session in step with its input, and with the shards before it?
InStep(session, input) ==
    /\ input.clean
    /\ input.pass = "verify" => session.good = session.len
    /\ ~input.raw /\ input.pass = "verify" => session.len = input.ctx

\* A shard computes over its input: the prompt begins a session, a batch is
\* appended to it.
Feed(session, input) ==
    IF input.pass = "prompt"
    THEN [len |-> PromptLen, good |-> IF InStep(session, input) THEN PromptLen ELSE 0]
    ELSE [len |-> session.len + Len(input.toks),
          good |-> IF InStep(session, input)
                   THEN session.len + Max({i \in 0 .. Len(input.toks) :
                                             PathUpTo(session.len, input.toks, i)})
                   ELSE session.good]

Output(session, input) ==
    [pass |-> input.pass, raw |-> FALSE, toks |-> input.toks,
     ctx |-> IF input.pass = "prompt" THEN 0 ELSE session.len,
     clean |-> InStep(session, input)]

\* next_token_ids: the prediction at every position of a batch.
Logits(out) ==
    {l \in [1 .. Len(out.toks) -> Tokens] : \A i \in 1 .. Len(out.toks) :
        out.clean /\ PathUpTo(out.ctx, out.toks, i) => Predicted(out.ctx + i, l[i])}

\* A session truncated to a length, or dropped once its hash is taken.
Truncate(session, line) ==
    IF line.finalize THEN [len |-> 0, good |-> 0]
    ELSE [len |-> Min({session.len, line.keep}), good |-> Min({session.good, line.keep})]

-----------------------------------------------------------------------------
(* dispatch_shard_step, dispatch_draft and begin_rollback.  p is the       *)
(* pipeline, ln the lines, as the caller leaves them.                      *)

\* tx.send: a line for a session that panicked goes nowhere.
Sent(ln, w, line) == IF w \in zombie THEN ln ELSE [ln EXCEPT ![w] = Append(@, line)]

Tag(p) == <<starts, p.round, p.pos>>

ShardLine(p) == [kind |-> "shard", shard |-> p.pos, tag |-> Tag(p), input |-> p.input]

dispatch_shard_step(p, ln) ==
    /\ pipe' = p
    /\ \/ /\ online = {}
          /\ lines' = ln /\ UNCHANGED shardAt
       \/ \E w \in online :
            /\ shardAt' = [wallet |-> w, shard |-> p.pos]
            /\ lines' = Sent(ln, w, ShardLine(p))

\* Candidates asked for: one less in a round that carries a token.
Asked(p) == IF p.carry = <<>> THEN p.k ELSE Max({p.k - 1, 1})

\* The pinned miner while it is registered, or a new one.
DraftWallets(p) ==
    IF p.draft_wallet \in online THEN {p.draft_wallet} ELSE online \cap capable

dispatch_draft(p, ln) ==
    \/ /\ DraftWallets(p) = {}
       /\ pipe' = p /\ lines' = ln /\ UNCHANGED draftAt
    \/ \E w \in DraftWallets(p) :
        /\ pipe' = [p EXCEPT !.draft_wallet = w]
        /\ draftAt' = w
        /\ lines' = Sent(ln, w, [kind |-> "draft", k |-> Asked(p)])

RollbackLine(s, keep, final) ==
    [kind |-> "rollback", shard |-> s, keep |-> keep, finalize |-> final]

\* Every shard's rollback goes to the miner pick_next names, the draft's to
\* the pinned one; an acknowledgement is awaited from each, sent or not.
begin_rollback(p, ln) ==
    LET toShards == [s \in Shards |-> RollbackLine(s, p.keep, p.final)]
        toDraft(ls) == IF p.draft_wallet \in online
                       THEN Sent(ls, p.draft_wallet, RollbackLine(DraftSession, p.keep, FALSE))
                       ELSE ls
    IN  /\ pipe' = [p EXCEPT !.phase = "rollback", !.pos = 1, !.input = NewPipe.input,
                             !.pending = Shards \cup {DraftSession}]
        /\ \/ online = {} /\ lines' = ln
           \/ \E w \in online :
                lines' = toDraft(IF w \in zombie THEN ln
                                 ELSE [ln EXCEPT ![w] = @ \o toShards])

-----------------------------------------------------------------------------
(* Sessions come and go                                                    *)

Register(w) ==
    /\ w \notin online \ zombie
    /\ online' = online \cup {w} /\ zombie' = zombie \ {w}
    /\ lines' = [lines EXCEPT ![w] = <<>>]
    /\ seen' = seen \cup {w}
    /\ (w \in seen /\ UNCHANGED trouble) \/ (w \notin seen /\ Trouble)
    /\ UNCHANGED <<capable, leaving, pipe, shardAt, draftAt, hold, kv, outcomeVars, starts,
                   panicked, overlapped, tainted>>

\* opoi.capabilities with "draft".
MarkDraftCapable(w) ==
    /\ w \in online \ (capable \cup zombie)
    /\ capable' = capable \cup {w}
    /\ UNCHANGED <<online, leaving, zombie, pipe, shardAt, draftAt, lines, hold, kv, outcomeVars,
                   countVars, historyVars>>

\* A session ends, at an await of its handler if it is in one: what was sent
\* is lost, although the miner may have computed it; the wallet is
\* unregistered ..
Leave(w) ==
    /\ w \in online \ zombie /\ Trouble
    /\ hold[w] # None => hold[w].at = "count"
    /\ online' = online \ {w} /\ capable' = capable \ {w} /\ leaving' = leaving \cup {w}
    /\ lines' = [lines EXCEPT ![w] = <<>>] /\ hold' = [hold EXCEPT ![w] = None]
    /\ \/ UNCHANGED kv
       \/ /\ lines[w] # <<>> /\ Head(lines[w]).kind = "shard"
          /\ LET line == Head(lines[w])
             IN  kv' = [kv EXCEPT ![w][line.shard] = Feed(@, line.input)]
    /\ UNCHANGED <<zombie, pipe, shardAt, draftAt, outcomeVars, starts, historyVars>>

\* Mutant of on_disconnect: the shard it was working on stays assigned to it.
KeepsAssignment(w) ==
    /\ w \in leaving
    /\ leaving' = leaving \ {w}
    /\ draftAt' = IF draftAt = w THEN None ELSE draftAt
    /\ pipe' = IF pipe # None /\ pipe.draft_wallet = w THEN None ELSE pipe
    /\ UNCHANGED <<online, capable, zombie, shardAt, lines, hold, kv, outcomeVars, countVars,
                   historyVars>>

\* .. and on_disconnect forgets its assignments, and the pipeline it drafts for.
on_disconnect(w) ==
    /\ w \in leaving
    /\ leaving' = leaving \ {w}
    /\ shardAt' = IF shardAt # None /\ shardAt.wallet = w THEN None ELSE shardAt
    /\ draftAt' = IF draftAt = w THEN None ELSE draftAt
    /\ pipe' = IF pipe # None /\ pipe.draft_wallet = w THEN None ELSE pipe
    /\ UNCHANGED <<online, capable, zombie, lines, hold, kv, outcomeVars, countVars, historyVars>>

-----------------------------------------------------------------------------
(* The loops                                                               *)

\* poll_and_start_tick of the shard engine, for a prompt that is POSTed while
\* the request is pending: it does not look for a speculative pipeline.
start_pipeline ==
    /\ online \cap capable # {}
    /\ (starts = 0 /\ UNCHANGED trouble) \/ (starts > 0 /\ Trouble)
    /\ starts' = starts + 1 /\ tainted' = FALSE
    /\ pipe' = NewPipe
    /\ \E w \in online :
        /\ shardAt' = [wallet |-> w, shard |-> 1]
        /\ lines' = Sent(lines, w, [ShardLine(NewPipe) EXCEPT !.tag = <<starts + 1, 0, 1>>])
    /\ UNCHANGED <<registryVars, draftAt, hold, kv, outcomeVars, seen, panicked,
                   overlapped>>

\* Does the tick come while a session handles an answer?
Overlaps ==
    \/ (\A w \in Wallets : hold[w] = None) /\ UNCHANGED <<trouble, overlapped>>
    \/ (\E w \in Wallets : hold[w] # None) /\ Trouble /\ overlapped' = TRUE

\* retry_stalled_tick: a shard step nobody is assigned to ..
RetryShardStep ==
    /\ pipe # None /\ pipe.phase \in {"prompt", "verify"} /\ shardAt = None /\ online # {}
    /\ dispatch_shard_step(pipe, lines)
    /\ Overlaps
    /\ UNCHANGED <<registryVars, draftAt, hold, kv, outcomeVars, starts, seen, panicked,
                   tainted>>

\* .. or a draft.
RetryDraft ==
    /\ pipe # None /\ pipe.phase = "draft" /\ draftAt = None /\ DraftWallets(pipe) # {}
    /\ dispatch_draft(pipe, lines)
    /\ Overlaps
    /\ UNCHANGED <<registryVars, shardAt, hold, kv, outcomeVars, starts, seen, panicked,
                   tainted>>

-----------------------------------------------------------------------------
(* handle_shard_result                                                     *)

\* The next line w answers, once its session is done with the one before.
Reads(w, kind) ==
    /\ w \in online \ zombie /\ hold[w] = None
    /\ lines[w] # <<>> /\ Head(lines[w]).kind = kind

Popped(w) == [lines EXCEPT ![w] = Tail(@)]

\* The miner computes, and its answer is taken if there is a pipeline and the
\* answer is the assigned one ..
TakeShardResult(w) ==
    /\ Reads(w, "shard")
    /\ lines' = Popped(w)
    /\ LET line == Head(lines[w])
           mine == pipe # None /\ shardAt = [wallet |-> w, shard |-> line.shard]
           session == kv[w][line.shard]
       IN  /\ kv' = [kv EXCEPT ![w][line.shard] = Feed(@, line.input)]
           /\ shardAt' = IF mine THEN None ELSE shardAt
           /\ hold' = IF mine
                      THEN [hold EXCEPT ![w] = [at |-> "apply", tag |-> line.tag,
                                                out |-> Output(session, line.input), base |-> 0]]
                      ELSE hold
           /\ pipe' = IF mine THEN [pipe EXCEPT !.contributions[w] = @ + 1] ELSE pipe
    /\ UNCHANGED <<registryVars, draftAt, outcomeVars, countVars, historyVars>>

\* The session is about to apply a shard result, and does so in this step.
Applies(w) == hold[w] # None /\ hold[w].at = "apply"

Done(w) == hold' = [hold EXCEPT ![w] = None]

\* Was the answer computed for the step it is applied to?
Meant(w) == hold[w].tag = Tag(pipe)

Relaying == pipe # None /\ pipe.phase \in {"prompt", "verify"}

\* .. to a pipeline that is gone, or past the relay ..
ApplyLate(w) ==
    /\ Applies(w)
    /\ ~Relaying
    /\ Done(w)
    /\ UNCHANGED <<registryVars, pipe, shardAt, draftAt, lines, kv, outcomeVars, countVars,
                   historyVars>>

\* Mutant of ApplyRelay: the last shard's answer is relayed too.
RelayPastEnd(w) ==
    /\ Applies(w) /\ Relaying /\ pipe.pos <= NumShards
    /\ Done(w)
    /\ dispatch_shard_step([pipe EXCEPT !.pos = @ + 1, !.input = hold[w].out], lines)
    /\ tainted' = (tainted \/ ~Meant(w))
    /\ UNCHANGED <<registryVars, draftAt, kv, outcomeVars, countVars, seen, panicked,
                   overlapped>>

\* .. to a pass that goes on with the next shard ..
ApplyRelay(w) ==
    /\ Applies(w) /\ Relaying /\ pipe.pos < NumShards
    /\ Done(w)
    /\ dispatch_shard_step([pipe EXCEPT !.pos = @ + 1, !.input = hold[w].out], lines)
    /\ tainted' = (tainted \/ ~Meant(w))
    /\ UNCHANGED <<registryVars, draftAt, kv, outcomeVars, countVars, seen, panicked,
                   overlapped>>

\* .. to the end of the prompt pass: the prompt is read from the phase, and
\* its tokens are counted, which may take a download ..
ApplyPrompt(w) ==
    /\ Applies(w) /\ Relaying /\ pipe.pos = NumShards /\ pipe.phase = "prompt"
    /\ hold' = [hold EXCEPT ![w].at = "count",
                            ![w].base = IF pipe.input.raw THEN PromptLen ELSE EmptyLen]
    /\ tainted' = (tainted \/ ~Meant(w) \/ ~hold[w].out.clean)
    /\ UNCHANGED <<registryVars, pipe, shardAt, draftAt, lines, kv, outcomeVars, countVars,
                   seen, panicked, overlapped>>

\* .. (and failing that, the pipeline is dropped) ..
CountFails(w) ==
    /\ hold[w] # None /\ hold[w].at = "count"
    /\ Done(w)
    /\ pipe' = None
    /\ UNCHANGED <<registryVars, shardAt, draftAt, lines, kv, outcomeVars, countVars, historyVars>>

\* .. after which the first draft is asked for, whatever happened meanwhile ..
CountDone(w) ==
    /\ hold[w] # None /\ hold[w].at = "count"
    /\ Done(w)
    /\ \/ /\ pipe = None
          /\ UNCHANGED <<pipe, draftAt, lines, tainted>>
       \/ /\ pipe # None
          /\ \E t0 \in Tokens :
              /\ hold[w].out.clean /\ hold[w].out.pass = "prompt" => Predicted(PromptLen, t0)
              /\ dispatch_draft([AwaitingDraft(pipe) EXCEPT !.base = hold[w].base,
                                                         !.expected0 = t0], lines)
          /\ tainted' = (tainted \/ ~Meant(w) \/ pipe.phase # "prompt")
    /\ UNCHANGED <<registryVars, shardAt, kv, outcomeVars, countVars, seen, panicked,
                   overlapped>>

\* What greedy_verify_round expects at the i-th candidate, and after the last.
Expected(p, logits, i) ==
    IF p.carry # <<>> THEN logits[i] ELSE IF i = 1 THEN p.expected0 ELSE logits[i - 1]

\* Mutant of greedy_verify_round: a candidate is compared with the prediction
\* that follows it.
AcceptsShifted(p, logits, n) ==
    /\ \A i \in 1 .. n : p.drafts[i] = logits[i]
    /\ n < Len(p.drafts) => p.drafts[n + 1] # logits[n + 1]

\* greedy_verify_round accepts n candidates: those that are the target's own
\* predictions, up to the first that is not.
greedy_verify_round(p, logits, n) ==
    /\ \A i \in 1 .. n : p.drafts[i] = Expected(p, logits, i)
    /\ n < Len(p.drafts) => p.drafts[n + 1] # Expected(p, logits, n + 1)

\* Mutant of kv_keep_len: the carried token is forgotten.
KeepsNoCarry(p, n) == p.base + n

kv_keep_len(p, n) == p.base + Len(p.carry) + n

\* The round that reaches max_tokens.
IsFinalizing(p, n) == p.base + n + 1 >= MaxTokens

\* .. to the end of a verify pass: the accepted candidates and the settling
\* token are the round's output ..
ApplyVerify(w) ==
    /\ Applies(w) /\ Relaying /\ pipe.pos = NumShards /\ pipe.phase = "verify"
    /\ hold[w].out.pass = "verify"
    /\ Len(hold[w].out.toks) = Len(pipe.drafts) + Len(pipe.carry)
    /\ Done(w)
    /\ \E logits \in Logits(hold[w].out), n \in 0 .. Len(pipe.drafts) :
        /\ greedy_verify_round(pipe, logits, n)
        /\ LET settle == Expected(pipe, logits, n + 1)
           IN  begin_rollback([pipe EXCEPT
                    !.generated = @ \o SubSeq(pipe.drafts, 1, n) \o <<settle>>,
                    !.accepted = n, !.settle = settle, !.keep = kv_keep_len(pipe, n),
                    !.final = IsFinalizing(pipe, n)], lines)
    /\ tainted' = (\/ tainted \/ ~Meant(w) \/ ~hold[w].out.clean
                   \/ hold[w].out.ctx + Len(pipe.carry) # PromptLen + Len(pipe.generated))
    /\ UNCHANGED <<registryVars, shardAt, draftAt, kv, outcomeVars, countVars, seen, panicked,
                   overlapped>>

\* .. unless it has not the prediction the phase needs (a prompt's result has
\* no next_token_ids): the pipeline is dropped ..
ApplyMalformed(w) ==
    /\ Applies(w) /\ Relaying /\ pipe.pos = NumShards
    /\ \/ pipe.phase = "verify" /\ hold[w].out.pass = "prompt" /\ UNCHANGED trouble
       \/ Trouble
    /\ Done(w)
    /\ pipe' = None
    /\ UNCHANGED <<registryVars, shardAt, draftAt, lines, kv, outcomeVars, starts, historyVars>>

\* .. or has not one per token of the batch: the assertion fails and takes the
\* session with it, which neither unregisters nor calls on_disconnect.
ApplyPanics(w) ==
    /\ Applies(w) /\ Relaying /\ pipe.pos = NumShards /\ pipe.phase = "verify"
    /\ hold[w].out.pass = "verify"
    /\ \/ Len(hold[w].out.toks) # Len(pipe.drafts) + Len(pipe.carry) /\ UNCHANGED trouble
       \/ Trouble
    /\ Done(w)
    /\ zombie' = zombie \cup {w} /\ panicked' = TRUE
    /\ lines' = [lines EXCEPT ![w] = <<>>]
    /\ UNCHANGED <<online, capable, leaving, pipe, shardAt, draftAt, kv, outcomeVars, starts,
                   seen, overlapped, tainted>>

-----------------------------------------------------------------------------
(* handle_draft_result and handle_kv_rollback_ack                          *)

\* What a draft miner may propose: candidates nobody vouches for.
Proposals(k) == UNION {[1 .. n -> Tokens] : n \in 1 .. Min({k, MaxDraft})}

\* Candidates arrive, and the batch is verified, whatever the phase is.
handle_draft_result(w) ==
    /\ Reads(w, "draft")
    /\ \/ /\ draftAt # w
          /\ lines' = Popped(w)
          /\ UNCHANGED <<pipe, shardAt, draftAt, tainted, trouble>>
       \/ /\ draftAt = w /\ pipe = None
          /\ lines' = Popped(w) /\ draftAt' = None
          /\ UNCHANGED <<pipe, shardAt, tainted, trouble>>
       \/ /\ draftAt = w /\ Trouble
          /\ lines' = Popped(w) /\ draftAt' = None
          /\ UNCHANGED <<pipe, shardAt, tainted>>
       \/ /\ draftAt = w /\ pipe # None
          /\ draftAt' = None
          /\ \E d \in Proposals(Head(lines[w]).k) :
                dispatch_shard_step(
                    [AwaitingDraft(pipe) EXCEPT
                        !.phase = "verify", !.round = @ + 1, !.drafts = d,
                        !.input = RawInput("verify", pipe.carry \o d)], Popped(w))
          /\ tainted' = (tainted \/ pipe.phase # "draft")
          /\ UNCHANGED trouble
    /\ UNCHANGED <<registryVars, hold, kv, outcomeVars, starts, seen, panicked,
                   overlapped>>

next_k(p) ==
    LET asked == Len(p.drafts)
        k == IF 10 * p.accepted > 7 * asked THEN p.k + 1
             ELSE IF 2 * p.accepted < asked THEN p.k - 1 ELSE p.k
    IN  Min({Max({k, 2}), 8})

NextRound(p) ==
    [AwaitingDraft(p) EXCEPT !.base = p.keep, !.carry = <<p.settle>>,
                             !.expected0 = p.settle, !.k = next_k(p)]

\* The wallets with the most accepted steps.
Winners(p) ==
    {w \in Wallets : p.contributions[w] > 0
                     /\ \A v \in Wallets : p.contributions[v] <= p.contributions[w]}

\* finalize_pipeline: the answer is recorded, unless the database fails.
finalize_pipeline(p) ==
    /\ pipe' = None
    /\ \/ \E w \in Winners(p) : row' = [wallet |-> w, tokens |-> p.generated, clean |-> ~tainted]
       \/ UNCHANGED row

RollingBack == pipe # None /\ pipe.phase = "rollback"

\* The miner truncates or finalizes its session and acknowledges; the last
\* acknowledgement ends the round.  Neither its sender nor its round is checked.
handle_kv_rollback_ack(w) ==
    /\ Reads(w, "rollback")
    /\ LET line == Head(lines[w])
           s == line.shard
           p == [pipe EXCEPT !.pending = @ \ {s}]
       IN  /\ kv' = IF s = DraftSession THEN kv ELSE [kv EXCEPT ![w][s] = Truncate(@, line)]
           /\ \/ /\ ~RollingBack
                 /\ lines' = Popped(w)
                 /\ UNCHANGED <<pipe, draftAt, outcomeVars>>
              \/ /\ RollingBack
                 /\ submitted' = IF s # DraftSession /\ pipe.final /\ line.finalize
                                    /\ kv[w][s].len > 0
                                 THEN submitted \cup {s} ELSE submitted
                 /\ \/ /\ p.pending # {}
                       /\ pipe' = p /\ lines' = Popped(w)
                       /\ UNCHANGED <<draftAt, row>>
                    \/ /\ p.pending = {} /\ p.final
                       /\ finalize_pipeline(p)
                       /\ lines' = Popped(w)
                       /\ UNCHANGED draftAt
                    \/ /\ p.pending = {} /\ ~p.final
                       /\ dispatch_draft(NextRound(p), Popped(w))
                       /\ UNCHANGED row
    /\ UNCHANGED <<registryVars, shardAt, hold, countVars, historyVars>>

-----------------------------------------------------------------------------
Tick == RetryShardStep \/ RetryDraft

\* A handler that is under way goes on.
Handler(w) ==
    \/ ApplyLate(w) \/ ApplyRelay(w) \/ ApplyPrompt(w) \/ CountFails(w) \/ CountDone(w)
    \/ ApplyVerify(w) \/ ApplyMalformed(w) \/ ApplyPanics(w)

\* A connected miner answers a line.
Answer(w) == TakeShardResult(w) \/ handle_draft_result(w) \/ handle_kv_rollback_ack(w)

Next ==
    \/ start_pipeline \/ Tick
    \/ \E w \in Wallets :
        \/ Register(w) \/ MarkDraftCapable(w) \/ Leave(w) \/ on_disconnect(w)
        \/ Answer(w) \/ Handler(w)

Spec == Init /\ [][Next]_vars

\* The tick recurs, a session runs its handler and, when it ends, its
\* on_disconnect, and a connected miner answers.
FairSpec ==
    /\ Spec /\ WF_vars(Tick)
    /\ \A w \in Wallets :
        WF_vars(Handler(w)) /\ WF_vars(Answer(w)) /\ WF_vars(on_disconnect(w))

-----------------------------------------------------------------------------
(* Properties                                                              *)

\* The value of every variable; k stays within its limits, and an answer in
\* the relay, a draft or a rollback has what its phase needs.
TypeOK ==
    /\ UNION {online, capable, leaving, zombie, seen} \subseteq Wallets
    /\ shardAt = None \/ (shardAt.wallet \in Wallets /\ shardAt.shard \in Shards)
    /\ draftAt \in Wallets \cup {None}
    /\ \A w \in Wallets : hold[w] = None \/ hold[w].tag \in Nat \X Nat \X Nat
    /\ \A w \in Wallets, s \in Shards : kv[w][s].good <= kv[w][s].len
    /\ pipe = None \/
        /\ pipe.k \in 2 .. 8 /\ pipe.pos \in Shards
        /\ Len(pipe.carry) <= 1
        /\ pipe.phase = "verify" => pipe.drafts # <<>>
        /\ pipe.phase = "rollback" => pipe.pending # {}
        /\ Len(pipe.generated) >= Len(pipe.carry)

\* As long as every answer was applied to the step it was computed for, the
\* output is what the target would have decoded on its own.
Lossless ==
    /\ pipe # None /\ ~tainted =>
        \A i \in DOMAIN pipe.generated :
            i \in DOMAIN Greedy => pipe.generated[i] = Greedy[i]
    /\ row # None /\ row.clean =>
        \A i \in DOMAIN row.tokens : i \in DOMAIN Greedy => row.tokens[i] = Greedy[i]

\* Where the prompt pass ends with the prompt at hand, or its length does not
\* matter: with a sole miner whose session never panicked, a pipeline that was
\* started once, and no step sent again while its answer was being handled,
\* every answer is applied to the step it was computed for, by a session that
\* holds exactly the output.
SoleMinerStaysInStep ==
    (/\ NumShards = 1 \/ EmptyLen = PromptLen
     /\ (\A v, w \in seen : v = w) /\ starts = 1 /\ ~overlapped /\ ~panicked)
    => ~tainted

\* For a rollback acknowledgement, for a miner to connect, or for a session
\* that panicked.
Waiting ==
    \/ pipe = None \/ pipe.phase = "rollback"
    \/ online = {} \/ (pipe.phase = "draft" /\ DraftWallets(pipe) = {})
    \/ panicked

\* A pipeline that never ends is Waiting for good: every shard step and every
\* draft is sent again by the tick until it is answered.
HangsOnlyInRollback == <>[](pipe # None) => <>[]Waiting
=============================================================================
