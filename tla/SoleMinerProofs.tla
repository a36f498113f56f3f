-------------------------- MODULE SoleMinerProofs --------------------------
(***************************************************************************)
(* Proofs about Speculative, continued: with one miner, one start of the   *)
(* pipeline and no step sent again while its answer is handled, every      *)
(* answer is applied to the step it was computed for.                      *)
(***************************************************************************)
EXTENDS SpeculativeProofs

-----------------------------------------------------------------------------
(* The inductive invariant                                                 *)

\* The premises of SoleMinerStaysInStep, for the miner m; the pipeline may have
\* yet to start.
Sole(m) ==
    /\ NumShards = 1 \/ EmptyLen = PromptLen
    /\ seen \subseteq {m} /\ starts <= 1 /\ ~overlapped /\ ~panicked

\* Only m is there, and before the pipeline there is nothing to answer.
Alone(m) ==
    /\ online \subseteq {m} /\ leaving \subseteq {m} /\ zombie = {}
    /\ \A w \in Wallets \ {m} : lines[w] = <<>> /\ hold[w] = None
    /\ m \notin online => lines[m] = <<>> /\ hold[m] = None
    /\ starts = 0 => /\ pipe = None /\ shardAt = None /\ draftAt = None
                     /\ lines[m] = <<>> /\ hold[m] = None
    /\ ~tainted

\* A session of this length that holds nothing but the output.
Full(len) == [len |-> len, good |-> len]

\* A line of the prompt pass, for a shard up to n.
PromptLine(l, n) ==
    /\ l.kind = "shard" /\ l.shard <= n /\ l.tag = <<1, 0, l.shard>>
    /\ l.input.pass = "prompt" /\ l.input.clean

\* The prompt pass.  A line may be there several times: m may have left and come
\* back before its on_disconnect.
InPrompt(m) ==
    /\ pipe.draft_wallet = None /\ draftAt = None /\ pipe.round = 0
    /\ pipe.input.pass = "prompt" /\ pipe.input.clean /\ (pipe.pos = 1 => pipe.input.raw)
    /\ shardAt # None => shardAt = [wallet |-> m, shard |-> pipe.pos] /\ hold[m] = None
    /\ \A i \in DOMAIN lines[m] : PromptLine(lines[m][i], pipe.pos)
    /\ hold[m] # None =>
        /\ hold[m].tag = <<1, 0, pipe.pos>>
        /\ hold[m].out.pass = "prompt" /\ hold[m].out.clean
        /\ hold[m].at = "count" => pipe.pos = NumShards /\ hold[m].base = PromptLen
    /\ \A s \in Shards :
        s < pipe.pos \/ (s = pipe.pos /\ hold[m] # None) => kv[m][s] = Full(PromptLen)

\* A round begins where the sessions end, one carried token before the output.
InLine(p) == p.base + Len(p.carry) = PromptLen + Len(p.generated)

\* A draft: what is left of the prompt pass comes before its line.
InDraft(m) ==
    /\ hold[m] = None /\ shardAt = None
    /\ pipe.draft_wallet \in {None, m} /\ draftAt \in {None, pipe.draft_wallet}
    /\ InLine(pipe)
    /\ \A s \in Shards : kv[m][s] = Full(pipe.base)
    /\ \A i \in DOMAIN lines[m] :
        \/ PromptLine(lines[m][i], NumShards) /\ pipe.base = PromptLen
        \/ lines[m][i].kind = "draft" /\ i = Len(lines[m]) /\ draftAt = m

\* A session once the batch of p's round is appended to it.
Fed(p) == Feed(Full(p.base), RawInput("verify", p.carry \o p.drafts))

\* The first n shards have computed over the batch.
Computed(m, n) ==
    \A s \in Shards : kv[m][s] = IF s <= n THEN Fed(pipe) ELSE Full(pipe.base)

\* The verify pass: the step is on its way to m, is lost with m's session, or
\* its answer is being handled.
InVerify(m) ==
    /\ pipe.draft_wallet = m /\ draftAt = None
    /\ InLine(pipe)
    /\ pipe.input.pass = "verify" /\ pipe.input.clean
    /\ ~pipe.input.raw => pipe.input.ctx = pipe.base
    /\ \/ /\ hold[m] = None /\ shardAt = [wallet |-> m, shard |-> pipe.pos]
          /\ lines[m] = <<ShardLine(pipe)>> /\ Computed(m, pipe.pos - 1)
       \/ /\ hold[m] = None /\ shardAt = [wallet |-> m, shard |-> pipe.pos]
          /\ lines[m] = <<>>
       \/ /\ hold[m] # None /\ shardAt = None
          /\ lines[m] = <<>> /\ Computed(m, pipe.pos)
          /\ hold[m].at = "apply" /\ hold[m].tag = Tag(pipe)
          /\ hold[m].out.pass = "verify" /\ hold[m].out.clean /\ hold[m].out.ctx = pipe.base

\* The lines of a rollback: no session has two, and every session that does is
\* pending.
OneForEach(queue, pending, keep, final) ==
    \A i \in DOMAIN queue :
        /\ queue[i].kind = "rollback" /\ queue[i].shard \in pending
        /\ queue[i].shard # DraftSession => queue[i].keep = keep /\ queue[i].finalize = final
        /\ \A j \in DOMAIN queue : queue[i].shard = queue[j].shard => i = j

\* The rollback: every session is truncated to what was committed, or can be.
InRollback(m) ==
    /\ hold[m] = None /\ shardAt = None /\ draftAt = None /\ pipe.draft_wallet = m
    /\ pipe.keep + 1 = PromptLen + Len(pipe.generated)
    /\ OneForEach(lines[m], pipe.pending, pipe.keep, pipe.final)
    /\ ~pipe.final => \A s \in Shards :
        IF s \in pipe.pending THEN kv[m][s].good >= pipe.keep ELSE kv[m][s] = Full(pipe.keep)

\* Where m stands in the pipeline.
Standing(m) ==
    /\ pipe.phase = "prompt" => InPrompt(m)
    /\ pipe.phase = "draft" => InDraft(m)
    /\ pipe.phase = "verify" => InVerify(m)
    /\ pipe.phase = "rollback" => InRollback(m)

SoleInv == \A m \in Wallets : Sole(m) => Alone(m) /\ (pipe # None => Standing(m))

\* A pipeline takes a miner.
Somebody == starts # 0 => Wallets # {}

\* What a step starts from, and ends in.
InOrderFor(m) == Alone(m) /\ (pipe # None => Standing(m))

Before(m) == PathInv /\ Sole(m) /\ InOrderFor(m)

-----------------------------------------------------------------------------
(* What stays the same                                                     *)

\* Whoever is connected, is sent something or is being handled is m.
LEMMA OnlyOne ==
    ASSUME NEW m \in Wallets, Before(m), NEW w \in Wallets,
           w \in online \/ w \in leaving \/ lines[w] # <<>> \/ hold[w] # None
    PROVE  w = m
BY DEF Before, InOrderFor, Alone

\* The step concerns none of what the invariant is about.
LEMMA SameStanding ==
    ASSUME NEW m \in Wallets, Standing(m), lines'[m] = lines[m], hold'[m] = hold[m],
           kv' = kv, pipe' = pipe, shardAt' = shardAt, draftAt' = draftAt, starts' = starts
    PROVE  Standing(m)'
<1>1. InPrompt(m) => InPrompt(m)'
    BY DEF InPrompt
<1>2. InDraft(m) => InDraft(m)'
    BY DEF InDraft
<1>3. InVerify(m) => InVerify(m)'
  <2>1. Tag(pipe)' = Tag(pipe) /\ ShardLine(pipe)' = ShardLine(pipe)
    BY DEF Tag, ShardLine
  <2>2. \A n : Computed(m, n) => Computed(m, n)'
    BY DEF Computed
  <2> QED
    BY <2>1, <2>2 DEF InVerify
<1>4. InRollback(m) => InRollback(m)'
    BY DEF InRollback, OneForEach
<1> QED
    BY <1>1, <1>2, <1>3, <1>4 DEF Standing

LEMMA RegisterSole ==
    ASSUME NEW m \in Wallets, Before(m), Sole(m)', NEW w \in Wallets, Register(w)
    PROVE  InOrderFor(m)'
<1>1. UNCHANGED <<leaving, pipe, shardAt, draftAt, hold, kv, starts, tainted>>
    BY DEF Register
<1>2. w = m
    BY DEF Register, Sole
<1>3. zombie = {} /\ m \notin online /\ lines[m] = <<>> /\ hold[m] = None
    BY <1>2 DEF Register, Before, InOrderFor, Alone
<1>4. online' \subseteq {m} /\ zombie' = {}
    BY <1>2 DEF Register, Before, InOrderFor, Alone
<1>5. \A v \in Wallets : lines'[v] = lines[v]
    BY <1>2, <1>3 DEF Register, Before, PathInv, TypeInv, Queues
<1>6. pipe # None => Standing(m)'
    BY <1>1, <1>5, SameStanding DEF Before, InOrderFor
<1> QED
    BY <1>1, <1>3, <1>4, <1>5, <1>6 DEF InOrderFor, Before, Alone

LEMMA MarkDraftCapableSole ==
    ASSUME NEW m \in Wallets, Before(m), NEW w \in Wallets, MarkDraftCapable(w)
    PROVE  InOrderFor(m)'
<1>1. UNCHANGED <<online, leaving, zombie, pipe, shardAt, draftAt, lines, hold, kv, starts,
                  tainted>>
    BY DEF MarkDraftCapable, countVars, historyVars
<1> QED
    BY <1>1, SameStanding DEF InOrderFor, Before, Alone

\* An assignment and a held answer are not None.
LEMMA Something == None \notin Places /\ None \notin Holds
<1>1. Places \subseteq [wallet : Wallets, shard : Nat]
    BY ConstAssumption DEF Places, Shards
<1>2. None \notin Holds
    BY NoneAssumption DEF Holds, Tags, Inputs, Batches
<1> QED
    BY <1>1, <1>2, NoneAssumption

-----------------------------------------------------------------------------
(* The lines and the sessions after a step                                 *)

LEMMA HeadIs ==
    ASSUME TypeInv, NEW w \in Wallets, lines[w] # <<>>
    PROVE  /\ 1 \in DOMAIN lines[w] /\ Head(lines[w]) = lines[w][1]
           /\ Head(lines[w]) \in AllLines
BY PoppedType DEF TypeInv, Queues

LEMMA PoppedAt ==
    ASSUME TypeInv, NEW w \in Wallets, lines[w] # <<>>
    PROVE  /\ \A v \in Wallets \ {w} : Popped(w)[v] = lines[v]
           /\ Len(lines[w]) \in Nat /\ Len(Popped(w)[w]) = Len(lines[w]) - 1
           /\ Len(lines[w]) = 1 => Popped(w)[w] = <<>>
           /\ \A i \in DOMAIN Popped(w)[w] :
                i \in Nat /\ i + 1 \in DOMAIN lines[w] /\ Popped(w)[w][i] = lines[w][i + 1]
<1>1. lines[w] \in Seq(AllLines) /\ Popped(w) = [lines EXCEPT ![w] = Tail(lines[w])]
      /\ lines \in [Wallets -> Seq(AllLines)]
    BY DEF TypeInv, Queues, Popped
<1>2. /\ Tail(lines[w]) \in Seq(AllLines) /\ Len(Tail(lines[w])) = Len(lines[w]) - 1
      /\ \A i \in DOMAIN Tail(lines[w]) :
            i \in Nat /\ i + 1 \in DOMAIN lines[w] /\ Tail(lines[w])[i] = lines[w][i + 1]
    BY <1>1
<1>3. Len(lines[w]) = 1 => Tail(lines[w]) = <<>>
    BY <1>1, <1>2, EmptySeq
<1> QED
    BY <1>1, <1>2, <1>3

LEMMA SentAt ==
    ASSUME zombie = {}, NEW ln \in Queues, NEW w \in Wallets, NEW line \in AllLines
    PROVE  /\ \A v \in Wallets \ {w} : Sent(ln, w, line)[v] = ln[v]
           /\ ln[w] = <<>> => Sent(ln, w, line)[w] = <<line>>
           /\ Len(ln[w]) \in Nat /\ Len(Sent(ln, w, line)[w]) = Len(ln[w]) + 1
           /\ \A i \in DOMAIN Sent(ln, w, line)[w] :
                \/ i \in DOMAIN ln[w] /\ Sent(ln, w, line)[w][i] = ln[w][i]
                \/ i = Len(ln[w]) + 1 /\ Sent(ln, w, line)[w][i] = line
<1>1. ln[w] \in Seq(AllLines) /\ Sent(ln, w, line) = [ln EXCEPT ![w] = Append(ln[w], line)]
      /\ ln \in [Wallets -> Seq(AllLines)]
    BY DEF Queues, Sent
<1>2. /\ Len(Append(ln[w], line)) = Len(ln[w]) + 1
      /\ \A i \in DOMAIN Append(ln[w], line) :
                \/ i \in DOMAIN ln[w] /\ Append(ln[w], line)[i] = ln[w][i]
                \/ i = Len(ln[w]) + 1 /\ Append(ln[w], line)[i] = line
    BY <1>1
<1>3. ln[w] = <<>> => Append(ln[w], line) = <<line>>
    BY <1>1
<1> QED
    BY <1>1, <1>2, <1>3

\* A session computes over a line.
LEMMA FedAt ==
    ASSUME TypeInv, NEW m \in Wallets, NEW s \in Shards, NEW new,
           kv' = [kv EXCEPT ![m][s] = new]
    PROVE  kv'[m][s] = new /\ \A t \in Shards \ {s} : kv'[m][t] = kv[m][t]
BY DEF TypeInv

\* Whatever a session held, a clean prompt begins it anew.
LEMMA PromptFeeds ==
    ASSUME NEW session, NEW input, input.pass = "prompt", input.clean
    PROVE  /\ Feed(session, input) = Full(PromptLen)
           /\ Output(session, input).pass = "prompt" /\ Output(session, input).clean
BY DEF Feed, Output, InStep, Full

LEMMA LeaveSole ==
    ASSUME NEW m \in Wallets, Before(m), NEW w \in Wallets, Leave(w)
    PROVE  InOrderFor(m)'
<1>1. UNCHANGED <<zombie, pipe, shardAt, draftAt, starts, tainted>>
    BY DEF Leave, historyVars
<1>2. w = m /\ TypeInv /\ (hold[m] # None => hold[m].at = "count")
    BY OnlyOne DEF Leave, Before, PathInv
<1>3. /\ online' \subseteq {m} /\ leaving' \subseteq {m}
      /\ lines'[m] = <<>> /\ hold'[m] = None
      /\ \A v \in Wallets \ {m} : lines'[v] = lines[v] /\ hold'[v] = hold[v]
    BY <1>2 DEF Leave, Before, InOrderFor, Alone, TypeInv, Queues
<1>4. Alone(m)'
    BY <1>1, <1>3 DEF Before, InOrderFor, Alone
<1> SUFFICES ASSUME pipe # None PROVE Standing(m)'
    BY <1>1, <1>4 DEF InOrderFor
<1>5. Standing(m) /\ PipeOK(pipe)
    BY <1>2 DEF Before, InOrderFor, TypeInv
<1>6. \/ kv' = kv
      \/ /\ lines[m] # <<>> /\ lines[m][1] \in ShardLines /\ 1 \in DOMAIN lines[m]
         /\ kv' = [kv EXCEPT ![m][lines[m][1].shard] = Feed(@, lines[m][1].input)]
    BY <1>2, HeadIs, ShardHead DEF Leave
<1>7. ASSUME NEW n, lines[m] # <<>>, 1 \in DOMAIN lines[m] => PromptLine(lines[m][1], n),
             NEW s \in Shards, kv[m][s] = Full(PromptLen)
      PROVE  kv'[m][s] = Full(PromptLen)
  <2>1. CASE kv' = kv
    BY <1>7, <2>1
  <2>2. CASE /\ lines[m] # <<>> /\ lines[m][1] \in ShardLines /\ 1 \in DOMAIN lines[m]
             /\ kv' = [kv EXCEPT ![m][lines[m][1].shard] = Feed(@, lines[m][1].input)]
    <3>1. PICK t \in Shards, input \in Inputs : t = lines[m][1].shard /\ input = lines[m][1].input
      BY <2>2 DEF ShardLines
    <3>2. Feed(kv[m][t], input) = Full(PromptLen)
      BY <1>7, <2>2, <3>1, PromptFeeds DEF PromptLine
    <3>3. kv' = [kv EXCEPT ![m][t] = Feed(kv[m][t], input)]
      BY <1>2, <2>2, <3>1 DEF TypeInv
    <3> QED
      BY <1>2, <1>7, <3>2, <3>3, FedAt
  <2> QED
    BY <1>6, <2>1, <2>2
<1>8. CASE pipe.phase = "prompt"
  <2>1. InPrompt(m)
    BY <1>5, <1>8 DEF Standing
  <2>2. InPrompt(m)'
    BY <1>1, <1>3, <1>6, <1>7, <2>1 DEF InPrompt
  <2> QED
    BY <1>1, <1>8, <2>2 DEF Standing
<1>9. CASE pipe.phase = "draft"
  <2>1. InDraft(m)
    BY <1>5, <1>9 DEF Standing
  <2>2. CASE kv' = kv
    BY <1>1, <1>3, <1>9, <2>1, <2>2 DEF InDraft, Standing
  <2>3. CASE kv' # kv
    <3>1. PromptLine(lines[m][1], NumShards) /\ pipe.base = PromptLen
      BY <1>6, <2>1, <2>3 DEF InDraft, ShardLines
    <3>2. \A s \in Shards : kv'[m][s] = Full(pipe.base)
      BY <1>6, <1>7, <2>1, <2>3, <3>1 DEF InDraft
    <3>3. InDraft(m)'
      BY <1>1, <1>3, <2>1, <3>2 DEF InDraft
    <3> QED
      BY <1>1, <1>9, <3>3 DEF Standing
  <2> QED
    BY <2>2, <2>3
<1>10. CASE pipe.phase = "verify"
  <2>1. InVerify(m)
    BY <1>5, <1>10 DEF Standing
  <2>2. InVerify(m)'
    BY <1>1, <1>2, <1>3, <2>1 DEF InVerify
  <2> QED
    BY <1>1, <1>10, <2>2 DEF Standing
<1>11. CASE pipe.phase = "rollback"
  <2>1. InRollback(m)
    BY <1>5, <1>11 DEF Standing
  <2>2. kv' = kv
    BY <1>6, <2>1 DEF InRollback, OneForEach, ShardLines
  <2>3. InRollback(m)'
    BY <1>1, <1>3, <2>1, <2>2 DEF InRollback, OneForEach
  <2> QED
    BY <1>1, <1>11, <2>3 DEF Standing
<1> QED
    BY <1>5, <1>8, <1>9, <1>10, <1>11 DEF PipeOK, Pipes

LEMMA on_disconnectSole ==
    ASSUME NEW m \in Wallets, Before(m), NEW w \in Wallets, on_disconnect(w)
    PROVE  InOrderFor(m)'
<1>1. UNCHANGED <<online, zombie, lines, hold, kv, starts, tainted>>
    BY DEF on_disconnect, countVars, historyVars
<1>2. w = m /\ m # None
    BY OnlyOne, ConstAssumption DEF on_disconnect
<1>3. /\ leaving' \subseteq {m}
      /\ shardAt' = None \/ shardAt' = shardAt
      /\ draftAt' = IF draftAt = m THEN None ELSE draftAt
      /\ pipe' = IF pipe # None /\ pipe.draft_wallet = m THEN None ELSE pipe
    BY <1>2 DEF on_disconnect, Before, InOrderFor, Alone
<1>4. Alone(m)'
    BY <1>1, <1>2, <1>3 DEF Before, InOrderFor, Alone
<1> SUFFICES ASSUME pipe' # None PROVE Standing(m)'
    BY <1>4 DEF InOrderFor
<1>5. pipe' = pipe /\ pipe.draft_wallet # m /\ Standing(m) /\ PipeOK(pipe)
    BY <1>3 DEF Before, InOrderFor, PathInv, TypeInv
<1>6. pipe.phase \in {"prompt", "draft"}
    BY <1>5 DEF Standing, InVerify, InRollback, OneForEach, PipeOK, Pipes
<1>7. CASE pipe.phase = "prompt"
  <2>1. InPrompt(m)
    BY <1>5, <1>7 DEF Standing
  <2>2. InPrompt(m)'
    BY <1>1, <1>2, <1>3, <1>5, <2>1 DEF InPrompt
  <2> QED
    BY <1>5, <1>7, <2>2 DEF Standing
<1>8. CASE pipe.phase = "draft"
  <2>1. InDraft(m)
    BY <1>5, <1>8 DEF Standing
  <2>2. draftAt = None /\ draftAt' = None /\ shardAt' = None
    BY <1>2, <1>3, <1>5, <2>1 DEF InDraft
  <2>3. InDraft(m)'
    BY <1>1, <1>2, <1>3, <1>5, <2>1, <2>2 DEF InDraft
  <2> QED
    BY <1>5, <1>8, <2>3 DEF Standing
<1> QED
    BY <1>6, <1>7, <1>8

LEMMA start_pipelineSole ==
    ASSUME NEW m \in Wallets, Before(m), TypeInv', Sole(m)', start_pipeline
    PROVE  InOrderFor(m)'
<1>1. UNCHANGED <<online, leaving, zombie, draftAt, hold, kv>> /\ ~tainted'
    BY DEF start_pipeline, registryVars
<1>2. starts = 0 /\ starts' = 1 /\ pipe' = NewPipe /\ TypeInv
    BY DEF start_pipeline, Sole, Before, PathInv, TypeInv
<1>3. /\ pipe = None /\ draftAt = None /\ hold[m] = None /\ lines[m] = <<>> /\ zombie = {}
      /\ online \subseteq {m}
    BY <1>2 DEF Before, InOrderFor, Alone
<1> DEFINE line == [ShardLine(NewPipe) EXCEPT !.tag = <<starts + 1, 0, 1>>]
<1>4. m \in online /\ shardAt' = [wallet |-> m, shard |-> 1] /\ lines' = Sent(lines, m, line)
    BY <1>3 DEF start_pipeline
<1>5. line = [kind |-> "shard", shard |-> 1, tag |-> <<1, 0, 1>>, input |-> NewPipe.input]
    BY <1>2, NewPipeType DEF ShardLine
<1>6. line \in AllLines
  <2>1. 1 \in Shards /\ <<1, 0, 1>> \in Tags
    BY ConstAssumption DEF Shards, Tags
  <2> QED
    BY <1>5, <2>1, NewPipeType DEF AllLines, ShardLines
<1>7. /\ NewPipe.draft_wallet = None /\ NewPipe.round = 0 /\ NewPipe.pos = 1
      /\ NewPipe.input.pass = "prompt" /\ NewPipe.input.clean /\ NewPipe.input.raw
      /\ NewPipe.phase = "prompt"
    BY DEF NewPipe, RawInput
<1>8. PromptLine(line, 1)
    BY <1>5, <1>7 DEF PromptLine
<1> HIDE DEF line
<1>9. lines'[m] = <<line>> /\ \A v \in Wallets \ {m} : lines'[v] = lines[v]
    BY <1>2, <1>3, <1>4, <1>6, SentAt DEF TypeInv
<1>10. \A i \in DOMAIN lines'[m] : PromptLine(lines'[m][i], 1)
    BY <1>8, <1>9
<1>11. \A s \in Shards : ~(s < 1)
    BY ConstAssumption DEF Shards
<1>12. InPrompt(m)'
    BY <1>1, <1>2, <1>3, <1>4, <1>7, <1>10, <1>11 DEF InPrompt
<1>13. Alone(m)'
    BY <1>1, <1>2, <1>3, <1>4, <1>9 DEF Before, InOrderFor, Alone
<1> QED
    BY <1>2, <1>7, <1>12, <1>13 DEF InOrderFor, Standing

\* dispatch_shard_step has only m to send to.
LEMMA dispatch_shard_stepAt ==
    ASSUME NEW m \in Wallets, TypeInv, Alone(m), m \in online, NEW p, PipeOK(p),
           NEW ln \in Queues, dispatch_shard_step(p, ln)
    PROVE  /\ pipe' = p /\ shardAt' = [wallet |-> m, shard |-> p.pos]
           /\ lines' = Sent(ln, m, ShardLine(p)) /\ ShardLine(p) \in AllLines
<1>1. ShardLine(p) \in AllLines
  <2>1. p.pos \in Shards /\ p.round \in Nat /\ p.input \in Inputs
    BY DEF PipeOK, Pipes
  <2>2. Tag(p) \in Tags
    BY <2>1, ConstAssumption DEF Tags, Tag, TypeInv, Shards
  <2> QED
    BY <2>1, <2>2 DEF ShardLine, AllLines, ShardLines
<1> QED
    BY <1>1 DEF dispatch_shard_step, Alone

LEMMA RetryShardStepSole ==
    ASSUME NEW m \in Wallets, Before(m), Sole(m)', RetryShardStep
    PROVE  InOrderFor(m)'
<1>1. UNCHANGED <<online, leaving, zombie, draftAt, hold, kv, starts, tainted>>
    BY DEF RetryShardStep, registryVars
<1>2. /\ pipe # None /\ PipeOK(pipe) /\ lines \in Queues /\ dispatch_shard_step(pipe, lines)
      /\ shardAt = None /\ TypeInv /\ Alone(m) /\ Standing(m)
    BY DEF RetryShardStep, Before, InOrderFor, PathInv, TypeInv
<1>3. m \in online /\ zombie = {}
    BY DEF RetryShardStep, Before, InOrderFor, Alone
<1>4. hold[m] = None
    BY DEF RetryShardStep, Overlaps, Sole
<1>5. pipe.phase = "prompt" /\ InPrompt(m)
  <2>1. [wallet |-> m, shard |-> pipe.pos] # None
    BY <1>2, Something DEF PipeOK, Pipes, Places
  <2>2. ~InVerify(m)
    BY <1>2, <1>4, <2>1 DEF InVerify
  <2> QED
    BY <1>2, <2>2 DEF RetryShardStep, Standing
<1>6. starts = 1 /\ pipe.pos \in Nat
    BY <1>2, ConstAssumption DEF Before, Sole, Alone, TypeInv, PipeOK, Pipes, Shards
<1> DEFINE line == ShardLine(pipe)
<1>7. /\ pipe' = pipe /\ shardAt' = [wallet |-> m, shard |-> pipe.pos]
      /\ lines' = Sent(lines, m, line) /\ line \in AllLines
    BY <1>2, <1>3, dispatch_shard_stepAt
<1>8. PromptLine(line, pipe.pos)
    BY <1>5, <1>6 DEF ShardLine, Tag, PromptLine, InPrompt
<1> HIDE DEF line
<1>9. /\ \A v \in Wallets \ {m} : lines'[v] = lines[v]
      /\ \A i \in DOMAIN lines'[m] : PromptLine(lines'[m][i], pipe.pos)
    BY <1>2, <1>3, <1>5, <1>7, <1>8, SentAt DEF InPrompt
<1>10. InPrompt(m)'
    BY <1>1, <1>4, <1>5, <1>7, <1>9 DEF InPrompt
<1>11. Alone(m)'
    BY <1>1, <1>2, <1>3, <1>6, <1>9 DEF Alone
<1> QED
    BY <1>5, <1>7, <1>10, <1>11 DEF InOrderFor, Standing

\* A draft begins: only m can be asked for it, after what is left of the prompt.
LEMMA dispatch_draftAt ==
    ASSUME NEW m \in Wallets, TypeInv, Alone(m), NEW p, PipeOK(p), NEW ln \in Queues,
           dispatch_draft(p, ln), p.phase = "draft", p.draft_wallet \in {None, m},
           draftAt = None, hold'[m] = None, shardAt' = None,
           InLine(p), \A s \in Shards : kv'[m][s] = Full(p.base),
           \A i \in DOMAIN ln[m] : PromptLine(ln[m][i], NumShards) /\ p.base = PromptLen
    PROVE  /\ pipe'.phase = "draft" /\ InDraft(m)'
           /\ \A v \in Wallets : v # m \/ m \notin online => lines'[v] = ln[v]
<1>1. CASE pipe' = p /\ lines' = ln /\ UNCHANGED draftAt
  <2>1. InDraft(m)'
    BY <1>1 DEF InDraft
  <2> QED
    BY <1>1, <2>1
<1>2. ASSUME NEW w \in DraftWallets(p), pipe' = [p EXCEPT !.draft_wallet = w], draftAt' = w,
             lines' = Sent(ln, w, [kind |-> "draft", k |-> Asked(p)])
      PROVE  /\ pipe'.phase = "draft" /\ InDraft(m)'
             /\ \A v \in Wallets : v # m \/ m \notin online => lines'[v] = ln[v]
  <2>1. w = m /\ m \in online /\ zombie = {}
    BY DEF DraftWallets, Alone
  <2> DEFINE line == [kind |-> "draft", k |-> Asked(p)]
  <2>2. line \in AllLines /\ line.kind = "draft"
    BY AskedType DEF PipeOK, AllLines, DraftLines
  <2>3. lines' = Sent(ln, m, line)
    BY <1>2, <2>1
  <2> HIDE DEF line
  <2>4. /\ \A v \in Wallets \ {m} : lines'[v] = ln[v]
        /\ \A i \in DOMAIN lines'[m] :
            \/ PromptLine(lines'[m][i], NumShards) /\ p.base = PromptLen
            \/ lines'[m][i].kind = "draft" /\ i = Len(lines'[m])
    BY <2>1, <2>2, <2>3, SentAt
  <2>5. /\ pipe'.phase = "draft" /\ pipe'.draft_wallet = m /\ pipe'.base = p.base
        /\ pipe'.carry = p.carry /\ pipe'.generated = p.generated
    BY <1>2, <2>1 DEF PipeOK, Pipes
  <2>6. InLine(pipe')
    BY <2>5 DEF InLine
  <2>7. InDraft(m)'
    BY <1>2, <2>1, <2>4, <2>5, <2>6 DEF InDraft
  <2> QED
    BY <2>1, <2>4, <2>5, <2>7
<1> QED
    BY <1>1, <1>2 DEF dispatch_draft

LEMMA RetryDraftSole ==
    ASSUME NEW m \in Wallets, Before(m), RetryDraft
    PROVE  InOrderFor(m)'
<1>1. UNCHANGED <<online, leaving, zombie, shardAt, hold, kv, starts, tainted>>
    BY DEF RetryDraft, registryVars
<1>2. /\ pipe # None /\ PipeOK(pipe) /\ lines \in Queues /\ dispatch_draft(pipe, lines)
      /\ draftAt = None /\ TypeInv /\ Alone(m) /\ InDraft(m) /\ pipe.phase = "draft"
    BY DEF RetryDraft, Before, InOrderFor, Standing, PathInv, TypeInv
<1>3. m # None
    BY ConstAssumption
<1>4. \A i \in DOMAIN lines[m] : PromptLine(lines[m][i], NumShards) /\ pipe.base = PromptLen
    BY <1>2, <1>3 DEF InDraft
<1>5. /\ pipe'.phase = "draft" /\ InDraft(m)'
      /\ \A v \in Wallets : v # m \/ m \notin online => lines'[v] = lines[v]
  <2>1. /\ pipe.draft_wallet \in {None, m} /\ hold'[m] = None /\ shardAt' = None
        /\ InLine(pipe) /\ \A s \in Shards : kv'[m][s] = Full(pipe.base)
    BY <1>1, <1>2 DEF InDraft
  <2> QED
    BY <1>2, <1>4, <2>1, dispatch_draftAt
<1>6. Alone(m)'
    BY <1>1, <1>2, <1>5 DEF Alone
<1> QED
    BY <1>5, <1>6 DEF InOrderFor, Standing

-----------------------------------------------------------------------------
(* handle_shard_result                                                     *)

LEMMA Credited ==
    ASSUME NEW p \in Pipes, NEW w \in Wallets, NEW q, q = [p EXCEPT !.contributions[w] = @ + 1]
    PROVE  /\ q.phase = p.phase /\ q.pos = p.pos /\ q.input = p.input /\ q.drafts = p.drafts
           /\ q.draft_wallet = p.draft_wallet /\ q.base = p.base /\ q.carry = p.carry
           /\ q.round = p.round /\ q.generated = p.generated
BY DEF Pipes

\* In a session that holds exactly the output, the batch is computed in step.
LEMMA VerifyFeeds ==
    ASSUME NEW p, PipeOK(p), p.input.pass = "verify", p.input.clean,
           p.input.toks = p.carry \o p.drafts, ~p.input.raw => p.input.ctx = p.base
    PROVE  /\ Feed(Full(p.base), p.input) = Fed(p)
           /\ Output(Full(p.base), p.input).pass = "verify"
           /\ Output(Full(p.base), p.input).clean
           /\ Output(Full(p.base), p.input).ctx = p.base
<1> DEFINE session == Full(p.base)
           raw == RawInput("verify", p.carry \o p.drafts)
<1>1. session.len = p.base /\ session.good = p.base
    BY DEF Full
<1>2. raw.pass = "verify" /\ raw.clean /\ raw.raw /\ raw.toks = p.carry \o p.drafts
    BY DEF RawInput
<1>3. InStep(session, p.input) /\ InStep(session, raw)
    BY <1>1, <1>2 DEF InStep
<1> HIDE DEF session, raw
<1>4. Feed(session, p.input) = Feed(session, raw)
    BY <1>2, <1>3 DEF Feed
<1>5. /\ Output(session, p.input).pass = "verify" /\ Output(session, p.input).clean
      /\ Output(session, p.input).ctx = p.base
    BY <1>1, <1>3 DEF Output
<1> QED
    BY <1>4, <1>5 DEF session, raw, Fed

LEMMA TakeShardResultSole ==
    ASSUME NEW m \in Wallets, Before(m), NEW w \in Wallets, TakeShardResult(w)
    PROVE  InOrderFor(m)'
<1> DEFINE line == Head(lines[m])
           mine == pipe # None /\ shardAt = [wallet |-> m, shard |-> line.shard]
           out == Output(kv[m][line.shard], line.input)
           new == [at |-> "apply", tag |-> line.tag, out |-> out, base |-> 0]
<1>1. UNCHANGED <<online, leaving, zombie, draftAt, starts, tainted>>
    BY DEF TakeShardResult, registryVars, countVars, historyVars
<1>2. w = m /\ TypeInv /\ Alone(m)
    BY OnlyOne DEF TakeShardResult, Reads, Before, InOrderFor, PathInv
<1>3. /\ m \in online /\ hold[m] = None
      /\ lines[m] # <<>> /\ line.kind = "shard" /\ lines' = Popped(m)
      /\ kv' = [kv EXCEPT ![m][line.shard] = Feed(@, line.input)]
      /\ shardAt' = IF mine THEN None ELSE shardAt
      /\ hold' = IF mine THEN [hold EXCEPT ![m] = new] ELSE hold
      /\ pipe' = IF mine THEN [pipe EXCEPT !.contributions[m] = @ + 1] ELSE pipe
    BY <1>2 DEF TakeShardResult, Reads
<1>4. 1 \in DOMAIN lines[m] /\ line = lines[m][1] /\ line \in ShardLines
    BY <1>2, <1>3, HeadIs, ShardHead
<1>5. line.shard \in Shards /\ line.input \in Inputs /\ line.tag \in Tags
    BY <1>4 DEF ShardLines
<1>6. new \in Holds /\ new.tag = line.tag /\ new.out = out /\ new.at = "apply" /\ new # None
  <2>1. kv[m][line.shard] \in Sessions
    BY <1>2, <1>5 DEF TypeInv
  <2>2. out \in Inputs
    BY <1>5, <2>1, OutputType
  <2>3. new \in Holds /\ new.tag = line.tag /\ new.out = out /\ new.at = "apply"
    BY <1>5, <2>2 DEF Holds
  <2> QED
    BY <2>3, Something
<1> HIDE DEF line, new
<1>7. /\ \A v \in Wallets \ {m} : lines'[v] = lines[v] /\ hold'[v] = hold[v]
      /\ hold'[m] = IF mine THEN new ELSE None
    BY <1>2, <1>3, PoppedAt DEF TypeInv
<1>8. Alone(m)'
    BY <1>1, <1>2, <1>3, <1>7 DEF Alone
<1> SUFFICES ASSUME pipe # None PROVE Standing(m)'
    BY <1>3, <1>8 DEF InOrderFor
<1>9. Standing(m) /\ PipeOK(pipe)
    BY <1>2 DEF Before, InOrderFor, TypeInv
<1>10. /\ pipe'.phase = pipe.phase /\ pipe'.pos = pipe.pos /\ pipe'.input = pipe.input
       /\ pipe'.drafts = pipe.drafts /\ pipe'.draft_wallet = pipe.draft_wallet
       /\ pipe'.base = pipe.base /\ pipe'.carry = pipe.carry /\ pipe'.round = pipe.round
       /\ pipe'.generated = pipe.generated
    BY <1>3, <1>9, Credited DEF PipeOK
<1>11. /\ kv'[m][line.shard] = Feed(kv[m][line.shard], line.input)
       /\ \A t \in Shards \ {line.shard} : kv'[m][t] = kv[m][t]
    BY <1>2, <1>3, <1>5, FedAt DEF TypeInv
<1>12. \A i \in DOMAIN lines'[m] :
            i \in Nat /\ i + 1 \in DOMAIN lines[m] /\ lines'[m][i] = lines[m][i + 1]
    BY <1>2, <1>3, PoppedAt
<1>13. ASSUME NEW n, PromptLine(line, n)
       PROVE  /\ kv'[m][line.shard] = Full(PromptLen)
              /\ \A t \in Shards : kv[m][t] = Full(PromptLen) => kv'[m][t] = Full(PromptLen)
              /\ out.pass = "prompt" /\ out.clean /\ line.tag = <<1, 0, line.shard>>
  <2>1. line.input.pass = "prompt" /\ line.input.clean /\ line.tag = <<1, 0, line.shard>>
    BY <1>13 DEF PromptLine
  <2> QED
    BY <1>11, <2>1, PromptFeeds
<1>14. CASE pipe.phase = "prompt"
  <2>1. InPrompt(m)
    BY <1>9, <1>14 DEF Standing
  <2>2. PromptLine(line, pipe.pos)
    BY <1>4, <2>1 DEF InPrompt
  <2>3. \A i \in DOMAIN lines'[m] : PromptLine(lines'[m][i], pipe.pos)
    BY <1>12, <2>1 DEF InPrompt
  <2>4. mine => line.shard = pipe.pos
    <3> SUFFICES ASSUME mine PROVE line.shard = pipe.pos
      OBVIOUS
    <3>1. [wallet |-> m, shard |-> line.shard] # None
      BY <1>5, Something DEF Places
    <3>2. [wallet |-> m, shard |-> line.shard] = [wallet |-> m, shard |-> pipe.pos]
      BY <2>1, <3>1 DEF InPrompt
    <3>3. [wallet |-> m, shard |-> line.shard].shard = [wallet |-> m, shard |-> pipe.pos].shard
      BY <3>2
    <3> QED
      BY <3>3
  <2>5. \A s \in Shards : s < pipe.pos \/ (s = pipe.pos /\ mine) => kv'[m][s] = Full(PromptLen)
    BY <1>3, <1>13, <2>1, <2>2, <2>4 DEF InPrompt
  <2>6. shardAt' # None => shardAt' = [wallet |-> m, shard |-> pipe.pos] /\ ~mine
    BY <1>3, <2>1 DEF InPrompt
  <2>7. mine => /\ new.tag = <<1, 0, pipe.pos>> /\ new.out.pass = "prompt" /\ new.out.clean
                /\ new.at # "count"
    BY <1>6, <1>13, <2>2, <2>4
  <2> HIDE DEF mine, out
  <2>8. InPrompt(m)'
    BY <1>1, <1>7, <1>10, <2>1, <2>3, <2>5, <2>6, <2>7 DEF InPrompt
  <2> QED
    BY <1>10, <1>14, <2>8 DEF Standing
<1>15. CASE pipe.phase = "draft"
  <2>1. InDraft(m)
    BY <1>9, <1>15 DEF Standing
  <2>2. ~mine
    <3>1. [wallet |-> m, shard |-> line.shard] # None
      BY <1>5, Something DEF Places
    <3> QED
      BY <2>1, <3>1 DEF InDraft
  <2>3. pipe' = pipe /\ shardAt' = None /\ hold'[m] = None
    BY <1>3, <1>7, <2>1, <2>2 DEF InDraft
  <2>4. PromptLine(line, NumShards) /\ pipe.base = PromptLen
    BY <1>3, <1>4, <2>1 DEF InDraft
  <2>5. \A s \in Shards : kv'[m][s] = Full(pipe.base)
    BY <1>13, <2>1, <2>4 DEF InDraft
  <2>6. \A i \in DOMAIN lines'[m] :
            \/ PromptLine(lines'[m][i], NumShards)
            \/ lines'[m][i].kind = "draft" /\ i = Len(lines'[m]) /\ draftAt = m
    <3> SUFFICES ASSUME NEW i \in DOMAIN lines'[m]
                 PROVE  \/ PromptLine(lines'[m][i], NumShards)
                        \/ lines'[m][i].kind = "draft" /\ i = Len(lines'[m]) /\ draftAt = m
      OBVIOUS
    <3>1. i \in Nat /\ i + 1 \in DOMAIN lines[m] /\ lines'[m][i] = lines[m][i + 1]
      BY <1>12
    <3>2. Len(lines[m]) \in Nat /\ Len(lines'[m]) = Len(lines[m]) - 1
      BY <1>2, <1>3, PoppedAt
    <3>3. i + 1 = Len(lines[m]) => i = Len(lines'[m])
      BY <3>1, <3>2
    <3> QED
      BY <2>1, <3>1, <3>3 DEF InDraft
  <2>7. InDraft(m)'
    BY <1>1, <2>1, <2>3, <2>4, <2>5, <2>6 DEF InDraft
  <2> QED
    BY <1>15, <2>3, <2>7 DEF Standing
<1>16. CASE pipe.phase = "verify"
  <2>1. InVerify(m)
    BY <1>9, <1>16 DEF Standing
  <2>2. /\ shardAt = [wallet |-> m, shard |-> pipe.pos] /\ lines[m] = <<ShardLine(pipe)>>
        /\ Computed(m, pipe.pos - 1)
    BY <1>3, <2>1 DEF InVerify
  <2>3. /\ line = ShardLine(pipe) /\ line.shard = pipe.pos /\ line.tag = Tag(pipe)
        /\ line.input = pipe.input /\ Len(lines[m]) = 1
    BY <1>4, <2>2 DEF ShardLine
  <2>4. mine
    BY <2>2, <2>3
  <2>5. lines'[m] = <<>> /\ shardAt' = None /\ hold'[m] = new
    BY <1>2, <1>3, <1>7, <2>3, <2>4, PoppedAt
  <2>6. pipe.pos \in Nat /\ pipe.pos \in Shards
    BY <1>5, <2>3, ConstAssumption DEF Shards
  <2>7. kv[m][pipe.pos] = Full(pipe.base)
    BY <2>2, <2>6 DEF Computed
  <2>8. pipe.input.toks = pipe.carry \o pipe.drafts
    BY <1>2, <1>16 DEF Before, InOrderFor, Alone, PathInv, PipeInv, Progress, Fits
  <2>9. /\ Feed(Full(pipe.base), pipe.input) = Fed(pipe)
        /\ out.pass = "verify" /\ out.clean /\ out.ctx = pipe.base
    <3>1. out = Output(Full(pipe.base), pipe.input)
      BY <2>3, <2>7
    <3>2. /\ pipe.input.pass = "verify" /\ pipe.input.clean
          /\ ~pipe.input.raw => pipe.input.ctx = pipe.base
      BY <2>1 DEF InVerify
    <3> HIDE DEF out
    <3>3. /\ Feed(Full(pipe.base), pipe.input) = Fed(pipe)
          /\ Output(Full(pipe.base), pipe.input).pass = "verify"
          /\ Output(Full(pipe.base), pipe.input).clean
          /\ Output(Full(pipe.base), pipe.input).ctx = pipe.base
      BY <1>9, <2>8, <3>2, VerifyFeeds
    <3> QED
      BY <3>1, <3>3
  <2>10. Computed(m, pipe.pos)'
    <3>1. Fed(pipe') = Fed(pipe)
      BY <1>10 DEF Fed
    <3>2. \A s \in Shards : s \in Nat /\ (s <= pipe.pos - 1 <=> s <= pipe.pos /\ s # pipe.pos)
      BY <2>6, ConstAssumption DEF Shards
    <3>3. kv'[m][pipe.pos] = Fed(pipe) /\ \A s \in Shards \ {pipe.pos} : kv'[m][s] = kv[m][s]
      BY <1>11, <2>3, <2>7, <2>9
    <3> QED
      BY <1>10, <2>2, <2>6, <3>1, <3>2, <3>3 DEF Computed
  <2>11. Tag(pipe)' = Tag(pipe)
    BY <1>1, <1>10 DEF Tag
  <2>12. InLine(pipe')
    BY <1>10, <2>1 DEF InLine, InVerify
  <2> HIDE DEF mine, out
  <2>13. InVerify(m)'
    BY <1>1, <1>6, <1>10, <2>1, <2>3, <2>5, <2>9, <2>10, <2>11, <2>12 DEF InVerify
  <2> QED
    BY <1>10, <1>16, <2>13 DEF Standing
<1>17. CASE pipe.phase = "rollback"
    BY <1>3, <1>4, <1>9, <1>17 DEF Standing, InRollback, OneForEach
<1> QED
    BY <1>9, <1>14, <1>15, <1>16, <1>17 DEF PipeOK, Pipes

\* Where an answer is held, it is m's, and in a pass.
LEMMA HeldBy ==
    ASSUME NEW m \in Wallets, Before(m), NEW w \in Wallets, hold[w] # None
    PROVE  /\ w = m /\ m \in online /\ starts = 1 /\ hold[m] \in Holds
           /\ pipe # None =>
                /\ PipeOK(pipe) /\ pipe.pos \in Nat
                /\ \/ pipe.phase = "prompt" /\ InPrompt(m)
                   \/ pipe.phase = "verify" /\ InVerify(m)
<1>1. w = m
    BY OnlyOne
<1>2. m \in online /\ starts = 1 /\ hold[m] \in Holds
    BY <1>1 DEF Before, InOrderFor, Alone, Sole, PathInv, TypeInv
<1>3. pipe # None => PipeOK(pipe) /\ pipe.phase \in {"prompt", "draft", "verify", "rollback"}
                     /\ pipe.pos \in Nat
    BY ConstAssumption DEF Before, PathInv, TypeInv, PipeOK, Pipes, Shards
<1>4. pipe # None => Standing(m)
    BY DEF Before, InOrderFor
<1> QED
    BY <1>1, <1>2, <1>3, <1>4 DEF Standing, InDraft, InRollback, OneForEach

\* The handler is done with the answer.
LEMMA DoneAt ==
    ASSUME TypeInv, NEW w \in Wallets, Done(w)
    PROVE  hold'[w] = None /\ \A v \in Wallets \ {w} : hold'[v] = hold[v]
BY DEF TypeInv, Done

LEMMA LateSole ==
    ASSUME NEW m \in Wallets, Before(m), Sole(m)', NEW w \in Wallets,
           ApplyLate(w) \/ CountFails(w) \/ ApplyMalformed(w) \/ ApplyPanics(w)
    PROVE  InOrderFor(m)'
<1>1. ~ApplyPanics(w)
    BY DEF ApplyPanics, Sole
<1>2. UNCHANGED <<online, leaving, zombie, shardAt, draftAt, lines, starts, tainted>> /\ Done(w)
    BY <1>1 DEF ApplyLate, CountFails, ApplyMalformed, registryVars, countVars, historyVars
<1>3. hold[w] # None
    BY <1>1 DEF ApplyLate, CountFails, ApplyMalformed, Applies
<1>4. pipe' = None
  <2>1. CASE ApplyLate(w)
    BY <1>3, <2>1, HeldBy DEF ApplyLate, Relaying
  <2>2. CASE ~ApplyLate(w)
    BY <1>1, <2>2 DEF CountFails, ApplyMalformed
  <2> QED
    BY <2>1, <2>2
<1>5. Alone(m)'
  <2>1. TypeInv /\ Alone(m) /\ w = m
    BY <1>3, HeldBy DEF Before, InOrderFor, PathInv
  <2>2. hold'[m] = None /\ \A v \in Wallets \ {m} : hold'[v] = hold[v]
    BY <1>2, <2>1, DoneAt
  <2> QED
    BY <1>2, <1>4, <2>1, <2>2 DEF Alone
<1> QED
    BY <1>4, <1>5 DEF InOrderFor

LEMMA ApplyRelaySole ==
    ASSUME NEW m \in Wallets, Before(m), NEW w \in Wallets, ApplyRelay(w)
    PROVE  InOrderFor(m)'
<1>1. UNCHANGED <<online, leaving, zombie, draftAt, kv, starts>>
    BY DEF ApplyRelay, registryVars, countVars
<1>2. hold[w] # None /\ pipe # None /\ pipe.pos < NumShards
    BY DEF ApplyRelay, Applies, Relaying
<1>3. /\ w = m /\ m \in online /\ starts = 1 /\ hold[m] \in Holds /\ hold[m] # None
      /\ PipeOK(pipe) /\ pipe.pos \in Nat /\ TypeInv /\ Alone(m) /\ zombie = {} /\ ~tainted
    BY <1>2, HeldBy DEF Before, InOrderFor, PathInv, Alone
<1> DEFINE p == [pipe EXCEPT !.pos = @ + 1, !.input = hold[m].out]
<1>4. dispatch_shard_step(p, lines) /\ lines \in Queues
    BY <1>3 DEF ApplyRelay, TypeInv
<1>5. pipe.pos + 1 \in Shards /\ hold[m].out \in Inputs
    BY <1>2, <1>3, ConstAssumption DEF Shards, Holds
<1>6. /\ p \in Pipes /\ p.pos = pipe.pos + 1 /\ p.input = hold[m].out /\ p.phase = pipe.phase
      /\ p.round = pipe.round /\ p.carry = pipe.carry /\ p.drafts = pipe.drafts
      /\ p.generated = pipe.generated /\ p.base = pipe.base
      /\ p.draft_wallet = pipe.draft_wallet
    BY <1>3, <1>5 DEF PipeOK, Pipes
<1> HIDE DEF p
<1>7. PipeOK(p) /\ p.phase # "rollback"
  <2>1. pipe.phase # "rollback"
    BY DEF ApplyRelay, Relaying
  <2> QED
    BY <1>3, <1>6, <2>1 DEF PipeOK
<1> DEFINE line == ShardLine(p)
<1>8. /\ pipe' = p /\ shardAt' = [wallet |-> m, shard |-> p.pos]
      /\ lines' = Sent(lines, m, line) /\ line \in AllLines
    BY <1>3, <1>4, <1>7, dispatch_shard_stepAt
<1>9. /\ line.kind = "shard" /\ line.shard = p.pos /\ line.tag = <<1, p.round, p.pos>>
      /\ line.input = p.input /\ ShardLine(pipe)' = line
    BY <1>1, <1>3, <1>8 DEF ShardLine, Tag
<1> HIDE DEF line
<1>10. /\ \A v \in Wallets \ {m} : lines'[v] = lines[v]
       /\ lines[m] = <<>> => lines'[m] = <<line>>
       /\ \A i \in DOMAIN lines'[m] :
            (i \in DOMAIN lines[m] /\ lines'[m][i] = lines[m][i]) \/ lines'[m][i] = line
    BY <1>3, <1>4, <1>8, SentAt
<1>11. hold'[m] = None /\ \A v \in Wallets \ {m} : hold'[v] = hold[v]
    BY <1>3, DoneAt DEF ApplyRelay
<1>12. tainted' = ~(hold[m].tag = Tag(pipe))
    BY <1>3 DEF ApplyRelay, Meant
<1>13. ~tainted' => Alone(m)'
    BY <1>1, <1>3, <1>10, <1>11 DEF Alone
<1>14. CASE pipe.phase = "prompt" /\ InPrompt(m)
  <2>1. ~tainted'
    BY <1>3, <1>12, <1>14 DEF InPrompt, Tag
  <2>2. ASSUME NEW i \in DOMAIN lines[m] PROVE PromptLine(lines[m][i], p.pos)
    <3>1. PromptLine(lines[m][i], pipe.pos) /\ lines[m][i] \in AllLines
      BY <1>3, <1>14 DEF InPrompt, TypeInv, Queues
    <3>2. lines[m][i].shard \in Nat
      BY <3>1, ShardHead, ConstAssumption DEF PromptLine, ShardLines, Shards
    <3> QED
      BY <1>3, <1>6, <3>1, <3>2 DEF PromptLine
  <2>3. PromptLine(line, p.pos)
    BY <1>3, <1>6, <1>9, <1>14 DEF PromptLine, InPrompt
  <2>4. \A i \in DOMAIN lines'[m] : PromptLine(lines'[m][i], p.pos)
    BY <1>10, <1>14, <2>2, <2>3 DEF InPrompt
  <2>5. \A s \in Shards : s < p.pos => kv'[m][s] = Full(PromptLen)
    <3>1. \A s \in Shards : s < pipe.pos + 1 => s < pipe.pos \/ s = pipe.pos
      BY <1>3, ConstAssumption DEF Shards
    <3> QED
      BY <1>1, <1>3, <1>6, <1>14, <3>1 DEF InPrompt
  <2>6. p.input.pass = "prompt" /\ p.input.clean /\ p.pos # 1 /\ p.round = 0
        /\ p.draft_wallet = None /\ draftAt' = None
    <3>1. pipe.pos >= 1
      BY <1>3, ConstAssumption DEF PipeOK, Pipes, Shards
    <3> QED
      BY <1>1, <1>3, <1>6, <1>14, <3>1 DEF InPrompt
  <2>7. InPrompt(m)'
    BY <1>8, <1>11, <2>4, <2>5, <2>6 DEF InPrompt
  <2> QED
    BY <1>6, <1>8, <1>13, <1>14, <2>1, <2>7 DEF InOrderFor, Standing
<1>15. CASE pipe.phase = "verify" /\ InVerify(m)
  <2>1. ~tainted'
    BY <1>3, <1>12, <1>15 DEF InVerify
  <2>2. lines[m] = <<>> /\ Computed(m, pipe.pos)
        /\ hold[m].out.pass = "verify" /\ hold[m].out.clean /\ hold[m].out.ctx = pipe.base
    BY <1>3, <1>15 DEF InVerify
  <2>3. Computed(m, pipe.pos - 1)'
    <3>1. pipe'.pos - 1 = pipe.pos
      BY <1>3, <1>6, <1>8
    <3>2. Fed(p) = Fed(pipe)
      BY <1>6 DEF Fed
    <3> QED
      BY <1>1, <1>6, <1>8, <2>2, <3>1, <3>2 DEF Computed
  <2>4. InLine(p)
    BY <1>6, <1>15 DEF InLine, InVerify
  <2>5. InVerify(m)'
    BY <1>1, <1>6, <1>8, <1>9, <1>10, <1>11, <1>15, <2>2, <2>3, <2>4 DEF InVerify
  <2> QED
    BY <1>6, <1>8, <1>13, <1>15, <2>1, <2>5 DEF InOrderFor, Standing
<1> QED
    BY <1>2, <1>14, <1>15, HeldBy

\* The prompt pass ends: the answer is kept while the prompt's tokens are counted.
LEMMA ApplyPromptSole ==
    ASSUME NEW m \in Wallets, Before(m), NEW w \in Wallets, ApplyPrompt(w)
    PROVE  InOrderFor(m)'
<1>1. UNCHANGED <<online, leaving, zombie, pipe, shardAt, draftAt, lines, kv, starts>>
    BY DEF ApplyPrompt, registryVars, countVars
<1>2. /\ hold[w] # None /\ pipe # None /\ pipe.pos = NumShards /\ pipe.phase = "prompt"
    BY DEF ApplyPrompt, Applies, Relaying
<1>3. /\ w = m /\ m \in online /\ starts = 1 /\ hold[m] \in Holds /\ hold[m] # None
      /\ TypeInv /\ Alone(m) /\ InPrompt(m)
    BY <1>2, HeldBy DEF Before, InOrderFor, PathInv
<1> DEFINE base == IF pipe.input.raw THEN PromptLen ELSE EmptyLen
           new == [hold[m] EXCEPT !.at = "count", !.base = base]
<1>4. base = PromptLen
    BY <1>2, <1>3 DEF Before, Sole, InPrompt
<1>5. new.tag = hold[m].tag /\ new.out = hold[m].out /\ new.base = PromptLen
    BY <1>3, <1>4 DEF Holds
<1>6. hold' = [hold EXCEPT ![m] = new]
    BY <1>3 DEF ApplyPrompt, TypeInv
<1> HIDE DEF new
<1>7. hold'[m] = new /\ \A v \in Wallets \ {m} : hold'[v] = hold[v]
    BY <1>3, <1>6 DEF TypeInv
<1>8. ~tainted'
    BY <1>3 DEF ApplyPrompt, Meant, Tag, InPrompt, Alone
<1>9. shardAt = None
    BY <1>3 DEF InPrompt
<1>10. InPrompt(m)'
    BY <1>1, <1>2, <1>3, <1>5, <1>7, <1>9 DEF InPrompt
<1>11. Alone(m)'
    BY <1>1, <1>3, <1>7, <1>8 DEF Alone
<1> QED
    BY <1>1, <1>2, <1>10, <1>11 DEF InOrderFor, Standing

\* What is left of a pipeline when a phase ends.
LEMMA AwaitingDraftKeeps ==
    ASSUME NEW p \in Pipes
    PROVE  /\ AwaitingDraft(p).base = p.base
           /\ AwaitingDraft(p).draft_wallet = p.draft_wallet
BY DEF Pipes, AwaitingDraft

LEMMA CountDoneSole ==
    ASSUME NEW m \in Wallets, Before(m), NEW w \in Wallets, CountDone(w)
    PROVE  InOrderFor(m)'
<1>1. UNCHANGED <<online, leaving, zombie, shardAt, kv, starts>>
    BY DEF CountDone, registryVars, countVars
<1>2. hold[w] # None /\ hold[w].at = "count"
    BY DEF CountDone
<1>3. /\ w = m /\ m \in online /\ starts = 1 /\ hold[m] \in Holds /\ hold[m] # None
      /\ TypeInv /\ Alone(m)
    BY <1>2, HeldBy DEF Before, InOrderFor, PathInv
<1>4. hold'[m] = None /\ \A v \in Wallets \ {m} : hold'[v] = hold[v]
    BY <1>3, DoneAt DEF CountDone
<1>5. CASE pipe = None
  <2>1. UNCHANGED <<pipe, draftAt, lines, tainted>>
    BY <1>5 DEF CountDone
  <2>2. Alone(m)'
    BY <1>1, <1>3, <1>4, <2>1 DEF Alone
  <2> QED
    BY <1>5, <2>1, <2>2 DEF InOrderFor
<1>6. CASE pipe # None
  <2>1. pipe.phase = "prompt" /\ InPrompt(m) /\ PipeOK(pipe)
    BY <1>2, <1>3, <1>6, HeldBy DEF InVerify
  <2>2. /\ hold[m].base = PromptLen /\ pipe.pos = NumShards /\ pipe.draft_wallet = None
        /\ draftAt = None /\ shardAt = None /\ hold[m].tag = <<1, 0, pipe.pos>>
        /\ \A i \in DOMAIN lines[m] : PromptLine(lines[m][i], NumShards)
    BY <1>2, <1>3, <2>1 DEF InPrompt
  <2>3. \A s \in Shards : kv'[m][s] = Full(PromptLen)
    <3>1. \A s \in Shards : s < NumShards \/ s = NumShards
      BY ConstAssumption DEF Shards
    <3> QED
      BY <1>1, <1>3, <2>1, <2>2, <3>1 DEF InPrompt
  <2>4. ~tainted'
    BY <1>3, <1>6, <2>1, <2>2 DEF CountDone, Meant, Tag, Alone, InPrompt
  <2>5. pipe.carry = <<>> /\ pipe.generated = <<>>
    BY <1>3, <1>6, <2>1 DEF Before, PathInv, PipeInv, Progress, Alone
  <2>6. PICK t0 \in Tokens :
            dispatch_draft([AwaitingDraft(pipe) EXCEPT !.base = hold[m].base,
                                                       !.expected0 = t0], lines)
    BY <1>3, <1>6 DEF CountDone
  <2> DEFINE q == AwaitingDraft(pipe)
             p == [q EXCEPT !.base = hold[m].base, !.expected0 = t0]
  <2>7. /\ q \in Pipes /\ q.phase = "draft" /\ q.carry = <<>> /\ q.generated = <<>>
        /\ q.draft_wallet = None
    BY <2>1, <2>2, <2>5, AwaitingDraftIs, AwaitingDraftKeeps DEF PipeOK
  <2>8. dispatch_draft(p, lines)
    BY <2>6
  <2> HIDE DEF q
  <2>9. /\ p \in Pipes /\ p.phase = "draft" /\ p.carry = <<>> /\ p.generated = <<>>
        /\ p.draft_wallet = None /\ p.base = PromptLen
    BY <2>2, <2>7, ConstAssumption DEF Pipes
  <2> HIDE DEF p
  <2>10. PipeOK(p) /\ InLine(p)
    BY <2>9, ConstAssumption DEF PipeOK, InLine
  <2>11. lines \in Queues
    BY <1>3 DEF TypeInv
  <2>12. /\ pipe'.phase = "draft" /\ InDraft(m)'
         /\ \A v \in Wallets : v # m \/ m \notin online => lines'[v] = lines[v]
    <3>1. /\ p.draft_wallet \in {None, m} /\ shardAt' = None
          /\ \A s \in Shards : kv'[m][s] = Full(p.base)
          /\ \A i \in DOMAIN lines[m] : PromptLine(lines[m][i], NumShards) /\ p.base = PromptLen
      BY <1>1, <2>2, <2>3, <2>9
    <3> QED
      BY <1>3, <1>4, <2>2, <2>8, <2>9, <2>10, <2>11, <3>1, dispatch_draftAt
  <2>13. Alone(m)'
    BY <1>1, <1>3, <1>4, <2>4, <2>12 DEF Alone
  <2> QED
    BY <2>12, <2>13 DEF InOrderFor, Standing
<1> QED
    BY <1>5, <1>6

-----------------------------------------------------------------------------
(* handle_draft_result                                                     *)

LEMMA handle_draft_resultSole ==
    ASSUME NEW m \in Wallets, Before(m), NEW w \in Wallets, handle_draft_result(w)
    PROVE  InOrderFor(m)'
<1>1. UNCHANGED <<online, leaving, zombie, hold, kv, starts>>
    BY DEF handle_draft_result, registryVars
<1>2. /\ w = m /\ m \in online /\ lines[m] # <<>> /\ Head(lines[m]).kind = "draft"
      /\ TypeInv /\ Alone(m) /\ hold[m] = None
    BY OnlyOne DEF handle_draft_result, Reads, Before, InOrderFor, PathInv
<1>3. /\ 1 \in DOMAIN lines[m] /\ Head(lines[m]) = lines[m][1]
      /\ Head(lines[m]) \in AllLines /\ lines[m][1].kind = "draft"
    BY <1>2, HeadIs
<1>4. /\ \A v \in Wallets \ {m} : Popped(m)[v] = lines[v]
      /\ Len(lines[m]) = 1 => Popped(m)[m] = <<>>
    BY <1>2, PoppedAt
<1>5. ASSUME pipe # None
      PROVE  /\ pipe.phase = "draft" /\ InDraft(m) /\ draftAt = m /\ Len(lines[m]) = 1
             /\ PipeOK(pipe)
  <2>1. Standing(m) /\ PipeOK(pipe)
    BY <1>2, <1>5 DEF Before, InOrderFor, TypeInv
  <2>2. ~InPrompt(m) /\ ~InRollback(m)
    BY <1>3 DEF InPrompt, InRollback, OneForEach, PromptLine
  <2>3. ~InVerify(m)
    <3>1. ShardLine(pipe).kind = "shard" /\ <<ShardLine(pipe)>>[1] = ShardLine(pipe)
      BY DEF ShardLine
    <3> QED
      BY <1>2, <1>3, <3>1 DEF InVerify
  <2>4. pipe.phase = "draft" /\ InDraft(m)
    BY <2>1, <2>2, <2>3 DEF Standing, PipeOK, Pipes
  <2> QED
    BY <1>3, <2>1, <2>4 DEF InDraft, PromptLine
<1>6. CASE /\ lines' = Popped(m) /\ draftAt' \in {draftAt, None}
           /\ UNCHANGED <<pipe, shardAt, tainted>>
           /\ pipe # None => draftAt' = None
  <2>1. Alone(m)'
    BY <1>1, <1>2, <1>4, <1>6 DEF Alone
  <2>2. ASSUME pipe # None PROVE Standing(m)'
    <3>1. InDraft(m)'
      BY <1>1, <1>4, <1>5, <1>6, <2>2 DEF InDraft
    <3> QED
      BY <1>5, <1>6, <2>2, <3>1 DEF Standing
  <2> QED
    BY <1>6, <2>1, <2>2 DEF InOrderFor
<1>7. ASSUME pipe # None, draftAt' = None, NEW d \in Proposals(Head(lines[m]).k),
             dispatch_shard_step(Batched(pipe, d), Popped(m)),
             tainted' = (tainted \/ pipe.phase # "draft")
      PROVE  InOrderFor(m)'
  <2> DEFINE p == Batched(pipe, d)
  <2>1. d \in Batches /\ d # <<>>
    <3>1. Head(lines[m]).k \in Nat
      BY <1>2, <1>3 DEF AllLines, ShardLines, DraftLines, RollbackLines
    <3> QED
      BY <3>1, ProposalsType
  <2>2. /\ pipe.phase = "draft" /\ InDraft(m) /\ draftAt = m /\ PipeOK(pipe)
        /\ Popped(m)[m] = <<>> /\ pipe.draft_wallet = m
    <3>1. m # None
      BY ConstAssumption
    <3> QED
      BY <1>4, <1>5, <1>7, <3>1 DEF InDraft
  <2>3. /\ PipeOK(p) /\ p.phase = "verify" /\ p.pos = 1 /\ p.drafts = d /\ p.carry = pipe.carry
        /\ p.input = RawInput("verify", pipe.carry \o d)
        /\ p.generated = pipe.generated /\ p.base = pipe.base
        /\ p.draft_wallet = m
    BY <2>1, <2>2, BatchedIs
  <2>4. dispatch_shard_step(p, Popped(m)) /\ Popped(m) \in Queues
    BY <1>2, <1>7, PoppedType DEF TypeInv
  <2> HIDE DEF p
  <2>5. /\ pipe' = p /\ shardAt' = [wallet |-> m, shard |-> 1]
        /\ lines' = Sent(Popped(m), m, ShardLine(p)) /\ ShardLine(p) \in AllLines
    BY <1>2, <2>3, <2>4, dispatch_shard_stepAt
  <2>6. zombie = {}
    BY <1>2 DEF Alone
  <2>7. lines'[m] = <<ShardLine(p)>> /\ \A v \in Wallets \ {m} : lines'[v] = lines[v]
    BY <1>4, <2>2, <2>4, <2>5, <2>6, SentAt
  <2>8. ShardLine(pipe)' = ShardLine(p)
    BY <1>1, <2>5 DEF ShardLine, Tag
  <2>9. Computed(m, pipe.pos - 1)'
    <3>1. \A s \in Shards : ~(s <= pipe'.pos - 1)
      BY <2>3, <2>5, ConstAssumption DEF Shards
    <3> QED
      BY <1>1, <2>2, <2>3, <2>5, <3>1 DEF Computed, InDraft
  <2>10. InLine(p)
    BY <2>2, <2>3 DEF InLine, InDraft
  <2>11. p.input.pass = "verify" /\ p.input.clean /\ p.input.raw
    BY <2>3 DEF RawInput
  <2>12. InVerify(m)'
    BY <1>1, <1>2, <1>7, <2>3, <2>5, <2>7, <2>8, <2>9, <2>10, <2>11 DEF InVerify
  <2>13. Alone(m)'
    BY <1>1, <1>2, <1>7, <2>2, <2>7 DEF Alone
  <2> QED
    BY <2>3, <2>5, <2>12, <2>13 DEF InOrderFor, Standing
<1>8. \/ /\ lines' = Popped(m) /\ draftAt' \in {draftAt, None}
         /\ UNCHANGED <<pipe, shardAt, tainted>>
         /\ draftAt # m \/ pipe = None \/ draftAt' = None
      \/ /\ pipe # None /\ draftAt' = None
         /\ \E d \in Proposals(Head(lines[m]).k) :
                dispatch_shard_step(Batched(pipe, d), Popped(m))
         /\ tainted' = (tainted \/ pipe.phase # "draft")
    BY <1>2 DEF handle_draft_result, Batched
<1> QED
    BY <1>5, <1>6, <1>7, <1>8

-----------------------------------------------------------------------------
(* handle_kv_rollback_ack                                                  *)

\* A session that holds the output beyond a length is full at that length once
\* it is truncated to it.
LEMMA TruncateFull ==
    ASSUME NEW session \in Sessions, NEW line \in RollbackLines, ~line.finalize,
           session.good >= line.keep
    PROVE  Truncate(session, line) = Full(line.keep)
<1>1. session.len \in Nat /\ session.good \in Nat /\ line.keep \in Nat
      /\ session.len >= line.keep
    BY DEF Sessions, RollbackLines
<1>2. Min({session.len, line.keep}) = line.keep /\ Min({session.good, line.keep}) = line.keep
    BY <1>1, MinPair
<1> QED
    BY <1>2 DEF Truncate, Full

LEMMA handle_kv_rollback_ackSole ==
    ASSUME NEW m \in Wallets, Before(m), NEW w \in Wallets, handle_kv_rollback_ack(w)
    PROVE  InOrderFor(m)'
<1>1. UNCHANGED <<online, leaving, zombie, shardAt, hold, starts, tainted>>
    BY DEF handle_kv_rollback_ack, registryVars, countVars, historyVars
<1>2. /\ w = m /\ m \in online /\ lines[m] # <<>> /\ Head(lines[m]).kind = "rollback"
      /\ TypeInv /\ Alone(m) /\ hold[m] = None
    BY OnlyOne DEF handle_kv_rollback_ack, Reads, Before, InOrderFor, PathInv
<1> DEFINE line == Head(lines[m])
           s == line.shard
           p == [pipe EXCEPT !.pending = @ \ {s}]
<1>3. /\ 1 \in DOMAIN lines[m] /\ line = lines[m][1] /\ line.kind = "rollback"
      /\ line \in RollbackLines
    BY <1>2, HeadIs DEF AllLines, ShardLines, DraftLines
<1>4. /\ \A v \in Wallets \ {m} : Popped(m)[v] = lines[v]
      /\ \A i \in DOMAIN Popped(m)[m] :
            i \in Nat /\ i + 1 \in DOMAIN lines[m] /\ Popped(m)[m][i] = lines[m][i + 1]
    BY <1>2, PoppedAt
<1>5. kv' = IF s = DraftSession THEN kv ELSE [kv EXCEPT ![m][s] = Truncate(@, line)]
    BY <1>2 DEF handle_kv_rollback_ack
<1>6. CASE pipe = None
  <2>1. pipe' = None /\ lines' = Popped(m) /\ UNCHANGED draftAt
    BY <1>2, <1>6 DEF handle_kv_rollback_ack, RollingBack
  <2>2. Alone(m)'
    BY <1>1, <1>2, <1>4, <1>6, <2>1 DEF Alone
  <2> QED
    BY <2>1, <2>2 DEF InOrderFor
<1>7. CASE pipe # None
  <2>1. Standing(m) /\ PipeOK(pipe)
    BY <1>2, <1>7 DEF Before, InOrderFor, TypeInv
  <2>2. pipe.phase = "rollback" /\ InRollback(m)
    <3>1. ~InPrompt(m) /\ ~InDraft(m)
      BY <1>3 DEF InPrompt, InDraft, PromptLine
    <3>2. ~InVerify(m)
      <4>1. ShardLine(pipe).kind = "shard" /\ <<ShardLine(pipe)>>[1] = ShardLine(pipe)
        BY DEF ShardLine
      <4> QED
        BY <1>2, <1>3, <4>1 DEF InVerify
    <3> QED
      BY <2>1, <3>1, <3>2 DEF Standing, PipeOK, Pipes
  <2>3. /\ s \in pipe.pending /\ s \in Shards \cup {DraftSession}
        /\ s # DraftSession => line.keep = pipe.keep /\ line.finalize = pipe.final
    BY <1>3, <2>2 DEF InRollback, OneForEach, RollbackLines
  <2>4. /\ p \in Pipes /\ p.pending = pipe.pending \ {s} /\ p.phase = "rollback"
        /\ p.final = pipe.final /\ p.keep = pipe.keep /\ p.draft_wallet = m
        /\ p.generated = pipe.generated /\ p.settle = pipe.settle
    BY <2>1, <2>2 DEF PipeOK, Pipes, Pendings, InRollback, OneForEach
  <2>5. \A i \in DOMAIN Popped(m)[m] :
            Popped(m)[m][i].shard \in p.pending /\ i + 1 \in DOMAIN lines[m]
            /\ Popped(m)[m][i] = lines[m][i + 1]
    <3> SUFFICES ASSUME NEW i \in DOMAIN Popped(m)[m]
                 PROVE  Popped(m)[m][i].shard \in p.pending /\ i + 1 \in DOMAIN lines[m]
                        /\ Popped(m)[m][i] = lines[m][i + 1]
      OBVIOUS
    <3>1. i \in Nat /\ i + 1 \in DOMAIN lines[m] /\ Popped(m)[m][i] = lines[m][i + 1]
      BY <1>4
    <3>2. 1 \in DOMAIN lines[m] /\ (i + 1 # 1 \/ i = 0)
      BY <1>3, <3>1
    <3>3. i # 0
      <4>1. Popped(m)[m] \in Seq(AllLines)
        BY <1>2, PoppedType DEF TypeInv, Queues
      <4> QED
        BY <4>1
    <3>4. lines[m][i + 1].shard # lines[m][1].shard /\ lines[m][i + 1].shard \in pipe.pending
      BY <1>3, <2>2, <3>1, <3>2, <3>3 DEF InRollback, OneForEach
    <3> QED
      BY <1>3, <2>4, <3>1, <3>4
  <2>6. ~pipe.final => \A t \in Shards :
            IF t \in p.pending THEN kv'[m][t].good >= pipe.keep ELSE kv'[m][t] = Full(pipe.keep)
    <3> SUFFICES ASSUME ~pipe.final, NEW t \in Shards
                 PROVE  IF t \in p.pending THEN kv'[m][t].good >= pipe.keep
                        ELSE kv'[m][t] = Full(pipe.keep)
      OBVIOUS
    <3>1. CASE t # s
      <4>1. kv'[m][t] = kv[m][t]
        <5>1. CASE s = DraftSession
          BY <1>5, <5>1
        <5>2. CASE s # DraftSession
          <6>1. s \in Shards /\ kv' = [kv EXCEPT ![m][s] = Truncate(kv[m][s], line)]
            BY <1>2, <1>5, <2>3, <5>2 DEF TypeInv
          <6> HIDE DEF s, line
          <6> QED
            BY <1>2, <3>1, <6>1, FedAt
        <5> QED
          BY <5>1, <5>2
      <4>2. t \in p.pending <=> t \in pipe.pending
        BY <2>4, <3>1
      <4> QED
        BY <2>2, <4>1, <4>2 DEF InRollback, OneForEach
    <3>2. CASE t = s
      <4>1. s # DraftSession /\ s \in Shards
        BY <3>2, ConstAssumption DEF Shards, DraftSession
      <4>2. kv' = [kv EXCEPT ![m][s] = Truncate(kv[m][s], line)]
        BY <1>2, <1>5, <4>1 DEF TypeInv
      <4>3. kv[m][s].good >= pipe.keep /\ kv[m][s] \in Sessions
        BY <1>2, <2>2, <2>3, <4>1 DEF InRollback, OneForEach, TypeInv
      <4>4. Truncate(kv[m][s], line) = Full(pipe.keep)
        BY <1>3, <2>3, <4>1, <4>3, TruncateFull
      <4>5. s \notin p.pending
        BY <2>4
      <4> HIDE DEF s, line, p
      <4>6. kv'[m][s] = Full(pipe.keep)
        <5>1. kv' = [kv EXCEPT ![m][s] = Full(pipe.keep)]
          BY <4>2, <4>4
        <5> QED
          BY <1>2, <4>1, <5>1 DEF TypeInv
      <4> QED
        BY <3>2, <4>5, <4>6
    <3> QED
      BY <3>1, <3>2
  <2>7. \/ p.pending # {} /\ pipe' = p /\ lines' = Popped(m) /\ UNCHANGED draftAt
        \/ pipe' = None /\ lines' = Popped(m) /\ UNCHANGED draftAt
        \/ p.pending = {} /\ ~p.final /\ dispatch_draft(NextRound(p), Popped(m))
    BY <1>2, <1>7, <2>2 DEF handle_kv_rollback_ack, RollingBack, finalize_pipeline
  <2> HIDE DEF p, line, s
  <2>8. CASE pipe' = None /\ lines' = Popped(m) /\ UNCHANGED draftAt
    <3>1. Alone(m)'
      BY <1>1, <1>2, <1>4, <1>7, <2>8 DEF Alone
    <3> QED
      BY <2>8, <3>1 DEF InOrderFor
  <2>9. CASE p.pending # {} /\ pipe' = p /\ lines' = Popped(m) /\ UNCHANGED draftAt
    <3>1. Alone(m)'
      BY <1>1, <1>2, <1>4, <1>7, <2>9 DEF Alone
    <3>2. \A i, j \in DOMAIN lines'[m] :
            lines'[m][i].shard = lines'[m][j].shard => i = j
      <4> SUFFICES ASSUME NEW i \in DOMAIN lines'[m], NEW j \in DOMAIN lines'[m],
                          lines'[m][i].shard = lines'[m][j].shard
                   PROVE  i = j
        OBVIOUS
      <4>1. i \in Nat /\ j \in Nat /\ i + 1 \in DOMAIN lines[m] /\ j + 1 \in DOMAIN lines[m]
            /\ lines[m][i + 1].shard = lines[m][j + 1].shard
        BY <1>4, <2>5, <2>9
      <4>2. i + 1 = j + 1
        BY <2>2, <4>1 DEF InRollback, OneForEach
      <4> QED
        BY <4>1, <4>2
    <3>3. InRollback(m)'
      BY <1>1, <2>2, <2>4, <2>5, <2>6, <2>9, <3>2 DEF InRollback, OneForEach
    <3> QED
      BY <2>4, <2>9, <3>1, <3>3 DEF InOrderFor, Standing
  <2>10. CASE p.pending = {} /\ ~p.final /\ dispatch_draft(NextRound(p), Popped(m))
    <3> DEFINE q == NextRound(p)
    <3>1. p.settle \in Tokens /\ Len(p.generated) >= 1 /\ p.keep \in Nat
      BY <2>1, <2>2, <2>4 DEF PipeOK, Pipes
    <3>2. /\ PipeOK(q) /\ q.phase = "draft" /\ q.carry = <<p.settle>>
          /\ q.generated = pipe.generated
      BY <2>4, <3>1, NextRoundType
    <3>3. q.base = pipe.keep /\ q.draft_wallet = m
      <4> DEFINE a == AwaitingDraft(p)
      <4>1. a \in Pipes /\ a.draft_wallet = m
        BY <2>4, AwaitingDraftIs, AwaitingDraftKeeps
      <4>2. q = [a EXCEPT !.base = p.keep, !.carry = <<p.settle>>, !.expected0 = p.settle,
                          !.k = next_k(p)]
        BY DEF NextRound
      <4> HIDE DEF a, q
      <4> QED
        BY <2>4, <4>1, <4>2 DEF Pipes
    <3>4. dispatch_draft(q, Popped(m)) /\ Popped(m) \in Queues
      BY <1>2, <2>10, PoppedType DEF TypeInv
    <3> HIDE DEF q
    <3>5. InLine(q)
      <4>1. Len(<<p.settle>>) = 1
        OBVIOUS
      <4> QED
        BY <2>2, <3>2, <3>3, <4>1 DEF InLine, InRollback, OneForEach
    <3>6. \A t \in Shards : kv'[m][t] = Full(q.base)
      BY <2>4, <2>6, <2>10, <3>3
    <3>7. DOMAIN Popped(m)[m] = {}
      BY <2>5, <2>10
    <3>8. hold'[m] = None /\ shardAt' = None /\ draftAt = None
      BY <1>1, <2>2 DEF InRollback, OneForEach
    <3>9. /\ pipe'.phase = "draft" /\ InDraft(m)'
          /\ \A v \in Wallets : v # m \/ m \notin online => lines'[v] = Popped(m)[v]
      BY <1>2, <3>2, <3>3, <3>4, <3>5, <3>6, <3>7, <3>8, dispatch_draftAt
    <3>10. Alone(m)'
      BY <1>1, <1>2, <1>4, <1>7, <3>9 DEF Alone
    <3> QED
      BY <3>9, <3>10 DEF InOrderFor, Standing
  <2> QED
    BY <2>7, <2>8, <2>9, <2>10
<1> QED
    BY <1>6, <1>7

-----------------------------------------------------------------------------
(* The end of a verify pass                                                *)

\* A session that has computed over the batch holds the output as far as the
\* round commits to it.
LEMMA CommittedIsHeld ==
    ASSUME NEW p, PipeOK(p), InLine(p), Anchored(p), NEW n \in 0 .. Len(p.drafts),
           NEW settle \in Tokens, Agrees(p.generated \o SubSeq(p.drafts, 1, n) \o <<settle>>)
    PROVE  Fed(p).good >= kv_keep_len(p, n)
<1> DEFINE gs == p.generated
           ds == p.drafts
           cs == p.carry
           out == gs \o SubSeq(ds, 1, n) \o <<settle>>
           toks == cs \o ds
           g == Len(gs)
           c == Len(cs)
           d == Len(ds)
           b == p.base
           S == {i \in 0 .. Len(toks) : PathUpTo(b, toks, i)}
<1>1. gs \in Seq(Tokens) /\ ds \in Seq(Tokens) /\ cs \in Seq(Tokens) /\ b \in Nat
      /\ Len(cs) <= 1 /\ PromptLen \in Nat
    BY ConstAssumption DEF PipeOK, Pipes, Batches
<1>2. g \in Nat /\ c \in Nat /\ d \in Nat /\ n \in Nat /\ n <= d /\ b + c = PromptLen + g
      /\ c <= 1
    BY <1>1 DEF InLine
<1>3. /\ DOMAIN out = 1 .. g + n + 1 /\ \A i \in 1 .. n : out[g + i] = ds[i]
  <2>1. Settles(out, gs, ds, n, settle)
    BY <1>1, Settling DEF Batches
  <2> HIDE DEF out
  <2> QED
    BY <2>1 DEF Settles
<1>4. /\ Len(toks) = c + d /\ \A i \in 1 .. c : toks[i] = cs[i]
      /\ \A i \in 1 .. d : toks[c + i] = ds[i]
    BY <1>1, Joined
<1>5. Agrees(out) /\ Agrees(gs) /\ (cs # <<>> => g >= 1 /\ cs = <<gs[g]>>)
    BY DEF Anchored
<1>6. Fed(p).good = b + Max(S)
  <2> DEFINE session == Full(b)
             input == RawInput("verify", toks)
  <2>1. /\ input.pass = "verify" /\ input.raw /\ input.clean /\ input.toks = toks
        /\ session.len = b /\ session.good = b
    BY DEF RawInput, Full
  <2>2. InStep(session, input)
    BY <2>1 DEF InStep
  <2>3. Fed(p) = Feed(session, input)
    BY DEF Fed
  <2> HIDE DEF session, input
  <2> QED
    BY <2>1, <2>2, <2>3 DEF Feed
<1>7. kv_keep_len(p, n) = b + c + n
    BY DEF kv_keep_len
<1>8. c = 1 => g >= 1 /\ cs[1] = gs[g] /\ g \in DOMAIN gs
  <2> SUFFICES ASSUME c = 1 PROVE g >= 1 /\ cs[1] = gs[g] /\ g \in DOMAIN gs
    OBVIOUS
  <2>1. cs # <<>>
    BY EmptySeq
  <2>2. g >= 1 /\ cs = <<gs[g]>>
    BY <1>5, <2>1
  <2> QED
    BY <1>1, <2>2
<1> HIDE DEF gs, ds, cs, out, toks, g, c, d, b
<1>9. ASSUME NEW j \in 1 .. c + n PROVE OnPath(b + j, toks[j])
  <2>1. CASE j <= c
    <3>1. j = 1 /\ c = 1 /\ j \in 1 .. c
      BY <1>2, <2>1
    <3>2. b + j = PromptLen + g /\ b + j \in Nat
      BY <1>1, <1>2, <3>1
    <3>3. toks[j] = gs[g] /\ g >= 1 /\ g \in DOMAIN gs
      BY <1>4, <1>8, <3>1
    <3> QED
      BY <1>2, <1>5, <3>2, <3>3, OnPathIs DEF Agrees
  <2>2. CASE j > c
    <3>1. PICK i \in 1 .. n : j = c + i
      <4>1. j - c \in 1 .. n /\ j = c + (j - c)
        BY <1>2, <2>2
      <4> QED
        BY <4>1
    <3>2. toks[j] = out[g + i] /\ g + i \in DOMAIN out
      BY <1>2, <1>3, <1>4, <3>1
    <3>3. b + j = PromptLen + (g + i) /\ b + j \in Nat /\ g + i \in Nat /\ g + i >= 1
      BY <1>1, <1>2, <3>1
    <3>4. PICK x \in Nat : x = g + i
      BY <3>3
    <3> QED
      BY <1>5, <3>2, <3>3, <3>4, OnPathIs DEF Agrees
  <2> QED
    BY <1>2, <2>1, <2>2
<1>10. c + n \in S
  <2>1. c + n \in 0 .. Len(toks)
    BY <1>2, <1>4
  <2> QED
    BY <1>9, <2>1 DEF PathUpTo
<1>11. Max(S) >= c + n /\ Max(S) \in Nat
  <2>1. Len(toks) \in Nat /\ S \in SUBSET (0 .. Len(toks)) /\ S # {}
    BY <1>2, <1>4, <1>10
  <2> HIDE DEF S
  <2> QED
    <3>1. Max(S) \in 0 .. Len(toks) /\ \A y \in S : Max(S) >= y
      BY <2>1, MaxUpTo
    <3>2. Max(S) >= c + n
      BY <1>10, <3>1, Zenon
    <3>3. Max(S) \in Nat
      BY <2>1, <3>1
    <3> QED
      BY <3>2, <3>3
<1> HIDE DEF S
<1> QED
    BY <1>1, <1>2, <1>6, <1>7, <1>11

\* What begin_rollback sends is such a queue.
LEMMA RollbackQueue ==
    ASSUME NEW keep, NEW final, NEW queue,
           \A i \in DOMAIN queue :
                \/ i \in Shards /\ queue[i] = RollbackLine(i, keep, final)
                \/ i = NumShards + 1 /\ queue[i] = RollbackLine(DraftSession, keep, FALSE)
    PROVE  OneForEach(queue, Shards \cup {DraftSession}, keep, final)
<1>1. NumShards \in Nat /\ Shards = 1 .. NumShards /\ DraftSession = 0
    BY ConstAssumption DEF Shards, DraftSession
<1>2. ASSUME NEW i \in DOMAIN queue
      PROVE  /\ queue[i].kind = "rollback" /\ queue[i].shard \in Shards \cup {DraftSession}
             /\ queue[i].shard # DraftSession =>
                    queue[i].keep = keep /\ queue[i].finalize = final
             /\ i = IF queue[i].shard = DraftSession THEN NumShards + 1 ELSE queue[i].shard
  <2>1. CASE i \in Shards /\ queue[i] = RollbackLine(i, keep, final)
    <3>1. /\ queue[i].kind = "rollback" /\ queue[i].shard = i
          /\ queue[i].keep = keep /\ queue[i].finalize = final
      BY <2>1 DEF RollbackLine
    <3>2. i # DraftSession
      BY <1>1, <2>1
    <3> QED
      BY <2>1, <3>1, <3>2
  <2>2. CASE i = NumShards + 1 /\ queue[i] = RollbackLine(DraftSession, keep, FALSE)
    <3>1. queue[i].kind = "rollback" /\ queue[i].shard = DraftSession
      BY <2>2 DEF RollbackLine
    <3> QED
      BY <2>2, <3>1
  <2> QED
    BY <2>1, <2>2
<1>3. ASSUME NEW i \in DOMAIN queue, NEW j \in DOMAIN queue, queue[i].shard = queue[j].shard
      PROVE  i = j
    BY <1>2, <1>3
<1> QED
    BY <1>2, <1>3 DEF OneForEach

RolledBack(ln, m, keep, final) ==
    Sent([ln EXCEPT ![m] = @ \o [s \in Shards |-> RollbackLine(s, keep, final)]],
         m, RollbackLine(DraftSession, keep, FALSE))

LEMMA RollbackSent ==
    ASSUME NEW ln \in Queues, NEW m \in Wallets, ln[m] = <<>>, zombie = {},
           NEW keep \in Nat, NEW final \in BOOLEAN
    PROVE  /\ \A v \in Wallets \ {m} : RolledBack(ln, m, keep, final)[v] = ln[v]
           /\ OneForEach(RolledBack(ln, m, keep, final)[m], Shards \cup {DraftSession},
                         keep, final)
<1> DEFINE more == [s \in Shards |-> RollbackLine(s, keep, final)]
           line == RollbackLine(DraftSession, keep, FALSE)
           mid == [ln EXCEPT ![m] = @ \o more]
           new == Sent(mid, m, line)
<1>1. NumShards \in Nat /\ Shards = 1 .. NumShards
    BY ConstAssumption DEF Shards
<1>2. mid \in Queues
    BY ConcatType
<1>3. line \in AllLines
    BY DEF RollbackLine, AllLines, RollbackLines
<1>4. \A s \in Shards : RollbackLine(s, keep, final) \in AllLines
    BY DEF RollbackLine, AllLines, RollbackLines
<1>5. more \in Seq(AllLines) /\ DOMAIN more = Shards /\ Len(more) = NumShards
      /\ \A s \in Shards : more[s] = RollbackLine(s, keep, final)
    BY <1>1, <1>4
<1> HIDE DEF more
<1>6. mid[m] = more /\ \A v \in Wallets \ {m} : mid[v] = ln[v]
  <2>1. mid[m] = <<>> \o more /\ \A v \in Wallets \ {m} : mid[v] = ln[v]
    BY DEF Queues
  <2>2. <<>> \o more = more
    BY <1>5
  <2> QED
    BY <2>1, <2>2
<1> HIDE DEF mid, line
<1>7. /\ \A v \in Wallets \ {m} : new[v] = mid[v]
      /\ \A i \in DOMAIN new[m] : \/ i \in DOMAIN mid[m] /\ new[m][i] = mid[m][i]
                                  \/ i = Len(mid[m]) + 1 /\ new[m][i] = line
    BY <1>2, <1>3, SentAt
<1> HIDE DEF new
<1>8. \A i \in DOMAIN new[m] :
        \/ i \in Shards /\ new[m][i] = RollbackLine(i, keep, final)
        \/ i = NumShards + 1 /\ new[m][i] = RollbackLine(DraftSession, keep, FALSE)
    BY <1>5, <1>6, <1>7 DEF line
<1>9. OneForEach(new[m], Shards \cup {DraftSession}, keep, final)
    BY <1>8, RollbackQueue
<1>10. RolledBack(ln, m, keep, final) = new
    BY DEF RolledBack, new, mid, line, more
<1> QED
    BY <1>6, <1>7, <1>9, <1>10

LEMMA ApplyVerifySole ==
    ASSUME NEW m \in Wallets, Before(m), PathInv', NEW w \in Wallets, ApplyVerify(w)
    PROVE  InOrderFor(m)'
<1>1. UNCHANGED <<online, leaving, zombie, shardAt, draftAt, kv, starts>>
    BY DEF ApplyVerify, registryVars, countVars
<1>2. hold[w] # None /\ pipe # None /\ pipe.pos = NumShards /\ pipe.phase = "verify"
    BY DEF ApplyVerify, Applies, Relaying
<1>3. /\ w = m /\ m \in online /\ starts = 1 /\ hold[m] # None /\ hold[m] \in Holds
      /\ TypeInv /\ Alone(m) /\ InVerify(m) /\ PipeOK(pipe) /\ lines \in Queues /\ zombie = {}
    BY <1>2, HeldBy DEF Before, InOrderFor, PathInv, TypeInv, Alone
<1>4. /\ lines[m] = <<>> /\ Computed(m, NumShards) /\ hold[m].tag = Tag(pipe) /\ shardAt = None
      /\ hold[m].out.clean /\ hold[m].out.ctx = pipe.base /\ pipe.draft_wallet = m
      /\ InLine(pipe) /\ draftAt = None
    BY <1>2, <1>3 DEF InVerify
<1>5. ~tainted'
    BY <1>3, <1>4 DEF ApplyVerify, Meant, Alone, InLine
<1>6. hold'[m] = None /\ \A v \in Wallets \ {m} : hold'[v] = hold[v]
    BY <1>3, DoneAt DEF ApplyVerify
<1>7. PICK logits \in Logits(hold[m].out), n \in 0 .. Len(pipe.drafts) :
        begin_rollback([pipe EXCEPT
                !.generated = @ \o SubSeq(pipe.drafts, 1, n)
                                \o <<Expected(pipe, logits, n + 1)>>,
                !.accepted = n, !.settle = Expected(pipe, logits, n + 1),
                !.keep = kv_keep_len(pipe, n), !.final = IsFinalizing(pipe, n)], lines)
    BY <1>3 DEF ApplyVerify
<1> DEFINE settle == Expected(pipe, logits, n + 1)
           gen == pipe.generated \o SubSeq(pipe.drafts, 1, n) \o <<settle>>
           keep == kv_keep_len(pipe, n)
           final == IsFinalizing(pipe, n)
           p == [pipe EXCEPT !.generated = gen, !.accepted = n, !.settle = settle,
                             !.keep = keep, !.final = final]
<1>8. begin_rollback(p, lines)
    BY <1>7
<1>9. pipe.drafts \in Seq(Tokens) /\ pipe.generated \in Seq(Tokens) /\ pipe.carry \in Seq(Tokens)
      /\ pipe.base \in Nat /\ n \in Nat
    BY <1>3 DEF PipeOK, Pipes, Batches
<1>10. keep \in Nat /\ final \in BOOLEAN
    BY <1>9, ConstAssumption DEF kv_keep_len, IsFinalizing
<1>11. settle \in Tokens
  <2>1. n + 1 \in 1 .. Len(pipe.drafts) + 1 /\ hold[m].out \in Inputs
    BY <1>3, <1>9 DEF Holds
  <2>2. Len(hold[m].out.toks) = Len(pipe.drafts) + Len(pipe.carry)
    BY <1>3 DEF ApplyVerify
  <2> QED
    BY <1>3, <2>1, <2>2, ExpectedType
<1>12. Len(gen) = Len(pipe.generated) + n + 1
  <2>1. Settles(gen, pipe.generated, pipe.drafts, n, settle)
    BY <1>9, <1>11, Settling DEF Batches
  <2> HIDE DEF gen
  <2> QED
    BY <2>1 DEF Settles
<1>13. keep + 1 = PromptLen + Len(gen)
  <2>1. pipe.base + Len(pipe.carry) = PromptLen + Len(pipe.generated)
    BY <1>4 DEF InLine
  <2>2. keep = pipe.base + Len(pipe.carry) + n
    BY DEF kv_keep_len
  <2>3. PromptLen \in Nat /\ Len(pipe.generated) \in Nat /\ Len(pipe.carry) \in Nat
    BY <1>9, ConstAssumption
  <2> HIDE DEF gen, keep
  <2> QED
    BY <1>9, <1>12, <2>1, <2>2, <2>3
<1> HIDE DEF settle, gen, keep, final
<1>14. p.draft_wallet = m /\ p.keep = keep /\ p.final = final /\ p.generated = gen
    BY <1>3, <1>4 DEF PipeOK, Pipes
<1>15. pipe' = [p EXCEPT !.phase = "rollback", !.pos = 1, !.input = NewPipe.input,
                         !.pending = Shards \cup {DraftSession}]
    BY <1>8 DEF begin_rollback
<1>16. /\ pipe'.phase = "rollback" /\ pipe'.pending = Shards \cup {DraftSession}
       /\ pipe'.draft_wallet = m /\ pipe'.keep = keep /\ pipe'.final = final
       /\ pipe'.generated = gen
    BY <1>3, <1>14, <1>15 DEF PipeOK, Pipes
<1>17. lines' = RolledBack(lines, m, keep, final)
  <2> HIDE DEF p
  <2>1. PICK v \in online :
            lines' = LET ls == IF v \in zombie THEN lines
                               ELSE [lines EXCEPT
                                        ![v] = @ \o [s \in Shards |->
                                                        RollbackLine(s, p.keep, p.final)]]
                     IN  IF p.draft_wallet \in online
                         THEN Sent(ls, p.draft_wallet, RollbackLine(DraftSession, p.keep, FALSE))
                         ELSE ls
    BY <1>3, <1>8 DEF begin_rollback
  <2>2. v = m
    BY <1>3, <2>1 DEF Alone
  <2> QED
    BY <1>3, <1>14, <2>1, <2>2 DEF RolledBack
<1>18. /\ \A v \in Wallets \ {m} : lines'[v] = lines[v]
       /\ OneForEach(lines'[m], Shards \cup {DraftSession}, keep, final)
  <2>1. lines \in Queues /\ lines[m] = <<>> /\ zombie = {} /\ keep \in Nat /\ final \in BOOLEAN
    BY <1>3, <1>4, <1>10
  <2> QED
    BY <1>17, <2>1, RollbackSent
<1> HIDE DEF p
<1>19. Alone(m)'
    BY <1>1, <1>3, <1>5, <1>6, <1>18 DEF Alone
<1> SUFFICES ASSUME pipe' # None PROVE Standing(m)'
    BY <1>19 DEF InOrderFor
<1>20. Agrees(gen)
    BY <1>5, <1>16 DEF PathInv, PipeInv, Progress
<1>21. Anchored(pipe)
    BY <1>2, <1>3 DEF Before, PathInv, PipeInv, Progress, Alone
<1>22. Fed(pipe).good >= keep
    BY <1>3, <1>4, <1>11, <1>20, <1>21, CommittedIsHeld DEF gen, keep
<1>23. \A s \in Shards : kv'[m][s].good >= keep /\ s \in Shards \cup {DraftSession}
  <2>1. \A s \in Shards : s <= NumShards
    BY ConstAssumption DEF Shards
  <2> QED
    BY <1>1, <1>4, <1>22, <2>1 DEF Computed
<1>24. InRollback(m)'
    BY <1>1, <1>4, <1>6, <1>13, <1>16, <1>18, <1>23 DEF InRollback
<1> QED
    BY <1>16, <1>24 DEF Standing

-----------------------------------------------------------------------------
(* The theorem                                                             *)

LEMMA SoleInit == Init => SoleInv
BY DEF Init, SoleInv, Alone, Sole

\* The premises of the property only fall away.
LEMMA SoleBefore ==
    ASSUME NEW m \in Wallets, TypeInv, Next, Sole(m)'
    PROVE  Sole(m)
<1>1. seen \subseteq seen'
    BY DEF Next, start_pipeline, Tick, RetryShardStep, RetryDraft, Register, MarkDraftCapable,
           Leave, on_disconnect, Answer, TakeShardResult, handle_draft_result,
           handle_kv_rollback_ack, Handler, ApplyLate, ApplyRelay, ApplyPrompt, CountFails,
           CountDone, ApplyVerify, ApplyMalformed, ApplyPanics, historyVars
<1>2. starts' = starts \/ starts' = starts + 1
    BY DEF Next, start_pipeline, Tick, RetryShardStep, RetryDraft, Register, MarkDraftCapable,
           Leave, on_disconnect, Answer, TakeShardResult, handle_draft_result,
           handle_kv_rollback_ack, Handler, ApplyLate, ApplyRelay, ApplyPrompt, CountFails,
           CountDone, ApplyVerify, ApplyMalformed, ApplyPanics, countVars
<1>3. UNCHANGED <<overlapped, panicked>> \/ overlapped' = TRUE \/ panicked' = TRUE
    BY DEF Next, start_pipeline, Tick, RetryShardStep, RetryDraft, Overlaps, Register,
           MarkDraftCapable, Leave, on_disconnect, Answer, TakeShardResult,
           handle_draft_result, handle_kv_rollback_ack, Handler, ApplyLate, ApplyRelay,
           ApplyPrompt, CountFails, CountDone, ApplyVerify, ApplyMalformed, ApplyPanics,
           historyVars
<1> QED
    BY <1>1, <1>2, <1>3 DEF Sole, TypeInv

\* A pipeline is only started with a miner there to draft for it.
LEMMA SomebodyStep == TypeInv /\ Somebody /\ [Next]_vars => Somebody'
<1> SUFFICES ASSUME TypeInv, Somebody, [Next]_vars, starts' # starts PROVE Wallets # {}
    BY DEF Somebody
<1>1. start_pipeline
    BY DEF Next, Tick, RetryShardStep, RetryDraft, Register, MarkDraftCapable,
           Leave, on_disconnect, Answer, TakeShardResult, handle_draft_result,
           handle_kv_rollback_ack, Handler, ApplyLate, ApplyRelay, ApplyPrompt, CountFails,
           CountDone, ApplyVerify, ApplyMalformed, ApplyPanics, countVars, vars
<1> QED
    BY <1>1 DEF start_pipeline, TypeInv

LEMMA SoleStep == PathInv /\ SoleInv /\ [Next]_vars => SoleInv'
<1>1. ASSUME PathInv, SoleInv, Next, NEW m \in Wallets, Sole(m)' PROVE InOrderFor(m)'
  <2>1. Before(m)
    BY <1>1, SoleBefore DEF Before, SoleInv, InOrderFor, PathInv
  <2>2. PathInv' /\ TypeInv'
    BY <1>1, PathStep DEF PathInv
  <2> QED
    BY <1>1, <2>1, <2>2, start_pipelineSole, RetryShardStepSole, RetryDraftSole, RegisterSole,
       MarkDraftCapableSole, LeaveSole, on_disconnectSole, TakeShardResultSole,
       handle_draft_resultSole, handle_kv_rollback_ackSole, LateSole, ApplyRelaySole,
       ApplyPromptSole, CountDoneSole, ApplyVerifySole DEF Next, Tick, Answer, Handler
<1>2. ASSUME SoleInv, UNCHANGED vars, NEW m \in Wallets, Sole(m)' PROVE InOrderFor(m)'
  <2>1. UNCHANGED <<online, leaving, zombie, pipe, shardAt, draftAt, lines, hold, kv, starts,
                    tainted, seen, overlapped, panicked>>
    BY <1>2 DEF vars, registryVars, countVars, historyVars
  <2>2. Sole(m)
    BY <1>2, <2>1 DEF Sole
  <2> QED
    BY <1>2, <2>1, <2>2, SameStanding DEF SoleInv, InOrderFor, Alone
<1> QED
    BY <1>1, <1>2 DEF SoleInv, InOrderFor

\* With a sole miner, every answer is applied to the step it was computed for, in
\* a session that holds exactly the output: however often that miner leaves and
\* comes back, whatever it drafts, and whenever the tick comes, as long as the
\* tick does not send a step again while its answer is handled
\* (handle_shard_result, handle_draft_result, handle_kv_rollback_ack,
\* retry_stalled_tick and on_disconnect).
THEOREM SoleMinerNeverStrays == Spec => []SoleMinerStaysInStep
<1>1. PathInv /\ SoleInv /\ Somebody => SoleMinerStaysInStep
  <2> SUFFICES ASSUME PathInv, SoleInv, Somebody, NumShards = 1 \/ EmptyLen = PromptLen,
                      \A v, w \in seen : v = w, starts = 1, ~overlapped, ~panicked
               PROVE  ~tainted
    BY DEF SoleMinerStaysInStep
  <2>1. \A m \in Wallets : seen \subseteq {m} => Sole(m)
    BY DEF Sole
  <2>2. seen \subseteq Wallets
    BY DEF PathInv, TypeInv
  <2>3. CASE seen = {}
    <3>1. PICK m \in Wallets : TRUE
      BY DEF Somebody
    <3> QED
      BY <2>1, <2>3, <3>1 DEF SoleInv, Alone
  <2>4. CASE seen # {}
    <3>1. PICK m \in seen : seen \subseteq {m}
      BY <2>4
    <3> QED
      BY <2>1, <2>2, <3>1 DEF SoleInv, Alone
  <2> QED
    BY <2>3, <2>4
<1>2. Init => PathInv /\ SoleInv /\ Somebody
    BY PathInit, SoleInit DEF Init, Somebody
<1>3. PathInv /\ SoleInv /\ Somebody /\ [Next]_vars => (PathInv /\ SoleInv /\ Somebody)'
    BY PathStep, SoleStep, SomebodyStep DEF PathInv
<1> QED
    BY <1>1, <1>2, <1>3, PTL DEF Spec
=============================================================================
