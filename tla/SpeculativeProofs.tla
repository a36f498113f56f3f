------------------------- MODULE SpeculativeProofs -------------------------
(***************************************************************************)
(* Proofs about Speculative, for any wallets, tokens, target, shards,      *)
(* prompt, draft length and number of disturbances: the type of every      *)
(* variable, and that speculation loses nothing.                           *)
(***************************************************************************)
EXTENDS Speculative, SequenceTheorems, WellFoundedInduction, TLAPS

-----------------------------------------------------------------------------
(* Least and greatest elements                                             *)

\* Every non-empty set of naturals has a least element.  (Stated with a set: it
\* is what stands for induction on the positions of a batch below.)
LEMMA LeastNat ==
    ASSUME NEW T \in SUBSET Nat, T # {}
    PROVE  \E m \in T : \A y \in T : m <= y
<1> DEFINE R == OpToRel(<, Nat)
<1>1. IsWellFoundedOn(R, Nat)
    BY NatLessThanWellFounded
<1>2. PICK m \in T : \A y \in T : ~ (<<y, m>> \in R)
  <2> HIDE DEF R
  <2> QED
    BY <1>1, WFMin
<1>3. \A y \in T : y < m => <<y, m>> \in R
    BY DEF OpToRel
<1> HIDE DEF R
<1>4. \A y \in T : ~(y < m)
    BY <1>2, <1>3
<1> QED
    BY <1>4

LEMMA MinPair ==
    ASSUME NEW a \in Nat, NEW b \in Nat
    PROVE  Min({a, b}) \in {a, b} /\ Min({a, b}) <= a /\ Min({a, b}) <= b
<1>1. \E x \in {a, b} : \A y \in {a, b} : x =< y
  <2>1. CASE a <= b
    BY <2>1
  <2>2. CASE b <= a
    BY <2>2
  <2> QED
    BY <2>1, <2>2
<1> QED
    BY <1>1 DEF Min

LEMMA MaxPair ==
    ASSUME NEW a \in Int, NEW b \in Int
    PROVE  Max({a, b}) \in {a, b} /\ Max({a, b}) >= a /\ Max({a, b}) >= b
<1>1. \E x \in {a, b} : \A y \in {a, b} : x >= y
  <2>1. CASE a >= b
    BY <2>1
  <2>2. CASE b >= a
    BY <2>2
  <2> QED
    BY <2>1, <2>2
<1> QED
    BY <1>1 DEF Max

\* A set of naturals up to n that has a member has a greatest one.
LEMMA MaxUpTo ==
    ASSUME NEW n \in Nat, NEW S \in SUBSET (0 .. n), S # {}
    PROVE  Max(S) \in 0 .. n /\ Max(S) \in S /\ \A y \in S : Max(S) >= y
<1> DEFINE T == {i \in 0 .. n : n - i \in S}
<1>1. T \in SUBSET Nat /\ T # {}
  <2>1. PICK x \in S : TRUE
    OBVIOUS
  <2>2. x \in Int /\ n - x \in 0 .. n /\ n - (n - x) = x
    BY <2>1
  <2>3. n - x \in T
    BY <2>1, <2>2
  <2>4. T \subseteq Nat
    OBVIOUS
  <2> HIDE DEF T
  <2> QED
    BY <2>3, <2>4
<1>2. PICK m \in T : \A y \in T : m <= y
    BY <1>1, LeastNat
<1>3. \A y \in S : n - y \in T /\ n - m >= y
  <2> TAKE y \in S
  <2>1. y \in Int /\ n - y \in 0 .. n /\ n - (n - y) = y
    OBVIOUS
  <2>2. n - y \in T
    BY <2>1
  <2> QED
    BY <1>2, <2>1, <2>2
<1>4. n - m \in S /\ \A y \in S : n - m >= y
    BY <1>2, <1>3
<1>5. Max(S) \in S /\ \A y \in S : Max(S) >= y
    BY <1>4 DEF Max
<1> QED
    BY <1>5

-----------------------------------------------------------------------------
(* The types                                                               *)

Batches  == Seq(Tokens)
Pendings == SUBSET (Shards \cup {DraftSession})
Credits  == [Wallets -> Nat]

Inputs == [pass : {"prompt", "verify"}, raw : BOOLEAN, toks : Batches, ctx : Nat,
           clean : BOOLEAN]

Pipes == [phase : {"prompt", "draft", "verify", "rollback"}, pos : Shards, input : Inputs,
          drafts : Batches, pending : Pendings, accepted : Nat, settle : Tokens \cup {None},
          keep : Nat, final : BOOLEAN, draft_wallet : Wallets \cup {None}, base : Nat,
          carry : Batches, expected0 : Tokens, k : 2 .. 8, round : Nat, generated : Batches,
          contributions : Credits]

\* What a pipeline has in its phase.
PipeOK(p) ==
    /\ p \in Pipes
    /\ Len(p.carry) <= 1 /\ Len(p.carry) <= Len(p.generated)
    /\ p.phase = "verify" => p.drafts # <<>>
    /\ p.phase = "rollback" =>
        p.pending # {} /\ p.settle \in Tokens /\ Len(p.generated) >= 1

Tags          == Nat \X Nat \X Nat
ShardLines    == [kind : {"shard"}, shard : Shards, tag : Tags, input : Inputs]
DraftLines    == [kind : {"draft"}, k : Nat]
RollbackLines == [kind : {"rollback"}, shard : Shards \cup {DraftSession}, keep : Nat,
                  finalize : BOOLEAN]
AllLines      == ShardLines \cup DraftLines \cup RollbackLines
Queues        == [Wallets -> Seq(AllLines)]

Holds    == [at : {"apply", "count"}, tag : Tags, out : Inputs, base : Nat]
Sessions == {s \in [len : Nat, good : Nat] : s.good <= s.len}
Places   == [wallet : Wallets, shard : Shards]

TypeInv ==
    /\ online \subseteq Wallets /\ capable \subseteq Wallets /\ leaving \subseteq Wallets
    /\ zombie \subseteq Wallets /\ seen \subseteq Wallets
    /\ pipe # None => PipeOK(pipe)
    /\ shardAt # None => shardAt \in Places
    /\ draftAt \in Wallets \cup {None}
    /\ lines \in Queues
    /\ hold \in [Wallets -> Holds \cup {None}]
    /\ kv \in [Wallets -> [Shards -> Sessions]]
    /\ starts \in Nat

LEMMA TypeInvImplies == TypeInv => TypeOK
<1> SUFFICES ASSUME TypeInv PROVE TypeOK
    OBVIOUS
<1>1. UNION {online, capable, leaving, zombie, seen} \subseteq Wallets
    BY DEF TypeInv
<1>2. shardAt = None \/ (shardAt.wallet \in Wallets /\ shardAt.shard \in Shards)
    BY DEF TypeInv, Places
<1>3. \A w \in Wallets : hold[w] = None \/ hold[w].tag \in Nat \X Nat \X Nat
    BY DEF TypeInv, Holds, Tags
<1>4. \A w \in Wallets, s \in Shards : kv[w][s].good <= kv[w][s].len
    BY DEF TypeInv, Sessions
<1>5. pipe # None => /\ pipe.k \in 2 .. 8 /\ pipe.pos \in Shards
                     /\ Len(pipe.carry) <= 1
                     /\ pipe.phase = "verify" => pipe.drafts # <<>>
                     /\ pipe.phase = "rollback" => pipe.pending # {}
                     /\ Len(pipe.generated) >= Len(pipe.carry)
    BY DEF TypeInv, PipeOK, Pipes, Batches
<1> QED
    BY <1>1, <1>2, <1>3, <1>4, <1>5 DEF TypeInv, TypeOK

-----------------------------------------------------------------------------
(* What the operators return                                               *)

LEMMA RawInputType ==
    ASSUME NEW pass \in {"prompt", "verify"}, NEW toks \in Batches
    PROVE  /\ RawInput(pass, toks) \in Inputs
           /\ RawInput(pass, toks).toks = toks /\ RawInput(pass, toks).pass = pass
BY DEF RawInput, Inputs

LEMMA NewPipeType ==
    /\ PipeOK(NewPipe) /\ NewPipe.phase = "prompt" /\ NewPipe.round = 0 /\ NewPipe.pos = 1
    /\ NewPipe.carry = <<>> /\ NewPipe.generated = <<>> /\ NewPipe.input \in Inputs
    /\ NewPipe.input.pass = "prompt"
BY ConstAssumption DEF NewPipe, PipeOK, Pipes, Inputs, RawInput, Shards, Batches, Pendings,
   Credits

LEMMA AwaitingDraftIs ==
    ASSUME NEW p \in Pipes
    PROVE  LET q == AwaitingDraft(p)
           IN  /\ q \in Pipes /\ q.phase = "draft"
               /\ q.round = p.round /\ q.carry = p.carry /\ q.generated = p.generated
               /\ q.expected0 = p.expected0 /\ q.k = p.k
<1>1. NewPipe.input \in Inputs /\ 1 \in Shards
    BY NewPipeType, ConstAssumption DEF Shards
<1>2. AwaitingDraft(p) \in Pipes
  <2> DEFINE a == [p EXCEPT !.phase = "draft", !.pos = 1, !.input = NewPipe.input]
             b == [a EXCEPT !.drafts = <<>>, !.pending = {}, !.accepted = 0]
             c == [b EXCEPT !.settle = None, !.keep = 0, !.final = FALSE]
  <2>1. a \in Pipes
    BY <1>1 DEF Pipes
  <2>2. AwaitingDraft(p) = c
    BY DEF AwaitingDraft
  <2> HIDE DEF a
  <2>3. b \in Pipes
    <3>1. {} \in Pendings /\ <<>> \in Batches
      BY DEF Pendings, Batches
    <3> QED
      BY <2>1, <3>1 DEF Pipes
  <2> HIDE DEF b
  <2>4. c \in Pipes
    BY <2>3 DEF Pipes
  <2> QED
    BY <2>2, <2>4
<1>3. /\ AwaitingDraft(p).phase = "draft"
      /\ AwaitingDraft(p).round = p.round /\ AwaitingDraft(p).carry = p.carry
      /\ AwaitingDraft(p).generated = p.generated
      /\ AwaitingDraft(p).expected0 = p.expected0 /\ AwaitingDraft(p).k = p.k
    BY DEF Pipes, AwaitingDraft
<1> QED
    BY <1>2, <1>3

LEMMA FeedType ==
    ASSUME NEW session \in Sessions, NEW input \in Inputs
    PROVE  Feed(session, input) \in Sessions
<1> USE ConstAssumption
<1> DEFINE S == {i \in 0 .. Len(input.toks) : PathUpTo(session.len, input.toks, i)}
<1>1. Len(input.toks) \in Nat /\ session.len \in Nat /\ session.good \in Nat
      /\ session.good <= session.len
    BY DEF Inputs, Sessions, Batches
<1>2. Max(S) \in 0 .. Len(input.toks)
  <2>1. 0 \in S
    BY <1>1 DEF PathUpTo
  <2> QED
    BY <1>1, <2>1, MaxUpTo
<1>3. CASE input.pass = "prompt"
  <2>1. Feed(session, input) = [len |-> PromptLen,
                                good |-> IF InStep(session, input) THEN PromptLen ELSE 0]
    BY <1>3 DEF Feed
  <2> QED
    BY <2>1 DEF Sessions
<1>4. CASE input.pass # "prompt"
  <2>1. Feed(session, input) = [len |-> session.len + Len(input.toks),
                                good |-> IF InStep(session, input)
                                         THEN session.len + Max(S) ELSE session.good]
    BY <1>4 DEF Feed
  <2> HIDE DEF S
  <2> QED
    BY <1>1, <1>2, <2>1 DEF Sessions
<1> QED
    BY <1>3, <1>4

LEMMA OutputType ==
    ASSUME NEW session \in Sessions, NEW input \in Inputs
    PROVE  /\ Output(session, input) \in Inputs
           /\ Output(session, input).toks = input.toks
           /\ Output(session, input).pass = input.pass
BY DEF Output, Inputs, Sessions, InStep

LEMMA TruncateType ==
    ASSUME NEW session \in Sessions, NEW line \in RollbackLines
    PROVE  Truncate(session, line) \in Sessions
<1>1. session.len \in Nat /\ session.good \in Nat /\ session.good <= session.len
      /\ line.keep \in Nat
    BY DEF Sessions, RollbackLines
<1>2. Min({session.good, line.keep}) <= Min({session.len, line.keep})
      /\ Min({session.good, line.keep}) \in Nat /\ Min({session.len, line.keep}) \in Nat
    BY <1>1, MinPair
<1> QED
    BY <1>2 DEF Truncate, Sessions

LEMMA NextKType == ASSUME NEW p \in Pipes PROVE next_k(p) \in 2 .. 8
<1>1. p.k \in 2 .. 8
    BY DEF Pipes
<1> DEFINE k == IF 10 * p.accepted > 7 * Len(p.drafts) THEN p.k + 1
                ELSE IF 2 * p.accepted < Len(p.drafts) THEN p.k - 1 ELSE p.k
<1>2. k \in Int
    BY <1>1
<1>3. next_k(p) = Min({Max({k, 2}), 8})
    BY DEF next_k
<1> HIDE DEF k
<1>4. Max({k, 2}) \in Nat /\ Max({k, 2}) >= 2
    BY <1>2, MaxPair
<1>5. Min({Max({k, 2}), 8}) \in {Max({k, 2}), 8} /\ Min({Max({k, 2}), 8}) <= 8
    BY <1>4, MinPair
<1> QED
    BY <1>3, <1>4, <1>5

-----------------------------------------------------------------------------
(* The lines under way                                                     *)

\* Is l one of the lines of ln?
Within(l, ln) == \E w \in Wallets : \E i \in DOMAIN ln[w] : ln[w][i] = l

LEMMA SentType ==
    ASSUME NEW ln \in Queues, NEW w \in Wallets, NEW line \in AllLines
    PROVE  /\ Sent(ln, w, line) \in Queues
           /\ \A l : Within(l, Sent(ln, w, line)) => Within(l, ln) \/ l = line
<1>1. CASE w \in zombie
    BY <1>1 DEF Sent
<1>2. CASE w \notin zombie
  <2>1. Sent(ln, w, line) = [ln EXCEPT ![w] = Append(ln[w], line)]
    BY <1>2 DEF Sent
  <2>2. ln[w] \in Seq(AllLines)
    BY DEF Queues
  <2>3. Append(ln[w], line) \in Seq(AllLines)
    BY <2>2
  <2>4. ASSUME NEW l, Within(l, Sent(ln, w, line)) PROVE Within(l, ln) \/ l = line
    <3>1. PICK v \in Wallets : \E i \in DOMAIN Sent(ln, w, line)[v] :
                                Sent(ln, w, line)[v][i] = l
      BY <2>4 DEF Within
    <3>2. CASE v # w
      <4>1. Sent(ln, w, line)[v] = ln[v]
        BY <2>1, <3>2 DEF Queues
      <4> QED
        BY <3>1, <4>1 DEF Within
    <3>3. CASE v = w
      <4>1. Sent(ln, w, line)[v] = Append(ln[w], line)
        BY <2>1, <3>3 DEF Queues
      <4>2. PICK i \in DOMAIN Append(ln[w], line) : Append(ln[w], line)[i] = l
        BY <3>1, <4>1
      <4>3. l = line \/ (i \in DOMAIN ln[w] /\ ln[w][i] = l)
        BY <2>2, <4>2
      <4> QED
        BY <4>3 DEF Within
    <3> QED
      BY <3>2, <3>3
  <2> QED
    BY <2>1, <2>3, <2>4 DEF Queues
<1> QED
    BY <1>1, <1>2

LEMMA PoppedType ==
    ASSUME lines \in Queues, NEW w \in Wallets, lines[w] # <<>>
    PROVE  /\ Popped(w) \in Queues
           /\ Head(lines[w]) \in AllLines /\ Within(Head(lines[w]), lines)
           /\ \A l : Within(l, Popped(w)) => Within(l, lines)
<1>1. lines[w] \in Seq(AllLines) /\ Popped(w) = [lines EXCEPT ![w] = Tail(lines[w])]
    BY DEF Queues, Popped
<1>2. /\ Tail(lines[w]) \in Seq(AllLines) /\ Head(lines[w]) = lines[w][1]
      /\ 1 \in DOMAIN lines[w]
    BY <1>1
<1>3. Head(lines[w]) \in AllLines /\ Within(Head(lines[w]), lines)
    BY <1>1, <1>2 DEF Within
<1>4. ASSUME NEW l, Within(l, Popped(w)) PROVE Within(l, lines)
  <2>1. PICK v \in Wallets : \E i \in DOMAIN Popped(w)[v] : Popped(w)[v][i] = l
    BY <1>4 DEF Within
  <2>2. CASE v # w
    <3>1. Popped(w)[v] = lines[v]
      BY <1>1, <2>2 DEF Queues
    <3> QED
      BY <2>1, <3>1 DEF Within
  <2>3. CASE v = w
    <3>1. Popped(w)[v] = Tail(lines[w])
      BY <1>1, <2>3 DEF Queues
    <3>2. PICK i \in DOMAIN Tail(lines[w]) : Tail(lines[w])[i] = l
      BY <2>1, <3>1
    <3>3. i + 1 \in DOMAIN lines[w] /\ lines[w][i + 1] = l
      BY <1>1, <3>2
    <3> QED
      BY <3>3 DEF Within
  <2> QED
    BY <2>2, <2>3
<1> QED
    BY <1>1, <1>2, <1>3, <1>4 DEF Queues

LEMMA EmptiedType ==
    ASSUME lines \in Queues, NEW w \in Wallets
    PROVE  /\ [lines EXCEPT ![w] = <<>>] \in Queues
           /\ \A l : Within(l, [lines EXCEPT ![w] = <<>>]) => Within(l, lines)
<1> DEFINE ln == [lines EXCEPT ![w] = <<>>]
<1>1. \A v \in Wallets : ln[v] = IF v = w THEN <<>> ELSE lines[v]
    BY DEF Queues
<1>2. ln \in Queues
    BY DEF Queues
<1>3. ASSUME NEW l, Within(l, ln) PROVE Within(l, lines)
  <2>1. PICK v \in Wallets : \E i \in DOMAIN ln[v] : ln[v][i] = l
    BY <1>3 DEF Within
  <2>2. v # w
    BY <1>1, <2>1
  <2> QED
    BY <1>1, <2>1, <2>2 DEF Within
<1> QED
    BY <1>2, <1>3

-----------------------------------------------------------------------------
(* What is sent                                                            *)

\* Was the shard line l sent for p's current step?
SentFor(p, l) == l.tag = <<starts, p.round, p.pos>> /\ l.input = p.input

LEMMA dispatch_shard_stepType ==
    ASSUME TypeInv, NEW p, PipeOK(p), NEW ln \in Queues, dispatch_shard_step(p, ln)
    PROVE  /\ pipe' = p /\ lines' \in Queues
           /\ shardAt' # None => shardAt' \in Places
           /\ \A l : Within(l, lines') => Within(l, ln) \/ SentFor(p, l)
<1>1. ShardLine(p) \in AllLines /\ SentFor(p, ShardLine(p)) /\ p.pos \in Shards
  <2>1. p.pos \in Shards /\ p.round \in Nat /\ p.input \in Inputs
    BY DEF PipeOK, Pipes
  <2>2. p.pos \in Nat /\ starts \in Nat
    BY <2>1, ConstAssumption DEF Shards, TypeInv
  <2>3. Tag(p) \in Tags /\ Tag(p) = <<starts, p.round, p.pos>>
    BY <2>1, <2>2 DEF Tags, Tag
  <2> QED
    BY <2>1, <2>3 DEF ShardLine, AllLines, ShardLines, SentFor
<1>2. pipe' = p
    BY DEF dispatch_shard_step
<1>3. CASE online = {} /\ lines' = ln /\ UNCHANGED shardAt
    BY <1>2, <1>3 DEF TypeInv
<1>4. ASSUME NEW w \in online, shardAt' = [wallet |-> w, shard |-> p.pos],
             lines' = Sent(ln, w, ShardLine(p))
      PROVE  /\ lines' \in Queues
             /\ shardAt' # None => shardAt' \in Places
             /\ \A l : Within(l, lines') => Within(l, ln) \/ SentFor(p, l)
  <2>1. w \in Wallets
    BY DEF TypeInv
  <2>2. shardAt' \in Places
    BY <1>1, <1>4, <2>1 DEF Places
  <2> QED
    BY <1>1, <1>4, <2>1, <2>2, SentType
<1> QED
    BY <1>2, <1>3, <1>4 DEF dispatch_shard_step

\* Everything of a pipeline but the pinned draft miner and the credits.
SameWork(p, q) ==
    /\ q.phase = p.phase /\ q.pos = p.pos /\ q.input = p.input /\ q.drafts = p.drafts
    /\ q.settle = p.settle /\ q.carry = p.carry /\ q.expected0 = p.expected0
    /\ q.round = p.round /\ q.generated = p.generated

LEMMA PinnedType ==
    ASSUME NEW p, PipeOK(p), NEW w \in Wallets
    PROVE  /\ PipeOK([p EXCEPT !.draft_wallet = w])
           /\ SameWork(p, [p EXCEPT !.draft_wallet = w])
<1> DEFINE q == [p EXCEPT !.draft_wallet = w]
<1>1. q \in Pipes
    BY DEF PipeOK, Pipes
<1>2. SameWork(p, q) /\ q.pending = p.pending
    BY DEF PipeOK, Pipes, SameWork
<1> HIDE DEF q
<1>3. PipeOK(q)
    BY <1>1, <1>2 DEF PipeOK, SameWork
<1> QED
    BY <1>2, <1>3 DEF q

LEMMA AskedType == ASSUME NEW p \in Pipes PROVE Asked(p) \in Nat
<1> DEFINE k == p.k - 1
<1>1. p.k \in 2 .. 8
    BY DEF Pipes
<1>2. k \in Int /\ k >= 1
    BY <1>1
<1>3. Asked(p) = IF p.carry = <<>> THEN p.k ELSE Max({k, 1})
    BY DEF Asked
<1> HIDE DEF k
<1>4. Max({k, 1}) \in Nat
    BY <1>2, MaxPair
<1> QED
    BY <1>1, <1>3, <1>4

LEMMA dispatch_draftType ==
    ASSUME TypeInv, NEW p, PipeOK(p), NEW ln \in Queues, dispatch_draft(p, ln)
    PROVE  /\ PipeOK(pipe') /\ SameWork(p, pipe') /\ lines' \in Queues
           /\ draftAt' \in Wallets \cup {None}
           /\ \A l : Within(l, lines') /\ l.kind = "shard" => Within(l, ln)
<1>1. CASE pipe' = p /\ lines' = ln /\ UNCHANGED draftAt
    BY <1>1 DEF TypeInv, SameWork
<1>2. ASSUME NEW w \in DraftWallets(p), pipe' = [p EXCEPT !.draft_wallet = w], draftAt' = w,
             lines' = Sent(ln, w, [kind |-> "draft", k |-> Asked(p)])
      PROVE  /\ PipeOK(pipe') /\ SameWork(p, pipe') /\ lines' \in Queues
             /\ draftAt' \in Wallets \cup {None}
             /\ \A l : Within(l, lines') /\ l.kind = "shard" => Within(l, ln)
  <2>1. w \in Wallets
    BY DEF DraftWallets, TypeInv
  <2>2. Asked(p) \in Nat
    BY AskedType DEF PipeOK
  <2> DEFINE line == [kind |-> "draft", k |-> Asked(p)]
  <2>3. line \in AllLines /\ line.kind # "shard"
    BY <2>2 DEF AllLines, DraftLines
  <2>4. lines' = Sent(ln, w, line)
    BY <1>2
  <2> HIDE DEF line
  <2> QED
    BY <1>2, <2>1, <2>3, <2>4, SentType, PinnedType
<1> QED
    BY <1>1, <1>2 DEF dispatch_draft

\* Rollback lines are no shard lines.
LEMMA ConcatType ==
    ASSUME NEW ln \in Queues, NEW w \in Wallets, NEW keep \in Nat, NEW final \in BOOLEAN
    PROVE  LET more == [s \in Shards |-> RollbackLine(s, keep, final)]
               new == [ln EXCEPT ![w] = @ \o more]
           IN  /\ new \in Queues
               /\ \A l : Within(l, new) /\ l.kind = "shard" => Within(l, ln)
<1> DEFINE more == [s \in Shards |-> RollbackLine(s, keep, final)]
           new == [ln EXCEPT ![w] = ln[w] \o more]
<1>1. \A s \in Shards : RollbackLine(s, keep, final) \in AllLines
    BY DEF RollbackLine, AllLines, RollbackLines
<1>2. more \in Seq(AllLines) /\ DOMAIN more = 1 .. NumShards /\ Len(more) = NumShards
    BY <1>1, ConstAssumption DEF Shards
<1>3. \A i \in DOMAIN more : more[i].kind # "shard"
    BY DEF RollbackLine
<1> HIDE DEF more
<1>4. ln[w] \in Seq(AllLines) /\ ln[w] \o more \in Seq(AllLines)
    BY <1>2 DEF Queues
<1>5. new \in Queues
    BY <1>4 DEF Queues
<1>6. ASSUME NEW l, Within(l, new), l.kind = "shard" PROVE Within(l, ln)
  <2>1. PICK v \in Wallets : \E i \in DOMAIN new[v] : new[v][i] = l
    BY <1>6 DEF Within
  <2>2. CASE v # w
    <3>1. new[v] = ln[v]
      BY <2>2 DEF Queues
    <3> QED
      BY <2>1, <3>1 DEF Within
  <2>3. CASE v = w
    <3>1. new[v] = ln[w] \o more
      BY <2>3 DEF Queues
    <3>2. PICK i \in DOMAIN (ln[w] \o more) : (ln[w] \o more)[i] = l
      BY <2>1, <3>1
    <3>3. \/ i \in DOMAIN ln[w] /\ ln[w][i] = l
          \/ i - Len(ln[w]) \in DOMAIN more /\ more[i - Len(ln[w])] = l
      BY <1>2, <1>4, <3>2
    <3> QED
      BY <1>3, <1>6, <3>3 DEF Within
  <2> QED
    BY <2>2, <2>3
<1> QED
    BY <1>5, <1>6 DEF more

LEMMA begin_rollbackType ==
    ASSUME TypeInv, NEW p \in Pipes, Len(p.carry) <= 1, Len(p.carry) <= Len(p.generated),
           p.settle \in Tokens, Len(p.generated) >= 1,
           NEW ln \in Queues, begin_rollback(p, ln)
    PROVE  /\ PipeOK(pipe') /\ pipe'.phase = "rollback"
           /\ pipe'.round = p.round /\ pipe'.settle = p.settle
           /\ pipe'.generated = p.generated
           /\ lines' \in Queues
           /\ \A l : Within(l, lines') /\ l.kind = "shard" => Within(l, ln)
<1> DEFINE q == [p EXCEPT !.phase = "rollback", !.pos = 1, !.input = NewPipe.input,
                          !.pending = Shards \cup {DraftSession}]
<1>1. pipe' = q
    BY DEF begin_rollback
<1>2. q \in Pipes
  <2>1. NewPipe.input \in Inputs /\ 1 \in Shards /\ Shards \cup {DraftSession} \in Pendings
    BY NewPipeType, ConstAssumption DEF Shards, Pendings
  <2> QED
    BY <2>1 DEF Pipes
<1>3. /\ q.phase = "rollback" /\ q.round = p.round /\ q.settle = p.settle
      /\ q.generated = p.generated /\ q.carry = p.carry
      /\ q.pending = Shards \cup {DraftSession}
    BY DEF Pipes
<1> HIDE DEF q
<1>4. PipeOK(q)
    BY <1>2, <1>3 DEF PipeOK
<1>5. p.keep \in Nat /\ p.final \in BOOLEAN
    BY DEF Pipes
<1> DEFINE more == [s \in Shards |-> RollbackLine(s, p.keep, p.final)]
           line == RollbackLine(DraftSession, p.keep, FALSE)
<1>6. line \in AllLines /\ line.kind # "shard"
    BY <1>5 DEF RollbackLine, AllLines, RollbackLines
<1> HIDE DEF line
<1>7. ASSUME NEW ls \in Queues, \A l : Within(l, ls) /\ l.kind = "shard" => Within(l, ln),
             lines' = IF p.draft_wallet \in online THEN Sent(ls, p.draft_wallet, line) ELSE ls
      PROVE  /\ lines' \in Queues
             /\ \A l : Within(l, lines') /\ l.kind = "shard" => Within(l, ln)
  <2>1. CASE p.draft_wallet \in online
    <3>1. p.draft_wallet \in Wallets
      BY <2>1 DEF TypeInv
    <3> QED
      BY <1>6, <1>7, <2>1, <3>1, SentType
  <2>2. CASE p.draft_wallet \notin online
    BY <1>7, <2>2
  <2> QED
    BY <2>1, <2>2
<1>8. /\ lines' \in Queues
      /\ \A l : Within(l, lines') /\ l.kind = "shard" => Within(l, ln)
  <2>1. CASE lines' = ln
    BY <2>1
  <2>2. ASSUME NEW w \in online,
               lines' = LET ls == IF w \in zombie THEN ln ELSE [ln EXCEPT ![w] = @ \o more]
                        IN  IF p.draft_wallet \in online
                            THEN Sent(ls, p.draft_wallet, line) ELSE ls
        PROVE  /\ lines' \in Queues
               /\ \A l : Within(l, lines') /\ l.kind = "shard" => Within(l, ln)
    <3> DEFINE ls == IF w \in zombie THEN ln ELSE [ln EXCEPT ![w] = @ \o more]
    <3>1. w \in Wallets
      BY DEF TypeInv
    <3>2. ls \in Queues /\ \A l : Within(l, ls) /\ l.kind = "shard" => Within(l, ln)
      BY <1>5, <3>1, ConcatType
    <3>3. lines' = IF p.draft_wallet \in online THEN Sent(ls, p.draft_wallet, line) ELSE ls
      BY <2>2
    <3> HIDE DEF ls
    <3> QED
      BY <1>7, <3>2, <3>3
  <2> QED
    BY <2>1, <2>2 DEF begin_rollback, line
<1> QED
    BY <1>1, <1>3, <1>4, <1>8

-----------------------------------------------------------------------------
(* What a step may do, as far as the output is concerned                   *)

\* A shard line is an earlier one, or sent for the pipeline's current step.
LinesOld ==
    \A l : Within(l, lines') /\ l.kind = "shard" =>
        \/ Within(l, lines)
        \/ l.input = pipe'.input /\ l.tag = <<starts', pipe'.round, pipe'.pos>>

\* A result that is being handled was so before, or answers a line.
HoldsOld ==
    \A w \in Wallets : hold'[w] # None =>
        \/ /\ hold[w] # None
           /\ hold'[w].tag = hold[w].tag /\ hold'[w].out = hold[w].out
           /\ hold'[w].at = "count" =>
                hold[w].at = "count" \/ (~tainted' => hold[w].out.clean)
        \/ /\ hold'[w].at = "apply"
           /\ \E l : /\ Within(l, lines) /\ l.kind = "shard"
                     /\ hold'[w].tag = l.tag
                     /\ hold'[w].out.pass = l.input.pass
                     /\ hold'[w].out.toks = l.input.toks

RowOld ==
    \/ row' = row
    \/ pipe # None /\ row'.tokens = pipe.generated /\ row'.clean = ~tainted

\* The ways a pipeline goes on.
Gone == pipe' = None /\ starts' = starts

Same == pipe # None /\ pipe' # None /\ SameWork(pipe, pipe') /\ starts' = starts

Started == pipe' = NewPipe /\ starts' = starts + 1

Relayed ==
    /\ pipe # None /\ pipe' # None /\ starts' = starts
    /\ pipe.phase \in {"prompt", "verify"} /\ pipe'.phase = pipe.phase
    /\ pipe'.round = pipe.round /\ pipe'.carry = pipe.carry
    /\ pipe'.drafts = pipe.drafts /\ pipe'.generated = pipe.generated
    /\ pipe'.expected0 = pipe.expected0
    /\ ~tainted' => \E w \in Wallets :
        hold[w] # None /\ hold[w].tag = Tag(pipe) /\ pipe'.input = hold[w].out

Counted ==
    /\ pipe # None /\ pipe' # None /\ starts' = starts
    /\ pipe'.phase = "draft" /\ pipe'.round = pipe.round /\ pipe'.carry = pipe.carry
    /\ pipe'.generated = pipe.generated
    /\ ~tainted' =>
        /\ pipe.phase = "prompt"
        /\ \E w \in Wallets :
            /\ hold[w] # None /\ hold[w].at = "count" /\ hold[w].tag = Tag(pipe)
            /\ hold[w].out.clean /\ hold[w].out.pass = "prompt" =>
                Predicted(PromptLen, pipe'.expected0)

Drafted ==
    /\ pipe # None /\ pipe' # None /\ starts' = starts
    /\ pipe'.phase = "verify" /\ pipe'.round = pipe.round + 1
    /\ pipe'.carry = pipe.carry /\ pipe'.generated = pipe.generated
    /\ pipe'.expected0 = pipe.expected0
    /\ pipe'.input.toks = pipe.carry \o pipe'.drafts
    /\ ~tainted' => pipe.phase = "draft"

Verified ==
    /\ pipe # None /\ pipe' # None /\ starts' = starts
    /\ pipe.phase = "verify" /\ pipe'.phase = "rollback" /\ pipe'.round = pipe.round
    /\ \E w \in Wallets : \E logits \in Logits(hold[w].out), n \in 0 .. Len(pipe.drafts) :
        /\ hold[w] # None
        /\ greedy_verify_round(pipe, logits, n)
        /\ Len(hold[w].out.toks) = Len(pipe.drafts) + Len(pipe.carry)
        /\ pipe'.settle = Expected(pipe, logits, n + 1)
        /\ pipe'.generated = pipe.generated \o SubSeq(pipe.drafts, 1, n) \o <<pipe'.settle>>
        /\ ~tainted' =>
            /\ hold[w].tag = Tag(pipe) /\ hold[w].out.clean
            /\ hold[w].out.ctx + Len(pipe.carry) = PromptLen + Len(pipe.generated)

Settled ==
    /\ pipe # None /\ pipe' # None /\ starts' = starts
    /\ pipe.phase = "rollback" /\ pipe'.phase = "draft" /\ pipe'.round = pipe.round
    /\ pipe'.carry = <<pipe.settle>> /\ pipe'.generated = pipe.generated

Move == Gone \/ Same \/ Started \/ Relayed \/ Counted \/ Drafted \/ Verified \/ Settled

\* Doubts stay until a pipeline is started.
TaintStays == Started \/ (~tainted' => ~tainted)

Goes == LinesOld /\ HoldsOld /\ RowOld /\ Move /\ TaintStays

LEMMA SamePipe == UNCHANGED <<pipe, starts>> => Gone \/ Same
BY DEF Gone, Same, SameWork

LEMMA SameLines ==
    ASSUME \A l : Within(l, lines') => Within(l, lines)
    PROVE  LinesOld
BY DEF LinesOld

LEMMA SameHold ==
    ASSUME TypeInv, NEW w \in Wallets, hold' \in {hold, [hold EXCEPT ![w] = None]}
    PROVE  HoldsOld /\ hold' \in [Wallets -> Holds \cup {None}]
<1>1. hold \in [Wallets -> Holds \cup {None}]
    BY DEF TypeInv
<1>2. \A v \in Wallets : hold'[v] # None => hold'[v] = hold[v]
    BY <1>1
<1> QED
    BY <1>1, <1>2 DEF HoldsOld

-----------------------------------------------------------------------------
(* Sessions and loops                                                      *)

LEMMA RegisterStep == ASSUME TypeInv, NEW w \in Wallets, Register(w) PROVE TypeInv' /\ Goes
<1>1. UNCHANGED <<capable, leaving, pipe, shardAt, draftAt, hold, kv, row, starts, tainted>>
    BY DEF Register, outcomeVars
<1>2. lines' \in Queues /\ LinesOld
    BY EmptiedType, SameLines DEF Register, TypeInv
<1>3. HoldsOld /\ Move
    BY <1>1, SameHold, SamePipe DEF Move
<1>4. online' \subseteq Wallets /\ zombie' \subseteq Wallets /\ seen' \subseteq Wallets
    BY DEF Register, TypeInv
<1>5. TypeInv'
    BY <1>1, <1>2, <1>4 DEF TypeInv, PipeOK
<1> QED
    BY <1>1, <1>2, <1>3, <1>5 DEF Goes, RowOld, TaintStays

LEMMA MarkDraftCapableStep ==
    ASSUME TypeInv, NEW w \in Wallets, MarkDraftCapable(w) PROVE TypeInv' /\ Goes
<1>1. UNCHANGED <<online, leaving, zombie, seen, pipe, shardAt, draftAt, lines, hold, kv, row,
                  starts, tainted>>
    BY DEF MarkDraftCapable, outcomeVars, countVars, historyVars
<1>2. capable' \subseteq Wallets
    BY DEF MarkDraftCapable, TypeInv
<1>3. LinesOld
    BY <1>1 DEF LinesOld, Within
<1>4. HoldsOld /\ Move
    BY <1>1, SameHold, SamePipe DEF Move
<1>5. TypeInv'
    BY <1>1, <1>2 DEF TypeInv, PipeOK
<1> QED
    BY <1>1, <1>3, <1>4, <1>5 DEF Goes, RowOld, TaintStays

LEMMA FedType ==
    ASSUME TypeInv, NEW w \in Wallets, NEW line \in ShardLines
    PROVE  [kv EXCEPT ![w][line.shard] = Feed(@, line.input)] \in [Wallets -> [Shards -> Sessions]]
<1>1. line.shard \in Shards /\ line.input \in Inputs
    BY DEF ShardLines
<1>2. kv[w] \in [Shards -> Sessions] /\ kv[w][line.shard] \in Sessions
    BY <1>1 DEF TypeInv
<1>3. Feed(kv[w][line.shard], line.input) \in Sessions
    BY <1>1, <1>2, FeedType
<1> QED
    BY <1>1, <1>2, <1>3 DEF TypeInv

LEMMA ShardHead ==
    ASSUME NEW line \in AllLines, line.kind = "shard" PROVE line \in ShardLines
BY DEF AllLines, DraftLines, RollbackLines

LEMMA LeaveStep == ASSUME TypeInv, NEW w \in Wallets, Leave(w) PROVE TypeInv' /\ Goes
<1>1. UNCHANGED <<zombie, seen, pipe, shardAt, draftAt, row, starts, tainted>>
    BY DEF Leave, outcomeVars, historyVars
<1>2. lines' \in Queues /\ LinesOld
    BY EmptiedType, SameLines DEF Leave, TypeInv
<1>3. HoldsOld /\ Move /\ hold' \in [Wallets -> Holds \cup {None}]
    BY <1>1, SameHold, SamePipe DEF Move, Leave
<1>4. online' \subseteq Wallets /\ capable' \subseteq Wallets /\ leaving' \subseteq Wallets
    BY DEF Leave, TypeInv
<1>5. kv' \in [Wallets -> [Shards -> Sessions]]
  <2>1. CASE UNCHANGED kv
    BY <2>1 DEF TypeInv
  <2>2. CASE ~UNCHANGED kv
    <3> DEFINE line == Head(lines[w])
    <3>1. /\ lines[w] # <<>> /\ line.kind = "shard"
          /\ kv' = [kv EXCEPT ![w][line.shard] = Feed(@, line.input)]
      BY <2>2 DEF Leave
    <3>2. line \in ShardLines
      BY <3>1, PoppedType, ShardHead DEF TypeInv
    <3> HIDE DEF line
    <3> QED
      BY <3>1, <3>2, FedType
  <2> QED
    BY <2>1, <2>2
<1>6. TypeInv'
    BY <1>1, <1>2, <1>3, <1>4, <1>5 DEF TypeInv, PipeOK
<1> QED
    BY <1>1, <1>2, <1>3, <1>6 DEF Goes, RowOld, TaintStays

LEMMA on_disconnectStep ==
    ASSUME TypeInv, NEW w \in Wallets, on_disconnect(w) PROVE TypeInv' /\ Goes
<1>1. UNCHANGED <<online, capable, zombie, seen, lines, hold, kv, row, starts, tainted>>
    BY DEF on_disconnect, outcomeVars, countVars, historyVars
<1>2. pipe' \in {pipe, None} /\ shardAt' \in {shardAt, None} /\ draftAt' \in {draftAt, None}
      /\ leaving' \subseteq leaving
    BY DEF on_disconnect
<1>3. LinesOld
    BY <1>1 DEF LinesOld, Within
<1>4. HoldsOld /\ Move
    BY <1>1, <1>2, SameHold, SamePipe DEF Move, Gone
<1>5. TypeInv'
    BY <1>1, <1>2 DEF TypeInv, PipeOK
<1> QED
    BY <1>1, <1>3, <1>4, <1>5 DEF Goes, RowOld, TaintStays

LEMMA start_pipelineStep == ASSUME TypeInv, start_pipeline PROVE TypeInv' /\ Goes
<1>1. UNCHANGED <<online, capable, leaving, zombie, seen, draftAt, hold, kv, row>>
    BY DEF start_pipeline, registryVars, outcomeVars
<1>2. starts' = starts + 1 /\ pipe' = NewPipe
    BY DEF start_pipeline
<1>3. PICK w \in online :
        /\ shardAt' = [wallet |-> w, shard |-> 1]
        /\ lines' = Sent(lines, w, [ShardLine(NewPipe) EXCEPT !.tag = <<starts + 1, 0, 1>>])
    BY DEF start_pipeline
<1> DEFINE line == [ShardLine(NewPipe) EXCEPT !.tag = <<starts + 1, 0, 1>>]
<1>4. line = [kind |-> "shard", shard |-> 1, tag |-> <<starts + 1, 0, 1>>,
              input |-> NewPipe.input]
    BY NewPipeType DEF ShardLine
<1>5. w \in Wallets /\ 1 \in Shards /\ starts + 1 \in Nat
    BY ConstAssumption DEF TypeInv, Shards
<1>6. line \in AllLines /\ line.tag = <<starts + 1, 0, 1>> /\ line.input = NewPipe.input
    BY <1>4, <1>5, NewPipeType DEF AllLines, ShardLines, Tags
<1>7. lines' = Sent(lines, w, line)
    BY <1>3
<1> HIDE DEF line
<1>8. lines' \in Queues /\ \A l : Within(l, lines') => Within(l, lines) \/ l = line
    BY <1>5, <1>6, <1>7, SentType DEF TypeInv
<1>9. LinesOld
    BY <1>2, <1>6, <1>8, NewPipeType DEF LinesOld
<1>10. shardAt' \in Places
    BY <1>3, <1>5 DEF Places
<1>11. TypeInv'
    BY <1>1, <1>2, <1>5, <1>8, <1>10, NewPipeType DEF TypeInv
<1>12. HoldsOld
    BY <1>1, <1>5, SameHold
<1> QED
    BY <1>1, <1>2, <1>9, <1>11, <1>12 DEF Goes, RowOld, TaintStays, Move, Started

LEMMA RetryShardStepStep == ASSUME TypeInv, RetryShardStep PROVE TypeInv' /\ Goes
<1>1. UNCHANGED <<online, capable, leaving, zombie, seen, draftAt, hold, kv, row, starts,
                  tainted>>
    BY DEF RetryShardStep, registryVars, outcomeVars
<1>2. pipe # None /\ PipeOK(pipe) /\ lines \in Queues /\ dispatch_shard_step(pipe, lines)
    BY DEF RetryShardStep, TypeInv
<1>3. /\ pipe' = pipe /\ lines' \in Queues /\ (shardAt' # None => shardAt' \in Places)
      /\ \A l : Within(l, lines') => Within(l, lines) \/ SentFor(pipe, l)
    BY <1>2, dispatch_shard_stepType
<1>4. LinesOld
    BY <1>1, <1>3 DEF LinesOld, SentFor
<1>5. HoldsOld /\ Move
  <2>1. HoldsOld
    BY <1>1 DEF HoldsOld
  <2> QED
    BY <1>1, <1>3, <2>1, SamePipe DEF Move
<1>6. TypeInv'
    BY <1>1, <1>2, <1>3 DEF TypeInv, PipeOK
<1> QED
    BY <1>1, <1>4, <1>5, <1>6 DEF Goes, RowOld, TaintStays

LEMMA RetryDraftStep == ASSUME TypeInv, RetryDraft PROVE TypeInv' /\ Goes
<1>1. UNCHANGED <<online, capable, leaving, zombie, seen, shardAt, hold, kv, row, starts,
                  tainted>>
    BY DEF RetryDraft, registryVars, outcomeVars
<1>2. pipe # None /\ PipeOK(pipe) /\ lines \in Queues /\ dispatch_draft(pipe, lines)
    BY DEF RetryDraft, TypeInv
<1>3. /\ PipeOK(pipe') /\ SameWork(pipe, pipe') /\ lines' \in Queues
      /\ draftAt' \in Wallets \cup {None}
      /\ \A l : Within(l, lines') /\ l.kind = "shard" => Within(l, lines)
    BY <1>2, dispatch_draftType
<1>4. LinesOld /\ HoldsOld
    BY <1>1, <1>3 DEF LinesOld, HoldsOld
<1>5. Move
    BY <1>1, <1>2, <1>3 DEF Move, Gone, Same
<1>6. TypeInv'
    BY <1>1, <1>3 DEF TypeInv
<1> QED
    BY <1>1, <1>4, <1>5, <1>6 DEF Goes, RowOld, TaintStays

-----------------------------------------------------------------------------
(* handle_shard_result                                                     *)

LEMMA TakeShardResultStep ==
    ASSUME TypeInv, NEW w \in Wallets, TakeShardResult(w) PROVE TypeInv' /\ Goes
<1> DEFINE line == Head(lines[w])
           mine == pipe # None /\ shardAt = [wallet |-> w, shard |-> line.shard]
           out == Output(kv[w][line.shard], line.input)
           new == [at |-> "apply", tag |-> line.tag, out |-> out, base |-> 0]
<1>1. UNCHANGED <<online, capable, leaving, zombie, seen, draftAt, row, starts, tainted>>
    BY DEF TakeShardResult, registryVars, outcomeVars, countVars, historyVars
<1>2. /\ lines[w] # <<>> /\ line.kind = "shard" /\ lines' = Popped(w)
      /\ kv' = [kv EXCEPT ![w][line.shard] = Feed(@, line.input)]
      /\ shardAt' = IF mine THEN None ELSE shardAt
      /\ hold' = IF mine THEN [hold EXCEPT ![w] = new] ELSE hold
      /\ pipe' = IF mine THEN [pipe EXCEPT !.contributions[w] = @ + 1] ELSE pipe
    BY DEF TakeShardResult, Reads
<1>3. /\ lines' \in Queues /\ line \in ShardLines /\ Within(line, lines)
      /\ \A l : Within(l, lines') => Within(l, lines)
    BY <1>2, PoppedType, ShardHead DEF TypeInv
<1>4. out \in Inputs /\ out.toks = line.input.toks /\ out.pass = line.input.pass
  <2>1. line.shard \in Shards /\ line.input \in Inputs
    BY <1>3 DEF ShardLines
  <2>2. kv[w][line.shard] \in Sessions
    BY <2>1 DEF TypeInv
  <2> QED
    BY <2>1, <2>2, OutputType
<1>5. new \in Holds /\ new.tag = line.tag /\ new.out = out /\ new.at = "apply"
    BY <1>3, <1>4 DEF Holds, ShardLines
<1>6. kv' \in [Wallets -> [Shards -> Sessions]]
    BY <1>2, <1>3, FedType
<1>7. LinesOld
    BY <1>3, SameLines
<1>8. pipe # None => PipeOK(pipe') /\ SameWork(pipe, pipe')
  <2> SUFFICES ASSUME pipe # None PROVE PipeOK(pipe') /\ SameWork(pipe, pipe')
    OBVIOUS
  <2>1. PipeOK(pipe)
    BY DEF TypeInv
  <2>2. CASE pipe' = pipe
    BY <2>1, <2>2 DEF SameWork
  <2>3. CASE pipe' = [pipe EXCEPT !.contributions[w] = @ + 1]
    <3>1. pipe.contributions \in Credits
      BY <2>1 DEF PipeOK, Pipes
    <3>2. [pipe.contributions EXCEPT ![w] = @ + 1] \in Credits
      BY <3>1 DEF Credits
    <3>3. pipe' = [pipe EXCEPT !.contributions = [pipe.contributions EXCEPT ![w] = @ + 1]]
      BY <2>1, <2>3 DEF PipeOK, Pipes
    <3>4. pipe' \in Pipes /\ SameWork(pipe, pipe') /\ pipe'.pending = pipe.pending
      BY <2>1, <3>2, <3>3 DEF PipeOK, Pipes, SameWork
    <3> QED
      BY <2>1, <3>4 DEF PipeOK, SameWork
  <2> QED
    BY <1>2, <2>2, <2>3
<1>9. pipe = None => pipe' = None
    BY <1>2
<1>10. HoldsOld /\ hold' \in [Wallets -> Holds \cup {None}]
  <2> HIDE DEF new, out, line
  <2>1. hold \in [Wallets -> Holds \cup {None}] /\ hold' \in {hold, [hold EXCEPT ![w] = new]}
    BY <1>2 DEF TypeInv
  <2>2. hold' \in [Wallets -> Holds \cup {None}]
    BY <1>5, <2>1
  <2>3. \A v \in Wallets : hold'[v] = hold[v] \/ hold'[v] = new
    BY <2>1
  <2> QED
    BY <1>2, <1>3, <1>4, <1>5, <2>2, <2>3 DEF HoldsOld
<1>11. shardAt' # None => shardAt' \in Places
    BY <1>2 DEF TypeInv
<1>12. TypeInv'
    BY <1>1, <1>3, <1>6, <1>8, <1>9, <1>10, <1>11 DEF TypeInv
<1>13. Move
    BY <1>1, <1>8, <1>9 DEF Move, Gone, Same
<1> QED
    BY <1>1, <1>7, <1>10, <1>12, <1>13 DEF Goes, RowOld, TaintStays

LEMMA ApplyLateStep ==
    ASSUME TypeInv, NEW w \in Wallets, ApplyLate(w) PROVE TypeInv' /\ Goes
<1>1. UNCHANGED <<online, capable, leaving, zombie, seen, pipe, shardAt, draftAt, lines, kv, row,
                  starts, tainted>>
    BY DEF ApplyLate, registryVars, outcomeVars, countVars, historyVars
<1>2. HoldsOld /\ Move /\ hold' \in [Wallets -> Holds \cup {None}]
    BY <1>1, SameHold, SamePipe DEF Move, ApplyLate, Done
<1>3. LinesOld
    BY <1>1 DEF LinesOld, Within
<1>4. TypeInv'
    BY <1>1, <1>2 DEF TypeInv, PipeOK
<1> QED
    BY <1>1, <1>2, <1>3, <1>4 DEF Goes, RowOld, TaintStays

\* The tag and the output of a result that is being handled.
LEMMA HoldType ==
    ASSUME TypeInv, NEW w \in Wallets, hold[w] # None
    PROVE  /\ hold[w] \in Holds /\ hold[w].out \in Inputs /\ hold[w].tag \in Tags
           /\ hold[w].out.toks \in Batches /\ hold[w].out.ctx \in Nat
BY DEF TypeInv, Holds, Inputs

LEMMA ApplyRelayStep ==
    ASSUME TypeInv, NEW w \in Wallets, ApplyRelay(w) PROVE TypeInv' /\ Goes
<1>1. UNCHANGED <<online, capable, leaving, zombie, seen, draftAt, kv, row, starts>>
    BY DEF ApplyRelay, registryVars, outcomeVars, countVars
<1> DEFINE p == [pipe EXCEPT !.pos = @ + 1, !.input = hold[w].out]
<1>2. /\ hold[w] # None /\ pipe # None /\ pipe.phase \in {"prompt", "verify"}
      /\ pipe.pos < NumShards /\ dispatch_shard_step(p, lines) /\ PipeOK(pipe)
      /\ lines \in Queues
    BY DEF ApplyRelay, Applies, Relaying, TypeInv
<1>3. hold[w].out \in Inputs
    BY <1>2, HoldType
<1>4. pipe.pos + 1 \in Shards
    BY <1>2, ConstAssumption DEF PipeOK, Pipes, Shards
<1>5. /\ p \in Pipes /\ p.input = hold[w].out /\ p.phase = pipe.phase /\ p.round = pipe.round
      /\ p.carry = pipe.carry /\ p.drafts = pipe.drafts /\ p.generated = pipe.generated
      /\ p.expected0 = pipe.expected0
    BY <1>2, <1>3, <1>4 DEF PipeOK, Pipes
<1> HIDE DEF p
<1>6. PipeOK(p)
    BY <1>2, <1>5 DEF PipeOK
<1>7. /\ pipe' = p /\ lines' \in Queues /\ (shardAt' # None => shardAt' \in Places)
      /\ \A l : Within(l, lines') => Within(l, lines) \/ SentFor(p, l)
    BY <1>2, <1>6, dispatch_shard_stepType
<1>8. HoldsOld /\ hold' \in [Wallets -> Holds \cup {None}]
    BY SameHold DEF ApplyRelay, Done
<1>9. LinesOld
    BY <1>1, <1>7 DEF LinesOld, SentFor
<1>10. TypeInv'
    BY <1>1, <1>6, <1>7, <1>8 DEF TypeInv
<1>11. ~tainted' => ~tainted /\ hold[w].tag = Tag(pipe)
    BY DEF ApplyRelay, Meant
<1>12. Move
    BY <1>1, <1>2, <1>5, <1>7, <1>11 DEF Move, Gone, Relayed
<1> QED
    BY <1>1, <1>8, <1>9, <1>10, <1>11, <1>12 DEF Goes, RowOld, TaintStays

LEMMA ApplyPromptStep ==
    ASSUME TypeInv, NEW w \in Wallets, ApplyPrompt(w) PROVE TypeInv' /\ Goes
<1>1. UNCHANGED <<online, capable, leaving, zombie, seen, pipe, shardAt, draftAt, lines, kv, row,
                  starts>>
    BY DEF ApplyPrompt, registryVars, outcomeVars, countVars
<1>2. hold[w] # None /\ hold[w] \in Holds
    BY HoldType DEF ApplyPrompt, Applies
<1>3. PICK base \in Nat : hold' = [hold EXCEPT ![w].at = "count", ![w].base = base]
    BY ConstAssumption DEF ApplyPrompt
<1> DEFINE new == [hold[w] EXCEPT !.at = "count", !.base = base]
<1>4. new \in Holds /\ new.tag = hold[w].tag /\ new.out = hold[w].out
    BY <1>2 DEF Holds
<1>5. hold' = [hold EXCEPT ![w] = new] /\ hold \in [Wallets -> Holds \cup {None}]
    BY <1>3 DEF TypeInv
<1> HIDE DEF new
<1>6. hold' \in [Wallets -> Holds \cup {None}]
      /\ \A v \in Wallets : hold'[v] = IF v = w THEN new ELSE hold[v]
    BY <1>4, <1>5
<1>7. ~tainted' => ~tainted /\ hold[w].out.clean
    BY DEF ApplyPrompt
<1>8. HoldsOld
    BY <1>2, <1>4, <1>6, <1>7 DEF HoldsOld
<1>9. LinesOld
    BY <1>1 DEF LinesOld, Within
<1>10. TypeInv'
    BY <1>1, <1>6 DEF TypeInv, PipeOK
<1> QED
    BY <1>1, <1>7, <1>8, <1>9, <1>10, SamePipe DEF Goes, RowOld, TaintStays, Move

LEMMA DropStep ==
    ASSUME TypeInv, NEW w \in Wallets, CountFails(w) \/ ApplyMalformed(w) PROVE TypeInv' /\ Goes
<1>1. /\ UNCHANGED <<online, capable, leaving, zombie, seen, shardAt, draftAt, lines, kv, row,
                     starts, tainted>>
      /\ pipe' = None
    BY DEF CountFails, ApplyMalformed, registryVars, outcomeVars, countVars, historyVars
<1>2. HoldsOld /\ hold' \in [Wallets -> Holds \cup {None}]
    BY SameHold DEF CountFails, ApplyMalformed, Done
<1>3. LinesOld
    BY <1>1 DEF LinesOld, Within
<1>4. TypeInv'
    BY <1>1, <1>2 DEF TypeInv
<1> QED
    BY <1>1, <1>2, <1>3, <1>4 DEF Goes, RowOld, TaintStays, Move, Gone

LEMMA ApplyPanicsStep ==
    ASSUME TypeInv, NEW w \in Wallets, ApplyPanics(w) PROVE TypeInv' /\ Goes
<1>1. UNCHANGED <<online, capable, leaving, seen, pipe, shardAt, draftAt, kv, row, starts,
                  tainted>>
    BY DEF ApplyPanics, outcomeVars
<1>2. HoldsOld /\ Move /\ hold' \in [Wallets -> Holds \cup {None}]
    BY <1>1, SameHold, SamePipe DEF Move, ApplyPanics, Done
<1>3. lines' \in Queues /\ LinesOld
    BY EmptiedType, SameLines DEF ApplyPanics, TypeInv
<1>4. zombie' \subseteq Wallets
    BY DEF ApplyPanics, TypeInv
<1>5. TypeInv'
    BY <1>1, <1>2, <1>3, <1>4 DEF TypeInv, PipeOK
<1> QED
    BY <1>1, <1>2, <1>3, <1>5 DEF Goes, RowOld, TaintStays

LEMMA CountDoneStep ==
    ASSUME TypeInv, NEW w \in Wallets, CountDone(w) PROVE TypeInv' /\ Goes
<1>1. UNCHANGED <<online, capable, leaving, zombie, seen, shardAt, kv, row, starts>>
    BY DEF CountDone, registryVars, outcomeVars, countVars
<1>2. HoldsOld /\ hold' \in [Wallets -> Holds \cup {None}]
    BY SameHold DEF CountDone, Done
<1>3. CASE pipe = None
  <2>1. UNCHANGED <<pipe, draftAt, lines, tainted>>
    BY <1>3 DEF CountDone
  <2>2. LinesOld
    BY <2>1 DEF LinesOld, Within
  <2>3. TypeInv'
    BY <1>1, <1>2, <2>1 DEF TypeInv, PipeOK
  <2> QED
    BY <1>1, <1>2, <2>1, <2>2, <2>3, SamePipe DEF Goes, RowOld, TaintStays, Move
<1>4. CASE pipe # None
  <2>1. PICK t0 \in Tokens :
          /\ hold[w].out.clean /\ hold[w].out.pass = "prompt" => Predicted(PromptLen, t0)
          /\ dispatch_draft([AwaitingDraft(pipe) EXCEPT !.base = hold[w].base,
                                                        !.expected0 = t0], lines)
    BY <1>4 DEF CountDone
  <2> DEFINE p == [AwaitingDraft(pipe) EXCEPT !.base = hold[w].base, !.expected0 = t0]
             q == AwaitingDraft(pipe)
  <2>2. hold[w] # None /\ hold[w].at = "count" /\ hold[w].base \in Nat
        /\ PipeOK(pipe) /\ lines \in Queues
    BY <1>4, HoldType DEF CountDone, TypeInv, Holds
  <2>3. /\ q \in Pipes /\ q.phase = "draft" /\ q.round = pipe.round /\ q.carry = pipe.carry
        /\ q.generated = pipe.generated
    BY <2>2, AwaitingDraftIs DEF PipeOK
  <2>4. p = [q EXCEPT !.base = hold[w].base, !.expected0 = t0]
    OBVIOUS
  <2> HIDE DEF p, q
  <2>5. /\ p \in Pipes /\ p.phase = "draft" /\ p.round = pipe.round /\ p.carry = pipe.carry
        /\ p.generated = pipe.generated /\ p.expected0 = t0
    BY <2>2, <2>3, <2>4 DEF Pipes
  <2>6. PipeOK(p)
    BY <2>2, <2>5 DEF PipeOK
  <2>7. /\ PipeOK(pipe') /\ SameWork(p, pipe') /\ lines' \in Queues
        /\ draftAt' \in Wallets \cup {None}
        /\ \A l : Within(l, lines') /\ l.kind = "shard" => Within(l, lines)
    BY <2>1, <2>2, <2>6, dispatch_draftType DEF p
  <2>8. LinesOld
    BY <2>7 DEF LinesOld
  <2>9. TypeInv'
    BY <1>1, <1>2, <2>7 DEF TypeInv
  <2>10. ~tainted' => ~tainted /\ hold[w].tag = Tag(pipe) /\ pipe.phase = "prompt"
    BY <1>4 DEF CountDone, Meant
  <2>11. pipe' = None \/ Counted
    BY <1>1, <1>4, <2>1, <2>2, <2>5, <2>7, <2>10 DEF Counted, SameWork
  <2> QED
    BY <1>1, <1>2, <2>8, <2>9, <2>10, <2>11 DEF Goes, RowOld, TaintStays, Move, Gone
<1> QED
    BY <1>3, <1>4

LEMMA OneToken ==
    ASSUME NEW s \in Seq(Tokens), s # <<>>, Len(s) <= 1 PROVE Len(s) = 1 /\ s = <<s[1]>>
<1>1. Len(s) \in Nat \ {0}
    BY EmptySeq
<1> DEFINE n == Len(s)
<1>2. n \in Nat /\ n # 0 /\ n <= 1
    BY <1>1
<1> HIDE DEF n
<1>3. n = 1
    BY <1>2
<1> QED
    BY <1>3 DEF n

\* What is expected at a candidate, and after the last, is a token.
LEMMA ExpectedType ==
    ASSUME NEW p, PipeOK(p), NEW out \in Inputs, Len(out.toks) = Len(p.drafts) + Len(p.carry),
           NEW logits \in Logits(out), NEW i \in 1 .. Len(p.drafts) + 1
    PROVE  Expected(p, logits, i) \in Tokens
<1>1. logits \in [1 .. Len(out.toks) -> Tokens]
    BY DEF Logits
<1>2. /\ p.expected0 \in Tokens /\ p.drafts \in Seq(Tokens) /\ p.carry \in Seq(Tokens)
      /\ Len(p.carry) <= 1
    BY DEF PipeOK, Pipes, Batches
<1>3. CASE p.carry # <<>>
  <2>1. Len(p.carry) = 1
    BY <1>2, <1>3, OneToken
  <2> QED
    BY <1>1, <1>2, <1>3, <2>1 DEF Expected
<1>4. CASE p.carry = <<>>
  <2>1. Len(p.carry) = 0
    BY <1>4
  <2>2. CASE i = 1
    BY <1>2, <1>4, <2>2 DEF Expected
  <2>3. CASE i # 1
    <3>1. i - 1 \in 1 .. Len(out.toks)
      BY <1>2, <2>1, <2>3
    <3> QED
      BY <1>1, <1>4, <2>3, <3>1 DEF Expected
  <2> QED
    BY <2>2, <2>3
<1> QED
    BY <1>3, <1>4

LEMMA ApplyVerifyStep ==
    ASSUME TypeInv, NEW w \in Wallets, ApplyVerify(w) PROVE TypeInv' /\ Goes
<1>1. UNCHANGED <<online, capable, leaving, zombie, seen, shardAt, draftAt, kv, row, starts>>
    BY DEF ApplyVerify, registryVars, outcomeVars, countVars
<1>2. HoldsOld /\ hold' \in [Wallets -> Holds \cup {None}]
    BY SameHold DEF ApplyVerify, Done
<1>3. /\ hold[w] # None /\ pipe # None /\ pipe.phase = "verify" /\ PipeOK(pipe)
      /\ lines \in Queues /\ Len(hold[w].out.toks) = Len(pipe.drafts) + Len(pipe.carry)
    BY DEF ApplyVerify, Applies, Relaying, TypeInv
<1>4. hold[w].out \in Inputs
    BY <1>3, HoldType
<1>5. PICK logits \in Logits(hold[w].out), n \in 0 .. Len(pipe.drafts) :
        /\ greedy_verify_round(pipe, logits, n)
        /\ begin_rollback([pipe EXCEPT
                !.generated = @ \o SubSeq(pipe.drafts, 1, n)
                                \o <<Expected(pipe, logits, n + 1)>>,
                !.accepted = n, !.settle = Expected(pipe, logits, n + 1),
                !.keep = kv_keep_len(pipe, n), !.final = IsFinalizing(pipe, n)], lines)
    BY DEF ApplyVerify
<1> DEFINE settle == Expected(pipe, logits, n + 1)
           gen == pipe.generated \o SubSeq(pipe.drafts, 1, n) \o <<settle>>
           p == [pipe EXCEPT !.generated = gen, !.accepted = n, !.settle = settle,
                             !.keep = kv_keep_len(pipe, n), !.final = IsFinalizing(pipe, n)]
<1>6. begin_rollback(p, lines)
    BY <1>5
<1>7. /\ pipe.drafts \in Seq(Tokens) /\ pipe.generated \in Seq(Tokens)
      /\ pipe.carry \in Seq(Tokens) /\ pipe.base \in Nat
    BY <1>3 DEF PipeOK, Pipes, Batches
<1>8. settle \in Tokens
  <2>1. n + 1 \in 1 .. Len(pipe.drafts) + 1
    BY <1>5, <1>7
  <2> QED
    BY <1>3, <1>4, <2>1, ExpectedType
<1> HIDE DEF settle
<1>9. gen \in Batches /\ Len(gen) >= 1 /\ Len(gen) >= Len(pipe.generated)
    BY <1>5, <1>7, <1>8 DEF Batches
<1>10. n \in Nat /\ kv_keep_len(pipe, n) \in Nat /\ IsFinalizing(pipe, n) \in BOOLEAN
    BY <1>5, <1>7, ConstAssumption DEF kv_keep_len, IsFinalizing
<1> HIDE DEF gen
<1>11. /\ p \in Pipes /\ p.carry = pipe.carry /\ p.generated = gen /\ p.settle = settle
       /\ p.round = pipe.round
  <2> DEFINE a == [pipe EXCEPT !.generated = gen, !.accepted = n, !.settle = settle]
  <2>1. a \in Pipes /\ a.carry = pipe.carry /\ a.generated = gen /\ a.settle = settle
        /\ a.round = pipe.round
    BY <1>3, <1>8, <1>9, <1>10 DEF PipeOK, Pipes
  <2>2. p = [a EXCEPT !.keep = kv_keep_len(pipe, n), !.final = IsFinalizing(pipe, n)]
    OBVIOUS
  <2> HIDE DEF a, p
  <2> QED
    BY <1>10, <2>1, <2>2 DEF Pipes
<1> HIDE DEF p
<1>12. Len(p.carry) <= 1 /\ Len(p.carry) <= Len(p.generated)
    BY <1>3, <1>7, <1>9, <1>11 DEF PipeOK, Batches
<1>13. /\ PipeOK(pipe') /\ pipe'.phase = "rollback"
       /\ pipe'.round = p.round /\ pipe'.settle = p.settle
       /\ pipe'.generated = p.generated
       /\ lines' \in Queues
       /\ \A l : Within(l, lines') /\ l.kind = "shard" => Within(l, lines)
    BY <1>3, <1>6, <1>8, <1>9, <1>11, <1>12, begin_rollbackType
<1>14. LinesOld
    BY <1>13 DEF LinesOld
<1>15. TypeInv'
    BY <1>1, <1>2, <1>13 DEF TypeInv
<1>16. ~tainted' => /\ ~tainted /\ hold[w].tag = Tag(pipe) /\ hold[w].out.clean
                    /\ hold[w].out.ctx + Len(pipe.carry) = PromptLen + Len(pipe.generated)
    BY DEF ApplyVerify, Meant
<1>17. pipe' = None \/ Verified
  <2>1. pipe'.settle = Expected(pipe, logits, n + 1)
    BY <1>11, <1>13 DEF settle
  <2>2. pipe'.generated = pipe.generated \o SubSeq(pipe.drafts, 1, n) \o <<pipe'.settle>>
    BY <1>11, <1>13 DEF gen
  <2> QED
    BY <1>1, <1>3, <1>5, <1>11, <1>13, <1>16, <2>1, <2>2 DEF Verified
<1> QED
    BY <1>1, <1>2, <1>14, <1>15, <1>16, <1>17 DEF Goes, RowOld, TaintStays, Move, Gone

-----------------------------------------------------------------------------
(* handle_draft_result and handle_kv_rollback_ack                          *)

LEMMA ProposalsType ==
    ASSUME NEW k \in Nat, NEW d \in Proposals(k) PROVE d \in Batches /\ d # <<>>
<1>1. Min({k, MaxDraft}) \in Nat
    BY MinPair, ConstAssumption
<1>2. PICK n \in 1 .. Min({k, MaxDraft}) : d \in [1 .. n -> Tokens]
    BY DEF Proposals
<1>3. n \in Nat /\ n >= 1
    BY <1>1, <1>2
<1>4. d \in Seq(Tokens) /\ 1 \in DOMAIN d
    BY <1>2, <1>3
<1> QED
    BY <1>4 DEF Batches

\* The pipeline once the candidates d have arrived.
Batched(r, d) ==
    [AwaitingDraft(r) EXCEPT !.phase = "verify", !.round = @ + 1, !.drafts = d,
                             !.input = RawInput("verify", r.carry \o d)]

LEMMA BatchedIs ==
    ASSUME NEW r, PipeOK(r), NEW d \in Batches, d # <<>>, NEW p, p = Batched(r, d)
    PROVE  /\ PipeOK(p) /\ p.phase = "verify" /\ p.pos = 1 /\ p.round = r.round + 1
           /\ p.drafts = d /\ p.carry = r.carry /\ p.input = RawInput("verify", r.carry \o d)
           /\ p.generated = r.generated /\ p.expected0 = r.expected0 /\ p.base = r.base
           /\ p.draft_wallet = r.draft_wallet /\ p.input.toks = r.carry \o d
<1> DEFINE q == AwaitingDraft(r)
           input == RawInput("verify", r.carry \o d)
           a == [q EXCEPT !.phase = "verify", !.round = @ + 1]
<1>1. r \in Pipes /\ r.carry \in Batches /\ r.round \in Nat
    BY DEF PipeOK, Pipes
<1>2. r.carry \o d \in Batches
    BY <1>1 DEF Batches
<1>3. input \in Inputs /\ input.toks = r.carry \o d
    BY <1>2, RawInputType
<1>4. /\ q \in Pipes /\ q.round = r.round /\ q.carry = r.carry
      /\ q.generated = r.generated /\ q.expected0 = r.expected0
    BY <1>1, AwaitingDraftIs
<1>5. q.pos = 1 /\ q.base = r.base /\ q.draft_wallet = r.draft_wallet
    BY <1>1 DEF Pipes, AwaitingDraft
<1>6. p = [a EXCEPT !.drafts = d, !.input = input]
    BY DEF Batched
<1> HIDE DEF q, input
<1>7. /\ a \in Pipes /\ a.phase = "verify" /\ a.round = r.round + 1
      /\ a.carry = r.carry /\ a.generated = r.generated /\ a.expected0 = r.expected0
      /\ a.pos = 1 /\ a.base = r.base /\ a.draft_wallet = r.draft_wallet
  <2>1. q.round + 1 \in Nat
    BY <1>1, <1>4
  <2>2. /\ a.phase = "verify" /\ a.round = q.round + 1 /\ a.carry = q.carry
        /\ a.generated = q.generated /\ a.expected0 = q.expected0
        /\ a.pos = q.pos /\ a.base = q.base /\ a.draft_wallet = q.draft_wallet
    BY <1>4 DEF Pipes
  <2>3. a \in Pipes
    BY <1>4, <2>1 DEF Pipes
  <2> QED
    BY <1>4, <1>5, <2>2, <2>3
<1> HIDE DEF a
<1>8. /\ p \in Pipes /\ p.phase = "verify" /\ p.pos = 1 /\ p.round = r.round + 1
      /\ p.drafts = d /\ p.carry = r.carry /\ p.input = input
      /\ p.generated = r.generated /\ p.expected0 = r.expected0 /\ p.base = r.base
      /\ p.draft_wallet = r.draft_wallet
    BY <1>3, <1>6, <1>7 DEF Pipes
<1>9. PipeOK(p)
    BY <1>8 DEF PipeOK
<1> QED
    BY <1>3, <1>8, <1>9 DEF input

LEMMA handle_draft_resultStep ==
    ASSUME TypeInv, NEW w \in Wallets, handle_draft_result(w) PROVE TypeInv' /\ Goes
<1>1. UNCHANGED <<online, capable, leaving, zombie, seen, hold, kv, row, starts>>
    BY DEF handle_draft_result, registryVars, outcomeVars
<1>2. HoldsOld
    BY <1>1 DEF HoldsOld
<1>3. /\ lines[w] # <<>> /\ Head(lines[w]).kind = "draft" /\ lines \in Queues
    BY DEF handle_draft_result, Reads, TypeInv
<1>4. /\ Popped(w) \in Queues /\ Head(lines[w]) \in AllLines
      /\ \A l : Within(l, Popped(w)) => Within(l, lines)
    BY <1>3, PoppedType
<1>5. CASE /\ lines' = Popped(w) /\ draftAt' \in {draftAt, None}
           /\ UNCHANGED <<pipe, shardAt, tainted>>
  <2>1. LinesOld
    BY <1>4, <1>5, SameLines
  <2>2. TypeInv'
    BY <1>1, <1>4, <1>5 DEF TypeInv, PipeOK
  <2> QED
    BY <1>1, <1>2, <1>5, <2>1, <2>2, SamePipe DEF Goes, RowOld, TaintStays, Move
<1>6. ASSUME pipe # None, draftAt' = None, NEW d \in Proposals(Head(lines[w]).k),
             dispatch_shard_step(
                [AwaitingDraft(pipe) EXCEPT
                    !.phase = "verify", !.round = @ + 1, !.drafts = d,
                    !.input = RawInput("verify", pipe.carry \o d)], Popped(w)),
             tainted' = (tainted \/ pipe.phase # "draft")
      PROVE  TypeInv' /\ Goes
  <2> DEFINE p == Batched(pipe, d)
  <2>1. Head(lines[w]).k \in Nat
    BY <1>3, <1>4 DEF AllLines, ShardLines, DraftLines, RollbackLines
  <2>2. d \in Batches /\ d # <<>>
    BY <2>1, ProposalsType
  <2>3. PipeOK(pipe)
    BY <1>6 DEF TypeInv
  <2>4. dispatch_shard_step(p, Popped(w))
    BY <1>6 DEF Batched
  <2>5. /\ p.phase = "verify" /\ p.round = pipe.round + 1 /\ p.drafts = d
        /\ p.input.toks = pipe.carry \o d /\ p.carry = pipe.carry
        /\ p.generated = pipe.generated /\ p.expected0 = pipe.expected0
        /\ PipeOK(p)
    BY <2>2, <2>3, BatchedIs
  <2> HIDE DEF p
  <2>6. /\ pipe' = p /\ lines' \in Queues /\ (shardAt' # None => shardAt' \in Places)
         /\ \A l : Within(l, lines') => Within(l, Popped(w)) \/ SentFor(p, l)
    BY <1>4, <2>4, <2>5, dispatch_shard_stepType
  <2>7. LinesOld
    BY <1>1, <1>4, <2>6 DEF LinesOld, SentFor
  <2>8. TypeInv'
    BY <1>1, <1>6, <2>5, <2>6 DEF TypeInv
  <2>9. ~tainted' => ~tainted /\ pipe.phase = "draft"
    BY <1>6
  <2>10. pipe' = None \/ Drafted
    BY <1>1, <1>6, <2>5, <2>6, <2>9 DEF Drafted
  <2> QED
    BY <1>1, <1>2, <2>7, <2>8, <2>9, <2>10 DEF Goes, RowOld, TaintStays, Move, Gone
<1> QED
    BY <1>5, <1>6 DEF handle_draft_result

LEMMA NextRoundType ==
    ASSUME NEW p \in Pipes, p.settle \in Tokens, Len(p.generated) >= 1
    PROVE  /\ PipeOK(NextRound(p)) /\ NextRound(p).phase = "draft"
           /\ NextRound(p).round = p.round /\ NextRound(p).carry = <<p.settle>>
           /\ NextRound(p).generated = p.generated
<1> DEFINE q == AwaitingDraft(p)
           n == NextRound(p)
<1>1. /\ q \in Pipes /\ q.phase = "draft" /\ q.round = p.round /\ q.generated = p.generated
    BY AwaitingDraftIs
<1>2. n = [q EXCEPT !.base = p.keep, !.carry = <<p.settle>>, !.expected0 = p.settle,
                    !.k = next_k(p)]
    BY DEF NextRound
<1>3. p.keep \in Nat /\ next_k(p) \in 2 .. 8 /\ <<p.settle>> \in Batches
      /\ Len(<<p.settle>>) = 1
    BY NextKType DEF Pipes, Batches
<1> HIDE DEF q, n
<1>4. n \in Pipes /\ n.phase = "draft" /\ n.round = p.round /\ n.carry = <<p.settle>>
      /\ n.generated = p.generated
    BY <1>1, <1>2, <1>3 DEF Pipes
<1>5. PipeOK(n)
    BY <1>3, <1>4 DEF PipeOK
<1> QED
    BY <1>4, <1>5 DEF n

LEMMA handle_kv_rollback_ackStep ==
    ASSUME TypeInv, NEW w \in Wallets, handle_kv_rollback_ack(w) PROVE TypeInv' /\ Goes
<1> DEFINE line == Head(lines[w])
           s == line.shard
           p == [pipe EXCEPT !.pending = @ \ {s}]
<1>1. UNCHANGED <<online, capable, leaving, zombie, seen, shardAt, hold, starts, tainted>>
    BY DEF handle_kv_rollback_ack, registryVars, countVars, historyVars
<1>2. HoldsOld
    BY <1>1 DEF HoldsOld
<1>3. lines[w] # <<>> /\ line.kind = "rollback" /\ lines \in Queues
    BY DEF handle_kv_rollback_ack, Reads, TypeInv
<1>4. /\ Popped(w) \in Queues /\ line \in AllLines
      /\ \A l : Within(l, Popped(w)) => Within(l, lines)
    BY <1>3, PoppedType
<1>5. line \in RollbackLines /\ s \in Shards \cup {DraftSession}
    BY <1>3, <1>4 DEF AllLines, ShardLines, DraftLines, RollbackLines
<1>6. kv' \in [Wallets -> [Shards -> Sessions]]
  <2>1. kv' = IF s = DraftSession THEN kv ELSE [kv EXCEPT ![w][s] = Truncate(@, line)]
    BY DEF handle_kv_rollback_ack
  <2>2. CASE s = DraftSession
    BY <2>1, <2>2 DEF TypeInv
  <2>3. CASE s # DraftSession
    <3>1. s \in Shards
      BY <1>5, <2>3
    <3>2. kv[w] \in [Shards -> Sessions] /\ kv[w][s] \in Sessions
      BY <3>1 DEF TypeInv
    <3>3. Truncate(kv[w][s], line) \in Sessions
      BY <1>5, <3>2, TruncateType
    <3> HIDE DEF s, line
    <3> QED
      BY <2>1, <2>3, <3>1, <3>2, <3>3 DEF TypeInv
  <2> QED
    BY <2>2, <2>3
<1>7. pipe # None =>
        /\ p \in Pipes /\ SameWork(pipe, p) /\ p.pending = pipe.pending \ {s}
  <2> HIDE DEF s, line
  <2> SUFFICES ASSUME pipe # None
               PROVE  p \in Pipes /\ SameWork(pipe, p) /\ p.pending = pipe.pending \ {s}
    OBVIOUS
  <2>1. pipe \in Pipes /\ pipe.pending \ {s} \in Pendings
    BY DEF TypeInv, PipeOK, Pipes, Pendings
  <2> QED
    BY <2>1 DEF Pipes, SameWork
<1>8. \/ UNCHANGED <<pipe, draftAt, row>> /\ lines' = Popped(w)
      \/ RollingBack /\ p.pending # {} /\ pipe' = p /\ lines' = Popped(w)
         /\ UNCHANGED <<draftAt, row>>
      \/ RollingBack /\ finalize_pipeline(p) /\ lines' = Popped(w) /\ UNCHANGED draftAt
      \/ RollingBack /\ dispatch_draft(NextRound(p), Popped(w)) /\ UNCHANGED row
    BY DEF handle_kv_rollback_ack, outcomeVars
<1> HIDE DEF p, s, line
<1>9. CASE UNCHANGED <<pipe, draftAt, row>> /\ lines' = Popped(w)
  <2>1. TypeInv'
    BY <1>1, <1>4, <1>6, <1>9 DEF TypeInv, PipeOK
  <2> QED
    BY <1>1, <1>2, <1>4, <1>9, <2>1, SameLines, SamePipe DEF Goes, RowOld, TaintStays, Move
<1>10. CASE RollingBack /\ p.pending # {} /\ pipe' = p /\ lines' = Popped(w)
            /\ UNCHANGED <<draftAt, row>>
  <2>1. pipe # None /\ PipeOK(pipe)
    BY <1>10 DEF RollingBack, TypeInv
  <2>2. PipeOK(pipe')
    BY <1>7, <1>10, <2>1 DEF PipeOK, SameWork
  <2>3. TypeInv'
    BY <1>1, <1>4, <1>6, <1>10, <2>2 DEF TypeInv
  <2>4. pipe' = None \/ Same
    BY <1>1, <1>7, <1>10, <2>1 DEF Same
  <2> QED
    BY <1>1, <1>2, <1>4, <1>10, <2>3, <2>4, SameLines DEF Goes, RowOld, TaintStays, Move, Gone
<1>11. CASE RollingBack /\ finalize_pipeline(p) /\ lines' = Popped(w) /\ UNCHANGED draftAt
  <2>1. pipe # None /\ pipe' = None
    BY <1>11 DEF RollingBack, finalize_pipeline
  <2>2. RowOld
    <3>1. p.generated = pipe.generated
      BY <1>7, <2>1 DEF SameWork
    <3>2. CASE UNCHANGED row
      BY <3>2 DEF RowOld
    <3>3. ASSUME NEW v, row' = [wallet |-> v, tokens |-> p.generated, clean |-> ~tainted]
          PROVE  RowOld
      BY <2>1, <3>1, <3>3 DEF RowOld
    <3> QED
      BY <1>11, <3>2, <3>3 DEF finalize_pipeline
  <2>3. TypeInv'
    BY <1>1, <1>4, <1>6, <1>11, <2>1 DEF TypeInv
  <2> QED
    BY <1>1, <1>2, <1>4, <1>11, <2>1, <2>2, <2>3, SameLines DEF Goes, TaintStays, Move, Gone
<1>12. CASE RollingBack /\ dispatch_draft(NextRound(p), Popped(w)) /\ UNCHANGED row
  <2>1. /\ pipe # None /\ PipeOK(pipe) /\ pipe.phase = "rollback"
        /\ p \in Pipes /\ p.settle = pipe.settle /\ p.generated = pipe.generated
        /\ p.round = pipe.round /\ p.settle \in Tokens /\ Len(p.generated) >= 1
    BY <1>7, <1>12 DEF RollingBack, TypeInv, PipeOK, SameWork
  <2>2. /\ PipeOK(NextRound(p)) /\ NextRound(p).phase = "draft"
        /\ NextRound(p).round = p.round /\ NextRound(p).carry = <<p.settle>>
        /\ NextRound(p).generated = p.generated
    BY <2>1, NextRoundType
  <2>3. /\ PipeOK(pipe') /\ SameWork(NextRound(p), pipe') /\ lines' \in Queues
        /\ draftAt' \in Wallets \cup {None}
        /\ \A l : Within(l, lines') /\ l.kind = "shard" => Within(l, Popped(w))
    BY <1>4, <1>12, <2>2, dispatch_draftType
  <2>4. TypeInv'
    BY <1>1, <1>6, <2>3 DEF TypeInv
  <2>5. LinesOld
    BY <1>4, <2>3 DEF LinesOld
  <2>6. pipe' = None \/ Settled
    BY <1>1, <2>1, <2>2, <2>3 DEF Settled, SameWork
  <2> QED
    BY <1>1, <1>2, <1>12, <2>4, <2>5, <2>6 DEF Goes, RowOld, TaintStays, Move, Gone
<1> QED
    BY <1>8, <1>9, <1>10, <1>11, <1>12

-----------------------------------------------------------------------------
LEMMA TypeInit == Init => TypeInv
<1> SUFFICES ASSUME Init PROVE TypeInv
    OBVIOUS
<1>1. lines \in Queues /\ hold \in [Wallets -> Holds \cup {None}]
    BY DEF Init, Queues
<1>2. [len |-> 0, good |-> 0] \in Sessions
    BY DEF Sessions
<1>3. kv \in [Wallets -> [Shards -> Sessions]]
    BY <1>2 DEF Init
<1> QED
    BY <1>1, <1>3, ConstAssumption DEF Init, TypeInv

LEMMA NextGoes == TypeInv /\ Next => TypeInv' /\ Goes
BY RegisterStep, MarkDraftCapableStep, LeaveStep, on_disconnectStep, start_pipelineStep,
   RetryShardStepStep, RetryDraftStep, TakeShardResultStep, ApplyLateStep, ApplyRelayStep,
   ApplyPromptStep, DropStep, ApplyPanicsStep, CountDoneStep, ApplyVerifyStep,
   handle_draft_resultStep, handle_kv_rollback_ackStep
   DEF Next, Tick, Handler, Answer

LEMMA TypeStep == TypeInv /\ [Next]_vars => TypeInv'
<1>1. TypeInv /\ UNCHANGED vars => TypeInv'
    BY DEF TypeInv, PipeOK, vars, registryVars, outcomeVars, countVars, historyVars
<1> QED
    BY <1>1, NextGoes

\* Every variable of the speculative engine keeps its type: k stays within its
\* limits, the relay within the shards, a verify phase has candidates, a
\* rollback somebody to wait for, and no more is carried than was generated.
THEOREM TypeCorrect == Spec => []TypeOK
BY TypeInit, TypeStep, TypeInvImplies, PTL DEF Spec

-----------------------------------------------------------------------------
(* A round keeps to the target                                             *)

\* The tokens are those the target would decode.
Agrees(toks) == \A i \in DOMAIN toks : i \in DOMAIN Greedy => toks[i] = Greedy[i]

\* What a round goes out from: the output so far, and either its last token
\* carried or the prediction that follows the prompt.
Anchored(p) ==
    /\ Agrees(p.generated)
    /\ p.carry = <<>> => p.generated = <<>> /\ Predicted(PromptLen, p.expected0)
    /\ p.carry # <<>> => /\ Len(p.generated) >= 1
                         /\ p.carry = <<p.generated[Len(p.generated)]>>

LEMMA OnPathIs ==
    ASSUME NEW position \in Nat, NEW i \in Nat, position = PromptLen + i, NEW tok
    PROVE  OnPath(position, tok) <=> i >= 1 /\ (i \in DOMAIN Greedy => tok = Greedy[i])
<1>1. PromptLen \in Nat
    BY ConstAssumption
<1>2. position - PromptLen = i /\ (position > PromptLen <=> i >= 1)
    BY <1>1
<1> QED
    BY <1>2 DEF OnPath

LEMMA Joined ==
    ASSUME NEW s \in Seq(Tokens), NEW t \in Seq(Tokens)
    PROVE  /\ s \o t \in Seq(Tokens) /\ Len(s \o t) = Len(s) + Len(t)
           /\ \A i \in 1 .. Len(s) : (s \o t)[i] = s[i]
           /\ \A i \in 1 .. Len(t) : (s \o t)[Len(s) + i] = t[i]
<1> DEFINE m == Len(s)
           n == Len(t)
           u == s \o t
<1>1. u \in Seq(Tokens) /\ Len(u) = m + n /\ m \in Nat /\ n \in Nat
    OBVIOUS
<1>2. \A i \in 1 .. m + n : u[i] = IF i <= m THEN s[i] ELSE t[i - m]
    BY ConcatProperties
<1> HIDE DEF m, n, u
<1>3. \A i \in 1 .. n : m + i \in 1 .. m + n /\ ~(m + i <= m) /\ (m + i) - m = i
    BY <1>1
<1>4. \A i \in 1 .. m : i \in 1 .. m + n /\ i <= m
    BY <1>1
<1>5. (\A i \in 1 .. m : u[i] = s[i]) /\ \A i \in 1 .. n : u[m + i] = t[i]
    BY <1>2, <1>3, <1>4
<1> QED
    BY <1>1, <1>5 DEF m, n, u

\* A round of greedy_verify_round: g tokens of output, c carried ones, d
\* candidates, of which n are what E expects.
Accepting(g, c, d, n, ctx, toks, drafts, logits, E, e0) ==
    /\ g \in Nat /\ c \in 0 .. 1 /\ d \in Nat /\ n \in 0 .. d /\ ctx \in Nat
    /\ ctx + c = PromptLen + g
    /\ \A j \in 1 .. d : toks[c + j] = drafts[j]
    /\ c = 1 => g >= 1 /\ (g \in DOMAIN Greedy => toks[1] = Greedy[g])
    /\ c = 0 => g = 0 /\ Predicted(PromptLen, e0)
    /\ \A i \in 1 .. c + d : PathUpTo(ctx, toks, i) => Predicted(ctx + i, logits[i])
    /\ c = 1 => \A i \in 1 .. n + 1 : E[i] = logits[i]
    /\ c = 0 => E[1] = e0 /\ \A i \in 2 .. n + 1 : E[i] = logits[i - 1]
    /\ \A i \in 1 .. n : drafts[i] = E[i]

\* The accept loop, by the least position at which E would leave the target's
\* path: up to there the batch is on the path, so what the position is compared
\* with is the target's own prediction.
LEMMA AcceptLoop ==
    ASSUME NEW g, NEW c, NEW d, NEW n, NEW ctx, NEW toks, NEW drafts, NEW logits, NEW E, NEW e0,
           Accepting(g, c, d, n, ctx, toks, drafts, logits, E, e0)
    PROVE  \A m \in 1 .. n + 1 : g + m \in DOMAIN Greedy => E[m] = Greedy[g + m]
<1> USE DEF Accepting
<1>0. g \in Nat /\ c \in Nat /\ d \in Nat /\ n \in Nat /\ n <= d /\ ctx \in Nat
      /\ (c = 0 \/ c = 1) /\ ctx + c = PromptLen + g
    OBVIOUS
<1> DEFINE T == {i \in 1 .. n + 1 : g + i \in DOMAIN Greedy /\ E[i] # Greedy[g + i]}
<1>1. DOMAIN Greedy = 1 .. Len(Greedy) /\ Len(Greedy) \in Nat /\ PromptLen \in Nat
    BY ConstAssumption
<1> SUFFICES ASSUME T # {} PROVE FALSE
    OBVIOUS
<1>2. PICK k \in T : \A y \in T : k <= y
  <2>1. T \in SUBSET Nat
    OBVIOUS
  <2> HIDE DEF T
  <2> QED
    BY <2>1, LeastNat
<1>3. k \in 1 .. n + 1 /\ g + k <= Len(Greedy) /\ E[k] # Greedy[g + k]
    BY <1>1, <1>2
<1>4. ASSUME NEW j \in 1 .. k - 1 PROVE drafts[j] = Greedy[g + j]
  <2>1. j \in 1 .. n + 1 /\ j \in 1 .. n /\ ~(k <= j) /\ g + j \in DOMAIN Greedy
    BY <1>1, <1>3
  <2>2. j \notin T
    BY <1>2, <2>1
  <2>3. E[j] = Greedy[g + j]
    BY <2>1, <2>2
  <2> QED
    BY <2>1, <2>3
<1>5. ASSUME NEW j \in 1 .. c + k - 1 PROVE OnPath(ctx + j, toks[j])
  <2>1. CASE j <= c
    <3>1. j = 1 /\ c = 1 /\ g >= 1
      BY <1>3, <2>1
    <3>2. g \in DOMAIN Greedy /\ g <= Len(Greedy)
      BY <1>1, <1>3, <3>1
    <3>3. ctx + j = PromptLen + g /\ ctx + j \in Nat
      BY <1>1, <3>1
    <3>4. toks[j] = Greedy[g]
      BY <3>1, <3>2
    <3> QED
      BY <3>1, <3>2, <3>3, <3>4, OnPathIs
  <2>2. CASE j > c
    <3>1. j - c \in 1 .. k - 1 /\ j - c \in 1 .. d /\ c + (j - c) = j
      BY <1>3, <2>2
    <3>2. toks[j] = drafts[j - c]
      BY <3>1
    <3>3. drafts[j - c] = Greedy[g + (j - c)]
      BY <1>4, <3>1
    <3>4. PICK x \in Nat : x = g + (j - c)
      BY <3>1
    <3>5. ctx + j = PromptLen + x /\ ctx + j \in Nat /\ x >= 1 /\ x <= Len(Greedy)
      BY <1>1, <1>3, <3>1, <3>4
    <3>6. toks[j] = Greedy[x]
      BY <3>2, <3>3, <3>4
    <3> QED
      BY <3>5, <3>6, OnPathIs
  <2> QED
    BY <2>1, <2>2
<1>6. ASSUME NEW i \in 1 .. c + d, i = c + k - 1 PROVE logits[i] = Greedy[g + k]
  <2>1. PathUpTo(ctx, toks, i)
    BY <1>5, <1>6 DEF PathUpTo
  <2>2. Predicted(ctx + i, logits[i])
    BY <2>1
  <2>3. g + k \in DOMAIN Greedy
    BY <1>1, <1>3, <1>6
  <2>4. OnPath(ctx + i + 1, logits[i])
    BY <2>2 DEF Predicted
  <2>5. ctx + i + 1 = PromptLen + (g + k) /\ ctx + i + 1 \in Nat /\ g + k \in Nat
    <3>1. k \in Nat /\ i \in Nat /\ i + 1 = c + k
      BY <1>0, <1>3, <1>6
    <3>2. \A u, v, x, y, z \in Nat :
                u + v = x + y /\ z + 1 = v + k => u + z + 1 = x + (y + k)
      BY <3>1
    <3> HIDE DEF Accepting, T
    <3> QED
      BY <1>0, <1>1, <3>1, <3>2
  <2> QED
    BY <2>3, <2>4, <2>5, OnPathIs
<1>7. CASE c = 1
  <2>1. k \in 1 .. c + d /\ k = c + k - 1
    BY <1>3, <1>7
  <2>2. E[k] = logits[k]
    BY <1>3, <1>7
  <2> QED
    BY <1>3, <1>6, <2>1, <2>2
<1>8. CASE c = 0 /\ k = 1
  <2>1. 1 \in DOMAIN Greedy /\ g + k = 1 /\ PromptLen + 1 \in Nat
    BY <1>1, <1>3, <1>8
  <2>2. OnPath(PromptLen + 1, e0)
    BY <1>8 DEF Predicted
  <2>3. e0 = Greedy[1]
    BY <2>1, <2>2, OnPathIs
  <2> QED
    BY <1>3, <1>8, <2>1, <2>3
<1>9. CASE c = 0 /\ k # 1
  <2>1. k - 1 \in 1 .. c + d /\ k - 1 = c + k - 1 /\ k \in 2 .. n + 1
    BY <1>3, <1>9
  <2>2. E[k] = logits[k - 1]
    BY <1>9, <2>1
  <2> QED
    BY <1>3, <1>6, <2>1, <2>2
<1> QED
    BY <1>7, <1>8, <1>9

\* out is gen, n of the drafts and the settling token.
Settles(out, gen, drafts, n, settle) ==
    /\ Len(out) = Len(gen) + n + 1 /\ DOMAIN out = 1 .. Len(gen) + n + 1
    /\ out[Len(gen) + n + 1] = settle
    /\ \A i \in 1 .. Len(gen) : out[i] = gen[i]
    /\ \A i \in 1 .. n : out[Len(gen) + i] = drafts[i]

LEMMA Settling ==
    ASSUME NEW gen \in Batches, NEW drafts \in Batches, NEW n \in 0 .. Len(drafts),
           NEW settle \in Tokens
    PROVE  Settles(gen \o SubSeq(drafts, 1, n) \o <<settle>>, gen, drafts, n, settle)
<1> DEFINE acc == SubSeq(drafts, 1, n)
           t == gen \o acc
<1> USE DEF Batches
<1>1. acc \in Seq(Tokens) /\ Len(acc) = n /\ \A i \in 1 .. n : acc[i] = drafts[i]
    OBVIOUS
<1> HIDE DEF acc
<1>2. /\ t \in Seq(Tokens) /\ Len(t) = Len(gen) + n
      /\ \A i \in 1 .. Len(gen) : t[i] = gen[i]
      /\ \A i \in 1 .. n : t[Len(gen) + i] = acc[i]
    BY <1>1, Joined
<1> HIDE DEF t
<1> DEFINE one == <<settle>>
           s == t \o one
<1>one. one \in Seq(Tokens) /\ Len(one) = 1 /\ one[1] = settle
    OBVIOUS
<1> HIDE DEF one
<1>3. /\ Len(s) = Len(t) + 1 /\ DOMAIN s = 1 .. Len(t) + 1 /\ s[Len(t) + 1] = settle
      /\ \A i \in 1 .. Len(t) : s[i] = t[i]
  <2>1. /\ s \in Seq(Tokens) /\ Len(s) = Len(t) + Len(one)
        /\ \A i \in 1 .. Len(t) : s[i] = t[i]
        /\ \A i \in 1 .. Len(one) : s[Len(t) + i] = one[i]
    BY <1>2, <1>one, Joined
  <2> HIDE DEF s
  <2>2. DOMAIN s = 1 .. Len(s)
    BY <2>1
  <2> QED
    BY <1>one, <2>1, <2>2
<1> HIDE DEF s
<1>4. /\ Len(s) = Len(gen) + n + 1 /\ DOMAIN s = 1 .. Len(gen) + n + 1
      /\ s[Len(gen) + n + 1] = settle
      /\ \A i \in 1 .. Len(gen) : s[i] = gen[i]
      /\ \A i \in 1 .. n : s[Len(gen) + i] = drafts[i]
    BY <1>1, <1>2, <1>3
<1> QED
    BY <1>4 DEF Settles, s, t, acc, one

\* The end of a verify pass that was computed for p, in a session that holds its
\* output so far.
InOrder(p, out, logits, n) ==
    /\ PipeOK(p) /\ Anchored(p)
    /\ out \in Inputs /\ out.toks = p.carry \o p.drafts /\ out.clean
    /\ out.ctx + Len(p.carry) = PromptLen + Len(p.generated)
    /\ logits \in Logits(out) /\ n \in 0 .. Len(p.drafts)
    /\ greedy_verify_round(p, logits, n)

AgreesTo(gen, settle) == Agrees(gen) /\ Len(gen) >= 1 /\ gen[Len(gen)] = settle

\* So the output of a round is the target's.
LEMMA RoundAgrees ==
    ASSUME NEW p, NEW out, NEW logits, NEW n, InOrder(p, out, logits, n)
    PROVE  AgreesTo(p.generated \o SubSeq(p.drafts, 1, n) \o <<Expected(p, logits, n + 1)>>,
                    Expected(p, logits, n + 1))
<1> DEFINE settle == Expected(p, logits, n + 1)
<1> USE DEF InOrder
<1> DEFINE gs == p.generated
           ds == p.drafts
           cs == p.carry
           g == Len(gs)
           c == Len(cs)
           d == Len(ds)
           E == [i \in 1 .. n + 1 |-> Expected(p, logits, i)]
           gen == gs \o SubSeq(ds, 1, n) \o <<settle>>
<1>1. gs \in Seq(Tokens) /\ ds \in Seq(Tokens) /\ cs \in Seq(Tokens) /\ out.ctx \in Nat
      /\ Len(cs) <= 1
    BY DEF PipeOK, Pipes, Batches, Inputs
<1>2. Agrees(gs)
    BY DEF Anchored
<1>3. settle \in Tokens
  <2>1. Len(p.carry \o p.drafts) = Len(p.carry) + Len(p.drafts)
        /\ Len(p.carry) \in Nat /\ Len(p.drafts) \in Nat
    BY <1>1, Joined
  <2>2. Len(out.toks) = Len(p.carry) + Len(p.drafts)
    BY <2>1, Zenon
  <2>5. \A x, y \in Nat : x + y = y + x
    OBVIOUS
  <2>4. Len(out.toks) = Len(p.drafts) + Len(p.carry)
    BY <2>1, <2>2, <2>5, Zenon
  <2>3. n + 1 \in 1 .. Len(p.drafts) + 1
    BY <1>1
  <2> QED
    BY <2>3, <2>4, ExpectedType
<1>4. out.toks = cs \o ds /\ out.ctx + c = PromptLen + g /\ n \in 0 .. d
    OBVIOUS
<1>5. (cs = <<>> => gs = <<>> /\ Predicted(PromptLen, p.expected0))
      /\ (cs # <<>> => g >= 1 /\ cs = <<gs[g]>>)
    BY DEF Anchored
<1>6. \A i \in 1 .. n : ds[i] = E[i]
  <2>1. \A i \in 1 .. n : ds[i] = Expected(p, logits, i)
    BY DEF greedy_verify_round
  <2> QED
    BY <2>1
<1>7. /\ cs # <<>> => \A i \in 1 .. n + 1 : E[i] = logits[i]
      /\ cs = <<>> => E[1] = p.expected0 /\ \A i \in 2 .. n + 1 : E[i] = logits[i - 1]
    BY DEF Expected
<1>8. \A i \in 1 .. Len(out.toks) :
            PathUpTo(out.ctx, out.toks, i) => Predicted(out.ctx + i, logits[i])
    BY DEF Logits
<1>9. E[n + 1] = settle
    BY <1>4
<1> HIDE DEF settle, InOrder
<1> HIDE DEF E, gs, ds, cs
<1>10. /\ Len(gen) = g + n + 1 /\ DOMAIN gen = 1 .. g + n + 1 /\ gen[g + n + 1] = settle
       /\ \A i \in 1 .. g : gen[i] = gs[i]
       /\ \A i \in 1 .. n : gen[g + i] = ds[i]
  <2>1. gs \in Batches /\ ds \in Batches /\ n \in 0 .. Len(ds)
    BY <1>1, <1>4 DEF Batches
  <2>2. Settles(gen, gs, ds, n, settle)
    BY <1>3, <2>1, Settling
  <2> HIDE DEF gen
  <2> QED
    BY <2>2 DEF Settles
<1> HIDE DEF gen
<1>11. g \in Nat /\ c \in Nat /\ d \in Nat /\ c \in 0 .. 1
  <2>1. g \in Nat /\ c \in Nat /\ d \in Nat /\ c <= 1
    BY <1>1
  <2> HIDE DEF g, c, d
  <2> QED
    BY <2>1
<1>12. (cs = <<>> <=> c = 0)
    BY <1>1, OneToken, EmptySeq
<1>13. Len(out.toks) = c + d /\ \A j \in 1 .. d : out.toks[c + j] = ds[j]
    BY <1>1, <1>4, Joined
<1>14. c = 1 => g >= 1 /\ (g \in DOMAIN Greedy => out.toks[1] = Greedy[g])
  <2> SUFFICES ASSUME c = 1 PROVE g >= 1 /\ (g \in DOMAIN Greedy => out.toks[1] = Greedy[g])
    OBVIOUS
  <2>1. g >= 1 /\ cs = <<gs[g]>>
    BY <1>5, <1>12
  <2>2. out.toks[1] = cs[1]
    <3>1. 1 \in 1 .. Len(cs)
      OBVIOUS
    <3> QED
      BY <1>1, <1>4, <3>1, Joined
  <2>3. cs[1] = gs[g] /\ g \in DOMAIN gs
    BY <1>1, <2>1
  <2> QED
    BY <1>2, <2>1, <2>2, <2>3 DEF Agrees
<1>15. c = 0 => g = 0 /\ Predicted(PromptLen, p.expected0)
    BY <1>5, <1>12, EmptySeq
<1> HIDE DEF g, c, d
<1>16. \A m \in 1 .. n + 1 : g + m \in DOMAIN Greedy => E[m] = Greedy[g + m]
  <2>1. \A i \in 1 .. c + d :
            PathUpTo(out.ctx, out.toks, i) => Predicted(out.ctx + i, logits[i])
    BY <1>8, <1>13
  <2>2. /\ c = 1 => \A i \in 1 .. n + 1 : E[i] = logits[i]
        /\ c = 0 => E[1] = p.expected0 /\ \A i \in 2 .. n + 1 : E[i] = logits[i - 1]
    BY <1>7, <1>12
  <2> HIDE DEF E
  <2> QED
    <3>1. Accepting(g, c, d, n, out.ctx, out.toks, ds, logits, E, p.expected0)
      BY <1>1, <1>4, <1>6, <1>11, <1>13, <1>14, <1>15, <2>1, <2>2 DEF Accepting
    <3> QED
      BY <3>1, AcceptLoop
<1>17. ASSUME NEW i \in DOMAIN gen, i \in DOMAIN Greedy PROVE gen[i] = Greedy[i]
  <2>1. i \in 1 .. g + n + 1 /\ n \in Nat
    BY <1>4, <1>10, <1>11
  <2>2. CASE i <= g
    <3>1. i \in 1 .. g
      BY <1>11, <2>1, <2>2
    <3>2. i \in DOMAIN gs
      BY <1>1, <3>1 DEF g
    <3> QED
      BY <1>2, <1>10, <1>17, <3>1, <3>2 DEF Agrees
  <2>3. CASE i > g
    <3>1. PICK m \in 1 .. n + 1 : i = g + m
      <4>1. i - g \in 1 .. n + 1 /\ i = g + (i - g)
        BY <1>11, <2>1, <2>3
      <4> QED
        BY <4>1
    <3>2. E[m] = Greedy[i]
      BY <1>16, <1>17, <3>1
    <3>3. CASE m \in 1 .. n
      BY <1>6, <1>10, <3>1, <3>2, <3>3
    <3>4. CASE m = n + 1
      <4>1. i = g + n + 1
        BY <1>11, <2>1, <3>1, <3>4
      <4> QED
        BY <1>9, <1>10, <3>2, <3>4, <4>1
    <3> QED
      BY <2>1, <3>1, <3>3, <3>4
  <2> QED
    BY <1>11, <2>1, <2>2, <2>3
<1>18. Len(gen) >= 1 /\ gen[Len(gen)] = settle
    BY <1>4, <1>10, <1>11
<1>19. Agrees(gen)
    BY <1>17 DEF Agrees
<1> QED
    BY <1>18, <1>19 DEF AgreesTo, gen, gs, ds, settle

-----------------------------------------------------------------------------
(* What is computed for a step, and applied to it                          *)

\* A tag is of an earlier pipeline, or of a round that came to pass.
Past(t, count, p) == t[1] <= count /\ (p # None /\ t[1] = count => t[2] <= p.round)

\* A tag of p's current round, as long as there are no doubts.
Current(t, count, p, doubts) == p # None /\ ~doubts /\ t[1] = count /\ t[2] = p.round

\* An input is what p's phase passes on.
Fits(input, p) ==
    /\ p.phase = "prompt" => input.pass = "prompt"
    /\ p.phase = "verify" => input.toks = p.carry \o p.drafts

LineInv ==
    \A l : Within(l, lines) /\ l.kind = "shard" =>
        Past(l.tag, starts, pipe) /\ (Current(l.tag, starts, pipe, tainted) => Fits(l.input, pipe))

HoldInv ==
    \A w \in Wallets : hold[w] # None =>
        /\ Past(hold[w].tag, starts, pipe)
        /\ Current(hold[w].tag, starts, pipe, tainted) => Fits(hold[w].out, pipe)
        /\ hold[w].at = "count" /\ hold[w].tag[1] = starts /\ ~tainted => hold[w].out.clean

\* Where p's output stands, phase by phase.
Progress(p) ==
    /\ Agrees(p.generated) /\ Fits(p.input, p)
    /\ p.phase = "prompt" => p.carry = <<>> /\ p.generated = <<>>
    /\ p.phase \in {"draft", "verify"} => Anchored(p)
    /\ p.phase = "rollback" =>
        Len(p.generated) >= 1 /\ p.settle = p.generated[Len(p.generated)]

PipeInv == pipe # None /\ ~tainted => Progress(pipe)

RowInv == row # None /\ row.clean => Agrees(row.tokens)

PathInv == TypeInv /\ LineInv /\ HoldInv /\ PipeInv /\ RowInv

\* A tag and an input that were in order stay so.
LEMMA TagStep ==
    ASSUME TypeInv, Move, TaintStays, NEW t \in Tags, NEW input,
           Past(t, starts, pipe), Current(t, starts, pipe, tainted) => Fits(input, pipe)
    PROVE  /\ Past(t, starts', pipe')
           /\ Current(t, starts', pipe', tainted') => Fits(input, pipe')
<1> USE DEF Past, Current, Fits
<1>1. t[1] \in Nat /\ t[2] \in Nat /\ starts \in Nat /\ (pipe # None => pipe.round \in Nat)
    BY DEF Tags, TypeInv, PipeOK, Pipes
<1>2. starts' = starts /\ ~tainted' => ~tainted
    BY <1>1 DEF TaintStays, Started
<1>3. CASE Gone
    BY <1>3 DEF Gone
<1>4. CASE Same
    BY <1>2, <1>4 DEF Same, SameWork
<1>5. CASE Started
  <2>1. t[1] <= starts /\ starts' = starts + 1
    BY <1>5 DEF Started
  <2>2. t[1] <= starts' /\ t[1] # starts'
    BY <1>1, <2>1
  <2> QED
    BY <2>2
<1>6. CASE Relayed
    BY <1>2, <1>6 DEF Relayed
<1>7. CASE Counted
    BY <1>7 DEF Counted
<1>8. CASE Drafted
  <2>1. starts' = starts /\ pipe # None /\ pipe'.round = pipe.round + 1
    BY <1>8 DEF Drafted
  <2>2. t[1] = starts => t[2] <= pipe.round + 1 /\ t[2] # pipe.round + 1
    BY <1>1, <2>1
  <2> QED
    BY <2>1, <2>2
<1>9. CASE Verified
  <2>1. starts' = starts /\ pipe # None /\ pipe'.phase = "rollback" /\ pipe'.round = pipe.round
    BY <1>9 DEF Verified
  <2> QED
    BY <2>1
<1>10. CASE Settled
    BY <1>10 DEF Settled
<1> QED
    BY <1>3, <1>4, <1>5, <1>6, <1>7, <1>8, <1>9, <1>10 DEF Move

LEMMA LineStep == TypeInv /\ TypeInv' /\ Goes /\ LineInv /\ HoldInv /\ PipeInv' => LineInv'
<1> SUFFICES ASSUME TypeInv, TypeInv', Goes, LineInv, PipeInv',
                    NEW l, Within(l, lines'), l.kind = "shard"
             PROVE  /\ Past(l.tag, starts', pipe')
                    /\ Current(l.tag, starts', pipe', tainted') => Fits(l.input, pipe')
    BY DEF LineInv, Within
<1>1. CASE Within(l, lines)
  <2>1. l.tag \in Tags
    <3>1. PICK w \in Wallets : \E i \in DOMAIN lines[w] : lines[w][i] = l
      BY <1>1 DEF Within
    <3>2. lines[w] \in Seq(AllLines)
      BY DEF TypeInv, Queues
    <3>3. l \in AllLines
      BY <3>1, <3>2
    <3> QED
      BY <3>3, ShardHead DEF ShardLines
  <2>2. /\ Past(l.tag, starts, pipe)
        /\ Current(l.tag, starts, pipe, tainted) => Fits(l.input, pipe)
    BY <1>1 DEF LineInv
  <2>3. Move /\ TaintStays
    BY DEF Goes
  <2> QED
    BY <2>1, <2>2, <2>3, TagStep
<1>2. CASE l.input = pipe'.input /\ l.tag = <<starts', pipe'.round, pipe'.pos>>
  <2>1. l.tag[1] = starts' /\ l.tag[2] = pipe'.round
    BY <1>2
  <2>2. starts' \in Nat /\ (pipe' # None => pipe'.round \in Nat)
    BY DEF TypeInv, PipeOK, Pipes
  <2>3. Past(l.tag, starts', pipe')
    BY <2>1, <2>2 DEF Past
  <2>4. pipe' # None /\ ~tainted' => Fits(pipe'.input, pipe')
    BY DEF PipeInv, Progress
  <2> QED
    BY <1>2, <2>3, <2>4 DEF Current
<1> QED
    BY <1>1, <1>2 DEF Goes, LinesOld

LEMMA HoldStep == TypeInv /\ TypeInv' /\ Goes /\ LineInv /\ HoldInv => HoldInv'
<1> SUFFICES ASSUME TypeInv, TypeInv', Goes, LineInv, HoldInv, NEW w \in Wallets, hold'[w] # None
             PROVE  /\ Past(hold'[w].tag, starts', pipe')
                    /\ Current(hold'[w].tag, starts', pipe', tainted') => Fits(hold'[w].out, pipe')
                    /\ hold'[w].at = "count" /\ hold'[w].tag[1] = starts' /\ ~tainted'
                        => hold'[w].out.clean
    BY DEF HoldInv
<1>1. Move /\ TaintStays
    BY DEF Goes
<1>2. CASE /\ hold[w] # None
           /\ hold'[w].tag = hold[w].tag /\ hold'[w].out = hold[w].out
           /\ hold'[w].at = "count" =>
                hold[w].at = "count" \/ (~tainted' => hold[w].out.clean)
  <2>1. PICK t, out : t = hold[w].tag /\ out = hold[w].out
    OBVIOUS
  <2>2. t \in Tags /\ t[1] \in Nat /\ starts \in Nat
    BY <1>2, <2>1 DEF TypeInv, Holds, Tags
  <2>3. Past(t, starts, pipe) /\ (Current(t, starts, pipe, tainted) => Fits(out, pipe))
        /\ (hold[w].at = "count" /\ t[1] = starts /\ ~tainted => out.clean)
    BY <1>2, <2>1 DEF HoldInv
  <2>4. Past(t, starts', pipe') /\ (Current(t, starts', pipe', tainted') => Fits(out, pipe'))
    BY <1>1, <2>2, <2>3, TagStep
  <2>5. ASSUME hold'[w].at = "count", t[1] = starts', ~tainted' PROVE out.clean
    <3>1. ~Started
      <4>1. t[1] <= starts
        BY <2>3 DEF Past
      <4> QED
        BY <2>2, <2>5, <4>1 DEF Started
    <3>2. starts' = starts /\ ~tainted
      BY <1>1, <2>5, <3>1 DEF Move, TaintStays, Gone, Same, Relayed, Counted, Drafted,
                            Verified, Settled
    <3> QED
      BY <1>2, <2>1, <2>3, <2>5, <3>2
  <2> QED
    BY <1>2, <2>1, <2>4, <2>5
<1>3. CASE /\ hold'[w].at = "apply"
           /\ \E l : /\ Within(l, lines) /\ l.kind = "shard"
                     /\ hold'[w].tag = l.tag
                     /\ hold'[w].out.pass = l.input.pass
                     /\ hold'[w].out.toks = l.input.toks
  <2>1. PICK l : /\ Within(l, lines) /\ l.kind = "shard"
                 /\ hold'[w].tag = l.tag
                 /\ hold'[w].out.pass = l.input.pass
                 /\ hold'[w].out.toks = l.input.toks
    BY <1>3
  <2>2. hold'[w].tag \in Tags
    BY DEF TypeInv, Holds
  <2>3. Past(l.tag, starts, pipe) /\ (Current(l.tag, starts, pipe, tainted) => Fits(l.input, pipe))
    BY <2>1 DEF LineInv
  <2>4. /\ Past(l.tag, starts', pipe')
        /\ Current(l.tag, starts', pipe', tainted') => Fits(l.input, pipe')
    BY <1>1, <2>1, <2>2, <2>3, TagStep
  <2>5. Fits(l.input, pipe') => Fits(hold'[w].out, pipe')
    BY <2>1 DEF Fits
  <2> QED
    BY <1>3, <2>1, <2>4, <2>5
<1> QED
    BY <1>2, <1>3 DEF Goes, HoldsOld

\* A held result that is meant for the current step is in order.
LEMMA MeantFits ==
    ASSUME TypeInv, HoldInv, pipe # None, ~tainted,
           NEW w \in Wallets, hold[w] # None, hold[w].tag = Tag(pipe)
    PROVE  Fits(hold[w].out, pipe) /\ (hold[w].at = "count" => hold[w].out.clean)
<1>1. hold[w].tag[1] = starts /\ hold[w].tag[2] = pipe.round
    BY DEF Tag
<1> QED
    BY <1>1 DEF HoldInv, Current

LEMMA PipeStep == TypeInv /\ TypeInv' /\ Goes /\ HoldInv /\ PipeInv => PipeInv'
<1> SUFFICES ASSUME TypeInv, TypeInv', Goes, HoldInv, PipeInv, pipe' # None, ~tainted'
             PROVE  Progress(pipe')
    BY DEF PipeInv
<1>1. Move /\ TaintStays /\ starts \in Nat
    BY DEF Goes, TypeInv
<1>2. starts' = starts => ~tainted
    BY <1>1 DEF TaintStays, Started
<1>3. pipe # None /\ ~tainted => Progress(pipe) /\ PipeOK(pipe)
    BY DEF PipeInv, TypeInv
<1>4. CASE Same
  <2>1. Progress(pipe) /\ SameWork(pipe, pipe')
    BY <1>2, <1>3, <1>4 DEF Same
  <2> QED
    BY <2>1 DEF SameWork, Progress, Fits, Anchored
<1>5. CASE Started
  <2>1. pipe'.phase = "prompt" /\ pipe'.carry = <<>> /\ pipe'.generated = <<>>
        /\ pipe'.input.pass = "prompt"
    BY <1>5, NewPipeType DEF Started
  <2>2. Agrees(pipe'.generated)
    BY <2>1 DEF Agrees
  <2> QED
    BY <2>1, <2>2 DEF Progress, Fits
<1>6. CASE Relayed
  <2>1. pipe # None /\ ~tainted /\ Progress(pipe)
    BY <1>2, <1>3, <1>6 DEF Relayed
  <2>2. PICK w \in Wallets : hold[w] # None /\ hold[w].tag = Tag(pipe)
                             /\ pipe'.input = hold[w].out
    BY <1>6 DEF Relayed
  <2>3. Fits(pipe'.input, pipe)
    BY <2>1, <2>2, MeantFits
  <2>4. /\ pipe.phase \in {"prompt", "verify"} /\ pipe'.phase = pipe.phase
        /\ pipe'.carry = pipe.carry /\ pipe'.drafts = pipe.drafts
        /\ pipe'.generated = pipe.generated /\ pipe'.expected0 = pipe.expected0
    BY <1>6 DEF Relayed
  <2>5. Fits(pipe'.input, pipe')
    BY <2>3, <2>4 DEF Fits
  <2> QED
    BY <2>1, <2>4, <2>5 DEF Progress, Anchored
<1>7. CASE Counted
  <2>1. pipe # None /\ ~tainted /\ Progress(pipe) /\ pipe.phase = "prompt"
    BY <1>2, <1>3, <1>7 DEF Counted
  <2>2. PICK w \in Wallets :
            /\ hold[w] # None /\ hold[w].at = "count" /\ hold[w].tag = Tag(pipe)
            /\ hold[w].out.clean /\ hold[w].out.pass = "prompt" =>
                Predicted(PromptLen, pipe'.expected0)
    BY <1>7 DEF Counted
  <2>3. hold[w].out.clean /\ hold[w].out.pass = "prompt"
    BY <2>1, <2>2, MeantFits DEF Fits
  <2>4. pipe'.phase = "draft" /\ pipe'.carry = <<>> /\ pipe'.generated = <<>>
    BY <1>7, <2>1 DEF Counted, Progress
  <2>5. Agrees(pipe'.generated)
    BY <2>4 DEF Agrees
  <2> QED
    BY <2>2, <2>3, <2>4, <2>5 DEF Progress, Fits, Anchored
<1>8. CASE Drafted
  <2>1. pipe # None /\ ~tainted /\ Progress(pipe) /\ pipe.phase = "draft"
    BY <1>2, <1>3, <1>8 DEF Drafted
  <2>2. /\ pipe'.phase = "verify" /\ pipe'.carry = pipe.carry
        /\ pipe'.generated = pipe.generated /\ pipe'.expected0 = pipe.expected0
        /\ pipe'.input.toks = pipe.carry \o pipe'.drafts
    BY <1>8 DEF Drafted
  <2>3. Fits(pipe'.input, pipe')
    BY <2>2 DEF Fits
  <2> QED
    BY <2>1, <2>2, <2>3 DEF Progress, Anchored
<1>9. CASE Verified
  <2>1. pipe # None /\ ~tainted /\ Progress(pipe) /\ PipeOK(pipe) /\ pipe.phase = "verify"
        /\ pipe'.phase = "rollback"
    BY <1>2, <1>3, <1>9 DEF Verified
  <2>2. PICK w \in Wallets : \E logits \in Logits(hold[w].out), n \in 0 .. Len(pipe.drafts) :
        /\ hold[w] # None
        /\ greedy_verify_round(pipe, logits, n)
        /\ pipe'.settle = Expected(pipe, logits, n + 1)
        /\ pipe'.generated = pipe.generated \o SubSeq(pipe.drafts, 1, n) \o <<pipe'.settle>>
        /\ hold[w].tag = Tag(pipe) /\ hold[w].out.clean
        /\ hold[w].out.ctx + Len(pipe.carry) = PromptLen + Len(pipe.generated)
    BY <1>9 DEF Verified
  <2>3. hold[w].out \in Inputs /\ hold[w].out.toks = pipe.carry \o pipe.drafts
    BY <2>1, <2>2, MeantFits DEF Fits, TypeInv, Holds
  <2>4. Anchored(pipe)
    BY <2>1 DEF Progress
  <2>5. Agrees(pipe'.generated) /\ Len(pipe'.generated) >= 1
        /\ pipe'.generated[Len(pipe'.generated)] = pipe'.settle
    <3>1. PICK logits \in Logits(hold[w].out), n \in 0 .. Len(pipe.drafts) :
            /\ greedy_verify_round(pipe, logits, n)
            /\ pipe'.settle = Expected(pipe, logits, n + 1)
            /\ pipe'.generated = pipe.generated \o SubSeq(pipe.drafts, 1, n) \o <<pipe'.settle>>
            /\ hold[w].out.clean
            /\ hold[w].out.ctx + Len(pipe.carry) = PromptLen + Len(pipe.generated)
      BY <2>2
    <3> DEFINE gen == pipe.generated \o SubSeq(pipe.drafts, 1, n)
                      \o <<Expected(pipe, logits, n + 1)>>
    <3>2. InOrder(pipe, hold[w].out, logits, n)
      BY <2>1, <2>3, <2>4, <3>1 DEF InOrder
    <3>3. AgreesTo(gen, Expected(pipe, logits, n + 1))
      BY <3>2, RoundAgrees
    <3>4. pipe'.generated = gen
      BY <3>1
    <3> HIDE DEF gen
    <3> QED
      BY <3>1, <3>3, <3>4 DEF AgreesTo
  <2> QED
    BY <2>1, <2>5 DEF Progress, Fits
<1>10. CASE Settled
  <2>1. pipe # None /\ ~tainted /\ Progress(pipe) /\ pipe.phase = "rollback"
    BY <1>2, <1>3, <1>10 DEF Settled
  <2>2. /\ pipe'.phase = "draft" /\ pipe'.carry = <<pipe.settle>>
        /\ pipe'.generated = pipe.generated
    BY <1>10 DEF Settled
  <2>3. pipe'.carry # <<>> /\ pipe'.carry = <<pipe'.generated[Len(pipe'.generated)]>>
        /\ Len(pipe'.generated) >= 1 /\ Agrees(pipe'.generated)
    BY <2>1, <2>2 DEF Progress
  <2> QED
    BY <2>2, <2>3 DEF Progress, Fits, Anchored
<1> QED
    BY <1>1, <1>4, <1>5, <1>6, <1>7, <1>8, <1>9, <1>10 DEF Move, Gone

LEMMA RowStep == PipeInv /\ RowInv /\ Goes => RowInv'
BY DEF PipeInv, RowInv, Goes, RowOld, Progress

LEMMA PathInit == Init => PathInv
<1> SUFFICES ASSUME Init PROVE PathInv
    OBVIOUS
<1>1. \A w \in Wallets : lines[w] = <<>> /\ hold[w] = None
    BY DEF Init
<1>2. LineInv /\ HoldInv
    BY <1>1 DEF LineInv, HoldInv, Within
<1> QED
    BY <1>2, TypeInit DEF Init, PathInv, PipeInv, RowInv

LEMMA PathStep == PathInv /\ [Next]_vars => PathInv'
<1>1. PathInv /\ Next => PathInv'
    BY NextGoes, PipeStep, LineStep, HoldStep, RowStep DEF PathInv
<1>2. ASSUME PathInv, UNCHANGED vars PROVE PathInv'
  <2>1. TypeInv'
    BY <1>2, TypeStep DEF PathInv
  <2> QED
    BY <1>2, <2>1 DEF PathInv, LineInv, HoldInv, PipeInv, RowInv, Within, vars, registryVars,
                     outcomeVars, countVars, historyVars
<1> QED
    BY <1>1, <1>2

\* Speculation is lossless: whatever the draft miners propose, whoever computes
\* the passes, and however many miners leave or answers come late, a pipeline
\* whose answers were all applied to the step they were computed for, in a
\* session that holds the output so far, generates (handle_shard_result, accept
\* loop and carried token included) and records what the target would have
\* decoded on its own.
THEOREM NothingIsLost == Spec => []Lossless
<1>1. PathInv => Lossless
    BY DEF PathInv, PipeInv, RowInv, Progress, Agrees, Lossless
<1> QED
    BY <1>1, PathInit, PathStep, PTL DEF Spec

-----------------------------------------------------------------------------
(* Nothing is forgotten                                                    *)

ShardSent(queue, s) == \E i \in DOMAIN queue : queue[i].kind = "shard" /\ queue[i].shard = s

DraftSent(queue) == \E i \in DOMAIN queue : queue[i].kind = "draft"

\* Whoever an assignment is recorded for is about to answer it, or about to be
\* forgotten by its on_disconnect.
ShardComing ==
    shardAt # None =>
        \/ shardAt.wallet \in leaving
        \/ shardAt.wallet \in online /\ ShardSent(lines[shardAt.wallet], shardAt.shard)

DraftComing ==
    draftAt # None => draftAt \in leaving \/ (draftAt \in online /\ DraftSent(lines[draftAt]))

\* What retry_stalled_tick passes over because it is assigned will be answered or
\* unassigned: as long as no session panics, and there is a pipeline to answer to.
NothingForgotten == ~panicked => (pipe # None => ShardComing) /\ DraftComing

NoZombie == ~panicked => zombie = {}

\* new has all the shard and draft lines of ln.
AllKept(ln, new) ==
    \A v \in Wallets : /\ \A s \in Shards : ShardSent(ln[v], s) => ShardSent(new[v], s)
                       /\ DraftSent(ln[v]) => DraftSent(new[v])

\* A line is sent after the others.
LEMMA SentKeeps ==
    ASSUME zombie = {}, NEW ln \in Queues, NEW w \in Wallets, NEW line
    PROVE  /\ AllKept(ln, Sent(ln, w, line))
           /\ \E j \in DOMAIN Sent(ln, w, line)[w] : Sent(ln, w, line)[w][j] = line
<1>1. /\ ln[w] \in Seq(AllLines \cup {line})
      /\ Sent(ln, w, line) = [ln EXCEPT ![w] = Append(ln[w], line)]
    BY DEF Queues, Sent
<1>2. /\ Sent(ln, w, line)[w] = Append(ln[w], line)
      /\ \A v \in Wallets \ {w} : Sent(ln, w, line)[v] = ln[v]
    BY <1>1 DEF Queues
<1>3. /\ \A i \in DOMAIN ln[w] : /\ i \in DOMAIN Append(ln[w], line)
                                 /\ Append(ln[w], line)[i] = ln[w][i]
      /\ Len(ln[w]) + 1 \in DOMAIN Append(ln[w], line)
      /\ Append(ln[w], line)[Len(ln[w]) + 1] = line
    BY <1>1
<1> QED
    BY <1>2, <1>3 DEF AllKept, ShardSent, DraftSent

LEMMA ConcatKeeps ==
    ASSUME NEW ln \in Queues, NEW w \in Wallets, NEW more \in Seq(AllLines)
    PROVE  AllKept(ln, [ln EXCEPT ![w] = @ \o more])
<1> DEFINE new == [ln EXCEPT ![w] = @ \o more]
<1>1. ln[w] \in Seq(AllLines)
    BY DEF Queues
<1>2. new[w] = ln[w] \o more /\ \A v \in Wallets \ {w} : new[v] = ln[v]
    BY DEF Queues
<1>3. \A i \in DOMAIN ln[w] : i \in DOMAIN (ln[w] \o more) /\ (ln[w] \o more)[i] = ln[w][i]
    BY <1>1
<1> HIDE DEF new
<1>4. AllKept(ln, new)
    BY <1>2, <1>3 DEF AllKept, ShardSent, DraftSent
<1> QED
    BY <1>4 DEF new

\* A line is answered: the others stay.
LEMMA PoppedKeeps ==
    ASSUME lines \in Queues, NEW w \in Wallets, lines[w] # <<>>
    PROVE  /\ \A v \in Wallets \ {w} : Popped(w)[v] = lines[v]
           /\ \A i \in DOMAIN lines[w] : \/ lines[w][i] = Head(lines[w])
                                         \/ \E j \in DOMAIN Popped(w)[w] :
                                                Popped(w)[w][j] = lines[w][i]
<1>1. lines[w] \in Seq(AllLines)
    BY DEF Queues
<1>2. Popped(w)[w] = Tail(lines[w]) /\ \A v \in Wallets \ {w} : Popped(w)[v] = lines[v]
    BY DEF Queues, Popped
<1>3. ASSUME NEW i \in DOMAIN lines[w], i # 1
      PROVE  i - 1 \in DOMAIN Tail(lines[w]) /\ Tail(lines[w])[i - 1] = lines[w][i]
    BY <1>1, <1>3
<1>4. Head(lines[w]) = lines[w][1]
    BY <1>1
<1> QED
    BY <1>2, <1>3, <1>4

LEMMA StillComing ==
    ASSUME TypeInv, UNCHANGED <<online, leaving>>, AllKept(lines, lines')
    PROVE  /\ shardAt' = shardAt /\ ShardComing => ShardComing'
           /\ draftAt' = draftAt /\ DraftComing => DraftComing'
BY DEF TypeInv, Places, AllKept, ShardComing, DraftComing

-----------------------------------------------------------------------------
(* What is sent                                                            *)

LEMMA dispatch_shard_stepComing ==
    ASSUME TypeInv, zombie = {}, NEW p, NEW ln \in Queues,
           dispatch_shard_step(p, ln), UNCHANGED <<online, leaving>>
    PROVE  AllKept(ln, lines') /\ (shardAt' = shardAt \/ ShardComing')
<1>1. CASE lines' = ln /\ UNCHANGED shardAt
    BY <1>1 DEF AllKept
<1>2. ASSUME NEW w \in online, shardAt' = [wallet |-> w, shard |-> p.pos],
             lines' = Sent(ln, w, ShardLine(p))
      PROVE  AllKept(ln, lines') /\ ShardComing'
  <2>1. w \in Wallets
    BY DEF TypeInv
  <2>2. ShardLine(p).kind = "shard" /\ ShardLine(p).shard = p.pos
    BY DEF ShardLine
  <2>3. AllKept(ln, lines') /\ \E j \in DOMAIN lines'[w] : lines'[w][j] = ShardLine(p)
    BY <1>2, <2>1, SentKeeps
  <2>4. ShardSent(lines'[w], p.pos)
    BY <2>2, <2>3 DEF ShardSent
  <2> QED
    BY <1>2, <2>3, <2>4 DEF ShardComing
<1> QED
    BY <1>1, <1>2 DEF dispatch_shard_step

LEMMA dispatch_draftComing ==
    ASSUME TypeInv, zombie = {}, NEW p, NEW ln \in Queues,
           dispatch_draft(p, ln), UNCHANGED <<online, leaving>>
    PROVE  AllKept(ln, lines') /\ (draftAt' = draftAt \/ DraftComing')
<1>1. CASE lines' = ln /\ UNCHANGED draftAt
    BY <1>1 DEF AllKept
<1>2. ASSUME NEW w \in DraftWallets(p), draftAt' = w,
             lines' = Sent(ln, w, [kind |-> "draft", k |-> Asked(p)])
      PROVE  AllKept(ln, lines') /\ DraftComing'
  <2>1. w \in Wallets /\ w \in online
    BY DEF DraftWallets, TypeInv
  <2>2. /\ AllKept(ln, lines')
        /\ \E j \in DOMAIN lines'[w] : lines'[w][j] = [kind |-> "draft", k |-> Asked(p)]
    BY <1>2, <2>1, SentKeeps
  <2>3. DraftSent(lines'[w])
    BY <2>2 DEF DraftSent
  <2> QED
    BY <1>2, <2>1, <2>2, <2>3 DEF DraftComing
<1> QED
    BY <1>1, <1>2 DEF dispatch_draft

LEMMA begin_rollbackKeeps ==
    ASSUME TypeInv, zombie = {}, NEW p, p.keep \in Nat, p.final \in BOOLEAN,
           NEW ln \in Queues, begin_rollback(p, ln)
    PROVE  AllKept(ln, lines')
<1> DEFINE more == [s \in Shards |-> RollbackLine(s, p.keep, p.final)]
           line == RollbackLine(DraftSession, p.keep, FALSE)
<1>1. CASE lines' = ln
    BY <1>1 DEF AllKept
<1>2. ASSUME NEW w \in online, NEW ls, ls = [ln EXCEPT ![w] = @ \o more],
             lines' = IF p.draft_wallet \in online THEN Sent(ls, p.draft_wallet, line) ELSE ls
      PROVE  AllKept(ln, lines')
  <2>1. w \in Wallets /\ (p.draft_wallet \in online => p.draft_wallet \in Wallets)
    BY DEF TypeInv
  <2>2. \A s \in Shards : RollbackLine(s, p.keep, p.final) \in AllLines
    BY DEF RollbackLine, AllLines, RollbackLines
  <2>3. more \in Seq(AllLines)
    BY <2>2, ConstAssumption DEF Shards
  <2>4. ls \in Queues
    BY <1>2, <2>1, ConcatType
  <2> HIDE DEF more
  <2>5. AllKept(ln, ls)
    BY <1>2, <2>1, <2>3, ConcatKeeps
  <2> HIDE DEF line
  <2>6. AllKept(ls, lines')
    <3>1. CASE p.draft_wallet \in online
      BY <1>2, <2>1, <2>4, <3>1, SentKeeps
    <3>2. CASE p.draft_wallet \notin online
      BY <1>2, <3>2 DEF AllKept
    <3> QED
      BY <3>1, <3>2
  <2> QED
    BY <2>5, <2>6 DEF AllKept
<1>3. CASE online # {} /\ lines' # ln
  <2>1. PICK w \in online :
            lines' = LET ls == IF w \in zombie THEN ln ELSE [ln EXCEPT ![w] = @ \o more]
                     IN  IF p.draft_wallet \in online
                         THEN Sent(ls, p.draft_wallet, line) ELSE ls
    BY <1>3 DEF begin_rollback
  <2> QED
    BY <1>2, <2>1
<1> QED
    BY <1>1, <1>3 DEF begin_rollback

-----------------------------------------------------------------------------
(* The steps.  Each starts from Awaited, and nobody has panicked after it. *)

Awaited == TypeInv /\ zombie = {} /\ (pipe # None => ShardComing) /\ DraftComing

Coming == (pipe # None => ShardComing) /\ DraftComing

LEMMA TicksComing == ASSUME Awaited, start_pipeline \/ Tick PROVE Coming'
<1>1. TypeInv /\ lines \in Queues /\ UNCHANGED <<online, leaving>>
    BY DEF Awaited, TypeInv, start_pipeline, Tick, RetryShardStep, RetryDraft, registryVars
<1>2. CASE start_pipeline
  <2> DEFINE line == [ShardLine(NewPipe) EXCEPT !.tag = <<starts + 1, 0, 1>>]
  <2>1. PICK w \in online : /\ shardAt' = [wallet |-> w, shard |-> 1]
                            /\ lines' = Sent(lines, w, line)
    BY <1>2 DEF start_pipeline
  <2>2. line.kind = "shard" /\ line.shard = 1
    BY DEF ShardLine, NewPipe
  <2> HIDE DEF line
  <2>3. w \in Wallets /\ AllKept(lines, lines') /\ \E j \in DOMAIN lines'[w] : lines'[w][j] = line
    BY <1>1, <2>1, SentKeeps DEF Awaited, TypeInv
  <2>4. ShardComing'
    BY <1>1, <2>1, <2>2, <2>3 DEF ShardComing, ShardSent
  <2>5. draftAt' = draftAt
    BY <1>2 DEF start_pipeline
  <2> QED
    BY <1>1, <2>3, <2>4, <2>5, StillComing DEF Awaited, Coming
<1>3. CASE RetryShardStep
  <2>1. draftAt' = draftAt /\ pipe # None /\ dispatch_shard_step(pipe, lines)
    BY <1>3 DEF RetryShardStep
  <2> QED
    BY <1>1, <2>1, StillComing, dispatch_shard_stepComing DEF Awaited, Coming
<1>4. CASE RetryDraft
  <2>1. shardAt' = shardAt /\ pipe # None /\ dispatch_draft(pipe, lines)
    BY <1>4 DEF RetryDraft
  <2> QED
    BY <1>1, <2>1, StillComing, dispatch_draftComing DEF Awaited, Coming
<1> QED
    BY <1>2, <1>3, <1>4 DEF Tick

\* Register finds no lines of an earlier session that anybody waits for.
LEMMA SessionsComing ==
    ASSUME Awaited, NEW w \in Wallets,
           Register(w) \/ MarkDraftCapable(w) \/ Leave(w) \/ on_disconnect(w)
    PROVE  Coming'
<1>1. TypeInv /\ lines \in [Wallets -> Seq(AllLines)]
    BY DEF Awaited, TypeInv, Queues
<1>2. CASE Register(w)
  <2>1. /\ UNCHANGED <<leaving, pipe, shardAt, draftAt>> /\ online' = online \cup {w}
        /\ w \notin online /\ \A v \in Wallets \ {w} : lines'[v] = lines[v]
    BY <1>1, <1>2 DEF Register, Awaited
  <2> QED
    BY <1>1, <2>1 DEF Awaited, Coming, ShardComing, DraftComing, TypeInv, Places
<1>3. CASE MarkDraftCapable(w)
  <2>1. UNCHANGED <<online, leaving, pipe, shardAt, draftAt, lines>>
    BY <1>3 DEF MarkDraftCapable
  <2> QED
    BY <2>1 DEF Awaited, Coming, ShardComing, DraftComing
<1>4. CASE Leave(w)
  <2>1. /\ UNCHANGED <<pipe, shardAt, draftAt>> /\ online' = online \ {w}
        /\ leaving' = leaving \cup {w} /\ \A v \in Wallets \ {w} : lines'[v] = lines[v]
    BY <1>1, <1>4 DEF Leave
  <2> QED
    BY <1>1, <2>1 DEF Awaited, Coming, ShardComing, DraftComing, TypeInv, Places
<1>5. CASE on_disconnect(w)
  <2>1. /\ leaving' = leaving \ {w} /\ UNCHANGED <<online, lines>>
        /\ shardAt' = IF shardAt # None /\ shardAt.wallet = w THEN None ELSE shardAt
        /\ draftAt' = IF draftAt = w THEN None ELSE draftAt
        /\ pipe' = pipe \/ pipe' = None
    BY <1>5 DEF on_disconnect
  <2> QED
    BY <2>1 DEF Awaited, Coming, ShardComing, DraftComing
<1> QED
    BY <1>2, <1>3, <1>4, <1>5

\* A handler sends, and takes nothing back.
LEMMA HandlersComing ==
    ASSUME Awaited, NEW w \in Wallets, Handler(w), ~ApplyPanics(w)
    PROVE  Coming'
<1>1. TypeInv /\ zombie = {} /\ lines \in Queues
    BY DEF Awaited, TypeInv
<1>2. CASE ApplyLate(w) \/ ApplyPrompt(w) \/ CountFails(w) \/ ApplyMalformed(w)
  <2>1. UNCHANGED <<online, leaving, shardAt, draftAt, lines>> /\ (pipe' = pipe \/ pipe' = None)
    BY <1>2 DEF ApplyLate, ApplyPrompt, CountFails, ApplyMalformed, registryVars
  <2> QED
    BY <2>1 DEF Awaited, Coming, ShardComing, DraftComing
<1>3. CASE ApplyRelay(w)
  <2>1. UNCHANGED <<online, leaving, draftAt>> /\ pipe # None
    BY <1>3 DEF ApplyRelay, Relaying, registryVars
  <2>2. PICK p : dispatch_shard_step(p, lines)
    BY <1>3 DEF ApplyRelay
  <2>3. AllKept(lines, lines') /\ (shardAt' = shardAt \/ ShardComing')
    BY <1>1, <2>1, <2>2, dispatch_shard_stepComing
  <2> QED
    BY <1>1, <2>1, <2>3, StillComing DEF Awaited, Coming
<1>4. CASE CountDone(w)
  <2>1. UNCHANGED <<online, leaving, shardAt>>
    BY <1>4 DEF CountDone, registryVars
  <2>2. CASE pipe = None /\ UNCHANGED <<pipe, draftAt, lines>>
    BY <2>1, <2>2 DEF Awaited, Coming, DraftComing
  <2>3. CASE pipe # None /\ \E p : dispatch_draft(p, lines)
    BY <1>1, <2>1, <2>3, StillComing, dispatch_draftComing DEF Awaited, Coming
  <2> QED
    BY <1>4, <2>2, <2>3 DEF CountDone
<1>5. CASE ApplyVerify(w)
  <2>1. UNCHANGED <<online, leaving, shardAt, draftAt>> /\ pipe # None /\ PipeOK(pipe)
    BY <1>1, <1>5 DEF ApplyVerify, Relaying, registryVars, TypeInv
  <2>2. PICK logits \in Logits(hold[w].out), n \in 0 .. Len(pipe.drafts) :
            begin_rollback([pipe EXCEPT
                !.generated = @ \o SubSeq(pipe.drafts, 1, n)
                                \o <<Expected(pipe, logits, n + 1)>>,
                !.accepted = n, !.settle = Expected(pipe, logits, n + 1),
                !.keep = kv_keep_len(pipe, n), !.final = IsFinalizing(pipe, n)], lines)
    BY <1>5 DEF ApplyVerify
  <2> DEFINE p == [pipe EXCEPT
                !.generated = @ \o SubSeq(pipe.drafts, 1, n)
                                \o <<Expected(pipe, logits, n + 1)>>,
                !.accepted = n, !.settle = Expected(pipe, logits, n + 1),
                !.keep = kv_keep_len(pipe, n), !.final = IsFinalizing(pipe, n)]
  <2>3. p.keep = kv_keep_len(pipe, n) /\ p.final = IsFinalizing(pipe, n)
    BY <2>1 DEF PipeOK, Pipes
  <2>4. p.keep \in Nat /\ p.final \in BOOLEAN
    <3>1. pipe.base \in Nat /\ pipe.carry \in Seq(Tokens) /\ n \in Nat
      BY <2>1, <2>2 DEF PipeOK, Pipes, Batches
    <3> QED
      BY <2>3, <3>1, ConstAssumption DEF kv_keep_len, IsFinalizing
  <2> HIDE DEF p
  <2>5. AllKept(lines, lines')
    BY <1>1, <2>2, <2>4, begin_rollbackKeeps DEF p
  <2> QED
    BY <1>1, <2>1, <2>5, StillComing DEF Awaited, Coming
<1> QED
    BY <1>2, <1>3, <1>4, <1>5 DEF Handler

LEMMA AnswersComing == ASSUME Awaited, NEW w \in Wallets, Answer(w) PROVE Coming'
<1> DEFINE line == Head(lines[w])
<1>1. TypeInv /\ zombie = {} /\ lines \in Queues
    BY DEF Awaited, TypeInv
<1>2. lines[w] # <<>> /\ UNCHANGED <<online, leaving>>
    BY DEF Answer, TakeShardResult, handle_draft_result, handle_kv_rollback_ack, Reads,
           registryVars
<1>3. Popped(w) \in Queues /\ \A v \in Wallets \ {w} : Popped(w)[v] = lines[v]
    BY <1>1, <1>2, PoppedType, PoppedKeeps
<1>4. \A s \in Shards : ShardSent(lines[w], s) => \/ ShardSent(Popped(w)[w], s)
                                                  \/ line.kind = "shard" /\ line.shard = s
    BY <1>1, <1>2, PoppedKeeps DEF ShardSent
<1>5. DraftSent(lines[w]) => DraftSent(Popped(w)[w]) \/ line.kind = "draft"
    BY <1>1, <1>2, PoppedKeeps DEF DraftSent
<1> HIDE DEF line
<1>6. CASE TakeShardResult(w)
  <2>1. line.kind = "shard" /\ lines' = Popped(w) /\ draftAt' = draftAt
    BY <1>6 DEF TakeShardResult, Reads, line
  <2>2. DraftComing'
    BY <1>1, <1>2, <1>3, <1>5, <2>1 DEF Awaited, DraftComing, TypeInv
  <2>3. CASE shardAt' = None
    BY <2>2, <2>3 DEF Coming, ShardComing
  <2>4. CASE pipe = None \/ shardAt # [wallet |-> w, shard |-> line.shard]
    <3>1. pipe' = pipe /\ shardAt' = shardAt
      BY <1>6, <2>4 DEF TakeShardResult, line
    <3> SUFFICES ASSUME pipe # None, shardAt # None PROVE ShardComing'
      BY <2>2, <3>1 DEF Coming, ShardComing
    <3>2. shardAt \in Places /\ ShardComing
      BY <1>1 DEF Awaited, TypeInv
    <3>3. shardAt.wallet # w \/ shardAt.shard # line.shard
      BY <2>4, <3>2 DEF Places
    <3> QED
      BY <1>2, <1>3, <1>4, <2>1, <3>1, <3>2, <3>3 DEF ShardComing, Places
  <2> QED
    BY <1>6, <2>3, <2>4 DEF TakeShardResult, line
<1>7. CASE handle_draft_result(w)
  <2>1. line.kind = "draft"
    BY <1>7 DEF handle_draft_result, Reads, line
  <2>2. \A v \in Wallets, s \in Shards : ShardSent(lines[v], s) => ShardSent(Popped(w)[v], s)
    BY <1>3, <1>4, <2>1
  <2>3. CASE lines' = Popped(w) /\ UNCHANGED <<pipe, shardAt>>
             /\ (draftAt' = None \/ (draftAt # w /\ draftAt' = draftAt))
    <3>1. DraftComing'
      BY <1>1, <1>2, <1>3, <2>3 DEF Awaited, DraftComing, TypeInv
    <3>2. pipe # None => ShardComing'
      BY <1>1, <1>2, <2>2, <2>3 DEF Awaited, ShardComing, TypeInv, Places
    <3> QED
      BY <2>3, <3>1, <3>2 DEF Coming
  <2>4. CASE draftAt' = None /\ pipe # None /\ \E p : dispatch_shard_step(p, Popped(w))
    <3>1. AllKept(Popped(w), lines') /\ (shardAt' = shardAt \/ ShardComing')
      BY <1>1, <1>2, <1>3, <2>4, dispatch_shard_stepComing
    <3>2. shardAt' = shardAt => ShardComing'
      BY <1>1, <1>2, <2>2, <2>4, <3>1 DEF Awaited, ShardComing, TypeInv, Places, AllKept
    <3> QED
      BY <2>4, <3>1, <3>2 DEF Coming, DraftComing
  <2> QED
    BY <1>7, <2>3, <2>4 DEF handle_draft_result
<1>8. CASE handle_kv_rollback_ack(w)
  <2>1. line.kind = "rollback" /\ shardAt' = shardAt
    BY <1>8 DEF handle_kv_rollback_ack, Reads, line
  <2>2. AllKept(lines, Popped(w))
    BY <1>3, <1>4, <1>5, <2>1 DEF AllKept
  <2>3. CASE lines' = Popped(w) /\ draftAt' = draftAt
             /\ (pipe' = pipe \/ pipe' = None \/ pipe # None)
    BY <1>1, <1>2, <2>1, <2>2, <2>3, StillComing DEF Awaited, Coming
  <2>4. CASE pipe # None /\ \E p : dispatch_draft(p, Popped(w))
    <3>1. AllKept(Popped(w), lines') /\ (draftAt' = draftAt \/ DraftComing')
      BY <1>1, <1>2, <1>3, <2>4, dispatch_draftComing
    <3>2. AllKept(lines, lines')
      BY <2>2, <3>1 DEF AllKept
    <3> QED
      BY <1>1, <1>2, <2>1, <2>4, <3>1, <3>2, StillComing DEF Awaited, Coming
  <2> QED
    BY <1>8, <2>3, <2>4 DEF handle_kv_rollback_ack, RollingBack, finalize_pipeline
<1> QED
    BY <1>6, <1>7, <1>8 DEF Answer

LEMMA ForgottenStep ==
    TypeInv /\ NoZombie /\ NothingForgotten /\ [Next]_vars => NoZombie' /\ NothingForgotten'
<1> SUFFICES ASSUME TypeInv, NoZombie, NothingForgotten, [Next]_vars, ~panicked'
             PROVE  zombie' = {} /\ Coming'
    BY DEF NoZombie, NothingForgotten, Coming
<1>1. CASE UNCHANGED vars
  <2>1. UNCHANGED <<online, leaving, zombie, pipe, shardAt, draftAt, lines, panicked>>
    BY <1>1 DEF vars, registryVars, historyVars
  <2> QED
    BY <2>1 DEF NoZombie, NothingForgotten, Coming, ShardComing, DraftComing
<1>2. CASE Next
  <2>1. /\ panicked' = panicked \/ panicked' = TRUE
        /\ zombie' \subseteq zombie \/ panicked' = TRUE
    BY <1>2 DEF Next, start_pipeline, Tick, RetryShardStep, RetryDraft, Register,
           MarkDraftCapable, Leave, on_disconnect, Answer, TakeShardResult,
           handle_draft_result, handle_kv_rollback_ack, Handler, ApplyLate, ApplyRelay,
           ApplyPrompt, CountFails, CountDone, ApplyVerify, ApplyMalformed, ApplyPanics,
           registryVars, historyVars
  <2>2. Awaited /\ zombie' = {}
    BY <2>1 DEF NoZombie, NothingForgotten, Awaited
  <2>3. \A w \in Wallets : ~ApplyPanics(w)
    BY DEF ApplyPanics
  <2> QED
    BY <1>2, <2>2, <2>3, TicksComing, SessionsComing, HandlersComing, AnswersComing DEF Next
<1> QED
    BY <1>1, <1>2

\* As long as no session panics, a step or a draft that is assigned is with a
\* connected miner that has it still to answer, or with one whose on_disconnect is
\* about to unassign it: nothing that retry_stalled_tick takes for assigned is lost.
THEOREM AssignedIsAwaited == Spec => []NothingForgotten
<1>1. Init => TypeInv /\ NoZombie /\ NothingForgotten
    BY TypeInit DEF Init, NoZombie, NothingForgotten, DraftComing
<1>2. TypeInv /\ NoZombie /\ NothingForgotten /\ [Next]_vars
      => (TypeInv /\ NoZombie /\ NothingForgotten)'
    BY TypeStep, ForgottenStep
<1> QED
    BY <1>1, <1>2, PTL DEF Spec
=============================================================================
