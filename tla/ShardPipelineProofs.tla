------------------------ MODULE ShardPipelineProofs ------------------------
(***************************************************************************)
(* Proofs about ShardPipeline, for any shards, layer ranges and experts,   *)
(* any miners and any number of tokens, when no tick falls into a handler  *)
(* that has no assignment standing (PromptRpc) and no miner answers a busy *)
(* marker (~Repeats).                                                      *)
(***************************************************************************)
EXTENDS ShardPipeline, TLAPS

Handling == {"checked", "resolve", "submit"} \cup Inner \cup Outer

\* A walk is on the miner w.
OnMiner(P, w) == P.pos \in Moe => P.walk # None /\ P.pin = w

\* A pipeline's own state: how far it is, whose output it is waiting on, and
\* that its current step follows the one whose output is its input.
Sound(P) ==
    /\ P.gen = P.tok /\ P.tok < MaxTokens
    /\ P.walk # None =>
        /\ P.pos \in Moe
        /\ LayerStart[P.pos] <= P.walk /\ P.walk <= LastLayer(P.pos)
        /\ P.walk # LayerStart[P.pos] => P.input # None /\ P.input.by = P.pin
    /\ Follows(Current(P), IF P.input = None THEN None ELSE P.input.step)

PipeInv == pipe # None => Sound(pipe) /\ EverySubmitted

\* One caller at a time, for a pipeline that is there.
BusyInv ==
    \A c \in Callers : task[c].at # "idle" =>
        pipe # None /\ \A d \in Callers : task[d].at # "idle" => d = c

\* A handler's session is registered, so that on_disconnect cannot take the
\* assignment away from under it.
LiveInv ==
    /\ online \cap leaving = {}
    /\ \A w \in Wallets : task[w].at # "idle" => w \in online

\* The busy caller holds the assignment, if there is one; once it has taken
\* the result, that is a busy marker.
HoldInv ==
    \A c \in Callers : task[c].at # "idle" =>
        /\ task[c].at \in {"checked", "joinInner", "joinOuter"} => asg # None
        /\ asg # None =>
            /\ asg.wallet = c
            /\ task[c].at \in {"checked", "joinInner", "joinOuter", "choose", "lookup", "insert"}
            /\ asg.open => task[c].at = "checked"

\* An assignment that may be answered is for the current step, on the miner of
\* the walk.
AsgInv ==
    asg # None =>
        /\ pipe # None
        /\ asg.open => asg.step = Current(pipe) /\ OnMiner(pipe, asg.wallet)
        /\ asg.step = Current(pipe) /\ pipe.walk # None => asg.wallet = pipe.pin

\* A handler's result is the current step's, and it is where that step leads.
HandlerInv ==
    \A w \in Wallets : task[w].at \in Handling =>
        /\ task[w].step = Current(pipe)
        /\ OnMiner(pipe, w)
        /\ task[w].at \in Inner =>
            pipe.pos \in Moe /\ IsInterior(task[w].step.lay, pipe.pos)
        /\ task[w].at \in Outer =>
            /\ pipe.pos \in Moe /\ pipe.pos # NumShards
            /\ ~IsInterior(task[w].step.lay, pipe.pos)
            /\ IsLastToken(pipe) => pipe.pos \in submitted
        /\ task[w].at = "submit" => IsLastToken(pipe) /\ IsWhole(w)
        /\ task[w].at \in {"vramInner", "vramOuter"} => task[w].tok = pipe.tok
        /\ task[w].at \in {"joinInner", "joinOuter"} => asg.step = task[w].step

\* What dispatch_current is about to send is the current step; a marker left
\* over from the join is for the step before it.
SendInv ==
    \A c \in Callers :
        /\ task[c].at \in {"lookup", "insert"} =>
            task[c].step = Current(pipe) /\ OnMiner(pipe, task[c].to)
        /\ task[c].at \in {"choose", "lookup", "insert"} /\ asg # None =>
            asg.step # Current(pipe)

\* The inductive invariant.
FlightInv ==
    PipeInv /\ BusyInv /\ LiveInv /\ HoldInv /\ AsgInv /\ HandlerInv /\ SendInv /\ RowIsComplete

-----------------------------------------------------------------------------
(* Layers, steps and what follows a step                                   *)

\* The layer ranges of the DENSE shards are non-empty and adjoin, so that only
\* the last shard ends at the model's last layer.
LEMMA LayerFacts ==
    ASSUME NEW p \in Shards
    PROVE  /\ NumShards \in Shards /\ p \in Nat /\ p >= 1 /\ p <= NumShards
           /\ LayerStart[p] \in Nat /\ LayerEnd[p] \in Nat /\ LayerEnd[NumShards] \in Nat
           /\ LayerStart[p] < LayerEnd[p] /\ LayerEnd[p] <= LayerEnd[NumShards]
           /\ p # NumShards => p + 1 \in Shards /\ LayerEnd[p] < LayerEnd[NumShards]
<1>1. NumShards \in Nat \ {0} /\ NumShards \in Shards /\ p \in Nat /\ p >= 1 /\ p <= NumShards
    BY ConstAssumption DEF Shards
<1>2. /\ LayerStart[p] \in Nat /\ LayerEnd[p] \in Nat /\ LayerEnd[NumShards] \in Nat
      /\ LayerStart[p] < LayerEnd[p] /\ LayerEnd[p] <= LayerEnd[NumShards]
    BY <1>1, ConstAssumption
<1>3. ASSUME p # NumShards
      PROVE  p + 1 \in Shards /\ LayerEnd[p] < LayerEnd[NumShards]
  <2>1. p + 1 \in Shards
      BY <1>1, <1>3 DEF Shards
  <2>2. LayerStart[p + 1] = LayerEnd[p]
    <3>1. p + 1 > 1 /\ (p + 1) - 1 = p
        BY <1>1
    <3> QED BY <2>1, <3>1, ConstAssumption
  <2>3. /\ LayerStart[p + 1] \in Nat /\ LayerEnd[p + 1] \in Nat
        /\ LayerStart[p + 1] < LayerEnd[p + 1] /\ LayerEnd[p + 1] <= LayerEnd[NumShards]
      BY <2>1, ConstAssumption
  <2> QED BY <1>2, <2>1, <2>2, <2>3
<1> QED BY <1>1, <1>2, <1>3

\* The first and last layer of a shard's walk are layers of the model.
LEMMA WalkLayers ==
    ASSUME NEW p \in Shards
    PROVE  /\ FirstLayer(p) \in Layers \cup {None} /\ LastLayer(p) \in Layers \cup {None}
           /\ p \in Moe => /\ FirstLayer(p) = LayerStart[p] /\ FirstLayer(p) \in Layers
                           /\ LastLayer(p) \in Layers /\ LayerStart[p] <= LastLayer(p)
           /\ p \notin Moe => FirstLayer(p) = None /\ LastLayer(p) = None
BY LayerFacts DEF FirstLayer, LastLayer, Layers

\* Layers are numbers, None is not one of them.
LEMMA LayerTypes == Layers \subseteq Nat /\ None \notin Layers
BY ConstAssumption, LayerFacts DEF Layers, Shards

\* The current step of a pipeline is a step.
LEMMA CurrentType ==
    ASSUME NEW P \in Pipelines
    PROVE  /\ Current(P) \in StepIds
           /\ Current(P).tok = P.tok /\ Current(P).pos = P.pos
           /\ P.walk # None => Current(P).lay = P.walk
           /\ P.walk = None => Current(P).lay = FirstLayer(P.pos)
<1>1. P.tok \in Nat /\ P.pos \in Shards /\ P.walk \in Layers \cup {None}
    BY DEF Pipelines
<1>2. FirstLayer(P.pos) \in Layers \cup {None}
    BY <1>1, WalkLayers
<1> QED BY <1>1, <1>2 DEF Current, StepIds

\* A layer that is not interior is the last of its shard's walk, which goes on
\* from any other.
LEMMA InteriorLayers ==
    ASSUME NEW p \in Moe, NEW l \in Layers, LayerStart[p] <= l, l <= LastLayer(p)
    PROVE  /\ ~IsInterior(l, p) <=> l = LastLayer(p)
           /\ IsInterior(l, p) => l + 1 \in Layers /\ l + 1 <= LastLayer(p)
<1>1. p \in Shards
    BY ConstAssumption
<1>2. /\ LayerStart[p] \in Nat /\ LayerEnd[p] \in Nat /\ LayerEnd[NumShards] \in Nat
      /\ LayerStart[p] < LayerEnd[p] /\ LayerEnd[p] <= LayerEnd[NumShards] /\ l \in Nat
    BY <1>1, LayerFacts, LayerTypes
<1> QED BY <1>2 DEF IsInterior, LastLayer, Layers

\* The result of an interior layer takes the walk to the next layer, on the
\* same miner.
LEMMA NextLayerSound ==
    ASSUME NEW P \in Pipelines, NEW w \in Wallets, Sound(P),
           P.walk # None, P.pin = w, IsInterior(P.walk, P.pos)
    PROVE  LET Q == NextLayer(P, Current(P), w)
           IN  /\ Q \in Pipelines /\ Sound(Q) /\ Current(Q) # Current(P)
               /\ Q.tok = P.tok /\ Q.pos = P.pos /\ Q.walk # None /\ Q.pin = w
<1> DEFINE s == Current(P)
           Q == NextLayer(P, s, w)
<1>1. /\ P.tok \in Nat /\ P.pos \in Shards /\ P.walk \in Layers /\ P.pos \in Moe
      /\ P.gen \in Nat /\ P.helpers \in SUBSET Wallets
    BY DEF Pipelines, Sound
<1>2. s \in StepIds /\ s.tok = P.tok /\ s.pos = P.pos /\ s.lay = P.walk
    BY CurrentType
<1>3. P.walk + 1 \in Layers /\ P.walk + 1 <= LastLayer(P.pos) /\ P.walk # LastLayer(P.pos)
    BY <1>1, InteriorLayers DEF Sound
<1>4. /\ Q.tok = P.tok /\ Q.pos = P.pos /\ Q.walk = P.walk + 1 /\ Q.pin = w
      /\ Q.input = [step |-> s, by |-> w] /\ Q.gen = P.gen /\ Q.helpers = P.helpers
      /\ Q \in Pipelines
    BY <1>1, <1>2, <1>3 DEF NextLayer, Pipelines
<1>5. Q.walk # None /\ Q.input # None /\ Q.input.step = s /\ Q.input.by = w
    BY <1>2, <1>3, <1>4, LayerTypes, NoneAssumption
<1>6. Current(Q).tok = P.tok /\ Current(Q).pos = P.pos /\ Current(Q).lay = P.walk + 1
    BY <1>4, <1>5, CurrentType
<1>7. Follows(Current(Q), s)
  <2>1. s # None
      BY <1>2, NoneAssumption
  <2> QED BY <1>2, <1>3, <1>6, <2>1 DEF Follows
<1>8. Sound(Q)
  <2>1. LayerStart[Q.pos] <= Q.walk
      BY <1>1, <1>3, <1>4, LayerTypes, LayerFacts DEF Sound
  <2> QED BY <1>1, <1>3, <1>4, <1>5, <1>7, <2>1 DEF Sound
<1>9. Current(Q) # s
    BY <1>1, <1>2, <1>6, LayerTypes
<1> QED BY <1>4, <1>5, <1>8, <1>9

\* A shard's whole result is that of its last layer.
LEMMA WholeIsLast ==
    ASSUME NEW P \in Pipelines, Sound(P), P.pos \in Moe => P.walk # None,
           ~(Current(P).lay # None /\ IsInterior(Current(P).lay, P.pos))
    PROVE  Current(P).lay = LastLayer(P.pos)
<1>1. P.pos \in Shards /\ P.walk \in Layers \cup {None}
    BY DEF Pipelines
<1>2. CASE P.pos \in Moe
  <2>1. P.walk \in Layers /\ Current(P).lay = P.walk
      BY <1>1, <1>2, CurrentType
  <2> QED BY <1>2, <2>1, InteriorLayers, LayerTypes DEF Sound
<1>3. CASE P.pos \notin Moe
    BY <1>1, <1>3, CurrentType, WalkLayers DEF Sound
<1> QED BY <1>2, <1>3

\* It takes the pipeline to the next shard ..
LEMMA NextShardSound ==
    ASSUME NEW P \in Pipelines, NEW w \in Wallets, Sound(P),
           Current(P).lay = LastLayer(P.pos), P.pos # NumShards
    PROVE  LET Q == NextShard(P, Current(P), w)
           IN  /\ Q \in Pipelines /\ Sound(Q) /\ Current(Q) # Current(P)
               /\ Q.tok = P.tok /\ Q.pos = P.pos + 1 /\ Q.walk = None /\ Q.pin = None
<1> DEFINE s == Current(P)
           Q == NextShard(P, s, w)
<1>1. /\ P.tok \in Nat /\ P.pos \in Shards /\ P.pos \in Nat /\ P.pos + 1 \in Shards
      /\ P.gen \in Nat /\ P.helpers \in SUBSET Wallets
    BY LayerFacts DEF Pipelines
<1>2. s \in StepIds /\ s.tok = P.tok /\ s.pos = P.pos /\ s # None
    BY CurrentType, NoneAssumption
<1>3. /\ Q.tok = P.tok /\ Q.pos = P.pos + 1 /\ Q.walk = None /\ Q.pin = None
      /\ Q.input = [step |-> s, by |-> w] /\ Q.gen = P.gen
      /\ Q \in Pipelines
    BY <1>1, <1>2 DEF NextShard, Pipelines
<1>4. Q.input # None /\ Q.input.step = s
    BY <1>2, <1>3, NoneAssumption
<1>5. /\ Current(Q).tok = P.tok /\ Current(Q).pos = P.pos + 1
      /\ Current(Q).lay = FirstLayer(P.pos + 1)
    BY <1>3, CurrentType
<1>6. Follows(Current(Q), s)
    BY <1>2, <1>5 DEF Follows
<1> QED BY <1>1, <1>2, <1>3, <1>4, <1>5, <1>6 DEF Sound

\* .. or, if that was the last, to the first shard of the next token.
LEMMA NextTokenSound ==
    ASSUME NEW P \in Pipelines, NEW w \in Wallets, Sound(P),
           Current(P).lay = LastLayer(P.pos), P.pos = NumShards, P.tok + 1 < MaxTokens
    PROVE  LET Q == NextToken(P, Current(P), w)
           IN  /\ Q \in Pipelines /\ Sound(Q)
               /\ Q.tok = P.tok + 1 /\ Q.pos = 1 /\ Q.walk = None /\ Q.pin = None
<1> DEFINE s == Current(P)
           Q == NextToken(P, s, w)
<1>1. /\ P.tok \in Nat /\ P.tok + 1 \in Nat /\ 1 \in Shards /\ P.gen = P.tok /\ P.helpers \in SUBSET Wallets
    BY ConstAssumption DEF Pipelines, Sound, Shards
<1>2. s \in StepIds /\ s.tok = P.tok /\ s.pos = P.pos /\ s # None
    BY CurrentType, NoneAssumption
<1>3. /\ Q.tok = P.tok + 1 /\ Q.pos = 1 /\ Q.walk = None /\ Q.pin = None
      /\ Q.input = [step |-> s, by |-> w] /\ Q.gen = P.tok + 1
      /\ Q \in Pipelines
  <2>1. [step |-> s, by |-> w] \in [step : StepIds, by : Wallets]
      BY <1>2
  <2>2. Q.tok = P.tok + 1 /\ Q.gen = P.tok + 1
      BY <1>1 DEF NextToken, Pipelines
  <2>3. Q.pos = 1 /\ Q.walk = None /\ Q.pin = None /\ Q.helpers = P.helpers
      BY DEF NextToken, Pipelines
  <2>4. Q.input = [step |-> s, by |-> w]
      BY DEF NextToken, Pipelines
  <2>5. ASSUME NEW n \in Nat, NEW i \in [step : StepIds, by : Wallets]
        PROVE  [P EXCEPT !.pos = 1, !.tok = n, !.gen = n, !.input = i,
                         !.walk = None, !.pin = None] \in Pipelines
      BY <1>1 DEF Pipelines
  <2>6. Q = [P EXCEPT !.pos = 1, !.tok = P.tok + 1, !.gen = P.tok + 1,
                      !.input = [step |-> s, by |-> w], !.walk = None, !.pin = None]
      BY <1>1 DEF NextToken
  <2> HIDE DEF s, Q
  <2>7. Q \in Pipelines
      BY <1>1, <2>1, <2>5, <2>6, Zenon
  <2> QED BY <2>2, <2>3, <2>4, <2>7
<1>4. Q.input # None /\ Q.input.step = s
    BY <1>2, <1>3, NoneAssumption
<1>5. Current(Q).tok = P.tok + 1 /\ Current(Q).pos = 1 /\ Current(Q).lay = FirstLayer(1)
    BY <1>3, CurrentType
<1>6. Follows(Current(Q), s)
    BY <1>2, <1>5 DEF Follows
<1> QED BY <1>1, <1>3, <1>4, <1>6 DEF Sound

-----------------------------------------------------------------------------
(* Moves of a caller                                                       *)

\* What a caller's move does to its own task, and to no other.
LEMMA TaskMoves ==
    ASSUME task \in [Callers -> Tasks], NEW c \in Callers
    PROVE  /\ Finish(c) =>
                /\ task' \in [Callers -> Tasks] /\ task'[c].at = "idle"
                /\ \A d \in Callers \ {c} : task'[d] = task[d]
           /\ Dispatch(c) =>
                /\ task' \in [Callers -> Tasks] /\ task'[c].at = "choose"
                /\ \A d \in Callers \ {c} : task'[d] = task[d]
           /\ \A at \in Ats : Goto(c, at) =>
                /\ task' \in [Callers -> Tasks] /\ task'[c].at = at
                /\ task'[c].step = task[c].step /\ task'[c].to = task[c].to
                /\ task'[c].tok = task[c].tok
                /\ \A d \in Callers \ {c} : task'[d] = task[d]
<1>1. Idle \in Tasks /\ [Idle EXCEPT !.at = "choose"] \in Tasks
    BY DEF Idle, Tasks, Ats
<1>2. Finish(c) =>
        /\ task' \in [Callers -> Tasks] /\ task'[c].at = "idle"
        /\ \A d \in Callers \ {c} : task'[d] = task[d]
    BY <1>1 DEF Finish, Idle
<1>3. Dispatch(c) =>
        /\ task' \in [Callers -> Tasks] /\ task'[c].at = "choose"
        /\ \A d \in Callers \ {c} : task'[d] = task[d]
    BY <1>1 DEF Dispatch, Idle
<1>4. ASSUME NEW at \in Ats, Goto(c, at)
      PROVE  /\ task' \in [Callers -> Tasks] /\ task'[c].at = at
             /\ task'[c].step = task[c].step /\ task'[c].to = task[c].to
             /\ task'[c].tok = task[c].tok
             /\ \A d \in Callers \ {c} : task'[d] = task[d]
  <2>1. task[c] \in Tasks
      OBVIOUS
  <2>2. [task[c] EXCEPT !.at = at] \in Tasks
      BY <2>1 DEF Tasks
  <2>3. task' = [task EXCEPT ![c] = [task[c] EXCEPT !.at = at]]
      BY <1>4 DEF Goto
  <2> QED BY <2>1, <2>2, <2>3 DEF Tasks
<1> QED BY <1>2, <1>3, <1>4

\* The contributions are all that Helped changes.
LEMMA HelpedSame ==
    ASSUME pipe \in Pipelines, NEW w \in Wallets
    PROVE  LET P == Helped(w)
           IN  /\ P \in Pipelines /\ P.tok = pipe.tok /\ P.pos = pipe.pos
               /\ P.walk = pipe.walk /\ P.pin = pipe.pin /\ P.gen = pipe.gen
               /\ Current(P) = Current(pipe) /\ (Sound(pipe) => Sound(P))
               /\ P # None
<1> DEFINE P == Helped(w)
<1>1. /\ P \in Pipelines /\ P.tok = pipe.tok /\ P.pos = pipe.pos
      /\ P.walk = pipe.walk /\ P.pin = pipe.pin /\ P.gen = pipe.gen /\ P.input = pipe.input
    BY DEF Helped, Pipelines
<1>2. P # None
    BY <1>1, NoneAssumption
<1> HIDE DEF P
<1>3. Current(P) = Current(pipe)
    BY <1>1 DEF Current
<1>4. Sound(pipe) => Sound(P)
    BY <1>1, <1>3 DEF Sound
<1> QED BY <1>1, <1>2, <1>3, <1>4 DEF P

\* While a caller is busy, nobody else is.
LEMMA OthersIdle ==
    ASSUME TypeOK, FlightInv, NEW c \in Callers, task[c].at # "idle"
    PROVE  /\ pipe \in Pipelines /\ Sound(pipe) /\ EverySubmitted
           /\ \A d \in Callers \ {c} : task[d].at = "idle"
BY DEF TypeOK, FlightInv, BusyInv, PipeInv

\* A caller that just returns leaves the invariants as they are.
LEMMA FinishKeeps ==
    ASSUME TypeOK, FlightInv, NEW c \in Callers, Finish(c),
           UNCHANGED <<pipe, asg, row, submitted>>,
           LiveInv'
    PROVE  FlightInv'
<1>1. /\ task'[c].at = "idle" /\ \A d \in Callers \ {c} : task'[d] = task[d]
    BY TaskMoves DEF TypeOK
<1>2. Wallets \subseteq Callers
    BY DEF Callers
<1>3. PipeInv' /\ RowIsComplete' /\ AsgInv'
    BY DEF FlightInv, PipeInv, EverySubmitted, RowIsComplete, AsgInv
<1>4. BusyInv' /\ HoldInv'
    BY <1>1 DEF FlightInv, BusyInv, HoldInv
<1>5. HandlerInv'
  <2> SUFFICES ASSUME NEW w \in Wallets, task'[w].at \in Handling
               PROVE  task'[w] = task[w]
      BY DEF FlightInv, HandlerInv, IsWhole
  <2> QED BY <1>1, <1>2 DEF Handling, Inner, Outer
<1>6. SendInv'
    BY <1>1 DEF FlightInv, SendInv
<1> QED BY <1>3, <1>4, <1>5, <1>6 DEF FlightInv

\* A caller that returns and leaves no assignment, nor maybe a pipeline, leaves
\* nobody busy.
LEMMA ReturnKeeps ==
    ASSUME TypeOK, FlightInv, NEW c \in Callers, task[c].at # "idle", Finish(c),
           PipeInv', asg' = None, RowIsComplete',
           UNCHANGED <<online, leaving>>
    PROVE  FlightInv'
<1>1. \A d \in Callers : task'[d].at = "idle"
    BY TaskMoves, OthersIdle DEF TypeOK
<1>2. \A w \in Wallets : task'[w].at = "idle"
    BY <1>1 DEF Callers
<1>3. AsgInv'
    BY DEF AsgInv
<1>4. BusyInv' /\ HoldInv' /\ SendInv'
    BY <1>1 DEF BusyInv, HoldInv, SendInv
<1>5. LiveInv' /\ HandlerInv'
    BY <1>2 DEF FlightInv, LiveInv, HandlerInv, Handling, Inner, Outer
<1> QED BY <1>3, <1>4, <1>5 DEF FlightInv

\* A busy caller goes on to dispatch the step its pipeline has reached; a
\* marker that still stands is not for that step.
LEMMA DispatchKeeps ==
    ASSUME TypeOK, FlightInv, NEW c \in Callers, Dispatch(c),
           task[c].at \notin {"idle", "checked"},
           pipe' \in Pipelines, Sound(pipe'), EverySubmitted',
           asg # None => asg.step # Current(pipe'),
           UNCHANGED <<online, leaving, asg, row>>
    PROVE  FlightInv'
<1>1. /\ task'[c].at = "choose"
      /\ \A d \in Callers \ {c} : task'[d].at = "idle" /\ task'[d] = task[d]
    BY TaskMoves, OthersIdle DEF TypeOK
<1>2. pipe' # None
    BY NoneAssumption
<1>3. asg # None => asg.wallet = c /\ ~asg.open
    BY DEF FlightInv, HoldInv
<1>4. PipeInv' /\ RowIsComplete' /\ AsgInv'
    BY <1>2, <1>3 DEF FlightInv, PipeInv, RowIsComplete, AsgInv
<1>5. BusyInv'
    BY <1>1, <1>2 DEF BusyInv
<1>6. HoldInv'
    BY <1>1, <1>3 DEF HoldInv
<1>7. SendInv'
    BY <1>1 DEF SendInv
<1>8. LiveInv'
    BY <1>1 DEF FlightInv, LiveInv, Callers
<1>9. HandlerInv'
    BY <1>1 DEF HandlerInv, Handling, Inner, Outer, Callers
<1> QED BY <1>4, <1>5, <1>6, <1>7, <1>8, <1>9 DEF FlightInv

\* A handler goes on, at a step without an assignment, with the same result of
\* the same step of the pipeline.
LEMMA HandlerMoves ==
    ASSUME TypeOK, FlightInv, NEW w \in Wallets, task[w].at # "idle",
           task'[w].at \in {"resolve", "submit", "vramInner", "vramOuter"},
           task'[w].step = task[w].step, task[w].step = Current(pipe'),
           \A d \in Callers \ {w} : task'[d] = task[d],
           pipe' \in Pipelines, Sound(pipe'), EverySubmitted', asg' = None,
           OnMiner(pipe', w),
           task'[w].at = "vramInner" =>
               pipe'.pos \in Moe /\ IsInterior(task[w].step.lay, pipe'.pos),
           task'[w].at = "vramOuter" =>
               /\ pipe'.pos \in Moe /\ pipe'.pos # NumShards
               /\ ~IsInterior(task[w].step.lay, pipe'.pos)
               /\ IsLastToken(pipe') => pipe'.pos \in submitted',
           task'[w].at = "submit" => IsLastToken(pipe') /\ IsWhole(w)',
           task'[w].at \in {"vramInner", "vramOuter"} => task'[w].tok = pipe'.tok,
           UNCHANGED <<online, leaving, row>>
    PROVE  FlightInv'
<1>1. w \in Callers /\ \A d \in Callers \ {w} : task'[d].at = "idle"
    BY OthersIdle DEF Callers
<1>2. pipe' # None
    BY NoneAssumption
<1>3. PipeInv' /\ RowIsComplete' /\ AsgInv'
    BY <1>2 DEF FlightInv, PipeInv, RowIsComplete, AsgInv
<1>4. BusyInv'
    BY <1>1, <1>2 DEF BusyInv
<1>5. HoldInv' /\ SendInv'
    BY <1>1 DEF HoldInv, SendInv
<1>6. LiveInv'
    BY <1>1 DEF FlightInv, LiveInv, Callers
<1>7. HandlerInv'
  <2>1. \A v \in Wallets : task'[v].at \in Handling => v = w
      BY <1>1 DEF Handling, Inner, Outer, Callers
  <2> QED BY <2>1 DEF HandlerInv, Inner, Outer
<1> QED BY <1>3, <1>4, <1>5, <1>6, <1>7 DEF FlightInv

-----------------------------------------------------------------------------
(* handle_shard_result_inner                                               *)

\* The move of a handler that goes to the experts.
EnterVram(c, at, n) == task' = [task EXCEPT ![c].at = at, ![c].tok = n]

\* It changes where the handler is and the token_index it has read.
LEMMA ToVram ==
    ASSUME task \in [Callers -> Tasks], NEW c \in Callers, NEW at \in Ats, NEW n \in Nat,
           EnterVram(c, at, n)
    PROVE  /\ task' \in [Callers -> Tasks]
           /\ task'[c].at = at /\ task'[c].tok = n
           /\ task'[c].step = task[c].step /\ task'[c].to = task[c].to
           /\ \A d \in Callers \ {c} : task'[d] = task[d]
<1>1. task[c] \in Tasks
    OBVIOUS
<1>2. [task[c] EXCEPT !.at = at, !.tok = n] \in Tasks
    BY <1>1 DEF Tasks
<1>3. task' = [task EXCEPT ![c] = [task[c] EXCEPT !.at = at, !.tok = n]]
    BY DEF EnterVram
<1> QED BY <1>1, <1>2, <1>3 DEF Tasks

\* The result of an interior layer: to its experts, stalled or dropped.
LEMMA RouteInteriorKeeps ==
    ASSUME TypeOK, FlightInv, NEW w \in Wallets, RouteInterior(w)
    PROVE  FlightInv'
<1> DEFINE P == Helped(w)
<1>1. w \in Callers /\ task[w].at = "resolve" /\ UNCHANGED <<online, leaving, asg, row, submitted>>
    BY DEF RouteInterior, Callers
<1>2. pipe \in Pipelines /\ Sound(pipe) /\ EverySubmitted /\ pipe # None
    BY <1>1, OthersIdle, NoneAssumption
<1>3. /\ P \in Pipelines /\ P.tok = pipe.tok /\ P.pos = pipe.pos /\ P.tok \in Nat
      /\ P.walk = pipe.walk /\ P.pin = pipe.pin
      /\ Current(P) = Current(pipe) /\ Sound(P) /\ P # None
    BY <1>2, HelpedSame DEF Pipelines
<1> HIDE DEF P
<1>4. asg = None /\ task[w].step = Current(pipe) /\ OnMiner(pipe, w)
    BY <1>1 DEF FlightInv, HoldInv, HandlerInv, Handling
<1>5. RowIsComplete' /\ (pipe' = P => EverySubmitted') /\ (pipe' \in {P, None} => PipeInv')
  <2>1. RowIsComplete'
      BY <1>1 DEF FlightInv, RowIsComplete
  <2>2. pipe' = P => EverySubmitted'
      BY <1>1, <1>2, <1>3 DEF EverySubmitted, IsLastToken
  <2> QED BY <1>3, <2>1, <2>2 DEF PipeInv
<1>6. CASE pipe.pos \in Moe /\ pipe' = P /\ EnterVram(w, "vramInner", P.tok)
  <2>1. /\ task'[w].at = "vramInner" /\ task'[w].tok = P.tok /\ task'[w].step = task[w].step
        /\ \A d \in Callers \ {w} : task'[d] = task[d]
    <3>1. "vramInner" \in Ats /\ task \in [Callers -> Tasks]
        BY DEF TypeOK, Ats, Inner
    <3> QED BY <1>1, <1>3, <1>6, <3>1, ToVram
  <2>2. IsInterior(task[w].step.lay, pipe.pos)
      BY DEF RouteInterior
  <2> QED BY <1>1, <1>3, <1>4, <1>5, <1>6, <2>1, <2>2, HandlerMoves DEF OnMiner
<1>7. CASE Finish(w) /\ pipe' \in {P, None}
    BY <1>1, <1>4, <1>5, <1>7, ReturnKeeps
<1> QED BY <1>6, <1>7 DEF RouteInterior, ToExperts, EnterVram, P

\* A shard's whole result advances the pipeline, once its result is submitted
\* if the token is the last one.
LEMMA AdvanceKeeps ==
    ASSUME TypeOK, FlightInv, NEW w \in Wallets, task[w].at \in {"resolve", "submit"},
           IsWhole(w), NEW P \in Pipelines, Sound(P), Current(P) = Current(pipe),
           P.tok = pipe.tok, P.pos = pipe.pos, P.walk = pipe.walk, P.pin = pipe.pin,
           NEW last \in BOOLEAN, last <=> IsLastToken(P), Advance(w, P, last),
           submitted' = IF last THEN submitted \cup {P.pos} ELSE submitted,
           UNCHANGED <<online, leaving, asg>>
    PROVE  FlightInv'
<1>1. /\ w \in Callers /\ P # None /\ P.tok \in Nat /\ P.pos \in Shards /\ P.gen \in Nat
      /\ MaxTokens \in Nat
    BY NoneAssumption, ConstAssumption DEF Callers, Pipelines
<1>2. asg = None /\ task[w].step = Current(P) /\ OnMiner(P, w) /\ EverySubmitted /\ pipe # None
    BY <1>1, OthersIdle, NoneAssumption
       DEF FlightInv, HoldInv, HandlerInv, Handling, OnMiner
<1>3. Current(P).lay = LastLayer(P.pos)
    BY <1>2, WholeIsLast DEF IsWhole, OnMiner
<1>4. IsLastToken(P) => P.pos \in submitted' /\ \A p \in Shards : p < P.pos => p \in submitted'
    BY <1>2 DEF EverySubmitted, IsLastToken
<1>5. row' = row => RowIsComplete'
    BY DEF FlightInv, RowIsComplete
<1>6. (pipe' = P => EverySubmitted') /\ (pipe' \in {P, None} => PipeInv')
    BY <1>1, <1>4 DEF EverySubmitted, PipeInv
<1>7. CASE /\ ~IsLastShard(P) /\ P.pos \in Moe /\ row' = row /\ pipe' = P
           /\ EnterVram(w, "vramOuter", P.tok)
  <2>1. /\ task'[w].at = "vramOuter" /\ task'[w].tok = P.tok /\ task'[w].step = task[w].step
        /\ \A d \in Callers \ {w} : task'[d] = task[d]
    <3>1. "vramOuter" \in Ats /\ task \in [Callers -> Tasks]
        BY DEF TypeOK, Ats, Outer
    <3> QED BY <1>1, <1>7, <3>1, ToVram
  <2>2. ~IsInterior(Current(P).lay, P.pos)
    <3>1. Current(P).lay \in Layers
        BY <1>1, <1>3, <1>7, WalkLayers
    <3> QED BY <1>2, <3>1, LayerTypes DEF IsWhole
  <2> QED BY <1>2, <1>4, <1>6, <1>7, <2>1, <2>2, HandlerMoves DEF IsLastShard
<1>8. CASE Finish(w) /\ pipe' \in {P, None} /\ row' = row
    BY <1>1, <1>2, <1>5, <1>6, <1>8, ReturnKeeps
<1>9. CASE /\ ~IsLastShard(P) /\ row' = row
           /\ pipe' = NextShard(P, task[w].step, w) /\ Dispatch(w)
  <2>1. /\ pipe' \in Pipelines /\ Sound(pipe') /\ pipe'.tok = P.tok /\ pipe'.pos = P.pos + 1
      BY <1>2, <1>3, <1>9, NextShardSound DEF IsLastShard
  <2>2. EverySubmitted'
    <3>1. \A p \in Shards : p < P.pos + 1 => p < P.pos \/ p = P.pos
        BY <1>1 DEF Shards
    <3> QED BY <1>4, <2>1, <3>1 DEF EverySubmitted, IsLastToken
  <2> QED BY <1>1, <1>2, <1>9, <2>1, <2>2, DispatchKeeps
<1>10. CASE /\ IsLastShard(P) /\ ~last /\ row' = row
            /\ pipe' = NextToken(P, task[w].step, w) /\ Dispatch(w)
  <2>1. pipe' \in Pipelines /\ Sound(pipe') /\ pipe'.pos = 1
    <3>1. P.tok + 1 < MaxTokens
        BY <1>1, <1>10 DEF IsLastToken
    <3> QED BY <1>2, <1>3, <1>10, <3>1, NextTokenSound DEF IsLastShard
  <2>2. EverySubmitted'
      BY <2>1 DEF EverySubmitted, Shards
  <2> QED BY <1>1, <1>2, <1>10, <2>1, <2>2, DispatchKeeps
<1>11. CASE IsLastShard(P) /\ last /\ Finalize(w, P)
  <2>1. P.gen + 1 = MaxTokens
      BY <1>1, <1>11 DEF IsLastToken, Sound
  <2>2. RowIsComplete'
      BY <1>5, <1>11, <2>1 DEF Finalize, RowIsComplete
  <2> QED BY <1>1, <1>2, <1>6, <1>11, <2>2, ReturnKeeps DEF Finalize
<1> QED BY <1>7, <1>8, <1>9, <1>10, <1>11 DEF Advance, ToExperts, EnterVram

\* Every step of a handler keeps the invariants.
LEMMA HandlerKeeps ==
    ASSUME TypeOK, FlightInv, NEW w \in Wallets, Handler(w)
    PROVE  FlightInv'
<1>0. w \in Callers /\ task \in [Callers -> Tasks] /\ {"resolve", "submit"} \cup Inner \cup Outer \subseteq Ats
    BY DEF Callers, TypeOK, Ats
<1>1. CASE TakeAssignment(w)
  <2>1. task[w].at = "checked" /\ asg' = None /\ UNCHANGED <<online, leaving, pipe, row, submitted>>
      BY <1>1 DEF TakeAssignment
  <2>2. pipe \in Pipelines /\ Sound(pipe) /\ EverySubmitted /\ pipe # None
      BY <1>0, <2>1, OthersIdle, NoneAssumption
  <2>3. /\ task'[w].at = "resolve" /\ task'[w].step = task[w].step
        /\ \A d \in Callers \ {w} : task'[d] = task[d]
      BY <1>0, <1>1, <2>2, TaskMoves DEF TakeAssignment
  <2>4. task[w].step = Current(pipe) /\ OnMiner(pipe, w)
      BY <2>1 DEF FlightInv, HandlerInv, Handling
  <2>5. EverySubmitted'
      BY <2>1, <2>2 DEF EverySubmitted
  <2> QED BY <2>1, <2>2, <2>3, <2>4, <2>5, HandlerMoves
<1>2. CASE Refuse(w) \/ SubmitRefused(w)
  <2>1. Finish(w) /\ UNCHANGED <<online, leaving, pipe, asg, row, submitted>>
      BY <1>2 DEF Refuse, SubmitRefused
  <2>2. LiveInv'
      BY <1>0, <2>1, TaskMoves DEF FlightInv, LiveInv, Callers
  <2> QED BY <1>0, <2>1, <2>2, FinishKeeps
<1>3. CASE RouteInterior(w)
    BY <1>3, RouteInteriorKeeps
<1>4. CASE RouteWhole(w)
  <2>1. /\ task[w].at = "resolve" /\ IsWhole(w) /\ ~IsLastToken(pipe)
        /\ Advance(w, Helped(w), FALSE) /\ UNCHANGED <<online, leaving, asg, submitted>>
      BY <1>4 DEF RouteWhole
  <2>2. pipe \in Pipelines /\ Sound(pipe)
      BY <1>0, <2>1, OthersIdle
  <2>3. ~IsLastToken(Helped(w))
      BY <2>1, <2>2, HelpedSame DEF IsLastToken
  <2> QED BY <2>1, <2>2, <2>3, HelpedSame, AdvanceKeeps
<1>5. CASE RouteSubmit(w)
  <2> DEFINE P == Helped(w)
  <2>1. /\ task[w].at = "resolve" /\ IsWhole(w) /\ IsLastToken(pipe)
        /\ Goto(w, "submit") /\ pipe' = P /\ UNCHANGED <<online, leaving, asg, row, submitted>>
      BY <1>5 DEF RouteSubmit
  <2>2. pipe \in Pipelines /\ Sound(pipe) /\ EverySubmitted /\ pipe # None
      BY <1>0, <2>1, OthersIdle, NoneAssumption
  <2>3. /\ P \in Pipelines /\ P.tok = pipe.tok /\ P.pos = pipe.pos
        /\ P.walk = pipe.walk /\ P.pin = pipe.pin
        /\ Current(P) = Current(pipe) /\ Sound(P) /\ P # None
      BY <2>2, HelpedSame
  <2> HIDE DEF P
  <2>4. /\ task'[w].at = "submit" /\ task'[w].step = task[w].step
        /\ \A d \in Callers \ {w} : task'[d] = task[d]
      BY <1>0, <2>1, TaskMoves
  <2>5. asg = None /\ task[w].step = Current(pipe) /\ OnMiner(pipe, w)
      BY <1>0, <2>1 DEF FlightInv, HoldInv, HandlerInv, Handling
  <2>6. EverySubmitted' /\ IsLastToken(P) /\ IsWhole(w)'
      BY <2>1, <2>2, <2>3, <2>4 DEF EverySubmitted, IsLastToken, IsWhole
  <2>7. OnMiner(P, w)
      BY <2>3, <2>5 DEF OnMiner
  <2> QED BY <2>1, <2>3, <2>4, <2>5, <2>6, <2>7, HandlerMoves
<1>6. CASE SubmitAccepted(w)
  <2>1. task[w].at = "submit" /\ UNCHANGED <<online, leaving, asg>>
      BY <1>6 DEF SubmitAccepted
  <2>2. pipe \in Pipelines /\ Sound(pipe) /\ pipe # None
      BY <1>0, <2>1, OthersIdle, NoneAssumption
  <2>3. IsLastToken(pipe) /\ IsWhole(w) /\ task[w].step = Current(pipe)
      BY <2>1 DEF FlightInv, HandlerInv, Handling
  <2>4. task[w].step.pos = pipe.pos
      BY <2>2, <2>3, CurrentType
  <2>5. Advance(w, pipe, TRUE) /\ submitted' = submitted \cup {pipe.pos}
      BY <1>6, <2>2, <2>4 DEF SubmitAccepted
  <2> QED BY <2>1, <2>2, <2>3, <2>5, AdvanceKeeps
<1>7. CASE FanOut(w)
  <2>1. /\ task[w].at \in {"vramInner", "vramOuter"}
        /\ UNCHANGED <<online, leaving, pipe, row, submitted>>
      BY <1>7 DEF FanOut
  <2>2. /\ pipe \in Pipelines /\ Sound(pipe) /\ EverySubmitted /\ pipe # None
        /\ \A d \in Callers \ {w} : task[d].at = "idle"
      BY <1>0, <2>1, OthersIdle, NoneAssumption
  <2>3. /\ task[w].step = Current(pipe) /\ pipe.pos \in Moe /\ pipe.walk # None /\ pipe.pin = w
        /\ task[w].tok = pipe.tok
      BY <2>1 DEF FlightInv, HandlerInv, Handling, OnMiner, Inner, Outer
  <2>4. [task[w].step EXCEPT !.tok = task[w].tok] = task[w].step
    <3>1. task[w].step \in StepIds /\ task[w].step.tok = task[w].tok
        BY <2>2, <2>3, CurrentType
    <3> QED BY <3>1 DEF StepIds
  <2>5. asg' = [wallet |-> w, step |-> task[w].step, open |-> FALSE]
      BY <1>7, <2>2, <2>3, <2>4 DEF FanOut
  <2>6. /\ asg' \in Assignments /\ asg' # None
        /\ asg'.wallet = w /\ asg'.step = task[w].step /\ asg'.open = FALSE
    <3>1. task[w].step \in StepIds
        BY <2>2, <2>3, CurrentType
    <3>2. asg' \in Assignments
        BY <2>5, <3>1 DEF Assignments
    <3> QED BY <2>5, <3>2, NoneAssumption
  <2>7. /\ task'[w].at = IF task[w].at = "vramInner" THEN "joinInner" ELSE "joinOuter"
        /\ task'[w].step = task[w].step
        /\ \A d \in Callers \ {w} : task'[d].at = "idle"
      BY <1>0, <1>7, <2>2, TaskMoves DEF FanOut, Inner, Outer
  <2>8. PipeInv' /\ RowIsComplete'
      BY <2>1 DEF FlightInv, PipeInv, EverySubmitted, RowIsComplete
  <2>9. BusyInv' /\ HoldInv'
      BY <2>1, <2>2, <2>6, <2>7 DEF BusyInv, HoldInv
  <2>10. AsgInv'
      BY <2>1, <2>2, <2>3, <2>6 DEF AsgInv
  <2>11. LiveInv' /\ SendInv'
      BY <2>1, <2>7 DEF FlightInv, LiveInv, SendInv, Callers
  <2>12. HandlerInv'
    <3>1. \A v \in Wallets : task'[v].at \in Handling => v = w
        BY <2>7 DEF Handling, Inner, Outer, Callers
    <3>2. /\ task[w].at = "vramInner" => IsInterior(task[w].step.lay, pipe.pos)
          /\ task[w].at = "vramOuter" =>
                /\ pipe.pos # NumShards /\ ~IsInterior(task[w].step.lay, pipe.pos)
                /\ IsLastToken(pipe) => pipe.pos \in submitted
        BY <2>1 DEF FlightInv, HandlerInv, Handling, Inner, Outer
    <3>3. OnMiner(pipe, w)
        BY <2>3 DEF OnMiner
    <3> QED BY <2>1, <2>3, <2>6, <2>7, <3>1, <3>2, <3>3 DEF HandlerInv, Inner, Outer
  <2> QED BY <2>8, <2>9, <2>10, <2>11, <2>12 DEF FlightInv
<1>8. CASE JoinSucceeds(w)
  <2>1. /\ task[w].at \in {"joinInner", "joinOuter"} /\ Dispatch(w)
        /\ UNCHANGED <<online, leaving, asg, row, submitted>>
      BY <1>8 DEF JoinSucceeds
  <2>2. pipe \in Pipelines /\ Sound(pipe) /\ EverySubmitted /\ pipe # None
      BY <1>0, <2>1, OthersIdle, NoneAssumption
  <2>3. /\ task[w].step = Current(pipe) /\ asg.step = Current(pipe)
        /\ pipe.walk # None /\ pipe.pin = w /\ pipe.pos \in Moe
      BY <2>1 DEF FlightInv, HandlerInv, Handling, OnMiner, Inner, Outer
  <2>4. Current(pipe).lay = pipe.walk
      BY <2>2, <2>3, CurrentType
  <2>5. CASE task[w].at = "joinInner"
    <3>1. pipe' = NextLayer(pipe, Current(pipe), w) /\ IsInterior(pipe.walk, pipe.pos)
        BY <1>8, <2>2, <2>3, <2>4, <2>5 DEF JoinSucceeds, FlightInv, HandlerInv, Handling, Inner
    <3>2. /\ pipe' \in Pipelines /\ Sound(pipe') /\ Current(pipe') # Current(pipe)
          /\ pipe'.tok = pipe.tok /\ pipe'.pos = pipe.pos
        BY <2>2, <2>3, <3>1, NextLayerSound
    <3>3. EverySubmitted'
        BY <2>1, <2>2, <3>2 DEF EverySubmitted, IsLastToken
    <3> QED BY <1>0, <2>1, <2>3, <3>2, <3>3, DispatchKeeps
  <2>6. CASE task[w].at = "joinOuter"
    <3>1. /\ pipe' = NextShard(pipe, Current(pipe), w)
          /\ ~IsInterior(pipe.walk, pipe.pos) /\ pipe.pos # NumShards
          /\ IsLastToken(pipe) => pipe.pos \in submitted
        BY <1>8, <2>2, <2>3, <2>4, <2>6 DEF JoinSucceeds, FlightInv, HandlerInv, Handling, Outer
    <3>2. Current(pipe).lay = LastLayer(pipe.pos)
        BY <2>2, <2>3, <2>4, <3>1, WholeIsLast
    <3>3. /\ pipe' \in Pipelines /\ Sound(pipe') /\ Current(pipe') # Current(pipe)
          /\ pipe'.tok = pipe.tok /\ pipe'.pos = pipe.pos + 1
        BY <2>2, <3>1, <3>2, NextShardSound
    <3>4. EverySubmitted'
      <4>1. \A p \in Shards : p < pipe.pos + 1 => p < pipe.pos \/ p = pipe.pos
          BY <2>2 DEF Shards, Pipelines
      <4> QED BY <2>1, <2>2, <3>1, <3>3, <4>1 DEF EverySubmitted, IsLastToken
    <3> QED BY <1>0, <2>1, <2>3, <3>3, <3>4, DispatchKeeps
  <2> QED BY <2>1, <2>5, <2>6
<1>9. CASE JoinFails(w)
  <2>1. /\ task[w].at # "idle" /\ asg' = None /\ Finish(w)
        /\ UNCHANGED <<online, leaving, pipe, row, submitted>>
      BY <1>9 DEF JoinFails
  <2>2. PipeInv' /\ RowIsComplete'
      BY <2>1 DEF FlightInv, PipeInv, EverySubmitted, RowIsComplete
  <2> QED BY <1>0, <2>1, <2>2, ReturnKeeps
<1> QED BY <1>1, <1>2, <1>3, <1>4, <1>5, <1>6, <1>7, <1>8, <1>9 DEF Handler

-----------------------------------------------------------------------------
(* dispatch_current, the poll tick and the sessions                        *)

\* dispatch_current picks, looks up and records the current step.
LEMMA DispatchCurrentKeeps ==
    ASSUME TypeOK, FlightInv, NEW c \in Callers, DispatchCurrent(c)
    PROVE  FlightInv'
<1>0. task \in [Callers -> Tasks] /\ Wallets \subseteq Callers /\ "insert" \in Ats
    BY DEF TypeOK, Callers, Ats
<1>1. CASE ChooseNobody(c) \/ (LookUp(c) /\ task[c].to \notin online)
  <2>1. Finish(c) /\ UNCHANGED <<online, leaving, pipe, asg, row, submitted>>
      BY <1>1 DEF ChooseNobody, LookUp
  <2>2. LiveInv'
      BY <1>0, <2>1, TaskMoves DEF FlightInv, LiveInv
  <2> QED BY <2>1, <2>2, FinishKeeps
<1>2. CASE ChooseDrops(c)
  <2>1. /\ task[c].at # "idle" /\ Finish(c) /\ pipe' = None /\ asg' = None
        /\ UNCHANGED <<online, leaving, row, submitted>>
      BY <1>2 DEF ChooseDrops
  <2>2. PipeInv' /\ RowIsComplete'
      BY <2>1 DEF FlightInv, PipeInv, RowIsComplete
  <2> QED BY <2>1, <2>2, ReturnKeeps
<1>3. CASE Choose(c)
  <2>1. task[c].at = "choose" /\ UNCHANGED <<online, leaving, asg, row, submitted>>
      BY <1>3 DEF Choose
  <2>2. /\ pipe \in Pipelines /\ Sound(pipe) /\ EverySubmitted /\ pipe # None
        /\ \A d \in Callers \ {c} : task[d].at = "idle"
      BY <2>1, OthersIdle, NoneAssumption
  <2>3. PICK w \in online :
            /\ pipe.walk # None => w = pipe.pin
            /\ task' = [task EXCEPT ![c] = [Idle EXCEPT !.at = "lookup", !.step = Current(pipe), !.to = w]]
            /\ pipe' = IF pipe.pos \in Moe
                       THEN [pipe EXCEPT !.walk = Current(pipe).lay, !.pin = w] ELSE pipe
      BY <1>3 DEF Choose
  <2>4. w \in Wallets /\ w # None
      BY ConstAssumption DEF TypeOK
  <2>5. /\ task'[c].at = "lookup" /\ task'[c].step = Current(pipe) /\ task'[c].to = w
        /\ \A d \in Callers \ {c} : task'[d].at = "idle"
      BY <1>0, <2>2, <2>3 DEF Idle
  <2>6. /\ pipe' \in Pipelines /\ pipe'.tok = pipe.tok /\ pipe'.pos = pipe.pos
        /\ pipe'.gen = pipe.gen /\ pipe'.input = pipe.input
        /\ pipe.pos \in Moe => pipe'.walk = Current(pipe).lay /\ pipe'.pin = w /\ pipe'.walk \in Layers
        /\ pipe.pos \notin Moe => pipe' = pipe /\ pipe.walk = None
    <3>1. CASE pipe.pos \in Moe
      <4>1. Current(pipe).lay \in Layers
          BY <2>2, <3>1, CurrentType, WalkLayers DEF Pipelines
      <4> HIDE DEF Current
      <4> QED BY <2>2, <2>3, <2>4, <3>1, <4>1 DEF Pipelines
    <3>2. CASE pipe.pos \notin Moe
        BY <2>2, <2>3, <3>2 DEF Sound
    <3> QED BY <3>1, <3>2
  <2>7. Current(pipe') = Current(pipe)
    <3>1. CASE pipe.pos \in Moe
      <4>1. pipe'.walk # None
          BY <2>6, <3>1, LayerTypes
      <4> QED BY <2>6, <3>1, <4>1 DEF Current
    <3>2. CASE pipe.pos \notin Moe
        BY <2>6, <3>2
    <3> QED BY <3>1, <3>2
  <2>8. Sound(pipe')
    <3>1. CASE pipe.pos \in Moe /\ pipe.walk = None
      <4>1. pipe'.walk = LayerStart[pipe.pos] /\ LayerStart[pipe.pos] <= LastLayer(pipe.pos)
            /\ LayerStart[pipe.pos] \in Nat
          BY <2>2, <2>6, <3>1, CurrentType, WalkLayers, LayerFacts DEF Pipelines
      <4> QED BY <2>2, <2>6, <2>7, <3>1, <4>1 DEF Sound
    <3>2. CASE pipe.pos \in Moe /\ pipe.walk # None
      <4>1. pipe'.walk = pipe.walk /\ pipe'.pin = pipe.pin
          BY <2>2, <2>3, <2>6, <3>2, CurrentType
      <4> QED BY <2>2, <2>6, <2>7, <3>2, <4>1 DEF Sound
    <3>3. CASE pipe.pos \notin Moe
        BY <2>2, <2>6, <3>3
    <3> QED BY <3>1, <3>2, <3>3
  <2>9. /\ pipe' # None /\ OnMiner(pipe', w)
      BY <2>6, NoneAssumption, LayerTypes DEF OnMiner
  <2>10. PipeInv' /\ RowIsComplete'
      BY <2>1, <2>2, <2>6, <2>8 DEF FlightInv, PipeInv, EverySubmitted, IsLastToken, RowIsComplete
  <2>11. asg # None => asg.wallet = c /\ ~asg.open /\ asg.step # Current(pipe)
      BY <2>1 DEF FlightInv, HoldInv, SendInv
  <2>12. BusyInv' /\ HoldInv' /\ AsgInv'
      BY <2>1, <2>5, <2>7, <2>9, <2>11 DEF BusyInv, HoldInv, AsgInv
  <2>13. SendInv'
      BY <2>1, <2>5, <2>7, <2>9, <2>11 DEF SendInv
  <2>14. LiveInv' /\ HandlerInv'
      BY <1>0, <2>1, <2>5 DEF FlightInv, LiveInv, HandlerInv, Handling, Inner, Outer
  <2> QED BY <2>10, <2>12, <2>13, <2>14 DEF FlightInv
<1>4. CASE LookUp(c) /\ task[c].to \in online
  <2>1. /\ task[c].at = "lookup" /\ Goto(c, "insert")
        /\ UNCHANGED <<online, leaving, pipe, asg, row, submitted>>
      BY <1>4 DEF LookUp
  <2>2. \A d \in Callers \ {c} : task[d].at = "idle"
      BY <2>1, OthersIdle
  <2>3. /\ task'[c].at = "insert" /\ task'[c].step = task[c].step /\ task'[c].to = task[c].to
        /\ \A d \in Callers \ {c} : task'[d].at = "idle"
      BY <1>0, <2>1, <2>2, TaskMoves
  <2>4. PipeInv' /\ RowIsComplete' /\ AsgInv'
      BY <2>1 DEF FlightInv, PipeInv, EverySubmitted, RowIsComplete, AsgInv
  <2>5. BusyInv' /\ HoldInv' /\ SendInv'
      BY <2>1, <2>3 DEF FlightInv, BusyInv, HoldInv, SendInv
  <2>6. LiveInv' /\ HandlerInv'
      BY <1>0, <2>1, <2>3 DEF FlightInv, LiveInv, HandlerInv, Handling, Inner, Outer
  <2> QED BY <2>4, <2>5, <2>6 DEF FlightInv
<1>5. CASE Insert(c)
  <2>1. /\ task[c].at = "insert" /\ Finish(c)
        /\ asg' = [wallet |-> task[c].to, step |-> task[c].step, open |-> TRUE]
        /\ UNCHANGED <<online, leaving, pipe, row, submitted>>
      BY <1>5 DEF Insert
  <2>2. /\ pipe \in Pipelines /\ Sound(pipe) /\ pipe # None
        /\ \A d \in Callers \ {c} : task[d].at = "idle"
      BY <2>1, OthersIdle, NoneAssumption
  <2>3. task[c].step = Current(pipe) /\ OnMiner(pipe, task[c].to)
      BY <2>1 DEF FlightInv, SendInv
  <2>4. /\ asg'.wallet = task[c].to /\ asg'.step = Current(pipe)
      BY <2>1, <2>3
  <2>5. \A d \in Callers : task'[d].at = "idle"
      BY <1>0, <2>1, <2>2, TaskMoves
  <2>6. PipeInv' /\ RowIsComplete'
      BY <2>1 DEF FlightInv, PipeInv, EverySubmitted, RowIsComplete
  <2>7. AsgInv'
      BY <2>1, <2>2, <2>3, <2>4 DEF AsgInv, OnMiner, Sound
  <2>8. BusyInv' /\ HoldInv' /\ SendInv'
      BY <2>5 DEF BusyInv, HoldInv, SendInv
  <2>9. LiveInv' /\ HandlerInv'
      BY <1>0, <2>1, <2>5 DEF FlightInv, LiveInv, HandlerInv, Handling, Inner, Outer
  <2> QED BY <2>6, <2>7, <2>8, <2>9 DEF FlightInv
<1> QED BY <1>1, <1>2, <1>3, <1>4, <1>5 DEF DispatchCurrent

\* The tick starts, or dispatches again, only a pipeline nobody is busy with.
LEMMA PollKeeps ==
    ASSUME PromptRpc, TypeOK, FlightInv, Poll
    PROVE  FlightInv'
<1>0. /\ Tick \in Callers /\ Tick \notin Wallets /\ Callers = Wallets \cup {Tick}
      /\ task \in [Callers -> Tasks] /\ "resolve" \in Ats
    BY ConstAssumption DEF TypeOK, Callers, Ats
<1>1. CASE TickRetry
  <2>1. /\ task[Tick].at = "idle" /\ pipe # None /\ asg = None /\ Goto(Tick, "resolve")
        /\ \A w \in Wallets : task[w].at \notin Unguarded
        /\ UNCHANGED <<online, leaving, pipe, asg, row, submitted>>
      BY <1>1 DEF TickRetry
  <2>2. \A w \in Wallets : task[w].at = "idle"
    <3>1. \A w \in Wallets : task[w].at \notin {"checked", "joinInner", "joinOuter"}
        BY <1>0, <2>1 DEF FlightInv, HoldInv
    <3>2. \A w \in Wallets : task[w] \in Tasks
        BY <1>0
    <3> QED BY <2>1, <3>1, <3>2 DEF Tasks, Ats, Unguarded, Inner, Outer
  <2>3. task'[Tick].at = "resolve" /\ \A w \in Wallets : task'[w].at = "idle"
      BY <1>0, <2>1, <2>2, TaskMoves
  <2>4. PipeInv' /\ RowIsComplete' /\ AsgInv'
      BY <2>1 DEF FlightInv, PipeInv, EverySubmitted, RowIsComplete, AsgInv
  <2>5. BusyInv' /\ HoldInv' /\ SendInv'
      BY <1>0, <2>1, <2>3 DEF BusyInv, HoldInv, SendInv
  <2>6. LiveInv' /\ HandlerInv'
      BY <2>1, <2>3 DEF FlightInv, LiveInv, HandlerInv, Handling, Inner, Outer
  <2> QED BY <2>4, <2>5, <2>6 DEF FlightInv
<1>2. CASE StartPipeline
  <2>1. /\ task[Tick].at = "idle" /\ pipe = None /\ pipe' = Fresh /\ submitted' = {}
        /\ Dispatch(Tick) /\ UNCHANGED <<online, leaving, asg, row>>
      BY <1>2 DEF StartPipeline
  <2>2. asg = None /\ \A w \in Wallets : task[w].at = "idle"
      BY <1>0, <2>1 DEF FlightInv, AsgInv, BusyInv
  <2>3. task'[Tick].at = "choose" /\ \A w \in Wallets : task'[w].at = "idle"
      BY <1>0, <2>1, <2>2, TaskMoves
  <2>4. Fresh \in Pipelines /\ Sound(Fresh)
    <3>1. 1 \in Shards /\ MaxTokens \in Nat /\ MaxTokens > 0
        BY ConstAssumption DEF Shards
    <3>2. Fresh \in Pipelines
        BY <3>1 DEF Fresh, Pipelines
    <3>3. Follows(Current(Fresh), None)
        BY DEF Follows, Current, Fresh
    <3> QED BY <3>1, <3>2, <3>3 DEF Sound, Fresh
  <2>5. pipe' # None
      BY <2>1, <2>4, NoneAssumption
  <2>6. EverySubmitted'
      BY <2>1 DEF EverySubmitted, Fresh, Shards
  <2>7. PipeInv' /\ RowIsComplete' /\ AsgInv'
      BY <2>1, <2>2, <2>4, <2>6 DEF FlightInv, PipeInv, RowIsComplete, AsgInv
  <2>8. BusyInv' /\ HoldInv' /\ SendInv'
      BY <1>0, <2>1, <2>2, <2>3, <2>5 DEF BusyInv, HoldInv, SendInv
  <2>9. LiveInv' /\ HandlerInv'
      BY <2>1, <2>3 DEF FlightInv, LiveInv, HandlerInv, Handling, Inner, Outer
  <2> QED BY <2>7, <2>8, <2>9 DEF FlightInv
<1>3. ASSUME NEW ok \in BOOLEAN, TickResolved(ok)
      PROVE  FlightInv'
  <2>1. /\ task[Tick].at = "resolve" /\ (Dispatch(Tick) \/ Finish(Tick))
        /\ UNCHANGED <<online, leaving, pipe, asg, row, submitted>>
      BY <1>3 DEF TickResolved
  <2>2. pipe \in Pipelines /\ Sound(pipe) /\ EverySubmitted /\ asg = None
      BY <1>0, <2>1, OthersIdle DEF FlightInv, HoldInv
  <2>3. EverySubmitted' /\ PipeInv' /\ RowIsComplete'
      BY <2>1, <2>2 DEF FlightInv, PipeInv, EverySubmitted, RowIsComplete
  <2>4. CASE Dispatch(Tick)
      BY <1>0, <2>1, <2>2, <2>3, <2>4, DispatchKeeps
  <2>5. CASE Finish(Tick)
      BY <1>0, <2>1, <2>2, <2>3, <2>5, ReturnKeeps
  <2> QED BY <2>1, <2>4, <2>5
<1> QED BY <1>1, <1>2, <1>3 DEF Poll

\* Sessions come and go, and report the step they are assigned.
LEMMA SessionKeeps ==
    ASSUME ~Repeats, TypeOK, FlightInv, NEW w \in Wallets, Session(w)
    PROVE  FlightInv'
<1>0. w \in Callers /\ Wallets \subseteq Callers /\ task \in [Callers -> Tasks]
    BY DEF TypeOK, Callers
<1>1. CASE Join(w) \/ Ban(w)
  <2>1. UNCHANGED <<leaving, pipe, asg, task, row, submitted>>
      BY <1>1 DEF Join, Ban
  <2>2. LiveInv'
      BY <1>1 DEF Join, Ban, FlightInv, LiveInv
  <2>3. PipeInv' /\ RowIsComplete' /\ AsgInv' /\ BusyInv' /\ HoldInv' /\ SendInv'
      BY <2>1 DEF FlightInv, PipeInv, EverySubmitted, RowIsComplete, AsgInv, BusyInv, HoldInv, SendInv
  <2>4. HandlerInv'
      BY <2>1 DEF FlightInv, HandlerInv, IsWhole
  <2> QED BY <2>2, <2>3, <2>4 DEF FlightInv
<1>2. CASE Leave(w)
  <2>1. /\ online' = online \ {w} /\ leaving' = leaving \cup {w} /\ Finish(w)
        /\ UNCHANGED <<pipe, asg, row, submitted>>
      BY <1>2 DEF Leave
  <2>2. LiveInv'
      BY <1>0, <2>1, TaskMoves DEF FlightInv, LiveInv
  <2> QED BY <1>0, <2>1, <2>2, FinishKeeps
<1>3. CASE OnDisconnect(w)
  <2>1. /\ w \in leaving /\ leaving' = leaving \ {w}
        /\ asg' = IF asg # None /\ asg.wallet = w THEN None ELSE asg
        /\ UNCHANGED <<online, pipe, task, row, submitted>>
      BY <1>3 DEF OnDisconnect
  <2>2. task[w].at = "idle"
      BY <2>1 DEF FlightInv, LiveInv
  <2>3. PipeInv' /\ RowIsComplete' /\ LiveInv' /\ BusyInv'
      BY <2>1 DEF FlightInv, PipeInv, EverySubmitted, RowIsComplete, LiveInv, BusyInv
  <2>4. AsgInv' /\ SendInv'
      BY <2>1 DEF FlightInv, AsgInv, SendInv
  <2>5. \A c \in Callers : task[c].at # "idle" => asg' = asg
      BY <2>1, <2>2 DEF FlightInv, HoldInv
  <2>6. HoldInv'
      BY <2>1, <2>5 DEF FlightInv, HoldInv
  <2>7. HandlerInv'
      BY <1>0, <2>1, <2>5 DEF FlightInv, HandlerInv, IsWhole, Handling, Inner, Outer
  <2> QED BY <2>3, <2>4, <2>6, <2>7 DEF FlightInv
<1>4. ASSUME NEW s \in Reportable, ShardResult(w, s)
      PROVE  FlightInv'
  <2>1. /\ w \in online /\ task[w].at = "idle" /\ asg # None /\ asg.wallet = w
        /\ asg.step = s /\ asg.open
        /\ task' = [task EXCEPT ![w] = [Idle EXCEPT !.at = "checked", !.step = s]]
        /\ UNCHANGED <<online, leaving, pipe, asg, row, submitted>>
      BY <1>4 DEF ShardResult
  <2>2. \A c \in Callers : task[c].at = "idle"
      BY <2>1 DEF FlightInv, HoldInv
  <2>3. /\ task'[w].at = "checked" /\ task'[w].step = s
        /\ \A d \in Callers \ {w} : task'[d].at = "idle"
      BY <1>0, <2>1, <2>2 DEF Idle
  <2>4. pipe # None /\ s = Current(pipe) /\ OnMiner(pipe, w)
      BY <2>1 DEF FlightInv, AsgInv
  <2>5. PipeInv' /\ RowIsComplete' /\ AsgInv'
      BY <2>1 DEF FlightInv, PipeInv, EverySubmitted, RowIsComplete, AsgInv
  <2>6. BusyInv' /\ HoldInv' /\ SendInv'
      BY <2>1, <2>3, <2>4 DEF BusyInv, HoldInv, SendInv
  <2>7. LiveInv'
      BY <1>0, <2>1, <2>3 DEF FlightInv, LiveInv
  <2>8. HandlerInv'
    <3>1. \A v \in Wallets : task'[v].at \in Handling => v = w
        BY <1>0, <2>3 DEF Handling, Inner, Outer
    <3> QED BY <2>1, <2>3, <2>4, <3>1 DEF HandlerInv, Inner, Outer
  <2> QED BY <2>5, <2>6, <2>7, <2>8 DEF FlightInv
<1> QED BY <1>1, <1>2, <1>3, <1>4 DEF Session

\* The invariants are inductive.
LEMMA FlightStep ==
    ASSUME PromptRpc, ~Repeats, TypeOK, FlightInv, [Next]_vars
    PROVE  FlightInv'
<1>1. ASSUME NEW w \in Wallets, Session(w) \/ Handler(w)
      PROVE  FlightInv'
    BY <1>1, SessionKeeps, HandlerKeeps
<1>2. ASSUME NEW c \in Callers, DispatchCurrent(c)
      PROVE  FlightInv'
    BY <1>2, DispatchCurrentKeeps
<1>3. CASE Poll
    BY <1>3, PollKeeps
<1>4. CASE ReceivePrompt \/ ChainSettles \/ UNCHANGED vars
  <2>1. UNCHANGED <<online, leaving, pipe, asg, task, row, submitted>>
      BY <1>4 DEF ReceivePrompt, ChainSettles, vars
  <2>2. PipeInv' /\ RowIsComplete' /\ LiveInv' /\ AsgInv'
      BY <2>1 DEF FlightInv, PipeInv, EverySubmitted, RowIsComplete, LiveInv, AsgInv
  <2>3. BusyInv' /\ HoldInv' /\ SendInv' /\ HandlerInv'
      BY <2>1 DEF FlightInv, BusyInv, HoldInv, SendInv, HandlerInv, IsWhole
  <2> QED BY <2>2, <2>3 DEF FlightInv
<1> QED BY <1>1, <1>2, <1>3, <1>4 DEF Next

-----------------------------------------------------------------------------
(* Types                                                                   *)

\* The type of the pipeline and of the tasks, as TypeOK has them.
PipeType ==
    pipe \in Pipelines \cup {None} /\ (pipe # None => (pipe.walk = None <=> pipe.pin = None))

TaskType ==
    /\ task \in [Callers -> Tasks]
    /\ \A c \in Callers :
        /\ task[c].at \in {"lookup", "insert"} => task[c].step # None /\ task[c].to # None
        /\ c # Tick /\ task[c].at \notin {"idle", "choose"} => task[c].step # None
    /\ task[Tick].at \in {"idle", "resolve", "choose", "lookup", "insert"}

\* Every move of a caller leaves its locals set.
LEMMA MoveTypes ==
    ASSUME TypeOK, NEW c \in Callers
    PROVE  /\ Finish(c) \/ Dispatch(c) => TaskType'
           /\ task[c].at = "lookup" /\ Goto(c, "insert") => TaskType'
           /\ c = Tick /\ Goto(c, "resolve") => TaskType'
           /\ \A at \in {"resolve", "submit"} \cup Inner \cup Outer, n \in Nat :
                c # Tick /\ task[c].at \notin {"idle", "choose"} /\ (Goto(c, at) \/ EnterVram(c, at, n))
                    => TaskType'
<1>1. TaskType /\ Tick \in Callers
    BY DEF TypeOK, TaskType, Callers
<1>2. Finish(c) \/ Dispatch(c) => TaskType'
    BY <1>1, TaskMoves DEF TaskType
<1>3. task[c].at = "lookup" /\ Goto(c, "insert") => TaskType'
  <2>1. "insert" \in Ats
      BY DEF Ats
  <2> QED BY <1>1, <2>1, TaskMoves DEF TaskType
<1>4. c = Tick /\ Goto(c, "resolve") => TaskType'
  <2>1. "resolve" \in Ats
      BY DEF Ats
  <2> QED BY <1>1, <2>1, TaskMoves DEF TaskType
<1>5. ASSUME NEW at \in {"resolve", "submit"} \cup Inner \cup Outer, NEW n \in Nat,
             c # Tick, task[c].at \notin {"idle", "choose"},
             Goto(c, at) \/ EnterVram(c, at, n)
      PROVE  TaskType'
  <2>1. at \in Ats /\ at \notin {"lookup", "insert"}
      BY DEF Ats, Inner, Outer
  <2>2. /\ task' \in [Callers -> Tasks] /\ task'[c].at = at /\ task'[c].step = task[c].step
        /\ \A d \in Callers \ {c} : task'[d] = task[d]
    <3>1. CASE Goto(c, at)
        BY <1>1, <2>1, <3>1, TaskMoves DEF TaskType
    <3>2. CASE EnterVram(c, at, n)
        BY <1>1, <2>1, <3>2, ToVram DEF TaskType
    <3> QED BY <1>5, <3>1, <3>2
  <2> QED BY <1>1, <1>5, <2>1, <2>2 DEF TaskType
<1> QED BY <1>2, <1>3, <1>4, <1>5

\* The types after a handler's result has advanced the pipeline.
LEMMA AdvanceTypes ==
    ASSUME TypeOK, FlightInv, NEW w \in Wallets, task[w].at \in {"resolve", "submit"},
           IsWhole(w), NEW P \in Pipelines, Sound(P), Current(P) = Current(pipe),
           P.pos = pipe.pos, P.walk = pipe.walk, P.pin = pipe.pin,
           NEW last \in BOOLEAN, last <=> IsLastToken(P), Advance(w, P, last)
    PROVE  PipeType' /\ TaskType' /\ row' \in [wallet : Wallets, gen : Nat] \cup {None}
<1>1. /\ w \in Callers /\ w # Tick /\ P # None /\ P.tok \in Nat /\ P.gen \in Nat
      /\ MaxTokens \in Nat /\ P.helpers \subseteq Wallets
    BY NoneAssumption, ConstAssumption DEF Callers, Pipelines
<1>2. pipe # None /\ task[w].step = Current(P) /\ OnMiner(P, w) /\ (P.walk = None <=> P.pin = None)
    BY <1>1, OthersIdle, NoneAssumption DEF FlightInv, HandlerInv, Handling, OnMiner, TypeOK
<1>3. Current(P).lay = LastLayer(P.pos)
    BY <1>2, WholeIsLast DEF IsWhole, OnMiner
<1>4. pipe' \in {P, None} => PipeType'
    BY <1>1, <1>2 DEF PipeType
<1>5. row' = row => row' \in [wallet : Wallets, gen : Nat] \cup {None}
    BY DEF TypeOK
<1>6. CASE EnterVram(w, "vramOuter", P.tok) /\ pipe' = P /\ row' = row
    BY <1>1, <1>4, <1>5, <1>6, MoveTypes DEF Outer
<1>7. CASE Finish(w) /\ pipe' \in {P, None} /\ row' = row
    BY <1>1, <1>4, <1>5, <1>7, MoveTypes
<1>8. CASE /\ ~IsLastShard(P) /\ row' = row
           /\ pipe' = NextShard(P, task[w].step, w) /\ Dispatch(w)
  <2>1. PipeType'
      BY <1>2, <1>3, <1>8, NextShardSound DEF IsLastShard, PipeType
  <2> QED BY <1>1, <1>5, <1>8, <2>1, MoveTypes
<1>9. CASE /\ IsLastShard(P) /\ ~last /\ row' = row
           /\ pipe' = NextToken(P, task[w].step, w) /\ Dispatch(w)
  <2>1. P.tok + 1 < MaxTokens
      BY <1>1, <1>9 DEF IsLastToken
  <2>2. PipeType'
      BY <1>2, <1>3, <1>9, <2>1, NextTokenSound DEF IsLastShard, PipeType
  <2> QED BY <1>1, <1>5, <1>9, <2>2, MoveTypes
<1>10. CASE Finalize(w, P)
  <2>1. row' \in [wallet : Wallets, gen : Nat] \cup {None}
      BY <1>1, <1>5, <1>10 DEF Finalize
  <2> QED BY <1>1, <1>4, <1>10, <2>1, MoveTypes DEF Finalize
<1> QED BY <1>6, <1>7, <1>8, <1>9, <1>10 DEF Advance, ToExperts, EnterVram

\* The variables no caller's move changes the type of.
RestType ==
    /\ online \subseteq Wallets /\ banned \subseteq Wallets /\ leaving \subseteq Wallets
    /\ listed \in BOOLEAN /\ prompt \in BOOLEAN /\ posts \in Nat
    /\ asg \in Assignments \cup {None}
    /\ row \in [wallet : Wallets, gen : Nat] \cup {None}
    /\ submitted \subseteq Shards

\* Every step of a handler keeps the types.
LEMMA HandlerTypes ==
    ASSUME TypeOK, FlightInv, NEW w \in Wallets, Handler(w)
    PROVE  PipeType' /\ TaskType' /\ RestType'
<1>0. w \in Callers /\ w # Tick /\ PipeType /\ TaskType /\ RestType
    BY ConstAssumption DEF TypeOK, Callers, PipeType, TaskType, RestType
<1>1. CASE TakeAssignment(w)
  <2>1. TaskType'
      BY <1>0, <1>1, MoveTypes DEF TakeAssignment
  <2> QED BY <1>0, <1>1, <2>1 DEF TakeAssignment, PipeType, RestType
<1>2. CASE Refuse(w) \/ SubmitRefused(w) \/ JoinFails(w)
  <2>1. TaskType'
      BY <1>0, <1>2, MoveTypes DEF Refuse, SubmitRefused, JoinFails
  <2> QED BY <1>0, <1>2, <2>1 DEF Refuse, SubmitRefused, JoinFails, PipeType, RestType
<1>3. CASE RouteInterior(w) \/ RouteWhole(w) \/ RouteSubmit(w)
  <2> DEFINE P == Helped(w)
  <2>1. /\ task[w].at = "resolve" /\ pipe # None
        /\ UNCHANGED <<online, banned, leaving, listed, prompt, posts, asg, submitted>>
      BY <1>3 DEF RouteInterior, RouteWhole, RouteSubmit
  <2>2. pipe \in Pipelines /\ Sound(pipe)
      BY <1>0, <2>1, OthersIdle
  <2>3. /\ P \in Pipelines /\ P.tok = pipe.tok /\ P.pos = pipe.pos /\ P.tok \in Nat
        /\ P.walk = pipe.walk /\ P.pin = pipe.pin
        /\ Current(P) = Current(pipe) /\ Sound(P)
      BY <2>2, HelpedSame DEF Pipelines
  <2>4. P.walk = None <=> P.pin = None
      BY <1>0, <2>1, <2>3 DEF PipeType
  <2> HIDE DEF P
  <2>5. pipe' \in {P, None} => PipeType'
      BY <2>3, <2>4 DEF PipeType
  <2>6. CASE RouteInterior(w)
    <3>1. pipe' \in {P, None} /\ (EnterVram(w, "vramInner", P.tok) \/ Finish(w)) /\ row' = row
        BY <2>6 DEF RouteInterior, ToExperts, EnterVram, P
    <3>2. TaskType'
        BY <1>0, <2>1, <2>3, <3>1, MoveTypes DEF Inner
    <3> QED BY <1>0, <2>1, <2>5, <3>1, <3>2 DEF RestType
  <2>7. CASE RouteWhole(w)
    <3>1. IsWhole(w) /\ ~IsLastToken(P) /\ Advance(w, P, FALSE)
        BY <2>3, <2>7 DEF RouteWhole, IsLastToken, P
    <3>2. PipeType' /\ TaskType' /\ row' \in [wallet : Wallets, gen : Nat] \cup {None}
        BY <2>1, <2>3, <3>1, AdvanceTypes
    <3> QED BY <1>0, <2>1, <3>2 DEF RestType
  <2>8. CASE RouteSubmit(w)
    <3>1. pipe' = P /\ Goto(w, "submit") /\ row' = row
        BY <2>8 DEF RouteSubmit, P
    <3>2. TaskType'
        BY <1>0, <2>1, <2>3, <3>1, MoveTypes
    <3> QED BY <1>0, <2>1, <2>5, <3>1, <3>2 DEF RestType
  <2> QED BY <1>3, <2>6, <2>7, <2>8
<1>4. CASE SubmitAccepted(w)
  <2>1. /\ task[w].at = "submit" /\ submitted' = submitted \cup {task[w].step.pos}
        /\ UNCHANGED <<online, banned, leaving, listed, prompt, posts, asg>>
      BY <1>4 DEF SubmitAccepted
  <2>2. pipe \in Pipelines /\ Sound(pipe) /\ pipe # None
      BY <1>0, <2>1, OthersIdle, NoneAssumption
  <2>3. IsLastToken(pipe) /\ IsWhole(w) /\ task[w].step.pos \in Shards
    <3>1. task[w].step = Current(pipe) /\ IsLastToken(pipe) /\ IsWhole(w)
        BY <2>1 DEF FlightInv, HandlerInv, Handling
    <3> QED BY <2>2, <3>1, CurrentType DEF Pipelines
  <2>4. Advance(w, pipe, TRUE)
      BY <1>4, <2>2 DEF SubmitAccepted
  <2>5. PipeType' /\ TaskType' /\ row' \in [wallet : Wallets, gen : Nat] \cup {None}
      BY <2>1, <2>2, <2>3, <2>4, AdvanceTypes
  <2> QED BY <1>0, <2>1, <2>3, <2>5 DEF RestType
<1>5. CASE FanOut(w)
  <2>1. /\ task[w].at \in {"vramInner", "vramOuter"}
        /\ UNCHANGED <<online, banned, leaving, listed, prompt, posts, pipe, row, submitted>>
      BY <1>5 DEF FanOut
  <2>2. TaskType'
      BY <1>0, <1>5, <2>1, MoveTypes DEF FanOut, Inner, Outer
  <2>3. asg' \in Assignments \cup {None}
    <3>1. task[w].step \in StepIds /\ task[w].tok \in Nat
        BY <1>0, <2>1 DEF TaskType, Tasks
    <3>2. [task[w].step EXCEPT !.tok = task[w].tok] \in StepIds
        BY <3>1 DEF StepIds
    <3>3. CASE pipe = None \/ pipe.walk = None
        BY <1>0, <1>5, <3>3 DEF FanOut, RestType
    <3>4. CASE pipe # None /\ pipe.walk # None
      <4>1. pipe.pin \in Wallets
          BY <1>0, <3>4 DEF PipeType, Pipelines
      <4>2. asg' = [wallet |-> pipe.pin, step |-> [task[w].step EXCEPT !.tok = task[w].tok], open |-> FALSE]
          BY <1>5, <3>4 DEF FanOut
      <4> QED BY <3>2, <4>1, <4>2 DEF Assignments
    <3> QED BY <3>3, <3>4
  <2> QED BY <1>0, <2>1, <2>2, <2>3 DEF PipeType, RestType
<1>6. CASE JoinSucceeds(w)
  <2>1. /\ task[w].at \in {"joinInner", "joinOuter"} /\ Dispatch(w)
        /\ UNCHANGED <<online, banned, leaving, listed, prompt, posts, asg, row, submitted>>
      BY <1>6 DEF JoinSucceeds
  <2>2. pipe \in Pipelines /\ Sound(pipe) /\ pipe # None /\ w # None
      BY <1>0, <2>1, OthersIdle, NoneAssumption, ConstAssumption
  <2>3. /\ task[w].step = Current(pipe) /\ Current(pipe).lay = pipe.walk
        /\ pipe.walk # None /\ pipe.pin = w /\ pipe.pos \in Moe
    <3>1. /\ task[w].step = Current(pipe) /\ pipe.walk # None /\ pipe.pin = w /\ pipe.pos \in Moe
        BY <2>1 DEF FlightInv, HandlerInv, Handling, OnMiner, Inner, Outer
    <3> QED BY <2>2, <3>1, CurrentType
  <2>4. PipeType'
    <3>1. CASE task[w].at = "joinInner"
      <4>1. pipe' = NextLayer(pipe, Current(pipe), w) /\ IsInterior(pipe.walk, pipe.pos)
          BY <1>6, <2>2, <2>3, <3>1 DEF JoinSucceeds, FlightInv, HandlerInv, Handling, Inner
      <4> QED BY <2>2, <2>3, <4>1, NextLayerSound DEF PipeType
    <3>2. CASE task[w].at = "joinOuter"
      <4>1. /\ pipe' = NextShard(pipe, Current(pipe), w)
            /\ ~IsInterior(pipe.walk, pipe.pos) /\ pipe.pos # NumShards
          BY <1>6, <2>2, <2>3, <3>2 DEF JoinSucceeds, FlightInv, HandlerInv, Handling, Outer
      <4>2. Current(pipe).lay = LastLayer(pipe.pos)
          BY <2>2, <2>3, <4>1, WholeIsLast
      <4> QED BY <2>2, <4>1, <4>2, NextShardSound DEF PipeType
    <3> QED BY <2>1, <3>1, <3>2
  <2> QED BY <1>0, <2>1, <2>4, MoveTypes DEF RestType
<1> QED BY <1>1, <1>2, <1>3, <1>4, <1>5, <1>6 DEF Handler

\* Every step of dispatch_current keeps the types.
LEMMA DispatchTypes ==
    ASSUME TypeOK, FlightInv, NEW c \in Callers, DispatchCurrent(c)
    PROVE  PipeType' /\ TaskType' /\ RestType'
<1>0. PipeType /\ TaskType /\ RestType
    BY DEF TypeOK, PipeType, TaskType, RestType
<1>1. CASE ChooseNobody(c) \/ LookUp(c)
  <2>1. TaskType'
      BY <1>1, MoveTypes DEF ChooseNobody, LookUp
  <2> QED BY <1>0, <1>1, <2>1 DEF ChooseNobody, LookUp, PipeType, RestType
<1>2. CASE ChooseDrops(c)
  <2>1. TaskType'
      BY <1>2, MoveTypes DEF ChooseDrops
  <2> QED BY <1>0, <1>2, <2>1 DEF ChooseDrops, PipeType, RestType
<1>3. CASE Choose(c)
  <2>1. /\ task[c].at = "choose"
        /\ UNCHANGED <<online, banned, leaving, listed, prompt, posts, asg, row, submitted>>
      BY <1>3 DEF Choose
  <2>2. pipe \in Pipelines /\ Sound(pipe)
      BY <2>1, OthersIdle
  <2>3. PICK w \in online :
            /\ task' = [task EXCEPT ![c] = [Idle EXCEPT !.at = "lookup", !.step = Current(pipe), !.to = w]]
            /\ pipe' = IF pipe.pos \in Moe
                       THEN [pipe EXCEPT !.walk = Current(pipe).lay, !.pin = w] ELSE pipe
      BY <1>3 DEF Choose
  <2>4. w \in Wallets /\ w # None
      BY ConstAssumption DEF TypeOK
  <2>5. Current(pipe) \in StepIds /\ Current(pipe) # None
      BY <2>2, CurrentType, NoneAssumption
  <2>6. TaskType'
    <3>1. [Idle EXCEPT !.at = "lookup", !.step = Current(pipe), !.to = w] \in Tasks
        BY <2>4, <2>5 DEF Idle, Tasks, Ats
    <3>2. /\ task' \in [Callers -> Tasks] /\ task'[c].at = "lookup"
          /\ task'[c].step = Current(pipe) /\ task'[c].to = w
          /\ \A d \in Callers \ {c} : task'[d] = task[d]
        BY <1>0, <2>3, <3>1 DEF TaskType, Idle
    <3>3. Tick \in Callers
        BY DEF Callers
    <3> QED BY <1>0, <2>4, <2>5, <3>2, <3>3 DEF TaskType
  <2>7. PipeType'
    <3>1. CASE pipe.pos \in Moe
      <4>1. Current(pipe).lay \in Layers /\ Current(pipe).lay # None
          BY <2>2, <3>1, CurrentType, WalkLayers, LayerTypes DEF Pipelines
      <4> QED BY <2>2, <2>3, <2>4, <3>1, <4>1 DEF Pipelines, PipeType
    <3>2. CASE pipe.pos \notin Moe
        BY <1>0, <2>3, <3>2 DEF PipeType
    <3> QED BY <3>1, <3>2
  <2> QED BY <1>0, <2>1, <2>6, <2>7 DEF RestType
<1>4. CASE Insert(c)
  <2>1. TaskType'
      BY <1>4, MoveTypes DEF Insert
  <2>2. asg' \in Assignments
    <3>1. task[c].step \in StepIds /\ task[c].to \in Wallets
        BY <1>0, <1>4 DEF Insert, TaskType, Tasks
    <3> QED BY <1>4, <3>1 DEF Insert, Assignments
  <2> QED BY <1>0, <1>4, <2>1, <2>2 DEF Insert, PipeType, RestType
<1> QED BY <1>1, <1>2, <1>3, <1>4 DEF DispatchCurrent

\* So does every step of the tick and of a session.
LEMMA PollSessionTypes ==
    ASSUME TypeOK, Poll \/ \E w \in Wallets : Session(w)
    PROVE  PipeType' /\ TaskType' /\ RestType'
<1>0. PipeType /\ TaskType /\ RestType /\ Tick \in Callers /\ Wallets \subseteq Callers /\ Tick \notin Wallets
    BY ConstAssumption DEF TypeOK, PipeType, TaskType, RestType, Callers
<1>1. CASE TickRetry \/ \E ok \in BOOLEAN : TickResolved(ok)
  <2>1. TaskType'
      BY <1>0, <1>1, MoveTypes DEF TickRetry, TickResolved
  <2> QED BY <1>0, <1>1, <2>1 DEF TickRetry, TickResolved, PipeType, RestType
<1>2. CASE StartPipeline
  <2>1. TaskType'
      BY <1>0, <1>2, MoveTypes DEF StartPipeline
  <2>2. PipeType'
    <3>1. 1 \in Shards
        BY ConstAssumption DEF Shards
    <3>2. Fresh \in Pipelines /\ Fresh.walk = None /\ Fresh.pin = None
        BY <3>1 DEF Fresh, Pipelines
    <3> QED BY <1>2, <3>2 DEF StartPipeline, PipeType
  <2> QED BY <1>0, <1>2, <2>1, <2>2 DEF StartPipeline, RestType
<1>3. ASSUME NEW w \in Wallets, Join(w) \/ Ban(w) \/ OnDisconnect(w)
      PROVE  PipeType' /\ TaskType' /\ RestType'
    BY <1>0, <1>3 DEF Join, Ban, OnDisconnect, PipeType, TaskType, RestType
<1>4. ASSUME NEW w \in Wallets, Leave(w)
      PROVE  PipeType' /\ TaskType' /\ RestType'
  <2>1. TaskType'
      BY <1>0, <1>4, MoveTypes DEF Leave
  <2> QED BY <1>0, <1>4, <2>1 DEF Leave, PipeType, RestType
<1>5. ASSUME NEW w \in Wallets, NEW s \in Reportable, ShardResult(w, s)
      PROVE  PipeType' /\ TaskType' /\ RestType'
  <2>1. s \in StepIds /\ s # None
    <3>1. s \in StepIds
        BY ConstAssumption DEF Reportable, StepIds
    <3> QED BY <3>1, NoneAssumption
  <2>2. [Idle EXCEPT !.at = "checked", !.step = s] \in Tasks
      BY <2>1 DEF Idle, Tasks, Ats
  <2>3. /\ task' \in [Callers -> Tasks] /\ task'[w].at = "checked" /\ task'[w].step = s
        /\ \A d \in Callers \ {w} : task'[d] = task[d]
      BY <1>0, <1>5, <2>2 DEF ShardResult, TaskType, Idle
  <2>4. TaskType'
      BY <1>0, <2>1, <2>3 DEF TaskType
  <2> QED BY <1>0, <1>5, <2>4 DEF ShardResult, PipeType, RestType
<1> QED BY <1>1, <1>2, <1>3, <1>4, <1>5 DEF Poll, Session

\* The types are kept by every step.
LEMMA TypeStep ==
    ASSUME TypeOK, FlightInv, [Next]_vars
    PROVE  TypeOK'
<1>1. PipeType' /\ TaskType' /\ RestType'
  <2>1. CASE ReceivePrompt \/ ChainSettles \/ UNCHANGED vars
    <3>1. PipeType /\ TaskType /\ RestType
        BY DEF TypeOK, PipeType, TaskType, RestType
    <3>2. UNCHANGED <<online, banned, leaving, pipe, asg, task, row, submitted>>
        BY <2>1 DEF ReceivePrompt, ChainSettles, vars
    <3>3. PipeType' /\ TaskType'
        BY <3>1, <3>2 DEF PipeType, TaskType
    <3>4. listed' \in BOOLEAN /\ prompt' \in BOOLEAN /\ posts' \in Nat
      <4>1. listed' \in BOOLEAN /\ prompt' \in BOOLEAN
          BY <2>1, <3>1, Zenon DEF ReceivePrompt, ChainSettles, vars, RestType
      <4>2. posts' \in {posts, posts + 1}
          BY <2>1 DEF ReceivePrompt, ChainSettles, vars
      <4> QED BY <3>1, <4>1, <4>2 DEF RestType
    <3> QED BY <3>1, <3>2, <3>3, <3>4 DEF RestType
  <2>2. CASE Poll \/ \E w \in Wallets : Session(w)
      BY <2>2, PollSessionTypes
  <2>3. CASE \E w \in Wallets : Handler(w)
      BY <2>3, HandlerTypes
  <2>4. CASE \E c \in Callers : DispatchCurrent(c)
      BY <2>4, DispatchTypes
  <2> QED BY <2>1, <2>2, <2>3, <2>4 DEF Next
<1> QED BY <1>1 DEF TypeOK, PipeType, TaskType, RestType

-----------------------------------------------------------------------------
(* Theorems                                                                *)

\* Every reachable state has its type and is one in which the request is with
\* one caller at a time, at the pipeline's current step.
THEOREM FlightInvariant ==
    ASSUME PromptRpc, ~Repeats
    PROVE  Spec => [](TypeOK /\ FlightInv)
<1>1. Init => TypeOK /\ FlightInv
  <2> SUFFICES ASSUME Init
               PROVE  TypeOK /\ FlightInv
      OBVIOUS
  <2>1. Idle \in Tasks /\ Tick \in Callers
      BY DEF Idle, Tasks, Ats, Callers
  <2>2. /\ task \in [Callers -> Tasks] /\ \A c \in Callers : task[c].at = "idle"
        /\ task[Tick].at = "idle"
      BY <2>1 DEF Init, Idle
  <2>3. TypeOK
      BY <2>2 DEF Init, TypeOK
  <2>4. PipeInv /\ AsgInv /\ RowIsComplete
      BY DEF Init, PipeInv, AsgInv, RowIsComplete
  <2>5. BusyInv /\ HoldInv /\ SendInv
      BY <2>2 DEF BusyInv, HoldInv, SendInv
  <2>6. LiveInv /\ HandlerInv
      BY <2>2 DEF Init, LiveInv, HandlerInv, Handling, Inner, Outer, Callers
  <2> QED BY <2>3, <2>4, <2>5, <2>6 DEF FlightInv
<1>2. TypeOK /\ FlightInv /\ [Next]_vars => (TypeOK /\ FlightInv)'
    BY TypeStep, FlightStep
<1> QED BY <1>1, <1>2, PTL DEF Spec

\* Type correctness.
THEOREM TypeCorrect ==
    ASSUME PromptRpc, ~Repeats
    PROVE  Spec => []TypeOK
<1>1. TypeOK /\ FlightInv => TypeOK
    OBVIOUS
<1> QED BY <1>1, FlightInvariant, PTL

\* No layer, shard or token is skipped or run twice, whatever handlers are
\* dropped, joins fail, pipelines stall and are dispatched again.
THEOREM InOrder ==
    ASSUME PromptRpc, ~Repeats
    PROVE  Spec => []StepsInOrder
<1>1. TypeOK /\ FlightInv => StepsInOrder
    BY DEF FlightInv, PipeInv, Sound, StepsInOrder
<1> QED BY <1>1, FlightInvariant, PTL

\* One shard of a request is in flight at a time.
THEOREM SingleFlight ==
    ASSUME PromptRpc, ~Repeats
    PROVE  Spec => []OneInFlight
<1>1. TypeOK /\ FlightInv => OneInFlight
    BY DEF FlightInv, BusyInv, HoldInv, OneInFlight
<1> QED BY <1>1, FlightInvariant, PTL

\* A walk is resumed on the miner that holds its session.
THEOREM PinnedResume ==
    ASSUME PromptRpc, ~Repeats
    PROVE  Spec => []ResumeIsPinned
<1>1. ASSUME TypeOK, FlightInv
      PROVE  ResumeIsPinned
  <2> SUFFICES ASSUME asg # None, pipe # None, asg.step = Current(pipe),
                      asg.step.lay # FirstLayer(asg.step.pos)
               PROVE  pipe.input.by = asg.wallet
      BY DEF ResumeIsPinned
  <2>1. pipe \in Pipelines /\ Sound(pipe)
      BY <1>1 DEF TypeOK, FlightInv, PipeInv
  <2>2. pipe.walk # None /\ pipe.walk # FirstLayer(pipe.pos)
      BY <2>1, CurrentType
  <2>3. pipe.walk # LayerStart[pipe.pos]
      BY <2>1, <2>2 DEF Sound, FirstLayer
  <2>4. asg.wallet = pipe.pin
      BY <1>1, <2>2 DEF FlightInv, AsgInv
  <2> QED BY <2>1, <2>2, <2>3, <2>4 DEF Sound
<1> QED BY <1>1, FlightInvariant, PTL

\* On the last token, no shard is passed without its result submitted.
THEOREM AllSubmitted ==
    ASSUME PromptRpc, ~Repeats
    PROVE  Spec => []EverySubmitted
<1>1. TypeOK /\ FlightInv => EverySubmitted
    BY DEF FlightInv, PipeInv, EverySubmitted
<1> QED BY <1>1, FlightInvariant, PTL

\* The answer recorded for a request has max_tokens tokens.
THEOREM CompleteRow ==
    ASSUME PromptRpc, ~Repeats
    PROVE  Spec => []RowIsComplete
<1>1. TypeOK /\ FlightInv => RowIsComplete
    BY DEF FlightInv
<1> QED BY <1>1, FlightInvariant, PTL

=============================================================================
