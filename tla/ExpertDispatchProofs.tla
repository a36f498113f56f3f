------------------------ MODULE ExpertDispatchProofs ------------------------
(***************************************************************************)
(* Proofs about ExpertDispatch, for any requests, experts, selections,     *)
(* wallets and VRAM, and any number of retries, tokens, calls and          *)
(* disconnections.                                                         *)
(***************************************************************************)
EXTENDS ExpertDispatch, FiniteSetTheorems, TLAPS

\* The invariant adds to the type: what a branch has tried is finite and within
\* the retries until it fails; a join under way has a token to go for.
Bounded ==
    \A r \in Requests :
        /\ primary[r] # None => token[r] < MaxTokens
        /\ \A i \in DOMAIN sel[r] :
            /\ IsFiniteSet(branch[r][i].tried)
            /\ branch[r][i].at # "err" => Cardinality(branch[r][i].tried) <= MaxRetries

TypeInv == TypeOK /\ Bounded

\* What a branch must have, whatever step it is at.
BranchOK(b) ==
    /\ b \in Branches
    /\ b.at # "plan" => b.wallet \in Wallets
    /\ b.at = "ok" => b.inbox # None
    /\ IsFiniteSet(b.tried)
    /\ Cardinality(b.tried) <= MaxRetries + 1
    /\ b.at # "err" => Cardinality(b.tried) <= MaxRetries

BranchesOK ==
    /\ sel \in [Requests -> Selections \cup {<<>>}]
    /\ DOMAIN branch = Requests
    /\ \A r \in Requests :
        /\ branch[r] \in [DOMAIN sel[r] -> Branches]
        /\ \A i \in DOMAIN sel[r] : BranchOK(branch[r][i])

LEMMA TypeInvBranches == TypeInv => BranchesOK
BY DEF TypeInv, TypeOK, Bounded, BranchesOK, BranchOK

\* A step of one branch keeps the branches right when it keeps its own right.
LEMMA UpdateOK ==
    ASSUME BranchesOK, sel' = sel, NEW r \in Requests, NEW i \in DOMAIN sel[r], NEW b,
           BranchOK(b), Update(r, i, b)
    PROVE  BranchesOK'
<1> SUFFICES ASSUME NEW q \in Requests
             PROVE  /\ branch'[q] \in [DOMAIN sel[q] -> Branches]
                    /\ \A j \in DOMAIN sel[q] : BranchOK(branch'[q][j])
    BY DEF BranchesOK, Update, BranchOK
<1>1. branch'[q] = IF q = r THEN [branch[r] EXCEPT ![i] = b] ELSE branch[q]
    BY DEF BranchesOK, Update
<1>2. \A j \in DOMAIN sel[q] : BranchOK(branch[q][j])
    BY DEF BranchesOK
<1>3. branch[q] \in [DOMAIN sel[q] -> Branches] /\ b \in Branches
    BY DEF BranchesOK, BranchOK
<1>4. branch'[q] \in [DOMAIN sel[q] -> Branches]
    BY <1>1, <1>3
<1>5. \A j \in DOMAIN sel[q] : branch'[q][j] = IF q = r /\ j = i THEN b ELSE branch[q][j]
    BY <1>1, <1>3
<1>6. \A j \in DOMAIN sel[q] : BranchOK(branch'[q][j])
    BY <1>2, <1>5
<1> QED
    BY <1>4, <1>6

\* So does the end of a join.
LEMMA JoinOverOK ==
    ASSUME BranchesOK, NEW r \in Requests, JoinOver(r)
    PROVE  BranchesOK'
<1> SUFFICES ASSUME NEW q \in Requests
             PROVE  /\ branch'[q] \in [DOMAIN sel'[q] -> Branches]
                    /\ \A j \in DOMAIN sel'[q] : BranchOK(branch'[q][j])
    BY DEF BranchesOK, JoinOver, BranchOK
<1>1. CASE q = r
  <2>1. branch'[q] = <<>> /\ sel'[q] = <<>>
    BY <1>1 DEF BranchesOK, JoinOver
  <2> QED
    BY <2>1
<1>2. CASE q # r
  <2>1. branch'[q] = branch[q] /\ sel'[q] = sel[q]
    BY <1>2 DEF BranchesOK, JoinOver
  <2> QED
    BY <2>1 DEF BranchesOK, BranchOK
<1> QED
    BY <1>1, <1>2

\* The variables that are no part of a branch.
ScalarsOK ==
    /\ online \subseteq Wallets /\ capable \subseteq Wallets /\ banned \subseteq Wallets
    /\ leaving \subseteq Wallets
    /\ stale \in [Wallets -> SUBSET Keys]
    /\ reading \in [Wallets -> Results \cup {None}]
    /\ assignment \in [Keys -> Wallets \cup {None}]
    /\ pending \in [Keys -> Nat]
    /\ recent \in [Keys -> Wallets \cup {None}]
    /\ primary \in [Requests -> Wallets \cup {None}]
    /\ used \in [Requests -> SUBSET Wallets]
    /\ token \in [Requests -> 0 .. MaxTokens]
    /\ asked \subseteq Wallets \X Results /\ chosen \subseteq Wallets \X Keys
    /\ calls \in [Requests -> Nat] /\ leaves \in Nat
    /\ DOMAIN joined = Requests
    /\ \A r \in Requests : primary[r] # None => token[r] < MaxTokens

LEMMA TypeInvSplit == TypeInv <=> ScalarsOK /\ BranchesOK
BY DEF TypeInv, TypeOK, Bounded, BranchesOK, BranchOK, ScalarsOK

-----------------------------------------------------------------------------
(* The sessions' steps                                                     *)

\* One conjunct of the branches' type is untouched when no branch moves.
LEMMA SameBranches == BranchesOK /\ UNCHANGED <<sel, branch>> => BranchesOK'
BY DEF BranchesOK, BranchOK

LEMMA SessionType ==
    ASSUME ScalarsOK, BranchesOK, NEW w \in Wallets, Session(w)
    PROVE  ScalarsOK' /\ BranchesOK'
<1> USE ConstAssumption
<1>1. CASE Register(w) \/ MarkExpertCapable(w) \/ Ban(w)
  <2>1. UNCHANGED <<sessionVars, mapVars, joinVars, callerVars, minerVars>>
    BY <1>1 DEF Register, MarkExpertCapable, Ban
  <2>2. online' \subseteq Wallets /\ capable' \subseteq Wallets /\ banned' \subseteq Wallets
    BY <1>1, Zenon DEF Register, MarkExpertCapable, Ban, ScalarsOK
  <2> QED
    BY <2>1, <2>2, SameBranches
       DEF ScalarsOK, sessionVars, mapVars, joinVars, callerVars, minerVars
<1>2. CASE Leave(w)
  <2>1. BranchesOK'
    BY <1>2, JoinOverOK, SameBranches DEF Leave, joinVars
  <2>2. /\ primary' \in [Requests -> Wallets \cup {None}]
        /\ used' \in [Requests -> SUBSET Wallets]
        /\ calls' \in [Requests -> Nat]
        /\ \A r \in Requests : primary'[r] # None => primary[r] # None
    BY <1>2 DEF Leave, JoinOver, joinVars, ScalarsOK
  <2>3. /\ online' \subseteq Wallets /\ capable' \subseteq Wallets
        /\ leaving' \subseteq Wallets
    BY <1>2, Zenon DEF Leave, ScalarsOK
  <2> QED
    BY <1>2, <2>1, <2>2, <2>3 DEF Leave, ScalarsOK, mapVars, callerVars, minerVars
<1>3. CASE CollectStale(w)
    BY <1>3, SameBranches
       DEF CollectStale, ScalarsOK, registryVars, mapVars, joinVars, callerVars, minerVars
<1>4. ASSUME NEW k \in Keys, DropStale(w, k) PROVE ScalarsOK' /\ BranchesOK'
    BY <1>4, SameBranches
       DEF DropStale, Forget, ScalarsOK, registryVars, joinVars, callerVars, minerVars
<1>5. ASSUME NEW res \in Results, CheckResult(w, res) PROVE ScalarsOK' /\ BranchesOK'
    BY <1>5, SameBranches
       DEF CheckResult, ScalarsOK, registryVars, mapVars, joinVars, callerVars
<1>6. ASSUME NEW res \in Results, RefuseResult(w, res) PROVE ScalarsOK' /\ BranchesOK'
    BY <1>6, SameBranches
       DEF RefuseResult, ScalarsOK, registryVars, sessionVars, mapVars, joinVars, callerVars
<1>7. CASE DeliverResult(w)
  <2> DEFINE k == reading[w].key
             term == [from |-> w, token |-> reading[w].token]
  <2>1. reading[w] \in Results /\ k \in Keys /\ k[1] \in Requests /\ term \in Terms
    BY <1>7 DEF DeliverResult, ScalarsOK, Results, Terms, Keys
  <2>2. ScalarsOK'
    BY <1>7, <2>1
       DEF DeliverResult, ScalarsOK, registryVars, callerVars, minerVars
  <2>3. sel' = sel /\ DOMAIN branch' = Requests
    BY <1>7 DEF DeliverResult, BranchesOK
  <2>4. ASSUME NEW q \in Requests
        PROVE  branch'[q] \in [DOMAIN sel[q] -> Branches]
               /\ \A j \in DOMAIN sel[q] : BranchOK(branch'[q][j])
    <3>1. branch[q] \in [DOMAIN sel[q] -> Branches]
          /\ \A j \in DOMAIN sel[q] : BranchOK(branch[q][j])
      BY DEF BranchesOK
    <3>2. CASE q # k[1]
      <4>1. branch'[q] = branch[q]
        BY <1>7, <3>2 DEF DeliverResult, BranchesOK
      <4> QED
        BY <3>1, <4>1
    <3>3. CASE q = k[1]
      <4>1. branch'[q] = [j \in DOMAIN sel[q] |->
                IF Awaits(q, j, k) THEN [branch[q][j] EXCEPT !.inbox = term]
                ELSE branch[q][j]]
        BY <1>7, <3>1, <3>3 DEF DeliverResult, BranchesOK
      <4>2. ASSUME NEW j \in DOMAIN sel[q], Awaits(q, j, k)
            PROVE  BranchOK([branch[q][j] EXCEPT !.inbox = term])
        <5>1. BranchOK(branch[q][j])
          BY <3>1
        <5> QED
          BY <2>1, <4>2, <5>1 DEF Awaits, BranchOK, Branches
      <4>3. \A j \in DOMAIN sel[q] : BranchOK(branch'[q][j])
        BY <3>1, <4>1, <4>2
      <4>4. \A j \in DOMAIN sel[q] : branch'[q][j] \in Branches
        BY <4>3 DEF BranchOK
      <4> QED
        BY <4>1, <4>3, <4>4
    <3> QED
      BY <3>2, <3>3
  <2> QED
    BY <2>2, <2>3, <2>4 DEF BranchesOK, BranchOK
<1> QED
    BY <1>1, <1>2, <1>3, <1>4, <1>5, <1>6, <1>7 DEF Session

-----------------------------------------------------------------------------
(* The steps of a branch                                                   *)

\* The cardinalities a retry and the last failure lead to.
LEMMA TriedGrows ==
    ASSUME NEW tried, IsFiniteSet(tried), Cardinality(tried) <= MaxRetries, NEW w
    PROVE  /\ IsFiniteSet(tried \cup {w})
           /\ Cardinality(tried \cup {w}) \in Nat
           /\ Cardinality(tried \cup {w}) <= MaxRetries + 1
<1>1. /\ IsFiniteSet(tried \cup {w})
      /\ \/ Cardinality(tried \cup {w}) = Cardinality(tried)
         \/ Cardinality(tried \cup {w}) = Cardinality(tried) + 1
    BY FS_AddElement
<1>2. Cardinality(tried) \in Nat
    BY FS_CardinalityType
<1> QED
    BY <1>1, <1>2, ConstAssumption

LEMMA BranchType ==
    ASSUME ScalarsOK, BranchesOK, NEW r \in Requests, NEW i \in DOMAIN sel[r], Branch(r, i)
    PROVE  ScalarsOK' /\ BranchesOK'
<1> DEFINE b == branch[r][i]
<1> USE ConstAssumption
<1>0. /\ BranchOK(b) /\ b \in Branches
      /\ i \in Nat /\ sel[r][i] \in Experts /\ Key(r, i) \in Keys
  <2>1. sel[r] \in Seq(Experts)
    BY DEF BranchesOK
  <2> QED
    BY <2>1 DEF BranchesOK, BranchOK, Key, Keys
<1>1. CASE Plan(r, i)
  <2>1. PICK w \in Wallets :
            /\ used' = [used EXCEPT ![r] = @ \cup {w}]
            /\ Update(r, i, [b EXCEPT !.at = "planned", !.wallet = w])
    BY <1>1 DEF Plan
  <2>2. BranchOK([b EXCEPT !.at = "planned", !.wallet = w])
    BY <1>0, <1>1 DEF BranchOK, Branches, Steps, Inside, Plan, NextToPlan
  <2>3. BranchesOK'
    BY <1>1, <2>1, <2>2, UpdateOK DEF Plan
  <2>4. used' \in [Requests -> SUBSET Wallets]
    BY <2>1 DEF ScalarsOK
  <2> QED
    BY <1>1, <2>3, <2>4
       DEF Plan, ScalarsOK, registryVars, sessionVars, mapVars, callerVars, minerVars
<1>2. CASE PlanFails(r, i)
    BY <1>2, JoinOverOK
       DEF PlanFails, JoinOver, ScalarsOK, registryVars, sessionVars, mapVars, callerVars,
           minerVars
<1>3. CASE LookUp(r, i)
  <2> DEFINE c == [b EXCEPT !.at = IF b.wallet \in online THEN "assign" ELSE "retry"]
  <2>1. BranchOK(c)
    BY <1>0, <1>3 DEF LookUp, At, BranchOK, Branches, Steps, Inside
  <2>2. BranchesOK'
    BY <1>3, <2>1, UpdateOK DEF LookUp
  <2> QED
    BY <1>3, <2>2
       DEF LookUp, ScalarsOK, registryVars, sessionVars, mapVars, callerVars, minerVars
<1>4. CASE Assign(r, i)
  <2>0. b.wallet \in Wallets
    BY <1>0, <1>4 DEF Assign, At, BranchOK
  <2>1. BranchOK([b EXCEPT !.at = "pend"])
    BY <1>0, <1>4 DEF Assign, At, BranchOK, Branches, Steps, Inside
  <2>2. BranchesOK'
    BY <1>4, <2>1, UpdateOK DEF Assign
  <2>3. assignment' \in [Keys -> Wallets \cup {None}] /\ chosen' \subseteq Wallets \X Keys
    BY <1>0, <1>4, <2>0 DEF Assign, ScalarsOK
  <2> QED
    BY <1>4, <2>2, <2>3 DEF Assign, ScalarsOK, registryVars, sessionVars, callerVars
<1>5. CASE Pend(r, i)
  <2>0. b.wallet \in Wallets
    BY <1>0, <1>5 DEF Pend, At, BranchOK
  <2>1. BranchOK([b EXCEPT !.at = "send"])
    BY <1>0, <1>5 DEF Pend, At, BranchOK, Branches, Steps, Inside
  <2>2. BranchesOK'
    BY <1>5, <2>1, UpdateOK DEF Pend
  <2>3. pending' \in [Keys -> Nat] /\ recent' \in [Keys -> Wallets \cup {None}]
    BY <1>0, <1>5, <2>0 DEF Pend, ScalarsOK
  <2> QED
    BY <1>5, <2>2, <2>3 DEF Pend, ScalarsOK, registryVars, sessionVars, callerVars, minerVars
<1>6. CASE Send(r, i)
  <2>0. b.wallet \in Wallets /\ [key |-> Key(r, i), token |-> token[r]] \in Results
    BY <1>0, <1>6 DEF Send, At, BranchOK, Results, ScalarsOK
  <2>1. BranchOK([b EXCEPT !.at = "wait"])
    BY <1>0, <1>6 DEF Send, At, BranchOK, Branches, Steps, Inside
  <2>2. BranchesOK'
    BY <1>6, <2>1, UpdateOK DEF Send
  <2>3. asked' \subseteq Wallets \X Results
    BY <1>6, <2>0 DEF Send, ScalarsOK
  <2> QED
    BY <1>6, <2>2, <2>3 DEF Send, ScalarsOK, registryVars, sessionVars, mapVars, callerVars
<1>7. CASE SendFails(r, i)
  <2>1. BranchOK([b EXCEPT !.at = "retry", !.inbox = None])
    BY <1>0, <1>7 DEF SendFails, At, BranchOK, Branches, Steps, Inside
  <2>2. BranchesOK'
    BY <1>7, <2>1, UpdateOK DEF SendFails
  <2> QED
    BY <1>0, <1>7, <2>2
       DEF SendFails, Forget, ScalarsOK, registryVars, sessionVars, callerVars, minerVars
<1>8. CASE Received(r, i)
  <2>1. BranchOK([b EXCEPT !.at = "ok"])
    BY <1>0, <1>8 DEF Received, At, BranchOK, Branches, Steps, Inside
  <2>2. BranchesOK'
    BY <1>8, <2>1, UpdateOK DEF Received
  <2> QED
    BY <1>0, <1>8, <2>2
       DEF Received, Forget, ScalarsOK, registryVars, sessionVars, callerVars, minerVars
<1>9. CASE GiveUp(r, i)
  <2>1. BranchOK([b EXCEPT !.at = "retry"])
    BY <1>0, <1>9 DEF GiveUp, At, BranchOK, Branches, Steps, Inside
  <2>2. BranchesOK'
    BY <1>9, <2>1, UpdateOK DEF GiveUp
  <2> QED
    BY <1>0, <1>9, <2>2
       DEF GiveUp, Forget, ScalarsOK, registryVars, sessionVars, callerVars, minerVars
<1>10. CASE Retry(r, i)
  <2>1. PICK w \in Wallets :
            Update(r, i, [b EXCEPT !.at = "get", !.tried = @ \cup {b.wallet}, !.wallet = w])
    BY <1>10 DEF Retry
  <2>2. /\ IsFiniteSet(b.tried \cup {b.wallet})
        /\ Cardinality(b.tried \cup {b.wallet}) \in Nat
        /\ Cardinality(b.tried \cup {b.wallet}) <= MaxRetries
        /\ b.tried \cup {b.wallet} \subseteq Wallets
    BY <1>0, <1>10, TriedGrows DEF Retry, At, Attempts, BranchOK, Branches
  <2>3. BranchOK([b EXCEPT !.at = "get", !.tried = @ \cup {b.wallet}, !.wallet = w])
    <3> DEFINE c == [b EXCEPT !.at = "get", !.tried = @ \cup {b.wallet}, !.wallet = w]
    <3>1. /\ c.at = "get" /\ c.tried = b.tried \cup {b.wallet} /\ c.wallet = w
          /\ c \in Branches
      BY <1>0, <2>2 DEF Branches, Steps, Inside
    <3> QED
      BY <2>2, <3>1 DEF BranchOK
  <2>4. BranchesOK'
    BY <1>10, <2>1, <2>3, UpdateOK DEF Retry
  <2> QED
    BY <1>10, <2>4
       DEF Retry, ScalarsOK, registryVars, sessionVars, mapVars, callerVars, minerVars
<1>11. CASE Exhausted(r, i)
  <2>1. /\ IsFiniteSet(b.tried \cup {b.wallet})
        /\ Cardinality(b.tried \cup {b.wallet}) <= MaxRetries + 1
        /\ b.tried \cup {b.wallet} \subseteq Wallets /\ b.wallet \in Wallets
    BY <1>0, <1>11, TriedGrows DEF Exhausted, At, BranchOK, Branches
  <2>2. BranchOK([b EXCEPT !.at = "err", !.tried = @ \cup {b.wallet}])
    BY <1>0, <2>1 DEF BranchOK, Branches, Steps, Inside
  <2>3. BranchesOK'
    BY <1>11, <2>2, UpdateOK DEF Exhausted
  <2> QED
    BY <1>11, <2>3
       DEF Exhausted, ScalarsOK, registryVars, sessionVars, mapVars, callerVars, minerVars
<1> QED
    BY <1>1, <1>2, <1>3, <1>4, <1>5, <1>6, <1>7, <1>8, <1>9, <1>10, <1>11 DEF Branch

-----------------------------------------------------------------------------
(* The join                                                                *)

LEMMA StartType ==
    ASSUME ScalarsOK, BranchesOK, NEW r \in Requests, NEW w \in Wallets, DispatchAndJoin(r, w)
    PROVE  ScalarsOK' /\ BranchesOK'
<1> USE ConstAssumption
<1>1. PICK s \in Selections :
        /\ sel' = [sel EXCEPT ![r] = s]
        /\ branch' = [branch EXCEPT ![r] = [i \in DOMAIN s |-> Planless]]
    BY DEF DispatchAndJoin
<1>2. BranchOK(Planless) /\ Planless \in Branches
    BY FS_EmptySet DEF BranchOK, Planless, Branches, Steps, Inside
<1>3. BranchesOK'
  <2>1. sel' \in [Requests -> Selections \cup {<<>>}] /\ DOMAIN branch' = Requests
    BY <1>1 DEF BranchesOK
  <2>2. ASSUME NEW q \in Requests
        PROVE  branch'[q] \in [DOMAIN sel'[q] -> Branches]
               /\ \A j \in DOMAIN sel'[q] : BranchOK(branch'[q][j])
    <3>1. CASE q = r
      <4>1. sel'[q] = s /\ branch'[q] = [i \in DOMAIN s |-> Planless]
        BY <1>1, <3>1 DEF BranchesOK
      <4> QED
        BY <1>2, <4>1
    <3>2. CASE q # r
      <4>1. sel'[q] = sel[q] /\ branch'[q] = branch[q]
        BY <1>1, <3>2 DEF BranchesOK
      <4> QED
        BY <4>1 DEF BranchesOK
    <3> QED
      BY <3>1, <3>2
  <2> QED
    BY <2>1, <2>2 DEF BranchesOK, BranchOK
<1>4. /\ primary' \in [Requests -> Wallets \cup {None}]
      /\ used' \in [Requests -> SUBSET Wallets]
      /\ calls' \in [Requests -> Nat]
      /\ DOMAIN joined' = Requests
    BY DEF DispatchAndJoin, ScalarsOK
<1>5. \A q \in Requests : primary'[q] # None => token'[q] < MaxTokens
    BY DEF DispatchAndJoin, ScalarsOK
<1>6. ScalarsOK'
    BY <1>4, <1>5
       DEF DispatchAndJoin, ScalarsOK, registryVars, sessionVars, mapVars, minerVars
<1> QED
    BY <1>3, <1>6

LEMMA JoinType ==
    ASSUME ScalarsOK, BranchesOK, NEW r \in Requests, Join(r)
    PROVE  ScalarsOK' /\ BranchesOK'
<1> USE ConstAssumption
<1>1. JoinOver(r)
    BY DEF Join, JoinSucceeds, JoinFails
<1>2. BranchesOK'
    BY <1>1, JoinOverOK
<1>3. /\ primary' \in [Requests -> Wallets \cup {None}]
      /\ used' \in [Requests -> SUBSET Wallets]
      /\ calls' \in [Requests -> Nat]
      /\ \A q \in Requests : primary'[q] # None => q # r /\ primary[q] # None
    BY <1>1 DEF JoinOver, ScalarsOK
<1>4. /\ token' \in [Requests -> 0 .. MaxTokens] /\ DOMAIN joined' = Requests
      /\ \A q \in Requests : q # r => token'[q] = token[q]
  <2>1. CASE JoinSucceeds(r)
    BY <2>1 DEF JoinSucceeds, AllDone, ScalarsOK
  <2>2. CASE JoinFails(r)
    BY <2>2 DEF JoinFails, ScalarsOK, callerVars
  <2> QED
    BY <2>1, <2>2 DEF Join
<1>5. UNCHANGED <<registryVars, sessionVars, mapVars, minerVars>>
    BY DEF Join, JoinSucceeds, JoinFails
<1> QED
    BY <1>2, <1>3, <1>4, <1>5 DEF ScalarsOK, registryVars, sessionVars, mapVars, minerVars

LEMMA TypeInit == Init => TypeInv
<1> SUFFICES ASSUME Init PROVE ScalarsOK /\ BranchesOK
    BY TypeInvSplit
<1>1. ScalarsOK
    BY ConstAssumption DEF Init, ScalarsOK
<1>2. BranchesOK
    BY DEF Init, BranchesOK, BranchOK
<1> QED
    BY <1>1, <1>2

LEMMA TypeStep == TypeInv /\ [Next]_vars => TypeInv'
<1> SUFFICES ASSUME ScalarsOK, BranchesOK, [Next]_vars PROVE ScalarsOK' /\ BranchesOK'
    BY TypeInvSplit DEF TypeInv, TypeOK, Bounded, BranchesOK, BranchOK, ScalarsOK
<1>1. CASE Next
    BY <1>1, SessionType, BranchType, StartType, JoinType DEF Next, Slots
<1>2. CASE UNCHANGED vars
    BY <1>2, SameBranches
       DEF vars, ScalarsOK, registryVars, sessionVars, mapVars, joinVars, callerVars, minerVars
<1> QED
    BY <1>1, <1>2

\* Every variable of the dispatcher keeps its type: a branch past its plan has
\* a host, a successful one a result, and none is tried more often than
\* MAX_RETRIES_PER_EXPERT allows (dispatch_one_with_retry).
THEOREM TypeCorrect == Spec => []TypeOK
<1>1. TypeInv => TypeOK
    BY DEF TypeInv
<1> QED
    BY <1>1, TypeInit, TypeStep, PTL DEF Spec

-----------------------------------------------------------------------------
(* Whose result is combined                                                *)

\* What a step of one branch makes of each.
LEMMA UpdateIs ==
    ASSUME BranchesOK, NEW r \in Requests, NEW i \in DOMAIN sel[r], NEW b, Update(r, i, b),
           NEW q \in Requests, NEW j \in DOMAIN sel[q]
    PROVE  branch'[q][j] = IF q = r /\ j = i THEN b ELSE branch[q][j]
<1>1. branch'[q] = IF q = r THEN [branch[r] EXCEPT ![i] = b] ELSE branch[q]
    BY DEF BranchesOK, Update
<1>2. branch[q] \in [DOMAIN sel[q] -> Branches]
    BY DEF BranchesOK
<1> QED
    BY <1>1, <1>2

\* What the end of a join leaves of the branches.
LEMMA JoinOverIs ==
    ASSUME BranchesOK, ScalarsOK, NEW r \in Requests, JoinOver(r),
           NEW q \in Requests, NEW j \in DOMAIN sel'[q]
    PROVE  /\ q # r /\ sel'[q] = sel[q] /\ branch'[q] = branch[q]
           /\ primary'[q] = primary[q] /\ used'[q] = used[q]
<1>1. q # r
  <2> SUFFICES ASSUME q = r PROVE FALSE
    OBVIOUS
  <2>1. sel'[q] = <<>>
    BY DEF BranchesOK, JoinOver
  <2> QED
    BY <2>1
<1> QED
    BY <1>1 DEF BranchesOK, ScalarsOK, JoinOver

\* Who has a key, and who reports it, was chosen for it; nobody reports while it
\* is a primary.
Recorded ==
    /\ \A k \in Keys : assignment[k] # None => <<assignment[k], k>> \in chosen
    /\ \A w \in Wallets : reading[w] # None =>
        <<w, reading[w].key>> \in chosen /\ \A r \in Requests : primary[r] # w

\* So it is for what reached a branch.
Delivered ==
    \A r \in Requests : \A i \in DOMAIN sel[r] : branch[r][i].inbox # None =>
        /\ branch[r][i].inbox.from # primary[r]
        /\ <<branch[r][i].inbox.from, Key(r, i)>> \in chosen

LEMMA RecordedStep == TypeInv /\ Recorded /\ [Next]_vars => Recorded'
<1> SUFFICES ASSUME ScalarsOK, BranchesOK, Recorded, [Next]_vars PROVE Recorded'
    BY TypeInvSplit
<1> USE ConstAssumption DEF Recorded, ScalarsOK
<1>1. ASSUME NEW w \in Wallets,
             Register(w) \/ MarkExpertCapable(w) \/ Ban(w) \/ CollectStale(w)
      PROVE  Recorded'
    BY <1>1 DEF Register, MarkExpertCapable, Ban, CollectStale, sessionVars, mapVars, joinVars,
                minerVars
<1>2. ASSUME NEW w \in Wallets, Leave(w) PROVE Recorded'
    BY <1>2 DEF Leave, JoinOver, mapVars, joinVars, minerVars
<1>3. ASSUME NEW w \in Wallets, NEW k \in Keys, DropStale(w, k) PROVE Recorded'
    BY <1>3 DEF DropStale, Forget, joinVars, minerVars
<1>4. ASSUME NEW w \in Wallets, NEW res \in Results, CheckResult(w, res) PROVE Recorded'
  <2>1. res.key \in Keys
    BY DEF Results
  <2> QED
    BY <1>4, <2>1 DEF CheckResult, Reads, mapVars, joinVars
<1>5. ASSUME NEW w \in Wallets, NEW res \in Results, RefuseResult(w, res) PROVE Recorded'
    BY <1>5 DEF RefuseResult, sessionVars, mapVars, joinVars
<1>6. ASSUME NEW w \in Wallets, DeliverResult(w) PROVE Recorded'
    BY <1>6 DEF DeliverResult, minerVars
<1>7. ASSUME NEW r \in Requests, Join(r) PROVE Recorded'
    BY <1>7 DEF Join, JoinSucceeds, JoinFails, JoinOver, sessionVars, mapVars, minerVars
<1>8. ASSUME NEW r \in Requests, NEW w \in Wallets, DispatchAndJoin(r, w) PROVE Recorded'
    BY <1>8 DEF DispatchAndJoin, Reads, sessionVars, mapVars, minerVars
<1>9. ASSUME NEW r \in Requests, NEW i \in DOMAIN sel[r], Branch(r, i) PROVE Recorded'
  <2>1. CASE Plan(r, i)
    BY <2>1 DEF Plan, sessionVars, mapVars, minerVars
  <2>2. CASE PlanFails(r, i)
    BY <2>2 DEF PlanFails, JoinOver, sessionVars, mapVars, minerVars
  <2>3. CASE Assign(r, i)
    <3>1. /\ assignment' = [assignment EXCEPT ![Key(r, i)] = branch[r][i].wallet]
          /\ chosen' = chosen \cup {<<branch[r][i].wallet, Key(r, i)>>}
          /\ primary' = primary /\ reading' = reading
      BY <2>3 DEF Assign, sessionVars
    <3> QED
      BY <3>1
  <2>4. CASE LookUp(r, i) \/ Retry(r, i) \/ Exhausted(r, i) \/ Pend(r, i) \/ Send(r, i)
    BY <2>4 DEF LookUp, Retry, Exhausted, Pend, Send, sessionVars, mapVars, minerVars
  <2>5. CASE SendFails(r, i) \/ Received(r, i) \/ GiveUp(r, i)
    BY <2>5 DEF SendFails, Received, GiveUp, Forget, sessionVars, minerVars
  <2> QED
    BY <1>9, <2>1, <2>2, <2>3, <2>4, <2>5 DEF Branch
<1>10. CASE UNCHANGED vars
    BY <1>10 DEF vars, sessionVars, mapVars, joinVars, minerVars
<1> QED
    BY <1>1, <1>2, <1>3, <1>4, <1>5, <1>6, <1>7, <1>8, <1>9, <1>10 DEF Next, Session, Slots

\* The history only grows.
LEMMA ChosenGrows == [Next]_vars => chosen \subseteq chosen'
<1> SUFFICES ASSUME [Next]_vars PROVE chosen \subseteq chosen'
    OBVIOUS
<1>1. ASSUME NEW r \in Requests, NEW i \in DOMAIN sel[r], Branch(r, i)
      PROVE  chosen \subseteq chosen'
    BY <1>1 DEF Branch, Plan, PlanFails, LookUp, Assign, Pend, Send, SendFails, Received,
                GiveUp, Retry, Exhausted, minerVars
<1>2. ASSUME NEW w \in Wallets, Session(w) PROVE chosen' = chosen
    BY <1>2 DEF Session, Register, MarkExpertCapable, Ban, Leave, CollectStale, DropStale,
                CheckResult, RefuseResult, DeliverResult, minerVars
<1> QED
    BY <1>1, <1>2 DEF Next, Slots, Join, JoinSucceeds, JoinFails, DispatchAndJoin,
       minerVars, vars

LEMMA DeliveredStep == TypeInv /\ Recorded /\ Delivered /\ [Next]_vars => Delivered'
<1> SUFFICES ASSUME ScalarsOK, BranchesOK, Recorded, Delivered, [Next]_vars,
                    NEW q \in Requests, NEW j \in DOMAIN sel'[q],
                    branch'[q][j].inbox # None
             PROVE  /\ branch'[q][j].inbox.from # primary'[q]
                    /\ <<branch'[q][j].inbox.from, <<q, sel'[q][j]>>>> \in chosen'
    BY TypeInvSplit DEF Delivered, Key
<1> DEFINE Goal == /\ branch'[q][j].inbox.from # primary'[q]
                   /\ <<branch'[q][j].inbox.from, <<q, sel'[q][j]>>>> \in chosen'
<1>0. chosen \subseteq chosen'
    BY ChosenGrows
<1>1. CASE UNCHANGED <<sel, branch, primary>>
    BY <1>0, <1>1 DEF Delivered, Key
<1>2. ASSUME NEW r \in Requests, JoinOver(r) PROVE Goal
    BY <1>0, <1>2, JoinOverIs DEF Delivered, Key
<1>3. ASSUME NEW w \in Wallets, DeliverResult(w) PROVE Goal
  <2> DEFINE k == reading[w].key
             term == [from |-> w, token |-> reading[w].token]
  <2>1. /\ sel' = sel /\ primary' = primary /\ chosen' = chosen
        /\ reading[w] \in Results /\ k \in Keys /\ k[1] \in Requests
    BY <1>3 DEF DeliverResult, minerVars, ScalarsOK, Results, Keys
  <2>2. w # primary[q] /\ <<w, k>> \in chosen
    BY <1>3 DEF DeliverResult, Recorded
  <2>3. CASE q = k[1] /\ Awaits(q, j, k)
    <3>1. branch[q] \in [DOMAIN sel[q] -> Branches]
      BY DEF BranchesOK
    <3>2. branch'[q][j] = [branch[q][j] EXCEPT !.inbox = term]
      BY <1>3, <2>1, <2>3, <3>1 DEF DeliverResult, BranchesOK
    <3>3. branch[q][j] \in Branches
      BY <2>1, <3>1
    <3>4. branch'[q][j].inbox = term
      BY <3>2, <3>3 DEF Branches
    <3> QED
      BY <2>1, <2>2, <2>3, <3>4 DEF Awaits
  <2>4. CASE ~(q = k[1] /\ Awaits(q, j, k))
    <3>1. branch'[q][j] = branch[q][j]
      BY <1>3, <2>1, <2>4 DEF DeliverResult, BranchesOK
    <3> QED
      BY <2>1, <3>1 DEF Delivered, Key
  <2> QED
    BY <2>3, <2>4
<1>4. ASSUME NEW r \in Requests, NEW w \in Wallets, DispatchAndJoin(r, w) PROVE Goal
  <2>1. PICK s \in Selections :
          /\ sel' = [sel EXCEPT ![r] = s]
          /\ branch' = [branch EXCEPT ![r] = [i \in DOMAIN s |-> Planless]]
    BY <1>4 DEF DispatchAndJoin
  <2>2. q # r
    BY <2>1 DEF BranchesOK, Planless
  <2>3. sel'[q] = sel[q] /\ branch'[q] = branch[q] /\ primary'[q] = primary[q]
    BY <1>4, <2>1, <2>2 DEF BranchesOK, DispatchAndJoin, ScalarsOK
  <2> QED
    BY <1>0, <2>3 DEF Delivered, Key
<1>5. ASSUME NEW r \in Requests, NEW i \in DOMAIN sel[r], Branch(r, i), ~PlanFails(r, i)
      PROVE  Goal
  <2>1. PICK b : /\ Update(r, i, b) /\ b.inbox \in {None, branch[r][i].inbox}
    <3>1. branch[r][i] \in Branches
      BY DEF BranchesOK
    <3> DEFINE c == branch[r][i]
    <3> SUFFICES \E b : Update(r, i, b) /\ b.inbox \in {None, c.inbox}
      OBVIOUS
    <3>2. CASE Plan(r, i)
      <4>1. PICK w : Update(r, i, [c EXCEPT !.at = "planned", !.wallet = w])
        BY <3>2 DEF Plan
      <4> DEFINE d == [c EXCEPT !.at = "planned", !.wallet = w]
      <4>2. Update(r, i, d) /\ d.inbox \in {None, c.inbox}
        BY <3>1, <4>1 DEF Branches
      <4> HIDE DEF d
      <4> QED
        BY <4>2
    <3>3. CASE LookUp(r, i)
      BY <3>1, <3>3 DEF LookUp, Branches
    <3>4. CASE Assign(r, i)
      BY <3>1, <3>4 DEF Assign, Branches
    <3>5. CASE Pend(r, i)
      BY <3>1, <3>5 DEF Pend, Branches
    <3>6. CASE Send(r, i)
      BY <3>1, <3>6 DEF Send, Branches
    <3>7. CASE SendFails(r, i)
      <4> DEFINE d == [c EXCEPT !.at = "retry", !.inbox = None]
      <4>1. Update(r, i, d) /\ d.inbox \in {None, c.inbox}
        BY <3>1, <3>7 DEF SendFails, Branches
      <4> HIDE DEF d
      <4> QED
        BY <4>1
    <3>8. CASE Received(r, i)
      BY <3>1, <3>8 DEF Received, Branches
    <3>9. CASE GiveUp(r, i)
      BY <3>1, <3>9 DEF GiveUp, Branches
    <3>10. CASE Retry(r, i)
      <4>1. PICK w : Update(r, i, [c EXCEPT !.at = "get", !.tried = @ \cup {c.wallet}, !.wallet = w])
        BY <3>10 DEF Retry
      <4> DEFINE d == [c EXCEPT !.at = "get", !.tried = @ \cup {c.wallet}, !.wallet = w]
      <4>2. Update(r, i, d) /\ d.inbox \in {None, c.inbox}
        BY <3>1, <4>1 DEF Branches
      <4> HIDE DEF d
      <4> QED
        BY <4>2
    <3>11. CASE Exhausted(r, i)
      <4> DEFINE d == [c EXCEPT !.at = "err", !.tried = @ \cup {c.wallet}]
      <4>1. Update(r, i, d) /\ d.inbox \in {None, c.inbox}
        BY <3>1, <3>11 DEF Exhausted, Branches
      <4> HIDE DEF d
      <4> QED
        BY <4>1
    <3> QED
      BY <1>5, <3>2, <3>3, <3>4, <3>5, <3>6, <3>7, <3>8, <3>9, <3>10, <3>11 DEF Branch
  <2>2. sel' = sel /\ primary' = primary
    BY <1>5 DEF Branch, Plan, LookUp, Assign, Pend, Send, SendFails, Received,
                GiveUp, Retry, Exhausted
  <2>3. branch'[q][j].inbox = branch[q][j].inbox
    BY <2>1, <2>2, UpdateIs
  <2> QED
    BY <1>0, <2>2, <2>3 DEF Delivered, Key
<1>6. ASSUME NEW w \in Wallets, Session(w), ~DeliverResult(w) PROVE Goal
    BY <1>1, <1>2, <1>6 DEF Session, Register, MarkExpertCapable, Ban, Leave, CollectStale,
       DropStale, CheckResult, RefuseResult, joinVars
<1>7. ASSUME NEW r \in Requests, NEW i \in DOMAIN sel[r], PlanFails(r, i) PROVE Goal
    BY <1>2, <1>7 DEF PlanFails
<1>8. ASSUME NEW r \in Requests, Join(r) PROVE Goal
    BY <1>2, <1>8 DEF Join, JoinSucceeds, JoinFails
<1> QED
    BY <1>1, <1>3, <1>4, <1>5, <1>6, <1>7, <1>8 DEF Next, Slots, vars, joinVars

LEMMA TermsStep ==
    TypeInv /\ Delivered /\ TermsWereAsked /\ Recorded /\ [Next]_vars => TermsWereAsked'
<1> SUFFICES ASSUME ScalarsOK, BranchesOK, Delivered, TermsWereAsked, [Next]_vars,
                    chosen \subseteq chosen'
             PROVE  TermsWereAsked'
    BY ChosenGrows, TypeInvSplit
<1>1. ASSUME NEW r \in Requests, JoinSucceeds(r) PROVE TermsWereAsked'
  <2> SUFFICES ASSUME NEW q \in Requests, joined'[q] # None,
                      NEW i \in DOMAIN joined'[q].experts
               PROVE  /\ joined'[q].terms[i].from # joined'[q].primary
                      /\ <<joined'[q].terms[i].from, <<q, joined'[q].experts[i]>>>> \in chosen'
    BY DEF TermsWereAsked
  <2>1. CASE q = r
    <3>1. joined'[q] = [primary |-> primary[r], experts |-> sel[r], token |-> token[r],
                        terms |-> [k \in DOMAIN sel[r] |-> branch[r][k].inbox]]
      BY <1>1, <2>1 DEF JoinSucceeds, ScalarsOK
    <3>2. i \in DOMAIN sel[r] /\ joined'[q].terms[i] = branch[r][i].inbox
      BY <3>1
    <3>3. branch[r][i].inbox # None
      BY <1>1, <3>2 DEF JoinSucceeds, AllOk, BranchesOK, BranchOK
    <3> QED
      BY <2>1, <3>1, <3>2, <3>3 DEF Delivered, Key
  <2>2. CASE q # r
    <3>1. joined'[q] = joined[q]
      BY <1>1, <2>2 DEF JoinSucceeds, ScalarsOK
    <3> QED
      BY <3>1 DEF TermsWereAsked
  <2> QED
    BY <2>1, <2>2
<1>2. ASSUME NEW r \in Requests, NEW w \in Wallets, DispatchAndJoin(r, w)
      PROVE  TermsWereAsked'
    BY <1>2 DEF DispatchAndJoin, ScalarsOK, TermsWereAsked
<1>3. CASE UNCHANGED joined
    BY <1>3 DEF TermsWereAsked
<1>4. ASSUME NEW w \in Wallets, Session(w) PROVE UNCHANGED joined
    BY <1>4 DEF Session, Register, MarkExpertCapable, Ban, Leave, CollectStale, DropStale,
                CheckResult, RefuseResult, DeliverResult, callerVars
<1>5. ASSUME NEW r \in Requests, NEW i \in DOMAIN sel[r], Branch(r, i) PROVE UNCHANGED joined
    BY <1>5 DEF Branch, Plan, PlanFails, LookUp, Assign, Pend, Send, SendFails, Received,
                GiveUp, Retry, Exhausted, callerVars
<1>6. ASSUME NEW r \in Requests, JoinFails(r) PROVE UNCHANGED joined
    BY <1>6 DEF JoinFails, callerVars
<1> QED
    BY <1>1, <1>2, <1>3, <1>4, <1>5, <1>6 DEF Next, Slots, Join, vars, callerVars

\* A combined output has a term for every selected expert, from a wallet that
\* dispatch_one chose for this very expert and that is not the primary, however
\* late a result comes and whoever leaves while handle_expert_result is between
\* its check and its delivery.
THEOREM TermsFromHosts == Spec => []TermsWereAsked
<1> DEFINE Inv == TypeInv /\ Recorded /\ Delivered /\ TermsWereAsked
<1>1. Init => Inv
    BY TypeInit DEF Init, Recorded, Delivered, TermsWereAsked
<1>2. Inv /\ [Next]_vars => Inv'
    BY TypeStep, RecordedStep, DeliveredStep, TermsStep
<1> QED
    BY <1>1, <1>2, PTL DEF Spec

-----------------------------------------------------------------------------
(* Who shares a host                                                       *)

\* Hosts are planned before anything is sent, and a planned host is one of
\* used_wallets until its expert is retried.
PlannedFirst ==
    \A r \in Requests : \A i \in DOMAIN sel[r] :
        /\ branch[r][i].at \in {"plan", "planned"} => branch[r][i].tried = {}
        /\ branch[r][i].at # "plan" /\ branch[r][i].tried = {} => branch[r][i].wallet \in used[r]
        /\ branch[r][i].at \notin {"plan", "planned"} => Planned(r)

LEMMA SharingStep ==
    TypeInv /\ PlannedFirst /\ SharedHostMeansRetries /\ [Next]_vars
    => PlannedFirst' /\ SharedHostMeansRetries'
<1> DEFINE Sharing(r) ==
        \A i \in DOMAIN sel[r] :
            /\ branch[r][i].at \in {"plan", "planned"} => branch[r][i].tried = {}
            /\ branch[r][i].at # "plan" /\ branch[r][i].tried = {} =>
                    branch[r][i].wallet \in used[r]
            /\ branch[r][i].at \notin {"plan", "planned"} =>
                    \A j \in DOMAIN sel[r] : branch[r][j].at # "plan"
            /\ \A j \in DOMAIN sel[r] :
                (/\ i # j
                 /\ branch[r][i].at # "plan" /\ branch[r][j].at # "plan"
                 /\ branch[r][i].wallet = branch[r][j].wallet)
                => branch[r][i].tried # {} /\ branch[r][j].tried # {}
<1>0. PlannedFirst /\ SharedHostMeansRetries <=> \A r \in Requests : Sharing(r)
    BY DEF PlannedFirst, SharedHostMeansRetries, Planned
<1>00. (PlannedFirst /\ SharedHostMeansRetries)' <=> \A r \in Requests : Sharing(r)'
    BY DEF PlannedFirst, SharedHostMeansRetries, Planned
<1> SUFFICES ASSUME ScalarsOK, BranchesOK, \A r \in Requests : Sharing(r), [Next]_vars,
                    NEW q \in Requests
             PROVE  Sharing(q)'
    BY <1>0, <1>00, TypeInvSplit
<1> HIDE DEF Sharing
<1>1. CASE UNCHANGED <<sel, branch, used>>
    BY <1>1 DEF Sharing
<1>2. ASSUME NEW r \in Requests, JoinOver(r) PROVE Sharing(q)'
  <2>1. CASE q = r
    <3>1. sel'[q] = <<>>
      BY <1>2, <2>1 DEF BranchesOK, JoinOver
    <3> QED
      BY <3>1 DEF Sharing
  <2>2. CASE q # r
    <3>1. sel'[q] = sel[q] /\ branch'[q] = branch[q] /\ used'[q] = used[q]
      BY <1>2, <2>2 DEF BranchesOK, ScalarsOK, JoinOver
    <3> QED
      BY <3>1 DEF Sharing
  <2> QED
    BY <2>1, <2>2
<1>3. ASSUME NEW w \in Wallets, DeliverResult(w) PROVE Sharing(q)'
  <2>1. sel' = sel /\ used' = used
    BY <1>3 DEF DeliverResult
  <2>2. \A j \in DOMAIN sel[q] :
            /\ branch'[q][j].at = branch[q][j].at
            /\ branch'[q][j].tried = branch[q][j].tried
            /\ branch'[q][j].wallet = branch[q][j].wallet
    <3> SUFFICES ASSUME NEW j \in DOMAIN sel[q]
                 PROVE  /\ branch'[q][j].at = branch[q][j].at
                        /\ branch'[q][j].tried = branch[q][j].tried
                        /\ branch'[q][j].wallet = branch[q][j].wallet
      OBVIOUS
    <3>1. branch[q] \in [DOMAIN sel[q] -> Branches] /\ branch[q][j] \in Branches
      BY DEF BranchesOK
    <3>2. PICK term : branch'[q][j] \in {branch[q][j], [branch[q][j] EXCEPT !.inbox = term]}
      BY <1>3, <3>1 DEF DeliverResult, BranchesOK
    <3> QED
      BY <3>1, <3>2 DEF Branches
  <2> QED
    BY <2>1, <2>2 DEF Sharing
<1>4. ASSUME NEW r \in Requests, NEW w \in Wallets, DispatchAndJoin(r, w) PROVE Sharing(q)'
  <2>1. PICK s \in Selections :
          /\ sel' = [sel EXCEPT ![r] = s]
          /\ branch' = [branch EXCEPT ![r] = [i \in DOMAIN s |-> Planless]]
    BY <1>4 DEF DispatchAndJoin
  <2>2. CASE q = r
    <3>1. sel'[q] = s /\ branch'[q] = [i \in DOMAIN s |-> Planless]
      BY <2>1, <2>2 DEF BranchesOK
    <3> QED
      BY <3>1 DEF Sharing, Planless
  <2>3. CASE q # r
    <3>1. sel'[q] = sel[q] /\ branch'[q] = branch[q] /\ used'[q] = used[q]
      BY <1>4, <2>1, <2>3 DEF BranchesOK, ScalarsOK, DispatchAndJoin
    <3> QED
      BY <3>1 DEF Sharing
  <2> QED
    BY <2>2, <2>3
<1>5. ASSUME NEW r \in Requests, NEW i \in DOMAIN sel[r], Branch(r, i), ~PlanFails(r, i), q # r
      PROVE  Sharing(q)'
  <2>1. sel' = sel /\ used'[q] = used[q]
    BY <1>5 DEF Branch, Plan, LookUp, Assign, Pend, Send, SendFails, Received,
                GiveUp, Retry, Exhausted, ScalarsOK
  <2>2. branch'[q] = branch[q]
    BY <1>5 DEF Branch, Plan, LookUp, Assign, Pend, Send, SendFails, Received,
                GiveUp, Retry, Exhausted, Update, BranchesOK
  <2> QED
    BY <2>1, <2>2 DEF Sharing
<1>6. ASSUME NEW i \in DOMAIN sel[q], Branch(q, i), ~PlanFails(q, i)
      PROVE  Sharing(q)'
  <2> DEFINE c == branch[q][i]
  <2>0. c \in Branches /\ Sharing(q)
    BY DEF BranchesOK
  <2>1. CASE Plan(q, i)
    <3>1. PICK w \in Wallets :
            /\ w \notin used[q] /\ used' = [used EXCEPT ![q] = @ \cup {w}]
            /\ Update(q, i, [c EXCEPT !.at = "planned", !.wallet = w])
      BY <2>1 DEF Plan, PicksHost, Eligible
    <3>2. sel' = sel /\ used'[q] = used[q] \cup {w} /\ c.at = "plan"
      BY <2>1, <3>1 DEF Plan, NextToPlan, ScalarsOK
    <3> DEFINE d == [c EXCEPT !.at = "planned", !.wallet = w]
    <3>3. d.at = "planned" /\ d.wallet = w /\ d.tried = c.tried
      BY <2>0 DEF Branches
    <3>4. \A j \in DOMAIN sel[q] : branch'[q][j] = IF j = i THEN d ELSE branch[q][j]
      BY <3>1, UpdateIs
    <3> HIDE DEF d
    <3> QED
      BY <2>0, <3>1, <3>2, <3>3, <3>4 DEF Sharing
  <2>2. ASSUME NEW b, Update(q, i, b), b.wallet = c.wallet, b.tried = c.tried,
               b.at # "plan", b.at # "planned", c.at # "plan", Planned(q), sel' = sel, used' = used
        PROVE  Sharing(q)'
    <3>1. \A j \in DOMAIN sel[q] : branch'[q][j] = IF j = i THEN b ELSE branch[q][j]
      BY <2>2, UpdateIs
    <3> QED
      BY <2>0, <2>2, <3>1 DEF Sharing, Planned
  <2>3. CASE Retry(q, i)
    <3>1. PICK w \in Wallets :
            /\ w \notin used[q]
            /\ Update(q, i, [c EXCEPT !.at = "get", !.tried = @ \cup {c.wallet}, !.wallet = w])
      BY <2>3 DEF Retry, PicksHost, Eligible, RetryExcludes
    <3> DEFINE d == [c EXCEPT !.at = "get", !.tried = @ \cup {c.wallet}, !.wallet = w]
    <3>2. d.at = "get" /\ d.wallet = w /\ d.tried = c.tried \cup {c.wallet}
      BY <2>0 DEF Branches
    <3>3. sel' = sel /\ used' = used /\ c.at = "retry"
      BY <2>3 DEF Retry, At
    <3>4. \A j \in DOMAIN sel[q] : branch'[q][j] = IF j = i THEN d ELSE branch[q][j]
      BY <3>1, UpdateIs
    <3>5. d.tried # {}
      BY <3>2
    <3> HIDE DEF d
    <3> QED
      BY <2>0, <3>1, <3>2, <3>3, <3>4, <3>5 DEF Sharing
  <2>4. CASE Exhausted(q, i)
    <3> DEFINE d == [c EXCEPT !.at = "err", !.tried = @ \cup {c.wallet}]
    <3>1. d.at = "err" /\ d.wallet = c.wallet /\ d.tried = c.tried \cup {c.wallet}
      BY <2>0 DEF Branches
    <3>2. sel' = sel /\ used' = used /\ c.at = "retry" /\ Update(q, i, d)
      BY <2>4 DEF Exhausted, At
    <3>3. \A j \in DOMAIN sel[q] : branch'[q][j] = IF j = i THEN d ELSE branch[q][j]
      BY <3>2, UpdateIs
    <3>4. d.tried # {}
      BY <3>1
    <3> HIDE DEF d
    <3> QED
      BY <2>0, <3>1, <3>2, <3>3, <3>4 DEF Sharing
  <2>5. CASE LookUp(q, i)
    <3> DEFINE d == [c EXCEPT !.at = IF c.wallet \in online THEN "assign" ELSE "retry"]
    <3>1. /\ Update(q, i, d) /\ Planned(q) /\ c.at # "plan" /\ sel' = sel /\ used' = used
      BY <2>5 DEF LookUp, At
    <3>2. d.wallet = c.wallet /\ d.tried = c.tried /\ d.at # "plan" /\ d.at # "planned"
      BY <2>0 DEF Branches
    <3> QED
      BY <2>2, <3>1, <3>2
  <2>6. ASSUME c.at \notin {"plan", "planned"} PROVE Planned(q) /\ c.at # "plan"
    BY <2>0, <2>6 DEF Sharing, Planned
  <2>7. CASE Assign(q, i)
    <3>1. /\ Update(q, i, [c EXCEPT !.at = "pend"]) /\ c.at = "assign"
          /\ sel' = sel /\ used' = used
      BY <2>7 DEF Assign, At
    <3> QED
      BY <2>0, <2>2, <2>6, <3>1 DEF Branches
  <2>8. CASE Pend(q, i)
    <3>1. /\ Update(q, i, [c EXCEPT !.at = "send"]) /\ c.at = "pend"
          /\ sel' = sel /\ used' = used
      BY <2>8 DEF Pend, At
    <3> QED
      BY <2>0, <2>2, <2>6, <3>1 DEF Branches
  <2>9. CASE Send(q, i)
    <3>1. /\ Update(q, i, [c EXCEPT !.at = "wait"]) /\ c.at = "send"
          /\ sel' = sel /\ used' = used
      BY <2>9 DEF Send, At
    <3> QED
      BY <2>0, <2>2, <2>6, <3>1 DEF Branches
  <2>10. CASE SendFails(q, i)
    <3>1. /\ Update(q, i, [c EXCEPT !.at = "retry", !.inbox = None]) /\ c.at = "send"
          /\ sel' = sel /\ used' = used
      BY <2>10 DEF SendFails, At
    <3> QED
      BY <2>0, <2>2, <2>6, <3>1 DEF Branches
  <2>11. CASE Received(q, i)
    <3>1. /\ Update(q, i, [c EXCEPT !.at = "ok"]) /\ c.at = "wait"
          /\ sel' = sel /\ used' = used
      BY <2>11 DEF Received, At
    <3> QED
      BY <2>0, <2>2, <2>6, <3>1 DEF Branches
  <2>12. CASE GiveUp(q, i)
    <3>1. /\ Update(q, i, [c EXCEPT !.at = "retry"]) /\ c.at = "wait"
          /\ sel' = sel /\ used' = used
      BY <2>12 DEF GiveUp, At
    <3> QED
      BY <2>0, <2>2, <2>6, <3>1 DEF Branches
  <2> QED
    BY <1>6, <2>1, <2>3, <2>4, <2>5, <2>7, <2>8, <2>9, <2>10, <2>11, <2>12 DEF Branch
<1>7. ASSUME NEW w \in Wallets, Session(w), ~DeliverResult(w) PROVE Sharing(q)'
    BY <1>1, <1>2, <1>7 DEF Session, Register, MarkExpertCapable, Ban, Leave, CollectStale,
       DropStale, CheckResult, RefuseResult, joinVars
<1>8. ASSUME NEW r \in Requests, NEW i \in DOMAIN sel[r], PlanFails(r, i) PROVE Sharing(q)'
    BY <1>2, <1>8 DEF PlanFails
<1>9. ASSUME NEW r \in Requests, Join(r) PROVE Sharing(q)'
    BY <1>2, <1>9 DEF Join, JoinSucceeds, JoinFails
<1> QED
    BY <1>1, <1>3, <1>4, <1>5, <1>6, <1>7, <1>8, <1>9 DEF Next, Slots, vars, joinVars

\* Two experts of one group are with the same host only after both were
\* retried: up-front selection never doubles a host, and a retry never takes a
\* host that was planned for a sibling (dispatch_and_join's used_wallets).
THEOREM HostsAreShared == Spec => []SharedHostMeansRetries
<1> DEFINE Inv == TypeInv /\ PlannedFirst /\ SharedHostMeansRetries
<1>1. Init => Inv
    BY TypeInit DEF Init, PlannedFirst, SharedHostMeansRetries
<1>2. Inv /\ [Next]_vars => Inv'
    BY TypeStep, SharingStep
<1> QED
    BY <1>1, <1>2, PTL DEF Spec

-----------------------------------------------------------------------------
(* Why a join ends                                                         *)

\* How far an attempt of a branch has got.
Rank(at) ==
    CASE at = "plan" -> 0 [] at = "planned" -> 1 [] at = "get" -> 2 [] at = "assign" -> 3
      [] at = "pend" -> 4 [] at = "send" -> 5 [] at = "wait" -> 6 [] at = "retry" -> 7
      [] OTHER -> 8

\* c is further than b: it has tried another host, or got further with this one.
Further(b, c) ==
    b.tried \subseteq c.tried /\ (b.tried # c.tried \/ Rank(b.at) < Rank(c.at))

\* As long as a join lasts, each of its branches stays where it is or gets further,
\* and a step of its task gets one of them further.
MovesOn ==
    \A r \in Requests : primary[r] # None /\ primary'[r] = primary[r] =>
        /\ sel'[r] = sel[r]
        /\ \A i \in DOMAIN sel[r] :
            \/ Further(branch[r][i], branch'[r][i])
            \/ /\ branch'[r][i].at = branch[r][i].at
               /\ branch'[r][i].tried = branch[r][i].tried
        /\ \A i \in DOMAIN sel[r] : Branch(r, i) => Further(branch[r][i], branch'[r][i])

\* A host is tried once by a branch.
UntriedBy(r) ==
    \A i \in DOMAIN sel[r] :
        /\ branch[r][i].at = "plan" => branch[r][i].tried = {}
        /\ branch[r][i].at # "err" => branch[r][i].wallet \notin branch[r][i].tried

Untried == \A r \in Requests : UntriedBy(r)

\* A step of a branch makes d of it.
LEMMA BranchMoves ==
    ASSUME BranchesOK, Untried, NEW r \in Requests, NEW i \in DOMAIN sel[r],
           Branch(r, i), ~PlanFails(r, i)
    PROVE  /\ UNCHANGED <<sel, primary>>
           /\ \E d : /\ Update(r, i, d) /\ Further(branch[r][i], d) /\ d.at # "plan"
                     /\ d.at # "err" => d.wallet \notin d.tried
<1> DEFINE c == branch[r][i]
<1>1. UNCHANGED <<sel, primary>>
    BY DEF Branch, Plan, LookUp, Assign, Pend, Send, SendFails, Received, GiveUp, Retry,
           Exhausted
<1>2. c \in Branches /\ (c.at # "plan" => c.wallet \in Wallets)
    BY DEF BranchesOK, BranchOK
<1>3. (c.at = "plan" => c.tried = {}) /\ (c.at # "err" => c.wallet \notin c.tried)
    BY DEF Untried, UntriedBy
<1> HIDE DEF c
<1>4. ASSUME NEW d, d.tried = c.tried, d.wallet = c.wallet, Rank(c.at) < Rank(d.at),
             Update(r, i, d), c.at # "err", d.at # "plan"
      PROVE  \E b : /\ Update(r, i, b) /\ Further(c, b) /\ b.at # "plan"
                    /\ b.at # "err" => b.wallet \notin b.tried
    BY <1>3, <1>4 DEF Further
<1>5. CASE Plan(r, i)
  <2>1. PICK w \in Wallets : Update(r, i, [c EXCEPT !.at = "planned", !.wallet = w])
    BY <1>5 DEF Plan, c
  <2> DEFINE d == [c EXCEPT !.at = "planned", !.wallet = w]
  <2>2. c.at = "plan"
    BY <1>5 DEF Plan, NextToPlan, c
  <2>3. d.at = "planned" /\ d.tried = c.tried
    BY <1>2 DEF Branches
  <2> HIDE DEF d
  <2>4. Further(c, d) /\ d.wallet \notin d.tried
    BY <1>3, <2>2, <2>3 DEF Further, Rank
  <2> QED
    BY <1>1, <2>1, <2>3, <2>4 DEF c, d
<1>6. CASE LookUp(r, i)
  <2> DEFINE d == [c EXCEPT !.at = IF c.wallet \in online THEN "assign" ELSE "retry"]
  <2>1. Update(r, i, d) /\ c.at \in {"planned", "get"}
    BY <1>6 DEF LookUp, At, c
  <2>2. d.at \in {"assign", "retry"} /\ d.tried = c.tried /\ d.wallet = c.wallet
    BY <1>2 DEF Branches
  <2> HIDE DEF d
  <2>3. Rank(c.at) < Rank(d.at)
    BY <2>1, <2>2 DEF Rank
  <2> QED
    BY <1>1, <1>4, <2>1, <2>2, <2>3 DEF c
<1>7. CASE Retry(r, i)
  <2>1. PICK w \in Wallets :
            /\ w \notin c.tried \cup {c.wallet}
            /\ Update(r, i, [c EXCEPT !.at = "get", !.tried = @ \cup {c.wallet}, !.wallet = w])
    BY <1>7 DEF Retry, PicksHost, Eligible, RetryExcludes, c
  <2> DEFINE d == [c EXCEPT !.at = "get", !.tried = @ \cup {c.wallet}, !.wallet = w]
  <2>2. c.at = "retry"
    BY <1>7 DEF Retry, At, c
  <2>3. d.at = "get" /\ d.tried = c.tried \cup {c.wallet} /\ d.wallet = w
    BY <1>2 DEF Branches
  <2> HIDE DEF d
  <2>4. Further(c, d) /\ d.wallet \notin d.tried
    BY <1>3, <2>1, <2>2, <2>3 DEF Further
  <2> QED
    BY <1>1, <2>1, <2>3, <2>4 DEF c, d
<1>8. CASE Exhausted(r, i)
  <2> DEFINE d == [c EXCEPT !.at = "err", !.tried = @ \cup {c.wallet}]
  <2>1. Update(r, i, d) /\ c.at = "retry"
    BY <1>8 DEF Exhausted, At, c
  <2>2. d.at = "err" /\ d.tried = c.tried \cup {c.wallet}
    BY <1>2 DEF Branches
  <2> HIDE DEF d
  <2>3. Further(c, d)
    BY <2>1, <2>2 DEF Further, Rank
  <2> QED
    BY <1>1, <2>1, <2>2, <2>3 DEF c
<1>9. ASSUME NEW at \in {"pend", "send", "wait", "ok", "retry"},
             Update(r, i, [c EXCEPT !.at = at]), Rank(c.at) < Rank(at), c.at # "err"
      PROVE  \E b : /\ Update(r, i, b) /\ Further(c, b) /\ b.at # "plan"
                    /\ b.at # "err" => b.wallet \notin b.tried
  <2> DEFINE d == [c EXCEPT !.at = at]
  <2>1. d.at = at /\ d.tried = c.tried /\ d.wallet = c.wallet
    BY <1>2 DEF Branches
  <2> HIDE DEF d
  <2> QED
    BY <1>4, <1>9, <2>1 DEF d
<1>10. CASE Assign(r, i)
  <2>1. Update(r, i, [c EXCEPT !.at = "pend"]) /\ c.at = "assign"
    BY <1>10 DEF Assign, At, c
  <2> QED
    BY <1>1, <1>9, <2>1 DEF Rank, c
<1>11. CASE Pend(r, i)
  <2>1. Update(r, i, [c EXCEPT !.at = "send"]) /\ c.at = "pend"
    BY <1>11 DEF Pend, At, c
  <2> QED
    BY <1>1, <1>9, <2>1 DEF Rank, c
<1>12. CASE Send(r, i)
  <2>1. Update(r, i, [c EXCEPT !.at = "wait"]) /\ c.at = "send"
    BY <1>12 DEF Send, At, c
  <2> QED
    BY <1>1, <1>9, <2>1 DEF Rank, c
<1>13. CASE Received(r, i)
  <2>1. Update(r, i, [c EXCEPT !.at = "ok"]) /\ c.at = "wait"
    BY <1>13 DEF Received, At, c
  <2> QED
    BY <1>1, <1>9, <2>1 DEF Rank, c
<1>14. CASE GiveUp(r, i)
  <2>1. Update(r, i, [c EXCEPT !.at = "retry"]) /\ c.at = "wait"
    BY <1>14 DEF GiveUp, At, c
  <2> QED
    BY <1>1, <1>9, <2>1 DEF Rank, c
<1>15. CASE SendFails(r, i)
  <2> DEFINE d == [c EXCEPT !.at = "retry", !.inbox = None]
  <2>1. Update(r, i, d) /\ c.at = "send"
    BY <1>15 DEF SendFails, At, c
  <2>2. d.at = "retry" /\ d.tried = c.tried /\ d.wallet = c.wallet
    BY <1>2 DEF Branches
  <2> HIDE DEF d
  <2>3. Rank(c.at) < Rank(d.at)
    BY <2>1, <2>2 DEF Rank
  <2> QED
    BY <1>1, <1>4, <2>1, <2>2, <2>3 DEF c
<1> QED
    BY <1>5, <1>6, <1>7, <1>8, <1>10, <1>11, <1>12, <1>13, <1>14, <1>15 DEF Branch

\* The three things that can happen to the join of q in a step: it stays as it is,
\* it starts or is over, or one of its branches takes a step.
Stays(q) ==
    /\ sel'[q] = sel[q] /\ primary'[q] = primary[q]
    /\ \A j \in DOMAIN sel[q] : /\ branch'[q][j].at = branch[q][j].at
                                /\ branch'[q][j].tried = branch[q][j].tried
                                /\ branch'[q][j].wallet = branch[q][j].wallet

Turns(q) == (primary[q] = None \/ primary'[q] = None) /\ UntriedBy(q)'

Works(q) == \E i \in DOMAIN sel[q] : Branch(q, i) /\ ~PlanFails(q, i)

LEMMA JoinGoes ==
    ASSUME ScalarsOK, BranchesOK, Next, NEW q \in Requests
    PROVE  Stays(q) \/ Turns(q) \/ Works(q)
<1>1. ASSUME UNCHANGED <<sel, branch, primary>> PROVE Stays(q)
    BY <1>1 DEF Stays
<1>2. ASSUME NEW r \in Requests, JoinOver(r) PROVE Stays(q) \/ Turns(q)
  <2>1. CASE q = r
    <3>1. sel'[q] = <<>> /\ primary'[q] = None
      BY <1>2, <2>1 DEF BranchesOK, ScalarsOK, JoinOver
    <3> QED
      BY <3>1 DEF Turns, UntriedBy
  <2>2. CASE q # r
    BY <1>2, <2>2 DEF BranchesOK, ScalarsOK, JoinOver, Stays
  <2> QED
    BY <2>1, <2>2
<1>3. ASSUME NEW w \in Wallets, DeliverResult(w) PROVE Stays(q)
  <2>1. sel' = sel /\ primary' = primary
    BY <1>3 DEF DeliverResult
  <2>2. ASSUME NEW j \in DOMAIN sel[q]
        PROVE  /\ branch'[q][j].at = branch[q][j].at
               /\ branch'[q][j].tried = branch[q][j].tried
               /\ branch'[q][j].wallet = branch[q][j].wallet
    <3>1. branch[q] \in [DOMAIN sel[q] -> Branches] /\ branch[q][j] \in Branches
      BY DEF BranchesOK
    <3>2. PICK term : branch'[q][j] \in {branch[q][j], [branch[q][j] EXCEPT !.inbox = term]}
      BY <1>3, <3>1 DEF DeliverResult, BranchesOK
    <3> QED
      BY <3>1, <3>2 DEF Branches
  <2> QED
    BY <2>1, <2>2 DEF Stays
<1>4. ASSUME NEW r \in Requests, NEW w \in Wallets, DispatchAndJoin(r, w)
      PROVE  Stays(q) \/ Turns(q)
  <2>1. PICK s \in Selections :
          /\ sel' = [sel EXCEPT ![r] = s]
          /\ branch' = [branch EXCEPT ![r] = [i \in DOMAIN s |-> Planless]]
    BY <1>4 DEF DispatchAndJoin
  <2>2. primary[r] = None /\ primary' = [primary EXCEPT ![r] = w]
    BY <1>4 DEF DispatchAndJoin
  <2>3. CASE q = r
    <3>1. sel'[q] = s /\ branch'[q] = [i \in DOMAIN s |-> Planless]
      BY <2>1, <2>3 DEF BranchesOK
    <3> QED
      BY <2>2, <2>3, <3>1 DEF Turns, UntriedBy, Planless
  <2>4. CASE q # r
    BY <2>1, <2>2, <2>4 DEF BranchesOK, ScalarsOK, Stays
  <2> QED
    BY <2>3, <2>4
<1>5. ASSUME NEW r \in Requests, NEW i \in DOMAIN sel[r], Branch(r, i), ~PlanFails(r, i)
      PROVE  Stays(q) \/ Works(q)
  <2>1. CASE q = r
    BY <1>5, <2>1 DEF Works
  <2>2. CASE q # r
    <3>1. sel' = sel /\ primary' = primary
      BY <1>5 DEF Branch, Plan, LookUp, Assign, Pend, Send, SendFails, Received,
                  GiveUp, Retry, Exhausted
    <3>2. branch'[q] = branch[q]
      BY <1>5, <2>2 DEF Branch, Plan, LookUp, Assign, Pend, Send, SendFails, Received,
                        GiveUp, Retry, Exhausted, Update, BranchesOK
    <3> QED
      BY <3>1, <3>2 DEF Stays
  <2> QED
    BY <2>1, <2>2
<1>6. ASSUME NEW w \in Wallets, Session(w), ~DeliverResult(w) PROVE Stays(q) \/ Turns(q)
  <2>1. CASE Leave(w)
    <3>1. CASE \E r \in Requests : primary[r] = w /\ JoinOver(r)
      BY <1>2, <3>1
    <3>2. CASE UNCHANGED joinVars
      BY <1>1, <3>2 DEF joinVars
    <3> QED
      BY <2>1, <3>1, <3>2 DEF Leave
  <2>2. CASE ~Leave(w)
    <3>1. UNCHANGED <<sel, branch, primary>>
      BY <1>6, <2>2 DEF Session, Register, MarkExpertCapable, Ban, CollectStale, DropStale,
                        CheckResult, RefuseResult, joinVars
    <3> QED
      BY <1>1, <3>1
  <2> QED
    BY <2>1, <2>2
<1>7. ASSUME NEW r \in Requests, NEW i \in DOMAIN sel[r], PlanFails(r, i)
      PROVE  Stays(q) \/ Turns(q)
    BY <1>2, <1>7 DEF PlanFails
<1>8. ASSUME NEW r \in Requests, Join(r) PROVE Stays(q) \/ Turns(q)
    BY <1>2, <1>8 DEF Join, JoinSucceeds, JoinFails
<1> QED
    BY <1>3, <1>4, <1>5, <1>6, <1>7, <1>8 DEF Next, Slots

LEMMA MovesOnStep == ASSUME TypeInv, Untried, Next PROVE Untried' /\ MovesOn
<1>1. ScalarsOK /\ BranchesOK
    BY TypeInvSplit
<1>2. ASSUME NEW q \in Requests, NEW i \in DOMAIN sel[q], Branch(q, i), ~PlanFails(q, i)
      PROVE  /\ sel' = sel /\ primary' = primary /\ UntriedBy(q)'
             /\ Further(branch[q][i], branch'[q][i])
             /\ \A j \in DOMAIN sel[q] \ {i} : branch'[q][j] = branch[q][j]
  <2>1. sel' = sel /\ primary' = primary
    BY <1>1, <1>2, BranchMoves
  <2>2. PICK d : /\ Update(q, i, d) /\ Further(branch[q][i], d) /\ d.at # "plan"
                 /\ d.at # "err" => d.wallet \notin d.tried
    BY <1>1, <1>2, BranchMoves
  <2>3. \A j \in DOMAIN sel[q] : branch'[q][j] = IF j = i THEN d ELSE branch[q][j]
    BY <1>1, <1>2, <2>2, UpdateIs
  <2>4. UntriedBy(q)'
    BY <2>1, <2>2, <2>3 DEF Untried, UntriedBy
  <2> QED
    BY <2>1, <2>2, <2>3, <2>4
<1>3. Untried'
  <2> SUFFICES ASSUME NEW q \in Requests PROVE UntriedBy(q)'
    BY DEF Untried
  <2>1. CASE Stays(q)
    BY <2>1 DEF Stays, Untried, UntriedBy
  <2>2. CASE Turns(q)
    BY <2>2 DEF Turns
  <2>3. CASE Works(q)
    BY <1>2, <2>3 DEF Works
  <2> QED
    BY <1>1, <2>1, <2>2, <2>3, JoinGoes
<1>4. ASSUME NEW q \in Requests, primary[q] # None, primary'[q] = primary[q]
      PROVE  /\ sel'[q] = sel[q]
             /\ \A i \in DOMAIN sel[q] :
                \/ Further(branch[q][i], branch'[q][i])
                \/ /\ branch'[q][i].at = branch[q][i].at
                   /\ branch'[q][i].tried = branch[q][i].tried
             /\ \A i \in DOMAIN sel[q] : Branch(q, i) => Further(branch[q][i], branch'[q][i])
  <2>1. \A i \in DOMAIN sel[q] : Branch(q, i) => Further(branch[q][i], branch'[q][i])
    <3> SUFFICES ASSUME NEW i \in DOMAIN sel[q], Branch(q, i)
                 PROVE  Further(branch[q][i], branch'[q][i])
      OBVIOUS
    <3>1. ~PlanFails(q, i)
      BY <1>1, <1>4 DEF PlanFails, JoinOver, ScalarsOK
    <3> QED
      BY <1>2, <3>1
  <2>2. CASE Stays(q)
    BY <2>1, <2>2 DEF Stays
  <2>3. CASE Works(q)
    <3>1. PICK i \in DOMAIN sel[q] : Branch(q, i) /\ ~PlanFails(q, i)
      BY <2>3 DEF Works
    <3>2. /\ sel' = sel /\ Further(branch[q][i], branch'[q][i])
          /\ \A j \in DOMAIN sel[q] \ {i} : branch'[q][j] = branch[q][j]
      BY <1>2, <3>1
    <3> QED
      BY <2>1, <3>2
  <2> QED
    BY <1>1, <1>4, <2>2, <2>3, JoinGoes DEF Turns
<1> QED
    BY <1>3, <1>4 DEF MovesOn

\* Why every join ends: its branches only get further (dispatch_one_with_retry
\* never asks a host twice), each step of its task gets one further, and by TypeOK
\* none tries more than MaxRetries + 1 hosts.
THEOREM JoinsMoveOn == Spec => [][MovesOn]_vars
<1>1. Init => Untried
    BY DEF Init, Untried, UntriedBy
<1>2. TypeInv /\ Untried /\ [Next]_vars => Untried'
  <2>1. Untried /\ UNCHANGED vars => Untried'
    BY DEF Untried, UntriedBy, vars, joinVars
  <2> QED
    BY <2>1, MovesOnStep
<1>3. TypeInv /\ Untried /\ [Next]_vars => [MovesOn]_vars
    BY MovesOnStep
<1> QED
    BY <1>1, <1>2, <1>3, TypeInit, TypeStep, PTL DEF Spec
=============================================================================
