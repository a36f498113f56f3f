--------------------------- MODULE DispatchProofs ---------------------------
(***************************************************************************)
(* Proofs about Dispatch, for any sets of requests, wallets and            *)
(* connections.                                                            *)
(***************************************************************************)
EXTENDS Dispatch, TLAPS

\* The registry's key list keeps its type.
LEMMA RegisterType ==
    ASSUME NEW keys \in Seq(Wallets), NEW w \in Wallets
    PROVE  register(keys, w) \in Seq(Wallets)
BY DEF register

LEMMA UnregisterType ==
    ASSUME NEW keys \in Seq(Wallets), NEW w
    PROVE  unregister(keys, w) \in Seq(Wallets)
BY DEF unregister, RemoveAt, ToSet

\* A submit call that moves on stays a well-formed call.
LEMMA CallAdvances ==
    ASSUME TypeOK, NEW c \in Conns, NEW step \in CallSteps,
           call[c].at # "idle", call' = [call EXCEPT ![c].at = step]
    PROVE  /\ call' \in [Conns -> Calls]
           /\ \A d \in Conns : call'[d].at # "idle" =>
                 call'[d].req # None /\ call'[d].wallet # None
<1>1. call \in [Conns -> Calls]
    BY DEF TypeOK
<1>2. call'[c] \in Calls /\ call'[c].req = call[c].req /\ call'[c].wallet = call[c].wallet
    BY <1>1 DEF Calls
<1>3. \A d \in Conns : d # c => call'[d] = call[d]
    BY <1>1
<1> QED
    BY <1>1, <1>2, <1>3 DEF TypeOK

\* The locals of the poll tick, as TypeOK describes them.
PollTypeOK ==
    /\ pc \in PollSteps /\ todo \subseteq Requests
    /\ cur \in Requests \cup {None} /\ wal \in Wallets \cup {None}
    /\ tx \in Conns \cup {None}
    /\ pc \in {"find", "insert", "manifest", "pick", "try", "get", "send"}
          => cur \in Requests
    /\ pc \in {"try", "get", "send"} => wal \in Wallets
    /\ pc = "send" => tx \in Conns

\* Every step keeps the type invariant.
LEMMA TypeStep == TypeOK /\ [Next]_vars => TypeOK'
<1> SUFFICES ASSUME TypeOK, [Next]_vars PROVE TypeOK'
    OBVIOUS
<1> USE ConstAssumption
<1>1. ASSUME NEW c \in Conns, Connect(c) PROVE TypeOK'
    BY <1>1 DEF Connect, TypeOK, Stages, registryVars, engineVars, pollVars,
       promptVars, worldVars
<1>2. ASSUME NEW c \in Conns, AuthorizeAccepted(c) PROVE TypeOK'
    BY <1>2, RegisterType DEF AuthorizeAccepted, TypeOK, engineVars, pollVars,
       promptVars, worldVars
<1>3. ASSUME NEW c \in Conns, WriterFails(c) PROVE TypeOK'
    BY <1>3 DEF WriterFails, TypeOK, registryVars, engineVars, pollVars, promptVars,
       worldVars
<1>4. ASSUME NEW c \in Conns, SessionEnds(c) PROVE TypeOK'
    BY <1>4 DEF SessionEnds, TypeOK, Stages, CallSteps, Calls, NoCall, registryVars,
       engineVars, pollVars, promptVars, worldVars
<1>5. ASSUME NEW c \in Conns, Unregister(c) PROVE TypeOK'
    BY <1>5, UnregisterType DEF Unregister, TypeOK, Stages, engineVars, pollVars,
       promptVars, worldVars
<1>6. ASSUME NEW c \in Conns, OnDisconnect(c) PROVE TypeOK'
    BY <1>6 DEF OnDisconnect, release_for_wallet, TypeOK, Stages, registryVars,
       pollVars, promptVars, worldVars
<1>7. ASSUME NEW c \in Conns, AbortWriters(c) PROVE TypeOK'
    BY <1>7 DEF AbortWriters, TypeOK, Stages, registryVars, engineVars, pollVars,
       promptVars, worldVars
<1>8. ASSUME NEW c \in Conns, NEW w \in Wallets, MiningAuthorize(c, w) PROVE TypeOK'
    BY <1>8 DEF MiningAuthorize, TypeOK, registryVars, engineVars, pollVars,
       promptVars, worldVars
<1>9. ASSUME NEW c \in Conns, SubmitFindActive(c) PROVE TypeOK'
  <2>1. /\ call' \in [Conns -> Calls]
        /\ \A d \in Conns : call'[d].at # "idle" =>
                call'[d].req # None /\ call'[d].wallet # None
    BY <1>9, CallAdvances DEF SubmitFindActive, CallSteps
  <2>2. UNCHANGED <<miners, channel, banned, last, pending, assigned,
                    stage, candidate, confirmed, writer, pc, todo, cur, wal, tx,
                    fetching, posts, active, recorded, chain, offered>>
    BY <1>9 DEF SubmitFindActive, registryVars, engineVars, pollVars, promptVars,
       worldVars
  <2> QED
    BY <2>1, <2>2 DEF TypeOK
<1>10. ASSUME NEW c \in Conns, SubmitInsert(c) PROVE TypeOK'
  <2>1. /\ call' \in [Conns -> Calls]
        /\ \A d \in Conns : call'[d].at # "idle" =>
                call'[d].req # None /\ call'[d].wallet # None
    BY <1>10, CallAdvances DEF SubmitInsert, CallSteps
  <2>2. UNCHANGED <<miners, channel, banned, last, pending, assigned,
                    stage, candidate, confirmed, writer, pc, todo, cur, wal, tx,
                    fetching, posts, recorded, chain, offered>>
    BY <1>10 DEF SubmitInsert, registryVars, engineVars, pollVars, promptVars,
       worldVars
  <2>3. active' \in [Requests -> Wallets \cup {None}]
    BY <1>10 DEF SubmitInsert, TypeOK, Calls
  <2> QED
    BY <2>1, <2>2, <2>3 DEF TypeOK
<1>11. ASSUME NEW c \in Conns, SubmitError(c) PROVE TypeOK'
    BY <1>11 DEF SubmitError, TypeOK, CallSteps, Calls, NoCall, registryVars,
       engineVars, pollVars, promptVars, worldVars
<1>12. ASSUME NEW c \in Conns, SubmitUnassign(c) PROVE TypeOK'
  <2>1. /\ call' \in [Conns -> Calls]
        /\ \A d \in Conns : call'[d].at # "idle" =>
                call'[d].req # None /\ call'[d].wallet # None
    BY <1>12, CallAdvances DEF SubmitUnassign, CallSteps
  <2>2. UNCHANGED <<miners, channel, banned, last, pending, stage,
                    candidate, confirmed, writer, pc, todo, cur, wal, tx, fetching,
                    posts, active, recorded, chain, offered>>
    BY <1>12 DEF SubmitUnassign, registryVars, engineVars, pollVars, promptVars,
       worldVars
  <2>3. assigned' \in [Requests -> Wallets \cup {None}]
    BY <1>12 DEF SubmitUnassign, TypeOK, Calls, remove
  <2> QED
    BY <2>1, <2>2, <2>3 DEF TypeOK
<1>13. ASSUME NEW c \in Conns, SubmitSpawn(c) PROVE TypeOK'
    BY <1>13 DEF SubmitSpawn, TypeOK, CallSteps, Calls, NoCall, registryVars,
       pollVars, promptVars
<1>14. ASSUME NEW c \in Conns, NEW r \in Requests, SubmitAssigned(c, r) PROVE TypeOK'
    BY <1>14 DEF SubmitAssigned, TypeOK, CallSteps, Calls, NoCall, registryVars,
       engineVars, pollVars, promptVars, worldVars
<1>15. ASSUME NEW r \in Requests, PostPrompt(r) PROVE TypeOK'
  <2>1. pending' \in [Requests -> {"absent", "noPrompt", "prompt", "provisional"}]
    <3>1. \/ UNCHANGED pending
          \/ \E e \in {"prompt", "provisional"} : pending' = [pending EXCEPT ![r] = e]
      BY <1>15 DEF PostPrompt, TypeOK
    <3> QED
      BY <3>1 DEF TypeOK
  <2>2. posts' \in [Requests -> Nat]
    BY <1>15 DEF PostPrompt, TypeOK
  <2>3. fetching' \subseteq Requests
    BY <1>15 DEF PostPrompt, TypeOK
  <2>4. UNCHANGED <<registryVars, last, assigned, sessionVars, pollVars, worldVars>>
    BY <1>15 DEF PostPrompt
  <2> QED
    BY <2>1, <2>2, <2>3, <2>4 DEF TypeOK, registryVars, sessionVars, pollVars,
       worldVars
<1>16. ASSUME NEW r \in Requests, PromptCached(r) PROVE TypeOK'
    BY <1>16 DEF PromptCached, TypeOK, registryVars, sessionVars, pollVars, worldVars
<1>17. ASSUME NEW r \in Requests, PromptProvisional(r) \/ PromptRefused(r) PROVE TypeOK'
    BY <1>17 DEF PromptProvisional, PromptRefused, TypeOK, registryVars, engineVars,
       sessionVars, pollVars, worldVars
<1>18. ASSUME NEW r \in Requests, CommitFails(r) PROVE TypeOK'
    BY <1>18 DEF CommitFails, TypeOK, registryVars, engineVars, sessionVars, pollVars,
       promptVars
<1>19. ASSUME NEW r \in Requests, ChainConfirms(r) PROVE TypeOK'
    BY <1>19 DEF ChainConfirms, TypeOK, registryVars, engineVars, sessionVars,
       pollVars, promptVars
<1>20. ASSUME NEW r \in Requests, ChainSettles(r) PROVE TypeOK'
    BY <1>20 DEF ChainSettles, TypeOK, registryVars, engineVars, sessionVars,
       pollVars, promptVars
<1>21. ASSUME NEW r \in Requests, PollContainsKey(r) PROVE TypeOK'
    BY <1>21 DEF PollContainsKey, TypeOK, PollSteps, registryVars, engineVars,
       sessionVars, promptVars, worldVars
<1>22. ASSUME NEW r \in Requests, PollTake(r) PROVE TypeOK'
    BY <1>22 DEF PollTake, Continue, TypeOK, PollSteps, registryVars, engineVars,
       sessionVars, promptVars, worldVars
<1>23. ASSUME NEW w \in Wallets, Ban(w) PROVE TypeOK'
    BY <1>23 DEF Ban, TypeOK, engineVars, sessionVars, pollVars, promptVars, worldVars
<1>24. ASSUME PollStart PROVE TypeOK'
    BY <1>24 DEF PollStart, TypeOK, PollSteps, registryVars, engineVars, sessionVars,
       promptVars, worldVars
<1>25. ASSUME PollFindActive PROVE TypeOK'
    BY <1>25 DEF PollFindActive, TypeOK, PollSteps, registryVars, engineVars,
       sessionVars, promptVars, worldVars
<1>26. ASSUME PollFindFails PROVE TypeOK'
    BY <1>26 DEF PollFindFails, TypeOK, PollSteps, registryVars, engineVars,
       sessionVars, promptVars, worldVars
<1>27. ASSUME PollInsert PROVE TypeOK'
    BY <1>27 DEF PollInsert, TypeOK, PollSteps, registryVars, sessionVars, promptVars,
       worldVars
<1>28. ASSUME PollCollect PROVE TypeOK'
    BY <1>28 DEF PollCollect, TypeOK, PollSteps, registryVars, engineVars,
       sessionVars, promptVars, worldVars
<1>29. ASSUME PollManifestInactive PROVE TypeOK'
    BY <1>29 DEF PollManifestInactive, TypeOK, PollSteps, registryVars, engineVars,
       sessionVars, promptVars, worldVars
<1>30. ASSUME PollManifestSkip PROVE TypeOK'
    BY <1>30 DEF PollManifestSkip, Continue, TypeOK, PollSteps, registryVars,
       engineVars, sessionVars, promptVars, worldVars
<1>31. ASSUME PollPick PROVE TypeOK'
    BY <1>31 DEF PollPick, TypeOK, PollSteps, registryVars, sessionVars, promptVars,
       worldVars
<1>32. ASSUME PollPickNobody PROVE TypeOK'
    BY <1>32 DEF PollPickNobody, TypeOK, PollSteps, registryVars, engineVars,
       sessionVars, promptVars, worldVars
<1>33. ASSUME PollTryAssign PROVE TypeOK'
  <2>0. cur \in Requests /\ wal \in Wallets
    BY <1>33 DEF PollTryAssign, TypeOK
  <2>1. /\ assigned' \in [Requests -> Wallets \cup {None}]
        /\ offered' \subseteq Requests \X Wallets
    <3>1. CASE assigned[cur] = None
      <4>0. /\ assigned' = [assigned EXCEPT ![cur] = wal]
            /\ offered' = offered \cup {<<cur, wal>>}
        BY <1>33, <3>1 DEF PollTryAssign
      <4>1. assigned' \in [Requests -> Wallets \cup {None}]
        BY <2>0, <4>0 DEF TypeOK
      <4>2. offered' \subseteq Requests \X Wallets
        BY <2>0, <4>0 DEF TypeOK
      <4> QED
        BY <4>1, <4>2
    <3>2. CASE assigned[cur] # None
      BY <1>33, <3>2 DEF PollTryAssign, TypeOK
    <3> QED
      BY <3>1, <3>2
  <2>2. PollTypeOK'
    BY <1>33 DEF PollTryAssign, Continue, TypeOK, PollTypeOK, PollSteps
  <2>3. UNCHANGED <<registryVars, last, pending, sessionVars, promptVars, active,
                     recorded, chain>>
    BY <1>33 DEF PollTryAssign
  <2> QED
    BY <2>1, <2>2, <2>3 DEF TypeOK, PollTypeOK, registryVars, sessionVars, promptVars
<1>34. ASSUME PollGet PROVE TypeOK'
  <2>1. assigned' \in [Requests -> Wallets \cup {None}]
    BY <1>34 DEF PollGet, remove, TypeOK
  <2>2. PollTypeOK'
    BY <1>34 DEF PollGet, Continue, TypeOK, PollTypeOK, PollSteps
  <2>3. UNCHANGED <<registryVars, last, pending, sessionVars, promptVars, worldVars>>
    BY <1>34 DEF PollGet
  <2> QED
    BY <2>1, <2>2, <2>3 DEF TypeOK, PollTypeOK, registryVars, sessionVars, promptVars,
       worldVars
<1>35. ASSUME PollSend PROVE TypeOK'
    BY <1>35 DEF PollSend, Continue, remove, TypeOK, PollSteps, registryVars,
       sessionVars, promptVars, worldVars
<1>36. CASE UNCHANGED vars
    BY <1>36 DEF vars, TypeOK, registryVars, engineVars, sessionVars, pollVars,
       promptVars, worldVars
<1> QED
    BY <1>1, <1>2, <1>3, <1>4, <1>5, <1>6, <1>7, <1>8, <1>9, <1>10, <1>11, <1>12,
       <1>13, <1>14, <1>15, <1>16, <1>17, <1>18, <1>19, <1>20, <1>21, <1>22, <1>23,
       <1>24,
       <1>25, <1>26, <1>27, <1>28, <1>29, <1>30, <1>31, <1>32, <1>33, <1>34, <1>35, <1>36
       DEF Next, Session, Submit, Prompt, World, Poll

\* Dispatch keeps its type invariant.
THEOREM TypeCorrect == Spec => []TypeOK
<1>1. Init => TypeOK
    BY ConstAssumption DEF Init, TypeOK, Stages, CallSteps, PollSteps, Calls, NoCall
<1>2. QED
    BY <1>1, TypeStep, PTL DEF Spec

-----------------------------------------------------------------------------
(* Only an assigned miner is credited                                      *)

\* Every place an answer can come from is backed by an offer: the current
\* assignee, a submit call that passed the assignee check and has not yet
\* inserted its row, and the row itself.
OfferInv ==
    /\ \A r \in Requests : assigned[r] # None => <<r, assigned[r]>> \in offered
    /\ \A c \in Conns : call[c].at \in {"findActive", "insert"} =>
            <<call[c].req, call[c].wallet>> \in offered
    /\ CreditedWasOffered

\* Every step keeps OfferInv.
LEMMA OfferStep == TypeOK /\ OfferInv /\ [Next]_vars => OfferInv'
<1> SUFFICES ASSUME TypeOK, OfferInv, [Next]_vars PROVE OfferInv'
    OBVIOUS
<1> USE ConstAssumption
<1>1. CASE UNCHANGED <<assigned, call, active, offered>>
    BY <1>1 DEF OfferInv, CreditedWasOffered
<1>2. ASSUME NEW c \in Conns,
             \/ Connect(c) \/ \E w \in Wallets : MiningAuthorize(c, w)
             \/ AuthorizeAccepted(c) \/ WriterFails(c) \/ Unregister(c) \/ AbortWriters(c)
      PROVE  OfferInv'
    BY <1>1, <1>2 DEF Connect, MiningAuthorize, AuthorizeAccepted, WriterFails,
       Unregister, AbortWriters, engineVars, worldVars
<1>3. ASSUME NEW c \in Conns, SessionEnds(c) \/ SubmitError(c) PROVE OfferInv'
  <2>1. UNCHANGED <<assigned, active, offered>> /\ call' = [call EXCEPT ![c] = NoCall]
    BY <1>3 DEF SessionEnds, SubmitError, engineVars, worldVars
  <2> QED
    BY <2>1 DEF OfferInv, CreditedWasOffered, TypeOK, NoCall
<1>4. ASSUME NEW c \in Conns, OnDisconnect(c) PROVE OfferInv'
    BY <1>4 DEF OnDisconnect, release_for_wallet, OfferInv, CreditedWasOffered,
       TypeOK, worldVars
<1>5. ASSUME NEW c \in Conns, NEW r \in Requests, SubmitAssigned(c, r) PROVE OfferInv'
  <2>1. /\ UNCHANGED <<assigned, active, offered>>
        /\ call' = [call EXCEPT ![c] =
                        [at |-> "findActive", req |-> r, wallet |-> assigned[r]]]
        /\ assigned[r] # None
    BY <1>5 DEF SubmitAssigned, engineVars, worldVars
  <2> QED
    BY <2>1 DEF OfferInv, CreditedWasOffered, TypeOK
<1>6. ASSUME NEW c \in Conns, SubmitFindActive(c) PROVE OfferInv'
  <2>1. /\ UNCHANGED <<assigned, active, offered>>
        /\ call[c].at = "findActive" /\ call' = [call EXCEPT ![c].at = "insert"]
    BY <1>6 DEF SubmitFindActive, engineVars, worldVars
  <2>2. call'[c].req = call[c].req /\ call'[c].wallet = call[c].wallet
    BY <2>1 DEF TypeOK, Calls
  <2>3. \A d \in Conns : d # c => call'[d] = call[d]
    BY <2>1 DEF TypeOK
  <2> QED
    BY <2>1, <2>2, <2>3 DEF OfferInv, CreditedWasOffered
<1>7. ASSUME NEW c \in Conns, SubmitInsert(c) PROVE OfferInv'
  <2>1. /\ UNCHANGED <<assigned, offered>>
        /\ call[c].at = "insert" /\ call' = [call EXCEPT ![c].at = "inserted"]
        /\ active' = [active EXCEPT ![call[c].req] = call[c].wallet]
    BY <1>7 DEF SubmitInsert, engineVars
  <2>2. call'[c].at = "inserted" /\ \A d \in Conns : d # c => call'[d] = call[d]
    BY <2>1 DEF TypeOK, Calls
  <2>3. CreditedWasOffered'
    BY <2>1 DEF OfferInv, CreditedWasOffered, TypeOK
  <2> QED
    BY <2>1, <2>2, <2>3 DEF OfferInv
<1>8. ASSUME NEW c \in Conns, SubmitUnassign(c) PROVE OfferInv'
  <2>1. /\ UNCHANGED <<active, offered>>
        /\ assigned' = [assigned EXCEPT ![call[c].req] = None]
        /\ call' = [call EXCEPT ![c].at = "unassigned"]
    BY <1>8 DEF SubmitUnassign, remove, worldVars
  <2>2. call'[c].at = "unassigned" /\ \A d \in Conns : d # c => call'[d] = call[d]
    BY <2>1 DEF TypeOK, Calls
  <2> QED
    BY <2>1, <2>2 DEF OfferInv, CreditedWasOffered, TypeOK
<1>9. ASSUME NEW c \in Conns, SubmitSpawn(c) PROVE OfferInv'
  <2>1. UNCHANGED <<assigned, active, offered>> /\ call' = [call EXCEPT ![c] = NoCall]
    BY <1>9 DEF SubmitSpawn
  <2> QED
    BY <2>1 DEF OfferInv, CreditedWasOffered, TypeOK, NoCall
<1>10. ASSUME NEW r \in Requests, Prompt(r) \/ ChainConfirms(r) \/ ChainSettles(r)
       PROVE  OfferInv'
    BY <1>1, <1>10 DEF Prompt, PostPrompt, PromptCached, PromptProvisional,
       PromptRefused, ChainConfirms, ChainSettles, engineVars, sessionVars, worldVars
<1>11. ASSUME NEW r \in Requests, CommitFails(r) PROVE OfferInv'
    BY <1>11 DEF CommitFails, engineVars, sessionVars, OfferInv, CreditedWasOffered,
       TypeOK
<1>12. ASSUME NEW w \in Wallets, Ban(w) PROVE OfferInv'
    BY <1>1, <1>12 DEF Ban, engineVars, sessionVars, worldVars
<1>13. CASE \/ PollStart \/ \E r \in Requests : PollContainsKey(r) \/ PollTake(r)
            \/ PollFindActive \/ PollFindFails \/ PollInsert \/ PollCollect
            \/ PollManifestInactive \/ PollManifestSkip \/ PollPick \/ PollPickNobody
    BY <1>1, <1>13 DEF PollStart, PollContainsKey, PollTake, PollFindActive,
       PollFindFails, PollInsert, PollCollect, PollManifestInactive, PollManifestSkip,
       PollPick,
       PollPickNobody, engineVars, sessionVars, worldVars
<1>14. CASE PollTryAssign
  <2>1. CASE assigned[cur] = None
    <3>1. /\ assigned' = [assigned EXCEPT ![cur] = wal]
          /\ offered' = offered \cup {<<cur, wal>>}
          /\ UNCHANGED <<call, active>>
      BY <1>14, <2>1 DEF PollTryAssign, sessionVars
    <3> QED
      BY <3>1 DEF OfferInv, CreditedWasOffered, TypeOK
  <2>2. CASE assigned[cur] # None
    BY <1>1, <1>14, <2>2 DEF PollTryAssign, sessionVars
  <2> QED
    BY <2>1, <2>2
<1>15. CASE PollGet \/ PollSend
  <2>1. /\ UNCHANGED <<call, active, offered>>
        /\ UNCHANGED assigned \/ assigned' = [assigned EXCEPT ![cur] = None]
    BY <1>15 DEF PollGet, PollSend, remove, sessionVars, worldVars
  <2> QED
    BY <2>1 DEF OfferInv, CreditedWasOffered, TypeOK
<1>16. CASE UNCHANGED vars
    BY <1>1, <1>16 DEF vars, engineVars, sessionVars, worldVars
<1> QED
    BY <1>2, <1>3, <1>4, <1>5, <1>6, <1>7, <1>8, <1>9, <1>10, <1>11, <1>12, <1>13,
       <1>14, <1>15, <1>16 DEF Next, Session, Submit, World, Poll

\* The wallet credited by a live submission row was assigned that request at
\* some time (handle_submit_result's assignee check), however the awaits of
\* the call interleave with disconnects and reassignments.
THEOREM CreditIsEarned == Spec => []CreditedWasOffered
<1>1. Init => OfferInv
    BY ConstAssumption DEF Init, OfferInv, CreditedWasOffered, NoCall
<1>2. OfferInv => CreditedWasOffered
    BY DEF OfferInv
<1> QED
    BY <1>1, <1>2, OfferStep, TypeCorrect, PTL DEF Spec

-----------------------------------------------------------------------------
(* What the poll tick remembers across its awaits stays true               *)

\* From the collection of the candidates to the end of the tick no candidate
\* is cached without a prompt, and past the manifest check the candidate at
\* hand is not shard-routed.
TickInv ==
    /\ pc \in {"assign", "manifest", "pick", "try", "get", "send"} =>
            \A r \in todo : pending[r] # "noPrompt"
    /\ pc \in {"pick", "try", "get", "send"} => cur \notin ShardRouted
    /\ ShardRoutedNotAssigned

\* Every step keeps TickInv.
LEMMA TickStep == TypeOK /\ TickInv /\ [Next]_vars => TickInv'
<1> SUFFICES ASSUME TypeOK, TickInv, [Next]_vars PROVE TickInv'
    OBVIOUS
<1> USE ConstAssumption
<1>1. CASE UNCHANGED <<pending, assigned, pc, todo, cur>>
    BY <1>1 DEF TickInv, ShardRoutedNotAssigned
<1>2. ASSUME NEW c \in Conns,
             \/ Connect(c) \/ \E w \in Wallets : MiningAuthorize(c, w)
             \/ AuthorizeAccepted(c) \/ WriterFails(c) \/ SessionEnds(c)
             \/ Unregister(c) \/ AbortWriters(c)
             \/ \E r \in Requests : SubmitAssigned(c, r)
             \/ SubmitFindActive(c) \/ SubmitInsert(c) \/ SubmitError(c)
      PROVE  TickInv'
    BY <1>1, <1>2 DEF Connect, MiningAuthorize, AuthorizeAccepted, WriterFails,
       SessionEnds, Unregister, AbortWriters, SubmitAssigned, SubmitFindActive,
       SubmitInsert,
       SubmitError, engineVars, pollVars
<1>3. ASSUME NEW c \in Conns, OnDisconnect(c) PROVE TickInv'
    BY <1>3 DEF OnDisconnect, release_for_wallet, pollVars, TickInv,
       ShardRoutedNotAssigned, TypeOK
<1>4. ASSUME NEW c \in Conns, SubmitUnassign(c) PROVE TickInv'
  <2>1. /\ UNCHANGED <<pending, pc, todo, cur>>
        /\ assigned' = [assigned EXCEPT ![call[c].req] = None]
    BY <1>4 DEF SubmitUnassign, remove, pollVars
  <2> QED
    BY <2>1 DEF TickInv, ShardRoutedNotAssigned, TypeOK
<1>5. ASSUME NEW c \in Conns, SubmitSpawn(c) PROVE TickInv'
  <2>1. /\ UNCHANGED <<assigned, pc, todo, cur>>
        /\ pending' = [pending EXCEPT ![call[c].req] = "absent"]
    BY <1>5 DEF SubmitSpawn, pollVars
  <2> QED
    BY <2>1 DEF TickInv, ShardRoutedNotAssigned, TypeOK
<1>6. ASSUME NEW r \in Requests, Prompt(r) PROVE TickInv'
  <2>1. /\ UNCHANGED <<assigned, pc, todo, cur>>
        /\ \/ UNCHANGED pending
           \/ \E e \in {"prompt", "provisional"} : pending' = [pending EXCEPT ![r] = e]
    <3>1. CASE PostPrompt(r)
      BY <3>1 DEF PostPrompt, TypeOK, pollVars
    <3>2. CASE PromptCached(r) \/ PromptProvisional(r) \/ PromptRefused(r)
      BY <3>2 DEF PromptCached, PromptProvisional, PromptRefused, engineVars, pollVars
    <3> QED
      BY <1>6, <3>1, <3>2 DEF Prompt
  <2> QED
    BY <2>1 DEF TickInv, ShardRoutedNotAssigned, TypeOK
<1>7. ASSUME NEW r \in Requests, World(r) PROVE TickInv'
    BY <1>1, <1>7 DEF World, CommitFails, ChainConfirms, ChainSettles, engineVars,
       pollVars
<1>8. ASSUME NEW w \in Wallets, Ban(w) PROVE TickInv'
    BY <1>1, <1>8 DEF Ban, engineVars, pollVars
<1>9. CASE \/ PollStart \/ \E r \in Requests : PollContainsKey(r)
           \/ PollFindActive \/ PollFindFails \/ PollInsert \/ PollPickNobody
  <2>1. pc' \in {"idle", "cache", "find", "insert"} \/ UNCHANGED <<pending, pc, todo, cur>>
    BY <1>9 DEF PollStart, PollContainsKey, PollFindActive, PollFindFails, PollInsert,
       PollPickNobody, engineVars
  <2>2. UNCHANGED assigned
    BY <1>9 DEF PollStart, PollContainsKey, PollFindActive, PollFindFails, PollInsert,
       PollPickNobody, engineVars
  <2>3. pc' \in {"idle", "cache", "find", "insert"} =>
            pc' \notin {"assign", "manifest", "pick", "try", "get", "send"}
    OBVIOUS
  <2> QED
    BY <2>1, <2>2, <2>3 DEF TickInv, ShardRoutedNotAssigned
<1>10. CASE PollCollect
    BY <1>10 DEF PollCollect, HasPrompt, engineVars, TickInv, ShardRoutedNotAssigned,
       TypeOK
<1>11. CASE \E r \in Requests : PollTake(r)
    BY <1>11 DEF PollTake, Continue, engineVars, TickInv, ShardRoutedNotAssigned
<1>12. CASE PollManifestInactive \/ PollManifestSkip
    BY <1>12 DEF PollManifestInactive, PollManifestSkip, Continue, engineVars,
       TickInv, ShardRoutedNotAssigned
<1>13. CASE PollPick
    BY <1>13 DEF PollPick, TickInv, ShardRoutedNotAssigned
<1>14. CASE PollTryAssign
    BY <1>14 DEF PollTryAssign, Continue, TickInv, ShardRoutedNotAssigned, TypeOK
<1>15. CASE PollGet \/ PollSend
  <2>1. /\ UNCHANGED pending
        /\ \/ todo' \subseteq todo /\ pc' \in {"idle", "assign"}
           \/ pc' = "send" /\ UNCHANGED <<todo, cur>>
        /\ UNCHANGED assigned \/ assigned' = [assigned EXCEPT ![cur] = None]
        /\ pc \in {"get", "send"}
    BY <1>15 DEF PollGet, PollSend, Continue, remove
  <2> QED
    BY <2>1 DEF TickInv, ShardRoutedNotAssigned, TypeOK
<1>16. CASE UNCHANGED vars
    BY <1>1, <1>16 DEF vars, engineVars, pollVars
<1> QED
    BY <1>2, <1>3, <1>4, <1>5, <1>6, <1>7, <1>8, <1>9, <1>10, <1>11, <1>12, <1>13,
       <1>14, <1>15, <1>16 DEF Next, Session, Submit, Poll

\* TickInv holds in every reachable state.
LEMMA TickInvariant == Spec => []TickInv
<1>1. Init => TickInv
    BY ConstAssumption DEF Init, TickInv, ShardRoutedNotAssigned
<1> QED
    BY <1>1, TickStep, TypeCorrect, PTL DEF Spec

\* The unwrap of a candidate's prompt in poll_and_assign_tick never panics,
\* whatever submits and prompt posts run between collecting and taking it.
THEOREM UnwrapIsSafe == Spec => []UnwrapNeverPanics
<1>1. TickInv => UnwrapNeverPanics
    BY DEF TickInv, UnwrapNeverPanics
<1> QED
    BY <1>1, TickInvariant, PTL

\* No request of a model with an ACTIVE manifest is ever assigned to a single
\* miner: the manifest check fails closed.
THEOREM ShardRoutedLeftAlone == Spec => []ShardRoutedNotAssigned
<1>1. TickInv => ShardRoutedNotAssigned
    BY DEF TickInv
<1> QED
    BY <1>1, TickInvariant, PTL

-----------------------------------------------------------------------------
(* A disconnect never strands an assignment                                *)

\* What NoStrandedAssignment rests on: a registered channel leads to a session
\* that has yet to run its cleanup; a session waiting for an authorize answer
\* keeps the wallet it has; and what the tick is about to look up is what it
\* assigned (the request may have been answered or released meanwhile).
StrandInv ==
    /\ RegistryLive
    /\ \A c \in Conns : candidate[c] # None => confirmed[c] \in {None, candidate[c]}
    /\ pc = "get" => assigned[cur] \in {None, wal}
    /\ NoStrandedAssignment

\* Every step keeps StrandInv, as long as a connection keeps to one wallet.
LEMMA StrandStep ==
    ASSUME ~Reauthorize
    PROVE  TypeOK /\ StrandInv /\ [Next]_vars => StrandInv'
<1> SUFFICES ASSUME TypeOK, StrandInv, [Next]_vars PROVE StrandInv'
    OBVIOUS
<1> USE ConstAssumption
<1>1. CASE UNCHANGED <<channel, assigned, stage, candidate, confirmed, pc, cur, wal>>
    BY <1>1 DEF StrandInv, RegistryLive, NoStrandedAssignment, WillRelease
<1>2. ASSUME NEW c \in Conns, Connect(c) PROVE StrandInv'
    BY <1>2 DEF Connect, StrandInv, RegistryLive, NoStrandedAssignment, WillRelease,
       TypeOK, registryVars, engineVars, pollVars
<1>3. ASSUME NEW c \in Conns, NEW w \in Wallets, MiningAuthorize(c, w) PROVE StrandInv'
    BY <1>3 DEF MiningAuthorize, StrandInv, RegistryLive, NoStrandedAssignment,
       WillRelease, TypeOK, registryVars, engineVars, pollVars
<1>4. ASSUME NEW c \in Conns, AuthorizeAccepted(c) PROVE StrandInv'
  <2> DEFINE w == candidate[c]
  <2>1. /\ stage[c] = "open" /\ w \in Wallets /\ confirmed[c] \in {None, w}
        /\ confirmed' = [confirmed EXCEPT ![c] = w]
        /\ candidate' = [candidate EXCEPT ![c] = None]
        /\ channel' = [channel EXCEPT ![w] = c]
        /\ UNCHANGED <<stage, assigned, pc, cur, wal>>
    BY <1>4 DEF AuthorizeAccepted, StrandInv, TypeOK, engineVars, pollVars
  <2>2. \A d \in Conns : confirmed[d] # None => confirmed'[d] = confirmed[d]
    BY <2>1 DEF TypeOK
  <2>3. RegistryLive'
    BY <2>1, <2>2 DEF StrandInv, RegistryLive, TypeOK
  <2>4. NoStrandedAssignment'
    BY <2>1, <2>2 DEF StrandInv, NoStrandedAssignment, WillRelease
  <2> QED
    BY <2>1, <2>3, <2>4 DEF StrandInv, TypeOK
<1>5. ASSUME NEW c \in Conns, SessionEnds(c) PROVE StrandInv'
  <2>1. /\ stage[c] = "open"
        /\ stage' = [stage EXCEPT ![c] = IF confirmed[c] = None THEN "released" ELSE "ending"]
        /\ candidate' = [candidate EXCEPT ![c] = None]
        /\ UNCHANGED <<channel, confirmed, assigned, pc, cur, wal>>
    BY <1>5 DEF SessionEnds, registryVars, engineVars, pollVars
  <2>2. \A d \in Conns : confirmed[d] # None =>
            \/ stage'[d] = stage[d]
            \/ stage[d] = "open" /\ stage'[d] = "ending"
    BY <2>1 DEF TypeOK
  <2>3. RegistryLive'
    BY <2>1, <2>2 DEF StrandInv, RegistryLive, TypeOK
  <2>4. NoStrandedAssignment'
    BY <2>1, <2>2 DEF StrandInv, NoStrandedAssignment, WillRelease
  <2> QED
    BY <2>1, <2>3, <2>4 DEF StrandInv, TypeOK
<1>6. ASSUME NEW c \in Conns, Unregister(c) PROVE StrandInv'
  <2>1. /\ stage[c] = "ending" /\ confirmed[c] \in Wallets
        /\ stage' = [stage EXCEPT ![c] = "unregistered"]
        /\ channel' = [channel EXCEPT ![confirmed[c]] = None]
        /\ UNCHANGED <<candidate, confirmed, assigned, pc, cur, wal>>
    BY <1>6 DEF Unregister, TypeOK, engineVars, pollVars
  <2>2. RegistryLive'
    BY <2>1 DEF StrandInv, RegistryLive, TypeOK
  <2>3. NoStrandedAssignment'
    BY <2>1 DEF StrandInv, NoStrandedAssignment, WillRelease, TypeOK
  <2> QED
    BY <2>1, <2>2, <2>3 DEF StrandInv
<1>7. ASSUME NEW c \in Conns, OnDisconnect(c) PROVE StrandInv'
  <2>1. /\ stage[c] = "unregistered" /\ confirmed[c] \in Wallets
        /\ stage' = [stage EXCEPT ![c] = "released"]
        /\ assigned' = [r \in Requests |->
                            IF assigned[r] = confirmed[c] THEN None ELSE assigned[r]]
        /\ UNCHANGED <<channel, candidate, confirmed, pc, cur, wal>>
    BY <1>7 DEF OnDisconnect, release_for_wallet, TypeOK, registryVars, pollVars
  <2>2. RegistryLive'
    BY <2>1 DEF StrandInv, RegistryLive, TypeOK
  <2>3. NoStrandedAssignment'
    BY <2>1 DEF StrandInv, NoStrandedAssignment, WillRelease, TypeOK
  <2>4. (pc = "get" => assigned[cur] \in {None, wal})'
    BY <2>1 DEF StrandInv, TypeOK
  <2> QED
    BY <2>1, <2>2, <2>3, <2>4 DEF StrandInv
<1>8. ASSUME NEW c \in Conns, AbortWriters(c) PROVE StrandInv'
  <2>1. /\ stage[c] = "released"
        /\ stage' = [stage EXCEPT ![c] = "closed"]
        /\ confirmed' = [confirmed EXCEPT ![c] = None]
        /\ UNCHANGED <<channel, candidate, assigned, pc, cur, wal>>
    BY <1>8 DEF AbortWriters, registryVars, engineVars, pollVars
  <2>2. RegistryLive'
    BY <2>1 DEF StrandInv, RegistryLive, TypeOK
  <2>3. NoStrandedAssignment'
    BY <2>1 DEF StrandInv, NoStrandedAssignment, WillRelease, TypeOK
  <2> QED
    BY <2>1, <2>2, <2>3 DEF StrandInv, TypeOK
<1>9. ASSUME NEW c \in Conns,
             \/ WriterFails(c) \/ \E r \in Requests : SubmitAssigned(c, r)
             \/ SubmitFindActive(c) \/ SubmitInsert(c) \/ SubmitError(c) \/ SubmitSpawn(c)
      PROVE  StrandInv'
    BY <1>1, <1>9 DEF WriterFails, SubmitAssigned, SubmitFindActive, SubmitInsert,
       SubmitError, SubmitSpawn, registryVars, engineVars, pollVars
<1>10. ASSUME NEW c \in Conns, SubmitUnassign(c) PROVE StrandInv'
  <2>1. /\ assigned' = [assigned EXCEPT ![call[c].req] = None]
        /\ UNCHANGED <<channel, stage, candidate, confirmed, pc, cur, wal>>
    BY <1>10 DEF SubmitUnassign, remove, registryVars, pollVars
  <2> QED
    BY <2>1 DEF StrandInv, RegistryLive, NoStrandedAssignment, WillRelease, TypeOK
<1>11. ASSUME NEW r \in Requests, Prompt(r) \/ World(r) PROVE StrandInv'
    BY <1>1, <1>11 DEF Prompt, PostPrompt, PromptCached, PromptProvisional,
       PromptRefused, World, CommitFails, ChainConfirms, ChainSettles, registryVars,
       engineVars, sessionVars, pollVars
<1>12. ASSUME NEW w \in Wallets, Ban(w) PROVE StrandInv'
    BY <1>1, <1>12 DEF Ban, engineVars, sessionVars, pollVars
<1>13. CASE \/ PollStart \/ \E r \in Requests : PollContainsKey(r) \/ PollTake(r)
            \/ PollFindActive \/ PollFindFails \/ PollInsert \/ PollCollect
            \/ PollManifestInactive \/ PollManifestSkip \/ PollPick \/ PollPickNobody
  <2>1. pc # "get" /\ pc' # "get"
    BY <1>13 DEF PollStart, PollContainsKey, PollTake, PollFindActive, PollFindFails,
       PollInsert, PollCollect, PollManifestInactive, PollManifestSkip, PollPick,
       PollPickNobody, Continue
  <2>2. UNCHANGED <<channel, assigned, stage, candidate, confirmed>>
    BY <1>13 DEF PollStart, PollContainsKey, PollTake, PollFindActive, PollFindFails,
       PollInsert, PollCollect, PollManifestInactive, PollManifestSkip, PollPick,
       PollPickNobody, registryVars, engineVars, sessionVars
  <2> QED
    BY <2>1, <2>2 DEF StrandInv, RegistryLive, NoStrandedAssignment, WillRelease
<1>14. CASE PollTryAssign
  <2>1. /\ UNCHANGED <<channel, stage, candidate, confirmed>>
        /\ pc = "try" /\ cur \in Requests
        /\ \/ /\ assigned' = [assigned EXCEPT ![cur] = wal]
              /\ pc' = "get" /\ UNCHANGED <<cur, wal>>
           \/ pc' # "get" /\ UNCHANGED assigned
    BY <1>14 DEF PollTryAssign, Continue, registryVars, sessionVars, TypeOK
  <2> QED
    BY <2>1 DEF StrandInv, RegistryLive, NoStrandedAssignment, WillRelease, TypeOK
<1>15. CASE PollGet
  <2>1. /\ UNCHANGED <<channel, stage, candidate, confirmed>>
        /\ pc = "get" /\ cur \in Requests /\ wal \in Wallets /\ pc' # "get"
        /\ \/ channel[wal] = None /\ assigned' = [assigned EXCEPT ![cur] = None]
           \/ channel[wal] # None /\ UNCHANGED assigned
    BY <1>15 DEF PollGet, remove, Continue, registryVars, sessionVars, TypeOK
  <2>2. NoStrandedAssignment'
    <3> SUFFICES ASSUME NEW r \in Requests, assigned'[r] # None
                 PROVE  \E c \in Conns : confirmed[c] = assigned'[r] /\ WillRelease(c)
      BY <2>1 DEF NoStrandedAssignment, WillRelease
    <3>1. CASE r # cur
      BY <2>1, <3>1 DEF StrandInv, NoStrandedAssignment, TypeOK
    <3>2. CASE r = cur
      <4>1. channel[wal] \in Conns /\ assigned'[r] = wal
        BY <2>1, <3>2 DEF StrandInv, TypeOK
      <4> QED
        BY <2>1, <4>1 DEF StrandInv, RegistryLive, WillRelease
    <3> QED
      BY <3>1, <3>2
  <2> QED
    BY <2>1, <2>2 DEF StrandInv, RegistryLive
<1>16. CASE PollSend
  <2>1. /\ UNCHANGED <<channel, stage, candidate, confirmed>>
        /\ pc = "send" /\ cur \in Requests /\ pc' # "get"
        /\ UNCHANGED assigned \/ assigned' = [assigned EXCEPT ![cur] = None]
    BY <1>16 DEF PollSend, remove, Continue, registryVars, sessionVars, TypeOK
  <2> QED
    BY <2>1 DEF StrandInv, RegistryLive, NoStrandedAssignment, WillRelease, TypeOK
<1>17. CASE UNCHANGED vars
    BY <1>1, <1>17 DEF vars, registryVars, engineVars, sessionVars, pollVars
<1> QED
    BY <1>2, <1>3, <1>4, <1>5, <1>6, <1>7, <1>8, <1>9, <1>10, <1>11, <1>12, <1>13,
       <1>14, <1>15, <1>16, <1>17 DEF Next, Session, Submit, Poll

\* StrandInv holds in every reachable state when no connection authorizes a
\* second wallet.
LEMMA StrandInvariant == ASSUME ~Reauthorize PROVE Spec => []StrandInv
<1>1. Init => StrandInv
    BY ConstAssumption DEF Init, StrandInv, RegistryLive, NoStrandedAssignment
<1> QED
    BY <1>1, StrandStep, TypeCorrect, PTL DEF Spec

\* "Otherwise a mid-flight disconnect would strand that request_id forever":
\* when no connection authorizes a second wallet, every assigned request
\* belongs to a session that will still release it, or to the tick that is
\* about to look its channel up.
THEOREM NothingIsStranded ==
    ASSUME ~Reauthorize PROVE Spec => []NoStrandedAssignment
<1>1. StrandInv => NoStrandedAssignment
    BY DEF StrandInv
<1> QED
    BY <1>1, StrandInvariant, PTL

\* Under the same condition the registry leads only to channels of sessions
\* of that wallet which have not begun their cleanup's second half.
THEOREM RegistryIsLive == ASSUME ~Reauthorize PROVE Spec => []RegistryLive
<1>1. StrandInv => RegistryLive
    BY DEF StrandInv
<1> QED
    BY <1>1, StrandInvariant, PTL
=============================================================================
