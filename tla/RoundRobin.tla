----------------------------- MODULE RoundRobin -----------------------------
(***************************************************************************)
(* Whom pick_next (miner_registry.rs) serves over a long run, while miners *)
(* connect, leave and are ejected between two picks.  last_assigned is     *)
(* remembered by its owner (opoi/engine.rs) even when its wallet is gone.  *)
(***************************************************************************)
EXTENDS MinerRegistry

CONSTANTS Wallets, None

ASSUME NoneIsNoWallet == None \notin Wallets

VARIABLES miners, banned, last,
          served        \* the wallet of the latest step, if it was a pick

vars == <<miners, banned, last, served>>

Init ==
    /\ miners = <<>>
    /\ banned = {}
    /\ last = None
    /\ served = None

Register(w) ==
    /\ miners' = register(miners, w)
    /\ served' = None
    /\ UNCHANGED <<banned, last>>

Unregister(w) ==
    /\ miners' = unregister(miners, w)
    /\ served' = None
    /\ UNCHANGED <<banned, last>>

Ban(w) ==
    /\ banned' = banned \cup {w}
    /\ served' = None
    /\ UNCHANGED <<miners, last>>

\* poll_and_assign_tick picks and remembers, under one lock.
Pick ==
    /\ \E w \in Wallets :
        /\ PicksNext(miners, last, banned, w)
        /\ last' = w /\ served' = w
    /\ UNCHANGED <<miners, banned>>

\* The poller's next pick comes after whatever happened meanwhile.
Rest ==
    /\ served # None
    /\ served' = None
    /\ UNCHANGED <<miners, banned, last>>

Next == Pick \/ Rest \/ \E w \in Wallets : Register(w) \/ Unregister(w) \/ Ban(w)

\* The poll loop never stops (spawn_interval).
Spec == Init /\ [][Next]_vars /\ WF_vars(Pick)

\* Nobody joins any more, although miners may still leave or be ejected.
NoMoreJoins == <>[][ToSet(miners') \subseteq ToSet(miners)]_miners

\* A miner that stays registered and is not ejected is served again and
\* again, although a departed `last` sends the search back to the first key.
\* (While others keep leaving and rejoining behind it, it may be passed over.)
NobodyStarves ==
    NoMoreJoins =>
        \A w \in Wallets :
            <>[](w \in ToSet(miners) \ banned) => []<>(served = w)
=============================================================================
