-------------------------- MODULE RoundRobinProofs --------------------------
(***************************************************************************)
(* What pick_next (miner_registry.rs) promises for any registry, and the   *)
(* variant behind RoundRobin's NobodyStarves: every pick of another miner  *)
(* brings a waiting one strictly closer to the head of the search.         *)
(***************************************************************************)
EXTENDS RoundRobin, SequenceTheorems, WellFoundedInduction, TLAPS

-----------------------------------------------------------------------------
(* The definitions the theorems are about                                  *)

\* The keys of an IndexMap: no key twice.
Keys == {k \in Seq(Wallets) : \A i, j \in DOMAIN k : k[i] = k[j] => i = j}

TypeInv ==
    /\ miners \in Keys /\ banned \subseteq Wallets
    /\ last \in Wallets \cup {None} /\ served \in Wallets \cup {None}

\* How many keys the search looks at before w.
Ahead(keys, lst, w) == CHOOSE o \in 0 .. Len(keys) - 1 : Probe(keys, lst, o) = w

\* A miner that stays, while nobody joins, is among the keys the search looks at;
\* a step serves it, or a key is gone, or the search is no further from it, and
\* nearer by a key at least if the step is a pick.
ComesCloser ==
    \A w \in ToSet(miners) \ banned :
        w \in ToSet(miners') \ banned' /\ ToSet(miners') \subseteq ToSet(miners) =>
            /\ Ahead(miners, last, w) \in 0 .. Len(miners) - 1
            /\ \/ served' = w
               \/ Len(miners') < Len(miners)
               \/ /\ Len(miners') = Len(miners)
                  /\ Ahead(miners', last', w) <= Ahead(miners, last, w)
                  /\ served' # None =>
                        Ahead(miners', last', w) < Ahead(miners, last, w)

-----------------------------------------------------------------------------
(* The search                                                              *)

\* Where a counter that wraps once ends.
Wrapped(n, x) == IF x < n THEN x ELSE x - n

LEMMA Wrap ==
    ASSUME NEW n \in Nat, NEW a \in Nat, NEW b \in Nat, a < n, b < n
    PROVE  (a + b) % n = Wrapped(n, a + b) /\ Wrapped(n, a + b) \in 0 .. n - 1
BY DEF Wrapped

LEMMA FullTurn ==
    ASSUME NEW n \in Nat, NEW a \in 1 .. n
    PROVE  a % n = Wrapped(n, a) /\ Wrapped(n, a) \in 0 .. n - 1
<1>1. a < n => a % n = a
    OBVIOUS
<1>2. n % n = 0
    OBVIOUS
<1> QED
    BY <1>1, <1>2 DEF Wrapped

\* A set of naturals that has a member has a least one.
LEMMA LeastNat ==
    ASSUME NEW T \in SUBSET Nat, T # {}
    PROVE  \E m \in T : \A y \in T : m <= y
<1> DEFINE R == OpToRel(<, Nat)
<1>1. IsWellFoundedOn(R, Nat)
    BY NatLessThanWellFounded
<1>2. PICK m \in T : \A y \in T : ~ (<<y, m>> \in R)
  <2> HIDE DEF R
  <2> QED
    BY <1>1, WFMin
<1>3. \A y \in T : y < m => <<y, m>> \in R
    BY DEF OpToRel
<1> HIDE DEF R
<1>4. \A y \in T : ~(y < m)
    BY <1>2, <1>3
<1> QED
    BY <1>4

\* The search starts at a key, and looks at the keys in their order, once.
LEMMA ProbeIs ==
    ASSUME NEW keys \in Seq(Wallets), NEW lst, NEW o \in 0 .. Len(keys) - 1
    PROVE  LET start == StartIndex(keys, lst)
           IN  /\ start \in 0 .. Len(keys) - 1
               /\ Wrapped(Len(keys), start + o) \in 0 .. Len(keys) - 1
               /\ Probe(keys, lst, o) = keys[Wrapped(Len(keys), start + o) + 1]
<1> DEFINE n == Len(keys)
           start == StartIndex(keys, lst)
<1>1. n \in Nat /\ DOMAIN keys = 1 .. n /\ n # 0
    OBVIOUS
<1>2. start \in 0 .. n - 1
  <2>1. CASE lst \in ToSet(keys)
    <3> DEFINE i == CHOOSE i \in DOMAIN keys : keys[i] = lst
    <3>1. i \in 1 .. n
      BY <1>1, <2>1 DEF ToSet
    <3>2. start = i % n
      BY <2>1 DEF StartIndex
    <3> HIDE DEF i, start
    <3> QED
      BY <1>1, <3>1, <3>2, FullTurn
  <2>2. CASE lst \notin ToSet(keys)
    BY <1>1, <2>2 DEF StartIndex
  <2> QED
    BY <2>1, <2>2
<1>3. Probe(keys, lst, o) = keys[((start + o) % n) + 1]
    BY DEF Probe
<1> HIDE DEF n, start
<1>4. o \in Nat /\ o < n /\ start \in Nat /\ start < n
    BY <1>1, <1>2 DEF n
<1> QED
    BY <1>1, <1>2, <1>3, <1>4, Wrap DEF n, start

\* The search comes to every key, and it comes to it once.
LEMMA AheadIs ==
    ASSUME NEW keys \in Keys, NEW lst, NEW w \in ToSet(keys)
    PROVE  /\ Ahead(keys, lst, w) \in 0 .. Len(keys) - 1
           /\ Probe(keys, lst, Ahead(keys, lst, w)) = w
           /\ \A o \in 0 .. Len(keys) - 1 :
                Probe(keys, lst, o) = w => o = Ahead(keys, lst, w)
<1> DEFINE n == Len(keys)
           start == StartIndex(keys, lst)
<1>1. keys \in Seq(Wallets) /\ n \in Nat /\ DOMAIN keys = 1 .. n
    BY DEF Keys
<1>2. PICK i \in 1 .. n : keys[i] = w
    BY <1>1 DEF ToSet
<1>3. start \in 0 .. n - 1
    BY <1>1, <1>2, ProbeIs
<1> DEFINE a == IF i - 1 >= start THEN i - 1 - start ELSE i - 1 - start + n
<1>4. a \in 0 .. n - 1 /\ Wrapped(n, start + a) = i - 1
  <2> HIDE DEF start, n
  <2> QED
    BY <1>1, <1>2, <1>3 DEF Wrapped
<1>5. Probe(keys, lst, a) = w
  <2> HIDE DEF a
  <2> QED
    BY <1>1, <1>2, <1>4, ProbeIs
<1>6. \A o \in 0 .. n - 1 : Probe(keys, lst, o) = w => o = a
  <2> SUFFICES ASSUME NEW o \in 0 .. n - 1, Probe(keys, lst, o) = w PROVE o = a
    OBVIOUS
  <2>1. /\ keys[Wrapped(n, start + o) + 1] = w
        /\ Wrapped(n, start + o) \in 0 .. n - 1
    BY <1>1, ProbeIs
  <2>2. Wrapped(n, start + o) + 1 = i
    BY <1>1, <1>2, <2>1 DEF Keys
  <2> HIDE DEF start, n
  <2> QED
    BY <1>1, <1>2, <1>3, <2>2 DEF Wrapped
<1> HIDE DEF a
<1> QED
    BY <1>4, <1>5, <1>6 DEF Ahead

-----------------------------------------------------------------------------
(* pick_next                                                               *)

\* pick_next hands out a registered miner that is not ejected ..
THEOREM PickIsEligible ==
    ASSUME NEW keys \in Seq(Wallets), NEW lst, NEW out, NEW w, PicksNext(keys, lst, out, w)
    PROVE  w \in ToSet(keys) \ out
<1>1. PICK o \in 0 .. Len(keys) - 1 : Probe(keys, lst, o) = w /\ w \notin out
    BY DEF PicksNext
<1>2. Wrapped(Len(keys), StartIndex(keys, lst) + o) + 1 \in DOMAIN keys
    BY ProbeIs
<1> QED
    BY <1>1, <1>2, ProbeIs DEF ToSet

\* .. one and no other ..
THEOREM PickIsUnique ==
    ASSUME NEW keys \in Seq(Wallets), NEW lst, NEW out, NEW v, NEW w,
           PicksNext(keys, lst, out, v), PicksNext(keys, lst, out, w)
    PROVE  v = w
<1>1. PICK o \in 0 .. Len(keys) - 1 :
        /\ Probe(keys, lst, o) = v /\ v \notin out
        /\ \A before \in 0 .. o - 1 : Probe(keys, lst, before) \in out
    BY DEF PicksNext
<1>2. PICK u \in 0 .. Len(keys) - 1 :
        /\ Probe(keys, lst, u) = w /\ w \notin out
        /\ \A before \in 0 .. u - 1 : Probe(keys, lst, before) \in out
    BY DEF PicksNext
<1>3. ~(o < u) /\ ~(u < o)
    BY <1>1, <1>2
<1> QED
    BY <1>1, <1>2, <1>3

\* .. and returns None only when all that is registered is ejected.
THEOREM PickIsTotal ==
    ASSUME NEW keys \in Keys, NEW lst, NEW out
    PROVE  (\E w \in Wallets : PicksNext(keys, lst, out, w)) <=> ~PicksNobody(keys, out)
<1>1. keys \in Seq(Wallets) /\ ToSet(keys) \subseteq Wallets
    BY DEF Keys, ToSet
<1>2. ASSUME NEW w \in Wallets, PicksNext(keys, lst, out, w) PROVE ~PicksNobody(keys, out)
    BY <1>1, <1>2, PickIsEligible DEF PicksNobody
<1>3. ASSUME ~PicksNobody(keys, out) PROVE \E w \in Wallets : PicksNext(keys, lst, out, w)
  <2> DEFINE T == {o \in 0 .. Len(keys) - 1 : Probe(keys, lst, o) \in ToSet(keys) \ out}
  <2>1. PICK v \in ToSet(keys) : v \notin out
    BY <1>3 DEF PicksNobody
  <2>2. Ahead(keys, lst, v) \in T
    BY <2>1, AheadIs
  <2>3. T \in SUBSET Nat /\ T # {}
    BY <2>2
  <2> HIDE DEF T
  <2>4. PICK o \in T : \A y \in T : o <= y
    BY <2>3, LeastNat
  <2>5. o \in 0 .. Len(keys) - 1 /\ Probe(keys, lst, o) \in ToSet(keys) \ out
    BY <2>4 DEF T
  <2>6. ASSUME NEW before \in 0 .. o - 1 PROVE Probe(keys, lst, before) \in out
    <3>1. before \in 0 .. Len(keys) - 1 /\ before < o /\ ~(o <= before)
      BY <1>1, <2>5
    <3>2. before \notin T
      BY <2>4, <3>1
    <3>3. Probe(keys, lst, before) \in ToSet(keys)
      BY <1>1, <3>1, ProbeIs DEF ToSet
    <3> QED
      BY <3>1, <3>2, <3>3 DEF T
  <2>7. PicksNext(keys, lst, out, Probe(keys, lst, o))
    BY <2>5, <2>6 DEF PicksNext
  <2> QED
    BY <1>1, <2>5, <2>7
<1> QED
    BY <1>2, <1>3

\* Once v is handed out, the search starts after it: what was ahead of w is less
\* by v and all that was looked at before it.
LEMMA PickBringsCloser ==
    ASSUME NEW keys \in Keys, NEW lst, NEW out, NEW v, PicksNext(keys, lst, out, v),
           NEW w \in ToSet(keys) \ out, v # w
    PROVE  Ahead(keys, v, w) < Ahead(keys, lst, w)
<1> DEFINE n == Len(keys)
           start == StartIndex(keys, lst)
           a == Ahead(keys, lst, w)
<1>1. keys \in Seq(Wallets) /\ n \in Nat /\ DOMAIN keys = 1 .. n
    BY DEF Keys
<1>2. a \in 0 .. n - 1 /\ Probe(keys, lst, a) = w
    BY AheadIs
<1>3. PICK o \in 0 .. n - 1 :
        /\ Probe(keys, lst, o) = v
        /\ \A before \in 0 .. o - 1 : Probe(keys, lst, before) \in out
    BY DEF PicksNext
<1>4. o < a
  <2>1. o # a
    BY <1>2, <1>3
  <2>2. ~(a < o)
    BY <1>1, <1>2, <1>3
  <2> QED
    BY <1>1, <1>2, <1>3, <2>1, <2>2
<1>5. /\ start \in 0 .. n - 1
      /\ Wrapped(n, start + o) \in 0 .. n - 1 /\ keys[Wrapped(n, start + o) + 1] = v
      /\ Wrapped(n, start + a) \in 0 .. n - 1 /\ keys[Wrapped(n, start + a) + 1] = w
    BY <1>1, <1>2, <1>3, ProbeIs
<1> DEFINE i == Wrapped(n, start + o) + 1
           rest == a - o - 1
<1>6. i \in 1 .. n /\ keys[i] = v /\ v \in ToSet(keys)
    BY <1>1, <1>5 DEF ToSet
<1>7. (CHOOSE j \in DOMAIN keys : keys[j] = v) = i
    BY <1>1, <1>6 DEF Keys
<1>8. StartIndex(keys, v) = Wrapped(n, i)
  <2>1. StartIndex(keys, v) = i % n
    BY <1>6, <1>7 DEF StartIndex
  <2> HIDE DEF i
  <2> QED
    BY <1>1, <1>6, <2>1, FullTurn
<1>9. rest \in 0 .. n - 1 /\ rest < a /\ Wrapped(n, Wrapped(n, i) + rest) = Wrapped(n, start + a)
  <2> HIDE DEF n, start, a
  <2> QED
    BY <1>1, <1>2, <1>3, <1>4, <1>5 DEF Wrapped
<1>10. Probe(keys, v, rest) = w
  <2> HIDE DEF rest, i
  <2> QED
    BY <1>1, <1>5, <1>8, <1>9, ProbeIs
<1>11. Ahead(keys, v, w) = rest
  <2> HIDE DEF rest
  <2> QED
    BY <1>9, <1>10, AheadIs
<1> QED
    BY <1>9, <1>11

-----------------------------------------------------------------------------
(* The registry                                                            *)

LEMMA RegisterKeys ==
    ASSUME NEW keys \in Keys, NEW w \in Wallets
    PROVE  /\ register(keys, w) \in Keys
           /\ ToSet(register(keys, w)) \subseteq ToSet(keys) => register(keys, w) = keys
<1>1. CASE w \in ToSet(keys)
    BY <1>1 DEF register
<1>2. CASE w \notin ToSet(keys)
  <2>1. keys \in Seq(Wallets) /\ \A i \in DOMAIN keys : keys[i] # w
    BY <1>2 DEF Keys, ToSet
  <2>2. register(keys, w) = Append(keys, w)
    BY <1>2 DEF register
  <2>3. w \in ToSet(Append(keys, w))
    <3>1. Len(keys) + 1 \in DOMAIN Append(keys, w) /\ Append(keys, w)[Len(keys) + 1] = w
      BY <2>1
    <3> QED
      BY <3>1 DEF ToSet
  <2>4. Append(keys, w) \in Keys
    <3>1. /\ Append(keys, w) \in Seq(Wallets)
          /\ DOMAIN Append(keys, w) = 1 .. Len(keys) + 1 /\ DOMAIN keys = 1 .. Len(keys)
          /\ \A i \in 1 .. Len(keys) : Append(keys, w)[i] = keys[i]
          /\ Append(keys, w)[Len(keys) + 1] = w
      BY <2>1
    <3>2. \A i \in 1 .. Len(keys) + 1 : i \in 1 .. Len(keys) \/ i = Len(keys) + 1
      BY <2>1
    <3> QED
      BY <2>1, <3>1, <3>2 DEF Keys
  <2> QED
    BY <1>2, <2>2, <2>3, <2>4
<1> QED
    BY <1>1, <1>2

\* shift_remove takes one key out and leaves the others in their order.
LEMMA UnregisterKeys ==
    ASSUME NEW keys \in Keys, NEW w \in Wallets
    PROVE  /\ unregister(keys, w) \in Keys
           /\ IF w \in ToSet(keys) THEN Len(unregister(keys, w)) < Len(keys)
              ELSE unregister(keys, w) = keys
<1>1. CASE w \in ToSet(keys)
  <2> DEFINE p == CHOOSE i \in DOMAIN keys : keys[i] = w
             new == RemoveAt(keys, p)
  <2>1. keys \in Seq(Wallets) /\ p \in 1 .. Len(keys)
    BY <1>1 DEF Keys, ToSet
  <2>2. unregister(keys, w) = new
    BY <1>1 DEF unregister
  <2> HIDE DEF p
  <2>3. /\ new \in Seq(Wallets) /\ Len(new) = Len(keys) - 1
        /\ \A i \in 1 .. Len(new) : new[i] = IF i < p THEN keys[i] ELSE keys[i + 1]
    <3> DEFINE left == SubSeq(keys, 1, p - 1)
               right == SubSeq(keys, p + 1, Len(keys))
    <3>1. /\ left \in Seq(Wallets) /\ Len(left) = p - 1
          /\ \A i \in 1 .. p - 1 : left[i] = keys[i]
      BY <2>1
    <3>2. /\ right \in Seq(Wallets) /\ Len(right) = Len(keys) - p
          /\ \A i \in 1 .. Len(keys) - p : right[i] = keys[i + p]
      BY <2>1
    <3>3. new = left \o right
      BY DEF RemoveAt
    <3> HIDE DEF new, left, right
    <3>4. /\ new \in Seq(Wallets) /\ Len(new) = Len(left) + Len(right)
          /\ \A i \in 1 .. Len(new) :
                new[i] = IF i <= Len(left) THEN left[i] ELSE right[i - Len(left)]
      <4>1. left \in Seq(Wallets) /\ right \in Seq(Wallets)
        BY <3>1, <3>2
      <4>2. /\ left \o right \in Seq(Wallets) /\ Len(left \o right) = Len(left) + Len(right)
            /\ \A i \in 1 .. Len(left) + Len(right) :
                (left \o right)[i] = IF i <= Len(left) THEN left[i] ELSE right[i - Len(left)]
        BY <4>1, ConcatProperties, Zenon
      <4> QED
        BY <3>3, <4>2, Zenon
    <3>5. Len(new) = Len(keys) - 1
      BY <2>1, <3>1, <3>2, <3>4
    <3>6. ASSUME NEW i \in 1 .. Len(new), i < p PROVE new[i] = keys[i]
      <4>1. i \in 1 .. p - 1 /\ i <= p - 1
        BY <2>1, <3>5, <3>6
      <4> QED
        BY <3>1, <3>4, <4>1
    <3>7. ASSUME NEW i \in 1 .. Len(new), ~(i < p) PROVE new[i] = keys[i + 1]
      <4>1. i - (p - 1) \in 1 .. Len(keys) - p /\ i - (p - 1) + p = i + 1 /\ ~(i <= p - 1)
        BY <2>1, <3>5, <3>7
      <4> QED
        BY <3>1, <3>2, <3>4, <4>1
    <3> QED
      BY <3>4, <3>5, <3>6, <3>7
  <2> HIDE DEF new
  <2>4. new \in Keys
    <3> SUFFICES ASSUME NEW i \in 1 .. Len(new), NEW j \in 1 .. Len(new), new[i] = new[j]
                 PROVE  i = j
      BY <2>3 DEF Keys
    <3> DEFINE at(x) == IF x < p THEN x ELSE x + 1
    <3>1. at(i) \in DOMAIN keys /\ at(j) \in DOMAIN keys
      BY <2>1, <2>3
    <3>2. keys[at(i)] = keys[at(j)]
      BY <2>3
    <3>3. at(i) = at(j)
      <4> HIDE DEF at
      <4> QED
        BY <3>1, <3>2 DEF Keys
    <3> QED
      BY <2>1, <2>3, <3>3
  <2> QED
    BY <1>1, <2>1, <2>2, <2>3, <2>4
<1>2. CASE w \notin ToSet(keys)
    BY <1>2 DEF unregister
<1> QED
    BY <1>1, <1>2

LEMMA TypeInit == Init => TypeInv
BY DEF Init, TypeInv, Keys

LEMMA TypeStep == TypeInv /\ [Next]_vars => TypeInv'
BY RegisterKeys, UnregisterKeys
   DEF TypeInv, Next, Register, Unregister, Ban, Pick, Rest, vars

\* A key is never registered twice, whoever connects, reconnects and leaves
\* (register and unregister).
THEOREM TypeCorrect == Spec => []TypeInv
BY TypeInit, TypeStep, PTL DEF Spec

LEMMA CloserStep == TypeInv /\ Next => ComesCloser
<1> SUFFICES ASSUME TypeInv, Next, NEW w \in ToSet(miners) \ banned,
                    w \in ToSet(miners') \ banned', ToSet(miners') \subseteq ToSet(miners)
             PROVE  /\ Ahead(miners, last, w) \in 0 .. Len(miners) - 1
                    /\ \/ served' = w
                       \/ Len(miners') < Len(miners)
                       \/ /\ Len(miners') = Len(miners)
                          /\ Ahead(miners', last', w) <= Ahead(miners, last, w)
                          /\ served' # None =>
                                Ahead(miners', last', w) < Ahead(miners, last, w)
    BY DEF ComesCloser
<1>1. Ahead(miners, last, w) \in 0 .. Len(miners) - 1 /\ miners \in Keys /\ Len(miners) \in Nat
    BY AheadIs DEF TypeInv, Keys
<1>2. CASE miners' = miners /\ last' = last /\ served' = None
    BY <1>1, <1>2
<1>3. CASE Pick
  <2>1. PICK v \in Wallets : PicksNext(miners, last, banned, v) /\ last' = v /\ served' = v
    BY <1>3 DEF Pick
  <2>2. miners' = miners
    BY <1>3 DEF Pick
  <2>3. v # w => Ahead(miners, v, w) < Ahead(miners, last, w)
    BY <1>1, <2>1, PickBringsCloser
  <2>4. Ahead(miners, v, w) \in 0 .. Len(miners) - 1
    BY <1>1, AheadIs
  <2> QED
    BY <1>1, <2>1, <2>2, <2>3, <2>4
<1>4. ASSUME NEW v \in Wallets, Register(v) PROVE miners' = miners /\ last' = last /\ served' = None
    BY <1>1, <1>4, RegisterKeys DEF Register
<1>5. ASSUME NEW v \in Wallets, Unregister(v)
      PROVE  \/ Len(miners') < Len(miners)
             \/ miners' = miners /\ last' = last /\ served' = None
    BY <1>1, <1>5, UnregisterKeys DEF Unregister
<1> QED
    BY <1>1, <1>2, <1>3, <1>4, <1>5 DEF Next, Ban, Rest

\* While nobody joins, every pick of another miner brings a waiting one closer to
\* the head of the search, and only a departure can set that back: pick_next
\* cannot pass it over more often than there are keys before one leaves.
THEOREM WaitingComesCloser == Spec => [][ComesCloser]_vars
<1>1. TypeInv /\ [Next]_vars => [ComesCloser]_vars
    BY CloserStep
<1> QED
    BY <1>1, TypeCorrect, PTL DEF Spec
=============================================================================
