---------------------------- MODULE BuilderProofs ----------------------------
(* Theorems about the block builder, for any senders, any orders they may  *)
(* send, any base fees and any number of simulations at a time.            *)
EXTENDS Builder, FiniteSetTheorems, TLAPS

-----------------------------------------------------------------------------
(* Orders, and what a step makes of a set of them.                         *)
LEMMA OrderType ==
  /\ \A o \in Orders : o.sender \in Senders /\ o.nonce \in Nat /\ o.cap \in Nat
  /\ \A o \in Orders : o # None
  /\ \A n \in Nat : n # None
BY OrderAssumption, NoneAssumption

LEMMA OfSubset ==
  ASSUME NEW S, NEW s
  PROVE  Of(S, s) \subseteq S /\ (IsFiniteSet(S) => IsFiniteSet(Of(S, s)))
<1>1. Of(S, s) \in SUBSET S
  BY DEF Of
<1> QED
  BY <1>1, FS_Subset

LEMMA PutOrder ==
  ASSUME NEW S \in SUBSET Orders, NEW o \in Orders
  PROVE  /\ Put(S, o) \in SUBSET Orders
         /\ IsFiniteSet(S) => IsFiniteSet(Put(S, o))
         /\ o \in Put(S, o)
         /\ \A p \in S \ Put(S, o) : p.sender = o.sender /\ p.nonce = o.nonce
<1> DEFINE T == {p \in S : p.sender # o.sender \/ p.nonce # o.nonce}
<1>1. T \in SUBSET S
  OBVIOUS
<1>2. IsFiniteSet(S) => IsFiniteSet(T)
  BY <1>1, FS_Subset
<1>3. Put(S, o) = T \cup {o}
  BY DEF Put
<1>4. IsFiniteSet(T) => IsFiniteSet(T \cup {o})
  BY FS_AddElement
<1> QED
  BY <1>1, <1>2, <1>3, <1>4

LEMMA StateNonceType ==
  ASSUME NEW d \in SortData, IsFiniteSet(d.orders), NEW s \in Senders
  PROVE  /\ IsFiniteSet(Of(d.orders, s))
         /\ Cardinality(Of(d.orders, s)) \in Nat
         /\ Cardinality(d.orders) \in Nat
         /\ StateNonce(d, s) \in Nat
         /\ StateNonce(d, s) = d.base[s] + Cardinality(Of(d.orders, s))
<1>1. IsFiniteSet(Of(d.orders, s))
  BY OfSubset
<1>2. Cardinality(Of(d.orders, s)) \in Nat /\ Cardinality(d.orders) \in Nat
  BY <1>1, FS_CardinalityType
<1>3. d.base[s] \in Nat
  BY DEF SortData
<1> QED
  BY <1>1, <1>2, <1>3 DEF StateNonce

-----------------------------------------------------------------------------
(* The inductive invariant.  Of a build: answers not of the state it is on *)
(* are of an earlier one; those of its state, and the best order among     *)
(* them, know the nonces of that state; the nonces it learned are those of *)
(* the orders it applied, or of the parent's state, or, of an account in   *)
(* unfunded, that of an order refused.                                     *)
Executable(d) ==
  \A s \in Senders :
    {o.nonce : o \in Of(d.orders, s)} = d.base[s] .. StateNonce(d, s) - 1

AnswersOfState(d, answers) ==
  \A sim \in answers :
    /\ sim.id <= Cardinality(d.orders)
    /\ IsValid(d, sim) => sim.nonce = StateNonce(d, sim.order.sender)

BestOfState(d) ==
  d.best # None => d.best.nonce = StateNonce(d, d.best.sender)

Learns(d) ==
  \A s \in Senders :
    IF Of(d.orders, s) = {}
    THEN /\ d.sorting[s] = None
         /\ s \notin d.unfunded => d.state[s] \in {None, d.base[s]}
    ELSE d.sorting[s] = StateNonce(d, s)

InFlight(d, answers) ==
  d.in_flight = Cardinality({sim \in answers : IsValid(d, sim)})

Asleep(d) ==
  d.waiting => d.in_flight = 0 /\ d.best = None /\ AllReady(d) = {}

Building(d, answers) ==
  /\ IsFiniteSet(d.active) /\ IsFiniteSet(d.orders)
  /\ Executable(d) /\ AnswersOfState(d, answers) /\ BestOfState(d) /\ Learns(d)
  /\ InFlight(d, answers) /\ Asleep(d)

(* The cache tells the nonces of the parent a build is on, the state of    *)
(* the chain, or nothing.                                                  *)
CacheOfBuild ==
  build # None /\ cache_block = build.block /\ ~reorged =>
    \A s \in Senders \ doubtful : cache[s] \in {None, build.base[s]}

BuilderInv ==
  /\ IsFiniteSet(pool) /\ IsFiniteSet(sims)
  /\ IF build = None THEN \A sim \in sims : sim.id = Stale
                     ELSE Building(build, sims)
  /\ CacheOfBuild /\ CacheSound
  /\ ~reorged => cache_block <= parent + 1 \/ cache = NoNonces

Inv == TypeOK /\ BuilderInv

LEMMA BuildType ==
  ASSUME TypeOK, build # None
  PROVE  build \in SortData
BY DEF TypeOK

-----------------------------------------------------------------------------
(* What the handlers make of a build.                                      *)
SameState(d, e) ==
  /\ e \in SortData
  /\ e.block = d.block /\ e.fee = d.fee /\ e.base = d.base
  /\ e.orders = d.orders /\ e.sorting = d.sorting

OnlyNewOrders(d, e) ==
  /\ SameState(d, e) /\ IsFiniteSet(e.active)
  /\ e.best = d.best /\ e.in_flight = d.in_flight /\ e.state = d.state
  /\ e.unfunded = d.unfunded
  /\ e.waiting => e = d

LEMMA NewTx ==
  ASSUME NEW d \in SortData, NEW o \in Orders, IsFiniteSet(d.active)
  PROVE  OnlyNewOrders(d, HandleNewTx(d, o))
<1> DEFINE e == HandleNewTx(d, o)
<1>1. CASE e = d
  BY <1>1 DEF SameState, OnlyNewOrders
<1>2. CASE e = [d EXCEPT !.waiting = FALSE, !.active = Put(d.active, o)]
  <2>1. Put(d.active, o) \in SUBSET Orders /\ IsFiniteSet(Put(d.active, o))
    BY PutOrder DEF SortData
  <2> HIDE DEF e
  <2>2. SameState(d, e)
    BY <1>2, <2>1 DEF SameState, SortData
  <2>3. /\ e.active = Put(d.active, o) /\ ~e.waiting /\ e.best = d.best
        /\ e.in_flight = d.in_flight /\ e.state = d.state
        /\ e.unfunded = d.unfunded
    BY <1>2 DEF SortData
  <2> QED
    BY <2>1, <2>2, <2>3 DEF e, OnlyNewOrders
<1>3. e = d \/ e = [d EXCEPT !.waiting = FALSE, !.active = Put(d.active, o)]
  BY DEF HandleNewTx, WakesUp
<1> QED
  BY <1>1, <1>2, <1>3

(* An outcome decides on the order and may tell the account's nonce, or    *)
(* note the order's for it; it leaves the applied orders alone.            *)
NonceTold(d, e, sim) ==
  \A s \in Senders :
    \/ e.state[s] = d.state[s] /\ (s \in e.unfunded <=> s \in d.unfunded)
    \/ /\ s = sim.order.sender
       /\ s \notin e.unfunded => e.state[s] = sim.nonce

LEMMA OutcomeOf ==
  ASSUME NEW d \in SortData, NEW sim \in Sim, IsFiniteSet(d.active),
         NEW e \in Outcomes(d, sim)
  PROVE  /\ SameState(d, e) /\ IsFiniteSet(e.active)
         /\ e.in_flight = d.in_flight /\ e.waiting = d.waiting
         /\ \/ e.best = d.best
            \/ e.best = sim.order /\ sim.order.nonce = sim.nonce
         /\ NonceTold(d, e, sim)
<1> DEFINE o == sim.order
<1>1. o \in Orders /\ sim.nonce \in Nat /\ o.sender \in Senders
      /\ o.nonce \in Nat
  BY OrderType DEF Sim
<1>2. d.active \in SUBSET Orders /\ d.state \in Nonces
      /\ d.best \in Orders \cup {None}
  BY DEF SortData
<1>3. ASSUME NEW p \in Orders
      PROVE  Put(d.active, p) \in SUBSET Orders /\ IsFiniteSet(Put(d.active, p))
  BY <1>2, PutOrder
<1>4. CASE e \in NotExecuted(d)
  BY <1>4 DEF NotExecuted, SameState, SortData, NonceTold
<1>5. CASE e \in Executed(d, o) /\ o.nonce = sim.nonce
  <2>1. CASE e = d
    BY <2>1 DEF SameState, NonceTold
  <2>2. CASE e = [d EXCEPT !.best = o,
                           !.active = IF d.best = None THEN d.active
                                      ELSE Put(d.active, d.best)]
    <3>1. /\ (IF d.best = None THEN d.active ELSE Put(d.active, d.best))
                \in SUBSET Orders
          /\ IsFiniteSet(IF d.best = None THEN d.active
                                           ELSE Put(d.active, d.best))
      BY <1>2, <1>3
    <3> QED
      BY <1>1, <1>5, <2>2, <3>1 DEF SameState, SortData, NonceTold
  <2>3. CASE e = [d EXCEPT !.active = Put(d.active, o)]
    <3>1. Put(d.active, o) \in SUBSET Orders /\ IsFiniteSet(Put(d.active, o))
      BY <1>1, <1>3
    <3> QED
      BY <2>3, <3>1 DEF SameState, SortData, NonceTold
  <2> QED
    BY <1>5, <2>1, <2>2, <2>3 DEF Executed
<1>6. ASSUME NEW n \in Nat, NEW u \in SUBSET Senders, NEW a,
             a = d.active \/ a = d.active \ Of(d.active, o.sender),
             e = [d EXCEPT !.state = [d.state EXCEPT ![o.sender] = n],
                           !.unfunded = u, !.active = a],
             \A s \in Senders \ {o.sender} : s \in u <=> s \in d.unfunded,
             o.sender \notin u => n = sim.nonce
      PROVE  /\ SameState(d, e) /\ IsFiniteSet(e.active)
             /\ e.in_flight = d.in_flight /\ e.waiting = d.waiting
             /\ e.best = d.best /\ NonceTold(d, e, sim)
  <2>1. a \in SUBSET d.active
    BY <1>6
  <2>2. IsFiniteSet(a)
    BY <2>1, FS_Subset
  <2>3. [d.state EXCEPT ![o.sender] = n] \in Nonces
    BY <1>1, <1>2, <1>6 DEF Nonces
  <2>4. /\ e.state = [d.state EXCEPT ![o.sender] = n] /\ e.unfunded = u
        /\ e.active = a /\ e.in_flight = d.in_flight
        /\ e.waiting = d.waiting /\ e.best = d.best
    BY <1>6 DEF SortData
  <2>5. SameState(d, e)
    BY <1>2, <1>6, <2>1, <2>3 DEF SameState, SortData
  <2>6. NonceTold(d, e, sim)
    BY <1>1, <1>2, <1>6, <2>4 DEF Nonces, NonceTold
  <2> QED
    BY <2>2, <2>4, <2>5, <2>6
<1>7. CASE e = NoFunds(d, sim) \/ e \in Underpays(d, sim)
  <2> DEFINE u == IF o.nonce = sim.nonce THEN d.unfunded \ {o.sender}
                                         ELSE d.unfunded \cup {o.sender}
  <2>1. /\ u \in SUBSET Senders
        /\ \A s \in Senders \ {o.sender} : s \in u <=> s \in d.unfunded
        /\ o.sender \notin u => o.nonce = sim.nonce
    BY <1>1 DEF SortData
  <2>2. \/ e = [d EXCEPT !.state = [d.state EXCEPT ![o.sender] = o.nonce],
                         !.unfunded = u, !.active = d.active]
        \/ e = [d EXCEPT !.state = [d.state EXCEPT ![o.sender] = o.nonce],
                         !.unfunded = u,
                         !.active = d.active \ Of(d.active, o.sender)]
    BY <1>7 DEF NoFunds, Underpays, NotesOwn, SortData
  <2> HIDE DEF u
  <2> QED
    BY <1>1, <1>6, <2>1, <2>2
<1>8. CASE e = ToldNonce(d, sim)
  <2> DEFINE u == d.unfunded \ {o.sender}
  <2>1. /\ u \in SUBSET Senders
        /\ \A s \in Senders \ {o.sender} : s \in u <=> s \in d.unfunded
    BY DEF SortData
  <2>2. e = [d EXCEPT !.state = [d.state EXCEPT ![o.sender] = sim.nonce],
                      !.unfunded = u, !.active = d.active]
    BY <1>8 DEF ToldNonce, SortData
  <2> HIDE DEF u
  <2> QED
    BY <1>1, <1>6, <2>1, <2>2
<1> QED
  BY <1>1, <1>4, <1>5, <1>7, <1>8 DEF Outcomes

(* The best order has the next nonce of its sender: applied, it extends    *)
(* the run of nonces the build uses.                                       *)
LEMMA ApplyBest ==
  ASSUME NEW d \in SortData, NEW answers \in SUBSET Sim, Building(d, answers),
         d.best # None, NEW big \in BOOLEAN
  PROVE  LET e == Applied(d, big)
         IN  /\ e \in SortData
             /\ e.block = d.block /\ e.fee = d.fee /\ e.base = d.base
             /\ e.active = d.active /\ e.in_flight = d.in_flight
             /\ e.state = d.state /\ e.unfunded = d.unfunded
             /\ e.waiting = d.waiting /\ e.best = None
             /\ IsFiniteSet(e.orders) /\ Executable(e) /\ Learns(e)
             /\ Cardinality(e.orders) = Cardinality(d.orders) + 1
<1> DEFINE e == Applied(d, big)
           b == d.best
           t == d.best.sender
<1>1. b \in Orders /\ t \in Senders /\ b.nonce \in Nat
  BY OrderType DEF SortData
<1>2. e = [d EXCEPT !.orders = d.orders \cup {b},
                    !.sorting[t] = b.nonce + 1,
                    !.best = None, !.seal = d.seal \/ big]
  BY DEF Applied
<1>3. [d.sorting EXCEPT ![t] = b.nonce + 1] \in Nonces
  BY <1>1 DEF SortData, Nonces
<1> HIDE DEF e
<1>4. /\ e \in SortData
      /\ e.block = d.block /\ e.fee = d.fee /\ e.base = d.base
      /\ e.active = d.active /\ e.in_flight = d.in_flight
      /\ e.state = d.state /\ e.unfunded = d.unfunded
      /\ e.waiting = d.waiting /\ e.best = None
  BY <1>1, <1>2, <1>3 DEF SortData
<1>5. /\ e.orders = d.orders \cup {b}
      /\ e.sorting = [d.sorting EXCEPT ![t] = b.nonce + 1]
  BY <1>2 DEF SortData
<1>6. IsFiniteSet(e.orders)
  BY <1>5, FS_AddElement DEF Building
<1>7. b.nonce = StateNonce(d, t)
  BY DEF Building, BestOfState
<1>8. b \notin Of(d.orders, t) /\ b \notin d.orders
  <2>1. StateNonce(d, t) \in Nat
    BY <1>1, StateNonceType DEF Building
  <2>2. b.nonce \notin {o.nonce : o \in Of(d.orders, t)}
    BY <1>1, <1>7, <2>1 DEF Building, Executable, SortData
  <2> QED
    BY <2>2 DEF Of
<1>9. Cardinality(e.orders) = Cardinality(d.orders) + 1
  BY <1>5, <1>8, FS_AddElement DEF Building
<1>10. Of(e.orders, t) = Of(d.orders, t) \cup {b}
  BY <1>5 DEF Of
<1>11. \A s \in Senders : s # t => Of(e.orders, s) = Of(d.orders, s)
  BY <1>5 DEF Of
<1>12. StateNonce(e, t) = StateNonce(d, t) + 1 /\ StateNonce(d, t) \in Nat
  <2>1. /\ IsFiniteSet(Of(d.orders, t)) /\ Cardinality(Of(d.orders, t)) \in Nat
        /\ StateNonce(d, t) = d.base[t] + Cardinality(Of(d.orders, t))
        /\ StateNonce(d, t) \in Nat
    BY <1>1, StateNonceType DEF Building
  <2>2. Cardinality(Of(e.orders, t)) = Cardinality(Of(d.orders, t)) + 1
    BY <1>8, <1>10, <2>1, FS_AddElement
  <2>3. d.base[t] \in Nat
    BY <1>1 DEF SortData
  <2> QED
    BY <1>4, <2>1, <2>2, <2>3 DEF StateNonce
<1>13. \A s \in Senders : s # t => StateNonce(e, s) = StateNonce(d, s)
  BY <1>4, <1>11 DEF StateNonce
<1>14. Executable(e)
  <2> SUFFICES ASSUME NEW s \in Senders
               PROVE  {o.nonce : o \in Of(e.orders, s)}
                        = e.base[s] .. StateNonce(e, s) - 1
    BY DEF Executable
  <2>1. {o.nonce : o \in Of(d.orders, s)} = d.base[s] .. StateNonce(d, s) - 1
    BY DEF Building, Executable
  <2>2. CASE s # t
    BY <1>4, <1>11, <1>13, <2>1, <2>2
  <2>3. CASE s = t
    <3>1. {o.nonce : o \in Of(e.orders, s)}
            = {o.nonce : o \in Of(d.orders, s)} \cup {b.nonce}
      BY <1>10, <2>3
    <3>2. d.base[s] \in Nat /\ StateNonce(d, s) \in Nat
          /\ d.base[s] <= StateNonce(d, s)
      <4>1. d.base[s] \in Nat
        BY DEF SortData
      <4>2. /\ Cardinality(Of(d.orders, s)) \in Nat /\ StateNonce(d, s) \in Nat
            /\ StateNonce(d, s) = d.base[s] + Cardinality(Of(d.orders, s))
        BY StateNonceType DEF Building
      <4> QED
        BY <4>1, <4>2
    <3>3. d.base[s] .. StateNonce(d, s)
            = (d.base[s] .. StateNonce(d, s) - 1) \cup {StateNonce(d, s)}
      BY <3>2
    <3>4. StateNonce(e, s) - 1 = StateNonce(d, s) /\ e.base[s] = d.base[s]
      BY <1>4, <1>12, <2>3
    <3> QED
      BY <1>7, <2>1, <2>3, <3>1, <3>3, <3>4
  <2> QED
    BY <2>2, <2>3
<1>15. Learns(e)
  <2> SUFFICES ASSUME NEW s \in Senders
               PROVE  IF Of(e.orders, s) = {}
                      THEN /\ e.sorting[s] = None
                           /\ s \notin e.unfunded =>
                                e.state[s] \in {None, e.base[s]}
                      ELSE e.sorting[s] = StateNonce(e, s)
    BY DEF Learns
  <2>1. CASE s # t
    BY <1>4, <1>5, <1>11, <1>13, <2>1 DEF Building, Learns, SortData, Nonces
  <2>2. CASE s = t
    BY <1>1, <1>5, <1>7, <1>10, <1>12, <2>2 DEF SortData, Nonces
  <2> QED
    BY <2>1, <2>2
<1> QED
  BY <1>4, <1>6, <1>9, <1>14, <1>15 DEF e

(* No simulation of its state is under way: all that may still answer are  *)
(* of earlier states.                                                      *)
LEMMA NoneInFlight ==
  ASSUME NEW d \in SortData, NEW answers \in SUBSET Sim, Building(d, answers),
         d.in_flight = 0, IsFiniteSet(answers)
  PROVE  \A sim \in answers : ~IsValid(d, sim) /\ sim.id < Cardinality(d.orders)
<1> DEFINE V == {sim \in answers : IsValid(d, sim)}
<1>1. V \in SUBSET answers
  OBVIOUS
<1>2. IsFiniteSet(V)
  BY <1>1, FS_Subset
<1>3. Cardinality(V) = 0
  BY DEF Building, InFlight
<1>4. V = {}
  BY <1>2, <1>3, FS_EmptySet
<1>5. \A sim \in answers : ~IsValid(d, sim)
  BY <1>4
<1>6. Cardinality(d.orders) \in Nat
  BY FS_CardinalityType DEF Building
<1>7. \A sim \in answers : sim.id \in Int /\ sim.id <= Cardinality(d.orders)
  BY DEF Building, AnswersOfState, Sim, Stale
<1> QED
  BY <1>5, <1>6, <1>7 DEF IsValid

LEMMA AppliedBuild ==
  ASSUME NEW d \in SortData, NEW answers \in SUBSET Sim, Building(d, answers),
         d.in_flight = 0, IsFiniteSet(answers), NEW big \in BOOLEAN
  PROVE  LET e == Applied(d, big)
         IN  /\ e \in SortData
             /\ e.block = d.block /\ e.fee = d.fee /\ e.base = d.base
             /\ e.active = d.active /\ e.in_flight = d.in_flight
             /\ e.state = d.state /\ e.unfunded = d.unfunded
             /\ e.waiting = d.waiting /\ e.best = None
             /\ IsFiniteSet(e.orders) /\ Executable(e) /\ Learns(e)
             /\ \A sim \in answers : ~IsValid(e, sim)
                                  /\ sim.id < Cardinality(e.orders)
<1> DEFINE e == Applied(d, big)
<1>1. \A sim \in answers : ~IsValid(d, sim) /\ sim.id < Cardinality(d.orders)
  BY NoneInFlight
<1>2. CASE d.best = None
  <2>1. e = d
    BY <1>2 DEF Applied
  <2> QED
    BY <1>1, <1>2, <2>1 DEF Building
<1>3. CASE d.best # None
  <2>1. Cardinality(d.orders) \in Nat
    BY FS_CardinalityType DEF Building
  <2>2. Cardinality(e.orders) = Cardinality(d.orders) + 1
    BY <1>3, ApplyBest
  <2>3. \A sim \in answers : ~IsValid(e, sim) /\ sim.id < Cardinality(e.orders)
    BY <1>1, <2>1, <2>2 DEF IsValid, Sim, Stale
  <2> QED
    BY <1>3, <2>3, ApplyBest
<1> QED
  BY <1>2, <1>3

-----------------------------------------------------------------------------
(* Steps that leave simulations, applied orders and learned nonces alone.  *)
LEMMA KeepBuilding ==
  ASSUME NEW d, NEW e, NEW answers, Building(d, answers), OnlyNewOrders(d, e)
  PROVE  Building(e, answers)
<1> USE DEF OnlyNewOrders
<1>1. \A s : Of(e.orders, s) = Of(d.orders, s)
            /\ StateNonce(e, s) = StateNonce(d, s)
  BY DEF SameState, StateNonce
<1>2. \A sim : IsValid(e, sim) <=> IsValid(d, sim)
  BY DEF SameState, IsValid
<1>3. Executable(e) /\ Learns(e)
  BY <1>1 DEF Building, Executable, Learns, SameState
<1>4. AnswersOfState(e, answers)
  BY <1>1, <1>2 DEF Building, AnswersOfState, SameState
<1>5. BestOfState(e)
  BY <1>1 DEF Building, BestOfState
<1>6. InFlight(e, answers)
  <2>1. {sim \in answers : IsValid(e, sim)}
          = {sim \in answers : IsValid(d, sim)}
    BY <1>2
  <2> QED
    BY <2>1 DEF Building, InFlight
<1>7. Asleep(e)
  BY DEF Building, Asleep
<1>8. /\ IsFiniteSet(e.active) /\ IsFiniteSet(e.orders)
  BY DEF Building, SameState
<1> QED
  BY <1>3, <1>4, <1>5, <1>6, <1>7, <1>8 DEF Building

(* Clearing the cache makes it hold of any block, keeping it does no harm. *)
CacheKept ==
  \/ UNCHANGED <<cache, cache_block, reorged, doubtful>>
  \/ UNCHANGED cache_block /\ cache' = NoNonces
  \/ reorged' = TRUE

LEMMA KeepCache ==
  ASSUME CacheKept, CacheOfBuild, CacheSound,
         ~reorged => cache_block <= parent + 1 \/ cache = NoNonces,
         UNCHANGED <<parent, chain_nonce>> \/ reorged' = TRUE,
         \/ build' = None
         \/ /\ build # None
            /\ build'.block = build.block /\ build'.base = build.base
  PROVE  /\ CacheOfBuild' /\ CacheSound'
         /\ ~reorged' => cache_block' <= parent' + 1 \/ cache' = NoNonces
BY DEF CacheKept, CacheOfBuild, CacheSound, NoNonces, ValidParent

-----------------------------------------------------------------------------
(* One lemma for each action.                                              *)
LEMMA FetchTxStep == Inv /\ FetchTx => Inv'
<1> SUFFICES ASSUME Inv, FetchTx PROVE Inv'
  OBVIOUS
<1> USE DEF Inv
<1>1. PICK o \in Orders :
        /\ build' = IF build = None THEN None ELSE HandleNewTx(build, o)
        /\ pool' = IF Refused(o) THEN pool ELSE Put(pool, o)
  BY DEF FetchTx
<1>2. /\ UNCHANGED <<cache_block, sims, parent, chain_nonce>>
      /\ CacheKept /\ cache' \in Nonces /\ reorged' \in BOOLEAN
      /\ doubtful' \subseteq Senders
  BY DEF FetchTx, chainVars, KeepNonces, ClearNonces, CacheKept, TypeOK,
         NoNonces, Nonces
<1>3. pool' \subseteq Orders /\ IsFiniteSet(pool')
  BY <1>1, PutOrder DEF TypeOK, BuilderInv
<1>4. CASE build = None
  BY <1>1, <1>2, <1>3, <1>4, KeepCache DEF TypeOK, BuilderInv
<1>5. CASE build # None
  <2>1. build \in SortData /\ Building(build, sims)
    BY <1>5, BuildType DEF BuilderInv
  <2>2. OnlyNewOrders(build, build')
    BY <1>1, <1>5, <2>1, NewTx DEF Building
  <2>3. build' \in SortData /\ build' # None
    BY <2>2, SortDataAssumption DEF SameState, OnlyNewOrders
  <2>4. Building(build', sims')
    <3>1. sims' = sims /\ sims \in SUBSET Sim
      BY <1>2 DEF TypeOK
    <3>2. Building(build', sims)
      BY <2>1, <2>2, <2>3, KeepBuilding
    <3> QED
      BY <3>1, <3>2
  <2>5. /\ CacheOfBuild' /\ CacheSound'
        /\ ~reorged' => cache_block' <= parent' + 1 \/ cache' = NoNonces
    BY <1>2, <1>5, <2>2, KeepCache DEF OnlyNewOrders, SameState, BuilderInv
  <2> QED
    BY <1>2, <1>3, <2>3, <2>4, <2>5 DEF TypeOK, BuilderInv
<1> QED
  BY <1>4, <1>5

(* Counting the answers that come.                                         *)
LEMMA LateAnswer ==
  ASSUME NEW d, NEW answers, NEW sim, Building(d, answers), ~IsValid(d, sim)
  PROVE  Building(d, answers \ {sim})
<1>1. {x \in answers \ {sim} : IsValid(d, x)} = {x \in answers : IsValid(d, x)}
  OBVIOUS
<1> QED
  BY <1>1 DEF Building, AnswersOfState, InFlight

LEMMA CountedAnswer ==
  ASSUME NEW d \in SortData, NEW answers, Building(d, answers),
         IsFiniteSet(answers), NEW sim \in answers, IsValid(d, sim)
  PROVE  /\ d.in_flight \in Nat /\ d.in_flight - 1 \in Nat
         /\ d.in_flight - 1 = Cardinality({x \in answers \ {sim} : IsValid(d, x)})
<1> DEFINE V == {x \in answers : IsValid(d, x)}
           W == {x \in answers \ {sim} : IsValid(d, x)}
<1>1. V \in SUBSET answers
  OBVIOUS
<1>2. IsFiniteSet(V)
  BY <1>1, FS_Subset
<1>3. W = V \ {sim} /\ sim \in V
  OBVIOUS
<1>4. d.in_flight = Cardinality(V)
  BY DEF Building, InFlight
<1>5. IsFiniteSet(W) /\ Cardinality(W) = Cardinality(V) - 1
  BY <1>2, <1>3, FS_RemoveElement
<1>6. Cardinality(V) \in Nat /\ Cardinality(W) \in Nat
  BY <1>2, <1>5, FS_CardinalityType
<1> QED
  BY <1>4, <1>5, <1>6

LEMMA AnsweredBuild ==
  ASSUME NEW d \in SortData, NEW answers, Building(d, answers),
         IsFiniteSet(answers), NEW sim \in answers, sim \in Sim,
         IsValid(d, sim),
         NEW e \in Outcomes([d EXCEPT !.in_flight = @ - 1], sim)
  PROVE  SameState(d, e) /\ Building(e, answers \ {sim})
<1> DEFINE f == [d EXCEPT !.in_flight = @ - 1]
           left == answers \ {sim}
<1>1. /\ d.in_flight \in Nat /\ d.in_flight - 1 \in Nat
      /\ d.in_flight - 1 = Cardinality({x \in left : IsValid(d, x)})
  BY CountedAnswer
<1>2. /\ f \in SortData /\ SameState(d, f) /\ f.active = d.active
      /\ f.in_flight = d.in_flight - 1 /\ f.waiting = d.waiting
      /\ f.best = d.best /\ f.state = d.state
      /\ f.unfunded = d.unfunded
  BY <1>1 DEF SortData, SameState
<1> HIDE DEF f
<1>3. /\ SameState(f, e) /\ IsFiniteSet(e.active)
      /\ e.in_flight = f.in_flight /\ e.waiting = f.waiting
      /\ \/ e.best = f.best
         \/ e.best = sim.order /\ sim.order.nonce = sim.nonce
      /\ NonceTold(f, e, sim)
  <2>1. IsFiniteSet(f.active)
    BY <1>2 DEF Building
  <2>2. e \in Outcomes(f, sim)
    BY DEF f
  <2> QED
    BY <1>2, <2>1, <2>2, OutcomeOf
<1>4. SameState(d, e)
  BY <1>2, <1>3 DEF SameState
<1>5. \A s : Of(e.orders, s) = Of(d.orders, s)
            /\ StateNonce(e, s) = StateNonce(d, s)
  BY <1>4 DEF SameState, StateNonce
<1>6. \A x : IsValid(e, x) <=> IsValid(d, x)
  BY <1>4 DEF SameState, IsValid
<1>7. Executable(e)
  BY <1>4, <1>5 DEF Building, Executable, SameState
<1>8. AnswersOfState(e, left)
  BY <1>4, <1>5, <1>6 DEF Building, AnswersOfState, SameState
<1>9. sim.nonce = StateNonce(d, sim.order.sender)
  BY DEF Building, AnswersOfState
<1>10. BestOfState(e)
  <2>1. CASE e.best = d.best
    BY <1>5, <2>1 DEF Building, BestOfState
  <2>2. CASE e.best = sim.order /\ sim.order.nonce = sim.nonce
    BY <1>5, <1>9, <2>2 DEF BestOfState
  <2> QED
    BY <1>2, <1>3, <2>1, <2>2
<1>11. Learns(e)
  <2> SUFFICES ASSUME NEW s \in Senders
               PROVE  IF Of(e.orders, s) = {}
                      THEN /\ e.sorting[s] = None
                           /\ s \notin e.unfunded =>
                                e.state[s] \in {None, e.base[s]}
                      ELSE e.sorting[s] = StateNonce(e, s)
    BY DEF Learns
  <2>1. e.sorting = d.sorting /\ e.base = d.base
    BY <1>4 DEF SameState
  <2>2. CASE Of(d.orders, s) # {}
    BY <1>5, <2>1, <2>2 DEF Building, Learns
  <2>3. CASE Of(d.orders, s) = {}
    <3>1. /\ d.sorting[s] = None
          /\ s \notin d.unfunded => d.state[s] \in {None, d.base[s]}
      BY <2>3 DEF Building, Learns
    <3>2. StateNonce(d, s) = d.base[s]
      <4>1. Cardinality(Of(d.orders, s)) = 0
        BY <2>3, FS_EmptySet
      <4>2. d.base[s] \in Nat
        BY DEF SortData
      <4> QED
        BY <4>1, <4>2 DEF StateNonce
    <3>3. s \notin e.unfunded =>
            \/ e.state[s] = d.state[s] /\ s \notin d.unfunded
            \/ e.state[s] = d.base[s]
      BY <1>2, <1>3, <1>9, <3>2 DEF NonceTold
    <3> QED
      BY <1>5, <2>1, <2>3, <3>1, <3>3
  <2> QED
    BY <2>2, <2>3
<1>12. InFlight(e, left)
  <2>1. {x \in left : IsValid(e, x)} = {x \in left : IsValid(d, x)}
    BY <1>6
  <2> QED
    BY <1>1, <1>2, <1>3, <2>1 DEF InFlight
<1>13. Asleep(e)
  <2>1. ~d.waiting
    BY <1>1 DEF Building, Asleep
  <2> QED
    BY <1>2, <1>3, <2>1 DEF Asleep
<1>14. IsFiniteSet(e.active) /\ IsFiniteSet(e.orders)
  BY <1>3, <1>4 DEF Building, SameState
<1> QED
  BY <1>4, <1>7, <1>8, <1>10, <1>11, <1>12, <1>13, <1>14 DEF Building

LEMMA HandleSimStep == Inv /\ HandleSim => Inv'
<1> SUFFICES ASSUME Inv, HandleSim PROVE Inv'
  OBVIOUS
<1> USE DEF Inv
<1>1. PICK sim \in sims :
        /\ sims' = sims \ {sim}
        /\ \/ /\ Counts(sim)
              /\ build' \in Outcomes([build EXCEPT !.in_flight = @ - 1], sim)
           \/ ~Counts(sim) /\ UNCHANGED build
  BY DEF HandleSim
<1>2. UNCHANGED <<pool, cache, cache_block, reorged, doubtful, parent,
                  chain_nonce>>
  BY DEF HandleSim, poolVars, chainVars
<1>3. sim \in Sim /\ sims' \subseteq Sim /\ IsFiniteSet(sims')
  BY <1>1, FS_RemoveElement DEF TypeOK, BuilderInv
<1>4. CASE Counts(sim)
  <2>1. /\ build # None /\ build \in SortData /\ Building(build, sims)
        /\ IsValid(build, sim) /\ IsFiniteSet(sims)
    BY <1>4, BuildType DEF Counts, BuilderInv
  <2>2. SameState(build, build') /\ Building(build', sims')
    BY <1>1, <1>3, <1>4, <2>1, AnsweredBuild
  <2>3. build' \in SortData /\ build' # None
        /\ build'.block = build.block /\ build'.base = build.base
    BY <2>2, SortDataAssumption DEF SameState
  <2> QED
    BY <1>2, <1>3, <2>1, <2>2, <2>3, KeepCache
       DEF CacheKept, TypeOK, BuilderInv
<1>5. CASE ~Counts(sim)
  <2>1. build' = build
    BY <1>1, <1>5
  <2>2. CASE build = None
    BY <1>1, <1>2, <1>3, <2>1, <2>2, KeepCache DEF CacheKept, TypeOK, BuilderInv
  <2>3. CASE build # None
    <3>1. Building(build', sims')
      BY <1>1, <1>5, <2>1, <2>3, LateAnswer DEF Counts, BuilderInv
    <3> QED
      BY <1>2, <1>3, <2>1, <2>3, <3>1, KeepCache
         DEF CacheKept, TypeOK, BuilderInv
  <2> QED
    BY <2>2, <2>3
<1> QED
  BY <1>4, <1>5

(* Asking for simulations: none of the state is under way when it is asked *)
(* for some, and each order asked for is answered once.                    *)
Asked(d, picked) ==
  {[order |-> o, id |-> Cardinality(d.orders),
    nonce |-> StateNonce(d, o.sender)] : o \in picked}

LEMMA AskedOnce ==
  ASSUME NEW d \in SortData, IsFiniteSet(d.orders),
         NEW picked \in SUBSET Orders, IsFiniteSet(picked)
  PROVE  /\ Asked(d, picked) \subseteq Sim
         /\ IsFiniteSet(Asked(d, picked))
         /\ Cardinality(Asked(d, picked)) = Cardinality(picked)
<1> DEFINE T == Asked(d, picked)
           f == [o \in picked |->
                   [order |-> o, id |-> Cardinality(d.orders),
                    nonce |-> StateNonce(d, o.sender)]]
<1>1. T \subseteq Sim
  <2> SUFFICES ASSUME NEW o \in picked
               PROVE  [order |-> o, id |-> Cardinality(d.orders),
                       nonce |-> StateNonce(d, o.sender)] \in Sim
    BY DEF Asked
  <2>1. o \in Orders /\ o.sender \in Senders
    BY OrderType
  <2>2. StateNonce(d, o.sender) \in Nat /\ Cardinality(d.orders) \in Nat
    BY <2>1, StateNonceType
  <2> QED
    BY <2>1, <2>2 DEF Sim
<1>2. f \in Surjection(picked, T)
  BY DEF Surjection, Asked
<1>3. f \in Injection(picked, T)
  <2>1. \A x, y \in picked : f[x] = f[y] => x = y
    <3> SUFFICES ASSUME NEW x \in picked, NEW y \in picked, f[x] = f[y]
                 PROVE  x = y
      OBVIOUS
    <3>1. f[x].order = x /\ f[y].order = y
      OBVIOUS
    <3> QED
      BY <3>1
  <2>2. f \in [picked -> T]
    BY <1>2 DEF Surjection
  <2> HIDE DEF f, T
  <2> QED
    BY <2>1, <2>2 DEF Injection, IsInjective
<1>4. IsFiniteSet(T) /\ Cardinality(T) = Cardinality(picked)
  <2> HIDE DEF f, T
  <2> QED
    BY <1>2, <1>3, FS_Surjection
<1> QED
  BY <1>1, <1>4

LEMMA ReadyActive ==
  ASSUME NEW d
  PROVE  AllReady(d) \subseteq d.active
BY DEF AllReady, FirstReady, Of, Lowest

(* A build that was just told of its best order, or has none.              *)
Settled(d, answers) ==
  /\ d \in SortData /\ d.best = None /\ d.in_flight = 0 /\ ~d.waiting
  /\ IsFiniteSet(d.active) /\ IsFiniteSet(d.orders)
  /\ Executable(d) /\ Learns(d)
  /\ \A sim \in answers : ~IsValid(d, sim) /\ sim.id < Cardinality(d.orders)

LEMMA AskingBuild ==
  ASSUME NEW d, NEW answers \in SUBSET Sim, Settled(d, answers),
         NEW picked \in SUBSET AllReady(d),
         LET n == Cardinality(picked)
         IN  n = MaxSims \/ (n < MaxSims /\ picked = AllReady(d)),
         NEW e,
         LET n == Cardinality(picked)
         IN  e = [d EXCEPT !.active = @ \ picked,
                           !.in_flight = @ + n,
                           !.waiting = (d.in_flight + n = 0)]
  PROVE  SameState(d, e) /\ Building(e, answers \cup Asked(d, picked))
<1> DEFINE n == Cardinality(picked)
           T == Asked(d, picked)
<1> USE DEF Settled
<1>1. /\ picked \in SUBSET d.active /\ picked \in SUBSET Orders
      /\ IsFiniteSet(picked) /\ n \in Nat
  <2>1. picked \in SUBSET d.active
    BY ReadyActive
  <2>2. IsFiniteSet(picked)
    BY <2>1, FS_Subset
  <2>3. picked \in SUBSET Orders
    BY <2>1 DEF SortData
  <2> QED
    BY <2>1, <2>2, <2>3, FS_CardinalityType
<1>2. T \subseteq Sim /\ IsFiniteSet(T) /\ Cardinality(T) = n
  BY <1>1, AskedOnce
<1>3. /\ SameState(d, e) /\ e.active = d.active \ picked
      /\ e.in_flight = n /\ e.waiting = (n = 0) /\ e.best = None
      /\ e.state = d.state /\ e.unfunded = d.unfunded
  <2>1. d.in_flight + n = n
    BY <1>1
  <2>2. e = [d EXCEPT !.active = d.active \ picked,
                      !.in_flight = n, !.waiting = (n = 0)]
    BY <2>1
  <2> HIDE DEF n
  <2>3. (n = 0) \in BOOLEAN /\ d.active \ picked \in SUBSET Orders
    BY DEF SortData
  <2>4. e \in SortData
    BY <1>1, <2>2, <2>3 DEF SortData
  <2> QED
    BY <2>2, <2>4 DEF SameState, SortData
<1>4. \A s : Of(e.orders, s) = Of(d.orders, s)
            /\ StateNonce(e, s) = StateNonce(d, s)
  BY <1>3 DEF SameState, StateNonce
<1>5. \A x : IsValid(e, x) <=> IsValid(d, x)
  BY <1>3 DEF SameState, IsValid
<1>6. IsFiniteSet(e.active) /\ IsFiniteSet(e.orders)
  <2>1. (d.active \ picked) \in SUBSET d.active
    OBVIOUS
  <2> QED
    BY <1>3, <2>1, FS_Subset DEF SameState
<1>7. Executable(e) /\ Learns(e)
  BY <1>3, <1>4 DEF Executable, Learns, SameState
<1>8. \A x \in T : /\ x.id = Cardinality(d.orders) /\ IsValid(d, x)
                   /\ x.nonce = StateNonce(d, x.order.sender)
  BY DEF Asked, IsValid
<1>9. AnswersOfState(e, answers \cup T)
  <2> SUFFICES ASSUME NEW x \in answers \cup T
               PROVE  /\ x.id <= Cardinality(e.orders)
                      /\ IsValid(e, x) => x.nonce = StateNonce(e, x.order.sender)
    BY DEF AnswersOfState
  <2>1. Cardinality(d.orders) \in Nat /\ e.orders = d.orders
    BY <1>3, FS_CardinalityType DEF SameState
  <2>2. CASE x \in answers
    <3>1. x.id \in Int
      BY <2>2 DEF Sim, Stale
    <3> QED
      BY <1>5, <2>1, <2>2, <3>1
  <2>3. CASE x \in T
    BY <1>4, <1>8, <2>1, <2>3
  <2> QED
    BY <2>2, <2>3
<1>10. BestOfState(e)
  BY <1>3 DEF BestOfState
<1>11. InFlight(e, answers \cup T)
  <2>1. {x \in answers \cup T : IsValid(e, x)} = T
    BY <1>5, <1>8
  <2> QED
    BY <1>2, <1>3, <2>1 DEF InFlight
<1>12. Asleep(e)
  <2> SUFFICES ASSUME n = 0
               PROVE  AllReady(e) = {}
    BY <1>3 DEF Asleep
  <2>1. picked = {} /\ AllReady(d) = {}
    BY <1>1, FS_EmptySet, SimsAssumption
  <2>2. \A s : FirstReady(e, s) = FirstReady(d, s)
    BY <1>3, <2>1 DEF FirstReady, NonceOf, SameState
  <2> QED
    BY <2>1, <2>2 DEF AllReady
<1> QED
  BY <1>3, <1>6, <1>7, <1>9, <1>10, <1>11, <1>12 DEF Building

LEMMA SimNextBatchStep == Inv /\ SimNextBatch => Inv'
<1> SUFFICES ASSUME Inv, SimNextBatch PROVE Inv'
  OBVIOUS
<1> USE DEF Inv
<1>1. /\ build # None /\ build \in SortData /\ Building(build, sims)
      /\ sims \in SUBSET Sim /\ IsFiniteSet(sims)
  BY BuildType DEF SimNextBatch, BuilderInv, TypeOK
<1>2. UNCHANGED <<pool, cache, cache_block, reorged, doubtful, parent,
                  chain_nonce>>
  BY DEF SimNextBatch, poolVars, chainVars
<1>3. build.in_flight = 0 /\ ~build.waiting
  <2>1. build.in_flight \in Nat
    BY <1>1 DEF SortData
  <2>2. ~Busy(build) /\ (build.best # None \/ ~build.waiting)
    BY DEF SimNextBatch
  <2>3. build.in_flight = 0
    BY <2>1, <2>2 DEF Busy
  <2>4. build.waiting => build.best = None
    BY <1>1 DEF Building, Asleep
  <2> QED
    BY <2>2, <2>3, <2>4
<1>4. PICK big \in BOOLEAN :
        LET d == Applied(build, big)
        IN  \/ /\ d.waiting
               /\ build' = d
               /\ UNCHANGED sims
            \/ /\ ~d.waiting
               /\ \E picked \in SUBSET AllReady(d) :
                    LET n == Cardinality(picked)
                    IN  /\ n = MaxSims \/ (n < MaxSims /\ picked = AllReady(d))
                        /\ build' = [d EXCEPT !.active = @ \ picked,
                                              !.in_flight = @ + n,
                                              !.waiting = (d.in_flight + n = 0)]
                        /\ sims' = sims \cup Asked(d, picked)
  BY DEF SimNextBatch, Asked
<1> DEFINE d == Applied(build, big)
<1>5. /\ Settled(d, sims) /\ ~d.waiting
      /\ d.block = build.block /\ d.base = build.base
  BY <1>1, <1>3, AppliedBuild DEF Settled, Building
<1>6. PICK picked \in SUBSET AllReady(d) :
        LET n == Cardinality(picked)
        IN  /\ n = MaxSims \/ (n < MaxSims /\ picked = AllReady(d))
            /\ build' = [d EXCEPT !.active = @ \ picked,
                                  !.in_flight = @ + n,
                                  !.waiting = (d.in_flight + n = 0)]
            /\ sims' = sims \cup Asked(d, picked)
  BY <1>4, <1>5
<1> HIDE DEF d
<1>7. SameState(d, build') /\ Building(build', sims')
  BY <1>1, <1>5, <1>6, AskingBuild
<1>8. sims' \subseteq Sim /\ IsFiniteSet(sims')
  <2>1. picked \in SUBSET d.active
    BY ReadyActive
  <2>2. IsFiniteSet(picked) /\ picked \in SUBSET Orders
    BY <1>5, <2>1, FS_Subset DEF Settled, SortData
  <2>3. Asked(d, picked) \subseteq Sim /\ IsFiniteSet(Asked(d, picked))
    BY <1>5, <2>2, AskedOnce DEF Settled
  <2> QED
    BY <1>1, <1>6, <2>3, FS_Union
<1>9. build' \in SortData /\ build' # None
      /\ build'.block = build.block /\ build'.base = build.base
  BY <1>5, <1>7, SortDataAssumption DEF SameState
<1> QED
  BY <1>1, <1>2, <1>7, <1>8, <1>9, KeepCache DEF CacheKept, TypeOK, BuilderInv

(* A build starts on the parent's state, with nothing learned and nobody   *)
(* asked.                                                                  *)
NewBuild(fee) ==
  [block |-> parent + 1, fee |-> fee, base |-> chain_nonce,
   active |-> ActiveOrders(fee), orders |-> {},
   best |-> None, in_flight |-> 0,
   state |-> NoNonces, sorting |-> NoNonces, unfunded |-> {},
   waiting |-> FALSE, seal |-> FALSE, discard |-> FALSE]

LEMMA BuildOfNothing ==
  ASSUME NEW d \in SortData, IsFiniteSet(d.active),
         d.orders = {}, d.best = None, d.in_flight = 0, ~d.waiting,
         d.state = NoNonces, d.sorting = NoNonces,
         NEW answers, \A sim \in answers : sim.id = Stale
  PROVE  Building(d, answers)
<1>1. IsFiniteSet(d.orders) /\ Cardinality(d.orders) = 0
  BY FS_EmptySet
<1>2. \A s : Of(d.orders, s) = {}
  BY DEF Of
<1>3. \A s \in Senders : StateNonce(d, s) = d.base[s] /\ d.base[s] \in Nat
  <2> SUFFICES ASSUME NEW s \in Senders
               PROVE  StateNonce(d, s) = d.base[s] /\ d.base[s] \in Nat
    OBVIOUS
  <2>1. d.base[s] \in Nat
    BY DEF SortData
  <2>2. Cardinality(Of(d.orders, s)) = 0
    BY <1>2, FS_EmptySet
  <2> QED
    BY <2>1, <2>2 DEF StateNonce
<1>4. Executable(d)
  <2> SUFFICES ASSUME NEW s \in Senders
               PROVE  {o.nonce : o \in Of(d.orders, s)}
                        = d.base[s] .. StateNonce(d, s) - 1
    BY DEF Executable
  <2>1. d.base[s] .. StateNonce(d, s) - 1 = {}
    BY <1>3
  <2> QED
    BY <1>2, <2>1
<1>5. Learns(d)
  BY <1>2 DEF Learns, NoNonces
<1>6. \A sim \in answers : ~IsValid(d, sim) /\ sim.id <= Cardinality(d.orders)
  BY <1>1 DEF IsValid, Stale
<1>7. AnswersOfState(d, answers)
  BY <1>6 DEF AnswersOfState
<1>8. InFlight(d, answers)
  <2>1. {sim \in answers : IsValid(d, sim)} = {}
    BY <1>6
  <2> QED
    BY <2>1, FS_EmptySet DEF InFlight
<1> QED
  BY <1>1, <1>4, <1>5, <1>7, <1>8 DEF Building, BestOfState, Asleep

LEMMA StartBuildStep == Inv /\ StartBuild => Inv'
<1> SUFFICES ASSUME Inv, StartBuild PROVE Inv'
  OBVIOUS
<1> USE DEF Inv
<1>1. PICK fee \in Fees : build' = NewBuild(fee)
  BY DEF StartBuild, NewBuild
<1>2. /\ UNCHANGED <<pool, cache_block, sims, parent, chain_nonce>>
      /\ build = None
  BY DEF StartBuild, chainVars
<1>3. ActiveOrders(fee) \in SUBSET pool
  BY DEF ActiveOrders
<1>4. IsFiniteSet(ActiveOrders(fee)) /\ ActiveOrders(fee) \in SUBSET Orders
  BY <1>3, FS_Subset DEF BuilderInv, TypeOK
<1>5. build' \in SortData
  <2>1. /\ parent + 1 \in Nat /\ chain_nonce \in [Senders -> Nat]
        /\ NoNonces \in Nonces
    BY DEF TypeOK, NoNonces, Nonces
  <2> QED
    BY <1>1, <1>4, <2>1 DEF NewBuild, SortData
<1>6. Building(build', sims')
  <2>1. \A sim \in sims : sim.id = Stale
    BY <1>2 DEF BuilderInv
  <2>2. /\ IsFiniteSet(build'.active) /\ build'.orders = {}
        /\ build'.best = None /\ build'.in_flight = 0 /\ ~build'.waiting
        /\ build'.state = NoNonces /\ build'.sorting = NoNonces
    BY <1>1, <1>4 DEF NewBuild
  <2> QED
    BY <1>2, <1>5, <2>1, <2>2, BuildOfNothing
<1>7. build'.block = parent + 1 /\ build'.base = chain_nonce
  BY <1>1 DEF NewBuild
<1>8. CASE ValidParent
  <2>1. UNCHANGED <<cache, reorged, doubtful>>
    BY <1>8 DEF StartBuild, KeepNonces
  <2>2. CacheOfBuild' /\ CacheSound'
    BY <1>2, <1>7, <1>8, <2>1
       DEF BuilderInv, CacheSound, ValidParent, CacheOfBuild
  <2> QED
    BY <1>2, <1>5, <1>6, <2>1, <2>2, SortDataAssumption DEF TypeOK, BuilderInv
<1>9. CASE ~ValidParent
  <2>1. cache' = NoNonces /\ reorged' = FALSE /\ doubtful' = {}
    BY <1>9 DEF StartBuild, ClearNonces
  <2>2. CacheOfBuild' /\ CacheSound' /\ cache' \in Nonces
    BY <2>1 DEF CacheSound, CacheOfBuild, NoNonces, Nonces
  <2> QED
    BY <1>2, <1>5, <1>6, <2>1, <2>2, SortDataAssumption DEF TypeOK, BuilderInv
<1> QED
  BY <1>8, <1>9

(* A build ends.                                                           *)
LEMMA EndOfBuild ==
  ASSUME EndBuild, sims \subseteq Sim, IsFiniteSet(sims)
  PROVE  /\ build' = None /\ sims' \subseteq Sim /\ IsFiniteSet(sims')
         /\ \A sim \in sims' : sim.id = Stale
<1> DEFINE f == [sim \in sims |-> [sim EXCEPT !.id = Stale]]
<1>1. build' = None /\ sims' = {[sim EXCEPT !.id = Stale] : sim \in sims}
  BY DEF EndBuild
<1>2. \A sim \in sims : /\ [sim EXCEPT !.id = Stale] \in Sim
                        /\ [sim EXCEPT !.id = Stale].id = Stale
  BY DEF Sim
<1>3. f \in Surjection(sims, sims')
  BY <1>1 DEF Surjection
<1>4. IsFiniteSet(sims')
  <2> HIDE DEF f
  <2> QED
    BY <1>3, FS_Surjection
<1> QED
  BY <1>1, <1>2, <1>4

LEMMA LostBuildStep == Inv /\ (DiscardBlock \/ SealRefused) => Inv'
<1> SUFFICES ASSUME Inv, DiscardBlock \/ SealRefused PROVE Inv'
  OBVIOUS
<1> USE DEF Inv
<1>1. /\ EndBuild /\ cache' = NoNonces /\ reorged' = FALSE /\ doubtful' = {}
      /\ UNCHANGED <<pool, cache_block, parent, chain_nonce>>
  BY DEF DiscardBlock, SealRefused, ClearNonces, chainVars
<1>2. /\ build' = None /\ sims' \subseteq Sim /\ IsFiniteSet(sims')
      /\ \A sim \in sims' : sim.id = Stale
  BY <1>1, EndOfBuild DEF TypeOK, BuilderInv
<1>3. CacheOfBuild' /\ CacheSound' /\ cache' \in Nonces
  BY <1>1 DEF CacheSound, CacheOfBuild, NoNonces, Nonces
<1> QED
  BY <1>1, <1>2, <1>3 DEF TypeOK, BuilderInv

(* What a build has learned of a sender is its nonce after the build, but  *)
(* for an account refused for funds that has no order in it, and a sender  *)
(* it has learned nothing of has none of its orders in it.                 *)
LEMMA LearnedOfState ==
  ASSUME NEW d \in SortData, NEW answers, Building(d, answers),
         NEW s \in Senders
  PROVE  /\ ~(s \in d.unfunded /\ d.sorting[s] = None) =>
              Learned(d)[s] \in {None, StateNonce(d, s)}
         /\ Learned(d)[s] \in Nat \cup {None}
         /\ Learned(d)[s] = None => StateNonce(d, s) = d.base[s]
         /\ StateNonce(d, s) \in Nat /\ StateNonce(d, s) # None
<1>1. Learned(d)[s] = IF d.sorting[s] # None THEN d.sorting[s] ELSE d.state[s]
  BY DEF Learned, NonceOf
<1>2. StateNonce(d, s) \in Nat /\ StateNonce(d, s) # None
  BY StateNonceType, OrderType DEF Building
<1>3. CASE Of(d.orders, s) # {}
  BY <1>1, <1>2, <1>3 DEF Building, Learns
<1>4. Learned(d)[s] \in Nat \cup {None}
  <2>1. d.sorting[s] \in Nat \cup {None} /\ d.state[s] \in Nat \cup {None}
    BY DEF SortData, Nonces
  <2> QED
    BY <1>1, <2>1
<1>5. CASE Of(d.orders, s) = {}
  <2>1. Cardinality(Of(d.orders, s)) = 0
    BY <1>5, FS_EmptySet
  <2>2. d.base[s] \in Nat
    BY DEF SortData
  <2>3. StateNonce(d, s) = d.base[s]
    BY <2>1, <2>2 DEF StateNonce
  <2> QED
    BY <1>1, <1>2, <1>4, <1>5, <2>3 DEF Building, Learns
<1> QED
  BY <1>3, <1>4, <1>5

LEMMA SealBlockStep == Inv /\ SealBlock => Inv'
<1> SUFFICES ASSUME Inv, SealBlock PROVE Inv'
  OBVIOUS
<1> USE DEF Inv
<1>1. /\ build # None /\ build \in SortData /\ Building(build, sims)
      /\ build.block \in Nat
  BY BuildType DEF SealBlock, BuilderInv, SortData
<1>2. /\ build' = None /\ sims' \subseteq Sim /\ IsFiniteSet(sims')
      /\ \A sim \in sims' : sim.id = Stale
  BY EndOfBuild DEF SealBlock, TypeOK, BuilderInv
<1>3. pool' \in SUBSET pool /\ IsFiniteSet(pool')
  <2>1. pool' \in SUBSET pool
    BY DEF SealBlock, Forward
  <2> QED
    BY <2>1, FS_Subset DEF BuilderInv
<1>4. /\ cache_block' = build.block + 1 /\ parent' = build.block
      /\ reorged' = (reorged /\ cache_block = build.block)
      /\ chain_nonce' = [s \in Senders |-> StateNonce(build, s)]
      /\ cache' = [s \in Senders |->
           IF Learned(build)[s] # None THEN Learned(build)[s]
           ELSE IF cache_block = build.block THEN cache[s] ELSE None]
      /\ doubtful' = {s \in Senders :
           IF Learned(build)[s] # None
           THEN s \in build.unfunded /\ build.sorting[s] = None
           ELSE s \in doubtful /\ cache_block = build.block}
  BY DEF SealBlock
<1>5. \A s \in Senders :
        /\ ~(s \in build.unfunded /\ build.sorting[s] = None) =>
             Learned(build)[s] \in {None, StateNonce(build, s)}
        /\ Learned(build)[s] \in Nat \cup {None}
        /\ Learned(build)[s] = None => StateNonce(build, s) = build.base[s]
        /\ StateNonce(build, s) \in Nat
  BY <1>1, LearnedOfState
<1>6. chain_nonce' \in [Senders -> Nat]
  BY <1>4, <1>5
<1>7. cache' \in Nonces
  BY <1>4, <1>5 DEF TypeOK, Nonces
<1>8. CacheSound'
  <2> SUFFICES ASSUME ~reorged', NEW s \in Senders, s \notin doubtful'
               PROVE  cache'[s] \in {None, chain_nonce'[s]}
    BY DEF CacheSound
  <2>1. cache_block = build.block /\ s \notin doubtful =>
          cache[s] \in {None, build.base[s]}
    BY <1>1, <1>4 DEF BuilderInv, CacheOfBuild
  <2>2. /\ cache'[s] = IF Learned(build)[s] # None THEN Learned(build)[s]
                       ELSE IF cache_block = build.block THEN cache[s]
                       ELSE None
        /\ chain_nonce'[s] = StateNonce(build, s)
    BY <1>4
  <2>3. CASE Learned(build)[s] # None
    <3>1. ~(s \in build.unfunded /\ build.sorting[s] = None)
      BY <1>4, <2>3
    <3> QED
      BY <1>5, <2>2, <2>3, <3>1
  <2>4. CASE Learned(build)[s] = None
    <3>1. cache_block = build.block => s \notin doubtful
      BY <1>4, <2>4
    <3> QED
      BY <1>5, <2>1, <2>2, <2>4, <3>1
  <2> QED
    BY <2>3, <2>4
<1>9. CacheOfBuild'
  BY <1>2 DEF CacheOfBuild
<1>10. TypeOK'
  BY <1>1, <1>2, <1>3, <1>4, <1>6, <1>7 DEF TypeOK
<1>11. cache_block' <= parent' + 1
  BY <1>1, <1>4
<1> QED
  BY <1>2, <1>3, <1>8, <1>9, <1>10, <1>11 DEF BuilderInv

LEMMA SanityCheckStep == Inv /\ SanityCheck => Inv'
<1> SUFFICES ASSUME Inv, SanityCheck PROVE Inv'
  OBVIOUS
<1> USE DEF Inv
<1>1. /\ UNCHANGED <<pool, cache_block, build, sims, parent, chain_nonce>>
      /\ cache' = NoNonces /\ reorged' = FALSE /\ doubtful' = {}
  BY DEF SanityCheck, ClearNonces, chainVars
<1>2. CacheOfBuild' /\ CacheSound' /\ cache' \in Nonces
  BY <1>1 DEF CacheSound, CacheOfBuild, NoNonces, Nonces
<1> QED
  BY <1>1, <1>2 DEF TypeOK, BuilderInv

LEMMA ChainStep == Inv /\ (PeerBlock \/ Reorg) => Inv'
<1> SUFFICES ASSUME Inv, PeerBlock \/ Reorg PROVE Inv'
  OBVIOUS
<1> USE DEF Inv
<1>1. UNCHANGED <<pool, cache, cache_block, doubtful, build, sims>>
  BY DEF PeerBlock, Reorg, poolVars
<1>2. CASE PeerBlock
  <2>1. /\ parent' = parent + 1 /\ parent \in Nat /\ cache_block \in Nat
        /\ chain_nonce' \in [Senders -> Nat] /\ UNCHANGED reorged
    BY <1>2 DEF PeerBlock, TypeOK, poolVars
  <2>2. CacheSound' /\ CacheOfBuild'
    BY <1>1, <2>1
       DEF BuilderInv, CacheSound, CacheOfBuild, ValidParent, NoNonces
  <2> QED
    BY <1>1, <2>1, <2>2 DEF TypeOK, BuilderInv
<1>3. CASE Reorg
  <2>1. parent' \in Nat /\ reorged' = TRUE
    BY <1>3 DEF Reorg, TypeOK
  <2>2. chain_nonce' \in [Senders -> Nat]
    <3>1. PICK lost \in [Senders -> 0 .. MaxBlock] :
            chain_nonce' = [s \in Senders |-> chain_nonce[s] - lost[s]]
      BY <1>3 DEF Reorg
    <3>2. \A s \in Senders : chain_nonce'[s] >= 0
      BY <1>3 DEF Reorg
    <3>3. \A s \in Senders : chain_nonce[s] \in Nat /\ lost[s] \in Nat
      BY BuilderBounds DEF TypeOK
    <3> QED
      BY <3>1, <3>2, <3>3
  <2> QED
    BY <1>1, <2>1, <2>2 DEF TypeOK, BuilderInv, CacheSound, CacheOfBuild
<1> QED
  BY <1>2, <1>3

-----------------------------------------------------------------------------
(* The invariant, and the properties it implies.                           *)
LEMMA BuilderInvariant == Spec => []Inv
<1>1. Init => Inv
  <2> SUFFICES ASSUME Init PROVE Inv
    OBVIOUS
  <2>1. TypeOK
    BY DEF Init, TypeOK, NoNonces, Nonces
  <2>2. CacheSound /\ CacheOfBuild
    BY DEF Init, CacheSound, CacheOfBuild, NoNonces
  <2>3. IsFiniteSet(pool) /\ IsFiniteSet(sims)
    BY FS_EmptySet DEF Init
  <2>4. build = None /\ sims = {} /\ cache = NoNonces
    BY DEF Init
  <2> QED
    BY <2>1, <2>2, <2>3, <2>4 DEF Inv, BuilderInv
<1>2. Inv /\ [Next]_vars => Inv'
  <2> SUFFICES ASSUME Inv, [Next]_vars PROVE Inv'
    OBVIOUS
  <2>1. CASE UNCHANGED vars
    BY <2>1 DEF vars, Inv, TypeOK, BuilderInv, CacheSound, CacheOfBuild,
                ValidParent
  <2>2. CASE Next
    BY <2>2, FetchTxStep, HandleSimStep, SanityCheckStep, StartBuildStep,
       SimNextBatchStep, LostBuildStep, SealBlockStep, ChainStep DEF Next
  <2> QED
    BY <2>1, <2>2
<1> QED
  BY <1>1, <1>2, PTL DEF Spec

(* Every variable keeps its type, in_flight among them, which is unsigned. *)
THEOREM BuilderTypes == Spec => []TypeOK
BY BuilderInvariant, PTL DEF Inv

(* Whatever the simulator answers, late, in any order or never, the orders *)
(* of each sender in the block use its nonces one by one from the one it   *)
(* has on the parent's state.                                              *)
THEOREM BlocksExecutable == Spec => []BlockExecutable
<1>1. Inv => BlockExecutable
  BY DEF Inv, BuilderInv, Building, Executable, BlockExecutable
<1> QED
  BY <1>1, BuilderInvariant, PTL

(* in_flight_sims counts the answers still to come for the current state.  *)
THEOREM InFlightCounts == Spec => []InFlightExact
<1>1. Inv => InFlightExact
  BY DEF Inv, BuilderInv, Building, InFlight, InFlightExact
<1> QED
  BY <1>1, BuilderInvariant, PTL

(* A build that waits for orders has none left to do, to apply or to hear  *)
(* of.                                                                     *)
THEOREM WakesUpForOrders == Spec => []NoLostWakeUp
<1>1. Inv => NoLostWakeUp
  BY DEF Inv, BuilderInv, Building, Asleep, NoLostWakeUp
<1> QED
  BY <1>1, BuilderInvariant, PTL

(* The pool's cache, where it holds for the next block, tells the account  *)
(* nonces of the parent's state, until a reorg, and except of an account   *)
(* refused for funds at another nonce (sorting.rs:270).                    *)
THEOREM CacheIsSound == Spec => []CacheSound
BY BuilderInvariant, PTL DEF Inv, BuilderInv

(* No order leaves the pool but for one with its nonce, or when the chain  *)
(* has used it, or the account is one of sorting.rs:270: refused for funds *)
(* at another nonce.                                                       *)
THEOREM OrdersKept == Spec => PoolKeepsOrders
<1> DEFINE Keeps ==
      \A o \in pool \ pool' :
        \/ \E p \in pool' : p.sender = o.sender /\ p.nonce = o.nonce
        \/ o.nonce < chain_nonce'[o.sender]
        \/ o.sender \in doubtful'
<1>1. ASSUME Inv, [Next]_vars PROVE Keeps
  <2>1. CASE UNCHANGED pool
    BY <2>1
  <2>2. CASE FetchTx
    <3>1. PICK o \in Orders : pool' = IF Refused(o) THEN pool ELSE Put(pool, o)
      BY <2>2 DEF FetchTx
    <3> QED
      BY <1>1, <3>1, PutOrder DEF Inv, TypeOK
  <2>3. CASE SealBlock
    <3>1. build \in SortData /\ Building(build, sims)
      BY <1>1, <2>3, BuildType DEF Inv, SealBlock, BuilderInv
    <3>2. /\ pool' = Forward(pool, Learned(build))
          /\ chain_nonce' = [s \in Senders |-> StateNonce(build, s)]
          /\ \A s \in Senders \ doubtful' :
               Learned(build)[s] # None =>
                 ~(s \in build.unfunded /\ build.sorting[s] = None)
      BY <2>3 DEF SealBlock
    <3> SUFFICES ASSUME NEW o \in pool \ pool', o.sender \notin doubtful'
                 PROVE  o.nonce < chain_nonce'[o.sender]
      OBVIOUS
    <3>3. o.sender \in Senders /\ o.nonce \in Nat
      BY <1>1, OrderType DEF Inv, TypeOK
    <3>4. /\ Learned(build)[o.sender] # None
          /\ ~(o.nonce >= Learned(build)[o.sender])
      BY <3>2 DEF Forward
    <3>5. /\ Learned(build)[o.sender] = StateNonce(build, o.sender)
          /\ StateNonce(build, o.sender) \in Nat
      BY <3>1, <3>2, <3>3, <3>4, LearnedOfState
    <3> QED
      BY <3>2, <3>3, <3>4, <3>5
  <2> QED
    BY <1>1, <2>1, <2>2, <2>3
       DEF Next, vars, HandleSim, SanityCheck, StartBuild, SimNextBatch,
           DiscardBlock, SealRefused, PeerBlock, Reorg, poolVars
<1>2. Inv /\ [Next]_vars => [Keeps]_vars
  BY <1>1
<1>3. Spec => [][Keeps]_vars
  BY <1>2, BuilderInvariant, PTL DEF Spec
<1> QED
  BY <1>3 DEF PoolKeepsOrders

=============================================================================
