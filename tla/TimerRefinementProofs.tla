----------------------- MODULE TimerRefinementProofs -----------------------
(***************************************************************************)
(* Proof that the timer manager implements TimerLife, for every set of     *)
(* timers and any number of Start calls.  The inductive invariant of       *)
(* TimerManagerProofs places every entry; the mapping needs in addition    *)
(* that the two lists of a tick are disjoint (Apart), so that a            *)
(* retransmission callback is never made for an entry that is due or has   *)
(* fired.                                                                  *)
(***************************************************************************)
EXTENDS TimerRefinement, TimerManagerProofs

(* Whoever the retransmission loop has still to deal with has not expired. *)
Apart ==
    \A g \in 1 .. alloc : g \in retx \/ calling = g => g \notin expired /\ expCalls[g] = 0

(* Apart holds initially. *)
LEMMA InitApart == Init => Apart
  BY DEF Init, Apart

(* Every step keeps it: Collect lists an entry once, and the expiry loop   *)
(* runs after the retransmission loop.                                     *)
LEMMA NextApart == IInv /\ Apart /\ [Next]_vars => Apart'
  <1> SUFFICES ASSUME IInv, Apart, [Next]_vars PROVE Apart'
    OBVIOUS
  <1> USE DEF Apart
  <1>t. /\ alloc \in Nat /\ retx \subseteq 1 .. alloc /\ calling \in 0 .. alloc
        /\ expired \subseteq 1 .. alloc
    BY ConstantsAssumption DEF IInv, TypeOK
  <1>1. ASSUME NEW n \in Names, NEW u \in UEs, Start(n, u) PROVE Apart'
    <2>1. alloc' = alloc + 1 /\ UNCHANGED <<retx, calling, expired, expCalls>>
      BY <1>1 DEF Start, history
    <2>2. \A g \in 1 .. alloc' : g \in retx \/ calling = g => g \in 1 .. alloc
      BY <1>t, <2>1
    <2> QED
      BY <2>1, <2>2
  <1>2. ASSUME NEW n \in Names, NEW u \in UEs, Cancel(n, u) PROVE Apart'
    BY <1>2 DEF Cancel, history
  <1>3. ASSUME NEW u \in UEs, CancelAllForUE(u) PROVE Apart'
    BY <1>3 DEF CancelAllForUE, history
  <1>4. ASSUME StartManager \/ StopManager \/ Exit \/ Advance PROVE Apart'
    BY <1>4 DEF StartManager, StopManager, Exit, Advance, history
  <1>5. CASE Collect
    <2>1. ToRetransmit \cap ToExpire = {}
      BY DEF ToRetransmit, ToExpire, Expires
    <2>2. \A g \in ToRetransmit : expCalls[g] = 0
      BY DEF ToRetransmit, Mapped, Live, IInv, Place
    <2>3. /\ retx' = ToRetransmit /\ expired' = ToExpire /\ calling' = 0
          /\ alloc' = alloc /\ expCalls' = expCalls
      BY <1>5 DEF Collect, BetweenTicks, Nil, history
    <2> QED
      BY <1>t, <2>1, <2>2, <2>3
  <1>6. ASSUME NEW g \in Gens, RetxCheck(g) PROVE Apart'
    BY <1>6, <1>t DEF RetxCheck, Nil, history
  <1>7. CASE RetxCall
    BY <1>7, <1>t DEF RetxCall, Nil
  <1>8. ASSUME NEW g \in Gens, Expire(g) PROVE Apart'
    <2>1. retx' = {} /\ calling' = 0 /\ alloc' = alloc
      BY <1>8 DEF Expire, Nil
    <2> QED
      BY <1>t, <2>1
  <1>9. CASE UNCHANGED vars
    BY <1>9 DEF vars
  <1> QED
    BY <1>1, <1>2, <1>3, <1>4, <1>5, <1>6, <1>7, <1>8, <1>9 DEF Next, TickStep
-----------------------------------------------------------------------------
(* The phases of the entries, as the refinement mapping sees them. *)
Phase == [g \in Gens |-> PhaseOf(g)]

(* The phase of an entry, condition by condition. *)
LEMMA PhaseCases ==
    ASSUME IInv, NEW g \in Gens
    PROVE  /\ Phase[g] = "unused" <=> g > alloc
           /\ Phase[g] = "fired" <=> g \leq alloc /\ expCalls[g] > 0
           /\ Phase[g] = "cancelled" <=> g \leq alloc /\ expCalls[g] = 0 /\ g \in cancelled
           /\ Phase[g] = "due" <=>
                 g \leq alloc /\ expCalls[g] = 0 /\ g \notin cancelled /\ g \in expired
           /\ Phase[g] = "armed" <=>
                 g \leq alloc /\ expCalls[g] = 0 /\ g \notin cancelled /\ g \notin expired
           /\ Phase[g] \in Life!Phases
  <1>1. g \in Nat /\ alloc \in Nat /\ expCalls[g] \in Nat
    BY ConstantsAssumption DEF IInv, TypeOK, Gens
  <1>2. Phase[g] = PhaseOf(g)
    BY DEF Phase
  <1>3. PhaseOf(g) = IF g > alloc THEN "unused"
                     ELSE IF expCalls[g] > 0 THEN "fired"
                     ELSE IF g \in cancelled THEN "cancelled"
                     ELSE IF g \in expired THEN "due" ELSE "armed"
    BY <1>1 DEF PhaseOf
  <1> QED
    BY <1>1, <1>2, <1>3 DEF Life!Phases

(* A step that touches neither alloc, the marks, the expired list nor the  *)
(* expiry calls leaves every phase as it is.                               *)
LEMMA PhaseStays ==
    ASSUME UNCHANGED <<alloc, cancelled, expired, expCalls>>
    PROVE  Phase' = Phase
  BY DEF Phase, PhaseOf

(* An entry that the map holds is armed. *)
LEMMA MappedArmed ==
    ASSUME IInv, NEW k \in Keys, timers[k] # Nil
    PROVE  timers[k] \in Gens /\ timers[k] \in 1 .. alloc /\ Phase[timers[k]] = "armed"
  <1>1. timers[k] \in 1 .. alloc /\ timers[k] \in Gens /\ alloc \in Nat
    BY ConstantsAssumption DEF IInv, TypeOK, Gens, Nil
  <1>2. timers[k] \notin cancelled /\ timers[k] \notin expired /\ expCalls[timers[k]] = 0
    BY DEF IInv, Place
  <1> QED
    BY <1>1, <1>2, PhaseCases

(* Cancelling a set of keys, and the rest left alone, is Disarm. *)
LEMMA CancelKeysDisarm ==
    ASSUME IInv, IInv', NEW K, K \subseteq Keys, \E k \in K : timers[k] # Nil,
           cancelled' = MarkCancelled(K),
           UNCHANGED <<alloc, expired, retxCalls, lateCalls, expCalls>>
    PROVE  Life!Disarm
  <1> DEFINE S == {timers[k] : k \in K} \ {Nil}
  <1>1. \A g \in S : g \in Gens /\ g \in 1 .. alloc /\ Phase[g] = "armed"
    BY MappedArmed
  <1>2. S # {}
    OBVIOUS
  <1>3. cancelled' = cancelled \cup S
    BY DEF MarkCancelled
  <1> HIDE DEF S
  <1>4. ASSUME NEW g \in Gens
        PROVE  Phase'[g] = IF g \in S THEN "cancelled" ELSE Phase[g]
    <2>1. alloc \in Nat /\ g \in Nat
      BY ConstantsAssumption DEF IInv, TypeOK, Gens
    <2>2. g \in S => g \leq alloc /\ expCalls[g] = 0
      BY <1>1, <2>1, PhaseCases
    <2>3. CASE g \in S
      BY <1>3, <2>2, <2>3 DEF Phase, PhaseOf
    <2>4. CASE g \notin S
      BY <1>3, <2>4 DEF Phase, PhaseOf
    <2> QED
      BY <2>3, <2>4
  <1>5. Phase' = [g \in Gens |-> IF g \in S THEN "cancelled" ELSE Phase[g]]
    BY <1>4 DEF Phase
  <1>6. S \subseteq {g \in Gens : Phase[g] = "armed"}
    BY <1>1
  <1> QED
    BY <1>2, <1>5, <1>6 DEF Life!Disarm, Life!Armed, Life!Move, Phase

(* Start is Arm: the new call is armed, the entry it replaces cancelled. *)
LEMMA StartArms ==
    ASSUME IInv, NEW n \in Names, NEW u \in UEs, Start(n, u)
    PROVE  Life!Arm
  <1> DEFINE c == alloc + 1
             S == {timers[<<n, u>>]} \ {Nil}
  <1>t. alloc \in Nat /\ c \in Gens /\ <<n, u>> \in Keys
    BY ConstantsAssumption DEF IInv, TypeOK, Gens, Start, Keys
  <1>1. \A g \in S : g \in Gens /\ g \in 1 .. alloc /\ Phase[g] = "armed"
    BY <1>t, MappedArmed
  <1>2. \A a, b \in S : a = b
    OBVIOUS
  <1>3. /\ cancelled' = cancelled \cup S /\ alloc' = c
        /\ UNCHANGED <<expired, retxCalls, lateCalls, expCalls>>
    BY DEF Start, MarkCancelled, history
  <1> HIDE DEF S
  <1>4. Phase[c] = "unused" /\ expCalls[c] = 0 /\ c \notin cancelled /\ c \notin expired /\ c \notin S
    <2>1. c > alloc
      BY <1>t
    <2>2. cancelled \subseteq 1 .. alloc /\ expired \subseteq 1 .. alloc
      BY DEF IInv, TypeOK
    <2> QED
      BY <1>1, <1>t, <2>1, <2>2, PhaseCases DEF IInv, Unborn
  <1>5. ASSUME NEW g \in Gens
        PROVE  Phase'[g] = IF g = c THEN "armed" ELSE IF g \in S THEN "cancelled" ELSE Phase[g]
    <2>1. g \in Nat
      BY ConstantsAssumption DEF Gens
    <2>2. Phase'[g] = IF g > c THEN "unused"
                      ELSE IF expCalls[g] > 0 THEN "fired"
                      ELSE IF g \in cancelled \cup S THEN "cancelled"
                      ELSE IF g \in expired THEN "due" ELSE "armed"
      <3>1. expCalls[g] \in Nat
        BY DEF IInv, TypeOK
      <3> QED
        BY <1>3, <1>t, <2>1, <3>1 DEF Phase, PhaseOf
    <2>3. CASE g = c
      BY <1>4, <1>t, <2>2, <2>3
    <2>4. CASE g # c /\ g \in S
      <3>1. g \leq alloc /\ expCalls[g] = 0
        BY <1>1, <2>1, <2>4, PhaseCases
      <3> QED
        BY <1>t, <2>1, <2>2, <2>4, <3>1
    <2>5. CASE g # c /\ g \notin S
      <3>1. g > c <=> g > alloc
        BY <1>t, <2>1, <2>5
      <3>2. expCalls[g] \in Nat
        BY DEF IInv, TypeOK
      <3> QED
        BY <1>t, <2>1, <2>2, <2>5, <3>1, <3>2 DEF Phase, PhaseOf
    <2> QED
      BY <2>3, <2>4, <2>5
  <1> HIDE DEF c
  <1>6. Phase' = [[g \in Gens |-> IF g \in S THEN "cancelled" ELSE Phase[g]] EXCEPT ![c] = "armed"]
    BY <1>5, <1>t DEF Phase
  <1>7. S \subseteq {g \in Gens : Phase[g] = "armed"}
    BY <1>1
  <1> QED
    BY <1>2, <1>3, <1>4, <1>6, <1>7, <1>t DEF Life!Arm, Life!Armed, Life!Move, Phase

(* The locked part of a tick is ComeDue of what it lists as expired. *)
LEMMA CollectComesDue ==
    ASSUME IInv, Collect
    PROVE  Life!ComeDue \/ UNCHANGED Life!lifeVars
  <1>1. \A g \in ToExpire : g \in Gens /\ g \in 1 .. alloc /\ Phase[g] = "armed"
    BY MappedArmed DEF ToExpire, Mapped, Live
  <1>2. /\ expired = {} /\ expired' = ToExpire
        /\ UNCHANGED <<alloc, cancelled, retxCalls, lateCalls, expCalls>>
    BY DEF Collect, BetweenTicks, history
  <1>3. ASSUME NEW g \in Gens
        PROVE  Phase'[g] = IF g \in ToExpire THEN "due" ELSE Phase[g]
    <2>1. alloc \in Nat /\ g \in Nat /\ expCalls[g] \in Nat
      BY ConstantsAssumption DEF IInv, TypeOK, Gens
    <2>2. g \in ToExpire => g \leq alloc /\ expCalls[g] = 0 /\ g \notin cancelled
      BY <1>1, <2>1, PhaseCases
    <2>3. Phase'[g] = IF g > alloc THEN "unused"
                      ELSE IF expCalls[g] > 0 THEN "fired"
                      ELSE IF g \in cancelled THEN "cancelled"
                      ELSE IF g \in ToExpire THEN "due" ELSE "armed"
      BY <1>2, <2>1 DEF Phase, PhaseOf
    <2>4. Phase[g] = IF g > alloc THEN "unused"
                     ELSE IF expCalls[g] > 0 THEN "fired"
                     ELSE IF g \in cancelled THEN "cancelled" ELSE "armed"
      BY <1>2, <2>1 DEF Phase, PhaseOf
    <2> QED
      BY <2>1, <2>2, <2>3, <2>4
  <1>4. Phase' = [g \in Gens |-> IF g \in ToExpire THEN "due" ELSE Phase[g]]
    BY <1>3 DEF Phase
  <1>5. CASE ToExpire = {}
    <2>1. Phase' = Phase
      BY <1>4, <1>5 DEF Phase
    <2> QED
      BY <1>2, <2>1 DEF Life!lifeVars, Phase
  <1>6. CASE ToExpire # {}
    <2>1. ToExpire \subseteq {g \in Gens : Phase[g] = "armed"}
      BY <1>1
    <2> QED
      BY <1>2, <1>4, <1>6, <2>1 DEF Life!ComeDue, Life!Armed, Life!Move, Phase
  <1> QED
    BY <1>5, <1>6

(* An expiry callback is Fire. *)
LEMMA ExpireFires ==
    ASSUME IInv, NEW g \in Gens, Expire(g)
    PROVE  Life!Fire(g)
  <1>1. /\ g \in expired /\ g \notin cancelled /\ expired' = expired \ {g}
        /\ expCalls' = [expCalls EXCEPT ![g] = @ + 1]
        /\ UNCHANGED <<alloc, cancelled, retxCalls, lateCalls>>
    BY DEF Expire, IInv, Place
  <1>2. /\ alloc \in Nat /\ g \in Nat /\ g \leq alloc /\ expCalls[g] = 0
        /\ expCalls \in [Gens -> Nat]
    BY <1>1, ConstantsAssumption DEF IInv, TypeOK, Place, Gens
  <1>3. Phase[g] = "due"
    BY <1>1, <1>2, PhaseCases
  <1>4. ASSUME NEW h \in Gens
        PROVE  Phase'[h] = IF h = g THEN "fired" ELSE Phase[h]
    <2>1. CASE h = g
      BY <1>1, <1>2, <2>1 DEF Phase, PhaseOf
    <2>2. CASE h # g
      BY <1>1, <1>2, <2>2 DEF Phase, PhaseOf
    <2> QED
      BY <2>1, <2>2
  <1>5. Phase' = [Phase EXCEPT ![g] = "fired"]
    BY <1>4 DEF Phase
  <1> QED
    BY <1>1, <1>3, <1>5 DEF Life!Fire, Phase

(* A retransmission callback is Resend, late at most once. *)
LEMMA RetxCallResends ==
    ASSUME IInv, Apart, RetxCall
    PROVE  calling \in Gens /\ Life!Resend(calling)
  <1>1. /\ calling # 0 /\ retxCalls' = [retxCalls EXCEPT ![calling] = @ + 1]
        /\ lateCalls' = [lateCalls EXCEPT ![calling] = IF calling \in cancelled THEN @ + 1 ELSE @]
        /\ UNCHANGED <<alloc, cancelled, expired, expCalls>>
    BY DEF RetxCall, Nil
  <1>2. /\ calling \in 1 .. alloc /\ calling \in Gens /\ alloc \in Nat
        /\ lateCalls \in [Gens -> Nat]
    BY <1>1, ConstantsAssumption DEF IInv, TypeOK, Gens
  <1>3. calling \notin expired /\ expCalls[calling] = 0
    BY <1>2 DEF Apart
  <1>4. Phase[calling] = IF calling \in cancelled THEN "cancelled" ELSE "armed"
    BY <1>2, <1>3, PhaseCases
  <1>5. lateCalls[calling] = 0
    BY <1>2 DEF IInv, Late
  <1>6. lateCalls' = IF calling \in cancelled THEN [lateCalls EXCEPT ![calling] = 1] ELSE lateCalls
    <2>1. CASE calling \in cancelled
      BY <1>1, <1>2, <1>5, <2>1
    <2>2. CASE calling \notin cancelled
      <3>1. lateCalls' = [lateCalls EXCEPT ![calling] = lateCalls[calling]]
        BY <1>1, <2>2
      <3> QED
        BY <1>2, <2>2, <3>1
    <2> QED
      BY <2>1, <2>2
  <1>7. Phase' = Phase
    BY <1>1, PhaseStays
  <1> QED
    BY <1>1, <1>2, <1>4, <1>5, <1>6, <1>7 DEF Life!Resend, Phase

(* Every step of the manager is a step of the abstract timer or none. *)
LEMMA NextImplements ==
    ASSUME IInv, IInv', Apart, [Next]_vars
    PROVE  [Life!LifeNext]_Life!lifeVars
  <1>1. ASSUME NEW n \in Names, NEW u \in UEs, Start(n, u) PROVE Life!LifeNext
    BY <1>1, StartArms DEF Life!LifeNext
  <1>2. ASSUME NEW n \in Names, NEW u \in UEs, Cancel(n, u) PROVE Life!LifeNext
    <2>1. {<<n, u>>} \subseteq Keys /\ \E k \in {<<n, u>>} : timers[k] # Nil
      BY <1>2 DEF Cancel, Keys
    <2> QED
      BY <1>2, <2>1, CancelKeysDisarm DEF Cancel, history, Life!LifeNext
  <1>3. ASSUME NEW u \in UEs, CancelAllForUE(u) PROVE Life!LifeNext
    <2> DEFINE K == {k \in Keys : k[2] = u}
    <2>1. /\ K \subseteq Keys /\ \E k \in K : timers[k] # Nil
          /\ cancelled' = MarkCancelled(K)
          /\ UNCHANGED <<alloc, expired, retxCalls, lateCalls, expCalls>>
      BY <1>3 DEF CancelAllForUE, history
    <2> HIDE DEF K
    <2> QED
      BY <2>1, CancelKeysDisarm DEF Life!LifeNext
  <1>4. ASSUME UNCHANGED <<alloc, cancelled, expired, retxCalls, lateCalls, expCalls>>
        PROVE  UNCHANGED Life!lifeVars
    BY <1>4, PhaseStays DEF Life!lifeVars, Phase
  <1>5. CASE StartManager \/ StopManager \/ Exit \/ Advance \/ UNCHANGED vars
    BY <1>4, <1>5 DEF StartManager, StopManager, Exit, Advance, vars, history
  <1>6. ASSUME NEW g \in Gens, RetxCheck(g) PROVE UNCHANGED Life!lifeVars
    BY <1>4, <1>6 DEF RetxCheck, history
  <1>7. CASE Collect
    BY <1>7, CollectComesDue DEF Life!LifeNext
  <1>8. CASE RetxCall
    BY <1>8, RetxCallResends DEF Life!LifeNext
  <1>9. ASSUME NEW g \in Gens, Expire(g) PROVE Life!LifeNext
    BY <1>9, ExpireFires DEF Life!LifeNext
  <1> QED
    BY <1>1, <1>2, <1>3, <1>5, <1>6, <1>7, <1>8, <1>9 DEF Next, TickStep

(* The initial state maps to the abstract timer's. *)
LEMMA InitImplements == Init => Life!LifeInit
  <1> SUFFICES ASSUME Init PROVE Life!LifeInit
    OBVIOUS
  <1>1. \A g \in Gens : g > alloc
    BY ConstantsAssumption DEF Init, Gens
  <1>2. \A g \in Gens : Phase[g] = "unused"
    BY <1>1, InitIInv, PhaseCases
  <1>3. Phase = [g \in Gens |-> "unused"]
    BY <1>2 DEF Phase
  <1> QED
    BY <1>3 DEF Init, Life!LifeInit, Phase

(* The manager implements the life of a timer, for every set of timers and *)
(* UEs and every interleaving of Start, Cancel and CancelAllForUE with the *)
(* locked and the unlocked parts of a tick.                                *)
THEOREM Implementation == Spec => ImplementsLife
  <1>1. Spec => [](IInv /\ Apart)
    BY InitIInv, NextIInv, InitApart, NextApart, PTL DEF Spec
  <1>2. IInv /\ IInv' /\ Apart /\ [Next]_vars => [Life!LifeNext]_Life!lifeVars
    BY NextImplements
  <1> QED
    BY <1>1, <1>2, InitImplements, PTL DEF Spec, ImplementsLife, Life!LifeSpec
=============================================================================
