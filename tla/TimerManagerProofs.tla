------------------------- MODULE TimerManagerProofs -------------------------
(***************************************************************************)
(* Proofs about the timer manager for every set of timers, every duration  *)
(* and any number of Start calls.  Neither AnsweredOnce nor CancelWins is  *)
(* inductive: both rest on where an entry can be at one time.  An entry in *)
(* the map is neither cancelled nor listed as expired (Place), and the     *)
(* retransmissions that were or will be made for it are bounded by its     *)
(* retransmitCount (Counted).                                              *)
(***************************************************************************)
EXTENDS TimerManager, TLAPS

(* An entry is in the map under its own key, or cancelled, or expired. *)
Place ==
    /\ \A k \in Keys : timers[k] # Nil =>
          /\ entry[timers[k]].key = k
          /\ timers[k] \notin cancelled
          /\ timers[k] \notin expired
          /\ expCalls[timers[k]] = 0
    /\ \A g \in expired : g \notin cancelled /\ expCalls[g] = 0
    /\ \A g \in cancelled : expCalls[g] = 0
    /\ \A g \in 1 .. alloc : expCalls[g] \leq 1

(* Retransmissions that the current tick has still to make for g. *)
Owed(g) == (IF g \in retx THEN 1 ELSE 0) + (IF calling = g THEN 1 ELSE 0)

Counted ==
    \A g \in 1 .. alloc :
        /\ retxCalls[g] + Owed(g) \leq entry[g].count
        /\ entry[g].count \leq MaxRetx[entry[g].key[1]]
        /\ g \in retx => calling # g

(* Only a test that came before the cancellation can make a late call. *)
Late ==
    \A g \in 1 .. alloc :
        /\ g \notin cancelled => lateCalls[g] = 0
        /\ lateCalls[g] \leq 1
        /\ lateCalls[g] = 1 => calling # g

Unborn == \A g \in Gens : g > alloc => retxCalls[g] = 0 /\ lateCalls[g] = 0 /\ expCalls[g] = 0

IInv == TypeOK /\ Place /\ Counted /\ Late /\ Unborn
-----------------------------------------------------------------------------
(* The initial state, where nothing was started, satisfies IInv. *)
LEMMA InitIInv == Init => IInv
  <1> SUFFICES ASSUME Init PROVE IInv
    OBVIOUS
  <1> USE ConstantsAssumption
  <1>1. TypeOK
    BY DEF Init, TypeOK, Gens, Nil, Entries
  <1>2. Place
    BY DEF Init, Place, Nil
  <1>3. Counted /\ Late /\ Unborn
    BY DEF Init, Counted, Late, Unborn, Gens
  <1> QED
    BY <1>1, <1>2, <1>3 DEF IInv

(* Start, by any goroutine, keeps IInv: the entry it replaces was neither  *)
(* expired nor listed, and the new one is not known to anybody else.       *)
LEMMA StartIInv ==
    ASSUME IInv, NEW n \in Names, NEW u \in UEs, Start(n, u)
    PROVE  IInv'
  <1> USE ConstantsAssumption
  <1> USE DEF IInv, Nil
  <1>0. <<n, u>> \in Keys /\ alloc + 1 \in Gens /\ alloc \in Nat
    BY DEF Start, Keys, TypeOK, Gens
  <1>1. TypeOK'
    <2>1. alloc' \in 0 .. MaxStarts /\ 1 .. alloc \subseteq 1 .. alloc' /\ 0 .. alloc \subseteq 0 .. alloc'
      BY <1>0 DEF Start, TypeOK
    <2>2. NewEntry(n, u) \in Entries
      BY <1>0 DEF NewEntry, Entries
    <2>3. entry' \in [1 .. alloc' -> Entries]
      BY <1>0, <2>2 DEF Start, TypeOK
    <2>4. timers' \in [Keys -> 0 .. alloc']
      BY <1>0, <2>1 DEF Start, TypeOK
    <2>5. timers[<<n, u>>] \in 0 .. alloc
      BY <1>0 DEF TypeOK
    <2>6. cancelled' = cancelled \cup ({timers[<<n, u>>]} \ {Nil})
      BY <1>0 DEF Start, MarkCancelled
    <2>7. ASSUME NEW g \in cancelled' PROVE g \in 1 .. alloc'
      <3>1. g \in cancelled \/ (g = timers[<<n, u>>] /\ g # 0)
        BY <2>6
      <3>2. g \in 1 .. alloc
        <4>1. cancelled \subseteq 1 .. alloc
          BY DEF TypeOK
        <4>2. CASE g \in cancelled
          BY <4>1, <4>2
        <4>3. CASE g = timers[<<n, u>>] /\ g # 0
          BY <1>0, <2>5, <4>3
        <4> QED
          BY <3>1, <4>2, <4>3
      <3> QED
        BY <2>1, <3>2
    <2>8. cancelled' \subseteq 1 .. alloc'
      BY <2>7
    <2> QED
      BY <2>1, <2>3, <2>4, <2>8 DEF Start, TypeOK, history
  <1>2. Place'
    <2>1. ASSUME NEW k \in Keys, timers'[k] # Nil
          PROVE  /\ entry'[timers'[k]].key = k
                 /\ timers'[k] \notin cancelled'
                 /\ timers'[k] \notin expired'
                 /\ expCalls'[timers'[k]] = 0
      <3>1. CASE k = <<n, u>>
        <4>1. timers'[k] = alloc + 1
          BY <1>0, <3>1 DEF Start, TypeOK
        <4>2. entry'[alloc + 1].key = k
          BY <1>0, <3>1 DEF Start, NewEntry
        <4>3. cancelled' \subseteq cancelled \cup {timers[k]} /\ expired' = expired
          BY <1>0, <3>1 DEF Start, MarkCancelled
        <4>4. cancelled \subseteq 1 .. alloc /\ expired \subseteq 1 .. alloc /\ timers[k] \in 0 .. alloc
          BY DEF TypeOK
        <4>5. alloc + 1 \notin cancelled' /\ alloc + 1 \notin expired'
          BY <1>0, <4>3, <4>4
        <4>6. expCalls'[alloc + 1] = 0
          BY <1>0 DEF Start, Unborn, history
        <4> QED
          BY <4>1, <4>2, <4>5, <4>6
      <3>2. CASE k # <<n, u>>
        BY <1>0, <2>1, <3>2 DEF Start, MarkCancelled, TypeOK, Place, history
      <3> QED
        BY <3>1, <3>2
    <2>2. \A g \in expired' : g \notin cancelled' /\ expCalls'[g] = 0
      BY <1>0 DEF Start, MarkCancelled, TypeOK, Place, history
    <2>3. \A g \in cancelled' : expCalls'[g] = 0
      BY <1>0 DEF Start, MarkCancelled, TypeOK, Place, history
    <2>4. \A g \in 1 .. alloc' : expCalls'[g] \leq 1
      <3>1. expCalls' = expCalls /\ \A g \in 1 .. alloc' : g \in 1 .. alloc \/ g = alloc + 1
        BY <1>0 DEF Start, history
      <3>2. expCalls[alloc + 1] = 0
        BY <1>0 DEF Unborn
      <3>3. \A g \in 1 .. alloc : expCalls[g] \leq 1
        BY DEF Place
      <3> QED
        BY <3>1, <3>2, <3>3
    <2> QED
      BY <2>1, <2>2, <2>3, <2>4 DEF Place
  <1>3. Counted'
    <2>1. \A g \in 1 .. alloc : entry'[g] = entry[g]
      BY <1>0 DEF Start
    <2>2. /\ entry'[alloc + 1].count = 0
          /\ entry'[alloc + 1].key[1] = n
          /\ MaxRetx[n] \in Nat
      BY <1>0 DEF Start, NewEntry
    <2>3. retxCalls'[alloc + 1] = 0 /\ alloc + 1 \notin retx' /\ calling' # alloc + 1
      BY <1>0 DEF Start, Unborn, TypeOK, history
    <2>4. retx' = retx /\ calling' = calling /\ retxCalls' = retxCalls /\ alloc' = alloc + 1
      BY DEF Start, history
    <2>5. \A g \in 1 .. alloc' : g \in 1 .. alloc \/ g = alloc + 1
      BY <1>0, <2>4
    <2> QED
      BY <2>1, <2>2, <2>3, <2>4, <2>5 DEF Counted, Owed
  <1>4. Late'
    <2>1. /\ alloc' = alloc + 1 /\ lateCalls' = lateCalls /\ calling' = calling
          /\ cancelled \subseteq cancelled'
      BY DEF Start, MarkCancelled, history
    <2>2. ASSUME NEW g \in 1 .. alloc'
          PROVE  /\ g \notin cancelled' => lateCalls'[g] = 0
                 /\ lateCalls'[g] \leq 1
                 /\ lateCalls'[g] = 1 => calling' # g
      <3>1. CASE g \in 1 .. alloc
        BY <2>1, <3>1 DEF Late
      <3>2. CASE g = alloc + 1
        BY <1>0, <2>1, <3>2 DEF Unborn
      <3> QED
        BY <1>0, <2>1, <3>1, <3>2
    <2> QED
      BY <2>2 DEF Late
  <1>5. Unborn'
    BY <1>0 DEF Start, TypeOK, Unborn, Gens, history
  <1> QED
    BY <1>1, <1>2, <1>3, <1>4, <1>5

(* Cancelling any set of keys keeps IInv: Cancel takes one key and         *)
(* CancelAllForUE all the keys of a UE.                                    *)
LEMMA CancelKeysIInv ==
    ASSUME IInv, NEW K, K \subseteq Keys,
           cancelled' = MarkCancelled(K),
           timers' = [k \in Keys |-> IF k \in K THEN Nil ELSE timers[k]],
           UNCHANGED <<entry, alloc, loop, retx, expired, calling, lag, history>>
    PROVE  IInv'
  <1> USE ConstantsAssumption
  <1> USE DEF IInv, Nil
  <1>0. /\ \A g \in cancelled' : g \in cancelled \/ \E k \in K : g = timers[k] /\ timers[k] # Nil
        /\ cancelled \subseteq cancelled'
    BY DEF MarkCancelled
  <1>1. TypeOK'
    <2>1. \A k \in K : timers[k] \in 0 .. alloc
      BY DEF TypeOK
    <2>2. ASSUME NEW g \in cancelled' PROVE g \in 1 .. alloc
      <3>1. alloc \in Nat /\ cancelled \subseteq 1 .. alloc
        BY DEF TypeOK
      <3>2. CASE g \in cancelled
        BY <3>1, <3>2
      <3>3. CASE \E k \in K : g = timers[k] /\ timers[k] # Nil
        BY <2>1, <3>1, <3>3
      <3> QED
        BY <1>0, <3>2, <3>3
    <2>3. timers' \in [Keys -> 0 .. alloc]
      BY DEF TypeOK
    <2> QED
      BY <2>2, <2>3 DEF TypeOK, history
  <1>2. Place'
    <2>1. \A k \in Keys : timers'[k] # Nil => timers'[k] = timers[k] /\ k \notin K
      OBVIOUS
    <2>2. \A k \in Keys : timers'[k] # Nil => timers[k] \notin cancelled'
      BY <1>0, <2>1 DEF Place
    <2>3. \A g \in cancelled' : g \notin expired /\ expCalls[g] = 0
      BY <1>0 DEF Place
    <2>4. entry' = entry /\ expired' = expired /\ expCalls' = expCalls /\ alloc' = alloc
      BY DEF history
    <2> QED
      BY <2>1, <2>2, <2>3, <2>4 DEF Place
  <1>3. Counted'
    BY DEF Counted, Owed, history
  <1>4. Late'
    BY DEF Late, TypeOK, MarkCancelled, history
  <1>5. Unborn'
    BY DEF Unborn, history
  <1> QED
    BY <1>1, <1>2, <1>3, <1>4, <1>5

(* The locked part of a tick keeps IInv: what it lists as expired leaves   *)
(* the map, what it lists for retransmission is counted.                   *)
LEMMA CollectIInv == IInv /\ Collect => IInv'
  <1> SUFFICES ASSUME IInv, Collect PROVE IInv'
    OBVIOUS
  <1> USE ConstantsAssumption
  <1> USE DEF IInv, Nil
  <1>1. ToRetransmit \subseteq 1 .. alloc /\ ToExpire \subseteq 1 .. alloc
    BY DEF ToRetransmit, ToExpire, Mapped, Live, TypeOK
  <1>2. \A g \in 1 .. alloc : entry[g] \in Entries /\ entry[g].key[1] \in Names
    BY DEF TypeOK, Entries, Keys
  <1>3. \A g \in 1 .. alloc :
           /\ entry'[g] \in Entries
           /\ entry'[g].key = entry[g].key
           /\ g \notin ToRetransmit => entry'[g].count = entry[g].count
           /\ g \in ToRetransmit => entry'[g].count = entry[g].count + 1
    <2> TAKE g \in 1 .. alloc
    <2>1. entry[g] = [key |-> entry[g].key, expires |-> entry[g].expires,
                      next |-> entry[g].next, count |-> entry[g].count]
          /\ entry[g].key \in Keys /\ entry[g].expires \in Nat
          /\ entry[g].next \in Nat /\ entry[g].count \in Nat
      BY <1>2 DEF Entries
    <2>2. Interval[entry[g].key[1]] \in Nat
      BY <1>2
    <2>3. CASE g \in ToRetransmit
      <3>1. entry'[g] = [entry[g] EXCEPT !.count = @ + 1, !.next = Interval[entry[g].key[1]]]
        BY <2>3 DEF Collect
      <3>2. entry'[g] = [key |-> entry[g].key, expires |-> entry[g].expires,
                         next |-> Interval[entry[g].key[1]], count |-> entry[g].count + 1]
        BY <2>1, <3>1
      <3> QED
        BY <2>1, <2>2, <2>3, <3>2 DEF Entries
    <2>4. CASE g \notin ToRetransmit
      BY <1>2, <2>4 DEF Collect
    <2> QED
      BY <2>3, <2>4
  <1>4. TypeOK'
    <2>1. entry' \in [1 .. alloc -> Entries]
      BY <1>3 DEF Collect
    <2>2. timers' \in [Keys -> 0 .. alloc]
      <3>1. /\ timers' = [k \in Keys |->
                  IF timers[k] \in ToExpire \cup cancelled THEN 0 ELSE timers[k]]
        BY DEF Collect
      <3>2. timers \in [Keys -> 0 .. alloc] /\ alloc \in Nat
        BY DEF TypeOK
      <3> QED
        BY <3>1, <3>2
    <2>3. UNCHANGED <<alloc, cancelled, loop, calling, retxCalls, lateCalls, expCalls>>
          /\ lag' = 0 /\ retx' = ToRetransmit /\ expired' = ToExpire
      BY DEF Collect, history
    <2> QED
      BY <1>1, <2>1, <2>2, <2>3 DEF TypeOK
  <1>5. Place'
    <2>1. \A k \in Keys : timers'[k] # Nil => timers'[k] = timers[k] /\ timers[k] \notin ToExpire
      BY DEF Collect, TypeOK
    <2>2. \A g \in ToExpire : g \notin cancelled /\ expCalls[g] = 0
      BY DEF ToExpire, Mapped, Live, Place
    <2>3. \A k \in Keys : timers[k] # Nil => timers[k] \in 1 .. alloc
      BY DEF TypeOK
    <2> QED
      BY <1>3, <2>1, <2>2, <2>3 DEF Collect, Place, history
  <1>6. Counted'
    <2>1. \A g \in ToRetransmit : entry[g].count < MaxRetx[entry[g].key[1]]
      BY DEF ToRetransmit, RetxDue
    <2>2. \A g \in 1 .. alloc : retxCalls[g] \in Nat /\ entry[g].count \in Nat
                                 /\ MaxRetx[entry[g].key[1]] \in Nat
      <3>1. 1 .. alloc \subseteq Gens
        BY DEF TypeOK, Gens
      <3> QED
        BY <1>2, <3>1 DEF TypeOK, Entries
    <2>3. \A g \in 1 .. alloc : retxCalls[g] \leq entry[g].count
      <3>1. \A g \in 1 .. alloc : Owed(g) = 0
        <4>1. retx = {} /\ calling = 0
          BY DEF Collect, BetweenTicks
        <4>2. alloc \in Nat
          BY DEF TypeOK
        <4> QED
          BY <4>1, <4>2 DEF Owed
      <3> QED
        BY <2>2, <3>1 DEF Counted
    <2>4. /\ retx' = ToRetransmit /\ calling' = Nil /\ retxCalls' = retxCalls /\ alloc' = alloc
      BY DEF Collect, BetweenTicks, history
    <2>5. \A g \in 1 .. alloc : g # Nil
      BY DEF TypeOK
    <2> QED
      BY <1>3, <2>1, <2>2, <2>3, <2>4, <2>5 DEF Counted, Owed
  <1>7. Late'
    BY DEF Collect, Late, BetweenTicks, history
  <1>8. Unborn'
    BY DEF Collect, Unborn, history
  <1> QED
    BY <1>4, <1>5, <1>6, <1>7, <1>8

(* The cancelled test of the retransmission loop keeps IInv: what it owes  *)
(* the entry moves from the list to the call.                              *)
LEMMA RetxCheckIInv == ASSUME IInv, NEW g \in Gens, RetxCheck(g) PROVE IInv'
  <1> USE ConstantsAssumption
  <1> USE DEF IInv, Nil
  <1>1. /\ UNCHANGED <<timers, entry, cancelled, alloc, loop, expired, lag>>
        /\ UNCHANGED <<retxCalls, lateCalls, expCalls>>
        /\ g \in retx /\ calling = 0 /\ retx' = retx \ {g}
        /\ calling' = IF g \in cancelled THEN 0 ELSE g
    BY DEF RetxCheck, history
  <1>2. g \in 1 .. alloc /\ g # 0 /\ alloc \in Nat
    BY <1>1 DEF TypeOK
  <1>3. TypeOK'
    BY <1>1, <1>2 DEF TypeOK
  <1>4. Place'
    BY <1>1 DEF Place
  <1>5. Counted'
    <2>1. ASSUME NEW h \in 1 .. alloc
          PROVE  /\ Owed(h)' \leq Owed(h)
                 /\ Owed(h) \in Nat /\ Owed(h)' \in Nat
                 /\ h \in retx' => calling' # h
      BY <1>1, <1>2 DEF Owed
    <2>2. ASSUME NEW h \in 1 .. alloc
          PROVE  retxCalls[h] \in Nat /\ entry[h].count \in Nat
      <3>1. h \in Gens /\ entry[h] \in Entries
        BY <1>2 DEF TypeOK, Gens
      <3>2. retxCalls[h] \in Nat
        BY <3>1 DEF TypeOK
      <3> QED
        BY <3>1, <3>2 DEF Entries
    <2>3. ASSUME NEW h \in 1 .. alloc
          PROVE  retxCalls[h] + Owed(h)' \leq entry[h].count
      BY <2>1, <2>2 DEF Counted
    <2> QED
      BY <1>1, <2>1, <2>3 DEF Counted
  <1>6. Late'
    BY <1>1 DEF Late
  <1>7. Unborn'
    BY <1>1 DEF Unborn
  <1> QED
    BY <1>3, <1>4, <1>5, <1>6, <1>7

(* The retransmission callback keeps IInv: the call was owed, and after a  *)
(* cancellation no further one is.                                         *)
LEMMA RetxCallIInv == IInv /\ RetxCall => IInv'
  <1> SUFFICES ASSUME IInv, RetxCall PROVE IInv'
    OBVIOUS
  <1> USE ConstantsAssumption
  <1> USE DEF IInv, Nil
  <1>1. /\ UNCHANGED <<timers, entry, cancelled, alloc, loop, retx, expired, lag, expCalls>>
        /\ calling # 0 /\ calling' = 0
        /\ retxCalls' = [retxCalls EXCEPT ![calling] = @ + 1]
        /\ lateCalls' = [lateCalls EXCEPT ![calling] = IF calling \in cancelled THEN @ + 1 ELSE @]
    BY DEF RetxCall
  <1>2. calling \in 1 .. alloc /\ calling \in Gens /\ alloc \in Nat /\ 1 .. alloc \subseteq Gens
    BY <1>1 DEF TypeOK, Gens
  <1>3. TypeOK'
    <2>1. retxCalls' \in [Gens -> Nat] /\ lateCalls' \in [Gens -> Nat]
      <3>1. /\ retxCalls \in [Gens -> Nat] /\ lateCalls \in [Gens -> Nat]
            /\ retxCalls[calling] \in Nat /\ lateCalls[calling] \in Nat
        BY <1>2 DEF TypeOK
      <3> QED
        BY <1>1, <1>2, <3>1
    <2>2. calling' \in 0 .. alloc
      BY <1>1, <1>2
    <2> QED
      BY <1>1, <2>1, <2>2 DEF TypeOK
  <1>4. Place'
    BY <1>1 DEF Place
  <1>5. Counted'
    <2>1. ASSUME NEW h \in 1 .. alloc
          PROVE  /\ retxCalls'[h] + Owed(h)' \leq entry[h].count
                 /\ h \in retx => calling' # h
      <3>1. h \in Gens /\ h # 0 /\ retxCalls[h] \in Nat /\ entry[h].count \in Nat
        BY <1>2 DEF TypeOK, Entries
      <3>2. retxCalls[h] + Owed(h) \leq entry[h].count /\ (h \in retx => calling # h)
        BY DEF Counted
      <3>3. CASE h = calling
        <4>1. retxCalls'[h] = retxCalls[h] + 1 /\ Owed(h) = 1 /\ Owed(h)' = 0
          BY <1>1, <1>2, <3>1, <3>2, <3>3 DEF Owed, TypeOK
        <4> QED
          BY <1>1, <3>1, <3>2, <4>1
      <3>4. CASE h # calling
        <4>1. retxCalls'[h] = retxCalls[h] /\ Owed(h)' = Owed(h)
          BY <1>1, <1>2, <3>1, <3>2, <3>4 DEF Owed, TypeOK
        <4> QED
          BY <1>1, <3>1, <3>2, <4>1
      <3> QED
        BY <3>3, <3>4
    <2> QED
      BY <1>1, <2>1 DEF Counted
  <1>6. Late'
    <2>1. ASSUME NEW h \in 1 .. alloc
          PROVE  /\ h \notin cancelled => lateCalls'[h] = 0
                 /\ lateCalls'[h] \leq 1
                 /\ lateCalls'[h] = 1 => calling' # h
      BY <1>1, <1>2 DEF Late, TypeOK
    <2> QED
      BY <1>1, <2>1 DEF Late
  <1>7. Unborn'
    BY <1>1, <1>2 DEF Unborn, TypeOK
  <1> QED
    BY <1>3, <1>4, <1>5, <1>6, <1>7

(* The expiry callback keeps IInv: an entry listed as expired was never    *)
(* called back before and is not in the map any more.                      *)
LEMMA ExpireIInv == ASSUME IInv, NEW g \in Gens, Expire(g) PROVE IInv'
  <1> USE ConstantsAssumption
  <1> USE DEF IInv, Nil
  <1>1. /\ UNCHANGED <<timers, entry, cancelled, alloc, loop, retx, calling, lag,
                      retxCalls, lateCalls>>
        /\ g \in expired /\ expired' = expired \ {g} /\ g \notin cancelled
        /\ expCalls' = [expCalls EXCEPT ![g] = @ + 1]
    BY DEF Expire, Place
  <1>2. /\ g \in 1 .. alloc /\ alloc \in Nat /\ 1 .. alloc \subseteq Gens
        /\ expCalls \in [Gens -> Nat] /\ expCalls[g] = 0
    BY <1>1 DEF TypeOK, Gens, Place
  <1>3. TypeOK'
    <2>1. expCalls' \in [Gens -> Nat]
      BY <1>1, <1>2
    <2>2. expired' \subseteq 1 .. alloc
      BY <1>1 DEF TypeOK
    <2> QED
      BY <1>1, <2>1, <2>2 DEF TypeOK
  <1>4. Place'
    <2>1. /\ expCalls'[g] = 1
          /\ \A h \in Gens : h # g => expCalls'[h] = expCalls[h]
      BY <1>1, <1>2
    <2>2. \A k \in Keys : timers[k] # 0 => timers[k] # g /\ timers[k] \in Gens
      BY <1>1, <1>2 DEF Place, TypeOK
    <2>3. cancelled \subseteq Gens /\ expired \subseteq Gens
      BY <1>2 DEF TypeOK
    <2> QED
      BY <1>1, <1>2, <2>1, <2>2, <2>3 DEF Place
  <1>5. Counted' /\ Late'
    BY <1>1 DEF Counted, Owed, Late
  <1>6. Unborn'
    BY <1>1, <1>2 DEF Unborn
  <1> QED
    BY <1>3, <1>4, <1>5, <1>6

(* The passage of time keeps IInv: only the times of the entries move. *)
LEMMA AdvanceIInv == IInv /\ Advance => IInv'
  <1> SUFFICES ASSUME IInv, Advance PROVE IInv'
    OBVIOUS
  <1> USE ConstantsAssumption
  <1> USE DEF IInv, Nil
  <1>1. /\ UNCHANGED <<timers, cancelled, alloc, loop, retx, expired, calling>>
        /\ UNCHANGED <<retxCalls, lateCalls, expCalls>>
        /\ lag' = IF loop # "gone" THEN lag + 1 ELSE lag
    BY DEF Advance, history
  <1>2. \A g \in 1 .. alloc :
           /\ entry'[g] \in Entries
           /\ entry'[g].key = entry[g].key
           /\ entry'[g].count = entry[g].count
    <2> TAKE g \in 1 .. alloc
    <2>1. entry[g] \in Entries
      BY DEF TypeOK
    <2>2. entry[g] = [key |-> entry[g].key, expires |-> entry[g].expires,
                      next |-> entry[g].next, count |-> entry[g].count]
          /\ entry[g].key \in Keys /\ entry[g].expires \in Nat
          /\ entry[g].next \in Nat /\ entry[g].count \in Nat
      BY <2>1 DEF Entries
    <2>3. entry'[g] = [key |-> entry[g].key,
                       expires |-> IF entry[g].expires > 0 THEN entry[g].expires - 1 ELSE 0,
                       next |-> IF entry[g].next > 0 THEN entry[g].next - 1 ELSE 0,
                       count |-> entry[g].count]
      BY <2>2 DEF Advance
    <2> QED
      BY <2>2, <2>3 DEF Entries
  <1>3. entry' \in [1 .. alloc -> Entries]
    BY <1>2 DEF Advance
  <1>4. TypeOK'
    <2>1. lag \in Nat
      BY DEF TypeOK
    <2>2. lag' \in Nat
      BY <1>1, <2>1
    <2> QED
      BY <1>1, <1>3, <2>2 DEF TypeOK
  <1>5. Place'
    <2>1. \A k \in Keys : timers[k] # 0 => timers[k] \in 1 .. alloc
      BY DEF TypeOK
    <2> QED
      BY <1>1, <1>2, <2>1 DEF Place
  <1>6. Counted'
    BY <1>1, <1>2 DEF Counted, Owed
  <1>7. Late' /\ Unborn'
    BY <1>1 DEF Late, Unborn
  <1> QED
    BY <1>4, <1>5, <1>6, <1>7

(* Every step, of whatever goroutine, keeps IInv. *)
LEMMA NextIInv == IInv /\ [Next]_vars => IInv'
  <1> SUFFICES ASSUME IInv, [Next]_vars PROVE IInv'
    OBVIOUS
  <1>1. ASSUME NEW n \in Names, NEW u \in UEs, Start(n, u) PROVE IInv'
    BY <1>1, StartIInv
  <1>2. ASSUME NEW n \in Names, NEW u \in UEs, Cancel(n, u) PROVE IInv'
    <2>1. /\ {<<n, u>>} \subseteq Keys
          /\ timers' = [k \in Keys |-> IF k \in {<<n, u>>} THEN Nil ELSE timers[k]]
      BY <1>2 DEF Cancel, Keys, IInv, TypeOK
    <2> QED
      BY <1>2, <2>1, CancelKeysIInv DEF Cancel
  <1>3. ASSUME NEW u \in UEs, CancelAllForUE(u) PROVE IInv'
    <2> DEFINE K == {k \in Keys : k[2] = u}
    <2>1. /\ K \subseteq Keys
          /\ cancelled' = MarkCancelled(K)
          /\ timers' = [k \in Keys |-> IF k \in K THEN Nil ELSE timers[k]]
          /\ UNCHANGED <<entry, alloc, loop, retx, expired, calling, lag, history>>
      BY <1>3 DEF CancelAllForUE
    <2> HIDE DEF K
    <2> QED
      BY <2>1, CancelKeysIInv
  <1>4. ASSUME StartManager \/ StopManager \/ Exit PROVE IInv'
    <2>1. /\ UNCHANGED <<timers, entry, cancelled, alloc, retx, expired, calling, lag>>
          /\ UNCHANGED <<retxCalls, lateCalls, expCalls>>
          /\ loop' \in {"running", "stopping", "gone"}
      BY <1>4 DEF StartManager, StopManager, Exit, history
    <2> QED
      BY <2>1 DEF IInv, TypeOK, Place, Counted, Owed, Late, Unborn
  <1>5. ASSUME UNCHANGED vars PROVE IInv'
    BY <1>5 DEF vars, IInv, TypeOK, Place, Counted, Owed, Late, Unborn
  <1> QED
    BY <1>1, <1>2, <1>3, <1>4, <1>5, CollectIInv, RetxCheckIInv, RetxCallIInv,
       ExpireIInv, AdvanceIInv DEF Next, TickStep
-----------------------------------------------------------------------------
(* The map, the entries and the lists of tick keep their types for any     *)
(* number of timers, UEs and calls.                                        *)
THEOREM TypeCorrect == Spec => []TypeOK
  <1>1. IInv => TypeOK
    BY DEF IInv
  <1> QED
    BY <1>1, InitIInv, NextIInv, PTL DEF Spec

(* Each Start is answered by at most one expiry callback and by at most    *)
(* MaxRetransmit retransmissions.                                          *)
THEOREM AtMostOneAnswer == Spec => []AnsweredOnce
  <1>1. IInv => AnsweredOnce
    <2> SUFFICES ASSUME IInv, NEW g \in 1 .. alloc
                 PROVE  expCalls[g] \leq 1 /\ retxCalls[g] \leq MaxRetx[entry[g].key[1]]
      BY DEF AnsweredOnce
    <2>1. /\ retxCalls[g] \in Nat /\ entry[g].count \in Nat
          /\ Owed(g) \in Nat /\ MaxRetx[entry[g].key[1]] \in Nat
      <3>0. alloc \in 0 .. MaxStarts /\ MaxStarts \in Nat
        BY ConstantsAssumption DEF IInv, TypeOK
      <3>1. g \in Gens /\ entry[g] \in Entries /\ retxCalls \in [Gens -> Nat]
        BY <3>0 DEF IInv, TypeOK, Gens
      <3>2. entry[g].count \in Nat /\ entry[g].key[1] \in Names
        BY <3>1 DEF Entries, Keys
      <3>3. Owed(g) \in Nat
        BY DEF Owed
      <3> QED
        BY <3>1, <3>2, <3>3, ConstantsAssumption
    <2> QED
      BY <2>1 DEF IInv, Place, Counted
  <1> QED
    BY <1>1, InitIInv, NextIInv, PTL DEF Spec

(* A cancellation that found its timer in the map is never followed by the *)
(* expiry callback, and by one retransmission callback at most.            *)
THEOREM CancellationWins == Spec => []CancelWins
  <1>1. IInv => CancelWins
    BY DEF IInv, TypeOK, Place, Late, CancelWins
  <1> QED
    BY <1>1, InitIInv, NextIInv, PTL DEF Spec
-----------------------------------------------------------------------------
(***************************************************************************)
(* That the retransmissions are exhausted before the expiry is a matter of *)
(* time.  Pace bounds what has passed since the Start of an entry by what  *)
(* its retransmissions account for: an interval and a late tick for each   *)
(* one made, and what has run of the interval that follows.                *)
(***************************************************************************)
Slot(n) == Interval[n] + MaxLag

Pace ==
    \A k \in Keys :
        LET e == entry[timers[k]]
            n == k[1]
        IN  timers[k] # Nil /\ loop # "gone" /\ e.count < MaxRetx[n] =>
                /\ e.next \leq Interval[n]
                /\ Duration[n] \leq e.expires + e.count * Slot(n) + (Interval[n] - e.next)
                                   + (IF e.next = 0 THEN lag ELSE 0)

(* No tick is later than MaxLag. *)
Prompt == loop # "gone" => lag \leq MaxLag

(* An entry that is listed as expired or was called back is exhausted. *)
Exhausted ==
    \A g \in 1 .. alloc :
        g \in expired \/ expCalls[g] > 0 => entry[g].count = MaxRetx[entry[g].key[1]]

(* Nothing is started before the loop runs, and nothing listed after it.   *)
Started == (loop = "new" => alloc = 0) /\ (loop = "gone" => expired = {})

CadenceInv == Pace /\ Prompt /\ Exhausted /\ Started

(* One more retransmission accounts for one more slot. *)
LEMMA OneMoreSlot ==
    ASSUME NEW c \in Nat, NEW w \in Nat
    PROVE  (c + 1) * w = c * w + w /\ 0 * w = 0
  OBVIOUS

(* Fewer retransmissions than the last account for less than the total.    *)
LEMMA FewerSlots ==
    ASSUME NEW c \in Nat, NEW r \in Nat, NEW i \in Nat, NEW m \in Nat,
           c < r, (r - 1) * m \leq i
    PROVE  c * (i + m) + i \leq i * (r + 1)
  <1>1. PICK d \in Nat : r - 1 = c + d
    <2>1. r - 1 - c \in Nat /\ r - 1 = c + (r - 1 - c)
      OBVIOUS
    <2> QED
      BY <2>1
  <1>2. r = c + d + 1
    BY <1>1
  <1>3. c * (i + m) = c * i + c * m /\ i * (r + 1) = c * i + d * i + i + i
    BY <1>2
  <1>4. (c + d) * m = c * m + d * m /\ d * m \in Nat /\ d * i \in Nat
    OBVIOUS
  <1>5. c * m + d * m \leq i
    BY <1>1, <1>4
  <1>6. c * i \in Nat /\ c * m \in Nat
    OBVIOUS
  <1> QED
    BY <1>3, <1>4, <1>5, <1>6

(* Nothing was started yet. *)
LEMMA InitCadence == Init => CadenceInv
  BY ConstantsAssumption DEF Init, CadenceInv, Pace, Prompt, Exhausted, Started, Nil

(* The fields of an entry that a key holds. *)
LEMMA MappedEntry ==
    ASSUME IInv, NEW k \in Keys, timers[k] # Nil
    PROVE  /\ timers[k] \in 1 .. alloc /\ entry[timers[k]].key = k /\ k[1] \in Names
           /\ entry[timers[k]].expires \in Nat /\ entry[timers[k]].next \in Nat
           /\ entry[timers[k]].count \in Nat
  <1>1. timers[k] \in 1 .. alloc /\ entry[timers[k]] \in Entries /\ entry[timers[k]].key = k
    BY DEF IInv, TypeOK, Place, Nil
  <1> QED
    BY <1>1 DEF Entries, Keys

(* A step that leaves entries, expiries and time alone keeps CadenceInv. *)
LEMMA QuietCadence ==
    ASSUME CadenceInv, UNCHANGED <<entry, alloc, expired, lag, expCalls>>,
           \A k \in Keys : timers'[k] \in {timers[k], Nil},
           loop' = loop \/ (loop' # "gone" /\ loop # "gone" /\ loop' # "new")
               \/ (loop' = "gone" /\ expired = {})
    PROVE  CadenceInv'
  <1>1. Pace'
    BY DEF CadenceInv, Pace, Nil
  <1>2. Prompt' /\ Exhausted' /\ Started'
    BY DEF CadenceInv, Prompt, Exhausted, Started
  <1> QED
    BY <1>1, <1>2 DEF CadenceInv

(* A new entry has its whole total to go. *)
LEMMA StartCadence ==
    ASSUME IInv, CadenceInv, NEW n \in Names, NEW u \in UEs, Start(n, u)
    PROVE  CadenceInv'
  <1>t. /\ alloc \in Nat /\ alloc + 1 \in Gens /\ <<n, u>> \in Keys /\ lag \in Nat
        /\ expired \subseteq 1 .. alloc
    BY ConstantsAssumption DEF IInv, TypeOK, Start, Gens, Keys
  <1>1. /\ loop # "new" /\ alloc' = alloc + 1 /\ UNCHANGED <<loop, expired, lag, expCalls>>
        /\ entry'[alloc + 1] = NewEntry(n, u)
        /\ \A g \in 1 .. alloc : entry'[g] = entry[g]
        /\ timers' = [timers EXCEPT ![<<n, u>>] = alloc + 1]
    BY <1>t DEF Start, history
  <1>2. Pace'
    <2> SUFFICES ASSUME NEW k \in Keys, timers'[k] # Nil, loop # "gone",
                        entry'[timers'[k]].count < MaxRetx[k[1]]
                 PROVE  /\ entry'[timers'[k]].next \leq Interval[k[1]]
                        /\ Duration[k[1]] \leq entry'[timers'[k]].expires
                              + entry'[timers'[k]].count * Slot(k[1])
                              + (Interval[k[1]] - entry'[timers'[k]].next)
                              + (IF entry'[timers'[k]].next = 0 THEN lag ELSE 0)
      BY <1>1 DEF Pace, Slot
    <2>1. CASE k = <<n, u>>
      <3>1. timers'[k] = alloc + 1 /\ k[1] = n
        BY <1>1, <1>t, <2>1 DEF IInv, TypeOK
      <3>2. /\ entry'[timers'[k]].next = Interval[n] /\ entry'[timers'[k]].count = 0
            /\ entry'[timers'[k]].expires = Duration[n]
        BY <1>1, <3>1 DEF NewEntry
      <3>3. Slot(n) \in Nat /\ Interval[n] \in Nat /\ Duration[n] \in Nat
        BY ConstantsAssumption DEF Slot
      <3>4. 0 * Slot(n) = 0
        BY <3>3, OneMoreSlot
      <3> QED
        BY <1>t, <3>1, <3>2, <3>3, <3>4
    <2>2. CASE k # <<n, u>>
      <3>1. timers'[k] = timers[k]
        BY <1>1, <2>2 DEF IInv, TypeOK
      <3>2. entry'[timers[k]] = entry[timers[k]]
        BY <1>1, <3>1, MappedEntry
      <3> QED
        BY <3>1, <3>2 DEF CadenceInv, Pace
    <2> QED
      BY <2>1, <2>2
  <1>3. Exhausted'
    <2>1. alloc + 1 \notin expired /\ ~(expCalls[alloc + 1] > 0)
      BY <1>t DEF IInv, Unborn
    <2>2. \A g \in 1 .. alloc' : g \in 1 .. alloc \/ g = alloc + 1
      BY <1>1, <1>t
    <2> QED
      BY <1>1, <2>1, <2>2 DEF CadenceInv, Exhausted
  <1>4. Prompt' /\ Started'
    BY <1>1 DEF CadenceInv, Prompt, Started
  <1> QED
    BY <1>2, <1>3, <1>4 DEF CadenceInv

(* A tick starts one more slot for what it retransmits, and what it lists  *)
(* as expired has had all its slots.                                       *)
LEMMA CollectCadence ==
    ASSUME Cadence, IInv, CadenceInv, Collect
    PROVE  CadenceInv'
  <1>t. alloc \in Nat /\ lag \in Nat /\ MaxLag \in Nat
    BY ConstantsAssumption DEF IInv, TypeOK
  <1>1. /\ loop \in {"running", "stopping"} /\ lag' = 0 /\ expired' = ToExpire
        /\ UNCHANGED <<alloc, loop, expCalls>>
        /\ \A k \in Keys : timers'[k] # Nil => timers'[k] = timers[k] /\ timers[k] \notin ToExpire
    BY DEF Collect, history, Nil
  <1>l. lag \leq MaxLag
    BY <1>1 DEF CadenceInv, Prompt
  <1>e. \A g \in 1 .. alloc :
           /\ entry'[g].key = entry[g].key /\ entry'[g].expires = entry[g].expires
           /\ entry'[g].count = IF g \in ToRetransmit THEN entry[g].count + 1 ELSE entry[g].count
           /\ entry'[g].next = IF g \in ToRetransmit THEN Interval[entry[g].key[1]] ELSE entry[g].next
    <2> TAKE g \in 1 .. alloc
    <2>1. /\ entry[g].key \in Keys /\ entry[g] =
             [key |-> entry[g].key, expires |-> entry[g].expires,
              next |-> entry[g].next, count |-> entry[g].count]
      BY DEF IInv, TypeOK, Entries
    <2>2. CASE g \in ToRetransmit
      <3>1. entry'[g] = [entry[g] EXCEPT !.count = @ + 1, !.next = Interval[entry[g].key[1]]]
        BY <2>2 DEF Collect
      <3>2. entry'[g] = [key |-> entry[g].key, expires |-> entry[g].expires,
                         next |-> Interval[entry[g].key[1]], count |-> entry[g].count + 1]
        BY <2>1, <3>1
      <3> QED
        BY <2>2, <3>2
    <2>3. CASE g \notin ToRetransmit
      BY <2>3 DEF Collect
    <2> QED
      BY <2>2, <2>3
  <1>c. \A n \in Names : /\ Interval[n] \in Nat /\ Duration[n] \in Nat /\ MaxRetx[n] \in Nat
                          /\ Slot(n) \in Nat /\ Slot(n) = Interval[n] + MaxLag
    BY ConstantsAssumption DEF Slot
  <1>m. \A k \in Keys : timers[k] # Nil =>
          /\ timers[k] \in 1 .. alloc /\ entry[timers[k]].key = k /\ k[1] \in Names
          /\ entry[timers[k]].expires \in Nat /\ entry[timers[k]].next \in Nat
          /\ entry[timers[k]].count \in Nat /\ entry[timers[k]] \in Entries
    BY MappedEntry DEF IInv, TypeOK
  <1>2. Pace'
    <2> SUFFICES ASSUME NEW k \in Keys, timers'[k] # Nil,
                        entry'[timers'[k]].count < MaxRetx[k[1]]
                 PROVE  /\ entry'[timers'[k]].next \leq Interval[k[1]]
                        /\ Duration[k[1]] \leq entry'[timers'[k]].expires
                              + entry'[timers'[k]].count * Slot(k[1])
                              + (Interval[k[1]] - entry'[timers'[k]].next)
                              + (IF entry'[timers'[k]].next = 0 THEN 0 ELSE 0)
      BY <1>1 DEF Pace, Slot
    <2> DEFINE g == timers[k]
               n == k[1]
    <2>1. timers'[k] = g /\ g # Nil /\ g \notin ToExpire
      BY <1>1
    <2>2. CASE g \in ToRetransmit
      <3>1. /\ entry[g].next = 0 /\ entry[g].count < MaxRetx[n]
        BY <1>m, <2>1, <2>2 DEF ToRetransmit, RetxDue
      <3>2. /\ entry'[g].count = entry[g].count + 1 /\ entry'[g].next = Interval[n]
            /\ entry'[g].expires = entry[g].expires
        BY <1>e, <1>m, <2>1, <2>2
      <3>3. Duration[n] \leq entry[g].expires + entry[g].count * Slot(n) + (Interval[n] - 0) + lag
        BY <1>1, <2>1, <3>1 DEF CadenceInv, Pace
      <3>4. (entry[g].count + 1) * Slot(n) = entry[g].count * Slot(n) + Slot(n)
            /\ entry[g].count * Slot(n) \in Nat
        BY <1>c, <1>m, <2>1, OneMoreSlot
      <3> QED
        BY <1>c, <1>l, <1>m, <1>t, <2>1, <3>2, <3>3, <3>4
    <2>3. CASE g \notin ToRetransmit
      <3>1. /\ entry'[g].count = entry[g].count /\ entry'[g].next = entry[g].next
            /\ entry'[g].expires = entry[g].expires
        BY <1>e, <1>m, <2>1, <2>3
      <3>2. /\ entry[g].next \leq Interval[n]
            /\ Duration[n] \leq entry[g].expires + entry[g].count * Slot(n)
                                + (Interval[n] - entry[g].next) + (IF entry[g].next = 0 THEN lag ELSE 0)
        BY <1>1, <2>1, <3>1 DEF CadenceInv, Pace
      <3>3. g \notin cancelled
        BY <2>1 DEF IInv, Place
      <3>4. ~RetxDue(entry[g])
        BY <2>1, <2>3, <3>3 DEF ToRetransmit, Mapped, Live
      <3>5. entry[g].next # 0 \/ ~(Interval[n] > 0)
        BY <1>m, <2>1, <3>1, <3>4 DEF RetxDue
      <3>6. Interval[n] > 0
        BY <1>c, <1>m, <2>1, <3>1 DEF Cadence
      <3> QED
        BY <1>c, <1>m, <2>1, <3>1, <3>2, <3>5, <3>6
    <2> QED
      BY <2>2, <2>3
  <1>3. Exhausted'
    <2>1. ASSUME NEW g \in ToExpire
          PROVE  g \notin ToRetransmit /\ entry[g].count = MaxRetx[entry[g].key[1]]
      <3>1. PICK k \in Keys : g = timers[k]
        BY DEF ToExpire, Mapped
      <3> DEFINE n == k[1]
      <3>2. g # Nil /\ ~RetxDue(entry[g]) /\ entry[g].expires = 0 /\ g \notin ToRetransmit
        BY <2>1 DEF ToExpire, Live, Expires, ToRetransmit
      <3>3. entry[g].key[1] = n /\ n \in Names /\ entry[g].count \leq MaxRetx[n]
        BY <1>m, <3>1, <3>2 DEF IInv, Counted
      <3>4. CASE entry[g].count < MaxRetx[n]
        <4>1. /\ Interval[n] > 0 /\ Duration[n] = Interval[n] * (MaxRetx[n] + 1)
              /\ (MaxRetx[n] - 1) * MaxLag \leq Interval[n]
          BY <1>c, <1>m, <3>1, <3>2, <3>3, <3>4 DEF Cadence
        <4>2. entry[g].next > 0
          BY <1>m, <3>1, <3>2, <3>3, <3>4, <4>1 DEF RetxDue
        <4>3. Duration[n] \leq 0 + entry[g].count * Slot(n) + (Interval[n] - entry[g].next) + 0
          BY <1>1, <1>m, <3>1, <3>2, <3>4, <4>2 DEF CadenceInv, Pace
        <4>4. entry[g].count * (Interval[n] + MaxLag) + Interval[n] \leq Interval[n] * (MaxRetx[n] + 1)
          BY <1>c, <1>m, <1>t, <3>1, <3>2, <3>3, <3>4, <4>1, FewerSlots
        <4>5. entry[g].count * Slot(n) = entry[g].count * (Interval[n] + MaxLag)
              /\ entry[g].count * Slot(n) \in Nat
          BY <1>c, <1>m, <3>1, <3>2, <3>3
        <4> QED
          BY <1>c, <1>m, <3>1, <3>2, <3>3, <4>1, <4>2, <4>3, <4>4, <4>5
      <3> QED
        BY <1>c, <1>m, <3>1, <3>2, <3>3, <3>4
    <2>2. \A g \in ToRetransmit : expCalls[g] = 0
      BY DEF ToRetransmit, Mapped, Live, IInv, Place
    <2>3. ASSUME NEW g \in 1 .. alloc, g \in ToExpire \/ expCalls[g] > 0
          PROVE  g \notin ToRetransmit /\ entry[g].count = MaxRetx[entry[g].key[1]]
      BY <2>1, <2>2, <2>3 DEF CadenceInv, Exhausted
    <2> QED
      BY <1>1, <1>e, <2>3 DEF Exhausted
  <1>4. Prompt' /\ Started'
    BY <1>1, <1>t DEF CadenceInv, Prompt, Started
  <1> QED
    BY <1>2, <1>3, <1>4 DEF CadenceInv

(* Time that passes is accounted for, as long as ticks come in time. *)
LEMMA AdvanceCadence ==
    ASSUME IInv, CadenceInv, Advance
    PROVE  CadenceInv'
  <1>t. lag \in Nat /\ MaxLag \in Nat
    BY ConstantsAssumption DEF IInv, TypeOK
  <1>1. /\ UNCHANGED <<timers, alloc, loop, expired, expCalls>>
        /\ loop # "gone" => lag < MaxLag /\ lag' = lag + 1
    BY DEF Advance, history
  <1>2. \A g \in 1 .. alloc :
           /\ entry'[g].key = entry[g].key /\ entry'[g].count = entry[g].count
           /\ entry'[g].expires = IF entry[g].expires > 0 THEN entry[g].expires - 1 ELSE 0
           /\ entry'[g].next = IF entry[g].next > 0 THEN entry[g].next - 1 ELSE 0
    <2> TAKE g \in 1 .. alloc
    <2>1. entry[g] = [key |-> entry[g].key, expires |-> entry[g].expires,
                      next |-> entry[g].next, count |-> entry[g].count]
      BY DEF IInv, TypeOK, Entries
    <2>2. entry'[g] = [key |-> entry[g].key,
                       expires |-> IF entry[g].expires > 0 THEN entry[g].expires - 1 ELSE 0,
                       next |-> IF entry[g].next > 0 THEN entry[g].next - 1 ELSE 0,
                       count |-> entry[g].count]
      BY <2>1 DEF Advance
    <2> QED
      BY <2>2
  <1>3. Pace'
    <2> SUFFICES ASSUME NEW k \in Keys, timers[k] # Nil, loop # "gone",
                        entry'[timers[k]].count < MaxRetx[k[1]]
                 PROVE  /\ entry'[timers[k]].next \leq Interval[k[1]]
                        /\ Duration[k[1]] \leq entry'[timers[k]].expires
                              + entry'[timers[k]].count * Slot(k[1])
                              + (Interval[k[1]] - entry'[timers[k]].next)
                              + (IF entry'[timers[k]].next = 0 THEN lag' ELSE 0)
      BY <1>1 DEF Pace, Slot
    <2> DEFINE e == entry[timers[k]]
    <2>1. /\ timers[k] \in 1 .. alloc /\ k[1] \in Names
          /\ e.expires \in Nat /\ e.next \in Nat /\ e.count \in Nat
      BY MappedEntry
    <2>2. Interval[k[1]] \in Nat /\ Duration[k[1]] \in Nat /\ e.count * Slot(k[1]) \in Nat
      BY <2>1, ConstantsAssumption DEF Slot
    <2>3. /\ e.next \leq Interval[k[1]]
          /\ Duration[k[1]] \leq e.expires + e.count * Slot(k[1]) + (Interval[k[1]] - e.next)
                                 + (IF e.next = 0 THEN lag ELSE 0)
      BY <1>2, <2>1 DEF CadenceInv, Pace
    <2>4. /\ entry'[timers[k]].count = e.count
          /\ entry'[timers[k]].expires = IF e.expires > 0 THEN e.expires - 1 ELSE 0
          /\ entry'[timers[k]].next = IF e.next > 0 THEN e.next - 1 ELSE 0
      BY <1>2, <2>1
    <2> DEFINE w == e.count * Slot(k[1])
    <2> HIDE DEF e, w
    <2> QED
      BY <1>1, <1>t, <2>1, <2>2, <2>3, <2>4 DEF w
  <1>4. Exhausted'
    BY <1>1, <1>2 DEF CadenceInv, Exhausted
  <1>5. Prompt' /\ Started'
    BY <1>1, <1>t DEF CadenceInv, Prompt, Started
  <1> QED
    BY <1>3, <1>4, <1>5 DEF CadenceInv

(* Every step keeps CadenceInv, if the totals leave room for late ticks. *)
LEMMA NextCadence ==
    ASSUME Cadence, IInv, CadenceInv, [Next]_vars
    PROVE  CadenceInv'
  <1>t. timers \in [Keys -> 0 .. alloc]
    BY DEF IInv, TypeOK
  <1>1. ASSUME NEW n \in Names, NEW u \in UEs, Cancel(n, u) PROVE CadenceInv'
    <2>1. \A k \in Keys : timers'[k] \in {timers[k], Nil}
      BY <1>1, <1>t DEF Cancel
    <2> QED
      BY <1>1, <2>1, QuietCadence DEF Cancel, history
  <1>2. ASSUME NEW u \in UEs, CancelAllForUE(u) PROVE CadenceInv'
    <2>1. \A k \in Keys : timers'[k] \in {timers[k], Nil}
      BY <1>2 DEF CancelAllForUE
    <2> QED
      BY <1>2, <2>1, QuietCadence DEF CancelAllForUE, history
  <1>3. CASE StartManager \/ StopManager \/ Exit
    BY <1>3, QuietCadence DEF StartManager, StopManager, Exit, BetweenTicks, history
  <1>4. ASSUME NEW g \in Gens, RetxCheck(g) PROVE CadenceInv'
    BY <1>4, QuietCadence DEF RetxCheck, history
  <1>5. CASE RetxCall \/ UNCHANGED vars
    BY <1>5, QuietCadence DEF RetxCall, vars
  <1>6. ASSUME NEW g \in Gens, Expire(g) PROVE CadenceInv'
    <2>1. /\ g \in expired /\ expired' = expired \ {g} /\ UNCHANGED <<timers, entry, alloc, loop, lag>>
          /\ expCalls' = [expCalls EXCEPT ![g] = IF g \in cancelled THEN @ ELSE @ + 1]
      BY <1>6 DEF Expire
    <2>2. Pace' /\ Prompt' /\ Started'
      BY <2>1 DEF CadenceInv, Pace, Prompt, Started
    <2>3. Exhausted'
      <3>1. expCalls \in [Gens -> Nat] /\ 1 .. alloc \subseteq Gens
        BY ConstantsAssumption DEF IInv, TypeOK, Gens
      <3>2. \A h \in 1 .. alloc : h # g => expCalls'[h] = expCalls[h]
        BY <2>1, <3>1
      <3> QED
        BY <2>1, <3>2 DEF CadenceInv, Exhausted
    <2> QED
      BY <2>2, <2>3 DEF CadenceInv
  <1> QED
    BY <1>1, <1>2, <1>3, <1>4, <1>5, <1>6, StartCadence, CollectCadence, AdvanceCadence
       DEF Next, TickStep

(* With the totals of fsm.startTimer, and ticks that are late by no more   *)
(* than an interval between them, the expiry callback comes only after the *)
(* last retransmission slot, for every interval and number of shots.       *)
THEOREM ExpiryAfterRetransmissions ==
    ASSUME Cadence PROVE Spec => []ExhaustedBeforeExpiry
  <1>1. Spec => [](IInv /\ CadenceInv)
    <2>1. IInv /\ CadenceInv /\ [Next]_vars => CadenceInv'
      BY NextCadence
    <2> QED
      BY <2>1, InitIInv, NextIInv, InitCadence, PTL DEF Spec
  <1>2. CadenceInv => ExhaustedBeforeExpiry
    BY DEF CadenceInv, Exhausted, ExhaustedBeforeExpiry
  <1> QED
    BY <1>1, <1>2, PTL
=============================================================================
