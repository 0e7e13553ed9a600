---------------------------- MODULE TimerManager ----------------------------
(***************************************************************************)
(* The process-wide 3GPP timer manager, core/infra/timers/manager.go.      *)
(*                                                                         *)
(* One goroutine ticks; every other goroutine of the core (NGAP workers,   *)
(* the timer callbacks themselves) calls Start, Cancel and CancelAllForUE. *)
(* A tick has a locked part, which collects the due entries, and an        *)
(* unlocked part, which runs their callbacks one after the other; the      *)
(* calls of the other goroutines fall between any two of those callbacks.  *)
(*                                                                         *)
(* An entry is a heap object that the map and the two lists of a tick may  *)
(* share, so the entries are numbered by the Start call that made them and *)
(* the map holds the number.  Times are kept as what is left of them,      *)
(* which is all that the two comparisons with now can see.                 *)
(***************************************************************************)
EXTENDS Naturals

CONSTANTS
    Names,      \* timer names: "T3560", "T3550", ...
    UEs,        \* ueID strings
    Duration,   \* Duration[n]: the duration that the callers of Start pass for n
    Interval,   \* Interval[n]: Options.MaxInterval, 0 without a retransmission stream
    MaxRetx,    \* MaxRetx[n]: Options.MaxRetransmit
    MaxStarts,  \* bound: Start calls in a behaviour
    MaxLag      \* bound: units of time between two ticks

ASSUME ConstantsAssumption ==
    /\ Duration \in [Names -> Nat]
    /\ Interval \in [Names -> Nat]
    /\ MaxRetx \in [Names -> Nat]
    /\ MaxStarts \in Nat
    /\ MaxLag \in Nat

Keys == Names \X UEs

(* The numbers of the entries, and the number that stands for nil. *)
Gens == 1 .. MaxStarts
Nil == 0

VARIABLES
    timers,     \* Manager.timers: key -> number of its entry, or Nil
    entry,      \* number -> the entry's key, expires, nextRetransmit, retransmitCount
    cancelled,  \* the entries whose cancelled flag is set
    alloc,      \* number of the newest entry
    loop,       \* the tick goroutine: "new", "running", "stopping", "gone"
    retx,       \* tick's local list retx, what is left of it
    expired,    \* tick's local list expired, what is left of it
    calling,    \* entry that passed the cancelled test of the retx loop, or Nil
    lag,        \* time since the last tick
    retxCalls,  \* history: retransmission callbacks made per entry
    lateCalls,  \* history: those of them made after the entry was cancelled
    expCalls    \* history: expiry callbacks made per entry

vars == <<timers, entry, cancelled, alloc, loop, retx, expired, calling, lag,
          retxCalls, lateCalls, expCalls>>

(* What a tick's callbacks have counted so far: no code, only history. *)
history == <<retxCalls, lateCalls, expCalls>>

Entries == [key : Keys, expires : Nat, next : Nat, count : Nat]

NewEntry(n, u) ==
    [key |-> <<n, u>>, expires |-> Duration[n], next |-> Interval[n], count |-> 0]

Init ==
    /\ timers = [k \in Keys |-> Nil]
    /\ entry = [g \in 1 .. 0 |-> NewEntry(g, g)]
    /\ cancelled = {}
    /\ alloc = 0
    /\ loop = "new"
    /\ retx = {} /\ expired = {} /\ calling = Nil
    /\ lag = 0
    /\ retxCalls = [g \in Gens |-> 0]
    /\ lateCalls = [g \in Gens |-> 0]
    /\ expCalls = [g \in Gens |-> 0]

(* Mutant: the entry is marked without testing that the map holds one. *)
MarkWithoutTest(K) == cancelled \cup {timers[k] : k \in K}

(* Mark and drop the entries that the map holds under the keys K. *)
MarkCancelled(K) == cancelled \cup ({timers[k] : k \in K} \ {Nil})

-----------------------------------------------------------------------------
(* Calls of the other goroutines, each one critical section of m.mu. *)

(* main starts the manager before anything that could start a timer. *)
Start(n, u) ==
    /\ loop # "new"
    /\ alloc < MaxStarts
    /\ alloc' = alloc + 1
    /\ entry' = [g \in 1 .. alloc + 1 |-> IF g = alloc + 1 THEN NewEntry(n, u) ELSE entry[g]]
    /\ cancelled' = MarkCancelled({<<n, u>>})
    /\ timers' = [timers EXCEPT ![<<n, u>>] = alloc + 1]
    /\ UNCHANGED <<loop, retx, expired, calling, lag, history>>

(* A Cancel that finds no entry returns false and changes nothing. *)
Cancel(n, u) ==
    /\ timers[<<n, u>>] # Nil
    /\ cancelled' = MarkCancelled({<<n, u>>})
    /\ timers' = [timers EXCEPT ![<<n, u>>] = Nil]
    /\ UNCHANGED <<entry, alloc, loop, retx, expired, calling, lag, history>>

CancelAllForUE(u) ==
    LET K == {k \in Keys : k[2] = u} IN
    /\ \E k \in K : timers[k] # Nil
    /\ cancelled' = MarkCancelled(K)
    /\ timers' = [k \in Keys |-> IF k \in K THEN Nil ELSE timers[k]]
    /\ UNCHANGED <<entry, alloc, loop, retx, expired, calling, lag, history>>

(* The program calls StartManager once and StopManager once, at shutdown. *)
StartManager ==
    /\ loop = "new"
    /\ loop' = "running"
    /\ UNCHANGED <<timers, entry, cancelled, alloc, retx, expired, calling, lag, history>>

StopManager ==
    /\ loop = "running"
    /\ loop' = "stopping"
    /\ UNCHANGED <<timers, entry, cancelled, alloc, retx, expired, calling, lag, history>>

-----------------------------------------------------------------------------
(* The tick goroutine. *)

Live(g) == g # Nil /\ g \notin cancelled

(* Mutants: one retransmission too many, one too few. *)
RetxOneMore(e) ==
    Interval[e.key[1]] > 0 /\ e.count \leq MaxRetx[e.key[1]] /\ e.next = 0

RetxOneLess(e) ==
    Interval[e.key[1]] > 0 /\ e.count + 1 < MaxRetx[e.key[1]] /\ e.next = 0

(* Mutant: the continue leaves out the expiry of every timer with a stream. *)
ExpiresOutsideStream(e) == Interval[e.key[1]] = 0 /\ e.expires = 0

(* The first test of the loop of tick, then, past its continue, the second. *)
RetxDue(e) ==
    /\ Interval[e.key[1]] > 0
    /\ e.count < MaxRetx[e.key[1]]
    /\ e.next = 0

Expires(e) == ~RetxDue(e) /\ e.expires = 0

Mapped == {timers[k] : k \in Keys}

ToRetransmit == {g \in Mapped : Live(g) /\ RetxDue(entry[g])}

ToExpire == {g \in Mapped : Live(g) /\ Expires(entry[g])}

BetweenTicks == retx = {} /\ expired = {} /\ calling = Nil

(* Mutant: what has expired is listed but stays in the map. *)
CollectKeepsExpired ==
    /\ loop \in {"running", "stopping"}
    /\ BetweenTicks
    /\ retx' = ToRetransmit /\ expired' = ToExpire
    /\ lag' = 0
    /\ UNCHANGED <<timers, entry, cancelled, alloc, loop, calling, history>>

(* The locked part of tick; a cancelled entry leaves the map here too. *)
Collect ==
    /\ loop \in {"running", "stopping"}
    /\ BetweenTicks
    /\ retx' = ToRetransmit
    /\ expired' = ToExpire
    /\ entry' = [g \in 1 .. alloc |->
                    IF g \in ToRetransmit
                    THEN [entry[g] EXCEPT !.count = @ + 1,
                                          !.next = Interval[entry[g].key[1]]]
                    ELSE entry[g]]
    /\ timers' = [k \in Keys |->
                    IF timers[k] \in ToExpire \cup cancelled THEN Nil ELSE timers[k]]
    /\ lag' = 0
    /\ UNCHANGED <<cancelled, alloc, loop, calling, history>>

(* The loop over retx tests the flag outside the lock, logs, then calls. *)
RetxCheck(g) ==
    /\ g \in retx
    /\ calling = Nil
    /\ retx' = retx \ {g}
    /\ calling' = IF g \in cancelled THEN Nil ELSE g
    /\ UNCHANGED <<timers, entry, cancelled, alloc, loop, expired, lag, history>>

RetxCall ==
    /\ calling # Nil
    /\ calling' = Nil
    /\ retxCalls' = [retxCalls EXCEPT ![calling] = @ + 1]
    /\ lateCalls' = [lateCalls EXCEPT ![calling] = IF calling \in cancelled THEN @ + 1 ELSE @]
    /\ UNCHANGED <<timers, entry, cancelled, alloc, loop, retx, expired, lag, expCalls>>

(* The loop over expired runs after the loop over retx. *)
Expire(g) ==
    /\ retx = {} /\ calling = Nil
    /\ g \in expired
    /\ expired' = expired \ {g}
    /\ expCalls' = [expCalls EXCEPT ![g] = IF g \in cancelled THEN @ ELSE @ + 1]
    /\ UNCHANGED <<timers, entry, cancelled, alloc, loop, retx, calling, lag,
                   retxCalls, lateCalls>>

(* run sees stopCh closed in its select, between two ticks. *)
Exit ==
    /\ loop = "stopping"
    /\ BetweenTicks
    /\ loop' = "gone"
    /\ UNCHANGED <<timers, entry, cancelled, alloc, retx, expired, calling, lag, history>>

(* Wall-clock time; until the loop exits a tick comes within MaxLag units. *)
Advance ==
    /\ \E k \in Keys : timers[k] # Nil
    /\ loop # "gone" => lag < MaxLag
    /\ lag' = IF loop # "gone" THEN lag + 1 ELSE lag
    /\ entry' = [g \in 1 .. alloc |->
                    [entry[g] EXCEPT !.expires = IF @ > 0 THEN @ - 1 ELSE 0,
                                     !.next = IF @ > 0 THEN @ - 1 ELSE 0]]
    /\ UNCHANGED <<timers, cancelled, alloc, loop, retx, expired, calling, history>>

-----------------------------------------------------------------------------
TickStep ==
    \/ Collect
    \/ \E g \in Gens : RetxCheck(g)
    \/ RetxCall
    \/ \E g \in Gens : Expire(g)
    \/ Exit

Next ==
    \/ \E n \in Names, u \in UEs : Start(n, u) \/ Cancel(n, u)
    \/ \E u \in UEs : CancelAllForUE(u)
    \/ StartManager
    \/ StopManager
    \/ TickStep
    \/ Advance

Spec == Init /\ [][Next]_vars

(* The Go runtime runs the tick goroutine and the clock moves on; nothing  *)
(* obliges any other goroutine to call anything.                           *)
FairSpec == Spec /\ WF_vars(TickStep) /\ WF_vars(Advance)
-----------------------------------------------------------------------------
(* Properties. *)

(* Type invariant of the manager's map, entries, tick lists and history. *)
TypeOK ==
    /\ alloc \in 0 .. MaxStarts
    /\ timers \in [Keys -> 0 .. alloc]
    /\ entry \in [1 .. alloc -> Entries]
    /\ cancelled \subseteq 1 .. alloc
    /\ loop \in {"new", "running", "stopping", "gone"}
    /\ retx \subseteq 1 .. alloc
    /\ expired \subseteq 1 .. alloc
    /\ calling \in 0 .. alloc
    /\ lag \in Nat
    /\ retxCalls \in [Gens -> Nat]
    /\ lateCalls \in [Gens -> Nat]
    /\ expCalls \in [Gens -> Nat]

(* tick deletes an entry from the map in the critical section that lists   *)
(* it as expired, so each Start is answered by at most one expiry callback *)
(* and by at most MaxRetransmit retransmissions, whatever Start, Cancel    *)
(* and CancelAllForUE do while the callbacks run.                          *)
AnsweredOnce ==
    \A g \in 1 .. alloc :
        /\ expCalls[g] \leq 1
        /\ retxCalls[g] \leq MaxRetx[entry[g].key[1]]

(* A Cancel, CancelAllForUE or restarting Start that found the entry in    *)
(* the map wins against its expiry for good; all that can still come is    *)
(* the one retransmission whose cancelled test came before it.             *)
CancelWins ==
    \A g \in cancelled : expCalls[g] = 0 /\ lateCalls[g] \leq 1

(* What fsm.startTimer asks for: a total of one interval more than the     *)
(* retransmissions.  Each of these may be a tick late, and the next one is *)
(* counted from there, so all but the first delay must fit into that last  *)
(* interval.                                                               *)
Cadence ==
    \A n \in Names :
        \/ MaxRetx[n] = 0
        \/ /\ Interval[n] > 0
           /\ Duration[n] = Interval[n] * (MaxRetx[n] + 1)
           /\ (MaxRetx[n] - 1) * MaxLag \leq Interval[n]

(* With such totals and ticks at most MaxLag apart, the expiry callback    *)
(* never comes before the last retransmission slot was used.               *)
ExhaustedBeforeExpiry ==
    \A g \in 1 .. alloc :
        expCalls[g] > 0 => entry[g].count = MaxRetx[entry[g].key[1]]

(* A timer that nobody cancels or restarts is answered by its expiry while *)
(* the manager runs: neither the retransmission branch's continue nor the  *)
(* callbacks of other timers can hold it back for ever.                    *)
EventuallyAnswered ==
    \A g \in Gens :
        (g \leq alloc /\ loop # "new")
            ~> (expCalls[g] = 1 \/ g \in cancelled \/ loop \in {"stopping", "gone"})

(* What manager.go:6-7 and :89-91 promise: starting a timer with the same  *)
(* key cancels the previous one, so an expiry callback is always that of   *)
(* the newest entry of its key.                                            *)
RestartCancelsPrevious ==
    [][\A g \in 1 .. alloc :
          expCalls'[g] # expCalls[g] =>
              \A h \in 1 .. alloc : entry[h].key = entry[g].key => h \leq g]_vars
=============================================================================
