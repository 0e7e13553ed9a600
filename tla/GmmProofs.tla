------------------------------ MODULE GmmProofs ------------------------------
(***************************************************************************)
(* Proofs about registration management for every retry limit, every       *)
(* outcome of the writes and whether or not UE and gNB may fall silent.    *)
(*                                                                         *)
(* TimerOfState is not inductive: a callback that is due could meet a      *)
(* second entry of its own timer in the map and leave it behind when it    *)
(* takes the FSM out of the state.  Once rules that out: only a restart,   *)
(* which makes the callback late, can arm the timer of a callback that is  *)
(* due.                                                                    *)
(***************************************************************************)
EXTENDS Gmm, TLAPS

Live(f) == f.armed \cup (IF f.late THEN {} ELSE f.due)

Match(f) == \A e \in Live(f) : e.own = "live" /\ e.ev = OwnExpiry(f.st)

Once(f) == f.late \/ \A d \in f.due, a \in f.armed : d.timer # a.timer

FsmInv(f) == f \in FsmType /\ (f.raced \/ (Match(f) /\ Once(f)))

(* The events that the handlers fire; the expiry events come from timers,  *)
(* and the rest of the table's events is fired by code nobody calls.       *)
HandlerEvents ==
    {"RegistrationRequest", "RegRequestContextValid", "IdentityRequestSent",
     "IdentityResponse", "IdentityResponseFail", "AuthResponseValid",
     "AuthResponseInvalid", "AuthRetry", "AuthenticationFailure",
     "SecurityModeComplete", "SecurityModeReject", "RegistrationComplete",
     "ULNASTransport", "ServiceRequest", "ConfigUpdateComplete", "Status5GMM",
     "DeregistrationRequestMO", "DeregistrationAcceptMT"}

ExpiryEvents == {te[2] : te \in TimerEvents}
-----------------------------------------------------------------------------
(* Each state's own expiry event comes from one timer. *)
OwnTimer(s) ==
    CASE s = "Identification" -> "T3570"
      [] s \in {"Authentication", "SecurityMode"} -> "T3560"
      [] s = "RegisteredInitiated" -> "T3550"
      [] s = "Registered" -> "T3512"
      [] s = "DeregistrationInitiated" -> "Twait"
      [] s = "MTDeregPending" -> "T3522"
      [] OTHER -> "-"

(* An entry with the expiry event of a state is one of that state's timer. *)
LEMMA EntryTimer ==
    ASSUME NEW e \in TimerEntries, NEW s \in States, e.ev = OwnExpiry(s)
    PROVE  e.timer = OwnTimer(s)
  BY DEF TimerEntries, TimerEvents, States, OwnExpiry, OwnTimer

(* What a row of the table is made of. *)
LEMMA RowType ==
    ASSUME NEW s \in States, NEW ev, Row(s, ev) # NoRow
    PROVE  /\ Row(s, ev).to \in States
           /\ Row(s, ev).start = Nothing \/ Row(s, ev).start \in TimerEvents
           /\ Row(s, ev).act \in {"log", "release", "clear"}
           /\ Row(s, ev).act = "clear" => Row(s, ev).to = "Deregistered"
  <1> USE DEF Go, NoRow, Nothing, T3560Auth, T3560SMC, T3550, T3512, States, TimerEvents
  <1>1. CASE s = "Deregistered"
    <2>1. Row(s, ev) = DeregisteredRow(ev)
      BY <1>1 DEF Row
    <2> QED
      BY <1>1, <2>1 DEF DeregisteredRow
  <1>2. CASE s = "Identification"
    <2>1. Row(s, ev) = IdentificationRow(ev)
      BY <1>2 DEF Row
    <2> QED
      BY <1>2, <2>1 DEF IdentificationRow
  <1>3. CASE s = "Authentication"
    <2>1. Row(s, ev) = AuthenticationRow(ev)
      BY <1>3 DEF Row
    <2> QED
      BY <1>3, <2>1 DEF AuthenticationRow
  <1>4. CASE s = "SecurityMode"
    <2>1. Row(s, ev) = SecurityModeRow(ev)
      BY <1>4 DEF Row
    <2> QED
      BY <1>4, <2>1 DEF SecurityModeRow
  <1>5. CASE s = "RegisteredInitiated"
    <2>1. Row(s, ev) = RegisteredInitiatedRow(ev)
      BY <1>5 DEF Row
    <2> QED
      BY <1>5, <2>1 DEF RegisteredInitiatedRow
  <1>6. CASE s = "Registered"
    <2>1. Row(s, ev) = RegisteredRow(ev)
      BY <1>6 DEF Row
    <2> QED
      BY <1>6, <2>1 DEF RegisteredRow
  <1>7. CASE s = "DeregistrationInitiated"
    <2>1. Row(s, ev) = DeregistrationInitiatedRow(ev)
      BY <1>7 DEF Row
    <2> QED
      BY <1>7, <2>1 DEF DeregistrationInitiatedRow
  <1>8. CASE s = "MTDeregPending"
    <2>1. Row(s, ev) = MTDeregPendingRow(ev)
      BY <1>8 DEF Row
    <2> QED
      BY <1>8, <2>1 DEF MTDeregPendingRow
  <1> QED
    BY <1>1, <1>2, <1>3, <1>4, <1>5, <1>6, <1>7, <1>8 DEF States

(* A row that a handler's event takes either stays in its state and        *)
(* touches no timer, or stops the timer of its state; and the timer it     *)
(* starts is the one of the state it enters.                               *)
LEMMA HandlerRow ==
    ASSUME NEW s \in States, NEW ev \in HandlerEvents, Row(s, ev) # NoRow
    PROVE  /\ \/ Row(s, ev).to = s /\ Row(s, ev).start = Nothing
              \/ Row(s, ev).stop = OwnTimer(s)
           /\ Row(s, ev).start # Nothing => Row(s, ev).start[2] = OwnExpiry(Row(s, ev).to)
  <1> USE DEF Go, NoRow, Nothing, T3560Auth, T3560SMC, T3550, T3512, OwnTimer, OwnExpiry, HandlerEvents
  <1>1. CASE s = "Deregistered"
    <2>1. Row(s, ev) = DeregisteredRow(ev)
      BY <1>1 DEF Row
    <2> QED
      BY <1>1, <2>1 DEF DeregisteredRow
  <1>2. CASE s = "Identification"
    <2>1. Row(s, ev) = IdentificationRow(ev)
      BY <1>2 DEF Row
    <2> QED
      BY <1>2, <2>1 DEF IdentificationRow
  <1>3. CASE s = "Authentication"
    <2>1. Row(s, ev) = AuthenticationRow(ev)
      BY <1>3 DEF Row
    <2> QED
      BY <1>3, <2>1 DEF AuthenticationRow
  <1>4. CASE s = "SecurityMode"
    <2>1. Row(s, ev) = SecurityModeRow(ev)
      BY <1>4 DEF Row
    <2> QED
      BY <1>4, <2>1 DEF SecurityModeRow
  <1>5. CASE s = "RegisteredInitiated"
    <2>1. Row(s, ev) = RegisteredInitiatedRow(ev)
      BY <1>5 DEF Row
    <2> QED
      BY <1>5, <2>1 DEF RegisteredInitiatedRow
  <1>6. CASE s = "Registered"
    <2>1. Row(s, ev) = RegisteredRow(ev)
      BY <1>6 DEF Row
    <2> QED
      BY <1>6, <2>1 DEF RegisteredRow
  <1>7. CASE s = "DeregistrationInitiated"
    <2>1. Row(s, ev) = DeregistrationInitiatedRow(ev)
      BY <1>7 DEF Row
    <2> QED
      BY <1>7, <2>1 DEF DeregistrationInitiatedRow
  <1>8. CASE s = "MTDeregPending"
    <2>1. Row(s, ev) = MTDeregPendingRow(ev)
      BY <1>8 DEF Row
    <2> QED
      BY <1>8, <2>1 DEF MTDeregPendingRow
  <1> QED
    BY <1>1, <1>2, <1>3, <1>4, <1>5, <1>6, <1>7, <1>8 DEF States
-----------------------------------------------------------------------------
(* What the operations of the engine preserve. *)

(* CancelAllForUE keeps FsmInv and the state; nothing that counts is left. *)
LEMMA CancelAllInv ==
    ASSUME NEW f, FsmInv(f)
    PROVE  /\ FsmInv(CancelAllForUE(f))
           /\ CancelAllForUE(f).st = f.st
           /\ CancelAllForUE(f).armed = {}
           /\ CancelAllForUE(f).late \/ CancelAllForUE(f).due = {}
  <1> DEFINE g == CancelAllForUE(f)
  <1>1. g \in FsmType
    BY DEF FsmInv, FsmType, CancelAllForUE
  <1>2. g.st = f.st /\ g.armed = {} /\ g.due = f.due /\ g.raced = f.raced
        /\ g.late = (f.late \/ f.due # {})
    BY DEF FsmInv, FsmType, CancelAllForUE
  <1>3. g.late \/ g.due = {}
    BY <1>2
  <1>4. Live(g) = {}
    BY <1>2, <1>3 DEF Live
  <1>5. Match(g) /\ Once(g)
    BY <1>2, <1>3, <1>4 DEF Match, Once
  <1> QED
    BY <1>1, <1>2, <1>3, <1>5 DEF FsmInv

(* Cancel of one timer keeps FsmInv and the state. *)
LEMMA CancelTimerInv ==
    ASSUME NEW f, NEW t, FsmInv(f)
    PROVE  FsmInv(CancelTimer(f, t)) /\ CancelTimer(f, t).st = f.st
  <1> DEFINE g == CancelTimer(f, t)
  <1>1. g \in FsmType
    BY DEF FsmInv, FsmType, CancelTimer
  <1>2. g.st = f.st /\ g.armed = {e \in f.armed : e.timer # t} /\ g.due = f.due /\ g.raced = f.raced
        /\ g.late = (f.late \/ \E e \in f.due : e.timer = t)
    BY DEF FsmInv, FsmType, CancelTimer
  <1>3. ASSUME Match(f) PROVE Match(g)
    BY <1>2, <1>3 DEF Match, Live
  <1>4. ASSUME Once(f) PROVE Once(g)
    BY <1>2, <1>4 DEF Once
  <1> QED
    BY <1>1, <1>2, <1>3, <1>4 DEF FsmInv

(* A record without armed timers and without a callback that counts. *)
LEMMA Cleared ==
    ASSUME NEW f \in FsmType, f.armed = {}, f.late \/ f.due = {}
    PROVE  FsmInv(f)
  <1>1. Live(f) = {}
    BY DEF Live
  <1> QED
    BY <1>1 DEF FsmInv, Match, Once

(* Drop after CancelAllForUE: only callbacks that come late keep the old FSM. *)
LEMMA DropInv ==
    ASSUME NEW f, FsmInv(f), f.armed = {}, f.late \/ f.due = {}
    PROVE  FsmInv(Drop(f)) /\ Drop(f).st = "Deregistered"
  <1> DEFINE g == Drop(f)
  <1>1. f \in FsmType
    BY DEF FsmInv
  <1>2. \A e \in f.due : [e EXCEPT !.own = IF @ = "live" THEN f.st ELSE @] \in TimerEntries
    BY <1>1 DEF FsmType, TimerEntries, Owners
  <1>3. g \in FsmType
    <2>1. PICK D \in SUBSET TimerEntries :
             D = {[e EXCEPT !.own = IF @ = "live" THEN f.st ELSE @] : e \in f.due}
      BY <1>2
    <2>2. g = [f EXCEPT !.st = "Deregistered", !.due = D]
      BY <2>1 DEF Drop
    <2> QED
      BY <1>1, <2>2 DEF FsmType, States
  <1>4. g.armed = {} /\ (g.late \/ g.due = {}) /\ g.st = "Deregistered"
    BY <1>1 DEF FsmType, Drop
  <1> QED
    BY <1>3, <1>4, Cleared

(* The removal hooks of ClearVolatile keep FsmInv. *)
LEMMA RemoveHooksInv ==
    ASSUME NEW f, FsmInv(f)
    PROVE  FsmInv(RemoveHooks(f)) /\ RemoveHooks(f).st = "Deregistered"
  BY CancelAllInv, DropInv DEF RemoveHooks

(* The lower-layer failure of a registered UE keeps FsmInv. *)
LEMMA ResetInv ==
    ASSUME NEW f, FsmInv(f)
    PROVE  FsmInv(ResetTo(CancelAllForUE(f), "Registered"))
  <1> DEFINE g == CancelAllForUE(f)
             h == ResetTo(g, "Registered")
  <1>1. g \in FsmType /\ g.armed = {} /\ (g.late \/ g.due = {})
    BY CancelAllInv DEF FsmInv
  <1> HIDE DEF g
  <1>2. h \in FsmType /\ h.armed = {} /\ (h.late \/ h.due = {})
    BY <1>1 DEF FsmType, ResetTo, States
  <1> QED
    BY <1>2, Cleared DEF g

(* The FSM that Of creates satisfies FsmInv. *)
LEMMA NewInv == FsmInv(NewFsm)
  <1>1. NewFsm \in FsmType /\ NewFsm.armed = {} /\ NewFsm.due = {}
    BY DEF NewFsm, FsmType, States
  <1> QED
    BY <1>1, Cleared

(* Cancel of one timer, field by field. *)
LEMMA CancelTimerFields ==
    ASSUME NEW f \in FsmType, NEW t
    PROVE  /\ CancelTimer(f, t) \in FsmType
           /\ CancelTimer(f, t).st = f.st
           /\ CancelTimer(f, t).armed = {e \in f.armed : e.timer # t}
           /\ CancelTimer(f, t).due = f.due
           /\ CancelTimer(f, t).raced = f.raced
           /\ CancelTimer(f, t).late = (f.late \/ \E e \in f.due : e.timer = t)
  BY DEF FsmType, CancelTimer

(* startTimer, field by field. *)
LEMMA StartFields ==
    ASSUME NEW f \in FsmType, NEW te \in TimerEvents, NEW o \in Owners
    PROVE  /\ startTimer(f, te, o) \in FsmType
           /\ startTimer(f, te, o).st = f.st
           /\ startTimer(f, te, o).armed = {e \in f.armed : e.timer # te[1]}
                  \cup {[timer |-> te[1], ev |-> te[2], own |-> o]}
           /\ startTimer(f, te, o).due = f.due
           /\ startTimer(f, te, o).raced = f.raced
           /\ startTimer(f, te, o).late = (f.late \/ \E e \in f.due : e.timer = te[1])
  <1> DEFINE g == CancelTimer(f, te[1])
             new == [timer |-> te[1], ev |-> te[2], own |-> o]
  <1>1. /\ g \in FsmType /\ g.st = f.st /\ g.armed = {e \in f.armed : e.timer # te[1]}
        /\ g.due = f.due /\ g.raced = f.raced
        /\ g.late = (f.late \/ \E e \in f.due : e.timer = te[1])
    BY CancelTimerFields
  <1>2. new \in TimerEntries
    BY DEF TimerEntries
  <1>3. startTimer(f, te, o) = [g EXCEPT !.armed = @ \cup {new}]
    BY DEF startTimer
  <1> HIDE DEF g, new
  <1>4. [g EXCEPT !.armed = @ \cup {new}] \in FsmType
    BY <1>1, <1>2 DEF FsmType
  <1>5. /\ [g EXCEPT !.armed = @ \cup {new}].st = g.st
        /\ [g EXCEPT !.armed = @ \cup {new}].armed = g.armed \cup {new}
        /\ [g EXCEPT !.armed = @ \cup {new}].due = g.due
        /\ [g EXCEPT !.armed = @ \cup {new}].raced = g.raced
        /\ [g EXCEPT !.armed = @ \cup {new}].late = g.late
    BY <1>1 DEF FsmType
  <1> QED
    BY <1>1, <1>3, <1>4, <1>5 DEF new

(* What a row that is taken leaves, on the live FSM and on a dropped one. *)
LEMMA CommitFields ==
    ASSUME NEW f \in FsmType, NEW o \in Owners, NEW row,
           row.to \in States, row.start = Nothing \/ row.start \in TimerEvents
    PROVE  /\ Commit(f, o, row) \in FsmType
           /\ Commit(f, o, row).st = IF o = "live" THEN row.to ELSE f.st
           /\ Commit(f, o, row).due = f.due
           /\ Commit(f, o, row).raced = f.raced
           /\ row.start = Nothing =>
                  /\ Commit(f, o, row).armed = {e \in f.armed : e.timer # row.stop}
                  /\ Commit(f, o, row).late = (f.late \/ \E e \in f.due : e.timer = row.stop)
           /\ row.start # Nothing =>
                  /\ Commit(f, o, row).armed =
                        {e \in f.armed : e.timer # row.stop /\ e.timer # row.start[1]}
                        \cup {[timer |-> row.start[1], ev |-> row.start[2],
                              own |-> IF o = "live" THEN "live" ELSE row.to]}
                  /\ Commit(f, o, row).late =
                        (f.late \/ \E e \in f.due : e.timer = row.stop \/ e.timer = row.start[1])
  <1> DEFINE g == CancelTimer(f, row.stop)
             h == IF o = "live" THEN [g EXCEPT !.st = row.to] ELSE g
             own == IF o = "live" THEN "live" ELSE row.to
  <1>1. /\ g \in FsmType /\ g.st = f.st /\ g.armed = {e \in f.armed : e.timer # row.stop}
        /\ g.due = f.due /\ g.raced = f.raced
        /\ g.late = (f.late \/ \E e \in f.due : e.timer = row.stop)
    BY CancelTimerFields
  <1>2. own \in Owners
    BY DEF Owners
  <1>3. Commit(f, o, row) = IF row.start = Nothing THEN h ELSE startTimer(h, row.start, own)
    BY DEF Commit
  <1> HIDE DEF g
  <1>4. /\ h \in FsmType /\ h.st = (IF o = "live" THEN row.to ELSE f.st) /\ h.armed = g.armed
        /\ h.due = g.due /\ h.raced = g.raced /\ h.late = g.late
    BY <1>1 DEF FsmType
  <1> HIDE DEF h, own
  <1>5. CASE row.start = Nothing
    BY <1>1, <1>3, <1>4, <1>5
  <1>6. CASE row.start # Nothing
    <2>1. row.start \in TimerEvents
      BY <1>6
    <2>2. /\ Commit(f, o, row) \in FsmType
          /\ Commit(f, o, row).st = h.st
          /\ Commit(f, o, row).armed = {e \in h.armed : e.timer # row.start[1]}
                  \cup {[timer |-> row.start[1], ev |-> row.start[2], own |-> own]}
          /\ Commit(f, o, row).due = h.due
          /\ Commit(f, o, row).raced = h.raced
          /\ Commit(f, o, row).late = (h.late \/ \E e \in h.due : e.timer = row.start[1])
      BY <1>2, <1>3, <1>4, <1>6, <2>1, StartFields
    <2>3. {e \in h.armed : e.timer # row.start[1]}
            = {e \in f.armed : e.timer # row.stop /\ e.timer # row.start[1]}
      BY <1>1, <1>4
    <2>4. (h.late \/ \E e \in h.due : e.timer = row.start[1])
            = (f.late \/ \E e \in f.due : e.timer = row.stop \/ e.timer = row.start[1])
      BY <1>1, <1>4
    <2> QED
      BY <1>1, <1>4, <1>6, <2>2, <2>3, <2>4 DEF own
  <1> QED
    BY <1>5, <1>6

(* Fire keeps the type, whatever FSM it is called on. *)
LEMMA FireAtType ==
    ASSUME NEW f \in FsmType, f.raced, NEW o \in Owners, NEW ev
    PROVE  FsmInv(FireAt(f, o, ev))
  <1> DEFINE s == IF o = "live" THEN f.st ELSE o
             row == Row(s, ev)
  <1>0. s \in States /\ FsmInv(f)
    BY DEF Owners, FsmType, FsmInv
  <1>1. CASE row = NoRow
    BY <1>0, <1>1 DEF FireAt
  <1>2. CASE row # NoRow /\ row.act = "clear"
    BY <1>0, <1>2, RemoveHooksInv DEF FireAt
  <1>3. CASE row # NoRow /\ row.act # "clear"
    <2>1. FireAt(f, o, ev) = Commit(f, o, row)
      BY <1>3 DEF FireAt
    <2>2. row.to \in States /\ (row.start = Nothing \/ row.start \in TimerEvents)
      BY <1>0, <1>3, RowType
    <2> HIDE DEF row
    <2>3. Commit(f, o, row) \in FsmType /\ Commit(f, o, row).raced
      BY <2>2, CommitFields
    <2> QED
      BY <2>1, <2>3 DEF FsmInv
  <1> QED
    BY <1>1, <1>2, <1>3

(* The state that Fire leads to. *)
LEMMA FireState ==
    ASSUME NEW f, FsmInv(f), NEW ev
    PROVE  Fire(f, ev).st = IF Row(f.st, ev) = NoRow THEN f.st ELSE Row(f.st, ev).to
  <1> DEFINE row == Row(f.st, ev)
  <1>0. f \in FsmType /\ f.st \in States /\ "live" \in Owners
    BY DEF FsmInv, FsmType, Owners
  <1>1. CASE row = NoRow
    BY <1>1 DEF Fire, FireAt
  <1>2. CASE row # NoRow /\ row.act = "clear"
    BY <1>0, <1>2, RemoveHooksInv, RowType DEF Fire, FireAt
  <1>3. CASE row # NoRow /\ row.act # "clear"
    <2>1. Fire(f, ev) = Commit(f, "live", row)
      BY <1>3 DEF Fire, FireAt
    <2>2. row.to \in States /\ (row.start = Nothing \/ row.start \in TimerEvents)
      BY <1>0, <1>3, RowType
    <2> HIDE DEF row
    <2>3. Commit(f, "live", row).st = row.to
      BY <1>0, <2>2, CommitFields
    <2> QED
      BY <1>3, <2>1, <2>3 DEF row
  <1> QED
    BY <1>1, <1>2, <1>3

(* A handler's event leaves no timer of the state that it leaves. *)
LEMMA FireInv ==
    ASSUME NEW f, FsmInv(f), NEW ev \in HandlerEvents
    PROVE  FsmInv(Fire(f, ev))
  <1> DEFINE row == Row(f.st, ev)
             g == Commit(f, "live", row)
  <1>0. f \in FsmType /\ f.st \in States /\ "live" \in Owners
    BY DEF FsmInv, FsmType, Owners
  <1>1. CASE row = NoRow
    BY <1>1 DEF Fire, FireAt
  <1>2. CASE row # NoRow /\ row.act = "clear"
    BY <1>2, RemoveHooksInv DEF Fire, FireAt
  <1>3. CASE row # NoRow /\ row.act # "clear"
    <2>1. Fire(f, ev) = g
      BY <1>3 DEF Fire, FireAt
    <2>2. row.to \in States /\ (row.start = Nothing \/ row.start \in TimerEvents)
      BY <1>0, <1>3, RowType
    <2>3. /\ \/ row.to = f.st /\ row.start = Nothing
             \/ row.stop = OwnTimer(f.st)
          /\ row.start # Nothing => row.start[2] = OwnExpiry(row.to)
      BY <1>0, <1>3, HandlerRow
    <2> HIDE DEF row
    <2>4. g \in FsmType /\ g.st = row.to /\ g.due = f.due /\ g.raced = f.raced
      BY <1>0, <2>2, CommitFields
    <2>5. CASE f.raced
      BY <2>1, <2>4, <2>5 DEF FsmInv
    <2>6. CASE ~f.raced /\ row.to = f.st /\ row.start = Nothing
      <3>1. /\ g.armed = {e \in f.armed : e.timer # row.stop}
            /\ g.late = (f.late \/ \E e \in f.due : e.timer = row.stop)
        BY <1>0, <2>2, <2>6, CommitFields
      <3>2. Match(f) /\ Once(f)
        BY <2>6 DEF FsmInv
      <3> HIDE DEF g
      <3>3. Match(g)
        BY <2>4, <2>6, <3>1, <3>2 DEF Match, Live
      <3>4. Once(g)
        BY <2>4, <3>1, <3>2 DEF Once
      <3> QED
        BY <2>1, <2>4, <3>3, <3>4 DEF FsmInv
    <2>7. CASE ~f.raced /\ row.stop = OwnTimer(f.st)
      <3>1. Match(f)
        BY <2>7 DEF FsmInv
      <3>2. \A e \in Live(f) : e.timer = row.stop
        <4> SUFFICES ASSUME NEW e \in Live(f) PROVE e.timer = row.stop
          OBVIOUS
        <4>1. e \in TimerEntries
          BY <1>0 DEF Live, FsmType
        <4>2. e.ev = OwnExpiry(f.st)
          BY <3>1 DEF Match
        <4> QED
          BY <1>0, <2>7, <4>1, <4>2, EntryTimer
      <3>3. \A e \in f.armed : e.timer = row.stop
        BY <3>2 DEF Live
      <3>4. f.late \/ \A e \in f.due : e.timer = row.stop
        BY <3>2 DEF Live
      <3>5. CASE row.start = Nothing
        <4>1. /\ g.armed = {e \in f.armed : e.timer # row.stop}
              /\ g.late = (f.late \/ \E e \in f.due : e.timer = row.stop)
          BY <1>0, <2>2, <3>5, CommitFields
        <4> HIDE DEF g
        <4>2. g.armed = {} /\ (g.late \/ g.due = {})
          BY <2>4, <3>3, <3>4, <4>1
        <4> QED
          BY <2>1, <2>4, <4>2, Cleared
      <3>6. CASE row.start # Nothing
        <4> DEFINE new == [timer |-> row.start[1], ev |-> row.start[2], own |-> "live"]
        <4>1. /\ g.armed = {e \in f.armed : e.timer # row.stop /\ e.timer # row.start[1]} \cup {new}
              /\ g.late = (f.late \/ \E e \in f.due : e.timer = row.stop \/ e.timer = row.start[1])
          BY <1>0, <2>2, <3>6, CommitFields
        <4>0. new.own = "live" /\ new.ev = OwnExpiry(row.to)
          BY <2>3, <3>6
        <4> HIDE DEF g, new
        <4>2. g.armed = {new} /\ (g.late \/ g.due = {})
          BY <2>4, <3>3, <3>4, <4>1
        <4>3. Live(g) = {new}
          BY <4>2 DEF Live
        <4>4. Match(g)
          BY <2>4, <4>0, <4>3 DEF Match
        <4>5. Once(g)
          BY <4>2 DEF Once
        <4> QED
          BY <2>1, <2>4, <4>4, <4>5 DEF FsmInv
      <3> QED
        BY <3>5, <3>6
    <2> QED
      BY <2>3, <2>5, <2>6, <2>7
  <1> QED
    BY <1>1, <1>2, <1>3

(* The row of a state's own expiry starts at most the timer of its target. *)
LEMMA ExpiryRow ==
    ASSUME NEW s \in States, s # "Deregistered", Row(s, OwnExpiry(s)).start # Nothing
    PROVE  Row(s, OwnExpiry(s)).start[2] = OwnExpiry(Row(s, OwnExpiry(s)).to)
  BY DEF States, Row, OwnExpiry, Go, Nothing, T3512, IdentificationRow, AuthenticationRow,
         SecurityModeRow, RegisteredInitiatedRow, RegisteredRow,
         DeregistrationInitiatedRow, MTDeregPendingRow

(* A tick that takes an armed entry out of the map keeps FsmInv. *)
LEMMA CollectInv ==
    ASSUME NEW f, FsmInv(f), f.due = {}, NEW e \in f.armed
    PROVE  FsmInv([f EXCEPT !.armed = @ \ {e}, !.due = {e}, !.late = FALSE])
  <1> DEFINE g == [f EXCEPT !.armed = @ \ {e}, !.due = {e}, !.late = FALSE]
  <1>1. f \in FsmType
    BY DEF FsmInv
  <1>2. /\ g \in FsmType /\ g.st = f.st /\ g.armed = f.armed \ {e} /\ g.due = {e}
        /\ g.late = FALSE /\ g.raced = f.raced
    BY <1>1 DEF FsmType
  <1> HIDE DEF g
  <1>3. ASSUME Match(f) PROVE Match(g)
    BY <1>2, <1>3 DEF Match, Live
  <1>4. ASSUME Match(f) PROVE Once(g)
    <2> SUFFICES ASSUME NEW a \in f.armed, a.timer = e.timer PROVE a = e
      BY <1>2 DEF Once
    <2>1. a \in TimerEntries /\ e \in TimerEntries
      BY <1>1 DEF FsmType
    <2>2. a.own = e.own /\ a.ev = e.ev
      BY <1>4 DEF Match, Live
    <2> QED
      BY <2>1, <2>2 DEF TimerEntries
  <1> QED
    BY <1>2, <1>3, <1>4 DEF FsmInv, g

(* The state's own expiry, called back when no timer is armed any more. *)
LEMMA OwnExpiryInv ==
    ASSUME NEW g \in FsmType, g.armed = {}, g.due = {}, Row(g.st, OwnExpiry(g.st)) # NoRow
    PROVE  FsmInv(Fire(g, OwnExpiry(g.st)))
  <1> DEFINE row == Row(g.st, OwnExpiry(g.st))
             h == Commit(g, "live", row)
  <1>1. g.st \in States /\ FsmInv(g) /\ "live" \in Owners
    BY Cleared DEF FsmType, Owners
  <1>2. CASE row.act = "clear"
    BY <1>1, <1>2, RemoveHooksInv DEF Fire, FireAt
  <1>3. CASE row.act # "clear"
    <2>1. Fire(g, OwnExpiry(g.st)) = h
      BY <1>3 DEF Fire, FireAt
    <2>2. row.to \in States /\ (row.start = Nothing \/ row.start \in TimerEvents)
      BY <1>1, RowType
    <2>3. g.st # "Deregistered"
      BY DEF Row, DeregisteredRow, OwnExpiry
    <2>4. row.start # Nothing => row.start[2] = OwnExpiry(row.to)
      BY <1>1, <2>3, ExpiryRow
    <2> HIDE DEF row
    <2>5. h \in FsmType /\ h.st = row.to /\ h.due = {}
      BY <1>1, <2>2, CommitFields
    <2>6. CASE row.start = Nothing
      <3>1. h.armed = {}
        BY <1>1, <2>2, <2>6, CommitFields
      <3> QED
        BY <2>1, <2>5, <3>1, Cleared
    <2>7. CASE row.start # Nothing
      <3> DEFINE new == [timer |-> row.start[1], ev |-> row.start[2], own |-> "live"]
      <3>1. h.armed = {x \in g.armed : x.timer # row.stop /\ x.timer # row.start[1]} \cup {new}
        BY <1>1, <2>2, <2>7, CommitFields
      <3>2. new.own = "live" /\ new.ev = OwnExpiry(row.to)
        BY <2>4, <2>7
      <3> HIDE DEF h, new
      <3>3. Live(h) = {new}
        BY <2>5, <3>1 DEF Live
      <3>4. Match(h) /\ Once(h)
        BY <2>5, <3>2, <3>3 DEF Match, Once
      <3> QED
        BY <2>1, <2>5, <3>4 DEF FsmInv
    <2> QED
      BY <2>6, <2>7
  <1> QED
    BY <1>2, <1>3

(* The callback of a collected entry, late or not, keeps FsmInv. *)
LEMMA ExpiryInv ==
    ASSUME NEW f, FsmInv(f), NEW e \in f.due, NEW g,
           g = [f EXCEPT !.due = {}, !.late = FALSE,
                         !.raced = @ \/ (f.late /\ Row(IF e.own = "live" THEN f.st ELSE e.own, e.ev) # NoRow)]
    PROVE  FsmInv(FireAt(g, e.own, e.ev))
  <1> DEFINE s == IF e.own = "live" THEN f.st ELSE e.own
             row == Row(s, e.ev)
  <1>1. f \in FsmType /\ e \in TimerEntries /\ f.st \in States
    BY DEF FsmInv, FsmType
  <1>2. e.own \in Owners
    BY <1>1 DEF TimerEntries
  <1>3. s \in States
    BY <1>1, <1>2 DEF Owners
  <1>4. /\ g \in FsmType /\ g.st = f.st /\ g.armed = f.armed /\ g.due = {}
        /\ g.late = FALSE /\ g.raced = (f.raced \/ (f.late /\ row # NoRow))
    BY <1>1 DEF FsmType
  <1>5. FireAt(g, e.own, e.ev) = IF row = NoRow THEN g
                                 ELSE IF row.act = "clear" THEN RemoveHooks(g)
                                 ELSE Commit(g, e.own, row)
    BY <1>4 DEF FireAt
  <1>6. CASE f.raced \/ (f.late /\ row # NoRow)
    BY <1>2, <1>4, <1>6, FireAtType
  <1>7. CASE ~f.raced /\ row = NoRow
    <2>1. Match(f)
      BY <1>7 DEF FsmInv
    <2>2. Match(g) /\ Once(g)
      BY <1>4, <2>1 DEF Match, Once, Live
    <2> QED
      BY <1>4, <1>5, <1>7, <2>2 DEF FsmInv
  <1>8. CASE ~f.raced /\ ~f.late /\ row # NoRow
    <2>1. Match(f) /\ Once(f)
      BY <1>8 DEF FsmInv
    <2>2. e.own = "live" /\ e.ev = OwnExpiry(f.st)
      BY <1>8, <2>1 DEF Match, Live
    <2>3. \A a \in f.armed : a.timer = e.timer
      <3> SUFFICES ASSUME NEW a \in f.armed PROVE a.timer = e.timer
        OBVIOUS
      <3>1. a \in TimerEntries
        BY <1>1 DEF FsmType
      <3>2. a.ev = OwnExpiry(f.st)
        BY <2>1 DEF Match, Live
      <3> QED
        BY <1>1, <2>2, <3>1, <3>2, EntryTimer
    <2>4. f.armed = {}
      BY <1>8, <2>1, <2>3 DEF Once
    <2>5. g.armed = {} /\ g.due = {} /\ Row(g.st, OwnExpiry(g.st)) # NoRow
      BY <1>4, <1>8, <2>2, <2>4
    <2> QED
      BY <1>4, <2>2, <2>5, OwnExpiryInv DEF Fire
  <1> QED
    BY <1>4, <1>6, <1>7, <1>8 DEF FsmType
-----------------------------------------------------------------------------
(* The inductive invariant and what the parts of the handlers keep of it. *)

IInv ==
    /\ FsmInv(fsm)
    /\ mm \in MmType
    /\ sec \in SecType
    /\ ran \in RanType
    /\ quiet \in BOOLEAN

(* mirrorToUECtx keeps the type of the 5GMM fields. *)
LEMMA MirrorType ==
    ASSUME NEW m \in MmType, NEW s
    PROVE  Mirror(m, s) \in MmType
  BY DEF Mirror, MmType

(* So does the mirror's part of Fire. *)
LEMMA MirrorFireType ==
    ASSUME NEW m \in MmType, NEW s, NEW ev
    PROVE  MirrorFire(m, s, ev) \in MmType
  BY MirrorType DEF MirrorFire

(* ClearVolatile, abort, rejection and authentication keep the 5GMM types. *)
LEMMA MmTypes ==
    ASSUME NEW m \in MmType
    PROVE  /\ ClearMm(m) \in MmType /\ AbortMm(m) \in MmType /\ RejectMm(m) \in MmType
           /\ \A av, up \in BOOLEAN : AuthMm(m, av, up) \in MmType
  BY DEF ClearMm, AbortMm, RejectMm, AuthMm, MmType

(* What the handlers do to the security context keeps its type. *)
LEMMA SecTypes ==
    ASSUME NEW s \in SecType
    PROVE  DiscardPending(s) \in SecType /\ AuthSec(s) \in SecType
  BY DEF DiscardPending, AuthSec, SecType

(* Release command, setup request and rejection keep the NGAP types. *)
LEMMA RanTypes ==
    ASSUME NEW r \in RanType
    PROVE  /\ ClearRan(r) \in RanType
           /\ \A up \in BOOLEAN :
                 /\ SendCommand(r, up) \in RanType
                 /\ SendICS(r, up) \in RanType
                 /\ RejectRan(r, up) \in RanType
                 /\ \A av \in BOOLEAN : AuthRan(r, av, up) \in RanType
  <1>1. /\ ClearRan(r) \in RanType
        /\ \A up \in BOOLEAN : SendCommand(r, up) \in RanType /\ SendICS(r, up) \in RanType
    BY DEF ClearRan, SendCommand, SendICS, RanType
  <1>2. \A up \in BOOLEAN : RejectRan(r, up) \in RanType
    <2>1. \A q \in RanType : [q EXCEPT !.hard = TRUE, !.cm = "IDLE"] \in RanType
      BY DEF RanType
    <2> QED
      BY <1>1, <2>1 DEF RejectRan
  <1>3. \A av, up \in BOOLEAN : AuthRan(r, av, up) \in RanType
    BY <1>2 DEF AuthRan
  <1> QED
    BY <1>1, <1>2, <1>3

(* checkCollision keeps the invariant and the state of the FSM. *)
LEMMA CheckedTypes ==
    ASSUME IInv
    PROVE  /\ FsmInv(FsmChecked) /\ FsmChecked.st = fsm.st
           /\ MmChecked \in MmType /\ MmAccepted \in MmType
           /\ SecChecked \in SecType
  <1>1. FsmInv(FsmChecked) /\ FsmChecked.st = fsm.st
    BY CancelAllInv DEF IInv, FsmChecked
  <1>2. MmChecked \in MmType
    BY MmTypes DEF IInv, MmChecked
  <1>3. MmAccepted \in MmType
    BY <1>2 DEF MmAccepted, MmType
  <1>4. SecChecked \in SecType
    BY SecTypes DEF IInv, SecChecked
  <1> QED
    BY <1>1, <1>2, <1>3, <1>4

(* startAuthentication keeps FsmInv and the state of the FSM. *)
LEMMA AuthFsmInv ==
    ASSUME NEW f, FsmInv(f), NEW av
    PROVE  FsmInv(AuthFsm(f, av)) /\ AuthFsm(f, av).st = f.st
  BY CancelAllInv DEF AuthFsm

(* The fields of a new context have their types. *)
LEMMA NewTypes == NewMm \in MmType /\ NewSec \in SecType /\ NoRan \in RanType
  BY ConstantsAssumption DEF NewMm, NewSec, NoRan, MmType, SecType, RanType

(* Removing the context keeps the invariant. *)
LEMMA RemoveKeeps ==
    ASSUME Remove
    PROVE  FsmInv(fsm') /\ mm' \in MmType /\ sec' \in SecType /\ ran' \in RanType
  BY NewInv, NewTypes DEF Remove
-----------------------------------------------------------------------------
(* Every action keeps the inductive invariant. *)

(* Initial UE Message and Registration Request keep the invariant. *)
LEMMA RegisterKeeps ==
    ASSUME IInv, Register
    PROVE  IInv'
  <1> USE DEF IInv
  <1>0. Writes \subseteq BOOLEAN
    BY ConstantsAssumption
  <1>1. CASE InitialUEFresh
    BY <1>1, NewInv, NewTypes DEF InitialUEFresh, RanType
  <1>2. CASE InitialUEByTmsi
    BY <1>2, MmTypes DEF InitialUEByTmsi, RanType
  <1>3. CASE InitialUEByRanKey
    BY <1>3 DEF InitialUEByRanKey, RanType
  <1>4. CASE RegistrationDuplicate
    BY <1>4, CheckedTypes DEF RegistrationDuplicate
  <1>5. CASE RegistrationNoSupi
    <2>1. FsmInv(fsm')
      BY <1>5, CheckedTypes, FireInv DEF RegistrationNoSupi, HandlerEvents
    <2>2. [MmChecked EXCEPT !.proc = "Registration", !.retx = TRUE] \in MmType
      BY CheckedTypes DEF MmType
    <2> QED
      BY <1>5, <2>1, <2>2, CheckedTypes, MirrorFireType DEF RegistrationNoSupi
  <1>6. ASSUME NEW m \in MmType, ReuseAccepted(m)
        PROVE  FsmInv(fsm') /\ mm' \in MmType /\ ran' \in RanType
    <2>1. FsmInv(fsm')
      BY <1>6, CheckedTypes, FireInv DEF ReuseAccepted, HandlerEvents
    <2>2. [m EXCEPT !.tmsi = TRUE, !.retx = TRUE] \in MmType
      BY DEF MmType
    <2>3. mm' \in MmType
      BY <1>6, <2>2, MirrorFireType DEF ReuseAccepted
    <2> QED
      BY <1>6, <2>1, <2>3, RanTypes DEF ReuseAccepted
  <1>7. CASE RegistrationReuse
    BY <1>6, <1>7, CheckedTypes DEF RegistrationReuse
  <1>8. CASE RegistrationMigrate
    <2>1. [MmAccepted EXCEPT !.idx = TRUE] \in MmType
      BY CheckedTypes DEF MmType
    <2>2. [SecChecked EXCEPT !.authDone = TRUE] \in SecType
      BY CheckedTypes DEF SecType
    <2> QED
      BY <1>6, <1>8, <2>1, <2>2 DEF RegistrationMigrate
  <1>9. ASSUME NEW b \in BOOLEAN, NEW up \in Writes, RegistrationRejected(b, up)
        PROVE  IInv'
    <2>1. [MmChecked EXCEPT !.lastRR = b \/ @] \in MmType
      BY CheckedTypes DEF MmType
    <2> QED
      BY <1>0, <1>9, <2>1, CheckedTypes, CancelAllInv, MmTypes, RanTypes DEF RegistrationRejected
  <1>10. ASSUME NEW b \in BOOLEAN, NEW up \in Writes, RegistrationAuthenticate(b, up)
         PROVE  IInv'
    <2>1. FsmInv(fsm')
      BY <1>10, CheckedTypes, AuthFsmInv, FireInv DEF RegistrationAuthenticate, HandlerEvents
    <2>2. [MmAccepted EXCEPT !.idx = TRUE] \in MmType
      BY CheckedTypes DEF MmType
    <2>3. mm' \in MmType
      BY <1>0, <1>10, <2>2, MmTypes, MirrorFireType DEF RegistrationAuthenticate
    <2> QED
      BY <1>0, <1>10, <2>1, <2>3, CheckedTypes, SecTypes, RanTypes DEF RegistrationAuthenticate
  <1>11. ASSUME NEW b \in BOOLEAN, NEW up \in Writes, RegistrationReuseFails(b, up)
         PROVE  IInv'
    <2>1. FsmInv(fsm')
      BY <1>11, CheckedTypes, AuthFsmInv, FireInv DEF RegistrationReuseFails, HandlerEvents
    <2>2. [MmAccepted EXCEPT !.tmsi = TRUE] \in MmType
      BY CheckedTypes DEF MmType
    <2>3. mm' \in MmType
      BY <1>0, <1>11, <2>2, MmTypes, MirrorFireType DEF RegistrationReuseFails
    <2> QED
      BY <1>0, <1>11, <2>1, <2>3, CheckedTypes, SecTypes, RanTypes DEF RegistrationReuseFails
  <1>12. ASSUME NEW b \in BOOLEAN, NEW up \in Writes, RegistrationMigrateFails(b, up)
         PROVE  IInv'
    <2>1. FsmInv(fsm')
      BY <1>12, CheckedTypes, AuthFsmInv DEF RegistrationMigrateFails
    <2>2. [MmAccepted EXCEPT !.idx = TRUE, !.tmsi = TRUE] \in MmType
      BY CheckedTypes DEF MmType
    <2> QED
      BY <1>0, <1>12, <2>1, <2>2, CheckedTypes, MmTypes, SecTypes, RanTypes
         DEF RegistrationMigrateFails
  <1> QED
    BY <1>1, <1>2, <1>3, <1>4, <1>5, <1>7, <1>8, <1>9, <1>10, <1>11, <1>12 DEF Register

(* Identification, authentication and security mode control keep it. *)
LEMMA CommonProcedureKeeps ==
    ASSUME IInv, CommonProcedure
    PROVE  IInv'
  <1> USE DEF IInv
  <1>0. Writes \subseteq BOOLEAN
    BY ConstantsAssumption
  <1>1. ASSUME NEW b \in BOOLEAN, NEW up \in Writes, IdentityResponse(b, up)
        PROVE  IInv'
    <2>1. FsmInv(fsm')
      BY <1>1, AuthFsmInv, FireInv DEF IdentityResponse, HandlerEvents
    <2>2. [mm EXCEPT !.idx = TRUE] \in MmType
      BY DEF MmType
    <2>3. mm' \in MmType
      BY <1>0, <1>1, <2>2, MmTypes, MirrorFireType DEF IdentityResponse
    <2> QED
      BY <1>0, <1>1, <2>1, <2>3, SecTypes, RanTypes DEF IdentityResponse
  <1>2. ASSUME NEW b \in BOOLEAN, NEW up \in Writes, AuthResponseValid(b, up)
        PROVE  IInv'
    <2>1. FsmInv(fsm')
      BY <1>2, AuthFsmInv, FireInv DEF AuthResponseValid, HandlerEvents
    <2>2. [mm EXCEPT !.retx = up \/ @] \in MmType
      BY <1>0 DEF MmType
    <2>3. mm' \in MmType
      BY <1>2, <2>2, MmTypes, MirrorFireType DEF AuthResponseValid
    <2>4. sec' \in SecType
      BY <1>2 DEF AuthResponseValid, SecType
    <2> QED
      BY <1>0, <1>2, <2>1, <2>3, <2>4, RanTypes DEF AuthResponseValid
  <1>3. ASSUME NEW b \in BOOLEAN, NEW up \in Writes, AuthFailureRetry(b, up)
        PROVE  IInv'
    <2>1. FsmInv(fsm')
      BY <1>3, AuthFsmInv, FireInv DEF AuthFailureRetry, HandlerEvents
    <2>2. mm' \in MmType
      BY <1>0, <1>3, MmTypes, MirrorFireType DEF AuthFailureRetry
    <2>3. sec' \in SecType
      <3>1. AuthSec(sec) \in SecType /\ AuthSec(sec).tries = sec.tries
        BY DEF AuthSec, SecType
      <3>2. sec.tries + 1 \in 0 .. MaxAuthRetries
        BY <1>3, ConstantsAssumption DEF AuthFailureRetry, RetriesLeft, SecType
      <3>3. \A s \in SecType, n \in 0 .. MaxAuthRetries : [s EXCEPT !.tries = n] \in SecType
        BY DEF SecType
      <3> QED
        BY <1>3, <3>1, <3>2, <3>3 DEF AuthFailureRetry
    <2> QED
      BY <1>0, <1>3, <2>1, <2>2, <2>3, RanTypes DEF AuthFailureRetry
  <1>4. ASSUME NEW up \in Writes, IdentityResponseFails(up)
        PROVE  IInv'
    BY <1>0, <1>4, FireInv, CancelAllInv, MirrorFireType, MmTypes, RanTypes
       DEF IdentityResponseFails, HandlerEvents
  <1>5. ASSUME NEW up \in Writes, IdentityUnknown(up)
        PROVE  IInv'
    <2>1. [mm EXCEPT !.idx = TRUE] \in MmType
      BY DEF MmType
    <2> QED
      BY <1>0, <1>5, <2>1, CancelAllInv, MmTypes, RanTypes DEF IdentityUnknown
  <1>6. ASSUME NEW up \in Writes, AuthResponseUndecodable(up)
        PROVE  IInv'
    BY <1>0, <1>6, FireInv, CancelAllInv, MirrorFireType, MmTypes, RanTypes
       DEF AuthResponseUndecodable, HandlerEvents
  <1>7. ASSUME NEW up \in Writes, AuthFailureNgKSIInUse(up)
        PROVE  IInv'
    <2>1. FsmInv(fsm')
      BY <1>7, FireInv DEF AuthFailureNgKSIInUse, HandlerEvents
    <2>2. [mm EXCEPT !.retx = up \/ @] \in MmType
      BY <1>0 DEF MmType
    <2>3. mm' \in MmType
      BY <1>7, <2>2, MirrorFireType DEF AuthFailureNgKSIInUse
    <2>4. sec' \in SecType
      BY <1>7, ConstantsAssumption DEF AuthFailureNgKSIInUse, RetriesLeft, SecType
    <2> QED
      BY <1>7, <2>1, <2>3, <2>4 DEF AuthFailureNgKSIInUse
  <1>8. ASSUME NEW up \in Writes, SecurityModeComplete(up)
        PROVE  IInv'
    <2>1. FsmInv(fsm')
      BY <1>8, FireInv DEF SecurityModeComplete, HandlerEvents
    <2>2. [mm EXCEPT !.tmsi = TRUE, !.retx = up \/ @] \in MmType
      BY <1>0 DEF MmType
    <2>3. mm' \in MmType
      BY <1>8, <2>2, MirrorFireType DEF SecurityModeComplete
    <2>4. sec' \in SecType
      BY <1>8 DEF SecurityModeComplete, SecType
    <2> QED
      BY <1>0, <1>8, <2>1, <2>3, <2>4, RanTypes DEF SecurityModeComplete
  <1>9. ASSUME NEW up \in Writes, SecurityModeNoContainer(up)
        PROVE  IInv'
    <2>1. sec' \in SecType
      BY <1>9 DEF SecurityModeNoContainer, SecType
    <2> QED
      BY <1>0, <1>9, <2>1, CancelAllInv, MmTypes, RanTypes DEF SecurityModeNoContainer
  <1>10. ASSUME NEW up \in Writes, SecurityModeReject(up)
         PROVE  IInv'
    BY <1>0, <1>10, FireInv, CancelAllInv, MirrorFireType, MmTypes, SecTypes, RanTypes
       DEF SecurityModeReject, HandlerEvents
  <1>11. CASE AuthResponseWrong
    BY <1>11, RemoveKeeps DEF AuthResponseWrong
  <1>12. CASE AuthFailureUndecodable
    <2>1. \A m \in MmType : [m EXCEPT !.proc = "None"] \in MmType
      BY DEF MmType
    <2> QED
      BY <1>12, <2>1, FireInv, MirrorFireType DEF AuthFailureUndecodable, HandlerEvents
  <1>13. CASE AuthFailureExhausted
    BY <1>13, RemoveKeeps DEF AuthFailureExhausted
  <1> QED
    BY <1>1, <1>2, <1>3, <1>4, <1>5, <1>6, <1>7, <1>8, <1>9, <1>10, <1>11, <1>12, <1>13
       DEF CommonProcedure

(* The other NAS handlers keep it. *)
LEMMA OtherNasKeeps ==
    ASSUME IInv, OtherNas
    PROVE  IInv'
  <1> USE DEF IInv
  <1>0. Writes \subseteq BOOLEAN
    BY ConstantsAssumption
  <1>1. \A r \in RanType : [r EXCEPT !.cm = "CONNECTED"] \in RanType
    BY DEF RanType
  <1>2. CASE RegistrationComplete
    <2>1. [mm EXCEPT !.rm = "REGISTERED", !.proc = "None"] \in MmType
      BY DEF MmType
    <2> QED
      BY <1>1, <1>2, <2>1, FireInv, MirrorFireType DEF RegistrationComplete, HandlerEvents
  <1>3. ASSUME NEW b \in BOOLEAN, NEW up \in Writes, ServiceRequest(b, up)
        PROVE  IInv'
    <2>1. SendICS(ran, b /\ up) \in RanType
      BY <1>0, RanTypes
    <2> QED
      BY <1>1, <1>3, <2>1, FireInv, MirrorFireType DEF ServiceRequest, HandlerEvents
  <1>4. ASSUME NEW ev \in {"ULNASTransport", "Status5GMM"}, NasInRegistered(ev)
        PROVE  IInv'
    BY <1>4, FireInv, MirrorFireType DEF NasInRegistered, HandlerEvents
  <1>5. CASE ConfigUpdateComplete
    <2>1. [mm EXCEPT !.proc = "None"] \in MmType
      BY DEF MmType
    <2> QED
      BY <1>5, <2>1, FireInv, MirrorFireType DEF ConfigUpdateComplete, HandlerEvents
  <1>6. FsmInv(RemoveHooks(Fire(CancelAllForUE(fsm), "DeregistrationRequestMO")))
    BY CancelAllInv, FireInv, RemoveHooksInv DEF HandlerEvents
  <1>7. ASSUME NEW up \in Writes, DeregistrationMO(up)
        PROVE  IInv'
    BY <1>0, <1>6, <1>7, CheckedTypes, MmTypes, RanTypes DEF DeregistrationMO
  <1>8. ASSUME NEW up \in Writes, DeregistrationByTmsi(up)
        PROVE  IInv'
    <2>1. [ran EXCEPT !.conn = TRUE, !.rel = FALSE] \in RanType
      BY DEF RanType
    <2> QED
      BY <1>0, <1>6, <1>8, <2>1, MmTypes, RanTypes DEF DeregistrationByTmsi
  <1>9. ASSUME NEW up \in Writes, DeregistrationAccept(up)
        PROVE  IInv'
    <2>1. FsmInv(fsm')
      BY <1>9, CancelTimerInv, FireInv, RemoveHooksInv DEF DeregistrationAccept, HandlerEvents
    <2> QED
      BY <1>0, <1>9, <2>1, MmTypes, RanTypes DEF DeregistrationAccept
  <1>10. CASE DeregistrationUndecodable
    BY <1>10, CheckedTypes DEF DeregistrationUndecodable
  <1> QED
    BY <1>2, <1>3, <1>4, <1>5, <1>7, <1>8, <1>9, <1>10 DEF OtherNas

(* The NGAP procedures of the gNB keep it. *)
LEMMA NgapKeeps ==
    ASSUME IInv, Ngap
    PROVE  IInv'
  <1> USE DEF IInv
  <1>0. Writes \subseteq BOOLEAN
    BY ConstantsAssumption
  <1>1. ASSUME NEW b \in BOOLEAN, NEW up \in Writes, ReleaseRequest(b, up)
        PROVE  IInv'
    <2>1. [ran EXCEPT !.cm = "IDLE", !.ngap = "None"] \in RanType
      BY DEF RanType
    <2>2. ran' \in RanType
      BY <1>0, <1>1, <2>1, RanTypes DEF ReleaseRequest
    <2>3. FsmInv(fsm')
      BY <1>1, CancelAllInv, DropInv, ResetInv DEF ReleaseRequest, LowerLayerFailure
    <2> QED
      BY <1>1, <2>2, <2>3, MmTypes, SecTypes DEF ReleaseRequest
  <1>2. CASE ReleaseComplete
    <2> DEFINE r == Released(ran)
    <2>1. r \in RanType
      BY DEF Released, RanType
    <2> HIDE DEF r
    <2>2. \/ Remove
          \/ fsm' = RemoveHooks(fsm) /\ mm' = ClearMm(mm) /\ ran' = ClearRan(r) /\ UNCHANGED sec
          \/ ran' = r /\ UNCHANGED <<fsm, mm, sec>>
      BY <1>2 DEF ReleaseComplete, r
    <2>3. UNCHANGED quiet
      BY <1>2 DEF ReleaseComplete
    <2> QED
      BY <2>1, <2>2, <2>3, RemoveKeeps, RemoveHooksInv, MmTypes, RanTypes
  <1>3. CASE ICSAnswer
    BY <1>3 DEF ICSAnswer, RanType
  <1>4. CASE GnbLost
    BY <1>4, RemoveKeeps DEF GnbLost
  <1>5. CASE Superseded
    BY <1>5, RemoveKeeps DEF Superseded
  <1> QED
    BY <1>1, <1>2, <1>3, <1>4, <1>5 DEF Ngap

(* The tick goroutine keeps it. *)
LEMMA TickKeeps ==
    ASSUME IInv, Tick
    PROVE  IInv'
  <1> USE DEF IInv
  <1>0. Writes \subseteq BOOLEAN
    BY ConstantsAssumption
  <1>1. ASSUME NEW e \in fsm.armed, Collect(e)
        PROVE  IInv'
    BY <1>1, CollectInv DEF Collect
  <1>2. ASSUME NEW e \in fsm.due, NEW up \in Writes, ExpiryCallback(e, up)
        PROVE  IInv'
    <2>1. FsmInv(fsm')
      BY <1>2, ExpiryInv DEF ExpiryCallback
    <2>2. mm' \in MmType
      BY <1>2, MmTypes, MirrorFireType DEF ExpiryCallback
    <2>3. ran' \in RanType
      BY <1>0, <1>2, RanTypes DEF ExpiryCallback
    <2> QED
      BY <1>2, <2>1, <2>2, <2>3 DEF ExpiryCallback
  <1> QED
    BY <1>1, <1>2 DEF Tick

(* The invariant holds in every reachable state. *)
THEOREM Invariant == Spec => []IInv
  <1>1. Init => IInv
    BY NewInv, NewTypes DEF Init, IInv
  <1>2. IInv /\ [Next]_vars => IInv'
    <2> SUFFICES ASSUME IInv, [Next]_vars PROVE IInv'
      OBVIOUS
    <2>1. CASE FallSilent
      BY <2>1 DEF FallSilent, IInv
    <2>2. CASE UNCHANGED vars
      BY <2>2 DEF vars, IInv
    <2> QED
      BY <2>1, <2>2, RegisterKeeps, CommonProcedureKeeps, OtherNasKeeps, NgapKeeps, TickKeeps
         DEF Next
  <1> QED
    BY <1>1, <1>2, PTL DEF Spec

(* The fields of the context keep their types, the retry counter its limit. *)
THEOREM TypeCorrect == Spec => []TypeOK
  <1>1. IInv => TypeOK
    BY DEF IInv, FsmInv, TypeOK
  <1> QED
    BY <1>1, Invariant, PTL

(* Unless a callback came late, the timers belong to the state of the FSM. *)
THEOREM TimersFollowState == Spec => []TimerOfState
  <1>1. IInv => TimerOfState
    BY DEF IInv, FsmInv, Match, Live, TimerOfState
  <1> QED
    BY <1>1, Invariant, PTL
-----------------------------------------------------------------------------
(***************************************************************************)
(* That nothing is accepted without authentication needs more: the         *)
(* migration that fails starts a challenge without an event to the FSM,    *)
(* and is harmless only because a context that is not indexed yet has not  *)
(* left the first two states.  Fresh says so of the FSM and of the FSMs    *)
(* that callbacks hold; a registered or authenticated context is indexed.  *)
(***************************************************************************)
First == {"Deregistered", "Identification"}

Fresh(f) ==
    f.st \in First /\ \A e \in f.armed \cup f.due : e.own \in First \cup {"live"}

Indexed == mm.idx \/ (Fresh(fsm) /\ ~sec.authDone /\ mm.rm = "DEREGISTERED")

AuthInv == Indexed /\ AcceptAfterAuthentication

Accepting == {"SecurityMode", "RegisteredInitiated"}

(* Three events alone lead to security mode control or to the accept. *)
LEMMA AcceptingRow ==
    ASSUME NEW s \in States, NEW ev, Row(s, ev) # NoRow, Row(s, ev).to \in Accepting
    PROVE  ev \in {"AuthResponseValid", "SecurityModeComplete", "RegRequestContextValid"}
  <1> USE DEF Go, NoRow, Accepting
  <1>1. CASE s = "Deregistered"
    BY <1>1 DEF Row, DeregisteredRow
  <1>2. CASE s = "Identification"
    BY <1>2 DEF Row, IdentificationRow
  <1>3. CASE s = "Authentication"
    BY <1>3 DEF Row, AuthenticationRow
  <1>4. CASE s = "SecurityMode"
    BY <1>4 DEF Row, SecurityModeRow
  <1>5. CASE s = "RegisteredInitiated"
    BY <1>5 DEF Row, RegisteredInitiatedRow
  <1>6. CASE s = "Registered"
    BY <1>6 DEF Row, RegisteredRow
  <1>7. CASE s = "DeregistrationInitiated"
    BY <1>7 DEF Row, DeregistrationInitiatedRow
  <1>8. CASE s = "MTDeregPending"
    BY <1>8 DEF Row, MTDeregPendingRow
  <1> QED
    BY <1>1, <1>2, <1>3, <1>4, <1>5, <1>6, <1>7, <1>8 DEF States

(* The other events never bring the FSM to where it may accept. *)
LEMMA FireAtQuiet ==
    ASSUME NEW f \in FsmType, NEW o \in Owners, NEW ev,
           ev \notin {"AuthResponseValid", "SecurityModeComplete", "RegRequestContextValid"},
           FireAt(f, o, ev).st \in Accepting
    PROVE  f.st = FireAt(f, o, ev).st
  <1> DEFINE s == IF o = "live" THEN f.st ELSE o
             row == Row(s, ev)
  <1>1. s \in States
    BY DEF FsmType, Owners
  <1>2. CASE row = NoRow
    BY <1>2 DEF FireAt
  <1>3. CASE row # NoRow /\ row.act = "clear"
    <2>1. RemoveHooks(f).st = "Deregistered"
      BY DEF FsmType, RemoveHooks, CancelAllForUE, Drop
    <2> QED
      BY <1>3, <2>1 DEF FireAt, Accepting
  <1>4. CASE row # NoRow /\ row.act # "clear"
    <2>1. FireAt(f, o, ev) = Commit(f, o, row)
      BY <1>4 DEF FireAt
    <2>2. row.to \in States /\ (row.start = Nothing \/ row.start \in TimerEvents)
      BY <1>1, <1>4, RowType
    <2>3. row.to \notin Accepting
      BY <1>1, <1>4, AcceptingRow
    <2> HIDE DEF row
    <2>4. Commit(f, o, row).st = IF o = "live" THEN row.to ELSE f.st
      BY <2>2, CommitFields
    <2> QED
      BY <2>1, <2>3, <2>4
  <1> QED
    BY <1>2, <1>3, <1>4

(* The same of the live FSM. *)
LEMMA FireQuiet ==
    ASSUME NEW f, FsmInv(f), NEW ev,
           ev \notin {"AuthResponseValid", "SecurityModeComplete", "RegRequestContextValid"},
           Fire(f, ev).st \in Accepting
    PROVE  f.st = Fire(f, ev).st
  BY FireAtQuiet DEF Fire, FsmInv, Owners

(* A registration that restarts leaves the states that may accept. *)
LEMMA RestartLeaves ==
    ASSUME NEW f, FsmInv(f)
    PROVE  Fire(f, "RegistrationRequest").st \notin Accepting
  <1>1. f.st \in States
    BY DEF FsmInv, FsmType
  <1>2. f.st \in Accepting => /\ Row(f.st, "RegistrationRequest") # NoRow
                              /\ Row(f.st, "RegistrationRequest").to = "Authentication"
    BY DEF Accepting, Row, SecurityModeRow, RegisteredInitiatedRow, Go, NoRow
  <1>3. f.st \in Accepting => Fire(f, "RegistrationRequest").st = "Authentication"
    BY <1>2, FireState
  <1> QED
    BY <1>3, FireQuiet DEF Accepting

(* The rows of the first two states that stay there. *)
LEMMA FirstRow ==
    ASSUME NEW s \in First, NEW ev, Row(s, ev) # NoRow,
           ev \notin {"RegistrationRequest", "RegRequestContextValid", "IdentityResponse"}
    PROVE  Row(s, ev).to \in First
  <1>1. CASE s = "Deregistered"
    BY <1>1 DEF Row, DeregisteredRow, Go, First
  <1>2. CASE s = "Identification"
    BY <1>2 DEF Row, IdentificationRow, Go, First
  <1> QED
    BY <1>1, <1>2 DEF First

(* CancelAllForUE keeps a context fresh. *)
LEMMA FreshCancelAll ==
    ASSUME NEW f \in FsmType, Fresh(f)
    PROVE  Fresh(CancelAllForUE(f))
  BY DEF FsmType, CancelAllForUE, Fresh

(* Cancel of one timer keeps a context fresh. *)
LEMMA FreshCancelTimer ==
    ASSUME NEW f \in FsmType, Fresh(f), NEW t
    PROVE  Fresh(CancelTimer(f, t))
  BY CancelTimerFields DEF Fresh

(* Drop keeps a context fresh: callbacks keep one of the first two states. *)
LEMMA FreshDrop ==
    ASSUME NEW f \in FsmType, Fresh(f)
    PROVE  Fresh(Drop(f))
  <1> DEFINE moved(e) == [e EXCEPT !.own = IF @ = "live" THEN f.st ELSE @]
  <1>1. /\ Drop(f).st = "Deregistered" /\ Drop(f).armed = f.armed
        /\ Drop(f).due = {moved(e) : e \in f.due}
    BY DEF FsmType, Drop
  <1>2. \A e \in f.due : moved(e).own \in First
    BY DEF FsmType, TimerEntries, Fresh
  <1> HIDE DEF moved
  <1> QED
    BY <1>1, <1>2 DEF Fresh, First

(* The removal hooks keep a context fresh. *)
LEMMA FreshRemoveHooks ==
    ASSUME NEW f \in FsmType, Fresh(f)
    PROVE  Fresh(RemoveHooks(f))
  <1>1. CancelAllForUE(f) \in FsmType
    BY DEF FsmType, CancelAllForUE
  <1> QED
    BY <1>1, FreshCancelAll, FreshDrop DEF RemoveHooks

(* Fire on a fresh context, on the live FSM or on one a callback holds. *)
LEMMA FreshFireAt ==
    ASSUME NEW f \in FsmType, Fresh(f), NEW o \in First \cup {"live"}, NEW ev,
           ev \notin {"RegistrationRequest", "RegRequestContextValid", "IdentityResponse"}
    PROVE  Fresh(FireAt(f, o, ev))
  <1> DEFINE s == IF o = "live" THEN f.st ELSE o
             row == Row(s, ev)
             g == Commit(f, o, row)
  <1>1. f \in FsmType /\ s \in First /\ s \in States /\ o \in Owners
    BY DEF Fresh, First, States, Owners
  <1>2. CASE row = NoRow
    BY <1>2 DEF FireAt
  <1>3. CASE row # NoRow /\ row.act = "clear"
    BY <1>3, FreshRemoveHooks DEF FireAt
  <1>4. CASE row # NoRow /\ row.act # "clear"
    <2>1. FireAt(f, o, ev) = g
      BY <1>4 DEF FireAt
    <2>2. row.to \in States /\ (row.start = Nothing \/ row.start \in TimerEvents)
      BY <1>1, <1>4, RowType
    <2>3. row.to \in First
      BY <1>1, <1>4, FirstRow
    <2> DEFINE own == IF o = "live" THEN "live" ELSE row.to
               new == [timer |-> row.start[1], ev |-> row.start[2], own |-> own]
    <2> HIDE DEF row
    <2>4. g.st \in First /\ g.due = f.due
      BY <1>1, <2>2, <2>3, CommitFields DEF Fresh
    <2>5. row.start = Nothing => g.armed = {e \in f.armed : e.timer # row.stop}
      BY <1>1, <2>2, CommitFields
    <2>6. row.start # Nothing =>
            g.armed = {e \in f.armed : e.timer # row.stop /\ e.timer # row.start[1]} \cup {new}
      BY <1>1, <2>2, CommitFields
    <2>7. new.own \in First \cup {"live"}
      BY <2>3
    <2> HIDE DEF g, new
    <2>8. g.armed \subseteq f.armed \cup {new}
      BY <2>5, <2>6
    <2> QED
      BY <2>1, <2>4, <2>7, <2>8 DEF Fresh
  <1> QED
    BY <1>2, <1>3, <1>4

(* The same of the live FSM. *)
LEMMA FreshFire ==
    ASSUME NEW f \in FsmType, Fresh(f), NEW ev,
           ev \notin {"RegistrationRequest", "RegRequestContextValid", "IdentityResponse"}
    PROVE  Fresh(Fire(f, ev))
  BY FreshFireAt DEF Fire

(* The mirror sets RM-REGISTERED only when the FSM enters Registered. *)
LEMMA MirrorFireFields ==
    ASSUME NEW m \in MmType, NEW s, NEW ev
    PROVE  /\ MirrorFire(m, s, ev).idx = m.idx
           /\ \/ MirrorFire(m, s, ev).rm \in {"DEREGISTERED", m.rm}
              \/ Row(s, ev) # NoRow /\ Row(s, ev).to = "Registered"
  BY DEF MirrorFire, Mirror, MmType

(* The shared parts of the handlers never take the index away. *)
LEMMA MmFields ==
    ASSUME NEW m \in MmType
    PROVE  /\ ClearMm(m).idx = m.idx /\ ClearMm(m).rm = "DEREGISTERED"
           /\ AbortMm(m).idx = m.idx /\ AbortMm(m).rm = m.rm
           /\ RejectMm(m).idx = m.idx /\ RejectMm(m).rm = "DEREGISTERED"
           /\ \A av, up : /\ AuthMm(m, av, up).idx = m.idx
                          /\ AuthMm(m, av, up).rm \in {"DEREGISTERED", m.rm}
  BY DEF ClearMm, AbortMm, RejectMm, AuthMm, MmType

(* startAuthentication leaves an indexed context indexed. *)
LEMMA AuthIdx ==
    ASSUME NEW m \in MmType, m.idx, NEW av \in BOOLEAN, NEW up \in Writes, NEW s, NEW ev
    PROVE  MirrorFire(AuthMm(m, av, up), s, ev).idx
  <1>1. AuthMm(m, av, up) \in MmType
    BY MmTypes, ConstantsAssumption
  <1>2. AuthMm(m, av, up).idx = m.idx
    BY MmFields
  <1> QED
    BY <1>1, <1>2, MirrorFireFields

(* DiscardPending keeps AuthDone, a new challenge clears it. *)
LEMMA SecFields ==
    ASSUME NEW s \in SecType
    PROVE  DiscardPending(s).authDone = s.authDone /\ AuthSec(s).authDone = FALSE
  BY DEF DiscardPending, AuthSec, SecType

(* checkCollision keeps index, RM, AuthDone and freshness. *)
LEMMA CheckedFields ==
    ASSUME IInv
    PROVE  /\ MmChecked.idx = mm.idx /\ MmChecked.rm = mm.rm
           /\ MmAccepted.idx = mm.idx /\ MmAccepted.rm = mm.rm
           /\ SecChecked.authDone = sec.authDone
           /\ FsmChecked \in FsmType
           /\ Fresh(fsm) => Fresh(FsmChecked)
  <1>1. MmChecked.idx = mm.idx /\ MmChecked.rm = mm.rm /\ MmChecked \in MmType
    BY MmFields, CheckedTypes DEF IInv, MmChecked
  <1>2. MmAccepted.idx = mm.idx /\ MmAccepted.rm = mm.rm
    BY <1>1 DEF MmAccepted, MmType
  <1>3. SecChecked.authDone = sec.authDone
    BY SecFields DEF IInv, SecChecked
  <1>4. FsmChecked \in FsmType
    BY CheckedTypes DEF FsmInv
  <1>5. Fresh(fsm) => Fresh(FsmChecked)
    BY FreshCancelAll DEF IInv, FsmInv, FsmChecked
  <1> QED
    BY <1>1, <1>2, <1>3, <1>4, <1>5

(* A new or removed context satisfies AuthInv. *)
LEMMA NewAuth ==
    ASSUME fsm' = NewFsm, mm' = NewMm, sec' = NewSec
    PROVE  AuthInv'
  BY DEF NewFsm, NewMm, NewSec, AuthInv, Indexed, Fresh, First, AcceptAfterAuthentication

(* Initial UE Message and Registration Request keep AuthInv. *)
LEMMA RegisterAuth ==
    ASSUME IInv, AuthInv, Register
    PROVE  AuthInv'
  <1> USE DEF AuthInv
  <1>t. fsm \in FsmType /\ FsmInv(fsm) /\ mm \in MmType /\ sec \in SecType
    BY DEF IInv, FsmInv
  <1>1. CASE InitialUEFresh
    BY <1>1, NewAuth DEF InitialUEFresh
  <1>2. CASE InitialUEByTmsi
    BY <1>2, <1>t, MmFields DEF InitialUEByTmsi, Indexed, AcceptAfterAuthentication
  <1>3. CASE InitialUEByRanKey
    BY <1>3 DEF InitialUEByRanKey, Indexed, AcceptAfterAuthentication
  <1>4. CASE RegistrationDuplicate
    BY <1>4, CheckedFields, CheckedTypes DEF RegistrationDuplicate, Indexed, AcceptAfterAuthentication
  <1>5. CASE RegistrationNoSupi
    <2> DEFINE m == [MmChecked EXCEPT !.proc = "Registration", !.retx = TRUE]
    <2>1. m \in MmType /\ m.idx = mm.idx /\ m.rm = mm.rm
      BY CheckedFields, CheckedTypes DEF MmType
    <2> HIDE DEF m
    <2>2. mm' = MirrorFire(m, fsm.st, "IdentityRequestSent")
          /\ fsm' = Fire(FsmChecked, "IdentityRequestSent") /\ sec' = SecChecked
      BY <1>5 DEF RegistrationNoSupi, m
    <2>3. Indexed'
      <3> SUFFICES ASSUME ~mm.idx
                   PROVE  Fresh(fsm') /\ ~sec'.authDone /\ mm'.rm = "DEREGISTERED"
        BY <2>1, <2>2, MirrorFireFields DEF Indexed
      <3>1. Fresh(fsm) /\ ~sec.authDone /\ mm.rm = "DEREGISTERED"
        BY DEF Indexed
      <3>2. Fresh(fsm')
        BY <2>2, <3>1, CheckedFields, FreshFire
      <3>3. Row(fsm.st, "IdentityRequestSent") # NoRow
              => Row(fsm.st, "IdentityRequestSent").to # "Registered"
        BY <3>1, FirstRow DEF Fresh, First
      <3> QED
        BY <2>1, <2>2, <3>1, <3>2, <3>3, CheckedFields, MirrorFireFields
    <2>4. AcceptAfterAuthentication'
      BY <2>2, CheckedFields, CheckedTypes, FireQuiet DEF AcceptAfterAuthentication, Accepting
    <2> QED
      BY <2>3, <2>4
  <1>6. CASE RegistrationReuse
    <2>1. sec.authDone /\ sec'.authDone = sec.authDone /\ mm.idx
      BY <1>6, CheckedFields DEF RegistrationReuse, Indexed
    <2>2. [MmAccepted EXCEPT !.tmsi = TRUE, !.retx = TRUE] \in MmType
          /\ [MmAccepted EXCEPT !.tmsi = TRUE, !.retx = TRUE].idx = mm.idx
      BY CheckedFields, CheckedTypes DEF MmType
    <2>3. mm'.idx
      BY <1>6, <2>1, <2>2, MirrorFireFields DEF RegistrationReuse, ReuseAccepted
    <2> QED
      BY <2>1, <2>3 DEF Indexed, AcceptAfterAuthentication
  <1>7. CASE RegistrationMigrate
    <2> DEFINE m == [[MmAccepted EXCEPT !.idx = TRUE] EXCEPT !.tmsi = TRUE, !.retx = TRUE]
    <2>1. m \in MmType /\ m.idx
      BY CheckedTypes DEF MmType
    <2> HIDE DEF m
    <2>2. mm'.idx
      BY <1>7, <2>1, MirrorFireFields DEF RegistrationMigrate, ReuseAccepted, m
    <2>3. sec'.authDone
      BY <1>7, CheckedTypes DEF RegistrationMigrate, SecType
    <2> QED
      BY <2>2, <2>3 DEF Indexed, AcceptAfterAuthentication
  <1>8. ASSUME NEW b \in BOOLEAN, NEW up \in Writes, RegistrationRejected(b, up)
        PROVE  AuthInv'
    <2>1. [MmChecked EXCEPT !.lastRR = b \/ @] \in MmType
          /\ [MmChecked EXCEPT !.lastRR = b \/ @].idx = mm.idx
      BY CheckedFields, CheckedTypes DEF MmType
    <2>2. mm'.idx = mm.idx /\ mm'.rm = "DEREGISTERED"
      BY <1>8, <2>1, MmFields DEF RegistrationRejected
    <2>3. sec'.authDone = sec.authDone /\ fsm' = CancelAllForUE(fsm)
      BY <1>8, CheckedFields DEF RegistrationRejected
    <2> QED
      BY <1>t, <2>2, <2>3, CancelAllInv, FreshCancelAll DEF Indexed, AcceptAfterAuthentication
  <1>9. ASSUME NEW b \in BOOLEAN, NEW up \in Writes, RegistrationAuthenticate(b, up)
        PROVE  AuthInv'
    <2>1. [MmAccepted EXCEPT !.idx = TRUE] \in MmType /\ [MmAccepted EXCEPT !.idx = TRUE].idx
      BY CheckedTypes DEF MmType
    <2>3. mm'.idx
      BY <1>9, <2>1, AuthIdx DEF RegistrationAuthenticate
    <2>4. fsm'.st \notin Accepting
      BY <1>9, CheckedTypes, AuthFsmInv, RestartLeaves DEF RegistrationAuthenticate
    <2> QED
      BY <2>3, <2>4 DEF Indexed, AcceptAfterAuthentication, Accepting
  <1>10. ASSUME NEW b \in BOOLEAN, NEW up \in Writes, RegistrationReuseFails(b, up)
         PROVE  AuthInv'
    <2>0. mm.idx
      BY <1>10 DEF RegistrationReuseFails, Indexed
    <2>1. [MmAccepted EXCEPT !.tmsi = TRUE] \in MmType /\ [MmAccepted EXCEPT !.tmsi = TRUE].idx
      BY <2>0, CheckedTypes, CheckedFields DEF MmType
    <2>3. mm'.idx
      BY <1>10, <2>1, AuthIdx DEF RegistrationReuseFails
    <2>4. fsm'.st \notin Accepting
      BY <1>10, CheckedTypes, AuthFsmInv, RestartLeaves DEF RegistrationReuseFails
    <2> QED
      BY <2>3, <2>4 DEF Indexed, AcceptAfterAuthentication, Accepting
  <1>11. ASSUME NEW b \in BOOLEAN, NEW up \in Writes, RegistrationMigrateFails(b, up)
         PROVE  AuthInv'
    <2>1. [MmAccepted EXCEPT !.idx = TRUE, !.tmsi = TRUE] \in MmType
          /\ [MmAccepted EXCEPT !.idx = TRUE, !.tmsi = TRUE].idx
      BY CheckedTypes DEF MmType
    <2>2. mm'.idx
      BY <1>11, <2>1, MmFields DEF RegistrationMigrateFails
    <2>3. fsm.st \in First
      BY <1>11 DEF RegistrationMigrateFails, Indexed, Fresh
    <2>4. fsm'.st = fsm.st
      BY <1>11, CheckedTypes, AuthFsmInv DEF RegistrationMigrateFails
    <2> QED
      BY <2>2, <2>3, <2>4 DEF Indexed, AcceptAfterAuthentication, First
  <1> QED
    BY <1>1, <1>2, <1>3, <1>4, <1>5, <1>6, <1>7, <1>8, <1>9, <1>10, <1>11 DEF Register

(* Identification, authentication and security mode control keep AuthInv. *)
LEMMA CommonProcedureAuth ==
    ASSUME IInv, AuthInv, CommonProcedure
    PROVE  AuthInv'
  <1> USE DEF AuthInv
  <1>t. fsm \in FsmType /\ FsmInv(fsm) /\ mm \in MmType /\ sec \in SecType
    BY DEF IInv, FsmInv
  <1>i. fsm.st \notin First => mm.idx
    BY DEF Indexed, Fresh
  <1>q. \A ev : /\ ev \in HandlerEvents
                /\ ev \notin {"AuthResponseValid", "SecurityModeComplete", "RegRequestContextValid"}
                /\ Fire(fsm, ev).st \in Accepting
                => /\ fsm.st = Fire(fsm, ev).st
                   /\ sec.authDone
    BY <1>t, FireQuiet DEF AcceptAfterAuthentication, Accepting
  <1>1. ASSUME NEW b \in BOOLEAN, NEW up \in Writes, IdentityResponse(b, up)
        PROVE  AuthInv'
    <2>1. [mm EXCEPT !.idx = TRUE] \in MmType /\ [mm EXCEPT !.idx = TRUE].idx
      BY <1>t DEF MmType
    <2>2. mm'.idx
      BY <1>1, <2>1, AuthIdx, MirrorFireFields DEF IdentityResponse
    <2>3. fsm'.st \notin Accepting
      BY <1>1, <1>t, AuthFsmInv, FireQuiet DEF IdentityResponse, Accepting
    <2> QED
      BY <2>2, <2>3 DEF Indexed, AcceptAfterAuthentication, Accepting
  <1>2. ASSUME NEW b \in BOOLEAN, NEW up \in Writes, AuthResponseValid(b, up)
        PROVE  AuthInv'
    <2> DEFINE m == IF b THEN [mm EXCEPT !.retx = up \/ @] ELSE RejectMm(mm)
    <2>1. mm.idx
      BY <1>2, <1>i DEF AuthResponseValid, AwaitsAuthResponse, First
    <2>2. m \in MmType /\ m.idx = mm.idx
      <3>1. [mm EXCEPT !.retx = up \/ @] \in MmType /\ [mm EXCEPT !.retx = up \/ @].idx = mm.idx
        BY <1>t, ConstantsAssumption DEF MmType
      <3>2. RejectMm(mm) \in MmType /\ RejectMm(mm).idx = mm.idx
        BY <1>t, MmFields, MmTypes
      <3> QED
        BY <3>1, <3>2
    <2>3. mm' = MirrorFire(m, fsm.st, "AuthResponseValid")
      BY <1>2 DEF AuthResponseValid
    <2> HIDE DEF m
    <2>4. mm'.idx
      BY <2>1, <2>2, <2>3, MirrorFireFields
    <2>5. sec'.authDone
      BY <1>2, <1>t DEF AuthResponseValid, SecType
    <2> QED
      BY <2>4, <2>5 DEF Indexed, AcceptAfterAuthentication
  <1>3. ASSUME NEW b \in BOOLEAN, NEW up \in Writes, AuthFailureRetry(b, up)
        PROVE  AuthInv'
    <2>1. mm.idx
      BY <1>3, <1>i DEF AuthFailureRetry, AwaitsAuthFailure, First
    <2>2. mm'.idx
      BY <1>3, <1>t, <2>1, AuthIdx DEF AuthFailureRetry
    <2>3. fsm'.st \notin Accepting
      BY <1>3, <1>t, AuthFsmInv, FireQuiet DEF AuthFailureRetry, AwaitsAuthFailure, Accepting
    <2> QED
      BY <2>2, <2>3 DEF Indexed, AcceptAfterAuthentication, Accepting
  <1>4. ASSUME NEW up \in Writes, IdentityResponseFails(up)
        PROVE  AuthInv'
    <2>1. FsmInv(Fire(fsm, "IdentityResponseFail"))
      BY <1>t, FireInv DEF HandlerEvents
    <2>2. fsm'.st = Fire(fsm, "IdentityResponseFail").st
      BY <1>4, <2>1, CancelAllInv DEF IdentityResponseFails
    <2>3. mm'.idx = mm.idx /\ mm'.rm = "DEREGISTERED" /\ sec' = sec
      BY <1>4, <1>t, MirrorFireFields, MirrorFireType, MmFields DEF IdentityResponseFails
    <2>4. Fresh(fsm) => Fresh(fsm')
      BY <1>4, <1>t, <2>1, FreshFire, FreshCancelAll DEF IdentityResponseFails, FsmInv
    <2> QED
      BY <1>q, <2>2, <2>3, <2>4 DEF Indexed, AcceptAfterAuthentication, Accepting, HandlerEvents
  <1>5. ASSUME NEW up \in Writes, IdentityUnknown(up)
        PROVE  AuthInv'
    <2>1. [mm EXCEPT !.idx = TRUE] \in MmType /\ [mm EXCEPT !.idx = TRUE].idx
      BY <1>t DEF MmType
    <2>2. mm'.idx
      BY <1>5, <2>1, MmFields DEF IdentityUnknown
    <2>3. fsm'.st = "Identification"
      BY <1>5, <1>t, CancelAllInv DEF IdentityUnknown
    <2> QED
      BY <2>2, <2>3 DEF Indexed, AcceptAfterAuthentication
  <1>6. ASSUME NEW up \in Writes, AuthResponseUndecodable(up)
        PROVE  AuthInv'
    <2>1. FsmInv(Fire(fsm, "AuthResponseInvalid"))
      BY <1>t, FireInv DEF HandlerEvents
    <2>2. fsm'.st = Fire(fsm, "AuthResponseInvalid").st
      BY <1>6, <2>1, CancelAllInv DEF AuthResponseUndecodable
    <2>3. mm.idx
      BY <1>6, <1>i DEF AuthResponseUndecodable, AwaitsAuthResponse, First
    <2>4. mm'.idx /\ sec' = sec
      BY <1>6, <1>t, <2>3, MirrorFireFields, MirrorFireType, MmFields DEF AuthResponseUndecodable
    <2> QED
      BY <1>q, <2>2, <2>4 DEF Indexed, AcceptAfterAuthentication, Accepting, HandlerEvents
  <1>7. ASSUME NEW up \in Writes, AuthFailureNgKSIInUse(up)
        PROVE  AuthInv'
    <2>1. mm.idx
      BY <1>7, <1>i DEF AuthFailureNgKSIInUse, AwaitsAuthFailure, First
    <2>2. [mm EXCEPT !.retx = up \/ @] \in MmType /\ [mm EXCEPT !.retx = up \/ @].idx
      BY <1>t, <2>1, ConstantsAssumption DEF MmType
    <2>3. mm'.idx
      BY <1>7, <2>2, MirrorFireFields DEF AuthFailureNgKSIInUse
    <2>4. fsm'.st \notin Accepting
      BY <1>7, <1>t, FireQuiet DEF AuthFailureNgKSIInUse, AwaitsAuthFailure, Accepting
    <2> QED
      BY <2>3, <2>4 DEF Indexed, AcceptAfterAuthentication, Accepting
  <1>8. ASSUME NEW up \in Writes, SecurityModeComplete(up)
        PROVE  AuthInv'
    <2>1. mm.idx
      BY <1>8, <1>i DEF SecurityModeComplete, AwaitsSecurityMode, First
    <2>2. [mm EXCEPT !.tmsi = TRUE, !.retx = up \/ @] \in MmType
          /\ [mm EXCEPT !.tmsi = TRUE, !.retx = up \/ @].idx
      BY <1>t, <2>1, ConstantsAssumption DEF MmType
    <2>3. mm'.idx
      BY <1>8, <2>2, MirrorFireFields DEF SecurityModeComplete
    <2>4. sec'.authDone
      BY <1>8, <1>t DEF SecurityModeComplete, SecType
    <2> QED
      BY <2>3, <2>4 DEF Indexed, AcceptAfterAuthentication
  <1>9. ASSUME NEW up \in Writes, SecurityModeNoContainer(up)
        PROVE  AuthInv'
    <2>1. mm.idx
      BY <1>9, <1>i DEF SecurityModeNoContainer, AwaitsSecurityMode, First
    <2>2. mm'.idx
      BY <1>9, <1>t, <2>1, MmFields DEF SecurityModeNoContainer
    <2>3. sec'.authDone
      BY <1>9, <1>t DEF SecurityModeNoContainer, SecType
    <2> QED
      BY <2>2, <2>3 DEF Indexed, AcceptAfterAuthentication
  <1>10. ASSUME NEW up \in Writes, SecurityModeReject(up)
         PROVE  AuthInv'
    <2>1. FsmInv(Fire(fsm, "SecurityModeReject"))
      BY <1>t, FireInv DEF HandlerEvents
    <2>2. fsm'.st = Fire(fsm, "SecurityModeReject").st
      BY <1>10, <2>1, CancelAllInv DEF SecurityModeReject
    <2>3. mm.idx
      BY <1>10, <1>i DEF SecurityModeReject, AwaitsSecurityMode, First
    <2>4. mm'.idx
      BY <1>10, <1>t, <2>3, MirrorFireFields, MirrorFireType, MmFields DEF SecurityModeReject
    <2>5. sec'.authDone = sec.authDone
      BY <1>10, <1>t, SecFields DEF SecurityModeReject
    <2> QED
      BY <1>q, <2>2, <2>4, <2>5 DEF Indexed, AcceptAfterAuthentication, Accepting, HandlerEvents
  <1>11. CASE AuthResponseWrong
    BY <1>11, NewAuth DEF AuthResponseWrong, Remove
  <1>12. CASE AuthFailureUndecodable
    <2>1. mm.idx
      BY <1>12, <1>i DEF AuthFailureUndecodable, AwaitsAuthFailure, First
    <2>2. \A m \in MmType : [m EXCEPT !.proc = "None"].idx = m.idx
      BY DEF MmType
    <2>3. mm'.idx
      BY <1>12, <1>t, <2>1, <2>2, MirrorFireFields, MirrorFireType DEF AuthFailureUndecodable
    <2> QED
      BY <1>12, <1>q, <2>3
         DEF AuthFailureUndecodable, Indexed, AcceptAfterAuthentication, Accepting, HandlerEvents
  <1>13. CASE AuthFailureExhausted
    BY <1>13, NewAuth DEF AuthFailureExhausted, Remove
  <1> QED
    BY <1>1, <1>2, <1>3, <1>4, <1>5, <1>6, <1>7, <1>8, <1>9, <1>10, <1>11, <1>12, <1>13
       DEF CommonProcedure

(* The other NAS handlers keep AuthInv. *)
LEMMA OtherNasAuth ==
    ASSUME IInv, AuthInv, OtherNas
    PROVE  AuthInv'
  <1> USE DEF AuthInv
  <1>t. fsm \in FsmType /\ FsmInv(fsm) /\ mm \in MmType /\ sec \in SecType
    BY DEF IInv, FsmInv
  <1>i. fsm.st \notin First => mm.idx
    BY DEF Indexed, Fresh
  <1>1. ASSUME NEW ev \in {"RegistrationComplete", "ServiceRequest", "ULNASTransport",
                           "Status5GMM", "ConfigUpdateComplete"},
               NEW m \in MmType, m.idx = mm.idx, m.rm = mm.rm \/ mm.idx,
               fsm' = Fire(fsm, ev), mm' = MirrorFire(m, fsm.st, ev), sec' = sec
        PROVE  AuthInv'
    <2>1. AcceptAfterAuthentication'
      BY <1>1, <1>t, FireQuiet DEF AcceptAfterAuthentication, Accepting
    <2>2. CASE mm.idx
      BY <1>1, <2>1, <2>2, MirrorFireFields DEF Indexed
    <2>3. CASE ~mm.idx
      <3>1. Fresh(fsm) /\ ~sec.authDone /\ m.rm = "DEREGISTERED"
        BY <1>1, <2>3 DEF Indexed
      <3>2. Fresh(fsm')
        BY <1>1, <1>t, <3>1, FreshFire
      <3>3. Row(fsm.st, ev) # NoRow => Row(fsm.st, ev).to # "Registered"
        BY <1>1, <3>1, FirstRow DEF Fresh, First
      <3>4. mm'.rm = "DEREGISTERED"
        BY <1>1, <3>1, <3>3, MirrorFireFields
      <3> QED
        BY <1>1, <2>1, <3>1, <3>2, <3>4 DEF Indexed
    <2> QED
      BY <2>2, <2>3
  <1>2. CASE RegistrationComplete
    <2>1. mm.idx
      BY <1>2, <1>i DEF RegistrationComplete, First
    <2>2. [mm EXCEPT !.rm = "REGISTERED", !.proc = "None"] \in MmType
          /\ [mm EXCEPT !.rm = "REGISTERED", !.proc = "None"].idx = mm.idx
      BY <1>t DEF MmType
    <2> QED
      BY <1>1, <1>2, <2>1, <2>2 DEF RegistrationComplete
  <1>3. ASSUME NEW b \in BOOLEAN, NEW up \in Writes, ServiceRequest(b, up)
        PROVE  AuthInv'
    BY <1>1, <1>3, <1>t DEF ServiceRequest
  <1>4. ASSUME NEW ev \in {"ULNASTransport", "Status5GMM"}, NasInRegistered(ev)
        PROVE  AuthInv'
    BY <1>1, <1>4, <1>t DEF NasInRegistered
  <1>5. CASE ConfigUpdateComplete
    <2>1. [mm EXCEPT !.proc = "None"] \in MmType /\ [mm EXCEPT !.proc = "None"].idx = mm.idx
          /\ [mm EXCEPT !.proc = "None"].rm = mm.rm
      BY <1>t DEF MmType
    <2> QED
      BY <1>1, <1>5, <2>1 DEF ConfigUpdateComplete
  <1>6. ASSUME NEW f, FsmInv(f), Fresh(fsm) => Fresh(f), fsm' = RemoveHooks(f),
               mm' = ClearMm(mm), sec'.authDone = sec.authDone
        PROVE  AuthInv'
    <2>1. fsm'.st = "Deregistered"
      BY <1>6, RemoveHooksInv
    <2>2. Fresh(fsm) => Fresh(fsm')
      BY <1>6, FreshRemoveHooks DEF FsmInv
    <2>3. mm'.idx = mm.idx /\ mm'.rm = "DEREGISTERED"
      BY <1>6, <1>t, MmFields
    <2> QED
      BY <1>6, <2>1, <2>2, <2>3 DEF Indexed, AcceptAfterAuthentication
  <1>7. LET f == Fire(CancelAllForUE(fsm), "DeregistrationRequestMO")
        IN  FsmInv(f) /\ (Fresh(fsm) => Fresh(f))
    <2>1. FsmInv(CancelAllForUE(fsm)) /\ (Fresh(fsm) => Fresh(CancelAllForUE(fsm)))
      BY <1>t, CancelAllInv, FreshCancelAll
    <2> QED
      BY <2>1, FireInv, FreshFire DEF FsmInv, HandlerEvents
  <1>8. ASSUME NEW up \in Writes, DeregistrationMO(up)
        PROVE  AuthInv'
    BY <1>6, <1>7, <1>8, CheckedFields DEF DeregistrationMO
  <1>9. ASSUME NEW up \in Writes, DeregistrationByTmsi(up)
        PROVE  AuthInv'
    BY <1>6, <1>7, <1>9 DEF DeregistrationByTmsi
  <1>10. ASSUME NEW up \in Writes, DeregistrationAccept(up)
         PROVE  AuthInv'
    <2>1. FsmInv(CancelTimer(fsm, "T3522")) /\ (Fresh(fsm) => Fresh(CancelTimer(fsm, "T3522")))
      BY <1>t, CancelTimerInv, FreshCancelTimer
    <2>2. FsmInv(Fire(CancelTimer(fsm, "T3522"), "DeregistrationAcceptMT"))
          /\ (Fresh(fsm) => Fresh(Fire(CancelTimer(fsm, "T3522"), "DeregistrationAcceptMT")))
      BY <2>1, FireInv, FreshFire DEF FsmInv, HandlerEvents
    <2> QED
      BY <1>6, <1>10, <2>2 DEF DeregistrationAccept
  <1>11. CASE DeregistrationUndecodable
    BY <1>11, CheckedFields, CheckedTypes
       DEF DeregistrationUndecodable, Indexed, AcceptAfterAuthentication
  <1> QED
    BY <1>2, <1>3, <1>4, <1>5, <1>8, <1>9, <1>10, <1>11 DEF OtherNas

(* The NGAP procedures of the gNB keep AuthInv. *)
LEMMA NgapAuth ==
    ASSUME IInv, AuthInv, Ngap
    PROVE  AuthInv'
  <1> USE DEF AuthInv
  <1>t. fsm \in FsmType /\ FsmInv(fsm) /\ mm \in MmType /\ sec \in SecType
    BY DEF IInv, FsmInv
  <1>1. ASSUME NEW b \in BOOLEAN, NEW up \in Writes, ReleaseRequest(b, up)
        PROVE  AuthInv'
    <2> DEFINE f == CancelAllForUE(fsm)
    <2>1. f \in FsmType /\ FsmInv(f) /\ f.st = fsm.st /\ f.armed = {} /\ (f.late \/ f.due = {})
      BY <1>t, CancelAllInv DEF FsmInv
    <2>2. Fresh(fsm) => Fresh(f)
      BY <1>t, FreshCancelAll
    <2>3. \/ /\ fsm' = IF mm.rm = "REGISTERED" THEN ResetTo(f, "Registered") ELSE Drop(f)
             /\ mm' = AbortMm(mm) /\ sec' = DiscardPending(sec)
          \/ fsm' = f /\ UNCHANGED <<mm, sec>>
      BY <1>1 DEF ReleaseRequest, LowerLayerFailure
    <2> HIDE DEF f
    <2>4. CASE fsm' = f /\ UNCHANGED <<mm, sec>>
      BY <2>1, <2>2, <2>4 DEF Indexed, AcceptAfterAuthentication
    <2>5. CASE /\ fsm' = IF mm.rm = "REGISTERED" THEN ResetTo(f, "Registered") ELSE Drop(f)
               /\ mm' = AbortMm(mm) /\ sec' = DiscardPending(sec)
      <3>1. mm'.idx = mm.idx /\ mm'.rm = mm.rm /\ sec'.authDone = sec.authDone
        BY <1>t, <2>5, MmFields, SecFields
      <3>2. fsm'.st \in {"Registered", "Deregistered"}
        BY <2>1, <2>5, DropInv DEF ResetTo, FsmType
      <3>3. CASE mm.rm = "REGISTERED"
        BY <3>1, <3>2, <3>3 DEF Indexed, AcceptAfterAuthentication
      <3>4. CASE mm.rm # "REGISTERED"
        <4>1. Fresh(fsm) => Fresh(fsm')
          BY <2>1, <2>2, <2>5, <3>4, FreshDrop
        <4> QED
          BY <3>1, <3>2, <4>1 DEF Indexed, AcceptAfterAuthentication
      <3> QED
        BY <3>3, <3>4
    <2> QED
      BY <2>3, <2>4, <2>5
  <1>2. CASE ReleaseComplete
    <2>1. \/ Remove
          \/ fsm' = RemoveHooks(fsm) /\ mm' = ClearMm(mm) /\ UNCHANGED sec
          \/ UNCHANGED <<fsm, mm, sec>>
      BY <1>2 DEF ReleaseComplete
    <2>2. CASE Remove
      BY <2>2, NewAuth DEF Remove
    <2>3. CASE fsm' = RemoveHooks(fsm) /\ mm' = ClearMm(mm) /\ UNCHANGED sec
      BY <1>t, <2>3, RemoveHooksInv, FreshRemoveHooks, MmFields DEF Indexed, AcceptAfterAuthentication
    <2>4. CASE UNCHANGED <<fsm, mm, sec>>
      BY <2>4 DEF Indexed, AcceptAfterAuthentication
    <2> QED
      BY <2>1, <2>2, <2>3, <2>4
  <1>3. CASE ICSAnswer
    BY <1>3 DEF ICSAnswer, Indexed, AcceptAfterAuthentication
  <1>4. CASE GnbLost
    BY <1>4, NewAuth DEF GnbLost, Remove
  <1>5. CASE Superseded
    BY <1>5, NewAuth DEF Superseded, Remove
  <1> QED
    BY <1>1, <1>2, <1>3, <1>4, <1>5 DEF Ngap

(* The tick goroutine keeps AuthInv. *)
LEMMA TickAuth ==
    ASSUME IInv, AuthInv, Tick
    PROVE  AuthInv'
  <1> USE DEF AuthInv
  <1>t. fsm \in FsmType /\ FsmInv(fsm) /\ mm \in MmType /\ sec \in SecType
    BY DEF IInv, FsmInv
  <1>1. ASSUME NEW e \in fsm.armed, Collect(e)
        PROVE  AuthInv'
    <2>1. fsm'.st = fsm.st /\ fsm'.armed \subseteq fsm.armed /\ fsm'.due = {e}
      BY <1>1, <1>t DEF Collect, FsmType
    <2>2. Fresh(fsm) => Fresh(fsm')
      BY <2>1 DEF Fresh
    <2> QED
      BY <1>1, <2>1, <2>2 DEF Collect, Indexed, AcceptAfterAuthentication
  <1>2. ASSUME NEW e \in fsm.due, NEW up \in Writes, ExpiryCallback(e, up)
        PROVE  AuthInv'
    <2> DEFINE s == IF e.own = "live" THEN fsm.st ELSE e.own
               row == Row(s, e.ev)
               f == [fsm EXCEPT !.due = {}, !.late = FALSE,
                                !.raced = @ \/ (fsm.late /\ row # NoRow)]
               m == IF row.act = "clear" THEN ClearMm(mm) ELSE mm
    <2>1. fsm' = FireAt(f, e.own, e.ev) /\ mm' = MirrorFire(m, s, e.ev) /\ sec' = sec
      BY <1>2 DEF ExpiryCallback
    <2>2. f \in FsmType /\ f.st = fsm.st /\ f.armed = fsm.armed /\ f.due = {}
      BY <1>t DEF FsmType
    <2>3. e \in TimerEntries
      BY <1>t DEF FsmType
    <2>4. e.own \in Owners /\ e.ev \in ExpiryEvents
      BY <2>3 DEF TimerEntries, ExpiryEvents
    <2>5. e.ev \notin {"AuthResponseValid", "SecurityModeComplete", "RegRequestContextValid",
                       "RegistrationRequest", "IdentityResponse"}
      BY <2>4 DEF ExpiryEvents, TimerEvents
    <2>6. m \in MmType /\ m.idx = mm.idx /\ (m.rm = "DEREGISTERED" \/ m.rm = mm.rm)
      BY <1>t, MmFields, MmTypes
    <2> HIDE DEF f, m
    <2>7. fsm'.st \in Accepting => fsm.st = fsm'.st
      BY <2>1, <2>2, <2>4, <2>5, FireAtQuiet
    <2>8. AcceptAfterAuthentication'
      BY <2>1, <2>7 DEF AcceptAfterAuthentication, Accepting
    <2>9. CASE mm.idx
      BY <2>1, <2>6, <2>8, <2>9, MirrorFireFields DEF Indexed
    <2>10. CASE ~mm.idx
      <3>1. Fresh(fsm) /\ ~sec.authDone /\ m.rm = "DEREGISTERED"
        BY <2>6, <2>10 DEF Indexed
      <3>2. Fresh(f) /\ e.own \in First \cup {"live"} /\ s \in First
        BY <2>2, <3>1 DEF Fresh
      <3>3. Fresh(fsm')
        BY <2>1, <2>2, <2>5, <3>2, FreshFireAt
      <3>4. row # NoRow => row.to # "Registered"
        BY <2>5, <3>2, FirstRow DEF First
      <3>5. mm'.rm = "DEREGISTERED"
        BY <2>1, <2>6, <3>1, <3>4, MirrorFireFields
      <3> QED
        BY <2>1, <2>8, <3>1, <3>3, <3>5 DEF Indexed
    <2> QED
      BY <2>9, <2>10
  <1> QED
    BY <1>1, <1>2 DEF Tick

(* Security mode control and the accept follow authentication, for every   *)
(* interleaving of messages, failures and timer callbacks.                 *)
THEOREM AuthenticationFirst == Spec => []AcceptAfterAuthentication
  <1>1. Init => AuthInv
    BY DEF Init, NewFsm, NewMm, NewSec, AuthInv, Indexed, Fresh, First, AcceptAfterAuthentication
  <1>2. IInv /\ AuthInv /\ [Next]_vars => AuthInv'
    <2> SUFFICES ASSUME IInv, AuthInv, [Next]_vars PROVE AuthInv'
      OBVIOUS
    <2>1. CASE FallSilent
      BY <2>1 DEF FallSilent, AuthInv, Indexed, AcceptAfterAuthentication
    <2>2. CASE UNCHANGED vars
      BY <2>2 DEF vars, AuthInv, Indexed, AcceptAfterAuthentication
    <2> QED
      BY <2>1, <2>2, RegisterAuth, CommonProcedureAuth, OtherNasAuth, NgapAuth, TickAuth DEF Next
  <1>3. AuthInv => AcceptAfterAuthentication
    BY DEF AuthInv
  <1> QED
    BY <1>1, <1>2, <1>3, Invariant, PTL DEF Spec
=============================================================================
