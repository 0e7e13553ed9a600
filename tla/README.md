# Formal models of a 5G core and its tester

The repository is a 5G/6G core network written in Go (`core/`), with a Python
tester that plays gNBs and UEs against it (`tester/`). This directory holds TLA+
models of the stateful parts of both: modules that TLC model-checks on small
instances, and proofs that TLAPS checks for every value of the constants. Paths
below are relative to the root of the repository.

    tlc -workers 2 -config MCTimerManager.cfg MCTimerManager
    tlc -workers 2 -config MCGmm.cfg MCGmm
    tlc -workers 2 -config MCSession.cfg MCSession
    tlc -workers 2 -config MCUe.cfg MCUe
    tlc -workers 2 -config MCHandover.cfg MCHandover
    tlc -workers 2 -config MCPfcp.cfg MCPfcp
    tlapm TimerManagerProofs.tla      # likewise TimerRefinementProofs, GmmProofs,
                                      # GmmAgreementProofs, GnbSessionProofs,
                                      # TesterUeProofs, HandoverProofs, PfcpProofs

`PROJECT.json` lists the runs, the source lines each definition stands for, the
hazards of the code and the properties that cover them.

## 1. Inventory

| Component | State it keeps | Operations | Interacts with |
|---|---|---|---|
| Timer manager `core/infra/timers` | map `name|ueID` -> entry, tick goroutine | `Start`, `Cancel`, `CancelAllForUE`, `StartManager`, `StopManager`, `tick` | called by every goroutine; calls FSMs back |
| 5GMM state machine `core/nf/amf/gmm/fsm`, `fsm_transitions.go`, `fsm_actions.go` | one FSM per UE, registry of FSMs | `Fire`, `FireTimer`, `ResetTo`, `Drop`, `mirrorToUECtx` | starts and stops timers, writes the UE context |
| 5GMM handlers `core/nf/amf/gmm` | fields of `AmfUeCtx` | one per NAS message | FSM, AUSF/UDM/NSSF, NGAP sends |
| NGAP UE procedures `core/nf/amf/ngap/{initialue,initialctxsetup,uectxrelease}` | `CM`, `NGAPProc`, identifiers | Initial UE Message, Initial Context Setup, UE Context Release | handlers above, through hooks |
| UE contexts `core/nf/amf/uectx` | registry with four indices | `Insert`, lookups, `ClearVolatile`, `Remove`, `RemoveAllForGnb` | removal hooks of FSM, timers, SMF |
| NAS security `core/nf/amf/security` | keys, counts, pending context | activate, promote, discard, verify | handlers |
| NGAP and SCTP FSMs `core/nf/amf/ngap/fsm`, `sctpfsm` | one FSM per UE connection and per association | tables of transitions | NGAP procedures |
| N2 handover `core/nf/amf/ngap/handover.go`, `server.go` | `hoSessions`, keyed by source gNB and stream; one worker per gNB and stream | Required, Request Acknowledge, Failure, Notify, Cancel | source and target gNB |
| SMF sessions `core/nf/smf` | PDU sessions, IP pool | 5GSM procedures | AMF, PCF, CHF, N4 client |
| SMF N4 client `core/nf/upf/upf.go`, `core/nf/smf/upfclient` | Manager's sessions and mutex, bridge's sessions and buffered rules | create, commit, delete, FAR updates | PFCP transport |
| PFCP transport `core/nf/upf/pfcp/transport.go` | sequence number, pending requests | `SendRequest` with T1 and N1, dispatch | both ends of N4 |
| UPF control plane `core/nf/upf/pfcp/handler*.go`, `upfloop` | sessions by SEID and by IMSI | establish, modify, delete, report | transport, dataplane |
| UPF data plane `core/nf/upf/dataplane` | session table, packet buffers | packet processing | UPF control plane |
| PCF, CHF, NSACF | policies, quotas, admission counters | create, update, report, release | SMF, AMF |
| UDM, UDR, AUSF, NSSF | subscriber database | request and response | AMF |
| IMS, SIP, MCX `core/services`, `core/libs/sip` | dialogs, transactions, floors | SIP methods, floor requests | UEs, PCF |
| OAM, safety, edge, IoT, resilience, access | configuration, alarms, counters | management | all |
| Tester gNB `tester/src/statemachine/gnb_fsm.py` | `state`, `_stop`, `ue_map`, `_handler_q`, `_ho_context`, counters | connect, disconnect, NGAP handlers | AMF, UEs, GTP-U manager |
| Tester SCTP client `tester/src/protocol/sctp.py` | socket, send queue, failure flag | connect, send, receive loop, disconnect | gNB, AMF |
| Tester GTP-U manager `tester/src/protocol/gtpu.py` | setup queue, tunnel table keyed by TEID | `setup_async`, create, destroy | all gNBs of the process |
| Tester UE `tester/src/statemachine/ue_fsm.py` | state, identifiers, security context, PDU sessions | register, deregister, NAS handlers | gNB, test |
| Test cases `tester/src/testcases` | none of their own | `register_ue`, `deregister_ue`, `_do_handover`, `cleanup` | gNBs and UEs |

**What is hard here.** One goroutine per gNB association runs the handlers of
that gNB's UEs; the tick goroutine runs the timer callbacks; nothing locks a UE
context. The timer manager drops its lock before it calls back, so a handler may
cancel or restart a timer whose expiry is already on its way. The same facts are
kept twice (`RM` and the FSM state; `RetxNASPDU` and the guard timer; `CM` and the
N2 connection), and are written by different paths: handlers, the FSM's mirror,
rejections, the collision check, the release procedure. Aborting a procedure
leaves the FSM in its old state. Authentication may fail inside a helper that
returns nothing, so the caller goes on.

On N2 handover the AMF sends the request before it remembers the session, so the
acknowledgement can overtake the memory of it; sessions are keyed by a stream that
several UEs share. On N4 the transport does not recognise a request it has handled
before, takes any message whose sequence number is pending for its answer, and runs
each datagram in a goroutine of its own; the Manager holds its mutex across a request.

The tester's threads are joined for two seconds at most and share a stop event, a
socket and queues that outlive the connection. The handler of a UE context release
tests whether the connection is superseded, then wakes the test, then clears
identifiers. All gNBs of a tester share one tunnel table but not one counter of TEIDs.

`PROJECT.json`, `hazards`, gives each of these at its line.

**What makes the components correct.**

- Timers: one answer for each start; a cancellation that is acknowledged holds;
  retransmissions come before expiry; an expiry nobody cancels comes.
- 5GMM: no accept before authentication; timers belong to the current state; the
  context's RM, CM and FSM state agree; a silent UE does not hold its context.
- N2 handover: a UE is served by one gNB; what the target accepts completes; no UE
  moves with a context prepared for another.
- N4: a session the SMF holds exists at the UPF; the dataplane holds nothing the UPF
  has forgotten; the Manager's mutex comes back.
- Tester gNB: a request is answered once, and with success only when the tunnel
  exists; what is queued has a consumer; a disconnect ends; a lost association is seen.
- Tester UE: only its own connection changes a UE's registration; both ends use the
  same keys; an attempt ends.
- Not modelled yet. UE contexts: the indices agree with the contexts they name. NAS
  security in the AMF: the keys in use are those the UE confirmed. SMF: an address is
  held once. CHF, NSACF: never more granted than available; counts return to zero.

## 2. Modules

| Module | Models | Used by |
|---|---|---|
| `TimerManager` | `core/infra/timers/manager.go` | `MCTimerManager`, `TimerManagerProofs` |
| `GmmFsm` | transition table and FSM engine, as operators on a record | `Gmm` |
| `Gmm` | NAS handlers, NGAP UE procedures, the UE context and the tick goroutine, for one UE context | `MCGmm`, `GmmProofs`, `GmmAgreementProofs` |
| `TimerLife` | abstract: the life of one `Start` call | `TimerRefinement` |
| `TimerRefinement` | the mapping from the manager's entries to `TimerLife` | `MCTimerManager`, `TimerRefinementProofs` |
| `GnbSession` | tester gNB, SCTP client and GTP-U manager with their threads | `MCSession`, `GnbSessionProofs` |
| `UeRegistration` | abstract: who may change a UE's registration | `TesterUe` |
| `TesterUe` | tester UE, the gNB's UE bookkeeping and the test that drives them | `MCUe`, `TesterUeProofs` |
| `Handover` | N2 handover: test, source and target gNB, AMF | `MCHandover`, `HandoverProofs` |
| `Pfcp` | SMF N4 client, PFCP transport, UPF control plane | `MCPfcp`, `PfcpProofs` |
| `*Proofs` | theorems (section 4) | |

`Handover` and `Pfcp` are compositions: the parts of several components that one
protocol runs through, on both sides of the network between them.

Operators marked *Mutant* are wrong variants of the definition that follows them.
They are in no specification: each shows that a property would notice the bug.

### TimerManager

Entries are numbered by the `Start` that made them, because the map and the two
lists of a tick share the object: after a restart two entries of one key may
exist. `timers` is the manager's map, `retx` and `expired` are the local lists of
`tick`, `calling` is the entry that has passed the `cancelled` test of the
retransmission loop and is about to be called. `Start`, `Cancel` and
`CancelAllForUE` are single steps, being critical sections of `m.mu`. A tick is
`Collect` (its locked part), then `RetxCheck` and `RetxCall` for each
retransmission, then `Expire` for each expiry; the other calls may fall between
any two of these. The expiry loop tests `cancelled` and calls in one step: an
expired entry is out of the map, so nothing can set its flag any more. Times are
what is left of them; `Advance` moves the clock. A tick comes at most `MaxLag` late
until the goroutine exits. No timer is started before `StartManager`, which
`main.go:83` calls before the AMF serves anything. `Cadence` is what `fsm.startTimer`
makes of a retransmitting timer: a total of one interval more than the
retransmissions, with an interval that takes up the lateness. The queries change nothing and are
left out, as are the logging and the map from ueID to IMSI that `RegisterUE` keeps
for it. The lists are visited in any order, as a Go map is.

### GmmFsm

The rows are those of `fsm_transitions.go`, rows of events nobody fires
included; where two rows have the same state and event the first wins, as in
`Fire`. A row's action is reduced to what it does besides logging: nothing, send
a release command, or `ClearVolatile` and a release command. `Commit` is the rest
of `Fire`: stop, advance, start. The removal hooks of `hooks.go` run inside
`ClearVolatile` and drop the FSM while its own `Fire` is running, so that `Fire`
ends on an FSM that is no longer in the registry; `own` tells a callback of such
an FSM from one of the live FSM.

### Gmm

Each handler is one action for each outcome that differs in what it writes. The
contents of a message are reduced to the branch it makes the handler take;
answers of other functions (an authentication vector, a known subscriber, an
algorithm in common) are Boolean inputs. `up` is the outcome of the handler's
writes to the gNB; all writes of one handler succeed or fail together.

| Variable | In the code |
|---|---|
| `fsm` | FSM state, the UE's entries in the timer map, the expiry on its way |
| `mm` | `RM`, `GMMProc`, whether `RetxNASPDU`, `LastRegRequestPDU`, `TMSI5G`, and the IMSI index are set |
| `sec` | `AuthDone`, whether `Pending` is set, `AuthRetryCount` |
| `ran` | in the registry, has an N2 connection, `CM`, `NGAPProc`, `HardRemoveOnComplete`, release command and setup request unanswered |
| `quiet` | no code: UE and gNB have stopped sending for good |

What the model leaves out, and why it does not matter to the properties here:

- A handler is one step for the tick goroutine. Collecting an expiry and calling
  it back are two steps, so every handler may fall in between; a callback in the
  middle of a handler is not explored.
- An Initial UE Message and the NAS message it carries are two steps. The second
  may be any message, or none (`RxNAS` refuses what does not verify).
- Two timers of a UE that are due in one tick are collected one after the other.
- Other contexts of the subscriber appear through what they do to this one:
  `RegistrationMigrate` takes their keys, `Superseded` removes this context. A
  callback still due for a removed context is not followed.
- The gNB answers a release command at most once for each connection.
- PDU sessions, `GMMSub`, counters, alarms and logs decide none of the branches
  above. `SendNetworkDeregistration` and `SendConfigurationUpdateCommand` have no
  caller, so `DeregistrationRequestSentMT` and `ConfigUpdateCommandSent` are never
  fired.

`fsm.raced` is a history variable: an expiry that was cancelled or restarted after
the tick had collected it has taken a transition all the same (finding 1 below is
the cause). Properties that such a callback breaks by its nature say so.

### TimerLife and TimerRefinement

A call of `Start` is unused, armed, then cancelled, or due and fired. `PhaseOf` reads
this from the manager's entries: an entry is due once it is in the expired list and
fired once its callback has run. The refinement says that no interleaving of the
locked operations with the two unlocked loops of `tick` revives a call or fires one
that was not due.

### GnbSession

| Variable | In the code |
|---|---|
| `state`, `stop`, `sock`, `sender` | `gnb.state`, `_stop`, `_sctp._sock`, whether the send worker works |
| `main`, `rx`, `hd`, `running` | where the test thread, each receive and handler thread and each setup worker is |
| `assoc` | the SCTP associations, each with what the peer has sent and not yet been read |
| `handlerQ`, `setupQ`, `tunnels` | `_handler_q`, `GtpuManager._setup_queue`, `GtpuManager._tunnels` |
| `attached`, `session` | `ue_map`, `ue.pdu_sessions` |
| `amfUe`, `psrs`, `upsets` | external: the AMF's side and the bounds |
| `answers`, `built` | history: what was sent for each request, which tunnels existed |

`connect()` and `disconnect()` are split where another thread can notice: between the
assignment of the state, the stop event, the queue, the socket and the join. A
receive thread reads one message, then handles it; the test of its loop is merged
with the end of the callback. The handler thread takes an item, or times out and
sees the stop event; which of the two comes first is the cause of finding 3. A setup
job makes the device, enters the tunnel, answers.

The end of an association that was up is notified after a `disconnect()` too, and
either the drain of `SctpClient.disconnect` reads the notification or the receive
thread does (`RxTerminal`, else `RxEof`).

Left out: the names of TUN devices and `_pending_tunnels` (their identifiers are in
`Handover`). So `HandlePsr` is one step: the handler threads of two connections may
overlap at a reconnection and then share `_pending_tunnels` and the TEID counter, and
what the one may do to the other inside a handler is not explored. Left out as well: the content of the send queue (a send worker works, is about to fail or
has failed); which worker runs which job. Kind `reactivate` is modelled but the run's
requests do not use it.

### TesterUe and UeRegistration

`test` is the test thread of a UE, `rx` the gNB's receive thread; the release handler
is several steps, the NAS handlers are one. A connection is named by its
RAN-UE-NGAP-ID, and the AMF's identifier of it is the same number. A key is the
number of the authentication vector it comes from. The next attempt may
follow as soon as the last is over: neither `register_ue`, `deregister_ue` nor
`expect_reject` sleeps, and the cycles of `testcases/traffic/tc_stress.py:175-204`
register the same UEs on the same gNB again at once.

The AMF is external, modelled from the messages the UE expects: it challenges, goes
on, refuses, sends again, releases. Left out: NAS COUNTs, 5GSM messages, the lookup
of a release by the AMF's identifier alone. A deregistration is always protected.

`UeRegistration` is the contract the comments of the release handler describe, as far
as the code keeps it. The test changes a registration, or a message of the UE's
current connection does (`Learn`), or a release. A release is judged in one step,
against the connection the UE has then (`Judge`), so that one of a superseded
connection changes nothing; what was judged is applied in later steps (`LetGo`,
`Drop`), even if the test has started another attempt in between. That attempt loses
its connection (finding 4), and it is never completed: a registration is completed
only by a message of the connection the UE has, and not from rest.

### Handover

One test thread hands UEs over one after the other, to gNBs that accept or refuse,
and may cancel. Each gNB has one receive thread and one `_ho_context`; the AMF has
one worker per gNB and stream, and the map `hoSessions`. The AMF's handling of
Required is two steps, since it sends the request before it stores the session.

A timeout of the test comes only when nothing is under way (`Quiet`): the waits are
seconds long and deliveries are not. The UEs are finitely many and at least one,
because each has taken an identifier before the first handover. Left out because they change no state here:
status transfer, end markers, and the release commands that carry no identifier. Path
switch is left out. Devices can be made and the gNBs stay connected: `GnbSession` has
those failures.

### Pfcp

`net` is a set of datagrams that are received late or never, and in any order. A
request or report that is received may stay on its way: the network repeats
datagrams, and T1 does; equal copies under way at the same time count as one.
Answers nobody waits for any more are dropped at once, as `dispatch` and the handlers
would. A request is `pending` with its attempts; T1 sends it again, the deadline gives
up. Its first write may fail (`FailToSend`): the caller has the error at once and T1
is never armed, after `SessionDelete` has forgotten the session. The UPF's handler is
two steps, its own tables and then the dataplane's. A buffered packet puts a report
into the dataplane's ring (`ring`), which the forwarder drains later, one report at a
time. `mgr`, `lock`, `rules` and `sessions` are the SMF's side, `upf`, `byIMSI`,
`handling`, `buffered` and `plane` the UPF's. `upset` records that something has gone
wrong: T1 expired, the network repeated a request, a deletion could not be sent, a
report was taken for an answer, a release crossed an establishment.

Left out: rules other than the downlink FAR, the ring of received reports at the SMF
and its index, the release of the association, heartbeats, encoding errors, the wrap of the
24-bit sequence number. One goroutine at a time installs rules for one key, as the
SMF's session procedures do. `UpfSeq` is the number of requests the UPF has sent
before the model starts: the two ends count from 1 each, so their numbers meet.

## 3. Runs

| Run | Instance | Result |
|---|---|---|
| `timers` | 2 UEs, a timer with 2 retransmissions and a one-shot timer, `MaxStarts` 3, `MaxLag` 1 | holds, 377,000 states |
| `gmm` | `MaxAuthRetries` 2, writes succeed | holds, 647,000 states |
| `gmm_silence` | `MaxAuthRetries` 1, `Silence` | holds, under `WF(Tick)` |
| `session` | 1 gNB, 1 UE, 2 requests, 2 workers, `MaxConn` 2, `MaxUpsets` 2, `QueueMax` 2 | holds, 382,000 states |
| `ue` | 1 UE, `MaxConn` 3, `MaxVectors` 3, `MaxResend` 1, `MaxUpsets` 1 | holds, 1,166,000 states |
| `handover` | 3 gNBs, 2 UEs, 2 streams, `MaxHops` 3 | holds, 129,000 states |
| `pfcp` | 1 session key, `N1` 2, `UpfSeq` 1, `MaxRequests` 3, `MaxReports` 1, `MaxRepeats` 2 | holds, 1,423,000 states |
| `timer_restart`, `gmm_idle` | as `timers`; as `gmm_silence` | violated: see Findings |
| `session_consumer` | as `session` | violated |
| `ue_race` | as `ue`, without refusals, retransmissions and upsets | violated |
| `handover_tunnels` | 2 gNBs, 2 UEs, `MaxHops` 2 | violated |

**timers.** `AnsweredOnce`: each `Start` has at most one expiry and at most
`MaxRetransmit` retransmissions, whatever happens during a tick. `CancelWins`: a
cancellation that found its timer is never followed by the expiry; one
retransmission that had passed its test may still go out. `ExhaustedBeforeExpiry`:
the expiry comes after the last retransmission, given the total that
`fsm.startTimer` computes and ticks that are not late by more than `MaxLag`.
`EventuallyAnswered`: an expiry nobody cancels comes. `ImplementsLife`: the manager
refines `TimerLife`.

**gmm.** `TimerOfState`: every armed timer is the one by which the table leaves the
current state, so no expiry is swallowed for want of a row.
`AcceptAfterAuthentication`: security mode control and the accept are reached only
with `AuthDone`, through collisions, failed migrations and late callbacks.
`RMAgrees` and `ConnectedHasLink`: the state that is kept twice agrees.
`RegisteredByAccept`: the FSM enters Registered only from RegisteredInitiated, or
for a UE that was registered before.

**gmm_silence.** `SilenceEnds`: while the timer of the state is armed, a UE and a
gNB that fall silent do not hold the context; T3570, T3560, T3550 and T3512 lead
back to Deregistered. The condition is needed: see finding 2.

**session.** `AnsweredOnceAfterBuild`: over queues, workers and reconnections the AMF
gets at most one answer to a setup request, and a success only when the tunnel was in
the table. `PsrAnswered`: a queued request of an attached UE is answered, unless the
gNB goes down or the UE is released; the handler queue must have a running consumer
and no sentinel left over, which is what finding 3 takes away. `DisconnectEnds`: the
test thread gets through `disconnect()` and the threads of every connection end,
unless a reconnect clears the stop event first. `LinkLossSeen`: a gNB does not stay
READY on an association the AMF has torn down.

**ue.** `DownlinkFindsUe`: the mapping of a connection outlives the re-attach of its
UE. `KeysAgree`: after retransmissions, synchronisation failures and left-overs of
earlier connections a registered UE and the AMF use keys of one authentication.
`ImplementsRegistration`: the release of a superseded connection leaves a later
attempt alone, and an attempt that a release overtakes (finding 4) is never completed
without its connection. `AttemptEnds`: every attempt ends, unless a release has taken
its identifiers; what ends that one is the test's timeout.

**handover.** `ServedOnce`: a UE is in the map of its serving gNB and in no other.
`AcceptedCompletes`: a handover fails only when the target refused, although the AMF
may lose the acknowledgement or send the command to another source; the test then
goes on by what the target gNB has prepared. `AdoptsOwnContext`: a UE never moves
with the context of another. `HandoverEnds`: each attempt ends.

**pfcp.** `SessionBacked`: what the SMF holds exists at the UPF with the same SEIDs.
`PlaneOwned`: the dataplane has no session that the UPF has forgotten, although
establishments and deletions of one key run side by side. `LeakHasCause`: the UPF
holds a session the SMF does not know of only after one of the five things `upset`
records; so on a network that delivers once and in time the tables agree, unless
numbers meet or a release is early.
`MutexReturned`: the deadline of a request returns the mutex, whatever the network
and the UPF do.

**Bounds.** `MaxStarts` 3 lets a key be started, restarted and restarted again, or a
second timer interleave with a restart; an entry's life touches one key only, and
other keys interfere only through the order of callbacks, for which one more key
is enough. The retransmitting timer has an interval of 1, two
retransmissions and so a total of 3; a tick that is one late is as late as `Cadence`
allows, and `MCTimerManager` has TLC check that the instance satisfies `Cadence`. `MaxAuthRetries` 2 (the code has 3) is the least limit with
both a retry and an exhaustion; runs that are about neither use 1. `Writes` is
`{TRUE}` in the runs: a write that fails doubles the handlers' outcomes and meets no
property that the theorems of section 4 do not establish for both; the runs are for
what happens when the network works and the procedures collide.
`Silence` adds one step and is on only where a property speaks of it.

Two connections are what it takes for a thread, a queue entry or a worker of an
earlier connection to meet a later one; one request gets a tunnel or is refused for
lack of one, the other needs none and overtakes it. `QueueMax` 2 lets the queue fill
up. In `ue`, three connections allow a release, a re-attach and
another release to overlap; three vectors a synchronisation failure and a fresh
challenge. In `handover`, two UEs on two streams share a stream with each other's
handover after one hop, three gNBs let the AMF confuse two sources, and three hops
let a UE come back. In `pfcp`, three requests are an establishment, a change and a
deletion, or an establishment and a deletion that cross followed by another; `N1` 2
is one repetition by T1, and `MaxRepeats` 2 two repetitions, of T1 or of the network;
`UpfSeq` 1 makes the report's number meet the establishment's.
Symmetry is not used: it would be unsound with liveness.

**Deadlock** is checked in the `gmm` run. The others may stop: the starts, connections
or requests are used up, the test is over, or everybody is silent.

**Fairness.** `WF(TickStep)` and `WF(Advance)` for the manager, `WF(Tick)` for the
AMF: the tick goroutine is started with the program, loops over a ticker and runs
each callback to its end, and the clock moves. No handler, UE or gNB is assumed
ever to act. In `Gmm` an armed timer is eligible at any moment, which includes
the moments the real duration allows. `GnbSession`: every thread that can run does,
since the interpreter switches threads; no test has to connect and the AMF need not
send. `TesterUe`: the threads run, and the AMF answers what it
receives; that a wait times out is not assumed, though it does in the code; it need not release, refuse or repeat. `Handover`: threads of the gNBs and
workers of the AMF run; no test has to start or cancel. `Pfcp`: only the runtime's
timers; neither the network nor the UPF is assumed to deliver or answer anything.

### Findings

1. **A restart does not cancel an expiry that was collected**
   (`timer_restart`). `manager.go:6-7` says that starting a timer with the same key
   cancels the previous one. `tick` deletes an expired entry before it unlocks, so
   a `Start` or `Cancel` that comes before the callback finds nothing and the old
   callback runs; the test of `cancelled` in the expiry loop is never true.
2. **An idle UE is never deregistered implicitly** (`gmm_idle`). The release
   procedure cancels all timers of a UE that goes idle, T3512 included, and nothing
   arms it again. `core/docs/design/nf/amf.md:305` has T3512 lead to DEREGISTERED.
3. **A left-over sentinel ends the next connection's handler thread**
   (`session_consumer`). `gnb_fsm.py:170-172` promises that what the receive thread
   enqueues has a consumer. A handler thread whose `get()` times out between
   `_stop.set()` (`:202`) and the `None` that `disconnect()` queues for it (`:222`)
   ends by the stop event alone; the `None` stays in the queue and ends the handler
   thread of the next `connect()` at its first `get()`, while that connection is up.
4. **A release clears the identifiers of a new registration** (`ue_race`).
   `gnb_fsm.py:1308-1316` says that of a superseded connection only the old mapping
   may be dropped. The handler looks whether the connection is superseded (`:1317`),
   sets the UE DEREGISTERED (`:1330`), which wakes a test that waits for it, and
   clears the identifiers (`:1350`). A test that registers again in between, as the
   cycles of `testcases/traffic/tc_stress.py:175-204` may, has those of the new
   connection cleared, and its request is never answered to the end.
5. **A handover overwrites another UE's tunnel** (`handover_tunnels`).
   `tester/docs/training_notes/pdu_session/TC-PDU-004_two_ues_with_pdu_sessions.md:44`
   expects of two UEs that each "has independent GTP-U tunnels with distinct TEIDs".
   With the one gNB of that test they do. Each gNB counts TEIDs from 0x10000
   (`gnb_fsm.py:82`) and all share one table keyed by TEID (`gtpu.py:472`), so the
   target of a handover may give out the TEID of a tunnel of another UE.

## 4. Proofs

Every safety invariant and action property that a passing run checks, and the two
refinements, are theorems for every value of the constants.

| Theorem | States | For every |
|---|---|---|
| `TimerManagerProofs!TypeCorrect` | `Spec => []TypeOK` | set of names and UEs, durations, intervals, limits |
| `TimerManagerProofs!AtMostOneAnswer` | `Spec => []AnsweredOnce` | same |
| `TimerManagerProofs!CancellationWins` | `Spec => []CancelWins` | same |
| `TimerManagerProofs!ExpiryAfterRetransmissions` | `Spec => []ExhaustedBeforeExpiry` | same, given `Cadence` |
| `TimerRefinementProofs!Implementation` | `Spec => ImplementsLife` | same, without `Cadence` |
| `GmmProofs!TypeCorrect` | `Spec => []TypeOK` | retry limit, outcomes of writes |
| `GmmProofs!TimersFollowState` | `Spec => []TimerOfState` | same |
| `GmmProofs!AuthenticationFirst` | `Spec => []AcceptAfterAuthentication` | same |
| `GmmAgreementProofs!RMFollowsState` | `Spec => []RMAgrees` | same |
| `GmmAgreementProofs!ConnectedLinked` | `Spec => []ConnectedHasLink` | same |
| `GmmAgreementProofs!RegisteredOnlyByAccept` | `Spec => RegisteredByAccept` | same |
| `GnbSessionProofs!TypeCorrect` | `Spec => []TypeOK` | gNBs, UEs, finite set of requests, workers, connections, queue size |
| `GnbSessionProofs!OneAnswerAfterBuild` | `Spec => []AnsweredOnceAfterBuild` | same |
| `TesterUeProofs!TypeCorrect` | `Spec => []TypeOK` | UEs, connections, vectors, repetitions, an AMF that refuses or not |
| `TesterUeProofs!DownlinkAlwaysFinds` | `Spec => []DownlinkFindsUe` | same |
| `TesterUeProofs!KeysAlwaysAgree` | `Spec => []KeysAgree` | same |
| `TesterUeProofs!RegistrationImplemented` | `Spec => ImplementsRegistration` | same |
| `HandoverProofs!TypeCorrect` | `Spec => []TypeOK` | gNBs, finite set of UEs, streams, handovers |
| `HandoverProofs!ServedInOnePlace` | `Spec => []ServedOnce` | same |
| `HandoverProofs!FailsOnlyRefused` | `Spec => []AcceptedCompletes` | same |
| `HandoverProofs!MovesWithOwnContext` | `Spec => AdoptsOwnContext` | same |
| `PfcpProofs!TypeCorrect` | `Spec => []TypeOK` | session keys, `N1`, numbers of requests, reports and repetitions |
| `PfcpProofs!HeldSessionsExist` | `Spec => []SessionBacked` | same |
| `PfcpProofs!DataplaneOwned` | `Spec => []PlaneOwned` | same |
| `PfcpProofs!LeaksHaveCauses` | `Spec => []LeakHasCause` | same |

**Assumptions.** Of the constants: their types, finiteness where something is counted,
and that the name for "no UE" or "nobody" is not one of a UE or a session (the
`ASSUME`s at the head of each module, which TLC evaluates on every instance). One
theorem has a hypothesis more: `Cadence` is what `fsm.startTimer` computes, for ticks
late by no more than an interval absorbs; the AMF's table has intervals of several
seconds and a tick of half a second. The bounds in the guards
(`MaxStarts`, `MaxConn`, `MaxRequests` and the like) are constants of the theorems too:
these hold for any bound, however large.

**The arguments.** No property is inductive as it stands; each proof adds what the
other steps rely on. The strengthenings were checked by TLC on the instances of the
runs before they were proved. A proof has one lemma for each group of actions, and
lemmas about the operators the model is built from (queues, the FSM engine,
datagrams) where several actions need them.

*TimerManager.* The properties speak of counts of callbacks, which say nothing of
what is still on its way. The inductive invariant `IInv` adds `Place` (an entry is
in at most one of: the map under its own key, the expired list, the past),
`Counted` (a call made, about to be made or listed has used up one of the entry's
retransmissions), `Late` (at most one call can have passed its test before the
cancellation) and `Unborn` (numbers not given out have no calls). `Collect` and
`Start` are the steps that matter: the first moves entries between places, the
second replaces an entry that may be listed for retransmission. For
`ExhaustedBeforeExpiry`, `Pace` bounds the time since a timer's start by what its
retransmissions account for, an interval and a late tick each. The refinement needs
one thing more, `Apart`: nobody the retransmission loop still deals with has expired.

*Gmm, timers.* `TimerOfState` is not inductive: an expiry on its way might meet a
second entry of its own timer in the map and, leaving the state, strand it. `Once`
excludes that: only a restart can arm the timer of an expiry on its way, and the
restart makes it late. The lemmas show that each engine operator (`Fire`,
`CancelAllForUE`, `Drop`, `ResetTo`, the callback) keeps `FsmInv`; then there is one
lemma for each group of actions.

*Gmm, authentication.* A migration that fails starts a challenge without an event,
so `AuthDone` is reset while the FSM stays put. This is harmless only because a
context that can migrate has not been indexed yet, and such a context has never
left Deregistered or Identification. `Indexed` says so, and `AuthInv` carries it
along, callbacks of dropped FSMs included (`Fresh`).

*Gmm, agreement.* `RMAgrees` and `RegisteredByAccept` are proved together, as a fact
about one step (`AgreeStep`): it leaves nothing of the context, or a callback has come
late, or RM agrees with the new state if it did with the old, and Registered is
entered by an accept. That a callback on its way belongs to the current state, and so
mirrors the right RM, is the invariant of `GmmProofs`.

*GnbSession.* A setup request is a token: `Alone` says that it is in at most one stage
(with the AMF, received, queued, handled, a setup job, at a worker, answered) of one
thread or queue, `NoCopies` that no queue has it twice, `Known` that one the AMF has
not sent is nowhere. The threads of two connections share the queues and may
run side by side, so each step is shown to move a token and not to copy it. `Honest`
carries the construction of the tunnel along to the answer. `Counted` bounds the
TEIDs by the requests that can still take one.

*TesterUe.* A connection is `Quiet` when only its release is still under way, or
nothing. A UE has at most one that is not (`Alone`), it is the current one or the
identifiers are cleared (`Current`), and it has none while its test starts an attempt
(`Before`); `Streams` has the order of the last messages of a connection, on which
this rests. The keys follow a challenge: once the UE has answered the one that counts,
every request still under way repeats it (`Sequenced`, `Challenged`), so a command
derives the AMF's keys (`Commanded`, `Secured`). The refinement adds `Unmoved`: on
the connection of a UE that is at rest, or that a release is about to put there, the
AMF has no answer yet to the challenge that counts (`Unanswered`), so nothing on its
way can complete the registration before the UE answers one.

*Handover.* From Required to Command or Failure a handover is one message at one place
(`Single`), although the AMF may drop it or send it to another source; `Addressed`
and `Answered` say what the test can conclude from what it sees of it, `Prepared` that
the target of the handover under way is the only gNB with a context, `Fresh` that a
context's identifier is that of no UE.

*Pfcp.* Numbers are used once: a sequence number names one request (`Numbered`), a
CP-SEID one establishment (`Fresh`), however often its request is repeated; a UP-SEID one session of the UPF that the SMF
learns from one answer (`Identified`, `Offered`). So a deletion hits the session the
SMF has just forgotten, whenever and however often it arrives (`Doomed`, `Removed`).
`Counted` bounds the UP-SEIDs: the copies on their way and those given out are as many
as the requests and the repetitions. `Orderly` says what holds as long as nothing went
wrong, which is what `LeakHasCause` needs.

**What the proofs found in the models.** Three definitions were wrong or too weak to
reason about, and were corrected by the code. A timer could be started before the tick
goroutine, and a tick could be late without bound after the goroutine was asked to
stop; `ExhaustedBeforeExpiry` fails for an instance with either. `UeRegistration` let
any UE be reset at any time, which with one UE explained a step of the release handler
that is not a reset (now `Judge`, `LetGo` and `Drop`). `Handover` did not say that UEs are
finitely many, and its identifiers are counted from their number.

**Only model-checked.** The liveness properties: `EventuallyAnswered`, `SilenceEnds`,
`PsrAnswered`, `DisconnectEnds`, `LinkLossSeen`, `AttemptEnds`, `HandoverEnds`,
`MutexReturned`. They rest on weak fairness, that is on `ENABLED` of the actions, which
this prover cannot expand; so does the fairness part of a refinement, and the two
abstract specifications therefore state none. Recursion over data does not occur in
these modules. The violations are TLC's as well: a counterexample is an instance.

## 5. Plan

The eight proof modules cover the six models. What is left, in this order:

1. What no run's property says yet and the invariants of the proofs suggest: when the
   converse of `PlaneOwned` holds (what the UPF holds is in the dataplane once its
   handler has ended); that the AMF and the UE agree on the connection in use, not
   only on the keys; which tunnels of `GnbSession` outlive their session.
2. The properties the findings refute, with the condition that repairs them as a
   hypothesis, so that the theorem says what a fix has to establish.

Candidates for further modules: the registry of UE contexts with its four indices;
key material and NAS counts in the AMF; the NGAP and SCTP tables of transitions; the
SMF's session FSM and IP pool above `Pfcp`; quotas of the CHF and counters of the
NSACF; SIP transactions; floor control; the tester's runner.

## 6. Not modelled

Not of interest to a model: the UPF's data plane (packet processing in C over DPDK;
the one table N4 acts on is in `Pfcp`), NAS, NGAP and PFCP codecs, the vendored and
generated ASN.1 libraries, which are most of the repository's lines, cryptography, the
database-backed request-response functions (their answers are inputs of `Gmm`), OAM,
deployment, the tester's web interface and traffic generators.

Stateful and not modelled: the candidates above, path switch, the tester's second,
asyncio implementation of gNB and UE, and non-3GPP access. `PROJECT.json`,
`components`, gives the reason for each part and what is left out of the parts that
are modelled.
