# TLA+ models of libipsecctrl

`libipsecctrl` is a C11 library that controls strongSwan's `charon` through its
VICI Unix socket and owns a few kernel objects (a TUN device, TC filters, an
nftables table) when packets are to pass through the application. `ipsec_app` is
the diagnostic application on top of it. This directory models the parts of both
where threads, processes, the daemon, the kernel and failures meet, and the pure
functions whose limits are hard to test.

## The system and its parts

| Part | Source | Model |
|---|---|---|
| VICI command path: one stream, one command at a time | `src/ike/vici/vici_client.c`, `vici_transport.c` | `ViciCommand`, abstract: `CommandService` |
| SA waits, cancellation, closing of a context | `src/ike/vici/vici_wait.c`, `WaitIpsecSa` in `vici_sa.c` | `ViciWait` |
| Connection manager: add and remove with rollback | `src/core/connection_manager.c`, load/unload in `vici_connection.c` | `ConnectionPaths` |
| Context initialisation, deinit, crash | `src/core/ipsec.c`, `context.c` | `ConnectionPaths` (packet paths), `ViciWait` (drain) |
| Protected path: peer slots and TC filter pairs | `src/datapath/protected/application_protected_path.c`, `application_protected_netlink.c` | `ProtectedPath` |
| Plain path: managed nftables rules | `src/datapath/plain/plain_nftables.c`, `application_plain_path.c` | `PlainRules` |
| VICI encoding and parsing | `src/ike/vici/vici_packet.c`, `vici_parser.c` | `ViciMessage` |
| Connection requests, lists of SAs and connections | `vici_connection.c`, `vici_sa.c`, conversions in `src/core/util.c` | `ViciListing` |
| PSK credentials | `src/ike/vici/vici_credential.c` | `Credentials` |
| Application: session, ownership ledger, shutdown | `app/shutdown.c`, `lifecycle.c`, `state.c`, `cli.c` | `Charon`, `OwnedResources`, `AppSession` |
| Application: peer registration and listener thread | `app/peer.c`, `cli.c` | `PeerTable`, `PeerRegistration` |
| Application: algorithm runner, packet test | `app/algorithm_runner.c`, `algorithm_packet.c` | `TestStream`, `PacketTest`, `AlgorithmRun` |
| Application: algorithm catalogue | `app/algorithm_catalog.c` | `AlgorithmCatalog` |
| Netlink queries, statistics, packet endpoints, reports, configuration, display | the rest | not modelled, see below |

How they meet: every API call that talks to charon goes through
`ExecuteViciCommandUntil`, which serialises commands on one stream. An SA wait
has an event connection of its own and uses the command path for its snapshots.
`AddIpsecConnection` registers the connection with the protected path and the
plain path, then loads it into charon, and rolls the registrations back when a
later step fails. `RemoveIpsecConnection` unloads first. `DeinitializeIpsec`
drains the waits and then tears the packet paths down.

The application runs one command at a time on one context. Its ledger records
what it may have put into charon before it asks for it, and `quit` cleans up what
the ledger owns. A listener thread fills the peer table that the command loop
selects its peers from. An algorithm test is a second protocol, between two
applications: one drives the other through a matrix of proposals, each side with
a charon of its own.

## Modules

**`CommandService`** is what the command path promises: calls are served one at a
time, the daemon runs a call at most once, and after a caller was told a known
outcome nothing more happens to that call.

**`ViciCommand`** is the code. `bActive`, `bClosing`, `iSocket` are the fields of
the C structures; `pc`, `call` and `local` are the stack frame of
`ExecuteViciCommandUntil` in each thread (`local` holds `bRegistered`,
`bSendAttempted`, `bResponseValid`, the success field and `eError`); `toDaemon`
and `toClient` are the frames in flight. One action stands for one stage:
`AcquireViciCommand`, `ConnectViciTransport`, `Register`/`Confirm`
(`ExchangeViciRegistration`), `SendRequest`, `ReceiveEvent`/`ReceiveResponse`/
`ReceiveOther`/`ReceiveFails` (`ReceiveViciCommandStream`), `Unregister`/
`Unconfirm`, `Release`. Every stage may time out, be cancelled or lose the stream;
`Fail` is the disconnect that follows. charon is external: it confirms or refuses
a registration, runs a request, streams events, answers with or without the
success field, answers with a frame of the wrong type, restarts, or gets to a
request whose stream the library has closed (`orphans`). Time is one flag per
thread: the absolute deadline has passed or has not.

**`ViciWait`** has the condition variable explicit (`asleep`): a sleeper runs again
only after a broadcast or its own timeout. A wait goes through `BeginViciWait`,
the two event registrations, the check at the head of the loop, the queue for
the command slot, the snapshot, `ReceiveViciSaChange` or a polling pause,
`RecoverViciWait`, and `EndViciWait`. A command is reduced to what
`CommandService` promises: it holds the slot, answers or fails, and gives it back.
The closer runs `CloseViciWaits` and then frees the context. `sawUp` and
`cancelSent` are history variables.

**`Registry`** declares the connection names and the empty entry that the two
packet path registries share.

**`ProtectedPath`** has one record per slot: the connection name and, for the UDP
drop and the raw ESP redirect, what the library believes (`own`) and what the
kernel holds (`ker`). A netlink request is acknowledged, refused, carried out or
dropped with its acknowledgement lost, or never sent. The operators give the
possible outcomes as sets; registration, unregistration and deinit choose one.

**`PlainRules`** has the table, the chain and the rules the kernel holds, the
ownership flag and the registered names. The requests of a rebuild are sent in
turn (`NewTable`, `NewChain`, the rules), and the first failure ends it, as in the
code.

**`ConnectionPaths`** composes the two registries with charon and the life of the
context. The steps of one call interleave with those of other threads between the
registry operations (each under its mutex) and the VICI commands (serialised). A
VICI command that ends without an answer may still be carried out (`late`).
`Crash` forgets everything the process knew and nothing the kernel holds.
`leftover`, `drifted`, `halfway` and `unsure` are ghosts that mark when a
guarantee is not claimed; they guard no action.

**`ViciMessage`** writes and reads vici messages byte by byte, with a radix and
segment length of its own (`Radix` values of a byte, one length byte for names,
two for values). **`ViciListing`** works on elements: the load-conn request of a
validated configuration, and the collectors as folds over the elements of an
event. `inIke`, `inChild`, `sections` and `list` are the fields of
`SaCollector_t`; a value is a text, a text too long for its field, a number or a
number with unit. One joined text field is the sequence of its parts.

**`Charon`** is the daemon as the session sees it: per name a definition that is
absent, the session's or another owner's, the SAs with the kernel state behind
them, and the credentials. A call is answered, or it fails and has taken effect or
never will. **`Credentials`** is the owned list of the context, **`OwnedResources`**
the ledger of `shutdown.c`: the prepared items, and of each whether its connection
and its credential are owned (`ownConn`, `ownCred`) and its `pending` reqids.
**`AppSession`** runs the commands: `cmd` is the command under way, `at` the stage it
is at, and `cfg`, `name`, `try`, `idx`, `todo`, `poll`, `loopReqid` and `facts` are its
local variables. Each library call is a step between which the remote peer sets SAs
up or takes them down, the kernel drops states, and SIGINT or SIGTERM arrive. `flag`
is `bCredentialLoaded` per configuration; the other flags of the session are
refreshed from charon before each use and are not kept. `unconfirmed` is a history
variable. Not among the commands: rekey, packet and show, which change neither the
ledger nor the definitions. End of input is taken for a `quit`.

**`PeerTable`** has the functions that run under the table mutex as operators: ids
from a place, lookup, selector overlap on prefixes, and the record that replaces
another. **`PeerRegistration`** has the listener thread (`lis`), the command loop
(`cli`, `session` its copy of the selected record), the responders (`inbox` what
was sent to them, `mine` what they took) and the connections not yet accepted. A
step is one critical section or one socket call. `SaveNativeAppSelectedPeer` runs at the end of
every command, as in the code.

The operator may also edit the selected peer: `config set` of one setting (`mode set`
is one) and `config load` of a whole file (`SetConfig`) change the session's address,
identity, names or selector, after the refresh that refuses an active peer and without
a comparison with the table; the write-back then stores them in the selected record.
The history variable `edited` tells whether that ever happened. After an edit two
records may have one address, names need not follow the ids, a selector may overlap
another, and one that does not parse makes `ValidateRemoteTrafficSelector` refuse
every other registration. A responder that was looked up as new may even be stored
over a record of another place, with the ids of the next one, when the operator gives
that record the responder's address before the store. No doc excludes any of this;
what is claimed of the table's keys and names is therefore claimed up to the first
edit, and what is claimed of addresses, of the capacity and of registrations holds
after any edits. The role is not a field: it decides which identity a record is
selected by, so another role is another `id`. `BaseConfig`, which `config load`
replaces as well, is taken to stay an initiator's.

**`TestStream`** is the control channel: datagrams that may be late, lost, repeated
or overtaken for SYSTEM runs, a TCP stream per case for APPLICATION runs.
**`PacketTest`** is the exchange of relayed ESP records, and **`AlgorithmRun`** the
initiator (`cl`), the responder (`sv`) and their daemons (`conn`, `sa`). A timeout
is free where nothing is on its way and the peer is itself waiting or gone; a
timeout that races the peer's work costs one of `MaxFaults`, and the frame may
still come. The SA that one side deletes goes at the other side too, or later
after a fault (`PeerDelete`). Cases stand for distinct proposals; the baseline has
cases with equal proposals, and the model says nothing of a stale SA of one that
is taken for the other's.

**`AlgorithmCatalog`** gives the cases of a matrix as functions of their index, and
the texts expected of their SAs.

Operators commented "Seeded fault" are wrong variants of the definition that
follows them. No specification uses them; each one shows that a property notices
the bug it stands for.

## Runs

| Run | Instance | Checks |
|---|---|---|
| `vici_command` | 2 threads (one inside a wait), a mutation and a streamed list, 2 frames of window | type, slot as a lock, clean stream between commands, own answers only, at most once, honest outcome; `CommandService` as refinement; every call returns |
| `vici_wait` | 1 waiting thread with 2 waits, 1 caller, 2 changes of the SA | type, no lost wakeup, success and cancellation truthful; an expired wait returns |
| `vici_close` | 2 waiting threads and the closer | no use after free; deinit completes |
| `connection_paths` | 1 thread, 2 names, 1 protected slot, both paths managed | type, loaded connections keep their entries, kernel rules match the peers |
| `protected_filters` | 1 thread, 2 names, 2 slots, protected path only | filters owned, one slot per connection, a fresh load installs the pair |
| `app_session` | 2 names (one may have another owner at the start), 3 configurations, 2 reqids, 2 commands and quits, 1 unanswered or failed call, 1 signal, 1 remote action | type, ledger covers charon, foreign definitions spared, credential after SAs, clean exit, reqids confirmed; quit returns and succeeds |
| `peer_registration` | 2 addresses with overlapping selectors, 2 places, 3 connections, 2 commands, 1 fault; edits of every field and a file | type, keyed table, coherent selection, assignments agree, no overlap by registration; stopping returns |
| `algorithm_run` | 2 cases, 1 probe each way, UDP and TCP, with and without continue-on-error, 2 faults | type, PASS agreed, confirmed cleanup final; both sides return |
| `peer_writeback` | as `peer_registration` | violated: README "rejects overlapping remote traffic-selector networks" |
| `protected_reload` | 1 thread, 1 name | violated: README "Connection load installs a peer filter pair" |
| `plain_unload` | 1 thread, 1 name | violated: README "is removed on connection unload/deinit" |
| `load_race` | 2 threads, 1 name | violated: a loaded connection keeps its paths, with concurrent calls |

Bounds. Two threads are enough for every pairwise interleaving on the slot and the
stream; the calls are one of each kind the code distinguishes (success field
required; event stream). A call identity is used once, so `CHECK_DEADLOCK FALSE`
is given where all calls or waits are used up: the system has then really
stopped. Two waits by one thread let a cancellation or an event of the first leak
into the second. Two names and one slot make the protected registry full; two
names and two slots allow a name to be found behind a free slot. Connection names
are symmetric. In `app_session` two configurations share a name and two share a
credential id, which is where ownership is decided; one failed call may fall on any step of any
command and on any of the three attempts. In `peer_registration` an
address may register twice with another selector, or find the table full after
the operator moved its record to another address; the edits give a record the other
responder's address, an unknown one, other names, an overlapping selector and one that
does not parse. In `algorithm_run` two faults are the least that lets a late frame of
one case meet a retry of the next.

Pure functions are checked as assumptions of the MC module, which TLC evaluates
before the run:

| In | Assumption | Over |
|---|---|---|
| `MCViciCommand` | `WrittenIsRead`: a message is read as written, exactly when it nests | all sequences of up to 4 of 7 elements, and sections to one beyond the depth limit |
| | `ReadIsWritten`: no two encodings of one message | all messages of 4 bytes, and key-values of up to 8 |
| | `PacketIsRead`, `StorageSuffices` | packets of every named kind; every length, growth and capacity |
| | `SasListed`: each SA gives its own entry, a child the name of its IKE SA | up to 2 IKE SAs with up to 2 children, beside sections of the same shape |
| | `MalformedFails`: one malformed element anywhere fails the query | 11 kinds of element at each place |
| | `LoadedIsListed`: what is loaded is what is listed, times rounded up | valid configurations around the limits of the times |
| `MCAlgorithmRun` | `MatrixComplete`, `ExpectedTellsCase`, `ChildExpectationAgrees` | the tables of `algorithm_catalog.c`, every baseline and exhaustive case |

Fairness. `ViciCommand` assumes that a runnable thread is scheduled and that the
clock reaches a deadline; nothing is assumed of charon. `ViciWait` assumes that
threads inside the library are scheduled and that the command timeout of a queued
command passes. `CloseCompletes` assumes nothing of the waits' own deadlines:
cancellation alone has to end them. This is what preemptive threads and absolute
monotonic deadlines give. `AppSession` assumes that the thread stays neither inside a
command nor at the prompt with an exit request (`SessionRuns`: every stage has a step
whatever is answered, so this is weak fairness of the thread), that the kernel drops
the states of a deleted SA, and that whoever is closing repeats `quit`; nothing of
the remote peer. `PeerRegistration` assumes the
two threads of the initiator are scheduled, and `AlgorithmRun` the two processes:
every wait of theirs has a timeout. (The waits of a run count timeouts, so a stream of
unrelated frames without end would postpone them; the model has no such stream, and
`RunEnds` and `ResponderReturns` say nothing of one.) Clients, responders, the network and the
daemon are never assumed to act. In these runs faults are bounded, so a
liveness property says that finitely many failures are survived.

Assumptions of the models about charon: a call without an answer has taken effect
or never will by the time the next one is answered (the command path drops the
stream; `ViciCommand` and `ConnectionPaths` have the late execution), and no other
owner takes a name while the session runs, as `shutdown.c:157` demands ("Names
must remain exclusive").

## Findings

* `protected_reload`: a slot kept after a failed removal is accepted for a new
  load without looking at its filters (`application_protected_path.c:188`).
* `plain_unload`: a rule whose acknowledgement is lost, or whose slot is cleared
  before a failed rebuild, is no longer tracked; a later unload of that connection
  succeeds and leaves it (`plain_nftables.c:868`).
* `load_race`: add and remove of one name are not atomic across threads; a
  rollback or removal can take the filters of a connection another thread has just
  loaded (`connection_manager.c:105`).

* `peer_writeback`: the command loop writes its copy of a peer back without a
  check, over a selector that was registered meanwhile (`cli.c:415`). The property is
  stated of tables no profile of which was edited: `config set remote_ts` reaches the
  record unchecked too, at once and without a race. On a
  responder the same write-back undoes the assignment that a second `peer
  register` has just stored.

The corresponding guarantees that do hold are `FreshLoadInstalls`,
`RulesMatchPeers`, `LoadedKeepsPaths` with one thread, and `RegistrationDisjoint`.

Not a run of its own, but in the model: when READY is lost, the initiator counts
the peer as not prepared and sends no FINISH, so with `--continue-on-error` the
matrix goes on without a confirmed cleanup (`algorithm_runner.c:2306`), against
the comment at line 2574. `PeerCleanConfirmed` is stated for cases whose READY
arrived. Bytes out of step on a TCP stream after half a record are below the frames of
`TestStream`, and a full list of unconfirmed reqids is the stated exception of
`QuitSucceeds`: no property covers these two.

## Proofs

Every theorem below holds for every value of the constants: any number of
threads, calls, waits, names, configurations, responders, any capacity and any
bound. The inductive invariants were model-checked on the instance of the run
before they were proved. A step proof has one lemma per group of actions and one
step per action inside.

### Command path

`ViciCommand_proofs`, under `CallAssumption`:

* `TypeCorrect`: `Spec => []TypeOK`;
* `SlotIsExclusive`: `Spec => []SlotExclusive`, by induction together with
  `CallInv` (a call belongs to one thread and has no result yet);
* `StreamInStep`: `Spec => [](StreamInv /\ OpenInv)`. `IdleStreamClean` and
  `OwnAnswer` are not inductive: that nothing is pending when the slot is free
  follows only from what may be in flight in each stage before. `StreamInv` says
  it stage by stage (`Quiet`, `Exchanging`, `Answering`), and that `listening`
  implies `bRegistered`, without which a response could skip the unregistration;
* `StreamCleanWhenIdle`, `AnswersAreOwn`: consequences of `StreamInv`;
* `RunAtMostOnce`: `Spec => []AtMostOnce`. `OnceInv` adds that a call that is not
  sent yet was neither run nor abandoned, and that a request in flight and an
  abandoned request are each the only copy of a call that has not run. Sending
  and accepting use `StreamInv`: only the owner's request can be on the stream.

`ViciOutcome_proofs` extends it:

* `OutcomeInvariance`: `Spec => [](CallInv /\ OnceInv /\ OutcomeInv)`. `OutcomeInv`
  says, stage by stage, what the stack frame knows (`FrameInv`); that the frames on
  their way to the reader tell what became of its call (`RepliesHonest`); that a
  valid answer agrees with it (`Settled`); and that an abandoned request belongs to
  a caller that is being told, or was told, that the outcome is unknown;
* `DiagnosticsHonest`: `Spec => []OutcomeHonest`;
* `CommandPathImplementsService`: `Spec => ImplementsService`, the refinement of
  `CommandService`. `Submit` is `Invoke`, `AcquireViciCommand` is `Start`, the
  daemon's accepting of a request (on the stream, or later from a closed one) is
  `Run`, `Release` or giving up in the queue is `Return`, and every other step
  stutters. That `Run` is permitted is `AtMostOnce` and the outcome of the caller.

### SA waits

`ViciWait_proofs`, under `WaitAssumption`: `Invariance` (`Spec => []IInv`),
`TypeCorrect`, `FreedUnused` (`NoUseAfterFree`), `CancelledHonestly`
(`CancelHonest`), `ReadyHonestly` (`ReadyHonest`) and `WakeupKept`
(`NoLostWakeup`). `IInv` has four parts beside the types. `CloseInv`: a wait is in
`pWaiters` exactly while it runs, and the context is freed only after the last one.
`CancelInv`: a readable cancel socket, a closing context and a CANCELLED error each
come from a cancellation sent during that wait. `ReadyInv`: a success in the making
rests on a snapshot that saw the SA. `LinkInv`: the daemon holds a registration for
every live channel from the first confirmation on, so that a change after the
snapshot leaves a frame in the channel. The last one is why the order
subscribe, snapshot, wait in the code loses nothing.

### Connection paths

`ConnectionPaths_proofs` has the lemmas on the operators of the two registries (what
creating, installing, removing and rebuilding can leave in the kernel) and the
invariant `BaseInv`; `ConnectionThreads_proofs` extends it and proves, under
`ProtectedAssumption` and `RegistryAssumption`, for any number of threads on any names:

* `Invariance` (`Spec => []BaseInv`), `TypeCorrect`, `FiltersStayOwned`
  (`FiltersOwned`), `OneSlot` (`OneSlotPerConnection`) and `RulesFollowPeers`
  (`RulesMatchPeers`);
* `PathsOutliveLoad` (`LoadedKeepsPaths`) and `AddInstallsFilters`
  (`FreshLoadInstalls`) from `Spec /\ []Exclusive`, by the invariant `Known`: which
  entries a connection has at each stage of a call on it, and that entries are taken
  away only from one that charon is not known to hold;
* `OneCaller`: with one thread both hold with no hypothesis.

`Exclusive` says that no two threads work on one connection at a time. It cannot be
dropped: `connection_manager.c` holds no lock across the stages of a call, and the run
`load_race` violates `LoadedKeepsPaths` with two threads on one name. The theorem says
that this is the only way to lose it.

### Session

`AppSession_proofs`, under `CharonAssumption` and `LedgerAssumption`, for any
configurations, any number of commands, failures,
signals and actions of the remote peer:

* `SessionInvariance`: `Spec => []IInv`, and from it `SessionTyped`;
* `LedgerComplete` (`LedgerCovers`): whatever charon may hold because of the session
  is owned by the ledger;
* `CleanExitHolds` (`CleanExit`): a session that reports a clean exit leaves nothing;
* the action properties `ForeignSparedHolds`, `CredentialOutlivesSasHolds` and
  `ReleaseConfirmedHolds`.

`IInv` adds to these invariants: which command can be at which stage (`Control`,
`Targeted`); what a command relies on when it sends a load or rolls one back
(`Backed`: the item is prepared, the name is owned); that an owned item is prepared,
that an SA of the session belongs to an owned name, and that an owned name is not
foreign (`LedgerInv`); during `quit`, that the items already passed own nothing
unless one of them failed, and what each stage has learnt from the queries before
it (`QuitInv`); and that reqids not yet seen gone are in the kernel, in the ledger,
and on the list the wait for removal works through (`ReleaseInv`).

### Peer registration

`PeerRegistration_proofs`, under `PeerTableAssumption` and `RegistrationAssumption`:

* `RegistrationInvariant`: `Spec => []IInv`;
* `RegistrationTypes`, `TableStaysKeyed`, `SelectionStaysCoherent`,
  `AssignmentsAgree`: the invariants of the run;
* `RegistrationsStayDisjoint`: the action property of the run, whatever was edited.

The invariants are not inductive one by one, and `IInv` has two layers. Whatever the
operator edits, `CliInv` says that the index stays in the table and that the session
has the address of the record it is written back to (of the one selected before while
a refused selection is undone), except between an edit and its write-back; `LisInv`
says what the listener may be about to store. Until the first edit, `Unedited` adds
that ids, identity and names of every record are those of its place, that the session
has the names of its record, and that the ids the listener looked up are still those
of the address when it stores, because the command loop neither adds nor renames a
record (`Keeps`). `AssignInv` says that, while nothing is selected, the names sent to
or taken by a responder are stored or about to be. An edit needs a selected peer and
nothing deselects one, so `AssignAgrees` is about tables without edits (`CliInv` has
`edited => ~Unselected`). The lemmas on lookup, overlap and replacement come first.
The disjointness theorem shows why the finding is not about the listener: the store
validates again in the critical section in which it writes.

### Catalogue

`AlgorithmCatalog_proofs` proves `IkeCasesDistinct` and `EspCasesDistinct` for
tables of any length, under `CatalogAssumption`: every index of an exhaustive
matrix reads inside its tables, and two indices never give the same case. The
argument is uniqueness of mixed-radix digits (`ThreeDigits`, `FourDigits`), once
for the classic and once for the AEAD part, which the first keyword keeps apart.

### Only model-checked

* The liveness properties of all runs: fairness is outside what the prover does.
* The safety properties of `AlgorithmRun`: they rest on what may still be in flight
  between two processes and two daemons after losses, repetitions and timeouts, and
  an inductive invariant for that has not been worked out.
* The assumptions of the MC modules listed above. `ViciMessage` and `ViciListing`
  are recursive over data, and what a recursive definition computes for every
  input is an induction the prover does not reach.
* The four violated properties, which are counterexamples.

## Not modelled

* Packet endpoints: the NFQUEUE socket, the TUN device, packet validation and the
  BPF encoder. One packet per call, byte layouts, and a set-up that runs once.
* Netlink dumps, kernel statistics, datapath probing: read-only queries.
* Configuration parsing, reports, tables, logs, help: text.
* `ClearIpsecContextCredentials`, which the application does not call, and
  `StopNativeAppConnection`, which nobody calls.
* Rekeying: one command of the command path, with no state of its own.
* Duration texts (`ParseIpsecDurationSeconds`) and the statistics and algorithm
  collectors, which have the shape of the SA collector.
