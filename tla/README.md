# Verification of gocloak

gocloak gives a program in one network access to named backends in another. A
server holds a WireGuard device in user space (wireguard-go and netstack); a
peer is a public key, a preshared key, a tunnel address, two caps and a map of
service names to backends, all listed in `peers.yaml`. A client dials the
server's address inside the tunnel, sends one frame that names a service, reads
one status byte pair back and then owns a raw pipe to the backend. `peers.yaml` is
watched: editing it adds, changes and revokes peers while the server runs.

This directory holds TLA+ models of that program, checked with TLC, and theorems
about them, checked with TLAPS. `PROJECT.json` lists for every definition the
source lines it stands for, for every run what it checks, and for every property a
defective variant of the code that the property catches.

## Inventory

| part | state | operations | hard because |
|---|---|---|---|
| serving path, `server.go` `handleConn` | one goroutine per connection; `peerLimiter.live`, `.active` | look up limiter, acquire, read hello, resolve, dial, track, re-check, respond, pipe, untrack, release | the authorization is read at three moments up to 15 seconds apart, with reloads in between |
| hot reload, `server.go` `handleReload` | `Server.limiters`, the device, `pskCache` | swap limiters, reap, remove / add / change peers, prune | runs beside the handlers; any device step may fail |
| limiter, `server.go` `peerLimiter` | tokens, last, limits, active | acquire, release, setLimits | the clock is read outside the lock |
| `Server.Run` | context, listener, device, watcher, wait group | startup, accept loop, defers | order of the shutdown, goroutines that register late |
| watcher, `config.go` `peerWatcher` | `cur`, `seen`, debounce timer, fsnotify watch | on event, error, debounce, tick; stat, read, publish | events get lost, files are half written, the watch dies |
| peer list, `config.go`, `policy.go` | immutable once loaded | load, validate, diff, resolve | uniqueness of keys and addresses is what identity rests on |
| device, `device.go` | keys, preshared keys, routes (in wireguard-go) | add, update, remove peer, set endpoint, close | update-only requests are silent no-ops for unknown keys |
| secrets, `secret.go`, `resolveSecret` | cache by reference | resolve, prune | rotation in place |
| client, `client.go` | device, endpoint, refresh semaphore | Dial, hello, refresh endpoint, Close | watchdog against success, concurrent refreshes, time budgets |
| settings, `config.go`, `server.go`, `device.go` | immutable once loaded | load, default, check, three times over | the three may drift apart |
| wire, `wire.go` | none | read / write request and response | short reads, bytes behind the frame |
| `gocloak keygen`, `cmd/gocloak` | two key files | create, write, sync, close, remove | crash between two files, two runs at once |
| `gocloak serve`, `cmd/gocloak` | exit code | load, make, run | a failure that looks like success |
| `internal/msg`, `cmd/gocloak-send`, `cmd/gocloak-sink` | listener, connections, exit code | Serve, ServeConn, Send | shutdown waits for handlers, ack against delivery |

The parts meet at four places. The watcher's goroutine calls `handleReload`, so a
reload never overlaps another. Handlers and the reload share the limiter map
(under `Server.mu`), each limiter (under its own lock) and the published list (an
atomic pointer). Handlers and the reload share the device. `Run` joins both kinds
of goroutines before it closes the device.

What makes each part correct: a connection is served only for an authorization in
force, and a revocation ends what it must (serving path, reload); slots and tokens
are neither lost nor forged (limiter); the device follows the list (reload,
device); an edit that stays ends up in force (watcher); everything opened is
closed, in order, and shutdown ends (`Run`); a dial yields a usable connection or
an error within its time (client); a frame is judged by what was sent, and exit codes
and acks say what happened (wire, message tools); a key that was reported is on disk
(keygen).

## Modules

| module | models | composed of |
|---|---|---|
| `ConfigText` | addresses and secret references as operators write them (pure) | |
| `PeersConfig` | validated peer lists, `policy.Resolve`, `diffPeers` (pure) | |
| `PeersFile` | `peers.yaml` to validated list: `LoadPeersConfig`, `validatePeer`, `newPolicy` (pure) | `ConfigText`, `PeersConfig` |
| `ServerFile` | `server.yaml` to settings: `LoadServerConfig`, `NewServer`, the device's checks (pure) | `ConfigText` |
| `Revocation` | abstract: what a reload promises about connections | |
| `TunnelServer` | the serving path and the hot reload together with the device; implements `Revocation` | `PeersConfig`, `Revocation` |
| `PeerLimiter` | one limiter in time | |
| `PeerWatcher` | the watcher of `peers.yaml` | |
| `Rollout` | an edit from the file to the device: watcher, loader, diff, secrets and their cache | `PeerWatcher`, `PeersFile` |
| `ServerRun` | `gocloak serve` from `server.yaml` to the exit code: startup and shutdown | `ServerFile` |
| `Client` | construction, concurrent dials, endpoint refresh, `Close` | |
| `Wire` | the hello frames (pure) | |
| `MsgSink` | message framing, `msg.Serve` and its shutdown | |
| `Session` | one session byte by byte: sender, `handleConn`, `pipeConns`, sink | `Wire`, `MsgSink` |
| `Keygen` | runs of `gocloak keygen` on one directory | |
| `TunnelServerProofs`, `PeerLimiterProofs`, `PeersFileProofs`, `RolloutProofs`, `ServerRunProofs`, `ClientProofs`, `SessionProofs`, `KeygenProofs` | theorems about the module each is named for; `RolloutProofs` also about `PeerWatcher` | |
| `MC*` | instances for TLC | |

The same code appears in two modules where two questions need two abstractions of it.
`TunnelServer` has `handleConn` against reloads, with no bytes; `Session` has it on
bytes, with one connection and a reload reduced to a choice; `ServerRun` has it as
steps with deadlines. `TunnelServer` has the reload against connections, with secrets as
references; `Rollout` has it against the file and the secret stores, without
connections.

### TunnelServer

A step is a critical section, an atomic load or store, or a blocking call with the
local work around it. The reload is `Reload` (the publish, with the diff),
`RefreshPeers` (the map swap under `Server.mu`), `DrainLive` / `CloseLive`
(`closeLive`, first under the limiter's lock and then connection by connection),
`RevokePeer`, `AddPeer`, `UpdatePeer` (one iteration each of `applyDiff`'s loops; the
order within a loop is the file's, so the model takes every order) and
`FinishReload` (the prune). A handler is `Accept`, `LimiterFor`, `Acquire`, `Hello`
or `HelloFails`, `DialBackend` (with `track`), `Recheck`, `Respond`, `PipeEnds`,
`Untrack`, `Release`.

`RefreshPeers` sets the limits of kept limiters in the same step as the swap. The
code sets them one by one just before, under their own locks; an `acquire` in
between reads no map, so it commutes with the swap.

A limiter is a pointer in the code and `<<key, generation>>` here. `origin` (the key
the device authenticated) and `grantor` (the entry that granted the service) are
history variables: the program keeps neither. Which of `acquire`'s two caps refuses
is left to chance here; `PeerLimiter` has the token bucket. The device is two functions,
preshared key by key and key by address; `Rerouted` is what wireguard-go does with
`replace_allowed_ips`, taken from how `device.go` uses it. An apply fails only where the code
can: the reference is not cached and does not resolve, or what it resolved to, now or when it
was cached, is no key. A reference cached as a key is not asked for again (`server.go:927-929`) and does
not fail. A removal may fail at any time.

`Revocation` says the same without limiters, locks and handlers: a set of
authorizations in force, and the one each connection is served under. A connection is
admitted only under one that is in force; the set changes as a whole, and not before
every connection the last change left without authorization has been ended; those are
ended. `TunnelServer` maps to it by `LimitersInForce` (the limiters in the map) and
`ServedUnder` (the limiter of a handler past the re-check whose connection is not
closed). `RevocationRefined` is the safety half, `ImplementsRevocation` adds the liveness.

### PeerLimiter

Handlers read the clock (`ReadClock`) and take the lock later (`Acquire`); the reload
changes the limits at any time. Tokens and time are counted in 1/`Res` so that the
refill is an integer. `Observe` starts a window of observation at any moment, so that
`DialRateBound` speaks of every window.

### PeerWatcher

The file changes (`Edit`) between any two steps of the watcher, `StatFile`, `ReadFile`
and `Publish` included; an event may be lost, the watch may die without a word, and
re-arming may fail. A file's identity is its number of edits, so two different
contents never share one; in the program they may (same size, same time stamp).

### Rollout

`Rollout` extends the watcher with the rest of the way of an edit. What the watcher
publishes is the list that `PeersFile` makes of the file; the diff of two lists is
applied one peer at a time; `ApplyPeer` resolves the preshared key through the cache,
finds out whether the value is a key (`keyToHex`), and changes the device, unless the
request is update-only and the device does not know the key. Secrets have values, which are written,
half written, removed or replaced at any moment (`Rotate`); a `file:` or `env:`
reference resolves to what is there, any other through the caller's resolver, which may
fail at any time. `RevokePeer` may fail too: `applyDiff` logs "PEER REVOCATION FAILED" and goes on, the key
and its routes stay, and no later reload retries unless the key is listed and dropped once more.
`unapplied` is history: the keys whose last step on the device did not do what the list says, an
apply that reported an error or was a silent no-op, or a removal that failed. `DeviceFollows` and
`EditReachesDevice` say of the others that they are as listed, also next to the leftovers: an entry that is
applied takes its address back from a key that should be gone.

`PeersFile` is pure, and its three properties (`AcceptedIsUsable`, `DeletionRevokes`,
`OrderIrrelevant`, together `LoaderHolds`) quantify over `PeersFiles`. The run has about two
thousand documents that put every field on both sides of its checks, one or two entries
at a time, and evaluates the properties in its first states; the proofs are for files of any length.

### ServerRun

`runServe` and `Run` are a sequence of program points. A startup failure jumps to the defer that is
on top of the stack at that point, and each defer is an action. Handlers carry the
time they have spent in the present step; `Tick` advances all clocks by five seconds
and is not enabled when a deadline, a closed connection or a cancelled context ends a
step first. `context`s are two: the caller's (`ctxDone`), which bounds a reload's
secret lookups, and `runCtx` (`cancelled`), which dials and pipes watch. The drain's
bound is a variable with three values, the code's among them.

### Client

A member of `Dials` is one call of `Dial`, with its budget, its connection and its
watchdog. The budget's deadline (`DeadlinePasses`) and the moment the context reports it
(`BudgetExpires`) are two steps, because the connection's own I/O deadline is the same
instant on another timer. The watchdog is registered with the connection, starts when
the budget is done, and closes the connection in a step of its own (`WatchdogStarts`,
`WatchdogCloses`); `StopWatchdog` is `finishHello`'s call of `stop`. `refreshEndpoint` is
`AcquireRefresh` or `SkipRefresh`, `CheckGeneration`, `Lookup` (the name server's answer), `Move`
(`SetPeerEndpoint`) and `Applied`, with every other call and the name's own moves in
between. Addresses are numbered in the order the name had them, so "older" is `<`. The
locals of `dialControl` are reset when it returns; `began` is history. The write of the request and the read
of the response are one step, which may fail anywhere within.

The device's endpoint changes only through `SetPeerEndpoint` here. wireguard-go also takes it from
any packet of the peer that authenticates, so a server that roams may move it without the client's
record; `EndpointAgrees` and `EndpointForward` are about the client's own changes.

### Session

Two connections, each a pair of ends and two streams of bytes: the peer's program with the
server's handler, and the handler's other side with the sink. A read sees a prefix of what was
written. A connection may be lost (`Cut`), with the bytes of both streams past any point; neither end is
told, writes are swallowed and a close reaches nobody. An end finds out later, or never (`Notice`). Frames and
messages are read by `ReadHelloRequest`, `ReadHelloResponse` and `ReadMessage`, which say of
a sequence of bytes and whether more will come: a result, an error, or "blocks". The
job the program was started for is chosen at the start: `gocloak-send` with some message,
or any program that writes some bytes at once. Beside the proxied connection the sink
has one that somebody made directly and keeps as long as he likes.

A pipe has no deadline (`server.go:501-504`), and the server's device sends no keepalive
(`device.go:296-325` sets one on the client's peer only). A handler whose peer is lost in silence stays in `io.Copy`, as
`server.go:699-703` says, until the backend ends, a write to the peer fails, or a reload or the shutdown reaps it.
So `SessionEnds` does not say that a lost peer ends the session. It says that the handler never stays before the
pipe, whatever is lost; that in the pipe it returns once the end of either side has reached it; and that when it has
returned, also because it was reaped, nothing stays behind at the sink, even if the connection between
them was lost.

### Keygen

A file has the run that created it and a content: partial, written or synced. Runs of
the command for one name interleave call by call; each call may fail, each run may be
killed, and a power loss kills all and spoils what was not synced. `CleanUp` is the
operator who deletes what a run that is over has left without success.

## Runs

| run | what it shows |
|---|---|
| `ServerReload` | two connections, up to two reloads among five lists (a peer, its replacement at the same address with another grant, two peers, the two with their addresses exchanged, nobody): `TypeOK`, `ServedIsAuthorized`, `GrantMatchesLimiter`, `SlotsAccounted`, `CapHonoured`, and the refinement `RevocationRefined` |
| `ServerFaults` | one connection, every device step may fail: `DeviceAgrees` holds when nothing failed, `RevocationEffective` as long as no removal failed; `RetiredReturns`; `ImplementsRevocation` with its liveness |
| `Rollout` | two edits, one rotation, lost events, dead watches, applies and removals that fail: the loader (`LoaderHolds`), the watcher (`SeenIsLoaded`), the cache (`CachedIsStable`, `NoResidentSecret`) and the device (`DeviceFollows`, `EditReachesDevice`) |
| `LimiterRate` | three handlers, two limits, stale readings: `WithinBurst`, `DialRateBound` |
| `ServerShutdown` | two connections, the code's deadlines, three bounds of the drain: `DeviceOutlivesUsers`, `DrainNeverExpires`, `NothingLeaks`, `ResultIsHonest`, `SettingsHold`, `Terminates` |
| `ClientDials` | two calls, cancellation, expiry and `Close` at any point, one move of the name: `HandedOutStaysOpen`, `FailureLeavesNothing`, `NoRedundantLookup`, `EndpointAgrees`, `EndpointForward`, `DialReturns` |
| `Session` | thirteen jobs, a loss of either connection at every byte, with or without notice, a sink that is told to stop at any point: `ExitHonest`, `AckedIsHandled`, `PayloadIntact`, `FrameJudged`, `SenderExits`, `SessionEnds`, `SinkStops` |
| `Keygen` | three runs, failures, kills, power loss: `ReportedPairSurvives`, `FailureLeavesRoom`, `OthersUntouched` |
| `RecycledAddress`, `FailedApply`, `LateHello`, `ClientStale` | violations, see Findings |

Every module with state has a type invariant. It is proved with the
inductive invariant that the module's proofs rest on; the runs list only `TunnelServer`'s.

### Bounds

`MaxGen` counts the calls of `refreshPeers`, the first at startup: two reloads let a
peer leave and come back, and let a limiter of the generation before last still be
held by a handler. Two connections are what contention for a cap of one or two takes,
and one more than the reap of one limiter needs. Two keys and two addresses allow
replacement, exchange and moves. In `Rollout` two edits cover a write in the middle of a
reload that the first one caused, and an entry that is changed or removed after its add
failed; one rotation gives a reference a first and a second value, on each side of any
step. Its three valid files add, drop and exchange two peers of which each has a reference of
its own or both have one; the empty list and every refused text are left to `LoaderHolds`, apart
from one file that does not load. In `Session` names and messages are at most two bytes long: the limits, one less
and one more all occur, and a frame can end inside its header, before and inside its
name. One of the two connections is lost there (`MaxCuts`); that both are is left to the theorems, which hold for
every value of `MaxCuts`. In `Keygen` three runs are one that has finished and two that collide. In `LimiterRate` two rates
and a clock of five half-second units let the bucket fill, be clamped and refill after
a lowered limit. In `ClientDials` two calls are a holder of the refresh and one that waits,
skips or overtakes, and one move makes one answer older than another. In `ServerShutdown` the unit is five seconds, the greatest
common divisor of the code's deadlines (5, 10, 30, 30 seconds), so all of them are exact;
the drain's bound is also tried at five and at fifteen seconds, where it fires and where it
just does not.

Deadlock is not checked in the runs with a bound on reloads, edits or time, which
may stop there: with an empty list and no reload left nobody can connect; a server
that returned has nothing to do.

### Fairness

- The steps of a reload follow one another: the watcher's goroutine waits for no
  handler, and a secret lookup ends with the timeout of `applyDiff`.
- Every step of a handler before the pipe has a deadline or does not block. A pipe
  is obliged to end only when its connections have been closed (or, in `ServerRun`,
  the context cancelled, which `pipeConns` watches); a peer may keep it open for ever.
- The watcher's ticker fires for ever and Go's `select` chooses at random among
  ready cases, so a case that is ready again and again is taken (strong fairness of
  `OnRearm`, `WatchStops`). Nothing is assumed of events or of re-arming.
- The budget of a dial has a deadline and its timer goes off; every step of a dial is
  bounded by it or by a deadline of its own. A dial whose `select` begins with the
  budget done takes that case (strong fairness of that branch of `Retry`), for the
  retry timer has just been made.
- Accept fails once the listener is closed; nothing else is bound to make it fail.
- In `Session` goroutines run, and the three reads that have deadlines (the hello on both
  sides, the ack) end. Nobody is bound to hang up: `SinkStops` assumes it of the clients,
  because `Serve` waits for them. A loss of the connection to the sink is found out (weak fairness of
  `Notice("proxy")`): Go's `Dialer` and `Listen` turn TCP keep-alive on by default, and both sides use them
  as they are. Nothing is assumed of the tunnel's connection, which netstack makes without.
- `Rollout` assumes of secret stores only that a lookup returns, which the resolve timeout
  of `applyDiff` ensures.

## Findings

**A recycled address** (`RecycledAddress`). `peers.yaml` is edited so that key A is gone
and key B holds A's address. Between the publish and `RemovePeer` the device still
accepts A. A connection of A accepted then, or accepted before and not yet looked up,
finds B's limiter at the address, is resolved in B's allow map, and passes the re-check,
which compares B's limiter with itself. It is not in a limiter that is dropped, so
the reload does not close it. The guide says there is "no window in which a revoked
key still works" (`docs/integration-guide.md:608`), and `server.go:799-805` that every
step of the window denies. `RemovePeer` ends A's packets, so bytes from A stop there;
the proxy and its slot of B's cap stay until the backend or the netstack gives up.
Nothing else leads there: `ListedKeysServed` proves the guide's sentence, with failures of the device
and from the end of `refreshPeers` on, for an operator who never gives an address to a second key.

**A reload that is partly applied** (`FailedApply`). A moves from an address to another,
B takes the first, and both now name a reference that is new and gives no key: the secret is not
there yet, or is read half written and cached so. Both entries fail. The limiter map and the policy
already bind the first address to B, the device still routes it to A, and
`handleConn`'s "the remote address is the authenticated identity" (`server.go:355-358`)
does not hold: A is served as B. Later reloads are diffed against the published list,
so neither entry is applied again until it changes. It takes both, an address that passes to
another key and an apply that fails: `AddressesIdentify` proves the comment where either is missing.

**A late hello is answered** (`LateHello`). `wire.go:40-46` opposes a malformed frame, which is answered, to "a plain
I/O or timeout error, which carries no such signal that a response is owed", and `server.go:420-423` calls
the endpoint's silence "a designed property". `readHelloRequest` wraps every error of the read of the name in
`errMalformedFrame` (`wire.go:141`), the deadline's too. So a peer that has sent a valid header and part of a
valid name after five seconds is told that its frame is malformed; one that is a byte short of the
header gets nothing. `FrameJudged` is what holds when no deadline fires within the frame.

**A lookup older than the dial that relies on it** (`ClientStale`). `refreshEndpoint` skips its
lookup when the generation has advanced since the dial began: "Another dial resolved the
name after this one started" (`client.go:641`). The generation advances when an answer is
recorded. A dial that begins after the name server's answer and before that record
skips its lookup for an answer from before it began, and spends its budget on an
address the name may have left by then. The next dial looks the name up. A dial that makes
the lookup itself is not concerned (`OwnLookupsAreFresh`): only the skip is.

Observed while modelling and not a property of a run:

- An entry whose *add* failed is not on the device, and a later change of that entry is
  an update-only request that succeeds without effect and is logged as "peer updated".
  `unapplied` in `Rollout` counts it, and `EditReachesDevice` excuses it: only an entry that
  leaves the list and comes back is added again.
- "A secret rotated IN PLACE under the same reference is never picked up without a restart"
  (`server.go:913-915`). It is when the reference leaves the list and comes back, because
  the prune has forgotten the old value. `CachedIsStable` is what does hold.
- A value that is no key, such as a file read half way through a write, is cached before
  the device refuses it, and stays cached as long as its reference is listed.
- Public keys are compared by their text. Go's base64 decoder takes several texts for the
  same 32 bytes, so `LoadPeersConfig` accepts two entries that are one peer of the device.
  `Keys` has one text for each key.
- When the tunnel drops, "Existing conns error out" (`docs/superpowers/specs/2026-09-09-gocloak-design.md:332`).
  They do once somebody finds out: with no deadline and no keepalive an idle pipe of the server does not. `Session` has the loss without notice, and `SessionEnds` says what is left.
- `msg.Serve` is said to return an accept error "immediately" (`msg.go:54-56`); it waits for
  every open connection first, which have no deadline. And its watch goroutine may end on
  `stopWatch` with the context done, so that `Serve` returns with the listener open;
  `gocloak-sink` closes it itself.
- A message with a newline in it is two messages to the sink, and `gocloak-send` exits with
  0 after the first ack. The text of the ack is not looked at.
- `pipeConns` closes both sides when the first copy ends. A peer that closes its half and
  waits for answers may not get those that are still on their way.
- `DrainNeverExpires` holds for bounds above twice the hello deadline. The bound in the code
  is six times that deadline, so giving up is dead code there.
- "A budget spent after the tunnel came up returns the context's own error"
  (`client.go:397-399`). The read's deadline is the budget's deadline on a timer of its
  own; when that timer is first, `helloError` finds the context not done yet and returns
  the I/O timeout (`result = "timeout"` in `Client`).

## Proofs

A theorem holds for every value of the constants that satisfies the named assumptions, so for
any number of connections, calls, runs, peers, edits and reloads and for frames and messages of
any length. The assumptions say what the code has made sure of before the modelled part begins
(`NoKey` is not a key, every list in `Configs` is a validated one, a secret is none of the markers),
and TLC evaluates each of them on the runs. Three bind more than names:

- `PeersFilesAssumption` (`PeersFile`): a file is a document and a sequence of entries, of any length, whose
  addresses and limits have the types of `peerYAML`'s fields. What they say is free.
- `FilesAssumption` (`Rollout`): `Valid`, the watcher's parameter, has the files that `LoadPeersConfig` accepts, and
  `Refs` and `IPs` have the references and addresses that occur in them. That a list has its keys in
  `Keys` and no address twice is not assumed; it is proved of the loader.
- `JobsAssumption` (`Session`): a job is a name and a message, or bytes, of any length.

Safety properties are proved from an inductive invariant that is stated in the component's own
module, part by part, so that TLC can check it there. Each is needed because
the property alone is not preserved by the steps: it speaks of the end of something and says
nothing about the way there.

**TunnelServer.** `TypeCorrect`, `ServedConnectionsAuthorized` and `GrantsMatchLimiters` rest on
`RevocationInv`, in four parts. `LimiterMap`: the map follows the list except between publish and
refresh, a limiter sits at one address, a dropped one is not in force and does not come back
(its generation is past). `Registered`: from `track` on a connection is in its limiter's live
set as long as that limiter is in force or waits to be drained; this is where "track before
re-check" is used. `ServedOrReaped`: a connection past the re-check is under the limiter in
force, or its limiter waits to be drained, or it waits to be closed. `GrantOrRetired`: the
grant comes from the limiter's own key, or the limiter is retired, or the pending refresh will
retire it.

`RevocationImplemented` follows from the same invariant: every step of the server maps to a step of
`Revocation` or leaves its two variables alone. The re-check is `Admit`, the swap of the limiter
map is `Change`, and what ends a connection is `End`; that nothing revoked is left when the map
is swapped again is `ServedIsAuthorized` after the reap.

`DeviceFollowsList` and `RevocationsTakeEffect` rest on `DeviceInv`, which says how far the diff has got: an
entry dealt with is on the device with its key and at its address, an entry to be updated is
there, and a route that is not right belongs to an entry still to come. With it the order within
a loop does not matter, nor that two peers exchange addresses one at a time.

`SlotsAreAccounted` is inductive beside `RevocationInv`, by arithmetic on the number of handlers that hold a slot: each
step adds one handler to one limiter's set, takes one from it, or leaves all sets alone.
`CapIsHonoured` follows, since a handler joins a set only in `Acquire`.

`ListedKeysServed` and `AddressesIdentify` say where two of the findings end. They are proved under a hypothesis
on the lists or on the faults that the runs with the violations do not satisfy. `AddressInv` holds without it: only
a list that gave an address to a key puts the key at that address, on the device and at a handler. With
`NoAddressReused` the key the device authenticated is then the key of the limiter, and what `RevocationInv`
says of limiters carries over to keys.

**PeerLimiter.** `DialRateBounded` from `RateInv`: what a window has taken plus what is left in the
bucket came out of one burst and the time credited since its start. `BurstIsKept` is a part
of the same invariant.

**PeersFile.** The loader is a fold over the entries. `PeersFileProofs` describes what it has done after the first
n entries (`ok` says that each was accepted by `validatePeer` and that they differ pairwise in name, key and
address, and the list is their results in order) and proves it by induction. The induction theorems of
the library cannot be applied here, so the induction is the least counterexample: a set of naturals that is
not empty has a least member, and the entry before it gives the contradiction. That the recursive function
inside the fold exists is proved the same way. With the description, `newPolicy` is seen to refuse nothing that
the loop let pass, and `AcceptedEntriesAreUsable`, `DeletionAlwaysRevokes` and `OrderDecidesNothing` are facts about
single entries, about the pairs that are left when one is deleted, and about pairs counted from the other end.

**PeerWatcher** (in `RolloutProofs`). `SeenFileIsLoaded` from `WatchInv`: with stat before read, the identity about to be
recorded is that of the content read, or of an older file.

**Rollout.** `RolloutIsWatcher` proves that the composition implements the watcher's specification:
each of its steps is a step of the watcher or leaves the watcher's variables alone. So
`AppliedFileIsSeen` and the watcher's types carry over. `DeviceFollowsFile`,
`NothingStaysResident` and the action property `CacheIsStable` rest on `RolloutInv`: `StageInv` (what
can be pending where), `SettledInv` (what is on the device is listed, about to be removed or
left over from a removal that failed, and an entry not pending and not `unapplied` is there as listed), `CacheInv` (only a reload
caches what is not listed, and it forgets it before it ends). What it needs of a list (known keys, one
key at an address) is `ListsAre`, from the loader's description. `LoaderKeepsPromises` restates the three
theorems of `PeersFileProofs` as the run has them.

**ServerRun.** `LifeInv` follows `Run` from startup to the last defer: `StartupInv`, `ServingInv` and
`ClosingInv` say what is open where, `ResultInv` which cause each result has, `ClockInv` how long
each step has lasted. From it `TypeCorrect`, `DeviceIsSafe`, `RunLeaksNothing`, `ExitIsHonest`, and
`DrainIsBounded` for all deadlines: a handler in the drain spends at most one hello deadline
before its answer and one in it, and dials and pipes end at once. `SettingsAlwaysHold` is a fact
about operators: whatever `server.yaml` says, settings that `LoadServerConfig` accepts pass
the checks made after it.

**Client.** `ClientInv`: `BuildInv` (no call without a finished client, no open connection without
an open device), `SlotInv` (the refresh slot has one holder, and the generation stands still
while it looks up), `ConnInv` (a connection is handed out only with its watchdog stopped),
`AddressInv` (the answer in hand is not older than the address in force, nor than the call that asked). From it
`HandedOutConnections`, `FailuresLeaveNothing`, `LookupsAreNotRepeated`, `EndpointsAgree`, and the
action properties `EndpointsMoveForward` and `OwnLookupsAreFresh`.

**Session.** `SessionInv` says what may be in each of the four streams, by where the two programs
are, for every loss of either connection or of both: before the frame is read the stream is what the peer wrote at once or a cut of it
(`FrameInv`); the handler answers once and nothing passes before that (`AnswerInv`); the first two bytes
to the sender are the answer and the rest comes from a sink that has handled something
(`DownInv`); until then what is on its way to the sink is the beginning of the message, with no
gap (`PayloadInv`). Under it are lemmas on the readers, for sequences of any length: a frame read
from a prefix is the frame of the whole stream (`ReadGood`), one called malformed on a prefix is
malformed or cut short (`ReadBad`), and the first line of a prefix is that of the whole.
From it `ExitsAreHonest`, `AckedMessagesAreHandled` and `FramesAreJudged`.

`PayloadStaysIntact` adds `PipeInv`: the messages handled with their newlines, what is on its way to the sink and, as
long as it can get there, what the handler has not copied yet are in this order the beginning of what
the peer sent behind its hello. A copy moves bytes from the last of these to the second, the sink's read moves a line
from the second to the first, and a cut takes bytes from an end. The messages are joined by `FlattenSeq`, a
recursive function; what it does to one message more is proved by the same induction as the loader's fold.

**Keygen.** `OwnerInv` says of each run what it has on disk at each call: the file it writes is its own
(created with `O_EXCL`), the private key is whole while it is at the preshared key, a run
that has failed has neither, one past its last close has both. From it `ReportedPairsSurvive`,
`FailuresLeaveRoom`, and the action property `OthersStayUntouched`.

The proofs have corrected the models. Three readers of frames and messages were written
with a CASE whose guards overlapped; TLC takes the first that holds, TLA+ any of them, so they
promised less than they seemed to. `NoResidentSecret` leaves the private key's reference out, because a
peer may name the same one.

Every invariant and every action property of a passing run is a theorem. Only model-checked are

- liveness: `RetiredReturns`, the liveness of `ImplementsRevocation`, `EditReachesDevice`, `Terminates`,
  `DialReturns`, `SenderExits`, `SessionEnds`, `SinkStops`. Fairness and ENABLED are out of the prover's reach;
- that the four violations happen: a counterexample is TLC's to find. The theorems named under Findings say
  where they cannot.

## Not modelled

Formatting, log lines and redaction; the YAML decoder, of which `PeersFile` has the verdict;
flag parsing; wireguard-go, netstack and fsnotify beyond what the code uses of them; rounding
of float64 in the token bucket; the AWS resolver (calls to a service, no state of its own).
The guard of `Run` against a second call. Two contents of a file that share size and time
stamp. Several spellings of one public key.

## Plan

What is left, in order of worth:

1. Several spellings of one public key in `PeersFile`: `Keys` as texts with a decoder, so that the loader's
   uniqueness speaks of the device's keys.
2. `PeersConfig`: that `diffPeers` partitions the keys of two lists, as a lemma both `TunnelServerProofs` and
   `RolloutProofs` cite.
3. The identity of a file as size and time stamp in `PeerWatcher`, with two contents that share one.
