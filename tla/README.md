# A TLA+ verification of anytls-go2

anytls-go2 is a proxy: the client multiplexes proxied connections over reusable
*sessions*, each one TLS connection to the server; the server authenticates
users it fetches from a panel, relays their streams, counts their traffic and
reports it. This directory holds TLA+ modules that model the parts of the
program where concurrency, failure and ordering decide whether it is right, TLC
configurations that check them on small instances, and proofs that TLAPS checks
for every value of the constants.

    tlc -workers 2 -config MCSessionPool_all.cfg MCSessionPool.tla
    tlapm SessionPoolProofs.tla

## 1. Inventory of the system

| Component | Source | State it keeps | Operations |
|---|---|---|---|
| Client session pool | `proxy/session/client.go` | `idleSession` (skip list, newest first), `sessions`, `sessionCounter`, `die` | `CreateStream`, `createSession`, the die hooks of streams and sessions, `idleCleanup`, `Close` |
| Session protocol | `proxy/session/session.go`, `stream.go`, `frame.go`, `util/deadline.go` | `streams`, `die`, `buffering`/`buffer`, `peerVersion`, `synDone`, padding counter | `OpenStream`, `recvLoop`, `writeDataFrame`, `writeControlFrame`, `writeConn`, `streamClosed`, `Close`; `Stream.Read/Write/Close`, `HandshakeSuccess/Failure` |
| Stream pipe | `proxy/pipe` | reader/writer rendezvous, deadlines | `Read`, `Write`, close from either end, deadlines |
| Padding | `proxy/padding`, `util/string_map.go` | the factory in use, by MD5 | `GenerateRecordPayloadSizes`, update by the server |
| Proxy client | `cmd/client` | none beyond its session client | listen, `NewConnection`, `CreateProxy` |
| Connection handler | `internal/server/handler.go`, `internal/fallback` | none; uses all the others | authenticate, limits, fallback, `onNewStream`, TCP and UDP relays |
| Traffic accounting | `internal/traffic`, `internal/conn`, `internal/api/push.go`, `retry.go`, `internal/server/sync.go` | counters per user, the persistence file | `Add`, `Snapshot`, `Merge`, `SaveToFile`, `LoadFromFile`, `doPush`, `PushTraffic` |
| Online devices | `internal/alive` | addresses per user, the panel's counts | `Track`, `Remove`, `Snapshot`, `UpdateAliveList`, `CheckDeviceLimit` |
| Rate limiters | `internal/ratelimit` | failures and bans per address, a limiter per user | `RecordFailure`, `IsBanned`, `Cleanup`; `GetLimiter`, `UpdateLimit` |
| Users and node configuration | `internal/user`, `internal/api` | users by password hash, ETags | `UpdateUsers`, `Authenticate`, `doPull` |
| Server life cycle | `internal/server/server.go`, `cmd/server` | `wg`, the listener, contexts | `Start`, accept loop, `Shutdown` |
| Configuration, logging, TLS, system information | `internal/config`, `util`, ... | none that later steps depend on | run once |

How they interact. A user's goroutine calls `CreateStream`, which takes a session
from the pool or dials one; the stream's die hook gives the session back. A
session's `recvLoop` feeds its streams' pipes and calls their close functions; a
session's own die hook takes it out of the pool. On the server each session's
`recvLoop` starts a handler per stream, whose connection adds to the traffic
counters; `syncLoop` and `Shutdown` take the counters to the panel and the file.

What is hard here:

* `CreateStream`, the die hooks, the idle cleanup and `Client.Close` share the
  pool under three different locks, and each looks at a session under one of them
  and acts later under another.
* A session ends from either receive loop, the watchdog, a control frame that
  cannot be written, the cleanup or the client, while streams are being opened.
* A receive loop waits for the reader of one stream while frames of the others
  queue behind it; both networks may be full at that time.
* Frames of several goroutines share one connection, its write deadline and the
  padding; a pipe's reader, writer, closer and timer meet in any order.
* The table of users, its ETag and the panel's list change at different times, and
  answers are lost or come after several attempts.
* Counters are added to without the lock that guards the map they are in; a push
  may be retried after the panel has counted it; the file is written without a
  lock by two goroutines and read after a crash.

What makes the components correct: a session serves one connection at a time, is
closed only when unused and is never stranded or leaked; a stream is a FIFO that a
FIN does not truncate, and whoever waits on it is released when anything ends;
traffic is conserved; the user table follows the panel. The full list of hazards,
each at its line and with the property that covers it or the reason none does, is in
`PROJECT.json`.

## 2. The modules

| Module | What it is |
|---|---|
| `SessionPool` | the client's pool and the life of its sessions |
| `Lease` | what a pool promises: each session lent to one at a time, until it ends |
| `SessionPoolProofs`, `LeaseProofs` | its invariants and its refinement of `Lease` for all constants |
| `SessionLink` | both ends of one session, its streams and their users |
| `SessionLinkProofs` | six invariants of it for all constants |
| `Pipe` | the pipe of a stream, with its read deadline |
| `PipeProofs` | four invariants of it for all constants |
| `SessionWrite` | how a client's goroutines write frames: one connection, padding, deadlines |
| `DataPath` | `SessionWrite`, the server's `recvLoop` and a `Pipe`: from a write to a read |
| `DataPathProofs` | that its pipe is one, its invariants and the end of padding for all constants |
| `Traffic` | counters, pushes, the file, shutdown, crash and restart |
| `TrafficProofs` | four invariants of it for all constants |
| `Admission` | `handleConnection` up to its session: bans and the devices online |
| `AdmissionProofs` | three invariants and two action properties of it for all constants |
| `UserSync` | `Admission` with the pull cycle: the panel's list, the user table, the clean-up |
| `UserSyncProofs` | that it implements `Admission`, and its own properties for all constants |
| `MCSessionPool`, `MCSessionLink`, `MCDataPath`, `MCTraffic`, `MCAdmission`, `MCUserSync` | the instances for TLC |

`DataPath` EXTENDS `Pipe` and `SessionWrite`, whose actions become its own with the
rest unchanged; `UserSync` EXTENDS `Admission`; `SessionPool` has an INSTANCE of
`Lease` under a refinement mapping.

In the comments of the modules, a definition called a *mutant* is a plausible bug,
kept next to the definition it perturbs: with it in the definition's place the
property named for it in `PROJECT.json` fails, so that each property is known to
depend on the code.

### SessionPool

A step is what a goroutine does between two points where another can see the
difference: a section under a lock, an atomic load, one call of `sync.Once`.
`Conns` are the goroutines that call `CreateStream` once each.

| Variable | In the code |
|---|---|
| `idle`, `expired` | keys of `idleSession`; those whose `idleSince` is before the cleanup's limit |
| `sessions`, `counter` | `c.sessions`, `c.sessionCounter` |
| `closer` | `Client.Close`: `dieCancel()`, then the map taken under `sessionsLock` |
| `life` | a session: open; `given`/`taken`, some goroutine is committed to call its `Close`; `died` (`s.die` closed), `unhooked` (die hook run), `closed` |
| `pc`, `sess` | how far `CreateStream` is, and with which session |
| `strm`, `finDue` | its stream: open, taken out of the map by a FIN (`unlisted`), the three steps of the die hook, FIN to be written, dead |

`CheckClient`, `GetIdleSession`, `NoIdleSession`, `CreateSession`, `DialFails`,
`OpenStream`, `SetDieHook` are `CreateStream`; `CloseStream` is one way a stream ends,
`RemoteFIN` and `CloseFINed`, the two steps of a FIN, the other; `HookCheckSession`, `HookCheckClient`, `HookPut` its die hook;
`SendFin` `streamClosed`; `Closing`, `CloseHook`, `CloseStreams` `Session.Close`;
`Cleanup`, `Expire` `idleCleanup`, `Surplus` being the sessions its loop removes;
`ClientCancel`, `ClientTakeSessions` `Client.Close`. Time is the action `Expire`,
possible whenever a session is idle. A goroutine that closes a session does not
wait for the call: that adds behaviours and removes none.

`Surplus` says in closed form which sessions the loop of `idleCleanupExpTime` takes;
`SurplusLoop` is the loop itself, and `MCSessionPool` checks that they are equal for
all pools of up to five sessions (`LoopTakesSurplus`). The proofs need the closed form.

Of `Lease`, `phase` and `holders` are read off `life`, `pc`, `sess` and `strm` (`phase`
and `holders` in `SessionPool`): a session is live from `CreateSession` until it is
`given` up or has died, and held by whoever has it from the pool and has not put it
back. `PoolIsLease` says that each step of the pool is one of `Lease` or none.

### SessionLink

`inbox` is the network in either direction (`Cap` frames, after which a write
blocks), `rcv` what a receive loop is doing: `reading`, `stopped`, or the frame it
has taken and not yet dealt with, so that all other goroutines can act in between.
A FIN is two steps, as in the code: `OnFIN` takes the stream out of `s.streams` under
`streamLock`, `CloseFINed` closes it after the unlock. In between (`rcv` is `closing`) a
`Session.Close` by the watchdog or a control frame does not see the stream, which is
the exception `Unlisted` that `MapInStep` and `ClientClosesAll` make, and the only one.
`user` is the client's goroutine of a stream (`CreateStream`, `CreateProxy`, the
relay), `hand` the server's handler (`ReadAddrPort`, the dial, the relay).
`Put` is `writeConn` with its buffer, `Control` `writeControlFrame` with its
timeout, after which the session is closed; a write to a connection that is gone
may be accepted and lost, as with TCP. `dog` is the armed SYN watchdog.

Abstracted: a payload is its number; the pipe is a rendezvous between the write in
`recvLoop` and a reader that is at, or will get to, its `Read`; padding, heartbeats
(nothing in the repository sends them) and stream deadlines are left out;
Write never writes part of a frame. `Pipe`, `SessionWrite` and `DataPath` are about
what is abstracted here.

### Pipe

`wr` and `rd` say which `select` a call of `write` or `read` is in; `Meet` is `wrCh`,
`Transfer` the copy and `rdCh`, both of which a caller waits for. `timer`,
`callbacks`, `cancel`, `closed` are a `PipeDeadline`: its timer, the functions of timers
that have gone off, the present channel and those that are closed. `Set` is one
step, since `d.mu` keeps `Wait` out and the callback needs no lock; it is not enabled
while it would wait for the callback (`CallbackAwaited`). `accepted`, `taken` and `due`
are histories. Only what is called is there: nothing in the repository calls
`closeWrite` or sets the pipe's write deadline, and the read deadline of a stream is
set by libraries that are given one as a `net.Conn`.

### SessionWrite

`snd` says where a goroutine is: between frames, before `connLock`, inside it, or
about to clear the deadline. `LockConn` takes the lock, puts `s.buffer` in front and
draws the sizes of the packets from whatever scheme is in force then; each
`WritePacket` is one write of the loop in `writeConn`, and blocks while the network
is full. `deadline` belongs to the connection, as in the code, so that one goroutine
may set it under another's write. A write that fails may leave part of its packet
on the wire, and breaks the connection for good, which is what TLS does. The sizes
drawn are those of the code: `lo .. hi - 1`, and `lo` if both are equal; ranges with an
end that is not positive are left out.

### DataPath

The server's `recvLoop` (`ReadFrame`) takes a header's worth of bytes and as many as
that says, modulo `Width`, whatever they are; it handles `PSH`, `SYN`, `FIN` and
`Waste`, and ignores the rest. A `PSH` for stream 1 becomes a `StartWrite` of the pipe,
and no frame is taken until that is over. `Owner` is the stream's user: reads of any
size, deadlines, and a close at any time.

### Traffic

One amount per user stands for upload and download. `Add` is two steps, the look-up
under `c.mu` (`FindEntry`) and the atomic addition after it (`AddTo`); `live` and
`orphans` are the goroutines in between, by whether the entry they point to is
still in the map. `Snapshot` is `Swap` and `Prune` with the lock held; `pc` takes
`syncLoop`'s and `Shutdown`'s pushes through push, retries, merge and the save, the
latter in three steps: copy, truncate, write. `Restart` may come at any time, which
is a crash, or after `Exit`. `reported` is the panel, which is external. Four
variables are histories for the properties: `moved`, `gone`, `again`, `quiet`.

### Admission

`Conns` are goroutines of `handleConnection`; one that is done serves as the next.
`Accept` is `IsBanned`, `AuthFails` the three ways into `RecordFailure` and the
fallback, `TooManyDevices` the refusal by `CheckDeviceLimit`, `Track` and `Remove`
the tracker's, `Cleanup` the end of `doPull`. `count`, `first`, `banned`, `banAge` are
a `failureRecord` with ages in place of times, `online` is `Tracker.online` as a set
of pairs. `Tick` makes everything a tick older; the code compares ages with `>`, and
so does the model. `recent` is a history: the ages of the latest
`2 * MaxFailures` counted failures of an address, latest first. Which user
a password hash belongs to, and what count of devices the panel returns, is open:
any user may be authenticated, any connection refused.

### UserSync

`listed` is the panel's list, which changes at any time; `table` is `Manager.users`,
`userETag` the tag of the API client, which stands for the list that it came with.
`StartPull`, `Ask`, `NewList`, `KeepList`, `Retry`, `FetchFails`, `EndPull` are `doPull`, with
`FetchUsers` and `doWithRetry` inside it; `EndPull` runs the limiter's `Cleanup`. `LogIn`
is `Admission`'s `Authenticate` for a user who is in the table at that moment. `seen`
is a history: the lists the panel has had since it answered.

Of the panel, which is external, it is assumed that it sends an ETag with every list
and derives it from the list. A status 4xx is not looked at by `FetchUsers`: with a
body that is JSON it reads as no users, which its caller takes for a 304 (the
comment at `endpoints.go:74` has the latter only). At the start the server then has
an empty table, which `SyncInit` includes; the next pull that succeeds fills it.

## 3. The runs

| Run | Instance | States | What it shows |
|---|---|---|---|
| `pool_all` | 2 connections, 2 sessions, `MinIdle` 1 | 58 k | `ExclusiveUse`, `PooledIsUnused`, `NoneStranded`, `CloseMissesNone`; `CleanupReserve`; `CloseDrains`, `CloseWakesOwner`, `SurplusReaped`; `PoolIsLease` |
| `pool_deadidle` | 2, 2, 1 | | finding: a closed session in the pool |
| `link_safety` | 2 streams, 1 item each way, network of 1 frame | 3.7 M | `SettingsFirst`, `NoEarlyReply`, `MapInStep`, `ClientClosesAll` across a reuse of the session |
| `link_one` | 1 stream, 3 and 2 items, network of 1 frame | 206 k | `StreamIsFifo`, `FinDrains`, and `CloseSpreads`, `UsersReleased`, `Delivered` |
| `link_zombie` | 2 streams | | finding: a stream registered in a closed session |
| `link_watchdog` | 2 streams | | finding: another stream's SYNACK disarms the watchdog |
| `data_path` | 3 senders, 3 workloads, 2 schemes, network of 4 bytes | 154 k | `FramesIntact`, `EndToEnd`, `DeadlineHonest`, `PaddingStops`, and `ReadReturns`, `ControlEnds` |
| `traffic_all` | 1 user, 2 connections, 1 retry, 1 lost reply, 1 restart | 412 k | `Conserved`, `FileNotAhead`, `QuietShutdownSaves`, `Reported` |
| `traffic_orphan` | 1 user, 1 connection | | finding: an addition to a pruned entry is lost |
| `users_all` | 3 connections, 1 address, 1 user; 2 failures allowed, window 1, ban 2 ticks, 1 retry | 85 k | `FailuresBounded`, `BanDeserved`, `BanLasts`, `BanEnds`, `NoGhosts`; `PullBringsUpToDate`, `TableFollows` |
| `admission_forgets` | 2 connections, 1 address, 1 user | | finding: one connection's end hides another's device |
| `admission_window` | 1 connection, 1 address; 2 failures allowed, window 1 | | finding: more failures than allowed within a window's time, and no ban |

Why the bounds are enough.

* `pool_all`. Two connections are the one that has a session and the one that
  competes for it, two sessions with a reserve of one are the one to keep and the one
  to close. Everything but liveness is proved for any number (section 4).
* `link_*`. Two streams are the least that reuse a session, arm the watchdog (which
  the first stream does not) and let a late frame of the first meet the second; one
  frame fills the network within one stream's items, so that writers block and both
  loops wait. In `link_safety` the server sends data on the first stream only
  (`SecondGetsNoData`, a constraint of the instance), which may come late and
  meet the second. The invariants are proved for any number of streams, items and
  frames in the network.
* `data_path`. Bytes carry their place in their frame, so that every cut and every
  mix of two frames shows. The workloads (`MCWorkloads`) are: two writes and the end
  of their stream by another goroutine; a write, its end and the answer to a
  heartbeat, which is two control frames whose deadlines meet; and a single write
  under up to three deadlines of the reader, among them one set anew after it has
  passed. The first scheme cuts and pads one write, with a check mark, and pads the
  next; the second has stopped already, and any write may be the one after it. Reads
  of two bytes split a write and meet its end. The network holds four bytes, the
  longest frame, so that padding blocks; a header is one byte (that a header can
  itself be cut in two is not covered: `io.ReadFull` waits for it as for data).
  All but `ReadReturns` and `ControlEnds` is proved for any work, schemes and sizes.
* `traffic_all`. One amount of traffic before and one after any step of a push cover
  each race of two additions with it; users do not interact, except that a push with
  nothing in it is a push with nothing for anybody.
* `users_all`. One user is two lists, with and without; a retry is a second request
  under a list that may have changed twice. Two failures allowed are the least where
  failures around the end of a window can be more than the limit without a ban (three,
  as `admission_window` shows), so that the bound of `FailuresBounded`, three, is above
  it; a window of one tick has an age inside, one at its end and one beyond, a ban of
  two one more. The three connections are from one address: they overlap in any
  order, with two still to fail when the third is on its way in. Addresses do not
  interact. All but `BanEnds` and
  `TableFollows` is proved for any number of each.

`CHECK_DEADLOCK` is `FALSE` for pool, link, data path and traffic: connections, streams,
bytes and traffic are bounded there, and a program that has done all of it stops.
`UserSync` has no such bound and is checked for deadlock; the runs that show a finding
are not.

Bounds named in the modules: `MaxSession`, `MaxStream`, `ClientItems`, `ServerItems`,
`SecondGetsNoData`, `MaxSets`, `Workloads`, `MaxMoved`, `MaxLostReplies`,
`MaxRestarts`. `Cap`, `Window`, `HeaderLen`, `Width`, `MinIdle`, `Retries` and `MaxRetry` are parameters of the program
or its surroundings.

### Fairness

* `SessionPool`: a goroutine that can take its next step takes it (no step of these
  waits for another party), and `Client.Close` and the cleanup's ticker go on. No
  fairness for what users, the peer, the network or the clock may do: opening,
  closing, failing, expiring.
* `SessionLink`: receive loops, writers, closers and handlers go on when they are
  not blocked; the client writes the address at once; a user or handler whose
  stream is closed notices (its `Read` returns); TCP notices in the end that the
  other end is gone. Nobody need open a second stream, write more, close or fail.
  A control frame is taken to end within its timeout; see the remarks in section 5
  for what two at once can do to that.
* `DataPath`: a write that has begun goes on, a deadline passes, `recvLoop` takes what
  has come, the pipe's goroutines take the step they can. Weak fairness of `PipeStep`
  as a whole is enough because the data is finite. Nobody has to write, to read, to
  set or clear a stream's deadline, or to break the connection.
* `Traffic`: the ticker ticks, and a push goes on. Strong fairness for
  `PushAccepted` says that a panel asked again and again accepts now and then;
  without it nothing can be reported.
* `UserSync`: time passes, and `syncLoop` goes on: each step of a pull ends, requests
  having a timeout. Strong fairness for `NewList \/ KeepList` says that a panel asked
  again and again gives a whole answer again and again; `TableFollows` means nothing
  without it. `BanEnds` needs the passing of time alone, not even a clean-up.

## 4. What is proved

The theorems hold for all values of the constants that meet the assumptions of their
module, which TLC evaluates in the runs:

* `PoolAssumption`, `LinkAssumption`, `TrafficAssumption`, `SyncAssumption`: bounds are
  naturals, the network holds at least a frame, connections are not pushers.
* `AdmissionAssumption`: at least one failure is allowed, a ban is no shorter than the
  window.
* `PipeAssumption`: what is written are sequences of bytes.
* `WriteAssumption`: data and padding fit the 16 bits of the length field (`Width`). The
  code takes the length modulo 2^16 and writes all of the bytes, so that longer data
  or a scheme with a larger size would put `recvLoop` out of step; the buffers of the
  relays and the schemes of the documentation are far below it.
* `DataPathAssumption`: the network takes a whole frame, and the SYN of the stream is in
  `s.buffer` ahead of its data. `OpenStream` writes it there before it returns the
  stream (`session.go:156`).

| Module | Theorems |
|---|---|
| `SessionPoolProofs` | `TypeCorrect`, `Exclusive`, `PooledUnused`, `NoStrandedSession`, `CompleteRegistry`, `CompleteClose`, `ReserveKept` |
| `LeaseProofs` | `PoolImplementsLease` |
| `SessionLinkProofs` | `LinkInvariant`, `LinkTypeCorrect`, `SettingsComeFirst`, `RepliesComeAfter`, `MapStaysInStep`, `ClientCloseIsComplete`, `FinTruncatesNothing`, `StreamsAreFifo` |
| `PipeProofs` | `PipeType`, `BytesExact`, `BufferSafe`, `DeadlineIsHonest` |
| `DataPathProofs` | `PathIsPipe`, `PathTypeCorrect`, `FramesAreIntact`, `StreamIsEndToEnd`, `PaddingIsOver`, `PathDeadlineIsHonest`, `PathBufferSafe` |
| `TrafficProofs` | `TrafficTypeCorrect`, `TrafficConserved`, `FileNeverAhead`, `NothingLeftOut` |
| `AdmissionProofs` | `AdmissionTypeCorrect`, `NobodyGhostsOnline`, `BansLast`, `FailuresAreBounded`, `BansAreDeserved` |
| `UserSyncProofs` | `SyncIsAdmission`, `NoGhostsWithSync`, `BansLastWithSync`, `FailuresBoundedWithSync`, `BansDeservedWithSync`, `SyncTypeCorrect`, `PullIsUpToDate` |

Every safety invariant and every action property of the runs that pass is among them. Each comes from
an inductive invariant, along `Init => IInv`, `IInv /\ [Next]_vars => IInv'` (a step per
action, under it one per conjunct the action disturbs) and `IInv => Inv`.

**Pool.** `IInv` adds `Tracked` to the properties: seqs beyond the counter are
unborn, a session given up is out of the pool, a connection past the pool has a
session and, from `SetDieHook` on, a stream. Without it `CreateSession` could make
a session that is already pooled. The properties also need each other:
`ExclusiveUse` after `GetIdleSession` needs `PooledIsUnused`, `CloseMissesNone`
after `ClientTakeSessions` needs `RegistryComplete` and `NoneStranded`.
`ReserveKept` is an argument about cardinalities: those that stay are at least as many
as the reserve or all there were. `PoolImplementsLease` maps each action, in a state
of `IInv`, to one of `Lease` or to a stutter: `ExclusiveUse` makes `holders` at most one
connection, `PooledIsUnused` makes a session from the pool one that is held by none.

**Link.** `LinkInv` looks at the frames that an end has still to act on as one queue: the
frame its loop is at, the network, and the client's buffer. `WireInv` says which frame may be
ahead of which (`MayPrecede`) and what each frame says of its two ends (`Fits`: a
PSH carries an item that is written and not read, a FIN comes from a stream that is
closed and counts what was written). `DueInv` says which frames must be there as long as
anything can arrive: the Settings until they are settled, the SYN of a stream until
it is made, every item until it is read. `HeadInv` keeps for the frame the loop is at
what a connection that fails does not take away, and for a FIN what it counts until the
stream is closed. `MapInv` and `ClientClosesAll` excuse the stream of that FIN
(`Unlisted`): it is out of the map and open until the loop, which does nothing else
first, closes it; that only this one is excused, and only then, is what is proved. A queue changes in three ways only
(`Keeps`, `Gains`, `Loses`), and owners, streams and maps in the ways of `StageMove`, `UserMove`,
`HandMove`, `MapMove`; each conjunct is proved against these. `StreamIsFifo` follows:
items in the queue are exactly those between read and written, and in order.
`ServerClosesAll` has no such theorem, being false (finding 2).

**Pipe.** `PipeIInv` adds `OneInside`, which is `wrMu`, and `TimerInStep`: a timer that
runs has a deadline ahead of it and no function of an earlier one under way; one that
has gone off has closed the channel or is about to. `DeadlineIsHonest` is false
without the wait in `Set`, because of the latter. `BytesExact` needs that the one
inside `Write` holds just the bytes that are accepted and not yet taken. `BufferSafe` is
what lets `recvLoop` put its buffer back after `Write` (`session.go:202`).

**Path.** `WireInv` of `DataPathProofs` has `Flow` as its core: the bytes on the wire, with
the rest of the write that is going on, are the bytes of whole frames, and these,
without the padding among them, are what of the log is not yet taken. It stays true
when a packet is cut off anywhere, when padding is put behind the end of a frame,
and when a write fails half way, after which the rest never comes. So the first byte on the wire is
the first of a header, `recvLoop` takes one whole frame of the log, and the data of a
frame are among the `Writes` of a pipe: the path implements `Pipe` (`PathIsPipe`), whose
invariants then hold in it. `Handed` ties the two: what the pipe has been given, with what
`recvLoop` is about to write, is the data of the frames taken, up to where the pipe was
closed; a stream that is open is known, because its SYN is ahead of its data in the
log, and one that has met its FIN is closed. `EndToEnd` puts together that the log
starts with the frames taken, `Handed` and `PipeExact`. `Stops` follows `pktCounter`: from
the second write on it is the number of the write, until padding is over, so that a write past
every stop has no plan and goes out as it is (`PaddingIsOver`).

`Flow` speaks of some sequence of frames, which no run could enumerate; TLC checks what
follows from it. Sums over sequences (`FlattenSeq`) need induction, and the induction
theorems of the library have an operator for a parameter, which no prover here can
instantiate. `Least` and `SetInduction` are induction in the form of sets, from which
`FlattenConcat` and `MappedConcat` follow: a sum over two sequences is the sum over the
first and that over the second.

**Accounting.** `IInv` adds `Held`, a snapshot is held by a push in progress only
(else the next `Swap` would overwrite traffic), `CopyNotAhead`, what `syncLoop`
is about to write is at most what is counted, as nobody takes counters away while
it saves, and `AloneWithFile`, that a shutdown which nothing disturbs finds `syncLoop`
stopped, copies what is counted and leaves that in the file (`NothingLeftOut`).

**Admission.** `IInv` adds `Known`, a connection past a step has the address or user that
step got (else `Track` could enter nothing), and `BannedBeyond`, a count beyond the
limit comes with a ban (else the next failure would leave the range of `count`).
`BansLast` is an action property: each step of `IInv` keeps a ban or ends one that
is over. `FailureInv` relates the record to the history: the record counts the latest
failures, since the one that `firstFail` tells of, and before that one fewer than allowed lie
in the window; under a ban nothing is newer than the ban, which is why a ban no shorter
than the window is assumed. With the pull cycle all of it holds because `SyncSpec`
implements `Spec` of `Admission` (`SyncIsAdmission`), where `LogIn` is `Authenticate` under a
stronger guard. `PullIsUpToDate` rests on `TagMatchesTable`: the tag is that of the
table, or none, and the answer under way is one to that tag.

Only model-checked: the liveness properties `CloseDrains`, `CloseWakesOwner`,
`SurplusReaped`, `CloseSpreads`, `UsersReleased`, `Delivered`, `ReadReturns`, `ControlEnds`,
`Reported`, `BanEnds` and `TableFollows`, since liveness under fairness is out of the
prover's reach, as is `ENABLED`. Only proved: `CompleteRegistry`, `BytesExact`, and
`BufferSafe` with `PathBufferSafe`. No module declares a `RECURSIVE` operator, as the provers' SMT backend
cannot take it.

## 5. Findings

1. `pool_deadidle`. The die hook of a stream checks `session.IsClosed()` and inserts
   the session later; the session may die, and be removed from the pool, in
   between. It then stays in the pool, closed: the next `CreateStream` takes it and
   fails, though it could have dialled.
2. `link_zombie`. `recvLoop` checks `s.die` at the start of a round and registers the
   stream of a SYN later, without the check `OpenStream` has. If the session is
   closed in between by a control frame that timed out, the stream lands in the
   fresh map of a closed session: its handler waits in `Read` for good.
3. `link_watchdog`. A SYNACK disarms the watchdog whichever stream it is for.
4. `traffic_orphan`. `Counter.Add` adds to an entry it found under a lock it has
   released; `Snapshot` may have deleted it from the map by then, and the addition
   is never reported.
5. `admission_forgets`. `Tracker.Remove` deletes the address of a user although another
   connection of that user from there is open, as every client with two sessions
   has. Only a new connection brings it back.
6. `admission_window`. The window is fixed at its first failure and starts over after
   its end, so that failures late in one and early in the next are not counted
   together: where `docs/faq.md:43` has more than 10 failures in 60 s bring a ban, up to
   19 bring none. `FailuresBounded` is what the code does guarantee, fewer than twice as
   many; `BanDeserved` that every ban meets the documented condition.

Remarks on the code that are not runs:

* `Shutdown` pushes and saves the counters before it waits for the connections
  (`server.go:188`), and nothing saves what they move until they end, although
  `readme.md:11` promises that a restart loses no traffic. `QuietShutdownSaves` states
  what remains true, for a shutdown that nothing disturbs.
* `writeControlFrame` sets and clears the deadline of the connection outside `connLock`
  (`session.go:403`, `412`). When two goroutines write control frames, the one that ends
  first clears the other's deadline: with a peer that reads nothing the other then
  waits without limit. `ControlEnds` states what remains true, for the first of them.
  Likewise a data write may fail under a deadline that was a control frame's.
* The length of a frame is cut to 16 bits (`session.go:383`) while all of the data is
  written, and so is that of padding (`session.go:458`, `471`), whose size is whatever the
  scheme says. `WriteAssumption` excludes both, as the relays' buffers and the
  documented schemes do.
* `docs/protocol.md:127` asks that a scheme of the server apply to the Client that is
  connected to it; the code replaces the one of the package for all of them.
* `docs/protocol.md:147` gives sizes as those of TLS plaintext. A packet that is all
  padding is a header longer (`session.go:468`), and one with payload and room for no
  more than a header is as short as the payload.

## 6. The plan

Done so far: the pool and its abstract specification; session and streams; the path
of bytes through padding, connection and pipe; accounting; admission with the users
of the panel; and a proof of every safety property that a run checks. What is left:

1. An abstract specification of a stream, two FIFO channels with one close each, that
   `SessionLink` implements: the refinement mapping takes the channels from `sent` and
   `read`, the closes from `strm`, and `LinkInv` gives each step its place.
2. An abstract specification of the accounting (a tally per user that is moved,
   reported or lost) that `Traffic` implements.
3. Frames in both directions in `DataPath`, with the server's answers as a second wire.

## 7. What is not modelled

* The speed limiter: it decides how long a connection sleeps after a read or a write,
  and no other state depends on it. That a user keeps the first limit, and that two
  first connections get a limiter each, can be read off `speed.go` and need no model.
* The accept loop and `wg`: the loop repeats on every error of the listener, which is
  the system's; a connection accepted while `Shutdown` waits moves traffic that is
  lost like that of the others (section 5).
* What `FetchConfig` brings: intervals are read once at the start, and the padding
  scheme is announced to clients, which `SessionWrite` lets have any. The device limit
  of a user: the panel's counts may be anything, so that any connection may be refused.
* Unsynchronised accesses of `s.buffering`, `peerVersion` and the die hooks: every
  access has the order of the program in the models. While `s.buffering` is set the
  server has seen nothing that it could answer, so that nobody else writes;
  `peerVersion` is a byte, whose old and new value both occur in the interleavings.
* The pipe's write deadline and `closeWrite`, and a stream's write deadline: nothing in
  the repository calls them.
* The UDP relay and the copying of the fallback, which are loops of a library between
  two connections; configuration, logging, TLS, certificates, system information and
  the installation script, which are I/O run once.
* In `Traffic`, writes to the file that fail (the error is logged, the next save
  tries again) and the server without a panel.
