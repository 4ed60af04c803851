# Formal models of the PCU20 Network Manager

TLA+ modules for the server in `src/pcu20`, the TLC configurations that check
them on small instances, and theorems about them checked by TLAPS for every
value of the constants. Paths below are relative to `src/pcu20`, those of
`tools/` to the repository.

Contents: 1 the system, 2 the modules and how they correspond to the code,
3 the runs, 4 fairness, 5 what is proved, 6 disagreements with the code's
comments, 7 what is not modelled, 8 plan.

## 1. The system

One Python process runs on one asyncio event loop. Blocking calls (files, git,
serial ports, FOCAS) run in threads, nearly all of the loop's default executor.

| component | state | operations | interacts with |
|---|---|---|---|
| PCU20 server (`protocol/server.py`) | table of sessions, listening ports | start, one task per connection, stop | codec, dispatcher, machine registry, event bus |
| dispatcher and handlers (`protocol/commands.py`, `handlers.py`) | none of their own | one handler per command | session, shares, versioning, executor |
| session (`protocol/session.py`) | state, counters | authenticate, disconnect | handlers, server |
| frame codec (`protocol/codec.py`) | one buffer per connection | feed | server |
| machine registry (`machines/`) | machine id -> record | on_connect, on_disconnect, register_configured, update_status | server, FOCAS, setup routes, dashboard |
| drip feed (`serial/`, `web/routes/probe.py`) | per feed: status, cancel flag, port or socket; table of feeds | post, cancel, the feeder's thread or task | executor, serial driver, CNC |
| versioning (`storage/versioning.py`) | git repository or `.versions` per share | on_file_written, get_history | write handler, executor |
| shares, file system (`storage/`) | configured shares | resolve, list | handlers, file routes |
| FOCAS2 connector, poller, client (`focas/`) | connected clients, poll task | start, poll, stop | registry, event bus, executor |
| connector registry (`protocol/registry.py`) | connectors in order | start_all, stop_all, routing | app, web routes |
| event bus, WebSocket, page (`event_bus.py`, `web/websocket.py`, `app.js`) | a bounded queue per subscriber; a counter per page | emit, subscribe | everything |
| configuration, setup routes (`config.py`, `web/routes/setup.py`) | `AppConfig`, `pcu20.toml` | add, remove, save | registry, executor |
| probe G-code (`web/routes/probe.py`) | none; the program it answers | generate | page, drip feed, the machine that executes it |
| capture and replay (`tools/`) | capture file, session counter, two relays per connection | accept, forward, record; read, replay | controller, original server |

What is hard: a connection's task may be suspended in five places while stop()
rewrites the tables it uses, and it ends in seven ways that must all leave the
same traces; two sessions of one machine share a registry entry; TCP delivers
frames in arbitrary pieces; a drip feed's thread, the event loop's cancel, the
operating system's driver and the machine interleave at every step; a thread
pool is shared by feeds that last hours and file jobs that last milliseconds;
save, snapshot and commit jobs run concurrently without locks; a probing program
is generated in one place, executed in another against a workpiece whose place
is what it is to find, and may be cut short; two relays of a connection close
each other's ends while both append to one file. `PROJECT.json`
lists each hazard at its line, with the properties that watch it.

What makes each component correct: the server's tables, totals and events agree
with the connections that exist, and only logged-in clients get work done; the
codec's output does not depend on how the stream was cut; a drip feed sends
nothing to a machine that paused it, but for one line if the pause is cancelled,
obeys a cancel within a line, returns its
port and ends; what is on disk has a version that is that content, unless jobs
that overlap have cost it; the
configuration file equals the configuration; a FOCAS machine is shown connected
exactly while it has a client; every subscriber sees the events in order, but
for those its queue had no room for; a probing program sets each offset to the
feature's place or not at all and runs into nothing on its way; what the proxy
has delivered is on record, in an order that can be replayed.

## 2. The modules

### PCU20Server, MachineRegistry, FileService

`PCU20Server` models `_handle_connection`, the dispatcher and handlers it calls,
`stop()` and the teardown by `asyncio.run`. **One action is the code between two
awaits**, because on one event loop nothing else runs in between. `pc` says at
which await a task is suspended:

| `pc` | await | leaves by |
|---|---|---|
| `accepted` | task created, not run yet | `Begin` |
| `reading` | `wait_for(reader.read)`, server.py:151 | `ReadData`, `ReadEof`, `IdleTimeout`, `ReadReset`, `LoopError` |
| `frames` | (none: it holds the loop between two frames) | one handler action per frame, `EndBatch` |
| `thread` | `to_thread` in a handler | `JobDone`, `JobFails`, `JobRaises` |
| `version` | `on_file_written`, handlers.py:124 | `VersionDone` |
| `drain` | `writer.drain`, server.py:166 | `Drain`, `DrainReset`, `LoopError` |
| `closing` | `writer.wait_closed`, server.py:193 | `Finish` |

`Cancelled` may take a task at any of them once `Teardown` has cancelled it.
`Leave` is the finally block up to its await and is part of every action that
leaves the loop. While some task is in `frames` no other may move (`LoopFree`).
`app` and `closed` follow `run_app` through `stop()` port by port.
`WaitClosedWaits` is a constant because `Server.wait_closed()` returns at once
before Python 3.12.1 and waits for the open connections from then on; the
package allows both.

A file command is a thread job with an outcome (`READ`, `WRITE`, or `QUERY` for
the five commands that only ask or make a directory). A login succeeds or fails
nondeterministically. Byte counters, timestamps, file handles (allocated by no
handler) and the trace's text are left out; that writing the trace may raise is
part of `LoopError`.

`MachineRegistry` holds the registry's table as operators on its value, applied
inside the server's actions, so that other components can apply them too.

`FileService` is the abstract promise: a client is absent, open, logged in or
gone, works on one file operation at a time, starts it only when logged in, is
counted at most once per operation, and never comes back. The refinement reads
the phase off `pc` and `state`, and the work off the thread jobs.

### FrameCodec

The stream is a function of positions and the buffer the stretch from `cut` to
`received`, so that `del buffer[:n]` moves `cut` and `buffer.extend` moves
`received`. `Feed` starts a call, then `Extract`, `Resync` and `Return` are the
iterations of its loop; `depth` counts the nested calls of
`_try_extract_frame`, and `ResyncRaises` is the RecursionError when the stack
has no room for another. A frame is named by the position it starts at.
`MaxDepth` is what is left of the interpreter's limit (1000 by default).

### DripFeed, DripJob

`DripFeed` models both feeders and the routes that start and cancel them. A
serial feed runs in a thread, so **one action reads or writes the flag, the
status or the port once**; a LAN feed is a task, so one action goes to the next
await. `Running` and `Workers` are the executor: a posted session waits in
`queued` until a thread is free. `rx` is what the driver has queued for the
program. The routes always open the port with `xonxoff=True`; POSIX drivers then
act on XON and XOFF themselves (`held`) and hide them, others pass them on.
Which one is a choice made in `Init`, since the code runs on both. A control
character that arrives while nobody has the port open is lost, and opening
flushes what was queued. `late` is a history variable: lines sent although the
flag was set. Delays between lines only let time pass and are left out, as are
the line's text and its encoding. The session tables never shrink, so a posted
session stays known to cancel; a cancel of an ended session sets a flag nobody
reads and is left out.

A LAN feed's `drain()` may or may not suspend; a cancel that comes between
`drain()` and the next look at the flag has the same effect as one that came
during it, so the split at the top of the loop adds no outcome.

`DripJob` is what a poll of the status may see: a job waits, sends line by line,
may pause and resume, and ends once, `COMPLETED` only with every line sent.

### VersionStore

The job of `handle_write_file` and the job of `on_file_written` that follows it,
for sessions that run them at once. **One action is one access of a thread to
the file system**: truncate, write, read or replace the index, read or set HEAD,
open the snapshot, fill it, list, look at the mtimes, remove one. A content is
the sequence of its blocks, each named by the write it comes from, so that
overlapping writes leave a mixture and a short write over a long one its tail.

`repo.index.add` and `repo.index.commit` are GitPython's, modelled as the code
relies on them, and external: each use of `repo.index` is an index of its own.
`add` stores the file's content (`GitAdd`), reads the index (`GitAddReads`) and
replaces it by what it read with that content in it (`GitAddWrites`). `commit`
reads the index again and writes it as a tree (`GitCommitTree`), reads HEAD for
the parent (`GitCommitParent`) and sets HEAD to the new commit, whatever HEAD is
by then (`GitCommit`). The code takes no lock around them, and `index.lock`
protects the replacement only. Either may raise at any step (`GitFails`):
because of that lock, which a kill may also leave behind, because `add` changes
the process's working directory while other threads do, or because there is no
repository. `log` is the trees of HEAD and its ancestors, of which
`_git_history` is the part about one file. There is one repository; programs of
different shares do not meet. Two shares are as two instances of the model.

Snapshots are named by `<<name, second>>` and carry
the mtime `copy2` gives them; mtimes are finer than the seconds in the names.
`BaseName` and `Matches` give the names and the prefix they are selected by.
A negative `max_snapshots`, which the configuration accepts and which counts
the snapshots to be removed from the other end of the list, is left out; zero is
not.
`Teardown` cancels what no thread has started, `Crash` stops everything; files
stay. History variables say which exceptions a property grants: files whose last
write ended without a version, a commit that raised, files whose last git
job overlapped another one (`raced`), files two sessions worked on at once, names
a rotation of which was cut short. `made` is the versions that jobs which
overlapped none have committed.

So `LoneVersioned` says what a program can count on whatever the others do: its
own job, if none overlaps it, puts its content into HEAD, and no later job, racing
or not, takes that version out of the log. Jobs that overlap may lose what they
are for: that is the run `versions_git`, which needs no exception, no kill and
no program that two sessions write.

### EventBus

The bus, the WebSocket task of each subscriber and the page at the other end,
with the steps at which a session changes the registry or emits (`Connect`,
`Activity`, `Leave`, `Report`: the registry hears of an end before
`wait_closed`, the bus after it). An event is named by its place in the order of
emission, so that a page's feed is a sequence of numbers. A task that leaves the
loop abandons its generator, which is closed a little later (`Unsubscribe`). A
page that loses its socket tries again without being rendered anew; the loss is
seen by the page first (`Break`), then by the server (`Notice`).

### FocasConnector, SetupConfig

`FocasConnector` models `start()`, `FocasPoller.run` and `stop()`, an action
from one await to the next; `app` says where `run_app` is with it. The four
reads of one poll are one await, since nothing changes between them. The client
in the source is a placeholder for the FOCAS library; its calls may succeed or
raise here, as the connector expects of them.

`SetupConfig` composes it with the routes that change `config.focas` and with
`pcu20.toml`. `Add` and `Remove` run to the await of `save_config`; the thread
takes a copy (`TakeCopy`), truncates the file and writes it; `Reply` is the rest
of the handler. The file is whole, empty (read as the defaults, like a missing
one) or torn (a copy written over a longer one's text, or half of one), with
which the server does not start. The model assumes the server was started with
the default `--config`, since the routes always write `pcu20.toml`. `stale` is
true from a change made while another save had its copy already, or a save that
raised, until a save has run alone.

Ids are unique in the list (`add-machine` refuses a known one), so removing an
id keeps the rest in order: `Without` gives that list without recursion.

### ProbeGcode, ProbeWorkpiece

`Generated` is `generate_probe_gcode`: each `_gen_*` is an operator of the same
name from a request to a sequence of blocks, a record per G-code word. The
pieces the generators repeat by hand (a touch of a wall, one side of a boss, the
double touch, two sides of a stock) are operators of their own. Numbers are
whole millimetres; feeds, tool change, comments and layout are left out.

The rest of the module is external: the machine executes a block per step, in
absolute or incremental mode, with work offsets, macro variables and boxes of
solid material. A skip move stops at the first face it meets. The generators
take for granted, and so does the model, that `#5061` to `#5063` are machine
coordinates (probe.py:568), that `G10 L2` replaces an offset, and that the
Renishaw macros measure what they are asked to. `fixed` is a history variable:
the offsets this program has set. A feed that is cancelled stops at some block,
so what must hold after a cancel is stated at every block.

`Setups` may be any requests to which `SetupsAssumption` applies: those the form
can send (probe.html:509 to 538), with whole numbers for the parameters a cycle
reads, `set_wcs` and `probe_top` as Booleans, one of the three axes where one is
asked for, and in the outside box one of the six systems; the machine has an
offset for every system and axis. `Measured` and `ToBeSet` say what a request
asks to be set; `OnlyItsOffsets` is the half of `OffsetsSound` that does not
depend on the workpiece.

`ProbeWorkpiece` says where a workpiece may be for a cycle to find it. A request
does not know: the operator puts the stylus somewhere and gives nominal sizes.
`Fits(s, G)` holds when there are regions `G`, boxes free of material, in which
the cycle can move, with the faces it probes at their ends (`Walled`), closer
than the end of the skip move (`Beyond`) and farther than its approach
(`Covers`), and when `feature` is the place between or at those faces:

| cycle | what the generator takes for granted |
|---|---|
| single surface | the surface is between the approach position and the end of the skip move, 50 beyond the expected one |
| bore, pocket width | each wall is outside of the safe position and within 10 of the nominal one |
| boss | the zero is between the two faces of each axis, the safe position (20 beyond the nominal face) is outside of them, and there is room to descend there |
| corner | each wall is between the descent and the same distance beyond the zero |
| outside box | the top is within 30 below the stylus; the high side of each axis is between where the cycle descends, the nominal half and a safety distance from the start (X) or the centre found (Y), and the end of the skip move; the low side is less than the nominal size and two safety distances from it |

`Placed(s)` is that some such regions exist. Sizes are not bounded, the zero may
be anywhere, and the material may be any set of boxes. Of outside boxes it
takes those of `SetsAll`: section 6 says what the others do. The `probe` run
checks that every machine of its instance is within these margins
(`EveryWorkpieceFits`), so that the hypothesis of the theorems below holds of
all the machines on which the run checks the properties themselves.

### CaptureProxy

`tools/capture_proxy.py` and the reading half of `tools/replay.py`. An action is
the code between two awaits of `handle_connection` or of one of its two
`forward`s: reading a piece of data, recording it, flushing and writing it is
one step. A kill may cut it, or an `OSError` from the file (`RecordBreaks`):
nothing is forwarded then, and the file has the record, nothing, or a torn one.
What such a write leaves in the writer's buffer is counted as in the file if a
later flush gets it there, since nothing is handed over before that flush. After a
kill nobody appends; after an error the proxy serves on, and a record that follows
a torn one is taken for a part of it by the reader (`Intact`). Bytes are
counted, not looked at. An end may stop reading (`Stall`), after which what is
written to it need not leave the proxy's buffer: `drain` may not return, and the
transport, once closed, may not end (`Waits`). `shut` holds the ends whose transport the proxy has
closed: writing to one is ignored, reading from one ends. Since the end of
either direction closes the transport the other one reads from, answers under
way when a controller half-closes may be lost; no property says otherwise.
`Interrupt` is Control-C before Python 3.12.1, where the file is closed at once;
from then on the proxy first waits for its connections, which is the same as
Control-C after they have ended, without new ones in between; if one of them
does not end, a second Control-C does what the first one did before.

### MC modules and proof modules

`MCPCU20Server`, `MCDripFeed`, `MCVersionStore`, `MCEventBus`,
`MCSetupConfig`, `MCProbeGcode` and `MCCaptureProxy` give the constants of the
instances; `FrameCodec` has only numbers and is checked as it is.
`PCU20ServerProofs`, `FrameCodecProofs`, `DripFeedProofs`, `VersionStoreProofs`,
`EventBusProofs`, `SetupConfigProofs`, `ProbeGcodeProofs` and
`CaptureProxyProofs` hold the theorems. A definition whose comment begins with
"Mutant" is used by no specification: it is a plausible bug of the definition
that follows it, kept to show that a property notices it (`PROJECT.json` says
which).

## 3. The runs

| run | configuration | shows |
|---|---|---|
| `server_safety` | `MCPCU20Server.cfg` | tables, totals, events and jobs agree; the file service is implemented |
| `server_liveness` | `MCPCU20ServerLive.cfg` | connections of reading clients end; `stop()` completes before 3.12.1 |
| `server_stop` | `MCPCU20ServerStop.cfg` | expected violation: `stop()` hangs from 3.12.1 on |
| `codec` | `MCFrameCodec.cfg` | framing is independent of segmentation; nothing is held back; `feed` raises only on long garbage |
| `drip` | `MCDripFeed.cfg` | pauses, cancels, ports and status; feeds end |
| `drip_cancel` | `MCDripFeedCancel.cfg` | expected violation: an early cancel is lost |
| `versions` | `MCVersionStore.cfg` | what is on disk has its version, whatever other jobs race; rotation keeps the newest, and no more than it may |
| `versions_git` | `MCVersionStoreGit.cfg` | expected violation: overlapping jobs commit without the program they are for |
| `events` | `MCEventBus.cfg` | events arrive in order; when the page's number is the registry's; dead subscribers leave |
| `setup` | `MCSetupConfig.cfg` | the file is the configuration; presence follows the clients; `stop()` returns |
| `probe` | `MCProbeGcode.cfg` | in every cycle moves stay clear, probes touch, offsets are right wherever the program stops |
| `capture` | `MCCaptureProxy.cfg` | what was delivered is recorded and can be replayed; both ends end, unless one that is there stops reading |

Bounds, and why they are enough:

- `server_safety`: three connections, two of one machine (overlapping sessions
  and reconnects) and one of another on a second port (the loop over the ports);
  `MaxFrames = 3` frames shared by all, so that one client can log in, work and
  terminate, alone or in one batch, while the others come and go. The first two
  connections are interchangeable (symmetry). Data that completes no frame is
  charged as one, else a client could send for ever. The liveness run has two
  connections, two frames, no symmetry, and one client that never reads.
- `codec`: 13 bytes, bytes of two values, frames of at most 3. With base 2 a
  header takes lengths 0 to 15: zero, valid and too long ones, and a stream
  holds up to two frames or a frame among garbage, cut anywhere.
  `MaxDepth = 2` lets a short run of garbage pass and a longer one raise, also
  after a frame, which must have given the stack back.
- `drip`: two serial sessions on one port and one LAN session, two threads,
  programs of two lines and one; `MaxPosts = 2` sessions posted in a behaviour
  (every pair of them), `MaxChars = 2` characters a machine sends by itself (an
  XON that answers an XOFF is not counted), both drivers. `drip_cancel` has one
  thread, which is the situation it is about.
- `versions`: two sessions and two programs with unrelated names, both
  strategies; three writes of two blocks, so that two overlap on one program, or
  one is versioned while another program's write is, or one follows a failure;
  one snapshot kept and two seconds, so that rotations remove something and two
  snapshots collide; one kill or shutdown. Sessions and programs are
  interchangeable (symmetry). Three programs, two of them of one name in two
  directories, keep the properties too, in an instance too large for every day.
  `versions_git` is the same instance with git alone.
- `events`: two machines with one session each, one page and two WebSockets (a
  page that reconnects), a queue of one event, which is full after one. In it
  no machine has two sessions at once; `CountAgrees` excepts that case.
- `setup`: two machines, three requests and one kill: two saves overlap and a
  third follows, or is lost with the process. The file starts missing, with one
  machine, with one of two disabled, or with FOCAS disabled. Shutdowns and
  restarts are not bounded.

- `probe`: every cycle in both modes, but for the outside box, which is manual
  with `probe_top` and `set_wcs`; the others with and without setting the offset, with
  the program's system active or not, and the work zero in two places; pockets
  and bores on both sides of the 10 mm at which the safe position changes; the
  feature off its nominal place by up to what the margins (5 mm inside, 10
  outside, the safety of a stock) allow, to both sides. The requests are those
  whose programs do what they say: see section 6 for the others. An unknown and
  an empty cycle are refused.
- `capture`: two connections, the second with an id too large for a record; one
  byte and its answer each; one connection may be reset, or no longer read, at
  either end; writes of the file may fail on both. That is one exchange on each,
  enough for every order in which the relays of a connection end, and for the
  records of two sessions to mix. `DeliveredRecorded` and `ReplayAsksFirst` also
  hold with two bytes on the first connection, in one piece or two, which takes
  too long together with `EndsTogether`; the theorems have them for any number.

Deadlock is checked in every run but `capture`, where controllers may stay
silent for ever; `Terminated`, `Done`, `AllEnded`, `AtRest`
and `Quiet` are the states in which the system may rest.

## 4. Fairness

`PCU20Server`: the event loop runs every ready task (`Task`), jobs return from
the pool (`ThreadReturns`), the idle timer fires, a started shutdown goes on
(`Stopping`). Clients need do nothing, except that those in `Readers` take what
is sent to them; nobody has to request a shutdown. That jobs return is an
assumption about the pool: feeds that hold all of its threads would break it.
`PromptCloseSpec`, used by `server_stop`, grants in addition that a connection
being closed gets rid of its last response, so that the counterexample is about
the order inside `stop()` and nothing else.

`DripFeed`: threads and tasks run, the 60 s wait and the connection attempt end,
and LAN units in `Takers` take what they are sent. Nothing is assumed of the
machines. `FeedEnds` has hypotheses instead: no machine stops for good, and no
two sessions contend for a port, since each may take the XON the other waits
for. `CancelEnds` excepts a port the driver itself holds back, because
`flush()` has no timeout and looks at no flag.

`EventBus`: the loop runs the WebSocket tasks, pages whose connection is open
take what they are sent, and the server notices the end of a connection. Nothing
is assumed of machines and people, and a subscriber's end needs an event that is
waiting for it: without one it stays, as in the code.

`CaptureProxy`: the loop runs what is ready. Weak fairness of the whole is
enough, since every relay has a bounded amount to do. Nothing obliges an end to
send, to close or to read: a relay that waits for an end that reads no more, in
`drain()` (capture_proxy.py:101, no timeout) or for the end of a transport that
still has something for it, is outside the fairness (`Waits`) and may stay until
Control-C. `EndsTogether` says so.

`SetupConfig`: the event loop runs `start()` and `stop()`, and the threads they
wait for return. Nothing is assumed of the poller, the requests or their saves.

## 5. What is proved

For every value of the constants that satisfies the module's named assumption:

- `PCU20ServerProofs`: `TypeCorrect`; `Invariance`, from which `SessionTable`,
  `Presence`, `Totals`, `Events` and `Jobs` follow; `Refinement` (the file
  service is implemented). The inductive invariant `ServerInv` adds `History` to the
  properties: a task past its first step has been announced, one before it is in
  state CONNECTED, and tasks are cancelled only at the teardown. Without it a
  step of `Begin` could re-announce a session, and a cancellation during
  `running` would break the pairing of events. The steps are grouped by effect:
  inside the loop, leaving it, beginning, and the rest, one lemma each.
  `Totals` counts: `TotalsExact` names the files a machine has been credited
  with (each by its session and its place in it), and the registry's number is
  how many there are. `TotalsInv` adds that whoever was announced is in the
  table, so that an end adds to an entry that exists; a session's end adds
  exactly its own files, which no ended session has (`ExitKeepsTotals`).
- `FrameCodecProofs`: `CodecInvariance`, `CodecTypeCorrect`, `StreamPartition`,
  `NoFrameHeldBack`. The invariant adds to `PartitionOfStream` that a codec at
  rest holds no complete frame, and that the stack is as deep as the run of
  garbage before `cut` is long, from which `GarbageOnly` follows. Adjacency of
  the next cut is what makes the partition inductive: a step adds exactly the
  stretch from `cut` to `cut'`.
- `DripFeedProofs`: `DripInvariance`, `DripTypeCorrect`, `OneLateLine`,
  `PortsInOrderAlways`, `Silence`, `JobRefinement`. The invariant ties status,
  flag and place of each session together: past the top of the loop there is a
  line left to send, a pause is shown as PAUSED, and a late line is only still
  possible between the look at the flag and the write.

- `VersionStoreProofs`: `StoreTypeCorrect`; `VersionInvariance`, from which
  `LoneVersionsKept` follows. What a session has read of index and HEAD may be
  old when it replaces them, so `GitInv` speaks of every copy. The job of a
  program that is not in `raced` is the only one between its first and last
  access (`LoneJobs`), so what it has stored is the file's content unless the
  program is being written again (`BlobsCurrent`), the index it reads is still
  the index when it replaces it, and so on until the commit (`EntriesCurrent`,
  `Added`, `Committed`). For the versions of the past, every log a session holds,
  and not only the present one, has all that was made by lone jobs (`MadeKept`):
  a lone job ends before another one reads HEAD, or has begun after the other
  one ended.
  In the same module, about snapshots: `RotationLeavesFew` and
  `SnapshotSurvives`, for any number of sessions, any `max_snapshots` and any
  names, those with a common prefix included (`Matches` is any function by which
  a name selects itself).
  `RotationBound` says nothing while a rotation is under way; `RotationInv` says
  what such a rotation is good for: it is still to list, or has listed every
  snapshot of the name, or what it will not remove is within the limit. A
  rotation that ends or misses a file hands the bound on or is counted as
  aborted. `SnapshotVersioned` needs that a program without overlapping writes
  has one session at a time (`OneSession`), that its rotation examines exactly
  the snapshots there are (`Listed`), and that each of them is from before the
  last change or has its content (`Settled`): then the newest one it keeps is a
  record of the program, and it is not among those to be removed (`Recorded`).
  That rests on `HandInv`: no mtime is in the future, and no rotation has
  another program's snapshots in hand.
- `SetupConfigProofs`: `SetupInvariance`, from which `SetupTypeCorrect`,
  `Presence`, `FileIsConfiguration` and `ConfiguredIsListed` follow. `PhaseInv`
  says where `start()`, the poll task and `stop()` can be at once: the poll task
  exists only while there are clients, and has ended when they are
  disconnected. `PresenceInv` adds that whoever is shown at that time is still
  to be visited, and that a poll visits clients only; without it a late poll
  could report a machine after its end. `FileInv` splits staleness from the
  text: while nothing is stale, every copy a thread holds is the configuration
  in memory, so the file they write over one another is it or empty.
  `ListedInv` says how far `start()` has come.
- `EventBusProofs`: `BusInvariance`, from which `BusTypeCorrect` and
  `FeedsInOrder` follow. The invariant says of what a page got, is being sent
  and will be sent, together, that it is increasing and has every event since
  the subscription but the dropped ones; a step moves events within it or adds
  the newest at its end.

  `CountsAgree` needs four more parts (`CountInv`). `TallyInv`: up to any event
  in the past no more sessions had been retracted than announced, and now the
  numbers of both are those of the sessions served, closing and over; this is
  why the page's `Math.max(0, ...)` never hides a difference. `TableInv`: while
  no machine has had two sessions at once, the machines listed as connected are
  those of the sessions being served, one each. `WindowInv`: a page hears from
  one open connection, and of nothing later than what that connection sent.
  `NumberInv` is the induction hypothesis: a page's number is the tally as of any
  event up to which it has heard of every connect and disconnect.
- `CaptureProxyProofs`: `Captured`, from which `Delivered` and `Replayable`
  follow, for any number of connections and any pieces. `CaptureInv` says that a
  session's records hold exactly the bytes read from each end (`RecordedInv`),
  that ids differ and no record has one still to be given out (`IdInv`,
  `FileInv`), and that no byte is handed over before it is read (`FlowInv`).
  This is so while no torn record has another one after it (`IntactFile`):
  a step that leaves such a file left a whole one before (`WholeBefore`).
  A server that answers what has reached it is an assumption about the
  environment (`Send`), and it is what `Replayable` rests on: a record is
  written before its bytes are handed over, so that the requests of a session
  are in the file before any answer to them, however the two relays and the
  other connections interleave (`AskedInv`).
- `ProbeGcodeProofs`, for every request that satisfies `SetupsAssumption` and
  every workpiece. `GeneratedSets` is about the generators alone: each of them,
  in both modes, gives blocks of the known forms, its only `M30` at the end, and
  the blocks that set offsets set those of `ToBeSet` and no others. It is
  composed from what each part of a program sets (`SetsJoined`,
  `FooterCompletes`), as the generators are. With `ProbeInv` (the machine has set
  what the blocks before `pc` set) this gives `ProgramsEnd` and `OffsetsAsked`,
  which is `OnlyItsOffsets`, also where a feed is cancelled. `AbsoluteMoves` is
  `AbsoluteOnlyWhenSet` for the outside box cycles that set three axes
  (`SetsAll`: manual, with `probe_top` and `set_wcs`; the others break it, see
  section 6). Its proof runs the distance mode, the work system and the pairs
  set along the program (`Leads`): a part leads from one such state to another,
  and each absolute move on the way is one the state allows. `ModeInv` says that
  the machine's modes are those of that run.

  `RapidsStayClear`, `ProbesTouch` and `OffsetsFound` are `RapidsClear`,
  `EveryProbeTouches` and `OffsetsSound` for every workpiece that is `Placed`.
  Here the invariant must know where the stylus is, which depends on which faces
  it has met so far. `Takes` gives the machine after a block, `Fine` what must
  hold before one (the way is free, the probe meets a face, an offset that is
  set gets the feature's place), and `Passes(s, p, x, y)` says that from machine
  `x` the blocks `p` are fine one after the other and lead to `y`.
  Passes join (`PassJoined`), so that each cycle is followed as it is written: a
  rapid within a free box stays clear of everything (`WayFree`), a skip move
  toward a wall of the box ends at that wall and at no other face
  (`MeetsTheWall`), a touch reads it, the middle of two touches is the
  feature (`Centres`), and once an axis is set, numbers on it count from the
  feature instead of the old zero (`Sound`, which the outside box needs: it
  comes down beside the stock at heights measured from the top it has just
  found). `SurfaceRuns`, `PocketRuns`, `BoreRuns`, `CornerRuns`, `BossRuns` and
  `BoxRuns` do this for the six generators, in both modes where section 6 allows
  both. `TrackInv` says that the machine of the specification is where that run
  is after `pc - 1` blocks; `TrackStep` has a step for each action, and the skip
  move of `ProbeGcode`, which takes the nearest of the faces it may meet, is
  shown to take the one of the run (`FacesAreMet`, `NearestIsFirst`).

`CodecInv` also says that a frame is longer than its header, and `DripInv` that
a session whose cancel flag is not set has sent no late line.

Every invariant and action property of the passing runs is stated by a theorem.
Only model-checked are the liveness properties, since fairness is out of the
prover's reach: `QuietConnectionsEnd`, `StopCompletes`, `CancelEnds`,
`FeedEnds`, `DeadSubscribersLeave`, `StopReturns` and `EndsTogether`.

## 6. Disagreements with the code's comments

1. `stop()`, "Stop all TCP servers and close all sessions" (server.py:111): it
   waits for the connections before it touches the sessions, and never closes a
   writer. Run `server_stop`.
2. "Cancel an active drip feed session" (web/routes/probe.py:123): forgotten if
   it comes before the feeder resets its flag. Run `drip_cancel`.
3. "Commit the file change to git (runs in thread)" (storage/versioning.py:70):
   not if another session's job replaces the index between that job's add and its
   commit, or sets HEAD from an older one. Run `versions_git`.

Seen in the same models, without a run of their own:

- `on_disconnect`, "Record a machine disconnection" (machines/registry.py:36),
  records a session's end as the machine's: with two sessions of one machine,
  the end of one shows it offline. `PresenceSound` is the half that holds.
- "Skip this 4-byte header and try to resync from the next byte" (codec.py:56):
  the code skips one byte, not the header, which is the second half of the
  comment; and by recursion, so that about a thousand bad bytes end the
  connection. `RaisesOnlyOnGarbage` says that nothing less does.
- "All traffic is captured" (tools/capture_proxy.py:13): a full disk may tear a
  record while the proxy serves on, and the reader then finds none of the
  records that follow it.
- "List snapshot versions for a file" (storage/versioning.py:173): of every file
  of that name in the share.
- "All moves are INCREMENTAL (G91) until each axis WCS is set" (probe.py:498):
  not in Renishaw mode, nor in manual mode with `probe_top` or `set_wcs` off,
  where Z moves are absolute under an offset the program has not set. In the
  manual ones, the stylus then goes to a depth that has nothing to do with the
  stock, so that `RapidsClear` and `EveryProbeTouches` fail too. A `z_offset`
  of minus the clearance or less makes the retract go into the stock.
- "Negative (-)" (web/templates/probe.html:185): the target of the skip move of a
  single surface is `expected - sign * 50` with `sign` -1, on the positive side
  (web/routes/probe.py:236), and with "+" it is the other way round. Corners
  "X+ Y-" and "X- Y+" (probe.html:231, 232) are exchanged by the suffix tests at
  409 and 410. The workpieces of the `probe` run stand where the programs probe,
  not where the form says.
- The manual corner cycle probes away from where it stands, which suits inside
  corners; the form does not say so.

## 7. What is not modelled

Path resolution in the shares (`storage/shares.py`): the table is filled at the
start and never changes, and `resolve` is a pure function of a string and the
file system, tested by example. Left out for good: templates, pages and
read-only routes (rendering), the network scan (pure I/O), the validation of the
setup form, the trace file's text, how `replay.py` compares answers (output),
`FrameCodec.reset`, file handles,
`safe_read`/`safe_write`, `search_in_file` and the connectors' file calls
(called by no code). FOCAS reads that outlive a cancelled poll in their thread
are not followed: the client is a placeholder, and what they do to a connection
being closed is the library's.

## 8. Plan

Done, in this order: the server with its registry and abstract service, the
codec, the drip feed with its abstract job, file versions, the event bus, the
FOCAS2 connector and the configuration, the probing programs, the capture
proxy. To come, most important first:

1. An abstract version history that `VersionStore` implements.
2. A composition of `DripFeed` and the server's jobs over one executor, in place
   of the assumption that jobs return; `read` jobs over the files of
   `VersionStore`.
