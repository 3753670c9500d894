# AppleBridge: specifications

AppleBridge lets programs on a modern host drive a classic Macintosh (real or emulated).
A guest daemon written in C for System 7 (`mac/src`) dials a host server written in Python
(`host/host_server.py`) and keeps one connection open. Clients (the MCP server in `mcp/`, the
command line tools in `host/`) open a short control connection to the host server, hand it one
command and read one reply. The host server turns the command into one request on the daemon
link, waits for the framed reply and passes it back.

This directory holds TLA+ modules translated from that code, TLC configurations that check them on
small instances, and proofs that TLAPS checks.

## Inventory

| part | state it keeps | operations | how it meets the others | what is hard |
|---|---|---|---|---|
| Daemon link, host end (`AppleBridgeServer`) | socket, `connected`, `desynced`, `link_generation`, missed beats, `last_io` | accept, drain and resync, send, the readers, heartbeat, HELLO | one thread runs the control port and the link | timeouts racing late replies; readers that end in different ways; FINs that never arrive |
| Daemon link, guest end (`main.c`) | connection, `gLastRX`, `gLastTX`, the request in hand | dial, receive and top up, dispatch, reply, 30 s watchdog | dials the host; is relaunched by the guest watchdog | giving up a link the host still holds; dying inside a reply |
| Reply frames (`protocol.c`, `_read_framed_response`) | none | STATUS / STDOUT / STDERR with byte counts | carried by the link | counts that disagree with the bytes; a read that stops short |
| File transfer (`fileio.c`, `put_file`, `get_file`) | two forks, bytes remaining | WRITEFILE, READFILE, LISTDIR | bodies on the same link as replies | early returns that leave a body on the wire; a stalled stream |
| Transports (`transport*.c`) | active transport, MacTCP proven, connection | init and connect with fall back, hot swap from preferences | under the guest end | switching with a half-made state; a change never noticed |
| Screenshots (`screenshot.c`, `request_screenshot`) | generation, previous frame, on both ends | full, region and delta captures | frames on the link | a delta applied to the wrong base |
| Control port (`run_control_server`, `mac_connection.py`) | accept queue, deadline, token | queue, check, dispatch, reply | clients to the host | a client that gave up while its command waits |
| Handshake (`negotiate_version`, `auth.c`) | `gNeedAuth`, `gAuthed`, nonce; version, name, authed | HELLO, PROOF, AUTH2 | first exchanges of each link | failing open after a retry or a reconnect |
| Daemon verbs (`ProcessRequest`) | counters, log ring, scrap | some forty verbs | Toolbox | counters that lie |
| Self-update and watchdog (`SwapSelf`, `watchdog.c`) | three files, the process list | swap, relaunch | restarts the daemon | dying between two renames |
| Preferences (`prefs.c`, `config.c`, `abcp.c`) | a key=value file | load, rewrite | read by the daemon while others write | lost updates, keys dropped by a writer that does not know them |
| Session channel (`tools/notes.py`, `notes_watch.py`) | one append-only file, archives, a baseline per watcher | post, answer, rotate, watch | between agents; a hint rides on tool results | several writers without a lock |
| MCP tools (`mcp/tools.py`) | what was armed, staged, counted before | some fifty tools, several of many requests | clients of the control port, sharing one guest | half-done sequences; an answer lost after the effect |
| Building on the guest (`mpw.py`, the compile tools, `loop_guard.py`) | objects, ToolServer, windows of calls | write, compile, build, guard | many requests per build | an artefact of an earlier build; silence taken for absence |
| Hang watch, dialogs, input (`hang_watch.py`, `dialog_watch.py`, `guest_boot.py`, `guest_input.py`) | `HangJudge`, what was last seen, the front of the host | look, judge, kill, restart; answer a dialog; click | one emulator, one mouse, one person | acting on a look that is no longer true |
| Host tools (`install_bridge.py`, `bridge_doctor.py`, `check_ether_backend.sh`, `install_guests.py`, `guests.py`) | prefs of the emulators, `.netmode`, `local.env`, agents, disk images, the guest table | plan, apply, seed, build a kit; diagnose; install agents | all on one host's files | steps that fail half way; two programs on one mounted volume |


`PROJECT.json` lists every part, the ones left out too, and the hazards at their lines.

## Modules

| module | what it is | extends |
|---|---|---|
| `BridgeLink` | the persistent link: both programs, the connections between them | |
| `BridgeLinkProofs` | its inductive invariant and four theorems | `BridgeLink` |
| `FileTransfer` | WRITEFILE and READFILE over one link, unit by unit | |
| `FileTransferProofs` | its inductive invariant and four theorems | `FileTransfer` |
| `Display` | screens, regions and crops, shared by the next two | |
| `Framebuffer` | what a screenshot promises: the abstract specification | `Display` |
| `ScreenDelta` | the SCREENSHOT2 exchange with retained frames | `Display`, instances `Framebuffer` |
| `ScreenDeltaProofs` | its inductive invariant and the refinement | `ScreenDelta` |
| `GuestConfig` | the preferences file, its writers, and the networking stack it selects | |
| `ControlPort` | the control port, its backlog and its two kinds of client | |
| `SessionChannel` | the notes file, its writers, rotations and watchers | |
| `SessionChannelProofs` | its inductive invariant and five theorems | `SessionChannel` |
| `LoopGuard` | the guards of `loop_guard.py` as operators on records | |
| `GuestBuild` | agents that write, compile and build on the guest | `LoopGuard` |
| `GuestSoftwareProofs` | the inductive invariants of what is installed and built on the guest, and six theorems | `GuestConfig`, `GuestBuild` |
| `SelfUpdate` | the daemon's folder: staging, `SwapSelf`, the guest watchdog, as operators | |
| `GuestTools` | the tools that take several requests | `SelfUpdate` |
| `GuestToolsProofs` | its inductive invariant and two theorems | `GuestTools` |
| `GuestInput` | gestures with the host's mouse | |
| `GuestDialogs` | the two programs that answer dialogs | `GuestInput` |
| `HangWatch` | the watch, its judge and the guest, with all of the above | `GuestDialogs` |
| `HangWatchProofs` | its two inductive invariants and three theorems | `HangWatch` |
| `HostMachine` | the files, emulators and agents of a host | |
| `HostInstall` | the installer | `HostMachine` |
| `GuestTable` | several guests at one host, and the calls that name one | `HostMachine` |
| `BridgeDoctor` | the doctor, and a person who follows it | `GuestTable` |
| `HostTools` | the composition of the four, and its properties | `HostInstall`, `BridgeDoctor` |
| `HostProofs` | the inductive invariants of the control port and of the host tools, and ten theorems | `ControlPort`, `HostTools` |
| `MC*` | model values and small instances for TLC | the module named |

An operator named `X_Something` beside `X` is a plausible mistake in the code that `X` translates.
`PROJECT.json` names one for each property, which fails with it in the place of `X`; where a property
joins several statements, the others break the rest of them.

### BridgeLink

*Actors.* The host is one thread: `run_control_server` serves a client or, when idle, beats, and
every exchange runs to its end before the next. The daemon is one loop: dial, receive, dispatch,
reply. Between them are TCP connections.

*State.* A request is an identity and the kind of frame that answers it; a file to write is two tokens,
the header and its body. `link[c]` holds the two FIFO channels of a connection, which ends are open, and whether the
FIN of a closed end arrives (on the MACNAT path it may not). `queue` is the kernel's accept queue.
`host` is `client_socket`, `desynced`, the missed beats and the step the thread is in; `op` is the
exchange in progress. `guest` is the daemon: running, its connection, the request in hand.
A reply piece carries the request it answers; the program sees the header of the frame only, so that
`get_file` and the legacy screenshot refuse a frame of another kind and take one of their own kind for
theirs, whoever asked for it (`Verdicts`). `slip` and `answer` are histories: how a reply
came to be due that nobody waits for, and whose reply the last client exchange returned.

*Actions.*

| code | actions |
|---|---|
| `accept_mac`, priming PING, `negotiate_version` | `HostAccept`, `HostStart` (kinds PRIME, HELLO, HELLO2) |
| `_drain` before each exchange | `HostBegin` (sweep), `HostBeginResync`, `ResyncSweep`, `ResyncQuiet`, `ResyncDrop`, `HostBeginEof` |
| `_read_framed_response`, `request_log`, `put_file`, `get_file`, both screenshots | `ReadFirst`, `ReadLast`, `ReadShort`, `ReadTimeout`, `ReadDrop`: they differ in whether they stop short, mark `desynced` on a timeout, or drop the link |
| `main`: `ABConnect`, `ABRecv`, `ProcessRequest` | `GuestDial`, `GuestRecv`, `GuestSendFirst`, `GuestSendLast`, `GuestLosesLink` |
| the body in `WriteFileVerb`: read or dropped, stalled, left by an early return | `GuestReadsBody`, `GuestStalls`, `LeavesBody` in the two sends |
| the 30 s watchdog of `main` | `WatchdogOnDeadLink`, `WatchdogOnQuietLink` |
| crash, and relaunch by the guest watchdog | `GuestCrash`, `GuestRelaunch` |

*Checked.*

- `link_safety`: all kinds of exchange. `ShiftOnlyAfterSlip`: a client gets somebody else's reply
  only on a link that slipped in one of four ways: a drain took 0.4 s of silence for the end
  (`early`), a reader gave up without recording it (`unmarked`), a reader stopped short (`short`), the
  daemon answered a WRITEFILE whose body it had not read, which is then served as a request (`body`).
  A reply of the right kind to an earlier request counts as somebody else's.
  `QuietBetweenExchanges`: a link in step is silent between exchanges. `LinkInv` is the invariant of
  the proof.
- `link_idle`: with handshakes, beats and a client that fetches files, `LoopComesRound` (the host
  thread always returns to its loop) and `Rejoins` (the programs find each other again, even when FINs
  are lost, once the client stops asking).
- Three statements of the code's own comments are not kept (observations 1 to 3).

### FileTransfer

One path on the Macintosh, puts and gets over one link, a window that may be smaller than the file.
`toGuest` and `toHost` are the streams in units of a fork; `host` is what `sendall()` still has to
send and what the reader is waiting for; `guest` is where `WriteFileVerb` or `ReadFileVerb` is, with
the bytes the first receive had already taken (`pre`); `disk` says whose data and resource units
the file holds.

`GuestTakesRequest` takes whatever one receive returns for a request, which is how a body that was
left on the wire turns into requests. `GuestReadsPath`, `GuestReadsData`, `GuestReadsRsrc`,
`GuestDrains` are the stages of WRITEFILE; `CreationFails`, `OpenFails` and the early failures in
`GuestTakesRequest` are its early returns. `GuestSendsFork` is READFILE. `GuestGivesUp` is the stall
deadline of `StreamRead`'s callers, `HostGivesUp` the readers' timeouts.

- `file_transfers`: `OwnAnswers`, `WrittenMeansWhole`, `TransferInv` (no file ever mixes two bodies), and
  for progress `TransfersEnd`. Two comments are not kept (observations 4 and 5).

### ScreenDelta

`guest` is `gPrevFrame` and `gGen`; `host` is the link and `shot_prev`; `pending` and `reply` are the
exchange. `HostRequest` names a base only when it holds a frame of this link, `GuestCaptures` clamps
the region, decides between a full frame and a difference and retains a full one, `HostReadsImage`
lays a difference over the base or drops the link, `HostReadsFailure` is `_swallow_status_frame`.
The screen changes at any time, its mode too; the link is lost and the daemon restarted at any time.
The 68k row codec, the rectangle's columns and the legacy SCREENSHOT are left out.

- `shot_safety`: `DeltaInv` (with `DeltaFits`: a difference that arrives fits the frame the host holds)
  and `ShowsTheScreen`, the refinement of `Framebuffer`: what is returned is the region as the screen
  showed it at one moment of the request, or nothing. The mapping takes the request in hand for
  `asked` and the picture the reply stands for as `snap`.
- Two more are not kept (observations 6 and 7).

### GuestConfig

*State.* `file` has the lines IP=, NET= and APP= of "AppleBridge Prefs". `daemon` and `config` are
the daemon and the configuration program with the copy of the file each holds (`gPrefs`), and whether
another has changed the file since it was read (`fresh`, a history). `panel` says whether the list
the control panel shows is the file's. `stack` is the dispatcher of `transport.c`: the active
transport, whether Open Transport is initialised, whether MacTCP has connected once, and, as history,
what `ABNetInit` was last asked for and how it ended. `chosen` and `slipped` are histories: what
people have asked for, and whether an edit has been lost in one of the known ways.

*Actions.*

| code | actions |
|---|---|
| `main` up to its loop | `DaemonStart` (writes the defaults on a first start; exits without a network) |
| `MaybeHotSwapTransport` | `DaemonPolls` |
| the loop without an address | `DaemonRereads` |
| `ABConnect` and its fall back | `OTConnects`, `SerialConnects`, `MacTCPConnects`, `DaemonFallsBack` |
| `SaveMonitorBounds` | `DragsMonitor` |
| `config.c` | `ConfigOpens`, `ConfigCloses`, `ConfigSetsAddress`, `ConfigPicksNet`, `ConfigAddsHelper` |
| `abcp.c` | `PanelShows`, `PanelAdds`, `PanelRemoves` |
| an editor, or WRITEFILE | `EditByHand` |

Every save is `SetEOF(0)` and then a write, so `Saves(p)` leaves the old file, the new one or an empty
one. The panel edits lines instead, out of a 512-byte buffer (`Fits`).

- `guest_config`: `SettingsKept`: the file says what people asked for unless an edit was lost in one of
  five ways: a program wrote over a change it had not read; a rewrite was cut short; the radio
  button's choice was not written and nobody was told; the panel was given more helpers than are
  read; the panel removed a row from a stale list or from a file longer than its buffer.
  `NamedAndRunning`: over start, fallback, hot swap
  and reconnection, the connection is on the active transport, which is up, and goes to the address
  the daemon's console names. `FollowsNet`: a changed NET= is followed on a live daemon, connected or
  not.

### ControlPort

*State.* `backlog` is the kernel's queue, `server` the one loop with the request it reads or serves,
`client[c]` a caller: where its request is, when it gives up, what it was told; `ran` is a history of
what was executed. A request arrives in two pieces, so that a stall or the terminator can fall
between them.

| code | actions |
|---|---|
| `_recv_control_command` | `Accept`, `ReadPiece`, `ReadEnds` |
| `split_ctrl_deadline`, the token, `_dispatch` | `Refuse`, `CloseEmpty`, `Serve` with one operator for each way a verb can end (`Screenshot`, `HostMenu`, `FrontApp`, `MacStatus`, `Guarded`) |
| the reply, `_parse_response` | `Reply`, `Told` |
| callers | `Connect`, `SendPiece`, `GiveUp`, `Interrupt` |
| the idle loop | `PollLink`, `IdleTick` |

- `control_port`: `NotRunAfterGiveUp`; `PortInv`: a success was executed, a refusal was not
  (`ToldTrue`), with what that rests on: every client is where the loop and the backlog have it
  (`Seated`), the reply under way is so (`ReplyTrue`), and who gave up before it was served did so after
  the deadline it had sent (`GaveUpInTime`); and `EveryoneServed`.

### SessionChannel

`live` is the file, `archive` what rotations made of it, `sess[s]` where a writer stands between its
read, its stamp and its line, `watch[s]` a watcher with its baseline. `heard`, `told` and `crossing` are
histories: what a session was shown, what its writer was told is written, and what was written while
another wrote.

- `session_channel`: `ChannelInv` (answers find who asked; no open question is archived, unless it
  crossed the rotation), `CrossingNotice`, and the action properties `NoNag` and `OnlyReplacedAreLost`.

A stamp is the identity of a note, so stamps are distinct (milliseconds and who wrote), but each host has
a clock of its own (`HostOf`, `clock`): a session on it stamps later than its host has before, which says
nothing of another host's notes, whose stamps `crossed()` and the watcher compare all the same. Where the
code loses track for that reason the properties say so: `CrossingNotice` of a note that came `Behind` a
line of the reader's, `NoNag` of hits above a line with an earlier stamp (`Skewed`).

`PerSecond` is how many stamps fall into a second, which is all that names an archive. In the run two
rotations do meet in one second, and the second replaces the first's archive: `OnlyReplacedAreLost` says
that a note is told as written only when it is in the file, and then drops out by that alone.
`ChannelAssumption` says of the lines there were before that this program wrote them: their stamps are
distinct and, of one clock, in order; what names a question is an answer to who asked; and the sessions
that do without ssh run on one machine.

### LoopGuard and GuestBuild

An agent's call is a sequence of requests with any other agent's between them. `agent[a].pc` is the step
(`Compile`, `Delete`, `Tool`, `Catenate`, `Exists`, `Alive`, `Folder`, `Link`, ...), `guest` the sources,
objects, diagnostics and ToolServer. `Request` gives each request its fate: carried out or not,
answered or not. `Exists` and `Alive` are how `run_step` tells "not there" from "nobody answered".

- `guest_build`: `ClosedLoopIsFresh` (what a compile judged good was compiled from a source no older than
  the call), `BuildInv` (a failure has its cause), `GuardsTellTrue` (the repeat watch and the attempt log
  against a definition by the history of calls, for every history of five calls).

### SelfUpdate, GuestTools

`SelfUpdate` describes the daemon's folder by what is in `<name>`, `<name> new` and `<name> old`, and which
of them runs. Its operators give the folders that a step may leave: `SwapSelf` with the step that
fails, `CutShort` when the machine stops inside it, `Broken` for a WRITEFILE that breaks off, `Exits`
and `Launches` for the daemon and its watchdog.

`client[c]` is a tool call at its step, `guest` what the tools share: the armed menu patch and its
hits, the text typed, `https.log` and `https.out`, and that folder. `Stage`, `Swap` and `Reboot` are
mac_update_daemon and mac_reboot; `Dies`, `Watchdog` and the other agent act between them. Without a
daemon every request fails, until the watchdog has launched one. A plan (`Plans`) says which tools are
called, how often, and how many answers, connections and steps of a swap may fail.

- `guest_tools`: `ResultsAreReal` (a success has had its effect; a page is not from before its request),
  `ToolsInv` (text is typed in order and whole on success; an event reported as sent had a reader;
  `DaemonStays`: a whole daemon is left in the folder whatever fails, and under its own name unless a swap
  was broken off or its binary spoiled by another agent), `CallsEnd`.

### GuestInput, GuestDialogs, HangWatch

`host` is the front application, the mouse button and what the person chose; a session goes through
`Enter`, `Activate`, `Settle`, `Click` or `Press`/`Capture`/`Release`, `Exit`. The two dialog programs look
(`WatchLooks`, `BootLooks`), bring the emulator forward (`Focus`) and type (`PressKey`). A look of the hang
watch is `ReadPid`, `AskBridge`, `Judge`, the last with `Observe`, which is `HangJudge.observe`; after that
`Kill`, `Wait`, `Open` (or `NotOpened`, where no bundle is configured), and guest_boot. The guest lives, hangs, is quit and started at any time.

- `guest_watch`: `KillIsWarranted` (the look that decides and one SILENT_S earlier found the emulator
  silent, and no look between them found it alive; a look that the host server refused is not a sign of
  life, and its time counts: one supply has a server that goes and comes back inside the window),
  `HungIsStopped`, `HostIsGivenBack` (front, button and gestures), and `WatchInv`: never two emulators on a disk (`OneEmulator`), keys fit the dialog seen (`KeysFitTheDialog`),
  with what these rest on: the judge's memory against the history of the looks (`JudgeIsTrue`), no
  unknown emulator while one is replaced (`OnlyOne`), a dialog before every key (`KeysAreMeant`).

### HostMachine, HostInstall, GuestTable, BridgeDoctor, HostTools

`HostMachine` keeps what every host program reads and writes, and `CheckEtherBackend`, the whole of
`check_ether_backend.sh`, which the launcher and the installer both run. `HostInstall` has one action for
each step of `install_bridge.py` (`Begin` probes, `Decide` plans or refuses, `Intent`, `Check`, `WriteEnv`,
`InstallAgent`, `Seed*`, `Kit*` to `Verify`, `Exit`), each of which may fail, and `Killed`. Some failures the
code does not see: copies (`Copies`) and an hmount of the seed that gives no answer (`SeedUnanswered`), after
which it goes on with the image that is still mounted; `past.lost` and `past.stale` keep them in memory.
`BridgeDoctor` looks in the order of `collect`, reports in the order of `interpret` and gives the first reason;
`FollowAdvice` is a person who does what it says. `GuestTable` has the table, `install_guests.py`
(`StartJob`, `BootOut`, `WriteAgent`, `EndJob`), the instances that bind the ports, the guests that dial
and are named or refused (`Dial`), and the tool calls that name a guest.

- `host_install`: `InstallerKeeps` (a bridged host, and the guest's disk, but for a stale mount),
  `InstallerTellsTrue` (exit code 0 is so; a refusal writes nothing of the plan; a seed and a kit reported as
  good are so, but for copies and mounts that fail unseen; a run without a fault finishes what earlier ones
  left), `RunningGuestIsLeftAlone`, `ConvertedForGood`, `NoFalseAlarm`, `NoFaultIsHidden` (but for a dead bridge
  that is `Masked`), `AdviceConverges`, `RowsAreServed`, `CallsMeetTheirGuest`. Each exception is named in the
  formula and happens in the run: `SeedIsSo` or `KitCanBePublished` without it is violated; see Observations.
- `kit_interrupted`: the same with the doctor and the installer on hfsutils at once; see Finding.

## Bounds

| run | bounds | why they are enough |
|---|---|---|
| link_safety | 2 connections, 2 identities, `MaxMiss` 2, `Backlog` 1 | two connections: the host holds one while the daemon has dialled the next; two identities, each with its verbs and a body: a late reply and the exchange that takes it, and the first comes round again; two beats are the code's own number; one place in the queue lets a dial be refused |
| link_idle | 2 identities, a client with GET | a beat and the late answer of the one before; liveness cannot use symmetry |
| file_transfers | a put with both forks (2 + 1 units), a put with a data fork (1), a get; `Window` 2, `MaxStale` 1 | a body larger than the window, one that fits, a fork of more than one unit; `MaxStale` is how many units a drain may miss |
| shot_safety | modes of 2 rows, 1 row, 1 padded row; `MaxRow` 2; `MaxGen` 3 | two geometries so that a base may not fit; regions that reach past the screen; three generations: held, lost, current |
| guest_config | 1 address, 1 helper, `MaxApps` 1, `Fits` 1, `MaxLines` 2; a machine with both stacks and one with neither | an address set or not, a list empty, full, and longer than is read and than the panel's buffer |
| control_port | 2 clients, 5 requests, `Backlog` 2, `MaxNow` 2 | one is served while the other waits or has gone; a request for each outcome; two ticks pass a deadline of one |
| session_channel | 3 sessions on 2 hosts, one over ssh, two watched; a question and its answer to begin with, 2 stamps more, both in one second | two writers of one clock and one of another; a rotation while the question is answered again, two rotations within a second, a new question and its answer |
| guest_build | 2 agents, 1 source, 3 versions, 1 fault; 5 calls of 2 keys for the guards | an old object, a broken version and a repaired one; cycles of two calls seen twice |
| guest_tools | 2 agents, 2 chunks, 2 items, one of five pairs of tools; updates and restarts two calls each with 2 faults, the others one call with 1 or 2 | a tool meets itself, and what shares its state or interrupts it; an update follows an update, a crash or a restart |
| guest_watch | 2 sessions, 2 applications, 2 pictures, `SilentTicks` 2; one of ten supplies of events (`MCHangWatch`) | the watch, the dialogs and the gestures each get the events their question needs, two at a time |
| host_install | seven groups of machines, each with its supply of runs, faults, kills, launches, reports, edits and jobs | `MCHostTools`: the plan with two runs, two emulators, two on the bridge that lose their helpers, the disk images, an image that a killed run left mounted and a second run, the doctor's advice, two guests |

Connections and exchanges are interchangeable, so `link_safety` uses their permutations as symmetry.
Counters the programs do not bound (generations, stale units, lines of the file) are bounded by the
constants above, in the guards that raise them. The newer models take what happens by itself from a
supply that runs out (`Spends`, `Takes`, `Max...`), and may then stop: those configurations say
`CHECK_DEADLOCK FALSE`; it is left on for the link, the transfers, the screenshots and the preferences.

## Fairness

The host's thread and the daemon's loop run for ever, every read of either has a timeout, and the
guest watchdog relaunches a daemon that died; so the steps they always have at hand are weakly fair:
accept, start of what is owed, resync, the end of a read, the daemon's serving and dialling, relaunch
(`BridgeLink`), `sendall()` while there is room, the readers, the daemon's stages (`FileTransfer`),
the poll of the preferences (`GuestConfig`). Strong fairness is asked once: of bytes in flight, which
arrive before infinitely many reads have given up on them. No drawing, user, crash or loss is fair.

In the newer modules: the server's one loop (`ControlPort`); each tool call, which is one thread with
timeouts (`GuestTools`); the two endless loops of the watch and guest_boot (`HangWatch`); the doctor and
the person of `AdviceConverges` (`HostTools`). `RowsAreServed` needs no fairness: it says that something that
launchd or a guest does by itself is still open as long as a row is not served.

Two properties have premises. `Rejoins` holds from the time the daemon stops crashing, its
watchdog stops giving up links the host still owes it, and no client asks any more (`Steady`). `FollowsNet` holds from the time the
file is left alone (`Settled`), the daemon runs and what it was asked for came up and is what it
believes (`Noticed`); the two cases outside it are described below.

## Proofs

All theorems are of safety, use no fairness, and hold for every value of the constants that satisfies
the named assumptions of the modules (`LinkAssumption`; `TransferAssumption`; `DisplayAssumption`, `DeltaAssumption`,
`MessageAssumption`; `ConfigAssumption`; `PortAssumption`; `ChannelAssumption`; `ToolsAssumption`; `InputAssumption`,
`PollAssumption`, `HangAssumption`; `TableAssumption`, `HostAssumption`), which only say that null values are not
values, numbers are natural, a text or a menu is not empty, the emulator is one of several applications, none of
which is `Nobody`, and that a machine of a host has the types of its parts, a table that `parse` takes and a disk
with nothing on it that is not its owner's. The finite
bounds of TLC are not used.

- **BridgeLink.** `ShiftOnlyAfterSlip` is not inductive: that a reply is one's own depends on what may
  be in flight. `OneExchange` says it: on a link that has not slipped, a thread that reads has its
  request waiting, being served, answered or lost, with exactly the pieces and the body that go with that; a
  thread that does not read has nothing outstanding. `WireAgrees` (each end is held by whom it is
  open for, the queue holds what waits) and `StepsAgree` (a program in the middle of something has
  what it is in the middle of) are needed to carry it over closes and dials. `LinkInv` joins them:
  `LinkTypeCorrect`, `LinkInvariant`, `NoShiftWithoutSlip`, `QuietLink`.
- **FileTransfer.** What the daemon has yet to read is one row, `Ahead`: its request buffer, the wire, and
  what the host has not sent. `HeadsFollow` says that behind any header in it comes the put it belongs
  to, in order, as far as the host sent it; `BodyFollows` that what the daemon is at goes on at the
  front. Reading, taking a chunk, refusing and closing all remove units at the front (`Trimmed`), which
  keeps both, and a new request goes to the end. From them a file only ever receives its own units
  (`FileGrows`), on any link whatever was left half read or given up: `TransferHolds`. On a link where
  that did not happen, `OneTransfer` says more: all that is on it is the host's one transfer, the
  daemon's share of the body is exactly what is ahead, a put's reply is alone and true, a get's brings no
  more than its header says; and between two transfers there is nothing. `InvHolds`, `OwnAnswersHold`,
  `WrittenHolds`.
- **ScreenDelta.** `DeltaFits` needs `BasesAgree`: frames that bear the same generation of the same
  link are the same frame, though the daemon forgets its own on a restart and the host on a new link.
  `TurnsAgree` says whose turn it is and `Retained` that a full frame under way is the one just kept.
  From the invariant `ShowsScreen` maps every step to a step of `Framebuffer` or to a stutter.
- **GuestConfig.** The invariant is `TypeOK`, `FreshCopies`, `SettingsKept` and `NamedAndRunning`
  together: that an edit is kept relies on the copy it was made from being what the file means, and
  what is read is worked out line by line (`MeaningByLine`, `LeadingFits`, `DroppedRow`).
  `ConfigTypeCorrect`, `CopiesAreFresh`, `EditsKept`, `ConnectionIsNamed`.
- **ControlPort.** That nothing runs behind a caller's back needs to know that it gave up after the
  deadline it sent, and that the deadline is looked at after the request is read: `GaveUpInTime`. Who
  that is in a step of the loop is `Seated`: one client at the loop, the others once each in the
  backlog, nobody touched before it is served. `OutcomesTruthful` goes through the kinds of verb: a
  success has acted. `PortInvariant`, `LateIsNeverRun`.
- **SessionChannel.** Everything rests on whose a stamp is: `FreshStamps` says that a stamp somebody
  still holds is in no line and named by none, so that a line that lands comes to nobody's inbox but by
  itself (`InboxGrows`). `AnswersAreMeant` carries an answer's recipient from the question it was read
  off, `FilesAreAnswered` the answers of a channel that is about to be moved. `InOrder` says of the
  stamps of one clock that what is out of their order crossed something, and that whoever still holds an
  earlier one has been seen to be crossed; between two clocks it says nothing, and `Behind` and `Ahead`
  have what follows from that. `CrossingNotice` and `NoNag` come from it with `FoundWaiting` and
  `WokenInOrder`. `ChannelHolds`, `NoticeHolds`, `NoNagHolds`, and `LostOnlyByReplacing`, which is about
  single steps (`KeptStep`). No clock, number of hosts or of stamps in a second is assumed.
- **HangWatch.** `KillIsWarranted` is about looks that are over; `JudgeIsTrue` says of the judge's memory
  that it is armed only for a process that was heard of and that its window is never longer than the time
  since a look first found the process silent and no look found it alive (`past.lifeless`). `JudgeKeeps` follows a look through the cases of `Observe` (`Observed`). `OneEmulator` needs
  `OnlyOne` at each stage of the restart, `KeysFitTheDialog` needs `KeysAreMeant` from the look to the key,
  through everything that blinds a program. `HostIsGivenBack` speaks of sessions that are over: while one
  lasts, `FrontIsOwed` and `ButtonIsOwed` name the session that will give the front back or let the button
  go, `AimIsTrue` says that an undisturbed session has the emulator before its gesture, and
  `PreviousIsOther` that nobody gives back the emulator itself, which is why it does not matter in what
  order overlapping sessions end. Each step of a session answers for what it leaves (`StepKeeps`);
  everything else that touches the front disturbs all sessions and puts the emulator there only on
  purpose (`OutsideKeeps`). `WatchInvariant`, `KillsAreWarranted`, `HostGivenBack`.
- **GuestTools.** What a tool says in the end (`ReportIsTrue`) rests on what it may rely on at each step
  before: that the count it read tells its own choice from others (`ChoiceIsMarked`), that the log with its
  nonce lies beside a response that is not older (`PageIsAhead`, from `PagesAgree` of the guest), that what
  it is about to swap in is what was staged unless that was spoiled (`BinaryIsStaged`), and that it has asked
  the target (`TargetIsProbed`). `TextOf` has the pieces typed so far. The other agents, the daemon, its
  watchdog and whoever opens a menu take none of it away (`CallStays`): that is shown once, for any step
  that moves requests and pages only forward (`Smooth`) and, if it makes a choice or spoils a binary, marks the calls
  concerned; each step then answers for its own call (`CallGoesOn`, `OneGoesOn`). `FolderInv` adds to
  `DaemonStays` that a daemon running under its name is whole. `ToolsHold`, `ResultsHold`.
- **GuestBuild.** A verdict speaks of what was seen several requests before, so the invariant follows
  each call through its steps. `Behind` says that everything the agent has written or begun with is no newer
  than the guest's sources; `InFlight` that once the Delete of a step has arrived, the object is away or of a source
  no older than the agent knows, and that the application is linked of such objects: no other agent's
  compile, link or removal can take that away (`Moves`), since versions only grow. `Calm` says of a call
  that nothing has disturbed that the guest is still as it was met, so that an object that is not there has
  a cause. `Ordered` places the steps, `Succeeded` and `Failed` carry the verdict until the next call.
  Every request answers for its own agent (`QuietKeeps`, `FinishKeeps`), and `OthersKeep` for the
  others. `BuildHolds`, `ClosedLoopHolds`.
- **HostTools.** Each promise speaks of a program that looked, at several moments, at what others write
  meanwhile. For the table (`TableInd`): an instance that has a port is that of the loaded agent with this
  port, and while a run over the agents works, each agent is that of its row, or is still to be written or
  dropped (`JobFits`); so a call that is sure of its table meets its guest. `DoctorSees` says that the looks
  of an undisturbed doctor are what is there now, and that its report is `Interpret` of that: from there
  `NoFaultIsHidden` is a matter of the order of the findings, and `NoFalseAlarm` of what a success
  leaves. For the installer `InstallInd` follows the plan: what a refused or undecided run has left alone
  (`UntouchedYet`), whom it chose (`Chosen`), what each step has established for good whoever else starts,
  quits or launches (`Converts`), that a clean run is neither refused nor fails (`Rerun`), and what a success leaves
  until it is changed (`Settled`). `Through` is about emulators that were up all along. `DiskInd` says which
  image is mounted at each step, or may be after an hmount that gave no answer (`past.stale`), and what the copies
  have lost (`past.lost`); it needs that the doctor is not at the images while the installer is, so the two
  theorems that rest on it have the hypothesis `~Together`, without which they are false (see Finding).
  `HostTypesHold`, `CallsHold`, `NoFaultHolds`, `NoFalseAlarmHolds`, `ConvertedHolds`, `LeftAloneHolds`,
  `InstallerKeepsHolds`, `InstallerTellsHolds`.

Only model-checked: all liveness (`Rejoins`, `LoopComesRound`, `TransfersEnd`, `FollowsNet`,
`EveryoneServed`, `CallsEnd`, `HungIsStopped`, `AdviceConverges`), which is out of the prover's reach;
`RowsAreServed`, which is stated with ENABLED; and `GuardsTellTrue`, which compares the folds of `LoopGuard`
with a reference over all short histories, an induction over data.

## Finding

`kit_interrupted`: while a kit is built, `hcopy` with `:` for its target writes to whatever volume hfsutils has mounted.
hfsutils remembers one for the whole host, and the doctor mounts the guest's own disk to look at its
preferences. When the doctor does so between the mount and a copy, a file of the kit lands on the
guest's disk (`TheirDiskIsKept`). `install_bridge.py:1216-1217` says that the kit "still touches nothing of
theirs".

## Observations

Statements that the code's words suggest and the code does not keep. Those with a name in brackets
are definitions of the module, and TLC refutes them on the instance given; `Spec` stands for all else.

The link and what it carries:

1. `put_file`, `get_file`, `request_log` and the legacy screenshot time out without setting
   `desynced`, and the late reply answers the next command, or passes for the file the next `get_file`
   asked for: it looks at `FILE:` only (`NoShiftByUnmarkedTimeout`; kinds
   `MCTransfer`, 2 connections, 2 identities, `MaxMiss` 2, `LossyFin`).
2. `request_log` stops before STDERR and the terminator of its frame (`NoShiftByShortRead`; `MCLog`).
3. A client that polls faster than the beat keeps a half-open link alive (`RejoinsWhilePolled` under
   `FairSpec`; `MCCommand`, 2 identities).
4. Five early returns of `WriteFileVerb` leave the body on the wire; a later put is told "Written" for a
   file that is not there (`NoFalseWritten`; `Failures <- MCOpenFailure`).
5. The drain after a failed create has no deadline and ignores a lost link (`GuestComesRound` under
   `FairSpec`; `Failures <- MCCreateFailure`).
6. A full frame is sent with packed rows and decoded with the memory's rowBytes (`EveryFrameDecodes`;
   `MCOneMode`, `MCOneRow`, `MCSlack`, `MaxRow` 1, `MaxGen` 2).
7. The failure frame declares one byte more than it has and costs the link (`FailureKeepsLink`;
   `MCTwoModes`, `MCTwoRows`, `MCNoSlack`, `MaxRow` 2, `MaxGen` 2).
8. A control reply that was cut off after `STATUS:0` is taken for a success
   (`TruncatedIsNoSuccess`; the constants of `control_port`).
9. A drain that finds 0.4 s of silence takes the link for realigned even when nothing was read; a
   reply that takes longer is then due to nobody (`slip = "early"`).

Preferences and transports:

- `docs/DEPLOY_SERIAL_HARDWARE.md:130` says "`IP=` is ignored under serial"; `main.c:5305` refuses to
  dial while it is empty, whatever the transport.
- A hot swap whose initialisation fails is never tried again: the retry loop calls `ABConnect` only.
  A fall back marks Open Transport active before it is known to come up.
- While no address is set, a changed NET= is taken over by the full re-read without `ABNetInit`.
- The daemon saves the monitor's bounds from the copy it started with, and so undoes what was written
  since; the panel cuts off what its buffer does not hold.

Session channel and building:

- Two rotations within one second give the archive one name, and the second replaces the first
  (`notes.py:626`, `634`), though "nothing is lost" (`607`). A notice can be rotated away unread
  (`RotationKeepsNotice`).
- A session over ssh stamps with its own host's clock. When that is behind, a note of it is below what
  its reader wrote last and never mentioned (`notes.py:416`). When two hosts' notes stand in the file
  against the order of their stamps, the watcher notes the last line's stamp (`notes_watch.py:231`) and
  wakes again for the earlier line.
- When a Delete is lost and the compiler then fails, the object of an earlier build is reported as a
  success. The termination watch does not look at which file; the uncompiled write is recorded
  whether or not the write arrived; the repeat watch looks back 120 s, less than a compile may take.

Tools with several requests:

- A "before" that could not be read counts as no hits, so an old hit of the menu patch is taken for
  the new one; an arm that is left behind takes over the next menu click.
- An exception while REBOOT is sent is reported as a success, and a lost answer after a real reboot as
  a refusal. A lost probe reads as "the target answered".
- A put of one agent that breaks off spoils the binary another has just staged, and SWAPSELF installs
  what is left: it looks for a file (`fileio.c:632`), not at it. No daemon then starts, and the backup has to
  be renamed by hand, as after a stop between the two renames.
- `https.out` is not tied to its request's nonce beyond the deletion, and a body that was cut off is
  still a success. A second SWAPSELF before the reboot fails. A repeated call types the text again,
  and the text of two clients interleaves.

Watch, dialogs and gestures:

- One failed `pgrep` disarms the judge, so a guest that is already hung is never stopped; nor is one that
  hangs before it was first heard. After the announcement the guest is stopped without another look.
- A refused port does not stop the clock, although `hang_watch.py:20` says that "the window neither grows
  nor resets": `HangJudge` compares the time of day, so two silent looks around a long refusal are enough
  for a kill. `KillIsWarranted` is worded for what the code does. When the host sleeps, two looks are
  enough too.
- `guest_boot` and `dialog_watch` may both answer the same alert, and the second Return goes to what is
  behind it. `keys()` never gives the front back; neither does a session whose activation raised.

Host tools:

- The listing of a built kit is checked by substring (`install_bridge.py:1396`), so that a kit whose copy of
  the daemon or the prefs failed is reported good, although `KIT_REQUIRED` names the daemon; the property
  excepts these two (`Missing`). Seeding does not look at what `hcopy` returned: "seeded" and exit code 0
  after a copy that failed (`SeedIsSo` excepts it).
- `seed_guest_prefs` takes only an answer with "error" or "is not a Macintosh" for a failed hmount (1494-1496),
  and `_run` answers "" after a timeout (157-158): the seed then rewrites `IP=` in whatever image hfsutils has
  still mounted, such as the guest's own disk after a run that was killed. `TheirDiskIsKept` and `SeedIsSo`
  except it by name (`past.stale`).
- Exit code 3, "nothing was written", is given although a seed and a kit are still made after a refusal;
  `RefusalWritesNothing` says what does hold: prefs, record, `local.env` and agent stay as they were.
- A prefs file with two ether lines that differ is judged by its last line by the installer and the doctor
  (`bridge_doctor.py:480-514`), and by its first by `check_ether_backend.sh:48`. When the last
  is `slirp` and the first is not, the installer sees nothing to rewrite and does not refuse for an emulator that
  is up, and the script it then runs rewrites the prefs under it; `RunningGuestIsLeftAlone` therefore speaks of
  prefs that name one backend.
- `image_in_use` asks `lsof` for one process of each kind. The plan is not looked at again when it is
  applied, so the prefs of an emulator started in between are rewritten under it. A machine whose emulator has no prefs file can never succeed.
- The deployed server lacks `emulator_prefs.py` and `guest_paths.py` (`deploy_host.sh`), so it cannot load
  the doctor it names. Prefs read by the doctor and by the installer may be two emulators'.
- The doctor gives a false alarm for an address given by slirp's router in the release kit; a dead bridge
  is not named when the prefs were rewritten to slirp while the emulator ran, nor when another emulator
  still has its helper (`Masked`).
- A server that runs for long keeps the `local.env` it started with; a failed write may leave the file
  empty; an address deleted from it stays in the agent.
- After a guest was renamed in the table, the agents of the old name keep its port, and
  `install_guests.py` returns 0; a guest whose name changes while it is connected is not verified again,
  and one that gives no name is served unverified.

## Not modelled

`PROJECT.json` gives the reason for each part. What a verb does to the Macintosh is Toolbox behaviour;
the journal and menu patches are assembly inside its event loop; codecs are pure conversions; benches and
examples take no part in the bridge; the IP scanner only reads.

The startup extension (`applebridge_init.c`) is deferred reference code that nothing installs.

Inside the modelled parts: the serial carrier of the link, LISTDIR, row codecs, the legacy capture, the
preferences' other lines, the bytes of each transport; of the notes, lines that cannot be read, the local
fallback and the search; of the guards, `TurnScope` and `StepBudget`, which keep to one call; of the host
tools, the dry run, the prompt for a path, missing hfsutils, the guest's checklist, the texts, and the
watch agents' plists. Times are ticks or their order, except where a deadline decides.

## Plan

Done: the link and its transfers, screenshots and preferences with their proofs; the control port;
the session channel; building, tools with the self-update, watch and dialogs; the host tools with two guests at one host.

Left, in this order:

1. **Handshake**: HELLO nonce, AUTH2, name pinning; nothing but PING before the proof, over reconnects.
2. **Daemon**: the dispatcher, its gate, counters and log ring, composed with the handshake.
3. Proofs about these two.
