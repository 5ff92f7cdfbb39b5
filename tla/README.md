# A TLA+ model of capture

`capture` is a C++ library that a monitoring client loads. It lists the processes of a Linux
machine, captures packets with libpcap, attributes each packet to a process by way of `/proc`, and
calls the client back with one row per process and with the packets of the round. The client drives
it: `CaptureInit` once, then `CaptureUpdate` every few seconds, on one thread (`libcapture.h` leaves
thread safety to the user). Nothing in the library runs concurrently with itself. What makes it hard
is that everything it reads moves under it: processes start, fork, exit and reuse pids, sockets are
opened, inherited and closed, frames arrive, and files fail to open, between any two reads. Its own
containers survive from round to round and are reused rather than cleared.

## Inventory

| component | state | operations | interacts with |
|---|---|---|---|
| capture engine (`capturecxx.cpp`, `libcapture.cpp`) | `devices`, `handles`, `pids`, `processes`, `processData`, `packetData`, `packetIdx`, the callbacks | `Init`, `Update`, `InitDevice`, `UpdatePids`, `GetCpuTotal`, `GetMemTotal`, `ProcessTcp`, `ProcessUdp`; `Shutdown` does nothing | everything; calls the client back |
| reconciliation loop (`capturecxx.cpp` 102-126) | two iterators | erase with `ACTION_REMOVE`, or parse and advance | `pids`, `processes` |
| inode helper (`cap_inode_helper.cpp`) | `netToInodes`, `inodeToPids` | `Refresh`, `GetPidByIp` | `/proc/net/*`, `/proc/<pid>/fd`, the engine's `devices` |
| packet (`cap_packet.cpp`) | addresses, ports, length, direction, cached key | `Init`, `IsOutgoing`, `Hash`, `Link`; `Invert` has no caller | the engine's `Contains` |
| protocol decoder (`cap_protocol.cpp`) | none | `Parse` and the four protocol functions | the handle's context, `ProcessTcp`, `ProcessUdp` |
| device, local address (`cap_device.cpp`, `local_addr.h`) | name, flags, address and its text | `Init`, `UpRunning`, `Contains` | |
| capture handle (`cap_handle.cpp`) | pcap handle, link type, context | `OpenLive`, `SetNonBlock`, `Dispatch`, `HandlePacket` | libpcap |
| process record (`cap_process.cpp`) | descriptive fields, cpu counters, `send`, `recv` | `Parse` (status, cmdline, io, user and group, fd, stat), `AddPacket` | `/proc/<pid>/*`, the engine's `memory` and `deltaCpu` |
| `/proc` line reader (the `while (!s.eof())` loop of six functions) | stream state, buffer | `getline`, parse, break | the kernel |
| interface list, public types, utilities, logger | | not modelled, see below | |

What makes each of them correct:

* the engine: the client's view and the table agree after every `Update`, a removed process is
  reported, each packet is stored once and counted once, every call returns;
* the loop: it deletes what is gone and nothing else, and it ends;
* the helper: after a `Refresh` the packets of a socket lead to a process that holds it;
* the process record: a reported row describes the process that has the pid now, and its percentages
  relate two spans of the same time;
* the handle: a descriptor that libpcap opens is either in `handles` or closed;
* the reader: every line is parsed once, in order, and the loop ends.

The hazards (`hazards` in `PROJECT.json`, each with its line) are of six kinds: two reads of `/proc`
with a change in between; containers and records reused from round to round; a sequence of calls of
the system that fails halfway; a loop whose only exit is `eof`; a buffer at its limit; and unsigned
differences of counters that belong to different processes.

## Modules

| module | what it models |
|---|---|
| `CapProcess` | the traffic counters of a process record; an ordered iterator as the set of elements it has not passed |
| `PidMerge` | the reconciliation loop by itself: `Erase` and `Keep` are its two branches |
| `ProcFs` | the operating system (external): `alive` and `holder`, with `Spawn`, `Fork`, `Exit`, `Socket`, `Close` |
| `CapDevice`, `CapPacket`, `CapProtocol` | the pure parts: device flags and addresses, direction and key of a packet, which frames are decoded and how |
| `CapInodeHelper` | the two maps and `Refresh`: one step per `/proc/net` file, one per process |
| `InodeRefresh` | the helper by itself, called again and again |
| `CaptureCxx` | the engine, composed of `PidMerge`, `CapInodeHelper` and `CapProtocol` |
| `CaptureTraffic` | the byte accounts of the engine: a sum is the number of its units, a set of pairs |
| `ProcessFeed` | abstract: a table of counters, a client's view, and the four things that may happen to them |
| `ProcImage` | what `/proc` shows of the processes (external): `Start`, `Become` (exec, setuid, zombie), `Exit`, and the clock, `Run` and `Idle` |
| `ProcessTable` | `CapProcess::Parse` file by file, and the parts of `Init` and `Update` that create, parse, erase and report records; composed of `PidMerge` and `ProcImage` |
| `ProcReader` | the line reader over a stream with `eofbit`, `failbit` and a buffer of 1024 characters |
| `MC*` | instances for TLC |
| `*Proofs` | theorems: `PidMergeProofs`, `CapInodeHelperProofs`, `InodeRefreshProofs`, `CaptureCxxProofs`, `CaptureFeedProofs`, `CaptureTrafficProofs`, `ProcessTableProofs`, `ProcReaderProofs` |

### How the engine corresponds to the code

`pc` says which part of the running call is next; the locals of the code (`cnt`, `idx`, `ret`, the
two iterators) are variables of the same name. Each iteration of a loop of the code that touches
shared state is a step: one device (`NextDevice`, `OpenDevice`), one file or one process of a refresh
(`RefreshMaps`), one dispatch (`Dispatch`, `DispatchFails`), one packet (`HandlePacket`), one
iteration of the loop over pids (`MergeErase`, `MergeKeep`), one row (`CopyRow`). `SystemStep` and
`FrameArrives` may fall between any two of them. `HandlePacket` is the whole callback: the decoder,
the lookup, the credit to the process and the slot for the client. A dispatch hands over any number
of the frames in the ring up to `cnt`, as libpcap may.

Abstractions, and why they lose nothing that a property looks at:

* an address is the identity of the text that `inet_ntop` makes of it and the length of that text,
  which decides whether it fits its buffer (15 bytes for IPv4 in `local_addr.h`, so that a text of 15
  characters is lost). For an IPv6 text that is another IPv6 text, a `:` and a decimal number, `stem`
  is that other text and `group` the number;
* a lookup key is the record of its parts. The key that `ParseBuffer` makes of the socket's own
  addresses has no `:` before the remote port. Behind most peers that makes a text which `Hash` never
  makes (`colon` is `FALSE`); behind an IPv6 peer with a `stem`, the last group and the port run together
  into one number, and the text is the key of the peer `stem` with that number as its port
  (`2001:db8::1:1` with port 2345 reads like `2001:db8::1` with port 12345). `OwnKey` and `Joined` say so,
  and `KeysMatch` and `CreditToOwner` have this one exception, `GluedPeer`;
* the rows of a file come in an order that the kernel chooses: `place` in `ParseFile` is any of them, and
  a key leads to the last row that enters it;
* a frame carries its ports and, separately, the two words behind a header without options, which
  are what `ProtocolIp4` takes for ports;
* `UpdatePids` reads `/proc` in one step. The real listing takes several, but it looks at nothing but
  the existence of pids, and starts and exits during it can be moved before or after it;
* `processes` keeps `send` and `recv`; no decision of the engine depends on the other fields, which are
  the subject of `ProcessTable`;
* `OpenDevice` is one step from `pcap_open_live` to `push_back`. Nothing of the library reads a frame
  before the handle is in `handles`, so that a frame that arrives in between can as well arrive after;
  `PcapAfter` says for each way out of these lines whether the descriptor is kept, closed by the
  destructor, or forgotten and open, which `leaked` counts;
* `view` is the set of rows a client holds that drops a row on `ACTION_REMOVE` and replaces all rows
  on `ACTION_UPDATE`, as the client in the repository's README prints them;
* `stable`, `before`, `round`, `wire` and `parsed` are history variables: no guard reads them, except
  that `wire` bounds the number of frames.

### How the process records correspond to the code

In `ProcessTable`, `file` is the file of `Parse` that is read next and `cur` the record; the system
moves between any two files. A record created for a packet or by `Init` is entered before it is
parsed, where the code does it after; the call has the table to itself, so that nobody sees the
difference. `AdoptOwner` stands for the packets: an owner is always a listed process (`OwnersListed`
of the engine), and whether it sends something is free.

* A process is a `life`, which no other process shares, a `version`, which changes with everything it
  shows except its cpu time, and a `look`: program, user, group, resident memory. The counts of `io`
  and `fd` are represented by the version they were read from.
* A percentage is the pair of its numerator and denominator, the numerator in words of the size of
  `uint64_t`. Of a program name the code keeps what stands before its first blank, `FirstWord`: `%s` of
  `sscanf` and `>>` both stop there, and the scan of a stat line fails at it (`Spaced`).
* A file does not open when the process is gone or, for `io` and `fd`, when its user's files may not be
  read; and any file of a process that is there may fail to open, for want of descriptors for instance
  (the fault `open_proc`, at most `MaxMisses` times). `ParseReturns` ends the parse in all these cases for
  `status`, `cmdline` and `stat`; `mark[p].missed` remembers which files of a live process were missed.
  What happens when the process exits between open and read is the subject of `ProcReader`.
* `InitFails` is a `CaptureInit` that finds no device and returns after `GetMemTotal`.
* `seen` and `mark` are history: the versions at the listing, and per record when it was created, last
  parsed, and at what times and for which life its cpu time was read.

## Runs

| run | bounds | checks |
|---|---|---|
| `merge` | 5 pids: every pair of a listing and a tracked set | the loop ends with the set `Survivors` gives without iterators; without an untracked listed process it deletes only what is gone; what it leaves behind by mistake lies above every listed pid; it terminates |
| `refresh` | 2 processes; 3 sockets, of which two share ports and peer and differ in the local address, and one of IPv6 has a peer whose group and port run together; two device lists, of which one has an IPv4 address of 15 characters; files that fail | a key leads to a socket with its port and peer, up to the IPv6 exception; after a `Refresh` that succeeds every socket held all along is found, unless its key is ambiguous, at the holder with the largest pid or a later taker; the packets of such a socket are found, in both directions, exactly when the text of its address fits the device; `Refresh` returns |
| `engine` | 3 processes, 1 socket, every fault except that of the filter, a frame of the socket and two that differ from it in the port or the address of the peer, `cnt` 1 | types; packets are credited to the current listing only, and to a process that `Refresh` found with a socket of the packet's port and peer; the loop inside `Update`; every step of a call lowers a measure that the system cannot raise; the engine implements `ProcessFeed` |
| `engine_clients` | 2 processes, a TCP segment and a datagram with misread ports, two calls of `CaptureInit`, with and without packet callback, `cnt` -1, filters and dispatches that fail | the slots below `packetIdx` are the packets of this round, TCP ones marked so; a handle counts no frame twice; counters go back in `CaptureInit` only; the k-th `CaptureInit` opens at most k descriptors per usable interface, lost ones included; every step of a call lowers the measure; a call has a next step wherever it is |
| `table` | 2 pids, a program, one with a blank in its name and a gid without a name, a zombie; 1 start or change, 2 ticks, 1 `CaptureInit`, 2 `CaptureUpdate`, 1 file of a live process that does not open, `/proc/stat` and the interfaces failing | after the loop a process unchanged since the listing is reported as it is, up to the first blank of its names, if its files could be opened; a record is half filled only if its process exited or its status or cmdline file did not open; cpu time never exceeds the time that passed unless the pid was reused; the share of the processors is at most the whole when the windows fit |
| `reader` | every file of up to 3 lines of length 0, 1, 1023, 1024, and an exit at any point | lines are parsed in order; every step comes closer to the end, unless the process has exited or a line does not fit; a read without exit and without a long line ends |

Three processes are the least with which a new process can stand between two tracked ones, one being
the client itself, which never exits. Two frames in a ring of two are enough for a slot that is
reused, a dispatch that leaves one behind and, when the socket is closed before the next listing, a
frame that nobody owns. A second `CaptureInit` gives
three handles on one interface. In `table` two pids suffice: pid 2 untracked
makes the sizes differ, so that the loop visits pid 1, and one start is enough for pid 1 to be reused
between two reads of its stat file, or for its process to change between two files of one parse. The
process with pid 1 alone uses the processors; the idle ticks stand for all others. With two ticks,
one can fall into the window of a process and the other outside of it. The faults of `/proc/meminfo`
and of `/proc` itself, which leave an old total and an empty listing, are left out of `table` to keep it
small (it has ten million states); the proofs have them. In `refresh` the first two
sockets collide under the first device list, and `PacketAttributed` leaves them out there; under the
second one the packets of the socket with the long address have a key of their own and are lost, and
those of the IPv6 socket have one under both lists and are found. `table` bounds the calls of
the client and stops when they are used up, and `merge` and `reader` stop when their loop is over;
these three have no deadlock check. The tunnel of the instance has one entry with an address and one
without, so that the engine is checked with one handle per interface; the Ethernet card, which has
two, is the subject of a run of its own. The mutants in `PROJECT.json` show that each of the
properties notices a plausible slip in the code; their definitions are marked "Seeded fault".

Fairness: that a call of the engine returns is not claimed outright, because it depends on each read
of a file coming to its end, and `reader_exit` shows that it need not. What is checked needs no
fairness: every step of a call lowers a measure (`CallAdvances`), and a call always has a next step
(`NeverStuck`); so a call returns if every read in it does. `PollingSpec`, used by `engine_gone` only,
asks that a running call goes on (`WF` of `CallStep`: handles are non-blocking and the code has no waits)
and adds a client that keeps calling `CaptureUpdate`, as the loops of the README and of the test do.
`merge` and `refresh` ask the same of the steps of their own loop, the reads of `/proc/net` and of the
fd directories taken to return, and `reader` of the steps of the read loop. The system's steps are never
fair.

### Where the code and its documents disagree

| run | what happens |
|---|---|
| `engine_running` | new processes are tracked only when they send something, so that the table and the listing differ by them; the loop then erases every running process above the newcomer's pid, counters included. The comment takes every difference for a killed process. `RemovalNeedsNewcomer` says exactly when this happens |
| `engine_gone` | with three processes: an exited process stays for ever if its pid is larger than all listed ones, or if the two sizes agree |
| `engine_deliver` | the packet callback is given the result of the last `pcap_dispatch` as the number of packets. It counts unattributed frames, so that a client reads slots of earlier rounds or beyond the end, and ignores all handles but the last |
| `engine_ethernet` | one handle per entry of `getifaddrs`: an Ethernet card with one address is captured twice and its traffic counted twice |
| `refresh_abort` | one process that exits between the listing and its turn leaves all larger pids without owners for this round |
| `reader_exit` | a process that exits between open and read puts the stream into a state in which `eof` never comes; `CaptureUpdate` hangs. A line of 1024 characters does the same (`GoodReadsEnd` excludes both) |

More facts came up that have no run of their own. The text of an IPv4 address of 15 characters is lost
(`local_addr.h` 22): `PacketAttributed` says that the packets of its sockets are found exactly when the
text was kept. The missing `:` of `ParseBuffer` (`cap_inode_helper.cpp` 161) lets an IPv6 packet be credited
through the key of another peer: the exception in `KeysMatch`. A filter that fails leaves its descriptor
open and forgotten (`cap_handle.cpp` 34): `leaked` counts them, and `DescriptorsBounded` bounds them with
the others. `ProcessUdp` marks a slot it reuses `P_TCP` and a new one
`P_UDP` (`capturecxx.cpp` 466; `SlotFamily` has both cases, and `PacketPrefix` shows that a TCP packet is
never marked `P_UDP`). `ParseUserAndGroup` writes the number of
a gid without a name into `user` (`cap_process.cpp` 174); `Describes` excludes such gids. The
properties of `table` say where the reported fields are right, and their conditions are the cases in
which they are not: a name survives `exec` and the reuse of its pid (`born`), all fields are as old as
the last `Update` whose sizes differed (`ReportedAsIs` asks that the loop has run), `deltaCpu` wraps
when a pid is reused (`OneLife`), and the share of the processors exceeds 100 when the loop was skipped
in between or when a packet had the record created before `GetCpuTotal` (`ShareBounded`).

## Proofs

TLC checks the instances above; the following hold for every set of pids, sockets, interfaces, frames,
faults and bounds that satisfies the named assumptions. They are: pids are natural numbers
(`PidsAssumption`) and finitely many (`EngineAssumption`, for the number of rows), the client is one
of the processes (`SelfAssumption`), and the constants have their types (`RowAssumption`,
`DeviceAssumption`, `FaultsAssumption`, `EngineAssumption`, `ImageAssumption`); the sockets are finitely
many (`RowAssumption`), so that the rows of a file have an order. For the process records, no name
begins with an empty word, and a hundred times the time of all processors fits a word
(`TableAssumption`), so that a percentage wraps only where the difference before it has.

* `PidMergeProofs`: `MergeTypeCorrect`, `MergeCorrect`, `RemovalSound`, `LeftoversBounded`. The result
  of the loop is not inductive; `MergeInv` adds that each iterator has everything it passed below
  everything ahead, that what is tracked is what matched or is ahead, and that whatever was erased is
  outside `Survivors`. The last part is needed in the next iteration: the pid on which `pidIt` is stuck
  was never tracked, for otherwise it would have been erased and so be no survivor.
* `InodeRefreshProofs`, with the lemmas of `CapInodeHelperProofs`: `RefreshTypeCorrect`,
  `RefreshKeysMatch`, `RefreshComplete`, `RefreshAttributes`. `HelperInv` relates the progress of `Refresh` to the sockets
  held since it began: their keys are entered once their file is parsed, their inodes once a holder has
  been scanned, and owners only grow because `pids` is scanned in order. A key that a file enters leads
  to the last of its rows with that key, whatever their order (`LastRowHasKey`), and the socket's own
  key is never one that `Hash` makes of its packets (`OwnKeyNotLookedUp`): it lacks the colon, or it names
  the shorter peer. `PacketKey` shows that `Hash` makes the same key of a packet in
  both directions, which is one that `ParseBuffer` enters if the device has kept the text of its
  address; `RefreshAttributes` follows from it and `HelperInv`.
* `CaptureCxxProofs`: `TypeCorrect`, `PacketsOfRound`, `OwnersAreListed`, `MergeCorrectInUpdate`.
  `IndInv` adds that a dispatch takes no more than the ring holds, that owners and the processes
  still to be scanned come from the listing, that the loop satisfies `MergeInv`, and that the rows
  copied so far are those of the processes passed. Without the last part `ACTION_UPDATE` could read
  rows never written in this round.
* `CaptureFeedProofs`: `ImplementsFeed`, every behaviour of the engine with at most one `CaptureInit`
  is one of `ProcessFeed`. It needs `IndInv` (the published rows are the table, an erased process was
  tracked) and that nothing is tracked or open before `CaptureInit` is over, so that it adopts new
  processes only. With a second `CaptureInit` the statement is false: counters are zeroed.
  `CountersCorrect` says that nothing else sets a counter back, for any number of calls.
  `DescriptorsCorrect` needs `DescriptorsInv`: the length of `devices` after the entries that
  `InitDevice` has passed, and the descriptors opened for the devices that `Init` has passed, with the
  sums over the calls as the products `Entries` and `Twice`.
* `ProcessTableProofs`: `TableTypeCorrect`, `ReportCorrect`, `HalfFilledCorrect`, `DeltaCorrect`,
  `ShareCorrect`, for any population of processes and any number of calls. `TableInv` has one part per
  question. `ClockInv` and `LifeInv` say that nothing read is ahead of the clock and that lives and
  versions never come back; `DeltaInv` that a process which has its pid since its last read has since
  used no more than has passed, which is what makes the next difference sound; `WholeInv`, `NameInv` and
  `FreshInv` that a record under parse is right as far as the parse has come, provided that the process
  has not changed and its files have opened, so that the last file finds the rest already right; and `LoopInv` that the listed
  processes behind `processesIt` are those the loop has parsed. Without it a record of the last round
  could pass for one of this round when `Update` reports.

* `CaptureCxxProofs`, attribution: `AttributionInUpdate` and `CreditsOwner` carry the results on `Refresh`
  into the engine. `HelperInv` does not hold throughout: `InitDevice` adds devices while the maps still
  have the keys of the earlier ones, so that the rows are no longer entered for all devices.
  `AttributionInv` asks for it only from the listing to the last packet of a call; what has to survive
  in between is that a key belongs to its row, which more devices do not change.
* `CaptureCxxProofs`, progress: `CallsAdvance`. The measure is lexicographic: the part of the call, the
  turns left in its loop (interfaces, devices, files, handles, processes), and the iterations inside a
  turn (fd directories, frames of a dispatch). It needs `IndInv`: the iterators are finite, `idx` has not
  run past the handle it dispatches, and a dispatch takes no more than `RingSize` frames. Nothing that
  processes or the network do raises the measure: the calls work through listings and counts taken once,
  and never wait. What `NeverStuck` adds, that a call has a next step wherever it is, is left to TLC.
* `CaptureTrafficProofs`: `TrafficIsBounded`, `CountedOnceIfUnshared`. The bytes of all processes, and
  those in all rings, are sums over sets; a sum is the cardinality of its set of units, pairs of an
  index and a number below its value, so that facts on sums are facts on finite sets: changing one
  term changes the sum by the difference, and a term that becomes larger on at most n indices adds at
  most n times as much. The invariant is the bound itself, for every n: a frame that arrives enters at
  most n rings; `HandlePacket` moves the bytes of one frame from a ring to one counter or drops them;
  erasing a process and `CaptureInit` only lower a counter; a new handle starts with an empty ring and
  can only make the hypothesis `Sharing` fail. With n = 1 every byte is counted at most once: handles
  that share an interface are the only cause of a double count such as that of `engine_ethernet`.
* `ProcReaderProofs`: `ReadsLinesInOrder`, for files of any number of lines of any length.
  `LinesInOrder` does not say how far the stream is; `ReaderInv` adds that the parser has had exactly the
  lines the stream has passed, except for the one in the buffer, which is the last of them, that
  `eofbit` means that all are passed, why a loop that is over has ended, and that a stream fails before
  its end only if the process has exited or a line does not fit. `ReaderAdvances`: each step lowers
  `Remaining`, unless one of these two has happened, and `FailedReadSpins`: a stream that has failed before
  its end stays in the loop for ever. Together they leave the two causes for a read that hangs, of which
  `reader_exit` shows the first.

Only model-checked: the liveness properties `MergeTerminates`, `RefreshReturns` and `GoodReadsEnd`, which
rest on fairness, and `NeverStuck`; all of them need `ENABLED`, which the prover does not handle. The
measures behind them (`CallAdvances`, which includes the loops of `PidMerge` and of `Refresh`, and
`ReadAdvances`) are proved.

## Not modelled

* `captureAll` is never set, so packets are never copied; `CaptureExit` does nothing; `Invert`,
  `Reset`, `Info` and `SetDevice` have no callers in the library.
* `CapIfaddrs` owns the interface list (the constant `Interfaces`); the public headers are
  declarations; singleton, nocopy and the logger have no influence on what the program decides.

## Plan

1. Done: `PidMerge`, `CapInodeHelper`, `CaptureCxx`, `ProcReader`, their runs and proofs, and the
   refinement of `ProcessFeed`.
2. Done: the process record (`ProcImage`, `ProcessTable`, `ProcessTableProofs`), the descriptors of the
   capture handle, the counters over several calls of `CaptureInit`, and the packets of a socket.
3. Done: the byte account, the line reader, attribution inside the engine, and the measures behind the
   liveness properties as theorems.
4. Left: conditions under which the statements that the code violates do hold, as theorems, where the
   model has them as remarks: when the number given to the packet callback is that of the round, and
   when an exited process does leave the table.
