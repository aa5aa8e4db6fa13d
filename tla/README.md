# A verification project for the PMU/PDC stream simulator

The repository holds a simulator of phasor data concentrators (PDC), which speaks
IEEE C37.118 over TCP, and a client for such devices: a library, a DLL with a C
interface, and test programs. All paths below are relative to
`src/PDC Simulator/`, except `docs/`, which is `src/docs/`.

1. [The system](#1-the-system)
2. [What is modelled](#2-what-is-modelled): modules, and how they follow the code
3. [What the runs check](#3-what-the-runs-check)
4. [What is proved](#4-what-is-proved)
5. [Disagreements with the documentation](#5-disagreements-with-the-documentation)
6. [What is not modelled](#6-what-is-not-modelled)
7. [Plan](#7-plan)

To run it: `tlc -config MCPdcServer_faults.cfg MCPdcServer`, and so on for every
`MC*.cfg` with the module it is named after; `tlapm M.tla` for each of the eight modules
`*Proofs.tla` (three minutes for the longest, `ManagedSimulatorProofs`).

## 1. The system

| Component | State | Operations | Interacts with |
| --- | --- | --- | --- |
| **PDC server** `StrongridSimBase/PDC` | `m_isActive`, `m_threadIsActive`, three one-time action flags, the configuration, `m_clients` with a stream flag each, the recursive `m_lock`; the local lists of a tick | `Start`, `Shutdown`, `SetConfiguration`, `SendConfigurationAll`, `StartRealtimeDataAll`, `StopRealtimeDataAll`, `PdcProc`, `SafeEnlistClient`, `SafeDropClient` | TCP server (callback on its thread), sockets, PMUs, subscribers of its events |
| **TCP server and sockets** `StrongridSimBase/TcpServer`, `Socket` | `m_isActive`, `m_threadIsAlive`, descriptors | `Start`, `Shutdown`, `TcpServerProc`, `SelectReadyToReadSockets`, `Send`, `Recv`, `Close` | the peers, the PDC |
| **Events** `StrongridSimBase/Event.h` | lists of subscribers | subscribe, publish | PDC, GUI log |
| **PMU data** `StrongridSimBase/PMU`, the feed interfaces | a feed | fill in a data frame | PDC thread; feeds owned by the GUI |
| **C37.118 codec** `StrongridBase` | none | read and write each kind of frame, checksum, bit fields, data rate | server and client |
| **Client library** `StrongridClientBase` | socket, configurations, header, last data frame, three availability flags, how to decode data | connect, read header, configuration or data frame, start and stop the stream | the server over TCP, the codec |
| **Client DLL** `StrongridDLL/Strongrid.cpp` | table of clients, its cursor, poll list, `s_clientMapLock` | `connectPdc`, `disconnectPdc`, `pollPdcWithDataWaiting`, `dllshutdown`, reads and getters | threads of an application; the client library |
| **GUI data feeds** `StrongridSimulatorGUI_MFC/*DataFeed` | override maps, data sets with a cursor | replace a feed, read a value, next frame | written by the GUI thread, read by the PDC thread |
| **Simulator manager** `ManagedPdcSimulator`, `PdcSimulatorManager` | configuration, feeds parallel to the PMUs, the running PDC | start, stop, add and remove a PMU, save and load | PDC, feeds, documents |
| **GUI windows and documents** `SimGUI_*`, `CPdcProjectView` | positions, the PMU that a window edits, what its controls show | open, commit, close, edit a list, choose an input | the manager, the feeds |
| **Output log** `OutputWnd` | a locked queue of messages | push, drain | events on server threads, GUI thread |
| **Console programs** | the step of their loop | connect, read, start again after an exception | the client library |
| **Tests** | | | drivers of the above |

What is hard, and what makes each part correct:

* **PDC server.** Three threads and any number of peers share one lock and the
  list of clients. A tick copies that list into local lists and closes, marks and
  deletes sockets while it goes through them; the list grows on another thread;
  `Shutdown` may come at any point. Correct means: no pointer of a tick outlives
  its object, a fault is dropped once and in its tick, the events agree with
  the list, a stopped stream stops, a request of the application is not lost, and
  `Shutdown` ends with nothing running.
* **Client DLL.** Ids are checked without the lock that guards the table, and both
  slots and descriptors are used again. Correct means: an id stands for one
  client as long as its thread uses it, no call follows a null or dangling client, the
  poll list watches the clients of the table, and a call returns.
* **Client library.** Replies come over a byte stream among data frames, with a
  timeout at any byte. Correct means: after a timeout the stream is still in step,
  and data are decoded by the configuration they were encoded with.
* **Codec.** A reader walks through a frame by counts and formats it has read itself;
  sizes, signs and bit fields meet the limits of their width. Correct
  means: the reader stands where the writer stood, what is written is read back, and a
  frame has the size it says.
* **Feeds, manager, windows.** Objects replaced on one thread and read on another;
  arrays and windows that must stay parallel while either is edited; a cursor into data
  that are replaced. Correct means: a reader never sees a deleted feed, a channel keeps
  its input, and a window edits the PMU it shows.

`PROJECT.json` lists under "hazards" where in the code each of these bites, and
which property watches it.

## 2. What is modelled

| Module | What it is |
| --- | --- |
| `PdcSession` | abstract: what the server promises the sessions of its clients |
| `PdcServer` | PDC, TCP server, sockets and peers; implements `PdcSession` |
| `PdcServerProofs` | theorems about `PdcServer`, for TLAPS |
| `MCPdcServer` | instances of `PdcServer` for TLC |
| `PdcHandles` | abstract: what the DLL promises the threads that call it |
| `StrongridDll` | the client DLL's table, cursor, lock and poll list; implements `PdcHandles` |
| `StrongridDllProofs` | theorems about `StrongridDll`, for TLAPS |
| `MCStrongridDll` | instances of `StrongridDll` for TLC |
| `PdcClientStream` | the client library on its connections to a PDC, with the console and the DLL as its users; composes with `PdcSession`, whose actions are the PDC's |
| `PdcClientStreamProofs`, `MCPdcClientStream` | theorems about it; its instance for TLC |
| `StrongridReads` | the DLL's getters and a thread that calls them; extends `PdcClientStream`, and implements it |
| `StrongridReadsProofs`, `MCStrongridReads` | theorems about it; its instance for TLC |
| `FrameCodec` | the frames of C37.118, as `C37118Protocol` writes and reads them |
| `FrameCodecProofs` | theorems about it: the reader stays in step with the writer |
| `FrameSizeProofs` | the size of each frame; extends `FrameCodecProofs` |
| `FrameValueProofs` | what is read back; extends `FrameSizeProofs` |
| `MCFrameCodec` | its instance for TLC |
| `ManagedSimulator` | the GUI's simulator: configuration, feeds, windows, solution file, and the PDC that runs from them |
| `ManagedSimulatorProofs`, `MCManagedSimulator` | theorems about it; its instance for TLC |

### PdcServer

A connection stands for its `Socket` and its `PdcClient`. `fd` is the life of the
socket: `backlog` (connected, not accepted), `accepted` (held by the TCP thread),
`open`, `closed` (`Socket::Close` has run, the object exists), `deleted`. The
variables have the names of the members they stand for. Three program counters say
where the threads are.

| Thread | Actions | Code |
| --- | --- | --- |
| application | `StartThreads` or `StartThrows`, `MarkThreadActive`, `Request`, `SetConfiguration`, `Shutdown`, `PdcThreadJoined`, `StopTcpServer`, `FreeAll` | `PDC.cpp` 62-137 |
| TCP | `Listen` or `ListenFails`, `Accept` or `AcceptThrows`, `SafeEnlistClient`, `TcpThreadEnds` | `TcpServer.cpp` 90-229, `PDC.cpp` 140-158 |
| PDC | `TestActive`, `BeginTick`, `ReadFlags`, `ClearFlags`, `ServeActions` or `BroadcastThrows`, `Poll`, one of `ReadFails`, `AnswerQuery`, `AnswerFails`, `SwitchStream`, `RejectFrame` per readable socket, `CreateDataFrame`, `SendData` or `SendDataFails`, `AllSent`, `SafeDropClient` or `PassOverDropped`, `EndTick` | `PDC.cpp` 160-362 |
| peers (external) | `Connect`, `SendFrame`, `CompleteFrame`, `StopReading`, `ResumeReading`, `Leave` | |

Choices that carry the model:

* A step is what a thread does between two points where another thread can matter:
  the flags are read in one step and cleared in the next, because the application
  sets them without the lock; each socket is a step of its own, because a peer may
  leave in between. The three reads of flags (`PDC.cpp`:222-224) are one step, and so are the
  three clears: a flag set before its own read (or clear) might as well have been set before all three,
  and one set after it after all three, as nothing records the order in which flags are set.
* `m_isActive` and `m_threadIsActive` of the PDC and `m_isActive` of the TCP server
  are read before anything sets them. Reading an uninitialised flag is a choice
  between both values: `StartThrows` is the outcome in which `TcpServer::Start`
  believes that it already runs.
* `send` blocks while the peer's window is full and fails when the peer is gone;
  `recv` blocks on half a frame. Blocking is a step that is not enabled, with the
  lock still held. An exception that no handler catches ends the process
  (`terminated`).
* `faultySockets` may name a socket twice (once for the read and once for the data
  frame of the same tick), so it is a count and not a set.
* Frames are their kinds: the commands, one that is none of them, one of which half has
  arrived. Configurations are numbered by the call that set them.

### StrongridDll

`Connect`, `LockTable`, `Probe`, `Insert` are `connectPdc` (lines 59-92), `Probe` one
turn of its loop; `CheckDrop`, `LockDrop`, `Erase`, `Delete` are `disconnectPdc`
(99-127); `Check`, `Fetch` and `Return` or `ReturnClosed` are every function that takes
an id: each checks it, reads the table again, and uses the client, all without the lock
(130-234 and the getters). `CopyPollVector` and `PollReturns` are the poll (256-305),
`DllShutdown` is `dllshutdown`.

Memory (`Clients`) and descriptors (`Fds`) are small sets of which freed members are
used again, since a stale pointer or descriptor only matters when something new is
behind it. Following a null or dangling pointer, or erasing the end of a vector, sets
`crashed`, after which nothing happens.

The model takes over one obligation of the caller: a thread passes only ids that its own
`connectPdc` returned and that it has not disconnected ("each individual PMU can be used
synchronously and in isolation within each thread", `docs/API_Documentation.md`:32), and
nothing is called during or after `dllshutdown`. Two threads that share an id can make
the DLL follow a null pointer (line 101 checks before it locks); this is listed as a
hazard and not as a finding.

`PdcHandles` is the same without table, cursor, lock and poll list: a handle is an id and an object, opened by one
thread and closed by it, and what a call works on is decided in one step. The mapping (`Promised`) takes a slot for an open
handle from `Insert` to `Delete`, a call for begun when it has read the table the second time (`Fetch`), and
`dllshutdown` for the end of all promises.

### PdcClientStream

The PDC is any server that keeps the promise of `PdcSession`: `Enlist`, `SwitchStream`,
`SendData`, `Reject` and `EndSession` take the session's actions and add what goes over the
connection. That the server of `PdcServer` keeps that promise is the run `sessions` and
the theorem `Refinement`, so that the two modules together speak of the
whole system. `SetConfiguration` and `StopPdc`, `StartPdc` are the application's.

`toServer` holds the commands the PDC has not read, `stream` the frames the client has not
read. A frame is its kind and the configuration that it carries (`CFG2`: the present one,
`CFG3`: the constructor's, since `SetConfiguration` does not replace it) or is laid out by
(data: always the constructor's). `Request`, `Command`, `ReadDataFrame` begin the
calls of `PdcClient`; `ReadHeader`, `ReadBody` are the two `Recv` of a frame in
`ProcessInputStreamUntilTargetFrameType`; `Timeout`, `RecvEnd`, `RecvReset` are how they
fail. `WSAGetLastError` is a variable (`timedOut`), because `recv` returning 0 does not set it.

A timeout may have taken any part of a frame off the socket: `inStep` is then false, and
the next 14 bytes are a header whatever they are (`MisreadHeader`). What a misread
frame is taken for has no limits; a call that takes one is `astray`, and nothing is modelled
beyond. The DLL reaches that state, since it keeps its socket after a timeout; the console does not,
which is a property.

### StrongridReads

The functions that use the connection are those of `PdcClientStream` with the program "dll"; this module adds the members
they set and the getters read (`pdcConfigVer3`, `data`), and the thread that calls them. A configuration and a data frame are
their PMUs' numbers of channels: `Channels` gives them, and `data` is the configuration that `m_currDataFrame` was decoded by.
The thread is the worker of the stress test without its order: it may call any function at any time, except that it
makes arrays for the PMUs in turn (`GetPmuConfiguration`), and asks for values only after `readNextFrame`, as
`docs/API_Documentation.md`:44 wants it. `crashed` tells an index that is out of bounds from a write past an array, and that
from one that `getPmuRealDataLabview` had compared the lengths for.

### FrameCodec

A writer and a reader walk through the sections of a frame (`Sections`), the PMUs' once
for each PMU, item by item. The writer keeps in `buffer` where it stood, at which offset, and
what it wrote; the reader has its own offset, and goes by the counts and formats that it read
(`NUM_PMU`, `COUNTS`, `FORMAT`) or, for data, by `m_datadecodeInfo`, which it made
from the last configuration. `InStep` compares the two; nothing else connects them.

A conversion is what it does: fields cut to their width, `TimeQuality`, `RawDataRate` and `FramesPerSecond`, the
bit fields of STAT, words of digital channels, `DowngradePmuConfig`, polar phasors, integer frequencies and
analogs. A name is its length. Left out are byte order, the value of the checksum (no reader tests
it), rounding, identification codes, and the valid-bits of digital inputs. A phasor, frequency or
analog value that does not fit the int16 it is cast to is `Undefined`, and any number of times 100000 is an exponent.

### ManagedSimulator

Two threads share the feeds without a lock. The GUI thread handles one message at a time: an
action each, but for `CommitConstant` and `AssignOverride`, between which a map has a pointer to
a feed that is gone, and for stopping, which waits in `ShutdownReturns`. `PdcProc`
takes one value or signals one feed in a step. The guards `~SimulatorIsActive` are the controls that
the windows disable while the PDC runs, and nothing else keeps the threads apart.

PMUs and channels are named by the order in which they were made, positions are what the code
has; so the model can tell a channel from another that has moved to its position. A
channel stands for a phasor, an analog and a digital one: their maps, windows and documents are three
copies of the same code, of which `map` names the analogs'. The project view (`tree`) is what
windows are opened from, and is only rebuilt by some edits. A window has its lists by reference
(`pmuWindow`) and everything else by position: `CommitPmu` writes the name, the code, the format and the frequency of one PMU into
another if the position has changed hands, of which the model keeps that it happened (`mixed`). A window of a channel that is gone
inserts a key into a map before the index that ends the program (`OpenChannelWindow`). `m_simPdc` is "garbage" until something sets it, as the constructor
does not. Using a position that is gone, a deleted feed, an entry past the
end of a file, or the garbage pointer ends what is modelled (`crashed`).

## 3. What the runs check

| Run | Instance | Checks | States |
| --- | --- | --- | --- |
| `sessions` | 2 connections; start, stop and unanswerable frames; `StartRealtimeDataAll`, `StopRealtimeDataAll`; shutdown | `TypeOK`, `LateFramesBounded`, `QuietAfterShutdown`, `RefinesSession` | 402,000 |
| `faults` | 2 connections, one may stop reading; queries, half and rejected frames; broadcasts | `IndInv`, `NoDanglingPointers`, `CleanBetweenTicks`, `EventsMatchClients`, `OnlyFaultyDropped` | 480,000 |
| `progress` | 2 connections, whole and half frames | `CommandsServed`, `ConnectionsServed`, `ShutdownEndsOrHangs` | 41,000 |
| `broadcast` | 2 connections, one may stop reading; `SendConfigurationAll`, one `SetConfiguration` | `BroadcastsServed` | 33,000 |
| `shutdown` | 1 connection | `ShutdownStopsTcpServer`, which is **violated** | |
| `dll_table` | 2 threads, 3 slots, 4 clients, 2 descriptors | `DllInv`, `NoCrash`, `IdsIdentifyClients`, `PollListMatchesTable`, `RefinesHandles`, `CallsReturn` | 260,000 |
| `dll_zero` | 1 thread, 3 slots | `HeldIdsAccepted`, which is **violated** | |
| `dll_poll` | 2 threads, 3 slots, 2 descriptors | `PollsConnected`, which is **violated** | |
| `client` | 2 connections, the DLL makes one; 1 replaced PDC, 1 `SetConfiguration`; 1 frame and 1 command under way | `StreamInv`, `DecodedAsEncoded`, `ConsoleInStep`, `FreshReplies`, `CallsReturn`, `ConsoleReceives` | 165,000 |
| `reads` | 2 connections, 1 replaced PDC, 1 `SetConfiguration`; PDCs of one and two PMUs, with different channels | `ReadInv`, `GettersInBounds`, `LabviewChecksLengths` | 1,045,000 |
| `codec` | 39 PDCs of both versions, three feeds, the buffer of 4096 bytes | `CodecInv`, `ReaderInStep`, `NothingRejected`, `FrameSizeCorrect`, `ReadBack` | 36,000 |
| `simulator` | up to 3 PMUs and 2 channels of each, 5 edits, files of 0 to 2 entries | `SimInv`, `RunSafe`, `InputsFollowChannels`, `RunningAsConfigured`, `WindowsInStep`, `MapsGrowInFirstFrame` | 704,000 |

What they show:

* `sessions`: a client sees what `PdcSession` says. A session begins streaming when it
  is enlisted. However commands of the client and calls of the application mix,
  a session told to stop gets at most one more data frame, that of the tick which read
  the command. When `Shutdown` has returned, no thread runs, the lock is free and no
  socket is open.
* `faults`: with half frames, rejected frames, full windows and lost peers at every
  point of a tick, no list of the tick names a deleted object; what failed is dropped
  before the lock is released; a client is announced once and dropped at most once
  although a tick may list its socket twice; and `SafeDropClient` only drops a client whose peer
  left or sent a frame that is rejected. That a peer's leaving may end the process, and with it every
  connection (`BroadcastThrows`, `AcceptThrows`), is in the model and not excluded by the property.
* `progress`, `broadcast`: commands are read, connections enlisted, broadcasts
  delivered with the configuration of their time or a later one. `Shutdown` returns or
  is in one of two hangs that `Hung` names.
* `dll_table`: threads that keep to their own ids cannot disturb each other
  although only some steps are locked: they see what `PdcHandles` says, and none makes the DLL follow a null
  or dangling pointer. `dllshutdown` does follow null pointers; `NoCrash` is about what comes before it. `connectPdc` and `disconnectPdc` return, unless a
  `connectPdc` searches a full table with the lock held.
* `client`: the data frame that a call decodes is decoded by the layout it was encoded with, across
  timeouts, other frames in between, reconnects with the availability flags still set, and PDCs that
  are replaced; the exception is a client that was sent the configuration of a `SetConfiguration`,
  by which the PDC does not encode. A call for a configuration gets one no older than its request, unless
  a broadcast or the answer to a call that timed out was under way. Calls return. The console receives
  data again after whatever happened, once a PDC of version 2 stays up.
* `reads`: a thread that asks the DLL for a configuration, makes arrays of the lengths it is told and has
  values copied into them stays within bounds, although no getter checks a position and `getPmuRealData` no
  length. This holds across timeouts, late replies, reconnects and replaced PDCs, until the PDC sends a configuration that
  `SetConfiguration` replaced; from then on getters do index and write out of bounds. `getPmuRealDataLabview` stays
  within the arrays even then if it follows a `readNextFrame` that returned 0; after one that timed out it may not, because the
  lengths that it compares are no longer those of the frame.
* `codec`: for both versions, all formats, 0 to 16 words of digital channels and names at
  the limits, the reader stands where the writer stood at every item and ends where FRAMESIZE says,
  which is what the standard's tables give. The exceptions are in the
  properties: a channel name above 255 bytes in version 3 (`LongName`), and the values that do not survive
  (`Kept`): integer phasors and frequencies beyond an int16, phasors in the left half plane, and others that the
  comment of `Kept` lists. Of analog values nothing survives but the digits of one sent as a float.
* `simulator`: whatever the user does while the PDC runs, a run that began in order (`Ready`: every
  file at one of its entries, no window showing "constant" over a file) never reads through a
  deleted feed, past a file or from an empty one. The lists that `PdcProc` runs with are those of the configuration until
  it has ended; what the project view and the windows show may be older, since a removal leaves them as they were. The maps that
  it goes through lose no key, and get none after its first frame, unless an old project view offers a channel that is gone: that window
  inserts a key and ends the program. A channel before which nothing was removed reads the input chosen for it and no other.
  Nothing of the kind holds of the channels after a removal, nor of those appended later: they read the inputs of
  others. While nothing was removed, windows edit the PMU at their position and find what they look for.

**Bounds.** `MaxInbox` = 1 unread frame for each connection: the server reads at most one per
tick, and a second one waits just as an unsent one does. `MaxConfig` = 1 change tells the
old configuration from the new one. Two connections suffice for what happens between
clients: one starves, blocks or drops while another is served. History counts stop at two (`Sat2`),
one past the most that the properties allow. The runs divide the frames and requests
among them, and each explores all interleavings of its share; together they take every
action. In the DLL, one
thread waits for the lock while the other holds it; three slots make the cursor wrap past slot 0, which is never freed, and
four clients can fill the table and search it; memory and descriptors are handed out
in an order (`FirstFree`), so that what was freed is used again at once, which is when a stale pointer matters. Symmetry is used only in runs without liveness properties.

In `client`, one frame and one command under way at a time are enough for a reply behind a
data frame or a broadcast, as they take turns; a replaced PDC and a replaced configuration make three
configurations, which differ in either respect. The DLL makes one connection, since each has
a `PdcClient` of its own; the console makes two with the same one. In `reads` the DLL makes two, one to each PDC, since the thread
is what goes from one to the other; the four configurations give a PDC one PMU fewer with more channels, or
more channels alone. `Bound` takes the connections in their order, keeps the second PDC's configuration as it is, and leaves out
PDCs of version 1, which refuse to send a configuration 3. The PDCs of `codec` are chosen
so that each format, each count at 0, 1 and past a word, and each bound of a field occurs;
the feeds give each field a value that is kept and one that is not. In
`simulator`, five edits allow: make a PMU or a channel, open its window, choose a file, remove it, and one more;
starting, stopping, committing and closing are not counted. Three PMUs let a removal move one and leave
one; files of one and two entries let a cursor be past a shorter file. (Two simulators of one solution share nothing but a list.)

**Deadlock** is not checked: the server may end, by `Shutdown` or an uncaught exception, or
hang in `Shutdown` as reported below, and nothing happens after `dllshutdown`. Hangs are the
matter of the liveness properties. A client has used up its connections in the end; the
simulator's user has made all edits.

**Fairness.** `FairSpec` assumes that each thread that can step eventually does (weak
fairness of the PDC thread, the TCP thread and an application thread inside a call). The
wait for `m_lock` in `SafeEnlistClient` competes with every tick; it gets strong fairness,
since the PDC thread sleeps without the lock between ticks and Windows wakes the waiters of a
mutex in their order. Nothing is assumed of the peers, nor of what the application
calls. A peer can hold the PDC thread up for ever by sending half a frame or not
reading, so the liveness properties are stated for behaviours in which no peer does so
for ever (`PeersLetGo`); such behaviours still contain any number of stalls. `DllFairSpec` is the
same for the DLL: weak fairness inside `connectPdc` and `disconnectPdc`, strong fairness for
their mutex, and nothing for calls that wait for the network.

`PdcClientStream` assumes that the PDC's thread runs (weak fairness of enlisting, reading
commands, ending sessions). Each tick both answers commands and sends data frames, so that either gets room in the stream
again and again: strong fairness of `Reply` and `SendData`. The client reads when there
is something to read, and times out when nothing comes, because `Recv` sets a timeout before every read (`TcpClient.cpp`:92).
The console never stops calling. `FrameCodec` and `ManagedSimulator` have no liveness properties: the
one is a sequential algorithm, the other waits for its user.

## 4. What is proved

Each theorem holds for every value of the constants that the module's ASSUME allows:
any set of connections, frames, requests and bounds (`ConstantsAssumption`), any sets of
threads, clients and descriptors and any size of the table (`DllAssumption`); any number of
connections, PDCs and configurations and any length of a stream (`StreamAssumption`); any
PDCs whose channels a word of 16 bits can count, any feeds and any buffer of less than 64 KiB
(`CodecAssumption`), with in each field what its C++ type holds, and feeds that have a value for every channel
(`ValuesAssumption`); any number of PMUs, channels and edits, and files of any size
(`SimulatorAssumption`); any PMUs and channels of each configuration (`ChannelsAssumption`).

| Module | Theorem | Says |
| --- | --- | --- |
| `PdcServerProofs` | `Invariance` | `IndInv` always holds |
| | `TypeCorrect` | `TypeOK` |
| | `PointersValid` | `NoDanglingPointers` |
| | `FaultsDropped` | `CleanBetweenTicks` |
| | `EventsAccount` | `EventsMatchClients` |
| | `LateFrames` | `LateFramesBounded` |
| | `ShutdownIsQuiet` | `QuietAfterShutdown` |
| | `NoInnocentDropped` | `OnlyFaultyDropped`, an action property |
| | `Refinement` | `Spec => RefinesSession`: the server implements `PdcSession` |
| `StrongridDllProofs` | `DllInvariance` | `DllInv` always holds |
| | `NoCrashBeforeShutdown` | `NoCrash`: nothing before `dllshutdown` follows a null or dangling pointer |
| | `IdsExclusive` | `IdsIdentifyClients` |
| | `PollListSound` | `PollListMatchesTable` |
| | `DllImplementsHandles` | `DllSpec => RefinesHandles`: the DLL implements `PdcHandles` |
| `PdcClientStreamProofs` | `StreamInvariance` | `StreamInv` always holds |
| | `DataIsDecodedAsEncoded` | `DecodedAsEncoded` |
| | `ConsoleStaysInStep` | `ConsoleInStep` |
| | `RepliesAreFresh` | `FreshReplies`, an action property |
| | `PdcIsASession` | `Spec => SessionSpec`: its PDC does nothing that `PdcSession` forbids |
| `StrongridReadsProofs` | `ReadsImplementStream` | `ReadSpec => Spec`: the caller of the DLL is a client of `PdcClientStream` |
| | `ReadInvariance` | `ReadInv` always holds |
| | `GettersStayInBounds` | `GettersInBounds` |
| | `LabviewStaysInArrays` | `LabviewChecksLengths` |
| `FrameCodecProofs` | `CodecInvariance` | `CodecInv` always holds |
| | `ReaderStaysInStep` | `ReaderInStep` |
| | `NoFrameIsRejected` | `NothingRejected` |
| `FrameSizeProofs` | `SizeInvariance` | `SizeInv` always holds |
| | `FrameSizesAreCorrect` | `FrameSizeCorrect` |
| `FrameValueProofs` | `ValueInvariance` | `ValueInv` always holds |
| | `ValuesReadBack` | `Spec => ReadBack`, an action property |
| `ManagedSimulatorProofs` | `SimulatorInvariance` | `SimInv` always holds |
| | `RunIsSafe` | `RunSafe` |
| | `InputsStayWithChannels` | `InputsFollowChannels` |
| | `RunsWithConfiguration` | `RunningAsConfigured` |
| | `WindowsStayInStep` | `WindowsInStep` |
| | `MapsStopGrowing` | `MapsGrowInFirstFrame`, an action property |

**The server.** None of the properties is inductive alone. That a tick's lists name no
deleted object depends on who may delete: `SafeDropClient` in the same tick, or `Shutdown`
once `PdcProc` has left its loop, which `Shutdown` knows from `m_threadIsActive`, a flag
set by one thread and cleared by another. So `IndInv` has four parts besides the
types: `ThreadInv` (the holder of the lock, and which threads exist at each point of
`Start` and `Shutdown`), `SocketInv` (`m_clients` and the life of sockets), `ListInv` (the
lists of a tick lie within `m_clients`; a socket found faulty while reading is on no
later list) and `HistoryInv` (events, late frames, misbehaviour). There is a lemma for
each part with a step for each action. The refinement proof maps each of the forty actions to a
step of `PdcSession` or to a stutter, using `IndInv` where a guard of the session's action
is not a guard in the code.

**The DLL.** `DllInv` says who owns each slot: an id belongs to the one thread that holds it
or is disconnecting it, and only that thread empties the slot. This is why the unlocked check and
the second read of the table are harmless. With the mutual exclusion of the lock (`LockInv`), the
table as an injection into the objects that exist (`ClientInv`), and the poll list (`PollInv`), it is
inductive until `dllshutdown`, which ends it.

The refinement proof then maps `Connect`, `Insert`, `Fetch`, the return of a call, `Delete` and `dllshutdown` to steps of
`PdcHandles` and the other eight actions to stutters. Two guards of `PdcHandles` are not guards in the code: that the id and the object
of a new handle are nobody else's (from `LockInv`, `OwnerInv` and `ClientInv`), and that the object a call works on is that of a
handle of its thread (from `CallInv`).

**The client.** What a frame is laid out by is decided by the PDC at its end of the
connection, and what it is decoded by was decided by an earlier frame. `FramesInv` closes the gap: there is one
PDC that everything under way is from and, once the program may read data, that the decode information is
from. `FreshInv` counts the configurations under way: without a surplus one there is at most one
between request and reply, no older than the request.

**The getters.** Every step of `StrongridReads` is one of `PdcClientStream` or leaves its variables alone, so that
`StreamInv` holds of it. From `FramesInv` comes that all frames under way are of one PDC; as long as none has the number of
a later `SetConfiguration`, everything the client decodes by, has read, and has told the thread is of one configuration
(`OneConfiguration`). `LabviewChecksLengths` needs no such thing: after a frame that was read, `data = decode`.

**The codec.** The entries of the buffer are chained (`Chained`: each begins where the one before
ended, and stands at the next place), and the writer's size is their sum. The reader stands at the next entry (`ReadInv`), because
what it takes its counts and formats from is an earlier entry, which has the writer's
(`IsWritten`, `WireOK`), or decode information that agrees with the PDC (`InfoInv`). The offset agrees as
widths depend only on these. The theorem needs no induction over the frame: the steps are the induction.

*Sizes.* `FrameSizeCorrect` compares the writer's size with what the standard's tables give a frame of this PDC, at the end. In
between, the size is `Before(l)`: the bytes of the PMUs before the place, of the sections before it in its PMU, and of
the items before it in its section (`SizeInv`). Each is a sum over a sequence, a recursive function; that such a function
has its equation, and what a sum of equal numbers is, are proved by induction over the numbers. The library's
induction theorems have an operator as a parameter; `Induction` is one for a set, from the smallest number that is not in it.

*Values.* `ValueInv` says that each entry of the buffer is its item encoded and that a PMU whose configuration is in it
has as many units as channels (else `Mismatch` would have thrown). The reader being in step, what is left is for each
section that decoding undoes encoding as far as `Kept` says: quotients and remainders for what is packed into a word.
For STAT the nine fields lie side by side, so that setting one after the other (`StatWord`) leaves
each in place, and a code that fits its field is read back whatever the others are.

**The simulator.** `RunSafe` needs that nothing breaks `Ready` while the PDC runs; only the GUI's
guards see to that, so each guard is used in one step of `StaysReady`. `InputsFollowChannels` needs that an input is
never chosen for a position before it has an owner (`NothingChosenAhead`), and that lists keep the
order in which their members were made (`ListsOrdered`), so that a position whose owner was not moved has
the owner it always had. For `WindowsInStep`, `ListsOrdered` adds that lists from which nothing is missing are in their places, so that
a commit finds the PMU it was opened for. `MapsGrowInFirstFrame` rests on `KeysInserted`: after a frame every channel of the run has its
key, and the run has the channels of the configuration, so that only a window of a channel without an owner can insert another. The
inductive invariant is `SimInv` with `InputsFollowChannels`, `RunSafe`, `RunningAsConfigured` and `WindowsInStep`; there is a
lemma for each part.

**Only model-checked:** the liveness properties (`CommandsServed`, `ConnectionsServed`,
`BroadcastsServed`, `ShutdownEndsOrHangs`, `CallsReturn` of both modules, `ConsoleReceives`): liveness under fairness and
ENABLED are beyond the provers used here. Every invariant, action property and refinement of a passing run is a theorem.

`SizeInv` and `ValueInv` are the other way round: they are proved, and no run lists them, as `FrameSizeCorrect` and `ReadBack` say
what matters of them. TLC finds no violation of them in the instance of `codec` either.

## 5. Disagreements with the documentation

* **`Shutdown` can hang** (run `shutdown`). `PDC::Shutdown` waits for the TCP thread with
  `m_lock` held (`PDC.cpp`:87-92). A connection accepted at that moment makes the TCP
  thread wait for the same lock (:149). No peer needs to misbehave.
* **Id 0** (run `dll_zero`). The cursor of the DLL hands out slot 0 when it wraps
  (`Strongrid.cpp`:77), and every function refuses it (:96). The stress test takes
  ids "must be >= 0" (`StrongridDLLStressTest/main.cpp`:282). The client is lost and its slot with it.
* **Stale ids from a poll** (run `dll_poll`). The poll returns ids from a copy of the
  list without looking at the table again (`Strongrid.cpp`:269-281), so that an id may be of a PDC
  disconnected meanwhile whose descriptor a new connection has.
  `docs/API_Documentation.md`:79 says the list "can only contain" those currently connected.

Seen while modelling, outside the properties that are checked:

* `StrongridTests/C37118ProtocolTests.cpp`:306 expects an analog value of 35.66 to be read back; it is
  multiplied by 100000 on both ways (`C37118DataTypes.cpp`:326), so that 35.66 becomes 35.66 * 10^10. `ReadBack`
  therefore claims the digits alone.
* The same file, :677, expects a data rate of 0.5 frames a second to be read back; `FramesPerSecond` returns -0.5.
  `Kept` excludes rates below one.
* `StrongridDLLStressTest/main.cpp`:47: the `PmuState` for version 3 sets `m_pmuConfiguration` to 0 and takes its lengths from there. And
  the test's threads connect again after an exception without disconnecting (:396, :567), so that each failure costs a slot
  of the table.
* `ManagedPdcSimulator.h`:70 calls the feeds "parallell to the PMU array"; `RemovePmuAtIndex` erases from the array
  alone (`ManagedPdcSimulator.cpp`:302), and `AppendDefaultPMU` appends to both (:288), so that every PMU after a removed one, and every
  one appended later, runs with the feed of another. `InputsFollowChannels` is only about channels before which nothing was removed.
* The counter that gives a PMU its code is not saved and starts at 0 when a solution is opened (`ManagedPdcSimulator.cpp`:71, :247), so that
  `AppendDefaultPMU` then repeats codes of the file; a user may type any code as well (`SimGUI_PmuView.cpp`:485). Codes are not modelled.
* The comment in `dllshutdown`, "Traverse the entire clientmap and shutdown/delete every non-null entry" (`Strongrid.cpp`:239),
  is not what its loop does: it follows the null entries as well (:242, `DllShutdown`). `NoCrash` and `NoCrashBeforeShutdown` are stated for what comes before it.
* The kind of a phasor scale in a configuration 3 is written as bit 3 and read with `& 0x8` as 8, not 1.

Modelled, and not reported since nothing in the repository says otherwise: a lost peer during a
broadcast ends the process (`BroadcastThrows`, `PDC.cpp`:236); so does a reset connection in
`accept` (`AcceptThrows`, `TcpServer.cpp`:104).

## 6. What is not modelled

* The length of a tick (`SetDataRate`), and the values of the PMUs beyond how the codec changes them.
* The times, names and scales that the getters of the DLL copy, and a getter that runs while another thread reads frames with the same
  id (`docs/API_Documentation.md`:32, :44 ask for one thread at a time).
* What a reader does out of step, after an overflow of the buffer, or after a null or dangling pointer:
  anything may happen there, and the modules end in a state of that name.
* Of the GUI: layout and texts, validation of what is typed, fields of a PMU other than its lists; a second
  simulator in one solution. A file entry without values (the code takes the first of an empty vector) is left out.
* The output log (`OutputWnd`): events push messages on a locked queue and post a Windows message, upon which the GUI thread drains
  the queue into a list of 100 lines. No other component reads it. That `PostMessage` does not wait is why a server thread may log while
  the GUI thread waits for it in `Shutdown`. At exit nothing stops a running simulator (`ExitInstance`), whose threads may then
  log to a window that is gone.
* Drivers: `StrongridSimConsole`, `ThreadPoolTest`, the configuration file of the stress test, and the unit tests, read as documentation; vendored code
  (tinyxml) and build files.

## 7. Plan

All of what was planned is done: `PdcSession` and `PdcServer`, `PdcHandles` and `StrongridDll`, `PdcClientStream`,
`StrongridReads`, `FrameCodec`, `ManagedSimulator`, their runs and their proofs. What could follow:

* an abstract specification of the feeds of a running PDC, as `PdcSession` and `PdcHandles` are of the server and the DLL,
  that `ManagedSimulator` implements;
* the second simulator of a solution, once it shares something with the first.
