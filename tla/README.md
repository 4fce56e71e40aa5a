# Verification of uvvy

This directory holds TLA+ models of uvvy, a peer-to-peer program for chat, voice
calls and file sharing, the TLC configurations that check them and the theorems
TLAPS proves about them. Every definition is translated from the code under
`src/`; `PROJECT.json` names the lines each one stands for, lists the hazards of
the code, and says which property watches which hazard.

1. [Inventory](#1-inventory): the parts of the system
2. [Modules](#2-modules): what models what
3. [Runs](#3-runs): what TLC checks, on which instances
4. [Proofs](#4-proofs): what TLAPS proves, and from what
5. [Divergences](#5-divergences): where code and comments disagree
6. [Observations](#6-observations): what else was met, without a run of its own
7. [Not modelled](#7-not-modelled)
8. [Plan](#8-plan)

To repeat everything: `tlc -config X.cfg M` for each run of section 3 and
`tlapm M_proofs.tla` for each module of section 4.

## 1. Inventory

uvvy runs as one process per host. Hosts talk over *structured streams* (the
`sss` submodule, not in this tree: external): reliable ordered message streams
that connect, disconnect and reconnect, and that also carry unordered datagrams.
Two generations of the program live side by side: the Qt one under `ui/lib` and
`ui/gui`, and the newer one (`voicebox`, `filesyncbox`, `ui/qt5`). Most code is
driven by events of one thread, Qt's event loop or the asio `io_service`. The
threads besides it are RtAudio's callback thread, the `io_service`'s runner next to
the window's thread, the scanner thread and the port mapper.

| component | state | operations | talks to |
|---|---|---|---|
| **chunk sharing**, `filesyncbox/lib/chunk_share.cpp`, `chunk_peer.cpp`, `abstract_chunk_reader.cpp` | the table of requests (readers, potential sources, status per peer); per peer a wishlist and the chunk being downloaded | read a chunk, status and chunk requests and replies, connection events | readers (called back in the middle of handlers), the peers' copy of the same code, the chunk stores |
| **jitter buffer**, `voicebox/lib/jitterbuffer.cpp` | queue of packets, expected number, clock skew | accept a packet, reset, produce a frame | network thread on one side, sound thread on the other |
| **packet sending**, `voicebox/lib/audio_service.cpp` (`send_chain`), `packetizer.cpp`, `packet_sink.cpp` | queue of captured frames, the strand, the datagram counter | capture, notify, drain the queue | sound thread, `io_service` threads, GUI thread that ends a session |
| **sound hardware**, `audio_hardware.cpp`, `rtaudio_source.cpp`, `rtaudio_sink.cpp` | registered streams, the open device and its format | enable, disable, reopen, callback | RtAudio's thread, whoever enables streams |
| **call sessions**, `audio_service.cpp`, `ui/qt5/CallService.cpp` | data and control stream, chains, active flag | make, accept, start, stop, lose a call | the other host's service, the window |
| **stream graph**, `audio_stream.cpp`, `audio_source.cpp`, `audio_sink.cpp`, `opus_*`, `packet_source.cpp`, `file_read_sink.cpp` | who produces for whom, enabled flags, codec state | connect, enable, push and pull | each other, along the chain |
| **peer service**, `ui/lib/peer.cc` | one outgoing stream per known host, one retry timer, incoming streams | connect, retry, link up and down | every service of `ui/lib` |
| **update actions**, `ui/lib/action.cc`, `update.cc`, `file.cc` | a tree of actions with a status, retry timers, temporary files | start, progress, retry, finish | chunk reading, the file system, the window |
| **opaque streams**, `ui/lib/opaque.cc`, `opaque.h` | the coder's buffer and lists of keys; the reader's regions | write, mark a record, finish; read by bytes or records | chunk reading (re-entrant), stores |
| **scanner**, `ui/lib/scan.cc` | work list under `scanmutex`, cancel and done flags | add, process, cancel | window thread and scanner thread |
| **stores and index**, `ui/lib/store.cc`, `arch.cc`, `index.cc` | chunk files, the index of what was scanned | find, add, recover | scanner thread and main thread |
| **checksums**, `ui/lib/adler32.cc`, `rcsum.cc` | a rolling sum over a window | roll, combine | opaque coding |
| **NAT traversal**, `ui/traverse_nat.cpp` | ports being mapped | map through UPnP and NAT-PMP | their callbacks |
| **Qt voice service**, `ui/lib/voice.cc`, `audio.cc` | streams sending and receiving, per-peer queues | talk, listen, mix | peer service, sound |
| **search**, `ui/gui/search.cc` | the ids found, the rows shown | search, look up, add a friend | registration servers, the friends |
| **file sharing**, `ui/lib/share.cc` | the shared files | no program uses it | - |
| **downloads**, `ui/gui/save.cc` | the list, and the settings' array of it | save, resume, cancel, clean up | update actions, settings |
| **chat**, `ui/gui/chat.cc` | the log, the history, the files being scanned | send, receive, close | streams, scanner, update |
| **contacts, settings**, `ui/qt5/ContactModel.cpp`, `ui/gui/settings.cc` | the list of contacts, in memory and in the settings | insert, edit, remove, find, look up | the window, the host's thread |
| **file sync service**, `filesync_service.cpp` | none yet | a skeleton | - |
| **windows**, **chunk encryption**, **demos**, **submodules** | | | see section 7 |

What is hard, and what makes each part correct:

- *Chunk sharing.* Handlers call readers back, who read again before the handler
  has cleaned up; the loop after a disconnection walks over a copy of the table;
  replies belong to requests that are gone. Correct means: one answer for every
  read; no request that waits for somebody who cannot answer; no chunk fetched twice.
- *Jitter buffer.* Loss, reordering and a number that wraps, with two clocks. Correct
  means: sound is played in order and neither stretches nor shrinks; what is dropped is old.
- *Packet sending.* A queue between three threads, with an edge-triggered
  notification. Correct means: in order, once each, and nobody asleep on a full queue.
- *Sound hardware.* A mutex that the callback needs too, a device that must be
  closed by those who hold it. Correct means: no removed stream is touched, every
  one gets what it can take, and the device follows the demand.
- *Call sessions.* Two hosts, three streams' worth of signals without an order among
  them. Correct means: nothing but a user or a lost link ends a call, for both.
- *Peer service.* One timer for all peers; a replaced stream lives on until the
  event loop deletes it and still reports.
  Correct means: no friend without a stream or a running timer, no stream used after
  its end, and the table tells the truth about who hears whom.
- *Update.* Answers of an earlier try arrive during a later one. Correct means: what
  succeeds is whole, the numbers shown add up, an error is tried again, it all ends.
- *Opaque streams.* Cuts that depend on contents, lists that overflow into lists, synchronous
  answers inside the loop that asks. Correct means: what was written is read back.
- *Scanner.* Cancelling what another thread works on. Correct means: each item is
  freed once, by one side, and what is offered was scanned.
- *Index.* Checks outside a lock; a program that dies between two writes. Correct means:
  memory, log and files agree, and a thread with old knowledge destroys nothing.
- *Chat, downloads, search.* Windows closed while data is on its way, answers to old questions,
  settings written as an array. Correct means: both sides show the same talk, and
  lists survive restarts and late answers.
- *Contacts, NAT.* A list that two threads change without a lock; a router that others
  use. Correct means: what the user entered stays; success is claimed when it is earned.
- *Checksums.* Boundaries of unsigned arithmetic; a rolled sum equals the computed one.

## 2. Modules

Each component has one module with its state and one action per handler or
step, and a module `X_proofs` with its theorems. `MCX` instantiates it for
TLC. Where a property needs to know the past, a *history* variable records it: no
guard of a code action reads one, except to bound the run. A definition marked
*Slip* is the code with one plausible mistake; it is used by no specification, and
shows that the properties notice that mistake.

### ChunkShare, ChunkReading

| in the model | in the code |
|---|---|
| `requests`, `readers`, `potentials`, `status` | `chunk_share::requests` and the fields of `request` |
| `peers`, `wishlist`, `current` | `chunk_share::peers`, `chunk_peer::wishlist_`, `current_` |
| `connected`, `toPeer`, `fromPeer` | the outgoing stream of each peer: both directions are ordered, a disconnection loses both |
| `stores` | what each remote host's `Store::readStores` finds |
| `call`, `sweep` | where a handler is that has left its own code: the loop over the readers, the loop of `remove_from_requests` |
| `ReadChunk`, `GotStatusReply`, `GotChunkReply`, `GotOutStreamConnected`, `GotOutStreamDisconnected`, `GotInStreamConnected` | the functions of these names |
| `CallReader`, `EndNoData`, `EndGotData` | one turn of the loop over the readers, and what follows that loop in `check_request` and in `got_chunk_reply` |
| `GotStatusRequest`, `GotChunkRequest`(`Corrupt`) | the same code at the other end of the stream |
| `CheckPeers` | `check_peers` with `check_work` of all peers, in any order, as `foreach` over a hash gives |

The code is single threaded, so a handler is one step, except where it calls out:
`got_data` and `no_data` may call `read_chunk`, and the model lets them do so between
any two readers. `ChunkReading` is the promise made in `abstract_chunk_reader.h`: a read
is pending until an answer is decided for its chunk, for everybody who waits for it
at that moment, and each is called exactly once. `ImplementsReading` maps
the loop (`call`) to the answer being given, and hides all the rest. Contents of chunks are
abstracted to good, bad or empty, hashes to model values.

### JitterBuffer

`queue`, `sequence_number`, `time_skew` are the members; `AcceptInput` is
`accept_input` with `enqueue` and `reset`, `ProduceOutput` is `produce_output`.
Both hold the mutex around the queue, and the rest of their state belongs to
one thread, so each is one step. `Send`, `Lose` and `Arrives` are the datagram
network (external), which loses packets and lets them overtake one another. `remote` is what the
sender's clock was when ours was `Clock`: behind, one frame ahead or far ahead. A frame is the packet it came from and its timestamp; the
dummy's twelve zero bytes have time 0 and read back as number 0. The sort is not
stable, so frames of equal times may come in either order (`Sorted`). Time is
counted in frames. The history variables name the timeline: `start`, the packet that began it; `gone`, how many
frames left the queue since; `next`, `newest`, what came in; `late`, the packets that a newer one had overtaken; `raw`, those that
were queued at the sender's time; `left`, those that left in local time.

`DecodeFrame` is `opus_decode_sink` pulling through `ProduceOutput`: a packet is played, a dummy is concealed.

### SendChain

The sound thread (`apc`), the workers of the `io_service` (`wpc`, `hand`) and
the thread that ends the session (`ender`) interleave between the packetizer's
critical sections. `Capture` is `rtaudio_source` with `packetizer::accept_input` under its mutex,
`OnReadyRead` the signal after the unlock, which posts; `SendPackets`, `PullFrame` and
`EncodeAndWrite` are `packet_sink::send_packets` pulling through `opus_encode_sink`
from `packetizer::produce_output`; `BeginEnd`, `DestroyEncoder`, `FreeChain` are the
three steps of `end_session`. `HostState.h:16` runs one thread and says that it "could
be a thread pool": the model has several workers, and the strand keeps them apart.
A use of freed memory ends the run (`ruined`).

### AudioHardware

Each thread that enables or disables a stream goes through `SetEnabled`, `Change`
(`add_instream` and its like, with their assertions), `Flag`, and if the device has to
change through `CloseAudio`, `LockStreams`, `CloseStream`, `OpenAudio`, `OpenStream`.
The callback goes through `RtCallback`, `LockCapture`, `Captured`, `LockPlayback`,
`Played`. `mutex` is `stream_mutex_`. RtAudio is external: `closeStream` waits
for the callback that is running, and `openStream` throws when there is a stream.
`failed` records an assertion that failed or an exception, `overlapped` that the last `set_enabled` began while another thread was in one.

Any number of threads enable and disable streams, as far as their callers let them (`Asked`): a session is ended only
while it is active (`CallService.cpp:46-51`) and everybody has streams of his own, so that two threads may disable one stream at
the same time, but not enable it.

`EnableChain` is what enabling then does further down a stream's chain: it makes or destroys the codec (`ready`), after
the stream itself was registered or removed and before the device is reopened.

### MCVoiceSending

The composition of both: the microphone is one of the hardware's streams, and what the chain takes for one step
is there a path through the callback. `Captured` is the callback at the microphone together with `Capture`, and the callback
returns only after `OnReadyRead`; `Enable` and `BeginEnd` go together with the hardware's `Change` for the microphone, and a session goes on
ending when that call has returned. A file player (`file`) and the call's sink (`voice`) share the device. There are two controlling
threads: the io thread starts and ends the session and uses the file player, and the window's thread ends the session (`hangUp`),
also while the io thread is ending it. Of two ends of one chain the first frees it; that the second frees it again is left out.

### CallSession, VoiceCall

Per host: `data`, `control`, `heard` (the call whose handlers are connected), `chains`,
`active`. Per call: who calls whom, the streams still to be accepted (`arriving`), the
commands under way to each end (`chan`), who has seen the link up, and whether it
is lost. Actions are `MakeCall`, `NewConnection`, `NewSubstream`, `LinkUp`,
`LinkDown`, `StartSession`, `StopSession`, `HangUp`, and `LoseLink` for sss (external). A
stream that was dropped takes its handlers with it, so replacing `control` empties
`heard` of the old call.

`VoiceCall` is the promise: a host talks in one call at a time, only in one of
its own, never again in one it has left, and leaves only a call that was hung up
or whose link was lost. `KeepsPromise` maps `active` and `control` to the call a
host talks in. So stale commands, starts said twice or three times
and stops of an earlier call must all be harmless.

### PeerService, VoiceService

`PeerService` is `peer.cc`: `out`, `in`, `up` and `timer` are the tables of streams, the links and
`recontimer`. A stream that was told to `deleteLater` is in `doomed` until the event loop deletes it
(`Delete`), and its signals still arrive: what `linkDown` of such a stream does is part
of `OutDisconnected`. Addresses of streams are given out again after deletion, so a stream
that was freed may be confused with a new one. All slots run in one thread; the
events interleave. A stream's `isConnected()` may be true although its link is down, as `peer.cc:82` has it (`IsConnected`).

`VoiceService` extends it with `voice.cc`, whose slots run inside the signals of the peer service, and
with the commands of the window in `main.cc` (`AddPeer`, `DeleteFriend`, `StartTalk`, `Mute`). `sending`,
`send`, `recv`, `playing` and `queued` are its tables; `dry` holds the `queueEmpty` signals between
emission in the sound thread and delivery, which frames may overtake. The history `stray` has the streams that still get
frames though their host has given them up, or though they never were connected.

### UpdateAction

`up` has each file or directory of the tree as an Action: status, the numbers shown, the timer. `regions` says how many regions of its reader
wait for each block or chunk, `disk` what of a file is on disk, `list` which entries of a directory have
been read. The tree is given by `Entries` (of each directory, in order), `Above` (the directories that
an entry is in) and `Blocks` (the records of each block of entries); `UpdateAssumption` says that it is a tree
and that the blocks hold all entries. An event is one step, and what it makes its parents do is
computed by passing a `World` from operator to operator, in the order of the calls. `Start`,
`GotPiece`, `NoPiece`, `RetryTimeout` are the events; `FileData`, `DirData`, `DirReadDone` and so on are the
functions they call; `Reported` goes up the tree, one `Check` for each directory above. A question that is still
open when the timer starts another reading stays
open: the second reading asks again, and answers to both count. `faults` bounds what fails, `lost` names the
directories of which a block was not found, and a failed assertion ends the run (`failed`).
`MCUpdateAction` has the downloads under names of their own (`mishaps`, `aborted`), so that they can stand beside
the chunk table in one module of theorems.

### Scanner

The window's `Scan` tree (`scan`), the shared work items (`items`, `queue`), what the scanner's thread
is at (`job`) and the events it posts. `Thread` has one step per critical section of
`scanmutex`. A handler of the window is one step, for it meets the thread at one item only; where the window goes
over all Scans it is one step per Scan, with the thread's in between: the ChatScanner's constructor starts them in a
second pass (`StartNext`), and its destructor destroys them one after the other, a directory's before those of its
entries (`DeleteScan`). No event comes meanwhile (`Free`). A work item is owned by its `Scan` until that
is destroyed; then it is an orphan (`cancel`) that the thread has to free. The chat
that dropped the files sends them when all are scanned, or is cancelled.

`ScannerAssumption`: each file and directory has one place in what is dropped, since two Scans of one path are two Scans. A directory
may be found empty (`ScanEmpty`).
`MCScanner` is the scanner under names of its own (`work` for `job`), so that it can stand beside the index in one
module of theorems.

### OpaqueStream, Checksum

`OpaqueCoder` by its operations `WriteData`, `MarkRecord` and `Finish`: `DoChunk` cuts where the
rolling checksum is best (`SplitPoint`), `AddKey` appends to the list of a level and turns a
list that is too long into a key chunk of the next (`SelectEnd`, `KeyKey`), `Merge` shortens lists at the end until
they fit the metadata. A chunk is its contents. The consumer of the chunks may refuse any of them (`HandOut`); `coder.state` says
why a coder has stopped: `refused`, `unflushed` (`finish` or `markRecord` found bytes left after a refusal), `missummed` (an assertion on the sums
failed), `dangling` (it used a reference into the list of levels after that had moved). `AbstractOpaqueReader` by `ReadRegion`, `Found`, `NotFound`:
`AddKeys` asks for the chunk of each key, in order and again for a chunk that comes twice, and walks down through every chunk that the local
stores have before the call returns; `dones` counts the calls of `readDone`. The functions call each
other, so most of this is operators over records, and the recursions over levels are recursive operators.

`Checksum` has Adler-32 with its composition law and the rolling checksum, at a word's width that is a constant.

### ChunkIndex

`log` is the index file, `info`, `meta`, `chunks` the tables, `files` the chunks directory. `addMetaChunk` and
`readStore` are split where they give the mutex up: a thread finds a name, looks at the file, writes a temporary file,
and records it, with others in between (`Lookup`, `CheckFile`, `WriteTemp`, `RecordMeta`, `CopyPlaces`, `TryPlace`). The
program may end after any step or inside a record (`Crash`), and `Load` is the constructor: it stops at a tag cut short and
builds everything anew at other corruption. Users edit files (`Edit`) and disks damage them (`Damage`).

### ChatDialog, SaveDialog, SearchDialog

`ChatDialog`: the two dialogs (`dlg`), the stream between them (`wire`), what each shows (`log`, `history`), and the
files being scanned (`scanner`, whose inside is the Scanner module). Closing a window shuts down the writing half and
hides the dialog until the other half is closed too. Messages are numbered, to tell them apart. `SaveDialog`: the downloads in memory (`items`, `act`) and in the
settings (`stored`, where slots keep what an earlier, longer array left in them), over restarts. `SearchDialog`: the ids
found and the rows shown, with every search and lookup that is not answered yet. They share no state.

### ContactModel, PortMapping

`ContactModel` is the list that the window's thread and the host's thread change without a lock. A step is one
operation on the list, so the look for a row and its use are two (`Placed`, `AppendPeer`, `SetProfile`), and a profile may get into the row
of another contact; what else a data race may do is not modelled. `PortMapping` is `traverse_nat`: the list of the router's mappings is fetched once, then requests are made, by a
library that is synchronous or not, while others map ports too.

The list of contacts, the downloads, the search, the ports and a chat share no state. `MCContactModel` lets a behaviour be one of the
five, so that one run checks them.

## 3. Runs

| run | module, configuration | checks | distinct states |
|---|---|---|---|
| `chunk_table` | MCChunkShare, `ChunkShare_table` | `ExclusiveDownload`, `NoUnexpectedChunk`, `TableAgrees` under all four faults | 583 830 |
| `chunk_live` | MCChunkShare, `ChunkShare_live` | `ImplementsReading`, `EveryReadAnswered`, with streams that break at any moment | 82 170 |
| `jitter_fifo` | MCJitterBuffer, `JitterBuffer_fifo` | `TimelineKept`, `PlayedInOrder` over a network that loses and reorders, with three clocks of the sender | 6 340 708 |
| `voice_sending` | MCVoiceSending, `VoiceSending` | `FramesInOrder`, `OnlyRegisteredTouched`, `CallbackFits`, `HardwareServes`, `EveryFrameSent`, `DeviceCloses` on chain and hardware together, with two controlling threads | 314 308 |
| `call_promise` | MCCallSession, `CallSession_promise` | `SessionWhole`, `KeepsPromise` (VoiceCall), `FarEndTerminates` | 34 802 |
| `voice_peers` | MCVoiceService, `VoiceService_peers` | `OneStreamPerPeer`, `EveryFriendTended`, `TalkTold`, `FriendsHeard` | 760 474 |
| `update_faults` | MCUpdateAction, `UpdateAction_faults` | `DownloadsWhole`, `CountsTrue`, `ErrorsRetried`, `DownloadEnds` | 15 702 |
| `opaque_stream` | MCOpaqueStream, `OpaqueStream_stream` | `StreamCoded`, `RollingTrue`, `StreamRead`, with chunks that are refused | 867 587 |
| `scan_chat` | MCScanner, `Scanner_scan` | `ItemsShared`, `ReportsTrue`, `ScanEnds` | 577 928 |
| `index_race` | MCChunkIndex, `ChunkIndex_race` | `ChunksAreDurable`, `EntriesHaveFiles`, `GoodEntriesStay` | 762 914 |
| `gui_windows` | MCChatDialog, `ChatDialog_windows` | `ChatsClose` | 133 268 |
| `contacts_kept` | MCContactModel, `ContactModel_kept` | `WishesKept`; `SuccessEarned`; `DownloadsRemembered`; `ResultsTrue`; `ConversationAgrees` | 1 328 696 |

What each property says is written above it in its module. Some have several named parts:

- `TableAgrees`: nobody is a potential source who cannot be reached; a status left at the placeholder has its question or answer
  in flight; a source that a request counts on is on the wishlist or being delivered; only open requests are answered; the copy
  that `remove_from_requests` walks over names no request that a callback has deleted.
- `TimelineKept`: every packet number passed since the timeline began has its frame, played, dropped or queued, and exactly one as
  long as no packet is late; a late one only stretches the sound. It counts frames: where a dummy stands is in section 5.
- `PlayedInOrder`: frames in local time are queued in the order of sending, each once, and after all that have left, unless they came
  late; so trimming takes the oldest. Not among them are the packet of a reset, packets under a skew of zero and the extra copy of a late packet, which
  are queued at the sender's time (section 5).
- `CallbackFits`: what the callback moves fits the streams and the device; no sink is pulled alone before its chain is ready, except while
  threads overlap. `HardwareServes`: an assertion of `audio_hardware.cpp:84-110` or RtAudio's exception comes only where two threads overlapped; and when
  nobody is inside `set_enabled`, whatever threads were at once, registered is enabled, with the codec made, and the device is open in
  just the directions that are used.
- `DeviceCloses`: a device that nobody uses is closed, unless `close_audio` is stuck or the program has failed.
- `TalkTold`, `FriendsHeard`: frames go to streams that are current, up and have their sequence numbers, or to stray ones; the Talk column says so of
  every friend who is connected, every friend's stream that is up
  is played, and playback that ran dry is about to stop.
- `DownloadsWhole`: files and directories that succeed have all their parts, in the order of the directory.
- `StreamCoded`: the tree's leaves are the stream, cut at records, with the sums and numbers in every key; all chunks of it were taken; lists are as
  short and the info as true as the coder asserts. A coder that has stopped leaves no info, and the assertions on sums fail only after chunks
  whose sum has a lower half of zero. `StreamRead`: what is passed on is the stream at that place, once; `readDone` comes when all was
  passed on or reported missing, and nothing after it; it comes again only where the local stores had a chunk that was asked for twice.
- `ItemsShared`: no assertion of `scan.cc` fails and no freed item is used (`ScansSound`), and each item has one who will free
  it (`ItemsOwned`). `ReportsTrue`: what counts as scanned is in the index, unless the index refused a chunk of it
  (`ScannedIsIndexed`), a directory's numbers are the sums of its parts' (`SumsTrue`), and what was dropped is sent
  at most once, when all is scanned (`SentWhenScanned`). `ScanEnds`: what is dropped gets sent or cancelled, and only an empty directory
  keeps it for ever, all files scanned.
- `ChunksAreDurable`: the log has every chunk that the tables know, and the next start reads them all, unless records were written
  after a tag that a crash had cut short.
- `ChatsClose`: who closes his window has been heard, unless the partner closes as well or the stream fails;
  and once both windows are closed, not merely dismissed, no dialog stays behind.
- `ConversationAgrees`: what a dialog shows of its partner is what the partner has said, in order, and all of it once the end was
  read; the history has the log's texts; the stream refuses no text.

**Bounds, and why they are enough.**

- *Chunk sharing.* Two readers, two peers and two chunks are the least with which readers share a chunk, peers compete
  for it, and a sweep meets two requests. `MaxReads` (2, or 3 where a read inside a callback is a fault)
  bounds the calls of `read_chunk`. `chunk_table` holds one chunk locally, so that a read is also answered without a request. `chunk_live` has one
  reader, without symmetry; its streams break and come back any number of times.
- *Jitter buffer.* `MaxSkip`, `QueueMax` and `NumMod` are 2, 3 and 8 where the code has larger constants and 2^32: small enough for a reset, an
  overflowing queue and a wrapped number to happen within `MaxPackets` = 9 packets, `MaxFlight` = 3 of them on their way, in any order. The numbers in
  flight span less than half of `NumMod`, as those of the program span less than 2^31. `Clock` is 50, far from 0
  because a dummy's timestamp is 0; the sender's is 40, 51 or 60: behind, ahead by the one frame that gives a skew of zero, and far ahead.
- *Voice sending.* `MaxFrames` = 2 frames meet an empty and a longer queue; two workers; two controlling threads; a microphone and a call's sink at 48000
  and a file at 44100, which differ in rate and frame size, so that each joining and leaving may reopen the device.
- *Calls.* `MaxCalls` = 2 between two hosts in either direction: each has a predecessor whose leftovers may disturb.
- *Peers.* Two hosts and three outgoing streams: with two streams current, one waits for its deletion. A queue of 1 to 2 frames starts, runs dry and
  overflows.
- *Updates.* A directory of two blocks that holds a directory, files of two, one and no chunks, and an entry that is neither; three faults, so that a
  retry fails too, and the third meets what is left of both.
- *Streams.* Every stream of up to 5 bytes of two values, in records cut anywhere, with chunks of 2 to 3 bytes and lists of 1 to 2 keys:
  three levels of lists. Of the chunks of one call none, one, two or all are taken (`Takes`), and the list of levels moves or not. Every range of a stream
  is read, by bytes and by records, with a chunk that nobody has. `Base` = 3 and `Half` = 16 keep the
  relation of 65521 to 2^16, with a base that sums of five bytes get round, so that the unsigned subtraction wraps. `HashCheck` stands for a chunk's hash, on which the place of a cut depends.
- *Scans.* A directory, which may also be found empty, of a file that fits its metadata and a small one that the index knows, and a bigger file; one fault. Four Scans
  and three items are enough for the thread to be at one item while others wait, are cancelled or are not made yet.
- *Index.* Two threads, two chunks, two temporary names, three records: a thread's file is replaced under it, and the log is cut with something in it. Symmetric in threads, chunks
  and names, which no property tells apart.
- *Windows.* Two messages one way and one the other, so that each side can close with something under way.
- *Contacts, downloads, searches, ports.* Two contacts in two rows, three commands, one restart; three downloads and two restarts, the
  least for a list that shrinks and grows over old slots; two servers and two searches, whose answers interleave; three external ports,
  of which two are wanted here, so that a search wraps and collides.

The theorems of section 4 drop these bounds for the modules they are about. **Deadlock** checking is off where users and networks owe nothing: reads, packets,
frames, calls and faults are bounded, so behaviours do end. That the system does not stop *early* is what the liveness properties say.

**Fairness.** `ChunkShare`: a reader's callback and each turn of a sweep return, replies are read, the remote half answers, and a
peer that is not connected is connected in the end, because the peer service retries every minute (`peer.cc:178`, `EveryFriendTended`);
`EveryReadAnswered` holds of behaviours in which streams stop breaking. `MCVoiceSending`: the callback returns, posted work runs, and a thread that ends a
session or waits for the mutex goes on whenever it can again and again (strong fairness, since the callback takes the mutex in
between). `CallSession`: sss delivers what is under way on a link that is up and its signals are handled. `UpdateAction`: questions
are answered, with data or without, and timers run out. `Scanner`: the thread works, the window's passes over its Scans go on, events are delivered, timers run
out. `ChatDialog`: the stream delivers or fails, and the event loop deletes what it was told to. In the two that act on trees the
fairness is written `<>[]enabled => []<><<A>>_v`, weak fairness with the condition spelled out, which is cheaper to check. Users,
links, capturing and faults owe nothing. Liveness is checked without symmetry.

## 4. Proofs

TLAPS checks these for every value of the constants that satisfies the module's named
assumption: any number of readers, peers, workers, streams, threads, hosts, chunks, files, frames, calls, contacts, downloads, searches and ports, and any tree of files and directories.

| theorem | says | argument |
|---|---|---|
| `ChunkShare_proofs!TypeCorrect` | `Spec => []TypeOK` | one step per action; `CheckPeers` and `DropPotential` have a lemma each |
| `ChunkShare_proofs!OneDownloader` | `Spec => []ExclusiveDownload` | inductive with `TypeOK`: `check_peers` starts only what no other peer has, connected or not |
| `ChunkShare_proofs!ChunkMessagesExpected` | `Spec => []NoUnexpectedChunk` | needs `ClosedStreamsEmpty`: a connection resets the current chunk, and without it an old message could survive that |
| `ChunkShare_proofs!PromiseImplemented` | `Spec => ImplementsReading`, if no reader re-reads within `got_data` | needs `ReadersMatchReads` and `SweepIsSound`, so that whoever is called has a read to answer and a swept request still exists |
| `ChunkShare_proofs!TableIsSound` | `Spec => []TableAgrees`, under all four faults | needs `NothingUnrequested` (whoever is at work on a chunk has a request for it), `CallsMatch` (the copy a callback loop walks over, and the request it will delete) and `ReadersPending`: the sweep and the callbacks leave the table half changed, and the parts say what is true until they are done |
| `ChunkShare_proofs!DownloadsAreWhole` | `DownloadSpec => []DownloadsWhole` | needs `DownloadHeld`, below |
| `ChunkShare_proofs!DownloadsCounted` | `DownloadSpec => []CountsTrue` | the same invariant: a file has counted at least the chunks that nobody waits for, so that it has counted all when its reading is done |
| `ChunkShare_proofs!DownloadErrorsRetried` | `DownloadSpec => []ErrorsRetried` | the same invariant; no handler leaves the status at an error without starting the timer |
| `JitterBuffer_proofs!TypeCorrect` | `Spec => []TypeOK`, with the bound on the queue | the queue after sorting and trimming |
| `JitterBuffer_proofs!TimelineIsKept` | `Spec => []TimelineKept`, whatever the network does and whatever the clocks | needs `OnTime`: as long as nothing is late, the number expected is the one after the newest, so that the signed difference is the true one and the dummies are as many as the packets missed |
| `JitterBuffer_proofs!PlaysInOrder` | `Spec => []PlayedInOrder`, likewise | needs `Playing`: which queued frames are in local time, that all of one timeline have the same skew, and that a packet gets into the queue in local time once; the sort and the trim are looked at frame by frame |
| `VoiceSending_proofs!ChainTypeCorrect`, `SentInOrder` | `Spec => []FramesInOrder` | needs `OneAtWork`, the strand's mutual exclusion over several steps, and `CapturesForChain`, no sound for a chain that is being freed |
| `AudioHardware_proofs!TypeCorrect`, `RemovedMeansUnused` | `Spec => []OnlyRegisteredTouched` | needs `TouchesUnderMutex` and `JoinsUnderMutex`: who touches a stream holds the mutex, so nobody removes one meanwhile |
| `AudioHardware_proofs!CapturedAsAsked` | what is captured fits the sources, if the sources ask for the most of the device | the settings of the device are the largest of what is asked for, as a maximum over a set that changes with every join |
| `AudioHardware_proofs!CallbackIsFit`, `HardwareIsServing` | `Spec => []CallbackFits`, `Spec => []HardwareServes`, for any number of threads | over `SInv` and `LInv`: what a thread inside `set_enabled` has still to do says how the registers, the flags and the device differ from each other; the first with `SourcesLead` (a call's microphone is the fastest stream) |
| `VoiceSending_proofs!HardwareInCall`, `ChainOnHardware` | both of the above, of the composition | every step of the composition is a step or a stutter of each part, so what is proved of a part holds of the whole |
| `VoiceSending_proofs!CallbackInCall`, `ServedInCall` | `CallbackFits` and `HardwareServes` of the composition, with its two controlling threads | the hypotheses of the two above hold of a call's hardware |
| `CallSession_proofs!TypeCorrect`, `SessionsWhole` | `Spec => []SessionWhole` | needs `HeardWhole`: handlers connected imply both streams of one call |
| `CallSession_proofs!ImplementsVoiceCall` | `Spec => KeepsPromise` | needs `Books`: hosts know only calls that were made and are theirs, a call still arriving is new to its callee, one that was ended is not taken up again, and every stop on its way has a cause |
| `VoiceService_proofs!PeersTypeCorrect`, `StreamsAreTheirHosts`, `FriendsAreTended` | `Spec => []OneStreamPerPeer`, `Spec => []EveryFriendTended` | each step of the voice service is one of the peer service or leaves it alone (`StepsOfPeers`); inductive together with `StreamsOwned` and `DoomedUsed`: a current stream is its host's and not on its way out |
| `VoiceService_proofs!FriendsAreHeard` | `Spec => []FriendsHeard` | needs that playback, its sources and the queues of the streams change together, over every signal a step of the peer service may cause |
| `VoiceService_proofs!TalkIsTold` | `Spec => []TalkTold` | with an `isConnected()` that may err and addresses that come again; each signal changes the streams, the sequence numbers and the column together, or makes a stream stray |
| `ChunkIndex_proofs!FilesOfEntries` | `Spec => []EntriesHaveFiles` | needs `ClaimsHold` and `TempsHold`: the table, the log and the threads take a file for one chunk only, and a temporary file is its thread's own until it is recorded. A thread that finds a file bad may then remove it without looking at other chunks' entries |
| `ChunkIndex_proofs!DurableTables` | `Spec => []ChunksAreDurable` | needs `LogHolds`: what would be read of the log, up to where it is sound, has all that the tables say, as long as nothing was written after a torn tag; the lemmas `SoundPrefix`, `TornEnd`, `LogMetaTold` say what is read of a log |
| `ChunkIndex_proofs!GoodEntriesKept` | `Spec => GoodEntriesStay` | the same invariant, with one step per action; a restart reads a log cut short at its end as the log before |
| `ChunkIndex_proofs!ScannerItems` | `Scan!Spec => []ItemsShared` | needs `ScannerHeld`, below |
| `ChunkIndex_proofs!ScannerReports` | `Scan!Spec => []ReportsTrue` | the same invariant; a directory's sums are over the same parts until it is deleted |
| `ContactModel_proofs!ContactsTypeCorrect` | `Spec => []TypeOK` of the contacts | needs what each thread has at hand: the row that an insertion has counted is at most one past the last |
| `ContactModel_proofs!WishesAreKept` | `Spec => []WishesKept` | needs `WishesHeld`: an identity that one thread alone has entered stands in one row of the list and of the settings, and while an operation has still to write, the list has what it will write. `SettingsUsed` says what `useSettings` gives back of such a list |
| `ContactModel_proofs!DownloadsSurvive` | `Saves!Spec => []DownloadsRemembered` | needs `DownloadsSound`: slots beyond the size, what the running Updates will still report, and that a slot's final text stays right when items move |
| `ContactModel_proofs!SearchShowsMatches` | `Search!Spec => []ResultsTrue` | needs that rows and ids are inverse to each other, an id without a row being marked by -1 |
| `ContactModel_proofs!SuccessMeansMapped` | `Upnp!Spec => []SuccessEarned` | needs `PortsInHand`: which requests are under way or were granted for the port in turn |
| `ContactModel_proofs!ConversationsAgree` | `Chat!Spec => []ConversationAgrees` | needs `ChatHeld`: what one has told is what the other has got followed by what is on the wire, or it was lost with the opener's stream, and the end of the stream is the last that is on it (`Flows`); only a linked dialog may be written in (`DialogSound`) |

The invariant of the scanner, `ScannerHeld`, is stated over the state that a handler passes on (`World`) and the thread's
job, since a handler of the window calls others and the invariant holds between the calls. One lemma per function of the window
says that it keeps it (`StatusHeld`, `ScanFileHeld`, `FileProgressHeld`, ...), one per action that the step does. Its parts:

- `ScansHeld`: only the Scan of a running file has an item, and that is its own, live and not cancelled; a timer runs only
  where there is something to start. Without it a late event could report a Scan that has ended (the assertions at
  `scan.cc:140`, `action.cc:16`).
- `ItemsHeld`: a live item is its Scan's, or is cancelled with the thread still to come to it; what the thread has before it is
  live, not done, and queued once. Without it neither side knows that the other has not freed the item.
- `WorkHeld`: the chunks that the thread has passed are in the index, and a coder that gave up has been cancelled or refused.
- `TruthHeld`: what Scans, finished items and the index's file information say of contents is so, because each is
  copied from another of the three.
- `SentHeld`: nothing is sent before all is scanned; what was dropped and is not yet started (`Waiting`) is as it was made, so that
  a Scan which ends at once does not make the others pass for done.

The invariant of the downloads, `DownloadHeld`, is also stated over the world that a handler passes on. It says which Updates are
being worked on and so may be out of order, which piece is at hand, which directories had a block that was not
found, and how many faults there were; between events (`DownloadNow`) nothing is excepted. It has a lemma per function
(`CheckHeld`, `ReportHeld`, `StartHeld`, `FileDataHeld`, `InsertedHeld`, `DirDataHeld`, ...) and one per action. Its parts:

- `FileSound`, `FileHeld`: a file at work waits for every chunk that is not written, and the chunks it does not wait for are no more than
  it has counted, though answers to an older reading count too; if it has counted any, the temporary file is open. That is
  what the assertion at `update.cc:163` relies on, and why a file that succeeds is whole.
- `ListHeld`: the parts are in order (`Ordered`), they include those of every block that no region waits for, and when the list is
  complete so are the parts. A block that comes twice does not disturb it, for the assertion on the order fails
  (`DirData`) before a record is inserted again.
- `SumsTold`: a directory that is not done shows the sums of what its parts show. It is excepted above the Update at work, until
  `Reported` has gone up (`ReportsPass`).
- `Counted`: a piece is asked for at most once more than there were faults, of which a running timer is about to take one. It bounds the
  regions.
- `Part`, `Unmade`: an Update is a part of the list of its directory or has not been made, so that inserting an
  entry never resets one at work.

The assumptions are `ChunkAssumption` (finitely many chunks, the local ones among
them), `JitterAssumption` (`MaxSkip` less than half the number space), `SendAssumption`,
`HardwareAssumption`, `CallHardware`, `CallAssumption`, `PeerAssumption`, `VoiceAssumption`, `IndexAssumption` (distinct threads and names),
`ContactAssumption`, `PortAssumption`, `DownloadAssumption`, `SearchAssumption` and `SayingAssumption` (typed constants),
`ScannerAssumption` (each file and directory has one place) and `UpdateAssumption` (a tree, whose blocks hold all entries); TLC evaluates them in the runs. Strengthenings were checked by TLC before they were proved.

Only model-checked:

- all liveness (`EveryReadAnswered`, `EveryFrameSent`, `DeviceCloses`, `FarEndTerminates`, `DownloadEnds`, `ScanEnds`, `ChatsClose`), since
  proofs under fairness need ENABLED, which the prover does not handle;
- `StreamCoded`, `RollingTrue`, `StreamRead` (OpaqueStream), which uses recursive operators for the levels of lists and what each level makes
  of the next; for the same reason the laws of `Checksum`.

What a recursive *function* computes can be reasoned about without the library's induction theorems: `StepByStep` and, in
`ContactModel_proofs`, `Recursion` say of a set, in place of an operator, that a definition by steps has a value and that what holds step by step holds
at the end. `PickedOneByOne` and `PickedAppend` get from them what `Picked` selects of a log that has grown by one entry, which
is all that `ConversationsAgree` needs of it; `TotalAdded`, `ReportsPass`, `StartsPass` and `GivesPass` say the same of the sums, reports, starts and answers
of a download.

## 5. Divergences

Here the code does something else than a comment or an assertion of it says. The models have the code's behaviour, and the
properties name the exception.

- `chunk_peer.cpp:265`: a reader that asks for a chunk again from inside its own `got_data` joins the request that is deleted right
  after the loop (273), and is never answered. `check_request` removes the request first "in case a reader immediately adds new
  ones"; `got_chunk_reply` does not. `ImplementsReading` is therefore checked without the fault `reread`, and proved on that condition.
- `jitterbuffer.cpp:65-66`: missed packets get dummies "between the last packet in the queue and newly inserted one"; a dummy's time is zero, so the sort (147)
  puts it at the head of the queue, before packets that came earlier. `TimelineKept` counts the frames only.
- `jitterbuffer.cpp:107`, `142`: a packet older than what was played is reported and then queued like any other, where the comment at 63
  says "simply drop it"; one that still fits is queued twice, once at the sender's time and once at ours, and replaces no dummy (64). Both
  set the expected number back (180). The properties name them (`late`).
- `jitterbuffer.cpp:155`: packets are to be played in "strictly sequential order". A reset (123, 193) zeroes the skew after it was
  estimated for this packet, which is queued at the sender's time, and an estimate of zero counts as none (90); with the sender's clock ahead such a frame stays behind
  all that follow. The properties name these too (`raw`).
- `voice.cc:95`, `151`: assertions that frames go to connected streams which have their sequence numbers. A friend who is deleted while the user
  talks to him leaves his freed stream in `sending`, as does an `isConnected()` that errs; a new stream at that address then gets
  its frames. `TalkTold` names such streams (`stray`).
- `ContactModel.cpp:151`: "find in peers entry with peer id "peer" and update its profile"; the row is searched in a copy of the list (157), and the
  user's thread may remove a row before the write, so that the profile gets into another row. The model reaches it.
- `index.cc:345`: asserts that the chunk has no entry yet; the mutex was released since `readMetaChunk` looked, and another thread may have
  recorded it. The model reaches it and goes on (`WriteTemp`), as a build without assertions does.
- `index.cc:165-168`: a tag that a crash cut short is taken for the end of the file and left there; the next record is written after it, and the start after that
  finds a corrupt log and clears the whole index. `ChunksAreDurable` names it (`WritesAfterTornTag`).
- `scan.cc`: a Scan of an empty directory never ends, since only entries report to it. `ScanEnds` names it.
- `packet_sink.cpp:36`: a call of `send_packets` that finds the stream disconnected returns; the packetizer notifies only when its
  queue was empty, so nothing is sent any more, also when the link is back. `EveryFrameSent` excepts it (`missed`).
- `audio_hardware.cpp:350`: `close_audio` waits for the callback with the mutex held that the callback waits for (184, 215). `DeviceCloses`
  excepts it (`Stuck`), and holds otherwise.
- `audio_service.cpp:256`: two users who call each other at once, or a second call while there is one, fail `assert(!data_stream_)`.
- `action.cc:62`: the retry timer starts an action that has reached its end meanwhile (`update.cc:237` starts the timer, 286 then finishes the
  directory), and the status it sets fails the assertion at 16.
- `opaque.cc:394`, `584`: a refused last chunk (the Scan was cancelled, `scan.cc:381`, or a chunk of keys was not written, 393) fails the assertion that
  flushing has left nothing; `finish` does not look at the result of `doChunk`, and without assertions would give an info of a stream of which a chunk is missing.
- `opaque.cc:498`, `605`: assertions that the composed checksum is that of the stream. `adler32.cc:40`, `41` subtract in unsigned words, so when
  the first sum's lower half is zero the result may be wrong by 2^32 modulo 65521. `StopsNamed` says that they fail only then.
- `opaque.cc:523`, `594`: a reference into the list of levels is used (549-553, 620-622) after the recursive call may have moved the list.
  The model stops there (`dangling`).
- `opaque.cc:800-803`: chunks are asked for after all regions were added, or synchronous answers would "confuse us into thinking we're done
  prematurely"; but a chunk that comes twice in a list is asked for twice (804),
  and when the local stores have it the second answer finds no region and calls `readDone` again (899). `DoneOnce` says when. The downloads bear it: a file
  that is not running ignores it, a directory checks once more.
- `opaque.cc:101`: an empty stream fails the assertion that something was written; an empty file that is scanned comes here.
- `save.cc:131`: a slot's final text is never taken away, so an unfinished download that moves into the slot of a finished one counts
  as finished after a restart. `DownloadsRemembered` says the rest of users who remove nothing (`tidied`).
- `opaque.h:213`: each chunk "begins on a record boundary" except within records of more than `maxChunkSize` bytes; a record of exactly
  that size is cut too (`ChunksStartRecords` says "at least").
- `opaque.h:314`: `readRecords` reads "all chunks comprising a particular range"; chunks that continue a record begin none, and are
  not read. `DoneMeansAll` is about the beginnings of records.

## 6. Observations

Met while modelling. What is within a model's reach is there as the code has it; no document promises otherwise.

Chunk sharing:

- `chunk_peer.cpp:232`: a reply for a chunk nobody wants any more returns before it clears
  `current_`; the peer counts as busy until it connects again, and takes no work.
- `chunk_peer.cpp:247`: a download that fails drops the source but does not call `check_peers`, so a
  second source that has the chunk starts only when something else calls it.
- `chunk_share.cpp:64`: a request made while no peer is connected is not answered with `no_data` at
  once; it waits for a connection.
- `chunk_peer.cpp:208`: a peer whose answer was "unknown" and that says "online" later gets a wish but
  does not return to the potential sources.
- `chunk_protocol.h:45`: readers are raw pointers; one destroyed before its answer is called all the same.

Voice:

- `opus_encode_sink.cpp:47`: hanging up destroys the encoder on the window's thread while a worker may be in it, and
  `audio_service.cpp:61`: a posted `send_packets` refers to a chain that `end_session` may have freed. Both are in `ruined`.
- `rtaudio_sink.cpp:27`: a second sink that registers while the device plays is pulled before its decoder exists
  (`opus_decode_sink.h:16`). The decoder also asserts a full frame where corrupt data gives an error.
- `audio_hardware.cpp:93` with `rtaudio_source.cpp:35`: `is_enabled` is read without a lock, so two threads that end one session
  both remove its stream, and the second fails the assertion; two threads that both reopen the device make RtAudio throw. Both are in `failed`, and
  `HardwareServes` says that they need an overlap.
- `rtaudio_source.cpp:31` with `opus_decode_sink.h:16`: while two threads overlap, one may reopen the device for a sink whose chain the other has still to enable.
- `audio_hardware.cpp:328`: RtAudio may open with another frame size than asked; `capture` then meets `assert(false)` at 208
  (`OtherFrames`, empty in the run).
- `peer.cc:215`, `peer.h:17`: the `linkDown` of a stream that is on its way out, with the timer off, connects a friend again that was removed.
- `peer.cc:82`: `isConnected()` "may return true erroneously", and `voice.cc:38`, `225` rely on it: frames then go to a link that is down, and the column
  says so of a friend who cannot hear. The model lets it err.
- `main.cc:336`: `startTalk` ignores the first friend of the list (`row <= 0`).

Updates, streams, scans:

- A directory of which a block was not found says "Download Successful (0 bytes)".
- `file.cc:195`: blocks that repeat record numbers fail the order's assertion.
- `scan.cc:335-341`: an orphan item whose file cannot be opened is freed by nobody. `ItemsOwned` excepts it.
- `scan.cc:36`: a shadowed path; `scan.cc:368`: `item` is used before it is tested for NULL; errors
  are counted nowhere (`nerrors`); a file of which the index has refused a chunk other than the last is reported as scanned.
- `share.cc`: creating a shared file inserts it twice, and a child opened before its parent is never found in it. No program uses it.

Index and stores:

- `index.cc:112`: a corrupt index is created anew while `infohash` keeps what was read.
- `arch.cc:89`: the default size expected is -1; the constructor's `readChunk(0)` fails the assertion at 104. No program makes an Archive.
- `store.cc:54`: connects to a signal `relayFound`, where `store.h:97` has `relayDone`.

Windows:

- `chat.cc:302`: files whose scan ends after the window was closed fail the assertion on what the stream took; `chat.cc:123`: when both windows are closed at once, what is
  under way is lost; Escape hides a dialog without closing its stream; accepted streams are never freed; two dialogs with
  one partner write to one history file. `main.cc:619`, `623`: the ChatServer and `SaveDialog::init` are commented out.
- `save.cc:237`: an item read from the settings that is done at once uses `dlg`, which is set only after the dialog's constructor.
- `search.cc:139`: an id found while no server is registered keeps row -1 and is never looked up again.

Contacts and ports:

- `ContactModel.cpp:175`: both threads may enter the same contact (`doubled`). Peers found, profiles, and rows inserted or removed are not written to the settings; views are not told of rows. A contact that was removed
  returns with the next search that finds it.
- `traverse_nat.cpp:107-115`: a port just mapped is not entered in `used_ports`; an external port that leads to another of our ports, or a mapping for
  TCP alone, counts as good; of an asynchronous library the callback for TCP is enough; the search does not end when all ports are used; a request that is refused aborts the program (129); late
  callbacks write to locals of a function that has returned, and race with it.

## 7. Not modelled

- *Windows, dialogs, painting*: user interface without protocol state. The commands on the list of friends are in VoiceService.
- *Chunk encryption*: a call of a cipher library.
- *Demos, playground*: experiments that are not part of the programs.
- *Submodules* (`sss`, `uia`, `arsenal`, ...): empty directories at this commit. Streams, links, datagrams and
  registration are modelled from how `src/` uses them.
- *Qt chunk sharing*: only `chunk.h` is left of it; the protocol is modelled in its newer form.
- *File sharing* (`share.cc`) and *Archive* (`arch.cc`): used by no program of the tree. `Store` hands requests on and has no state.
- *File sync service*: accepts connections and lists directories, and keeps no state between calls.
- *Choice of sound devices* (`audio.cc`): the classes it opens and mixes into are not in the tree. *Stream graph*: enabling is modelled; setters of
  rates and sizes and `file_read_sink`, which nothing uses, are not.
- *Parsing*: XDR decoding and its early returns for malformed messages; peers run the same code.
- *Destruction of readers and peers*: nothing in the tree destroys one while requests are open.
- *Data races* finer than an operation on a list (ContactModel), and callbacks of the port mapper after its return.

## 8. Plan

- OpaqueStream over recursive functions in place of recursive operators, so that its three invariants can be proved.
- The composition of UpdateAction with ChunkReading in place of its own answers, and of ChunkShare with the peer service's
  connections in place of its fairness.
- The ports of the stream graph that no program uses yet, when one does.
