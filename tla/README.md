# Bada-spotify in TLA+

Specifications of [Bada-spotify](../src/README): libdespotify (a Spotify client library in C), libposix (pthreads and
semaphores for Samsung Bada) and the small Bada application that plays one playlist with them. The modules are
translated from the source; `PROJECT.json` names, for every definition, the lines it models.

## The system

Three threads of the application share one `despotify_session`:

- **A**, the application thread (`Form1.cpp`, any caller of `despotify.h`): logs in, asks for playlists, searches,
  images; calls play, next and stop.
- **N**, the network thread (`despotify_thread`): reads one packet at a time and runs the handler and, for packets of
  a channel, the callback of the request.
- **D**, the decoder thread (`spotify.cpp`): calls `despotify_get_pcm` over and over, asks for more data when the
  queue runs low and hands PCM to the audio device.

The main thread **M** of the application runs the callbacks of the device and the timer.

| Component | State | Operations | Talks to | What is hard |
|---|---|---|---|---|
| Channel registry (`channel.c`) | `head` list, `next_channel_id`; per channel id, state, counters | `channel_register`, `channel_unregister`, `channel_by_id`, `channel_process` | called by every request (A, D, N) and by `handle_packet` (N) | ids reused while packets are on their way; a callback that registers a channel while its own is ending; the list has no lock; ids are cut to 16 bits, and nothing keeps them below |
| Request functions (`commands.c`) | none | one per kind of request: register a channel, build a packet, `packet_write` | channel registry, packet framing | a failing write leaves the channel behind, but for `cmd_getsubstreams` |
| Packet dispatch (`handlers.c`) | user info, login condition | `handle_packet` and one handler per command | channels, login, sound queue (through callbacks) | an answer nobody waits for |
| Packet framing (`packet.c`, `shn.c`) | cipher states, send and receive IV | `packet_read`, `packet_write` | socket | three threads write with one IV and no lock |
| Sound queue (`sndqueue.c`) | fifo of START, DATA, END buffers, `totbytes`, `dlstate`, `dlabort`, `ready`, `vf` | `snd_ioctl` (N), `snd_ov_read_callback`, `snd_get_pcm`, `snd_fill_fifo`, `snd_stop`, `snd_next` (D, A) | playback callbacks, libvorbis, the client's callback | only the fifo has a lock; a condition waited for under an `if`; signals after the unlock; busy waits on the other thread's progress |
| Playback callbacks (`despotify.c`) | `track`, `offset`, AES key and IV | `despotify_aes_callback`, `despotify_substream_callback`, `despotify_snd_read_stream`, `despotify_play`, `_next`, `_stop` | channels, sound queue | the next track's key while the queue still plays this one; requests that fail |
| Request/response API (`despotify.c`) | `response`, `playlist`, `sync_cond` | search, playlists, browse, image: send, wait, parse | channels (callbacks on N) | an answer before the wait; a timeout racing a late answer; a deadline that is ignored on Bada |
| Playlists and cache (`despotify.c`, `cache.c`) | `use_cache`, files, stored revision | `despotify_get_stored_playlists`, `despotify_get_playlist`, `cache_*` | request/response API | stale cache after a partial failure |
| Track lists (`despotify_load_tracks`, `xml.c`) | linked lists of tracks | load meta data in batches, match answers, copy duplicates | request/response API, cache | a loop that may not advance; redirected ids; a count kept by two functions |
| Login and session (`session.c`, `auth.c`, `keyexchange.c`) | socket, keys, user info | connect, key exchange, authenticate, disconnect, free | network, dispatch (WELCOME) | WELCOME before the wait; teardown under running threads |
| pthreads on Bada (`libposix/pthread.cpp`) | an Osp Mutex and an `acquired` flag; an Osp Monitor | lock, trylock, unlock, wait, timedwait, signal, broadcast | Osp kernel objects | the gap between release and wait; two objects taken in different orders |
| Semaphores on Bada (`libposix/semaphore.cpp`) | a count, a mutex, an Osp semaphore | init, post, wait, trywait, getvalue | Osp kernel objects | the count and the Osp object drift apart |
| Audio output (`spotify.cpp`) | `buffered`, `prefilled`, `writeBuffer` | `tick` (D), `OnAudioOutBufferEndReached`, `OnTimerExpired`, `OnAppTerminating` (M) | sound queue, AudioOut | a notification between the check and the wait |
| Service lookup and sockets (`dns.c`, `bada_network.cpp`) | `asyncDnsResult`, a Monitor | look up (a `DnsThread` and its listener), connect, close | Osp net objects, login | the listener notifies a monitor that nobody may wait on yet |
| Links (`despotify.c`) | none | ids to base 62 and back, write a uri, take it apart, ask for what it names | request/response API | a division in place; a buffer of 64 bytes |
| Pure code (`xml.c`, `ezxml.c`, `buf.c`, `util.c`, `aes.c`, `sha1.c`, `hmac.c`, `puzzle.c`) | none | parsing, hashing, conversion | | boundaries |

What makes each of the modelled components correct is stated with its module below; what makes the others correct is
listed in the plan.

## The modules

### ChannelPackets, ChannelPipes, Channels, ChannelsProofs

`Channels` models the registry, the dispatch of channel packets and the channel side of the requests over one ordered
connection. A step is one call: `Ask` is a request function (register, write the id into the packet, send), `AskLeaks`
and `AskUndone` are its two failing forms, `HandlePacket` is one `handle_packet` with everything `channel_process` or
a key handler does. `HandleEndAndAskKey` is the nested case: `despotify_substream_callback` registers the key request
of the next track from inside `channel_process`, before the ending channel is unregistered. `id[r]` and `state[r]` are
the fields of r's channel; the list itself is a function because a lookup takes the first entry with an id and the
invariant `IdsDistinct` says that there is only one. A callback that meets a packet its state does not expect is the
state `"garbled"`.

The server (`Say`, with the phases of `ChannelPackets`) is external: it answers the requests in any interleaving, with
any number of header and data packets up to `MaxSaid`, and may cut any answer short with an error.

`ChannelPipes` is the abstract promise: each request has its own ordered pipe. `ImplementsPipes` says that ids, list
and shared connection are not observable.

Properties: `RightChannel` (a reused id never hands a late packet to the wrong callback), `OnlyFailedWritesLeak`
(every path of an answer takes its channel out of the list), `NoDrift` (until three channels overlap, only the ids 0
and 1 are used) and `ImplementsPipes`. `IdsDistinct` and `NeverGarbled` (the assertions of `channel_process` hold) are
what the others rest on and are proved below.

An id is an int in the list and 16 bits in a packet (`WireId`), and nothing in the code keeps it below that end. With
three channels overlapping the ids drift: while the channel 4 is registered and the counter is at 0, two requests get
0 and 5; 0 is freed, then 4, and the channel 5 is left with the counter at 0. Round by round a plain sequence of
requests so gets past 65535, where an answer is handed to another channel or to none. The model does the same at
`IdSpace`. `Fits` says that no id has got there, and once false stays so, since the channel it is about never gets its
answer; `RightChannel`, `NeverGarbled`, `OnlyFailedWritesLeak` and `ImplementsPipes` hold as long as it is true.
`NoDrift` is what can be said against the drift: fewer than three channels at once cannot cause it.

Run `channels`: one metadata, one substream and two key requests, two packets per phase, two packets on the wire: an
id is freed, reused and moved past while answers of the others are on their way, and the nested registration happens.
`IdSpace` (65536 in the code) is 3, so that the ids of four requests do get past the end of what a packet can tell
apart. The two key requests are symmetric. Deadlock is not checked: the requests end. No fairness is needed: all
properties are about safety.

Proved in `ChannelsProofs`, for every set of requests and every bound: type correctness, `IdsDistinct`,
`RightChannel`, `NeverGarbled`, `OnlyFailedWritesLeak`, `NoDrift` (as `IdsDoNotDrift`) and the refinement. The
invariant `IInv` adds to the properties what relates the two ends of the connection: what the server may still say in
a phase is what the state of the channel accepts after the packets that are on their way (`Expected`), a packet on its
way carries the id its request was given (`Addressed`), and a closing packet is the last one of its request
(`ClosingIsLast`). `Stamped` ties the number of a packet to the place it has in its pipe, which is what the step of a
delivery needs to map to `Deliver`.

### ChannelList, ChannelListProofs

`Channels` takes each call on the registry for one step. In the code nothing of it is locked, and `ChannelList` models
`channel_register`, `channel_unregister` and `channel_by_id` one access at a time, with three threads inside at once:
A and D register channels, D takes one back whose request could not be written, N looks up the channel of a packet,
registers the next key's from its callback, and unregisters. A channel is a cell of memory; `malloc` may hand out a
freed one again. Overlaps can break the list, and the module says which: one thread writes `head` while another has
read it and is about to write it (`AtHead`), unlinks a channel while another looks for its predecessor (`Cutting`),
writes the counter while another has an id that is not linked yet, or no longer (`UsesCounter`), or frees a channel
while another is on its way through the list (`Walks`). `raced` records the first of these; what follows it is not
followed. Each of the four is needed: without any one of them a property below fails. So this is what a lock, or an
order of calls, would have to exclude, and nothing more.

Properties, all until a race: `ListIsWhole` (the list runs through the registered channels and nothing else, with any
number of threads inside), `IdsStayDistinct` (also with the next id, while nobody is inside the counter),
`LookupFinds` (N finds the channel of its packet while others register, scan and are half-way through unlinking) and
`NoFreedNode` (no freed channel is used, and the assertion of `channel_unregister` holds).

Run `channellist`: three cells of memory and four ids: the head, a channel in the middle and the last one, each with a
thread at it, and a cell that is freed and handed out again. The cells are symmetric. Deadlock is not checked: no id
is left to hand out at the end. A `malloc` that fails is not modelled; nor is the compiler or the processor, which may
reorder what is not locked.

Proved in `ChannelListProofs`, for any finite memory and any number of ids: type correctness and the four properties.
That memory is finite is an assumption of the module; the least-number argument that makes `Reached` the nodes of the
list needs it. The inductive invariant is `IInv`: the types, and `Sound` until a race. `Leads(l, p, S)` says that the
links l lead from p through the nodes of S, each once, to the end; the list is whole when the links lead so from
`head` through `members` (`Whole`), and lemmas say what a step along the way, a node pushed in front of it, a node cut
out of it and a link changed off it do to it. The rest is what each thread inside the list relies on, also when it
stands on a node that has been unlinked meanwhile: that the channel a thread unregisters is at the head, behind its
pointer or ahead of it (`Heads`, `Cuts`, `Finds`), that every registered id which the counter has not passed is ahead
of a thread that scans (`Ahead`, `Above`), that the channel of N's packet is ahead of N and the only one there with
its id (`Looks`). Ids are new because one thread registers at a time (`OneRegisters`) and what it has taken is nobody
else's (`Taken`, `NewIds`), and stay distinct because an id is given back only when no registered channel has it
(`GivenBack`, `NextIsFree`).

### PosixCond, BadaCond, OspProofs

`BadaCond` models `libposix/pthread.cpp` with every call on the Osp Mutex and the Osp Monitor as a step of its own.
`pc[t]` is the next call of thread t. `PosixCond` is what the callers expect of a mutex and a condition variable:
unlock-and-wait is one step, a signal wakes a waiter if there is one. `ImplementsPosix` maps a thread that is about to
call `Monitor::Wait`, with the monitor entered, to one that is waiting already.

Properties: `NotifiedReturns` and `ImplementsPosix` (which holds because nobody notifies between a waiter's release of
the mutex and its Wait: `NoSignalInTheGap`, proved; and because a flag that says the mutex is free, `acquired`, is
never trusted without the mutex itself: `MutexMatchesCaller`, proved). A trylock that fails because the flag is still
set although the mutex is free is a stutter: `PosixCond` has no trylock, so this half of what the flag can do wrong is
not covered. The emulation is right as long as the callers
keep to the discipline the module states (unlock and wait only by the holder). That discipline does not include a
check before waiting, which is where the callers go wrong (see `SndQueue`).

Run `pthread`: three threads, so that a waiter, a signaller and a third thread that takes the mutex meet. No bound:
the state space is finite. Deadlock is not checked: threads may all be waiting with nobody left to signal, which is
legal. Fairness: weak for steps that cannot block, strong for taking a kernel object and for leaving a critical
section (the critical sections of the library are finite and kernel objects do not starve a thread).

Proved in `OspProofs`, with the other user of the Osp mutex and monitor, `AudioOut`, for every set of threads: type
correctness, `MutexMatchesCaller`, `NoSignalInTheGap` and the refinement. The invariant adds that the holder of the
monitor is the one thread whose `pc` lies between Enter and Exit (`MonitorMatches`) and that a waiter in the wait set
is blocked.

### SndQueue, SndQueueProofs

`SndQueue` models one `despotify_play` of a list: N runs the key and substream callbacks and `snd_ioctl`, D runs
`snd_get_pcm` and, inside libvorbis, `snd_ov_read_callback`. The fifo is a sequence; `lock` is `fifo->lock`;
`dlstate`, `dlabort`, `ready`, `vf`, `track` and `offset` are shared without a lock and every access that another
thread could notice is a step of its own: the end of a track is `SubstreamEnd` (which reads `track`), `AdvanceTrack`
(which writes it), `EndIoctl` (which writes `dlstate`) and `OfferEnd` (which reads `dlabort`), and `snd_stop` begins
with `StopLook` and `StopAbort`. `npc` and `dpc` are the places in the two threads. `snd_fill_fifo` is `FillFifo` (the
look at `dlabort`), `Choose` (the switch), `SayBusy` and `SendRequest`. Sizes are counted in units; a channel packet
is `PacketLen` units, a substream `Substream` packets. Faults (a refused or unsent request) are bounded by
`MaxFaults`. `play_as_list` is either; without it the callbacks go on to the next track as well, but nobody asks for
its key. The do-loop that skips unplayable tracks is one step (`NextTrack`); that it reads `ds->track` again in each
round is left out. libvorbis is external: in an open or a read it calls the read callback once or more (`Return`),
takes 0 bytes for the end of the file and finds a header only at the start of a track. What it keeps in its own
buffers between two reads is left out, so each read calls at least once, where libvorbis may also decode from what it
has. A failing `ov_open_callbacks` trips the application's assertion, and a request without a track follows a null
pointer: `dpc` is `"dead"`. So is `npc` when an END is queued right behind a START (`PushNull`): `snd_ioctl` then
looks for the first page in the null `ptr` of the END. In `snd_stop` D frees the decoder whose read callback it is in;
libvorbis may go on with it or fall over (`UseFreed`).

Properties: `ByteCountIsExact`, `OneFetchAtATime` (although `dlstate` has no lock), `RightKey` (the data of a track
whose key was asked for and sent is decrypted with it), `QueueIsGapless` (two neighbours in the queue follow each
other in the list, across substreams and tracks; it is about what is in the queue at once, and says nothing of what an
early end frees or drops, or of what was taken off before) and `FetchEnds`, qualified by the fault it does not
survive: when a substream request fails, `dlstate` stays at `DL_FILLING_BUSY`. Three are about the end of the
playlist, which the code recognises by an END with nothing queued behind it:

- `EarlyOnlyIfDue`: the END of a track that is not the last is taken for the end of the playlist (a comment in
  `despotify.h:232` promises that it is not) only while the START of the next one is due: its key is being asked for,
  is on its way, was refused or, without `play_as_list`, is never asked for. `early` records that it happened.
- `NullOnlyIfEarly`: a null pointer is followed, by a substream that is asked for without a track or by an END right
  behind a START, only after such an early end, whose `snd_stop` puts `DL_DRAINING` in the place of the end of the
  list, drops the last END, or drops all the data of the last track but not its END. `snd_stop` sets `DL_DRAINING` so
  that nothing more is asked for, as its comment says, but in that state a queue that runs low is filled.
- `LastEndIsTaken`: the last END is taken off the queue, and so END_OF_PLAYLIST reported, unless what is left is too
  little for `snd_get_pcm` to open the decoder (4096 bytes) or to begin (128 KB), which it stays for ever (`Starved`).

Run `sndqueue`: tracks of 5, 4 and 1 packets with 2 packets per substream: a track that ends in a short substream, one
that needs an empty substream to end, and one that ends at once. Watermark, prefill and maximum are set so that the
queue runs low, fills up and is cut off in each of them; two faults let a lost key and a lost stream meet. Deadlock is
not checked, since the player does stop. Fairness: both threads are scheduled and the server answers, but it need not
fail, nor libvorbis.

Run `eof` (`ZeroBytesMeansEof`) shows what a comment of the source says and the code does not do, with no request
failing: the read callback can return 0 bytes in the middle of a track. The signal comes after the unlock, the wait is
under an `if`: a late signal wakes D with nothing queued.

Proved in `SndQueueProofs`, for every list, every size of packets, pages, substreams and of the queue and any number
of failed requests: type correctness, `OneFetchAtATime` and `RightKey`. The types rest on what D has used up being
data of the first buffer (`Consumed`) and on N offering packets whole, so that only `Push` cuts (`WholePackets`).
`Fetch` makes the second inductive: a substream is pending or coming to its end (`Ending`) only while `dlstate` is
`DL_FILLING_BUSY` and D is not about to ask (`Asking`); after the last track, where `SND_CMD_END` overwrites `dlstate`
in the middle, there is no track left to ask for. `RightKey` follows from an invariant about the requests, `Keyed`:
whatever is pending is for the current track, a substream is the last of it, and outside the end of a track its key is
set up, pending, lost or was never to be asked for; so a substream is answered only when it is the only request
(`StreamIsAlone`), and with its key.

`QueueIsGapless` says what the queue holds now, and is inductive only together with where its ends are: `Order` (an
END is followed by a START, the START of the track that is fetched now comes after its key, what N offers belongs
behind the last packet of that track), `Pushed` (what has been pushed of the packet that N offers) and `InOrder` (the
queue as neighbours that follow each other, `Follow`, from what is taken to what comes next). `EarlyOnlyIfDue` needs
to know of an empty place behind an END that the START is on its way: `Coming`, with the state of its key, which
`Aborting` keeps through the `snd_stop` of D. For `NullOnlyIfEarly`, `Listed` says which places hold a track, `Over`
what the end of the list leaves in `dlstate` and in the queue, and `Stopping` that only an early end takes both away.
The sum of the queue is a recursive function; that `Append` adds to it, `Tail` takes from it and two functions that
satisfy its equations agree is induction over the queue, in the form that the prover takes: a set of numbers that is
not empty has a least one (`LeastNumber`, `Induction`). With that, `Counted` gives `ByteCountIsExact`.

### Player, PlayerProofs

`Player` adds the application thread A to `SndQueue`: `despotify_play`, `despotify_next` and `despotify_stop` with
`snd_stop` and `snd_next`, at any time and in any order, while N and D are at work. `apc` is A's next step; the steps
of N and D are those of `SndQueue` (`Other`) and two that they make only with A at work: D sleeps in `snd_fill_fifo`
while A aborts (`FillWait`), and a key or an end that finds no track follows a null pointer on N (`NetworkDies`).
`used` is the last packet libvorbis has taken since A emptied the queue, for the open or for a read; `early` starts
over there too. `despotify_next` reads `ds->track` (`ReadTrack`) and writes it (`Advance`) in two steps, as N does.

None of the calls waits for D, takes back a key that was asked for, or tells an answer of the former playback from one
of the new. `disturbed` records that a call met the others at work, and what follows is not followed:

- `Clear` (in `snd_stop`) or `Restart` (in `snd_next`) while D is in libvorbis or about to enter it (`Decoding`): the
  decoder it uses is freed. If D waits for data there it waits on, for data that only D itself would ask for.
- `Clear` or `Look` while an answer is still to come, N handles a packet, or D is on its way to ask for a substream
  (`Fetching`): the late packet is queued in the new playback, or with the new key. `Look` finds no next track and
  leaves all of the former playback in place.

Each of the places in `Decoding` and `Fetching` is needed: leaving one out breaks `PlayIsClean` or `PlayBegins`.

Properties: `PlayIsClean` (after a call that was not disturbed, what is queued and taken is the track it was called
for from its first packet, without a gap, under its own key; only after an early end one whole track may be missing,
which N fetched while D's own `snd_stop` was dropping what came: `FollowsUsed`), `PlayBegins` (see below),
`CallsReturn` (every call comes back, and so does D's own `snd_stop` with A in another one: neither waits for ever for
a download that the other has aborted) and `ByteCountIsExact`, which `snd_next` keeps up too.

`PlayBegins` says that the decoding of the track that was played begins: `ready` is set with a packet of that track
taken. Two things in the code keep it from that, and the property says exactly when. Too little is left (`Starved`):
the open takes a packet at least, and when what is queued behind it stays below the prefill (`sndqueue.c:498`) nothing
is ever decoded; a track as short as that is not heard, nor is one whose all that was fetched went into the open
(`Exhausted`: an empty queue asks for nothing, or the list is queued to its end). Or D waits inside libvorbis for data
that only D itself would ask for (`Parched`, `sndqueue.c:323`): the next substream is asked for by `snd_fill_fifo`,
before the read and after it, and when the callback empties the queue in between with nothing on its way, D sleeps
until A calls.

Run `player`: two calls after the first `despotify_play`, tracks of two packets and one, each ended by an empty
substream, packets of one unit, a prefill of more than one packet. No request of N and D fails (`sndqueue` has that),
A's own may; the list is played as a list. That is enough for every call to meet a queue that is empty, that holds one
track or both, and that the other call has just emptied, and for D's `snd_stop` to overlap with A's. Fairness: all
three threads are scheduled, A within its calls, and the server answers. The START buffer that `snd_next` hands to the
client after the unlock, and that D may have freed by then, is memory lifetime and not modelled.

Proved in `PlayerProofs`, on top of the lemmas of `SndQueueProofs`, for every list, every size and any number of
calls: type correctness, `ByteCountIsExact` and `PlayIsClean`. `snd_next` is the case where the count needs more than
`Append` and `Tail`: that the sum of a suffix is the sum less that of what is before it is one more induction over the
queue (`SumSuffix`, `KeptBytes`).

`PlayIsClean` says what the queue holds when A is out of its calls; the inductive invariant `IInv` says, until a call
is disturbed or a request lost, what A can rely on where it is (`Stage`). Out of a call, or in `snd_next`, the three
threads are either at rest (`Resting`: nothing queued, nothing on its way, and D, which may still be in libvorbis, has
taken nothing) or at play (`Playing`). From the queue being emptied to the key being asked for they are at rest, with
nothing taken, the abort ended and the offset at 0: that is what makes the request of the key the start of a clean
playback, `PlaybackBegins`. On the way from the call to the emptying of the queue nothing is relied on.

`Playing` is the invariant of `SndQueue` and what connects the queue with what was taken: the first of the queue, or
what N brings next if there is nothing queued, goes on where D has stopped (`Hearing`). Between them a track may have
to begin, `Begins`, and an early end leaves room for one missing track. That it is never more than one is `Halting`:
through all of D's own `snd_stop`, after an early end, N is no further than the track that was due or the one behind
it, because the abort keeps D from asking for more and N from going on. Dropping that queue (`ClearPlays`), or what is
before its next START (`SkipPlays`), so leaves `Hearing` true. When N has followed a null pointer nothing moves any
more, and the invariant is what the properties say of that state (`Frozen`).

### AudioOut, OspProofs

`AudioOut` models `spotify.cpp`: `dpc` is the decoder thread D in `tick`, `mpc` the main thread M in
`OnAudioOutBufferEndReached`, `OnTimerExpired` and `OnAppTerminating`. `aobMutex` is held by D between its look at
`buffered` and the end of `tick`, which includes the decoding; `aobMonitor` is entered by D only, so a notification
wakes D if it waits and is lost otherwise. The device is external: `queued` buffers are in it, `reports` have been
played and their end not yet handled. The size of `writeBuffer` is counted in reads. A decoding error, or PCM of
another format, ends the application in an `AppAssert` (`FillAsserts`; until then it is `Alive`).

Properties: `BuffersAccounted` (the two flags count the buffers of the device, although the timer reads them without
the mutex and the device runs on its own), `StopLosesNothing` (the handler stops the device only when it is empty),
`DecoderReturns`, `HandlerReturns` and `TerminationEnds`. The auxiliary variable `missed` records a notification that
came after D had read what it depends on and before it waited; `DecoderReturns` and `TerminationEnds` are qualified by
it, because the code does lose such a notification. `HandlerReturns` and `TerminationEnds` are qualified by `dry`,
since at the end of the playlist D asks for data for ever under the mutex, and by `Alive`. A failing `WriteBuffer`
(`faults`) stops the device behind the flags' back, so the account holds only without one.

Run `audio`: two reads fill the buffer (one of them the first, so that a full and a half full buffer both meet the
callback), up to two failing writes, an end of the playlist and a termination at any time. The flags and the device
are finite, so there is no other bound. Deadlock is not checked: the application ends. Fairness: both threads are
scheduled and the device plays while it is started; a thread that keeps asking for the mutex gets it, since D gives it
back after every read.

D can start its wait for the end of a buffer after that end was handled (`missed`). It then sleeps until the other
buffer has been played too, and the audio is interrupted.

Proved in `OspProofs`, for every size of the buffer and any number of failed writes: type correctness,
`BuffersAccounted` and `StopLosesNothing`. The account alone is not inductive: the invariant adds that D holds the
mutex while it fills and that it fills only with `buffered` down (`MutexHeld`), that the handler runs for a report
(`Reported`), and that the second buffer is never there without the first (`FirstBeforeSecond`).

### Request, RequestProofs

`Request` models what the calls of `despotify.c` have in common: A allocates `ds->response`, sends a request, waits on
`sync_cond`, parses the response and frees it; N runs `despotify_plain_callback` or `despotify_gzip_callback` on the
packets of any open channel and appends to whatever `ds->response` points to at that moment. Call 0 is the login
(`despotify_authenticate` and WELCOME). `apc` is A's next step; `content[c]` is the buffer that call c allocated, byte
by byte as pairs of a call and a position, `got[c]` what c parsed. The kinds of calls differ in the callback, the tag
a playlist's response starts with, and what a failing write does. The channel layer is that of `ChannelPipes`, the
mutex and condition variable those of `PosixCond`, so unlock-and-wait and signal are one step each. `deadline` is the
platform: POSIX ends a timed wait, libposix does not.

Properties: `OwnAnswer` (a call that returns an answer has the whole of its own, without the gzip header, however the
packets are cut) and `ResponseAlive` (N writes to no freed buffer), both until a call has timed out; `CallReturns`. On
Bada, and for the login, a call does not return if its answer came before its wait (`missed`) or the connection was
lost, and the property is qualified by exactly that.

Run `request`: a playlist, its tracks and a search on both platforms. Packets of one and two units, a header of two
and answers of up to three cut the header in every way; three calls let a late answer meet both a buffer in use and a
freed one. Deadlock is not checked: A stops after its last call. Fairness: A is scheduled, timers expire, and the
server ends an answer while the connection is up; it need not send data and A need not call again.

After a timeout (a platform other than Bada) the late end of the former call wakes the next one, which parses a
response that is not there yet: both safety properties stop at the first timeout for that reason. On Bada, where
`pthread_cond_timedwait` ignores its deadline, an answer before the wait, or a lost connection, leaves the caller
waiting for ever. What a request on a session that is already disconnected meets is left to `Session`: on Bada the
write looks up a null socket, where `Request` has a failing write.

Proved in `RequestProofs`, for every sequence of calls and every bound: type correctness, `OwnAnswer` and
`ResponseAlive`. What makes `OwnAnswer` inductive is that until a timeout the only channel open is that of the call A
waits in (`OneAtATime`, which needs that WELCOME cannot wake a call: `InOrder`), and that the buffer of that call is
at every moment what is due of its answer so far (`Filled`). The lemma behind `Filled` is `OwnGrows`: whatever the
packet, what the callback appends is exactly what comes next.

### StoredPlaylists, PlaylistsProofs

`StoredPlaylists` models the playlists of the user across calls and across runs of the program:
`despotify_get_stored_playlists` (ask for the meta playlist, compare its revision with the one on disk, store the new
one, load every list), `despotify_get_playlist` and `despotify_link_get_playlist`. The disk is `file[p]`, the revision
of p that its cache file holds, and `localRev`, the file `meta_playlist_revision`; both survive `Restart`. `useCache`
and `listOfLists` are the fields of the session, `setting` what `despotify_init_client` was called with, `i` and
`result` the walk over the lists. A request/response call is one step: it is answered in whole, answered cut short by
an error, or not at all (see `Request`). A write succeeds, fails at `fopen` and leaves the old file, or is cut short.
The program may be killed inside any call. A file that is there but cannot be read falls through to the server.

The server is external. `changed[p]` is the revision of the last change of p; a change of any playlist raises the meta
revision, which is what the comparison in the code relies on. It may happen between any two steps.

What the code does and the model keeps: an answer without `<version>` counts as revision 0, so a cut meta playlist is
"not newer" and its lists come from the cache without a promise (`asOf` 0); with the cache in use a meta request that
is not answered is dereferenced as NULL (`MetaLost` goes to `"dead"`); `list_of_lists` stays set when it was not
answered, so the next playlist from the server is parsed as a list of lists, and a list that claims to have tracks
then keeps `despotify_load_tracks` in its loop (`"hung"`); a list that fails to load drops the ones loaded before it
from the result (`NotLoaded`). A build without `DEBUG` is assumed: with it the debug line before the comparison would
dereference the NULL with the cache off as well.

Properties: `CacheMatchesRevision` (the revision is stored before the lists are; nevertheless every file holds what
the revision says, unless a failure passed that list by in the refresh), `Fresh` (no list is returned in a state older
than the call, with the same exception). The exception is the auxiliary variable `spoilt`: set for a list that a
refresh did not load, whose answer or file was cut short, or that was still to come when the program was killed;
cleared when the list is fetched and stored in whole. The code does not come back to such a list before the next
change on the server, which is the hazard at `cache.c:161`. All of this is about the builds that have a directory for
the cache: on Bada `cache_init` returns false and nothing is cached.

Run `stored`: two lists, so that one is passed by while the other is loaded, two changes after the first revision, so
that a change falls before, into and after a refresh, and two faults, so that one failure leaves a state the next one
meets. Calls and restarts are unbounded. Deadlock is checked.

Proved in `PlaylistsProofs`, for any number of lists, changes and faults: type correctness, the two properties,
and `ModeKept`: playlists misread as lists of lists are at most as many as the meta requests that were not answered.
The invariant adds that no list is newer than the meta revision and no stored revision is ahead of it
(`ServerIsNewest`), that a refresh goes past the cache, stores every list and parses it as a playlist
(`RefreshIsWhole`), that a file the walk may still use is as new as the caller may expect (`CacheIsExpected`), and
that a list already returned is not loaded again in the call (`ResultIsPast`). `CacheIsExpected` is the bridge: the
revision of the meta playlist was not newer than the stored one, so a list changed up to it is covered by
`CacheMatchesRevision`.

### Links

`Links` models what `despotify.c` does with "spotify:" uris: an item's id is converted to base 62 and written behind
its prefix into 64 bytes (`WriteUri`), the uri is taken apart (`Parse`), the id is converted back and what it names is
asked for (`Get`). `baseconvert` is modelled digit by digit (`Digit` is a round of its inner loop, `Emit` the end of
the outer one), because it overwrites the number it divides. A query is known by its length, an author by its length
and the place of its first colon, which `Parse` takes for the author's end. Text that is not one of the uris written
here is not parsed.

Property: `LinkReturns`: the uri of an item leads back to it, whatever its id, if the uri has room (`HasUri`): a
playlist's author has at most 18 characters and no colon, and a query at most 48 characters. Beyond, the id is cut and
the link invalid, or the search is for the beginning of the query; with an author of more than 40 characters the id is
looked for behind the end of the uri, and behind an early colon text of the author may be taken for an id (both
`"astray"`).

Run `links`: every number of five digits in base 3, written with three digits in base 7 (a power of neither is one of
the other, as with 16 and 62, and leading zeros come in both), and names up to, at and past each of the limits, which
`Room` = 45 keeps where they are relative to the shorter ids; an author's first colon at its start, behind that, and
where the 64 bytes cut just as much as the colon leaves out (18). Deadlock is not checked: each conversion ends.
Fairness: the one thread runs.

### LoadTracks, PlaylistsProofs

`LoadTracks` models `despotify_load_tracks` with `parse_tracks` of `xml.c`: the ids of a playlist are walked in
batches (`StartBatch`), each batch is answered by the cache or the server (`Answered`) or not at all (`NoAnswer`),
each `<track>` of the answer is matched with the list (`ParseTrack`, `SkipTrack`), and what is left without meta data
is copied from a duplicate (`Finish`). One thread runs it. A track is its position in the list, `tid` its `track_id`,
`meta` its meta data, known by the id the server gave it. `Current` is the redirection of old ids. `claimed` is the
length that the playlist's `<version>` gives, which overwrites the counted one (`xml.c:146`, with a FIXME). The answer
is external: any tracks in any order, more than once, others than were asked for, or none (also what an answer that
does not inflate amounts to). The search for a track goes on past the batch to the end of the list, in the model as in
the code.

Properties: `OwnData` (a track never gets the meta data of another, whatever the order, the redirection and the
copying), `NothingMissed` (a track that has a duplicate with meta data is left without only if its own id was
redirected: then the duplicate goes by the new id and the comparison in the last loop misses it) and `LoadEnds`. The
last is qualified by the claim: with a claim longer than the list the loop asks for empty batches until a request
fails.

Run `load`: all lists of up to four of three ids, one of which is redirected to another, batches of two: a duplicate
and a redirected duplicate fall into the same batch, the next one and the one before; claims from 0 to one past the
longest list; answers of up to two tracks. Deadlock is checked. Fairness: the thread runs, and a request is answered
or times out.

Proved in `PlaylistsProofs` too, for every set of ids, every redirection, list, batch and answer: type correctness,
the two safety properties and `CountIsFilled` (the number of tracks the playlist ends up with is the number of those
with meta data). They need each other: that a copy is made at all when a track is missing follows from `CountIsFilled`
(fewer are counted than claimed), and that its data is right from `OwnData`. The proof of the count is about
cardinalities: an element fills exactly one position that was empty, the copying fills `LeftOut` at once.

### Session, SessionProofs

`Session` models the life of the connection in the application. `apc` is A in `AuthenticationThread::Run` (look up the
host, connect, log in, ask for the playlist, play), `npc` N in `despotify_thread` and `packet_read`, `mpc` M in
`despotify_exit`; `wpc[w]` is where a thread is in `packet_write`, `dpc[t]` where it is in `session_disconnect`. Every
access to the cipher state, the IVs, `ap_sock` and `ds->thread` that another thread can come between is a step. A
packet is known by the cipher state that encrypted it: the IV of the nonce and the writers that used the state after
it. `conn` is what the socket is, `ap_sock` whether the session still names it. On Bada a call with `ap_sock` -1 looks
up a null `Socket` and crashes. `Lose` drops the connection at any time, and a login may fail at every step.

The model is that of the Bada build, the one the application is made for: `pthread_cancel` is `Thread::Exit`, which is
not about the thread it is called on, so N ends only when its read fails. That closing a Socket makes a blocked
Receive fail is an assumption about Bada (`ReadFails`); the code relies on it, cf. the comment before `despotify_exit`
in `spotify.cpp`.

What goes wrong in the code is recorded in auxiliary variables, and each property says exactly when it holds:
`overlapped` (two threads in `packet_write` at once), `inside` (M ends the application while A is in the library;
OnAppTerminating does not join A), `late` (A connects after that) and `handling` (N was not waiting for a packet when
the socket was closed). All four happen in the model. A request that cannot be written returns no playlist, and `Run`
takes `p->tracks` without a look: `GiveUp` is a crash.

Properties: `InSync` (N never handles a packet it did not decrypt with its own IV, and the server gets none it cannot
decrypt, unless two threads were in `packet_write` at the same time or A connected late; so resetting the IVs in
`session_disconnect` harms nobody, because the socket is closed first), `SafeTeardown` (nobody uses the freed session
once A has returned, and when N was waiting for a packet as well nobody uses the missing socket) and `ExitReturns`
(`despotify_exit` comes back unless A connects behind its back).

The look-up of the host is `gethostbyname` of `bada_network.cpp`: A starts a `DnsThread` (`LookUp`), enters the
monitor and waits on it without a look at the result (`Wait`); the listener stores the result (`Resolved`) and
notifies without entering (`Notify`). `LookupReturns`: A comes back from it, answered or not, unless the notification
comes before the wait (`missed`), which then lasts for ever. A look-up that failed returns no host, and its addresses
are asked for all the same (`TakeResult`, a crash). The list of services of this build is one fixed host.

Run `session`: one request and four packets of the server, the least in which WELCOME, the answer, the key of the
first track and a packet that is replied to come, so that A, N and D can all be in `packet_write` at once, and M may
end it all at each point. What is encrypted after the first overlap is spoilt and not followed. Deadlock is not
checked: the application ends. Fairness: M and N are scheduled, and A and the `DnsThread` as far as the look-up goes;
neither the server nor A need do anything else.

Proved in `SessionProofs`, for any number of requests and of packets: type correctness, `InSync` and `SafeTeardown`.
The inductive invariant is about who can be where. `Started`: before the last step of the login nothing is read,
written or asked for. `Callers`: who can be in `packet_write` and in `session_disconnect`. `OneWriter`: until two
overlap, the cipher state is that of the only thread between its nonce and its count; with it `Writes` and `Reads`
count the packets at both ends of an open connection. `Socket` follows the socket from the connection to the call that
closes it, `Quiet` and `Joined` say that N, once that has happened, is waiting for a packet, ended or recorded as
handling one, so that `Free` comes after N; `Ending` ties M's place to what is freed and to A being inside.

## What is not modelled

Deciphering, hashing and parsing; third-party code (ezxml, AES, Shannon, SHA-1); the build that is not Bada
(`network.c`, the DNS services of `dns.c` and their sorting); the lifetime of memory, but for the channels of
`ChannelList` and the session of `Session`; logging. Semaphores on Bada: no part of the program uses one. Buffers and
utilities: sequential helpers without a state of their own.

Beyond the reach of the prover, and so only model-checked: liveness (`NotifiedReturns`, `FetchEnds`, `LastEndIsTaken`,
`CallsReturn`, `PlayBegins`, `DecoderReturns`, `HandlerReturns`, `TerminationEnds`, `CallReturns`, `LoadEnds`,
`ExitReturns`, `LookupReturns`, `LinkReturns`). The type invariants of the modules with a proof module are proved
there and not run again. `Links` has no proofs yet: its property is liveness, and the safety half of it (an id whose
conversions have ended is the id it was) needs the value of a row of digits, an induction over them.

## Plan

1. The cached artists, albums and images, and the changes of playlists by this client.
2. `Player` without `play_as_list`, and with failing substream requests.
3. The unordered track lists of searches and albums.
4. Theorems about `Links`: its types, and the safety half of `LinkReturns`.
