# TLA+ models of the ALSA Bluetooth plugin (`ste-pcm_bluetooth.c`)

This directory holds TLA+ models of `src/bluez/audio/ste-pcm_bluetooth.c`, with
TLC configurations and TLAPS proofs. The file is the ALSA ioplug plugin that
plays PCM audio over Bluetooth, as A2DP (SBC packets on an L2CAP socket) or as
HSP/SCO. `PROJECT.json` lists the components, the runs, the mutants, the map
from every modelled definition to its source lines, the findings, the hazards
and the theorems.

## 1. The system

Each part below gives its C state and its operations.

- **Control channel client.**
  - State: `audioservice_send/recv/expect` (1979-2089) on `data->server.fd`, a UNIX socket to bluetoothd.
  - Requests and replies travel in order on that socket.
  - A reply is matched to what the caller expects by its operation name only.
  - `recv()` fails with `EAGAIN` after `SO_RCVTIMEO` = `RECV_TIMEOUT` (set at 2145).
- **A2DP negotiation.**
  - State: `data->a2dp_stream_state` (`STREAM_CLOSED/OPENED/CONFIGURED/STARTED`), the SBC capabilities, `link_mtu` and the two transfer buffers.
  - `bluetooth_a2dp_hw_params` (1089-1176) runs OPEN, `bluetooth_a2dp_init`, SET_CONFIGURATION, a realloc of the buffers, the DELAY_REPORT and `bluetooth_a2dp_setup`.
  - `bluetooth_prepare` (587-707) runs START_STREAM, NEW_STREAM, fetches the data socket and sets its send timeout.
- **Encode and transmit pipeline.**
  - `bluetooth_a2dp_write` (1439-1577) keeps a remainder of less than one SBC block in `data->buffer`.
  - It encodes blocks into `a2dp->buffer` after the RTP header.
  - It sends a packet through `avdtp_write` (1389-1437) when no further frame fits `link_mtu`.
  - It detects underruns (`hw_ptr > appl_ptr`) and auto-starts the stream.
- **Audio clock thread.**
  - `playback_hw_thread` (233-355) advances `data->hw_ptr` one period at a time from the wall clock.
  - It peeks at the control socket for DELAY_REPORTs (`update_delay`, 209-231).
  - It is started and stopped by `bluetooth_playback_start/stop`.
- **Session lifecycle.**
  - `bluetooth_close` (536-585) does not free a session. It parks the session on the `outstanding_data` list and starts a watcher thread (487-525).
  - The watcher frees the session after `WATCHER_TIMEOUT` unless `kill_watcher` was set first.
  - A later open of the same device reclaims the parked session: `bluetooth_find_outstanding_data` (2217-2251), `kill_watcher` and `remove_outstanding_data`.
- **HSP/SCO data path.** `hsp_hw_params`, `hsp_read`, `hsp_write`.
- **Poll translation.** The `poll_descriptors` functions and `playback_delay`.
- **Configuration parsing.** `bluetooth_parse_config` and `bluetooth_parse_capabilities`.
- **Plugin open.** The open function and `bluetooth_init` (GET_CAPABILITIES).

How the parts interact:
- ALSA calls `hw_params`, then `prepare`, then `transfer` (the write) on one application thread.
- The clock thread runs beside that thread, and moves `hw_ptr`, which the write compares with `appl_ptr`.
- The clock thread also reads the control socket that `hw_params` and `prepare` use.
- Sessions outlive their PCM handle and are shared between the closing thread, the watcher and the next opener.

## 2. Modules

| Module | Models | Lines |
|---|---|---|
| `A2dpStream` | control channel client and A2DP negotiation | 1089-1176, 587-707, 846-1087, 1979-2089 |
| `A2dpStreamProofs` | TLAPS proofs about `A2dpStream` | |
| `MCA2dpStream` | TLC instance of `A2dpStream` | |
| `A2dpEncoder` | encode and transmit pipeline, the clock thread's pointer, stop/prepare/setup | 1389-1577, 233-385, 587-626, 927-992 |
| `PcmWriteContract` | the write callback's contract with the ioplug layer, implemented by `A2dpEncoder` | 1461-1487, 1573-1576, 270-292 |
| `A2dpEncoderProofs` | TLAPS proofs about `A2dpEncoder` | |
| `SessionLifecycle` | close, watcher, outstanding list, reclaim on open | 433-585, 2217-2319 |
| `PlaybackClock` | the clock thread, the calls that start, stop, cancel and join it, and the control-socket exchanges it shares | 208-385, 394-416, 536-700, 1103-1175, 1461-1468 |
| `PlaybackClockProofs` | TLAPS proofs about `PlaybackClock` | |
| `SessionLifecycleProofs` | TLAPS proofs about `SessionLifecycle` | |
| `MCSessionLifecycle` | TLC instances of `SessionLifecycle` | |

### A2dpStream

**Threads and receives.**
- The caller's thread is split at every `audioservice_expect()`.
- `pc` names the receive the thread is blocked in.
- Each callback is one action up to its first receive (`a2dp_hw_params`, `prepare`), plus one action per receive (`a2dp_hw_params_open_rsp`, `_setconf_rsp`, `_delay_ind`, `prepare_start_rsp`, `prepare_new_stream_ind`).
- A receive action covers the rest of the callback up to the next receive or the return, with all of its early returns.
- `Recv` is the receive of `audioservice_expect`: the thread blocks until a message is queued, which it takes, or until the timeout expires.
  - A timeout is possible when nothing is queued and nothing is owed.
  - When `ReplyMayBeLate`, it is also possible while bluetoothd still owes the answer.
- `Received` is what `audioservice_recv` got: the oldest message, or an `EAGAIN` error.
- `Classify` is the `BT_ERROR` check and the name check.

**bluetoothd.**
- `DaemonReply` answers the oldest request with any reply the protocol allows: an error, OPEN's response, SET_CONFIGURATION's response plus DELAY_REPORT, or START_STREAM's response plus NEW_STREAM.
- Messages carry the id of the request they answer. The plugin never reads the id; the properties do.

**Codec selection.**
- `InitChannelMode` and `Prefer` are the if/else-if chains of `bluetooth_a2dp_init`.
- `LastOf` and `Setup` are the sequence of ifs of `bluetooth_a2dp_setup`, where the last match wins.
- `ConfigurationDiffers` is `bluetooth_configuration_cmp` with no overrides in the ALSA configuration. Only the frequency is compared.
- `AllowedParams` are the constraints of `bluetooth_a2dp_hw_constraint`.

**ALSA.** The ALSA side (`alsa`, `call`, `hwp`, `last`) records which callback returned and what it returned. Only what the properties need is kept.

### A2dpEncoder

**Buffers.**
- Byte sizes are scaled: `FrameSize` bytes per frame, `Codesize` PCM bytes per SBC block, `FrameLen` bytes per encoded frame, `HeaderLen` header bytes and a `LinkMtu`.
- `carry` is `data->count`.
- `wire` and `frame_count` are `a2dp->count` and `a2dp->frame_count`.
- `seq_num` and `nsamples` are the RTP sequence number and timestamp.
- `packets` is what went onto the socket, each packet with its fate: sent, dropped because the socket would block, or failed.

**The write.**
- `a2dp_write` covers the underrun check, the autostart and the choice between three paths. The autostart can fail instead (`StartFails`): `snd_pcm_start()` runs `bluetooth_playback_start()`, which clears `data->stopped` and then returns `pthread_create()`'s error. The callback returns that `-EAGAIN` at once (1481-1482), with nothing consumed and the stream still PREPARED. The three paths are:
  - complete the remainder (`a2dp_write_leftover`);
  - keep the input as the remainder;
  - encode blocks (`a2dp_write_loop`, one block per step, so that the clock may move between blocks as the code's unlocked loop allows).
- `EncodeBlock` and `AvdtpWrite` are the per-block encode and the flush.

**The clock and the ALSA calls.**
- `hw_period` is one period of the clock thread while running and not stopped.
- `playback_stop`, `prepare` and `a2dp_setup` are the other callbacks that touch this state.
- `a2dp_setup` is the encoder reset of `bluetooth_a2dp_setup` that a new `hw_params` triggers.

**The contract.** `PcmWriteContract` is what the write callback promises ALSA, with the encoder left out. Its state is the ALSA-visible state: `io_state`, `appl_ptr`, `hw_ptr`, `ret`, `size`, and a flag `busy` for a call in progress. A `Call` does one of three things:
- reports an underrun exactly when `hw_ptr > appl_ptr`;
- when the call should start the stream, fails to start it and returns `-EAGAIN`, with nothing consumed;
- returns at once;
- starts work that a later `Complete` ends.

A return passes back some `k` in `0..size` and advances `appl_ptr` by `k`.

`A2dpEncoder` instantiates the contract as `Contract`, with `busy <- pc # "idle"`. Its property `WriteContract == Contract!Spec` is checked by the `encoder` run. The remainder and block-encoding steps map to stutters.

### SessionLifecycle

**State.**
- `outstanding_data` is the list, as a sequence of node ids.
- Sessions are model values. `alive` and `used` are the sessions allocated and the sessions held by an open PCM.
- `kill_watcher` is the per-session flag.

**Openers.**
- `open` starts the reclaim scan.
- The scan runs `find_step`, `find_kill` and `find_remove` without the list mutex, as the code does, one node per step.
- `close` parks a session and starts its watcher.

**Watchers.**
- A watcher runs `watcher_wake`: a kill, or the timed wait expiring.
- It then runs `watcher_remove` and `watcher_exit`, which are `remove_outstanding_data` and `bluetooth_exit`.

**The list invariant.** `OutstandingListSound` says the set of nodes linked in `outstanding_data` is the set of nodes not yet `free()`d, and no node is linked twice. `remove_outstanding_data()` can run for the same session from the reclaiming open and from its timed-out watcher. It must unlink and free the same node in one step under the list mutex, and the second call must find nothing. A node freed while still linked would be read by the next scan. One unlinked and never freed would leak.

### PlaybackClock

**State.**
- `hw_thread`, `hw_cancel`, `stopped`, `reset`, `hw_ptr`, `sink_delay` and `a2dp_stream_state` are the fields of `struct bluetooth_data` (163-189).
- `sock` is the control socket's queue. A message is a name and whether bluetoothd sent it unasked.
- `fds_open` is whether `bluetooth_exit()` has closed `server.fd` and `stream.fd`. `link_up` is whether the stream socket has hung up.
- `tpc` gives each clock thread its place in the loop. `mpc` is the application thread's place, split at every receive and at the `pthread_join()` call and return. `jt` is the id the pending join was called with.
- `alsa` is `io->state`. `last` is what the last `hw_params` or `prepare` returned.

**Clock thread (`Thread(t)`).**
- `HwLoopTop` is the top of `playback_hw_thread`'s loop (265-323): the stopped test, the XRUN reset, the advance of `hw_ptr` by the periods found elapsed modulo `buffer_size`, and the `hw_cancel` tests around the pipe writes.
- Elapsed time is abstracted to a choice of 0..`MaxFrags` periods.
- `HwPoll` is `poll()` and the first, peeking `recv()` of `update_delay`. A readable socket leads to `UpdateDelayRecv` if its head is a DELAY_REPORT. A closed descriptor or a hang-up leads to `HwLoopExit`, which clears `data->hw_thread` (353).
- `AfterPoll` is the `hw_cancel` test at the bottom of the loop.

**Application thread.**
- `a2dp_hw_params`, `_setconf_rsp` and `_delay_ind` are the parts of `hw_params` that use the socket. OPEN is left to `A2dpStream`.
- `bluetooth_prepare`, `pthread_join_call`, `pthread_join_return`, `bluetooth_prepare_start`, `_start_rsp` and `_new_stream` are `prepare`, cut at the join and at each receive.
- `bluetooth_playback_start`, `bluetooth_playback_stop` and `a2dp_write_underrun` are the calls that create a thread, set `stopped` and request the XRUN reset.
- `bluetooth_close` either parks the session or runs `bluetooth_exit()` at once. `bluetooth_reclaim` is a reopen that takes the parked session back. `bluetooth_watcher_exit` is the watcher's timeout calling `bluetooth_exit()`. `bluetooth_exit_check` is the `if (data->hw_thread)` that follows the closes.

**Environment.**
- bluetoothd queues every answer at once (`A2dpStream` models its errors and delays).
- It may send `MaxUnsolicited` DELAY_REPORTs of its own (`DelayReportInd`).
- The link may drop (`LinkLoss`).

## 3. Runs

Violation runs check one property that the spec or the code's comments state, and TLC finds it broken by what the code does. Each one backs a finding in `PROJECT.json`.

| Run | Kind | What it shows |
|---|---|---|
| `a2dp_sync` | pass | With a prompt bluetoothd and no allocation failure, every message taken from the socket answers the last request (`ReplyAnswersLastRequest`). |
| `a2dp_stale_reply` | violation | A reply is left in the socket and taken as the answer to a later request. It is left either by a receive that timed out before a late reply (2025) or by a realloc failure that returns before the DELAY_REPORT is read (1155). TLC's shortest trace is the late reply. With `ReplyMayBeLate = FALSE` it finds the realloc path. |
| `a2dp_hw_params_ok` | violation | `hw_params` returns 0 on a stream that is not configured for what ALSA asked (`HwParamsOkMeansConfigured`). The shortest trace is a retry on a stream left OPENED (1103). Longer traces keep the old channel mode, because `configuration_cmp` ignores the channel count (1045), or renegotiate the old rate, because the capabilities were narrowed earlier (1107). |
| `encoder` | pass | PCM is conserved: every accepted byte is in the remainder, in the frame being built, in a sent packet or counted as discarded (`PcmConserved`). The buffers stay in bounds (`BuffersInBounds`). The callback keeps its contract with ALSA (`WriteContract`, a refinement of `PcmWriteContract`). |
| `encoder_steady` | pass | Without reconfiguration, every packet's header counts exactly the frames it carries, and sequence numbers are consecutive (`PacketsWellFormed`). |
| `encoder_reconfig` | violation | After a reconfiguration, a packet's header counts frames that were discarded (991). |
| `session_one` | pass | The outstanding list links exactly the nodes not yet freed, none twice, however reclaim and watcher timeouts interleave (`OutstandingListSound`). Every watcher ends (`WatcherTerminates`), and every closed session is eventually freed or reclaimed (`ClosedSessionReleased`). |
| `session_uaf` | violation | The unlocked scan reads a node that a timed-out watcher has freed (2222). |
| `session_double_reclaim` | violation | Two opens reclaim the same parked session (2241). |
| `clock` | pass | From `prepare`'s START_STREAM exchange until the stream runs, no clock thread is live and `hw_ptr` is 0 (`ClockQuietWhilePrepared`). Every `pthread_join()` returns (`JoinReturns`). These hold with unsolicited DELAY_REPORTs and link loss. |
| `clock_thread_leak` | violation | `bluetooth_exit()` closes the sockets first. The thread leaves on POLLNVAL and clears `data->hw_thread`, so nobody joins it (`NoThreadLeak`, 353). |
| `clock_delay_steal` | violation | After a stop, the still-polling thread takes the DELAY_REPORT a reconfiguring `hw_params` waits for, and `hw_params` fails (`ControlExchangesSucceed`, 219). |

Two issues of the write path are hazards in `PROJECT.json` but not runs, because a unit test reaches them in one call:
- `bluetooth_a2dp_write` drops the error of a failed `send()` (1558);
- the remainder overflows `data->buffer` when `codesize > link_mtu` (1496).

### Bounds

**A2dpStream.** Two rates and two channel modes exercise both `hw_params` paths on an open stream (rate change and channel change). `MaxReqs = 9` allows a full OPEN/SET_CONFIGURATION/START_STREAM cycle followed by a reconfiguration. `a2dp_hw_params_ok` uses `MaxReqs = 7`, which is enough for a failed SET_CONFIGURATION and its retry, or for a full cycle and a second `hw_params`.

**A2dpEncoder.**
- The sizes (frame 2, block 8, encoded frame 3, header 2, MTU 10) make a packet hold two frames.
- A write of 1, 3 or 5 frames takes every path: a remainder that stays short, one that is completed, blocks encoded with a remainder left over, and a flush in the middle of a write.
- Three periods of the clock are enough to overtake `appl_ptr` and reach the underrun path.
- `TsModulus` stands for the 32-bit timestamp and is never reached.

**SessionLifecycle.**
- `MaxNodes = 3` and `MaxOpens = 3` allow a close, a reopen that reclaims the session, a second close and an expiry.
- Two devices make the scan step past a node that does not match.

**PlaybackClock.**
- A buffer of two periods, with up to two periods per pass, makes the modulo wrap happen in one step.
- Two threads let a second thread be created after the first one ended or was joined.
- Eight application calls allow start, stop, close, reclaim, `hw_params` and `prepare` in one run.
- The violation runs turn off link loss and unsolicited reports, so the bugs they show need neither.

### Fairness

**Watchers.** Only the watcher steps are weakly fair. `pthread_cond_timedwait` returns after `WATCHER_TIMEOUT` whatever the other threads do, and the watcher's remaining steps take only `list_mutex` and `data->mut`, which no thread holds forever.

**Clock threads.** In `PlaybackClock` each clock thread is weakly fair: the OS scheduler runs a runnable thread, and `poll()` returns within `poll_timeout`. The return of a `pthread_join()` whose thread has ended is weakly fair too.

**Everything else.** The openers, ALSA and bluetoothd get no fairness: an application may never call again, and bluetoothd may never answer.

## 4. Proofs

`A2dpStreamProofs` is checked by `tlapm A2dpStreamProofs.tla`. Both theorems hold for every value of the constants allowed by the module's assumptions:
- the sink offers a non-empty subset of the four SBC rates and of the four channel modes;
- the MTUs are positive;
- the request budget is a natural number.

- **`TypeCorrect`: `Spec => []TypeOK`.**
  - `TypeOK` alone is not inductive. `bluetooth_a2dp_setup` yields a real rate and mode only if the capability masks are non-empty.
  - The invariant `TypeInv` therefore adds `cap_frequency # {}` and `cap_channel_mode # {}`.
  - The supporting lemmas:
    - `LastOfRate` and `LastOfMode`: the last match of the if-chain exists;
    - `InitChannelModeType`: `a2dp_init`'s chain narrows a mask to a non-empty subset of it;
    - `RepliesType`, `SendType` and `ExpectFacts`: the socket stays a sequence of protocol messages.
- **`ReplyAnswersLastRequestInSync`.**
  - Statement: if bluetoothd never answers after `RECV_TIMEOUT` and realloc never fails, then `Spec => ReplyAnswersLastRequest`.
  - The inductive invariant is `TypeInv /\ InSync`.
  - `InSync` says that the plugin and bluetoothd are in lock step:
    - while the thread is idle, nothing is queued in either direction;
    - while it waits, the socket holds exactly what is still owed for the last request (or that request is still with bluetoothd), all of it carrying that request's id.
  - `NoTimeout` shows that a receive cannot time out in this setting.
  - One lemma per action shows that the step keeps `InSync` and that the message it takes has the current id.
  - `a2dp_stale_reply` shows that neither hypothesis can be dropped.
  - `InSync` holds on the instance of `A2dpStream_sync.cfg` when it is added to that file's `INVARIANT` line (40865 states).
  - It is not one of the run's invariants. Every mutant that breaks `ReplyAnswersLastRequest` breaks `InSync` first, so `ReplyAnswersLastRequest` is the property that run checks.

The type invariants of `A2dpStream` and `PlaybackClock` are proved for all constants but are not listed as run properties, because the runs of those modules check the properties that could really fail.

`PlaybackClockProofs` is checked by `tlapm PlaybackClockProofs.tla`, under `ClockAssumption`: positive period and buffer sizes, and natural-number bounds.
- **`TypeCorrect`: `Spec => []TypeOK`.** `TypeOK` is inductive by itself. The modulo keeps `hw_ptr` below `buffer_size`, and `update_delay` only stores messages taken from the socket. One lemma covers the thread steps (`ThreadTypeStep`) and one the calls (`AppTypeStep`). Steps that change several variables are split one variable at a time.
- **`ClockQuiet`: `Spec => []ClockQuietWhilePrepared`.**
  - `ClockQuietWhilePrepared` is not inductive as it stands: a step of a live thread that is not named anywhere could break it.
  - The inductive invariant `QuietInv` adds three facts:
    - `LiveOwned`: a live thread is the one `data->hw_thread` names;
    - `JoinTarget`: a pending join in `prepare` waits for that thread, or the thread has already cleared the field;
    - `PreparedQuiet`: the prepared states have `data->hw_thread = 0`.
  - `ThreadQuietStep` shows that a thread step keeps `QuietInv`, because a live thread excludes the prepared states.
  - `AppQuietStep` has one case per call. The join return and the thread creation need `LiveOwned` and `JoinTarget`.
  - `QuietInv` holds as an invariant of the `clock` instance (87744 states).

`A2dpEncoderProofs` is checked by `tlapm A2dpEncoderProofs.tla`. The theorems assume only `SizeAssumption` and `AlsaAssumption`: positive frame, block and encoded-frame sizes, a block that is a whole number of frames, a header that fits the MTU, positive write sizes, and natural bounds.
- **The inductive invariant `EncInv`.** The three properties are not inductive as they stand. `EncInv` adds what the steps between two returns of `bluetooth_a2dp_write` need:
  - `HeaderLen <= wire <= LinkMtu`;
  - `carry < Codesize`;
  - the remainder is empty in the loop over whole blocks, and non-empty while it is being completed, with at least the missing bytes still to come;
  - `bytes_left` never exceeds the bytes of the write. Without this, the frames returned on `-ENOSPC` (`size - bytes_left / frame_size`) could be negative.
- **The steps.** There is one lemma per action: `WriteStep`, `LeftoverStep`, `LoopStep` and `OtherStep`. They are built on lemmas about the helpers:
  - `EncodeBlockFacts` and `EncodeBlockInv`: one encoded block, sent or kept;
  - `AvdtpWriteType`: the packet appended by `avdtp_write`;
  - `FinishType`: the return;
  - `DivBound`, `ModRange`, `ModChar` and `ModSucc`: the arithmetic.

  `EncInv` holds as an invariant of the `encoder` instance.
- **`TypeCorrect`: `Spec => []TypeOK`.** The callback returns a natural frame count, `-EPIPE` on an underrun, or the `-EAGAIN` of a failed autostart, and nothing else. `WriteStep` has a case for each.
- **`BuffersInBoundsWhenBlockFits`: `Codesize <= LinkMtu` implies `Spec => []BuffersInBounds`.**
  - The hypothesis is exactly what the remainder path relies on: it completes the remainder to `codesize` bytes inside `data->buffer`, which is `link_mtu` bytes long (`ste-pcm_bluetooth.c:1496`).
  - Without it, `BuffersInBounds` fails, and that hazard is listed in `PROJECT.json`.
- **`SteadyPacketsWellFormed`: `SteadySpec => []PacketsWellFormed`.**
  - The inductive invariant `SteadyInv` adds two facts to `EncInv`:
    - the wire buffer is the header plus `frame_count` frames;
    - `seq_num` is the packet count modulo 2^16.
  - `EncodeBlockSteady` shows that a sent packet then has the frame count and sequence number its header claims.
  - Reconfiguration (`a2dp_setup`) breaks the first fact, and the `encoder_reconfig` run shows the result. That is why the theorem is about `SteadySpec`.
  - `SteadyInv` holds on the `encoder_steady` instance.
- **`WriteContractRefined`: `Spec => WriteContract`.** A2dpEncoder implements PcmWriteContract.
  - `Init` maps to the contract's `Init`.
  - `RefinementStep` shows `EncInv /\ [Next]_vars => [Contract!Next]_Contract!vars`, one lemma per action:
    - `WriteRefines`: the entry is a `Call`, including the failed autostart, which maps to the contract's `-EAGAIN` return;
    - `LeftoverRefines` and `LoopRefines`: the internal steps are stutters and the returns are `Complete`;
    - `OtherRefines`: the clock, stop, prepare and setup steps.
  - `EncInv` is what makes the error returns legal. `bytes_left <= size * FrameSize` puts `size - bytes_left \div FrameSize` in `0..size` (`ErrorReturnInRange`).
- **How the model is written for the proofs.** The paths of `a2dp_write` are disjuncts with disjoint guards, not a `CASE` whose arms overlap. An overlapping `CASE` would be an unspecified choice in TLA+, even though TLC takes the first arm. Z3 times out on a remainder by the literal 65536, so `SeqModulus` is kept opaque behind `SeqModulusPos`.

`SessionLifecycleProofs` is checked by `tlapm SessionLifecycleProofs.tla`, under `ConstAssumption` (natural bounds, non-empty sets of openers, sessions and devices, `None` not a session).
- **`TypeCorrect`: `Spec => []TypeOK`.** `TypeOK` is not inductive by itself. `find_step` follows `elem->next` through `NextNode(n)`, a `CHOOSE` over the positions of `n` in `outstanding_data`, and that only gives a node when `n` is on the list. It also reads `node_data[cursor[o]]`, which is only typed when the cursor is a node. The inductive invariant `LifeInv` adds two facts to `TypeOK`:
  - `AliveListed`: every node not yet freed is linked in the list. `close` links the node it allocates. `remove_outstanding_data()` unlinks exactly the node it frees.
  - `ScanAtNode`: an opener walking the list stands on a node, never on the NULL that ends it.
- **The lemmas.**
  - `PushListed`: linking at the head.
  - `UnlinkListed`: removing position `k` with `SubSeq \o SubSeq` keeps every other linked node.
  - `RemoveOutstandingInv`: `remove_outstanding_data()` as a whole. `LeastNatural`, from `WFMin` and `NatLessThanWellFounded`, shows that the `CHOOSE` of the first matching position picks a real position.
  - `NextNodeType`: the result of `NextNode`.
  - One step lemma per operation.
- `LifeInv` holds as an invariant of all three `SessionLifecycle` instances.
- **`ListSound`: `Spec => []OutstandingListSound`.** This is the invariant the `session_one` run checks, proved for every value of the constants. It is not inductive with `LifeInv` alone. `close` links the fresh node `nnodes + 1`, so the proof must know that this id is not already linked. The inductive invariant `SoundInv` is `LifeInv /\ OutstandingListSound /\ ListedAllocated`, where `ListedAllocated` says every linked id is at most `nnodes`. TLC checks `SoundInv` as an invariant of all three `SessionLifecycle` instances. The lemmas:
  - `RemoveOutstandingShape`: `remove_outstanding_data()` either changes nothing, or unlinks some position `k` and frees exactly `outstanding_data[k]`.
  - `UnlinkExact`: with no duplicates, removing position `k` leaves exactly the other linked nodes, still without duplicates.
  - `PushNoDup`: linking a node that is not yet linked keeps the list free of duplicates.
  - `RemoveOutstandingSound` and `CloseSound`: the two operations that change the list preserve `OutstandingListSound` and `ListedAllocated`. `SoundInvStep` handles every step.

What stays with TLC:
- The liveness properties of `SessionLifecycle` and `JoinReturns` of `PlaybackClock`. TLAPS does not prove liveness under fairness here.
- `PcmConserved` of `A2dpEncoder`. `PacketFrames` is a sum over the packet sequence, and its value for every input would need induction over data, which the installed provers cannot instantiate.
- `NoUseAfterFree` and `ExclusiveOwnership` of `SessionLifecycle`. TLC finds both violated by the code (section 3), so there is nothing to prove.

## 5. Not modelled, or only in part

- **Clock thread timing.** The `dtime` arithmetic and the `UINT_SECS_MAX` re-anchoring are not modelled: `PlaybackClock` chooses how many periods have elapsed.
- **Autostart resources.** The failed autostart is modelled by its return value. The `swparams` copy that this path leaks is not modelled, and neither is skipping the autostart when `snd_pcm_sw_params_current()` fails.
- **Pointer lapping.** A clock thread starved for a whole buffer or more advances `hw_ptr` modulo `buffer_size`. `PlaybackClock` takes that step as the code does, but what ALSA makes of a pointer that lapped is outside the model. The hazard is listed without a property.
- **Wake-up pipe.** The pipe writes that wake ALSA's poll are not modelled. Only the `hw_cancel` tests around them are.
- **Torn pointer.** `hw_ptr` is stored twice (291-292), and `bluetooth_pointer()` may read the value in between. The two stores are one step in the model.
- **Clock and negotiation together.** `PlaybackClock` models the receives of `hw_params` and `prepare` but not OPEN or bluetoothd's errors; `A2dpStream` models those without the clock thread. The two are not composed in one module.
- **HSP/SCO.** The data path, including the FIXME early return in `prepare`, is not modelled.
- **Codec parameters.** Block length, subbands, allocation and bitpool (`default_bitpool`, the rest of `a2dp_init`) are left out. No property tells them apart.
- **Poll and configuration.** The poll translation and the configuration parsing are pure functions of their inputs. The parsed configuration appears in the models as their constants.
- **Plugin open.** `bluetooth_init` and the open function's error paths are not modelled. Closing descriptors twice on those paths is listed as a hazard.
