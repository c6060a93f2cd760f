----------------------------- MODULE A2dpEncoder ----------------------------
(***************************************************************************)
(* The A2DP playback data path of the ALSA bluetooth plugin                *)
(* (ste-pcm_bluetooth.c): bluetooth_a2dp_write() cuts the PCM that ALSA    *)
(* hands it into blocks of codesize bytes, keeps the remainder in          *)
(* data->buffer (data->count bytes, a buffer of link_mtu bytes) for the    *)
(* next call, encodes each block into one SBC frame appended to            *)
(* a2dp->buffer (a2dp->count bytes behind the RTP header), and             *)
(* avdtp_write() sends the packet when no further frame would fit.         *)
(*                                                                         *)
(* Lengths are in bytes and scaled down: what matters is the relation      *)
(* between the PCM frame size, codesize, the SBC frame length, the header  *)
(* length and link_mtu.  The write loop runs in the application's thread   *)
(* and is split at each sbc_encode() so that the buffer contents between   *)
(* the memcpy() of the remainder and its encoding is a state.  hw_ptr is   *)
(* the pointer ALSA reads from the hw thread (module HwClock); here it     *)
(* only advances by periods while the stream runs.                         *)
(***************************************************************************)
EXTENDS Integers, Sequences

CONSTANTS
  FrameSize,       \* bytes of one PCM frame (areas->step / 8)
  Codesize,        \* a2dp->codesize: PCM bytes of one SBC frame
  FrameLen,        \* bytes of one encoded SBC frame ("written")
  HeaderLen,       \* sizeof(struct rtp_header) + sizeof(struct rtp_payload)
  LinkMtu,         \* data->link_mtu
  Sizes,           \* frame counts ALSA may pass to one write
  StartThreshold,  \* the start_threshold sw parameter, in frames
  PeriodSize,      \* io->period_size, in frames
  BufferSize,      \* io->buffer_size, in frames
  MaxCalls,        \* bound on write calls
  MaxPeriods,      \* bound on hw pointer advances
  TsModulus        \* 2^32 for the RTP timestamp; smaller for TLC's integers

ASSUME SizeAssumption ==
  /\ FrameSize \in Nat \ {0}
  /\ Codesize \in Nat \ {0} /\ Codesize % FrameSize = 0
  /\ FrameLen \in Nat \ {0} /\ HeaderLen \in Nat
  /\ LinkMtu \in Nat /\ HeaderLen <= LinkMtu
ASSUME AlsaAssumption ==
  /\ Sizes \subseteq Nat \ {0}
  /\ {StartThreshold, PeriodSize, BufferSize, MaxCalls, MaxPeriods} \subseteq Nat
  /\ TsModulus \in Nat \ {0}

\* Samples accounted per encoded block: encoded / frame_size.
SamplesPerBlock == Codesize \div FrameSize
\* a2dp->seq_num is a uint16_t; the RTP timestamp is htonl() of nsamples,
\* modulo TsModulus.
SeqModulus == 65536

\* errno value returned negated on an underrun.
EPIPE == 32
\* errno value pthread_create() returns when the clock thread cannot be
\* created (no attributes are passed, so EAGAIN is the only one).
EAGAIN == 11

\* What became of a packet: sent, dropped because poll() found the socket
\* full, or failed because send() or poll() returned an error.
Fates == {"sent", "dropped", "failed"}
Packet == [seq : 0..(SeqModulus - 1), ts : 0..(TsModulus - 1),
           frames : Nat, len : Nat, fate : Fates]

\* ALSA's view of the PCM, as far as the write callback is concerned.
IoStates == {"PREPARED", "RUNNING", "XRUN", "SETUP"}
PCs == {"idle", "leftover", "loop"}

VARIABLES
  carry,        \* data->count: PCM bytes kept in data->buffer
  wire,         \* a2dp->count: bytes in a2dp->buffer, header included
  frame_count,  \* a2dp->frame_count
  seq_num,      \* a2dp->seq_num
  nsamples,     \* a2dp->nsamples
  pc,           \* where the write callback is
  size,         \* the size argument of the write in progress
  bytes_left,   \* its local bytes_left
  io_state,     \* io->state
  appl_ptr,     \* io->appl_ptr
  hw_ptr,       \* io->hw_ptr
  stopped,      \* data->stopped
  reset,        \* data->reset
  ret,          \* what the last write returned: frames, or -errno
  packets,      \* every packet handed to avdtp_write(), in order
  accepted,     \* PCM bytes the writes reported as consumed
  discarded,    \* encoded frames dropped from a2dp->buffer by a2dp_setup()
  ncalls,       \* write calls so far
  nperiods      \* hw pointer advances so far

vars == <<carry, wire, frame_count, seq_num, nsamples, pc, size, bytes_left,
          io_state, appl_ptr, hw_ptr, stopped, reset, ret, packets, accepted,
          discarded, ncalls, nperiods>>

-----------------------------------------------------------------------------
(***************************************************************************)
(* Helpers translated from the plugin.                                     *)
(***************************************************************************)

\* Frames the application may write: ALSA never passes more than the free
\* space of the ring buffer.
Avail == BufferSize - (appl_ptr - hw_ptr)

\* sbc_encode() fails with -ENOSPC unless a whole frame fits in the
\* link_mtu - a2dp->count bytes left in a2dp->buffer.
HasSpace == LinkMtu - wire >= FrameLen

\* The callback returns n frames; ALSA advances appl_ptr by them.
Finish(n) ==
  /\ pc' = "idle"
  /\ ret' = n
  /\ appl_ptr' = appl_ptr + n
  /\ accepted' = accepted + n * FrameSize

\* Mutant: the wire buffer is reset but frame_count is not.
AvdtpWriteKeepsFrameCount(len, frames, ts) ==
  \E fate \in Fates :
    /\ packets' = Append(packets, [seq |-> seq_num, ts |-> ts,
                                   frames |-> frames, len |-> len, fate |-> fate])
    /\ wire' = HeaderLen
    /\ frame_count' = frame_count
    /\ seq_num' = (seq_num + 1) % SeqModulus

\* avdtp_write(): the header takes frame_count, seq_num and nsamples; the
\* packet is sent, dropped (socket not writable) or fails; in every case
\* the wire buffer is reset and seq_num incremented.  The caller ignores
\* the value it returns.
AvdtpWrite(len, frames, ts) ==
  \E fate \in Fates :
    /\ packets' = Append(packets, [seq |-> seq_num, ts |-> ts,
                                   frames |-> frames, len |-> len, fate |-> fate])
    /\ wire' = HeaderLen
    /\ frame_count' = 0
    /\ seq_num' = (seq_num + 1) % SeqModulus

\* A successful sbc_encode() of one block and the bookkeeping after it:
\* the frame is appended, and the packet sent when a further frame of the
\* same length would reach link_mtu.
EncodeBlock ==
  LET w  == wire + FrameLen
      fc == frame_count + 1
      ns == (nsamples + SamplesPerBlock) % TsModulus
  IN  /\ nsamples' = ns
      /\ IF w + FrameLen >= LinkMtu
         THEN AvdtpWrite(w, fc, ns)
         ELSE /\ wire' = w
              /\ frame_count' = fc
              /\ UNCHANGED <<seq_num, packets>>

\* The autostart fails: snd_pcm_start() calls bluetooth_playback_start(),
\* which clears data->stopped and then cannot create the clock thread; the
\* callback returns the error at once, with io->state still PREPARED and
\* nothing consumed (the sw_params copy it allocated is not freed).
StartFails ==
  /\ stopped' = 0
  /\ ret' = -EAGAIN
  /\ UNCHANGED <<io_state, reset, carry, pc, bytes_left, appl_ptr, accepted>>

-----------------------------------------------------------------------------
Init ==
  /\ carry = 0
  /\ wire = HeaderLen
  /\ frame_count = 0
  /\ seq_num = 0
  /\ nsamples = 0
  /\ pc = "idle"
  /\ size = 0
  /\ bytes_left = 0
  /\ io_state = "PREPARED"
  /\ appl_ptr = 0
  /\ hw_ptr = 0
  /\ stopped = 1
  /\ reset = 0
  /\ ret = 0
  /\ packets = <<>>
  /\ accepted = 0
  /\ discarded = 0
  /\ ncalls = 0
  /\ nperiods = 0

\* Mutant: the remainder is kept when it exactly fills the missing bytes
\* ("additional_bytes_needed >= bytes_left").
a2dpWriteKeepsFullBlock ==
  /\ pc = "idle"
  /\ io_state \in {"PREPARED", "RUNNING"}
  /\ ncalls < MaxCalls
  /\ ncalls' = ncalls + 1
  /\ \E sz \in Sizes :
       /\ sz <= Avail
       /\ size' = sz
       /\ IF hw_ptr > appl_ptr
          THEN /\ stopped' = 1
               /\ reset' = 1
               /\ ret' = -EPIPE
               /\ io_state' = "XRUN"
               /\ UNCHANGED <<carry, pc, bytes_left, appl_ptr, accepted>>
          ELSE LET starts == io_state = "PREPARED" /\ appl_ptr >= StartThreshold
                   bytes  == sz * FrameSize
               IN  \/ /\ starts
                      /\ StartFails
                   \/ /\ io_state' = IF starts THEN "RUNNING" ELSE io_state
                      /\ stopped' = IF starts THEN 0 ELSE stopped
                      /\ UNCHANGED reset
                      /\ \/ /\ carry > 0 /\ Codesize - carry >= bytes
                            /\ carry' = carry + bytes
                            /\ bytes_left' = 0
                            /\ Finish(sz)
                         \/ /\ carry > 0 /\ Codesize - carry < bytes
                            /\ pc' = "leftover"
                            /\ bytes_left' = bytes
                            /\ UNCHANGED <<carry, ret, appl_ptr, accepted>>
                         \/ /\ carry = 0
                            /\ pc' = "loop"
                            /\ bytes_left' = bytes
                            /\ UNCHANGED <<carry, ret, appl_ptr, accepted>>
  /\ UNCHANGED <<wire, frame_count, seq_num, nsamples, hw_ptr, packets,
                 discarded, nperiods>>

\* Mutant: the underrun check also fires when the pointers are equal.
a2dpWriteUnderrunAtEqual ==
  /\ pc = "idle"
  /\ io_state \in {"PREPARED", "RUNNING"}
  /\ ncalls < MaxCalls
  /\ ncalls' = ncalls + 1
  /\ \E sz \in Sizes :
       /\ sz <= Avail
       /\ size' = sz
       /\ IF hw_ptr >= appl_ptr
          THEN /\ stopped' = 1
               /\ reset' = 1
               /\ ret' = -EPIPE
               /\ io_state' = "XRUN"
               /\ UNCHANGED <<carry, pc, bytes_left, appl_ptr, accepted>>
          ELSE LET starts == io_state = "PREPARED" /\ appl_ptr >= StartThreshold
                   bytes  == sz * FrameSize
               IN  \/ /\ starts
                      /\ StartFails
                   \/ /\ io_state' = IF starts THEN "RUNNING" ELSE io_state
                      /\ stopped' = IF starts THEN 0 ELSE stopped
                      /\ UNCHANGED reset
                      /\ \/ /\ carry > 0 /\ Codesize - carry > bytes
                            /\ carry' = carry + bytes
                            /\ bytes_left' = 0
                            /\ Finish(sz)
                         \/ /\ carry > 0 /\ Codesize - carry <= bytes
                            /\ pc' = "leftover"
                            /\ bytes_left' = bytes
                            /\ UNCHANGED <<carry, ret, appl_ptr, accepted>>
                         \/ /\ carry = 0
                            /\ pc' = "loop"
                            /\ bytes_left' = bytes
                            /\ UNCHANGED <<carry, ret, appl_ptr, accepted>>
  /\ UNCHANGED <<wire, frame_count, seq_num, nsamples, hw_ptr, packets,
                 discarded, nperiods>>

(***************************************************************************)
(* bluetooth_a2dp_write(), up to the first sbc_encode(): the underrun     *)
(* check, the autostart, and the remainder of the last write, which is    *)
(* completed to a block (state "leftover") or, if this write does not     *)
(* complete it, extended and returned.                                     *)
(***************************************************************************)
a2dp_write ==
  /\ pc = "idle"
  /\ io_state \in {"PREPARED", "RUNNING"}
  /\ ncalls < MaxCalls
  /\ ncalls' = ncalls + 1
  /\ \E sz \in Sizes :
       /\ sz <= Avail
       /\ size' = sz
       /\ IF hw_ptr > appl_ptr
          THEN \* underrun: bluetooth_playback_stop(), -EPIPE
               /\ stopped' = 1
               /\ reset' = 1
               /\ ret' = -EPIPE
               /\ io_state' = "XRUN"
               /\ UNCHANGED <<carry, pc, bytes_left, appl_ptr, accepted>>
          ELSE \* autostart: snd_pcm_start() calls bluetooth_playback_start(),
               \* which may fail
               LET starts == io_state = "PREPARED" /\ appl_ptr >= StartThreshold
                   bytes  == sz * FrameSize
               IN  \/ /\ starts
                      /\ StartFails
                   \/ /\ io_state' = IF starts THEN "RUNNING" ELSE io_state
                      /\ stopped' = IF starts THEN 0 ELSE stopped
                      /\ UNCHANGED reset
                      /\ \/ /\ carry > 0 /\ Codesize - carry > bytes
                            /\ carry' = carry + bytes
                            /\ bytes_left' = 0
                            /\ Finish(sz)
                         \/ /\ carry > 0 /\ Codesize - carry <= bytes
                            /\ pc' = "leftover"
                            /\ bytes_left' = bytes
                            /\ UNCHANGED <<carry, ret, appl_ptr, accepted>>
                         \/ /\ carry = 0
                            /\ pc' = "loop"
                            /\ bytes_left' = bytes
                            /\ UNCHANGED <<carry, ret, appl_ptr, accepted>>
  /\ UNCHANGED <<wire, frame_count, seq_num, nsamples, hw_ptr, packets,
                 discarded, nperiods>>

\* Mutant: a whole codesize is taken off bytes_left after the remainder.
a2dpWriteLeftoverSubtractsCodesize ==
  /\ pc = "leftover"
  /\ IF HasSpace
     THEN /\ EncodeBlock
          /\ bytes_left' = bytes_left - Codesize
          /\ carry' = 0
          /\ pc' = "loop"
          /\ UNCHANGED <<ret, appl_ptr, accepted>>
     ELSE /\ Finish(size - bytes_left \div FrameSize)
          /\ UNCHANGED <<carry, bytes_left, wire, frame_count, seq_num,
                         nsamples, packets>>
  /\ UNCHANGED <<size, io_state, hw_ptr, stopped, reset, discarded, ncalls, nperiods>>

\* Mutant: the remainder is encoded but data->count is not cleared.
a2dpWriteLeftoverKeepsCount ==
  /\ pc = "leftover"
  /\ IF HasSpace
     THEN /\ EncodeBlock
          /\ bytes_left' = bytes_left - (Codesize - carry)
          /\ carry' = carry
          /\ pc' = "loop"
          /\ UNCHANGED <<ret, appl_ptr, accepted>>
     ELSE /\ Finish(size - bytes_left \div FrameSize)
          /\ UNCHANGED <<carry, bytes_left, wire, frame_count, seq_num,
                         nsamples, packets>>
  /\ UNCHANGED <<size, io_state, hw_ptr, stopped, reset, discarded, ncalls, nperiods>>

\* The remainder, completed to codesize bytes in data->buffer, is encoded;
\* on an encoding error the write returns at once ("goto done").
a2dp_write_leftover ==
  /\ pc = "leftover"
  /\ IF HasSpace
     THEN /\ EncodeBlock
          /\ bytes_left' = bytes_left - (Codesize - carry)
          /\ carry' = 0
          /\ pc' = "loop"
          /\ UNCHANGED <<ret, appl_ptr, accepted>>
     ELSE /\ Finish(size - bytes_left \div FrameSize)
          /\ UNCHANGED <<carry, bytes_left, wire, frame_count, seq_num,
                         nsamples, packets>>
  /\ UNCHANGED <<size, io_state, hw_ptr, stopped, reset, discarded, ncalls, nperiods>>

\* One turn of the loop over whole blocks, or the copy of what is left
\* into data->buffer ("out:") and the return.
a2dp_write_loop ==
  /\ pc = "loop"
  /\ \/ /\ bytes_left >= Codesize
        /\ HasSpace
        /\ EncodeBlock
        /\ bytes_left' = bytes_left - Codesize
        /\ UNCHANGED <<carry, pc, ret, appl_ptr, accepted>>
     \/ /\ bytes_left >= Codesize
        /\ ~HasSpace
        /\ Finish(size - bytes_left \div FrameSize)
        /\ UNCHANGED <<carry, bytes_left, wire, frame_count, seq_num,
                       nsamples, packets>>
     \/ /\ bytes_left < Codesize
        /\ carry' = carry + bytes_left
        /\ bytes_left' = 0
        /\ Finish(size)
        /\ UNCHANGED <<wire, frame_count, seq_num, nsamples, packets>>
  /\ UNCHANGED <<size, io_state, hw_ptr, stopped, reset, discarded, ncalls, nperiods>>

(***************************************************************************)
(* The rest of the plugin and ALSA, as they touch this state.              *)
(***************************************************************************)

\* playback_hw_thread() advances the hardware pointer one period at a time
\* while the stream runs and is not stopped.
hw_period ==
  /\ io_state = "RUNNING"
  /\ stopped = 0
  /\ nperiods < MaxPeriods
  /\ hw_ptr' = hw_ptr + PeriodSize
  /\ nperiods' = nperiods + 1
  /\ UNCHANGED <<carry, wire, frame_count, seq_num, nsamples, pc, size,
                 bytes_left, io_state, appl_ptr, stopped, reset, ret, packets,
                 accepted, discarded, ncalls>>

\* snd_pcm_drop(): the stop callback bluetooth_playback_stop().
playback_stop ==
  /\ pc = "idle"
  /\ io_state \in {"RUNNING", "XRUN"}
  /\ stopped' = 1
  /\ io_state' = "SETUP"
  /\ UNCHANGED <<carry, wire, frame_count, seq_num, nsamples, pc, size,
                 bytes_left, appl_ptr, hw_ptr, reset, ret, packets, accepted,
                 discarded, ncalls, nperiods>>

\* snd_pcm_prepare(): bluetooth_prepare() clears reset and hw_ptr, ALSA
\* clears appl_ptr.  Neither touches the encoder's buffers.
prepare ==
  /\ pc = "idle"
  /\ io_state \in {"SETUP", "XRUN", "PREPARED"}
  /\ reset' = 0
  /\ hw_ptr' = 0
  /\ appl_ptr' = 0
  /\ io_state' = "PREPARED"
  /\ UNCHANGED <<carry, wire, frame_count, seq_num, nsamples, pc, size,
                 bytes_left, stopped, ret, packets, accepted, discarded,
                 ncalls, nperiods>>

\* snd_pcm_hw_params() again on a stopped stream whose configuration
\* changed: bluetooth_a2dp_setup() resets a2dp->count to the header, so the
\* frames in the wire buffer are lost; frame_count and data->count stay.
a2dp_setup ==
  /\ pc = "idle"
  /\ io_state \in {"SETUP", "PREPARED"}
  /\ wire' = HeaderLen
  /\ discarded' = discarded + (wire - HeaderLen) \div FrameLen
  /\ io_state' = "SETUP"
  /\ UNCHANGED <<carry, frame_count, seq_num, nsamples, pc, size, bytes_left,
                 appl_ptr, hw_ptr, stopped, reset, ret, packets, accepted,
                 ncalls, nperiods>>

\* Every step but a2dp_setup(): a stream configured once.
SteadyNext ==
  \/ a2dp_write
  \/ a2dp_write_leftover
  \/ a2dp_write_loop
  \/ hw_period
  \/ playback_stop
  \/ prepare

Next == SteadyNext \/ a2dp_setup

Spec == Init /\ [][Next]_vars
SteadySpec == Init /\ [][SteadyNext]_vars

-----------------------------------------------------------------------------
TypeOK ==
  /\ carry \in Nat /\ wire \in Nat /\ frame_count \in Nat
  /\ seq_num \in 0..(SeqModulus - 1) /\ nsamples \in 0..(TsModulus - 1)
  /\ pc \in PCs /\ size \in Nat /\ bytes_left \in Nat
  /\ io_state \in IoStates
  /\ appl_ptr \in Nat /\ hw_ptr \in Nat
  /\ stopped \in {0, 1} /\ reset \in {0, 1}
  /\ ret \in Nat \cup {-EPIPE, -EAGAIN}
  /\ packets \in Seq(Packet)
  /\ accepted \in Nat /\ discarded \in Nat
  /\ ncalls \in Nat /\ nperiods \in Nat

\* Encoded frames in the payloads of the packets handed to avdtp_write().
PacketFrames ==
  LET f[i \in 0..Len(packets)] ==
        IF i = 0 THEN 0 ELSE f[i - 1] + (packets[i].len - HeaderLen) \div FrameLen
  IN  f[Len(packets)]

\* No PCM is lost or invented by the write callback: between calls, every
\* byte it reported as consumed is in data->buffer or was encoded into a
\* frame that is in the wire buffer, in a packet, or was thrown away by a
\* reconfiguration (the remainder, leftover and loop paths of
\* bluetooth_a2dp_write() and their error returns).
PcmConserved ==
  pc = "idle" =>
    accepted = carry + Codesize * ((wire - HeaderLen) \div FrameLen
                                   + PacketFrames + discarded)

\* The wire buffer never holds more than link_mtu bytes, the remainder is
\* always less than a block, and data->buffer (link_mtu bytes) is never
\* filled past its end, also when the remainder is completed to a block.
BuffersInBounds ==
  /\ wire <= LinkMtu
  /\ carry < Codesize
  /\ (IF pc = "leftover" THEN Codesize ELSE carry) <= LinkMtu

\* Every packet handed to the socket is well formed: consecutive sequence
\* numbers modulo 2^16, at least one frame, a frame count in the header
\* that is the number of frames in the payload, and at most link_mtu bytes.
PacketsWellFormed ==
  \A i \in DOMAIN packets :
    /\ packets[i].seq = (i - 1) % SeqModulus
    /\ packets[i].frames >= 1
    /\ packets[i].len = HeaderLen + FrameLen * packets[i].frames
    /\ packets[i].len <= LinkMtu

\* The write callback as ALSA sees it: the encoder's steps between a call
\* and its return change nothing ALSA reads.
Contract == INSTANCE PcmWriteContract WITH busy <- pc # "idle"

\* bluetooth_a2dp_write() keeps its contract with the ioplug layer: it
\* returns -EPIPE exactly on an underrun, -EAGAIN only when its autostart
\* fails (and then consumes nothing and leaves the stream PREPARED),
\* otherwise between 0 and the frames it was given, and appl_ptr advances
\* by exactly what it returns,
\* whatever its remainder, encoding and send paths do in between.
WriteContract == Contract!Spec
=============================================================================
