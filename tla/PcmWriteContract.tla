--------------------------- MODULE PcmWriteContract --------------------------
(***************************************************************************)
(* What the A2DP write callback of the ALSA bluetooth plugin promises the  *)
(* ioplug layer, with the encoder left out.  A call of                     *)
(* bluetooth_a2dp_write() for sz frames either reports an underrun         *)
(* (-EPIPE, and the stream goes to XRUN) exactly when the hardware pointer *)
(* has passed the application pointer, or consumes k of the sz frames, for *)
(* some k in 0..sz, returns k, and ALSA advances appl_ptr by k.  When the  *)
(* call should start the stream, starting it may fail instead: the call   *)
(* returns -EAGAIN, consumes nothing and the stream stays PREPARED.  The  *)
(* call may return at once or after internal steps that change nothing    *)
(* ALSA sees (busy).  The clock, stop, prepare and a new configuration    *)
(* are the other transitions of the ALSA state that the callback depends   *)
(* on.                                                                     *)
(***************************************************************************)
EXTENDS Integers

CONSTANTS
  Sizes,           \* frame counts ALSA may pass to one write
  StartThreshold,  \* the start_threshold sw parameter, in frames
  PeriodSize,      \* io->period_size, in frames
  BufferSize       \* io->buffer_size, in frames

VARIABLES
  io_state,  \* io->state
  appl_ptr,  \* io->appl_ptr
  hw_ptr,    \* io->hw_ptr
  ret,       \* the value the last call returned
  busy,      \* a call of the write callback is in progress
  size       \* the frames of the current or last call

vars == <<io_state, appl_ptr, hw_ptr, ret, busy, size>>

EPIPE == 32
EAGAIN == 11

\* Frames ALSA lets the application write.
Avail == BufferSize - (appl_ptr - hw_ptr)

Init ==
  /\ io_state = "PREPARED"
  /\ appl_ptr = 0
  /\ hw_ptr = 0
  /\ ret = 0
  /\ busy = FALSE
  /\ size = 0

\* The call returns k of the n frames it was given, and ALSA advances
\* appl_ptr by k.
Return(n) ==
  \E k \in 0..n :
    /\ ret' = k
    /\ appl_ptr' = appl_ptr + k
    /\ busy' = FALSE

\* ALSA calls the write callback with sz frames: the underrun check, the
\* autostart, which may fail, and either an immediate return or the start
\* of the work.
Call ==
  /\ ~busy
  /\ io_state \in {"PREPARED", "RUNNING"}
  /\ \E sz \in Sizes :
       /\ sz <= Avail
       /\ size' = sz
       /\ IF hw_ptr > appl_ptr
          THEN /\ ret' = -EPIPE
               /\ io_state' = "XRUN"
               /\ UNCHANGED <<appl_ptr, busy>>
          ELSE LET starts == io_state = "PREPARED" /\ appl_ptr >= StartThreshold
               IN  \/ /\ starts
                      /\ ret' = -EAGAIN
                      /\ UNCHANGED <<io_state, appl_ptr, busy>>
                   \/ /\ io_state' = IF starts THEN "RUNNING" ELSE io_state
                      /\ \/ /\ busy' = TRUE
                            /\ UNCHANGED <<ret, appl_ptr>>
                         \/ Return(sz)
  /\ UNCHANGED hw_ptr

\* A call in progress returns.
Complete ==
  /\ busy
  /\ Return(size)
  /\ UNCHANGED <<io_state, hw_ptr, size>>

\* The hardware consumes a period while the stream runs.
HwPeriod ==
  /\ io_state = "RUNNING"
  /\ hw_ptr' = hw_ptr + PeriodSize
  /\ UNCHANGED <<io_state, appl_ptr, ret, busy, size>>

\* snd_pcm_drop().
Stop ==
  /\ ~busy
  /\ io_state \in {"RUNNING", "XRUN"}
  /\ io_state' = "SETUP"
  /\ UNCHANGED <<appl_ptr, hw_ptr, ret, busy, size>>

\* snd_pcm_prepare() resets both pointers.
Prepare ==
  /\ ~busy
  /\ io_state \in {"SETUP", "XRUN", "PREPARED"}
  /\ io_state' = "PREPARED"
  /\ hw_ptr' = 0
  /\ appl_ptr' = 0
  /\ UNCHANGED <<ret, busy, size>>

\* snd_pcm_hw_params() with a new configuration.
Reconfigure ==
  /\ ~busy
  /\ io_state \in {"SETUP", "PREPARED"}
  /\ io_state' = "SETUP"
  /\ UNCHANGED <<appl_ptr, hw_ptr, ret, busy, size>>

Next == Call \/ Complete \/ HwPeriod \/ Stop \/ Prepare \/ Reconfigure

Spec == Init /\ [][Next]_vars
=============================================================================
