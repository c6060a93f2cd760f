-------------------------- MODULE A2dpEncoderProofs --------------------------
(***************************************************************************)
(* TLAPS proofs about A2dpEncoder, the write path of bluetooth_a2dp_write() *)
(* and avdtp_write(): the state keeps its type, the two transfer buffers   *)
(* stay in bounds whenever one PCM block fits in link_mtu bytes, and on a  *)
(* stream configured once every packet is well formed.  They hold for     *)
(* every frame, block, header and MTU size allowed by SizeAssumption.     *)
(***************************************************************************)
EXTENDS A2dpEncoder, SequenceTheorems, TLAPS

\* What holds between the steps of one write: the wire buffer holds the
\* header and at most link_mtu bytes; the remainder is less than a block,
\* it is empty in the loop over whole blocks (the remainder path clears
\* data->count first), and non-empty while it is being completed, with at
\* least the missing bytes still to come; and bytes_left never exceeds
\* the bytes of the write, so the frames returned are a natural number.
EncInv ==
  /\ TypeOK
  /\ HeaderLen <= wire /\ wire <= LinkMtu
  /\ carry < Codesize
  /\ pc = "loop" => carry = 0
  /\ pc = "leftover" => 0 < carry /\ Codesize - carry <= bytes_left
  /\ pc # "idle" => bytes_left <= size * FrameSize

\* On a stream configured once, the wire buffer holds the header and
\* frame_count frames, and seq_num is the number of packets sent modulo
\* 2^16.
SteadyInv ==
  /\ EncInv
  /\ wire = HeaderLen + FrameLen * frame_count
  /\ seq_num = Len(packets) % SeqModulus
  /\ PacketsWellFormed

-----------------------------------------------------------------------------
(***************************************************************************)
(* Arithmetic facts the steps need.                                        *)
(***************************************************************************)

\* The frames a write returns, size - bytes_left \div frame_size, are a
\* natural number when bytes_left is at most the bytes of the write.
LEMMA DivBound ==
  ASSUME NEW a \in Nat, NEW b \in Nat, NEW f \in Nat \ {0}, a <= b * f
  PROVE  a \div f \in 0..b
BY SMT

\* A remainder modulo a positive bound lies below it (seq_num, nsamples).
LEMMA ModRange ==
  ASSUME NEW x \in Int, NEW m \in Nat \ {0}
  PROVE  x % m \in 0..(m - 1)
BY SMT

\* The modulus of seq_num is positive.  (The literal 2^16 is kept hidden
\* elsewhere: the SMT backend times out on a remainder by it.)
LEMMA SeqModulusPos == SeqModulus \in Nat \ {0}
BY DEF SeqModulus

\* The sums a write accounts for stay natural numbers.
LEMMA FinishType ==
  ASSUME TypeOK, NEW n \in Nat, Finish(n)
  PROVE  /\ pc' = "idle" /\ ret' \in Nat
         /\ appl_ptr' \in Nat /\ accepted' \in Nat
BY SizeAssumption DEF Finish, TypeOK

\* avdtp_write() appends a packet of the right shape and resets the wire
\* buffer and the frame count.
LEMMA AvdtpWriteType ==
  ASSUME TypeOK, NEW len \in Nat, NEW frames \in Nat,
         NEW ts \in 0..(TsModulus - 1), AvdtpWrite(len, frames, ts)
  PROVE  /\ packets' \in Seq(Packet) /\ Len(packets') = Len(packets) + 1
         /\ packets'[Len(packets')].seq = seq_num
         /\ packets'[Len(packets')].frames = frames
         /\ packets'[Len(packets')].len = len
         /\ \A i \in 1..Len(packets) : packets'[i] = packets[i]
         /\ wire' = HeaderLen /\ frame_count' = 0
         /\ seq_num' = (seq_num + 1) % SeqModulus
<1>1. PICK fate \in Fates :
       /\ packets' = Append(packets, [seq |-> seq_num, ts |-> ts,
                                      frames |-> frames, len |-> len, fate |-> fate])
       /\ wire' = HeaderLen
       /\ frame_count' = 0
       /\ seq_num' = (seq_num + 1) % SeqModulus
  BY DEF AvdtpWrite
<1>2. [seq |-> seq_num, ts |-> ts, frames |-> frames, len |-> len, fate |-> fate] \in Packet
  BY <1>1 DEF TypeOK, Packet
<1>. QED  BY <1>1, <1>2, AppendProperties DEF TypeOK

\* One encoded block: nsamples advances modulo TsModulus, and the frame
\* is either appended to the wire buffer, when one more frame would still
\* fit below link_mtu, or sent with the packet.
LEMMA EncodeBlockFacts ==
  ASSUME TypeOK, EncodeBlock
  PROVE  /\ nsamples' \in 0..(TsModulus - 1)
         /\ \/ /\ wire + FrameLen + FrameLen >= LinkMtu
               /\ AvdtpWrite(wire + FrameLen, frame_count + 1,
                             (nsamples + SamplesPerBlock) % TsModulus)
            \/ /\ wire + FrameLen + FrameLen < LinkMtu
               /\ wire' = wire + FrameLen /\ frame_count' = frame_count + 1
               /\ UNCHANGED <<seq_num, packets>>
<1>1. nsamples' = (nsamples + SamplesPerBlock) % TsModulus
  BY DEF EncodeBlock
<1>2. nsamples' \in 0..(TsModulus - 1)
  BY <1>1, AlsaAssumption, SizeAssumption DEF TypeOK, SamplesPerBlock
<1>3. CASE wire + FrameLen + FrameLen >= LinkMtu
  BY <1>2, <1>3 DEF EncodeBlock
<1>4. CASE ~(wire + FrameLen + FrameLen >= LinkMtu)
  <2>1. wire + FrameLen + FrameLen < LinkMtu
    BY <1>4, SizeAssumption DEF TypeOK
  <2>. QED  BY <1>2, <1>4, <2>1 DEF EncodeBlock
<1>. QED  BY <1>3, <1>4

\* An encoded block, when a frame fits in the wire buffer, keeps the wire
\* buffer between the header and link_mtu and the encoder state typed.
LEMMA EncodeBlockInv ==
  ASSUME TypeOK, HeaderLen <= wire, wire <= LinkMtu, HasSpace, EncodeBlock
  PROVE  /\ HeaderLen <= wire' /\ wire' <= LinkMtu
         /\ wire' \in Nat /\ frame_count' \in Nat
         /\ seq_num' \in 0..(SeqModulus - 1) /\ nsamples' \in 0..(TsModulus - 1)
         /\ packets' \in Seq(Packet)
<1>1. nsamples' \in 0..(TsModulus - 1)
  BY EncodeBlockFacts
<1>2. CASE /\ wire + FrameLen + FrameLen >= LinkMtu
           /\ AvdtpWrite(wire + FrameLen, frame_count + 1,
                         (nsamples + SamplesPerBlock) % TsModulus)
  <2>1. /\ wire + FrameLen \in Nat /\ frame_count + 1 \in Nat
        /\ (nsamples + SamplesPerBlock) % TsModulus \in 0..(TsModulus - 1)
    BY SizeAssumption, AlsaAssumption, ModRange DEF TypeOK, SamplesPerBlock
  <2>2. /\ packets' \in Seq(Packet) /\ wire' = HeaderLen /\ frame_count' = 0
        /\ seq_num' = (seq_num + 1) % SeqModulus
    BY <2>1, <1>2, AvdtpWriteType
  <2>3. (seq_num + 1) % SeqModulus \in 0..(SeqModulus - 1)
    BY ModRange, SeqModulusPos DEF TypeOK
  <2>. QED  BY <1>1, <2>2, <2>3, SizeAssumption
<1>3. CASE /\ wire + FrameLen + FrameLen < LinkMtu
           /\ wire' = wire + FrameLen /\ frame_count' = frame_count + 1
           /\ UNCHANGED <<seq_num, packets>>
  BY <1>1, <1>3, SizeAssumption DEF TypeOK
<1>. QED  BY <1>2, <1>3, EncodeBlockFacts

\* A remainder is determined by any quotient-remainder decomposition.
LEMMA ModChar ==
  ASSUME NEW a \in Int, NEW m \in Nat \ {0}, NEW q \in Int, NEW r \in 0..(m - 1),
         a = q * m + r
  PROVE  a % m = r
BY SMT
\* seq_num, kept modulo 2^16, stays the number of packets modulo 2^16.
LEMMA ModSucc ==
  ASSUME NEW a \in Nat, NEW m \in Nat \ {0}
  PROVE  ((a % m) + 1) % m = (a + 1) % m
<1>1. PICK q \in Int, r \in 0..(m - 1) : a = q * m + r /\ a % m = r
  <2>1. a \div m \in Int  BY SMT
  <2>2. a = (a \div m) * m + (a % m)  BY Z3
  <2>3. a % m \in 0..(m - 1)  BY SMT
  <2>. QED  BY <2>1, <2>2, <2>3
<1>2. CASE r + 1 < m
  <2>1. (r + 1) % m = r + 1  BY <1>2, ModChar, SMT
  <2>2. (a + 1) % m = r + 1
    <3>1. a + 1 = q * m + (r + 1)  BY <1>1
    <3>2. a + 1 \in Int /\ r + 1 \in 0..(m - 1)  BY <1>2
    <3>. QED  BY <3>1, <3>2, ModChar
  <2>. QED  BY <1>1, <2>1, <2>2
<1>3. CASE r + 1 = m
  <2>1. (r + 1) % m = 0
    <3>1. r + 1 = 1 * m + 0  BY <1>3
    <3>. QED  BY <3>1, ModChar
  <2>2. (a + 1) % m = 0
    <3>1. a + 1 = (q + 1) * m + 0  BY <1>1, <1>3
    <3>2. a + 1 \in Int /\ q + 1 \in Int /\ 0 \in 0..(m - 1)  OBVIOUS
    <3>. QED  BY <3>1, <3>2, ModChar
  <2>. QED  BY <1>1, <2>1, <2>2
<1>. QED  BY <1>2, <1>3
\* On a stream configured once, an encoded block keeps the wire buffer
\* at the header plus frame_count frames and seq_num at the packet count,
\* and the packet it may send is well formed: its header counts the frames
\* in it, its sequence number follows the last one, and it fits link_mtu.
LEMMA EncodeBlockSteady ==
  ASSUME TypeOK, HasSpace, EncodeBlock,
         wire = HeaderLen + FrameLen * frame_count,
         seq_num = Len(packets) % SeqModulus,
         PacketsWellFormed
  PROVE  /\ wire' = HeaderLen + FrameLen * frame_count'
         /\ seq_num' = Len(packets') % SeqModulus
         /\ PacketsWellFormed'
<1>0. Len(packets) \in Nat /\ DOMAIN packets = 1..Len(packets)
  BY LenProperties DEF TypeOK
<1>1. CASE /\ wire + FrameLen + FrameLen >= LinkMtu
           /\ AvdtpWrite(wire + FrameLen, frame_count + 1,
                         (nsamples + SamplesPerBlock) % TsModulus)
  <2>1. /\ wire + FrameLen \in Nat /\ frame_count + 1 \in Nat
        /\ (nsamples + SamplesPerBlock) % TsModulus \in 0..(TsModulus - 1)
    BY SizeAssumption, AlsaAssumption, ModRange DEF TypeOK, SamplesPerBlock
  <2>2. /\ packets' \in Seq(Packet) /\ Len(packets') = Len(packets) + 1
        /\ packets'[Len(packets')].seq = seq_num
        /\ packets'[Len(packets')].frames = frame_count + 1
        /\ packets'[Len(packets')].len = wire + FrameLen
        /\ \A i \in 1..Len(packets) : packets'[i] = packets[i]
        /\ wire' = HeaderLen /\ frame_count' = 0
        /\ seq_num' = (seq_num + 1) % SeqModulus
    BY <2>1, <1>1, AvdtpWriteType
  <2>3. wire' = HeaderLen + FrameLen * frame_count'
    BY <2>2, SizeAssumption
  <2>4. seq_num' = Len(packets') % SeqModulus
    BY <2>2, <1>0, ModSucc, SeqModulusPos
  <2>5. DOMAIN packets' = 1..(Len(packets) + 1)
    BY <2>2, LenProperties
  <2>6. PacketsWellFormed'
    <3>. SUFFICES ASSUME NEW i \in DOMAIN packets'
                  PROVE  /\ packets'[i].seq = (i - 1) % SeqModulus
                         /\ packets'[i].frames >= 1
                         /\ packets'[i].len = HeaderLen + FrameLen * packets'[i].frames
                         /\ packets'[i].len <= LinkMtu
      BY DEF PacketsWellFormed
    <3>1. CASE i \in 1..Len(packets)
      BY <3>1, <2>2, <1>0 DEF PacketsWellFormed
    <3>2. CASE i = Len(packets) + 1
      <4>1. packets'[i].seq = (i - 1) % SeqModulus
        BY <3>2, <2>2, <1>0
      <4>2. packets'[i].frames = frame_count + 1 /\ packets'[i].len = wire + FrameLen
        BY <3>2, <2>2
      <4>3. /\ frame_count + 1 >= 1
            /\ wire + FrameLen = HeaderLen + FrameLen * (frame_count + 1)
            /\ wire + FrameLen <= LinkMtu
        BY SizeAssumption DEF TypeOK, HasSpace
      <4>. QED  BY <4>1, <4>2, <4>3
    <3>. QED  BY <3>1, <3>2, <2>5, <1>0
  <2>. QED  BY <2>3, <2>4, <2>6
<1>2. CASE /\ wire + FrameLen + FrameLen < LinkMtu
           /\ wire' = wire + FrameLen /\ frame_count' = frame_count + 1
           /\ UNCHANGED <<seq_num, packets>>
  <2>1. wire' = HeaderLen + FrameLen * frame_count'
    BY <1>2, SizeAssumption DEF TypeOK
  <2>. QED  BY <2>1, <1>2 DEF PacketsWellFormed
<1>. QED  BY <1>1, <1>2, EncodeBlockFacts

-----------------------------------------------------------------------------
(***************************************************************************)
(* EncInv is inductive.                                                    *)
(***************************************************************************)

\* The first part of bluetooth_a2dp_write() keeps EncInv: the underrun
\* return, the remainder extended and returned, the remainder to be
\* completed, and the loop entered with an empty remainder.
LEMMA WriteStep ==
  ASSUME EncInv, a2dp_write
  PROVE  EncInv'
<1>0. /\ pc = "idle" /\ ncalls' = ncalls + 1
      /\ UNCHANGED <<wire, frame_count, seq_num, nsamples, hw_ptr, packets,
                     discarded, nperiods>>
  BY DEF a2dp_write
<1>t. TypeOK
  BY DEF EncInv
<1>n. ncalls' \in Nat
  BY <1>0, <1>t DEF TypeOK
<1>1. PICK sz \in Sizes :
        /\ size' = sz
        /\ IF hw_ptr > appl_ptr
           THEN /\ stopped' = 1
                /\ reset' = 1
                /\ ret' = -EPIPE
                /\ io_state' = "XRUN"
                /\ UNCHANGED <<carry, pc, bytes_left, appl_ptr, accepted>>
           ELSE LET starts == io_state = "PREPARED" /\ appl_ptr >= StartThreshold
                    bytes  == sz * FrameSize
                IN  \/ /\ starts
                       /\ StartFails
                    \/ /\ io_state' = IF starts THEN "RUNNING" ELSE io_state
                       /\ stopped' = IF starts THEN 0 ELSE stopped
                       /\ UNCHANGED reset
                       /\ \/ /\ carry > 0 /\ Codesize - carry > bytes
                             /\ carry' = carry + bytes
                             /\ bytes_left' = 0
                             /\ Finish(sz)
                          \/ /\ carry > 0 /\ Codesize - carry <= bytes
                             /\ pc' = "leftover"
                             /\ bytes_left' = bytes
                             /\ UNCHANGED <<carry, ret, appl_ptr, accepted>>
                          \/ /\ carry = 0
                             /\ pc' = "loop"
                             /\ bytes_left' = bytes
                             /\ UNCHANGED <<carry, ret, appl_ptr, accepted>>
  BY DEF a2dp_write
<1>s. sz \in Nat \ {0} /\ sz * FrameSize \in Nat /\ size' = sz
  BY <1>1, AlsaAssumption, SizeAssumption
<1>2. CASE hw_ptr > appl_ptr
  <2>1. /\ stopped' = 1 /\ reset' = 1 /\ ret' = -EPIPE /\ io_state' = "XRUN"
        /\ UNCHANGED <<carry, pc, bytes_left, appl_ptr, accepted>>
    BY <1>1, <1>2
  <2>2. io_state' \in IoStates /\ ret' \in Nat \cup {-EPIPE, -EAGAIN}
    BY <2>1 DEF IoStates
  <2>. QED  BY <2>1, <2>2, <1>0, <1>t, <1>n, <1>s DEF EncInv, TypeOK
<1>4. CASE ~(hw_ptr > appl_ptr) /\ (io_state = "PREPARED" /\ appl_ptr >= StartThreshold /\ StartFails)
  <2>1. /\ stopped' = 0 /\ ret' = -EAGAIN
        /\ UNCHANGED <<io_state, reset, carry, pc, bytes_left, appl_ptr, accepted>>
    BY <1>4 DEF StartFails
  <2>. QED  BY <2>1, <1>0, <1>t, <1>n, <1>s DEF EncInv, TypeOK
<1>3. CASE ~(hw_ptr > appl_ptr) /\ ~(io_state = "PREPARED" /\ appl_ptr >= StartThreshold /\ StartFails)
  <2>b. PICK b \in Nat : b = sz * FrameSize
    BY <1>s
  <2>0. /\ io_state' \in IoStates /\ stopped' \in {0, 1} /\ reset' = reset
    BY <1>1, <1>3, <1>t DEF TypeOK, IoStates
  <2>c. \/ /\ carry > 0 /\ Codesize - carry > b
           /\ carry' = carry + b
           /\ bytes_left' = 0
           /\ Finish(sz)
        \/ /\ carry > 0 /\ Codesize - carry <= b
           /\ pc' = "leftover"
           /\ bytes_left' = b
           /\ UNCHANGED <<carry, ret, appl_ptr, accepted>>
        \/ /\ carry = 0
           /\ pc' = "loop"
           /\ bytes_left' = b
           /\ UNCHANGED <<carry, ret, appl_ptr, accepted>>
    BY <1>1, <1>3, <2>b
  <2>1. CASE carry > 0 /\ Codesize - carry > b
    <3>0. ~(Codesize - carry <= b) /\ ~(carry = 0)
      BY <2>1, <2>b, <1>t, SizeAssumption DEF TypeOK
    <3>1. carry' = carry + b /\ bytes_left' = 0 /\ Finish(sz)
      BY <2>c, <3>0, Zenon
    <3>2. carry' \in Nat /\ carry' < Codesize
      <4>1. carry' = carry + b /\ b \in Nat
        BY <3>1, <2>b
      <4>2. carry \in Nat
        BY <1>t DEF TypeOK
      <4>. QED  BY <4>1, <4>2, <2>1, SizeAssumption
    <3>3. pc' = "idle" /\ ret' \in Nat /\ appl_ptr' \in Nat /\ accepted' \in Nat
      BY <3>1, <1>s, <1>t, FinishType
    <3>. QED  BY <3>1, <3>2, <3>3, <2>0, <1>0, <1>t, <1>n, <1>s DEF EncInv, TypeOK, PCs
  <2>2. CASE carry > 0 /\ ~(Codesize - carry > b)
    <3>1. /\ pc' = "leftover" /\ bytes_left' = b
          /\ UNCHANGED <<carry, ret, appl_ptr, accepted>>
      BY <2>c, <2>2
    <3>2. Codesize - carry <= bytes_left'
      BY <3>1, <2>2, <1>s, <1>t, SizeAssumption DEF TypeOK
    <3>. QED  BY <3>1, <3>2, <2>2, <2>b, <2>0, <1>0, <1>t, <1>n, <1>s DEF EncInv, TypeOK, PCs
  <2>3. CASE carry = 0
    <3>1. /\ pc' = "loop" /\ bytes_left' = b
          /\ UNCHANGED <<carry, ret, appl_ptr, accepted>>
      BY <2>c, <2>3
    <3>2. carry' = 0
      BY <3>1, <2>3
    <3>. QED  BY <3>1, <3>2, <2>b, <2>0, <1>0, <1>t, <1>n, <1>s DEF EncInv, TypeOK, PCs
  <2>. QED  BY <2>1, <2>2, <2>3, <1>t DEF TypeOK
<1>. QED  BY <1>2, <1>3, <1>4

\* Completing and encoding the remainder keeps EncInv: it clears
\* data->count and takes the missing bytes off bytes_left; on an encoding
\* error the write returns.
LEMMA LeftoverStep ==
  ASSUME EncInv, a2dp_write_leftover
  PROVE  EncInv'
<1>0. pc = "leftover" /\ 0 < carry /\ Codesize - carry <= bytes_left
      /\ bytes_left <= size * FrameSize
  BY DEF a2dp_write_leftover, EncInv
<1>u. UNCHANGED <<size, io_state, hw_ptr, stopped, reset, discarded, ncalls, nperiods>>
  BY DEF a2dp_write_leftover
<1>t. TypeOK
  BY DEF EncInv
<1>1. CASE HasSpace
  <2>1. /\ EncodeBlock
        /\ bytes_left' = bytes_left - (Codesize - carry)
        /\ carry' = 0
        /\ pc' = "loop"
        /\ UNCHANGED <<ret, appl_ptr, accepted>>
    BY <1>1 DEF a2dp_write_leftover
  <2>2. bytes_left' \in Nat /\ bytes_left' <= size' * FrameSize
    <3>1. bytes_left' \in Nat /\ bytes_left' <= bytes_left
      BY <2>1, <1>0, <1>t, SizeAssumption DEF EncInv, TypeOK
    <3>2. size' * FrameSize = size * FrameSize
      BY <1>u
    <3>. QED  BY <3>1, <3>2, <1>0, <1>t, SizeAssumption DEF TypeOK
  <2>3. /\ HeaderLen <= wire' /\ wire' <= LinkMtu
        /\ wire' \in Nat /\ frame_count' \in Nat
        /\ seq_num' \in 0..(SeqModulus - 1) /\ nsamples' \in 0..(TsModulus - 1)
        /\ packets' \in Seq(Packet)
    BY <1>1, <2>1, <1>t, EncodeBlockInv DEF EncInv
  <2>. QED  BY <2>1, <2>2, <2>3, <1>u, SizeAssumption DEF EncInv, TypeOK, PCs
<1>2. CASE ~HasSpace
  <2>1. /\ Finish(size - bytes_left \div FrameSize)
        /\ UNCHANGED <<carry, bytes_left, wire, frame_count, seq_num,
                       nsamples, packets>>
    BY <1>2 DEF a2dp_write_leftover
  <2>2. size - bytes_left \div FrameSize \in Nat
    <3>1. bytes_left \div FrameSize \in 0..size
      BY <1>0, <1>t, DivBound, SizeAssumption DEF TypeOK
    <3>. QED  BY <3>1, <1>t DEF TypeOK
  <2>3. pc' = "idle" /\ ret' \in Nat /\ appl_ptr' \in Nat /\ accepted' \in Nat
    BY <2>1, <2>2, <1>t, FinishType
  <2>. QED  BY <2>1, <2>3, <1>u DEF EncInv, TypeOK, PCs
<1>. QED  BY <1>1, <1>2

\* A turn of the loop over whole blocks, its error return, and the copy of
\* the rest into data->buffer keep EncInv.
LEMMA LoopStep ==
  ASSUME EncInv, a2dp_write_loop
  PROVE  EncInv'
<1>0. pc = "loop" /\ carry = 0 /\ bytes_left <= size * FrameSize
  BY DEF a2dp_write_loop, EncInv
<1>u. UNCHANGED <<size, io_state, hw_ptr, stopped, reset, discarded, ncalls, nperiods>>
  BY DEF a2dp_write_loop
<1>t. TypeOK
  BY DEF EncInv
<1>1. CASE bytes_left >= Codesize /\ HasSpace /\ EncodeBlock
           /\ bytes_left' = bytes_left - Codesize
           /\ UNCHANGED <<carry, pc, ret, appl_ptr, accepted>>
  <2>1. bytes_left' \in Nat /\ bytes_left' <= size' * FrameSize
    BY <1>0, <1>1, <1>t, <1>u, SizeAssumption DEF TypeOK
  <2>2. /\ HeaderLen <= wire' /\ wire' <= LinkMtu
        /\ wire' \in Nat /\ frame_count' \in Nat
        /\ seq_num' \in 0..(SeqModulus - 1) /\ nsamples' \in 0..(TsModulus - 1)
        /\ packets' \in Seq(Packet)
    BY <1>1, <1>t, EncodeBlockInv DEF EncInv
  <2>. QED  BY <2>1, <2>2, <1>u, <1>0, <1>1 DEF EncInv, TypeOK, PCs
<1>2. CASE bytes_left >= Codesize /\ ~HasSpace
           /\ Finish(size - bytes_left \div FrameSize)
           /\ UNCHANGED <<carry, bytes_left, wire, frame_count, seq_num,
                          nsamples, packets>>
  <2>1. size - bytes_left \div FrameSize \in Nat
    <3>1. bytes_left \div FrameSize \in 0..size
      BY <1>0, <1>t, DivBound, SizeAssumption DEF TypeOK
    <3>. QED  BY <3>1, <1>t DEF TypeOK
  <2>2. pc' = "idle" /\ ret' \in Nat /\ appl_ptr' \in Nat /\ accepted' \in Nat
    BY <2>1, <1>2, <1>t, FinishType
  <2>. QED  BY <2>2, <1>2, <1>u DEF EncInv, TypeOK, PCs
<1>3. CASE bytes_left < Codesize
           /\ carry' = carry + bytes_left
           /\ bytes_left' = 0
           /\ Finish(size)
           /\ UNCHANGED <<wire, frame_count, seq_num, nsamples, packets>>
  <2>1. pc' = "idle" /\ ret' \in Nat /\ appl_ptr' \in Nat /\ accepted' \in Nat
    BY <1>3, <1>t, FinishType DEF TypeOK
  <2>2. carry' \in Nat /\ carry' < Codesize
    BY <1>0, <1>3, <1>t, SizeAssumption DEF TypeOK
  <2>. QED  BY <2>1, <2>2, <1>3, <1>u DEF EncInv, TypeOK, PCs
<1>. QED  BY <1>1, <1>2, <1>3 DEF a2dp_write_loop

\* The clock, stop, prepare and a reconfiguration keep EncInv.
LEMMA OtherStep ==
  ASSUME EncInv, hw_period \/ playback_stop \/ prepare \/ a2dp_setup
  PROVE  EncInv'
<1>. USE SizeAssumption, AlsaAssumption
<1>1. CASE hw_period
  <2>1. hw_ptr' \in Nat /\ nperiods' \in Nat
    BY <1>1 DEF hw_period, EncInv, TypeOK
  <2>. QED  BY <2>1, <1>1 DEF hw_period, EncInv, TypeOK
<1>2. CASE playback_stop
  <2>1. stopped' \in {0, 1} /\ io_state' \in IoStates
    BY <1>2 DEF playback_stop, IoStates
  <2>. QED  BY <2>1, <1>2 DEF playback_stop, EncInv, TypeOK
<1>3. CASE prepare
  <2>1. reset' \in {0, 1} /\ hw_ptr' \in Nat /\ appl_ptr' \in Nat
        /\ io_state' \in IoStates
    BY <1>3 DEF prepare, IoStates
  <2>. QED  BY <2>1, <1>3 DEF prepare, EncInv, TypeOK
<1>4. CASE a2dp_setup
  <2>1. (wire - HeaderLen) \div FrameLen \in Nat
    BY DEF EncInv, TypeOK
  <2>2. discarded' \in Nat /\ io_state' \in IoStates
    BY <2>1, <1>4 DEF a2dp_setup, EncInv, TypeOK, IoStates
  <2>3. wire' = HeaderLen
    BY <1>4 DEF a2dp_setup
  <2>. QED  BY <2>2, <2>3, <1>4 DEF a2dp_setup, EncInv, TypeOK
<1>. QED  BY <1>1, <1>2, <1>3, <1>4
\* The state bluetooth_a2dp_init() and the first prepare leave satisfies
\* EncInv.
LEMMA InitEncInv ==
  Init => EncInv
<1>. SUFFICES ASSUME Init PROVE EncInv
  OBVIOUS
<1>1. <<>> \in Seq(Packet)
  BY EmptySeq
<1>2. 0 \in 0..(SeqModulus - 1)
  BY SeqModulusPos
<1>. QED  BY <1>1, <1>2, SizeAssumption, AlsaAssumption DEF Init, EncInv, TypeOK, PCs, IoStates

\* Every step of the write callback, the clock, stop, prepare and
\* reconfiguration keeps EncInv.
LEMMA EncInvStep ==
  EncInv /\ [Next]_vars => EncInv'
<1>. SUFFICES ASSUME EncInv, [Next]_vars PROVE EncInv'
  OBVIOUS
<1>1. CASE a2dp_write           BY <1>1, WriteStep
<1>2. CASE a2dp_write_leftover  BY <1>2, LeftoverStep
<1>3. CASE a2dp_write_loop      BY <1>3, LoopStep
<1>4. CASE hw_period \/ playback_stop \/ prepare \/ a2dp_setup
  BY <1>4, OtherStep
<1>5. CASE UNCHANGED vars
  BY <1>5 DEF vars, EncInv, TypeOK
<1>. QED  BY <1>1, <1>2, <1>3, <1>4, <1>5 DEF Next, SteadyNext

-----------------------------------------------------------------------------
(***************************************************************************)
(* SteadyInv is inductive for a stream configured once.                    *)
(***************************************************************************)

\* A step that touches neither the wire buffer nor the packets keeps the
\* framing conjuncts of SteadyInv.
LEMMA FramingUnchanged ==
  ASSUME wire = HeaderLen + FrameLen * frame_count,
         seq_num = Len(packets) % SeqModulus,
         PacketsWellFormed,
         UNCHANGED <<wire, frame_count, seq_num, packets>>
  PROVE  /\ wire' = HeaderLen + FrameLen * frame_count'
         /\ seq_num' = Len(packets') % SeqModulus
         /\ PacketsWellFormed'
BY DEF PacketsWellFormed

\* Every step of a stream configured once (everything but
\* bluetooth_a2dp_setup() on a new configuration) keeps SteadyInv.
LEMMA SteadyInvStep ==
  SteadyInv /\ [SteadyNext]_vars => SteadyInv'
<1>. SUFFICES ASSUME SteadyInv, [SteadyNext]_vars PROVE SteadyInv'
  OBVIOUS
<1>e. EncInv'
  BY EncInvStep DEF SteadyInv, Next
<1>t. TypeOK /\ HeaderLen <= wire /\ wire <= LinkMtu
  BY DEF SteadyInv, EncInv
<1>. DEFINE Framing == /\ wire = HeaderLen + FrameLen * frame_count
                      /\ seq_num = Len(packets) % SeqModulus
                      /\ PacketsWellFormed
<1>f. Framing
  BY DEF SteadyInv
<1>. SUFFICES Framing'
  BY <1>e DEF SteadyInv
<1>1. CASE UNCHANGED <<wire, frame_count, seq_num, packets>>
  BY <1>1, <1>f, FramingUnchanged
<1>2. CASE HasSpace /\ EncodeBlock
  BY <1>2, <1>f, <1>t, EncodeBlockSteady
<1>3. CASE a2dp_write_leftover
  BY <1>1, <1>2, <1>3 DEF a2dp_write_leftover
<1>4. CASE a2dp_write_loop
  BY <1>1, <1>2, <1>4 DEF a2dp_write_loop
<1>5. CASE a2dp_write \/ hw_period \/ playback_stop \/ prepare \/ UNCHANGED vars
  BY <1>1, <1>5 DEF a2dp_write, hw_period, playback_stop, prepare, vars
<1>. QED  BY <1>3, <1>4, <1>5 DEF SteadyNext

-----------------------------------------------------------------------------
(***************************************************************************)
(* A2dpEncoder implements PcmWriteContract under busy <- pc # "idle".      *)
(***************************************************************************)

\* A return of the callback after its internal steps is a return of the
\* contract: the frames are between 0 and the frames of the call.
LEMMA FinishRefines ==
  ASSUME NEW n \in 0..size, pc # "idle", Finish(n),
         UNCHANGED <<io_state, hw_ptr, size>>
  PROVE  Contract!Complete
BY DEF Finish, Contract!Complete, Contract!Return

\* The entry of bluetooth_a2dp_write() is a call of the contract: an
\* underrun, an immediate return of all sz frames, or the start of work.
LEMMA WriteRefines ==
  ASSUME EncInv, a2dp_write
  PROVE  Contract!Call
<1>0. pc = "idle" /\ UNCHANGED hw_ptr
  BY DEF a2dp_write
<1>1. PICK sz \in Sizes :
        /\ sz <= Avail
        /\ size' = sz
        /\ IF hw_ptr > appl_ptr
           THEN /\ stopped' = 1
                /\ reset' = 1
                /\ ret' = -EPIPE
                /\ io_state' = "XRUN"
                /\ UNCHANGED <<carry, pc, bytes_left, appl_ptr, accepted>>
           ELSE LET starts == io_state = "PREPARED" /\ appl_ptr >= StartThreshold
                    bytes  == sz * FrameSize
                IN  \/ /\ starts
                       /\ StartFails
                    \/ /\ io_state' = IF starts THEN "RUNNING" ELSE io_state
                       /\ stopped' = IF starts THEN 0 ELSE stopped
                       /\ UNCHANGED reset
                       /\ \/ /\ carry > 0 /\ Codesize - carry > bytes
                             /\ carry' = carry + bytes
                             /\ bytes_left' = 0
                             /\ Finish(sz)
                          \/ /\ carry > 0 /\ Codesize - carry <= bytes
                             /\ pc' = "leftover"
                             /\ bytes_left' = bytes
                             /\ UNCHANGED <<carry, ret, appl_ptr, accepted>>
                          \/ /\ carry = 0
                             /\ pc' = "loop"
                             /\ bytes_left' = bytes
                             /\ UNCHANGED <<carry, ret, appl_ptr, accepted>>
  BY DEF a2dp_write
<1>2. sz \in Nat
  BY AlsaAssumption
<1>3. /\ ~(pc # "idle") /\ io_state \in {"PREPARED", "RUNNING"}
      /\ sz <= Contract!Avail /\ size' = sz
  BY <1>0, <1>1 DEF a2dp_write, Avail, Contract!Avail
<1>4. CASE hw_ptr > appl_ptr
  <2>1. /\ ret' = -Contract!EPIPE /\ io_state' = "XRUN"
        /\ UNCHANGED <<appl_ptr, pc # "idle">>
    BY <1>1, <1>4 DEF EPIPE, Contract!EPIPE
  <2>. QED  BY <1>0, <1>1, <1>3, <1>4, <2>1, Zenon DEF Contract!Call
<1>6. CASE ~(hw_ptr > appl_ptr) /\ (io_state = "PREPARED" /\ appl_ptr >= StartThreshold /\ StartFails)
  <2>1. /\ io_state = "PREPARED" /\ appl_ptr >= StartThreshold
        /\ ret' = -Contract!EAGAIN
        /\ UNCHANGED <<io_state, appl_ptr, pc # "idle">>
    BY <1>0, <1>1, <1>6 DEF StartFails, EAGAIN, Contract!EAGAIN
  <2>. QED  BY <1>0, <1>1, <1>3, <1>6, <2>1, Zenon DEF Contract!Call
<1>5. CASE ~(hw_ptr > appl_ptr) /\ ~(io_state = "PREPARED" /\ appl_ptr >= StartThreshold /\ StartFails)
  <2>1. io_state' = IF io_state = "PREPARED" /\ appl_ptr >= StartThreshold
                    THEN "RUNNING" ELSE io_state
    BY <1>1, <1>5
  <2>2. \/ /\ (pc # "idle")' = TRUE
           /\ UNCHANGED <<ret, appl_ptr>>
        \/ Contract!Return(sz)
    <3>1. CASE Finish(sz)
      <4>1. sz \in 0..sz
        BY <1>2
      <4>. QED  BY <3>1, <4>1 DEF Finish, Contract!Return
    <3>2. CASE ~Finish(sz)
      BY <3>2, <1>1, <1>5
    <3>. QED  BY <3>1, <3>2
  <2>. QED  BY <1>0, <1>1, <1>3, <1>5, <2>1, <2>2, Zenon DEF Contract!Call
<1>. QED  BY <1>4, <1>5, <1>6

\* The frames returned on an encoding error, size - bytes_left \div
\* frame_size, are between 0 and the frames of the call.
LEMMA ErrorReturnInRange ==
  ASSUME EncInv, pc # "idle"
  PROVE  size - bytes_left \div FrameSize \in 0..size
<1>1. bytes_left \div FrameSize \in 0..size
  BY SizeAssumption, DivBound DEF EncInv, TypeOK
<1>. QED  BY <1>1 DEF EncInv, TypeOK

\* Completing the remainder is invisible to ALSA; its error return is a
\* return of the contract.
LEMMA LeftoverRefines ==
  ASSUME EncInv, a2dp_write_leftover
  PROVE  Contract!Complete \/ UNCHANGED Contract!vars
<1>0. pc = "leftover" /\ UNCHANGED <<io_state, hw_ptr, size>>
  BY DEF a2dp_write_leftover
<1>1. CASE HasSpace
  BY <1>0, <1>1 DEF a2dp_write_leftover, Contract!vars
<1>2. CASE ~HasSpace
  <2>1. Finish(size - bytes_left \div FrameSize)
    BY <1>2 DEF a2dp_write_leftover
  <2>2. size - bytes_left \div FrameSize \in 0..size
    BY <1>0, ErrorReturnInRange
  <2>. QED  BY <1>0, <2>1, <2>2, FinishRefines
<1>. QED  BY <1>1, <1>2

\* A turn of the loop over whole blocks is invisible to ALSA; its error
\* return and the return after the copy of the rest are returns of the
\* contract.
LEMMA LoopRefines ==
  ASSUME EncInv, a2dp_write_loop
  PROVE  Contract!Complete \/ UNCHANGED Contract!vars
<1>0. pc = "loop" /\ UNCHANGED <<io_state, hw_ptr, size>>
  BY DEF a2dp_write_loop
<1>1. CASE bytes_left >= Codesize /\ HasSpace /\ EncodeBlock
           /\ bytes_left' = bytes_left - Codesize
           /\ UNCHANGED <<carry, pc, ret, appl_ptr, accepted>>
  BY <1>0, <1>1 DEF Contract!vars
<1>2. CASE bytes_left >= Codesize /\ ~HasSpace
           /\ Finish(size - bytes_left \div FrameSize)
  <2>1. size - bytes_left \div FrameSize \in 0..size
    BY <1>0, ErrorReturnInRange
  <2>. QED  BY <1>0, <1>2, <2>1, FinishRefines
<1>3. CASE bytes_left < Codesize /\ Finish(size)
  <2>1. size \in 0..size
    BY DEF EncInv, TypeOK
  <2>. QED  BY <1>0, <1>3, <2>1, FinishRefines
<1>. QED  BY <1>1, <1>2, <1>3 DEF a2dp_write_loop

\* The clock, stop, prepare and a reconfiguration are the contract's.
LEMMA OtherRefines ==
  ASSUME hw_period \/ playback_stop \/ prepare \/ a2dp_setup
  PROVE  Contract!HwPeriod \/ Contract!Stop \/ Contract!Prepare \/ Contract!Reconfigure
<1>1. CASE hw_period     BY <1>1 DEF hw_period, Contract!HwPeriod
<1>2. CASE playback_stop BY <1>2 DEF playback_stop, Contract!Stop
<1>3. CASE prepare       BY <1>3 DEF prepare, Contract!Prepare
<1>4. CASE a2dp_setup    BY <1>4 DEF a2dp_setup, Contract!Reconfigure
<1>. QED  BY <1>1, <1>2, <1>3, <1>4

\* Every step of A2dpEncoder is a step of the contract or leaves what ALSA
\* sees unchanged.
LEMMA RefinementStep ==
  EncInv /\ [Next]_vars => [Contract!Next]_Contract!vars
<1>. SUFFICES ASSUME EncInv, [Next]_vars PROVE [Contract!Next]_Contract!vars
  OBVIOUS
<1>1. CASE a2dp_write           BY <1>1, WriteRefines DEF Contract!Next
<1>2. CASE a2dp_write_leftover  BY <1>2, LeftoverRefines DEF Contract!Next
<1>3. CASE a2dp_write_loop      BY <1>3, LoopRefines DEF Contract!Next
<1>4. CASE hw_period \/ playback_stop \/ prepare \/ a2dp_setup
  BY <1>4, OtherRefines DEF Contract!Next
<1>5. CASE UNCHANGED vars       BY <1>5 DEF vars, Contract!vars
<1>. QED  BY <1>1, <1>2, <1>3, <1>4, <1>5 DEF Next, SteadyNext

-----------------------------------------------------------------------------
(***************************************************************************)
(* Theorems.                                                               *)
(***************************************************************************)

\* Whatever the interleaving of writes, underruns, restarts and
\* reconfigurations, every variable of the write path keeps its type; in
\* particular bluetooth_a2dp_write() returns a natural frame count, -EPIPE
\* on an underrun or the -EAGAIN of a failed autostart, and no other
\* negative value.
THEOREM TypeCorrect == Spec => []TypeOK
<1>1. Init => EncInv             BY InitEncInv
<1>2. EncInv /\ [Next]_vars => EncInv'  BY EncInvStep
<1>3. EncInv => TypeOK           BY DEF EncInv
<1>. QED  BY <1>1, <1>2, <1>3, PTL DEF Spec

\* When one PCM block (codesize bytes) fits in link_mtu bytes, the write
\* path never overruns a2dp->buffer, keeps data->count below codesize, and
\* completes the remainder within a buffer of link_mtu bytes.  The
\* hypothesis is the one the remainder path of bluetooth_a2dp_write()
\* silently relies on: data->buffer is link_mtu bytes long.
THEOREM BuffersInBoundsWhenBlockFits ==
  ASSUME Codesize <= LinkMtu
  PROVE  Spec => []BuffersInBounds
<1>1. EncInv => BuffersInBounds
  BY SizeAssumption DEF EncInv, TypeOK, BuffersInBounds
<1>. QED  BY <1>1, InitEncInv, EncInvStep, PTL DEF Spec

\* On a stream configured once, every packet avdtp_write() hands to the
\* socket, whatever became of it, is well formed: sequence numbers count
\* the packets modulo 2^16, the header's frame count is the number of
\* frames in the payload, and the packet fits link_mtu.  (A
\* reconfiguration after playback breaks the frame count: see the run
\* encoder_reconfig.)
THEOREM SteadyPacketsWellFormed == SteadySpec => []PacketsWellFormed
<1>1. Init => SteadyInv
  <2>. SUFFICES ASSUME Init PROVE SteadyInv
    OBVIOUS
  <2>1. EncInv  BY InitEncInv
  <2>2. Len(<<>>) = 0 /\ 0 % SeqModulus = 0  BY EmptySeq, SeqModulusPos
  <2>. QED  BY <2>1, <2>2, SizeAssumption DEF Init, SteadyInv, PacketsWellFormed
<1>2. SteadyInv => PacketsWellFormed  BY DEF SteadyInv
<1>. QED  BY <1>1, <1>2, SteadyInvStep, PTL DEF SteadySpec

\* A2dpEncoder implements the write callback's contract with the ioplug
\* layer: a call returns -EPIPE exactly on an underrun, -EAGAIN only when
\* the autostart's thread cannot be created (nothing consumed, the stream
\* still PREPARED), otherwise between 0 and the frames it was given,
\* appl_ptr advances by exactly what it
\* returns, and the remainder, encoding and send steps in between change
\* nothing ALSA reads.
THEOREM WriteContractRefined == Spec => WriteContract
<1>1. Init => Contract!Init
  BY DEF Init, Contract!Init
<1>. QED  BY <1>1, InitEncInv, EncInvStep, RefinementStep, PTL
          DEF Spec, WriteContract, Contract!Spec

=============================================================================
