------------------------- MODULE PlaybackClockProofs -------------------------
(***************************************************************************)
(* TLAPS proofs about PlaybackClock: the clock state keeps its type, and   *)
(* no clock thread is left running from prepare's START_STREAM exchange    *)
(* until the stream is started, for every size of buffer and period and   *)
(* every bound on threads, calls and unsolicited reports.                 *)
(***************************************************************************)
EXTENDS PlaybackClock, TLAPS

\* The places where a clock thread is still in playback_hw_thread()'s loop
\* or about to clear data->hw_thread.
LivePCs == {"top", "poll", "delay", "exit"}

\* While prepare is past its join, or the PCM is prepared, data->hw_thread
\* is 0 and, once START_STREAM is sent, hw_ptr is 0.
Prepared == mpc \in {"prep_start", "prep_rsp", "prep_ind"} \/ alsa = "prepared"

\* A live clock thread is the one data->hw_thread names:
\* bluetooth_playback_start() creates a thread only when the field is 0,
\* and only the thread itself clears it, on its way out.
LiveOwned == \A t \in Threads : tpc[t] \in LivePCs => hw_thread = t

\* A pending pthread_join() in prepare waits for the thread data->hw_thread
\* names, or the field has been cleared by that thread meanwhile.
JoinTarget == mpc = "prep_join" => hw_thread \in {NoThread, jt}

\* The prepared states have data->hw_thread = 0 and, once START_STREAM is
\* sent, hw_ptr = 0.
PreparedQuiet == Prepared => hw_thread = NoThread /\ (mpc # "prep_start" => hw_ptr = 0)

\* The strengthening of ClockQuietWhilePrepared that is inductive.
QuietInv == TypeOK /\ LiveOwned /\ JoinTarget /\ PreparedQuiet

-----------------------------------------------------------------------------
(***************************************************************************)
(* Type correctness.                                                       *)
(***************************************************************************)

\* Every clock step keeps the fields, the socket queue and the places in
\* their types: hw_ptr stays below buffer_size (the modulo of
\* playback_hw_thread()), the message update_delay() stores came from the
\* socket, and a created thread has an id within the bound.
LEMMA ThreadTypeStep ==
  ASSUME TypeOK, NEW t \in Threads, Thread(t)
  PROVE  TypeOK'
<1>. USE ClockAssumption
<1>1. CASE HwLoopTop(t)
  <2>1. reset' \in BOOLEAN
    BY <1>1 DEF HwLoopTop, TypeOK
  <2>2. hw_ptr' \in 0..(BufferSize - 1)
    BY <1>1 DEF HwLoopTop, TypeOK
  <2>3. tpc' \in [Threads -> ThreadPCs]
    BY <1>1 DEF HwLoopTop, TypeOK, ThreadPCs
  <2>. QED  BY <2>1, <2>2, <2>3, <1>1 DEF HwLoopTop, TypeOK
<1>2. CASE HwPoll(t)
  BY <1>2 DEF HwPoll, TypeOK, ThreadPCs, AfterPoll
<1>3. CASE UpdateDelayRecv(t)
  BY <1>3 DEF UpdateDelayRecv, TypeOK, ThreadPCs, AfterPoll
<1>4. CASE HwLoopExit(t)
  BY <1>4 DEF HwLoopExit, TypeOK, ThreadPCs
<1>. QED  BY <1>1, <1>2, <1>3, <1>4 DEF Thread

\* The replies bluetoothd queues are control-socket messages.
LEMMA ReplyType ==
  ASSUME NEW n \in MsgNames
  PROVE  Reply(n) \in Msg
BY DEF Reply, Msg

\* The application's calls and bluetoothd keep the types too.
LEMMA AppTypeStep ==
  ASSUME TypeOK, App \/ DelayReportInd \/ LinkLoss \/ Finished
  PROVE  TypeOK'
<1>. USE ClockAssumption
<1>1. CASE a2dp_hw_params
  <2>1. sock' \in Seq(Msg)
    BY <1>1, ReplyType DEF a2dp_hw_params, TypeOK, MsgNames
  <2>2. mpc' \in AppPCs /\ alsa' \in AlsaStates /\ last' \in Results
    BY <1>1 DEF a2dp_hw_params, TypeOK, AppPCs, AlsaStates, Results
  <2>3. nops' \in 0..MaxOps
    BY <1>1 DEF a2dp_hw_params, Call, TypeOK
  <2>. QED  BY <2>1, <2>2, <2>3, <1>1 DEF a2dp_hw_params, TypeOK
<1>2. CASE a2dp_hw_params_setconf_rsp
  BY <1>2 DEF a2dp_hw_params_setconf_rsp, Recv, TypeOK, AppPCs, Results
<1>3. CASE a2dp_hw_params_delay_ind
  BY <1>3 DEF a2dp_hw_params_delay_ind, Recv, Expect, TypeOK, AppPCs, Results, AlsaStates
<1>4. CASE bluetooth_prepare
  <2>1. hw_cancel' \in BOOLEAN
    BY <1>4 DEF bluetooth_prepare, TypeOK
  <2>2. mpc' \in AppPCs
    BY <1>4 DEF bluetooth_prepare, AppPCs
  <2>3. nops' \in 0..MaxOps
    BY <1>4 DEF bluetooth_prepare, Call, TypeOK
  <2>. QED  BY <2>1, <2>2, <2>3, <1>4 DEF bluetooth_prepare, TypeOK
<1>5. CASE pthread_join_call
  BY <1>5 DEF pthread_join_call, TypeOK, AppPCs
<1>6. CASE pthread_join_return
  BY <1>6 DEF pthread_join_return, PcOf, TypeOK, AppPCs, ThreadPCs
<1>7. CASE bluetooth_prepare_start
  <2>1. sock' \in Seq(Msg)
    BY <1>7, ReplyType DEF bluetooth_prepare_start, TypeOK, MsgNames
  <2>2. mpc' \in AppPCs /\ alsa' \in AlsaStates /\ last' \in Results
    BY <1>7 DEF bluetooth_prepare_start, TypeOK, AppPCs, AlsaStates, Results
  <2>3. hw_ptr' \in 0..(BufferSize - 1)
    BY <1>7 DEF bluetooth_prepare_start
  <2>. QED  BY <2>1, <2>2, <2>3, <1>7 DEF bluetooth_prepare_start, TypeOK
<1>8. CASE bluetooth_prepare_start_rsp
  BY <1>8 DEF bluetooth_prepare_start_rsp, Recv, TypeOK, AppPCs, Results
<1>9. CASE bluetooth_prepare_new_stream
  BY <1>9 DEF bluetooth_prepare_new_stream, Recv, TypeOK, AppPCs, Results, AlsaStates
<1>10. CASE bluetooth_playback_start
  <2>1. alsa' \in AlsaStates /\ stopped' \in BOOLEAN
    BY <1>10 DEF bluetooth_playback_start, AlsaStates
  <2>2. nthreads' \in 0..MaxThreads /\ hw_thread' \in {NoThread} \cup Threads
    BY <1>10 DEF bluetooth_playback_start, TypeOK, Threads
  <2>3. tpc' \in [Threads -> ThreadPCs]
    BY <1>10 DEF bluetooth_playback_start, TypeOK, Threads, ThreadPCs
  <2>4. nops' \in 0..MaxOps
    BY <1>10 DEF bluetooth_playback_start, Call, TypeOK
  <2>. QED  BY <2>1, <2>2, <2>3, <2>4, <1>10 DEF bluetooth_playback_start, TypeOK
<1>11. CASE bluetooth_playback_stop
  BY <1>11 DEF bluetooth_playback_stop, Call, TypeOK, AlsaStates
<1>12. CASE a2dp_write_underrun
  BY <1>12 DEF a2dp_write_underrun, Call, TypeOK, AlsaStates
<1>13. CASE bluetooth_close
  <2>1. fds_open' \in BOOLEAN
    BY <1>13 DEF bluetooth_close, TypeOK
  <2>2. mpc' \in AppPCs
    BY <1>13 DEF bluetooth_close, AppPCs
  <2>3. nops' \in 0..MaxOps
    BY <1>13 DEF bluetooth_close, Call, TypeOK
  <2>. QED  BY <2>1, <2>2, <2>3, <1>13 DEF bluetooth_close, TypeOK
<1>14. CASE bluetooth_reclaim
  BY <1>14 DEF bluetooth_reclaim, TypeOK, AppPCs, AlsaStates
<1>15. CASE bluetooth_watcher_exit
  BY <1>15 DEF bluetooth_watcher_exit, TypeOK, AppPCs
<1>16. CASE bluetooth_exit_check
  BY <1>16 DEF bluetooth_exit_check, TypeOK, AppPCs
<1>17. CASE DelayReportInd
  BY <1>17 DEF DelayReportInd, TypeOK, Msg, MsgNames
<1>18. CASE LinkLoss
  BY <1>18 DEF LinkLoss, TypeOK
<1>19. CASE Finished
  BY <1>19 DEF Finished, TypeOK, vars
<1>. QED  BY <1>1, <1>2, <1>3, <1>4, <1>5, <1>6, <1>7, <1>8, <1>9, <1>10,
             <1>11, <1>12, <1>13, <1>14, <1>15, <1>16, <1>17, <1>18, <1>19
          DEF App

\* The initial state, a configured stream with no clock thread, is typed.
LEMMA InitTypeOK == Init => TypeOK
<1>. SUFFICES ASSUME Init PROVE TypeOK
  OBVIOUS
<1>1. /\ hw_ptr \in 0..(BufferSize - 1) /\ nthreads \in 0..MaxThreads
      /\ nops \in 0..MaxOps /\ nind \in 0..MaxUnsolicited
  BY ClockAssumption DEF Init
<1>2. tpc \in [Threads -> ThreadPCs]
  BY DEF Init, ThreadPCs
<1>3. sock \in Seq(Msg) /\ sink_delay \in Msg \cup {NoMsg}
  BY DEF Init
<1>. QED  BY <1>1, <1>2, <1>3 DEF Init, TypeOK, AppPCs, AlsaStates, Results

\* The clock model's state always has its type.
THEOREM TypeCorrect == Spec => []TypeOK
<1>1. Init => TypeOK
  BY InitTypeOK
<1>2. TypeOK /\ [Next]_vars => TypeOK'
  BY ThreadTypeStep, AppTypeStep DEF Next, vars, TypeOK
<1>. QED  BY <1>1, <1>2, PTL DEF Spec

-----------------------------------------------------------------------------
(***************************************************************************)
(* No clock thread while prepared.                                         *)
(***************************************************************************)

\* A clock thread's step keeps QuietInv: a live thread is named by
\* data->hw_thread, which the prepared states have at 0, so no clock step
\* happens in them; the exit clears the field after its own thread ended.
LEMMA ThreadQuietStep ==
  ASSUME QuietInv, NEW t \in Threads, Thread(t)
  PROVE  QuietInv'
<1>. USE ClockAssumption
<1>1. TypeOK'
  BY ThreadTypeStep DEF QuietInv
<1>2. hw_thread = t /\ ~Prepared
  <2>1. tpc[t] \in LivePCs
    BY DEF Thread, HwLoopTop, HwPoll, UpdateDelayRecv, HwLoopExit, LivePCs
  <2>. QED  BY <2>1 DEF QuietInv, LiveOwned, PreparedQuiet, NoThread, Threads
<1>3. UNCHANGED <<mpc, alsa, jt>> /\ Prepared' = Prepared
  BY DEF Thread, HwLoopTop, HwPoll, UpdateDelayRecv, HwLoopExit, Prepared
<1>4. LiveOwned'
  <2>. SUFFICES ASSUME NEW s \in Threads, tpc'[s] \in LivePCs
                PROVE  hw_thread' = s
    BY DEF LiveOwned
  <2>1. CASE s = t
    BY <2>1, <1>2 DEF Thread, HwLoopTop, HwPoll, UpdateDelayRecv, HwLoopExit,
                      AfterPoll, LivePCs, QuietInv, TypeOK
  <2>2. CASE s # t
    <3>1. tpc'[s] = tpc[s]
      BY <2>2 DEF Thread, HwLoopTop, HwPoll, UpdateDelayRecv, HwLoopExit, QuietInv, TypeOK
    <3>2. hw_thread = s
      BY <3>1 DEF QuietInv, LiveOwned
    <3>. QED  BY <3>2, <1>2, <2>2
  <2>. QED  BY <2>1, <2>2
<1>5. JoinTarget'
  BY <1>3 DEF Thread, HwLoopTop, HwPoll, UpdateDelayRecv, HwLoopExit, QuietInv, JoinTarget
<1>6. PreparedQuiet'
  BY <1>2, <1>3 DEF PreparedQuiet
<1>. QED  BY <1>1, <1>4, <1>5, <1>6 DEF QuietInv

\* The application's calls and bluetoothd keep QuietInv: prepare clears
\* data->hw_thread when its join returns or finds it 0, no call creates a
\* thread in the prepared states, and START_STREAM is sent with hw_ptr 0.
LEMMA AppQuietStep ==
  ASSUME QuietInv, App \/ DelayReportInd \/ LinkLoss \/ Finished
  PROVE  QuietInv'
<1>. USE ClockAssumption
<1>1. TypeOK'
  BY AppTypeStep DEF QuietInv
<1>. SUFFICES LiveOwned' /\ JoinTarget' /\ PreparedQuiet'
  BY <1>1 DEF QuietInv
<1>2. CASE a2dp_hw_params
  BY <1>2 DEF a2dp_hw_params, Call, QuietInv, TypeOK, LiveOwned, JoinTarget, PreparedQuiet, Prepared
<1>3. CASE a2dp_hw_params_setconf_rsp
  BY <1>3 DEF a2dp_hw_params_setconf_rsp, Recv, QuietInv, TypeOK, LiveOwned, JoinTarget, PreparedQuiet, Prepared
<1>4. CASE a2dp_hw_params_delay_ind
  BY <1>4 DEF a2dp_hw_params_delay_ind, Recv, QuietInv, TypeOK, LiveOwned, JoinTarget, PreparedQuiet, Prepared
<1>5. CASE bluetooth_prepare
  BY <1>5 DEF bluetooth_prepare, Call, QuietInv, TypeOK, LiveOwned, JoinTarget, PreparedQuiet, Prepared
<1>6. CASE pthread_join_call
  BY <1>6 DEF pthread_join_call, QuietInv, TypeOK, LiveOwned, JoinTarget, PreparedQuiet, Prepared
<1>7. CASE pthread_join_return
  <2>1. PcOf(jt) \notin LivePCs
    BY <1>7 DEF pthread_join_return, LivePCs
  <2>2. LiveOwned'
    <3>. SUFFICES ASSUME NEW s \in Threads, tpc'[s] \in LivePCs
                  PROVE  hw_thread' = s
      BY DEF LiveOwned
    <3>1. tpc[s] \in LivePCs
      BY <1>7 DEF pthread_join_return, QuietInv, TypeOK, LivePCs
    <3>2. hw_thread = s /\ s # jt
      BY <3>1, <2>1 DEF QuietInv, LiveOwned, PcOf, NoThread, Threads
    <3>3. CASE mpc = "prep_join"
      BY <3>2, <3>3 DEF QuietInv, JoinTarget, NoThread, Threads
    <3>4. CASE mpc = "exit_join"
      BY <3>2, <3>4, <1>7 DEF pthread_join_return
    <3>. QED  BY <3>3, <3>4, <1>7 DEF pthread_join_return
  <2>3. JoinTarget'
    BY <1>7 DEF pthread_join_return, JoinTarget
  <2>4. PreparedQuiet'
    <3>1. CASE mpc = "prep_join"
      BY <3>1, <1>7 DEF pthread_join_return, PreparedQuiet, Prepared
    <3>2. CASE mpc = "exit_join"
      BY <3>2, <1>7 DEF pthread_join_return, QuietInv, PreparedQuiet, Prepared
    <3>. QED  BY <3>1, <3>2, <1>7 DEF pthread_join_return
  <2>. QED  BY <2>2, <2>3, <2>4
<1>8. CASE bluetooth_prepare_start
  BY <1>8 DEF bluetooth_prepare_start, QuietInv, TypeOK, LiveOwned, JoinTarget, PreparedQuiet, Prepared
<1>9. CASE bluetooth_prepare_start_rsp
  BY <1>9 DEF bluetooth_prepare_start_rsp, Recv, QuietInv, TypeOK, LiveOwned, JoinTarget, PreparedQuiet, Prepared
<1>10. CASE bluetooth_prepare_new_stream
  BY <1>10 DEF bluetooth_prepare_new_stream, Recv, QuietInv, TypeOK, LiveOwned, JoinTarget, PreparedQuiet, Prepared
<1>11. CASE bluetooth_playback_start
  <2>1. LiveOwned'
    <3>1. CASE hw_thread # NoThread
      BY <3>1, <1>11 DEF bluetooth_playback_start, QuietInv, LiveOwned
    <3>2. CASE hw_thread = NoThread
      <4>. SUFFICES ASSUME NEW s \in Threads, tpc'[s] \in LivePCs
                    PROVE  hw_thread' = s
        BY DEF LiveOwned
      <4>1. tpc[s] \notin LivePCs
        BY <3>2 DEF QuietInv, LiveOwned, NoThread, Threads
      <4>2. s = nthreads + 1
        BY <3>2, <4>1, <1>11 DEF bluetooth_playback_start, QuietInv, TypeOK
      <4>. QED  BY <3>2, <4>2, <1>11 DEF bluetooth_playback_start
    <3>. QED  BY <3>1, <3>2
  <2>2. JoinTarget' /\ PreparedQuiet'
    BY <1>11 DEF bluetooth_playback_start, Call, JoinTarget, PreparedQuiet, Prepared
  <2>. QED  BY <2>1, <2>2
<1>12. CASE bluetooth_playback_stop
  BY <1>12 DEF bluetooth_playback_stop, Call, QuietInv, TypeOK, LiveOwned, JoinTarget, PreparedQuiet, Prepared
<1>13. CASE a2dp_write_underrun
  BY <1>13 DEF a2dp_write_underrun, Call, QuietInv, TypeOK, LiveOwned, JoinTarget, PreparedQuiet, Prepared
<1>14. CASE bluetooth_close
  BY <1>14 DEF bluetooth_close, Call, QuietInv, TypeOK, LiveOwned, JoinTarget, PreparedQuiet, Prepared
<1>15. CASE bluetooth_reclaim
  BY <1>15 DEF bluetooth_reclaim, QuietInv, TypeOK, LiveOwned, JoinTarget, PreparedQuiet, Prepared
<1>16. CASE bluetooth_watcher_exit
  BY <1>16 DEF bluetooth_watcher_exit, QuietInv, TypeOK, LiveOwned, JoinTarget, PreparedQuiet, Prepared
<1>17. CASE bluetooth_exit_check
  BY <1>17 DEF bluetooth_exit_check, QuietInv, TypeOK, LiveOwned, JoinTarget, PreparedQuiet, Prepared
<1>18. CASE DelayReportInd
  BY <1>18 DEF DelayReportInd, QuietInv, TypeOK, LiveOwned, JoinTarget, PreparedQuiet, Prepared
<1>19. CASE LinkLoss
  BY <1>19 DEF LinkLoss, QuietInv, TypeOK, LiveOwned, JoinTarget, PreparedQuiet, Prepared
<1>20. CASE Finished
  BY <1>20 DEF Finished, vars, QuietInv, TypeOK, LiveOwned, JoinTarget, PreparedQuiet, Prepared
<1>. QED  BY <1>2, <1>3, <1>4, <1>5, <1>6, <1>7, <1>8, <1>9, <1>10, <1>11, <1>12, <1>13, <1>14, <1>15, <1>16, <1>17, <1>18, <1>19, <1>20 DEF App

\* From prepare's START_STREAM exchange until the stream is started (and
\* while it stays prepared) no clock thread is running and hw_ptr is 0: the
\* cancel and join at the top of bluetooth_prepare() hold for every buffer
\* and period size, every number of threads and calls.
THEOREM ClockQuiet == Spec => []ClockQuietWhilePrepared
<1>1. Init => QuietInv
  BY InitTypeOK DEF Init, QuietInv, LiveOwned, JoinTarget,
     PreparedQuiet, Prepared, LivePCs, Threads
<1>2. QuietInv /\ [Next]_vars => QuietInv'
  BY ThreadQuietStep, AppQuietStep DEF Next, vars, QuietInv, TypeOK, LiveOwned,
     JoinTarget, PreparedQuiet, Prepared
<1>3. QuietInv => ClockQuietWhilePrepared
  BY DEF QuietInv, LiveOwned, PreparedQuiet, Prepared, ClockQuietWhilePrepared,
     LivePCs, NoThread, Threads
<1>. QED  BY <1>1, <1>2, <1>3, PTL DEF Spec
=============================================================================
