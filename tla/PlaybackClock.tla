---------------------------- MODULE PlaybackClock ----------------------------
(***************************************************************************)
(* The A2DP playback clock thread of the ALSA bluetooth plugin and the     *)
(* application-thread calls that start, stop, cancel and join it           *)
(* (ste-pcm_bluetooth.c, built with __BIONIC__).                          *)
(*                                                                         *)
(* playback_hw_thread() advances data->hw_ptr by whole periods as time     *)
(* passes and polls the bluetoothd control socket (server.fd) and the     *)
(* stream socket between periods.  When the control socket is readable it *)
(* peeks at the first message and, if it is a DELAY_REPORT, receives it    *)
(* (update_delay()).  The same socket carries the replies that hw_params   *)
(* and prepare wait for.  prepare and bluetooth_exit() stop the thread by *)
(* setting hw_cancel and calling pthread_join(data->hw_thread); the thread *)
(* itself clears data->hw_thread when it leaves its loop on a poll error.  *)
(*                                                                         *)
(* bluetoothd is an environment that answers every request at once and in *)
(* order, and may send DELAY_REPORT indications of its own.  Elapsed time  *)
(* is abstracted to the number of periods a clock step finds elapsed.      *)
(***************************************************************************)
EXTENDS Naturals, Sequences

CONSTANTS
  PeriodSize,      \* io->period_size, in frames
  BufferSize,      \* io->buffer_size, in frames
  MaxFrags,        \* most periods one pass of the clock loop finds elapsed
  MaxThreads,      \* bound on pthread_create() calls
  MaxOps,          \* bound on application calls
  MaxUnsolicited,  \* DELAY_REPORTs bluetoothd may send on its own
  LinkMayDrop      \* the stream socket may hang up (link loss)

ASSUME ClockAssumption ==
  /\ PeriodSize \in Nat \ {0} /\ BufferSize \in Nat \ {0}
  /\ MaxFrags \in Nat /\ MaxThreads \in Nat /\ MaxOps \in Nat
  /\ MaxUnsolicited \in Nat /\ LinkMayDrop \in BOOLEAN

Threads == 1..MaxThreads
NoThread == 0

\* Where a clock thread is: not created, at the top of its loop, at the
\* poll(), between the MSG_PEEK and the real recv() of update_delay(),
\* out of the loop before clearing data->hw_thread, terminated, joined.
ThreadPCs == {"none", "top", "poll", "delay", "exit", "done", "joined"}
\* Where the application thread is: between calls; in hw_params waiting for
\* the SET_CONFIGURATION reply or the DELAY_REPORT; in prepare before the
\* pthread_join() call, blocked in it, before sending START_STREAM, waiting
\* for its reply or for NEW_STREAM; in bluetooth_exit() after closing the
\* sockets, before the join call and blocked in it; parked by close with a
\* watcher; closed.
AppPCs == {"idle", "hwp_rsp", "hwp_ind", "prep_call", "prep_join",
           "prep_start", "prep_rsp", "prep_ind", "exit_check", "exit_call",
           "exit_join", "parked", "closed"}
AlsaStates == {"open", "setup", "prepared", "running", "xrun"}
MsgNames == {"SET_CONFIGURATION", "DELAY_REPORT", "START_STREAM", "NEW_STREAM"}
\* A message on the control socket; solicited is FALSE for a DELAY_REPORT
\* bluetoothd sends on its own.
Msg == [name : MsgNames, solicited : BOOLEAN]
NoMsg == [name |-> "none", solicited |-> FALSE]
Results == {"none", "ok", "hw_params_err", "prepare_err"}

VARIABLES
  hw_thread,          \* data->hw_thread (NoThread for 0)
  hw_cancel,          \* data->hw_cancel
  stopped,            \* data->stopped
  reset,              \* data->reset
  hw_ptr,             \* data->hw_ptr
  sink_delay,         \* the message update_delay()/hw_params took the delay from
  a2dp_stream_state,  \* data->a2dp_stream_state
  fds_open,           \* server.fd and stream.fd not yet closed by bluetooth_exit()
  link_up,            \* the stream socket has not hung up
  sock,               \* messages queued on the control socket, oldest first
  tpc,                \* clock thread id -> where it is
  mpc,                \* where the application thread is
  jt,                 \* the thread id the pending pthread_join() was called with
  alsa,               \* io->state
  last,               \* what the last hw_params or prepare returned
  nthreads,           \* threads created so far
  nops,               \* application calls so far
  nind                \* unsolicited DELAY_REPORTs so far

vars == <<hw_thread, hw_cancel, stopped, reset, hw_ptr, sink_delay,
          a2dp_stream_state, fds_open, link_up, sock, tpc, mpc, jt, alsa,
          last, nthreads, nops, nind>>
thread_vars == <<hw_thread, hw_cancel, tpc, jt, nthreads>>

Init ==
  /\ hw_thread = NoThread /\ hw_cancel = FALSE
  /\ stopped = FALSE /\ reset = FALSE /\ hw_ptr = 0
  /\ sink_delay = NoMsg
  /\ a2dp_stream_state = "STREAM_CONFIGURED"
  /\ fds_open = TRUE /\ link_up = TRUE /\ sock = <<>>
  /\ tpc = [t \in Threads |-> "none"]
  /\ mpc = "idle" /\ jt = NoThread /\ alsa = "setup" /\ last = "none"
  /\ nthreads = 0 /\ nops = 0 /\ nind = 0

Reply(n) == [name |-> n, solicited |-> TRUE]

\* What audioservice_expect() returns for the message it is about to take:
\* -EAGAIN when recv() times out on an empty socket (SO_RCVTIMEO), -EINVAL
\* for a message of another name, 0 otherwise.
Expect(name) ==
  IF sock = <<>> THEN "EAGAIN"
  ELSE IF Head(sock).name = name THEN "ok" ELSE "EINVAL"
\* recv() takes the oldest message, or times out on an empty socket.
Recv == sock' = IF sock = <<>> THEN sock ELSE Tail(sock)

\* A call from the application thread between calls.
Call ==
  /\ mpc = "idle"
  /\ nops < MaxOps
  /\ nops' = nops + 1

-----------------------------------------------------------------------------
(***************************************************************************)
(* The clock thread, playback_hw_thread().                                 *)
(***************************************************************************)

\* After poll() and update_delay(): leave on a pending hw_cancel, else loop.
AfterPoll == IF hw_cancel THEN "done" ELSE "top"

\* Top of the loop: a stopped stream goes straight to the poll; otherwise
\* the XRUN reset is taken, hw_ptr advances by the periods found elapsed
\* (modulo buffer_size), and hw_cancel is checked before each wake-up
\* written to the pipe.
HwLoopTop(t) ==
  /\ tpc[t] = "top"
  /\ \/ /\ stopped
        /\ tpc' = [tpc EXCEPT ![t] = "poll"]
        /\ UNCHANGED <<reset, hw_ptr>>
     \/ /\ ~stopped
        /\ reset' = FALSE
        /\ \E frags \in 0..MaxFrags :
             /\ hw_ptr' = (hw_ptr + frags * PeriodSize) % BufferSize
             /\ tpc' = [tpc EXCEPT ![t] = IF frags > 0 /\ hw_cancel THEN "done" ELSE "poll"]
  /\ UNCHANGED <<hw_thread, hw_cancel, stopped, sink_delay, a2dp_stream_state,
                 fds_open, link_up, sock, mpc, jt, alsa, last, nthreads, nops, nind>>

\* Mutant: no hw_cancel test after the poll (only the pipe writes test it).
HwPollNoCancelCheck(t) ==
  /\ tpc[t] = "poll"
  /\ \/ /\ fds_open /\ sock # <<>>
        /\ tpc' = [tpc EXCEPT ![t] = IF Head(sock).name = "DELAY_REPORT"
                                     THEN "delay" ELSE "top"]
     \/ /\ fds_open /\ sock = <<>> /\ link_up
        /\ tpc' = [tpc EXCEPT ![t] = "top"]
     \/ /\ ~fds_open \/ (sock = <<>> /\ ~link_up)
        /\ tpc' = [tpc EXCEPT ![t] = "exit"]
  /\ UNCHANGED <<hw_thread, hw_cancel, stopped, reset, hw_ptr, sink_delay,
                 a2dp_stream_state, fds_open, link_up, sock, mpc, jt, alsa,
                 last, nthreads, nops, nind>>

\* poll() on server.fd and stream.fd.  A readable control socket is served
\* by update_delay(), which peeks at the first message and goes on to
\* receive it only if it is a DELAY_REPORT.  An empty socket times out.  A
\* closed descriptor (POLLNVAL) or a hung-up stream socket (POLLHUP) on the
\* descriptor poll() reports breaks the loop.
HwPoll(t) ==
  /\ tpc[t] = "poll"
  /\ \/ /\ fds_open /\ sock # <<>>
        /\ tpc' = [tpc EXCEPT ![t] = IF Head(sock).name = "DELAY_REPORT"
                                     THEN "delay" ELSE AfterPoll]
     \/ /\ fds_open /\ sock = <<>> /\ link_up
        /\ tpc' = [tpc EXCEPT ![t] = AfterPoll]
     \/ /\ ~fds_open \/ (sock = <<>> /\ ~link_up)
        /\ tpc' = [tpc EXCEPT ![t] = "exit"]
  /\ UNCHANGED <<hw_thread, hw_cancel, stopped, reset, hw_ptr, sink_delay,
                 a2dp_stream_state, fds_open, link_up, sock, mpc, jt, alsa,
                 last, nthreads, nops, nind>>

\* The second recv() of update_delay(): it takes whatever message is first
\* now (it blocks for one if the socket is empty, and gives up after
\* RECV_TIMEOUT) and stores its delay in data->sink_delay.
UpdateDelayRecv(t) ==
  /\ tpc[t] = "delay"
  /\ \/ /\ fds_open /\ sock # <<>>
        /\ sink_delay' = Head(sock)
        /\ sock' = Tail(sock)
     \/ /\ ~fds_open \/ sock = <<>>
        /\ UNCHANGED <<sink_delay, sock>>
  /\ tpc' = [tpc EXCEPT ![t] = AfterPoll]
  /\ UNCHANGED <<hw_thread, hw_cancel, stopped, reset, hw_ptr, a2dp_stream_state,
                 fds_open, link_up, mpc, jt, alsa, last, nthreads, nops, nind>>

\* After the loop: the thread clears data->hw_thread and exits.
HwLoopExit(t) ==
  /\ tpc[t] = "exit"
  /\ hw_thread' = NoThread
  /\ tpc' = [tpc EXCEPT ![t] = "done"]
  /\ UNCHANGED <<hw_cancel, stopped, reset, hw_ptr, sink_delay, a2dp_stream_state,
                 fds_open, link_up, sock, mpc, jt, alsa, last, nthreads, nops, nind>>

Thread(t) == HwLoopTop(t) \/ HwPoll(t) \/ UpdateDelayRecv(t) \/ HwLoopExit(t)

-----------------------------------------------------------------------------
(***************************************************************************)
(* The application thread: the ioplug callbacks that touch the clock       *)
(* thread or the control socket.                                           *)
(***************************************************************************)

\* bluetooth_a2dp_hw_params(): an unchanged configuration on an open stream
\* returns 0; otherwise SET_CONFIGURATION is sent (after OPEN on a closed
\* stream, which this module leaves to A2dpStream) and bluetoothd queues its
\* reply and the DELAY_REPORT that follows it.
a2dp_hw_params ==
  /\ Call
  /\ alsa \in {"open", "setup", "prepared"}
  /\ \/ /\ a2dp_stream_state # "STREAM_CLOSED"
        /\ alsa' = "setup" /\ last' = "ok"
        /\ UNCHANGED <<sock, mpc>>
     \/ /\ sock' = sock \o <<Reply("SET_CONFIGURATION"), Reply("DELAY_REPORT")>>
        /\ mpc' = "hwp_rsp"
        /\ UNCHANGED <<alsa, last>>
  /\ UNCHANGED <<hw_thread, hw_cancel, stopped, reset, hw_ptr, sink_delay,
                 a2dp_stream_state, fds_open, link_up, tpc, jt, nthreads, nind>>

\* audioservice_expect(SET_CONFIGURATION); an error is returned at once.
a2dp_hw_params_setconf_rsp ==
  /\ mpc = "hwp_rsp"
  /\ Recv
  /\ IF Expect("SET_CONFIGURATION") = "ok"
       THEN mpc' = "hwp_ind" /\ UNCHANGED last
       ELSE mpc' = "idle" /\ last' = "hw_params_err"
  /\ UNCHANGED <<hw_thread, hw_cancel, stopped, reset, hw_ptr, sink_delay,
                 a2dp_stream_state, fds_open, link_up, tpc, jt, alsa, nthreads,
                 nops, nind>>

\* audioservice_expect(DELAY_REPORT): on success sink_delay is set and the
\* stream is CONFIGURED.
a2dp_hw_params_delay_ind ==
  /\ mpc = "hwp_ind"
  /\ Recv
  /\ mpc' = "idle"
  /\ IF Expect("DELAY_REPORT") = "ok"
       THEN /\ sink_delay' = Head(sock)
            /\ a2dp_stream_state' = "STREAM_CONFIGURED"
            /\ alsa' = "setup" /\ last' = "ok"
       ELSE /\ last' = "hw_params_err"
            /\ UNCHANGED <<sink_delay, a2dp_stream_state, alsa>>
  /\ UNCHANGED <<hw_thread, hw_cancel, stopped, reset, hw_ptr, fds_open,
                 link_up, tpc, jt, nthreads, nops, nind>>

\* Mutant: prepare goes on to START_STREAM without stopping the clock thread.
bluetooth_prepare_keeps_thread ==
  /\ Call
  /\ alsa \in {"setup", "prepared", "xrun"}
  /\ reset' = FALSE
  /\ mpc' = "prep_start"
  /\ UNCHANGED <<hw_thread, hw_cancel, stopped, hw_ptr, sink_delay, a2dp_stream_state,
                 fds_open, link_up, sock, tpc, jt, alsa, last, nthreads, nind>>

\* bluetooth_prepare() up to the join: reset is cleared and, if
\* data->hw_thread is set, hw_cancel is raised before pthread_join().
bluetooth_prepare ==
  /\ Call
  /\ alsa \in {"setup", "prepared", "xrun"}
  /\ reset' = FALSE
  /\ \/ /\ hw_thread # NoThread
        /\ hw_cancel' = TRUE /\ mpc' = "prep_call"
     \/ /\ hw_thread = NoThread
        /\ mpc' = "prep_start" /\ UNCHANGED hw_cancel
  /\ UNCHANGED <<hw_thread, stopped, hw_ptr, sink_delay, a2dp_stream_state,
                 fds_open, link_up, sock, tpc, jt, alsa, last, nthreads, nind>>

\* pthread_join(data->hw_thread, 0) reads the field again when it is called
\* (in prepare and in bluetooth_exit()).
pthread_join_call ==
  /\ mpc \in {"prep_call", "exit_call"}
  /\ jt' = hw_thread
  /\ mpc' = IF mpc = "prep_call" THEN "prep_join" ELSE "exit_join"
  /\ UNCHANGED <<hw_thread, hw_cancel, stopped, reset, hw_ptr, sink_delay,
                 a2dp_stream_state, fds_open, link_up, sock, tpc, alsa, last,
                 nthreads, nops, nind>>

\* Where the thread with id j is; 0 names no thread.
PcOf(j) == IF j = NoThread THEN "none" ELSE tpc[j]

\* The join returns: at once with ESRCH for 0 or a thread already joined,
\* otherwise once the thread has terminated.  hw_cancel is cleared; prepare
\* also clears data->hw_thread, bluetooth_exit() leaves it.
pthread_join_return ==
  /\ mpc \in {"prep_join", "exit_join"}
  /\ \/ /\ PcOf(jt) \in {"none", "joined"}
        /\ UNCHANGED tpc
     \/ /\ PcOf(jt) = "done"
        /\ tpc' = [tpc EXCEPT ![jt] = "joined"]
  /\ hw_cancel' = FALSE
  /\ IF mpc = "prep_join"
       THEN hw_thread' = NoThread /\ mpc' = "prep_start"
       ELSE UNCHANGED hw_thread /\ mpc' = "closed"
  /\ UNCHANGED <<stopped, reset, hw_ptr, sink_delay, a2dp_stream_state,
                 fds_open, link_up, sock, jt, alsa, last, nthreads, nops, nind>>

\* prepare after the join: hw_ptr is reset; a started stream is done,
\* otherwise START_STREAM is sent and bluetoothd queues its reply and the
\* NEW_STREAM indication.
bluetooth_prepare_start ==
  /\ mpc = "prep_start"
  /\ hw_ptr' = 0
  /\ \/ /\ a2dp_stream_state = "STREAM_STARTED"
        /\ mpc' = "idle" /\ alsa' = "prepared" /\ last' = "ok"
        /\ UNCHANGED sock
     \/ /\ a2dp_stream_state # "STREAM_STARTED"
        /\ sock' = sock \o <<Reply("START_STREAM"), Reply("NEW_STREAM")>>
        /\ mpc' = "prep_rsp"
        /\ UNCHANGED <<alsa, last>>
  /\ UNCHANGED <<hw_thread, hw_cancel, stopped, reset, sink_delay,
                 a2dp_stream_state, fds_open, link_up, tpc, jt, nthreads, nops, nind>>

\* audioservice_expect(START_STREAM); -EAGAIN marks the stream CLOSED.
bluetooth_prepare_start_rsp ==
  /\ mpc = "prep_rsp"
  /\ Recv
  /\ IF Expect("START_STREAM") = "ok"
       THEN mpc' = "prep_ind" /\ UNCHANGED <<last, a2dp_stream_state>>
       ELSE /\ mpc' = "idle" /\ last' = "prepare_err"
            /\ a2dp_stream_state' = IF Expect("START_STREAM") = "EAGAIN"
                                    THEN "STREAM_CLOSED" ELSE a2dp_stream_state
  /\ UNCHANGED <<hw_thread, hw_cancel, stopped, reset, hw_ptr, sink_delay,
                 fds_open, link_up, tpc, jt, alsa, nthreads, nops, nind>>

\* audioservice_expect(NEW_STREAM); on success the stream is STARTED.
bluetooth_prepare_new_stream ==
  /\ mpc = "prep_ind"
  /\ Recv
  /\ mpc' = "idle"
  /\ IF Expect("NEW_STREAM") = "ok"
       THEN /\ a2dp_stream_state' = "STREAM_STARTED"
            /\ alsa' = "prepared" /\ last' = "ok"
       ELSE /\ last' = "prepare_err"
            /\ UNCHANGED <<a2dp_stream_state, alsa>>
  /\ UNCHANGED <<hw_thread, hw_cancel, stopped, reset, hw_ptr, sink_delay,
                 fds_open, link_up, tpc, jt, nthreads, nops, nind>>

\* bluetooth_playback_start(): stopped is cleared, and a clock thread is
\* created unless data->hw_thread is already set.
bluetooth_playback_start ==
  /\ Call
  /\ alsa = "prepared"
  /\ alsa' = "running"
  /\ stopped' = FALSE
  /\ \/ /\ hw_thread # NoThread
        /\ UNCHANGED <<hw_thread, tpc, nthreads>>
     \/ /\ hw_thread = NoThread
        /\ nthreads < MaxThreads
        /\ nthreads' = nthreads + 1
        /\ hw_thread' = nthreads + 1
        /\ tpc' = [tpc EXCEPT ![nthreads + 1] = "top"]
  /\ UNCHANGED <<hw_cancel, reset, hw_ptr, sink_delay, a2dp_stream_state,
                 fds_open, link_up, sock, mpc, jt, last, nind>>

\* bluetooth_playback_stop(), called by snd_pcm_drop(): only stopped is set;
\* the clock thread keeps polling.
bluetooth_playback_stop ==
  /\ Call
  /\ alsa \in {"prepared", "running", "xrun"}
  /\ stopped' = TRUE
  /\ alsa' = "setup"
  /\ UNCHANGED <<hw_thread, hw_cancel, reset, hw_ptr, sink_delay,
                 a2dp_stream_state, fds_open, link_up, sock, tpc, mpc, jt,
                 last, nthreads, nind>>

\* The underrun check of bluetooth_a2dp_write(): the stream is stopped and
\* reset is requested; the write fails with -EPIPE.
a2dp_write_underrun ==
  /\ Call
  /\ alsa = "running"
  /\ stopped' = TRUE /\ reset' = TRUE
  /\ alsa' = "xrun"
  /\ UNCHANGED <<hw_thread, hw_cancel, hw_ptr, sink_delay, a2dp_stream_state,
                 fds_open, link_up, sock, tpc, mpc, jt, last, nthreads, nind>>

\* bluetooth_close() on a dropped PCM: the session is parked for a watcher
\* (the clock thread lives on), or, when no watcher can be used,
\* bluetooth_exit() closes server.fd and stream.fd.
bluetooth_close ==
  /\ Call
  /\ alsa \in {"open", "setup"}
  /\ \/ /\ mpc' = "parked"
        /\ UNCHANGED fds_open
     \/ /\ fds_open' = FALSE
        /\ mpc' = "exit_check"
  /\ UNCHANGED <<hw_thread, hw_cancel, stopped, reset, hw_ptr, sink_delay,
                 a2dp_stream_state, link_up, sock, tpc, jt, alsa, last,
                 nthreads, nind>>

\* A reopen of the same device takes the parked session back as it is.
bluetooth_reclaim ==
  /\ mpc = "parked"
  /\ nops < MaxOps
  /\ nops' = nops + 1
  /\ mpc' = "idle" /\ alsa' = "open"
  /\ UNCHANGED <<hw_thread, hw_cancel, stopped, reset, hw_ptr, sink_delay,
                 a2dp_stream_state, fds_open, link_up, sock, tpc, jt, last,
                 nthreads, nind>>

\* The watcher times out and calls bluetooth_exit(), which first closes
\* server.fd and stream.fd.
bluetooth_watcher_exit ==
  /\ mpc = "parked"
  /\ fds_open' = FALSE
  /\ mpc' = "exit_check"
  /\ UNCHANGED <<hw_thread, hw_cancel, stopped, reset, hw_ptr, sink_delay,
                 a2dp_stream_state, link_up, sock, tpc, jt, alsa, last,
                 nthreads, nops, nind>>

\* bluetooth_exit() after closing the sockets: if data->hw_thread is set,
\* hw_cancel is raised before pthread_join().
bluetooth_exit_check ==
  /\ mpc = "exit_check"
  /\ \/ /\ hw_thread # NoThread
        /\ hw_cancel' = TRUE /\ mpc' = "exit_call"
     \/ /\ hw_thread = NoThread
        /\ mpc' = "closed" /\ UNCHANGED hw_cancel
  /\ UNCHANGED <<hw_thread, stopped, reset, hw_ptr, sink_delay,
                 a2dp_stream_state, fds_open, link_up, sock, tpc, jt, alsa,
                 last, nthreads, nops, nind>>

-----------------------------------------------------------------------------
(***************************************************************************)
(* Environment: bluetoothd and the link.                                   *)
(***************************************************************************)

\* bluetoothd reports a new sink delay on its own on a configured stream.
DelayReportInd ==
  /\ nind < MaxUnsolicited
  /\ fds_open
  /\ a2dp_stream_state \in {"STREAM_CONFIGURED", "STREAM_STARTED"}
  /\ sock' = Append(sock, [name |-> "DELAY_REPORT", solicited |-> FALSE])
  /\ nind' = nind + 1
  /\ UNCHANGED <<hw_thread, hw_cancel, stopped, reset, hw_ptr, sink_delay,
                 a2dp_stream_state, fds_open, link_up, tpc, mpc, jt, alsa,
                 last, nthreads, nops>>

\* The remote device goes away: the stream socket hangs up.
LinkLoss ==
  /\ LinkMayDrop /\ link_up
  /\ link_up' = FALSE
  /\ UNCHANGED <<hw_thread, hw_cancel, stopped, reset, hw_ptr, sink_delay,
                 a2dp_stream_state, fds_open, sock, tpc, mpc, jt, alsa, last,
                 nthreads, nops, nind>>

\* The application is done and every clock thread has ended.
Finished ==
  /\ mpc = "closed" \/ (mpc = "idle" /\ nops >= MaxOps)
  /\ \A t \in Threads : tpc[t] \in {"none", "done", "joined"}
  /\ UNCHANGED vars

App ==
  \/ a2dp_hw_params \/ a2dp_hw_params_setconf_rsp \/ a2dp_hw_params_delay_ind
  \/ bluetooth_prepare \/ pthread_join_call \/ pthread_join_return
  \/ bluetooth_prepare_start \/ bluetooth_prepare_start_rsp
  \/ bluetooth_prepare_new_stream
  \/ bluetooth_playback_start \/ bluetooth_playback_stop \/ a2dp_write_underrun
  \/ bluetooth_close \/ bluetooth_reclaim \/ bluetooth_watcher_exit
  \/ bluetooth_exit_check

Next ==
  \/ \E t \in Threads : Thread(t)
  \/ App
  \/ DelayReportInd \/ LinkLoss
  \/ Finished

Spec == Init /\ [][Next]_vars

\* The scheduler runs every clock thread that can run, and a pthread_join()
\* whose thread has ended returns.  The application's own calls are not
\* assumed to happen.
FairSpec ==
  /\ Spec
  /\ \A t \in Threads : WF_vars(Thread(t))
  /\ WF_vars(pthread_join_return)

-----------------------------------------------------------------------------
TypeOK ==
  /\ hw_thread \in {NoThread} \cup Threads
  /\ hw_cancel \in BOOLEAN /\ stopped \in BOOLEAN /\ reset \in BOOLEAN
  /\ hw_ptr \in 0..(BufferSize - 1)
  /\ sink_delay \in Msg \cup {NoMsg}
  /\ a2dp_stream_state \in {"STREAM_CLOSED", "STREAM_CONFIGURED", "STREAM_STARTED"}
  /\ fds_open \in BOOLEAN /\ link_up \in BOOLEAN
  /\ sock \in Seq(Msg)
  /\ tpc \in [Threads -> ThreadPCs]
  /\ mpc \in AppPCs
  /\ jt \in {NoThread} \cup Threads
  /\ alsa \in AlsaStates
  /\ last \in Results
  /\ nthreads \in 0..MaxThreads /\ nops \in 0..MaxOps
  /\ nind \in 0..MaxUnsolicited

\* From prepare's START_STREAM exchange until the stream is started, no clock
\* thread is left running: none can take a reply prepare waits for from the
\* control socket, and the pointer ALSA reads stays at 0 (the cancel and
\* join at the top of bluetooth_prepare()).
ClockQuietWhilePrepared ==
  (mpc \in {"prep_start", "prep_rsp", "prep_ind"} \/ alsa = "prepared") =>
    /\ \A t \in Threads : tpc[t] \notin {"top", "poll", "delay"}
    /\ mpc # "prep_start" => hw_ptr = 0

\* Every pthread_join() that prepare or bluetooth_exit() starts returns:
\* the clock thread sees hw_cancel whatever it is doing.
JoinReturns ==
  mpc \in {"prep_join", "exit_join"} ~> mpc \notin {"prep_join", "exit_join"}

\* Every clock thread that has ended is joined or can still be: it is the one
\* data->hw_thread names, or the one a pending pthread_join() waits for
\* (the thread clears data->hw_thread itself when it leaves its loop).
NoThreadLeak ==
  \A t \in Threads :
    tpc[t] = "done" =>
      \/ hw_thread = t
      \/ jt = t /\ mpc \in {"prep_join", "exit_join"}

\* With bluetoothd answering every request correctly, hw_params and prepare
\* never fail: every reply they wait for reaches them (the clock thread's
\* update_delay() reads the same control socket).
ControlExchangesSucceed ==
  last \notin {"hw_params_err", "prepare_err"}
=============================================================================
