----------------------------- MODULE A2dpStream -----------------------------
(***************************************************************************)
(* The A2DP transport negotiation of the ALSA bluetooth plugin             *)
(* (ste-pcm_bluetooth.c): the hw_params and prepare callbacks of the A2DP  *)
(* playback device, which drive OPEN -> SET_CONFIGURATION -> DELAY_REPORT  *)
(* -> START_STREAM -> NEW_STREAM over the control socket to bluetoothd.    *)
(*                                                                         *)
(* The caller's thread blocks at every audioservice_expect(), so each     *)
(* callback is split at its receives: pc names the receive it waits in.    *)
(* A receive takes the oldest message of the socket, or fails with EAGAIN  *)
(* when the socket's SO_RCVTIMEO (RECV_TIMEOUT) expires first.             *)
(*                                                                         *)
(* bluetoothd is the environment: it answers each request, in order, with *)
(* the replies the protocol allows or with an error reply.  Every message *)
(* carries the id of the request it answers; the plugin never looks at    *)
(* it, the properties do.                                                  *)
(***************************************************************************)
EXTENDS Naturals, Sequences, FiniteSets

CONSTANTS
  RemoteRates,     \* sampling frequencies of the sink's SBC capabilities
  RemoteModes,     \* channel modes of the sink's SBC capabilities
  MtuValues,       \* link MTUs bluetoothd may return for SET_CONFIGURATION
  MaxReqs,         \* bound on the number of requests the plugin sends
  ReplyMayBeLate,  \* may bluetoothd answer after RECV_TIMEOUT has expired?
  AllocMayFail     \* may realloc() of the transfer buffers fail?

\* The rates bluetooth_convert_rate_to_a2dp() knows, in the order in which
\* bluetooth_a2dp_setup() tests their capability bits.
A2dpRates == <<16000, 32000, 44100, 48000>>
\* The channel modes, in the order in which bluetooth_a2dp_setup() tests them.
ChannelModes == <<"MONO", "DUAL_CHANNEL", "STEREO", "JOINT_STEREO">>

ModeSet == {ChannelModes[i] : i \in 1..4}
RateSet == {A2dpRates[i] : i \in 1..4}

ASSUME RemoteAssumption ==
  /\ RemoteRates \subseteq RateSet /\ RemoteRates # {}
  /\ RemoteModes \subseteq ModeSet /\ RemoteModes # {}
ASSUME MtuAssumption == MtuValues \subseteq Nat \ {0} /\ MtuValues # {}
ASSUME BoundAssumption == MaxReqs \in Nat
ASSUME SwitchAssumption == ReplyMayBeLate \in BOOLEAN /\ AllocMayFail \in BOOLEAN

\* enum stream_state
StreamStates == {"STREAM_CLOSED", "STREAM_OPENED", "STREAM_CONFIGURED", "STREAM_STARTED"}

\* Operation names of the ipc.h messages used by this plugin.
Names == {"OPEN", "SET_CONFIGURATION", "DELAY_REPORT", "START_STREAM", "NEW_STREAM"}
Requests == {"OPEN", "SET_CONFIGURATION", "START_STREAM"}
\* POSIX errors bluetoothd may report in a BT_ERROR reply.
DaemonErrors == {"EAGAIN", "EIO"}
\* What audioservice_expect() returns: 0 or a negated errno.
Results == {"OK", "EINVAL", "ENOMEM"} \cup DaemonErrors

Msg == [kind : {"rsp", "ind", "err"}, name : Names, id : Nat,
        errno : DaemonErrors \cup {"none"}, mtu : MtuValues \cup {0}]
Rsp(n, i, m) == [kind |-> "rsp", name |-> n, id |-> i, errno |-> "none", mtu |-> m]
Ind(n, i) == [kind |-> "ind", name |-> n, id |-> i, errno |-> "none", mtu |-> 0]
Err(n, i, e) == [kind |-> "err", name |-> n, id |-> i, errno |-> e, mtu |-> 0]

\* The replies bluetoothd may send, in order, to request number i.
Replies(n, i) ==
  {<<Err(n, i, e)>> : e \in DaemonErrors} \cup
  CASE n = "OPEN" -> {<<Rsp(n, i, 0)>>}
    [] n = "SET_CONFIGURATION" ->
         {<<Rsp(n, i, m), Ind("DELAY_REPORT", i)>> : m \in MtuValues}
    [] n = "START_STREAM" -> {<<Rsp(n, i, 0), Ind("NEW_STREAM", i)>>}

NoCodec == [rate |-> 0, mode |-> "none"]
Codec == [rate : RateSet, mode : ModeSet] \cup {NoCodec}

\* The callbacks the ALSA ioplug layer may call and what they returned.
Outcomes == {"none", "hw_params_ok", "hw_params_err", "prepare_ok", "prepare_err"}
Params == [rate : RateSet, channels : {1, 2}]

\* The receives the caller's thread may be blocked in.
PCs == {"idle", "open_rsp", "setconf_rsp", "delay_ind", "start_rsp", "new_stream_ind"}

VARIABLES
  a2dp_stream_state,  \* data->a2dp_stream_state
  cap_frequency,      \* data->a2dp.sbc_capabilities.frequency, as a set of bits
  cap_channel_mode,   \* data->a2dp.sbc_capabilities.channel_mode, as a set of bits
  sbc,                \* the encoder set up by bluetooth_a2dp_setup()
  link_mtu,           \* data->link_mtu
  buffer_len,         \* size of data->buffer and a2dp->buffer (0: NULL)
  reqs,               \* requests sent to bluetoothd and not yet handled
  rsp,                \* messages from bluetoothd not yet received
  nreq,               \* number of requests sent (the id of the last one)
  pc,                 \* where the caller's thread is blocked
  alsa,               \* ioplug state: "open", "setup" or "prepared"
  call,               \* the hw_params of the callback in progress
  hwp,                \* the hw_params of the last successful hw_params
  last                \* the last callback that returned, and how

vars == <<a2dp_stream_state, cap_frequency, cap_channel_mode, sbc, link_mtu,
          buffer_len, reqs, rsp, nreq, pc, alsa, call, hwp, last>>

-----------------------------------------------------------------------------
(***************************************************************************)
(* Helpers translated from the plugin.                                     *)
(***************************************************************************)

\* audioservice_recv() followed by the name check of audioservice_expect().
Classify(m, name) ==
  IF m.kind = "err" THEN m.errno
  ELSE IF m.name # name THEN "EINVAL"
  ELSE "OK"

\* recv() on the control socket fails with EAGAIN once SO_RCVTIMEO expires:
\* when nothing will come, or when bluetoothd's answer is late.
TimesOut == rsp = <<>> /\ (ReplyMayBeLate \/ reqs = <<>>)

\* What audioservice_recv() receives: the oldest message of the socket, or,
\* when recv() fails with EAGAIN, an error carrying that errno (the name of
\* an error is not looked at).
Received == IF rsp # <<>> THEN Head(rsp) ELSE Err("OPEN", 0, "EAGAIN")

\* The receive of audioservice_expect(): the thread blocks until a message
\* is there, which it takes, or until the timeout expires.
Recv ==
  /\ rsp # <<>> \/ TimesOut
  /\ rsp' = IF rsp # <<>> THEN Tail(rsp) ELSE rsp

\* audioservice_send(): the request joins bluetoothd's queue.
Send(name) ==
  /\ nreq' = nreq + 1
  /\ reqs' = Append(reqs, [name |-> name, id |-> nreq + 1])

\* The first element of order that is a bit of mask, as a one-bit mask,
\* or mask itself when none is (the if/else-if chains of a2dp_init).
Prefer(mask, order) ==
  LET first == {order[i] : i \in {k \in DOMAIN order :
                                    /\ order[k] \in mask
                                    /\ \A j \in 1..(k - 1) : order[j] \notin mask}}
  IN  IF first = {} THEN mask ELSE first

\* The channel mode bluetooth_a2dp_init() chooses for a channel count.
InitChannelMode(mask, channels) ==
  IF channels = 2
  THEN Prefer(mask, <<"JOINT_STEREO", "STEREO", "DUAL_CHANNEL">>)
  ELSE Prefer(mask, <<"MONO">>)

\* The last element of order that is a bit of mask (bluetooth_a2dp_setup()
\* tests the bits in order and the last match wins).
LastOf(mask, order) ==
  order[CHOOSE i \in DOMAIN order :
          /\ order[i] \in mask
          /\ \A j \in (i + 1)..Len(order) : order[j] \notin mask]

\* bluetooth_a2dp_setup(): the SBC encoder configured from the capabilities.
Setup(freq, mode) == [rate |-> LastOf(freq, A2dpRates), mode |-> LastOf(mode, ChannelModes)]

\* bluetooth_configuration_cmp() with no overrides in the ALSA config: only
\* the frequency is compared; TRUE means "a new configuration is needed".
ConfigurationDiffers(p) == cap_frequency # {p.rate}

\* The hw constraints set by bluetooth_a2dp_hw_constraint() from the sink's
\* capabilities: the rates it lists and min_channels..max_channels.
AllowedParams ==
  [rate : RemoteRates,
   channels : (IF "MONO" \in RemoteModes THEN 1 ELSE 2)
                ..(IF RemoteModes \ {"MONO"} # {} THEN 2 ELSE 1)]

\* A callback returns to ALSA.
Return(outcome) ==
  /\ pc' = "idle"
  /\ last' = outcome
  /\ alsa' = CASE outcome = "hw_params_ok" -> "setup"
               [] outcome = "hw_params_err" -> "open"
               [] outcome = "prepare_ok" -> "prepared"
               [] OTHER -> alsa
  /\ hwp' = IF outcome = "hw_params_ok" THEN call ELSE hwp

-----------------------------------------------------------------------------
Init ==
  /\ a2dp_stream_state = "STREAM_CLOSED"
  /\ cap_frequency = RemoteRates
  /\ cap_channel_mode = RemoteModes
  /\ sbc = NoCodec
  /\ link_mtu = 0
  /\ buffer_len = 0
  /\ reqs = <<>>
  /\ rsp = <<>>
  /\ nreq = 0
  /\ pc = "idle"
  /\ alsa = "open"
  /\ call = [rate |-> LastOf(RemoteRates, A2dpRates), channels |-> 2]
  /\ hwp = call
  /\ last = "none"

(***************************************************************************)
(* bluetooth_a2dp_hw_params(), up to its first receive.  An open stream   *)
(* whose frequency is unchanged returns at once; one whose frequency       *)
(* changed jumps to "configure:" and sends SET_CONFIGURATION with the     *)
(* capabilities as they are; a closed one sends OPEN (stream_open()).      *)
(***************************************************************************)
a2dp_hw_params ==
  /\ pc = "idle"
  /\ nreq + 2 <= MaxReqs
  /\ \E p \in AllowedParams :
       /\ call' = p
       /\ IF a2dp_stream_state # "STREAM_CLOSED"
          THEN IF ConfigurationDiffers(p)
               THEN /\ Send("SET_CONFIGURATION")
                    /\ pc' = "setconf_rsp"
                    /\ UNCHANGED <<alsa, hwp, last>>
               ELSE /\ UNCHANGED <<reqs, nreq>>
                    /\ pc' = "idle"
                    /\ last' = "hw_params_ok"
                    /\ alsa' = "setup"
                    /\ hwp' = p
          ELSE /\ Send("OPEN")
               /\ pc' = "open_rsp"
               /\ UNCHANGED <<alsa, hwp, last>>
  /\ UNCHANGED <<a2dp_stream_state, cap_frequency, cap_channel_mode, sbc,
                 link_mtu, buffer_len, rsp>>

\* The OPEN reply; on success the state becomes OPENED, bluetooth_a2dp_init()
\* narrows the capabilities to one choice and SET_CONFIGURATION is sent.
OnOpenRsp(res, m) ==
  IF res = "OK"
  THEN /\ a2dp_stream_state' = "STREAM_OPENED"
       /\ cap_frequency' = {call.rate}
       /\ cap_channel_mode' = InitChannelMode(cap_channel_mode, call.channels)
       /\ Send("SET_CONFIGURATION")
       /\ pc' = "setconf_rsp"
       /\ UNCHANGED <<alsa, hwp, last>>
  ELSE /\ Return("hw_params_err")
       /\ UNCHANGED <<a2dp_stream_state, cap_frequency, cap_channel_mode, reqs, nreq>>

a2dp_hw_params_open_rsp ==
  /\ pc = "open_rsp"
  /\ Recv
  /\ OnOpenRsp(Classify(Received, "OPEN"), Received)
  /\ UNCHANGED <<sbc, link_mtu, buffer_len, call>>

\* Mutant: hw_params returns after SET_CONFIGURATION without reading the
\* DELAY_REPORT indication.
OnSetConfRspSkipsDelay(res, m) ==
  /\ IF res = "OK"
     THEN /\ link_mtu' = m.mtu
          /\ buffer_len' = m.mtu
          /\ sbc' = Setup(cap_frequency, cap_channel_mode)
          /\ a2dp_stream_state' = "STREAM_CONFIGURED"
          /\ Return("hw_params_ok")
     ELSE /\ Return("hw_params_err")
          /\ UNCHANGED <<link_mtu, buffer_len, sbc, a2dp_stream_state>>
  /\ UNCHANGED <<cap_frequency, cap_channel_mode, reqs, nreq>>

\* The SET_CONFIGURATION reply: link_mtu is taken from it and both transfer
\* buffers are realloc()ed to it; if either fails both are freed (-ENOMEM).
OnSetConfRsp(res, m) ==
  /\ IF res = "OK"
     THEN /\ link_mtu' = m.mtu
          /\ \/ /\ buffer_len' = m.mtu
                /\ pc' = "delay_ind"
                /\ UNCHANGED <<alsa, hwp, last>>
             \/ /\ AllocMayFail
                /\ buffer_len' = 0
                /\ Return("hw_params_err")
     ELSE /\ Return("hw_params_err")
          /\ UNCHANGED <<link_mtu, buffer_len>>
  /\ UNCHANGED <<a2dp_stream_state, cap_frequency, cap_channel_mode, sbc, reqs, nreq>>

a2dp_hw_params_setconf_rsp ==
  /\ pc = "setconf_rsp"
  /\ Recv
  /\ OnSetConfRsp(Classify(Received, "SET_CONFIGURATION"), Received)
  /\ UNCHANGED call

\* The mandatory DELAY_REPORT; then the encoder is set up from the
\* capabilities and the stream is CONFIGURED.
OnDelayInd(res, m) ==
  /\ IF res = "OK"
     THEN /\ sbc' = Setup(cap_frequency, cap_channel_mode)
          /\ a2dp_stream_state' = "STREAM_CONFIGURED"
          /\ Return("hw_params_ok")
     ELSE /\ Return("hw_params_err")
          /\ UNCHANGED <<sbc, a2dp_stream_state>>
  /\ UNCHANGED <<cap_frequency, cap_channel_mode, link_mtu, buffer_len, reqs, nreq>>

a2dp_hw_params_delay_ind ==
  /\ pc = "delay_ind"
  /\ Recv
  /\ OnDelayInd(Classify(Received, "DELAY_REPORT"), Received)
  /\ UNCHANGED call

(***************************************************************************)
(* bluetooth_prepare(): a started stream only wakes the poller; any other *)
(* sends START_STREAM.                                                     *)
(***************************************************************************)
prepare ==
  /\ pc = "idle"
  /\ alsa \in {"setup", "prepared"}
  /\ nreq + 2 <= MaxReqs
  /\ IF a2dp_stream_state = "STREAM_STARTED"
     THEN /\ Return("prepare_ok")
          /\ UNCHANGED <<reqs, nreq>>
     ELSE /\ Send("START_STREAM")
          /\ pc' = "start_rsp"
          /\ UNCHANGED <<alsa, hwp, last>>
  /\ UNCHANGED <<a2dp_stream_state, cap_frequency, cap_channel_mode, sbc,
                 link_mtu, buffer_len, rsp, call>>

\* The START_STREAM reply; -EAGAIN makes the stream CLOSED so that the next
\* hw_params reopens it.
OnStartRsp(res, m) ==
  IF res = "OK"
  THEN /\ pc' = "new_stream_ind"
       /\ UNCHANGED <<a2dp_stream_state, alsa, hwp, last>>
  ELSE /\ a2dp_stream_state' = IF res = "EAGAIN" THEN "STREAM_CLOSED"
                                                 ELSE a2dp_stream_state
       /\ Return("prepare_err")

prepare_start_rsp ==
  /\ pc = "start_rsp"
  /\ Recv
  /\ OnStartRsp(Classify(Received, "START_STREAM"), Received)
  /\ UNCHANGED <<cap_frequency, cap_channel_mode, sbc, link_mtu, buffer_len,
                 reqs, nreq, call>>

\* The NEW_STREAM indication; the data socket is then fetched and its send
\* timeout set, and the stream is STARTED.  If either fails, prepare
\* returns -errno and the state is left as it was.
OnNewStreamInd(res, m) ==
  \/ /\ res = "OK"
     /\ a2dp_stream_state' = "STREAM_STARTED"
     /\ Return("prepare_ok")
  \/ /\ Return("prepare_err")
     /\ UNCHANGED a2dp_stream_state

prepare_new_stream_ind ==
  /\ pc = "new_stream_ind"
  /\ Recv
  /\ OnNewStreamInd(Classify(Received, "NEW_STREAM"), Received)
  /\ UNCHANGED <<cap_frequency, cap_channel_mode, sbc, link_mtu, buffer_len,
                 reqs, nreq, call>>

(***************************************************************************)
(* bluetoothd handles the oldest request.                                  *)
(***************************************************************************)
DaemonReply ==
  /\ reqs # <<>>
  /\ \E r \in Replies(Head(reqs).name, Head(reqs).id) : rsp' = rsp \o r
  /\ reqs' = Tail(reqs)
  /\ UNCHANGED <<a2dp_stream_state, cap_frequency, cap_channel_mode, sbc,
                 link_mtu, buffer_len, nreq, pc, alsa, call, hwp, last>>

\* The request budget is spent and every request answered: the run ends.
Exhausted ==
  /\ pc = "idle"
  /\ reqs = <<>>
  /\ nreq + 2 > MaxReqs
  /\ UNCHANGED vars

Next ==
  \/ a2dp_hw_params
  \/ a2dp_hw_params_open_rsp
  \/ a2dp_hw_params_setconf_rsp
  \/ a2dp_hw_params_delay_ind
  \/ prepare
  \/ prepare_start_rsp
  \/ prepare_new_stream_ind
  \/ DaemonReply
  \/ Exhausted

Spec == Init /\ [][Next]_vars

-----------------------------------------------------------------------------
TypeOK ==
  /\ a2dp_stream_state \in StreamStates
  /\ cap_frequency \subseteq RateSet
  /\ cap_channel_mode \subseteq ModeSet
  /\ sbc \in Codec
  /\ link_mtu \in MtuValues \cup {0}
  /\ buffer_len \in MtuValues \cup {0}
  /\ reqs \in Seq([name : Requests, id : Nat])
  /\ rsp \in Seq(Msg)
  /\ nreq \in Nat
  /\ pc \in PCs
  /\ alsa \in {"open", "setup", "prepared"}
  /\ call \in Params
  /\ hwp \in Params
  /\ last \in Outcomes

\* Every message the caller's thread receives from the control socket
\* answers the request it sent last: a reply to an earlier request is never
\* taken for the answer to the current one (audioservice_expect() matches
\* replies by operation name only).
ReplyAnswersLastRequest ==
  [][Len(rsp') < Len(rsp) => Head(rsp).id = nreq]_vars

\* When hw_params has returned 0 the stream is configured as hw_params asked:
\* state CONFIGURED or STARTED, transfer buffers of link_mtu bytes, and an
\* SBC encoder set up for the rate and channel count of the call (the
\* already-open shortcut and the jump to configure: of
\* bluetooth_a2dp_hw_params()).
HwParamsOkMeansConfigured ==
  last = "hw_params_ok" =>
    /\ a2dp_stream_state \in {"STREAM_CONFIGURED", "STREAM_STARTED"}
    /\ buffer_len = link_mtu /\ link_mtu # 0
    /\ sbc # NoCodec
    /\ sbc.rate = hwp.rate
    /\ (sbc.mode = "MONO") = (hwp.channels = 1)
=============================================================================
