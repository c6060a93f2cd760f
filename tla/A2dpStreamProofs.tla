-------------------------- MODULE A2dpStreamProofs --------------------------
(***************************************************************************)
(* Proofs about the A2DP negotiation of A2dpStream, for every set of sink *)
(* capabilities, every set of link MTUs and every request budget.         *)
(***************************************************************************)
EXTENDS A2dpStream, TLAPS

-----------------------------------------------------------------------------
(***************************************************************************)
(* bluetooth_a2dp_setup() picks a rate and a mode the capabilities offer, *)
(* provided they offer at least one: the last match of its chain of ifs   *)
(* exists.                                                                 *)
(***************************************************************************)
LEMMA LastOfRate ==
  ASSUME NEW mask \in SUBSET RateSet, mask # {}
  PROVE  LastOf(mask, A2dpRates) \in mask
<1> DEFINE P(i) == /\ A2dpRates[i] \in mask
                   /\ \A j \in (i + 1)..Len(A2dpRates) : A2dpRates[j] \notin mask
<1>1. \E i \in DOMAIN A2dpRates : P(i)
  <2>1. CASE 48000 \in mask
    BY <2>1 DEF A2dpRates
  <2>2. CASE 48000 \notin mask /\ 44100 \in mask
    BY <2>2 DEF A2dpRates
  <2>3. CASE 48000 \notin mask /\ 44100 \notin mask /\ 32000 \in mask
    BY <2>3 DEF A2dpRates
  <2>4. CASE 48000 \notin mask /\ 44100 \notin mask /\ 32000 \notin mask
    <3>1. 16000 \in mask
      BY <2>4 DEF RateSet, A2dpRates
    <3>. QED  BY <2>4, <3>1 DEF A2dpRates
  <2>. QED  BY <2>1, <2>2, <2>3, <2>4
<1>. QED  BY <1>1 DEF LastOf

LEMMA LastOfMode ==
  ASSUME NEW mask \in SUBSET ModeSet, mask # {}
  PROVE  LastOf(mask, ChannelModes) \in mask
<1>1. \E i \in DOMAIN ChannelModes :
        /\ ChannelModes[i] \in mask
        /\ \A j \in (i + 1)..Len(ChannelModes) : ChannelModes[j] \notin mask
  <2>1. CASE "JOINT_STEREO" \in mask
    BY <2>1 DEF ChannelModes
  <2>2. CASE "JOINT_STEREO" \notin mask /\ "STEREO" \in mask
    BY <2>2 DEF ChannelModes
  <2>3. CASE "JOINT_STEREO" \notin mask /\ "STEREO" \notin mask /\ "DUAL_CHANNEL" \in mask
    BY <2>3 DEF ChannelModes
  <2>4. CASE "JOINT_STEREO" \notin mask /\ "STEREO" \notin mask /\ "DUAL_CHANNEL" \notin mask
    <3>1. "MONO" \in mask
      BY <2>4 DEF ModeSet, ChannelModes
    <3>. QED  BY <2>4, <3>1 DEF ChannelModes
  <2>. QED  BY <2>1, <2>2, <2>3, <2>4
<1>. QED  BY <1>1 DEF LastOf

\* The codec bluetooth_a2dp_setup() configures is one the sink offers.
LEMMA SetupType ==
  ASSUME NEW freq \in SUBSET RateSet, freq # {},
         NEW mode \in SUBSET ModeSet, mode # {}
  PROVE  Setup(freq, mode) \in Codec
BY LastOfRate, LastOfMode DEF Setup, Codec

\* bluetooth_a2dp_init() narrows the channel modes to a non-empty subset.
LEMMA InitChannelModeType ==
  ASSUME NEW mask \in SUBSET ModeSet, mask # {}, NEW ch \in {1, 2}
  PROVE  /\ InitChannelMode(mask, ch) \subseteq ModeSet
         /\ InitChannelMode(mask, ch) # {}
BY DEF InitChannelMode, Prefer, ModeSet, ChannelModes
-----------------------------------------------------------------------------
(***************************************************************************)
(* Type correctness.  TypeOK is not inductive on its own: a2dp_setup and  *)
(* a2dp_init need the capability masks non-empty, which holds because the *)
(* sink offers something (RemoteAssumption) and a2dp_init's chains only   *)
(* narrow a mask to one of its own bits.                                  *)
(***************************************************************************)
TypeInv ==
  /\ TypeOK
  /\ cap_frequency # {}
  /\ cap_channel_mode # {}

\* The replies bluetoothd may send are messages of the control protocol.
LEMMA RepliesType ==
  ASSUME NEW n \in Requests, NEW i \in Nat
  PROVE  Replies(n, i) \subseteq Seq(Msg)
<1>1. \A e \in DaemonErrors : <<Err(n, i, e)>> \in Seq(Msg)
  BY DEF Err, Msg, Requests, Names, DaemonErrors
<1>2. CASE n = "OPEN"
  <2>1. <<Rsp(n, i, 0)>> \in Seq(Msg)
    BY <1>2 DEF Rsp, Msg, Names, DaemonErrors
  <2>. QED  BY <1>1, <1>2, <2>1 DEF Replies
<1>3. CASE n = "SET_CONFIGURATION"
  <2>1. \A m \in MtuValues : <<Rsp(n, i, m), Ind("DELAY_REPORT", i)>> \in Seq(Msg)
    BY <1>3 DEF Rsp, Ind, Msg, Names, DaemonErrors
  <2>. QED  BY <1>1, <1>3, <2>1 DEF Replies
<1>4. CASE n = "START_STREAM"
  <2>1. <<Rsp(n, i, 0), Ind("NEW_STREAM", i)>> \in Seq(Msg)
    BY <1>4 DEF Rsp, Ind, Msg, Names, DaemonErrors
  <2>. QED  BY <1>1, <1>4, <2>1 DEF Replies
<1>. QED  BY <1>2, <1>3, <1>4 DEF Requests

\* The parameters hw_params may be called with are well formed.
LEMMA AllowedParamsType == AllowedParams \subseteq Params
BY RemoteAssumption DEF AllowedParams, Params

AlsaStates == {"open", "setup", "prepared"}

\* A callback returning to ALSA leaves the thread idle, and the ioplug
\* state and the recorded hw_params well formed.
LEMMA ReturnType ==
  ASSUME alsa \in AlsaStates, call \in Params, hwp \in Params,
         NEW o \in Outcomes, Return(o)
  PROVE  /\ pc' \in PCs
         /\ last' \in Outcomes
         /\ alsa' \in AlsaStates
         /\ hwp' \in Params
<1>1. CASE o = "hw_params_ok"
  BY <1>1 DEF Return, PCs, AlsaStates
<1>2. CASE o = "hw_params_err"
  BY <1>2 DEF Return, PCs, AlsaStates
<1>3. CASE o \notin {"hw_params_ok", "hw_params_err"}
  BY <1>3 DEF Return, PCs, AlsaStates
<1>. QED  BY <1>1, <1>2, <1>3

\* The sequence operations the control socket is modelled with keep a
\* sequence of messages a sequence of messages.
LEMMA SeqFacts ==
  ASSUME NEW R, NEW s \in Seq(R)
  PROVE  /\ s # <<>> => Head(s) \in R /\ Tail(s) \in Seq(R)
         /\ \A x \in R : Append(s, x) \in Seq(R)
         /\ \A t \in Seq(R) : s \o t \in Seq(R)
OBVIOUS

\* audioservice_send() queues a well-formed request.
LEMMA SendType ==
  ASSUME reqs \in Seq([name : Requests, id : Nat]), nreq \in Nat,
         NEW name \in Requests, Send(name)
  PROVE  reqs' \in Seq([name : Requests, id : Nat]) /\ nreq' \in Nat
<1>1. [name |-> name, id |-> nreq + 1] \in [name : Requests, id : Nat]
  OBVIOUS
<1>. QED  BY <1>1, SeqFacts DEF Send

\* What the receive of audioservice_expect() hands to the rest of the
\* callback is a message of the protocol, and the socket still holds
\* messages after it.
LEMMA RecvFacts ==
  ASSUME rsp \in Seq(Msg), Recv
  PROVE  Received \in Msg /\ rsp' \in Seq(Msg)
<1>1. Err("OPEN", 0, "EAGAIN") \in Msg
  BY DEF Err, Msg, Names, DaemonErrors
<1>. QED  BY <1>1, SeqFacts DEF Received, Recv

\* The initial state is well typed.
LEMMA TypeInit == Init => TypeInv
<1>. SUFFICES ASSUME Init PROVE TypeInv
  OBVIOUS
<1>1. LastOf(RemoteRates, A2dpRates) \in RemoteRates
  BY RemoteAssumption, LastOfRate
<1>. QED  BY <1>1, RemoteAssumption
          DEF Init, TypeInv, TypeOK, StreamStates, Codec, NoCodec, PCs, Params,
              Outcomes

\* Every step of the negotiation and of bluetoothd preserves TypeInv.
LEMMA TypeStep == TypeInv /\ [Next]_vars => TypeInv'
<1>. SUFFICES ASSUME TypeInv, [Next]_vars PROVE TypeInv'
  OBVIOUS
<1>. USE DEF TypeInv, TypeOK
<1>0. alsa \in AlsaStates
  BY DEF AlsaStates
<1>1. CASE a2dp_hw_params
  <2>1. call' \in Params
    BY <1>1, AllowedParamsType DEF a2dp_hw_params
  <2>2. \/ UNCHANGED <<reqs, nreq>>
        \/ Send("SET_CONFIGURATION")
        \/ Send("OPEN")
    BY <1>1 DEF a2dp_hw_params
  <2>3. reqs' \in Seq([name : Requests, id : Nat]) /\ nreq' \in Nat
    BY <2>2, SendType DEF Requests
  <2>4. pc' \in PCs /\ last' \in Outcomes /\ alsa' \in AlsaStates /\ hwp' \in Params
    BY <1>0, <1>1, <2>1 DEF a2dp_hw_params, PCs, Outcomes, AlsaStates
  <2>. QED  BY <1>1, <2>1, <2>3, <2>4 DEF a2dp_hw_params, AlsaStates
<1>2. CASE a2dp_hw_params_open_rsp
  <2>1. ASSUME NEW res, NEW m \in Msg, OnOpenRsp(res, m), rsp' \in Seq(Msg),
               UNCHANGED <<sbc, link_mtu, buffer_len, call>>
        PROVE  TypeInv'
    <3>1. InitChannelMode(cap_channel_mode, call.channels) \subseteq ModeSet
          /\ InitChannelMode(cap_channel_mode, call.channels) # {}
      BY InitChannelModeType DEF Params
    <3>3. CASE res = "OK"
      <4>1. reqs' \in Seq([name : Requests, id : Nat]) /\ nreq' \in Nat
        BY <2>1, <3>3, SendType DEF OnOpenRsp, Requests
      <4>. QED  BY <2>1, <3>1, <3>3, <4>1 DEF OnOpenRsp, PCs, Params, StreamStates
    <3>4. CASE res # "OK"
      <4>1. pc' \in PCs /\ last' \in Outcomes /\ alsa' \in AlsaStates /\ hwp' \in Params
        BY <1>0, <2>1, <3>4, ReturnType DEF OnOpenRsp, Outcomes
      <4>. QED  BY <2>1, <3>4, <4>1 DEF OnOpenRsp, AlsaStates
    <3>. QED  BY <3>3, <3>4
  <2>. QED  BY <1>2, <2>1, RecvFacts DEF a2dp_hw_params_open_rsp
<1>3. CASE a2dp_hw_params_setconf_rsp
  <2>1. ASSUME NEW res, NEW m \in Msg, OnSetConfRsp(res, m), rsp' \in Seq(Msg),
               UNCHANGED call
        PROVE  TypeInv'
    <3>1. m.mtu \in MtuValues \cup {0}
      BY DEF Msg
    <3>2. pc' \in PCs /\ last' \in Outcomes /\ alsa' \in AlsaStates /\ hwp' \in Params
      BY <1>0, <2>1, ReturnType DEF OnSetConfRsp, Outcomes, PCs
    <3>. QED  BY <2>1, <3>1, <3>2 DEF OnSetConfRsp, AlsaStates
  <2>. QED  BY <1>3, <2>1, RecvFacts DEF a2dp_hw_params_setconf_rsp
<1>4. CASE a2dp_hw_params_delay_ind
  <2>1. ASSUME NEW res, NEW m \in Msg, OnDelayInd(res, m), rsp' \in Seq(Msg),
               UNCHANGED call
        PROVE  TypeInv'
    <3>1. Setup(cap_frequency, cap_channel_mode) \in Codec
      BY SetupType
    <3>2. pc' \in PCs /\ last' \in Outcomes /\ alsa' \in AlsaStates /\ hwp' \in Params
      BY <1>0, <2>1, ReturnType DEF OnDelayInd, Outcomes
    <3>. QED  BY <2>1, <3>1, <3>2 DEF OnDelayInd, StreamStates, AlsaStates
  <2>. QED  BY <1>4, <2>1, RecvFacts DEF a2dp_hw_params_delay_ind
<1>5. CASE prepare
  <2>1. reqs' \in Seq([name : Requests, id : Nat]) /\ nreq' \in Nat
    BY <1>5, SendType DEF prepare, Requests
  <2>2. pc' \in PCs /\ last' \in Outcomes /\ alsa' \in AlsaStates /\ hwp' \in Params
    BY <1>0, <1>5, ReturnType DEF prepare, PCs, Outcomes
  <2>. QED  BY <1>5, <2>1, <2>2 DEF prepare, AlsaStates
<1>6. CASE prepare_start_rsp
  <2>1. ASSUME NEW res, NEW m \in Msg, OnStartRsp(res, m), rsp' \in Seq(Msg),
               UNCHANGED <<cap_frequency, cap_channel_mode, sbc, link_mtu,
                           buffer_len, reqs, nreq, call>>
        PROVE  TypeInv'
    <3>1. pc' \in PCs /\ last' \in Outcomes /\ alsa' \in AlsaStates /\ hwp' \in Params
      BY <1>0, <2>1, ReturnType DEF OnStartRsp, Outcomes, PCs
    <3>. QED  BY <2>1, <3>1 DEF OnStartRsp, StreamStates, AlsaStates
  <2>. QED  BY <1>6, <2>1, RecvFacts DEF prepare_start_rsp
<1>7. CASE prepare_new_stream_ind
  <2>1. ASSUME NEW res, NEW m \in Msg, OnNewStreamInd(res, m), rsp' \in Seq(Msg),
               UNCHANGED <<cap_frequency, cap_channel_mode, sbc, link_mtu,
                           buffer_len, reqs, nreq, call>>
        PROVE  TypeInv'
    <3>1. pc' \in PCs /\ last' \in Outcomes /\ alsa' \in AlsaStates /\ hwp' \in Params
      BY <1>0, <2>1, ReturnType DEF OnNewStreamInd, Outcomes
    <3>. QED  BY <2>1, <3>1 DEF OnNewStreamInd, StreamStates, AlsaStates
  <2>. QED  BY <1>7, <2>1, RecvFacts DEF prepare_new_stream_ind
<1>8. CASE DaemonReply
  <2>1. Head(reqs) \in [name : Requests, id : Nat] /\ Tail(reqs) \in Seq([name : Requests, id : Nat])
    BY <1>8, SeqFacts DEF DaemonReply
  <2>2. Head(reqs).name \in Requests /\ Head(reqs).id \in Nat
    BY <2>1
  <2>3. PICK r \in Replies(Head(reqs).name, Head(reqs).id) : rsp' = rsp \o r
    BY <1>8 DEF DaemonReply
  <2>4. r \in Seq(Msg)
    BY <2>2, RepliesType
  <2>. QED  BY <1>8, <2>1, <2>3, <2>4, SeqFacts DEF DaemonReply
<1>9. CASE Exhausted
  BY <1>9 DEF Exhausted, vars
<1>10. CASE UNCHANGED vars
  BY <1>10 DEF vars
<1>. QED  BY <1>1, <1>2, <1>3, <1>4, <1>5, <1>6, <1>7, <1>8, <1>9, <1>10
          DEF Next

\* Every state the A2DP negotiation can reach satisfies TypeOK: the
\* stream state, the capability masks, the SBC codec, link_mtu and the
\* buffer size, and both directions of the control socket are well formed.
THEOREM TypeCorrect == Spec => []TypeOK
<1>1. TypeInv => TypeOK
  BY DEF TypeInv
<1>. QED  BY TypeInit, TypeStep, <1>1, PTL DEF Spec
-----------------------------------------------------------------------------
(***************************************************************************)
(* Replies are never mismatched when bluetoothd answers within            *)
(* RECV_TIMEOUT and realloc() does not fail.  Then the plugin and the     *)
(* daemon stay in lock step: while the thread is idle nothing is queued in *)
(* either direction, and while it waits for a reply the socket holds       *)
(* exactly what is still owed for the request it sent last, all of it     *)
(* carrying that request's id.                                            *)
(***************************************************************************)
\* The request the caller's thread is waiting for the reply to.
Awaited == [open_rsp |-> "OPEN", setconf_rsp |-> "SET_CONFIGURATION",
            start_rsp |-> "START_STREAM"]

InSync ==
  /\ pc = "idle" => reqs = <<>> /\ rsp = <<>>
  /\ pc \in {"open_rsp", "setconf_rsp", "start_rsp"} =>
       \/ reqs = <<[name |-> Awaited[pc], id |-> nreq]>> /\ rsp = <<>>
       \/ reqs = <<>> /\ rsp \in Replies(Awaited[pc], nreq)
  /\ pc = "delay_ind" => reqs = <<>> /\ rsp = <<Ind("DELAY_REPORT", nreq)>>
  /\ pc = "new_stream_ind" => reqs = <<>> /\ rsp = <<Ind("NEW_STREAM", nreq)>>
\* What a step must establish: the lock step is kept, and a message taken
\* from the socket answers the last request.
SyncGoal == InSync' /\ (Len(rsp') < Len(rsp) => Head(rsp).id = nreq)

\* The replies bluetoothd may send to each request, with the CASE resolved.
LEMMA RepliesShape ==
  ASSUME NEW i
  PROVE  /\ Replies("OPEN", i) =
              {<<Err("OPEN", i, e)>> : e \in DaemonErrors} \cup {<<Rsp("OPEN", i, 0)>>}
         /\ Replies("SET_CONFIGURATION", i) =
              {<<Err("SET_CONFIGURATION", i, e)>> : e \in DaemonErrors} \cup
              {<<Rsp("SET_CONFIGURATION", i, m), Ind("DELAY_REPORT", i)>> : m \in MtuValues}
         /\ Replies("START_STREAM", i) =
              {<<Err("START_STREAM", i, e)>> : e \in DaemonErrors} \cup
              {<<Rsp("START_STREAM", i, 0), Ind("NEW_STREAM", i)>>}
BY DEF Replies

\* While the thread waits for a reply, the socket is not empty or a request
\* is still with bluetoothd: a receive that times out is impossible when
\* bluetoothd is never late.
LEMMA NoTimeout ==
  ASSUME ~ReplyMayBeLate, InSync, nreq \in Nat,
         pc \in {"open_rsp", "setconf_rsp", "start_rsp", "delay_ind", "new_stream_ind"}
  PROVE  ~TimesOut
<1>1. \A n \in Requests, i \in Nat : <<>> \notin Replies(n, i)
  <2>. SUFFICES ASSUME NEW n \in Requests, NEW i \in Nat
                PROVE  <<>> \notin Replies(n, i)
    OBVIOUS
  <2>1. CASE n = "OPEN"
    <3>1. Replies(n, i) = {<<Err("OPEN", i, e)>> : e \in DaemonErrors} \cup {<<Rsp("OPEN", i, 0)>>}
      BY <2>1, RepliesShape
    <3>. QED  BY <3>1
  <2>2. CASE n = "SET_CONFIGURATION"
    <3>1. Replies(n, i) = {<<Err("SET_CONFIGURATION", i, e)>> : e \in DaemonErrors} \cup
              {<<Rsp("SET_CONFIGURATION", i, m), Ind("DELAY_REPORT", i)>> : m \in MtuValues}
      BY <2>2, RepliesShape
    <3>. QED  BY <3>1
  <2>3. CASE n = "START_STREAM"
    <3>1. Replies(n, i) = {<<Err("START_STREAM", i, e)>> : e \in DaemonErrors} \cup
              {<<Rsp("START_STREAM", i, 0), Ind("NEW_STREAM", i)>>}
      BY <2>3, RepliesShape
    <3>. QED  BY <3>1
  <2>. QED  BY <2>1, <2>2, <2>3 DEF Requests
<1>2. CASE pc \in {"open_rsp", "setconf_rsp", "start_rsp"}
  <2>1. Awaited[pc] \in Requests
    BY <1>2 DEF Awaited, Requests
  <2>2. reqs # <<>> \/ rsp # <<>>
    BY <1>1, <1>2, <2>1 DEF InSync
  <2>. QED  BY <2>2 DEF TimesOut
<1>3. CASE pc \in {"delay_ind", "new_stream_ind"}
  BY <1>3 DEF InSync, TimesOut
<1>. QED  BY <1>2, <1>3
\* hw_params sends one request from an idle, empty socket, or none.
LEMMA SyncHwParams ==
  ASSUME TypeInv, InSync, a2dp_hw_params
  PROVE  SyncGoal
<1>1. reqs = <<>> /\ rsp = <<>> /\ rsp' = rsp
  BY DEF a2dp_hw_params, InSync
<1>2. CASE pc' = "idle"
  BY <1>1, <1>2 DEF a2dp_hw_params, InSync, SyncGoal
<1>3. CASE pc' = "setconf_rsp"
  <2>1. Send("SET_CONFIGURATION")
    BY <1>3 DEF a2dp_hw_params
  <2>. QED  BY <1>1, <1>3, <2>1 DEF Send, InSync, SyncGoal, Awaited
<1>4. CASE pc' = "open_rsp"
  <2>1. Send("OPEN")
    BY <1>4 DEF a2dp_hw_params
  <2>. QED  BY <1>1, <1>4, <2>1 DEF Send, InSync, SyncGoal, Awaited
<1>. QED  BY <1>2, <1>3, <1>4 DEF a2dp_hw_params

\* prepare sends START_STREAM from an idle, empty socket, or nothing.
LEMMA SyncPrepare ==
  ASSUME TypeInv, InSync, prepare
  PROVE  SyncGoal
<1>1. reqs = <<>> /\ rsp = <<>> /\ rsp' = rsp
  BY DEF prepare, InSync
<1>2. CASE a2dp_stream_state = "STREAM_STARTED"
  BY <1>1, <1>2 DEF prepare, Return, InSync, SyncGoal
<1>3. CASE a2dp_stream_state # "STREAM_STARTED"
  BY <1>1, <1>3 DEF prepare, Send, InSync, SyncGoal, Awaited
<1>. QED  BY <1>2, <1>3

\* bluetoothd answers the one request the thread waits for.
LEMMA SyncDaemonReply ==
  ASSUME TypeInv, InSync, DaemonReply
  PROVE  SyncGoal
<1>1. pc \in {"open_rsp", "setconf_rsp", "start_rsp"}
      /\ reqs = <<[name |-> Awaited[pc], id |-> nreq]>> /\ rsp = <<>>
  BY DEF DaemonReply, InSync, TypeInv, TypeOK, PCs
<1>2. PICK r \in Replies(Awaited[pc], nreq) : rsp' = rsp \o r
  BY <1>1 DEF DaemonReply
<1>3. rsp' = r /\ reqs' = <<>>
  BY <1>1, <1>2 DEF DaemonReply
<1>. QED  BY <1>1, <1>3 DEF DaemonReply, InSync, SyncGoal
\* The OPEN reply is the one message on the socket: after it the socket is
\* empty, and SET_CONFIGURATION is the one request outstanding.
LEMMA SyncOpenRsp ==
  ASSUME ~ReplyMayBeLate, TypeInv, InSync, a2dp_hw_params_open_rsp
  PROVE  SyncGoal
<1>1. rsp # <<>> /\ rsp' = Tail(rsp) /\ OnOpenRsp(Classify(Head(rsp), "OPEN"), Head(rsp))
  BY NoTimeout DEF Recv, Received, a2dp_hw_params_open_rsp, TypeInv, TypeOK
<1>2. reqs = <<>> /\ rsp \in Replies("OPEN", nreq)
  BY <1>1 DEF a2dp_hw_params_open_rsp, InSync, Awaited
<1>3. CASE \E e \in DaemonErrors : rsp = <<Err("OPEN", nreq, e)>>
  <2>1. PICK e \in DaemonErrors : rsp = <<Err("OPEN", nreq, e)>>
    BY <1>3
  <2>2. Classify(Head(rsp), "OPEN") # "OK" /\ Head(rsp).id = nreq /\ Tail(rsp) = <<>>
    BY <2>1 DEF Classify, Err, DaemonErrors
  <2>. QED  BY <1>1, <1>2, <2>2 DEF OnOpenRsp, Return, InSync, SyncGoal
<1>4. CASE rsp = <<Rsp("OPEN", nreq, 0)>>
  <2>1. Classify(Head(rsp), "OPEN") = "OK" /\ Head(rsp).id = nreq /\ Tail(rsp) = <<>>
    BY <1>4 DEF Classify, Rsp
  <2>. QED  BY <1>1, <1>2, <2>1 DEF OnOpenRsp, Send, InSync, SyncGoal, Awaited
<1>. QED  BY <1>2, <1>3, <1>4, RepliesShape

\* The SET_CONFIGURATION reply leaves exactly the DELAY_REPORT behind it:
\* the buffers cannot fail to be allocated, so hw_params goes on to read it.
LEMMA SyncSetConfRsp ==
  ASSUME ~ReplyMayBeLate, ~AllocMayFail, TypeInv, InSync, a2dp_hw_params_setconf_rsp
  PROVE  SyncGoal
<1>1. rsp # <<>> /\ rsp' = Tail(rsp)
      /\ OnSetConfRsp(Classify(Head(rsp), "SET_CONFIGURATION"), Head(rsp))
  BY NoTimeout DEF Recv, Received, a2dp_hw_params_setconf_rsp, TypeInv, TypeOK
<1>2. reqs = <<>> /\ rsp \in Replies("SET_CONFIGURATION", nreq)
  BY <1>1 DEF a2dp_hw_params_setconf_rsp, InSync, Awaited
<1>3. CASE \E e \in DaemonErrors : rsp = <<Err("SET_CONFIGURATION", nreq, e)>>
  <2>1. PICK e \in DaemonErrors : rsp = <<Err("SET_CONFIGURATION", nreq, e)>>
    BY <1>3
  <2>2. /\ Classify(Head(rsp), "SET_CONFIGURATION") # "OK"
        /\ Head(rsp).id = nreq /\ Tail(rsp) = <<>>
    BY <2>1 DEF Classify, Err, DaemonErrors
  <2>. QED  BY <1>1, <1>2, <2>2 DEF OnSetConfRsp, Return, InSync, SyncGoal
<1>4. CASE \E m \in MtuValues :
             rsp = <<Rsp("SET_CONFIGURATION", nreq, m), Ind("DELAY_REPORT", nreq)>>
  <2>1. PICK m \in MtuValues :
          rsp = <<Rsp("SET_CONFIGURATION", nreq, m), Ind("DELAY_REPORT", nreq)>>
    BY <1>4
  <2>2. /\ Classify(Head(rsp), "SET_CONFIGURATION") = "OK"
        /\ Head(rsp).id = nreq /\ Tail(rsp) = <<Ind("DELAY_REPORT", nreq)>>
    BY <2>1 DEF Classify, Rsp
  <2>3. pc' = "delay_ind"
    BY <1>1, <2>2 DEF OnSetConfRsp
  <2>. QED  BY <1>1, <1>2, <2>2, <2>3 DEF OnSetConfRsp, InSync, SyncGoal
<1>. QED  BY <1>2, <1>3, <1>4, RepliesShape

\* The DELAY_REPORT is the last message for SET_CONFIGURATION.
LEMMA SyncDelayInd ==
  ASSUME ~ReplyMayBeLate, TypeInv, InSync, a2dp_hw_params_delay_ind
  PROVE  SyncGoal
<1>1. rsp # <<>> /\ rsp' = Tail(rsp)
      /\ OnDelayInd(Classify(Head(rsp), "DELAY_REPORT"), Head(rsp))
  BY NoTimeout DEF Recv, Received, a2dp_hw_params_delay_ind, TypeInv, TypeOK
<1>2. reqs = <<>> /\ rsp = <<Ind("DELAY_REPORT", nreq)>>
  BY DEF a2dp_hw_params_delay_ind, InSync
<1>3. Head(rsp).id = nreq /\ Tail(rsp) = <<>>
  BY <1>2 DEF Ind
<1>. QED  BY <1>1, <1>2, <1>3 DEF OnDelayInd, Return, InSync, SyncGoal
\* The START_STREAM reply leaves exactly the NEW_STREAM indication behind it.
LEMMA SyncStartRsp ==
  ASSUME ~ReplyMayBeLate, TypeInv, InSync, prepare_start_rsp
  PROVE  SyncGoal
<1>1. rsp # <<>> /\ rsp' = Tail(rsp)
      /\ OnStartRsp(Classify(Head(rsp), "START_STREAM"), Head(rsp))
  BY NoTimeout DEF Recv, Received, prepare_start_rsp, TypeInv, TypeOK
<1>2. reqs = <<>> /\ rsp \in Replies("START_STREAM", nreq)
  BY <1>1 DEF prepare_start_rsp, InSync, Awaited
<1>3. CASE \E e \in DaemonErrors : rsp = <<Err("START_STREAM", nreq, e)>>
  <2>1. PICK e \in DaemonErrors : rsp = <<Err("START_STREAM", nreq, e)>>
    BY <1>3
  <2>2. Classify(Head(rsp), "START_STREAM") # "OK" /\ Head(rsp).id = nreq /\ Tail(rsp) = <<>>
    BY <2>1 DEF Classify, Err, DaemonErrors
  <2>. QED  BY <1>1, <1>2, <2>2 DEF prepare_start_rsp, OnStartRsp, Return, InSync, SyncGoal
<1>4. CASE rsp = <<Rsp("START_STREAM", nreq, 0), Ind("NEW_STREAM", nreq)>>
  <2>1. /\ Classify(Head(rsp), "START_STREAM") = "OK"
        /\ Head(rsp).id = nreq /\ Tail(rsp) = <<Ind("NEW_STREAM", nreq)>>
    BY <1>4 DEF Classify, Rsp
  <2>. QED  BY <1>1, <1>2, <2>1 DEF prepare_start_rsp, OnStartRsp, InSync, SyncGoal
<1>. QED  BY <1>2, <1>3, <1>4, RepliesShape

\* The NEW_STREAM indication is the last message for START_STREAM.
LEMMA SyncNewStreamInd ==
  ASSUME ~ReplyMayBeLate, TypeInv, InSync, prepare_new_stream_ind
  PROVE  SyncGoal
<1>1. rsp # <<>> /\ rsp' = Tail(rsp)
      /\ OnNewStreamInd(Classify(Head(rsp), "NEW_STREAM"), Head(rsp))
  BY NoTimeout DEF Recv, Received, prepare_new_stream_ind, TypeInv, TypeOK
<1>2. reqs = <<>> /\ rsp = <<Ind("NEW_STREAM", nreq)>>
  BY DEF prepare_new_stream_ind, InSync
<1>3. Head(rsp).id = nreq /\ Tail(rsp) = <<>>
  BY <1>2 DEF Ind
<1>4. pc' = "idle"
  BY <1>1 DEF OnNewStreamInd, Return
<1>. QED  BY <1>1, <1>2, <1>3, <1>4 DEF prepare_new_stream_ind, InSync, SyncGoal

\* When bluetoothd always answers within RECV_TIMEOUT and the transfer
\* buffers can always be allocated, every message the plugin's
\* audioservice_expect() takes from the control socket answers the request
\* hw_params or prepare sent last.
THEOREM ReplyAnswersLastRequestInSync ==
  ASSUME ~ReplyMayBeLate, ~AllocMayFail
  PROVE  Spec => ReplyAnswersLastRequest
<1> DEFINE IInv == TypeInv /\ InSync
<1>1. Init => IInv
  BY TypeInit DEF Init, InSync
<1>2. IInv /\ [Next]_vars => SyncGoal
  <2>. SUFFICES ASSUME IInv, [Next]_vars PROVE SyncGoal
    OBVIOUS
  <2>1. CASE Exhausted
    BY <2>1 DEF Exhausted, vars, InSync, SyncGoal
  <2>2. CASE UNCHANGED vars
    BY <2>2 DEF vars, InSync, SyncGoal
  <2>. QED  BY <2>1, <2>2, SyncHwParams, SyncOpenRsp, SyncSetConfRsp, SyncDelayInd,
               SyncPrepare, SyncStartRsp, SyncNewStreamInd, SyncDaemonReply DEF Next
<1>3. IInv /\ [Next]_vars => IInv'
  BY <1>2, TypeStep DEF SyncGoal
<1>4. IInv /\ [Next]_vars => [Len(rsp') < Len(rsp) => Head(rsp).id = nreq]_vars
  BY <1>2 DEF SyncGoal
<1>. QED  BY <1>1, <1>3, <1>4, PTL DEF Spec, ReplyAnswersLastRequest
=============================================================================
