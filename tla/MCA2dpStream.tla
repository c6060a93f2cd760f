---------------------------- MODULE MCA2dpStream ----------------------------
(* Small instances of A2dpStream for TLC.                                  *)
EXTENDS A2dpStream

\* A sink offering two rates, mono and joint stereo, two possible MTUs.
MCRemoteRates == {44100, 48000}
MCRemoteModes == {"MONO", "JOINT_STEREO"}
MCMtuValues == {672, 895}
\* A sink offering one rate: only the channel count can change.
MCOneRate == {44100}
\* A sink offering joint stereo only: only the rate can change.
MCStereoOnly == {"JOINT_STEREO"}
=============================================================================
