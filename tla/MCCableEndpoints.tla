--------------------------- MODULE MCCableEndpoints ---------------------------
(* CableEndpoints with two rates and two kinds of channels. *)
EXTENDS CableEndpoints

CONSTANTS Mono, Stereo

StereoDefault == [rate |-> 1, channels |-> Stereo]

SomeSettings == {[rate |-> 1, channels |-> Mono], [rate |-> 2, channels |-> Bad]}

===============================================================================
