------------------------------ MODULE MCStreams ------------------------------
EXTENDS Streams
AllKinds == {"tcp", "ws", "rsa_aes", "tls"}
(* Data frames that are longer than the masking key, as long and shorter,    *)
(* and one or two of each other opcode.                                      *)
SomeFrames ==
  {<<0, "bin">>, <<1, "bin">>, <<3, "bin">>, <<2, "cont">>, <<1, "text">>,
   <<0, "ping">>, <<2, "ping">>, <<1, "pong">>, <<0, "close">>, <<1, "bad">>}
=============================================================================
