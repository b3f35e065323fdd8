---------------------------- MODULE MCUsbReceive ----------------------------
(***************************************************************************)
(* A ring of five bytes and lines of at most three: packets that fill the   *)
(* ring, wrap, overflow, split a line or its CR LF, and hold overlong and   *)
(* empty lines.                                                             *)
(***************************************************************************)
EXTENDS UsbReceive

SomePackets ==
  {<<"a">>, <<"lf">>, <<"cr">>, <<"cr", "lf">>, <<"b", "lf">>,
   <<"a", "b", "a", "lf">>, <<"lf", "a", "b", "b", "a">>,
   <<"a", "cr", "lf", "lf", "b", "lf">>}
=============================================================================
