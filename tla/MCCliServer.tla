---------------------------- MODULE MCCliServer -----------------------------
(* CliServer instantiated for TLC.  The interface file has one line, the   *)
(* router's own address.  A ping names that address or a remote one.  The  *)
(* never-written interface[0].ip holds either an address no command names  *)
(* or, by chance, the remote one.                                          *)
EXTENDS CliServer

CONSTANTS ipOwn, ipRemote, ipOther

MCIntfFile == <<ipOwn>>
MCAddrs == {ipOwn, ipRemote}
MCUnset == {ipOther, ipRemote}

=============================================================================
