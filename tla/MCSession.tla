------------------------------- MODULE MCSession -------------------------------
EXTENDS Session, TLC

CONSTANTS alice, bob

\* 20 is not a shard.
Numbers == "-8" :> -8 @@ "-1" :> -1 @@ "0" :> 0 @@ "1" :> 1 @@ "2" :> 2 @@ "8" :> 8 @@ "20" :> 20

\* Lines that end before any call, one for each check of the arguments.
Malformed ==
    { << >>, <<"version">>, <<"nonsense">>, <<"addpeer", "ip", "1">>, <<"addpeer", "ip", "x", "1">>,
      <<"discovershard", "x">>, <<"subshard", "1">>, <<"subshard", "-1", "0">>,
      <<"subshard", "1", "x">>, <<"unsubshard">>, <<"broadcastcollation", "0", "1", "1">>,
      <<"listshardpeer", "x">>, <<"removepeer", "x">>, <<"bootstrap">>, <<"bootstrap", "x">> }

\* Both scripts subscribe, in different bytes.  One also leaves and has typing
\* errors, the other reads, broadcasts, has requests that can panic the server,
\* and may stop it.
Scripts ==
    alice :> Malformed \cup { <<"subshard", "2", "0", "20">>, <<"unsubshard", "0">> }
    @@
    bob :> { <<"getsubshard">>,
             <<"broadcastcollation", "0", "2", "1", "0">>,
             <<"broadcastcollation", "0", "1", "-1", "0">>,
             <<"subshard", "2", "8">>, <<"stop">>, <<"discovershard", "-8">>, <<"bootstrap", "start", "addr">> }
=============================================================================
