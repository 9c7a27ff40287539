-------------------------- MODULE MC_BrokerSignals --------------------------
(***************************************************************************)
(* Paths, subscriptions and signals for the run of BrokerSignals.          *)
(***************************************************************************)
EXTENDS BrokerSignals

MCMount == <<"m">>
ExportedDir == <<"e">>

sub(path, method, source) == [path |-> path, method |-> method, source |-> source]

\* A subscription of everything, one of everything in the slave and one of a
\* method deep in it.
MCSubs == {sub(<<>>, AnyOne, AnyOne), sub(<<"m">>, AnyOne, AnyOne), sub(<<"m", "a">>, "chng", AnyOne)}

MCSignals == {sub(<<"a", "b">>, "chng", AnyOne), sub(<<"c">>, "fchng", "get")}
=============================================================================
