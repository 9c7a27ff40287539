------------------------ MODULE MC_BrokerConnections ------------------------
(***************************************************************************)
(* Connections and mount points for the run of BrokerConnections.          *)
(***************************************************************************)
EXTENDS BrokerConnections

\* A device that connects twice and a device in a directory above it.
ThreeConns == {1, 2, 3}
Neighbours == <<(<<"a", "b", "x">>), (<<"a", "b", "x">>), (<<"a", "y">>)>>
=============================================================================
