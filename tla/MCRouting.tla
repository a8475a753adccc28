------------------------------ MODULE MCRouting ------------------------------
(***************************************************************************)
(* An instance of Routing for TLC: two external chains of which one is     *)
(* still to be registered, Axelar, and a chain of the nexus.               *)
(***************************************************************************)
EXTENDS Routing, TLC

CONSTANTS eth, sol, osmo, g1, g2, p1

\* Both gateways verify messages of eth: g2 may replace g1, or is sol's by mistake.
MCVerifierChain == (g1 :> eth) @@ (g2 :> eth)

Id(chain, n) == CrossChainId(chain, Hex, n)

\* A message from eth to sol, and one that is only claimed, with the same id.
MCEmitted == {Message(Id(eth, 1), sol, "a")}

MCIncoming == MCEmitted \cup {Message(Id(eth, 1), Axelar, "a")}

MCNexusMessages ==
    {[message |-> Message(Id(osmo, 1), sol, "a"), source_tx |-> 1]}

MCProverChain == (p1 :> sol)
MCProverGateway == (p1 :> g2)

MCInit ==
    /\ \E e \in {NoValue, [ChainEndpoint_new(g2, Hex) EXCEPT !.frozen_status = {"Outgoing"}]} :
          endpoints = (eth :> ChainEndpoint_new(g1, Hex)) @@ (sol :> e)
                         @@ (Axelar :> ChainEndpoint_new(axelarnet_gateway, Hex))
    /\ routing = TRUE
    /\ GatewayInit
    /\ AxelarnetInit
    /\ ProverInit
    /\ changes = 0

MCSpec == MCInit /\ [][Next]_vars
=============================================================================
