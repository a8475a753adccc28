----------------------- MODULE MCInterchainTokenService -----------------------
(***************************************************************************)
(* A small hub: the Axelar chain and two others, one token, chains with    *)
(* wide and with narrow integers.                                          *)
(***************************************************************************)
EXTENDS InterchainTokenService

CONSTANTS eth, sui, its1, its2

wide == [bits |-> U256Bits, max_decimals |-> 1, its_address |-> its1]

narrow == [bits |-> 4, max_decimals |-> 0, its_address |-> its1]

MCBatches ==
    {[c \in {eth, sui} |-> IF c = eth THEN narrow ELSE wide],
     [c \in {sui} |-> [wide EXCEPT !.its_address = its2]]}

\* Transfers and deployments between any two chains, among them transfers of
\* nothing, and a message type that is not supported.
Transfers ==
    {hub_message_abi_encode(SendToHub(c, InterchainTransfer(t, a))) :
         c \in Chains, t \in Tokens, a \in Amounts}

Payloads ==
    Transfers
        \cup {hub_message_abi_encode(SendToHub(c, DeployInterchainToken(t, d, "none"))) :
                 c \in Chains, t \in Tokens, d \in Decimals}
        \cup {hub_message_abi_encode(SendToHub(c, DeployInterchainToken(t, 1, "minter"))) :
                 c \in Chains, t \in Tokens}
        \cup {<<3, sui, <<type, t, 0, TRUE>>>> : type \in {0, 2}, t \in Tokens}

\* Custom tokens of eth, and links from them to sui.
CustomPayloads ==
    {hub_message_abi_encode(SendToHub(sui, LinkToken(t, a, b))) :
         t \in Tokens, a \in TokenAddresses, b \in TokenAddresses}
        \cup {hub_message_abi_encode(RegisterTokenMetadata(a, d)) :
                 a \in TokenAddresses, d \in Decimals}

MCReceived ==
    [chain : Chains, address : {its1}, payload : Payloads]
        \cup [chain : {eth}, address : {its1}, payload : CustomPayloads]
        \cup [chain : {sui}, address : {its2}, payload : Transfers]

\* All chains are registered, one with a custom token, or all but that one.
MCInit ==
    /\ StoreInit
    /\ chain_configs \in
          {[c \in Chains |-> ChainConfig_new(IF c = sui THEN narrow ELSE wide)],
           [c \in Chains |-> IF c = sui THEN NoValue ELSE ChainConfig_new(wide)]}
    /\ custom_tokens = [p \in Chains \X TokenAddresses |->
                          IF p[1] = sui /\ chain_configs[sui] # NoValue THEN 1 ELSE NoValue]

MCSpec == MCInit /\ [][Next]_vars
=============================================================================
