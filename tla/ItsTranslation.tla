---------------------------- MODULE ItsTranslation ----------------------------
(***************************************************************************)
(* Messages of the interchain token service and their ABI form             *)
(* (packages/interchain-token-service-std, contracts/its-abi-translator).  *)
(* An ABI payload starts with the number of its message type; an optional  *)
(* field that is absent is the empty byte string; addresses, names and     *)
(* amounts that must not be empty or zero are refused by the decoder.      *)
(* Fields that the hub neither reads nor changes are one flag: whether     *)
(* those among them that must not be empty are present.                    *)
(***************************************************************************)
EXTENDS Naturals

CONSTANTS Empty, Invalid    \* the empty byte string; a payload that does not decode

InterchainTransfer(token_id, amount) ==
    [type |-> "InterchainTransfer", token_id |-> token_id, amount |-> amount]

DeployInterchainToken(token_id, decimals, minter) ==
    [type |-> "DeployInterchainToken", token_id |-> token_id,
     decimals |-> decimals, minter |-> minter]

LinkToken(token_id, source_token, destination_token) ==
    [type |-> "LinkToken", token_id |-> token_id,
     source_token_address |-> source_token, destination_token_address |-> destination_token]

SendToHub(destination_chain, message) ==
    [type |-> "SendToHub", destination_chain |-> destination_chain, message |-> message]

ReceiveFromHub(source_chain, message) ==
    [type |-> "ReceiveFromHub", source_chain |-> source_chain, message |-> message]

RegisterTokenMetadata(token_address, decimals) ==
    [type |-> "RegisterTokenMetadata", token_address |-> token_address, decimals |-> decimals]

\* MessageType, numbered from 0; DeployTokenManager (2) is not supported.
MessageType(type) ==
    CASE type = "InterchainTransfer" -> 0
      [] type = "DeployInterchainToken" -> 1
      [] type = "SendToHub" -> 3
      [] type = "ReceiveFromHub" -> 4
      [] type = "LinkToken" -> 5
      [] type = "RegisterTokenMetadata" -> 6

\* into_vec and from_vec
into_vec(value) == IF value = "none" THEN Empty ELSE value

from_vec(bytes) == IF bytes = Empty THEN "none" ELSE bytes

message_abi_encode(m) ==
    LET head == MessageType(m.type)
    IN  CASE m.type = "InterchainTransfer" -> <<head, m.token_id, m.amount, TRUE>>
          [] m.type = "DeployInterchainToken" ->
                <<head, m.token_id, m.decimals, into_vec(m.minter), TRUE>>
          [] m.type = "LinkToken" ->
                <<head, m.token_id, m.source_token_address, m.destination_token_address, TRUE>>

\* The last field of a payload says that the fields left out are well formed.
message_abi_decode(b) ==
    CASE b[1] = 0 /\ b[3] # 0 /\ b[4] -> InterchainTransfer(b[2], b[3])
      [] b[1] = 1 /\ b[5] -> DeployInterchainToken(b[2], b[3], from_vec(b[4]))
      [] b[1] = 5 /\ b[3] # Empty /\ b[4] # Empty /\ b[5] -> LinkToken(b[2], b[3], b[4])
      [] OTHER -> Invalid

hub_message_abi_encode(h) ==
    LET head == MessageType(h.type)
    IN  CASE h.type = "SendToHub" ->
                <<head, h.destination_chain, message_abi_encode(h.message)>>
          [] h.type = "ReceiveFromHub" ->
                <<head, h.source_chain, message_abi_encode(h.message)>>
          [] h.type = "RegisterTokenMetadata" -> <<head, h.token_address, h.decimals>>

hub_message_abi_decode(b) ==
    CASE b[1] = 3 /\ message_abi_decode(b[3]) # Invalid ->
            SendToHub(b[2], message_abi_decode(b[3]))
      [] b[1] = 4 /\ message_abi_decode(b[3]) # Invalid ->
            ReceiveFromHub(b[2], message_abi_decode(b[3]))
      [] b[1] = 6 /\ b[2] # Empty -> RegisterTokenMetadata(b[2], b[3])
      [] OTHER -> Invalid
=============================================================================
