------------------------------ MODULE Amplifier ------------------------------
(***************************************************************************)
(* Names shared by the components that VerifierSetRotation composes.       *)
(***************************************************************************)
CONSTANTS
    Verifiers,      \* addresses of verifiers
    Chains,         \* chain names
    NoValue         \* an entry that is absent from a map
=============================================================================
