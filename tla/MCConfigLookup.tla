---------------------------- MODULE MCConfigLookup ----------------------------
(***************************************************************************)
(* Instances of ConfigLookup for TLC: one configuration file, which names  *)
(* an image, and either one driver whose application asks for more, or two *)
(* drivers.                                                                *)
(***************************************************************************)
EXTENDS ConfigLookup, TLC
CONSTANTS d1, d2, n1, w1, w2, config, picture

ProductFiles == <<config>>
NodeFiles == [n \in Node |-> config]
Pictures == config :> picture

OneDriver(update, reload, installed, requests) ==
    [update |-> update, reload |-> reload, drivers |-> {d1}, installed |-> installed,
     requests |-> requests]
TwoDrivers ==
    [update |-> TRUE, reload |-> "NEVER", drivers |-> {d1, d2}, installed |-> {},
     requests |-> 0]
StartUps ==
    {OneDriver(TRUE, "AWAKE", {}, 1), OneDriver(TRUE, "IMMEDIATE", {config}, 1),
     OneDriver(FALSE, "IMMEDIATE", {config, picture}, 2), TwoDrivers}
=============================================================================
