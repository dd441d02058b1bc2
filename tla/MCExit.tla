-------------------------------- MODULE MCExit --------------------------------
(* The exit of a position of two shares, with the session                     *)
(*   "open"    from the start: partial sells, full exits and stop breaches    *)
(*             (the constants of the configuration);                          *)
(*   "closed"  at first: exits are queued for the open and withdrawn.         *)
EXTENDS ExitLifecycle

VARIABLE scenario

Closed == INSTANCE ExitLifecycle WITH
    StartsOpen <- FALSE, UiCommands <- {"RequestSellAll", "CancelQueuedSellAll"}

mcvars == <<vars, scenario>>

MCInit == \/ scenario = "open" /\ Init
          \/ scenario = "closed" /\ Closed!Init

MCNext == /\ UNCHANGED scenario
          /\ \/ scenario = "open" /\ Next
             \/ scenario = "closed" /\ Closed!Next

MCSpec == MCInit /\ [][MCNext]_mcvars
===============================================================================
