-------------------------------- MODULE Screens --------------------------------
(* The two screens of the server.  They share no state (each service has a   *)
(* snapshot store of its own), so a behaviour follows one or the other.      *)
EXTENDS LeveragedScreen, OptionsScreen

VARIABLE
  screen  \* the screen that is followed: "leveraged" or "options"

allVars == <<screen, vars, optionsVars>>

InitScreens ==
  /\ screen \in {"leveraged", "options"}
  /\ Init
  /\ InitOptions
  /\ screen = "leveraged" => chain = {}

LeveragedStep ==
  /\ screen = "leveraged"
  /\ Next
  /\ UNCHANGED <<screen, optionsVars>>

OptionsStep ==
  /\ screen = "options"
  /\ NextOptions
  /\ UNCHANGED <<screen, vars>>

SpecScreens == InitScreens /\ [][LeveragedStep \/ OptionsStep]_allVars

FairScreens == SpecScreens /\ Fairness
==============================================================================
