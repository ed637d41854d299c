------------------------------ MODULE HttpRequests ------------------------------
(***************************************************************************)
(* What the modules of the hosted server share: the requests that can be   *)
(* in progress at once, each in a slot of its own, and the absent value.   *)
(***************************************************************************)
CONSTANTS
  Slots,
  None

===============================================================================
