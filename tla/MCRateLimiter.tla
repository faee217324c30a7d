---------------------------- MODULE MCRateLimiter ----------------------------
(***************************************************************************)
(* Two clients, a window of two ticks and a horizon of three: long enough  *)
(* for a time to leave the window, then the horizon, while others stay.    *)
(***************************************************************************)
EXTENDS RateLimiter

CONSTANTS a, b
MCClients == {a, b}
=============================================================================
