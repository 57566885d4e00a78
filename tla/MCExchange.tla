------------------------------ MODULE MCExchange ------------------------------
(* An instance of Exchange for TLC: an application uses a server whose          *)
(* callbacks use another one.                                                 *)
EXTENDS Exchange, TLC

CONSTANTS app, front, back

Chain == (app :> {front}) @@ (front :> {back}) @@ (back :> {})
Bound == (app :> 2) @@ (front :> 1) @@ (back :> 0)
===============================================================================
