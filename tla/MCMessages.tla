------------------------------ MODULE MCMessages ------------------------------
(* Module Messages with the peers of MCServer. *)
EXTENDS MCServer, Messages
===============================================================================
