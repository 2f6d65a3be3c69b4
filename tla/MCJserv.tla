---- MODULE MCJserv ----
(***************************************************************************)
(* Two contexts, as tests/t15_multi_context.cpp sets up.                   *)
(***************************************************************************)
EXTENDS JservRegistry
====
