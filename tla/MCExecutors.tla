------------------------------ MODULE MCExecutors ------------------------------
(***************************************************************************)
(* Jobs for TLC: containers, a module, and a script whose executor is      *)
(* misspelt.                                                               *)
(***************************************************************************)
EXTENDS Executors, TLC

CONSTANTS p1, p2, w, o

MCExecutor == p1 :> "podman" @@ p2 :> "podman" @@ w :> "wasm" @@ o :> "other"
Containers == p1 :> "podman"
=============================================================================
