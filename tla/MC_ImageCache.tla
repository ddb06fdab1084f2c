----------------------------- MODULE MC_ImageCache -----------------------------
(***************************************************************************)
(* A small instance of ImageCache: one image, one VM, transfers that can   *)
(* be cut in the middle, and room for two copies.                          *)
(***************************************************************************)
EXTENDS ImageCache, TLC

CONSTANTS d1, vm1

OneImage == <<d1>>
OneImageOf == vm1 :> d1
===============================================================================
