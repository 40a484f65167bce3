----------------------------- MODULE MCAppStore -----------------------------
(***************************************************************************)
(* AppStore for TLC: the second version of an APK drops one entry and adds *)
(* another.                                                                *)
(***************************************************************************)
EXTENDS AppStore, TLC

CONSTANTS p1, p2, v1, v2, manifest, dex, lib

MCApk == (v1 :> {manifest, dex}) @@ (v2 :> {manifest, lib})
=============================================================================
