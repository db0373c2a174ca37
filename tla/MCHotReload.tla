---------------------------- MODULE MCHotReload -----------------------------
(***************************************************************************)
(* HotReload with five modifications: one being served, one message in the *)
(* channel, one blocked in the watcher, and two to come.                   *)
(***************************************************************************)
EXTENDS HotReload

MCMaxEdits == 5
=============================================================================
