---------------------------- MODULE MCEditorTabs ----------------------------
(* Small instances of EditorTabs. *)
EXTENDS EditorTabs, TLC

TabSymmetry == Permutations(Tab)
=============================================================================
