--------------------------- MODULE MCMinHookMemory ---------------------------
(* Small instances of MinHookMemory for TLC. *)
EXTENDS MinHookMemory, MCMinHook

\* Safety only: callers, functions that are alike and blocks are interchangeable.
MemorySymmetry ==
  Permutations(Callers) \union Permutations(Targets \ HotPatched) \union Permutations(Blocks)
=============================================================================
