------------------------------ MODULE MCMinHook ------------------------------
(* The sets of calls that the runs of MinHook make. *)
EXTENDS MinHook, TLC

One(names)   == [name : names, target : Targets]
Every(names) == [name : names, target : {All}]

Setup == Every({"Initialize"}) \union One({"CreateHook"})

\* What the shim calls.
ShimCalls == Setup \union One({"EnableHook"})

\* Hooks are made, switched and removed; a hot-patched one is not disabled alone.
SwitchCalls ==
  Setup \union One({"EnableHook", "QueueEnableHook", "QueueDisableHook", "RemoveHook"})
        \union Every({"EnableHook", "DisableHook", "ApplyQueued", "Uninitialize"})
        \union [name : {"DisableHook"}, target : Targets \ HotPatched]

\* One hook is disabled alone.
DisableCalls == ShimCalls \union One({"DisableHook"})

\* Hooks are made, switched and removed, one by one, all or as they are queued.
AllCalls ==
  Setup \union One({"EnableHook", "DisableHook", "RemoveHook", "QueueEnableHook"})
        \union Every({"EnableHook", "DisableHook", "ApplyQueued", "Uninitialize"})
=============================================================================
