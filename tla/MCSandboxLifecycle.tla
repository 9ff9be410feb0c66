-------------------------- MODULE MCSandboxLifecycle --------------------------
(* Small instances of SandboxLifecycle: AnyTag is one of the tags. *)
EXTENDS SandboxLifecycle, TLC

CONSTANT OtherTag
MCTags == {AnyTag, OtherTag}
=============================================================================
