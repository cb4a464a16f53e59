----------------------------- MODULE InlineCode -----------------------------
(***************************************************************************)
(* The command prefixes that select a program: an interpreter must be given*)
(* a fixed script or module, never source.  reject_inline_code_prefix of   *)
(* src/tool-runtime-core/src/manifest_validation.rs, which contracts and   *)
(* typed actions are both checked with.                                    *)
(***************************************************************************)
EXTENDS Integers, Sequences

CONSTANTS
    Family,      \* executable -> "cmd", "python", "powershell", "shell", "other"
    Flags        \* arguments that start with a dash

Introduces == [python |-> {"-m", "--"}, powershell |-> {"-file", "--"}, shell |-> {"--"}]

SafeTarget(arguments, i) == i <= Len(arguments) /\ arguments[i] \notin Flags

NoInlineCode(executable, arguments) ==
    CASE Family[executable] = "other" -> TRUE
      [] Family[executable] = "cmd" -> FALSE
      [] OTHER -> SafeTarget(arguments,
                             IF arguments # <<>> /\ Head(arguments) \in Introduces[Family[executable]]
                             THEN 2 ELSE 1)
=============================================================================
