------------------------- MODULE MCSandboxLifecycle -------------------------
(* Small instances of SandboxLifecycle.                                    *)
EXTENDS SandboxLifecycle

Do(kind, name) == [kind |-> kind, name |-> name, proxy |-> TRUE, main |-> FALSE, keep |-> TRUE]

(* Every command on one sandbox, and another that can be made and stopped. *)
AllJobs ==
  {Do(kind, "s") : kind \in {"create", "run", "stop", "start", "rm", "cleanup"}}
  \cup {[Do(kind, "s") EXCEPT !.proxy = FALSE] : kind \in {"create", "run"}}
  \cup {[Do("create", "s") EXCEPT !.main = TRUE, !.keep = FALSE],
        Do("create", "t"), Do("stop", "t")}

SerialJobs == [c \in Shells |-> IF c = "a" THEN AllJobs ELSE {Do("start", "s")}]

(* One create --no-keep with a main command. *)
NoKeepJobs == [c \in Shells |-> {[Do("create", "s") EXCEPT !.main = TRUE, !.keep = FALSE]}]

(* A start of the second shell may run beside a cleanup of the first. *)
Cleaning == {{"cleanup", "start"}}

(* What is left of a command that is over has no effect: the next command  *)
(* of its shell sets all of it anew.                                       *)
Working == {c \in Shells : Busy(c)}
Effective == <<box, record, made, selected, troubled, woken, [c \in Working |-> <<job[c], pc[c], held[c], linked[c]>>],
               cancelled \cap Working, disturbed \cap Working>>
=============================================================================
