------------------------------ MODULE MCSession ------------------------------
(* Small compositions, each with plugins that depend on one another.       *)
EXTENDS WebHost

Start(front, engine, switches, choices, sessions, times) ==
  [front |-> front, engine |-> engine, switches |-> switches, choices |-> choices,
   sessions |-> sessions, starts |-> times]

UnofferedMC == {"shell", "malformed"}
StartsMC == {
  Start("web", "spine", {"storage", "shell"}, {}, 2, 1),
  Start("web", "spine", {"storage", "shell"}, {{"shell"}}, 1, 1),
  Start("web", "legacy", {"storage", "multi_agent"}, {}, 1, 2),
  Start("repl", "spine", {"storage", "scheduler", "mailbox", "shell"}, {}, 2, 2),
  Start("repl", "spine", {"persona", "memory", "context", "companion", "skills"}, {}, 0, 1),
  Start("repl", "legacy", {"shell", "files", "patch"}, {}, 0, 1)}
=============================================================================
