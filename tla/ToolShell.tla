----------------------------- MODULE ToolShell ------------------------------
(***************************************************************************)
(* The shell tool: execute() starts `sh -c <command>`, two threads drain   *)
(* its pipes, and the caller polls the child until it has ended or the     *)
(* deadline has passed; then it kills it, waits for it and joins the two   *)
(* threads.  Looking, reading the clock, killing and waiting are steps of  *)
(* their own: the child may end between any two of them.                   *)
(*                                                                         *)
(* The command is external: it writes when it likes and may leave a        *)
(* process behind that inherited the pipes.  A pipe ends when nobody holds *)
(* its other end any more.  Of the output only its length counts.          *)
(***************************************************************************)
EXTENDS Naturals, FiniteSets, TLC

CONSTANTS
  OutputLimit,   \* max_output_bytes of the grant
  MaxWritten     \* bound on what the command writes to one pipe

ASSUME ShellAssumption == {OutputLimit, MaxWritten} \subseteq Nat

VARIABLES
  shell,     \* the call of execute
  command,   \* the child: [state, holders, written]
  reader     \* reader[s]: the thread that drains pipe s

shellVars == <<shell, command, reader>>

Pipes == {"stdout", "stderr"}

ShellInit ==
  /\ shell = [at |-> "idle", late |-> FALSE, timedOut |-> FALSE, failed |-> FALSE,
              refused |-> FALSE, status |-> "none", result |-> "none"]
  /\ command = [state |-> "none", holders |-> {}, written |-> [s \in Pipes |-> 0]]
  /\ reader = [s \in Pipes |-> [read |-> 0, kept |-> 0, truncated |-> FALSE, end |-> "none"]]

(* What is checked before the command is started.  network and writes say  *)
(* what the command looks like, the grant what it may do.                  *)
Requests == [read : BOOLEAN, wellFormed : BOOLEAN, network : BOOLEAN, writes : BOOLEAN,
             allowNetwork : BOOLEAN, allowWrite : BOOLEAN, inWorkspace : BOOLEAN]

Permitted(q) ==
  /\ q.read
  /\ q.wellFormed
  /\ q.network => q.allowNetwork
  /\ q.writes => q.allowWrite
  /\ q.inWorkspace

Execute(q, spawned) ==
  /\ shell.at = "idle"
  /\ IF Permitted(q) /\ spawned
       THEN /\ shell' = [shell EXCEPT !.at = "polling"]
            /\ command' = [command EXCEPT !.state = "running", !.holders = {"child"}]
       ELSE /\ shell' = [shell EXCEPT !.at = "returned", !.result = "refused"]
            /\ UNCHANGED command
  /\ UNCHANGED reader

----------------------------------------------------------------------------
(* The command, and what it leaves behind.                                 *)
Writes(s) ==
  /\ command.holders # {}
  /\ command.written[s] < MaxWritten
  /\ command' = [command EXCEPT !.written[s] = @ + 1]
  /\ UNCHANGED <<shell, reader>>

Forks ==
  /\ "child" \in command.holders
  /\ command' = [command EXCEPT !.holders = @ \cup {"orphan"}]
  /\ UNCHANGED <<shell, reader>>

ChildExits ==
  /\ command.state = "running"
  /\ command' = [command EXCEPT !.state = "exited", !.holders = @ \ {"child"}]
  /\ UNCHANGED <<shell, reader>>

OrphanExits ==
  /\ "orphan" \in command.holders
  /\ command' = [command EXCEPT !.holders = @ \ {"orphan"}]
  /\ UNCHANGED <<shell, reader>>

----------------------------------------------------------------------------
DeadlinePasses ==
  /\ shell.at \in {"polling", "checking"}
  /\ ~shell.late
  /\ shell' = [shell EXCEPT !.late = TRUE]
  /\ UNCHANGED <<command, reader>>

(* One round of the polling loop looks at the child first (try_wait).      *)
(* When the look itself fails the child is killed and waited for, too.     *)
Poll ==
  /\ shell.at = "polling"
  /\ \/ command.state = "exited" /\ shell' = [shell EXCEPT !.at = "joining", !.status = "own"]
     \/ command.state = "running" /\ shell' = [shell EXCEPT !.at = "checking"]
     \/ shell' = [shell EXCEPT !.at = "killing", !.failed = TRUE]
  /\ UNCHANGED <<command, reader>>

\* Mutation: the deadline is set anew in every round.
ChecksAnew ==
  /\ shell.at = "checking"
  /\ shell' = [shell EXCEPT !.at = "polling", !.late = FALSE]
  /\ UNCHANGED <<command, reader>>

(* It was running: then the clock is read, and the caller sleeps or goes   *)
(* on to kill it.                                                          *)
Checks ==
  /\ shell.at = "checking"
  /\ shell' = IF shell.late THEN [shell EXCEPT !.at = "killing", !.timedOut = TRUE]
              ELSE [shell EXCEPT !.at = "polling"]
  /\ UNCHANGED <<command, reader>>

(* A child that has ended in the meantime is not touched; a kill that the  *)
(* system refuses is ignored.                                              *)
Kill(refused) ==
  /\ shell.at = "killing"
  /\ refused => command.state = "running"
  /\ command' = IF command.state = "running" /\ ~refused
                  THEN [command EXCEPT !.state = "killed", !.holders = @ \ {"child"}]
                  ELSE command
  /\ shell' = [shell EXCEPT !.at = "waiting", !.refused = refused]
  /\ UNCHANGED reader

(* The status is that of the end the child has come to, its own or the     *)
(* signal's.  After an error of the look or of the wait the call returns   *)
(* that error and leaves the threads alone.                                *)
Waits ==
  /\ shell.at = "waiting"
  /\ command.state # "running"
  /\ shell' = IF shell.failed THEN [shell EXCEPT !.at = "returned", !.result = "error"]
              ELSE [shell EXCEPT !.at = "joining",
                     !.status = IF command.state = "killed" THEN "signal" ELSE "own"]
  /\ UNCHANGED <<command, reader>>

WaitFails ==
  /\ shell.at = "waiting"
  /\ shell' = [shell EXCEPT !.at = "returned", !.result = "error"]
  /\ UNCHANGED <<command, reader>>

Unread(s) == command.written[s] - reader[s].read

\* Mutation: output that just fits counts as truncated.
TakeStrict(r, count) ==
  LET room == OutputLimit - r.kept IN
  [r EXCEPT !.read = @ + count,
            !.kept = @ + (IF count < room THEN count ELSE room),
            !.truncated = @ \/ count >= room]

(* One read of read_bounded: what fits is kept, the rest is drained.       *)
Take(r, count) ==
  LET room == OutputLimit - r.kept IN
  [r EXCEPT !.read = @ + count,
            !.kept = @ + (IF count < room THEN count ELSE room),
            !.truncated = @ \/ count > room]

Reads(s) ==
  /\ reader[s].end = "none"
  /\ \E count \in 1 .. Unread(s) : reader' = [reader EXCEPT ![s] = Take(@, count)]
  /\ UNCHANGED <<shell, command>>

ReachesEnd(s) ==
  /\ command.state # "none"
  /\ reader[s].end = "none"
  /\ Unread(s) = 0
  /\ command.holders = {}
  /\ reader' = [reader EXCEPT ![s].end = "eof"]
  /\ UNCHANGED <<shell, command>>

ReadFails(s) ==
  /\ command.state # "none"
  /\ reader[s].end = "none"
  /\ reader' = [reader EXCEPT ![s].end = "error"]
  /\ UNCHANGED <<shell, command>>

(* The threads are joined one after the other; the error of the first is   *)
(* returned without the second.                                            *)
Joins ==
  /\ shell.at = "joining"
  /\ reader["stdout"].end # "none"
  /\ IF reader["stdout"].end = "error"
       THEN shell' = [shell EXCEPT !.at = "returned", !.result = "error"]
       ELSE /\ reader["stderr"].end # "none"
            /\ shell' = [shell EXCEPT !.at = "returned",
                 !.result = IF reader["stderr"].end = "error" THEN "error" ELSE "ok"]
  /\ UNCHANGED <<command, reader>>

ShellDone ==
  /\ shell.at = "returned"
  /\ UNCHANGED shellVars

ShellNext ==
  \/ \E q \in Requests, spawned \in BOOLEAN : Execute(q, spawned)
  \/ \E s \in Pipes : Writes(s) \/ Reads(s) \/ ReachesEnd(s) \/ ReadFails(s)
  \/ Forks \/ ChildExits \/ OrphanExits
  \/ DeadlinePasses \/ Poll \/ Checks
  \/ \E refused \in BOOLEAN : Kill(refused)
  \/ Waits \/ WaitFails \/ Joins \/ ShellDone

(* The clock goes on, the caller and the threads are scheduled.  Nothing   *)
(* is assumed of the command and of what it leaves behind.                 *)
ShellFairness ==
  /\ WF_shellVars(DeadlinePasses)
  /\ WF_shellVars(Poll) /\ WF_shellVars(Checks)
  /\ WF_shellVars(\E refused \in BOOLEAN : Kill(refused))
  /\ WF_shellVars(Waits) /\ WF_shellVars(Joins)
  /\ \A s \in Pipes : WF_shellVars(Reads(s) \/ ReachesEnd(s))

----------------------------------------------------------------------------
(* execute() and read_bounded(): a result holds everything the command and *)
(* its heirs wrote, up to the limit, however the reads cut it, and is      *)
(* marked truncated exactly when something is missing.  Its status is that *)
(* of a signal exactly when the call has killed the child; it says timed   *)
(* out then, so a result that does not say it carries the status the child *)
(* ended with.  (The other way round it may say timed out and carry the    *)
(* child's own status: the child ended between the look and the kill.)  A  *)
(* call returns while the child runs only with an error, when the system   *)
(* has refused the kill and the wait has failed as well.                   *)
ShellResultIsWhole ==
  /\ shell.result = "ok" =>
       /\ \A s \in Pipes :
            /\ reader[s].kept = IF command.written[s] < OutputLimit
                                  THEN command.written[s] ELSE OutputLimit
            /\ reader[s].truncated <=> command.written[s] > OutputLimit
       /\ shell.status = "signal" <=> command.state = "killed"
       /\ shell.status = "signal" => shell.timedOut /\ shell.late
  /\ shell.at = "returned" /\ command.state = "running" =>
       shell.refused /\ shell.result = "error"

(* The deadline of execute(): every call that has started its command      *)
(* returns, unless from some time on a process that the command has left   *)
(* behind holds a pipe, or the child lives on after a kill that the system *)
(* refused.                                                                *)
CallIsHeld ==
  \/ "orphan" \in command.holders
  \/ shell.refused /\ command.state = "running"

CallEnds == shell.at = "polling" ~> (shell.at = "returned" \/ []CallIsHeld)
=============================================================================
