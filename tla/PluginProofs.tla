---------------------------- MODULE PluginProofs -----------------------------
(***************************************************************************)
(* Proofs about the plugin processes of a Host: what the shell tool has    *)
(* read when it returns, which answer the MCP bridge takes for whose and   *)
(* what it may send, how the voice plugin answers a request, what a patch  *)
(* leaves on disk, what a Weixin delivery may become, which Skills are     *)
(* listed, what a file search finds, and which memories stand in a load.   *)
(***************************************************************************)
EXTENDS ToolShell, ToolMcp, Voice, ToolPatch, Weixin, ToolSkills, ToolFiles, Memory,
        FiniteSetTheorems, WellFoundedInduction, SequenceTheorems, TLAPS

----------------------------------------------------------------------------
(* The shell tool.  A pipe: what has been read is at most what was         *)
(* written, what is kept of it is its beginning, up to the limit, and a    *)
(* thread that is done has read everything there will ever be.             *)
Bounded(n) == IF n < OutputLimit THEN n ELSE OutputLimit

PipeInv(s) ==
  /\ reader[s].read <= command.written[s]
  /\ reader[s].kept = Bounded(reader[s].read)
  /\ reader[s].truncated <=> reader[s].read > OutputLimit
  /\ reader[s].end = "eof" => /\ reader[s].read = command.written[s]
                              /\ command.holders = {}
                              /\ command.state # "none"
  /\ command.state = "none" => reader[s].end = "none"

ReaderStates == [read : Nat, kept : Nat, truncated : BOOLEAN,
                 end : {"none", "eof", "error"}]

ShellStates == [at : {"idle", "polling", "checking", "killing", "waiting", "joining", "returned"},
                late : BOOLEAN, timedOut : BOOLEAN, failed : BOOLEAN, refused : BOOLEAN,
                status : {"none", "own", "signal"},
                result : {"none", "refused", "error", "ok"}]
CommandStates == [state : {"none", "running", "exited", "killed"},
                  holders : SUBSET {"child", "orphan"}, written : [Pipes -> Nat]]

ShellTypeOK ==
  /\ shell \in ShellStates
  /\ command \in CommandStates
  /\ reader \in [Pipes -> ReaderStates]

(* The call: what it has done with the child in each of its stages.        *)
CallInv ==
  /\ shell.at = "idle" => command.state = "none" /\ command.holders = {}
  /\ shell.at \in {"polling", "checking", "killing"} => command.state \in {"running", "exited"}
  /\ shell.at = "waiting" =>
       /\ command.state # "none"
       /\ command.state = "running" => shell.refused
  /\ shell.at \in {"killing", "waiting"} => shell.timedOut \/ shell.failed
  /\ shell.timedOut => shell.late
  /\ shell.at = "joining" \/ shell.result = "ok" =>
       /\ command.state \in {"exited", "killed"}
       /\ shell.status = "signal" <=> command.state = "killed"
       /\ shell.status = "signal" => shell.timedOut
  /\ shell.at = "returned" /\ command.state = "running" => shell.refused /\ shell.result = "error"
  /\ shell.at # "returned" => shell.result = "none"
  /\ shell.result = "ok" => \A s \in Pipes : reader[s].end = "eof"

ShellIInv == ShellTypeOK /\ CallInv /\ \A s \in Pipes : PipeInv(s)

(* A read takes what fits and no more.                                     *)
LEMMA TakeBounds ==
  ASSUME NEW r \in ReaderStates, NEW count \in Nat,
         r.kept = Bounded(r.read), r.truncated <=> r.read > OutputLimit
  PROVE  /\ Take(r, count) \in ReaderStates
         /\ Take(r, count).read = r.read + count
         /\ Take(r, count).kept = Bounded(r.read + count)
         /\ Take(r, count).truncated <=> r.read + count > OutputLimit
         /\ Take(r, count).end = r.end
<1> DEFINE room == OutputLimit - r.kept
           n == Take(r, count)
<1>1. OutputLimit \in Nat
  BY ShellAssumption
<1>2. r.read \in Nat /\ r.kept \in Nat /\ r.truncated \in BOOLEAN /\ r.end \in {"none", "eof", "error"}
  BY DEF ReaderStates
<1>3. /\ n.read = r.read + count
      /\ n.kept = r.kept + (IF count < room THEN count ELSE room)
      /\ n.truncated = (r.truncated \/ count > room)
      /\ n.end = r.end
  BY DEF Take, ReaderStates
<1>4. n.kept = Bounded(r.read + count)
  BY <1>1, <1>2, <1>3 DEF Bounded
<1>5. n.truncated <=> r.read + count > OutputLimit
  <2>1. CASE r.read > OutputLimit
    BY <2>1, <1>1, <1>2, <1>3
  <2>2. CASE r.read <= OutputLimit
    <3>1. r.kept = r.read /\ ~r.truncated
      BY <2>2, <1>1, <1>2 DEF Bounded
    <3>2. count > room <=> r.read + count > OutputLimit
      BY <3>1, <1>1, <1>2
    <3> QED
      BY <3>1, <3>2, <1>3
  <2> QED
    BY <2>1, <2>2, <1>1, <1>2
<1>6. n.kept \in Nat
  BY <1>1, <1>2, <1>4 DEF Bounded
<1>7. r.kept + (IF count < room THEN count ELSE room) \in Nat
  BY <1>3, <1>6
<1>8. n \in ReaderStates
  <2> DEFINE t == r.truncated \/ count > room
             k == r.kept + (IF count < room THEN count ELSE room)
  <2>1. t \in BOOLEAN /\ k \in Nat /\ r.read + count \in Nat
    BY <1>2, <1>7
  <2>2. n = [r EXCEPT !.read = r.read + count, !.kept = k, !.truncated = t]
    BY DEF Take, ReaderStates
  <2> HIDE DEF t, k, n
  <2> QED
    BY <2>1, <2>2 DEF ReaderStates
<1> QED
  BY <1>3, <1>4, <1>5, <1>8

LEMMA ShellInitOK == ASSUME ShellInit PROVE ShellIInv
<1>1. ShellTypeOK
  BY DEF ShellInit, ShellTypeOK, ShellStates, CommandStates, ReaderStates, Pipes
<1>2. CallInv
  BY DEF ShellInit, CallInv
<1>3. \A s \in Pipes : PipeInv(s)
  BY ShellAssumption DEF ShellInit, PipeInv, Bounded, Pipes
<1> QED
  BY <1>1, <1>2, <1>3 DEF ShellIInv

(* What the command does to its pipes.                                     *)
LEMMA CommandWrites ==
  ASSUME ShellIInv, NEW s \in Pipes, Writes(s)
  PROVE  ShellIInv'
<1> USE DEF ShellIInv
<1>1. ShellTypeOK'
  <2>1. /\ command \in CommandStates
        /\ command' = [command EXCEPT !.written[s] = command.written[s] + 1]
    BY DEF ShellTypeOK, Writes, CommandStates
  <2>2. command.written[s] + 1 \in Nat
    BY <2>1 DEF CommandStates
  <2>3. command' \in CommandStates
    BY <2>1, <2>2 DEF CommandStates
  <2> QED
    BY <2>3 DEF ShellTypeOK, Writes
<1>2. CallInv'
  BY DEF CallInv, Writes, ShellTypeOK
<1>3. ASSUME NEW t \in Pipes PROVE PipeInv(t)'
  <2>1. /\ command'.written[t] \in Nat /\ command.written[t] \in Nat /\ reader[t].read \in Nat
        /\ command'.written[t] >= command.written[t]
        /\ command'.holders = command.holders /\ command'.state = command.state
    BY DEF ShellTypeOK, Writes, ReaderStates, CommandStates
  <2>2. reader[t].end # "eof"
    BY DEF PipeInv, Writes
  <2> QED
    BY <2>1, <2>2 DEF PipeInv, Writes
<1> QED
  BY <1>1, <1>2, <1>3

LEMMA PipesStay ==
  ASSUME ShellIInv, reader' = reader, command'.written = command.written,
         command.holders = {} => command'.holders = {} \/ command.state = "none",
         command'.state = "none" => command.state = "none"
  PROVE  \A s \in Pipes : PipeInv(s)'
  BY DEF ShellIInv, PipeInv

LEMMA CommandMoves ==
  ASSUME ShellIInv, Forks \/ ChildExits \/ OrphanExits
  PROVE  ShellIInv'
<1> USE DEF ShellIInv
<1>1. /\ command.holders \in SUBSET {"child", "orphan"}
      /\ command \in CommandStates
      /\ UNCHANGED <<shell, reader>>
  BY DEF ShellTypeOK, CommandStates, Forks, ChildExits, OrphanExits
<1>2. /\ command' \in CommandStates
      /\ command'.written = command.written
      /\ command.holders = {} => command'.holders = {}
      /\ \/ command'.state = command.state
         \/ /\ command.state = "running"
            /\ command'.state = "exited"
  <2>1. CASE Forks
    <3>1. command.holders \cup {"orphan"} \in SUBSET {"child", "orphan"} /\ command.holders # {}
      BY <1>1, <2>1 DEF Forks
    <3>2. command' = [command EXCEPT !.holders = command.holders \cup {"orphan"}]
      BY <1>1, <2>1 DEF Forks, CommandStates
    <3> QED
      BY <1>1, <3>1, <3>2 DEF CommandStates
  <2>2. CASE ChildExits
    <3>1. /\ command.holders \ {"child"} \in SUBSET {"child", "orphan"}
          /\ command.holders = {} => command.holders \ {"child"} = {}
      BY <1>1
    <3>2. command' = [command EXCEPT !.state = "exited", !.holders = command.holders \ {"child"}]
      BY <1>1, <2>2 DEF ChildExits, CommandStates
    <3> QED
      <4>1. command' \in CommandStates /\ command'.written = command.written
        BY <1>1, <3>1, <3>2 DEF CommandStates
      <4>2. command'.holders = command.holders \ {"child"} /\ command'.state = "exited"
        BY <1>1, <3>2 DEF CommandStates
      <4>3. command.state = "running"
        BY <2>2 DEF ChildExits
      <4> QED
        BY <3>1, <4>1, <4>2, <4>3
  <2>3. CASE OrphanExits
    <3>1. /\ command.holders \ {"orphan"} \in SUBSET {"child", "orphan"}
          /\ command.holders = {} => command.holders \ {"orphan"} = {}
      BY <1>1
    <3>2. command' = [command EXCEPT !.holders = command.holders \ {"orphan"}]
      BY <1>1, <2>3 DEF OrphanExits, CommandStates
    <3> QED
      BY <1>1, <3>1, <3>2 DEF CommandStates
  <2> QED
    BY <2>1, <2>2, <2>3
<1>5. ShellTypeOK'
  BY <1>1, <1>2 DEF ShellTypeOK
<1>6. CallInv'
  <2>1. command.holders = {} \/ shell.at # "idle"
    BY DEF CallInv
  <2> QED
    BY <1>1, <1>2, <2>1 DEF CallInv
<1> QED
  BY <1>1, <1>2, <1>5, <1>6, PipesStay

(* What the call does with the child.                                      *)
LEMMA Starts ==
  ASSUME ShellIInv, NEW q \in Requests, NEW spawned \in BOOLEAN, Execute(q, spawned)
  PROVE  ShellIInv'
<1> USE DEF ShellIInv
<1>1. /\ shell \in ShellStates /\ command \in CommandStates /\ reader' = reader
      /\ shell.at = "idle" /\ command.state = "none"
  BY DEF ShellTypeOK, Execute, CallInv
<1>2. CASE Permitted(q) /\ spawned
  <2>1. /\ shell' \in ShellStates /\ shell'.at = "polling" /\ shell'.timedOut = shell.timedOut
        /\ shell'.result = "none" /\ shell'.late = shell.late
    BY <1>1, <1>2 DEF Execute, ShellStates, CallInv
  <2>2. {"child"} \in SUBSET {"child", "orphan"}
    OBVIOUS
  <2>3. command' = [command EXCEPT !.state = "running", !.holders = {"child"}]
    BY <1>1, <1>2 DEF Execute, CommandStates
  <2>4. /\ command' \in CommandStates /\ command'.state = "running"
        /\ command'.written = command.written
    BY <1>1, <2>2, <2>3 DEF CommandStates
  <2>5. CallInv'
    BY <1>1, <2>1, <2>4 DEF CallInv
  <2>6. \A s \in Pipes : PipeInv(s)'
    BY <1>1, <2>4, PipesStay
  <2> QED
    BY <1>1, <2>1, <2>4, <2>5, <2>6 DEF ShellTypeOK
<1>3. CASE ~(Permitted(q) /\ spawned)
  <2>1. /\ shell' \in ShellStates /\ shell'.at = "returned" /\ shell'.result = "refused"
        /\ shell'.timedOut = shell.timedOut /\ shell'.late = shell.late
    BY <1>1, <1>3 DEF Execute, ShellStates
  <2>2. command' = command
    BY <1>3 DEF Execute
  <2>3. CallInv' /\ \A s \in Pipes : PipeInv(s)'
    BY <1>1, <2>1, <2>2 DEF CallInv, PipeInv
  <2> QED
    BY <1>1, <2>1, <2>2, <2>3 DEF ShellTypeOK
<1> QED
  BY <1>2, <1>3

(* The steps of the call that leave the child as it is.                    *)
LEMMA CallMoves ==
  ASSUME ShellIInv, DeadlinePasses \/ Poll \/ Checks \/ Waits \/ WaitFails \/ Joins
  PROVE  ShellIInv'
<1> USE DEF ShellIInv
<1>1. shell \in ShellStates /\ UNCHANGED <<command, reader>>
  BY DEF ShellTypeOK, DeadlinePasses, Poll, Checks, Waits, WaitFails, Joins
<1>2. shell' \in ShellStates /\ CallInv'
  <2>1. CASE DeadlinePasses
    <3>1. /\ shell' = [shell EXCEPT !.late = TRUE] /\ shell' \in ShellStates
      BY <1>1, <2>1 DEF DeadlinePasses, ShellStates
    <3> QED
      BY <1>1, <3>1 DEF CallInv, ShellStates
  <2>2. CASE Poll
    <3>1. CASE command.state = "exited" /\ shell' = [shell EXCEPT !.at = "joining", !.status = "own"]
      <4>1. shell' \in ShellStates /\ shell.at = "polling"
        BY <1>1, <2>2, <3>1 DEF Poll, ShellStates
      <4> QED
        BY <1>1, <3>1, <4>1 DEF CallInv, ShellStates
    <3>2. CASE shell' = [shell EXCEPT !.at = "checking"]
      <4>1. shell' \in ShellStates /\ shell.at = "polling"
        BY <1>1, <2>2, <3>2 DEF Poll, ShellStates
      <4> QED
        BY <1>1, <3>2, <4>1 DEF CallInv, ShellStates
    <3>3. CASE shell' = [shell EXCEPT !.at = "killing", !.failed = TRUE]
      <4>1. shell' \in ShellStates /\ shell.at = "polling"
        BY <1>1, <2>2, <3>3 DEF Poll, ShellStates
      <4> QED
        BY <1>1, <3>3, <4>1 DEF CallInv, ShellStates
    <3> QED
      BY <2>2, <3>1, <3>2, <3>3 DEF Poll
  <2>3. CASE Checks
    <3>1. CASE shell.late /\ shell' = [shell EXCEPT !.at = "killing", !.timedOut = TRUE]
      <4>1. shell' \in ShellStates /\ shell.at = "checking"
        BY <1>1, <2>3, <3>1 DEF Checks, ShellStates
      <4> QED
        BY <1>1, <3>1, <4>1 DEF CallInv, ShellStates
    <3>2. CASE shell' = [shell EXCEPT !.at = "polling"]
      <4>1. shell' \in ShellStates /\ shell.at = "checking"
        BY <1>1, <2>3, <3>2 DEF Checks, ShellStates
      <4> QED
        BY <1>1, <3>2, <4>1 DEF CallInv, ShellStates
    <3> QED
      BY <2>3, <3>1, <3>2 DEF Checks
  <2>4. CASE Waits
    <3>1. shell.at = "waiting" /\ command.state # "running" /\ command.state \in {"exited", "killed"}
      BY <1>1, <2>4 DEF Waits, CallInv, ShellTypeOK, CommandStates
    <3>2. CASE shell.failed
      <4>1. shell' = [shell EXCEPT !.at = "returned", !.result = "error"] /\ shell' \in ShellStates
        BY <1>1, <2>4, <3>2 DEF Waits, ShellStates
      <4> QED
        BY <1>1, <3>1, <4>1 DEF CallInv, ShellStates
    <3>3. CASE ~shell.failed
      <4> DEFINE status == IF command.state = "killed" THEN "signal" ELSE "own"
      <4>1. shell' = [shell EXCEPT !.at = "joining", !.status = status]
        BY <2>4, <3>3 DEF Waits
      <4>2. status \in {"none", "own", "signal"} /\ (status = "signal" <=> command.state = "killed")
        OBVIOUS
      <4> HIDE DEF status
      <4>3. /\ shell' \in ShellStates /\ shell'.at = "joining" /\ shell'.status = status
            /\ shell'.timedOut = shell.timedOut /\ shell'.late = shell.late
            /\ shell'.result = shell.result
        BY <1>1, <4>1, <4>2 DEF ShellStates
      <4>4. shell.timedOut /\ shell.result = "none"
        BY <3>1, <3>3 DEF CallInv
      <4> QED
        BY <1>1, <3>1, <4>2, <4>3, <4>4 DEF CallInv
    <3> QED
      BY <3>2, <3>3
  <2>5. CASE WaitFails
    <3>1. /\ shell' = [shell EXCEPT !.at = "returned", !.result = "error"] /\ shell' \in ShellStates
          /\ shell.at = "waiting"
      BY <1>1, <2>5 DEF WaitFails, ShellStates
    <3> QED
      BY <1>1, <3>1 DEF CallInv, ShellStates
  <2>6. CASE Joins
    <3>1. CASE shell' = [shell EXCEPT !.at = "returned", !.result = "error"]
      <4>1. shell' \in ShellStates /\ shell.at = "joining"
        BY <1>1, <2>6, <3>1 DEF Joins, ShellStates
      <4> QED
        BY <1>1, <3>1, <4>1 DEF CallInv, ShellStates
    <3>2. CASE /\ shell' = [shell EXCEPT !.at = "returned", !.result = "ok"]
               /\ \A s \in Pipes : reader[s].end \notin {"none", "error"}
      <4>1. shell' \in ShellStates /\ shell.at = "joining"
        BY <1>1, <2>6, <3>2 DEF Joins, ShellStates
      <4>2. \A s \in Pipes : reader[s].end = "eof"
        BY <3>2 DEF ShellTypeOK, ReaderStates
      <4> QED
        BY <1>1, <3>2, <4>1, <4>2 DEF CallInv, ShellStates
    <3> QED
      BY <2>6, <3>1, <3>2 DEF Joins, Pipes
  <2> QED
    BY <2>1, <2>2, <2>3, <2>4, <2>5, <2>6
<1>3. \A s \in Pipes : PipeInv(s)'
  BY <1>1 DEF PipeInv
<1> QED
  BY <1>1, <1>2, <1>3 DEF ShellTypeOK

(* The kill: the child runs on only if the system has refused it.          *)
LEMMA Kills ==
  ASSUME ShellIInv, NEW refused \in BOOLEAN, Kill(refused)
  PROVE  ShellIInv'
<1> USE DEF ShellIInv
<1>1. /\ shell \in ShellStates /\ command \in CommandStates /\ reader' = reader
      /\ shell.at = "killing" /\ command.state \in {"running", "exited"}
  BY DEF ShellTypeOK, Kill, CallInv
<1>2. /\ shell' \in ShellStates /\ shell'.at = "waiting" /\ shell'.refused = refused
      /\ shell'.timedOut = shell.timedOut /\ shell'.failed = shell.failed
      /\ shell'.late = shell.late /\ shell'.result = shell.result
  BY <1>1 DEF Kill, ShellStates
<1>3. /\ command' \in CommandStates /\ command'.written = command.written
      /\ command.holders = {} => command'.holders = {}
      /\ command'.state # "none" /\ (command'.state = "running" => refused)
  <2>1. CASE command.state = "running" /\ ~refused
    <3>1. /\ command.holders \ {"child"} \in SUBSET {"child", "orphan"}
          /\ command.holders = {} => command.holders \ {"child"} = {}
      BY <1>1 DEF CommandStates
    <3>2. command' = [command EXCEPT !.state = "killed", !.holders = command.holders \ {"child"}]
      BY <1>1, <2>1 DEF Kill, CommandStates
    <3>3. command' \in CommandStates /\ command'.written = command.written
      BY <1>1, <3>1, <3>2 DEF CommandStates
    <3>4. command'.holders = command.holders \ {"child"} /\ command'.state = "killed"
      BY <1>1, <3>2 DEF CommandStates
    <3> QED
      BY <3>1, <3>3, <3>4
  <2>2. CASE ~(command.state = "running" /\ ~refused)
    <3>1. command' = command
      BY <2>2 DEF Kill
    <3> QED
      BY <1>1, <2>2, <3>1
  <2> QED
    BY <2>1, <2>2
<1>4. CallInv'
  BY <1>1, <1>2, <1>3 DEF CallInv
<1>5. \A s \in Pipes : PipeInv(s)'
  BY <1>1, <1>3, PipesStay
<1> QED
  BY <1>1, <1>2, <1>3, <1>4, <1>5 DEF ShellTypeOK

(* What a reading thread does.                                             *)
LEMMA ThreadReads ==
  ASSUME ShellIInv, NEW s \in Pipes, Reads(s)
  PROVE  ShellIInv'
<1> USE DEF ShellIInv
<1>1. PICK count \in 1 .. Unread(s) : reader' = [reader EXCEPT ![s] = Take(@, count)]
  BY DEF Reads
<1>2. /\ reader[s].end = "none" /\ shell' = shell /\ command' = command
      /\ reader[s] \in ReaderStates /\ command.written[s] \in Nat /\ reader[s].read \in Nat
  BY DEF Reads, ShellTypeOK, ReaderStates, CommandStates
<1>3. count \in Nat /\ reader[s].read + count <= command.written[s]
  BY <1>1, <1>2 DEF Unread
<1>4. reader[s].kept = Bounded(reader[s].read) /\ (reader[s].truncated <=> reader[s].read > OutputLimit)
  BY DEF PipeInv
<1>5. /\ Take(reader[s], count) \in ReaderStates
      /\ Take(reader[s], count).read = reader[s].read + count
      /\ Take(reader[s], count).kept = Bounded(reader[s].read + count)
      /\ Take(reader[s], count).truncated <=> reader[s].read + count > OutputLimit
      /\ Take(reader[s], count).end = reader[s].end
  BY <1>2, <1>3, <1>4, TakeBounds
<1>6. reader'[s] = Take(reader[s], count) /\ \A t \in Pipes \ {s} : reader'[t] = reader[t]
  BY <1>1 DEF ShellTypeOK
<1>7. ShellTypeOK'
  BY <1>1, <1>2, <1>5 DEF ShellTypeOK
<1>8. CallInv'
  BY <1>2, <1>6 DEF CallInv
<1>9. ASSUME NEW t \in Pipes PROVE PipeInv(t)'
  <2>1. CASE t = s
    BY <2>1, <1>2, <1>3, <1>5, <1>6 DEF PipeInv
  <2>2. CASE t # s
    BY <2>2, <1>2, <1>6 DEF PipeInv
  <2> QED
    BY <2>1, <2>2
<1> QED
  BY <1>7, <1>8, <1>9

LEMMA ThreadEnds ==
  ASSUME ShellIInv, NEW s \in Pipes, ReachesEnd(s) \/ ReadFails(s)
  PROVE  ShellIInv'
<1> USE DEF ShellIInv
<1>1. PICK end \in {"eof", "error"} :
        /\ reader' = [reader EXCEPT ![s].end = end]
        /\ end = "eof" => Unread(s) = 0 /\ command.holders = {}
  BY DEF ReachesEnd, ReadFails
<1> DEFINE ended == [reader[s] EXCEPT !.end = end]
<1>2. /\ reader[s] \in ReaderStates /\ command.written[s] \in Nat /\ reader[s].read \in Nat
      /\ command' = command /\ shell' = shell /\ command.state # "none" /\ reader[s].end = "none"
  BY DEF ReachesEnd, ReadFails, ShellTypeOK, ReaderStates, CommandStates
<1>3. /\ ended \in ReaderStates /\ ended.read = reader[s].read /\ ended.kept = reader[s].kept
      /\ ended.truncated = reader[s].truncated /\ ended.end = end
  BY <1>2 DEF ReaderStates
<1>4. reader' = [reader EXCEPT ![s] = ended]
  BY <1>1 DEF ShellTypeOK
<1>5. reader'[s] = ended /\ \A t \in Pipes \ {s} : reader'[t] = reader[t]
  BY <1>4 DEF ShellTypeOK
<1>6. end = "eof" => reader[s].read = command.written[s] /\ command.holders = {}
  BY <1>1, <1>2 DEF Unread
<1> HIDE DEF ended
<1>7. ShellTypeOK'
  BY <1>2, <1>3, <1>4 DEF ShellTypeOK
<1>8. CallInv'
  <2>1. shell.result # "ok"
    BY <1>2 DEF CallInv
  <2> QED
    BY <1>2, <2>1 DEF CallInv
<1>9. ASSUME NEW t \in Pipes PROVE PipeInv(t)'
  <2>1. CASE t = s
    BY <2>1, <1>2, <1>3, <1>5, <1>6 DEF PipeInv
  <2>2. CASE t # s
    BY <2>2, <1>2, <1>5 DEF PipeInv
  <2> QED
    BY <2>1, <2>2
<1> QED
  BY <1>7, <1>8, <1>9

LEMMA ShellStep ==
  ASSUME ShellIInv, [ShellNext]_shellVars
  PROVE  ShellIInv'
<1>1. CASE UNCHANGED shellVars
  BY <1>1 DEF ShellIInv, ShellTypeOK, CallInv, PipeInv, shellVars
<1>2. CASE ShellNext
  <2>1. \/ \E q \in Requests, spawned \in BOOLEAN : Execute(q, spawned)
        \/ DeadlinePasses \/ Poll \/ Checks \/ Waits \/ WaitFails \/ Joins
        \/ \E refused \in BOOLEAN : Kill(refused)
        \/ UNCHANGED shellVars
        \/ Forks \/ ChildExits \/ OrphanExits
        \/ \E s \in Pipes : Writes(s) \/ Reads(s) \/ ReachesEnd(s) \/ ReadFails(s)
    BY <1>2 DEF ShellNext, ShellDone
  <2> QED
    BY <1>1, <2>1, Starts, CallMoves, Kills, CommandMoves, CommandWrites, ThreadReads, ThreadEnds
<1> QED
  BY <1>1, <1>2

(* The shell tool (yunxi-plugin-tool-shell): whatever the command and what *)
(* it leaves behind write, however the reads cut it, and wherever the end  *)
(* of the child falls between the look, the clock, the kill and the wait,  *)
(* a result that is returned holds all of the output up to the limit and   *)
(* says whether something is missing; its status is a signal's exactly     *)
(* when the call has killed the child, which only a call that timed out    *)
(* does.  A child that runs on behind a call was refused the kill, and the *)
(* call has returned an error.                                             *)
THEOREM ShellReturnsAll ==
  ShellInit /\ [][ShellNext]_shellVars => []ShellResultIsWhole
<1>1. ShellIInv => ShellResultIsWhole
  BY DEF ShellIInv, ShellResultIsWhole, CallInv, PipeInv, Bounded, ShellTypeOK
<1> QED
  BY <1>1, ShellInitOK, ShellStep, PTL
----------------------------------------------------------------------------
(* The MCP bridge.  What a part of an invocation was sent as, what frames  *)
(* the server may have sent, and the states of the process.                *)
Stages == {"none", "initialize", "discover", "refresh", "call", "notified"}
Operations == {"none", "list", "refresh", "call", "status", "cancel"}
ToolNames == McpTools \cup {"none"}
Parts == [stage : Stages, id : Nat, tool : ToolNames]
McpFrames == [id : Nat, body : {"result", "error", "notice", "garbage"}, of : Parts]
McpRequests == [stage : Stages, id : Nat, op : Operations, tool : ToolNames,
                net : BOOLEAN, secrets : SUBSET McpSecrets]
McpBridges == [at : {"down", "idle", "waiting"}, client : BOOLEAN, net : BOOLEAN,
               secrets : SUBSET McpSecrets, tools : SUBSET McpTools, next : Nat,
               req : McpRequests, starts : Nat]
McpServers == [children : SUBSET Nat, asked : SUBSET Parts, out : Seq(McpFrames)]

(* A response belongs to a request that was sent, and an id to one request *)
(* of the process, which gives no id twice.                                *)
Honest(f, asked) == f.body \in {"result", "error"} => f.of \in asked /\ f.id = f.of.id

ServerFits(b, s) ==
  /\ \A a \in s.asked : a.id < b.next
  /\ \A a, c \in s.asked : a.id = c.id => a = c
  /\ \A i \in DOMAIN s.out : Honest(s.out[i], s.asked)

(* A child that runs is that of the process, or of one that was killed.    *)
Kept(b, s) == \A n \in s.children \ killed : n = b.starts

(* While it waits, what it waits for has been sent; over pipes nothing is  *)
(* awaited that has no id.                                                 *)
PartOf(q) == [stage |-> q.stage, id |-> q.id, tool |-> q.tool]

WaitInv ==
  bridge.at = "waiting" =>
    /\ bridge.req.stage # "none"
    /\ bridge.req.stage = "notified" => Http
    /\ bridge.req.stage # "notified" => PartOf(bridge.req) \in server.asked

McpIInv ==
  /\ bridge \in McpBridges
  /\ server \in McpServers
  /\ ServerFits(bridge, server)
  /\ WaitInv
  /\ McpExchangeIsSound

LEMMA NewBridgeType ==
  ASSUME NEW at \in {"down", "idle", "waiting"}, NEW starts \in Nat
  PROVE  /\ NewBridge(at, starts) \in McpBridges
         /\ NewBridge(at, starts).at = at
         /\ NewBridge(at, starts).starts = starts
<1>1. NoRequest \in McpRequests
  BY DEF NoRequest, McpRequests, Stages, Operations, ToolNames
<1> QED
  BY <1>1 DEF NewBridge, McpBridges

LEMMA NewServerFits ==
  ASSUME NEW b, NEW children \in SUBSET Nat
  PROVE  LET s == NewServer(children)
         IN /\ s \in McpServers /\ ServerFits(b, s) /\ s.children = children
<1>1. <<>> \in Seq(McpFrames) /\ DOMAIN <<>> = {}
  OBVIOUS
<1> DEFINE s == NewServer(children)
<1>2. s \in McpServers /\ s.children = children /\ s.asked = {} /\ s.out = <<>>
  BY <1>1 DEF NewServer, McpServers
<1> HIDE DEF s
<1>3. ServerFits(b, s)
  BY <1>1, <1>2 DEF ServerFits
<1> QED
  BY <1>2, <1>3 DEF s

LEMMA McpInitOK == ASSUME McpInit PROVE McpIInv
<1>1. bridge \in McpBridges /\ bridge.at = "down"
  BY NewBridgeType, 0 \in Nat DEF McpInit
<1>2. {} \in SUBSET Nat
  OBVIOUS
<1>3. server \in McpServers /\ ServerFits(bridge, server) /\ server.children = {}
  BY <1>2, NewServerFits DEF McpInit
<1>4. WaitInv /\ McpExchangeIsSound
  BY <1>1, <1>3 DEF WaitInv, McpExchangeIsSound, McpInit, NoReply
<1> QED
  BY <1>1, <1>3, <1>4 DEF McpIInv

(* What a part that may be sent has been granted.                          *)
LEMMA RefusalMeans ==
  ASSUME NEW net \in BOOLEAN, NEW secrets
  PROVE  /\ Refusal(net, secrets) # "ok"
         /\ Refusal(net, secrets) = "none" /\ Http =>
              net /\ SecretReferences(mcpConfig) \subseteq secrets
  BY DEF Refusal

(* The three ways in which the process goes on: it sends a request, it     *)
(* answers the Host, or it ends.                                           *)
LEMMA AskKeeps ==
  ASSUME NEW b \in McpBridges, NEW s \in McpServers, ServerFits(b, s), Kept(b, s), UNCHANGED <<mcpConfig, killed>>,
         NEW stage \in Stages \ {"none", "notified"}, NEW op \in Operations,
         NEW tool \in ToolNames, NEW net \in BOOLEAN, NEW secrets \in SUBSET McpSecrets,
         Refusal(net, secrets) = "none",
         Asks(b, s, stage, op, tool, net, secrets)
  PROVE  McpIInv'
<1> DEFINE q == [stage |-> stage, id |-> b.next, op |-> op, tool |-> tool,
                 net |-> net, secrets |-> secrets]
           part == [stage |-> stage, id |-> b.next, tool |-> tool]
<1>1. b.next \in Nat /\ b.next + 1 \in Nat
  BY DEF McpBridges
<1>2. q \in McpRequests /\ part \in Parts /\ PartOf(q) = part
  BY <1>1 DEF McpRequests, Parts, PartOf
<1>3. /\ bridge' = [b EXCEPT !.at = "waiting", !.req = q, !.next = b.next + 1]
      /\ server' = [s EXCEPT !.asked = s.asked \cup {part}]
      /\ reply' = NoReply
  BY DEF Asks, McpBridges, McpServers
<1>4. q.net = net /\ q.secrets = secrets /\ q.stage = stage /\ part.id = b.next
  OBVIOUS
<1> HIDE DEF q, part
<1>5. /\ bridge' \in McpBridges /\ bridge'.at = "waiting" /\ bridge'.req = q
      /\ bridge'.next = b.next + 1 /\ bridge'.starts = b.starts
  BY <1>1, <1>2, <1>3 DEF McpBridges
<1>6. s.asked \cup {part} \in SUBSET Parts
  BY <1>2 DEF McpServers
<1>7. server' \in McpServers /\ server'.asked = s.asked \cup {part} /\ server'.out = s.out
      /\ server'.children = s.children
  BY <1>3, <1>6 DEF McpServers
<1>8. ServerFits(bridge', server')
  <2>1. \A a \in s.asked : a.id \in Nat /\ a.id < b.next
    BY DEF ServerFits, McpServers, Parts
  <2>2. \A a \in server'.asked : a.id < bridge'.next
    BY <2>1, <1>1, <1>4, <1>5, <1>7
  <2>3. \A a, c \in server'.asked : a.id = c.id => a = c
    <3>1. \A a \in s.asked : a.id # part.id
      BY <2>1, <1>1, <1>4
    <3> QED
      BY <3>1, <1>7 DEF ServerFits
  <2>4. \A i \in DOMAIN server'.out : Honest(server'.out[i], server'.asked)
    BY <1>7 DEF ServerFits, Honest
  <2> QED
    BY <2>2, <2>3, <2>4 DEF ServerFits
<1>9. WaitInv'
  BY <1>2, <1>4, <1>5, <1>7 DEF WaitInv
<1>10. McpExchangeIsSound'
  BY <1>3, <1>4, <1>5, <1>7, RefusalMeans DEF McpExchangeIsSound, NoReply, Http, Kept
<1> QED
  BY <1>5, <1>7, <1>8, <1>9, <1>10 DEF McpIInv

LEMMA ReplyKeeps ==
  ASSUME NEW b \in McpBridges, NEW s \in McpServers, ServerFits(b, s), Kept(b, s), UNCHANGED <<mcpConfig, killed>>,
         NEW op, NEW code, NEW of,
         op = "call" /\ code = "ok" => of = PartOf(b.req) /\ b.req.stage = "call",
         Replies(b, s, op, code, of)
  PROVE  McpIInv'
<1>1. NoRequest \in McpRequests
  BY DEF NoRequest, McpRequests, Stages, Operations, ToolNames
<1>2. bridge' = [b EXCEPT !.at = "idle", !.req = NoRequest] /\ server' = s
  BY DEF Replies
<1>3. bridge' \in McpBridges /\ bridge'.at = "idle" /\ bridge'.next = b.next
      /\ bridge'.starts = b.starts
  BY <1>1, <1>2 DEF McpBridges
<1>4. ServerFits(bridge', server')
  BY <1>2, <1>3 DEF ServerFits
<1>5. WaitInv'
  BY <1>3 DEF WaitInv
<1>6. McpExchangeIsSound'
  BY <1>2, <1>3 DEF McpExchangeIsSound, Replies, PartOf, Kept
<1> QED
  BY <1>2, <1>3, <1>4, <1>5, <1>6 DEF McpIInv

LEMMA EndKeeps ==
  ASSUME McpIInv, UNCHANGED <<mcpConfig, killed>>, BridgeEnds
  PROVE  McpIInv'
<1>1. bridge.starts \in Nat /\ server.children \in SUBSET Nat
  BY DEF McpIInv, McpBridges, McpServers
<1>2. bridge' \in McpBridges /\ bridge'.at = "down"
  BY <1>1, NewBridgeType DEF BridgeEnds
<1>3. server.children \ {bridge.starts} \in SUBSET Nat
  BY <1>1
<1>4. /\ server' \in McpServers /\ ServerFits(bridge', server')
      /\ server'.children = server.children \ {bridge.starts}
  BY <1>3, NewServerFits DEF BridgeEnds
<1>5. WaitInv'
  BY <1>2 DEF WaitInv
<1>6. McpExchangeIsSound'
  BY <1>2, <1>4 DEF McpIInv, McpExchangeIsSound, BridgeEnds, NoReply
<1> QED
  BY <1>2, <1>4, <1>5, <1>6 DEF McpIInv

(* A process that is killed leaves its child, which is then one of those   *)
(* that may run on.                                                        *)
LEMMA KillKeeps ==
  ASSUME McpIInv, BridgeKilled
  PROVE  McpIInv'
<1>1. bridge.starts \in Nat /\ server.children \in SUBSET Nat
  BY DEF McpIInv, McpBridges, McpServers
<1>2. bridge' \in McpBridges /\ bridge'.at = "down" /\ mcpConfig' = mcpConfig
  BY <1>1, NewBridgeType DEF BridgeKilled
<1>3. /\ server' \in McpServers /\ ServerFits(bridge', server')
      /\ server'.children = server.children
  BY <1>1, NewServerFits DEF BridgeKilled
<1>4. WaitInv'
  BY <1>2 DEF WaitInv
<1>5. McpExchangeIsSound'
  BY <1>2, <1>3 DEF McpIInv, McpExchangeIsSound, BridgeKilled, NoReply
<1> QED
  BY <1>2, <1>3, <1>4, <1>5 DEF McpIInv

(* A frame the server may send is honest; one that is sent stays so.       *)
LEMMA FramesAreHonest ==
  ASSUME server \in McpServers, NEW f \in Frames
  PROVE  f \in McpFrames /\ Honest(f, server.asked)
<1>1. NoPart \in Parts
  BY DEF NoPart, Parts, Stages, ToolNames
<1>2. server.asked \subseteq Parts
  BY DEF McpServers
<1>3. CASE f \in {[id |-> q.id, body |-> b, of |-> q] : q \in server.asked, b \in {"result", "error"}}
  <2>1. PICK q \in server.asked, b \in {"result", "error"} : f = [id |-> q.id, body |-> b, of |-> q]
    BY <1>3
  <2> QED
    BY <2>1, <1>2 DEF McpFrames, Parts, Honest
<1>4. CASE f \in [id : {0}, body : {"notice", "garbage"}, of : {NoPart}]
  BY <1>4, <1>1 DEF McpFrames, Honest
<1> QED
  BY <1>3, <1>4 DEF Frames

(* An invocation, or what is left of it once a client is there.            *)
LEMMA PerformKeeps ==
  ASSUME NEW b \in McpBridges, NEW s \in McpServers, ServerFits(b, s), Kept(b, s), UNCHANGED <<mcpConfig, killed>>,
         NEW op \in Operations, NEW tool \in McpTools \cup {"none"}, NEW net \in BOOLEAN,
         NEW secrets \in SUBSET McpSecrets,
         Perform(b, s, op, tool, net, secrets)
  PROVE  McpIInv'
<1>1. b.net \in BOOLEAN /\ b.secrets \in SUBSET McpSecrets
  BY DEF McpBridges
<1>2. {"refresh", "call"} \subseteq Stages \ {"none", "notified"} /\ "refresh" \in Operations
      /\ "call" \in Operations /\ "none" \in ToolNames /\ tool \in ToolNames
  BY DEF Stages, Operations, ToolNames
<1>3. CASE op = "refresh"
  <2>1. Refresh(b, s)
    BY <1>3 DEF Perform
  <2>2. CASE Refusal(b.net, b.secrets) # "none"
    <3>1. Replies(b, s, "refresh", Refusal(b.net, b.secrets), NoPart)
      BY <2>1, <2>2 DEF Refresh
    <3> QED
      BY <3>1, ReplyKeeps
  <2>3. CASE Refusal(b.net, b.secrets) = "none"
    <3>1. Asks(b, s, "refresh", "refresh", "none", b.net, b.secrets)
      BY <2>1, <2>3 DEF Refresh
    <3> QED
      BY <3>1, <2>3, <1>1, <1>2, AskKeeps
  <2> QED
    BY <2>2, <2>3
<1>4. CASE op = "call"
  <2>1. CallTool(b, s, tool, net, secrets)
    BY <1>4 DEF Perform
  <2>2. CASE tool \notin b.tools
    <3>1. Replies(b, s, "call", "unknown_tool", NoPart)
      BY <2>1, <2>2 DEF CallTool
    <3> QED
      BY <3>1, ReplyKeeps
  <2>3. CASE tool \in b.tools /\ Refusal(net, secrets) # "none"
    <3>1. Replies(b, s, "call", Refusal(net, secrets), NoPart)
      BY <2>1, <2>3 DEF CallTool
    <3>2. Refusal(net, secrets) # "ok"
      BY RefusalMeans
    <3> QED
      BY <3>1, <3>2, ReplyKeeps
  <2>4. CASE tool \in b.tools /\ Refusal(net, secrets) = "none"
    <3>1. Asks(b, s, "call", "call", tool, net, secrets)
      BY <2>1, <2>4 DEF CallTool
    <3> QED
      BY <3>1, <2>4, <1>2, AskKeeps
  <2> QED
    BY <2>2, <2>3, <2>4
<1>5. CASE op \notin {"refresh", "call"}
  <2>1. Replies(b, s, op, "ok", NoPart)
    BY <1>5 DEF Perform
  <2> QED
    BY <2>1, <1>5, ReplyKeeps
<1> QED
  BY <1>3, <1>4, <1>5

LEMMA InvokeKeeps ==
  ASSUME McpIInv, NEW op \in {"list", "refresh", "call", "status"}, NEW tool \in McpTools,
         NEW net \in BOOLEAN, NEW secrets \in SUBSET McpSecrets, Invoke(op, tool, net, secrets)
  PROVE  McpIInv'
<1>1. /\ bridge \in McpBridges /\ server \in McpServers /\ ServerFits(bridge, server) /\ Kept(bridge, server)
      /\ UNCHANGED <<mcpConfig, killed>> /\ op \in Operations /\ tool \in ToolNames
      /\ "initialize" \in Stages \ {"none", "notified"}
  BY DEF McpIInv, McpExchangeIsSound, Kept, Invoke, Operations, ToolNames, Stages
<1>2. ASSUME NEW n \in BOOLEAN, NEW S \in SUBSET McpSecrets, StartsClient(op, tool, n, S)
      PROVE  McpIInv'
  <2>1. CASE Refusal(n, S) # "none"
    BY <1>1, <1>2, <2>1, EndKeeps DEF StartsClient
  <2>2. CASE Refusal(n, S) = "none"
    <3> DEFINE b == [bridge EXCEPT !.net = n, !.secrets = S]
               children == IF Http THEN server.children
                           ELSE server.children \cup {bridge.starts}
               s == NewServer(children)
    <3>1. Asks(b, s, "initialize", op, tool, n, S)
      BY <1>2, <2>2 DEF StartsClient
    <3>2. b \in McpBridges /\ b.starts = bridge.starts /\ bridge.starts \in Nat
      BY <1>1 DEF McpBridges
    <3> HIDE DEF b
    <3>3. children \in SUBSET Nat /\ children \subseteq server.children \cup {bridge.starts}
      BY <1>1, <3>2 DEF McpServers
    <3> HIDE DEF children
    <3>4. s \in McpServers /\ ServerFits(b, s) /\ s.children = children
      BY <3>3, NewServerFits
    <3> HIDE DEF s
    <3>5. Kept(b, s)
      BY <1>1, <3>2, <3>3, <3>4 DEF Kept
    <3> QED
      BY <1>1, <2>2, <3>1, <3>2, <3>4, <3>5, AskKeeps
  <2> QED
    BY <2>1, <2>2
<1>3. CASE bridge.client
  <2>1. Perform(bridge, server, op, tool, net, secrets)
    BY <1>3 DEF Invoke
  <2> QED
    BY <1>1, <2>1, PerformKeeps DEF ToolNames
<1>4. CASE ~bridge.client
  <2>1. StartsClient(op, tool, net, secrets) \/ StartsClient(op, tool, FALSE, {})
    BY <1>4 DEF Invoke
  <2>2. {} \in SUBSET McpSecrets
    OBVIOUS
  <2> QED
    BY <1>2, <2>1, <2>2
<1> QED
  BY <1>3, <1>4

LEMMA CancelKeeps ==
  ASSUME McpIInv, Cancel
  PROVE  McpIInv'
<1>1. /\ bridge \in McpBridges /\ server \in McpServers /\ ServerFits(bridge, server) /\ Kept(bridge, server)
      /\ UNCHANGED <<mcpConfig, killed>> /\ bridge.net \in BOOLEAN /\ bridge.secrets \in SUBSET McpSecrets
  BY DEF McpIInv, McpExchangeIsSound, Kept, Cancel, McpBridges
<1>2. CASE ~bridge.client \/ ~Http
  <2>1. Replies(bridge, server, "cancel", "ok", NoPart)
    BY <1>2 DEF Cancel
  <2> QED
    BY <1>1, <2>1, ReplyKeeps
<1>3. CASE bridge.client /\ Http /\ Refusal(bridge.net, bridge.secrets) # "none"
  <2>1. Replies(bridge, server, "cancel", Refusal(bridge.net, bridge.secrets), NoPart)
    BY <1>3 DEF Cancel
  <2> QED
    BY <1>1, <2>1, ReplyKeeps
<1>4. CASE bridge.client /\ Http /\ Refusal(bridge.net, bridge.secrets) = "none"
  <2> DEFINE q == [NoRequest EXCEPT !.stage = "notified", !.op = "cancel",
                                    !.net = bridge.net, !.secrets = bridge.secrets]
  <2>1. NoRequest \in McpRequests
    BY DEF NoRequest, McpRequests, Stages, Operations, ToolNames
  <2>2. /\ q \in McpRequests /\ q.stage = "notified" /\ q.net = bridge.net
        /\ q.secrets = bridge.secrets
    BY <1>1, <2>1 DEF McpRequests, Stages, Operations
  <2>3. bridge' = [bridge EXCEPT !.at = "waiting", !.req = q] /\ server' = server /\ reply' = NoReply
    BY <1>4 DEF Cancel
  <2> HIDE DEF q
  <2>4. /\ bridge' \in McpBridges /\ bridge'.at = "waiting" /\ bridge'.req = q
        /\ bridge'.next = bridge.next /\ bridge'.starts = bridge.starts
    BY <1>1, <2>2, <2>3 DEF McpBridges
  <2>5. ServerFits(bridge', server')
    BY <1>1, <2>3, <2>4 DEF ServerFits
  <2>6. WaitInv'
    BY <1>1, <1>4, <2>2, <2>4 DEF WaitInv, Http
  <2>7. McpExchangeIsSound'
    BY <1>1, <1>4, <2>2, <2>3, <2>4, RefusalMeans DEF McpExchangeIsSound, NoReply, Http, Kept
  <2> QED
    BY <1>1, <2>3, <2>4, <2>5, <2>6, <2>7 DEF McpIInv
<1> QED
  BY <1>2, <1>3, <1>4

(* What the server does on its own.                                        *)
LEMMA ServerKeeps ==
  ASSUME McpIInv, (\E n \in server.children : ServerStops(n)) \/ \E f \in Frames : ServerSends(f)
  PROVE  McpIInv'
<1>1. /\ bridge \in McpBridges /\ server \in McpServers /\ ServerFits(bridge, server) /\ Kept(bridge, server)
      /\ UNCHANGED <<mcpConfig, killed, bridge, reply>>
  BY DEF McpIInv, McpExchangeIsSound, Kept, ServerStops, ServerSends
<1>2. /\ server' \in McpServers /\ server'.asked = server.asked
      /\ \A i \in DOMAIN server'.out : Honest(server'.out[i], server.asked)
      /\ server'.children \subseteq server.children
  <2>1. CASE \E n \in server.children : ServerStops(n)
    <3>1. PICK n \in server.children : server' = [server EXCEPT !.children = server.children \ {n}]
      BY <1>1, <2>1 DEF ServerStops, McpServers
    <3>2. server.children \ {n} \in SUBSET Nat
      BY <1>1 DEF McpServers
    <3>3. /\ server' \in McpServers /\ server'.asked = server.asked /\ server'.out = server.out
          /\ server'.children = server.children \ {n}
      BY <1>1, <3>1, <3>2 DEF McpServers
    <3> QED
      BY <1>1, <3>3 DEF ServerFits
  <2>2. CASE \E f \in Frames : ServerSends(f)
    <3>1. PICK f \in Frames : server' = [server EXCEPT !.out = Append(server.out, f)]
      BY <1>1, <2>2 DEF ServerSends, McpServers
    <3>2. f \in McpFrames /\ Honest(f, server.asked) /\ server.out \in Seq(McpFrames)
      BY <1>1, FramesAreHonest DEF McpServers
    <3> DEFINE more == Append(server.out, f)
    <3>3. /\ more \in Seq(McpFrames)
          /\ \A i \in DOMAIN more : more[i] = f \/ (i \in DOMAIN server.out /\ more[i] = server.out[i])
      BY <3>2
    <3> HIDE DEF more
    <3>4. /\ server' \in McpServers /\ server'.asked = server.asked /\ server'.out = more
          /\ server'.children = server.children
      BY <1>1, <3>1, <3>3 DEF McpServers, more
    <3> QED
      BY <1>1, <3>2, <3>3, <3>4 DEF ServerFits
  <2> QED
    BY <2>1, <2>2
<1>3. ServerFits(bridge', server')
  BY <1>1, <1>2 DEF ServerFits
<1>4. WaitInv' /\ McpExchangeIsSound'
  BY <1>1, <1>2 DEF McpIInv, WaitInv, McpExchangeIsSound, Http
<1> QED
  BY <1>1, <1>2, <1>3, <1>4 DEF McpIInv

----------------------------------------------------------------------------
(* A response that is taken is one to the request that is waited for: the  *)
(* id names it, and a request of the process has an id of its own.         *)
LEMMA TheAwaitedOne ==
  ASSUME McpIInv, bridge.at = "waiting", bridge.req.stage # "notified",
         NEW f, Honest(f, server.asked), f.body \in {"result", "error"}, f.id = bridge.req.id
  PROVE  f.of = PartOf(bridge.req)
<1>1. PartOf(bridge.req) \in server.asked /\ f.of \in server.asked
  BY DEF McpIInv, WaitInv, Honest
<1>2. PartOf(bridge.req).id = f.of.id
  BY DEF PartOf, Honest
<1> QED
  BY <1>1, <1>2 DEF McpIInv, ServerFits

LEMMA HandshakeKeeps ==
  ASSUME McpIInv, NEW s \in McpServers, ServerFits(bridge, s), Kept(bridge, s),
         UNCHANGED <<mcpConfig, killed>>,
         AfterHandshake(bridge, s)
  PROVE  McpIInv'
<1>1. /\ bridge \in McpBridges /\ bridge.req \in McpRequests
      /\ "discover" \in Stages \ {"none", "notified"}
  BY DEF McpIInv, McpBridges, Stages
<1>2. /\ bridge.req.op \in Operations /\ bridge.req.tool \in ToolNames
      /\ bridge.req.net \in BOOLEAN /\ bridge.req.secrets \in SUBSET McpSecrets
  BY <1>1 DEF McpRequests
<1>3. CASE Refusal(bridge.req.net, bridge.req.secrets) # "none"
  BY <1>3, EndKeeps DEF AfterHandshake
<1>4. CASE Refusal(bridge.req.net, bridge.req.secrets) = "none"
  <2>1. Asks(bridge, s, "discover", bridge.req.op, bridge.req.tool,
             bridge.req.net, bridge.req.secrets)
    BY <1>4 DEF AfterHandshake
  <2> QED
    BY <1>1, <1>2, <1>4, <2>1, AskKeeps
<1> QED
  BY <1>3, <1>4

LEMMA RemoteKeeps ==
  ASSUME McpIInv, NEW s \in McpServers, ServerFits(bridge, s), Kept(bridge, s),
         UNCHANGED <<mcpConfig, killed>>,
         NEW code, code # "ok", Remote(code, s)
  PROVE  McpIInv'
<1>1. bridge \in McpBridges
  BY DEF McpIInv
<1>2. CASE bridge.client
  <2>1. Replies(bridge, s, bridge.req.op, code, NoPart)
    BY <1>2 DEF Remote
  <2> QED
    BY <1>1, <2>1, ReplyKeeps
<1>3. CASE ~bridge.client
  BY <1>3, EndKeeps DEF Remote
<1> QED
  BY <1>2, <1>3

(* The next stage of an invocation.                                        *)
LEMMA SucceedsKeeps ==
  ASSUME McpIInv, bridge.at = "waiting", bridge.req.stage # "notified",
         NEW s \in McpServers, s.asked = server.asked, ServerFits(bridge, s), Kept(bridge, s),
         UNCHANGED <<mcpConfig, killed>>, NEW list \in SUBSET McpTools,
         NEW f, f.of = PartOf(bridge.req), Succeeds(f, list, s)
  PROVE  McpIInv'
<1> DEFINE q == bridge.req
           listed == [bridge EXCEPT !.tools = list, !.client = TRUE]
<1>1. bridge \in McpBridges /\ q \in McpRequests
  BY DEF McpIInv, McpBridges
<1>2. /\ q.op \in Operations /\ q.tool \in ToolNames /\ q.net \in BOOLEAN
      /\ q.secrets \in SUBSET McpSecrets
      /\ q.stage \in {"initialize", "discover", "refresh", "call"}
  BY <1>1 DEF McpRequests, McpIInv, WaitInv, Stages
<1>3. /\ listed \in McpBridges /\ listed.req = q /\ listed.next = bridge.next
      /\ listed.starts = bridge.starts
  BY <1>1 DEF McpBridges
<1>4. ServerFits(listed, s) /\ Kept(listed, s)
  BY <1>3 DEF ServerFits, Kept
<1> HIDE DEF listed
<1>5. CASE q.stage = "initialize" /\ Http
  <2> DEFINE n == [q EXCEPT !.stage = "notified", !.id = 0]
  <2>1. bridge' = [bridge EXCEPT !.req = n] /\ server' = s /\ reply' = NoReply
    BY <1>1, <1>5 DEF Succeeds, McpBridges, McpRequests
  <2>2. n \in McpRequests /\ n.stage = "notified" /\ n.net = q.net /\ n.secrets = q.secrets
    BY <1>1 DEF McpRequests, Stages
  <2> HIDE DEF n
  <2>3. /\ bridge' \in McpBridges /\ bridge'.at = "waiting" /\ bridge'.req = n
        /\ bridge'.next = bridge.next /\ bridge'.starts = bridge.starts
    BY <1>1, <2>1, <2>2 DEF McpBridges
  <2>4. ServerFits(bridge', server')
    BY <2>1, <2>3 DEF ServerFits
  <2>5. WaitInv'
    BY <1>5, <2>2, <2>3 DEF WaitInv, Http
  <2>6. McpExchangeIsSound'
    BY <1>5, <2>1, <2>2, <2>3 DEF McpIInv, McpExchangeIsSound, NoReply, Http, Kept
  <2> QED
    BY <2>1, <2>3, <2>4, <2>5, <2>6 DEF McpIInv
<1>6. CASE q.stage = "initialize" /\ ~Http
  BY <1>6, HandshakeKeeps DEF Succeeds
<1>7. CASE q.stage = "discover"
  <2>1. Perform(listed, s, q.op, q.tool, q.net, q.secrets)
    BY <1>7 DEF Succeeds, listed
  <2> QED
    BY <1>2, <1>3, <1>4, <2>1, PerformKeeps DEF ToolNames
<1>8. CASE q.stage = "refresh"
  <2>1. Replies(listed, s, "refresh", "ok", f.of)
    BY <1>8 DEF Succeeds, listed
  <2> QED
    BY <1>3, <1>4, <2>1, ReplyKeeps
<1>9. CASE q.stage = "call"
  <2>1. Replies(bridge, s, "call", "ok", f.of)
    BY <1>9 DEF Succeeds
  <2> QED
    BY <1>1, <1>9, <2>1, ReplyKeeps
<1> QED
  BY <1>2, <1>5, <1>6, <1>7, <1>8, <1>9

LEMMA AcceptKeeps ==
  ASSUME McpIInv, bridge.at = "waiting", bridge.req.stage # "notified",
         NEW s \in McpServers, s.asked = server.asked, ServerFits(bridge, s), Kept(bridge, s),
         UNCHANGED <<mcpConfig, killed>>, NEW list \in SUBSET McpTools,
         NEW f \in McpFrames, Honest(f, server.asked), Accept(f, list, s)
  PROVE  McpIInv'
<1>1. CASE f.body \in {"garbage", "notice"} \/ f.id # bridge.req.id
  BY <1>1, EndKeeps DEF Accept
<1>2. CASE f.body = "error" /\ f.id = bridge.req.id
  <2>1. Remote("mcp_remote_error", s)
    BY <1>2 DEF Accept
  <2> QED
    BY <2>1, RemoteKeeps
<1>3. CASE f.body = "result" /\ f.id = bridge.req.id
  <2>1. Succeeds(f, list, s)
    BY <1>3 DEF Accept
  <2>2. f.of = PartOf(bridge.req)
    BY <1>3, TheAwaitedOne
  <2> QED
    BY <2>1, <2>2, SucceedsKeeps
<1>4. f.body \in {"result", "error", "notice", "garbage"}
  BY DEF McpFrames
<1> QED
  BY <1>1, <1>2, <1>3, <1>4

(* What the bridge reads from its child, or is answered over HTTP.         *)
LEMMA ReceiveKeeps ==
  ASSUME McpIInv, NEW list \in SUBSET McpTools, Receive(list)
  PROVE  McpIInv'
<1>1. /\ bridge \in McpBridges /\ server \in McpServers /\ ServerFits(bridge, server) /\ Kept(bridge, server)
      /\ UNCHANGED <<mcpConfig, killed>> /\ bridge.at = "waiting" /\ ~Http
      /\ bridge.req.stage # "notified"
  BY DEF McpIInv, McpExchangeIsSound, Kept, WaitInv, Receive
<1>2. CASE server.out = <<>>
  BY <1>1, <1>2, EndKeeps DEF Receive
<1>3. CASE server.out # <<>>
  <2> DEFINE f == Head(server.out)
             s == [server EXCEPT !.out = Tail(server.out)]
  <2>1. server.out \in Seq(McpFrames)
    BY <1>1 DEF McpServers
  <2>2. f = server.out[1] /\ 1 \in DOMAIN server.out /\ Tail(server.out) \in Seq(McpFrames)
    BY <2>1, <1>3
  <2>3. f \in McpFrames /\ Honest(f, server.asked)
    BY <1>1, <2>1, <2>2 DEF ServerFits
  <2>4. \A i \in DOMAIN Tail(server.out) :
          Tail(server.out)[i] = server.out[i + 1] /\ i + 1 \in DOMAIN server.out
    BY <1>3, <2>1
  <2>5. /\ s \in McpServers /\ s.asked = server.asked /\ s.out = Tail(server.out)
        /\ s.children = server.children
    BY <1>1, <2>2 DEF McpServers
  <2>6. ServerFits(bridge, s) /\ Kept(bridge, s)
    BY <1>1, <2>4, <2>5 DEF ServerFits, Kept
  <2>7. \/ f.body = "notice" /\ server' = s /\ UNCHANGED <<bridge, reply>>
        \/ Accept(f, list, s)
    BY <1>1, <1>3 DEF Receive, McpServers
  <2> HIDE DEF f, s
  <2>8. CASE server' = s /\ UNCHANGED <<bridge, reply>>
    BY <1>1, <2>5, <2>6, <2>8 DEF McpIInv, WaitInv, McpExchangeIsSound, Http, ServerFits
  <2>9. CASE Accept(f, list, s)
    BY <1>1, <2>3, <2>5, <2>6, <2>9, AcceptKeeps
  <2> QED
    BY <2>7, <2>8, <2>9
<1> QED
  BY <1>2, <1>3

LEMMA HttpKeeps ==
  ASSUME McpIInv, NEW f \in Frames, NEW list \in SUBSET McpTools, HttpAnswer(f, list)
  PROVE  McpIInv'
<1>1. /\ bridge \in McpBridges /\ server \in McpServers /\ ServerFits(bridge, server) /\ Kept(bridge, server)
      /\ UNCHANGED <<mcpConfig, killed>> /\ bridge.at = "waiting" /\ Http
  BY DEF McpIInv, McpExchangeIsSound, Kept, HttpAnswer
<1>2. f \in McpFrames /\ Honest(f, server.asked)
  BY <1>1, FramesAreHonest
<1>3. CASE bridge.req.stage # "notified"
  <2>1. Accept(f, list, server)
    BY <1>3 DEF HttpAnswer
  <2> QED
    BY <1>1, <1>2, <1>3, <2>1, AcceptKeeps
<1>4. CASE bridge.req.stage = "notified" /\ bridge.client
  <2>1. Replies(bridge, server, "cancel", "ok", NoPart)
    BY <1>4 DEF HttpAnswer
  <2> QED
    BY <1>1, <2>1, ReplyKeeps
<1>5. CASE bridge.req.stage = "notified" /\ ~bridge.client
  <2>1. AfterHandshake(bridge, server)
    BY <1>5 DEF HttpAnswer
  <2> QED
    BY <1>1, <2>1, HandshakeKeeps
<1> QED
  BY <1>3, <1>4, <1>5

LEMMA McpStep ==
  ASSUME McpIInv, [McpNext]_mcpVars
  PROVE  McpIInv'
<1>1. CASE UNCHANGED mcpVars
  BY <1>1 DEF McpIInv, WaitInv, McpExchangeIsSound, Http, mcpVars, ServerFits
<1>2. bridge \in McpBridges /\ server \in McpServers /\ ServerFits(bridge, server) /\ Kept(bridge, server)
  BY DEF McpIInv, McpExchangeIsSound, Kept
<1>3. CASE BridgeStarts
  <2>1. bridge.starts + 1 \in Nat
    BY <1>2 DEF McpBridges
  <2>2. bridge' \in McpBridges /\ bridge'.at = "idle"
    BY <1>3, <2>1, NewBridgeType DEF BridgeStarts
  <2>3. server.children \in SUBSET Nat
    BY <1>2 DEF McpServers
  <2>4. /\ server' \in McpServers /\ ServerFits(bridge', server')
        /\ server'.children = server.children
    BY <1>3, <2>3, NewServerFits DEF BridgeStarts
  <2>5. WaitInv' /\ McpExchangeIsSound'
    BY <1>3, <2>2, <2>4 DEF McpIInv, WaitInv, McpExchangeIsSound, BridgeStarts, NoReply
  <2> QED
    BY <2>2, <2>4, <2>5 DEF McpIInv
<1>4. CASE Unsupported
  <2>1. Replies(bridge, server, "other", "unsupported_operation", NoPart) /\ UNCHANGED <<mcpConfig, killed>>
    BY <1>4 DEF Unsupported
  <2> QED
    BY <1>2, <2>1, ReplyKeeps
<1>5. CASE BridgeShutdown \/ Fatal
  BY <1>5, EndKeeps DEF BridgeShutdown, Fatal
<1>6. CASE HttpFailure
  <2>1. Remote("mcp_http_error", server) /\ UNCHANGED <<mcpConfig, killed>>
    BY <1>6 DEF HttpFailure
  <2> QED
    BY <1>2, <2>1, RemoteKeeps
<1>7. CASE Cancel
  BY <1>7, CancelKeeps
<1>8. CASE (\E n \in server.children : ServerStops(n)) \/ \E f \in Frames : ServerSends(f)
  BY <1>8, ServerKeeps
<1>9. CASE \E op \in {"list", "refresh", "call", "status"}, tool \in McpTools,
              net \in BOOLEAN, secrets \in SUBSET McpSecrets : Invoke(op, tool, net, secrets)
  BY <1>9, InvokeKeeps
<1>10. CASE \E list \in SUBSET McpTools : Receive(list)
  BY <1>10, ReceiveKeeps
<1>11. CASE \E f \in Frames, list \in SUBSET McpTools : HttpAnswer(f, list)
  BY <1>11, HttpKeeps
<1>12. CASE BridgeKilled
  BY <1>12, KillKeeps
<1> QED
  BY <1>1, <1>3, <1>4, <1>5, <1>6, <1>7, <1>8, <1>9, <1>10, <1>11, <1>12 DEF McpNext

(* The MCP bridge (yunxi-plugin-mcp): the result the Host gets for a call  *)
(* was computed by the server for that call, in whatever order and however *)
(* often the server answers, through any number of processes that end or   *)
(* are killed; nothing goes to an HTTP server but under the grants it      *)
(* needs; and a child server that runs on behind its process is one whose  *)
(* process was killed.                                                     *)
THEOREM McpAnswersAreTheirs ==
  McpInit /\ [][McpNext]_mcpVars => []McpExchangeIsSound
<1>1. McpIInv => McpExchangeIsSound
  BY DEF McpIInv
<1> QED
  BY <1>1, McpInitOK, McpStep, PTL

----------------------------------------------------------------------------
(* The voice plugin.  A driven status stays one that is accepted.          *)
LEMMA DrivenStreamIsValid ==
  ASSUME NEW s \in StreamStates, StreamValid(s), NEW t,
         \/ \E reason \in Texts : t \in StreamRequestCancel(s, reason)
         \/ t \in StreamMarkCancelled(s)
         \/ t \in StreamPause(s) \/ t \in StreamResume(s)
         \/ t \in StreamDrain(s) \/ t \in StreamClose(s)
         \/ \E n \in 0..(MAX_STREAM_BUFFER + 1) : t \in StreamSetBuffered(s, n)
  PROVE  t \in StreamStates /\ StreamValid(t)
<1>1. CASE \E reason \in Texts : t \in StreamRequestCancel(s, reason)
  <2>1. PICK reason \in Texts :
          t = [s EXCEPT !.cancellation = "Requested", !.reason = {reason}] /\ reason # BadText
    BY <1>1 DEF StreamRequestCancel, Only
  <2>2. /\ t \in StreamStates /\ t.cancellation = "Requested" /\ t.reason = {reason}
        /\ t.buffered = s.buffered /\ t.capacity = s.capacity
    BY <2>1 DEF StreamStates
  <2> QED
    BY <2>1, <2>2 DEF StreamValid
<1>2. CASE t \in StreamMarkCancelled(s)
  <2>1. t = [s EXCEPT !.cancellation = "Cancelled"] /\ s.cancellation # "Active"
    BY <1>2 DEF StreamMarkCancelled, Only
  <2>2. /\ t \in StreamStates /\ t.cancellation = "Cancelled" /\ t.reason = s.reason
        /\ t.buffered = s.buffered /\ t.capacity = s.capacity
    BY <2>1 DEF StreamStates
  <2> QED
    BY <2>1, <2>2 DEF StreamValid
<1>3. ASSUME NEW flow \in {"Ready", "Paused", "Draining", "Closed"}, t = [s EXCEPT !.flow = flow]
      PROVE  t \in StreamStates /\ StreamValid(t)
  <2>1. /\ t \in StreamStates /\ t.cancellation = s.cancellation /\ t.reason = s.reason
        /\ t.buffered = s.buffered /\ t.capacity = s.capacity
    BY <1>3 DEF StreamStates
  <2> QED
    BY <2>1 DEF StreamValid
<1>4. CASE t \in StreamPause(s) \/ t \in StreamResume(s) \/ t \in StreamDrain(s) \/ t \in StreamClose(s)
  BY <1>3, <1>4 DEF StreamPause, StreamResume, StreamDrain, StreamClose, Only
<1>5. CASE \E n \in 0..(MAX_STREAM_BUFFER + 1) : t \in StreamSetBuffered(s, n)
  <2> DEFINE flow(n) == IF n = 0 /\ s.flow = "Draining" THEN "Ready" ELSE s.flow
  <2>1. PICK n \in 0..(MAX_STREAM_BUFFER + 1) :
          t = [s EXCEPT !.buffered = n, !.flow = flow(n)] /\ n <= s.capacity
    BY <1>5 DEF StreamSetBuffered, Only, StreamStates
  <2>2. flow(n) \in {"Ready", "Paused", "Draining", "Closed"} /\ n \in Nat
    BY VoiceAssumption DEF StreamStates
  <2> HIDE DEF flow
  <2>3. /\ t \in StreamStates /\ t.cancellation = s.cancellation /\ t.reason = s.reason
        /\ t.buffered = n /\ t.capacity = s.capacity
    BY <2>1, <2>2 DEF StreamStates
  <2> QED
    BY <2>1, <2>3 DEF StreamValid
<1> QED
  BY <1>1, <1>2, <1>4, <1>5

(* What the answer to a request shows of it.                               *)
Answered(r, answer) ==
  LET head == answer[1]
      work == Len(answer) > 1
  IN /\ head.type = "status" /\ StreamValid(head.status)
     /\ work <=> r.status.cancellation = "Active"
     /\ ~work => head.status.cancellation = "Cancelled"
     /\ OneStream(r, answer)
     /\ r.operation = "transcribe" =>
          /\ {r.chunks[i].sequence : i \in DOMAIN r.chunks} = 0..(Len(r.chunks) - 1)
          /\ (\E i \in DOMAIN answer : i > 1 /\ answer[i].kind = "Final")
               => r.chunks[Len(r.chunks)].last

VoiceIInv ==
  /\ streamStatus \in StreamStates /\ StreamValid(streamStatus)
  /\ voice.up
  /\ voice.answer # <<>> => Answered(voice.asked, voice.answer)

LEMMA VoiceInitOK == ASSUME VoiceInit PROVE VoiceIInv
<1>1. NewStream \in StreamStates /\ StreamValid(NewStream)
  BY VoiceAssumption DEF NewStream, StreamStates, StreamValid
<1> QED
  BY <1>1 DEF VoiceInit, VoiceIInv

(* A stopped stream is answered with its final status.                     *)
LEMMA EndedIsAnswered ==
  ASSUME NEW r, r.status \in StreamStates, StreamValid(r.status), Stopped(r.status),
         r.operation = "transcribe" =>
           {r.chunks[i].sequence : i \in DOMAIN r.chunks} = 0..(Len(r.chunks) - 1)
  PROVE  Ended(r.status) # {} /\ \A e \in Ended(r.status) : Answered(r, e)
<1> DEFINE t == [r.status EXCEPT !.cancellation = "Cancelled"]
<1>1. /\ t.cancellation = "Cancelled" /\ t.reason = r.status.reason
      /\ t.buffered = r.status.buffered /\ t.capacity = r.status.capacity
  BY DEF StreamStates
<1>2. StreamValid(t)
  BY <1>1 DEF StreamValid, Stopped
<1>3. StreamMarkCancelled(r.status) = {t}
  BY DEF StreamMarkCancelled, Only, Stopped
<1> HIDE DEF t
<1>4. Ended(r.status) = {<<StatusEvent(t)>>}
  BY <1>3 DEF Ended
<1>5. StatusEvent(t).type = "status" /\ StatusEvent(t).status = t
  BY DEF StatusEvent
<1> DEFINE e == <<StatusEvent(t)>>
<1>6. e[1] = StatusEvent(t) /\ Len(e) = 1 /\ DOMAIN e = {1}
  OBVIOUS
<1> HIDE DEF e
<1>7. OneStream(r, e)
  BY <1>6 DEF OneStream
<1>8. Answered(r, e)
  BY <1>1, <1>2, <1>5, <1>6, <1>7 DEF Answered, Stopped
<1> QED
  BY <1>4, <1>8 DEF e

LEMMA ChunksAreInOrder ==
  ASSUME NEW r, NEW n \in Nat, NEW S, r.chunks \in [1..n -> S], TranscribeValid(r)
  PROVE  {r.chunks[i].sequence : i \in DOMAIN r.chunks} = 0..(Len(r.chunks) - 1)
<1>1. Len(r.chunks) = n /\ DOMAIN r.chunks = 1..n
  OBVIOUS
<1>2. \A i \in 1..n : r.chunks[i].sequence = i - 1
  BY <1>1 DEF TranscribeValid, Contiguous
<1>3. {i - 1 : i \in 1..n} = 0..(n - 1)
  <2>1. ASSUME NEW k \in 0..(n - 1) PROVE k \in {i - 1 : i \in 1..n}
    <3>1. k + 1 \in 1..n /\ k = (k + 1) - 1
      OBVIOUS
    <3> QED
      BY <3>1
  <2> QED
    BY <2>1
<1>4. {r.chunks[i].sequence : i \in 1..n} = {i - 1 : i \in 1..n}
  BY <1>2
<1> QED
  BY <1>1, <1>3, <1>4

LEMMA TranscribeIsAnswered ==
  ASSUME NEW r, r.status \in StreamStates, r.operation = "transcribe", r.complete \in BOOLEAN,
         NEW n \in Nat, NEW S, r.chunks \in [1..n -> S], TranscribeValid(r)
  PROVE  Transcribe(r) # {} /\ \A e \in Transcribe(r) : Answered(r, e)
<1>1. {r.chunks[i].sequence : i \in DOMAIN r.chunks} = 0..(Len(r.chunks) - 1)
  BY ChunksAreInOrder
<1>2. StreamValid(r.status)
  BY DEF TranscribeValid
<1>3. CASE Stopped(r.status)
  BY <1>1, <1>2, <1>3, EndedIsAnswered DEF Transcribe
<1>4. CASE ~Stopped(r.status)
  <2> DEFINE a == StatusEvent(r.status)
             b == Transcript(r.stream, 0, "Partial")
             c == Transcript(r.stream, 1, "Final")
             e == <<a, b>> \o IF r.complete THEN <<c>> ELSE <<>>
  <2>1. /\ a.type = "status" /\ a.status = r.status
        /\ b.type = "transcript" /\ b.stream = r.stream /\ b.sequence = 0 /\ b.kind = "Partial"
        /\ c.type = "transcript" /\ c.stream = r.stream /\ c.sequence = 1 /\ c.kind = "Final"
    BY DEF StatusEvent, Transcript
  <2>2. Transcribe(r) = {e}
    BY <1>4 DEF Transcribe
  <2> HIDE DEF a, b, c
  <2>3. /\ e[1] = a /\ e[2] = b
        /\ r.complete => Len(e) = 3 /\ e[3] = c /\ DOMAIN e = 1..3
        /\ ~r.complete => Len(e) = 2 /\ DOMAIN e = 1..2
    <3>1. /\ <<a, b>> \in Seq({a, b, c}) /\ <<c>> \in Seq({a, b, c})
          /\ <<>> \in Seq({a, b, c})
      OBVIOUS
    <3>2. CASE r.complete
      BY <3>1, <3>2
    <3>3. CASE ~r.complete
      BY <3>1, <3>3
    <3> QED
      BY <3>2, <3>3
  <2> HIDE DEF e
  <2>4. \A i \in DOMAIN e : i > 1 => (i = 2 /\ e[i] = b) \/ (i = 3 /\ e[i] = c /\ Len(e) = 3)
    BY <2>3
  <2>5. OneStream(r, e)
    <3>1. \A i \in DOMAIN e : i > 1 => e[i].sequence = i - 2 /\ e[i].stream = r.stream
      BY <2>1, <2>4
    <3>2. \A i \in DOMAIN e : i > 1 => e[i].type # "audio"
      BY <2>1, <2>4
    <3>3. \A i \in DOMAIN e : i > 1 /\ e[i].kind = "Final" => i = Len(e)
      BY <2>1, <2>4
    <3> QED
      BY <3>1, <3>2, <3>3 DEF OneStream
  <2>6. (\E i \in DOMAIN e : i > 1 /\ e[i].kind = "Final") => r.complete
    BY <2>1, <2>3, <2>4
  <2>7. r.complete => r.chunks[Len(r.chunks)].last
    BY DEF TranscribeValid
  <2>8. Len(e) > 1
    BY <2>3
  <2>9. Answered(r, e)
    BY <1>1, <1>2, <1>4, <2>1, <2>3, <2>5, <2>6, <2>7, <2>8 DEF Answered, Stopped
  <2> QED
    BY <2>2, <2>9
<1> QED
  BY <1>3, <1>4

LEMMA SynthesizeIsAnswered ==
  ASSUME NEW r, r.status \in StreamStates, r.operation = "synthesize", SynthesisValid(r)
  PROVE  Synthesize(r) # {} /\ \A e \in Synthesize(r) : Answered(r, e)
<1>1. StreamValid(r.status)
  BY DEF SynthesisValid
<1>2. CASE Stopped(r.status)
  BY <1>1, <1>2, EndedIsAnswered DEF Synthesize
<1>3. CASE ~Stopped(r.status)
  <2> DEFINE a == StatusEvent(r.status)
             b == Audio(r, 0, FALSE)
             c == Audio(r, 1, TRUE)
             e == <<a, b, c>>
  <2>1. /\ a.type = "status" /\ a.status = r.status
        /\ b.type = "audio" /\ b.stream = r.stream /\ b.sequence = 0 /\ b.last = FALSE
        /\ c.type = "audio" /\ c.stream = r.stream /\ c.sequence = 1 /\ c.last = TRUE
    BY DEF StatusEvent, Audio
  <2>2. Synthesize(r) = {e}
    BY <1>3 DEF Synthesize
  <2> HIDE DEF a, b, c
  <2>3. e[1] = a /\ e[2] = b /\ e[3] = c /\ Len(e) = 3 /\ DOMAIN e = 1..3
    OBVIOUS
  <2> HIDE DEF e
  <2>4. \A i \in DOMAIN e : i > 1 => (i = 2 /\ e[i] = b) \/ (i = 3 /\ e[i] = c)
    BY <2>3
  <2>5. OneStream(r, e)
    BY <2>1, <2>3, <2>4 DEF OneStream
  <2>6. Answered(r, e)
    BY <1>1, <1>3, <2>1, <2>3, <2>5 DEF Answered, Stopped
  <2> QED
    BY <2>2, <2>6
<1> QED
  BY <1>2, <1>3

(* A request that its check lets through has an answer, and one that it    *)
(* does not is refused: no request ends the plugin.                        *)
LEMMA AnswerKeeps ==
  ASSUME VoiceIInv, NEW r, NEW valid \in BOOLEAN, NEW results,
         valid => results # {} /\ \A e \in results : Answered(r, e),
         Answer(r, valid, results)
  PROVE  VoiceIInv'
<1>1. streamStatus' = streamStatus
  BY DEF Answer
<1>2. CASE ~Supported(r) \/ ~valid
  <2>1. voice' = [up |-> TRUE, asked |-> [operation |-> "refused"], answer |-> <<>>]
    BY <1>2 DEF Answer
  <2> QED
    BY <1>1, <2>1 DEF VoiceIInv, StreamValid
<1>3. CASE Supported(r) /\ valid
  <2>1. PICK e \in results : voice' = [up |-> TRUE, asked |-> r, answer |-> e]
    BY <1>3 DEF Answer
  <2>2. voice'.up /\ voice'.asked = r /\ voice'.answer = e /\ Answered(r, e)
    BY <1>3, <2>1
  <2>3. Answered(voice'.asked, voice'.answer)
    BY <2>2
  <2> QED
    BY <1>1, <2>2, <2>3 DEF VoiceIInv, StreamValid
<1> QED
  BY <1>2, <1>3

LEMMA VoiceStep ==
  ASSUME VoiceIInv, [VoiceNext]_voiceVars
  PROVE  VoiceIInv'
<1>1. CASE UNCHANGED voiceVars
  BY <1>1 DEF VoiceIInv, voiceVars
<1>2. StreamStatuses \subseteq StreamStates
  BY VoiceAssumption DEF VoiceIInv, StreamStatuses
<1>3. ASSUME NEW results, DriveStream(results),
             \A t \in results : t \in StreamStates /\ StreamValid(t)
      PROVE  VoiceIInv'
  <2>1. streamStatus' \in StreamStates /\ StreamValid(streamStatus') /\ voice' = voice
    BY <1>3 DEF DriveStream
  <2> QED
    BY <2>1 DEF VoiceIInv
<1>4. CASE \/ \E reason \in Texts : DriveStream(StreamRequestCancel(streamStatus, reason))
           \/ DriveStream(StreamMarkCancelled(streamStatus))
           \/ DriveStream(StreamPause(streamStatus)) \/ DriveStream(StreamResume(streamStatus))
           \/ DriveStream(StreamDrain(streamStatus)) \/ DriveStream(StreamClose(streamStatus))
           \/ \E n \in 0..(MAX_STREAM_BUFFER + 1) : DriveStream(StreamSetBuffered(streamStatus, n))
  <2>1. streamStatus \in StreamStates /\ StreamValid(streamStatus)
    BY DEF VoiceIInv
  <2>2. CASE \E reason \in Texts : DriveStream(StreamRequestCancel(streamStatus, reason))
    BY <1>3, <2>1, <2>2, DrivenStreamIsValid
  <2>3. CASE DriveStream(StreamMarkCancelled(streamStatus))
    BY <1>3, <2>1, <2>3, DrivenStreamIsValid
  <2>4. CASE DriveStream(StreamPause(streamStatus)) \/ DriveStream(StreamResume(streamStatus))
    BY <1>3, <2>1, <2>4, DrivenStreamIsValid
  <2>5. CASE DriveStream(StreamDrain(streamStatus)) \/ DriveStream(StreamClose(streamStatus))
    BY <1>3, <2>1, <2>5, DrivenStreamIsValid
  <2>6. CASE \E n \in 0..(MAX_STREAM_BUFFER + 1) : DriveStream(StreamSetBuffered(streamStatus, n))
    BY <1>3, <2>1, <2>6, DrivenStreamIsValid
  <2> QED
    BY <1>4, <2>2, <2>3, <2>4, <2>5, <2>6
<1>5. CASE AskTranscribe
  <2>1. PICK s \in StreamStatuses, stream \in Streams, format \in Formats, n \in 0..3,
             complete \in BOOLEAN :
          \E chunks \in [1..n -> AudioChunks], capability \in {"transcribe", "synthesize"} :
            LET r == [operation |-> "transcribe", capability |-> capability, stream |-> stream,
                      format |-> format, chunks |-> chunks, complete |-> complete, status |-> s]
            IN Answer(r, TranscribeValid(r), Transcribe(r))
    BY <1>5 DEF AskTranscribe
  <2>2. PICK chunks \in [1..n -> AudioChunks], capability \in {"transcribe", "synthesize"} :
          LET r == [operation |-> "transcribe", capability |-> capability, stream |-> stream,
                    format |-> format, chunks |-> chunks, complete |-> complete, status |-> s]
          IN Answer(r, TranscribeValid(r), Transcribe(r))
    BY <2>1
  <2> DEFINE r == [operation |-> "transcribe", capability |-> capability, stream |-> stream,
                   format |-> format, chunks |-> chunks, complete |-> complete, status |-> s]
  <2>3. Answer(r, TranscribeValid(r), Transcribe(r))
    BY <2>2
  <2>4. /\ r.operation = "transcribe" /\ r.complete \in BOOLEAN /\ r.status \in StreamStates
        /\ r.chunks \in [1..n -> AudioChunks] /\ n \in Nat
    BY <1>2
  <2> HIDE DEF r
  <2>5. TranscribeValid(r) => Transcribe(r) # {} /\ \A e \in Transcribe(r) : Answered(r, e)
    BY <2>4, TranscribeIsAnswered
  <2>6. TranscribeValid(r) \in BOOLEAN
    BY DEF TranscribeValid
  <2> QED
    BY <2>3, <2>5, <2>6, AnswerKeeps
<1>6. CASE AskSynthesize
  <2>1. PICK s \in StreamStatuses, stream \in Streams, format \in Formats, text \in Texts :
          LET r == [operation |-> "synthesize", capability |-> "synthesize", stream |-> stream,
                    format |-> format, text |-> text, status |-> s]
          IN Answer(r, SynthesisValid(r), Synthesize(r))
    BY <1>6 DEF AskSynthesize
  <2> DEFINE r == [operation |-> "synthesize", capability |-> "synthesize", stream |-> stream,
                   format |-> format, text |-> text, status |-> s]
  <2>2. Answer(r, SynthesisValid(r), Synthesize(r))
    BY <2>1
  <2>3. r.operation = "synthesize" /\ r.status \in StreamStates
    BY <1>2
  <2> HIDE DEF r
  <2>4. SynthesisValid(r) => Synthesize(r) # {} /\ \A e \in Synthesize(r) : Answered(r, e)
    BY <2>3, SynthesizeIsAnswered
  <2>5. SynthesisValid(r) \in BOOLEAN
    BY DEF SynthesisValid
  <2> QED
    BY <2>2, <2>4, <2>5, AnswerKeeps
<1>7. CASE AskCancel
  <2>1. PICK s \in StreamStatuses, stream \in Streams :
          LET r == [operation |-> "cancel", capability |-> "transcribe", stream |-> stream, status |-> s]
          IN Answer(r, CancelValid(r), CancelStream(r))
    BY <1>7 DEF AskCancel
  <2> DEFINE r == [operation |-> "cancel", capability |-> "transcribe", stream |-> stream, status |-> s]
  <2>2. Answer(r, CancelValid(r), CancelStream(r))
    BY <2>1
  <2>3. r.operation = "cancel" /\ r.status \in StreamStates
    BY <1>2
  <2> HIDE DEF r
  <2>4. CancelValid(r) => CancelStream(r) # {} /\ \A e \in CancelStream(r) : Answered(r, e)
    <3>1. CancelValid(r) => StreamValid(r.status) /\ Stopped(r.status)
      BY DEF CancelValid, Stopped
    <3>2. r.operation # "transcribe"
      BY <2>3
    <3> QED
      BY <2>3, <3>1, <3>2, EndedIsAnswered DEF CancelStream
  <2>5. CancelValid(r) \in BOOLEAN
    BY DEF CancelValid
  <2> QED
    BY <2>2, <2>4, <2>5, AnswerKeeps
<1> QED
  BY <1>1, <1>4, <1>5, <1>6, <1>7 DEF VoiceNext

(* The voice plugin (yunxi-plugin-voice): whatever status a Host drove or  *)
(* a peer wrote, no request ends the plugin, work is done for active       *)
(* streams only, a cancellation is confirmed, the events number their      *)
(* stream without a gap, and a final transcript stands for a whole stream. *)
THEOREM VoiceAnswersEveryRequest ==
  VoiceInit /\ [][VoiceNext]_voiceVars => []VoiceAnswersAsAsked
<1>1. VoiceIInv => VoiceAnswersAsAsked
  BY DEF VoiceIInv, VoiceAnswersAsAsked, Answered
<1> QED
  BY <1>1, VoiceInitOK, VoiceStep, PTL
----------------------------------------------------------------------------
(* The patch tool.  Files are texts, hunks replace stretches of them.  (To *)
(* the provers it is not plain that "absent" is a string.)                 *)
Text == Seq(STRING \cup {"absent"})
Hunks == [old : Text, new : Text]
Rounds == [lines : Text, cursor : Nat, error : BOOLEAN]

LEMMA LeastNumber ==
  ASSUME NEW S \in SUBSET Nat, S # {}
  PROVE  \E n \in S : \A m \in S : n <= m
<1> DEFINE Less == OpToRel(<, Nat)
<1>1. \E n \in S : \A m \in S : <<m, n>> \notin Less
  BY NatLessThanWellFounded, WFMin
<1>2. \A m, n \in Nat : m < n => <<m, n>> \in Less
  BY DEF OpToRel
<1> HIDE DEF Less
<1>3. PICK n \in S : \A m \in S : <<m, n>> \notin Less
  BY <1>1
<1>4. ASSUME NEW m \in S PROVE n <= m
  <2>1. m \in Nat /\ n \in Nat
    OBVIOUS
  <2>2. ~(m < n)
    BY <1>2, <1>3, <2>1
  <2> QED
    BY <2>1, <2>2
<1> QED
  BY <1>4

(* Texts, cut and joined.                                                  *)
LEMMA CutText ==
  ASSUME NEW s \in Text, NEW m \in Nat, NEW n \in Nat, m <= n, n <= Len(s)
  PROVE  /\ SubSeq(s, m + 1, n) \in Text
         /\ Len(SubSeq(s, m + 1, n)) = n - m
         /\ \A k \in 1 .. (n - m) : SubSeq(s, m + 1, n)[k] = s[m + k]
BY DEF Text

LEMMA FrontText ==
  ASSUME NEW s \in Text, NEW n \in Nat, n <= Len(s)
  PROVE  /\ SubSeq(s, 1, n) \in Text
         /\ Len(SubSeq(s, 1, n)) = n
         /\ \A k \in 1 .. n : SubSeq(s, 1, n)[k] = s[k]
BY DEF Text

LEMMA JoinText ==
  ASSUME NEW s \in Text, NEW t \in Text
  PROVE  /\ s \o t \in Text
         /\ Len(s \o t) = Len(s) + Len(t)
         /\ \A k \in 1 .. Len(s) : (s \o t)[k] = s[k]
         /\ \A k \in 1 .. Len(t) : (s \o t)[Len(s) + k] = t[k]
BY DEF Text

LEMMA SameText ==
  ASSUME NEW s \in Text, NEW t \in Text, Len(s) = Len(t),
         \A k \in 1 .. Len(s) : s[k] = t[k]
  PROVE  s = t
BY DEF Text

(* One round that fits: where it found what it looked for, and what it     *)
(* left.                                                                   *)
LEMMA SpliceFits ==
  ASSUME NEW p \in Rounds, NEW h \in Hunks, p.cursor <= Len(p.lines)
  PROVE  LET q == Splice(p, h) IN
         \/ q \in Rounds /\ q.error
         \/ /\ ~p.error /\ q \in Rounds /\ ~q.error
            /\ \E at \in Nat :
                 /\ at >= p.cursor /\ at + Len(h.old) <= Len(p.lines)
                 /\ \A k \in 1 .. Len(h.old) : p.lines[at + k] = h.old[k]
                 /\ Len(q.lines) = (Len(p.lines) - Len(h.old)) + Len(h.new)
                 /\ q.cursor = at + Len(h.new)
                 /\ \A k \in 1 .. at : q.lines[k] = p.lines[k]
                 /\ \A k \in 1 .. Len(h.new) : q.lines[at + k] = h.new[k]
                 /\ \A k \in 1 .. (Len(p.lines) - (at + Len(h.old))) :
                      q.lines[(at + Len(h.new)) + k] = p.lines[(at + Len(h.old)) + k]
<1> DEFINE found == Matches(p.lines, h.old, p.cursor)
           at == IF h.old = <<>> THEN p.cursor ELSE CHOOSE i \in found : TRUE
           q == Splice(p, h)
<1>1. /\ p.lines \in Text /\ p.cursor \in Nat /\ p.error \in BOOLEAN
      /\ h.old \in Text /\ h.new \in Text
      /\ Len(p.lines) \in Nat /\ Len(h.old) \in Nat /\ Len(h.new) \in Nat
  BY DEF Rounds, Hunks, Text
<1>2. CASE p.error \/ (h.old # <<>> /\ Cardinality(found) # 1)
  <2>1. q = [p EXCEPT !.error = TRUE]
    BY <1>2 DEF Splice
  <2> QED
    BY <2>1 DEF Rounds
<1>3. CASE ~p.error /\ (h.old = <<>> \/ Cardinality(found) = 1)
  <2> DEFINE front == SubSeq(p.lines, 1, at)
             back == SubSeq(p.lines, at + Len(h.old) + 1, Len(p.lines))
             lines == front \o h.new \o back
  <2>1. q = [lines |-> lines, cursor |-> at + Len(h.new), error |-> FALSE]
    BY <1>3 DEF Splice
  <2>2. /\ at \in Nat /\ at >= p.cursor /\ at + Len(h.old) <= Len(p.lines)
        /\ \A k \in 1 .. Len(h.old) : p.lines[at + k] = h.old[k]
    <3>1. CASE h.old = <<>>
      BY <1>1, <3>1
    <3>2. CASE h.old # <<>>
      <4>1. found # {}
        <5>1. Cardinality({}) = 0
          BY FS_EmptySet
        <5>2. Cardinality(found) = 1
          BY <1>3, <3>2
        <5> HIDE DEF found
        <5>3. found = {} => Cardinality(found) = 0
          BY <5>1, Zenon
        <5> QED
          BY <5>2, <5>3, 0 # 1
      <4>2. at \in found
        BY <3>2, <4>1
      <4>3. /\ at \in Nat /\ at >= p.cursor /\ at + Len(h.old) <= Len(p.lines)
            /\ SubSeq(p.lines, at + 1, at + Len(h.old)) = h.old
        <5> HIDE DEF at
        <5>1. /\ at \in p.cursor .. Len(p.lines) /\ at + Len(h.old) <= Len(p.lines)
              /\ SubSeq(p.lines, at + 1, at + Len(h.old)) = h.old
          BY <4>2, Zenon DEF Matches
        <5> QED
          BY <1>1, <5>1
      <4> HIDE DEF at
      <4>4. \A k \in 1 .. ((at + Len(h.old)) - at) :
              SubSeq(p.lines, at + 1, at + Len(h.old))[k] = p.lines[at + k]
        BY <1>1, <4>3, CutText
      <4> QED
        <5>1. (at + Len(h.old)) - at = Len(h.old)
          BY <1>1, <4>3
        <5> QED
          BY <4>3, <4>4, <5>1
    <3> QED
      BY <3>1, <3>2
  <2> HIDE DEF at
  <2> DEFINE n == Len(p.lines) - (at + Len(h.old))
  <2>3. /\ front \in Text /\ Len(front) = at /\ \A k \in 1 .. at : front[k] = p.lines[k]
    <3>1. at <= Len(p.lines)
      BY <1>1, <2>2
    <3> QED
      BY <1>1, <2>2, <3>1, FrontText
  <2>4. /\ back \in Text /\ Len(back) = n
        /\ \A k \in 1 .. n : back[k] = p.lines[(at + Len(h.old)) + k]
    <3>1. at + Len(h.old) \in Nat
      BY <1>1, <2>2
    <3>2. SubSeq(p.lines, (at + Len(h.old)) + 1, Len(p.lines)) = back
      OBVIOUS
    <3> HIDE DEF back
    <3>3. /\ back \in Text /\ Len(back) = Len(p.lines) - (at + Len(h.old))
          /\ \A k \in 1 .. (Len(p.lines) - (at + Len(h.old))) :
               back[k] = p.lines[(at + Len(h.old)) + k]
      <4> DEFINE m == at + Len(h.old)
      <4> HIDE DEF m
      <4>1. m \in Nat /\ m <= Len(p.lines) /\ SubSeq(p.lines, m + 1, Len(p.lines)) = back
        BY <2>2, <3>1, <3>2 DEF m
      <4>2. Len(p.lines) <= Len(p.lines)
        BY <1>1
      <4>3. /\ back \in Text /\ Len(back) = Len(p.lines) - m
            /\ \A k \in 1 .. (Len(p.lines) - m) : back[k] = p.lines[m + k]
        <5>1. /\ SubSeq(p.lines, m + 1, Len(p.lines)) \in Text
              /\ Len(SubSeq(p.lines, m + 1, Len(p.lines))) = Len(p.lines) - m
              /\ \A k \in 1 .. (Len(p.lines) - m) :
                   SubSeq(p.lines, m + 1, Len(p.lines))[k] = p.lines[m + k]
          BY <1>1, <4>1, <4>2, CutText, Zenon
        <5> QED
          BY <4>1, <5>1, Zenon
      <4> QED
        BY <4>3 DEF m
    <3> QED
      BY <3>3
  <2>5. n \in Nat
    BY <1>1, <2>2
  <2> HIDE DEF front, back, n
  <2>6. /\ front \o h.new \in Text /\ Len(front \o h.new) = at + Len(h.new)
        /\ \A k \in 1 .. at : (front \o h.new)[k] = front[k]
        /\ \A k \in 1 .. Len(h.new) : (front \o h.new)[at + k] = h.new[k]
    BY <1>1, <2>3, JoinText
  <2>7. /\ lines \in Text /\ Len(lines) = (at + Len(h.new)) + n
        /\ \A k \in 1 .. (at + Len(h.new)) : lines[k] = (front \o h.new)[k]
        /\ \A k \in 1 .. n : lines[(at + Len(h.new)) + k] = back[k]
    <3> DEFINE fore == front \o h.new
    <3> HIDE DEF fore
    <3>1. fore \in Text /\ Len(fore) = at + Len(h.new) /\ lines = fore \o back
      BY <2>6 DEF fore
    <3> HIDE DEF lines
    <3>2. /\ lines \in Text /\ Len(lines) = Len(fore) + Len(back)
          /\ \A k \in 1 .. Len(fore) : lines[k] = fore[k]
          /\ \A k \in 1 .. Len(back) : lines[Len(fore) + k] = back[k]
      BY <2>4, <3>1, JoinText
    <3> QED
      BY <2>4, <3>1, <3>2 DEF fore
  <2> HIDE DEF lines
  <2>8. q \in Rounds /\ q.lines = lines /\ q.cursor = at + Len(h.new) /\ ~q.error
    BY <1>1, <2>1, <2>2, <2>7 DEF Rounds
  <2> HIDE DEF q
  <2>9. \A k \in 1 .. at : q.lines[k] = p.lines[k]
    BY <1>1, <2>2, <2>3, <2>6, <2>7, <2>8
  <2>10. \A k \in 1 .. Len(h.new) : q.lines[at + k] = h.new[k]
    <3>1. ASSUME NEW k \in 1 .. Len(h.new) PROVE at + k \in 1 .. (at + Len(h.new))
      BY <1>1, <2>2
    <3> QED
      BY <2>6, <2>7, <2>8, <3>1
  <2>11. Len(q.lines) = (Len(p.lines) - Len(h.old)) + Len(h.new)
    <3>1. Len(q.lines) = (at + Len(h.new)) + n
      BY <2>7, <2>8
    <3>2. (at + Len(h.new)) + (Len(p.lines) - (at + Len(h.old)))
            = (Len(p.lines) - Len(h.old)) + Len(h.new)
      <4>1. at \in Nat /\ Len(h.new) \in Nat /\ Len(p.lines) \in Nat /\ Len(h.old) \in Nat
        BY <1>1, <2>2
      <4>2. PICK b \in Nat : b = Len(h.new)
        BY <4>1
      <4>3. PICK c \in Nat : c = Len(p.lines)
        BY <4>1
      <4>4. PICK d \in Nat : d = Len(h.old)
        BY <4>1
      <4>5. PICK a \in Nat : a = at
        BY <4>1
      <4>6. (a + b) + (c - (a + d)) = (c - d) + b
        OBVIOUS
      <4> QED
        BY <4>2, <4>3, <4>4, <4>5, <4>6, Zenon
    <3> QED
      BY <3>1, <3>2, Zenon DEF n
  <2>12. \A k \in 1 .. n : q.lines[(at + Len(h.new)) + k] = p.lines[(at + Len(h.old)) + k]
    BY <2>4, <2>7, <2>8
  <2> QED
    BY <1>3, <2>2, <2>8, <2>9, <2>10, <2>11, <2>12 DEF n, q
<1> QED
  BY <1>1, <1>2, <1>3
(* The rounds of apply_hunks: after[n] is what n hunks have left.          *)
Round(lines, hunks, after) ==
  after = [n \in 0 .. Len(hunks) |->
             IF n = 0 THEN [lines |-> lines, cursor |-> 0, error |-> FALSE]
             ELSE Splice(after[n - 1], hunks[n])]

Rounded(lines, hunks) == CHOOSE after : Round(lines, hunks, after)

LEMMA RoundsExist ==
  ASSUME NEW lines \in Text, NEW hunks \in Seq(Hunks)
  PROVE  /\ Round(lines, hunks, Rounded(lines, hunks))
         /\ ApplyHunks(lines, hunks) = Rounded(lines, hunks)[Len(hunks)]
<1> DEFINE first == [lines |-> lines, cursor |-> 0, error |-> FALSE]
           Upto(k, g) == g = [n \in 0 .. k |-> IF n = 0 THEN first ELSE Splice(g[n - 1], hunks[n])]
           Missing == {k \in Nat : ~\E g : Upto(k, g)}
<1>1. \A k \in Nat : \E g : Upto(k, g)
  <2>1. SUFFICES ASSUME Missing # {} PROVE FALSE
    OBVIOUS
  <2>2. PICK k \in Missing : \A m \in Missing : k <= m
    <3>1. Missing \in SUBSET Nat
      OBVIOUS
    <3> HIDE DEF Missing
    <3> QED
      BY <2>1, <3>1, LeastNumber
  <2>3. k \in Nat /\ ~\E g : Upto(k, g)
    OBVIOUS
  <2>4. CASE k = 0
    <3> DEFINE g == [n \in 0 .. 0 |-> first]
    <3> HIDE DEF first
    <3>1. Upto(0, g)
      OBVIOUS
    <3> QED
      BY <2>3, <2>4, <3>1
  <2>5. CASE k # 0
    <3>1. k - 1 \in Nat /\ k - 1 < k
      BY <2>3, <2>5
    <3>2. \E g : Upto(k - 1, g)
      <4>1. k - 1 \notin Missing
        <5> HIDE DEF Missing
        <5>1. k - 1 \in Missing => k <= k - 1
          BY <2>2
        <5> QED
          BY <2>3, <5>1
      <4> QED
        BY <3>1, <4>1
    <3>3. PICK g : Upto(k - 1, g)
      BY <3>2
    <3> DEFINE h == [n \in 0 .. k |-> IF n = k THEN Splice(g[k - 1], hunks[k]) ELSE g[n]]
    <3> HIDE DEF first
    <3>4. \A n \in 0 .. (k - 1) : h[n] = g[n]
      BY <2>3
    <3>5. \A n \in 0 .. (k - 1) : g[n] = IF n = 0 THEN first ELSE Splice(g[n - 1], hunks[n])
      BY <3>3
    <3>6. \A n \in 0 .. k : h[n] = IF n = 0 THEN first ELSE Splice(h[n - 1], hunks[n])
      <4>1. ASSUME NEW n \in 0 .. k PROVE h[n] = IF n = 0 THEN first ELSE Splice(h[n - 1], hunks[n])
        <5>1. CASE n = k
          <6>1. h[k] = Splice(g[k - 1], hunks[k]) /\ h[k - 1] = g[k - 1]
            BY <2>3, <3>1, <3>4
          <6> QED
            BY <2>5, <5>1, <6>1
        <5>2. CASE n # k /\ n # 0
          <6>1. n \in 0 .. (k - 1) /\ n - 1 \in 0 .. (k - 1)
            BY <2>3, <5>2
          <6> QED
            BY <3>4, <3>5, <5>2, <6>1
        <5>3. CASE n # k /\ n = 0
          BY <2>3, <3>4, <3>5, <5>3
        <5> QED
          BY <5>1, <5>2, <5>3
      <4> QED
        BY <4>1
    <3>7. Upto(k, h)
      <4> DEFINE t == [n \in 0 .. k |-> IF n = 0 THEN first ELSE Splice(h[n - 1], hunks[n])]
      <4>1. DOMAIN h = 0 .. k /\ DOMAIN t = 0 .. k /\ \A n \in 0 .. k : t[n] = h[n]
        BY <3>6
      <4>2. h = [n \in 0 .. k |-> h[n]] /\ t = [n \in 0 .. k |-> t[n]]
        OBVIOUS
      <4> HIDE DEF h, t
      <4>3. h = t
        BY <4>1, <4>2
      <4> QED
        BY <4>3 DEF t
    <3> QED
      BY <2>3, <3>7
  <2> QED
    BY <2>4, <2>5
<1>2. Len(hunks) \in Nat
  OBVIOUS
<1>3. \E g : Round(lines, hunks, g)
  <2>1. PICK g : Upto(Len(hunks), g)
    BY <1>1, <1>2
  <2>2. Round(lines, hunks, g)
    BY <2>1 DEF Round
  <2> QED
    BY <2>2
<1>4. ApplyHunks(lines, hunks) = Rounded(lines, hunks)[Len(hunks)]
  BY DEF ApplyHunks, Rounded, Round
<1> QED
  BY <1>3, <1>4 DEF Rounded

(* What stands behind the cursor is the end of the old text.               *)
EndOf(old, q) == (Len(old) - Len(q.lines)) + q.cursor

GoodRound(old, q) ==
  /\ q \in Rounds /\ ~q.error
  /\ q.cursor <= Len(q.lines)
  /\ Len(q.lines) - q.cursor <= Len(old)
  /\ \A k \in 1 .. (Len(q.lines) - q.cursor) : q.lines[q.cursor + k] = old[EndOf(old, q) + k]

(* A round that fits: the hunk stands in the old text, not before the last *)
(* one; and before the cursor the new text grows by what lies between the  *)
(* two and by what the hunk puts in.                                       *)
GoodStep(old, h, p, q) ==
  LET offset == EndOf(old, q) - Len(h.old)
  IN /\ offset \in 0 .. Len(old)
     /\ offset >= EndOf(old, p)
     /\ SubSeq(old, offset + 1, EndOf(old, q)) = h.old
     /\ SubSeq(q.lines, 1, q.cursor)
          = (SubSeq(p.lines, 1, p.cursor) \o SubSeq(old, EndOf(old, p) + 1, offset)) \o h.new

LEMMA SpliceIsGood ==
  ASSUME NEW old \in Text, NEW p, GoodRound(old, p), NEW h \in Hunks, ~Splice(p, h).error
  PROVE  GoodRound(old, Splice(p, h)) /\ GoodStep(old, h, p, Splice(p, h))
<1> DEFINE q == Splice(p, h)
<1>1. /\ p \in Rounds /\ p.lines \in Text /\ p.cursor \in Nat /\ h.old \in Text /\ h.new \in Text
      /\ p.cursor <= Len(p.lines) /\ Len(p.lines) - p.cursor <= Len(old)
  BY DEF GoodRound, Rounds, Hunks
<1>2. /\ q \in Rounds /\ ~q.error
      /\ \E at \in Nat :
           /\ at >= p.cursor /\ at + Len(h.old) <= Len(p.lines)
           /\ \A k \in 1 .. Len(h.old) : p.lines[at + k] = h.old[k]
           /\ Len(q.lines) = (Len(p.lines) - Len(h.old)) + Len(h.new)
           /\ q.cursor = at + Len(h.new)
           /\ \A k \in 1 .. at : q.lines[k] = p.lines[k]
           /\ \A k \in 1 .. Len(h.new) : q.lines[at + k] = h.new[k]
           /\ \A k \in 1 .. (Len(p.lines) - (at + Len(h.old))) :
                q.lines[(at + Len(h.new)) + k] = p.lines[(at + Len(h.old)) + k]
  BY <1>1, SpliceFits
<1> HIDE DEF q
<1>3. PICK at \in Nat :
           /\ at >= p.cursor /\ at + Len(h.old) <= Len(p.lines)
           /\ \A k \in 1 .. Len(h.old) : p.lines[at + k] = h.old[k]
           /\ Len(q.lines) = (Len(p.lines) - Len(h.old)) + Len(h.new)
           /\ q.cursor = at + Len(h.new)
           /\ \A k \in 1 .. at : q.lines[k] = p.lines[k]
           /\ \A k \in 1 .. Len(h.new) : q.lines[at + k] = h.new[k]
           /\ \A k \in 1 .. (Len(p.lines) - (at + Len(h.old))) :
                q.lines[(at + Len(h.new)) + k] = p.lines[(at + Len(h.old)) + k]
  BY <1>2
<1>4. q.lines \in Text /\ q.cursor \in Nat
  BY <1>2 DEF Rounds
(* Lengths by names of their own.                                          *)
<1>5. PICK L \in Nat : L = Len(old)
  BY DEF Text
<1>6. PICK P \in Nat : P = Len(p.lines)
  BY <1>1 DEF Text
<1>7. PICK O \in Nat : O = Len(h.old)
  BY <1>1 DEF Text
<1>8. PICK N \in Nat : N = Len(h.new)
  BY <1>1 DEF Text
<1>9. PICK c \in Nat : c = p.cursor
  BY <1>1
<1>10. /\ at >= c /\ at + O <= P /\ c <= P /\ P - c <= L
       /\ Len(q.lines) = (P - O) + N /\ q.cursor = at + N
  BY <1>1, <1>3, <1>5, <1>6, <1>7, <1>8, <1>9
<1>11. EndOf(old, p) = (L - P) + c
  BY <1>5, <1>6, <1>9 DEF EndOf
<1>12. EndOf(old, q) = (L - ((P - O) + N)) + (at + N)
  BY <1>5, <1>10 DEF EndOf
<1> DEFINE start == (L - P) + c
           offset == (L - P) + at
           end == offset + O
<1>13. EndOf(old, q) = end
  BY <1>12
<1>14. /\ start \in Nat /\ offset \in Nat /\ end \in Nat /\ start <= offset /\ offset <= end
       /\ end <= L /\ offset - start = at - c /\ L - end = P - (at + O)
       /\ EndOf(old, q) - O = offset
  BY <1>10, <1>13
<1>15. \A k \in 1 .. (P - c) : p.lines[c + k] = old[start + k]
  BY <1>6, <1>9, <1>11 DEF GoodRound
<1>16. GoodRound(old, q)
  <2>1. q.cursor <= Len(q.lines) /\ Len(q.lines) - q.cursor = P - (at + O) /\ P - (at + O) <= L
    BY <1>10
  <2>2. ASSUME NEW k \in 1 .. (P - (at + O))
        PROVE  q.lines[q.cursor + k] = old[end + k]
    <3>1. q.lines[(at + N) + k] = p.lines[(at + O) + k]
      BY <1>3, <1>6, <1>7, <1>8
    <3>2. ((at + O) - c) + k \in 1 .. (P - c) /\ c + (((at + O) - c) + k) = (at + O) + k
          /\ start + (((at + O) - c) + k) = end + k
      BY <1>10
    <3> HIDE DEF start, end
    <3>3. p.lines[(at + O) + k] = old[end + k]
      BY <1>15, <3>2
    <3> QED
      BY <1>10, <3>1, <3>3
  <2> HIDE DEF end
  <2> QED
    BY <1>2, <1>5, <1>13, <2>1, <2>2 DEF GoodRound
<1>17. SubSeq(old, offset + 1, end) = h.old
  <2> HIDE DEF start, offset, end
  <2>1. /\ SubSeq(old, offset + 1, end) \in Text /\ Len(SubSeq(old, offset + 1, end)) = end - offset
        /\ \A k \in 1 .. (end - offset) : SubSeq(old, offset + 1, end)[k] = old[offset + k]
    BY <1>5, <1>14, CutText
  <2>2. end - offset = O
    BY DEF offset, end
  <2>3. ASSUME NEW k \in 1 .. O PROVE old[offset + k] = h.old[k]
    <3>1. p.lines[at + k] = h.old[k]
      BY <1>3, <1>7
    <3>2. (at - c) + k \in 1 .. (P - c) /\ c + ((at - c) + k) = at + k
          /\ start + ((at - c) + k) = offset + k
      BY <1>10 DEF start, offset
    <3> QED
      BY <1>15, <3>1, <3>2
  <2> QED
    <3> DEFINE t == SubSeq(old, offset + 1, end)
    <3> HIDE DEF t
    <3>1. t \in Text /\ Len(t) = Len(h.old)
      BY <1>7, <2>1, <2>2 DEF t
    <3>2. ASSUME NEW k \in 1 .. Len(t) PROVE t[k] = h.old[k]
      <4>1. k \in 1 .. O /\ k \in 1 .. (end - offset)
        BY <1>7, <2>2, <3>1
      <4> QED
        BY <2>1, <2>3, <4>1 DEF t
    <3>3. t = h.old
      BY <1>1, <3>1, <3>2, SameText
    <3> QED
      BY <3>3 DEF t
<1>18. SubSeq(q.lines, 1, q.cursor)
         = (SubSeq(p.lines, 1, p.cursor) \o SubSeq(old, start + 1, offset)) \o h.new
  <2> HIDE DEF start, offset, end
  <2> DEFINE a == SubSeq(p.lines, 1, p.cursor)
             b == SubSeq(old, start + 1, offset)
             ab == a \o b
             abn == ab \o h.new
             s == SubSeq(q.lines, 1, q.cursor)
  <2>1. /\ a \in Text /\ Len(a) = c /\ \A k \in 1 .. c : a[k] = p.lines[k]
    BY <1>1, <1>9, FrontText
  <2>2. /\ b \in Text /\ Len(b) = at - c /\ \A k \in 1 .. (at - c) : b[k] = old[start + k]
    <3>1. offset <= Len(old)
      BY <1>5, <1>14
    <3>2. /\ b \in Text /\ Len(b) = offset - start
          /\ \A k \in 1 .. (offset - start) : b[k] = old[start + k]
      BY <1>14, <3>1, CutText
    <3> HIDE DEF b
    <3> QED
      BY <1>14, <3>2
  <2>3. /\ s \in Text /\ Len(s) = at + N /\ \A k \in 1 .. (at + N) : s[k] = q.lines[k]
    <3>1. at + N <= Len(q.lines) /\ at + N \in Nat
      BY <1>10
    <3> QED
      BY <1>4, <1>10, <3>1, FrontText
  <2> HIDE DEF a, b, s
  <2>4. /\ ab \in Text /\ Len(ab) = at
        /\ \A k \in 1 .. c : ab[k] = a[k]
        /\ \A k \in 1 .. (at - c) : ab[c + k] = b[k]
    <3>1. /\ ab \in Text /\ Len(ab) = Len(a) + Len(b)
          /\ \A k \in 1 .. Len(a) : ab[k] = a[k]
          /\ \A k \in 1 .. Len(b) : ab[Len(a) + k] = b[k]
      BY <2>1, <2>2, JoinText
    <3> HIDE DEF ab
    <3> QED
      BY <1>10, <2>1, <2>2, <3>1
  <2> HIDE DEF ab
  <2>5. /\ abn \in Text /\ Len(abn) = at + N
        /\ \A k \in 1 .. at : abn[k] = ab[k]
        /\ \A k \in 1 .. N : abn[at + k] = h.new[k]
    <3>1. /\ abn \in Text /\ Len(abn) = Len(ab) + Len(h.new)
          /\ \A k \in 1 .. Len(ab) : abn[k] = ab[k]
          /\ \A k \in 1 .. Len(h.new) : abn[Len(ab) + k] = h.new[k]
      BY <1>1, <2>4, JoinText
    <3> HIDE DEF abn
    <3> QED
      BY <1>8, <2>4, <3>1
  <2> HIDE DEF abn
  <2>6. ASSUME NEW k \in 1 .. (at + N) PROVE s[k] = abn[k]
    <3>1. CASE k <= c
      <4>1. k \in 1 .. c /\ k \in 1 .. at
        BY <1>10, <3>1
      <4> QED
        BY <1>3, <2>1, <2>3, <2>4, <2>5, <4>1
    <3>2. CASE k > c /\ k <= at
      <4>1. k \in 1 .. at /\ k - c \in 1 .. (at - c) /\ k - c \in 1 .. (P - c) /\ c + (k - c) = k
        BY <1>10, <3>2
      <4>2. s[k] = p.lines[k]
        BY <1>3, <2>3, <4>1
      <4>3. abn[k] = ab[c + (k - c)] /\ ab[c + (k - c)] = b[k - c]
        BY <2>4, <2>5, <4>1
      <4>4. b[k - c] = old[start + (k - c)] /\ p.lines[c + (k - c)] = old[start + (k - c)]
        BY <1>15, <2>2, <4>1
      <4> QED
        BY <4>1, <4>2, <4>3, <4>4
    <3>3. CASE k > at
      <4>1. k - at \in 1 .. N /\ at + (k - at) = k
        BY <3>3
      <4>2. q.lines[at + (k - at)] = h.new[k - at]
        BY <1>3, <1>8, <4>1
      <4>3. abn[at + (k - at)] = h.new[k - at]
        BY <2>5, <4>1
      <4> QED
        BY <2>3, <4>1, <4>2, <4>3
    <3> QED
      BY <3>1, <3>2, <3>3
  <2>7. s = abn
    BY <2>3, <2>5, <2>6, SameText
  <2> QED
    BY <2>7 DEF s, abn, ab, a, b
<1>19. GoodStep(old, h, p, q)
  <2> HIDE DEF start, offset, end
  <2>1. EndOf(old, p) = start /\ EndOf(old, q) = end /\ EndOf(old, q) - Len(h.old) = offset
    BY <1>7, <1>11, <1>13, <1>14 DEF start
  <2>2. offset \in 0 .. Len(old) /\ offset >= start
    BY <1>5, <1>14
  <2>3. /\ EndOf(old, q) - Len(h.old) \in 0 .. Len(old)
        /\ EndOf(old, q) - Len(h.old) >= EndOf(old, p)
    BY <2>1, <2>2, Zenon
  <2>4. SubSeq(old, (EndOf(old, q) - Len(h.old)) + 1, EndOf(old, q)) = h.old
    BY <1>17, <2>1, Zenon
  <2>5. SubSeq(q.lines, 1, q.cursor)
          = (SubSeq(p.lines, 1, p.cursor)
               \o SubSeq(old, EndOf(old, p) + 1, EndOf(old, q) - Len(h.old))) \o h.new
    BY <1>18, <2>1, Zenon
  <2> QED
    BY <2>3, <2>4, <2>5, Zenon DEF GoodStep
<1> QED
  BY <1>16, <1>19 DEF q

(* Without an error at the end there was none before, and every round was  *)
(* a good one.                                                             *)
LEMMA RoundsAreGood ==
  ASSUME NEW old \in Text, NEW hunks \in Seq(Hunks), NEW after, Round(old, hunks, after),
         ~after[Len(hunks)].error
  PROVE  /\ after[0] = [lines |-> old, cursor |-> 0, error |-> FALSE]
         /\ \A n \in 0 .. Len(hunks) : GoodRound(old, after[n])
         /\ \A n \in 1 .. Len(hunks) : GoodStep(old, hunks[n], after[n - 1], after[n])
<1> DEFINE M == Len(hunks)
           Good(n) == /\ GoodRound(old, after[n])
                      /\ n # 0 => GoodStep(old, hunks[n], after[n - 1], after[n])
           Bad == {n \in 0 .. M : ~after[n].error /\ \E k \in 0 .. n : ~Good(k)}
<1>1. M \in Nat
  OBVIOUS
<1>2. after[0] = [lines |-> old, cursor |-> 0, error |-> FALSE]
  BY <1>1 DEF Round
<1>3. \A n \in 1 .. M : after[n] = Splice(after[n - 1], hunks[n])
  <2>1. ASSUME NEW n \in 1 .. M PROVE after[n] = Splice(after[n - 1], hunks[n])
    <3>1. n \in 0 .. Len(hunks) /\ n # 0
      BY <1>1
    <3> HIDE DEF M, Good, Bad
    <3> QED
      BY <3>1, Zenon DEF Round
  <2> QED
    BY <2>1
<1>4. Good(0)
  <2>1. /\ after[0].lines = old /\ after[0].cursor = 0 /\ after[0].error = FALSE
        /\ after[0] \in Rounds /\ Len(old) \in Nat
    BY <1>2 DEF Rounds, Text
  <2>2. EndOf(old, after[0]) = 0
    BY <2>1 DEF EndOf
  <2> QED
    BY <2>1, <2>2 DEF GoodRound
<1>5. Bad = {}
  <2>1. SUFFICES ASSUME Bad # {} PROVE FALSE
    OBVIOUS
  <2>2. PICK n \in Bad : \A m \in Bad : n <= m
    <3>1. Bad \in SUBSET Nat
      BY <1>1
    <3> HIDE DEF Bad
    <3> QED
      BY <2>1, <3>1, LeastNumber
  <2>3. n \in 0 .. M /\ ~after[n].error /\ \E k \in 0 .. n : ~Good(k)
    OBVIOUS
  <2>4. CASE n = 0
    <3> HIDE DEF Good
    <3> QED
      BY <1>4, <2>3, <2>4
  <2>5. CASE n # 0
    <3>1. /\ n \in 1 .. M /\ n - 1 \in 0 .. M /\ ~(n <= n - 1) /\ hunks[n] \in Hunks
      BY <1>1, <2>3, <2>5
    <3>2. after[n] = Splice(after[n - 1], hunks[n])
      BY <1>3, <3>1
    <3>3. ~after[n - 1].error
      <4>1. after[n - 1].error => Splice(after[n - 1], hunks[n]) = [after[n - 1] EXCEPT !.error = TRUE]
        BY DEF Splice
      <4>2. CASE after[n - 1].error
        <5>1. after[n] = [after[n - 1] EXCEPT !.error = TRUE]
          BY <3>2, <4>1, <4>2
        <5>2. "error" \in DOMAIN after[n - 1] => after[n].error
          BY <5>1
        <5> QED
          BY <2>3, <5>2, <5>1, <4>2
      <4> QED
        BY <4>2
    <3>4. n - 1 \notin Bad
      <4> HIDE DEF Bad
      <4> QED
        BY <2>2, <3>1
    <3>5. \A k \in 0 .. (n - 1) : Good(k)
      BY <3>1, <3>3, <3>4
    <3>6. Good(n)
      <4>1. GoodRound(old, after[n - 1])
        BY <3>1, <3>5
      <4> QED
        BY <2>3, <3>1, <3>2, <4>1, SpliceIsGood
    <3> HIDE DEF Good
    <3>7. \A k \in 0 .. n : k = n \/ k \in 0 .. (n - 1)
      BY <3>1
    <3> QED
      BY <2>3, <3>5, <3>6, <3>7
  <2> QED
    BY <2>4, <2>5
<1>6. \A n \in 0 .. M : Good(n)
  BY <1>1, <1>5
<1> QED
  BY <1>2, <1>6

(* What apply_hunks makes of a text is the text with its hunks replaced,   *)
(* in their order and nowhere else.                                        *)
LEMMA HunksReplace ==
  ASSUME NEW old \in Text, NEW hunks \in Seq(Hunks), ~ApplyHunks(old, hunks).error
  PROVE  /\ ApplyHunks(old, hunks).lines \in Text
         /\ IsReplacement(old, hunks, ApplyHunks(old, hunks).lines)
<1> DEFINE after == Rounded(old, hunks)
           M == Len(hunks)
           new == ApplyHunks(old, hunks).lines
<1>1. Round(old, hunks, after) /\ ApplyHunks(old, hunks) = after[M]
  BY RoundsExist
<1> HIDE DEF after
<1>2. /\ after[0] = [lines |-> old, cursor |-> 0, error |-> FALSE]
      /\ \A n \in 0 .. M : GoodRound(old, after[n])
      /\ \A n \in 1 .. M : GoodStep(old, hunks[n], after[n - 1], after[n])
  BY <1>1, RoundsAreGood
<1>3. M \in Nat /\ DOMAIN hunks = 1 .. M /\ \A n \in 1 .. M : hunks[n] \in Hunks
  OBVIOUS
<1>4. new = after[M].lines /\ GoodRound(old, after[M])
  BY <1>1, <1>2, <1>3
<1> HIDE DEF new
<1>5. /\ after[M] \in Rounds /\ after[M].lines \in Text /\ new \in Text
      /\ after[M].cursor \in Nat /\ Len(new) \in Nat /\ Len(old) \in Nat
  BY <1>4 DEF GoodRound, Rounds, Text
<1> DEFINE offset == [i \in DOMAIN hunks |-> EndOf(old, after[i]) - Len(hunks[i].old)]
           end(i) == IF i = 0 THEN 0 ELSE offset[i] + Len(hunks[i].old)
           grown(t) == t = [i \in 0 .. M |->
             IF i = 0 THEN <<>>
             ELSE t[i - 1] \o SubSeq(old, end(i - 1) + 1, offset[i]) \o hunks[i].new]
           done == [i \in 0 .. M |-> SubSeq(after[i].lines, 1, after[i].cursor)]
           text == CHOOSE t : grown(t)
<1>6. offset \in [DOMAIN hunks -> 0 .. Len(old)]
  BY <1>2, <1>3 DEF GoodStep
<1>7. \A i \in 1 .. M : offset[i] = EndOf(old, after[i]) - Len(hunks[i].old)
  BY <1>3
<1>8. \A i \in 0 .. M : end(i) = EndOf(old, after[i])
  <2>1. EndOf(old, after[0]) = 0
    BY <1>2, <1>5 DEF EndOf
  <2>2. ASSUME NEW i \in 1 .. M PROVE end(i) = EndOf(old, after[i])
    <3>1. GoodRound(old, after[i]) /\ hunks[i].old \in Text
      BY <1>2, <1>3 DEF Hunks
    <3>2. EndOf(old, after[i]) \in Int /\ Len(hunks[i].old) \in Nat
      BY <1>5, <3>1 DEF GoodRound, Rounds, EndOf, Text
    <3> HIDE DEF offset
    <3> QED
      BY <1>7, <3>2
  <2> HIDE DEF end
  <2>3. end(0) = 0
    BY DEF end
  <2> QED
    BY <1>3, <2>1, <2>2, <2>3
<1> HIDE DEF offset, end
<1>9. ASSUME NEW i \in 1 .. M
      PROVE  /\ offset[i] >= end(i - 1)
             /\ SubSeq(old, offset[i] + 1, end(i)) = hunks[i].old
             /\ done[i] = done[i - 1] \o SubSeq(old, end(i - 1) + 1, offset[i]) \o hunks[i].new
  <2>1. i - 1 \in 0 .. M /\ i \in 0 .. M
    BY <1>3
  <2>2. /\ done[i] = SubSeq(after[i].lines, 1, after[i].cursor)
        /\ done[i - 1] = SubSeq(after[i - 1].lines, 1, after[i - 1].cursor)
    BY <2>1
  <2>3. /\ end(i - 1) = EndOf(old, after[i - 1]) /\ end(i) = EndOf(old, after[i])
        /\ offset[i] = EndOf(old, after[i]) - Len(hunks[i].old)
    BY <1>7, <1>8, <2>1
  <2>4. GoodStep(old, hunks[i], after[i - 1], after[i])
    BY <1>2
  <2> HIDE DEF done
  <2> QED
    BY <2>2, <2>3, <2>4, Zenon DEF GoodStep
<1>10. done[0] = <<>>
  <2>1. after[0].lines = old /\ after[0].cursor = 0
    BY <1>2
  <2>2. done[0] = SubSeq(old, 1, 0)
    BY <1>3, <2>1
  <2> QED
    <3>1. SubSeq(old, 1, 0) \in Text /\ Len(SubSeq(old, 1, 0)) = 0
      BY <1>5, FrontText
    <3>2. <<>> \in Text /\ Len(<<>>) = 0
      BY DEF Text
    <3>3. SubSeq(old, 1, 0) = <<>>
      BY <3>1, <3>2, SameText
    <3> QED
      BY <2>2, <3>3
<1>11. grown(done)
  <2> DEFINE t == [i \in 0 .. M |->
        IF i = 0 THEN <<>>
        ELSE done[i - 1] \o SubSeq(old, end(i - 1) + 1, offset[i]) \o hunks[i].new]
  <2>1. done = [i \in 0 .. M |-> done[i]]
    OBVIOUS
  <2> HIDE DEF done
  <2>2. \A i \in 0 .. M : t[i] = done[i]
    <3>1. t[0] = done[0]
      BY <1>3, <1>10
    <3>2. ASSUME NEW i \in 1 .. M PROVE t[i] = done[i]
      <4>1. i \in 0 .. M /\ i # 0
        BY <1>3
      <4>2. t[i] = done[i - 1] \o SubSeq(old, end(i - 1) + 1, offset[i]) \o hunks[i].new
        BY <4>1, Zenon
      <4> QED
        BY <1>9, <4>2, Zenon
    <3> HIDE DEF t
    <3> QED
      BY <1>3, <3>1, <3>2
  <2>3. t = [i \in 0 .. M |-> t[i]]
    OBVIOUS
  <2> HIDE DEF t
  <2>4. done = t
    BY <2>1, <2>2, <2>3
  <2> QED
    BY <2>4 DEF t
<1>12. grown(text)
  <2> HIDE DEF grown
  <2> QED
    BY <1>11
<1>13. \A i \in 0 .. M : text[i] = done[i]
  <2> DEFINE Other == {i \in 0 .. M : text[i] # done[i]}
  <2> HIDE DEF done, text
  <2>1. SUFFICES ASSUME Other # {} PROVE FALSE
    OBVIOUS
  <2>2. PICK i \in Other : \A j \in Other : i <= j
    <3>1. Other \in SUBSET Nat
      BY <1>3
    <3> HIDE DEF Other
    <3> QED
      BY <2>1, <3>1, LeastNumber
  <2>3. i \in 0 .. M /\ text[i] # done[i]
    OBVIOUS
  <2>4. i # 0
    <3>1. text[0] = <<>>
      BY <1>3, <1>12
    <3> QED
      BY <1>10, <2>3, <3>1
  <2>5. i - 1 \in 0 .. M /\ i \in 1 .. M /\ ~(i <= i - 1)
    BY <1>3, <2>3, <2>4
  <2>6. text[i - 1] = done[i - 1]
    BY <2>2, <2>5
  <2>7. text[i] = text[i - 1] \o SubSeq(old, end(i - 1) + 1, offset[i]) \o hunks[i].new
    BY <1>12, <2>3, <2>4
  <2>8. done[i] = done[i - 1] \o SubSeq(old, end(i - 1) + 1, offset[i]) \o hunks[i].new
    BY <1>9, <2>5
  <2> QED
    BY <2>3, <2>6, <2>7, <2>8
<1>14. new = text[M] \o SubSeq(old, end(M) + 1, Len(old))
  <2> DEFINE q == after[M]
             a == SubSeq(q.lines, 1, q.cursor)
             b == SubSeq(old, end(M) + 1, Len(old))
  <2>1. text[M] = a /\ end(M) = EndOf(old, q) /\ q.lines = new
    <3>1. M \in 0 .. M
      BY <1>3
    <3>2. text[M] = done[M]
      BY <1>13, <3>1, Zenon
    <3>3. done[M] = a
      BY <3>1
    <3>4. end(M) = EndOf(old, after[M])
      BY <1>8, <3>1, Zenon
    <3> HIDE DEF done, text, a
    <3> QED
      BY <1>4, <3>2, <3>3, <3>4
  <2>2. PICK c \in Nat : c = q.cursor
    BY <1>5
  <2>3. PICK L \in Nat : L = Len(old)
    BY <1>5
  <2>4. PICK N \in Nat : N = Len(new)
    BY <1>5
  <2>5. /\ c <= N /\ N - c <= L
        /\ \A k \in 1 .. (N - c) : new[c + k] = old[end(M) + k]
    BY <1>4, <2>1, <2>2, <2>3, <2>4 DEF GoodRound
  <2>6. end(M) = (L - N) + c
    BY <2>1, <2>2, <2>3, <2>4 DEF EndOf
  <2>7. end(M) \in Nat /\ end(M) <= L /\ L - end(M) = N - c
    BY <2>5, <2>6
  <2>8. a \in Text /\ Len(a) = c /\ \A k \in 1 .. c : a[k] = new[k]
    BY <1>5, <2>1, <2>2, <2>4, <2>5, FrontText
  <2>9. b \in Text /\ Len(b) = N - c /\ \A k \in 1 .. (N - c) : b[k] = old[end(M) + k]
    <3>1. /\ b \in Text /\ Len(b) = L - end(M)
          /\ \A k \in 1 .. (L - end(M)) : b[k] = old[end(M) + k]
      <4>1. Len(old) <= Len(old) /\ end(M) <= Len(old) /\ Len(old) \in Nat
        BY <1>5, <2>3, <2>7
      <4> QED
        BY <2>3, <2>7, <4>1, CutText, Zenon
    <3> HIDE DEF b
    <3> QED
      BY <2>7, <3>1
  <2> DEFINE ab == a \o b
  <2>10. text[M] \o SubSeq(old, end(M) + 1, Len(old)) = ab
    BY <2>1
  <2> HIDE DEF a, b, q
  <2>11. /\ ab \in Text /\ Len(ab) = Len(a) + Len(b)
         /\ \A k \in 1 .. Len(a) : ab[k] = a[k]
         /\ \A k \in 1 .. Len(b) : ab[Len(a) + k] = b[k]
    BY <2>8, <2>9, JoinText
  <2> HIDE DEF ab
  <2>12. Len(ab) = N
    BY <2>5, <2>8, <2>9, <2>11
  <2>13. ASSUME NEW k \in 1 .. N PROVE new[k] = ab[k]
    <3>1. CASE k <= c
      <4>1. k \in 1 .. c
        BY <3>1
      <4> QED
        BY <2>8, <2>11, <4>1
    <3>2. CASE k > c
      <4>1. k - c \in 1 .. (N - c) /\ c + (k - c) = k
        BY <2>5, <3>2
      <4>2. new[c + (k - c)] = old[end(M) + (k - c)]
        BY <2>5, <4>1
      <4>3. ab[c + (k - c)] = b[k - c] /\ b[k - c] = old[end(M) + (k - c)]
        BY <2>8, <2>9, <2>11, <4>1
      <4> QED
        BY <4>1, <4>2, <4>3
    <3> QED
      BY <3>1, <3>2
  <2>14. new = ab
    BY <1>5, <2>4, <2>11, <2>12, <2>13, SameText
  <2> QED
    BY <2>10, <2>14
<1>15. \A i \in 1 .. M : /\ offset[i] >= end(i - 1)
                         /\ SubSeq(old, offset[i] + 1, end(i)) = hunks[i].old
  BY <1>9
<1>16. IsReplacement(old, hunks, new)
  <2> HIDE DEF done
  <2> QED
    BY <1>3, <1>6, <1>14, <1>15 DEF IsReplacement, end
<1> QED
  BY <1>5, <1>16 DEF new
----------------------------------------------------------------------------
(* The call of apply_patch.                                                *)
Plans == [file : PatchFiles, original : Text, hunks : Seq(Hunks), content : Text]
PatchStates ==
  [at : {"idle", "writing", "undoing", "returned", "killed"}, plans : Seq(Plans), next : Nat,
   step : {"write", "remove", "rename"}, result : {"none", "ok", "refused", "rolled back"},
   undoFailed : BOOLEAN, failed : Nat, before : [PatchFiles -> Text]]

PatchTypeOK ==
  /\ target_of \in [PatchPaths -> PatchFiles]
  /\ disk \in [PatchFiles -> Text]
  /\ patching \in PatchStates

(* Every plan was made for the file as it was before the first write.      *)
PlanInv ==
  \A i \in DOMAIN patching.plans : LET p == patching.plans[i] IN
    /\ p.original = patching.before[p.file]
    /\ p.hunks # <<>> => IsReplacement(p.original, p.hunks, p.content)

(* While it writes: the plans before the next one are on the disk, and no  *)
(* file is touched but those of the plans up to the next one.              *)
Written ==
  /\ Distinct => \A i \in DOMAIN patching.plans :
       i < patching.next => disk[patching.plans[i].file] = patching.plans[i].content
  /\ \A f \in PatchFiles :
       (\A i \in DOMAIN patching.plans : i <= patching.next => patching.plans[i].file # f)
         => disk[f] = patching.before[f]

(* While it undoes: what differs is the file of the plan that failed, or   *)
(* of one that is still to be undone.                                      *)
Undone ==
  ~patching.undoFailed =>
    \A f \in PatchFiles :
      f # patching.plans[patching.failed].file =>
        \/ disk[f] = patching.before[f]
        \/ \E i \in DOMAIN patching.plans : i <= patching.next /\ patching.plans[i].file = f

CallStages ==
  /\ patching.at = "idle" =>
       disk = patching.before /\ patching.next = 1 /\ patching.step = "write"
  /\ patching.at = "writing" =>
       /\ patching.next \in 1 .. (Len(patching.plans) + 1)
       /\ patching.step # "write" => patching.next <= Len(patching.plans)
       /\ Written
  /\ patching.at = "undoing" =>
       /\ patching.failed \in DOMAIN patching.plans
       /\ patching.next < patching.failed
       /\ Undone
  /\ patching.at # "returned" => patching.result = "none"
  /\ patching.result = "ok" => patching.next > Len(patching.plans) /\ Written
  /\ patching.result = "refused" => disk = patching.before
  /\ patching.result = "rolled back" => patching.next = 0 /\ Undone

PatchIInv == PatchTypeOK /\ PlanInv /\ CallStages

LEMMA AbsentIsText == Absent \in Text
<1>1. \A S : \A x \in S : <<x>> \in Seq(S)
  OBVIOUS
<1> QED
  BY <1>1, Zenon DEF Absent, Text

LEMMA TextsAreTexts ==
  /\ Contents \subseteq Text
  /\ HunkLists \subseteq Seq(Hunks)
<1>1. \A S, T : S \subseteq T => Seq(S) \subseteq Seq(T)
  OBVIOUS
<1>2. Seq(STRING) \subseteq Text
  BY <1>1, Zenon DEF Text
<1>3. [old : Seq(STRING), new : Seq(STRING)] \subseteq Hunks
  BY <1>2 DEF Hunks
<1>4. Seq([old : Seq(STRING), new : Seq(STRING)]) \subseteq Seq(Hunks)
  BY <1>1, <1>3, Zenon
<1> QED
  BY <1>2, <1>4, PatchAssumption

LEMMA PatchInitOK == ASSUME PatchInit PROVE PatchIInv
<1>1. disk \in [PatchFiles -> Text]
  BY TextsAreTexts, AbsentIsText DEF PatchInit
<1>2. <<>> \in Seq(Plans) /\ DOMAIN <<>> = {}
  OBVIOUS
<1>3. patching \in PatchStates
  BY <1>1, <1>2 DEF PatchInit, PatchStates
<1> QED
  BY <1>1, <1>2, <1>3 DEF PatchInit, PatchIInv, PatchTypeOK, PlanInv, CallStages

(* A plan that is made fits the file and says what it is to hold.          *)
LEMMA PlanIsRight ==
  ASSUME PatchIInv, NEW c \in Changes, Plannable(c)
  PROVE  /\ Planned(c) \in Plans
         /\ Planned(c).original = disk[Planned(c).file]
         /\ Planned(c).hunks # <<>> =>
              IsReplacement(Planned(c).original, Planned(c).hunks, Planned(c).content)
<1> DEFINE f == target_of[c.path]
           now == disk[f]
<1>1. /\ c.path \in PatchPaths
      /\ \/ c.kind = "add" /\ c.lines \in Contents /\ c.hunks = <<>>
         \/ c.kind = "delete" /\ c.hunks = <<>>
         \/ c.kind = "update" /\ c.hunks \in HunkLists
  BY DEF Changes
<1>2. f \in PatchFiles /\ now \in Text /\ <<>> \in Seq(Hunks)
  BY <1>1 DEF PatchIInv, PatchTypeOK
<1> DEFINE content == CASE c.kind = "add" -> c.lines
                        [] c.kind = "delete" -> Absent
                        [] c.kind = "update" -> ApplyHunks(now, c.hunks).lines
           plan == [file |-> f, original |-> now, hunks |-> c.hunks, content |-> content]
<1>3. Planned(c) = plan
  BY DEF Planned
<1>4. c.hunks \in Seq(Hunks)
  BY <1>1, <1>2, TextsAreTexts
<1>5. CASE c.kind = "update"
  <2>1. ~ApplyHunks(now, c.hunks).error
    BY <1>5 DEF Plannable
  <2>2. content = ApplyHunks(now, c.hunks).lines
    BY <1>5
  <2>3. content \in Text /\ IsReplacement(now, c.hunks, content)
    BY <1>2, <1>4, <2>1, <2>2, HunksReplace
  <2> HIDE DEF f, now, content
  <2> QED
    BY <1>2, <1>3, <1>4, <2>3 DEF Plans, now
<1>6. CASE c.kind # "update"
  <2>1. c.hunks = <<>>
    BY <1>1, <1>6
  <2>2. content \in Text
    BY <1>1, <1>6, TextsAreTexts, AbsentIsText
  <2> HIDE DEF f, now, content
  <2> QED
    BY <1>2, <1>3, <1>4, <2>1, <2>2 DEF Plans, now
<1> QED
  BY <1>5, <1>6

LEMMA ApplyKeeps ==
  ASSUME PatchIInv, NEW cs \in Patches, NEW granted \in BOOLEAN, ApplyPatch(cs, granted)
  PROVE  PatchIInv'
<1>1. /\ patching \in PatchStates /\ disk' = disk /\ target_of' = target_of
      /\ disk = patching.before /\ patching.next = 1 /\ patching.step = "write"
      /\ patching.result = "none"
  BY DEF PatchIInv, PatchTypeOK, CallStages, ApplyPatch
<1>2. PICK n \in 1 .. MAX_PATCH_FILES : cs \in [1 .. n -> Changes]
  BY DEF Patches
<1>3. n \in Nat
  BY <1>2, PatchAssumption
<1>4. CASE granted /\ \A i \in DOMAIN cs : Plannable(cs[i])
  <2> DEFINE plans == [i \in DOMAIN cs |-> Planned(cs[i])]
  <2>1. patching' = [patching EXCEPT !.at = "writing", !.plans = plans]
    BY <1>4 DEF ApplyPatch
  <2>2. \A i \in 1 .. n : plans[i] = Planned(cs[i]) /\ cs[i] \in Changes /\ Plannable(cs[i])
    BY <1>2, <1>4
  <2>3. DOMAIN plans = 1 .. n
    BY <1>2
  <2>4. plans = [i \in 1 .. n |-> plans[i]]
    BY <1>2
  <2> HIDE DEF plans
  <2>5. \A i \in 1 .. n :
          /\ plans[i] \in Plans
          /\ plans[i].original = disk[plans[i].file]
          /\ plans[i].hunks # <<>> =>
               IsReplacement(plans[i].original, plans[i].hunks, plans[i].content)
    BY <2>2, PlanIsRight
  <2>6. plans \in [1 .. n -> Plans]
    BY <2>4, <2>5
  <2>7. plans \in Seq(Plans) /\ Len(plans) = n
    BY <1>3, <2>6
  <2>8. /\ patching' \in PatchStates /\ patching'.at = "writing" /\ patching'.plans = plans
        /\ patching'.next = 1 /\ patching'.step = "write" /\ patching'.result = "none"
        /\ patching'.before = patching.before
    BY <1>1, <2>1, <2>7 DEF PatchStates
  <2>9. PatchTypeOK'
    BY <1>1, <2>8 DEF PatchIInv, PatchTypeOK
  <2>10. PlanInv'
    BY <1>1, <2>3, <2>5, <2>8 DEF PlanInv
  <2>11. Written'
    <3>1. \A i \in 1 .. n : ~(i < 1)
      BY <1>3
    <3> QED
      BY <1>1, <2>3, <2>8, <3>1 DEF Written
  <2>12. CallStages'
    BY <1>3, <2>7, <2>8, <2>11 DEF CallStages
  <2> QED
    BY <2>9, <2>10, <2>12 DEF PatchIInv
<1>5. CASE ~(granted /\ \A i \in DOMAIN cs : Plannable(cs[i]))
  <2>1. patching' = [patching EXCEPT !.at = "returned", !.result = "refused"]
    BY <1>5 DEF ApplyPatch
  <2>2. /\ patching' \in PatchStates /\ patching'.at = "returned" /\ patching'.result = "refused"
        /\ patching'.plans = patching.plans /\ patching'.before = patching.before
    BY <1>1, <2>1 DEF PatchStates
  <2>3. PatchTypeOK' /\ PlanInv' /\ CallStages'
    BY <1>1, <2>2 DEF PatchIInv, PatchTypeOK, PlanInv, CallStages
  <2> QED
    BY <2>3 DEF PatchIInv
<1> QED
  BY <1>4, <1>5

(* A call of the file system changes no file but that of the current plan. *)
OneFile ==
  /\ target_of' = target_of
  /\ disk' \in [PatchFiles -> Text]
  /\ \A f \in PatchFiles : f # Current.file => disk'[f] = disk[f]

PlansStay ==
  /\ patching' \in PatchStates
  /\ patching'.plans = patching.plans /\ patching'.before = patching.before

LEMMA CurrentPlan ==
  ASSUME PatchIInv, patching.at = "writing", patching.next <= Len(patching.plans)
  PROVE  /\ patching.next \in DOMAIN patching.plans
         /\ Current \in Plans
         /\ Current = patching.plans[patching.next]
<1>1. patching.plans \in Seq(Plans) /\ patching.next \in 1 .. (Len(patching.plans) + 1)
  BY DEF PatchIInv, PatchTypeOK, PatchStates, CallStages
<1>2. patching.next \in DOMAIN patching.plans
  BY <1>1
<1> QED
  BY <1>1, <1>2 DEF Current

LEMMA PlansAreKept == ASSUME PlanInv, PlansStay PROVE PlanInv'
  BY DEF PlanInv, PlansStay

(* A call that fails: the plans before this one are to be undone.          *)
LEMMA FailKeeps ==
  ASSUME PatchIInv, patching.at = "writing", patching.next <= Len(patching.plans), OneFile,
         patching' = Fail
  PROVE  PatchIInv'
<1>1. /\ patching \in PatchStates /\ patching.next \in Nat \ {0} /\ patching.result = "none"
      /\ patching.next \in DOMAIN patching.plans /\ Current = patching.plans[patching.next]
      /\ patching.plans \in Seq(Plans)
  <2>1. patching \in PatchStates /\ patching.plans \in Seq(Plans) /\ patching.next \in Nat
        /\ patching.next \in 1 .. (Len(patching.plans) + 1) /\ patching.result = "none"
    BY DEF PatchIInv, PatchTypeOK, PatchStates, CallStages
  <2>2. patching.next \in DOMAIN patching.plans /\ Current = patching.plans[patching.next]
    BY CurrentPlan
  <2> QED
    BY <2>1, <2>2
<1>2. patching.next - 1 \in Nat
  BY <1>1
<1>3. patching' = [patching EXCEPT !.at = "undoing", !.failed = patching.next,
                                   !.next = patching.next - 1]
  BY <1>1 DEF Fail, PatchStates
<1>4. /\ patching' \in PatchStates /\ patching'.at = "undoing" /\ patching'.failed = patching.next
      /\ patching'.next = patching.next - 1 /\ patching'.result = "none"
      /\ patching'.plans = patching.plans /\ patching'.before = patching.before
  BY <1>1, <1>2, <1>3 DEF PatchStates
<1>5. PlanInv'
  BY <1>4, PlansAreKept DEF PatchIInv, PlansStay
<1>6. Undone'
  <2>1. ASSUME NEW f \in PatchFiles, f # Current.file,
               ~\E i \in DOMAIN patching.plans :
                   i <= patching.next - 1 /\ patching.plans[i].file = f
        PROVE  disk'[f] = patching.before[f]
    <3>1. ASSUME NEW i \in DOMAIN patching.plans, i <= patching.next
          PROVE  patching.plans[i].file # f
      <4>1. i \in Nat /\ (i = patching.next \/ i <= patching.next - 1)
        BY <1>1, <3>1
      <4> QED
        BY <1>1, <2>1, <4>1
    <3>2. disk[f] = patching.before[f]
      BY <3>1 DEF PatchIInv, CallStages, Written
    <3> QED
      BY <2>1, <3>2 DEF OneFile
  <2> QED
    BY <1>1, <1>4, <2>1 DEF Undone
<1>7. CallStages'
  BY <1>1, <1>4, <1>6 DEF CallStages
<1>8. PatchTypeOK'
  BY <1>4 DEF PatchIInv, PatchTypeOK, OneFile
<1> QED
  BY <1>5, <1>7, <1>8 DEF PatchIInv

(* A call that succeeds and is not the last one of its plan.               *)
LEMMA StayKeeps ==
  ASSUME PatchIInv, patching.at = "writing", patching.next <= Len(patching.plans), OneFile,
         NEW step \in {"remove", "rename"}, patching' = [patching EXCEPT !.step = step]
  PROVE  PatchIInv'
<1>1. /\ patching \in PatchStates /\ patching.result = "none"
      /\ patching.next \in DOMAIN patching.plans /\ Current = patching.plans[patching.next]
      /\ patching.plans \in Seq(Plans) /\ Written
      /\ patching.next \in 1 .. (Len(patching.plans) + 1)
  BY CurrentPlan DEF PatchIInv, PatchTypeOK, PatchStates, CallStages
<1>2. /\ patching' \in PatchStates /\ patching'.at = "writing" /\ patching'.next = patching.next
      /\ patching'.result = "none" /\ patching'.step = step
      /\ patching'.plans = patching.plans /\ patching'.before = patching.before
  BY <1>1 DEF PatchStates
<1>3. PlanInv'
  BY <1>2, PlansAreKept DEF PatchIInv, PlansStay
<1>4. Written'
  <2>1. ASSUME Distinct, NEW i \in DOMAIN patching.plans, i < patching.next
        PROVE  disk'[patching.plans[i].file] = patching.plans[i].content
    <3>1. patching.plans[i].file \in PatchFiles /\ i # patching.next
      <4>1. patching.plans[i] \in Plans
        BY <1>1
      <4>2. i # patching.next
        BY <1>1, <2>1
      <4> QED
        BY <4>1, <4>2 DEF Plans
    <3>2. patching.plans[i].file # Current.file
      BY <1>1, <2>1, <3>1 DEF Distinct
    <3> QED
      BY <1>1, <2>1, <3>1, <3>2 DEF OneFile, Written
  <2>2. ASSUME NEW f \in PatchFiles,
               \A i \in DOMAIN patching.plans : i <= patching.next => patching.plans[i].file # f
        PROVE  disk'[f] = patching.before[f]
    <3>1. f # Current.file
      BY <1>1, <2>2
    <3> QED
      BY <1>1, <2>2, <3>1 DEF OneFile, Written
  <2> QED
    BY <1>2, <2>1, <2>2 DEF Written, Distinct
<1>5. CallStages'
  BY <1>1, <1>2, <1>4 DEF CallStages
<1>6. PatchTypeOK'
  BY <1>2 DEF PatchIInv, PatchTypeOK, OneFile
<1> QED
  BY <1>3, <1>5, <1>6 DEF PatchIInv

(* The last call of a plan.                                                *)
LEMMA NextKeeps ==
  ASSUME PatchIInv, patching.at = "writing", patching.next <= Len(patching.plans), OneFile,
         disk'[Current.file] = Current.content, patching' = NextPlan
  PROVE  PatchIInv'
<1>1. /\ patching \in PatchStates /\ patching.result = "none"
      /\ patching.next \in DOMAIN patching.plans /\ Current = patching.plans[patching.next]
      /\ patching.plans \in Seq(Plans) /\ Written /\ patching.next \in Nat
      /\ patching.next \in 1 .. (Len(patching.plans) + 1)
  BY CurrentPlan DEF PatchIInv, PatchTypeOK, PatchStates, CallStages
<1>2. patching.next + 1 \in Nat /\ patching.next + 1 \in 1 .. (Len(patching.plans) + 1)
  BY <1>1
<1>3. patching' = [patching EXCEPT !.next = patching.next + 1, !.step = "write"]
  BY <1>1 DEF NextPlan, PatchStates
<1>4. /\ patching' \in PatchStates /\ patching'.at = "writing"
      /\ patching'.next = patching.next + 1
      /\ patching'.result = "none" /\ patching'.step = "write"
      /\ patching'.plans = patching.plans /\ patching'.before = patching.before
  BY <1>1, <1>2, <1>3 DEF PatchStates
<1>5. PlanInv'
  BY <1>4, PlansAreKept DEF PatchIInv, PlansStay
<1>6. Written'
  <2>1. ASSUME Distinct, NEW i \in DOMAIN patching.plans, i < patching.next + 1
        PROVE  disk'[patching.plans[i].file] = patching.plans[i].content
    <3>1. CASE i = patching.next
      BY <1>1, <3>1
    <3>2. CASE i # patching.next
      <4>1. patching.plans[i].file \in PatchFiles /\ i < patching.next
        <5>1. patching.plans[i] \in Plans
          BY <1>1
        <5>2. i < patching.next
          BY <1>1, <2>1, <3>2
        <5> QED
          BY <5>1, <5>2 DEF Plans
      <4>2. patching.plans[i].file # Current.file
        BY <1>1, <2>1, <3>2 DEF Distinct
      <4> QED
        BY <1>1, <2>1, <4>1, <4>2 DEF OneFile, Written
    <3> QED
      BY <3>1, <3>2
  <2>2. ASSUME NEW f \in PatchFiles,
               \A i \in DOMAIN patching.plans : i <= patching.next + 1 => patching.plans[i].file # f
        PROVE  disk'[f] = patching.before[f]
    <3>1. \A i \in DOMAIN patching.plans : i <= patching.next => i <= patching.next + 1
      BY <1>1
    <3>2. f # Current.file
      BY <1>1, <2>2
    <3> QED
      BY <1>1, <2>2, <3>1, <3>2 DEF OneFile, Written
  <2> QED
    BY <1>4, <2>1, <2>2 DEF Written, Distinct
<1>7. CallStages'
  BY <1>1, <1>2, <1>4, <1>6 DEF CallStages
<1>8. PatchTypeOK'
  BY <1>4 DEF PatchIInv, PatchTypeOK, OneFile
<1> QED
  BY <1>5, <1>7, <1>8 DEF PatchIInv

LEMMA WriteStep ==
  ASSUME PatchIInv, NEW ok \in BOOLEAN, StageTemporary(ok) \/ UnlinkTarget(ok) \/ Rename(ok)
  PROVE  PatchIInv'
<1>1. /\ patching.at = "writing" /\ patching.next <= Len(patching.plans)
      /\ patching \in PatchStates /\ disk \in [PatchFiles -> Text]
  BY DEF PatchIInv, PatchTypeOK, CallStages, StageTemporary, UnlinkTarget, Rename
<1>2. Current.file \in PatchFiles /\ Current.content \in Text
  BY <1>1, CurrentPlan DEF Plans
<1>3. ASSUME target_of' = target_of, NEW v \in Text,
             disk' = disk \/ disk' = [disk EXCEPT ![Current.file] = v]
      PROVE  OneFile /\ (disk' # disk => disk'[Current.file] = v)
  BY <1>1, <1>2, <1>3 DEF OneFile
<1>4. CASE StageTemporary(ok)
  <2>1. OneFile
    BY <1>2, <1>3, <1>4 DEF StageTemporary
  <2>2. CASE ~ok
    BY <1>1, <1>4, <2>1, <2>2, FailKeeps DEF StageTemporary
  <2>3. CASE ok
    <3> DEFINE step == IF disk[Current.file] = Absent THEN "rename" ELSE "remove"
    <3>1. patching' = [patching EXCEPT !.step = step] /\ step \in {"remove", "rename"}
      BY <1>4, <2>3 DEF StageTemporary
    <3> HIDE DEF step
    <3> QED
      BY <1>1, <2>1, <3>1, StayKeeps
  <2> QED
    BY <2>2, <2>3
<1>5. CASE UnlinkTarget(ok)
  <2>1. target_of' = target_of /\ (disk' = disk \/ disk' = [disk EXCEPT ![Current.file] = Absent])
    BY <1>5 DEF UnlinkTarget
  <2>2. OneFile
    BY <1>3, <2>1, AbsentIsText
  <2>3. CASE ~(ok /\ disk[Current.file] # Absent)
    <3>1. patching' = Fail
      BY <1>5, <2>3 DEF UnlinkTarget
    <3> QED
      BY <1>1, <2>2, <3>1, FailKeeps
  <2>4. CASE ok /\ disk[Current.file] # Absent /\ Current.content = Absent
    <3>1. patching' = NextPlan /\ disk' = [disk EXCEPT ![Current.file] = Absent]
      BY <1>5, <2>4 DEF UnlinkTarget
    <3>2. disk'[Current.file] = Current.content
      BY <1>1, <1>2, <2>4, <3>1
    <3> QED
      BY <1>1, <2>2, <3>1, <3>2, NextKeeps
  <2>5. CASE ok /\ disk[Current.file] # Absent /\ Current.content # Absent
    <3>1. patching' = [patching EXCEPT !.step = "rename"]
      BY <1>5, <2>5 DEF UnlinkTarget
    <3> QED
      BY <1>1, <2>2, <3>1, StayKeeps
  <2> QED
    BY <2>3, <2>4, <2>5
<1>6. CASE Rename(ok)
  <2>1. /\ target_of' = target_of
        /\ disk' = disk \/ disk' = [disk EXCEPT ![Current.file] = Current.content]
    BY <1>6 DEF Rename
  <2>2. OneFile
    BY <1>2, <1>3, <2>1
  <2>3. CASE ~ok
    <3>1. patching' = Fail
      BY <1>6, <2>3 DEF Rename
    <3> QED
      BY <1>1, <2>2, <3>1, FailKeeps
  <2>4. CASE ok
    <3>1. patching' = NextPlan /\ disk' = [disk EXCEPT ![Current.file] = Current.content]
      BY <1>6, <2>4 DEF Rename
    <3>2. disk'[Current.file] = Current.content
      BY <1>1, <1>2, <3>1
    <3> QED
      BY <1>1, <2>2, <3>1, <3>2, NextKeeps
  <2> QED
    BY <2>3, <2>4
<1> QED
  BY <1>4, <1>5, <1>6

(* One plan is undone: its file holds again what it held before.           *)
LEMMA UndoStep ==
  ASSUME PatchIInv, NEW ok \in BOOLEAN, RollBack(ok)
  PROVE  PatchIInv'
<1>1. /\ patching \in PatchStates /\ disk \in [PatchFiles -> Text] /\ target_of' = target_of
      /\ patching.at = "undoing" /\ patching.next \in Nat /\ patching.next > 0
      /\ patching.plans \in Seq(Plans) /\ patching.failed \in DOMAIN patching.plans
      /\ patching.result = "none" /\ patching.undoFailed \in BOOLEAN /\ Undone
      /\ patching.before \in [PatchFiles -> Text]
  BY DEF PatchIInv, PatchTypeOK, PatchStates, CallStages, RollBack
<1> DEFINE p == patching.plans[patching.next]
           failed == patching.undoFailed \/ ~ok
<1>0. patching.next < patching.failed
  BY DEF PatchIInv, CallStages, RollBack
<1>2. failed \in BOOLEAN /\ patching.next - 1 \in Nat
  BY <1>1
<1>3. patching' = [patching EXCEPT !.next = patching.next - 1, !.undoFailed = failed]
  BY <1>1 DEF RollBack, PatchStates
<1>4. failed <=> patching.undoFailed \/ ~ok
  OBVIOUS
<1>5. disk' = IF ok THEN [disk EXCEPT ![p.file] = p.original] ELSE disk
  BY DEF RollBack, Restores
<1> HIDE DEF failed
<1>6. /\ patching' \in PatchStates /\ patching'.next = patching.next - 1
      /\ patching'.undoFailed = failed /\ patching'.at = "undoing"
      /\ patching'.plans = patching.plans /\ patching'.before = patching.before
      /\ patching'.result = "none" /\ patching'.failed = patching.failed
  BY <1>1, <1>2, <1>3 DEF PatchStates
<1>7. PlanInv'
  BY <1>6, PlansAreKept DEF PatchIInv, PlansStay
<1>8. patching.next \in DOMAIN patching.plans
  BY <1>0, <1>1
<1>9. p \in Plans /\ p.file \in PatchFiles /\ p.original \in Text
  <2>1. p \in Plans
    BY <1>1, <1>8
  <2> HIDE DEF p
  <2> QED
    BY <2>1 DEF Plans
<1>10. p.original = patching.before[p.file]
  BY <1>8 DEF PatchIInv, PlanInv
<1> HIDE DEF p
<1>11. disk' \in [PatchFiles -> Text]
  BY <1>1, <1>5, <1>9
<1>12. Undone'
  <2>1. SUFFICES ASSUME ok, ~patching.undoFailed, NEW f \in PatchFiles,
                        f # patching.plans[patching.failed].file
                 PROVE  \/ disk'[f] = patching.before[f]
                        \/ \E i \in DOMAIN patching.plans :
                             i <= patching.next - 1 /\ patching.plans[i].file = f
    BY <1>4, <1>6 DEF Undone
  <2>2. CASE f = p.file
    BY <1>1, <1>5, <1>9, <1>10, <2>1, <2>2
  <2>3. CASE f # p.file
    <3>1. disk'[f] = disk[f]
      BY <1>1, <1>5, <2>1, <2>3
    <3>2. CASE disk[f] = patching.before[f]
      BY <3>1, <3>2
    <3>3. CASE \E i \in DOMAIN patching.plans :
                 i <= patching.next /\ patching.plans[i].file = f
      <4>1. PICK i \in DOMAIN patching.plans : i <= patching.next /\ patching.plans[i].file = f
        BY <3>3
      <4>2. i # patching.next
        BY <2>3, <4>1 DEF p
      <4>3. i <= patching.next - 1
        BY <1>1, <4>1, <4>2
      <4> QED
        BY <4>1, <4>3
    <3> QED
      BY <1>1, <2>1, <3>2, <3>3 DEF Undone
  <2> QED
    BY <2>2, <2>3
<1>13. CallStages'
  <2>1. patching.next - 1 < patching.failed
    BY <1>0, <1>1
  <2> QED
    BY <1>1, <1>6, <1>12, <2>1 DEF CallStages
<1>14. PatchTypeOK'
  BY <1>1, <1>6, <1>11 DEF PatchIInv, PatchTypeOK
<1> QED
  BY <1>7, <1>13, <1>14 DEF PatchIInv

LEMMA ReturnStep ==
  ASSUME PatchIInv, PatchReturns \/ PatchKilled
  PROVE  PatchIInv'
<1>1. patching \in PatchStates /\ disk' = disk /\ target_of' = target_of
  BY DEF PatchIInv, PatchTypeOK, PatchReturns, PatchKilled
<1>2. PICK at \in {"returned", "killed"}, result \in {"none", "ok", "rolled back"} :
        /\ patching' = [patching EXCEPT !.at = at, !.result = result]
        /\ result # "none" => at = "returned"
        /\ result = "ok" => patching.at = "writing" /\ patching.next > Len(patching.plans)
        /\ result = "rolled back" => patching.at = "undoing" /\ patching.next = 0
  <2>1. CASE PatchKilled
    <3>1. patching' = [patching EXCEPT !.at = "killed"] /\ patching.result = "none"
      BY <2>1 DEF PatchKilled, PatchIInv, CallStages
    <3>2. patching' = [patching EXCEPT !.at = "killed", !.result = "none"]
      BY <1>1, <3>1 DEF PatchStates
    <3> QED
      BY <3>2
  <2>2. CASE PatchReturns
    <3>1. CASE /\ patching.at = "writing" /\ patching.next > Len(patching.plans)
               /\ patching' = [patching EXCEPT !.at = "returned", !.result = "ok"]
      BY <3>1
    <3>2. CASE /\ patching.at = "undoing" /\ patching.next = 0
               /\ patching' = [patching EXCEPT !.at = "returned", !.result = "rolled back"]
      BY <3>2
    <3> QED
      BY <2>2, <3>1, <3>2 DEF PatchReturns
  <2> QED
    BY <2>1, <2>2
<1>3. /\ patching' \in PatchStates /\ patching'.at = at /\ patching'.result = result
      /\ patching'.plans = patching.plans /\ patching'.before = patching.before
      /\ patching'.next = patching.next /\ patching'.failed = patching.failed
      /\ patching'.undoFailed = patching.undoFailed
  BY <1>1, <1>2 DEF PatchStates
<1>4. PlanInv'
  BY <1>3, PlansAreKept DEF PatchIInv, PlansStay
<1>5. (Written => Written') /\ (Undone => Undone')
  <2>1. Distinct' <=> Distinct
    BY <1>3 DEF Distinct
  <2>2. Written => Written'
    BY <1>1, <1>3, <2>1 DEF Written
  <2>3. Undone => Undone'
    BY <1>1, <1>3 DEF Undone
  <2> QED
    BY <2>2, <2>3
<1>6. CallStages'
  BY <1>1, <1>2, <1>3, <1>5 DEF PatchIInv, CallStages
<1>7. PatchTypeOK'
  BY <1>1, <1>3 DEF PatchIInv, PatchTypeOK
<1> QED
  BY <1>4, <1>6, <1>7 DEF PatchIInv

LEMMA PatchStep ==
  ASSUME PatchIInv, [PatchNext]_patchVars
  PROVE  PatchIInv'
<1>1. CASE UNCHANGED patchVars
  <2>1. patching' = patching /\ disk' = disk /\ target_of' = target_of
    BY <1>1 DEF patchVars
  <2> QED
    BY <2>1 DEF PatchIInv, PatchTypeOK, PlanInv, CallStages, Written, Undone, Distinct
<1>2. CASE PatchNext
  <2>1. \/ \E cs \in Patches, granted \in BOOLEAN : ApplyPatch(cs, granted)
        \/ \E ok \in BOOLEAN : StageTemporary(ok) \/ UnlinkTarget(ok) \/ Rename(ok)
        \/ \E ok \in BOOLEAN : RollBack(ok)
        \/ PatchReturns \/ PatchKilled
        \/ UNCHANGED patchVars
    BY <1>2 DEF PatchNext, PatchDone
  <2> QED
    BY <1>1, <2>1, ApplyKeeps, WriteStep, UndoStep, ReturnStep
<1> QED
  BY <1>1, <1>2

(* The patch tool (yunxi-plugin-tool-patch): an update replaces the        *)
(* stretches its hunks name and nothing else; a patch on distinct files    *)
(* that succeeds has made exactly its changes, a refused one none, and one *)
(* that is rolled back has put every file back but the one whose own write *)
(* failed, unless an undo failed as well.                                  *)
THEOREM PatchesAreTransactions ==
  PatchInit /\ [][PatchNext]_patchVars => []PatchIsTransactional
<1>1. PatchIInv => PatchIsTransactional
  <2>1. SUFFICES ASSUME PatchIInv PROVE PatchIsTransactional
    OBVIOUS
  <2>2. patching.plans \in Seq(Plans)
    BY <2>1 DEF PatchIInv, PatchTypeOK, PatchStates
  <2>3. \A i \in DOMAIN patching.plans : LET p == patching.plans[i] IN
          p.hunks # <<>> => IsReplacement(p.original, p.hunks, p.content)
    BY <2>1 DEF PatchIInv, PlanInv
  <2>4. ASSUME patching.result = "ok", Distinct, NEW f \in PatchFiles
        PROVE  \/ \E i \in DOMAIN patching.plans :
                    patching.plans[i].file = f /\ disk[f] = patching.plans[i].content
               \/ /\ \A i \in DOMAIN patching.plans : patching.plans[i].file # f
                  /\ disk[f] = patching.before[f]
    <3>1. patching.next > Len(patching.plans) /\ Written /\ patching.next \in Nat
      BY <2>1, <2>4 DEF PatchIInv, PatchTypeOK, PatchStates, CallStages
    <3>2. \A i \in DOMAIN patching.plans : i < patching.next
      BY <2>2, <3>1
    <3> QED
      BY <2>4, <3>1, <3>2 DEF Written
  <2>5. patching.result = "refused" => disk = patching.before
    BY <2>1 DEF PatchIInv, CallStages
  <2>6. ASSUME patching.result = "rolled back", ~patching.undoFailed, NEW f \in PatchFiles,
               f # patching.plans[patching.failed].file
        PROVE  disk[f] = patching.before[f]
    <3>1. patching.next = 0 /\ Undone
      BY <2>1, <2>6 DEF PatchIInv, CallStages
    <3>2. \A i \in DOMAIN patching.plans : ~(i <= 0)
      BY <2>2
    <3> QED
      BY <2>6, <3>1, <3>2 DEF Undone
  <2> QED
    BY <2>3, <2>4, <2>5, <2>6 DEF PatchIsTransactional
<1> QED
  BY <1>1, PatchInitOK, PatchStep, PTL

----------------------------------------------------------------------------
(* The Weixin channel.  The status a Host drives is of its type and legal  *)
(* unless it was rejected, what is stored passes the check under its own   *)
(* key, and what was answered is what is stored.                           *)
WeixinDirections == {"Inbound", "Outbound"}

WeixinMessages == [key : WeixinKeys, content : WeixinContents,
                   direction : WeixinDirections, delivery : DeliveryStates]

Stores == UNION {[K -> WeixinMessages] : K \in SUBSET WeixinKeys}

Channels == [kind : {"plugin", "loopback"}, messages : Stores]

Legal(s) == DeliveryValid(s) \/ s.ack = "Rejected"

StoredLegally ==
  \A key \in DOMAIN channel.messages :
    EnvelopeValid(channel.messages[key]) /\ channel.messages[key].key = key

ToldAsStored ==
  \A a \in told : /\ a.asked.key \in DOMAIN channel.messages
                  /\ a.stored = Identity(channel.messages[a.asked.key])

WeixinIInv ==
  /\ delivery \in DeliveryStates /\ channel \in Channels /\ weixinCalls \in Nat
  /\ Legal(delivery) /\ StoredLegally /\ ToldAsStored

(* What a call on a status may make of it: another status that is legal    *)
(* when the first was, and that keeps what was decided.                    *)
Follows(s, t) == t \in DeliveryStates /\ (Legal(s) => Legal(t)) /\ Decided(s, t)

LEMMA NewDeliveries ==
  /\ NewInbound \in DeliveryStates /\ DeliveryValid(NewInbound)
  /\ NewOutbound \in DeliveryStates /\ DeliveryValid(NewOutbound)
BY WeixinAssumption
   DEF NewInbound, NewOutbound, DeliveryBase, DeliveryStates, DeliveryValid, RetryValid

(* The acknowledgement: it is given once.                                  *)
LEMMA AcknowledgementFollows ==
  ASSUME NEW s \in DeliveryStates, NEW t \in Acknowledge(s) \cup Reject(s)
  PROVE  Follows(s, t)
<1>1. CASE t \in Acknowledge(s)
  <2>1. s.ack = "Pending" /\ t = [s EXCEPT !.ack = "Acknowledged", !.ackReason = {}]
    BY <1>1 DEF Acknowledge, When
  <2>2. /\ t \in DeliveryStates /\ t.ack = "Acknowledged" /\ t.ackReason = {}
        /\ t.state = s.state /\ t.attempt = s.attempt /\ t.max = s.max
        /\ t.cancellation = s.cancellation /\ t.cancelReason = s.cancelReason
        /\ t.backpressure = s.backpressure /\ t.buffered = s.buffered
        /\ t.capacity = s.capacity
    BY <2>1 DEF DeliveryStates
  <2>3. s.attempt \in Nat
    BY DEF DeliveryStates
  <2> QED
    BY <2>1, <2>2, <2>3 DEF Follows, Legal, DeliveryValid, RetryValid, Decided
<1>2. CASE t \in Reject(s)
  <2>1. /\ s.ack = "Pending"
        /\ t = [s EXCEPT !.ack = "Rejected", !.ackReason = {"reason"}, !.state = "Failed"]
    BY <1>2 DEF Reject, When
  <2>2. /\ t \in DeliveryStates /\ t.ack = "Rejected"
        /\ t.attempt = s.attempt /\ t.backpressure = s.backpressure
    BY <2>1 DEF DeliveryStates
  <2>3. s.attempt \in Nat
    BY DEF DeliveryStates
  <2> QED
    BY <2>1, <2>2, <2>3 DEF Follows, Legal, Decided
<1> QED
  BY <1>1, <1>2

(* The delivery itself: an attempt more at most, none given back.          *)
LEMMA AttemptFollows ==
  ASSUME NEW s \in DeliveryStates,
         NEW t \in MarkInFlight(s) \cup MarkAccepted(s) \cup MarkDelivered(s)
                   \cup MarkFailed(s) \cup ScheduleRetry(s)
  PROVE  Follows(s, t)
<1>1. PICK state \in {"Queued", "InFlight", "Accepted", "Delivered", "Failed"}, n \in Nat :
        /\ t = [s EXCEPT !.state = state, !.attempt = n]
        /\ s.state # "Cancelled"
        /\ n = s.attempt \/ (n = s.attempt + 1 /\ s.attempt < s.max)
  <2>1. s.attempt \in Nat /\ s = [s EXCEPT !.attempt = s.attempt]
    BY DEF DeliveryStates
  <2>2. CASE t \in MarkInFlight(s)
    <3>1. s.state = "Queued" /\ s.attempt < s.max
      BY <2>2 DEF MarkInFlight, When
    <3>2. t = [s EXCEPT !.attempt = s.attempt + 1, !.state = "InFlight"]
      BY <2>2 DEF MarkInFlight, When
    <3>3. t = [s EXCEPT !.state = "InFlight", !.attempt = s.attempt + 1]
      BY <3>2 DEF DeliveryStates
    <3>4. s.attempt + 1 \in Nat
      BY <2>1
    <3> WITNESS "InFlight" \in {"Queued", "InFlight", "Accepted", "Delivered", "Failed"},
                s.attempt + 1 \in Nat
    <3> QED
      BY <3>1, <3>3
  <2>3. CASE t \in MarkAccepted(s)
    <3>1. s.state = "InFlight"
      BY <2>3 DEF MarkAccepted, When
    <3>2. t = [s EXCEPT !.state = "Accepted", !.attempt = s.attempt]
      BY <2>1, <2>3 DEF MarkAccepted, When, DeliveryStates
    <3> QED
      BY <2>1, <3>1, <3>2
  <2>4. CASE t \in MarkDelivered(s)
    <3>1. s.state \in {"Accepted", "InFlight"}
      BY <2>4 DEF MarkDelivered, When
    <3>2. t = [s EXCEPT !.state = "Delivered", !.attempt = s.attempt]
      BY <2>1, <2>4 DEF MarkDelivered, When, DeliveryStates
    <3> QED
      BY <2>1, <3>1, <3>2
  <2>5. CASE t \in MarkFailed(s)
    <3>1. s.state \notin {"Delivered", "Cancelled"}
      BY <2>5 DEF MarkFailed, When
    <3>2. t = [s EXCEPT !.state = "Failed", !.attempt = s.attempt]
      BY <2>1, <2>5 DEF MarkFailed, When, DeliveryStates
    <3> QED
      BY <2>1, <3>1, <3>2
  <2>6. CASE t \in ScheduleRetry(s)
    <3>1. s.state = "Failed"
      BY <2>6 DEF ScheduleRetry, When
    <3>2. t = [s EXCEPT !.state = "Queued", !.attempt = s.attempt]
      BY <2>1, <2>6 DEF ScheduleRetry, When, DeliveryStates
    <3> QED
      BY <2>1, <3>1, <3>2
  <2> QED
    BY <2>2, <2>3, <2>4, <2>5, <2>6
<1>2. /\ t \in DeliveryStates /\ t.state = state /\ t.attempt = n
      /\ t.ack = s.ack /\ t.ackReason = s.ackReason /\ t.max = s.max
      /\ t.cancellation = s.cancellation /\ t.cancelReason = s.cancelReason
      /\ t.backpressure = s.backpressure /\ t.buffered = s.buffered
      /\ t.capacity = s.capacity
  BY <1>1 DEF DeliveryStates
<1>3. s.attempt \in Nat /\ s.max \in Nat /\ n >= s.attempt
  BY <1>1 DEF DeliveryStates
<1>4. DeliveryValid(s) => Legal(t)
  <2>1. SUFFICES ASSUME DeliveryValid(s), t.ack # "Rejected" PROVE DeliveryValid(t)
    BY DEF Legal
  <2>2. RetryValid(t)
    BY <1>1, <1>2, <1>3, <2>1 DEF DeliveryValid, RetryValid
  <2> QED
    BY <1>1, <1>2, <2>1, <2>2 DEF DeliveryValid
<1> QED
  BY <1>1, <1>2, <1>3, <1>4 DEF Follows, Legal, Decided

(* The cancellation: it is asked for and then recorded on both sides.      *)
LEMMA CancellationFollows ==
  ASSUME NEW s \in DeliveryStates, NEW t \in RequestCancel(s) \cup MarkCancelled(s)
  PROVE  Follows(s, t)
<1>0. s.attempt \in Nat
  BY DEF DeliveryStates
<1>1. CASE t \in RequestCancel(s)
  <2>1. /\ s.cancellation # "Cancelled"
        /\ t = [s EXCEPT !.cancellation = "Requested", !.cancelReason = {"reason"}]
    BY <1>1 DEF RequestCancel, When
  <2>2. /\ t \in DeliveryStates /\ t.cancellation = "Requested" /\ t.cancelReason = {"reason"}
        /\ t.state = s.state /\ t.attempt = s.attempt /\ t.max = s.max
        /\ t.ack = s.ack /\ t.ackReason = s.ackReason
        /\ t.backpressure = s.backpressure /\ t.buffered = s.buffered
        /\ t.capacity = s.capacity
    BY <2>1 DEF DeliveryStates
  <2> QED
    BY <1>0, <2>1, <2>2 DEF Follows, Legal, DeliveryValid, RetryValid, Decided
<1>2. CASE t \in MarkCancelled(s)
  <2>1. CASE s.cancellation = "Cancelled"
    BY <1>0, <1>2, <2>1 DEF MarkCancelled, Follows, Decided
  <2>2. CASE s.cancellation # "Cancelled"
    <3>1. /\ s.cancellation = "Requested"
          /\ t = [s EXCEPT !.cancellation = "Cancelled", !.state = "Cancelled"]
      BY <1>2, <2>2 DEF MarkCancelled, When
    <3>2. /\ t \in DeliveryStates /\ t.cancellation = "Cancelled" /\ t.state = "Cancelled"
          /\ t.cancelReason = s.cancelReason /\ t.attempt = s.attempt /\ t.max = s.max
          /\ t.ack = s.ack /\ t.ackReason = s.ackReason
          /\ t.backpressure = s.backpressure /\ t.buffered = s.buffered
          /\ t.capacity = s.capacity
      BY <3>1 DEF DeliveryStates
    <3> QED
      BY <1>0, <3>1, <3>2 DEF Follows, Legal, DeliveryValid, RetryValid, Decided
  <2> QED
    BY <2>1, <2>2
<1> QED
  BY <1>1, <1>2

(* The buffer: what it holds is within its capacity, and closing is final. *)
LEMMA BackpressureFollows ==
  ASSUME NEW s \in DeliveryStates, NEW n \in Nat,
         NEW t \in Pause(s) \cup Resume(s) \cup StartDraining(s) \cup CloseDelivery(s)
                   \cup SetBuffered(s, n)
  PROVE  Follows(s, t)
<1>1. PICK pressure \in {"Ready", "Paused", "Draining", "Closed"}, k \in Nat :
        /\ t = [s EXCEPT !.backpressure = pressure, !.buffered = k]
        /\ s.backpressure = "Closed" => pressure = "Closed"
        /\ k = s.buffered \/ k <= s.capacity
  <2>1. s.buffered \in Nat /\ s.backpressure \in {"Ready", "Paused", "Draining", "Closed"}
    BY DEF DeliveryStates
  <2>2. CASE t \in SetBuffered(s, n)
    <3>1. /\ n <= s.capacity
          /\ t = [s EXCEPT !.buffered = n,
                    !.backpressure = IF n = 0 /\ s.backpressure = "Draining"
                                     THEN "Ready" ELSE s.backpressure]
      BY <2>2 DEF SetBuffered, When
    <3> QED
      BY <2>1, <3>1 DEF DeliveryStates
  <2>3. CASE t \in Pause(s)
    BY <2>1, <2>3 DEF Pause, When, DeliveryStates
  <2>4. CASE t \in Resume(s)
    BY <2>1, <2>4 DEF Resume, When, DeliveryStates
  <2>5. CASE t \in StartDraining(s)
    BY <2>1, <2>5 DEF StartDraining, When, DeliveryStates
  <2>6. CASE t \in CloseDelivery(s)
    BY <2>1, <2>6 DEF CloseDelivery, DeliveryStates
  <2> QED
    BY <2>2, <2>3, <2>4, <2>5, <2>6
<1>2. /\ t \in DeliveryStates /\ t.state = s.state /\ t.attempt = s.attempt
      /\ t.ack = s.ack /\ t.ackReason = s.ackReason /\ t.max = s.max
      /\ t.cancellation = s.cancellation /\ t.cancelReason = s.cancelReason
      /\ t.backpressure = pressure /\ t.buffered = k /\ t.capacity = s.capacity
  BY <1>1 DEF DeliveryStates
<1>3. s.attempt \in Nat
  BY DEF DeliveryStates
<1> QED
  BY <1>1, <1>2, <1>3 DEF Follows, Legal, DeliveryValid, RetryValid, Decided

(* What the channel does to a stored status: it follows, and a status that *)
(* passes its check is not taken back from its cancellation.               *)
LEMMA OutcomeFollows ==
  ASSUME NEW s \in DeliveryStates, NEW call \in ChannelCalls, NEW t \in Outcomes(call, s)
  PROVE  /\ Follows(s, t)
         /\ DeliveryValid(s) /\ s.state = "Cancelled" => t.state = "Cancelled"
<1>1. CASE call = "acknowledge"
  <2>1. t \in Acknowledge(s)
    BY <1>1 DEF Outcomes
  <2>2. t.state = s.state
    BY <2>1 DEF Acknowledge, When, DeliveryStates
  <2> QED
    BY <2>1, <2>2, AcknowledgementFollows
<1>2. CASE call = "fail"
  <2>1. t \in MarkFailed(s) /\ s.state # "Cancelled"
    BY <1>2 DEF Outcomes, MarkFailed, When
  <2> QED
    BY <2>1, AttemptFollows
<1>3. CASE call = "cancel"
  <2>1. PICK u \in RequestCancel(s) : t \in MarkCancelled(u)
    BY <1>3 DEF Outcomes, Cancelled
  <2>2. Follows(s, u)
    BY <2>1, CancellationFollows
  <2>3. u \in DeliveryStates
    BY <2>2 DEF Follows
  <2>4. Follows(u, t)
    BY <2>1, <2>3, CancellationFollows
  <2>5. Follows(s, t)
    <3>1. s.attempt \in Nat /\ u.attempt \in Nat /\ t.attempt \in Nat
      BY <2>3, <2>4 DEF Follows, DeliveryStates
    <3>2. u.state = s.state
      BY <2>1 DEF RequestCancel, When, DeliveryStates
    <3> QED
      BY <2>2, <2>4, <3>1, <3>2 DEF Follows, Decided
  <2>6. s.cancellation # "Cancelled"
    BY <2>1 DEF RequestCancel, When
  <2> QED
    BY <2>5, <2>6 DEF DeliveryValid
<1> QED
  BY <1>1, <1>2, <1>3 DEF ChannelCalls

(* An unmapped field of a record changes nothing of the others.            *)
LEMMA AdoptedIsChecked ==
  ASSUME NEW m \in WeixinMessages, NEW s \in DeliveryStates, NEW n \in Adopt(m, s)
  PROVE  /\ n \in WeixinMessages /\ n.delivery = s /\ n.key = m.key
         /\ Identity(n) = Identity(m) /\ EnvelopeValid(n)
<1>1. n = [m EXCEPT !.delivery = s] /\ EnvelopeValid(n)
  BY DEF Adopt, When
<1>2. n \in WeixinMessages /\ n.delivery = s /\ n.key = m.key /\ n.content = m.content
      /\ n.direction = m.direction
  BY <1>1 DEF WeixinMessages
<1> QED
  BY <1>1, <1>2 DEF Identity

(* Nothing that was decided is revised: what a step of the property says.  *)
KeepsDecided ==
  /\ weixinCalls' = 0 => Decided(delivery, delivery')
  /\ \A key \in DOMAIN channel.messages \cap DOMAIN channel'.messages :
       /\ Decided(channel.messages[key].delivery, channel'.messages[key].delivery)
       /\ Identity(channel.messages[key]) = Identity(channel'.messages[key])
       /\ channel.messages[key].delivery.state = "Cancelled" =>
            channel'.messages[key].delivery.state = "Cancelled"

LEMMA StoreType ==
  ASSUME channel \in Channels
  PROVE  /\ channel.messages \in [DOMAIN channel.messages -> WeixinMessages]
         /\ DOMAIN channel.messages \in SUBSET WeixinKeys
         /\ \A key \in DOMAIN channel.messages :
              /\ channel.messages[key] \in WeixinMessages
              /\ channel.messages[key].delivery \in DeliveryStates
<1>1. channel.messages \in Stores
  BY DEF Channels
<1>2. PICK K \in SUBSET WeixinKeys : channel.messages \in [K -> WeixinMessages]
  BY <1>1 DEF Stores
<1>3. DOMAIN channel.messages = K
  BY <1>2
<1>4. \A key \in K : channel.messages[key] \in WeixinMessages
  BY <1>2
<1> QED
  BY <1>2, <1>3, <1>4 DEF WeixinMessages

LEMMA WithMessages ==
  ASSUME channel \in Channels, NEW K \in SUBSET WeixinKeys, NEW f \in [K -> WeixinMessages],
         channel' = [channel EXCEPT !.messages = f]
  PROVE  channel' \in Channels /\ channel'.messages = f
<1>1. f \in Stores
  BY DEF Stores
<1> QED
  BY <1>1 DEF Channels

(* A status that is not touched has not been revised.                      *)
LEMMA DecidedIsReflexive ==
  ASSUME NEW s \in DeliveryStates
  PROVE  Decided(s, s)
BY DEF Decided, DeliveryStates

LEMMA DriveKeeps ==
  ASSUME WeixinIInv, NEW s, Follows(delivery, s), delivery' = s,
         UNCHANGED <<channel, told, weixinCalls>>
  PROVE  WeixinIInv' /\ KeepsDecided
<1>1. delivery' \in DeliveryStates /\ Legal(delivery)' /\ Decided(delivery, delivery')
  BY DEF WeixinIInv, Follows, Legal
<1>2. \A key \in DOMAIN channel.messages :
        Decided(channel.messages[key].delivery, channel.messages[key].delivery)
  BY StoreType, DecidedIsReflexive DEF WeixinIInv
<1>3. StoredLegally' /\ ToldAsStored'
  BY DEF WeixinIInv, StoredLegally, ToldAsStored
<1> QED
  BY <1>1, <1>2, <1>3 DEF WeixinIInv, KeepsDecided

(* A message is stored under its key at most once, and an answer repeats   *)
(* what is stored.                                                         *)
LEMMA RegisterKeeps ==
  ASSUME WeixinIInv, NEW m \in WeixinMessages, NEW direction, RegisterMessage(m, direction)
  PROVE  WeixinIInv' /\ KeepsDecided
<1> DEFINE stored == channel.messages
<1>1. delivery' = NewOutbound /\ weixinCalls' = weixinCalls + 1
  BY DEF RegisterMessage, WeixinCall
<1>2. delivery' \in DeliveryStates /\ Legal(delivery)' /\ weixinCalls' \in Nat /\ weixinCalls' # 0
  BY <1>1, NewDeliveries DEF WeixinIInv, Legal
<1>3. \A key \in DOMAIN stored :
        /\ Decided(stored[key].delivery, stored[key].delivery)
        /\ EnvelopeValid(stored[key]) /\ stored[key].key = key
  BY StoreType, DecidedIsReflexive DEF WeixinIInv, StoredLegally
<1> DEFINE answer == [asked |-> Identity(m), stored |-> Identity(m)]
<1>4. CASE channel' = channel /\ (told' = told \/ (/\ m.key \in DOMAIN stored
                                                  /\ Identity(stored[m.key]) = Identity(m)
                                                  /\ told' = told \cup {answer}))
  <2>1. answer.asked.key = m.key /\ answer.stored = Identity(m)
    BY DEF Identity
  <2>2. \A a \in told' : a.asked.key \in DOMAIN stored /\ a.stored = Identity(stored[a.asked.key])
    BY <1>4, <2>1 DEF WeixinIInv, ToldAsStored
  <2> QED
    BY <1>2, <1>3, <1>4, <2>2 DEF WeixinIInv, KeepsDecided, StoredLegally, ToldAsStored
<1>5. CASE /\ m.key \notin DOMAIN stored /\ EnvelopeValid(m)
           /\ channel' = [channel EXCEPT !.messages =
                [key \in DOMAIN stored \cup {m.key} |-> IF key = m.key THEN m ELSE stored[key]]]
           /\ told' = told \cup {answer}
  <2> DEFINE K == DOMAIN stored \cup {m.key}
             f == [key \in K |-> IF key = m.key THEN m ELSE stored[key]]
  <2>1. K \in SUBSET WeixinKeys /\ f \in [K -> WeixinMessages]
    BY StoreType DEF WeixinIInv, WeixinMessages
  <2>2. DOMAIN f = K /\ f[m.key] = m /\ \A key \in DOMAIN stored : f[key] = stored[key]
    BY <1>5
  <2> HIDE DEF f
  <2>3. channel' \in Channels /\ channel'.messages = f
    BY <1>5, <2>1, WithMessages DEF WeixinIInv, f
  <2>4. StoredLegally'
    BY <1>3, <1>5, <2>2, <2>3 DEF StoredLegally
  <2>5. answer.asked.key = m.key /\ answer.stored = Identity(m)
    BY DEF Identity
  <2>6. ToldAsStored'
    BY <1>5, <2>2, <2>3, <2>5 DEF WeixinIInv, ToldAsStored
  <2> QED
    BY <1>2, <1>3, <2>2, <2>3, <2>4, <2>6 DEF WeixinIInv, KeepsDecided
<1> QED
  BY <1>4, <1>5 DEF RegisterMessage

LEMMA MutateKeeps ==
  ASSUME WeixinIInv, NEW key \in WeixinKeys, NEW call \in ChannelCalls, Mutate(key, call)
  PROVE  WeixinIInv' /\ KeepsDecided
<1> DEFINE stored == channel.messages
           m == stored[key]
           changed == UNION {Adopt(m, s) : s \in Outcomes(call, m.delivery)}
<1>1. delivery' = delivery /\ told' = told /\ weixinCalls' \in Nat
  BY DEF WeixinIInv, Mutate, WeixinCall
<1>2. Legal(delivery)' /\ (weixinCalls' = 0 => Decided(delivery, delivery'))
  BY <1>1, DecidedIsReflexive DEF WeixinIInv, Legal
<1>3. \A k \in DOMAIN stored : Decided(stored[k].delivery, stored[k].delivery)
  BY StoreType, DecidedIsReflexive DEF WeixinIInv
<1>4. CASE channel' = channel
  BY <1>1, <1>2, <1>3, <1>4 DEF WeixinIInv, KeepsDecided, StoredLegally, ToldAsStored
<1>5. CASE /\ key \in DOMAIN stored /\ changed # {}
           /\ channel' = [channel EXCEPT !.messages[key] = CHOOSE n \in changed : TRUE]
  <2>1. PICK n \in changed : channel' = [channel EXCEPT !.messages[key] = n]
    BY <1>5
  <2>2. PICK s \in Outcomes(call, m.delivery) : n \in Adopt(m, s)
    BY <2>1
  <2>3. m \in WeixinMessages /\ m.delivery \in DeliveryStates /\ EnvelopeValid(m) /\ m.key = key
    BY <1>5, StoreType DEF WeixinIInv, StoredLegally
  <2>4. /\ Follows(m.delivery, s)
        /\ DeliveryValid(m.delivery) /\ m.delivery.state = "Cancelled" => s.state = "Cancelled"
    BY <2>2, <2>3, OutcomeFollows
  <2>5. s \in DeliveryStates /\ Decided(m.delivery, s)
    BY <2>4 DEF Follows
  <2>6. /\ n \in WeixinMessages /\ n.delivery = s /\ n.key = key
        /\ Identity(n) = Identity(m) /\ EnvelopeValid(n)
    BY <2>2, <2>3, <2>5, AdoptedIsChecked
  <2>7. m.delivery.state = "Cancelled" => n.delivery.state = "Cancelled"
    BY <2>3, <2>4, <2>6 DEF EnvelopeValid
  <2> DEFINE f == [stored EXCEPT ![key] = n]
  <2>8. /\ DOMAIN stored \in SUBSET WeixinKeys /\ f \in [DOMAIN stored -> WeixinMessages]
        /\ f[key] = n /\ \A k \in DOMAIN stored : k # key => f[k] = stored[k]
    BY <1>5, <2>6, StoreType DEF WeixinIInv
  <2>9. channel' = [channel EXCEPT !.messages = f]
    BY <2>1
  <2> HIDE DEF f
  <2>10. channel' \in Channels /\ channel'.messages = f /\ DOMAIN f = DOMAIN stored
    BY <2>8, <2>9, WithMessages DEF WeixinIInv
  <2> HIDE DEF changed
  <2>11. StoredLegally'
    BY <2>6, <2>8, <2>10 DEF WeixinIInv, StoredLegally
  <2>12. \A k \in DOMAIN stored : Identity(f[k]) = Identity(stored[k])
    BY <2>6, <2>8
  <2>13. ToldAsStored'
    BY <1>1, <2>10, <2>12 DEF WeixinIInv, ToldAsStored
  <2>14. \A k \in DOMAIN stored :
           /\ Decided(stored[k].delivery, f[k].delivery)
           /\ stored[k].delivery.state = "Cancelled" => f[k].delivery.state = "Cancelled"
    BY <1>3, <2>5, <2>6, <2>7, <2>8
  <2> QED
    BY <1>1, <1>2, <2>10, <2>11, <2>12, <2>13, <2>14 DEF WeixinIInv, KeepsDecided
<1> QED
  BY <1>4, <1>5 DEF Mutate

LEMMA RestartKeeps ==
  ASSUME WeixinIInv, RestartChannel
  PROVE  WeixinIInv' /\ KeepsDecided
<1>1. /\ delivery' = delivery /\ told' = {} /\ weixinCalls' \in Nat
      /\ channel' = [channel EXCEPT !.messages = <<>>]
  BY DEF WeixinIInv, RestartChannel, WeixinCall
<1>2. <<>> \in [{} -> WeixinMessages] /\ {} \in SUBSET WeixinKeys
  OBVIOUS
<1>3. channel' \in Channels /\ channel'.messages = <<>> /\ DOMAIN channel'.messages = {}
  <2>1. channel' \in Channels /\ channel'.messages = <<>>
    BY <1>1, <1>2, WithMessages DEF WeixinIInv
  <2> QED
    BY <2>1
<1>4. Legal(delivery)' /\ Decided(delivery, delivery')
  BY <1>1, DecidedIsReflexive DEF WeixinIInv, Legal
<1> QED
  BY <1>1, <1>3, <1>4 DEF WeixinIInv, KeepsDecided, StoredLegally, ToldAsStored

LEMMA WeixinStep ==
  ASSUME WeixinIInv, WeixinNext
  PROVE  WeixinIInv' /\ KeepsDecided
<1>0. delivery \in DeliveryStates
  BY DEF WeixinIInv
<1>1. ASSUME NEW results, Drive(results), \A s \in results : Follows(delivery, s)
      PROVE  WeixinIInv' /\ KeepsDecided
  <2>1. PICK s \in results : delivery' = s /\ UNCHANGED <<channel, told, weixinCalls>>
    BY <1>1 DEF Drive
  <2> QED
    BY <1>1, <2>1, DriveKeeps
<1>2. CASE Drive(Acknowledge(delivery)) \/ Drive(Reject(delivery))
  BY <1>0, <1>1, <1>2, AcknowledgementFollows
<1>3. CASE \/ Drive(MarkInFlight(delivery)) \/ Drive(MarkAccepted(delivery))
           \/ Drive(MarkDelivered(delivery)) \/ Drive(MarkFailed(delivery))
           \/ Drive(ScheduleRetry(delivery))
  BY <1>0, <1>1, <1>3, AttemptFollows
<1>4. CASE Drive(RequestCancel(delivery)) \/ Drive(MarkCancelled(delivery))
  BY <1>0, <1>1, <1>4, CancellationFollows
<1>5. CASE \/ Drive(Pause(delivery)) \/ Drive(Resume(delivery))
           \/ Drive(StartDraining(delivery)) \/ Drive(CloseDelivery(delivery))
  <2>1. 0 \in Nat
    OBVIOUS
  <2> QED
    BY <1>0, <1>1, <1>5, <2>1, BackpressureFollows
<1>6. ASSUME NEW n \in 0..(MAX_BUFFER_CAPACITY_BYTES + 1), Drive(SetBuffered(delivery, n))
      PROVE  WeixinIInv' /\ KeepsDecided
  <2>1. n \in Nat
    BY WeixinAssumption
  <2> QED
    BY <1>0, <1>1, <1>6, <2>1, BackpressureFollows
<1>7. ASSUME NEW key \in WeixinKeys, NEW c \in WeixinContents,
             NEW d \in {"Inbound", "Outbound"}, NEW direction \in {"Inbound", "Outbound"},
             NEW s \in WireStatuses \cup {delivery},
             RegisterMessage(WeixinMessage(key, c, d, s), direction)
      PROVE  WeixinIInv' /\ KeepsDecided
  <2>1. s \in DeliveryStates
    BY <1>0, WeixinAssumption
  <2>2. WeixinMessage(key, c, d, s) \in WeixinMessages
    BY <2>1 DEF WeixinMessage, WeixinMessages, WeixinDirections
  <2> QED
    BY <1>7, <2>2, RegisterKeeps
<1>8. CASE \E key \in WeixinKeys, call \in ChannelCalls : Mutate(key, call)
  BY <1>8, MutateKeeps
<1>9. CASE RestartChannel
  BY <1>9, RestartKeeps
<1> QED
  BY <1>2, <1>3, <1>4, <1>5, <1>6, <1>7, <1>8, <1>9 DEF WeixinNext

LEMMA WeixinStutter ==
  ASSUME WeixinIInv, UNCHANGED weixinVars
  PROVE  WeixinIInv'
BY DEF weixinVars, WeixinIInv, Legal, StoredLegally, ToldAsStored

LEMMA WeixinInitOK == WeixinInit => WeixinIInv
<1> SUFFICES ASSUME WeixinInit PROVE WeixinIInv
  OBVIOUS
<1>1. <<>> \in [{} -> WeixinMessages] /\ {} \in SUBSET WeixinKeys
  OBVIOUS
<1>2. <<>> \in Stores
  BY <1>1 DEF Stores
<1>3. channel \in Channels /\ channel.messages = <<>> /\ told = {} /\ weixinCalls = 0
  BY <1>2 DEF WeixinInit, Channels
<1>4. delivery \in DeliveryStates /\ Legal(delivery)
  BY NewDeliveries DEF WeixinInit, Legal
<1> QED
  BY <1>3, <1>4 DEF WeixinIInv, StoredLegally, ToldAsStored

(* The Weixin channel (yunxi-plugin-weixin, yunxi-protocol): whatever a    *)
(* Host calls on a status, and in whatever order, it passes its own check  *)
(* unless it was rejected; all that is stored passes it; two answers for   *)
(* one key name one message; and no attempt, acknowledgement, recorded     *)
(* cancellation, closing or message under a key is ever revised.           *)
THEOREM DeliveriesStaySound ==
  WeixinInit /\ [][WeixinNext]_weixinVars => DeliveryIsSound
<1>1. WeixinIInv => DeliveryStaysLegal
  <2>1. SUFFICES ASSUME WeixinIInv PROVE DeliveryStaysLegal
    OBVIOUS
  <2>2. Legal(delivery) /\ \A key \in DOMAIN channel.messages : EnvelopeValid(channel.messages[key])
    BY <2>1 DEF WeixinIInv, StoredLegally
  <2>3. \A a, b \in told : a.asked.key = b.asked.key => a.stored = b.stored
    BY <2>1 DEF WeixinIInv, ToldAsStored
  <2> QED
    BY <2>2, <2>3 DEF DeliveryStaysLegal, Legal
<1>2. WeixinIInv /\ [WeixinNext]_weixinVars => WeixinIInv'
  BY WeixinStep, WeixinStutter
<1>3. WeixinIInv /\ [WeixinNext]_weixinVars => [KeepsDecided]_weixinVars
  BY WeixinStep
<1>4. WeixinInit /\ [][WeixinNext]_weixinVars => []DeliveryStaysLegal
  BY <1>1, <1>2, WeixinInitOK, PTL
<1>5. WeixinInit /\ [][WeixinNext]_weixinVars => DeliveryIsDecidedOnce
  <2>1. WeixinInit /\ [][WeixinNext]_weixinVars => [][KeepsDecided]_weixinVars
    BY <1>2, <1>3, WeixinInitOK, PTL
  <2> QED
    BY <2>1 DEF DeliveryIsDecidedOnce, KeepsDecided
<1> QED
  BY <1>4, <1>5 DEF DeliveryIsSound

----------------------------------------------------------------------------
(* Walks: what holds at the start and from each place to the next holds    *)
(* everywhere, and a walk that is defined step by step exists.             *)
LEMMA RangeInduction ==
  ASSUME NEW N \in Nat, NEW P, 0 \in P, \A n \in 1..N : n - 1 \in P => n \in P
  PROVE  \A n \in 0..N : n \in P
<1> DEFINE Missing == {n \in 0..N : n \notin P}
<1>1. SUFFICES ASSUME Missing # {} PROVE FALSE
  OBVIOUS
<1>2. PICK n \in Missing : \A m \in Missing : n <= m
  <2>1. Missing \in SUBSET Nat
    OBVIOUS
  <2> HIDE DEF Missing
  <2> QED
    BY <1>1, <2>1, LeastNumber
<1>3. n \in 1..N /\ n - 1 \in 0..N /\ ~(n <= n - 1)
  <2>1. n \in 0..N /\ n # 0
    OBVIOUS
  <2> QED
    BY <2>1
<1>4. n - 1 \notin Missing
  <2> HIDE DEF Missing
  <2> QED
    BY <1>2, <1>3
<1> QED
  BY <1>3, <1>4

IsWalk(f, N, S, first, step) ==
  /\ f \in [0..N -> S] /\ f[0] = first
  /\ \A n \in 1..N : f[n] = step[n][f[n - 1]]

LEMMA WalkExists ==
  ASSUME NEW N \in Nat, NEW S, NEW first \in S, NEW step \in [1..N -> [S -> S]]
  PROVE  \E f : IsWalk(f, N, S, first, step)
<1> DEFINE P == {k \in 0..N : \E f : IsWalk(f, k, S, first, step)}
<1>1. 0 \in P
  <2> DEFINE f == [n \in 0..0 |-> first]
  <2>1. 0..0 = {0} /\ 1..0 = {} /\ f[0] = first
    OBVIOUS
  <2>2. IsWalk(f, 0, S, first, step)
    BY <2>1 DEF IsWalk
  <2> HIDE DEF f
  <2> QED
    BY <2>2
<1>2. ASSUME NEW k \in 1..N, k - 1 \in P PROVE k \in P
  <2>1. PICK f : IsWalk(f, k - 1, S, first, step)
    BY <1>2
  <2> DEFINE g == [n \in 0..k |-> IF n = k THEN step[k][f[k - 1]] ELSE f[n]]
  <2>2. k - 1 \in 0..(k - 1) /\ f[k - 1] \in S /\ step[k][f[k - 1]] \in S
    BY <2>1 DEF IsWalk
  <2>3. g \in [0..k -> S]
    <3>1. \A n \in 0..k : n # k => n \in 0..(k - 1)
      OBVIOUS
    <3> QED
      BY <2>1, <2>2, <3>1 DEF IsWalk
  <2>4. g[k] = step[k][f[k - 1]] /\ \A n \in 0..(k - 1) : g[n] = f[n]
    <3>1. \A n \in 0..(k - 1) : n \in 0..k /\ n # k
      OBVIOUS
    <3> QED
      BY <3>1
  <2> HIDE DEF g
  <2>5. IsWalk(g, k, S, first, step)
    <3>1. g[0] = first
      BY <2>1, <2>4 DEF IsWalk
    <3>2. ASSUME NEW n \in 1..k PROVE g[n] = step[n][g[n - 1]]
      <4>1. n - 1 \in 0..(k - 1) /\ g[n - 1] = f[n - 1]
        BY <2>4
      <4>2. CASE n = k
        BY <2>4, <4>1, <4>2
      <4>3. CASE n # k
        <5>1. n \in 1..(k - 1) /\ n \in 0..(k - 1)
          BY <4>3
        <5> QED
          BY <2>1, <2>4, <4>1, <5>1 DEF IsWalk
      <4> QED
        BY <4>2, <4>3
    <3> QED
      BY <2>3, <3>1, <3>2 DEF IsWalk
  <2> QED
    BY <2>5
<1>3. N \in P
  <2> HIDE DEF P
  <2>1. \A n \in 0..N : n \in P
    BY <1>1, <1>2, RangeInduction
  <2> QED
    BY <2>1
<1> QED
  BY <1>3

(* A sum is taken from the front, and grows by what is appended.           *)
LEMMA SumSteps ==
  ASSUME NEW s \in Seq(Nat)
  PROVE  \E f \in [0..Len(s) -> Nat] :
           /\ f[0] = 0 /\ \A n \in 1..Len(s) : f[n] = f[n - 1] + s[n]
           /\ SumOf(s) = f[Len(s)]
<1> DEFINE N == Len(s)
           step == [n \in 1..N |-> [v \in Nat |-> v + s[n]]]
           Sums(f) == f = [n \in 0..N |-> IF n = 0 THEN 0 ELSE f[n - 1] + s[n]]
           sum == CHOOSE f : Sums(f)
<1>1. N \in Nat /\ (\A n \in 1..N : s[n] \in Nat) /\ 0 \in Nat
  OBVIOUS
<1>0. SumOf(s) = (CHOOSE f : f = [n \in 0..N |-> IF n = 0 THEN 0 ELSE f[n - 1] + s[n]])[N]
  BY DEF SumOf
<1> HIDE DEF N
<1>2. step \in [1..N -> [Nat -> Nat]]
  BY <1>1
<1>3. \A v \in Nat, n \in 1..N : step[n][v] = v + s[n]
  OBVIOUS
<1> HIDE DEF step
<1>4. PICK f : IsWalk(f, N, Nat, 0, step)
  <2>1. N \in Nat
    BY <1>1
  <2>2. 0 \in Nat
    BY <1>1
  <2> QED
    BY <1>2, <2>1, <2>2, WalkExists, Zenon
<1>5. \A n \in 1..N : f[n - 1] \in Nat /\ f[n] = f[n - 1] + s[n]
  <2>1. \A n \in 1..N : n - 1 \in 0..N
    BY <1>1
  <2> QED
    BY <1>3, <1>4, <2>1 DEF IsWalk
<1>6. Sums(f)
  <2>1. \A n \in 0..N : n # 0 => n \in 1..N
    BY <1>1
  <2>2. \A n \in 0..N : f[n] = IF n = 0 THEN 0 ELSE f[n - 1] + s[n]
    BY <1>4, <1>5, <2>1 DEF IsWalk
  <2> QED
    BY <1>4, <2>2 DEF IsWalk
<1>7. Sums(sum) /\ SumOf(s) = sum[N]
  <2>1. SumOf(s) = sum[N]
    BY <1>0
  <2> QED
    BY <1>6, <2>1
<1> HIDE DEF sum
<1>8. DOMAIN sum = 0..N /\ sum[0] = 0 /\ \A n \in 1..N : sum[n] = sum[n - 1] + s[n]
  <2>1. 0 \in 0..N /\ \A n \in 1..N : n \in 0..N /\ n # 0
    BY <1>1
  <2> QED
    BY <1>7, <2>1
<1>9. \A n \in 0..N : sum[n] = f[n]
  <2> DEFINE P == {n \in 0..N : sum[n] = f[n]}
  <2>1. 0 \in P
    BY <1>1, <1>4, <1>8 DEF IsWalk
  <2>2. ASSUME NEW n \in 1..N, n - 1 \in P PROVE n \in P
    BY <1>5, <1>8, <2>2
  <2> HIDE DEF P
  <2>3. \A n \in 0..N : n \in P
    BY <1>1, <2>1, <2>2, RangeInduction
  <2> QED
    BY <2>3 DEF P
<1>10. f[0] = 0 /\ SumOf(s) = f[N]
  BY <1>1, <1>4, <1>7, <1>9 DEF IsWalk
<1> QED
  BY <1>4, <1>5, <1>10 DEF N, IsWalk

LEMMA SumOfNothing == SumOf(<<>>) = 0
<1>1. <<>> \in Seq(Nat)
  OBVIOUS
<1>2. PICK f \in [0..Len(<<>>) -> Nat] : f[0] = 0 /\ SumOf(<<>>) = f[Len(<<>>)]
  BY <1>1, SumSteps
<1> QED
  BY <1>2

LEMMA SumAppends ==
  ASSUME NEW s \in Seq(Nat), NEW x \in Nat
  PROVE  SumOf(Append(s, x)) = SumOf(s) + x /\ SumOf(s) \in Nat
<1> DEFINE N == Len(s)
           t == Append(s, x)
<1>1. t \in Seq(Nat) /\ Len(t) = N + 1 /\ t[N + 1] = x /\ N \in Nat
      /\ \A n \in 1..N : t[n] = s[n]
  OBVIOUS
<1> HIDE DEF t
<1>2. PICK f \in [0..N -> Nat] : /\ f[0] = 0 /\ \A n \in 1..N : f[n] = f[n - 1] + s[n]
                                 /\ SumOf(s) = f[N]
  BY SumSteps
<1>3. PICK g \in [0..(N + 1) -> Nat] :
        /\ g[0] = 0 /\ \A n \in 1..(N + 1) : g[n] = g[n - 1] + t[n]
        /\ SumOf(t) = g[N + 1]
  BY <1>1, SumSteps
<1>4. \A n \in 0..N : g[n] = f[n]
  <2> DEFINE P == {n \in 0..N : g[n] = f[n]}
  <2>1. 0 \in P
    BY <1>1, <1>2, <1>3
  <2>2. ASSUME NEW n \in 1..N, n - 1 \in P PROVE n \in P
    BY <1>1, <1>2, <1>3, <2>2
  <2> HIDE DEF P
  <2>3. \A n \in 0..N : n \in P
    BY <1>1, <2>1, <2>2, RangeInduction
  <2> QED
    BY <2>3 DEF P
<1>5. g[N + 1] = g[N] + x /\ f[N] \in Nat /\ g[N] = f[N]
  <2>1. N + 1 \in 1..(N + 1) /\ N \in 0..N /\ (N + 1) - 1 = N
    BY <1>1
  <2>2. g[N + 1] = g[(N + 1) - 1] + t[N + 1]
    BY <1>3, <2>1
  <2>3. f[N] \in Nat /\ g[N] = f[N]
    BY <1>2, <1>4, <2>1
  <2> QED
    BY <1>1, <2>1, <2>2, <2>3
<1> QED
  BY <1>2, <1>3, <1>5 DEF t

----------------------------------------------------------------------------
(* The Skills plugin.  A walk over the slots has listed, after n of them,  *)
(* Skills of these slots only, each the first of its id, and all of them   *)
(* unless it says that it is not complete; an id that was seen belongs to  *)
(* a usable slot, and until the list is full every such id was seen.       *)
SkillRecords == [id : STRING, text : Seq(STRING), tools : Seq(STRING)]

Snapshots == [skills : Seq(SkillRecords), warnings : Nat, truncated : BOOLEAN,
              seen : SUBSET STRING, of : Seq(Entries)]

Listable(files, slot) == Usable(files, slot) /\ FirstOfId(files, slot)

SkillOf(files, slot) == Skill(SlotIds[slot], files[slot])

ListedAreFound(s, n) ==
  \A i \in DOMAIN s.skills :
    \E x \in 1..n : Listable(s.of, x) /\ s.skills[i] = SkillOf(s.of, x)

FoundAreListed(s, n) ==
  s.truncated \/ \A x \in 1..n : Listable(s.of, x) =>
                   \E i \in DOMAIN s.skills : s.skills[i] = SkillOf(s.of, x)

SeenAreUsable(s, n) ==
  /\ Len(s.skills) < MAX_SKILL_METADATA =>
       \A x \in 1..n : Usable(s.of, x) => SlotIds[x] \in s.seen
  /\ \A id \in s.seen : \E x \in 1..n : Usable(s.of, x) /\ SlotIds[x] = id
  /\ \A i \in DOMAIN s.skills : s.skills[i].id \in s.seen

WalkedTo(s, n) ==
  ListedAreFound(s, n) /\ FoundAreListed(s, n) /\ SeenAreUsable(s, n) /\ ListValid(s)

SnapshotInv(s) ==
  s \in Snapshots /\ Len(s.of) <= Len(SlotIds) /\ WalkedTo(s, Len(s.of))

LEMMA SplitIsText ==
  ASSUME NEW lines \in Seq(STRING)
  PROVE  SplitDocument(lines) \in Seq(STRING)
<1> DEFINE marks == {i \in DOMAIN lines : lines[i] = "---"}
           ends == {i \in marks : i > 1 /\ \A j \in marks : j > 1 => i <= j}
           e == CHOOSE i \in ends : TRUE
<1>1. CASE 1 \notin marks \/ ends = {}
  BY <1>1 DEF SplitDocument
<1>2. CASE ~(1 \notin marks \/ ends = {})
  <2>1. e \in ends
    BY <1>2
  <2>2. e \in Nat /\ e + 1 \in Nat /\ e + 1 >= 1
    BY <2>1
  <2>3. SplitDocument(lines) = SubSeq(lines, e + 1, Len(lines))
    BY <1>2 DEF SplitDocument
  <2> HIDE DEF e
  <2>4. \A i \in (e + 1)..Len(lines) : lines[i] \in STRING
    BY <2>2
  <2>5. SubSeq(lines, e + 1, Len(lines)) \in Seq(STRING)
    BY <2>2, <2>4
  <2> QED
    BY <2>3, <2>5
<1> QED
  BY <1>1, <1>2

LEMMA SkillIsRecord ==
  ASSUME NEW x \in Slots, NEW e \in Entries
  PROVE  /\ Skill(SlotIds[x], e) \in SkillRecords /\ SlotIds[x] \in STRING
         /\ Skill(SlotIds[x], e).id = SlotIds[x] /\ Skill(SlotIds[x], e).tools = e.tools
         /\ Skill(SlotIds[x], e).text = SplitDocument(e.lines)
<1>1. SlotIds[x] \in STRING
  BY SkillsAssumption DEF Slots
<1>2. e.lines \in Seq(STRING) /\ e.tools \in Seq(STRING)
  BY DEF Entries
<1> QED
  BY <1>1, <1>2, SplitIsText DEF Skill, SkillRecords

LEMMA WarnedOnce ==
  ASSUME NEW s \in Snapshots, s.warnings <= MAX_SKILL_WARNINGS
  PROVE  /\ Warned(s) \in Snapshots /\ Warned(s).skills = s.skills /\ Warned(s).of = s.of
         /\ Warned(s).seen = s.seen /\ Warned(s).truncated = s.truncated
         /\ Warned(s).warnings <= MAX_SKILL_WARNINGS
<1>1. s.warnings \in Nat /\ MAX_SKILL_WARNINGS \in Nat
  BY SkillsAssumption DEF Snapshots
<1>2. PICK w \in Nat : Warned(s) = [s EXCEPT !.warnings = w] /\ w <= MAX_SKILL_WARNINGS
  BY <1>1 DEF Warned
<1> QED
  BY <1>2 DEF Snapshots

(* The tools of a list with one Skill more.                                *)
LEMMA ToolsOfMore ==
  ASSUME NEW skills \in Seq(SkillRecords), NEW skill \in SkillRecords
  PROVE  /\ ToolCount(Append(skills, skill)) = ToolCount(skills) + Len(skill.tools)
         /\ ToolCount(skills) \in Nat /\ Len(skill.tools) \in Nat
<1> DEFINE sizes(q) == [i \in DOMAIN q |-> Len(q[i].tools)]
           more == Append(skills, skill)
<1>1. Len(skill.tools) \in Nat
  BY DEF SkillRecords
<1>2. sizes(skills) \in Seq(Nat)
  <2>1. \A i \in DOMAIN skills : skills[i] \in SkillRecords
    OBVIOUS
  <2>2. \A i \in DOMAIN skills : Len(skills[i].tools) \in Nat
    BY <2>1 DEF SkillRecords
  <2>3. sizes(skills) \in [1..Len(skills) -> Nat] /\ Len(skills) \in Nat
    BY <2>2
  <2> QED
    BY <2>3
<1>3. sizes(more) = Append(sizes(skills), Len(skill.tools))
  <2>1. /\ Len(more) = Len(skills) + 1 /\ more[Len(skills) + 1] = skill
        /\ more \in Seq(SkillRecords) /\ Len(sizes(skills)) = Len(skills) /\ Len(skills) \in Nat
        /\ \A i \in 1..Len(skills) : more[i] = skills[i] /\ sizes(skills)[i] = Len(skills[i].tools)
    OBVIOUS
  <2> DEFINE t == Append(sizes(skills), Len(skill.tools))
  <2>2. /\ t \in Seq(Nat) /\ Len(t) = Len(skills) + 1 /\ t[Len(skills) + 1] = Len(skill.tools)
        /\ \A i \in 1..Len(skills) : t[i] = sizes(skills)[i]
    BY <1>1, <1>2, <2>1
  <2> HIDE DEF t, more
  <2>3. DOMAIN more = 1..(Len(skills) + 1) /\ DOMAIN t = 1..(Len(skills) + 1)
    BY <2>1, <2>2
  <2>4. \A i \in 1..(Len(skills) + 1) : Len(more[i].tools) = t[i]
    <3>1. \A i \in 1..(Len(skills) + 1) : i \in 1..Len(skills) \/ i = Len(skills) + 1
      BY <2>1
    <3> QED
      BY <2>1, <2>2, <3>1
  <2>5. t = [i \in DOMAIN t |-> t[i]]
    BY <2>2
  <2> QED
    BY <2>3, <2>4, <2>5 DEF t
<1> HIDE DEF sizes, more
<1>4. SumOf(Append(sizes(skills), Len(skill.tools))) = SumOf(sizes(skills)) + Len(skill.tools)
      /\ SumOf(sizes(skills)) \in Nat
  BY <1>1, <1>2, SumAppends
<1> QED
  BY <1>1, <1>3, <1>4 DEF ToolCount, sizes, more

LEMMA NothingListed ==
  /\ ToolCount(<<>>) = 0 /\ TotalSize(<<>>) = 0
<1>1. [i \in DOMAIN <<>> |-> Len(<<>>[i].tools)] = <<>>
  OBVIOUS
<1>2. [i \in DOMAIN <<>> |-> Len(<<>>[i].text)] = <<>>
  OBVIOUS
<1> QED
  BY <1>1, <1>2, SumOfNothing DEF ToolCount, TotalSize

(* A slot that lists nothing: what was listed is still right.              *)
LEMMA PassesOver ==
  ASSUME NEW n \in Nat, n + 1 <= Len(SlotIds), NEW s \in Snapshots, WalkedTo(s, n),
         NEW t \in Snapshots, t.skills = s.skills, t.of = s.of, s.seen \subseteq t.seen,
         t.seen \subseteq s.seen \cup {SlotIds[n + 1]}, t.warnings <= MAX_SKILL_WARNINGS,
         s.truncated => t.truncated,
         t.truncated \/ ~Listable(s.of, n + 1),
         t.seen = s.seen \/ Usable(s.of, n + 1),
         Usable(s.of, n + 1) => SlotIds[n + 1] \in t.seen \/ Len(s.skills) >= MAX_SKILL_METADATA
  PROVE  WalkedTo(t, n + 1)
<1>1. \A x \in 1..(n + 1) : x \in 1..n \/ x = n + 1
  OBVIOUS
<1>2. 1..n \subseteq 1..(n + 1) /\ n + 1 \in 1..(n + 1)
  OBVIOUS
<1>3. ListedAreFound(t, n + 1)
  BY <1>2 DEF WalkedTo, ListedAreFound
<1>4. FoundAreListed(t, n + 1)
  BY <1>1 DEF WalkedTo, FoundAreListed
<1>5. SeenAreUsable(t, n + 1)
  <2>1. ASSUME Len(t.skills) < MAX_SKILL_METADATA, NEW x \in 1..(n + 1), Usable(t.of, x)
        PROVE  SlotIds[x] \in t.seen
    <3>1. Len(s.skills) \in Nat /\ MAX_SKILL_METADATA \in Nat
      BY SkillsAssumption DEF Snapshots
    <3>2. CASE x \in 1..n
      BY <2>1, <3>2 DEF WalkedTo, SeenAreUsable
    <3>3. CASE x = n + 1
      BY <2>1, <3>1, <3>3
    <3> QED
      BY <1>1, <3>2, <3>3
  <2>2. ASSUME NEW id \in t.seen PROVE \E x \in 1..(n + 1) : Usable(t.of, x) /\ SlotIds[x] = id
    <3>1. CASE id \in s.seen
      BY <1>2, <3>1 DEF WalkedTo, SeenAreUsable
    <3>2. CASE id \notin s.seen
      BY <1>2, <2>2, <3>2
    <3> QED
      BY <3>1, <3>2
  <2>3. \A i \in DOMAIN t.skills : t.skills[i].id \in t.seen
    BY DEF WalkedTo, SeenAreUsable
  <2> QED
    BY <2>1, <2>2, <2>3 DEF SeenAreUsable
<1>6. ListValid(t)
  BY DEF WalkedTo, ListValid
<1> QED
  BY <1>3, <1>4, <1>5, <1>6 DEF WalkedTo

(* One Skill more: the list was not full, its id is new and so it is the   *)
(* first, and its tools fit.                                               *)
ListedToo(s, skill) ==
  [s EXCEPT !.skills = Append(s.skills, skill), !.seen = s.seen \cup {skill.id}]

LEMMA ListsOne ==
  ASSUME NEW n \in Nat, n + 1 <= Len(SlotIds), NEW s \in Snapshots, WalkedTo(s, n),
         s.of \in [Slots -> Entries],
         NEW skill, skill = SkillOf(s.of, n + 1), Usable(s.of, n + 1),
         Len(s.skills) < MAX_SKILL_METADATA, skill.id \notin s.seen, FitsTools(s, skill)
  PROVE  WalkedTo(ListedToo(s, skill), n + 1) /\ ListedToo(s, skill).of = s.of
<1> DEFINE t == ListedToo(s, skill)
<1>0. n + 1 \in Slots /\ s.of[n + 1] \in Entries
  BY SkillsAssumption DEF Slots
<1>1. /\ skill \in SkillRecords /\ SlotIds[n + 1] \in STRING /\ skill.id = SlotIds[n + 1]
      /\ skill.tools = s.of[n + 1].tools
  BY <1>0, SkillIsRecord DEF SkillOf
<1>2. /\ s.skills \in Seq(SkillRecords) /\ s.seen \in SUBSET STRING
      /\ MAX_SKILL_METADATA \in Nat /\ MAX_SKILL_TOOL_DECLARATIONS \in Nat
  BY SkillsAssumption DEF Snapshots
<1> DEFINE N == Len(s.skills)
           q == Append(s.skills, skill)
<1>3. /\ q \in Seq(SkillRecords) /\ N \in Nat /\ Len(q) = N + 1 /\ DOMAIN q = 1..(N + 1)
      /\ q[N + 1] = skill /\ DOMAIN s.skills = 1..N
      /\ \A i \in 1..N : q[i] = s.skills[i]
  BY <1>1, <1>2
<1> HIDE DEF q, N
<1>4. /\ t \in Snapshots /\ t.skills = q /\ t.of = s.of /\ t.warnings = s.warnings
      /\ t.truncated = s.truncated /\ t.seen = s.seen \cup {skill.id}
  <2>1. s.seen \cup {skill.id} \in SUBSET STRING
    BY <1>1, <1>2
  <2>2. t = [s EXCEPT !.skills = q, !.seen = s.seen \cup {skill.id}]
    BY DEF q, ListedToo
  <2> HIDE DEF t
  <2> QED
    BY <1>3, <2>1, <2>2 DEF Snapshots
<1> HIDE DEF t
<1>5. \A i \in 1..(N + 1) : i \in 1..N \/ i = N + 1
  BY <1>3
<1>6. \A x \in 1..(n + 1) : x \in 1..n \/ x = n + 1
  OBVIOUS
<1>7. 1..n \subseteq 1..(n + 1) /\ n + 1 \in 1..(n + 1) /\ 1..N \subseteq 1..(N + 1)
      /\ N + 1 \in 1..(N + 1)
  BY <1>3
<1>8. Listable(s.of, n + 1)
  <2>1. ASSUME NEW other \in Slots, other < n + 1, Usable(s.of, other)
        PROVE  SlotIds[other] # SlotIds[n + 1]
    <3>1. other \in 1..n
      BY <2>1, SkillsAssumption DEF Slots
    <3>2. SlotIds[other] \in s.seen
      BY <2>1, <3>1 DEF WalkedTo, SeenAreUsable
    <3> QED
      BY <1>1, <3>2
  <2> QED
    BY <2>1 DEF Listable, FirstOfId
<1>9. ListedAreFound(t, n + 1)
  <2>1. \A i \in 1..N : \E x \in 1..(n + 1) : Listable(s.of, x) /\ q[i] = SkillOf(s.of, x)
    BY <1>3, <1>7 DEF WalkedTo, ListedAreFound
  <2>2. \E x \in 1..(n + 1) : Listable(s.of, x) /\ q[N + 1] = SkillOf(s.of, x)
    BY <1>3, <1>7, <1>8
  <2> QED
    BY <1>3, <1>4, <1>5, <2>1, <2>2 DEF ListedAreFound
<1>10. FoundAreListed(t, n + 1)
  <2>1. SUFFICES ASSUME ~t.truncated, NEW x \in 1..(n + 1), Listable(t.of, x)
                 PROVE  \E i \in DOMAIN t.skills : t.skills[i] = SkillOf(t.of, x)
    BY DEF FoundAreListed
  <2>2. CASE x = n + 1
    BY <1>3, <1>4, <1>7, <2>2
  <2>3. CASE x \in 1..n
    <3>1. PICK i \in DOMAIN s.skills : s.skills[i] = SkillOf(s.of, x)
      BY <1>4, <2>1, <2>3 DEF WalkedTo, FoundAreListed
    <3>2. i \in 1..(N + 1) /\ q[i] = SkillOf(s.of, x)
      BY <1>3, <1>7, <3>1
    <3> QED
      BY <1>3, <1>4, <3>2
  <2> QED
    BY <1>6, <2>2, <2>3
<1>11. SeenAreUsable(t, n + 1)
  <2>1. ASSUME Len(t.skills) < MAX_SKILL_METADATA, NEW x \in 1..(n + 1), Usable(t.of, x)
        PROVE  SlotIds[x] \in t.seen
    <3>1. CASE x \in 1..n
      BY <1>4, <2>1, <3>1 DEF WalkedTo, SeenAreUsable
    <3>2. CASE x = n + 1
      BY <1>1, <1>4, <3>2
    <3> QED
      BY <1>6, <3>1, <3>2
  <2>2. ASSUME NEW id \in t.seen PROVE \E x \in 1..(n + 1) : Usable(t.of, x) /\ SlotIds[x] = id
    <3>1. CASE id \in s.seen
      BY <1>4, <1>7, <3>1 DEF WalkedTo, SeenAreUsable
    <3>2. CASE id = skill.id
      BY <1>1, <1>4, <1>7, <3>2
    <3> QED
      BY <1>4, <2>2, <3>1, <3>2
  <2>3. \A i \in DOMAIN t.skills : t.skills[i].id \in t.seen
    <3>1. \A i \in 1..N : q[i].id \in s.seen
      BY <1>3 DEF WalkedTo, SeenAreUsable
    <3> QED
      BY <1>3, <1>4, <1>5, <3>1
  <2> QED
    BY <2>1, <2>2, <2>3 DEF SeenAreUsable
<1>12. ListValid(t)
  <2>1. \A i \in 1..N : q[i].id \in s.seen
    BY <1>3 DEF WalkedTo, SeenAreUsable
  <2>2. \A i, j \in DOMAIN q : q[i].id = q[j].id => i = j
    <3>1. \A i, j \in 1..N : q[i].id = q[j].id => i = j
      BY <1>3 DEF WalkedTo, ListValid
    <3>2. \A i \in 1..N : q[i].id # q[N + 1].id
      BY <1>3, <2>1
    <3> QED
      BY <1>3, <1>5, <3>1, <3>2
  <2>3. MetadataValid(skill.id, skill.tools)
    BY <1>1 DEF Usable, LoadsSkill
  <2>4. \A i \in DOMAIN q : MetadataValid(q[i].id, q[i].tools)
    BY <1>3, <1>5, <2>3 DEF WalkedTo, ListValid
  <2>5. ToolCount(q) <= MAX_SKILL_TOOL_DECLARATIONS
    BY <1>1, <1>2, ToolsOfMore DEF FitsTools, q
  <2>6. Len(q) <= MAX_SKILL_METADATA
    BY <1>2, <1>3 DEF N
  <2>7. s.warnings <= MAX_SKILL_WARNINGS
    BY DEF WalkedTo, ListValid
  <2>8. t.skills = q /\ t.warnings <= MAX_SKILL_WARNINGS
    BY <1>4, <2>7
  <2> QED
    BY <2>2, <2>4, <2>5, <2>6, <2>8 DEF ListValid
<1> QED
  BY <1>4, <1>9, <1>10, <1>11, <1>12 DEF WalkedTo, t

LEMMA DiscoverType ==
  ASSUME slots \in [Slots -> Entries], NEW n \in Slots, NEW s \in Snapshots
  PROVE  Discovers(s, n) \in Snapshots
<1> DEFINE skill == Skill(SlotIds[n], slots[n])
<1>1. skill \in SkillRecords /\ skill.id \in STRING
  BY SkillIsRecord
<1>2. s.seen \cup {skill.id} \in SUBSET STRING /\ Append(s.skills, skill) \in Seq(SkillRecords)
  BY <1>1 DEF Snapshots
<1>3. Warned(s) \in Snapshots
  <2>1. s.warnings \in Nat
    BY DEF Snapshots
  <2>2. PICK w \in Nat : Warned(s) = [s EXCEPT !.warnings = w]
    BY <2>1 DEF Warned
  <2> QED
    BY <2>2 DEF Snapshots
<1> HIDE DEF skill
<1>4. /\ [s EXCEPT !.truncated = TRUE] \in Snapshots
      /\ [s EXCEPT !.truncated = TRUE, !.seen = s.seen \cup {skill.id}] \in Snapshots
      /\ [s EXCEPT !.skills = Append(s.skills, skill), !.seen = s.seen \cup {skill.id}] \in Snapshots
  BY <1>2 DEF Snapshots
<1> QED
  BY <1>3, <1>4 DEF Discovers, skill

LEMMA DiscoverStep ==
  ASSUME slots \in [Slots -> Entries], NEW n \in Nat, n + 1 <= Len(SlotIds),
         NEW s \in Snapshots, s.of = slots, WalkedTo(s, n)
  PROVE  WalkedTo(Discovers(s, n + 1), n + 1) /\ Discovers(s, n + 1).of = slots
<1> DEFINE e == slots[n + 1]
           skill == Skill(SlotIds[n + 1], e)
           t == Discovers(s, n + 1)
<1>0. n + 1 \in Slots /\ e \in Entries
  BY SkillsAssumption DEF Slots
<1>1. skill.id = SlotIds[n + 1] /\ skill = SkillOf(s.of, n + 1)
  BY <1>0, SkillIsRecord DEF SkillOf
<1>2. t \in Snapshots
  BY <1>0, DiscoverType
<1>3. s.warnings \in Nat /\ MAX_SKILL_WARNINGS \in Nat /\ s.warnings <= MAX_SKILL_WARNINGS
  BY SkillsAssumption DEF Snapshots, WalkedTo, ListValid
<1>4. Usable(s.of, n + 1) <=> skill.id \notin DisabledSkills /\ LoadsSkill(skill.id, e)
  BY <1>1 DEF Usable
<1> HIDE DEF skill, t
<1>5. CASE e.at = "absent"
  <2>1. t = s
    BY <1>5 DEF t, Discovers
  <2>2. ~Usable(s.of, n + 1)
    BY <1>4, <1>5 DEF LoadsSkill
  <2> QED
    BY <1>2, <1>3, <2>1, <2>2, PassesOver DEF Listable, t
<1>6. CASE e.at # "absent" /\ ~LoadsSkill(skill.id, e)
  <2>1. t = Warned(s)
    BY <1>6 DEF t, skill, Discovers
  <2>2. ~Usable(s.of, n + 1)
    BY <1>4, <1>6
  <2> QED
    BY <1>2, <1>3, <2>1, <2>2, WarnedOnce, PassesOver DEF Listable, t
<1>7. CASE /\ e.at # "absent" /\ LoadsSkill(skill.id, e)
           /\ Len(s.skills) >= MAX_SKILL_METADATA
  <2>1. t = [s EXCEPT !.truncated = TRUE]
    BY <1>7 DEF t, skill, Discovers
  <2>2. t.truncated /\ t.skills = s.skills /\ t.of = s.of /\ t.seen = s.seen
        /\ t.warnings = s.warnings
    BY <2>1 DEF Snapshots
  <2> QED
    BY <1>2, <1>3, <1>7, <2>2, PassesOver DEF t
<1> DEFINE Loaded == /\ e.at # "absent" /\ LoadsSkill(skill.id, e)
                     /\ ~(Len(s.skills) >= MAX_SKILL_METADATA)
<1>8. CASE Loaded /\ skill.id \in DisabledSkills
  <2>1. t = s
    BY <1>8 DEF t, skill, Discovers
  <2>2. ~Usable(s.of, n + 1)
    BY <1>4, <1>8
  <2> QED
    BY <1>2, <1>3, <2>1, <2>2, PassesOver DEF Listable, t
<1>9. CASE Loaded /\ skill.id \notin DisabledSkills /\ skill.id \in s.seen
  <2>1. t = Warned(s)
    BY <1>9 DEF t, skill, Discovers
  <2>2. PICK x \in 1..n : Usable(s.of, x) /\ SlotIds[x] = skill.id
    BY <1>9 DEF WalkedTo, SeenAreUsable
  <2>3. x \in Slots /\ x < n + 1
    BY SkillsAssumption DEF Slots
  <2>4. ~Listable(s.of, n + 1)
    BY <1>1, <2>2, <2>3 DEF Listable, FirstOfId
  <2> QED
    BY <1>1, <1>2, <1>3, <1>9, <2>1, <2>4, WarnedOnce, PassesOver DEF t
<1>10. CASE Loaded /\ skill.id \notin DisabledSkills /\ skill.id \notin s.seen
            /\ ~FitsTools(s, skill)
  <2>1. t = [s EXCEPT !.truncated = TRUE, !.seen = s.seen \cup {skill.id}]
    BY <1>10 DEF t, skill, Discovers
  <2>2. t.truncated /\ t.skills = s.skills /\ t.of = s.of /\ t.warnings = s.warnings
        /\ t.seen = s.seen \cup {skill.id}
    BY <2>1 DEF Snapshots
  <2> QED
    BY <1>1, <1>2, <1>3, <1>4, <1>10, <2>2, PassesOver DEF t
<1>11. CASE Loaded /\ skill.id \notin DisabledSkills /\ skill.id \notin s.seen
            /\ FitsTools(s, skill)
  <2>1. t = ListedToo(s, skill)
    BY <1>11 DEF t, skill, Discovers, ListedToo
  <2>2. Usable(s.of, n + 1) /\ s.of \in [Slots -> Entries]
    BY <1>4, <1>11
  <2>3. Len(s.skills) < MAX_SKILL_METADATA
    BY <1>11, SkillsAssumption DEF Snapshots
  <2>4. skill.id \notin s.seen /\ FitsTools(s, skill) /\ skill = SkillOf(s.of, n + 1)
    BY <1>1, <1>11
  <2>5. WalkedTo(ListedToo(s, skill), n + 1) /\ ListedToo(s, skill).of = s.of
    BY <2>2, <2>3, <2>4, ListsOne
  <2> QED
    BY <2>1, <2>5 DEF t
<1> QED
  BY <1>5, <1>6, <1>7, <1>8, <1>9, <1>10, <1>11

(* What a start or a refresh reads: the walk over all slots.               *)
LEMMA NoSnapshotIsRead ==
  ASSUME NEW w \in {0, 1}
  PROVE  SnapshotInv([NoSnapshot EXCEPT !.warnings = w])
<1> DEFINE s == [NoSnapshot EXCEPT !.warnings = w]
<1>1. s \in Snapshots /\ s.skills = <<>> /\ s.of = <<>> /\ s.seen = {} /\ s.warnings = w
  <2>1. <<>> \in Seq(SkillRecords) /\ <<>> \in Seq(Entries)
    OBVIOUS
  <2>2. /\ NoSnapshot \in Snapshots /\ NoSnapshot.skills = <<>> /\ NoSnapshot.of = <<>>
        /\ NoSnapshot.seen = {}
    BY <2>1 DEF NoSnapshot, Snapshots
  <2>3. w \in Nat
    OBVIOUS
  <2> QED
    BY <2>2, <2>3 DEF Snapshots
<1> HIDE DEF s
<1>2. Len(<<>>) = 0 /\ DOMAIN <<>> = {} /\ 1..0 = {} /\ Len(SlotIds) >= 0
  BY SkillsAssumption
<1>3. ListValid(s)
  BY <1>1, <1>2, NothingListed, SkillsAssumption DEF ListValid
<1>4. ListedAreFound(s, 0) /\ FoundAreListed(s, 0) /\ SeenAreUsable(s, 0)
  BY <1>1, <1>2 DEF ListedAreFound, FoundAreListed, SeenAreUsable
<1> QED
  BY <1>1, <1>2, <1>3, <1>4 DEF SnapshotInv, WalkedTo, s

LEMMA DiscoveredIsRead ==
  ASSUME slots \in [Slots -> Entries]
  PROVE  SnapshotInv(Discovered)
<1> DEFINE N == Len(SlotIds)
           first == [NoSnapshot EXCEPT !.of = slots]
           step == [n \in 1..N |-> [s \in Snapshots |-> Discovers(s, n)]]
           IsAfter(f) == f = [n \in 0..N |-> IF n = 0 THEN first ELSE Discovers(f[n - 1], n)]
           after == CHOOSE f : IsAfter(f)
<1>1. N \in Nat /\ Slots = 1..N /\ slots \in Seq(Entries) /\ Len(slots) = N
  BY SkillsAssumption DEF Slots
<1>2. CASE skillRoot = "missing"
  BY <1>2, NoSnapshotIsRead DEF Discovered
<1>3. CASE skillRoot # "missing"
  <2>1. Discovered = after[N]
    BY <1>3 DEF Discovered
  <2> HIDE DEF N
  <2>2. first \in Snapshots /\ first.of = slots /\ first.skills = <<>> /\ first.seen = {}
        /\ first.warnings = 0
    <3>1. <<>> \in Seq(SkillRecords)
      OBVIOUS
    <3> QED
      BY <1>1, <3>1 DEF NoSnapshot, Snapshots
  <2> HIDE DEF first
  <2>3. WalkedTo(first, 0)
    <3>1. Len(<<>>) = 0 /\ DOMAIN <<>> = {} /\ 1..0 = {}
      OBVIOUS
    <3>2. ListValid(first)
      BY <2>2, <3>1, NothingListed, SkillsAssumption DEF ListValid
    <3> QED
      BY <2>2, <3>1, <3>2 DEF WalkedTo, ListedAreFound, FoundAreListed, SeenAreUsable
  <2>4. step \in [1..N -> [Snapshots -> Snapshots]]
    BY <1>1, DiscoverType
  <2>5. \A s \in Snapshots, n \in 1..N : step[n][s] = Discovers(s, n)
    OBVIOUS
  <2> HIDE DEF step
  <2>6. PICK f : IsWalk(f, N, Snapshots, first, step)
    <3>1. N \in Nat
      BY <1>1
    <3> QED
      BY <2>2, <2>4, <3>1, WalkExists, Zenon
  <2>7. IsAfter(f)
    <3>1. \A n \in 1..N : f[n - 1] \in Snapshots /\ f[n] = Discovers(f[n - 1], n)
      <4>1. \A n \in 1..N : n - 1 \in 0..N
        BY <1>1
      <4> QED
        BY <2>5, <2>6, <4>1 DEF IsWalk
    <3>2. \A n \in 0..N : n # 0 => n \in 1..N
      BY <1>1
    <3>3. \A n \in 0..N : f[n] = IF n = 0 THEN first ELSE Discovers(f[n - 1], n)
      BY <2>6, <3>1, <3>2 DEF IsWalk
    <3> QED
      BY <2>6, <3>3 DEF IsWalk
  <2>8. IsAfter(after)
    BY <2>7
  <2> HIDE DEF after
  <2>9. after[0] = first /\ \A n \in 1..N : after[n] = Discovers(after[n - 1], n)
    <3>1. 0 \in 0..N /\ \A n \in 1..N : n \in 0..N /\ n # 0
      BY <1>1
    <3> QED
      BY <2>8, <3>1
  <2> HIDE DEF IsAfter
  <2> DEFINE P == {n \in 0..N : /\ after[n] \in Snapshots /\ after[n].of = slots
                                /\ WalkedTo(after[n], n)}
  <2>10. 0 \in P
    BY <1>1, <2>2, <2>3, <2>9
  <2>11. ASSUME NEW n \in 1..N, n - 1 \in P PROVE n \in P
    <3>1. n - 1 \in Nat /\ (n - 1) + 1 = n /\ n <= Len(SlotIds)
      BY <1>1 DEF N
    <3>2. after[n - 1] \in Snapshots /\ after[n - 1].of = slots /\ WalkedTo(after[n - 1], n - 1)
      BY <2>11
    <3>3. after[n] = Discovers(after[n - 1], n) /\ n \in Slots
      BY <1>1, <2>9
    <3>4. Discovers(after[n - 1], n) \in Snapshots
      BY <3>2, <3>3, DiscoverType
    <3>5. WalkedTo(Discovers(after[n - 1], n), n) /\ Discovers(after[n - 1], n).of = slots
      BY <3>1, <3>2, DiscoverStep
    <3> QED
      BY <3>3, <3>4, <3>5
  <2>12. N \in P
    <3> HIDE DEF P
    <3>1. \A n \in 0..N : n \in P
      BY <1>1, <2>10, <2>11, RangeInduction
    <3> QED
      BY <1>1, <3>1
  <2>13. Discovered \in Snapshots /\ Discovered.of = slots /\ WalkedTo(Discovered, N)
    BY <2>1, <2>12
  <2> QED
    BY <1>1, <2>13 DEF SnapshotInv, N
<1> QED
  BY <1>2, <1>3

----------------------------------------------------------------------------
(* A context: after n of the ids it holds texts of the list, for some of   *)
(* these ids in their order, within the budget; what it left out is blank, *)
(* not listed, or was too much.                                            *)
SkillBlocks == [id : STRING, text : Seq(STRING)]
SkillContexts == [blocks : Seq(SkillBlocks), warnings : Nat, truncated : BOOLEAN]

InOrder(c, ids, n) ==
  \E at \in [DOMAIN c.blocks -> 1..n] :
    /\ \A i \in DOMAIN c.blocks : ids[at[i]] = c.blocks[i].id
    /\ \A i, j \in DOMAIN c.blocks : i < j => at[i] < at[j]

TextsOfList(c, skills) ==
  \A i \in DOMAIN c.blocks : \E k \in DOMAIN skills :
    c.blocks[i].id = skills[k].id /\ c.blocks[i].text = skills[k].text

NothingMissing(c, skills, ids, n) ==
  c.truncated \/ \A k \in 1..n : \A x \in Named(skills, ids[k]) :
                   Blank(x) \/ \E i \in DOMAIN c.blocks : c.blocks[i].id = x.id

ContextTo(c, s, ids, n) ==
  /\ c.warnings <= MAX_SKILL_WARNINGS /\ TotalSize(c.blocks) <= MAX_SKILL_CONTEXT_BYTES
  /\ InOrder(c, ids, n) /\ TextsOfList(c, s.skills) /\ NothingMissing(c, s.skills, ids, n)

LEMMA SizeOfMore ==
  ASSUME NEW blocks \in Seq(SkillBlocks), NEW block \in SkillBlocks
  PROVE  /\ TotalSize(Append(blocks, block)) = TotalSize(blocks) + Len(block.text)
         /\ TotalSize(blocks) \in Nat /\ Len(block.text) \in Nat
<1> DEFINE sizes(q) == [i \in DOMAIN q |-> Len(q[i].text)]
           more == Append(blocks, block)
<1>1. Len(block.text) \in Nat
  BY DEF SkillBlocks
<1>2. sizes(blocks) \in Seq(Nat)
  <2>1. \A i \in DOMAIN blocks : blocks[i] \in SkillBlocks
    OBVIOUS
  <2>2. \A i \in DOMAIN blocks : Len(blocks[i].text) \in Nat
    BY <2>1 DEF SkillBlocks
  <2>3. sizes(blocks) \in [1..Len(blocks) -> Nat] /\ Len(blocks) \in Nat
    BY <2>2
  <2> QED
    BY <2>3
<1>3. sizes(more) = Append(sizes(blocks), Len(block.text))
  <2>1. /\ Len(more) = Len(blocks) + 1 /\ more[Len(blocks) + 1] = block
        /\ more \in Seq(SkillBlocks) /\ Len(sizes(blocks)) = Len(blocks) /\ Len(blocks) \in Nat
        /\ \A i \in 1..Len(blocks) : more[i] = blocks[i] /\ sizes(blocks)[i] = Len(blocks[i].text)
    OBVIOUS
  <2> DEFINE t == Append(sizes(blocks), Len(block.text))
  <2>2. /\ t \in Seq(Nat) /\ Len(t) = Len(blocks) + 1 /\ t[Len(blocks) + 1] = Len(block.text)
        /\ \A i \in 1..Len(blocks) : t[i] = sizes(blocks)[i]
    BY <1>1, <1>2, <2>1
  <2> HIDE DEF t, more
  <2>3. DOMAIN more = 1..(Len(blocks) + 1) /\ DOMAIN t = 1..(Len(blocks) + 1)
    BY <2>1, <2>2
  <2>4. \A i \in 1..(Len(blocks) + 1) : Len(more[i].text) = t[i]
    <3>1. \A i \in 1..(Len(blocks) + 1) : i \in 1..Len(blocks) \/ i = Len(blocks) + 1
      BY <2>1
    <3> QED
      BY <2>1, <2>2, <3>1
  <2>5. t = [i \in DOMAIN t |-> t[i]]
    BY <2>2
  <2> QED
    BY <2>3, <2>4, <2>5 DEF t
<1> HIDE DEF sizes, more
<1>4. SumOf(Append(sizes(blocks), Len(block.text))) = SumOf(sizes(blocks)) + Len(block.text)
      /\ SumOf(sizes(blocks)) \in Nat
  BY <1>1, <1>2, SumAppends
<1> QED
  BY <1>1, <1>3, <1>4 DEF TotalSize, sizes, more

LEMMA WarnedContext ==
  ASSUME NEW c \in SkillContexts
  PROVE  /\ Warned(c) \in SkillContexts /\ Warned(c).blocks = c.blocks
         /\ Warned(c).truncated = c.truncated
         /\ c.warnings <= MAX_SKILL_WARNINGS => Warned(c).warnings <= MAX_SKILL_WARNINGS
<1>1. c.warnings \in Nat /\ MAX_SKILL_WARNINGS \in Nat
  BY SkillsAssumption DEF SkillContexts
<1>2. PICK w \in Nat : /\ Warned(c) = [c EXCEPT !.warnings = w]
                       /\ c.warnings <= MAX_SKILL_WARNINGS => w <= MAX_SKILL_WARNINGS
  BY <1>1 DEF Warned
<1> QED
  BY <1>2 DEF SkillContexts

(* The Skill that is taken for an id.                                      *)
LEMMA NamedSkill ==
  ASSUME NEW skills \in Seq(SkillRecords), NEW id, Named(skills, id) # {}
  PROVE  LET skill == CHOOSE x \in Named(skills, id) : TRUE
         IN /\ skill \in SkillRecords /\ skill.id = id /\ skill \in Named(skills, id)
            /\ \E k \in DOMAIN skills : skill = skills[k]
<1> DEFINE skill == CHOOSE x \in Named(skills, id) : TRUE
<1>1. skill \in Named(skills, id)
  OBVIOUS
<1>2. PICK k \in DOMAIN skills : skills[k].id = id /\ skill = skills[k]
  BY <1>1 DEF Named
<1>3. skills[k] \in SkillRecords
  OBVIOUS
<1> QED
  BY <1>1, <1>2, <1>3

BlockOf(id, skill) == [id |-> id, text |-> skill.text]

LEMMA AddsType ==
  ASSUME NEW skills \in Seq(SkillRecords), NEW id \in STRING, NEW c \in SkillContexts
  PROVE  Adds(c, id, skills) \in SkillContexts
<1> DEFINE found == Named(skills, id)
           skill == CHOOSE x \in found : TRUE
<1>1. CASE found = {} \/ \A x \in found : Blank(x)
  BY <1>1, WarnedContext DEF Adds
<1>2. CASE ~(found = {} \/ \A x \in found : Blank(x))
  <2>1. skill \in SkillRecords
    BY <1>2, NamedSkill
  <2>2. BlockOf(id, skill) \in SkillBlocks
    BY <2>1 DEF BlockOf, SkillBlocks, SkillRecords
  <2>3. /\ [Warned(c) EXCEPT !.truncated = TRUE] \in SkillContexts
        /\ [c EXCEPT !.blocks = Append(c.blocks, BlockOf(id, skill))] \in SkillContexts
    <3>1. Append(c.blocks, BlockOf(id, skill)) \in Seq(SkillBlocks)
      BY <2>2 DEF SkillContexts
    <3> QED
      BY <3>1, WarnedContext DEF SkillContexts
  <2> HIDE DEF skill
  <2>4. Adds(c, id, skills) = IF TotalSize(c.blocks) + Len(skill.text) > MAX_SKILL_CONTEXT_BYTES
          THEN [Warned(c) EXCEPT !.truncated = TRUE]
          ELSE [c EXCEPT !.blocks = Append(c.blocks, BlockOf(id, skill))]
    BY <1>2 DEF Adds, BlockOf, skill
  <2> QED
    BY <2>3, <2>4
<1> QED
  BY <1>1, <1>2

LEMMA AddsStep ==
  ASSUME NEW s \in Snapshots, NEW ids \in Seq(STRING), NEW n \in Nat, n + 1 <= Len(ids),
         NEW c \in SkillContexts, ContextTo(c, s, ids, n)
  PROVE  ContextTo(Adds(c, ids[n + 1], s.skills), s, ids, n + 1)
<1> DEFINE id == ids[n + 1]
           found == Named(s.skills, id)
           skill == CHOOSE x \in found : TRUE
           t == Adds(c, id, s.skills)
           blank == found = {} \/ \A x \in found : Blank(x)
<1>1. \A k \in 1..(n + 1) : k \in 1..n \/ k = n + 1
  OBVIOUS
<1>2. 1..n \subseteq 1..(n + 1) /\ n + 1 \in 1..(n + 1)
  OBVIOUS
<1>3. s.skills \in Seq(SkillRecords) /\ c.blocks \in Seq(SkillBlocks) /\ id \in STRING
      /\ MAX_SKILL_CONTEXT_BYTES \in Nat
  BY SkillsAssumption DEF Snapshots, SkillContexts
<1>4. PICK at \in [DOMAIN c.blocks -> 1..n] :
        /\ \A i \in DOMAIN c.blocks : ids[at[i]] = c.blocks[i].id
        /\ \A i, j \in DOMAIN c.blocks : i < j => at[i] < at[j]
  BY DEF ContextTo, InOrder
<1> HIDE DEF id, t, skill, found
<1>5. ASSUME NEW u, u.blocks = c.blocks, u.warnings <= MAX_SKILL_WARNINGS,
             c.truncated => u.truncated, u.truncated \/ \A x \in found : Blank(x)
      PROVE  ContextTo(u, s, ids, n + 1)
  <2>1. at \in [DOMAIN u.blocks -> 1..(n + 1)]
    BY <1>2, <1>4, <1>5
  <2>2. InOrder(u, ids, n + 1)
    BY <1>4, <1>5, <2>1 DEF InOrder
  <2>3. NothingMissing(u, s.skills, ids, n + 1)
    BY <1>1, <1>5 DEF ContextTo, NothingMissing, found, id
  <2>4. TextsOfList(u, s.skills)
    BY <1>5 DEF ContextTo, TextsOfList
  <2>5. TotalSize(u.blocks) <= MAX_SKILL_CONTEXT_BYTES
    BY <1>5 DEF ContextTo
  <2> QED
    BY <1>5, <2>2, <2>3, <2>4, <2>5 DEF ContextTo
<1>6. /\ Warned(c) \in SkillContexts /\ Warned(c).blocks = c.blocks
      /\ Warned(c).truncated = c.truncated /\ Warned(c).warnings <= MAX_SKILL_WARNINGS
  BY WarnedContext DEF ContextTo
<1>7. CASE blank
  <2>1. t = Warned(c)
    BY <1>7 DEF t, Adds, found, skill
  <2> QED
    BY <1>5, <1>6, <1>7, <2>1 DEF t, id
<1>8. CASE ~blank
  <2>1. /\ skill \in SkillRecords /\ skill.id = id /\ skill \in found
        /\ \E k \in DOMAIN s.skills : skill = s.skills[k]
    BY <1>3, <1>8, NamedSkill DEF skill, found
  <2> DEFINE block == BlockOf(id, skill)
             q == Append(c.blocks, block)
             N == Len(c.blocks)
  <2>2. t = IF TotalSize(c.blocks) + Len(skill.text) > MAX_SKILL_CONTEXT_BYTES
              THEN [Warned(c) EXCEPT !.truncated = TRUE]
              ELSE [c EXCEPT !.blocks = q]
    BY <1>8 DEF t, Adds, BlockOf, skill, found
  <2>3. CASE TotalSize(c.blocks) + Len(skill.text) > MAX_SKILL_CONTEXT_BYTES
    <3>1. t = [Warned(c) EXCEPT !.truncated = TRUE]
      BY <2>2, <2>3
    <3>2. t.truncated /\ t.blocks = c.blocks /\ t.warnings <= MAX_SKILL_WARNINGS
      BY <1>6, <3>1 DEF SkillContexts
    <3> QED
      BY <1>5, <3>2 DEF t, id
  <2>4. CASE ~(TotalSize(c.blocks) + Len(skill.text) > MAX_SKILL_CONTEXT_BYTES)
    <3>1. block \in SkillBlocks /\ block.id = id /\ block.text = skill.text
      BY <1>3, <2>1 DEF BlockOf, SkillBlocks, SkillRecords
    <3> HIDE DEF block
    <3>2. /\ q \in Seq(SkillBlocks) /\ N \in Nat /\ DOMAIN q = 1..(N + 1)
          /\ q[N + 1] = block /\ DOMAIN c.blocks = 1..N
          /\ \A i \in 1..N : q[i] = c.blocks[i]
      BY <1>3, <3>1
    <3>3. t = [c EXCEPT !.blocks = q]
      BY <2>2, <2>4
    <3>4. TotalSize(q) <= MAX_SKILL_CONTEXT_BYTES
      <4>1. /\ TotalSize(q) = TotalSize(c.blocks) + Len(skill.text)
            /\ TotalSize(c.blocks) \in Nat /\ Len(skill.text) \in Nat
        BY <1>3, <3>1, SizeOfMore
      <4> QED
        BY <1>3, <2>4, <4>1
    <3> HIDE DEF q, N
    <3>5. t.blocks = q /\ t.warnings = c.warnings /\ t.truncated = c.truncated
      BY <3>2, <3>3 DEF SkillContexts
    <3>6. \A i \in 1..(N + 1) : i \in 1..N \/ i = N + 1
      BY <3>2
    <3>7. InOrder(t, ids, n + 1)
      <4> DEFINE more == [i \in 1..(N + 1) |-> IF i = N + 1 THEN n + 1 ELSE at[i]]
      <4>1. more \in [DOMAIN q -> 1..(n + 1)]
        BY <1>2, <1>4, <3>2, <3>6
      <4>2. more[N + 1] = n + 1 /\ \A i \in 1..N : more[i] = at[i] /\ at[i] \in 1..n
        BY <1>4, <3>2
      <4> HIDE DEF more
      <4>3. \A i \in DOMAIN q : ids[more[i]] = q[i].id
        BY <1>4, <3>1, <3>2, <3>6, <4>2 DEF id
      <4>4. ASSUME NEW i \in DOMAIN q, NEW j \in DOMAIN q, i < j PROVE more[i] < more[j]
        <5>1. i \in 1..N
          BY <3>2, <3>6, <4>4
        <5>2. CASE j = N + 1
          BY <4>2, <5>1, <5>2
        <5>3. CASE j \in 1..N
          BY <1>4, <3>2, <4>2, <4>4, <5>1, <5>3
        <5> QED
          BY <3>2, <3>6, <5>2, <5>3
      <4> QED
        BY <3>5, <4>1, <4>3, <4>4 DEF InOrder
    <3>8. TextsOfList(t, s.skills)
      <4>1. \A i \in 1..N : \E k \in DOMAIN s.skills :
              q[i].id = s.skills[k].id /\ q[i].text = s.skills[k].text
        BY <3>2 DEF ContextTo, TextsOfList
      <4>2. \E k \in DOMAIN s.skills :
              q[N + 1].id = s.skills[k].id /\ q[N + 1].text = s.skills[k].text
        BY <2>1, <3>1, <3>2
      <4> QED
        BY <3>2, <3>5, <3>6, <4>1, <4>2 DEF TextsOfList
    <3>9. NothingMissing(t, s.skills, ids, n + 1)
      <4>1. SUFFICES ASSUME ~t.truncated, NEW k \in 1..(n + 1), NEW x \in Named(s.skills, ids[k])
                     PROVE  Blank(x) \/ \E i \in DOMAIN q : q[i].id = x.id
        BY <3>5 DEF NothingMissing
      <4>2. CASE k \in 1..n
        <5>1. Blank(x) \/ \E i \in 1..N : c.blocks[i].id = x.id
          BY <3>2, <3>5, <4>1, <4>2 DEF ContextTo, NothingMissing
        <5>2. 1..N \subseteq DOMAIN q
          BY <3>2
        <5> QED
          BY <3>2, <5>1, <5>2
      <4>3. CASE k = n + 1
        <5>1. x.id = id
          BY <4>3 DEF Named, id
        <5>2. N + 1 \in DOMAIN q /\ q[N + 1].id = id
          BY <3>1, <3>2
        <5> QED
          BY <5>1, <5>2
      <4> QED
        BY <1>1, <4>2, <4>3
    <3>10. t.warnings <= MAX_SKILL_WARNINGS
      BY <3>5 DEF ContextTo
    <3> QED
      BY <3>4, <3>5, <3>7, <3>8, <3>9, <3>10 DEF ContextTo, t, id
  <2> QED
    BY <2>3, <2>4
<1> QED
  BY <1>7, <1>8

LEMMA ContextIsRight ==
  ASSUME NEW s \in Snapshots, s.warnings <= MAX_SKILL_WARNINGS, NEW ids \in Seq(STRING)
  PROVE  ContextOf(s, ids) \in SkillContexts /\ ContextTo(ContextOf(s, ids), s, ids, Len(ids))
<1> DEFINE N == Len(ids)
           first == [blocks |-> <<>>, warnings |-> s.warnings, truncated |-> FALSE]
           step == [n \in 1..N |-> [c \in SkillContexts |-> Adds(c, ids[n], s.skills)]]
           IsAfter(f) == f = [n \in 0..N |-> IF n = 0 THEN first
                                            ELSE Adds(f[n - 1], ids[n], s.skills)]
           after == CHOOSE f : IsAfter(f)
<1>1. N \in Nat /\ s.skills \in Seq(SkillRecords) /\ \A n \in 1..N : ids[n] \in STRING
  BY DEF Snapshots
<1>2. ContextOf(s, ids) = after[N]
  BY DEF ContextOf
<1>3. first \in SkillContexts
  <2>1. <<>> \in Seq(SkillBlocks)
    OBVIOUS
  <2> QED
    BY <2>1 DEF SkillContexts, Snapshots
<1>4. ContextTo(first, s, ids, 0)
  <2>1. first.blocks = <<>> /\ first.warnings = s.warnings
    OBVIOUS
  <2> HIDE DEF first
  <2>2. DOMAIN <<>> = {} /\ 1..0 = {}
    OBVIOUS
  <2>3. InOrder(first, ids, 0)
    <3>1. <<>> \in [{} -> {}]
      OBVIOUS
    <3> QED
      BY <2>1, <2>2, <3>1 DEF InOrder
  <2>4. TextsOfList(first, s.skills) /\ NothingMissing(first, s.skills, ids, 0)
    BY <2>1, <2>2 DEF TextsOfList, NothingMissing
  <2>5. TotalSize(first.blocks) <= MAX_SKILL_CONTEXT_BYTES
    BY <2>1, NothingListed, SkillsAssumption
  <2> QED
    BY <2>1, <2>3, <2>4, <2>5 DEF ContextTo
<1> HIDE DEF N, first
<1>5. step \in [1..N -> [SkillContexts -> SkillContexts]]
  BY <1>1, AddsType
<1>6. \A c \in SkillContexts, n \in 1..N : step[n][c] = Adds(c, ids[n], s.skills)
  OBVIOUS
<1> HIDE DEF step
<1>7. PICK f : IsWalk(f, N, SkillContexts, first, step)
  <2>1. N \in Nat
    BY <1>1
  <2> QED
    BY <1>3, <1>5, <2>1, WalkExists, Zenon
<1>8. IsAfter(f)
  <2>1. \A n \in 1..N : f[n - 1] \in SkillContexts /\ f[n] = Adds(f[n - 1], ids[n], s.skills)
    <3>1. \A n \in 1..N : n - 1 \in 0..N
      BY <1>1
    <3> QED
      BY <1>6, <1>7, <3>1 DEF IsWalk
  <2>2. \A n \in 0..N : n # 0 => n \in 1..N
    BY <1>1
  <2>3. \A n \in 0..N : f[n] = IF n = 0 THEN first ELSE Adds(f[n - 1], ids[n], s.skills)
    BY <1>7, <2>1, <2>2 DEF IsWalk
  <2> QED
    BY <1>7, <2>3 DEF IsWalk
<1>9. IsAfter(after)
  BY <1>8
<1> HIDE DEF after
<1>10. after[0] = first /\ \A n \in 1..N : after[n] = Adds(after[n - 1], ids[n], s.skills)
  <2>1. 0 \in 0..N /\ \A n \in 1..N : n \in 0..N /\ n # 0
    BY <1>1
  <2> QED
    BY <1>9, <2>1
<1> HIDE DEF IsAfter
<1> DEFINE P == {n \in 0..N : after[n] \in SkillContexts /\ ContextTo(after[n], s, ids, n)}
<1>11. 0 \in P
  BY <1>1, <1>3, <1>4, <1>10
<1>12. ASSUME NEW n \in 1..N, n - 1 \in P PROVE n \in P
  <2>1. n - 1 \in Nat /\ (n - 1) + 1 = n /\ n <= Len(ids)
    BY <1>1 DEF N
  <2>2. after[n - 1] \in SkillContexts /\ ContextTo(after[n - 1], s, ids, n - 1)
    BY <1>12
  <2>3. after[n] = Adds(after[n - 1], ids[n], s.skills) /\ ids[n] \in STRING
    BY <1>1, <1>10
  <2>4. Adds(after[n - 1], ids[n], s.skills) \in SkillContexts
    BY <1>1, <2>2, <2>3, AddsType
  <2>5. ContextTo(Adds(after[n - 1], ids[n], s.skills), s, ids, n)
    BY <2>1, <2>2, AddsStep
  <2> QED
    BY <2>3, <2>4, <2>5
<1>13. N \in P
  <2> HIDE DEF P
  <2>1. \A n \in 0..N : n \in P
    BY <1>1, <1>11, <1>12, RangeInduction
  <2> QED
    BY <1>1, <2>1
<1> QED
  BY <1>2, <1>13 DEF N

----------------------------------------------------------------------------
(* The plugin: its snapshot is a walk over the files it was read from, no  *)
(* answer was the last, and a context is one of the list it was made for.  *)
SkillsIInv ==
  /\ slots \in [Slots -> Entries]
  /\ skillPlugin \in [up : BOOLEAN, snapshot : Snapshots]
  /\ SnapshotInv(skillPlugin.snapshot)
  /\ ~skillPlugin.up => skillAnswer = NoSkillAnswer
  /\ skillAnswer.result # "died"
  /\ skillAnswer.op = "context" /\ skillAnswer.result = "ok" =>
       /\ skillAnswer.ids \in Seq(STRING)
       /\ ContextTo(skillAnswer.context, skillPlugin.snapshot, skillAnswer.ids,
                    Len(skillAnswer.ids))

LEMMA NoAnswerIsNone ==
  NoSkillAnswer.op = "none" /\ NoSkillAnswer.result = "none"
BY DEF NoSkillAnswer

LEMMA NoEntryIsEntry == NoEntry \in Entries
<1>1. <<>> \in Seq(STRING)
  OBVIOUS
<1> QED
  BY <1>1 DEF NoEntry, Entries

LEMMA SkillsInitOK == ASSUME SkillsInit PROVE SkillsIInv
<1>1. NoSnapshot = [NoSnapshot EXCEPT !.warnings = 0]
  BY DEF NoSnapshot
<1>2. SnapshotInv(NoSnapshot)
  BY <1>1, NoSnapshotIsRead
<1>3. skillPlugin = [up |-> FALSE, snapshot |-> NoSnapshot] /\ skillAnswer = NoSkillAnswer
      /\ slots \in [Slots -> Entries]
  BY NoEntryIsEntry DEF SkillsInit
<1>4. skillPlugin \in [up : BOOLEAN, snapshot : Snapshots] /\ ~skillPlugin.up
      /\ skillPlugin.snapshot = NoSnapshot
  BY <1>2, <1>3 DEF SnapshotInv
<1> QED
  BY <1>2, <1>3, <1>4, NoAnswerIsNone DEF SkillsIInv

(* The answers pass their checks.                                          *)
LEMMA BlocksAreValid ==
  ASSUME NEW s, SnapshotInv(s), NEW k \in DOMAIN s.skills
  PROVE  BlockValid(s.skills[k].text)
<1>1. PICK x \in 1..Len(s.of) : Usable(s.of, x) /\ s.skills[k] = SkillOf(s.of, x)
  BY DEF SnapshotInv, WalkedTo, ListedAreFound, Listable
<1>2. x \in Slots /\ s.of[x] \in Entries
  BY SkillsAssumption DEF SnapshotInv, Snapshots, Slots
<1>3. s.skills[k].text = SplitDocument(s.of[x].lines)
  BY <1>1, <1>2, SkillIsRecord DEF SkillOf
<1> QED
  BY <1>1, <1>3 DEF Usable, LoadsSkill

LEMMA ContextPasses ==
  ASSUME NEW s, SnapshotInv(s), NEW ids \in Seq(STRING), NEW c \in SkillContexts,
         \A i, j \in DOMAIN ids : i # j => ids[i] # ids[j],
         ContextTo(c, s, ids, Len(ids))
  PROVE  ContextValid(c)
<1>1. \A i \in DOMAIN c.blocks : BlockValid(c.blocks[i].text)
  <2>1. ASSUME NEW i \in DOMAIN c.blocks PROVE BlockValid(c.blocks[i].text)
    <3>1. PICK k \in DOMAIN s.skills : c.blocks[i].text = s.skills[k].text
      BY DEF ContextTo, TextsOfList
    <3> QED
      BY <3>1, BlocksAreValid
  <2> QED
    BY <2>1
<1>2. ASSUME NEW i \in DOMAIN c.blocks, NEW j \in DOMAIN c.blocks,
             c.blocks[i].id = c.blocks[j].id
      PROVE  i = j
  <2>1. PICK at \in [DOMAIN c.blocks -> 1..Len(ids)] :
          /\ \A k \in DOMAIN c.blocks : ids[at[k]] = c.blocks[k].id
          /\ \A k, l \in DOMAIN c.blocks : k < l => at[k] < at[l]
    BY DEF ContextTo, InOrder
  <2>2. at[i] \in DOMAIN ids /\ at[j] \in DOMAIN ids /\ at[i] \in Nat /\ at[j] \in Nat
    BY <2>1
  <2>3. at[i] = at[j]
    BY <1>2, <2>1, <2>2
  <2>4. i \in Nat /\ j \in Nat
    BY DEF SkillContexts
  <2> QED
    BY <2>1, <2>2, <2>3, <2>4
<1> QED
  BY <1>1, <1>2 DEF ContextTo, ContextValid

LEMMA ListPasses ==
  ASSUME NEW s, SnapshotInv(s)
  PROVE  /\ ListValid(s) /\ s \in Snapshots
         /\ Len(s.skills) <= MAX_SKILL_METADATA
         /\ ToolCount(s.skills) <= MAX_SKILL_TOOL_DECLARATIONS
         /\ s.warnings <= MAX_SKILL_WARNINGS
BY DEF SnapshotInv, WalkedTo, ListValid

(* A step that gives an answer, or none, from a snapshot that was read.    *)
LEMMA SkillsAnswerKeeps ==
  ASSUME SkillsIInv, slots' = slots, NEW s, SnapshotInv(s),
         NEW op \in {"list", "context", "status"}, NEW ids, NEW c, NEW valid \in BOOLEAN, valid,
         SkillsAnswer(op, ids, s, c, valid),
         op = "context" => ids \in Seq(STRING) /\ ContextTo(c, s, ids, Len(ids))
  PROVE  SkillsIInv'
<1>1. /\ skillPlugin' = [up |-> valid, snapshot |-> s]
      /\ skillAnswer' = [op |-> op, ids |-> ids, context |-> c, result |-> "ok"]
  BY DEF SkillsAnswer
<1>2. skillPlugin'.up /\ skillPlugin'.snapshot = s /\ s \in Snapshots
      /\ skillPlugin' \in [up : BOOLEAN, snapshot : Snapshots]
  BY <1>1 DEF SnapshotInv
<1>3. skillAnswer'.op = op /\ skillAnswer'.ids = ids /\ skillAnswer'.context = c
      /\ skillAnswer'.result = "ok"
  BY <1>1
<1>4. slots' \in [Slots -> Entries]
  BY DEF SkillsIInv
<1> QED
  BY <1>2, <1>3, <1>4 DEF SkillsIInv

LEMMA SkillsRefusalKeeps ==
  ASSUME SkillsIInv, slots' = slots, skillPlugin' = skillPlugin, skillPlugin.up,
         NEW op, NEW result, result \notin {"ok", "died"},
         skillAnswer' = [NoSkillAnswer EXCEPT !.op = op, !.result = result]
  PROVE  SkillsIInv'
<1>1. skillAnswer'.result = result
  BY DEF NoSkillAnswer
<1> QED
  BY <1>1 DEF SkillsIInv

LEMMA FilesMove ==
  ASSUME SkillsIInv, slots' \in [Slots -> Entries],
         UNCHANGED <<skillPlugin, skillAnswer>>
  PROVE  SkillsIInv'
BY DEF SkillsIInv

LEMMA SkillsStep ==
  ASSUME SkillsIInv, [SkillsNext]_skillVars
  PROVE  SkillsIInv'
<1>0. slots \in [Slots -> Entries] /\ SnapshotInv(skillPlugin.snapshot)
  BY DEF SkillsIInv
<1>1. CASE UNCHANGED skillVars
  BY <1>1, FilesMove DEF SkillsIInv, skillVars
<1>2. ASSUME NEW slot \in Slots, NEW e \in SkillEntries, EditsSkill(slot, e)
      PROVE  SkillsIInv'
  <2>1. slots' \in [Slots -> Entries]
    BY <1>0, <1>2, SkillsAssumption DEF EditsSkill
  <2> QED
    BY <1>2, <2>1, FilesMove DEF EditsSkill
<1>3. ASSUME NEW root, ReplacesRoot(root) PROVE SkillsIInv'
  <2>1. slots' \in [Slots -> Entries]
    BY <1>3, NoEntryIsEntry DEF ReplacesRoot
  <2> QED
    BY <1>3, <2>1, FilesMove DEF ReplacesRoot
<1>4. CASE SkillsStart
  <2>1. SnapshotInv(Discovered) /\ Discovered \in Snapshots
    BY <1>0, DiscoveredIsRead DEF SnapshotInv
  <2>2. skillPlugin' = [up |-> TRUE, snapshot |-> Discovered] /\ skillAnswer' = skillAnswer
        /\ slots' = slots /\ ~skillPlugin.up
    BY <1>4 DEF SkillsStart
  <2>3. skillPlugin'.up /\ skillPlugin'.snapshot = Discovered
        /\ skillPlugin' \in [up : BOOLEAN, snapshot : Snapshots]
    BY <2>1, <2>2
  <2>4. skillAnswer' = NoSkillAnswer
    BY <2>2 DEF SkillsIInv
  <2> QED
    BY <1>0, <2>1, <2>2, <2>3, <2>4, NoAnswerIsNone DEF SkillsIInv
<1>5. CASE SkillsShutdown
  <2>1. NoSnapshot = [NoSnapshot EXCEPT !.warnings = 0]
    BY DEF NoSnapshot
  <2>2. SnapshotInv(NoSnapshot)
    BY <2>1, NoSnapshotIsRead
  <2>3. skillPlugin' = [up |-> FALSE, snapshot |-> NoSnapshot] /\ skillAnswer' = NoSkillAnswer
        /\ slots' = slots
    BY <1>5 DEF SkillsShutdown
  <2>4. ~skillPlugin'.up /\ skillPlugin'.snapshot = NoSnapshot
        /\ skillPlugin' \in [up : BOOLEAN, snapshot : Snapshots]
    BY <2>2, <2>3 DEF SnapshotInv
  <2> QED
    BY <1>0, <2>2, <2>3, <2>4, NoAnswerIsNone DEF SkillsIInv
<1>6. ASSUME NEW refreshed \in BOOLEAN, ListSkills(refreshed) PROVE SkillsIInv'
  <2>1. CASE refreshed /\ skillRoot = "file"
    <3>1. /\ slots' = slots /\ skillPlugin' = skillPlugin /\ skillPlugin.up
          /\ skillAnswer' = [NoSkillAnswer EXCEPT !.op = "list", !.result = "skills_discovery"]
      BY <1>6, <2>1 DEF ListSkills
    <3>2. "skills_discovery" \notin {"ok", "died"}
      OBVIOUS
    <3> QED
      BY <3>1, <3>2, SkillsRefusalKeeps, Zenon
  <2>2. CASE ~(refreshed /\ skillRoot = "file")
    <3> DEFINE s == IF refreshed THEN Discovered ELSE skillPlugin.snapshot
    <3>1. SnapshotInv(s)
      BY <1>0, DiscoveredIsRead
    <3>2. SkillsAnswer("list", <<>>, s, NoSkillAnswer.context, ListValid(s)) /\ slots' = slots
      BY <1>6, <2>2 DEF ListSkills
    <3> HIDE DEF s
    <3>3. ListValid(s) /\ SkillsAnswer("list", <<>>, s, NoSkillAnswer.context, TRUE)
      BY <3>1, <3>2, ListPasses DEF SkillsAnswer
    <3> QED
      BY <3>1, <3>2, <3>3, SkillsAnswerKeeps
  <2> QED
    BY <2>1, <2>2
<1>7. ASSUME NEW ids \in Seq(STRING), LoadContext(ids) PROVE SkillsIInv'
  <2> DEFINE refused == \/ Len(ids) > MAX_SKILL_METADATA
                        \/ \E i, j \in DOMAIN ids : i # j /\ ids[i] = ids[j]
  <2>1. CASE refused
    <3>1. /\ slots' = slots /\ skillPlugin' = skillPlugin /\ skillPlugin.up
          /\ skillAnswer' = [NoSkillAnswer EXCEPT !.op = "context", !.result = "invalid_request"]
      BY <1>7, <2>1 DEF LoadContext
    <3>2. "invalid_request" \notin {"ok", "died"}
      OBVIOUS
    <3> QED
      BY <3>1, <3>2, SkillsRefusalKeeps, Zenon
  <2>2. CASE ~refused
    <3> DEFINE s == skillPlugin.snapshot
               c == ContextOf(s, ids)
    <3>1. s \in Snapshots /\ s.warnings <= MAX_SKILL_WARNINGS
      BY <1>0, ListPasses
    <3>2. c \in SkillContexts /\ ContextTo(c, s, ids, Len(ids))
      BY <3>1, ContextIsRight
    <3>3. SkillsAnswer("context", ids, s, c, ContextValid(c)) /\ slots' = slots
      BY <1>7, <2>2 DEF LoadContext
    <3> HIDE DEF s, c
    <3>4. ContextValid(c)
      BY <1>0, <2>2, <3>2, ContextPasses DEF s
    <3>5. SkillsAnswer("context", ids, s, c, TRUE)
      BY <3>3, <3>4 DEF SkillsAnswer
    <3> QED
      BY <1>0, <3>2, <3>3, <3>5, SkillsAnswerKeeps DEF s
  <2> QED
    BY <2>1, <2>2
<1>8. CASE SkillStatus
  <2> DEFINE s == skillPlugin.snapshot
  <2>1. SkillsAnswer("status", <<>>, s, NoSkillAnswer.context,
          Len(s.skills) <= MAX_SKILL_METADATA
            /\ ToolCount(s.skills) <= MAX_SKILL_TOOL_DECLARATIONS) /\ slots' = slots
    BY <1>8 DEF SkillStatus
  <2>2. SkillsAnswer("status", <<>>, s, NoSkillAnswer.context, TRUE)
    BY <1>0, <2>1, ListPasses DEF SkillsAnswer
  <2> QED
    BY <1>0, <2>1, <2>2, SkillsAnswerKeeps
<1>9. ASSUME NEW n \in 0..2, NEW ids \in [1..n -> {SlotIds[i] : i \in Slots}], LoadContext(ids)
      PROVE  SkillsIInv'
  <2>1. {SlotIds[i] : i \in Slots} \subseteq STRING
    BY SkillsAssumption DEF Slots
  <2>2. ids \in Seq(STRING)
    BY <2>1
  <2> QED
    BY <1>7, <1>9, <2>2
<1> QED
  BY <1>1, <1>2, <1>3, <1>4, <1>5, <1>6, <1>8, <1>9 DEF SkillsNext

(* The Skills plugin (yunxi-tool-skills): for any files and edits between  *)
(* its reads, what it lists is what it found, the first of each id, and    *)
(* all of it unless it says otherwise; a context holds the listed texts of *)
(* the ids asked for, in order and within the budget; and no content of    *)
(* the files makes it send an answer that ends it.                         *)
THEOREM SkillsStayAsFound ==
  SkillsInit /\ [][SkillsNext]_skillVars => []SkillsAreWhatWasFound
<1>1. ASSUME SkillsIInv PROVE SkillsAreWhatWasFound
  <2> DEFINE s == skillPlugin.snapshot
             found == {<<slot, Skill(SlotIds[slot], s.of[slot])>> :
                  slot \in {x \in DOMAIN s.of : Usable(s.of, x) /\ FirstOfId(s.of, x)}}
             skillsFound == {f[2] : f \in found}
             listed == {s.skills[i] : i \in DOMAIN s.skills}
             c == skillAnswer.context
             ids == skillAnswer.ids
  <2>1. SnapshotInv(s) /\ s \in Snapshots /\ DOMAIN s.of = 1..Len(s.of)
    BY <1>1 DEF SkillsIInv, SnapshotInv, Snapshots
  <2>2. \A x \in DOMAIN s.of : Listable(s.of, x) => SkillOf(s.of, x) \in skillsFound
    <3>1. ASSUME NEW x \in DOMAIN s.of, Listable(s.of, x) PROVE SkillOf(s.of, x) \in skillsFound
      <4>1. <<x, SkillOf(s.of, x)>> \in found
        BY <3>1 DEF Listable, SkillOf
      <4> HIDE DEF found
      <4> QED
        BY <4>1
    <3> QED
      BY <3>1
  <2>3. \A v \in skillsFound : \E x \in DOMAIN s.of : Listable(s.of, x) /\ v = SkillOf(s.of, x)
    BY DEF Listable, SkillOf
  <2> HIDE DEF skillsFound
  <2>4. listed \subseteq skillsFound
    <3>1. ASSUME NEW i \in DOMAIN s.skills PROVE s.skills[i] \in skillsFound
      <4>1. PICK x \in 1..Len(s.of) : Listable(s.of, x) /\ s.skills[i] = SkillOf(s.of, x)
        BY <2>1 DEF SnapshotInv, WalkedTo, ListedAreFound
      <4> QED
        BY <2>1, <2>2, <4>1
    <3> QED
      BY <3>1
  <2>5. s.truncated \/ skillsFound \subseteq listed
    <3>1. ASSUME ~s.truncated, NEW v \in skillsFound PROVE v \in listed
      <4>1. PICK x \in DOMAIN s.of : Listable(s.of, x) /\ v = SkillOf(s.of, x)
        BY <2>3
      <4>2. \E i \in DOMAIN s.skills : s.skills[i] = SkillOf(s.of, x)
        BY <2>1, <3>1, <4>1 DEF SnapshotInv, WalkedTo, FoundAreListed
      <4> QED
        BY <4>1, <4>2
    <3> QED
      BY <3>1
  <2>6. ASSUME skillAnswer.op = "context", skillAnswer.result = "ok"
        PROVE  /\ \A i \in DOMAIN c.blocks : [id |-> c.blocks[i].id, text |-> c.blocks[i].text]
                    \in {[id |-> x.id, text |-> x.text] : x \in listed}
               /\ \E at \in [DOMAIN c.blocks -> DOMAIN ids] :
                    /\ \A i \in DOMAIN c.blocks : ids[at[i]] = c.blocks[i].id
                    /\ \A i, j \in DOMAIN c.blocks : i < j => at[i] < at[j]
               /\ TotalSize(c.blocks) <= MAX_SKILL_CONTEXT_BYTES
               /\ c.truncated \/ \A i \in DOMAIN ids :
                    \A x \in Named(s.skills, ids[i]) :
                      Blank(x) \/ \E k \in DOMAIN c.blocks : c.blocks[k].id = x.id
    <3>1. ContextTo(c, s, ids, Len(ids)) /\ DOMAIN ids = 1..Len(ids)
      BY <1>1, <2>6 DEF SkillsIInv
    <3>2. \A i \in DOMAIN c.blocks : \E x \in listed :
            c.blocks[i].id = x.id /\ c.blocks[i].text = x.text
      BY <3>1 DEF ContextTo, TextsOfList
    <3> HIDE DEF listed
    <3>3. \A i \in DOMAIN c.blocks : [id |-> c.blocks[i].id, text |-> c.blocks[i].text]
                    \in {[id |-> x.id, text |-> x.text] : x \in listed}
      BY <3>2
    <3> QED
      BY <3>1, <3>3 DEF ContextTo, InOrder, NothingMissing
  <2>7. skillAnswer.result # "died"
    BY <1>1 DEF SkillsIInv
  <2> QED
    BY <2>4, <2>5, <2>6, <2>7 DEF SkillsAreWhatWasFound, skillsFound
<1> QED
  BY <1>1, SkillsInitOK, SkillsStep, PTL

----------------------------------------------------------------------------
----------------------------------------------------------------------------
(* The Files plugin.  A search: which directories are on its stack, what   *)
(* it has matched, and where the visible entries of a directory lead.      *)
SearchStages == {"idle", "refused", "walking", "failed", "returned"}

(* The texts the model itself names are among the STRINGs. *)
Words == STRING \cup {"none", "", "n"}

Searches == [at : SearchStages, root : Words, query : Words, max : Nat, stack : Seq(STRING \X Nat),
             visited : SUBSET STRING, matches : Seq(STRING), inspected : Nat,
             truncated : BOOLEAN, changed : BOOLEAN, deep : BOOLEAN]

FirstsOf(q) == {q[i][1] : i \in DOMAIN q}
Stacked(s) == FirstsOf(s.stack)
Matched(s) == {s.matches[i] : i \in DOMAIN s.matches}

InnerOf(tree, s) == DOMAIN tree \cap Below[s.root]
IsHit(e, s) == e.name = s.query /\ ~e.hidden /\ e.to \in Below[s.root]
IsLink(e, s) == ~e.hidden /\ e.to \in InnerOf(fileTree, s)

(* A search that walks is within its limits, and below them until it says  *)
(* that something was cut off.                                             *)
Within(s) ==
  /\ Len(s.matches) <= s.max /\ s.inspected <= MAX_SEARCH_ENTRIES + 1
  /\ ~s.truncated => Len(s.matches) < s.max /\ s.inspected <= MAX_SEARCH_ENTRIES
  /\ Matched(s) \subseteq Below[s.root]

LEMMA TreeFacts ==
  ASSUME fileTree \in FileTrees
  PROVE  /\ Directories \subseteq STRING
         /\ \A d \in Directories : /\ fileTree[d] \in Seq(FileEntries)
                                   /\ \A i \in DOMAIN fileTree[d] : fileTree[d][i] \in FileEntries
                                   /\ d \in Below[d]
<1>1. \A d \in Directories : fileTree[d] \in Seq(FileEntries)
  BY FilesAssumption DEF Directories
<1>2. \A d \in Directories : \A i \in DOMAIN fileTree[d] : fileTree[d][i] \in FileEntries
  BY <1>1
<1> QED
  BY <1>1, <1>2, FilesAssumption DEF Directories

LEMMA AppendMatch ==
  ASSUME NEW q \in Seq(STRING), NEW x \in STRING
  PROVE  /\ Append(q, x) \in Seq(STRING) /\ Len(Append(q, x)) = Len(q) + 1
         /\ {Append(q, x)[i] : i \in DOMAIN Append(q, x)} = {q[i] : i \in DOMAIN q} \cup {x}
<1> DEFINE r == Append(q, x)
           N == Len(q)
<1>1. /\ r \in Seq(STRING) /\ N \in Nat /\ Len(r) = N + 1 /\ DOMAIN r = 1..(N + 1)
      /\ DOMAIN q = 1..N /\ r[N + 1] = x /\ \A i \in 1..N : r[i] = q[i]
  OBVIOUS
<1> HIDE DEF r, N
<1>2. \A i \in 1..(N + 1) : i \in 1..N \/ i = N + 1
  BY <1>1
<1>3. 1..N \subseteq 1..(N + 1) /\ N + 1 \in 1..(N + 1)
  BY <1>1
<1>4. {r[i] : i \in 1..(N + 1)} = {q[i] : i \in 1..N} \cup {x}
  BY <1>1, <1>2, <1>3
<1> QED
  BY <1>1, <1>4 DEF r, N

LEMMA AppendStack ==
  ASSUME NEW q \in Seq(STRING \X Nat), NEW d \in STRING, NEW k \in Nat
  PROVE  /\ Append(q, <<d, k>>) \in Seq(STRING \X Nat)
         /\ FirstsOf(Append(q, <<d, k>>)) = FirstsOf(q) \cup {d}
<1> DEFINE x == <<d, k>>
           r == Append(q, x)
           N == Len(q)
<1>0. x \in STRING \X Nat /\ x[1] = d
  OBVIOUS
<1> HIDE DEF x
<1>1. /\ r \in Seq(STRING \X Nat) /\ N \in Nat /\ DOMAIN r = 1..(N + 1)
      /\ DOMAIN q = 1..N /\ r[N + 1] = x /\ \A i \in 1..N : r[i] = q[i]
  BY <1>0
<1> HIDE DEF r, N
<1>2. \A i \in 1..(N + 1) : i \in 1..N \/ i = N + 1
  BY <1>1
<1>3. 1..N \subseteq 1..(N + 1) /\ N + 1 \in 1..(N + 1)
  BY <1>1
<1>4. r[N + 1][1] = d /\ \A i \in 1..N : r[i][1] = q[i][1]
  BY <1>0, <1>1
<1>5. ASSUME NEW y \in FirstsOf(r) PROVE y \in FirstsOf(q) \cup {d}
  <2>1. PICK i \in 1..(N + 1) : y = r[i][1]
    BY <1>1 DEF FirstsOf
  <2> QED
    BY <1>1, <1>2, <1>4, <2>1 DEF FirstsOf
<1>6. ASSUME NEW y \in FirstsOf(q) PROVE y \in FirstsOf(r)
  <2>1. PICK i \in 1..N : y = q[i][1]
    BY <1>1 DEF FirstsOf
  <2>2. i \in DOMAIN r /\ y = r[i][1]
    BY <1>1, <1>3, <1>4, <2>1
  <2> QED
    BY <2>2 DEF FirstsOf
<1>7. d \in FirstsOf(r)
  <2>1. N + 1 \in DOMAIN r /\ r[N + 1][1] = d
    BY <1>1, <1>3, <1>4
  <2> QED
    BY <2>1 DEF FirstsOf
<1>8. FirstsOf(r) = FirstsOf(q) \cup {d}
  BY <1>5, <1>6, <1>7
<1> QED
  BY <1>1, <1>8 DEF r, x

(* What the inspection of an entry e makes of a search s.                  *)
Inspected(s, e, t) ==
  /\ t \in Searches /\ Within(t)
  /\ t.at = s.at /\ t.query = s.query /\ t.root = s.root /\ t.max = s.max /\ t.visited = s.visited
  /\ t.changed = s.changed
  /\ Stacked(s) \subseteq Stacked(t) /\ (s.deep => t.deep)
  /\ Stacked(t) \subseteq Stacked(s) \cup (IF IsLink(e, s) THEN {e.to} ELSE {})
  /\ ~t.truncated =>
       /\ ~s.truncated /\ t.inspected = s.inspected + 1
       /\ Matched(t) = Matched(s) \cup (IF IsHit(e, s) THEN {e.to} ELSE {})
       /\ IsLink(e, s) => e.to \in Stacked(t) \/ t.deep

LEMMA InspectEntry ==
  ASSUME fileTree \in FileTrees, NEW s \in Searches, NEW e \in FileEntries, NEW depth \in Nat,
         Within(s)
  PROVE  Inspected(s, e, Inspects(s, e, depth))
<1> DEFINE counted == [s EXCEPT !.inspected = s.inspected + 1]
           hit == [counted EXCEPT !.matches = Append(counted.matches, e.to)]
           noted == IF e.name = s.query THEN hit ELSE counted
           t == Inspects(s, e, depth)
           directory == e.to \in Directories
<1>0. /\ s.inspected \in Nat /\ s.matches \in Seq(STRING) /\ s.max \in Nat
      /\ s.stack \in Seq(STRING \X Nat) /\ e.to \in STRING /\ MAX_SEARCH_ENTRIES \in Nat
      /\ MAX_SEARCH_DEPTH \in Nat /\ s.truncated \in BOOLEAN /\ s.deep \in BOOLEAN
      /\ Len(s.matches) \in Nat
  BY FilesAssumption DEF Searches, FileEntries
<1>1. /\ counted \in Searches /\ counted.inspected = s.inspected + 1 /\ counted.at = s.at
      /\ counted.query = s.query /\ counted.root = s.root /\ counted.max = s.max /\ counted.visited = s.visited
      /\ counted.changed = s.changed /\ counted.stack = s.stack /\ counted.deep = s.deep
      /\ counted.matches = s.matches /\ counted.truncated = s.truncated
  <2>1. s.inspected + 1 \in Nat
    BY <1>0
  <2> QED
    BY <2>1 DEF Searches
<1> HIDE DEF counted
<1>2. /\ hit \in Searches /\ hit.inspected = s.inspected + 1 /\ hit.at = s.at
      /\ hit.query = s.query /\ hit.root = s.root /\ hit.max = s.max /\ hit.visited = s.visited
      /\ hit.changed = s.changed /\ hit.stack = s.stack /\ hit.deep = s.deep
      /\ hit.matches = Append(s.matches, e.to) /\ hit.truncated = s.truncated
  <2>1. Append(counted.matches, e.to) \in Seq(STRING)
    BY <1>0, <1>1
  <2> QED
    BY <1>1, <2>1 DEF Searches
<1> HIDE DEF hit
<1>3. Len(hit.matches) = Len(s.matches) + 1 /\ Matched(hit) = Matched(s) \cup {e.to}
  <2>1. /\ Len(Append(s.matches, e.to)) = Len(s.matches) + 1
        /\ {Append(s.matches, e.to)[i] : i \in DOMAIN Append(s.matches, e.to)}
             = {s.matches[i] : i \in DOMAIN s.matches} \cup {e.to}
    BY <1>0, AppendMatch
  <2> QED
    BY <1>2, <2>1 DEF Matched
<1>4. Stacked(hit) = Stacked(s) /\ Stacked(counted) = Stacked(s) /\ Matched(counted) = Matched(s)
  BY <1>1, <1>2 DEF Stacked, Matched
<1>5. hit # counted
  BY <1>0, <1>1, <1>3
<1>6. CASE s.truncated
  <2>1. t = s
    BY <1>6 DEF Inspects
  <2> QED
    BY <1>6, <2>1 DEF Inspected, t
<1>7. CASE ~s.truncated /\ s.inspected + 1 > MAX_SEARCH_ENTRIES
  <2>1. t = [counted EXCEPT !.truncated = TRUE]
    BY <1>1, <1>7 DEF Inspects, counted
  <2>2. /\ t \in Searches /\ t.truncated /\ t.inspected = s.inspected + 1 /\ t.at = s.at
        /\ t.query = s.query /\ t.root = s.root /\ t.max = s.max /\ t.visited = s.visited
        /\ t.changed = s.changed /\ t.stack = s.stack /\ t.deep = s.deep
        /\ t.matches = s.matches
    BY <1>1, <2>1 DEF Searches
  <2> HIDE DEF t
  <2>3. Stacked(t) = Stacked(s) /\ Matched(t) = Matched(s)
    BY <2>2 DEF Stacked, Matched
  <2>4. Within(t)
    BY <1>0, <1>7, <2>2, <2>3 DEF Within
  <2> QED
    BY <2>2, <2>3, <2>4 DEF Inspected, t
<1>8. CASE /\ ~s.truncated /\ ~(s.inspected + 1 > MAX_SEARCH_ENTRIES)
           /\ e.hidden \/ e.to \notin Below[s.root]
  <2>1. t = counted
    BY <1>1, <1>8 DEF Inspects, counted
  <2>2. Within(t)
    BY <1>0, <1>1, <1>4, <1>8, <2>1 DEF Within
  <2>3. ~IsHit(e, s) /\ ~IsLink(e, s)
    BY <1>8 DEF IsHit, IsLink, InnerOf, Directories
  <2> QED
    BY <1>1, <1>4, <1>8, <2>1, <2>2, <2>3 DEF Inspected, t
<1> DEFINE Goes == /\ ~s.truncated /\ ~(s.inspected + 1 > MAX_SEARCH_ENTRIES)
                   /\ ~(e.hidden \/ e.to \notin Below[s.root])
                   /\ ~(Len(noted.matches) >= s.max /\ noted # counted)
<1>9. CASE /\ ~s.truncated /\ ~(s.inspected + 1 > MAX_SEARCH_ENTRIES)
           /\ ~(e.hidden \/ e.to \notin Below[s.root])
           /\ Len(noted.matches) >= s.max /\ noted # counted
  <2>1. t = [noted EXCEPT !.truncated = TRUE]
    BY <1>1, <1>9 DEF Inspects, counted, hit
  <2>2. noted = hit
    BY <1>9
  <2>3. /\ t \in Searches /\ t.truncated /\ t.inspected = s.inspected + 1 /\ t.at = s.at
        /\ t.query = s.query /\ t.root = s.root /\ t.max = s.max /\ t.visited = s.visited
        /\ t.changed = s.changed /\ t.stack = s.stack /\ t.deep = s.deep
        /\ t.matches = hit.matches
    <3>1. t = [hit EXCEPT !.truncated = TRUE]
      BY <2>1, <2>2
    <3> HIDE DEF t
    <3> QED
      BY <1>2, <3>1 DEF Searches
  <2> HIDE DEF t
  <2>4. Stacked(t) = Stacked(s) /\ Matched(t) = Matched(s) \cup {e.to}
    BY <1>3, <2>3 DEF Stacked, Matched
  <2>5. Within(t)
    BY <1>0, <1>3, <1>9, <2>3, <2>4 DEF Within
  <2> QED
    BY <2>3, <2>4, <2>5 DEF Inspected, t
<1>10. CASE Goes
  <2>1. t = IF directory /\ depth < MAX_SEARCH_DEPTH
            THEN [noted EXCEPT !.stack = Append(noted.stack, <<e.to, depth + 1>>)]
            ELSE [noted EXCEPT !.deep = noted.deep \/ directory]
    BY <1>1, <1>10 DEF Inspects, counted, hit
  <2>2. /\ noted \in Searches /\ noted.inspected = s.inspected + 1 /\ noted.at = s.at
        /\ noted.query = s.query /\ noted.root = s.root /\ noted.max = s.max /\ noted.visited = s.visited
        /\ noted.changed = s.changed /\ noted.stack = s.stack /\ noted.deep = s.deep
        /\ noted.truncated = s.truncated
    BY <1>1, <1>2
  <2>3. Len(noted.matches) < s.max
    <3>1. CASE noted = hit
      BY <1>0, <1>3, <1>5, <1>10, <3>1
    <3>2. CASE noted = counted
      BY <1>1, <1>10, <3>2 DEF Within
    <3> QED
      BY <3>1, <3>2
  <2>4. Matched(noted) = Matched(s) \cup (IF IsHit(e, s) THEN {e.to} ELSE {})
    BY <1>3, <1>4, <1>10 DEF IsHit
  <2> HIDE DEF noted, t
  <2>5. PICK stack \in Seq(STRING \X Nat), deep \in BOOLEAN :
          /\ t = [noted EXCEPT !.stack = stack, !.deep = deep]
          /\ Stacked(s) \subseteq FirstsOf(stack) /\ (s.deep => deep)
          /\ FirstsOf(stack)
               \subseteq Stacked(s) \cup (IF directory THEN {e.to} ELSE {})
          /\ directory => e.to \in FirstsOf(stack) \/ deep
    <3>1. CASE directory /\ depth < MAX_SEARCH_DEPTH
      <4> DEFINE stack == Append(s.stack, <<e.to, depth + 1>>)
      <4>1. t = [noted EXCEPT !.stack = stack, !.deep = s.deep]
        BY <2>1, <2>2, <3>1 DEF Searches
      <4>2. /\ stack \in Seq(STRING \X Nat)
            /\ FirstsOf(stack) = Stacked(s) \cup {e.to}
        <5>1. depth + 1 \in Nat
          OBVIOUS
        <5>2. /\ stack \in Seq(STRING \X Nat)
              /\ FirstsOf(stack)
                   = FirstsOf(s.stack) \cup {e.to}
          BY <1>0, <5>1, AppendStack
        <5> HIDE DEF stack
        <5> QED
          BY <5>2 DEF Stacked
      <4> HIDE DEF stack
      <4> QED
        BY <1>0, <3>1, <4>1, <4>2
    <3>2. CASE ~(directory /\ depth < MAX_SEARCH_DEPTH)
      <4>1. t = [noted EXCEPT !.stack = s.stack, !.deep = (s.deep \/ directory)]
        BY <2>1, <2>2, <3>2 DEF Searches
      <4>2. s.stack \in Seq(STRING \X Nat) /\ (s.deep \/ directory) \in BOOLEAN
        BY <1>0
      <4> QED
        BY <4>1, <4>2 DEF Stacked
    <3> QED
      BY <3>1, <3>2
  <2>6. /\ t \in Searches /\ t.inspected = s.inspected + 1 /\ t.at = s.at
        /\ t.query = s.query /\ t.root = s.root /\ t.max = s.max /\ t.visited = s.visited
        /\ t.changed = s.changed /\ t.stack = stack /\ t.deep = deep
        /\ t.matches = noted.matches /\ t.truncated = s.truncated
    BY <2>2, <2>5 DEF Searches
  <2>7. Matched(t) = Matched(noted) /\ Stacked(t) = FirstsOf(stack)
    BY <2>6 DEF Matched, Stacked
  <2>8. IsLink(e, s) <=> directory
    BY <1>10 DEF IsLink, InnerOf, Directories
  <2>9. Within(t)
    <3>1. Len(t.matches) < t.max /\ t.inspected <= MAX_SEARCH_ENTRIES
      BY <1>0, <1>10, <2>3, <2>6
    <3>2. Matched(t) \subseteq Below[s.root]
      BY <1>10, <2>4, <2>7 DEF Within, IsHit
    <3>3. Len(t.matches) \in Nat /\ t.max \in Nat /\ t.inspected \in Nat
      BY <2>6 DEF Searches
    <3> QED
      BY <1>0, <2>6, <3>1, <3>2, <3>3 DEF Within
  <2> QED
    BY <1>10, <2>4, <2>5, <2>6, <2>7, <2>8, <2>9 DEF Inspected, t
<1> QED
  BY <1>6, <1>7, <1>8, <1>9, <1>10

(* What the first n entries of a directory make of a search s.             *)
WalkedPart(s, entries, x, n) ==
  /\ x \in Searches /\ Within(x)
  /\ x.at = s.at /\ x.root = s.root /\ x.query = s.query /\ x.max = s.max
  /\ x.visited = s.visited /\ x.changed = s.changed
  /\ Stacked(s) \subseteq Stacked(x) /\ (s.deep => x.deep)
  /\ \A d \in Stacked(x) : d \in Stacked(s) \/ \E i \in 1..n : IsLink(entries[i], s) /\ d = entries[i].to
  /\ ~x.truncated =>
       /\ ~s.truncated /\ x.inspected = s.inspected + n
       /\ \A p : p \in Matched(x) <=>
            p \in Matched(s) \/ \E i \in 1..n : IsHit(entries[i], s) /\ p = entries[i].to
       /\ \A i \in 1..n : IsLink(entries[i], s) => entries[i].to \in Stacked(x) \/ x.deep

LEMMA InspectNext ==
  ASSUME NEW s \in Searches, NEW entries \in Seq(FileEntries), NEW n \in 1..Len(entries),
         NEW x, WalkedPart(s, entries, x, n - 1), NEW y, Inspected(x, entries[n], y)
  PROVE  WalkedPart(s, entries, y, n)
<1>1. /\ n \in Nat /\ n - 1 \in Nat /\ s.inspected \in Nat /\ x.inspected \in Nat
      /\ \A i \in 1..n : i \in 1..(n - 1) \/ i = n
      /\ 1..(n - 1) \subseteq 1..n /\ n \in 1..n
  BY DEF WalkedPart, Searches
<1> DEFINE e == entries[n]
<1>2. (IsLink(e, x) <=> IsLink(e, s)) /\ (IsHit(e, x) <=> IsHit(e, s))
  BY DEF WalkedPart, IsLink, IsHit, InnerOf, Directories
<1>3. /\ y \in Searches /\ Within(y)
      /\ y.at = s.at /\ y.root = s.root /\ y.query = s.query /\ y.max = s.max
      /\ y.visited = s.visited /\ y.changed = s.changed
      /\ Stacked(s) \subseteq Stacked(y) /\ (s.deep => y.deep)
  BY DEF WalkedPart, Inspected
<1>4. ASSUME NEW d \in Stacked(y)
      PROVE d \in Stacked(s) \/ \E i \in 1..n : IsLink(entries[i], s) /\ d = entries[i].to
  <2>1. d \in Stacked(x) \/ (IsLink(e, s) /\ d = e.to)
    BY <1>2, <1>4 DEF Inspected
  <2> QED
    BY <1>1, <2>1 DEF WalkedPart
<1>5. ASSUME ~y.truncated
      PROVE /\ ~s.truncated /\ y.inspected = s.inspected + n
            /\ \A p : p \in Matched(y) <=>
                 p \in Matched(s) \/ \E i \in 1..n : IsHit(entries[i], s) /\ p = entries[i].to
            /\ \A i \in 1..n : IsLink(entries[i], s) => entries[i].to \in Stacked(y) \/ y.deep
  <2>1. ~x.truncated /\ y.inspected = x.inspected + 1
    BY <1>5 DEF Inspected
  <2>2. \A p : p \in Matched(y) <=> p \in Matched(x) \/ (IsHit(e, s) /\ p = e.to)
    BY <1>2, <1>5 DEF Inspected
  <2>3. IsLink(e, s) => e.to \in Stacked(y) \/ y.deep
    BY <1>2, <1>5 DEF Inspected
  <2>4. Stacked(x) \subseteq Stacked(y) /\ (x.deep => y.deep)
    BY DEF Inspected
  <2>5. ~s.truncated /\ x.inspected = s.inspected + (n - 1)
    BY <2>1 DEF WalkedPart
  <2>6. \A p : p \in Matched(x) <=>
          p \in Matched(s) \/ \E i \in 1..(n - 1) : IsHit(entries[i], s) /\ p = entries[i].to
    BY <2>1 DEF WalkedPart
  <2>7. \A i \in 1..(n - 1) : IsLink(entries[i], s) => entries[i].to \in Stacked(x) \/ x.deep
    BY <2>1 DEF WalkedPart
  <2>8. y.inspected = s.inspected + n
    BY <1>1, <2>1, <2>5
  <2>9. ASSUME NEW p PROVE p \in Matched(y) <=>
          p \in Matched(s) \/ \E i \in 1..n : IsHit(entries[i], s) /\ p = entries[i].to
    BY <1>1, <2>2, <2>6
  <2>10. ASSUME NEW i \in 1..n, IsLink(entries[i], s) PROVE entries[i].to \in Stacked(y) \/ y.deep
    BY <1>1, <2>3, <2>4, <2>7, <2>10
  <2> QED
    BY <2>5, <2>8, <2>9, <2>10
<1> QED
  BY <1>3, <1>4, <1>5 DEF WalkedPart

LEMMA WalkDirectory ==
  ASSUME fileTree \in FileTrees, NEW s \in Searches, NEW entries \in Seq(FileEntries),
         NEW depth \in Nat, Within(s)
  PROVE  WalkedPart(s, entries, Walks(s, entries, depth), Len(entries))
<1> DEFINE N == Len(entries)
           Live == {x \in Searches : Within(x)}
           step == [n \in 1..N |-> [x \in Live |-> Inspects(x, entries[n], depth)]]
           IsAfter(g) == g = [n \in 0..N |->
             IF n = 0 THEN s ELSE Inspects(g[n - 1], entries[n], depth)]
           after == CHOOSE g : IsAfter(g)
<1>1. /\ N \in Nat /\ 0 \in 0..N /\ \A n \in 1..N : n \in 0..N /\ n # 0 /\ n - 1 \in 0..N
      /\ \A n \in 1..N : entries[n] \in FileEntries
  OBVIOUS
<1>2. Walks(s, entries, depth) = after[N]
  BY DEF Walks
<1> HIDE DEF N
<1>3. ASSUME NEW x \in Live, NEW n \in 1..N
      PROVE  Inspected(x, entries[n], Inspects(x, entries[n], depth))
  <2>1. x \in Searches /\ Within(x) /\ entries[n] \in FileEntries
    BY <1>1
  <2> QED
    BY <2>1, InspectEntry
<1>4. \A x \in Live, n \in 1..N : Inspects(x, entries[n], depth) \in Live
  BY <1>3 DEF Inspected
<1>5. s \in Live
  OBVIOUS
<1> HIDE DEF Live
<1>6. step \in [1..N -> [Live -> Live]]
  BY <1>4
<1>7. \A x \in Live, n \in 1..N : step[n][x] = Inspects(x, entries[n], depth)
  OBVIOUS
<1> HIDE DEF step
<1>8. PICK f : IsWalk(f, N, Live, s, step)
  BY <1>1, <1>5, <1>6, WalkExists, Zenon
<1>9. IsAfter(f)
  <2>1. \A n \in 1..N : f[n - 1] \in Live /\ f[n] = Inspects(f[n - 1], entries[n], depth)
    BY <1>1, <1>7, <1>8 DEF IsWalk
  <2>2. \A n \in 0..N : n # 0 => n \in 1..N
    BY <1>1
  <2>3. \A n \in 0..N : f[n] = IF n = 0 THEN s ELSE Inspects(f[n - 1], entries[n], depth)
    BY <1>8, <2>1, <2>2 DEF IsWalk
  <2> QED
    BY <1>8, <2>3 DEF IsWalk
<1>10. IsAfter(after)
  BY <1>9
<1> HIDE DEF after
<1>11. after[0] = s /\ \A n \in 1..N : after[n] = Inspects(after[n - 1], entries[n], depth)
  BY <1>1, <1>10
<1> HIDE DEF IsAfter
<1> DEFINE P == {n \in 0..N : WalkedPart(s, entries, after[n], n)}
<1>12. 0 \in P
  <2>1. 1..0 = {} /\ s.inspected + 0 = s.inspected
    BY DEF Searches
  <2>2. WalkedPart(s, entries, s, 0)
    BY <2>1 DEF WalkedPart
  <2> QED
    BY <1>1, <1>11, <2>2
<1>13. ASSUME NEW n \in 1..N, n - 1 \in P PROVE n \in P
  <2>1. WalkedPart(s, entries, after[n - 1], n - 1)
    BY <1>13
  <2>2. after[n - 1] \in Live
    BY <2>1 DEF WalkedPart, Live
  <2>3. Inspected(after[n - 1], entries[n], after[n])
    BY <1>3, <1>11, <2>2
  <2>4. n \in 1..Len(entries)
    BY DEF N
  <2>5. WalkedPart(s, entries, after[n], n)
    BY <2>1, <2>3, <2>4, InspectNext
  <2> QED
    BY <1>1, <2>5
<1> HIDE DEF P
<1>14. \A n \in 0..N : n \in P
  BY <1>1, <1>12, <1>13, RangeInduction
<1>15. N \in P
  BY <1>1, <1>14
<1> QED
  BY <1>2, <1>15 DEF P, N

LEMMA CountDirectory ==
  ASSUME NEW tree, NEW V, NEW d, d \notin V, NEW N \in Nat, DOMAIN tree[d] = 1..N,
         IsFiniteSet(EntriesOf(tree, V))
  PROVE  /\ IsFiniteSet(EntriesOf(tree, V \cup {d}))
         /\ Cardinality(EntriesOf(tree, V \cup {d})) = Cardinality(EntriesOf(tree, V)) + N
<1> DEFINE E == EntriesOf(tree, V)
           D == {d} \X (1..N)
<1>1. EntriesOf(tree, V \cup {d}) = E \cup D
  BY DEF EntriesOf
<1>2. E \cap D = {}
  BY DEF EntriesOf
<1>3. IsFiniteSet(1..N) /\ Cardinality(1..N) = N
  BY FS_Interval
<1>4. IsFiniteSet({d}) /\ Cardinality({d}) = 1
  BY FS_Singleton
<1>5. IsFiniteSet(D) /\ Cardinality(D) = 1 * N
  <2> HIDE DEF D
  <2>1. IsFiniteSet({d} \X (1..N)) /\ Cardinality({d} \X (1..N)) = Cardinality({d}) * Cardinality(1..N)
    BY <1>3, <1>4, FS_Product
  <2> QED
    BY <1>3, <1>4, <2>1 DEF D
<1> HIDE DEF E, D
<1>6. IsFiniteSet(E) /\ Cardinality(E) \in Nat
  BY FS_CardinalityType DEF E
<1>7. /\ IsFiniteSet(E \cup D)
      /\ Cardinality(E \cup D) = Cardinality(E) + Cardinality(D) - Cardinality(E \cap D)
  BY <1>5, <1>6, FS_Union
<1>8. Cardinality(E \cap D) = 0
  BY <1>2, FS_EmptySet
<1>9. Cardinality(E \cup D) = Cardinality(E) + N
  BY <1>5, <1>6, <1>7, <1>8
<1> QED
  BY <1>1, <1>7, <1>9 DEF E

LEMMA PopStack ==
  ASSUME NEW q \in Seq(STRING \X Nat), q # <<>>
  PROVE  /\ SubSeq(q, 1, Len(q) - 1) \in Seq(STRING \X Nat)
         /\ q[Len(q)] \in STRING \X Nat
         /\ FirstsOf(q) = FirstsOf(SubSeq(q, 1, Len(q) - 1)) \cup {q[Len(q)][1]}
<1> DEFINE N == Len(q)
           r == SubSeq(q, 1, N - 1)
<1>1. N \in Nat \ {0} /\ DOMAIN q = 1..N
  OBVIOUS
<1>2. /\ r \in Seq(STRING \X Nat) /\ DOMAIN r = 1..(N - 1) /\ \A i \in 1..(N - 1) : r[i] = q[i]
  BY <1>1
<1>3. q[N] \in STRING \X Nat
  BY <1>1
<1> HIDE DEF N, r
<1>4. /\ \A i \in 1..N : i \in 1..(N - 1) \/ i = N
      /\ 1..(N - 1) \subseteq 1..N /\ N \in 1..N
  BY <1>1
<1>5. ASSUME NEW y \in FirstsOf(q) PROVE y \in FirstsOf(r) \cup {q[N][1]}
  <2>1. PICK i \in 1..N : y = q[i][1]
    BY <1>1 DEF FirstsOf
  <2> QED
    BY <1>2, <1>4, <2>1 DEF FirstsOf
<1>6. ASSUME NEW y \in FirstsOf(r) PROVE y \in FirstsOf(q)
  <2>1. PICK i \in 1..(N - 1) : y = r[i][1]
    BY <1>2 DEF FirstsOf
  <2>2. i \in DOMAIN q /\ y = q[i][1]
    BY <1>1, <1>2, <1>4, <2>1
  <2> QED
    BY <2>2 DEF FirstsOf
<1>7. q[N][1] \in FirstsOf(q)
  BY <1>1, <1>4 DEF FirstsOf
<1>8. FirstsOf(q) = FirstsOf(r) \cup {q[N][1]}
  BY <1>5, <1>6, <1>7
<1> QED
  BY <1>2, <1>3, <1>8 DEF N, r

(* A walk of an unchanged tree: it knows only directories that can be      *)
(* reached, where it began is among them, and until it cuts something off  *)
(* it has counted and matched what the visited directories hold and will   *)
(* visit what they lead to.                                                *)
Known(s) == s.visited \cup Stacked(s)

KnowsReached(tree, s) ==
  /\ s.root \in Known(s)
  /\ Known(s) \subseteq Reached(tree, s.root)
HasCounted(tree, s) ==
  /\ IsFiniteSet(EntriesOf(tree, s.visited))
  /\ ~s.truncated => s.inspected = Cardinality(EntriesOf(tree, s.visited))
HasMatched(tree, s) == ~s.truncated => Matched(s) = Targets(tree, s)
HasFollowed(tree, s) == ~s.truncated /\ ~s.deep =>
  \A d \in s.visited : \A i \in DOMAIN tree[d] :
    ~tree[d][i].hidden /\ tree[d][i].to \in InnerOf(tree, s) => tree[d][i].to \in Known(s)

Walked(tree, s) ==
  /\ KnowsReached(tree, s) /\ HasCounted(tree, s) /\ HasMatched(tree, s) /\ HasFollowed(tree, s)

LEMMA FirstReached ==
  ASSUME NEW tree, NEW from \in DOMAIN tree, from \in Below[from]
  PROVE  from \in Reached(tree, from)
BY DEF Reached

LEMMA ReachesNext ==
  ASSUME NEW tree, NEW from, NEW d \in Reached(tree, from), NEW i \in DOMAIN tree[d],
         ~tree[d][i].hidden, tree[d][i].to \in DOMAIN tree \cap Below[from]
  PROVE  tree[d][i].to \in Reached(tree, from)
BY DEF Reached, IsClosed

LEMMA ClosedIsReached ==
  ASSUME NEW tree, NEW from, NEW S \in SUBSET (DOMAIN tree \cap Below[from]), from \in S,
         IsClosed(tree, S, DOMAIN tree \cap Below[from])
  PROVE  Reached(tree, from) \subseteq S
BY DEF Reached

LEMMA VisitDirectory ==
  ASSUME fileTree \in FileTrees, NEW s \in Searches, Within(s), ~s.truncated, Walked(fileTree, s),
         NEW d \in Directories, NEW stack \in Seq(STRING \X Nat), NEW depth \in Nat,
         Stacked(s) = FirstsOf(stack) \cup {d}
  PROVE  LET t == OneDirectory([s EXCEPT !.stack = stack], d, depth)
         IN /\ t \in Searches /\ Within(t) /\ t.at = s.at /\ t.changed = s.changed
            /\ Walked(fileTree, t)
<1> DEFINE popped == [s EXCEPT !.stack = stack]
           t == OneDirectory(popped, d, depth)
           begun == [popped EXCEPT !.visited = popped.visited \cup {d}]
           entries == fileTree[d]
           N == Len(entries)
<1> SUFFICES /\ t \in Searches /\ Within(t) /\ t.at = s.at /\ t.changed = s.changed
             /\ Walked(fileTree, t)
  OBVIOUS
<1>0. /\ s.stack \in Seq(STRING \X Nat) /\ s.visited \in SUBSET STRING /\ d \in STRING
      /\ entries \in Seq(FileEntries) /\ N \in Nat /\ DOMAIN entries = 1..N
      /\ s.inspected \in Nat /\ d \in Below[d]
  BY TreeFacts DEF Searches
<1>1. /\ popped \in Searches /\ popped.at = s.at /\ popped.root = s.root /\ popped.query = s.query
      /\ popped.max = s.max /\ popped.stack = stack /\ popped.visited = s.visited
      /\ popped.matches = s.matches /\ popped.inspected = s.inspected
      /\ popped.truncated = s.truncated /\ popped.changed = s.changed /\ popped.deep = s.deep
  BY DEF Searches
<1> HIDE DEF popped
<1>2. /\ Stacked(popped) = FirstsOf(stack) /\ Matched(popped) = Matched(s)
      /\ InnerOf(fileTree, popped) = InnerOf(fileTree, s)
      /\ Targets(fileTree, popped) = Targets(fileTree, s)
  BY <1>1 DEF Stacked, Matched, InnerOf, Targets, Hits
<1>3. d \in Reached(fileTree, s.root) /\ d \in Below[s.root]
  <2>1. d \in Reached(fileTree, s.root)
    BY DEF Walked, KnowsReached, Known
  <2> QED
    BY <2>1 DEF Reached
<1>4. Within(popped)
  BY <1>1, <1>2 DEF Within
<1>5. CASE d \in s.visited
  <2>1. t = popped
    BY <1>1, <1>5 DEF OneDirectory
  <2>2. Known(popped) = Known(s)
    BY <1>1, <1>2, <1>5 DEF Known
  <2>3. Walked(fileTree, popped)
    BY <1>1, <1>2, <2>2 DEF Walked, KnowsReached, HasCounted, HasMatched, HasFollowed
  <2> QED
    BY <1>1, <1>4, <2>1, <2>3
<1>6. CASE d \notin s.visited
  <2>1. t = Walks(begun, entries, depth)
    BY <1>1, <1>3, <1>6 DEF OneDirectory
  <2>2. /\ begun \in Searches /\ begun.at = s.at /\ begun.root = s.root /\ begun.query = s.query
        /\ begun.max = s.max /\ begun.stack = stack /\ begun.visited = s.visited \cup {d}
        /\ begun.matches = s.matches /\ begun.inspected = s.inspected
        /\ begun.truncated = s.truncated /\ begun.changed = s.changed /\ begun.deep = s.deep
    <3>1. popped.visited \cup {d} \in SUBSET STRING
      BY <1>0, <1>1
    <3> QED
      BY <1>1, <3>1 DEF Searches
  <2> HIDE DEF t, begun, entries, N
  <2>3. Stacked(begun) = FirstsOf(stack) /\ Matched(begun) = Matched(s)
    BY <2>2 DEF Stacked, Matched
  <2>4. Within(begun)
    BY <2>2, <2>3 DEF Within
  <2>5. WalkedPart(begun, entries, t, N)
    BY <1>0, <2>1, <2>2, <2>4, WalkDirectory DEF N
  <2>6. /\ t \in Searches /\ Within(t) /\ t.at = s.at /\ t.root = s.root /\ t.query = s.query
        /\ t.changed = s.changed /\ t.visited = s.visited \cup {d}
        /\ FirstsOf(stack) \subseteq Stacked(t) /\ (s.deep => t.deep)
    BY <2>2, <2>3, <2>5 DEF WalkedPart
  <2>7. \A e : /\ IsLink(e, begun) <=> ~e.hidden /\ e.to \in InnerOf(fileTree, s)
               /\ IsHit(e, begun) <=> e.name = s.query /\ ~e.hidden /\ e.to \in Below[s.root]
    BY <2>2 DEF IsLink, IsHit, InnerOf, Directories
  <2>8. Known(s) \subseteq Known(t)
    BY <2>6 DEF Known
  <2>9. KnowsReached(fileTree, t)
    <3>1. ASSUME NEW x \in Stacked(t) PROVE x \in Reached(fileTree, s.root)
      <4>1. CASE x \in FirstsOf(stack)
        BY <4>1 DEF Walked, KnowsReached, Known
      <4>2. CASE x \notin FirstsOf(stack)
        <5>1. PICK i \in 1..N : IsLink(entries[i], begun) /\ x = entries[i].to
          BY <2>3, <2>5, <3>1, <4>2 DEF WalkedPart
        <5>2. i \in DOMAIN fileTree[d] /\ ~fileTree[d][i].hidden /\ x = fileTree[d][i].to
              /\ x \in DOMAIN fileTree \cap Below[s.root]
          BY <1>0, <2>7, <5>1 DEF entries, InnerOf
        <5> QED
          BY <1>3, <5>2, ReachesNext
      <4> QED
        BY <4>1, <4>2
    <3>2. s.visited \cup {d} \subseteq Reached(fileTree, s.root)
      BY <1>3 DEF Walked, KnowsReached, Known
    <3> QED
      BY <2>6, <2>8, <3>1, <3>2 DEF Walked, KnowsReached, Known
  <2>10. HasCounted(fileTree, t)
    <3>1. /\ IsFiniteSet(EntriesOf(fileTree, s.visited \cup {d}))
          /\ Cardinality(EntriesOf(fileTree, s.visited \cup {d}))
               = Cardinality(EntriesOf(fileTree, s.visited)) + N
      <4> DEFINE V == s.visited
                 tree == fileTree
      <4>1. IsFiniteSet(EntriesOf(tree, V))
        BY DEF Walked, HasCounted
      <4>2. d \notin V /\ N \in Nat /\ DOMAIN tree[d] = 1..N
        BY <1>0, <1>6 DEF entries
      <4> HIDE DEF V, tree
      <4>3. /\ IsFiniteSet(EntriesOf(tree, V \cup {d}))
            /\ Cardinality(EntriesOf(tree, V \cup {d})) = Cardinality(EntriesOf(tree, V)) + N
        BY <4>1, <4>2, CountDirectory
      <4> QED
        BY <4>3 DEF V, tree
    <3>2. ~t.truncated => t.inspected = s.inspected + N
      BY <2>2, <2>5 DEF WalkedPart
    <3> QED
      BY <2>6, <3>1, <3>2 DEF Walked, HasCounted
  <2>11. HasMatched(fileTree, t)
    <3> SUFFICES ASSUME ~t.truncated PROVE Matched(t) = Targets(fileTree, t)
      BY DEF HasMatched
    <3>1. \A p : p \in Matched(t) <=>
            p \in Matched(s) \/ \E i \in 1..N : IsHit(entries[i], begun) /\ p = entries[i].to
      BY <2>3, <2>5 DEF WalkedPart
    <3>2. Matched(s) = Targets(fileTree, s)
      BY DEF Walked, HasMatched
    <3>3. \A c : Hits(fileTree, c, t) = Hits(fileTree, c, s)
      BY <2>6 DEF Hits
    <3>4. \A p : p \in Hits(fileTree, d, s) <=>
            \E i \in 1..N : IsHit(entries[i], begun) /\ p = entries[i].to
      BY <1>0, <2>7 DEF Hits, entries
    <3>5. \A p : p \in Targets(fileTree, t) <=>
            p \in Targets(fileTree, s) \/ p \in Hits(fileTree, d, s)
      BY <2>6, <3>3 DEF Targets
    <3> QED
      BY <3>1, <3>2, <3>4, <3>5
  <2>12. HasFollowed(fileTree, t)
    <3> SUFFICES ASSUME ~t.truncated, ~t.deep, NEW c \in t.visited, NEW i \in DOMAIN fileTree[c],
                        ~fileTree[c][i].hidden, fileTree[c][i].to \in InnerOf(fileTree, t)
                 PROVE  fileTree[c][i].to \in Known(t)
      BY DEF HasFollowed
    <3>0. InnerOf(fileTree, t) = InnerOf(fileTree, s)
      BY <2>6 DEF InnerOf
    <3>1. CASE c = d
      <4>1. i \in 1..N /\ IsLink(entries[i], begun)
        BY <1>0, <2>7, <3>0, <3>1 DEF entries
      <4>2. entries[i].to \in Stacked(t)
        BY <2>5, <4>1 DEF WalkedPart
      <4> QED
        BY <3>1, <4>2 DEF Known, entries
    <3>2. CASE c # d
      <4>1. c \in s.visited /\ ~s.deep
        BY <2>6, <3>2
      <4>2. fileTree[c][i].to \in Known(s)
        BY <3>0, <4>1 DEF Walked, HasFollowed
      <4> QED
        BY <2>8, <4>2
    <3> QED
      BY <3>1, <3>2
  <2>13. Walked(fileTree, t)
    BY <2>9, <2>10, <2>11, <2>12 DEF Walked
  <2> QED
    BY <2>6, <2>13
<1> QED
  BY <1>5, <1>6

(* When the tree has changed, a walk still stays within its limits.        *)
LEMMA VisitWithin ==
  ASSUME fileTree \in FileTrees, NEW s \in Searches, Within(s),
         NEW d \in Directories, NEW stack \in Seq(STRING \X Nat), NEW depth \in Nat
  PROVE  LET t == OneDirectory([s EXCEPT !.stack = stack], d, depth)
         IN t \in Searches /\ Within(t) /\ t.at = s.at /\ t.changed = s.changed
<1> DEFINE popped == [s EXCEPT !.stack = stack]
           t == OneDirectory(popped, d, depth)
           begun == [popped EXCEPT !.visited = popped.visited \cup {d}]
<1> SUFFICES t \in Searches /\ Within(t) /\ t.at = s.at /\ t.changed = s.changed
  OBVIOUS
<1>0. s.visited \in SUBSET STRING /\ d \in STRING /\ fileTree[d] \in Seq(FileEntries)
  BY TreeFacts DEF Searches
<1>1. /\ popped \in Searches /\ popped.at = s.at /\ popped.root = s.root /\ popped.max = s.max
      /\ popped.visited = s.visited /\ popped.matches = s.matches
      /\ popped.inspected = s.inspected /\ popped.truncated = s.truncated
      /\ popped.changed = s.changed
  BY DEF Searches
<1> HIDE DEF popped
<1>2. Within(popped)
  BY <1>1 DEF Within, Matched
<1>3. /\ begun \in Searches /\ begun.at = s.at /\ begun.root = s.root /\ begun.max = s.max
      /\ begun.matches = s.matches /\ begun.inspected = s.inspected
      /\ begun.truncated = s.truncated /\ begun.changed = s.changed
  <2>1. popped.visited \cup {d} \in SUBSET STRING
    BY <1>0, <1>1
  <2> QED
    BY <1>1, <2>1 DEF Searches
<1>4. t = popped \/ t = Walks(begun, fileTree[d], depth)
  BY <1>1 DEF OneDirectory
<1> HIDE DEF begun, t
<1>5. Within(begun)
  BY <1>3 DEF Within, Matched
<1>6. WalkedPart(begun, fileTree[d], Walks(begun, fileTree[d], depth), Len(fileTree[d]))
  BY <1>0, <1>3, <1>5, WalkDirectory
<1>7. CASE t = popped
  BY <1>1, <1>2, <1>7
<1>8. CASE t = Walks(begun, fileTree[d], depth)
  <2>1. t \in Searches /\ Within(t) /\ t.at = begun.at /\ t.changed = begun.changed
    BY <1>6, <1>8 DEF WalkedPart
  <2> QED
    BY <1>3, <2>1
<1> QED
  BY <1>4, <1>7, <1>8

(* What a view of a file promises.                                         *)
ViewIsTrue(v) ==
  /\ v.code = "ok" => /\ v.text = Prefix(v.bytes, v.max)
                      /\ v.truncated <=> v.text # v.bytes
  /\ v.code = "file_not_utf8" =>
       ~IsUtf8(v.bytes) \/ (v.max < Len(v.bytes) /\ v.bytes[v.max] = "h")

FilesIInv ==
  /\ fileTree \in FileTrees /\ fileSearch \in Searches
  /\ Len(fileSearch.matches) <= fileSearch.max
  /\ Matched(fileSearch) \subseteq Below[fileSearch.root]
  /\ fileSearch.inspected <= MAX_SEARCH_ENTRIES + 1
  /\ fileSearch.at = "walking" => Within(fileSearch)
  /\ fileSearch.at \in {"walking", "returned"} /\ ~fileSearch.changed => Walked(fileTree, fileSearch)
  /\ fileSearch.at = "returned" => fileSearch.stack = <<>> \/ fileSearch.truncated
  /\ ViewIsTrue(fileView)

LEMMA PrefixFacts ==
  ASSUME NEW bytes \in Seq(STRING), NEW n \in Nat
  PROVE  /\ Prefix(bytes, n) \in Seq(STRING)
         /\ Len(Prefix(bytes, n)) = IF n < Len(bytes) THEN n ELSE Len(bytes)
         /\ \A i \in 1..Len(Prefix(bytes, n)) : Prefix(bytes, n)[i] = bytes[i]
<1> DEFINE m == IF n < Len(bytes) THEN n ELSE Len(bytes)
<1>1. m \in Nat /\ m <= Len(bytes) /\ Prefix(bytes, n) = SubSeq(bytes, 1, m)
  BY DEF Prefix
<1> HIDE DEF m
<1>2. /\ SubSeq(bytes, 1, m) \in Seq(STRING) /\ Len(SubSeq(bytes, 1, m)) = m
      /\ \A i \in 1..m : SubSeq(bytes, 1, m)[i] = bytes[i]
  BY <1>1
<1> QED
  BY <1>1, <1>2 DEF m

LEMMA CutAtTheLimit ==
  ASSUME NEW bytes \in Seq(STRING), NEW max \in Nat
  PROVE  LET got == ReadsOneMore(bytes, max)
         IN /\ Prefix(got, max) = Prefix(bytes, max)
            /\ Len(got) > max <=> Prefix(bytes, max) # bytes
<1> DEFINE got == Prefix(bytes, max + 1)
           shown == Prefix(got, max)
           wanted == Prefix(bytes, max)
<1>1. /\ got \in Seq(STRING) /\ Len(got) = (IF max + 1 < Len(bytes) THEN max + 1 ELSE Len(bytes))
      /\ \A i \in 1..Len(got) : got[i] = bytes[i]
  <2>1. max + 1 \in Nat
    OBVIOUS
  <2> QED
    BY <2>1, PrefixFacts
<1>2. ReadsOneMore(bytes, max) = got
  BY DEF ReadsOneMore
<1> HIDE DEF got
<1>3. /\ shown \in Seq(STRING) /\ Len(shown) = (IF max < Len(got) THEN max ELSE Len(got))
      /\ \A i \in 1..Len(shown) : shown[i] = got[i]
  BY <1>1, PrefixFacts
<1>4. /\ wanted \in Seq(STRING) /\ Len(wanted) = (IF max < Len(bytes) THEN max ELSE Len(bytes))
      /\ \A i \in 1..Len(wanted) : wanted[i] = bytes[i]
  BY PrefixFacts
<1> HIDE DEF shown, wanted
<1>5. Len(bytes) \in Nat /\ Len(got) \in Nat /\ Len(shown) \in Nat /\ Len(wanted) \in Nat
  BY <1>1, <1>3, <1>4
<1>6. shown = wanted
  <2>1. Len(shown) = Len(wanted)
    BY <1>1, <1>3, <1>4, <1>5
  <2>2. \A i \in 1..Len(shown) : i \in 1..Len(got)
    BY <1>3, <1>5
  <2>3. \A i \in 1..Len(shown) : shown[i] = wanted[i]
    BY <1>1, <1>3, <1>4, <2>1, <2>2
  <2> QED
    BY <1>3, <1>4, <2>1, <2>3, SeqEqual
<1>7. CASE max < Len(bytes)
  <2>1. Len(got) > max /\ Len(wanted) # Len(bytes)
    BY <1>1, <1>4, <1>5, <1>7
  <2> QED
    BY <1>2, <1>6, <2>1 DEF shown, wanted
<1>8. CASE ~(max < Len(bytes))
  <2>1. ~(Len(got) > max) /\ Len(wanted) = Len(bytes)
    BY <1>1, <1>4, <1>5, <1>8
  <2>2. wanted = bytes
    BY <1>4, <2>1, SeqEqual
  <2> QED
    BY <1>2, <1>6, <2>1, <2>2 DEF shown, wanted
<1> QED
  BY <1>7, <1>8

LEMMA BeginningOfText ==
  ASSUME NEW bytes \in Seq(STRING), NEW max \in Nat \ {0}, IsUtf8(bytes),
         ~(max < Len(bytes) /\ bytes[max] = "h")
  PROVE  IsUtf8(Prefix(bytes, max))
<1> DEFINE shown == Prefix(bytes, max)
<1>1. /\ shown \in Seq(STRING) /\ Len(shown) = (IF max < Len(bytes) THEN max ELSE Len(bytes))
      /\ \A i \in 1..Len(shown) : shown[i] = bytes[i]
  BY PrefixFacts
<1> HIDE DEF shown
<1>2. /\ Len(bytes) \in Nat /\ DOMAIN bytes = 1..Len(bytes) /\ Len(shown) \in Nat
      /\ DOMAIN shown = 1..Len(shown)
  BY <1>1
<1>3. SUFFICES ASSUME NEW i \in 1..Len(shown)
      PROVE  /\ shown[i] # "x"
             /\ shown[i] = "h" => i < Len(shown) /\ shown[i + 1] = "t"
             /\ shown[i] = "t" => i > 1 /\ shown[i - 1] = "h"
  BY <1>2 DEF IsUtf8, shown
<1>4. i \in 1..Len(bytes) /\ shown[i] = bytes[i]
  BY <1>1, <1>2
<1>5. /\ bytes[i] # "x"
      /\ bytes[i] = "h" => i < Len(bytes) /\ bytes[i + 1] = "t"
      /\ bytes[i] = "t" => i > 1 /\ bytes[i - 1] = "h"
  BY <1>2, <1>4 DEF IsUtf8
<1>6. ASSUME shown[i] = "h" PROVE i < Len(shown) /\ shown[i + 1] = "t"
  <2>1. i < Len(bytes) /\ bytes[i + 1] = "t"
    BY <1>4, <1>5, <1>6
  <2>2. i # Len(shown)
    <3>1. CASE max < Len(bytes)
      BY <1>1, <1>4, <1>6, <3>1
    <3>2. CASE ~(max < Len(bytes))
      BY <1>1, <2>1, <3>2
    <3> QED
      BY <3>1, <3>2
  <2>3. i < Len(shown) /\ i + 1 \in 1..Len(shown)
    <3> DEFINE m == Len(shown)
    <3>1. m \in Nat /\ i \in 1..m /\ i # m
      BY <1>2, <2>2
    <3> HIDE DEF m
    <3>2. i < m /\ i + 1 \in 1..m
      BY <3>1
    <3> QED
      BY <3>2 DEF m
  <2> QED
    BY <1>1, <2>1, <2>3
<1>7. ASSUME shown[i] = "t" PROVE i > 1 /\ shown[i - 1] = "h"
  <2>1. i > 1 /\ bytes[i - 1] = "h"
    BY <1>4, <1>5, <1>7
  <2>2. i - 1 \in 1..Len(shown)
    BY <1>2, <2>1
  <2> QED
    BY <1>1, <2>1, <2>2
<1> QED
  BY <1>4, <1>5, <1>6, <1>7

LEMMA FilesBegin == FilesInit => FilesIInv
<1> SUFFICES ASSUME FilesInit PROVE FilesIInv
  OBVIOUS
<1>1. fileTree \in FileTrees /\ fileSearch = NoSearch /\ fileView = NoView
  BY DEF FilesInit
<1>2. <<>> \in Seq(STRING) /\ <<>> \in Seq(STRING \X Nat) /\ Len(<<>>) = 0 /\ DOMAIN <<>> = {}
  OBVIOUS
<1>3. NoSearch \in Searches
  <2>1. "idle" \in SearchStages
    BY DEF SearchStages
  <2>2. "none" \in Words
    BY DEF Words
  <2>3. {} \in SUBSET STRING
    OBVIOUS
  <2> QED
    BY <1>2, <2>1, <2>2, <2>3 DEF NoSearch, Searches
<1>4. Matched(NoSearch) = {}
  BY <1>2 DEF Matched, NoSearch
<1>5. ViewIsTrue(NoView)
  BY DEF NoView, ViewIsTrue
<1>6. /\ Len(NoSearch.matches) <= NoSearch.max /\ NoSearch.inspected <= MAX_SEARCH_ENTRIES + 1
      /\ NoSearch.at = "idle"
  BY <1>2, FilesAssumption DEF NoSearch
<1> QED
  BY <1>1, <1>3, <1>4, <1>5, <1>6 DEF FilesIInv

LEMMA NothingFound == Len(<<>>) = 0 /\ DOMAIN <<>> = {} /\ MAX_SEARCH_ENTRIES \in Nat
<1>1. Len(<<>>) = 0 /\ DOMAIN <<>> = {}
  OBVIOUS
<1>2. MAX_SEARCH_ENTRIES \in Nat
  BY FilesAssumption
<1> QED
  BY <1>1, <1>2

LEMMA OneOnStack ==
  ASSUME NEW d \in STRING
  PROVE  << <<d, 0>> >> \in Seq(STRING \X Nat) /\ FirstsOf(<< <<d, 0>> >>) = {d}
<1> DEFINE x == <<d, 0>>
<1>1. x \in STRING \X Nat /\ x[1] = d
  OBVIOUS
<1> HIDE DEF x
<1>2. <<x>> \in Seq(STRING \X Nat)
  BY <1>1
<1>3. DOMAIN <<x>> = {1} /\ <<x>>[1] = x
  OBVIOUS
<1>4. FirstsOf(<<x>>) = {d}
  BY <1>1, <1>3 DEF FirstsOf
<1> QED
  BY <1>2, <1>4 DEF x

LEMMA BeginsSearch ==
  ASSUME FilesIInv, NEW granted \in BOOLEAN, NEW query \in Words, NEW max \in Nat, NEW from,
         SearchBegins(granted, query, max, from)
  PROVE  FilesIInv'
<1>1. fileSearch = NoSearch /\ fileTree' = fileTree /\ fileView' = fileView
  BY DEF SearchBegins
<1>2. fileTree \in FileTrees /\ NoSearch \in Searches /\ ViewIsTrue(fileView)
  BY <1>1 DEF FilesIInv
<1>3. ViewIsTrue(fileView)'
  BY <1>1, <1>2 DEF ViewIsTrue
<1>4. CASE fileSearch' = [NoSearch EXCEPT !.at = "refused"]
  <2> DEFINE t == [NoSearch EXCEPT !.at = "refused"]
  <2>1. t \in Searches /\ t.at = "refused" /\ t.matches = <<>> /\ t.max = 0 /\ t.inspected = 0
    <3>1. "refused" \in SearchStages
      BY DEF SearchStages
    <3> QED
      BY <1>2, <3>1 DEF NoSearch, Searches
  <2> HIDE DEF t
  <2>2. Len(t.matches) <= t.max /\ t.inspected <= MAX_SEARCH_ENTRIES + 1 /\ Matched(t) = {}
    <3>1. Len(t.matches) = 0 /\ DOMAIN t.matches = {}
      BY <2>1, NothingFound
    <3>2. Matched(t) = {}
      BY <3>1 DEF Matched
    <3>3. MAX_SEARCH_ENTRIES \in Nat
      BY NothingFound
    <3>4. t.inspected = 0 /\ t.max = 0
      BY <2>1
    <3> QED
      BY <3>1, <3>2, <3>3, <3>4
  <2>3. fileSearch' = t
    BY <1>4 DEF t
  <2> QED
    BY <1>1, <1>2, <1>3, <2>1, <2>2, <2>3 DEF FilesIInv
<1>5. CASE fileSearch' # [NoSearch EXCEPT !.at = "refused"]
  <2> DEFINE t == [NoSearch EXCEPT !.at = "walking", !.root = from, !.query = query,
                                   !.max = max, !.stack = << <<from, 0>> >>]
  <2>1. fileSearch' = t /\ max # 0 /\ from \in Directories
    BY <1>5 DEF SearchBegins
  <2>2. from \in STRING /\ from \in Words /\ query \in Words /\ from \in Below[from]
    BY <1>2, <2>1, TreeFacts DEF Words
  <2>3. /\ t \in Searches /\ t.at = "walking" /\ t.root = from /\ t.max = max
        /\ t.stack = << <<from, 0>> >> /\ t.matches = <<>> /\ t.inspected = 0 /\ t.visited = {}
        /\ t.truncated = FALSE
    <3>1. "walking" \in SearchStages /\ << <<from, 0>> >> \in Seq(STRING \X Nat)
      BY <2>2, OneOnStack DEF SearchStages
    <3> QED
      BY <1>2, <2>2, <3>1 DEF NoSearch, Searches
  <2> HIDE DEF t
  <2>4. Matched(t) = {} /\ Stacked(t) = {from} /\ Known(t) = {from}
    <3>1. DOMAIN t.matches = {}
      BY <2>3, NothingFound
    <3>2. FirstsOf(t.stack) = {from}
      BY <2>2, <2>3, OneOnStack
    <3>3. Matched(t) = {}
      BY <3>1 DEF Matched
    <3> QED
      BY <2>3, <3>2, <3>3 DEF Stacked, Known
  <2>5. Within(t)
    <3>1. Len(t.matches) = 0
      BY <2>3, NothingFound
    <3>2. MAX_SEARCH_ENTRIES \in Nat
      BY NothingFound
    <3>3. t.inspected = 0 /\ t.max = max /\ max # 0
      BY <2>1, <2>3
    <3> QED
      BY <2>4, <3>1, <3>2, <3>3 DEF Within
  <2>6. Walked(fileTree, t)
    <3>1. KnowsReached(fileTree, t)
      <4>1. from \in Reached(fileTree, from)
        BY <2>1, <2>2, FirstReached DEF Directories
      <4> QED
        BY <2>3, <2>4, <4>1 DEF KnowsReached
    <3>2. HasCounted(fileTree, t)
      <4>1. EntriesOf(fileTree, t.visited) = {}
        BY <2>3 DEF EntriesOf
      <4> QED
        BY <2>3, <4>1, FS_EmptySet DEF HasCounted
    <3>3. HasMatched(fileTree, t)
      BY <2>3, <2>4 DEF HasMatched, Targets
    <3>4. HasFollowed(fileTree, t)
      BY <2>3 DEF HasFollowed
    <3> QED
      BY <3>1, <3>2, <3>3, <3>4 DEF Walked
  <2>7. /\ Len(t.matches) <= t.max /\ t.inspected <= MAX_SEARCH_ENTRIES + 1
        /\ Matched(t) \subseteq Below[t.root]
    BY <2>5 DEF Within
  <2> QED
    BY <1>1, <1>2, <1>3, <2>1, <2>3, <2>5, <2>6, <2>7 DEF FilesIInv
<1> QED
  BY <1>4, <1>5

LEMMA SearchStaysTrue ==
  ASSUME FilesIInv, NEW t \in Searches, Within(t), t.at = "walking", fileSearch' = t,
         fileTree' = fileTree, fileView' = fileView, ~t.changed => Walked(fileTree, t)
  PROVE  FilesIInv'
<1>1. ViewIsTrue(fileView)'
  BY DEF FilesIInv, ViewIsTrue
<1>2. fileTree' \in FileTrees
  BY DEF FilesIInv
<1>3. /\ Len(t.matches) <= t.max /\ t.inspected <= MAX_SEARCH_ENTRIES + 1
      /\ Matched(t) \subseteq Below[t.root]
  BY DEF Within
<1> QED
  BY <1>1, <1>2, <1>3 DEF FilesIInv

(* A walk is over, or has failed: nothing of what it found is lost.        *)
LEMMA SearchEnds ==
  ASSUME FilesIInv, fileSearch.at = "walking", NEW at \in {"failed", "returned"},
         NEW stack \in Seq(STRING \X Nat),
         at = "returned" => stack = fileSearch.stack /\ (stack = <<>> \/ fileSearch.truncated),
         fileSearch' = [fileSearch EXCEPT !.at = at, !.stack = stack],
         fileTree' = fileTree, fileView' = fileView
  PROVE  FilesIInv'
<1> DEFINE s == fileSearch
           t == [s EXCEPT !.at = at, !.stack = stack]
<1>1. /\ s \in Searches /\ Within(s) /\ (~s.changed => Walked(fileTree, s))
      /\ ViewIsTrue(fileView) /\ fileTree \in FileTrees
  BY DEF FilesIInv
<1>2. fileSearch' = t /\ at \in SearchStages
  BY DEF SearchStages
<1> HIDE DEF s
<1>3. /\ t \in Searches /\ t.at = at /\ t.root = s.root /\ t.query = s.query /\ t.max = s.max
      /\ t.stack = stack /\ t.visited = s.visited /\ t.matches = s.matches
      /\ t.inspected = s.inspected /\ t.truncated = s.truncated /\ t.changed = s.changed
      /\ t.deep = s.deep
  BY <1>1, <1>2 DEF Searches
<1> HIDE DEF t
<1>4. Matched(t) = Matched(s)
  BY <1>3 DEF Matched
<1>5. /\ Len(t.matches) <= t.max /\ t.inspected <= MAX_SEARCH_ENTRIES + 1
      /\ Matched(t) \subseteq Below[t.root]
  BY <1>1, <1>3, <1>4 DEF Within
<1>6. ASSUME at = "returned", ~t.changed PROVE Walked(fileTree, t)
  <2>1. Walked(fileTree, s) /\ t.stack = s.stack
    BY <1>1, <1>3, <1>6 DEF s
  <2>2. /\ Known(t) = Known(s) /\ InnerOf(fileTree, t) = InnerOf(fileTree, s)
        /\ Targets(fileTree, t) = Targets(fileTree, s)
    BY <1>3, <2>1 DEF Known, Stacked, InnerOf, Targets, Hits
  <2> QED
    BY <1>3, <1>4, <2>1, <2>2 DEF Walked, KnowsReached, HasCounted, HasMatched, HasFollowed
<1>7. at = "returned" => t.stack = <<>> \/ t.truncated
  BY <1>3 DEF s
<1>8. ViewIsTrue(fileView)'
  BY <1>1 DEF ViewIsTrue
<1>9. /\ t.at # "walking" /\ (t.at = "returned" <=> at = "returned")
  BY <1>3
<1> QED
  BY <1>1, <1>2, <1>3, <1>5, <1>6, <1>7, <1>8, <1>9 DEF FilesIInv

LEMMA StepsSearch == ASSUME FilesIInv, SearchSteps PROVE FilesIInv'
<1> DEFINE s == fileSearch
           top == s.stack[Len(s.stack)]
           stack == SubSeq(s.stack, 1, Len(s.stack) - 1)
           popped == [s EXCEPT !.stack = stack]
<1>1. /\ s.at = "walking" /\ s.stack # <<>> /\ ~s.truncated
      /\ fileSearch' = IF top[1] \in Directories THEN OneDirectory(popped, top[1], top[2])
                       ELSE [popped EXCEPT !.at = "failed"]
      /\ fileTree' = fileTree /\ fileView' = fileView
  BY DEF SearchSteps
<1>2. /\ s \in Searches /\ Within(s) /\ (~s.changed => Walked(fileTree, s))
      /\ fileTree \in FileTrees /\ s.stack \in Seq(STRING \X Nat)
  BY <1>1 DEF FilesIInv, Searches
<1>3. /\ stack \in Seq(STRING \X Nat) /\ top \in STRING \X Nat
      /\ FirstsOf(s.stack) = FirstsOf(stack) \cup {top[1]}
  BY <1>1, <1>2, PopStack
<1> HIDE DEF top, stack
<1>4. top[2] \in Nat
  BY <1>3
<1>5. CASE top[1] \in Directories
  <2> DEFINE t == OneDirectory(popped, top[1], top[2])
  <2>1. fileSearch' = t
    BY <1>1, <1>5
  <2>2. t \in Searches /\ Within(t) /\ t.at = s.at /\ t.changed = s.changed
    BY <1>2, <1>3, <1>4, <1>5, VisitWithin
  <2>3. ~s.changed => Walked(fileTree, t)
    <3>1. Stacked(s) = FirstsOf(stack) \cup {top[1]}
      BY <1>3 DEF Stacked
    <3> QED
      BY <1>1, <1>2, <1>3, <1>4, <1>5, <3>1, VisitDirectory
  <2> HIDE DEF t
  <2> QED
    BY <1>1, <2>1, <2>2, <2>3, SearchStaysTrue
<1>6. CASE top[1] \notin Directories
  <2>1. fileSearch' = [fileSearch EXCEPT !.at = "failed", !.stack = stack]
    BY <1>1, <1>2, <1>6 DEF Searches
  <2> QED
    BY <1>1, <1>3, <2>1, SearchEnds
<1> QED
  BY <1>5, <1>6

LEMMA ReturnsSearch == ASSUME FilesIInv, SearchReturns PROVE FilesIInv'
<1>1. /\ fileSearch.at = "walking" /\ (fileSearch.stack = <<>> \/ fileSearch.truncated)
      /\ fileSearch' = [fileSearch EXCEPT !.at = "returned"]
      /\ fileTree' = fileTree /\ fileView' = fileView
  BY DEF SearchReturns
<1>2. fileSearch \in Searches /\ fileSearch.stack \in Seq(STRING \X Nat)
  BY DEF FilesIInv, Searches
<1>3. fileSearch' = [fileSearch EXCEPT !.at = "returned", !.stack = fileSearch.stack]
  BY <1>1, <1>2 DEF Searches
<1> QED
  BY <1>1, <1>2, <1>3, SearchEnds

LEMMA ChangesFiles == ASSUME FilesIInv, NEW tree \in FileTrees, FilesChange(tree) PROVE FilesIInv'
<1> DEFINE s == fileSearch
           t == [s EXCEPT !.changed = TRUE]
<1>1. s.at = "walking" /\ fileTree' = tree /\ fileSearch' = t /\ fileView' = fileView
  BY DEF FilesChange
<1>2. s \in Searches /\ Within(s) /\ ViewIsTrue(fileView)
  BY <1>1 DEF FilesIInv
<1>3. /\ t \in Searches /\ t.at = "walking" /\ t.root = s.root /\ t.max = s.max
      /\ t.matches = s.matches /\ t.inspected = s.inspected /\ t.truncated = s.truncated
      /\ t.changed
  BY <1>1, <1>2 DEF Searches
<1> HIDE DEF t
<1>4. Within(t)
  BY <1>2, <1>3 DEF Within, Matched
<1>5. /\ Len(t.matches) <= t.max /\ t.inspected <= MAX_SEARCH_ENTRIES + 1
      /\ Matched(t) \subseteq Below[t.root]
  BY <1>4 DEF Within
<1>6. ViewIsTrue(fileView)'
  BY <1>1, <1>2 DEF ViewIsTrue
<1> QED
  BY <1>1, <1>3, <1>4, <1>5, <1>6 DEF FilesIInv

LEMMA ReadsFile ==
  ASSUME FilesIInv, NEW granted \in BOOLEAN, NEW inside \in BOOLEAN, NEW bytes \in FileTexts,
         NEW max \in Nat, ReadFile(granted, bytes, inside, max)
  PROVE  FilesIInv'
<1>1. fileSearch = NoSearch /\ fileSearch' = fileSearch /\ fileTree' = fileTree
  BY DEF ReadFile
<1>2. ViewIsTrue(fileView')
  <2> DEFINE got == ReadsOneMore(bytes, max)
             shown == Prefix(got, max)
             v == [code |-> IF IsUtf8(shown) THEN "ok" ELSE "file_not_utf8",
                   text |-> shown, bytes |-> bytes, max |-> max, truncated |-> Len(got) > max]
  <2>1. CASE fileView' = v /\ max # 0
    <3>1. bytes \in Seq(STRING) /\ max \in Nat \ {0}
      BY <2>1, FilesAssumption
    <3>2. shown = Prefix(bytes, max) /\ (Len(got) > max <=> Prefix(bytes, max) # bytes)
      BY <3>1, CutAtTheLimit
    <3>3. ~IsUtf8(shown) => ~IsUtf8(bytes) \/ (max < Len(bytes) /\ bytes[max] = "h")
      BY <3>1, <3>2, BeginningOfText
    <3> HIDE DEF got, shown
    <3>4. /\ v.text = shown /\ v.bytes = bytes /\ v.max = max /\ v.truncated = (Len(got) > max)
          /\ v.code = "ok" \/ (v.code = "file_not_utf8" /\ ~IsUtf8(shown))
      OBVIOUS
    <3> HIDE DEF v
    <3>5. ViewIsTrue(v)
      BY <3>2, <3>3, <3>4 DEF ViewIsTrue
    <3> QED
      BY <2>1, <3>5
  <2>2. CASE fileView'.code \notin {"ok", "file_not_utf8"}
    BY <2>2 DEF ViewIsTrue
  <2>3. \/ fileView' = v /\ max # 0
        \/ \E code \in {"read_not_granted", "invalid_file_limit", "outside_workspace"} :
             fileView' = Refused(code)
    BY DEF ReadFile
  <2>4. ASSUME NEW code \in {"read_not_granted", "invalid_file_limit", "outside_workspace"}
        PROVE  Refused(code).code \notin {"ok", "file_not_utf8"}
    BY DEF Refused, NoView
  <2> QED
    BY <2>1, <2>2, <2>3, <2>4
<1>3. FilesIInv /\ fileSearch.at = "idle"
  BY <1>1 DEF NoSearch
<1> QED
  BY <1>1, <1>2, <1>3 DEF FilesIInv

LEMMA FilesKeep == ASSUME FilesIInv, [FilesNext]_fileVars PROVE FilesIInv'
<1>1. CASE UNCHANGED fileVars
  BY <1>1 DEF fileVars, FilesIInv, ViewIsTrue
<1>0. \A max \in 0..3 : max \in Nat
  OBVIOUS
<1>2. ASSUME NEW granted \in BOOLEAN, NEW query \in {"", "n"}, NEW max \in 0..3,
             NEW from \in Directories \cup {"outside"}, SearchBegins(granted, query, max, from)
      PROVE FilesIInv'
  <2>1. query \in Words
    BY DEF Words
  <2>2. max \in Nat
    BY <1>0, Zenon
  <2> QED
    BY <1>2, <2>1, <2>2, BeginsSearch, Zenon
<1>3. ASSUME NEW granted \in BOOLEAN, NEW inside \in BOOLEAN, NEW bytes \in FileTexts,
             NEW max \in 0..(MAX_READ_BYTES + 1), ReadFile(granted, bytes, inside, max)
      PROVE FilesIInv'
  <2>1. max \in Nat
    BY FilesAssumption
  <2> QED
    BY <1>3, <2>1, ReadsFile
<1> QED
  BY <1>1, <1>2, <1>3, StepsSearch, ReturnsSearch, ChangesFiles DEF FilesNext

LEMMA FilesImply == FilesIInv => FilesAreFoundInside
<1> SUFFICES ASSUME FilesIInv PROVE FilesAreFoundInside
  OBVIOUS
<1> DEFINE s == fileSearch
<1>1. \A i \in DOMAIN s.matches : s.matches[i] \in Below[s.root]
  BY DEF FilesIInv, Matched
<1>2. ASSUME s.at = "returned", ~s.changed
      PROVE  /\ s.visited \subseteq Directories
             /\ ~s.truncated => s.inspected = Cardinality(EntriesOf(fileTree, s.visited))
             /\ ~s.truncated /\ ~s.deep =>
                  /\ s.visited = Reached(fileTree, s.root)
                  /\ {s.matches[i] : i \in DOMAIN s.matches} = Targets(fileTree, s)
  <2>1. Walked(fileTree, s) /\ (s.stack = <<>> \/ s.truncated)
    BY <1>2 DEF FilesIInv
  <2>2. s.visited \subseteq Reached(fileTree, s.root)
    BY <2>1 DEF Walked, KnowsReached, Known
  <2>3. Reached(fileTree, s.root) \subseteq DOMAIN fileTree \cap Below[s.root]
    BY DEF Reached
  <2>4. ASSUME ~s.truncated, ~s.deep PROVE Reached(fileTree, s.root) \subseteq s.visited
    <3>1. Stacked(s) = {}
      <4>1. s.stack = <<>>
        BY <2>1, <2>4
      <4>2. DOMAIN s.stack = {}
        BY <4>1, NothingFound
      <4> QED
        BY <4>2 DEF Stacked, FirstsOf
    <3>2. Known(s) = s.visited
      BY <3>1 DEF Known
    <3>3. s.root \in s.visited
      BY <2>1, <3>2 DEF Walked, KnowsReached
    <3>4. IsClosed(fileTree, s.visited, DOMAIN fileTree \cap Below[s.root])
      BY <2>1, <2>4, <3>2 DEF Walked, HasFollowed, IsClosed, InnerOf
    <3> QED
      BY <2>2, <2>3, <3>3, <3>4, ClosedIsReached
  <2>5. ~s.truncated => s.inspected = Cardinality(EntriesOf(fileTree, s.visited))
    BY <2>1 DEF Walked, HasCounted
  <2>6. ~s.truncated => {s.matches[i] : i \in DOMAIN s.matches} = Targets(fileTree, s)
    BY <2>1 DEF Walked, HasMatched, Matched
  <2> QED
    BY <2>2, <2>3, <2>4, <2>5, <2>6 DEF Directories
<1>3. ViewIsTrue(fileView)
  BY DEF FilesIInv
<1>4. Len(s.matches) <= s.max /\ s.inspected <= MAX_SEARCH_ENTRIES + 1
  BY DEF FilesIInv
<1> QED
  BY <1>1, <1>2, <1>3, <1>4 DEF FilesAreFoundInside, ViewIsTrue

(* For all trees, links, changes, limits and texts: a search stays in its  *)
(* directory and within its limits and, when it cuts nothing off, finds    *)
(* what can be reached, and a view is the beginning of its file.           *)
THEOREM FilesStayInside == FilesInit /\ [][FilesNext]_fileVars => []FilesAreFoundInside
<1>1. FilesInit => FilesIInv
  BY FilesBegin
<1>2. FilesIInv /\ [FilesNext]_fileVars => FilesIInv'
  BY FilesKeep
<1>3. FilesIInv => FilesAreFoundInside
  BY FilesImply
<1> QED
  BY <1>1, <1>2, <1>3, PTL

----------------------------------------------------------------------------
(* The memory plugins.                                                     *)
(* Where a record comes from: it was stored under its id, or an old file   *)
(* holds it; or it is the one review of such a record that was pending.    *)
First(q, old) == q \in old \/ (q.revision = 1 /\ q.id[1] # 0 /\ q.updated = q.id[1])

ReviewOf(q, y) ==
  /\ y.id = q.id /\ y.key = q.key /\ y.status = "Pending" /\ q.status # "Pending"
  /\ q.revision = y.revision + 1 /\ y.updated <= q.updated

Sound(q, W, old, now) ==
  /\ q \in MemRecords /\ q.updated <= now
  /\ First(q, old) \/ \E y \in W : First(y, old) /\ ReviewOf(q, y)

MemoryFiles == [lines : Seq(MemRecords \cup {Junk}), open : BOOLEAN]
Writers == [at : {"idle", "appending"}, todo : Seq(MemRecords), done : SUBSET MemRecords,
            counter : Nat]

MemTypeOK ==
  /\ clock \in Nat \ {0}
  /\ memFile \in [MemFiles -> MemoryFiles]
  /\ writer \in [MemProcs -> Writers]
  /\ legacy \subseteq LegacyRecords /\ \A q, s \in legacy : q = s

MemIInv ==
  /\ MemTypeOK
  /\ \A q \in WrittenLines : Sound(q, WrittenLines, legacy, clock)
  /\ \A p \in MemProcs : \A i \in DOMAIN writer[p].todo :
       Sound(writer[p].todo[i], WrittenLines, legacy, clock)
  /\ \A p \in MemProcs : /\ \A i \in DOMAIN writer[p].todo : writer[p].todo[i].updated # 0
                         /\ \A q \in writer[p].done : q.updated # 0
  /\ \A q \in kept : q.updated # 0

(* The greatest of a bounded set of numbers, and the latest record of a    *)
(* set of records.                                                         *)
LEMMA GreatestNumber ==
  ASSUME NEW B \in Nat, NEW S \in SUBSET (0..B), S # {}
  PROVE  \E n \in S : \A m \in S : m <= n
<1> DEFINE Less == OpToRel(<, Nat)
           T == {B - n : n \in S}
<1>1. T \in SUBSET Nat /\ T # {}
  <2>1. \A n \in S : n \in 0..B
    OBVIOUS
  <2>2. \A n \in 0..B : B - n \in Nat
    OBVIOUS
  <2> QED
    BY <2>1, <2>2
<1> HIDE DEF T
<1>2. \E n \in T : \A m \in T : <<m, n>> \notin Less
  BY <1>1, NatLessThanWellFounded, WFMin
<1>3. \A m, n \in Nat : m < n => <<m, n>> \in Less
  BY DEF OpToRel
<1> HIDE DEF Less
<1>4. PICK k \in T : \A m \in T : <<m, k>> \notin Less
  BY <1>2
<1>5. PICK n \in S : k = B - n
  BY DEF T
<1>6. ASSUME NEW m \in S PROVE m <= n
  <2>1. B - m \in T
    BY DEF T
  <2>2. B - m \in Nat /\ k \in Nat
    BY <1>1, <2>1
  <2>3. ~(B - m < k)
    BY <1>3, <1>4, <2>1, <2>2
  <2>4. m \in 0..B /\ n \in 0..B
    OBVIOUS
  <2> QED
    BY <1>5, <2>3, <2>4
<1> QED
  BY <1>6

IsLatest(S, r) == r \in S /\ \A s \in S : ~ShouldReplace(s, r)
Versions(S, B) == \A s \in S : s.updated \in 0..B /\ s.revision \in 0..B

LEMMA LatestOf ==
  ASSUME NEW S, S # {}, NEW B \in Nat, Versions(S, B)
  PROVE  IsLatest(S, Latest(S))
<1> DEFINE U == {s.updated : s \in S}
<1>1. U \in SUBSET (0..B) /\ U # {}
  BY DEF Versions
<1> HIDE DEF U
<1>2. PICK u \in U : \A m \in U : m <= u
  BY <1>1, GreatestNumber
<1> DEFINE R == {s.revision : s \in {x \in S : x.updated = u}}
<1>3. R \in SUBSET (0..B) /\ R # {}
  BY DEF Versions, U
<1> HIDE DEF R
<1>4. PICK v \in R : \A m \in R : m <= v
  BY <1>3, GreatestNumber
<1>5. PICK r \in S : r.updated = u /\ r.revision = v
  BY DEF R
<1>6. u \in 0..B /\ v \in 0..B
  BY <1>1, <1>3
<1>7. ASSUME NEW s \in S PROVE ~ShouldReplace(s, r)
  <2>1. s.updated \in 0..B /\ s.revision \in 0..B
    BY DEF Versions
  <2>2. s.updated <= u
    BY <1>2 DEF U
  <2>3. s.updated = u => s.revision <= v
    BY <1>4 DEF R
  <2> QED
    BY <1>5, <1>6, <2>1, <2>2, <2>3 DEF ShouldReplace
<1> QED
  BY <1>5, <1>7 DEF IsLatest, Latest

LEMMA OldRecords ==
  ASSUME MemIInv
  PROVE  \A q \in legacy : q \in MemRecords /\ q.id[1] = 0 /\ q.updated = 0
BY MemoryAssumption DEF MemIInv, MemTypeOK

(* Two that were stored under one id have the same version.                *)
LEMMA OneFirst ==
  ASSUME MemIInv, NEW q, NEW r, First(q, legacy), First(r, legacy), q.id = r.id
  PROVE  q.revision = r.revision /\ q.updated = r.updated
<1>1. CASE q \in legacy /\ r \in legacy
  BY <1>1 DEF MemIInv, MemTypeOK
<1>2. CASE q \notin legacy /\ r \notin legacy
  BY <1>2 DEF First
<1>3. CASE q \in legacy /\ r \notin legacy
  BY <1>3, OldRecords DEF First
<1>4. CASE q \notin legacy /\ r \in legacy
  BY <1>4, OldRecords DEF First
<1> QED
  BY <1>1, <1>2, <1>3, <1>4

LEMMA VersionsAreBounded == ASSUME MemIInv PROVE \E B \in Nat : Versions(WrittenLines, B)
<1>1. clock \in Nat
  BY DEF MemIInv, MemTypeOK
<1>2. PICK m \in Nat : \A q \in legacy : q.revision <= m
  <2>1. CASE legacy = {}
    BY <2>1
  <2>2. CASE legacy # {}
    <3>1. PICK q \in legacy : TRUE
      BY <2>2
    <3>2. \A s \in legacy : s = q
      BY DEF MemIInv, MemTypeOK
    <3>3. q.revision \in Nat
      BY OldRecords DEF MemRecords
    <3>4. \A s \in legacy : s.revision <= q.revision
      BY <3>2, <3>3
    <3> QED
      BY <3>3, <3>4
  <2> QED
    BY <2>1, <2>2
<1> DEFINE B == m + 2 + clock
<1>3. B \in Nat
  BY <1>1
<1>4. \A q \in WrittenLines : q \in MemRecords /\ q.updated <= clock
  BY DEF MemIInv, Sound
<1>5. ASSUME NEW q \in WrittenLines, First(q, legacy) PROVE q.revision <= m + 1
  <2>1. q.revision \in Nat
    BY <1>4 DEF MemRecords
  <2> QED
    BY <1>2, <1>5, <2>1 DEF First
<1>6. ASSUME NEW q \in WrittenLines PROVE q.updated \in 0..B /\ q.revision \in 0..B
  <2>1. q.updated \in Nat /\ q.revision \in Nat /\ q.updated <= clock
    BY <1>4 DEF MemRecords
  <2>2. First(q, legacy) \/ \E y \in WrittenLines : First(y, legacy) /\ q.revision = y.revision + 1
    BY DEF MemIInv, Sound, ReviewOf
  <2>3. q.revision <= m + 2
    <3>1. CASE First(q, legacy)
      BY <1>5, <2>1, <3>1
    <3>2. ASSUME NEW y \in WrittenLines, First(y, legacy), q.revision = y.revision + 1
          PROVE  q.revision <= m + 2
      <4>1. y.revision \in Nat /\ y.revision <= m + 1
        BY <1>4, <1>5, <3>2 DEF MemRecords
      <4> QED
        BY <3>2, <4>1
    <3> QED
      BY <2>2, <3>1, <3>2
  <2> QED
    BY <1>1, <2>1, <2>3
<1> QED
  BY <1>3, <1>6 DEF Versions

(* The versions of an id, and a load: one of them stands for the id, and   *)
(* one of those for their content.                                         *)
OfId(id) == {s \in AllRecords : s.id = id}

LEMMA AllIsWritten == AllRecords \subseteq WrittenLines
<1>1. ASSUME NEW f \in MemFiles, NEW r \in Readable(f) PROVE r \in WrittenLines
  <2>1. r \in LinesOf(f)
    BY DEF Readable
  <2> QED
    BY <2>1 DEF WrittenLines
<1>2. legacy \subseteq WrittenLines
  BY DEF WrittenLines
<1> QED
  BY <1>1, <1>2 DEF AllRecords

LEMMA LatestOfId ==
  ASSUME MemIInv, NEW r \in AllRecords
  PROVE  IsLatest(OfId(r.id), Latest(OfId(r.id)))
<1> DEFINE S == OfId(r.id)
<1>1. PICK B \in Nat : Versions(WrittenLines, B)
  BY VersionsAreBounded
<1>2. r \in S /\ S \subseteq WrittenLines
  BY AllIsWritten DEF OfId
<1>3. Versions(S, B)
  BY <1>1, <1>2 DEF Versions
<1>4. S # {}
  BY <1>2
<1> HIDE DEF S
<1>5. IsLatest(S, Latest(S))
  BY <1>3, <1>4, LatestOf
<1> QED
  BY <1>5 DEF S

LEMMA CollapsedIds ==
  ASSUME MemIInv
  PROVE  /\ CollapseById(AllRecords) = {Latest(OfId(r.id)) : r \in AllRecords}
         /\ CollapseById(AllRecords) \subseteq AllRecords
         /\ \A x \in CollapseById(AllRecords) : IsLatest(OfId(x.id), x)
<1>1. CollapseById(AllRecords) = {Latest(OfId(r.id)) : r \in AllRecords}
  BY DEF CollapseById, OfId
<1>2. ASSUME NEW r \in AllRecords
      PROVE  /\ Latest(OfId(r.id)) \in AllRecords
             /\ IsLatest(OfId(Latest(OfId(r.id)).id), Latest(OfId(r.id)))
  <2>1. IsLatest(OfId(r.id), Latest(OfId(r.id)))
    BY LatestOfId
  <2>2. Latest(OfId(r.id)) \in AllRecords /\ Latest(OfId(r.id)).id = r.id
    BY <2>1 DEF IsLatest, OfId
  <2> QED
    BY <2>1, <2>2
<1> QED
  BY <1>1, <1>2

LEMMA LatestOfKey ==
  ASSUME MemIInv, NEW C \in SUBSET AllRecords, NEW r \in C
  PROVE  /\ Latest({s \in C : s.key = r.key /\ s.status = r.status}) \in C
         /\ Latest({s \in C : s.key = r.key /\ s.status = r.status}).key = r.key
<1> DEFINE S == {s \in C : s.key = r.key /\ s.status = r.status}
<1>1. PICK B \in Nat : Versions(WrittenLines, B)
  BY VersionsAreBounded
<1>2. r \in S /\ S \subseteq C /\ S \subseteq WrittenLines /\ \A s \in S : s.key = r.key
  BY AllIsWritten
<1>3. Versions(S, B)
  BY <1>1, <1>2 DEF Versions
<1>4. S # {}
  BY <1>2
<1> HIDE DEF S
<1>5. IsLatest(S, Latest(S))
  BY <1>3, <1>4, LatestOf
<1>6. Latest(S) \in C /\ Latest(S).key = r.key
  BY <1>2, <1>5 DEF IsLatest
<1> QED
  BY <1>6 DEF S

LEMMA LoadedFacts ==
  ASSUME MemIInv
  PROVE  /\ Load \subseteq CollapseById(AllRecords)
         /\ \A x \in CollapseById(AllRecords) : \E s \in Load : s.key = x.key
<1> DEFINE C == CollapseById(AllRecords)
<1>1. C \in SUBSET AllRecords
  BY CollapsedIds
<1>2. Load = {Latest({s \in C : s.key = r.key /\ s.status = r.status}) : r \in C}
  BY DEF Load, CollapseByKey
<1> HIDE DEF C
<1>3. \A r \in C : /\ Latest({s \in C : s.key = r.key /\ s.status = r.status}) \in C
                   /\ Latest({s \in C : s.key = r.key /\ s.status = r.status}).key = r.key
  BY <1>1, LatestOfKey
<1>4. Load \subseteq C /\ \A x \in C : \E s \in Load : s.key = x.key
  BY <1>2, <1>3
<1> QED
  BY <1>4 DEF C

(* Of the versions of an id, the latest has the content of each that is    *)
(* not contested, and the status of its review.                            *)
LEMMA LatestAgrees ==
  ASSUME MemIInv, NEW r \in AllRecords, ~Contested(r), NEW x, IsLatest(OfId(r.id), x)
  PROVE  /\ x.key = r.key
         /\ r.revision > 1 /\ ~First(r, legacy) => x.status = r.status
<1>1. x \in AllRecords /\ x.id = r.id /\ ~ShouldReplace(r, x)
  BY DEF IsLatest, OfId
<1>2. x \in WrittenLines /\ r \in WrittenLines
  BY <1>1, AllIsWritten
<1>0. \A q \in WrittenLines : q.updated \in Nat /\ q.revision \in Nat
  BY DEF MemIInv, Sound, MemRecords
<1>3. \A q \in WrittenLines : \/ First(q, legacy)
                             \/ \E y \in WrittenLines : First(y, legacy) /\ ReviewOf(q, y)
  BY DEF MemIInv, Sound
<1>4. \A s \in WrittenLines : s.id = r.id /\ s.revision = r.revision
                           => s.key = r.key /\ s.status = r.status
  BY DEF Contested
<1>5. CASE First(r, legacy)
  <2>1. CASE First(x, legacy)
    <3>1. x.revision = r.revision
      BY <1>1, <1>5, <2>1, OneFirst
    <3> QED
      BY <1>1, <1>2, <1>4, <1>5, <3>1
  <2>2. ASSUME NEW y \in WrittenLines, First(y, legacy), ReviewOf(x, y) PROVE x.key = r.key
    <3>1. y.id = r.id
      BY <1>1, <2>2 DEF ReviewOf
    <3>2. y.revision = r.revision
      BY <1>5, <2>2, <3>1, OneFirst
    <3> QED
      BY <1>4, <2>2, <3>1, <3>2 DEF ReviewOf
  <2> QED
    BY <1>2, <1>3, <1>5, <2>1, <2>2
<1>6. CASE ~First(r, legacy)
  <2>1. PICK y \in WrittenLines : First(y, legacy) /\ ReviewOf(r, y)
    BY <1>2, <1>3, <1>6
  <2>2. y.id = r.id /\ r.revision = y.revision + 1 /\ y.updated <= r.updated
    BY <2>1 DEF ReviewOf
  <2>3. ~First(x, legacy)
    <3> SUFFICES ASSUME First(x, legacy) PROVE FALSE
      OBVIOUS
    <3>1. x.revision = y.revision /\ x.updated = y.updated
      BY <1>1, <2>1, <2>2, OneFirst
    <3>2. y.updated \in Nat /\ y.revision \in Nat /\ r.updated \in Nat
      BY <1>0, <1>2
    <3>3. r.updated > x.updated \/ (r.updated = x.updated /\ r.revision > x.revision)
      BY <2>2, <3>1, <3>2
    <3>4. ShouldReplace(r, x)
      BY <3>3 DEF ShouldReplace
    <3> QED
      BY <1>1, <3>4
  <2>4. PICK z \in WrittenLines : First(z, legacy) /\ ReviewOf(x, z)
    BY <1>2, <1>3, <2>3
  <2>5. z.id = y.id /\ x.revision = z.revision + 1
    BY <1>1, <2>2, <2>4 DEF ReviewOf
  <2>6. z.revision = y.revision
    BY <2>1, <2>4, <2>5, OneFirst
  <2> QED
    BY <1>1, <1>2, <1>4, <2>2, <2>5, <2>6
<1> QED
  BY <1>5, <1>6

LEMMA MemoryImplied == MemIInv => MemoryIsKept
<1> SUFFICES ASSUME MemIInv PROVE MemoryIsKept
  OBVIOUS
<1>1. ASSUME NEW r \in kept, OnDisk(r), ~Contested(r)
      PROVE  /\ \E s \in Load : s.key = r.key
             /\ r.revision > 1 => \A s \in Load : s.id = r.id => s.status = r.status
  <2>1. r \in AllRecords
    BY <1>1 DEF OnDisk, AllRecords, FileOf, MemFiles
  <2> DEFINE x == Latest(OfId(r.id))
  <2>2. IsLatest(OfId(r.id), x) /\ x \in CollapseById(AllRecords)
    BY <2>1, LatestOfId, CollapsedIds
  <2>3. x.key = r.key
    BY <1>1, <2>1, <2>2, LatestAgrees
  <2>4. ASSUME r.revision > 1, NEW s \in Load, s.id = r.id PROVE s.status = r.status
    <3>1. IsLatest(OfId(r.id), s)
      BY <2>4, LoadedFacts, CollapsedIds
    <3>2. ~First(r, legacy)
      <4>1. r \notin legacy
        BY OldRecords DEF MemIInv
      <4> QED
        BY <2>4, <4>1 DEF First
    <3> QED
      BY <1>1, <2>1, <2>4, <3>1, <3>2, LatestAgrees
  <2> QED
    BY <2>2, <2>3, <2>4, LoadedFacts
<1>2. ASSUME NEW timeline \in BOOLEAN,
             NEW r \in BootCandidates(timeline) \cup DynamicCandidates(timeline, MemoryKeys, {})
      PROVE  r.sensitivity # "High" /\ r.scope # "elsewhere" /\ (timeline \/ r.valid)
  BY <1>2 DEF BootCandidates, DynamicCandidates, Recallable, InScope
<1> QED
  BY <1>1, <1>2 DEF MemoryIsKept

----------------------------------------------------------------------------
(* The calls.  What has been sound stays so while lines are added and time *)
(* goes on.                                                                *)
LEMMA SoundGrows ==
  ASSUME NEW q, NEW W, NEW V, W \subseteq V, NEW old, NEW now \in Nat, NEW then \in Nat, now <= then,
         Sound(q, W, old, now)
  PROVE  Sound(q, V, old, then)
<1>1. q.updated \in Nat
  BY DEF Sound, MemRecords
<1>2. q.updated <= then
  BY <1>1 DEF Sound
<1> QED
  BY <1>2 DEF Sound

LEMMA PublicCount ==
  ASSUME NEW cs, NEW n \in Nat
  PROVE  Cardinality(Public(cs, n)) \in Nat
<1>1. IsFiniteSet(1..n)
  BY FS_Interval
<1>2. IsFiniteSet(Public(cs, n))
  BY <1>1, FS_Subset DEF Public
<1> QED
  BY <1>2, FS_CardinalityType

(* What is stored was never stored before, and now.                        *)
IsNew(r) == r \in MemRecords /\ r.updated = clock /\ First(r, {})

LEMMA StoredIsNew ==
  ASSUME MemTypeOK, NEW c \in Candidates, NEW n \in Nat, NEW loaded
  PROVE  IsNew(Stored(c, n, loaded))
<1> DEFINE r == Stored(c, n, loaded)
<1>1. /\ r.id = <<clock, n>> /\ r.key = c.key /\ r.scope = ScopeFor(KindOf(c.key))
      /\ r.status = StatusOf(c, loaded) /\ r.sensitivity = c.sensitivity
      /\ r.updated = clock /\ r.revision = 1 /\ r.valid = TRUE
  BY DEF Stored
<1>2. clock \in Nat \ {0}
  BY DEF MemTypeOK
<1>3. StatusOf(c, loaded) \in {"Pending", "Active", "Rejected"}
  BY DEF StatusOf
<1>4. ScopeFor(KindOf(c.key)) \in {"global", "here", "elsewhere"}
  BY DEF ScopeFor
<1>5. c.key \in MemoryKeys /\ c.sensitivity \in {"Low", "Medium", "High"}
  BY DEF Candidates
<1>6. r \in MemRecords
  <2>1. <<clock, n>> \in Nat \X Nat /\ clock \in Nat /\ 1 \in Nat \ {0} /\ TRUE \in BOOLEAN
    BY <1>2
  <2> QED
    BY <1>3, <1>4, <1>5, <2>1 DEF Stored, MemRecords
<1>7. r.id[1] = clock
  BY <1>1
<1> HIDE DEF r
<1>8. IsNew(r)
  BY <1>1, <1>2, <1>6, <1>7 DEF IsNew, First
<1> QED
  BY <1>8 DEF r

StoredUpTo(g, cs, loaded, counter) ==
  g = [n \in 0..Len(cs) |->
        IF n = 0 THEN <<>>
        ELSE IF cs[n].secret \/ \E s \in loaded : s.key = cs[n].key THEN g[n - 1]
        ELSE Append(g[n - 1], Stored(cs[n], counter + Cardinality(Public(cs, n - 1)), loaded))]

LEMMA AppendIsNew ==
  ASSUME NEW New, NEW s \in Seq(New), NEW r \in New
  PROVE  Append(s, r) \in Seq(New)
OBVIOUS

LEMMA ToStoreIsNew ==
  ASSUME MemTypeOK, NEW cs \in Seq(Candidates), NEW loaded, NEW counter \in Nat
  PROVE  ToStore(cs, loaded, counter) \in Seq({r \in MemRecords : IsNew(r)})
<1> DEFINE N == Len(cs)
           New == {r \in MemRecords : IsNew(r)}
           KnownKey(n) == cs[n].secret \/ \E s \in loaded : s.key = cs[n].key
           Next1(n) == Stored(cs[n], counter + Cardinality(Public(cs, n - 1)), loaded)
           step == [n \in 1..N |-> [v \in Seq(New) |-> IF KnownKey(n) THEN v ELSE Append(v, Next1(n))]]
           upTo == CHOOSE g : StoredUpTo(g, cs, loaded, counter)
<1>1. /\ N \in Nat /\ 0 \in 0..N /\ N \in 0..N
      /\ \A n \in 1..N : n \in 0..N /\ n # 0 /\ n - 1 \in 0..N
      /\ \A n \in 0..N : n # 0 => n \in 1..N
      /\ \A n \in 1..N : cs[n] \in Candidates
  OBVIOUS
<1>2. ToStore(cs, loaded, counter) = upTo[N]
  BY DEF ToStore, StoredUpTo
<1>3. \A n \in 1..N : Next1(n) \in New
  <2> SUFFICES ASSUME NEW n \in 1..N PROVE Next1(n) \in New
    OBVIOUS
  <2>1. n - 1 \in Nat /\ cs[n] \in Candidates
    OBVIOUS
  <2>2. Cardinality(Public(cs, n - 1)) \in Nat
    BY <2>1, PublicCount
  <2>3. counter + Cardinality(Public(cs, n - 1)) \in Nat
    BY <2>2
  <2>4. IsNew(Next1(n))
    BY <2>1, <2>3, StoredIsNew
  <2> QED
    BY <2>4 DEF IsNew
<1> USE DEF StoredUpTo
<1> HIDE DEF N, Next1, New, StoredUpTo
<1>4. \A v \in Seq(New), n \in 1..N : (IF KnownKey(n) THEN v ELSE Append(v, Next1(n))) \in Seq(New)
  BY <1>3, AppendIsNew
<1>5. step \in [1..N -> [Seq(New) -> Seq(New)]]
  BY <1>4
<1>6. \A v \in Seq(New), n \in 1..N : step[n][v] = IF KnownKey(n) THEN v ELSE Append(v, Next1(n))
  OBVIOUS
<1> HIDE DEF step
<1>7. <<>> \in Seq(New)
  OBVIOUS
<1>8. PICK f : IsWalk(f, N, Seq(New), <<>>, step)
  BY <1>1, <1>5, <1>7, WalkExists, Zenon
<1>9. /\ f \in [0..N -> Seq(New)] /\ f[0] = <<>>
      /\ \A n \in 1..N : f[n] = IF KnownKey(n) THEN f[n - 1] ELSE Append(f[n - 1], Next1(n))
  <2>1. \A n \in 1..N : f[n - 1] \in Seq(New)
    BY <1>1, <1>8 DEF IsWalk
  <2> QED
    BY <1>6, <1>8, <2>1 DEF IsWalk
<1>10. StoredUpTo(f, cs, loaded, counter)
  <2>1. \A n \in 0..N : f[n] = IF n = 0 THEN <<>> ELSE IF KnownKey(n) THEN f[n - 1]
                               ELSE Append(f[n - 1], Next1(n))
    BY <1>1, <1>9
  <2> QED
    BY <1>9, <2>1 DEF StoredUpTo, N, Next1
<1>11. StoredUpTo(upTo, cs, loaded, counter)
  BY <1>10
<1> HIDE DEF upTo
<1>12. \A n \in 0..N : upTo[n] = IF n = 0 THEN <<>> ELSE IF KnownKey(n) THEN upTo[n - 1]
                                 ELSE Append(upTo[n - 1], Next1(n))
  BY <1>11 DEF StoredUpTo, N, Next1
<1> DEFINE P == {n \in 0..N : upTo[n] = f[n]}
<1>13. \A n \in 0..N : n \in P
  <2>1. 0 \in P
    BY <1>1, <1>9, <1>12
  <2>2. ASSUME NEW n \in 1..N, n - 1 \in P PROVE n \in P
    <3>1. upTo[n - 1] = f[n - 1]
      BY <2>2
    <3> HIDE DEF KnownKey
    <3> QED
      BY <1>1, <1>9, <1>12, <3>1
  <2> HIDE DEF P
  <2> QED
    BY <1>1, <2>1, <2>2, RangeInduction
<1>14. upTo[N] = f[N] /\ f[N] \in Seq(New)
  BY <1>1, <1>9, <1>13
<1> QED
  BY <1>2, <1>14 DEF New

(* A step of a call: what the call holds stays sound, and a line that is   *)
(* added was sound before.                                                 *)
SoundCall(w) ==
  /\ \A i \in DOMAIN w.todo : /\ Sound(w.todo[i], WrittenLines, legacy, clock)
                              /\ w.todo[i].updated # 0
  /\ \A q \in w.done : q.updated # 0

LEMMA MemCallMoves ==
  ASSUME MemIInv, NEW p \in MemProcs, NEW w \in Writers, SoundCall(w),
         writer' = [writer EXCEPT ![p] = w],
         memFile' \in [MemFiles -> MemoryFiles], legacy' = legacy,
         clock' \in Nat, clock <= clock',
         WrittenLines \subseteq WrittenLines',
         \A q \in WrittenLines' : q \in WrittenLines \/ Sound(q, WrittenLines, legacy, clock),
         \A q \in kept' : q \in kept \/ q \in writer[p].done
  PROVE  MemIInv'
<1>1. clock \in Nat \ {0} /\ writer \in [MemProcs -> Writers]
  BY DEF MemIInv, MemTypeOK
<1>2. writer' \in [MemProcs -> Writers] /\ writer'[p] = w
      /\ \A o \in MemProcs : o # p => writer'[o] = writer[o]
  BY <1>1
<1>3. MemTypeOK'
  BY <1>1, <1>2 DEF MemIInv, MemTypeOK
<1>4. ASSUME NEW q, Sound(q, WrittenLines, legacy, clock)
      PROVE  Sound(q, WrittenLines', legacy', clock')
  <2> DEFINE W == WrittenLines
             V == WrittenLines'
  <2>1. W \subseteq V /\ Sound(q, W, legacy, clock) /\ clock \in Nat
    BY <1>1, <1>4
  <2> HIDE DEF W, V
  <2>2. Sound(q, V, legacy, clock')
    BY <2>1, SoundGrows
  <2> QED
    BY <2>2 DEF V
<1>5. \A q \in WrittenLines' : Sound(q, WrittenLines', legacy', clock')
  BY <1>4 DEF MemIInv
<1>6. \A o \in MemProcs : SoundCall(writer'[o])
  <2>1. \A o \in MemProcs : SoundCall(writer[o])
    BY DEF MemIInv, SoundCall
  <2> QED
    BY <1>2, <2>1
<1>7. \A o \in MemProcs : \A i \in DOMAIN writer'[o].todo :
        Sound(writer'[o].todo[i], WrittenLines', legacy', clock')
  BY <1>4, <1>6 DEF SoundCall
<1>8. \A o \in MemProcs : /\ \A i \in DOMAIN writer'[o].todo : writer'[o].todo[i].updated # 0
                          /\ \A q \in writer'[o].done : q.updated # 0
  BY <1>6 DEF SoundCall
<1>9. \A q \in kept' : q.updated # 0
  BY DEF MemIInv
<1> QED
  BY <1>3, <1>5, <1>7, <1>8, <1>9 DEF MemIInv

LEMMA LinesStay ==
  ASSUME memFile' = memFile, legacy' = legacy
  PROVE  WrittenLines' = WrittenLines
BY DEF WrittenLines, LinesOf

LEMMA SeqOfMore == ASSUME NEW S, NEW T, S \subseteq T, NEW s \in Seq(S) PROVE s \in Seq(T)
OBVIOUS

LEMMA ExtractKeeps ==
  ASSUME MemIInv, NEW p \in MemProcs, NEW cs \in Prompts, Extract(p, cs)
  PROVE  MemIInv'
<1> DEFINE n == writer[p].counter
           todo == ToStore(cs, Load, n)
           w == [at |-> "appending", todo |-> todo, done |-> {},
                 counter |-> n + Cardinality(Public(cs, Len(cs)))]
<1>1. MemTypeOK /\ clock \in Nat /\ writer[p] \in Writers /\ n \in Nat
  BY DEF MemIInv, MemTypeOK, Writers
<1>2. cs \in Seq(Candidates)
  BY PromptsAssumption
<1>3. todo \in Seq({r \in MemRecords : IsNew(r)})
  BY <1>1, <1>2, ToStoreIsNew
<1>4. n + Cardinality(Public(cs, Len(cs))) \in Nat
  <2>1. Len(cs) \in Nat
    BY <1>2
  <2>2. Cardinality(Public(cs, Len(cs))) \in Nat
    BY <2>1, PublicCount
  <2> QED
    BY <1>1, <2>2
<1>5. writer' = [writer EXCEPT ![p] = w]
  BY DEF Extract
<1> HIDE DEF n, todo
<1>6. todo \in Seq(MemRecords)
  BY <1>3, SeqOfMore
<1>7. w \in Writers
  BY <1>4, <1>6 DEF Writers
<1>8. SoundCall(w)
  <2>1. \A i \in DOMAIN todo : IsNew(todo[i])
    BY <1>3
  <2>2. ASSUME NEW r, IsNew(r) PROVE Sound(r, WrittenLines, legacy, clock) /\ r.updated # 0
    <3>1. clock # 0 /\ clock \in Nat
      BY <1>1 DEF MemTypeOK
    <3> QED
      BY <2>2, <3>1 DEF IsNew, Sound, First
  <2>3. w.todo = todo /\ w.done = {}
    OBVIOUS
  <2> HIDE DEF w
  <2> QED
    BY <2>1, <2>2, <2>3 DEF SoundCall
<1>9. memFile' = memFile /\ legacy' = legacy /\ clock' = clock /\ kept' = kept
  BY DEF Extract
<1> HIDE DEF w
<1>10. WrittenLines' = WrittenLines /\ memFile' \in [MemFiles -> MemoryFiles]
       /\ clock' \in Nat /\ clock <= clock'
  BY <1>1, <1>9, LinesStay DEF MemTypeOK
<1> QED
  BY <1>5, <1>7, <1>8, <1>9, <1>10, MemCallMoves

(* The review of a record that is pending.                                 *)
LEMMA ReviewedIsSound ==
  ASSUME MemIInv, NEW r \in WrittenLines, r.status = "Pending",
         NEW status \in {"Active", "Rejected"}, NEW q,
         q = [r EXCEPT !.status = status, !.updated = clock, !.revision = @ + 1]
  PROVE  q \in MemRecords /\ Sound(q, WrittenLines, legacy, clock) /\ q.updated # 0
<1>1. clock \in Nat /\ clock # 0
  BY DEF MemIInv, MemTypeOK
<1>2. Sound(r, WrittenLines, legacy, clock)
  BY DEF MemIInv
<1>3. r \in MemRecords /\ r.updated <= clock
  BY <1>2 DEF Sound
<1>4. First(r, legacy)
  BY <1>2 DEF Sound, ReviewOf
<1>5. /\ r.id \in Nat \X Nat /\ r.key \in MemoryKeys /\ r.scope \in {"global", "here", "elsewhere"}
      /\ r.sensitivity \in {"Low", "Medium", "High"} /\ r.revision \in Nat \ {0} /\ r.valid \in BOOLEAN
  BY <1>3 DEF MemRecords
<1>6. r.revision + 1 \in Nat \ {0} /\ status \in {"Pending", "Active", "Rejected"}
  BY <1>5
<1>7. q = [r EXCEPT !.status = status, !.updated = clock, !.revision = r.revision + 1]
  BY <1>3 DEF MemRecords
<1>8. q \in MemRecords
  BY <1>1, <1>3, <1>6, <1>7 DEF MemRecords
<1>9. /\ q.id = r.id /\ q.key = r.key /\ q.status = status /\ q.updated = clock
      /\ q.revision = r.revision + 1
  BY <1>3, <1>7 DEF MemRecords
<1>10. ReviewOf(q, r)
  BY <1>3, <1>9 DEF ReviewOf
<1>11. q.updated <= clock
  BY <1>1, <1>9
<1> QED
  BY <1>1, <1>4, <1>8, <1>9, <1>10, <1>11 DEF Sound

LEMMA ReviewKeeps ==
  ASSUME MemIInv, NEW p \in MemProcs, NEW id, NEW status \in {"Active", "Rejected"},
         Review(p, id, status)
  PROVE  MemIInv'
<1> DEFINE found == {r \in Load : r.id = id /\ r.status = "Pending"}
           x == CHOOSE r \in found : TRUE
           q == [x EXCEPT !.status = status, !.updated = clock, !.revision = @ + 1]
           todo == IF found = {} THEN <<>> ELSE <<q>>
           w == [writer[p] EXCEPT !.at = "appending", !.done = {}, !.todo = todo]
<1>1. clock \in Nat /\ writer \in [MemProcs -> Writers] /\ writer[p] \in Writers
  BY DEF MemIInv, MemTypeOK
<1>2. writer' = [writer EXCEPT ![p] = w]
  BY <1>1 DEF Review
<1>3. found # {} => x \in WrittenLines /\ x.status = "Pending"
  <2>1. found \subseteq WrittenLines
    BY LoadedFacts, CollapsedIds, AllIsWritten
  <2> QED
    BY <2>1
<1>4. found # {} => q \in MemRecords /\ Sound(q, WrittenLines, legacy, clock) /\ q.updated # 0
  <2> HIDE DEF x, found
  <2> QED
    BY <1>3, ReviewedIsSound
<1> HIDE DEF q, found
<1>5. todo \in Seq(MemRecords)
      /\ \A i \in DOMAIN todo : Sound(todo[i], WrittenLines, legacy, clock) /\ todo[i].updated # 0
  <2>1. CASE found = {}
    BY <2>1
  <2>2. CASE found # {}
    <3>1. todo = <<q>>
      BY <2>2
    <3> QED
      BY <1>4, <2>2, <3>1
  <2> QED
    BY <2>1, <2>2
<1> HIDE DEF todo
<1>6. w \in Writers /\ w.todo = todo /\ w.done = {}
  BY <1>1, <1>5 DEF Writers
<1> HIDE DEF w
<1>7. SoundCall(w)
  BY <1>5, <1>6 DEF SoundCall
<1>8. memFile' = memFile /\ legacy' = legacy /\ clock' = clock /\ kept' = kept
  BY DEF Review
<1>9. WrittenLines' = WrittenLines /\ memFile' \in [MemFiles -> MemoryFiles]
      /\ clock' \in Nat /\ clock <= clock'
  BY <1>1, <1>8, LinesStay DEF MemIInv, MemTypeOK
<1> QED
  BY <1>2, <1>6, <1>7, <1>8, <1>9, MemCallMoves

LEMMA FilesOfRecords == ASSUME NEW r PROVE FileOf(r) \in MemFiles
<1>1. (IF r.scope = "global" THEN "global" ELSE "here") \in {"global", "here"}
  OBVIOUS
<1>2. (IF r.status = "Pending" THEN "pending" ELSE "main") \in {"main", "pending"}
  OBVIOUS
<1> QED
  BY <1>1, <1>2 DEF FileOf, MemFiles

(* An append adds its line, or makes junk of it, and leaves the others.    *)
LEMMA AppendAdds ==
  ASSUME MemTypeOK, NEW f \in MemFiles, NEW line \in MemRecords \cup {Junk}, NEW open \in BOOLEAN,
         memFile' = [memFile EXCEPT ![f] =
                       [lines |-> Append(memFile[f].lines, line), open |-> open]],
         legacy' = legacy
  PROVE  /\ memFile' \in [MemFiles -> MemoryFiles]
         /\ WrittenLines \subseteq WrittenLines'
         /\ \A q \in WrittenLines' : q \in WrittenLines \/ (q = line /\ line # Junk)
<1> DEFINE old == memFile[f].lines
           new == Append(old, line)
<1>1. memFile \in [MemFiles -> MemoryFiles] /\ old \in Seq(MemRecords \cup {Junk})
  BY DEF MemTypeOK, MemoryFiles
<1>2. /\ new \in Seq(MemRecords \cup {Junk}) /\ DOMAIN old \subseteq DOMAIN new
      /\ \A i \in DOMAIN old : new[i] = old[i]
      /\ \A i \in DOMAIN new : i \in DOMAIN old \/ new[i] = line
  <2>1. /\ new \in Seq(MemRecords \cup {Junk}) /\ Len(new) = Len(old) + 1 /\ new[Len(old) + 1] = line
        /\ \A i \in 1..Len(old) : new[i] = old[i]
    BY <1>1
  <2>2. DOMAIN old = 1..Len(old) /\ DOMAIN new = 1..(Len(old) + 1) /\ Len(old) \in Nat
    BY <1>1, <2>1
  <2> HIDE DEF new
  <2> QED
    BY <2>1, <2>2
<1>3. /\ memFile' = [memFile EXCEPT ![f] = [lines |-> new, open |-> open]]
      /\ [lines |-> new, open |-> open] \in MemoryFiles
  BY <1>2 DEF MemoryFiles
<1> HIDE DEF new
<1>4. memFile' \in [MemFiles -> MemoryFiles]
  BY <1>1, <1>3
<1>5. /\ memFile'[f].lines = new
      /\ \A g \in MemFiles : g # f => memFile'[g] = memFile[g]
  BY <1>1, <1>3
<1>6. \A g \in MemFiles : LinesOf(g) \subseteq LinesOf(g)'
  <2> SUFFICES ASSUME NEW g \in MemFiles, NEW q \in LinesOf(g) PROVE q \in LinesOf(g)'
    OBVIOUS
  <2>1. PICK i \in DOMAIN memFile[g].lines : q = memFile[g].lines[i] /\ q # Junk
    BY DEF LinesOf
  <2>2. i \in DOMAIN memFile'[g].lines /\ memFile'[g].lines[i] = q
    BY <1>2, <1>5, <2>1
  <2> QED
    BY <2>1, <2>2 DEF LinesOf
<1>7. \A g \in MemFiles : \A q \in LinesOf(g)' : q \in LinesOf(g) \/ (q = line /\ line # Junk)
  <2> SUFFICES ASSUME NEW g \in MemFiles, NEW q \in LinesOf(g)'
               PROVE  q \in LinesOf(g) \/ (q = line /\ line # Junk)
    OBVIOUS
  <2>1. PICK i \in DOMAIN memFile'[g].lines : q = memFile'[g].lines[i] /\ q # Junk
    BY DEF LinesOf
  <2>2. q = line \/ (i \in DOMAIN memFile[g].lines /\ q = memFile[g].lines[i])
    BY <1>2, <1>5, <2>1
  <2> QED
    BY <2>1, <2>2 DEF LinesOf
<1>8. WrittenLines \subseteq WrittenLines'
  <2>1. ASSUME NEW q \in WrittenLines, q \notin legacy PROVE q \in WrittenLines'
    <3>1. PICK g \in MemFiles : q \in LinesOf(g)
      BY <2>1 DEF WrittenLines
    <3>2. q \in LinesOf(g)'
      BY <1>6, <3>1
    <3> QED
      BY <3>2 DEF WrittenLines
  <2> QED
    BY <2>1 DEF WrittenLines
<1>9. ASSUME NEW q \in WrittenLines' PROVE q \in WrittenLines \/ (q = line /\ line # Junk)
  <2>1. CASE q \in legacy
    BY <2>1 DEF WrittenLines
  <2>2. CASE q \notin legacy
    <3>1. PICK g \in MemFiles : q \in LinesOf(g)'
      BY <2>2 DEF WrittenLines
    <3>2. q \in LinesOf(g) \/ (q = line /\ line # Junk)
      BY <1>7, <3>1
    <3> QED
      BY <3>2 DEF WrittenLines
  <2> QED
    BY <2>1, <2>2
<1> QED
  BY <1>4, <1>8, <1>9

LEMMA AppendLineKeeps ==
  ASSUME MemIInv, NEW p \in MemProcs, AppendLine(p)
  PROVE  MemIInv'
<1> DEFINE r == Head(writer[p].todo)
           f == FileOf(r)
           line == IF memFile[f].open THEN Junk ELSE r
           w == [writer[p] EXCEPT !.todo = Tail(writer[p].todo), !.done = writer[p].done \cup {r}]
<1>1. clock \in Nat /\ writer \in [MemProcs -> Writers] /\ writer[p] \in Writers /\ MemTypeOK
  BY DEF MemIInv, MemTypeOK
<1>2. writer[p].todo \in Seq(MemRecords) /\ writer[p].todo # <<>>
  BY <1>1 DEF Writers, AppendLine
<1>3. /\ r = writer[p].todo[1] /\ 1 \in DOMAIN writer[p].todo /\ r \in MemRecords
      /\ Tail(writer[p].todo) \in Seq(MemRecords)
      /\ \A i \in DOMAIN Tail(writer[p].todo) :
           /\ i + 1 \in DOMAIN writer[p].todo
           /\ Tail(writer[p].todo)[i] = writer[p].todo[i + 1]
  BY <1>2
<1>4. SoundCall(writer[p])
  BY DEF MemIInv, SoundCall
<1>5. Sound(r, WrittenLines, legacy, clock) /\ r.updated # 0
  BY <1>3, <1>4 DEF SoundCall
<1>6. writer' = [writer EXCEPT ![p] = w]
  BY <1>1 DEF AppendLine, Writers
<1>7. f \in MemFiles
  BY FilesOfRecords
<1>8. memFile' = [memFile EXCEPT ![f] = [lines |-> Append(memFile[f].lines, line), open |-> FALSE]]
      /\ legacy' = legacy /\ clock' = clock /\ kept' = kept
  BY <1>7 DEF AppendLine
<1>9. w \in Writers /\ w.todo = Tail(writer[p].todo) /\ w.done = writer[p].done \cup {r}
  BY <1>1, <1>3 DEF Writers
<1>10. line \in MemRecords \cup {Junk} /\ (line # Junk => line = r)
  BY <1>3
<1> HIDE DEF w, line, f, r
<1>11. SoundCall(w)
  BY <1>3, <1>4, <1>5, <1>9 DEF SoundCall
<1>12. /\ memFile' \in [MemFiles -> MemoryFiles]
       /\ WrittenLines \subseteq WrittenLines'
       /\ \A q \in WrittenLines' : q \in WrittenLines \/ (q = line /\ line # Junk)
  BY <1>1, <1>7, <1>8, <1>10, AppendAdds
<1>13. \A q \in WrittenLines' : q \in WrittenLines \/ Sound(q, WrittenLines, legacy, clock)
  BY <1>5, <1>10, <1>12
<1>14. clock' \in Nat /\ clock <= clock' /\ \A q \in kept' : q \in kept
  BY <1>1, <1>8
<1> QED
  BY <1>6, <1>8, <1>9, <1>11, <1>12, <1>13, <1>14, MemCallMoves

LEMMA AppendFailsKeeps ==
  ASSUME MemIInv, NEW p \in MemProcs, NEW torn \in BOOLEAN, NEW died \in BOOLEAN,
         AppendFails(p, torn, died)
  PROVE  MemIInv'
<1> DEFINE f == FileOf(Head(writer[p].todo))
           open == memFile[f].open \/ torn
           counter == IF died THEN 1 ELSE writer[p].counter
           w == [NotWriting EXCEPT !.counter = counter]
<1>1. clock \in Nat /\ writer \in [MemProcs -> Writers] /\ writer[p] \in Writers
      /\ memFile \in [MemFiles -> MemoryFiles]
  BY DEF MemIInv, MemTypeOK
<1>2. f \in MemFiles
  BY FilesOfRecords
<1>3. memFile' = [memFile EXCEPT ![f].open = open] /\ legacy' = legacy /\ kept' = kept
      /\ writer' = [writer EXCEPT ![p] = w]
  BY DEF AppendFails
<1>4. open \in BOOLEAN
  BY <1>1, <1>2 DEF MemoryFiles
<1> HIDE DEF f, open
<1>5. memFile' \in [MemFiles -> MemoryFiles]
      /\ \A g \in MemFiles : memFile'[g].lines = memFile[g].lines
  BY <1>1, <1>2, <1>3, <1>4 DEF MemoryFiles
<1>6. WrittenLines' = WrittenLines
  <2>1. \A g \in MemFiles : LinesOf(g)' = LinesOf(g)
    BY <1>5 DEF LinesOf
  <2> QED
    BY <1>3, <2>1 DEF WrittenLines
<1>7. clock' \in Nat /\ clock <= clock'
  <2>1. IF died THEN clock' = clock + 1 ELSE clock' = clock
    BY DEF AppendFails
  <2> QED
    BY <1>1, <2>1
<1>8. counter \in Nat
  BY <1>1 DEF Writers
<1> HIDE DEF counter
<1>9. w \in Writers /\ w.todo = <<>> /\ w.done = {}
  <2>1. NotWriting \in Writers /\ NotWriting.todo = <<>> /\ NotWriting.done = {}
    BY DEF NotWriting, Writers
  <2> QED
    BY <1>8, <2>1 DEF Writers
<1> HIDE DEF w
<1>10. SoundCall(w)
  BY <1>9 DEF SoundCall
<1>11. \A q \in WrittenLines' : q \in WrittenLines
  BY <1>6
<1>12. WrittenLines \subseteq WrittenLines' /\ \A q \in kept' : q \in kept
  BY <1>3, <1>6
<1> QED
  BY <1>3, <1>5, <1>7, <1>9, <1>10, <1>11, <1>12, MemCallMoves

LEMMA MemReturnsKeeps ==
  ASSUME MemIInv, NEW p \in MemProcs, MemReturns(p)
  PROVE  MemIInv'
<1> DEFINE w == [writer[p] EXCEPT !.at = "idle", !.done = {}]
<1>1. clock \in Nat /\ writer \in [MemProcs -> Writers] /\ writer[p] \in Writers
  BY DEF MemIInv, MemTypeOK
<1>2. writer' = [writer EXCEPT ![p] = w]
  BY DEF MemReturns
<1>3. w \in Writers /\ w.todo = writer[p].todo /\ w.done = {}
  BY <1>1 DEF Writers
<1> HIDE DEF w
<1>4. SoundCall(w)
  BY <1>3 DEF MemIInv, SoundCall
<1>5. memFile' = memFile /\ legacy' = legacy /\ clock' = clock /\ kept' = kept \cup writer[p].done
  BY DEF MemReturns
<1>6. WrittenLines' = WrittenLines /\ memFile' \in [MemFiles -> MemoryFiles]
      /\ clock' \in Nat /\ clock <= clock'
  BY <1>1, <1>5, LinesStay DEF MemIInv, MemTypeOK
<1> QED
  BY <1>2, <1>3, <1>4, <1>5, <1>6, MemCallMoves

LEMMA ClockKeeps ==
  ASSUME MemIInv, clock' \in Nat, clock <= clock', UNCHANGED <<memFile, legacy, writer, kept>>
  PROVE  MemIInv'
<1>1. clock \in Nat \ {0}
  BY DEF MemIInv, MemTypeOK
<1>2. WrittenLines' = WrittenLines
  BY LinesStay
<1>3. ASSUME NEW q, Sound(q, WrittenLines, legacy, clock)
      PROVE  Sound(q, WrittenLines', legacy', clock')
  <2> DEFINE W == WrittenLines
  <2>1. W \subseteq W /\ Sound(q, W, legacy, clock) /\ clock \in Nat
    BY <1>1, <1>3
  <2> HIDE DEF W
  <2>2. Sound(q, W, legacy, clock')
    BY <2>1, SoundGrows
  <2> QED
    BY <1>2, <2>2 DEF W
<1>4. MemTypeOK'
  BY <1>1 DEF MemIInv, MemTypeOK
<1> QED
  BY <1>2, <1>3, <1>4 DEF MemIInv

LEMMA MemInitOK == MemInit => MemIInv
<1> SUFFICES ASSUME MemInit PROVE MemIInv
  OBVIOUS
<1>1. legacy \subseteq LegacyRecords /\ \A q, s \in legacy : q = s
  BY DEF MemInit
<1>2. MemTypeOK
  <2>1. [lines |-> <<>>, open |-> FALSE] \in MemoryFiles
    BY DEF MemoryFiles
  <2>2. NotWriting \in Writers
    BY DEF NotWriting, Writers
  <2> QED
    BY <1>1, <2>1, <2>2 DEF MemInit, MemTypeOK
<1>3. WrittenLines = legacy
  <2>1. \A f \in MemFiles : memFile[f].lines = <<>>
    BY DEF MemInit
  <2>2. \A f \in MemFiles : LinesOf(f) = {}
    BY <2>1 DEF LinesOf
  <2> QED
    BY <2>2 DEF WrittenLines
<1>4. \A q \in legacy : Sound(q, legacy, legacy, clock)
  <2>1. clock = 1
    BY DEF MemInit
  <2>2. \A q \in legacy : q \in MemRecords /\ q.updated = 0
    BY <1>1, MemoryAssumption
  <2> QED
    BY <2>1, <2>2 DEF Sound, First
<1>5. \A p \in MemProcs : writer[p].todo = <<>> /\ writer[p].done = {}
  BY DEF MemInit, NotWriting
<1> QED
  BY <1>2, <1>3, <1>4, <1>5 DEF MemIInv, MemInit

LEMMA MemStep ==
  ASSUME MemIInv, [MemNext]_memVars
  PROVE  MemIInv'
<1>1. CASE UNCHANGED memVars
  <2>1. clock' \in Nat /\ clock <= clock' /\ UNCHANGED <<memFile, legacy, writer, kept>>
    BY <1>1 DEF memVars, MemIInv, MemTypeOK
  <2> QED
    BY <2>1, ClockKeeps
<1>2. CASE MemTick
  <2>1. clock' \in Nat /\ clock <= clock' /\ UNCHANGED <<memFile, legacy, writer, kept>>
    BY <1>2 DEF MemTick, MemIInv, MemTypeOK
  <2> QED
    BY <2>1, ClockKeeps
<1>3. ASSUME NEW p \in MemProcs, NEW cs \in Prompts, Extract(p, cs) PROVE MemIInv'
  BY <1>3, ExtractKeeps
<1>4. ASSUME NEW p \in MemProcs, NEW r \in AllRecords, NEW status \in {"Active", "Rejected"},
             Review(p, r.id, status)
      PROVE  MemIInv'
  BY <1>4, ReviewKeeps
<1>5. ASSUME NEW p \in MemProcs, NEW torn \in BOOLEAN, NEW died \in BOOLEAN,
             AppendFails(p, torn, died)
      PROVE  MemIInv'
  BY <1>5, AppendFailsKeeps
<1>6. ASSUME NEW p \in MemProcs, AppendLine(p) PROVE MemIInv'
  BY <1>6, AppendLineKeeps
<1>7. ASSUME NEW p \in MemProcs, MemReturns(p) PROVE MemIInv'
  BY <1>7, MemReturnsKeeps
<1> QED
  BY <1>1, <1>2, <1>3, <1>4, <1>5, <1>6, <1>7 DEF MemNext

(* The memory plugins (yunxi-memory): for any number of Hosts, calls and   *)
(* prompts, appends that fail or are torn, and reads of files of any       *)
(* length, what was acknowledged and can be read stands in every load, a   *)
(* review stays, and nothing is recalled that is out of scope.             *)
THEOREM MemoryStaysKept == MemInit /\ [][MemNext]_memVars => []MemoryIsKept
<1>1. MemInit => MemIInv
  BY MemInitOK
<1>2. MemIInv /\ [MemNext]_memVars => MemIInv'
  BY MemStep
<1>3. MemIInv => MemoryIsKept
  BY MemoryImplied
<1> QED
  BY <1>1, <1>2, <1>3, PTL
============================================================================
