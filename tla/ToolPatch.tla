----------------------------- MODULE ToolPatch ------------------------------
(***************************************************************************)
(* The patch tool: a patch is parsed, every change is planned against the  *)
(* files as they are, and only then are the files written one by one; when *)
(* a write fails, those before it are undone.                              *)
(*                                                                         *)
(* A file holds a sequence of lines.  A patch names files by relative      *)
(* paths, and two paths may lead to one file (a link).  Each call of the   *)
(* file system may fail, and the process may be killed between two calls.  *)
(* The text of a patch, line endings and sizes are left out: a hunk is the *)
(* lines it expects (context and removed) and those it leaves (context and *)
(* added).                                                                 *)
(***************************************************************************)
EXTENDS Naturals, Sequences, FiniteSets, TLC

CONSTANTS
  PatchPaths,   \* relative paths a patch may name
  PatchFiles,   \* the files they may lead to
  Contents,     \* what files may hold at first, and what a patch may add
  HunkLists,    \* the lists of hunks of an update: sequences of [old, new]
  MAX_PATCH_FILES

ASSUME PatchAssumption ==
  /\ MAX_PATCH_FILES \in Nat
  /\ Contents \subseteq Seq(STRING)
  /\ HunkLists \subseteq Seq([old : Seq(STRING), new : Seq(STRING)])

VARIABLES
  target_of,    \* target_of[p]: the file that path p resolves to
  disk,         \* disk[f]: the lines of a file, or Absent
  patching      \* the call of apply_patch

patchVars == <<target_of, disk, patching>>

Absent == <<"absent">>

(* at: "idle", "writing", "undoing" and then "returned" with result "ok",  *)
(* "refused" or "rolled back", or "killed".  next is the plan that is      *)
(* written or undone, step the call of apply_one; before is a history.     *)
PatchInit ==
  /\ target_of \in [PatchPaths -> PatchFiles]
  /\ disk \in [PatchFiles -> Contents \cup {Absent}]
  /\ patching = [at |-> "idle", plans |-> <<>>, next |-> 1, step |-> "write", result |-> "none",
                 undoFailed |-> FALSE, failed |-> 0, before |-> disk]

----------------------------------------------------------------------------
(* find_unique_match: where `wanted` stands in `lines` at or after the     *)
(* cursor (the number of lines that are behind it).                        *)
Matches(lines, wanted, cursor) ==
  {i \in cursor .. Len(lines) :
     /\ i + Len(wanted) <= Len(lines)
     /\ SubSeq(lines, i + 1, i + Len(wanted)) = wanted}

(* One round of apply_hunks. *)
Splice(state, hunk) ==
  LET found == Matches(state.lines, hunk.old, state.cursor)
      at == IF hunk.old = <<>> THEN state.cursor ELSE CHOOSE i \in found : TRUE
  IN IF state.error \/ (hunk.old # <<>> /\ Cardinality(found) # 1)
       THEN [state EXCEPT !.error = TRUE]
       ELSE [lines |-> SubSeq(state.lines, 1, at) \o hunk.new
                       \o SubSeq(state.lines, at + Len(hunk.old) + 1, Len(state.lines)),
             cursor |-> at + Len(hunk.new), error |-> FALSE]

ApplyHunks(lines, hunks) ==
  LET after[n \in 0 .. Len(hunks)] ==
        IF n = 0 THEN [lines |-> lines, cursor |-> 0, error |-> FALSE]
        ELSE Splice(after[n - 1], hunks[n])
  IN after[Len(hunks)]

----------------------------------------------------------------------------
(* A change of a patch; parse_patch refuses a patch that names a path      *)
(* twice, that has no change, or more than MAX_PATCH_FILES.                *)
Changes ==
  [path : PatchPaths, kind : {"add"}, lines : Contents, hunks : {<<>>}]
  \cup [path : PatchPaths, kind : {"delete"}, lines : {<<>>}, hunks : {<<>>}]
  \cup [path : PatchPaths, kind : {"update"}, lines : {<<>>}, hunks : HunkLists]

Patches == {cs \in UNION {[1 .. n -> Changes] : n \in 1 .. MAX_PATCH_FILES} :
              \A i, j \in DOMAIN cs : cs[i].path = cs[j].path => i = j}

(* build_plans: an added file may not be there, the others must; an update *)
(* must fit.                                                               *)
Plannable(c) ==
  LET now == disk[target_of[c.path]] IN
  CASE c.kind = "add" -> now = Absent
    [] c.kind = "delete" -> now # Absent
    [] c.kind = "update" -> now # Absent /\ ~ApplyHunks(now, c.hunks).error

Planned(c) ==
  LET f == target_of[c.path] IN
  [file |-> f, original |-> disk[f], hunks |-> c.hunks,
   content |-> CASE c.kind = "add" -> c.lines
                 [] c.kind = "delete" -> Absent
                 [] c.kind = "update" -> ApplyHunks(disk[f], c.hunks).lines]

(* apply_patch up to the first write.  `granted`: the grant is valid and   *)
(* allows to read and to write in a workspace that holds the directory.    *)
ApplyPatch(cs, granted) ==
  /\ patching.at = "idle"
  /\ patching' =
       IF granted /\ \A i \in DOMAIN cs : Plannable(cs[i])
         THEN [patching EXCEPT !.at = "writing", !.plans = [i \in DOMAIN cs |-> Planned(cs[i])]]
         ELSE [patching EXCEPT !.at = "returned", !.result = "refused"]
  /\ UNCHANGED <<target_of, disk>>

Current == patching.plans[patching.next]
NextPlan == [patching EXCEPT !.next = @ + 1, !.step = "write"]

(* apply_plans: a plan failed, and those before it are undone. *)
Fail == [patching EXCEPT !.at = "undoing", !.failed = patching.next, !.next = @ - 1]

(* apply_one, call by call.  The temporary file has a name of its own.     *)
StageTemporary(ok) ==
  /\ patching.at = "writing" /\ patching.next <= Len(patching.plans)
  /\ patching.step = "write" /\ Current.content # Absent
  /\ patching' = IF ~ok THEN Fail
                 ELSE [patching EXCEPT !.step = IF disk[Current.file] = Absent
                                                  THEN "rename" ELSE "remove"]
  /\ UNCHANGED <<target_of, disk>>

UnlinkTarget(ok) ==
  /\ patching.at = "writing" /\ patching.next <= Len(patching.plans)
  /\ \/ patching.step = "remove"
     \/ patching.step = "write" /\ Current.content = Absent
  /\ LET removed == ok /\ disk[Current.file] # Absent IN
     /\ disk' = IF removed THEN [disk EXCEPT ![Current.file] = Absent] ELSE disk
     /\ patching' = IF ~removed THEN Fail
                    ELSE IF Current.content = Absent THEN NextPlan
                    ELSE [patching EXCEPT !.step = "rename"]
  /\ UNCHANGED target_of

Rename(ok) ==
  /\ patching.at = "writing" /\ patching.step = "rename"
  /\ disk' = IF ok THEN [disk EXCEPT ![Current.file] = Current.content] ELSE disk
  /\ patching' = IF ok THEN NextPlan ELSE Fail
  /\ UNCHANGED target_of

\* Mutation: a file that was there is removed.
Removes(ok) ==
  LET p == patching.plans[patching.next] IN
  /\ disk' = IF ok THEN [disk EXCEPT ![p.file] = Absent] ELSE disk

(* rollback, from the last written file to the first; errors are ignored.  *)
Restores(ok) ==
  LET p == patching.plans[patching.next] IN
  /\ disk' = IF ok THEN [disk EXCEPT ![p.file] = p.original] ELSE disk

RollBack(ok) ==
  /\ patching.at = "undoing" /\ patching.next > 0
  /\ Restores(ok)
  /\ patching' = [patching EXCEPT !.next = @ - 1, !.undoFailed = @ \/ ~ok]
  /\ UNCHANGED target_of

PatchReturns ==
  /\ \/ patching.at = "writing" /\ patching.next > Len(patching.plans)
        /\ patching' = [patching EXCEPT !.at = "returned", !.result = "ok"]
     \/ patching.at = "undoing" /\ patching.next = 0
        /\ patching' = [patching EXCEPT !.at = "returned", !.result = "rolled back"]
  /\ UNCHANGED <<target_of, disk>>

PatchKilled ==
  /\ patching.at \in {"writing", "undoing"}
  /\ patching' = [patching EXCEPT !.at = "killed"]
  /\ UNCHANGED <<target_of, disk>>

PatchDone ==
  /\ patching.at \in {"returned", "killed"}
  /\ UNCHANGED patchVars

PatchNext ==
  \/ \E cs \in Patches, granted \in BOOLEAN : ApplyPatch(cs, granted)
  \/ \E ok \in BOOLEAN : StageTemporary(ok) \/ UnlinkTarget(ok) \/ Rename(ok) \/ RollBack(ok)
  \/ PatchReturns \/ PatchKilled \/ PatchDone

----------------------------------------------------------------------------
(* What an update leaves is the old text with disjoint stretches, in the   *)
(* order of the hunks, replaced: nothing that a hunk put in is changed by  *)
(* a later one.  offset[i] is where hunk i stands in the old text.         *)
IsReplacement(old, hunks, new) ==
  \E offset \in [DOMAIN hunks -> 0 .. Len(old)] :
    LET n == Len(hunks)
        end(i) == IF i = 0 THEN 0 ELSE offset[i] + Len(hunks[i].old)
        text[i \in 0 .. n] ==
          IF i = 0 THEN <<>>
          ELSE text[i - 1] \o SubSeq(old, end(i - 1) + 1, offset[i]) \o hunks[i].new
    IN /\ \A i \in 1 .. n : /\ offset[i] >= end(i - 1)
                            /\ SubSeq(old, offset[i] + 1, end(i)) = hunks[i].old
       /\ new = text[n] \o SubSeq(old, end(n) + 1, Len(old))

Distinct == \A i, j \in DOMAIN patching.plans :
              patching.plans[i].file = patching.plans[j].file => i = j

(* A patch on distinct files that reports success has made exactly the     *)
(* changes it planned; a refused one has changed nothing; and one that     *)
(* reports "rolled back" has put every file back, unless an undo failed as *)
(* well, but the one whose own write failed: its target is removed before  *)
(* the temporary file is renamed, and a plan whose rename fails is not     *)
(* among those that are undone.                                            *)
PatchIsTransactional ==
  /\ \A i \in DOMAIN patching.plans : LET p == patching.plans[i] IN
       p.hunks # <<>> => IsReplacement(p.original, p.hunks, p.content)
  /\ patching.result = "ok" /\ Distinct =>
       \A f \in PatchFiles :
         \/ \E i \in DOMAIN patching.plans :
              patching.plans[i].file = f /\ disk[f] = patching.plans[i].content
         \/ /\ \A i \in DOMAIN patching.plans : patching.plans[i].file # f
            /\ disk[f] = patching.before[f]
  /\ patching.result = "refused" => disk = patching.before
  /\ patching.result = "rolled back" /\ ~patching.undoFailed =>
       \A f \in PatchFiles :
         f # patching.plans[patching.failed].file => disk[f] = patching.before[f]
=============================================================================
