----------------------------- MODULE MCPlugins -----------------------------
(***************************************************************************)
(* The plugins of a Host are processes of their own that it calls, each    *)
(* over its own route.  They share no state; `part` says which one a       *)
(* behaviour is about, and the others do not move.                         *)
(***************************************************************************)
EXTENDS ToolMcp, ToolPatch, ToolShell, ToolSkills, ToolFiles, Weixin, Voice

VARIABLE part

(* Patches: files with a line that occurs twice, a hunk that inserts what  *)
(* the next one looks for, and a new file.                                 *)
MCContents == {<<"x">>, <<"x", "y">>, <<"x", "x">>}
MCHunkLists == {
  <<[old |-> <<"x">>, new |-> <<"y", "x">>], [old |-> <<"y">>, new |-> <<"z">>]>>,
  <<[old |-> <<>>, new |-> <<"w">>]>>}

(* Skills: two directories that claim one id, a disabled skill, and files  *)
(* with and without front matter, tools and a body.                        *)
MCSlotIds == <<"alpha", "alpha", "beta", "gamma">>
File(lines, tools) == [at |-> "inside", lines |-> lines, tools |-> tools]
MCSkillEntries == {NoEntry, File(<<"a", "b">>, <<"x">>),
  File(<<"---", "name", "---", "c">>, <<"x", "y">>), File(<<"---", "---", "">>, <<>>),
  File(<<"bad">>, <<"run">>)}

(* Files: links to a parent, to a sibling that is reached twice, out of    *)
(* the workspace and to nothing.  A text is cut inside a character or not. *)
Name(n, to) == [name |-> n, hidden |-> FALSE, to |-> to]
Hidden(n, to) == [name |-> n, hidden |-> TRUE, to |-> to]
MCFileTrees == {
  [d \in {"root", "d", "e"} |->
     CASE d = "root" -> <<Name("n", "d"), Name("m", "e"), Name("n", "outside"), Name("n", "broken")>>
       [] d = "d" -> <<Name("n", "f"), Name("m", "root")>>
       [] d = "e" -> <<Name("m", "d"), Hidden("n", "f")>>],
  [d \in {"root", "d"} |->
     IF d = "root" THEN <<Name("m", "d"), Name("n", "f")>> ELSE <<Name("n", "g"), Name("n", "root")>>]}
MCBelow == [d \in {"root", "d", "e"} |->
  CASE d = "root" -> {"root", "d", "e", "f", "g"} [] d = "d" -> {"d", "f"} [] d = "e" -> {"e"}]
MCFileTexts == UNION {[1..n -> {"a", "h", "t", "x"}] : n \in 0..4}

(* Weixin: an image with and one without its height; statuses that a peer  *)
(* made up.                                                                *)
Picture(heights) == [text |-> {}, media |-> <<
  [mime |-> TRUE, name |-> {[size |-> 1, control |-> FALSE, path |-> FALSE]},
   oversized |-> FALSE, width |-> {1}, height |-> heights, size |-> 1]>>]
MCContentsSent == {Picture({1}), Picture({})}
MCWireStatuses == {
  [NewInbound EXCEPT !.ack = "Rejected", !.ackReason = {"reason"}, !.state = "Failed"],
  [NewOutbound EXCEPT !.attempt = 3]}

(* Voice: chunks in and out of order, without a last one, of another       *)
(* stream, and one that is too large.                                      *)
Sound(n, size, last) ==
  [stream |-> "s", sequence |-> n, format |-> "pcm", size |-> size, last |-> last]
MCAudioChunks == {Sound(0, 1, FALSE), Sound(1, 1, FALSE), Sound(2, 0, TRUE), Sound(1, 0, FALSE),
                  Sound(1, 1, TRUE), [Sound(1, 1, TRUE) EXCEPT !.stream = "r"]}
MCAlienStatuses == {[NewStream EXCEPT !.reason = {"hello"}],
                    [NewStream EXCEPT !.cancellation = "Requested"]}
----------------------------------------------------------------------------
(* A part that does not run begins in one of its initial states.           *)
Init ==
  /\ part \in {"mcp", "patch", "shell", "skills", "files", "weixin", "voice"}
  /\ ShellInit /\ VoiceInit
  /\ McpInit
  /\ part # "mcp" => mcpConfig = CHOOSE c \in McpEnvironments : TRUE
  /\ PatchInit
  /\ part # "patch" => /\ target_of = [p \in PatchPaths |-> "f"]
                      /\ disk = [f \in PatchFiles |-> Absent]
  /\ SkillsInit
  /\ part # "skills" => skillRoot = "missing"
  /\ FilesInit
  /\ part # "files" => fileTree = CHOOSE t \in MCFileTrees : TRUE
  /\ WeixinInit
  /\ part # "weixin" => delivery = NewInbound /\ channel.kind = "plugin"

adapters == <<part, weixinVars, voiceVars>>

Next ==
  \/ /\ part = "mcp" /\ McpNext
     /\ UNCHANGED <<patchVars, shellVars, skillVars, fileVars, adapters>>
  \/ /\ part = "patch" /\ PatchNext
     /\ UNCHANGED <<mcpVars, shellVars, skillVars, fileVars, adapters>>
  \/ /\ part = "shell" /\ ShellNext
     /\ UNCHANGED <<mcpVars, patchVars, skillVars, fileVars, adapters>>
  \/ /\ part = "skills" /\ SkillsNext
     /\ UNCHANGED <<mcpVars, patchVars, shellVars, fileVars, adapters>>
  \/ /\ part = "files" /\ FilesNext
     /\ UNCHANGED <<mcpVars, patchVars, shellVars, skillVars, adapters>>
  \/ /\ part = "weixin" /\ WeixinNext
     /\ UNCHANGED <<part, mcpVars, patchVars, shellVars, skillVars, fileVars, voiceVars>>
  \/ /\ part = "voice" /\ VoiceNext
     /\ UNCHANGED <<part, mcpVars, patchVars, shellVars, skillVars, fileVars, weixinVars>>

Spec ==
  /\ Init
  /\ [][Next]_<<mcpVars, patchVars, shellVars, skillVars, fileVars, adapters>>
  /\ ShellFairness
=============================================================================
