----------------------------- MODULE ToolSkills -----------------------------
(***************************************************************************)
(* The Skills plugin: it reads the directories under its root once when it *)
(* starts and when a list asks for it, and answers lists, contexts and     *)
(* status from that snapshot while the files may change.  What it sends is *)
(* checked again when it is built: an answer that fails ends the process.  *)
(*                                                                         *)
(* The directories are slots in the order of their names; two names that   *)
(* differ in case have one id (SlotIds).  A document is a sequence of      *)
(* lines, of size one each.  Names, descriptions, paths and the wording of *)
(* warnings are left out; "bad" text is what their checks refuse.          *)
(***************************************************************************)
EXTENDS Naturals, Sequences, FiniteSets

CONSTANTS
  SlotIds,             \* the id of each slot
  SkillEntries,        \* [at, lines, tools]: what a slot may hold
  DisabledSkills,      \* ids the configuration turns off
  MAX_SKILL_METADATA, MAX_SKILL_TOOL_DECLARATIONS, MAX_SKILL_FILE_BYTES,
  MAX_SKILL_INSTRUCTION_BYTES, MAX_SKILL_CONTEXT_BYTES, MAX_SKILL_WARNINGS,
  MaxSkillSteps        \* bound on edits, starts and requests

Entries == [at : {"absent", "inside", "outside"}, lines : Seq(STRING), tools : Seq(STRING)]

(* What a slot may hold, and limits of which the one on warnings is not 0. *)
ASSUME SkillsAssumption ==
  /\ SlotIds \in Seq(STRING) /\ SkillEntries \subseteq Entries
  /\ {MAX_SKILL_METADATA, MAX_SKILL_TOOL_DECLARATIONS, MAX_SKILL_FILE_BYTES,
      MAX_SKILL_INSTRUCTION_BYTES, MAX_SKILL_CONTEXT_BYTES} \subseteq Nat
  /\ MAX_SKILL_WARNINGS \in Nat \ {0}

VARIABLES
  skillRoot,    \* "missing", "file" or "directory"
  slots,        \* slot -> entry
  skillPlugin,  \* [up, snapshot]; the snapshot with the files it was read from
  skillAnswer,  \* history: the last answer and what it answers
  skillSteps

skillVars == <<skillRoot, slots, skillPlugin, skillAnswer, skillSteps>>

Slots == DOMAIN SlotIds
NoEntry == [at |-> "absent", lines |-> <<>>, tools |-> <<>>]
Trim(line) == line = ""

----------------------------------------------------------------------------
(* split_document: a head between two marks names and describes the Skill. *)
SplitDocument(lines) ==
  LET marks == {i \in DOMAIN lines : lines[i] = "---"}
      ends == {i \in marks : i > 1 /\ \A j \in marks : j > 1 => i <= j}
  IN IF 1 \notin marks \/ ends = {} THEN lines
     ELSE SubSeq(lines, (CHOOSE i \in ends : TRUE) + 1, Len(lines))

BlockValid(text) ==
  Len(text) <= MAX_SKILL_INSTRUCTION_BYTES /\ \A i \in DOMAIN text : text[i] # "bad"

(* SkillToolDescriptor and SkillMetadata; "run" stands for a schema with a *)
(* field that names something to be executed.                              *)
MetadataValid(id, tools) ==
  /\ id # "bad"
  /\ Len(tools) <= MAX_SKILL_TOOL_DECLARATIONS
  /\ \A i \in DOMAIN tools : tools[i] # "run"
  /\ \A i, j \in DOMAIN tools : tools[i] = tools[j] => i = j

(* load_skill and load_tools; an entry is inside the root, or links to     *)
(* something outside, or its tools.json does.                              *)
LoadsSkill(id, e) ==
  /\ e.at = "inside"
  /\ Len(e.lines) <= MAX_SKILL_FILE_BYTES
  /\ BlockValid(SplitDocument(e.lines))
  /\ MetadataValid(id, e.tools)

Skill(id, e) == [id |-> id, text |-> SplitDocument(e.lines), tools |-> e.tools]

SumOf(sizes) ==
  LET sum[i \in 0..Len(sizes)] == IF i = 0 THEN 0 ELSE sum[i - 1] + sizes[i]
  IN sum[Len(sizes)]

ToolCount(skills) == SumOf([i \in DOMAIN skills |-> Len(skills[i].tools)])

Warned(s) == [s EXCEPT !.warnings = IF @ < MAX_SKILL_WARNINGS THEN @ + 1 ELSE @]

\* Mutation: the tools of the Skills before are not counted.
FitsAlone(s, skill) == Len(skill.tools) <= MAX_SKILL_TOOL_DECLARATIONS

FitsTools(s, skill) == ToolCount(s.skills) + Len(skill.tools) <= MAX_SKILL_TOOL_DECLARATIONS

(* One directory entry of discover; "absent" is also a file, or a          *)
(* directory without a document.  An id counts as seen when its Skill is   *)
(* then left out for its tools.                                            *)
Discovers(s, slot) ==
  LET e == slots[slot]
      skill == Skill(SlotIds[slot], e)
  IN IF e.at = "absent" THEN s
     ELSE IF ~LoadsSkill(skill.id, e) THEN Warned(s)
     ELSE IF Len(s.skills) >= MAX_SKILL_METADATA THEN [s EXCEPT !.truncated = TRUE]
     ELSE IF skill.id \in DisabledSkills THEN s
     ELSE IF skill.id \in s.seen THEN Warned(s)
     ELSE IF ~FitsTools(s, skill)
       THEN [s EXCEPT !.truncated = TRUE, !.seen = @ \cup {skill.id}]
     ELSE [s EXCEPT !.skills = Append(@, skill), !.seen = @ \cup {skill.id}]

NoSnapshot == [skills |-> <<>>, warnings |-> 0, truncated |-> FALSE, seen |-> {}, of |-> <<>>]

(* discover: a root that is not there has no Skills; one that is no        *)
(* directory is an error.                                                  *)
Discovered ==
  LET after[n \in 0..Len(SlotIds)] ==
        IF n = 0 THEN [NoSnapshot EXCEPT !.of = slots] ELSE Discovers(after[n - 1], n)
  IN IF skillRoot = "missing" THEN [NoSnapshot EXCEPT !.warnings = 1] ELSE after[Len(SlotIds)]

----------------------------------------------------------------------------
(* The checks of the answers.                                              *)
ListValid(s) ==
  /\ Len(s.skills) <= MAX_SKILL_METADATA
  /\ \A i \in DOMAIN s.skills : MetadataValid(s.skills[i].id, s.skills[i].tools)
  /\ \A i, j \in DOMAIN s.skills : s.skills[i].id = s.skills[j].id => i = j
  /\ ToolCount(s.skills) <= MAX_SKILL_TOOL_DECLARATIONS
  /\ s.warnings <= MAX_SKILL_WARNINGS

TotalSize(blocks) == SumOf([i \in DOMAIN blocks |-> Len(blocks[i].text)])

ContextValid(c) ==
  /\ \A i \in DOMAIN c.blocks : BlockValid(c.blocks[i].text)
  /\ \A i, j \in DOMAIN c.blocks : c.blocks[i].id = c.blocks[j].id => i = j
  /\ TotalSize(c.blocks) <= MAX_SKILL_CONTEXT_BYTES
  /\ c.warnings <= MAX_SKILL_WARNINGS

Named(skills, id) == {skills[i] : i \in {j \in DOMAIN skills : skills[j].id = id}}
Blank(skill) == \A i \in DOMAIN skill.text : Trim(skill.text[i])

(* One id of a context request. *)
Adds(c, id, skills) ==
  LET found == Named(skills, id) IN
  IF found = {} \/ \A skill \in found : Blank(skill) THEN Warned(c)
  ELSE LET skill == CHOOSE x \in found : TRUE IN
       IF TotalSize(c.blocks) + Len(skill.text) > MAX_SKILL_CONTEXT_BYTES
         THEN [Warned(c) EXCEPT !.truncated = TRUE]
         ELSE [c EXCEPT !.blocks = Append(@, [id |-> id, text |-> skill.text])]

ContextOf(s, ids) ==
  LET after[n \in 0..Len(ids)] ==
        IF n = 0 THEN [blocks |-> <<>>, warnings |-> s.warnings, truncated |-> FALSE]
        ELSE Adds(after[n - 1], ids[n], s.skills)
  IN after[Len(ids)]

----------------------------------------------------------------------------
NoSkillAnswer == [op |-> "none", ids |-> <<>>, result |-> "none", context |-> ContextOf(NoSnapshot, <<>>)]

SkillsInit ==
  /\ skillRoot \in {"missing", "file", "directory"}
  /\ slots = [s \in Slots |-> NoEntry]
  /\ skillPlugin = [up |-> FALSE, snapshot |-> NoSnapshot]
  /\ skillAnswer = NoSkillAnswer
  /\ skillSteps = 0

SkillStep == skillSteps < MaxSkillSteps /\ skillSteps' = skillSteps + 1

(* The files are changed from outside. *)
EditsSkill(slot, e) ==
  /\ SkillStep
  /\ skillRoot' = "directory"
  /\ slots' = [slots EXCEPT ![slot] = e]
  /\ UNCHANGED <<skillPlugin, skillAnswer>>

ReplacesRoot(root) ==
  /\ SkillStep
  /\ skillRoot' = root
  /\ slots' = [s \in Slots |-> NoEntry]
  /\ UNCHANGED <<skillPlugin, skillAnswer>>

SkillsStart ==
  /\ ~skillPlugin.up
  /\ skillRoot # "file"
  /\ SkillStep
  /\ skillPlugin' = [up |-> TRUE, snapshot |-> Discovered]
  /\ UNCHANGED <<skillRoot, slots, skillAnswer>>

SkillsShutdown ==
  /\ skillPlugin.up
  /\ SkillStep
  /\ skillPlugin' = [up |-> FALSE, snapshot |-> NoSnapshot]
  /\ skillAnswer' = NoSkillAnswer
  /\ UNCHANGED <<skillRoot, slots>>

(* An answer is sent when it passes its check; otherwise the plugin ends.  *)
SkillsAnswer(op, ids, snapshot, context, valid) ==
  /\ skillPlugin' = [up |-> valid, snapshot |-> snapshot]
  /\ skillAnswer' = [op |-> op, ids |-> ids, context |-> context,
                     result |-> IF valid THEN "ok" ELSE "died"]

ListSkills(refreshed) ==
  /\ skillPlugin.up
  /\ SkillStep
  /\ IF refreshed /\ skillRoot = "file"
       THEN /\ skillAnswer' = [NoSkillAnswer EXCEPT !.op = "list", !.result = "skills_discovery"]
            /\ UNCHANGED skillPlugin
       ELSE LET s == IF refreshed THEN Discovered ELSE skillPlugin.snapshot
            IN SkillsAnswer("list", <<>>, s, NoSkillAnswer.context, ListValid(s))
  /\ UNCHANGED <<skillRoot, slots>>

(* A request repeats no id and has no more of them than a list. *)
LoadContext(ids) ==
  /\ skillPlugin.up
  /\ SkillStep
  /\ IF \/ Len(ids) > MAX_SKILL_METADATA
        \/ \E i, j \in DOMAIN ids : i # j /\ ids[i] = ids[j]
       THEN /\ skillAnswer' = [NoSkillAnswer EXCEPT !.op = "context", !.result = "invalid_request"]
            /\ UNCHANGED skillPlugin
       ELSE LET c == ContextOf(skillPlugin.snapshot, ids)
            IN SkillsAnswer("context", ids, skillPlugin.snapshot, c, ContextValid(c))
  /\ UNCHANGED <<skillRoot, slots>>

SkillStatus ==
  /\ skillPlugin.up
  /\ SkillStep
  /\ LET s == skillPlugin.snapshot IN
     SkillsAnswer("status", <<>>, s, NoSkillAnswer.context,
       Len(s.skills) <= MAX_SKILL_METADATA /\ ToolCount(s.skills) <= MAX_SKILL_TOOL_DECLARATIONS)
  /\ UNCHANGED <<skillRoot, slots>>

SkillsNext ==
  \/ \E slot \in Slots, e \in SkillEntries : EditsSkill(slot, e)
  \/ \E root \in {"missing", "file"} : ReplacesRoot(root)
  \/ SkillsStart \/ SkillsShutdown
  \/ \E refreshed \in BOOLEAN : ListSkills(refreshed)
  \/ \E n \in 0..2 : \E ids \in [1..n -> {SlotIds[i] : i \in Slots}] : LoadContext(ids)
  \/ SkillStatus

----------------------------------------------------------------------------
(* The reference: the Skills of some files, without a walk.                *)
Usable(files, slot) == SlotIds[slot] \notin DisabledSkills /\ LoadsSkill(SlotIds[slot], files[slot])
FirstOfId(files, slot) == \A other \in Slots :
  other < slot /\ Usable(files, other) => SlotIds[other] # SlotIds[slot]

(* The files decide what there is, and nothing the plugin finds there ends *)
(* it: every Skill that can be loaded, the first of its id, is listed with *)
(* the text and the tools of its files, or the list says that it is not    *)
(* complete; nothing else is listed; and a context holds the listed texts  *)
(* of the ids that were asked for, in that order and within the budget,    *)
(* whatever has happened to the files since, and says when one was left    *)
(* out for its size.                                                       *)
SkillsAreWhatWasFound ==
  LET s == skillPlugin.snapshot
      found == {<<slot, Skill(SlotIds[slot], s.of[slot])>> :
                  slot \in {x \in DOMAIN s.of : Usable(s.of, x) /\ FirstOfId(s.of, x)}}
      listed == {s.skills[i] : i \in DOMAIN s.skills}
      c == skillAnswer.context
  IN /\ skillAnswer.result # "died"
     /\ listed \subseteq {f[2] : f \in found}
     /\ s.truncated \/ {f[2] : f \in found} \subseteq listed
     /\ skillAnswer.op = "context" /\ skillAnswer.result = "ok" =>
          /\ \A i \in DOMAIN c.blocks : [id |-> c.blocks[i].id, text |-> c.blocks[i].text]
               \in {[id |-> x.id, text |-> x.text] : x \in listed}
          /\ \E at \in [DOMAIN c.blocks -> DOMAIN skillAnswer.ids] :
               /\ \A i \in DOMAIN c.blocks : skillAnswer.ids[at[i]] = c.blocks[i].id
               /\ \A i, j \in DOMAIN c.blocks : i < j => at[i] < at[j]
          /\ TotalSize(c.blocks) <= MAX_SKILL_CONTEXT_BYTES
          /\ c.truncated \/ \A i \in DOMAIN skillAnswer.ids :
               \A x \in Named(s.skills, skillAnswer.ids[i]) :
                 Blank(x) \/ \E k \in DOMAIN c.blocks : c.blocks[k].id = x.id
=============================================================================
