------------------------------- MODULE Memory -------------------------------
(***************************************************************************)
(* Long-term memory: append-only JSON-lines files that the memory plugin   *)
(* of each running Host reads as a whole and appends to, without a lock.   *)
(* A change of a record is a later line with the same id; load() collapses *)
(* the lines, first by id and then by content.                             *)
(*                                                                         *)
(* A memory is its content key; what the rules find in a prompt is chosen  *)
(* anew.  The clock has milliseconds and never goes back.  An append may   *)
(* fail, also after a part of the line is written, and the process may be  *)
(* killed then: the next append continues that line, which is then junk.   *)
(* Reading several files is one step.  legacy stands for the files of the  *)
(* old program, which are only read; confidence and scores are left out.   *)
(***************************************************************************)
EXTENDS Naturals, Sequences, FiniteSets

CONSTANTS
  MemProcs,        \* memory plugins of running Hosts
  MemoryKeys,      \* contents: see KindOf
  Prompts,         \* what the rules may find in a prompt: see Candidates
  LegacyRecords,   \* records the legacy file may hold
  MaxNow,          \* bound on the clock
  MaxMemCalls,     \* bound on the calls
  MaxFileLines     \* a longer file is skipped (MAX_MEMORY_FILE_BYTES)

(* An id is the millisecond and the number it was drawn with; those of the *)
(* old program differ from all others.                                     *)
MemRecords ==
  [id : Nat \X Nat, key : MemoryKeys, scope : {"global", "here", "elsewhere"},
   status : {"Pending", "Active", "Rejected"}, sensitivity : {"Low", "Medium", "High"},
   updated : Nat, revision : Nat \ {0}, valid : BOOLEAN]

ASSUME MemoryAssumption ==
  /\ {MaxNow, MaxMemCalls, MaxFileLines} \subseteq Nat
  /\ \A r \in LegacyRecords : r \in MemRecords /\ r.id[1] = 0 /\ r.updated = 0

VARIABLES
  clock,
  memFile,    \* memFile[<<root, name>>]: [lines, open]: a torn line is open
  legacy,     \* the records of the legacy files
  writer,     \* writer[p]: the call a process is in
  kept,       \* history: the records whose append was acknowledged
  memCalls

memVars == <<clock, memFile, legacy, writer, kept, memCalls>>

(* The kinds that differ in scope or in the status they are given.         *)
KindOf(key) == CASE key \in {"zh", "en"} -> "Preference"
                 [] key = "rule" -> "ProjectContext"
                 [] OTHER -> "PersonalFact"

ScopeFor(k) == IF k = "ProjectContext" THEN "here" ELSE "global"

IsLanguage(key) == key \in {"zh", "en"}

MemFiles == {<<root, name>> : root \in {"global", "here"}, name \in {"main", "pending"}}
Junk == [id |-> <<0, 0>>]
NotWriting == [at |-> "idle", todo |-> <<>>, done |-> {}, counter |-> 1]

MemInit ==
  /\ clock = 1
  /\ memFile = [f \in MemFiles |-> [lines |-> <<>>, open |-> FALSE]]
  /\ legacy \in {{}} \cup {{r} : r \in LegacyRecords}
  /\ writer = [p \in MemProcs |-> NotWriting]
  /\ kept = {}
  /\ memCalls = 0

----------------------------------------------------------------------------
(* load()                                                                  *)
\* Mutation: of two versions of the same millisecond the first stays.
ReplacesLater(new, old) == new.updated > old.updated

(* should_replace, up to the importance, which all new records share. *)
ShouldReplace(new, old) ==
  \/ new.updated > old.updated
  \/ new.updated = old.updated /\ new.revision > old.revision

LinesOf(f) == {memFile[f].lines[i] : i \in DOMAIN memFile[f].lines} \ {Junk}
Readable(f) == IF Len(memFile[f].lines) > MaxFileLines THEN {} ELSE LinesOf(f)

AllRecords == (UNION {Readable(f) : f \in MemFiles}) \cup legacy

(* One of the records that nothing in S replaces. *)
Latest(S) == CHOOSE r \in S : \A s \in S : ~ShouldReplace(s, r)

CollapseById(S) == {Latest({s \in S : s.id = r.id}) : r \in S}
CollapseByKey(S) ==
  {Latest({s \in S : s.key = r.key /\ s.status = r.status}) : r \in S}

Load == CollapseByKey(CollapseById(AllRecords))

----------------------------------------------------------------------------
(* extract_and_store: what the rules find, in their order; every candidate *)
(* is compared with what was loaded at the start of the call.              *)
Candidates == [key : MemoryKeys, sensitivity : {"Low", "Medium"}, secret : BOOLEAN]

ASSUME PromptsAssumption == \A p \in Prompts : p \in Seq(Candidates)

(* write_status, and the staging of a language that contradicts an active  *)
(* preference.                                                             *)
StatusOf(c, loaded) ==
  IF \/ c.sensitivity # "Low"
     \/ KindOf(c.key) = "PersonalFact"
     \/ IsLanguage(c.key) /\ \E r \in loaded :
          r.status = "Active" /\ IsLanguage(r.key) /\ r.key # c.key
    THEN "Pending" ELSE "Active"

Stored(c, n, loaded) ==
  [id |-> <<clock, n>>, key |-> c.key, scope |-> ScopeFor(KindOf(c.key)),
   status |-> StatusOf(c, loaded), sensitivity |-> c.sensitivity,
   updated |-> clock, revision |-> 1, valid |-> TRUE]

Public(cs, n) == {i \in 1..n : ~cs[i].secret}

(* Secrets are discarded, contents that are known in any status are not    *)
(* stored again.                                                           *)
ToStore(cs, loaded, counter) ==
  LET upTo[n \in 0..Len(cs)] ==
        IF n = 0 THEN <<>>
        ELSE IF cs[n].secret \/ \E s \in loaded : s.key = cs[n].key THEN upTo[n - 1]
        ELSE Append(upTo[n - 1],
                    Stored(cs[n], counter + Cardinality(Public(cs, n - 1)), loaded))
  IN upTo[Len(cs)]

MemCall(p) ==
  /\ writer[p].at = "idle"
  /\ memCalls < MaxMemCalls
  /\ memCalls' = memCalls + 1

Extract(p, cs) ==
  /\ MemCall(p)
  /\ writer' = [writer EXCEPT ![p] =
       [at |-> "appending", todo |-> ToStore(cs, Load, @.counter), done |-> {},
        counter |-> @.counter + Cardinality(Public(cs, Len(cs)))]]
  /\ UNCHANGED <<clock, memFile, legacy, kept>>

(* review_memory: only what is pending changes. *)
Review(p, id, status) ==
  /\ MemCall(p)
  /\ writer' = [writer EXCEPT ![p].at = "appending", ![p].done = {},
       ![p].todo = LET found == {r \in Load : r.id = id /\ r.status = "Pending"} IN
         IF found = {} THEN <<>>
         ELSE LET r == CHOOSE x \in found : TRUE IN
              << [r EXCEPT !.status = status, !.updated = clock, !.revision = @ + 1] >>]
  /\ UNCHANGED <<clock, memFile, legacy, kept>>

(* A record of another workspace is written to the files of this one.      *)
FileOf(r) == <<IF r.scope = "global" THEN "global" ELSE "here",
               IF r.status = "Pending" THEN "pending" ELSE "main">>

(* One append: the line goes to the end of the file, behind a torn one if  *)
(* there is one, and is on disk when the call returns.                     *)
AppendLine(p) ==
  LET r == Head(writer[p].todo) IN
  /\ writer[p].at = "appending"
  /\ writer[p].todo # <<>>
  /\ memFile' = [memFile EXCEPT ![FileOf(r)] =
       [lines |-> Append(@.lines, IF @.open THEN Junk ELSE r), open |-> FALSE]]
  /\ writer' = [writer EXCEPT ![p].todo = Tail(@), ![p].done = @ \cup {r}]
  /\ UNCHANGED <<clock, legacy, kept, memCalls>>

(* The append fails and with it the call, or the process is killed in it   *)
(* and started again; a part of the line may be in the file.               *)
AppendFails(p, torn, killed) ==
  LET f == FileOf(Head(writer[p].todo)) IN
  /\ writer[p].at = "appending"
  /\ writer[p].todo # <<>>
  /\ memFile' = [memFile EXCEPT ![f].open = @ \/ torn]
  /\ writer' = [writer EXCEPT ![p] =
       [NotWriting EXCEPT !.counter = IF killed THEN 1 ELSE writer[p].counter]]
  /\ IF killed THEN clock < MaxNow /\ clock' = clock + 1 ELSE UNCHANGED clock
  /\ UNCHANGED <<legacy, kept, memCalls>>

MemReturns(p) ==
  /\ writer[p].at = "appending"
  /\ writer[p].todo = <<>>
  /\ kept' = kept \cup writer[p].done
  /\ writer' = [writer EXCEPT ![p].at = "idle", ![p].done = {}]
  /\ UNCHANGED <<clock, memFile, legacy, memCalls>>

----------------------------------------------------------------------------
(* recall_loaded.  `timeline` is a question about the past.  Of the        *)
(* candidates so many are taken, by score and age, as there is room for.   *)
InScope(r) == r.sensitivity # "High" /\ r.scope \in {"global", "here"}

Recallable(r, timeline) ==
  /\ InScope(r)
  /\ r.status = "Active"
  /\ r.valid \/ (timeline /\ KindOf(r.key) # "PersonalFact")

BootCandidates(timeline) ==
  {r \in Load : /\ r.valid /\ Recallable(r, timeline)
                /\ ~(timeline /\ KindOf(r.key) # "PersonalFact")}

(* What matches the query, without what the boot context shows already.    *)
DynamicCandidates(timeline, relevant, boot) ==
  {r \in Load : Recallable(r, timeline) /\ (timeline \/ r.key \in relevant)} \ boot

MemTick ==
  /\ clock < MaxNow
  /\ clock' = clock + 1
  /\ UNCHANGED <<memFile, legacy, writer, kept, memCalls>>

MemNext ==
  \/ \E p \in MemProcs :
       \/ \E cs \in Prompts : Extract(p, cs)
       \/ \E r \in AllRecords, status \in {"Active", "Rejected"} : Review(p, r.id, status)
       \/ \E torn, killed \in BOOLEAN : AppendFails(p, torn, killed)
       \/ AppendLine(p) \/ MemReturns(p)
  \/ MemTick

----------------------------------------------------------------------------
(* What a line can be lost by: it continues a torn line, its file has      *)
(* grown too long, or another Host wrote the same version of the same id,  *)
(* because both drew that id in one millisecond or both reviewed it; it    *)
(* did so also when its line can no longer be read.                        *)
OnDisk(r) == r \in Readable(FileOf(r))
WrittenLines == (UNION {LinesOf(f) : f \in MemFiles}) \cup legacy
Contested(r) == \E s \in WrittenLines :
  /\ s.id = r.id /\ s.revision = r.revision
  /\ <<s.key, s.status>> # <<r.key, r.status>>

(* Memory is neither lost nor undecided again: a record whose storing was  *)
(* acknowledged, and whose line can be read, stands for its content in     *)
(* every later load; once a review was acknowledged, no load shows the     *)
(* record as pending, even when both lines carry the same millisecond; and *)
(* nothing is recalled that is highly sensitive, of another workspace, or  *)
(* was rejected, and past records only when the question is about the past.*)
MemoryIsKept ==
  /\ \A r \in kept : OnDisk(r) /\ ~Contested(r) =>
       /\ \E s \in Load : s.key = r.key
       /\ r.revision > 1 => \A s \in Load : s.id = r.id => s.status = r.status
  /\ \A timeline \in BOOLEAN :
       \A r \in BootCandidates(timeline) \cup DynamicCandidates(timeline, MemoryKeys, {}) :
         /\ r.sensitivity # "High" /\ r.scope # "elsewhere"
         /\ timeline \/ r.valid
=============================================================================
