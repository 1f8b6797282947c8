--------------------------- MODULE DocumentStore ----------------------------
(***************************************************************************)
(* The four crates that keep a JSON document on disk: settings, storage    *)
(* (sessions), multi-agent (agents) and companion-mailbox (mailbox).  They *)
(* replace a file by the same sequence of system calls, replace_file, and  *)
(* differ in what they read back: the loaders.  A process may crash before *)
(* every call, and every call may fail.                                    *)
(*                                                                         *)
(* One document of one store is modelled.  A document is its revision and  *)
(* the number of the save that made it: the settings file stores its       *)
(* revision, for the other stores it counts the changes in the record.     *)
(* The temporary file has a name of its own per call and is written and    *)
(* synced before it is renamed, so no half-written document is ever        *)
(* renamed and no left-over one is ever read: it is the variable draft.      *)
(***************************************************************************)
EXTENDS Naturals, FiniteSets

CONSTANTS
  Writers,    \* the processes that share the document
  Kinds,      \* the stores considered: see AllKinds
  MaxSaves    \* bound on the saves that are begun

AllKinds == {"settings", "sessions", "agents", "mailbox"}

ASSUME KindsAssumption == Kinds \subseteq AllKinds /\ Kinds # {}
ASSUME SavesAssumption == MaxSaves \in Nat

VARIABLES
  kind,       \* which store this document belongs to; never changes
  target,     \* <name>.json
  backup,     \* <name>.json.bak
  pc,         \* pc[w]: "down", "idle" or the next system call of replace_file
  memory,     \* memory[w]: the document CapabilitySettingsStore holds
  base,       \* base[w]: the document the running call started from
  draft,       \* draft[w]: the content of its temporary file
  seen,       \* the document a settings client read last
  saves,      \* number of saves begun
  acked,      \* the last document whose save was answered with Ok
  published,  \* every document that has been the target
  created     \* how often enqueue answered that it created the item

docVars == <<kind, target, backup, pc, memory, base, draft, seen, saves, acked,
             published, created>>

NoDoc == [rev |-> 0, save |-> 0]
Document == [rev : Nat, save : Nat]

Exists(file) == file # NoDoc

(***************************************************************************)
(* The loaders.  Settings, sessions and agents fall back to the backup     *)
(* when there is no target; load_items of the mailbox only takes names     *)
(* that end in .json.                                                      *)
(***************************************************************************)
\* Mutations: the backup is preferred; the backup is not looked at.
BackupFirst == IF Exists(backup) THEN backup ELSE target
TargetOnly == target

SettingsLoad == IF Exists(target) THEN target ELSE backup
ReadNextRecord == IF Exists(target) THEN target ELSE backup
AgentsLoad == IF Exists(target) THEN target ELSE backup
LoadItems == target

Visible == IF kind = "settings" THEN SettingsLoad
           ELSE IF kind = "sessions" THEN ReadNextRecord
           ELSE IF kind = "agents" THEN AgentsLoad
           ELSE LoadItems

----------------------------------------------------------------------------
DocInit ==
  /\ kind \in Kinds
  /\ target = NoDoc
  /\ backup = NoDoc
  /\ pc = [w \in Writers |-> "down"]
  /\ memory = [w \in Writers |-> NoDoc]
  /\ base = [w \in Writers |-> NoDoc]
  /\ draft = [w \in Writers |-> NoDoc]
  /\ seen = NoDoc
  /\ saves = 0
  /\ acked = NoDoc
  /\ published = {}
  /\ created = 0

Goto(w, label) == pc' = [pc EXCEPT ![w] = label]

(* The process starts; only the settings are read into memory here. *)
Start(w) ==
  /\ pc[w] = "down"
  /\ Goto(w, "idle")
  /\ memory' = [memory EXCEPT ![w] = IF kind = "settings" THEN SettingsLoad
                                                          ELSE NoDoc]
  /\ UNCHANGED <<kind, target, backup, base, draft, seen, saves, acked,
                 published, created>>

(* The process dies, between any two system calls. *)
Crash(w) ==
  /\ pc[w] # "down"
  /\ Goto(w, "down")
  /\ memory' = [memory EXCEPT ![w] = NoDoc]
  /\ base' = [base EXCEPT ![w] = NoDoc]
  /\ draft' = [draft EXCEPT ![w] = NoDoc]
  /\ UNCHANGED <<kind, target, backup, seen, saves, acked, published, created>>

(* A changed document is serialised and handed to replace_file. *)
Save(w, from) ==
  /\ saves < MaxSaves
  /\ saves' = saves + 1
  /\ base' = [base EXCEPT ![w] = from]
  /\ draft' = [draft EXCEPT ![w] = [rev |-> from.rev + 1, save |-> saves + 1]]
  /\ Goto(w, "write")
  /\ UNCHANGED <<kind, target, backup, memory, seen, acked, published, created>>

(***************************************************************************)
(* Settings.  A client reads the document with its revision, and may send  *)
(* that revision with a later change; check_revision compares it with the  *)
(* revision in memory.  A refused change, and one that changes nothing,    *)
(* leaves everything as it was.                                            *)
(***************************************************************************)
SettingsRead(w) ==
  /\ kind = "settings"
  /\ pc[w] = "idle"
  /\ seen # memory[w]
  /\ seen' = memory[w]
  /\ UNCHANGED <<kind, target, backup, pc, memory, base, draft, saves, acked,
                 published, created>>

\* Mutation: the revision is not compared.
AnyRevision(w) == TRUE

CheckRevision(w) == seen.rev = memory[w].rev

FencedCommit(w) ==
  /\ kind = "settings"
  /\ pc[w] = "idle"
  /\ CheckRevision(w)
  /\ Save(w, memory[w])

UnfencedCommit(w) ==
  /\ kind = "settings"
  /\ pc[w] = "idle"
  /\ Save(w, memory[w])

(***************************************************************************)
(* Sessions.  create (and append without an id) makes the record under a   *)
(* fresh id, so it happens once to this document; append and mutate read   *)
(* the record first and are refused when there is none.                    *)
(***************************************************************************)
SessionCreate(w) ==
  /\ kind = "sessions"
  /\ pc[w] = "idle"
  /\ saves = 0
  /\ Save(w, NoDoc)

SessionAppend(w) ==
  /\ kind = "sessions"
  /\ pc[w] = "idle"
  /\ Exists(ReadNextRecord)
  /\ Save(w, ReadNextRecord)

(* Archive, unarchive, pin and unpin; a fork is the create of another id. *)
SessionMutate(w) ==
  /\ kind = "sessions"
  /\ pc[w] = "idle"
  /\ Exists(ReadNextRecord)
  /\ Save(w, ReadNextRecord)

(* Agents: every operation loads the graph, or makes a new one. *)
AgentsChange(w) ==
  /\ kind = "agents"
  /\ pc[w] = "idle"
  /\ Save(w, AgentsLoad)

(***************************************************************************)
(* Mailbox.  The item of an idempotency key: enqueue writes it when no     *)
(* item has the key (otherwise it answers with the item it found, and      *)
(* nothing changes), mark_read rewrites it.  The key file that encrypts    *)
(* the content is not modelled.                                            *)
(***************************************************************************)
Enqueue(w) ==
  /\ kind = "mailbox"
  /\ pc[w] = "idle"
  /\ ~Exists(LoadItems)
  /\ Save(w, NoDoc)

MarkRead(w) ==
  /\ kind = "mailbox"
  /\ pc[w] = "idle"
  /\ Exists(LoadItems)
  /\ Save(w, LoadItems)

----------------------------------------------------------------------------
(***************************************************************************)
(* replace_file, one action per system call.                               *)
(***************************************************************************)
AnswerError(w) ==
  /\ Goto(w, "idle")
  /\ base' = [base EXCEPT ![w] = NoDoc]
  /\ draft' = [draft EXCEPT ![w] = NoDoc]
  /\ UNCHANGED <<kind, target, backup, memory, seen, saves, acked, published,
                 created>>

AnswerOk(w) ==
  /\ Goto(w, "idle")
  /\ memory' = [memory EXCEPT ![w] = IF kind = "settings" THEN draft[w] ELSE @]
  /\ acked' = draft[w]
  /\ created' = IF kind = "mailbox" /\ base[w] = NoDoc THEN created + 1
                                                       ELSE created
  /\ base' = [base EXCEPT ![w] = NoDoc]
  /\ draft' = [draft EXCEPT ![w] = NoDoc]
  /\ UNCHANGED <<kind, target, seen, saves, published>>

JustGoto(w, label) ==
  /\ Goto(w, label)
  /\ UNCHANGED <<kind, target, backup, memory, base, draft, seen, saves, acked,
                 published, created>>

(* The temporary file is created, written and synced. *)
WriteTemporary(w) ==
  /\ pc[w] = "write"
  /\ JustGoto(w, "look")

LookForTarget(w) ==
  /\ pc[w] = "look"
  /\ JustGoto(w, IF Exists(target) THEN "clear" ELSE "promote")

LookForBackup(w) ==
  /\ pc[w] = "clear"
  /\ JustGoto(w, IF Exists(backup) THEN "unlink" ELSE "park")

UnlinkBackup(w) ==
  /\ pc[w] = "unlink"
  /\ Exists(backup)
  /\ backup' = NoDoc
  /\ Goto(w, "park")
  /\ UNCHANGED <<kind, target, memory, base, draft, seen, saves, acked,
                 published, created>>

\* Mutation: the old file is removed instead of renamed.
RemoveTarget(w) ==
  /\ pc[w] = "park"
  /\ target' = NoDoc
  /\ Goto(w, "promote")
  /\ UNCHANGED <<kind, backup, memory, base, draft, seen, saves, acked, published, created>>

(* rename(target, backup) *)
ParkTarget(w) ==
  /\ pc[w] = "park"
  /\ Exists(target)
  /\ backup' = target
  /\ target' = NoDoc
  /\ Goto(w, "promote")
  /\ UNCHANGED <<kind, memory, base, draft, seen, saves, acked, published, created>>

(* rename(temporary, target) *)
Promote(w) ==
  /\ pc[w] = "promote"
  /\ target' = draft[w]
  /\ published' = published \cup {draft[w]}
  /\ Goto(w, "tidy")
  /\ UNCHANGED <<kind, backup, memory, base, draft, seen, saves, acked, created>>

PromoteFails(w) ==
  /\ pc[w] = "promote"
  /\ JustGoto(w, "undo")

(* The rename back is tried when there is a backup; its result is ignored. *)
Undo(w) ==
  /\ pc[w] = "undo"
  /\ IF Exists(backup)
       THEN \/ /\ target' = backup
               /\ backup' = NoDoc
            \/ UNCHANGED <<target, backup>>
       ELSE UNCHANGED <<target, backup>>
  /\ Goto(w, "idle")
  /\ base' = [base EXCEPT ![w] = NoDoc]
  /\ draft' = [draft EXCEPT ![w] = NoDoc]
  /\ UNCHANGED <<kind, memory, seen, saves, acked, published, created>>

(* Any of the first calls fails: the call ends at once with an error. *)
CallFails(w) ==
  /\ pc[w] \in {"write", "unlink", "park"}
  /\ AnswerError(w)

(* The backup is removed if it is there; a failure is ignored. *)
LookForRest(w) ==
  /\ pc[w] = "tidy"
  /\ IF Exists(backup) THEN JustGoto(w, "sweep")
                       ELSE AnswerOk(w) /\ UNCHANGED backup

Sweep(w) ==
  /\ pc[w] = "sweep"
  /\ backup' \in {NoDoc, backup}
  /\ AnswerOk(w)

----------------------------------------------------------------------------
Operation(w) ==
  \/ SettingsRead(w)
  \/ FencedCommit(w) \/ UnfencedCommit(w)
  \/ SessionCreate(w) \/ SessionAppend(w) \/ SessionMutate(w)
  \/ AgentsChange(w)
  \/ Enqueue(w) \/ MarkRead(w)

ReplaceFile(w) ==
  \/ WriteTemporary(w) \/ LookForTarget(w) \/ LookForBackup(w)
  \/ UnlinkBackup(w) \/ ParkTarget(w)
  \/ Promote(w) \/ PromoteFails(w) \/ Undo(w)
  \/ CallFails(w)
  \/ LookForRest(w) \/ Sweep(w)

DocNext == \E w \in Writers : Start(w) \/ Crash(w) \/ Operation(w) \/ ReplaceFile(w)

DocSpec == DocInit /\ [][DocNext]_docVars
----------------------------------------------------------------------------
Labels == {"down", "idle", "write", "look", "clear", "unlink", "park",
           "promote", "undo", "tidy", "sweep"}

(* Types; a document in memory or in a call does not outlive the process.  *)
(* Code: the fields of CapabilitySettingsStore, the locals of replace_file *)
(* and the two files.                                                      *)
DocTypeOK ==
  /\ kind \in Kinds
  /\ {target, backup, seen, acked} \subseteq Document
  /\ published \subseteq Document
  /\ pc \in [Writers -> Labels]
  /\ memory \in [Writers -> Document]
  /\ base \in [Writers -> Document]
  /\ draft \in [Writers -> Document]
  /\ saves \in Nat
  /\ created \in Nat
  /\ \A w \in Writers :
       /\ pc[w] = "down" => memory[w] = NoDoc
       /\ pc[w] \in {"down", "idle"} => base[w] = NoDoc /\ draft[w] = NoDoc

(* A save that was answered with Ok is found by every later load, whatever *)
(* crashed or failed since: nothing older comes back.  For the mailbox,    *)
(* whose loader ignores backups, the files are at least not gone.          *)
(* Code: replace_file against the loaders.                                 *)
AcknowledgedSurvives ==
  IF kind = "mailbox"
    THEN Exists(acked) => Exists(target) \/ Exists(backup)
    ELSE /\ acked.rev <= Visible.rev
         /\ acked.rev = Visible.rev => acked = Visible

(* A revision stands for one document: no two documents that were ever on  *)
(* disk share one, also across crashes.  This is what the revision fence   *)
(* rests on.  Code: commit, which counts from the revision in memory, and  *)
(* load, which restores it.                                                *)
RevisionNamesOneDocument ==
  kind # "mailbox" => \A d, e \in published : d.rev = e.rev => d = e

(* A change that carries a revision is accepted only over the document     *)
(* that its client has seen.  Code: check_revision.                        *)
FenceHolds == [][\A w \in Writers : FencedCommit(w) => seen = Visible]_docVars

(* Enqueue creates the item of a key at most once ("stores idempotent      *)
(* companion messages", README of companion-mailbox).                      *)
EnqueueIsIdempotent == created <= 1

(* The protocol implements an atomic document; the mailbox makes no such   *)
(* promise and maps to a document that nobody saves.  The save takes       *)
(* effect when the temporary file is renamed; moving the old file away is  *)
(* no change, because the loaders look at the backup.                      *)
Pending(w) == IF kind # "mailbox" /\ pc[w] \notin {"tidy", "sweep"}
                THEN draft[w] ELSE NoDoc

Atomic == INSTANCE AtomicDocument WITH
            Nothing <- NoDoc,
            Documents <- [rev : 0 .. MaxSaves, save : 0 .. MaxSaves],
            current <- IF kind = "mailbox" THEN NoDoc ELSE Visible,
            saving <- [w \in Writers |-> Pending(w)]

ImplementsAtomicDocument == Atomic!AtomicSpec
=============================================================================
