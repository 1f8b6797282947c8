--------------------------- MODULE DocumentProofs ---------------------------
(***************************************************************************)
(* For every bound on the saves and every kind of store, with one process  *)
(* that saves at a time: what was acknowledged survives, a revision names  *)
(* one document, the fence holds, and the files implement an atomic        *)
(* document.  The settings, one of the documents, decide with the profile  *)
(* which plugins a Host starts: the last part of the module is about them. *)
(*                                                                         *)
(* The inductive invariant says where the two files stand at every system  *)
(* call.  Between the two renames there is no target, and what the loaders *)
(* find is the backup, which is the document the call started from; from   *)
(* the second rename on the target is the new document and a backup that   *)
(* is left over does not matter until the next save removes it.            *)
(***************************************************************************)
EXTENDS DocumentStore, Composition, WellFoundedInduction, FiniteSetTheorems,
        SequenceTheorems, TLAPS

OneWriter == \A v, w \in Writers : v = w

Ordinary == kind # "mailbox"

BeforeRename == {"write", "look", "clear", "unlink", "park", "promote", "undo"}

OnDisk == published \cup {NoDoc}

(* Every document there is was the target once, and is counted. *)
OriginInv ==
  /\ saves <= MaxSaves
  /\ target \in OnDisk
  /\ backup \in OnDisk
  /\ seen \in OnDisk
  /\ acked \in OnDisk
  /\ \A d \in published : 1 <= d.rev /\ d.rev <= saves /\ d.save <= saves

(* What a loader finds is the newest of them. *)
NewestInv == Ordinary => \A d \in published : d.rev < Visible.rev \/ d = Visible

(* Where a call stands with the files. *)
FileInv ==
  \A w \in Writers :
    /\ pc[w] \in {"clear", "unlink", "park"} => Exists(target)
    /\ pc[w] \in {"promote", "undo"} => ~Exists(target)
    /\ pc[w] \in {"tidy", "sweep"} => target = draft[w]
    /\ pc[w] \notin {"down", "idle"} =>
         /\ draft[w].rev = base[w].rev + 1
         /\ draft[w].rev <= saves
         /\ draft[w].save <= saves

(* Where it stands with what the loaders find. *)
CallInv ==
  Ordinary =>
    \A w \in Writers :
      /\ pc[w] \in BeforeRename => Visible = base[w]
      /\ kind = "settings" /\ pc[w] \in BeforeRename \cup {"idle"}
           => memory[w] = Visible

KeptInv == Exists(acked) => Exists(target) \/ Exists(backup)

DocIInv == DocTypeOK /\ OriginInv /\ NewestInv /\ FileInv /\ CallInv /\ KeptInv

----------------------------------------------------------------------------
(* The loaders of the ordinary stores agree. *)
LEMMA VisibleDef ==
  ASSUME kind \in Kinds, kind # "mailbox"
  PROVE  Visible = IF Exists(target) THEN target ELSE backup
BY KindsAssumption DEF AllKinds, Visible, SettingsLoad, ReadNextRecord, AgentsLoad

LEMMA VisibleDefPrime ==
  ASSUME kind' \in Kinds, kind' # "mailbox"
  PROVE  Visible' = IF Exists(target') THEN target' ELSE backup'
BY KindsAssumption
DEF AllKinds, Visible, SettingsLoad, ReadNextRecord, AgentsLoad, Exists

LEMMA InitIInv == DocInit => DocIInv
<1> SUFFICES ASSUME DocInit PROVE DocIInv
  OBVIOUS
<1>1. DocTypeOK
  BY DEF DocInit, DocTypeOK, Document, NoDoc, Labels
<1>2. OriginInv
  BY SavesAssumption DEF DocInit, OriginInv, OnDisk
<1>3. NewestInv /\ FileInv /\ KeptInv
  BY DEF DocInit, NewestInv, FileInv, KeptInv, Exists
<1>4. CallInv
  BY DEF DocInit, CallInv, BeforeRename
<1> QED
  BY <1>1, <1>2, <1>3, <1>4 DEF DocIInv

USE DEF Ordinary

LEMMA StartInv ==
  ASSUME OneWriter, DocIInv, NEW w \in Writers, Start(w)
  PROVE  DocIInv'
<1> USE DEF DocIInv
<1>1. DocTypeOK'
  BY DEF DocTypeOK, Start, Goto, SettingsLoad, Document, NoDoc, Labels
<1>2. OriginInv' /\ KeptInv'
  BY DEF OriginInv, OnDisk, KeptInv, Start, Exists
<1>3. Visible' = Visible
  BY DEF Start, Visible, SettingsLoad, ReadNextRecord, AgentsLoad, LoadItems, Exists
<1>4. NewestInv'
  BY <1>3 DEF NewestInv, Start
<1>5. FileInv'
  BY DEF OneWriter, FileInv, Start, Goto, DocTypeOK, Labels, Exists
<1>6. CallInv'
  BY <1>3 DEF OneWriter, CallInv, Start, Goto, DocTypeOK, Visible, BeforeRename
<1> QED
  BY <1>1, <1>2, <1>4, <1>5, <1>6

LEMMA CrashInv ==
  ASSUME OneWriter, DocIInv, NEW w \in Writers, Crash(w)
  PROVE  DocIInv'
<1> USE DEF DocIInv
<1>1. DocTypeOK'
  BY DEF DocTypeOK, Crash, Goto, Document, NoDoc, Labels
<1>2. OriginInv' /\ KeptInv'
  BY DEF OriginInv, OnDisk, KeptInv, Crash, Exists
<1>3. Visible' = Visible
  BY DEF Crash, Visible, SettingsLoad, ReadNextRecord, AgentsLoad, LoadItems, Exists
<1>4. NewestInv'
  BY <1>3 DEF NewestInv, Crash
<1>5. FileInv'
  BY DEF OneWriter, FileInv, Crash, Goto, DocTypeOK, Exists
<1>6. CallInv'
  BY <1>3 DEF OneWriter, CallInv, Crash, Goto, DocTypeOK, BeforeRename
<1> QED
  BY <1>1, <1>2, <1>4, <1>5, <1>6

LEMMA ReadInv ==
  ASSUME OneWriter, DocIInv, NEW w \in Writers, SettingsRead(w)
  PROVE  DocIInv'
<1> USE DEF DocIInv
<1>1. DocTypeOK'
  BY DEF DocTypeOK, SettingsRead
<1>2. Visible' = Visible
  BY DEF SettingsRead, Visible, SettingsLoad, ReadNextRecord, AgentsLoad, LoadItems, Exists
<1>3. memory[w] \in OnDisk
  BY DEF SettingsRead, CallInv, OriginInv, Visible, SettingsLoad, Exists
<1>4. OriginInv' /\ KeptInv'
  BY <1>3 DEF OriginInv, OnDisk, KeptInv, SettingsRead, Exists
<1>5. NewestInv' /\ FileInv' /\ CallInv'
  BY <1>2 DEF NewestInv, FileInv, CallInv, SettingsRead, Exists
<1> QED
  BY <1>1, <1>4, <1>5

(* A save begins from the document that the loader, or the memory, has. *)
LEMMA SaveInv ==
  ASSUME OneWriter, DocIInv, NEW w \in Writers, NEW from \in OnDisk,
         pc[w] = "idle", Ordinary => from = Visible, Save(w, from)
  PROVE  DocIInv'
<1> USE DEF DocIInv
<1>1. from \in Document /\ from.rev \in Nat /\ from.rev <= saves
  BY DEF OnDisk, OriginInv, DocTypeOK, Document, NoDoc
<1>2. [rev |-> from.rev + 1, save |-> saves + 1] \in Document
  BY <1>1 DEF Document, DocTypeOK
<1>3. DocTypeOK'
  BY <1>1, <1>2 DEF DocTypeOK, Save, Goto, Labels
<1>4. Visible' = Visible
  BY DEF Save, Visible, SettingsLoad, ReadNextRecord, AgentsLoad, LoadItems, Exists
<1>5. OriginInv'
  <2>1. saves' = saves + 1 /\ saves' <= MaxSaves
    BY SavesAssumption DEF Save, DocTypeOK
  <2>2. \A d \in published' : 1 <= d.rev /\ d.rev <= saves' /\ d.save <= saves'
    BY <2>1 DEF Save, OriginInv, DocTypeOK, Document
  <2> QED
    BY <2>1, <2>2 DEF Save, OriginInv, OnDisk
<1>6. KeptInv' /\ NewestInv'
  BY <1>4 DEF KeptInv, NewestInv, Save, Exists
<1>7. FileInv'
  <2>1. draft'[w] = [rev |-> from.rev + 1, save |-> saves + 1]
    BY DEF Save, DocTypeOK
  <2>2. base'[w] = from /\ pc'[w] = "write" /\ saves' = saves + 1
    BY DEF Save, Goto, DocTypeOK
  <2>3. draft'[w].rev = base'[w].rev + 1 /\ draft'[w].rev <= saves' /\ draft'[w].save <= saves'
    BY <1>1, <2>1, <2>2 DEF DocTypeOK
  <2> QED
    BY <2>2, <2>3 DEF FileInv, OneWriter
<1>8. CallInv'
  BY <1>4 DEF OneWriter, CallInv, Save, Goto, DocTypeOK, BeforeRename
<1> QED
  BY <1>3, <1>5, <1>6, <1>7, <1>8

LEMMA OperationInv ==
  ASSUME OneWriter, DocIInv, NEW w \in Writers, Operation(w)
  PROVE  DocIInv'
<1> USE DEF DocIInv
<1>0. target \in OnDisk /\ backup \in OnDisk /\ NoDoc \in OnDisk /\ kind \in Kinds
  BY DEF OriginInv, OnDisk, DocTypeOK
<1>1. CASE SettingsRead(w)
  BY <1>1, ReadInv
<1>2. CASE FencedCommit(w) \/ UnfencedCommit(w)
  <2>1. memory[w] = Visible /\ Visible \in OnDisk
    BY <1>0, <1>2 DEF FencedCommit, UnfencedCommit, CallInv, Visible, SettingsLoad
  <2> QED
    BY <1>2, <2>1, SaveInv DEF FencedCommit, UnfencedCommit
<1>3. CASE SessionCreate(w)
  <2>1. published = {}
    BY <1>3 DEF SessionCreate, OriginInv, DocTypeOK, Document
  <2>2. Visible = NoDoc
    BY <1>0, <1>3, <2>1
    DEF SessionCreate, OnDisk, Visible, ReadNextRecord, SettingsLoad, AgentsLoad, LoadItems
  <2> QED
    BY <1>0, <1>3, <2>2, SaveInv DEF SessionCreate
<1>4. CASE SessionAppend(w) \/ SessionMutate(w)
  BY <1>0, <1>4, SaveInv DEF SessionAppend, SessionMutate, ReadNextRecord, Visible
<1>5. CASE AgentsChange(w)
  BY <1>0, <1>5, SaveInv DEF AgentsChange, AgentsLoad, Visible
<1>6. CASE Enqueue(w)
  BY <1>0, <1>6, SaveInv DEF Enqueue
<1>7. CASE MarkRead(w)
  BY <1>0, <1>7, SaveInv DEF MarkRead, LoadItems
<1> QED
  BY <1>1, <1>2, <1>3, <1>4, <1>5, <1>6, <1>7 DEF Operation

(* The calls that only look, the failures and the answers. *)
LEMMA GotoInv ==
  ASSUME OneWriter, DocIInv, NEW w \in Writers, NEW label \in BeforeRename,
         pc[w] \in BeforeRename, JustGoto(w, label),
         label \in {"clear", "unlink", "park"} => Exists(target),
         label \in {"promote", "undo"} => ~Exists(target)
  PROVE  DocIInv'
<1> USE DEF DocIInv
<1>1. DocTypeOK'
  BY DEF DocTypeOK, JustGoto, Goto, Labels, BeforeRename
<1>2. Visible' = Visible
  BY DEF JustGoto, Visible, SettingsLoad, ReadNextRecord, AgentsLoad, LoadItems, Exists
<1>3. OriginInv' /\ KeptInv' /\ NewestInv'
  BY <1>2 DEF OriginInv, OnDisk, KeptInv, NewestInv, JustGoto, Exists
<1>4. FileInv'
  BY DEF FileInv, OneWriter, JustGoto, Goto, DocTypeOK, Exists, BeforeRename
<1>5. CallInv'
  BY <1>2 DEF CallInv, OneWriter, JustGoto, Goto, DocTypeOK, BeforeRename
<1> QED
  BY <1>1, <1>3, <1>4, <1>5

LEMMA ErrorInv ==
  ASSUME OneWriter, DocIInv, NEW w \in Writers, pc[w] \in BeforeRename, AnswerError(w)
  PROVE  DocIInv'
<1> USE DEF DocIInv
<1>1. DocTypeOK'
  BY DEF DocTypeOK, AnswerError, Goto, Labels, Document, NoDoc
<1>2. Visible' = Visible
  BY DEF AnswerError, Visible, SettingsLoad, ReadNextRecord, AgentsLoad, LoadItems, Exists
<1>3. OriginInv' /\ KeptInv' /\ NewestInv'
  BY <1>2 DEF OriginInv, OnDisk, KeptInv, NewestInv, AnswerError, Exists
<1>4. FileInv'
  BY DEF FileInv, OneWriter, AnswerError, Goto, DocTypeOK, Exists
<1>5. CallInv'
  BY <1>2 DEF CallInv, OneWriter, AnswerError, Goto, DocTypeOK, BeforeRename
<1> QED
  BY <1>1, <1>3, <1>4, <1>5

LEMMA OkInv ==
  ASSUME OneWriter, DocIInv, NEW w \in Writers, pc[w] \in {"tidy", "sweep"},
         AnswerOk(w), backup' \in {NoDoc, backup}
  PROVE  DocIInv'
<1> USE DEF DocIInv
<1>0. target = draft[w] /\ draft[w].rev \in Nat /\ draft[w].rev >= 1 /\ Exists(target)
  BY DEF FileInv, DocTypeOK, Document, Exists, NoDoc
<1>1. DocTypeOK'
  BY DEF DocTypeOK, AnswerOk, Goto, Labels, Document, NoDoc
<1>2. Visible' = Visible
  BY <1>0 DEF AnswerOk, Visible, SettingsLoad, ReadNextRecord, AgentsLoad, LoadItems, Exists
<1>3. OriginInv'
  BY <1>0 DEF OriginInv, OnDisk, AnswerOk
<1>4. KeptInv' /\ NewestInv'
  BY <1>0, <1>2 DEF KeptInv, NewestInv, AnswerOk, Exists
<1>5. FileInv'
  BY DEF FileInv, OneWriter, AnswerOk, Goto, DocTypeOK
<1>6. Visible = target
  BY <1>0 DEF Visible, SettingsLoad, ReadNextRecord, AgentsLoad, LoadItems
<1>7. CallInv'
  BY <1>0, <1>2, <1>6 DEF CallInv, OneWriter, AnswerOk, Goto, DocTypeOK, BeforeRename
<1> QED
  BY <1>1, <1>3, <1>4, <1>5, <1>7

(***************************************************************************)
(* The calls that change the files.                                        *)
(***************************************************************************)
LEMMA UnlinkInv ==
  ASSUME OneWriter, DocIInv, NEW w \in Writers, UnlinkBackup(w)
  PROVE  DocIInv'
<1> USE DEF DocIInv
<1>0. Exists(target)
  BY DEF UnlinkBackup, FileInv
<1>1. DocTypeOK'
  BY DEF DocTypeOK, UnlinkBackup, Goto, Labels, Document, NoDoc
<1>2. Visible' = Visible \/ kind = "mailbox"
  BY <1>0 DEF UnlinkBackup, Visible, SettingsLoad, ReadNextRecord, AgentsLoad, LoadItems, Exists
<1>3. OriginInv' /\ KeptInv' /\ NewestInv'
  BY <1>0, <1>2 DEF OriginInv, OnDisk, KeptInv, NewestInv, UnlinkBackup, Exists
<1>4. FileInv'
  BY <1>0 DEF FileInv, OneWriter, UnlinkBackup, Goto, DocTypeOK, Exists
<1>5. CallInv'
  BY <1>2 DEF CallInv, OneWriter, UnlinkBackup, Goto, DocTypeOK, BeforeRename
<1> QED
  BY <1>1, <1>3, <1>4, <1>5

(* Moving the target away changes nothing for a loader that reads backups. *)
LEMMA ParkInv ==
  ASSUME OneWriter, DocIInv, NEW w \in Writers, ParkTarget(w)
  PROVE  DocIInv'
<1> USE DEF DocIInv
<1>1. DocTypeOK'
  BY DEF DocTypeOK, ParkTarget, Goto, Labels, Document, NoDoc
<1>2. ASSUME Ordinary PROVE Visible' = Visible
  <2>1. kind \in Kinds /\ kind' \in Kinds /\ kind' # "mailbox"
    BY <1>2 DEF ParkTarget, DocTypeOK
  <2> QED
    BY <1>2, <2>1, VisibleDef, VisibleDefPrime DEF ParkTarget, Exists
<1>3. OriginInv' /\ KeptInv' /\ NewestInv'
  BY <1>2 DEF OriginInv, OnDisk, KeptInv, NewestInv, ParkTarget, Exists
<1>4. FileInv'
  BY DEF FileInv, OneWriter, ParkTarget, Goto, DocTypeOK, Exists
<1>5. CallInv'
  BY <1>2 DEF CallInv, OneWriter, ParkTarget, Goto, DocTypeOK, BeforeRename
<1> QED
  BY <1>1, <1>3, <1>4, <1>5

(* The new document is newer than every document that was there. *)
LEMMA PromoteInv ==
  ASSUME OneWriter, DocIInv, NEW w \in Writers, Promote(w)
  PROVE  DocIInv'
<1> USE DEF DocIInv
<1>0. /\ draft[w] \in Document
      /\ base[w] \in Document
      /\ draft[w].rev = base[w].rev + 1
      /\ 1 <= draft[w].rev /\ draft[w].rev <= saves /\ draft[w].save <= saves
      /\ Exists(draft[w])
  BY DEF Promote, FileInv, DocTypeOK, Document, Exists, NoDoc
<1>1. DocTypeOK'
  BY <1>0 DEF DocTypeOK, Promote, Goto, Labels
<1>2. Visible' = draft[w]
  BY <1>0 DEF Promote, Visible, SettingsLoad, ReadNextRecord, AgentsLoad, LoadItems, Exists
<1>3. OriginInv' /\ KeptInv'
  BY <1>0 DEF OriginInv, OnDisk, KeptInv, Promote, Exists
<1>4. NewestInv'
  <2> SUFFICES ASSUME Ordinary, NEW d \in published
               PROVE  d.rev < draft[w].rev
    BY <1>2 DEF NewestInv, Promote
  <2>1. Visible = base[w]
    BY DEF Promote, CallInv, BeforeRename
  <2>2. d.rev < base[w].rev \/ d = base[w]
    BY <2>1 DEF NewestInv
  <2> QED
    BY <1>0, <2>2 DEF DocTypeOK, Document
<1>5. FileInv'
  BY DEF FileInv, OneWriter, Promote, Goto, DocTypeOK
<1>6. CallInv'
  BY DEF CallInv, OneWriter, Promote, Goto, DocTypeOK, BeforeRename
<1> QED
  BY <1>1, <1>3, <1>4, <1>5, <1>6

LEMMA UndoInv ==
  ASSUME OneWriter, DocIInv, NEW w \in Writers, Undo(w)
  PROVE  DocIInv'
<1> USE DEF DocIInv
<1>0. ~Exists(target)
  BY DEF Undo, FileInv
<1>1. DocTypeOK'
  BY DEF DocTypeOK, Undo, Goto, Labels, Document, NoDoc
<1>2. ASSUME Ordinary PROVE Visible' = Visible
  <2>1. kind \in Kinds /\ kind' \in Kinds /\ kind' # "mailbox"
    BY <1>2 DEF Undo, DocTypeOK
  <2> QED
    BY <1>0, <1>2, <2>1, VisibleDef, VisibleDefPrime DEF Undo, Exists
<1>3. OriginInv' /\ KeptInv' /\ NewestInv'
  BY <1>0, <1>2 DEF OriginInv, OnDisk, KeptInv, NewestInv, Undo, Exists
<1>4. FileInv'
  BY DEF FileInv, OneWriter, Undo, Goto, DocTypeOK
<1>5. CallInv'
  BY <1>2 DEF CallInv, OneWriter, Undo, Goto, DocTypeOK, BeforeRename
<1> QED
  BY <1>1, <1>3, <1>4, <1>5

LEMMA ReplaceInv ==
  ASSUME OneWriter, DocIInv, NEW w \in Writers, ReplaceFile(w)
  PROVE  DocIInv'
<1>1. CASE WriteTemporary(w) \/ LookForTarget(w) \/ LookForBackup(w) \/ PromoteFails(w)
  BY <1>1, GotoInv
  DEF WriteTemporary, LookForTarget, LookForBackup, PromoteFails, BeforeRename, DocIInv, FileInv
<1>2. CASE UnlinkBackup(w) \/ ParkTarget(w) \/ Promote(w) \/ Undo(w)
  BY <1>2, UnlinkInv, ParkInv, PromoteInv, UndoInv
<1>3. CASE CallFails(w)
  BY <1>3, ErrorInv DEF CallFails, BeforeRename
<1>4. CASE Sweep(w)
  BY <1>4, OkInv DEF Sweep
<1>5. CASE LookForRest(w)
  <2>1. CASE ~Exists(backup)
    BY <1>5, <2>1, OkInv DEF LookForRest
  <2>2. CASE Exists(backup)
    <3> USE DEF DocIInv
    <3>1. pc[w] = "tidy" /\ JustGoto(w, "sweep")
      BY <1>5, <2>2 DEF LookForRest
    <3>2. DocTypeOK'
      BY <3>1 DEF DocTypeOK, JustGoto, Goto, Labels
    <3>3. Visible' = Visible
      BY <3>1 DEF JustGoto, Visible, SettingsLoad, ReadNextRecord, AgentsLoad, LoadItems, Exists
    <3>4. OriginInv' /\ KeptInv' /\ NewestInv'
      BY <3>1, <3>3 DEF OriginInv, OnDisk, KeptInv, NewestInv, JustGoto, Exists
    <3>5. FileInv' /\ CallInv'
      BY <3>1, <3>3 DEF FileInv, CallInv, OneWriter, JustGoto, Goto, DocTypeOK, BeforeRename
    <3> QED
      BY <3>2, <3>4, <3>5
  <2> QED
    BY <2>1, <2>2
<1> QED
  BY <1>1, <1>2, <1>3, <1>4, <1>5 DEF ReplaceFile

LEMMA StepInv ==
  ASSUME OneWriter
  PROVE  DocIInv /\ [DocNext]_docVars => DocIInv'
<1> SUFFICES ASSUME DocIInv, [DocNext]_docVars PROVE DocIInv'
  OBVIOUS
<1>1. CASE UNCHANGED docVars
  <2> USE <1>1 DEF docVars
  <2>1. Visible' = Visible
    BY DEF Visible, SettingsLoad, ReadNextRecord, AgentsLoad, LoadItems, Exists
  <2> QED
    BY <2>1 DEF DocIInv, DocTypeOK, OriginInv, OnDisk, NewestInv, FileInv, CallInv, KeptInv, Exists
<1>2. CASE DocNext
  BY <1>2, StartInv, CrashInv, OperationInv, ReplaceInv DEF DocNext
<1> QED
  BY <1>1, <1>2

LEMMA DocInvariant ==
  ASSUME OneWriter
  PROVE  DocSpec => []DocIInv
<1>1. DocInit => DocIInv
  BY InitIInv
<1>2. DocIInv /\ [DocNext]_docVars => DocIInv'
  BY StepInv
<1> QED
  BY <1>1, <1>2, PTL DEF DocSpec

----------------------------------------------------------------------------
(* With one process, a save that was acknowledged is found by every later  *)
(* load, across crashes and failures at every system call of replace_file. *)
THEOREM AcknowledgedSavesSurvive ==
  ASSUME OneWriter
  PROVE  DocSpec => []AcknowledgedSurvives
<1>1. DocIInv => AcknowledgedSurvives
  <2> SUFFICES ASSUME DocIInv PROVE AcknowledgedSurvives
    OBVIOUS
  <2> USE DEF DocIInv
  <2>1. CASE kind = "mailbox"
    BY <2>1 DEF KeptInv, AcknowledgedSurvives
  <2>2. CASE kind # "mailbox"
    <3>1. Visible \in OnDisk /\ acked \in OnDisk
      BY <2>2, VisibleDef DEF DocTypeOK, OriginInv
    <3>2. Visible.rev \in Nat
      BY <3>1 DEF OnDisk, DocTypeOK, Document, NoDoc
    <3>3. CASE acked = NoDoc
      BY <2>2, <3>1, <3>2, <3>3 DEF OnDisk, OriginInv, AcknowledgedSurvives, NoDoc, DocTypeOK, Document
    <3>4. CASE acked \in published
      BY <2>2, <3>2, <3>4 DEF NewestInv, AcknowledgedSurvives, DocTypeOK, Document
    <3> QED
      BY <3>1, <3>3, <3>4 DEF OnDisk
  <2> QED
    BY <2>1, <2>2
<1> QED
  BY <1>1, DocInvariant, PTL

(* A revision names one document.  The set of published documents grows    *)
(* only by Promote, and what Promote adds is newer than all of them; the   *)
(* invariant of the pairs is a second induction on top of the first.       *)
THEOREM RevisionsAreUnique ==
  ASSUME OneWriter
  PROVE  DocSpec => []RevisionNamesOneDocument
<1>1. DocInit => RevisionNamesOneDocument
  BY DEF DocInit, RevisionNamesOneDocument
<1>2. RevisionNamesOneDocument /\ DocIInv /\ [DocNext]_docVars => RevisionNamesOneDocument'
  <2> SUFFICES ASSUME RevisionNamesOneDocument, DocIInv, [DocNext]_docVars, kind' # "mailbox",
                      NEW d \in published', NEW e \in published', d.rev = e.rev
               PROVE  d = e
    BY DEF RevisionNamesOneDocument
  <2>1. CASE published' = published /\ kind' = kind
    BY <2>1 DEF RevisionNamesOneDocument
  <2>2. ASSUME NEW w \in Writers, Promote(w) PROVE d = e
    <3>0. kind # "mailbox" /\ published' = published \cup {draft[w]}
      BY <2>2 DEF Promote
    <3>1. Visible = base[w] /\ draft[w].rev = base[w].rev + 1 /\ base[w].rev \in Nat
      BY <2>2, <3>0 DEF DocIInv, CallInv, FileInv, DocTypeOK, Document, Promote, BeforeRename
    <3>2. \A f \in published : f.rev < draft[w].rev
      BY <3>0, <3>1 DEF DocIInv, NewestInv, DocTypeOK, Document
    <3>3. \A f \in published : f.rev # draft[w].rev
      BY <3>1, <3>2 DEF DocIInv, DocTypeOK, Document
    <3> QED
      BY <3>0, <3>3 DEF RevisionNamesOneDocument
  <2>3. (published' = published /\ kind' = kind) \/ \E w \in Writers : Promote(w)
    BY DEF docVars, DocNext, Start, Crash, Operation, SettingsRead, FencedCommit, UnfencedCommit,
           SessionCreate, SessionAppend, SessionMutate, AgentsChange, Enqueue, MarkRead, Save, ReplaceFile,
           WriteTemporary, LookForTarget, LookForBackup, UnlinkBackup, ParkTarget, PromoteFails,
           Undo, CallFails, LookForRest, Sweep, JustGoto, AnswerError, AnswerOk
  <2> QED
    BY <2>1, <2>2, <2>3
<1> QED
  BY <1>1, <1>2, DocInvariant, PTL DEF DocSpec

(* check_revision is a true fence: a change that carries the revision its  *)
(* client has read is accepted only if the document is still that one.     *)
THEOREM FenceIsSound ==
  ASSUME OneWriter
  PROVE  DocSpec => FenceHolds
<1>1. DocIInv /\ [DocNext]_docVars =>
        [\A w \in Writers : FencedCommit(w) => seen = Visible]_docVars
  <2> SUFFICES ASSUME DocIInv, NEW w \in Writers, FencedCommit(w) PROVE seen = Visible
    OBVIOUS
  <2> USE DEF DocIInv
  <2>1. kind # "mailbox" /\ memory[w] = Visible /\ seen.rev = Visible.rev
    BY DEF FencedCommit, CheckRevision, CallInv
  <2>2. Visible \in OnDisk /\ seen \in OnDisk
    BY <2>1, VisibleDef DEF DocTypeOK, OriginInv
  <2>3. Visible.rev \in Nat
    BY <2>2 DEF OnDisk, DocTypeOK, Document, NoDoc
  <2>4. CASE seen \in published
    BY <2>1, <2>3, <2>4 DEF NewestInv
  <2>5. CASE seen = NoDoc
    BY <2>1, <2>2, <2>5 DEF OnDisk, OriginInv, NoDoc, DocTypeOK, Document
  <2> QED
    BY <2>2, <2>4, <2>5 DEF OnDisk
<1> QED
  BY <1>1, DocInvariant, PTL DEF DocSpec, FenceHolds

----------------------------------------------------------------------------
(***************************************************************************)
(* Refinement.  Current and the pending saves are the refinement mapping   *)
(* of the instance Atomic.                                                 *)
(***************************************************************************)
Current == IF kind = "mailbox" THEN NoDoc ELSE Visible
Saving == [w \in Writers |-> Pending(w)]

LEMMA InitRefines == DocInit => Atomic!AtomicInit
<1> SUFFICES ASSUME DocInit PROVE Atomic!AtomicInit
  OBVIOUS
<1>1. Current = NoDoc
  BY DEF DocInit, Current, Visible, SettingsLoad, ReadNextRecord, AgentsLoad, LoadItems
<1>2. \A w \in Writers : Pending(w) = NoDoc
  BY DEF DocInit, Pending
<1> QED
  BY <1>1, <1>2 DEF Atomic!AtomicInit, Current

(* What is left alone by a step maps to a stutter. *)
LEMMA StutterRefines ==
  ASSUME Current' = Current, \A v \in Writers : Pending(v)' = Pending(v)
  PROVE  UNCHANGED <<Current, Saving>>
BY DEF Saving

LEMMA StepRefines ==
  ASSUME OneWriter, DocIInv, DocIInv', DocNext
  PROVE  [Atomic!AtomicNext]_(Atomic!atomicVars)
<1> PICK w \in Writers : Start(w) \/ Crash(w) \/ Operation(w) \/ ReplaceFile(w)
  BY DEF DocNext
<1> USE DEF DocIInv
<1>0. kind' = kind /\ kind \in Kinds /\ kind' \in Kinds
  BY DEF DocTypeOK, Start, Crash, Operation, SettingsRead, FencedCommit, UnfencedCommit,
         SessionCreate, SessionAppend, SessionMutate, AgentsChange, Enqueue, MarkRead, Save, ReplaceFile,
         WriteTemporary, LookForTarget, LookForBackup, UnlinkBackup, ParkTarget, Promote, PromoteFails,
         Undo, CallFails, LookForRest, Sweep, JustGoto, AnswerError, AnswerOk
<1>a. ASSUME Current' = Current, Pending(w)' = Pending(w)
      PROVE  [Atomic!AtomicNext]_(Atomic!atomicVars)
  BY <1>a, StutterRefines DEF OneWriter, Current, Saving, Atomic!atomicVars
<1>m. CASE kind = "mailbox"
  BY <1>0, <1>a, <1>m DEF Current, Pending
<1>o. CASE kind # "mailbox"
  <2> USE <1>o, <1>0
  <2>0. Current = Visible /\ Current' = Visible'
    BY DEF Current
  <2>1. ASSUME NEW from, pc[w] = "idle", from = Visible, Save(w, from)
        PROVE  Atomic!BeginSave(w)
    <3> DEFINE d == [rev |-> from.rev + 1, save |-> saves + 1]
    <3>1. from.rev \in Nat /\ from.rev <= saves
      BY <2>1, VisibleDef DEF OriginInv, OnDisk, DocTypeOK, Document, NoDoc
    <3>2. d \in [rev : 0 .. MaxSaves, save : 0 .. MaxSaves]
      BY <2>1, <3>1, SavesAssumption DEF Save, DocTypeOK
    <3>3. Pending(w) = NoDoc
      BY <2>1 DEF Pending, DocTypeOK
    <3>4. Pending(w)' = d
      BY <2>1 DEF Pending, Save, Goto, DocTypeOK
    <3>5. Current' = Current
      BY <2>0, <2>1, VisibleDef, VisibleDefPrime DEF Save
    <3>6. Saving' = [Saving EXCEPT ![w] = d]
      BY <3>4 DEF Saving, OneWriter
    <3>7. d.rev = Current.rev + 1
      BY <2>0, <2>1
    <3> QED
      BY <3>2, <3>3, <3>5, <3>6, <3>7 DEF Atomic!BeginSave, Saving, Current
  <2>2. CASE Operation(w)
    <3>1. CASE SettingsRead(w)
      <4>1. Current' = Current /\ Pending(w)' = Pending(w)
        BY <2>0, <3>1, VisibleDef, VisibleDefPrime DEF SettingsRead, Pending
      <4> QED
        BY <4>1, <1>a
    <3>2. CASE FencedCommit(w) \/ UnfencedCommit(w)
      <4>1. pc[w] = "idle" /\ Save(w, memory[w]) /\ memory[w] = Visible
        BY <3>2 DEF FencedCommit, UnfencedCommit, CallInv
      <4> QED
        BY <2>1, <4>1 DEF Atomic!AtomicNext
    <3>3. CASE SessionCreate(w)
      <4>1. published = {}
        BY <3>3 DEF SessionCreate, OriginInv, DocTypeOK, Document
      <4>2. Visible = NoDoc
        BY <4>1, VisibleDef DEF OriginInv, OnDisk
      <4> QED
        BY <2>1, <3>3, <4>2 DEF SessionCreate, Atomic!AtomicNext
    <3>4. CASE SessionAppend(w) \/ SessionMutate(w)
      <4>1. ReadNextRecord = Visible
        BY <3>4 DEF SessionAppend, SessionMutate, Visible
      <4> QED
        BY <2>1, <3>4, <4>1 DEF SessionAppend, SessionMutate, Atomic!AtomicNext
    <3>5. CASE AgentsChange(w)
      <4>1. AgentsLoad = Visible
        BY <3>5 DEF AgentsChange, Visible
      <4> QED
        BY <2>1, <3>5, <4>1 DEF AgentsChange, Atomic!AtomicNext
    <3> QED
      BY <2>2, <3>1, <3>2, <3>3, <3>4, <3>5 DEF Operation, Enqueue, MarkRead
  <2>3. ASSUME Visible' = Visible, Pending(w)' = NoDoc
        PROVE  [Atomic!AtomicNext]_(Atomic!atomicVars)
    <3>1. CASE Pending(w) = NoDoc
      BY <2>0, <2>3, <3>1, <1>a
    <3>2. CASE Pending(w) # NoDoc
      <4>1. Saving' = [Saving EXCEPT ![w] = NoDoc]
        BY <2>3 DEF Saving, OneWriter
      <4>2. Atomic!DropSave(w)
        BY <2>0, <2>3, <3>2, <4>1 DEF Atomic!DropSave, Saving, Current
      <4> QED
        BY <4>2 DEF Atomic!AtomicNext
    <3> QED
      BY <3>1, <3>2
  <2>4. CASE Start(w)
    <3>1. Visible' = Visible /\ Pending(w)' = Pending(w)
      BY <2>4, VisibleDef, VisibleDefPrime DEF Start, Pending, Goto, DocTypeOK
    <3> QED
      BY <2>0, <3>1, <1>a
  <2>5. CASE Crash(w)
    <3>1. Visible' = Visible /\ Pending(w)' = NoDoc
      BY <2>5, VisibleDef, VisibleDefPrime DEF Crash, Pending, DocTypeOK
    <3> QED
      BY <2>3, <3>1
  <2>6. CASE CallFails(w)
    <3>1. Visible' = Visible /\ Pending(w)' = NoDoc
      BY <2>6, VisibleDef, VisibleDefPrime DEF CallFails, AnswerError, Pending, DocTypeOK
    <3> QED
      BY <2>3, <3>1
  <2>7. CASE Undo(w)
    <3>1. Visible' = Visible /\ Pending(w)' = NoDoc
      BY <2>7, VisibleDef, VisibleDefPrime DEF Undo, Pending, DocTypeOK, FileInv, Exists
    <3> QED
      BY <2>3, <3>1
  <2>8. CASE WriteTemporary(w) \/ LookForTarget(w) \/ LookForBackup(w) \/ PromoteFails(w)
    <3>1. Visible' = Visible /\ Pending(w)' = Pending(w)
      BY <2>8, VisibleDef, VisibleDefPrime
      DEF WriteTemporary, LookForTarget, LookForBackup, PromoteFails, JustGoto, Goto, Pending, DocTypeOK
    <3> QED
      BY <2>0, <3>1, <1>a
  <2>9. CASE UnlinkBackup(w) \/ ParkTarget(w)
    <3>1. Visible' = Visible
      BY <2>9, VisibleDef, VisibleDefPrime DEF UnlinkBackup, ParkTarget, FileInv, Exists
    <3>2. Pending(w)' = Pending(w)
      BY <2>9 DEF UnlinkBackup, ParkTarget, Goto, Pending, DocTypeOK
    <3> QED
      BY <2>0, <3>1, <3>2, <1>a
  <2>10. CASE LookForRest(w) \/ Sweep(w)
    <3>0. pc[w] \in {"tidy", "sweep"}
      BY <2>10 DEF LookForRest, Sweep
    <3>a. target = draft[w] /\ draft[w].rev = base[w].rev + 1 /\ base[w].rev \in Nat
      BY <3>0 DEF FileInv, DocTypeOK, Document
    <3>1. target = draft[w] /\ draft[w] # NoDoc
      BY <3>a DEF NoDoc
    <3>2. Visible' = Visible
      BY <2>10, <3>1, VisibleDef, VisibleDefPrime DEF LookForRest, Sweep, JustGoto, AnswerOk, Exists
    <3>3. Pending(w)' = NoDoc
      BY <2>10 DEF LookForRest, Sweep, JustGoto, AnswerOk, Goto, Pending, DocTypeOK
    <3> QED
      BY <2>3, <3>2, <3>3
  <2>11. CASE Promote(w)
    <3>1. draft[w] # NoDoc /\ Pending(w) = draft[w]
      BY <2>11 DEF Promote, FileInv, DocTypeOK, Document, NoDoc, Pending
    <3>2. Visible' = draft[w]
      BY <2>11, <3>1, VisibleDefPrime DEF Promote, Exists
    <3>3. Pending(w)' = NoDoc
      BY <2>11 DEF Promote, Goto, Pending, DocTypeOK
    <3>4. Saving' = [Saving EXCEPT ![w] = NoDoc]
      BY <3>3 DEF Saving, OneWriter
    <3>5. Atomic!TakeEffect(w)
      BY <2>0, <3>1, <3>2, <3>4 DEF Atomic!TakeEffect, Saving, Current
    <3> QED
      BY <3>5 DEF Atomic!AtomicNext
  <2> QED
    BY <2>2, <2>4, <2>5, <2>6, <2>7, <2>8, <2>9, <2>10, <2>11 DEF ReplaceFile
<1> QED
  BY <1>m, <1>o

(* Settings, sessions and agents are atomic documents: a reader finds the  *)
(* old document or the new one at every moment of replace_file, and a save *)
(* that fails or crashes before the second rename has not happened.        *)
THEOREM StoresAreAtomic ==
  ASSUME OneWriter
  PROVE  DocSpec => ImplementsAtomicDocument
<1>1. DocInit => Atomic!AtomicInit
  BY InitRefines
<1>2. DocIInv /\ DocIInv' /\ [DocNext]_docVars => [Atomic!AtomicNext]_(Atomic!atomicVars)
  <2> SUFFICES ASSUME DocIInv, DocIInv', [DocNext]_docVars
               PROVE  [Atomic!AtomicNext]_(Atomic!atomicVars)
    OBVIOUS
  <2>1. CASE DocNext
    BY <2>1, StepRefines
  <2>2. CASE UNCHANGED docVars
    <3>1. Current' = Current
      BY <2>2 DEF docVars, Current, Visible, SettingsLoad, ReadNextRecord, AgentsLoad, LoadItems, Exists
    <3>2. \A v \in Writers : Pending(v)' = Pending(v)
      BY <2>2 DEF docVars, Pending
    <3> QED
      BY <3>1, <3>2, StutterRefines DEF Atomic!atomicVars, Current, Saving
  <2> QED
    BY <2>1, <2>2
<1> QED
  BY <1>1, <1>2, DocInvariant, PTL
  DEF DocSpec, ImplementsAtomicDocument, Atomic!AtomicSpec

(* Types, for every bound and every kind of store.                         *)
THEOREM DocTypeCorrect ==
  ASSUME OneWriter
  PROVE  DocSpec => []DocTypeOK
<1>1. DocIInv => DocTypeOK
  BY DEF DocIInv
<1> QED
  BY <1>1, DocInvariant, PTL

----------------------------------------------------------------------------
(***************************************************************************)
(* The profile that the settings are written into.                         *)
(*                                                                         *)
(* Written says of a list of entries what the reference says of the        *)
(* operations that made it: who is listed, in which order, and who spoke   *)
(* last of each.  Every operation takes a list for which this holds of the *)
(* operations before it to one for which it holds of those and itself, so  *)
(* it holds of what a whole profile is composed to.  For the settings the  *)
(* composition is the catalogue of the built-in entries, and each entry's  *)
(* switch is followed back to who set it.                                  *)
(***************************************************************************)
SeqOfEntries == Seq(CompositionEntry)
IsLast(S, m) == m \in S /\ \A j \in S : j <= m

LEMMA RangeInduction ==
  ASSUME NEW N \in Nat, NEW P, 0 \in P, \A n \in 1..N : n - 1 \in P => n \in P
  PROVE  \A n \in 0..N : n \in P
<1> DEFINE Others == {n \in 0..N : n \notin P}
           Less == OpToRel(<, Nat)
<1>1. SUFFICES ASSUME Others # {} PROVE FALSE
  OBVIOUS
<1>2. Others \in SUBSET Nat
  OBVIOUS
<1>3. \A m, n \in Nat : m < n => <<m, n>> \in Less
  BY DEF OpToRel
<1>4. PICK n \in Others : \A m \in Others : <<m, n>> \notin Less
  <2> HIDE DEF Others
  <2> QED
    BY <1>1, <1>2, NatLessThanWellFounded, WFMin
<1> HIDE DEF Less
<1>5. n \in 1..N /\ n - 1 \in 0..N /\ n - 1 < n
  <2>1. n \in 0..N /\ n # 0
    OBVIOUS
  <2> QED
    BY <2>1
<1>6. n - 1 \notin Others
  BY <1>2, <1>3, <1>4, <1>5
<1> QED
  BY <1>5, <1>6

LEMMA LastIsUnique ==
  ASSUME NEW S \in SUBSET Nat, NEW m, IsLast(S, m)
  PROVE  LastOf(S) = m
<1>1. \A i \in S : (\A j \in S : j <= i) => i = m
  BY DEF IsLast
<1>2. m \in S /\ \A j \in S : j <= m
  BY DEF IsLast
<1> QED
  BY <1>1, <1>2, Zenon DEF LastOf

LEMMA LastExists ==
  ASSUME NEW N \in Nat, NEW S \in SUBSET (1..N), S # {}
  PROVE  \E m : IsLast(S, m)
<1> DEFINE P == {n \in 0..N : S \cap (1..n) = {} \/ \E m : IsLast(S \cap (1..n), m)}
<1>1. 0 \in P
  OBVIOUS
<1>2. ASSUME NEW n \in 1..N, n - 1 \in P PROVE n \in P
  <2>1. 1..n = (1..(n - 1)) \cup {n} /\ n \in 0..N /\ \A j \in 1..(n - 1) : j <= n
    OBVIOUS
  <2>2. CASE n \in S
    <3>1. IsLast(S \cap (1..n), n)
      BY <2>1, <2>2 DEF IsLast
    <3> QED
      BY <2>1, <3>1
  <2>3. CASE n \notin S
    <3>1. S \cap (1..n) = S \cap (1..(n - 1))
      BY <2>1, <2>3
    <3> QED
      BY <1>2, <2>1, <3>1
  <2> QED
    BY <2>2, <2>3
<1> HIDE DEF P
<1>3. \A n \in 0..N : n \in P
  BY <1>1, <1>2, RangeInduction
<1>4. N \in P
  BY <1>3
<1>5. S \cap (1..N) = S
  OBVIOUS
<1> QED
  BY <1>4, <1>5 DEF P

----------------------------------------------------------------------------
(* What the first k operations say of the entry of an id, and when a list  *)
(* of entries is what they say.                                            *)
Until(ops, k) == {m \in DOMAIN ops : m <= k}
Mentioned(ops, k, id) == {m \in Until(ops, k) : Mentions(ops[m], id)}
DefinedBy(ops, k, id) == {m \in Until(ops, k) : Defines(ops[m], id)}
InsertedBy(ops, k, id) ==
  {m \in Until(ops, k) : ops[m].op = "insert" /\ id \in Ids(ops[m].entries)}

Told(x, ops, k) ==
  /\ \E d \in DefinedBy(ops, k, x.id) :
       IsLast(DefinedBy(ops, k, x.id), d) /\ x.module = Given(ops[d], x.id).module
  /\ \E m \in Mentioned(ops, k, x.id) :
       /\ IsLast(Mentioned(ops, k, x.id), m)
       /\ x.enabled = IF Defines(ops[m], x.id) THEN Given(ops[m], x.id).enabled
                      ELSE ops[m].op = "enable"
  /\ \E n : IsLast(InsertedBy(ops, k, x.id), n)

UniqueIds(e) == \A i, j \in DOMAIN e : e[i].id = e[j].id => i = j

Listed(e, ops, k) ==
  \A id \in Entries :
    id \in Ids(e) <=> \E m : IsLast(Mentioned(ops, k, id), m) /\ ops[m].op # "remove"

InsertionOrder(e, ops, k) ==
  \A i, j \in DOMAIN e : i < j =>
    \A a \in InsertedBy(ops, k, e[i].id), b \in InsertedBy(ops, k, e[j].id) :
      IsLast(InsertedBy(ops, k, e[i].id), a) /\ IsLast(InsertedBy(ops, k, e[j].id), b)
        => a <= b

Written(e, ops, k) ==
  /\ e \in SeqOfEntries
  /\ UniqueIds(e)
  /\ Listed(e, ops, k)
  /\ \A i \in DOMAIN e : Told(e[i], ops, k)
  /\ InsertionOrder(e, ops, k)

(* One more operation adds itself to those that it belongs to.             *)
LEMMA OneMore ==
  ASSUME NEW ops \in Seq(LayerOperation), NEW k \in 1..Len(ops), NEW id
  PROVE  /\ Mentioned(ops, k, id) = Mentioned(ops, k - 1, id)
                                      \cup {m \in {k} : Mentions(ops[k], id)}
         /\ DefinedBy(ops, k, id) = DefinedBy(ops, k - 1, id)
                                      \cup {m \in {k} : Defines(ops[k], id)}
         /\ InsertedBy(ops, k, id) = InsertedBy(ops, k - 1, id)
              \cup {m \in {k} : ops[k].op = "insert" /\ id \in Ids(ops[k].entries)}
<1>1. k \in Nat /\ k \in DOMAIN ops /\ DOMAIN ops \subseteq Nat
  OBVIOUS
<1>2. Until(ops, k) = Until(ops, k - 1) \cup {k} /\ k \notin Until(ops, k - 1)
  BY <1>1 DEF Until
<1> QED
  BY <1>2 DEF Mentioned, DefinedBy, InsertedBy

LEMMA NewOneIsLast ==
  ASSUME NEW ops \in Seq(LayerOperation), NEW k \in 1..Len(ops), NEW S, NEW T,
         T \subseteq Until(ops, k - 1), S = T \cup {k}
  PROVE  IsLast(S, k)
<1>1. \A m \in T : m <= k
  BY DEF Until
<1> QED
  BY <1>1 DEF IsLast

LEMMA KindsOfOperations ==
  ASSUME NEW o \in LayerOperation
  PROVE  \/ o.op = "insert" /\ o.entries \in SeqOfEntries
         \/ o.op = "replace" /\ o.id \in Entries /\ o.entry \in CompositionEntry
         \/ o.op \in {"enable", "disable", "remove"} /\ o.id \in Entries
BY DEF LayerOperation, SeqOfEntries

LEMMA PositionFound ==
  ASSUME NEW e \in SeqOfEntries, UniqueIds(e), NEW i \in DOMAIN e
  PROVE  PositionOf(e, e[i].id) = i
BY Zenon DEF PositionOf, UniqueIds

LEMMA IdIsThere ==
  ASSUME NEW e \in SeqOfEntries, NEW id \in Ids(e)
  PROVE  PositionOf(e, id) \in DOMAIN e /\ e[PositionOf(e, id)].id = id
<1>1. \E i \in DOMAIN e : e[i].id = id
  BY DEF Ids
<1> QED
  BY <1>1, Zenon DEF PositionOf

LEMMA InsertIsDistinct ==
  ASSUME NEW e \in SeqOfEntries, Cardinality(Ids(e)) = Len(e)
  PROVE  UniqueIds(e)
<1> DEFINE N == Len(e)
           f == [i \in 1..N |-> e[i].id]
<1>1. N \in Nat /\ DOMAIN e = 1..N
  BY DEF SeqOfEntries
<1> HIDE DEF N
<1>2. f \in Surjection(1..N, Ids(e))
  BY <1>1 DEF Surjection, Ids
<1>3. IsFiniteSet(1..N) /\ Cardinality(1..N) = N
  BY <1>1, FS_Interval
<1>4. Cardinality(Ids(e)) = N
  BY DEF N
<1> HIDE DEF f
<1>5. f \in Injection(1..N, Ids(e))
  BY <1>2, <1>3, <1>4, FS_Surjection
<1>6. \A i, j \in 1..N : f[i] = f[j] => i = j
  BY <1>5 DEF Injection, IsInjective
<1> QED
  BY <1>1, <1>6 DEF UniqueIds, f

(* What an operation does not mention is as it was said before.            *)
LEMMA NotMentioned ==
  ASSUME NEW ops \in Seq(LayerOperation), NEW k \in 1..Len(ops), NEW id,
         ~Mentions(ops[k], id)
  PROVE  /\ Mentioned(ops, k, id) = Mentioned(ops, k - 1, id)
         /\ DefinedBy(ops, k, id) = DefinedBy(ops, k - 1, id)
         /\ InsertedBy(ops, k, id) = InsertedBy(ops, k - 1, id)
<1>1. /\ ~Mentions(ops[k], id) /\ ~Defines(ops[k], id)
      /\ ~(ops[k].op = "insert" /\ id \in Ids(ops[k].entries))
  BY DEF Mentions, Defines
<1>2. /\ Mentioned(ops, k, id) = Mentioned(ops, k - 1, id)
                                    \cup {m \in {k} : Mentions(ops[k], id)}
      /\ DefinedBy(ops, k, id) = DefinedBy(ops, k - 1, id)
                                    \cup {m \in {k} : Defines(ops[k], id)}
      /\ InsertedBy(ops, k, id) = InsertedBy(ops, k - 1, id)
            \cup {m \in {k} : ops[k].op = "insert" /\ id \in Ids(ops[k].entries)}
  BY OneMore
<1>3. Mentioned(ops, k, id) = Mentioned(ops, k - 1, id)
  BY <1>1, <1>2
<1>4. DefinedBy(ops, k, id) = DefinedBy(ops, k - 1, id)
  BY <1>1, <1>2
<1>5. InsertedBy(ops, k, id) = InsertedBy(ops, k - 1, id)
  BY <1>1, <1>2
<1> QED
  BY <1>3, <1>4, <1>5

LEMMA StillTold ==
  ASSUME NEW ops \in Seq(LayerOperation), NEW k \in 1..Len(ops), NEW x,
         Told(x, ops, k - 1), ~Mentions(ops[k], x.id)
  PROVE  Told(x, ops, k)
<1>1. /\ Mentioned(ops, k, x.id) = Mentioned(ops, k - 1, x.id)
      /\ DefinedBy(ops, k, x.id) = DefinedBy(ops, k - 1, x.id)
      /\ InsertedBy(ops, k, x.id) = InsertedBy(ops, k - 1, x.id)
  BY NotMentioned
<1> QED
  BY <1>1 DEF Told

(* What it mentions is as it says.                                         *)
LEMMA NowLast ==
  ASSUME NEW ops \in Seq(LayerOperation), NEW k \in 1..Len(ops), NEW id
  PROVE  /\ Mentions(ops[k], id) => IsLast(Mentioned(ops, k, id), k)
         /\ Defines(ops[k], id) => IsLast(DefinedBy(ops, k, id), k)
         /\ ops[k].op = "insert" /\ id \in Ids(ops[k].entries)
              => IsLast(InsertedBy(ops, k, id), k)
<1>1. k \in DOMAIN ops /\ k \in Nat /\ DOMAIN ops \subseteq Nat
  OBVIOUS
<1>2. k \in Until(ops, k) /\ \A m \in Until(ops, k) : m <= k
  BY <1>1 DEF Until
<1> QED
  BY <1>2 DEF IsLast, Mentioned, DefinedBy, InsertedBy

LEMMA NotDefined ==
  ASSUME NEW ops \in Seq(LayerOperation), NEW k \in 1..Len(ops), NEW id
  PROVE  /\ ~Defines(ops[k], id) => DefinedBy(ops, k, id) = DefinedBy(ops, k - 1, id)
         /\ ops[k].op # "insert" => InsertedBy(ops, k, id) = InsertedBy(ops, k - 1, id)
<1>1. /\ DefinedBy(ops, k, id) = DefinedBy(ops, k - 1, id)
                                    \cup {m \in {k} : Defines(ops[k], id)}
      /\ InsertedBy(ops, k, id) = InsertedBy(ops, k - 1, id)
            \cup {m \in {k} : ops[k].op = "insert" /\ id \in Ids(ops[k].entries)}
  BY OneMore
<1>2. ASSUME ~Defines(ops[k], id) PROVE DefinedBy(ops, k, id) = DefinedBy(ops, k - 1, id)
  BY <1>1, <1>2
<1>3. ASSUME ops[k].op # "insert" PROVE InsertedBy(ops, k, id) = InsertedBy(ops, k - 1, id)
  BY <1>1, <1>3
<1> QED
  BY <1>2, <1>3

LEMMA ListedNow ==
  ASSUME NEW ops \in Seq(LayerOperation), NEW k \in 1..Len(ops), NEW e, NEW g,
         Listed(e, ops, k - 1),
         \A id \in Entries : id \in Ids(g) <=>
           IF Mentions(ops[k], id) THEN ops[k].op # "remove" ELSE id \in Ids(e)
  PROVE  Listed(g, ops, k)
<1> SUFFICES ASSUME NEW id \in Entries
             PROVE  id \in Ids(g) <=>
                      \E m : IsLast(Mentioned(ops, k, id), m) /\ ops[m].op # "remove"
  BY DEF Listed
<1>1. CASE Mentions(ops[k], id)
  <2>1. IsLast(Mentioned(ops, k, id), k)
    BY <1>1, NowLast
  <2>2. k \in Nat /\ DOMAIN ops \subseteq Nat
    OBVIOUS
  <2>3. Mentioned(ops, k, id) \subseteq Nat
    BY <2>2 DEF Mentioned, Until
  <2>4. \A m : IsLast(Mentioned(ops, k, id), m) => m = k
    BY <2>1, <2>2, <2>3 DEF IsLast
  <2> QED
    BY <1>1, <2>1, <2>4
<1>2. CASE ~Mentions(ops[k], id)
  <2>1. Mentioned(ops, k, id) = Mentioned(ops, k - 1, id)
    BY <1>2, NotMentioned
  <2> QED
    BY <1>2, <2>1 DEF Listed
<1> QED
  BY <1>1, <1>2

(* The operations, one by one.                                             *)
LEMMA InsertWrites ==
  ASSUME NEW ops \in Seq(LayerOperation), NEW k \in 1..Len(ops), NEW e,
         Written(e, ops, k - 1), ops[k].op = "insert", NEW g \in ApplyOperation(e, ops[k])
  PROVE  Written(g, ops, k)
<1> DEFINE o == ops[k]
           new == o.entries
           n == Len(e)
<1>0. o \in LayerOperation
  OBVIOUS
<1>1. /\ e \in SeqOfEntries /\ new \in SeqOfEntries /\ UniqueIds(e)
  BY <1>0, KindsOfOperations DEF Written
<1>2. /\ g = e \o new /\ Cardinality(Ids(new)) = Len(new) /\ Ids(new) \cap Ids(e) = {}
  BY DEF ApplyOperation
<1>3. UniqueIds(new)
  BY <1>1, <1>2, InsertIsDistinct
<1>o. o.op = "insert" /\ \A id : Mentions(o, id) <=> id \in Ids(new)
  BY DEF Mentions, Defines
<1>d. \A id : Defines(o, id) <=> id \in Ids(new)
  BY DEF Defines
<1>v. \A id : Given(o, id) = new[PositionOf(new, id)]
  BY DEF Given
<1> HIDE DEF new, n
<1>4. /\ g \in SeqOfEntries /\ n \in Nat /\ DOMAIN e = 1..n /\ DOMAIN new = 1..Len(new)
      /\ Len(new) \in Nat /\ DOMAIN g = 1..(n + Len(new))
      /\ \A i \in 1..n : g[i] = e[i] /\ i \in DOMAIN g
      /\ \A i \in 1..Len(new) : g[n + i] = new[i] /\ n + i \in DOMAIN g
  BY <1>1, <1>2 DEF SeqOfEntries, n
<1>5. \A i \in DOMAIN g : i \in 1..n \/ (i - n \in 1..Len(new) /\ g[i] = new[i - n] /\ i > n)
  <2>1. \A i \in 1..(n + Len(new)) : i \in 1..n \/ (i - n \in 1..Len(new) /\ n + (i - n) = i /\ i > n)
    BY <1>4
  <2> QED
    BY <1>4, <2>1
<1>6. Ids(g) = Ids(e) \cup Ids(new)
  <2>1. ASSUME NEW x \in Ids(g) PROVE x \in Ids(e) \cup Ids(new)
    <3>1. PICK i \in DOMAIN g : x = g[i].id
      BY <2>1 DEF Ids
    <3> QED
      BY <1>4, <1>5, <3>1 DEF Ids
  <2>2. ASSUME NEW x \in Ids(e) PROVE x \in Ids(g)
    <3>1. PICK i \in DOMAIN e : x = e[i].id
      BY <2>2 DEF Ids
    <3> QED
      BY <1>4, <3>1 DEF Ids
  <2>3. ASSUME NEW x \in Ids(new) PROVE x \in Ids(g)
    <3>1. PICK i \in DOMAIN new : x = new[i].id
      BY <2>3 DEF Ids
    <3>2. n + i \in DOMAIN g /\ g[n + i].id = x
      BY <1>4, <3>1
    <3> QED
      BY <3>2 DEF Ids
  <2> QED
    BY <2>1, <2>2, <2>3
<1>7. /\ \A i \in 1..n : e[i].id \in Ids(e) /\ e[i].id \notin Ids(new)
      /\ \A i \in 1..Len(new) : new[i].id \in Ids(new) /\ new[i].id \notin Ids(e)
  BY <1>2, <1>4 DEF Ids
<1>8. UniqueIds(g)
  <2> SUFFICES ASSUME NEW i \in DOMAIN g, NEW j \in DOMAIN g, g[i].id = g[j].id PROVE i = j
    BY DEF UniqueIds
  <2>1. CASE i \in 1..n /\ j \in 1..n
    BY <1>1, <1>4, <2>1 DEF UniqueIds
  <2>2. CASE i \notin 1..n /\ j \notin 1..n
    <3>1. i - n = j - n
      BY <1>3, <1>4, <1>5, <2>2 DEF UniqueIds
    <3> QED
      BY <1>4, <3>1
  <2> QED
    BY <1>4, <1>5, <1>7, <2>1, <2>2
<1>9. Listed(g, ops, k)
  <2>1. Listed(e, ops, k - 1)
    BY DEF Written
  <2>2. \A id \in Entries : id \in Ids(g) <=>
          IF Mentions(o, id) THEN o.op # "remove" ELSE id \in Ids(e)
    BY <1>6, <1>o
  <2> QED
    BY <2>1, <2>2, ListedNow
<1>10. ASSUME NEW i \in DOMAIN g PROVE Told(g[i], ops, k)
  <2>1. CASE i \in 1..n
    <3>1. Told(e[i], ops, k - 1) /\ ~Mentions(o, e[i].id)
      BY <1>4, <1>7, <1>o, <2>1 DEF Written
    <3> QED
      BY <1>4, <2>1, <3>1, StillTold
  <2>2. CASE i \notin 1..n
    <3> DEFINE x == g[i]
    <3>1. x = new[i - n] /\ i - n \in DOMAIN new
      BY <1>4, <1>5, <2>2
    <3>2. x.id \in Ids(new) /\ Given(o, x.id) = x
      <4>1. PositionOf(new, x.id) = i - n
        BY <1>1, <1>3, <3>1, PositionFound
      <4> QED
        BY <1>v, <3>1, <4>1 DEF Ids
    <3> HIDE DEF x
    <3>3. Mentions(o, x.id) /\ Defines(o, x.id) /\ o.op = "insert" /\ x.id \in Ids(o.entries)
      BY <1>o, <1>d, <3>2 DEF new
    <3>4. /\ IsLast(Mentioned(ops, k, x.id), k) /\ IsLast(DefinedBy(ops, k, x.id), k)
          /\ IsLast(InsertedBy(ops, k, x.id), k)
      BY <3>3, NowLast
    <3>5. k \in Mentioned(ops, k, x.id) /\ k \in DefinedBy(ops, k, x.id)
      BY <3>4 DEF IsLast
    <3>6. Told(x, ops, k)
      BY <3>2, <3>3, <3>4, <3>5 DEF Told
    <3> QED
      BY <3>6 DEF x
  <2> QED
    BY <2>1, <2>2
<1>11. InsertionOrder(g, ops, k)
  <2> SUFFICES ASSUME NEW i \in DOMAIN g, NEW j \in DOMAIN g, i < j,
                      NEW a \in InsertedBy(ops, k, g[i].id),
                      NEW b \in InsertedBy(ops, k, g[j].id),
                      IsLast(InsertedBy(ops, k, g[i].id), a),
                      IsLast(InsertedBy(ops, k, g[j].id), b)
               PROVE  a <= b
    BY DEF InsertionOrder
  <2>1. CASE j \in 1..n
    <3>1. i \in 1..n
      BY <1>4, <1>5, <2>1
    <3>2. g[i] = e[i] /\ g[j] = e[j] /\ ~Mentions(o, e[i].id) /\ ~Mentions(o, e[j].id)
      BY <1>4, <1>7, <1>o, <2>1, <3>1
    <3>3. /\ InsertedBy(ops, k, e[i].id) = InsertedBy(ops, k - 1, e[i].id)
          /\ InsertedBy(ops, k, e[j].id) = InsertedBy(ops, k - 1, e[j].id)
      BY <3>2, NotMentioned
    <3>4. i \in DOMAIN e /\ j \in DOMAIN e /\ InsertionOrder(e, ops, k - 1)
      BY <1>4, <2>1, <3>1 DEF Written
    <3> QED
      BY <3>2, <3>3, <3>4 DEF InsertionOrder
  <2>2. CASE j \notin 1..n
    <3>1. g[j].id \in Ids(new)
      BY <1>5, <1>7, <2>2
    <3>2. IsLast(InsertedBy(ops, k, g[j].id), k)
      BY <1>o, <3>1, NowLast DEF new
    <3>3. DOMAIN ops \subseteq Nat
      OBVIOUS
    <3>4. k \in Nat /\ a \in Nat /\ b \in Nat /\ a <= k
      BY <3>3 DEF InsertedBy, Until
    <3>5. k <= b
      BY <3>2 DEF IsLast
    <3> QED
      BY <3>4, <3>5
  <2> QED
    BY <2>1, <2>2
<1> QED
  BY <1>4, <1>8, <1>9, <1>10, <1>11 DEF Written

(* An entry that is replaced or switched stays at its place.               *)
LEMMA UpdateWrites ==
  ASSUME NEW ops \in Seq(LayerOperation), NEW k \in 1..Len(ops), NEW e,
         Written(e, ops, k - 1), ops[k].op \in {"replace", "enable", "disable"},
         ops[k].id \in Ids(e), NEW y \in CompositionEntry, y.id = ops[k].id,
         Told(y, ops, k), NEW g, g = [e EXCEPT ![PositionOf(e, ops[k].id)] = y]
  PROVE  Written(g, ops, k)
<1> DEFINE o == ops[k]
           p == PositionOf(e, o.id)
           n == Len(e)
<1>1. e \in SeqOfEntries /\ UniqueIds(e) /\ InsertionOrder(e, ops, k - 1)
  BY DEF Written
<1>2. p \in DOMAIN e /\ e[p].id = o.id
  BY <1>1, IdIsThere
<1>3. \A id : Mentions(o, id) <=> id = o.id
  BY DEF Mentions, Defines
<1> HIDE DEF p
<1>4. g \in SeqOfEntries /\ DOMAIN g = DOMAIN e /\ g[p] = y /\ \A i \in DOMAIN e \ {p} : g[i] = e[i]
  BY <1>1, <1>2 DEF SeqOfEntries, p
<1>5. \A i \in DOMAIN g : g[i].id = e[i].id
  BY <1>2, <1>4
<1>6. Ids(g) = Ids(e)
  BY <1>4, <1>5 DEF Ids
<1>7. UniqueIds(g)
  BY <1>1, <1>4, <1>5 DEF UniqueIds
<1>8. Listed(g, ops, k)
  <2>1. Listed(e, ops, k - 1)
    BY DEF Written
  <2>2. \A id \in Entries : id \in Ids(g) <=>
          IF Mentions(o, id) THEN o.op # "remove" ELSE id \in Ids(e)
    BY <1>3, <1>6
  <2> QED
    BY <2>1, <2>2, ListedNow
<1>9. ASSUME NEW i \in DOMAIN g PROVE Told(g[i], ops, k)
  <2>1. CASE i = p
    BY <1>4, <2>1
  <2>2. CASE i # p
    <3>1. g[i] = e[i] /\ e[i].id # o.id
      BY <1>1, <1>2, <1>4, <2>2 DEF UniqueIds
    <3>2. Told(e[i], ops, k - 1) /\ ~Mentions(o, e[i].id)
      BY <1>3, <1>4, <3>1 DEF Written
    <3> QED
      BY <3>1, <3>2, StillTold
  <2> QED
    BY <2>1, <2>2
<1>10. InsertionOrder(g, ops, k)
  <2>1. \A id : InsertedBy(ops, k, id) = InsertedBy(ops, k - 1, id)
    BY NotDefined
  <2> QED
    BY <1>1, <1>4, <1>5, <2>1 DEF InsertionOrder
<1> QED
  BY <1>4, <1>7, <1>8, <1>9, <1>10 DEF Written

LEMMA ReplaceWrites ==
  ASSUME NEW ops \in Seq(LayerOperation), NEW k \in 1..Len(ops), NEW e,
         Written(e, ops, k - 1), ops[k].op = "replace", NEW g \in ApplyOperation(e, ops[k])
  PROVE  Written(g, ops, k)
<1> DEFINE o == ops[k]
           y == o.entry
<1>0. o \in LayerOperation
  OBVIOUS
<1>1. o.entry \in CompositionEntry
  BY <1>0, KindsOfOperations
<1>2. /\ o.id = o.entry.id /\ o.id \in Ids(e)
      /\ g = [e EXCEPT ![PositionOf(e, o.id)] = o.entry]
  BY DEF ApplyOperation
<1>3. PICK i \in DOMAIN e : e[i].id = o.id /\ Told(e[i], ops, k - 1)
  BY <1>2 DEF Ids, Written
<1>4. Mentions(o, y.id) /\ Defines(o, y.id) /\ Given(o, y.id) = y
  BY <1>2 DEF Mentions, Defines, Given
<1>5. /\ IsLast(Mentioned(ops, k, y.id), k) /\ IsLast(DefinedBy(ops, k, y.id), k)
      /\ InsertedBy(ops, k, y.id) = InsertedBy(ops, k - 1, y.id)
  BY <1>4, NowLast, NotDefined
<1>6. k \in Mentioned(ops, k, y.id) /\ k \in DefinedBy(ops, k, y.id)
  BY <1>5 DEF IsLast
<1>7. \E n : IsLast(InsertedBy(ops, k, y.id), n)
  BY <1>2, <1>3, <1>5 DEF Told
<1> HIDE DEF y
<1>8. Told(y, ops, k)
  BY <1>4, <1>5, <1>6, <1>7 DEF Told
<1> QED
  BY <1>1, <1>2, <1>8, UpdateWrites DEF y

LEMMA SwitchWrites ==
  ASSUME NEW ops \in Seq(LayerOperation), NEW k \in 1..Len(ops), NEW e,
         Written(e, ops, k - 1), ops[k].op \in {"enable", "disable"},
         NEW g \in ApplyOperation(e, ops[k])
  PROVE  Written(g, ops, k)
<1> DEFINE o == ops[k]
           p == PositionOf(e, o.id)
           y == [e[p] EXCEPT !.enabled = (o.op = "enable")]
<1>1. o.id \in Ids(e) /\ g = [e EXCEPT ![p].enabled = (o.op = "enable")]
  BY DEF ApplyOperation
<1>2. e \in SeqOfEntries /\ UniqueIds(e)
  BY DEF Written
<1>3. p \in DOMAIN e /\ e[p].id = o.id /\ e[p] \in CompositionEntry
  <2>1. p \in DOMAIN e /\ e[p].id = o.id
    BY <1>1, <1>2, IdIsThere
  <2> HIDE DEF p
  <2> QED
    BY <1>2, <2>1 DEF SeqOfEntries
<1> HIDE DEF p
<1>4. /\ y \in CompositionEntry /\ y.id = o.id /\ y.module = e[p].module
      /\ y.enabled = (o.op = "enable")
  BY <1>3 DEF CompositionEntry
<1>5. g = [e EXCEPT ![p] = y]
  BY <1>1
<1> HIDE DEF y
<1>6. Told(e[p], ops, k - 1)
  BY <1>3 DEF Written
<1>7. Mentions(o, y.id) /\ ~Defines(o, y.id)
  BY <1>4 DEF Mentions, Defines
<1>8. /\ IsLast(Mentioned(ops, k, y.id), k)
      /\ DefinedBy(ops, k, y.id) = DefinedBy(ops, k - 1, y.id)
      /\ InsertedBy(ops, k, y.id) = InsertedBy(ops, k - 1, y.id)
  BY <1>7, NowLast, NotDefined
<1>9. k \in Mentioned(ops, k, y.id)
  BY <1>8 DEF IsLast
<1>10. Told(y, ops, k)
  <2>1. /\ \E d \in DefinedBy(ops, k, y.id) :
             IsLast(DefinedBy(ops, k, y.id), d) /\ y.module = Given(ops[d], y.id).module
        /\ \E n : IsLast(InsertedBy(ops, k, y.id), n)
    BY <1>3, <1>4, <1>6, <1>8 DEF Told
  <2>2. y.enabled = IF Defines(ops[k], y.id) THEN Given(ops[k], y.id).enabled
                    ELSE ops[k].op = "enable"
    BY <1>4, <1>7
  <2> QED
    BY <1>8, <1>9, <2>1, <2>2 DEF Told
<1> QED
  BY <1>1, <1>4, <1>5, <1>10, UpdateWrites DEF p

LEMMA RemoveWrites ==
  ASSUME NEW ops \in Seq(LayerOperation), NEW k \in 1..Len(ops), NEW e,
         Written(e, ops, k - 1), ops[k].op = "remove", NEW g \in ApplyOperation(e, ops[k])
  PROVE  Written(g, ops, k)
<1> DEFINE o == ops[k]
           p == PositionOf(e, o.id)
           n == Len(e)
           From(i) == IF i < p THEN i ELSE i + 1
<1>1. e \in SeqOfEntries /\ UniqueIds(e) /\ InsertionOrder(e, ops, k - 1)
  BY DEF Written
<1>2. o.id \in Ids(e) /\ g = Without(e, p)
  BY DEF ApplyOperation
<1>3. p \in DOMAIN e /\ e[p].id = o.id
  BY <1>1, <1>2, IdIsThere
<1>m. \A id : Mentions(o, id) <=> id = o.id
  BY DEF Mentions, Defines
<1> HIDE DEF p, n
<1>4. n \in Nat /\ DOMAIN e = 1..n /\ p \in 1..n /\ n - 1 \in Nat
  BY <1>1, <1>3 DEF SeqOfEntries, n
<1>5. \A i \in 1..(n - 1) : From(i) \in 1..n /\ From(i) # p
  BY <1>4
<1>6. DOMAIN g = 1..(n - 1) /\ \A i \in 1..(n - 1) : g[i] = e[From(i)]
  BY <1>2 DEF Without, n
<1>7. g \in SeqOfEntries
  <2>1. \A i \in 1..n : e[i] \in CompositionEntry
    BY <1>1, <1>4 DEF SeqOfEntries
  <2>2. g = [i \in 1..(n - 1) |-> g[i]]
    BY <1>2 DEF Without, n
  <2>3. \A i \in 1..(n - 1) : g[i] \in CompositionEntry
    BY <1>5, <1>6, <2>1
  <2>4. g \in [1..(n - 1) -> CompositionEntry]
    BY <2>2, <2>3
  <2> QED
    BY <1>4, <2>4 DEF SeqOfEntries
<1>8. \A i, j \in 1..(n - 1) : (i < j => From(i) < From(j)) /\ (From(i) = From(j) => i = j)
  BY <1>4
<1>9. \A j \in 1..n : j # p => \E i \in 1..(n - 1) : From(i) = j
  <2> SUFFICES ASSUME NEW j \in 1..n, j # p PROVE \E i \in 1..(n - 1) : From(i) = j
    OBVIOUS
  <2>1. CASE j < p
    <3>1. j \in 1..(n - 1) /\ From(j) = j
      BY <1>4, <2>1
    <3> QED
      BY <3>1
  <2>2. CASE ~(j < p)
    <3>1. j - 1 \in 1..(n - 1) /\ From(j - 1) = j
      BY <1>4, <2>2
    <3> QED
      BY <3>1
  <2> QED
    BY <2>1, <2>2
<1> HIDE DEF From
<1>10. \A i \in 1..(n - 1) : e[From(i)].id # o.id
  BY <1>1, <1>3, <1>4, <1>5 DEF UniqueIds
<1>11. Ids(g) = Ids(e) \ {o.id}
  <2>1. ASSUME NEW x \in Ids(g) PROVE x \in Ids(e) \ {o.id}
    <3>1. PICK i \in DOMAIN g : x = g[i].id
      BY <2>1 DEF Ids
    <3>2. x = e[From(i)].id /\ From(i) \in DOMAIN e /\ i \in 1..(n - 1)
      BY <1>4, <1>5, <1>6, <3>1
    <3> QED
      BY <1>10, <3>2 DEF Ids
  <2>2. ASSUME NEW x \in Ids(e) \ {o.id} PROVE x \in Ids(g)
    <3>1. PICK j \in DOMAIN e : x = e[j].id
      BY <2>2 DEF Ids
    <3>2. PICK i \in 1..(n - 1) : From(i) = j
      BY <1>3, <1>4, <1>9, <2>2, <3>1
    <3>3. i \in DOMAIN g /\ x = g[i].id
      BY <1>6, <3>1, <3>2
    <3> QED
      BY <3>3 DEF Ids
  <2> QED
    BY <2>1, <2>2
<1>12. UniqueIds(g)
  BY <1>1, <1>4, <1>5, <1>6, <1>8 DEF UniqueIds
<1>13. Listed(g, ops, k)
  <2>1. Listed(e, ops, k - 1)
    BY DEF Written
  <2>2. \A id \in Entries : id \in Ids(g) <=>
          IF Mentions(o, id) THEN o.op # "remove" ELSE id \in Ids(e)
    BY <1>11, <1>m
  <2> QED
    BY <2>1, <2>2, ListedNow
<1>14. ASSUME NEW i \in DOMAIN g PROVE Told(g[i], ops, k)
  <2>1. g[i] = e[From(i)] /\ From(i) \in DOMAIN e /\ e[From(i)].id # o.id
    BY <1>4, <1>5, <1>6, <1>10
  <2>2. Told(e[From(i)], ops, k - 1) /\ ~Mentions(o, e[From(i)].id)
    BY <1>m, <2>1 DEF Written
  <2> QED
    BY <2>1, <2>2, StillTold
<1>15. InsertionOrder(g, ops, k)
  <2>1. \A id : InsertedBy(ops, k, id) = InsertedBy(ops, k - 1, id)
    BY NotDefined
  <2>2. ASSUME NEW i \in DOMAIN g, NEW j \in DOMAIN g, i < j
        PROVE  /\ From(i) \in DOMAIN e /\ From(j) \in DOMAIN e /\ From(i) < From(j)
               /\ g[i] = e[From(i)] /\ g[j] = e[From(j)]
    BY <1>4, <1>5, <1>6, <1>8, <2>2
  <2> QED
    BY <1>1, <2>1, <2>2 DEF InsertionOrder
<1> QED
  BY <1>7, <1>12, <1>13, <1>14, <1>15 DEF Written

LEMMA ApplyWrites ==
  ASSUME NEW ops \in Seq(LayerOperation), NEW k \in 1..Len(ops), NEW e,
         Written(e, ops, k - 1), NEW g \in ApplyOperation(e, ops[k])
  PROVE  Written(g, ops, k)
<1>1. ops[k] \in LayerOperation
  OBVIOUS
<1>2. ops[k].op \in {"insert", "replace", "enable", "disable", "remove"}
  BY <1>1, KindsOfOperations
<1> QED
  BY <1>2, InsertWrites, ReplaceWrites, SwitchWrites, RemoveWrites

----------------------------------------------------------------------------
(* The two recursive functions exist: the operations of a list of layers,  *)
(* and what they compose.                                                  *)
Lists(f, layers, N) ==
  f = [i \in 0..N |-> IF i = 0 THEN <<>> ELSE f[i - 1] \o layers[i].ops]
AppliedTo(lists, op) == UNION {ApplyOperation(e, op) : e \in lists}
Composes(f, ops, N) ==
  f = [i \in 0..N |-> IF i = 0 THEN {<<>>} ELSE AppliedTo(f[i - 1], ops[i])]

LEMMA ListingExists ==
  ASSUME NEW layers, NEW N \in Nat
  PROVE  \E f : Lists(f, layers, N)
<1> DEFINE P == {k \in 0..N : \E f : Lists(f, layers, k)}
<1>1. 0 \in P
  <2> DEFINE f == [i \in 0..0 |-> <<>>]
  <2>1. f = [i \in 0..0 |-> IF i = 0 THEN <<>> ELSE f[i - 1] \o layers[i].ops]
    <3>1. \A i \in 0..0 : i = 0
      OBVIOUS
    <3> QED
      BY <3>1, Zenon
  <2>2. Lists(f, layers, 0)
    BY <2>1 DEF Lists
  <2> HIDE DEF f
  <2> QED
    BY <2>2
<1>2. ASSUME NEW k \in 1..N, k - 1 \in P PROVE k \in P
  <2>1. PICK f : Lists(f, layers, k - 1)
    BY <1>2
  <2> DEFINE Body(h, i) == IF i = 0 THEN <<>> ELSE h[i - 1] \o layers[i].ops
             g == [i \in 0..k |-> Body(f, i)]
             h == [i \in 0..k |-> Body(g, i)]
  <2>2. \A i \in 0..k : g[i] = Body(f, i)
    BY Zenon
  <2>3. \A i \in 0..(k - 1) : f[i] = Body(f, i)
    BY <2>1, Zenon DEF Lists
  <2>4. \A i \in 0..k : i # 0 => i - 1 \in 0..(k - 1) /\ i - 1 \in 0..k
    OBVIOUS
  <2>5. \A i \in 0..(k - 1) : g[i] = f[i]
    <3>1. \A i \in 0..(k - 1) : i \in 0..k
      OBVIOUS
    <3> HIDE DEF g
    <3> QED
      BY <2>2, <2>3, <3>1, Zenon
  <2>6. \A i \in 0..k : h[i] = Body(g, i)
    BY Zenon
  <2>g. g = [i \in 0..k |-> g[i]]
    BY Zenon
  <2>h. h = [i \in 0..k |-> h[i]]
    <3> HIDE DEF g
    <3> QED
      BY Zenon
  <2>8. \A i \in 0..k : i # 0 => g[i - 1] = f[i - 1]
    <3> HIDE DEF g
    <3> QED
      BY <2>4, <2>5, Zenon
  <2>9. g = h
    <3> HIDE DEF g, h
    <3>1. \A i \in 0..k : g[i] = h[i]
      BY <2>2, <2>6, <2>8, Zenon
    <3> QED
      BY <2>g, <2>h, <3>1, Zenon
  <2>10. Lists(g, layers, k)
    <3>1. g = [i \in 0..k |-> IF i = 0 THEN <<>> ELSE g[i - 1] \o layers[i].ops]
      <4> HIDE DEF g
      <4> QED
        BY <2>9 DEF h
    <3> QED
      BY <3>1 DEF Lists
  <2> HIDE DEF g
  <2> QED
    BY <2>10
<1> HIDE DEF P
<1>3. \A n \in 0..N : n \in P
  BY <1>1, <1>2, RangeInduction
<1> QED
  BY <1>3 DEF P

LEMMA ComposingExists ==
  ASSUME NEW ops, NEW N \in Nat
  PROVE  \E f : Composes(f, ops, N)
<1> DEFINE P == {k \in 0..N : \E f : Composes(f, ops, k)}
<1>1. 0 \in P
  <2> DEFINE f == [i \in 0..0 |-> {<<>>}]
  <2>1. f = [i \in 0..0 |-> IF i = 0 THEN {<<>>} ELSE AppliedTo(f[i - 1], ops[i])]
    <3>1. \A i \in 0..0 : i = 0
      OBVIOUS
    <3> QED
      BY <3>1, Zenon
  <2>2. Composes(f, ops, 0)
    BY <2>1 DEF Composes
  <2> HIDE DEF f
  <2> QED
    BY <2>2
<1>2. ASSUME NEW k \in 1..N, k - 1 \in P PROVE k \in P
  <2>1. PICK f : Composes(f, ops, k - 1)
    BY <1>2
  <2> DEFINE Body(h, i) == IF i = 0 THEN {<<>>} ELSE AppliedTo(h[i - 1], ops[i])
             g == [i \in 0..k |-> Body(f, i)]
             h == [i \in 0..k |-> Body(g, i)]
  <2>2. \A i \in 0..k : g[i] = Body(f, i)
    BY Zenon
  <2>3. \A i \in 0..(k - 1) : f[i] = Body(f, i)
    BY <2>1, Zenon DEF Composes
  <2>4. \A i \in 0..k : i # 0 => i - 1 \in 0..(k - 1) /\ i - 1 \in 0..k
    OBVIOUS
  <2>5. \A i \in 0..(k - 1) : g[i] = f[i]
    <3>1. \A i \in 0..(k - 1) : i \in 0..k
      OBVIOUS
    <3> HIDE DEF g
    <3> QED
      BY <2>2, <2>3, <3>1, Zenon
  <2>6. \A i \in 0..k : h[i] = Body(g, i)
    BY Zenon
  <2>g. g = [i \in 0..k |-> g[i]]
    BY Zenon
  <2>h. h = [i \in 0..k |-> h[i]]
    <3> HIDE DEF g
    <3> QED
      BY Zenon
  <2>8. \A i \in 0..k : i # 0 => g[i - 1] = f[i - 1]
    <3> HIDE DEF g
    <3> QED
      BY <2>4, <2>5, Zenon
  <2>9. g = h
    <3> HIDE DEF g, h
    <3>1. \A i \in 0..k : g[i] = h[i]
      BY <2>2, <2>6, <2>8, Zenon
    <3> QED
      BY <2>g, <2>h, <3>1, Zenon
  <2>10. Composes(g, ops, k)
    <3>1. g = [i \in 0..k |-> IF i = 0 THEN {<<>>} ELSE AppliedTo(g[i - 1], ops[i])]
      <4> HIDE DEF g
      <4> QED
        BY <2>9 DEF h
    <3> QED
      BY <3>1 DEF Composes
  <2> HIDE DEF g
  <2> QED
    BY <2>10
<1> HIDE DEF P
<1>3. \A n \in 0..N : n \in P
  BY <1>1, <1>2, RangeInduction
<1> QED
  BY <1>3 DEF P

ProfileLayer == [name : Nat \cup {"builtin"}, ops : Seq(LayerOperation)]

LEMMA OperationSteps ==
  ASSUME NEW layers \in Seq(ProfileLayer)
  PROVE  \E f : /\ f[0] = <<>> /\ Operations(layers) = f[Len(layers)]
                /\ \A i \in 1..Len(layers) : f[i] = f[i - 1] \o layers[i].ops
<1> DEFINE N == Len(layers)
           f == CHOOSE g : Lists(g, layers, N)
<1>1. Operations(layers) = f[N]
  BY Zenon DEF Operations, Lists
<1>2. N \in Nat
  OBVIOUS
<1> HIDE DEF N
<1>3. Lists(f, layers, N)
  BY <1>2, ListingExists, Zenon
<1> HIDE DEF f
<1>4. \A i \in 0..N : f[i] = IF i = 0 THEN <<>> ELSE f[i - 1] \o layers[i].ops
  BY <1>3, Zenon DEF Lists
<1>5. 0 \in 0..N /\ \A i \in 1..N : i \in 0..N /\ i # 0
  BY <1>2
<1>6. f[0] = <<>> /\ \A i \in 1..N : f[i] = f[i - 1] \o layers[i].ops
  BY <1>4, <1>5, Zenon
<1> QED
  BY <1>1, <1>6 DEF N

LEMMA OperationsFit ==
  ASSUME NEW layers \in Seq(ProfileLayer)
  PROVE  Operations(layers) \in Seq(LayerOperation)
<1> DEFINE N == Len(layers)
<1>1. PICK f : /\ f[0] = <<>> /\ Operations(layers) = f[N]
               /\ \A i \in 1..N : f[i] = f[i - 1] \o layers[i].ops
  BY OperationSteps
<1> DEFINE P == {i \in 0..N : f[i] \in Seq(LayerOperation)}
<1>a. N \in Nat /\ \A i \in 1..N : layers[i] \in ProfileLayer
  OBVIOUS
<1> HIDE DEF N
<1>2. \A i \in 1..N : layers[i].ops \in Seq(LayerOperation)
  BY <1>a DEF ProfileLayer
<1>3. 0 \in P
  <2>1. f[0] \in Seq(LayerOperation)
    BY <1>1
  <2> QED
    BY <1>a, <2>1
<1>4. ASSUME NEW n \in 1..N, n - 1 \in P PROVE n \in P
  <2>1. f[n] = f[n - 1] \o layers[n].ops /\ layers[n].ops \in Seq(LayerOperation)
    BY <1>1, <1>2
  <2>2. f[n - 1] \in Seq(LayerOperation)
    BY <1>4
  <2>3. f[n] \in Seq(LayerOperation)
    BY <2>1, <2>2
  <2> QED
    BY <1>a, <2>3
<1>5. \A n \in 0..N : n \in P
  <2> HIDE DEF P
  <2> QED
    BY <1>a, <1>3, <1>4, RangeInduction
<1> QED
  BY <1>1, <1>a, <1>5

(* What is composed from one layer.                                        *)
LEMMA ComposeSteps ==
  ASSUME NEW p, LayersInOrder(p) \in Seq(ProfileLayer)
  PROVE  LET ops == Operations(LayersInOrder(p)) IN
         \E f : /\ f[0] = {<<>>} /\ Compose(p) = f[Len(ops)]
                /\ \A i \in 1..Len(ops) : f[i] = AppliedTo(f[i - 1], ops[i])
<1> DEFINE ops == Operations(LayersInOrder(p))
           N == Len(ops)
           f == CHOOSE g : Composes(g, ops, N)
<1>0. ops \in Seq(LayerOperation)
  BY OperationsFit
<1>1. Compose(p) = f[N]
  BY Zenon DEF Compose, Composes, AppliedTo
<1> HIDE DEF ops
<1>2. N \in Nat
  BY <1>0
<1> HIDE DEF N
<1>3. Composes(f, ops, N)
  BY <1>2, ComposingExists, Zenon
<1> HIDE DEF f
<1>4. \A i \in 0..N : f[i] = IF i = 0 THEN {<<>>} ELSE AppliedTo(f[i - 1], ops[i])
  BY <1>3, Zenon DEF Composes
<1>5. 0 \in 0..N /\ \A i \in 1..N : i \in 0..N /\ i # 0
  BY <1>2
<1>6. f[0] = {<<>>} /\ \A i \in 1..N : f[i] = AppliedTo(f[i - 1], ops[i])
  BY <1>4, <1>5, Zenon
<1> QED
  BY <1>1, <1>6 DEF N, ops

LEMMA ComposeWrites ==
  ASSUME NEW p, LayersInOrder(p) \in Seq(ProfileLayer), NEW e \in Compose(p)
  PROVE  LET ops == Operations(LayersInOrder(p)) IN Written(e, ops, Len(ops))
<1> DEFINE ops == Operations(LayersInOrder(p))
           N == Len(ops)
<1>0. ops \in Seq(LayerOperation)
  BY OperationsFit
<1>1. PICK f : /\ f[0] = {<<>>} /\ Compose(p) = f[N]
               /\ \A i \in 1..N : f[i] = AppliedTo(f[i - 1], ops[i])
  BY ComposeSteps
<1> HIDE DEF ops
<1> DEFINE P == {i \in 0..N : \A g \in f[i] : Written(g, ops, i)}
<1>2. N \in Nat /\ DOMAIN ops = 1..N
  BY <1>0
<1>3. 0 \in P
  <2>1. Written(<<>>, ops, 0)
    <3>1. Until(ops, 0) = {}
      BY <1>2 DEF Until
    <3>2. /\ <<>> \in SeqOfEntries /\ DOMAIN <<>> = {} /\ Ids(<<>>) = {}
      BY DEF SeqOfEntries, Ids
    <3>3. \A id, m : ~IsLast(Mentioned(ops, 0, id), m)
      BY <3>1 DEF IsLast, Mentioned
    <3> QED
      BY <3>2, <3>3 DEF Written, UniqueIds, Listed, InsertionOrder
  <2> QED
    BY <1>1, <1>2, <2>1
<1>4. ASSUME NEW n \in 1..N, n - 1 \in P PROVE n \in P
  <2>1. ASSUME NEW g \in f[n] PROVE Written(g, ops, n)
    <3>1. PICK h \in f[n - 1] : g \in ApplyOperation(h, ops[n])
      BY <1>1, <2>1 DEF AppliedTo
    <3>2. Written(h, ops, n - 1)
      BY <1>4, <3>1
    <3>3. n \in 1..Len(ops)
      OBVIOUS
    <3> QED
      BY <1>0, <3>1, <3>2, <3>3, ApplyWrites
  <2> QED
    BY <1>2, <2>1
<1> HIDE DEF N
<1>5. \A n \in 0..N : n \in P
  <2> HIDE DEF P
  <2> QED
    BY <1>2, <1>3, <1>4, RangeInduction
<1>6. Written(e, ops, N)
  BY <1>1, <1>2, <1>5
<1> QED
  BY <1>6 DEF N, ops

CompositionTypeOK ==
  /\ profile \in [bundles : Seq(ProfileLayer), profile : Seq(ProfileLayer),
                  overlays : Seq(ProfileLayer)]
  /\ environment \in [Variables -> Options]
  /\ settings \in [capability : [Capabilities -> Options], plugin : [Entries -> Options]]

LEMMA LastWriterSpeaks ==
  ASSUME CompositionTypeOK PROVE ComposeIsLastWriter
<1> DEFINE ops == Operations(LayersInOrder(profile))
           N == Len(ops)
<1>1. LayersInOrder(profile) \in Seq(ProfileLayer)
  BY DEF CompositionTypeOK, LayersInOrder
<1>2. ops \in Seq(LayerOperation)
  BY <1>1, OperationsFit
<1>3. \A e \in Compose(profile) : Written(e, ops, N)
  BY <1>1, ComposeWrites
<1>e. Operations(profile.bundles \o profile.profile \o profile.overlays) = ops
  BY DEF LayersInOrder
<1> HIDE DEF ops
<1>4. N \in Nat /\ DOMAIN ops = 1..N /\ Until(ops, N) = 1..N
  BY <1>2 DEF Until
<1>5. /\ \A id : Mentioned(ops, N, id) = Mentioning(ops, id)
      /\ \A id : DefinedBy(ops, N, id) = Defining(ops, id)
      /\ \A id : InsertedBy(ops, N, id) = Inserting(ops, id)
  BY <1>4 DEF Mentioned, Mentioning, DefinedBy, Defining, InsertedBy, Inserting
<1>6. /\ \A id : Mentioning(ops, id) \in SUBSET (1..N) /\ Mentioning(ops, id) \in SUBSET Nat
      /\ \A id : Defining(ops, id) \in SUBSET Nat /\ Inserting(ops, id) \in SUBSET Nat
  BY <1>4 DEF Mentioning, Defining, Inserting
<1> DEFINE last(id) == ops[LastOf(Mentioning(ops, id))]
<1> SUFFICES ASSUME NEW e \in Compose(profile)
             PROVE  /\ Ids(e) = {id \in Entries : Mentioning(ops, id) # {} /\ last(id).op # "remove"}
                    /\ \A i \in DOMAIN e :
                         LET id == e[i].id
                             defined == Given(ops[LastOf(Defining(ops, id))], id)
                         IN /\ e[i].module = defined.module
                            /\ e[i].enabled = IF Defines(last(id), id)
                                                THEN Given(last(id), id).enabled
                                              ELSE last(id).op = "enable"
                    /\ \A i, j \in DOMAIN e :
                         i < j => LastOf(Inserting(ops, e[i].id)) <= LastOf(Inserting(ops, e[j].id))
  BY <1>e DEF ComposeIsLastWriter
<1>7. Written(e, ops, N)
  BY <1>3
<1>8. \A id : \A m : IsLast(Mentioning(ops, id), m) => LastOf(Mentioning(ops, id)) = m
  BY <1>6, LastIsUnique
<1>9. \A id : Mentioning(ops, id) # {} => \E m : IsLast(Mentioning(ops, id), m)
  BY <1>4, <1>6, LastExists
<1>10. \A id : \A m : IsLast(Defining(ops, id), m) => LastOf(Defining(ops, id)) = m
  BY <1>6, LastIsUnique
<1>11. \A id : \A m : IsLast(Inserting(ops, id), m) => LastOf(Inserting(ops, id)) = m
  BY <1>6, LastIsUnique
<1>12. Ids(e) \subseteq Entries
  <2>1. e \in SeqOfEntries
    BY <1>7 DEF Written
  <2>2. \A i \in DOMAIN e : e[i] \in CompositionEntry
    BY <2>1 DEF SeqOfEntries
  <2>3. \A x \in CompositionEntry : x.id \in Entries
    BY DEF CompositionEntry
  <2> QED
    BY <2>2, <2>3 DEF Ids
<1>13. \A id \in Entries : id \in Ids(e) <=> Mentioning(ops, id) # {} /\ last(id).op # "remove"
  <2> SUFFICES ASSUME NEW id \in Entries
               PROVE  id \in Ids(e) <=> Mentioning(ops, id) # {} /\ last(id).op # "remove"
    OBVIOUS
  <2>1. id \in Ids(e) <=> \E m : IsLast(Mentioning(ops, id), m) /\ ops[m].op # "remove"
    BY <1>5, <1>7 DEF Written, Listed
  <2>2. ASSUME id \in Ids(e) PROVE Mentioning(ops, id) # {} /\ last(id).op # "remove"
    <3>1. PICK m : IsLast(Mentioning(ops, id), m) /\ ops[m].op # "remove"
      BY <2>1, <2>2
    <3>2. LastOf(Mentioning(ops, id)) = m
      BY <1>8, <3>1
    <3> QED
      BY <3>1, <3>2 DEF IsLast
  <2>3. ASSUME Mentioning(ops, id) # {}, last(id).op # "remove" PROVE id \in Ids(e)
    <3>1. PICK m : IsLast(Mentioning(ops, id), m)
      BY <1>9, <2>3
    <3>2. LastOf(Mentioning(ops, id)) = m
      BY <1>8, <3>1
    <3> QED
      BY <2>1, <2>3, <3>1, <3>2
  <2> QED
    BY <2>2, <2>3
<1>14. ASSUME NEW i \in DOMAIN e
       PROVE  LET id == e[i].id
                  defined == Given(ops[LastOf(Defining(ops, id))], id)
              IN /\ e[i].module = defined.module
                 /\ e[i].enabled = IF Defines(last(id), id) THEN Given(last(id), id).enabled
                                   ELSE last(id).op = "enable"
  <2> DEFINE id == e[i].id
  <2>1. Told(e[i], ops, N)
    BY <1>7, <1>14 DEF Written
  <2>2. /\ Mentioned(ops, N, id) = Mentioning(ops, id)
        /\ DefinedBy(ops, N, id) = Defining(ops, id)
    BY <1>5
  <2>3. PICK d \in Defining(ops, id) :
          IsLast(Defining(ops, id), d) /\ e[i].module = Given(ops[d], id).module
    BY <2>1, <2>2 DEF Told
  <2>4. PICK m \in Mentioning(ops, id) :
          /\ IsLast(Mentioning(ops, id), m)
          /\ e[i].enabled = IF Defines(ops[m], id) THEN Given(ops[m], id).enabled
                            ELSE ops[m].op = "enable"
    BY <2>1, <2>2 DEF Told
  <2>5. LastOf(Defining(ops, id)) = d /\ LastOf(Mentioning(ops, id)) = m
    BY <1>8, <1>10, <2>3, <2>4
  <2> QED
    BY <2>3, <2>4, <2>5
<1>15. ASSUME NEW i \in DOMAIN e, NEW j \in DOMAIN e, i < j
       PROVE  LastOf(Inserting(ops, e[i].id)) <= LastOf(Inserting(ops, e[j].id))
  <2>1. /\ InsertedBy(ops, N, e[i].id) = Inserting(ops, e[i].id)
        /\ InsertedBy(ops, N, e[j].id) = Inserting(ops, e[j].id)
    BY <1>5
  <2>2. PICK a : IsLast(Inserting(ops, e[i].id), a)
    BY <1>7, <2>1 DEF Written, Told
  <2>3. PICK b : IsLast(Inserting(ops, e[j].id), b)
    BY <1>7, <2>1 DEF Written, Told
  <2>4. a <= b
    <3>1. a \in Inserting(ops, e[i].id) /\ b \in Inserting(ops, e[j].id)
      BY <2>2, <2>3 DEF IsLast
    <3> QED
      BY <1>7, <1>15, <2>1, <2>2, <2>3, <3>1 DEF Written, InsertionOrder
  <2> QED
    BY <1>11, <2>2, <2>3, <2>4
<1> QED
  BY <1>12, <1>13, <1>14, <1>15

LEMMA CompositionInitInv == CompositionInit => CompositionTypeOK
<1> SUFFICES ASSUME CompositionInit PROVE CompositionTypeOK
  OBVIOUS
<1>1. profile \in [bundles : Seq(ProfileLayer), profile : Seq(ProfileLayer),
                   overlays : Seq(ProfileLayer)]
  <2>1. <<>> \in Seq(ProfileLayer)
    OBVIOUS
  <2> QED
    BY <2>1 DEF CompositionInit, NoProfile
<1>2. environment \in [Variables -> Options]
  BY DEF CompositionInit
<1>3. settings \in [capability : [Capabilities -> Options], plugin : [Entries -> Options]]
  BY DEF CompositionInit, Options
<1> QED
  BY <1>1, <1>2, <1>3 DEF CompositionTypeOK

LEMMA LayersFit ==
  ASSUME CompositionTypeOK, NEW ops \in Layers,
         NEW name \in 1..(Len(LayersInOrder(profile)) + 1),
         NEW layer, layer = [name |-> name, ops |-> ops],
         AddBundle(layer) \/ SetProfileLayer(layer) \/ AddOverlay(layer)
  PROVE  CompositionTypeOK'
<1>1. /\ profile \in [bundles : Seq(ProfileLayer), profile : Seq(ProfileLayer),
                      overlays : Seq(ProfileLayer)]
      /\ profile.bundles \in Seq(ProfileLayer) /\ profile.overlays \in Seq(ProfileLayer)
  BY DEF CompositionTypeOK
<1>2. layer \in ProfileLayer
  <2>1. ops \in Seq(LayerOperation)
    BY LayersAssumption
  <2>2. name \in Nat
    OBVIOUS
  <2> QED
    BY <2>1, <2>2 DEF ProfileLayer
<1>3. /\ Append(profile.bundles, layer) \in Seq(ProfileLayer) /\ <<layer>> \in Seq(ProfileLayer)
      /\ Append(profile.overlays, layer) \in Seq(ProfileLayer)
  BY <1>1, <1>2
<1>4. profile' \in [bundles : Seq(ProfileLayer), profile : Seq(ProfileLayer),
                    overlays : Seq(ProfileLayer)]
  <2>1. CASE profile' = [profile EXCEPT !.bundles = Append(@, layer)]
    BY <1>1, <1>3, <2>1
  <2>2. CASE profile' = [profile EXCEPT !.profile = <<layer>>]
    BY <1>1, <1>3, <2>2
  <2>3. CASE profile' = [profile EXCEPT !.overlays = Append(@, layer)]
    BY <1>1, <1>3, <2>3
  <2> QED
    BY <2>1, <2>2, <2>3 DEF AddBundle, SetProfileLayer, AddOverlay
<1>5. UNCHANGED <<environment, settings>>
  BY DEF AddBundle, SetProfileLayer, AddOverlay
<1> QED
  BY <1>4, <1>5 DEF CompositionTypeOK, Variables, Options

SettingsFit(s) == s \in [capability : [Capabilities -> Options], plugin : [Entries -> Options]]

LEMMA EditsFit ==
  ASSUME CompositionTypeOK, UNCHANGED <<profile, environment>>, SettingsFit(settings')
  PROVE  CompositionTypeOK'
BY DEF CompositionTypeOK, SettingsFit, ProfileLayer, LayerOperation, CompositionEntry, Variables,
       Options, Entries, Capabilities

LEMMA CompositionNextInv ==
  CompositionTypeOK /\ [CompositionNext]_compositionVars => CompositionTypeOK'
<1> SUFFICES ASSUME CompositionTypeOK, [CompositionNext]_compositionVars
             PROVE  CompositionTypeOK'
  OBVIOUS
<1>0. /\ SettingsFit(settings) /\ settings.capability \in [Capabilities -> Options]
      /\ settings.plugin \in [Entries -> Options]
  BY DEF CompositionTypeOK, SettingsFit
<1>1. ASSUME NEW ops \in Layers, NEW name \in 1..(Len(LayersInOrder(profile)) + 1),
             LET layer == [name |-> name, ops |-> ops] IN
             AddBundle(layer) \/ SetProfileLayer(layer) \/ AddOverlay(layer)
      PROVE  CompositionTypeOK'
  BY <1>1, LayersFit
<1>2. ASSUME NEW cap \in Capabilities, NEW value \in Options, Edit("capability", cap, value)
      PROVE  CompositionTypeOK'
  <2>1. settings' = [settings EXCEPT !["capability"][cap] = value]
    BY <1>2 DEF Edit
  <2>2. SettingsFit(settings')
    BY <1>0, <2>1 DEF SettingsFit
  <2> QED
    BY <1>2, <2>2, EditsFit DEF Edit
<1>3. ASSUME NEW id \in Entries, NEW value \in Options, Edit("plugin", id, value)
      PROVE  CompositionTypeOK'
  <2>1. settings' = [settings EXCEPT !["plugin"][id] = value]
    BY <1>3 DEF Edit
  <2>2. SettingsFit(settings')
    BY <1>0, <2>1 DEF SettingsFit
  <2> QED
    BY <1>3, <2>2, EditsFit DEF Edit
<1>4. ASSUME NEW patch \in [Capabilities -> {{}, {TRUE}}], MergeOverrides(patch)
      PROVE  CompositionTypeOK'
  <2> DEFINE merged == [cap \in Capabilities |-> FirstOf(patch[cap], settings.capability[cap])]
  <2>1. merged \in [Capabilities -> Options]
    BY <1>0 DEF FirstOf, Options
  <2>2. settings' = [settings EXCEPT !.capability = merged]
    BY <1>4 DEF MergeOverrides
  <2> HIDE DEF merged
  <2>3. SettingsFit(settings')
    BY <1>0, <2>1, <2>2 DEF SettingsFit
  <2> QED
    BY <1>4, <2>3, EditsFit DEF MergeOverrides
<1>5. CASE StartHost
  BY <1>0, <1>5, EditsFit DEF StartHost
<1>6. CASE UNCHANGED compositionVars
  BY <1>0, <1>6, EditsFit DEF compositionVars
<1> QED
  BY <1>1, <1>2, <1>3, <1>4, <1>5, <1>6 DEF CompositionNext

----------------------------------------------------------------------------
(* A Host starts the catalogue, switched as the settings say.              *)
Catalogue == <<BuiltinEntry("model"), BuiltinEntry("context"), BuiltinEntry("companion"),
               BuiltinEntry("mailbox"), BuiltinEntry("shell")>>

LEMMA CatalogueIsBuilt ==
  ASSUME NEW s \in BuildComposition PROVE s = Catalogue
<1> DEFINE op == [op |-> "insert", entries |-> Catalogue]
           layer == [name |-> "builtin", ops |-> <<op>>]
           p == [NoProfile EXCEPT !.bundles = <<layer>>]
<1>1. s \in Compose(p)
  BY DEF BuildComposition, Catalogue
<1>2. \A id \in Entries : BuiltinEntry(id) \in CompositionEntry
  BY DEF BuiltinEntry, CompositionEntry
<1>3. Catalogue \in Seq(CompositionEntry)
  BY <1>2 DEF Catalogue, Entries, Capabilities
<1> HIDE DEF Catalogue
<1>4. op \in LayerOperation
  BY <1>3 DEF LayerOperation
<1>5. op.op = "insert" /\ op.entries = Catalogue
  OBVIOUS
<1> HIDE DEF op
<1>6. layer \in ProfileLayer /\ layer.ops = <<op>>
  BY <1>4 DEF ProfileLayer
<1> HIDE DEF layer
<1>7. LayersInOrder(p) = <<layer>>
  BY <1>6 DEF LayersInOrder, NoProfile
<1> HIDE DEF p
<1>8. LayersInOrder(p) \in Seq(ProfileLayer)
  BY <1>6, <1>7
<1>9. Operations(LayersInOrder(p)) = <<op>>
  <2>1. PICK f : /\ f[0] = <<>> /\ Operations(LayersInOrder(p)) = f[Len(LayersInOrder(p))]
                 /\ \A i \in 1..Len(LayersInOrder(p)) : f[i] = f[i - 1] \o LayersInOrder(p)[i].ops
    BY <1>8, OperationSteps
  <2>2. Len(LayersInOrder(p)) = 1 /\ LayersInOrder(p)[1] = layer
    BY <1>7
  <2>a. 1 \in 1..1 /\ 1 - 1 = 0
    OBVIOUS
  <2>3. f[1] = f[0] \o <<op>>
    BY <1>6, <2>1, <2>2, <2>a
  <2>4. <<>> \o <<op>> = <<op>>
    OBVIOUS
  <2> QED
    BY <2>1, <2>2, <2>3, <2>4
<1>10. s \in ApplyOperation(<<>>, op)
  <2> DEFINE ops == Operations(LayersInOrder(p))
  <2>1. PICK f : /\ f[0] = {<<>>} /\ Compose(p) = f[Len(ops)]
                 /\ \A i \in 1..Len(ops) : f[i] = AppliedTo(f[i - 1], ops[i])
    BY <1>8, ComposeSteps
  <2>o. ops = <<op>>
    BY <1>9
  <2> HIDE DEF ops
  <2>2. Len(ops) = 1 /\ ops[1] = op /\ 1 \in 1..1 /\ 1 - 1 = 0
    BY <2>o
  <2>3. f[1] = AppliedTo({<<>>}, op)
    BY <2>1, <2>2
  <2>4. s \in AppliedTo({<<>>}, op)
    BY <1>1, <2>1, <2>2, <2>3
  <2> QED
    BY <2>4 DEF AppliedTo
<1>11. s = <<>> \o Catalogue
  BY <1>5, <1>10 DEF ApplyOperation
<1>12. <<>> \o Catalogue = Catalogue
  BY <1>3
<1> QED
  BY <1>11, <1>12

(* An entry of external risk is on only if somebody said so.               *)
LEMMA Consented ==
  ASSUME CompositionTypeOK, NEW id \in {"companion", "mailbox", "shell"}, BuiltinEntry(id).enabled
  PROVE  /\ \/ settings.plugin[id] = {TRUE} \/ FromEnvironment(id) = {TRUE}
            \/ FileValue(id) = {TRUE}
            \/ id = "mailbox" /\ FileValue("companion") = {TRUE}
         /\ settings.plugin[id] # {FALSE}
<1> DEFINE asked == settings.plugin[id]
           env == FromEnvironment(id)
           file == FileValue(id)
           ours == FileValue("companion")
<1>t. TRUE # FALSE /\ \A d : ValueOr({}, d) = d
  BY DEF ValueOr
<1>u. /\ \A d : ValueOr({TRUE}, d) = TRUE /\ ValueOr({FALSE}, d) = FALSE
      /\ {TRUE} # {} /\ {FALSE} # {} /\ {TRUE} # {FALSE}
  BY DEF ValueOr
<1>1. asked \in Options /\ file \in Options /\ ours \in Options
  BY DEF CompositionTypeOK, FileValue, Entries, Capabilities
<1>2. env \in Options /\ FromEnvironment("companion") \in Options
  <2>1. /\ \A v \in Variables : environment[v] \in Options
        /\ <<"companion", "next">> \in Variables /\ <<"companion", "legacy">> \in Variables
        /\ <<id, "next">> \in Variables
    BY DEF CompositionTypeOK, Variables, Capabilities
  <2> QED
    BY <2>1 DEF FromEnvironment, FirstOf, Options
<1>3. /\ UserToggleable(Manifest(id)) /\ DefaultEnabled(Manifest(id)) = FALSE
  BY DEF Manifest, UserToggleable, DefaultEnabled, DefaultEnablement
<1>4. ValueOr(FirstOf(asked, LegacyOverride(id)), FALSE)
  BY <1>3 DEF BuiltinEntry, ResolveSwitch
<1>l. LegacyOverride(id) \in Options
  <2>1. EffectiveSwitch(id) \in BOOLEAN
    <3>1. BaseSwitch(id) \in BOOLEAN
      BY <1>1, <1>t, <1>u DEF BaseSwitch, Options
    <3> QED
      BY <1>2, <1>t, <1>u, <3>1 DEF EffectiveSwitch, Options
  <2> QED
    BY <1>2, <2>1 DEF LegacyOverride, Options
<1>5. asked = {TRUE} \/ (asked = {} /\ LegacyOverride(id) = {TRUE})
  BY <1>1, <1>4, <1>l, <1>t, <1>u DEF FirstOf, Options
<1>6. ASSUME LegacyOverride(id) = {TRUE}, env # {TRUE}
      PROVE  file = {TRUE} \/ (id = "mailbox" /\ ours = {TRUE})
  <2>1. env = {}
    BY <1>2, <1>6, <1>u DEF LegacyOverride, Options
  <2>2. EffectiveSwitch(id) = BaseSwitch(id)
    BY <1>t, <2>1 DEF EffectiveSwitch
  <2>3. {EffectiveSwitch(id)} = {TRUE}
    BY <1>6, <2>1, <1>u DEF LegacyOverride
  <2>4. BaseSwitch(id) = TRUE
    BY <2>2, <2>3
  <2>5. CASE id = "mailbox"
    BY <1>1, <1>t, <1>u, <2>4, <2>5 DEF BaseSwitch, Options
  <2>6. CASE id # "mailbox"
    <3>1. BaseSwitch(id) = ValueOr(file, FALSE)
      BY <2>6 DEF BaseSwitch
    <3> QED
      BY <1>1, <1>t, <1>u, <2>4, <3>1 DEF Options
  <2> QED
    BY <2>5, <2>6
<1> QED
  BY <1>5, <1>6, <1>u

LEMMA StartIsConsented ==
  CompositionTypeOK /\ [CompositionNext]_compositionVars =>
    [ generation' # generation =>
        /\ \A i \in DOMAIN generation' :
             LET e == generation'[i] IN
             /\ e.enabled /\ Manifest(e.id).risk = "External" =>
                  /\ \/ settings.plugin[e.id] = {TRUE} \/ FromEnvironment(e.id) = {TRUE}
                     \/ FileValue(e.id) = {TRUE}
                     \/ e.id = "mailbox" /\ FileValue("companion") = {TRUE}
                  /\ settings.plugin[e.id] # {FALSE}
             /\ e.id = "model" => e.enabled
        /\ {generation'[i].id : i \in DOMAIN generation'} = Entries ]_compositionVars
<1> SUFFICES ASSUME CompositionTypeOK, CompositionNext, generation' # generation
             PROVE  /\ \A i \in DOMAIN generation' :
                         LET e == generation'[i] IN
                         /\ e.enabled /\ Manifest(e.id).risk = "External" =>
                              /\ \/ settings.plugin[e.id] = {TRUE} \/ FromEnvironment(e.id) = {TRUE}
                                 \/ FileValue(e.id) = {TRUE}
                                 \/ e.id = "mailbox" /\ FileValue("companion") = {TRUE}
                              /\ settings.plugin[e.id] # {FALSE}
                         /\ e.id = "model" => e.enabled
                    /\ {generation'[i].id : i \in DOMAIN generation'} = Entries
  BY DEF compositionVars
<1>1. StartHost
  BY DEF CompositionNext, AddBundle, SetProfileLayer, AddOverlay, Edit, MergeOverrides
<1>2. generation' = Inventory(Catalogue)
  BY <1>1, CatalogueIsBuilt DEF StartHost
<1> DEFINE ids == <<"model", "context", "companion", "mailbox", "shell">>
<1>3. DOMAIN Catalogue = 1..5 /\ \A i \in 1..5 : Catalogue[i] = BuiltinEntry(ids[i])
  BY DEF Catalogue
<1>4. /\ DOMAIN generation' = 1..5
      /\ \A i \in 1..5 : /\ generation'[i].id = ids[i]
                         /\ generation'[i].enabled = BuiltinEntry(ids[i]).enabled
  BY <1>2, <1>3 DEF Inventory, BuiltinEntry
<1>5. {generation'[i].id : i \in DOMAIN generation'} = Entries
  BY <1>4 DEF Entries, Capabilities
<1>6. ASSUME NEW i \in 1..5
      PROVE  /\ generation'[i].enabled /\ Manifest(ids[i]).risk = "External" =>
                  /\ \/ settings.plugin[ids[i]] = {TRUE} \/ FromEnvironment(ids[i]) = {TRUE}
                     \/ FileValue(ids[i]) = {TRUE}
                     \/ ids[i] = "mailbox" /\ FileValue("companion") = {TRUE}
                  /\ settings.plugin[ids[i]] # {FALSE}
             /\ ids[i] = "model" => generation'[i].enabled
  <2>1. BuiltinEntry("model").enabled
    BY DEF BuiltinEntry, UserToggleable, Manifest
  <2>2. ids[i] \in {"companion", "mailbox", "shell"} \/ Manifest(ids[i]).risk # "External"
    BY DEF Manifest
  <2>3. generation'[i].enabled = BuiltinEntry(ids[i]).enabled
    BY <1>4
  <2> HIDE DEF ids
  <2>4. ids[i] = "model" => generation'[i].enabled
    BY <2>1, <2>3
  <2> QED
    BY <2>2, <2>3, <2>4, Consented
<1>7. ASSUME NEW i \in DOMAIN generation'
      PROVE  LET e == generation'[i] IN
             /\ e.enabled /\ Manifest(e.id).risk = "External" =>
                  /\ \/ settings.plugin[e.id] = {TRUE} \/ FromEnvironment(e.id) = {TRUE}
                     \/ FileValue(e.id) = {TRUE}
                     \/ e.id = "mailbox" /\ FileValue("companion") = {TRUE}
                  /\ settings.plugin[e.id] # {FALSE}
             /\ e.id = "model" => e.enabled
  <2>1. i \in 1..5
    BY <1>4
  <2>2. generation'[i].id = ids[i]
    BY <2>1, <1>4
  <2> HIDE DEF ids
  <2> QED
    BY <2>1, <2>2, <1>6
<1> HIDE DEF ids
<1> QED
  BY <1>5, <1>7

LEMMA CompositionIsInvariant == CompositionSpec => []CompositionTypeOK
<1> QED
  BY CompositionInitInv, CompositionNextInv, PTL DEF CompositionSpec

(* For any layers and modules and any sequence of edits: a composed        *)
(* profile is what its last writers said, in the order of the layers, and  *)
(* what a Host starts with effects outside was asked for by the total      *)
(* switch, the environment or the settings.                                *)
THEOREM CompositionStaysSound == CompositionSpec => CompositionIsSound
<1>1. CompositionTypeOK => ComposeIsLastWriter
  BY LastWriterSpeaks
<1> QED
  BY <1>1, StartIsConsented, CompositionIsInvariant, PTL
    DEF CompositionSpec, CompositionIsSound, ConsentIsFollowed
=============================================================================
