--------------------------- MODULE AtomicDocument ---------------------------
(***************************************************************************)
(* What the document stores promise a reader ("atomic persistence",        *)
(* "crash-recoverable replacement"): there is always one current document, *)
(* it changes in a single step, and only to a document that a writer is    *)
(* saving at that moment.  A save may also be dropped, by an error or by a *)
(* crash; the current document is then what it was.                        *)
(***************************************************************************)
EXTENDS Naturals

CONSTANTS Writers,   \* the processes that save the document
          Nothing,   \* no document
          Documents  \* the documents, with their revisions

VARIABLES current,   \* the document a reader finds
          saving     \* saving[w]: the document w is saving, or Nothing

atomicVars == <<current, saving>>

AtomicInit ==
  /\ current = Nothing
  /\ saving = [w \in Writers |-> Nothing]

(* A save begins from the current document: its revision is the next one. *)
BeginSave(w) ==
  /\ saving[w] = Nothing
  /\ \E d \in Documents :
       /\ d.rev = current.rev + 1
       /\ saving' = [saving EXCEPT ![w] = d]
  /\ UNCHANGED current

TakeEffect(w) ==
  /\ saving[w] # Nothing
  /\ current' = saving[w]
  /\ saving' = [saving EXCEPT ![w] = Nothing]

DropSave(w) ==
  /\ saving[w] # Nothing
  /\ saving' = [saving EXCEPT ![w] = Nothing]
  /\ UNCHANGED current

AtomicNext == \E w \in Writers : BeginSave(w) \/ TakeEffect(w) \/ DropSave(w)

AtomicSpec == AtomicInit /\ [][AtomicNext]_atomicVars
=============================================================================
