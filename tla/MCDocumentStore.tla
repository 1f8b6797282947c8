-------------------------- MODULE MCDocumentStore ---------------------------
(***************************************************************************)
(* One document of each kind of store, four saves, any number of crashes.  *)
(* Document is infinite: the abstract BeginSave is checked over the        *)
(* documents that four saves can make.                                     *)
(***************************************************************************)
EXTENDS DocumentStore
=============================================================================
