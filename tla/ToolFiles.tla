------------------------------ MODULE ToolFiles ------------------------------
(***************************************************************************)
(* The Files plugin: a search for names under a granted workspace, and the *)
(* bounded view of a text file; one request is modelled, the plugin keeps  *)
(* nothing between two.  The search walks the directories one by one while *)
(* other programs may change them; links make the walk a graph.            *)
(*                                                                         *)
(* fileTree[d] is the sorted sequence of a directory's entries, [name,     *)
(* hidden, to]: to is the place the entry leads to, a directory, a file,   *)
(* one "outside" the workspace, or "broken".  Below[d] are the places whose *)
(* paths begin with that of the directory d, d among them; all directories *)
(* lie in the workspace.  A text is a sequence of bytes: "a" is a          *)
(* character, "h" followed by "t" another one, "x" neither.                *)
(***************************************************************************)
EXTENDS Naturals, Sequences, FiniteSets

CONSTANTS
  FileTrees,            \* directory trees: [directories -> entries]
  FileTexts,            \* contents of files
  Below,                \* [directories -> the places below]
  MAX_SEARCH_ENTRIES, MAX_SEARCH_DEPTH, MAX_READ_BYTES

FileEntries == [name : STRING, hidden : BOOLEAN, to : STRING]

(* A link that leads nowhere leads to no place below a directory.          *)
ASSUME FilesAssumption ==
  /\ \A tree \in FileTrees :
       /\ DOMAIN tree \subseteq STRING
       /\ \A d \in DOMAIN tree : /\ tree[d] \in Seq(FileEntries)
                                 /\ d \in Below[d] /\ "broken" \notin Below[d]
  /\ FileTexts \subseteq Seq(STRING)
  /\ {MAX_SEARCH_ENTRIES, MAX_SEARCH_DEPTH, MAX_READ_BYTES} \subseteq Nat

VARIABLES
  fileTree,     \* what the disk holds
  fileSearch,   \* the search in progress
  fileView      \* the last file view

fileVars == <<fileTree, fileSearch, fileView>>

Directories == DOMAIN fileTree
NoSearch == [at |-> "idle", root |-> "none", query |-> "none", max |-> 0,
             stack |-> <<>>, visited |-> {},
             matches |-> <<>>, inspected |-> 0, truncated |-> FALSE,
             changed |-> FALSE, deep |-> FALSE]
NoView == [code |-> "none", text |-> <<>>, bytes |-> <<>>, max |-> 0, truncated |-> FALSE]

FilesInit ==
  /\ fileTree \in FileTrees
  /\ fileSearch = NoSearch
  /\ fileView = NoView

(* search_files up to its loop: the grant and the limits, and a directory  *)
(* to begin with that is inside the workspace.                             *)
SearchBegins(granted, query, max, from) ==
  /\ fileSearch = NoSearch
  /\ fileView = NoView
  /\ fileSearch' =
       IF ~granted \/ query = "" \/ max = 0 \/ from \notin Directories
         THEN [NoSearch EXCEPT !.at = "refused"]
         ELSE [NoSearch EXCEPT !.at = "walking", !.root = from, !.query = query,
                               !.max = max, !.stack = << <<from, 0>> >>]
  /\ UNCHANGED <<fileTree, fileView>>

(* One entry of a directory that is walked at a depth: the walk stops at   *)
(* the limits, skips hidden names, broken links and what leads out of the  *)
(* directory the search began in.                                          *)
Inspects(s, e, depth) ==
  LET counted == [s EXCEPT !.inspected = @ + 1]
      hit == [counted EXCEPT !.matches = Append(@, e.to)]
      noted == IF e.name = s.query THEN hit ELSE counted
      directory == e.to \in Directories
  IN IF s.truncated THEN s
     ELSE IF counted.inspected > MAX_SEARCH_ENTRIES THEN [counted EXCEPT !.truncated = TRUE]
     ELSE IF e.hidden \/ e.to \notin Below[s.root] THEN counted
     ELSE IF Len(noted.matches) >= s.max /\ noted # counted
       THEN [noted EXCEPT !.truncated = TRUE]
     ELSE IF directory /\ depth < MAX_SEARCH_DEPTH
       THEN [noted EXCEPT !.stack = Append(@, <<e.to, depth + 1>>)]
     ELSE [noted EXCEPT !.deep = @ \/ directory]

Walks(s, entries, depth) ==
  LET after[n \in 0..Len(entries)] ==
        IF n = 0 THEN s ELSE Inspects(after[n - 1], entries[n], depth)
  IN after[Len(entries)]

OneDirectory(s, d, depth) ==
  IF d \in s.visited \/ d \notin Below[s.root] THEN s
  ELSE Walks([s EXCEPT !.visited = @ \cup {d}], fileTree[d], depth)

(* One round of the loop.  A directory that is gone ends the search with   *)
(* an error.                                                               *)
SearchSteps ==
  /\ fileSearch.at = "walking"
  /\ fileSearch.stack # <<>>
  /\ ~fileSearch.truncated
  /\ LET top == fileSearch.stack[Len(fileSearch.stack)]
         popped == [fileSearch EXCEPT !.stack = SubSeq(@, 1, Len(@) - 1)]
     IN fileSearch' = IF top[1] \in Directories THEN OneDirectory(popped, top[1], top[2])
                      ELSE [popped EXCEPT !.at = "failed"]
  /\ UNCHANGED <<fileTree, fileView>>

SearchReturns ==
  /\ fileSearch.at = "walking"
  /\ fileSearch.stack = <<>> \/ fileSearch.truncated
  /\ fileSearch' = [fileSearch EXCEPT !.at = "returned"]
  /\ UNCHANGED <<fileTree, fileView>>

(* Another program changes the workspace once during a search. *)
FilesChange(tree) ==
  /\ fileSearch.at = "walking"
  /\ ~fileSearch.changed
  /\ fileTree # tree
  /\ fileTree' = tree
  /\ fileSearch' = [fileSearch EXCEPT !.changed = TRUE]
  /\ UNCHANGED fileView

----------------------------------------------------------------------------
(* read_file: at most max + 1 bytes are read, cut to max and decoded.      *)
IsUtf8(bytes) == \A i \in DOMAIN bytes :
  /\ bytes[i] # "x"
  /\ bytes[i] = "h" => i < Len(bytes) /\ bytes[i + 1] = "t"
  /\ bytes[i] = "t" => i > 1 /\ bytes[i - 1] = "h"

Prefix(bytes, n) == SubSeq(bytes, 1, IF n < Len(bytes) THEN n ELSE Len(bytes))

\* Mutation: exactly as many bytes as are wanted are read.
ReadsExactly(bytes, max) == Prefix(bytes, max)

ReadsOneMore(bytes, max) == Prefix(bytes, max + 1)

Refused(code) == [NoView EXCEPT !.code = code]

ReadFile(granted, bytes, inside, max) ==
  /\ fileView = NoView
  /\ fileSearch = NoSearch
  /\ fileView' =
       IF ~granted THEN Refused("read_not_granted")
       ELSE IF max = 0 \/ max > MAX_READ_BYTES THEN Refused("invalid_file_limit")
       ELSE IF ~inside THEN Refused("outside_workspace")
       ELSE LET got == ReadsOneMore(bytes, max)
                shown == Prefix(got, max)
            IN [code |-> IF IsUtf8(shown) THEN "ok" ELSE "file_not_utf8",
                text |-> shown, bytes |-> bytes, max |-> max, truncated |-> Len(got) > max]
  /\ UNCHANGED <<fileTree, fileSearch>>

FilesNext ==
  \/ \E granted \in BOOLEAN, query \in {"", "n"}, max \in 0..3,
        from \in Directories \cup {"outside"} : SearchBegins(granted, query, max, from)
  \/ SearchSteps \/ SearchReturns
  \/ \E tree \in FileTrees : FilesChange(tree)
  \/ \E granted, inside \in BOOLEAN, bytes \in FileTexts, max \in 0..(MAX_READ_BYTES + 1) :
       ReadFile(granted, bytes, inside, max)

----------------------------------------------------------------------------
(* The directories a visible path leads to, in a tree without the walk:    *)
(* the least set of directories below the first one that visible entries   *)
(* do not lead out of.                                                     *)
IsClosed(tree, S, inner) == \A c \in S : \A i \in DOMAIN tree[c] :
  ~tree[c][i].hidden /\ tree[c][i].to \in inner => tree[c][i].to \in S

Reached(tree, from) ==
  LET inner == DOMAIN tree \cap Below[from]
  IN {d \in inner : \A S \in SUBSET inner : from \in S /\ IsClosed(tree, S, inner) => d \in S}

Hits(tree, d, s) == {tree[d][i].to : i \in {j \in DOMAIN tree[d] :
  tree[d][j].name = s.query /\ ~tree[d][j].hidden /\ tree[d][j].to \in Below[s.root]}}

Targets(tree, s) == UNION {Hits(tree, d, s) : d \in s.visited}

EntriesOf(tree, dirs) == UNION {{d} \X DOMAIN tree[d] : d \in dirs}

(* A search never reports more than was asked for, and what lies outside   *)
(* its directory never, whatever links lead there and whatever changes in  *)
(* between; every directory is walked at most once; and when it says that  *)
(* nothing was cut off, nothing changed and no directory was too deep, it  *)
(* has found every visible entry of that name that can be reached.  A view *)
(* is the longest beginning of the file within the limit, is marked        *)
(* truncated exactly when something is missing, and is refused as binary   *)
(* only when the file is, or the limit cuts a character in two.            *)
FilesAreFoundInside ==
  /\ LET s == fileSearch IN
     /\ Len(s.matches) <= s.max
     /\ \A i \in DOMAIN s.matches : s.matches[i] \in Below[s.root]
     /\ s.inspected <= MAX_SEARCH_ENTRIES + 1
     /\ s.at = "returned" /\ ~s.changed =>
          /\ s.visited \subseteq Directories
          /\ ~s.truncated => s.inspected = Cardinality(EntriesOf(fileTree, s.visited))
          /\ ~s.truncated /\ ~s.deep =>
               /\ s.visited = Reached(fileTree, s.root)
               /\ {s.matches[i] : i \in DOMAIN s.matches} = Targets(fileTree, s)
  /\ LET v == fileView IN
     /\ v.code = "ok" => /\ v.text = Prefix(v.bytes, v.max)
                         /\ v.truncated <=> v.text # v.bytes
     /\ v.code = "file_not_utf8" =>
          ~IsUtf8(v.bytes) \/ (v.max < Len(v.bytes) /\ v.bytes[v.max] = "h")
=============================================================================
