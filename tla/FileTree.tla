------------------------------ MODULE FileTree ------------------------------
(***************************************************************************)
(* What the file commands of the shell promise: a set of paths, each a      *)
(* directory or a file with its content, closed under parents.  How nodes   *)
(* are stored, looked up and ordered is not said.                           *)
(***************************************************************************)
EXTENDS Naturals, Sequences, SequencesExt

CONSTANTS
  Paths,      (* the absolute paths in use, sequences of names               *)
  Contents    (* what a file may hold                                        *)

VARIABLES
  tree,       (* path -> "dir" or the file's content                         *)
  cwd,        (* the current directory                                       *)
  request,    (* the command last given: its name, its absolute path, data   *)
  answer      (* whether it succeeded                                        *)

treeVars == <<tree, cwd, request, answer>>

IsDir(p)    == p \in DOMAIN tree /\ tree[p] = "dir"
IsFile(p)   == p \in DOMAIN tree /\ tree[p] # "dir"
HasPlace(p) == p # <<>> /\ IsDir(Front(p))

Init ==
  /\ IsDir(<<>>)
  /\ \A p \in DOMAIN tree : p # <<>> => IsDir(Front(p))
  /\ cwd = <<>>

(* Either the command is possible and has its effect, or it fails and         *)
(* changes nothing.                                                          *)
Command(name, p, data, possible, effect) ==
  /\ request' = [cmd |-> name, path |-> p, data |-> data]
  /\ answer' = possible
  /\ IF possible THEN effect ELSE UNCHANGED <<tree, cwd>>

With(p, entry) == [q \in DOMAIN tree \cup {p} |-> IF q = p THEN entry ELSE tree[q]]
Without(p)     == [q \in {q \in DOMAIN tree : ~ IsPrefix(p, q)} |-> tree[q]]

(* What ls shows of a directory: each of its entries once, in some order.    *)
Entries(p) == {<<Last(q), IsDir(q)>> : q \in {q \in DOMAIN tree : q # <<>> /\ Front(q) = p}}
IsListing(p, list) == ToSet(list) = Entries(p) /\ IsInjective(list)

ChangeDirectory(p) ==
  Command("cd", p, "empty", IsDir(p), cwd' = p /\ UNCHANGED tree)

WriteFile(p, data) ==
  Command("write", p, data, HasPlace(p) /\ ~ IsDir(p),
          tree' = With(p, data) /\ UNCHANGED cwd)

MakeDir(p) ==
  Command("mkdir", p, "empty", HasPlace(p) /\ p \notin DOMAIN tree,
          tree' = With(p, "dir") /\ UNCHANGED cwd)

RemoveNode(p) ==
  Command("rm", p, "empty", p # <<>> /\ p \in DOMAIN tree,
          tree' = Without(p) /\ UNCHANGED cwd)

Next ==
  \E p \in Paths :
    \/ ChangeDirectory(p)
    \/ \E data \in Contents : WriteFile(p, data)
    \/ MakeDir(p)
    \/ RemoveNode(p)

Spec == Init /\ [][Next]_treeVars
=============================================================================
