--------------------------------- MODULE Vfs ---------------------------------
(***************************************************************************)
(* The in-memory file system of src/src/vfs.rs and the shell commands that  *)
(* use it.  A directory owns a vector of children, searched from the front; *)
(* the current directory is a string that nothing ties to the tree.         *)
(*                                                                          *)
(* Only the shell task calls these functions and no handler does, so a      *)
(* command is one action.  A path string is the sequence of its segments    *)
(* and whether it starts with a slash; the segments "" and ".", which       *)
(* resolve_path skips, are left out, and so are UTF-8 and the heap's limit.  *)
(***************************************************************************)
EXTENDS Integers, Sequences, SequencesExt, FiniteSetsExt

CONSTANTS
  Names,      (* file names                                                  *)
  Contents,   (* what a file may hold; touch writes "empty", no bytes        *)
  MAX_NODES,  (* bound: nodes of the tree at any time                        *)
  MAX_DEPTH,  (* bound: segments of a resolved path                          *)
  MAX_SEGS    (* bound: segments the user types                              *)

ASSUME VfsAssumption ==
  /\ {"bin", "init"} \subseteq Names /\ ".." \notin Names
  /\ {"empty", "sh"} \subseteq Contents /\ Contents \cap {"dir", "none"} = {}
  /\ MAX_NODES \in Nat /\ MAX_NODES >= 3
  /\ MAX_DEPTH \in Nat /\ MAX_DEPTH >= 2
  /\ MAX_SEGS \in Nat

VARIABLES
  nodes,    (* node -> its name and its content, "dir" for a directory       *)
  kids,     (* node -> its children, in the order of the vector              *)
  cwd,      (* CURRENT_DIR                                                   *)
  request,  (* history of the last command, its path resolved                *)
  answer    (* and of whether it succeeded                                   *)

vars == <<nodes, kids, cwd, request, answer>>

Ids    == 0 .. MAX_NODES - 1
Root   == 0
NoNode == -1
(* What read_file and list_directory answer when they fail.                  *)
None   == "none"
Unused == [name |-> None, content |-> None]
Node(name, content) == [name |-> name, content |-> content]

SeqsUpTo(S, n) == UNION {[1 .. k -> S] : k \in 0 .. n}
Paths  == SeqsUpTo(Names, MAX_DEPTH)
Inputs == [absolute : BOOLEAN, segs : SeqsUpTo(Names \cup {".."}, MAX_SEGS)]

(* The default tree after everything but /bin and /bin/init was removed.     *)
Init ==
  /\ nodes = [id \in Ids |-> CASE id = Root -> Node("/", "dir")
                               [] id = 1    -> Node("bin", "dir")
                               [] id = 2    -> Node("init", "sh")
                               [] OTHER     -> Unused]
  /\ kids = [id \in Ids |-> IF id \in {Root, 1} THEN <<id + 1>> ELSE <<>>]
  /\ cwd = <<>>
  /\ request = [cmd |-> None, path |-> <<>>, data |-> "empty"]
  /\ answer = FALSE

-----------------------------------------------------------------------------
(* Lookup.                                                                   *)

IsDir(id)  == id # NoNode /\ nodes[id].content = "dir"
IsFile(id) == id # NoNode /\ nodes[id].content # "dir"

(* The places of the children with this name, and the first such child.      *)
Hits(dir, name) == {k \in DOMAIN kids[dir] : nodes[kids[dir][k]].name = name}
ChildNamed(dir, name) ==
  IF Hits(dir, name) = {} THEN NoNode ELSE kids[dir][Min(Hits(dir, name))]

(* Mutation: the first directory with this name.                             *)
SubdirNamed(dir, name) ==
  LET hits == {k \in DOMAIN kids[dir] : nodes[kids[dir][k]] = Node(name, "dir")}
  IN  IF hits = {} THEN NoNode ELSE kids[dir][Min(hits)]

Step(id, name) == IF IsDir(id) THEN ChildNamed(id, name) ELSE NoNode

(* find_node_mut.                                                            *)
FindFrom(id, path) ==
  LET at[k \in 0 .. Len(path)] == IF k = 0 THEN id ELSE Step(at[k - 1], path[k])
  IN  at[Len(path)]
Find(path) == FindFrom(Root, path)

(* Mutation: ".." does not go up.                                             *)
ResolveIgnoringDotDot(input) ==
  FoldLeft(LAMBDA parts, s : IF s = ".." THEN parts ELSE Append(parts, s),
           <<>>, (IF input.absolute THEN <<>> ELSE cwd) \o input.segs)

(* resolve_path: ".." removes the segment before it, whatever the tree holds. *)
Resolve(input) ==
  FoldLeft(LAMBDA parts, s : IF s # ".." THEN Append(parts, s)
                             ELSE IF parts = <<>> THEN parts ELSE Front(parts),
           <<>>, (IF input.absolute THEN <<>> ELSE cwd) \o input.segs)

(* The reading commands, which change nothing: cat, and ls and tree; None is  *)
(* the answer when they fail.                                                 *)
ReadFile(p) == IF IsFile(Find(p)) THEN nodes[Find(p)].content ELSE None

ListDirectory(p) ==
  IF ~ IsDir(Find(p)) THEN <<None>>
  ELSE [k \in DOMAIN kids[Find(p)] |->
          LET id == kids[Find(p)][k] IN <<nodes[id].name, IsDir(id)>>]

-----------------------------------------------------------------------------
(* The commands.                                                             *)

Answer(name, p, data, result) ==
  /\ request' = [cmd |-> name, path |-> p, data |-> data]
  /\ answer'  = result

Refuse(name, p, data) ==
  /\ Answer(name, p, data, FALSE)
  /\ UNCHANGED <<nodes, kids, cwd>>

(* The directory a new or an old entry p belongs to, if there is one.        *)
Parent(p) == IF p = <<>> THEN NoNode ELSE Find(Front(p))

(* Mutation: the shell enters whatever path it is given.                      *)
EnterUnchecked(p) ==
  Answer("cd", p, "empty", TRUE) /\ cwd' = p /\ UNCHANGED <<nodes, kids>>

ChangeDirectory(p) ==
  IF p = <<>> \/ IsDir(Find(p))
  THEN Answer("cd", p, "empty", TRUE) /\ cwd' = p /\ UNCHANGED <<nodes, kids>>
  ELSE Refuse("cd", p, "empty")

(* children.push(...)                                                        *)
Push(dir, node) ==
  \E id \in {id \in Ids : nodes[id] = Unused /\ \A i \in Ids : nodes[i] = Unused => id <= i} :
    /\ nodes' = [nodes EXCEPT ![id] = node]
    /\ kids'  = [kids EXCEPT ![dir] = Append(@, id)]

(* Mutation: a directory of that name is overwritten like a file.             *)
WriteFileOverDirectory(p, data) ==
  LET child == ChildNamed(Parent(p), Last(p))
  IN  IF ~ IsDir(Parent(p)) THEN Refuse("write", p, data)
      ELSE /\ IF child # NoNode
              THEN nodes' = [nodes EXCEPT ![child].content = data] /\ UNCHANGED kids
              ELSE Push(Parent(p), Node(Last(p), data))
           /\ Answer("write", p, data, TRUE)
           /\ UNCHANGED cwd

WriteFile(p, data) ==
  LET child == ChildNamed(Parent(p), Last(p))
  IN  IF ~ IsDir(Parent(p)) THEN Refuse("write", p, data)
      ELSE IF IsDir(child)  THEN Refuse("write", p, data)
      ELSE /\ IF child # NoNode
              THEN nodes' = [nodes EXCEPT ![child].content = data] /\ UNCHANGED kids
              ELSE Push(Parent(p), Node(Last(p), data))
           /\ Answer("write", p, data, TRUE)
           /\ UNCHANGED cwd

(* Mutation: an existing file does not stand in the way of a directory.      *)
MakeDirNextToFile(p) ==
  IF ~ IsDir(Parent(p)) \/ SubdirNamed(Parent(p), Last(p)) # NoNode
  THEN Refuse("mkdir", p, "empty")
  ELSE /\ Push(Parent(p), Node(Last(p), "dir"))
       /\ Answer("mkdir", p, "empty", TRUE)
       /\ UNCHANGED cwd

MakeDir(p) ==
  IF ~ IsDir(Parent(p)) \/ ChildNamed(Parent(p), Last(p)) # NoNode
  THEN Refuse("mkdir", p, "empty")
  ELSE /\ Push(Parent(p), Node(Last(p), "dir"))
       /\ Answer("mkdir", p, "empty", TRUE)
       /\ UNCHANGED cwd

(* Dropping a node drops what it owns.                                       *)
Subtree(id) == {FindFrom(id, p) : p \in Paths} \ {NoNode}

(* children.remove(k)                                                        *)
Drop(dir, k) ==
  LET gone == Subtree(kids[dir][k])
  IN  /\ nodes' = [i \in Ids |-> IF i \in gone THEN Unused ELSE nodes[i]]
      /\ kids'  = [i \in Ids |-> IF i \in gone THEN <<>>
                                 ELSE IF i = dir THEN RemoveAt(kids[i], k) ELSE kids[i]]

RemoveNode(p) ==
  LET hits == Hits(Parent(p), Last(p))
  IN  IF ~ IsDir(Parent(p)) \/ hits = {}
      THEN Refuse("rm", p, "empty")
      ELSE Drop(Parent(p), Min(hits)) /\ Answer("rm", p, "empty", TRUE) /\ UNCHANGED cwd

HasRoom == \E id \in Ids : nodes[id] = Unused

Next ==
  \E p \in {Resolve(i) : i \in Inputs} \cap Paths :
    \/ ChangeDirectory(p)
    \/ HasRoom /\ \E data \in Contents : WriteFile(p, data)
    \/ HasRoom /\ MakeDir(p)
    \/ RemoveNode(p)

Spec == Init /\ [][Next]_vars

-----------------------------------------------------------------------------
TypeOK ==
  /\ \A id \in Ids : /\ nodes[id].content \in Contents \cup {"dir", None}
                     /\ \A k \in DOMAIN kids[id] : kids[id][k] \in Ids
                     /\ kids[id] # <<>> => IsDir(id)
  /\ cwd \in Paths

(* Walking the tree segment by segment, ".." going to the directory one came *)
(* from, is what a user of a live current directory expects of a path.       *)
Lost == <<"..">>
Walk(input) ==
  FoldLeft(LAMBDA p, s : IF p = Lost \/ ~ IsDir(Find(p)) THEN Lost
                         ELSE IF s # ".." THEN Append(p, s)
                         ELSE IF p = <<>> THEN p ELSE Front(p),
           IF input.absolute THEN <<>> ELSE cwd, input.segs)

(* resolve_path never looks at the tree, yet every walk that succeeds ends    *)
(* where it says: a command acts on the node the user named.                 *)
ResolveIsWalk == \A i \in Inputs : Walk(i) # Lost => Walk(i) = Resolve(i)

(* The current directory may vanish, but only by an rm of itself or of one   *)
(* of its ancestors: no other command leaves it dangling.                    *)
CwdLive == IsDir(Find(cwd))
CwdLostByRemove ==
  [][CwdLive /\ ~ CwdLive' => request'.cmd = "rm" /\ IsPrefix(request'.path, cwd)]_vars

TreeView == [p \in {p \in Paths : Find(p) # NoNode} |-> nodes[Find(p)].content]

Tree == INSTANCE FileTree WITH tree <- TreeView

(* What ls and cat show is what the tree of paths holds: a listing names      *)
(* every entry once and hides none, and a read sees the last write.           *)
ReadersAgree ==
  \A p \in Paths : /\ IF Tree!IsFile(p) THEN ReadFile(p) = TreeView[p] ELSE ReadFile(p) = None
                   /\ Tree!IsDir(p) => Tree!IsListing(p, ListDirectory(p))

(* The vectors implement the tree of paths: every command succeeds, fails    *)
(* and changes the tree as FileTree says.                                    *)
ImplementsFileTree == Tree!Spec
=============================================================================
