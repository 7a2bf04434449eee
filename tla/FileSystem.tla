----------------------------- MODULE FileSystem -----------------------------
(***************************************************************************)
(* The virtual file system (fs.c): the tree that load_tarfs builds at boot *)
(* from the archive in the kernel image, path lookup, unlink, and the one  *)
(* table of descriptors that all processes share.                          *)
(*                                                                         *)
(* A path is the sequence of its components below /rootfs/; those in       *)
(* DirNames end in a slash.  System calls run with interrupts off, so each *)
(* is one step, and those of several processes come in any order.  The     *)
(* programs are well behaved: they open directories as directories, use    *)
(* what they opened, close it once, or end without closing it.  What       *)
(* happens after the kernel has used memory outside its structures is left *)
(* open (wild).                                                            *)
(***************************************************************************)
EXTENDS Integers, Sequences, SequencesExt, FiniteSets

CONSTANTS
  Archives,    \* sequences of headers: [path, size]
  DirNames,    \* components that name a directory
  Procs,
  N,           \* slots of file_descriptors (25 in the code)
  Requests,    \* sizes asked for in a read
  MaxCalls     \* bound: system calls

ASSUME ArchivesAssumption ==
  Archives \subseteq Seq([path : Seq(STRING), size : Nat])
ASSUME NAssumption == N \in Nat /\ N > 3
ASSUME RequestsAssumption == Requests \subseteq Nat \ {0}
ASSUME MaxCallsAssumption == MaxCalls \in Nat

VARIABLES
  archive, at,     \* the archive and the header load_tarfs is at
  inode,           \* inodes in the order of their creation; 1 is rootfs/
  slot,            \* file_descriptors
  fd, stream,      \* what each process has open: a file, a directory
  calls,
  wild,            \* the kernel has followed a pointer outside its data
  gone,            \* paths unlinked (history)
  strayed,         \* a path that is not there has been unlinked (history)
  mixed,           \* a stream without entries has been closed (history)
  lost             \* slots whose holder can no longer close them (history)

history == <<gone, strayed, mixed, lost>>
boot == <<archive, at>>
vars == <<archive, at, inode, slot, fd, stream, calls, wild, gone, strayed,
          mixed, lost>>

None == -1
NULL == [kind |-> "null"]
Std == [kind |-> "std"]
Slots == 0..(N - 1)
NoFile == [fd |-> None]
NoStream == [fd |-> None]
IsDir(path) == IF path = <<>> THEN TRUE ELSE Last(path) \in DirNames

(* The archive is made from a directory: only directories have anything    *)
(* below them, a name is not empty, and there is one header for a file.    *)
ASSUME HeadersAssumption ==
  \A a \in Archives : \A h \in DOMAIN a :
    LET path == a[h].path
    IN  /\ \A l \in DOMAIN path :
             path[l] # "" /\ (l < Len(path) => path[l] \in DirNames)
        /\ ~IsDir(path) => \A g \in DOMAIN a : a[g].path = path => g = h

-----------------------------------------------------------------------------
(* The tree.  A list holds the tnodes by value, each with a pointer to its *)
(* inode.  nfiles is num_sub_files, which can fall below 0, and list tells *)
(* whether sub_files_list is set.                                          *)
DirNode == [dir |-> TRUE, dirs |-> <<>>, files |-> <<>>, nfiles |-> 0,
            list |-> FALSE, header |-> 0]
FileNode(h) == [DirNode EXCEPT !.dir = FALSE, !.header = h]
Named(list, name) == {k \in DOMAIN list : list[k].name = name}
Lowest(S) == CHOOSE k \in S : \A j \in S : k <= j

(* Faulty: a directory is entered under the last one that was created.     *)
EnterLast(t, name) ==
  LET new == [name |-> name, inode |-> Len(t.inode) + 1]
  IN  [inode |-> Append([t.inode EXCEPT ![Len(t.inode)].dirs =
                           Append(@, new)], DirNode),
       active |-> Len(t.inode) + 1]

(* folder_exist: a directory is entered, after it has been created if it   *)
(* is not there.                                                           *)
EnterDir(t, name) ==
  LET found == Named(t.inode[t.active].dirs, name)
      new == [name |-> name, inode |-> Len(t.inode) + 1]
  IN  IF found # {}
      THEN [t EXCEPT !.active = t.inode[t.active].dirs[Lowest(found)].inode]
      ELSE [inode |-> Append([t.inode EXCEPT ![t.active].dirs =
                                Append(@, new)], DirNode),
            active |-> Len(t.inode) + 1]

(* file_exist compares pointers and never finds anything: a file is always *)
(* created.                                                                *)
AddFile(t, name, h) ==
  LET new == [name |-> name, inode |-> Len(t.inode) + 1]
  IN  [inode |-> Append([t.inode EXCEPT ![t.active].files = Append(@, new),
                                        ![t.active].nfiles = @ + 1,
                                        ![t.active].list = TRUE],
                        FileNode(h)),
       active |-> Len(t.inode) + 1]

Step(t, name, h) ==
  IF name \in DirNames THEN EnterDir(t, name) ELSE AddFile(t, name, h)

(* One turn of the loop of load_tarfs.                                     *)
load_tarfs ==
  /\ at <= Len(archive)
  /\ LET path == archive[at].path
         t[l \in 0..Len(path)] ==
           IF l = 0 THEN [inode |-> inode, active |-> 1]
           ELSE Step(t[l - 1], path[l], at)
     IN  inode' = t[Len(path)].inode
  /\ at' = at + 1
  /\ UNCHANGED <<archive, slot, fd, stream, calls, wild, history>>

Visible(i) == SubSeq(inode[i].files, 1, inode[i].nfiles)
Children(i) == inode[i].dirs \o Visible(i)

(* find_file_from_root: depth first, directories before files, the first   *)
(* node at the full depth wins.  0 is NULL.                                *)
find_file(path) ==
  LET found[l \in 0..Len(path)] ==
        [i \in 1..Len(inode) |->
           IF l = Len(path) THEN i
           ELSE LET hits == {k \in Named(Children(i), path[l + 1]) :
                               found[l + 1][Children(i)[k].inode] # 0}
                IN  IF hits = {} THEN 0
                    ELSE found[l + 1][Children(i)[Lowest(hits)].inode]]
  IN  found[0][1]

Headers == {archive[h].path : h \in DOMAIN archive}

(* Paths that calls are made with: those of the archive, and others.       *)
Paths ==
  Headers \cup {Front(path) : path \in Headers}
          \cup {<<"none">>, <<"none/">>, <<"none/", "none">>}
-----------------------------------------------------------------------------
Init ==
  /\ archive \in Archives
  /\ at = 1
  /\ inode = <<DirNode>>
  /\ slot = [i \in Slots |-> IF i < 3 THEN Std ELSE NULL]
  /\ fd = [p \in Procs |-> NoFile]
  /\ stream = [p \in Procs |-> NoStream]
  /\ calls = 0
  /\ wild = FALSE
  /\ gone = {}
  /\ strayed = FALSE
  /\ mixed = FALSE
  /\ lost = {}

Call ==
  /\ at > Len(archive)
  /\ ~wild
  /\ calls < MaxCalls
  /\ calls' = calls + 1
  /\ UNCHANGED boot

Goes(bad) == wild' = bad /\ UNCHANGED <<inode, slot, fd, stream, history>>

(* Faulty: every search starts at the first slot.                          *)
FreeFromFirst(from) == {i \in Slots : slot[i] = NULL}

Free(from) == {i \in from..(N - 1) : slot[i] = NULL}

(* sys_open: do_fopen copies the node it finds before it looks for a slot; *)
(* a copy that gets no slot is lost, and so is every copy once it is       *)
(* closed.                                                                 *)
sys_open(p, path) ==
  LET i == find_file(path)
      s == Lowest(Free(3))
  IN  /\ Call
      /\ fd[p] = NoFile
      /\ i # 0 /\ Free(3) # {}
      /\ slot' = [slot EXCEPT ![s] =
                    [kind |-> "copy", inode |-> i, off |-> 0]]
      /\ fd' = [fd EXCEPT ![p] = [fd |-> s, inode |-> i]]
      /\ UNCHANGED <<inode, stream, wild, history>>

(* Returns -1: not found, or no slot.                                      *)
OpenFails(p, path) ==
  /\ Call
  /\ fd[p] = NoFile
  /\ find_file(path) = 0 \/ Free(3) = {}
  /\ Goes(FALSE)

(* Faulty: the test for the end lets a reader pass that is at the end.     *)
AtEndAllowed(off, size) == off > size

AtEnd(off, size) == off >= size

(* read_vfs: only a request longer than the whole file is cut to what is   *)
(* left.                                                                   *)
Advance(off, size, n) ==
  IF AtEnd(off, size) THEN 0 ELSE IF n > size THEN size - off ELSE n

SizeOf(i) == archive[inode[i].header].size

(* The slot may have been given to another since (see sys_closedir).  For  *)
(* directories read is not set: 0 in memory not used before.               *)
sys_read(p, n) ==
  /\ Call
  /\ fd[p] # NoFile
  /\ LET s == slot[fd[p].fd]
     IN  \/ s.kind = "null" /\ Goes(TRUE)
         \/ s.kind # "null" /\ inode[s.inode].dir /\ Goes(FALSE)
         \/ /\ s.kind = "copy" /\ ~inode[s.inode].dir
            /\ slot' = [slot EXCEPT ![fd[p].fd].off =
                          @ + Advance(@, SizeOf(s.inode), n)]
            /\ UNCHANGED <<inode, fd, stream, wild, history>>

(* Faulty: the slot keeps the copy.                                        *)
NotCleared(i) == slot

Cleared(i) == [slot EXCEPT ![i] = NULL]

(* sys_close does not ask who holds the slot.                              *)
sys_close(p) ==
  /\ Call
  /\ fd[p] # NoFile
  /\ slot' = Cleared(fd[p].fd)
  /\ fd' = [fd EXCEPT ![p] = NoFile]
  /\ UNCHANGED <<inode, stream, wild, history>>
-----------------------------------------------------------------------------
Total(i) == Len(inode[i].dirs) + inode[i].nfiles

(* do_opendir: the slot gets the node of the tree, and the names are copied *)
(* to the heap of the caller.  A stream without entries has no place for   *)
(* its descriptor: what is read from there later is whatever the heap      *)
(* holds behind the block, any g.                                          *)
sys_opendir(p, path, g) ==
  LET i == find_file(path)
      s == Lowest(Free(0))
      f == IF Total(i) > 0 THEN s ELSE g
  IN  /\ Call
      /\ stream[p] = NoStream /\ IsDir(path)
      /\ i # 0 /\ Free(0) # {} /\ inode[i].nfiles >= 0
      /\ slot' = [slot EXCEPT ![s] = [kind |-> "tree", inode |-> i]]
      /\ stream' = [stream EXCEPT ![p] =
           [fd |-> f, own |-> s, inode |-> i, names |-> Total(i), done |-> 0,
            cut |-> 0]]
      /\ UNCHANGED <<inode, fd, wild, history>>

(* file_descriptors[-1], or less memory than there are directories.        *)
OpendirFails(p, path) ==
  /\ Call
  /\ stream[p] = NoStream /\ IsDir(path)
  /\ \/ find_file(path) = 0 \/ Free(0) = {}
     \/ /\ find_file(path) # 0
        /\ inode[find_file(path)].nfiles < 0
  /\ Goes(TRUE)

Occupant(s) == IF s \in Slots THEN slot[s] ELSE NULL
EntriesOf(s) == IF s.kind = "tree" THEN Total(s.inode) ELSE 0

(* Faulty: the first entry that has been returned ends the search.         *)
NeverMore(p) == stream[p].done > 0

(* do_readdir counts the entries of whatever the slot holds now.           *)
NoMore(p) == stream[p].done >= EntriesOf(Occupant(stream[p].fd))

sys_readdir(p) ==
  /\ Call
  /\ stream[p] # NoStream
  /\ \/ Occupant(stream[p].fd) = NULL /\ Goes(TRUE)
     \/ Occupant(stream[p].fd) # NULL /\ NoMore(p) /\ Goes(FALSE)
     \/ /\ Occupant(stream[p].fd) # NULL /\ ~NoMore(p)
        /\ IF stream[p].done < stream[p].names
           THEN /\ stream' = [stream EXCEPT ![p].done = @ + 1]
                /\ UNCHANGED <<inode, slot, fd, wild, history>>
           ELSE Goes(TRUE)

(* do_closedir clears the slot the stream names, and fails if there is no  *)
(* such slot; the memory of the stream stays allocated.  Left out is the   *)
(* loop that wipes its entries: no caller uses them again.  It ends at the *)
(* first empty name, of which a block full of entries has none, so that it *)
(* looks behind the block, in the heap of the program.  If the bytes there *)
(* do not begin with a zero (a header whose next do_malloc left as it was) *)
(* they are wiped too, and the list of Heap with them.                     *)
sys_closedir(p) ==
  /\ Call
  /\ stream[p] # NoStream
  /\ slot' = IF stream[p].fd \in Slots THEN Cleared(stream[p].fd) ELSE slot
  /\ stream' = [stream EXCEPT ![p] = NoStream]
  /\ mixed' = (mixed \/ stream[p].fd # stream[p].own)
  /\ lost' = IF stream[p].fd # stream[p].own THEN lost \cup {stream[p].own}
             ELSE lost
  /\ UNCHANGED <<inode, fd, wild, gone, strayed>>

(* The end of a process closes nothing.                                    *)
sys_exit(p) ==
  /\ Call
  /\ fd[p] # NoFile \/ stream[p] # NoStream
  /\ lost' = lost \cup ({fd[p].fd} \cap Slots)
                  \cup (IF stream[p] = NoStream THEN {} ELSE {stream[p].own})
  /\ fd' = [fd EXCEPT ![p] = NoFile]
  /\ stream' = [stream EXCEPT ![p] = NoStream]
  /\ UNCHANGED <<inode, slot, wild, gone, strayed, mixed>>
-----------------------------------------------------------------------------
(* sys_unlink splits the path behind its last slash, so the path of a      *)
(* directory has the directory itself for a parent and an empty name.      *)
ParentOf(path) == IF IsDir(path) THEN path ELSE Front(path)
NameOf(path) == IF IsDir(path) THEN "" ELSE Last(path)

(* The entries behind the one found move up by one.  If the name is not    *)
(* there none moves, but the count goes down all the same: the last entry  *)
(* is no longer seen.                                                      *)
Taken(i, name) ==
  LET found == Named(Visible(i), name)
  IN  [inode[i] EXCEPT
         !.files = IF found = {} THEN @ ELSE RemoveAt(@, Lowest(found)),
         !.nfiles = @ - 1]

Shortened(i) ==
  [p \in Procs |->
     IF stream[p] # NoStream /\ stream[p].inode = i
     THEN [stream[p] EXCEPT !.cut = @ + 1] ELSE stream[p]]

sys_unlink(path) ==
  LET i == find_file(ParentOf(path))
      found == Named(Visible(i), NameOf(path)) # {}
  IN  /\ Call
      /\ i # 0 /\ inode[i].list
      /\ inode' = [inode EXCEPT ![i] = Taken(i, NameOf(path))]
      /\ gone' = IF found THEN gone \cup {path} ELSE gone
      /\ strayed' = (strayed \/ ~found)
      /\ stream' = Shortened(i)
      /\ UNCHANGED <<slot, fd, wild, mixed, lost>>

(* No such directory; or one that never had files, where the memset behind *)
(* the list goes through NULL.                                             *)
UnlinkFails(path) ==
  LET i == find_file(ParentOf(path))
  IN  /\ Call
      /\ \/ i = 0 /\ Goes(FALSE)
         \/ i # 0 /\ ~inode[i].list /\ Goes(TRUE)

(* The calls are used up (bound), or the kernel is beyond its data.        *)
Finished ==
  /\ wild \/ calls = MaxCalls
  /\ UNCHANGED vars

Next ==
  \/ load_tarfs
  \/ \E p \in Procs, path \in Paths :
        \/ sys_open(p, path) \/ OpenFails(p, path)
        \/ OpendirFails(p, path)
        \/ \E g \in 0..N : sys_opendir(p, path, g)
  \/ \E p \in Procs, n \in Requests : sys_read(p, n)
  \/ \E p \in Procs :
        sys_close(p) \/ sys_readdir(p) \/ sys_closedir(p) \/ sys_exit(p)
  \/ \E path \in Paths : sys_unlink(path) \/ UnlinkFails(path)
  \/ Finished

Spec == Init /\ [][Next]_vars

-----------------------------------------------------------------------------
(* Properties                                                              *)

Nodes == [dir : BOOLEAN, list : BOOLEAN, nfiles : Int, header : Nat,
          dirs : Seq([name : STRING, inode : 1..Len(inode)]),
          files : Seq([name : STRING, inode : 1..Len(inode)])]

(* Type correctness of the tree, the table and what the processes hold.    *)
TypeOK ==
  /\ at \in 1..(Len(archive) + 1)
  /\ inode \in Seq(Nodes)
  /\ slot \in [Slots ->
       {NULL, Std} \cup [kind : {"copy"}, inode : 1..Len(inode), off : Nat]
                  \cup [kind : {"tree"}, inode : 1..Len(inode)]]
  /\ fd \in [Procs -> {NoFile} \cup [fd : 3..(N - 1), inode : 1..Len(inode)]]
  /\ stream \in [Procs -> {NoStream} \cup
       [fd : 0..N, own : Slots, inode : 1..Len(inode), names : Nat,
        done : Nat, cut : Nat]]
  /\ calls \in 0..MaxCalls
  /\ wild \in BOOLEAN /\ strayed \in BOOLEAN /\ mixed \in BOOLEAN
  /\ gone \subseteq Paths /\ lost \subseteq Slots

(* Once the archive is loaded, find_file finds its files and their         *)
(* directories, whatever the order of the headers, until unlink takes a    *)
(* file away, and it never finds anything else.  The unlink of a name that *)
(* is not there is the one thing that hides a file nobody removed.         *)
LookupExact ==
  at > Len(archive) =>
    \A path \in Paths :
      LET i == find_file(path)
          exists == /\ \E h \in Headers : path \in Prefixes(h)
                    /\ path \notin gone
      IN  /\ i # 0 => exists
          /\ exists /\ ~strayed => i # 0
          /\ i # 0 => inode[i].dir = IsDir(path)
          /\ i # 0 /\ ~IsDir(path) => archive[inode[i].header].path = path

Occupied == {s \in Slots : slot[s] # NULL}
Readers == {p \in Procs : fd[p] # NoFile}
Listers == {p \in Procs : stream[p] # NoStream}

(* The shared table of descriptors holds what it was given: every open     *)
(* file and directory has a slot of its own with its own node in it, and   *)
(* the slots in use are those, the three standard ones and the ones that   *)
(* processes left behind when they ended.  Closing a stream without        *)
(* entries ends this, as it clears a slot that need not be its own.        *)
TableExact ==
  ~mixed =>
    /\ \A p \in Readers : slot[fd[p].fd].kind = "copy"
                         /\ slot[fd[p].fd].inode = fd[p].inode
    /\ \A p \in Listers : slot[stream[p].own] =
                           [kind |-> "tree", inode |-> stream[p].inode]
    /\ Occupied = 0..2 \cup {fd[p].fd : p \in Readers} \cup lost
                      \cup {stream[p].own : p \in Listers}
    /\ Cardinality(Occupied) = 3 + Cardinality(Readers)
                                 + Cardinality(Listers) + Cardinality(lost)

(* read_vfs hands out bytes from behind the end of a file, but fewer than  *)
(* the file is long: the offset stays below twice the size.                *)
OverrunBounded ==
  \A s \in Slots :
    slot[s].kind = "copy" /\ slot[s].off > 0
      => slot[s].off < 2 * SizeOf(slot[s].inode)

(* A directory stream that do_readdir ends has returned every entry there  *)
(* was at opendir, but for one per file unlinked from it in between.       *)
ReaddirComplete ==
  [][\A p \in Procs :
       sys_readdir(p) /\ ~wild' /\ ~mixed /\ stream' = stream
         => stream[p].names - stream[p].done <= stream[p].cut]_vars
=============================================================================
