-------------------------- MODULE FileSystemProofs --------------------------
(***************************************************************************)
(* Proofs about the file system, for any archive, any number of processes, *)
(* slots, calls and sizes asked for.                                       *)
(***************************************************************************)
EXTENDS FileSystem, ListLemmas, FiniteSetTheorems, FunctionTheorems

USE NAssumption, RequestsAssumption, MaxCallsAssumption

-----------------------------------------------------------------------------
(* The tree                                                                *)

(* The lowest of some numbers is one of them.                              *)
LEMMA LowestIn ==
  ASSUME NEW S \in SUBSET Nat, S # {}
  PROVE  Lowest(S) \in S
<1>1. Min(S) \in S /\ \A y \in S : Min(S) <= y
  BY MinOfNat
<1> DEFINE P(k) == \A j \in S : k <= j
<1>2. \E k \in S : P(k)
  BY <1>1
<1>3. Lowest(S) = CHOOSE k \in S : P(k)
  BY DEF Lowest
<1> HIDE DEF P
<1> QED
  BY <1>2, <1>3

(* A sequence over a set is one over any larger set.                       *)
LEMMA SeqGrows ==
  ASSUME NEW A, NEW B, A \subseteq B, NEW s \in Seq(A)
  PROVE  s \in Seq(B)
OBVIOUS

(* A loop of n turns, the k-th of which is the function f[k].              *)
IsLoop(f, n, A) == f \in [1..n -> [A -> A]]

(* What it computes, turn by turn, from a.                                 *)
IsRun(r, f, n, A, a) ==
  /\ r \in [0..n -> A] /\ r[0] = a
  /\ \A k \in 1..n : r[k] = f[k][r[k - 1]]

(* Every loop has a run.                                                   *)
LEMMA LoopRuns ==
  ASSUME NEW A, NEW a \in A, NEW n \in Nat, NEW f, IsLoop(f, n, A)
  PROVE  \E r : IsRun(r, f, n, A, a)
<1>0. f \in [1..n -> [A -> A]]
  BY DEF IsLoop
<1> DEFINE Runs(r, l) == /\ r \in [0..l -> A] /\ r[0] = a
                         /\ \A k \in 1..l : r[k] = f[k][r[k - 1]]
           S == {l \in 0..n : \E r : Runs(r, l)}
<1>1. 0 \in S
  <2>1. Runs([k \in 0..0 |-> a], 0)
    OBVIOUS
  <2> HIDE DEF Runs
  <2>2. \E r : Runs(r, 0)
    BY <2>1
  <2> QED BY <2>2
<1>2. ASSUME NEW l \in 0..(n - 1), l \in S
      PROVE  l + 1 \in S
  <2>1. PICK r : Runs(r, l)
    BY <1>2
  <2> DEFINE g == f[l + 1]
             v == g[r[l]]
             q == [k \in 0..(l + 1) |-> IF k <= l THEN r[k] ELSE v]
  <2>2. v \in A
    <3>1. g \in [A -> A] /\ r[l] \in A
      BY <1>0, <2>1
    <3> HIDE DEF g
    <3> QED BY <3>1
  <2>3. q \in [0..(l + 1) -> A] /\ q[0] = a
    <3> HIDE DEF v
    <3> QED BY <2>1, <2>2
  <2>4. ASSUME NEW k \in 1..(l + 1)
        PROVE  q[k] = f[k][q[k - 1]]
    <3>1. CASE k <= l
      <4>1. q[k] = r[k] /\ q[k - 1] = r[k - 1] /\ k \in 1..l
        BY <3>1
      <4> QED BY <2>1, <4>1
    <3>2. CASE k = l + 1
      <4>1. q[k] = v /\ q[k - 1] = r[l]
        BY <3>2
      <4> QED BY <3>2, <4>1
    <3> QED BY <3>1, <3>2
  <2>5. Runs(q, l + 1)
    <3> HIDE DEF q
    <3> QED BY <2>3, <2>4
  <2> HIDE DEF Runs, q
  <2> QED BY <2>5
<1>3. n \in S
  <2> HIDE DEF S
  <2>1. \A i \in 0..(n - 1) : i \in S => i + 1 \in S
    BY <1>2
  <2>2. \A i \in 0..n : i \in S
    BY <1>1, <2>1, UpTo, Zenon
  <2> QED BY <2>2
<1>4. PICK r : Runs(r, n)
  BY <1>3
<1> QED
  BY <1>4 DEF IsRun

EntriesUpTo(n) == [name : STRING, inode : 1..n]

(* Nodes, of a tree with n inodes.                                         *)
NodesUpTo(n) ==
  [dir : BOOLEAN, list : BOOLEAN, nfiles : Int, header : Nat,
   dirs : Seq(EntriesUpTo(n)), files : Seq(EntriesUpTo(n))]

(* num_sub_files counts files that are on the list, and a file stands for  *)
(* one of m headers.                                                       *)
Sound(x, m) ==
  /\ x.nfiles <= Len(x.files)
  /\ ~x.dir => x.header \in 1..m

(* What a pass of load_tarfs works on.                                     *)
IsForest(q, m) ==
  /\ q \in Seq(NodesUpTo(Len(q)))
  /\ \A i \in 1..Len(q) : Sound(q[i], m)

IsTree(t, m) ==
  /\ t = [inode |-> t.inode, active |-> t.active]
  /\ IsForest(t.inode, m)
  /\ t.active \in 1..Len(t.inode)

(* A node of a tree is one of any larger tree.                             *)
LEMMA NodesGrow ==
  ASSUME NEW n \in Nat, NEW k \in Nat, n <= k, NEW x \in NodesUpTo(n)
  PROVE  x \in NodesUpTo(k)
<1>1. EntriesUpTo(n) \subseteq EntriesUpTo(k)
  BY DEF EntriesUpTo
<1>2. x.dirs \in Seq(EntriesUpTo(n)) /\ x.files \in Seq(EntriesUpTo(n))
  BY DEF NodesUpTo
<1>3. x.dirs \in Seq(EntriesUpTo(k)) /\ x.files \in Seq(EntriesUpTo(k))
  BY <1>1, <1>2, SeqGrows
<1> QED
  BY <1>3 DEF NodesUpTo

(* A node is changed and another one added.                                *)
LEMMA ForestGrows ==
  ASSUME NEW m, NEW q, IsForest(q, m), NEW a \in 1..Len(q),
         NEW x \in NodesUpTo(Len(q) + 1), Sound(x, m),
         NEW y \in NodesUpTo(Len(q) + 1), Sound(y, m)
  PROVE  /\ IsForest(Append([q EXCEPT ![a] = x], y), m)
         /\ Len(Append([q EXCEPT ![a] = x], y)) = Len(q) + 1
<1> DEFINE n == Len(q)
           b == [q EXCEPT ![a] = x]
           r == Append(b, y)
<1>1. q \in Seq(NodesUpTo(n)) /\ n \in Nat /\ \A i \in 1..n : Sound(q[i], m)
  BY DEF IsForest
<1>2. \A i \in 1..n : q[i] \in NodesUpTo(n + 1)
  <2>1. \A i \in 1..n : q[i] \in NodesUpTo(n)
    BY <1>1
  <2> HIDE DEF n
  <2> QED BY <1>1, <2>1, NodesGrow
<1> DEFINE T == NodesUpTo(n + 1)
<1>3. b \in Seq(T) /\ Len(b) = n
  <2>1. \A i \in 1..n : b[i] \in T
    <3> HIDE DEF T
    <3> QED BY <1>1, <1>2 DEF T
  <2>2. b = [i \in 1..n |-> b[i]] 
    BY <1>1
  <2> HIDE DEF T, b, n
  <2> QED BY <1>1, <2>1, <2>2, SeqDef
<1>4. \A i \in 1..n : b[i] = IF i = a THEN x ELSE q[i]
  BY <1>1
<1> HIDE DEF b
<1>5. r \in Seq(T) /\ Len(r) = n + 1
  <2> HIDE DEF T
  <2> QED BY <1>1, <1>3 DEF T
<1>6. r[n + 1] = y /\ \A i \in 1..n : r[i] = b[i]
  <2> HIDE DEF T
  <2> QED BY <1>1, <1>3 DEF T
<1>7. \A i \in 1..(n + 1) : Sound(r[i], m)
  <2>1. \A i \in 1..n : r[i] = x \/ r[i] = q[i]
    BY <1>4, <1>6
  <2>2. \A i \in 1..n : Sound(r[i], m)
    BY <1>1, <2>1
  <2>3. \A i \in 1..(n + 1) : i = n + 1 \/ i \in 1..n
    BY <1>1
  <2> QED BY <1>6, <2>2, <2>3
<1> QED
  BY <1>5, <1>7 DEF IsForest, b

(* The same for a node that is replaced.                                   *)
LEMMA ForestKeeps ==
  ASSUME NEW m, NEW q, IsForest(q, m), NEW a \in 1..Len(q),
         NEW x \in NodesUpTo(Len(q)), Sound(x, m)
  PROVE  /\ IsForest([q EXCEPT ![a] = x], m)
         /\ Len([q EXCEPT ![a] = x]) = Len(q)
         /\ \A i \in 1..Len(q) : [q EXCEPT ![a] = x][i] =
                                 IF i = a THEN x ELSE q[i]
<1> DEFINE n == Len(q)
           b == [q EXCEPT ![a] = x]
           T == NodesUpTo(n)
<1>1. q \in Seq(T) /\ n \in Nat /\ \A i \in 1..n : Sound(q[i], m)
  BY DEF IsForest
<1>2. \A i \in 1..n : b[i] = IF i = a THEN x ELSE q[i]
  BY <1>1
<1>3. b \in Seq(T) /\ Len(b) = n
  <2>1. \A i \in 1..n : b[i] \in T
    <3> HIDE DEF T
    <3> QED BY <1>1, <1>2 DEF T
  <2>2. b = [i \in 1..n |-> b[i]]
    BY <1>1
  <2> HIDE DEF T, b
  <2>3. b \in [1..n -> T]
    BY <2>1, <2>2
  <2> QED BY <1>1, <2>3
<1>4. \A i \in 1..n : Sound(b[i], m)
  <2> HIDE DEF b
  <2>1. \A i \in 1..n : b[i] = x \/ b[i] = q[i]
    BY <1>2
  <2> QED BY <1>1, <2>1
<1> HIDE DEF b
<1> QED
  BY <1>2, <1>3, <1>4 DEF IsForest, b

(* What folder_exist creates, and what file_exist does.                    *)
LEMMA NewNodes ==
  ASSUME NEW n \in Nat, NEW m \in Nat, NEW h \in 1..m
  PROVE  /\ DirNode \in NodesUpTo(n) /\ Sound(DirNode, m)
         /\ FileNode(h) \in NodesUpTo(n) /\ Sound(FileNode(h), m)
<1>1. <<>> \in Seq(EntriesUpTo(n)) /\ Len(<<>>) = 0
  OBVIOUS
<1>2. DirNode \in NodesUpTo(n) /\ Sound(DirNode, m)
  BY <1>1 DEF DirNode, NodesUpTo, Sound
<1> DEFINE g == [DirNode EXCEPT !.dir = FALSE]
           f == [g EXCEPT !.header = h]
<1>3. FileNode(h) = f
  BY DEF FileNode
<1>4. g \in NodesUpTo(n) /\ g.nfiles = 0 /\ g.files = <<>>
  BY <1>1, <1>2 DEF NodesUpTo, DirNode
<1> HIDE DEF g
<1>5. f \in NodesUpTo(n) /\ f.header = h /\ f.nfiles = 0 /\ f.files = <<>>
  BY <1>4 DEF NodesUpTo
<1>6. Sound(f, m)
  <2> HIDE DEF f
  <2> QED BY <1>1, <1>5 DEF Sound
<1> QED
  BY <1>2, <1>3, <1>5, <1>6

(* folder_exist leaves a tree and an active node in it.                    *)
LEMMA EnterDirKeeps ==
  ASSUME NEW m \in Nat \ {0}, NEW t, IsTree(t, m), NEW name \in STRING
  PROVE  IsTree(EnterDir(t, name), m)
<1> DEFINE q == t.inode
           a == t.active
           n == Len(q)
           x == q[a]
           found == Named(x.dirs, name)
           new == [name |-> name, inode |-> n + 1]
<1>1. /\ IsForest(q, m) /\ n \in Nat /\ a \in 1..n
      /\ q \in Seq(NodesUpTo(n)) /\ Sound(x, m)
  BY DEF IsTree, IsForest
<1>2. x \in NodesUpTo(n)
  BY <1>1
<1>3. x.dirs \in Seq(EntriesUpTo(n)) /\ x \in NodesUpTo(n + 1)
  <2>1. x \in NodesUpTo(n + 1)
    <3> HIDE DEF n, x
    <3> QED BY <1>1, <1>2, NodesGrow
  <2> QED BY <1>2, <2>1 DEF NodesUpTo
<1>4. CASE found # {}
  <2>1. found \in SUBSET Nat /\ found \subseteq 1..Len(x.dirs)
    BY <1>3 DEF Named
  <2>2. Lowest(found) \in 1..Len(x.dirs)
    <3> HIDE DEF found
    <3> QED BY <1>4, <2>1, LowestIn
  <2> DEFINE c == x.dirs[Lowest(found)].inode
  <2>3. c \in 1..n
    <3>1. x.dirs[Lowest(found)] \in EntriesUpTo(n)
      BY <1>3, <2>2
    <3> QED BY <3>1 DEF EntriesUpTo
  <2>4. EnterDir(t, name) = [t EXCEPT !.active = c]
    BY <1>4 DEF EnterDir
  <2>5. EnterDir(t, name) = [inode |-> q, active |-> c]
    <3> HIDE DEF c
    <3> QED BY <2>4 DEF IsTree
  <2> HIDE DEF c
  <2> QED BY <1>1, <2>3, <2>5 DEF IsTree
<1>5. CASE found = {}
  <2> DEFINE y == [x EXCEPT !.dirs = Append(@, new)]
             b == [q EXCEPT ![a] = y]
  <2>1. new \in EntriesUpTo(n + 1)
    BY <1>1 DEF EntriesUpTo
  <2>2. y \in NodesUpTo(n + 1) /\ Sound(y, m)
    <3>1. x.dirs \in Seq(EntriesUpTo(n + 1))
      BY <1>3 DEF NodesUpTo
    <3>2. Append(x.dirs, new) \in Seq(EntriesUpTo(n + 1))
      <4> HIDE DEF new, x
      <4> QED BY <2>1, <3>1
    <3> HIDE DEF new
    <3> QED BY <1>1, <1>3, <3>2 DEF NodesUpTo, Sound
  <2>3. DirNode \in NodesUpTo(n + 1) /\ Sound(DirNode, m)
    <3> HIDE DEF n
    <3> QED BY <1>1, NewNodes
  <2>4. /\ IsForest(Append(b, DirNode), m)
        /\ Len(Append(b, DirNode)) = n + 1
    <3> HIDE DEF y, q, a
    <3> QED BY <1>1, <2>2, <2>3, ForestGrows
  <2>5. EnterDir(t, name) = [inode |-> Append(b, DirNode), active |-> n + 1]
    BY <1>5 DEF EnterDir
  <2> HIDE DEF b
  <2> QED BY <1>1, <2>4, <2>5 DEF IsTree
<1> QED
  BY <1>4, <1>5

(* So does file_exist, whose active node is the new file.                  *)
LEMMA AddFileKeeps ==
  ASSUME NEW m \in Nat, NEW t, IsTree(t, m), NEW name \in STRING,
         NEW h \in 1..m
  PROVE  IsTree(AddFile(t, name, h), m)
<1> DEFINE q == t.inode
           a == t.active
           n == Len(q)
           x == q[a]
           new == [name |-> name, inode |-> n + 1]
           y == [x EXCEPT !.files = Append(@, new), !.nfiles = @ + 1,
                          !.list = TRUE]
           b == [q EXCEPT ![a] = y]
           f == FileNode(h)
<1>1. /\ IsForest(q, m) /\ n \in Nat /\ a \in 1..n
      /\ q \in Seq(NodesUpTo(n)) /\ Sound(x, m)
  BY DEF IsTree, IsForest
<1>2. x \in NodesUpTo(n)
  BY <1>1
<1>3. x \in NodesUpTo(n + 1)
  <2> HIDE DEF n, x
  <2> QED BY <1>1, <1>2, NodesGrow
<1>4. new \in EntriesUpTo(n + 1)
  BY <1>1 DEF EntriesUpTo
<1>5. y \in NodesUpTo(n + 1) /\ Sound(y, m)
  <2>1. x.files \in Seq(EntriesUpTo(n + 1))
    BY <1>3 DEF NodesUpTo
  <2>2. /\ Append(x.files, new) \in Seq(EntriesUpTo(n + 1))
        /\ Len(Append(x.files, new)) = Len(x.files) + 1
        /\ Len(x.files) \in Nat
    <3> DEFINE E == EntriesUpTo(n + 1)
               s == x.files
    <3>1. new \in E /\ s \in Seq(E)
      BY <1>4, <2>1
    <3>2. Append(s, new) \in Seq(E) /\ Len(Append(s, new)) = Len(s) + 1
          /\ Len(s) \in Nat
      <4> HIDE DEF E, s, new
      <4> QED BY <3>1
    <3> QED BY <3>2
  <2> DEFINE z == Append(x.files, new)
             u == [x EXCEPT !.files = z]
             c == x.nfiles + 1
             v == [u EXCEPT !.nfiles = c]
             w == [v EXCEPT !.list = TRUE]
  <2>3. x.nfiles <= Len(x.files) /\ (~x.dir => x.header \in 1..m)
    BY <1>1 DEF Sound
  <2>4. x.nfiles \in Int /\ c \in Int
    BY <1>3 DEF NodesUpTo
  <2>5. y = w
    <3> HIDE DEF x, z
    <3> QED BY DEF z
  <2> HIDE DEF c
  <2> HIDE DEF new, x, z, y
  <2>6. z \in Seq(EntriesUpTo(n + 1)) /\ Len(z) = Len(x.files) + 1
    BY <2>2 DEF z
  <2>7. /\ u \in NodesUpTo(n + 1) /\ u.files = z /\ u.nfiles = x.nfiles
        /\ (u.dir <=> x.dir) /\ u.header = x.header
    BY <1>3, <2>6 DEF NodesUpTo
  <2> HIDE DEF u
  <2>8. /\ v \in NodesUpTo(n + 1) /\ v.files = z /\ v.nfiles = c
        /\ (v.dir <=> x.dir) /\ v.header = x.header
    BY <2>4, <2>7 DEF NodesUpTo
  <2> HIDE DEF v
  <2>9. /\ w \in NodesUpTo(n + 1) /\ w.files = z /\ w.nfiles = c
        /\ (w.dir <=> x.dir) /\ w.header = x.header
    BY <2>8 DEF NodesUpTo
  <2> HIDE DEF w
  <2>10. Sound(w, m)
    BY <2>2, <2>3, <2>4, <2>6, <2>9 DEF Sound, c
  <2> QED BY <2>5, <2>9, <2>10
<1>6. f \in NodesUpTo(n + 1) /\ Sound(f, m)
  <2> DEFINE k == n + 1
  <2>1. k \in Nat
    BY <1>1
  <2> HIDE DEF k, n
  <2>2. f \in NodesUpTo(k) /\ Sound(f, m)
    BY <2>1, NewNodes, Zenon
  <2> QED BY <2>2 DEF k
<1>7. IsForest(Append(b, f), m) /\ Len(Append(b, f)) = n + 1
  <2> HIDE DEF y, q, a, f
  <2> QED BY <1>1, <1>5, <1>6, ForestGrows
<1>8. AddFile(t, name, h) = [inode |-> Append(b, f), active |-> n + 1]
  BY DEF AddFile
<1> HIDE DEF b, f
<1> QED
  BY <1>1, <1>7, <1>8 DEF IsTree

(* One component of a path.                                                *)
LEMMA StepKeeps ==
  ASSUME NEW m \in Nat, NEW t, IsTree(t, m), NEW name \in STRING,
         NEW h \in 1..m
  PROVE  IsTree(Step(t, name, h), m)
<1>1. m \in Nat \ {0}
  OBVIOUS
<1> QED
  BY <1>1, EnterDirKeeps, AddFileKeeps DEF Step

-----------------------------------------------------------------------------
(* A pass of load_tarfs                                                    *)

AnyNode ==
  [dir : BOOLEAN, list : BOOLEAN, nfiles : Int, header : Nat,
   dirs : Seq([name : STRING, inode : Nat]),
   files : Seq([name : STRING, inode : Nat])]

Trees(m) == {t \in [inode : Seq(AnyNode), active : Nat] : IsTree(t, m)}

LEMMA TreesAre ==
  ASSUME NEW t, NEW m
  PROVE  t \in Trees(m) <=> IsTree(t, m)
<1>1. ASSUME IsTree(t, m) PROVE t \in Trees(m)
  <2> DEFINE q == t.inode
             n == Len(q)
  <2>1. /\ t = [inode |-> q, active |-> t.active] /\ t.active \in 1..n
        /\ q \in Seq(NodesUpTo(n)) /\ n \in Nat
    BY <1>1 DEF IsTree, IsForest
  <2>2. NodesUpTo(n) \subseteq AnyNode
    <3> DEFINE E == [name : STRING, inode : Nat]
               F == EntriesUpTo(n)
    <3>1. F \subseteq E
      BY <2>1 DEF EntriesUpTo
    <3> HIDE DEF E, F
    <3>2. \A s : s \in Seq(F) => s \in Seq(E)
      BY <3>1, SeqGrows
    <3>3. ASSUME NEW x \in NodesUpTo(n) PROVE x \in AnyNode
      <4>1. x \in [dir : BOOLEAN, list : BOOLEAN, nfiles : Int, header : Nat,
                   dirs : Seq(F), files : Seq(F)]
        BY DEF NodesUpTo, F
      <4>2. x \in [dir : BOOLEAN, list : BOOLEAN, nfiles : Int, header : Nat,
                   dirs : Seq(E), files : Seq(E)]
        BY <3>2, <4>1
      <4> QED BY <4>2 DEF AnyNode, E
    <3> QED BY <3>3
  <2>3. q \in Seq(AnyNode)
    <3> DEFINE M == NodesUpTo(n)
    <3>1. M \subseteq AnyNode /\ q \in Seq(M)
      BY <2>1, <2>2
    <3> HIDE DEF M, q
    <3> QED BY <3>1, SeqGrows
  <2>4. t.active \in Nat
    BY <2>1
  <2> HIDE DEF q
  <2>5. t \in [inode : Seq(AnyNode), active : Nat]
    BY <2>1, <2>3, <2>4
  <2> QED BY <1>1, <2>5 DEF Trees
<1> QED
  BY <1>1 DEF Trees

(* The loop over the components of a path.                                 *)
Walk(path, q, h) ==
  LET t[l \in 0..Len(path)] ==
        IF l = 0 THEN [inode |-> q, active |-> 1]
        ELSE Step(t[l - 1], path[l], h)
  IN  t[Len(path)].inode

(* The trees it goes through.                                              *)
IsWalk(t, path, q, h, m) ==
  /\ t[0] = [inode |-> q, active |-> 1]
  /\ \A l \in 0..Len(path) : IsTree(t[l], m)
  /\ \A l \in 0..(Len(path) - 1) : t[l + 1] = Step(t[l], path[l + 1], h)

(* It goes through trees, and ends.                                        *)
LEMMA WalkRows ==
  ASSUME NEW m \in Nat, NEW q, IsForest(q, m), Len(q) >= 1,
         NEW path \in Seq(STRING), NEW h \in 1..m
  PROVE  \E t : IsWalk(t, path, q, h, m) /\ Walk(path, q, h) = t[Len(path)].inode
<1> DEFINE n == Len(path)
           T == Trees(m)
           r == [inode |-> q, active |-> 1]
           Body(g) == [l \in 0..n |-> IF l = 0 THEN r
                                      ELSE Step(g[l - 1], path[l], h)]
           t == CHOOSE g : g = Body(g)
           turn == [l \in 1..n |-> [x \in T |-> Step(x, path[l], h)]]
<1>1. Walk(path, q, h) = t[n].inode
  BY DEF Walk
<1>2. n \in Nat /\ \A l \in 1..n : path[l] \in STRING
  OBVIOUS
<1>3. r \in T
  <2>1. r.inode = q /\ r.active = 1 /\ r = [inode |-> r.inode, active |-> r.active]
    OBVIOUS
  <2>2. IsForest(q, m) /\ 1 \in 1..Len(q)
    BY DEF IsForest
  <2>3. IsTree(r, m)
    <3> HIDE DEF r
    <3> QED BY <2>1, <2>2 DEF IsTree
  <2> HIDE DEF r
  <2> QED BY <2>3, TreesAre
<1>4. \A x \in T : \A l \in 1..n : Step(x, path[l], h) \in T
  <2> HIDE DEF n
  <2> QED BY <1>2, TreesAre, StepKeeps
<1> HIDE DEF r, T
<1>5. IsLoop(turn, n, T)
  BY <1>4 DEF IsLoop
<1>6. PICK w : IsRun(w, turn, n, T, r)
  <2> HIDE DEF turn, n
  <2> QED BY <1>2, <1>3, <1>5, LoopRuns
<1>61. /\ w \in [0..n -> T] /\ w[0] = r
       /\ \A k \in 1..n : w[k] = turn[k][w[k - 1]]
  <2> HIDE DEF turn, n
  <2> QED BY <1>6 DEF IsRun
<1>7. \A k \in 1..n : w[k] = Step(w[k - 1], path[k], h)
  <2> SUFFICES ASSUME NEW k \in 1..n
               PROVE  w[k] = Step(w[k - 1], path[k], h)
    OBVIOUS
  <2>1. w[k - 1] \in T /\ w[k] = turn[k][w[k - 1]]
    <3> HIDE DEF turn
    <3>1. k - 1 \in 0..n
      BY <1>2
    <3> QED BY <1>61, <3>1
  <2>2. turn[k] = [x \in T |-> Step(x, path[k], h)]
    OBVIOUS
  <2> HIDE DEF turn
  <2> QED BY <2>1, <2>2
<1>8. w = Body(w)
  <2>1. \A l \in 0..n : w[l] = IF l = 0 THEN r ELSE Step(w[l - 1], path[l], h)
    BY <1>2, <1>61, <1>7
  <2> QED BY <1>61, <2>1
<1>9. t = Body(t)
  <2> HIDE DEF Body
  <2> QED BY <1>8
<1>10. \A l \in 0..n : t[l] = IF l = 0 THEN r ELSE Step(t[l - 1], path[l], h)
  <2> HIDE DEF t
  <2> QED BY <1>9
<1> HIDE DEF t, Body
<1> DEFINE S == {l \in 0..n : t[l] \in T}
<1>11. \A i \in 0..n : i \in S
  <2>1. 0 \in S
    BY <1>2, <1>3, <1>10
  <2>2. \A i \in 0..(n - 1) : i \in S => i + 1 \in S
    <3> SUFFICES ASSUME NEW i \in 0..(n - 1), i \in S PROVE i + 1 \in S
      OBVIOUS
    <3>1. t[i + 1] = Step(t[i], path[i + 1], h) /\ i + 1 \in 1..n
      BY <1>2, <1>10
    <3>2. t[i] \in T
      OBVIOUS
    <3> QED BY <1>2, <1>4, <3>1, <3>2
  <2> HIDE DEF S
  <2> QED BY <1>2, <2>1, <2>2, UpTo, Zenon
<1>12. \A l \in 0..n : IsTree(t[l], m)
  BY <1>11, TreesAre DEF T
<1>13. \A l \in 0..(n - 1) : t[l + 1] = Step(t[l], path[l + 1], h)
  <2> SUFFICES ASSUME NEW l \in 0..(n - 1)
               PROVE  t[l + 1] = Step(t[l], path[l + 1], h)
    OBVIOUS
  <2>1. l + 1 \in 0..n /\ l + 1 # 0 /\ (l + 1) - 1 = l
    BY <1>2
  <2> QED BY <1>10, <2>1
<1>14. t[0] = r
  BY <1>2, <1>10
<1>15. IsWalk(t, path, q, h, m)
  BY <1>12, <1>13, <1>14 DEF IsWalk, r
<1> QED
  BY <1>1, <1>15

(* It ends in a tree.                                                      *)
LEMMA WalkKeeps ==
  ASSUME NEW m \in Nat, NEW q, IsForest(q, m), Len(q) >= 1,
         NEW path \in Seq(STRING), NEW h \in 1..m
  PROVE  IsForest(Walk(path, q, h), m) /\ Len(Walk(path, q, h)) >= 1
<1> DEFINE n == Len(path)
<1>1. PICK t : IsWalk(t, path, q, h, m) /\ Walk(path, q, h) = t[n].inode
  BY WalkRows
<1>2. IsTree(t[n], m)
  BY <1>1 DEF IsWalk
<1>3. Len(t[n].inode) \in Nat
  BY <1>2 DEF IsTree, IsForest
<1> QED
  BY <1>1, <1>2, <1>3 DEF IsTree

-----------------------------------------------------------------------------
(* Lookup                                                                  *)

(* The part of the list of files that num_sub_files counts, as do_readdir  *)
(* and find_file_from_root see it, and the children of a node.             *)
LEMMA ChildrenTyped ==
  ASSUME NEW m, IsForest(inode, m), NEW i \in 1..Len(inode)
  PROVE  LET E == EntriesUpTo(Len(inode))
         IN  /\ Visible(i) \in Seq(E) /\ Children(i) \in Seq(E)
             /\ Len(Visible(i)) <= Len(inode[i].files)
<1> DEFINE E == EntriesUpTo(Len(inode))
           x == inode[i]
           d == x.dirs
           f == x.files
           k == x.nfiles
<1>1. x \in NodesUpTo(Len(inode)) /\ Sound(x, m)
  BY DEF IsForest
<1>2. d \in Seq(E) /\ f \in Seq(E) /\ k \in Int /\ k <= Len(f)
  BY <1>1 DEF NodesUpTo, Sound
<1>3. Visible(i) = SubSeq(f, 1, k) /\ Children(i) = d \o Visible(i)
  BY DEF Visible, Children
<1> HIDE DEF E, d, f, k
<1> DEFINE v == SubSeq(f, 1, k)
<1>4. v \in Seq(E) /\ Len(v) <= Len(f)
  <2>1. CASE k < 1
    <3>1. v = <<>>
      BY <1>2, <2>1, SubSeqProperties
    <3> QED BY <1>2, <3>1
  <2>2. CASE k >= 1
    BY <1>2, <2>2, SubSeqProperties
  <2> QED BY <1>2, <2>1, <2>2
<1> HIDE DEF v
<1>5. d \o v \in Seq(E)
  BY <1>2, <1>4, SMTT(30)
<1> QED
  BY <1>3, <1>4, <1>5 DEF v, E, f

(* What find_file_from_root finds below a node, from what it finds below   *)
(* the children.                                                           *)
FoundBelow(name, w) ==
  [i \in 1..Len(inode) |->
     LET hits == {k \in Named(Children(i), name) : w[Children(i)[k].inode] # 0}
     IN  IF hits = {} THEN 0 ELSE w[Children(i)[Lowest(hits)].inode]]

Rows == [1..Len(inode) -> 0..Len(inode)]

(* It is a node of the tree, or NULL.                                      *)
LEMMA FoundBelowTyped ==
  ASSUME NEW m, IsForest(inode, m), NEW name, NEW w \in Rows
  PROVE  FoundBelow(name, w) \in Rows
<1> DEFINE n == Len(inode)
<1>1. n \in Nat
  BY SMTT(30) DEF IsForest
<1>2. ASSUME NEW i \in 1..n
      PROVE  LET hits == {k \in Named(Children(i), name) :
                            w[Children(i)[k].inode] # 0}
             IN  (IF hits = {} THEN 0
                  ELSE w[Children(i)[Lowest(hits)].inode]) \in 0..n
  <2> DEFINE c == Children(i)
             hits == {k \in Named(c, name) : w[c[k].inode] # 0}
  <2>1. c \in Seq(EntriesUpTo(n))
    BY ChildrenTyped
  <2>2. hits \in SUBSET Nat /\ hits \subseteq 1..Len(c)
    BY <2>1 DEF Named
  <2>3. CASE hits # {}
    <3>1. Lowest(hits) \in 1..Len(c)
      <4> HIDE DEF hits
      <4> QED BY <2>2, <2>3, LowestIn
    <3>2. c[Lowest(hits)] \in EntriesUpTo(n)
      BY <2>1, <3>1
    <3>3. c[Lowest(hits)].inode \in 1..n
      BY <3>2 DEF EntriesUpTo
    <3>4. w[c[Lowest(hits)].inode] \in 0..n
      BY <3>3 DEF Rows
    <3> QED BY <2>3, <3>4
  <2>4. CASE hits = {}
    BY <1>1, <2>4
  <2> QED BY <2>3, <2>4
<1> QED
  BY <1>2 DEF FoundBelow, Rows

(* The rows a search fills, from the last component of a path to the first. *)
IsSearch(found, path) ==
  \A l \in 0..Len(path) :
    /\ found[l] \in Rows
    /\ l = Len(path) => \A i \in 1..Len(inode) : found[l][i] = i
    /\ l # Len(path) => found[l] = FoundBelow(path[l + 1], found[l + 1])

(* The search fills them, and ends.                                        *)
LEMMA FindFileRows ==
  ASSUME NEW m, IsForest(inode, m), NEW path, Len(path) \in Nat
  PROVE  \E found : IsSearch(found, path) /\ find_file(path) = found[0][1]
<1> DEFINE n == Len(path)
           all == [i \in 1..Len(inode) |-> i]
           Body(g) ==
             [l \in 0..n |->
                [i \in 1..Len(inode) |->
                   IF l = n THEN i
                   ELSE LET hits == {k \in Named(Children(i), path[l + 1]) :
                                       g[l + 1][Children(i)[k].inode] # 0}
                        IN  IF hits = {} THEN 0
                            ELSE g[l + 1][Children(i)[Lowest(hits)].inode]]]
           found == CHOOSE g : g = Body(g)
           turn == [j \in 1..n |->
                      [w \in Rows |-> FoundBelow(path[n - j + 1], w)]]
<1>1. find_file(path) = found[0][1]
  BY DEF find_file
<1>2. Len(inode) \in Nat
  BY DEF IsForest
<1>3. all \in Rows
  BY <1>2, SMTT(30) DEF Rows
<1>4. \A g : Body(g) = [l \in 0..n |->
                         IF l = n THEN all ELSE FoundBelow(path[l + 1], g[l + 1])]
  <2> SUFFICES ASSUME NEW g, NEW l \in 0..n
               PROVE  Body(g)[l] = IF l = n THEN all
                                   ELSE FoundBelow(path[l + 1], g[l + 1])
    OBVIOUS
  <2>1. CASE l = n
    BY <2>1
  <2>2. CASE l # n
    BY <2>2, Zenon DEF FoundBelow
  <2> QED BY <2>1, <2>2
<1>5. IsLoop(turn, n, Rows)
  <2>1. \A j \in 1..n : \A w \in Rows : FoundBelow(path[n - j + 1], w) \in Rows
    BY FoundBelowTyped
  <2> QED BY <2>1 DEF IsLoop
<1> HIDE DEF all, Body
<1>6. PICK r : IsRun(r, turn, n, Rows, all)
  <2> HIDE DEF turn, n
  <2> QED BY <1>3, <1>5, LoopRuns DEF n
<1>7. /\ r \in [0..n -> Rows] /\ r[0] = all
      /\ \A k \in 1..n : r[k] = turn[k][r[k - 1]]
  <2> HIDE DEF turn, n
  <2> QED BY <1>6 DEF IsRun
<1>8. \A k \in 1..n : r[k] = FoundBelow(path[n - k + 1], r[k - 1])
  <2> SUFFICES ASSUME NEW k \in 1..n
               PROVE  r[k] = FoundBelow(path[n - k + 1], r[k - 1])
    OBVIOUS
  <2>1. r[k - 1] \in Rows /\ r[k] = turn[k][r[k - 1]]
    <3> HIDE DEF turn
    <3>1. k - 1 \in 0..n
      OBVIOUS
    <3> QED BY <1>7, <3>1
  <2>2. turn[k] = [w \in Rows |-> FoundBelow(path[n - k + 1], w)]
    OBVIOUS
  <2> HIDE DEF turn
  <2> QED BY <2>1, <2>2
<1> DEFINE f == [l \in 0..n |-> r[n - l]]
<1>9. f = Body(f)
  <2>1. ASSUME NEW l \in 0..n
        PROVE  f[l] = IF l = n THEN all ELSE FoundBelow(path[l + 1], f[l + 1])
    <3>1. CASE l = n
      <4>1. f[l] = r[0]
        BY <3>1
      <4> QED BY <1>7, <3>1, <4>1
    <3>2. CASE l # n
      <4> DEFINE k == n - l
      <4>1. k \in 1..n /\ n - k + 1 = l + 1 /\ k - 1 = n - (l + 1)
            /\ l + 1 \in 0..n
        BY <3>2
      <4>2. f[l] = r[k] /\ f[l + 1] = r[k - 1]
        BY <4>1
      <4>3. r[k] = FoundBelow(path[n - k + 1], r[k - 1])
        BY <1>8, <4>1
      <4> HIDE DEF f, k
      <4> QED BY <3>2, <4>1, <4>2, <4>3
    <3> QED BY <3>1, <3>2
  <2>2. f = [l \in 0..n |-> IF l = n THEN all ELSE FoundBelow(path[l + 1], f[l + 1])]
    BY <2>1
  <2> QED BY <1>4, <2>2
<1>10. found = Body(found)
  <2> HIDE DEF f
  <2> QED BY <1>9
<1> HIDE DEF found, f
<1>11. \A l \in 0..n : found[l] =
         IF l = n THEN all ELSE FoundBelow(path[l + 1], found[l + 1])
  <2>1. found = [l \in 0..n |->
           IF l = n THEN all ELSE FoundBelow(path[l + 1], found[l + 1])]
    BY <1>4, <1>10
  <2> QED BY <2>1
<1> DEFINE S == {j \in 0..n : found[n - j] \in Rows}
<1>12. \A i \in 0..n : i \in S
  <2>1. 0 \in S
    BY <1>3, <1>11
  <2>2. \A i \in 0..(n - 1) : i \in S => i + 1 \in S
    <3> SUFFICES ASSUME NEW i \in 0..(n - 1), i \in S PROVE i + 1 \in S
      OBVIOUS
    <3> DEFINE l == n - (i + 1)
    <3>1. l \in 0..n /\ l # n /\ l + 1 = n - i
      BY SMTT(30)
    <3>2. found[l] = FoundBelow(path[l + 1], found[l + 1])
      BY <1>11, <3>1, Zenon
    <3>3. found[l + 1] \in Rows
      BY <3>1
    <3>4. found[l] \in Rows
      <4> HIDE DEF l
      <4> QED BY <3>2, <3>3, FoundBelowTyped
    <3> QED BY <3>4
  <2> HIDE DEF S
  <2>3. n \in Nat
    OBVIOUS
  <2> HIDE DEF n
  <2> QED BY <2>1, <2>2, <2>3, UpTo, Zenon
<1>13. ASSUME NEW l \in 0..n
       PROVE  /\ found[l] \in Rows
              /\ l = n => \A i \in 1..Len(inode) : found[l][i] = i
              /\ l # n => found[l] = FoundBelow(path[l + 1], found[l + 1])
  <2>1. n - l \in 0..n /\ n - (n - l) = l
    OBVIOUS
  <2>2. found[l] \in Rows
    BY <1>12, <2>1
  <2>3. l = n => found[l] = all
    BY <1>11
  <2>4. l = n => \A i \in 1..Len(inode) : found[l][i] = i
    BY <2>3 DEF all
  <2> QED BY <1>11, <2>2, <2>4
<1>14. IsSearch(found, path)
  BY <1>13 DEF IsSearch
<1> QED
  BY <1>1, <1>14

(* It ends in a node of the tree or in NULL.                               *)
LEMMA FindFileTyped ==
  ASSUME NEW m, IsForest(inode, m), Len(inode) >= 1,
         NEW path, Len(path) \in Nat
  PROVE  find_file(path) \in 0..Len(inode)
<1>1. PICK found : IsSearch(found, path) /\ find_file(path) = found[0][1]
  BY FindFileRows
<1>2. found[0] \in Rows /\ Len(inode) \in Nat
  BY <1>1 DEF IsSearch, IsForest
<1> QED
  BY <1>1, <1>2 DEF Rows

-----------------------------------------------------------------------------
(* The invariant                                                           *)

Header == [path : Seq(STRING), size : Nat]

(* What a slot holds, a process has open and a process lists, when there   *)
(* are n inodes.                                                           *)
Copies(n) == [kind : {"copy"}, inode : 1..n, off : Nat]
Lists(n) == [kind : {"tree"}, inode : 1..n]
Values(n) == {NULL, Std} \cup Copies(n) \cup Lists(n)
Opened(n) == [fd : 3..(N - 1), inode : 1..n]
Held(n) == {NoFile} \cup Opened(n)
Streams(n) == [fd : 0..N, own : Slots, inode : 1..n, names : Nat, done : Nat,
               cut : Nat]
Listed(n) == {NoStream} \cup Streams(n)

(* TypeOK, and that the tree is sound.                                     *)
Typing ==
  /\ archive \in Seq(Header) /\ at \in 1..(Len(archive) + 1)
  /\ IsForest(inode, Len(archive)) /\ Len(inode) >= 1
  /\ slot \in [Slots -> Values(Len(inode))]
  /\ fd \in [Procs -> Held(Len(inode))]
  /\ stream \in [Procs -> Listed(Len(inode))]
  /\ calls \in 0..MaxCalls
  /\ wild \in BOOLEAN /\ strayed \in BOOLEAN /\ mixed \in BOOLEAN
  /\ gone \subseteq Paths /\ lost \subseteq Slots

(* No call is made before load_tarfs is done.                              *)
Loading ==
  at <= Len(archive) =>
    /\ \A s \in Slots : slot[s] \in {NULL, Std}
    /\ \A p \in Procs : fd[p] = NoFile /\ stream[p] = NoStream

(* Only files are read, and how far.                                       *)
Offsets ==
  \A s \in Slots :
    slot[s].kind = "copy" /\ slot[s].off > 0
      => /\ ~inode[slot[s].inode].dir
         /\ slot[s].off < 2 * SizeOf(slot[s].inode)

(* A stream with entries has its descriptor, and what its directory has    *)
(* fewer entries than at opendir was unlinked since.                       *)
Entries ==
  \A p \in Procs :
    stream[p] # NoStream =>
      /\ stream[p].names > 0 => stream[p].fd = stream[p].own
      /\ Total(stream[p].inode) = stream[p].names - stream[p].cut

(* TableExact: whose slot is whose.                                        *)
ReadersOwn ==
  \A p \in Procs :
    fd[p] # NoFile => /\ slot[fd[p].fd].kind = "copy"
                      /\ slot[fd[p].fd].inode = fd[p].inode

ListersOwn ==
  \A p \in Procs :
    stream[p] # NoStream =>
      slot[stream[p].own] = [kind |-> "tree", inode |-> stream[p].inode]

Apart ==
  \A p, q \in Procs :
    /\ fd[p] # NoFile /\ fd[q] # NoFile /\ fd[p].fd = fd[q].fd => p = q
    /\ /\ stream[p] # NoStream /\ stream[q] # NoStream
       /\ stream[p].own = stream[q].own
       => p = q

LostApart ==
  \A s \in lost :
    /\ s > 2 /\ slot[s] # NULL
    /\ \A p \in Procs : /\ fd[p] # NoFile => fd[p].fd # s
                        /\ stream[p] # NoStream => stream[p].own # s

NoneElse ==
  \A s \in Slots :
    slot[s] # NULL =>
      \/ s \in 0..2 \/ s \in lost
      \/ \E p \in Procs : \/ fd[p] # NoFile /\ fd[p].fd = s
                          \/ stream[p] # NoStream /\ stream[p].own = s

Table ==
  /\ \A s \in 0..2 : slot[s] = Std
  /\ ReadersOwn /\ ListersOwn /\ Apart /\ LostApart /\ NoneElse

Exact == ~mixed => Table

IInv == Typing /\ Loading /\ Offsets /\ Entries /\ Exact

(* The kinds tell the values apart.                                        *)
LEMMA KindsTell ==
  ASSUME NEW n, NEW v \in Values(n)
  PROVE  /\ v.kind = "null" <=> v = NULL
         /\ v.kind = "copy" => v \in Copies(n)
         /\ v.kind = "tree" => v \in Lists(n)
         /\ v.kind = "std" => v = Std
         /\ v.kind \in {"null", "std", "copy", "tree"}
<1>1. NULL.kind = "null" /\ Std.kind = "std"
  BY DEF NULL, Std
<1>2. /\ \A x \in Copies(n) : x.kind = "copy"
      /\ \A x \in Lists(n) : x.kind = "tree"
  BY DEF Copies, Lists
<1>3. v = NULL \/ v = Std \/ v \in Copies(n) \/ v \in Lists(n)
  BY DEF Values
<1> QED
  BY <1>1, <1>2, <1>3

(* So do descriptors.                                                      *)
LEMMA HeldTell ==
  ASSUME NEW n
  PROVE  /\ \A x \in Held(n) : x # NoFile => x \in Opened(n)
         /\ \A x \in Listed(n) : x # NoStream => x \in Streams(n)
         /\ NoFile.fd \notin Slots
         /\ \A s, i : [fd |-> s, inode |-> i] = NoFile => s = -1
<1>1. NoFile.fd = -1
  BY DEF NoFile, None
<1>2. NoFile.fd \notin Slots
  BY <1>1 DEF Slots
<1>3. ASSUME NEW s, NEW i, [fd |-> s, inode |-> i] = NoFile
      PROVE  s = -1
  <2> DEFINE x == [fd |-> s, inode |-> i]
  <2>1. x.fd = s
    OBVIOUS
  <2>2. x = NoFile
    BY <1>3
  <2> HIDE DEF x
  <2> QED BY <1>1, <2>1, <2>2
<1> QED
  BY <1>2, <1>3 DEF Held, Listed

(* Paths are sequences, and so is what unlink looks a directory up with.   *)
LEMMA PathsAre ==
  ASSUME archive \in Seq(Header)
  PROVE  \E S : /\ STRING \subseteq S
                /\ \A path \in Paths : path \in Seq(S) /\ ParentOf(path) \in Seq(S)
<1> DEFINE S == STRING \cup {"none", "none/"}
<1>1. \A h \in Headers : h \in Seq(S)
  <2>1. \A h \in DOMAIN archive : archive[h] \in Header
    OBVIOUS
  <2>2. \A x \in Header : x.path \in Seq(STRING)
    BY DEF Header
  <2>3. STRING \subseteq S
    OBVIOUS
  <2> HIDE DEF S
  <2>4. \A x \in Header : x.path \in Seq(S)
    BY <2>2, <2>3, SeqGrows
  <2> QED BY <2>1, <2>4 DEF Headers
<1>2. "none" \in S /\ "none/" \in S /\ STRING \subseteq S
  OBVIOUS
<1> HIDE DEF S
<1>3. \A s \in Seq(S) : Front(s) \in Seq(S)
  <2> SUFFICES ASSUME NEW s \in Seq(S) PROVE Front(s) \in Seq(S)
    OBVIOUS
  <2>1. \A i \in 1..(Len(s) - 1) : s[i] \in S
    OBVIOUS
  <2> QED BY <2>1, SubSeqProperties DEF Front
<1>4. ASSUME NEW path \in Paths PROVE path \in Seq(S)
  <2>1. CASE path \in Headers
    BY <1>1, <2>1
  <2>2. CASE path \in {Front(h) : h \in Headers}
    BY <1>1, <1>3, <2>2
  <2>3. CASE path \in {<<"none">>, <<"none/">>, <<"none/", "none">>}
    <3>1. \A a, b \in S : <<a>> \in Seq(S) /\ <<a, b>> \in Seq(S)
      OBVIOUS
    <3> QED BY <1>2, <2>3, <3>1, Zenon
  <2> QED BY <2>1, <2>2, <2>3 DEF Paths
<1>5. \A path \in Paths : path \in Seq(S) /\ ParentOf(path) \in Seq(S)
  BY <1>3, <1>4 DEF ParentOf
<1> QED
  BY <1>2, <1>5

LEMMA PathsTyped ==
  ASSUME archive \in Seq(Header), NEW path \in Paths
  PROVE  Len(path) \in Nat /\ Len(ParentOf(path)) \in Nat
<1>1. PICK S : path \in Seq(S) /\ ParentOf(path) \in Seq(S)
  BY PathsAre
<1> QED
  BY <1>1

-----------------------------------------------------------------------------
(* What most steps share                                                   *)

LEMMA InitInv == Init => IInv
<1> SUFFICES ASSUME Init PROVE IInv
  OBVIOUS
<1> USE DEF Init
<1> DEFINE n == Len(inode)
<1>1. n = 1
  OBVIOUS
<1>2. archive \in Seq(Header)
  BY ArchivesAssumption DEF Header
<1>3. IsForest(inode, Len(archive))
  <2> DEFINE x == DirNode
  <2>1. x \in NodesUpTo(1) /\ Sound(x, Len(archive))
    <3>1. <<>> \in Seq(EntriesUpTo(1)) /\ Len(<<>>) = 0
      OBVIOUS
    <3> QED BY <3>1 DEF DirNode, NodesUpTo, Sound
  <2> DEFINE T == NodesUpTo(1)
  <2> HIDE DEF x, T
  <2>2. x \in T
    BY <2>1 DEF T
  <2>3. <<x>> \in Seq(T) /\ Len(<<x>>) = 1 /\ <<x>>[1] = x
    BY <2>2
  <2>4. inode = <<x>>
    BY DEF x
  <2>5. inode \in Seq(NodesUpTo(Len(inode)))
    BY <2>3, <2>4 DEF T
  <2>6. \A i \in 1..Len(inode) : inode[i] = x
    BY <2>3, <2>4
  <2> QED BY <2>1, <2>5, <2>6 DEF IsForest
<1>4. Typing
  <2>1. slot \in [Slots -> Values(n)]
    BY DEF Values
  <2>2. fd \in [Procs -> Held(n)] /\ stream \in [Procs -> Listed(n)]
    BY DEF Held, Listed
  <2>3. at \in 1..(Len(archive) + 1) /\ calls \in 0..MaxCalls
    BY <1>2
  <2>4. /\ wild \in BOOLEAN /\ strayed \in BOOLEAN /\ mixed \in BOOLEAN
        /\ gone \subseteq Paths /\ lost \subseteq Slots
    OBVIOUS
  <2> QED BY <1>1, <1>2, <1>3, <2>1, <2>2, <2>3, <2>4 DEF Typing
<1>5. Loading
  BY DEF Loading
<1>6. Offsets
  <2>1. \A s \in Slots : slot[s].kind # "copy"
    BY DEF NULL, Std
  <2> QED BY <2>1 DEF Offsets
<1>7. Entries
  BY DEF Entries
<1>8. Exact
  <2>1. \A s \in 0..2 : slot[s] = Std
    BY DEF Slots
  <2>2. ReadersOwn /\ ListersOwn /\ Apart /\ LostApart
    BY DEF ReadersOwn, ListersOwn, Apart, LostApart
  <2>3. NoneElse
    BY DEF NoneElse, Slots
  <2> QED BY <2>1, <2>2, <2>3 DEF Exact, Table
<1> QED
  BY <1>4, <1>5, <1>6, <1>7, <1>8 DEF IInv

(* A turn of load_tarfs.                                                   *)
LEMMA LoadKeeps == IInv /\ load_tarfs => IInv'
<1> SUFFICES ASSUME IInv, load_tarfs PROVE IInv'
  OBVIOUS
<1> DEFINE m == Len(archive)
<1>1. /\ archive \in Seq(Header) /\ m \in Nat /\ at \in 1..(m + 1) /\ at <= m
      /\ IsForest(inode, m) /\ Len(inode) >= 1
  BY DEF IInv, Typing, load_tarfs
<1>2. /\ archive' = archive /\ at' = at + 1
      /\ UNCHANGED <<slot, fd, stream, calls, wild, gone, strayed, mixed, lost>>
  BY DEF load_tarfs, history
<1>3. inode' = Walk(archive[at].path, inode, at)
  BY DEF load_tarfs, Walk
<1>4. at \in 1..m /\ archive[at].path \in Seq(STRING)
  <2>1. at \in 1..m /\ archive[at] \in Header
    BY <1>1
  <2> QED BY <2>1 DEF Header
<1>5. IsForest(inode', m) /\ Len(inode') >= 1
  <2> HIDE DEF m
  <2> QED BY <1>1, <1>3, <1>4, WalkKeeps
<1>6. /\ \A s \in Slots : slot[s] \in {NULL, Std}
      /\ \A p \in Procs : fd[p] = NoFile /\ stream[p] = NoStream
  BY <1>1 DEF IInv, Loading
<1>7. Typing'
  <2>1. slot' \in [Slots -> Values(Len(inode'))]
    BY <1>2, <1>6 DEF Values, IInv, Typing
  <2>2. fd' \in [Procs -> Held(Len(inode'))]
    BY <1>2, <1>6 DEF Held, IInv, Typing
  <2>3. stream' \in [Procs -> Listed(Len(inode'))]
    BY <1>2, <1>6 DEF Listed, IInv, Typing
  <2>4. archive' \in Seq(Header) /\ at' \in 1..(Len(archive') + 1)
    BY <1>1, <1>2
  <2>5. calls' \in 0..MaxCalls /\ lost' \subseteq Slots
    BY <1>2 DEF IInv, Typing
  <2>6. gone' \subseteq Paths'
    BY <1>2 DEF IInv, Typing, Paths, Headers
  <2>7. wild' \in BOOLEAN /\ strayed' \in BOOLEAN /\ mixed' \in BOOLEAN
    BY <1>2, Zenon DEF IInv, Typing
  <2>8. IsForest(inode', Len(archive')) /\ Len(inode') >= 1
    BY <1>2, <1>5
  <2> QED BY <2>1, <2>2, <2>3, <2>4, <2>5, <2>6, <2>7, <2>8, Zenon DEF Typing
<1>8. Loading'
  BY <1>2, <1>6 DEF Loading
<1>9. Offsets'
  <2>1. \A s \in Slots : slot'[s].kind # "copy"
    BY <1>2, <1>6 DEF NULL, Std
  <2> QED BY <2>1 DEF Offsets
<1>10. Entries'
  BY <1>2, <1>6 DEF Entries
<1>11. Exact'
  BY <1>2 DEF IInv, Exact, Table, ReadersOwn, ListersOwn, Apart, LostApart,
              NoneElse
<1> QED
  BY <1>7, <1>8, <1>9, <1>10, <1>11 DEF IInv

(* Steps that do not touch the tree.                                       *)
LEMMA TypingKept ==
  ASSUME Typing, Call, inode' = inode, wild' \in BOOLEAN,
         slot' \in [Slots -> Values(Len(inode))],
         fd' \in [Procs -> Held(Len(inode))],
         stream' \in [Procs -> Listed(Len(inode))],
         gone' = gone, strayed' = strayed, mixed' \in BOOLEAN,
         lost' \subseteq Slots
  PROVE  Typing'
<1>1. archive' = archive /\ at' = at
  BY DEF Call, boot
<1>2. archive' \in Seq(Header) /\ at' \in 1..(Len(archive') + 1)
  BY <1>1 DEF Typing
<1>3. IsForest(inode', Len(archive')) /\ Len(inode') >= 1
  BY <1>1 DEF Typing
<1>4. calls' \in 0..MaxCalls
  BY DEF Call, Typing
<1>5. gone' \subseteq Paths'
  BY <1>1 DEF Typing, Paths, Headers
<1>6. strayed' \in BOOLEAN
  BY Zenon DEF Typing
<1>7. /\ slot' \in [Slots -> Values(Len(inode'))]
      /\ fd' \in [Procs -> Held(Len(inode'))]
      /\ stream' \in [Procs -> Listed(Len(inode'))]
  OBVIOUS
<1> QED
  BY <1>2, <1>3, <1>4, <1>5, <1>6, <1>7, Zenon DEF Typing

LEMMA LoadingKept == ASSUME Typing, Call PROVE Loading'
<1>1. at' > Len(archive') /\ at' \in Nat /\ Len(archive') \in Nat
  BY DEF Call, boot, Typing
<1> QED
  BY <1>1 DEF Loading

LEMMA OffsetsKept ==
  ASSUME Offsets, Call, inode' = inode,
         \A s \in Slots : \/ slot'[s] = slot[s]
                          \/ slot'[s].kind # "copy"
                          \/ slot'[s].off = 0
  PROVE  Offsets'
<1>1. archive' = archive
  BY DEF Call, boot
<1>2. ASSUME NEW s \in Slots, slot'[s].kind = "copy", slot'[s].off > 0
      PROVE  slot'[s] = slot[s]
  BY <1>2
<1> QED
  BY <1>1, <1>2 DEF Offsets, SizeOf

LEMMA EntriesKept ==
  ASSUME Entries, inode' = inode,
         \A p \in Procs : stream'[p] = NoStream \/ stream'[p] = stream[p]
  PROVE  Entries'
BY DEF Entries, Total

(* Calls that only return, or end the kernel.                              *)
LEMMA GoesKeeps ==
  ASSUME IInv, Call, NEW b \in BOOLEAN, Goes(b)
  PROVE  IInv'
<1>1. /\ wild' = b /\ archive' = archive
      /\ UNCHANGED <<inode, slot, fd, stream, gone, strayed, mixed, lost>>
  BY DEF Goes, history, Call, boot
<1>2. Typing'
  <2>1. /\ slot' \in [Slots -> Values(Len(inode))]
        /\ fd' \in [Procs -> Held(Len(inode))]
        /\ stream' \in [Procs -> Listed(Len(inode))]
        /\ lost' \subseteq Slots
    BY <1>1 DEF IInv, Typing
  <2>2. mixed' \in BOOLEAN /\ wild' \in BOOLEAN
    BY <1>1, Zenon DEF IInv, Typing
  <2> QED BY <1>1, <2>1, <2>2, TypingKept DEF IInv
<1>3. Loading'
  BY LoadingKept DEF IInv
<1>4. Offsets'
  BY <1>1, OffsetsKept DEF IInv
<1>5. Entries'
  BY <1>1, EntriesKept DEF IInv
<1>6. Exact'
  BY <1>1 DEF IInv, Exact, Table, ReadersOwn, ListersOwn, Apart, LostApart,
              NoneElse
<1> QED
  BY <1>2, <1>3, <1>4, <1>5, <1>6 DEF IInv

-----------------------------------------------------------------------------
(* The table of descriptors                                                *)

(* Where descriptors point, and what tells an occupied slot.               *)
LEMMA TableFacts ==
  ASSUME Typing
  PROVE  /\ \A s \in Slots : slot[s].kind = "null" <=> slot[s] = NULL
         /\ \A p \in Procs : fd[p] # NoFile =>
              fd[p].fd \in Slots /\ fd[p].fd > 2 /\ fd[p].fd \in 3..(N - 1)
         /\ \A p \in Procs : stream[p] # NoStream =>
              stream[p].own \in Slots /\ stream[p].fd \in 0..N
         /\ \A x : [kind |-> "tree", inode |-> x].kind = "tree"
<1> DEFINE n == Len(inode)
<1>1. \A s \in Slots : slot[s].kind = "null" <=> slot[s] = NULL
  <2>1. \A s \in Slots : slot[s] \in Values(n)
    BY DEF Typing
  <2> QED BY <2>1, KindsTell
<1>2. \A p \in Procs : fd[p] # NoFile => fd[p] \in Opened(n)
  BY HeldTell DEF Typing
<1>3. \A p \in Procs : stream[p] # NoStream => stream[p] \in Streams(n)
  BY HeldTell DEF Typing
<1>4. \A p \in Procs : fd[p] # NoFile => fd[p].fd \in 3..(N - 1)
  BY <1>2 DEF Opened
<1>5. \A x \in 3..(N - 1) : x \in Slots /\ x > 2
  BY DEF Slots
<1>6. \A p \in Procs : stream[p] # NoStream =>
        stream[p].own \in Slots /\ stream[p].fd \in 0..N
  BY <1>3 DEF Streams
<1> QED
  BY <1>1, <1>4, <1>5, <1>6

(* The lowest free slot.                                                   *)
LEMMA LowestFree ==
  ASSUME NEW k \in Nat, Free(k) # {}
  PROVE  /\ Lowest(Free(k)) \in Slots /\ Lowest(Free(k)) >= k
         /\ slot[Lowest(Free(k))] = NULL
<1>1. Free(k) \in SUBSET Nat
  BY DEF Free
<1>2. Lowest(Free(k)) \in Free(k)
  BY <1>1, LowestIn
<1> QED
  BY <1>2 DEF Free, Slots

(* sys_open.                                                               *)
LEMMA OpenKeeps ==
  ASSUME IInv, NEW p \in Procs, NEW path \in Paths, sys_open(p, path)
  PROVE  IInv'
<1> DEFINE n == Len(inode)
           i == find_file(path)
           s == Lowest(Free(3))
           c == [kind |-> "copy", inode |-> i, off |-> 0]
           o == [fd |-> s, inode |-> i]
<1>1. Typing /\ Call /\ fd[p] = NoFile /\ i # 0 /\ Free(3) # {}
  BY DEF IInv, sys_open
<1>2. /\ slot' = [slot EXCEPT ![s] = c] /\ fd' = [fd EXCEPT ![p] = o]
      /\ UNCHANGED <<inode, stream, wild, gone, strayed, mixed, lost>>
  BY DEF sys_open, history
<1>21. stream' = stream /\ lost' = lost /\ mixed' = mixed
  BY <1>2
<1>3. i \in 1..n
  <2>1. Len(path) \in Nat
    BY <1>1, PathsTyped DEF Typing
  <2>2. i \in 0..n
    BY <1>1, <2>1, FindFileTyped DEF Typing
  <2>3. n \in Nat
    BY <1>1 DEF Typing, IsForest
  <2> QED BY <1>1, <2>2, <2>3
<1>4. s \in Slots /\ s >= 3 /\ slot[s] = NULL /\ s \in 3..(N - 1)
  BY <1>1, LowestFree DEF Slots
<1> HIDE DEF i, s, n
<1>5. /\ c.kind = "copy" /\ c.inode = i /\ c.off = 0 /\ c \in Copies(n)
      /\ c \in Values(n)
  BY <1>3 DEF Copies, Values
<1>6. o # NoFile /\ o.fd = s /\ o.inode = i /\ o \in Held(n)
  <2>1. o \in Opened(n) /\ o.fd = s /\ o.inode = i
    BY <1>3, <1>4 DEF Opened
  <2>2. s # -1
    BY <1>4
  <2> QED BY <2>1, <2>2, HeldTell DEF Held
<1> HIDE DEF c, o
<1>7. /\ slot \in [Slots -> Values(n)] /\ fd \in [Procs -> Held(n)]
      /\ stream \in [Procs -> Listed(n)] /\ lost \subseteq Slots
  BY <1>1 DEF Typing, n
<1>8. /\ slot'[s] = c /\ \A t \in Slots : t # s => slot'[t] = slot[t]
      /\ fd'[p] = o /\ \A q \in Procs : q # p => fd'[q] = fd[q]
  BY <1>2, <1>4, <1>7
<1>9. Typing'
  <2>1. slot' \in [Slots -> Values(n)]
    BY <1>2, <1>5, <1>7
  <2>2. fd' \in [Procs -> Held(n)]
    BY <1>2, <1>6, <1>7
  <2>3. mixed' \in BOOLEAN /\ wild' \in BOOLEAN
    BY <1>1, <1>2, Zenon DEF Typing
  <2>4. stream' \in [Procs -> Listed(n)] /\ lost' \subseteq Slots
    BY <1>2, <1>7
  <2> QED BY <1>1, <1>2, <2>1, <2>2, <2>3, <2>4, TypingKept DEF n
<1>10. Loading'
  BY <1>1, LoadingKept
<1>11. Offsets'
  BY <1>1, <1>2, <1>5, <1>8, OffsetsKept DEF IInv
<1>12. Entries'
  BY <1>2, EntriesKept DEF IInv
<1>13. Exact'
  <2> SUFFICES ASSUME ~mixed' PROVE Table'
    BY DEF Exact
  <2>1. Table
    BY <1>2 DEF IInv, Exact
  <2>2. NULL.kind = "null" /\ c # NULL
    BY <1>5 DEF NULL
  <2> HIDE DEF NULL
  <2>3. \A t \in 0..2 : slot'[t] = Std
    BY <1>4, <1>8, <2>1 DEF Table, Slots
  <2>4. ReadersOwn'
    <3>1. \A q \in Procs : fd[q] # NoFile => fd[q].fd \in Slots /\ fd[q].fd # s
      BY <1>1, <1>4, <2>1, <2>2, TableFacts DEF Table, ReadersOwn
    <3> QED BY <1>5, <1>6, <1>8, <2>1, <3>1 DEF Table, ReadersOwn
  <2>5. ListersOwn'
    <3>1. \A q \in Procs : stream[q] # NoStream =>
             stream[q].own \in Slots /\ stream[q].own # s
      BY <1>1, <1>4, <2>1, <2>2, TableFacts DEF Table, ListersOwn
    <3> QED BY <1>2, <1>8, <2>1, <3>1 DEF Table, ListersOwn
  <2>6. Apart'
    <3>1. \A q \in Procs : fd[q] # NoFile => fd[q].fd # s
      BY <1>1, <1>4, <2>1, <2>2, TableFacts DEF Table, ReadersOwn
    <3> QED BY <1>2, <1>6, <1>8, <2>1, <3>1 DEF Table, Apart
  <2>7. LostApart'
    <3>1. \A t \in lost : t # s /\ t \in Slots
      BY <1>4, <1>7, <2>1 DEF Table, LostApart
    <3>2. ASSUME NEW t \in lost
          PROVE  /\ t > 2 /\ slot'[t] # NULL
                 /\ \A q \in Procs : /\ fd'[q] # NoFile => fd'[q].fd # t
                                     /\ stream[q] # NoStream => stream[q].own # t
      <4>1. /\ t > 2 /\ slot[t] # NULL
            /\ \A q \in Procs : /\ fd[q] # NoFile => fd[q].fd # t
                                /\ stream[q] # NoStream => stream[q].own # t
        BY <2>1 DEF Table, LostApart
      <4>2. slot'[t] = slot[t] /\ t # s
        BY <1>8, <3>1
      <4>3. \A q \in Procs : fd'[q] # NoFile => fd'[q].fd # t
        <5> SUFFICES ASSUME NEW q \in Procs, fd'[q] # NoFile
                     PROVE  fd'[q].fd # t
          OBVIOUS
        <5>1. CASE q = p
          BY <1>6, <1>8, <4>2, <5>1
        <5>2. CASE q # p
          BY <1>8, <4>1, <5>2, Zenon
        <5> QED BY <5>1, <5>2
      <4> QED BY <4>1, <4>2, <4>3, Zenon
    <3> QED BY <1>21, <3>2 DEF LostApart
  <2>8. NoneElse'
    <3> SUFFICES ASSUME NEW t \in Slots, slot'[t] # NULL
                 PROVE  \/ t \in 0..2 \/ t \in lost
                        \/ \E q \in Procs :
                             \/ fd'[q] # NoFile /\ fd'[q].fd = t
                             \/ stream[q] # NoStream /\ stream[q].own = t
      BY <1>21, Zenon DEF NoneElse
    <3>1. CASE t = s
      BY <1>6, <1>8, <3>1
    <3>2. CASE t # s
      <4>1. \/ t \in 0..2 \/ t \in lost
            \/ \E q \in Procs : \/ fd[q] # NoFile /\ fd[q].fd = t
                                \/ stream[q] # NoStream /\ stream[q].own = t
        BY <1>8, <2>1, <3>2 DEF Table, NoneElse
      <4>2. \A q \in Procs : fd[q] # NoFile => fd'[q] = fd[q]
        BY <1>1, <1>8
      <4> QED BY <4>1, <4>2
    <3> QED BY <3>1, <3>2
  <2> QED BY <2>3, <2>4, <2>5, <2>6, <2>7, <2>8 DEF Table
<1> QED
  BY <1>9, <1>10, <1>11, <1>12, <1>13 DEF IInv

(* Where a read leaves the offset.                                         *)
LEMMA AdvanceBound ==
  ASSUME NEW off \in Nat, NEW size \in Nat, NEW k \in Nat \ {0}
  PROVE  /\ Advance(off, size, k) \in Nat
         /\ \/ Advance(off, size, k) = 0
            \/ off + Advance(off, size, k) < 2 * size
BY DEF Advance, AtEnd

(* sys_read.                                                               *)
LEMMA ReadKeeps ==
  ASSUME IInv, NEW p \in Procs, NEW k \in Requests, sys_read(p, k)
  PROVE  IInv'
<1> DEFINE n == Len(inode)
           t == fd[p].fd
           x == slot[t]
           z == SizeOf(x.inode)
           a == Advance(x.off, z, k)
           v == [x EXCEPT !.off = x.off + a]
<1>1. Typing /\ Call /\ fd[p] # NoFile
  BY DEF IInv, sys_read
<1>2. CASE Goes(TRUE) \/ Goes(FALSE)
  BY <1>1, <1>2, GoesKeeps
<1>3. CASE /\ x.kind = "copy" /\ ~inode[x.inode].dir
           /\ slot' = [slot EXCEPT ![t].off = @ + Advance(@, z, k)]
           /\ UNCHANGED <<inode, fd, stream, wild, history>>
  <2>1. /\ slot \in [Slots -> Values(n)] /\ fd \in [Procs -> Held(n)]
        /\ stream \in [Procs -> Listed(n)] /\ lost \subseteq Slots
        /\ IsForest(inode, Len(archive)) /\ archive \in Seq(Header)
    BY <1>1 DEF Typing
  <2>2. /\ inode' = inode /\ fd' = fd /\ stream' = stream /\ lost' = lost
        /\ mixed' = mixed /\ wild' = wild /\ gone' = gone /\ strayed' = strayed
    BY <1>3 DEF history
  <2>3. t \in Slots
    BY <1>1, TableFacts
  <2>4. x \in Copies(n)
    BY <1>3, <2>1, <2>3, KindsTell
  <2>5. x.inode \in 1..n /\ x.off \in Nat
    BY <2>4 DEF Copies
  <2>6. z \in Nat
    <3> DEFINE y == inode[x.inode]
    <3>1. y.header \in 1..Len(archive)
      BY <1>3, <2>1, <2>5 DEF IsForest, Sound
    <3>2. archive[y.header] \in Header
      BY <2>1, <3>1
    <3> QED BY <3>2 DEF SizeOf, Header
  <2>7. slot' = [slot EXCEPT ![t] = v]
    BY <1>3
  <2> HIDE DEF z, t, x, n
  <2>8. /\ a \in Nat
        /\ a = 0 \/ x.off + a < 2 * z
    BY <2>5, <2>6, AdvanceBound
  <2> HIDE DEF a
  <2>9. /\ v \in Copies(n) /\ v.kind = "copy" /\ v.inode = x.inode
        /\ v.off = x.off + a
    BY <1>3, <2>4, <2>5, <2>8 DEF Copies
  <2> HIDE DEF v
  <2>10. slot'[t] = v /\ \A u \in Slots : u # t => slot'[u] = slot[u]
    BY <2>1, <2>3, <2>7
  <2>11. Typing'
    <3>1. slot' \in [Slots -> Values(n)]
      <4>1. v \in Values(n)
        BY <2>9 DEF Values
      <4> QED BY <2>1, <2>7, <4>1
    <3>2. mixed' \in BOOLEAN /\ wild' \in BOOLEAN
      BY <1>1, <2>2, Zenon DEF Typing
    <3>3. /\ fd' \in [Procs -> Held(n)] /\ stream' \in [Procs -> Listed(n)]
          /\ lost' \subseteq Slots
      BY <2>1, <2>2
    <3> QED BY <1>1, <2>2, <3>1, <3>2, <3>3, TypingKept DEF n
  <2>12. Loading'
    BY <1>1, LoadingKept
  <2>13. Offsets'
    <3>1. archive' = archive
      BY <1>1 DEF Call, boot
    <3>2. \A i : SizeOf(i)' = SizeOf(i)
      BY <2>2, <3>1 DEF SizeOf
    <3>3. ASSUME NEW u \in Slots, slot'[u].kind = "copy", slot'[u].off > 0
          PROVE  /\ ~inode[slot'[u].inode].dir
                 /\ slot'[u].off < 2 * SizeOf(slot'[u].inode)
      <4>1. CASE u # t
        BY <2>10, <3>3, <4>1 DEF IInv, Offsets
      <4>2. CASE u = t
        <5>1. slot'[u] = v /\ SizeOf(v.inode) = z
          BY <2>9, <2>10, <4>2 DEF z
        <5>2. v.off < 2 * z
          <6>1. CASE a = 0
            <7>1. v.off = x.off /\ x.off > 0
              BY <2>5, <2>9, <3>3, <5>1, <6>1
            <7>2. x.off < 2 * SizeOf(x.inode)
              BY <1>3, <2>3, <7>1 DEF IInv, Offsets, x
            <7> QED BY <7>1, <7>2 DEF z
          <6>2. CASE x.off + a < 2 * z
            BY <2>9, <6>2
          <6> QED BY <2>8, <6>1, <6>2
        <5>3. ~inode[v.inode].dir
          BY <1>3, <2>9
        <5> QED BY <5>1, <5>2, <5>3
      <4> QED BY <4>1, <4>2
    <3> QED BY <2>2, <3>2, <3>3, Zenon DEF Offsets
  <2>14. Entries'
    BY <2>2, EntriesKept DEF IInv
  <2>15. Exact'
    <3> SUFFICES ASSUME ~mixed' PROVE Table'
      BY DEF Exact
    <3>1. Table
      BY <2>2 DEF IInv, Exact
    <3>2. NULL.kind = "null" /\ Std.kind = "std" /\ v # NULL /\ x # NULL
      BY <1>3, <2>9 DEF NULL, Std
    <3>3. \A u \in 0..2 : slot'[u] = Std
      <4>1. \A u \in 0..2 : u \in Slots /\ u # t
        BY <1>1, TableFacts DEF Slots, t
      <4> QED BY <2>10, <3>1, <4>1 DEF Table
    <3>4. ReadersOwn'
      <4>1. \A q \in Procs : fd[q] # NoFile => fd[q].fd \in Slots
        BY <1>1, TableFacts
      <4>2. ASSUME NEW q \in Procs, fd[q] # NoFile
            PROVE  /\ slot'[fd[q].fd].kind = "copy"
                   /\ slot'[fd[q].fd].inode = fd[q].inode
        <5>1. slot[fd[q].fd].kind = "copy" /\ slot[fd[q].fd].inode = fd[q].inode
          BY <3>1, <4>2 DEF Table, ReadersOwn
        <5>2. CASE fd[q].fd = t
          BY <2>9, <2>10, <5>1, <5>2 DEF x
        <5>3. CASE fd[q].fd # t
          BY <2>10, <4>1, <4>2, <5>1, <5>3
        <5> QED BY <5>2, <5>3
      <4> QED BY <2>2, <4>2 DEF ReadersOwn
    <3>5. ListersOwn'
      <4>1. ASSUME NEW q \in Procs, stream[q] # NoStream
            PROVE  slot'[stream[q].own] =
                     [kind |-> "tree", inode |-> stream[q].inode]
        <5> DEFINE l == [kind |-> "tree", inode |-> stream[q].inode]
        <5>1. l.kind = "tree"
          OBVIOUS
        <5>2. slot[stream[q].own] = l
          BY <3>1, <4>1 DEF Table, ListersOwn
        <5> HIDE DEF l
        <5>3. stream[q].own # t
          BY <1>3, <5>1, <5>2 DEF x
        <5>4. stream[q].own \in Slots
          BY <1>1, <4>1, TableFacts
        <5>5. slot'[stream[q].own] = l
          BY <2>10, <5>2, <5>3, <5>4
        <5> QED BY <5>5 DEF l
      <4> QED BY <2>2, <4>1 DEF ListersOwn
    <3>6. Apart'
      BY <2>2, <3>1 DEF Table, Apart
    <3>7. \A u \in Slots : slot'[u] = NULL <=> slot[u] = NULL
      BY <2>10, <3>2 DEF x
    <3>8. LostApart'
      <4>1. \A u \in lost : slot[u] # NULL => slot'[u] # NULL
        BY <2>1, <3>7
      <4> QED BY <2>2, <3>1, <4>1, Zenon DEF Table, LostApart
    <3>9. NoneElse'
      BY <2>2, <3>1, <3>7, Zenon DEF Table, NoneElse
    <3> QED BY <3>3, <3>4, <3>5, <3>6, <3>8, <3>9 DEF Table
  <2> QED BY <2>11, <2>12, <2>13, <2>14, <2>15 DEF IInv
<1> QED
  BY <1>2, <1>3 DEF sys_read

(* A slot is cleared.                                                      *)
LEMMA ClearedTyped ==
  ASSUME Typing, NEW t \in Slots
  PROVE  /\ Cleared(t) \in [Slots -> Values(Len(inode))]
         /\ Cleared(t)[t] = NULL
         /\ \A u \in Slots : u # t => Cleared(t)[u] = slot[u]
<1> DEFINE V == Values(Len(inode))
<1>1. slot \in [Slots -> V] /\ NULL \in V
  BY DEF Typing, Values
<1> HIDE DEF V
<1>2. Cleared(t) = [slot EXCEPT ![t] = NULL]
  BY DEF Cleared
<1>3. Cleared(t) \in [Slots -> V]
  BY <1>1, <1>2
<1>4. Cleared(t)[t] = NULL /\ \A u \in Slots : u # t => Cleared(t)[u] = slot[u]
  BY <1>1, <1>2
<1> QED
  BY <1>3, <1>4 DEF V

(* The kind of an empty slot.                                              *)
LEMMA NullKind == NULL.kind = "null" /\ Std.kind = "std"
BY DEF NULL, Std

(* sys_close.                                                              *)
LEMMA CloseKeeps ==
  ASSUME IInv, NEW p \in Procs, sys_close(p)
  PROVE  IInv'
<1> DEFINE n == Len(inode)
           t == fd[p].fd
<1>1. Typing /\ Call /\ fd[p] # NoFile
  BY DEF IInv, sys_close
<1>2. slot' = Cleared(t) /\ fd' = [fd EXCEPT ![p] = NoFile]
  BY DEF sys_close
<1>3. /\ inode' = inode /\ stream' = stream /\ lost' = lost
      /\ mixed' = mixed /\ wild' = wild /\ gone' = gone /\ strayed' = strayed
  BY DEF sys_close, history
<1>4. t \in Slots /\ t > 2
  BY <1>1, TableFacts
<1>5. /\ slot \in [Slots -> Values(n)] /\ fd \in [Procs -> Held(n)]
      /\ stream \in [Procs -> Listed(n)] /\ lost \subseteq Slots
  BY <1>1 DEF Typing
<1> HIDE DEF t, n
<1>6. /\ slot'[t] = NULL /\ \A u \in Slots : u # t => slot'[u] = slot[u]
      /\ slot' \in [Slots -> Values(n)]
  BY <1>1, <1>2, <1>4, ClearedTyped DEF n
<1>7. fd'[p] = NoFile /\ \A q \in Procs : q # p => fd'[q] = fd[q]
  BY <1>2, <1>5
<1>8. Typing'
  <2>1. fd' \in [Procs -> Held(n)]
    <3>1. NoFile \in Held(n)
      BY DEF Held
    <3> QED BY <1>2, <1>5, <3>1
  <2>2. mixed' \in BOOLEAN /\ wild' \in BOOLEAN
    BY <1>1, <1>3, Zenon DEF Typing
  <2>3. stream' \in [Procs -> Listed(n)] /\ lost' \subseteq Slots
    BY <1>3, <1>5
  <2> QED BY <1>1, <1>3, <1>6, <2>1, <2>2, <2>3, TypingKept DEF n
<1>9. Loading'
  BY <1>1, LoadingKept
<1>10. Offsets'
  <2>1. \A u \in Slots : slot'[u] = slot[u] \/ slot'[u].kind # "copy"
    BY <1>6, NullKind
  <2> QED BY <1>1, <1>3, <2>1, OffsetsKept DEF IInv
<1>11. Entries'
  BY <1>3, EntriesKept DEF IInv
<1>12. Exact'
  <2> SUFFICES ASSUME ~mixed' PROVE Table'
    BY DEF Exact
  <2>1. Table
    BY <1>3 DEF IInv, Exact
  <2>2. slot[t].kind = "copy"
    BY <1>1, <2>1 DEF Table, ReadersOwn, t
  <2>3. \A u \in 0..2 : slot'[u] = Std
    <3>1. \A u \in 0..2 : u \in Slots /\ u # t
      BY <1>4 DEF Slots
    <3> QED BY <1>6, <2>1, <3>1 DEF Table
  <2>4. ReadersOwn'
    <3>1. ASSUME NEW q \in Procs, fd'[q] # NoFile
          PROVE  /\ q # p /\ fd'[q] = fd[q] /\ fd[q].fd \in Slots
                 /\ fd[q].fd # t
      <4>1. q # p /\ fd'[q] = fd[q]
        BY <1>7, <3>1
      <4>2. fd[q] # NoFile /\ fd[q].fd \in Slots
        BY <1>1, <3>1, <4>1, TableFacts
      <4>3. fd[q].fd # fd[p].fd
        BY <1>1, <2>1, <4>1, <4>2 DEF Table, Apart
      <4> QED BY <4>1, <4>2, <4>3 DEF t
    <3>2. ASSUME NEW q \in Procs, fd'[q] # NoFile
          PROVE  /\ slot'[fd'[q].fd].kind = "copy"
                 /\ slot'[fd'[q].fd].inode = fd'[q].inode
      <4>1. /\ fd'[q] = fd[q] /\ fd[q] # NoFile
            /\ slot'[fd[q].fd] = slot[fd[q].fd]
        BY <1>6, <3>1, <3>2
      <4>2. slot[fd[q].fd].kind = "copy" /\ slot[fd[q].fd].inode = fd[q].inode
        BY <2>1, <4>1 DEF Table, ReadersOwn
      <4> QED BY <4>1, <4>2
    <3> QED BY <3>2 DEF ReadersOwn
  <2>5. ListersOwn'
    <3>1. \A q \in Procs : stream[q] # NoStream =>
            stream[q].own \in Slots /\ stream[q].own # t
      BY <1>1, <2>1, <2>2, TableFacts, ZenonT(60) DEF Table, ListersOwn
    <3>2. \A q \in Procs : stream[q] # NoStream =>
            slot'[stream[q].own] = slot[stream[q].own]
      BY <1>6, <3>1
    <3> QED BY <1>3, <2>1, <3>2 DEF Table, ListersOwn
  <2>6. Apart'
    BY <1>3, <1>7, <2>1, Zenon DEF Table, Apart
  <2>7. LostApart'
    <3>1. \A u \in lost : u \in Slots /\ u # t
      BY <1>1, <1>5, <2>1 DEF Table, LostApart, t
    <3>2. ASSUME NEW u \in lost
          PROVE  /\ u > 2 /\ slot'[u] # NULL
                 /\ \A q \in Procs : fd'[q] # NoFile => fd'[q].fd # u
                 /\ \A q \in Procs : stream[q] # NoStream => stream[q].own # u
      <4>1. /\ u > 2 /\ slot[u] # NULL
            /\ \A q \in Procs : fd[q] # NoFile => fd[q].fd # u
            /\ \A q \in Procs : stream[q] # NoStream => stream[q].own # u
        BY <2>1 DEF Table, LostApart
      <4>2. slot'[u] = slot[u]
        BY <1>6, <3>1
      <4> QED BY <1>7, <4>1, <4>2, Zenon
    <3> QED BY <1>3, <3>2 DEF LostApart
  <2>8. NoneElse'
    <3> SUFFICES ASSUME NEW u \in Slots, slot'[u] # NULL
                 PROVE  \/ u \in 0..2 \/ u \in lost
                        \/ \E q \in Procs :
                             \/ fd'[q] # NoFile /\ fd'[q].fd = u
                             \/ stream[q] # NoStream /\ stream[q].own = u
      BY <1>3 DEF NoneElse
    <3>1. u # t /\ slot[u] # NULL
      BY <1>6
    <3>2. \/ u \in 0..2 \/ u \in lost
          \/ \E q \in Procs : \/ fd[q] # NoFile /\ fd[q].fd = u
                              \/ stream[q] # NoStream /\ stream[q].own = u
      BY <2>1, <3>1 DEF Table, NoneElse
    <3>3. \A q \in Procs : fd[q].fd = u => q # p
      BY <3>1 DEF t
    <3> QED BY <1>7, <3>2, <3>3
  <2> QED BY <2>3, <2>4, <2>5, <2>6, <2>7, <2>8 DEF Table
<1> QED
  BY <1>8, <1>9, <1>10, <1>11, <1>12 DEF IInv

(* sys_closedir.  If it clears its own slot the table stays exact.         *)
LEMMA ClosedirKeeps ==
  ASSUME IInv, NEW p \in Procs, sys_closedir(p)
  PROVE  IInv'
<1> DEFINE n == Len(inode)
           f == stream[p].fd
           t == stream[p].own
<1>1. Typing /\ Call /\ stream[p] # NoStream
  BY DEF IInv, sys_closedir
<1>2. /\ slot' = IF f \in Slots THEN Cleared(f) ELSE slot
      /\ stream' = [stream EXCEPT ![p] = NoStream]
      /\ mixed' = (mixed \/ f # t)
      /\ lost' = IF f # t THEN lost \cup {t} ELSE lost
  BY DEF sys_closedir
<1>3. /\ inode' = inode /\ fd' = fd
      /\ wild' = wild /\ gone' = gone /\ strayed' = strayed
  BY DEF sys_closedir
<1>4. t \in Slots
  BY <1>1, TableFacts
<1>5. /\ slot \in [Slots -> Values(n)] /\ fd \in [Procs -> Held(n)]
      /\ stream \in [Procs -> Listed(n)] /\ lost \subseteq Slots
  BY <1>1 DEF Typing
<1> HIDE DEF t, n, f
<1>6. /\ slot' \in [Slots -> Values(n)]
      /\ \A u \in Slots : slot'[u] = NULL \/ slot'[u] = slot[u]
  <2>1. CASE f \in Slots
    BY <1>1, <1>2, <2>1, ClearedTyped DEF n
  <2>2. CASE f \notin Slots
    BY <1>2, <1>5, <2>2
  <2> QED BY <2>1, <2>2
<1>7. stream'[p] = NoStream /\ \A q \in Procs : q # p => stream'[q] = stream[q]
  BY <1>2, <1>5
<1>8. Typing'
  <2>1. stream' \in [Procs -> Listed(n)]
    <3>1. NoStream \in Listed(n)
      BY DEF Listed
    <3> QED BY <1>2, <1>5, <3>1
  <2>2. wild' \in BOOLEAN
    BY <1>1, <1>3, Zenon DEF Typing
  <2>3. fd' \in [Procs -> Held(n)] /\ lost' \subseteq Slots
    BY <1>2, <1>3, <1>4, <1>5
  <2>4. mixed' \in BOOLEAN
    BY <1>2, Zenon
  <2> QED BY <1>1, <1>3, <1>6, <2>1, <2>2, <2>3, <2>4, TypingKept DEF n
<1>9. Loading'
  BY <1>1, LoadingKept
<1>10. Offsets'
  <2>1. \A u \in Slots : slot'[u] = slot[u] \/ slot'[u].kind # "copy"
    BY <1>6, NullKind
  <2> QED BY <1>1, <1>3, <2>1, OffsetsKept DEF IInv
<1>11. Entries'
  <2>1. \A q \in Procs : stream'[q] = NoStream \/ stream'[q] = stream[q]
    BY <1>7
  <2> QED BY <1>3, <2>1, EntriesKept DEF IInv
<1>12. Exact'
  <2> SUFFICES ASSUME ~mixed' PROVE Table'
    BY DEF Exact
  <2>0. ~mixed /\ f = t
    BY <1>2
  <2>1. Table
    BY <2>0 DEF IInv, Exact
  <2>2. slot[t].kind = "tree"
    <3> DEFINE l == [kind |-> "tree", inode |-> stream[p].inode]
    <3>1. slot[t] = l
      BY <1>1, <2>1 DEF Table, ListersOwn, t
    <3>2. l.kind = "tree"
      OBVIOUS
    <3> HIDE DEF l
    <3> QED BY <3>1, <3>2
  <2>3. lost' = lost
    BY <1>2, <2>0
  <2>4. /\ slot'[t] = NULL /\ \A u \in Slots : u # t => slot'[u] = slot[u]
    BY <1>1, <1>2, <1>4, <2>0, ClearedTyped
  <2>5. \A u \in 0..2 : slot'[u] = Std
    <3>1. \A u \in 0..2 : slot[u] = Std
      BY <2>1 DEF Table
    <3>2. \A u \in 0..2 : u \in Slots /\ u # t
      BY <2>2, <3>1, NullKind DEF Slots
    <3> QED BY <2>4, <3>1, <3>2
  <2>6. ReadersOwn'
    <3>1. \A q \in Procs : fd[q] # NoFile => fd[q].fd \in Slots /\ fd[q].fd # t
      BY <1>1, <2>1, <2>2, TableFacts DEF Table, ReadersOwn
    <3>2. \A q \in Procs : fd[q] # NoFile => slot'[fd[q].fd] = slot[fd[q].fd]
      BY <2>4, <3>1
    <3> QED BY <1>3, <2>1, <3>2 DEF Table, ReadersOwn
  <2>7. ListersOwn'
    <3>1. ASSUME NEW q \in Procs, stream'[q] # NoStream
          PROVE  slot'[stream'[q].own] =
                   [kind |-> "tree", inode |-> stream'[q].inode]
      <4>1. q # p /\ stream'[q] = stream[q] /\ stream[q] # NoStream
        BY <1>7, <3>1
      <4>2. stream[q].own \in Slots /\ stream[q].own # t
        BY <1>1, <2>1, <4>1, TableFacts DEF Table, Apart, t
      <4>3. slot[stream[q].own] = [kind |-> "tree", inode |-> stream[q].inode]
        BY <2>1, <4>1 DEF Table, ListersOwn
      <4>4. slot'[stream[q].own] = slot[stream[q].own]
        BY <2>4, <4>2
      <4> QED BY <4>1, <4>3, <4>4
    <3> QED BY <3>1 DEF ListersOwn
  <2>8. Apart'
    BY <1>3, <1>7, <2>1, Zenon DEF Table, Apart
  <2>9. LostApart'
    <3>1. \A u \in lost : u \in Slots /\ u # t
      BY <1>1, <1>5, <2>1 DEF Table, LostApart, t
    <3>2. ASSUME NEW u \in lost
          PROVE  /\ u > 2 /\ slot'[u] # NULL
                 /\ \A q \in Procs : fd[q] # NoFile => fd[q].fd # u
                 /\ \A q \in Procs : stream'[q] # NoStream => stream'[q].own # u
      <4>1. /\ u > 2 /\ slot[u] # NULL
            /\ \A q \in Procs : fd[q] # NoFile => fd[q].fd # u
            /\ \A q \in Procs : stream[q] # NoStream => stream[q].own # u
        BY <2>1 DEF Table, LostApart
      <4>2. slot'[u] = slot[u]
        BY <2>4, <3>1
      <4> QED BY <1>7, <4>1, <4>2, Zenon
    <3> QED BY <1>3, <2>3, <3>2 DEF LostApart
  <2>10. NoneElse'
    <3> SUFFICES ASSUME NEW u \in Slots, slot'[u] # NULL
                 PROVE  \/ u \in 0..2 \/ u \in lost
                        \/ \E q \in Procs :
                             \/ fd[q] # NoFile /\ fd[q].fd = u
                             \/ stream'[q] # NoStream /\ stream'[q].own = u
      BY <1>3, <2>3 DEF NoneElse
    <3>1. u # t /\ slot[u] # NULL
      BY <2>4
    <3>2. \/ u \in 0..2 \/ u \in lost
          \/ \E q \in Procs : \/ fd[q] # NoFile /\ fd[q].fd = u
                              \/ stream[q] # NoStream /\ stream[q].own = u
      BY <2>1, <3>1 DEF Table, NoneElse
    <3>3. \A q \in Procs : stream[q].own = u => q # p
      BY <3>1 DEF t
    <3> QED BY <1>7, <3>2, <3>3
  <2> QED BY <2>5, <2>6, <2>7, <2>8, <2>9, <2>10 DEF Table
<1> QED
  BY <1>8, <1>9, <1>10, <1>11, <1>12 DEF IInv

(* sys_exit: what a process had open stays in the table, lost.             *)
LEMMA ExitKeeps ==
  ASSUME IInv, NEW p \in Procs, sys_exit(p)
  PROVE  IInv'
<1> DEFINE n == Len(inode)
           L == IF fd[p] = NoFile THEN {} ELSE {fd[p].fd}
           M == IF stream[p] = NoStream THEN {} ELSE {stream[p].own}
<1>1. Typing /\ Call
  BY DEF IInv, sys_exit
<1>2. /\ fd' = [fd EXCEPT ![p] = NoFile]
      /\ stream' = [stream EXCEPT ![p] = NoStream]
      /\ inode' = inode /\ slot' = slot /\ mixed' = mixed
      /\ wild' = wild /\ gone' = gone /\ strayed' = strayed
  BY DEF sys_exit
<1>3. lost' = lost \cup L \cup M
  <2>1. {fd[p].fd} \cap Slots = L
    <3>1. CASE fd[p] = NoFile
      BY <3>1, HeldTell
    <3>2. CASE fd[p] # NoFile
      <4>1. fd[p].fd \in Slots
        BY <1>1, <3>2, TableFacts
      <4> QED BY <3>2, <4>1
    <3> QED BY <3>1, <3>2
  <2> HIDE DEF L
  <2> QED BY <2>1 DEF sys_exit
<1>4. /\ slot \in [Slots -> Values(n)] /\ fd \in [Procs -> Held(n)]
      /\ stream \in [Procs -> Listed(n)] /\ lost \subseteq Slots
  BY <1>1 DEF Typing
<1> HIDE DEF n
<1>5. /\ fd'[p] = NoFile /\ stream'[p] = NoStream
      /\ \A q \in Procs : q # p => fd'[q] = fd[q] /\ stream'[q] = stream[q]
  BY <1>2, <1>4
<1>6. Typing'
  <2>1. fd' \in [Procs -> Held(n)]
    <3>1. NoFile \in Held(n)
      BY DEF Held
    <3> QED BY <1>2, <1>4, <3>1
  <2>2. stream' \in [Procs -> Listed(n)]
    <3>1. NoStream \in Listed(n)
      BY DEF Listed
    <3> QED BY <1>2, <1>4, <3>1
  <2>3. mixed' \in BOOLEAN /\ wild' \in BOOLEAN
    BY <1>1, <1>2, Zenon DEF Typing
  <2>4. slot' \in [Slots -> Values(n)]
    BY <1>2, <1>4
  <2>5. lost' \subseteq Slots
    BY <1>1, <1>3, <1>4, TableFacts
  <2> QED BY <1>1, <1>2, <2>1, <2>2, <2>3, <2>4, <2>5, TypingKept DEF n
<1>7. Loading'
  BY <1>1, LoadingKept
<1>8. Offsets'
  BY <1>1, <1>2, OffsetsKept DEF IInv
<1>9. Entries'
  <2>1. \A q \in Procs : stream'[q] = NoStream \/ stream'[q] = stream[q]
    BY <1>5
  <2> QED BY <1>2, <2>1, EntriesKept DEF IInv
<1>10. Exact'
  <2> SUFFICES ASSUME ~mixed' PROVE Table'
    BY DEF Exact
  <2>0. slot' = slot
    BY <1>2
  <2>1. Table
    BY <1>2 DEF IInv, Exact
  <2>2. \A u \in 0..2 : slot'[u] = Std
    BY <2>0, <2>1 DEF Table
  <2>3. ReadersOwn'
    BY <1>5, <2>0, <2>1, Zenon DEF Table, ReadersOwn
  <2>4. ListersOwn'
    BY <1>5, <2>0, <2>1, Zenon DEF Table, ListersOwn
  <2>5. Apart'
    BY <1>5, <2>1, Zenon DEF Table, Apart
  <2>6. LostApart'
    <3> SUFFICES ASSUME NEW u \in lost'
                 PROVE  /\ u > 2 /\ slot[u] # NULL
                        /\ \A q \in Procs : fd'[q] # NoFile => fd'[q].fd # u
                        /\ \A q \in Procs :
                             stream'[q] # NoStream => stream'[q].own # u
      BY <2>0 DEF LostApart
    <3>1. CASE u \in lost
      <4>1. /\ u > 2 /\ slot[u] # NULL
            /\ \A q \in Procs : fd[q] # NoFile => fd[q].fd # u
            /\ \A q \in Procs : stream[q] # NoStream => stream[q].own # u
        BY <2>1, <3>1 DEF Table, LostApart
      <4> QED BY <1>5, <4>1, Zenon
    <3>2. CASE u \in L
      <4>1. fd[p] # NoFile /\ u = fd[p].fd
        BY <3>2
      <4>2. slot[u].kind = "copy" /\ u > 2 /\ u \in Slots
        BY <1>1, <2>1, <4>1, TableFacts DEF Table, ReadersOwn
      <4>3. slot[u] # NULL
        BY <4>2, NullKind
      <4>4. \A q \in Procs : fd[q] # NoFile /\ q # p => fd[q].fd # u
        BY <2>1, <4>1 DEF Table, Apart
      <4>5. \A q \in Procs : stream[q] # NoStream => stream[q].own # u
        BY <1>1, <2>1, <4>2, TableFacts, ZenonT(60) DEF Table, ListersOwn
      <4> QED BY <1>5, <4>2, <4>3, <4>4, <4>5, Zenon
    <3>3. CASE u \in M
      <4> DEFINE l == [kind |-> "tree", inode |-> stream[p].inode]
      <4>1. stream[p] # NoStream /\ u = stream[p].own
        BY <3>3
      <4>2. u \in Slots /\ l.kind = "tree"
        BY <1>1, <4>1, TableFacts
      <4>3. slot[u] = l
        BY <2>1, <4>1 DEF Table, ListersOwn
      <4> HIDE DEF l
      <4>4. slot[u] # NULL /\ slot[u] # Std
        BY <4>2, <4>3, NullKind
      <4>5. u > 2
        BY <2>1, <4>2, <4>4 DEF Table, Slots
      <4>6. \A q \in Procs : stream[q] # NoStream /\ q # p => stream[q].own # u
        BY <2>1, <4>1 DEF Table, Apart
      <4>7. \A q \in Procs : fd[q] # NoFile => fd[q].fd # u
        BY <2>1, <4>2, <4>3 DEF Table, ReadersOwn
      <4> QED BY <1>5, <4>4, <4>5, <4>6, <4>7, Zenon
    <3> HIDE DEF L, M
    <3> QED BY <1>3, <3>1, <3>2, <3>3
  <2>7. NoneElse'
    <3> SUFFICES ASSUME NEW u \in Slots, slot[u] # NULL
                 PROVE  \/ u \in 0..2 \/ u \in lost'
                        \/ \E q \in Procs :
                             \/ fd'[q] # NoFile /\ fd'[q].fd = u
                             \/ stream'[q] # NoStream /\ stream'[q].own = u
      BY <2>0 DEF NoneElse
    <3>1. \/ u \in 0..2 \/ u \in lost
          \/ \E q \in Procs : \/ fd[q] # NoFile /\ fd[q].fd = u
                              \/ stream[q] # NoStream /\ stream[q].own = u
      BY <2>1 DEF Table, NoneElse
    <3>2. CASE u \in 0..2 \/ u \in lost
      BY <1>3, <3>2
    <3>3. CASE \E q \in Procs : \/ fd[q] # NoFile /\ fd[q].fd = u
                                \/ stream[q] # NoStream /\ stream[q].own = u
      <4>1. PICK q \in Procs : \/ fd[q] # NoFile /\ fd[q].fd = u
                               \/ stream[q] # NoStream /\ stream[q].own = u
        BY <3>3
      <4>2. CASE q = p
        <5>1. u \in L \/ u \in M
          BY <4>1, <4>2
        <5> HIDE DEF L, M
        <5> QED BY <1>3, <5>1
      <4>3. CASE q # p
        BY <1>5, <4>1, <4>3
      <4> QED BY <4>2, <4>3
    <3> QED BY <3>1, <3>2, <3>3
  <2> QED BY <2>2, <2>3, <2>4, <2>5, <2>6, <2>7 DEF Table
<1> QED
  BY <1>6, <1>7, <1>8, <1>9, <1>10 DEF IInv

(* sys_readdir.                                                            *)
LEMMA ReaddirKeeps ==
  ASSUME IInv, NEW p \in Procs, sys_readdir(p)
  PROVE  IInv'
<1> DEFINE n == Len(inode)
           x == stream[p]
           y == [x EXCEPT !.done = @ + 1]
<1>1. Typing /\ Call /\ x # NoStream
  BY DEF IInv, sys_readdir
<1>2. CASE Goes(TRUE) \/ Goes(FALSE)
  BY <1>1, <1>2, GoesKeeps
<1>3. CASE /\ stream' = [stream EXCEPT ![p].done = @ + 1]
           /\ UNCHANGED <<inode, slot, fd, wild, history>>
  <2>1. /\ slot \in [Slots -> Values(n)] /\ fd \in [Procs -> Held(n)]
        /\ stream \in [Procs -> Listed(n)] /\ lost \subseteq Slots
    BY <1>1 DEF Typing
  <2>2. /\ inode' = inode /\ fd' = fd /\ slot' = slot /\ lost' = lost
        /\ mixed' = mixed /\ wild' = wild /\ gone' = gone /\ strayed' = strayed
    BY <1>3 DEF history
  <2>3. stream' = [stream EXCEPT ![p] = y]
    BY <1>3
  <2>4. x \in Streams(n)
    BY <1>1, <2>1, HeldTell
  <2> HIDE DEF x, n
  <2>5. /\ y \in Streams(n) /\ y.fd = x.fd /\ y.own = x.own
        /\ y.inode = x.inode /\ y.names = x.names /\ y.cut = x.cut
    BY <2>4 DEF Streams
  <2>6. x.fd # -1 /\ y # NoStream
    <3>1. y.fd \in 0..N /\ NoStream.fd = -1
      BY <2>5 DEF Streams, NoStream, None
    <3> HIDE DEF y
    <3> QED BY <2>5, <3>1
  <2> HIDE DEF y
  <2>7. stream'[p] = y /\ \A q \in Procs : q # p => stream'[q] = stream[q]
    BY <2>1, <2>3
  <2>8. \A q \in Procs :
          /\ stream'[q] # NoStream <=> stream[q] # NoStream
          /\ stream[q] # NoStream =>
               /\ stream'[q].fd = stream[q].fd /\ stream'[q].own = stream[q].own
               /\ stream'[q].inode = stream[q].inode
               /\ stream'[q].names = stream[q].names
               /\ stream'[q].cut = stream[q].cut
    BY <1>1, <2>5, <2>6, <2>7 DEF x
  <2>9. Typing'
    <3>1. stream' \in [Procs -> Listed(n)]
      <4>1. y \in Listed(n)
        BY <2>5 DEF Listed
      <4> QED BY <2>1, <2>3, <4>1
    <3>2. mixed' \in BOOLEAN /\ wild' \in BOOLEAN
      BY <1>1, <2>2, Zenon DEF Typing
    <3>3. /\ fd' \in [Procs -> Held(n)] /\ slot' \in [Slots -> Values(n)]
          /\ lost' \subseteq Slots
      BY <2>1, <2>2
    <3> QED BY <1>1, <2>2, <3>1, <3>2, <3>3, TypingKept DEF n
  <2>10. Loading'
    BY <1>1, LoadingKept
  <2>11. Offsets'
    BY <1>1, <2>2, OffsetsKept DEF IInv
  <2>12. Entries'
    <3>1. \A i : Total(i)' = Total(i)
      BY <2>2 DEF Total
    <3> QED BY <2>8, <3>1 DEF IInv, Entries
  <2>13. Exact'
    <3> SUFFICES ASSUME ~mixed' PROVE Table'
      BY DEF Exact
    <3>1. Table
      BY <2>2 DEF IInv, Exact
    <3>2. (\A u \in 0..2 : slot'[u] = Std) /\ ReadersOwn'
      BY <2>2, <3>1 DEF Table, ReadersOwn
    <3>3. ListersOwn'
      BY <2>2, <2>8, <3>1 DEF Table, ListersOwn
    <3>4. Apart' /\ LostApart'
      BY <2>2, <2>8, <3>1 DEF Table, Apart, LostApart
    <3>5. NoneElse'
      BY <2>2, <2>8, <3>1 DEF Table, NoneElse
    <3> QED BY <3>1, <3>2, <3>3, <3>4, <3>5 DEF Table
  <2> QED BY <2>9, <2>10, <2>11, <2>12, <2>13 DEF IInv
<1> QED
  BY <1>2, <1>3 DEF sys_readdir

(* sys_opendir.                                                            *)
LEMMA OpendirKeeps ==
  ASSUME IInv, NEW p \in Procs, NEW path \in Paths, NEW g \in 0..N,
         sys_opendir(p, path, g)
  PROVE  IInv'
<1> DEFINE n == Len(inode)
           i == find_file(path)
           s == Lowest(Free(0))
           k == Total(i)
           f == IF k > 0 THEN s ELSE g
           c == [kind |-> "tree", inode |-> i]
           o == [fd |-> f, own |-> s, inode |-> i, names |-> k, done |-> 0,
                 cut |-> 0]
<1>1. /\ Typing /\ Call /\ stream[p] = NoStream /\ i # 0 /\ Free(0) # {}
      /\ inode[i].nfiles >= 0
  BY DEF IInv, sys_opendir
<1>2. slot' = [slot EXCEPT ![s] = c] /\ stream' = [stream EXCEPT ![p] = o]
  BY DEF sys_opendir
<1>3. /\ inode' = inode /\ fd' = fd /\ lost' = lost /\ mixed' = mixed
      /\ wild' = wild /\ gone' = gone /\ strayed' = strayed
  BY DEF sys_opendir, history
<1>4. i \in 1..n
  <2>1. Len(path) \in Nat
    BY <1>1, PathsTyped DEF Typing
  <2>2. i \in 0..n
    BY <1>1, <2>1, FindFileTyped DEF Typing
  <2>3. n \in Nat
    BY <1>1 DEF Typing, IsForest
  <2> QED BY <1>1, <2>2, <2>3
<1>5. s \in Slots /\ slot[s] = NULL /\ s \in 0..N
  BY <1>1, LowestFree DEF Slots
<1>6. k \in Nat
  <2>1. inode[i] \in NodesUpTo(n)
    BY <1>1, <1>4 DEF Typing, IsForest
  <2>2. /\ Len(inode[i].dirs) \in Nat /\ inode[i].nfiles \in Int
    BY <2>1 DEF NodesUpTo
  <2> QED BY <1>1, <2>2 DEF Total
<1>61. k = Total(i)
  OBVIOUS
<1> HIDE DEF i, s, n, k
<1>7. /\ c.kind = "tree" /\ c.inode = i /\ c \in Lists(n) /\ c \in Values(n)
  BY <1>4 DEF Lists, Values
<1>8. f \in 0..N /\ (k > 0 => f = s)
  BY <1>5
<1> HIDE DEF f
<1>9. /\ o \in Streams(n) /\ o.fd = f /\ o.own = s /\ o.inode = i
      /\ o.names = k /\ o.cut = 0
  BY <1>4, <1>5, <1>6, <1>8 DEF Streams
<1> HIDE DEF o
<1>10. o # NoStream /\ o \in Listed(n)
  <2>1. NoStream.fd = -1 /\ o.fd # -1
    BY <1>8, <1>9 DEF NoStream, None
  <2> QED BY <1>9, <2>1 DEF Listed
<1>11. /\ slot \in [Slots -> Values(n)] /\ fd \in [Procs -> Held(n)]
       /\ stream \in [Procs -> Listed(n)] /\ lost \subseteq Slots
  BY <1>1 DEF Typing, n
<1>12. c = [kind |-> "tree", inode |-> i]
  OBVIOUS
<1> HIDE DEF c
<1>13. /\ slot'[s] = c /\ \A t \in Slots : t # s => slot'[t] = slot[t]
       /\ stream'[p] = o /\ \A q \in Procs : q # p => stream'[q] = stream[q]
  BY <1>2, <1>5, <1>11
<1>14. Typing'
  <2>1. slot' \in [Slots -> Values(n)]
    BY <1>2, <1>7, <1>11
  <2>2. stream' \in [Procs -> Listed(n)]
    BY <1>2, <1>10, <1>11
  <2>3. mixed' \in BOOLEAN /\ wild' \in BOOLEAN
    BY <1>1, <1>3, Zenon DEF Typing
  <2>4. fd' \in [Procs -> Held(n)] /\ lost' \subseteq Slots
    BY <1>3, <1>11
  <2> QED BY <1>1, <1>3, <2>1, <2>2, <2>3, <2>4, TypingKept DEF n
<1>15. Loading'
  BY <1>1, LoadingKept
<1>16. Offsets'
  <2>1. \A t \in Slots : slot'[t] = slot[t] \/ slot'[t].kind # "copy"
    BY <1>7, <1>13
  <2> QED BY <1>1, <1>3, <2>1, OffsetsKept DEF IInv
<1>17. Entries'
  <2>1. \A j : Total(j)' = Total(j)
    BY <1>3 DEF Total
  <2>2. ASSUME NEW q \in Procs, stream'[q] # NoStream
        PROVE  /\ stream'[q].names > 0 => stream'[q].fd = stream'[q].own
               /\ Total(stream'[q].inode) = stream'[q].names - stream'[q].cut
    <3>1. CASE q = p
      <4>1. stream'[q] = o
        BY <1>13, <3>1
      <4>2. Total(o.inode) = o.names - o.cut
        BY <1>6, <1>61, <1>9
      <4>3. o.names > 0 => o.fd = o.own
        BY <1>8, <1>9
      <4> QED BY <4>1, <4>2, <4>3
    <3>2. CASE q # p
      <4>1. stream'[q] = stream[q]
        BY <1>13, <3>2
      <4> QED BY <2>2, <4>1 DEF IInv, Entries
    <3> QED BY <3>1, <3>2
  <2> QED BY <2>1, <2>2, Zenon DEF Entries
<1>18. Exact'
  <2> SUFFICES ASSUME ~mixed' PROVE Table'
    BY DEF Exact
  <2>1. Table
    BY <1>3 DEF IInv, Exact
  <2>2. c # NULL
    BY <1>7, NullKind
  <2>3. \A t \in 0..2 : slot'[t] = Std /\ t # s
    <3>1. \A t \in 0..2 : slot[t] = Std /\ t \in Slots
      BY <2>1 DEF Table, Slots
    <3>2. \A t \in 0..2 : t # s
      BY <1>5, <3>1, NullKind
    <3> QED BY <1>13, <3>1, <3>2
  <2>4. ReadersOwn'
    <3>1. \A q \in Procs : fd[q] # NoFile => fd[q].fd \in Slots /\ fd[q].fd # s
      BY <1>1, <1>5, <2>1, NullKind, TableFacts DEF Table, ReadersOwn
    <3>2. \A q \in Procs : fd[q] # NoFile => slot'[fd[q].fd] = slot[fd[q].fd]
      BY <1>13, <3>1
    <3> QED BY <1>3, <2>1, <3>2 DEF Table, ReadersOwn
  <2>5. ASSUME NEW q \in Procs, stream[q] # NoStream
        PROVE  /\ stream[q].own \in Slots /\ stream[q].own # s /\ q # p
               /\ slot[stream[q].own] = [kind |-> "tree", inode |-> stream[q].inode]
    <3> DEFINE l == [kind |-> "tree", inode |-> stream[q].inode]
    <3>1. stream[q].own \in Slots /\ l.kind = "tree" /\ q # p
      BY <1>1, <2>5, TableFacts
    <3>2. slot[stream[q].own] = l
      BY <2>1, <2>5 DEF Table, ListersOwn
    <3> HIDE DEF l
    <3>3. stream[q].own # s
      BY <1>5, <3>1, <3>2, NullKind
    <3> QED BY <3>1, <3>2, <3>3 DEF l
  <2>6. ListersOwn'
    <3>1. ASSUME NEW q \in Procs, stream'[q] # NoStream
          PROVE  slot'[stream'[q].own] =
                   [kind |-> "tree", inode |-> stream'[q].inode]
      <4>1. CASE q = p
        BY <1>9, <1>12, <1>13, <4>1
      <4>2. CASE q # p
        <5>1. stream'[q] = stream[q] /\ stream[q] # NoStream
          BY <1>13, <3>1, <4>2
        <5>2. slot'[stream[q].own] = slot[stream[q].own]
          BY <1>13, <2>5, <5>1
        <5> QED BY <2>5, <5>1, <5>2
      <4> QED BY <4>1, <4>2
    <3> QED BY <3>1 DEF ListersOwn
  <2>7. Apart'
    <3>1. \A q \in Procs : stream[q] # NoStream => stream[q].own # s
      BY <2>5
    <3> QED BY <1>3, <1>9, <1>13, <2>1, <3>1 DEF Table, Apart
  <2>8. LostApart'
    <3>1. \A t \in lost : t # s /\ t \in Slots
      BY <1>5, <1>11, <2>1 DEF Table, LostApart
    <3>2. ASSUME NEW t \in lost
          PROVE  /\ t > 2 /\ slot'[t] # NULL
                 /\ \A q \in Procs : fd[q] # NoFile => fd[q].fd # t
                 /\ \A q \in Procs : stream'[q] # NoStream => stream'[q].own # t
      <4>1. /\ t > 2 /\ slot[t] # NULL
            /\ \A q \in Procs : fd[q] # NoFile => fd[q].fd # t
            /\ \A q \in Procs : stream[q] # NoStream => stream[q].own # t
        BY <2>1 DEF Table, LostApart
      <4>2. slot'[t] = slot[t] /\ t # s
        BY <1>13, <3>1
      <4>3. \A q \in Procs : stream'[q] # NoStream => stream'[q].own # t
        BY <1>9, <1>13, <4>1, <4>2
      <4> QED BY <4>1, <4>2, <4>3, Zenon
    <3> QED BY <1>3, <3>2 DEF LostApart
  <2>9. NoneElse'
    <3> SUFFICES ASSUME NEW t \in Slots, slot'[t] # NULL
                 PROVE  \/ t \in 0..2 \/ t \in lost
                        \/ \E q \in Procs :
                             \/ fd[q] # NoFile /\ fd[q].fd = t
                             \/ stream'[q] # NoStream /\ stream'[q].own = t
      BY <1>3 DEF NoneElse
    <3>1. CASE t = s
      BY <1>9, <1>10, <1>13, <3>1
    <3>2. CASE t # s
      <4>1. \/ t \in 0..2 \/ t \in lost
            \/ \E q \in Procs : \/ fd[q] # NoFile /\ fd[q].fd = t
                                \/ stream[q] # NoStream /\ stream[q].own = t
        BY <1>13, <2>1, <3>2 DEF Table, NoneElse
      <4>2. \A q \in Procs : stream[q] # NoStream => stream'[q] = stream[q]
        BY <1>1, <1>13
      <4> QED BY <4>1, <4>2
    <3> QED BY <3>1, <3>2
  <2> QED BY <2>3, <2>4, <2>6, <2>7, <2>8, <2>9 DEF Table
<1> QED
  BY <1>14, <1>15, <1>16, <1>17, <1>18 DEF IInv

-----------------------------------------------------------------------------
(* sys_unlink                                                              *)

(* The directory that loses an entry stays sound.                          *)
LEMMA TakenSound ==
  ASSUME NEW m, IsForest(inode, m), NEW i \in 1..Len(inode), NEW name
  PROVE  /\ Taken(i, name) \in NodesUpTo(Len(inode)) /\ Sound(Taken(i, name), m)
         /\ Taken(i, name).nfiles = inode[i].nfiles - 1
         /\ Taken(i, name).dirs = inode[i].dirs
         /\ Taken(i, name).header = inode[i].header
         /\ Taken(i, name).dir <=> inode[i].dir
         /\ LET found == Named(Visible(i), name)
            IN  Taken(i, name).files =
                  IF found = {} THEN inode[i].files
                  ELSE RemoveAt(inode[i].files, Lowest(found))
<1> DEFINE n == Len(inode)
           E == EntriesUpTo(n)
           x == inode[i]
           found == Named(Visible(i), name)
           f == IF found = {} THEN x.files ELSE RemoveAt(x.files, Lowest(found))
           u == [x EXCEPT !.files = f]
           c == x.nfiles - 1
           v == [u EXCEPT !.nfiles = c]
<1>1. x \in NodesUpTo(n) /\ Sound(x, m)
  BY DEF IsForest
<1>2. /\ x.files \in Seq(E) /\ Len(x.files) \in Nat /\ x.nfiles \in Int
      /\ x.nfiles <= Len(x.files) /\ (~x.dir => x.header \in 1..m)
  BY <1>1 DEF NodesUpTo, Sound
<1>3. f \in Seq(E) /\ c <= Len(f) /\ c \in Int
  <2>1. CASE found = {}
    BY <1>2, <2>1
  <2>2. CASE found # {}
    <3>1. Visible(i) \in Seq(E) /\ Len(Visible(i)) <= Len(x.files)
      BY ChildrenTyped
    <3>2. found \in SUBSET Nat /\ found \subseteq 1..Len(x.files)
      BY <1>2, <3>1 DEF Named
    <3>3. Lowest(found) \in 1..Len(x.files)
      <4> HIDE DEF found
      <4> QED BY <2>2, <3>2, LowestIn
    <3> DEFINE w == Lowest(found)
               r == RemoveAt(x.files, w)
    <3>4. f = r
      BY <2>2
    <3> HIDE DEF w, E, f
    <3>5. r \in Seq(E) /\ Len(r) = Len(x.files) - 1
      BY <1>2, <3>3, RemoveAtSeq DEF w
    <3> HIDE DEF r
    <3> QED BY <1>2, <3>4, <3>5
  <2> QED BY <2>1, <2>2
<1>4. Taken(i, name) = v
  <2> HIDE DEF f
  <2> QED BY DEF Taken, f
<1> HIDE DEF f, c, x
<1>5. /\ u \in NodesUpTo(n) /\ u.files = f /\ u.dirs = x.dirs
      /\ u.header = x.header /\ (u.dir <=> x.dir)
  BY <1>1, <1>3 DEF NodesUpTo, E
<1> HIDE DEF u
<1>6. /\ v \in NodesUpTo(n) /\ v.files = f /\ v.dirs = x.dirs
      /\ v.header = x.header /\ (v.dir <=> x.dir) /\ v.nfiles = c
  BY <1>3, <1>5 DEF NodesUpTo
<1> HIDE DEF v
<1>7. Sound(v, m)
  BY <1>2, <1>3, <1>6 DEF Sound
<1>8. Taken(i, name).files = f
  BY <1>4, <1>6
<1>9. /\ Taken(i, name) \in NodesUpTo(n) /\ Sound(Taken(i, name), m)
      /\ Taken(i, name).nfiles = x.nfiles - 1 /\ Taken(i, name).dirs = x.dirs
      /\ Taken(i, name).header = x.header /\ (Taken(i, name).dir <=> x.dir)
  BY <1>4, <1>6, <1>7 DEF c
<1> QED
  BY <1>8, <1>9, Zenon DEF x, f

TotalOf(x) == Len(x.dirs) + x.nfiles

(* The step: the streams of the directory are told of the loss.            *)
LEMMA UnlinkKeeps ==
  ASSUME IInv, NEW path \in Paths, sys_unlink(path)
  PROVE  IInv'
<1> DEFINE n == Len(inode)
           m == Len(archive)
           i == find_file(ParentOf(path))
           x == Taken(i, NameOf(path))
<1>1. Typing /\ Call /\ i # 0
  BY DEF IInv, sys_unlink
<1>2. inode' = [inode EXCEPT ![i] = x] /\ stream' = Shortened(i)
  BY DEF sys_unlink
<1>3. /\ slot' = slot /\ fd' = fd /\ wild' = wild /\ mixed' = mixed
      /\ lost' = lost
  BY DEF sys_unlink
<1>4. archive' = archive /\ at' = at
  BY <1>1 DEF Call, boot
<1>5. i \in 1..n /\ IsForest(inode, m) /\ n \in Nat /\ n >= 1
  <2>1. Len(ParentOf(path)) \in Nat
    BY <1>1, PathsTyped DEF Typing
  <2>2. i \in 0..n
    BY <1>1, <2>1, FindFileTyped DEF Typing
  <2>3. n \in Nat /\ IsForest(inode, m) /\ n >= 1
    BY <1>1 DEF Typing, IsForest
  <2> QED BY <1>1, <2>2, <2>3
<1> HIDE DEF i
<1>6. /\ x \in NodesUpTo(n) /\ Sound(x, m)
      /\ x.nfiles = inode[i].nfiles - 1 /\ x.dirs = inode[i].dirs
      /\ x.header = inode[i].header /\ (x.dir <=> inode[i].dir)
  BY <1>5, TakenSound
<1> HIDE DEF x
<1>7. /\ IsForest(inode', m) /\ Len(inode') = n
      /\ \A j \in 1..n : inode'[j] = IF j = i THEN x ELSE inode[j]
  <2> DEFINE b == [inode EXCEPT ![i] = x]
  <2>1. /\ IsForest(b, m) /\ Len(b) = Len(inode)
        /\ \A j \in 1..Len(inode) : b[j] = IF j = i THEN x ELSE inode[j]
    <3> HIDE DEF m
    <3> QED BY <1>5, <1>6, ForestKeeps
  <2>2. inode' = b
    BY <1>2
  <2> HIDE DEF b, m
  <2> QED BY <2>1, <2>2
<1>8. \A j \in 1..n : /\ inode'[j].header = inode[j].header
                      /\ inode'[j].dir <=> inode[j].dir
  BY <1>6, <1>7
<1>9. \A j \in 1..n : TotalOf(inode'[j]) =
                      IF j = i THEN TotalOf(inode[j]) - 1 ELSE TotalOf(inode[j])
  <2> SUFFICES ASSUME NEW j \in 1..n
               PROVE  TotalOf(inode'[j]) =
                        IF j = i THEN TotalOf(inode[j]) - 1
                        ELSE TotalOf(inode[j])
    OBVIOUS
  <2>1. CASE j = i
    <3>1. inode[i] \in NodesUpTo(n)
      BY <1>5 DEF IsForest
    <3>2. inode[i].nfiles \in Int /\ Len(inode[i].dirs) \in Nat
      BY <3>1 DEF NodesUpTo
    <3>3. inode'[i] = x
      BY <1>5, <1>7
    <3> QED BY <1>6, <2>1, <3>2, <3>3 DEF TotalOf
  <2>2. CASE j # i
    BY <1>7, <2>2
  <2> QED BY <2>1, <2>2
<1>10. /\ slot \in [Slots -> Values(n)] /\ fd \in [Procs -> Held(n)]
       /\ stream \in [Procs -> Listed(n)] /\ lost \subseteq Slots
  BY <1>1 DEF Typing
<1> HIDE DEF n
<1>11. ASSUME NEW q \in Procs
       PROVE  /\ stream'[q] \in Listed(n)
              /\ stream[q] = NoStream => stream'[q] = NoStream
              /\ stream[q] # NoStream =>
                   /\ stream'[q] # NoStream /\ stream'[q].fd = stream[q].fd
                   /\ stream'[q].own = stream[q].own
                   /\ stream'[q].inode = stream[q].inode
                   /\ stream'[q].names = stream[q].names
                   /\ stream'[q].cut = IF stream[q].inode = i
                                       THEN stream[q].cut + 1 ELSE stream[q].cut
  <2> DEFINE y == stream[q]
             z == [y EXCEPT !.cut = @ + 1]
  <2>1. stream'[q] = IF y # NoStream /\ y.inode = i THEN z ELSE y
    BY <1>2 DEF Shortened
  <2>2. y \in Listed(n)
    BY <1>10
  <2> HIDE DEF y
  <2>3. CASE y # NoStream /\ y.inode = i
    <3>1. y \in Streams(n)
      BY <2>2, <2>3, HeldTell
    <3>2. /\ z \in Streams(n) /\ z.fd = y.fd /\ z.own = y.own
          /\ z.inode = y.inode /\ z.names = y.names /\ z.cut = y.cut + 1
      BY <3>1 DEF Streams
    <3>3. z.fd # -1 /\ NoStream.fd = -1
      BY <3>1, <3>2 DEF Streams, NoStream, None
    <3> HIDE DEF z
    <3>4. z # NoStream /\ z \in Listed(n)
      BY <3>2, <3>3 DEF Listed
    <3> QED BY <2>1, <2>3, <3>2, <3>4 DEF y
  <2>4. CASE ~(y # NoStream /\ y.inode = i)
    <3>1. stream'[q] = y
      BY <2>1, <2>4
    <3> QED BY <2>2, <2>4, <3>1 DEF y
  <2> QED BY <2>3, <2>4
<1>12. Typing'
  <2>1. stream' \in [Procs -> Listed(n)]
    <3>1. stream' = [q \in Procs |-> stream'[q]]
      BY <1>2 DEF Shortened
    <3> QED BY <1>11, <3>1
  <2>2. mixed' \in BOOLEAN /\ wild' \in BOOLEAN
    BY <1>1, <1>3, Zenon DEF Typing
  <2>3. strayed' \in BOOLEAN
    BY Zenon DEF sys_unlink
  <2>4. gone' \subseteq Paths'
    <3>1. Paths' = Paths
      BY <1>4 DEF Paths, Headers
    <3>2. gone \subseteq Paths
      BY <1>1 DEF Typing
    <3>3. gone' \subseteq gone \cup {path}
      BY DEF sys_unlink
    <3> QED BY <3>1, <3>2, <3>3
  <2>5. archive' \in Seq(Header) /\ at' \in 1..(Len(archive') + 1)
    BY <1>1, <1>4 DEF Typing
  <2>6. calls' \in 0..MaxCalls
    BY <1>1 DEF Call, Typing
  <2>7. IsForest(inode', Len(archive')) /\ Len(inode') >= 1
    BY <1>4, <1>5, <1>7
  <2>8. /\ slot' \in [Slots -> Values(Len(inode'))]
        /\ fd' \in [Procs -> Held(Len(inode'))]
        /\ stream' \in [Procs -> Listed(Len(inode'))] /\ lost' \subseteq Slots
    BY <1>3, <1>7, <1>10, <2>1
  <2> QED BY <2>2, <2>3, <2>4, <2>5, <2>6, <2>7, <2>8, Zenon DEF Typing
<1>13. Loading'
  BY <1>1, LoadingKept
<1>14. Offsets'
  <2>1. ASSUME NEW s \in Slots, slot[s].kind = "copy", slot[s].off > 0
        PROVE  /\ ~inode'[slot[s].inode].dir
               /\ slot[s].off < 2 * SizeOf(slot[s].inode)'
    <3>1. slot[s].inode \in 1..n
      <4>1. slot[s] \in Copies(n)
        BY <1>10, <2>1, KindsTell
      <4> QED BY <4>1 DEF Copies
    <3>2. /\ ~inode[slot[s].inode].dir
          /\ slot[s].off < 2 * SizeOf(slot[s].inode)
      BY <2>1 DEF IInv, Offsets
    <3>3. SizeOf(slot[s].inode)' = SizeOf(slot[s].inode)
      BY <1>3, <1>4, <1>8, <3>1 DEF SizeOf
    <3> QED BY <1>8, <3>1, <3>2, <3>3
  <2> QED BY <1>3, <2>1 DEF Offsets
<1>15. Entries'
  <2>1. ASSUME NEW q \in Procs, stream'[q] # NoStream
        PROVE  /\ stream'[q].names > 0 => stream'[q].fd = stream'[q].own
               /\ TotalOf(inode'[stream'[q].inode]) =
                    stream'[q].names - stream'[q].cut
    <3> DEFINE y == stream[q]
    <3>1. y # NoStream
      BY <1>11, <2>1
    <3>2. y \in Streams(n)
      BY <1>10, <3>1, HeldTell
    <3>3. y.inode \in 1..n /\ y.names \in Nat /\ y.cut \in Nat
      BY <3>2 DEF Streams
    <3>4. /\ y.names > 0 => y.fd = y.own
          /\ TotalOf(inode[y.inode]) = y.names - y.cut
      BY <3>1 DEF IInv, Entries, Total, TotalOf
    <3>5. /\ stream'[q].fd = y.fd /\ stream'[q].own = y.own
          /\ stream'[q].inode = y.inode /\ stream'[q].names = y.names
          /\ stream'[q].cut = IF y.inode = i THEN y.cut + 1 ELSE y.cut
      BY <1>11, <3>1
    <3>6. TotalOf(inode'[y.inode]) =
            IF y.inode = i THEN TotalOf(inode[y.inode]) - 1
            ELSE TotalOf(inode[y.inode])
      BY <1>9, <3>3
    <3> QED BY <3>3, <3>4, <3>5, <3>6
  <2> QED BY <2>1 DEF Entries, Total, TotalOf
<1>16. Exact'
  <2> SUFFICES ASSUME ~mixed' PROVE Table'
    BY DEF Exact
  <2>1. Table
    BY <1>3 DEF IInv, Exact
  <2>2. \A q \in Procs :
          /\ stream'[q] # NoStream <=> stream[q] # NoStream
          /\ stream[q] # NoStream => /\ stream'[q].own = stream[q].own
                                     /\ stream'[q].inode = stream[q].inode
    BY <1>11
  <2>3. (\A u \in 0..2 : slot'[u] = Std) /\ ReadersOwn'
    BY <1>3, <2>1 DEF Table, ReadersOwn
  <2>4. ListersOwn'
    BY <1>3, <2>1, <2>2 DEF Table, ListersOwn
  <2>5. Apart' /\ LostApart'
    BY <1>3, <2>1, <2>2 DEF Table, Apart, LostApart
  <2>6. NoneElse'
    BY <1>3, <2>1, <2>2 DEF Table, NoneElse
  <2> QED BY <2>3, <2>4, <2>5, <2>6 DEF Table
<1> QED
  BY <1>12, <1>13, <1>14, <1>15, <1>16 DEF IInv

-----------------------------------------------------------------------------
(* The theorems                                                            *)

LEMMA StepInv == IInv /\ [Next]_vars => IInv'
<1> SUFFICES ASSUME IInv, [Next]_vars PROVE IInv'
  OBVIOUS
<1>1. CASE load_tarfs
  BY <1>1, LoadKeeps
<1>2. ASSUME NEW p \in Procs, NEW path \in Paths,
             OpenFails(p, path) \/ OpendirFails(p, path)
      PROVE  IInv'
  BY <1>2, GoesKeeps DEF OpenFails, OpendirFails
<1>3. ASSUME NEW p \in Procs, NEW path \in Paths, sys_open(p, path)
      PROVE  IInv'
  BY <1>3, OpenKeeps
<1>4. ASSUME NEW p \in Procs, NEW path \in Paths, NEW g \in 0..N,
             sys_opendir(p, path, g)
      PROVE  IInv'
  BY <1>4, OpendirKeeps
<1>5. ASSUME NEW p \in Procs, NEW n \in Requests, sys_read(p, n)
      PROVE  IInv'
  BY <1>5, ReadKeeps
<1>6. ASSUME NEW p \in Procs, sys_close(p)
      PROVE  IInv'
  BY <1>6, CloseKeeps
<1>7. ASSUME NEW p \in Procs, sys_readdir(p)
      PROVE  IInv'
  BY <1>7, ReaddirKeeps
<1>8. ASSUME NEW p \in Procs, sys_closedir(p)
      PROVE  IInv'
  BY <1>8, ClosedirKeeps
<1>9. ASSUME NEW p \in Procs, sys_exit(p)
      PROVE  IInv'
  BY <1>9, ExitKeeps
<1>10. ASSUME NEW path \in Paths, sys_unlink(path)
       PROVE  IInv'
  BY <1>10, UnlinkKeeps
<1>11. ASSUME NEW path \in Paths, UnlinkFails(path)
       PROVE  IInv'
  BY <1>11, GoesKeeps DEF UnlinkFails
<1>12. CASE UNCHANGED vars
  BY <1>12 DEF vars, IInv, Typing, Loading, Offsets, Entries, Exact, Table,
               ReadersOwn, ListersOwn, Apart, LostApart, NoneElse, Paths,
               Headers, SizeOf, Total
<1>13. CASE Finished
  BY <1>12, <1>13 DEF Finished
<1> QED
  BY <1>1, <1>2, <1>3, <1>4, <1>5, <1>6, <1>7, <1>8, <1>9, <1>10, <1>11,
     <1>12, <1>13 DEF Next

(* IInv is an inductive invariant of the file system.                      *)
THEOREM Inductive == Spec => []IInv
<1> QED
  BY InitInv, StepInv, PTL DEF Spec

(* The tree load_tarfs builds, the table of descriptors and what processes *)
(* hold of it keep their types, with any archive and any calls: lookup     *)
(* ends in a node of the tree or in NULL, a descriptor is a slot, and an   *)
(* entry of a directory always leads to an inode.                          *)
THEOREM TypeCorrect == Spec => []TypeOK
<1>1. IInv => TypeOK
  <2> SUFFICES ASSUME IInv PROVE TypeOK
    OBVIOUS
  <2>1. inode \in Seq(Nodes)
    BY DEF IInv, Typing, IsForest, Nodes, NodesUpTo, EntriesUpTo
  <2>2. slot \in [Slots ->
          {NULL, Std} \cup [kind : {"copy"}, inode : 1..Len(inode), off : Nat]
                      \cup [kind : {"tree"}, inode : 1..Len(inode)]]
    BY DEF IInv, Typing, Values, Copies, Lists
  <2>3. fd \in [Procs ->
          {NoFile} \cup [fd : 3..(N - 1), inode : 1..Len(inode)]]
    BY DEF IInv, Typing, Held, Opened
  <2>4. stream \in [Procs -> {NoStream} \cup
          [fd : 0..N, own : Slots, inode : 1..Len(inode), names : Nat,
           done : Nat, cut : Nat]]
    BY DEF IInv, Typing, Listed, Streams
  <2>5. /\ at \in 1..(Len(archive) + 1) /\ calls \in 0..MaxCalls
        /\ gone \subseteq Paths /\ lost \subseteq Slots
    BY DEF IInv, Typing
  <2>6. wild \in BOOLEAN /\ strayed \in BOOLEAN /\ mixed \in BOOLEAN
    BY Zenon DEF IInv, Typing
  <2> QED BY <2>1, <2>2, <2>3, <2>4, <2>5, <2>6, Zenon DEF TypeOK
<1> QED
  BY <1>1, Inductive, PTL

(* read_vfs reads behind the end of a file, but never as far as another    *)
(* file's length: for any archive and any sizes asked for the offset of a  *)
(* descriptor stays below twice the size of its file.                      *)
THEOREM OverrunIsBounded == Spec => []OverrunBounded
<1>1. IInv => OverrunBounded
  BY DEF IInv, Offsets, OverrunBounded
<1> QED
  BY <1>1, Inductive, PTL

(* An injective f on S into a finite set takes as many values as S has     *)
(* members.                                                                *)
LEMMA ImageSize ==
  ASSUME NEW S, NEW T, IsFiniteSet(T), NEW f \in [S -> T],
         \A x, y \in S : f[x] = f[y] => x = y
  PROVE  /\ IsFiniteSet({f[x] : x \in S})
         /\ Cardinality({f[x] : x \in S}) = Cardinality(S)
<1> DEFINE I == {f[x] : x \in S}
<1>1. IsFiniteSet(I)
  <2>1. I \subseteq T
    OBVIOUS
  <2> HIDE DEF I
  <2> QED BY <2>1, FS_Subset
<1>2. f \in [S -> I] /\ \A z \in I : \E x \in S : f[x] = z
  OBVIOUS
<1> HIDE DEF I
<1>3. f \in Injection(S, I)
  BY <1>2 DEF Injection, IsInjective
<1>4. f \in Surjection(S, I)
  BY <1>2 DEF Surjection
<1>5. Cardinality(S) = Cardinality(I)
  BY <1>1, <1>3, <1>4, FS_Injection
<1> QED
  BY <1>1, <1>5 DEF I

(* Disjoint sets.                                                          *)
LEMMA SizeOfTwo ==
  ASSUME NEW A, NEW B, IsFiniteSet(A), IsFiniteSet(B), A \cap B = {}
  PROVE  /\ IsFiniteSet(A \cup B)
         /\ Cardinality(A \cup B) = Cardinality(A) + Cardinality(B)
<1>1. /\ IsFiniteSet(A \cup B)
      /\ Cardinality(A \cup B) =
           Cardinality(A) + Cardinality(B) - Cardinality(A \cap B)
  BY FS_Union
<1>2. Cardinality(A \cap B) = 0
  BY FS_EmptySet, Zenon
<1> DEFINE a == Cardinality(A)
           b == Cardinality(B)
<1>3. a \in Nat /\ b \in Nat
  BY FS_CardinalityType
<1>4. Cardinality(A \cup B) = a + b - 0
  BY <1>1, <1>2, Zenon
<1> HIDE DEF a, b
<1>5. Cardinality(A \cup B) = a + b
  BY <1>3, <1>4
<1> QED
  BY <1>1, <1>5 DEF a, b

LEMMA SizeOfFour ==
  ASSUME NEW A, NEW B, NEW C, NEW D, IsFiniteSet(A), IsFiniteSet(B),
         IsFiniteSet(C), IsFiniteSet(D), A \cap B = {}, A \cap C = {},
         A \cap D = {}, B \cap C = {}, B \cap D = {}, C \cap D = {}
  PROVE  Cardinality(A \cup B \cup C \cup D) =
           Cardinality(A) + Cardinality(B) + Cardinality(C) + Cardinality(D)
<1> DEFINE E == A \cup B
<1>1. E \cap C = {} /\ E \cap D = {}
  OBVIOUS
<1>2. IsFiniteSet(E) /\ Cardinality(E) = Cardinality(A) + Cardinality(B)
  BY SizeOfTwo
<1> HIDE DEF E
<1> DEFINE F == E \cup C
<1>3. F \cap D = {}
  BY <1>1
<1>4. IsFiniteSet(F) /\ Cardinality(F) = Cardinality(E) + Cardinality(C)
  BY <1>1, <1>2, SizeOfTwo
<1> HIDE DEF F
<1>5. Cardinality(F \cup D) = Cardinality(F) + Cardinality(D)
  BY <1>3, <1>4, SizeOfTwo
<1>6. F \cup D = A \cup B \cup C \cup D
  BY DEF F, E
<1> QED
  BY <1>2, <1>4, <1>5, <1>6, Zenon

(* The table of descriptors, which all processes share without locks or    *)
(* owners, holds exactly what was given out: every open file and directory *)
(* has a slot of its own, and the slots in use are the three standard      *)
(* ones, those and the ones ended processes left behind, as long as no     *)
(* stream without entries has been closed.  For any number of processes.   *)
THEOREM TableIsExact == Spec => []TableExact
<1>1. IInv => TableExact
  <2> SUFFICES ASSUME IInv, ~mixed PROVE
        /\ \A p \in Readers : slot[fd[p].fd].kind = "copy"
                              /\ slot[fd[p].fd].inode = fd[p].inode
        /\ \A p \in Listers : slot[stream[p].own] =
                                [kind |-> "tree", inode |-> stream[p].inode]
        /\ Occupied = 0..2 \cup {fd[p].fd : p \in Readers} \cup lost
                           \cup {stream[p].own : p \in Listers}
        /\ Cardinality(Occupied) = 3 + Cardinality(Readers)
                                     + Cardinality(Listers) + Cardinality(lost)
    BY DEF TableExact
  <2>1. Table /\ Typing
    BY DEF IInv, Exact
  <2>2. \A p \in Readers : slot[fd[p].fd].kind = "copy"
                           /\ slot[fd[p].fd].inode = fd[p].inode
    BY <2>1 DEF Table, ReadersOwn, Readers
  <2>3. \A p \in Listers : slot[stream[p].own] =
                             [kind |-> "tree", inode |-> stream[p].inode]
    BY <2>1 DEF Table, ListersOwn, Listers
  <2> DEFINE A == {fd[p].fd : p \in Readers}
             B == {stream[p].own : p \in Listers}
  <2>4. /\ \A p \in Readers : fd[p].fd \in Slots /\ fd[p].fd > 2
        /\ \A p \in Listers : stream[p].own \in Slots
    BY <2>1, TableFacts DEF Readers, Listers
  <2>5. \A p \in Listers : slot[stream[p].own].kind = "tree"
    <3> SUFFICES ASSUME NEW p \in Listers
                 PROVE  slot[stream[p].own].kind = "tree"
      OBVIOUS
    <3> DEFINE l == [kind |-> "tree", inode |-> stream[p].inode]
    <3>1. slot[stream[p].own] = l /\ l.kind = "tree"
      BY <2>3
    <3> HIDE DEF l
    <3> QED BY <3>1
  <2>6. \A s \in A : s \in Slots /\ s > 2 /\ slot[s].kind = "copy"
    BY <2>2, <2>4
  <2>7. \A s \in B : s \in Slots /\ slot[s].kind = "tree"
    BY <2>4, <2>5
  <2>8. \A s \in 0..2 : s \in Slots /\ slot[s].kind = "std"
    BY <2>1, NullKind DEF Table, Slots
  <2>9. \A s \in lost : s \in Slots /\ s > 2 /\ slot[s] # NULL /\ s \notin A
                        /\ s \notin B
    BY <2>1 DEF Table, LostApart, Typing, Readers, Listers
  <2>10. \A s \in Slots : slot[s].kind # "null" => slot[s] # NULL
    BY NullKind
  <2>11. \A s \in Slots : slot[s] # NULL =>
            s \in 0..2 \/ s \in lost \/ s \in A \/ s \in B
    BY <2>1 DEF Table, NoneElse, Readers, Listers
  <2>12. IsFiniteSet(Slots)
    <3>1. 0 \in Int /\ N - 1 \in Int
      OBVIOUS
    <3> QED BY <3>1, FS_Interval DEF Slots
  <2>13. IsFiniteSet(A) /\ Cardinality(A) = Cardinality(Readers)
    <3> DEFINE f == [p \in Readers |-> fd[p].fd]
    <3>1. f \in [Readers -> Slots]
      BY <2>4
    <3>2. \A p, q \in Readers : f[p] = f[q] => p = q
      BY <2>1 DEF Table, Apart, Readers
    <3>3. A = {f[p] : p \in Readers}
      OBVIOUS
    <3> HIDE DEF f, A
    <3> QED BY <2>12, <3>1, <3>2, <3>3, ImageSize
  <2>14. IsFiniteSet(B) /\ Cardinality(B) = Cardinality(Listers)
    <3> DEFINE f == [p \in Listers |-> stream[p].own]
    <3>1. f \in [Listers -> Slots]
      BY <2>4
    <3>2. \A p, q \in Listers : f[p] = f[q] => p = q
      BY <2>1 DEF Table, Apart, Listers
    <3>3. B = {f[p] : p \in Listers}
      OBVIOUS
    <3> HIDE DEF f, B
    <3> QED BY <2>12, <3>1, <3>2, <3>3, ImageSize
  <2>15. IsFiniteSet(lost)
    <3>1. lost \subseteq Slots
      BY <2>1 DEF Typing
    <3> QED BY <2>12, <3>1, FS_Subset
  <2>16. IsFiniteSet(0..2) /\ Cardinality(0..2) = 3
    <3>1. 0 \in Int /\ 2 \in Int
      OBVIOUS
    <3>2. IsFiniteSet(0..2) /\ Cardinality(0..2) = IF 0 > 2 THEN 0 ELSE 2 - 0 + 1
      BY <3>1, FS_Interval, Zenon
    <3> QED BY <3>2
  <2> HIDE DEF A, B
  <2>17. Occupied = 0..2 \cup A \cup lost \cup B
    BY <2>6, <2>7, <2>8, <2>9, <2>10, <2>11 DEF Occupied
  <2> DEFINE S == 0..2
  <2>18. /\ S \cap A = {} /\ S \cap lost = {} /\ S \cap B = {}
         /\ A \cap lost = {} /\ A \cap B = {} /\ lost \cap B = {}
    BY <2>6, <2>7, <2>8, <2>9
  <2> HIDE DEF S
  <2>19. Cardinality(S \cup A \cup lost \cup B) =
           Cardinality(S) + Cardinality(A) + Cardinality(lost) + Cardinality(B)
    BY <2>13, <2>14, <2>15, <2>16, <2>18, SizeOfFour DEF S
  <2>20. Cardinality(Occupied) = 3 + Cardinality(Readers)
                                   + Cardinality(Listers) + Cardinality(lost)
    <3>1. /\ Cardinality(A) \in Nat /\ Cardinality(B) \in Nat
          /\ Cardinality(lost) \in Nat
      BY <2>13, <2>14, <2>15, FS_CardinalityType
    <3>2. Cardinality(Occupied) =
            3 + Cardinality(A) + Cardinality(lost) + Cardinality(B)
      BY <2>16, <2>17, <2>19 DEF S
    <3> QED BY <2>13, <2>14, <3>1, <3>2
  <2> QED BY <2>2, <2>3, <2>17, <2>20 DEF A, B
<1> QED
  BY <1>1, Inductive, PTL

(* do_readdir counts the entries of whatever its slot holds, and yet a     *)
(* listing that ends has returned every entry there was at opendir, but    *)
(* for one per file unlinked in between: for any number of processes that  *)
(* open, close and unlink meanwhile.                                       *)
THEOREM ListingsAreComplete == Spec => ReaddirComplete
<1>1. IInv /\ [Next]_vars =>
        [\A p \in Procs :
           sys_readdir(p) /\ ~wild' /\ ~mixed /\ stream' = stream
             => stream[p].names - stream[p].done <= stream[p].cut]_vars
  <2> SUFFICES ASSUME IInv, NEW p \in Procs, sys_readdir(p), ~wild', ~mixed,
                      stream' = stream
               PROVE  stream[p].names - stream[p].done <= stream[p].cut
    OBVIOUS
  <2> DEFINE x == stream[p]
             o == Occupant(x.fd)
             l == [kind |-> "tree", inode |-> x.inode]
  <2>1. Typing /\ Table /\ x # NoStream
    BY DEF IInv, Exact, sys_readdir
  <2>2. x \in Streams(Len(inode))
    BY <2>1, HeldTell DEF Typing
  <2>3. /\ x.names \in Nat /\ x.done \in Nat /\ x.cut \in Nat
        /\ x.own \in Slots
    BY <2>2 DEF Streams
  <2>4. NoMore(p)
    <3>1. \/ wild' = TRUE
          \/ NoMore(p)
          \/ stream' = [stream EXCEPT ![p].done = @ + 1]
      BY DEF sys_readdir, Goes
    <3>2. stream' # [stream EXCEPT ![p].done = @ + 1]
      <4> DEFINE y == [x EXCEPT !.done = @ + 1]
                 t == [stream EXCEPT ![p] = y]
      <4>1. y.done = x.done + 1
        BY <2>2 DEF Streams
      <4>2. t[p] = y
        BY <2>1 DEF Typing
      <4>3. t = [stream EXCEPT ![p].done = @ + 1]
        OBVIOUS
      <4> HIDE DEF t, y
      <4>4. t # stream
        BY <2>3, <4>1, <4>2
      <4> QED BY <4>3, <4>4
    <3> QED BY <3>1, <3>2
  <2>5. x.done >= EntriesOf(o)
    BY <2>4 DEF NoMore
  <2>6. CASE x.names = 0
    BY <2>3, <2>6
  <2>7. CASE x.names > 0
    <3>1. x.fd = x.own /\ Total(x.inode) = x.names - x.cut
      BY <2>1, <2>7 DEF IInv, Entries
    <3>2. o = l
      BY <2>1, <2>3, <3>1 DEF Table, ListersOwn, Occupant
    <3>3. l.kind = "tree" /\ l.inode = x.inode
      OBVIOUS
    <3>4. EntriesOf(o) = Total(x.inode)
      <4> HIDE DEF l, o
      <4> QED BY <3>2, <3>3 DEF EntriesOf
    <3> QED BY <2>3, <2>5, <3>1, <3>4
  <2> QED BY <2>3, <2>6, <2>7
<1> QED
  BY <1>1, Inductive, PTL DEF Spec, ReaddirComplete

-----------------------------------------------------------------------------
(* Where the nodes are                                                     *)

(* loc gives the path of every node of a tree built from the first n       *)
(* headers of the archive a: no two nodes have the same, an entry leads    *)
(* one component further, and a directory is an entry of another.          *)
Places(q, loc) ==
  /\ loc \in [1..Len(q) -> Seq(STRING)] /\ loc[1] = <<>>
  /\ \A i, j \in 1..Len(q) : loc[i] = loc[j] => i = j
  /\ \A i \in 1..Len(q) : q[i].dir <=> IsDir(loc[i])

Names(q, loc, a, n) ==
  \A i \in 1..Len(q) :
    /\ loc[i] = <<>> \/ \E g \in 1..n : loc[i] \in Prefixes(a[g].path)
    /\ ~q[i].dir => q[i].header \in 1..n /\ a[q[i].header].path = loc[i]

Steps(q, loc) ==
  \A i \in 1..Len(q) :
    /\ \A k \in DOMAIN q[i].dirs :
         /\ loc[q[i].dirs[k].inode] = Append(loc[i], q[i].dirs[k].name)
         /\ q[i].dirs[k].name \in DirNames
    /\ \A k \in DOMAIN q[i].files :
         /\ loc[q[i].files[k].inode] = Append(loc[i], q[i].files[k].name)
         /\ q[i].files[k].name \notin DirNames

Links(q) ==
  /\ \A i \in 1..Len(q) : i # 1 /\ q[i].dir =>
       \E j \in 1..Len(q) : \E k \in DOMAIN q[j].dirs : q[j].dirs[k].inode = i
  /\ \A i \in 1..Len(q) : \A k, l \in DOMAIN q[i].files :
       q[i].files[k].name = q[i].files[l].name => k = l

Located(q, loc, a, n) ==
  Places(q, loc) /\ Names(q, loc, a, n) /\ Steps(q, loc) /\ Links(q)

(* Paths, a component at a time.                                           *)
LEMMA PrefixStep ==
  ASSUME NEW S, NEW p \in Seq(S)
  PROVE  /\ SubSeq(p, 1, 0) = <<>> /\ SubSeq(p, 1, Len(p)) = p
         /\ \A l \in 0..Len(p) : SubSeq(p, 1, l) \in Seq(S) /\ Len(SubSeq(p, 1, l)) = l
         /\ \A l \in 0..(Len(p) - 1) :
              SubSeq(p, 1, l + 1) = Append(SubSeq(p, 1, l), p[l + 1])
<1>1. SubSeq(p, 1, 0) = <<>> /\ SubSeq(p, 1, Len(p)) = p
  BY SubSeqProperties
<1>2. \A l \in 0..Len(p) : SubSeq(p, 1, l) \in Seq(S) /\ Len(SubSeq(p, 1, l)) = l
                           /\ \A k \in 1..l : SubSeq(p, 1, l)[k] = p[k]
  BY SubSeqProperties
<1>3. ASSUME NEW l \in 0..(Len(p) - 1)
      PROVE  SubSeq(p, 1, l + 1) = Append(SubSeq(p, 1, l), p[l + 1])
  <2> DEFINE u == SubSeq(p, 1, l)
             v == SubSeq(p, 1, l + 1)
             e == p[l + 1]
  <2>1. /\ u \in Seq(S) /\ Len(u) = l /\ \A k \in 1..l : u[k] = p[k]
        /\ v \in Seq(S) /\ Len(v) = l + 1 /\ \A k \in 1..(l + 1) : v[k] = p[k]
        /\ e \in S
    BY <1>2
  <2> HIDE DEF u, v, e
  <2>2. /\ Append(u, e) \in Seq(S) /\ Len(Append(u, e)) = l + 1
        /\ Append(u, e)[l + 1] = e /\ \A k \in 1..l : Append(u, e)[k] = u[k]
    BY <2>1
  <2>3. \A k \in 1..(l + 1) : v[k] = Append(u, e)[k]
    BY <2>1, <2>2 DEF e
  <2>4. v = Append(u, e)
    BY <2>1, <2>2, <2>3, SeqEqual
  <2> QED BY <2>4 DEF u, v, e
<1> QED
  BY <1>1, <1>2, <1>3

(* A path is its last component behind the others.                         *)
LEMMA AppendTells ==
  ASSUME NEW S, NEW s \in Seq(S), NEW t \in Seq(S), NEW x \in S, NEW y \in S
  PROVE  /\ Append(s, x) = Append(t, y) => s = t /\ x = y
         /\ Append(s, x) # <<>>
         /\ IsDir(Append(s, x)) <=> x \in DirNames
<1> DEFINE u == Append(s, x)
           v == Append(t, y)
<1>1. /\ u \in Seq(S) /\ Len(u) = Len(s) + 1 /\ u[Len(s) + 1] = x
      /\ \A k \in 1..Len(s) : u[k] = s[k]
  OBVIOUS
<1>2. /\ v \in Seq(S) /\ Len(v) = Len(t) + 1 /\ v[Len(t) + 1] = y
      /\ \A k \in 1..Len(t) : v[k] = t[k]
  OBVIOUS
<1> HIDE DEF u, v
<1>3. u # <<>> /\ Last(u) = x
  BY <1>1 DEF Last
<1>4. ASSUME u = v PROVE s = t /\ x = y
  <2>1. Len(s) = Len(t) /\ x = y /\ \A k \in 1..Len(s) : s[k] = t[k]
    BY <1>1, <1>2, <1>4
  <2> QED BY <2>1, SeqEqual
<1> QED
  BY <1>3, <1>4 DEF IsDir, u, v

-----------------------------------------------------------------------------
(* What a lookup finds                                                     *)

(* The children of a node are entries of its two lists, and all of them as *)
(* long as num_sub_files counts all.                                       *)
LEMMA ChildrenAre ==
  ASSUME NEW m, IsForest(inode, m), NEW i \in 1..Len(inode)
  PROVE  /\ \A k \in DOMAIN Children(i) :
              /\ Children(i)[k] \in EntriesUpTo(Len(inode))
              /\ \/ \E j \in DOMAIN inode[i].dirs : Children(i)[k] = inode[i].dirs[j]
                 \/ \E j \in DOMAIN inode[i].files : Children(i)[k] = inode[i].files[j]
         /\ \A j \in DOMAIN inode[i].dirs :
              \E k \in DOMAIN Children(i) : Children(i)[k] = inode[i].dirs[j]
         /\ inode[i].nfiles = Len(inode[i].files) =>
              \A j \in DOMAIN inode[i].files :
                \E k \in DOMAIN Children(i) : Children(i)[k] = inode[i].files[j]
         /\ \A k \in DOMAIN Visible(i) : k \in DOMAIN inode[i].files
                                         /\ Visible(i)[k] = inode[i].files[k]
         /\ inode[i].nfiles = Len(inode[i].files) => Visible(i) = inode[i].files
<1> DEFINE E == EntriesUpTo(Len(inode))
           x == inode[i]
           d == x.dirs
           f == x.files
           k0 == x.nfiles
           v == SubSeq(f, 1, k0)
           c == d \o v
<1>1. x \in NodesUpTo(Len(inode)) /\ Sound(x, m)
  BY DEF IsForest
<1>2. d \in Seq(E) /\ f \in Seq(E) /\ k0 \in Int /\ k0 <= Len(f)
  BY <1>1 DEF NodesUpTo, Sound
<1>3. Visible(i) = v /\ Children(i) = c
  BY DEF Visible, Children
<1> HIDE DEF E, d, f, k0
<1>4. /\ v \in Seq(E) /\ \A k \in 1..Len(v) : k \in 1..Len(f) /\ v[k] = f[k]
      /\ k0 = Len(f) => v = f
  <2>1. CASE k0 < 1
    <3>1. v = <<>>
      BY <1>2, <2>1, SubSeqProperties
    <3>2. k0 = Len(f) => f = <<>>
      BY <1>2, <2>1
    <3> QED BY <1>2, <3>1, <3>2
  <2>2. CASE k0 >= 1
    <3>1. v \in Seq(E) /\ Len(v) = k0 /\ \A k \in 1..k0 : v[k] = f[k]
      BY <1>2, <2>2, SubSeqProperties
    <3>2. k0 = Len(f) => v = f
      BY <1>2, <2>2, SubSeqProperties
    <3> QED BY <1>2, <2>2, <3>1, <3>2
  <2> QED BY <1>2, <2>1, <2>2
<1> HIDE DEF v
<1>5. /\ c \in Seq(E) /\ Len(c) = Len(d) + Len(v)
      /\ \A k \in 1..Len(d) : c[k] = d[k]
      /\ \A k \in 1..Len(v) : c[Len(d) + k] = v[k]
  BY <1>2, <1>4
<1> HIDE DEF c
<1>6. ASSUME NEW k \in 1..Len(c)
      PROVE  /\ c[k] \in E
             /\ \/ \E j \in 1..Len(d) : c[k] = d[j]
                \/ \E j \in 1..Len(f) : c[k] = f[j]
  <2>1. c[k] \in E
    BY <1>5
  <2>2. CASE k \in 1..Len(d)
    BY <1>5, <2>1, <2>2
  <2>3. CASE k \notin 1..Len(d)
    <3>1. k - Len(d) \in 1..Len(v) /\ Len(d) + (k - Len(d)) = k
      BY <1>2, <1>4, <1>5, <2>3
    <3>2. c[k] = v[k - Len(d)]
      BY <1>5, <3>1
    <3> QED BY <1>4, <2>1, <3>1, <3>2
  <2> QED BY <2>2, <2>3
<1>7. ASSUME NEW j \in 1..Len(d)
      PROVE  \E k \in 1..Len(c) : c[k] = d[j]
  <2>1. j \in 1..Len(c) /\ c[j] = d[j]
    BY <1>2, <1>4, <1>5
  <2> QED BY <2>1
<1>8. ASSUME k0 = Len(f), NEW j \in 1..Len(f)
      PROVE  \E k \in 1..Len(c) : c[k] = f[j]
  <2>1. v = f
    BY <1>4, <1>8
  <2>2. Len(d) + j \in 1..Len(c) /\ c[Len(d) + j] = f[j]
    BY <1>2, <1>5, <1>8, <2>1
  <2> QED BY <2>2
<1>9. DOMAIN c = 1..Len(c) /\ DOMAIN d = 1..Len(d) /\ DOMAIN f = 1..Len(f)
      /\ DOMAIN v = 1..Len(v)
  BY <1>2, <1>4, <1>5
<1>10. /\ \A k \in DOMAIN c : /\ c[k] \in E
                              /\ \/ \E j \in DOMAIN d : c[k] = d[j]
                                 \/ \E j \in DOMAIN f : c[k] = f[j]
       /\ \A j \in DOMAIN d : \E k \in DOMAIN c : c[k] = d[j]
       /\ k0 = Len(f) => \A j \in DOMAIN f : \E k \in DOMAIN c : c[k] = f[j]
       /\ \A k \in DOMAIN v : k \in DOMAIN f /\ v[k] = f[k]
       /\ k0 = Len(f) => v = f
  BY <1>4, <1>6, <1>7, <1>8, <1>9
<1> QED
  BY <1>3, <1>10, Zenon DEF d, f, k0, E

(* A turn of the search: it goes on with a child of that name from which   *)
(* it gets to the end, if there is one.                                    *)
LEMMA FoundBelowIs ==
  ASSUME NEW m, IsForest(inode, m), NEW name, NEW w \in Rows,
         NEW i \in 1..Len(inode)
  PROVE  /\ FoundBelow(name, w)[i] # 0 =>
              \E k \in DOMAIN Children(i) :
                /\ Children(i)[k].name = name
                /\ FoundBelow(name, w)[i] = w[Children(i)[k].inode]
         /\ (\E k \in DOMAIN Children(i) :
                Children(i)[k].name = name /\ w[Children(i)[k].inode] # 0)
            => FoundBelow(name, w)[i] # 0
<1> DEFINE c == Children(i)
           hits == {k \in Named(c, name) : w[c[k].inode] # 0}
           r == FoundBelow(name, w)[i]
<1>1. c \in Seq(EntriesUpTo(Len(inode)))
  BY ChildrenTyped
<1>2. r = IF hits = {} THEN 0 ELSE w[c[Lowest(hits)].inode]
  BY DEF FoundBelow
<1>3. hits \in SUBSET Nat
  BY <1>1 DEF Named
<1>4. \A k : k \in hits <=> k \in DOMAIN c /\ c[k].name = name /\ w[c[k].inode] # 0
  BY DEF Named
<1> HIDE DEF hits, r, c
<1>5. hits # {} => Lowest(hits) \in hits
  BY <1>3, LowestIn
<1>6. r # 0 => \E k \in DOMAIN c : c[k].name = name /\ r = w[c[k].inode]
  BY <1>2, <1>4, <1>5
<1>7. (\E k \in DOMAIN c : c[k].name = name /\ w[c[k].inode] # 0) => r # 0
  BY <1>2, <1>4, <1>5
<1> QED
  BY <1>6, <1>7 DEF r, c

(* The node that is found is the one at the path, and an entry leads to    *)
(* it.                                                                     *)
LEMMA FindSound ==
  ASSUME NEW m, IsForest(inode, m), Len(inode) >= 1, NEW S, STRING \subseteq S,
         NEW p \in Seq(S), NEW loc, NEW a, NEW n, Located(inode, loc, a, n),
         find_file(p) # 0
  PROVE  /\ find_file(p) \in 1..Len(inode) /\ loc[find_file(p)] = p
         /\ \/ p = <<>>
            \/ \E i \in 1..Len(inode) :
                 \/ \E k \in DOMAIN inode[i].dirs : inode[i].dirs[k].inode = find_file(p)
                 \/ \E k \in DOMAIN inode[i].files : inode[i].files[k].inode = find_file(p)
<1> DEFINE z == Len(p)
           Linked(r) == \E i \in 1..Len(inode) :
                 \/ \E k \in DOMAIN inode[i].dirs : inode[i].dirs[k].inode = r
                 \/ \E k \in DOMAIN inode[i].files : inode[i].files[k].inode = r
<1>1. PICK found : IsSearch(found, p) /\ find_file(p) = found[0][1]
  BY FindFileRows
<1>2. z \in Nat /\ Len(inode) \in Nat
  BY DEF IsForest
<1>3. \A l \in 0..z :
        /\ found[l] \in Rows
        /\ l = z => \A i \in 1..Len(inode) : found[l][i] = i
        /\ l # z => found[l] = FoundBelow(p[l + 1], found[l + 1])
  BY <1>1 DEF IsSearch
<1>4. /\ loc \in [1..Len(inode) -> Seq(STRING)] /\ loc[1] = <<>>
  BY DEF Located, Places
<1> DEFINE Good(l, i) == LET r == found[l][i]
                         IN  loc[i] = SubSeq(p, 1, l) /\ r # 0 =>
                               loc[r] = p /\ (l # z => Linked(r))
           T == {j \in 0..z : \A i \in 1..Len(inode) : Good(z - j, i)}
<1>5. 0 \in T
  <2>1. SubSeq(p, 1, z) = p /\ z - 0 = z /\ z \in 0..z
    BY <1>2, PrefixStep
  <2>2. ASSUME NEW i \in 1..Len(inode) PROVE Good(z, i)
    <3>1. found[z][i] = i
      BY <1>3, <2>1, Zenon
    <3> QED BY <2>1, <3>1
  <2> HIDE DEF Good
  <2> QED BY <1>2, <2>1, <2>2
<1>6. ASSUME NEW j \in 0..(z - 1), j \in T
      PROVE  j + 1 \in T
  <2> DEFINE l == z - (j + 1)
  <2>1. l \in 0..(z - 1) /\ l \in 0..z /\ l # z /\ l + 1 = z - j /\ l + 1 \in 0..z
        /\ j + 1 \in 0..z
    BY <1>2
  <2>2. \A i \in 1..Len(inode) : Good(l + 1, i)
    <3> HIDE DEF Good, l
    <3> QED BY <1>6, <2>1
  <2> HIDE DEF l
  <2>3. ASSUME NEW i \in 1..Len(inode), loc[i] = SubSeq(p, 1, l), found[l][i] # 0
        PROVE  loc[found[l][i]] = p /\ Linked(found[l][i])
    <3>1. found[l + 1] \in Rows /\ found[l] = FoundBelow(p[l + 1], found[l + 1])
      BY <1>3, <2>1
    <3>2. PICK k \in DOMAIN Children(i) : /\ Children(i)[k].name = p[l + 1]
                                          /\ found[l][i] = found[l + 1][Children(i)[k].inode]
      <4> DEFINE w == found[l + 1]
                 nm == p[l + 1]
      <4>1. w \in Rows /\ FoundBelow(nm, w)[i] # 0 /\ found[l] = FoundBelow(nm, w)
        BY <2>3, <3>1
      <4> HIDE DEF w, nm
      <4>2. \E k \in DOMAIN Children(i) :
                /\ Children(i)[k].name = nm
                /\ FoundBelow(nm, w)[i] = w[Children(i)[k].inode]
        BY <4>1, FoundBelowIs
      <4> QED BY <4>1, <4>2 DEF w, nm
    <3> DEFINE e == Children(i)[k]
               c == e.inode
    <3>3. e \in EntriesUpTo(Len(inode))
      BY ChildrenAre
    <3>4. c \in 1..Len(inode)
      BY <3>3 DEF EntriesUpTo
    <3>5. \/ \E u \in DOMAIN inode[i].dirs : e = inode[i].dirs[u]
          \/ \E u \in DOMAIN inode[i].files : e = inode[i].files[u]
      BY ChildrenAre
    <3> HIDE DEF e
    <3>6. loc[c] = Append(loc[i], e.name) /\ Linked(c)
      BY <3>5 DEF Located, Steps
    <3>7. loc[c] = SubSeq(p, 1, l + 1)
      <4>1. SubSeq(p, 1, l + 1) = Append(SubSeq(p, 1, l), p[l + 1])
        BY <2>1, PrefixStep
      <4> QED BY <2>3, <3>2, <3>6, <4>1 DEF e
    <3>8. found[l][i] = found[l + 1][c]
      BY <3>2 DEF e
    <3> HIDE DEF c, Linked
    <3>9. Good(l + 1, c)
      BY <2>2, <3>4
    <3>10. loc[found[l][i]] = p /\ (l + 1 # z => Linked(found[l][i]))
      BY <2>3, <3>7, <3>8, <3>9
    <3>11. l + 1 = z => found[l + 1][c] = c
      BY <1>3, <2>1, <3>4
    <3> QED BY <3>6, <3>8, <3>10, <3>11
  <2> HIDE DEF Linked
  <2>4. \A i \in 1..Len(inode) : Good(l, i)
    BY <2>3
  <2> HIDE DEF Good
  <2> QED BY <2>1, <2>4 DEF l
<1>7. z \in T
  <2> HIDE DEF T, z
  <2>1. \A i \in 0..z : i \in T
    BY <1>2, <1>5, <1>6, UpTo
  <2> QED BY <1>2, <2>1
<1>8. Good(0, 1)
  <2>1. z - z = 0 /\ 1 \in 1..Len(inode)
    BY <1>2
  <2> HIDE DEF Good
  <2> QED BY <1>7, <2>1
<1>9. loc[1] = SubSeq(p, 1, 0)
  BY <1>4, PrefixStep
<1>10. find_file(p) \in 0..Len(inode)
  BY <1>2, FindFileTyped
<1>11. loc[find_file(p)] = p /\ (0 # z => Linked(find_file(p)))
  <2> HIDE DEF Linked
  <2> QED BY <1>1, <1>8, <1>9
<1>12. z = 0 => p = <<>>
  OBVIOUS
<1> HIDE DEF z
<1> QED
  BY <1>2, <1>10, <1>11, <1>12

(* A path is found when the directories on the way are there, and so is an *)
(* entry that leads to its end.                                            *)
LEMMA FindComplete ==
  ASSUME NEW m, IsForest(inode, m), Len(inode) >= 1, NEW S, STRING \subseteq S,
         NEW p \in Seq(S), NEW loc, NEW a, NEW n, Located(inode, loc, a, n),
         \A l \in 1..(Len(p) - 1) :
            \E i \in 1..Len(inode) : loc[i] = SubSeq(p, 1, l) /\ inode[i].dir,
         \/ p = <<>>
         \/ \E i \in 1..Len(inode) : \E k \in DOMAIN Children(i) :
              Append(loc[i], Children(i)[k].name) = p
  PROVE  find_file(p) # 0
<1> DEFINE z == Len(p)
<1>1. PICK found : IsSearch(found, p) /\ find_file(p) = found[0][1]
  BY FindFileRows
<1>2. z \in Nat /\ Len(inode) \in Nat
  BY DEF IsForest
<1>3. \A l \in 0..z :
        /\ found[l] \in Rows
        /\ l = z => \A i \in 1..Len(inode) : found[l][i] = i
        /\ l # z => found[l] = FoundBelow(p[l + 1], found[l + 1])
  BY <1>1 DEF IsSearch
<1>4. /\ loc \in [1..Len(inode) -> Seq(STRING)] /\ loc[1] = <<>>
      /\ \A i, j \in 1..Len(inode) : loc[i] = loc[j] => i = j
  BY DEF Located, Places
<1>5. \A i \in 1..Len(inode) : loc[i] \in Seq(S)
  BY <1>4, SeqGrows
<1> DEFINE Good(l) == \A i \in 1..Len(inode) :
                        loc[i] = SubSeq(p, 1, l) => found[l][i] # 0
           T == {j \in 0..z : Good(z - j)}
<1>6. 0 \in T
  <2>1. z - 0 = z /\ z \in 0..z /\ \A i \in 1..Len(inode) : i # 0
    BY <1>2
  <2>2. Good(z)
    BY <1>3, <2>1
  <2> HIDE DEF Good, z
  <2>3. Good(z - 0)
    BY <2>1, <2>2, Zenon
  <2> QED BY <1>2, <2>3
<1>7. ASSUME NEW l \in 0..(z - 1), Good(l + 1)
      PROVE  Good(l)
  <2> SUFFICES ASSUME NEW i \in 1..Len(inode), loc[i] = SubSeq(p, 1, l)
               PROVE  found[l][i] # 0
    OBVIOUS
  <2>0. l \in 0..z /\ l # z /\ l + 1 \in 1..z
    BY <1>2
  <2>1. found[l + 1] \in Rows /\ found[l] = FoundBelow(p[l + 1], found[l + 1])
    BY <1>3, <2>0
  <2>2. /\ SubSeq(p, 1, l + 1) = Append(SubSeq(p, 1, l), p[l + 1])
        /\ SubSeq(p, 1, l) \in Seq(S) /\ p[l + 1] \in S
    BY <2>0, PrefixStep
  <2>3. ASSUME NEW j \in 1..Len(inode), NEW e \in EntriesUpTo(Len(inode)),
               Append(loc[j], e.name) = SubSeq(p, 1, l + 1)
        PROVE  j = i /\ e.name = p[l + 1]
    <3>1. e.name \in S /\ loc[j] \in Seq(S)
      BY <1>5 DEF EntriesUpTo
    <3> DEFINE u == SubSeq(p, 1, l)
               x == p[l + 1]
               nm == e.name
    <3>2. Append(loc[j], nm) = Append(u, x) /\ u \in Seq(S) /\ x \in S /\ nm \in S
      BY <2>2, <2>3, <3>1
    <3> HIDE DEF u, x, nm
    <3>3. loc[j] = u /\ nm = x
      BY <3>1, <3>2, AppendTells
    <3> QED BY <1>4, <3>3 DEF u, x, nm
  <2>4. ASSUME NEW k \in DOMAIN Children(i), Children(i)[k].name = p[l + 1],
               found[l + 1][Children(i)[k].inode] # 0
        PROVE  found[l][i] # 0
    <3> DEFINE w == found[l + 1]
               nm == p[l + 1]
    <3>1. w \in Rows /\ found[l] = FoundBelow(nm, w)
      BY <2>1
    <3>2. Children(i)[k].name = nm /\ w[Children(i)[k].inode] # 0
      BY <2>4
    <3> HIDE DEF w, nm
    <3>3. FoundBelow(nm, w)[i] # 0
      BY <3>1, <3>2, FoundBelowIs
    <3> QED BY <3>1, <3>3
  <2>5. CASE l + 1 # z
    <3>1. l + 1 \in 1..(z - 1)
      BY <1>2, <2>5
    <3>2. PICK c \in 1..Len(inode) : loc[c] = SubSeq(p, 1, l + 1) /\ inode[c].dir
      BY <3>1
    <3>3. c # 1
      <4>1. Len(SubSeq(p, 1, l + 1)) = l + 1
        BY <2>0, PrefixStep
      <4> QED BY <1>4, <3>1, <3>2, <4>1
    <3>41. PICK j \in 1..Len(inode) : \E k \in DOMAIN inode[j].dirs : inode[j].dirs[k].inode = c
      BY <3>2, <3>3 DEF Located, Links
    <3>4. PICK k \in DOMAIN inode[j].dirs : inode[j].dirs[k].inode = c
      BY <3>41
    <3> DEFINE e == inode[j].dirs[k]
    <3>5. PICK u \in DOMAIN Children(j) : Children(j)[u] = e
      BY ChildrenAre
    <3>6. e \in EntriesUpTo(Len(inode))
      BY <3>5, ChildrenAre
    <3>7. Append(loc[j], e.name) = SubSeq(p, 1, l + 1)
      BY <3>2, <3>4 DEF Located, Steps
    <3>8. e.inode = c
      BY <3>4
    <3> HIDE DEF e
    <3>9. j = i /\ e.name = p[l + 1]
      BY <2>3, <3>6, <3>7
    <3>10. found[l + 1][c] # 0
      BY <1>7, <3>2
    <3> QED BY <2>4, <3>5, <3>8, <3>9, <3>10
  <2>6. CASE l + 1 = z
    <3>1. p # <<>> /\ SubSeq(p, 1, l + 1) = p
      BY <2>0, <2>6, PrefixStep
    <3>21. PICK j \in 1..Len(inode) : \E u \in DOMAIN Children(j) :
                 Append(loc[j], Children(j)[u].name) = p
      BY <3>1
    <3>2. PICK u \in DOMAIN Children(j) : Append(loc[j], Children(j)[u].name) = p
      BY <3>21
    <3> DEFINE e == Children(j)[u]
    <3>3. e \in EntriesUpTo(Len(inode))
      BY ChildrenAre
    <3>4. Append(loc[j], e.name) = SubSeq(p, 1, l + 1) /\ e.inode \in 1..Len(inode)
      BY <3>1, <3>2, <3>3 DEF EntriesUpTo
    <3>5. e = Children(j)[u]
      OBVIOUS
    <3> HIDE DEF e
    <3>6. j = i /\ e.name = p[l + 1]
      BY <2>3, <3>3, <3>4
    <3>7. found[l + 1][e.inode] = e.inode /\ e.inode # 0
      BY <1>3, <2>0, <2>6, <3>4, SMTT(30)
    <3> QED BY <2>4, <3>5, <3>6, <3>7
  <2> QED BY <2>5, <2>6
<1> HIDE DEF Good
<1>8. ASSUME NEW j \in 0..(z - 1), j \in T
      PROVE  j + 1 \in T
  <2> DEFINE l == z - (j + 1)
  <2>1. l \in 0..(z - 1) /\ l + 1 = z - j /\ j + 1 \in 0..z
    BY <1>2
  <2>2. Good(l + 1)
    <3> HIDE DEF l
    <3> QED BY <1>8, <2>1
  <2> HIDE DEF l
  <2>3. Good(l)
    BY <1>7, <2>1, <2>2
  <2> QED BY <2>1, <2>3 DEF l
<1>9. z \in T
  <2> HIDE DEF T, z
  <2>1. \A i \in 0..z : i \in T
    BY <1>2, <1>6, <1>8, UpTo
  <2> QED BY <1>2, <2>1
<1>10. Good(0)
  <2>1. z - z = 0
    BY <1>2
  <2> QED BY <1>9, <2>1
<1>11. loc[1] = SubSeq(p, 1, 0) /\ 1 \in 1..Len(inode)
  BY <1>2, <1>4, PrefixStep
<1> QED
  BY <1>1, <1>10, <1>11 DEF Good

-----------------------------------------------------------------------------
(* The tree and the archive                                                *)

(* The first n headers are there: their directories, and their files but   *)
(* for the ones unlinked.                                                  *)
Complete(q, loc, a, n, out) ==
  \A g \in 1..n :
    /\ \A l \in DOMAIN a[g].path : a[g].path[l] \in DirNames =>
         \E i \in 1..Len(q) : loc[i] = SubSeq(a[g].path, 1, l)
    /\ ~IsDir(a[g].path) /\ a[g].path \notin out =>
         \E i \in 1..Len(q) : \E k \in DOMAIN q[i].files :
           Append(loc[i], q[i].files[k].name) = a[g].path

(* What was unlinked is not there.                                         *)
Without(q, loc, out) ==
  /\ \A i \in 1..Len(q) : \A k \in DOMAIN q[i].files :
       Append(loc[i], q[i].files[k].name) \notin out
  /\ \A p \in out : ~IsDir(p)

(* num_sub_files counts all files.                                         *)
Counted(q) == \A i \in 1..Len(q) : q[i].nfiles = Len(q[i].files)

Tree(loc) ==
  /\ Located(inode, loc, archive, at - 1)
  /\ Complete(inode, loc, archive, at - 1, gone)
  /\ Without(inode, loc, gone)
  /\ ~strayed => Counted(inode)
  /\ at <= Len(archive) => gone = {} /\ ~strayed

Mirrors == archive \in Archives /\ \E loc : Tree(loc)

(* What HeadersAssumption says of the components of a header's path.       *)
Proper(h) ==
  /\ h \in Seq(STRING)
  /\ \A l \in 1..Len(h) : h[l] # "" /\ (l < Len(h) => h[l] \in DirNames)
  /\ \A l \in 1..Len(h) : IsDir(SubSeq(h, 1, l)) <=> h[l] \in DirNames

LEMMA HeaderIs ==
  ASSUME archive \in Archives, archive \in Seq(Header),
         NEW g \in 1..Len(archive)
  PROVE  /\ Proper(archive[g].path)
         /\ ~IsDir(archive[g].path) =>
              \A f \in 1..Len(archive) : archive[f].path = archive[g].path => f = g
<1> DEFINE h == archive[g].path
<1>1. h \in Seq(STRING)
  <2>1. archive[g] \in Header
    OBVIOUS
  <2> QED BY <2>1 DEF Header
<1>2. /\ \A l \in DOMAIN h : h[l] # "" /\ (l < Len(h) => h[l] \in DirNames)
      /\ ~IsDir(h) => \A f \in DOMAIN archive : archive[f].path = h => f = g
  <2>1. g \in DOMAIN archive
    OBVIOUS
  <2> QED BY <2>1, HeadersAssumption
<1>3. DOMAIN h = 1..Len(h) /\ DOMAIN archive = 1..Len(archive)
  BY <1>1
<1> HIDE DEF h
<1>4. ASSUME NEW l \in 1..Len(h)
      PROVE  IsDir(SubSeq(h, 1, l)) <=> h[l] \in DirNames
  <2> DEFINE k == l - 1
             u == SubSeq(h, 1, k)
             x == h[l]
  <2>1. k \in 0..(Len(h) - 1) /\ k \in 0..Len(h) /\ k + 1 = l
    BY <1>1
  <2>2. u \in Seq(STRING) /\ x \in STRING
    <3> HIDE DEF k
    <3> QED BY <1>1, <2>1, PrefixStep
  <2>3. SubSeq(h, 1, k + 1) = Append(SubSeq(h, 1, k), h[k + 1])
    <3> HIDE DEF k
    <3> QED BY <1>1, <2>1, PrefixStep
  <2>4. SubSeq(h, 1, l) = Append(u, x)
    BY <2>1, <2>3
  <2> HIDE DEF u, x
  <2>5. IsDir(Append(u, x)) <=> x \in DirNames
    BY <2>2, AppendTells
  <2> QED BY <2>4, <2>5 DEF x
<1>5. /\ \A l \in 1..Len(h) : h[l] # "" /\ (l < Len(h) => h[l] \in DirNames)
      /\ ~IsDir(h) => \A f \in 1..Len(archive) : archive[f].path = h => f = g
  BY <1>2, <1>3, Zenon
<1>6. Proper(h)
  BY <1>1, <1>4, <1>5, Zenon DEF Proper
<1> QED
  BY <1>5, <1>6, Zenon DEF h

LEMMA SameBoolean ==
  ASSUME NEW b \in BOOLEAN, NEW c \in BOOLEAN, b <=> c
  PROVE  b = c
OBVIOUS

(* What is found is there.                                                 *)
LEMMA FoundIsThere ==
  ASSUME IInv, NEW loc, Tree(loc), at > Len(archive), NEW path \in Paths,
         find_file(path) # 0
  PROVE  /\ \E h \in Headers : path \in Prefixes(h)
         /\ path \notin gone
         /\ inode[find_file(path)].dir = IsDir(path)
         /\ ~IsDir(path) => archive[inode[find_file(path)].header].path = path
<1> DEFINE i == find_file(path)
           m == Len(archive)
<1>1. /\ archive \in Seq(Header) /\ m \in Nat /\ at = m + 1
      /\ IsForest(inode, m) /\ Len(inode) >= 1 /\ Len(inode) \in Nat
  BY DEF IInv, Typing, IsForest
<1>2. PICK S : STRING \subseteq S /\ \A p \in Paths : p \in Seq(S)
  BY <1>1, PathsAre
<1>3. Located(inode, loc, archive, m) /\ Without(inode, loc, gone)
  BY <1>1 DEF Tree
<1> HIDE DEF m
<1>4. /\ i \in 1..Len(inode) /\ loc[i] = path
      /\ \/ path = <<>>
         \/ \E j \in 1..Len(inode) :
              \/ \E k \in DOMAIN inode[j].dirs : inode[j].dirs[k].inode = i
              \/ \E k \in DOMAIN inode[j].files : inode[j].files[k].inode = i
  BY <1>1, <1>2, <1>3, FindSound
<1> HIDE DEF i
<1>5. \E h \in Headers : path \in Prefixes(h)
  <2>1. CASE path # <<>>
    <3>1. PICK g \in 1..m : loc[i] \in Prefixes(archive[g].path)
      BY <1>3, <1>4, <2>1 DEF Located, Names
    <3>2. archive[g].path \in Headers
      BY <1>1, <3>1 DEF Headers, m
    <3> QED BY <1>4, <3>1, <3>2
  <2>2. CASE path = <<>>
    <3>1. Headers # {}
      <4>1. path \notin {<<"none">>, <<"none/">>, <<"none/", "none">>}
        BY <2>2
      <4> QED BY <4>1 DEF Paths
    <3>2. PICK h \in Headers : TRUE
      BY <3>1
    <3>3. PICK g \in 1..m : h = archive[g].path
      BY <1>1, <3>2 DEF Headers, m
    <3>4. h \in Seq(STRING)
      <4>1. archive[g] \in Header
        BY <1>1, <3>3 DEF m
      <4> QED BY <3>3, <4>1 DEF Header
    <3>5. SubSeq(h, 1, 0) = <<>> /\ 0 \in 0..Len(h)
      BY <3>4, PrefixStep
    <3>6. <<>> \in Prefixes(h)
      BY <3>5 DEF Prefixes
    <3> QED BY <2>2, <3>2, <3>6
  <2> QED BY <2>1, <2>2
<1>6. path \notin gone
  <2> SUFFICES ASSUME path \in gone PROVE FALSE
    OBVIOUS
  <2>1. ~IsDir(path)
    BY <1>3 DEF Without
  <2>2. path # <<>>
    BY <2>1 DEF IsDir
  <2>3. PICK j \in 1..Len(inode) :
              \/ \E k \in DOMAIN inode[j].dirs : inode[j].dirs[k].inode = i
              \/ \E k \in DOMAIN inode[j].files : inode[j].files[k].inode = i
    BY <1>4, <2>2
  <2>4. ASSUME NEW k \in DOMAIN inode[j].dirs, inode[j].dirs[k].inode = i
        PROVE  FALSE
    <3> DEFINE x == inode[j].dirs[k].name
    <3>1. path = Append(loc[j], x) /\ x \in DirNames
      BY <1>3, <1>4, <2>4 DEF Located, Steps
    <3>2. x \in STRING
      <4>1. inode[j] \in NodesUpTo(Len(inode))
        BY <1>1 DEF IsForest
      <4>2. inode[j].dirs[k] \in EntriesUpTo(Len(inode))
        BY <4>1 DEF NodesUpTo
      <4> QED BY <4>2 DEF EntriesUpTo
    <3>3. loc[j] \in Seq(STRING)
      BY <1>3 DEF Located, Places
    <3> HIDE DEF x
    <3>4. IsDir(Append(loc[j], x)) <=> x \in DirNames
      BY <3>2, <3>3, AppendTells
    <3> QED BY <2>1, <3>1, <3>4
  <2>5. ASSUME NEW k \in DOMAIN inode[j].files, inode[j].files[k].inode = i
        PROVE  FALSE
    <3>1. loc[inode[j].files[k].inode] = Append(loc[j], inode[j].files[k].name)
      BY <1>3 DEF Located, Steps
    <3>2. Append(loc[j], inode[j].files[k].name) \notin gone
      BY <1>3 DEF Without
    <3> QED BY <1>4, <2>5, <3>1, <3>2
  <2> QED BY <2>3, <2>4, <2>5
<1>7. inode[i].dir <=> IsDir(path)
  BY <1>3, <1>4, Zenon DEF Located, Places
<1>8. inode[i].dir = IsDir(path)
  <2>1. inode[i].dir \in BOOLEAN
    <3>1. inode[i] \in NodesUpTo(Len(inode))
      BY <1>1, <1>4 DEF IsForest
    <3> QED BY <3>1 DEF NodesUpTo
  <2>2. IsDir(path) \in BOOLEAN
    <3>1. CASE path = <<>>
      BY <3>1 DEF IsDir
    <3>2. CASE path # <<>>
      BY <3>2 DEF IsDir
    <3> QED BY <3>1, <3>2
  <2> QED BY <1>7, <2>1, <2>2, SameBoolean
<1>9. ~IsDir(path) => archive[inode[i].header].path = path
  BY <1>3, <1>4, <1>7 DEF Located, Names
<1> QED
  BY <1>5, <1>6, <1>8, <1>9 DEF i

(* What is there is found, as long as num_sub_files counts all files.      *)
LEMMA ThereIsFound ==
  ASSUME IInv, archive \in Archives, NEW loc, Tree(loc), at > Len(archive),
         NEW g \in 1..Len(archive), NEW path \in Prefixes(archive[g].path),
         path \notin gone, ~strayed
  PROVE  find_file(path) # 0
<1> DEFINE m == Len(archive)
           h == archive[g].path
<1>1. /\ archive \in Seq(Header) /\ m \in Nat /\ at = m + 1
      /\ IsForest(inode, m) /\ Len(inode) >= 1 /\ Len(inode) \in Nat
  BY SMTT(30) DEF IInv, Typing, IsForest
<1>21. Proper(h)
  <2> HIDE DEF m
  <2> QED BY <1>1, HeaderIs
<1>3. /\ Located(inode, loc, archive, m) /\ Complete(inode, loc, archive, m, gone)
      /\ Counted(inode)
  BY <1>1 DEF Tree
<1>4. PICK z \in 0..Len(h) : path = SubSeq(h, 1, z)
  BY DEF Prefixes
<1>5. /\ \A l \in DOMAIN h : h[l] \in DirNames =>
           \E i \in 1..Len(inode) : loc[i] = SubSeq(h, 1, l)
      /\ ~IsDir(h) /\ h \notin gone =>
           \E i \in 1..Len(inode) : \E k \in DOMAIN inode[i].files :
             Append(loc[i], inode[i].files[k].name) = h
  BY <1>3 DEF Complete
<1> HIDE DEF h, m
<1>2. /\ h \in Seq(STRING) /\ Len(h) \in Nat /\ DOMAIN h = 1..Len(h)
      /\ \A l \in 1..Len(h) : l < Len(h) => h[l] \in DirNames
      /\ \A l \in 1..Len(h) : IsDir(SubSeq(h, 1, l)) <=> h[l] \in DirNames
  <2>1. h \in Seq(STRING)
    BY <1>21 DEF Proper
  <2>2. Len(h) \in Nat /\ DOMAIN h = 1..Len(h)
    BY <2>1
  <2> QED BY <1>21, <2>1, <2>2, Zenon DEF Proper
<1>6. path \in Seq(STRING) /\ Len(path) = z
      /\ \A l \in 0..z : SubSeq(path, 1, l) = SubSeq(h, 1, l)
  <2>1. path \in Seq(STRING) /\ Len(path) = z /\ \A k \in 1..z : path[k] = h[k]
    BY <1>2, <1>4, SubSeqProperties
  <2>2. ASSUME NEW l \in 0..z PROVE SubSeq(path, 1, l) = SubSeq(h, 1, l)
    <3> DEFINE u == SubSeq(path, 1, l)
               v == SubSeq(h, 1, l)
    <3>1. u \in Seq(STRING) /\ Len(u) = l /\ \A k \in 1..l : u[k] = path[k]
      BY <2>1, SubSeqProperties
    <3>2. v \in Seq(STRING) /\ Len(v) = l /\ \A k \in 1..l : v[k] = h[k]
      BY <1>2, SubSeqProperties
    <3>3. \A k \in 1..l : u[k] = v[k]
      BY <2>1, <3>1, <3>2
    <3> HIDE DEF u, v
    <3>4. u = v
      BY <3>1, <3>2, <3>3, SeqEqual
    <3> QED BY <3>4 DEF u, v
  <2> QED BY <2>1, <2>2
<1>7. ASSUME NEW l \in 1..Len(h), h[l] \in DirNames
      PROVE  \E i \in 1..Len(inode) : loc[i] = SubSeq(h, 1, l) /\ inode[i].dir
  <2>1. l \in DOMAIN h
    BY <1>2
  <2>2. PICK i \in 1..Len(inode) : loc[i] = SubSeq(h, 1, l)
    BY <1>5, <1>7, <2>1
  <2>3. IsDir(SubSeq(h, 1, l))
    BY <1>2, <1>7
  <2>4. inode[i].dir
    BY <1>3, <2>2, <2>3, Zenon DEF Located, Places
  <2> QED BY <2>2, <2>4
<1>8. \A l \in 1..(Len(path) - 1) :
        \E i \in 1..Len(inode) : loc[i] = SubSeq(path, 1, l) /\ inode[i].dir
  <2> SUFFICES ASSUME NEW l \in 1..(Len(path) - 1)
               PROVE  \E i \in 1..Len(inode) : loc[i] = SubSeq(path, 1, l) /\ inode[i].dir
    OBVIOUS
  <2>1. l \in 1..Len(h) /\ l < Len(h) /\ l \in 0..z
    BY <1>2, <1>6
  <2>2. h[l] \in DirNames
    BY <1>2, <2>1
  <2>3. SubSeq(path, 1, l) = SubSeq(h, 1, l)
    BY <1>6, <2>1
  <2> QED BY <1>7, <2>1, <2>2, <2>3
<1>9. \/ path = <<>>
      \/ \E i \in 1..Len(inode) : \E k \in DOMAIN Children(i) :
           Append(loc[i], Children(i)[k].name) = path
  <2>1. CASE z = 0
    BY <1>6, <2>1
  <2>2. CASE z # 0 /\ h[z] \in DirNames
    <3>1. z \in 1..Len(h)
      BY <1>2, <2>2
    <3>2. PICK c \in 1..Len(inode) : loc[c] = path /\ inode[c].dir
      BY <1>4, <1>7, <2>2, <3>1
    <3>3. c # 1
      BY <1>3, <1>6, <2>2, <3>2 DEF Located, Places
    <3>4. PICK j \in 1..Len(inode) : \E k \in DOMAIN inode[j].dirs : inode[j].dirs[k].inode = c
      BY <1>3, <3>2, <3>3 DEF Located, Links
    <3>5. PICK k \in DOMAIN inode[j].dirs : inode[j].dirs[k].inode = c
      BY <3>4
    <3>6. Append(loc[j], inode[j].dirs[k].name) = path
      BY <1>3, <3>2, <3>5 DEF Located, Steps
    <3>7. PICK u \in DOMAIN Children(j) : Children(j)[u] = inode[j].dirs[k]
      BY <1>1, ChildrenAre
    <3> QED BY <3>6, <3>7
  <2>3. CASE z # 0 /\ h[z] \notin DirNames
    <3>1. z \in 1..Len(h)
      BY <1>2, <2>3
    <3>11. ~(z < Len(h))
      BY <1>2, <2>3, <3>1, Zenon
    <3>12. z \in Nat /\ Len(h) \in Nat /\ z <= Len(h)
      BY <1>2, <3>1
    <3>2. z = Len(h)
      BY <3>11, <3>12
    <3>3. path = h
      BY <1>2, <1>4, <3>2, PrefixStep
    <3>4. ~IsDir(h)
      BY <1>2, <1>4, <2>3, <3>1, <3>3
    <3>5. PICK j \in 1..Len(inode) : \E k \in DOMAIN inode[j].files :
                 Append(loc[j], inode[j].files[k].name) = h
      BY <1>5, <3>3, <3>4
    <3>6. PICK k \in DOMAIN inode[j].files : Append(loc[j], inode[j].files[k].name) = h
      BY <3>5
    <3>7. inode[j].nfiles = Len(inode[j].files)
      BY <1>3 DEF Counted
    <3>8. PICK u \in DOMAIN Children(j) : Children(j)[u] = inode[j].files[k]
      BY <1>1, <3>7, ChildrenAre
    <3> QED BY <3>3, <3>6, <3>8
  <2> QED BY <2>1, <2>2, <2>3
<1> QED
  BY <1>1, <1>3, <1>6, <1>8, <1>9, FindComplete

(* Lookup is exact on a tree that mirrors the archive.                     *)
LEMMA LookupIs == IInv /\ Mirrors => LookupExact
<1> SUFFICES ASSUME IInv, Mirrors, at > Len(archive), NEW path \in Paths
             PROVE  LET i == find_file(path)
                        exists == /\ \E h \in Headers : path \in Prefixes(h)
                                  /\ path \notin gone
                    IN  /\ i # 0 => exists
                        /\ exists /\ ~strayed => i # 0
                        /\ i # 0 => inode[i].dir = IsDir(path)
                        /\ i # 0 /\ ~IsDir(path) => archive[inode[i].header].path = path
  BY DEF LookupExact
<1>1. PICK loc : Tree(loc)
  BY DEF Mirrors
<1>2. archive \in Archives /\ archive \in Seq(Header)
  BY DEF Mirrors, IInv, Typing
<1> DEFINE i == find_file(path)
<1>3. i # 0 =>
        /\ \E h \in Headers : path \in Prefixes(h)
        /\ path \notin gone
        /\ inode[i].dir = IsDir(path)
        /\ ~IsDir(path) => archive[inode[i].header].path = path
  BY <1>1, FoundIsThere
<1>4. ASSUME NEW h \in Headers, path \in Prefixes(h), path \notin gone, ~strayed
      PROVE  i # 0
  <2>1. PICK g \in 1..Len(archive) : h = archive[g].path
    BY <1>2 DEF Headers
  <2> QED BY <1>1, <1>2, <1>4, <2>1, ThereIsFound
<1> HIDE DEF i
<1> QED
  BY <1>3, <1>4 DEF i

(* The empty tree.                                                         *)
LEMMA InitMirrors == Init => Mirrors
<1> SUFFICES ASSUME Init PROVE Mirrors
  OBVIOUS
<1> DEFINE loc == [i \in 1..1 |-> <<>>]
<1>1. /\ archive \in Archives /\ at = 1 /\ inode = <<DirNode>> /\ gone = {}
      /\ strayed = FALSE
  BY DEF Init
<1>2. Len(inode) = 1 /\ inode[1] = DirNode /\ 1..1 = {1}
  BY <1>1
<1>3. /\ DirNode.dirs = <<>> /\ DirNode.files = <<>> /\ DirNode.nfiles = 0
      /\ DirNode.dir
  BY DEF DirNode
<1>4. loc \in [1..1 -> Seq(STRING)] /\ loc[1] = <<>>
  OBVIOUS
<1> HIDE DEF loc
<1>5. DOMAIN <<>> = {} /\ Len(<<>>) = 0
  OBVIOUS
<1>6. Places(inode, loc)
  BY <1>2, <1>3, <1>4 DEF Places, IsDir
<1>7. Names(inode, loc, archive, 0)
  BY <1>2, <1>3, <1>4 DEF Names
<1>8. Steps(inode, loc) /\ Links(inode)
  BY <1>2, <1>3, <1>5 DEF Steps, Links
<1>9. Complete(inode, loc, archive, 0, gone) /\ Without(inode, loc, gone)
  BY <1>1, <1>2, <1>3, <1>5 DEF Complete, Without
<1>10. Counted(inode)
  BY <1>2, <1>3, <1>5 DEF Counted
<1>11. at - 1 = 0
  BY <1>1
<1>12. Tree(loc)
  BY <1>1, <1>6, <1>7, <1>8, <1>9, <1>10, <1>11 DEF Tree, Located
<1> QED
  BY <1>1, <1>12 DEF Mirrors

-----------------------------------------------------------------------------
(* A pass of load_tarfs adds what its header names                         *)

(* The elements of a sequence with one replaced and one more.              *)
LEMMA GrownAt ==
  ASSUME NEW S, NEW q \in Seq(S), NEW a \in 1..Len(q), NEW x, NEW y
  PROVE  LET r == Append([q EXCEPT ![a] = x], y)
         IN  /\ Len(r) = Len(q) + 1 /\ r[Len(q) + 1] = y
             /\ \A i \in 1..Len(q) : r[i] = IF i = a THEN x ELSE q[i]
<1> DEFINE n == Len(q)
           T == S \cup {x, y}
           b == [q EXCEPT ![a] = x]
           r == Append(b, y)
<1>1. n \in Nat /\ x \in T /\ y \in T /\ \A i \in 1..n : q[i] \in T
  OBVIOUS
<1> HIDE DEF T
<1>2. b = [i \in 1..n |-> IF i = a THEN x ELSE q[i]]
  OBVIOUS
<1> HIDE DEF b, n
<1>3. b \in [1..n -> T]
  BY <1>1, <1>2
<1>4. b \in Seq(T) /\ Len(b) = n
  BY <1>1, <1>3
<1>5. \A i \in 1..n : b[i] = IF i = a THEN x ELSE q[i]
  BY <1>2
<1>6. Len(r) = n + 1 /\ r[n + 1] = y /\ \A i \in 1..n : r[i] = b[i]
  BY <1>1, <1>4
<1> HIDE DEF r
<1>7. /\ Len(r) = n + 1 /\ r[n + 1] = y
      /\ \A i \in 1..n : r[i] = IF i = a THEN x ELSE q[i]
  BY <1>5, <1>6
<1> QED
  BY <1>7 DEF r, b, n

(* r is q with a new node for the header h and an entry e of a that leads  *)
(* to it; d tells whether it is a directory.                               *)
Grows(q, r, a, e, d, h) ==
  /\ Len(r) = Len(q) + 1
  /\ r[Len(q) + 1].dir <=> d
  /\ ~d => r[Len(q) + 1].header = h
  /\ \A i \in 1..Len(q) :
       /\ r[i].dir <=> q[i].dir
       /\ r[i].header = q[i].header
       /\ \A k \in DOMAIN q[i].dirs :
            k \in DOMAIN r[i].dirs /\ r[i].dirs[k] = q[i].dirs[k]
       /\ \A k \in DOMAIN q[i].files :
            k \in DOMAIN r[i].files /\ r[i].files[k] = q[i].files[k]
  /\ \A i \in 1..(Len(q) + 1) : \A k \in DOMAIN r[i].dirs :
       \/ i \in 1..Len(q) /\ k \in DOMAIN q[i].dirs
       \/ d /\ i = a /\ r[i].dirs[k] = e
  /\ \A i \in 1..(Len(q) + 1) : \A k \in DOMAIN r[i].files :
       \/ i \in 1..Len(q) /\ k \in DOMAIN q[i].files
       \/ ~d /\ i = a /\ r[i].files[k] = e /\ k = Len(q[a].files) + 1
  /\ d => \E k \in DOMAIN r[a].dirs : r[a].dirs[k] = e
  /\ ~d => \E k \in DOMAIN r[a].files : r[a].files[k] = e
  /\ Counted(q) => Counted(r)

(* A list that grows at its end.                                           *)
LEMMA ListGrows ==
  ASSUME NEW S, NEW s \in Seq(S), NEW e
  PROVE  LET z == Append(s, e)
         IN  /\ Len(z) = Len(s) + 1
             /\ \A k \in DOMAIN s : k \in DOMAIN z /\ z[k] = s[k]
             /\ \A k \in DOMAIN z : k \in DOMAIN s \/ (z[k] = e /\ k = Len(s) + 1)
             /\ \E k \in DOMAIN z : z[k] = e
<1> DEFINE T == S \cup {e}
           z == Append(s, e)
<1>1. s \in Seq(T) /\ e \in T
  <2>1. S \subseteq T /\ e \in T
    OBVIOUS
  <2> HIDE DEF T
  <2> QED BY <2>1, SeqGrows
<1> HIDE DEF T
<1>2. /\ Len(s) \in Nat /\ z \in Seq(T) /\ Len(z) = Len(s) + 1 /\ z[Len(s) + 1] = e
      /\ \A k \in 1..Len(s) : z[k] = s[k]
  BY <1>1
<1>3. DOMAIN s = 1..Len(s) /\ DOMAIN z = 1..(Len(s) + 1)
  BY <1>1, <1>2
<1> HIDE DEF z
<1>4. \E k \in DOMAIN z : z[k] = e
  <2>1. Len(s) + 1 \in DOMAIN z
    BY <1>2, <1>3
  <2> QED BY <1>2, <2>1
<1>5. \A k \in DOMAIN z : k \in DOMAIN s \/ (z[k] = e /\ k = Len(s) + 1)
  BY <1>2, <1>3
<1>6. \A k \in DOMAIN s : k \in DOMAIN z /\ z[k] = s[k]
  BY <1>2, <1>3
<1> QED
  BY <1>2, <1>4, <1>5, <1>6 DEF z

(* folder_exist creates a directory.                                       *)
LEMMA EnterGrows ==
  ASSUME NEW m, NEW t, IsTree(t, m), NEW name,
         Named(t.inode[t.active].dirs, name) = {}, NEW h
  PROVE  /\ Grows(t.inode, EnterDir(t, name).inode, t.active,
                  [name |-> name, inode |-> Len(t.inode) + 1], TRUE, h)
         /\ EnterDir(t, name).active = Len(t.inode) + 1
<1> DEFINE q == t.inode
           a == t.active
           n == Len(q)
           x == q[a]
           e == [name |-> name, inode |-> n + 1]
           y == [x EXCEPT !.dirs = Append(@, e)]
           r == Append([q EXCEPT ![a] = y], DirNode)
<1>1. n \in Nat /\ a \in 1..n /\ q \in Seq(NodesUpTo(n)) /\ x \in NodesUpTo(n)
  BY DEF IsTree, IsForest
<1>2. EnterDir(t, name) = [inode |-> r, active |-> n + 1]
  BY DEF EnterDir
<1>3. EnterDir(t, name).inode = r /\ EnterDir(t, name).active = n + 1
  <2> HIDE DEF r
  <2> QED BY <1>2
<1>4. x.dirs \in Seq(EntriesUpTo(n))
  BY <1>1 DEF NodesUpTo
<1> HIDE DEF e
<1> DEFINE z == Append(x.dirs, e)
<1>5. /\ y.dirs = z /\ y.files = x.files /\ y.nfiles = x.nfiles
      /\ (y.dir <=> x.dir) /\ y.header = x.header
  <2> HIDE DEF x, z
  <2> QED BY <1>1 DEF NodesUpTo, z
<1>6. /\ Len(z) = Len(x.dirs) + 1
      /\ \A k \in DOMAIN x.dirs : k \in DOMAIN z /\ z[k] = x.dirs[k]
      /\ \A k \in DOMAIN z : k \in DOMAIN x.dirs \/ (z[k] = e /\ k = Len(x.dirs) + 1)
      /\ \E k \in DOMAIN z : z[k] = e
  <2> HIDE DEF x
  <2> QED BY <1>4, ListGrows
<1> HIDE DEF y, z
<1>7. /\ Len(r) = n + 1 /\ r[n + 1] = DirNode
      /\ \A i \in 1..n : r[i] = IF i = a THEN y ELSE q[i]
  <2> HIDE DEF q, a
  <2> QED BY <1>1, GrownAt
<1> HIDE DEF r, q, a, n
<1>8. /\ DirNode.dirs = <<>> /\ DirNode.files = <<>> /\ DirNode.nfiles = 0
      /\ DirNode.dir
  BY DEF DirNode
<1>9. DOMAIN <<>> = {} /\ Len(<<>>) = 0
  OBVIOUS
<1>10. r[a] = y /\ \A i \in 1..n : i # a => r[i] = q[i]
  BY <1>1, <1>7
<1>11. \A i \in 1..(n + 1) : i = n + 1 \/ i \in 1..n
  BY <1>1
<1> HIDE DEF DirNode
<1>12. \A i \in 1..n :
         /\ r[i].dir <=> q[i].dir
         /\ r[i].header = q[i].header
         /\ \A k \in DOMAIN q[i].dirs :
              k \in DOMAIN r[i].dirs /\ r[i].dirs[k] = q[i].dirs[k]
         /\ \A k \in DOMAIN q[i].files :
              k \in DOMAIN r[i].files /\ r[i].files[k] = q[i].files[k]
  <2> SUFFICES ASSUME NEW i \in 1..n
               PROVE  /\ r[i].dir <=> q[i].dir
                      /\ r[i].header = q[i].header
                      /\ \A k \in DOMAIN q[i].dirs :
                           k \in DOMAIN r[i].dirs /\ r[i].dirs[k] = q[i].dirs[k]
                      /\ \A k \in DOMAIN q[i].files :
                           k \in DOMAIN r[i].files /\ r[i].files[k] = q[i].files[k]
    OBVIOUS
  <2>1. CASE i = a
    BY <1>5, <1>6, <1>10, <2>1
  <2>2. CASE i # a
    BY <1>10, <2>2
  <2> QED BY <2>1, <2>2
<1>13. ASSUME NEW i \in 1..(n + 1), NEW k \in DOMAIN r[i].dirs
       PROVE  (i \in 1..n /\ k \in DOMAIN q[i].dirs) \/ (i = a /\ r[i].dirs[k] = e)
  <2>1. CASE i = n + 1
    BY <1>7, <1>8, <1>9, <2>1
  <2>2. CASE i \in 1..n
    <3>1. CASE i = a
      BY <1>5, <1>6, <1>10, <2>2, <3>1
    <3>2. CASE i # a
      BY <1>10, <2>2, <3>2
    <3> QED BY <3>1, <3>2
  <2> QED BY <1>11, <2>1, <2>2
<1>14. ASSUME NEW i \in 1..(n + 1), NEW k \in DOMAIN r[i].files
       PROVE  i \in 1..n /\ k \in DOMAIN q[i].files
  <2>1. CASE i = n + 1
    BY <1>7, <1>8, <1>9, <2>1
  <2>2. CASE i \in 1..n
    BY <1>5, <1>10, <2>2
  <2> QED BY <1>11, <2>1, <2>2
<1>15. \E k \in DOMAIN r[a].dirs : r[a].dirs[k] = e
  BY <1>5, <1>6, <1>10
<1>16. ASSUME Counted(q) PROVE Counted(r)
  <2> SUFFICES ASSUME NEW i \in 1..(n + 1) PROVE r[i].nfiles = Len(r[i].files)
    BY <1>7 DEF Counted
  <2>1. CASE i = n + 1
    BY <1>7, <1>8, <1>9, <2>1
  <2>2. CASE i \in 1..n
    BY <1>5, <1>10, <1>16, <2>2 DEF Counted, n, x
  <2> QED BY <1>11, <2>1, <2>2
<1>17. Grows(q, r, a, e, TRUE, h)
  BY <1>7, <1>8, <1>12, <1>13, <1>14, <1>15, <1>16 DEF Grows, n
<1> QED
  BY <1>3, <1>17 DEF q, a, e, n

(* file_exist creates a file.                                              *)
LEMMA AddGrows ==
  ASSUME NEW m, NEW t, IsTree(t, m), NEW name, NEW h
  PROVE  /\ Grows(t.inode, AddFile(t, name, h).inode, t.active,
                  [name |-> name, inode |-> Len(t.inode) + 1], FALSE, h)
         /\ AddFile(t, name, h).active = Len(t.inode) + 1
<1> DEFINE q == t.inode
           a == t.active
           n == Len(q)
           x == q[a]
           e == [name |-> name, inode |-> n + 1]
           y == [x EXCEPT !.files = Append(@, e), !.nfiles = @ + 1,
                          !.list = TRUE]
           f == FileNode(h)
           r == Append([q EXCEPT ![a] = y], f)
<1>1. n \in Nat /\ a \in 1..n /\ q \in Seq(NodesUpTo(n)) /\ x \in NodesUpTo(n)
  BY DEF IsTree, IsForest
<1>2. AddFile(t, name, h) = [inode |-> r, active |-> n + 1]
  BY DEF AddFile
<1>3. AddFile(t, name, h).inode = r /\ AddFile(t, name, h).active = n + 1
  <2> HIDE DEF r
  <2> QED BY <1>2
<1>4. x.files \in Seq(EntriesUpTo(n)) /\ x.nfiles \in Int
  BY <1>1 DEF NodesUpTo
<1> HIDE DEF e, f
<1> DEFINE z == Append(x.files, e)
<1>5. /\ y.files = z /\ y.dirs = x.dirs /\ y.nfiles = x.nfiles + 1
      /\ (y.dir <=> x.dir) /\ y.header = x.header
  <2> DEFINE u == [x EXCEPT !.files = z]
             c == x.nfiles + 1
             v == [u EXCEPT !.nfiles = c]
             w == [v EXCEPT !.list = TRUE]
             R == [dir : BOOLEAN, list : BOOLEAN, nfiles : Int, header : Nat,
                   dirs : Seq(EntriesUpTo(n)), files : {x.files, z}]
  <2>1. y = w
    <3> HIDE DEF x, z
    <3> QED BY DEF z
  <2>2. x \in R /\ c \in Int
    <3> HIDE DEF x, z
    <3> QED BY <1>1, <1>4 DEF NodesUpTo
  <2> HIDE DEF x, y, z, c
  <2>3. /\ u \in R /\ u.files = z /\ u.dirs = x.dirs /\ (u.dir <=> x.dir)
        /\ u.header = x.header
    BY <2>2
  <2> HIDE DEF u
  <2>4. /\ v \in R /\ v.files = z /\ v.dirs = x.dirs /\ (v.dir <=> x.dir)
        /\ v.header = x.header /\ v.nfiles = c
    BY <2>2, <2>3
  <2> HIDE DEF v
  <2>5. /\ w \in R /\ w.files = z /\ w.dirs = x.dirs /\ (w.dir <=> x.dir)
        /\ w.header = x.header /\ w.nfiles = c
    BY <2>4
  <2> HIDE DEF w
  <2> QED BY <2>1, <2>5 DEF c
<1>6. /\ Len(z) = Len(x.files) + 1
      /\ \A k \in DOMAIN x.files : k \in DOMAIN z /\ z[k] = x.files[k]
      /\ \A k \in DOMAIN z : k \in DOMAIN x.files \/ (z[k] = e /\ k = Len(x.files) + 1)
      /\ \E k \in DOMAIN z : z[k] = e
  <2> HIDE DEF x
  <2> QED BY <1>4, ListGrows
<1> HIDE DEF y, z
<1>7. /\ Len(r) = n + 1 /\ r[n + 1] = f
      /\ \A i \in 1..n : r[i] = IF i = a THEN y ELSE q[i]
  <2> HIDE DEF q, a
  <2> QED BY <1>1, GrownAt
<1> HIDE DEF r, q, a, n
<1>8. f.dirs = <<>> /\ f.files = <<>> /\ f.nfiles = 0 /\ ~f.dir /\ f.header = h
  <2> DEFINE g == [DirNode EXCEPT !.dir = FALSE]
  <2>1. f = [g EXCEPT !.header = h]
    BY DEF f, FileNode
  <2> DEFINE R == [dir : BOOLEAN, list : BOOLEAN, nfiles : {0}, header : {0, h},
                   dirs : {<<>>}, files : {<<>>}]
  <2>2. DirNode \in R
    BY DEF DirNode
  <2> HIDE DEF DirNode
  <2>3. g \in R /\ ~g.dir
    BY <2>2
  <2> HIDE DEF g
  <2>4. f \in R /\ ~f.dir /\ f.header = h
    BY <2>1, <2>3
  <2> QED BY <2>4
<1>9. DOMAIN <<>> = {} /\ Len(<<>>) = 0
  OBVIOUS
<1>10. r[a] = y /\ q[a] = x /\ \A i \in 1..n : i # a => r[i] = q[i]
  BY <1>1, <1>7
<1>11. \A i \in 1..(n + 1) : i = n + 1 \/ i \in 1..n
  BY <1>1
<1> HIDE DEF x
<1>12. \A i \in 1..n :
         /\ r[i].dir <=> q[i].dir
         /\ r[i].header = q[i].header
         /\ \A k \in DOMAIN q[i].dirs :
              k \in DOMAIN r[i].dirs /\ r[i].dirs[k] = q[i].dirs[k]
         /\ \A k \in DOMAIN q[i].files :
              k \in DOMAIN r[i].files /\ r[i].files[k] = q[i].files[k]
  <2> SUFFICES ASSUME NEW i \in 1..n
               PROVE  /\ r[i].dir <=> q[i].dir
                      /\ r[i].header = q[i].header
                      /\ \A k \in DOMAIN q[i].dirs :
                           k \in DOMAIN r[i].dirs /\ r[i].dirs[k] = q[i].dirs[k]
                      /\ \A k \in DOMAIN q[i].files :
                           k \in DOMAIN r[i].files /\ r[i].files[k] = q[i].files[k]
    OBVIOUS
  <2>1. CASE i = a
    BY <1>5, <1>6, <1>10, <2>1
  <2>2. CASE i # a
    BY <1>10, <2>2
  <2> QED BY <2>1, <2>2
<1>13. ASSUME NEW i \in 1..(n + 1), NEW k \in DOMAIN r[i].dirs
       PROVE  i \in 1..n /\ k \in DOMAIN q[i].dirs
  <2>1. CASE i = n + 1
    BY <1>7, <1>8, <1>9, <2>1
  <2>2. CASE i \in 1..n
    BY <1>5, <1>10, <2>2
  <2> QED BY <1>11, <2>1, <2>2
<1>14. ASSUME NEW i \in 1..(n + 1), NEW k \in DOMAIN r[i].files
       PROVE  \/ i \in 1..n /\ k \in DOMAIN q[i].files
              \/ i = a /\ r[i].files[k] = e /\ k = Len(q[a].files) + 1
  <2>1. CASE i = n + 1
    BY <1>7, <1>8, <1>9, <2>1
  <2>2. CASE i \in 1..n
    <3>1. CASE i = a
      BY <1>5, <1>6, <1>10, <2>2, <3>1
    <3>2. CASE i # a
      BY <1>10, <2>2, <3>2
    <3> QED BY <3>1, <3>2
  <2> QED BY <1>11, <2>1, <2>2
<1>15. \E k \in DOMAIN r[a].files : r[a].files[k] = e
  BY <1>5, <1>6, <1>10
<1>16. ASSUME Counted(q) PROVE Counted(r)
  <2> SUFFICES ASSUME NEW i \in 1..(n + 1) PROVE r[i].nfiles = Len(r[i].files)
    BY <1>7 DEF Counted
  <2>0. \A j \in 1..n : q[j].nfiles = Len(q[j].files)
    BY <1>16 DEF Counted, n
  <2>1. CASE i = n + 1
    BY <1>7, <1>8, <1>9, <2>1
  <2>2. CASE i = a
    <3>1. x.nfiles = Len(x.files)
      BY <1>1, <1>10, <2>0
    <3> QED BY <1>5, <1>6, <1>10, <2>2, <3>1
  <2>3. CASE i \in 1..n /\ i # a
    BY <1>10, <2>0, <2>3
  <2> QED BY <1>11, <2>1, <2>2, <2>3
<1>17. Grows(q, r, a, e, FALSE, h)
  BY <1>7, <1>8, <1>12, <1>13, <1>14, <1>15, <1>16 DEF Grows, n
<1> QED
  BY <1>3, <1>17 DEF q, a, e, n

(* The entries of a node lead to nodes and have names.                     *)
LEMMA EntryIs ==
  ASSUME NEW m, NEW q, IsForest(q, m), NEW i \in 1..Len(q)
  PROVE  /\ \A k \in DOMAIN q[i].dirs :
              q[i].dirs[k].inode \in 1..Len(q) /\ q[i].dirs[k].name \in STRING
         /\ \A k \in DOMAIN q[i].files :
              q[i].files[k].inode \in 1..Len(q) /\ q[i].files[k].name \in STRING
         /\ q[i].dirs \in Seq(EntriesUpTo(Len(q))) /\ q[i].files \in Seq(EntriesUpTo(Len(q)))
<1>1. q[i] \in NodesUpTo(Len(q))
  BY DEF IsForest
<1> DEFINE d == q[i].dirs
           f == q[i].files
<1>2. d \in Seq(EntriesUpTo(Len(q))) /\ f \in Seq(EntriesUpTo(Len(q)))
  BY <1>1 DEF NodesUpTo
<1> HIDE DEF d, f
<1>3. /\ \A k \in DOMAIN d : d[k] \in EntriesUpTo(Len(q))
      /\ \A k \in DOMAIN f : f[k] \in EntriesUpTo(Len(q))
  BY <1>2
<1>4. /\ \A k \in DOMAIN d : d[k].inode \in 1..Len(q) /\ d[k].name \in STRING
      /\ \A k \in DOMAIN f : f[k].inode \in 1..Len(q) /\ f[k].name \in STRING
  BY <1>3 DEF EntriesUpTo
<1> QED
  BY <1>2, <1>4 DEF d, f

(* The new entry is one for the header h, and no node has its path yet.    *)
Fits(q, a, e, d, h, loc, v, n) ==
  /\ a \in 1..Len(q) /\ h \in 1..n
  /\ e.inode = Len(q) + 1 /\ e.name \in STRING /\ (e.name \in DirNames <=> d)
  /\ Append(loc[a], e.name) \in Prefixes(v[h].path)
  /\ ~d => v[h].path = Append(loc[a], e.name)
  /\ \A i \in 1..Len(q) : loc[i] # Append(loc[a], e.name)

(* The new node has a place of its own.                                    *)
LEMMA GrowthLocated ==
  ASSUME NEW m, NEW q, IsForest(q, m), NEW r, NEW a, NEW e, NEW d, NEW h,
         Grows(q, r, a, e, d, h), NEW loc, NEW v, NEW n,
         Located(q, loc, v, n), Fits(q, a, e, d, h, loc, v, n)
  PROVE  \E new : /\ Located(r, new, v, n)
                  /\ \A i \in 1..Len(q) : new[i] = loc[i]
                  /\ new[Len(q) + 1] = Append(loc[a], e.name)
<1> SUFFICES ASSUME a \in 1..Len(q), h \in 1..n,
                    e.inode = Len(q) + 1, e.name \in STRING,
                    e.name \in DirNames <=> d,
                    Append(loc[a], e.name) \in Prefixes(v[h].path),
                    ~d => v[h].path = Append(loc[a], e.name),
                    \A i \in 1..Len(q) : loc[i] # Append(loc[a], e.name)
             PROVE  \E new : /\ Located(r, new, v, n)
                             /\ \A i \in 1..Len(q) : new[i] = loc[i]
                             /\ new[Len(q) + 1] = Append(loc[a], e.name)
  BY Zenon DEF Fits
<1> DEFINE z == Len(q)
           p == Append(loc[a], e.name)
           new == [i \in 1..(z + 1) |-> IF i = z + 1 THEN p ELSE loc[i]]
<1>1. /\ z \in Nat /\ z # 0 /\ loc \in [1..z -> Seq(STRING)] /\ loc[1] = <<>>
      /\ \A i, j \in 1..z : loc[i] = loc[j] => i = j
      /\ \A i \in 1..z : q[i].dir <=> IsDir(loc[i])
  <2>1. z \in Nat
    BY DEF IsForest
  <2>2. z # 0
    BY <2>1
  <2> QED BY <2>1, <2>2, Zenon DEF Located, Places
<1>2. p \in Seq(STRING) /\ (IsDir(p) <=> d)
  <2>1. loc[a] \in Seq(STRING) /\ e.name \in STRING
    BY <1>1
  <2> DEFINE s == loc[a]
             x == e.name
  <2> HIDE DEF s, x
  <2>2. Append(s, x) \in Seq(STRING) /\ (IsDir(Append(s, x)) <=> x \in DirNames)
    BY <2>1, AppendTells DEF s, x
  <2> QED BY <2>2 DEF s, x
<1>3. \A i \in 1..z : loc[i] # p
  OBVIOUS
<1> HIDE DEF p, z
<1>4. /\ new \in [1..(z + 1) -> Seq(STRING)] /\ new[z + 1] = p
      /\ \A i \in 1..z : new[i] = loc[i]
  <2>1. z + 1 \in 1..(z + 1) /\ \A i \in 1..z : i \in 1..(z + 1) /\ i # z + 1
    BY <1>1
  <2>2. new[z + 1] = p /\ \A i \in 1..z : new[i] = loc[i]
    BY <2>1
  <2>3. ASSUME NEW i \in 1..(z + 1)
        PROVE  (IF i = z + 1 THEN p ELSE loc[i]) \in Seq(STRING)
    <3>1. CASE i = z + 1
      BY <1>2, <3>1
    <3>2. CASE i # z + 1
      <4>1. i \in 1..z
        BY <1>1, <3>2
      <4> QED BY <1>1, <3>2, <4>1
    <3> QED BY <3>1, <3>2
  <2>4. new \in [1..(z + 1) -> Seq(STRING)]
    BY <2>3
  <2> QED BY <2>2, <2>4
<1>5. 1 \in 1..z /\ \A i \in 1..(z + 1) : i = z + 1 \/ i \in 1..z
  BY <1>1
<1> HIDE DEF new
<1>6. /\ Len(r) = z + 1 /\ (r[z + 1].dir <=> d) /\ (~d => r[z + 1].header = h)
      /\ \A i \in 1..z : (r[i].dir <=> q[i].dir) /\ r[i].header = q[i].header
  BY DEF Grows, z
<1>7. Places(r, new)
  <2>1. ASSUME NEW i \in 1..(z + 1), NEW j \in 1..(z + 1), new[i] = new[j]
        PROVE  i = j
    <3>1. CASE i \in 1..z /\ j \in 1..z
      BY <1>1, <1>4, <2>1, <3>1, Zenon
    <3>2. CASE i = z + 1 /\ j \in 1..z
      BY <1>3, <1>4, <2>1, <3>2, Zenon
    <3>3. CASE j = z + 1 /\ i \in 1..z
      BY <1>3, <1>4, <2>1, <3>3, Zenon
    <3> QED BY <1>5, <3>1, <3>2, <3>3, Zenon
  <2>2. ASSUME NEW i \in 1..(z + 1) PROVE r[i].dir <=> IsDir(new[i])
    <3>1. CASE i = z + 1
      BY <1>2, <1>4, <1>6, <3>1
    <3>2. CASE i \in 1..z
      BY <1>1, <1>4, <1>6, <3>2
    <3> QED BY <1>5, <3>1, <3>2
  <2> QED BY <1>1, <1>4, <1>5, <1>6, <2>1, <2>2 DEF Places
<1>8. Names(r, new, v, n)
  <2> SUFFICES ASSUME NEW i \in 1..(z + 1)
               PROVE  /\ new[i] = <<>> \/ \E g \in 1..n : new[i] \in Prefixes(v[g].path)
                      /\ ~r[i].dir => r[i].header \in 1..n /\ v[r[i].header].path = new[i]
    BY <1>6 DEF Names
  <2>1. CASE i = z + 1
    BY <1>4, <1>6, <2>1 DEF p
  <2>2. CASE i \in 1..z
    <3>1. /\ loc[i] = <<>> \/ \E g \in 1..n : loc[i] \in Prefixes(v[g].path)
          /\ ~q[i].dir => q[i].header \in 1..n /\ v[q[i].header].path = loc[i]
      BY <2>2 DEF Located, Names, z
    <3> QED BY <1>4, <1>6, <2>2, <3>1
  <2> QED BY <1>5, <2>1, <2>2
<1>9. \A i \in 1..z :
         /\ \A k \in DOMAIN q[i].dirs : q[i].dirs[k].inode \in 1..z
         /\ \A k \in DOMAIN q[i].files : q[i].files[k].inode \in 1..z
  BY EntryIs DEF z
<1>10. \A i \in 1..z :
         /\ \A k \in DOMAIN q[i].dirs :
              /\ loc[q[i].dirs[k].inode] = Append(loc[i], q[i].dirs[k].name)
              /\ q[i].dirs[k].name \in DirNames
         /\ \A k \in DOMAIN q[i].files :
              /\ loc[q[i].files[k].inode] = Append(loc[i], q[i].files[k].name)
              /\ q[i].files[k].name \notin DirNames
  BY DEF Located, Steps, z
<1>11. \A i \in 1..z :
         /\ \A k \in DOMAIN q[i].dirs :
              k \in DOMAIN r[i].dirs /\ r[i].dirs[k] = q[i].dirs[k]
         /\ \A k \in DOMAIN q[i].files :
              k \in DOMAIN r[i].files /\ r[i].files[k] = q[i].files[k]
  BY DEF Grows, z
<1>12. \A i \in 1..(z + 1) : \A k \in DOMAIN r[i].dirs :
         \/ i \in 1..z /\ k \in DOMAIN q[i].dirs
         \/ d /\ i = a /\ r[i].dirs[k] = e
  BY DEF Grows, z
<1>13. \A i \in 1..(z + 1) : \A k \in DOMAIN r[i].files :
         \/ i \in 1..z /\ k \in DOMAIN q[i].files
         \/ ~d /\ i = a /\ r[i].files[k] = e /\ k = Len(q[a].files) + 1
  BY DEF Grows, z
<1>14. a \in 1..z /\ e.inode = z + 1
  BY DEF z
<1>15. Steps(r, new)
  <2>1. ASSUME NEW i \in 1..(z + 1), NEW k \in DOMAIN r[i].dirs
        PROVE  /\ new[r[i].dirs[k].inode] = Append(new[i], r[i].dirs[k].name)
               /\ r[i].dirs[k].name \in DirNames
    <3>1. CASE i \in 1..z /\ k \in DOMAIN q[i].dirs
      <4>1. r[i].dirs[k] = q[i].dirs[k] /\ q[i].dirs[k].inode \in 1..z
        BY <1>9, <1>11, <3>1
      <4>2. /\ loc[q[i].dirs[k].inode] = Append(loc[i], q[i].dirs[k].name)
            /\ q[i].dirs[k].name \in DirNames
        BY <1>10, <3>1
      <4>3. new[q[i].dirs[k].inode] = loc[q[i].dirs[k].inode] /\ new[i] = loc[i]
        BY <1>4, <3>1, <4>1
      <4> QED BY <4>1, <4>2, <4>3
    <3>2. CASE d /\ i = a /\ r[i].dirs[k] = e
      BY <1>4, <1>14, <3>2 DEF p
    <3> QED BY <1>12, <3>1, <3>2
  <2>2. ASSUME NEW i \in 1..(z + 1), NEW k \in DOMAIN r[i].files
        PROVE  /\ new[r[i].files[k].inode] = Append(new[i], r[i].files[k].name)
               /\ r[i].files[k].name \notin DirNames
    <3>1. CASE i \in 1..z /\ k \in DOMAIN q[i].files
      <4>1. r[i].files[k] = q[i].files[k] /\ q[i].files[k].inode \in 1..z
        BY <1>9, <1>11, <3>1
      <4>2. /\ loc[q[i].files[k].inode] = Append(loc[i], q[i].files[k].name)
            /\ q[i].files[k].name \notin DirNames
        BY <1>10, <3>1
      <4>3. new[q[i].files[k].inode] = loc[q[i].files[k].inode] /\ new[i] = loc[i]
        BY <1>4, <3>1, <4>1
      <4> QED BY <4>1, <4>2, <4>3
    <3>2. CASE ~d /\ i = a /\ r[i].files[k] = e
      BY <1>4, <1>14, <3>2 DEF p
    <3> QED BY <1>13, <3>1, <3>2
  <2> QED BY <1>6, <2>1, <2>2 DEF Steps
<1>16. ASSUME NEW i \in 1..(z + 1), i # 1, r[i].dir
       PROVE  \E j \in 1..(z + 1) : \E k \in DOMAIN r[j].dirs : r[j].dirs[k].inode = i
  <2>1. CASE i = z + 1
    <3>1. \E k \in DOMAIN r[a].dirs : r[a].dirs[k] = e
      BY <1>6, <1>16, <2>1 DEF Grows
    <3>2. a \in 1..(z + 1)
      BY <1>1, <1>14
    <3> QED BY <1>14, <2>1, <3>1, <3>2
  <2>2. CASE i \in 1..z
    <3>1. PICK j \in 1..z : \E k \in DOMAIN q[j].dirs : q[j].dirs[k].inode = i
      BY <1>6, <1>16, <2>2 DEF Located, Links, z
    <3>2. PICK k \in DOMAIN q[j].dirs : q[j].dirs[k].inode = i
      BY <3>1
    <3>3. k \in DOMAIN r[j].dirs /\ r[j].dirs[k].inode = i
      BY <1>11, <3>2
    <3>4. j \in 1..(z + 1)
      BY <1>1
    <3> QED BY <3>3, <3>4
  <2> QED BY <1>5, <2>1, <2>2
<1>17. ASSUME NEW k \in DOMAIN q[a].files PROVE q[a].files[k].name # e.name
  <2>1. /\ q[a].files[k].inode \in 1..z
        /\ loc[q[a].files[k].inode] = Append(loc[a], q[a].files[k].name)
    BY <1>9, <1>10, <1>14
  <2>2. loc[q[a].files[k].inode] # p
    BY <1>3, <2>1
  <2> QED BY <2>1, <2>2 DEF p
<1>18. ASSUME NEW i \in 1..(z + 1), NEW k \in DOMAIN r[i].files,
              NEW l \in DOMAIN r[i].files, r[i].files[k].name = r[i].files[l].name
       PROVE  k = l
  <2>1. CASE i \in 1..z /\ k \in DOMAIN q[i].files /\ l \in DOMAIN q[i].files
    BY <1>11, <1>18, <2>1 DEF Located, Links, z
  <2>2. CASE /\ i = a /\ r[i].files[k] = e /\ k = Len(q[a].files) + 1
             /\ r[i].files[l] = e /\ l = Len(q[a].files) + 1
    BY <2>2
  <2>3. CASE i = a /\ k \in DOMAIN q[i].files /\ r[i].files[l] = e
    BY <1>11, <1>14, <1>17, <1>18, <2>3
  <2>4. CASE i = a /\ l \in DOMAIN q[i].files /\ r[i].files[k] = e
    BY <1>11, <1>14, <1>17, <1>18, <2>4
  <2> QED BY <1>13, <2>1, <2>2, <2>3, <2>4
<1>19. Links(r)
  BY <1>6, <1>16, <1>18 DEF Links
<1>20. Located(r, new, v, n)
  BY <1>7, <1>8, <1>15, <1>19 DEF Located
<1>21. /\ Located(r, new, v, n) /\ \A i \in 1..Len(q) : new[i] = loc[i]
       /\ new[Len(q) + 1] = Append(loc[a], e.name)
  BY <1>4, <1>20 DEF z, p
<1> QED
  BY <1>21

(* The path load_tarfs is at.                                              *)
Way == archive[at].path

(* t is the tree after l of its components.                                *)
Level(t, loc, l) ==
  /\ Located(t.inode, loc, archive, at)
  /\ loc[t.active] = SubSeq(Way, 1, l)
  /\ Complete(t.inode, loc, archive, at - 1, {})
  /\ Counted(t.inode)
  /\ \A k \in 1..l : Way[k] \in DirNames =>
       \E i \in 1..Len(t.inode) : loc[i] = SubSeq(Way, 1, k)
  /\ l < Len(Way) =>
       \A i \in 1..Len(t.inode) : ~t.inode[i].dir => t.inode[i].header # at
  /\ l = Len(Way) /\ ~IsDir(Way) =>
       \E i \in 1..Len(t.inode) : \E k \in DOMAIN t.inode[i].files :
         Append(loc[i], t.inode[i].files[k].name) = Way

(* What was there is there in a tree that grows.                           *)
LEMMA GrowthComplete ==
  ASSUME NEW q, Len(q) \in Nat, NEW r, NEW a, NEW e, NEW d, NEW h,
         Grows(q, r, a, e, d, h), NEW loc, NEW new,
         \A i \in 1..Len(q) : new[i] = loc[i],
         NEW v, NEW n, NEW out, Complete(q, loc, v, n, out)
  PROVE  Complete(r, new, v, n, out)
<1>1. \A i \in 1..Len(q) : i \in 1..Len(r)
  BY DEF Grows
<1>2. \A i \in 1..Len(q) : \A k \in DOMAIN q[i].files :
        k \in DOMAIN r[i].files /\ r[i].files[k] = q[i].files[k]
  BY DEF Grows
<1>3. ASSUME NEW g \in 1..n
      PROVE  /\ \A l \in DOMAIN v[g].path : v[g].path[l] \in DirNames =>
                  \E i \in 1..Len(r) : new[i] = SubSeq(v[g].path, 1, l)
             /\ ~IsDir(v[g].path) /\ v[g].path \notin out =>
                  \E i \in 1..Len(r) : \E k \in DOMAIN r[i].files :
                    Append(new[i], r[i].files[k].name) = v[g].path
  <2>1. ASSUME NEW l \in DOMAIN v[g].path, v[g].path[l] \in DirNames
        PROVE  \E i \in 1..Len(r) : new[i] = SubSeq(v[g].path, 1, l)
    <3>1. PICK i \in 1..Len(q) : loc[i] = SubSeq(v[g].path, 1, l)
      BY <2>1, Zenon DEF Complete
    <3> QED BY <1>1, <3>1
  <2>2. ASSUME ~IsDir(v[g].path), v[g].path \notin out
        PROVE  \E i \in 1..Len(r) : \E k \in DOMAIN r[i].files :
                    Append(new[i], r[i].files[k].name) = v[g].path
    <3>1. PICK i \in 1..Len(q) : \E k \in DOMAIN q[i].files :
                 Append(loc[i], q[i].files[k].name) = v[g].path
      BY <2>2, Zenon DEF Complete
    <3>2. PICK k \in DOMAIN q[i].files : Append(loc[i], q[i].files[k].name) = v[g].path
      BY <3>1
    <3>3. k \in DOMAIN r[i].files /\ Append(new[i], r[i].files[k].name) = v[g].path
      BY <1>2, <3>2
    <3> QED BY <1>1, <3>3
  <2> QED BY <2>1, <2>2
<1> QED
  BY <1>3 DEF Complete

(* The path is a header's.                                                 *)
LEMMA WayIs ==
  ASSUME archive \in Archives, archive \in Seq(Header), at \in 1..Len(archive)
  PROVE  /\ Way \in Seq(STRING) /\ Len(Way) \in Nat /\ DOMAIN Way = 1..Len(Way)
         /\ \A l \in 1..Len(Way) : Way[l] \in STRING
         /\ \A l \in 1..Len(Way) : l < Len(Way) => Way[l] \in DirNames
         /\ \A l \in 1..Len(Way) : IsDir(SubSeq(Way, 1, l)) <=> Way[l] \in DirNames
         /\ ~IsDir(Way) =>
              \A f \in 1..Len(archive) : archive[f].path = Way => f = at
<1>1. /\ Proper(Way)
      /\ ~IsDir(Way) => \A f \in 1..Len(archive) : archive[f].path = Way => f = at
  BY HeaderIs, Zenon DEF Way
<1>2. Way \in Seq(STRING)
  BY <1>1 DEF Proper
<1>3. Len(Way) \in Nat /\ DOMAIN Way = 1..Len(Way)
      /\ \A l \in 1..Len(Way) : Way[l] \in STRING
  BY <1>2
<1> QED
  BY <1>1, <1>2, <1>3, Zenon DEF Proper

(* A component that adds a node.                                           *)
LEMMA LevelGrows ==
  ASSUME archive \in Archives, archive \in Seq(Header), at \in 1..Len(archive),
         NEW m, NEW t, IsTree(t, m), NEW l \in 0..(Len(Way) - 1),
         NEW loc, Level(t, loc, l), NEW d \in BOOLEAN,
         Way[l + 1] \in DirNames <=> d,
         NEW u, u.active = Len(t.inode) + 1,
         Grows(t.inode, u.inode, t.active,
               [name |-> Way[l + 1], inode |-> Len(t.inode) + 1], d, at),
         \A i \in 1..Len(t.inode) : loc[i] # SubSeq(Way, 1, l + 1)
  PROVE  \E new : Level(u, new, l + 1)
<1> DEFINE q == t.inode
           r == u.inode
           a == t.active
           z == Len(q)
           x == Way[l + 1]
           e == [name |-> x, inode |-> z + 1]
           p == SubSeq(Way, 1, l + 1)
<1>1. /\ Way \in Seq(STRING) /\ Len(Way) \in Nat
      /\ \A k \in 1..Len(Way) : Way[k] \in STRING
      /\ \A k \in 1..Len(Way) : k < Len(Way) => Way[k] \in DirNames
      /\ \A k \in 1..Len(Way) : IsDir(SubSeq(Way, 1, k)) <=> Way[k] \in DirNames
  BY WayIs
<1>2. l + 1 \in 1..Len(Way) /\ l + 1 \in 0..Len(Way) /\ l < Len(Way)
  BY <1>1
<1>3. p = Append(SubSeq(Way, 1, l), x) /\ x \in STRING
  BY <1>1, <1>2, PrefixStep
<1>4. /\ IsForest(q, m) /\ z \in Nat /\ a \in 1..z
  BY DEF IsTree, IsForest
<1>5. /\ Located(q, loc, archive, at) /\ loc[a] = SubSeq(Way, 1, l)
      /\ Complete(q, loc, archive, at - 1, {}) /\ Counted(q)
      /\ \A k \in 1..l : Way[k] \in DirNames =>
            \E i \in 1..z : loc[i] = SubSeq(Way, 1, k)
      /\ \A i \in 1..z : ~q[i].dir => q[i].header # at
  BY <1>2 DEF Level
<1>6. p \in Prefixes(Way) /\ p = Append(loc[a], x)
  BY <1>2, <1>3, <1>5 DEF Prefixes
<1>7. Grows(q, r, a, e, d, at) /\ e.name = x /\ e.inode = z + 1
      /\ u.active = z + 1 /\ \A i \in 1..z : loc[i] # p
  OBVIOUS
<1>8. ~d => l + 1 = Len(Way) /\ p = Way
  <2>1. ~d => ~(l + 1 < Len(Way))
    BY <1>1, <1>2
  <2>2. ~d => l + 1 = Len(Way)
    BY <1>1, <1>2, <2>1
  <2>3. SubSeq(Way, 1, Len(Way)) = Way
    BY <1>1, PrefixStep
  <2> QED BY <2>2, <2>3
<1>9. at \in 1..at
  OBVIOUS
<1>10. x \in DirNames <=> d
  OBVIOUS
<1> HIDE DEF q, r, a, z, x, e, p
<1>11. PICK new : /\ Located(r, new, archive, at)
                  /\ \A i \in 1..z : new[i] = loc[i]
                  /\ new[z + 1] = p
  <2>1. Append(loc[a], e.name) = p /\ Append(loc[a], e.name) \in Prefixes(archive[at].path)
        /\ (~d => archive[at].path = Append(loc[a], e.name))
    BY <1>6, <1>7, <1>8 DEF Way
  <2>2. \A i \in 1..Len(q) : loc[i] # Append(loc[a], e.name)
    BY <1>7, <2>1 DEF z
  <2>3. e.inode = Len(q) + 1 /\ e.name \in STRING /\ a \in 1..Len(q)
        /\ (e.name \in DirNames <=> d)
    BY <1>3, <1>4, <1>7, <1>10 DEF z
  <2>4. \E new : /\ Located(r, new, archive, at)
                 /\ \A i \in 1..Len(q) : new[i] = loc[i]
                 /\ new[Len(q) + 1] = Append(loc[a], e.name)
    <3>1. IsForest(q, m) /\ Grows(q, r, a, e, d, at) /\ Located(q, loc, archive, at)
      BY <1>4, <1>5, <1>7
    <3>2. /\ Append(loc[a], e.name) \in Prefixes(archive[at].path)
          /\ ~d => archive[at].path = Append(loc[a], e.name)
      BY <2>1
    <3>3. Fits(q, a, e, d, at, loc, archive, at)
      BY <1>9, <2>2, <2>3, <3>2, Zenon DEF Fits
    <3> QED BY <3>1, <3>3, GrowthLocated
  <2> QED BY <2>1, <2>4 DEF z
<1>12. Complete(r, new, archive, at - 1, {})
  <2> DEFINE n == at - 1
  <2> HIDE DEF n
  <2>1. Complete(q, loc, archive, n, {})
    BY <1>5 DEF n
  <2>2. Complete(r, new, archive, n, {})
    BY <1>4, <1>7, <1>11, <2>1, GrowthComplete DEF z
  <2> QED BY <2>2 DEF n
<1>13. Counted(r) /\ Len(r) = z + 1
  BY <1>5, <1>7 DEF Grows, z
<1>14. \A i \in 1..z : i \in 1..Len(r)
  BY <1>4, <1>13
<1>15. z + 1 \in 1..Len(r) /\ a \in 1..Len(r)
  BY <1>4, <1>13
<1>16. ASSUME NEW k \in 1..(l + 1), Way[k] \in DirNames
       PROVE  \E i \in 1..Len(r) : new[i] = SubSeq(Way, 1, k)
  <2>1. CASE k = l + 1
    BY <1>11, <1>15, <2>1 DEF p
  <2>2. CASE k # l + 1
    <3>1. k \in 1..l
      BY <2>2
    <3>2. PICK i \in 1..z : loc[i] = SubSeq(Way, 1, k)
      BY <1>5, <1>16, <3>1
    <3> QED BY <1>11, <1>14, <3>2
  <2> QED BY <2>1, <2>2
<1>17. ASSUME l + 1 < Len(Way), NEW i \in 1..Len(r), ~r[i].dir
       PROVE  r[i].header # at
  <2>1. d
    BY <1>8, <1>17
  <2>2. i # z + 1
    BY <1>7, <1>17, <2>1 DEF Grows, z
  <2>3. i \in 1..z
    BY <1>4, <1>13, <2>2
  <2>4. (r[i].dir <=> q[i].dir) /\ r[i].header = q[i].header
    BY <1>7, <2>3 DEF Grows, z
  <2> QED BY <1>5, <1>17, <2>3, <2>4
<1>18. ASSUME l + 1 = Len(Way), ~IsDir(Way)
       PROVE  \E i \in 1..Len(r) : \E k \in DOMAIN r[i].files :
                Append(new[i], r[i].files[k].name) = Way
  <2>1. SubSeq(Way, 1, Len(Way)) = Way
    BY <1>1, PrefixStep
  <2>2. ~d
    BY <1>1, <1>2, <1>10, <1>18, <2>1 DEF x
  <2>3. PICK k \in DOMAIN r[a].files : r[a].files[k] = e
    BY <1>7, <2>2 DEF Grows
  <2>4. Append(new[a], r[a].files[k].name) = Way
    BY <1>4, <1>6, <1>7, <1>8, <1>11, <2>2, <2>3
  <2> QED BY <1>15, <2>4
<1>19. new[u.active] = SubSeq(Way, 1, l + 1)
  BY <1>7, <1>11 DEF p
<1>20. Level(u, new, l + 1)
  BY <1>11, <1>12, <1>13, <1>16, <1>17, <1>18, <1>19, Zenon DEF Level, r
<1> QED
  BY <1>20

(* One component of the path.                                              *)
LEMMA LevelStep ==
  ASSUME archive \in Archives, archive \in Seq(Header), at \in 1..Len(archive),
         NEW m, NEW t, IsTree(t, m), NEW l \in 0..(Len(Way) - 1),
         NEW loc, Level(t, loc, l)
  PROVE  \E new : Level(Step(t, Way[l + 1], at), new, l + 1)
<1> DEFINE q == t.inode
           a == t.active
           z == Len(q)
           x == Way[l + 1]
           p == SubSeq(Way, 1, l + 1)
           found == Named(q[a].dirs, x)
<1>1. /\ Way \in Seq(STRING) /\ Len(Way) \in Nat
      /\ \A k \in 1..Len(Way) : Way[k] \in STRING
      /\ \A k \in 1..Len(Way) : k < Len(Way) => Way[k] \in DirNames
      /\ \A k \in 1..Len(Way) : IsDir(SubSeq(Way, 1, k)) <=> Way[k] \in DirNames
      /\ ~IsDir(Way) =>
              \A f \in 1..Len(archive) : archive[f].path = Way => f = at
      /\ SubSeq(Way, 1, Len(Way)) = Way
  BY WayIs, PrefixStep
<1>2. l + 1 \in 1..Len(Way) /\ l < Len(Way) /\ l \in 0..Len(Way)
  BY <1>1
<1>3. p = Append(SubSeq(Way, 1, l), x) /\ x \in STRING /\ SubSeq(Way, 1, l) \in Seq(STRING)
  BY <1>1, <1>2, PrefixStep
<1>4. /\ IsForest(q, m) /\ z \in Nat /\ a \in 1..z
      /\ t = [inode |-> q, active |-> a]
  BY DEF IsTree, IsForest
<1>5. /\ Located(q, loc, archive, at) /\ loc[a] = SubSeq(Way, 1, l)
      /\ Complete(q, loc, archive, at - 1, {}) /\ Counted(q)
      /\ \A k \in 1..l : Way[k] \in DirNames =>
            \E i \in 1..z : loc[i] = SubSeq(Way, 1, k)
      /\ \A i \in 1..z : ~q[i].dir => q[i].header # at
  BY <1>2 DEF Level
<1>6. /\ loc \in [1..z -> Seq(STRING)] /\ loc[1] = <<>>
      /\ \A i, j \in 1..z : loc[i] = loc[j] => i = j
      /\ \A i \in 1..z : q[i].dir <=> IsDir(loc[i])
  BY <1>5, Zenon DEF Located, Places
<1>7. IsDir(p) <=> x \in DirNames
  BY <1>1, <1>2
<1>8. p = Append(loc[a], x)
  BY <1>3, <1>5
<1> HIDE DEF p
<1>9. CASE x \in DirNames /\ found # {}
  <2> DEFINE k0 == Lowest(found)
             c == q[a].dirs[k0].inode
             u == Step(t, x, at)
  <2>1. q[a].dirs \in Seq(EntriesUpTo(z))
    BY <1>4, EntryIs
  <2>2. found \in SUBSET Nat
    BY <2>1, SMTT(30) DEF Named
  <2>3. k0 \in found
    <3> HIDE DEF found
    <3> QED BY <1>9, <2>2, LowestIn
  <2>4. k0 \in DOMAIN q[a].dirs /\ q[a].dirs[k0].name = x
    BY <2>3 DEF Named
  <2>5. u = [t EXCEPT !.active = c]
    BY <1>9 DEF Step, EnterDir
  <2> HIDE DEF k0, c, found
  <2>6. u.inode = q /\ u.active = c
    <3> HIDE DEF u, q, a
    <3> QED BY <1>4, <2>5
  <2>7. c \in 1..z /\ loc[c] = p
    <3>1. c \in 1..z
      BY <1>4, <2>4, EntryIs, SMTT(30) DEF c
    <3>2. loc[c] = Append(loc[a], q[a].dirs[k0].name)
      BY <1>4, <1>5, <2>4 DEF c, Located, Steps
    <3> QED BY <1>8, <2>4, <3>1, <3>2
  <2> HIDE DEF u, q, a
  <2>8. ASSUME NEW k \in 1..(l + 1), Way[k] \in DirNames
        PROVE  \E i \in 1..z : loc[i] = SubSeq(Way, 1, k)
    <3>1. CASE k = l + 1
      BY <2>7, <3>1 DEF p
    <3>2. CASE k # l + 1
      <4>1. k \in 1..l
        BY <3>2
      <4> QED BY <1>5, <2>8, <4>1
    <3> QED BY <3>1, <3>2
  <2>9. ~(l + 1 = Len(Way) /\ ~IsDir(Way))
    BY <1>1, <1>7, <1>9 DEF p
  <2>10. Level(u, loc, l + 1)
    BY <1>5, <2>6, <2>7, <2>8, <2>9, Zenon DEF Level, z, p
  <2> QED BY <2>10 DEF u
<1>10. CASE x \in DirNames /\ found = {}
  <2> DEFINE u == EnterDir(t, x)
             e == [name |-> x, inode |-> z + 1]
  <2>1. Grows(q, u.inode, a, e, TRUE, at) /\ u.active = z + 1
    BY <1>10, EnterGrows
  <2>2. ASSUME NEW i \in 1..z, loc[i] = p
        PROVE  FALSE
    <3>1. q[i].dir /\ i # 1
      <4>1. p # <<>>
        <5>1. loc[a] \in Seq(STRING)
          BY <1>4, <1>6
        <5> DEFINE s1 == loc[a]
        <5> HIDE DEF s1, x
        <5>2. s1 \in Seq(STRING) /\ x \in STRING
          BY <1>3, <5>1 DEF s1
        <5>3. Append(s1, x) # <<>>
          BY <5>2, AppendTells
        <5> QED BY <1>8, <5>3 DEF s1
      <4> QED BY <1>6, <1>7, <1>10, <2>2, <4>1, Zenon
    <3>2. PICK j \in 1..z : \E k \in DOMAIN q[j].dirs : q[j].dirs[k].inode = i
      BY <1>5, <3>1 DEF Located, Links
    <3>3. PICK k \in DOMAIN q[j].dirs : q[j].dirs[k].inode = i
      BY <3>2
    <3>4. p = Append(loc[j], q[j].dirs[k].name)
      BY <1>5, <2>2, <3>3 DEF Located, Steps
    <3>5. q[j].dirs[k].name \in STRING
      BY <1>4, EntryIs
    <3> DEFINE nm == q[j].dirs[k].name
    <3>6. loc[j] = loc[a] /\ nm = x
      <4>1. /\ loc[j] \in Seq(STRING) /\ loc[a] \in Seq(STRING)
            /\ nm \in STRING /\ x \in STRING /\ Append(loc[j], nm) = Append(loc[a], x)
        BY <1>3, <1>4, <1>6, <1>8, <3>4, <3>5
      <4> HIDE DEF nm, x, z
      <4> DEFINE s1 == loc[j]
                 s2 == loc[a]
      <4>2. s1 \in Seq(STRING) /\ s2 \in Seq(STRING) /\ Append(s1, nm) = Append(s2, x)
        BY <4>1
      <4> HIDE DEF s1, s2
      <4>3. s1 = s2 /\ nm = x
        BY <4>1, <4>2, AppendTells
      <4> QED BY <4>3 DEF s1, s2
    <3>7. j = a
      BY <1>4, <1>6, <3>6
    <3>8. k \in found
      BY <3>3, <3>6, <3>7 DEF Named
    <3> QED BY <1>10, <3>8
  <2>3. Step(t, x, at) = u
    BY <1>10 DEF Step
  <2> HIDE DEF u
  <2>4. x \in DirNames <=> TRUE
    BY <1>10
  <2>5. \E new : Level(u, new, l + 1)
    BY <2>1, <2>2, <2>4, LevelGrows DEF p
  <2> QED BY <2>3, <2>5
<1>11. CASE x \notin DirNames
  <2> DEFINE u == AddFile(t, x, at)
             e == [name |-> x, inode |-> z + 1]
  <2>1. Grows(q, u.inode, a, e, FALSE, at) /\ u.active = z + 1
    BY AddGrows
  <2>2. p = Way
    <3>1. ~(l + 1 < Len(Way))
      BY <1>1, <1>2, <1>11
    <3>11. Len(Way) \in Nat /\ l + 1 <= Len(Way) /\ l + 1 \in Nat
      BY <1>2
    <3>2. l + 1 = Len(Way)
      BY <3>1, <3>11
    <3> QED BY <1>1, <3>2 DEF p
  <2>3. ASSUME NEW i \in 1..z, loc[i] = p
        PROVE  FALSE
    <3>1. ~q[i].dir
      BY <1>6, <1>7, <1>11, <2>3, Zenon
    <3>2. q[i].header \in 1..at /\ archive[q[i].header].path = Way
      BY <1>5, <2>2, <2>3, <3>1 DEF Located, Names
    <3>3. q[i].header \in 1..Len(archive)
      BY <3>2
    <3>4. q[i].header = at
      BY <1>1, <1>7, <1>11, <2>2, <3>2, <3>3
    <3> QED BY <1>5, <3>1, <3>4
  <2>4. Step(t, x, at) = u
    BY <1>11 DEF Step
  <2> HIDE DEF u
  <2>5. x \in DirNames <=> FALSE
    BY <1>11
  <2>6. \E new : Level(u, new, l + 1)
    BY <2>1, <2>3, <2>5, LevelGrows DEF p
  <2> QED BY <2>4, <2>6
<1> QED
  BY <1>9, <1>10, <1>11

(* Before the first component.                                             *)
LEMMA LevelZero ==
  ASSUME IInv, archive \in Archives, at \in 1..Len(archive), NEW loc, Tree(loc)
  PROVE  Level([inode |-> inode, active |-> 1], loc, 0)
<1> DEFINE t == [inode |-> inode, active |-> 1]
<1>1. /\ archive \in Seq(Header) /\ Len(inode) \in Nat /\ Len(archive) \in Nat
  BY DEF IInv, Typing, IsForest
<1>2. Way \in Seq(STRING) /\ Len(Way) \in Nat
  BY <1>1, WayIs
<1>3. /\ Located(inode, loc, archive, at - 1) /\ gone = {} /\ Counted(inode)
      /\ Complete(inode, loc, archive, at - 1, {})
  <2>1. gone = {} /\ ~strayed
    BY <1>1 DEF Tree
  <2> QED BY <2>1 DEF Tree
<1>4. Names(inode, loc, archive, at)
  <2>1. Names(inode, loc, archive, at - 1)
    BY <1>3 DEF Located
  <2>2. \A g \in 1..(at - 1) : g \in 1..at
    OBVIOUS
  <2> DEFINE n == at - 1
  <2> HIDE DEF n
  <2>3. Names(inode, loc, archive, n) /\ \A g \in 1..n : g \in 1..at
    BY <2>1, <2>2 DEF n
  <2> QED BY <2>3 DEF Names
<1>5. Located(inode, loc, archive, at)
  BY <1>3, <1>4 DEF Located
<1>6. loc[1] = SubSeq(Way, 1, 0)
  BY <1>2, <1>3, PrefixStep DEF Located, Places
<1>7. ASSUME NEW i \in 1..Len(inode), ~inode[i].dir PROVE inode[i].header # at
  <2>1. inode[i].header \in 1..(at - 1)
    BY <1>3, <1>7 DEF Located, Names
  <2> QED BY <2>1
<1>8. ~(0 = Len(Way) /\ ~IsDir(Way))
  <2>1. 0 = Len(Way) => Way = <<>>
    BY <1>2
  <2> QED BY <2>1 DEF IsDir
<1>9. t.inode = inode /\ t.active = 1 /\ 1..0 = {}
  OBVIOUS
<1> HIDE DEF t
<1>10. Level(t, loc, 0)
  BY <1>3, <1>5, <1>6, <1>7, <1>8, <1>9, Zenon DEF Level
<1> QED
  BY <1>10 DEF t

(* Behind the last.                                                        *)
LEMMA LevelLast ==
  ASSUME archive \in Archives, archive \in Seq(Header), at \in 1..Len(archive),
         NEW t, NEW loc, Level(t, loc, Len(Way))
  PROVE  /\ Located(t.inode, loc, archive, at) /\ Counted(t.inode)
         /\ Complete(t.inode, loc, archive, at, {})
<1> DEFINE q == t.inode
<1>1. Len(Way) \in Nat /\ DOMAIN Way = 1..Len(Way)
  BY WayIs
<1>2. /\ Located(q, loc, archive, at) /\ Counted(q)
      /\ Complete(q, loc, archive, at - 1, {})
      /\ \A k \in 1..Len(Way) : Way[k] \in DirNames =>
           \E i \in 1..Len(q) : loc[i] = SubSeq(Way, 1, k)
      /\ ~IsDir(Way) =>
           \E i \in 1..Len(q) : \E k \in DOMAIN q[i].files :
             Append(loc[i], q[i].files[k].name) = Way
  BY Zenon DEF Level
<1> HIDE DEF q
<1>3. ASSUME NEW g \in 1..at
      PROVE  /\ \A l \in DOMAIN archive[g].path : archive[g].path[l] \in DirNames =>
                  \E i \in 1..Len(q) : loc[i] = SubSeq(archive[g].path, 1, l)
             /\ ~IsDir(archive[g].path) /\ archive[g].path \notin {} =>
                  \E i \in 1..Len(q) : \E k \in DOMAIN q[i].files :
                    Append(loc[i], q[i].files[k].name) = archive[g].path
  <2>1. CASE g = at
    <3>1. archive[g].path = Way
      BY <2>1 DEF Way
    <3> QED BY <1>1, <1>2, <3>1
  <2>2. CASE g # at
    <3>1. g \in 1..(at - 1)
      BY <2>2
    <3> QED BY <1>2, <3>1, Zenon DEF Complete
  <2> QED BY <2>1, <2>2, SMTT(30)
<1>4. Complete(q, loc, archive, at, {})
  BY <1>3 DEF Complete
<1> QED
  BY <1>2, <1>4 DEF q

(* A turn of load_tarfs.                                                   *)
LEMMA LoadMirrors ==
  ASSUME IInv, Mirrors, load_tarfs
  PROVE  Mirrors'
<1> DEFINE m == Len(archive)
           z == Len(Way)
<1>1. /\ archive \in Seq(Header) /\ m \in Nat /\ at \in 1..m
      /\ IsForest(inode, m) /\ Len(inode) >= 1
  BY DEF IInv, Typing, load_tarfs
<1>2. archive' = archive /\ at' = at + 1 /\ gone' = gone /\ strayed' = strayed
  BY DEF load_tarfs, history
<1>3. inode' = Walk(Way, inode, at)
  BY DEF load_tarfs, Walk, Way
<1>4. archive \in Archives
  BY DEF Mirrors
<1>5. Way \in Seq(STRING) /\ z \in Nat
  BY <1>1, <1>4, WayIs
<1>6. PICK loc0 : Tree(loc0)
  BY DEF Mirrors
<1>7. gone = {} /\ ~strayed
  BY <1>1, <1>6 DEF Tree
<1>8. PICK t : IsWalk(t, Way, inode, at, m) /\ Walk(Way, inode, at) = t[z].inode
  <2> HIDE DEF m
  <2> QED BY <1>1, <1>5, WalkRows
<1>9. /\ t[0] = [inode |-> inode, active |-> 1]
      /\ \A l \in 0..z : IsTree(t[l], m)
      /\ \A l \in 0..(z - 1) : t[l + 1] = Step(t[l], Way[l + 1], at)
  BY <1>8 DEF IsWalk
<1> DEFINE S == {l \in 0..z : \E loc : Level(t[l], loc, l)}
<1>10. 0 \in S
  <2>1. Level(t[0], loc0, 0)
    BY <1>1, <1>4, <1>6, <1>9, LevelZero
  <2> QED BY <1>5, <2>1
<1>11. ASSUME NEW l \in 0..(z - 1), l \in S PROVE l + 1 \in S
  <2>1. PICK loc : Level(t[l], loc, l)
    BY <1>11
  <2>2. l \in 0..z /\ l + 1 \in 0..z
    BY <1>5
  <2>3. IsTree(t[l], m) /\ t[l + 1] = Step(t[l], Way[l + 1], at)
    BY <1>9, <2>2
  <2> DEFINE x == t[l]
             y == t[l + 1]
  <2>4. IsTree(x, m) /\ y = Step(x, Way[l + 1], at) /\ Level(x, loc, l)
    BY <2>1, <2>3
  <2> HIDE DEF x, y, m
  <2>5. \E new : Level(Step(x, Way[l + 1], at), new, l + 1)
    BY <1>1, <1>4, <2>4, LevelStep DEF m
  <2>6. \E new : Level(y, new, l + 1)
    BY <2>4, <2>5
  <2> QED BY <2>2, <2>6 DEF y
<1>12. z \in S
  <2> HIDE DEF S, z
  <2>1. \A i \in 0..z : i \in S
    BY <1>5, <1>10, <1>11, UpTo
  <2> QED BY <1>5, <2>1
<1>13. PICK loc : Level(t[z], loc, z)
  BY <1>12
<1>14. /\ Located(inode', loc, archive, at) /\ Counted(inode')
       /\ Complete(inode', loc, archive, at, {})
  <2> DEFINE x == t[z]
  <2>1. Level(x, loc, Len(Way)) /\ inode' = x.inode
    BY <1>3, <1>8, <1>13
  <2> HIDE DEF x, z, m
  <2> QED BY <1>1, <1>4, <2>1, LevelLast DEF m
<1>15. at' - 1 = at
  BY <1>1, <1>2
<1>16. Without(inode', loc, {})
  BY DEF Without
<1>17. Tree(loc)'
  BY <1>2, <1>7, <1>14, <1>15, <1>16, Zenon DEF Tree
<1> QED
  BY <1>2, <1>4, <1>17 DEF Mirrors

-----------------------------------------------------------------------------
(* sys_unlink takes away what its path names                               *)

(* r is q without the file c of the node i, if there is one.               *)
Shrinks(q, r, i, c) ==
  /\ Len(r) = Len(q)
  /\ \A j \in 1..Len(q) :
       (r[j].dir <=> q[j].dir) /\ r[j].header = q[j].header /\ r[j].dirs = q[j].dirs
  /\ \A j \in 1..Len(q) : \A k \in DOMAIN r[j].files :
       \E g \in DOMAIN q[j].files :
         r[j].files[k] = q[j].files[g] /\ (j = i => g # c)
  /\ \A j \in 1..Len(q) : \A g \in DOMAIN q[j].files :
       \/ j = i /\ g = c
       \/ \E k \in DOMAIN r[j].files : r[j].files[k] = q[j].files[g]

(* A list without one of its elements.                                     *)
LEMMA ListShrinks ==
  ASSUME NEW T, NEW s \in Seq(T), NEW c \in 1..Len(s)
  PROVE  LET z == RemoveAt(s, c)
         IN  /\ Len(z) = Len(s) - 1
             /\ \A k \in DOMAIN z : \E g \in DOMAIN s : z[k] = s[g] /\ g # c
             /\ \A g \in DOMAIN s : g # c => \E k \in DOMAIN z : z[k] = s[g]
             /\ (\A k, l \in DOMAIN s : s[k].name = s[l].name => k = l)
                => \A k, l \in DOMAIN z : z[k].name = z[l].name => k = l
<1> DEFINE z == RemoveAt(s, c)
           n == Len(s)
           At(k) == IF k < c THEN k ELSE k + 1
<1>1. /\ z \in Seq(T) /\ Len(z) = n - 1 /\ n \in Nat
      /\ \A k \in 1..(n - 1) : z[k] = IF k < c THEN s[k] ELSE s[k + 1]
  <2>1. z \in Seq(T) /\ Len(z) = Len(s) - 1
    BY RemoveAtSeq
  <2>2. \A k \in 1..(Len(s) - 1) : z[k] = IF k < c THEN s[k] ELSE s[k + 1]
    BY RemoveAtSeq
  <2> HIDE DEF z
  <2> QED BY <2>1, <2>2
<1>2. DOMAIN s = 1..n /\ DOMAIN z = 1..(n - 1)
  BY <1>1
<1> HIDE DEF z
<1>3. \A k \in 1..(n - 1) : At(k) \in 1..n /\ At(k) # c /\ z[k] = s[At(k)]
  BY <1>1
<1>4. \A k, l \in 1..(n - 1) : At(k) = At(l) => k = l
  BY <1>1
<1>5. ASSUME NEW g \in 1..n, g # c
      PROVE  \E k \in 1..(n - 1) : z[k] = s[g]
  <2>1. CASE g < c
    <3>1. g \in 1..(n - 1) /\ z[g] = s[g]
      BY <1>1, <2>1
    <3> QED BY <3>1
  <2>2. CASE g > c
    <3>1. g - 1 \in 1..(n - 1) /\ ~(g - 1 < c) /\ (g - 1) + 1 = g
      BY <1>1, <2>2
    <3>2. z[g - 1] = s[g]
      BY <1>1, <3>1
    <3> QED BY <3>1, <3>2
  <2> QED BY <1>1, <1>5, <2>1, <2>2
<1> HIDE DEF At, n
<1>6. \A k \in DOMAIN z : \E g \in DOMAIN s : z[k] = s[g] /\ g # c
  BY <1>2, <1>3
<1>7. (\A k, l \in DOMAIN s : s[k].name = s[l].name => k = l)
      => \A k, l \in DOMAIN z : z[k].name = z[l].name => k = l
  BY <1>2, <1>3, <1>4
<1>8. \A g \in DOMAIN s : g # c => \E k \in DOMAIN z : z[k] = s[g]
  BY <1>2, <1>5
<1>9. Len(z) = Len(s) - 1
  BY <1>1 DEF n
<1> QED
  BY <1>6, <1>7, <1>8, <1>9 DEF z

(* A tree without one of its files has its nodes where they were.          *)
LEMMA ShrunkLocated ==
  ASSUME NEW q, NEW r, NEW i, NEW c, Shrinks(q, r, i, c), NEW loc, NEW v, NEW n,
         Located(q, loc, v, n),
         \A j \in 1..Len(q) : \A k, l \in DOMAIN r[j].files :
           r[j].files[k].name = r[j].files[l].name => k = l
  PROVE  Located(r, loc, v, n)
<1>1. Len(r) = Len(q)
  BY DEF Shrinks
<1>2. \A j \in 1..Len(q) :
       (r[j].dir <=> q[j].dir) /\ r[j].header = q[j].header /\ r[j].dirs = q[j].dirs
  BY DEF Shrinks
<1>3. \A j \in 1..Len(q) : \A k \in DOMAIN r[j].files :
       \E g \in DOMAIN q[j].files : r[j].files[k] = q[j].files[g]
  BY DEF Shrinks
<1>4. Places(q, loc) /\ Names(q, loc, v, n) /\ Steps(q, loc) /\ Links(q)
  BY DEF Located
<1>5. Places(r, loc)
  BY <1>1, <1>2, <1>4, Zenon DEF Places
<1>6. Names(r, loc, v, n)
  BY <1>1, <1>2, <1>4 DEF Names
<1>7. Steps(r, loc)
  <2>1. \A j \in 1..Len(q) : \A k \in DOMAIN r[j].dirs :
         /\ loc[r[j].dirs[k].inode] = Append(loc[j], r[j].dirs[k].name)
         /\ r[j].dirs[k].name \in DirNames
    <3> SUFFICES ASSUME NEW j \in 1..Len(q), NEW k \in DOMAIN r[j].dirs
                 PROVE  /\ loc[r[j].dirs[k].inode] = Append(loc[j], r[j].dirs[k].name)
                        /\ r[j].dirs[k].name \in DirNames
      OBVIOUS
    <3>1. r[j].dirs = q[j].dirs
      BY <1>2
    <3>2. k \in DOMAIN q[j].dirs
      BY <3>1
    <3>3. /\ loc[q[j].dirs[k].inode] = Append(loc[j], q[j].dirs[k].name)
          /\ q[j].dirs[k].name \in DirNames
      BY <1>4, <3>2 DEF Steps
    <3> QED BY <3>1, <3>3
  <2>2. ASSUME NEW j \in 1..Len(q), NEW k \in DOMAIN r[j].files
        PROVE  /\ loc[r[j].files[k].inode] = Append(loc[j], r[j].files[k].name)
               /\ r[j].files[k].name \notin DirNames
    <3>1. PICK g \in DOMAIN q[j].files : r[j].files[k] = q[j].files[g]
      BY <1>3
    <3>2. /\ loc[q[j].files[g].inode] = Append(loc[j], q[j].files[g].name)
          /\ q[j].files[g].name \notin DirNames
      BY <1>4 DEF Steps
    <3> QED BY <3>1, <3>2
  <2> QED BY <1>1, <2>1, <2>2, Zenon DEF Steps
<1>8. Links(r)
  <2>1. ASSUME NEW j \in 1..Len(q), j # 1, r[j].dir
        PROVE  \E g \in 1..Len(q) : \E k \in DOMAIN r[g].dirs : r[g].dirs[k].inode = j
    <3>1. PICK g \in 1..Len(q) : \E k \in DOMAIN q[g].dirs : q[g].dirs[k].inode = j
      BY <1>2, <1>4, <2>1 DEF Links
    <3>2. r[g].dirs = q[g].dirs
      BY <1>2
    <3> QED BY <3>1, <3>2
  <2> QED BY <1>1, <2>1, Zenon DEF Links
<1> QED
  BY <1>5, <1>6, <1>7, <1>8 DEF Located

(* No file has an empty name.                                              *)
LEMMA NamesNotEmpty ==
  ASSUME IInv, archive \in Archives, NEW loc,
         Located(inode, loc, archive, Len(archive)), NEW i \in 1..Len(inode),
         NEW k \in DOMAIN inode[i].files
  PROVE  inode[i].files[k].name # ""
<1> DEFINE j == inode[i].files[k].inode
           e == inode[i].files[k].name
           s == loc[i]
<1>1. archive \in Seq(Header) /\ IsForest(inode, Len(archive))
  BY DEF IInv, Typing
<1>2. j \in 1..Len(inode) /\ e \in STRING
  BY <1>1, EntryIs
<1>3. loc[j] = Append(s, e) /\ s \in Seq(STRING)
  BY DEF Located, Steps, Places
<1> HIDE DEF j, e, s
<1>6. Append(s, e) # <<>>
  BY <1>2, <1>3, AppendTells
<1>7. PICK g \in 1..Len(archive) : loc[j] \in Prefixes(archive[g].path)
  BY <1>2, <1>3, <1>6 DEF Located, Names
<1> DEFINE h == archive[g].path
<1>8. Proper(h)
  BY <1>1, HeaderIs
<1>9. PICK z \in 0..Len(h) : loc[j] = SubSeq(h, 1, z)
  BY <1>7 DEF Prefixes
<1> HIDE DEF h
<1>10. h \in Seq(STRING) /\ Len(h) \in Nat /\ SubSeq(h, 1, 0) = <<>>
  <2>1. h \in Seq(STRING)
    BY <1>8, Zenon DEF Proper
  <2> QED BY <2>1, PrefixStep
<1>11. z # 0
  BY <1>3, <1>6, <1>9, <1>10
<1> DEFINE l == z - 1
           u == SubSeq(h, 1, l)
           x == h[l + 1]
<1>12. l \in 0..(Len(h) - 1) /\ l \in 0..Len(h) /\ l + 1 = z /\ l + 1 \in 1..Len(h)
  BY <1>10, <1>11
<1> HIDE DEF l
<1>13. SubSeq(h, 1, l + 1) = Append(u, x) /\ u \in Seq(STRING) /\ x \in STRING
  BY <1>10, <1>12, PrefixStep
<1>14. x # ""
  BY <1>8, <1>12, Zenon DEF Proper
<1>15. Append(s, e) = Append(u, x)
  BY <1>3, <1>9, <1>12, <1>13
<1> HIDE DEF u, x
<1>16. e = x
  BY <1>2, <1>3, <1>13, <1>15, AppendTells
<1> QED
  BY <1>14, <1>16, Zenon DEF e

Distinct(f) == \A k, l \in DOMAIN f : f[k].name = f[l].name => k = l

(* The list of files of one node changes.                                  *)
LEMMA TakenShrinks ==
  ASSUME NEW m, IsForest(inode, m), Links(inode), NEW i \in 1..Len(inode),
         NEW name, NEW r, r = [inode EXCEPT ![i] = Taken(i, name)]
  PROVE  /\ \A j \in 1..Len(inode) : Distinct(r[j].files)
         /\ Named(Visible(i), name) = {} => Shrinks(inode, r, i, 0)
         /\ Named(Visible(i), name) # {} =>
              /\ Counted(inode) => Counted(r)
              /\ \E c \in DOMAIN inode[i].files :
                   inode[i].files[c].name = name /\ Shrinks(inode, r, i, c)
<1> DEFINE n == Len(inode)
           x == Taken(i, name)
           f == inode[i].files
           found == Named(Visible(i), name)
           c == Lowest(found)
<1>1. /\ x \in NodesUpTo(n) /\ Sound(x, m) /\ x.nfiles = inode[i].nfiles - 1
      /\ x.dirs = inode[i].dirs /\ x.header = inode[i].header
      /\ (x.dir <=> inode[i].dir)
      /\ x.files = IF found = {} THEN f ELSE RemoveAt(f, c)
  BY TakenSound, Zenon
<1> HIDE DEF x, c
<1>2. /\ Len(r) = n /\ \A j \in 1..n : r[j] = IF j = i THEN x ELSE inode[j]
  BY <1>1, ForestKeeps DEF x
<1>3. r[i] = x /\ \A j \in 1..n : j # i => r[j] = inode[j]
  BY <1>2
<1>4. \A j \in 1..n : Distinct(inode[j].files)
  BY Zenon DEF Links, Distinct
<1>5. f \in Seq(EntriesUpTo(n)) /\ Len(f) \in Nat /\ inode[i].nfiles \in Int
  <2>1. inode[i] \in NodesUpTo(n)
    BY DEF IsForest
  <2> QED BY <2>1 DEF NodesUpTo
<1>6. \A j \in 1..n : (r[j].dir <=> inode[j].dir) /\ r[j].header = inode[j].header
                      /\ r[j].dirs = inode[j].dirs
  BY <1>1, <1>3
<1> HIDE DEF f, found
<1>7. CASE found = {}
  <2>1. x.files = f
    BY <1>1, <1>7
  <2>2. \A j \in 1..n : r[j].files = inode[j].files
    BY <1>3, <2>1 DEF f
  <2>3. 0 \notin DOMAIN f
    BY <1>5
  <2>4. ASSUME NEW j \in 1..n, NEW k \in DOMAIN r[j].files
        PROVE  \E g \in DOMAIN inode[j].files :
                 r[j].files[k] = inode[j].files[g] /\ (j = i => g # 0)
    <3>1. k \in DOMAIN inode[j].files /\ r[j].files[k] = inode[j].files[k]
      BY <2>2
    <3>2. j = i => k # 0
      BY <2>3, <3>1 DEF f
    <3> QED BY <3>1, <3>2
  <2>5. ASSUME NEW j \in 1..n, NEW g \in DOMAIN inode[j].files
        PROVE  \E k \in DOMAIN r[j].files : r[j].files[k] = inode[j].files[g]
    BY <2>2
  <2>6. Shrinks(inode, r, i, 0)
    BY <1>2, <1>6, <2>4, <2>5, ZenonT(60) DEF Shrinks
  <2>7. \A j \in 1..n : Distinct(r[j].files)
    BY <1>4, <2>2
  <2> QED BY <1>7, <2>6, <2>7 DEF found
<1>8. CASE found # {}
  <2>1. c \in DOMAIN f /\ f[c].name = name
    <3> DEFINE w == Visible(i)
    <3>1. /\ w \in Seq(EntriesUpTo(n))
          /\ \A k \in DOMAIN w : k \in DOMAIN f /\ w[k] = f[k]
      BY ChildrenTyped, ChildrenAre DEF f
    <3>2. \A k : k \in found <=> k \in DOMAIN w /\ w[k].name = name
      BY DEF found, Named
    <3> HIDE DEF w
    <3>3. found \in SUBSET Nat
      BY <3>1, <3>2
    <3>4. c \in found
      BY <1>8, <3>3, LowestIn DEF c
    <3> QED BY <3>1, <3>2, <3>4
  <2> DEFINE y == RemoveAt(f, c)
  <2>2. c \in 1..Len(f)
    BY <1>5, <2>1
  <2>3. /\ Len(y) = Len(f) - 1
        /\ \A k \in DOMAIN y : \E g \in DOMAIN f : y[k] = f[g] /\ g # c
        /\ \A g \in DOMAIN f : g # c => \E k \in DOMAIN y : y[k] = f[g]
        /\ Distinct(f) => Distinct(y)
    BY <1>5, <2>2, ListShrinks DEF Distinct
  <2>4. r[i].files = y /\ inode[i].files = f
    BY <1>1, <1>3, <1>8 DEF f
  <2> HIDE DEF y
  <2>5. ASSUME NEW j \in 1..n, NEW k \in DOMAIN r[j].files
        PROVE  \E g \in DOMAIN inode[j].files :
                 r[j].files[k] = inode[j].files[g] /\ (j = i => g # c)
    <3>1. CASE j = i
      BY <2>3, <2>4, <3>1
    <3>2. CASE j # i
      BY <1>3, <3>2
    <3> QED BY <3>1, <3>2
  <2>6. ASSUME NEW j \in 1..n, NEW g \in DOMAIN inode[j].files
        PROVE  \/ j = i /\ g = c
               \/ \E k \in DOMAIN r[j].files : r[j].files[k] = inode[j].files[g]
    <3>1. CASE j = i
      <4>1. g \in DOMAIN f
        BY <2>4, <3>1
      <4>2. g = c \/ \E k \in DOMAIN y : y[k] = f[g]
        BY <2>3, <4>1
      <4> QED BY <2>4, <3>1, <4>2, Zenon
    <3>2. CASE j # i
      BY <1>3, <3>2
    <3> QED BY <3>1, <3>2
  <2>7. Shrinks(inode, r, i, c)
    BY <1>2, <1>6, <2>5, <2>6, Zenon DEF Shrinks
  <2>8. ASSUME NEW j \in 1..n PROVE Distinct(r[j].files)
    <3>1. CASE j = i
      BY <1>4, <2>3, <2>4, <3>1
    <3>2. CASE j # i
      BY <1>3, <1>4, <3>2
    <3> QED BY <3>1, <3>2
  <2>9. ASSUME Counted(inode) PROVE Counted(r)
    <3>1. \A j \in 1..n : inode[j].nfiles = Len(inode[j].files)
      BY <2>9 DEF Counted
    <3>2. x.nfiles = Len(x.files)
      BY <1>1, <1>3, <1>5, <2>3, <2>4, <3>1
    <3>3. \A j \in 1..n : r[j].nfiles = Len(r[j].files)
      BY <1>3, <3>1, <3>2
    <3> QED BY <1>2, <3>3 DEF Counted
  <2>10. c \in DOMAIN inode[i].files /\ inode[i].files[c].name = name
    BY <2>1, <2>4
  <2> QED BY <1>8, <2>7, <2>8, <2>9, <2>10 DEF found
<1> QED
  BY <1>7, <1>8

(* A path of a file is its name behind its directory.                      *)
LEMMA PathSplits ==
  ASSUME NEW S, NEW path \in Seq(S), ~IsDir(path)
  PROVE  /\ ParentOf(path) \in Seq(S) /\ NameOf(path) \in S
         /\ path = Append(ParentOf(path), NameOf(path))
<1> DEFINE l == Len(path) - 1
<1>1. path # <<>>
  BY DEF IsDir
<1>2. ParentOf(path) = Front(path)
  BY DEF ParentOf
<1>3. NameOf(path) = Last(path)
  BY Zenon DEF NameOf
<1>4. Len(path) \in Nat /\ Len(path) # 0
  BY <1>1
<1>5. l \in 0..(Len(path) - 1) /\ l \in 0..Len(path) /\ l + 1 = Len(path)
  BY <1>4
<1>6. Front(path) = SubSeq(path, 1, l) /\ Last(path) = path[l + 1] /\ path[l + 1] \in S
  BY <1>4, <1>5 DEF Front, Last
<1> HIDE DEF l
<1>7. /\ SubSeq(path, 1, l + 1) = Append(SubSeq(path, 1, l), path[l + 1])
      /\ SubSeq(path, 1, l) \in Seq(S) /\ SubSeq(path, 1, Len(path)) = path
  BY <1>5, PrefixStep
<1> QED
  BY <1>2, <1>3, <1>5, <1>6, <1>7

(* The step: the tree mirrors the archive but for one more path.           *)
LEMMA UnlinkMirrors ==
  ASSUME IInv, Mirrors, NEW path \in Paths, sys_unlink(path)
  PROVE  Mirrors'
<1> DEFINE m == Len(archive)
           i == find_file(ParentOf(path))
           name == NameOf(path)
           found == Named(Visible(i), name)
<1>1. /\ archive \in Seq(Header) /\ m \in Nat /\ at \in 1..(m + 1)
      /\ IsForest(inode, m) /\ Len(inode) >= 1 /\ Len(inode) \in Nat
  BY DEF IInv, Typing, IsForest
<1>2. /\ at > m /\ archive' = archive /\ at' = at
  BY DEF sys_unlink, Call, boot
<1>3. at = m + 1 /\ at - 1 = m
  BY <1>1, <1>2
<1>4. /\ i # 0 /\ inode' = [inode EXCEPT ![i] = Taken(i, name)]
      /\ gone' = IF found # {} THEN gone \cup {path} ELSE gone
      /\ strayed' = (strayed \/ ~(found # {}))
  BY Zenon DEF sys_unlink
<1>5. archive \in Archives
  BY DEF Mirrors
<1>6. PICK loc : Tree(loc)
  BY DEF Mirrors
<1>7. /\ Located(inode, loc, archive, m) /\ Complete(inode, loc, archive, m, gone)
      /\ Without(inode, loc, gone) /\ (~strayed => Counted(inode))
  BY <1>3, <1>6 DEF Tree
<1>8. PICK S : /\ STRING \subseteq S
               /\ \A p \in Paths : p \in Seq(S) /\ ParentOf(p) \in Seq(S)
  BY <1>1, PathsAre
<1> HIDE DEF m
<1>9. i \in 1..Len(inode) /\ loc[i] = ParentOf(path)
  <2> DEFINE p == ParentOf(path)
  <2>1. p \in Seq(S) /\ find_file(p) # 0
    BY <1>4, <1>8
  <2> HIDE DEF p
  <2>2. find_file(p) \in 1..Len(inode) /\ loc[find_file(p)] = p
    BY <1>1, <1>7, <1>8, <2>1, FindSound
  <2> QED BY <2>2 DEF p
<1> HIDE DEF i, name, found
<1>10. /\ loc \in [1..Len(inode) -> Seq(STRING)]
       /\ \A j, k \in 1..Len(inode) : loc[j] = loc[k] => j = k
       /\ Links(inode)
  BY <1>7 DEF Located, Places
<1>11. \A j \in 1..Len(inode) : loc[j] \in Seq(S)
  BY <1>8, <1>10, SeqGrows
<1>12. /\ \A j \in 1..Len(inode) : Distinct(inode'[j].files)
       /\ found = {} => Shrinks(inode, inode', i, 0)
       /\ found # {} =>
            /\ Counted(inode) => Counted(inode')
            /\ \E c \in DOMAIN inode[i].files :
                 inode[i].files[c].name = name /\ Shrinks(inode, inode', i, c)
  BY <1>1, <1>4, <1>9, <1>10, TakenShrinks DEF found
<1>13. ASSUME NEW c, Shrinks(inode, inode', i, c)
       PROVE  /\ Located(inode', loc, archive, m) /\ Len(inode') = Len(inode)
  <2>1. \A j \in 1..Len(inode) : \A k, l \in DOMAIN inode'[j].files :
           inode'[j].files[k].name = inode'[j].files[l].name => k = l
    BY <1>12, Zenon DEF Distinct
  <2>2. Len(inode') = Len(inode)
    BY <1>13 DEF Shrinks
  <2> DEFINE r == inode'
  <2>3. /\ Shrinks(inode, r, i, c)
        /\ \A j \in 1..Len(inode) : \A k, l \in DOMAIN r[j].files :
             r[j].files[k].name = r[j].files[l].name => k = l
    BY <1>13, <2>1
  <2> HIDE DEF r
  <2>4. Located(r, loc, archive, m)
    BY <1>7, <2>3, ShrunkLocated
  <2> QED BY <2>2, <2>4 DEF r
<1>14. \A g \in 1..m :
         /\ \A l \in DOMAIN archive[g].path : archive[g].path[l] \in DirNames =>
              \E j \in 1..Len(inode) : loc[j] = SubSeq(archive[g].path, 1, l)
         /\ ~IsDir(archive[g].path) /\ archive[g].path \notin gone =>
              \E j \in 1..Len(inode) : \E k \in DOMAIN inode[j].files :
                Append(loc[j], inode[j].files[k].name) = archive[g].path
  BY <1>7, Zenon DEF Complete
<1>15. /\ \A j \in 1..Len(inode) : \A k \in DOMAIN inode[j].files :
            Append(loc[j], inode[j].files[k].name) \notin gone
       /\ \A p \in gone : ~IsDir(p)
  BY <1>7, Zenon DEF Without
<1>16. CASE found = {}
  <2>1. Shrinks(inode, inode', i, 0) /\ gone' = gone /\ strayed'
    BY <1>4, <1>12, <1>16, Zenon
  <2>2. Located(inode', loc, archive, m) /\ Len(inode') = Len(inode)
    BY <1>13, <2>1
  <2>3. ASSUME NEW g \in 1..m, ~IsDir(archive[g].path), archive[g].path \notin gone
        PROVE  \E j \in 1..Len(inode) : \E k \in DOMAIN inode'[j].files :
                Append(loc[j], inode'[j].files[k].name) = archive[g].path
    <3>1. PICK j \in 1..Len(inode) : \E k \in DOMAIN inode[j].files :
                Append(loc[j], inode[j].files[k].name) = archive[g].path
      BY <1>14, <2>3, Zenon
    <3>2. PICK k \in DOMAIN inode[j].files :
                Append(loc[j], inode[j].files[k].name) = archive[g].path
      BY <3>1
    <3>3. ~(j = i /\ k = 0)
      <4>1. inode[j].files \in Seq(EntriesUpTo(Len(inode)))
        BY <1>1, EntryIs
      <4> QED BY <3>2, <4>1
    <3>4. \E l \in DOMAIN inode'[j].files : inode'[j].files[l] = inode[j].files[k]
      BY <2>1, <3>3, Zenon DEF Shrinks
    <3> QED BY <3>2, <3>4
  <2>4. Complete(inode', loc, archive, m, gone)
    BY <1>14, <2>2, <2>3, Zenon DEF Complete
  <2>5. ASSUME NEW j \in 1..Len(inode), NEW k \in DOMAIN inode'[j].files
        PROVE  Append(loc[j], inode'[j].files[k].name) \notin gone
    <3>1. PICK g \in DOMAIN inode[j].files : inode'[j].files[k] = inode[j].files[g]
      BY <2>1, Zenon DEF Shrinks
    <3> QED BY <1>15, <3>1
  <2>6. Without(inode', loc, gone)
    BY <1>15, <2>2, <2>5, Zenon DEF Without
  <2>7. ~(at <= Len(archive))
    BY <1>1, <1>3 DEF m
  <2>8. Tree(loc)'
    BY <1>2, <1>3, <2>1, <2>2, <2>4, <2>6, <2>7, Zenon DEF Tree
  <2> QED BY <1>2, <1>5, <2>8 DEF Mirrors
<1>17. CASE found # {}
  <2>1. gone' = gone \cup {path} /\ (~strayed' => ~strayed)
    BY <1>4, <1>17, Zenon
  <2>2. PICK c \in DOMAIN inode[i].files :
               inode[i].files[c].name = name /\ Shrinks(inode, inode', i, c)
    BY <1>12, <1>17
  <2>3. Located(inode', loc, archive, m) /\ Len(inode') = Len(inode)
    BY <1>13, <2>2
  <2>4. ~IsDir(path)
    <3>1. inode[i].files[c].name # ""
      <4>1. Located(inode, loc, archive, Len(archive))
        BY <1>7 DEF m
      <4> QED BY <1>5, <1>9, <4>1, NamesNotEmpty, Zenon
    <3> QED BY <2>2, <3>1, Zenon DEF NameOf, name
  <2>5. /\ name \in S /\ path = Append(loc[i], name)
    <3>1. path \in Seq(S)
      BY <1>8
    <3> QED BY <1>9, <2>4, <3>1, PathSplits DEF name
  <2>6. ASSUME NEW g \in 1..m, ~IsDir(archive[g].path), archive[g].path \notin gone'
        PROVE  \E j \in 1..Len(inode) : \E k \in DOMAIN inode'[j].files :
                Append(loc[j], inode'[j].files[k].name) = archive[g].path
    <3>0. archive[g].path \notin gone /\ archive[g].path # path
      BY <2>1, <2>6
    <3>1. PICK j \in 1..Len(inode) : \E k \in DOMAIN inode[j].files :
                Append(loc[j], inode[j].files[k].name) = archive[g].path
      BY <1>14, <2>6, <3>0, Zenon
    <3>2. PICK k \in DOMAIN inode[j].files :
                Append(loc[j], inode[j].files[k].name) = archive[g].path
      BY <3>1
    <3>3. ~(j = i /\ k = c)
      BY <2>2, <2>5, <3>0, <3>2
    <3>4. \E l \in DOMAIN inode'[j].files : inode'[j].files[l] = inode[j].files[k]
      BY <2>2, <3>3, Zenon DEF Shrinks
    <3> QED BY <3>2, <3>4
  <2>7. Complete(inode', loc, archive, m, gone')
    BY <1>14, <2>3, <2>6, Zenon DEF Complete
  <2>8. ASSUME NEW j \in 1..Len(inode), NEW k \in DOMAIN inode'[j].files
        PROVE  Append(loc[j], inode'[j].files[k].name) \notin gone'
    <3>1. PICK g \in DOMAIN inode[j].files :
                 inode'[j].files[k] = inode[j].files[g] /\ (j = i => g # c)
      BY <2>2, Zenon DEF Shrinks
    <3> DEFINE nm == inode[j].files[g].name
    <3>2. Append(loc[j], nm) \notin gone
      BY <1>15
    <3>3. ASSUME Append(loc[j], nm) = path PROVE FALSE
      <4>1. nm \in S
        BY <1>1, <1>8, EntryIs
      <4>2. nm = inode[j].files[g].name
        OBVIOUS
      <4> DEFINE s1 == loc[j]
                 s2 == loc[i]
      <4>3. s1 \in Seq(S) /\ s2 \in Seq(S) /\ Append(s1, nm) = Append(s2, name)
        BY <1>9, <1>11, <2>5, <3>3
      <4> HIDE DEF s1, s2, nm
      <4>4. s1 = s2 /\ nm = name
        BY <2>5, <4>1, <4>3, AppendTells
      <4>5. j = i
        BY <1>9, <1>10, <4>4 DEF s1, s2
      <4>6. g # c /\ g \in DOMAIN inode[i].files /\ inode[i].files[g].name = name
        BY <3>1, <4>2, <4>4, <4>5
      <4> QED BY <1>9, <1>10, <2>2, <4>6 DEF Links
    <3> QED BY <2>1, <3>1, <3>2, <3>3
  <2>9. \A p \in gone' : ~IsDir(p)
    BY <1>15, <2>1, <2>4
  <2>10. Without(inode', loc, gone')
    BY <2>3, <2>8, <2>9, Zenon DEF Without
  <2>11. ~strayed' => Counted(inode')
    BY <1>7, <1>12, <1>17, <2>1, Zenon
  <2>12. ~(at <= Len(archive))
    BY <1>1, <1>3 DEF m
  <2>13. Tree(loc)'
    BY <1>2, <1>3, <2>3, <2>7, <2>10, <2>11, <2>12, Zenon DEF Tree
  <2> QED BY <1>2, <1>5, <2>13 DEF Mirrors
<1> QED
  BY <1>16, <1>17

(* No other call touches the tree.                                         *)
LEMMA MirrorsKept ==
  ASSUME Mirrors, UNCHANGED <<archive, at, inode, gone, strayed>>
  PROVE  Mirrors'
BY DEF Mirrors, Tree

LEMMA StepMirrors == IInv /\ Mirrors /\ [Next]_vars => Mirrors'
<1> SUFFICES ASSUME IInv, Mirrors, [Next]_vars PROVE Mirrors'
  OBVIOUS
<1>1. CASE load_tarfs
  BY <1>1, LoadMirrors
<1>2. ASSUME NEW p \in Procs, NEW path \in Paths,
             \/ sys_open(p, path) \/ OpenFails(p, path) \/ OpendirFails(p, path)
             \/ \E g \in 0..N : sys_opendir(p, path, g)
      PROVE  Mirrors'
  BY <1>2, MirrorsKept DEF sys_open, OpenFails, OpendirFails, sys_opendir, Goes,
     Call, boot, history
<1>3. ASSUME NEW p \in Procs, NEW n \in Requests, sys_read(p, n)
      PROVE  Mirrors'
  BY <1>3, MirrorsKept DEF sys_read, Goes, Call, boot, history
<1>4. ASSUME NEW p \in Procs,
             sys_close(p) \/ sys_readdir(p) \/ sys_closedir(p) \/ sys_exit(p)
      PROVE  Mirrors'
  BY <1>4, MirrorsKept DEF sys_close, sys_readdir, sys_closedir, sys_exit, Goes,
     Call, boot, history
<1>5. ASSUME NEW path \in Paths, sys_unlink(path)
      PROVE  Mirrors'
  BY <1>5, UnlinkMirrors
<1>6. ASSUME NEW path \in Paths, UnlinkFails(path)
      PROVE  Mirrors'
  BY <1>6, MirrorsKept DEF UnlinkFails, Goes, Call, boot, history
<1>7. CASE UNCHANGED vars
  BY <1>7, MirrorsKept DEF vars
<1>8. CASE Finished
  BY <1>7, <1>8 DEF Finished
<1> QED
  BY <1>1, <1>2, <1>3, <1>4, <1>5, <1>6, <1>7, <1>8 DEF Next

(* Lookup is exact, for any archive made from a directory and any calls:   *)
(* once load_tarfs is done find_file finds the files of the archive and    *)
(* their directories, whatever the order of the headers, it finds nothing  *)
(* that is not there or was unlinked, and a file is hidden that nobody     *)
(* removed only when a name was unlinked that is not there.                *)
THEOREM LookupIsExact == Spec => []LookupExact
<1> QED
  BY Inductive, InitMirrors, StepMirrors, LookupIs, PTL DEF Spec
=============================================================================
