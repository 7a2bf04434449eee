--------------------------- MODULE PrivateMemory ---------------------------
(***************************************************************************)
(* What the processes see of the memory the loader gives them, without     *)
(* frames or page tables.  Fork hands down a copy, and a process stores    *)
(* only to what it alone sees, so that no other process notices.  Until    *)
(* one of them needs a page for itself, two processes may share it; the    *)
(* kernel's own stores need not wait for that and reach all who share.  A  *)
(* page that lies where the programs' data are taken to be is exposed to   *)
(* every store to data, of whichever process.                              *)
(***************************************************************************)
CONSTANTS
  Procs, Pages, Values,
  WriteProtect    \* do the kernel's stores have to wait as well?

VARIABLES
  live,     \* the processes that have been created
  mem,      \* mem[p][v]: what process p reads from page v
  shares,   \* shares[p][v]: the processes that have page v in common with p
  own,      \* own[p][v]: p may store to page v
  exposed   \* exposed[p][v]: others' stores to data reach page v of p

vars == <<live, mem, shares, own, exposed>>

Init ==
  /\ live \in SUBSET Procs
  /\ mem \in [Procs -> [Pages -> Values]]
  /\ shares = [p \in Procs |-> [v \in Pages |-> {p} \cap live]]
  /\ own = [p \in Procs |-> [v \in Pages |-> p \in live]]
  /\ exposed \in [Procs -> [Pages -> BOOLEAN]]

(* The sharing left when p no longer takes part for the pages V.           *)
Without(p, V) ==
  [q \in Procs |-> [v \in Pages |->
     IF v \notin V THEN shares[q][v]
     ELSE IF q = p THEN {p} ELSE shares[q][v] \ {p}]]

(* The memory after a store of x to page v of the processes S.             *)
Stored(S, v, x) ==
  [q \in Procs |-> IF q \in S THEN [mem[q] EXCEPT ![v] = x] ELSE mem[q]]

Store(p, v, x) ==
  /\ p \in live /\ own[p][v]
  /\ mem' = Stored({p}, v, x)
  /\ UNCHANGED <<live, shares, own, exposed>>

KernelStore(p, v, x) ==
  /\ p \in live
  /\ WriteProtect => own[p][v]
  /\ mem' = Stored(shares[p][v], v, x)
  /\ UNCHANGED <<live, shares, own, exposed>>

(* A store to the data of some process that hits page v of p.              *)
StrayStore(p, v, x) ==
  /\ p \in live /\ exposed[p][v]
  /\ mem' = Stored(shares[p][v], v, x)
  /\ UNCHANGED <<live, shares, own, exposed>>

(* A process gets page v for itself, in another place; nobody sees a       *)
(* difference.                                                             *)
Separate(p, v) ==
  /\ p \in live
  /\ shares' = Without(p, {v})
  /\ own' = [own EXCEPT ![p][v] = TRUE]
  /\ \E e \in BOOLEAN : exposed' = [exposed EXCEPT ![p][v] = e]
  /\ UNCHANGED <<live, mem>>

Fork(p, c) ==
  /\ p \in live /\ c \notin live
  /\ live' = live \cup {c}
  /\ mem' = [mem EXCEPT ![c] = mem[p]]
  /\ shares' = [q \in Procs |-> [v \in Pages |->
                  IF q \in shares[p][v] \cup {c} THEN shares[p][v] \cup {c}
                  ELSE shares[q][v]]]
  /\ own' = [own EXCEPT ![p] = [v \in Pages |-> FALSE],
                        ![c] = [v \in Pages |-> FALSE]]
  /\ exposed' = [exposed EXCEPT ![c] = exposed[p]]

(* The process starts over with pages of its own; loading the program is a *)
(* store of the kernel, which may still reach those it shared page v with. *)
Exec(p, v, x) ==
  /\ p \in live
  /\ mem' \in [Procs -> [Pages -> Values]]
  /\ \E S \in {{}, shares[p][v]} :
        \A q \in Procs \ {p} : mem'[q] = Stored(S, v, x)[q]
  /\ shares' = Without(p, Pages)
  /\ own' = [own EXCEPT ![p] = [u \in Pages |-> TRUE]]
  /\ \E e \in [Pages -> BOOLEAN] : exposed' = [exposed EXCEPT ![p] = e]
  /\ UNCHANGED live

Next ==
  \/ \E p \in Procs, v \in Pages, x \in Values :
        \/ Store(p, v, x) \/ KernelStore(p, v, x) \/ StrayStore(p, v, x)
        \/ Exec(p, v, x)
  \/ \E p \in Procs, v \in Pages : Separate(p, v)
  \/ \E p, c \in Procs : Fork(p, c)

Spec == Init /\ [][Next]_vars
=============================================================================
