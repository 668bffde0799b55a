----------------------------- MODULE XdfHandle -----------------------------
(***************************************************************************)
(* Record handles (src/fstd98/qstdir.h and make_seq_handle,                *)
(* address_from_handle, c_xdfput in src/fstd98/xdf98.c).  A handle is a    *)
(* positive 32-bit integer that packs where a record is: page, record and  *)
(* file index in a random file, address and file index in a sequential     *)
(* one.  Addresses of sequential handles have 22 bits: behind the first 32 *)
(* MB they count clusters of 4, 16 and 64 units, and c_xdfput lengthens    *)
(* every record so that the next one begins a cluster.                     *)
(*                                                                         *)
(* Addresses are in 64-bit units from 0, as in the handles.                *)
(***************************************************************************)
EXTENDS Integers

CONSTANTS MB32, MB128, MB512     \* where the larger clusters begin

ASSUME ClusterAssumption ==
    /\ MB32 \in Nat /\ MB128 \in Nat /\ MB512 \in Nat
    /\ MB32 <= MB128 /\ MB128 <= MB512
    /\ MB32 % 4 = 0 /\ MB128 % 16 = 0 /\ MB512 % 64 = 0

-----------------------------------------------------------------------------
\* MAKE_RND_HANDLE and the macros that take it apart.
MakeRndHandle(pageno, recno, index) ==
    (index % 1024) + 1024 * (recno % 512) + 524288 * (pageno % 4096)

IndexFromRnd(h)     == h % 1024
RecordFromHandle(h) == (h \div 1024) % 512
PagenoFromHandle(h) == (h \div 524288) % 4096

-----------------------------------------------------------------------------
\* The cluster of an address and the units in a cluster.
Cluster(a) == IF a >= MB512 THEN 3 ELSE IF a >= MB128 THEN 2 ELSE IF a >= MB32 THEN 1 ELSE 0
Units64(c) == IF c = 3 THEN 64 ELSE IF c = 2 THEN 16 ELSE IF c = 1 THEN 4 ELSE 1

\* make_seq_handle with MAKE_SEQ_HANDLE, for an index of 7 bits.
MakeSeqHandle(a, index) ==
    index + 128 * ((a \div Units64(Cluster(a))) % 4194304) + 536870912 * Cluster(a)

IndexFromSeq(h) == h % 128
ClusterFromHandle(h) == (h \div 536870912) % 4
AddressFromHandle(h) == ((h \div 128) % 4194304) * Units64(ClusterFromHandle(h))

\* Where c_xdfput puts the record behind one that would end before address a.
NextCluster(a) ==
    LET size == Units64(Cluster(a)) IN ((a + size - 1) \div size) * size

Aligned(a) == a % Units64(Cluster(a)) = 0
=============================================================================
