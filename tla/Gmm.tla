-------------------------------- MODULE Gmm --------------------------------
(***************************************************************************)
(* The global memory manager (src/gmm): a directory of entries, one table  *)
(* of pointers for each kind of array, and a restart file.  An entry is    *)
(* never used again: a deleted one keeps its place under another name.     *)
(* The place of an entry in its page, of 128, and its page are one number  *)
(* here; arrays that the program brings itself, and a second kind asked    *)
(* for under the same name, are left out.                                  *)
(***************************************************************************)
EXTENDS Naturals, Sequences, FiniteSets, SequencesExt

CONSTANTS GNames,        \* names of fields
          GKind,         \* the kind of array each name is created with
          GKinds,        \* the kinds in the order gmm_checkpoint_all writes them
          GVals,         \* what the program stores
          GKept,         \* the names created with GMM_FLAG_RSTR
          GCycles,       \* the lists gmm_shuffle is called with
          GRenames,      \* the pairs of names gmm_rename is called with
          GZERO,         \* what a new array holds (GMM_FLAG_IZER)
          GTEMP, GDELETED, NULLARRAY, NOFIELD,
          GMaxEntries,   \* MAX_PAGES * PAGE_SIZE
          GWholeCycles   \* gmm_shuffle is called for fields that all exist

VARIABLES directory, gmm_ptrs, restart_mode, gmm_restart

gmmvars == <<directory, gmm_ptrs, restart_mode, gmm_restart>>

-----------------------------------------------------------------------------
\* find_directory_entry: the first entry of that name, 0 for none.
Entry(dir, n) == IF \E i \in DOMAIN dir : dir[i].name = n
                 THEN CHOOSE i \in DOMAIN dir : dir[i].name = n /\ \A j \in 1 .. i - 1 : dir[j].name # n
                 ELSE 0

\* gmm_get gives the array of a name.
Fields == [n \in GNames |->
             LET i == Entry(directory, n)
                 e == directory[i] IN
             IF i = 0 THEN NOFIELD
             ELSE [kind |-> e.kind, val |-> gmm_ptrs[e.kind][e.index], kept |-> e.kept, created |-> e.created]]
Restart == [n \in GNames |->
             LET R == {i \in DOMAIN gmm_restart : gmm_restart[i].name = n} IN
             IF R = {} THEN NOFIELD
             ELSE LET r == gmm_restart[CHOOSE i \in R : \A j \in R : i <= j]
                  IN [kind |-> r.kind, val |-> r.val, kept |-> r.kept, created |-> FALSE]]

A == INSTANCE FieldMap WITH fields <- Fields, restart <- Restart

-----------------------------------------------------------------------------
\* add_directory_entry, with gmm_get_nxt_avail_ptr and gmm_add_table_entry: one more entry
\* and one more array of its kind.  A directory that is full ends the program.
Added(m, n, k, v, kept, created) ==
    [dir  |-> Append(m.dir, [name |-> n, kind |-> k, index |-> Len(m.ptrs[k]) + 1,
                             kept |-> kept, created |-> created]),
     ptrs |-> [m.ptrs EXCEPT ![k] = Append(@, v)]]

Store(m) == directory' = m.dir /\ gmm_ptrs' = m.ptrs
Memory == [dir |-> directory, ptrs |-> gmm_ptrs]

GmmInit ==
    /\ directory = <<>> /\ gmm_ptrs = [k \in Range(GKinds) |-> <<>>]
    /\ restart_mode = FALSE /\ gmm_restart = <<>>

\* gmm_create with a null pointer.  A field that was created is refused; one that the
\* restart file brought is taken as it is.
GmmCreate(n) ==
    /\ LET i == Entry(directory, n) IN
       \/ /\ i # 0 /\ ~directory[i].created
          /\ directory' = [directory EXCEPT ![i].created = TRUE, ![i].kept = @ \/ n \in GKept]
          /\ UNCHANGED gmm_ptrs
       \/ /\ i = 0 /\ Len(directory) < GMaxEntries
          /\ Store(Added(Memory, n, GKind[n], GZERO, n \in GKept, TRUE))
    /\ UNCHANGED <<restart_mode, gmm_restart>>

\* The program stores into the array gmm_get gave it.
GmmWrite(n, v) ==
    /\ Entry(directory, n) # 0
    /\ LET e == directory[Entry(directory, n)] IN gmm_ptrs' = [gmm_ptrs EXCEPT ![e.kind][e.index] = v]
    /\ UNCHANGED <<directory, restart_mode, gmm_restart>>

\* gmm_delete and gmm_dealloc_ptr: null attributes take the entry out of the restart file.
GmmDelete(n) ==
    /\ Entry(directory, n) # 0
    /\ LET i == Entry(directory, n) IN
         /\ directory' = [directory EXCEPT ![i].name = GDELETED, ![i].kept = FALSE, ![i].created = FALSE]
         /\ gmm_ptrs' = [gmm_ptrs EXCEPT ![directory[i].kind][directory[i].index] = NULLARRAY]
    /\ UNCHANGED <<restart_mode, gmm_restart>>

\* gmm_rename.
RenamedOver(dir, a, b) ==                                             \* mutant
    IF Entry(dir, a) = 0 THEN dir ELSE [dir EXCEPT ![Entry(dir, a)].name = b]
Renamed(dir, a, b) ==
    IF Entry(dir, b) # 0 \/ Entry(dir, a) = 0 THEN dir ELSE [dir EXCEPT ![Entry(dir, a)].name = b]
GmmRename(a, b) ==
    /\ directory' = Renamed(directory, a, b)
    /\ UNCHANGED <<gmm_ptrs, restart_mode, gmm_restart>>

\* gmm_shuffle of a list of other than two names: the keys are moved up by one, and each
\* renaming then asks for the key of the name before the one it renames.
Known(c) == [i \in DOMAIN c |-> Entry(directory, c[i]) # 0]
Shifted(known) == [i \in DOMAIN known |-> known[IF i = 1 THEN Len(known) ELSE i - 1]]
ShuffledMany(c) ==
    LET n == Len(c)
        k == Shifted(Known(c))
        step[i \in 1 .. n] ==          \* after the renamings of names n .. i
          IF i = n THEN (IF k[n] THEN Renamed(directory, c[n], GTEMP) ELSE directory)
          ELSE IF k[i] THEN Renamed(step[i + 1], c[i], c[i + 1]) ELSE step[i + 1]
    IN Renamed(step[1], GTEMP, c[1])
\* A list of two names.
ShuffledTwo(c) ==
    IF ~Known(c)[1] THEN Renamed(directory, c[2], c[1])
    ELSE IF ~Known(c)[2] THEN Renamed(directory, c[1], c[2])
    ELSE Renamed(Renamed(Renamed(directory, c[1], GTEMP), c[2], c[1]), GTEMP, c[2])
GmmShuffle(c) ==
    /\ \E i \in DOMAIN c : Known(c)[i]
    /\ GWholeCycles => \A i \in DOMAIN c : Len(c) = 2 \/ Known(c)[i]
    /\ directory' = IF Len(c) = 2 THEN ShuffledTwo(c) ELSE ShuffledMany(c)
    /\ UNCHANGED <<gmm_ptrs, restart_mode, gmm_restart>>

-----------------------------------------------------------------------------
\* gmm_checkpoint_all(GMM_WRIT_CKPT): the fields with GMM_FLAG_RSTR, kind by kind.
Records ==
    LET ofKind(k) == SelectSeq(directory, LAMBDA e : e.kept /\ e.kind = k)
        written(e) == [name |-> e.name, kind |-> e.kind, val |-> gmm_ptrs[e.kind][e.index], kept |-> TRUE]
    IN FlattenSeq([i \in DOMAIN GKinds |->
         LET s == ofKind(GKinds[i]) IN [j \in DOMAIN s |-> written(s[j])]])

GmmGone == directory' = <<>> /\ gmm_ptrs' = [k \in Range(GKinds) |-> <<>>] /\ restart_mode' = FALSE

GmmCheckpoint == gmm_restart' = Records /\ UNCHANGED <<directory, gmm_ptrs, restart_mode>>

\* The program dies when n fields are written.
GmmDieInCheckpoint == \E n \in 0 .. Len(Records) : gmm_restart' = SubSeq(Records, 1, n) /\ GmmGone

GmmDie == directory # <<>> /\ GmmGone /\ UNCHANGED gmm_restart

\* gmm_checkpoint_all(GMM_READ_CKPT), by a program that has created nothing yet.
GmmRead ==
    /\ directory = <<>> /\ ~restart_mode
    /\ Store(FoldLeft(LAMBDA m, r : Added(m, r.name, r.kind, r.val, r.kept, FALSE), Memory, gmm_restart))
    /\ restart_mode' = (gmm_restart # <<>>)
    /\ UNCHANGED gmm_restart

GmmNext ==
    \/ \E n \in GNames : GmmCreate(n) \/ GmmDelete(n) \/ \E v \in GVals : GmmWrite(n, v)
    \/ \E c \in GCycles : GmmShuffle(c)
    \/ \E r \in GRenames : GmmRename(r[1], r[2])
    \/ GmmCheckpoint \/ GmmDieInCheckpoint \/ GmmDie \/ GmmRead

GmmSpec == GmmInit /\ [][GmmNext]_gmmvars

-----------------------------------------------------------------------------
\* The entries and the tables of pointers keep each field's array under its name, through
\* deletion, renaming, cycles of names, and a restart after a death at any moment.
ImplementsFields == A!FieldInit /\ [][UNCHANGED gmmvars \/ A!FieldNext]_(A!mapvars)
=============================================================================
