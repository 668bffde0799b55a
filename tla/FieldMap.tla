------------------------------ MODULE FieldMap ------------------------------
(***************************************************************************)
(* What the global memory manager (src/gmm) promises: fields by name, the  *)
(* ones created for it kept in a restart file, and found there again by a  *)
(* program that creates them after it has read the file.                   *)
(***************************************************************************)
EXTENDS Naturals, Sequences, FiniteSets

CONSTANTS GNames, GKind, GVals, GKept, GCycles, GRenames, GZERO, NOFIELD

VARIABLES fields,     \* what each name stands for: [kind, val, kept, created]
          restart     \* the restart file: a field or NOFIELD for each name

mapvars == <<fields, restart>>

None == [n \in GNames |-> NOFIELD]
Has(n) == fields[n] # NOFIELD

FieldInit == fields = None /\ restart = None

\* A program creates a field once; one that came from the restart file keeps its value.
Create(n) ==
    /\ fields' = [fields EXCEPT ![n] =
         IF @ = NOFIELD THEN [kind |-> GKind[n], val |-> GZERO, kept |-> n \in GKept, created |-> TRUE]
         ELSE [@ EXCEPT !.created = TRUE, !.kept = @ \/ (~fields[n].created /\ n \in GKept)]]
    /\ UNCHANGED restart

Write(n, v) == Has(n) /\ fields' = [fields EXCEPT ![n].val = v] /\ UNCHANGED restart

Delete(n) == Has(n) /\ fields' = [fields EXCEPT ![n] = NOFIELD] /\ UNCHANGED restart

\* Every field of a list takes the next name, the last one the first.
Shuffle(c) ==
    LET from(i) == IF i = 1 THEN c[Len(c)] ELSE c[i - 1] IN
    /\ fields' = [n \in GNames |-> IF \E i \in DOMAIN c : c[i] = n
                                   THEN fields[from(CHOOSE i \in DOMAIN c : c[i] = n)] ELSE fields[n]]
    /\ UNCHANGED restart

Rename(a, b) ==
    /\ fields' = IF Has(b) \/ ~Has(a) THEN fields
                 ELSE [fields EXCEPT ![a] = NOFIELD, ![b] = fields[a]]
    /\ UNCHANGED restart

\* The restart file replaces the one before; a program that dies while it writes it leaves
\* some of the fields in it.
Save == LET kept == {n \in GNames : Has(n) /\ fields[n].kept} IN
        /\ fields' \in {fields, None}
        /\ \E S \in SUBSET kept :
             /\ fields' # None => S = kept
             /\ restart' = [n \in GNames |-> IF n \in S THEN [fields[n] EXCEPT !.created = FALSE]
                                             ELSE NOFIELD]

Die == fields' = None /\ UNCHANGED restart

Read == fields = None /\ fields' = restart /\ UNCHANGED restart

FieldNext ==
    \/ Die \/ Save \/ Read
    \/ \E n \in GNames : Create(n) \/ Delete(n) \/ \E v \in GVals : Write(n, v)
    \/ \E c \in GCycles : Shuffle(c)
    \/ \E r \in GRenames : Rename(r[1], r[2])

FieldSpec == FieldInit /\ [][FieldNext]_mapvars
=============================================================================
