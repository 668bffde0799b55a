------------------------------ MODULE MCFiles ------------------------------
(* One program at a time uses one part of the file layers: an XDF file in    *)
(* sessions that are closed, the same file with searches, word files, a      *)
(* sequential XDF file.  The parts share no variable but those of the XDF    *)
(* file; the others stay as they began.                                      *)
EXTENDS XdfTools, XdfSearch, WaFile, XdfSeq, TLC

CONSTANT fa

VARIABLE part

posvars == <<pos, target, found, last>>
filesvars == <<part, vars, posvars, wavars, sqvars>>

MCMaxSize == [f \in Names |-> IF f = fa THEN 6 ELSE 4]

FilesInit ==
    /\ part \in {"xdf", "search", "words", "sequential"}
    /\ SearchInit /\ WaInit /\ SeqInit
    /\ cfg_size = 0 => cfg_nb = 1
    /\ part # "words" => cfg_size = 0

\* Bounds: the file that is searched has records of one unit and of the content
\* that is searched for; the last unit of the file is for the fourth of them, and
\* no deletion reaches the disk behind it.  The sessions without searches do
\* without that unit.
SearchedFor == CHOOSE v \in Vals : TRUE
RecordsOnDisk == {dcell[a] : a \in {a \in Addr : "val" \in DOMAIN dcell[a]}} \ {Blank}
XdfBound    == dcell[MaxAddr] = Blank
SearchBound == /\ \A r \in RecordsOnDisk : r.lng = 1 /\ r.val = SearchedFor
               /\ \A p \in Procs : target[p] \in {SearchedFor, NoVal}
               /\ dcell[MaxAddr] # Blank => \A r \in RecordsOnDisk : r.idtyp = LIVE

XdfStep == part = "xdf" /\ Next /\ XdfBound' /\ UNCHANGED <<part, posvars, wavars, sqvars>>
SearchStep == part = "search" /\ SearchNext /\ SearchBound' /\ UNCHANGED <<part, wavars, sqvars>>
WaStep == part = "words" /\ WaNext /\ UNCHANGED <<part, vars, posvars, sqvars>>
SeqStep == part = "sequential" /\ SeqNext /\ UNCHANGED <<part, vars, posvars, wavars>>

FilesNext == XdfStep \/ SearchStep \/ WaStep \/ SeqStep

FilesSpec == FilesInit /\ [][FilesNext]_filesvars

\* Words, contents of the tape and units are only compared with each other.
FilesSymmetry == Permutations(Units) \cup Permutations(Words) \cup Permutations(SVals)
=============================================================================
