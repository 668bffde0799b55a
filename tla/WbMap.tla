------------------------------- MODULE WbMap -------------------------------
(***************************************************************************)
(* What the whiteboard (src/whiteboard/WhiteBoard_c.c) promises: a map     *)
(* from names to values with flags, a checkpoint of it, and what becomes   *)
(* of each key when a program that died starts again from the checkpoint.  *)
(***************************************************************************)
EXTENDS FiniteSets, SequencesExt

CONSTANTS WbNames,
          WbPuts,           \* the calls of c_wb_put: [key, val, opts, wrong, create]
          WbPrefixes,       \* the keys c_wb_lock means, by their names' beginnings
          WbFiles,          \* directive files: sequences of [op, key, val, opts]
          NOENTRY, NOCKPT

VARIABLES board,    \* what each name stands for
          saved,    \* the checkpoint file, NOCKPT before there is one
          loaded    \* the program has a whiteboard in memory

mapvars == <<board, saved, loaded>>

-----------------------------------------------------------------------------
(* The flags of a key.  An option is a member of {"none", "until",         *)
(* "restart", "local"}: WB_REWRITE_NONE, WB_REWRITE_UNTIL,                 *)
(* WB_READ_ONLY_ON_RESTART, WB_IS_LOCAL.                                   *)

NewEntry(v, opts, create) ==
    [val |-> v, ro |-> "none" \in opts, until |-> "until" \in opts,
     onrestart |-> "restart" \in opts, local |-> "local" \in opts,
     init |-> ~create, bad |-> FALSE]

Stored(e, v)   == [e EXCEPT !.val = v, !.init = TRUE, !.bad = FALSE]
Refuses(e)     == e.ro /\ e.init

\* c_wb_put on a key that exists.
Overwritten(e, v, wrong, create) ==
    IF create \/ Refuses(e) THEN e
    ELSE IF wrong THEN [e EXCEPT !.bad = TRUE] ELSE Stored(e, v)

\* The callbacks of c_wb_check.
LockedEntry(e)    == [e EXCEPT !.ro = TRUE]
UndefinedEntry(e) == [e EXCEPT !.init = FALSE, !.bad = FALSE]

-----------------------------------------------------------------------------
Nothing == [k \in WbNames |-> NOENTRY]

MapInit == board = Nothing /\ saved = NOCKPT /\ loaded = FALSE

Keys(S) == {k \in S : board[k] # NOENTRY}

Put(k, v, opts, wrong, create) ==
    /\ loaded
    /\ board' = [board EXCEPT ![k] = IF @ = NOENTRY THEN NewEntry(v, opts, create)
                                     ELSE Overwritten(@, v, wrong, create)]
    /\ UNCHANGED <<saved, loaded>>

\* Locks the keys of a prefix; some of them, when one of them has no value.
Lock(S) ==
    LET hit == {k \in Keys(S) : board[k].until}
    IN \E L \in SUBSET {k \in hit : board[k].init} :
         /\ (\A k \in hit : board[k].init) => L = hit
         /\ board' = [k \in WbNames |-> IF k \in L THEN LockedEntry(board[k]) ELSE board[k]]
         /\ UNCHANGED <<saved, loaded>>

Save == loaded /\ saved' = board /\ UNCHANGED <<board, loaded>>

Die == board' = Nothing /\ loaded' = FALSE /\ UNCHANGED saved

\* The program starts: every key of the checkpoint is there, local ones without value,
\* the ones that are to be read-only after a restart locked (some of them, when one has
\* no value).
Start ==
    /\ ~loaded /\ loaded' = TRUE /\ UNCHANGED saved
    /\ IF saved = NOCKPT THEN board' = Nothing
       ELSE LET hit == {k \in WbNames : saved[k] # NOENTRY /\ saved[k].onrestart}
            IN \E L \in SUBSET {k \in hit : saved[k].init} :
                 /\ (\A k \in hit : saved[k].init) => L = hit
                 /\ board' = [k \in WbNames |->
                      IF saved[k] = NOENTRY THEN NOENTRY
                      ELSE LET e == IF k \in L THEN LockedEntry(saved[k]) ELSE saved[k]
                           IN IF e.local THEN UndefinedEntry(e) ELSE e]

\* A directive file defines keys and assigns them in its order; one that fails leaves
\* the ones before it in place.
Define(b, k, v, opts) == IF b[k] = NOENTRY THEN [b EXCEPT ![k] = NewEntry(v, opts, TRUE)] ELSE b
Read ==
    /\ loaded /\ UNCHANGED <<saved, loaded>>
    /\ \E f \in WbFiles :
         LET Line(b, d) ==
               CASE d.op = "define" -> {b, Define(b, d.key, d.val, d.opts)}
                 [] d.op = "assign" -> IF b[d.key] = NOENTRY THEN {b}
                                       ELSE {b, [b EXCEPT ![d.key] = Stored(@, d.val)]}
                 [] d.op = "toomany" -> IF b[d.key] = NOENTRY THEN {b}
                                        ELSE {b, [b EXCEPT ![d.key].val = d.val]}
         IN board' \in FoldLeft(LAMBDA B, d : UNION {Line(b, d) : b \in B}, {board}, f)

MapNext ==
    \/ \E c \in WbPuts : Put(c.key, c.val, c.opts, c.wrong, c.create)
    \/ \E S \in WbPrefixes : Lock(S)
    \/ Save \/ Die \/ Start \/ Read

MapSpec == MapInit /\ [][MapNext]_mapvars
=============================================================================
