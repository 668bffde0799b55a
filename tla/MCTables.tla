----------------------------- MODULE MCTables -----------------------------
(* One program at a time uses one part of the services that keep tables in   *)
(* core: linked XDF files, the whiteboard, the memory manager, a channel of  *)
(* the MGI library.  The parts share no variable; the others stay as they    *)
(* began.                                                                    *)
EXTENDS XdfLink, WhiteBoard, Gmm, Mgi, TLC

CONSTANTS f1, f2, f3, ka, kb, kc, va, vb, na, nb, nc, i4, r4, wa, wb

VARIABLE part

tablesvars == <<part, lvars, wbvars, gmmvars, mgivars>>

MCLMaxPages == [f \in LFiles |-> IF f = f2 THEN 2 ELSE 1]
MCLists == {<<f1, f2, f3>>, <<f1, f3>>}

\* ka is a value of one line, kb one that is read-only until it is restarted or is not, kc
\* an array of three lines.
MCWbLines == [k \in WbNames |-> IF k = kc THEN 3 ELSE 1]
MCWbOpts == [k \in WbNames |-> CASE k = ka -> {"none"}
                                 [] k = kb -> {"until", "restart"}
                                 [] k = kc -> {"restart", "local"}]
MCWbPuts ==
    {[key |-> p[1], val |-> p[2], wrong |-> p[3], create |-> p[4], opts |-> MCWbOpts[p[1]]] :
        p \in ({ka, kb} \X {va} \X {FALSE} \X {FALSE}) \cup {<<kb, vb, TRUE, FALSE>>}
              \cup ({kc} \X {va} \X {FALSE} \X BOOLEAN)}
MCWbPrefixes == {{ka, kb, kc}}
MCWbFiles ==
    LET directive(op, k, v) == [op |-> op, key |-> k, val |-> v, opts |-> {}]
    IN {<<directive("define", kb, va), directive("assign", kb, va),
          directive("toomany", kc, vb), directive("assign", kb, vb)>>}

MCGKind == [n \in GNames |-> r4]
MCGKinds == <<i4, r4>>
MCGCycles == {<<na, nb>>, <<na, nb, nc>>}
MCGRenames == {<<nc, nb>>}

MCScript == <<<<wa>>, <<wb, wa>>>>

TablesInit ==
    /\ part \in {"linked", "whiteboard", "gmm", "mgi"}
    /\ LinkInit /\ WbInit /\ GmmInit /\ MgiInit

LinkStep == part = "linked" /\ LinkNext /\ UNCHANGED <<part, wbvars, gmmvars, mgivars>>
WbStep   == part = "whiteboard" /\ WbNext /\ UNCHANGED <<part, lvars, gmmvars, mgivars>>
GmmStep  == part = "gmm" /\ GmmNext /\ UNCHANGED <<part, lvars, wbvars, mgivars>>
MgiStep  == part = "mgi" /\ MgiNext /\ UNCHANGED <<part, lvars, wbvars, gmmvars>>

TablesNext == LinkStep \/ WbStep \/ GmmStep \/ MgiStep

MgiIs(step) == part = "mgi" /\ step /\ UNCHANGED <<part, lvars, wbvars, gmmvars>>

TablesSpec ==
    /\ TablesInit /\ [][TablesNext]_tablesvars
    /\ \A c \in Conns : /\ WF_tablesvars(MgiIs(ClientStep(c)))
                        /\ WF_tablesvars(MgiIs(ServerStep(c)))
=============================================================================
