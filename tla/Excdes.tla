------------------------------- MODULE Excdes -------------------------------
(***************************************************************************)
(* The requests that filter the records a search returns                   *)
(* (src/fstd98/excdes_new.c).  A set of requests is wanted or excluded and *)
(* has one criterion for each item it names: ip1, ip2 and ip3 (IpItems),   *)
(* dates, names, types and labels (NameItems), and one for the dimensions  *)
(* and the grid of the record together (suppl).  A criterion is in_use,    *)
(* nelm and data as in the code; data keeps what earlier calls left in it. *)
(***************************************************************************)
EXTENDS Integers, Sequences, FiniteSets

CONSTANTS MAX_requetes, MAX_Nlist,
          IpItems, NameItems,
          SupplItems,      \* of ni, nj, nk, ig1 to ig4 and grtyp, those that vary
          Ask,             \* the lists the program selects each item of each set with
          Level,           \* ConvertIp: kind and value of an ip
          Translatable,    \* FstCanTranslateName: the names whose ips are levels
          Begins,          \* the pairs of a name and one it is the beginning of
          ANY,             \* a name, or a type of grid, that is blank
          Candidates,      \* records: a value for each item, and name
          Unused,          \* in_use of an item that is not, and no list
          BadDates         \* programs may select dates with a list that is refused

Sets == 0 .. MAX_requetes - 1
Criteria == IpItems \cup NameItems \cup {"dates", "suppl"}
RANGE == -2
DELTA == -3

VARIABLES Requests, first_R, last_R, bundle_nb, desire_exclure,
          requested            \* what the program asked of each set (history)

rqvars == <<Requests, first_R, last_R, bundle_nb, desire_exclure, requested>>

-----------------------------------------------------------------------------
\* Selecting

NoCriterion == [in_use |-> Unused, nelm |-> 0, data |-> [i \in 1 .. MAX_Nlist |-> 0]]
EmptySet == [in_use |-> FALSE, exdes |-> "exclure", items |-> [i \in Criteria |-> NoCriterion]]

\* Data with the elements of a list from the i-th on.
Over(data, list, i, n) == [k \in DOMAIN data |-> IF k \in i .. n THEN list[k] ELSE data[k]]

\* Xc_Select_ip1, ip2, ip3: a range is kept as its two ends, -2 for an open one.
IpCriterionOpen(c, list) ==                                           \* mutant
    LET n     == IF list[1] = -1 THEN 1 ELSE Len(list)
        open  == [c.data EXCEPT ![3] = RANGE]
        value == [in_use |-> "value", nelm |-> n,
                  data |-> Over(IF n = 1 THEN c.data ELSE open, list, 1, n)]
    IN IF n = 1 \/ RANGE \notin {list[1], list[2]} THEN value
       ELSE IF n = 5 /\ list[2] = RANGE /\ list[4] = DELTA
         THEN [value EXCEPT !.in_use = "delta", !.data = Over(c.data, <<list[1], list[3], list[5]>>, 1, 3)]
       ELSE [value EXCEPT !.in_use = "range", !.nelm = 2]
IpCriterion(c, list) ==
    LET n     == IF list[1] = -1 THEN 1 ELSE Len(list)
        open  == [c.data EXCEPT ![3] = RANGE]
        value == [in_use |-> "value", nelm |-> n,
                  data |-> Over(IF n = 1 THEN c.data ELSE open, list, 1, n)]
    IN IF n = 1 \/ RANGE \notin {list[1], list[2]} THEN value
       ELSE IF n = 5 /\ list[2] = RANGE /\ list[4] = DELTA
         THEN [value EXCEPT !.in_use = "delta", !.data = Over(c.data, <<list[1], list[3], list[5]>>, 1, 3)]
       ELSE [value EXCEPT !.in_use = "range", !.nelm = 2,
                          !.data[2] = IF list[2] = RANGE THEN value.data[3] ELSE @]

\* Xc_Select_date: one @, in the first or second place, one delta behind it, in the fourth.
DateListOK(list) ==
    LET at(k) == {i \in DOMAIN list : list[i] = k} IN
    list[1] # -1 =>
        /\ at(RANGE) \in {{}, {1}, {2}}
        /\ at(DELTA) # {} => at(DELTA) = {4} /\ at(RANGE) # {} /\ Len(list) > 4
DateCriterion(c, list) ==
    LET n    == IF list[1] = -1 THEN 1 ELSE Len(list)
        data == Over(c.data, list, 1, n)
    IN IF n = 1 \/ RANGE \notin {list[1], list[2]}
         THEN [in_use |-> "value", nelm |-> n, data |-> data]
       ELSE IF n > 4 /\ list[4] = DELTA
         THEN [in_use |-> "delta", nelm |-> 3,
               data |-> [data EXCEPT ![2] = IF list[2] = RANGE THEN list[3] ELSE @, ![3] = list[5]]]
       ELSE [in_use |-> "range", nelm |-> 2,
             data |-> [data EXCEPT ![2] = IF list[2] = RANGE /\ n > 2 THEN list[3] ELSE @]]

\* Xc_Select_etiquette, nomvar, typvar; and Xc_Select_suppl, whose values are a list of one.
NameCriterion(c, list) ==
    [in_use |-> "value", nelm |-> Len(list), data |-> Over(c.data, list, 1, Len(list))]

\* ValidateRequestForSet.
Validated(s, exdes, list) ==
    /\ s < MAX_requetes /\ Len(list) \in 1 .. MAX_Nlist
    /\ Requests[s].in_use => Requests[s].exdes = exdes

\* The selectors.  One that is refused, of whatever item, ends the use of the set's dates;
\* of a set beyond the table it writes beyond the table.
Select(s, exdes, item, list) ==
    LET used == [Requests[s] EXCEPT !.in_use = TRUE, !.exdes = exdes] IN
    /\ IF ~Validated(s, exdes, list)
       THEN /\ Requests' = IF s \in Sets THEN [Requests EXCEPT ![s].items["dates"].in_use = Unused]
                           ELSE Requests
            /\ requested' = IF s \in Sets THEN [requested EXCEPT ![s].lists["dates"] = <<>>] ELSE requested
       ELSE IF item = "dates" /\ ~DateListOK(list)
       THEN /\ BadDates
            /\ Requests' = [Requests EXCEPT ![s] = [used EXCEPT !.items["dates"].in_use = Unused]]
            /\ UNCHANGED requested
       ELSE /\ Requests' = [Requests EXCEPT ![s] = [used EXCEPT !.items[item] =
                  IF item \in IpItems THEN IpCriterion(@, list)
                  ELSE IF item = "dates" THEN DateCriterion(@, list) ELSE NameCriterion(@, list)]]
            /\ requested' = [requested EXCEPT ![s] = [sort |-> exdes, lists |-> [@.lists EXCEPT ![item] = list]]]
    /\ UNCHANGED <<first_R, last_R, bundle_nb, desire_exclure>>

\* C_filtre_desire, C_filtre_exclure: C_select_ip1 ... work on the set they begin.
Filtre(exdes) ==
    /\ bundle_nb < MAX_requetes
    /\ bundle_nb' = bundle_nb + 1 /\ desire_exclure' = exdes
    /\ UNCHANGED <<Requests, first_R, last_R, requested>>

\* C_select_groupset.
SelectGroupset(first, last) ==
    /\ last < MAX_requetes /\ first <= last
    /\ first_R' = first /\ last_R' = last
    /\ UNCHANGED <<Requests, bundle_nb, desire_exclure, requested>>

\* C_requetes_reset, for the items that are not to be kept; suppl never is.
RequetesReset(s, kept) ==
    /\ Requests' = [Requests EXCEPT ![s] =
         [EmptySet EXCEPT !.items = [i \in Criteria |-> IF i \in kept THEN Requests[s].items[i] ELSE NoCriterion]]]
    /\ requested' = [requested EXCEPT ![s] =
         [sort |-> Unused, lists |-> [i \in Criteria |-> IF i \in kept THEN @.lists[i] ELSE <<>>]]]
    /\ UNCHANGED <<first_R, last_R, bundle_nb, desire_exclure>>

-----------------------------------------------------------------------------
\* Matching

\* match_ip, with the test for -1 before it.  Two ips are of one level by the ratio of
\* their values, which 0 has none of.
MatchIp(c, v, translatable) ==
    LET lo == IF c.data[1] >= 0 THEN Level[c.data[1]] ELSE Level[v]
        hi == IF c.data[2] >= 0 THEN Level[c.data[2]] ELSE Level[v]
        x  == Level[v]
        from == IF lo.p <= hi.p THEN lo.p ELSE hi.p
        to   == IF lo.p <= hi.p THEN hi.p ELSE lo.p
        sameLevel(a) == a.kind = x.kind /\ a.p = x.p /\ x.p # 0
    IN \/ c.data[1] = -1
       \/ /\ c.in_use = "value"
          /\ \E i \in 1 .. c.nelm : \/ c.data[i] \in {v, -1}
                                    \/ translatable /\ c.data[i] >= 0 /\ sameLevel(Level[c.data[i]])
       \/ /\ c.in_use # "value" /\ translatable
          /\ {lo.kind, hi.kind} = {x.kind} /\ x.p \in from .. to
          /\ c.in_use = "delta" => c.data[3] > 0 /\ (x.p - from) % c.data[3] = 0

\* The dates of C_fstmatch_parm.
MatchDate(c, v) ==
    LET from == IF c.data[1] <= 0 THEN v ELSE c.data[1]
        to   == IF c.data[2] <= 0 THEN v ELSE c.data[2]
    IN IF c.in_use = "value" THEN c.data[1] = -1 \/ \E i \in 1 .. c.nelm : c.data[i] = v
       ELSE /\ v \in from .. to
            /\ c.in_use = "delta" => c.data[3] > 0 /\ (v - from) % c.data[3] = 0

MatchName(c, v) == c.data[1] = ANY \/ \E i \in 1 .. c.nelm : <<c.data[i], v>> \in Begins

\* The supplementary criteria: what is asked of ig4 is compared with ig2.
NoSelection(i) == IF i = "grtyp" THEN ANY ELSE -1
MatchSuppl(w, r) ==
    \A i \in SupplItems : w[i] \in {NoSelection(i), IF i = "ig4" THEN r.ig2 ELSE r[i]}

MatchItem(c, r, item) ==
    \/ c.in_use = Unused
    \/ IF item = "suppl" THEN MatchSuppl(c.data[1], r)
       ELSE IF item \in IpItems THEN MatchIp(c, r[item], r.name \in Translatable)
       ELSE IF item = "dates" THEN MatchDate(c, r[item]) ELSE MatchName(c, r[item])

\* C_fstmatch_parm: the first set a record matches decides.
Satisfied(r) == {s \in first_R .. last_R : Requests[s].in_use /\
                    \A i \in Criteria : MatchItem(Requests[s].items[i], r, i)}
FstmatchParm(r) ==
    LET last == CHOOSE s \in first_R .. last_R :
                   /\ Requests[s].in_use \/ s = first_R
                   /\ \A t \in s + 1 .. last_R : ~Requests[t].in_use
        desired(s) == Requests[s].in_use /\ Requests[s].exdes = "desire"
    IN IF Satisfied(r) # {}
       THEN desired(CHOOSE s \in Satisfied(r) : \A t \in Satisfied(r) : s <= t)
       ELSE ~desired(last) /\ \A s \in first_R .. last_R : ~desired(s)

-----------------------------------------------------------------------------
ReqInit ==
    /\ Requests = [s \in Sets |-> EmptySet]
    /\ first_R = 0 /\ last_R = MAX_requetes - 1
    /\ bundle_nb = -1 /\ desire_exclure = "desire"
    /\ requested = [s \in Sets |-> [sort |-> Unused, lists |-> [i \in Criteria |-> <<>>]]]

ReqNext ==
    \/ \E s \in Sets, item \in Criteria : \E list \in Ask[s][item] :
          \/ \E exdes \in {"desire", "exclure"} : Select(s, exdes, item, list)
          \/ s = bundle_nb /\ Select(s, desire_exclure, item, list)
    \/ \E exdes \in {"desire", "exclure"} : Filtre(exdes)
    \/ \E first, last \in Sets : SelectGroupset(first, last)
    \/ \E s \in Sets : \E kept \in {{}, IpItems, {"dates"}} : RequetesReset(s, kept)

ReqSpec == ReqInit /\ [][ReqNext]_rqvars

-----------------------------------------------------------------------------
\* What the headers of Xc_Select_ip1 and Xc_Select_date say of a list: -1 is any value,
\* -2 v2 at most v2, v1 -2 at least v1, v1 -2 v2 between both, v1 -2 v2 -3 v3 every v3.
\* What the header of Xc_Select_suppl says of its values: -1, or a blank type, selects nothing.
Within(list, v) ==
    /\ list[1] # RANGE => v >= list[1]
    /\ list[1] = RANGE => v <= list[2]
    /\ list[1] # RANGE /\ Len(list) > 2 => v <= list[3]
    /\ Len(list) > 4 => (v - list[1]) % list[5] = 0
Means(item, list, r) ==
    LET isRange == Len(list) > 1 /\ RANGE \in {list[1], list[2]}
        p(v)    == IF v < 0 THEN v ELSE Level[v].p
        levels  == [i \in DOMAIN list |-> IF i = 5 THEN list[i] ELSE p(list[i])]
        ends    == {list[i] : i \in DOMAIN list \cap {1, 2, 3}} \ {RANGE}
    IN IF list = <<>> THEN TRUE
       ELSE IF item = "suppl" THEN \A i \in SupplItems : list[1][i] \in {NoSelection(i), r[i]}
       ELSE IF item \in NameItems
         THEN list[1] = ANY \/ \E i \in DOMAIN list : <<list[i], r[item]>> \in Begins
       ELSE IF list[1] = -1 THEN TRUE
       ELSE IF item = "dates"
         THEN IF isRange THEN Within(list, r.dates) ELSE \E i \in DOMAIN list : list[i] = r.dates
       ELSE IF isRange
         THEN /\ r.name \in Translatable /\ \A v \in ends : Level[v].kind = Level[r[item]].kind
              /\ Within(levels, Level[r[item]].p)
       ELSE \E i \in DOMAIN list : \/ list[i] = r[item]
                                   \/ r.name \in Translatable /\ Level[list[i]] = Level[r[item]]

\* The filter accepts what the program asked for: the first set of the group of which a
\* record has everything decides, and a record of no set is accepted when none is wanted.
\* Each list means what it is documented to, whatever lists the set was given before and
\* however its items were reset and kept; a call refused costs its set the dates, no more.
FilterMeansRequests ==
    LET has(s, r) == requested[s].sort # Unused /\ \A i \in Criteria : Means(i, requested[s].lists[i], r)
        group == first_R .. last_R
    IN \A r \in Candidates :
         FstmatchParm(r) <=>
            \/ \E s \in group : /\ has(s, r) /\ requested[s].sort = "desire"
                                /\ \A t \in first_R .. s - 1 : ~has(t, r)
            \/ \A s \in group : requested[s].sort # "desire" /\ ~has(s, r)
=============================================================================
