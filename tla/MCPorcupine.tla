---------------------------- MODULE MCPorcupine -----------------------------
(***************************************************************************)
(* Histories of up to four operations for TLC, over every way in which the *)
(* operations can overlap on a clock of a few ticks, ties included.        *)
(***************************************************************************)
EXTENDS Porcupine

put(v)      == [op |-> "put", value |-> <<v>>, out |-> << >>]
append(v)   == [op |-> "append", value |-> <<v>>, out |-> << >>]
get(out)    == [op |-> "get", value |-> << >>, out |-> out]

\* The operations os on the keys ks, called and returning at the times t.
At(os, ks, t) ==
    [i \in DOMAIN os |-> [key |-> ks[i], op |-> os[i].op, value |-> os[i].value,
                          out |-> os[i].out, call |-> t[i][1], return |-> t[i][2]]]

\* Called one after the other, and returning before any later call: all the ways in
\* which operations can overlap.
Overlapping(os, ks) ==
    {At(os, ks, [i \in DOMAIN os |-> <<10 * i, 10 * r[i] + i>>]) :
        r \in {r \in [DOMAIN os -> DOMAIN os] : \A i \in DOMAIN os : r[i] >= i}}

\* On a clock of two ticks, so that many entries have the same time.
Ties(os, ks) == {At(os, ks, t) : t \in [DOMAIN os -> {<<1, 1>>, <<1, 2>>, <<2, 2>>}]}

Three == <<"x", "x", "x">>
Four  == <<"x", "x", "x", "x">>
Mixed == <<"x", "y", "x", "y">>

Operations == {put(1), append(2), get(<< >>), get(<<1>>), get(<<1, 2>>)}

SmallHistories ==
    UNION {Overlapping(os, Three) : os \in [1 .. 3 -> Operations]}
    \cup UNION {Overlapping(os, Four) : os \in
           {<<put(1), append(2), get(<<1>>), get(<<1, 2>>)>>,
            <<put(1), put(2), get(<<1>>), get(<<2>>)>>,
            <<append(1), append(2), get(<<2, 1>>), get(<<1>>)>>,
            <<append(1), append(1), append(2), get(<<1, 2, 1>>)>>}}
    \cup UNION {Overlapping(os, Mixed) : os \in
           {<<put(1), put(1), get(<<1>>), get(out)>> : out \in {<< >>, <<1>>}}}
    \cup UNION {Ties(os, Three) : os \in {<<put(1), get(<<1>>), get(<< >>)>>,
                                         <<append(1), append(2), get(<<2>>)>>}}
    \cup {<< >>}

\* Calls and returns of two operations, with ids that are not their numbers.
call(o, id) == [kind |-> "call", id |-> id, op |-> o.op, value |-> o.value, out |-> o.out]
return(o, id) == [call(o, id) EXCEPT !.kind = "return"]
SmallEvents ==
    LET a == put(1)
        b(out) == get(out)
    IN  UNION {{<<call(a, 7), call(b(out), 3), return(a, 7), return(b(out), 3)>>,
                <<call(b(out), 3), call(a, 7), return(b(out), 3), return(a, 7)>>,
                <<call(a, 7), return(a, 7), call(b(out), 3), return(b(out), 3)>>,
                <<call(b(out), 3), return(b(out), 3), call(a, 7), return(a, 7)>>} :
               out \in {<< >>, <<1>>, <<2>>}}

FairSpec == Spec /\ Fairness
=============================================================================
