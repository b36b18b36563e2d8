----------------------------- MODULE Porcupine ------------------------------
(***************************************************************************)
(* The linearizability checker of src/porcupine, with the key/value model  *)
(* of src/models, that the tests of src/kvraft judge the cluster with.     *)
(* checkParallel starts one goroutine per partition of the history; each   *)
(* runs checkSingle, a depth-first search with a cache over a linked list  *)
(* of calls and returns, one iteration of its loop being one step.  The    *)
(* coordinator receives the results, or runs into its timeout.             *)
(*                                                                         *)
(* A value is a sequence of the strings appended to it.  A bit set is the  *)
(* set of its positions, and the cache, whose hash only speeds it up, the  *)
(* set of its entries.                                                     *)
(***************************************************************************)
EXTENDS Integers, Sequences, FiniteSets, SequencesExt, FiniteSetsExt

CONSTANTS
    Histories,      \* sequences of [key, op, value, out, call, return]
    EventHistories, \* sequences of [kind, id, op, value, out], all of one key
    Keys,
    Nil

VARIABLES
    history,            \* the operations to be judged
    search,             \* [partitions -> the variables of its checkSingle]
    results,            \* the channel of results
    kill,
    count, ok, timedOut,
    verbose, timeout,   \* the arguments computeInfo and timeout > 0
    pc                  \* of checkParallel

vars == <<history, search, results, kill, count, ok, timedOut, verbose, timeout, pc>>

-----------------------------------------------------------------------------
(* KvModel: the value of one key.                                          *)

InitialState == << >>

Step(state, o) ==
    CASE o.op = "get"    -> [ok |-> o.out = state, state |-> state]
      [] o.op = "put"    -> [ok |-> TRUE, state |-> o.value]
      [] o.op = "append" -> [ok |-> TRUE, state |-> state \o o.value]

\* One partition per key; KvModel has no PartitionEvent.
Partition(h) ==
    [k \in {h[i].key : i \in DOMAIN h} |-> SelectSeq(h, LAMBDA o : o.key = k)]

-----------------------------------------------------------------------------
(* Entries.                                                                *)

\* Mutant: returns come before calls of the same time.
LessReturnsFirst(a, b) ==
    \/ a.time < b.time
    \/ a.time = b.time /\ a.kind = "return" /\ b.kind = "call"

Less(a, b) ==
    \/ a.time < b.time
    \/ a.time = b.time /\ a.kind = "call" /\ b.kind = "return"

\* What sort.Sort, which is not stable, may make of a set of entries.
Sorted(S) ==
    LET sorts[R \in SUBSET S] ==
            IF R = {} THEN {<< >>}
            ELSE LET least == {e \in R : \A f \in R : ~Less(f, e)}
                 IN  UNION {{<<e>> \o s : s \in sorts[R \ {e}]} : e \in least}
    IN  sorts[S]

makeEntries(ops) ==
    Sorted({[kind |-> "call", id |-> i - 1, time |-> ops[i].call, o |-> ops[i]] : i \in DOMAIN ops}
      \cup {[kind |-> "return", id |-> i - 1, time |-> ops[i].return, o |-> ops[i]] : i \in DOMAIN ops})

\* Ids in the order in which they first appear.
renumber(events) ==
    LET first(id) == Min({i \in DOMAIN events : events[i].id = id})
        new(id)   == Cardinality({events[i].id : i \in 1 .. first(id) - 1})
    IN  [i \in DOMAIN events |-> [events[i] EXCEPT !.id = new(events[i].id)]]

\* The operation that an event belongs to.
OpOf(events, id) ==
    LET at(kind) == CHOOSE i \in DOMAIN events : events[i].id = id /\ events[i].kind = kind
        c == at("call")
        r == at("return")
    IN  [key |-> CHOOSE k \in Keys : TRUE, op |-> events[c].op, value |-> events[c].value, out |-> events[r].out,
         call |-> c, return |-> r]

\* The index is the time.
convertEntries(events) ==
    [i \in DOMAIN events |-> [kind |-> events[i].kind, id |-> events[i].id, time |-> i,
                              o |-> OpOf(events, events[i].id)]]

-----------------------------------------------------------------------------
(* The linked list: 0 is headEntry, k > 0 the node of the k-th entry.      *)

makeLinkedEntries(entries) ==
    LET n == Len(entries)
        ids == {entries[k].id : k \in DOMAIN entries}
    IN  [pc |-> "running",
         entries |-> entries,
         match |-> [k \in 1 .. n |->
                       IF entries[k].kind = "return" THEN Nil
                       ELSE CHOOSE m \in 1 .. n : entries[m].kind = "return"
                                                  /\ entries[m].id = entries[k].id],
         next |-> [k \in 0 .. n |-> IF k = n THEN Nil ELSE k + 1],
         prev |-> [k \in 0 .. n |-> IF k = 0 THEN Nil ELSE k - 1],
         entry |-> IF n = 0 THEN Nil ELSE 1,
         linearized |-> {},
         cache |-> {},
         calls |-> << >>,
         state |-> InitialState,
         longest |-> [id \in ids |-> Nil]]

\* f[k] := v, for a k that may be nil.
Put(f, k, v) == IF k = Nil THEN f ELSE [f EXCEPT ![k] = v]

\* Mutant: the links around the return are taken before the call is out.
liftAtOnce(s, e) ==
    LET m == s.match[e]
    IN  [s EXCEPT !.next = Put(Put(@, s.prev[e], s.next[e]), s.prev[m], s.next[m]),
                  !.prev = Put(Put(@, s.next[e], s.prev[e]), s.next[m], s.prev[m])]

lift(s, e) ==
    LET m  == s.match[e]
        n1 == Put(s.next, s.prev[e], s.next[e])
        p1 == Put(s.prev, s.next[e], s.prev[e])
    IN  [s EXCEPT !.next = Put(n1, p1[m], n1[m]),
                  !.prev = Put(p1, n1[m], p1[m])]

unlift(s, e) ==
    LET m  == s.match[e]
        n1 == Put(s.next, s.prev[m], m)
        p1 == Put(s.prev, s.next[m], m)
    IN  [s EXCEPT !.next = Put(n1, p1[e], e),
                  !.prev = Put(p1, n1[e], e)]

-----------------------------------------------------------------------------
(* checkSingle.                                                            *)

set(b, pos)   == b \cup {pos}
clear(b, pos) == b \ {pos}

IdOf(s, e) == s.entries[e].id
Ids(s) == [i \in DOMAIN s.calls |-> IdOf(s, s.calls[i].entry)]

cacheContains(s, linearized, state) == [linearized |-> linearized, state |-> state] \in s.cache

\* A call: it is linearized if it can be, and leads to something new.
TryCall(s) ==
    LET e     == s.entry
        step  == Step(s.state, s.entries[e].o)
        newLinearized == set(s.linearized, IdOf(s, e))
        taken == lift([s EXCEPT !.cache = @ \cup {[linearized |-> newLinearized,
                                                   state |-> step.state]},
                                !.calls = Append(@, [entry |-> e, state |-> s.state]),
                                !.state = step.state,
                                !.linearized = newLinearized], e)
    IN  IF step.ok /\ ~cacheContains(s, newLinearized, step.state)
        THEN [taken EXCEPT !.entry = taken.next[0]]
        ELSE [s EXCEPT !.entry = s.next[e]]

\* Mutant: the sequence is looked at after its last call has been taken back.
longestAfterPop(s) ==
    LET seq == Front(Ids(s))
    IN  [id \in DOMAIN s.longest |->
            IF /\ id \in Range(seq)
               /\ s.longest[id] = Nil \/ Len(seq) > Len(s.longest[id])
            THEN seq ELSE s.longest[id]]

\* The current sequence of calls is the longest yet for some of its members.
longestSoFar(s) ==
    LET seq == Ids(s)
    IN  [id \in DOMAIN s.longest |->
            IF /\ id \in Range(seq)
               /\ s.longest[id] = Nil \/ Len(seq) > Len(s.longest[id])
            THEN seq ELSE s.longest[id]]

\* A return: the last call linearized is taken back.
Backtrack(s) ==
    LET top  == Last(s.calls)
        back == unlift([s EXCEPT !.longest = IF verbose THEN longestSoFar(s) ELSE @,
                                 !.state = top.state,
                                 !.linearized = clear(@, IdOf(s, top.entry)),
                                 !.calls = Front(@)], top.entry)
    IN  [back EXCEPT !.entry = back.next[top.entry]]

\* checkSingle returns and its result is sent; there is room for all of them.
Return(p, s, result) ==
    /\ search' = [search EXCEPT ![p] = [s EXCEPT !.pc = "returned"]]
    /\ results' = Append(results, result)

Continue(p, s) ==
    /\ search' = [search EXCEPT ![p] = s]
    /\ UNCHANGED results

checkSingle(p) ==
    LET s == search[p]
        all == [s EXCEPT !.longest = [id \in DOMAIN @ |-> Ids(s)]]
    IN  /\ s.pc = "running"
        /\ IF s.next[0] = Nil THEN Return(p, all, TRUE)
           ELSE IF kill THEN Return(p, s, FALSE)
           ELSE IF s.match[s.entry] # Nil THEN Continue(p, TryCall(s))
           ELSE IF s.calls = << >> THEN Return(p, s, FALSE)
           ELSE Continue(p, Backtrack(s))
        /\ UNCHANGED <<history, kill, count, ok, timedOut, verbose, timeout, pc>>

-----------------------------------------------------------------------------
(* checkParallel.                                                          *)

Partitions == DOMAIN search

\* After the loop: with computeInfo, the goroutines still at work are waited for.
Leave == pc' = IF verbose /\ count' < Cardinality(Partitions) THEN "drain" ELSE "done"

\* Mutant: one more result is waited for.
ReceiveOneMore ==
    /\ pc = "loop" /\ results # << >>
    /\ results' = Tail(results)
    /\ count' = count + 1
    /\ ok' = (ok /\ Head(results))
    /\ IF ~ok' /\ ~verbose THEN kill' = TRUE /\ Leave
       ELSE /\ IF count' > Cardinality(Partitions) THEN Leave ELSE UNCHANGED pc
            /\ UNCHANGED kill
    /\ UNCHANGED <<history, search, timedOut, verbose, timeout>>

Receive ==
    /\ pc = "loop" /\ results # << >>
    /\ results' = Tail(results)
    /\ count' = count + 1
    /\ ok' = (ok /\ Head(results))
    /\ IF ~ok' /\ ~verbose THEN kill' = TRUE /\ Leave
       ELSE /\ IF count' >= Cardinality(Partitions) THEN Leave ELSE UNCHANGED pc
            /\ UNCHANGED kill
    /\ UNCHANGED <<history, search, timedOut, verbose, timeout>>

Timeout ==
    /\ pc = "loop" /\ timeout
    /\ timedOut' = TRUE /\ kill' = TRUE
    /\ count' = count /\ Leave
    /\ UNCHANGED <<history, search, results, ok, verbose, timeout>>

\* Results after the loop only tell that a goroutine has ended.
Drain ==
    /\ pc = "drain" /\ results # << >>
    /\ results' = Tail(results)
    /\ count' = count + 1 /\ Leave
    /\ UNCHANGED <<history, search, kill, ok, timedOut, verbose, timeout>>

CheckResult == IF ~ok THEN "Illegal" ELSE IF timedOut THEN "Unknown" ELSE "Ok"

partialLinearizations(p) == Range(search[p].longest) \ {Nil}

\* Which partial linearization computeVisualizationData shows for an operation.
Largest(p, id) ==
    LET with == {l \in partialLinearizations(p) : id \in Range(l)}
    IN  {l \in with : \A m \in with : Len(m) <= Len(l)}

\* CheckOperations, CheckOperationsTimeout and CheckOperationsVerbose.
checkOperations(h) ==
    LET parts == Partition(h)
        ways  == [k \in DOMAIN parts |-> makeEntries(parts[k])]
    IN  /\ history = h
        /\ \E es \in [DOMAIN parts -> UNION Range(ways)] :
              /\ \A k \in DOMAIN parts : es[k] \in ways[k]
              /\ search = [k \in DOMAIN parts |-> makeLinkedEntries(es[k])]

\* CheckEvents and its variants: everything is one partition.
checkEvents(events) ==
    /\ history = LET ids == SetToSeq({events[i].id : i \in DOMAIN events})
                 IN  [k \in DOMAIN ids |-> OpOf(events, ids[k])]
    /\ search = [k \in {CHOOSE k \in Keys : TRUE} |-> makeLinkedEntries(convertEntries(renumber(events)))]

Init ==
    /\ \/ \E h \in Histories : checkOperations(h)
       \/ \E events \in EventHistories : checkEvents(events)
    /\ results = << >> /\ kill = FALSE
    /\ count = 0 /\ ok = TRUE /\ timedOut = FALSE
    /\ verbose \in BOOLEAN /\ timeout \in BOOLEAN
    /\ pc = "loop"

Goroutine(p) == p \in Partitions /\ checkSingle(p)

Next == Receive \/ Timeout \/ Drain \/ \E p \in Keys : Goroutine(p)

Spec == Init /\ [][Next]_vars

\* The goroutines are scheduled, and the timer fires in the end.
Fairness ==
    /\ WF_vars(Receive) /\ WF_vars(Timeout) /\ WF_vars(Drain)
    /\ \A p \in Keys : WF_vars(Goroutine(p))

-----------------------------------------------------------------------------
(* What the verdict should be: linearizability by its definition.          *)

\* The operations s of h, one after the other, on a store of all keys.
Legal(h, s) ==
    LET do(acc, i) ==
            LET step == Step(acc.store[h[i].key], h[i])
            IN  [ok |-> acc.ok /\ step.ok, store |-> [acc.store EXCEPT ![h[i].key] = step.state]]
    IN  FoldLeft(do, [ok |-> TRUE, store |-> [k \in Keys |-> InitialState]], s).ok

\* No operation comes before one that had returned when it was called.
InOrder(h, s) ==
    \A i \in DOMAIN s : \A j \in DOMAIN h :
        h[j].return < h[s[i]].call => j \in {s[k] : k \in 1 .. i - 1}

Linearizable(h) == \E s \in SetToSeqs(DOMAIN h) : InOrder(h, s) /\ Legal(h, s)

\* The operations of a partition, and the sequences that may start a linearization.
OpsOf(p) ==
    LET es == search[p].entries
    IN  [k \in 1 .. Len(es) \div 2 |-> (CHOOSE e \in Range(es) : e.id = k - 1).o]
Starts(h) == {s \in SetToAllKPermutations(DOMAIN h) : InOrder(h, s) /\ Legal(h, s)}

-----------------------------------------------------------------------------
(* Properties.                                                             *)

\* "Ok" is said of linearizable histories and "Illegal" of the others, by the
\* definition for the whole store: although every key is searched by itself, the cache
\* cuts branches off, entries of the same time come in any order, goroutines are killed
\* and the timeout may fire at any time (checkSingle, checkParallel, KvModel).
VerdictIsRight ==
    pc = "done" => /\ CheckResult = "Ok" => Linearizable(history)
                   /\ CheckResult = "Illegal" => ~Linearizable(history)

\* Between two iterations, after any number of lifts and unlifts, the linked list is
\* what the calls on the stack leave of the entries, in their order, and the bit set
\* and the state are those of these calls (lift, unlift, checkSingle).
ListIsRest ==
    \A p \in Partitions :
        LET s    == search[p]
            rest == {k \in DOMAIN s.entries : IdOf(s, k) \notin s.linearized}
        IN  /\ s.linearized = Range(Ids(s)) /\ IsInjective(Ids(s))
            /\ s.state = FoldLeft(LAMBDA st, c : Step(st, s.entries[c.entry].o).state,
                                  InitialState, s.calls)
            /\ \A k \in rest \cup {0} :
                  /\ s.next[k] = IF \E m \in rest : m > k THEN Min({m \in rest : m > k}) ELSE Nil
                  /\ k # 0 => s.prev[k] = Max({m \in rest \cup {0} : m < k})

\* With computeInfo, the goroutines have ended when their findings are read; each is a
\* way to start a linearization, and if the time was enough, what is shown for an
\* operation is the "longest linearizable prefix that includes the given entry"
\* (checkSingle, checkParallel, computeVisualizationData).
PartialsAreLongest ==
    pc = "done" /\ verbose => \A p \in Partitions :
        LET starts == Starts(OpsOf(p))
            up(l)  == [i \in DOMAIN l |-> l[i] + 1]
        IN  /\ search[p].pc = "returned"
            /\ \A l \in partialLinearizations(p) : up(l) \in starts
            /\ ~timedOut => \A k \in DOMAIN OpsOf(p) :
                  LET with == {Len(s) : s \in {s \in starts : k \in Range(s)}}
                  IN  {Len(l) : l \in Largest(p, k - 1)} = {n \in with : n = Max(with)}

\* There is a verdict in the end and no goroutine stays behind: the search never goes
\* round in circles, and is stopped when its result no longer matters (checkSingle,
\* checkParallel).  An empty history has no partition, so that no result ever comes;
\* without a timeout, checkParallel then waits for ever.
VerdictComes ==
    Partitions # {} \/ timeout ~>
        pc = "done" /\ \A p \in Partitions : search[p].pc = "returned"
=============================================================================
