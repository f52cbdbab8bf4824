------------------------------ MODULE EnvTable -----------------------------
(***************************************************************************)
(* The environment in memory: lib/hashtable.c, a table of Size slots with  *)
(* double hashing.  A slot is free, holds an entry (and the first index of *)
(* its name, in "used") or held one that was deleted.  A search stops at a *)
(* free slot only, and of the deleted ones a new entry takes only the      *)
(* first of its search: when no slot is free any more, it may take that of *)
(* another entry.                                                          *)
(***************************************************************************)
EXTENDS Integers, Sequences, FiniteSets, SequencesExt, FiniteSetsExt

CONSTANTS Keys, Values, NoValue,
          Hash,     \* the number computed from the letters of a name
          Size,     \* htab->size, a prime
          Order,    \* the names in the order of strcmp
          Lists,    \* what is imported: sequences of [key, val]
          KeyLen, ValLen,  \* lengths of names and values
          Buffer,   \* ENV_SIZE
          Rejects   \* whether the rules for variables may refuse a change

Free == 0
Deleted == -1
Slots == 1 .. Size

\* What the constants are.
TableAssumption ==
    /\ Size \in Nat /\ Size > 2
    /\ Hash \in [Keys -> Nat]
    /\ NoValue \notin Values
    /\ Rejects \in BOOLEAN

VARIABLES tab,  \* the table: used, key and data of every slot, filled, and as
                \* history whether a new entry has taken the slot of another
          res   \* what the last call returned

vars == <<tab, res>>

\* hcreate_r
Fresh == [used |-> [i \in Slots |-> Free], key |-> [i \in Slots |-> NoValue],
          data |-> [i \in Slots |-> NoValue], filled |-> 0, over |-> FALSE]
Live(t) == {i \in Slots : t.used[i] > 0}
-----------------------------------------------------------------------------
(* Searching. *)

First(k) == IF Hash[k] % Size = 0 THEN 1 ELSE Hash[k] % Size
Second(k) == 1 + (First(k) % (Size - 2))

\* The next index of a search.
Step(k, i) == IF i <= Second(k) THEN Size + i - Second(k) ELSE i - Second(k)

\* The indices a search for the name visits, in order.
Probe(k) ==
    LET p[j \in 0 .. Size] == IF j = 0 THEN First(k) ELSE Step(k, p[j - 1])
    IN p
Probes == [k \in Keys |-> Probe(k)]

Match(t, k, i) == t.used[i] = First(k) /\ t.key[i] = k

\* Mutant: a deleted slot ends the search.
Stop_AtDeleted(t, k) ==
    LET p == Probes[k]
    IN Min({j \in 0 .. Size : t.used[p[j]] <= 0 \/ Match(t, k, p[j]) \/ (j > 0 /\ p[j] = First(k))})

\* Where the search ends: at a free slot, at the name, or back at the start.
Stop(t, k) ==
    LET p == Probes[k]
    IN Min({j \in 0 .. Size : t.used[p[j]] = Free \/ Match(t, k, p[j]) \/ (j > 0 /\ p[j] = First(k))})

At(t, k) == Probes[k][Stop(t, k)]
Found(t, k) == Match(t, k, At(t, k))

\* A new entry takes the first slot of the search if it was deleted, and the
\* slot the search ended at otherwise.
Slot(t, k) == IF t.used[First(k)] = Deleted THEN First(k) ELSE At(t, k)
-----------------------------------------------------------------------------
(* Changing one entry. *)

\* hsearch_r with ENTER.
Enter(t, k, v) ==
    LET i == Slot(t, k)
    IN IF Found(t, k) THEN [t EXCEPT !.data[At(t, k)] = v]
       ELSE IF t.filled = Size THEN t
       ELSE [used |-> [t.used EXCEPT ![i] = First(k)], key |-> [t.key EXCEPT ![i] = k],
             data |-> [t.data EXCEPT ![i] = v], filled |-> t.filled + 1,
             over |-> t.over \/ t.used[i] > 0]

\* _hdelete
HDelete(t, i) ==
    [t EXCEPT !.used[i] = Deleted, !.key[i] = NoValue, !.data[i] = NoValue, !.filled = @ - 1]

\* One entry of an import: without a value the name is deleted.  An entry the
\* table refuses is dropped, and the import goes on.
ImportEntry(t, e) ==
    IF e.val # NoValue THEN Enter(t, e.key, e.val)
    ELSE IF Found(t, e.key) THEN HDelete(t, At(t, e.key)) ELSE t

\* hexport_r lists the entries by name.
Export(t) ==
    LET Val(k) == t.data[CHOOSE i \in Live(t) : t.key[i] = k]
        kept == SelectSeq(Order, LAMBDA k : \E i \in Live(t) : t.key[i] = k)
    IN [n \in 1 .. Len(kept) |-> [key |-> kept[n], val |-> Val(kept[n])]]

\* The first pass of hexport_r: the length of the entries.
Needs(t) == MapThenSumSet(LAMBDA i : KeyLen[t.key[i]] + ValLen[t.data[i]] + 4, Live(t))

-----------------------------------------------------------------------------
Init == tab = Fresh /\ res = "none"

\* _do_env_set with a value.  A new entry is made before it is judged, and a
\* refused one is deleted again.
SetVar(k, v) ==
    \/ tab' = Enter(tab, k, v)
       /\ res' = IF ~Found(tab, k) /\ tab.filled = Size THEN "full" ELSE "ok"
    \/ /\ Rejects /\ (Found(tab, k) \/ tab.filled < Size)
       /\ tab' = IF Found(tab, k) THEN tab ELSE HDelete(Enter(tab, k, v), Slot(tab, k))
       /\ res' = "denied"

\* _do_env_set without a value.
DelVar(k) ==
    IF Found(tab, k)
    THEN \/ tab' = HDelete(tab, At(tab, k)) /\ res' = "ok"
         \/ Rejects /\ res' = "denied" /\ UNCHANGED tab
    ELSE res' = "missing" /\ UNCHANGED tab

GetVar(k) ==
    /\ res' = IF Found(tab, k) THEN tab.data[At(tab, k)] ELSE NoValue
    /\ UNCHANGED tab

\* himport_r: into a new table or, with H_NOCLEAR, into the one that is there.
Import(l, clear) ==
    /\ tab' = FoldLeft(ImportEntry, IF clear THEN Fresh ELSE tab, l)
    /\ res' = "ok"

\* The environment is saved and, at the next start, imported.
Reload ==
    IF Needs(tab) + 1 > Buffer THEN res' = "toobig" /\ UNCHANGED tab
    ELSE /\ tab' = FoldLeft(ImportEntry, Fresh, Export(tab))
         /\ res' = "ok"

Next ==
    \/ \E k \in Keys : (\E v \in Values : SetVar(k, v)) \/ DelVar(k) \/ GetVar(k)
    \/ \E l \in Lists, clear \in BOOLEAN : Import(l, clear)
    \/ Reload

Spec == Init /\ [][Next]_vars
-----------------------------------------------------------------------------
(* The slots and the count stay within their types. *)
TypeOK ==
    /\ tab.used \in [Slots -> -1 .. Size - 1]
    /\ tab.key \in [Slots -> Keys \union {NoValue}]
    /\ tab.data \in [Slots -> Values \union {NoValue}]
    /\ tab.filled \in 0 .. Size /\ tab.over \in BOOLEAN

(* "Because SIZE is prime this guarantees to step through all available
   indices": an entry of the table is found by a search for its name,
   whatever was deleted on the way to it.                                    *)
FoundIfThere == \A i \in Live(tab) : At(tab, tab.key[i]) = i

(* The count that decides whether the table is full is the number of entries,
   until a new entry takes the slot of another.                              *)
FilledCounts == tab.over \/ tab.filled = Cardinality(Live(tab))

env ==
    LET live == Live(tab)
        Of(k) == {i \in live : tab.key[i] = k}
    IN [k \in Keys |-> IF Of(k) = {} THEN NoValue ELSE tab.data[CHOOSE i \in Of(k) : TRUE]]
LastVal(l, k) == l[Max({i \in 1 .. Len(l) : l[i].key = k})].val
Map == INSTANCE EnvMap WITH Room <- Size,
                            Loads <- {[k \in {l[i].key : i \in 1 .. Len(l)} |-> LastVal(l, k)] : l \in Lists}

(* Through any sequence of setting, deleting, importing and saving, with the
   collisions and deleted slots they leave, the table is the map its users
   see: no name is there twice, lost, or found with another's value, until a
   new entry takes the slot of another.                                      *)
ImplementsEnvMap == Map!Init /\ [][~tab'.over => Map!Next]_(Map!vars)

(* What hashtable.c, 348 says where hsearch_r has not found a name and makes
   an entry for it: "An empty bucket has been found."                        *)
EmptyBucket ==
    \A k \in Keys : ~Found(tab, k) /\ tab.filled < Size => tab.used[Slot(tab, k)] <= 0
=============================================================================
