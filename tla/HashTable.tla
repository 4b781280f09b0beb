----------------------------- MODULE HashTable -----------------------------
(***************************************************************************)
(* The hash table of common/hash_table.c: open addressing, one slot after  *)
(* the other, with a capacity that follows the size. The debugger keeps    *)
(* its breakpoints in it, all with the value 1, so an entry is its key.    *)
(*                                                                         *)
(* Where the code would use the entry NULL (assert(entry), or a store      *)
(* through it) the model notes a fault and stops.                          *)
(***************************************************************************)
EXTENDS Integers, FiniteSets, FiniteSetsExt

CONSTANTS
  Keys,       \* keys: addresses of breakpoints
  Prime,      \* LARGE_PRIME
  MinTable,   \* MIN_TABLE_SIZE
  None        \* what an unused slot holds

ASSUME TableAssumption ==
  /\ Keys \subseteq Nat /\ None \notin Keys
  /\ Prime \in Nat
  /\ MinTable \in Nat /\ MinTable > 1

VARIABLES
  slot,    \* entries: index -> key or None
  size,    \* size
  fault    \* an entry was NULL

hashVars == <<slot, size, fault>>

Capacity(t) == Cardinality(DOMAIN t)

Indices(n) == 0 .. n - 1

Unused(n) == [i \in Indices(n) |-> None]

NULL == -1

\* hash_table_find_entry: the index of the key's slot or of the one it would
\* get; NULL when every slot has another key, or there is none.
Find(t, key) ==
  LET n        == Capacity(t)
      probe(j) == (key * Prime + j) % n
      stops    == {j \in Indices(n) : t[probe(j)] \in {None, key}}
  IN  IF stops = {} THEN NULL ELSE probe(Min(stops))

\* What hash_table_get answers.
Get(t, key) == Find(t, key) # NULL /\ t[Find(t, key)] = key

\* An entry goes where it would be found.
Moved(t, key) ==
  IF key = None \/ Find(t, key) = NULL THEN t ELSE [t EXCEPT ![Find(t, key)] = key]

\* The first m entries of t in a table of n slots.
Rehashed(t, n, m) ==
  LET new[i \in 0 .. m] == IF i = 0 THEN Unused(n) ELSE Moved(new[i - 1], t[i - 1])
  IN  new[m]

\* Mutant of Resized: only the slots that the new table has as well are moved.
ResizedCut(t, n) == Rehashed(t, n, Min({n, Capacity(t)}))

\* hash_table_resize: the entries in a table of n slots ...
Resized(t, n) == Rehashed(t, n, Capacity(t))

\* ... when they have room in it.
ResizeFits(t, n) == Cardinality({i \in DOMAIN t : t[i] # None}) <= n

\* Mutant of HolesFilled: the hole is left.
HolesFilledNot(t, start) == t

\* One round: the entry at i goes where it would be found now. The first slot
\* without one ends the loop.
Filled(a, i) ==
  IF ~a.on \/ a.t[i] = None THEN [a EXCEPT !.on = FALSE]
  ELSE [a EXCEPT !.t = [[@ EXCEPT ![i] = None] EXCEPT ![Find(a.t, a.t[i])] = a.t[i]]]

\* hash_table_check_holes: the entries of the run after the hole.
HolesFilled(t, start) ==
  LET n == Capacity(t)
      run[j \in 0 .. n - 1] ==
        IF j = 0 THEN [t |-> t, on |-> TRUE] ELSE Filled(run[j - 1], (start + j) % n)
  IN  run[n - 1].t

-----------------------------------------------------------------------------
\* hash_table_init with a capacity of 0.
HashInit == slot = Unused(MinTable) /\ size = 0 /\ fault = FALSE

Fault == fault' = TRUE /\ UNCHANGED <<slot, size>>

\* The capacity that hash_table_set makes before it looks for the key.
GrownTo ==
  LET n == Capacity(slot) IN
  IF n = 0 THEN MinTable ELSE IF n \div 2 < size THEN 2 * n ELSE n

\* The capacity that hash_table_delete makes before it looks for the key.
ShrunkTo ==
  LET n == Capacity(slot) IN
  IF n \div 4 > size /\ n > MinTable THEN n \div 2 ELSE n

\* hash_table_resize leaves the size that hash_table_alloc gave the new table.
After(n) ==
  IF n = Capacity(slot) THEN [t |-> slot, size |-> size]
  ELSE [t |-> Resized(slot, n), size |-> 0]

\* Asking for a key changes nothing, but there must be a slot to look at.
AskFails(key) ==
  /\ Capacity(slot) > 0 /\ Find(slot, key) = NULL
  /\ Fault

Set(key) ==
  LET a == After(GrownTo)
      i == Find(a.t, key)
  IN  IF ~ResizeFits(slot, GrownTo) \/ i = NULL THEN Fault
      ELSE /\ slot' = [a.t EXCEPT ![i] = key]
           /\ size' = IF a.t[i] = None THEN a.size + 1 ELSE a.size
           /\ UNCHANGED fault

Delete(key) ==
  LET a == After(ShrunkTo)
      i == Find(a.t, key)
  IN  /\ Capacity(slot) > 0
      /\ IF ~ResizeFits(slot, ShrunkTo) \/ i = NULL THEN Fault
         ELSE /\ slot' = IF a.t[i] = None THEN a.t
                         ELSE HolesFilled([a.t EXCEPT ![i] = None], i)
              /\ size' = IF a.t[i] = None THEN a.size ELSE a.size - 1
              /\ UNCHANGED fault

Free == slot' = Unused(0) /\ size' = 0 /\ UNCHANGED fault

HashNext ==
  /\ ~fault
  /\ (\E key \in Keys : AskFails(key) \/ Set(key) \/ Delete(key)) \/ Free

HashSpec == HashInit /\ [][HashNext]_hashVars

-----------------------------------------------------------------------------
Stored == {slot[i] : i \in DOMAIN slot} \ {None}

\* The masks that wrap an index around need it.
Doubled(n) == \E k \in 0 .. Cardinality(Keys) : n = MinTable * 2 ^ k

HashTypeOK ==
  /\ slot \in [Indices(Capacity(slot)) -> Keys \cup {None}]
  /\ Capacity(slot) = 0 \/ Doubled(Capacity(slot))
  /\ size \in -Cardinality(Keys) .. Cardinality(Keys)
  /\ fault \in BOOLEAN

\* Every entry is where a search for its key ends, whatever was deleted and
\* moved around it: none is hidden behind a hole, and no key is in two slots.
AllReachable == \A i \in DOMAIN slot : slot[i] # None => Find(slot, slot[i]) = i

\* What the table answers is what a set of keys would: resizing, deleting and
\* filling holes neither lose a key nor bring one back.
Abstract == INSTANCE KeySet WITH keys <- {key \in Keys : Get(slot, key)}

ImplementsSet == Abstract!Spec

\* assert(entry): there is always a slot to look at.
EntryFound == ~fault
=============================================================================
