----------------------------- MODULE AymLabels ------------------------------
(***************************************************************************)
(* The label table (label.c): a uthash hash table of LabelEntry, with the  *)
(* macros of uthash.h that label.c expands.  An entry is the block of      *)
(* memory it is in; a chain is the sequence of the entries its bucket      *)
(* links by hh_next, and order the one the head links by next.             *)
(*                                                                         *)
(* The two loops that rebuild or destroy the table take one step for each  *)
(* entry: HASH_EXPAND_BUCKETS, within bind_label, and free_label_table.    *)
(***************************************************************************)
EXTENDS Integers, Sequences, FiniteSets, SequencesExt

CONSTANTS
  Names,           \* the labels
  Hash,            \* HASH_JEN: name |-> number
  InitialBuckets,  \* HASH_INITIAL_NUM_BUCKETS, 32
  InitialLog2,     \* HASH_INITIAL_NUM_BUCKETS_LOG2, 5
  Threshold,       \* HASH_BKT_CAPACITY_THRESH, 10
  MaxEntries       \* bound on the entries allocated at one time

ASSUME LabelsAssumption ==
  /\ Hash \in [Names -> Nat]
  /\ InitialBuckets \in Nat \ {0}
  /\ InitialLog2 \in Nat
  /\ Threshold \in Nat \ {0}
  /\ MaxEntries \in Nat

VARIABLES
  entry,     \* blocks allocated and not freed |-> LabelEntry
  order,     \* the table's entries; <<>> when the table is NULL
  tbl,       \* UT_hash_table
  new,       \* _he_new_buckets while the table expands
  cur, tmp,  \* the two pointers of free_label_table
  answer,    \* what the last call returned, <<>> for nothing
  leaked,    \* history: entries of tables whose pointer was overwritten
  pc         \* "idle", in which loop, or how the process ended

vars == <<entry, order, tbl, new, cur, tmp, answer, leaked, pc>>

NULL == 0
NotFound == -1

EmptyBucket == [chain |-> <<>>, count |-> 0, expand_mult |-> 0]
Buckets(n) == [b \in 0 .. n - 1 |-> EmptyBucket]

\* HASH_MAKE_TABLE.
EmptyTable ==
  [num_buckets |-> InitialBuckets, log2_num_buckets |-> InitialLog2,
   buckets |-> Buckets(InitialBuckets), num_items |-> 0,
   ideal_chain_maxlen |-> 0, nonideal_items |-> 0, ineff_expands |-> 0, noexpand |-> FALSE]

Init ==
  /\ entry = <<>> /\ order = <<>>
  /\ tbl = EmptyTable /\ new = <<>>
  /\ cur = NULL /\ tmp = NULL
  /\ answer = <<>> /\ leaked = {}
  /\ pc = "idle"

\* num_buckets is a power of two, so that masking is the remainder.
Bucket(n, size) == Hash[n] % size
Home(e, size) == Bucket(entry[e].name, size)

-----------------------------------------------------------------------------
(* bind_label                                                                *)

\* HASH_ADD_TO_BKT without the expansion it may end in.
Added(bkt, e) == [bkt EXCEPT !.chain = <<e>> \o @, !.count = @ + 1]

\* Mutant: one too early.
Overfull_Mutant(bkt) == bkt.count + 1 >= (bkt.expand_mult + 1) * Threshold
Overfull(bkt) == bkt.count >= (bkt.expand_mult + 1) * Threshold

\* The mean chain length once the buckets are doubled, rounded up.
Ideal(items, size) == (items + 2 * size - 1) \div (2 * size)

Free == 1 .. MaxEntries \ DOMAIN entry

\* The index tells the bindings apart.  era is history: how often the table had
\* been doubled.
Bind(n) ==
  LET e == Min(Free)
      size == tbl.num_buckets
      era == tbl.log2_num_buckets
      bkt == Added(tbl.buckets[Bucket(n, size)], e)
      added == [tbl EXCEPT !.num_items = @ + 1, !.buckets[Bucket(n, size)] = bkt]
  IN
  /\ pc = "idle" /\ Free # {}
  /\ entry' = [x \in DOMAIN entry \cup {e} |->
                 IF x = e THEN [name |-> n, index |-> e, era |-> era] ELSE entry[x]]
  /\ order' = Append(order, e)
  /\ IF Overfull(bkt) /\ ~tbl.noexpand
     THEN /\ tbl' = [added EXCEPT !.ideal_chain_maxlen = Ideal(added.num_items, size),
                                  !.nonideal_items = 0]
          /\ new' = Buckets(2 * size)
          /\ pc' = "expanding"
     ELSE tbl' = added /\ UNCHANGED <<new, pc>>
  /\ answer' = <<>>
  /\ UNCHANGED <<cur, tmp, leaked>>

\* malloc of the entry is not checked; that of a table or of its buckets is,
\* and ends the process.
NoMemory ==
  /\ pc = "idle"
  /\ \/ pc' = "CRASH"
     \/ /\ \/ order = <<>>
           \/ ~tbl.noexpand /\ \E b \in DOMAIN tbl.buckets :
                                 Overfull([tbl.buckets[b] EXCEPT !.count = @ + 1])
        /\ pc' = "EXIT"
  /\ UNCHANGED <<entry, order, tbl, new, cur, tmp, answer, leaked>>

-----------------------------------------------------------------------------
(* HASH_EXPAND_BUCKETS                                                       *)

\* An entry is moved to the head of its new chain.
\* Mutant: to its end.
Relinked_Mutant(chain, e) == Append(chain, e)
Relinked(chain, e) == <<e>> \o chain
Nonideal(bkt) == bkt.count >= tbl.ideal_chain_maxlen
Moved(bkt, e) ==
  [chain |-> Relinked(bkt.chain, e),
   count |-> bkt.count + 1,
   expand_mult |->
     IF Nonideal(bkt) /\ bkt.count + 1 > bkt.expand_mult * tbl.ideal_chain_maxlen
     THEN bkt.expand_mult + 1 ELSE bkt.expand_mult]

\* Mutant: waits for the old buckets' counts.
Emptied_Mutant(buckets) == \A b \in DOMAIN buckets : buckets[b].count = 0
Emptied(buckets) == \A b \in DOMAIN buckets : buckets[b].chain = <<>>

ExpandMove ==
  /\ pc = "expanding"
  /\ \E b \in DOMAIN tbl.buckets :
       /\ tbl.buckets[b].chain # <<>>
       /\ \A a \in 0 .. b - 1 : tbl.buckets[a].chain = <<>>
       /\ LET e == Head(tbl.buckets[b].chain)
              to == Home(e, 2 * tbl.num_buckets)
          IN  /\ new' = [new EXCEPT ![to] = Moved(@, e)]
              /\ tbl' = [tbl EXCEPT !.buckets[b].chain = Tail(@),
                                    !.nonideal_items = @ + IF Nonideal(new[to]) THEN 1 ELSE 0]
  /\ UNCHANGED <<entry, order, cur, tmp, answer, leaked, pc>>

\* After two expansions in a row that left more than half of the entries deeper
\* than the ideal length there are no more.
ExpandDone ==
  LET ineff == IF tbl.nonideal_items > tbl.num_items \div 2 THEN tbl.ineff_expands + 1 ELSE 0 IN
  /\ pc = "expanding" /\ Emptied(tbl.buckets)
  /\ tbl' = [tbl EXCEPT !.num_buckets = 2 * @, !.log2_num_buckets = @ + 1, !.buckets = new,
                        !.ineff_expands = ineff, !.noexpand = @ \/ ineff > 1]
  /\ new' = <<>>
  /\ pc' = "idle"
  /\ UNCHANGED <<entry, order, cur, tmp, answer, leaked>>

-----------------------------------------------------------------------------
(* get_label_index                                                           *)

\* The first of the name in its chain, HASH_FIND_IN_BKT.
Found(chain, n) == SelectInSeq(chain, LAMBDA e : entry[e].name = n)

Index(n) ==
  LET chain == tbl.buckets[Bucket(n, tbl.num_buckets)].chain
      k == Found(chain, n)
  IN IF order = <<>> \/ k = 0 THEN NotFound ELSE entry[chain[k]].index

Lookup(n) ==
  /\ pc = "idle"
  /\ answer' = <<Index(n)>>
  /\ UNCHANGED <<entry, order, tbl, new, cur, tmp, leaked, pc>>

-----------------------------------------------------------------------------
(* free_label_table                                                          *)

\* Where the list links e, 0 if it does not.
Place(list, e) == SelectInSeq(list, LAMBDA x : x = e)

\* el->hh.next, for an el that may be NULL.  Mutant: stops at the last but one.
Successor_Mutant(list, e) ==
  LET k == Place(list, e) IN
  IF k = 0 \/ k >= Len(list) - 1 THEN NULL ELSE list[k + 1]
Successor(list, e) ==
  LET k == Place(list, e) IN
  IF k = 0 \/ k = Len(list) THEN NULL ELSE list[k + 1]

\* Its neighbours are linked to each other.
Unlink(list, e) == RemoveAt(list, Place(list, e))

FreeStart ==
  /\ pc = "idle"
  /\ cur' = IF order = <<>> THEN NULL ELSE Head(order)
  /\ tmp' = IF order = <<>> THEN NULL ELSE Successor(order, Head(order))
  /\ pc' = "freeing"
  /\ answer' = <<>>
  /\ UNCHANGED <<entry, order, tbl, new, leaked>>

\* HASH_DELETE: the table goes with its last entry.
\* Mutants: the count is not taken down; it is taken down twice.
Unlinked_Mutant1(bkt, e) == [bkt EXCEPT !.chain = Unlink(@, e)]
Unlinked_Mutant2(bkt, e) == [bkt EXCEPT !.chain = Unlink(@, e), !.count = @ - 2]
Unlinked(bkt, e) == [bkt EXCEPT !.chain = Unlink(@, e), !.count = @ - 1]
Deleted(e) ==
  [tbl EXCEPT !.buckets[Home(e, tbl.num_buckets)] = Unlinked(@, e), !.num_items = @ - 1]

\* Mutant: the name is freed, the entry is not.
Released_Mutant(e) == entry
Released(e) == Restrict(entry, DOMAIN entry \ {e})

FreeEntry ==
  /\ pc = "freeing" /\ cur # NULL
  /\ order' = Unlink(order, cur)
  /\ tbl' = IF order = <<cur>> THEN EmptyTable ELSE Deleted(cur)
  /\ entry' = Released(cur)
  /\ cur' = tmp
  /\ tmp' = Successor(order', tmp)
  /\ UNCHANGED <<new, answer, leaked, pc>>

FreeDone ==
  /\ pc = "freeing" /\ cur = NULL
  /\ pc' = "idle"
  /\ UNCHANGED <<entry, order, tbl, new, cur, tmp, answer, leaked>>

\* aym_init sets the table's pointer to NULL; the encoder's is a local variable,
\* which goes out of scope whenever it returns.
Abandon ==
  /\ pc = "idle"
  /\ order' = <<>> /\ tbl' = EmptyTable
  /\ leaked' = leaked \cup ToSet(order)
  /\ answer' = <<>>
  /\ UNCHANGED <<entry, new, cur, tmp, pc>>

-----------------------------------------------------------------------------

Ended == pc \in {"CRASH", "EXIT"} /\ UNCHANGED vars

Loops == ExpandMove \/ ExpandDone \/ FreeEntry \/ FreeDone

Next ==
  \/ \E n \in Names : Bind(n) \/ Lookup(n)
  \/ NoMemory \/ Loops \/ FreeStart \/ Abandon \/ Ended

\* A call that was made goes on; none need be made.
Spec == Init /\ [][Next]_vars /\ WF_vars(Loops)

-----------------------------------------------------------------------------

Ids == DOMAIN entry
BucketType(ids) == [chain : Seq(ids), count : Nat, expand_mult : Nat]

TypeOK ==
  /\ Ids \subseteq 1 .. MaxEntries /\ leaked \subseteq Ids
  /\ entry \in [Ids -> [name : Names, index : Nat, era : Nat]]
  /\ order \in Seq(Ids)
  /\ tbl.num_buckets \in Nat \ {0}
  /\ tbl.buckets \in [0 .. tbl.num_buckets - 1 -> BucketType(Ids)]
  /\ pc = "expanding" => new \in [0 .. 2 * tbl.num_buckets - 1 -> BucketType(Ids)]
  /\ cur \in Ids \cup {NULL} /\ tmp \in Ids \cup {NULL}
  /\ answer \in {<<>>} \cup {<<i>> : i \in {NotFound} \cup 1 .. MaxEntries}
  /\ pc \in {"idle", "expanding", "freeing", "CRASH", "EXIT"}

\* HASH_FSCK: each bucket counts the entries it links, every entry of the
\* table is linked once and in the bucket of its hash, and num_items is their
\* number.  It holds after every addition and deletion and, between the old and
\* the new buckets, inside an expansion.
Links(buckets, size, es) ==
  \A b \in 0 .. size - 1 :
    /\ buckets[b].count = Len(buckets[b].chain)
    /\ IsInjective(buckets[b].chain)
    /\ ToSet(buckets[b].chain) = {e \in es : Home(e, size) = b}

Linear(buckets) == UNION {ToSet(buckets[b].chain) : b \in DOMAIN buckets}

Fsck ==
  /\ IsInjective(order) /\ tbl.num_items = Len(order)
  /\ IF pc # "expanding" THEN Links(tbl.buckets, tbl.num_buckets, ToSet(order))
     ELSE /\ Links(new, 2 * tbl.num_buckets, ToSet(order) \ Linear(tbl.buckets))
          /\ Linear(tbl.buckets) \subseteq ToSet(order)

\* Which of a name's entries a lookup finds.  An expansion reverses them in
\* their chain, and later ones come in front of it: those bound an even number of
\* expansions ago are in front, the latest first, and behind them those bound an
\* odd number of expansions ago, the oldest first.
OfName(n) == {k \in DOMAIN order : entry[order[k]].name = n}
Alike(n) == {k \in OfName(n) : (tbl.log2_num_buckets - entry[order[k]].era) % 2 = 0}

DuplicateLookup ==
  pc = "idle" =>
    \A n \in Names :
      LET first == IF Alike(n) # {} THEN Max(Alike(n)) ELSE Min(OfName(n)) IN
      Index(n) = IF OfName(n) = {} THEN NotFound ELSE entry[order[first]].index

\* Freeing and abandoning account for every entry: what is allocated is in the
\* table or was lost with the pointer to one, and the two pointers of
\* free_label_table never point to what is freed.
NothingDangles ==
  /\ Ids = ToSet(order) \cup leaked
  /\ ToSet(order) \cap leaked = {}
  /\ pc = "freeing" => {cur, tmp} \subseteq ToSet(order) \cup {NULL}

\* bind_label and free_label_table return, unless memory runs out before.
CallsReturn == pc \in {"expanding", "freeing"} ~> pc = "idle"

\* The turns that the loop under way has left: one for each entry that is still to
\* be moved or freed, and one to find that there is none.
TurnsLeft ==
  CASE pc = "expanding" -> Cardinality(Linear(tbl.buckets)) + 1
    [] pc = "freeing" -> Len(order) + 1
    [] OTHER -> 0

\* Both loops take each entry once, and end when they have taken the last: the
\* one that moves entries between chains while it walks them, and the one that
\* frees what it stands on, in the end the table itself.
EachEntryOnce == [][TurnsLeft > 0 => TurnsLeft' = TurnsLeft - 1]_vars

\* The bindings of the table; free_label_table begins by forgetting them.
Bindings ==
  IF pc = "freeing" THEN <<>>
  ELSE [k \in DOMAIN order |-> [name |-> entry[order[k]].name, index |-> entry[order[k]].index]]

\* The table is the map of LabelMap, with Threshold as the number of bindings
\* up to which the latest one is found.
Map == INSTANCE LabelMap WITH Exact <- Threshold, bindings <- Bindings
ImplementsLabelMap == Map!Spec
=============================================================================
