------------------------------- MODULE Table -------------------------------
(***************************************************************************)
(* The in-memory table of crates/server/src/util/table: rows with ids and  *)
(* sorted secondary indexes, unique or not, that can be added and dropped  *)
(* at any time.  An operation holds the table's write lock from its start  *)
(* to its end, so each is one step; a panic inside it poisons the lock and *)
(* every later operation panics in turn.                                   *)
(*                                                                         *)
(* A value is its keys: v[x] is what the accessor of index x returns.      *)
(* Indexes are numbered in the order they are added, which is the order    *)
(* IndexSet::apply visits them in.                                         *)
(***************************************************************************)
EXTENDS Integers, Sequences, FiniteSets

CONSTANTS
  NumIndexes,  \* bound: indexes ever added
  Keys,        \* the ordered keys, a set of integers
  MaxAdds      \* bound: rows ever added

ASSUME TableAssumption ==
  /\ NumIndexes \in Nat
  /\ Keys \subseteq Int
  /\ MaxAdds \in Nat

VARIABLES
  next_id,      \* TableCore.next_id
  rows,         \* TableCore.rows
  handle,       \* per index: not added yet, live, or its handle dropped
  unique,       \* IndexStore.unique
  entries,      \* IndexStore.entries
  born_unique,  \* history: the index had no equal keys when it was added
  poisoned,     \* an operation panicked under the table's lock
  result        \* what the last operation returned

vars == <<next_id, rows, handle, unique, entries, born_unique, poisoned,
          result>>
indexVars == <<handle, unique, born_unique>>

-----------------------------------------------------------------------------
Indexes == 1..NumIndexes
Values == [Indexes -> Keys]
Ids == 0..(MaxAdds - 1)
Live == {x \in Indexes : handle[x] = "live"}

(* entry_cmp, with rows r: the ids of e are in key order of index x.       *)
SortedBy(e, r, x) ==
  \A i, j \in 1..Len(e) : i < j => r[e[i]][x] <= r[e[j]][x]

(* find_range: the binary search hits some entry with the key, and the two *)
(* loops extend the hit to both sides while the key is the same.           *)
Hits(e, r, x, k) == {i \in 1..Len(e) : r[e[i]][x] = k}
Between(i, j) == IF i <= j THEN i..j ELSE j..i
(* Mutant: the hit is not extended to the left.                            *)
RunToTheRight(e, r, x, k, hit) ==
  {j \in hit..Len(e) : \A i \in hit..j : r[e[i]][x] = k}
RunAround(e, r, x, k, hit) ==
  {j \in 1..Len(e) : \A i \in Between(j, hit) : r[e[i]][x] = k}
find_range(e, r, x, k) ==
  IF Hits(e, r, x, k) = {}
    THEN {}
    ELSE RunAround(e, r, x, k, CHOOSE i \in Hits(e, r, x, k) : TRUE)

(* range.end on sorted entries, found or not: where add_entry inserts.     *)
RangeEnd(e, r, x, k, at) ==
  /\ at \in 0..Len(e)
  /\ \A i \in 1..at : r[e[i]][x] <= k
  /\ \A i \in (at + 1)..Len(e) : r[e[i]][x] > k

(* Mutant: the position in the range is forgotten.                         *)
InsertedInFront(e, at, id) == <<id>> \o e

(* Vec::insert and Vec::remove.                                            *)
Inserted(e, at, id) ==
  [i \in 1..(Len(e) + 1) |-> IF i <= at THEN e[i]
                             ELSE IF i = at + 1 THEN id ELSE e[i - 1]]
Removed(e, p) ==
  [i \in 1..(Len(e) - 1) |-> IF i < p THEN e[i] ELSE e[i + 1]]

(* IndexStore::new: a stable sort of the ids, which come in id order.      *)
StableSorted(e, r, x) ==
  \A i, j \in 1..Len(e) :
    i < j => \/ r[e[i]][x] < r[e[j]][x]
             \/ r[e[i]][x] = r[e[j]][x] /\ e[i] < e[j]

Distinct(r, x) ==
  \A a, b \in DOMAIN r : r[a][x] = r[b][x] => a = b

-----------------------------------------------------------------------------
Init ==
  /\ next_id = 0
  /\ rows = <<>>
  /\ handle = [x \in Indexes |-> "none"]
  /\ unique = [x \in Indexes |-> FALSE]
  /\ entries = [x \in Indexes |-> <<>>]
  /\ born_unique = [x \in Indexes |-> FALSE]
  /\ poisoned = FALSE
  /\ result = "ok"

(* add_index_inner: no uniqueness check over the rows already there.       *)
AddIndex(x, u) ==
  /\ ~poisoned
  /\ handle[x] = "none"
  /\ \A y \in 1..(x - 1) : handle[y] # "none"
  /\ handle' = [handle EXCEPT ![x] = "live"]
  /\ unique' = [unique EXCEPT ![x] = u]
  /\ \E n \in 0..MaxAdds : \E e \in [1..n -> DOMAIN rows] :
       /\ \A id \in DOMAIN rows : \E i \in 1..n : e[i] = id
       /\ StableSorted(e, rows, x)
       /\ entries' = [entries EXCEPT ![x] = e]
  /\ born_unique' = [born_unique EXCEPT ![x] = Distinct(rows, x)]
  /\ result' = "ok"
  /\ UNCHANGED <<next_id, rows, poisoned>>

(* The Index is dropped: the table's weak handle no longer upgrades.       *)
DropIndex(x) ==
  /\ handle[x] = "live"
  /\ handle' = [handle EXCEPT ![x] = "dropped"]
  /\ entries' = [entries EXCEPT ![x] = <<>>]
  /\ UNCHANGED <<next_id, rows, unique, born_unique, poisoned, result>>

-----------------------------------------------------------------------------
(* Mutant: off by one in the uniqueness check.                             *)
check_add_off_by_one(x, v) ==
  unique[x] => Cardinality(find_range(entries[x], rows, x, v[x])) <= 1

check_add(x, v) ==
  unique[x] => find_range(entries[x], rows, x, v[x]) = {}

(* add_entry of the table: check every index, insert the row, then enter   *)
(* it in every index.                                                      *)
Add(v) ==
  LET r == [id \in DOMAIN rows \cup {next_id} |->
              IF id = next_id THEN v ELSE rows[id]]
  IN /\ ~poisoned
     /\ next_id < MaxAdds
     /\ \A x \in Live : check_add(x, v)
     /\ rows' = r
     /\ next_id' = next_id + 1
     /\ \E at \in [Live -> 0..MaxAdds] :
          /\ \A x \in Live : RangeEnd(entries[x], r, x, v[x], at[x])
          /\ entries' = [x \in Indexes |->
                           IF x \in Live
                             THEN Inserted(entries[x], at[x], next_id)
                             ELSE entries[x]]
     /\ result' = "ok"
     /\ UNCHANGED <<indexVars, poisoned>>

(* Mutant: a refused row uses up an id.                                    *)
AddRefusedUsesId(v) ==
  /\ ~poisoned
  /\ \E x \in Live : ~check_add(x, v)
  /\ result' = "AlreadyExists"
  /\ next_id' = next_id + 1
  /\ UNCHANGED <<rows, indexVars, entries, poisoned>>

AddRefused(v) ==
  /\ ~poisoned
  /\ \E x \in Live : ~check_add(x, v)
  /\ result' = "AlreadyExists"
  /\ UNCHANGED <<next_id, rows, indexVars, entries, poisoned>>

(* remove_entry: out of every index, then out of the rows.  An index that  *)
(* does not find the id panics.                                            *)
Position(x, id) ==
  {p \in find_range(entries[x], rows, x, rows[id][x]) : entries[x][p] = id}

(* Mutant: the row goes before its entries, so that the indexes cannot     *)
(* look up its key.                                                        *)
RemoveRowFirst(id) ==
  /\ ~poisoned
  /\ id \in DOMAIN rows
  /\ rows' = [i \in DOMAIN rows \ {id} |-> rows[i]]
  /\ poisoned' = (Live # {})
  /\ result' = IF Live = {} THEN "ok" ELSE "panic"
  /\ UNCHANGED <<next_id, indexVars, entries>>

Remove(id) ==
  /\ ~poisoned
  /\ id \in DOMAIN rows
  /\ IF \A x \in Live : Position(x, id) # {}
       THEN /\ \E at \in [Live -> 0..MaxAdds] :
                 /\ \A x \in Live : at[x] \in Position(x, id)
                 /\ entries' = [x \in Indexes |->
                                  IF x \in Live
                                    THEN Removed(entries[x], at[x])
                                    ELSE entries[x]]
            /\ rows' = [i \in DOMAIN rows \ {id} |-> rows[i]]
            /\ result' = "ok"
            /\ UNCHANGED poisoned
       ELSE /\ poisoned' = TRUE
            /\ result' = "panic"
            /\ UNCHANGED <<rows, entries>>
  /\ UNCHANGED <<next_id, indexVars>>

(* update and remove of an id that is not there.                           *)
Missing(id) ==
  /\ ~poisoned
  /\ id \notin DOMAIN rows
  /\ result' = "Nonexistent"
  /\ UNCHANGED <<next_id, rows, indexVars, entries, poisoned>>

-----------------------------------------------------------------------------
(* check_update: fine, refused, or the assertion that the range of a key   *)
(* in a unique index has length 1 fails.                                   *)
check_update(x, id, v) ==
  LET found == find_range(entries[x], rows, x, v[x])
  IN IF ~unique[x] \/ found = {} THEN "ok"
     ELSE IF Cardinality(found) # 1 THEN "panic"
     ELSE IF \A p \in found : entries[x][p] = id THEN "ok"
     ELSE "AlreadyExists"

(* apply stops at the first index whose check does not return Ok.          *)
UpdateStopped(id, v) ==
  /\ ~poisoned
  /\ id \in DOMAIN rows
  /\ \E x \in Live :
       /\ check_update(x, id, v) # "ok"
       /\ \A y \in Live : y < x => check_update(y, id, v) = "ok"
       /\ result' = check_update(x, id, v)
       /\ poisoned' = (check_update(x, id, v) = "panic")
  /\ UNCHANGED <<next_id, rows, indexVars, entries>>

(* update_entry runs once the row has its new value, and looks for the id  *)
(* among the entries whose row has the old key: it is there only if the    *)
(* key did not change.  Then it is taken out and entered again at the end  *)
(* of its range.  The first index whose key changed panics; the row and    *)
(* the indexes before it are already updated.                              *)
Changed(x, id, v) == rows[id][x] # v[x]
Reached(id, v) ==
  {x \in Live : \A y \in Live : y <= x => ~Changed(y, id, v)}

Update(id, v) ==
  LET r == [rows EXCEPT ![id] = v]
  IN /\ ~poisoned
     /\ id \in DOMAIN rows
     /\ \A x \in Live : check_update(x, id, v) = "ok"
     /\ rows' = r
     /\ \E p, at \in [Reached(id, v) -> 0..MaxAdds] :
          /\ \A x \in Reached(id, v) :
               /\ p[x] \in Position(x, id)
               /\ RangeEnd(Removed(entries[x], p[x]), r, x, v[x], at[x])
          /\ entries' = [x \in Indexes |->
                           IF x \in Reached(id, v)
                             THEN Inserted(Removed(entries[x], p[x]), at[x],
                                           id)
                             ELSE entries[x]]
     /\ poisoned' = (\E x \in Live : Changed(x, id, v))
     /\ result' = IF \E x \in Live : Changed(x, id, v) THEN "panic" ELSE "ok"
     /\ UNCHANGED <<next_id, indexVars>>

-----------------------------------------------------------------------------
Next ==
  \/ \E x \in Indexes, u \in BOOLEAN : AddIndex(x, u)
  \/ \E x \in Indexes : DropIndex(x)
  \/ \E v \in Values : Add(v) \/ AddRefused(v)
  \/ \E id \in Ids : Remove(id) \/ Missing(id)
  \/ \E id \in Ids, v \in Values : Update(id, v) \/ UpdateStopped(id, v)

Spec == Init /\ [][Next]_vars

(* Index::get_ids, get_values, get_entries: the ids found for key k.       *)
get_entries(x, k) ==
  {entries[x][p] : p \in find_range(entries[x], rows, x, k)}

-----------------------------------------------------------------------------
TypeOK ==
  /\ next_id \in 0..MaxAdds
  /\ DOMAIN rows \subseteq Ids
  /\ \A id \in DOMAIN rows : id < next_id
  /\ \A id \in DOMAIN rows : rows[id] \in Values
  /\ handle \in [Indexes -> {"none", "live", "dropped"}]
  /\ unique \in [Indexes -> BOOLEAN]
  /\ entries \in [Indexes -> Seq(Ids)]
  /\ born_unique \in [Indexes -> BOOLEAN]
  /\ poisoned \in BOOLEAN
  /\ result \in {"ok", "AlreadyExists", "Nonexistent", "panic"}

(* While the table is usable, every live index lists every row exactly     *)
(* once and nothing else, in key order, whatever was added, updated or     *)
(* removed and whenever the index was added.                               *)
IndexMatchesRows ==
  ~poisoned =>
    \A x \in Live :
      /\ \A i \in 1..Len(entries[x]) : entries[x][i] \in DOMAIN rows
      /\ \A id \in DOMAIN rows : \E i \in 1..Len(entries[x]) :
                                   entries[x][i] = id
      /\ \A i, j \in 1..Len(entries[x]) :
           entries[x][i] = entries[x][j] => i = j
      /\ SortedBy(entries[x], rows, x)

(* A lookup returns exactly the rows with the key, wherever the binary     *)
(* search first hits.                                                      *)
LookupIsExact ==
  ~poisoned =>
    \A x \in Live, k \in Keys :
      LET wanted == {id \in DOMAIN rows : rows[id][x] = k}
      IN /\ get_entries(x, k) = wanted
         /\ \A hit \in Hits(entries[x], rows, x, k) :
              {entries[x][p] : p \in RunAround(entries[x], rows, x, k, hit)}
                = wanted

(* A unique index that was added over distinct keys never sees two rows    *)
(* with the same key.                                                      *)
UniqueStaysUnique ==
  ~poisoned =>
    \A x \in Live : unique[x] /\ born_unique[x] => Distinct(rows, x)

(* The lock is poisoned only by an update, and only by one that changes    *)
(* the key of a live index or that meets a unique index added over rows    *)
(* with equal keys.                                                        *)
PoisonedByUpdateOnly ==
  [][~poisoned /\ poisoned' =>
       /\ DOMAIN rows' = DOMAIN rows
       /\ \/ \E x \in Live, id \in DOMAIN rows : rows'[id][x] # rows[id][x]
          \/ \E x \in Live : unique[x] /\ ~born_unique[x]]_vars

(* No operation panics under the table's lock: the position(..).unwrap()   *)
(* and the assert_eq of index_store.rs hold.                               *)
NeverPoisoned == ~poisoned

=============================================================================
