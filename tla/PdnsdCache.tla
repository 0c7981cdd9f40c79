----------------------------- MODULE PdnsdCache -----------------------------
(***************************************************************************)
(* pdnsd's cache (cache.c with hash.c): entries by name, each negative as  *)
(* a whole or with sets of records by type; the list rrset_l of all sets   *)
(* that may be purged; the sizes; purging; the precedence and conflict     *)
(* rules of add_cache; lookups, which first test under a read lock and     *)
(* purge under a write lock; empty_cache, which yields its lock between    *)
(* hash buckets; and the disk cache written at exit and read at start.     *)
(*                                                                         *)
(* The operations are functions of the cache's state.  What runs under one *)
(* write lock is one step (PdnsdCacheLock models the lock).  Records are   *)
(* members of a small set; sizes are in units.                             *)
(***************************************************************************)
EXTENDS Integers, Sequences, FiniteSets, SequencesExt, FiniteSetsExt, Functions

CONSTANTS Names,        \* the names, in the order of the hash buckets
          Up,             \* function: the names above a name, the nearest first
          Star,           \* function: the name "*." below a name, or None
          Types,          \* sequence of RR types, in the order of their index
          Ext,            \* the types kept in rrext
          Data,           \* the data of records
          Answers,        \* what queries add
          Local,          \* sequence of the records the configuration adds at start
          Records,        \* the records pdnsd-ctl adds
          Negations,      \* the names and types pdnsd-ctl negates
          Min_ttl, Max_ttl, Neg_ttl, CACHE_LAT, \* global.min_ttl etc.
          Perm, MCSZ,     \* global.perm_cache*1024, the excess allowed in memory
          Selections,     \* what empty_cache is given: sequences of [rule, domain], or None
          MemoryFails,    \* whether an allocation may fail
          MaxTime,        \* bound: the clock
          MaxOps,         \* bound: answers added, orders of pdnsd-ctl and exits
          None

VARIABLES
  cache,    \* [ent, list, size, num, sort], see NewCache
  now,      \* time(NULL)
  lookup,   \* the name a lookup has still to purge, or None
  sweep,    \* empty_cache: [next (bucket, 0 if not running), sel (names)]
  ctl,      \* the record CTL_ADD has still to add, or None
  disk,     \* the disk cache: a sequence of [name, cent]
  up,       \* "up", or what the exit does next: "saving", "writing"
  doomed,   \* history: entries to be emptied that are there since empty_cache began
  ops,      \* counts what MaxOps bounds
  wrecked,  \* history: entries some allocation failed for
  aged      \* history: some record was invalidated

cachevars == <<cache, now, lookup, sweep, ctl, disk, up, ops, doomed, wrecked, aged>>
history == <<doomed, wrecked, aged>>

Indices == 1..Len(Types)
NameSet == {Names[k] : k \in 1..Len(Names)}

\* The indices in their order, as the loops over RRARR_LEN take them.
IndexSeq == [i \in Indices |-> i]

-----------------------------------------------------------------------------
(* Sets of records and entries.                                            *)

\* The flags of sets and entries: CF_ and DF_.
Flags == {"NEGATIVE", "LOCAL", "AUTH", "NOCACHE", "ADDITIONAL", "NOPURGE", "ROOTSERV", "WILD"}

rr_set_t == [ttl : Int, ts : Int, flags : SUBSET Flags, rrs : SUBSET Data]

\* An entry: its size, its number of sets; ttl and ts if it is negative; its sets, and
\* whether it has the array for those of types Ext; c_ns and c_soa.
dns_cent_t ==
  [cs : Int, num_rrs : Int, flags : SUBSET Flags, ttl : Int, ts : Int,
   rr : [Indices -> rr_set_t \cup {None}], rrext : BOOLEAN,
   ref : [{"NS", "SOA"} -> NameSet \cup {None}]]

\* The cache, see NewCache, and an entry of the disk cache.
cache_t ==
  [ent : [NameSet -> dns_cent_t \cup {None}], list : Seq(NameSet \X (Indices \cup {0})),
   size : Int, num : Int, sort : BOOLEAN]
disk_t ==
  [name : NameSet, flags : SUBSET Flags, ttl : Int, ts : Int,
   ref : [{"NS", "SOA"} -> NameSet \cup {None}], rr : [Indices -> rr_set_t \cup {None}]]

\* What is added: a name with its sets by type, without the time of arrival.
Inputs == Answers \cup Records \cup Negations \cup ToSet(Local)

IsInput(a) ==
  /\ a.name \in NameSet /\ a.flags \subseteq Flags /\ a.ttl \in Int
  /\ a.ref \in [{"NS", "SOA"} -> NameSet \cup {None}]
  /\ \A t \in DOMAIN a.sets :
       a.sets[t].ttl \in Int /\ a.sets[t].flags \subseteq Flags /\ a.sets[t].rrs \subseteq Data

ASSUME CacheAssumption ==
  /\ Names \in Seq(NameSet) /\ Names # <<>> /\ Types \in Seq(STRING) /\ Local \in Seq(Inputs)
  /\ Up \in [NameSet -> Seq(NameSet)] /\ Star \in [NameSet -> NameSet \cup {None}]
  /\ IsFiniteSet(Data) /\ None \notin NameSet \cup rr_set_t \cup dns_cent_t
  /\ {Min_ttl, Max_ttl, Neg_ttl, CACHE_LAT, Perm, MCSZ, MaxOps} \subseteq Int
  /\ MaxTime \in Nat \ {0}
  /\ \A a \in Inputs : IsInput(a)

\* rr_info: the class of a type; aliases, plain records and PTRs exclude one another.
rr_class == [t \in {"A", "AAAA", "SRV"} |-> "record"] @@ ("CNAME" :> "alias")
            @@ ("PTR" :> "ptr") @@ [t \in {"NS", "SOA", "MX", "TXT", "DS"} |-> "idem"]
Excludes(i, j) ==
  LET c == rr_class[Types[i]]
      d == rr_class[Types[j]]
  IN  c # d /\ c # "idem" /\ d # "idem"

\* sizeof(dns_cent_t), of rr_set_t, of rr_bucket_t and of the array rrext.
CentSize == 1
SetSize(r) == 1 + Cardinality(r.rrs)
ExtSize  == 1

IsNeg(c) == "NEGATIVE" \in c.flags

\* init_cent.
init_cent(flags, ttl, ts) ==
  [cs |-> CentSize, num_rrs |-> 0, flags |-> flags,
   ttl |-> IF "NEGATIVE" \in flags THEN ttl ELSE 0,
   ts  |-> IF "NEGATIVE" \in flags THEN ts ELSE 0,
   rr  |-> [i \in Indices |-> None], rrext |-> FALSE,
   ref |-> [t \in {"NS", "SOA"} |-> None]]          \* c_ns, c_soa

\* add_cent_rrset_by_index, on an entry outside the list.
add_cent_rrset_by_index(c, i, ttl, ts, flags) ==
  LET alloc == Types[i] \in Ext /\ ~ c.rrext
  IN  [c EXCEPT !.flags = @ \ {"NEGATIVE"}, !.ttl = 0, !.ts = 0,
                !.rr[i] = [ttl |-> ttl, ts |-> ts, flags |-> flags, rrs |-> {}],
                !.rrext = @ \/ alloc,
                !.cs = @ + 1 + (IF alloc THEN ExtSize ELSE 0),
                !.num_rrs = @ + 1]

\* add_cent_rr_int for each of rrs: records that the set does not have yet.
add_cent_rr_int(c, i, rrs) == [c EXCEPT !.rr[i].rrs = @ \cup rrs, !.cs = @ + Cardinality(rrs)]

\* add_cent_rr for each of rrs: local entries refuse other records, and a record that is
\* there already is left out.
add_cent_rr(c, i, flags, rrs) ==
  IF "LOCAL" \in c.flags /\ "LOCAL" \notin flags THEN c
  ELSE add_cent_rr_int(c, i, rrs \ c.rr[i].rrs)

\* A set without records is only its header.
AddSet(c, i, r) ==
  IF r = None THEN c
  ELSE add_cent_rr(add_cent_rrset_by_index(c, i, r.ttl, r.ts, r.flags), i, r.flags, r.rrs)

\* An entry put together set by set.
Assemble(flags, ttl, ts, ref, sets) ==
  FoldLeft(LAMBDA c, i : AddSet(c, i, sets[i]),
           [init_cent(flags, ttl, ts) EXCEPT !.ref = ref], IndexSeq)

\* Answer a, received at ts.
Build(a, ts) ==
  Assemble(a.flags, a.ttl, ts, a.ref,
           [i \in Indices |-> IF Types[i] \notin DOMAIN a.sets THEN None
              ELSE LET r == a.sets[Types[i]]
                   IN  [ttl |-> r.ttl, ts |-> ts, flags |-> r.flags, rrs |-> r.rrs]])

-----------------------------------------------------------------------------
(* The state of the cache: entries, rrset_l (<<name, index>>, 0 for an     *)
(* entry negative as a whole), cache_size, ent_num and insert_sort.        *)

NewCache == [ent |-> [n \in NameSet |-> None], list |-> <<>>, size |-> 0, num |-> 0,
             sort |-> TRUE]

Has(s, n) == s.ent[n] # None

\* timedout, and timedout_nxdom of an entry.
Later(a, b) == IF a < b THEN b ELSE a
timedout(x) == x.ts + Later(x.ttl, CACHE_LAT) < now

\* get_rrlent_ts.
Stamp(s, e) == IF e[2] = 0 THEN s.ent[e[1]].ts ELSE s.ent[e[1]].rr[e[2]].ts

\* insert_rrl: not for local ones; behind the last one that is not younger, or
\* at the end while the disk cache is read.
insert_rrl(s, n, i) ==
  LET e == <<n, i>>
      older == {k \in 1..Len(s.list) : Stamp(s, s.list[k]) <= Stamp(s, e)}
  IN  IF \/ "LOCAL" \in s.ent[n].flags
         \/ i # 0 /\ "LOCAL" \in s.ent[n].rr[i].flags
      THEN s
      ELSE [s EXCEPT !.list = IF s.sort THEN InsertAt(@, Max(older \cup {0}) + 1, e)
                                        ELSE Append(@, e)]

\* Sequence l without the elements of X.
Without(l, X) == FoldLeft(LAMBDA k, x : IF x \in X THEN k ELSE Append(k, x), <<>>, l)

remove_rrl(s, e) == [s EXCEPT !.list = Without(@, {e})]

\* sort_rrl: a stable merge sort by age.
sort_rrl(s) ==
  LET pos == [k \in 1..Len(s.list) |->
                1 + Cardinality({j \in 1..Len(s.list) :
                      \/ Stamp(s, s.list[j]) < Stamp(s, s.list[k])
                      \/ Stamp(s, s.list[j]) = Stamp(s, s.list[k]) /\ j < k})]
  IN  [s EXCEPT !.list = [p \in 1..Len(s.list) |->
                            s.list[CHOOSE k \in 1..Len(s.list) : pos[k] = p]]]

\* del_rrset and del_cent_rrset_by_index.  The caller accounts for cache_size.
del_rrset(c, i) == [c EXCEPT !.rr[i] = None, !.num_rrs = @ - 1,
                             !.cs = @ - SetSize(c.rr[i]), !.flags = @ \ {"AUTH"}]
del_cent_rrset_by_index(s, n, i) ==
  IF IsNeg(s.ent[n]) \/ s.ent[n].rr[i] = None THEN s
  ELSE [remove_rrl(s, <<n, i>>) EXCEPT !.ent[n] = del_rrset(@, i)]

\* The same with cache_size -= its result.
DelRRset(s, n, i) ==
  LET t == del_cent_rrset_by_index(s, n, i)
  IN  [t EXCEPT !.size = @ - (s.ent[n].cs - t.ent[n].cs)]

\* del_cent and del_dns_hash (del_cache_ent, del_cache).
del_cent(s, n) ==
  [s EXCEPT !.ent[n] = None, !.size = @ - s.ent[n].cs, !.num = @ - 1,
            !.list = Without(@, {n} \X (Indices \cup {0}))]

-----------------------------------------------------------------------------
(* Purging.                                                                *)

Purgeable(r) == r # None /\ ~ ({"NOPURGE", "LOCAL"} \cap r.flags # {}) /\ timedout(r)

purge_rrset(s, n, i) ==
  IF ~ IsNeg(s.ent[n]) /\ Purgeable(s.ent[n].rr[i]) THEN DelRRset(s, n, i) ELSE s

\* rrext goes if it became empty.
WithoutExt(c) == [c EXCEPT !.rrext = FALSE, !.cs = @ - ExtSize]
FreeRrext(s, n) ==
  IF s.ent[n].rrext /\ \A i \in Indices : Types[i] \in Ext => s.ent[n].rr[i] = None
  THEN [s EXCEPT !.ent[n] = WithoutExt(@), !.size = @ - ExtSize]
  ELSE s

PurgeSets(s, n) == FoldLeft(LAMBDA u, i : purge_rrset(u, n, i), s, IndexSeq)

purge_all_rrsets(s, n) == FreeRrext(PurgeSets(s, n), n)

\* A reference to NS or SOA records that are not there any more or timed out.
StaleRef(s, n, t) ==
  LET o == s.ent[n].ref[t]
      r == IF o = None \/ ~ Has(s, o) \/ IsNeg(s.ent[o]) THEN None
           ELSE LET k == {i \in Indices : Types[i] = t}
                IN  IF k = {} THEN None ELSE s.ent[o].rr[CHOOSE i \in k : TRUE]
  IN  o # None /\ (r = None \/ r.rrs = {} \/ ("LOCAL" \notin r.flags /\ timedout(r)))

\* What is left of entry n is nothing: no sets, and not negative or timed out so.
\* num_rrs is asked by purge_cache, the sets are counted by purge_cent.
Exhausted(c, number) ==
  number = 0 /\ (~ IsNeg(c) \/ ("LOCAL" \notin c.flags /\ timedout(c)))

NumSets(c) == Cardinality({i \in Indices : c.rr[i] # None})

\* An exhausted entry is deleted if asked for; else stale references go.
PurgeRest(s, n, delete) ==
  LET c == s.ent[n]
  IN  IF delete /\ Exhausted(c, NumSets(c)) THEN del_cent(s, n)
      ELSE IF "LOCAL" \in c.flags THEN s
      ELSE [s EXCEPT !.ent[n].ref =
              [r \in DOMAIN c.ref |-> IF StaleRef(s, n, r) THEN None ELSE c.ref[r]]]

\* purge_cent with test = 0.
purge_cent(s, n, delete) == PurgeRest(purge_all_rrsets(s, n), n, delete)

\* Mutant: the size of the deleted sets is not taken from cache_size.
PurgeOldestUncounted(s, e) ==
  LET t == del_cent_rrset_by_index(s, e[1], IF e[2] = 0 THEN 1 ELSE e[2])
  IN  IF t.ent[e[1]].num_rrs = 0 THEN del_cent(t, e[1]) ELSE t

\* Local sets and entries are passed over.
IsLocal(s, e) ==
  \/ "LOCAL" \in s.ent[e[1]].flags
  \/ e[2] # 0 /\ "LOCAL" \in s.ent[e[1]].rr[e[2]].flags

\* One turn of purge_cache's second loop: the set goes whatever its flags; an
\* entry without sets, negative ones included, goes too.
PurgeOldest(s, e) ==
  LET t == IF e[2] = 0 THEN s ELSE DelRRset(s, e[1], e[2])
  IN  IF t.ent[e[1]].num_rrs = 0 THEN del_cent(t, e[1]) ELSE t

\* One turn of its first loop: only what timed out.
PurgeTimedOut(s, e) ==
  LET t == IF e[2] = 0 THEN s ELSE purge_rrset(s, e[1], e[2])
  IN  IF Exhausted(t.ent[e[1]], t.ent[e[1]].num_rrs) THEN del_cent(t, e[1]) ELSE t

\* sort_rrl where insertion did not sort, and insertion sort from now on.
SortNow(s) == IF s.sort THEN s ELSE [sort_rrl(s) EXCEPT !.sort = TRUE]

\* The second loop, over all of the list, while the cache is too large.
OldestTurn(s, e, sz) == IF s.size <= sz \/ IsLocal(s, e) THEN s ELSE PurgeOldest(s, e)
PurgeAll(s, sz) == FoldLeft(LAMBDA u, e : OldestTurn(u, e, sz), s, s.list)

\* What the first loop did not do, the second does.
PurgeExcess(s, sz) == IF s.size <= sz THEN s ELSE PurgeAll(SortNow(s), sz)

\* The first loop; lazily it stops when the cache is small enough.
TimedOutTurn(s, e, sz, lazy) ==
  IF (lazy /\ s.size <= sz) \/ IsLocal(s, e) THEN s ELSE PurgeTimedOut(s, e)
PurgeAged(s, sz, lazy) == FoldLeft(LAMBDA u, e : TimedOutTurn(u, e, sz, lazy), s, s.list)

\* purge_cache: from the oldest on, first what timed out, then, while the cache is too
\* large, everything.
purge_cache(s, sz, lazy) == PurgeExcess(PurgeAged(s, sz, lazy), sz)

-----------------------------------------------------------------------------
(* Adding.                                                                 *)

\* adjust_ttl, adjust_dom_ttl: nocache is a ttl of 0, others are put into bounds.
Adjust(x, negative) ==
  LET low == IF negative /\ Neg_ttl < Min_ttl THEN Neg_ttl ELSE Min_ttl
  IN  IF "NOCACHE" \in x.flags
      THEN [x EXCEPT !.flags = @ \ {"NOCACHE"}, !.ttl = 0]
      ELSE [x EXCEPT !.ttl = IF @ < low THEN low ELSE IF @ > Max_ttl THEN Max_ttl ELSE @]
adjust_ttl(r)     == Adjust(r, "NEGATIVE" \in r.flags)
adjust_dom_ttl(c) == Adjust(c, TRUE)

\* Mutant: sets that are negative are taken for conflicts the other way round.
ConflictsNegative(c, i) ==
  {j \in Indices : ~ IsNeg(c) /\ c.rr[j] # None /\ "NEGATIVE" \in c.rr[j].flags
                   /\ Excludes(i, j)}

\* The sets that cannot be together with one of type i.
Conflicts(c, i) ==
  {j \in Indices : ~ IsNeg(c) /\ c.rr[j] # None /\ "NEGATIVE" \notin c.rr[j].flags
                   /\ Excludes(i, j)}

\* The mean time the sets cf have left.
MeanLeft(c, cf) ==
  MapThenSumSet(LAMBDA j : Later(0, c.rr[j].ttl + c.rr[j].ts - now), cf) \div Cardinality(cf)

\* Whether cr_check_add lets set r of type i into entry c: local ones always, others
\* if nothing local is in the way and r's ttl is above the mean time the
\* conflicting ones have left.
cr_check_add(c, i, r) ==
  LET cf == Conflicts(c, i)
  IN  \/ {"NEGATIVE", "LOCAL"} \cap r.flags # {}
      \/ /\ "LOCAL" \notin c.flags
         /\ \A j \in cf : "LOCAL" \notin c.rr[j].flags
         /\ cf # {} => r.ttl > MeanLeft(c, cf)

\* The sets cf deleted.
DelAll(s, n, cf) ==
  FoldLeft(LAMBDA u, j : IF j \in cf THEN del_cent_rrset_by_index(u, n, j) ELSE u, s, IndexSeq)

\* The conflicting sets it then deletes.
Resolve(s, n, i, r) ==
  IF "NEGATIVE" \in r.flags THEN s ELSE DelAll(s, n, Conflicts(s.ent[n], i))

\* Mutant: local sets do not precede.
PrecedesAdditional(old, new) ==
  old # None /\ "ADDITIONAL" \in new.flags /\ "ADDITIONAL" \notin old.flags /\ ~ timedout(old)

\* The old set stays: local before others, answers before additional records, those
\* of root servers before additional ones of others.
Precedes(old, new) ==
  /\ old # None
  /\ \/ "LOCAL" \notin new.flags /\ "LOCAL" \in old.flags
     \/ /\ "ADDITIONAL" \in new.flags
        /\ \/ "ADDITIONAL" \notin old.flags
           \/ "ROOTSERV" \notin new.flags /\ "ROOTSERV" \in old.flags
        /\ ~ timedout(old)

\* The set of type i in entry n, put there by add_cent_rrset_by_index (which ends a
\* negative entry) and add_cent_rr_int, then adjusted and listed.
PutSet(s, n, i, r) ==
  LET t == IF IsNeg(s.ent[n]) THEN remove_rrl(s, <<n, 0>>) ELSE s
      e == add_cent_rrset_by_index(t.ent[n], i, r.ttl, r.ts, r.flags)
      f == add_cent_rr_int(e, i, r.rrs)
  IN  insert_rrl([t EXCEPT !.ent[n] = [f EXCEPT !.rr[i] = adjust_ttl(@)]], n, i)

\* An allocation for the set failed: it goes again.  The array rrext stays if it was
\* there before, or was allocated first (keep).
Abandon(s, n, i, keep) ==
  LET t == del_cent_rrset_by_index(s, n, i)
  IN  IF keep \/ ~ t.ent[n].rrext THEN t
      ELSE [t EXCEPT !.ent[n] = WithoutExt(@)]

\* Set r takes the place of those it conflicts with, if it is let in; s is the cache
\* without the old set of its type.  An allocation for set fail.at may fail.
AdmitSet(s, n, i, r, fail) ==
  IF ~ cr_check_add(s.ent[n], i, r) THEN [s |-> s, failed |-> FALSE]
  ELSE LET put == PutSet(Resolve(s, n, i, r), n, i, r)
       IN  IF fail.at # i THEN [s |-> put, failed |-> FALSE]
           ELSE [s |-> Abandon(put, n, i, fail.ext \/ s.ent[n].rrext), failed |-> TRUE]

\* One set of the new entry against the one that is there.  "continue" if it is
\* refused, also after the old set of its type is deleted.
ReplaceSet(a, n, c, i, fail) ==
  LET old == IF IsNeg(a.s.ent[n]) THEN None ELSE a.s.ent[n].rr[i]
  IN  IF a.failed \/ c.rr[i] = None \/ Precedes(old, c.rr[i]) THEN a
      ELSE AdmitSet(del_cent_rrset_by_index(a.s, n, i), n, i, c.rr[i], fail)

\* The new reference counts if it is nearer to the name.
NewRef(old, new) == IF new # None /\ (old = None \/ Len(Up[old]) < Len(Up[new]))
                    THEN new ELSE old

\* The flags and references of the new entry, once all its sets are in.
Flagged(d, c) == [d EXCEPT !.flags = @ \cup (c.flags \cap {"AUTH", "WILD"}),
                           !.ref = [x \in DOMAIN c.ref |-> NewRef(@[x], c.ref[x])]]
AddFlags(a, n, c) ==
  IF a.failed THEN a ELSE [s |-> [a.s EXCEPT !.ent[n] = Flagged(@, c)], failed |-> FALSE]

\* The size of an entry goes out of cache_size while it is changed.
SizeOut(s, n) == [s EXCEPT !.size = @ - s.ent[n].cs]
SizeIn(s, n)  == [s EXCEPT !.size = @ + s.ent[n].cs]

\* add_cache, the name being there: the sets one by one.
ReplaceSets(s, n, c, fail) ==
  FoldLeft(LAMBDA a, i : ReplaceSet(a, n, c, i, fail), [s |-> s, failed |-> FALSE], IndexSeq)

AddToEntry(s, n, c, fail) ==
  LET r == AddFlags(ReplaceSets(SizeOut(purge_cent(s, n, FALSE), n), n, c, fail), n, c)
  IN  [s |-> SizeIn(r.s, n), failed |-> r.failed]

\* Its sets are listed.
ListSets(s, n) ==
  FoldLeft(LAMBDA u, i : IF s.ent[n].rr[i] = None THEN u ELSE insert_rrl(u, n, i), s, IndexSeq)

\* add_cache, the name being new.
AddEntry(s, n, c) ==
  LET e == IF IsNeg(c) THEN adjust_dom_ttl(c)
           ELSE [c EXCEPT !.rr = [i \in Indices |-> IF c.rr[i] = None THEN None
                                                    ELSE adjust_ttl(c.rr[i])]]
      t == [s EXCEPT !.ent[n] = e, !.size = @ + e.cs, !.num = @ + 1]
  IN  IF IsNeg(e) THEN insert_rrl(t, n, 0) ELSE ListSets(t, n)

\* An entry that says nothing.
IsEmpty(c) == c.num_rrs = 0 /\ ~ IsNeg(c)

HasLocalSet(c) == \E i \in Indices : c.rr[i] # None /\ "LOCAL" \in c.rr[i].flags

NoFail == [at |-> 0, ext |-> FALSE]

\* The entry is put in; a failed allocation leaves a new entry out, an existing one with
\* the sets treated so far.
PutEntry(s, n, c, fail) ==
  IF Has(s, n) THEN AddToEntry(s, n, c, fail)
  ELSE IF IsEmpty(c) THEN [s |-> s, failed |-> FALSE]
  ELSE IF fail # NoFail THEN [s |-> s, failed |-> TRUE]
  ELSE [s |-> AddEntry(s, n, c), failed |-> FALSE]

\* At its end add_cache purges, unless an allocation failed.
PurgeAfter(a) ==
  IF a.failed THEN a ELSE [s |-> purge_cache(a.s, Perm + MCSZ, TRUE), failed |-> FALSE]

\* add_cache.  A negative entry takes the place of one without local records.
add_cache(s, n, c, fail) ==
  IF Has(s, n) /\ IsNeg(c) /\ HasLocalSet(s.ent[n])
  THEN [s |-> s, failed |-> FALSE]             \* do not clobber local records
  ELSE PurgeAfter(PutEntry(IF Has(s, n) /\ IsNeg(c) THEN del_cent(s, n) ELSE s, n, c, fail))

-----------------------------------------------------------------------------
(* The disk cache.                                                         *)

IsListed(r) == r # None /\ "LOCAL" \notin r.flags

\* write_disk_cache: the entries with something that is not local, without their
\* local sets, in the order of the hash.
Worth(s, n) ==
  Has(s, n) /\ IF IsNeg(s.ent[n]) THEN "LOCAL" \notin s.ent[n].flags
               ELSE \E i \in Indices : IsListed(s.ent[n].rr[i])

DiskEntry(s, n) ==
  LET c == s.ent[n]
  IN  [name |-> n, flags |-> c.flags, ttl |-> c.ttl, ts |-> c.ts, ref |-> c.ref,
       rr |-> [i \in Indices |-> IF IsListed(c.rr[i]) THEN c.rr[i] ELSE None]]

ToDisk(s) ==
  LET order == Without(Names, {n \in NameSet : ~ Worth(s, n)})
  IN  [k \in 1..Len(order) |-> DiskEntry(s, order[k])]

\* read_disk_cache: add_cache entry by entry, without insertion sort, which the first
\* purge that needs it or the end of the file turns on again.
ReadEntry(s, e) == add_cache(s, e.name, Assemble(e.flags, e.ttl, e.ts, e.ref, e.rr), NoFail).s

ReadAll(s, file) == FoldLeft(LAMBDA u, e : ReadEntry(u, e), s, file)
FromDisk(s, file) == SortNow(ReadAll([s EXCEPT !.sort = FALSE], file))

Told(c, f) == [c EXCEPT !.flags = @ \cup {f}]
set_cent_flags(s, n, f) == [s EXCEPT !.ent[n] = Told(@, f)]

\* The name that a wildcard is for, "*." removed, or None.
Base(n) == IF \E m \in NameSet : Star[m] = n THEN CHOOSE m \in NameSet : Star[m] = n ELSE None

\* A record of the configuration.  A wildcard is told by DF_WILD of the name it is for;
\* where that is not there, the parser has stopped.
AddLocal(s, a) ==
  IF Base(a.name) = None THEN add_cache(s, a.name, Build(a, 0), NoFail).s
  ELSE IF Has(s, Base(a.name))
       THEN add_cache(set_cent_flags(s, Base(a.name), "WILD"), a.name, Build(a, 0), NoFail).s
       ELSE s

AddLocals(s) == FoldLeft(LAMBDA u, a : AddLocal(u, a), s, Local)

\* The start: the records of the configuration, then the disk cache.
Start(file) == FromDisk(AddLocals(NewCache), file)

-----------------------------------------------------------------------------
(* The actions.                                                            *)

CacheInit ==
  /\ now = 1 /\ disk = <<>> /\ cache = Start(disk)
  /\ lookup = None /\ sweep = [next |-> 0, sel |-> {}] /\ ctl = None /\ up = "up"
  /\ ops = 0 /\ doomed = {} /\ wrecked = {} /\ aged = FALSE

\* Entries that are gone are not doomed any more.
Forget(s) ==
  /\ doomed'  = {n \in doomed : Has(s, n)}
  /\ wrecked' = {n \in wrecked : Has(s, n)}
  /\ UNCHANGED aged

Tick == now < MaxTime /\ now' = now + 1
        /\ UNCHANGED <<ops, cache, lookup, sweep, ctl, disk, up, history>>

Lives == up # "down"
Operation == ops < MaxOps /\ ops' = ops + 1

Add(a, ts, fail) ==
  /\ \E r \in {add_cache(cache, a.name, Build(a, ts), fail)} :
       /\ cache' = r.s
       /\ doomed' = {n \in doomed : Has(r.s, n) /\ ~ (n = a.name /\ "NEGATIVE" \in a.flags)}
       /\ wrecked' = {n \in wrecked : Has(r.s, n)}
                     \cup (IF r.failed /\ Has(r.s, a.name) THEN {a.name} ELSE {})
  /\ UNCHANGED <<aged, now, lookup, sweep, disk, up>>

\* The allocations that may fail for a, or none.  Bound: none fails while an entry is
\* there that one has failed for.
Failures(a) ==
  {NoFail} \cup
  (IF MemoryFails /\ wrecked = {}
   THEN {[at |-> i, ext |-> e] : i \in {k \in Indices : Types[k] \in DOMAIN a.sets},
                                 e \in {FALSE, DOMAIN a.sets \cap Ext # {}}}
   ELSE {})

\* The answer of a query that began up to one tick ago.
AddAnswer ==
  /\ Lives /\ Operation
  /\ \E a \in Answers, ts \in {now, now - 1} : \E fail \in Failures(a) : Add(a, ts, fail)
  /\ UNCHANGED ctl

-----------------------------------------------------------------------------
(* The thread of the control socket (status_thread): one command of        *)
(* pdnsd-ctl at a time, beside the threads that answer queries.            *)

Command == Lives /\ Operation /\ ctl = None /\ sweep.next = 0

\* CTL_ADD.  The name a wildcard is for is told first, under a lock of its own.
CTL_ADD(a) ==
  /\ Command
  /\ IF Base(a.name) = None THEN (\E fail \in Failures(a) : Add(a, 0, fail)) /\ UNCHANGED ctl
     ELSE /\ Has(cache, Base(a.name))
          /\ cache' = set_cent_flags(cache, Base(a.name), "WILD") /\ ctl' = a
          /\ UNCHANGED <<now, lookup, sweep, disk, up, history>>

\* The wildcard itself, whatever became of that name meanwhile.
AddWildcard ==
  /\ Lives /\ ctl # None /\ ctl' = None
  /\ \E fail \in Failures(ctl) : Add(ctl, 0, fail)
  /\ UNCHANGED ops

\* CTL_NEG: a name as a whole, or a type.
CTL_NEG(a) == Command /\ (\E fail \in Failures(a) : Add(a, 0, fail)) /\ UNCHANGED ctl

del_cache(n) ==
  /\ Command /\ Has(cache, n)
  /\ cache' = del_cent(cache, n) /\ Forget(cache')
  /\ UNCHANGED <<now, lookup, sweep, ctl, disk, up>>

Invalid(x) == [x EXCEPT !.ts = 0, !.flags = @ \ {"AUTH"}]
InvalidEntry(c) ==
  [Invalid(c) EXCEPT !.rr = [i \in Indices |-> IF c.rr[i] = None THEN None ELSE Invalid(c.rr[i])]]
invalidate_record(n) ==
  /\ Command /\ Has(cache, n)
  /\ cache' = [cache EXCEPT !.ent[n] = InvalidEntry(@)]
  /\ aged' = TRUE
  /\ UNCHANGED <<now, lookup, sweep, ctl, disk, up, doomed, wrecked>>

\* CTL_RECORD.
CTL_RECORD == \E n \in NameSet : del_cache(n) \/ invalidate_record(n)

\* The place of the nearest entry above a name, 0 if there is none.
Above(s, n) == SelectInSeq(Up[n], LAMBDA m : Has(s, m))

\* The entry a lookup uses: the name's own; else, if asked for, the nearest above
\* it decides: negative, with wildcards, or local.
Found(s, n, wild) ==
  LET m == Up[n][Above(s, n)]
  IN  IF Has(s, n) THEN n
      ELSE IF ~ wild \/ Above(s, n) = 0 THEN None
      ELSE IF IsNeg(s.ent[m]) THEN m
      ELSE IF "WILD" \in s.ent[m].flags
           THEN IF Star[m] # None /\ Has(s, Star[m]) THEN Star[m] ELSE None
      ELSE IF "LOCAL" \in s.ent[m].flags THEN m ELSE None

\* lookup_cache, with read access only: something is to be purged.
LookupTest(n, wild) ==
  /\ Lives /\ lookup = None
  /\ LET m == Found(cache, n, wild)
     IN  m # None /\ purge_cent(cache, m, TRUE) # cache
  /\ lookup' = [name |-> n, wild |-> wild]
  /\ UNCHANGED <<ops, cache, now, sweep, ctl, disk, up, history>>

\* With write access, after anything others did: the entry is looked up again.
LookupPurge ==
  /\ Lives /\ lookup # None
  /\ LET m == Found(cache, lookup.name, lookup.wild)
     IN  cache' = IF m = None THEN cache ELSE purge_cent(cache, m, TRUE)
  /\ Forget(cache') /\ lookup' = None
  /\ UNCHANGED <<ops, now, sweep, ctl, disk, up>>

\* free_dns_hash_selected: the first rule for a domain the name is in decides, by default
\* it stays; without rules all names go.
Selected(sla) ==
  {n \in NameSet :
     \/ sla = None
     \/ LET k == SelectInSeq(sla, LAMBDA r : r.domain = n \/ r.domain \in ToSet(Up[n]))
        IN  k # 0 /\ sla[k].rule = "include"}

\* empty_cache begins.
EmptyStart(sel) ==
  /\ up = "up" /\ Command
  /\ sweep' = [next |-> 1, sel |-> sel]
  /\ doomed' = {n \in sel : Has(cache, n)}
  /\ UNCHANGED <<cache, now, lookup, ctl, disk, up, wrecked, aged>>

CTL_EMPTY(sla) == EmptyStart(Selected(sla))

\* Mutant: the loop ends before the last bucket.
EmptyBucketEarly ==
  /\ Lives /\ sweep.next # 0
  /\ LET n == Names[sweep.next]
     IN  cache' = IF n \in sweep.sel /\ Has(cache, n) THEN del_cent(cache, n) ELSE cache
  /\ Forget(cache')
  /\ sweep' = IF sweep.next + 1 < Len(Names) THEN [sweep EXCEPT !.next = @ + 1]
                                             ELSE [next |-> 0, sel |-> {}]
  /\ UNCHANGED <<ops, now, lookup, ctl, disk, up>>

\* free_dns_hash_bucket, free_dns_hash_selected; then the lock is yielded.
EmptyBucket ==
  /\ Lives /\ sweep.next # 0
  /\ LET n == Names[sweep.next]
     IN  cache' = IF n \in sweep.sel /\ Has(cache, n) THEN del_cent(cache, n) ELSE cache
  /\ Forget(cache')
  /\ sweep' = IF sweep.next < Len(Names) THEN [sweep EXCEPT !.next = @ + 1]
                                         ELSE [next |-> 0, sel |-> {}]
  /\ UNCHANGED <<ops, now, lookup, ctl, disk, up>>

\* The exit: the cache is purged to its permanent size, or the lock failed and
\* nothing is written.
ExitPurge ==
  /\ up = "up" /\ Operation
  /\ \/ cache' = purge_cache(cache, Perm, FALSE) /\ up' = "writing" /\ Forget(cache')
     \/ UNCHANGED <<cache, history>> /\ up' = "down"
  /\ UNCHANGED <<now, lookup, sweep, ctl, disk>>

\* The file is written, to its end or up to an error or the end of the process; or
\* not opened.
WriteDisk ==
  /\ up = "writing" /\ up' = "down"
  /\ \/ \E k \in 0..Len(ToDisk(cache)) : disk' = SubSeq(ToDisk(cache), 1, k)
     \/ disk' = disk
  /\ UNCHANGED <<ops, cache, now, lookup, sweep, ctl, history>>

\* The process ends otherwise: the file stays as it was.
Crash ==
  /\ up = "up" /\ Operation /\ up' = "down"
  /\ UNCHANGED <<cache, now, lookup, sweep, ctl, disk, history>>

Restart ==
  /\ up = "down" /\ up' = "up"
  /\ cache' = Start(disk)
  /\ lookup' = None /\ sweep' = [next |-> 0, sel |-> {}] /\ ctl' = None
  /\ doomed' = {} /\ wrecked' = {} /\ aged' = FALSE
  /\ UNCHANGED <<ops, now, disk>>

CacheNext ==
  \/ Tick \/ AddAnswer \/ LookupPurge
  \/ \E n \in NameSet : LookupTest(n, TRUE) \/ LookupTest(n, FALSE)
  \/ \E a \in Records : CTL_ADD(a)
  \/ \E a \in Negations : CTL_NEG(a)
  \/ \E sla \in Selections : CTL_EMPTY(sla)
  \/ AddWildcard \/ EmptyBucket \/ CTL_RECORD
  \/ ExitPurge \/ WriteDisk \/ Crash \/ Restart

CacheSpec == CacheInit /\ [][CacheNext]_cachevars

-----------------------------------------------------------------------------
(* Properties.                                                             *)

\* Type correctness.
CacheTypeOK ==
  /\ cache \in cache_t /\ cache.size >= 0 /\ cache.num >= 0 /\ cache.sort
  /\ now \in 1..MaxTime /\ ops \in Int /\ up \in {"up", "writing", "down"}
  /\ lookup \in [name : NameSet, wild : BOOLEAN] \cup {None}
  /\ sweep \in [next : 0..Len(Names), sel : SUBSET NameSet]
  /\ ctl \in Records \cup {None} /\ disk \in Seq(disk_t)
  /\ doomed \subseteq NameSet /\ wrecked \subseteq NameSet /\ aged \in BOOLEAN

\* What an entry takes, with its sets, and what the cache takes.
Sizes(c)  == [i \in Indices |-> IF c.rr[i] = None THEN 0 ELSE SetSize(c.rr[i])]
Weight(c) == CentSize + (IF c.rrext THEN ExtSize ELSE 0) + SumFunction(Sizes(c))
Taken(s)  == [n \in NameSet |-> IF Has(s, n) THEN s.ent[n].cs ELSE 0]

\* The sizes add up: what entries and the cache count, step by step through every
\* replacement, conflict, purge and failed allocation, is what is there.
SizesExact(s) ==
  /\ s.size = SumFunction(Taken(s))
  /\ s.num = Cardinality({n \in NameSet : Has(s, n)})
  /\ \A n \in NameSet : Has(s, n) =>
       /\ s.ent[n].num_rrs = NumSets(s.ent[n]) /\ s.ent[n].cs = Weight(s.ent[n])
       /\ IsNeg(s.ent[n]) => s.ent[n].num_rrs = 0

\* The sets that may be purged, and the entries that are negative as a whole.
ToBeListed(s) ==
  {e \in NameSet \X (Indices \cup {0}) :
     /\ Has(s, e[1]) /\ "LOCAL" \notin s.ent[e[1]].flags
     /\ IF e[2] = 0 THEN IsNeg(s.ent[e[1]]) ELSE IsListed(s.ent[e[1]].rr[e[2]])}

\* rrset_l is the purgeable part of the cache, each once: nothing freed is on it,
\* nothing that is not local is off it.
ListExact(s) ==
  /\ \A j, k \in 1..Len(s.list) : s.list[j] = s.list[k] => j = k
  /\ {s.list[k] : k \in 1..Len(s.list)} = ToBeListed(s)

\* The list "is sorted by age".
ListSorted(s) ==
  \A j, k \in 1..Len(s.list) : j < k => Stamp(s, s.list[j]) <= Stamp(s, s.list[k])

\* An answer that says nothing, not even that a name or a type is not there.
SaysNothing(a) == DOMAIN a.sets \cap ToSet(Types) = {} /\ "NEGATIVE" \notin a.flags

\* No entry is out of purge_cache's reach: without sets and not negative, it would be
\* on no list ("purge_cache() will not be able to get rid of it").  Only a failed
\* allocation leaves one, a set that add_cache deletes from a local entry for another
\* that cr_check_add then refuses, or an answer that says nothing about a name whose
\* sets it purges.
NoEmptyEntry(s, failed) ==
  \A n \in NameSet : Has(s, n) /\ IsEmpty(s.ent[n]) =>
    \/ n \in failed \/ "LOCAL" \in s.ent[n].flags
    \/ \E a \in Inputs : a.name = n /\ SaysNothing(a)

\* The cache is at most as large as it may be, as far as it is not local records.
SizeBounded(s) == s.size > Perm + MCSZ => s.list = <<>>

\* The cache's books are right after every add_cache, purge, restart and failure: sizes
\* and list agree with the table, the list is by age (also after the disk cache was read
\* in any order, and until a record is invalidated, whose time stamp changes and whose
\* place does not), and purge_cache, which works from them, reaches everything and keeps
\* the bound, unless an allocation failed.
Accounted ==
  /\ CacheTypeOK /\ SizesExact(cache) /\ ListExact(cache)
  /\ aged \/ ListSorted(cache)
  /\ NoEmptyEntry(cache, wrecked)
  /\ wrecked # {} \/ SizeBounded(cache)

\* Whether a says that there are records of type t.
Says(a, t) == t \in DOMAIN a.sets /\ "NEGATIVE" \notin a.sets[t].flags

\* Records that exclude one another are not in one entry together, though answers,
\* local records and the disk cache come in any order; unless they came together, which
\* add_cache takes as it is.
NoConflict ==
  \A n \in NameSet : Has(cache, n) =>
    \A i, j \in Indices :
      /\ cache.ent[n].rr[i] # None /\ cache.ent[n].rr[j] # None /\ Excludes(i, j)
      /\ "NEGATIVE" \notin cache.ent[n].rr[i].flags \cup cache.ent[n].rr[j].flags
      => \E a \in Inputs : a.name = n /\ Says(a, Types[i]) /\ Says(a, Types[j])

LocalSets(s) ==
  {e \in NameSet \X Indices : Has(s, e[1]) /\ s.ent[e[1]].rr[e[2]] # None
                              /\ "LOCAL" \in s.ent[e[1]].rr[e[2]].flags}

\* While pdnsd runs, a local set goes only by pdnsd-ctl (deleted, emptied, or for
\* another local one of its name) or by an allocation that failed.
LocalKept ==
  [][\/ up = "down" \/ EmptyBucket \/ \E n \in NameSet : del_cache(n)
     \/ \A e \in LocalSets(cache) \ LocalSets(cache') :
          e[1] \in wrecked' \/ \E f \in LocalSets(cache') : f[1] = e[1]]_cachevars

\* empty_cache empties: what was there when it began is gone when it ends, whatever
\* ran while it had yielded its lock.
EmptyComplete == sweep.next = 0 => doomed = {}
=============================================================================
