------------------------------ MODULE RateLimit ------------------------------
(***************************************************************************)
(* The rate limiter of the enrollment route: one bucket of tokens for all  *)
(* and one for each source, refilled by whole intervals when a request     *)
(* looks at them (crates/azihsm-ca/src/http.rs:788).  The reference is a   *)
(* bucket that is given a token at each interval since it was made.        *)
(***************************************************************************)
EXTENDS Integers, FiniteSets, FiniteSetsExt

CONSTANTS
  Sources,                        \* addresses of clients
  Absent,                         \* no entry in the table
  GlobalCap, GlobalInterval,
  SourceCap, SourceInterval,
  TableMax,                       \* the table is pruned above so many entries
  PruneAge,                       \* of what it has not refilled for so long
  Horizon                         \* bound: where the clock of the model stops

ASSUME Parameters ==
  /\ {GlobalCap, SourceCap, TableMax, Horizon} \subseteq Nat
  /\ {GlobalInterval, SourceInterval, PruneAge} \subseteq Nat \ {0}
ASSUME Names == "all" \notin Sources /\ Absent \notin [tokens : Nat, at : Nat]

\* A bucket is full again before it is old: 3 tokens at 6 seconds, pruned at 60.
ASSUME OldIsFull == SourceCap * SourceInterval <= PruneAge

VARIABLES
  now,
  global,   \* the bucket for all
  table,    \* the buckets of the sources
  ideal     \* history: the tokens of the reference buckets, and their birth

vars == <<now, global, table, ideal>>

Everyone == Sources \cup {"all"}
Cap(x) == IF x = "all" THEN GlobalCap ELSE SourceCap
Interval(x) == IF x = "all" THEN GlobalInterval ELSE SourceInterval

Init ==
  /\ now = 0 /\ global = [tokens |-> GlobalCap, at |-> 0]
  /\ table = [s \in Sources |-> Absent]
  /\ ideal = [x \in Everyone |-> [tokens |-> Cap(x), born |-> 0]]

\* Variant: the time since the last whole interval is forgotten.
RefillRestarted(bucket, interval, cap) ==
  LET intervals == (now - bucket.at) \div interval
  IN IF intervals = 0 THEN bucket
     ELSE [tokens |-> Min({cap, bucket.tokens + intervals}), at |-> now]

Refill(bucket, interval, cap) ==
  LET elapsed == now - bucket.at
      intervals == elapsed \div interval
  IN IF intervals = 0 THEN bucket
     ELSE [tokens |-> Min({cap, bucket.tokens + Min({intervals, cap})}),
           at |-> now - (elapsed % interval)]

Spend(bucket) == [bucket EXCEPT !.tokens = @ - 1]

\* Variant: what is new is pruned instead of what is old.
PruneNew(entries) ==
  [s \in Sources |-> IF entries[s] # Absent /\ now - entries[s].at < PruneAge
                     THEN Absent ELSE entries[s]]

Prune(entries) ==
  [s \in Sources |-> IF entries[s] # Absent /\ now - entries[s].at >= PruneAge
                     THEN Absent ELSE entries[s]]

\* A new entry is full; so is its reference, from now on.
Entry(s) == IF table[s] = Absent THEN [tokens |-> SourceCap, at |-> now] ELSE table[s]
Reference(s) ==
  IF table[s] = Absent THEN [tokens |-> SourceCap, born |-> now] ELSE ideal[s]

\* allow_at: both buckets are refilled; a token of each, or of none.
Allow(s) ==
  LET g == Refill(global, GlobalInterval, GlobalCap)
      e == Refill(Entry(s), SourceInterval, SourceCap)
      granted == g.tokens > 0 /\ e.tokens > 0
      entries == [table EXCEPT ![s] = IF granted THEN Spend(e) ELSE e]
      size == Cardinality({t \in Sources : entries[t] # Absent})
  IN /\ global' = (IF granted THEN Spend(g) ELSE g)
     /\ table' = (IF granted /\ size > TableMax THEN Prune(entries) ELSE entries)
     /\ ideal' = [ideal EXCEPT
          !["all"] = IF granted THEN Spend(@) ELSE @,
          ![s] = IF granted THEN Spend(Reference(s)) ELSE Reference(s)]
     /\ UNCHANGED now

\* The reference buckets get their tokens as time passes.
Tick ==
  /\ now < Horizon /\ now' = now + 1
  /\ ideal' = [x \in Everyone |->
       IF (now + 1 - ideal[x].born) % Interval(x) = 0
       THEN [ideal[x] EXCEPT !.tokens = Min({Cap(x), @ + 1})] ELSE ideal[x]]
  /\ UNCHANGED <<global, table>>

Next == Tick \/ \E s \in Sources : Allow(s)
Spec == Init /\ [][Next]_vars

-----------------------------------------------------------------------------
\* A request is judged by the tokens that the reference would have: refilling
\* late gives away no token and takes none, at the cap, at zero and across any
\* number of intervals.  So no window of n intervals grants more than cap + n + 1.
LazyIsExact ==
  /\ Refill(global, GlobalInterval, GlobalCap).tokens = ideal["all"].tokens
  /\ \A s \in Sources : table[s] # Absent =>
       Refill(table[s], SourceInterval, SourceCap).tokens = ideal[s].tokens

\* Pruning an entry gives its source no token: it had all of them again.
PrunedWereFull ==
  [][\A s \in Sources : table[s] # Absent /\ table'[s] = Absent =>
       ideal[s].tokens = SourceCap]_vars
=============================================================================
