--------------------------- MODULE Catalog_proofs ---------------------------
(***************************************************************************)
(* Proofs about Catalog.tla.                                               *)
(*                                                                         *)
(* ExplanationAgrees compares two operators and needs no invariant.  The   *)
(* other theorems rest on an inductive invariant of three parts.           *)
(*                                                                         *)
(* TokenInv follows the token column of the access keys: every row has a   *)
(* token of its own (Issued), an open session writes no token but a new    *)
(* one, to one row, and a rotation or a deletion does write the row it was *)
(* called for (Sessions), and a token that was replaced or deleted is in   *)
(* no row (Dead).  Any number of handlers may have read a row before its   *)
(* token was revoked, and may commit what they changed of it after.        *)
(*                                                                         *)
(* TypeInv says what the columns hold: of the committed rows, and of the   *)
(* rows an open session is about to write (Writes), which name keys that   *)
(* may be gone by then and a key that has no id yet.                       *)
(*                                                                         *)
(* AgreeInv, as long as no session wrote keys or rules from stale rows,    *)
(* says of the committed rows what Catalog promises (Membership, Disjoint) *)
(* and of every session nobody has overtaken that the rows it read are     *)
(* still there, and that the tables it means to leave are sound as well.   *)
(* A handler that starts establishes the last part (AllFine), which is     *)
(* where the handlers' own bookkeeping is proved right; a commit of a      *)
(* session that was not overtaken leaves what it meant, with the new ids   *)
(* filled in (FreshLands, LandedSound), and one that was sets raced.       *)
(*                                                                         *)
(* For the maps, ProbeInv says what a probe means to write as long as      *)
(* nobody else writes maps; ProbeLands that this is what it leaves.        *)
(***************************************************************************)
EXTENDS Catalog, FiniteSetTheorems, SequenceTheorems, TLAPS

-----------------------------------------------------------------------------
(* The page that explains a route.                                         *)

\* When one selection stands, the router takes it.
LEMMA OneSelection ==
  ASSUME NEW g, NEW m, NEW x, NEW s,
         EffectiveSelection(db, g, m, x, TRUE) = {s},
         s.group = Default \/ s.targets # {}
  PROVE  RouteTest(db, g, m, x) =
            [group |-> s.group, keys |-> {k \in Eligible(db, s) : HasMap(db, k, m)}]
<1> DEFINE standing == {t \in EffectiveSelection(db, g, m, x, TRUE) :
                            t.group = Default \/ t.targets # {}}
<1>1. standing = {s}
  OBVIOUS
<1>2. (CHOOSE t \in standing : TRUE) = s /\ standing # {}
  BY <1>1
<1> QED  BY <1>2 DEF RouteTest, GetCandidates

\* The two ways to the same selection.
LEMMA OwnSelection ==
  ASSUME NEW g, NEW m, NEW x,
         SelectRuleTargets(db, g, m, x).supported,
         SelectRuleTargets(db, g, m, x).matched,
         SelectRuleTargets(db, g, m, x).targets # {} \/ g = Default
  PROVE  RouteExplain(db, g, m, x) = RouteTest(db, g, m, x)
<1> DEFINE own == SelectRuleTargets(db, g, m, x)
           s == [group |-> g, targets |-> own.targets]
<1>1. EffectiveSelection(db, g, m, x, TRUE) = {s}
  BY DEF EffectiveSelection
<1>2. ExplainPolicy(db, g, m, x) = s
  BY DEF ExplainPolicy, MatchingRouteRule, SelectRuleTargets, Selection
<1>3. s.group = Default \/ s.targets # {}
  OBVIOUS
<1> HIDE DEF s
<1>4. RouteTest(db, g, m, x) =
        [group |-> s.group, keys |-> {k \in Eligible(db, s) : HasMap(db, k, m)}]
  BY <1>1, <1>3, OneSelection
<1> QED  BY <1>2, <1>4 DEF RouteExplain

LEMMA DefaultSelection ==
  ASSUME NEW g, NEW m, NEW x, g # Default,
         SelectRuleTargets(db, g, m, x).supported,
         ~SelectRuleTargets(db, g, m, x).matched,
         SelectRuleTargets(db, Default, m, x).supported,
         SelectRuleTargets(db, Default, m, x).matched
  PROVE  RouteExplain(db, g, m, x) = RouteTest(db, g, m, x)
<1> DEFINE own == SelectRuleTargets(db, g, m, x)
           s == [group |-> Default, targets |-> SelectRuleTargets(db, Default, m, x).targets]
<1>1. EffectiveSelection(db, g, m, x, TRUE) = {s}
  BY DEF EffectiveSelection
<1>2. ExplainPolicy(db, g, m, x) = s
  BY DEF ExplainPolicy, MatchingRouteRule, SelectRuleTargets, Selection
<1>3. s.group = Default
  OBVIOUS
<1> HIDE DEF s
<1>4. RouteTest(db, g, m, x) =
        [group |-> s.group, keys |-> {k \in Eligible(db, s) : HasMap(db, k, m)}]
  BY <1>1, <1>3, OneSelection
<1> QED  BY <1>2, <1>4 DEF RouteExplain

LEMMA AlwaysAgrees == ExplanationAgrees
<1> SUFFICES ASSUME NEW g \in Groups \cup {Default}, NEW m \in Models, NEW x \in Formats,
                    SelectRuleTargets(db, g, m, x).supported,
                    SelectRuleTargets(db, g, m, x).matched
                        => SelectRuleTargets(db, g, m, x).targets # {} \/ g = Default,
                    ~SelectRuleTargets(db, g, m, x).matched
                        => /\ g # Default
                           /\ SelectRuleTargets(db, Default, m, x).supported
                           /\ SelectRuleTargets(db, Default, m, x).matched
             PROVE  RouteExplain(db, g, m, x) = RouteTest(db, g, m, x)
  BY DEF ExplanationAgrees
<1> QED  BY OwnSelection, DefaultSelection

\* The explanation of a route agrees with the router whatever the rows are,
\* outside the three cases that ExplanationAgrees names.
THEOREM ExplanationIsTrue == Spec => []ExplanationAgrees
BY AlwaysAgrees, PTL

-----------------------------------------------------------------------------
(* Finite sets of numbers, and lists of groups.                            *)

\* The highest of a finite set of numbers.
LEMMA MaxOfFinite ==
  ASSUME NEW S \in SUBSET Nat, IsFiniteSet(S), S # {}
  PROVE  Max(S) \in S /\ \A y \in S : Max(S) >= y
<1> DEFINE Above(x) == {y \in S : y > x}
           all == {Above(x) : x \in S}
<1>1. all \subseteq FiniteSubsetsOf(S) /\ all # {}
  <2>1. ASSUME NEW x \in S PROVE Above(x) \in FiniteSubsetsOf(S)
    <3>1. Above(x) \in SUBSET S
      OBVIOUS
    <3> QED  BY <3>1, FS_Subset DEF FiniteSubsetsOf
  <2> QED  BY <2>1
<1>2. PICK T \in all : \A U \in all : <<U, T>> \notin StrictSubsetOrdering(S)
  BY <1>1, FS_StrictSubsetOrderingWellFounded, WFMin
<1>3. PICK x \in S : T = Above(x)
  BY <1>2
<1>4. ASSUME NEW y \in S, y > x PROVE FALSE
  <2>1. Above(y) \in all /\ Above(y) \subseteq S /\ Above(x) \subseteq S
    OBVIOUS
  <2>2. Above(y) \subseteq Above(x) /\ y \in Above(x) /\ y \notin Above(y)
    <3>1. x \in Nat /\ y \in Nat /\ \A z \in S : z \in Nat
      OBVIOUS
    <3>2. ASSUME NEW z \in Above(y) PROVE z \in Above(x)
      BY <1>4, <3>1
    <3>3. y \in Above(x)
      BY <1>4
    <3>4. y \notin Above(y)
      BY <3>1
    <3> QED  BY <3>2, <3>3, <3>4
  <2>3. <<Above(y), T>> \in StrictSubsetOrdering(S)
    BY <1>3, <2>1, <2>2 DEF StrictSubsetOrdering
  <2> QED  BY <1>2, <2>1, <2>3
<1>5. ASSUME NEW y \in S PROVE x >= y
  BY <1>4, x \in Nat, y \in Nat
<1> QED  BY <1>3, <1>5 DEF Max

\* The lowest of a finite set of numbers.
LEMMA MinOfFinite ==
  ASSUME NEW S \in SUBSET Nat, IsFiniteSet(S), S # {}
  PROVE  Min(S) \in S /\ \A y \in S : Min(S) <= y
<1> DEFINE Below(x) == {y \in S : y < x}
           all == {Below(x) : x \in S}
<1>1. all \subseteq FiniteSubsetsOf(S) /\ all # {}
  <2>1. ASSUME NEW x \in S PROVE Below(x) \in FiniteSubsetsOf(S)
    <3>1. Below(x) \in SUBSET S
      OBVIOUS
    <3> QED  BY <3>1, FS_Subset DEF FiniteSubsetsOf
  <2> QED  BY <2>1
<1>2. PICK T \in all : \A U \in all : <<U, T>> \notin StrictSubsetOrdering(S)
  BY <1>1, FS_StrictSubsetOrderingWellFounded, WFMin
<1>3. PICK x \in S : T = Below(x)
  BY <1>2
<1>4. ASSUME NEW y \in S, y < x PROVE FALSE
  <2>1. Below(y) \in all /\ Below(y) \subseteq S /\ Below(x) \subseteq S
    OBVIOUS
  <2>2. Below(y) \subseteq Below(x) /\ y \in Below(x) /\ y \notin Below(y)
    <3>1. x \in Nat /\ y \in Nat /\ \A z \in S : z \in Nat
      OBVIOUS
    <3>2. ASSUME NEW z \in Below(y) PROVE z \in Below(x)
      BY <1>4, <3>1
    <3>3. y \in Below(x)
      BY <1>4
    <3>4. y \notin Below(y)
      BY <3>1
    <3> QED  BY <3>2, <3>3, <3>4
  <2>3. <<Below(y), T>> \in StrictSubsetOrdering(S)
    BY <1>3, <2>1, <2>2 DEF StrictSubsetOrdering
  <2> QED  BY <1>2, <2>1, <2>3
<1>5. ASSUME NEW y \in S PROVE x <= y
  BY <1>4, x \in Nat, y \in Nat
<1> QED  BY <1>3, <1>5 DEF Min

\* Ids of rows that were written, and lists of groups.
Ids == Nat \ {0}

Lists == Seq(Groups \cup {Default})

\* A list of groups that joins or leaves a group.
LEMMA Joined ==
  ASSUME NEW s \in Lists, IsInjective(s), NEW g \in Groups \cup {Default}, g \notin ToSet(s)
  PROVE  /\ Append(s, g) \in Lists /\ IsInjective(Append(s, g))
         /\ ToSet(Append(s, g)) = ToSet(s) \cup {g}
<1> DEFINE t == Append(s, g)
           n == Len(s)
<1>1. /\ t \in Lists /\ Len(t) = n + 1 /\ n \in Nat
      /\ \A i \in 1..n : t[i] = s[i]
      /\ t[n + 1] = g
  BY AppendProperties, LenProperties DEF Lists
<1>2. DOMAIN s = 1..n /\ DOMAIN t = 1..n + 1
  BY <1>1, LenProperties DEF Lists
<1> HIDE DEF t, n
<1>3. IsInjective(t)
  <2> SUFFICES ASSUME NEW i \in DOMAIN t, NEW j \in DOMAIN t, t[i] = t[j] PROVE i = j
    BY DEF IsInjective
  <2>1. \A h \in DOMAIN s : s[h] # g
    BY DEF ToSet
  <2>2. \A h \in DOMAIN t : h = n + 1 \/ h \in DOMAIN s
    BY <1>1, <1>2
  <2> QED  BY <1>1, <1>2, <2>1, <2>2 DEF IsInjective
<1>4. ToSet(t) = ToSet(s) \cup {g}
  BY <1>1, <1>2 DEF ToSet
<1> QED  BY <1>1, <1>3, <1>4 DEF t

\* ... and one that leaves it.
LEMMA Left ==
  ASSUME NEW s \in Lists, IsInjective(s), NEW g
  PROVE  /\ RemoveFirst(s, g) \in Lists /\ IsInjective(RemoveFirst(s, g))
         /\ ToSet(RemoveFirst(s, g)) = ToSet(s) \ {g}
<1> DEFINE n == Len(s)
           I == {i \in 1..n : s[i] = g}
           p == Min(I)
<1>1. n \in Nat /\ DOMAIN s = 1..n /\ \A i \in 1..n : s[i] \in Groups \cup {Default}
  BY LenProperties, ElementOfSeq DEF Lists
<1>2. CASE ~\E i \in 1..n : s[i] = g
  <2>1. RemoveFirst(s, g) = s
    BY <1>2 DEF RemoveFirst
  <2>2. g \notin ToSet(s)
    BY <1>1, <1>2 DEF ToSet
  <2> QED  BY <2>1, <2>2
<1>3. CASE \E i \in 1..n : s[i] = g
  <2>1. p \in I
    <3>1. I \in SUBSET Nat /\ I # {}
      BY <1>1, <1>3
    <3>2. IsFiniteSet(I)
      <4>1. IsFiniteSet(1..n) /\ I \subseteq 1..n
        BY <1>1, FS_Interval
      <4> QED  BY <4>1, FS_Subset
    <3> HIDE DEF I
    <3> QED  BY <3>1, <3>2, MinOfFinite
  <2>2. RemoveFirst(s, g) = RemoveAt(s, p)
    <3>1. SelectInSeq(s, LAMBDA v : v = g) = p
      BY <1>3 DEF SelectInSeq
    <3> QED  BY <1>3, <3>1 DEF RemoveFirst
  <2> HIDE DEF p
  <2>3. p \in 1..n /\ s[p] = g
    BY <2>1
  <2> DEFINE u == SubSeq(s, 1, p - 1)
             v == SubSeq(s, p + 1, n)
             t == u \o v
  <2>4. /\ u \in Lists /\ Len(u) = p - 1
        /\ \A i \in 1..p - 1 : u[i] = s[i]
    <3>1. 1 \in Int /\ p - 1 \in Int /\ \A i \in 1..p - 1 : s[i] \in Groups \cup {Default}
      BY <1>1, <2>3
    <3>2. /\ u \in Seq(Groups \cup {Default})
          /\ Len(u) = IF 1 <= p - 1 THEN p - 1 - 1 + 1 ELSE 0
          /\ \A i \in 1..p - 1 - 1 + 1 : u[i] = s[1 + i - 1]
      BY <3>1, SubSeqProperties
    <3> HIDE DEF u
    <3> QED  BY <2>3, <3>2 DEF Lists
  <2>5. /\ v \in Lists /\ Len(v) = n - p
        /\ \A i \in 1..n - p : v[i] = s[p + i]
    <3>1. p + 1 \in Int /\ n \in Int /\ \A i \in p + 1..n : s[i] \in Groups \cup {Default}
      BY <1>1, <2>3
    <3>2. /\ v \in Seq(Groups \cup {Default})
          /\ Len(v) = IF p + 1 <= n THEN n - (p + 1) + 1 ELSE 0
          /\ \A i \in 1..n - (p + 1) + 1 : v[i] = s[p + 1 + i - 1]
      BY <3>1, SubSeqProperties
    <3> HIDE DEF v
    <3>3. n - (p + 1) + 1 = n - p /\ (p + 1 <= n \/ n - p = 0)
      <4>1. n \in Int /\ p \in Int /\ p <= n
        BY <1>1, <2>3
      <4> HIDE DEF n
      <4> QED  BY <4>1
    <3>4. \A i \in 1..n - p : p + 1 + i - 1 = p + i
      BY <1>1, <2>3
    <3> QED  BY <3>2, <3>3, <3>4 DEF Lists
  <2>6. RemoveAt(s, p) = t
    BY DEF RemoveAt
  <2> HIDE DEF u, v
  <2>7. /\ t \in Lists /\ Len(t) = n - 1
        /\ \A i \in 1..n - 1 : t[i] = IF i <= p - 1 THEN s[i] ELSE s[i + 1]
    <3>1. /\ t \in Lists /\ Len(t) = Len(u) + Len(v)
          /\ \A i \in 1..Len(u) + Len(v) :
                t[i] = IF i <= Len(u) THEN u[i] ELSE v[i - Len(u)]
      BY <2>4, <2>5, ConcatProperties DEF Lists
    <3> HIDE DEF t
    <3>2. Len(t) = n - 1
      BY <1>1, <2>3, <2>4, <2>5, <3>1
    <3>3. ASSUME NEW i \in 1..n - 1
          PROVE  t[i] = IF i <= p - 1 THEN s[i] ELSE s[i + 1]
      <4>1. i \in 1..Len(u) + Len(v)
        BY <1>1, <2>3, <2>4, <2>5
      <4>2. CASE i <= p - 1
        BY <1>1, <2>3, <2>4, <3>1, <4>1, <4>2
      <4>3. CASE ~(i <= p - 1)
        <5>1. i - Len(u) \in 1..n - p /\ p + (i - Len(u)) = i + 1
          BY <1>1, <2>3, <2>4, <4>3
        <5> QED  BY <2>4, <2>5, <3>1, <4>1, <4>3, <5>1
      <4> QED  BY <4>2, <4>3
    <3> QED  BY <3>1, <3>2, <3>3
  <2> HIDE DEF t
  <2>8. DOMAIN t = 1..n - 1
    BY <2>7, LenProperties DEF Lists
  <2>9. IsInjective(t)
    <3> SUFFICES ASSUME NEW i \in DOMAIN t, NEW j \in DOMAIN t, t[i] = t[j] PROVE i = j
      BY DEF IsInjective
    <3> DEFINE At(h) == IF h <= p - 1 THEN h ELSE h + 1
    <3>1. At(i) \in DOMAIN s /\ At(j) \in DOMAIN s /\ s[At(i)] = s[At(j)]
      BY <1>1, <2>3, <2>7, <2>8
    <3>2. At(i) = At(j)
      BY <3>1 DEF IsInjective
    <3> QED  BY <1>1, <2>3, <2>8, <3>2
  <2>10. ToSet(t) = ToSet(s) \ {g}
    <3>1. ASSUME NEW i \in DOMAIN t PROVE t[i] \in ToSet(s) /\ t[i] # g
      <4> DEFINE h == IF i <= p - 1 THEN i ELSE i + 1
      <4>1. h \in DOMAIN s /\ h # p /\ t[i] = s[h]
        BY <1>1, <2>3, <2>7, <2>8
      <4>2. s[h] # g
        BY <1>1, <2>3, <4>1 DEF IsInjective
      <4> QED  BY <4>1, <4>2 DEF ToSet
    <3>2. ASSUME NEW h \in DOMAIN s, s[h] # g PROVE s[h] \in ToSet(t)
      <4> DEFINE i == IF h <= p - 1 THEN h ELSE h - 1
      <4>1. i \in DOMAIN t /\ t[i] = s[h]
        BY <1>1, <2>3, <2>7, <2>8, <3>2
      <4> QED  BY <4>1 DEF ToSet
    <3> QED  BY <3>1, <3>2 DEF ToSet
  <2> QED  BY <2>2, <2>6, <2>7, <2>9, <2>10
<1> QED  BY <1>2, <1>3

-----------------------------------------------------------------------------
(* The access keys.                                                        *)

Columns == {"groups", "active", "token"}

\* A row with all its columns, and a first group if it has any.
AccessRow(row) ==
    /\ DOMAIN row = Columns
    /\ row.groups # <<>> => 1 \in DOMAIN row.groups

\* The rows when n tokens have been issued: each has a token of its own.
AccessTable(table, n) ==
    /\ DOMAIN table \subseteq Nat /\ IsFiniteSet(DOMAIN table)
    /\ \A i \in DOMAIN table : AccessRow(table[i]) /\ table[i].token \in 1..n
    /\ \A i, j \in DOMAIN table : table[i].token = table[j].token => i = j

\* A session that may still commit writes no token but a new one, in one row.
AccessChange(change, n) ==
    /\ DOMAIN change.old \subseteq Nat
    /\ DOMAIN change.new \subseteq DOMAIN change.old \cup {New}
    /\ \A i \in DOMAIN change.old : change.old[i].token \in 1..n
    /\ \A i \in DOMAIN change.new :
        /\ AccessRow(change.new[i])
        /\ \/ change.new[i].token = New
           \/ i \in DOMAIN change.old /\ change.new[i].token = change.old[i].token
    /\ \A i, j \in DOMAIN change.new :
        change.new[i].token = New /\ change.new[j].token = New => i = j

\* The row a rotation or a deletion is about is among its changes.
Revokes(job) ==
    LET change == job.changes.access IN
    /\ job.op = "rotate_access_key" =>
        /\ job.call.access \in DOMAIN change.old \cap DOMAIN change.new
        /\ change.new[job.call.access].token = New
    /\ job.op = "delete_access_key" =>
        job.call.access \in DOMAIN change.old \ DOMAIN change.new

Session(job, n) ==
    /\ DOMAIN job = {"op", "call", "changes", "stale"}
    /\ DOMAIN job.changes = Tables
    /\ \A t \in Tables : DOMAIN job.changes[t] = {"old", "new"}
    /\ AccessChange(job.changes.access, n)
    /\ Revokes(job)

Issued ==
    /\ DOMAIN db = Tables /\ tokens \in Nat /\ last.access \in Nat
    /\ AccessTable(db.access, tokens)

Sessions ==
    /\ DOMAIN jobs = Admins
    /\ \A a \in Admins : jobs[a] = Idle \/ Session(jobs[a], tokens)

Dead ==
    /\ revoked \subseteq 1..tokens
    /\ \A i \in DOMAIN db.access : db.access[i].token \notin revoked

TokenInv == Issued /\ Sessions /\ Dead

-----------------------------------------------------------------------------
(* The tokens while handlers read.                                         *)

\* What a handler that leaves no other token in the access keys may want.
Wanted(after, call) ==
    LET table == after.access IN
    /\ DOMAIN table \subseteq DOMAIN db.access \cup {New}
    /\ \A i \in DOMAIN table :
        /\ AccessRow(table[i])
        /\ \/ table[i].token = New
           \/ i \in DOMAIN db.access /\ table[i].token = db.access[i].token
    /\ \A i, j \in DOMAIN table :
        table[i].token = New /\ table[j].token = New => i = j
    /\ call.op = "rotate_access_key" =>
        call.access \in DOMAIN db.access \cap DOMAIN table /\ table[call.access].token = New
    /\ call.op = "delete_access_key" =>
        call.access \in DOMAIN db.access \ DOMAIN table

\* Such a handler keeps the tokens as they are.
LEMMA StartSession ==
  ASSUME TokenInv, NEW a \in Admins, NEW call, NEW after, Start(a, call, after), Wanted(after, call)
  PROVE  TokenInv'
<1> DEFINE table == after.access
           ids == Touched(db.access, table)
           change == [old |-> Restrict(db.access, ids \cap DOMAIN db.access),
                      new |-> Restrict(table, ids \cap DOMAIN table)]
           job == [op |-> call.op, call |-> call, changes |-> Changes(db, after), stale |-> {}]
<1>1. /\ jobs' = [jobs EXCEPT ![a] = job]
      /\ UNCHANGED <<db, last, tokens, revoked>>
  BY DEF Start
<1>2. /\ DOMAIN job.changes = Tables
      /\ \A t \in Tables : DOMAIN job.changes[t] = {"old", "new"}
      /\ job.changes.access = change
  BY DEF TokenInv, Issued, Changes, TableChanges, Tables
<1>3. /\ DOMAIN change.old = ids \cap DOMAIN db.access
      /\ DOMAIN change.new = ids \cap DOMAIN table
      /\ \A i \in DOMAIN change.old : change.old[i] = db.access[i]
      /\ \A i \in DOMAIN change.new : change.new[i] = table[i]
  BY DEF Restrict
<1>4. \A i \in DOMAIN db.access : db.access[i].token \in 1..tokens /\ i \in Nat
  BY DEF TokenInv, Issued, AccessTable
<1>5. New \notin 1..tokens /\ New \notin DOMAIN db.access
  BY <1>4 DEF New
<1>6. AccessChange(change, tokens)
  <2> HIDE DEF ids, change, table
  <2> QED  BY <1>3, <1>4 DEF AccessChange, Wanted, table
<1>7. \A i \in DOMAIN db.access \cap DOMAIN table : table[i].token = New => i \in ids
  BY <1>4, <1>5 DEF Touched
<1>8. \A i \in DOMAIN db.access \ DOMAIN table : i \in ids
  BY DEF Touched
<1>9. Revokes(job)
  <2> HIDE DEF ids, change
  <2> QED  BY <1>2, <1>3, <1>7, <1>8 DEF Wanted, Revokes
<1>10. Session(job, tokens)
  <2>1. DOMAIN job = {"op", "call", "changes", "stale"}
    OBVIOUS
  <2> HIDE DEF job, change
  <2> QED  BY <1>2, <1>6, <1>9, <2>1 DEF Session
<1> HIDE DEF job
<1> QED  BY <1>1, <1>10 DEF TokenInv, Issued, Sessions, Dead

\* Most handlers leave the access keys alone.
LEMMA OtherHandler ==
  ASSUME TokenInv, NEW a \in Admins, NEW call, NEW after, Start(a, call, after),
         after.access = db.access,
         call.op \notin {"rotate_access_key", "delete_access_key"}
  PROVE  TokenInv'
<1>1. Wanted(after, call)
  <2>1. \A i \in DOMAIN db.access : AccessRow(db.access[i]) /\ db.access[i].token # New
    BY DEF TokenInv, Issued, AccessTable, New
  <2> QED  BY <2>1 DEF Wanted
<1> QED  BY <1>1, StartSession

\* Rules and keys are synced without touching another table.
LEMMA Helpers ==
  ASSUME NEW b, DOMAIN b = Tables
  PROVE  /\ EnsureDefault(b).access = b.access /\ DOMAIN EnsureDefault(b) = Tables
         /\ \A e, groups : /\ WithKey(b, e, groups).access = b.access
                           /\ DOMAIN WithKey(b, e, groups) = Tables
         /\ \A g, affected, excluded :
                /\ SyncGroups(b, g, affected, excluded).access = b.access
                /\ DOMAIN SyncGroups(b, g, affected, excluded) = Tables
<1>1. EnsureDefault(b).access = b.access /\ DOMAIN EnsureDefault(b) = Tables
  BY DEF EnsureDefault, Tables
<1>2. ASSUME NEW e, NEW groups
      PROVE  /\ WithKey(b, e, groups).access = b.access
             /\ DOMAIN WithKey(b, e, groups) = Tables
  BY <1>1 DEF WithKey, Tables
<1>3. ASSUME NEW g, NEW affected, NEW excluded
      PROVE  /\ SyncGroups(b, g, affected, excluded).access = b.access
             /\ DOMAIN SyncGroups(b, g, affected, excluded) = Tables
  BY DEF SyncGroups, Tables
<1> QED  BY <1>1, <1>2, <1>3

LEMMA UpdatedRuleKeeps ==
  ASSUME TokenInv, NEW r, NEW rule, NEW withTargets
  PROVE  UpdatedRule(r, rule, withTargets).access = db.access
<1> DEFINE written == [db EXCEPT !.rules[r] = rule]
           old == db.rules[r]
           left == SyncGroups(written, old.group, old.config.targets, {})
<1>1. DOMAIN written = Tables /\ written.access = db.access
  BY DEF TokenInv, Issued, Tables
<1> HIDE DEF written
<1>2. DOMAIN left = Tables /\ left.access = db.access
  BY <1>1, Helpers
<1> HIDE DEF left
<1>3. SyncGroups(left, rule.group, rule.config.targets, {}).access = db.access
  BY <1>2, Helpers
<1>4. SyncGroups(written, rule.group, old.config.targets \cup rule.config.targets, {}).access
        = db.access
  BY <1>1, Helpers
<1> QED  BY <1>1, <1>3, <1>4 DEF UpdatedRule, written, left

LEMMA OtherHandlers ==
  ASSUME TokenInv, NEW a \in Admins,
         \/ CreateEndpoint(a) \/ UpdateEndpoint(a) \/ DeleteEndpoint(a)
         \/ CreateKey(a) \/ UpdateKey(a) \/ DeleteKey(a)
         \/ ListRules(a) \/ CreateRule(a) \/ UpdateRule(a) \/ DeleteRule(a)
         \/ CreateModelMap(a) \/ UpdateModelMap(a) \/ DeleteModelMap(a)
         \/ ProbeEndpoint(a)
  PROVE  TokenInv'
<1>0. DOMAIN db = Tables
  BY DEF TokenInv, Issued
<1>a. SUFFICES \E call, after : /\ Start(a, call, after) /\ after.access = db.access
                                /\ call.op \notin {"rotate_access_key", "delete_access_key"}
  BY OtherHandler
<1>1. CASE CreateEndpoint(a)
  <2> DEFINE bare == [db EXCEPT !.endpoints = With(@, New, [active |-> TRUE])]
  <2>1. DOMAIN bare = Tables /\ bare.access = db.access
    BY <1>0 DEF Tables
  <2> HIDE DEF bare
  <2>2. \A groups : WithKey(bare, New, groups).access = db.access
    BY <2>1, Helpers
  <2>3. \/ Start(a, Call("create_endpoint"), bare)
        \/ \E groups \in MemberLists :
                Start(a, Call("create_endpoint"), WithKey(bare, New, groups))
    BY <1>1 DEF CreateEndpoint, bare
  <2> QED  BY <2>1, <2>2, <2>3 DEF Call
<1>2. CASE UpdateEndpoint(a)
  BY <1>0, <1>2 DEF UpdateEndpoint, Call, Tables
<1>3. CASE DeleteEndpoint(a)
  <2>1. PICK e \in DOMAIN db.endpoints :
            LET Others(table) == {i \in DOMAIN table : table[i].endpoint # e}
            IN  Start(a, Call("delete_endpoint"),
                      [db EXCEPT !.endpoints = Restrict(@, DOMAIN @ \ {e}),
                                 !.keys = Restrict(@, Others(@)),
                                 !.maps = Restrict(@, Others(@))])
    BY <1>3 DEF DeleteEndpoint
  <2> DEFINE Others(table) == {i \in DOMAIN table : table[i].endpoint # e}
             after == [db EXCEPT !.endpoints = Restrict(@, DOMAIN @ \ {e}),
                                 !.keys = Restrict(@, Others(@)),
                                 !.maps = Restrict(@, Others(@))]
  <2>2. after.access = db.access
    BY <1>0 DEF Tables
  <2>3. Start(a, Call("delete_endpoint"), after)
    BY <2>1
  <2> HIDE DEF after
  <2> QED  BY <2>2, <2>3 DEF Call
<1>4. CASE CreateKey(a)
  BY <1>0, <1>4, Helpers DEF CreateKey, Call
<1>5. CASE UpdateKey(a)
  <2>1. DOMAIN EnsureDefault(db) = Tables /\ EnsureDefault(db).access = db.access
    BY <1>0, Helpers
  <2>2. PICK k \in DOMAIN db.keys :
            \/ Start(a, Call("update_key"), [db EXCEPT !.keys[k].active = ~@])
            \/ \E next, before, then :
                Start(a, Call("update_key"),
                      [EnsureDefault(db) EXCEPT !.keys[k].groups = next,
                                                !.rules = SyncTargets(@, before, then)])
    BY <1>5 DEF UpdateKey
  <2>3. [db EXCEPT !.keys[k].active = ~@].access = db.access
    BY <1>0 DEF Tables
  <2>4. \A next, before, then :
            [EnsureDefault(db) EXCEPT !.keys[k].groups = next,
                                      !.rules = SyncTargets(@, before, then)].access = db.access
    BY <2>1 DEF Tables
  <2>5. Call("update_key").op = "update_key"
    BY DEF Call
  <2>6. CASE Start(a, Call("update_key"), [db EXCEPT !.keys[k].active = ~@])
    <3> DEFINE after == [db EXCEPT !.keys[k].active = ~@]
    <3>1. Start(a, Call("update_key"), after) /\ after.access = db.access
      BY <2>3, <2>6
    <3> HIDE DEF after
    <3> QED  BY <2>5, <3>1
  <2>7. ASSUME NEW next, NEW before, NEW then,
               Start(a, Call("update_key"),
                     [EnsureDefault(db) EXCEPT !.keys[k].groups = next,
                                               !.rules = SyncTargets(@, before, then)])
        PROVE  \E call, after : /\ Start(a, call, after) /\ after.access = db.access
                                /\ call.op \notin {"rotate_access_key", "delete_access_key"}
    <3> DEFINE after == [EnsureDefault(db) EXCEPT !.keys[k].groups = next,
                                                  !.rules = SyncTargets(@, before, then)]
    <3>1. Start(a, Call("update_key"), after) /\ after.access = db.access
      BY <2>4, <2>7
    <3> HIDE DEF after
    <3> QED  BY <2>5, <3>1
  <2> QED  BY <2>2, <2>6, <2>7
<1>6. CASE DeleteKey(a)
  <2>1. PICK k \in DOMAIN db.keys :
                Start(a, Call("delete_key"),
                      [db EXCEPT
                        !.rules = SyncTargets(@, For(k, RuleGroups(db.keys[k])), For(k, {})),
                        !.keys = Restrict(@, DOMAIN @ \ {k})])
    BY <1>6 DEF DeleteKey
  <2> DEFINE after ==
        [db EXCEPT !.rules = SyncTargets(@, For(k, RuleGroups(db.keys[k])), For(k, {})),
                   !.keys = Restrict(@, DOMAIN @ \ {k})]
  <2>2. Start(a, Call("delete_key"), after) /\ after.access = db.access
    BY <1>0, <2>1 DEF Tables
  <2>3. Call("delete_key").op = "delete_key"
    BY DEF Call
  <2> HIDE DEF after
  <2> QED  BY <2>2, <2>3
<1>7. CASE ListRules(a)
  BY <1>0, <1>7, Helpers DEF ListRules, Call
<1>8. CASE CreateRule(a)
  <2>1. PICK g \in Groups, targets \in SUBSET TargetIds, exposures \in FormatLists :
            LET rule == [group |-> g, active |-> TRUE, pattern |-> Models,
                         config |-> [targets |-> targets, exposures |-> exposures]]
                added == [db EXCEPT !.rules = With(@, New, rule)]
            IN  Start(a, Naming("create_rule", targets), SyncGroups(added, g, targets, {}))
    BY <1>8 DEF CreateRule
  <2> DEFINE rule == [group |-> g, active |-> TRUE, pattern |-> Models,
                      config |-> [targets |-> targets, exposures |-> exposures]]
             added == [db EXCEPT !.rules = With(@, New, rule)]
  <2>2. DOMAIN added = Tables /\ added.access = db.access
    BY <1>0 DEF Tables
  <2> HIDE DEF added, rule
  <2>3. SyncGroups(added, g, targets, {}).access = db.access
    BY <2>2, Helpers
  <2>4. Start(a, Naming("create_rule", targets), SyncGroups(added, g, targets, {}))
    BY <2>1 DEF added, rule
  <2> QED  BY <2>3, <2>4 DEF Naming
<1>9. CASE UpdateRule(a)
  <2>1. \E r, rule, targets, withTargets :
            Start(a, Naming("update_rule", targets), UpdatedRule(r, rule, withTargets))
    BY <1>9 DEF UpdateRule
  <2> QED  BY <2>1, UpdatedRuleKeeps DEF Naming
<1>10. CASE DeleteRule(a)
  <2>1. PICK r \in DOMAIN db.rules :
            LET rule == db.rules[r]
                synced == SyncGroups(db, rule.group, rule.config.targets, {r})
            IN  Start(a, Call("delete_rule"),
                      [synced EXCEPT !.rules = Restrict(@, DOMAIN @ \ {r})])
    BY <1>10 DEF DeleteRule
  <2> DEFINE synced == SyncGroups(db, db.rules[r].group, db.rules[r].config.targets, {r})
             after == [synced EXCEPT !.rules = Restrict(@, DOMAIN @ \ {r})]
  <2>2. DOMAIN synced = Tables /\ synced.access = db.access
    BY <1>0, Helpers
  <2>3. Start(a, Call("delete_rule"), after)
    BY <2>1
  <2> HIDE DEF synced
  <2>4. after.access = db.access
    BY <2>2 DEF Tables
  <2> HIDE DEF after
  <2> QED  BY <2>3, <2>4 DEF Call
<1>11. CASE CreateModelMap(a) \/ UpdateModelMap(a) \/ DeleteModelMap(a)
  <2>1. \E maps, op : /\ Start(a, Call(op), [db EXCEPT !.maps = maps])
                      /\ op \in {"create_map", "update_map", "delete_map"}
    <3>1. CASE CreateModelMap(a)
      BY <3>1 DEF CreateModelMap
    <3>2. CASE DeleteModelMap(a)
      BY <3>2 DEF DeleteModelMap
    <3>3. CASE UpdateModelMap(a)
      BY <3>3 DEF UpdateModelMap
    <3> QED  BY <1>11, <3>1, <3>2, <3>3
  <2>2. PICK maps, op : /\ Start(a, Call(op), [db EXCEPT !.maps = maps])
                        /\ op \in {"create_map", "update_map", "delete_map"}
    BY <2>1
  <2> DEFINE after == [db EXCEPT !.maps = maps]
  <2>3. Start(a, Call(op), after) /\ after.access = db.access
    BY <1>0, <2>2 DEF Tables
  <2>4. Call(op).op = op
    BY DEF Call
  <2> HIDE DEF after
  <2> QED  BY <2>2, <2>3, <2>4
<1>12. CASE ProbeEndpoint(a)
  BY <1>0, <1>12 DEF ProbeEndpoint, Tables
<1> QED  BY <1>1, <1>2, <1>3, <1>4, <1>5, <1>6, <1>7, <1>8, <1>9, <1>10, <1>11, <1>12

\* The handlers of access keys.
LEMMA AccessHandlers ==
  ASSUME TokenInv, NEW a \in Admins,
         \/ CreateRuleAccessKey(a) \/ CreateAccessKey(a) \/ UpdateAccessKey(a)
         \/ RotateAccessKey(a) \/ DeleteAccessKey(a)
  PROVE  TokenInv'
<1>0. /\ DOMAIN db = Tables /\ "access" \in DOMAIN db
      /\ \A i \in DOMAIN db.access :
            AccessRow(db.access[i]) /\ db.access[i].token # New /\ i # New
  BY DEF TokenInv, Issued, AccessTable, Tables, New
<1>1. ASSUME NEW groups, groups # <<>> => 1 \in DOMAIN groups,
             NEW call, call.op \notin {"rotate_access_key", "delete_access_key"},
             Start(a, call, WithAccess(groups))
      PROVE  TokenInv'
  <2> DEFINE row == [groups |-> groups, active |-> TRUE, token |-> New]
             table == With(db.access, New, row)
  <2>1. WithAccess(groups).access = table
    BY <1>0 DEF WithAccess
  <2>2. AccessRow(row) /\ row.token = New
    BY <1>1 DEF AccessRow, Columns
  <2>3. /\ DOMAIN table = DOMAIN db.access \cup {New} /\ table[New] = row
        /\ \A i \in DOMAIN db.access : table[i] = db.access[i]
    BY <1>0 DEF With
  <2> HIDE DEF table, row
  <2>4. Wanted(WithAccess(groups), call)
    BY <1>0, <1>1, <2>1, <2>2, <2>3 DEF Wanted
  <2> QED  BY <1>1, <2>4, StartSession
<1>2. ASSUME NEW i \in DOMAIN db.access, NEW row, AccessRow(row),
             NEW call, NEW after, Start(a, call, after),
             after.access = [db.access EXCEPT ![i] = row],
             call.op # "delete_access_key",
             \/ row.token = db.access[i].token /\ call.op # "rotate_access_key"
             \/ row.token = New /\ (call.op = "rotate_access_key" => call.access = i)
      PROVE  TokenInv'
  <2>1. Wanted(after, call)
    BY <1>0, <1>2 DEF Wanted
  <2> QED  BY <1>2, <2>1, StartSession
<1>3. CASE CreateRuleAccessKey(a)
  <2>1. PICK r \in DOMAIN db.rules :
            Start(a, Call("create_rule_access_key"), WithAccess(<<db.rules[r].group>>))
    BY <1>3 DEF CreateRuleAccessKey
  <2>2. 1 \in DOMAIN <<db.rules[r].group>>
    OBVIOUS
  <2> QED  BY <1>1, <2>1, <2>2 DEF Call
<1>4. CASE CreateAccessKey(a)
  <2>1. PICK groups \in MemberLists :
            Start(a, Call("create_access_key"),
                  WithAccess(IF groups = <<>> THEN <<Default>> ELSE groups))
    BY <1>4 DEF CreateAccessKey
  <2> DEFINE g == IF groups = <<>> THEN <<Default>> ELSE groups
  <2>2. g # <<>> => 1 \in DOMAIN g
    BY CatalogAssumption
  <2> HIDE DEF g
  <2>3. Start(a, Call("create_access_key"), WithAccess(g))
    BY <2>1 DEF g
  <2> QED  BY <1>1, <2>2, <2>3 DEF Call
<1>5. CASE UpdateAccessKey(a)
  <2>1. PICK i \in DOMAIN db.access :
        \/ Start(a, Call("update_access_key"), [db EXCEPT !.access[i].active = ~@])
        \/ \E groups \in MemberLists :
            Start(a, Call("update_access_key"), [db EXCEPT !.access[i].groups = groups])
    BY <1>5 DEF UpdateAccessKey
  <2>2. AccessRow(db.access[i])
    BY <1>0
  <2>3. CASE Start(a, Call("update_access_key"), [db EXCEPT !.access[i].active = ~@])
    <3> DEFINE row == [db.access[i] EXCEPT !.active = ~@]
               after == [db EXCEPT !.access[i].active = ~@]
    <3>1. AccessRow(row) /\ row.token = db.access[i].token
      BY <2>2 DEF AccessRow, Columns
    <3>2. after.access = [db.access EXCEPT ![i] = row]
      BY <1>0
    <3>3. Start(a, Call("update_access_key"), after)
      BY <2>3
    <3>4. Call("update_access_key").op = "update_access_key"
      BY DEF Call
    <3> HIDE DEF row, after
    <3> QED  BY <1>2, <3>1, <3>2, <3>3, <3>4
  <2>4. ASSUME NEW groups \in MemberLists,
               Start(a, Call("update_access_key"), [db EXCEPT !.access[i].groups = groups])
        PROVE  TokenInv'
    <3> DEFINE row == [db.access[i] EXCEPT !.groups = groups]
               after == [db EXCEPT !.access[i].groups = groups]
    <3>1. AccessRow(row) /\ row.token = db.access[i].token
      <4>1. groups # <<>> => 1 \in DOMAIN groups
        BY CatalogAssumption
      <4> QED  BY <2>2, <4>1 DEF AccessRow, Columns
    <3>2. after.access = [db.access EXCEPT ![i] = row]
      BY <1>0
    <3>3. Start(a, Call("update_access_key"), after)
      BY <2>4
    <3>4. Call("update_access_key").op = "update_access_key"
      BY DEF Call
    <3> HIDE DEF row, after
    <3> QED  BY <1>2, <3>1, <3>2, <3>3, <3>4
  <2> QED  BY <2>1, <2>3, <2>4
<1>6. CASE RotateAccessKey(a)
  <2>1. PICK i \in DOMAIN db.access :
            Start(a, [op |-> "rotate_access_key", access |-> i],
                  [db EXCEPT !.access[i].token = New])
    BY <1>6 DEF RotateAccessKey
  <2> DEFINE row == [db.access[i] EXCEPT !.token = New]
             after == [db EXCEPT !.access[i].token = New]
             call == [op |-> "rotate_access_key", access |-> i]
  <2>2. AccessRow(row) /\ row.token = New
    BY <1>0 DEF AccessRow, Columns
  <2>3. after.access = [db.access EXCEPT ![i] = row]
    BY <1>0
  <2>4. call.op = "rotate_access_key" /\ call.access = i
    OBVIOUS
  <2> HIDE DEF row, after, call
  <2>5. Start(a, call, after)
    BY <2>1 DEF call, after
  <2> QED  BY <1>2, <2>2, <2>3, <2>4, <2>5
<1>7. CASE DeleteAccessKey(a)
  <2>1. PICK i \in DOMAIN db.access :
            Start(a, [op |-> "delete_access_key", access |-> i],
                  [db EXCEPT !.access = Restrict(@, DOMAIN @ \ {i})])
    BY <1>7 DEF DeleteAccessKey
  <2> DEFINE after == [db EXCEPT !.access = Restrict(@, DOMAIN @ \ {i})]
             call == [op |-> "delete_access_key", access |-> i]
  <2>2. after.access = [j \in DOMAIN db.access \ {i} |-> db.access[j]]
    BY <1>0 DEF Restrict
  <2>3. call.op = "delete_access_key" /\ call.access = i
    OBVIOUS
  <2> HIDE DEF after, call
  <2>4. Wanted(after, call)
    BY <1>0, <2>2, <2>3 DEF Wanted
  <2>5. Start(a, call, after)
    BY <2>1 DEF call, after
  <2> QED  BY <2>4, <2>5, StartSession
<1> QED  BY <1>3, <1>4, <1>5, <1>6, <1>7

-----------------------------------------------------------------------------
(* The tokens when they write.                                             *)

\* A commit puts a new token in one row at most, and every other row that is
\* left keeps the token it has, whatever the session held of it.
LEMMA CommitAccess ==
  ASSUME TokenInv, NEW a \in Admins, Commit(a)
  PROVE  \E fresh \in SUBSET DOMAIN db'.access :
            /\ DOMAIN db' = Tables
            /\ DOMAIN db'.access \subseteq Nat /\ IsFiniteSet(DOMAIN db'.access)
            /\ \A i \in DOMAIN db'.access : AccessRow(db'.access[i])
            /\ \A i \in fresh : db'.access[i].token = tokens + 1
            /\ \A i, j \in fresh : i = j
            /\ \A i \in DOMAIN db'.access \ fresh :
                    /\ i \in DOMAIN db.access
                    /\ i \notin Removed(jobs[a].changes.access)
                    /\ db'.access[i].token = db.access[i].token
            /\ \A i \in Updated(jobs[a].changes.access) :
                    jobs[a].changes.access.new[i].token = New
                        /\ i \notin Removed(jobs[a].changes.access)
                        /\ i \in DOMAIN db.access
                    => i \in fresh
<1> DEFINE changes == jobs[a].changes
           change == changes.access
           rows == [i \in DOMAIN change.new |->
                        [change.new[i] EXCEPT
                            !.token = IF @ = New THEN tokens + 1 ELSE @]]
           resolved == [change EXCEPT !.new = rows]
           lastId == LastId("access")
           kept == DOMAIN db.access \ Removed(change)
           table == MergeTable(db.access, resolved, lastId)
           From(i) == IF i \in kept THEN i ELSE New
           fresh == {i \in DOMAIN table :
                        From(i) \in DOMAIN change.new /\ change.new[From(i)].token = New}
<1>0. /\ DOMAIN db = Tables /\ "access" \in Tables /\ tokens \in Nat
      /\ AccessTable(db.access, tokens)
  BY DEF TokenInv, Issued, Tables
<1>1. /\ DOMAIN changes = Tables
      /\ DOMAIN change = {"old", "new"}
      /\ AccessChange(change, tokens)
  <2>1. Session(jobs[a], tokens)
    BY DEF TokenInv, Sessions, Commit
  <2> QED  BY <1>0, <2>1 DEF Session
<1>2. Resolved(changes).access = resolved
  BY <1>1 DEF Resolved, Tables
<1>3. /\ DOMAIN db' = Tables
      /\ db'.access = MergeTable(db.access, Resolved(changes).access, lastId)
  BY <1>1 DEF Commit, Merged, Tables
<1>4. lastId \in Nat
  <2>1. CASE ReusesIds
    <3> DEFINE S == DOMAIN db.access \cup {0}
    <3>1. S \subseteq Nat /\ S # {} /\ IsFiniteSet(S)
      BY <1>0, FS_AddElement DEF AccessTable
    <3> HIDE DEF S
    <3>2. Max(S) \in Nat
      BY <3>1, MaxOfFinite
    <3> QED  BY <2>1, <3>2 DEF LastId, S
  <2>2. CASE ~ReusesIds
    BY <2>2 DEF LastId, TokenInv, Issued
  <2> QED  BY <2>1, <2>2
<1>5. /\ resolved.old = change.old /\ resolved.new = rows
      /\ DOMAIN rows = DOMAIN change.new
  BY <1>1
<1>6. \A i \in DOMAIN change.new :
        /\ AccessRow(rows[i])
        /\ change.new[i].token = New => rows[i].token = tokens + 1
        /\ change.new[i].token # New => rows[i].token = change.new[i].token
  BY <1>1 DEF AccessChange, AccessRow, Columns
<1> HIDE DEF change, rows, resolved, lastId
<1>7. {i \in DOMAIN rows : i < 0} = DOMAIN change.new \cap {New}
  BY <1>1, <1>5 DEF AccessChange, New
<1>8. /\ Removed(resolved) = Removed(change) /\ Updated(resolved) = Updated(change)
      /\ New \notin kept /\ kept \subseteq Nat
  BY <1>0, <1>5 DEF Removed, Updated, AccessTable, New
<1>9. DOMAIN table = kept \cup {lastId - n : n \in DOMAIN change.new \cap {New}}
  BY <1>5, <1>7, <1>8 DEF MergeTable
<1>10. \A i \in DOMAIN table \ kept : i = lastId + 1 /\ New \in DOMAIN change.new
  BY <1>4, <1>9 DEF New
<1>11. ASSUME NEW i \in DOMAIN table \ kept
       PROVE  /\ table[i] = rows[New] /\ change.new[New].token = New
              /\ New \in DOMAIN change.new /\ i \in fresh
  <2>1. table[i] = rows[lastId - i]
    BY <1>5, <1>7, <1>8, <1>9 DEF MergeTable
  <2>2. lastId - i = New
    BY <1>4, <1>10 DEF New
  <2>3. change.new[New].token = New
    BY <1>1, <1>10 DEF AccessChange, New
  <2> QED  BY <1>10, <2>1, <2>2, <2>3
<1>12. ASSUME NEW i \in kept
       PROVE  /\ i \in DOMAIN table
              /\ i \notin Updated(change) => table[i] = db.access[i]
              /\ i \in Updated(change) =>
                    table[i] = MergeRow(db.access[i], change.old[i], rows[i])
  BY <1>5, <1>7, <1>8, <1>9 DEF MergeTable
<1>13. \A i \in kept : AccessRow(db.access[i]) /\ db.access[i].token \in 1..tokens
  BY <1>0 DEF AccessTable
<1>14. ASSUME NEW i \in kept
       PROVE  /\ AccessRow(table[i])
              /\ i \in fresh => table[i].token = tokens + 1
              /\ i \notin fresh => table[i].token = db.access[i].token
  <2>1. CASE i \notin DOMAIN change.new
    <3>1. i \notin Updated(change) /\ i \notin fresh
      BY <2>1 DEF Updated
    <3> QED  BY <1>12, <1>13, <3>1
  <2>2. CASE i \in DOMAIN change.new
    <3>1. i \in DOMAIN change.old
      BY <1>1, <1>8, <2>2 DEF AccessChange
    <3>2. table[i] = MergeRow(db.access[i], change.old[i], rows[i])
      BY <1>12, <2>2, <3>1 DEF Updated
    <3>3. AccessRow(table[i])
      BY <1>6, <1>13, <2>2, <3>2 DEF AccessRow, MergeRow, Columns
    <3>4. table[i].token = IF rows[i].token = change.old[i].token
                           THEN db.access[i].token ELSE rows[i].token
      BY <1>13, <3>2 DEF MergeRow, AccessRow, Columns
    <3>5. i \in fresh <=> change.new[i].token = New
      BY <1>12, <2>2
    <3>6. change.old[i].token \in 1..tokens /\ change.old[i].token # New
      BY <1>1, <3>1 DEF AccessChange, New
    <3>7. change.new[i].token = New \/ change.new[i].token = change.old[i].token
      BY <1>1, <2>2 DEF AccessChange
    <3>8. tokens + 1 # change.old[i].token
      BY <1>0, <3>6
    <3> HIDE DEF fresh, table
    <3> QED  BY <1>6, <2>2, <3>3, <3>4, <3>5, <3>6, <3>7, <3>8
  <2> QED  BY <2>1, <2>2
<1>15. \A i, j \in fresh : i = j
  <2> SUFFICES ASSUME NEW i \in fresh, NEW j \in fresh PROVE i = j
    OBVIOUS
  <2>1. From(i) = From(j)
    BY <1>1 DEF AccessChange
  <2> QED  BY <1>8, <1>10, <2>1
<1>16. DOMAIN table \subseteq Nat /\ IsFiniteSet(DOMAIN table)
  <2>1. DOMAIN table \subseteq DOMAIN db.access \cup {lastId + 1}
    BY <1>10
  <2>2. IsFiniteSet(DOMAIN db.access \cup {lastId + 1})
    BY <1>0, FS_AddElement DEF AccessTable
  <2> QED  BY <1>0, <1>4, <2>1, <2>2, FS_Subset DEF AccessTable
<1>17. db'.access = table
  BY <1>2, <1>3
<1>18. \A i \in DOMAIN table : AccessRow(table[i])
  BY <1>6, <1>11, <1>14
<1>19. \A i \in fresh : table[i].token = tokens + 1
  BY <1>6, <1>11, <1>14
<1>20. \A i \in DOMAIN table \ fresh : i \in kept /\ table[i].token = db.access[i].token
  BY <1>11, <1>14
<1>21. \A i \in Updated(change) :
            change.new[i].token = New /\ i \in kept => i \in fresh
  BY <1>12 DEF Updated
<1>22. fresh \in SUBSET DOMAIN db'.access
  BY <1>17
<1> HIDE DEF table, fresh
<1> QED  BY <1>3, <1>15, <1>16, <1>17, <1>18, <1>19, <1>20, <1>21, <1>22 DEF change

\* So a commit keeps the tokens apart, and the revoked ones dead.
LEMMA CommitStep ==
  ASSUME TokenInv, NEW a \in Admins, Commit(a)
  PROVE  TokenInv'
<1> DEFINE job == jobs[a]
           change == job.changes.access
           table == db'.access
           all == {tokens} \cup {table[i].token : i \in DOMAIN table}
<1>1. PICK fresh \in SUBSET DOMAIN table :
            /\ DOMAIN db' = Tables
            /\ DOMAIN table \subseteq Nat /\ IsFiniteSet(DOMAIN table)
            /\ \A i \in DOMAIN table : AccessRow(table[i])
            /\ \A i \in fresh : table[i].token = tokens + 1
            /\ \A i, j \in fresh : i = j
            /\ \A i \in DOMAIN table \ fresh :
                    /\ i \in DOMAIN db.access
                    /\ i \notin Removed(change)
                    /\ table[i].token = db.access[i].token
            /\ \A i \in Updated(change) :
                    change.new[i].token = New
                        /\ i \notin Removed(change)
                        /\ i \in DOMAIN db.access
                    => i \in fresh
  BY CommitAccess
<1>2. /\ tokens \in Nat /\ revoked \subseteq 1..tokens
      /\ DOMAIN db.access \subseteq Nat
      /\ \A i \in DOMAIN db.access :
            db.access[i].token \in 1..tokens /\ db.access[i].token \notin revoked
      /\ \A i, j \in DOMAIN db.access : db.access[i].token = db.access[j].token => i = j
  BY DEF TokenInv, Issued, Dead, AccessTable
<1>3. Session(job, tokens)
  BY DEF TokenInv, Sessions, Commit
<1>4. tokens' = Max(all)
  BY DEF Commit
<1>5. last'.access \in Nat
  <2> DEFINE S == {last.access} \cup DOMAIN table
  <2>1. last'.access = Max(S)
    BY DEF Commit, Tables
  <2>2. S \subseteq Nat /\ S # {}
    BY <1>1 DEF TokenInv, Issued
  <2>3. S = DOMAIN table \cup {last.access}
    OBVIOUS
  <2>4. IsFiniteSet(S)
    BY <1>1, <2>3, FS_AddElement
  <2> HIDE DEF S
  <2> QED  BY <2>1, <2>2, <2>4, MaxOfFinite
<1>6. revoked' = IF job.op \in {"rotate_access_key", "delete_access_key"}
                    /\ job.call.access \in DOMAIN db.access
                 THEN revoked \cup {db.access[job.call.access].token} ELSE revoked
  BY DEF Commit
<1>7. \A b \in Admins :
        jobs'[b] = Idle
        \/ (jobs[b] # Idle /\ \E s : jobs'[b] = [jobs[b] EXCEPT !.stale = s])
  BY DEF Commit
<1>8. DOMAIN jobs' = Admins
  BY DEF Commit
<1>9. Revokes(job)
  BY <1>3 DEF Session
<1> HIDE DEF job, change, table
<1>10. \A i \in DOMAIN table : table[i].token \in 1..tokens + 1
  BY <1>1, <1>2
<1>11. all \subseteq Nat /\ all # {} /\ IsFiniteSet(all)
  <2> DEFINE image == {table[i].token : i \in DOMAIN table}
  <2>1. IsFiniteSet(image)
    <3>1. image \subseteq 1..(tokens + 1)
      BY <1>10
    <3>2. IsFiniteSet(1..(tokens + 1))
      BY <1>2, FS_Interval
    <3> QED  BY <3>1, <3>2, FS_Subset
  <2>2. image \subseteq Nat
    BY <1>2, <1>10
  <2> HIDE DEF image
  <2>3. IsFiniteSet(image \cup {tokens})
    BY <2>1, FS_AddElement
  <2> QED  BY <1>2, <2>2, <2>3 DEF image
<1>12. /\ tokens' \in all /\ \A y \in all : tokens' >= y
  <2> HIDE DEF all
  <2> QED  BY <1>4, <1>11, MaxOfFinite
<1>13. /\ tokens' \in Nat /\ tokens' >= tokens
       /\ \A i \in DOMAIN table : table[i].token \in 1..tokens'
  <2>1. tokens' \in Nat /\ tokens' >= tokens
    BY <1>2, <1>11, <1>12
  <2>2. ASSUME NEW i \in DOMAIN table PROVE table[i].token \in 1..tokens'
    <3>1. tokens' >= table[i].token
      BY <1>12
    <3> HIDE DEF all
    <3> QED  BY <1>2, <1>10, <2>1, <3>1
  <2> QED  BY <2>1, <2>2
<1>14. \A i, j \in DOMAIN table : table[i].token = table[j].token => i = j
  <2> SUFFICES ASSUME NEW i \in DOMAIN table, NEW j \in DOMAIN table,
                      table[i].token = table[j].token
               PROVE  i = j
    OBVIOUS
  <2>1. ASSUME NEW n \in DOMAIN table \ fresh PROVE table[n].token \in 1..tokens
    BY <1>1, <1>2
  <2>2. tokens + 1 \notin 1..tokens
    BY <1>2
  <2>3. i \in fresh <=> j \in fresh
    BY <1>1, <2>1, <2>2
  <2> QED  BY <1>1, <1>2, <2>3
<1>15. Issued'
  <2>1. AccessTable(table, tokens')
    BY <1>1, <1>13, <1>14 DEF AccessTable
  <2> QED  BY <1>1, <1>5, <1>13, <2>1 DEF Issued, table
<1>16. Sessions'
  <2>1. ASSUME NEW b \in Admins, Session(jobs[b], tokens), NEW s,
               jobs'[b] = [jobs[b] EXCEPT !.stale = s]
        PROVE  Session(jobs'[b], tokens')
    <3>1. /\ DOMAIN jobs'[b] = {"op", "call", "changes", "stale"}
          /\ jobs'[b].op = jobs[b].op /\ jobs'[b].call = jobs[b].call
          /\ jobs'[b].changes = jobs[b].changes
      BY <2>1 DEF Session
    <3>2. \A t \in 1..tokens : t \in 1..tokens'
      BY <1>2, <1>13
    <3>3. AccessChange(jobs'[b].changes.access, tokens')
      BY <2>1, <3>1, <3>2 DEF Session, AccessChange
    <3>4. Revokes(jobs'[b])
      BY <2>1, <3>1 DEF Session, Revokes
    <3> QED  BY <2>1, <3>1, <3>3, <3>4 DEF Session
  <2>2. \A b \in Admins : jobs[b] = Idle \/ Session(jobs[b], tokens)
    BY DEF TokenInv, Sessions
  <2> QED  BY <1>7, <1>8, <2>1, <2>2 DEF Sessions
<1>17. Dead'
  <2>1. revoked' \subseteq 1..tokens'
    <3>1. \A t \in revoked' : t \in 1..tokens
      BY <1>2, <1>6
    <3> QED  BY <1>2, <1>13, <3>1
  <2>2. ASSUME NEW i \in DOMAIN table PROVE table[i].token \notin revoked'
    <3>1. CASE i \in fresh
      <4>1. table[i].token = tokens + 1
        BY <1>1, <3>1
      <4>2. \A t \in revoked' : t \in 1..tokens
        BY <1>2, <1>6
      <4> QED  BY <1>2, <4>1, <4>2
    <3>2. CASE i \notin fresh
      <4>1. /\ i \in DOMAIN db.access /\ i \notin Removed(change)
            /\ table[i].token = db.access[i].token
        BY <1>1, <3>2
      <4>2. ASSUME job.op \in {"rotate_access_key", "delete_access_key"},
                   job.call.access = i
            PROVE  FALSE
        <5>1. CASE job.op = "rotate_access_key"
          BY <1>1, <1>9, <3>2, <4>1, <4>2, <5>1 DEF Revokes, Updated, change
        <5>2. CASE job.op = "delete_access_key"
          BY <1>9, <4>1, <4>2, <5>2 DEF Revokes, Removed, change
        <5> QED  BY <4>2, <5>1, <5>2
      <4> QED  BY <1>2, <1>6, <4>1, <4>2
    <3> QED  BY <3>1, <3>2
  <2> QED  BY <2>1, <2>2 DEF Dead, table
<1> QED  BY <1>15, <1>16, <1>17 DEF TokenInv

-----------------------------------------------------------------------------
(* The tokens, always.                                                     *)

\* The databases to start from.
LEMMA InitTokens == Init => TokenInv
<1> SUFFICES ASSUME Init PROVE TokenInv
  OBVIOUS
<1> DEFINE ids == DOMAIN db.access
           n == Cardinality(ids)
<1>1. /\ DOMAIN db = Tables
      /\ \A t \in Tables : DOMAIN db[t] \subseteq Nat \ {0} /\ IsFiniteSet(DOMAIN db[t])
      /\ WellFormed(db, n)
      /\ \A i, j \in ids : db.access[i].token = db.access[j].token => i = j
  BY PopulationsAssumption DEF Init
<1>2. ids \subseteq Nat /\ IsFiniteSet(ids) /\ n \in Nat
  BY <1>1, FS_CardinalityType DEF Tables
<1>3. tokens \in Nat /\ tokens = n
  BY <1>2 DEF Init
<1> HIDE DEF n
<1>4. ASSUME NEW i \in ids PROVE AccessRow(db.access[i]) /\ db.access[i].token \in 1 .. tokens
  <2>1. db.access[i] \in [groups : Seq(Groups \cup {Default}), active : BOOLEAN,
                          token : 1 .. n]
    BY <1>1 DEF WellFormed
  <2> DEFINE row == db.access[i]
  <2>2. DOMAIN row = Columns /\ row.groups \in Seq(Groups \cup {Default})
        /\ row.token \in 1 .. n
    BY <2>1 DEF Columns
  <2> HIDE DEF row
  <2>3. row.groups # <<>> => 1 \in DOMAIN row.groups
    BY <2>2
  <2> QED  BY <1>3, <2>2, <2>3 DEF AccessRow, row
<1>5. last.access \in Nat
  <2> DEFINE S == ids \cup {0}
  <2>1. last.access = Max(S)
    BY DEF Init, Tables
  <2>2. S \subseteq Nat /\ S # {} /\ IsFiniteSet(S)
    BY <1>2, FS_AddElement
  <2> HIDE DEF S
  <2> QED  BY <2>1, <2>2, MaxOfFinite
<1>6. Issued
  BY <1>1, <1>2, <1>3, <1>4, <1>5 DEF Issued, AccessTable
<1>7. Sessions /\ Dead
  BY DEF Init, Sessions, Dead
<1> QED  BY <1>6, <1>7 DEF TokenInv

\* Every step keeps the tokens.
LEMMA NextTokens == TokenInv /\ [Next]_vars => TokenInv'
<1> SUFFICES ASSUME TokenInv, [Next]_vars PROVE TokenInv'
  OBVIOUS
<1>1. ASSUME NEW a \in Admins, Rollback(a) PROVE TokenInv'
  <2>1. \A b \in Admins : jobs'[b] = Idle \/ jobs'[b] = jobs[b]
    BY <1>1 DEF Rollback, TokenInv, Sessions
  <2>2. DOMAIN jobs' = Admins
    BY <1>1 DEF Rollback, TokenInv, Sessions
  <2>3. UNCHANGED <<db, last, tokens, revoked>>
    BY <1>1 DEF Rollback
  <2> QED  BY <2>1, <2>2, <2>3 DEF TokenInv, Issued, Sessions, Dead
<1>2. CASE UNCHANGED vars
  BY <1>2 DEF vars, TokenInv, Issued, Sessions, Dead
<1> QED  BY <1>1, <1>2, OtherHandlers, AccessHandlers, CommitStep DEF Next

LEMMA TokensAlways == Spec => []TokenInv
BY InitTokens, NextTokens, PTL DEF Spec

\* RevokedStaysRevoked, however many handlers race: rotate_access_key and
\* delete_access_key revoke a token for good, because a session writes the
\* token column of a row only if it changes it, and then to a new token.
THEOREM RevokedForGood == Spec => []RevokedStaysRevoked
<1>1. TokenInv => RevokedStaysRevoked
  BY DEF TokenInv, Dead, RevokedStaysRevoked, Accepted
<1> QED  BY <1>1, TokensAlways, PTL

\* A token names one row: _resolve_allowed_rule_groups_from_token, which takes
\* the first row that a token matches, has no choice.
TokenNamesOneRow == \A t : \A i, j \in Accepted(db, t) : i = j

\* The tokens that create_access_key and rotate_access_key issue stay unique
\* whatever sessions race.
THEOREM OneRowPerToken == Spec => []TokenNamesOneRow
<1>1. TokenInv => TokenNamesOneRow
  BY DEF TokenInv, Issued, AccessTable, TokenNamesOneRow, Accepted
<1> QED  BY <1>1, TokensAlways, PTL

\* The part of GroupIsolation that no race and no leftover id excuses: a
\* request is served through a group that its access key allows, whatever
\* group it asks for.
OnlyAllowedGroups ==
    \A i \in DOMAIN db.access : \A requested, m, x :
        LET chosen == ProxyCandidates(db, db.access[i], requested, m, x)
        IN  chosen.keys # {} => chosen.group \in ToSet(AllowedGroups(db.access[i]))

LEMMA Within == TokenInv => OnlyAllowedGroups
<1>1. ASSUME NEW row, AccessRow(row), NEW requested
      PROVE  ResolveRuleGroup(row, requested) \in ToSet(AllowedGroups(row))
  <2>1. 1 \in DOMAIN AllowedGroups(row)
    BY <1>1 DEF AccessRow, AllowedGroups
  <2> QED  BY <2>1 DEF ResolveRuleGroup, ToSet
<1>2. ASSUME NEW row, AccessRow(row), NEW requested, NEW m, NEW x,
             ProxyCandidates(db, row, requested, m, x).keys # {}
      PROVE  ProxyCandidates(db, row, requested, m, x).group \in ToSet(AllowedGroups(row))
  <2> DEFINE g == ResolveRuleGroup(row, requested)
             allowDefault == Default \in ToSet(AllowedGroups(row))
             standing == {s \in EffectiveSelection(db, g, m, x, allowDefault) :
                            s.group = Default \/ s.targets # {}}
  <2>1. standing # {}
    BY <1>2 DEF ProxyCandidates, GetCandidates
  <2>2. ProxyCandidates(db, row, requested, m, x).group = (CHOOSE s \in standing : TRUE).group
    BY <2>1 DEF ProxyCandidates, GetCandidates
  <2>3. (CHOOSE s \in standing : TRUE) \in standing
    BY <2>1
  <2>4. \A s \in standing : s.group = g \/ (allowDefault /\ s.group = Default)
    BY DEF EffectiveSelection
  <2> QED  BY <1>1, <1>2, <2>2, <2>3, <2>4
<1> QED  BY <1>2 DEF TokenInv, Issued, AccessTable, OnlyAllowedGroups

\* _resolve_rule_group_from_token and the router together never leave the
\* groups of the access key, for every table of access keys that occurs.
THEOREM WithinItsGroups == Spec => []OnlyAllowedGroups
BY Within, TokensAlways, PTL

-----------------------------------------------------------------------------
(* The rows and what sessions write.                                       *)

\* Rows as a session may hold them: with ids it does not have yet.
EndpointRow(row) == row \in [active : BOOLEAN]

KeyRow(row) ==
    /\ row \in [endpoint : Int, active : BOOLEAN, groups : Lists]
    /\ IsInjective(row.groups)

RuleRow(row) ==
    row \in [group : Groups \cup {Default}, active : BOOLEAN, pattern : SUBSET Models,
             config : [targets : SUBSET Int, exposures : SUBSET Formats]]

AccessKeyRow(row) == row \in [groups : Lists, active : BOOLEAN, token : Int]

MapRow(row) ==
    row \in [endpoint : Int, alias : Models, real : Models, managed : BOOLEAN]

\* What a session may write.
Writes(job) ==
    LET c == job.changes IN
    /\ \A t \in Tables :
        /\ DOMAIN c[t].old \subseteq Ids
        /\ DOMAIN c[t].new \subseteq Int /\ IsFiniteSet(DOMAIN c[t].new)
        /\ \A i \in DOMAIN c[t].new : i \in DOMAIN c[t].old \/ i < 0
    /\ \A t \in Tables \ {"maps"} : DOMAIN c[t].new \subseteq DOMAIN c[t].old \cup {New}
    /\ \A i \in DOMAIN c.endpoints.new : EndpointRow(c.endpoints.new[i])
    /\ \A i \in DOMAIN c.keys.new : KeyRow(c.keys.new[i])
    /\ \A i \in DOMAIN c.rules.new : RuleRow(c.rules.new[i])
    /\ \A i \in DOMAIN c.access.new : AccessKeyRow(c.access.new[i])
    /\ \A i \in DOMAIN c.maps.new : MapRow(c.maps.new[i])
    /\ New \in DOMAIN c.keys.new =>
        \/ c.keys.new[New].endpoint \in Ids
        \/ c.keys.new[New].endpoint = New /\ New \in DOMAIN c.endpoints.new
    /\ \A k \in Updated(c.keys) : c.keys.new[k].endpoint = c.keys.old[k].endpoint
    /\ \A r \in DOMAIN c.rules.new :
        \A k \in c.rules.new[r].config.targets :
            k \in Ids \/ (k = New /\ New \in DOMAIN c.keys.new)
    /\ IF job.op = "delete_endpoint"
       THEN /\ DOMAIN c.rules.old = {} /\ DOMAIN c.rules.new = {}
            /\ DOMAIN c.keys.new = {}
       ELSE Removed(c.endpoints) = {}

\* The types of the committed rows and of those about to be written.
TypeInv ==
    /\ \A t \in Tables : /\ last[t] \in Nat /\ DOMAIN db[t] \subseteq 1 .. last[t]
                         /\ IsFiniteSet(DOMAIN db[t])
    /\ WellFormed(db, tokens)
    /\ orphans \subseteq Ids
    /\ \A a \in Admins : jobs[a] # Idle => Writes(jobs[a])
    /\ raced \in BOOLEAN
    /\ calls \in 0..MaxCalls /\ Cardinality({a \in Admins : jobs[a] # Idle}) <= calls

\* The table a session that nobody overtook leaves behind.
Applied(table, change) ==
    [i \in (DOMAIN table \ Removed(change)) \cup DOMAIN change.new |->
        IF i \in DOMAIN change.new THEN change.new[i] ELSE table[i]]

\* The keys and rules that a session means to leave.
Intended(job) == [keys |-> Applied(db.keys, job.changes.keys),
                  rules |-> Applied(db.rules, job.changes.rules)]

\* The default rule serves all keys and all formats (DefaultServesAll).
Proper(b) == DefaultRules(b) # {} /\ \A d \in DefaultRules(b) : IsProperDefault(d)

\* The rows a session read of a table are as it read them.
Current(table, change) ==
    \A i \in DOMAIN change.old : i \in DOMAIN table /\ table[i] = change.old[i]

\* The two records of who serves a group agree but for some keys, no two rules
\* of a group overlap, and a proper default rule stays proper.
Sound(b, excused) ==
    /\ Membership(b, excused) /\ Disjoint(b) /\ (Proper(db) => Proper(b))

\* The calls that are open name ids as targets.
StrayInv == \A a \in Admins : jobs[a] # Idle => Strays(jobs[a].call) \subseteq Ids

\* As long as nobody wrote from stale rows, the committed keys and rules
\* are sound, and so is what a session means that nobody has overtaken.
AgreeInv ==
    ~raced =>
        /\ Membership(db, orphans) /\ Disjoint(db)
        /\ \A a \in Admins :
            /\ jobs[a] # Idle
            /\ jobs[a].op # "delete_endpoint"
            /\ jobs[a].stale \cap {"keys", "rules"} = {}
            => /\ Current(db.keys, jobs[a].changes.keys)
               /\ Current(db.rules, jobs[a].changes.rules)
               /\ Sound(Intended(jobs[a]), orphans \cup Strays(jobs[a].call))

-----------------------------------------------------------------------------
(* What the helpers of the handlers do to the rules and the keys.          *)

\* A rule that differs from another in its targets at most.
SameButTargets(old, new) ==
    /\ new.group = old.group /\ new.active = old.active
    /\ new.pattern = old.pattern /\ new.config.exposures = old.config.exposures

\* A rule other than those in `excluded` lets key k serve group h.
Served(rules, k, h, excluded) ==
    \E r \in DOMAIN rules \ excluded : rules[r].group = h /\ k \in rules[r].config.targets

\* The two records agree about key k and group h.
Agree(b, k, h, excluded) ==
    InRuleGroup(b.keys[k], h) <=> Served(b.rules, k, h, excluded)

RuleTable(rules) == \A r \in DOMAIN rules : RuleRow(rules[r])
KeyTable(keys) == \A k \in DOMAIN keys : KeyRow(keys[k]) /\ k \in Int

\* Whether k is a target of a rule of group g after its groups have changed.
Chosen(k, g, was, before, after) ==
    \/ was /\ ~(k \in DOMAIN before /\ g \in before[k] /\ g \notin after[k])
    \/ k \in DOMAIN after /\ g \in after[k]

\* A sync of the targets changes nothing else of the rules, leaves the
\* default rule alone, and moves no key but those it is about.
LEMMA SyncTargetsIs ==
  ASSUME NEW rules, RuleTable(rules), NEW before, NEW after, DOMAIN after \subseteq Int
  PROVE  /\ DOMAIN SyncTargets(rules, before, after) = DOMAIN rules
         /\ RuleTable(SyncTargets(rules, before, after))
         /\ \A r \in DOMAIN rules :
              /\ SameButTargets(rules[r], SyncTargets(rules, before, after)[r])
              /\ rules[r].group = Default => SyncTargets(rules, before, after)[r] = rules[r]
              /\ rules[r].group # Default =>
                    \A k : k \in SyncTargets(rules, before, after)[r].config.targets
                            <=> Chosen(k, rules[r].group, k \in rules[r].config.targets,
                                       before, after)
<1> DEFINE synced == SyncTargets(rules, before, after)
<1>1. DOMAIN synced = DOMAIN rules
  BY DEF SyncTargets
<1>2. ASSUME NEW r \in DOMAIN rules
      PROVE  /\ RuleRow(synced[r]) /\ SameButTargets(rules[r], synced[r])
             /\ rules[r].group = Default => synced[r] = rules[r]
             /\ rules[r].group # Default =>
                    \A k : k \in synced[r].config.targets
                            <=> Chosen(k, rules[r].group, k \in rules[r].config.targets,
                                       before, after)
  <2> DEFINE row == rules[r]
             g == row.group
             targets == (row.config.targets \ {k \in DOMAIN before : g \in before[k] \ after[k]})
                            \cup {k \in DOMAIN after : g \in after[k]}
  <2>1. RuleRow(row)
    BY DEF RuleTable
  <2>2. synced[r] = IF g = Default THEN row ELSE [row EXCEPT !.config.targets = targets]
    BY DEF SyncTargets
  <2>3. targets \subseteq Int
    BY <2>1 DEF RuleRow
  <2>4. \A k : k \in targets <=> Chosen(k, g, k \in row.config.targets, before, after)
    BY DEF Chosen
  <2> HIDE DEF row, targets, synced
  <2>5. CASE g = Default
    BY <2>1, <2>2, <2>5 DEF SameButTargets, row
  <2>6. CASE g # Default
    <3> DEFINE new == [row EXCEPT !.config.targets = targets]
    <3>1. /\ RuleRow(new) /\ SameButTargets(row, new)
          /\ new.config.targets = targets
      BY <2>1, <2>3 DEF RuleRow, SameButTargets
    <3> HIDE DEF new
    <3>2. synced[r] = new
      BY <2>2, <2>6 DEF new
    <3> QED  BY <2>4, <2>6, <3>1, <3>2 DEF row
  <2> QED  BY <2>5, <2>6
<1> QED  BY <1>1, <1>2 DEF RuleTable

\* What no sync of the groups of keys changes.
SyncedFrom(b, synced) ==
    /\ DOMAIN synced = Tables
    /\ synced.endpoints = b.endpoints /\ synced.access = b.access
    /\ synced.maps = b.maps
    /\ DOMAIN synced.keys = DOMAIN b.keys /\ KeyTable(synced.keys)
    /\ \A k \in DOMAIN b.keys :
           synced.keys[k].endpoint = b.keys[k].endpoint
    /\ DOMAIN synced.rules = DOMAIN b.rules /\ RuleTable(synced.rules)
    /\ \A r \in DOMAIN b.rules :
           /\ SameButTargets(b.rules[r], synced.rules[r])
           /\ b.rules[r].group = Default => synced.rules[r] = b.rules[r]
           /\ \A k \in synced.rules[r].config.targets :
                   k \in b.rules[r].config.targets \cup DOMAIN b.keys

\* What a sync of the groups of keys leaves alone, and what it makes agree:
\* the pairs of a key and a group that agreed before, and those of an
\* affected key and the group that is synced.
LEMMA SyncGroupsIs ==
  ASSUME NEW b, DOMAIN b = Tables, RuleTable(b.rules), KeyTable(b.keys),
         NEW g \in Groups \cup {Default}, NEW affected, NEW excluded
  PROVE  LET synced == SyncGroups(b, g, affected, excluded) IN
         /\ SyncedFrom(b, synced)
         /\ \A k \in DOMAIN b.keys, h \in Groups :
                (h # g \/ k \notin affected => Agree(b, k, h, excluded))
                    => Agree(synced, k, h, excluded)
<1> DEFINE targets == UNION {b.rules[r].config.targets :
                            r \in {i \in DOMAIN b.rules \ excluded : b.rules[i].group = g}}
           moved == {k \in affected \cap DOMAIN b.keys :
                        InRuleGroup(b.keys[k], g) # (k \in targets)}
           Nxt(k) == IF k \in targets THEN Append(b.keys[k].groups, g)
                                      ELSE RemoveFirst(b.keys[k].groups, g)
           before == [k \in moved |-> RuleGroups(b.keys[k])]
           after == [k \in moved |-> {Default} \cup ToSet(Nxt(k))]
           synced == SyncGroups(b, g, affected, excluded)
<1>1. /\ DOMAIN synced = Tables
      /\ synced.endpoints = b.endpoints /\ synced.access = b.access
      /\ synced.maps = b.maps
      /\ synced.keys = [k \in DOMAIN b.keys |->
                            IF k \in moved THEN [b.keys[k] EXCEPT !.groups = Nxt(k)]
                            ELSE b.keys[k]]
      /\ synced.rules = SyncTargets(b.rules, before, after)
  BY DEF SyncGroups, Tables
<1>2. \A k : k \in targets <=> Served(b.rules, k, g, excluded)
  BY DEF Served
<1>3. \A k : k \in moved <=> /\ k \in affected /\ k \in DOMAIN b.keys
                             /\ ~(InRuleGroup(b.keys[k], g) <=> k \in targets)
  BY DEF InRuleGroup
<1>4. ASSUME NEW k \in moved
      PROVE  /\ k \in DOMAIN b.keys
             /\ Nxt(k) \in Lists /\ IsInjective(Nxt(k))
             /\ k \in targets => ToSet(Nxt(k)) = ToSet(b.keys[k].groups) \cup {g}
             /\ k \notin targets => ToSet(Nxt(k)) = ToSet(b.keys[k].groups) \ {g}
  <2> HIDE DEF targets, moved
  <2>1. k \in DOMAIN b.keys /\ ~(InRuleGroup(b.keys[k], g) <=> k \in targets)
    BY <1>3
  <2> DEFINE groups == b.keys[k].groups
  <2>2. groups \in Lists /\ IsInjective(groups)
    BY <2>1 DEF KeyTable, KeyRow
  <2>3. CASE k \in targets
    <3>1. g \notin ToSet(groups)
      BY <2>1, <2>3 DEF InRuleGroup, RuleGroups
    <3> HIDE DEF groups
    <3>2. /\ Append(groups, g) \in Lists /\ IsInjective(Append(groups, g))
          /\ ToSet(Append(groups, g)) = ToSet(groups) \cup {g}
      BY <2>2, <3>1, Joined
    <3> QED  BY <2>1, <2>3, <3>2 DEF groups
  <2>4. CASE k \notin targets
    <3> HIDE DEF groups
    <3>2. /\ RemoveFirst(groups, g) \in Lists /\ IsInjective(RemoveFirst(groups, g))
          /\ ToSet(RemoveFirst(groups, g)) = ToSet(groups) \ {g}
      BY <2>2, Left
    <3> QED  BY <2>1, <2>4, <3>2 DEF groups
  <2> QED  BY <2>3, <2>4
<1>5. DOMAIN before = moved /\ DOMAIN after = moved /\ moved \subseteq Int
  BY <1>3 DEF KeyTable
<1>6. ASSUME NEW k \in moved
      PROVE  /\ before[k] = {Default} \cup ToSet(b.keys[k].groups)
             /\ k \in targets => after[k] = before[k] \cup {g}
             /\ k \notin targets => after[k] = {Default} \cup (before[k] \ {g})
  BY <1>4 DEF RuleGroups
<1> HIDE DEF targets, moved, before, after, synced, Nxt
<1>7. /\ DOMAIN synced.rules = DOMAIN b.rules
      /\ RuleTable(synced.rules)
      /\ \A r \in DOMAIN b.rules :
            /\ SameButTargets(b.rules[r], synced.rules[r])
            /\ b.rules[r].group = Default => synced.rules[r] = b.rules[r]
            /\ b.rules[r].group # Default =>
                    \A k : k \in synced.rules[r].config.targets
                            <=> Chosen(k, b.rules[r].group, k \in b.rules[r].config.targets,
                                       before, after)
  BY <1>1, <1>5, SyncTargetsIs
<1>8. DOMAIN synced.keys = DOMAIN b.keys
  BY <1>1
<1>9. ASSUME NEW k \in DOMAIN b.keys
      PROVE  /\ KeyRow(synced.keys[k]) /\ k \in Int
             /\ synced.keys[k].endpoint = b.keys[k].endpoint
             /\ k \notin moved => synced.keys[k] = b.keys[k]
             /\ k \in moved => RuleGroups(synced.keys[k]) = after[k]
  <2>1. KeyRow(b.keys[k]) /\ k \in Int
    BY DEF KeyTable
  <2>2. CASE k \notin moved
    <3>1. synced.keys[k] = b.keys[k]
      BY <1>1, <2>2
    <3> QED  BY <2>1, <2>2, <3>1
  <2>3. CASE k \in moved
    <3> DEFINE list == Nxt(k)
               row == [b.keys[k] EXCEPT !.groups = list]
    <3>1. list \in Lists /\ IsInjective(list)
      BY <1>4, <2>3
    <3>2. synced.keys[k] = row
      BY <1>1, <2>3
    <3> HIDE DEF list
    <3>3. KeyRow(row) /\ row.endpoint = b.keys[k].endpoint /\ row.groups = list
      BY <2>1, <3>1 DEF KeyRow
    <3>4. after[k] = {Default} \cup ToSet(list)
      BY <2>3 DEF after, list
    <3> HIDE DEF row
    <3> QED  BY <2>1, <2>3, <3>2, <3>3, <3>4 DEF RuleGroups
  <2> QED  BY <2>2, <2>3
<1>10. ASSUME NEW r \in DOMAIN b.rules, NEW k \in synced.rules[r].config.targets
       PROVE  k \in b.rules[r].config.targets \cup DOMAIN b.keys
  BY <1>3, <1>5, <1>7 DEF Chosen
<1>11. ASSUME NEW k \in DOMAIN b.keys, NEW h \in Groups,
              h # g \/ k \notin affected => Agree(b, k, h, excluded)
       PROVE  Agree(synced, k, h, excluded)
  <2>1. h # Default
    BY CatalogAssumption
  <2>2. \A r \in DOMAIN b.rules :
            /\ synced.rules[r].group = b.rules[r].group
            /\ b.rules[r].group = h =>
                    (k \in synced.rules[r].config.targets
                        <=> Chosen(k, h, k \in b.rules[r].config.targets, before, after))
    BY <1>7, <2>1 DEF SameButTargets
  <2>3. CASE k \notin moved
    <3>1. synced.keys[k] = b.keys[k]
      BY <1>9, <2>3
    <3>2. Served(synced.rules, k, h, excluded) <=> Served(b.rules, k, h, excluded)
      BY <1>5, <1>7, <2>2, <2>3 DEF Served, Chosen
    <3>3. h = g /\ k \in affected
            => (InRuleGroup(b.keys[k], h) <=> Served(b.rules, k, h, excluded))
      BY <1>2, <1>3, <2>3
    <3> QED  BY <1>11, <3>1, <3>2, <3>3 DEF Agree
  <2>4. CASE k \in moved
    <3>1. InRuleGroup(synced.keys[k], h) <=> h \in after[k]
      BY <1>9, <2>4 DEF InRuleGroup
    <3>2. InRuleGroup(b.keys[k], h) <=> h \in before[k]
      BY <1>6, <2>4 DEF InRuleGroup, RuleGroups
    <3>3. ASSUME Served(synced.rules, k, h, excluded) PROVE h \in after[k]
      <4>1. SUFFICES ASSUME h \notin after[k] PROVE FALSE
        OBVIOUS
      <4>2. PICK r \in DOMAIN b.rules \ excluded :
                b.rules[r].group = h /\ k \in synced.rules[r].config.targets
        BY <1>7, <2>2, <3>3 DEF Served
      <4>3. k \in b.rules[r].config.targets /\ h \notin before[k]
        BY <1>5, <2>2, <2>4, <4>1, <4>2 DEF Chosen
      <4>4. Served(b.rules, k, h, excluded)
        BY <4>2, <4>3 DEF Served
      <4>5. CASE h = g
        BY <1>2, <1>6, <2>4, <4>1, <4>4, <4>5
      <4>6. CASE h # g
        BY <1>11, <3>2, <4>3, <4>4, <4>6 DEF Agree
      <4> QED  BY <4>5, <4>6
    <3>4. ASSUME h \in after[k] PROVE Served(synced.rules, k, h, excluded)
      <4>1. PICK r \in DOMAIN b.rules \ excluded : b.rules[r].group = h
        <5>1. CASE h = g
          <6>1. k \in targets
            BY <1>6, <2>1, <2>4, <3>4, <5>1
          <6> QED  BY <1>2, <5>1, <6>1 DEF Served
        <5>2. CASE h # g
          <6>1. h \in before[k]
            BY <1>6, <2>1, <2>4, <3>4, <5>2
          <6> QED  BY <1>11, <3>2, <5>2, <6>1 DEF Agree, Served
        <5> QED  BY <5>1, <5>2
      <4>2. k \in synced.rules[r].config.targets
        BY <1>5, <2>2, <2>4, <3>4, <4>1 DEF Chosen
      <4> QED  BY <1>7, <2>2, <4>1, <4>2 DEF Served
    <3> QED  BY <3>1, <3>3, <3>4 DEF Agree
  <2> QED  BY <2>3, <2>4
<1>12. KeyTable(synced.keys)
  BY <1>8, <1>9 DEF KeyTable
<1> QED  BY <1>1, <1>7, <1>8, <1>9, <1>10, <1>11, <1>12 DEF synced, SyncedFrom

-----------------------------------------------------------------------------
(* Types of what a handler wants.                                          *)

\* Each table, and all of them, as a handler may want them.
EndpointsWanted(after) ==
    \A e \in DOMAIN after.endpoints :
        (e \in DOMAIN db.endpoints \/ e = New) /\ EndpointRow(after.endpoints[e])

KeysWanted(after) ==
    \A k \in DOMAIN after.keys :
        /\ KeyRow(after.keys[k])
        /\ \/ k \in DOMAIN db.keys /\ after.keys[k].endpoint = db.keys[k].endpoint
           \/ /\ k = New
              /\ \/ after.keys[k].endpoint \in Ids
                 \/ after.keys[k].endpoint = New /\ New \in DOMAIN after.endpoints

RulesWanted(after) ==
    \A r \in DOMAIN after.rules :
        /\ RuleRow(after.rules[r]) /\ (r \in DOMAIN db.rules \/ r = New)
        /\ \A k \in after.rules[r].config.targets :
                k \in Ids \/ (k = New /\ New \in DOMAIN after.keys)

AccessWanted(after) ==
    \A i \in DOMAIN after.access :
        (i \in DOMAIN db.access \/ i = New) /\ AccessKeyRow(after.access[i])

MapsWanted(after) ==
    /\ IsFiniteSet(DOMAIN after.maps)
    /\ \A i \in DOMAIN after.maps :
        (i \in DOMAIN db.maps \/ (i \in Int /\ i < 0)) /\ MapRow(after.maps[i])

Typed(after, call) ==
    /\ DOMAIN after = Tables
    /\ EndpointsWanted(after) /\ KeysWanted(after) /\ RulesWanted(after)
    /\ AccessWanted(after) /\ MapsWanted(after)
    /\ IF call.op = "delete_endpoint"
       THEN /\ after.rules = db.rules
            /\ \A k \in DOMAIN after.keys : k \in DOMAIN db.keys /\ after.keys[k] = db.keys[k]
       ELSE DOMAIN db.endpoints \subseteq DOMAIN after.endpoints

\* What the invariants say of the committed rows, row by row.
LEMMA Rows ==
  ASSUME TokenInv, TypeInv
  PROVE  /\ DOMAIN db = Tables
         /\ \A t \in Tables : DOMAIN db[t] \subseteq Ids /\ New \notin DOMAIN db[t]
                              /\ IsFiniteSet(DOMAIN db[t])
         /\ \A e \in DOMAIN db.endpoints : EndpointRow(db.endpoints[e])
         /\ KeyTable(db.keys) /\ RuleTable(db.rules)
         /\ \A k \in DOMAIN db.keys : db.keys[k].endpoint \in DOMAIN db.endpoints
         /\ \A r \in DOMAIN db.rules : \A k \in db.rules[r].config.targets :
                k \in Ids
         /\ \A i \in DOMAIN db.access : AccessKeyRow(db.access[i])
         /\ \A i \in DOMAIN db.maps :
                MapRow(db.maps[i]) /\ db.maps[i].endpoint \in DOMAIN db.endpoints
         /\ last.keys \in Nat
<1>1. \A t \in Tables : DOMAIN db[t] \subseteq Ids /\ New \notin DOMAIN db[t]
                              /\ IsFiniteSet(DOMAIN db[t])
  <2> SUFFICES ASSUME NEW t \in Tables
               PROVE  /\ DOMAIN db[t] \subseteq Ids /\ New \notin DOMAIN db[t]
                      /\ IsFiniteSet(DOMAIN db[t])
    OBVIOUS
  <2>1. DOMAIN db[t] \subseteq 1 .. last[t] /\ last[t] \in Nat /\ IsFiniteSet(DOMAIN db[t])
    BY DEF TypeInv
  <2> QED  BY <2>1 DEF Ids, New
<1>2. \A e \in DOMAIN db.endpoints : e \in Int
  BY <1>1 DEF Ids, Tables
<1>3. WellFormed(db, tokens) /\ last.keys \in Nat /\ tokens \in Nat
  BY DEF TypeInv, Tables, TokenInv, Issued, Sessions
<1>4. \A e \in DOMAIN db.endpoints : EndpointRow(db.endpoints[e])
  BY <1>3 DEF WellFormed, EndpointRow
<1>5. KeyTable(db.keys) /\ \A k \in DOMAIN db.keys : db.keys[k].endpoint \in DOMAIN db.endpoints
  <2>1. \A k \in DOMAIN db.keys : k \in Int
    BY <1>1 DEF Ids, Tables
  <2>2. ASSUME NEW k \in DOMAIN db.keys
        PROVE  KeyRow(db.keys[k]) /\ db.keys[k].endpoint \in DOMAIN db.endpoints
    <3>1. /\ db.keys[k] \in [endpoint : DOMAIN db.endpoints, active : BOOLEAN,
                             groups : Seq(Groups \cup {Default})]
          /\ IsInjective(db.keys[k].groups)
      BY <1>3 DEF WellFormed
    <3> QED  BY <1>2, <3>1 DEF KeyRow, Lists
  <2> QED  BY <2>1, <2>2 DEF KeyTable
<1>6. /\ RuleTable(db.rules)
      /\ \A r \in DOMAIN db.rules : \A k \in db.rules[r].config.targets :
            k \in Ids
  <2>1. ASSUME NEW r \in DOMAIN db.rules
        PROVE  RuleRow(db.rules[r]) /\ \A k \in db.rules[r].config.targets : k \in Ids
    <3>1. db.rules[r] \in [group : Groups \cup {Default}, active : BOOLEAN,
                        pattern : SUBSET Models,
                        config : [targets : SUBSET Ids,
                                  exposures : SUBSET Formats]]
      BY <1>3 DEF WellFormed, Ids
    <3>2. SUBSET Ids \subseteq SUBSET Int
      BY DEF Ids
    <3> QED  BY <3>1, <3>2 DEF RuleRow
  <2> QED  BY <2>1 DEF RuleTable
<1>7. \A i \in DOMAIN db.access : AccessKeyRow(db.access[i])
  BY <1>3 DEF WellFormed, AccessKeyRow, Lists
<1>8. \A i \in DOMAIN db.maps : MapRow(db.maps[i]) /\ db.maps[i].endpoint \in DOMAIN db.endpoints
  BY <1>2, <1>3 DEF WellFormed, MapRow
<1> QED  BY <1>1, <1>3, <1>4, <1>5, <1>6, <1>7, <1>8 DEF TokenInv, Issued, Sessions

\* A table that a handler leaves alone.
LEMMA SameTables ==
  ASSUME TokenInv, TypeInv, NEW after
  PROVE  /\ after.endpoints = db.endpoints => EndpointsWanted(after)
         /\ after.keys = db.keys => KeysWanted(after)
         /\ after.rules = db.rules => RulesWanted(after)
         /\ after.access = db.access => AccessWanted(after)
         /\ after.maps = db.maps => MapsWanted(after)
<1>1. after.endpoints = db.endpoints => EndpointsWanted(after)
  BY Rows DEF EndpointsWanted
<1>2. after.keys = db.keys => KeysWanted(after)
  BY Rows DEF KeysWanted, KeyTable
<1>3. after.rules = db.rules => RulesWanted(after)
  BY Rows DEF RulesWanted, RuleTable
<1>4. after.access = db.access => AccessWanted(after)
  BY Rows DEF AccessWanted
<1>5. after.maps = db.maps => MapsWanted(after)
  BY Rows DEF MapsWanted, Tables
<1> QED  BY <1>1, <1>2, <1>3, <1>4, <1>5

\* The changes a handler works out, row by row.
LEMMA ChangesAre ==
  ASSUME NEW before, NEW after, NEW t \in DOMAIN before
  PROVE  LET c == Changes(before, after)[t] IN
         /\ DOMAIN c = {"old", "new"}
         /\ DOMAIN c.old \subseteq DOMAIN before[t]
         /\ \A i \in DOMAIN c.old : c.old[i] = before[t][i]
         /\ DOMAIN c.new \subseteq DOMAIN after[t]
         /\ \A i \in DOMAIN c.new : c.new[i] = after[t][i]
         /\ \A i \in DOMAIN before[t] \ DOMAIN after[t] : i \in DOMAIN c.old
         /\ \A i \in DOMAIN after[t] \ DOMAIN before[t] : i \in DOMAIN c.new
         /\ \A i \in DOMAIN after[t] \cap DOMAIN before[t] :
                /\ i \in DOMAIN c.old <=> i \in DOMAIN c.new
                /\ i \notin DOMAIN c.new <=> before[t][i] = after[t][i]
BY DEF Changes, TableChanges, Touched, Restrict

\* A handler that wants well-typed tables starts a session that writes them.
LEMMA StartTypes ==
  ASSUME TokenInv, TypeInv, NEW a \in Admins, NEW call, NEW after, Start(a, call, after),
         Typed(after, call)
  PROVE  TypeInv'
<1> DEFINE c == Changes(db, after)
           job == [op |-> call.op, call |-> call, changes |-> c, stale |-> {}]
           open == {b \in Admins : jobs[b] # Idle}
<1>1. /\ jobs' = [jobs EXCEPT ![a] = job] /\ jobs[a] = Idle
      /\ calls < MaxCalls /\ calls' = calls + 1
      /\ UNCHANGED <<db, last, tokens, raced, orphans, revoked>>
  BY DEF Start
<1>2. DOMAIN db = Tables /\ DOMAIN jobs = Admins
  BY DEF TokenInv, Issued, Sessions
<1>3. \A t \in Tables :
         /\ DOMAIN c[t].old \subseteq DOMAIN db[t]
         /\ \A i \in DOMAIN c[t].old : c[t].old[i] = db[t][i]
         /\ DOMAIN c[t].new \subseteq DOMAIN after[t]
         /\ \A i \in DOMAIN c[t].new : c[t].new[i] = after[t][i]
         /\ \A i \in DOMAIN db[t] \ DOMAIN after[t] : i \in DOMAIN c[t].old
         /\ \A i \in DOMAIN after[t] \ DOMAIN db[t] : i \in DOMAIN c[t].new
         /\ \A i \in DOMAIN after[t] \cap DOMAIN db[t] :
                /\ i \in DOMAIN c[t].old <=> i \in DOMAIN c[t].new
                /\ i \notin DOMAIN c[t].new <=> db[t][i] = after[t][i]
  <2> SUFFICES ASSUME NEW t \in Tables
               PROVE /\ DOMAIN c[t].old \subseteq DOMAIN db[t]
                     /\ \A i \in DOMAIN c[t].old : c[t].old[i] = db[t][i]
                     /\ DOMAIN c[t].new \subseteq DOMAIN after[t]
                     /\ \A i \in DOMAIN c[t].new : c[t].new[i] = after[t][i]
                     /\ \A i \in DOMAIN db[t] \ DOMAIN after[t] : i \in DOMAIN c[t].old
                     /\ \A i \in DOMAIN after[t] \ DOMAIN db[t] : i \in DOMAIN c[t].new
                     /\ \A i \in DOMAIN after[t] \cap DOMAIN db[t] :
                            /\ i \in DOMAIN c[t].old <=> i \in DOMAIN c[t].new
                            /\ i \notin DOMAIN c[t].new <=> db[t][i] = after[t][i]
    OBVIOUS
  <2> HIDE DEF c
  <2> QED  BY <1>2, ChangesAre DEF c
<1> HIDE DEF c
<1>4. \A t \in Tables : DOMAIN db[t] \subseteq Ids /\ New \notin DOMAIN db[t]
  BY Rows
<1>5. \A t \in Tables : DOMAIN c[t].old \subseteq Ids
  BY <1>3, <1>4
<1>6. /\ DOMAIN c.endpoints.new \subseteq DOMAIN c.endpoints.old \cup {New}
      /\ \A i \in DOMAIN c.endpoints.new : EndpointRow(c.endpoints.new[i])
  BY <1>3 DEF Tables, Typed, EndpointsWanted
<1>7. /\ DOMAIN c.keys.new \subseteq DOMAIN c.keys.old \cup {New}
      /\ \A i \in DOMAIN c.keys.new : KeyRow(c.keys.new[i])
      /\ \A k \in DOMAIN c.keys.old \cap DOMAIN c.keys.new :
            c.keys.new[k].endpoint = c.keys.old[k].endpoint
      /\ New \in DOMAIN c.keys.new =>
            \/ c.keys.new[New].endpoint \in Ids
            \/ c.keys.new[New].endpoint = New /\ New \in DOMAIN c.endpoints.new
  BY <1>3, <1>4 DEF Tables, Typed, KeysWanted
<1>8. /\ DOMAIN c.rules.new \subseteq DOMAIN c.rules.old \cup {New}
      /\ \A r \in DOMAIN c.rules.new :
            /\ RuleRow(c.rules.new[r])
            /\ \A k \in c.rules.new[r].config.targets :
                    k \in Ids \/ (k = New /\ New \in DOMAIN c.keys.new)
  BY <1>3, <1>4 DEF Tables, Typed, RulesWanted
<1>9. /\ DOMAIN c.access.new \subseteq DOMAIN c.access.old \cup {New}
      /\ \A i \in DOMAIN c.access.new : AccessKeyRow(c.access.new[i])
  BY <1>3 DEF Tables, Typed, AccessWanted
<1>10. /\ \A i \in DOMAIN c.maps.new : MapRow(c.maps.new[i])
       /\ \A i \in DOMAIN c.maps.new : i \in DOMAIN c.maps.old \/ (i \in Int /\ i < 0)
       /\ IsFiniteSet(DOMAIN c.maps.new)
  <2>1. IsFiniteSet(DOMAIN after.maps) /\ DOMAIN c.maps.new \subseteq DOMAIN after.maps
    BY <1>3 DEF Tables, Typed, MapsWanted
  <2>2. IsFiniteSet(DOMAIN c.maps.new)
    BY <2>1, FS_Subset
  <2> QED  BY <1>3, <2>2 DEF Tables, Typed, MapsWanted
<1>11. IF call.op = "delete_endpoint"
       THEN /\ DOMAIN c.rules.old = {} /\ DOMAIN c.rules.new = {}
            /\ DOMAIN c.keys.new = {}
       ELSE Removed(c.endpoints) = {}
  BY <1>3 DEF Tables, Typed, Removed
<1>12. \A t \in Tables \ {"maps"} : DOMAIN c[t].new \subseteq DOMAIN c[t].old \cup {New}
  BY <1>6, <1>7, <1>8, <1>9 DEF Tables
<1>13. \A t \in Tables :
        /\ DOMAIN c[t].new \subseteq Int /\ IsFiniteSet(DOMAIN c[t].new)
        /\ \A i \in DOMAIN c[t].new : i \in DOMAIN c[t].old \/ i < 0
  <2>1. \A t \in Tables \ {"maps"} : \A i \in DOMAIN c[t].new :
            i \in Int /\ (i \in DOMAIN c[t].old \/ i < 0)
    <3>1. New \in Int /\ New < 0 /\ Ids \subseteq Int
      BY DEF New, Ids
    <3> QED  BY <1>5, <1>12, <3>1
  <2>2. \A i \in DOMAIN c["maps"].new :
            i \in Int /\ (i \in DOMAIN c["maps"].old \/ i < 0)
    <3>1. \A i \in DOMAIN c["maps"].old : i \in Int
      BY <1>5 DEF Ids, Tables
    <3> QED  BY <1>10, <3>1
  <2>3. \A t \in Tables \ {"maps"} : IsFiniteSet(DOMAIN c[t].new)
    <3> SUFFICES ASSUME NEW t \in Tables \ {"maps"} PROVE IsFiniteSet(DOMAIN c[t].new)
      OBVIOUS
    <3> DEFINE S == DOMAIN db[t]
    <3>1. IsFiniteSet(S) /\ DOMAIN c[t].new \subseteq S \cup {New}
      BY <1>3, <1>12, Rows
    <3> HIDE DEF S
    <3>2. IsFiniteSet(S \cup {New})
      BY <3>1, FS_AddElement
    <3> QED  BY <3>1, <3>2, FS_Subset
  <2> QED  BY <1>10, <2>1, <2>2, <2>3
<1>14. job.op = call.op /\ job.changes = c /\ job # Idle
  <2>1. "stale" \in DOMAIN job /\ "stale" \notin DOMAIN Idle
    BY DEF Idle
  <2> QED  BY <2>1
<1> HIDE DEF job
<1>15. Writes(job)
  BY <1>5, <1>6, <1>7, <1>8, <1>9, <1>10, <1>11, <1>12, <1>13, <1>14 DEF Writes, Updated
<1>16. \A b \in Admins : jobs'[b] # Idle => Writes(jobs'[b])
  BY <1>1, <1>2, <1>15 DEF TypeInv
<1>17. /\ calls' \in 0..MaxCalls
       /\ Cardinality({b \in Admins : jobs'[b] # Idle}) <= calls'
  <2>1. {b \in Admins : jobs'[b] # Idle} = open \cup {a} /\ a \notin open
    BY <1>1, <1>2, <1>14
  <2>2. IsFiniteSet(open)
    BY CatalogAssumption, FS_Subset
  <2>3. Cardinality(open) <= calls /\ calls \in 0..MaxCalls /\ MaxCalls \in Nat
    BY CatalogAssumption DEF TypeInv
  <2> HIDE DEF open
  <2>4. Cardinality(open \cup {a}) = Cardinality(open) + 1 /\ Cardinality(open) \in Nat
    BY <2>1, <2>2, FS_AddElement, FS_CardinalityType
  <2> QED  BY <1>1, <2>1, <2>3, <2>4
<1> QED  BY <1>1, <1>16, <1>17 DEF TypeInv

-----------------------------------------------------------------------------
(* Soundness of what a handler wants.                                      *)

\* A handler that read a sound database wants a sound one ...
Keeps(after) == Membership(db, orphans) /\ Disjoint(db) => Sound(after, orphans)

\* ... or one that is sound but for the ids its call names without a key.
KeepsBut(after, call) ==
    Membership(db, orphans) /\ Disjoint(db) => Sound(after, orphans \cup Strays(call))

\* More may always be excused.
LEMMA ExcuseMore ==
  ASSUME NEW b, NEW few, NEW many, few \subseteq many
  PROVE  /\ Membership(b, few) => Membership(b, many)
         /\ Sound(b, few) => Sound(b, many)
<1>1. Membership(b, few) => Membership(b, many)
  BY DEF Membership
<1> QED  BY <1>1 DEF Sound

\* A handler that keeps the database sound does so whatever its call names.
LEMMA KeepsAny ==
  ASSUME NEW after, Keeps(after), NEW call
  PROVE  KeepsBut(after, call)
<1>1. Sound(after, orphans) => Sound(after, orphans \cup Strays(call))
  BY ExcuseMore
<1> QED  BY <1>1 DEF Keeps, KeepsBut

\* Membership, pair by pair.
LEMMA MembershipIs ==
  ASSUME NEW b, NEW O
  PROVE  Membership(b, O) <=>
            /\ \A r \in DOMAIN b.rules : b.rules[r].group # Default =>
                    \A k \in b.rules[r].config.targets : k \in DOMAIN b.keys \/ k \in O
            /\ \A k \in DOMAIN b.keys \ O, g \in Groups : Agree(b, k, g, {})
<1>1. Targeted(b) \subseteq DOMAIN b.keys \cup O <=>
        \A r \in DOMAIN b.rules : b.rules[r].group # Default =>
                    \A k \in b.rules[r].config.targets : k \in DOMAIN b.keys \/ k \in O
  BY DEF Targeted
<1>2. \A k, g : Agree(b, k, g, {}) <=>
        (InRuleGroup(b.keys[k], g) <=>
            \E r \in DOMAIN b.rules :
                b.rules[r].group = g /\ k \in b.rules[r].config.targets)
  BY DEF Agree, Served
<1> QED  BY <1>1, <1>2 DEF Membership

\* Rules whose groups and formats stay do not come to overlap.
LEMMA DisjointKept ==
  ASSUME NEW b, NEW after, Disjoint(b),
         \A r \in DOMAIN after.rules : after.rules[r].group # Default =>
            /\ r \in DOMAIN b.rules
            /\ after.rules[r].group = b.rules[r].group
            /\ after.rules[r].config.exposures = b.rules[r].config.exposures
  PROVE  Disjoint(after)
BY DEF Disjoint

\* Default rules that stay, or are made proper, stay proper.
LEMMA ProperKept ==
  ASSUME NEW b, NEW after, Proper(b),
         \A r \in DOMAIN b.rules : b.rules[r].group = Default => r \in DOMAIN after.rules,
         \A r \in DOMAIN b.rules : b.rules[r].group = Default =>
            after.rules[r].group = Default,
         \A r \in DOMAIN after.rules : after.rules[r].group = Default =>
            \/ IsProperDefault(after.rules[r])
            \/ r \in DOMAIN b.rules /\ after.rules[r] = b.rules[r]
  PROVE  Proper(after)
BY DEF Proper, DefaultRules

\* A handler that changes neither keys nor rules.
LEMMA SameSound ==
  ASSUME NEW after, after.keys = db.keys, after.rules = db.rules
  PROVE  Keeps(after)
BY DEF Keeps, Sound, Membership, Targeted, Disjoint, Proper, DefaultRules

\* EnsureDefault adds a default rule or rewrites one, and no other.
LEMMA EnsureDefaultIs ==
  ASSUME NEW b, DOMAIN b = Tables, RuleTable(b.rules), DOMAIN b.rules \subseteq Ids,
         IsFiniteSet(DOMAIN b.rules)
  PROVE  LET ensured == EnsureDefault(b) IN
         /\ DOMAIN ensured = Tables
         /\ ensured.endpoints = b.endpoints /\ ensured.keys = b.keys
         /\ ensured.access = b.access /\ ensured.maps = b.maps
         /\ RuleTable(ensured.rules)
         /\ \A r \in DOMAIN ensured.rules : r \in DOMAIN b.rules \/ r = New
         /\ \A r \in DOMAIN b.rules : /\ r \in DOMAIN ensured.rules
                                      /\ ensured.rules[r].group = b.rules[r].group
         /\ \A r \in DOMAIN ensured.rules :
                \/ r \in DOMAIN b.rules /\ ensured.rules[r] = b.rules[r]
                \/ ensured.rules[r].group = Default /\ IsProperDefault(ensured.rules[r])
<1> DEFINE found == {r \in DOMAIN b.rules : b.rules[r].group = Default}
           r0 == IF found = {} THEN New ELSE Min(found)
           row == [group |-> Default, active |-> TRUE, pattern |-> Models,
                   config |-> DefaultConfig]
           ensured == EnsureDefault(b)
<1>1. /\ DOMAIN ensured = Tables
      /\ ensured.endpoints = b.endpoints /\ ensured.keys = b.keys
      /\ ensured.access = b.access /\ ensured.maps = b.maps
      /\ ensured.rules = With(b.rules, r0, row)
  BY DEF EnsureDefault, Tables
<1>2. r0 = New \/ (r0 \in DOMAIN b.rules /\ b.rules[r0].group = Default)
  <2>1. CASE found # {}
    <3>1. found \subseteq DOMAIN b.rules /\ found \in SUBSET Nat
      BY DEF Ids
    <3>2. IsFiniteSet(found)
      BY <3>1, FS_Subset
    <3> HIDE DEF found
    <3>3. Min(found) \in found
      BY <2>1, <3>1, <3>2, MinOfFinite
    <3> QED  BY <2>1, <3>3 DEF found
  <2>2. CASE found = {}
    BY <2>2
  <2> QED  BY <2>1, <2>2
<1>3. RuleRow(row) /\ IsProperDefault(row) /\ row.group = Default
  BY DEF RuleRow, IsProperDefault, DefaultConfig
<1> HIDE DEF r0, row, ensured
<1>4. /\ DOMAIN ensured.rules = DOMAIN b.rules \cup {r0}
      /\ ensured.rules[r0] = row
      /\ \A r \in DOMAIN b.rules : r # r0 => ensured.rules[r] = b.rules[r]
  BY <1>1 DEF With
<1>5. New \notin DOMAIN b.rules
  BY DEF New, Ids
<1>6. RuleTable(ensured.rules)
  BY <1>3, <1>4 DEF RuleTable
<1>7. \A r \in DOMAIN b.rules :
        r \in DOMAIN ensured.rules /\ ensured.rules[r].group = b.rules[r].group
  BY <1>2, <1>3, <1>4, <1>5
<1> QED  BY <1>1, <1>2, <1>3, <1>4, <1>6, <1>7 DEF ensured

\* The rules as they are, but for a default rule that was made proper.
Ensured(rules) ==
    /\ RuleTable(rules)
    /\ \A r \in DOMAIN rules : r \in DOMAIN db.rules \/ r = New
    /\ \A r \in DOMAIN db.rules : r \in DOMAIN rules /\ rules[r].group = db.rules[r].group
    /\ \A r \in DOMAIN rules :
        \/ r \in DOMAIN db.rules /\ rules[r] = db.rules[r]
        \/ rules[r].group = Default /\ IsProperDefault(rules[r])

\* A key's groups change, or a key comes or goes: the rules are synced with
\* the groups the key has after that.  `synced` are the rules before the
\* default rule was ensured, `rules` those the key is synced with.
LEMMA OneKeyRules ==
  ASSUME TokenInv, TypeInv, NEW rules, Ensured(rules),
         NEW k0, k0 \in DOMAIN db.keys \/ k0 = New, NEW before, NEW after,
         DOMAIN before = {k0}, DOMAIN after = {k0}
  PROVE  LET synced == SyncTargets(rules, before, after) IN
         /\ DOMAIN synced = DOMAIN rules /\ RuleTable(synced)
         /\ \A r \in DOMAIN synced : \A k \in synced[r].config.targets :
                k \in Ids \/ k = k0
         /\ \A b : b.rules = synced =>
                /\ Disjoint(db) => Disjoint(b)
                /\ Proper(db) => Proper(b)
         /\ \A r \in DOMAIN synced : synced[r].group # Default =>
                /\ r \in DOMAIN db.rules /\ synced[r].group = db.rules[r].group
                /\ \A k : k \in synced[r].config.targets
                            <=> Chosen(k, db.rules[r].group,
                                       k \in db.rules[r].config.targets, before, after)
         /\ \A r \in DOMAIN db.rules : r \in DOMAIN synced /\ synced[r].group = db.rules[r].group
<1> DEFINE synced == SyncTargets(rules, before, after)
<1>0. k0 \in Int
  BY Rows DEF New, KeyTable
<1>1. /\ DOMAIN synced = DOMAIN rules /\ RuleTable(synced)
      /\ \A r \in DOMAIN rules :
           /\ SameButTargets(rules[r], synced[r])
           /\ rules[r].group = Default => synced[r] = rules[r]
           /\ rules[r].group # Default =>
                 \A k : k \in synced[r].config.targets
                         <=> Chosen(k, rules[r].group, k \in rules[r].config.targets,
                                    before, after)
  BY <1>0, SyncTargetsIs DEF Ensured
<1> HIDE DEF synced
<1>2. \A r \in DOMAIN synced : synced[r].group # Default =>
                /\ r \in DOMAIN db.rules /\ synced[r].group = db.rules[r].group
                /\ rules[r] = db.rules[r]
                /\ synced[r].config.exposures = db.rules[r].config.exposures
  BY <1>1 DEF SameButTargets, Ensured
<1>3. \A r \in DOMAIN synced : synced[r].group # Default =>
        \A k : k \in synced[r].config.targets
            <=> Chosen(k, db.rules[r].group, k \in db.rules[r].config.targets, before, after)
  BY <1>1, <1>2 DEF SameButTargets
<1>4. \A r \in DOMAIN db.rules : r \in DOMAIN synced /\ synced[r].group = db.rules[r].group
  BY <1>1 DEF SameButTargets, Ensured
<1>5. \A r \in DOMAIN synced : synced[r].group = Default =>
        \/ IsProperDefault(synced[r])
        \/ r \in DOMAIN db.rules /\ synced[r] = db.rules[r]
  BY <1>1 DEF SameButTargets, Ensured
<1>6. \A r \in DOMAIN db.rules : \A k \in db.rules[r].config.targets : k \in Ids
  BY Rows
<1>7. \A r \in DOMAIN synced : \A k \in synced[r].config.targets : k \in Ids \/ k = k0
  <2> SUFFICES ASSUME NEW r \in DOMAIN synced, NEW k \in synced[r].config.targets
               PROVE  k \in Ids \/ k = k0
    OBVIOUS
  <2>1. CASE synced[r].group = Default
    <3>1. IsProperDefault(synced[r]) => synced[r].config.targets = {}
      BY DEF IsProperDefault, DefaultConfig
    <3> QED  BY <1>5, <1>6, <2>1, <3>1
  <2>2. CASE synced[r].group # Default
    BY <1>2, <1>3, <1>6, <2>2 DEF Chosen
  <2> QED  BY <2>1, <2>2
<1>8. ASSUME NEW b, b.rules = synced, Disjoint(db) PROVE Disjoint(b)
  BY <1>2, <1>8, DisjointKept
<1>9. ASSUME NEW b, b.rules = synced, Proper(db) PROVE Proper(b)
  BY <1>4, <1>5, <1>9, ProperKept
<1> QED  BY <1>1, <1>2, <1>3, <1>4, <1>7, <1>8, <1>9 DEF synced

\* ... and if the key lists just those groups, or is gone, the two records
\* agree again.
LEMMA OneKeySound ==
  ASSUME TokenInv, TypeInv, NEW rules, Ensured(rules),
         NEW k0, k0 \in DOMAIN db.keys \/ k0 = New, NEW before, NEW after,
         DOMAIN before = {k0}, DOMAIN after = {k0},
         NEW b, b.rules = SyncTargets(rules, before, after),
         \A k \in DOMAIN b.keys : k = k0 \/ k \in DOMAIN db.keys,
         \A k \in DOMAIN db.keys : k = k0 \/ k \in DOMAIN b.keys,
         \A k \in DOMAIN db.keys : k = k0 \/ b.keys[k] = db.keys[k],
         k0 \in DOMAIN b.keys =>
            \A g \in Groups : InRuleGroup(b.keys[k0], g) <=> g \in after[k0],
         k0 \notin DOMAIN b.keys => after[k0] = {},
         k0 \in DOMAIN db.keys => before[k0] = RuleGroups(db.keys[k0]),
         \A g \in after[k0] : g = Default \/ \E r \in DOMAIN db.rules : db.rules[r].group = g
  PROVE  Keeps(b)
<1> SUFFICES ASSUME Membership(db, orphans), Disjoint(db) PROVE Sound(b, orphans)
  BY DEF Keeps
<1>1. /\ Disjoint(b) /\ (Proper(db) => Proper(b))
      /\ \A r \in DOMAIN b.rules : b.rules[r].group # Default =>
                /\ r \in DOMAIN db.rules /\ b.rules[r].group = db.rules[r].group
                /\ \A k : k \in b.rules[r].config.targets
                            <=> Chosen(k, db.rules[r].group,
                                       k \in db.rules[r].config.targets, before, after)
      /\ \A r \in DOMAIN db.rules : r \in DOMAIN b.rules /\ b.rules[r].group = db.rules[r].group
  <2> DEFINE synced == SyncTargets(rules, before, after)
  <2>1. /\ \A c : c.rules = synced =>
                /\ Disjoint(db) => Disjoint(c)
                /\ Proper(db) => Proper(c)
        /\ \A r \in DOMAIN synced : synced[r].group # Default =>
                /\ r \in DOMAIN db.rules /\ synced[r].group = db.rules[r].group
                /\ \A k : k \in synced[r].config.targets
                            <=> Chosen(k, db.rules[r].group,
                                       k \in db.rules[r].config.targets, before, after)
        /\ \A r \in DOMAIN db.rules :
                r \in DOMAIN synced /\ synced[r].group = db.rules[r].group
    BY OneKeyRules, Z3T(60)
  <2>2. b.rules = synced
    OBVIOUS
  <2> HIDE DEF synced
  <2> QED  BY <2>1, <2>2
<1>2. /\ \A r \in DOMAIN db.rules : db.rules[r].group # Default =>
            \A k \in db.rules[r].config.targets : k \in DOMAIN db.keys \/ k \in orphans
      /\ \A k \in DOMAIN db.keys \ orphans, g \in Groups : Agree(db, k, g, {})
  BY MembershipIs
<1>3. /\ New \notin DOMAIN db.keys /\ New \notin orphans
      /\ \A r \in DOMAIN db.rules : New \notin db.rules[r].config.targets
      /\ \A r \in DOMAIN db.rules : db.rules[r].group \in Groups \cup {Default}
  <2>1. New \notin Ids /\ orphans \subseteq Ids
    BY Rows DEF New, TypeInv, Ids
  <2> QED  BY <2>1, Rows DEF Tables, RuleTable, RuleRow
<1>4. ASSUME NEW r \in DOMAIN b.rules, NEW k \in b.rules[r].config.targets,
             b.rules[r].group # Default
      PROVE  k \in DOMAIN b.keys \/ k \in orphans
  <2> DEFINE g == db.rules[r].group
  <2>1. /\ r \in DOMAIN db.rules /\ g \in Groups
        /\ Chosen(k, g, k \in db.rules[r].config.targets, before, after)
    BY <1>1, <1>3, <1>4
  <2>2. CASE k # k0
    BY <1>2, <1>4, <1>1, <2>1, <2>2 DEF Chosen
  <2>3. CASE k = k0 /\ k0 \notin DOMAIN b.keys /\ k0 \notin orphans
    <3>1. k \in db.rules[r].config.targets /\ g \notin before[k0]
      BY <2>1, <2>3 DEF Chosen
    <3>2. k0 \in DOMAIN db.keys
      BY <1>2, <1>4, <1>1, <2>1, <2>3, <3>1
    <3>3. Agree(db, k0, g, {})
      BY <1>2, <2>1, <2>3, <3>2
    <3> QED  BY <2>1, <2>3, <3>1, <3>2, <3>3 DEF Agree, Served, InRuleGroup
  <2> QED  BY <2>2, <2>3
<1>5. ASSUME NEW k \in DOMAIN b.keys \ orphans, NEW g \in Groups
      PROVE  Agree(b, k, g, {})
  <2>0. g # Default
    BY CatalogAssumption
  <2>1. CASE k # k0
    <3>1. Agree(db, k, g, {}) /\ b.keys[k] = db.keys[k]
      BY <1>2, <2>1
    <3>2. Served(b.rules, k, g, {}) <=> Served(db.rules, k, g, {})
      BY <1>1, <2>0, <2>1 DEF Served, Chosen
    <3> QED  BY <3>1, <3>2 DEF Agree
  <2>2. CASE k = k0
    <3>1. ASSUME g \in after[k0] PROVE Served(b.rules, k0, g, {})
      <4>1. PICK r \in DOMAIN db.rules : db.rules[r].group = g
        BY <2>0, <3>1
      <4> QED  BY <1>1, <2>0, <3>1, <4>1 DEF Served, Chosen
    <3>2. ASSUME Served(b.rules, k0, g, {}), g \notin after[k0] PROVE FALSE
      <4>1. PICK r \in DOMAIN b.rules : b.rules[r].group = g /\ k0 \in b.rules[r].config.targets
        BY <3>2 DEF Served
      <4>2. /\ r \in DOMAIN db.rules /\ db.rules[r].group = g
            /\ k0 \in db.rules[r].config.targets /\ g \notin before[k0]
        BY <1>1, <2>0, <3>2, <4>1 DEF Chosen
      <4>3. k0 \in DOMAIN db.keys
        BY <1>3, <4>2
      <4>4. Agree(db, k0, g, {})
        BY <1>2, <2>2, <4>3
      <4> QED  BY <4>2, <4>3, <4>4 DEF Agree, Served, InRuleGroup
    <3> QED  BY <2>2, <3>1, <3>2 DEF Agree
  <2> QED  BY <2>1, <2>2
<1>6. Membership(b, orphans)
  BY <1>4, <1>5, MembershipIs
<1> QED  BY <1>1, <1>6 DEF Sound

\* A new key, with the default rule ensured and its groups synced.
LEMMA WithKeyIs ==
  ASSUME TokenInv, TypeInv, NEW bare, DOMAIN bare = Tables, bare.keys = db.keys,
         bare.rules = db.rules, bare.access = db.access, bare.maps = db.maps,
         NEW e, e \in Ids \/ (e = New /\ New \in DOMAIN bare.endpoints),
         NEW groups \in MemberLists, KnownGroups(db, groups)
  PROVE  LET after == WithKey(bare, e, groups) IN
         /\ DOMAIN after = Tables
         /\ after.endpoints = bare.endpoints /\ after.access = db.access
         /\ after.maps = db.maps
         /\ KeysWanted(after) /\ RulesWanted(after) /\ Keeps(after)
<1> DEFINE ensured == EnsureDefault(bare)
           row == [endpoint |-> e, groups |-> groups, active |-> TRUE]
           was == For(New, {})
           now == For(New, {Default} \cup ToSet(groups))
           after == WithKey(bare, e, groups)
<1>1. /\ DOMAIN ensured = Tables
      /\ ensured.endpoints = bare.endpoints /\ ensured.keys = db.keys
      /\ ensured.access = db.access /\ ensured.maps = db.maps
      /\ Ensured(ensured.rules)
  <2>1. RuleTable(bare.rules) /\ DOMAIN bare.rules \subseteq Ids /\ IsFiniteSet(DOMAIN bare.rules)
    BY Rows DEF Tables
  <2> HIDE DEF ensured
  <2> QED  BY <2>1, EnsureDefaultIs DEF ensured, Ensured
<1>2. /\ DOMAIN after = Tables
      /\ after.endpoints = bare.endpoints /\ after.access = db.access
      /\ after.maps = db.maps
      /\ after.keys = With(db.keys, New, row)
      /\ after.rules = SyncTargets(ensured.rules, was, now)
  <2> HIDE DEF ensured, row, was, now
  <2>1. after = [ensured EXCEPT !.keys = With(@, New, row),
                                !.rules = SyncTargets(@, was, now)]
    BY DEF WithKey, ensured, row, was, now
  <2> HIDE DEF after
  <2> QED  BY <1>1, <2>1 DEF Tables
<1>3. /\ DOMAIN was = {New} /\ DOMAIN now = {New}
      /\ now[New] = {Default} \cup ToSet(groups)
  BY DEF For
<1>4. KeyRow(row) /\ RuleGroups(row) = {Default} \cup ToSet(groups) /\ row.endpoint = e
  <2>1. groups \in Lists /\ IsInjective(groups) /\ e \in Int
    BY CatalogAssumption DEF Lists, Ids, New
  <2> QED  BY <2>1 DEF KeyRow, RuleGroups
<1> HIDE DEF ensured, row, was, now, after
<1>5. /\ DOMAIN after.keys = DOMAIN db.keys \cup {New} /\ after.keys[New] = row
      /\ \A k \in DOMAIN db.keys : k = New \/ after.keys[k] = db.keys[k]
  BY <1>2 DEF With
<1>6. New \notin DOMAIN db.keys
  BY Rows DEF Tables
<1>7. KeysWanted(after)
  BY <1>2, <1>4, <1>5, <1>6, Rows DEF KeysWanted, KeyTable
<1>8. \A g \in now[New] : g = Default \/ \E r \in DOMAIN db.rules : db.rules[r].group = g
  BY <1>3 DEF KnownGroups
<1>9. RulesWanted(after)
  <2>1. /\ DOMAIN after.rules = DOMAIN ensured.rules /\ RuleTable(after.rules)
        /\ \A r \in DOMAIN after.rules : \A k \in after.rules[r].config.targets :
                k \in Ids \/ k = New
    BY <1>1, <1>2, <1>3, OneKeyRules
  <2> QED  BY <1>1, <1>5, <2>1 DEF RulesWanted, RuleTable, Ensured
<1>10. Keeps(after)
  <2>1. \A k \in DOMAIN after.keys : k = New \/ k \in DOMAIN db.keys
    BY <1>5
  <2>2. \A k \in DOMAIN db.keys : k = New \/ k \in DOMAIN after.keys
    BY <1>5
  <2>3. New \in DOMAIN after.keys =>
            \A g \in Groups : InRuleGroup(after.keys[New], g) <=> g \in now[New]
    BY <1>3, <1>4, <1>5 DEF InRuleGroup
  <2>4. New \in DOMAIN after.keys
    BY <1>5
  <2> QED  BY <1>1, <1>2, <1>3, <1>5, <1>6, <1>8, <2>1, <2>2, <2>3, <2>4, OneKeySound
<1> QED  BY <1>2, <1>7, <1>9, <1>10 DEF after

-----------------------------------------------------------------------------
(* The handlers of endpoints.                                              *)

\* A handler that starts with this call wants well-typed tables, and sound
\* ones if those it read were.
Fine(a, call, after) ==
    /\ Start(a, call, after) /\ Typed(after, call)
    /\ call.op = "delete_endpoint" \/ KeepsBut(after, call)

\* The handlers of endpoints want well-typed and sound tables.
LEMMA EndpointHandlers ==
  ASSUME TokenInv, TypeInv, NEW a \in Admins,
         CreateEndpoint(a) \/ UpdateEndpoint(a) \/ DeleteEndpoint(a) \/ CreateKey(a)
  PROVE  \E call, after : Fine(a, call, after)
<1>0. DOMAIN db = Tables /\ Tables = {"endpoints", "keys", "rules", "access", "maps"}
  BY DEF TokenInv, Issued, Sessions, Tables
<1>1. CASE CreateEndpoint(a)
  <2> DEFINE bare == [db EXCEPT !.endpoints = With(@, New, [active |-> TRUE])]
             call == Call("create_endpoint")
  <2>1. /\ DOMAIN bare = Tables /\ bare.keys = db.keys /\ bare.rules = db.rules
        /\ bare.access = db.access /\ bare.maps = db.maps
        /\ bare.endpoints = With(db.endpoints, New, [active |-> TRUE])
    BY <1>0
  <2>2. call.op = "create_endpoint"
    BY DEF Call
  <2> HIDE DEF bare, call
  <2>3. /\ EndpointsWanted(bare) /\ DOMAIN db.endpoints \subseteq DOMAIN bare.endpoints
        /\ New \in DOMAIN bare.endpoints
    <3>1. EndpointRow([active |-> TRUE])
      BY DEF EndpointRow
    <3> QED  BY <2>1, <3>1, Rows DEF EndpointsWanted, With
  <2>4. CASE Start(a, call, bare)
    <3>1. Typed(bare, call)
      BY <1>0, <2>1, <2>2, <2>3, SameTables DEF Typed
    <3> QED  BY <2>1, <2>4, <3>1, SameSound, KeepsAny DEF Fine
  <2>5. ASSUME NEW groups \in MemberLists, KnownGroups(db, groups),
               Start(a, call, WithKey(bare, New, groups))
        PROVE  \E c, after : Fine(a, c, after)
    <3> DEFINE after == WithKey(bare, New, groups)
    <3>1. /\ DOMAIN after = Tables
          /\ after.endpoints = bare.endpoints /\ after.access = db.access
          /\ after.maps = db.maps
          /\ KeysWanted(after) /\ RulesWanted(after) /\ Keeps(after)
      BY <2>1, <2>3, <2>5, WithKeyIs
    <3> HIDE DEF after
    <3>2. EndpointsWanted(after) /\ DOMAIN db.endpoints \subseteq DOMAIN after.endpoints
      BY <2>3, <3>1 DEF EndpointsWanted
    <3>3. Typed(after, call)
      BY <2>2, <3>1, <3>2, SameTables DEF Typed
    <3> QED  BY <2>5, <3>1, <3>3, KeepsAny DEF Fine, after
  <2> QED  BY <1>1, <2>4, <2>5 DEF CreateEndpoint, bare, call
<1>2. CASE UpdateEndpoint(a)
  <2>1. PICK e \in DOMAIN db.endpoints :
            Start(a, Call("update_endpoint"), [db EXCEPT !.endpoints[e].active = ~@])
    BY <1>2 DEF UpdateEndpoint
  <2> DEFINE after == [db EXCEPT !.endpoints[e].active = ~@]
             call == Call("update_endpoint")
             row == [db.endpoints[e] EXCEPT !.active = ~@]
  <2>2. /\ DOMAIN after = Tables /\ after.keys = db.keys /\ after.rules = db.rules
        /\ after.access = db.access /\ after.maps = db.maps
        /\ after.endpoints = [db.endpoints EXCEPT ![e] = row]
    BY <1>0
  <2>3. EndpointRow(row)
    <3>1. EndpointRow(db.endpoints[e])
      BY Rows
    <3> QED  BY <3>1 DEF EndpointRow
  <2>4. call.op = "update_endpoint"
    BY DEF Call
  <2> HIDE DEF after, call, row
  <2>5. EndpointsWanted(after) /\ DOMAIN db.endpoints \subseteq DOMAIN after.endpoints
    BY <2>2, <2>3, Rows DEF EndpointsWanted
  <2>6. Typed(after, call)
    BY <2>2, <2>4, <2>5, SameTables DEF Typed
  <2> QED  BY <2>1, <2>2, <2>6, SameSound, KeepsAny DEF Fine, after, call
<1>3. CASE DeleteEndpoint(a)
  <2> DEFINE Others(e, table) == {i \in DOMAIN table : table[i].endpoint # e}
  <2>1. PICK e \in DOMAIN db.endpoints :
            Start(a, Call("delete_endpoint"),
                  [db EXCEPT !.endpoints = Restrict(@, DOMAIN @ \ {e}),
                             !.keys = Restrict(@, Others(e, @)),
                             !.maps = Restrict(@, Others(e, @))])
    BY <1>3 DEF DeleteEndpoint
  <2> DEFINE after == [db EXCEPT !.endpoints = Restrict(@, DOMAIN @ \ {e}),
                                 !.keys = Restrict(@, Others(e, @)),
                                 !.maps = Restrict(@, Others(e, @))]
             call == Call("delete_endpoint")
  <2>2. /\ DOMAIN after = Tables /\ after.rules = db.rules /\ after.access = db.access
        /\ after.endpoints = Restrict(db.endpoints, DOMAIN db.endpoints \ {e})
        /\ after.keys = Restrict(db.keys, Others(e, db.keys))
        /\ after.maps = Restrict(db.maps, Others(e, db.maps))
    BY <1>0
  <2>3. /\ \A i \in DOMAIN after.endpoints :
                i \in DOMAIN db.endpoints /\ after.endpoints[i] = db.endpoints[i]
        /\ \A i \in DOMAIN after.keys :
                i \in DOMAIN db.keys /\ after.keys[i] = db.keys[i]
        /\ \A i \in DOMAIN after.maps :
                i \in DOMAIN db.maps /\ after.maps[i] = db.maps[i]
    BY <2>2 DEF Restrict
  <2>4. call.op = "delete_endpoint"
    BY DEF Call
  <2> HIDE DEF after, call
  <2>5. EndpointsWanted(after) /\ MapsWanted(after)
    <3>1. IsFiniteSet(DOMAIN after.maps)
      BY <2>3, Rows, FS_Subset DEF Tables
    <3> QED  BY <2>3, <3>1, Rows DEF EndpointsWanted, MapsWanted
  <2>6. KeysWanted(after)
    BY <2>3, Rows DEF KeysWanted, KeyTable
  <2>7. Typed(after, call)
    BY <2>2, <2>3, <2>4, <2>5, <2>6, SameTables DEF Typed
  <2> QED  BY <2>1, <2>4, <2>7, KeepsAny DEF Fine, after, call
<1>4. CASE CreateKey(a)
  <2>1. PICK e \in DOMAIN db.endpoints, groups \in MemberLists :
            /\ KnownGroups(db, groups)
            /\ Start(a, Call("create_key"), WithKey(db, e, groups))
    BY <1>4 DEF CreateKey
  <2> DEFINE after == WithKey(db, e, groups)
             call == Call("create_key")
  <2>2. e \in Ids
    BY Rows, <1>0
  <2>3. /\ DOMAIN after = Tables
        /\ after.endpoints = db.endpoints /\ after.access = db.access
        /\ after.maps = db.maps
        /\ KeysWanted(after) /\ RulesWanted(after) /\ Keeps(after)
    BY <1>0, <2>1, <2>2, WithKeyIs
  <2>4. call.op = "create_key"
    BY DEF Call
  <2> HIDE DEF after, call
  <2>5. Typed(after, call)
    BY <2>3, <2>4, SameTables DEF Typed
  <2> QED  BY <2>1, <2>3, <2>5, KeepsAny DEF Fine, after, call
<1> QED  BY <1>1, <1>2, <1>3, <1>4

-----------------------------------------------------------------------------
(* The handlers of keys.                                                   *)

\* EnsureDefault of the rows as they were read.
LEMMA EnsuredDb ==
  ASSUME TokenInv, TypeInv
  PROVE  LET ensured == EnsureDefault(db) IN
         /\ DOMAIN ensured = Tables
         /\ ensured.endpoints = db.endpoints /\ ensured.keys = db.keys
         /\ ensured.access = db.access /\ ensured.maps = db.maps
         /\ Ensured(ensured.rules)
<1> DEFINE ensured == EnsureDefault(db)
<1>1. /\ DOMAIN db = Tables /\ RuleTable(db.rules) /\ DOMAIN db.rules \subseteq Ids
      /\ IsFiniteSet(DOMAIN db.rules)
  BY Rows DEF Tables
<1> HIDE DEF ensured
<1>2. /\ DOMAIN ensured = Tables
      /\ ensured.endpoints = db.endpoints /\ ensured.keys = db.keys
      /\ ensured.access = db.access /\ ensured.maps = db.maps
      /\ RuleTable(ensured.rules)
      /\ \A r \in DOMAIN ensured.rules : r \in DOMAIN db.rules \/ r = New
      /\ \A r \in DOMAIN db.rules : /\ r \in DOMAIN ensured.rules
                                    /\ ensured.rules[r].group = db.rules[r].group
      /\ \A r \in DOMAIN ensured.rules :
                \/ r \in DOMAIN db.rules /\ ensured.rules[r] = db.rules[r]
                \/ ensured.rules[r].group = Default /\ IsProperDefault(ensured.rules[r])
  BY <1>1, EnsureDefaultIs DEF ensured
<1> QED  BY <1>2 DEF Ensured, ensured

\* The rules of a handler that ensures the default rule and nothing else.
LEMMA EnsuredKeeps ==
  ASSUME TokenInv, TypeInv, NEW after, after.keys = db.keys, Ensured(after.rules)
  PROVE  RulesWanted(after) /\ Keeps(after)
<1>1. RulesWanted(after)
  <2>1. \A r \in DOMAIN after.rules :
            IsProperDefault(after.rules[r]) => after.rules[r].config.targets = {}
    BY DEF IsProperDefault, DefaultConfig
  <2> QED  BY <2>1, Rows DEF RulesWanted, Ensured, RuleTable
<1>2. ASSUME Membership(db, orphans), Disjoint(db) PROVE Sound(after, orphans)
  <2>1. \A r \in DOMAIN after.rules : after.rules[r].group # Default =>
            r \in DOMAIN db.rules /\ after.rules[r] = db.rules[r]
    BY DEF Ensured
  <2>2. \A r \in DOMAIN db.rules : db.rules[r].group # Default =>
            r \in DOMAIN after.rules /\ after.rules[r] = db.rules[r]
    BY DEF Ensured
  <2>3. Disjoint(after)
    BY <1>2, <2>1, DisjointKept
  <2>4. Proper(db) => Proper(after)
    <3>1. /\ \A r \in DOMAIN db.rules : db.rules[r].group = Default => r \in DOMAIN after.rules
          /\ \A r \in DOMAIN db.rules : db.rules[r].group = Default =>
                after.rules[r].group = Default
          /\ \A r \in DOMAIN after.rules : after.rules[r].group = Default =>
                \/ IsProperDefault(after.rules[r])
                \/ r \in DOMAIN db.rules /\ after.rules[r] = db.rules[r]
      BY DEF Ensured
    <3> QED  BY <3>1, ProperKept
  <2>5. /\ \A r \in DOMAIN db.rules : db.rules[r].group # Default =>
            \A k \in db.rules[r].config.targets : k \in DOMAIN db.keys \/ k \in orphans
        /\ \A k \in DOMAIN db.keys \ orphans, g \in Groups : Agree(db, k, g, {})
    BY <1>2, MembershipIs
  <2>6. \A k, g : g # Default => (Served(after.rules, k, g, {}) <=> Served(db.rules, k, g, {}))
    BY <2>1, <2>2 DEF Served
  <2>7. \A k \in DOMAIN after.keys \ orphans, g \in Groups : Agree(after, k, g, {})
    BY <2>5, <2>6, CatalogAssumption DEF Agree
  <2>8. \A r \in DOMAIN after.rules : after.rules[r].group # Default =>
            \A k \in after.rules[r].config.targets : k \in DOMAIN after.keys \/ k \in orphans
    BY <2>1, <2>5
  <2>9. Membership(after, orphans)
    BY <2>7, <2>8, MembershipIs
  <2> QED  BY <2>3, <2>4, <2>9 DEF Sound
<1> QED  BY <1>1, <1>2 DEF Keeps

\* The lists of groups that end up in a row.
LEMMA WithPrimaryIs ==
  ASSUME NEW groups \in MemberLists, NEW key, KeyRow(key)
  PROVE  WithPrimary(groups, key) \in Lists /\ IsInjective(WithPrimary(groups, key))
<1>1. groups \in Lists /\ IsInjective(groups)
  BY CatalogAssumption DEF Lists
<1>2. CASE key.groups = <<>> \/ Head(key.groups) \in ToSet(groups)
  BY <1>1, <1>2 DEF WithPrimary
<1>3. CASE key.groups # <<>> /\ Head(key.groups) \notin ToSet(groups)
  <2>1. Head(key.groups) \in Groups \cup {Default}
    BY <1>3 DEF KeyRow, Lists
  <2> QED  BY <1>1, <1>3, <2>1, Joined DEF WithPrimary
<1> QED  BY <1>2, <1>3

\* The handlers of keys want well-typed and sound tables.
LEMMA KeyHandlers ==
  ASSUME TokenInv, TypeInv, NEW a \in Admins, UpdateKey(a) \/ DeleteKey(a) \/ ListRules(a)
  PROVE  \E call, after : Fine(a, call, after)
<1>0. DOMAIN db = Tables /\ Tables = {"endpoints", "keys", "rules", "access", "maps"}
  BY DEF TokenInv, Issued, Sessions, Tables
<1>1. CASE ListRules(a)
  <2> DEFINE after == EnsureDefault(db)
             call == Call("list_rules")
  <2>1. /\ DOMAIN after = Tables
        /\ after.endpoints = db.endpoints /\ after.keys = db.keys
        /\ after.access = db.access /\ after.maps = db.maps
        /\ Ensured(after.rules)
    BY EnsuredDb
  <2>2. call.op = "list_rules"
    BY DEF Call
  <2> HIDE DEF after, call
  <2>3. RulesWanted(after) /\ Keeps(after)
    BY <2>1, EnsuredKeeps
  <2>4. Typed(after, call)
    BY <2>1, <2>2, <2>3, SameTables DEF Typed
  <2> QED  BY <1>1, <2>3, <2>4, KeepsAny DEF Fine, ListRules, after, call
<1>2. ASSUME NEW k \in DOMAIN db.keys,
             Start(a, Call("update_key"), [db EXCEPT !.keys[k].active = ~@])
      PROVE  \E call, after : Fine(a, call, after)
  <2> DEFINE row == [db.keys[k] EXCEPT !.active = ~@]
             after == [db EXCEPT !.keys[k].active = ~@]
             call == Call("update_key")
  <2>1. /\ DOMAIN after = Tables /\ after.endpoints = db.endpoints
        /\ after.rules = db.rules /\ after.access = db.access /\ after.maps = db.maps
        /\ after.keys = [db.keys EXCEPT ![k] = row]
    BY <1>0
  <2>2. /\ KeyRow(row) /\ row.endpoint = db.keys[k].endpoint
        /\ row.groups = db.keys[k].groups
    <3>1. KeyRow(db.keys[k])
      BY Rows DEF KeyTable
    <3> QED  BY <3>1 DEF KeyRow
  <2>3. call.op = "update_key"
    BY DEF Call
  <2> HIDE DEF row, after, call
  <2>4. /\ DOMAIN after.keys = DOMAIN db.keys
        /\ \A i \in DOMAIN db.keys : /\ after.keys[i].endpoint = db.keys[i].endpoint
                                     /\ after.keys[i].groups = db.keys[i].groups
                                     /\ KeyRow(after.keys[i])
    BY <2>1, <2>2, Rows DEF KeyTable
  <2>5. KeysWanted(after)
    BY <2>4 DEF KeysWanted
  <2>6. Typed(after, call)
    BY <2>1, <2>3, <2>5, SameTables DEF Typed
  <2>7. Keeps(after)
    <3>1. \A i \in DOMAIN db.keys : \A g :
            InRuleGroup(after.keys[i], g) <=> InRuleGroup(db.keys[i], g)
      BY <2>4 DEF InRuleGroup, RuleGroups
    <3>2. Membership(db, orphans) => Membership(after, orphans)
      BY <2>1, <2>4, <3>1 DEF Membership, Targeted
    <3>3. Disjoint(db) => Disjoint(after)
      BY <2>1 DEF Disjoint
    <3>4. Proper(db) => Proper(after)
      BY <2>1 DEF Proper, DefaultRules
    <3> QED  BY <3>2, <3>3, <3>4 DEF Keeps, Sound
  <2> QED  BY <1>2, <2>6, <2>7, KeepsAny DEF Fine, after, call
<1>3. ASSUME NEW k \in DOMAIN db.keys, NEW next \in Lists, IsInjective(next),
             KnownGroups(db, next),
             Start(a, Call("update_key"),
                   [EnsureDefault(db) EXCEPT
                        !.keys[k].groups = next,
                        !.rules = SyncTargets(@, For(k, RuleGroups(db.keys[k])),
                                                 For(k, {Default} \cup ToSet(next)))])
      PROVE  \E call, after : Fine(a, call, after)
  <2> DEFINE ensured == EnsureDefault(db)
             was == For(k, RuleGroups(db.keys[k]))
             now == For(k, {Default} \cup ToSet(next))
             row == [db.keys[k] EXCEPT !.groups = next]
             after == [ensured EXCEPT !.keys[k].groups = next,
                                      !.rules = SyncTargets(@, was, now)]
             call == Call("update_key")
  <2>1. /\ DOMAIN ensured = Tables
        /\ ensured.endpoints = db.endpoints /\ ensured.keys = db.keys
        /\ ensured.access = db.access /\ ensured.maps = db.maps
        /\ Ensured(ensured.rules)
    BY EnsuredDb
  <2>2. /\ DOMAIN was = {k} /\ DOMAIN now = {k}
        /\ was[k] = RuleGroups(db.keys[k]) /\ now[k] = {Default} \cup ToSet(next)
    BY DEF For
  <2> HIDE DEF ensured, was, now
  <2>3. /\ DOMAIN after = Tables /\ after.endpoints = db.endpoints
        /\ after.access = db.access /\ after.maps = db.maps
        /\ after.keys = [db.keys EXCEPT ![k] = row]
        /\ after.rules = SyncTargets(ensured.rules, was, now)
    BY <1>0, <2>1
  <2>4. /\ KeyRow(row) /\ row.endpoint = db.keys[k].endpoint /\ row.groups = next
    <3>1. KeyRow(db.keys[k])
      BY Rows DEF KeyTable
    <3> QED  BY <1>3, <3>1 DEF KeyRow
  <2>5. call.op = "update_key"
    BY DEF Call
  <2>6. Start(a, call, after)
    BY <1>3 DEF ensured, was, now
  <2> HIDE DEF row, after, call
  <2>7. /\ DOMAIN after.keys = DOMAIN db.keys /\ after.keys[k] = row
        /\ \A i \in DOMAIN db.keys : i = k \/ after.keys[i] = db.keys[i]
    BY <2>3
  <2>8. KeysWanted(after)
    BY <2>4, <2>7, Rows DEF KeysWanted, KeyTable
  <2>9. RulesWanted(after)
    <3>1. /\ DOMAIN after.rules = DOMAIN ensured.rules /\ RuleTable(after.rules)
          /\ \A r \in DOMAIN after.rules : \A i \in after.rules[r].config.targets :
                i \in Ids \/ i = k
      <4> DEFINE rules == ensured.rules
                 synced == SyncTargets(rules, was, now)
      <4>1. after.rules = synced /\ Ensured(rules) /\ DOMAIN was = {k} /\ DOMAIN now = {k}
        BY <2>1, <2>2, <2>3
      <4> HIDE DEF rules
      <4>2. /\ DOMAIN synced = DOMAIN rules /\ RuleTable(synced)
            /\ \A r \in DOMAIN synced : \A i \in synced[r].config.targets :
                    i \in Ids \/ i = k
        BY <4>1, OneKeyRules, Z3T(60)
      <4> HIDE DEF synced
      <4> QED  BY <4>1, <4>2 DEF rules
    <3>2. k \in Ids
      BY Rows DEF Tables
    <3> QED  BY <2>1, <3>1, <3>2 DEF RulesWanted, RuleTable, Ensured
  <2>10. Typed(after, call)
    BY <2>3, <2>5, <2>8, <2>9, SameTables DEF Typed
  <2>11. Keeps(after)
    <3>1. \A g \in now[k] : g = Default \/ \E r \in DOMAIN db.rules : db.rules[r].group = g
      BY <1>3, <2>2 DEF KnownGroups
    <3>2. k \in DOMAIN after.keys =>
            \A g \in Groups : InRuleGroup(after.keys[k], g) <=> g \in now[k]
      BY <2>2, <2>4, <2>7 DEF InRuleGroup, RuleGroups
    <3>3. /\ \A i \in DOMAIN after.keys : i = k \/ i \in DOMAIN db.keys
          /\ \A i \in DOMAIN db.keys : i = k \/ i \in DOMAIN after.keys
          /\ k \notin DOMAIN after.keys => now[k] = {}
      BY <2>7
    <3> QED  BY <2>1, <2>2, <2>3, <2>7, <3>1, <3>2, <3>3, OneKeySound
  <2> QED  BY <2>6, <2>10, <2>11, KeepsAny DEF Fine
<1>4. CASE UpdateKey(a)
  <2>1. PICK k \in DOMAIN db.keys :
        \/ Start(a, Call("update_key"), [db EXCEPT !.keys[k].active = ~@])
        \/ \E groups \in MemberLists, primary \in BOOLEAN :
            LET next == IF primary THEN groups ELSE WithPrimary(groups, db.keys[k])
            IN  /\ KnownGroups(db, next)
                /\ Start(a, Call("update_key"),
                         [EnsureDefault(db) EXCEPT
                            !.keys[k].groups = next,
                            !.rules = SyncTargets(@, For(k, RuleGroups(db.keys[k])),
                                                     For(k, {Default} \cup ToSet(next)))])
    BY <1>4 DEF UpdateKey
  <2>2. CASE Start(a, Call("update_key"), [db EXCEPT !.keys[k].active = ~@])
    BY <1>2, <2>2
  <2>3. ASSUME NEW groups \in MemberLists, NEW primary \in BOOLEAN, NEW next,
               next = IF primary THEN groups ELSE WithPrimary(groups, db.keys[k]),
               KnownGroups(db, next),
               Start(a, Call("update_key"),
                         [EnsureDefault(db) EXCEPT
                            !.keys[k].groups = next,
                            !.rules = SyncTargets(@, For(k, RuleGroups(db.keys[k])),
                                                     For(k, {Default} \cup ToSet(next)))])
        PROVE  \E call, after : Fine(a, call, after)
    <3>1. KeyRow(db.keys[k])
      BY Rows DEF KeyTable
    <3>2. next \in Lists /\ IsInjective(next)
      <4>1. groups \in Lists /\ IsInjective(groups)
        BY CatalogAssumption DEF Lists
      <4> QED  BY <2>3, <3>1, <4>1, WithPrimaryIs
    <3> QED  BY <1>3, <2>3, <3>2
  <2> QED  BY <2>1, <2>2, <2>3
<1>5. CASE DeleteKey(a)
  <2>1. PICK k \in DOMAIN db.keys :
            Start(a, Call("delete_key"),
                  [db EXCEPT
                    !.rules = SyncTargets(@, For(k, RuleGroups(db.keys[k])), For(k, {})),
                    !.keys = Restrict(@, DOMAIN @ \ {k})])
    BY <1>5 DEF DeleteKey
  <2> DEFINE was == For(k, RuleGroups(db.keys[k]))
             now == For(k, {})
             after == [db EXCEPT !.rules = SyncTargets(@, was, now),
                                 !.keys = Restrict(@, DOMAIN @ \ {k})]
             call == Call("delete_key")
  <2>2. /\ DOMAIN was = {k} /\ DOMAIN now = {k}
        /\ was[k] = RuleGroups(db.keys[k]) /\ now[k] = {}
    BY DEF For
  <2>3. Start(a, call, after) /\ call.op = "delete_key"
    BY <2>1 DEF Call
  <2> HIDE DEF was, now, call
  <2>4. /\ DOMAIN after = Tables /\ after.endpoints = db.endpoints
        /\ after.access = db.access /\ after.maps = db.maps
        /\ after.keys = Restrict(db.keys, DOMAIN db.keys \ {k})
        /\ after.rules = SyncTargets(db.rules, was, now)
    BY <1>0
  <2> HIDE DEF after
  <2>5. /\ DOMAIN after.keys = DOMAIN db.keys \ {k}
        /\ \A i \in DOMAIN after.keys : after.keys[i] = db.keys[i]
    BY <2>4 DEF Restrict
  <2>6. KeysWanted(after)
    BY <2>5, Rows DEF KeysWanted, KeyTable
  <2>7. Ensured(db.rules)
    BY Rows DEF Ensured
  <2>8. RulesWanted(after)
    <3>1. /\ DOMAIN after.rules = DOMAIN db.rules /\ RuleTable(after.rules)
          /\ \A r \in DOMAIN after.rules : \A i \in after.rules[r].config.targets :
                i \in Ids \/ i = k
      BY <2>2, <2>4, <2>7, OneKeyRules, Z3T(60)
    <3>2. k \in Ids
      BY Rows DEF Tables
    <3> QED  BY <3>1, <3>2 DEF RulesWanted, RuleTable
  <2>9. Typed(after, call)
    BY <2>3, <2>4, <2>6, <2>8, SameTables DEF Typed
  <2>10. Keeps(after)
    <3>1. \A g \in now[k] : g = Default \/ \E r \in DOMAIN db.rules : db.rules[r].group = g
      BY <2>2
    <3>2. k \notin DOMAIN after.keys
      BY <2>5
    <3>3. /\ \A i \in DOMAIN after.keys : i = k \/ i \in DOMAIN db.keys
          /\ \A i \in DOMAIN db.keys : i = k \/ i \in DOMAIN after.keys
          /\ \A i \in DOMAIN db.keys : i = k \/ after.keys[i] = db.keys[i]
      BY <2>5
    <3>4. k \in DOMAIN after.keys =>
            \A g \in Groups : InRuleGroup(after.keys[k], g) <=> g \in now[k]
      BY <3>2
    <3>5. now[k] = {} /\ was[k] = RuleGroups(db.keys[k]) /\ DOMAIN was = {k} /\ DOMAIN now = {k}
      BY <2>2
    <3>6. after.rules = SyncTargets(db.rules, was, now)
      BY <2>4
    <3> QED  BY <2>7, <3>1, <3>2, <3>3, <3>4, <3>5, <3>6, OneKeySound
  <2> QED  BY <2>3, <2>9, <2>10, KeepsAny DEF Fine
<1> QED  BY <1>1, <1>4, <1>5

-----------------------------------------------------------------------------
(* The handlers of rules.                                                  *)

\* Tables a handler of rules may want: keys and rules of the right types, and
\* no row of another table changed.
Draft(b) ==
    /\ DOMAIN b = Tables /\ b.endpoints = db.endpoints
    /\ b.access = db.access /\ b.maps = db.maps
    /\ DOMAIN b.keys = DOMAIN db.keys /\ KeyTable(b.keys)
    /\ \A k \in DOMAIN db.keys : b.keys[k].endpoint = db.keys[k].endpoint
    /\ RuleTable(b.rules)
    /\ \A r \in DOMAIN b.rules :
        /\ r \in DOMAIN db.rules \/ r = New
        /\ \A k \in b.rules[r].config.targets : k \in Ids

\* What Sound says of the rules alone, when o is excused.
SoundRules(b, o) ==
    /\ \A r \in DOMAIN b.rules : b.rules[r].group # Default =>
            \A k \in b.rules[r].config.targets : k \in DOMAIN db.keys \/ k \in o
    /\ Disjoint(b) /\ (Proper(db) => Proper(b))

\* What Sound says of the rules and the keys, pair by pair.
Agrees(b, o) == \A k \in DOMAIN db.keys \ o, h \in Groups : Agree(b, k, h, {})

\* A sync keeps a draft a draft, and its rules sound.
LEMMA DraftSynced ==
  ASSUME TokenInv, TypeInv, NEW b, Draft(b), NEW g \in Groups \cup {Default},
         NEW affected, NEW excluded, NEW o
  PROVE  /\ Draft(SyncGroups(b, g, affected, excluded))
         /\ SoundRules(b, o) => SoundRules(SyncGroups(b, g, affected, excluded), o)
<1> DEFINE synced == SyncGroups(b, g, affected, excluded)
<1>1. /\ DOMAIN b = Tables /\ RuleTable(b.rules) /\ KeyTable(b.keys)
  BY DEF Draft
<1>0. SyncedFrom(b, synced)
  BY <1>1, SyncGroupsIs
<1> HIDE DEF synced
<1>2. /\ DOMAIN synced = Tables
      /\ synced.endpoints = b.endpoints /\ synced.access = b.access
      /\ synced.maps = b.maps
      /\ DOMAIN synced.keys = DOMAIN b.keys /\ KeyTable(synced.keys)
      /\ \A k \in DOMAIN b.keys :
             synced.keys[k].endpoint = b.keys[k].endpoint
      /\ DOMAIN synced.rules = DOMAIN b.rules /\ RuleTable(synced.rules)
      /\ \A r \in DOMAIN b.rules :
             /\ SameButTargets(b.rules[r], synced.rules[r])
             /\ b.rules[r].group = Default => synced.rules[r] = b.rules[r]
             /\ \A k \in synced.rules[r].config.targets :
                     k \in b.rules[r].config.targets \cup DOMAIN b.keys
  BY <1>0 DEF SyncedFrom
<1>3. \A k \in DOMAIN db.keys : k \in Ids
  BY Rows DEF Tables
<1>4. Draft(synced)
  BY <1>2, <1>3 DEF Draft
<1>5. ASSUME SoundRules(b, o) PROVE SoundRules(synced, o)
  <2>1. \A r \in DOMAIN synced.rules : synced.rules[r].group # Default =>
            \A k \in synced.rules[r].config.targets : k \in DOMAIN db.keys \/ k \in o
    BY <1>2, <1>5 DEF SoundRules, SameButTargets, Draft
  <2>2. Disjoint(synced)
    <3>1. Disjoint(b)
      BY <1>5 DEF SoundRules
    <3>2. \A r \in DOMAIN synced.rules : synced.rules[r].group # Default =>
            /\ r \in DOMAIN b.rules
            /\ synced.rules[r].group = b.rules[r].group
            /\ synced.rules[r].config.exposures = b.rules[r].config.exposures
      BY <1>2 DEF SameButTargets
    <3> QED  BY <3>1, <3>2, DisjointKept
  <2>3. Proper(b) => Proper(synced)
    <3>1. /\ \A r \in DOMAIN b.rules : b.rules[r].group = Default => r \in DOMAIN synced.rules
          /\ \A r \in DOMAIN b.rules : b.rules[r].group = Default =>
                synced.rules[r].group = Default
          /\ \A r \in DOMAIN synced.rules : synced.rules[r].group = Default =>
                \/ IsProperDefault(synced.rules[r])
                \/ r \in DOMAIN b.rules /\ synced.rules[r] = b.rules[r]
      BY <1>2 DEF SameButTargets
    <3> QED  BY <3>1, ProperKept
  <2> QED  BY <1>5, <2>1, <2>2, <2>3 DEF SoundRules
<1> QED  BY <1>4, <1>5 DEF synced

\* A sync keeps what agreed, and makes the affected keys agree.
LEMMA AgreeSynced ==
  ASSUME TokenInv, TypeInv, NEW b, Draft(b), NEW g \in Groups \cup {Default},
         NEW affected, NEW excluded,
         NEW k \in DOMAIN db.keys, NEW h \in Groups,
         h # g \/ k \notin affected => Agree(b, k, h, excluded)
  PROVE  Agree(SyncGroups(b, g, affected, excluded), k, h, excluded)
<1> DEFINE synced == SyncGroups(b, g, affected, excluded)
<1>1. /\ DOMAIN b = Tables /\ RuleTable(b.rules) /\ KeyTable(b.keys)
      /\ k \in DOMAIN b.keys
  BY DEF Draft
<1>2. \A k1 \in DOMAIN b.keys, h1 \in Groups :
          (h1 # g \/ k1 \notin affected => Agree(b, k1, h1, excluded))
              => Agree(synced, k1, h1, excluded)
  BY <1>1, SyncGroupsIs
<1> HIDE DEF synced
<1>3. Agree(synced, k, h, excluded)
  BY <1>1, <1>2
<1> QED  BY <1>3 DEF synced

\* Drafts are of the right types ...
LEMMA DraftTyped ==
  ASSUME TokenInv, TypeInv, NEW b, Draft(b), NEW call, call.op # "delete_endpoint"
  PROVE  Typed(b, call)
<1>1. KeysWanted(b)
  BY DEF KeysWanted, Draft, KeyTable
<1>2. RulesWanted(b)
  BY DEF RulesWanted, Draft, RuleTable
<1>3. EndpointsWanted(b) /\ AccessWanted(b) /\ MapsWanted(b)
  BY SameTables DEF Draft
<1> QED  BY <1>1, <1>2, <1>3 DEF Typed, Draft

\* ... and sound when their rules are and all pairs agree.
LEMMA DraftSound ==
  ASSUME NEW o, NEW b, Draft(b), SoundRules(b, o), Agrees(b, o)
  PROVE  Sound(b, o)
<1>1. DOMAIN b.keys = DOMAIN db.keys
  BY DEF Draft
<1>2. \A r \in DOMAIN b.rules : b.rules[r].group # Default =>
            \A k \in b.rules[r].config.targets : k \in DOMAIN b.keys \/ k \in o
  BY <1>1 DEF SoundRules
<1>3. \A k \in DOMAIN b.keys \ o, h \in Groups : Agree(b, k, h, {})
  BY <1>1 DEF Agrees
<1>4. Membership(b, o)
  BY <1>2, <1>3, MembershipIs
<1> QED  BY <1>4 DEF Sound, SoundRules

\* The database as it was read.
LEMMA DbDraft ==
  ASSUME TokenInv, TypeInv, NEW o, orphans \subseteq o
  PROVE  /\ Draft(db)
         /\ Membership(db, orphans) /\ Disjoint(db) => SoundRules(db, o) /\ Agrees(db, o)
<1>1. Draft(db)
  BY Rows DEF Draft
<1>2. ASSUME Membership(db, orphans), Disjoint(db) PROVE SoundRules(db, o) /\ Agrees(db, o)
  <2>1. /\ \A r \in DOMAIN db.rules : db.rules[r].group # Default =>
                \A k \in db.rules[r].config.targets : k \in DOMAIN db.keys \/ k \in o
        /\ \A k \in DOMAIN db.keys \ o, g \in Groups : Agree(db, k, g, {})
    <3>1. Membership(db, o)
      BY <1>2, ExcuseMore
    <3> QED  BY <3>1, MembershipIs
  <2> QED  BY <1>2, <2>1 DEF SoundRules, Agrees
<1> QED  BY <1>1, <1>2

\* The tables once one rule has been added or written.
WrittenRule(b, r, rule) ==
    /\ DOMAIN b = Tables /\ b.endpoints = db.endpoints /\ b.keys = db.keys
    /\ b.access = db.access /\ b.maps = db.maps
    /\ r \in DOMAIN db.rules \/ r = New
    /\ DOMAIN b.rules = DOMAIN db.rules \cup {r} /\ b.rules[r] = rule
    /\ \A s \in DOMAIN db.rules : s # r => b.rules[s] = db.rules[s]

\* What the handlers check before they write a rule, and the ids they do not
\* look up.
GoodRule(r, rule, o) ==
    /\ RuleRow(rule)
    /\ \A k \in rule.config.targets :
        \/ k \in DOMAIN db.keys \cup o
        \/ r \in DOMAIN db.rules /\ k \in db.rules[r].config.targets
    /\ rule.group # Default => \A s \in DOMAIN db.rules :
        s # r /\ db.rules[s].group = rule.group
            => db.rules[s].config.exposures \cap rule.config.exposures = {}
    /\ IF r \in DOMAIN db.rules
       THEN /\ db.rules[r].group = Default <=> rule.group = Default
            /\ rule.group = Default /\ IsProperDefault(db.rules[r]) => IsProperDefault(rule)
       ELSE rule.group # Default

\* Writing a rule that was checked leaves a draft with sound rules.
LEMMA WrittenDraft ==
  ASSUME TokenInv, TypeInv, NEW o, orphans \subseteq o,
         NEW b, NEW r, NEW rule, WrittenRule(b, r, rule), Disjoint(db) => GoodRule(r, rule, o), RuleRow(rule),
         \A k \in rule.config.targets : k \in Ids
  PROVE  /\ Draft(b)
         /\ Membership(db, orphans) /\ Disjoint(db) => SoundRules(b, o)
<1>1. Draft(b)
  <2>1. /\ RuleTable(db.rules) /\ KeyTable(db.keys)
        /\ \A s \in DOMAIN db.rules : \A k \in db.rules[s].config.targets : k \in Ids
    BY Rows
  <2>2. \A s \in DOMAIN b.rules : /\ s \in DOMAIN db.rules \/ s = New
                                  /\ RuleRow(b.rules[s])
                                  /\ \A k \in b.rules[s].config.targets : k \in Ids
    BY <2>1 DEF WrittenRule, RuleTable
  <2> QED  BY <2>1, <2>2 DEF Draft, WrittenRule, RuleTable
<1>2. ASSUME Membership(db, orphans), Disjoint(db) PROVE SoundRules(b, o)
  <2>1. GoodRule(r, rule, o) /\ WrittenRule(b, r, rule)
    BY <1>2
  <2>2. \A s \in DOMAIN db.rules : db.rules[s].group # Default =>
            \A k \in db.rules[s].config.targets : k \in DOMAIN db.keys \/ k \in o
    <3>1. Membership(db, o)
      BY <1>2, ExcuseMore
    <3> QED  BY <3>1, MembershipIs
  <2>3. \A s \in DOMAIN b.rules : b.rules[s].group # Default =>
            \A k \in b.rules[s].config.targets : k \in DOMAIN db.keys \/ k \in o
    <3> SUFFICES ASSUME NEW s \in DOMAIN b.rules, b.rules[s].group # Default,
                        NEW k \in b.rules[s].config.targets
                 PROVE  k \in DOMAIN db.keys \/ k \in o
      OBVIOUS
    <3>1. CASE s = r
      BY <2>1, <2>2, <3>1 DEF GoodRule, WrittenRule
    <3>2. CASE s # r
      BY <2>1, <2>2, <3>2 DEF WrittenRule
    <3> QED  BY <3>1, <3>2
  <2>4. Disjoint(b)
    <3> SUFFICES ASSUME NEW s \in DOMAIN b.rules, NEW t \in DOMAIN b.rules, s # t,
                        b.rules[s].group = b.rules[t].group, b.rules[s].group # Default
                 PROVE  b.rules[s].config.exposures \cap b.rules[t].config.exposures = {}
      BY DEF Disjoint
    <3>1. CASE s # r /\ t # r
      BY <1>2, <2>1, <3>1 DEF WrittenRule, Disjoint
    <3>2. CASE s = r
      <4>1. t \in DOMAIN db.rules /\ b.rules[t] = db.rules[t] /\ b.rules[s] = rule
        BY <2>1, <3>2 DEF WrittenRule
      <4>2. db.rules[t].config.exposures \cap rule.config.exposures = {}
        BY <2>1, <3>2, <4>1 DEF GoodRule
      <4> QED  BY <4>1, <4>2
    <3>3. CASE t = r
      <4>1. s \in DOMAIN db.rules /\ b.rules[s] = db.rules[s] /\ b.rules[t] = rule
        BY <2>1, <3>3 DEF WrittenRule
      <4>2. db.rules[s].config.exposures \cap rule.config.exposures = {}
        BY <2>1, <3>3, <4>1 DEF GoodRule
      <4> QED  BY <4>1, <4>2
    <3> QED  BY <3>1, <3>2, <3>3
  <2>5. ASSUME Proper(db) PROVE Proper(b)
    <3>1. \A s \in DOMAIN db.rules : db.rules[s].group = Default =>
                IsProperDefault(db.rules[s])
      BY <2>5 DEF Proper, DefaultRules
    <3>2. /\ \A s \in DOMAIN db.rules : db.rules[s].group = Default => s \in DOMAIN b.rules
          /\ \A s \in DOMAIN db.rules : db.rules[s].group = Default =>
                b.rules[s].group = Default
          /\ \A s \in DOMAIN b.rules : b.rules[s].group = Default =>
                \/ IsProperDefault(b.rules[s])
                \/ s \in DOMAIN db.rules /\ b.rules[s] = db.rules[s]
      BY <2>1, <3>1 DEF WrittenRule, GoodRule
    <3> QED  BY <2>5, <3>2, ProperKept
  <2> QED  BY <2>3, <2>4, <2>5 DEF SoundRules
<1> QED  BY <1>1, <1>2

\* Writing a rule disturbs only pairs of the groups it has or had.
LEMMA AgreeWritten ==
  ASSUME NEW b, NEW r, NEW rule, WrittenRule(b, r, rule),
         NEW k, NEW h, Agree(db, k, h, {}),
         r \in DOMAIN db.rules /\ db.rules[r].group = h => k \notin db.rules[r].config.targets,
         rule.group = h => k \notin rule.config.targets
  PROVE  Agree(b, k, h, {})
<1>1. b.keys = db.keys
  BY DEF WrittenRule
<1>2. Served(b.rules, k, h, {}) => Served(db.rules, k, h, {})
  BY DEF WrittenRule, Served
<1>3. Served(db.rules, k, h, {}) => Served(b.rules, k, h, {})
  BY DEF WrittenRule, Served
<1> QED  BY <1>1, <1>2, <1>3 DEF Agree

\* The tables a handler of rules wants.
DraftKept(after, o) ==
    /\ Draft(after)
    /\ Membership(db, orphans) /\ Disjoint(db) => SoundRules(after, o) /\ Agrees(after, o)

\* A handler of rules that wants such tables is fine.
LEMMA DraftFine ==
  ASSUME TokenInv, TypeInv, NEW a, NEW call, call.op # "delete_endpoint", NEW after,
         DraftKept(after, orphans \cup Strays(call)), Start(a, call, after)
  PROVE  Fine(a, call, after)
<1>1. Typed(after, call)
  BY DraftTyped DEF DraftKept
<1>2. KeepsBut(after, call)
  BY DraftSound DEF DraftKept, KeepsBut
<1> QED  BY <1>1, <1>2 DEF Fine

\* update_rule syncs the group a rule leaves and the one it joins.
LEMMA UpdatedRuleIs ==
  ASSUME TokenInv, TypeInv, NEW o, orphans \subseteq o,
         NEW r \in DOMAIN db.rules, NEW rule, RuleRow(rule),
         Disjoint(db) => GoodRule(r, rule, o), rule.config.targets \subseteq Ids,
         NEW withTargets \in BOOLEAN,
         withTargets \/ /\ rule.group = db.rules[r].group
                        /\ rule.config.targets = db.rules[r].config.targets
  PROVE  DraftKept(UpdatedRule(r, rule, withTargets), o)
<1> DEFINE old == db.rules[r]
           g1 == old.group
           T1 == old.config.targets
           g2 == rule.group
           T2 == rule.config.targets
           written == [db EXCEPT !.rules[r] = rule]
           left == SyncGroups(written, g1, T1, {})
           moved == SyncGroups(left, g2, T2, {})
           stayed == SyncGroups(written, g2, T1 \cup T2, {})
           sound == Membership(db, orphans) /\ Disjoint(db)
<1>1. UpdatedRule(r, rule, withTargets)
        = IF g2 # g1 THEN moved ELSE IF withTargets THEN stayed ELSE written
  BY DEF UpdatedRule
<1>2. g1 \in Groups \cup {Default} /\ g2 \in Groups \cup {Default}
  <2>1. RuleRow(old)
    BY Rows DEF RuleTable
  <2> QED  BY <2>1 DEF RuleRow
<1>3. WrittenRule(written, r, rule)
  <2>1. DOMAIN db = Tables /\ Tables = {"endpoints", "keys", "rules", "access", "maps"}
    BY DEF TokenInv, Issued, Sessions, Tables
  <2>2. /\ DOMAIN written = Tables /\ written.endpoints = db.endpoints
        /\ written.keys = db.keys /\ written.access = db.access /\ written.maps = db.maps
        /\ written.rules = [db.rules EXCEPT ![r] = rule]
    BY <2>1
  <2> HIDE DEF written
  <2> QED  BY <2>2 DEF WrittenRule
<1>4. \A k \in T2 : k \in Ids
  OBVIOUS
<1> HIDE DEF written
<1>5. Draft(written) /\ (sound => SoundRules(written, o))
  BY <1>3, <1>4, WrittenDraft
<1>6. ASSUME sound, NEW k \in DOMAIN db.keys \ o, NEW h \in Groups,
             h # g1 \/ k \notin T1, h # g2 \/ k \notin T2
      PROVE  Agree(written, k, h, {})
  <2>1. Agree(db, k, h, {})
    BY <1>6, DbDraft DEF Agrees
  <2> QED  BY <1>3, <1>6, <2>1, AgreeWritten
<1>7. CASE g2 # g1
  <2> HIDE DEF g1, T1, g2, T2
  <2>1. Draft(left) /\ (SoundRules(written, o) => SoundRules(left, o))
    BY <1>2, <1>5, DraftSynced
  <2>2. ASSUME sound, NEW k \in DOMAIN db.keys \ o, NEW h \in Groups,
               h # g2 \/ k \notin T2
        PROVE  Agree(left, k, h, {})
    <3>1. h # g1 \/ k \notin T1 => Agree(written, k, h, {})
      BY <1>6, <2>2
    <3> QED  BY <1>2, <1>5, <3>1, AgreeSynced
  <2> HIDE DEF left
  <2>3. Draft(moved) /\ (SoundRules(left, o) => SoundRules(moved, o))
    BY <1>2, <2>1, DraftSynced
  <2>4. ASSUME sound, NEW k \in DOMAIN db.keys \ o, NEW h \in Groups
        PROVE  Agree(moved, k, h, {})
    <3>1. h # g2 \/ k \notin T2 => Agree(left, k, h, {})
      BY <2>2, <2>4
    <3> QED  BY <1>2, <2>1, <3>1, AgreeSynced
  <2> HIDE DEF moved, sound
  <2>5. sound => Agrees(moved, o)
    BY <2>4 DEF Agrees
  <2>6. UpdatedRule(r, rule, withTargets) = moved
    BY <1>1, <1>7
  <2> QED  BY <1>5, <2>1, <2>3, <2>5, <2>6 DEF DraftKept, sound
<1>8. CASE g2 = g1 /\ withTargets
  <2> HIDE DEF g1, T1, g2, T2
  <2>1. Draft(stayed) /\ (SoundRules(written, o) => SoundRules(stayed, o))
    BY <1>2, <1>5, DraftSynced
  <2>2. ASSUME sound, NEW k \in DOMAIN db.keys \ o, NEW h \in Groups
        PROVE  Agree(stayed, k, h, {})
    <3>1. h # g2 \/ k \notin T1 \cup T2 => Agree(written, k, h, {})
      BY <1>6, <1>8, <2>2
    <3> QED  BY <1>2, <1>5, <3>1, AgreeSynced
  <2> HIDE DEF stayed, sound
  <2>3. sound => Agrees(stayed, o)
    BY <2>2 DEF Agrees
  <2>4. UpdatedRule(r, rule, withTargets) = stayed
    BY <1>1, <1>8
  <2> QED  BY <1>5, <2>1, <2>3, <2>4 DEF DraftKept, sound
<1>9. CASE g2 = g1 /\ ~withTargets
  <2>1. T2 = T1
    BY <1>9
  <2>2. \A k, h : Served(written.rules, k, h, {}) <=> Served(db.rules, k, h, {})
    <3>1. \A s \in DOMAIN db.rules :
              /\ s \in DOMAIN written.rules
              /\ written.rules[s].group = db.rules[s].group
              /\ written.rules[s].config.targets = db.rules[s].config.targets
      BY <1>3, <1>9, <2>1 DEF WrittenRule
    <3>2. DOMAIN written.rules = DOMAIN db.rules
      BY <1>3 DEF WrittenRule
    <3> QED  BY <3>1, <3>2 DEF Served
  <2>3. ASSUME sound PROVE Agrees(written, o)
    <3>1. Agrees(db, o)
      BY <2>3, DbDraft
    <3>2. written.keys = db.keys
      BY <1>3 DEF WrittenRule
    <3> QED  BY <2>2, <3>1, <3>2 DEF Agrees, Agree
  <2> HIDE DEF sound
  <2>4. UpdatedRule(r, rule, withTargets) = written
    BY <1>1, <1>9
  <2> QED  BY <1>5, <2>3, <2>4 DEF DraftKept, sound
<1> QED  BY <1>7, <1>8, <1>9

\* One way of updating a rule.
LEMMA UpdateRuleFine ==
  ASSUME TokenInv, TypeInv, NEW a, NEW r \in DOMAIN db.rules, NEW rule, RuleRow(rule),
         NEW named, rule.config.targets \subseteq Ids,
         Disjoint(db) => GoodRule(r, rule, orphans \cup (named \ DOMAIN db.keys)),
         NEW withTargets \in BOOLEAN,
         withTargets \/ /\ rule.group = db.rules[r].group
                        /\ rule.config.targets = db.rules[r].config.targets,
         Start(a, Naming("update_rule", named), UpdatedRule(r, rule, withTargets))
  PROVE  \E call, after : Fine(a, call, after)
<1> DEFINE after == UpdatedRule(r, rule, withTargets)
           call == Naming("update_rule", named)
           o == orphans \cup (named \ DOMAIN db.keys)
<1>1. DraftKept(after, o)
  <2>1. orphans \subseteq o
    OBVIOUS
  <2> HIDE DEF o
  <2> QED  BY <2>1, UpdatedRuleIs DEF o
<1>2. Start(a, call, after) /\ call.op # "delete_endpoint"
      /\ o = orphans \cup Strays(call)
  BY DEF Naming, Strays
<1> HIDE DEF after, call, o
<1>3. Fine(a, call, after)
  BY <1>1, <1>2, DraftFine
<1> QED  BY <1>3

\* The handlers of rules want well-typed and sound tables.
LEMMA RuleHandlers ==
  ASSUME TokenInv, TypeInv, NEW a \in Admins, CreateRule(a) \/ UpdateRule(a) \/ DeleteRule(a)
  PROVE  \E call, after : Fine(a, call, after)
<1>0. DOMAIN db = Tables /\ Tables = {"endpoints", "keys", "rules", "access", "maps"}
  BY DEF TokenInv, Issued, Sessions, Tables
<1>1. CASE CreateRule(a)
  <2> DEFINE Rule(g, targets, exposures) ==
                [group |-> g, active |-> TRUE, pattern |-> Models,
                 config |-> [targets |-> targets, exposures |-> exposures]]
  <2>1. PICK g \in Groups, targets \in SUBSET TargetIds, exposures \in FormatLists :
            /\ RuleGroupAvailable(db, g, exposures, {})
            /\ Start(a, Naming("create_rule", targets),
                     SyncGroups([db EXCEPT !.rules = With(@, New, Rule(g, targets, exposures))],
                                g, targets, {}))
    BY <1>1 DEF CreateRule
  <2> DEFINE rule == Rule(g, targets, exposures)
             added == [db EXCEPT !.rules = With(@, New, rule)]
             after == SyncGroups(added, g, targets, {})
             call == Naming("create_rule", targets)
             o == orphans \cup (targets \ DOMAIN db.keys)
             sound == Membership(db, orphans) /\ Disjoint(db)
  <2>2. Start(a, call, after) /\ call.op # "delete_endpoint"
        /\ o = orphans \cup Strays(call)
    BY <2>1 DEF Naming, Strays
  <2>3. /\ RuleRow(rule) /\ rule.group = g /\ rule.config.targets = targets
        /\ rule.config.exposures = exposures /\ targets \subseteq Ids
        /\ orphans \subseteq o /\ \A k \in targets : k \in DOMAIN db.keys \cup o
    <3>1. targets \subseteq Ids /\ exposures \subseteq Formats
      BY CatalogAssumption DEF Ids
    <3> QED  BY <3>1 DEF RuleRow, Ids
  <2> HIDE DEF rule, call, o
  <2>4. WrittenRule(added, New, rule)
    <3>1. /\ DOMAIN added = Tables /\ added.endpoints = db.endpoints
          /\ added.keys = db.keys /\ added.access = db.access /\ added.maps = db.maps
          /\ added.rules = With(db.rules, New, rule)
      BY <1>0
    <3> HIDE DEF added
    <3> QED  BY <3>1 DEF WrittenRule, With
  <2>5. New \notin DOMAIN db.rules
    BY Rows DEF Tables
  <2>6. GoodRule(New, rule, o)
    <3>1. \A s \in DOMAIN db.rules : db.rules[s].group = g
                => db.rules[s].config.exposures \cap exposures = {}
      BY <2>1 DEF RuleGroupAvailable
    <3>2. g # Default
      BY CatalogAssumption
    <3> QED  BY <2>3, <2>5, <3>1, <3>2 DEF GoodRule
  <2>7. \A k \in rule.config.targets : k \in Ids
    BY <2>3
  <2> HIDE DEF added
  <2>8. Draft(added) /\ (sound => SoundRules(added, o))
    BY <2>3, <2>4, <2>6, <2>7, WrittenDraft
  <2>9. g \in Groups \cup {Default}
    OBVIOUS
  <2>10. Draft(after) /\ (SoundRules(added, o) => SoundRules(after, o))
    BY <2>8, <2>9, DraftSynced
  <2>11. ASSUME sound, NEW k \in DOMAIN db.keys \ o, NEW h \in Groups
         PROVE  Agree(after, k, h, {})
    <3>1. Agree(db, k, h, {})
      BY <2>3, <2>11, DbDraft DEF Agrees
    <3>2. h # g \/ k \notin targets => Agree(added, k, h, {})
      BY <2>3, <2>4, <2>5, <3>1, AgreeWritten
    <3> QED  BY <2>8, <2>9, <3>2, AgreeSynced
  <2> HIDE DEF after, sound
  <2>12. DraftKept(after, o)
    <3>1. sound => Agrees(after, o)
      BY <2>11 DEF Agrees
    <3> QED  BY <2>8, <2>10, <3>1 DEF DraftKept, sound
  <2>13. Fine(a, call, after)
    BY <2>2, <2>12, DraftFine
  <2> QED  BY <2>13
<1>2. CASE UpdateRule(a)
  <2>1. PICK r \in DOMAIN db.rules :
        \/ \E targets \in (SUBSET TargetIds) \cup {db.rules[r].config.targets},
              g \in Groups \cup {db.rules[r].group} :
            /\ db.rules[r].group = Default => targets = {} /\ g = Default
            /\ g # db.rules[r].group
                => RuleGroupAvailable(db, g, db.rules[r].config.exposures, {r})
            /\ Start(a, Naming("update_rule", targets),
                     UpdatedRule(r, [db.rules[r] EXCEPT !.group = g,
                                                !.config.targets = targets], TRUE))
        \/ \E exposures \in IF db.rules[r].group = Default THEN {Formats} ELSE FormatLists :
            /\ db.rules[r].group # Default /\ exposures # db.rules[r].config.exposures
                => RuleGroupAvailable(db, db.rules[r].group, exposures, {r})
            /\ Start(a, Naming("update_rule", {}),
                     UpdatedRule(r, [db.rules[r] EXCEPT !.config.exposures = exposures],
                                 FALSE))
        \/ /\ db.rules[r].group = Default => ~db.rules[r].active
           /\ Start(a, Naming("update_rule", {}),
                    UpdatedRule(r, [db.rules[r] EXCEPT !.active = ~@], FALSE))
        \/ \E m \in Models :
            /\ db.rules[r].group # Default
            /\ Start(a, Naming("update_rule", {}),
                     UpdatedRule(r, [db.rules[r] EXCEPT !.pattern = {m}], FALSE))
    BY <1>2 DEF UpdateRule
  <2> DEFINE old == db.rules[r]
  <2>2. RuleRow(old)
    BY Rows DEF RuleTable
  <2>3. ASSUME Disjoint(db), old.group # Default
        PROVE  \A s \in DOMAIN db.rules : s # r /\ db.rules[s].group = old.group
                  => db.rules[s].config.exposures \cap old.config.exposures = {}
    BY <2>3 DEF Disjoint
  <2>4. IsProperDefault(old) => /\ old.active /\ old.config.targets = {}
                                /\ old.config.exposures = Formats
    BY DEF IsProperDefault, DefaultConfig
  <2> HIDE DEF old
  <2>5. ASSUME NEW targets \in (SUBSET TargetIds) \cup {old.config.targets},
               NEW g \in Groups \cup {old.group},
               old.group = Default => targets = {} /\ g = Default,
               g # old.group => RuleGroupAvailable(db, g, old.config.exposures, {r}),
               Start(a, Naming("update_rule", targets),
                     UpdatedRule(r, [old EXCEPT !.group = g, !.config.targets = targets], TRUE))
        PROVE  \E call, after : Fine(a, call, after)
    <3> DEFINE rule == [old EXCEPT !.group = g, !.config.targets = targets]
               o == orphans \cup (targets \ DOMAIN db.keys)
    <3>1. /\ RuleRow(rule) /\ rule.group = g /\ rule.config.targets = targets
          /\ rule.config.exposures = old.config.exposures
          /\ rule.active = old.active /\ targets \subseteq Ids
      <4>1. targets \subseteq Int /\ targets \subseteq Ids
        <5>1. \A k \in old.config.targets : k \in Ids
          BY Rows DEF old
        <5> QED  BY <5>1, CatalogAssumption DEF Ids
      <4>2. g \in Groups \cup {Default}
        BY <2>2 DEF RuleRow
      <4> QED  BY <2>2, <4>1, <4>2 DEF RuleRow
    <3>2. IsProperDefault(old) /\ g = Default => IsProperDefault(rule)
      <4>1. ASSUME IsProperDefault(old), old.group = Default
            PROVE  rule = old
        <5>1. targets = old.config.targets /\ g = old.group
          BY <2>4, <2>5, <4>1
        <5> QED  BY <2>2, <5>1 DEF RuleRow
      <4>2. g = Default => old.group = Default
        BY CatalogAssumption
      <4> QED  BY <4>1, <4>2
    <3> HIDE DEF rule
    <3>3. g # Default /\ Disjoint(db) => \A s \in DOMAIN db.rules :
                s # r /\ db.rules[s].group = g
                  => db.rules[s].config.exposures \cap old.config.exposures = {}
      BY <2>3, <2>5 DEF RuleGroupAvailable
    <3>4. g = Default <=> old.group = Default
      BY <2>5, CatalogAssumption
    <3>5. \A k \in rule.config.targets : k \in DOMAIN db.keys \cup o
      BY <3>1
    <3> HIDE DEF o
    <3>6. Disjoint(db) => GoodRule(r, rule, o)
      BY <3>1, <3>2, <3>3, <3>4, <3>5 DEF GoodRule, old
    <3>7. Start(a, Naming("update_rule", targets), UpdatedRule(r, rule, TRUE))
      BY <2>5 DEF rule
    <3> QED  BY <3>1, <3>6, <3>7, UpdateRuleFine DEF old, o
  <2>6. ASSUME NEW rule, RuleRow(rule), rule.group = old.group,
               rule.config.targets = old.config.targets,
               old.group # Default /\ rule.config.exposures # old.config.exposures
                => RuleGroupAvailable(db, old.group, rule.config.exposures, {r}),
               old.group = Default /\ IsProperDefault(old) => IsProperDefault(rule),
               Start(a, Naming("update_rule", {}), UpdatedRule(r, rule, FALSE))
        PROVE  \E call, after : Fine(a, call, after)
    <3>1. old.group # Default /\ Disjoint(db) => \A s \in DOMAIN db.rules :
                s # r /\ db.rules[s].group = old.group
                  => db.rules[s].config.exposures \cap rule.config.exposures = {}
      BY <2>3, <2>6 DEF RuleGroupAvailable
    <3>2. Disjoint(db) => GoodRule(r, rule, orphans \cup ({} \ DOMAIN db.keys))
      BY <2>6, <3>1 DEF GoodRule, old
    <3>3. rule.config.targets \subseteq Ids
      BY <2>6, Rows DEF old
    <3> QED  BY <2>6, <3>2, <3>3, UpdateRuleFine DEF old
  <2>7. ASSUME NEW exposures \in IF old.group = Default THEN {Formats} ELSE FormatLists,
               old.group # Default /\ exposures # old.config.exposures
                => RuleGroupAvailable(db, old.group, exposures, {r}),
               Start(a, Naming("update_rule", {}),
                     UpdatedRule(r, [old EXCEPT !.config.exposures = exposures], FALSE))
        PROVE  \E call, after : Fine(a, call, after)
    <3> DEFINE rule == [old EXCEPT !.config.exposures = exposures]
    <3>1. /\ RuleRow(rule) /\ rule.group = old.group /\ rule.config.exposures = exposures
          /\ rule.config.targets = old.config.targets /\ rule.active = old.active
      <4>1. exposures \subseteq Formats
        BY CatalogAssumption
      <4> QED  BY <2>2, <4>1 DEF RuleRow
    <3>2. old.group = Default /\ IsProperDefault(old) => IsProperDefault(rule)
      <4>1. ASSUME IsProperDefault(old), old.group = Default PROVE rule = old
        <5>1. exposures = old.config.exposures
          BY <2>4, <4>1
        <5> QED  BY <2>2, <5>1 DEF RuleRow
      <4> QED  BY <4>1
    <3>3. Start(a, Naming("update_rule", {}), UpdatedRule(r, rule, FALSE))
      BY <2>7
    <3> HIDE DEF rule
    <3> QED  BY <2>6, <2>7, <3>1, <3>2, <3>3
  <2>8. ASSUME old.group = Default => ~old.active,
               Start(a, Naming("update_rule", {}),
                     UpdatedRule(r, [old EXCEPT !.active = ~@], FALSE))
        PROVE  \E call, after : Fine(a, call, after)
    <3> DEFINE rule == [old EXCEPT !.active = ~@]
    <3>1. /\ RuleRow(rule) /\ rule.group = old.group /\ rule.config = old.config
      BY <2>2 DEF RuleRow
    <3>2. old.group = Default /\ IsProperDefault(old) => IsProperDefault(rule)
      BY <2>4, <2>8
    <3>3. Start(a, Naming("update_rule", {}), UpdatedRule(r, rule, FALSE))
      BY <2>8
    <3> HIDE DEF rule
    <3> QED  BY <2>6, <3>1, <3>2, <3>3
  <2>9. ASSUME NEW m \in Models, old.group # Default,
               Start(a, Naming("update_rule", {}),
                     UpdatedRule(r, [old EXCEPT !.pattern = {m}], FALSE))
        PROVE  \E call, after : Fine(a, call, after)
    <3> DEFINE rule == [old EXCEPT !.pattern = {m}]
    <3>1. /\ RuleRow(rule) /\ rule.group = old.group /\ rule.config = old.config
      BY <2>2 DEF RuleRow
    <3>2. Start(a, Naming("update_rule", {}), UpdatedRule(r, rule, FALSE))
      BY <2>9
    <3> HIDE DEF rule
    <3> QED  BY <2>6, <2>9, <3>1, <3>2
  <2> QED  BY <2>1, <2>5, <2>7, <2>8, <2>9 DEF old
<1>3. CASE DeleteRule(a)
  <2>1. PICK r \in DOMAIN db.rules :
            /\ db.rules[r].group # Default
            /\ Start(a, Call("delete_rule"),
                     [SyncGroups(db, db.rules[r].group, db.rules[r].config.targets, {r})
                        EXCEPT !.rules = Restrict(@, DOMAIN @ \ {r})])
    BY <1>3 DEF DeleteRule
  <2> DEFINE g == db.rules[r].group
             T == db.rules[r].config.targets
             synced == SyncGroups(db, g, T, {r})
             after == [synced EXCEPT !.rules = Restrict(@, DOMAIN @ \ {r})]
             call == Call("delete_rule")
             o == orphans \cup Strays(call)
             sound == Membership(db, orphans) /\ Disjoint(db)
  <2>2. Start(a, call, after) /\ call.op # "delete_endpoint"
    BY <2>1 DEF Call
  <2>3. g \in Groups /\ g \in Groups \cup {Default} /\ g # Default
    <3>1. RuleRow(db.rules[r])
      BY Rows DEF RuleTable
    <3> QED  BY <2>1, <3>1 DEF RuleRow
  <2>4. Draft(db) /\ (sound => SoundRules(db, o) /\ Agrees(db, o))
    <3>1. orphans \subseteq o
      OBVIOUS
    <3> HIDE DEF o
    <3> QED  BY <3>1, DbDraft
  <2>5. \A k, h : (h # g \/ k \notin T) /\ Agree(db, k, h, {}) => Agree(db, k, h, {r})
    BY DEF Agree, Served
  <2> HIDE DEF g, T, call, o
  <2>6. Draft(synced) /\ (sound => SoundRules(synced, o))
    BY <2>3, <2>4, DraftSynced
  <2>7. ASSUME sound, NEW k \in DOMAIN db.keys \ o, NEW h \in Groups
        PROVE  Agree(synced, k, h, {r})
    <3>1. h # g \/ k \notin T => Agree(db, k, h, {r})
      BY <2>4, <2>5, <2>7 DEF Agrees
    <3> QED  BY <2>3, <2>4, <3>1, AgreeSynced
  <2>8. synced.rules[r].group = g /\ DOMAIN synced.rules = DOMAIN db.rules
        /\ \A s \in DOMAIN db.rules : synced.rules[s].group = db.rules[s].group
    <3>1. SyncedFrom(db, synced)
      BY <2>3, SyncGroupsIs, Rows
    <3> HIDE DEF synced
    <3> QED  BY <3>1 DEF SyncedFrom, SameButTargets, g
  <2> HIDE DEF synced
  <2>9. /\ DOMAIN after = Tables /\ after.endpoints = synced.endpoints
        /\ after.keys = synced.keys
        /\ after.access = synced.access /\ after.maps = synced.maps
        /\ after.rules = Restrict(synced.rules, DOMAIN synced.rules \ {r})
    BY <1>0, <2>6 DEF Draft
  <2> HIDE DEF after
  <2>10. /\ DOMAIN after.rules = DOMAIN synced.rules \ {r}
         /\ \A s \in DOMAIN after.rules : after.rules[s] = synced.rules[s]
    BY <2>9 DEF Restrict
  <2>11. Draft(after)
    BY <2>6, <2>9, <2>10 DEF Draft, RuleTable
  <2>12. SoundRules(synced, o) => SoundRules(after, o)
    <3>1. Disjoint(synced) => Disjoint(after)
      BY <2>10, DisjointKept
    <3>2. Proper(synced) => Proper(after)
      BY <2>3, <2>8, <2>10, ProperKept
    <3> QED  BY <2>10, <3>1, <3>2 DEF SoundRules
  <2>13. ASSUME sound PROVE Agrees(after, o)
    <3>1. \A k, h : Served(after.rules, k, h, {}) <=> Served(synced.rules, k, h, {r})
      BY <2>10 DEF Served
    <3> QED  BY <2>7, <2>9, <2>13, <3>1 DEF Agrees, Agree
  <2> HIDE DEF sound
  <2>14. DraftKept(after, o)
    BY <2>6, <2>11, <2>12, <2>13 DEF DraftKept, sound
  <2>15. Fine(a, call, after)
    BY <2>2, <2>14, DraftFine DEF o
  <2> QED  BY <2>15
<1> QED  BY <1>1, <1>2, <1>3

-----------------------------------------------------------------------------
(* Access keys and model maps.                                             *)

\* Handlers that change nothing but access keys ...
LEMMA AccessFine ==
  ASSUME TokenInv, TypeInv, NEW a, NEW call, call.op # "delete_endpoint", NEW after,
         Start(a, call, after), DOMAIN after = Tables,
         after.endpoints = db.endpoints, after.keys = db.keys,
         after.rules = db.rules, after.maps = db.maps, AccessWanted(after)
  PROVE  \E c, b : Fine(a, c, b)
<1>1. Typed(after, call)
  BY SameTables DEF Typed
<1>2. Fine(a, call, after)
  BY <1>1, SameSound, KeepsAny DEF Fine
<1> QED  BY <1>2

\* ... or nothing but model maps.
LEMMA MapsFine ==
  ASSUME TokenInv, TypeInv, NEW a, NEW call, call.op # "delete_endpoint", NEW after,
         Start(a, call, after), DOMAIN after = Tables,
         after.endpoints = db.endpoints, after.keys = db.keys,
         after.rules = db.rules, after.access = db.access, MapsWanted(after)
  PROVE  \E c, b : Fine(a, c, b)
<1>1. Typed(after, call)
  BY SameTables DEF Typed
<1>2. Fine(a, call, after)
  BY <1>1, SameSound, KeepsAny DEF Fine
<1> QED  BY <1>2

\* A new access key.
LEMMA NewAccessFine ==
  ASSUME TokenInv, TypeInv, NEW a, NEW op, op # "delete_endpoint", NEW groups \in Lists,
         Start(a, Call(op), WithAccess(groups))
  PROVE  \E c, b : Fine(a, c, b)
<1> DEFINE row == [groups |-> groups, active |-> TRUE, token |-> New]
           after == WithAccess(groups)
           call == Call(op)
<1>1. /\ DOMAIN after = Tables /\ after.endpoints = db.endpoints /\ after.keys = db.keys
      /\ after.rules = db.rules /\ after.maps = db.maps
      /\ after.access = With(db.access, New, row)
  BY DEF WithAccess, TokenInv, Issued, Sessions, Tables
<1>2. AccessKeyRow(row)
  BY DEF AccessKeyRow, New
<1>3. call.op # "delete_endpoint"
  BY DEF Call
<1> HIDE DEF row, after, call
<1>4. AccessWanted(after)
  BY <1>1, <1>2, Rows DEF AccessWanted, With
<1>5. Start(a, call, after)
  BY DEF call, after
<1> QED  BY <1>1, <1>3, <1>4, <1>5, AccessFine

\* A row of an access key that is written.
LEMMA WrittenAccessFine ==
  ASSUME TokenInv, TypeInv, NEW a, NEW call, call.op # "delete_endpoint",
         NEW i \in DOMAIN db.access, NEW row, AccessKeyRow(row), NEW after,
         Start(a, call, after), after = [db EXCEPT !.access[i] = row]
  PROVE  \E c, b : Fine(a, c, b)
<1>1. /\ DOMAIN after = Tables /\ after.endpoints = db.endpoints /\ after.keys = db.keys
      /\ after.rules = db.rules /\ after.maps = db.maps
      /\ after.access = [db.access EXCEPT ![i] = row]
  BY DEF TokenInv, Issued, Sessions, Tables
<1>2. AccessWanted(after)
  BY <1>1, Rows DEF AccessWanted
<1> QED  BY <1>1, <1>2, AccessFine

\* The handlers of access keys want well-typed and sound tables.
LEMMA AccessKeyHandlers ==
  ASSUME TokenInv, TypeInv, NEW a \in Admins,
         \/ CreateRuleAccessKey(a) \/ CreateAccessKey(a) \/ UpdateAccessKey(a)
         \/ RotateAccessKey(a) \/ DeleteAccessKey(a)
  PROVE  \E c, b : Fine(a, c, b)
<1>0. DOMAIN db = Tables /\ Tables = {"endpoints", "keys", "rules", "access", "maps"}
  BY DEF TokenInv, Issued, Sessions, Tables
<1>1. \A i \in DOMAIN db.access : AccessKeyRow(db.access[i])
  BY Rows
<1>2. \A groups \in MemberLists : groups \in Lists
  BY CatalogAssumption DEF Lists
<1>3. CASE CreateRuleAccessKey(a)
  <2>1. PICK r \in DOMAIN db.rules :
            Start(a, Call("create_rule_access_key"), WithAccess(<<db.rules[r].group>>))
    BY <1>3 DEF CreateRuleAccessKey
  <2>2. db.rules[r].group \in Groups \cup {Default}
    BY Rows DEF RuleTable, RuleRow
  <2>3. <<db.rules[r].group>> \in Lists
    BY <2>2 DEF Lists
  <2> QED  BY <2>1, <2>3, NewAccessFine
<1>4. CASE CreateAccessKey(a)
  <2>1. PICK groups \in MemberLists :
            Start(a, Call("create_access_key"),
                  WithAccess(IF groups = <<>> THEN <<Default>> ELSE groups))
    BY <1>4 DEF CreateAccessKey
  <2>2. (IF groups = <<>> THEN <<Default>> ELSE groups) \in Lists
    <3>1. <<Default>> \in Lists
      BY DEF Lists
    <3> QED  BY <1>2, <3>1
  <2> QED  BY <2>1, <2>2, NewAccessFine
<1>5. CASE UpdateAccessKey(a)
  <2>1. PICK i \in DOMAIN db.access :
        \/ Start(a, Call("update_access_key"), [db EXCEPT !.access[i].active = ~@])
        \/ \E groups \in MemberLists :
            Start(a, Call("update_access_key"), [db EXCEPT !.access[i].groups = groups])
    BY <1>5 DEF UpdateAccessKey
  <2> DEFINE call == Call("update_access_key")
  <2>2. call.op # "delete_endpoint"
    BY DEF Call
  <2>3. ASSUME Start(a, call, [db EXCEPT !.access[i].active = ~@])
        PROVE  \E c, b : Fine(a, c, b)
    <3> DEFINE row == [db.access[i] EXCEPT !.active = ~@]
               after == [db EXCEPT !.access[i].active = ~@]
    <3>1. AccessKeyRow(row)
      BY <1>1 DEF AccessKeyRow
    <3>2. after = [db EXCEPT !.access[i] = row] /\ Start(a, call, after)
      BY <2>3
    <3> HIDE DEF row, after, call
    <3> QED  BY <2>2, <3>1, <3>2, WrittenAccessFine
  <2>4. ASSUME NEW groups \in MemberLists,
               Start(a, call, [db EXCEPT !.access[i].groups = groups])
        PROVE  \E c, b : Fine(a, c, b)
    <3> DEFINE row == [db.access[i] EXCEPT !.groups = groups]
               after == [db EXCEPT !.access[i].groups = groups]
    <3>1. AccessKeyRow(row)
      BY <1>1, <1>2 DEF AccessKeyRow
    <3>2. after = [db EXCEPT !.access[i] = row] /\ Start(a, call, after)
      BY <2>4
    <3> HIDE DEF row, after, call
    <3> QED  BY <2>2, <3>1, <3>2, WrittenAccessFine
  <2> QED  BY <2>1, <2>3, <2>4
<1>6. CASE RotateAccessKey(a)
  <2>1. PICK i \in DOMAIN db.access :
            Start(a, [op |-> "rotate_access_key", access |-> i],
                  [db EXCEPT !.access[i].token = New])
    BY <1>6 DEF RotateAccessKey
  <2> DEFINE call == [op |-> "rotate_access_key", access |-> i]
             row == [db.access[i] EXCEPT !.token = New]
             after == [db EXCEPT !.access[i].token = New]
  <2>2. AccessKeyRow(row) /\ call.op # "delete_endpoint"
    BY <1>1 DEF AccessKeyRow, New
  <2>3. after = [db EXCEPT !.access[i] = row] /\ Start(a, call, after)
    BY <2>1
  <2> HIDE DEF row, after, call
  <2> QED  BY <2>2, <2>3, WrittenAccessFine
<1>7. CASE DeleteAccessKey(a)
  <2>1. PICK i \in DOMAIN db.access :
            Start(a, [op |-> "delete_access_key", access |-> i],
                  [db EXCEPT !.access = Restrict(@, DOMAIN @ \ {i})])
    BY <1>7 DEF DeleteAccessKey
  <2> DEFINE call == [op |-> "delete_access_key", access |-> i]
             after == [db EXCEPT !.access = Restrict(@, DOMAIN @ \ {i})]
  <2>2. /\ DOMAIN after = Tables /\ after.endpoints = db.endpoints /\ after.keys = db.keys
        /\ after.rules = db.rules /\ after.maps = db.maps
        /\ after.access = Restrict(db.access, DOMAIN db.access \ {i})
    BY <1>0
  <2>3. Start(a, call, after) /\ call.op # "delete_endpoint"
    BY <2>1
  <2> HIDE DEF after, call
  <2>4. AccessWanted(after)
    BY <1>1, <2>2 DEF AccessWanted, Restrict
  <2> QED  BY <2>2, <2>3, <2>4, AccessFine
<1> QED  BY <1>3, <1>4, <1>5, <1>6, <1>7

\* The maps a probe writes.
LEMMA ProbeMaps ==
  ASSUME TokenInv, TypeInv, NEW e \in DOMAIN db.endpoints, NEW found \in Discoveries,
         NEW after, after.maps = SyncProbe(db.maps, e, found)
  PROVE  MapsWanted(after)
<1> DEFINE maps == db.maps
           manual == {maps[i].real : i \in {j \in DOMAIN maps :
                            maps[j].endpoint = e /\ ~maps[j].managed}}
           auto == {i \in DOMAIN maps : maps[i].endpoint = e /\ maps[i].managed}
           AutoOf(m) == {i \in auto : maps[i].real = m}
           wanted == found \ manual
           keepers == {Min(AutoOf(m)) : m \in {w \in wanted : AutoOf(w) # {}}}
           missing == {m \in wanted : AutoOf(m) = {}}
           added == SetToSeq(missing)
           fresh == {-j : j \in DOMAIN added}
<1>1. \A i \in DOMAIN maps : MapRow(maps[i])
  BY Rows
<1>2. after.maps = [i \in (DOMAIN maps \ auto) \cup keepers \cup fresh |->
            CASE i \in keepers -> [maps[i] EXCEPT !.alias = maps[i].real]
              [] i \in fresh -> [endpoint |-> e, alias |-> added[-i],
                                 real |-> added[-i], managed |-> TRUE]
              [] OTHER -> maps[i]]
  BY DEF SyncProbe
<1>3. keepers \subseteq DOMAIN maps
  <2> SUFFICES ASSUME NEW m, AutoOf(m) # {} PROVE Min(AutoOf(m)) \in DOMAIN maps
    OBVIOUS
  <2> DEFINE S == AutoOf(m)
  <2>1. S \subseteq DOMAIN maps /\ S # {}
    OBVIOUS
  <2>2. DOMAIN maps \subseteq Nat /\ IsFiniteSet(DOMAIN maps)
    BY Rows DEF Ids, Tables
  <2> HIDE DEF S, maps
  <2>3. S \in SUBSET Nat /\ IsFiniteSet(S)
    BY <2>1, <2>2, FS_Subset
  <2>4. Min(S) \in S
    BY <2>1, <2>3, MinOfFinite
  <2>5. Min(S) \in DOMAIN maps
    BY <2>1, <2>4
  <2> QED  BY <2>5 DEF S
<1>4. \E n \in Nat : added \in [1 .. n -> missing]
  <2>1. missing \subseteq found /\ IsFiniteSet(found)
    BY CatalogAssumption
  <2> HIDE DEF missing
  <2>2. IsFiniteSet(missing)
    BY <2>1, FS_Subset
  <2>3. /\ Cardinality(missing) \in Nat
        /\ ExistsBijection(1..Cardinality(missing), missing)
    BY <2>2, FS_CardinalityType
  <2>4. \E f \in [1..Cardinality(missing) -> missing] : IsInjective(f)
    BY <2>3 DEF ExistsBijection, Bijection, Injection, IsInjective
  <2>5. added \in [1..Cardinality(missing) -> missing]
    BY <2>4 DEF SetToSeq
  <2> QED  BY <2>3, <2>5
<1>5. PICK n \in Nat : added \in [1 .. n -> missing]
  BY <1>4
<1>6. missing \subseteq Models
  BY CatalogAssumption
<1>7. e \in Int
  BY Rows DEF Ids, Tables
<1> HIDE DEF manual, auto, AutoOf, wanted, keepers, missing, added
<1>8. ASSUME NEW i \in fresh
      PROVE  i \in Int /\ i < 0 /\ -i \in 1 .. n /\ added[-i] \in Models
  <2>1. PICK j \in 1 .. n : i = -j
    BY <1>5
  <2>2. i \in Int /\ i < 0 /\ -i = j
    BY <2>1
  <2> QED  BY <1>5, <1>6, <2>1, <2>2
<1> HIDE DEF fresh, maps
<1>9. ASSUME NEW i \in DOMAIN after.maps
      PROVE  (i \in DOMAIN maps \/ (i \in Int /\ i < 0)) /\ MapRow(after.maps[i])
  <2>1. CASE i \in keepers
    <3>1. i \in DOMAIN maps
      BY <1>3, <2>1
    <3>2. i \notin fresh
      BY <1>8, <3>1, Rows DEF Ids, Tables, maps
    <3>3. after.maps[i] = [maps[i] EXCEPT !.alias = maps[i].real]
      BY <1>2, <2>1, <3>2
    <3> QED  BY <1>1, <3>1, <3>3 DEF MapRow
  <2>2. CASE i \in fresh /\ i \notin keepers
    <3>1. after.maps[i] = [endpoint |-> e, alias |-> added[-i],
                           real |-> added[-i], managed |-> TRUE]
      BY <1>2, <2>2
    <3>2. MapRow(after.maps[i])
      <4> DEFINE m == added[-i]
      <4>1. m \in Models
        BY <1>8, <2>2
      <4>2. after.maps[i] = [endpoint |-> e, alias |-> m, real |-> m, managed |-> TRUE]
        BY <3>1
      <4> HIDE DEF m
      <4> QED  BY <1>7, <4>1, <4>2 DEF MapRow
    <3> QED  BY <1>8, <2>2, <3>2
  <2>3. CASE i \notin fresh /\ i \notin keepers
    BY <1>1, <1>2, <2>3
  <2> QED  BY <2>1, <2>2, <2>3
<1>10. IsFiniteSet(DOMAIN after.maps)
  <2>2. IsFiniteSet(fresh)
    <3>1. ASSUME NEW i \in fresh PROVE i \in -n .. 0
      <4>1. i \in Int /\ -i \in 1 .. n
        BY <1>8
      <4> QED  BY <4>1
    <3>2. IsFiniteSet(-n .. 0)
      <4>1. -n \in Int /\ 0 \in Int
        OBVIOUS
      <4> QED  BY <4>1, FS_Interval
    <3> HIDE DEF fresh
    <3>3. fresh \subseteq -n .. 0
      BY <3>1
    <3> QED  BY <3>2, <3>3, FS_Subset
  <2>3. IsFiniteSet(DOMAIN maps)
    BY Rows DEF Tables, maps
  <2>4. DOMAIN after.maps \subseteq DOMAIN maps \cup fresh
    BY <1>2, <1>3
  <2> QED  BY <2>2, <2>3, <2>4, FS_Union, FS_Subset
<1> QED  BY <1>9, <1>10 DEF MapsWanted, maps

\* The handlers of maps and the probe want well-typed and sound tables.
LEMMA MapHandlers ==
  ASSUME TokenInv, TypeInv, NEW a \in Admins,
         CreateModelMap(a) \/ UpdateModelMap(a) \/ DeleteModelMap(a) \/ ProbeEndpoint(a)
  PROVE  \E c, b : Fine(a, c, b)
<1>0. DOMAIN db = Tables /\ Tables = {"endpoints", "keys", "rules", "access", "maps"}
  BY DEF TokenInv, Issued, Sessions, Tables
<1>1. \A i \in DOMAIN db.maps : MapRow(db.maps[i])
  BY Rows
<1>9. IsFiniteSet(DOMAIN db.maps) /\ \A S : S \subseteq DOMAIN db.maps => IsFiniteSet(S)
  BY Rows, FS_Subset DEF Tables
<1>2. ASSUME NEW call, call.op # "delete_endpoint", NEW maps,
             Start(a, call, [db EXCEPT !.maps = maps]),
             \A b : b.maps = maps => MapsWanted(b)
      PROVE  \E c, b : Fine(a, c, b)
  <2> DEFINE after == [db EXCEPT !.maps = maps]
  <2>1. /\ DOMAIN after = Tables /\ after.endpoints = db.endpoints /\ after.keys = db.keys
        /\ after.rules = db.rules /\ after.access = db.access /\ after.maps = maps
    BY <1>0
  <2>2. MapsWanted(after) /\ Start(a, call, after)
    BY <1>2, <2>1
  <2> HIDE DEF after
  <2> QED  BY <1>2, <2>1, <2>2, MapsFine
<1>3. CASE CreateModelMap(a)
  <2>1. PICK e \in DOMAIN db.endpoints, m \in Models :
            Start(a, Call("create_map"),
                  [db EXCEPT !.maps = With(@, New, [endpoint |-> e, alias |-> m, real |-> m,
                                                    managed |-> FALSE])])
    BY <1>3 DEF CreateModelMap
  <2> DEFINE row == [endpoint |-> e, alias |-> m, real |-> m, managed |-> FALSE]
             maps == With(db.maps, New, row)
             call == Call("create_map")
  <2>2. MapRow(row)
    BY Rows DEF MapRow, Ids, Tables
  <2>3. Start(a, call, [db EXCEPT !.maps = maps]) /\ call.op # "delete_endpoint"
    BY <2>1 DEF Call
  <2> HIDE DEF row, call
  <2>4. \A b : b.maps = maps => MapsWanted(b)
    <3>1. DOMAIN maps = DOMAIN db.maps \cup {New}
      BY DEF With
    <3>2. IsFiniteSet(DOMAIN maps)
      BY <1>9, <3>1, FS_AddElement
    <3> QED  BY <1>1, <2>2, <3>2 DEF MapsWanted, With, New
  <2> HIDE DEF maps
  <2> QED  BY <1>2, <2>3, <2>4
<1>4. CASE UpdateModelMap(a)
  <2>1. PICK i \in DOMAIN db.maps, alias \in Models, real \in Models :
            Start(a, Call("update_map"),
                  [db EXCEPT !.maps[i] = [@ EXCEPT !.alias = alias, !.real = real,
                                                   !.managed = FALSE]])
    BY <1>4 DEF UpdateModelMap
  <2> DEFINE row == [db.maps[i] EXCEPT !.alias = alias, !.real = real, !.managed = FALSE]
             maps == [db.maps EXCEPT ![i] = row]
             call == Call("update_map")
  <2>2. MapRow(row)
    BY <1>1 DEF MapRow
  <2>3. Start(a, call, [db EXCEPT !.maps = maps]) /\ call.op # "delete_endpoint"
    BY <2>1 DEF Call
  <2> HIDE DEF row, call
  <2>4. \A b : b.maps = maps => MapsWanted(b)
    BY <1>1, <1>9, <2>2 DEF MapsWanted
  <2> HIDE DEF maps
  <2> QED  BY <1>2, <2>3, <2>4
<1>5. CASE DeleteModelMap(a)
  <2>1. PICK i \in DOMAIN db.maps :
            Start(a, Call("delete_map"),
                  [db EXCEPT !.maps = Restrict(@, DOMAIN @ \ {i})])
    BY <1>5 DEF DeleteModelMap
  <2> DEFINE maps == Restrict(db.maps, DOMAIN db.maps \ {i})
             call == Call("delete_map")
  <2>2. Start(a, call, [db EXCEPT !.maps = maps]) /\ call.op # "delete_endpoint"
    BY <2>1 DEF Call
  <2>3. \A b : b.maps = maps => MapsWanted(b)
    BY <1>1, <1>9 DEF MapsWanted, Restrict
  <2> HIDE DEF maps, call
  <2> QED  BY <1>2, <2>2, <2>3
<1>6. CASE ProbeEndpoint(a)
  <2>1. PICK e \in DOMAIN db.endpoints, found \in Discoveries :
            Start(a, [op |-> "probe", endpoint |-> e, found |-> found],
                  [db EXCEPT !.maps = SyncProbe(@, e, found)])
    BY <1>6 DEF ProbeEndpoint
  <2> DEFINE maps == SyncProbe(db.maps, e, found)
             call == [op |-> "probe", endpoint |-> e, found |-> found]
  <2>2. Start(a, call, [db EXCEPT !.maps = maps]) /\ call.op # "delete_endpoint"
    BY <2>1
  <2>3. \A b : b.maps = maps => MapsWanted(b)
    BY ProbeMaps
  <2> HIDE DEF maps, call
  <2> QED  BY <1>2, <2>2, <2>3
<1> QED  BY <1>3, <1>4, <1>5, <1>6

-----------------------------------------------------------------------------
(* Every handler.                                                          *)

\* The handlers, each of which starts a session.
Handler(a) ==
    \/ CreateEndpoint(a) \/ UpdateEndpoint(a) \/ DeleteEndpoint(a)
    \/ CreateKey(a) \/ UpdateKey(a) \/ DeleteKey(a)
    \/ ListRules(a) \/ CreateRule(a) \/ UpdateRule(a) \/ DeleteRule(a)
    \/ CreateRuleAccessKey(a) \/ CreateAccessKey(a) \/ UpdateAccessKey(a)
    \/ RotateAccessKey(a) \/ DeleteAccessKey(a)
    \/ CreateModelMap(a) \/ UpdateModelMap(a) \/ DeleteModelMap(a)
    \/ ProbeEndpoint(a)

\* Every handler wants well-typed tables, and sound ones.
LEMMA AllFine ==
  ASSUME TokenInv, TypeInv, NEW a \in Admins, Handler(a)
  PROVE  \E call, after : Fine(a, call, after)
BY EndpointHandlers, KeyHandlers, RuleHandlers, AccessKeyHandlers, MapHandlers DEF Handler

\* Two databases with the same keys and rules.
SameRows(b, c) ==
    /\ DOMAIN b.keys = DOMAIN c.keys
    /\ \A k \in DOMAIN b.keys : b.keys[k] = c.keys[k]
    /\ DOMAIN b.rules = DOMAIN c.rules
    /\ \A r \in DOMAIN b.rules : b.rules[r] = c.rules[r]

\* Sound is about the rows of the keys and the rules, and nothing else.
LEMMA SoundOfSame ==
  ASSUME NEW b, NEW c, NEW o, SameRows(b, c), Sound(b, o)
  PROVE  Sound(c, o)
<1>1. Membership(b, o) /\ Disjoint(b) /\ (Proper(db) => Proper(b))
  BY DEF Sound
<1>2. Membership(c, o)
  <2>1. Targeted(c) = Targeted(b)
    BY DEF Targeted, SameRows
  <2>2. \A k \in DOMAIN c.keys : \A g : InRuleGroup(c.keys[k], g) <=> InRuleGroup(b.keys[k], g)
    BY DEF SameRows
  <2>3. \A k, g :
            (\E r \in DOMAIN c.rules : c.rules[r].group = g /\ k \in c.rules[r].config.targets)
            <=> (\E r \in DOMAIN b.rules :
                    b.rules[r].group = g /\ k \in b.rules[r].config.targets)
    BY DEF SameRows
  <2>4. DOMAIN c.keys = DOMAIN b.keys
    BY DEF SameRows
  <2> QED  BY <1>1, <2>1, <2>2, <2>3, <2>4 DEF Membership
<1>3. Disjoint(c)
  BY <1>1 DEF Disjoint, SameRows
<1>4. Proper(b) => Proper(c)
  BY DEF Proper, DefaultRules, SameRows
<1> QED  BY <1>1, <1>2, <1>3, <1>4 DEF Sound

\* A handler that starts on sound rows means to leave sound ones.
LEMMA StartSound ==
  ASSUME TokenInv, TypeInv, AgreeInv, NEW a \in Admins, NEW call, NEW after, Fine(a, call, after)
  PROVE  AgreeInv'
<1> DEFINE c == Changes(db, after)
           job == [op |-> call.op, call |-> call, changes |-> c, stale |-> {}]
           meant == Intended(job)
<1>1. /\ jobs' = [jobs EXCEPT ![a] = job]
      /\ UNCHANGED <<db, raced, orphans>>
  BY DEF Fine, Start
<1>2. /\ DOMAIN db = Tables /\ DOMAIN jobs = Admins
      /\ DOMAIN after = Tables
  BY DEF TokenInv, Issued, Sessions, Fine, Typed
<1>3. job.op = call.op /\ job.changes = c /\ job.call = call
  OBVIOUS
<1>4. \A t \in {"keys", "rules"} :
         /\ DOMAIN c[t].old \subseteq DOMAIN db[t]
         /\ \A i \in DOMAIN c[t].old : c[t].old[i] = db[t][i]
         /\ DOMAIN c[t].new \subseteq DOMAIN after[t]
         /\ \A i \in DOMAIN c[t].new : c[t].new[i] = after[t][i]
         /\ \A i \in DOMAIN db[t] \ DOMAIN after[t] : i \in DOMAIN c[t].old
         /\ \A i \in DOMAIN after[t] \ DOMAIN db[t] : i \in DOMAIN c[t].new
         /\ \A i \in DOMAIN after[t] \cap DOMAIN db[t] :
                /\ i \in DOMAIN c[t].old <=> i \in DOMAIN c[t].new
                /\ i \notin DOMAIN c[t].new <=> db[t][i] = after[t][i]
  <2> SUFFICES ASSUME NEW t \in {"keys", "rules"}
               PROVE /\ DOMAIN c[t].old \subseteq DOMAIN db[t]
                     /\ \A i \in DOMAIN c[t].old : c[t].old[i] = db[t][i]
                     /\ DOMAIN c[t].new \subseteq DOMAIN after[t]
                     /\ \A i \in DOMAIN c[t].new : c[t].new[i] = after[t][i]
                     /\ \A i \in DOMAIN db[t] \ DOMAIN after[t] : i \in DOMAIN c[t].old
                     /\ \A i \in DOMAIN after[t] \ DOMAIN db[t] : i \in DOMAIN c[t].new
                     /\ \A i \in DOMAIN after[t] \cap DOMAIN db[t] :
                            /\ i \in DOMAIN c[t].old <=> i \in DOMAIN c[t].new
                            /\ i \notin DOMAIN c[t].new <=> db[t][i] = after[t][i]
    OBVIOUS
  <2>1. t \in DOMAIN db
    BY <1>2 DEF Tables
  <2> HIDE DEF c
  <2> QED  BY <2>1, ChangesAre DEF c
<1> HIDE DEF c
<1>5. Current(db.keys, c.keys) /\ Current(db.rules, c.rules)
  BY <1>4 DEF Current
<1>6. \A t \in {"keys", "rules"} :
        LET applied == Applied(db[t], c[t]) IN
        DOMAIN applied = DOMAIN after[t] /\ \A i \in DOMAIN applied : applied[i] = after[t][i]
  <2> SUFFICES ASSUME NEW t \in {"keys", "rules"}
               PROVE  LET applied == Applied(db[t], c[t]) IN
                      DOMAIN applied = DOMAIN after[t]
                      /\ \A i \in DOMAIN applied : applied[i] = after[t][i]
    OBVIOUS
  <2>1. /\ DOMAIN c[t].old \subseteq DOMAIN db[t]
        /\ DOMAIN c[t].new \subseteq DOMAIN after[t]
        /\ \A i \in DOMAIN c[t].new : c[t].new[i] = after[t][i]
        /\ \A i \in DOMAIN db[t] \ DOMAIN after[t] : i \in DOMAIN c[t].old
        /\ \A i \in DOMAIN after[t] \ DOMAIN db[t] : i \in DOMAIN c[t].new
        /\ \A i \in DOMAIN after[t] \cap DOMAIN db[t] :
                /\ i \in DOMAIN c[t].old <=> i \in DOMAIN c[t].new
                /\ i \notin DOMAIN c[t].new <=> db[t][i] = after[t][i]
    BY <1>4
  <2> QED  BY <2>1 DEF Applied, Removed
<1>7. meant.keys = Applied(db.keys, c.keys) /\ meant.rules = Applied(db.rules, c.rules)
  BY <1>3 DEF Intended
<1> HIDE DEF job, meant
<1>8. SameRows(after, meant)
  BY <1>6, <1>7 DEF SameRows
<1>9. ASSUME ~raced, call.op # "delete_endpoint" 
      PROVE  Sound(Intended(job), orphans \cup Strays(job.call))
  <2>1. Sound(after, orphans \cup Strays(call))
    BY <1>9 DEF AgreeInv, Fine, KeepsBut
  <2> QED  BY <1>3, <1>8, <2>1, SoundOfSame DEF meant
<1>10. ASSUME ~raced, NEW b \in Admins, jobs'[b] # Idle, jobs'[b].op # "delete_endpoint",
              jobs'[b].stale \cap {"keys", "rules"} = {}
       PROVE  /\ Current(db.keys, jobs'[b].changes.keys)
              /\ Current(db.rules, jobs'[b].changes.rules)
              /\ Sound(Intended(jobs'[b]), orphans \cup Strays(jobs'[b].call))
  <2>1. CASE b = a
    BY <1>1, <1>2, <1>3, <1>5, <1>9, <1>10, <2>1
  <2>2. CASE b # a
    <3>1. jobs'[b] = jobs[b]
      BY <1>1, <1>2, <2>2
    <3> QED  BY <1>10, <3>1 DEF AgreeInv
  <2> QED  BY <2>1, <2>2
<1>11. \A j, o : (Sound(Intended(j), o) => (db' = db =>
            (/\ Membership([keys |-> Applied(db'.keys, j.changes.keys),
                           rules |-> Applied(db'.rules, j.changes.rules)], o)
             /\ Disjoint([keys |-> Applied(db'.keys, j.changes.keys),
                           rules |-> Applied(db'.rules, j.changes.rules)])
             /\ (Proper(db') => Proper([keys |-> Applied(db'.keys, j.changes.keys),
                           rules |-> Applied(db'.rules, j.changes.rules)])))))
  BY DEF Sound, Intended
<1> QED  BY <1>1, <1>10, <1>11 DEF AgreeInv, Sound, Intended

-----------------------------------------------------------------------------
(* What a commit makes of the tables.                                      *)

\* A table after the writes of a session, row by row.
MergedFrom(table, change, lastId, merged) ==
    /\ \A i \in DOMAIN table : i \notin Removed(change) =>
        /\ i \in DOMAIN merged
        /\ i \notin DOMAIN change.new => merged[i] = table[i]
        /\ i \in DOMAIN change.new =>
            /\ i \in DOMAIN change.old
            /\ merged[i] = MergeRow(table[i], change.old[i], change.new[i])
    /\ \A n \in DOMAIN change.new : n < 0 =>
        lastId - n \in DOMAIN merged /\ merged[lastId - n] = change.new[n]
    /\ \A i \in DOMAIN merged :
        \/ i \in DOMAIN table /\ i \notin Removed(change)
        \/ \E n \in DOMAIN change.new : /\ n \in Int /\ n < 0 /\ i = lastId - n
                                        /\ merged[i] = change.new[n]

\* MergeTable, row by row.
LEMMA MergeIs ==
  ASSUME NEW table, NEW change, NEW lastId \in Nat, DOMAIN table \subseteq 1 .. lastId,
         DOMAIN change.old \subseteq Ids, DOMAIN change.new \subseteq Int,
         \A i \in DOMAIN change.new : i \in DOMAIN change.old \/ i < 0
  PROVE  MergedFrom(table, change, lastId, MergeTable(table, change, lastId))
<1> DEFINE added == {id \in DOMAIN change.new : id < 0}
           kept == DOMAIN table \ Removed(change)
           merged == MergeTable(table, change, lastId)
<1>1. DOMAIN merged = kept \cup {lastId - n : n \in added}
  BY DEF MergeTable
<1>2. \A i \in DOMAIN merged :
        merged[i] = CASE i \notin kept -> change.new[lastId - i]
                      [] i \in kept \cap Updated(change) ->
                            MergeRow(table[i], change.old[i], change.new[i])
                      [] OTHER -> table[i]
  BY DEF MergeTable
<1>3. ASSUME NEW n \in added
      PROVE  /\ n \in Int /\ n < 0 /\ lastId - n \in Int /\ lastId - (lastId - n) = n
             /\ lastId - n \notin DOMAIN table
  BY DEF Ids
<1> HIDE DEF merged
<1>4. ASSUME NEW n \in DOMAIN change.new, n < 0
      PROVE  lastId - n \in DOMAIN merged /\ merged[lastId - n] = change.new[n]
  <2>1. n \in added /\ lastId - n \notin kept /\ lastId - (lastId - n) = n
    BY <1>3, <1>4
  <2> QED  BY <1>1, <1>2, <2>1
<1>5. ASSUME NEW i \in kept
      PROVE  /\ i \in DOMAIN merged
             /\ i \notin DOMAIN change.new => merged[i] = table[i]
             /\ i \in DOMAIN change.new =>
                 /\ i \in DOMAIN change.old
                 /\ merged[i] = MergeRow(table[i], change.old[i], change.new[i])
  <2>1. i \in 1 .. lastId
    OBVIOUS
  <2>2. i \in DOMAIN change.new => i \in DOMAIN change.old
    BY <2>1
  <2>3. i \in DOMAIN change.new <=> i \in kept \cap Updated(change)
    BY <2>2 DEF Updated
  <2> QED  BY <1>1, <1>2, <2>2, <2>3
<1>6. ASSUME NEW i \in DOMAIN merged, i \notin kept
      PROVE  \E n \in DOMAIN change.new : /\ n \in Int /\ n < 0 /\ i = lastId - n
                                          /\ merged[i] = change.new[n]
  <2>1. PICK n \in added : i = lastId - n
    BY <1>1, <1>6
  <2> QED  BY <1>3, <1>4, <2>1
<1> QED  BY <1>4, <1>5, <1>6 DEF MergedFrom, merged

\* The ids that a commit gives out are above all that are in use.
LEMMA LastIdIs ==
  ASSUME TokenInv, TypeInv, NEW t \in Tables
  PROVE  /\ LastId(t) \in Nat /\ LastId(t) <= last[t]
         /\ DOMAIN db[t] \subseteq 1 .. LastId(t)
<1> DEFINE S == DOMAIN db[t] \cup {0}
<1>1. /\ last[t] \in Nat /\ DOMAIN db[t] \subseteq 1 .. last[t]
      /\ IsFiniteSet(DOMAIN db[t])
  BY DEF TypeInv
<1>2. CASE ReusesIds
  <2>1. S \in SUBSET Nat /\ S # {} /\ IsFiniteSet(S)
    BY <1>1, FS_AddElement
  <2>2. \A y \in S : y <= last[t]
    BY <1>1
  <2>3. DOMAIN db[t] \subseteq S /\ \A y \in DOMAIN db[t] : y >= 1
    BY <1>1
  <2>4. LastId(t) = Max(S)
    BY <1>2 DEF LastId
  <2> HIDE DEF S
  <2>5. Max(S) \in S /\ \A y \in S : Max(S) >= y
    BY <2>1, MaxOfFinite
  <2> DEFINE m == Max(S)
  <2>6. m \in Nat /\ m <= last[t] /\ \A y \in DOMAIN db[t] : y \in Nat /\ 1 <= y /\ y <= m
    BY <2>1, <2>2, <2>3, <2>5
  <2> HIDE DEF m
  <2>7. \A y \in DOMAIN db[t] : y \in 1 .. m
    BY <2>6
  <2> QED  BY <2>4, <2>6, <2>7 DEF m
<1>3. CASE ~ReusesIds
  BY <1>1, <1>3 DEF LastId
<1> QED  BY <1>2, <1>3

\* The session's own changes with ids and tokens filled in.
Filled(c, res) ==
    /\ DOMAIN res = Tables
    /\ \A t \in Tables : res[t].old = c[t].old /\ DOMAIN res[t].new = DOMAIN c[t].new
    /\ res.endpoints.new = c.endpoints.new
    /\ \A i \in DOMAIN c.keys.new :
           res.keys.new[i] = [c.keys.new[i] EXCEPT !.endpoint = Renamed("endpoints", @)]
    /\ \A i \in DOMAIN c.maps.new :
           res.maps.new[i] = [c.maps.new[i] EXCEPT !.endpoint = Renamed("endpoints", @)]
    /\ \A r \in DOMAIN c.rules.new :
           res.rules.new[r] = [c.rules.new[r] EXCEPT
                                 !.config.targets = {Renamed("keys", k) : k \in @}]
    /\ \A i \in DOMAIN c.access.new :
           res.access.new[i] = [c.access.new[i] EXCEPT
                                  !.token = IF @ = New THEN tokens + 1 ELSE @]

\* Resolved, row by row.
LEMMA ResolvedIs ==
  ASSUME NEW c, DOMAIN c = Tables, \A t \in Tables : DOMAIN c[t] = {"old", "new"}
  PROVE  Filled(c, Resolved(c))
<1> DEFINE Owned(rows) == [i \in DOMAIN rows |->
                [rows[i] EXCEPT !.endpoint = Renamed("endpoints", @)]]
           Aimed(rows) == [r \in DOMAIN rows |->
                [rows[r] EXCEPT !.config.targets = {Renamed("keys", k) : k \in @}]]
           Told(rows) == [i \in DOMAIN rows |->
                [rows[i] EXCEPT !.token = IF @ = New THEN tokens + 1 ELSE @]]
           res == Resolved(c)
           keys == Owned(c.keys.new)
           maps == Owned(c.maps.new)
           rules == Aimed(c.rules.new)
           access == Told(c.access.new)
<1>1. res = [c EXCEPT !.keys.new = keys, !.maps.new = maps,
                      !.rules.new = rules, !.access.new = access]
  BY DEF Resolved
<1>2. /\ DOMAIN keys = DOMAIN c.keys.new
      /\ \A i \in DOMAIN c.keys.new :
            keys[i] = [c.keys.new[i] EXCEPT !.endpoint = Renamed("endpoints", @)]
      /\ DOMAIN maps = DOMAIN c.maps.new
      /\ \A i \in DOMAIN c.maps.new :
            maps[i] = [c.maps.new[i] EXCEPT !.endpoint = Renamed("endpoints", @)]
      /\ DOMAIN rules = DOMAIN c.rules.new
      /\ \A r \in DOMAIN c.rules.new :
            rules[r] = [c.rules.new[r] EXCEPT
                          !.config.targets = {Renamed("keys", k) : k \in @}]
      /\ DOMAIN access = DOMAIN c.access.new
      /\ \A i \in DOMAIN c.access.new :
            access[i] = [c.access.new[i] EXCEPT
                           !.token = IF @ = New THEN tokens + 1 ELSE @]
  OBVIOUS
<1> HIDE DEF keys, maps, rules, access, res
<1>3. /\ DOMAIN res = Tables
      /\ res.endpoints = c.endpoints
      /\ res.keys.new = keys /\ res.keys.old = c.keys.old
      /\ res.maps.new = maps /\ res.maps.old = c.maps.old
      /\ res.rules.new = rules /\ res.rules.old = c.rules.old
      /\ res.access.new = access /\ res.access.old = c.access.old
  BY <1>1 DEF Tables
<1> QED  BY <1>2, <1>3 DEF Filled, Tables, res

\* Columns of two rows of a table make a row of the table.
LEMMA RowsMerge ==
  ASSUME NEW row, NEW old, NEW new
  PROVE  LET merged == MergeRow(row, old, new) IN
         /\ EndpointRow(row) /\ EndpointRow(new) => EndpointRow(merged)
         /\ KeyRow(row) /\ KeyRow(new) =>
                /\ KeyRow(merged)
                /\ new.endpoint = old.endpoint => merged.endpoint = row.endpoint
         /\ RuleRow(row) /\ RuleRow(new) =>
                /\ RuleRow(merged)
                /\ merged.config = row.config \/ merged.config = new.config
         /\ AccessKeyRow(row) /\ AccessKeyRow(new) => AccessKeyRow(merged)
         /\ MapRow(row) /\ MapRow(new) => MapRow(merged)
<1> DEFINE merged == MergeRow(row, old, new)
<1>1. ASSUME EndpointRow(row), EndpointRow(new) PROVE EndpointRow(merged)
  BY <1>1 DEF EndpointRow, MergeRow
<1>2. ASSUME KeyRow(row), KeyRow(new)
      PROVE  /\ KeyRow(merged)
             /\ new.endpoint = old.endpoint => merged.endpoint = row.endpoint
  <2>1. DOMAIN row = {"endpoint", "active", "groups"}
    BY <1>2 DEF KeyRow
  <2>2. /\ merged = [c \in {"endpoint", "active", "groups"} |->
                        IF new[c] = old[c] THEN row[c] ELSE new[c]]
    BY <2>1 DEF MergeRow
  <2> HIDE DEF merged
  <2>3. /\ merged.endpoint = row.endpoint \/ merged.endpoint = new.endpoint
        /\ merged.active = row.active \/ merged.active = new.active
        /\ merged.groups = row.groups \/ merged.groups = new.groups
        /\ new.endpoint = old.endpoint => merged.endpoint = row.endpoint
    BY <2>2
  <2>4. merged \in [endpoint : Int, active : BOOLEAN, groups : Lists]
    <3>1. /\ merged.endpoint \in Int /\ merged.active \in BOOLEAN /\ merged.groups \in Lists
      BY <1>2, <2>3 DEF KeyRow
    <3> QED  BY <2>2, <3>1
  <2>5. IsInjective(merged.groups)
    BY <1>2, <2>3 DEF KeyRow
  <2> QED  BY <2>3, <2>4, <2>5 DEF KeyRow
<1>3. ASSUME RuleRow(row), RuleRow(new)
      PROVE  /\ RuleRow(merged)
             /\ merged.config = row.config \/ merged.config = new.config
  <2>1. DOMAIN row = {"group", "active", "pattern", "config"}
    BY <1>3 DEF RuleRow
  <2>2. /\ merged = [c \in {"group", "active", "pattern", "config"} |->
                        IF new[c] = old[c] THEN row[c] ELSE new[c]]
    BY <2>1 DEF MergeRow
  <2> HIDE DEF merged
  <2>3. /\ merged.group = row.group \/ merged.group = new.group
        /\ merged.active = row.active \/ merged.active = new.active
        /\ merged.pattern = row.pattern \/ merged.pattern = new.pattern
        /\ merged.config = row.config \/ merged.config = new.config
    BY <2>2
  <2>4. RuleRow(merged)
    <3>1. /\ merged.group \in Groups \cup {Default} /\ merged.active \in BOOLEAN
          /\ merged.pattern \in SUBSET Models
          /\ merged.config \in [targets : SUBSET Int, exposures : SUBSET Formats]
      BY <1>3, <2>3 DEF RuleRow
    <3> QED  BY <2>2, <3>1 DEF RuleRow
  <2> QED  BY <2>3, <2>4
<1>4. ASSUME AccessKeyRow(row), AccessKeyRow(new) PROVE AccessKeyRow(merged)
  <2>1. DOMAIN row = {"groups", "active", "token"}
    BY <1>4 DEF AccessKeyRow
  <2>2. /\ merged = [c \in {"groups", "active", "token"} |->
                        IF new[c] = old[c] THEN row[c] ELSE new[c]]
    BY <2>1 DEF MergeRow
  <2> HIDE DEF merged
  <2>3. /\ merged.groups \in Lists /\ merged.active \in BOOLEAN /\ merged.token \in Int
    BY <1>4, <2>2 DEF AccessKeyRow
  <2> QED  BY <2>2, <2>3 DEF AccessKeyRow
<1>5. ASSUME MapRow(row), MapRow(new) PROVE MapRow(merged)
  <2>1. DOMAIN row = {"endpoint", "alias", "real", "managed"}
    BY <1>5 DEF MapRow
  <2>2. /\ merged = [c \in {"endpoint", "alias", "real", "managed"} |->
                        IF new[c] = old[c] THEN row[c] ELSE new[c]]
    BY <2>1 DEF MergeRow
  <2> HIDE DEF merged
  <2>3. /\ merged.endpoint \in Int /\ merged.alias \in Models
        /\ merged.real \in Models /\ merged.managed \in BOOLEAN
    BY <1>5, <2>2 DEF MapRow
  <2> QED  BY <2>2, <2>3 DEF MapRow
<1> QED  BY <1>1, <1>2, <1>3, <1>4, <1>5

\* The rows left of a table once those without their endpoint are gone.
Cascaded(table, endpoints, rest) ==
    /\ DOMAIN rest = {i \in DOMAIN table : table[i].endpoint \in DOMAIN endpoints}
    /\ \A i \in DOMAIN rest : rest[i] = table[i]

\* The writes of a session, merged with what is in the table.
Merges(c, t, merged) == MergedFrom(db[t], Resolved(c)[t], LastId(t), merged)

\* A commit, table by table.
LEMMA CommitIs ==
  ASSUME TokenInv, TypeInv, NEW a \in Admins, Commit(a)
  PROVE  LET c == jobs[a].changes IN
         /\ DOMAIN c = Tables /\ (\A t \in Tables : DOMAIN c[t] = {"old", "new"})
         /\ Writes(jobs[a])
         /\ DOMAIN db' = Tables
         /\ Merges(c, "endpoints", db'.endpoints)
         /\ Merges(c, "rules", db'.rules)
         /\ Merges(c, "access", db'.access)
         /\ \E keys : Merges(c, "keys", keys) /\ Cascaded(keys, db'.endpoints, db'.keys)
         /\ \E maps : Merges(c, "maps", maps) /\ Cascaded(maps, db'.endpoints, db'.maps)
<1> DEFINE c == jobs[a].changes
           res == Resolved(c)
           merged == [t \in Tables |-> MergeTable(db[t], res[t], LastId(t))]
           Owned(table) == {i \in DOMAIN table : table[i].endpoint \in DOMAIN merged.endpoints}
<1>1. /\ DOMAIN c = Tables /\ \A t \in Tables : DOMAIN c[t] = {"old", "new"}
      /\ Writes(jobs[a])
  <2>1. jobs[a] # Idle
    BY DEF Commit
  <2> QED  BY <2>1 DEF TokenInv, Sessions, Session, TypeInv
<1>2. db' = [merged EXCEPT !.keys = Restrict(@, Owned(@)), !.maps = Restrict(@, Owned(@))]
  BY DEF Commit, Merged
<1>3. \A t \in Tables : Merges(c, t, merged[t])
  <2> SUFFICES ASSUME NEW t \in Tables PROVE Merges(c, t, merged[t])
    OBVIOUS
  <2>1. LastId(t) \in Nat /\ DOMAIN db[t] \subseteq 1 .. LastId(t)
    BY LastIdIs
  <2> HIDE DEF c
  <2>2. res[t].old = c[t].old /\ DOMAIN res[t].new = DOMAIN c[t].new
    <3>1. Filled(c, res)
      BY <1>1, ResolvedIs
    <3> QED  BY <3>1 DEF Filled
  <2> HIDE DEF res
  <2>3. /\ DOMAIN c[t].old \subseteq Ids /\ DOMAIN c[t].new \subseteq Int
        /\ \A i \in DOMAIN c[t].new : i \in DOMAIN c[t].old \/ i < 0
    BY <1>1 DEF Writes, c
  <2>4. merged[t] = MergeTable(db[t], res[t], LastId(t))
    OBVIOUS
  <2> HIDE DEF merged
  <2>5. MergedFrom(db[t], res[t], LastId(t), MergeTable(db[t], res[t], LastId(t)))
    BY <2>1, <2>2, <2>3, MergeIs
  <2> QED  BY <2>4, <2>5 DEF Merges, res
<1>4. DOMAIN merged = Tables
  OBVIOUS
<1> HIDE DEF c, merged
<1>5. /\ DOMAIN db' = Tables /\ db'.endpoints = merged.endpoints
      /\ db'.rules = merged.rules /\ db'.access = merged.access
      /\ db'.keys = Restrict(merged.keys, Owned(merged.keys))
      /\ db'.maps = Restrict(merged.maps, Owned(merged.maps))
  BY <1>2, <1>4 DEF Tables
<1>6. /\ Cascaded(merged.keys, db'.endpoints, db'.keys)
      /\ Cascaded(merged.maps, db'.endpoints, db'.maps)
  BY <1>5 DEF Cascaded, Restrict
<1>7. /\ Merges(c, "endpoints", db'.endpoints) /\ Merges(c, "rules", db'.rules)
      /\ Merges(c, "access", db'.access) /\ Merges(c, "keys", merged.keys)
      /\ Merges(c, "maps", merged.maps)
  BY <1>3, <1>5 DEF Tables
<1> QED  BY <1>1, <1>5, <1>6, <1>7 DEF c

\* What Resolved leaves of the types of a session's rows.
ResolvedTo(c, res) ==
    /\ \A t \in Tables : res[t].old = c[t].old /\ DOMAIN res[t].new = DOMAIN c[t].new
    /\ \A i \in DOMAIN c.endpoints.new : EndpointRow(res.endpoints.new[i])
    /\ \A i \in DOMAIN c.keys.new :
        /\ KeyRow(res.keys.new[i])
        /\ res.keys.new[i].groups = c.keys.new[i].groups
        /\ res.keys.new[i].endpoint = Renamed("endpoints", c.keys.new[i].endpoint)
    /\ \A r \in DOMAIN c.rules.new :
        /\ RuleRow(res.rules.new[r])
        /\ SameButTargets(c.rules.new[r], res.rules.new[r])
        /\ res.rules.new[r].config.targets =
                {Renamed("keys", k) : k \in c.rules.new[r].config.targets}
    /\ \A i \in DOMAIN c.access.new : AccessKeyRow(res.access.new[i])
    /\ \A i \in DOMAIN c.maps.new : MapRow(res.maps.new[i])

\* Filling in ids and tokens keeps the types of the rows.
LEMMA ResolvedRows ==
  ASSUME TokenInv, TypeInv, NEW job, NEW c, c = job.changes, DOMAIN c = Tables,
         \A t \in Tables : DOMAIN c[t] = {"old", "new"}, Writes(job)
  PROVE  ResolvedTo(c, Resolved(c))
<1> DEFINE res == Resolved(c)
<1>0. Filled(c, res)
  BY ResolvedIs
<1> HIDE DEF res
<1>1. /\ \A t \in Tables : res[t].old = c[t].old /\ DOMAIN res[t].new = DOMAIN c[t].new
      /\ res.endpoints.new = c.endpoints.new
      /\ \A i \in DOMAIN c.keys.new :
                res.keys.new[i] = [c.keys.new[i] EXCEPT !.endpoint = Renamed("endpoints", @)]
      /\ \A i \in DOMAIN c.maps.new :
                res.maps.new[i] = [c.maps.new[i] EXCEPT !.endpoint = Renamed("endpoints", @)]
      /\ \A r \in DOMAIN c.rules.new :
                res.rules.new[r] = [c.rules.new[r] EXCEPT
                                      !.config.targets = {Renamed("keys", k) : k \in @}]
      /\ \A i \in DOMAIN c.access.new :
                res.access.new[i] = [c.access.new[i] EXCEPT
                                       !.token = IF @ = New THEN tokens + 1 ELSE @]
  BY <1>0 DEF Filled
<1>2. \A t \in Tables, k \in Int : Renamed(t, k) \in Int
  <2>1. \A t \in Tables : LastId(t) \in Nat
    BY LastIdIs
  <2> QED  BY <2>1 DEF Renamed
<1>3. /\ \A i \in DOMAIN c.endpoints.new : EndpointRow(c.endpoints.new[i])
      /\ \A i \in DOMAIN c.keys.new : KeyRow(c.keys.new[i])
      /\ \A i \in DOMAIN c.rules.new : RuleRow(c.rules.new[i])
      /\ \A i \in DOMAIN c.access.new : AccessKeyRow(c.access.new[i])
      /\ \A i \in DOMAIN c.maps.new : MapRow(c.maps.new[i])
  BY DEF Writes
<1>4. ASSUME NEW i \in DOMAIN c.keys.new
      PROVE  /\ KeyRow(res.keys.new[i])
             /\ res.keys.new[i].groups = c.keys.new[i].groups
             /\ res.keys.new[i].endpoint = Renamed("endpoints", c.keys.new[i].endpoint)
  <2> DEFINE row == c.keys.new[i]
             e == Renamed("endpoints", row.endpoint)
  <2>1. KeyRow(row) /\ e \in Int
    BY <1>2, <1>3 DEF KeyRow, Tables
  <2>2. res.keys.new[i] = [row EXCEPT !.endpoint = e]
    BY <1>1
  <2> HIDE DEF e, row
  <2>3. KeyRow(res.keys.new[i]) /\ res.keys.new[i].endpoint = e
        /\ res.keys.new[i].groups = row.groups
    BY <2>1, <2>2 DEF KeyRow
  <2> QED  BY <2>3 DEF e, row
<1>5. ASSUME NEW i \in DOMAIN c.maps.new PROVE MapRow(res.maps.new[i])
  <2> DEFINE row == c.maps.new[i]
             e == Renamed("endpoints", row.endpoint)
  <2>1. MapRow(row) /\ e \in Int
    BY <1>2, <1>3 DEF MapRow, Tables
  <2>2. res.maps.new[i] = [row EXCEPT !.endpoint = e]
    BY <1>1
  <2> HIDE DEF e, row
  <2> QED  BY <2>1, <2>2 DEF MapRow
<1>6. ASSUME NEW i \in DOMAIN c.access.new PROVE AccessKeyRow(res.access.new[i])
  <2> DEFINE row == c.access.new[i]
             t == IF row.token = New THEN tokens + 1 ELSE row.token
  <2>1. AccessKeyRow(row)
    BY <1>3
  <2>2. t \in Int
    BY <2>1 DEF AccessKeyRow, TokenInv, Issued
  <2>3. res.access.new[i] = [row EXCEPT !.token = t]
    BY <1>1
  <2> HIDE DEF t, row
  <2> QED  BY <2>1, <2>2, <2>3 DEF AccessKeyRow
<1>7. ASSUME NEW r \in DOMAIN c.rules.new
      PROVE  /\ RuleRow(res.rules.new[r])
             /\ SameButTargets(c.rules.new[r], res.rules.new[r])
             /\ res.rules.new[r].config.targets =
                        {Renamed("keys", k) : k \in c.rules.new[r].config.targets}
  <2> DEFINE row == c.rules.new[r]
             T == {Renamed("keys", k) : k \in row.config.targets}
  <2>1. RuleRow(row)
    BY <1>3
  <2>2. T \in SUBSET Int
    <3>1. row.config.targets \subseteq Int
      BY <2>1 DEF RuleRow
    <3> QED  BY <1>2, <3>1 DEF Tables
  <2>3. res.rules.new[r] = [row EXCEPT !.config.targets = T]
    BY <1>1
  <2> HIDE DEF T, row
  <2>4. /\ RuleRow(res.rules.new[r]) /\ SameButTargets(row, res.rules.new[r])
        /\ res.rules.new[r].config.targets = T
    BY <2>1, <2>2, <2>3 DEF RuleRow, SameButTargets
  <2> QED  BY <2>4 DEF T, row
<1>8. \A i \in DOMAIN c.endpoints.new : EndpointRow(res.endpoints.new[i])
  BY <1>1, <1>3
<1> QED  BY <1>1, <1>4, <1>5, <1>6, <1>7, <1>8 DEF res, ResolvedTo

\* The rows a commit leaves are of the right types.
Committed ==
    /\ DOMAIN db' = Tables
    /\ \A t \in Tables : DOMAIN db'[t] \subseteq Ids /\ IsFiniteSet(DOMAIN db'[t])
    /\ \A e \in DOMAIN db'.endpoints : EndpointRow(db'.endpoints[e])
    /\ \A k \in DOMAIN db'.keys :
        KeyRow(db'.keys[k]) /\ db'.keys[k].endpoint \in DOMAIN db'.endpoints
    /\ \A r \in DOMAIN db'.rules :
        /\ RuleRow(db'.rules[r])
        /\ \A k \in db'.rules[r].config.targets :
                    k \in Ids \/ k \in DOMAIN db'.keys
    /\ \A i \in DOMAIN db'.access : AccessKeyRow(db'.access[i])
    /\ \A i \in DOMAIN db'.maps :
        MapRow(db'.maps[i]) /\ db'.maps[i].endpoint \in DOMAIN db'.endpoints

\* Ids of a merged table.
LEMMA MergedIds ==
  ASSUME TokenInv, TypeInv, NEW c, NEW t \in Tables, NEW merged, Merges(c, t, merged),
         NEW new, DOMAIN Resolved(c)[t].new = new, IsFiniteSet(new), new \subseteq Int
  PROVE  DOMAIN merged \subseteq Ids /\ IsFiniteSet(DOMAIN merged)
<1> DEFINE L == LastId(t)
           ids == {L - n : n \in new}
<1>1. L \in Nat /\ DOMAIN db[t] \subseteq 1 .. L
  BY LastIdIs
<1>2. IsFiniteSet(DOMAIN db[t])
  BY DEF TypeInv
<1> HIDE DEF L
<1>3. \A i \in DOMAIN merged :
        i \in DOMAIN db[t] \/ \E n \in new : n \in Int /\ n < 0 /\ i = L - n
  BY DEF Merges, MergedFrom, L
<1>4. DOMAIN merged \subseteq Ids
  BY <1>1, <1>3 DEF Ids
<1>5. IsFiniteSet(ids)
  <2> DEFINE f == [n \in new |-> L - n]
  <2>1. f \in Surjection(new, ids)
    BY DEF Surjection
  <2> QED  BY <2>1, FS_Surjection
<1>6. DOMAIN merged \subseteq DOMAIN db[t] \cup ids
  BY <1>3
<1> HIDE DEF ids
<1>7. IsFiniteSet(DOMAIN db[t] \cup ids)
  BY <1>2, <1>5, FS_Union
<1> QED  BY <1>4, <1>6, <1>7, FS_Subset

\* A commit leaves well-typed rows, and the new key with its id: it is not
\* swept away with a deleted endpoint, as its own endpoint was still there.
LEMMA CommitRows ==
  ASSUME TokenInv, TypeInv, NEW a \in Admins, Commit(a)
  PROVE  /\ Committed
         /\ New \in DOMAIN jobs[a].changes.keys.new =>
                /\ LastId("keys") + 1 \in DOMAIN db'.keys
                /\ db'.keys[LastId("keys") + 1] = Resolved(jobs[a].changes).keys.new[New]
<1> DEFINE c == jobs[a].changes
           res == Resolved(c)
<1>1. /\ DOMAIN c = Tables /\ (\A t \in Tables : DOMAIN c[t] = {"old", "new"})
      /\ Writes(jobs[a])
      /\ DOMAIN db' = Tables
      /\ Merges(c, "endpoints", db'.endpoints)
      /\ Merges(c, "rules", db'.rules)
      /\ Merges(c, "access", db'.access)
  BY CommitIs
<1>2. PICK keys : Merges(c, "keys", keys) /\ Cascaded(keys, db'.endpoints, db'.keys)
  BY CommitIs
<1>3. PICK maps : Merges(c, "maps", maps) /\ Cascaded(maps, db'.endpoints, db'.maps)
  BY CommitIs
<1>4. OwnersStillThere(c)
  BY DEF Commit
<1> HIDE DEF c
<1>5. ResolvedTo(c, res)
  <2>1. c = jobs[a].changes
    BY DEF c
  <2> QED  BY <1>1, <2>1, ResolvedRows
<1> HIDE DEF res
<1>6. \A t \in Tables : IsFiniteSet(DOMAIN c[t].new) /\ DOMAIN c[t].new \subseteq Int
  BY <1>1 DEF Writes, c
<1>7. \A t \in Tables : \A merged : Merges(c, t, merged) =>
            DOMAIN merged \subseteq Ids /\ IsFiniteSet(DOMAIN merged)
  <2> SUFFICES ASSUME NEW t \in Tables, NEW merged, Merges(c, t, merged)
               PROVE  DOMAIN merged \subseteq Ids /\ IsFiniteSet(DOMAIN merged)
    OBVIOUS
  <2> DEFINE new == DOMAIN c[t].new
  <2>1. DOMAIN Resolved(c)[t].new = new /\ IsFiniteSet(new) /\ new \subseteq Int
    BY <1>5, <1>6 DEF ResolvedTo, res
  <2> HIDE DEF new
  <2> QED  BY <2>1, MergedIds
<1>8. \A t \in Tables : LastId(t) \in Nat /\ LastId(t) <= last[t]
                         /\ DOMAIN db[t] \subseteq 1 .. LastId(t)
  BY LastIdIs
<1>9. \A e \in DOMAIN db'.endpoints : EndpointRow(db'.endpoints[e])
  <2>1. MergedFrom(db.endpoints, res.endpoints, LastId("endpoints"), db'.endpoints)
    BY <1>1 DEF Merges, res
  <2>2. /\ DOMAIN res.endpoints.new = DOMAIN c.endpoints.new
        /\ \A i \in DOMAIN c.endpoints.new : EndpointRow(res.endpoints.new[i])
        /\ \A i \in DOMAIN db.endpoints : EndpointRow(db.endpoints[i])
    BY <1>5, Rows DEF ResolvedTo, Tables
  <2> QED  BY <2>1, <2>2, RowsMerge DEF MergedFrom
<1>10. \A i \in DOMAIN db'.access : AccessKeyRow(db'.access[i])
  <2>1. MergedFrom(db.access, res.access, LastId("access"), db'.access)
    BY <1>1 DEF Merges, res
  <2>2. /\ DOMAIN res.access.new = DOMAIN c.access.new
        /\ \A i \in DOMAIN c.access.new : AccessKeyRow(res.access.new[i])
        /\ \A i \in DOMAIN db.access : AccessKeyRow(db.access[i])
    BY <1>5, Rows DEF ResolvedTo, Tables
  <2> QED  BY <2>1, <2>2, RowsMerge DEF MergedFrom
<1>11. \A i \in DOMAIN maps : MapRow(maps[i])
  <2>1. MergedFrom(db.maps, res.maps, LastId("maps"), maps)
    BY <1>3 DEF Merges, res
  <2>2. /\ DOMAIN res.maps.new = DOMAIN c.maps.new
        /\ \A i \in DOMAIN c.maps.new : MapRow(res.maps.new[i])
        /\ \A i \in DOMAIN db.maps : MapRow(db.maps[i])
    BY <1>5, Rows DEF ResolvedTo, Tables
  <2> QED  BY <2>1, <2>2, RowsMerge DEF MergedFrom
<1>12. MergedFrom(db.keys, res.keys, LastId("keys"), keys)
  BY <1>2 DEF Merges, res
<1>13. \A i \in DOMAIN keys : KeyRow(keys[i])
  <2>1. /\ DOMAIN res.keys.new = DOMAIN c.keys.new
        /\ \A i \in DOMAIN c.keys.new : KeyRow(res.keys.new[i])
        /\ \A i \in DOMAIN db.keys : KeyRow(db.keys[i])
    BY <1>5, Rows DEF ResolvedTo, Tables, KeyTable
  <2> QED  BY <1>12, <2>1, RowsMerge DEF MergedFrom
<1>14. ASSUME New \in DOMAIN c.keys.new
       PROVE  /\ LastId("keys") + 1 \in DOMAIN db'.keys
              /\ db'.keys[LastId("keys") + 1] = res.keys.new[New]
  <2> DEFINE e == c.keys.new[New].endpoint
             id == LastId("keys") + 1
  <2>1. /\ Removed(c.endpoints) = {}
        /\ e \in Ids \/ (e = New /\ New \in DOMAIN c.endpoints.new)
    BY <1>1, <1>14 DEF Writes, c
  <2>2. New < 0 /\ LastId("keys") - New = id /\ LastId("endpoints") - New = LastId("endpoints") + 1
        /\ New \notin Ids
    BY <1>8 DEF New, Tables, Ids
  <2>3. id \in DOMAIN keys /\ keys[id] = res.keys.new[New]
    <3>1. New \in DOMAIN res.keys.new
      BY <1>5, <1>14 DEF ResolvedTo, Tables
    <3> HIDE DEF id
    <3> QED  BY <1>12, <2>2, <3>1 DEF MergedFrom
  <2>4. keys[id].endpoint = Renamed("endpoints", e)
    BY <1>5, <1>14, <2>3 DEF ResolvedTo
  <2>5. Renamed("endpoints", e) \in DOMAIN db'.endpoints
    <3>1. MergedFrom(db.endpoints, res.endpoints, LastId("endpoints"), db'.endpoints)
      BY <1>1 DEF Merges, res
    <3>2. /\ DOMAIN res.endpoints.new = DOMAIN c.endpoints.new
          /\ Removed(res.endpoints) = {}
      BY <1>5, <2>1 DEF ResolvedTo, Tables, Removed
    <3>3. CASE e \in Ids
      <4>1. e \in DOMAIN db.endpoints
        <5>1. New \in DOMAIN c.keys.new \ DOMAIN c.keys.old
          BY <1>1, <1>14, <2>2 DEF Writes, c, Tables
        <5>2. e < 0 \/ e \in DOMAIN db.endpoints
          BY <1>4, <5>1 DEF OwnersStillThere
        <5> QED  BY <3>3, <5>2 DEF Ids
      <4>2. Renamed("endpoints", e) = e
        BY <3>3 DEF Renamed, Ids
      <4> QED  BY <3>1, <3>2, <4>1, <4>2 DEF MergedFrom
    <3>4. CASE e = New /\ New \in DOMAIN c.endpoints.new
      <4>1. Renamed("endpoints", e) = LastId("endpoints") - New
        BY <2>2, <3>4 DEF Renamed
      <4> QED  BY <2>2, <3>1, <3>2, <3>4, <4>1 DEF MergedFrom
    <3> QED  BY <2>1, <3>3, <3>4
  <2> HIDE DEF id, e
  <2>6. id \in DOMAIN db'.keys /\ db'.keys[id] = keys[id]
    BY <1>2, <2>3, <2>4, <2>5 DEF Cascaded
  <2> QED  BY <2>3, <2>6 DEF id
<1>15. \A r \in DOMAIN db'.rules :
        /\ RuleRow(db'.rules[r])
        /\ \A k \in db'.rules[r].config.targets :
                    k \in Ids \/ k \in DOMAIN db'.keys
  <2>1. MergedFrom(db.rules, res.rules, LastId("rules"), db'.rules)
    BY <1>1 DEF Merges, res
  <2>2. /\ DOMAIN res.rules.new = DOMAIN c.rules.new
        /\ \A i \in DOMAIN c.rules.new : RuleRow(res.rules.new[i])
        /\ \A i \in DOMAIN db.rules : RuleRow(db.rules[i])
    BY <1>5, Rows DEF ResolvedTo, Tables, RuleTable
  <2>3. \A r \in DOMAIN c.rules.new : \A k \in res.rules.new[r].config.targets :
            k \in Ids \/ k \in DOMAIN db'.keys
    <3> SUFFICES ASSUME NEW r \in DOMAIN c.rules.new, NEW k \in res.rules.new[r].config.targets
                 PROVE  k \in Ids \/ k \in DOMAIN db'.keys
      OBVIOUS
    <3>1. PICK n \in c.rules.new[r].config.targets : k = Renamed("keys", n)
      BY <1>5 DEF ResolvedTo
    <3>2. n \in Ids \/ (n = New /\ New \in DOMAIN c.keys.new)
      BY <1>1 DEF Writes, c
    <3>3. CASE n \in Ids
      BY <3>1, <3>3 DEF Renamed, Ids
    <3>4. CASE n = New /\ New \in DOMAIN c.keys.new
      <4>1. k = LastId("keys") + 1
        <5>1. LastId("keys") \in Nat
          BY <1>8 DEF Tables
        <5> QED  BY <3>1, <3>4, <5>1 DEF Renamed, New
      <4> QED  BY <1>14, <3>4, <4>1
    <3> QED  BY <3>2, <3>3, <3>4
  <2>4. \A r \in DOMAIN db.rules : \A k \in db.rules[r].config.targets : k \in Ids
    BY Rows
  <2>5. ASSUME NEW r \in DOMAIN db'.rules
        PROVE  /\ RuleRow(db'.rules[r])
               /\ \A k \in db'.rules[r].config.targets :
                    k \in Ids \/ k \in DOMAIN db'.keys
    <3>1. CASE r \in DOMAIN db.rules /\ r \notin Removed(res.rules)
      <4>1. r \notin DOMAIN res.rules.new => db'.rules[r] = db.rules[r]
        BY <2>1, <3>1 DEF MergedFrom
      <4>2. CASE r \notin DOMAIN res.rules.new
        BY <2>2, <2>4, <3>1, <4>1, <4>2
      <4>3. CASE r \in DOMAIN res.rules.new
        <5> DEFINE cur == db.rules[r]
                   old == res.rules.old[r]
                   new == res.rules.new[r]
        <5>1. db'.rules[r] = MergeRow(cur, old, new)
          BY <2>1, <3>1, <4>3 DEF MergedFrom
        <5>2. RuleRow(cur) /\ RuleRow(new)
          BY <2>2, <3>1, <4>3
        <5> HIDE DEF cur, old, new
        <5>3. /\ RuleRow(db'.rules[r])
              /\ db'.rules[r].config = cur.config \/ db'.rules[r].config = new.config
          BY <5>1, <5>2, RowsMerge
        <5> QED  BY <2>2, <2>3, <2>4, <3>1, <4>3, <5>3 DEF cur, new
      <4> QED  BY <4>2, <4>3
    <3>2. CASE \E n \in DOMAIN res.rules.new : db'.rules[r] = res.rules.new[n]
      BY <2>2, <2>3, <3>2
    <3> QED  BY <2>1, <3>1, <3>2 DEF MergedFrom
  <2> QED  BY <2>5
<1>16. /\ \A k \in DOMAIN db'.keys :
            KeyRow(db'.keys[k]) /\ db'.keys[k].endpoint \in DOMAIN db'.endpoints
       /\ \A i \in DOMAIN db'.maps :
            MapRow(db'.maps[i]) /\ db'.maps[i].endpoint \in DOMAIN db'.endpoints
       /\ DOMAIN db'.keys \subseteq DOMAIN keys /\ DOMAIN db'.maps \subseteq DOMAIN maps
  BY <1>2, <1>3, <1>11, <1>13 DEF Cascaded
<1>17. \A t \in Tables : DOMAIN db'[t] \subseteq Ids /\ IsFiniteSet(DOMAIN db'[t])
  <2>1. /\ DOMAIN db'.endpoints \subseteq Ids /\ IsFiniteSet(DOMAIN db'.endpoints)
        /\ DOMAIN db'.rules \subseteq Ids /\ IsFiniteSet(DOMAIN db'.rules)
        /\ DOMAIN db'.access \subseteq Ids /\ IsFiniteSet(DOMAIN db'.access)
        /\ DOMAIN keys \subseteq Ids /\ IsFiniteSet(DOMAIN keys)
        /\ DOMAIN maps \subseteq Ids /\ IsFiniteSet(DOMAIN maps)
    BY <1>1, <1>2, <1>3, <1>7 DEF Tables
  <2>2. /\ DOMAIN db'.keys \subseteq Ids /\ IsFiniteSet(DOMAIN db'.keys)
        /\ DOMAIN db'.maps \subseteq Ids /\ IsFiniteSet(DOMAIN db'.maps)
    BY <1>16, <2>1, FS_Subset
  <2> QED  BY <2>1, <2>2 DEF Tables
<1>18. Committed
  BY <1>1, <1>9, <1>10, <1>15, <1>16, <1>17 DEF Committed
<1> QED  BY <1>14, <1>18 DEF c, res

-----------------------------------------------------------------------------
(* The types after a session ends.                                         *)

\* The highest of a number and a finite set of ids.
LEMMA Highest ==
  ASSUME NEW n \in Nat, NEW S, S \subseteq Ids, IsFiniteSet(S)
  PROVE  LET m == Max({n} \cup S) IN m \in Nat /\ n <= m /\ S \subseteq 1 .. m
<1> DEFINE T == {n} \cup S
           m == Max(T)
<1>1. T \in SUBSET Nat /\ T # {} /\ n \in T /\ S \subseteq T
  BY DEF Ids
<1>2. IsFiniteSet(T)
  <2>1. T = S \cup {n}
    OBVIOUS
  <2> QED  BY <2>1, FS_AddElement
<1> HIDE DEF T
<1>3. m \in T /\ \A y \in T : m >= y
  BY <1>1, <1>2, MaxOfFinite
<1> HIDE DEF m
<1>4. m \in Nat /\ n <= m
  BY <1>1, <1>3
<1>5. ASSUME NEW y \in S PROVE y \in 1 .. m
  <2>1. y \in Nat /\ y # 0
    BY DEF Ids
  <2>2. m >= y
    BY <1>1, <1>3
  <2> QED  BY <1>4, <2>1, <2>2
<1> QED  BY <1>4, <1>5 DEF m, T

\* What a commit leaves of the other sessions.
LEMMA OtherSessions ==
  ASSUME TokenInv, NEW a \in Admins, Commit(a) \/ Rollback(a), NEW b \in Admins, jobs'[b] # Idle
  PROVE  /\ b # a /\ jobs[b] # Idle
         /\ jobs'[b].op = jobs[b].op /\ jobs'[b].changes = jobs[b].changes
         /\ jobs'[b].call = jobs[b].call
         /\ Commit(a) => jobs'[b].stale = jobs[b].stale \cup {t \in Tables : db[t] # db'[t]}
         /\ Rollback(a) => jobs'[b] = jobs[b]
<1>1. /\ DOMAIN jobs = Admins
      /\ jobs[b] # Idle => DOMAIN jobs[b] = {"op", "call", "changes", "stale"}
  BY DEF TokenInv, Sessions, Session
<1>2. CASE Rollback(a)
  <2>1. jobs' = [jobs EXCEPT ![a] = Idle]
    BY <1>2 DEF Rollback
  <2>2. b # a
    BY <1>1, <2>1
  <2>3. jobs'[b] = jobs[b]
    BY <1>1, <2>1, <2>2
  <2>4. CASE Commit(a)
    <3>1. calls' = calls /\ calls' = calls - 1 /\ jobs[a] # Idle
      BY <1>2, <2>4 DEF Commit, Rollback
    <3>2. jobs'[b] = [jobs[b] EXCEPT !.stale = @ \cup {t \in Tables : db[t] # db'[t]}]
      BY <2>2, <2>3, <2>4 DEF Commit
    <3> QED  BY <1>1, <2>2, <2>3, <3>2
  <2> QED  BY <2>2, <2>3, <2>4
<1>3. CASE Commit(a) /\ ~Rollback(a)
  <2>1. jobs'[b] = IF b = a \/ jobs[b] = Idle THEN IF b = a THEN Idle ELSE jobs[b]
                    ELSE [jobs[b] EXCEPT !.stale = @ \cup {t \in Tables : db[t] # db'[t]}]
    BY <1>3 DEF Commit
  <2>2. b # a /\ jobs[b] # Idle
    BY <2>1
  <2> QED  BY <1>1, <1>3, <2>1, <2>2
<1> QED  BY <1>2, <1>3

\* Sessions that end are no longer open.
LEMMA FewerOpen ==
  ASSUME TokenInv, TypeInv, NEW a \in Admins, Commit(a) \/ Rollback(a)
  PROVE  /\ Cardinality({b \in Admins : jobs'[b] # Idle}) + 1
                <= Cardinality({b \in Admins : jobs[b] # Idle})
         /\ Cardinality({b \in Admins : jobs'[b] # Idle}) \in Nat
<1> DEFINE open == {b \in Admins : jobs[b] # Idle}
           left == {b \in Admins : jobs'[b] # Idle}
<1>1. left \subseteq open \ {a}
  BY OtherSessions
<1>2. a \in open
  BY DEF Commit, Rollback
<1>3. IsFiniteSet(open)
  BY CatalogAssumption, FS_Subset
<1> HIDE DEF open, left
<1>4. /\ IsFiniteSet(open \ {a})
      /\ Cardinality(open \ {a}) = Cardinality(open) - 1
      /\ Cardinality(open) \in Nat
  BY <1>2, <1>3, FS_RemoveElement, FS_CardinalityType
<1>5. Cardinality(left) <= Cardinality(open \ {a}) /\ IsFiniteSet(left)
  BY <1>1, <1>4, FS_Subset
<1>6. Cardinality(left) \in Nat /\ Cardinality(open \ {a}) \in Nat
  BY <1>4, <1>5, FS_CardinalityType
<1> QED  BY <1>4, <1>5, <1>6 DEF open, left

\* Commit keeps the types.
LEMMA CommitTypes ==
  ASSUME TokenInv, TypeInv, StrayInv, NEW a \in Admins, Commit(a), TokenInv'
  PROVE  TypeInv'
<1>1. Committed
  BY CommitRows
<1>2. /\ \A t \in Tables : DOMAIN db'[t] \subseteq Ids /\ IsFiniteSet(DOMAIN db'[t])
      /\ DOMAIN db' = Tables
  BY <1>1 DEF Committed
<1>3. \A t \in Tables : /\ last'[t] \in Nat /\ last[t] <= last'[t]
                        /\ DOMAIN db'[t] \subseteq 1 .. last'[t]
  <2> SUFFICES ASSUME NEW t \in Tables
               PROVE  /\ last'[t] \in Nat /\ last[t] <= last'[t]
                      /\ DOMAIN db'[t] \subseteq 1 .. last'[t]
    OBVIOUS
  <2> DEFINE S == DOMAIN db'[t]
             n == last[t]
  <2>1. S \subseteq Ids /\ IsFiniteSet(S)
    BY <1>2
  <2>2. n \in Nat
    BY DEF TypeInv
  <2>3. last'[t] = Max({n} \cup S)
    BY DEF Commit
  <2> HIDE DEF S, n
  <2>4. LET m == Max({n} \cup S) IN m \in Nat /\ n <= m /\ S \subseteq 1 .. m
    BY <2>1, <2>2, Highest
  <2> QED  BY <2>3, <2>4 DEF S, n
<1>4. DOMAIN db'.keys \subseteq Ids
  BY <1>2 DEF Tables
<1>6. WellFormed(db, tokens)'
  <2>1. \A e \in DOMAIN db'.endpoints : db'.endpoints[e] \in [active : BOOLEAN]
    BY <1>1 DEF Committed, EndpointRow
  <2>2. ASSUME NEW k \in DOMAIN db'.keys
        PROVE  /\ db'.keys[k] \in [endpoint : DOMAIN db'.endpoints, active : BOOLEAN,
                                   groups : Seq(Groups \cup {Default})]
               /\ IsInjective(db'.keys[k].groups)
    BY <1>1 DEF Committed, KeyRow, Lists
  <2>3. ASSUME NEW r \in DOMAIN db'.rules
        PROVE  db'.rules[r] \in [group : Groups \cup {Default}, active : BOOLEAN,
                        pattern : SUBSET Models,
                        config : [targets : SUBSET (Nat \ {0}),
                                  exposures : SUBSET Formats]]
    <3> DEFINE row == db'.rules[r]
    <3>1. RuleRow(row) /\ \A k \in row.config.targets : k \in Ids
      BY <1>1, <1>4 DEF Committed
    <3> HIDE DEF row
    <3>2. row.config \in [targets : SUBSET (Nat \ {0}), exposures : SUBSET Formats]
      <4> DEFINE config == row.config
      <4>1. config \in [targets : SUBSET Int, exposures : SUBSET Formats]
        BY <3>1 DEF RuleRow
      <4>2. config.targets \subseteq Nat \ {0}
        BY <3>1 DEF Ids
      <4> HIDE DEF config
      <4> QED  BY <4>1, <4>2 DEF config
    <3>3. row \in [group : Groups \cup {Default}, active : BOOLEAN,
                        pattern : SUBSET Models,
                        config : [targets : SUBSET (Nat \ {0}),
                                  exposures : SUBSET Formats]]
      BY <3>1, <3>2 DEF RuleRow
    <3> QED  BY <3>3 DEF row
  <2>4. ASSUME NEW i \in DOMAIN db'.access
        PROVE  db'.access[i] \in [groups : Seq(Groups \cup {Default}), active : BOOLEAN,
                                  token : 1 .. tokens']
    <3>1. AccessKeyRow(db'.access[i])
      BY <1>1 DEF Committed
    <3>2. db'.access[i].token \in 1 .. tokens'
      BY DEF TokenInv, Issued, AccessTable
    <3> QED  BY <3>1, <3>2 DEF AccessKeyRow, Lists
  <2>5. ASSUME NEW i \in DOMAIN db'.maps
        PROVE  db'.maps[i] \in [endpoint : DOMAIN db'.endpoints, alias : Models,
                                real : Models, managed : BOOLEAN]
    BY <1>1 DEF Committed, MapRow
  <2> QED  BY <2>1, <2>2, <2>3, <2>4, <2>5 DEF WellFormed
<1>7. orphans' \subseteq Ids
  <2>1. orphans \subseteq Ids /\ DOMAIN db.keys \subseteq Ids
    BY Rows DEF TypeInv, Tables
  <2>2. jobs[a] # Idle /\ Strays(jobs[a].call) \subseteq Ids
    BY DEF Commit, StrayInv
  <2>3. \A k \in orphans' : k \in orphans \/ k \in DOMAIN db.keys \/ k \in Strays(jobs[a].call)
    BY DEF Commit, Dropped
  <2> QED  BY <2>1, <2>2, <2>3
<1>8. ASSUME NEW b \in Admins, jobs'[b] # Idle PROVE Writes(jobs'[b])
  <2>1. /\ jobs[b] # Idle /\ jobs'[b].op = jobs[b].op
        /\ jobs'[b].changes = jobs[b].changes
    BY <1>8, OtherSessions
  <2>2. Writes(jobs[b])
    BY <2>1 DEF TypeInv
  <2> QED  BY <2>1, <2>2 DEF Writes
<1>9. raced' \in BOOLEAN
  BY DEF Commit, TypeInv
<1>10. calls' \in 0 .. MaxCalls /\ Cardinality({b \in Admins : jobs'[b] # Idle}) <= calls'
  <2>1. calls' = calls /\ calls \in 0 .. MaxCalls /\ MaxCalls \in Nat
        /\ Cardinality({b \in Admins : jobs[b] # Idle}) <= calls
    BY CatalogAssumption DEF Commit, TypeInv
  <2> DEFINE m == Cardinality({b \in Admins : jobs'[b] # Idle})
             n == Cardinality({b \in Admins : jobs[b] # Idle})
  <2>2. m + 1 <= n /\ m \in Nat
    BY FewerOpen
  <2>3. n \in Nat
    BY CatalogAssumption, FS_Subset, FS_CardinalityType
  <2> HIDE DEF m, n
  <2>4. m <= calls'
    BY <2>1, <2>2, <2>3 DEF n
  <2> QED  BY <2>1, <2>4 DEF m
<1>11. \A t \in Tables : IsFiniteSet(DOMAIN db'[t])
  BY <1>2
<1> QED  BY <1>3, <1>6, <1>7, <1>8, <1>9, <1>10, <1>11 DEF TypeInv

\* Rollback keeps the types.
LEMMA RollbackTypes ==
  ASSUME TokenInv, TypeInv, NEW a \in Admins, Rollback(a)
  PROVE  TypeInv'
<1>1. UNCHANGED <<db, last, tokens, raced, orphans, revoked>> /\ calls' = calls - 1
  BY DEF Rollback
<1>2. ASSUME NEW b \in Admins, jobs'[b] # Idle PROVE Writes(jobs'[b])
  <2>1. jobs[b] # Idle /\ jobs'[b] = jobs[b]
    BY <1>2, OtherSessions
  <2> QED  BY <1>1, <2>1 DEF TypeInv
<1>3. calls' \in 0 .. MaxCalls /\ Cardinality({b \in Admins : jobs'[b] # Idle}) <= calls'
  <2> DEFINE m == Cardinality({b \in Admins : jobs'[b] # Idle})
             n == Cardinality({b \in Admins : jobs[b] # Idle})
  <2>1. calls \in 0 .. MaxCalls /\ MaxCalls \in Nat /\ n <= calls
    BY CatalogAssumption DEF TypeInv
  <2>2. m + 1 <= n /\ m \in Nat
    BY FewerOpen
  <2>3. n \in Nat
    BY CatalogAssumption, FS_Subset, FS_CardinalityType
  <2> HIDE DEF m, n
  <2>4. m <= calls' /\ calls' \in 0 .. MaxCalls
    BY <1>1, <2>1, <2>2, <2>3
  <2> QED  BY <2>4 DEF m
<1> QED  BY <1>1, <1>2, <1>3 DEF TypeInv

-----------------------------------------------------------------------------
(* What a session that nobody overtook leaves.                             *)

\* Where the rows of a table end up that nobody wrote in the meantime.
Lands(table, c, res, lastId, merged) ==
    /\ \A n \in DOMAIN Applied(table, c) :
        /\ n < 0 => /\ n \in DOMAIN c.new /\ lastId - n \in DOMAIN merged
                    /\ merged[lastId - n] = res.new[n]
        /\ ~(n < 0) => /\ n \in DOMAIN table /\ n \in DOMAIN merged
                       /\ n \in DOMAIN c.new => merged[n] = res.new[n]
                       /\ n \notin DOMAIN c.new => merged[n] = table[n]
    /\ \A i \in DOMAIN merged : \E n \in DOMAIN Applied(table, c) :
            i = IF n < 0 THEN lastId - n ELSE n

\* Rows that nobody wrote in the meantime take what the session writes.
LEMMA TableLands ==
  ASSUME NEW table, NEW c, NEW res, NEW lastId \in Nat, NEW merged,
         DOMAIN table \subseteq 1 .. lastId,
         res.old = c.old, DOMAIN res.new = DOMAIN c.new,
         DOMAIN c.old \subseteq Ids, DOMAIN c.new \subseteq Int,
         \A i \in DOMAIN c.new : i \in DOMAIN c.old \/ i < 0,
         Current(table, c), MergedFrom(table, res, lastId, merged),
         \A i \in DOMAIN table \cap DOMAIN c.new :
            MergeRow(table[i], table[i], res.new[i]) = res.new[i]
  PROVE  Lands(table, c, res, lastId, merged)
<1> DEFINE applied == Applied(table, c)
<1>1. /\ DOMAIN applied = (DOMAIN table \ Removed(c)) \cup DOMAIN c.new
      /\ Removed(res) = Removed(c)
  BY DEF Applied, Removed
<1> HIDE DEF applied
<1>2. \A i \in DOMAIN table : i \in Int /\ ~(i < 0) /\ i \in Nat
  OBVIOUS
<1>3. ASSUME NEW n \in DOMAIN applied, n < 0
      PROVE  /\ n \in DOMAIN c.new /\ lastId - n \in DOMAIN merged
             /\ merged[lastId - n] = res.new[n]
  <2>1. n \in DOMAIN c.new
    BY <1>1, <1>2, <1>3
  <2> QED  BY <1>3, <2>1 DEF MergedFrom
<1>4. ASSUME NEW n \in DOMAIN applied, ~(n < 0)
      PROVE  /\ n \in DOMAIN table /\ n \in DOMAIN merged
             /\ n \in DOMAIN c.new => merged[n] = res.new[n]
             /\ n \notin DOMAIN c.new => merged[n] = table[n]
  <2>1. n \in DOMAIN c.new => n \in DOMAIN c.old /\ n \in DOMAIN table /\ table[n] = c.old[n]
    BY <1>4 DEF Current
  <2>2. n \in DOMAIN table /\ n \notin Removed(c)
    BY <1>1, <2>1 DEF Removed
  <2> QED  BY <1>1, <2>1, <2>2 DEF MergedFrom
<1>5. ASSUME NEW i \in DOMAIN merged
      PROVE  \E n \in DOMAIN applied : i = IF n < 0 THEN lastId - n ELSE n
  <2>1. CASE i \in DOMAIN table /\ i \notin Removed(c)
    BY <1>1, <1>2, <2>1
  <2>2. CASE \E n \in DOMAIN res.new : n \in Int /\ n < 0 /\ i = lastId - n
    BY <1>1, <2>2
  <2> QED  BY <1>1, <2>1, <2>2 DEF MergedFrom
<1> QED  BY <1>3, <1>4, <1>5 DEF Lands, applied

\* A row that nobody wrote in the meantime is replaced as a whole.
LEMMA MergeOfSame ==
  ASSUME NEW row, NEW new
  PROVE  /\ KeyRow(row) /\ KeyRow(new) => MergeRow(row, row, new) = new
         /\ RuleRow(row) /\ RuleRow(new) => MergeRow(row, row, new) = new
<1>1. ASSUME KeyRow(row), KeyRow(new) PROVE MergeRow(row, row, new) = new
  <2>1. DOMAIN row = DOMAIN new /\ new = [c \in DOMAIN new |-> new[c]]
    BY <1>1 DEF KeyRow
  <2>2. MergeRow(row, row, new) = [c \in DOMAIN new |-> new[c]]
    BY <2>1 DEF MergeRow
  <2> QED  BY <2>1, <2>2
<1>2. ASSUME RuleRow(row), RuleRow(new) PROVE MergeRow(row, row, new) = new
  <2>1. DOMAIN row = DOMAIN new /\ new = [c \in DOMAIN new |-> new[c]]
    BY <1>2 DEF RuleRow
  <2>2. MergeRow(row, row, new) = [c \in DOMAIN new |-> new[c]]
    BY <2>1 DEF MergeRow
  <2> QED  BY <2>1, <2>2
<1> QED  BY <1>1, <1>2

\* The keys and the rules after a commit are those meant, with the new ids.
KeysLanded(meant) ==
    /\ \A k \in DOMAIN meant.keys :
        /\ Renamed("keys", k) \in DOMAIN db'.keys
        /\ db'.keys[Renamed("keys", k)].groups = meant.keys[k].groups
    /\ \A id \in DOMAIN db'.keys : \E k \in DOMAIN meant.keys : id = Renamed("keys", k)

RulesLanded(meant) ==
    /\ \A r \in DOMAIN meant.rules :
        /\ Renamed("rules", r) \in DOMAIN db'.rules
        /\ SameButTargets(meant.rules[r], db'.rules[Renamed("rules", r)])
        /\ \A k : k \in db'.rules[Renamed("rules", r)].config.targets
                    <=> \E n \in meant.rules[r].config.targets : k = Renamed("keys", n)
    /\ \A id \in DOMAIN db'.rules : \E r \in DOMAIN meant.rules : id = Renamed("rules", r)

\* Ids of keys that rows may hold before the commit.
KnownKeys(meant) ==
    /\ \A k \in DOMAIN meant.keys : k \in DOMAIN db.keys \/ k = New
    /\ \A r \in DOMAIN meant.rules : \A k \in meant.rules[r].config.targets :
            k \in Ids \/ k = New

\* What is sound stays so when the new key gets its id.
LEMMA LandedSound ==
  ASSUME TokenInv, TypeInv, NEW o, o \subseteq Ids,
         NEW meant, KeysLanded(meant), RulesLanded(meant), KnownKeys(meant),
         Sound(meant, o), \A r \in DOMAIN db'.rules : RuleRow(db'.rules[r])
  PROVE  Membership(db', o) /\ Disjoint(db') /\ (Proper(db) => Proper(db'))
<1> DEFINE Id(k) == Renamed("keys", k)
<1>1. /\ LastId("keys") \in Nat /\ DOMAIN db.keys \subseteq 1 .. LastId("keys")
      /\ o \subseteq Ids /\ DOMAIN db.keys \subseteq Ids
  BY LastIdIs, Rows DEF TypeInv, Tables
<1>2. /\ \A k \in Ids : Id(k) = k
      /\ Id(New) = LastId("keys") + 1
      /\ \A k \in DOMAIN db.keys : Id(k) = k /\ k # Id(New)
      /\ New \notin o
  BY <1>1 DEF Renamed, New, Ids
<1>3. Membership(meant, o) /\ Disjoint(meant) /\ (Proper(db) => Proper(meant))
  BY DEF Sound
<1> HIDE DEF Id
<1>4. /\ \A k \in DOMAIN meant.keys :
            Id(k) \in DOMAIN db'.keys /\ db'.keys[Id(k)].groups = meant.keys[k].groups
      /\ \A id \in DOMAIN db'.keys : \E k \in DOMAIN meant.keys : id = Id(k)
      /\ \A r \in DOMAIN meant.rules :
            /\ Renamed("rules", r) \in DOMAIN db'.rules
            /\ SameButTargets(meant.rules[r], db'.rules[Renamed("rules", r)])
            /\ \A k : k \in db'.rules[Renamed("rules", r)].config.targets
                        <=> \E n \in meant.rules[r].config.targets : k = Id(n)
      /\ \A id \in DOMAIN db'.rules : \E r \in DOMAIN meant.rules : id = Renamed("rules", r)
  BY DEF KeysLanded, RulesLanded, Id
<1>5. \A r \in DOMAIN meant.rules : meant.rules[r].group # Default =>
            \A n \in meant.rules[r].config.targets : n \in DOMAIN meant.keys \/ n \in o
  BY <1>3 DEF Membership, Targeted
<1>6. Targeted(db') \subseteq DOMAIN db'.keys \cup o
  <2> SUFFICES ASSUME NEW id \in DOMAIN db'.rules, db'.rules[id].group # Default,
                      NEW k \in db'.rules[id].config.targets
               PROVE  k \in DOMAIN db'.keys \/ k \in o
    BY DEF Targeted
  <2>1. PICK r \in DOMAIN meant.rules : id = Renamed("rules", r)
    BY <1>4
  <2>2. meant.rules[r].group # Default
    BY <1>4, <2>1 DEF SameButTargets
  <2>3. PICK n \in meant.rules[r].config.targets : k = Id(n)
    BY <1>4, <2>1
  <2>4. n \in DOMAIN meant.keys \/ n \in o
    BY <1>5, <2>2
  <2> QED  BY <1>1, <1>2, <1>4, <2>3, <2>4
<1>7. ASSUME NEW k \in DOMAIN db'.keys \ o, NEW g \in Groups
      PROVE  InRuleGroup(db'.keys[k], g) <=>
                \E id \in DOMAIN db'.rules :
                    db'.rules[id].group = g /\ k \in db'.rules[id].config.targets
  <2>1. PICK n \in DOMAIN meant.keys : k = Id(n)
    BY <1>4
  <2>2. n \in DOMAIN db.keys \/ n = New
    BY DEF KnownKeys
  <2>3. n \notin o
    BY <1>1, <1>2, <2>1, <2>2
  <2>4. InRuleGroup(db'.keys[k], g) <=> InRuleGroup(meant.keys[n], g)
    BY <1>4, <2>1 DEF InRuleGroup, RuleGroups
  <2>5. InRuleGroup(meant.keys[n], g) <=>
            \E r \in DOMAIN meant.rules :
                meant.rules[r].group = g /\ n \in meant.rules[r].config.targets
    BY <1>3, <2>3 DEF Membership
  <2>6. ASSUME NEW r \in DOMAIN meant.rules, meant.rules[r].group = g,
               n \in meant.rules[r].config.targets
        PROVE  \E id \in DOMAIN db'.rules :
                    db'.rules[id].group = g /\ k \in db'.rules[id].config.targets
    BY <1>4, <2>1, <2>6 DEF SameButTargets
  <2>7. ASSUME NEW id \in DOMAIN db'.rules, db'.rules[id].group = g,
               k \in db'.rules[id].config.targets
        PROVE  \E r \in DOMAIN meant.rules :
                    meant.rules[r].group = g /\ n \in meant.rules[r].config.targets
    <3>1. PICK r \in DOMAIN meant.rules : id = Renamed("rules", r)
      BY <1>4
    <3>2. meant.rules[r].group = g
      BY <1>4, <2>7, <3>1 DEF SameButTargets
    <3>3. PICK m \in meant.rules[r].config.targets : k = Id(m)
      BY <1>4, <2>7, <3>1
    <3>4. g # Default
      BY CatalogAssumption
    <3>5. m \notin o
      BY <1>1, <1>2, <3>3
    <3>6. m \in DOMAIN meant.keys /\ (m \in DOMAIN db.keys \/ m = New)
      BY <1>5, <3>2, <3>4, <3>5 DEF KnownKeys
    <3>7. m = n
      <4>1. Id(m) = Id(n)
        BY <2>1, <3>3
      <4>2. (m \in DOMAIN db.keys => Id(m) = m /\ m # Id(New))
            /\ (n \in DOMAIN db.keys => Id(n) = n /\ n # Id(New))
        BY <1>2
      <4>3. CASE m \in DOMAIN db.keys /\ n \in DOMAIN db.keys
        BY <4>1, <4>2, <4>3
      <4>4. CASE m = New \/ n = New
        BY <2>2, <3>6, <4>1, <4>2, <4>4
      <4> QED  BY <2>2, <3>6, <4>3, <4>4
    <3> QED  BY <3>2, <3>7
  <2> QED  BY <2>4, <2>5, <2>6, <2>7
<1>8. Disjoint(db')
  <2> SUFFICES ASSUME NEW i \in DOMAIN db'.rules, NEW j \in DOMAIN db'.rules, i # j,
                      db'.rules[i].group = db'.rules[j].group,
                      db'.rules[i].group # Default
               PROVE  db'.rules[i].config.exposures \cap db'.rules[j].config.exposures = {}
    BY DEF Disjoint
  <2>1. PICK r \in DOMAIN meant.rules : i = Renamed("rules", r)
    BY <1>4
  <2>2. PICK s \in DOMAIN meant.rules : j = Renamed("rules", s)
    BY <1>4
  <2>3. /\ db'.rules[i].group = meant.rules[r].group
        /\ db'.rules[j].group = meant.rules[s].group
        /\ db'.rules[i].config.exposures = meant.rules[r].config.exposures
        /\ db'.rules[j].config.exposures = meant.rules[s].config.exposures
    BY <1>4, <2>1, <2>2 DEF SameButTargets
  <2>4. r # s
    BY <2>1, <2>2
  <2> QED  BY <1>3, <2>3, <2>4 DEF Disjoint
<1>9. ASSUME Proper(db) PROVE Proper(db')
  <2>1. Proper(meant)
    BY <1>3, <1>9
  <2>2. PICK r \in DOMAIN meant.rules : meant.rules[r].group = Default
    BY <2>1 DEF Proper, DefaultRules
  <2>3. DefaultRules(db') # {}
    <3> DEFINE id == Renamed("rules", r)
    <3>1. id \in DOMAIN db'.rules /\ db'.rules[id].group = Default
      BY <1>4, <2>2 DEF SameButTargets
    <3> HIDE DEF id
    <3>2. db'.rules[id] \in DefaultRules(db')
      BY <3>1 DEF DefaultRules
    <3> QED  BY <3>2
  <2>4. ASSUME NEW id \in DOMAIN db'.rules, db'.rules[id].group = Default
        PROVE  IsProperDefault(db'.rules[id])
    <3>1. PICK s \in DOMAIN meant.rules : id = Renamed("rules", s)
      BY <1>4
    <3>2. /\ SameButTargets(meant.rules[s], db'.rules[id])
          /\ \A k : k \in db'.rules[id].config.targets
                        <=> \E n \in meant.rules[s].config.targets : k = Id(n)
      BY <1>4, <3>1
    <3>3. IsProperDefault(meant.rules[s])
      <4>1. meant.rules[s].group = Default
        BY <2>4, <3>2 DEF SameButTargets
      <4> QED  BY <2>1, <4>1 DEF Proper, DefaultRules
    <3>4. meant.rules[s].config.targets = {} /\ meant.rules[s].config.exposures = Formats
          /\ meant.rules[s].active
      BY <3>3 DEF IsProperDefault, DefaultConfig
    <3> DEFINE row == db'.rules[id]
    <3>5. row.config.targets = {}
      BY <3>2, <3>4
    <3>6. RuleRow(row) /\ row.config.exposures = Formats /\ row.active
      BY <3>2, <3>4 DEF SameButTargets
    <3> HIDE DEF row
    <3>7. row.config = [targets |-> {}, exposures |-> Formats]
      BY <3>5, <3>6 DEF RuleRow
    <3> QED  BY <3>6, <3>7 DEF row, IsProperDefault, DefaultConfig
  <2> QED  BY <2>3, <2>4 DEF Proper, DefaultRules
<1> QED  BY <1>3, <1>6, <1>7, <1>8, <1>9 DEF Membership

\* A session whose rows are fresh leaves what it meant.
LEMMA FreshLands ==
  ASSUME TokenInv, TypeInv, NEW a \in Admins, Commit(a), jobs[a].op # "delete_endpoint",
         Current(db.keys, jobs[a].changes.keys), Current(db.rules, jobs[a].changes.rules)
  PROVE  LET meant == Intended(jobs[a]) IN
         KeysLanded(meant) /\ RulesLanded(meant) /\ KnownKeys(meant)
<1> DEFINE c == jobs[a].changes
           res == Resolved(c)
           meant == Intended(jobs[a])
<1>1. /\ DOMAIN c = Tables /\ (\A t \in Tables : DOMAIN c[t] = {"old", "new"})
      /\ Writes(jobs[a])
      /\ Merges(c, "endpoints", db'.endpoints)
      /\ Merges(c, "rules", db'.rules)
  BY CommitIs
<1>2. PICK keys : Merges(c, "keys", keys) /\ Cascaded(keys, db'.endpoints, db'.keys)
  BY CommitIs
<1>3. New \in DOMAIN c.keys.new => LastId("keys") + 1 \in DOMAIN db'.keys
  BY CommitRows
<1>4. meant.keys = Applied(db.keys, c.keys) /\ meant.rules = Applied(db.rules, c.rules)
  BY DEF Intended
<1>5. Current(db.keys, c.keys) /\ Current(db.rules, c.rules)
  OBVIOUS
<1> HIDE DEF c, meant
<1>6. ResolvedTo(c, res)
  <2>1. c = jobs[a].changes
    BY DEF c
  <2> QED  BY <1>1, <2>1, ResolvedRows
<1> HIDE DEF res
<1>7. \A t \in {"keys", "rules", "endpoints"} :
        /\ res[t].old = c[t].old /\ DOMAIN res[t].new = DOMAIN c[t].new
        /\ DOMAIN c[t].old \subseteq Ids /\ DOMAIN c[t].new \subseteq Int
        /\ \A i \in DOMAIN c[t].new : i \in DOMAIN c[t].old \/ i < 0
        /\ DOMAIN c[t].new \subseteq DOMAIN c[t].old \cup {New}
        /\ LastId(t) \in Nat /\ DOMAIN db[t] \subseteq 1 .. LastId(t)
        /\ DOMAIN db[t] \subseteq Ids /\ New \notin DOMAIN db[t]
  <2> SUFFICES ASSUME NEW t \in {"keys", "rules", "endpoints"}
               PROVE  /\ res[t].old = c[t].old /\ DOMAIN res[t].new = DOMAIN c[t].new
                      /\ DOMAIN c[t].old \subseteq Ids /\ DOMAIN c[t].new \subseteq Int
                      /\ \A i \in DOMAIN c[t].new : i \in DOMAIN c[t].old \/ i < 0
                      /\ DOMAIN c[t].new \subseteq DOMAIN c[t].old \cup {New}
                      /\ LastId(t) \in Nat /\ DOMAIN db[t] \subseteq 1 .. LastId(t)
                      /\ DOMAIN db[t] \subseteq Ids /\ New \notin DOMAIN db[t]
    OBVIOUS
  <2>1. t \in Tables /\ t # "maps"
    BY DEF Tables
  <2>2. res[t].old = c[t].old /\ DOMAIN res[t].new = DOMAIN c[t].new
    BY <1>6, <2>1 DEF ResolvedTo
  <2>3. /\ DOMAIN c[t].old \subseteq Ids /\ DOMAIN c[t].new \subseteq Int
        /\ \A i \in DOMAIN c[t].new : i \in DOMAIN c[t].old \/ i < 0
        /\ DOMAIN c[t].new \subseteq DOMAIN c[t].old \cup {New}
    BY <1>1, <2>1 DEF Writes, c
  <2>4. LastId(t) \in Nat /\ DOMAIN db[t] \subseteq 1 .. LastId(t)
    BY <2>1, LastIdIs
  <2>5. DOMAIN db[t] \subseteq Ids /\ New \notin DOMAIN db[t]
    BY <2>1, Rows
  <2> QED  BY <2>2, <2>3, <2>4, <2>5
<1>8. /\ \A i \in DOMAIN db.keys : KeyRow(db.keys[i]) /\ db.keys[i].endpoint \in DOMAIN db.endpoints
      /\ \A r \in DOMAIN db.rules :
            RuleRow(db.rules[r]) /\ \A k \in db.rules[r].config.targets : k \in Ids
      /\ last.keys \in Nat
  BY Rows DEF KeyTable, RuleTable
<1>9. /\ \A i \in DOMAIN c.keys.new :
            /\ KeyRow(res.keys.new[i]) /\ res.keys.new[i].groups = c.keys.new[i].groups
            /\ res.keys.new[i].endpoint = Renamed("endpoints", c.keys.new[i].endpoint)
      /\ \A r \in DOMAIN c.rules.new :
            /\ RuleRow(res.rules.new[r]) /\ SameButTargets(c.rules.new[r], res.rules.new[r])
            /\ \A k : k \in res.rules.new[r].config.targets
                        <=> \E n \in c.rules.new[r].config.targets : k = Renamed("keys", n)
  BY <1>6 DEF ResolvedTo
<1>10. /\ \A k \in Updated(c.keys) : c.keys.new[k].endpoint = c.keys.old[k].endpoint
       /\ \A r \in DOMAIN c.rules.new : \A k \in c.rules.new[r].config.targets :
            k \in Ids \/ k = New
       /\ Removed(c.endpoints) = {}
  BY <1>1 DEF Writes, c
<1>11. Lands(db.keys, c.keys, res.keys, LastId("keys"), keys)
  <2> DEFINE table == db.keys
             change == c.keys
             filled == res.keys
             lastId == LastId("keys")
  <2>1. \A i \in DOMAIN table \cap DOMAIN change.new :
            MergeRow(table[i], table[i], filled.new[i]) = filled.new[i]
    BY <1>8, <1>9, MergeOfSame
  <2>2. MergedFrom(table, filled, lastId, keys)
    BY <1>2 DEF Merges, res
  <2>3. /\ filled.old = change.old /\ DOMAIN filled.new = DOMAIN change.new
        /\ DOMAIN change.old \subseteq Ids /\ DOMAIN change.new \subseteq Int
        /\ \A i \in DOMAIN change.new : i \in DOMAIN change.old \/ i < 0
        /\ lastId \in Nat /\ DOMAIN table \subseteq 1 .. lastId /\ Current(table, change)
    BY <1>5, <1>7
  <2> HIDE DEF table, change, filled, lastId
  <2>4. Lands(table, change, filled, lastId, keys)
    BY <2>1, <2>2, <2>3, TableLands
  <2> QED  BY <2>4 DEF table, change, filled, lastId
<1>12. Lands(db.rules, c.rules, res.rules, LastId("rules"), db'.rules)
  <2> DEFINE table == db.rules
             change == c.rules
             filled == res.rules
             lastId == LastId("rules")
             merged == db'.rules
  <2>1. \A i \in DOMAIN table \cap DOMAIN change.new :
            MergeRow(table[i], table[i], filled.new[i]) = filled.new[i]
    BY <1>8, <1>9, MergeOfSame
  <2>2. MergedFrom(table, filled, lastId, merged)
    BY <1>1 DEF Merges, res
  <2>3. /\ filled.old = change.old /\ DOMAIN filled.new = DOMAIN change.new
        /\ DOMAIN change.old \subseteq Ids /\ DOMAIN change.new \subseteq Int
        /\ \A i \in DOMAIN change.new : i \in DOMAIN change.old \/ i < 0
        /\ lastId \in Nat /\ DOMAIN table \subseteq 1 .. lastId /\ Current(table, change)
    BY <1>5, <1>7
  <2> HIDE DEF table, change, filled, lastId, merged
  <2>4. Lands(table, change, filled, lastId, merged)
    BY <2>1, <2>2, <2>3, TableLands
  <2> QED  BY <2>4 DEF table, change, filled, lastId, merged
<1>13. \A e \in DOMAIN db.endpoints : e \in DOMAIN db'.endpoints
  <2>1. MergedFrom(db.endpoints, res.endpoints, LastId("endpoints"), db'.endpoints)
    BY <1>1 DEF Merges, res
  <2>2. Removed(res.endpoints) = {}
    BY <1>7, <1>10 DEF Removed
  <2> QED  BY <2>1, <2>2 DEF MergedFrom
<1>14. /\ DOMAIN meant.keys = (DOMAIN db.keys \ Removed(c.keys)) \cup DOMAIN c.keys.new
       /\ \A k \in DOMAIN meant.keys :
            meant.keys[k] = IF k \in DOMAIN c.keys.new THEN c.keys.new[k] ELSE db.keys[k]
       /\ DOMAIN meant.rules = (DOMAIN db.rules \ Removed(c.rules)) \cup DOMAIN c.rules.new
       /\ \A r \in DOMAIN meant.rules :
            meant.rules[r] = IF r \in DOMAIN c.rules.new THEN c.rules.new[r] ELSE db.rules[r]
  BY <1>4 DEF Applied
<1>15. /\ \A k \in DOMAIN meant.keys : k \in DOMAIN db.keys \/ k = New
       /\ \A r \in DOMAIN meant.rules : r \in DOMAIN db.rules \/ r = New
  BY <1>5, <1>7, <1>14 DEF Current
<1>16. /\ New < 0 /\ New \in Int
       /\ \A k \in DOMAIN db.keys : ~(k < 0) /\ Renamed("keys", k) = k
       /\ \A r \in DOMAIN db.rules : ~(r < 0) /\ Renamed("rules", r) = r
       /\ \A k \in Ids : Renamed("keys", k) = k
       /\ \A e \in Ids : Renamed("endpoints", e) = e
       /\ Renamed("keys", New) = LastId("keys") - New
       /\ LastId("keys") - New = LastId("keys") + 1
       /\ Renamed("rules", New) = LastId("rules") - New
  BY <1>7, <1>8 DEF Renamed, New, Ids
<1>17. KnownKeys(meant)
  BY <1>8, <1>10, <1>14, <1>15 DEF KnownKeys
<1>18. KeysLanded(meant)
  <2>1. ASSUME NEW k \in DOMAIN meant.keys
        PROVE  /\ Renamed("keys", k) \in DOMAIN keys
               /\ keys[Renamed("keys", k)].groups = meant.keys[k].groups
               /\ Renamed("keys", k) \in DOMAIN db'.keys
    <3>1. CASE k = New
      <4>1. /\ k \in DOMAIN c.keys.new /\ LastId("keys") - k \in DOMAIN keys
            /\ keys[LastId("keys") - k] = res.keys.new[k]
        BY <1>4, <1>11, <1>16, <3>1 DEF Lands
      <4> QED  BY <1>3, <1>9, <1>14, <1>16, <3>1, <4>1
    <3>2. CASE k \in DOMAIN db.keys
      <4>1. /\ ~(k < 0) /\ Renamed("keys", k) = k
        BY <1>16, <3>2
      <4>2. /\ k \in DOMAIN keys
            /\ k \in DOMAIN c.keys.new => keys[k] = res.keys.new[k]
            /\ k \notin DOMAIN c.keys.new => keys[k] = db.keys[k]
        BY <1>4, <1>11, <4>1 DEF Lands
      <4>3. keys[k].groups = meant.keys[k].groups
        BY <1>9, <1>14, <4>2
      <4>4. keys[k].endpoint = db.keys[k].endpoint
        <5>1. CASE k \in DOMAIN c.keys.new
          <6>1. k \in DOMAIN c.keys.old
            BY <1>7, <3>2, <5>1
          <6>2. c.keys.new[k].endpoint = c.keys.old[k].endpoint /\ c.keys.old[k] = db.keys[k]
            BY <1>5, <1>10, <5>1, <6>1 DEF Updated, Current
          <6>3. db.keys[k].endpoint \in Ids
            BY <1>7, <1>8, <3>2
          <6> QED  BY <1>9, <1>16, <4>2, <5>1, <6>2, <6>3
        <5>2. CASE k \notin DOMAIN c.keys.new
          BY <4>2, <5>2
        <5> QED  BY <5>1, <5>2
      <4>5. k \in DOMAIN db'.keys
        BY <1>2, <1>8, <1>13, <3>2, <4>2, <4>4 DEF Cascaded
      <4> QED  BY <4>1, <4>2, <4>3, <4>5
    <3> QED  BY <1>15, <3>1, <3>2
  <2>2. ASSUME NEW id \in DOMAIN db'.keys
        PROVE  \E k \in DOMAIN meant.keys : id = Renamed("keys", k)
    <3>1. id \in DOMAIN keys
      BY <1>2 DEF Cascaded
    <3>2. PICK k \in DOMAIN meant.keys : id = IF k < 0 THEN LastId("keys") - k ELSE k
      BY <1>4, <1>11, <3>1 DEF Lands
    <3> QED  BY <3>2 DEF Renamed
  <2>3. \A id \in DOMAIN db'.keys : db'.keys[id] = keys[id]
    BY <1>2 DEF Cascaded
  <2> QED  BY <2>1, <2>2, <2>3 DEF KeysLanded
<1>19. RulesLanded(meant)
  <2>1. ASSUME NEW r \in DOMAIN meant.rules
        PROVE  /\ Renamed("rules", r) \in DOMAIN db'.rules
               /\ SameButTargets(meant.rules[r], db'.rules[Renamed("rules", r)])
               /\ \A k : k \in db'.rules[Renamed("rules", r)].config.targets
                           <=> \E n \in meant.rules[r].config.targets : k = Renamed("keys", n)
    <3>1. /\ Renamed("rules", r) \in DOMAIN db'.rules
          /\ r \in DOMAIN c.rules.new => db'.rules[Renamed("rules", r)] = res.rules.new[r]
          /\ r \notin DOMAIN c.rules.new => r \in DOMAIN db.rules
                                            /\ db'.rules[Renamed("rules", r)] = db.rules[r]
      <4>1. CASE r = New
        BY <1>4, <1>12, <1>16, <4>1 DEF Lands
      <4>2. CASE r \in DOMAIN db.rules
        BY <1>4, <1>12, <1>16, <4>2 DEF Lands
      <4> QED  BY <1>15, <4>1, <4>2
    <3>2. CASE r \in DOMAIN c.rules.new
      BY <1>9, <1>14, <3>1, <3>2
    <3>3. CASE r \notin DOMAIN c.rules.new
      <4>1. /\ meant.rules[r] = db.rules[r] /\ r \in DOMAIN db.rules
            /\ db'.rules[Renamed("rules", r)] = db.rules[r]
        BY <1>14, <3>1, <3>3
      <4>2. \A n \in db.rules[r].config.targets : Renamed("keys", n) = n
        BY <1>8, <1>16, <4>1
      <4> QED  BY <3>1, <4>1, <4>2 DEF SameButTargets
    <3> QED  BY <3>2, <3>3
  <2>2. ASSUME NEW id \in DOMAIN db'.rules
        PROVE  \E r \in DOMAIN meant.rules : id = Renamed("rules", r)
    <3>1. PICK r \in DOMAIN meant.rules : id = IF r < 0 THEN LastId("rules") - r ELSE r
      BY <1>4, <1>12 DEF Lands
    <3> QED  BY <3>1 DEF Renamed
  <2> QED  BY <2>1, <2>2 DEF RulesLanded
<1> QED  BY <1>17, <1>18, <1>19 DEF meant

-----------------------------------------------------------------------------
(* The agreement after a session ends.                                     *)

\* Deleting an endpoint changes no rule and takes keys away at most.
LEMMA DeletionLeaves ==
  ASSUME TokenInv, TypeInv, NEW a \in Admins, Commit(a), jobs[a].op = "delete_endpoint"
  PROVE  /\ DOMAIN db'.rules = DOMAIN db.rules
         /\ \A r \in DOMAIN db.rules : db'.rules[r] = db.rules[r]
         /\ DOMAIN db'.keys \subseteq DOMAIN db.keys
         /\ \A k \in DOMAIN db'.keys : db'.keys[k] = db.keys[k]
<1> DEFINE c == jobs[a].changes
           res == Resolved(c)
<1>1. /\ DOMAIN c = Tables /\ (\A t \in Tables : DOMAIN c[t] = {"old", "new"})
      /\ Writes(jobs[a]) /\ Merges(c, "rules", db'.rules)
  BY CommitIs
<1>2. PICK keys : Merges(c, "keys", keys) /\ Cascaded(keys, db'.endpoints, db'.keys)
  BY CommitIs
<1>3. DOMAIN c.rules.old = {} /\ DOMAIN c.rules.new = {} /\ DOMAIN c.keys.new = {}
  BY <1>1 DEF Writes
<1> HIDE DEF c
<1>4. ResolvedTo(c, res)
  <2>1. c = jobs[a].changes
    BY DEF c
  <2> QED  BY <1>1, <2>1, ResolvedRows
<1> HIDE DEF res
<1>5. DOMAIN res.rules.new = {} /\ Removed(res.rules) = {} /\ DOMAIN res.keys.new = {}
  BY <1>3, <1>4 DEF ResolvedTo, Tables, Removed
<1>6. /\ MergedFrom(db.rules, res.rules, LastId("rules"), db'.rules)
      /\ MergedFrom(db.keys, res.keys, LastId("keys"), keys)
  BY <1>1, <1>2 DEF Merges, res
<1>7. DOMAIN db'.rules = DOMAIN db.rules /\ \A r \in DOMAIN db.rules : db'.rules[r] = db.rules[r]
  <2>1. \A r \in DOMAIN db'.rules : r \in DOMAIN db.rules
    BY <1>5, <1>6 DEF MergedFrom
  <2>2. \A r \in DOMAIN db.rules : r \in DOMAIN db'.rules /\ db'.rules[r] = db.rules[r]
    BY <1>5, <1>6 DEF MergedFrom
  <2> QED  BY <2>1, <2>2
<1>8. \A k \in DOMAIN keys : k \in DOMAIN db.keys /\ keys[k] = db.keys[k]
  <2>1. \A k \in DOMAIN keys : k \in DOMAIN db.keys /\ k \notin Removed(res.keys)
    BY <1>5, <1>6 DEF MergedFrom
  <2>2. \A k \in DOMAIN db.keys : k \notin Removed(res.keys) => keys[k] = db.keys[k]
    BY <1>5, <1>6 DEF MergedFrom
  <2> QED  BY <2>1, <2>2
<1> QED  BY <1>2, <1>7, <1>8 DEF Cascaded

\* Nobody overtook a session that writes keys or rules, or it writes none.
LEMMA FreshOrIdle ==
  ASSUME TokenInv, TypeInv, AgreeInv, NEW a \in Admins, Commit(a), ~raced',
         jobs[a].op # "delete_endpoint"
  PROVE  /\ Current(db.keys, jobs[a].changes.keys)
         /\ Current(db.rules, jobs[a].changes.rules)
         /\ Sound(Intended(jobs[a]), orphans \cup Strays(jobs[a].call))
<1> DEFINE c == jobs[a].changes
<1>1. jobs[a] # Idle /\ ~raced
      /\ (Written(c) \cap {"keys", "rules"} = {} \/ jobs[a].stale \cap {"keys", "rules"} = {})
  BY DEF Commit, TypeInv
<1>2. CASE jobs[a].stale \cap {"keys", "rules"} = {}
  BY <1>1, <1>2 DEF AgreeInv
<1>3. CASE Written(c) \cap {"keys", "rules"} = {}
  <2>1. DOMAIN c = Tables
    BY <1>1 DEF TokenInv, Sessions, Session
  <2> DEFINE meant == Intended(jobs[a])
  <2>2. meant.keys = Applied(db.keys, c.keys) /\ meant.rules = Applied(db.rules, c.rules)
    BY DEF Intended
  <2> HIDE DEF c, meant
  <2>3. /\ DOMAIN c.keys.old = {} /\ DOMAIN c.keys.new = {}
        /\ DOMAIN c.rules.old = {} /\ DOMAIN c.rules.new = {}
    <3>1. "keys" \in DOMAIN c /\ "rules" \in DOMAIN c
      BY <2>1 DEF Tables
    <3> QED  BY <1>3, <3>1 DEF Written
  <2>4. Current(db.keys, c.keys) /\ Current(db.rules, c.rules)
    BY <2>3 DEF Current
  <2>5. SameRows(db, meant)
    BY <2>2, <2>3 DEF SameRows, Applied, Removed
  <2>6. Sound(db, orphans)
    BY <1>1 DEF AgreeInv, Sound
  <2>7. Sound(meant, orphans \cup Strays(jobs[a].call))
    <3>1. Sound(meant, orphans)
      BY <2>5, <2>6, SoundOfSame
    <3> QED  BY <3>1, ExcuseMore
  <2> QED  BY <2>4, <2>7 DEF c, meant
<1> QED  BY <1>1, <1>2, <1>3

\* Commit keeps the agreement, and a proper default rule unless it races.
LEMMA CommitSound ==
  ASSUME TokenInv, TypeInv, StrayInv, AgreeInv, NEW a \in Admins, Commit(a)
  PROVE  AgreeInv' /\ (Proper(db) => Proper(db') \/ raced')
<1> SUFFICES ASSUME ~raced' PROVE AgreeInv' /\ (Proper(db) => Proper(db'))
  BY DEF AgreeInv
<1>1. ~raced
  BY DEF Commit, TypeInv
<1>2. orphans' = IF jobs[a].op = "delete_endpoint"
                 THEN orphans \cup (Dropped("keys") \cap Targeted(db'))
                 ELSE orphans \cup Strays(jobs[a].call)
  BY DEF Commit
<1>3. Membership(db', orphans') /\ Disjoint(db') /\ (Proper(db) => Proper(db'))
  <2>1. CASE jobs[a].op # "delete_endpoint"
    <3> DEFINE meant == Intended(jobs[a])
               o == orphans \cup Strays(jobs[a].call)
    <3>0. o \subseteq Ids
      BY DEF Commit, StrayInv, TypeInv
    <3>1. Sound(meant, o)
      BY <2>1, FreshOrIdle
    <3>2. KeysLanded(meant) /\ RulesLanded(meant) /\ KnownKeys(meant)
      BY <2>1, FreshOrIdle, FreshLands
    <3>3. \A r \in DOMAIN db'.rules : RuleRow(db'.rules[r])
      BY CommitRows DEF Committed
    <3> HIDE DEF meant, o
    <3>4. Membership(db', o) /\ Disjoint(db') /\ (Proper(db) => Proper(db'))
      BY <3>0, <3>1, <3>2, <3>3, LandedSound
    <3> QED  BY <1>2, <2>1, <3>4 DEF o
  <2>2. CASE jobs[a].op = "delete_endpoint"
    <3>1. /\ DOMAIN db'.rules = DOMAIN db.rules
          /\ \A r \in DOMAIN db.rules : db'.rules[r] = db.rules[r]
          /\ DOMAIN db'.keys \subseteq DOMAIN db.keys
          /\ \A k \in DOMAIN db'.keys : db'.keys[k] = db.keys[k]
      BY <2>2, DeletionLeaves
    <3>2. Membership(db, orphans) /\ Disjoint(db)
      BY <1>1 DEF AgreeInv
    <3>3. Targeted(db') = Targeted(db)
      BY <3>1 DEF Targeted
    <3>4. \A k \in Targeted(db') : k \in DOMAIN db'.keys \/ k \in orphans'
      <4>1. \A k \in Targeted(db') : k \in DOMAIN db.keys \/ k \in orphans
        BY <3>2, <3>3 DEF Membership
      <4> QED  BY <1>2, <2>2, <4>1 DEF Dropped
    <3>5. ASSUME NEW k \in DOMAIN db'.keys \ orphans', NEW g \in Groups
          PROVE  InRuleGroup(db'.keys[k], g) <=>
                    \E r \in DOMAIN db'.rules :
                        db'.rules[r].group = g /\ k \in db'.rules[r].config.targets
      <4>1. k \in DOMAIN db.keys \ orphans /\ db'.keys[k] = db.keys[k]
        BY <1>2, <2>2, <3>1
      <4>2. InRuleGroup(db.keys[k], g) <=>
                \E r \in DOMAIN db.rules :
                    db.rules[r].group = g /\ k \in db.rules[r].config.targets
        BY <3>2, <4>1 DEF Membership
      <4> QED  BY <3>1, <4>1, <4>2
    <3>6. Disjoint(db')
      BY <3>1, <3>2 DEF Disjoint
    <3>7. Proper(db) => Proper(db')
      BY <3>1 DEF Proper, DefaultRules
    <3> QED  BY <3>4, <3>5, <3>6, <3>7 DEF Membership
  <2> QED  BY <2>1, <2>2
<1>4. ASSUME NEW b \in Admins, jobs'[b] # Idle, jobs'[b].op # "delete_endpoint",
             jobs'[b].stale \cap {"keys", "rules"} = {}
      PROVE  /\ Current(db'.keys, jobs'[b].changes.keys)
             /\ Current(db'.rules, jobs'[b].changes.rules)
             /\ Sound(Intended(jobs[b]), orphans \cup Strays(jobs[b].call))'
  <2>1. /\ jobs[b] # Idle /\ jobs'[b].op = jobs[b].op /\ jobs'[b].changes = jobs[b].changes
        /\ jobs'[b].call = jobs[b].call
        /\ jobs'[b].stale = jobs[b].stale \cup {t \in Tables : db[t] # db'[t]}
    BY <1>4, OtherSessions
  <2>2. db'.keys = db.keys /\ db'.rules = db.rules
        /\ jobs[b].stale \cap {"keys", "rules"} = {}
    BY <1>4, <2>1 DEF Tables
  <2>3. /\ Current(db.keys, jobs[b].changes.keys)
        /\ Current(db.rules, jobs[b].changes.rules)
        /\ Sound(Intended(jobs[b]), orphans \cup Strays(jobs[b].call))
    BY <1>1, <1>4, <2>1, <2>2 DEF AgreeInv
  <2>4. orphans \subseteq orphans'
    BY <1>2
  <2>5. Intended(jobs[b])' = Intended(jobs[b])
    BY <2>1, <2>2 DEF Intended
  <2>6. Proper(db)' <=> Proper(db)
    BY <2>2 DEF Proper, DefaultRules
  <2> DEFINE meant == Intended(jobs[b])
             o == orphans \cup Strays(jobs[b].call)
  <2>7. meant' = meant /\ Sound(meant, o) /\ o \subseteq o'
    <3>1. Strays(jobs[b].call)' = Strays(jobs[b].call)
      BY <2>1 DEF Strays
    <3> QED  BY <2>3, <2>4, <2>5, <3>1
  <2> HIDE DEF meant, o
  <2>8. Membership(meant', o') /\ Disjoint(meant') /\ (Proper(db') => Proper(meant'))
    <3>1. Membership(meant, o')
      BY <2>7, ExcuseMore DEF Sound
    <3> QED  BY <2>6, <2>7, <3>1 DEF Sound
  <2>9. Sound(meant, o)'
    BY <2>8 DEF Sound
  <2> QED  BY <2>1, <2>2, <2>3, <2>9 DEF meant, o
<1> QED  BY <1>1, <1>3, <1>4 DEF AgreeInv

\* Rollback keeps the agreement.
LEMMA RollbackSound ==
  ASSUME TokenInv, TypeInv, AgreeInv, NEW a \in Admins, Rollback(a)
  PROVE  AgreeInv'
<1>1. UNCHANGED <<db, raced, orphans>>
  BY DEF Rollback
<1>2. \A b \in Admins : jobs'[b] # Idle => jobs[b] # Idle /\ jobs'[b] = jobs[b]
  BY OtherSessions
<1>3. ASSUME ~raced, NEW b \in Admins, jobs'[b] # Idle, jobs'[b].op # "delete_endpoint",
             jobs'[b].stale \cap {"keys", "rules"} = {}
      PROVE  /\ Current(db'.keys, jobs'[b].changes.keys)
             /\ Current(db'.rules, jobs'[b].changes.rules)
             /\ Sound(Intended(jobs[b]), orphans \cup Strays(jobs[b].call))'
  <2>1. jobs[b] # Idle /\ jobs'[b] = jobs[b]
    BY <1>2, <1>3
  <2>2. /\ Current(db.keys, jobs[b].changes.keys)
        /\ Current(db.rules, jobs[b].changes.rules)
        /\ Sound(Intended(jobs[b]), orphans \cup Strays(jobs[b].call))
    BY <1>3, <2>1 DEF AgreeInv
  <2> QED  BY <1>1, <2>1, <2>2 DEF Sound, Intended, Strays
<1> QED  BY <1>1, <1>3 DEF AgreeInv

-----------------------------------------------------------------------------
(* The ids that calls name.                                                *)

\* A handler starts with a call that names ids as targets.
Names(a) == \E call, after : Start(a, call, after) /\ Strays(call) \subseteq Ids

\* Only create_rule and update_rule name any.
LEMMA PlainNames ==
  ASSUME NEW a, NEW call, NEW after, Start(a, call, after),
         call.op \notin {"create_rule", "update_rule"}
  PROVE  Names(a)
BY DEF Names, Strays

LEMMA NamingNames ==
  ASSUME NEW a, NEW op, NEW targets, targets \subseteq Ids, NEW after,
         Start(a, Naming(op, targets), after)
  PROVE  Names(a)
<1>1. Strays(Naming(op, targets)) \subseteq Ids
  BY DEF Strays, Naming
<1> QED  BY <1>1 DEF Names

LEMMA HandlersName ==
  ASSUME TokenInv, TypeInv, NEW a \in Admins, Handler(a)
  PROVE  Names(a)
<1>0. \A op : op \notin {"create_rule", "update_rule"}
            => Call(op).op \notin {"create_rule", "update_rule"}
  BY DEF Call
<1>1. ASSUME CreateEndpoint(a) PROVE Names(a)
  BY <1>0, <1>1, PlainNames DEF CreateEndpoint
<1>2. ASSUME UpdateEndpoint(a) PROVE Names(a)
  BY <1>0, <1>2, PlainNames DEF UpdateEndpoint
<1>3. ASSUME DeleteEndpoint(a) PROVE Names(a)
  BY <1>0, <1>3, PlainNames DEF DeleteEndpoint
<1>4. ASSUME CreateKey(a) PROVE Names(a)
  BY <1>0, <1>4, PlainNames DEF CreateKey
<1>5. ASSUME UpdateKey(a) PROVE Names(a)
  <2> DEFINE flipped(k) == [db EXCEPT !.keys[k].active = ~@]
             next(k, groups, primary) == IF primary THEN groups
                                         ELSE WithPrimary(groups, db.keys[k])
             ensured == EnsureDefault(db)
             told(k, groups, primary) ==
                [ensured EXCEPT
                    !.keys[k].groups = next(k, groups, primary),
                    !.rules = SyncTargets(@, For(k, RuleGroups(db.keys[k])),
                                 For(k, {Default} \cup ToSet(next(k, groups, primary))))]
             call == Call("update_key")
  <2>1. PICK k : \/ Start(a, call, flipped(k))
                 \/ \E groups, primary : Start(a, call, told(k, groups, primary))
    BY <1>5 DEF UpdateKey
  <2>2. call.op \notin {"create_rule", "update_rule"}
    BY DEF Call
  <2> HIDE DEF flipped, told, call
  <2> QED  BY <2>1, <2>2, PlainNames
<1>6. ASSUME DeleteKey(a) PROVE Names(a)
  BY <1>0, <1>6, PlainNames DEF DeleteKey
<1>7. ASSUME ListRules(a) PROVE Names(a)
  BY <1>0, <1>7, PlainNames DEF ListRules
<1>8. ASSUME DeleteRule(a) PROVE Names(a)
  BY <1>0, <1>8, PlainNames DEF DeleteRule
<1>9. ASSUME CreateModelMap(a) PROVE Names(a)
  BY <1>0, <1>9, PlainNames DEF CreateModelMap
<1>10. ASSUME UpdateModelMap(a) PROVE Names(a)
  BY <1>0, <1>10, PlainNames DEF UpdateModelMap
<1>11. ASSUME DeleteModelMap(a) PROVE Names(a)
  BY <1>0, <1>11, PlainNames DEF DeleteModelMap
<1>12. ASSUME CreateRuleAccessKey(a) PROVE Names(a)
  BY <1>0, <1>12, PlainNames DEF CreateRuleAccessKey
<1>13. ASSUME CreateAccessKey(a) PROVE Names(a)
  BY <1>0, <1>13, PlainNames DEF CreateAccessKey
<1>14. ASSUME UpdateAccessKey(a) PROVE Names(a)
  <2> DEFINE flipped(i) == [db EXCEPT !.access[i].active = ~@]
             told(i, groups) == [db EXCEPT !.access[i].groups = groups]
             call == Call("update_access_key")
  <2>1. PICK i : \/ Start(a, call, flipped(i))
                 \/ \E groups \in MemberLists : Start(a, call, told(i, groups))
    BY <1>14 DEF UpdateAccessKey
  <2>2. call.op \notin {"create_rule", "update_rule"}
    BY DEF Call
  <2> HIDE DEF flipped, told, call
  <2> QED  BY <2>1, <2>2, PlainNames
<1>15. ASSUME RotateAccessKey(a) PROVE Names(a)
  BY <1>0, <1>15, PlainNames DEF RotateAccessKey
<1>16. ASSUME DeleteAccessKey(a) PROVE Names(a)
  BY <1>0, <1>16, PlainNames DEF DeleteAccessKey
<1>17. ASSUME ProbeEndpoint(a) PROVE Names(a)
  <2>1. PICK e, found : Start(a, [op |-> "probe", endpoint |-> e, found |-> found],
                              [db EXCEPT !.maps = SyncProbe(@, e, found)])
    BY <1>17 DEF ProbeEndpoint
  <2> QED  BY <2>1, PlainNames
<1>18. ASSUME CreateRule(a) PROVE Names(a)
  <2>1. PICK targets \in SUBSET TargetIds :
            \E after : Start(a, Naming("create_rule", targets), after)
    BY <1>18 DEF CreateRule
  <2>2. targets \subseteq Ids
    BY CatalogAssumption DEF Ids
  <2> QED  BY <2>1, <2>2, NamingNames
<1>19. ASSUME UpdateRule(a) PROVE Names(a)
  <2> DEFINE starts(targets) == \E after : Start(a, Naming("update_rule", targets), after)
  <2>1. PICK r \in DOMAIN db.rules :
            \/ \E targets \in (SUBSET TargetIds) \cup {db.rules[r].config.targets} :
                   starts(targets)
            \/ starts({})
    BY <1>19 DEF UpdateRule
  <2> HIDE DEF starts
  <2>2. PICK targets \in (SUBSET TargetIds) \cup {db.rules[r].config.targets, {}} :
            starts(targets)
    BY <2>1
  <2>3. targets \subseteq Ids
    BY <2>2, Rows, CatalogAssumption DEF Ids
  <2> QED  BY <2>2, <2>3, NamingNames DEF starts
<1> QED  BY <1>1, <1>2, <1>3, <1>4, <1>5, <1>6, <1>7, <1>8, <1>9, <1>10, <1>11,
            <1>12, <1>13, <1>14, <1>15, <1>16, <1>17, <1>18, <1>19 DEF Handler

\* What the open calls name are ids.
LEMMA NextStrays == TokenInv /\ TypeInv /\ StrayInv /\ [Next]_vars => StrayInv'
<1> SUFFICES ASSUME TokenInv, TypeInv, StrayInv, [Next]_vars PROVE StrayInv'
  OBVIOUS
<1>1. ASSUME NEW a \in Admins, Handler(a) PROVE StrayInv'
  <2>1. PICK call, after : Start(a, call, after) /\ Strays(call) \subseteq Ids
    BY <1>1, HandlersName DEF Names
  <2>2. DOMAIN jobs = Admins
    BY DEF TokenInv, Sessions
  <2>3. \A b \in Admins : IF b = a THEN jobs'[b].call = call ELSE jobs'[b] = jobs[b]
    BY <2>1, <2>2 DEF Start
  <2> QED  BY <2>1, <2>3 DEF StrayInv, Strays
<1>2. ASSUME NEW a \in Admins, Commit(a) \/ Rollback(a) PROVE StrayInv'
  <2>1. \A b \in Admins : jobs'[b] # Idle => jobs[b] # Idle /\ jobs'[b].call = jobs[b].call
    BY <1>2, OtherSessions
  <2> QED  BY <2>1 DEF StrayInv, Strays
<1>3. ASSUME UNCHANGED vars PROVE StrayInv'
  BY <1>3 DEF vars, StrayInv, Strays
<1> QED  BY <1>1, <1>2, <1>3 DEF Next, Handler

-----------------------------------------------------------------------------
(* Always.                                                                 *)

\* The databases to start from.
LEMMA InitSound == Init => TypeInv /\ AgreeInv /\ StrayInv
<1> SUFFICES ASSUME Init PROVE TypeInv /\ AgreeInv /\ StrayInv
  OBVIOUS
<1>1. /\ DOMAIN db = Tables
      /\ \A t \in Tables : DOMAIN db[t] \subseteq Nat \ {0} /\ IsFiniteSet(DOMAIN db[t])
      /\ WellFormed(db, Cardinality(DOMAIN db.access))
      /\ Membership(db, {}) /\ Disjoint(db)
  BY PopulationsAssumption DEF Init
<1>2. /\ \A t \in Tables : last[t] = Max(DOMAIN db[t] \cup {0})
      /\ tokens = Cardinality(DOMAIN db.access)
      /\ \A a \in Admins : jobs[a] = Idle
      /\ calls = 0 /\ raced = FALSE /\ orphans = {}
  BY DEF Init
<1>3. \A t \in Tables : last[t] \in Nat /\ DOMAIN db[t] \subseteq 1 .. last[t]
                        /\ IsFiniteSet(DOMAIN db[t])
  <2> SUFFICES ASSUME NEW t \in Tables
               PROVE  last[t] \in Nat /\ DOMAIN db[t] \subseteq 1 .. last[t]
                      /\ IsFiniteSet(DOMAIN db[t])
    OBVIOUS
  <2> DEFINE S == DOMAIN db[t]
  <2>1. S \subseteq Ids /\ IsFiniteSet(S)
    BY <1>1 DEF Ids
  <2>2. {0} \cup S = S \cup {0} /\ last[t] = Max(S \cup {0})
    BY <1>2
  <2> HIDE DEF S
  <2>3. LET m == Max({0} \cup S) IN m \in Nat /\ 0 <= m /\ S \subseteq 1 .. m
    BY <2>1, Highest
  <2>4. last[t] \in Nat /\ S \subseteq 1 .. last[t]
    BY <2>2, <2>3
  <2> QED  BY <2>1, <2>4 DEF S
<1>4. WellFormed(db, tokens)
  BY <1>1, <1>2 DEF Tables
<1>5. calls \in 0 .. MaxCalls /\ Cardinality({a \in Admins : jobs[a] # Idle}) <= calls
  <2>1. {a \in Admins : jobs[a] # Idle} = {}
    BY <1>2
  <2>2. Cardinality({a \in Admins : jobs[a] # Idle}) = 0
    BY <2>1, FS_EmptySet
  <2> QED  BY <1>2, <2>2, CatalogAssumption
<1>6. TypeInv
  BY <1>2, <1>3, <1>4, <1>5 DEF TypeInv
<1>7. AgreeInv
  BY <1>1, <1>2 DEF AgreeInv
<1>8. StrayInv
  BY <1>2 DEF StrayInv
<1> QED  BY <1>6, <1>7, <1>8

\* The inductive invariant.
Invariant == TokenInv /\ TypeInv /\ StrayInv /\ AgreeInv

\* Every step keeps it.
LEMMA NextInvariant == Invariant /\ [Next]_vars => Invariant'
<1> SUFFICES ASSUME Invariant, [Next]_vars PROVE Invariant'
  OBVIOUS
<1>1. TokenInv /\ TypeInv /\ StrayInv /\ AgreeInv
  BY DEF Invariant
<1>2. TokenInv' /\ StrayInv'
  BY <1>1, NextTokens, NextStrays
<1>3. ASSUME NEW a \in Admins, Handler(a) PROVE TypeInv' /\ AgreeInv'
  <2>1. PICK call, after : Fine(a, call, after)
    BY <1>1, <1>3, AllFine
  <2>2. Start(a, call, after) /\ Typed(after, call)
    BY <2>1 DEF Fine
  <2> QED  BY <1>1, <2>1, <2>2, StartTypes, StartSound
<1>4. ASSUME NEW a \in Admins, Commit(a) PROVE TypeInv' /\ AgreeInv'
  BY <1>1, <1>2, <1>4, CommitTypes, CommitSound
<1>5. ASSUME NEW a \in Admins, Rollback(a) PROVE TypeInv' /\ AgreeInv'
  BY <1>1, <1>5, RollbackTypes, RollbackSound
<1>6. ASSUME UNCHANGED vars PROVE TypeInv' /\ AgreeInv'
  <2>1. TypeInv'
    BY <1>1, <1>6 DEF vars, TypeInv
  <2>2. AgreeInv'
    <3>1. UNCHANGED <<db, jobs, raced, orphans>>
      BY <1>6 DEF vars
    <3>2. \A a : Sound(Intended(jobs[a]), orphans \cup Strays(jobs[a].call))'
                    <=> Sound(Intended(jobs[a]), orphans \cup Strays(jobs[a].call))
      BY <3>1 DEF Sound, Intended, Strays
    <3> QED  BY <1>1, <3>1, <3>2 DEF AgreeInv
  <2> QED  BY <2>1, <2>2
<1>7. TypeInv' /\ AgreeInv'
  BY <1>3, <1>4, <1>5, <1>6 DEF Next, Handler
<1> QED  BY <1>2, <1>7 DEF Invariant

\* ... and it always holds.
LEMMA InvariantAlways == Spec => []Invariant
<1>1. Init => Invariant
  BY InitTokens, InitSound DEF Invariant
<1> QED  BY <1>1, NextInvariant, PTL DEF Spec

\* Every column of every row keeps its type, a key lists no group twice and a
\* key or a map has its endpoint, whatever handlers interleave.
THEOREM TypeCorrect == Spec => []TypeOK
<1>1. Invariant => TypeOK
  BY DEF Invariant, TypeInv, TokenInv, Dead, TypeOK, Ids
<1> QED  BY <1>1, InvariantAlways, PTL

\* MembershipAgrees: _sync_rule_targets_for_api_key and
\* _sync_api_key_groups_for_rule_targets keep the groups of the keys and the
\* targets of the rules in step, as long as no session writes from stale rows.
THEOREM MembersAgree == Spec => []MembershipAgrees
<1>1. Invariant => MembershipAgrees
  BY DEF Invariant, AgreeInv, MembershipAgrees
<1> QED  BY <1>1, InvariantAlways, PTL

\* NoOverlap: _ensure_rule_group_available, which create_rule and update_rule
\* ask before they write, is enough as long as no session writes from stale rows.
THEOREM FormatsDisjoint == Spec => []NoOverlap
<1>1. Invariant => NoOverlap
  BY DEF Invariant, AgreeInv, NoOverlap
<1> QED  BY <1>1, InvariantAlways, PTL

\* The keys that the router finds are members of the group it finds them for.
LEMMA MembersServe ==
  ASSUME TokenInv, TypeInv, Membership(db, orphans), NEW g \in Groups \cup {Default},
         NEW m, NEW x, NEW allowDefault, NEW allowUnmapped,
         NEW k \in GetCandidates(db, g, m, x, allowDefault, allowUnmapped).keys
  PROVE  \/ k \in orphans
         \/ InRuleGroup(db.keys[k], GetCandidates(db, g, m, x, allowDefault, allowUnmapped).group)
<1> DEFINE standing == {s \in EffectiveSelection(db, g, m, x, allowDefault) :
                            s.group = Default \/ s.targets # {}}
           s == CHOOSE t \in standing : TRUE
           mapped == {j \in Eligible(db, s) : HasMap(db, j, m)}
           chosen == GetCandidates(db, g, m, x, allowDefault, allowUnmapped)
<1>1. chosen = IF standing = {} THEN [group |-> g, keys |-> {}]
               ELSE [group |-> s.group,
                     keys |-> IF mapped = {} /\ allowUnmapped THEN Eligible(db, s)
                                                              ELSE mapped]
  BY DEF GetCandidates
<1>2. k \in chosen.keys
  OBVIOUS
<1> HIDE DEF chosen
<1>3. standing # {} /\ chosen.group = s.group /\ k \in Eligible(db, s)
  BY <1>1, <1>2
<1>4. s \in EffectiveSelection(db, g, m, x, allowDefault)
  BY <1>3
<1> HIDE DEF s, standing
<1>5. /\ k \in DOMAIN db.keys
      /\ IF s.targets # {} THEN k \in s.targets ELSE InRuleGroup(db.keys[k], s.group)
  BY <1>3 DEF Eligible
<1>6. CASE s.targets = {} \/ s.group = Default
  BY <1>3, <1>5, <1>6 DEF InRuleGroup, RuleGroups, chosen
<1>7. CASE s.targets # {} /\ s.group # Default
  <2> DEFINE found == {r \in ActiveRules(db, g) : Matches(db.rules[r], m, x)}
  <2>1. s = [group |-> g, targets |-> SelectRuleTargets(db, g, m, x).targets]
    BY <1>4, <1>7 DEF EffectiveSelection
  <2>2. found # {} /\ s.targets = db.rules[Min(found)].config.targets
    BY <1>7, <2>1 DEF SelectRuleTargets, Selection
  <2>3. found \in SUBSET Nat /\ IsFiniteSet(found)
    <3>1. found \subseteq DOMAIN db.rules
      BY DEF ActiveRules
    <3>2. DOMAIN db.rules \subseteq Ids /\ IsFiniteSet(DOMAIN db.rules)
      BY Rows DEF Tables
    <3> HIDE DEF found
    <3> QED  BY <3>1, <3>2, FS_Subset DEF Ids
  <2> HIDE DEF found
  <2>4. Min(found) \in found
    BY <2>2, <2>3, MinOfFinite
  <2>5. Min(found) \in DOMAIN db.rules /\ db.rules[Min(found)].group = g
    BY <2>4 DEF found, ActiveRules
  <2>6. g \in Groups /\ s.group = g
    BY <1>7, <2>1
  <2> QED  BY <1>3, <1>5, <1>7, <2>2, <2>5, <2>6 DEF Membership, chosen
<1> QED  BY <1>6, <1>7

\* GroupIsolation: a request is served through a group its access key allows
\* and by members of that group, whatever rules, keys and sessions there are.
THEOREM Isolation == Spec => []GroupIsolation
<1>1. ASSUME Invariant PROVE GroupIsolation
  <2> SUFFICES ASSUME NEW i \in DOMAIN db.access, NEW requested \in Groups \cup {Default},
                      NEW m \in Models, NEW x \in Formats,
                      NEW k \in ProxyCandidates(db, db.access[i], requested, m, x).keys
               PROVE  LET chosen == ProxyCandidates(db, db.access[i], requested, m, x) IN
                      /\ chosen.group \in ToSet(AllowedGroups(db.access[i]))
                      /\ raced \/ k \in orphans \/ InRuleGroup(db.keys[k], chosen.group)
    BY DEF GroupIsolation
  <2> DEFINE chosen == ProxyCandidates(db, db.access[i], requested, m, x)
             g == ResolveRuleGroup(db.access[i], requested)
  <2>1. TokenInv /\ TypeInv /\ (~raced => Membership(db, orphans))
    BY <1>1 DEF Invariant, AgreeInv
  <2>2. chosen.group \in ToSet(AllowedGroups(db.access[i]))
    BY <2>1, Within DEF OnlyAllowedGroups
  <2>3. g \in Groups \cup {Default}
    <3> DEFINE groups == db.access[i].groups
    <3>1. groups \in Seq(Groups \cup {Default})
      BY <2>1, Rows DEF AccessKeyRow, Lists
    <3>2. AllowedGroups(db.access[i]) = IF groups = <<>> THEN <<Default>> ELSE groups
      BY DEF AllowedGroups
    <3> HIDE DEF groups
    <3>3. CASE groups = <<>>
      BY <3>2, <3>3 DEF ResolveRuleGroup
    <3>4. CASE groups # <<>>
      <4>1. groups[1] \in Groups \cup {Default}
        BY <3>1, <3>4
      <4> QED  BY <3>2, <3>4, <4>1 DEF ResolveRuleGroup
    <3> QED  BY <3>3, <3>4
  <2>4. ASSUME ~raced, k \notin orphans PROVE InRuleGroup(db.keys[k], chosen.group)
    <3> DEFINE open == Default \in ToSet(AllowedGroups(db.access[i]))
    <3>1. chosen = GetCandidates(db, g, m, x, open, TRUE)
      BY DEF ProxyCandidates
    <3>2. k \in GetCandidates(db, g, m, x, open, TRUE).keys
      BY <3>1
    <3> HIDE DEF chosen, g, open
    <3>3. Membership(db, orphans)
      BY <2>1, <2>4
    <3>4. k \in orphans \/ InRuleGroup(db.keys[k], GetCandidates(db, g, m, x, open, TRUE).group)
      BY <2>1, <2>3, <3>2, <3>3, MembersServe
    <3> QED  BY <2>4, <3>1, <3>4
  <2> QED  BY <2>2, <2>4
<1> QED  BY <1>1, InvariantAlways, PTL

\* DefaultServesAll: _ensure_default_rule_group, update_rule and delete_rule
\* never make a proper default rule improper, and neither does anything else
\* that does not write from stale rows.
THEOREM DefaultKept == Spec => DefaultServesAll
<1> DEFINE Kept == Proper(db) => Proper(db') \/ raced'
<1>1. ASSUME Invariant, [Next]_vars PROVE [Kept]_vars
  <2>1. TokenInv /\ TypeInv /\ StrayInv /\ AgreeInv
    BY <1>1 DEF Invariant
  <2>2. ASSUME NEW a \in Admins, Commit(a) PROVE Kept
    BY <2>1, <2>2, CommitSound
  <2>3. ASSUME NEW a \in Admins, Handler(a) PROVE Kept
    <3>1. PICK call, after : Fine(a, call, after)
      BY <2>1, <2>3, AllFine
    <3>2. db' = db
      BY <3>1 DEF Fine, Start
    <3> QED  BY <3>2
  <2>4. ASSUME NEW a \in Admins, Rollback(a) PROVE Kept
    <3>1. db' = db
      BY <2>4 DEF Rollback
    <3> QED  BY <3>1
  <2> QED  BY <1>1, <2>2, <2>3, <2>4 DEF Next, Handler
<1>2. Kept <=> (DefaultRules(db) # {} /\ (\A d \in DefaultRules(db) : IsProperDefault(d))
                => \/ DefaultRules(db') # {}
                      /\ \A d \in DefaultRules(db') : IsProperDefault(d)
                   \/ raced')
  BY DEF Proper
<1> HIDE DEF Kept
<1> QED  BY <1>1, <1>2, InvariantAlways, PTL DEF Spec, DefaultServesAll

-----------------------------------------------------------------------------
(* What a probe does to the maps.                                          *)

\* SetToSeq lists each element of a finite set once.
LEMMA SeqOfSet ==
  ASSUME NEW S, IsFiniteSet(S)
  PROVE  \E n \in Nat : /\ SetToSeq(S) \in [1 .. n -> S]
                        /\ IsInjective(SetToSeq(S))
                        /\ \A x \in S : \E j \in 1 .. n : SetToSeq(S)[j] = x
<1> DEFINE n == Cardinality(S)
           f == SetToSeq(S)
<1>1. n \in Nat /\ ExistsBijection(1 .. n, S)
  BY FS_CardinalityType
<1>2. f \in [1 .. n -> S] /\ IsInjective(f)
  <2>1. \E g \in [1 .. n -> S] : IsInjective(g)
    BY <1>1 DEF ExistsBijection, Bijection, Injection
  <2> QED  BY <2>1 DEF SetToSeq
<1> HIDE DEF f
<1>3. f \in Injection(1 .. n, S)
  BY <1>2 DEF Injection
<1>4. Cardinality(1 .. n) = n
  <2>1. 1 \in Int /\ n \in Int /\ (IF 1 > n THEN 0 ELSE n - 1 + 1) = n
    BY <1>1
  <2> QED  BY <2>1, FS_Interval
<1>5. f \in Surjection(1 .. n, S)
  BY <1>3, <1>4, FS_Injection
<1> QED  BY <1>1, <1>2, <1>5 DEF Surjection, f

\* A map that a probe of endpoint e manages.
Mine(row, e) == row.endpoint = e /\ row.managed

\* The models that the maps of e edited by hand stand for.
Manual(maps, e) ==
    {maps[i].real : i \in {j \in DOMAIN maps : maps[j].endpoint = e /\ ~maps[j].managed}}

\* The maps after a probe: all it does not manage, as they were, and one for
\* each model it found that no manual map stands for.
Probed(maps, e, found, synced) ==
    /\ \A n \in DOMAIN synced :
        \/ n \in DOMAIN maps /\ synced[n] = maps[n] /\ ~Mine(maps[n], e)
        \/ /\ n \in DOMAIN maps => Mine(maps[n], e)
           /\ n \in DOMAIN maps \/ (n \in Int /\ n < 0)
           /\ Mine(synced[n], e) /\ synced[n].real \in found \ Manual(maps, e)
    /\ \A n \in DOMAIN maps : ~Mine(maps[n], e) => n \in DOMAIN synced
    /\ \A m \in found \ Manual(maps, e) :
        \E n \in DOMAIN synced : Mine(synced[n], e) /\ synced[n].real = m
    /\ \A n, p \in DOMAIN synced :
        Mine(synced[n], e) /\ Mine(synced[p], e) /\ synced[n].real = synced[p].real => n = p

\* _sync_probe_model_maps, row by row.
LEMMA ProbeIs ==
  ASSUME TokenInv, TypeInv, NEW e, NEW found \in Discoveries
  PROVE  Probed(db.maps, e, found, SyncProbe(db.maps, e, found))
<1> DEFINE maps == db.maps
           manual == Manual(maps, e)
           auto == {i \in DOMAIN maps : maps[i].endpoint = e /\ maps[i].managed}
           AutoOf(m) == {i \in auto : maps[i].real = m}
           wanted == found \ manual
           keepers == {Min(AutoOf(m)) : m \in {w \in wanted : AutoOf(w) # {}}}
           missing == {m \in wanted : AutoOf(m) = {}}
           added == SetToSeq(missing)
           fresh == {-j : j \in DOMAIN added}
           synced == SyncProbe(maps, e, found)
<1>1. \A i \in DOMAIN maps : MapRow(maps[i]) /\ i \in Nat
  BY Rows DEF Ids, Tables
<1>2. synced = [i \in (DOMAIN maps \ auto) \cup keepers \cup fresh |->
            CASE i \in keepers -> [maps[i] EXCEPT !.alias = maps[i].real]
              [] i \in fresh -> [endpoint |-> e, alias |-> added[-i],
                                 real |-> added[-i], managed |-> TRUE]
              [] OTHER -> maps[i]]
  BY DEF SyncProbe, Manual
<1>3. \A m : AutoOf(m) # {} => Min(AutoOf(m)) \in AutoOf(m)
  <2> SUFFICES ASSUME NEW m, AutoOf(m) # {} PROVE Min(AutoOf(m)) \in AutoOf(m)
    OBVIOUS
  <2> DEFINE S == AutoOf(m)
  <2>1. S \subseteq DOMAIN maps /\ S # {}
    OBVIOUS
  <2>2. DOMAIN maps \subseteq Nat /\ IsFiniteSet(DOMAIN maps)
    BY Rows DEF Ids, Tables
  <2> HIDE DEF S, maps
  <2>3. S \in SUBSET Nat /\ IsFiniteSet(S)
    BY <2>1, <2>2, FS_Subset
  <2>4. Min(S) \in S
    BY <2>1, <2>3, MinOfFinite
  <2> QED  BY <2>4 DEF S
<1>4. PICK n \in Nat : /\ added \in [1 .. n -> missing] /\ IsInjective(added)
                       /\ \A x \in missing : \E j \in 1 .. n : added[j] = x
  <2>1. missing \subseteq found /\ IsFiniteSet(found)
    BY CatalogAssumption
  <2> HIDE DEF missing
  <2>2. IsFiniteSet(missing)
    BY <2>1, FS_Subset
  <2> QED  BY <2>2, SeqOfSet
<1>5. /\ \A i \in keepers : \E m \in wanted :
            AutoOf(m) # {} /\ i = Min(AutoOf(m)) /\ i \in AutoOf(m)
      /\ \A m \in wanted : AutoOf(m) # {} => Min(AutoOf(m)) \in keepers
  <2>1. ASSUME NEW m \in wanted, AutoOf(m) # {} PROVE Min(AutoOf(m)) \in keepers
    BY <2>1
  <2>2. ASSUME NEW i \in keepers
        PROVE  \E m \in wanted : AutoOf(m) # {} /\ i = Min(AutoOf(m)) /\ i \in AutoOf(m)
    <3>1. PICK m \in {w \in wanted : AutoOf(w) # {}} : i = Min(AutoOf(m))
      OBVIOUS
    <3> QED  BY <1>3, <3>1
  <2> QED  BY <2>1, <2>2
<1>6. /\ \A m : \A i \in AutoOf(m) : i \in DOMAIN maps /\ Mine(maps[i], e) /\ maps[i].real = m
      /\ \A i \in auto : i \in DOMAIN maps /\ Mine(maps[i], e)
      /\ \A i \in DOMAIN maps : Mine(maps[i], e) => i \in auto
      /\ \A m : m \in missing <=> m \in wanted /\ AutoOf(m) = {}
  BY DEF Mine
<1> HIDE DEF maps, manual, auto, AutoOf, keepers, missing, added, synced
<1>7. ASSUME NEW i \in fresh
      PROVE  i \in Int /\ i < 0 /\ -i \in 1 .. n /\ i \notin DOMAIN maps /\ i \notin keepers
  <2>1. PICK j \in 1 .. n : i = -j
    BY <1>4
  <2>2. i \in Int /\ i < 0 /\ -i = j
    BY <2>1
  <2>3. i \notin DOMAIN maps
    BY <1>1, <2>2
  <2> QED  BY <1>5, <1>6, <2>1, <2>2, <2>3
<1>8. \A j \in 1 .. n : -j \in fresh /\ -(-j) = j
  <2>1. DOMAIN added = 1 .. n
    BY <1>4
  <2>2. \A j \in 1 .. n : -(-j) = j
    OBVIOUS
  <2> QED  BY <2>1, <2>2
<1> HIDE DEF fresh
<1>9. ASSUME NEW i \in keepers
      PROVE  /\ i \in DOMAIN synced /\ i \in DOMAIN maps /\ Mine(maps[i], e)
             /\ Mine(synced[i], e) /\ synced[i].real = maps[i].real
             /\ maps[i].real \in wanted /\ i = Min(AutoOf(maps[i].real))
             /\ AutoOf(maps[i].real) # {}
  <2>1. PICK m \in wanted : AutoOf(m) # {} /\ i = Min(AutoOf(m)) /\ i \in AutoOf(m)
    BY <1>5
  <2>2. i \in DOMAIN maps /\ Mine(maps[i], e) /\ maps[i].real = m
    BY <1>6, <2>1
  <2>3. i \in DOMAIN synced /\ synced[i] = [maps[i] EXCEPT !.alias = maps[i].real]
    BY <1>2, <1>7
  <2>4. MapRow(maps[i])
    BY <1>1, <2>2
  <2>5. synced[i].endpoint = maps[i].endpoint /\ synced[i].managed = maps[i].managed
        /\ synced[i].real = maps[i].real
    BY <2>3, <2>4 DEF MapRow
  <2> QED  BY <2>1, <2>2, <2>3, <2>5 DEF Mine
<1>10. ASSUME NEW i \in fresh
       PROVE  /\ i \in DOMAIN synced /\ Mine(synced[i], e)
              /\ synced[i].real = added[-i] /\ added[-i] \in missing
  <2>1. i \in DOMAIN synced
    BY <1>2
  <2>2. synced[i] = [endpoint |-> e, alias |-> added[-i], real |-> added[-i], managed |-> TRUE]
    BY <1>2, <1>7
  <2>3. added[-i] \in missing
    BY <1>4, <1>7
  <2> QED  BY <2>1, <2>2, <2>3 DEF Mine
<1>11. ASSUME NEW i \in DOMAIN synced, i \notin keepers, i \notin fresh
       PROVE  i \in DOMAIN maps /\ synced[i] = maps[i] /\ ~Mine(maps[i], e)
  <2>1. i \in DOMAIN maps \ auto
    BY <1>2, <1>11
  <2> QED  BY <1>2, <1>6, <1>11, <2>1
<1>12. ASSUME NEW i \in DOMAIN synced
       PROVE  \/ i \in DOMAIN maps /\ synced[i] = maps[i] /\ ~Mine(maps[i], e)
              \/ /\ i \in DOMAIN maps => Mine(maps[i], e)
                 /\ i \in DOMAIN maps \/ (i \in Int /\ i < 0)
                 /\ Mine(synced[i], e) /\ synced[i].real \in found \ manual
  BY <1>6, <1>7, <1>9, <1>10, <1>11
<1>13. ASSUME NEW i \in DOMAIN maps, ~Mine(maps[i], e) PROVE i \in DOMAIN synced
  BY <1>2, <1>6, <1>13
<1>14. ASSUME NEW m \in found \ manual
       PROVE  \E i \in DOMAIN synced : Mine(synced[i], e) /\ synced[i].real = m
  <2>1. CASE AutoOf(m) # {}
    <3>1. Min(AutoOf(m)) \in keepers /\ Min(AutoOf(m)) \in AutoOf(m)
      BY <1>3, <1>5, <2>1 DEF AutoOf
    <3> QED  BY <1>6, <1>9, <3>1
  <2>2. CASE AutoOf(m) = {}
    <3>1. PICK j \in 1 .. n : added[j] = m
      BY <1>4, <1>6, <2>2
    <3> QED  BY <1>8, <1>10, <3>1
  <2> QED  BY <2>1, <2>2
<1>15. ASSUME NEW i \in DOMAIN synced, NEW p \in DOMAIN synced,
              Mine(synced[i], e), Mine(synced[p], e), synced[i].real = synced[p].real
       PROVE  i = p
  <2>1. (i \in keepers \/ i \in fresh) /\ (p \in keepers \/ p \in fresh)
    BY <1>11, <1>15
  <2>2. CASE i \in keepers /\ p \in keepers
    BY <1>9, <1>15, <2>2
  <2>3. CASE i \in fresh /\ p \in fresh
    <3>1. added[-i] = added[-p] /\ -i \in 1 .. n /\ -p \in 1 .. n
          /\ i \in Int /\ p \in Int
      BY <1>7, <1>10, <1>15, <2>3
    <3>2. -i = -p
      BY <1>4, <3>1 DEF IsInjective
    <3> QED  BY <3>1, <3>2
  <2>4. CASE ~(i \in keepers /\ p \in keepers) /\ ~(i \in fresh /\ p \in fresh)
    BY <1>6, <1>9, <1>10, <1>15, <2>1, <2>4
  <2> QED  BY <2>2, <2>3, <2>4
<1> QED  BY <1>12, <1>13, <1>14, <1>15 DEF Probed, manual, synced, maps

\* What a probe means to write that has read these maps.
ProbeMeans(job, maps) ==
    /\ job.call.endpoint \in Ids /\ job.call.found \in Discoveries
    /\ \A t \in Tables \ {"maps"} :
        DOMAIN job.changes[t].old = {} /\ DOMAIN job.changes[t].new = {}
    /\ job.changes.maps =
            TableChanges(maps, SyncProbe(maps, job.call.endpoint, job.call.found))

\* So it is as long as no other session writes maps.
ProbeInv ==
    \A a \in Admins : jobs[a] # Idle /\ jobs[a].op = "probe" /\ "maps" \notin jobs[a].stale
                        => ProbeMeans(jobs[a], db.maps)

\* A handler starts a session of another kind.
OtherCall(a) == \E call, after : Start(a, call, after) /\ call.op # "probe"

\* A session of another kind.
LEMMA StartsOther ==
  ASSUME NEW a, NEW call, NEW after, Start(a, call, after), call.op # "probe"
  PROVE  OtherCall(a)
BY DEF OtherCall

\* A handler other than the probe starts no session of a probe.
LEMMA OtherOps ==
  ASSUME NEW a, Handler(a)
  PROVE  ProbeEndpoint(a) \/ OtherCall(a)
<1>0. \A op : op # "probe" => Call(op).op # "probe"
  BY DEF Call
<1>1. ASSUME CreateEndpoint(a) PROVE OtherCall(a)
  BY <1>0, <1>1, StartsOther DEF CreateEndpoint
<1>2. ASSUME UpdateEndpoint(a) PROVE OtherCall(a)
  BY <1>0, <1>2, StartsOther DEF UpdateEndpoint
<1>3. ASSUME DeleteEndpoint(a) PROVE OtherCall(a)
  BY <1>0, <1>3, StartsOther DEF DeleteEndpoint
<1>4. ASSUME CreateKey(a) PROVE OtherCall(a)
  BY <1>0, <1>4, StartsOther DEF CreateKey
<1>5. ASSUME UpdateKey(a) PROVE OtherCall(a)
  <2> DEFINE flipped(k) == [db EXCEPT !.keys[k].active = ~@]
             next(k, groups, primary) == IF primary THEN groups
                                         ELSE WithPrimary(groups, db.keys[k])
             ensured == EnsureDefault(db)
             told(k, groups, primary) ==
                [ensured EXCEPT
                    !.keys[k].groups = next(k, groups, primary),
                    !.rules = SyncTargets(@, For(k, RuleGroups(db.keys[k])),
                                 For(k, {Default} \cup ToSet(next(k, groups, primary))))]
             call == Call("update_key")
  <2>1. PICK k : \/ Start(a, call, flipped(k))
                 \/ \E groups, primary : Start(a, call, told(k, groups, primary))
    BY <1>5 DEF UpdateKey
  <2>2. call.op # "probe"
    BY DEF Call
  <2> HIDE DEF flipped, told, call
  <2> QED  BY <2>1, <2>2, StartsOther
<1>6. ASSUME DeleteKey(a) PROVE OtherCall(a)
  BY <1>0, <1>6, StartsOther DEF DeleteKey
<1>7. ASSUME ListRules(a) PROVE OtherCall(a)
  BY <1>0, <1>7, StartsOther DEF ListRules
<1>8. ASSUME CreateRule(a) PROVE OtherCall(a)
  <2>1. \A targets : Naming("create_rule", targets).op # "probe"
    BY DEF Naming
  <2> QED  BY <1>8, <2>1, StartsOther DEF CreateRule
<1>9. ASSUME UpdateRule(a) PROVE OtherCall(a)
  <2>1. PICK r \in DOMAIN db.rules : \E targets, rule, moves :
            Start(a, Naming("update_rule", targets), UpdatedRule(r, rule, moves))
    BY <1>9 DEF UpdateRule
  <2>2. \A targets : Naming("update_rule", targets).op # "probe"
    BY DEF Naming
  <2> QED  BY <2>1, <2>2, StartsOther
<1>10. ASSUME DeleteRule(a) PROVE OtherCall(a)
  BY <1>0, <1>10, StartsOther DEF DeleteRule
<1>11. ASSUME CreateModelMap(a) PROVE OtherCall(a)
  BY <1>0, <1>11, StartsOther DEF CreateModelMap
<1>12. ASSUME UpdateModelMap(a) PROVE OtherCall(a)
  BY <1>0, <1>12, StartsOther DEF UpdateModelMap
<1>13. ASSUME DeleteModelMap(a) PROVE OtherCall(a)
  BY <1>0, <1>13, StartsOther DEF DeleteModelMap
<1>14. ASSUME CreateRuleAccessKey(a) PROVE OtherCall(a)
  BY <1>0, <1>14, StartsOther DEF CreateRuleAccessKey
<1>15. ASSUME CreateAccessKey(a) PROVE OtherCall(a)
  BY <1>0, <1>15, StartsOther DEF CreateAccessKey
<1>16. ASSUME UpdateAccessKey(a) PROVE OtherCall(a)
  <2> DEFINE flipped(i) == [db EXCEPT !.access[i].active = ~@]
             told(i, groups) == [db EXCEPT !.access[i].groups = groups]
             call == Call("update_access_key")
  <2>1. PICK i : \/ Start(a, call, flipped(i))
                 \/ \E groups \in MemberLists : Start(a, call, told(i, groups))
    BY <1>16 DEF UpdateAccessKey
  <2>2. call.op # "probe"
    BY DEF Call
  <2> HIDE DEF flipped, told, call
  <2> QED  BY <2>1, <2>2, StartsOther
<1>17. ASSUME RotateAccessKey(a) PROVE OtherCall(a)
  BY <1>0, <1>17, StartsOther DEF RotateAccessKey
<1>18. ASSUME DeleteAccessKey(a) PROVE OtherCall(a)
  BY <1>0, <1>18, StartsOther DEF DeleteAccessKey
<1> QED  BY <1>1, <1>2, <1>3, <1>4, <1>5, <1>6, <1>7, <1>8, <1>9,
           <1>10, <1>11, <1>12, <1>13, <1>14, <1>15, <1>16, <1>17, <1>18 DEF Handler

\* A probe starts with what it means to write.
LEMMA ProbeStarts ==
  ASSUME TokenInv, TypeInv, NEW a \in Admins, ProbeEndpoint(a)
  PROVE  /\ jobs'[a].op = "probe" /\ ProbeMeans(jobs'[a], db'.maps)
         /\ \A b \in Admins \ {a} : jobs'[b] = jobs[b]
         /\ db' = db
<1>1. PICK e \in DOMAIN db.endpoints, found \in Discoveries :
          Start(a, [op |-> "probe", endpoint |-> e, found |-> found],
                [db EXCEPT !.maps = SyncProbe(@, e, found)])
  BY DEF ProbeEndpoint
<1> DEFINE maps == SyncProbe(db.maps, e, found)
           after == [db EXCEPT !.maps = maps]
           call == [op |-> "probe", endpoint |-> e, found |-> found]
           changes == Changes(db, after)
<1>2. DOMAIN db = Tables /\ DOMAIN jobs = Admins /\ e \in Ids
  BY Rows DEF TokenInv, Issued, Sessions, Tables
<1>3. /\ DOMAIN after = Tables /\ after.maps = maps
      /\ \A t \in Tables \ {"maps"} : after[t] = db[t]
  BY <1>2 DEF Tables
<1>4. /\ jobs' = [jobs EXCEPT ![a] = [op |-> call.op, call |-> call, changes |-> changes,
                                      stale |-> {}]]
      /\ db' = db
  BY <1>1 DEF Start
<1> HIDE DEF maps, after
<1>5. \A t \in Tables : changes[t] = TableChanges(db[t], after[t])
  BY <1>2 DEF Changes
<1>6. \A t \in Tables \ {"maps"} : DOMAIN changes[t].old = {} /\ DOMAIN changes[t].new = {}
  <2> SUFFICES ASSUME NEW t \in Tables \ {"maps"}
               PROVE  DOMAIN changes[t].old = {} /\ DOMAIN changes[t].new = {}
    OBVIOUS
  <2>1. changes[t] = TableChanges(db[t], db[t])
    BY <1>3, <1>5
  <2>2. Touched(db[t], db[t]) = {}
    BY DEF Touched
  <2> HIDE DEF changes
  <2> QED  BY <2>1, <2>2 DEF TableChanges, Restrict
<1>7. changes.maps = TableChanges(db.maps, maps)
  BY <1>3, <1>5 DEF Tables
<1> HIDE DEF changes
<1>8. /\ jobs'[a].op = "probe" /\ jobs'[a].call.endpoint = e /\ jobs'[a].call.found = found
      /\ jobs'[a].changes = changes
      /\ \A b \in Admins \ {a} : jobs'[b] = jobs[b]
  BY <1>2, <1>4
<1> QED  BY <1>2, <1>4, <1>6, <1>7, <1>8 DEF ProbeMeans, maps

\* Every step keeps it.
LEMMA NextProbe == TokenInv /\ TypeInv /\ AgreeInv /\ ProbeInv /\ [Next]_vars => ProbeInv'
<1> SUFFICES ASSUME TokenInv, TypeInv, AgreeInv, ProbeInv, [Next]_vars,
                    NEW b \in Admins, jobs'[b] # Idle, jobs'[b].op = "probe",
                    "maps" \notin jobs'[b].stale
             PROVE  ProbeMeans(jobs'[b], db'.maps)
  BY DEF ProbeInv
<1>0. DOMAIN jobs = Admins
  BY DEF TokenInv, Sessions
<1>1. ASSUME db'.maps = db.maps, jobs[b] # Idle, jobs'[b].op = jobs[b].op,
             jobs'[b].changes = jobs[b].changes, jobs'[b].call = jobs[b].call,
             "maps" \notin jobs[b].stale
      PROVE  ProbeMeans(jobs'[b], db'.maps)
  <2>1. ProbeMeans(jobs[b], db.maps)
    BY <1>1 DEF ProbeInv
  <2> QED  BY <1>1, <2>1 DEF ProbeMeans
<1>2. ASSUME NEW a \in Admins, Handler(a) PROVE ProbeMeans(jobs'[b], db'.maps)
  <2>1. CASE ProbeEndpoint(a)
    <3>1. CASE b = a
      BY <2>1, <3>1, ProbeStarts DEF ProbeMeans
    <3>2. CASE b # a
      BY <1>1, <2>1, <3>2, ProbeStarts
    <3> QED  BY <3>1, <3>2
  <2>2. CASE OtherCall(a)
    <3>1. PICK call, after : Start(a, call, after) /\ call.op # "probe"
      BY <2>2 DEF OtherCall
    <3>2. /\ jobs' = [jobs EXCEPT ![a] = [op |-> call.op, call |-> call,
                                          changes |-> Changes(db, after), stale |-> {}]]
          /\ db' = db
      BY <3>1 DEF Start
    <3>3. b # a
      BY <1>0, <3>1, <3>2
    <3> QED  BY <1>0, <1>1, <3>2, <3>3
  <2> QED  BY <1>2, <2>1, <2>2, OtherOps
<1>3. ASSUME NEW a \in Admins, Commit(a) PROVE ProbeMeans(jobs'[b], db'.maps)
  <2>1. jobs'[b] = IF b = a \/ jobs[b] = Idle THEN IF b = a THEN Idle ELSE jobs[b]
                    ELSE [jobs[b] EXCEPT !.stale = @ \cup {t \in Tables : db[t] # db'[t]}]
    BY <1>3 DEF Commit
  <2>2. jobs[b] # Idle
        /\ jobs'[b] = [jobs[b] EXCEPT !.stale = @ \cup {t \in Tables : db[t] # db'[t]}]
    BY <2>1
  <2>3. DOMAIN jobs[b] = {"op", "call", "changes", "stale"}
    BY <2>2 DEF TokenInv, Sessions, Session
  <2>4. /\ jobs'[b].op = jobs[b].op /\ jobs'[b].changes = jobs[b].changes
        /\ jobs'[b].call = jobs[b].call
        /\ jobs'[b].stale = jobs[b].stale \cup {t \in Tables : db[t] # db'[t]}
    BY <2>2, <2>3
  <2>5. db'.maps = db.maps /\ "maps" \notin jobs[b].stale
    BY <2>4 DEF Tables
  <2> QED  BY <1>1, <2>2, <2>4, <2>5
<1>4. ASSUME NEW a \in Admins, Rollback(a) PROVE ProbeMeans(jobs'[b], db'.maps)
  <2>1. jobs' = [jobs EXCEPT ![a] = Idle] /\ db' = db
    BY <1>4 DEF Rollback
  <2>2. b # a /\ jobs'[b] = jobs[b]
    BY <1>0, <2>1
  <2> QED  BY <1>1, <2>1, <2>2
<1>5. ASSUME UNCHANGED vars PROVE ProbeMeans(jobs'[b], db'.maps)
  BY <1>1, <1>5 DEF vars
<1> QED  BY <1>2, <1>3, <1>4, <1>5 DEF Next, Handler

\* The maps after a commit are those meant, with the new ids.
MapsLanded(meant) ==
    /\ \A n \in DOMAIN meant : /\ Renamed("maps", n) \in DOMAIN db'.maps
                               /\ db'.maps[Renamed("maps", n)] = meant[n]
    /\ \A i \in DOMAIN db'.maps : \E n \in DOMAIN meant : i = Renamed("maps", n)
    /\ \A n, p \in DOMAIN meant : Renamed("maps", n) = Renamed("maps", p) => n = p
    /\ \A n \in DOMAIN db.maps : Renamed("maps", n) = n

\* A map is replaced as a whole, and one of an endpoint with an id keeps it.
LEMMA MapOfSame ==
  ASSUME NEW row, NEW new, MapRow(row), MapRow(new)
  PROVE  /\ MergeRow(row, row, new) = new
         /\ new.endpoint \in Ids => [new EXCEPT !.endpoint = Renamed("endpoints", @)] = new
<1>1. DOMAIN row = DOMAIN new /\ new = [c \in DOMAIN new |-> new[c]]
  BY DEF MapRow
<1>2. MergeRow(row, row, new) = [c \in DOMAIN new |-> new[c]]
  BY <1>1 DEF MergeRow
<1>3. new.endpoint \in Ids => Renamed("endpoints", new.endpoint) = new.endpoint
  BY DEF Renamed, Ids
<1>4. new.endpoint \in Ids => [new EXCEPT !.endpoint = Renamed("endpoints", @)] = new
  BY <1>3 DEF MapRow
<1> QED  BY <1>1, <1>2, <1>4

\* A probe whose maps nobody wrote in the meantime leaves what it means.
LEMMA ProbeLands ==
  ASSUME TokenInv, TypeInv, NEW a \in Admins, Commit(a), ProbeMeans(jobs[a], db.maps)
  PROVE  MapsLanded(SyncProbe(db.maps, jobs[a].call.endpoint, jobs[a].call.found))
<1> DEFINE c == jobs[a].changes
           res == Resolved(c)
           e == jobs[a].call.endpoint
           found == jobs[a].call.found
           maps == db.maps
           meant == SyncProbe(maps, e, found)
           L == LastId("maps")
<1>1. /\ DOMAIN c = Tables /\ (\A t \in Tables : DOMAIN c[t] = {"old", "new"})
      /\ Writes(jobs[a])
      /\ Merges(c, "endpoints", db'.endpoints)
  BY CommitIs
<1>2. PICK all : Merges(c, "maps", all) /\ Cascaded(all, db'.endpoints, db'.maps)
  BY CommitIs
<1>3. /\ e \in Ids /\ found \in Discoveries
      /\ DOMAIN c.endpoints.old = {} /\ DOMAIN c.endpoints.new = {}
      /\ c.maps = TableChanges(maps, meant)
  BY DEF ProbeMeans, Tables
<1>4. OwnersStillThere(c)
  BY DEF Commit
<1>5. Probed(maps, e, found, meant)
  BY <1>3, ProbeIs
<1>6. /\ DOMAIN c.maps.old \subseteq Ids /\ DOMAIN c.maps.new \subseteq Int
      /\ \A i \in DOMAIN c.maps.new : i \in DOMAIN c.maps.old \/ i < 0
      /\ \A i \in DOMAIN c.maps.new : MapRow(c.maps.new[i])
  BY <1>1 DEF Writes, Tables
<1> HIDE DEF c, meant, e, found
<1>7. Filled(c, res)
  BY <1>1, ResolvedIs
<1> HIDE DEF res
<1>8. /\ res.endpoints.old = c.endpoints.old /\ res.endpoints.new = c.endpoints.new
      /\ res.maps.old = c.maps.old /\ DOMAIN res.maps.new = DOMAIN c.maps.new
      /\ \A i \in DOMAIN c.maps.new :
            res.maps.new[i] = [c.maps.new[i] EXCEPT !.endpoint = Renamed("endpoints", @)]
  BY <1>7 DEF Filled, Tables
<1>9. \A i \in DOMAIN maps : MapRow(maps[i]) /\ maps[i].endpoint \in DOMAIN db.endpoints
  BY Rows
<1>10. DOMAIN db.endpoints \subseteq DOMAIN db'.endpoints /\ DOMAIN db.endpoints \subseteq Ids
  <2>1. Removed(res.endpoints) = {}
    BY <1>3, <1>8 DEF Removed
  <2>2. DOMAIN db.endpoints \subseteq DOMAIN db'.endpoints
    BY <1>1, <2>1 DEF Merges, MergedFrom, res
  <2> QED  BY <2>2, Rows DEF Tables
<1>11. L \in Nat /\ DOMAIN maps \subseteq 1 .. L
  BY LastIdIs DEF Tables
<1> HIDE DEF L
<1>12. /\ DOMAIN c.maps.old \subseteq DOMAIN maps
       /\ \A i \in DOMAIN c.maps.old : c.maps.old[i] = maps[i]
       /\ DOMAIN c.maps.new \subseteq DOMAIN meant
       /\ \A i \in DOMAIN c.maps.new : c.maps.new[i] = meant[i]
       /\ \A i \in DOMAIN maps \ DOMAIN meant : i \in DOMAIN c.maps.old
       /\ \A i \in DOMAIN meant \ DOMAIN maps : i \in DOMAIN c.maps.new
       /\ \A i \in DOMAIN meant \cap DOMAIN maps :
            /\ i \in DOMAIN c.maps.old <=> i \in DOMAIN c.maps.new
            /\ i \notin DOMAIN c.maps.new <=> maps[i] = meant[i]
  BY <1>3 DEF TableChanges, Touched, Restrict
<1>13. Current(maps, c.maps)
  BY <1>12 DEF Current
<1>14. /\ DOMAIN Applied(maps, c.maps) = DOMAIN meant
       /\ \A n \in DOMAIN meant : n \notin DOMAIN c.maps.new => maps[n] = meant[n]
  BY <1>12 DEF Applied, Removed
<1>15. ASSUME NEW n \in DOMAIN meant
       PROVE  /\ meant[n].endpoint \in DOMAIN db.endpoints
              /\ n \in DOMAIN maps \/ (n \in Int /\ n < 0)
  <2>1. CASE n \in DOMAIN maps
    <3>1. meant[n].endpoint = maps[n].endpoint
      BY <1>5, <2>1 DEF Probed, Mine
    <3> QED  BY <1>9, <2>1, <3>1
  <2>2. CASE n \notin DOMAIN maps
    <3>1. n \in Int /\ n < 0 /\ meant[n].endpoint = e
      BY <1>5, <2>2 DEF Probed, Mine
    <3>2. n \in DOMAIN c.maps.new /\ n \notin DOMAIN c.maps.old
      BY <1>12, <2>2
    <3>3. c.maps.new[n].endpoint = e
      BY <1>12, <3>1, <3>2
    <3>4. e < 0 \/ e \in DOMAIN db.endpoints
      BY <1>4, <3>2, <3>3 DEF OwnersStillThere
    <3> QED  BY <1>3, <3>1, <3>4 DEF Ids
  <2> QED  BY <2>1, <2>2
<1>16. \A n \in DOMAIN c.maps.new : res.maps.new[n] = meant[n]
  <2> SUFFICES ASSUME NEW n \in DOMAIN c.maps.new PROVE res.maps.new[n] = meant[n]
    OBVIOUS
  <2> DEFINE row == meant[n]
  <2>1. n \in DOMAIN meant /\ c.maps.new[n] = row /\ MapRow(row) /\ row.endpoint \in Ids
    BY <1>6, <1>10, <1>12, <1>15
  <2>2. res.maps.new[n] = [row EXCEPT !.endpoint = Renamed("endpoints", @)]
    BY <1>8, <2>1
  <2> HIDE DEF row
  <2>3. [row EXCEPT !.endpoint = Renamed("endpoints", @)] = row
    BY <2>1, MapOfSame
  <2> QED  BY <2>2, <2>3 DEF row
<1>17. \A i \in DOMAIN maps \cap DOMAIN c.maps.new :
            MergeRow(maps[i], maps[i], res.maps.new[i]) = res.maps.new[i]
  <2> SUFFICES ASSUME NEW i \in DOMAIN maps \cap DOMAIN c.maps.new
               PROVE  MergeRow(maps[i], maps[i], res.maps.new[i]) = res.maps.new[i]
    OBVIOUS
  <2>1. MapRow(maps[i]) /\ MapRow(res.maps.new[i])
    BY <1>6, <1>9, <1>12, <1>16
  <2> QED  BY <2>1, MapOfSame
<1>18. Lands(maps, c.maps, res.maps, L, all)
  <2>1. MergedFrom(maps, res.maps, L, all)
    BY <1>2 DEF Merges, res, L
  <2> HIDE DEF maps
  <2> QED  BY <1>6, <1>8, <1>11, <1>13, <1>17, <2>1, TableLands
<1>19. \A n : Renamed("maps", n) = IF n < 0 THEN L - n ELSE n
  BY DEF Renamed, L
<1>20. ASSUME NEW n \in DOMAIN meant
       PROVE  LET i == Renamed("maps", n) IN i \in DOMAIN all /\ all[i] = meant[n]
  BY <1>14, <1>16, <1>18, <1>19 DEF Lands
<1>21. ASSUME NEW i \in DOMAIN all PROVE \E n \in DOMAIN meant : i = Renamed("maps", n)
  BY <1>14, <1>18, <1>19 DEF Lands
<1>22. DOMAIN db'.maps = DOMAIN all /\ \A i \in DOMAIN all : db'.maps[i] = all[i]
  <2>1. ASSUME NEW i \in DOMAIN all PROVE all[i].endpoint \in DOMAIN db'.endpoints
    BY <1>10, <1>15, <1>20, <1>21
  <2> QED  BY <1>2, <2>1 DEF Cascaded
<1>23. \A n \in DOMAIN maps : n \in Int /\ 1 <= n /\ n <= L /\ Renamed("maps", n) = n
  BY <1>11, <1>19
<1>24. \A n \in DOMAIN meant : n \notin DOMAIN maps =>
            n \in Int /\ n < 0 /\ Renamed("maps", n) = L - n
  BY <1>15, <1>19
<1>25. ASSUME NEW n \in DOMAIN meant, NEW p \in DOMAIN meant,
              Renamed("maps", n) = Renamed("maps", p)
       PROVE  n = p
  BY <1>11, <1>23, <1>24, <1>25
<1>26. MapsLanded(meant)
  BY <1>20, <1>21, <1>22, <1>23, <1>25 DEF MapsLanded
<1> QED  BY <1>26 DEF meant, e, found

\* The maps of an endpoint that are managed, or are not.
MapsOf(b, e, managed) ==
    {i \in DOMAIN b.maps : b.maps[i].endpoint = e /\ b.maps[i].managed = managed}

\* What ProbeKeepsManual asks of a step that commits a probe of e.
KeptManual(e, found) ==
    LET Reals(ids) == {db'.maps[i].real : i \in ids} IN
    /\ Restrict(db.maps, MapsOf(db, e, FALSE)) = Restrict(db'.maps, MapsOf(db', e, FALSE))
    /\ Reals(MapsOf(db', e, TRUE)) = found \ Reals(MapsOf(db', e, FALSE))
    /\ Cardinality(MapsOf(db', e, TRUE)) = Cardinality(Reals(MapsOf(db', e, TRUE)))

\* A set has as many elements as there are values of a function that tells
\* them apart.
LEMMA SameSize ==
  ASSUME NEW S, IsFiniteSet(S), NEW f, DOMAIN f = S, IsInjective(f)
  PROVE  Cardinality(S) = Cardinality({f[x] : x \in S})
<1> DEFINE T == {f[x] : x \in S}
           g == [x \in S |-> f[x]]
<1>1. g \in [S -> T] /\ \A t \in T : \E x \in S : g[x] = t
  OBVIOUS
<1>2. IsInjective(g)
  BY DEF IsInjective
<1>3. g \in Bijection(S, T)
  BY <1>1, <1>2 DEF Bijection, Injection, Surjection
<1> HIDE DEF g, T
<1>4. Cardinality(T) = Cardinality(S)
  BY <1>3, FS_Bijection DEF ExistsBijection
<1> QED  BY <1>4 DEF T

\* What a probe means to leave is what the property asks for.
LEMMA ProbeKeeps ==
  ASSUME TokenInv, TypeInv, TypeInv', NEW e, NEW found \in Discoveries,
         MapsLanded(SyncProbe(db.maps, e, found)), \A i \in DOMAIN db'.maps : MapRow(db'.maps[i])
  PROVE  KeptManual(e, found)
<1> DEFINE maps == db.maps
           meant == SyncProbe(maps, e, found)
           kept == MapsOf(db, e, FALSE)
           manual == MapsOf(db', e, FALSE)
           auto == MapsOf(db', e, TRUE)
           Id(n) == Renamed("maps", n)
<1>1. Probed(maps, e, found, meant)
  BY ProbeIs
<1>2. /\ \A n \in DOMAIN meant : Id(n) \in DOMAIN db'.maps /\ db'.maps[Id(n)] = meant[n]
      /\ \A i \in DOMAIN db'.maps : \E n \in DOMAIN meant : i = Id(n)
      /\ \A n, p \in DOMAIN meant : Id(n) = Id(p) => n = p
      /\ \A n \in DOMAIN maps : Id(n) = n
  BY DEF MapsLanded
<1>3. \A i \in DOMAIN maps : MapRow(maps[i])
  BY Rows
<1>4. /\ \A i : i \in kept <=> i \in DOMAIN maps /\ maps[i].endpoint = e /\ ~maps[i].managed
      /\ \A i : i \in manual <=> /\ i \in DOMAIN db'.maps
                                 /\ db'.maps[i].endpoint = e /\ ~db'.maps[i].managed
      /\ \A i : i \in auto <=> i \in DOMAIN db'.maps /\ Mine(db'.maps[i], e)
  BY <1>3 DEF MapsOf, Mine, MapRow
<1>5. IsFiniteSet(DOMAIN db'.maps)
  BY DEF TypeInv, Tables
<1> HIDE DEF maps, meant, Id, kept, manual, auto
<1>6. ASSUME NEW i \in kept PROVE i \in manual /\ db'.maps[i] = maps[i]
  <2>1. i \in DOMAIN maps /\ ~Mine(maps[i], e)
    BY <1>4 DEF Mine
  <2>2. i \in DOMAIN meant /\ meant[i] = maps[i]
    BY <1>1, <2>1 DEF Probed
  <2>3. i \in DOMAIN db'.maps /\ db'.maps[i] = maps[i]
    BY <1>2, <2>1, <2>2
  <2> QED  BY <1>4, <2>3
<1>7. ASSUME NEW i \in manual PROVE i \in kept
  <2>1. PICK n \in DOMAIN meant : i = Id(n)
    BY <1>2, <1>4
  <2>2. meant[n].endpoint = e /\ ~meant[n].managed
    BY <1>2, <1>4, <2>1
  <2>3. n \in DOMAIN maps /\ meant[n] = maps[n]
    BY <1>1, <2>2 DEF Probed, Mine
  <2> QED  BY <1>2, <1>4, <2>1, <2>2, <2>3
<1>8. kept = manual /\ Restrict(maps, kept) = Restrict(db'.maps, manual)
  <2>1. kept = manual
    BY <1>6, <1>7
  <2> QED  BY <1>6, <2>1 DEF Restrict
<1>9. {db'.maps[i].real : i \in manual} = Manual(maps, e)
  <2>1. Manual(maps, e) = {maps[i].real : i \in kept}
    BY <1>4 DEF Manual
  <2> QED  BY <1>6, <1>8, <2>1
<1>10. {db'.maps[i].real : i \in auto} = found \ Manual(maps, e)
  <2>1. ASSUME NEW i \in auto PROVE db'.maps[i].real \in found \ Manual(maps, e)
    <3>1. PICK n \in DOMAIN meant : i = Id(n)
      BY <1>2, <1>4
    <3>2. Mine(meant[n], e) /\ meant[n] = db'.maps[i]
      BY <1>2, <1>4, <3>1
    <3> QED  BY <1>1, <3>2 DEF Probed
  <2>2. ASSUME NEW m \in found \ Manual(maps, e) PROVE \E i \in auto : db'.maps[i].real = m
    <3>1. PICK n \in DOMAIN meant : Mine(meant[n], e) /\ meant[n].real = m
      BY <1>1 DEF Probed
    <3>2. Id(n) \in auto /\ db'.maps[Id(n)].real = m
      BY <1>2, <1>4, <3>1
    <3> QED  BY <3>2
  <2> QED  BY <2>1, <2>2
<1>11. ASSUME NEW i \in auto, NEW j \in auto, db'.maps[i].real = db'.maps[j].real PROVE i = j
  <2>1. PICK n \in DOMAIN meant : i = Id(n)
    BY <1>2, <1>4
  <2>2. PICK p \in DOMAIN meant : j = Id(p)
    BY <1>2, <1>4
  <2>3. meant[n] = db'.maps[i] /\ meant[p] = db'.maps[j]
    BY <1>2, <2>1, <2>2
  <2>4. n = p
    BY <1>1, <1>4, <1>11, <2>3 DEF Probed
  <2> QED  BY <2>1, <2>2, <2>4
<1>12. Cardinality(auto) = Cardinality({db'.maps[i].real : i \in auto})
  <2> DEFINE f == [i \in auto |-> db'.maps[i].real]
  <2>1. auto \subseteq DOMAIN db'.maps
    BY <1>4
  <2>2. IsFiniteSet(auto)
    BY <1>5, <2>1, FS_Subset
  <2>3. DOMAIN f = auto /\ IsInjective(f)
    BY <1>11 DEF IsInjective
  <2>4. {f[i] : i \in auto} = {db'.maps[i].real : i \in auto}
    OBVIOUS
  <2> HIDE DEF f
  <2>5. Cardinality(auto) = Cardinality({f[i] : i \in auto})
    BY <2>2, <2>3, SameSize
  <2> QED  BY <2>4, <2>5
<1> QED  BY <1>8, <1>9, <1>10, <1>12 DEF KeptManual, maps, kept, manual, auto

\* ProbeKeepsManual: a probe whose rows are fresh leaves the maps edited by
\* hand as they are and one managed map for each other model it found,
\* however many maps and models there are and whatever ids rows get.
THEOREM ManualMapsKept == Spec => ProbeKeepsManual
<1> DEFINE Kept == \A a \in Admins : ProbeCommits(a) /\ "maps" \notin jobs[a].stale
                        => KeptManual(jobs[a].call.endpoint, jobs[a].call.found)
<1>1. Init => ProbeInv
  BY DEF Init, ProbeInv
<1>2. Invariant /\ ProbeInv /\ [Next]_vars => ProbeInv'
  BY NextProbe DEF Invariant
<1>3. ASSUME Invariant, Invariant', ProbeInv, [Next]_vars PROVE [Kept]_vars
  <2>1. TokenInv /\ TypeInv /\ AgreeInv /\ TypeInv' /\ TokenInv'
    BY <1>3 DEF Invariant
  <2> SUFFICES ASSUME NEW a \in Admins, ProbeCommits(a), "maps" \notin jobs[a].stale
               PROVE  KeptManual(jobs[a].call.endpoint, jobs[a].call.found)
    OBVIOUS
  <2>2. jobs[a].op = "probe" /\ jobs[a] # Idle /\ jobs'[a] = Idle /\ db' # db
    BY DEF ProbeCommits
  <2>3. Commit(a)
    <3>1. ASSUME NEW b \in Admins, Handler(b) PROVE FALSE
      <4>1. \E call, after : Start(b, call, after)
        BY <2>1, <3>1, AllFine DEF Fine
      <4> QED  BY <2>2, <4>1 DEF Start
    <3>2. ASSUME NEW b \in Admins, Rollback(b) PROVE FALSE
      BY <2>2, <3>2 DEF Rollback
    <3>3. ASSUME NEW b \in Admins, Commit(b), b # a PROVE FALSE
      <4>1. jobs'[a] = [jobs[a] EXCEPT !.stale = @ \cup {t \in Tables : db[t] # db'[t]}]
        BY <2>2, <3>3 DEF Commit
      <4>2. DOMAIN jobs[a] = {"op", "call", "changes", "stale"}
        BY <2>1, <2>2 DEF TokenInv, Sessions, Session
      <4>3. jobs'[a].op = "probe"
        BY <2>2, <4>1, <4>2
      <4> QED  BY <2>2, <4>3 DEF Idle
    <3>4. ~UNCHANGED vars
      BY <2>2 DEF vars
    <3> QED  BY <1>3, <3>1, <3>2, <3>3, <3>4 DEF Next, Handler
  <2>4. ProbeMeans(jobs[a], db.maps)
    BY <1>3, <2>2 DEF ProbeInv
  <2>5. MapsLanded(SyncProbe(db.maps, jobs[a].call.endpoint, jobs[a].call.found))
    BY <2>1, <2>3, <2>4, ProbeLands
  <2>6. \A i \in DOMAIN db'.maps : MapRow(db'.maps[i])
    BY <2>1, <2>3, CommitRows DEF Committed
  <2>7. jobs[a].call.found \in Discoveries
    BY <2>4 DEF ProbeMeans
  <2> QED  BY <2>1, <2>5, <2>6, <2>7, ProbeKeeps
<1>4. Kept <=> \A a \in Admins : ProbeCommits(a) /\ "maps" \notin jobs[a].stale =>
            LET e == jobs[a].call.endpoint
                Of(b, managed) == {i \in DOMAIN b.maps :
                    b.maps[i].endpoint = e /\ b.maps[i].managed = managed}
                Reals(ids) == {db'.maps[i].real : i \in ids}
            IN  /\ Restrict(db.maps, Of(db, FALSE)) = Restrict(db'.maps, Of(db', FALSE))
                /\ Reals(Of(db', TRUE)) = jobs[a].call.found \ Reals(Of(db', FALSE))
                /\ Cardinality(Of(db', TRUE)) = Cardinality(Reals(Of(db', TRUE)))
  BY DEF KeptManual, MapsOf
<1> HIDE DEF Kept
<1> QED  BY <1>1, <1>2, <1>3, <1>4, InvariantAlways, PTL DEF Spec, ProbeKeepsManual
=============================================================================
