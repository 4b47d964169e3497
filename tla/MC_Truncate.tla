---------------------------- MODULE MC_Truncate ----------------------------
(***************************************************************************)
(* The truncate tool for TLC, and the write sets that catch_up replays:    *)
(* every write set of the ledger is the one SessionExt::finish produced,   *)
(* checked here against what the session's change set means.  Two tags r1 *)
(* and r2 are members of the resource group g1, r3 is a plain resource;  *)
(* i1 is a table item and a1 an aggregator.                               *)
(***************************************************************************)
EXTENDS Truncate, TLC

CONSTANTS r1, r2, r3, g1, i1, a1, NoGroup, Absent

MCTags == {r1, r2, r3}
MCGroupOf == (r1 :> g1) @@ (r2 :> g1) @@ (r3 :> NoGroup)
MCVals == {1, 2}

S == INSTANCE MoveSession WITH Tags <- MCTags, Groups <- {g1}, GroupOf <- MCGroupOf,
                               Vals <- MCVals, NoGroup <- NoGroup, Absent <- Absent

Plain == {t \in MCTags : MCGroupOf[t] = NoGroup}
Keys == {S!ResKey(t) : t \in Plain} \cup {S!GroupKey(g1)}

(* What storage holds: a value or Absent per plain resource, and per group *)
(* a non-empty map of its members or Absent (finish never stores an empty  *)
(* group).                                                                  *)
GroupDatas(g) ==
    {Absent} \cup UNION {[D -> MCVals] : D \in SUBSET {t \in MCTags : MCGroupOf[t] = g} \ {{}}}
Stores ==
    {[k \in Keys |-> IF k[1] = "res" THEN pv[k[2]] ELSE gd[k[2]]] :
        pv \in [Plain -> MCVals \cup {Absent}], gd \in [{g1} -> GroupDatas(g1)]}

(* Each resource as the session sees it: plain ones by their key, members  *)
(* inside their group's data.                                               *)
View(st) ==
    [t \in MCTags |->
        IF MCGroupOf[t] = NoGroup THEN st[S!ResKey(t)]
        ELSE LET d == st[S!GroupKey(MCGroupOf[t])]
             IN IF d # Absent /\ t \in DOMAIN d THEN d[t] ELSE Absent]

MoveOps == {S!DeleteOp} \cup {S!ModifyOp(v) : v \in MCVals} \cup {S!NewOp(v) : v \in MCVals}

(* An op matches what is stored: New of an absent resource, Modify or      *)
(* Delete of a present one.                                                 *)
OpMatches(st, t, op) == (op.kind = "New") = (View(st)[t] = Absent)

(* The VM's change sets: plain resources follow what is stored; the ops on *)
(* group members may be any, so that the invariant-violation path is taken. *)
ChangeSets(st) ==
    {cs \in UNION {[D -> MoveOps] : D \in SUBSET MCTags} :
        \A t \in DOMAIN cs \cap Plain : OpMatches(st, t, cs[t])}

(* The storage after a write set.                                           *)
ApplyWriteSet(st, ws) ==
    [k \in Keys |-> IF k \notin DOMAIN ws THEN st[k]
                    ELSE IF ws[k].kind = "Deletion" THEN Absent ELSE ws[k].v]

(* The change set applied to the resources directly.                        *)
ApplyChangeSet(view, cs) ==
    [t \in MCTags |-> IF t \notin DOMAIN cs THEN view[t]
                      ELSE IF cs[t].kind = "Delete" THEN Absent ELSE cs[t].v]

(* SessionExt::finish is correct for every store and change set: it fails *)
(* exactly when a group member's op does not match what the group holds;   *)
(* otherwise its write set, stored, gives every resource the value the     *)
(* change set gave it, and each WriteOp on a group, and on a plain         *)
(* resource unless creation is written as modification, is a Creation     *)
(* exactly when its key held nothing.  The group's op depends on both      *)
(* whether it was read as absent and whether members remain.               *)
SessionFinishCorrect ==
    \A st \in Stores, legacy \in BOOLEAN :
        \A cs \in ChangeSets(st) :
            LET r == S!Finish([g \in {g1} |-> st[S!GroupKey(g)]], cs, S!EmptyData, S!EmptyData, legacy)
            IN /\ r.ok = \A t \in DOMAIN cs : OpMatches(st, t, cs[t])
               /\ r.ok =>
                    /\ View(ApplyWriteSet(st, r.ws)) = ApplyChangeSet(View(st), cs)
                    /\ \A k \in DOMAIN r.ws :
                          (k[1] = "grp" \/ ~legacy) =>
                             ((r.ws[k].kind = "Creation") = (st[k] = Absent))

(* A table item i1 and an aggregator a1, on the table-item keys: the      *)
(* table's op matches what the item holds (the table natives abort on an  *)
(* add of a present key or a change of an absent one); the aggregator's    *)
(* change is any Write, Merge or Delete.                                   *)
AggChanges ==
    {[kind |-> "Write", v |-> v] : v \in MCVals} \cup {[kind |-> "Merge", v |-> d] : d \in MCVals}
        \cup {[kind |-> "Delete", v |-> Absent]}
TableSets(tv) ==
    {S!EmptyData} \cup {(i1 :> op) : op \in {o \in MoveOps : (o.kind = "New") = (tv = Absent)}}
AggSets == {S!EmptyData} \cup {(a1 :> ch) : ch \in AggChanges}

(* The table item and the aggregator after finish's write set, with a     *)
(* Merge left to the delta change set: the table item holds what its op    *)
(* gave it, as a Creation exactly when it was absent, whatever the legacy *)
(* flag; a written aggregator holds its value, a deleted one nothing, and  *)
(* a merged one keeps its value in the write set and has its delta.        *)
TableItemsCorrect ==
    \A tv \in MCVals \cup {Absent}, legacy \in BOOLEAN :
      \A tables \in TableSets(tv), aggs \in AggSets :
        LET r == S!Finish([g \in {g1} |-> Absent], S!EmptyData, tables, aggs, legacy)
            merged == {a \in DOMAIN aggs : aggs[a].kind = "Merge"}
        IN /\ r.ok
           /\ DOMAIN r.ws = {S!TableItemKey(k) : k \in DOMAIN tables \cup (DOMAIN aggs \ merged)}
           /\ \A k \in DOMAIN tables :
                 /\ r.ws[S!TableItemKey(k)].v = tables[k].v
                 /\ (r.ws[S!TableItemKey(k)].kind = "Creation") = (tv = Absent)
           /\ \A a \in DOMAIN aggs \ merged : r.ws[S!TableItemKey(a)].v = aggs[a].v
           /\ r.deltas = [a \in merged |-> aggs[a].v]

(* Checked on the catch-up step, which replays the ledger's write sets.    *)
WriteSetsFromSessions == [][CatchUp => SessionFinishCorrect /\ TableItemsCorrect]_vars

=============================================================================
