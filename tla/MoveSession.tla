---------------------------- MODULE MoveSession ----------------------------
(***************************************************************************)
(* How a Move session's effects become a write set (aptos-vm,              *)
(* move_vm_ext/session.rs): SessionExt::finish splits the resources of the *)
(* change set into plain resources and members of resource groups          *)
(* (split_and_merge_resource_groups), merges each group's member ops into  *)
(* the group's stored data, and convert_change_set turns the Move ops into *)
(* WriteOps keyed by state key.  One account address: the loops over       *)
(* addresses treat each address on its own.  Table items and aggregator    *)
(* changes become WriteOps on table-item keys, aggregator merges deltas;   *)
(* modules and events are converted one to one and are left out, as are   *)
(* the remote's I/O and decoding errors.  A group's data is a              *)
(* function from member tags to values; a change set is a function from   *)
(* the tags it touches to a Move op.                                       *)
(***************************************************************************)
EXTENDS Naturals, FiniteSets
LOCAL INSTANCE FiniteSetsExt
LOCAL INSTANCE Functions
LOCAL INSTANCE TLC

CONSTANTS
    Tags,      \* struct tags of resources
    Groups,    \* struct tags of resource groups
    GroupOf,   \* remote.get_resource_group: [Tags -> Groups \cup {NoGroup}]
    Vals,      \* resource blobs
    NoGroup,
    Absent     \* no value stored under a key

(* MoveStorageOp: Delete, Modify(data), New(data).                          *)
DeleteOp == [kind |-> "Delete", v |-> Absent]
ModifyOp(v) == [kind |-> "Modify", v |-> v]
NewOp(v) == [kind |-> "New", v |-> v]

EmptyData == [t \in {} |-> Absent]

(* The common_error of split_and_merge_resource_groups.                    *)
Failed == [ok |-> FALSE, data |-> EmptyData]

(* One member op applied to the group's data (the match on current_op).    *)
ApplyMemberOp(acc, t, op) ==
    IF ~acc.ok THEN acc
    ELSE CASE op.kind = "Delete" ->
                IF t \in DOMAIN acc.data
                  THEN [ok |-> TRUE, data |-> Restrict(acc.data, DOMAIN acc.data \ {t})]
                  ELSE Failed
           [] op.kind = "Modify" ->
                IF t \in DOMAIN acc.data THEN [acc EXCEPT !.data[t] = op.v] ELSE Failed
           [] op.kind = "New" ->
                IF t \in DOMAIN acc.data THEN Failed
                ELSE [ok |-> TRUE, data |-> (t :> op.v) @@ acc.data]

(* A group op that ignores whether the group existed.                      *)
GroupOpAlwaysModify(data, create) ==
    IF DOMAIN data = {} THEN DeleteOp ELSE ModifyOp(data)

(* The group's op: Delete when no member is left, New when the group was   *)
(* not stored, Modify otherwise.                                            *)
GroupOp(data, create) ==
    IF DOMAIN data = {} THEN DeleteOp
    ELSE IF create THEN NewOp(data) ELSE ModifyOp(data)

(* The ops of group g's members, applied to its stored data (or to a new  *)
(* empty container), in any order: the ops are on distinct tags.          *)
MergeGroup(stored, cs, g) ==
    LET create == stored = Absent
        r == FoldSet(LAMBDA t, acc : ApplyMemberOp(acc, t, cs[t]),
                     [ok |-> TRUE, data |-> IF create THEN EmptyData ELSE stored],
                     {t \in DOMAIN cs : GroupOf[t] = g})
    IN [ok |-> r.ok, op |-> GroupOp(r.data, create)]

(* split_and_merge_resource_groups: groupData[g] is the group's stored     *)
(* data or Absent (get_resource_group_data).                               *)
SplitAndMerge(groupData, cs) ==
    LET touched == {GroupOf[t] : t \in DOMAIN cs} \ {NoGroup}
        merged == [g \in touched |-> MergeGroup(groupData[g], cs, g)]
    IN [ok |-> \A g \in touched : merged[g].ok,
        filtered |-> Restrict(cs, {t \in DOMAIN cs : GroupOf[t] = NoGroup}),
        groups |-> [g \in touched |-> merged[g].op]]

(* convert_write_op.                                                        *)
ConvertWriteOp(op, creationAsModification) ==
    CASE op.kind = "Delete" -> [kind |-> "Deletion", v |-> Absent]
      [] op.kind = "New"    -> [kind |-> IF creationAsModification THEN "Modification"
                                          ELSE "Creation", v |-> op.v]
      [] op.kind = "Modify" -> [kind |-> "Modification", v |-> op.v]

(* The state keys: a resource's access path, a group's, and a table item's *)
(* (StateKey::table_item, also the key of an aggregator).                   *)
ResKey(t) == <<"res", t>>
GroupKey(g) == <<"grp", g>>
TableItemKey(k) == <<"tbl", k>>

(* An AggregatorChange other than Merge: Write(value) is always written as *)
(* a Modification, Delete as a Deletion.                                    *)
AggregatorWriteOp(ch) ==
    IF ch.kind = "Write" THEN [kind |-> "Modification", v |-> ch.v]
    ELSE [kind |-> "Deletion", v |-> Absent]

(* The aggregators whose change is a Merge go to the delta change set.     *)
AggregatorDeltas(aggs) == [k \in {a \in DOMAIN aggs : aggs[a].kind = "Merge"} |-> aggs[k].v]

(* convert_change_set: the write set of the resources, the resource       *)
(* groups, the table items and the aggregators written or deleted, and the *)
(* delta change set.  legacy is legacy_resource_creation_as_modification,  *)
(* which only plain resources follow.  Table handles and aggregator ids    *)
(* name distinct items.                                                     *)
ConvertChangeSet(filtered, groups, tables, aggs, legacy) ==
    LET written == {a \in DOMAIN aggs : aggs[a].kind # "Merge"}
    IN [ws |->
          [k \in {ResKey(t) : t \in DOMAIN filtered} \cup {GroupKey(g) : g \in DOMAIN groups}
                  \cup {TableItemKey(i) : i \in DOMAIN tables \cup written} |->
              CASE k[1] = "res" -> ConvertWriteOp(filtered[k[2]], legacy)
                [] k[1] = "grp" -> ConvertWriteOp(groups[k[2]], FALSE)
                [] k[2] \in DOMAIN tables -> ConvertWriteOp(tables[k[2]], FALSE)
                [] OTHER -> AggregatorWriteOp(aggs[k[2]])],
        deltas |-> AggregatorDeltas(aggs)]

(* SessionExt::finish: the write set, or the invariant-violation error.    *)
Finish(groupData, cs, tables, aggs, legacy) ==
    LET s == SplitAndMerge(groupData, cs)
        c == ConvertChangeSet(s.filtered, s.groups, tables, aggs, legacy)
    IN IF s.ok THEN [ok |-> TRUE, ws |-> c.ws, deltas |-> c.deltas]
       ELSE [ok |-> FALSE, ws |-> EmptyData, deltas |-> EmptyData]

=============================================================================
