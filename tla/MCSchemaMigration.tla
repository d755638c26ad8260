------------------------ MODULE MCSchemaMigration ------------------------
(* Instances of SchemaMigration for TLC: one entity type, two field names, *)
(* one idempotency key, and one set of requests for each question.         *)
EXTENDS SchemaMigration, TLC

CONSTANTS c1, c2, c3, fieldA, fieldB, h1, contacts, k

CallsSymmetry == Permutations(Calls)

OneEntity == [x \in Fields |-> contacts]
OneHost == [c \in Calls |-> h1]
Add(x)       == [type |-> "add", field |-> x, to |-> x]
Delete(x)    == [type |-> "delete", field |-> x, to |-> x]
Rename(x, y) == [type |-> "rename", field |-> x, to |-> y]
Update(x)    == [type |-> "update", field |-> x, to |-> x]

ApplyOf(ops, keys, confirmations) ==
  [kind: {"apply"}, op: ops, key: keys, confirmed: confirmations]
RollbackAny(confirmations) ==
  [kind: {"rollback"}, of: Calls, confirmed: confirmations]
AddFieldOf(names) == [kind: {"addField"}, field: names]

(* Every kind of request, an operation with no executor, and a delete      *)
(* nobody confirmed.                                                       *)
MixedRequests ==
  ApplyOf({Add(fieldA), Delete(fieldA), Rename(fieldA, fieldB)}, {NoKey, k}, {TRUE})
    \cup ApplyOf({Update(fieldA), Delete(fieldA)}, {NoKey}, {FALSE})
    \cup RollbackAny({TRUE}) \cup AddFieldOf({fieldA})

(* Adds and removals of one name, with and without a key.                  *)
OneNameRequests ==
  ApplyOf({Add(fieldA), Delete(fieldA)}, {NoKey, k}, {TRUE}) \cup RollbackAny({TRUE})

(* Adds and their rollbacks, without keys.                                 *)
AddRequests == ApplyOf({Add(fieldA)}, {NoKey}, {TRUE}) \cup RollbackAny({TRUE})

(* TLC evaluates a constant's substitute anew at each use, a definition    *)
(* once: the substitutes are names for definitions.                        *)
Owning == OneEntity
Hosted == OneHost
Mixed == MixedRequests
OneName == OneNameRequests
Adding == AddRequests
==========================================================================
