----------------------------- MODULE RuleEngine -----------------------------
(***************************************************************************)
(* The rule expressions of a group (internal/rules) and the policy that    *)
(* turns check states and rules into "this address belongs in the record"  *)
(* (internal/daemon/monitor.go).  Pure operators, no state.                *)
(*                                                                         *)
(* An expression is a record [type, check], [type, children] or            *)
(* [type, child], as UnmarshalJSON builds it.  states is the statesMap: a  *)
(* function on the pairs <<ip id, check id>> that have a row.              *)
(***************************************************************************)
EXTENDS Integers, Sequences

CONSTANT Exprs (* the expressions that rules are made of                   *)

CheckFailed(c)       == [type |-> "CheckFailed", check |-> c]
CheckHealthy(c)      == [type |-> "CheckHealthy", check |-> c]
GlobalCheckFailed(c) == [type |-> "GlobalCheckFailed", check |-> c]
And(es)              == [type |-> "And", children |-> es]
Or(es)               == [type |-> "Or", children |-> es]
Not(e)               == [type |-> "Not", child |-> e]

Has(states, i, c, status) ==
  <<i, c>> \in DOMAIN states /\ states[<<i, c>>].status = status

(* The parts of an expression are expressions.                             *)
ASSUME ExprAssumption ==
  \A e \in Exprs :
    /\ e.type \in {"And", "Or"} => \A k \in DOMAIN e.children : e.children[k] \in Exprs
    /\ e.type = "Not" => e.child \in Exprs

(* An And or an Or of nothing is false; so GlobalCheckFailed, which looks  *)
(* at every address of the group, the disabled ones too.                   *)
Evaluate(expr, i, ids, states) ==
  LET value[e \in Exprs] ==
        CASE e.type = "CheckFailed"  -> Has(states, i, e.check, "DOWN")
          [] e.type = "CheckHealthy" -> Has(states, i, e.check, "UP")
          [] e.type = "GlobalCheckFailed" ->
               ids # {} /\ \A j \in ids : Has(states, j, e.check, "DOWN")
          [] e.type = "And" -> e.children # <<>> /\ \A k \in DOMAIN e.children : value[e.children[k]]
          [] e.type = "Or"  -> \E k \in DOMAIN e.children : value[e.children[k]]
          [] e.type = "Not" -> ~value[e.child]
  IN value[expr]

HasDown(i, states) ==
  \E p \in DOMAIN states : p[1] = i /\ states[p].status = "DOWN"

AllUp(i, states) ==
  LET own == {p \in DOMAIN states : p[1] = i}
  IN own # {} /\ \A p \in own : states[p].status = "UP"

HasStates(i, states) == \E p \in DOMAIN states : p[1] = i

(* Without rules; when the states decide nothing the address stays as the  *)
(* row says it is.                                                         *)
DefaultPolicy(i, dnsAdded, states) ==
  ~HasDown(i, states) /\ (AllUp(i, states) \/ dnsAdded)

(* With rules: a matching removal wins over a matching addition; with      *)
(* rules of one kind only, the states decide the other direction.          *)
RulesPolicy(i, dnsAdded, ids, states, rules) ==
  LET Of(action) == {r \in rules : r.action = action}
      Matched(action) == \E r \in Of(action) : Evaluate(r.expr, i, ids, states)
      OnlyRemovals == Of("AddToDns") = {}
      OnlyAdditions == Of("RemoveFromDns") = {}
  IN /\ ~Matched("RemoveFromDns")
     /\ \/ Matched("AddToDns")
        \/ OnlyRemovals /\ AllUp(i, states)
        \/ dnsAdded /\ ~(OnlyAdditions /\ HasDown(i, states))

(* shouldBeAdded of the monitor's loop, for one row of its snapshot.       *)
ShouldBeAdded(i, row, ids, states, rules) ==
  /\ row.enabled
  /\ IF rules = {} THEN DefaultPolicy(i, row.dnsAdded, states)
     ELSE RulesPolicy(i, row.dnsAdded, ids, states, rules)
=============================================================================
