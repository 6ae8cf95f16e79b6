------------------------------- MODULE MCSdk -------------------------------
(***************************************************************************)
(* The parts of the SDK below the FSM, each a behaviour of its own: the    *)
(* store, the actions and events, and the compiler with the walk over its  *)
(* output.  Which one moves is chosen at the beginning; of the others      *)
(* nothing fair is enabled in their initial states.                        *)
(***************************************************************************)
EXTENDS MissionStore, MissionActions, MissionCompiler

VARIABLE part

(* A datum with a string, one with such a datum, one with that again, one with a number; an
   action with the second. *)
Types == {"Tag", "Node", "Path", "Num", "Act", "Evt"}
FieldTable ==
    [t \in Types |-> CASE t = "Tag" -> Str [] t = "Node" -> "Tag" [] t \in {"Path", "Act"} -> "Node"
                       [] OTHER -> Plain]

Simple == {Absent} \cup {Ref(n) : n \in {"x", "y", "z"}}
Values == Simple \cup {Inline(t, v) : t \in {"Tag", "Node", "Act"}, v \in Simple}
Decls(ids, types, values) == [id : ids, type : types, value : values]
AnEvent == [id |-> "e", type |-> "Evt", value |-> Absent]
AnAction == [id |-> "a", type |-> "Act", value |-> Inline("Node", Absent)]

(* Two data that may name each other, one perhaps of an action's type, and an action that names
   one, or is none; ... *)
DataPrograms ==
    [data : BoundedSeq(Decls({"x", "y"}, {"Tag", "Node", "Path", "Num", "Act"}, Values), 2),
     actions : {<<d>> : d \in Decls({"a"}, {"Act"}, {Absent, Ref("x"), Inline("Node", Ref("x"))})
                                 \cup Decls({"a"}, {"Node"}, {Absent})},
     events : {<<AnEvent>>}, rules : {<<>>}, start : {"a"}]
(* ... two actions, an event and rules for them, some of undeclared ones. *)
Rules == [action : {"a", "b"}, event : {"e", "done", "f"}, next : {"a", "b", "terminate"}]
RulePrograms ==
    [data : {<<>>}, actions : {<<AnAction>>, <<AnAction, [AnAction EXCEPT !.id = "b"]>>},
     events : {<<AnEvent>>, <<>>}, rules : BoundedSeq(Rules, 3), start : {"a", "b"}]
Programs == DataPrograms \cup RulePrograms
SomeProgram == [data |-> <<>>, actions |-> <<AnAction>>, events |-> <<>>, rules |-> <<>>, start |-> "a"]

OneProgram == {SomeProgram}

Init == /\ StoreInit /\ ActionsInit /\ CompilerInit
        /\ part \in {"store", "actions", "compiler"}
        /\ (part # "store" => reading = "results")
        /\ (part # "compiler" => program = SomeProgram)
Next == /\ UNCHANGED part
        /\ \/ part = "store" /\ StoreNext /\ UNCHANGED <<actionsVars, compilerVars>>
           \/ part = "actions" /\ ActionsNext /\ UNCHANGED <<storeVars, compilerVars>>
           \/ part = "compiler" /\ CompilerNext /\ UNCHANGED <<storeVars, actionsVars>>

LoopSpec == /\ Init /\ [][Next]_<<storeVars, actionsVars, compilerVars, part>>
            /\ LoopFairness
Spec == LoopSpec /\ KernelFairness

(* The type invariants of the parts. *)
TypesOK == StoreTypeOK /\ ActionsTypeOK
=============================================================================
