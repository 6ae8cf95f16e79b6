-------------------------- MODULE MissionCompiler --------------------------
(***************************************************************************)
(* The compiler of mission files (sdk/.../dsl/compiler) and the walk of    *)
(* the FSM over what it accepts.  A program is what the parser delivers:   *)
(* declarations of data, actions and events in the order of the file, the  *)
(* rules of its During blocks and its Start.                               *)
(*                                                                         *)
(* A declaration has one attribute that may be left out, name a datum or   *)
(* construct one inline; a class has one field, of a model type, Str or    *)
(* Plain.  What pydantic says of numbers is left out, and so is what it    *)
(* says of the dump of a mission when a state is run: MissionActions has   *)
(* that.                                                                   *)
(***************************************************************************)
EXTENDS Naturals, Sequences, FiniteSets, SequencesExt

CONSTANTS
    Type,           \* names of classes a program may write
    DataTypes,      \* those registered as data, ...
    ActionTypes,    \* ... as actions, ...
    EventTypes,     \* ... as events: three registries, each asked for its own
    FieldType,      \* the model type of the field of each class, or Str, or Plain
    Required,       \* classes whose field has no default
    Name,           \* identifiers of data, actions and events, "terminate" apart
    Str,            \* a string, which a name is as well
    Plain,          \* neither a model type nor a string: no name fits
    Program         \* the programs considered

ASSUME CompilerAssumption ==
    /\ DataTypes \cup ActionTypes \cup EventTypes \cup Required \subseteq Type
    /\ FieldType \in [Type -> DataTypes \cup {Str, Plain}]
    /\ {Str, Plain} \cap Type = {} /\ Str # Plain

VARIABLES
    program, result,    \* the program, and what build_mission makes of it
    state               \* of the FSM: an action, "terminate", or "crashed"

compilerVars == <<program, result, state>>

(* Values of an attribute; an instance is all that is left of a resolved one. *)
Absent == [kind |-> "absent"]
Ref(n) == [kind |-> "name", name |-> n]
Inline(t, v) == [kind |-> "inline", type |-> t, arg |-> v]
Instance(t) == [kind |-> "instance", type |-> t]
Raised == [kind |-> "raised"]

(* What the grammar lets a file say, a constructor inside a constructor apart. *)
Plainly == {Absent} \cup {Ref(n) : n \in Name}
Declaration == [id : Name, type : Type, value : Plainly \cup {Inline(t, v) : t \in Type, v \in Plainly}]
Rule == [action : Name, event : Name \cup {"done"}, next : Name \cup {"terminate"}]
Text == [data : Seq(Declaration), actions : Seq(Declaration), events : Seq(Declaration),
         rules : Seq(Rule), start : Name \cup {"terminate"}]

ASSUME ProgramAssumption ==
    /\ Program \subseteq Text
    /\ {"none", "terminate", "crashed"} \cap Name = {}

Declared(decls) == {decls[i].id : i \in DOMAIN decls}
(* A name declared again is another value at the place of the first (a dict). *)
Decl(decls, n) == decls[Max({i \in DOMAIN decls : decls[i].id = n})]
Place(decls, n) == Min({i \in DOMAIN decls : decls[i].id = n})
Earlier(decls, n) == {m \in Declared(decls) : Place(decls, m) < Place(decls, n)}

(* Pydantic takes an instance of the type of the field, a name for a string, or nothing if there
   is a default. *)
Fits(t, v) ==
    \/ v = Absent /\ t \notin Required
    \/ v.kind = "name" /\ FieldType[t] = Str
    \/ v = Instance(FieldType[t])

----------------------------------------------------------------------------
(* The resolver.  table: each datum with its type and its attribute as resolved so far. *)

(* Faulty variant: the declared type is believed, and nothing instantiated. *)
InstantiateDatumLazy(table, n) == Instance(table[n].type)

InstantiateDatum(table, n) ==
    IF table[n].type \in DataTypes /\ Fits(table[n].type, table[n].value)
    THEN Instance(table[n].type) ELSE Raised

ResolveName(table, v, fieldType) ==
    IF v.kind = "name" /\ fieldType \in DataTypes /\ v.name \in DOMAIN table
    THEN InstantiateDatum(table, v.name) ELSE v

(* An inline constructor comes first, whatever the field; its argument is resolved by its own. *)
Resolve(table, v, fieldType) ==
    IF v.kind # "inline" THEN ResolveName(table, v, fieldType)
    ELSE IF v.type \notin DataTypes THEN Raised
    ELSE LET arg == ResolveName(table, v.arg, FieldType[v.type])
         IN  IF Fits(v.type, arg) THEN Instance(v.type) ELSE Raised

ResolveDecl(table, d, registry) ==
    IF d.type \in registry THEN Resolve(table, d.value, FieldType[d.type]) ELSE Raised

RawData(p) == [n \in Declared(p.data) |-> Decl(p.data, n)]
(* resolve_symbols, first part: in the order of the file, each entry replaced in place. *)
ResolveNext(p, table, i) ==
    LET n == p.data[i].id
    IN  IF Place(p.data, n) = i THEN [table EXCEPT ![n].value = ResolveDecl(table, table[n], DataTypes)]
        ELSE table
ResolvedUpTo(p) ==
    LET tables[i \in 0..Len(p.data)] ==
            IF i = 0 THEN RawData(p) ELSE ResolveNext(p, tables[i - 1], i)
    IN  tables
ResolvedData(p) == ResolvedUpTo(p)[Len(p.data)]
(* Second and third part: actions and events, by the data so resolved. *)
ResolvedUses(p, decls, registry) ==
    [n \in Declared(decls) |->
        [Decl(decls, n) EXCEPT !.value = ResolveDecl(ResolvedData(p), Decl(decls, n), registry)]]
ResolvedActions(p) == ResolvedUses(p, p.actions, ActionTypes)
ResolvedEvents(p) == ResolvedUses(p, p.events, EventTypes)

(* validate_mission_ir instantiates everything again. *)
Validated(table) == \A n \in DOMAIN table : Fits(table[n].type, table[n].value)

----------------------------------------------------------------------------
(* The transformer: a later rule for the same action and event replaces an earlier one. *)
RulesFor(p, a, e) == {i \in DOMAIN p.rules : p.rules[i].action = a /\ p.rules[i].event = e}
(* Faulty variant: the first rule stays. *)
TransitionFirst(p, a, e) ==
    IF RulesFor(p, a, e) = {} THEN "terminate" ELSE p.rules[Min(RulesFor(p, a, e))].next
Transition(p, a, e) ==
    IF RulesFor(p, a, e) = {} THEN "terminate" ELSE p.rules[Max(RulesFor(p, a, e))].next
(* Every declared action has at least "done", which ends the mission. *)
EventsOf(p, a) == {r.event : r \in {r \in ToSet(p.rules) : r.action = a}}
                      \cup IF a \in Declared(p.actions) THEN {"done"} ELSE {}
Transitions(p) ==
    [a \in Declared(p.actions) \cup {r.action : r \in ToSet(p.rules)} |->
        [e \in EventsOf(p, a) |-> Transition(p, a, e)]]

Accepted(p) ==
    /\ Validated(ResolvedData(p))
    /\ Validated(ResolvedActions(p)) /\ Validated(ResolvedEvents(p))

NoMission == [accepted |-> FALSE]
BuildMission(p) ==
    IF Accepted(p)
    THEN [accepted |-> TRUE, actions |-> ResolvedActions(p), events |-> ResolvedEvents(p),
          start |-> p.start, transitions |-> Transitions(p)]
    ELSE NoMission

----------------------------------------------------------------------------
CompilerInit == program \in Program /\ result = NoMission /\ state = "none"

(* CompileMission, Upload and Start of what was accepted. *)
Compile ==
    /\ state = "none"
    /\ result' = BuildMission(program)
    /\ state' = IF result'.accepted THEN program.start ELSE "terminate"
    /\ UNCHANGED program

(* run_state looks up the action and the events it can leave it by ... *)
Listed(a) == IF a \in DOMAIN result.transitions THEN DOMAIN result.transitions[a] ELSE {}
Runs(a) == a \in DOMAIN result.actions /\ Listed(a) \ {"done"} \subseteq DOMAIN result.events

(* ... and goes where the one that wins leads. *)
Walk ==
    /\ state \notin {"none", "terminate", "crashed"} /\ Runs(state)
    /\ \E e \in Listed(state) : state' = result.transitions[state][e]
    /\ UNCHANGED <<program, result>>

WalkCrashes ==
    /\ state \notin {"none", "terminate", "crashed"} /\ ~Runs(state)
    /\ state' = "crashed"
    /\ UNCHANGED <<program, result>>

CompilerNext == Compile \/ Walk \/ WalkCrashes
CompilerSpec == CompilerInit /\ [][CompilerNext]_compilerVars

----------------------------------------------------------------------------
(***************************************************************************)
(* What a program must be, said of its text and not of the passes over it: *)
(* every class is registered for its use, every field that needs a value   *)
(* has one, and a name in a field of a model type stands for a datum of    *)
(* that type, declared earlier or with nothing in it to resolve; a string  *)
(* takes any name.                                                         *)
(***************************************************************************)
Bare(d) == d.value = Absent \/ (d.value.kind = "name" /\ FieldType[d.type] = Str)
Known(p, w, t, names) ==
    /\ w.kind = "name" /\ t \in DataTypes /\ w.name \in Declared(p.data)
    /\ Decl(p.data, w.name).type = t
    /\ w.name \in names \/ Bare(Decl(p.data, w.name))
Given(p, w, t, names) ==
    \/ w = Absent /\ t \notin Required
    \/ w.kind = "name" /\ FieldType[t] = Str
    \/ Known(p, w, FieldType[t], names)
WellTyped(p, d, registry, names) ==
    /\ d.type \in registry
    /\ IF d.value.kind = "inline"
       THEN /\ d.value.type \in DataTypes /\ d.value.type = FieldType[d.type]
            /\ Given(p, d.value.arg, d.value.type, names)
       ELSE Given(p, d.value, d.type, names)
WellFormed(p) ==
    LET Uses(decls, registry) ==
            \A n \in Declared(decls) : WellTyped(p, Decl(decls, n), registry, Declared(p.data))
    IN  /\ \A n \in Declared(p.data) : WellTyped(p, Decl(p.data, n), DataTypes, Earlier(p.data, n))
        /\ Uses(p.actions, ActionTypes) /\ Uses(p.events, EventTypes)

(***************************************************************************)
(* The three passes accept exactly the well-formed programs: what they     *)
(* leave unresolved, or instantiate too early, they refuse.                *)
(***************************************************************************)
AcceptsWellFormed == state # "none" => result.accepted = WellFormed(program)

(* Every name a program uses is declared: the compiler does not ask for it. *)
Closed(p) ==
    /\ p.start \in Declared(p.actions)
    /\ \A r \in ToSet(p.rules) :
          /\ r.event \in Declared(p.events) \cup {"done"}
          /\ r.next \in Declared(p.actions) \cup {"terminate"}

(* The file has a rule from a to b, and no later one contradicts it. *)
Ruled(p, a, b) ==
    \E i \in DOMAIN p.rules :
        /\ p.rules[i].action = a /\ p.rules[i].next = b
        /\ \A j \in DOMAIN p.rules : j > i =>
              <<p.rules[j].action, p.rules[j].event>> # <<a, p.rules[i].event>>

(***************************************************************************)
(* A mission goes from an action to another only by a rule the file has    *)
(* for the two, and a closed program is walked to its end, or for ever,    *)
(* without a name that cannot be looked up.                                *)
(***************************************************************************)
StepsAreRules ==
    [][/\ {state, state'} \subseteq Name => Ruled(program, state, state')
       /\ state' = "crashed" => ~Closed(program)]_compilerVars

=============================================================================
