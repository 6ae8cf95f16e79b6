------------------------------ MODULE LawFiles ------------------------------
(***************************************************************************)
(* Values for TLC: the law files of the repository and one a user could    *)
(* write, the commands that tell their rules apart, and the identities the *)
(* tests of the law use.                                                   *)
(***************************************************************************)
EXTENDS Naturals, Sequences

None == <<>>
Expr(i, s, m) == [identity |-> i, service |-> s, method |-> m,
                  payload |-> None, wellFormed |-> TRUE]
Rule(expr, next) == [expr |-> expr, next |-> next]
Cmd(i, s, m, request) == [identity |-> i, service |-> s, method |-> m, request |-> request]
Altitude(n) == [take_off_altitude |-> n]

MCLaw == {"__BASE__", "REMOTE", "LOCAL"}
MCLawName == MCLaw \cup {"MANUAL"}

(* vehicle/.laws.toml *)
BaseLaw(enter) ==
    [enter |-> enter,
     allowed |-> <<Expr("server", "*", "*")>>,
     match |-> <<Rule(Expr("server", "Control", "*"), "REMOTE"),
                 Rule(Expr("server", "Mission", "Start"), "LOCAL")>>,
     failsafe |-> <<"Control.Hold">>]
RemoteLaw ==
    [enter |-> <<>>, allowed |-> <<>>,
     match |-> <<Rule(Expr("server", "Mission", "Start"), "LOCAL"),
                 Rule(Expr("server", "Control", "ReturnToHome"), "LOCAL")>>,
     failsafe |-> <<>>]
LocalLaw ==
    [enter |-> <<>>,
     allowed |-> <<Expr("internal", "Control", "*"), Expr("internal", "Compute", "*"),
                   Expr("internal", "Report", "*"), Expr("external", "Mission", "Notify")>>,
     match |-> <<Rule(Expr("server", "Mission", "Stop"), "REMOTE")>>,
     failsafe |-> <<"Control.ReturnToHome">>]

ShippedLaw == [l \in MCLaw |->
    CASE l = "__BASE__" -> BaseLaw(<<"Compute.AddDatasinks">>)
      [] l = "REMOTE" -> RemoteLaw
      [] l = "LOCAL" -> LocalLaw]

(* vehicle/test/configs/law_test/laws.toml: a payload matcher, another enter list. *)
TestLaw == [ShippedLaw EXCEPT
    !["__BASE__"] = BaseLaw(<<"Control.Connect">>),
    !["LOCAL"].match = Append(@,
        Rule([Expr("internal", "Control", "TakeOff") EXCEPT !.payload = Altitude(10)], "REMOTE"))]

(***************************************************************************)
(* A law file as a user could write one: LOCAL must start the camera and   *)
(* stop the log before it is entered, a rule names a law that does not     *)
(* exist, a matcher does not parse, and the failsafe of REMOTE is the kind *)
(* of entry .laws.toml:44 has, the name of a law among the commands.       *)
(***************************************************************************)
UserLaw == [TestLaw EXCEPT
    !["LOCAL"].enter = <<"Control.Arm", "Compute.AddDatasinks">>,
    !["LOCAL"].match = <<Rule([Expr("server", "*", "*") EXCEPT !.wellFormed = FALSE], "LOCAL"),
                         Rule([Expr("internal", "Control", "TakeOff")
                               EXCEPT !.payload = Altitude(10)], "MANUAL")>>,
    !["REMOTE"].failsafe = <<"Control.Hold", "REMOTE">>]

(* The same without that entry: the handler survives its failsafe. *)
MendedLaw == [UserLaw EXCEPT !["REMOTE"].failsafe = <<"Control.Hold">>]

MCKernelCommand == {"Compute.AddDatasinks", "Control.Connect", "Control.Arm",
                    "Control.Hold", "Control.ReturnToHome", "REMOTE"}
MCMalformed == {"REMOTE"}
NoStartup == <<>>
OneStartup == <<"Control.Connect">>

Hold  == Cmd("server", "Control", "Hold", None)
Start == Cmd("server", "Mission", "Start", None)
Stop  == Cmd("server", "Mission", "Stop", None)
Arm   == Cmd("internal", "Control", "Arm", None)
TakeOffTo(n) == Cmd("internal", "Control", "TakeOff", Altitude(n))

OperatorCommands == {Hold, Start, Stop, Arm}
KernelCommands == {Hold, Start, TakeOffTo(10)}
UserCommands == {Hold, Start, TakeOffTo(10), TakeOffTo(0),
                 Cmd("authority", "Control", "Arm", None), Cmd("", "Control", "Arm", None)}

==============================================================================
