------------------------------- MODULE LawSpec -------------------------------
(***************************************************************************)
(* The control law as data: what the law file (vehicle/.laws.toml) says,   *)
(* and the pure functions that LawAuthority computes from it.              *)
(*                                                                         *)
(* A command is what the interceptor assembles from a call: the caller's   *)
(* identity, the service, the method, and the fields of the request.  A    *)
(* matcher is an expression of the law file, "identity.service.method" or  *)
(* "identity.service.method|{json}", each name possibly the wildcard "*".  *)
(***************************************************************************)
EXTENDS Integers, Sequences

CONSTANTS
    Law,            \* the states the law file defines
    LawName,        \* every name a match rule may switch to, known or not
    Base,           \* '__BASE__'
    Remote,         \* 'REMOTE'
    NoLaw,          \* None: no law in force yet, or no rule matched
    KernelCommand,  \* the commands the authority sends to services itself
    Malformed,      \* those of them that name no method (no '.' in the text)
    Startup,        \* the --startup commands, in order
    LawFile         \* Law -> [enter, allowed, match, failsafe]

(***************************************************************************)
(* rules['match'] may be absent from a law: it is then the empty sequence  *)
(* here.  failsafe stands for failsafes['dc_server'], the only failsafe    *)
(* the kernel ever triggers; it too is empty in a law without one.         *)
(***************************************************************************)
ASSUME LawFileAssumption ==
    /\ Base \in Law /\ Remote \in Law /\ Law \subseteq LawName
    /\ NoLaw \notin LawName
    /\ Startup \in Seq(KernelCommand)
    /\ \A l \in Law :
          /\ LawFile[l].enter \in Seq(KernelCommand)
          /\ LawFile[l].failsafe \in Seq(KernelCommand)
          /\ \A i \in 1..Len(LawFile[l].match) : LawFile[l].match[i].next \in LawName

Wildcard == "*"

(* MessageToDict leaves out a scalar field that holds its default value. *)
DefaultValue == 0
Visible(request) == {f \in DOMAIN request : request[f] # DefaultValue}

NameMatches(pattern, name) == pattern \in {Wildcard, name}

(***************************************************************************)
(* LawAuthority.check_equal.  A matcher that does not parse raises inside  *)
(* the try block and matches nothing (wellFormed = FALSE); one without a   *)
(* '|' has the empty payload.                                              *)
(***************************************************************************)
CheckEqual(command, matcher) ==
    /\ matcher.wellFormed
    /\ NameMatches(matcher.identity, command.identity)
    /\ NameMatches(matcher.service, command.service)
    /\ NameMatches(matcher.method, command.method)
    /\ \A f \in DOMAIN matcher.payload :
          f \in Visible(command.request) /\ command.request[f] = matcher.payload[f]

(* The test of LawAuthority.allows: the law's own expressions, then the base's. *)
AllowedBy(l, command) ==
    \E i \in DOMAIN LawFile[l].allowed : CheckEqual(command, LawFile[l].allowed[i])

(* Faulty variant: the base's expressions are forgotten. *)
AllowsOwn(l, command) == AllowedBy(l, command)

Allows(l, command) == AllowedBy(l, command) \/ AllowedBy(Base, command)

(* The rules of l that match, and the state the first of them switches to. *)
Hits(l, command) ==
    {i \in 1..Len(LawFile[l].match) : CheckEqual(command, LawFile[l].match[i].expr)}

FirstHit(l, command) ==
    IF Hits(l, command) = {} THEN NoLaw
    ELSE LawFile[l].match[CHOOSE i \in Hits(l, command) :
                             \A j \in Hits(l, command) : i <= j].next

(***************************************************************************)
(* The two loops of LawAuthority.match.  The base loop runs even when the  *)
(* first loop has found a rule, and overwrites what it found.              *)
(***************************************************************************)
NextLaw(l, command) ==
    IF FirstHit(Base, command) # NoLaw THEN FirstHit(Base, command)
    ELSE FirstHit(l, command)

(* set_law falls back to REMOTE for a name the law file does not define. *)
Resolve(name) == IF name \in Law THEN name ELSE Remote

==============================================================================
