-------------------------------- MODULE Gate --------------------------------
(***************************************************************************)
(* Capabilities, the registry that a session sees, the visibility gate,    *)
(* and what a requirement of a capability resolves to.                     *)
(***************************************************************************)
EXTENDS Naturals, Sequences

CONSTANTS
  User,
  NoUser,
  Name,      \* names of capabilities; a registry has one of each name
  Service,   \* services with user tokens
  Scope      \* what a token of a service can cover

Mode == {"dm", "group"}

(* on_behalf_of is None, "actor", or a target nothing supports.             *)
Requirement ==
  [service : Service, scopes : SUBSET Scope, behalf : {"nobody", "actor", "other"}]

(* high is sensitivity "high"; asks says that the handler calls            *)
(* context.confirm before it has any effect.                               *)
Capability == [name : Name, origin : {"system", "base", "user"},
               owner : User \cup {NoUser}, in : SUBSET {"global", "dm", "group"},
               requires : Seq(Requirement), high : BOOLEAN, asks : BOOLEAN]

RequiresUserAuthority(cap) ==
  \E i \in DOMAIN cap.requires : cap.requires[i].behalf # "nobody"

(* Mutant of CanUse: every capability for one-to-one chats passes in them.  *)
CanUseAnyOwner(cap, m, actor, enabled) ==
  /\ RequiresUserAuthority(cap) => m = "dm"
  /\ \/ "global" \in cap.in
     \/ m = "dm" /\ "dm" \in cap.in
     \/ m = "group" /\ "group" \in cap.in /\ cap.name \in enabled

(* can_use, where enabled are the names switched on for the group.          *)
CanUse(cap, m, actor, enabled) ==
  /\ RequiresUserAuthority(cap) => m = "dm"
  /\ \/ "global" \in cap.in
     \/ m = "dm" /\ "dm" \in cap.in /\ (cap.origin = "user" => cap.owner = actor)
     \/ m = "group" /\ "group" \in cap.in /\ cap.name \in enabled

(* A user's capability that names no owner is the user's whose directory   *)
(* it was found in.                                                         *)
ForTier(cap, u) ==
  IF cap.origin = "user" /\ cap.owner = NoUser THEN [cap EXCEPT !.owner = u] ELSE cap

(* A registry is a dictionary by name.                                      *)
OneOfEachName(caps) == \A cap, other \in caps : cap.name = other.name => cap = other

(* Registering replaces what has the same name.                             *)
Over(tier, below) ==
  tier \cup {cap \in below : \A other \in tier : other.name # cap.name}

(* The registry of a session: the system tier, the base tier over it, and  *)
(* in a one-to-one chat the tier of the actor, own[actor], over both.       *)
Registered(system, base, own, m, actor) ==
  Over(IF m = "dm" THEN {ForTier(cap, actor) : cap \in own[actor]} ELSE {},
       Over(base, system))

(* What a requirement can resolve to: a credential, a link that asks for   *)
(* consent, a denial, an error.                                             *)
Resolutions(req, m) ==
  IF req.behalf = "nobody" THEN {"granted"}
  ELSE IF req.behalf # "actor" \/ m # "dm" THEN {"denied"}
  ELSE {"granted", "needs consent", "error"}

(* What the requirements of a capability can come to together, where        *)
(* resolved is what each of them can resolve to: they are asked in their    *)
(* order, and the first that is not granted decides.                        *)
Outcomes(resolved) ==
  {o \in {"needs consent", "denied", "error"} : \E i \in DOMAIN resolved :
     o \in resolved[i] /\ \A j \in 1..(i - 1) : "granted" \in resolved[j]}
  \cup {o \in {"granted"} : \A i \in DOMAIN resolved : o \in resolved[i]}

=============================================================================
