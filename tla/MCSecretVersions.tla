-------------------------- MODULE MCSecretVersions --------------------------
(***************************************************************************)
(* Secrets for TLC: what becomes of the versions of a secret, or who may   *)
(* have them.  A handler of Secret Manager has the permission evaluated    *)
(* (module Authorize) before it does anything to a version, so the two are *)
(* at work in behaviours of their own.                                     *)
(***************************************************************************)
EXTENDS SecretVersions, Sequences, TLC

CONSTANTS Folder, Org, Project, Item, Policies, Asks, Custom, MaxDepth, MaxChanges, MaxTime
VARIABLES parent, policies, granting, clock, req, changes, ever, always
walkVars == <<parent, policies, granting, clock, req, changes, ever, always>>

HandlerSymmetry == Permutations(Handler) \cup Permutations(Payload)

Binding == [member : STRING, role : STRING, until : 1..MaxTime + 1]

ASSUME WalkAssumption ==
  /\ Org \notin Folder /\ Project \notin Folder /\ Item \notin Folder
  /\ Org # Project /\ Org # Item /\ Project # Item
  /\ None \notin Folder \cup {Org, Project, Item}
  /\ Asks \subseteq Folder \cup {Org, Project, Item} /\ Policies \subseteq Seq(Binding)
  /\ Custom # "basic" /\ MaxDepth \in Nat /\ MaxTime \in Nat

\* A policy that serves everyone for one tick of the clock, and an account for two if
\* the custom role grants the permission.
Bound(member, role, until) == [member |-> member, role |-> role, until |-> until]
Granted  == <<Bound("allUsers", "basic", 1), Bound("account", "custom", 2)>>
NoneOrIt == {<<>>, Granted}
ItemOrFolder == {Item, CHOOSE f \in Folder : TRUE}

Walk == INSTANCE Authorize

\* One policy at most is there at the start.
Evaluating   == Walk!Init /\ Cardinality({r \in Walk!Resource : policies[r] # <<>>}) <= 1
Unevaluated  ==
  /\ parent = <<>> /\ policies = <<>> /\ granting = FALSE /\ clock = 0
  /\ req = [pc |-> "none"] /\ changes = 0 /\ ever = <<>> /\ always = <<>>
IsEvaluating == req.pc # "none"

MCInit == Init /\ ((Evaluating /\ turns) \/ Unevaluated)
MCNext == \/ ~IsEvaluating /\ Next /\ UNCHANGED walkVars
          \/ IsEvaluating /\ Walk!Next /\ UNCHANGED vars
MCSpec == MCInit /\ [][MCNext]_<<vars, walkVars>>

\* A grant that stays where it is, on a resource that stays above the one asked for,
\* is found, whatever moves or changes meanwhile.
SteadyGrantFound == IsEvaluating => Walk!SteadyGrantFound

\* What was revoked before an evaluation began is not honoured by it.
RevokedStaysOut == IsEvaluating => Walk!RevokedStaysOut
=============================================================================
