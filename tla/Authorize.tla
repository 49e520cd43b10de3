----------------------------- MODULE Authorize -----------------------------
(***************************************************************************)
(* One evaluation of a permission (internal/kernel/authz/iam.go) while     *)
(* other requests change what it reads.  Evaluate walks from the resource  *)
(* up the folders to the organization, then reads the policy of each       *)
(* resource on the way and the custom roles its bindings name, every read  *)
(* a statement of its own.  Evaluations write nothing, so one stands for   *)
(* all of them.  The root principal is allowed before any of this.         *)
(***************************************************************************)
EXTENDS Integers, Sequences, SequencesExt, FiniteSets

CONSTANTS
  Folder, Org, Project,
  Item,           \* a resource of Project
  Policies,       \* sequences of bindings [member, role, until]: until bounds request.time
  Asks,           \* the resources that evaluations are about
  Custom,         \* a custom role
  MaxDepth,       \* crmAncestryMaxDepth: 32, and here the number of folders
  MaxChanges,     \* bound: writes by other requests, while evaluations run
  MaxTime,        \* bound: the lab clock
  None

VARIABLES
  parent,         \* table crm_folders: the parent of each folder
  policies,       \* table iam_policies: the bindings of each resource
  granting,       \* table iam_custom_roles: Custom includes the permission and is enabled
  clock,
  req,            \* the evaluation
  changes,
  ever, always    \* history: what held at some time since it began, and all the time

vars == <<parent, policies, granting, clock, req, changes, ever, always>>

Resource  == Folder \cup {Org, Project, Item}
Principal == {"account", "user", "allUsers"}    \* "user": of Identity Toolkit; allUsers: no token
Running   == req.pc \in {"parents", "policy", "binding", "role"}

\* What the evaluation reads, as it is.
World ==
  [links |-> {<<f, parent[f]>> : f \in {f \in Folder : parent[f] # None}}
               \cup {<<Project, Org>>, <<Item, Project>>},
   bound |-> UNION {{<<r, b>> : b \in Range(policies[r])} : r \in Resource},
   roles |-> {"basic"} \cup (IF granting THEN {Custom} ELSE {}),
   open  |-> {u \in 1..MaxTime + 1 : clock < u}]

resourcePolicyChain(r) == IF r = Item THEN <<Item, Project>> ELSE <<r>>

Asked(p, r) ==
  [pc |-> "parents", principal |-> p, resource |-> r, chain |-> resourcePolicyChain(r),
   reads |-> 0, next |-> 1, left |-> <<>>]

Init ==
  /\ parent \in [Folder -> Folder \cup {Org, None}]
  /\ \A f \in Folder : parent[f] \in Folder => parent[parent[f]] # None
  /\ policies \in [Resource -> Policies]
  /\ granting \in BOOLEAN
  /\ clock = 0
  /\ \E p \in Principal, r \in Asks : req = Asked(p, r)
  /\ changes = 0
  /\ ever = World /\ always = World

-----------------------------------------------------------------------------
(* The evaluation.                                                         *)

Goes(r) == req' = r /\ UNCHANGED <<parent, policies, granting, clock, changes, ever, always>>

\* A request whose handler asks for the permission.
Evaluate ==
  /\ ~Running
  /\ \E p \in Principal, r \in Asks : req' = Asked(p, r)
  /\ ever' = World /\ always' = World
  /\ UNCHANGED <<parent, policies, granting, clock, changes>>

\* A folder that is marked deleted keeps its row and its parent.
CRMParent(r) ==
  CASE r = Org     -> None
    [] r = Project -> Org
    [] OTHER       -> parent[r]

\* Mutant: the last level is not read.
ReadParentShort ==
  /\ req.pc = "parents"
  /\ LET up   == CRMParent(Last(req.chain))
         more == req.reads + 1 < MaxDepth /\ up # None /\ up \notin Range(req.chain)
     IN  Goes([req EXCEPT !.pc = IF more /\ up # Org THEN "parents" ELSE "policy",
                          !.chain = IF more THEN Append(@, up) ELSE @,
                          !.reads = @ + 1])

\* policyChain: one more level, unless there is none or it was met before.
ReadParent ==
  /\ req.pc = "parents"
  /\ LET up   == CRMParent(Last(req.chain))
         more == req.reads < MaxDepth /\ up # None /\ up \notin Range(req.chain)
     IN  Goes([req EXCEPT !.pc = IF more /\ up # Org THEN "parents" ELSE "policy",
                          !.chain = IF more THEN Append(@, up) ELSE @,
                          !.reads = @ + 1])

\* GetIAMPolicyJSON of the next resource on the chain.
ReadPolicy ==
  /\ req.pc = "policy"
  /\ Goes(IF req.next > Len(req.chain) THEN [req EXCEPT !.pc = "denied"]
          ELSE [req EXCEPT !.pc = "binding", !.left = policies[req.chain[req.next]], !.next = @ + 1])

\* Mutant: what is granted to everyone is granted to Toolkit users.
memberInAnyone(b, p) ==
  IF p = "allUsers" THEN b.member = p ELSE b.member \in {p, "allUsers", "allAuthenticatedUsers"}

\* memberIn, and exactMemberIn for a request without a token.
memberIn(b, p) ==
  \/ b.member = p
  \/ p = "account" /\ b.member \in {"allUsers", "allAuthenticatedUsers"}

\* conditionAllows, at the time it is asked.
conditionAllows(b) == clock < b.until

Refuse == [req EXCEPT !.pc = "binding", !.left = Tail(@)]
Allow  == [req EXCEPT !.pc = "allowed", !.left = <<>>]

\* The next binding of the policy at hand; a predefined role is a table in memory.
TryBinding ==
  /\ req.pc = "binding"
  /\ \/ req.left = <<>> /\ Goes([req EXCEPT !.pc = "policy"])
     \/ /\ req.left # <<>>
        /\ LET b == Head(req.left)
           IN  Goes(IF ~memberIn(b, req.principal) \/ ~conditionAllows(b) THEN Refuse
                    ELSE IF b.role = Custom THEN [req EXCEPT !.pc = "role"]
                    ELSE IF b.role = "basic" THEN Allow
                    ELSE Refuse)

\* roleGrants of a custom role: GetRoleIncludedPermissions.
ReadRole ==
  /\ req.pc = "role"
  /\ Goes(IF granting THEN Allow ELSE Refuse)

-----------------------------------------------------------------------------
(* The writes of other requests, while the evaluation runs.                *)

Changed ==
  /\ Running /\ changes < MaxChanges
  /\ changes' = changes + 1
  /\ ever'   = [k \in DOMAIN ever   |-> ever[k] \cup World'[k]]
  /\ always' = [k \in DOMAIN always |-> always[k] \cap World'[k]]
  /\ UNCHANGED req

\* The destination exists; that it is not below the folder is not checked.
MoveFolder ==
  /\ \E f \in Folder, to \in Folder \cup {Org} :
       /\ parent[f] # None
       /\ to \in Folder => parent[to] # None
       /\ parent' = [parent EXCEPT ![f] = to]
  /\ UNCHANGED <<policies, granting, clock>>
  /\ Changed

CreateFolder ==
  /\ \E f \in Folder, under \in Folder \cup {Org} :
       /\ parent[f] = None
       /\ under \in Folder => parent[under] # None
       /\ parent' = [parent EXCEPT ![f] = under]
  /\ UNCHANGED <<policies, granting, clock>>
  /\ Changed

\* A policy is replaced as a whole.
PutIAMPolicyJSON ==
  /\ \E r \in Resource, policy \in Policies :
       policies[r] # policy /\ policies' = [policies EXCEPT ![r] = policy]
  /\ UNCHANGED <<parent, granting, clock>>
  /\ Changed

\* UpdateCustomRole, DeleteCustomRole and UndeleteCustomRole.
ChangeCustomRole ==
  /\ granting' = ~granting
  /\ UNCHANGED <<parent, policies, clock>>
  /\ Changed

\* Time goes on, and the lab clock is set, to any time.
SetClock ==
  /\ clock' \in (0..MaxTime) \ {clock}
  /\ UNCHANGED <<parent, policies, granting>>
  /\ Changed

Next ==
  \/ Evaluate \/ ReadParent \/ ReadPolicy \/ TryBinding \/ ReadRole
  \/ MoveFolder \/ CreateFolder \/ PutIAMPolicyJSON \/ ChangeCustomRole \/ SetClock

Spec == Init /\ [][Next]_vars

-----------------------------------------------------------------------------
(* What an evaluation promises, from the meaning of policies.              *)

\* The least set that holds a resource and what a link leads to from one of its own.
Above(links, r) ==
  {x \in Resource : \A S \in SUBSET Resource :
     (r \in S /\ \A l \in links : l[1] \in S => l[2] \in S) => x \in S}

\* The members that stand for a principal.
Stands(p) ==
  CASE p = "account"  -> {"account", "allUsers", "allAuthenticatedUsers"}
    [] p = "user"     -> {"user"}
    [] p = "allUsers" -> {"allUsers"}

Grants(view) ==
  \E x \in view.bound :
    /\ x[1] \in Above(view.links, req.resource)
    /\ x[2].member \in Stands(req.principal)
    /\ x[2].role \in view.roles
    /\ x[2].until \in view.open

\* A grant that stays where it is, on a resource that stays above the one asked for,
\* is found, however the rest of the tree and of the policies changes meanwhile, and
\* though folders may have been moved into a cycle.
SteadyGrantFound == req.pc = "denied" => ~Grants(always)

\* Nobody is allowed in without a binding that was there, on a resource that could be
\* reached, for a role that granted the permission, under a condition that held, each at
\* some time since the evaluation began: what was revoked before it began is not honoured.
RevokedStaysOut == req.pc = "allowed" => Grants(ever)
=============================================================================
