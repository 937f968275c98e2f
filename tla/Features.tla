------------------------------- MODULE Features -------------------------------
(***************************************************************************)
(* Resolving capabilities: FeatureSet::from_csv runs resolve twice, for    *)
(* what the deployment supports and for the deployment-wide application    *)
(* request; for_app_csv runs it again for a smaller request.  Each step    *)
(* below is one feature visited by the loop of resolve.                    *)
(*                                                                         *)
(* The table of integrations is informative and the list of conflicts is   *)
(* empty, so neither changes a result.                                     *)
(***************************************************************************)
EXTENDS Naturals, Sequences

\* The feature sets that SOCIAL_FEATURES or an application may name, parsed.
CONSTANT FeatureRequests

VARIABLES phase,       \* which resolution: "deployment", "default" or "app"
          status,      \* "check", "scan", "ok" or the error returned
          requested, available, effective,   \* arguments and local of resolve
          i, changed,  \* the feature the loop visits, and its flag
          supported    \* deployment_supported

resolverVars == <<phase, status, requested, available, effective, i, changed, supported>>

\* Feature::ALL, in the order resolve visits it.
FeatureOrder == <<"profiles", "media", "posts", "comments", "reactions", "votes",
                  "follows", "follow_requests", "saves", "blocks", "mutes",
                  "groups", "chat", "moderation">>

Names == {FeatureOrder[k] : k \in 1..Len(FeatureOrder)}

ASSUME FeatureRequestsAssumption == FeatureRequests \subseteq SUBSET Names

Requires(f) == CASE f = "profiles" -> {}
                 [] f = "follow_requests" -> {"follows"}
                 [] f \in {"comments", "reactions", "votes", "saves"} -> {"posts"}
                 [] OTHER -> {"profiles"}

ResolverTypeOK == /\ phase \in {"deployment", "default", "app"}
                  /\ status \in {"check", "scan", "ok", "unsupported", "unsupportedDependency"}
                  /\ requested \in FeatureRequests
                  /\ available \subseteq Names
                  /\ effective \subseteq Names
                  /\ i \in 1..(Len(FeatureOrder) + 1)
                  /\ changed \in BOOLEAN
                  /\ supported \subseteq Names

ResolverInit == /\ phase = "deployment"
                /\ status = "check"
                /\ requested \in FeatureRequests
                /\ available = Names
                /\ effective = {}
                /\ i = 1
                /\ changed = FALSE
                /\ supported = {}

-----------------------------------------------------------------------------
(* resolve.                                                                *)

CheckRequested ==
    /\ status = "check"
    /\ status' = IF requested \subseteq available THEN "scan" ELSE "unsupported"
    /\ effective' = requested
    /\ i' = 1
    /\ changed' = FALSE
    /\ UNCHANGED <<phase, requested, available, supported>>

Skip ==
    /\ status = "scan"
    /\ i <= Len(FeatureOrder)
    /\ FeatureOrder[i] \notin effective
    /\ i' = i + 1
    /\ UNCHANGED <<phase, status, requested, available, effective, changed, supported>>

\* Mutant: the loop does not notice what it adds.
VisitUnnoticed ==
    LET needs == Requires(FeatureOrder[i]) IN
    /\ status = "scan"
    /\ i <= Len(FeatureOrder)
    /\ FeatureOrder[i] \in effective
    /\ IF needs \subseteq available
         THEN /\ effective' = effective \union needs
              /\ changed' = changed
              /\ i' = i + 1
              /\ status' = status
         ELSE /\ status' = "unsupportedDependency"
              /\ UNCHANGED <<effective, i, changed>>
    /\ UNCHANGED <<phase, requested, available, supported>>

\* Mutant: every pass counts as a change.
VisitAlwaysChanged ==
    LET needs == Requires(FeatureOrder[i]) IN
    /\ status = "scan"
    /\ i <= Len(FeatureOrder)
    /\ FeatureOrder[i] \in effective
    /\ IF needs \subseteq available
         THEN /\ effective' = effective \union needs
              /\ changed' = TRUE
              /\ i' = i + 1
              /\ status' = status
         ELSE /\ status' = "unsupportedDependency"
              /\ UNCHANGED <<effective, i, changed>>
    /\ UNCHANGED <<phase, requested, available, supported>>

Visit ==
    LET needs == Requires(FeatureOrder[i]) IN
    /\ status = "scan"
    /\ i <= Len(FeatureOrder)
    /\ FeatureOrder[i] \in effective
    /\ IF needs \subseteq available
         THEN /\ effective' = effective \union needs
              /\ changed' = (changed \/ ~(needs \subseteq effective))
              /\ i' = i + 1
              /\ status' = status
         ELSE /\ status' = "unsupportedDependency"
              /\ UNCHANGED <<effective, i, changed>>
    /\ UNCHANGED <<phase, requested, available, supported>>

\* Mutant: the next pass starts before the first feature.
EndPassAtZero ==
    /\ status = "scan"
    /\ i > Len(FeatureOrder)
    /\ status' = IF changed THEN "scan" ELSE "ok"
    /\ i' = 0
    /\ changed' = FALSE
    /\ UNCHANGED <<phase, requested, available, effective, supported>>

EndPass ==
    /\ status = "scan"
    /\ i > Len(FeatureOrder)
    /\ status' = IF changed THEN "scan" ELSE "ok"
    /\ i' = 1
    /\ changed' = FALSE
    /\ UNCHANGED <<phase, requested, available, effective, supported>>

Resolve == CheckRequested \/ Skip \/ Visit \/ EndPass

-----------------------------------------------------------------------------
(* Who calls it.                                                           *)

\* Mutant: the deployment supports what it names, without what that requires.
DefaultRequestUnclosed ==
    /\ phase = "deployment"
    /\ status = "ok"
    /\ phase' = "default"
    /\ status' = "check"
    /\ supported' = requested
    /\ available' = requested
    /\ UNCHANGED <<requested, effective, i, changed>>

\* from_csv resolves the same request within what the deployment now supports.
DefaultRequest ==
    /\ phase = "deployment"
    /\ status = "ok"
    /\ phase' = "default"
    /\ status' = "check"
    /\ supported' = effective
    /\ available' = effective
    /\ UNCHANGED <<requested, effective, i, changed>>

\* for_app_csv, as often as applications ask.
AppRequest ==
    /\ phase # "deployment"
    /\ status \notin {"check", "scan"}
    /\ phase' = "app"
    /\ status' = "check"
    /\ requested' \in FeatureRequests
    /\ available' = supported
    /\ UNCHANGED <<effective, i, changed, supported>>

ResolverNext == Resolve \/ DefaultRequest \/ AppRequest

ResolverSpec == ResolverInit /\ [][ResolverNext]_resolverVars

\* A call of resolve runs to its end: it is a loop without waits.
FairResolverSpec == ResolverSpec /\ WF_resolverVars(Resolve)

-----------------------------------------------------------------------------
(* Properties.                                                             *)

Closed(S) == \A f \in S : Requires(f) \subseteq S

\* Every feature that resolve enables has everything it requires, whatever the
\* order in which the loop visits features, and the request itself is in.
ResolvedIsClosed ==
    status = "ok" => requested \subseteq effective /\ Closed(effective)

\* Nothing is enabled that nobody asked for: a feature beyond the request is
\* required by another enabled one.
NothingUnasked ==
    status = "ok" =>
        \A f \in effective \ requested : \E g \in effective : f \in Requires(g)

\* An application never gets a capability the deployment does not support, and
\* the deployment-wide request gets all it supports (README.md:138-142).
BoundedByDeployment ==
    /\ phase # "deployment" /\ status = "ok" => effective \subseteq supported
    /\ phase = "default" /\ status = "ok" => effective = supported

\* What a deployment supports is closed, so a request within it never fails for a
\* missing dependency: the only error is a feature outside the deployment.
DependencyNeverMissing == status # "unsupportedDependency"

\* Every resolution ends.
ResolutionEnds == status \in {"check", "scan"} ~> status \notin {"check", "scan"}
=============================================================================
