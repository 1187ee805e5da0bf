------------------------------- MODULE MCRoles ------------------------------
(***************************************************************************)
(* Two admins and the requests with which they change roles.               *)
(***************************************************************************)
EXTENDS Roles

\* Two changes.
RolesNext == (\E r \in Requests : Mutation(r)) /\ Len(audit') <= 2

RolesSpec == RolesInit /\ [][RolesNext]_roleVars
=============================================================================
