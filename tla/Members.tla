------------------------------- MODULE Members -------------------------------
(***************************************************************************)
(* Everything members do beside paying and managing photos, together:      *)
(* conversations and their pages, hearts, the grid and its filter bar, the *)
(* limiter, accounts and roles, and the autosaving form.  They share no    *)
(* state but the listing's status, which each part takes as an input.      *)
(***************************************************************************)
EXTENDS Reading, SavedItems, Browse, FilterBar, RequestGate, Accounts, Desk

MembersSpec ==
    ReadSpec /\ SavedSpec /\ BrowseSpec /\ BarSpec /\ GateSpec /\ AccountsSpec /\ DeskSpec

\* Types of every part.
TypeOK ==
    /\ TalkTypeOK /\ ReadTypeOK /\ SavedTypeOK /\ BrowseTypeOK /\ BarTypeOK
    /\ GateTypeOK /\ RolesTypeOK /\ AccountsTypeOK /\ DeskTypeOK
=============================================================================
