------------------------------ MODULE Interface ------------------------------
(***************************************************************************)
(* Installations and Menu in one process: the setup redirect, the tokens   *)
(* and the webhook connections beside the private chat.  They share no     *)
(* variable; Menu sees of an installation who made it.                     *)
(***************************************************************************)
EXTENDS Installations, Menu

\* The types of both: what GitHub's installations, callers and redirects in
\* service hold (storage/installations.go), and what stacks, menus and prompts
\* do (ui/navstore.go).
TypesOK == TypeOK /\ MenuTypeOK
=============================================================================
