------------------------------- MODULE MCChats -------------------------------
(***************************************************************************)
(* An instance of Chats for TLC.  A behaviour looks either at the tables   *)
(* -- updates, administrators and webhooks, with no worker running -- or   *)
(* at the delivery of one job of one integration, where the group upgrades *)
(* and the bot and its topics come and go.                                 *)
(***************************************************************************)
EXTENDS Chats, TLC

CONSTANTS u1, u2, p1

VARIABLE scene

MCInit ==
  \/ scene = "tables" /\ Init /\ premium
  \/ /\ scene = "delivery"
     /\ \E flaws \in {{}, {0}, {Parts}} :
          /\ InitWith(<<NewIntegration(1, p1)>>, <<NewJob(1, 1, flaws)>>)
          /\ flaws # {} => premium

MCNext ==
  /\ UNCHANGED scene
  /\ \/ scene = "tables" /\ (Telegram \/ Handler \/ Administrator \/ Webhook)
        /\ \A j \in DOMAIN outbox' : outbox'[j].flaws = {}
     \/ /\ scene = "delivery"
        /\ Telegram \/ Handler \/ ChecksAdmins \/ ChoosesTopic \/ Faulty \/ \E w \in Senders : Worker(w)
        /\ lastRow' = 1
        /\ \A u \in updates' : u.kind = "added" => u.user = Adder

MCSpec == MCInit /\ [][MCNext]_<<vars, scene>> /\ \A w \in Senders : WF_vars(Worker(w))
=============================================================================
